------------------------ MODULE OfflineSync_proofs ------------------------
(***************************************************************************)
(* Proofs about OfflineSync for any number of workers, records, items and  *)
(* retries: what a synced record promises (SyncedIsBacked), that it is     *)
(* never taken back (SyncedIsFinal), that racing writers of the stock      *)
(* never invent a sale (NoPhantomSale) and keep the sold mark right        *)
(* (SoldIffEmpty).  Each invariant rests on those before it.  With one     *)
(* request at a time no decrement is lost either (StockConserved), and     *)
(* conflicts are what ran out of attempts (ConflictIsExhausted).           *)
(***************************************************************************)
EXTENDS OfflineSync, TLAPS

Busy == {"create", "lines", "read", "write", "mark", "fail"}

HasTx == {"lines", "read", "write", "mark"}

Filled == {"read", "write", "mark"}

(* Where a worker stands in the record and the line items it works on.     *)
Position ==
  \A w \in Workers :
    /\ pc[w] \in Busy => cur[w] \in Records
    /\ pc[w] \in HasTx => mytx[w] \in TxIds
    /\ pc[w] \in Steps \ (HasTx \cup {"fail"}) => line[w] = 0
    /\ pc[w] \in HasTx => line[w] <= LineCount(cur[w])
    /\ pc[w] = "write" => line[w] < LineCount(cur[w])

BasicInv == TypeOK /\ Position

(* A transaction under construction belongs to one worker, and holds as    *)
(* many line items as the worker has inserted.                             *)
ConstructionOf(w) ==
  /\ pc[w] \in HasTx => tx[mytx[w]].record = cur[w]
  /\ pc[w] \in Steps \ (HasTx \cup {"fail"}) => mytx[w] = None
  /\ mytx[w] \in TxIds => tx[mytx[w]].record \in Records
  /\ pc[w] = "lines" => tx[mytx[w]].lines = line[w]
  /\ pc[w] \in Filled => tx[mytx[w]].lines = LineCount(cur[w])
  /\ (pc[w] = "mark" /\ cur[w] \in Paid) => tx[mytx[w]].status = "completed"

Construction == \A w \in Workers : ConstructionOf(w)

Ownership ==
  \A v, w \in Workers : v # w /\ mytx[v] \in TxIds => mytx[v] # mytx[w]

(* No worker still writes the transaction a synced record names.           *)
Released ==
  \A r \in Records, w \in Workers : row[r].synced => row[r].tx # mytx[w]

BackedInv == /\ BasicInv /\ Construction /\ Ownership /\ Released
             /\ SyncedIsBacked

(* What a worker read of an item bounds what it may write.                 *)
SeenInv ==
  \A w \in Workers : pc[w] = "write" =>
    LET i == CurrentLine(w).item
    IN  /\ seen[w].qty + taken[i] >= InitialStock[i]
        /\ seen[w].sold <=> seen[w].qty = 0

StockInv == BasicInv /\ SeenInv /\ NoPhantomSale /\ SoldIffEmpty
-----------------------------------------------------------------------------
(* The elements of a sequence.                                             *)
LEMMA SeqElement ==
  ASSUME NEW S, NEW s \in Seq(S), NEW k \in 1..Len(s)
  PROVE  s[k] \in S
OBVIOUS

(* The line item a worker has reached is one of the record's line items.   *)
LEMMA CurrentLineType ==
  ASSUME NEW w \in Workers, cur[w] \in Records, line[w] \in Nat,
         line[w] < LineCount(cur[w])
  PROVE  CurrentLine(w) \in [item : Items, qty : Nat \ {0}]
<1> DEFINE L == Lines[cur[w]]
<1>1. L \in Seq([item : Items, qty : Nat \ {0}])
  BY SyncAssumptions
<1>2. line[w] + 1 \in 1..Len(L)
  BY <1>1 DEF LineCount
<1>3. L[line[w] + 1] \in [item : Items, qty : Nat \ {0}]
  BY <1>1, <1>2, SeqElement
<1> QED BY <1>3 DEF CurrentLine

(* Line items are counted.                                                 *)
LEMMA LineCountType == ASSUME NEW r \in Records PROVE LineCount(r) \in Nat
BY SyncAssumptions DEF LineCount

(* The sorts of the constants.                                             *)
LEMMA ConstantTypes ==
  /\ None \notin Records /\ None \notin TxIds /\ MaxRetries \in Nat \ {0}
  /\ InitialStock \in [Items -> Nat] /\ MaxTx \in Nat /\ MaxCrashes \in Nat
  /\ Paid \subseteq Records
BY SyncAssumptions

USE ConstantTypes

(* The values a record's row or a transaction may be given.                *)
LEMMA RowUpdate ==
  ASSUME NEW r \in Records, NEW new \in Row, row \in [Records -> Row],
         SaveRow(r, new)
  PROVE  row' \in [Records -> Row]
BY DEF SaveRow

(* Saving columns of a row keeps its type.                                 *)
LEMMA RowValues ==
  ASSUME NEW x \in Row, NEW b \in BOOLEAN, NEW s \in Statuses,
         NEW n \in 0..MaxRetries
  PROVE  /\ [x EXCEPT !.exists = b] \in Row
         /\ [x EXCEPT !.status = s, !.retries = n] \in Row
         /\ [x EXCEPT !.status = s, !.conflicts = b] \in Row
         /\ [x EXCEPT !.status = s, !.conflicts = b, !.retries = n] \in Row
BY DEF Row

(* Columns of a transaction.                                               *)
LEMMA TxValues ==
  ASSUME NEW x \in Tx, NEW r \in Records
  PROVE  /\ [x EXCEPT !.record = r] \in Tx
         /\ x.lines \in Nat
BY DEF Tx

(* Marking a row synced keeps its type.                                    *)
LEMMA SyncedRow ==
  ASSUME NEW x \in Row, NEW t \in TxIds \cup {None}
  PROVE  [x EXCEPT !.status = "synced", !.synced = TRUE, !.tx = t] \in Row
BY DEF Row, Statuses

(* Marking a row failed keeps its type.                                    *)
LEMMA FailedRow ==
  ASSUME NEW x \in Row, NEW b, NEW c \in BOOLEAN
  PROVE  [x EXCEPT !.status = IF b THEN "conflict" ELSE "failed",
                   !.conflicts = b \/ c] \in Row
BY DEF Row, Statuses

(* One more line item keeps the type of a transaction.                     *)
LEMMA OneMoreLine ==
  ASSUME NEW x \in Tx
  PROVE  [x EXCEPT !.lines = @ + 1] \in Tx
BY DEF Tx

(* Completing a transaction keeps its type.                                *)
LEMMA CompletedTx ==
  ASSUME NEW x \in Tx, NEW n \in Nat
  PROVE  [x EXCEPT !.status = "completed", !.credited = n] \in Tx
BY DEF Tx

(* Saving one transaction keeps the types of all.                          *)
LEMMA TxUpdate ==
  ASSUME NEW t \in TxIds, NEW x \in Tx, tx \in [TxIds -> Tx],
         tx' = [tx EXCEPT ![t] = x]
  PROVE  tx' \in [TxIds -> Tx]
OBVIOUS

(* Counting an attempt keeps the type of an instance.                      *)
LEMMA InstanceUpdate ==
  ASSUME NEW x \in Instance, NEW n \in 0..MaxRetries
  PROVE  [x EXCEPT !.retries = n] \in Instance
BY DEF Instance

(* Leaving a record keeps the types of the worker's variables.             *)
LEMMA DoneType ==
  ASSUME NEW w \in Workers, NEW r \in Records, NEW step \in {"next", "resolve"},
         TypeOK, Done(w, r, step)
  PROVE  /\ pc' \in [Workers -> Steps]
         /\ snap' \in [Workers -> [Records -> Instance]]
         /\ todo' \in [Workers -> SUBSET Records]
         /\ cur' \in [Workers -> Records \cup {None}]
         /\ mytx' \in [Workers -> TxIds \cup {None}]
         /\ line' \in [Workers -> Nat]
         /\ covered' \in [Workers -> Nat]
         /\ seen' \in [Workers -> [qty : Nat, sold : BOOLEAN]]
         /\ pc'[w] \in {"idle", step}
         /\ \A v \in Workers \ {w} : /\ pc'[v] = pc[v] /\ cur'[v] = cur[v]
                                     /\ line'[v] = line[v] /\ mytx'[v] = mytx[v]
                                     /\ seen'[v] = seen[v]
         /\ mytx'[w] = None /\ line'[w] = 0
BY DEF TypeOK, Done, ClearLocals, Steps, Instance, Unloaded, Unread
-----------------------------------------------------------------------------
(* Types and positions.                                                    *)

(* The types hold initially.                                               *)
LEMMA BasicInit == Init => BasicInv
BY DEF Init, BasicInv, TypeOK, Position, NoRow, Row, NoTx, Tx, Statuses, Steps,
       Unloaded, Instance, Unread, Busy, HasTx

(* Reading a batch keeps the types.                                        *)
LEMMA BeginBasic ==
  ASSUME BasicInv, NEW w \in Workers, NEW batch \in SUBSET Records,
         NEW step \in {"next", "resolve"}, Begin(w, batch, step)
  PROVE  BasicInv'
<1>1. \A r \in Records : row[r].retries \in 0..MaxRetries /\ row[r].conflicts \in BOOLEAN
  BY DEF BasicInv, TypeOK, Row
<1>2. snap' \in [Workers -> [Records -> Instance]]
  BY <1>1 DEF BasicInv, TypeOK, Begin, Instance, Unloaded
<1>3. TypeOK'
  BY <1>2 DEF BasicInv, TypeOK, Begin, GoTo, tables, history, Steps
<1>4. Position'
  BY DEF BasicInv, TypeOK, Position, Begin, GoTo, tables, history, Steps, Busy, HasTx, LineCount
<1> QED BY <1>3, <1>4 DEF BasicInv

(* Being done with a record keeps the types.                               *)
LEMMA DoneBasic ==
  ASSUME BasicInv, NEW w \in Workers, NEW r \in Records, NEW new \in Row,
         NEW step \in {"next", "resolve"},
         SaveRow(r, new) \/ UNCHANGED row, Done(w, r, step),
         UNCHANGED <<tx, stock, sold, history>>
  PROVE  BasicInv'
<1>1. row' \in [Records -> Row]
  BY RowUpdate DEF BasicInv, TypeOK
<1>2. TypeOK
  BY DEF BasicInv
<1>3. TypeOK'
  <2> USE <1>2
  <2>1. /\ pc' \in [Workers -> Steps]
        /\ snap' \in [Workers -> [Records -> Instance]]
        /\ todo' \in [Workers -> SUBSET Records]
        /\ cur' \in [Workers -> Records \cup {None}]
        /\ mytx' \in [Workers -> TxIds \cup {None}]
        /\ line' \in [Workers -> Nat]
        /\ covered' \in [Workers -> Nat]
        /\ seen' \in [Workers -> [qty : Nat, sold : BOOLEAN]]
    BY DoneType
  <2> QED BY <1>1, <2>1 DEF TypeOK, history
<1>4. Position'
  <2>1. /\ pc'[w] \in {"idle", step} /\ line'[w] = 0
        /\ \A v \in Workers \ {w} : /\ pc'[v] = pc[v] /\ cur'[v] = cur[v]
                                    /\ line'[v] = line[v] /\ mytx'[v] = mytx[v]
    BY <1>2, DoneType
  <2> QED BY <2>1 DEF BasicInv, Position, Busy, HasTx, LineCount
<1> QED BY <1>3, <1>4 DEF BasicInv

(* Writing an item keeps the types.                                        *)
LEMMA WriteBackBasic ==
  ASSUME BasicInv, NEW w \in Workers, WriteItem(w)
  PROVE  BasicInv'
<1> DEFINE i == CurrentLine(w).item
           q == CurrentLine(w).qty
<1>1. i \in Items /\ q \in Nat \ {0}
  BY CurrentLineType DEF BasicInv, TypeOK, Position, WriteItem, CanWrite, Busy
<1>2. Left(w) \in Nat /\ seen[w].sold \in BOOLEAN
  BY <1>1 DEF WriteItem, CanWrite, Left, BasicInv, TypeOK
<1>3. stock' \in [Items -> Nat] /\ sold' \in SUBSET Items /\ taken' \in [Items -> Nat]
  BY <1>1, <1>2 DEF WriteItem, WriteBack, BasicInv, TypeOK
<1>4. /\ pc' \in [Workers -> Steps] /\ line' \in [Workers -> Nat]
      /\ seen' \in [Workers -> [qty : Nat, sold : BOOLEAN]]
  BY DEF WriteItem, WriteBack, BasicInv, TypeOK, GoTo, Steps, Unread
<1>5. TypeOK'
  BY <1>3, <1>4 DEF WriteItem, WriteBack, BasicInv, TypeOK
<1>6. Position'
  BY LineCountType
  DEF WriteItem, CanWrite, WriteBack, BasicInv, TypeOK, Position, GoTo, Busy, HasTx, LineCount
<1> QED BY <1>5, <1>6 DEF BasicInv

(* Every step of sync_to_database keeps the types.                         *)
LEMMA SyncBasic ==
  ASSUME BasicInv, NEW w \in Workers, SyncStep(w)
  PROVE  BasicInv'
<1> USE DEF BasicInv, TypeOK, GoTo, Steps
<1>1. ASSUME NEW r \in Records, StartSync(w, r) PROVE BasicInv'
  <2> DEFINE a == IF snap[w][r].retries < MaxRetries
                  THEN snap[w][r].retries + 1 ELSE MaxRetries
  <2>1. a \in 0..MaxRetries
    BY DEF Instance
  <2>2. [row[r] EXCEPT !.status = "syncing", !.retries = a] \in Row
    BY <2>1, RowValues DEF Statuses
  <2>3. row' \in [Records -> Row]
    BY <1>1, <2>2 DEF StartSync
  <2>4. snap' \in [Workers -> [Records -> Instance]]
    <3>1. [snap[w][r] EXCEPT !.retries = a] \in Instance
      <4>1. snap[w][r] \in Instance
        OBVIOUS
      <4> HIDE DEF a
      <4> QED BY <4>1, <2>1, InstanceUpdate
    <3>2. [snap[w] EXCEPT ![r] = [snap[w][r] EXCEPT !.retries = a]] \in [Records -> Instance]
      BY <3>1
    <3>3. snap' = [snap EXCEPT ![w] = [snap[w] EXCEPT ![r] = [snap[w][r] EXCEPT !.retries = a]]]
      BY <1>1 DEF StartSync
    <3> QED BY <3>2, <3>3
  <2>5. TypeOK'
    BY <1>1, <2>3, <2>4 DEF StartSync, history
  <2>6. Position'
    BY <1>1 DEF StartSync, Position, Busy, HasTx, LineCount
  <2> QED BY <2>5, <2>6
<1>2. ASSUME NEW r \in Records, StartOnDeleted(w, r) PROVE BasicInv'
  <2>1. row[r] \in Row
    OBVIOUS
  <2> QED BY <1>2, <2>1, DoneBasic DEF StartOnDeleted, tables, history
<1>3. CASE CreateTx(w)
  <2>1. PICK t \in TxIds : /\ tx' = [tx EXCEPT ![t].record = cur[w]]
                           /\ mytx' = [mytx EXCEPT ![w] = t]
                           /\ covered' = [covered EXCEPT ![w] = tx[t].lines]
    BY <1>3 DEF CreateTx
  <2>2. cur[w] \in Records
    BY <1>3 DEF CreateTx, Position, Busy
  <2>3. tx' \in [TxIds -> Tx] /\ tx[t].lines \in Nat
    BY <2>1, <2>2, TxValues
  <2>4. TypeOK'
    BY <1>3, <2>1, <2>3 DEF CreateTx, history
  <2>5. Position'
    BY <1>3, LineCountType DEF CreateTx, Position, Busy, HasTx, LineCount
  <2> QED BY <2>4, <2>5
<1>4. CASE AddLine(w)
  <2>1. tx' \in [TxIds -> Tx]
    <3>1. mytx[w] \in TxIds
      BY <1>4 DEF AddLine, Position, HasTx
    <3>2. tx[mytx[w]] \in Tx
      BY <3>1
    <3>3. [tx[mytx[w]] EXCEPT !.lines = @ + 1] \in Tx
      BY <3>2, OneMoreLine
    <3>4. tx' = [tx EXCEPT ![mytx[w]] = [tx[mytx[w]] EXCEPT !.lines = @ + 1]]
      BY <1>4 DEF AddLine
    <3> QED BY <3>1, <3>3, <3>4, TxUpdate
  <2>2. TypeOK'
    BY <1>4, <2>1 DEF AddLine, history
  <2>3. Position'
    BY <1>4, LineCountType DEF AddLine, Position, Busy, HasTx, LineCount
  <2> QED BY <2>2, <2>3
<1>5. CASE EndOfLines(w)
  <2>1. TypeOK'
    BY <1>5 DEF EndOfLines, tables, history
  <2>2. Position'
    BY <1>5, LineCountType DEF EndOfLines, Position, Busy, HasTx, LineCount
  <2> QED BY <2>1, <2>2
<1>6. CASE ReadItem(w)
  <2>1. CurrentLine(w).item \in Items
    BY <1>6, CurrentLineType DEF ReadItem, Position, Busy
  <2>2. TypeOK'
    BY <1>6, <2>1 DEF ReadItem, tables, history
  <2>3. Position'
    BY <1>6 DEF ReadItem, tables, history, Position, Busy, HasTx, LineCount
  <2> QED BY <2>2, <2>3
<1>7. CASE WriteItem(w)
  BY <1>7, WriteBackBasic
<1>8. CASE RefuseWrite(w) \/ Raise(w)
  <2>1. TypeOK'
    BY <1>8 DEF RefuseWrite, Raise, tables, local, history
  <2>2. Position'
    BY <1>8 DEF RefuseWrite, Raise, tables, local, history, Position, Busy, HasTx, LineCount
  <2> QED BY <2>1, <2>2
<1>9. CASE Complete(w)
  <2>1. tx' \in [TxIds -> Tx]
    <3>1. mytx[w] \in TxIds
      BY <1>9 DEF Complete, Position, HasTx
    <3>2. tx[mytx[w]] \in Tx
      BY <3>1
    <3>3. [tx[mytx[w]] EXCEPT !.status = "completed", !.credited = covered[w]] \in Tx
      <4>1. covered[w] \in Nat
        OBVIOUS
      <4> QED BY <3>2, <4>1, CompletedTx
    <3>4. tx' = [tx EXCEPT ![mytx[w]] =
                   [tx[mytx[w]] EXCEPT !.status = "completed", !.credited = covered[w]]]
      BY <1>9 DEF Complete
    <3> QED BY <3>1, <3>3, <3>4, TxUpdate
  <2>2. TypeOK'
    BY <1>9, <2>1 DEF Complete, local, history
  <2>3. Position'
    BY <1>9, LineCountType DEF Complete, local, history, Position, Busy, HasTx, LineCount
  <2> QED BY <2>2, <2>3
<1>10. CASE MarkSynced(w)
  <2>1. cur[w] \in Records
    BY <1>10 DEF MarkSynced, Position, Busy
  <2>2. [row[cur[w]] EXCEPT !.status = "synced", !.synced = TRUE, !.tx = mytx[w]] \in Row
    <3>1. row[cur[w]] \in Row /\ mytx[w] \in TxIds \cup {None}
      BY <2>1
    <3> QED BY <3>1, SyncedRow
  <2> QED BY <1>10, <2>1, <2>2, DoneBasic DEF MarkSynced
<1>11. CASE SaveFailure(w)
  <2>1. cur[w] \in Records
    BY <1>11 DEF SaveFailure, RecordFailure, Position, Busy
  <2> DEFINE exhausted == Retries(w) >= MaxRetries
             new == [row[cur[w]] EXCEPT
                       !.status = IF exhausted THEN "conflict" ELSE "failed",
                       !.conflicts = exhausted \/ snap[w][cur[w]].conflicts]
  <2>2. snap[w][cur[w]].conflicts \in BOOLEAN
    BY <2>1 DEF Instance
  <2>3. new \in Row
    <3>1. row[cur[w]] \in Row
      BY <2>1
    <3> HIDE DEF exhausted
    <3> QED BY <3>1, <2>2, FailedRow
  <2>4. SaveRow(cur[w], new) /\ Done(w, cur[w], "next") /\ UNCHANGED <<tx, stock, sold, history>>
    BY <1>11 DEF SaveFailure, RecordFailure
  <2> QED BY <2>1, <2>3, <2>4, DoneBasic
<1> QED BY <1>1, <1>2, <1>3, <1>4, <1>5, <1>6, <1>7, <1>8, <1>9, <1>10, <1>11 DEF SyncStep

(* Resolving a conflict keeps the types.                                   *)
LEMMA ResolveBasic ==
  ASSUME BasicInv, NEW w \in Workers, NEW r \in Records, NEW new \in Row, Resolve(w, r, new)
  PROVE  BasicInv'
BY DoneBasic DEF Resolve

(* The rows that resolutions and cleanup save.                             *)
LEMMA ResolutionRows ==
  ASSUME NEW x \in Row
  PROVE  /\ [x EXCEPT !.status = "pending", !.conflicts = FALSE, !.retries = 0] \in Row
         /\ [x EXCEPT !.status = "failed", !.conflicts = FALSE] \in Row
         /\ [x EXCEPT !.exists = FALSE] \in Row
         /\ [NoRow EXCEPT !.exists = TRUE] \in Row
<1>0. 0 \in 0..MaxRetries
  OBVIOUS
<1>1. [x EXCEPT !.status = "pending", !.conflicts = FALSE, !.retries = 0] \in Row
  BY <1>0, RowValues DEF Statuses
<1>2. [x EXCEPT !.status = "failed", !.conflicts = FALSE] \in Row
  BY DEF Row, Statuses
<1>3. [x EXCEPT !.exists = FALSE] \in Row
  BY DEF Row, Statuses
<1>4. [NoRow EXCEPT !.exists = TRUE] \in Row
  <2>1. NoRow \in Row
    BY <1>0 DEF Row, Statuses, NoRow
  <2>2. \A y \in Row : [y EXCEPT !.exists = TRUE] \in Row
    BY DEF Row
  <2> QED BY <2>1, <2>2
<1> QED BY <1>1, <1>2, <1>3, <1>4

(* Every step keeps the types.                                             *)
LEMMA BasicStep ==
  ASSUME BasicInv, [Next]_vars
  PROVE  BasicInv'
<1> USE DEF BasicInv
<1>0. \A r \in Records : row[r] \in Row
  BY DEF TypeOK
<1>1. ASSUME NEW r \in Records, CreateOffline(r) PROVE BasicInv'
  <2>1. row' \in [Records -> Row]
    BY <1>1, ResolutionRows, <1>0 DEF CreateOffline, TypeOK
  <2>2. TypeOK'
    BY <1>1, <2>1 DEF CreateOffline, TypeOK, local, history
  <2>3. Position'
    BY <1>1 DEF CreateOffline, Position, local, LineCount
  <2> QED BY <2>2, <2>3
<1>2. ASSUME NEW d \in Devices, Cleanup(d) PROVE BasicInv'
  <2>1. row' \in [Records -> Row]
    <3>1. PICK old \in SUBSET Records :
            row' = [r \in Records |-> IF r \in old THEN [row[r] EXCEPT !.exists = FALSE]
                                                 ELSE row[r]]
      BY <1>2 DEF Cleanup
    <3>2. \A r \in Records : [row[r] EXCEPT !.exists = FALSE] \in Row
      BY <1>0, ResolutionRows
    <3> QED BY <3>1, <3>2, <1>0
  <2>2. TypeOK'
    BY <1>2, <2>1 DEF Cleanup, TypeOK, local, history
  <2>3. Position'
    BY <1>2 DEF Cleanup, Position, local, LineCount
  <2> QED BY <2>2, <2>3
<1>3. ASSUME NEW w \in Workers, NEW d \in Devices \cup {None},
             BeginDeviceSync(w, d) \/ BeginResolve(w, d) \/ BeginServiceSync(w, d)
      PROVE  BasicInv'
  <2>1. /\ DeviceBatch(d) \in SUBSET Records /\ ConflictBatch(d) \in SUBSET Records
        /\ ServiceBatch(d) \in SUBSET Records
    BY DEF DeviceBatch, ConflictBatch, ServiceBatch, Unsynced
  <2> QED BY <1>3, <2>1, BeginBasic DEF BeginDeviceSync, BeginResolve, BeginServiceSync
<1>4. ASSUME NEW w \in Workers, BeginAdminSync(w) PROVE BasicInv'
  <2>1. PICK batch \in SUBSET Unsynced : Begin(w, batch, "next")
    BY <1>4 DEF BeginAdminSync
  <2>2. batch \in SUBSET Records
    BY DEF Unsynced
  <2> QED BY <2>1, <2>2, BeginBasic
<1>5. ASSUME NEW w \in Workers, SyncStep(w) PROVE BasicInv'
  BY <1>5, SyncBasic
<1>6. ASSUME NEW w \in Workers, ResolveStep(w) PROVE BasicInv'
  <2>1. PICK r \in Records : ResolveRetry(w, r) \/ ResolveSkip(w, r) \/ ResolveMergeRefused(w, r)
    BY <1>6 DEF ResolveStep
  <2>2. row[r] \in Row
    BY <1>0
  <2> QED BY <2>1, <2>2, ResolutionRows, ResolveBasic
          DEF ResolveRetry, ResolveSkip, ResolveMergeRefused
<1>7. ASSUME NEW w \in Workers, Crash(w) PROVE BasicInv'
  <2>1. TypeOK'
    BY <1>7 DEF Crash, ClearLocals, TypeOK, tables, GoTo, Steps, Instance, Unloaded, Unread
  <2>2. Position'
    BY <1>7 DEF Crash, ClearLocals, Position, TypeOK, GoTo, Busy, HasTx, LineCount
  <2> QED BY <2>1, <2>2
<1>8. CASE UNCHANGED vars
  BY <1>8 DEF vars, tables, local, history, TypeOK, Position, LineCount
<1> QED BY <1>1, <1>2, <1>3, <1>4, <1>5, <1>6, <1>7, <1>8 DEF Next

(* Every variable keeps its type; in particular no interleaving drives the *)
(* quantity of an item, a PositiveIntegerField, below zero.                *)
THEOREM TypeCorrect == Spec => []TypeOK
<1>1. BasicInv => TypeOK
  BY DEF BasicInv
<1> QED BY BasicInit, BasicStep, <1>1, PTL DEF Spec

(* The types always hold.                                                  *)
LEMMA BasicAlways == Spec => []BasicInv
BY BasicInit, BasicStep, PTL DEF Spec

-----------------------------------------------------------------------------
(* What "synced" promises.                                                 *)

(* Every step that saves a record keeps is_synced and the transaction it   *)
(* names, except the step that marks the record synced.                    *)
KeepsSynced ==
  \A r \in Records : row'[r].synced = row[r].synced /\ row'[r].tx = row[r].tx

(* Saving other columns keeps what is synced.                              *)
LEMMA SaveKeepsSynced ==
  ASSUME NEW r \in Records, NEW new, SaveRow(r, new), row \in [Records -> Row],
         new.synced = row[r].synced, new.tx = row[r].tx
  PROVE  KeepsSynced
BY DEF SaveRow, KeepsSynced

(* Retries and failures leave is_synced and the transaction alone.         *)
LEMMA RowColumns ==
  ASSUME NEW x \in Row, NEW s, NEW b, NEW n
  PROVE  LET kept(y) == y.synced = x.synced /\ y.tx = x.tx
         IN  /\ kept([x EXCEPT !.status = s, !.retries = n])
             /\ kept([x EXCEPT !.status = s, !.conflicts = b])
             /\ kept([x EXCEPT !.status = s, !.conflicts = b, !.retries = n])
             /\ kept([x EXCEPT !.exists = b])
BY DEF Row

(* The invariant holds initially.                                          *)
LEMMA BackedInit == Init => BackedInv
BY BasicInit
DEF Init, BackedInv, Construction, ConstructionOf, Ownership, Released, SyncedIsBacked, NoRow, NoTx,
    HasTx, Filled, Steps

(* The transactions are as they were and no record becomes synced: the     *)
(* worker moves within its attempt, or is through with it.                 *)
LEMMA QuietBacked ==
  ASSUME BackedInv, BasicInv', KeepsSynced, UNCHANGED tx, NEW w \in Workers,
         \A v \in Workers \ {w} : /\ pc'[v] = pc[v] /\ cur'[v] = cur[v]
                                 /\ line'[v] = line[v] /\ mytx'[v] = mytx[v],
         \/ pc'[w] \in Steps \ (HasTx \cup {"fail"}) /\ mytx'[w] = None
         \/ pc'[w] = "fail" /\ mytx'[w] = mytx[w]
         \/ /\ pc[w] \in Filled /\ pc'[w] \in {"read", "write"}
            /\ mytx'[w] = mytx[w] /\ cur'[w] = cur[w]
  PROVE  BackedInv'
<1> USE DEF BackedInv
<1>1. mytx'[w] \in {None, mytx[w]}
  OBVIOUS
<1>2. Construction'
  <2> SUFFICES ASSUME NEW v \in Workers
               PROVE  ConstructionOf(v)'
    BY DEF Construction
  <2>1. ConstructionOf(v)
    BY DEF Construction
  <2>2. CASE v # w
    BY <2>1, <2>2 DEF ConstructionOf, LineCount
  <2>3. CASE v = w
    BY <2>1, <2>3, <1>1 DEF ConstructionOf, HasTx, Filled, Steps, LineCount
  <2> QED BY <2>2, <2>3
<1>3. Ownership'
  BY <1>1 DEF Ownership
<1>4. Released'
  BY <1>1 DEF Released, SyncedIsBacked, KeepsSynced
<1>5. SyncedIsBacked'
  BY DEF SyncedIsBacked, KeepsSynced, LineCount
<1> QED BY <1>2, <1>3, <1>4, <1>5

(* Being done with a record keeps the invariant.                           *)
LEMMA DoneBacked ==
  ASSUME BackedInv, BasicInv', KeepsSynced, UNCHANGED tx, NEW w \in Workers,
         NEW r \in Records, NEW step \in {"next", "resolve"}, Done(w, r, step)
  PROVE  BackedInv'
<1>1. TypeOK
  BY DEF BackedInv, BasicInv
<1>2. /\ pc'[w] \in {"idle", step} /\ mytx'[w] = None
      /\ \A v \in Workers \ {w} : /\ pc'[v] = pc[v] /\ cur'[v] = cur[v]
                                  /\ line'[v] = line[v] /\ mytx'[v] = mytx[v]
  BY <1>1, DoneType
<1>3. pc'[w] \in Steps \ (HasTx \cup {"fail"})
  BY <1>2 DEF Steps, HasTx
<1> QED BY <1>2, <1>3, QuietBacked

(* Building the transaction keeps the invariant.                           *)
LEMMA BuildBacked ==
  ASSUME BackedInv, BasicInv', NEW w \in Workers,
         CreateTx(w) \/ AddLine(w) \/ EndOfLines(w) \/ Complete(w)
  PROVE  BackedInv'
<1> USE DEF BackedInv, GoTo
<1>1. CASE CreateTx(w)
  <2>1. PICK t \in TxIds : /\ tx[t] = NoTx
                           /\ tx' = [tx EXCEPT ![t].record = cur[w]]
                           /\ mytx' = [mytx EXCEPT ![w] = t]
    BY <1>1 DEF CreateTx
  <2>2. /\ pc[w] = "create" /\ pc' = [pc EXCEPT ![w] = "lines"]
        /\ UNCHANGED <<row, cur, line>>
    BY <1>1 DEF CreateTx
  <2>3. cur[w] \in Records /\ line[w] = 0
    BY <2>2 DEF BasicInv, Position, Busy, HasTx, Steps
  <2>4. /\ tx'[t].record = cur[w] /\ tx'[t].lines = 0
        /\ \A s \in TxIds \ {t} : tx'[s] = tx[s]
    BY <2>1 DEF BasicInv, TypeOK, NoTx
  <2>5. mytx'[w] = t /\ \A v \in Workers \ {w} : mytx'[v] = mytx[v] /\ pc'[v] = pc[v]
    BY <2>1, <2>2 DEF BasicInv, TypeOK
  <2>6. \A v \in Workers : mytx[v] # t
    BY <2>1 DEF Construction, ConstructionOf, NoTx
  <2>7. \A r \in Records : row[r].synced => row[r].tx # t
    BY <2>1 DEF SyncedIsBacked, NoTx
  <2>8. pc'[w] = "lines"
    BY <2>2 DEF BasicInv, TypeOK
  <2>9. Construction'
    <3> SUFFICES ASSUME NEW v \in Workers PROVE ConstructionOf(v)'
      BY DEF Construction
    <3>1. ConstructionOf(v)
      BY DEF Construction
    <3>2. CASE v # w
      <4>1. mytx[v] \in TxIds => tx'[mytx[v]] = tx[mytx[v]]
        BY <2>4, <2>6
      <4>2. pc[v] \in HasTx => mytx[v] \in TxIds
        BY DEF BasicInv, Position
      <4> QED BY <3>1, <3>2, <2>2, <2>5, <4>1, <4>2
              DEF ConstructionOf, LineCount, HasTx, Filled
    <3>3. CASE v = w
      BY <3>3, <2>2, <2>3, <2>4, <2>5, <2>8 DEF ConstructionOf, HasTx, Filled
    <3> QED BY <3>2, <3>3
  <2>10. Ownership'
    BY <2>5, <2>6 DEF Ownership
  <2>11. Released'
    BY <2>2, <2>5, <2>7 DEF Released
  <2>12. SyncedIsBacked'
    BY <2>2, <2>4, <2>7 DEF SyncedIsBacked, LineCount
  <2> QED BY <2>9, <2>10, <2>11, <2>12
<1>2. CASE AddLine(w) \/ Complete(w)
  <2>1. /\ mytx[w] \in TxIds /\ pc[w] \in HasTx
        /\ UNCHANGED <<row, cur, mytx>>
    BY <1>2 DEF AddLine, Complete, local, BasicInv, Position, HasTx
  <2>2. /\ tx'[mytx[w]].record = tx[mytx[w]].record
        /\ \A s \in TxIds \ {mytx[w]} : tx'[s] = tx[s]
    BY <1>2, <2>1 DEF AddLine, Complete, BasicInv, TypeOK, Tx
  <2>3. /\ AddLine(w) => /\ pc' = pc /\ pc[w] = "lines"
                         /\ tx'[mytx[w]].lines = tx[mytx[w]].lines + 1
                         /\ line'[w] = line[w] + 1
        /\ Complete(w) => /\ pc'[w] = "mark" /\ pc[w] = "read"
                          /\ tx'[mytx[w]].lines = tx[mytx[w]].lines
                          /\ tx'[mytx[w]].status = "completed"
    BY <2>1 DEF AddLine, Complete, BasicInv, TypeOK, Tx
  <2>4. \A v \in Workers \ {w} : pc'[v] = pc[v] /\ line'[v] = line[v]
    BY <1>2 DEF AddLine, Complete, local, BasicInv, TypeOK
  <2>5. Construction'
    <3> SUFFICES ASSUME NEW v \in Workers PROVE ConstructionOf(v)'
      BY DEF Construction
    <3>1. ConstructionOf(v) /\ ConstructionOf(w)
      BY DEF Construction
    <3>2. CASE v # w
      <4>1. mytx[v] \in TxIds => tx'[mytx[v]] = tx[mytx[v]]
        BY <3>2, <2>2 DEF Ownership
      <4>2. pc[v] \in HasTx => mytx[v] \in TxIds
        BY DEF BasicInv, Position
      <4> QED BY <3>1, <3>2, <2>1, <2>4, <4>1, <4>2
              DEF ConstructionOf, LineCount, HasTx, Filled
    <3>3. CASE v = w /\ AddLine(w)
      BY <3>1, <3>3, <2>1, <2>2, <2>3 DEF ConstructionOf, LineCount, HasTx, Filled, Steps
    <3>4. CASE v = w /\ Complete(w)
      BY <3>1, <3>4, <2>1, <2>2, <2>3 DEF ConstructionOf, LineCount, HasTx, Filled, Steps
    <3> QED BY <1>2, <3>2, <3>3, <3>4
  <2>6. Ownership' /\ Released'
    BY <2>1 DEF Ownership, Released
  <2>7. SyncedIsBacked'
    BY <2>1, <2>2 DEF SyncedIsBacked, Released, LineCount
  <2> QED BY <2>5, <2>6, <2>7
<1>3. CASE EndOfLines(w)
  <2>1. /\ pc[w] = "lines" /\ pc'[w] = IF cur[w] \in Paid THEN "read" ELSE "mark"
        /\ line[w] = LineCount(cur[w])
        /\ \A v \in Workers \ {w} : pc'[v] = pc[v] /\ line'[v] = line[v]
        /\ UNCHANGED <<row, tx, cur, mytx>>
    BY <1>3 DEF EndOfLines, tables, BasicInv, TypeOK
  <2>2. Construction'
    BY <2>1 DEF Construction, ConstructionOf, LineCount, HasTx, Filled
  <2>3. Ownership' /\ Released' /\ SyncedIsBacked'
    BY <2>1 DEF Ownership, Released, SyncedIsBacked, LineCount
  <2> QED BY <2>2, <2>3
<1> QED BY <1>1, <1>2, <1>3

(* Marking a record synced keeps the invariant.                            *)
LEMMA MarkBacked ==
  ASSUME BackedInv, BasicInv', NEW w \in Workers, MarkSynced(w)
  PROVE  BackedInv'
<1> DEFINE r == cur[w]
<1>1. /\ pc[w] = "mark" /\ r \in Records /\ mytx[w] \in TxIds
      /\ Done(w, r, "next") /\ UNCHANGED tx /\ TypeOK
  BY DEF MarkSynced, BackedInv, BasicInv, Position, Busy, HasTx
<1>2. CASE ~row[r].exists
  <2>1. KeepsSynced
    BY <1>1, <1>2 DEF MarkSynced, SaveRow, KeepsSynced
  <2> QED BY <1>1, <2>1, DoneBacked
<1>3. CASE row[r].exists
  <2> USE DEF BackedInv
  <2>1. /\ row'[r].synced /\ row'[r].tx = mytx[w]
        /\ \A s \in Records \ {r} : row'[s] = row[s]
    BY <1>1, <1>3 DEF MarkSynced, SaveRow, TypeOK, Row
  <2>2. /\ pc'[w] \in {"idle", "next"} /\ mytx'[w] = None
        /\ \A v \in Workers \ {w} : /\ pc'[v] = pc[v] /\ cur'[v] = cur[v]
                                    /\ line'[v] = line[v] /\ mytx'[v] = mytx[v]
    BY <1>1, DoneType
  <2>3. ConstructionOf(w)
    BY DEF Construction
  <2>4. Construction'
    <3> SUFFICES ASSUME NEW v \in Workers PROVE ConstructionOf(v)'
      BY DEF Construction
    <3>1. ConstructionOf(v)
      BY DEF Construction
    <3>2. CASE v # w
      BY <1>1, <2>2, <3>1, <3>2 DEF ConstructionOf, LineCount
    <3>3. CASE v = w
      BY <2>2, <3>3 DEF ConstructionOf, HasTx, Filled, Steps
    <3> QED BY <3>2, <3>3
  <2>5. Ownership'
    BY <2>2 DEF Ownership
  <2>6. Released'
    BY <1>1, <2>1, <2>2 DEF Released, Ownership, SyncedIsBacked
  <2>7. SyncedIsBacked'
    BY <1>1, <2>1, <2>3 DEF SyncedIsBacked, ConstructionOf, LineCount, HasTx, Filled
  <2> QED BY <2>4, <2>5, <2>6, <2>7
<1> QED BY <1>2, <1>3

(* Which steps leave is_synced alone.                                      *)
LEMMA SyncKeepsSynced ==
  ASSUME TypeOK, NEW w \in Workers, SyncStep(w), ~MarkSynced(w), cur[w] \in Records \/ pc[w] # "fail"
  PROVE  KeepsSynced
<1>1. \A r \in Records : row[r] \in Row
  BY DEF TypeOK
<1>2. ASSUME NEW r \in Records, StartSync(w, r) PROVE KeepsSynced
  <2>1. PICK n : row' = [row EXCEPT ![r] = [row[r] EXCEPT !.status = "syncing", !.retries = n]]
    BY <1>2 DEF StartSync
  <2> QED BY <1>1, <2>1, RowColumns DEF KeepsSynced, TypeOK
<1>3. CASE SaveFailure(w)
  <2> DEFINE new == [row[cur[w]] EXCEPT
                       !.status = IF Retries(w) >= MaxRetries THEN "conflict" ELSE "failed",
                       !.conflicts = Retries(w) >= MaxRetries \/ snap[w][cur[w]].conflicts]
  <2>1. SaveRow(cur[w], new) /\ cur[w] \in Records
    BY <1>3 DEF SaveFailure, RecordFailure
  <2>2. new.synced = row[cur[w]].synced /\ new.tx = row[cur[w]].tx
    BY <1>1, <2>1, RowColumns
  <2> HIDE DEF new
  <2> QED BY <2>1, <2>2, SaveKeepsSynced DEF TypeOK
<1>4. CASE UNCHANGED row
  BY <1>4 DEF KeepsSynced
<1> QED BY <1>2, <1>3, <1>4
        DEF SyncStep, StartOnDeleted, CreateTx, AddLine, EndOfLines, ReadItem, WriteItem,
            WriteBack, RefuseWrite, Complete, Raise, tables

(* Storing, cleaning up and resolving keep what is synced.                 *)
LEMMA OtherKeepsSynced ==
  ASSUME TypeOK,
         \/ \E r \in Records : CreateOffline(r)
         \/ \E d \in Devices : Cleanup(d)
         \/ \E w \in Workers : ResolveStep(w)
  PROVE  KeepsSynced
<1>1. \A r \in Records : row[r] \in Row
  BY DEF TypeOK
<1>2. ASSUME NEW r \in Records, CreateOffline(r) PROVE KeepsSynced
  BY <1>2 DEF CreateOffline, KeepsSynced, NoRow, TypeOK
<1>3. ASSUME NEW d \in Devices, Cleanup(d) PROVE KeepsSynced
  BY <1>1, <1>3, RowColumns DEF Cleanup, KeepsSynced
<1>4. ASSUME NEW w \in Workers, NEW r \in Records,
             ResolveRetry(w, r) \/ ResolveSkip(w, r) \/ ResolveMergeRefused(w, r)
      PROVE  KeepsSynced
  <2> DEFINE retried == [row[r] EXCEPT !.status = "pending", !.conflicts = FALSE, !.retries = 0]
             skipped == [row[r] EXCEPT !.status = "failed", !.conflicts = FALSE]
  <2>1. /\ retried.synced = row[r].synced /\ retried.tx = row[r].tx
        /\ skipped.synced = row[r].synced /\ skipped.tx = row[r].tx
    BY <1>1, RowColumns
  <2>2. SaveRow(r, retried) \/ SaveRow(r, skipped) \/ SaveRow(r, row[r])
    BY <1>4 DEF ResolveRetry, ResolveSkip, ResolveMergeRefused, Resolve
  <2> HIDE DEF retried, skipped
  <2> QED BY <2>1, <2>2, SaveKeepsSynced DEF TypeOK
<1> QED BY <1>2, <1>3, <1>4 DEF ResolveStep

(* Every step keeps the invariant.                                         *)
LEMMA BackedStep ==
  ASSUME BackedInv, [Next]_vars
  PROVE  BackedInv'
<1>0. /\ BasicInv' /\ TypeOK
      /\ \A w \in Workers : pc[w] \in Steps \ (HasTx \cup {"fail"}) => mytx[w] = None
      /\ \A w \in Workers : pc[w] \in Busy => cur[w] \in Records
  BY BasicStep DEF BackedInv, BasicInv, Construction, ConstructionOf, Position
<1>1. CASE (\E r \in Records : CreateOffline(r)) \/ (\E d \in Devices : Cleanup(d))
  <2>1. KeepsSynced /\ UNCHANGED <<tx, pc, cur, line, mytx>>
    BY <1>0, <1>1, OtherKeepsSynced DEF CreateOffline, Cleanup, local
  <2> QED BY <1>0, <2>1 DEF BackedInv, Construction, ConstructionOf, Ownership, Released,
                          SyncedIsBacked, KeepsSynced, LineCount
<1>2. ASSUME NEW w \in Workers, NEW batch, NEW step \in {"next", "resolve"},
             Begin(w, batch, step)
      PROVE  BackedInv'
  <2>1. /\ KeepsSynced /\ UNCHANGED <<tx, cur, line, mytx>>
        /\ pc[w] = "idle" /\ pc'[w] = step /\ \A v \in Workers \ {w} : pc'[v] = pc[v]
    BY <1>0, <1>2 DEF Begin, GoTo, tables, KeepsSynced, TypeOK
  <2>2. mytx'[w] = None /\ pc'[w] \in Steps \ (HasTx \cup {"fail"})
    BY <1>0, <2>1 DEF Steps, HasTx
  <2> QED BY <1>0, <2>1, <2>2, QuietBacked
<1>3. ASSUME NEW w \in Workers, SyncStep(w) PROVE BackedInv'
  <2>0. KeepsSynced \/ MarkSynced(w)
    BY <1>0, <1>3, SyncKeepsSynced DEF Busy
  <2>1. CASE MarkSynced(w)
    BY <1>0, <2>1, MarkBacked
  <2>2. CASE CreateTx(w) \/ AddLine(w) \/ EndOfLines(w) \/ Complete(w)
    BY <1>0, <2>2, BuildBacked
  <2>3. ASSUME NEW r \in Records, StartSync(w, r), KeepsSynced PROVE BackedInv'
    <3>1. /\ UNCHANGED <<tx, line, mytx>> /\ pc[w] = "next" /\ pc'[w] = "create"
          /\ \A v \in Workers \ {w} : pc'[v] = pc[v] /\ cur'[v] = cur[v]
      BY <1>0, <2>3 DEF StartSync, GoTo, TypeOK
    <3>2. mytx'[w] = None /\ pc'[w] \in Steps \ (HasTx \cup {"fail"})
      BY <1>0, <3>1 DEF Steps, HasTx
    <3> QED BY <1>0, <2>3, <3>1, <3>2, QuietBacked
  <2>4. ASSUME NEW r \in Records, StartOnDeleted(w, r), KeepsSynced PROVE BackedInv'
    BY <1>0, <2>4, DoneBacked DEF StartOnDeleted, tables
  <2>5. ASSUME ReadItem(w) \/ WriteItem(w) \/ RefuseWrite(w) \/ Raise(w), KeepsSynced
        PROVE  BackedInv'
    <3>1. /\ UNCHANGED <<tx, cur, mytx>>
          /\ \/ pc[w] \in Filled /\ pc'[w] \in {"read", "write"}
             \/ pc'[w] = "fail"
          /\ \A v \in Workers \ {w} : pc'[v] = pc[v] /\ line'[v] = line[v]
      BY <1>0, <2>5 DEF ReadItem, WriteItem, CanWrite, WriteBack, RefuseWrite, Raise, GoTo,
                        TypeOK, Filled, tables, local
    <3> QED BY <1>0, <2>5, <3>1, QuietBacked
  <2>6. ASSUME SaveFailure(w), KeepsSynced PROVE BackedInv'
    <3>1. cur[w] \in Records
      BY <1>0, <2>6 DEF SaveFailure, RecordFailure, Busy
    <3> QED BY <1>0, <2>6, <3>1, DoneBacked DEF SaveFailure, RecordFailure
  <2> QED BY <1>3, <2>0, <2>1, <2>2, <2>3, <2>4, <2>5, <2>6 DEF SyncStep
<1>4. ASSUME NEW w \in Workers, ResolveStep(w) PROVE BackedInv'
  <2>1. PICK r \in Records : \E new : Resolve(w, r, new)
    BY <1>4 DEF ResolveStep, ResolveRetry, ResolveSkip, ResolveMergeRefused
  <2>2. KeepsSynced
    BY <1>0, <1>4, OtherKeepsSynced
  <2> QED BY <1>0, <2>1, <2>2, DoneBacked DEF Resolve
<1>5. ASSUME NEW w \in Workers, Crash(w) PROVE BackedInv'
  <2>1. /\ UNCHANGED tx /\ KeepsSynced /\ pc'[w] = "idle" /\ mytx'[w] = None
        /\ \A v \in Workers \ {w} : /\ pc'[v] = pc[v] /\ cur'[v] = cur[v]
                                    /\ line'[v] = line[v] /\ mytx'[v] = mytx[v]
    BY <1>0, <1>5 DEF Crash, ClearLocals, tables, GoTo, KeepsSynced, TypeOK
  <2>2. pc'[w] \in Steps \ (HasTx \cup {"fail"})
    BY <2>1 DEF Steps, HasTx
  <2> QED BY <1>0, <2>1, <2>2, QuietBacked
<1>6. CASE UNCHANGED vars
  BY <1>0, <1>6 DEF vars, tables, local, BackedInv, Construction, ConstructionOf, Ownership,
                    Released, SyncedIsBacked, LineCount
<1> QED BY <1>1, <1>2, <1>3, <1>4, <1>5, <1>6
        DEF Next, BeginDeviceSync, BeginServiceSync, BeginAdminSync, BeginResolve

(* A synced record is backed by a whole transaction made for it, however   *)
(* many requests replay it, fail, are killed or work from stale instances. *)
THEOREM SyncedBacked == Spec => []SyncedIsBacked
<1>1. BackedInv => SyncedIsBacked
  BY DEF BackedInv
<1> QED BY BackedInit, BackedStep, <1>1, PTL DEF Spec

(* No step takes is_synced back.                                           *)
THEOREM SyncedFinal == Spec => SyncedIsFinal
<1>1. ASSUME BasicInv, [Next]_vars
      PROVE  [\A r \in Records : row[r].synced => row'[r].synced]_vars
  <2>0. TypeOK /\ \A w \in Workers : pc[w] \in Busy => cur[w] \in Records
    BY <1>1 DEF BasicInv, Position
  <2>1. ASSUME NEW w \in Workers, MarkSynced(w) PROVE \A r \in Records : row[r].synced => row'[r].synced
    <3>1. cur[w] \in Records
      BY <2>0, <2>1 DEF MarkSynced, Busy
    <3> QED BY <2>0, <2>1, <3>1 DEF MarkSynced, SaveRow, TypeOK, Row
  <2>2. ASSUME NEW w \in Workers, SyncStep(w), ~MarkSynced(w) PROVE KeepsSynced
    BY <2>0, <2>2, SyncKeepsSynced DEF Busy
  <2>3. ASSUME NEW w \in Workers, Crash(w) \/ (\E batch, step : Begin(w, batch, step)) PROVE KeepsSynced
    BY <2>3 DEF Crash, Begin, tables, KeepsSynced
  <2>4. CASE UNCHANGED vars
    BY <2>4
  <2>5. CASE Next
    BY <2>0, <2>1, <2>2, <2>3, <2>5, OtherKeepsSynced
    DEF Next, KeepsSynced, BeginDeviceSync, BeginServiceSync, BeginAdminSync, BeginResolve, SyncStep
  <2> QED BY <1>1, <2>4, <2>5
<1> QED BY BasicAlways, <1>1, PTL DEF Spec, SyncedIsFinal
-----------------------------------------------------------------------------
(* The stock.                                                              *)

(* The invariant about the stock holds initially.                          *)
LEMMA StockInit == Init => StockInv
BY BasicInit DEF Init, StockInv, SeenInv, NoPhantomSale, SoldIffEmpty

(* Every step keeps the invariant about the stock.                         *)
LEMMA StockStep ==
  ASSUME StockInv, [Next]_vars
  PROVE  StockInv'
<1>0. /\ BasicInv /\ BasicInv' /\ TypeOK /\ TypeOK'
      /\ SeenInv /\ NoPhantomSale /\ SoldIffEmpty
  BY BasicStep DEF StockInv, BasicInv
<1>1. ASSUME NEW w \in Workers, ReadItem(w) PROVE StockInv'
  <2> DEFINE i == CurrentLine(w).item
  <2>1. i \in Items
    BY <1>0, <1>1, CurrentLineType DEF ReadItem, BasicInv, TypeOK, Position, Busy
  <2>2. /\ seen'[w] = [qty |-> stock[i], sold |-> i \in sold]
        /\ CurrentLine(w)' = CurrentLine(w)
        /\ \A v \in Workers \ {w} : seen'[v] = seen[v] /\ pc'[v] = pc[v]
        /\ UNCHANGED <<stock, sold, taken, cur, line>>
    BY <1>0, <1>1 DEF ReadItem, GoTo, TypeOK, tables, history, CurrentLine
  <2>3. stock[i] + taken[i] >= InitialStock[i] /\ (i \in sold <=> stock[i] = 0)
    BY <1>0, <2>1 DEF NoPhantomSale, SoldIffEmpty
  <2>4. SeenInv'
    <3> SUFFICES ASSUME NEW v \in Workers, pc'[v] = "write"
                 PROVE  LET k == CurrentLine(v)'.item
                        IN  /\ seen'[v].qty + taken'[k] >= InitialStock[k]
                            /\ seen'[v].sold <=> seen'[v].qty = 0
      BY DEF SeenInv
    <3>1. CASE v = w
      <4>1. CurrentLine(v)' = CurrentLine(w)
        BY <3>1, <2>2 DEF CurrentLine
      <4>2. seen'[v] = [qty |-> stock[i], sold |-> i \in sold]
        BY <3>1, <2>2
      <4>3. seen'[v].sold = (i \in sold)
        BY <4>2
      <4>4. seen'[v].qty = stock[i]
        BY <4>2
      <4> QED BY <2>2, <2>3, <4>1, <4>3, <4>4
    <3>2. CASE v # w
      <4>1. pc[v] = "write" /\ CurrentLine(v)' = CurrentLine(v) /\ seen'[v] = seen[v]
        BY <3>2, <2>2 DEF CurrentLine
      <4>2. LET k == CurrentLine(v).item
            IN  /\ seen[v].qty + taken[k] >= InitialStock[k]
                /\ seen[v].sold <=> seen[v].qty = 0
        BY <1>0, <4>1 DEF SeenInv
      <4> QED BY <2>2, <4>1, <4>2
    <3> QED BY <3>1, <3>2
  <2>5. NoPhantomSale' /\ SoldIffEmpty'
    BY <1>0, <2>2 DEF NoPhantomSale, SoldIffEmpty
  <2> QED BY <1>0, <2>4, <2>5 DEF StockInv
<1>2. ASSUME NEW w \in Workers, WriteItem(w) PROVE StockInv'
  <2> DEFINE i == CurrentLine(w).item
             q == CurrentLine(w).qty
  <2>1. i \in Items /\ q \in Nat \ {0}
    BY <1>0, <1>2, CurrentLineType DEF WriteItem, CanWrite, BasicInv, TypeOK, Position, Busy
  <2>2. /\ pc[w] = "write" /\ pc'[w] = "read"
        /\ seen[w].qty - q >= 0
        /\ stock'[i] = seen[w].qty - q
        /\ taken'[i] = taken[i] + q
        /\ \A k \in Items \ {i} : stock'[k] = stock[k] /\ taken'[k] = taken[k]
        /\ sold' = IF seen[w].qty - q = 0 \/ seen[w].sold THEN sold \cup {i} ELSE sold \ {i}
        /\ \A v \in Workers \ {w} : pc'[v] = pc[v] /\ line'[v] = line[v] /\ seen'[v] = seen[v]
        /\ cur' = cur
    BY <1>0, <1>2, <2>1 DEF WriteItem, CanWrite, WriteBack, Left, GoTo, TypeOK
  <2>3. seen[w].qty + taken[i] >= InitialStock[i] /\ (seen[w].sold <=> seen[w].qty = 0)
    BY <1>0, <2>2 DEF SeenInv
  <2>4. /\ seen[w].qty \in Nat
        /\ \A k \in Items : taken[k] \in Nat /\ stock[k] \in Nat /\ InitialStock[k] \in Nat
    BY <1>0 DEF TypeOK
  <2>5. ~seen[w].sold
    BY <2>1, <2>2, <2>3, <2>4
  <2>6. NoPhantomSale'
    BY <1>0, <2>1, <2>2, <2>3, <2>4 DEF NoPhantomSale
  <2>7. SoldIffEmpty'
    BY <1>0, <2>1, <2>2, <2>5 DEF SoldIffEmpty
  <2>8. SeenInv'
    <3> SUFFICES ASSUME NEW v \in Workers, pc'[v] = "write"
                 PROVE  LET k == CurrentLine(v)'.item
                        IN  /\ seen'[v].qty + taken'[k] >= InitialStock[k]
                            /\ seen'[v].sold <=> seen'[v].qty = 0
      BY DEF SeenInv
    <3>1. v # w /\ pc[v] = "write"
      BY <2>2
    <3> DEFINE k == CurrentLine(v).item
    <3>2. CurrentLine(v)' = CurrentLine(v) /\ seen'[v] = seen[v]
      BY <2>2, <3>1 DEF CurrentLine
    <3>3. k \in Items
      BY <1>0, <3>1, CurrentLineType DEF BasicInv, TypeOK, Position, Busy
    <3>4. seen[v].qty + taken[k] >= InitialStock[k] /\ (seen[v].sold <=> seen[v].qty = 0)
      BY <1>0, <3>1 DEF SeenInv
    <3>5. seen[v].qty \in Nat
      BY <1>0 DEF TypeOK
    <3>6. taken'[k] >= taken[k] /\ taken'[k] \in Nat
      BY <2>1, <2>2, <2>4, <3>3
    <3>7. seen[v].qty + taken'[k] >= InitialStock[k]
      BY <3>3, <3>4, <3>5, <3>6, <2>4
    <3> QED BY <3>2, <3>4, <3>7
  <2> QED BY <1>0, <2>6, <2>7, <2>8 DEF StockInv
<1>3. ASSUME UNCHANGED <<stock, sold, taken>>,
             \A v \in Workers : pc'[v] = "write" =>
               pc[v] = "write" /\ UNCHANGED <<cur[v], line[v], seen[v]>>
      PROVE  StockInv'
  BY <1>0, <1>3 DEF StockInv, SeenInv, NoPhantomSale, SoldIffEmpty, CurrentLine
<1>4. ASSUME NEW w \in Workers, UNCHANGED <<stock, sold, taken>>, pc'[w] # "write",
             \A v \in Workers \ {w} : /\ pc'[v] = pc[v] /\ cur'[v] = cur[v]
                                     /\ line'[v] = line[v] /\ seen'[v] = seen[v]
      PROVE  StockInv'
  BY <1>3, <1>4
<1>5. ASSUME NEW w \in Workers, NEW r \in Records, NEW step \in {"next", "resolve"},
             Done(w, r, step), UNCHANGED <<stock, sold, taken>>
      PROVE  StockInv'
  <2>1. /\ pc'[w] \in {"idle", step}
        /\ \A v \in Workers \ {w} : /\ pc'[v] = pc[v] /\ cur'[v] = cur[v]
                                    /\ line'[v] = line[v] /\ seen'[v] = seen[v]
    BY <1>0, <1>5, DoneType
  <2> QED BY <1>5, <2>1, <1>4
<1>6. ASSUME NEW w \in Workers, SyncStep(w) PROVE StockInv'
  <2>1. ASSUME MarkSynced(w) \/ SaveFailure(w) PROVE StockInv'
    <3>1. cur[w] \in Records
      BY <1>0, <2>1 DEF MarkSynced, SaveFailure, RecordFailure, BasicInv, Position, Busy
    <3> QED BY <1>5, <2>1, <3>1 DEF MarkSynced, SaveFailure, RecordFailure, history
  <2>2. ASSUME NEW r \in Records, StartOnDeleted(w, r) PROVE StockInv'
    BY <1>5, <2>2 DEF StartOnDeleted, tables, history
  <2>3. ASSUME \/ \E r \in Records : StartSync(w, r)
               \/ CreateTx(w) \/ AddLine(w) \/ EndOfLines(w) \/ RefuseWrite(w)
               \/ Complete(w) \/ Raise(w)
        PROVE  StockInv'
    <3> DEFINE Same == \A v \in Workers \ {w} : /\ pc'[v] = pc[v] /\ cur'[v] = cur[v]
                                                 /\ line'[v] = line[v] /\ seen'[v] = seen[v]
               Apart == UNCHANGED <<stock, sold, taken>> /\ pc'[w] # "write" /\ Same
    <3>1. ASSUME NEW r \in Records, StartSync(w, r) PROVE Apart
      BY <1>0, <3>1 DEF StartSync, GoTo, TypeOK, history
    <3>2. ASSUME CreateTx(w) PROVE Apart
      <4>1. UNCHANGED <<stock, sold, taken, cur, line, seen>> /\ GoTo(w, "lines")
        BY <3>2 DEF CreateTx, history
      <4> QED BY <1>0, <4>1 DEF GoTo, TypeOK
    <3>3. ASSUME AddLine(w) PROVE Apart
      <4>1. /\ UNCHANGED <<stock, sold, taken, pc, cur, seen>> /\ pc[w] = "lines"
            /\ line' = [line EXCEPT ![w] = line[w] + 1]
        BY <3>3 DEF AddLine, history
      <4> QED BY <1>0, <4>1 DEF TypeOK
    <3>4. ASSUME EndOfLines(w) PROVE Apart
      BY <1>0, <3>4 DEF EndOfLines, GoTo, TypeOK, tables, history
    <3>5. ASSUME RefuseWrite(w) \/ Complete(w) \/ Raise(w) PROVE Apart
      <4>1. UNCHANGED <<stock, sold, taken, cur, line, seen>>
        BY <3>5 DEF RefuseWrite, Complete, Raise, tables, local, history
      <4>2. GoTo(w, "fail") \/ GoTo(w, "mark")
        BY <3>5 DEF RefuseWrite, Complete, Raise
      <4> QED BY <1>0, <4>1, <4>2 DEF GoTo, TypeOK
    <3>6. Apart
      BY <2>3, <3>1, <3>2, <3>3, <3>4, <3>5
    <3> QED BY <3>6, <1>4
  <2> QED BY <1>1, <1>2, <1>6, <2>1, <2>2, <2>3 DEF SyncStep
<1>7. ASSUME NEW w \in Workers, NEW batch, NEW step \in {"next", "resolve"},
             Begin(w, batch, step)
      PROVE  StockInv'
  BY <1>0, <1>4, <1>7 DEF Begin, GoTo, TypeOK, tables, history
<1>8. ASSUME NEW w \in Workers, ResolveStep(w) PROVE StockInv'
  <2>1. PICK r \in Records : \E new : Resolve(w, r, new)
    BY <1>8 DEF ResolveStep, ResolveRetry, ResolveSkip, ResolveMergeRefused
  <2> QED BY <1>5, <2>1 DEF Resolve, history
<1>9. ASSUME NEW w \in Workers, Crash(w) PROVE StockInv'
  BY <1>0, <1>4, <1>9 DEF Crash, ClearLocals, GoTo, TypeOK, tables
<1>10. CASE (\E r \in Records : CreateOffline(r)) \/ (\E d \in Devices : Cleanup(d))
  BY <1>3, <1>10 DEF CreateOffline, Cleanup, local, history
<1>11. CASE UNCHANGED vars
  BY <1>3, <1>11 DEF vars, tables, local, history
<1> QED BY <1>6, <1>7, <1>8, <1>9, <1>10, <1>11
        DEF Next, BeginDeviceSync, BeginServiceSync, BeginAdminSync, BeginResolve

(* Racing writers of an item may lose a decrement, never invent a sale.    *)
THEOREM StockNotInvented == Spec => []NoPhantomSale
<1>1. StockInv => NoPhantomSale
  BY DEF StockInv
<1> QED BY StockInit, StockStep, <1>1, PTL DEF Spec

(* An item is marked sold exactly when it has no unit left.                *)
THEOREM SoldMarkRight == Spec => []SoldIffEmpty
<1>1. StockInv => SoldIffEmpty
  BY DEF StockInv
<1> QED BY StockInit, StockStep, <1>1, PTL DEF Spec
-----------------------------------------------------------------------------
(* One request at a time, as after a single tablet or a single admin.      *)

OneWorker == \A v, w \in Workers : v = w

(* Nobody changes an item between its reading and its writing.             *)
SeenExact ==
  \A w \in Workers : pc[w] = "write" => seen[w].qty = stock[CurrentLine(w).item]

ExactInv == BasicInv /\ SeenExact /\ StockConserved

(* The instances of the batch agree with their rows, and the record being  *)
(* synced belongs to the batch.                                            *)
InstanceSo(w) ==
  /\ \A r \in todo[w] : /\ snap[w][r].retries = row[r].retries
                        /\ snap[w][r].conflicts = row[r].conflicts
  /\ pc[w] \in Busy => cur[w] \in todo[w]

ConflictInv ==
  BasicInv /\ ConflictIsExhausted /\ \A w \in Workers : InstanceSo(w)

(* The invariant about what the sync took out holds initially.             *)
LEMMA ExactInit == Init => ExactInv
BY BasicInit DEF Init, ExactInv, SeenExact, StockConserved

(* Every step of a lone request keeps it.                                  *)
LEMMA ExactStep ==
  ASSUME OneWorker, ExactInv, [Next]_vars
  PROVE  ExactInv'
<1>0. BasicInv /\ BasicInv' /\ TypeOK /\ TypeOK' /\ SeenExact /\ StockConserved
  BY BasicStep DEF ExactInv, BasicInv
<1>1. ASSUME NEW w \in Workers, ReadItem(w) PROVE ExactInv'
  <2>1. CurrentLine(w).item \in Items
    BY <1>0, <1>1, CurrentLineType DEF ReadItem, BasicInv, Position, TypeOK, Busy
  <2>2. /\ seen'[w].qty = stock[CurrentLine(w).item]
        /\ UNCHANGED <<stock, taken, cur, line>>
    BY <1>0, <1>1 DEF ReadItem, TypeOK, tables, history
  <2>3. SeenExact'
    BY <2>2 DEF SeenExact, CurrentLine, OneWorker
  <2> QED BY <1>0, <2>2, <2>3 DEF ExactInv, StockConserved
<1>2. ASSUME NEW w \in Workers, WriteItem(w) PROVE ExactInv'
  <2> DEFINE i == CurrentLine(w).item
             q == CurrentLine(w).qty
  <2>1. i \in Items /\ q \in Nat \ {0}
    BY <1>0, <1>2, CurrentLineType DEF WriteItem, CanWrite, BasicInv, Position, TypeOK, Busy
  <2>2. /\ pc[w] = "write" /\ pc'[w] = "read"
        /\ stock'[i] = seen[w].qty - q /\ taken'[i] = taken[i] + q
        /\ \A k \in Items \ {i} : stock'[k] = stock[k] /\ taken'[k] = taken[k]
    BY <1>0, <1>2, <2>1 DEF WriteItem, CanWrite, WriteBack, Left, GoTo, TypeOK
  <2>3. seen[w].qty = stock[i]
    BY <1>0, <2>2 DEF SeenExact
  <2>4. /\ seen[w].qty \in Nat
        /\ \A k \in Items : taken[k] \in Nat /\ stock[k] \in Nat /\ InitialStock[k] \in Nat
    BY <1>0 DEF TypeOK
  <2>5. StockConserved'
    BY <1>0, <2>1, <2>2, <2>3, <2>4 DEF StockConserved
  <2>6. SeenExact'
    BY <2>2 DEF SeenExact, OneWorker
  <2> QED BY <1>0, <2>5, <2>6 DEF ExactInv
<1>3. ASSUME UNCHANGED <<stock, taken>>,
             \A v \in Workers : pc'[v] = "write" =>
               pc[v] = "write" /\ UNCHANGED <<cur[v], line[v], seen[v]>>
      PROVE  ExactInv'
  BY <1>0, <1>3 DEF ExactInv, SeenExact, StockConserved, CurrentLine
<1>4. ASSUME NEW w \in Workers, UNCHANGED <<stock, taken>>, pc'[w] # "write"
      PROVE  ExactInv'
  BY <1>3, <1>4 DEF OneWorker
<1>5. ASSUME NEW w \in Workers, NEW r \in Records, NEW step \in {"next", "resolve"},
             Done(w, r, step), UNCHANGED <<stock, taken>>
      PROVE  ExactInv'
  BY <1>0, <1>4, <1>5, DoneType
<1>6. ASSUME NEW w \in Workers, SyncStep(w) PROVE ExactInv'
  <2>1. ASSUME MarkSynced(w) \/ SaveFailure(w) PROVE ExactInv'
    <3>1. cur[w] \in Records
      BY <1>0, <2>1 DEF MarkSynced, SaveFailure, RecordFailure, BasicInv, Position, Busy
    <3> QED BY <1>5, <2>1, <3>1 DEF MarkSynced, SaveFailure, RecordFailure, history
  <2>2. ASSUME NEW r \in Records, StartOnDeleted(w, r) PROVE ExactInv'
    BY <1>5, <2>2 DEF StartOnDeleted, tables, history
  <2>3. ASSUME \/ \E r \in Records : StartSync(w, r)
               \/ CreateTx(w) \/ AddLine(w) \/ EndOfLines(w) \/ RefuseWrite(w)
               \/ Complete(w) \/ Raise(w)
        PROVE  ExactInv'
    <3>1. UNCHANGED <<stock, taken>>
      BY <2>3 DEF StartSync, CreateTx, AddLine, EndOfLines, RefuseWrite, Complete, Raise,
                  tables, local, history
    <3>2. \/ UNCHANGED pc /\ pc[w] = "lines"
          \/ \E s \in {"create", "lines", "read", "mark", "fail"} : GoTo(w, s)
      BY <2>3 DEF StartSync, CreateTx, AddLine, EndOfLines, RefuseWrite, Complete, Raise
    <3>3. pc'[w] # "write"
      BY <1>0, <3>2 DEF GoTo, TypeOK
    <3> QED BY <3>1, <3>3, <1>4
  <2> QED BY <1>1, <1>2, <1>6, <2>1, <2>2, <2>3 DEF SyncStep
<1>7. ASSUME NEW w \in Workers, NEW batch, NEW step \in {"next", "resolve"},
             Begin(w, batch, step)
      PROVE  ExactInv'
  BY <1>0, <1>4, <1>7 DEF Begin, GoTo, TypeOK, tables, history
<1>8. ASSUME NEW w \in Workers, ResolveStep(w) PROVE ExactInv'
  <2>1. PICK r \in Records : \E new : Resolve(w, r, new)
    BY <1>8 DEF ResolveStep, ResolveRetry, ResolveSkip, ResolveMergeRefused
  <2> QED BY <1>5, <2>1 DEF Resolve, history
<1>9. ASSUME NEW w \in Workers, Crash(w) PROVE ExactInv'
  BY <1>0, <1>4, <1>9 DEF Crash, GoTo, TypeOK, tables
<1>10. CASE (\E r \in Records : CreateOffline(r)) \/ (\E d \in Devices : Cleanup(d))
  BY <1>3, <1>10 DEF CreateOffline, Cleanup, local, history
<1>11. CASE UNCHANGED vars
  BY <1>3, <1>11 DEF vars, tables, local, history
<1> QED BY <1>6, <1>7, <1>8, <1>9, <1>10, <1>11
        DEF Next, BeginDeviceSync, BeginServiceSync, BeginAdminSync, BeginResolve

(* With one request at a time no decrement is lost either: the stock is    *)
(* what it was at the start less what the sync took out.                   *)
THEOREM StockKept ==
  ASSUME OneWorker
  PROVE  Spec => []StockConserved
<1>1. ExactInv /\ [Next]_vars => ExactInv'
  BY ExactStep
<1>2. ExactInv => StockConserved
  BY DEF ExactInv
<1> QED BY ExactInit, <1>1, <1>2, PTL DEF Spec

(* The columns a conflict is judged by.                                    *)
RowSo(x) ==
  /\ x.conflicts => x.retries = MaxRetries
  /\ x.status = "conflict" => x.conflicts

(* The invariant about conflicts holds initially.                          *)
LEMMA ConflictInit == Init => ConflictInv
BY BasicInit DEF Init, ConflictInv, ConflictIsExhausted, InstanceSo, NoRow, Busy

(* A request that is through with a record has saved a row that is so.     *)
LEMMA DoneConflict ==
  ASSUME OneWorker, ConflictInv, BasicInv', NEW w \in Workers, NEW r \in Records,
         NEW new, NEW step \in {"next", "resolve"},
         SaveRow(r, new) \/ UNCHANGED row, Done(w, r, step), RowSo(new)
  PROVE  ConflictInv'
<1>0. TypeOK /\ ConflictIsExhausted /\ InstanceSo(w)
  BY DEF ConflictInv, BasicInv
<1>1. \A s \in Records : RowSo(row[s]) /\ (s # r => row'[s] = row[s])
  BY <1>0 DEF ConflictIsExhausted, RowSo, SaveRow, TypeOK
<1>2. RowSo(row'[r])
  BY <1>0, <1>1 DEF SaveRow, TypeOK
<1>3. ConflictIsExhausted'
  BY <1>1, <1>2 DEF ConflictIsExhausted, RowSo
<1>4. /\ todo'[w] = todo[w] \ {r} /\ pc'[w] \notin Busy
      /\ \A s \in Records \ {r} : snap'[w][s] = snap[w][s]
  BY <1>0 DEF Done, TypeOK, Busy
<1>5. InstanceSo(w)'
  BY <1>0, <1>1, <1>4 DEF InstanceSo, TypeOK
<1> QED BY <1>3, <1>5 DEF ConflictInv, OneWorker

(* Every step of a lone request keeps it.                                  *)
LEMMA ConflictStep ==
  ASSUME OneWorker, ConflictInv, [Next]_vars
  PROVE  ConflictInv'
<1>0. /\ BasicInv /\ BasicInv' /\ TypeOK /\ ConflictIsExhausted
      /\ \A w \in Workers : InstanceSo(w)
      /\ \A r \in Records : row[r] \in Row /\ RowSo(row[r])
      /\ \A w \in Workers : pc[w] \in Busy => cur[w] \in Records
  BY BasicStep DEF ConflictInv, BasicInv, TypeOK, Position, ConflictIsExhausted, RowSo
<1>1. ASSUME NEW w \in Workers, NEW r \in Records, StartSync(w, r) PROVE ConflictInv'
  <2> DEFINE a == IF snap[w][r].retries < MaxRetries
                  THEN snap[w][r].retries + 1 ELSE MaxRetries
  <2>1. /\ pc'[w] = "create" /\ cur'[w] = r /\ r \in todo[w] /\ todo' = todo
        /\ row' = [row EXCEPT ![r] = [row[r] EXCEPT !.status = "syncing", !.retries = a]]
        /\ snap'[w] = [snap[w] EXCEPT ![r] = [snap[w][r] EXCEPT !.retries = a]]
    BY <1>0, <1>1 DEF StartSync, GoTo, TypeOK
  <2>2. snap[w][r].retries = row[r].retries /\ snap[w][r].conflicts = row[r].conflicts
    BY <1>0, <2>1 DEF InstanceSo
  <2>3. row[r].conflicts => a = MaxRetries
    BY <1>0, <2>2 DEF RowSo
  <2> HIDE DEF a
  <2>4. /\ row'[r].status = "syncing" /\ row'[r].retries = a
        /\ row'[r].conflicts = row[r].conflicts
        /\ \A s \in Records \ {r} : row'[s] = row[s]
    BY <1>0, <2>1 DEF TypeOK, Row
  <2>5. /\ snap'[w][r].retries = a /\ snap'[w][r].conflicts = snap[w][r].conflicts
        /\ \A s \in Records \ {r} : snap'[w][s] = snap[w][s]
    BY <1>0, <2>1 DEF TypeOK, Instance
  <2>6. ConflictIsExhausted'
    BY <1>0, <2>3, <2>4 DEF ConflictIsExhausted
  <2>7. InstanceSo(w)'
    BY <1>0, <2>1, <2>2, <2>4, <2>5 DEF InstanceSo, TypeOK
  <2> QED BY <1>0, <2>6, <2>7 DEF ConflictInv, OneWorker
<1>2. ASSUME NEW w \in Workers, NEW r \in Records, StartOnDeleted(w, r) PROVE ConflictInv'
  BY <1>0, <1>2, DoneConflict DEF StartOnDeleted, tables
<1>3. ASSUME NEW w \in Workers, UNCHANGED <<row, todo, snap>>,
             pc'[w] \in Busy => pc[w] \in Busy /\ cur'[w] = cur[w]
      PROVE  ConflictInv'
  BY <1>0, <1>3 DEF ConflictInv, ConflictIsExhausted, InstanceSo, OneWorker
<1>4. ASSUME NEW w \in Workers,
             \/ CreateTx(w) \/ AddLine(w) \/ EndOfLines(w) \/ ReadItem(w)
             \/ WriteItem(w) \/ RefuseWrite(w) \/ Complete(w) \/ Raise(w)
      PROVE  ConflictInv'
  <2>1. UNCHANGED <<row, todo, snap, cur>> /\ pc[w] \in Busy
    BY <1>4 DEF CreateTx, AddLine, EndOfLines, ReadItem, WriteItem, CanWrite, WriteBack,
                RefuseWrite, Complete, Raise, tables, local, Busy
  <2> QED BY <1>3, <2>1
<1>5. ASSUME NEW w \in Workers, MarkSynced(w) PROVE ConflictInv'
  <2>1. cur[w] \in Records
    BY <1>0, <1>5 DEF MarkSynced, Busy
  <2>2. RowSo([row[cur[w]] EXCEPT !.status = "synced", !.synced = TRUE, !.tx = mytx[w]])
    BY <1>0, <2>1 DEF RowSo, Row
  <2> QED BY <1>0, <1>5, <2>1, <2>2, DoneConflict DEF MarkSynced
<1>6. ASSUME NEW w \in Workers, SaveFailure(w) PROVE ConflictInv'
  <2> DEFINE r == cur[w]
             e == Retries(w) >= MaxRetries
             new == [row[r] EXCEPT !.status = IF e THEN "conflict" ELSE "failed",
                                   !.conflicts = e \/ snap[w][r].conflicts]
  <2>1. r \in Records /\ r \in todo[w]
    BY <1>0, <1>6 DEF SaveFailure, RecordFailure, Busy, InstanceSo
  <2>2. /\ snap[w][r].retries = row[r].retries /\ snap[w][r].conflicts = row[r].conflicts
        /\ row[r].retries \in 0..MaxRetries
    BY <1>0, <2>1 DEF InstanceSo, Row
  <2>3. /\ e <=> row[r].retries = MaxRetries
        /\ row[r].conflicts => e
    BY <1>0, <2>1, <2>2 DEF Retries, RowSo
  <2>4. SaveRow(r, new) /\ Done(w, r, "next")
    BY <1>6 DEF SaveFailure, RecordFailure
  <2>5. /\ new.retries = row[r].retries
        /\ new.conflicts = (e \/ snap[w][r].conflicts)
        /\ new.status = IF e THEN "conflict" ELSE "failed"
    BY <1>0, <2>1 DEF Row
  <2> HIDE DEF e, new
  <2>6. RowSo(new)
    BY <2>2, <2>3, <2>5 DEF RowSo
  <2> QED BY <1>0, <2>1, <2>4, <2>6, DoneConflict
<1>7. ASSUME NEW w \in Workers, NEW batch \in SUBSET Records, NEW step \in {"next", "resolve"},
             Begin(w, batch, step)
      PROVE  ConflictInv'
  <2>1. /\ UNCHANGED row /\ todo'[w] = batch /\ pc'[w] \notin Busy
        /\ \A r \in batch : snap'[w][r] = [retries |-> row[r].retries,
                                           conflicts |-> row[r].conflicts]
    BY <1>0, <1>7 DEF Begin, GoTo, TypeOK, tables, Busy
  <2>2. ASSUME NEW r \in batch
        PROVE  snap'[w][r].retries = row'[r].retries /\ snap'[w][r].conflicts = row'[r].conflicts
    <3>1. snap'[w][r] = [retries |-> row[r].retries, conflicts |-> row[r].conflicts]
      BY <2>1
    <3>2. snap'[w][r].retries = row[r].retries
      BY <3>1
    <3>3. snap'[w][r].conflicts = row[r].conflicts
      BY <3>1
    <3> QED BY <2>1, <3>2, <3>3
  <2>3. InstanceSo(w)'
    BY <2>1, <2>2 DEF InstanceSo
  <2> QED BY <1>0, <2>1, <2>3 DEF ConflictInv, ConflictIsExhausted, OneWorker
<1>8. ASSUME NEW w \in Workers, ResolveStep(w) PROVE ConflictInv'
  <2>1. PICK r \in Records : ResolveRetry(w, r) \/ ResolveSkip(w, r) \/ ResolveMergeRefused(w, r)
    BY <1>8 DEF ResolveStep
  <2>2. /\ RowSo([row[r] EXCEPT !.status = "pending", !.conflicts = FALSE, !.retries = 0])
        /\ RowSo([row[r] EXCEPT !.status = "failed", !.conflicts = FALSE])
        /\ RowSo(row[r])
    BY <1>0 DEF RowSo, Row
  <2>3. PICK new : Resolve(w, r, new) /\ RowSo(new)
    BY <2>1, <2>2 DEF ResolveRetry, ResolveSkip, ResolveMergeRefused
  <2> QED BY <1>0, <2>3, DoneConflict DEF Resolve
<1>9. ASSUME NEW w \in Workers, Crash(w) PROVE ConflictInv'
  <2>1. UNCHANGED row /\ todo'[w] = {} /\ pc'[w] \notin Busy
    BY <1>0, <1>9 DEF Crash, GoTo, TypeOK, tables, Busy
  <2> QED BY <1>0, <2>1 DEF ConflictInv, ConflictIsExhausted, InstanceSo, OneWorker
<1>10. ASSUME UNCHANGED local, UNCHANGED pc,
              \A r \in Records : /\ row'[r].retries = row[r].retries
                                 /\ row'[r].conflicts = row[r].conflicts
                                 /\ row'[r].status = row[r].status
       PROVE  ConflictInv'
  BY <1>0, <1>10 DEF ConflictInv, ConflictIsExhausted, InstanceSo, local, TypeOK
<1>11. ASSUME NEW r \in Records, CreateOffline(r) PROVE ConflictInv'
  <2>1. \A s \in Records : /\ row'[s].retries = row[s].retries
                           /\ row'[s].conflicts = row[s].conflicts
                           /\ row'[s].status = row[s].status
    BY <1>0, <1>11 DEF CreateOffline, NoRow, TypeOK
  <2> QED BY <1>10, <1>11, <2>1 DEF CreateOffline
<1>12. ASSUME NEW d \in Devices, Cleanup(d) PROVE ConflictInv'
  <2>1. \A s \in Records : /\ row'[s].retries = row[s].retries
                           /\ row'[s].conflicts = row[s].conflicts
                           /\ row'[s].status = row[s].status
    <3>1. PICK old : row' = [s \in Records |-> IF s \in old THEN [row[s] EXCEPT !.exists = FALSE]
                                                         ELSE row[s]]
      BY <1>12 DEF Cleanup
    <3> QED BY <1>0, <3>1 DEF Row
  <2> QED BY <1>10, <1>12, <2>1 DEF Cleanup
<1>13. CASE UNCHANGED vars
  BY <1>10, <1>13 DEF vars, tables, local
<1>14. ASSUME NEW w \in Workers, NEW d \in Devices \cup {None},
              \/ BeginDeviceSync(w, d) \/ BeginResolve(w, d) \/ BeginServiceSync(w, d)
              \/ BeginAdminSync(w)
       PROVE  ConflictInv'
  <2>1. /\ DeviceBatch(d) \in SUBSET Records /\ ConflictBatch(d) \in SUBSET Records
        /\ ServiceBatch(d) \in SUBSET Records /\ Unsynced \in SUBSET Records
    BY DEF DeviceBatch, ConflictBatch, ServiceBatch, Unsynced
  <2>2. PICK batch \in SUBSET Records, step \in {"next", "resolve"} : Begin(w, batch, step)
    BY <1>14, <2>1 DEF BeginDeviceSync, BeginResolve, BeginServiceSync, BeginAdminSync
  <2> QED BY <1>7, <2>2
<1>15. ASSUME NEW w \in Workers, SyncStep(w) PROVE ConflictInv'
  BY <1>1, <1>2, <1>4, <1>5, <1>6, <1>15 DEF SyncStep
<1> QED BY <1>8, <1>9, <1>11, <1>12, <1>13, <1>14, <1>15 DEF Next

(* With one request at a time a record reaches the list of conflicts only  *)
(* when its attempts are used up, and every conflict is in that list.      *)
THEOREM ConflictsAreExhausted ==
  ASSUME OneWorker
  PROVE  Spec => []ConflictIsExhausted
<1>1. ConflictInv /\ [Next]_vars => ConflictInv'
  BY ConflictStep
<1>2. ConflictInv => ConflictIsExhausted
  BY DEF ConflictInv
<1> QED BY ConflictInit, <1>1, <1>2, PTL DEF Spec
=============================================================================
