---------------------------- MODULE OfflineSync ----------------------------
(***************************************************************************)
(* The server side of offline selling (zargar/pos): sales stored as        *)
(* POSOfflineStorage records while the shop was offline are replayed into  *)
(* POSTransaction rows by POSOfflineStorage.sync_to_database.              *)
(*                                                                         *)
(* The replay is a sequence of statements that commit one by one (the      *)
(* deployment runs in autocommit mode and the method opens no atomic       *)
(* block), so a step of this module is one statement, and other workers,   *)
(* failures and crashes fall between any two of them.  A worker is one     *)
(* request: it reads the records of its batch once, when the queryset is   *)
(* evaluated, and from then on works with those instances (snap).          *)
(***************************************************************************)
EXTENDS Integers, Sequences, FiniteSets

CONSTANTS
  Records,      \* POSOfflineStorage rows the shop may create
  Devices,      \* device identifiers
  DeviceOf,     \* the device that created each record
  Items,        \* JewelryItem rows
  Workers,      \* concurrent requests (threads of the application server)
  Lines,        \* transaction_data['line_items']: a sequence for each record
  Paid,         \* records whose amount_paid covers their total_amount
  InitialStock, \* JewelryItem.quantity when the model starts
  MaxRetries,   \* POSOfflineStorage.max_retry_attempts
  MaxTx,        \* bound: POSTransaction rows the sync may create
  MaxCrashes,   \* bound: requests killed half way
  None          \* no record, no transaction

TxIds == 1..MaxTx

ASSUME SyncAssumptions ==
  /\ DeviceOf \in [Records -> Devices]
  /\ InitialStock \in [Items -> Nat]
  /\ Lines \in [Records -> Seq([item : Items, qty : Nat \ {0}])]
  /\ Paid \subseteq Records
  /\ MaxRetries \in Nat \ {0}
  /\ MaxTx \in Nat
  /\ MaxCrashes \in Nat
  /\ None \notin Records /\ None \notin TxIds

VARIABLES
  row,      \* POSOfflineStorage table
  tx,       \* POSTransaction table, restricted to rows made by the sync
  stock,    \* JewelryItem.quantity
  sold,     \* items whose JewelryItem.status is 'sold'
  pc,       \* what each worker is about to do
  snap,     \* what matters later of the instances read for a batch
  todo,     \* records of the batch not handled yet
  cur,      \* the record being synced
  mytx,     \* the POSTransaction created for it
  line,     \* line items already handled by the loop that runs
  covered,  \* line items counted in the in-memory total_amount
  seen,     \* JewelryItem read by complete_transaction before it is written
  taken,    \* history: units taken from each item by the sync
  crashes   \* history: number of crashes so far

tables  == <<row, tx, stock, sold>>
local   == <<snap, todo, cur, mytx, line, covered, seen>>
history == <<taken, crashes>>
vars    == <<tables, pc, local, history>>

Instance == [retries : 0..MaxRetries, conflicts : BOOLEAN]

Unloaded == [retries |-> 0, conflicts |-> FALSE]

Statuses == {"pending", "syncing", "synced", "failed", "conflict"}

Row == [exists    : BOOLEAN,
        status    : Statuses,
        synced    : BOOLEAN,
        conflicts : BOOLEAN,
        retries   : 0..MaxRetries,
        tx        : TxIds \cup {None}]

NoRow == [exists |-> FALSE, status |-> "pending", synced |-> FALSE,
          conflicts |-> FALSE, retries |-> 0, tx |-> None]

Tx == [record : Records \cup {None},      \* None: the row does not exist
       lines  : Nat,                      \* line items inserted so far
       status : {"pending", "completed"},
       credited : Nat]                    \* line items the customer was credited for

NoTx == [record |-> None, lines |-> 0, status |-> "pending", credited |-> 0]

Unread == [qty |-> 0, sold |-> FALSE]

Steps == {"idle", "next", "create", "lines", "read", "write", "mark", "fail",
          "resolve"}

TypeOK ==
  /\ row \in [Records -> Row]
  /\ tx \in [TxIds -> Tx]
  /\ stock \in [Items -> Nat]
  /\ sold \in SUBSET Items
  /\ pc \in [Workers -> Steps]
  /\ snap \in [Workers -> [Records -> Instance]]
  /\ todo \in [Workers -> SUBSET Records]
  /\ cur \in [Workers -> Records \cup {None}]
  /\ mytx \in [Workers -> TxIds \cup {None}]
  /\ line \in [Workers -> Nat]
  /\ covered \in [Workers -> Nat]
  /\ seen \in [Workers -> [qty : Nat, sold : BOOLEAN]]
  /\ taken \in [Items -> Nat]
  /\ crashes \in 0..MaxCrashes

Init ==
  /\ row = [r \in Records |-> NoRow]
  /\ tx = [t \in TxIds |-> NoTx]
  /\ stock = InitialStock
  /\ sold = {i \in Items : InitialStock[i] = 0}
  /\ pc = [w \in Workers |-> "idle"]
  /\ snap = [w \in Workers |-> [r \in Records |-> Unloaded]]
  /\ todo = [w \in Workers |-> {}]
  /\ cur = [w \in Workers |-> None]
  /\ mytx = [w \in Workers |-> None]
  /\ line = [w \in Workers |-> 0]
  /\ covered = [w \in Workers |-> 0]
  /\ seen = [w \in Workers |-> Unread]
  /\ taken = [i \in Items |-> 0]
  /\ crashes = 0
-----------------------------------------------------------------------------
(* Helpers                                                                 *)

LineCount(r) == Len(Lines[r])

\* The line item the running loop of worker w has reached.
CurrentLine(w) == Lines[cur[w]][line[w] + 1]

\* save(update_fields=...) of record r; on a deleted row it raises, and
\* every caller's handler swallows the error.
SaveRow(r, new) ==
  row' = IF row[r].exists THEN [row EXCEPT ![r] = new] ELSE row

ClearLocals(w) ==
  /\ cur' = [cur EXCEPT ![w] = None]
  /\ mytx' = [mytx EXCEPT ![w] = None]
  /\ line' = [line EXCEPT ![w] = 0]
  /\ covered' = [covered EXCEPT ![w] = 0]
  /\ seen' = [seen EXCEPT ![w] = Unread]

\* Worker w is through with record r and turns to the rest of its batch.
Done(w, r, step) ==
  /\ todo' = [todo EXCEPT ![w] = @ \ {r}]
  /\ pc' = [pc EXCEPT ![w] = IF todo[w] \subseteq {r} THEN "idle" ELSE step]
  /\ snap' = [snap EXCEPT ![w][r] = Unloaded]
  /\ ClearLocals(w)

GoTo(w, step) == pc' = [pc EXCEPT ![w] = step]

-----------------------------------------------------------------------------
(* Requests: each reads its batch and then works through it                *)

\* OfflinePOSSystem.create_offline_transaction and
\* POSOfflineService.store_offline_transaction.
CreateOffline(r) ==
  /\ row[r] = NoRow
  /\ row' = [row EXCEPT ![r] = [NoRow EXCEPT !.exists = TRUE]]
  /\ UNCHANGED <<tx, stock, sold, pc, local, history>>

Unsynced == {r \in Records : row[r].exists /\ ~row[r].synced}

\* OfflinePOSSystem.sync_offline_transactions takes the pending and the failed ones.
DeviceBatch(d) ==
  {r \in Unsynced : DeviceOf[r] = d /\ row[r].status \in {"pending", "failed"}}

\* POSOfflineService.sync_offline_transactions: no device means every device.
ServiceBatch(d) == {r \in Unsynced : d \in {None, DeviceOf[r]}}

ConflictBatch(d) ==
  {r \in Records : row[r].exists /\ row[r].conflicts /\ DeviceOf[r] = d}

Begin(w, batch, step) ==
  /\ pc[w] = "idle"
  /\ batch # {}
  /\ GoTo(w, step)
  /\ todo' = [todo EXCEPT ![w] = batch]
  /\ snap' = [snap EXCEPT ![w] =
       [r \in Records |->
          IF r \in batch
          THEN [retries |-> row[r].retries, conflicts |-> row[r].conflicts]
          ELSE Unloaded]]
  /\ UNCHANGED <<tables, cur, mytx, line, covered, seen, history>>

\* The request first asks whether the internet can be reached
\* (_check_connection).  If not it returns before it reads a row: it leaves
\* everything as it is, which is a stuttering step, and the sales wait.
BeginDeviceSync(w, d) == Begin(w, DeviceBatch(d), "next")

BeginServiceSync(w, d) == Begin(w, ServiceBatch(d), "next")

\* The admin action syncs whichever unsynced records were ticked.
BeginAdminSync(w) == \E batch \in SUBSET Unsynced : Begin(w, batch, "next")

BeginResolve(w, d) == Begin(w, ConflictBatch(d), "resolve")

-----------------------------------------------------------------------------
(* POSOfflineStorage.sync_to_database, statement by statement              *)

\* Seeded fault: the attempt is not counted.
StartSyncUncounted(w, r) ==
  /\ pc[w] = "next" /\ r \in todo[w]
  /\ row[r].exists
  /\ row' = [row EXCEPT ![r].status = "syncing"]
  /\ cur' = [cur EXCEPT ![w] = r]
  /\ GoTo(w, "create")
  /\ UNCHANGED <<tx, stock, sold, snap, todo, mytx, line, covered, seen, history>>

\* The attempt is counted from the instance's counter, which no later
\* statement of the code compares beyond max_retry_attempts.
StartSync(w, r) ==
  LET attempts == IF snap[w][r].retries < MaxRetries
                  THEN snap[w][r].retries + 1 ELSE MaxRetries
  IN  /\ pc[w] = "next" /\ r \in todo[w]
      /\ row[r].exists
      /\ row' = [row EXCEPT ![r].status = "syncing", ![r].retries = attempts]
      /\ snap' = [snap EXCEPT ![w][r].retries = attempts]
      /\ cur' = [cur EXCEPT ![w] = r]
      /\ GoTo(w, "create")
      /\ UNCHANGED <<tx, stock, sold, todo, mytx, line, covered, seen, history>>

\* The row was cleaned up meanwhile: the first save raises to the loop.
StartOnDeleted(w, r) ==
  /\ pc[w] = "next" /\ r \in todo[w]
  /\ ~row[r].exists
  /\ Done(w, r, "next")
  /\ UNCHANGED <<tables, history>>

\* POSTransaction.objects.create, whose save computes total_amount while the
\* transaction has no line item yet (the save of transaction_date repeats it).
CreateTx(w) ==
  /\ pc[w] = "create"
  /\ \E t \in TxIds :
       /\ tx[t] = NoTx
       /\ \A s \in TxIds : s < t => tx[s] # NoTx
       /\ tx' = [tx EXCEPT ![t].record = cur[w]]
       /\ mytx' = [mytx EXCEPT ![w] = t]
       /\ covered' = [covered EXCEPT ![w] = tx[t].lines]
  /\ GoTo(w, "lines")
  /\ UNCHANGED <<row, stock, sold, snap, todo, cur, line, seen, history>>

AddLine(w) ==
  /\ pc[w] = "lines"
  /\ line[w] < LineCount(cur[w])
  /\ tx' = [tx EXCEPT ![mytx[w]].lines = @ + 1]
  /\ line' = [line EXCEPT ![w] = @ + 1]
  /\ UNCHANGED <<row, stock, sold, pc, snap, todo, cur, mytx, covered, seen, history>>

\* Seeded fault: a paid sale is marked synced without being completed.
EndOfLinesNoCompletion(w) ==
  /\ pc[w] = "lines"
  /\ line[w] = LineCount(cur[w])
  /\ GoTo(w, "mark")
  /\ line' = [line EXCEPT ![w] = 0]
  /\ UNCHANGED <<tables, snap, todo, cur, mytx, covered, seen, history>>

\* A sale that was paid in full offline is completed, any other stays pending.
EndOfLines(w) ==
  /\ pc[w] = "lines"
  /\ line[w] = LineCount(cur[w])
  /\ GoTo(w, IF cur[w] \in Paid THEN "read" ELSE "mark")
  /\ line' = [line EXCEPT ![w] = 0]
  /\ UNCHANGED <<tables, snap, todo, cur, mytx, covered, seen, history>>

\* complete_transaction, inventory loop: read the item ...
ReadItem(w) ==
  /\ pc[w] = "read"
  /\ line[w] < LineCount(cur[w])
  /\ LET i == CurrentLine(w).item
     IN  seen' = [seen EXCEPT ![w] = [qty |-> stock[i], sold |-> i \in sold]]
  /\ GoTo(w, "write")
  /\ UNCHANGED <<tables, snap, todo, cur, mytx, line, covered, history>>

\* ... and write back the quantity and the status computed from what was read.
Left(w) == seen[w].qty - CurrentLine(w).qty

CanWrite(w) == pc[w] = "write" /\ Left(w) >= 0

WriteBack(w, left, empty) ==
  LET i == CurrentLine(w).item
  IN  /\ stock' = [stock EXCEPT ![i] = left]
      /\ sold' = IF empty \/ seen[w].sold THEN sold \cup {i} ELSE sold \ {i}
      /\ taken' = [taken EXCEPT ![i] = @ + CurrentLine(w).qty]
      /\ line' = [line EXCEPT ![w] = @ + 1]
      /\ seen' = [seen EXCEPT ![w] = Unread]
      /\ GoTo(w, "read")
      /\ UNCHANGED <<row, tx, snap, todo, cur, mytx, covered, crashes>>

\* Seeded faults: no check on the column, one unit per line item, every item
\* taken for a unique piece, and an emptied item left in stock.
WriteItemUnchecked(w) == pc[w] = "write" /\ WriteBack(w, Left(w), Left(w) = 0)
WriteItemOneUnit(w) == CanWrite(w) /\ WriteBack(w, seen[w].qty - 1, Left(w) = 0)
WriteItemUnique(w) == CanWrite(w) /\ WriteBack(w, 0, TRUE)
WriteItemNotSold(w) == CanWrite(w) /\ WriteBack(w, Left(w), FALSE)

WriteItem(w) == CanWrite(w) /\ WriteBack(w, Left(w), Left(w) = 0)

\* A negative PositiveIntegerField breaks the table's CHECK constraint.
RefuseWrite(w) ==
  /\ pc[w] = "write"
  /\ Left(w) < 0
  /\ GoTo(w, "fail")
  /\ UNCHANGED <<tables, local, history>>

\* update_purchase_stats and the loyalty points use the in-memory total; then
\* the transaction is saved with its new status.
Complete(w) ==
  /\ pc[w] = "read"
  /\ line[w] = LineCount(cur[w])
  /\ tx' = [tx EXCEPT ![mytx[w]].status = "completed",
                      ![mytx[w]].credited = covered[w]]
  /\ GoTo(w, "mark")
  /\ UNCHANGED <<row, stock, sold, local, history>>

MarkSynced(w) ==
  LET r == cur[w]
  IN  /\ pc[w] = "mark"
      /\ SaveRow(r, [row[r] EXCEPT !.status = "synced", !.synced = TRUE,
                                   !.tx = mytx[w]])
      /\ Done(w, r, "next")
      /\ UNCHANGED <<tx, stock, sold, history>>

\* Any statement of the try block may raise: a transaction_number drawn twice,
\* malformed line data, a lost database connection.
Raise(w) ==
  /\ pc[w] \in {"create", "lines", "read", "write", "mark"}
  /\ GoTo(w, "fail")
  /\ UNCHANGED <<tables, local, history>>

\* The except branch: nothing the attempt wrote is undone.  "overwritten" are
\* the columns the save writes besides the outcome of the attempt.
RecordFailure(w, exhausted, overwritten) ==
  LET r == cur[w]
  IN  /\ pc[w] = "fail"
      /\ SaveRow(r, [overwritten EXCEPT
                       !.status = IF exhausted THEN "conflict" ELSE "failed",
                       !.conflicts = exhausted \/ snap[w][r].conflicts])
      /\ Done(w, r, "next")
      /\ UNCHANGED <<tx, stock, sold, history>>

Retries(w) == snap[w][cur[w]].retries

\* Seeded faults: the last attempt is given up, and a save without
\* update_fields writes the whole instance, which was read unsynced.
SaveFailureEarly(w) ==
  RecordFailure(w, Retries(w) + 1 >= MaxRetries, row[cur[w]])
SaveFailureAllFields(w) ==
  RecordFailure(w, Retries(w) >= MaxRetries, [row[cur[w]] EXCEPT !.synced = FALSE])

SaveFailure(w) == RecordFailure(w, Retries(w) >= MaxRetries, row[cur[w]])

-----------------------------------------------------------------------------
(* resolve_sync_conflicts / resolve_conflict, cleanup and crashes          *)

Resolve(w, r, new) ==
  /\ pc[w] = "resolve" /\ r \in todo[w]
  /\ SaveRow(r, new)
  /\ Done(w, r, "resolve")
  /\ UNCHANGED <<tx, stock, sold, history>>

ResolveRetry(w, r) ==
  Resolve(w, r, [row[r] EXCEPT !.status = "pending", !.conflicts = FALSE,
                               !.retries = 0])

ResolveSkip(w, r) ==
  Resolve(w, r, [row[r] EXCEPT !.status = "failed", !.conflicts = FALSE])

\* manual_merge needs data that resolve_sync_conflicts never passes.
ResolveMergeRefused(w, r) == Resolve(w, r, row[r])

\* OfflinePOSSystem.cleanup_old_transactions deletes synced records of a
\* device; which ones are old enough depends on the caller's days_old.
Cleanup(d) ==
  \E old \in SUBSET {r \in Records : /\ row[r].exists /\ row[r].synced
                                     /\ DeviceOf[r] = d} :
    /\ old # {}
    /\ row' = [r \in Records |->
                 IF r \in old THEN [row[r] EXCEPT !.exists = FALSE] ELSE row[r]]
    /\ UNCHANGED <<tx, stock, sold, pc, local, history>>

\* The process serving the request dies: only committed statements remain.
Crash(w) ==
  /\ pc[w] # "idle"
  /\ crashes < MaxCrashes
  /\ crashes' = crashes + 1
  /\ GoTo(w, "idle")
  /\ todo' = [todo EXCEPT ![w] = {}]
  /\ snap' = [snap EXCEPT ![w] = [r \in Records |-> Unloaded]]
  /\ ClearLocals(w)
  /\ UNCHANGED <<tables, taken>>

-----------------------------------------------------------------------------
SyncStep(w) ==
  \/ \E r \in Records : StartSync(w, r) \/ StartOnDeleted(w, r)
  \/ CreateTx(w) \/ AddLine(w) \/ EndOfLines(w)
  \/ ReadItem(w) \/ WriteItem(w) \/ RefuseWrite(w) \/ Complete(w)
  \/ MarkSynced(w) \/ Raise(w) \/ SaveFailure(w)

ResolveStep(w) ==
  \E r \in Records :
    ResolveRetry(w, r) \/ ResolveSkip(w, r) \/ ResolveMergeRefused(w, r)

Next ==
  \/ \E r \in Records : CreateOffline(r)
  \/ \E d \in Devices : Cleanup(d)
  \/ \E w \in Workers :
       \/ \E d \in Devices : BeginDeviceSync(w, d)
       \/ \E d \in Devices : BeginResolve(w, d)
       \/ \E d \in Devices \cup {None} : BeginServiceSync(w, d)
       \/ BeginAdminSync(w)
       \/ SyncStep(w)
       \/ ResolveStep(w)
       \/ Crash(w)

Spec == Init /\ [][Next]_vars

(* Fairness: the server goes on with the request it works on.  No request  *)
(* need be made: the browser's timer posts only while the browser's own    *)
(* queue holds sales, whatever rows the server has still to sync.          *)
Fairness == \A w \in Workers : WF_vars(SyncStep(w)) /\ WF_vars(ResolveStep(w))

FairSpec == Spec /\ Fairness

-----------------------------------------------------------------------------
(* Properties                                                              *)

(* What "synced" promises, whatever interleaves with it: the transaction a *)
(* synced record names exists, was made for this record, holds all of its  *)
(* line items, and is completed if the sale was paid.                      *)
SyncedIsBacked ==
  \A r \in Records : row[r].synced =>
    \E t \in TxIds : /\ row[r].tx = t
                     /\ tx[t].record = r
                     /\ tx[t].lines = LineCount(r)
                     /\ r \in Paid => tx[t].status = "completed"

(* No later failure, retry or conflict resolution working from a stale     *)
(* instance takes is_synced back.                                          *)
SyncedIsFinal == [][\A r \in Records : row[r].synced => row'[r].synced]_vars

(* A record is handed to the cashier as a conflict only when its attempts  *)
(* are used up, and a conflict status never lacks the flag that makes it   *)
(* appear in the list of conflicts.                                        *)
ConflictIsExhausted ==
  \A r \in Records :
    /\ row[r].conflicts => row[r].retries = MaxRetries
    /\ row[r].status = "conflict" => row[r].conflicts

(* The stock is what it was at the start less what the sync took out.      *)
StockConserved ==
  \A i \in Items : stock[i] + taken[i] = InitialStock[i]

(* Racing writers may lose a decrement, never invent one: the stock falls  *)
(* by at most the units taken.                                             *)
NoPhantomSale ==
  \A i \in Items : stock[i] + taken[i] >= InitialStock[i]

(* An item is marked sold exactly when its last unit is gone, although     *)
(* quantity and status are computed from an item read earlier.             *)
SoldIffEmpty == \A i \in Items : i \in sold <=> stock[i] = 0

(* A sync request has record r in its batch.                               *)
TakenUp(r) == \E w \in Workers : r \in todo[w] /\ pc[w] # "resolve"

(* A sale stored offline that requests take up again and again is synced   *)
(* or in the list of conflicts again and again: no failure, request killed *)
(* half way, skipped conflict or reset counter lets its bounded attempts   *)
(* go on for ever.  That somebody takes it up is a premise, since no part  *)
(* of the code sees to it.                                                 *)
SettlesIfTakenUp ==
  \A r \in Records :
    []<>TakenUp(r) => []<>(row[r].synced \/ row[r].conflicts)
=============================================================================
