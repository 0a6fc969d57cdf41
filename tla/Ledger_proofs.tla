--------------------------- MODULE Ledger_proofs ---------------------------
(***************************************************************************)
(* Proofs about Ledger for any number of requests, entries, accounts and   *)
(* cheques: as long as the requests about an entry do not overlap, it is   *)
(* posted only with lines that balance (PostedIsBalanced) and then stays   *)
(* as it is (PostedIsFinal), the balances of the accounts are the sums of  *)
(* what is posted (BooksAgree), and the bank has a deposit for each        *)
(* cleared cheque (DepositsAgree).                                         *)
(***************************************************************************)
EXTENDS Ledger, Sums

AtEntry  == {"check", "lines", "apply", "write", "edit"}
AtCheque == {"settle", "read bank", "write bank", "voucher"}

(* Where a request stands in what it is about and what it has read.        *)
PositionOf(c) ==
  /\ pc[c] \in AtEntry => subject[c] \in Entries /\ instance[c].status \in EntryStates
  /\ pc[c] \in AtCheque => subject[c] \in Cheques /\ instance[c].status \in ChequeStates
  /\ pc[c] = "voucher" => request[c] \in {"clear", "bounce"}
  /\ pc[c] = "read bank" => request[c] = "clear"
  /\ pc[c] = "write" => account[c].of \in Accounts
  /\ pc[c] = "write bank" => request[c] = "clear" /\ account[c].value \in Nat

Position == \A c \in Clerks : PositionOf(c)

BasicInv == TypeOK /\ Position

(* Two requests about one entry or cheque are on record.                   *)
Alone ==
  \A c, d \in Clerks : c # d /\ subject[c] = subject[d] /\ subject[c] # None
                         => subject[c] \in raced

(* What a request has found of an entry still holds, if it is alone.       *)
StillSoOf(c) ==
  subject[c] \notin raced =>
    /\ pc[c] = "check" /\ instance[c].postable => Balanced(lines[subject[c]])
    /\ pc[c] = "edit" => status[subject[c]] = "draft" /\ instance[c].status = "draft"

StillSo == \A c \in Clerks : StillSoOf(c)

BalancedInv == BasicInv /\ Alone /\ StillSo /\ PostedIsBalanced
-----------------------------------------------------------------------------
(* The sorts of the constants.                                             *)
LEMMA ConstantTypes ==
  /\ ChartAccount \in Accounts /\ Drafts \subseteq [Accounts -> Int]
  /\ MaxRequests \in Nat /\ MaxCrashes \in Nat
  /\ None \notin Entries /\ None \notin Cheques /\ None \notin Accounts
BY LedgerAssumptions

USE ConstantTypes

(* The types hold initially.                                               *)
LEMMA BasicInit == Init => BasicInv
<1> SUFFICES ASSUME Init PROVE BasicInv
  OBVIOUS
<1>1. TypeOK
  BY DEF Init, TypeOK, NoLines, Blank, NoAccount, EntryStates, ChequeStates, Requests
<1>2. Position
  BY DEF Init, Position, PositionOf, AtEntry, AtCheque
<1> QED BY <1>1, <1>2 DEF BasicInv

(* A request that ends leaves nothing behind in its memory.                *)
LEMMA EndPosition ==
  ASSUME NEW c \in Clerks, BasicInv, End(c)
  PROVE  /\ pc' \in [Clerks -> {"idle", "check", "lines", "apply", "write", "edit",
                                "settle", "read bank", "write bank", "voucher"}]
         /\ request' \in [Clerks -> Requests]
         /\ subject' \in [Clerks -> Entries \cup Cheques \cup {None}]
         /\ instance' \in [Clerks -> [status : EntryStates \cup ChequeStates,
                                      postable : BOOLEAN]]
         /\ todo' \in [Clerks -> [Accounts -> Int]]
         /\ account' \in [Clerks -> [of : Accounts \cup {None}, value : Int]]
         /\ Position'
<1>1. /\ "none" \in Requests
      /\ Blank \in [status : EntryStates \cup ChequeStates, postable : BOOLEAN]
      /\ NoAccount \in [of : Accounts \cup {None}, value : Int]
      /\ NoLines \in [Accounts -> Int]
  BY DEF Requests, Blank, NoAccount, NoLines, EntryStates, ChequeStates
<1>2. /\ pc' = [pc EXCEPT ![c] = "idle"]
      /\ request' = [request EXCEPT ![c] = "none"]
      /\ subject' = [subject EXCEPT ![c] = None]
      /\ instance' = [instance EXCEPT ![c] = Blank]
      /\ todo' = [todo EXCEPT ![c] = NoLines]
      /\ account' = [account EXCEPT ![c] = NoAccount]
  BY DEF End, GoTo
<1>3. Position'
  <2> SUFFICES ASSUME NEW d \in Clerks PROVE PositionOf(d)'
    BY DEF Position
  <2>1. CASE d = c
    BY <2>1, <1>2 DEF PositionOf, AtEntry, AtCheque, BasicInv, TypeOK
  <2>2. CASE d # c
    BY <2>2, <1>2 DEF PositionOf, Position, BasicInv, TypeOK
  <2> QED BY <2>1, <2>2
<1> QED BY <1>1, <1>2, <1>3 DEF BasicInv, TypeOK

(* A request that begins is about the row it has loaded.                   *)
LEMMA BeginPosition ==
  ASSUME NEW c \in Clerks, BasicInv, NEW r \in Requests, NEW row,
         NEW x \in Entries \cup Cheques, NEW step \in {"check", "edit", "settle"},
         row \in [status : EntryStates \cup ChequeStates, postable : BOOLEAN],
         Begin(c, r, x, row, step),
         step \in AtEntry => x \in Entries /\ row.status \in EntryStates,
         step = "settle" => x \in Cheques /\ row.status \in ChequeStates
  PROVE  BasicInv'
<1>1. TypeOK'
  <2>1. /\ pc' \in [Clerks -> {"idle", "check", "lines", "apply", "write", "edit",
                               "settle", "read bank", "write bank", "voucher"}]
        /\ request' \in [Clerks -> Requests]
        /\ subject' \in [Clerks -> Entries \cup Cheques \cup {None}]
    BY DEF Begin, GoTo, BasicInv, TypeOK
  <2>2. instance' \in [Clerks -> [status : EntryStates \cup ChequeStates,
                                  postable : BOOLEAN]]
    BY DEF Begin, BasicInv, TypeOK
  <2>3. requests' \in 0..MaxRequests
    <3>1. requests < MaxRequests /\ requests' = requests + 1 /\ requests \in 0..MaxRequests
      BY DEF Begin, BasicInv, TypeOK
    <3> QED BY <3>1
  <2>4. raced' \in SUBSET (Entries \cup Cheques)
    BY DEF Begin, BasicInv, TypeOK
  <2>5. UNCHANGED <<books, todo, account, broken, crashes>>
    BY DEF Begin
  <2> QED BY <2>1, <2>2, <2>3, <2>4, <2>5 DEF books, BasicInv, TypeOK
<1>2. Position'
  <2> SUFFICES ASSUME NEW d \in Clerks PROVE PositionOf(d)'
    BY DEF Position
  <2>1. CASE d = c
    BY <2>1 DEF PositionOf, AtEntry, AtCheque, BasicInv, TypeOK, Begin, GoTo
  <2>2. CASE d # c
    BY <2>2 DEF PositionOf, Position, BasicInv, TypeOK, Begin, GoTo
  <2> QED BY <2>1, <2>2
<1> QED BY <1>1, <1>2 DEF BasicInv

(* A step of one request leaves the memory of the others alone.            *)
LEMMA MovePosition ==
  ASSUME NEW c \in Clerks, BasicInv, NEW step, GoTo(c, step),
         UNCHANGED <<request, subject, instance>>,
         account' \in [Clerks -> [of : Accounts \cup {None}, value : Int]],
         \A d \in Clerks \ {c} : account'[d] = account[d],
         step \in AtEntry => pc[c] \in AtEntry,
         step \in AtCheque => pc[c] \in AtCheque,
         step = "voucher" => request[c] \in {"clear", "bounce"},
         step = "read bank" => request[c] = "clear",
         step = "write" => account'[c].of \in Accounts,
         step = "write bank" => request[c] = "clear" /\ account'[c].value \in Nat
  PROVE  Position'
<1> SUFFICES ASSUME NEW d \in Clerks PROVE PositionOf(d)'
  BY DEF Position
<1>1. pc' = [pc EXCEPT ![c] = step] /\ pc \in [Clerks -> {"idle", "check", "lines",
         "apply", "write", "edit", "settle", "read bank", "write bank", "voucher"}]
  BY DEF GoTo, BasicInv, TypeOK
<1>2. CASE d = c
  BY <1>1, <1>2 DEF PositionOf, Position, BasicInv
<1>3. CASE d # c
  BY <1>1, <1>3 DEF PositionOf, Position, BasicInv
<1> QED BY <1>2, <1>3

(* Every step keeps the types.                                             *)
LEMMA BasicStep == BasicInv /\ [Next]_vars => BasicInv'
<1> SUFFICES ASSUME BasicInv, [Next]_vars PROVE BasicInv'
  OBVIOUS
<1> USE DEF BasicInv
<1>1. ASSUME NEW c \in Clerks, NEW e \in Entries, LoadEntry(c, e) PROVE BasicInv'
  <2>1. [status |-> status[e], postable |-> Postable(e)]
          \in [status : EntryStates \cup ChequeStates, postable : BOOLEAN]
    BY DEF TypeOK, Postable, Balanced
  <2>2. status[e] \in EntryStates
    BY DEF TypeOK
  <2> QED BY <1>1, <2>1, <2>2, BeginPosition DEF LoadEntry, Requests
<1>2. ASSUME NEW c \in Clerks, NEW e \in Entries, BeginEdit(c, e) PROVE BasicInv'
  <2>1. [status |-> status[e], postable |-> FALSE]
          \in [status : EntryStates \cup ChequeStates, postable : BOOLEAN]
    BY DEF TypeOK
  <2>2. status[e] \in EntryStates
    BY DEF TypeOK
  <2> QED BY <1>2, <2>1, <2>2, BeginPosition DEF BeginEdit, Requests
<1>3. ASSUME NEW c \in Clerks, NEW r \in DOMAIN Settlements \cup {"change"},
             NEW q \in Cheques, LoadCheque(c, r, q)
      PROVE BasicInv'
  <2>1. [status |-> cheque[q], postable |-> FALSE]
          \in [status : EntryStates \cup ChequeStates, postable : BOOLEAN]
    BY DEF TypeOK
  <2>2. cheque[q] \in ChequeStates /\ r \in Requests
    BY DEF TypeOK, Requests, Settlements
  <2> QED BY <1>3, <2>1, <2>2, BeginPosition DEF LoadCheque, AtEntry
<1>4. ASSUME NEW c \in Clerks, RefusePost(c) \/ EndPost(c) \/ RefuseSettlement(c)
      PROVE BasicInv'
  <2>1. End(c) /\ UNCHANGED <<books, trace>>
    BY <1>4 DEF RefusePost, EndPost, RefuseSettlement
  <2> QED BY <2>1, EndPosition DEF TypeOK, books, trace
<1>5. ASSUME NEW c \in Clerks, SavePosted(c) PROVE BasicInv'
  <2>1. TypeOK'
    BY <1>5 DEF SavePosted, TypeOK, GoTo, task, trace, EntryStates
  <2>2. Position'
    BY <1>5, MovePosition DEF SavePosted, task, AtEntry, AtCheque, TypeOK
  <2> QED BY <2>1, <2>2
<1>6. ASSUME NEW c \in Clerks, ReadLines(c) PROVE BasicInv'
  <2>1. todo' \in [Clerks -> [Accounts -> Int]]
    BY <1>6 DEF ReadLines, TypeOK, Position, PositionOf, AtEntry
  <2>2. TypeOK'
    BY <1>6, <2>1 DEF ReadLines, TypeOK, GoTo, books, trace
  <2>3. Position'
    BY <1>6, MovePosition DEF ReadLines, AtEntry, AtCheque, TypeOK
  <2> QED BY <2>2, <2>3
<1>7. ASSUME NEW c \in Clerks, NEW a \in Accounts, ReadAccount(c, a) PROVE BasicInv'
  <2>1. [of |-> a, value |-> balance[a]] \in [of : Accounts \cup {None}, value : Int]
    BY DEF TypeOK
  <2>2. TypeOK'
    BY <1>7, <2>1 DEF ReadAccount, TypeOK, GoTo, books, trace
  <2>3. /\ account' \in [Clerks -> [of : Accounts \cup {None}, value : Int]]
        /\ \A d \in Clerks \ {c} : account'[d] = account[d]
        /\ account'[c].of \in Accounts
    BY <1>7, <2>1 DEF ReadAccount, TypeOK
  <2>4. Position'
    BY <1>7, <2>3, MovePosition DEF ReadAccount, AtEntry, AtCheque
  <2> QED BY <2>2, <2>4
<1>8. ASSUME NEW c \in Clerks, WriteBalance(c) PROVE BasicInv'
  <2> DEFINE a == account[c].of
  <2>1. a \in Accounts /\ account[c].value \in Int /\ todo[c] \in [Accounts -> Int]
    BY <1>8 DEF WriteBalance, Position, PositionOf, TypeOK
  <2>2. WithLine(account[c].value, todo[c][a]) \in Int
    BY <2>1 DEF WithLine
  <2>3. balance' \in [Accounts -> Int]
    BY <1>8, <2>2 DEF WriteBalance, TypeOK
  <2>4. todo' \in [Clerks -> [Accounts -> Int]]
    <3>1. todo' = [todo EXCEPT ![c] = [todo[c] EXCEPT ![a] = 0]]
      BY <1>8 DEF WriteBalance
    <3>2. [todo[c] EXCEPT ![a] = 0] \in [Accounts -> Int]
      BY <2>1
    <3> QED BY <3>1, <3>2 DEF TypeOK
  <2>5. NoAccount \in [of : Accounts \cup {None}, value : Int]
    BY DEF NoAccount
  <2>6. /\ account' \in [Clerks -> [of : Accounts \cup {None}, value : Int]]
        /\ \A d \in Clerks \ {c} : account'[d] = account[d]
    BY <1>8, <2>5 DEF WriteBalance, TypeOK
  <2>7. TypeOK'
    BY <1>8, <2>3, <2>4, <2>6 DEF WriteBalance, TypeOK, GoTo
  <2>8. Position'
    BY <1>8, <2>6, MovePosition DEF WriteBalance, AtEntry, AtCheque
  <2> QED BY <2>7, <2>8
<1>9. ASSUME NEW c \in Clerks, NEW l \in Drafts, CommitEdit(c, l) PROVE BasicInv'
  <2>1. status' \in [Entries -> EntryStates] /\ lines' \in [Entries -> Drafts]
    BY <1>9 DEF CommitEdit, TypeOK, Position, PositionOf, AtEntry
  <2>2. End(c) /\ UNCHANGED <<balance, cheque, voucher, strays, bank, trace>>
    BY <1>9 DEF CommitEdit
  <2> QED BY <2>1, <2>2, EndPosition DEF TypeOK, trace
<1>10. ASSUME NEW c \in Clerks, Settle(c) PROVE BasicInv'
  <2>1. request[c] \in {"present", "clear", "bounce", "cancel"}
    BY <1>10 DEF Settle, MaySettle, Settlements
  <2>2. Settlements[request[c]].to \in ChequeStates
    BY <2>1 DEF Settlements, ChequeStates
  <2>3. cheque' \in [Cheques -> ChequeStates]
    BY <1>10, <2>2 DEF Settle, TypeOK
  <2>4. CASE request[c] \in {"clear", "bounce"}
    <3>1. PICK step \in {"read bank", "voucher"} :
             GoTo(c, step) /\ (step = "read bank" => request[c] = "clear")
      BY <1>10, <2>4 DEF Settle
    <3>2. UNCHANGED task
      BY <1>10, <2>4 DEF Settle
    <3>3. TypeOK'
      BY <1>10, <2>3, <3>1, <3>2 DEF Settle, TypeOK, GoTo, task, trace
    <3>4. Position'
      BY <1>10, <2>4, <3>1, <3>2, MovePosition DEF Settle, TypeOK, task, AtEntry, AtCheque
    <3> QED BY <3>3, <3>4
  <2>5. CASE request[c] \notin {"clear", "bounce"}
    <3>1. End(c) /\ UNCHANGED <<status, lines, balance, voucher, strays, bank, trace>>
      BY <1>10, <2>5 DEF Settle
    <3> QED BY <2>3, <3>1, EndPosition DEF TypeOK, trace
  <2> QED BY <2>4, <2>5
<1>11. ASSUME NEW c \in Clerks, ChangeCheque(c) PROVE BasicInv'
  <2>1. cheque' \in [Cheques -> ChequeStates]
    BY <1>11 DEF ChangeCheque, TypeOK, Position, PositionOf, AtCheque
  <2>2. End(c) /\ UNCHANGED <<status, lines, balance, voucher, strays, bank, trace>>
    BY <1>11 DEF ChangeCheque
  <2> QED BY <2>1, <2>2, EndPosition DEF TypeOK, trace
<1>12. ASSUME NEW c \in Clerks, ReadBank(c) PROVE BasicInv'
  <2>1. /\ account' \in [Clerks -> [of : Accounts \cup {None}, value : Int]]
        /\ \A d \in Clerks \ {c} : account'[d] = account[d]
        /\ account'[c].value \in Nat
    <3> DEFINE read == [account[c] EXCEPT !.value = bank]
    <3>1. account' = [account EXCEPT ![c] = read]
      BY <1>12 DEF ReadBank
    <3>2. account[c] \in [of : Accounts \cup {None}, value : Int] /\ bank \in Nat
      BY DEF TypeOK
    <3>3. read \in [of : Accounts \cup {None}, value : Int] /\ read.value \in Nat
      BY <3>2
    <3> HIDE DEF read
    <3> QED BY <3>1, <3>3 DEF TypeOK
  <2>2. TypeOK'
    BY <1>12, <2>1 DEF ReadBank, TypeOK, GoTo, books, trace
  <2>3. request[c] = "clear"
    BY <1>12 DEF ReadBank, Position, PositionOf
  <2>4. Position'
    BY <1>12, <2>1, <2>3, MovePosition DEF ReadBank, AtEntry, AtCheque
  <2> QED BY <2>2, <2>4
<1>13. ASSUME NEW c \in Clerks, WriteBank(c) PROVE BasicInv'
  <2>1. request[c] = "clear" /\ account[c].value \in Nat
    BY <1>13 DEF WriteBank, Position, PositionOf
  <2>2. bank' \in Nat
    <3>1. bank' = BankDeposited(account[c].value)
      BY <1>13 DEF WriteBank
    <3> QED BY <2>1, <3>1 DEF BankDeposited
  <2>3. TypeOK'
    BY <1>13, <2>2 DEF WriteBank, TypeOK, GoTo, task
  <2>4. Position'
    BY <1>13, <2>1, MovePosition DEF WriteBank, TypeOK, task, AtEntry, AtCheque
  <2> QED BY <2>3, <2>4
<1>14. ASSUME NEW c \in Clerks, Voucher(c) PROVE BasicInv'
  <2>1. /\ subject[c] \in Cheques /\ request[c] \in {"clear", "bounce"}
        /\ End(c) /\ UNCHANGED <<status, lines, balance, cheque, bank, trace>>
    BY <1>14 DEF Voucher, Position, PositionOf, AtCheque
  <2>2. voucher' \in [Cheques -> BOOLEAN]
    BY <1>14 DEF Voucher, TypeOK, Balanced
  <2>3. strays' \in SUBSET (Cheques \X {"clear", "bounce"})
    <3> DEFINE stray == <<subject[c], request[c]>>
    <3>1. strays' = strays \/ strays' = strays \cup {stray}
      BY <1>14 DEF Voucher
    <3>2. stray \in Cheques \X {"clear", "bounce"}
      BY <2>1
    <3> HIDE DEF stray
    <3> QED BY <3>1, <3>2 DEF TypeOK
  <2> QED BY <2>1, <2>2, <2>3, EndPosition DEF TypeOK, trace
<1>15. ASSUME NEW c \in Clerks, Crash(c) PROVE BasicInv'
  <2>1. End(c) /\ UNCHANGED <<books, raced, requests>>
    BY <1>15 DEF Crash
  <2>2. crashes' \in 0..MaxCrashes
    <3>1. crashes < MaxCrashes /\ crashes' = crashes + 1 /\ crashes \in 0..MaxCrashes
      BY <1>15 DEF Crash, TypeOK
    <3> QED BY <3>1
  <2>3. broken' \in SUBSET {"books", "bank"}
    BY <1>15 DEF Crash, TypeOK
  <2> QED BY <2>1, <2>2, <2>3, EndPosition DEF TypeOK, books
<1>16. CASE UNCHANGED vars
  BY <1>16 DEF vars, books, task, trace, TypeOK, Position, PositionOf
<1> QED BY <1>1, <1>2, <1>3, <1>4, <1>5, <1>6, <1>7, <1>8, <1>9, <1>10, <1>11, <1>12,
           <1>13, <1>14, <1>15, <1>16 DEF Next, Step

(* Every variable keeps its type, whatever requests overlap or break off.  *)
THEOREM TypeCorrect == Spec => []TypeOK
<1>1. BasicInv => TypeOK
  BY DEF BasicInv
<1> QED BY BasicInit, BasicStep, <1>1, PTL DEF Spec

(* The types always hold.                                                  *)
LEMMA BasicAlways == Spec => []BasicInv
BY BasicInit, BasicStep, PTL DEF Spec
-----------------------------------------------------------------------------
(* The invariant holds initially.                                          *)
LEMMA BalancedInit == Init => BalancedInv
<1> SUFFICES ASSUME Init PROVE BalancedInv
  OBVIOUS
<1>1. Alone /\ StillSo /\ PostedIsBalanced
  BY DEF Init, Alone, StillSo, StillSoOf, PostedIsBalanced
<1> QED BY <1>1, BasicInit DEF BalancedInv

(* The new request is recorded if it is not alone; if it is, what it loads *)
(* is so.                                                                  *)
LEMMA BeginKeeps ==
  ASSUME NEW c \in Clerks, NEW r, NEW row, NEW x \in Entries \cup Cheques, NEW step,
         BalancedInv, Begin(c, r, x, row, step),
         step = "check" /\ row.postable => Balanced(lines[x]),
         step = "edit" => status[x] = "draft" /\ row.status = "draft"
  PROVE  Alone' /\ StillSo' /\ PostedIsBalanced'
<1> USE DEF BalancedInv
<1>1. /\ pc' = [pc EXCEPT ![c] = step]
      /\ subject' = [subject EXCEPT ![c] = x]
      /\ instance' = [instance EXCEPT ![c] = row]
      /\ raced \subseteq raced'
      /\ (\E d \in Clerks : subject[d] = x) => x \in raced'
      /\ status' = status /\ lines' = lines
  BY DEF Begin, GoTo, books
<1>2. DOMAIN pc = Clerks /\ DOMAIN subject = Clerks /\ DOMAIN instance = Clerks
  BY DEF BasicInv, TypeOK
<1>3. Alone'
  <2> SUFFICES ASSUME NEW d \in Clerks, NEW e \in Clerks, d # e,
                      subject'[d] = subject'[e], subject'[d] # None
               PROVE  subject'[d] \in raced'
    BY DEF Alone
  <2> QED BY <1>1, <1>2 DEF Alone
<1>4. StillSo'
  <2> SUFFICES ASSUME NEW d \in Clerks PROVE StillSoOf(d)'
    BY DEF StillSo
  <2>1. CASE d = c
    BY <2>1, <1>1, <1>2 DEF StillSoOf
  <2>2. CASE d # c
    BY <2>2, <1>1, <1>2 DEF StillSo, StillSoOf
  <2> QED BY <2>1, <2>2
<1>5. PostedIsBalanced'
  BY <1>1 DEF PostedIsBalanced
<1> QED BY <1>3, <1>4, <1>5

(* So does a step that changes no entry and leaves nothing to rely on.     *)
LEMMA QuietKeeps ==
  ASSUME NEW c \in Clerks, NEW step, BalancedInv,
         UNCHANGED <<status, lines, raced>>,
         pc' = [pc EXCEPT ![c] = step], step \notin {"check", "edit"},
         \/ subject' = subject /\ instance' = instance
         \/ /\ subject' = [subject EXCEPT ![c] = None]
            /\ instance' = [instance EXCEPT ![c] = Blank]
  PROVE  Alone' /\ StillSo' /\ PostedIsBalanced'
<1> USE DEF BalancedInv
<1>1. DOMAIN pc = Clerks /\ DOMAIN subject = Clerks /\ DOMAIN instance = Clerks
  BY DEF BasicInv, TypeOK
<1>2. Alone'
  BY <1>1 DEF Alone
<1>3. StillSo'
  <2> SUFFICES ASSUME NEW d \in Clerks PROVE StillSoOf(d)'
    BY DEF StillSo
  <2>1. CASE d = c
    BY <2>1, <1>1 DEF StillSoOf
  <2>2. CASE d # c
    BY <2>2, <1>1 DEF StillSo, StillSoOf
  <2> QED BY <2>1, <2>2
<1>4. PostedIsBalanced'
  BY DEF PostedIsBalanced
<1> QED BY <1>2, <1>3, <1>4

(* Posting: the lines are those that balanced, and no other request about  *)
(* the entry relies on its being a draft.                                  *)
LEMMA SavePostedKeeps ==
  ASSUME NEW c \in Clerks, BalancedInv, SavePosted(c)
  PROVE  Alone' /\ StillSo' /\ PostedIsBalanced'
<1> USE DEF BalancedInv
<1>1. /\ pc[c] = "check" /\ instance[c].postable
      /\ pc' = [pc EXCEPT ![c] = "lines"]
      /\ status' = [status EXCEPT ![subject[c]] = "posted"]
      /\ UNCHANGED <<lines, subject, instance, raced>>
  BY DEF SavePosted, GoTo, task, trace
<1>2. DOMAIN pc = Clerks /\ DOMAIN status = Entries /\ subject[c] \in Entries
  BY <1>1 DEF BasicInv, TypeOK, Position, PositionOf, AtEntry
<1>3. Alone'
  BY <1>1 DEF Alone
<1>4. StillSo'
  <2> SUFFICES ASSUME NEW d \in Clerks PROVE StillSoOf(d)'
    BY DEF StillSo
  <2>1. CASE d = c
    BY <2>1, <1>1, <1>2 DEF StillSoOf
  <2>2. CASE d # c /\ subject[d] = subject[c]
    BY <2>2, <1>1, <1>2 DEF StillSoOf, Alone
  <2>3. CASE d # c /\ subject[d] # subject[c]
    BY <2>3, <1>1, <1>2 DEF StillSo, StillSoOf
  <2> QED BY <2>1, <2>2, <2>3
<1>5. PostedIsBalanced'
  <2>1. subject[c] \notin raced => Balanced(lines[subject[c]])
    BY <1>1 DEF StillSo, StillSoOf
  <2> QED BY <2>1, <1>1, <1>2 DEF PostedIsBalanced
<1> QED BY <1>3, <1>4, <1>5

(* An edit leaves a draft behind, unless another request overlapped it.    *)
LEMMA CommitEditKeeps ==
  ASSUME NEW c \in Clerks, NEW l \in Drafts, BalancedInv, CommitEdit(c, l)
  PROVE  Alone' /\ StillSo' /\ PostedIsBalanced'
<1> USE DEF BalancedInv
<1>1. /\ pc[c] = "edit"
      /\ pc' = [pc EXCEPT ![c] = "idle"]
      /\ subject' = [subject EXCEPT ![c] = None]
      /\ instance' = [instance EXCEPT ![c] = Blank]
      /\ status' = [status EXCEPT ![subject[c]] = instance[c].status]
      /\ lines' = [lines EXCEPT ![subject[c]] = l]
      /\ raced' = raced
  BY DEF CommitEdit, End, GoTo, trace
<1>2. /\ DOMAIN pc = Clerks /\ DOMAIN subject = Clerks /\ DOMAIN instance = Clerks
      /\ DOMAIN status = Entries /\ DOMAIN lines = Entries /\ subject[c] \in Entries
  BY <1>1 DEF BasicInv, TypeOK, Position, PositionOf, AtEntry
<1>3. subject[c] \notin raced => instance[c].status = "draft"
  BY <1>1 DEF StillSo, StillSoOf
<1>4. Alone'
  BY <1>1, <1>2 DEF Alone
<1>5. StillSo'
  <2> SUFFICES ASSUME NEW d \in Clerks PROVE StillSoOf(d)'
    BY DEF StillSo
  <2>1. CASE d = c
    BY <2>1, <1>1, <1>2 DEF StillSoOf
  <2>2. CASE d # c /\ subject[d] = subject[c]
    BY <2>2, <1>1, <1>2 DEF StillSoOf, Alone
  <2>3. CASE d # c /\ subject[d] # subject[c]
    BY <2>3, <1>1, <1>2 DEF StillSo, StillSoOf
  <2> QED BY <2>1, <2>2, <2>3
<1>6. PostedIsBalanced'
  BY <1>1, <1>2, <1>3 DEF PostedIsBalanced
<1> QED BY <1>4, <1>5, <1>6

(* Every step keeps the invariant.                                         *)
LEMMA BalancedStep == BalancedInv /\ [Next]_vars => BalancedInv'
<1> SUFFICES ASSUME BalancedInv, [Next]_vars
             PROVE  Alone' /\ StillSo' /\ PostedIsBalanced'
  BY BasicStep DEF BalancedInv
<1>0. TypeOK
  BY DEF BalancedInv, BasicInv
<1>1. ASSUME NEW c \in Clerks, NEW e \in Entries, LoadEntry(c, e)
      PROVE  Alone' /\ StillSo' /\ PostedIsBalanced'
  BY <1>1, BeginKeeps DEF LoadEntry, Postable
<1>2. ASSUME NEW c \in Clerks, NEW e \in Entries, BeginEdit(c, e)
      PROVE  Alone' /\ StillSo' /\ PostedIsBalanced'
  <2>1. status[e] = "draft"
    BY <1>0, <1>2 DEF BeginEdit, Editable, TypeOK, EntryStates
  <2> QED BY <1>2, <2>1, BeginKeeps DEF BeginEdit
<1>3. ASSUME NEW c \in Clerks, NEW r \in DOMAIN Settlements \cup {"change"},
             NEW q \in Cheques, LoadCheque(c, r, q)
      PROVE  Alone' /\ StillSo' /\ PostedIsBalanced'
  BY <1>3, BeginKeeps DEF LoadCheque
<1>4. ASSUME NEW c \in Clerks, End(c), UNCHANGED <<status, lines, raced>>
      PROVE  Alone' /\ StillSo' /\ PostedIsBalanced'
  BY <1>4, QuietKeeps DEF End, GoTo
<1>5. ASSUME NEW c \in Clerks,
             \/ RefusePost(c) \/ EndPost(c) \/ RefuseSettlement(c)
             \/ ChangeCheque(c) \/ Voucher(c) \/ Crash(c)
      PROVE  Alone' /\ StillSo' /\ PostedIsBalanced'
  <2>1. End(c) /\ UNCHANGED <<status, lines, raced>>
    BY <1>5 DEF RefusePost, EndPost, RefuseSettlement, ChangeCheque, Voucher, Crash,
                books, trace
  <2> QED BY <2>1, <1>4
<1>6. ASSUME NEW c \in Clerks, NEW step \in {"apply", "write", "read bank", "write bank",
                                             "voucher"},
             GoTo(c, step), UNCHANGED <<status, lines, raced, subject, instance>>
      PROVE  Alone' /\ StillSo' /\ PostedIsBalanced'
  BY <1>6, QuietKeeps DEF GoTo
<1>7. ASSUME NEW c \in Clerks, ReadLines(c) \/ WriteBalance(c) \/ ReadBank(c) \/ WriteBank(c)
      PROVE  Alone' /\ StillSo' /\ PostedIsBalanced'
  BY <1>6, <1>7 DEF ReadLines, WriteBalance, ReadBank, WriteBank, books, task, trace
<1>8. ASSUME NEW c \in Clerks, NEW a \in Accounts, ReadAccount(c, a)
      PROVE  Alone' /\ StillSo' /\ PostedIsBalanced'
  BY <1>6, <1>8 DEF ReadAccount, books, trace
<1>9. ASSUME NEW c \in Clerks, Settle(c)
      PROVE  Alone' /\ StillSo' /\ PostedIsBalanced'
  <2>1. UNCHANGED <<status, lines, raced>>
    BY <1>9 DEF Settle, trace
  <2>2. \/ End(c)
        \/ (GoTo(c, "read bank") \/ GoTo(c, "voucher")) /\ UNCHANGED task
    BY <1>9 DEF Settle
  <2> QED BY <2>1, <2>2, <1>4, <1>6 DEF task
<1>10. CASE UNCHANGED vars
  BY <1>10 DEF BalancedInv, vars, books, task, trace, Alone, StillSo, StillSoOf,
               PostedIsBalanced
<1> QED BY <1>1, <1>2, <1>3, <1>5, <1>7, <1>8, <1>9, <1>10,
           SavePostedKeeps, CommitEditKeeps DEF Next, Step

(* A posted entry whose requests have not overlapped balances.             *)
THEOREM PostedBalanced == Spec => []PostedIsBalanced
<1>1. BalancedInv => PostedIsBalanced
  BY DEF BalancedInv
<1> QED BY BalancedInit, BalancedStep, <1>1, PTL DEF Spec

(* Nor does any step change it: only an edit or a second posting could, and *)
(* an edit that began before the posting has overlapped it.                 *)
THEOREM PostedFinal == Spec => PostedIsFinal
<1> DEFINE Kept == \A e \in Entries \ raced :
                     status[e] = "posted" => status'[e] = "posted" /\ lines'[e] = lines[e]
<1>1. ASSUME BalancedInv, [Next]_vars PROVE [Kept]_vars
  <2> USE DEF BalancedInv
  <2>1. ASSUME NEW c \in Clerks, SavePosted(c) PROVE Kept
    BY <1>1, <2>1 DEF SavePosted, BasicInv, TypeOK
  <2>2. ASSUME NEW c \in Clerks, NEW l \in Drafts, CommitEdit(c, l) PROVE Kept
    <3>1. /\ pc[c] = "edit"
          /\ status' = [status EXCEPT ![subject[c]] = instance[c].status]
          /\ lines' = [lines EXCEPT ![subject[c]] = l]
      BY <2>2 DEF CommitEdit
    <3>2. subject[c] \notin raced => status[subject[c]] = "draft"
      BY <1>1, <3>1 DEF StillSo, StillSoOf
    <3> QED BY <1>1, <3>1, <3>2 DEF BasicInv, TypeOK
  <2>3. ASSUME status' = status, lines' = lines PROVE Kept
    BY <2>3
  <2>4. ASSUME NEW c \in Clerks, Step(c) PROVE Kept
    BY <2>1, <2>2, <2>3, <2>4
       DEF Step, LoadEntry, BeginEdit, LoadCheque, Begin, RefusePost, ReadLines,
           ReadAccount, WriteBalance, EndPost, RefuseSettlement, Settle, ChangeCheque,
           ReadBank, WriteBank, Voucher, Crash, books
  <2> QED BY <1>1, <2>4 DEF Next
<1>2. BalancedInv /\ [Next]_vars => [Kept]_vars
  BY <1>1
<1> QED BY BalancedInit, BalancedStep, <1>2, PTL DEF Spec, PostedIsFinal
-----------------------------------------------------------------------------
(* Balances                                                                *)

Posting == {"lines", "apply", "write"}

About(c, e) == subject[c] = e /\ pc[c] \in Posting

(* What the accounts still lack of an entry that is being posted.          *)
OwedBy(c, a) == IF pc[c] = "lines" THEN lines[subject[c]][a] ELSE todo[c][a]

Owed(e, a) ==
  IF \E c \in Clerks : About(c, e)
  THEN OwedBy(CHOOSE c \in Clerks : About(c, e), a)
  ELSE 0

(* What the balance of account a has of each entry.                        *)
Part(a) ==
  [e \in Entries |-> IF status[e] = "posted" THEN lines[e][a] - Owed(e, a) ELSE 0]

BalancesAdd == \A a \in Accounts : balance[a] = SumOver(Part(a), Entries)

PostingSo ==
  \A c \in Clerks :
    /\ pc[c] \in Posting => status[subject[c]] = "posted"
    /\ pc[c] = "check" /\ instance[c].postable => status[subject[c]] = "draft"

Apart == raced \cap Entries = {}

Sound == Apart /\ "books" \notin broken

BooksInv == Sound => PostingSo /\ BalancesAdd

(* Only the request that moves changes where it stands.                    *)
Others(c) ==
  \A d \in Clerks \ {c} : /\ pc'[d] = pc[d] /\ subject'[d] = subject[d]
                          /\ instance'[d] = instance[d] /\ todo'[d] = todo[d]

(* No step moves two requests, and no step forgets what went wrong.        *)
LEMMA OthersRest ==
  ASSUME TypeOK, NEW c \in Clerks, Step(c)
  PROVE  Others(c) /\ raced \subseteq raced' /\ broken \subseteq broken'
<1> USE DEF TypeOK, Others, GoTo
<1>1. ASSUME NEW r, NEW x, NEW row, NEW step, Begin(c, r, x, row, step)
      PROVE  Others(c) /\ raced \subseteq raced' /\ broken \subseteq broken'
  BY <1>1 DEF Begin
<1>2. ASSUME End(c), raced' = raced, broken \subseteq broken'
      PROVE  Others(c) /\ raced \subseteq raced' /\ broken \subseteq broken'
  BY <1>2 DEF End
<1>3. CASE \/ \E e \in Entries : LoadEntry(c, e) \/ BeginEdit(c, e)
           \/ \E r \in DOMAIN Settlements \cup {"change"}, q \in Cheques : LoadCheque(c, r, q)
  BY <1>1, <1>3 DEF LoadEntry, BeginEdit, LoadCheque
<1>4. CASE \/ RefusePost(c) \/ EndPost(c) \/ RefuseSettlement(c) \/ ChangeCheque(c)
           \/ Voucher(c) \/ Crash(c) \/ \E l \in Drafts : CommitEdit(c, l)
  BY <1>2, <1>4 DEF RefusePost, EndPost, RefuseSettlement, ChangeCheque, Voucher, Crash,
                    CommitEdit, trace
<1>5. CASE \/ SavePosted(c) \/ ReadLines(c) \/ (\E a \in Accounts : ReadAccount(c, a))
           \/ WriteBalance(c) \/ ReadBank(c) \/ WriteBank(c)
  BY <1>5 DEF SavePosted, ReadLines, ReadAccount, WriteBalance, ReadBank, WriteBank, task, trace
<1>6. CASE Settle(c)
  <2>1. End(c) \/ (\E step : GoTo(c, step) /\ UNCHANGED task)
    BY <1>6 DEF Settle
  <2>2. raced' = raced /\ broken' = broken
    BY <1>6 DEF Settle, trace
  <2> QED BY <1>2, <2>1, <2>2 DEF task
<1> QED BY <1>3, <1>4, <1>5, <1>6 DEF Step

OwedSo ==
  Alone /\ Apart => \A e \in Entries, c \in Clerks :
                      About(c, e) => \A a : Owed(e, a) = OwedBy(c, a)

(* What is owed of an entry is what its one request has not added yet.     *)
LEMMA OwedIs == OwedSo
<1> SUFFICES ASSUME Alone, Apart, NEW e \in Entries, NEW c \in Clerks, NEW a, About(c, e)
             PROVE  Owed(e, a) = OwedBy(c, a)
  BY DEF OwedSo
<1> DEFINE d == CHOOSE d \in Clerks : About(d, e)
<1>1. d \in Clerks /\ About(d, e)
  OBVIOUS
<1>2. Owed(e, a) = OwedBy(d, a)
  BY DEF Owed
<1> HIDE DEF d
<1>3. d = c
  BY <1>1 DEF Alone, Apart, About
<1> QED BY <1>2, <1>3

(* The part of an entry whose request does not move stays.                 *)
LEMMA PartStays ==
  ASSUME Alone, Alone', Apart, Apart', NEW e \in Entries, NEW a,
         status'[e] = status[e], lines'[e] = lines[e],
         \A d \in Clerks : About(d, e)' <=> About(d, e),
         \A d \in Clerks : About(d, e) => OwedBy(d, a)' = OwedBy(d, a)
  PROVE  Part(a)'[e] = Part(a)[e]
<1>1. Owed(e, a)' = Owed(e, a)
  <2>1. CASE \E d \in Clerks : About(d, e)
    <3>1. PICK d \in Clerks : About(d, e)
      BY <2>1
    <3>2. Owed(e, a) = OwedBy(d, a)
      BY <3>1, OwedIs DEF OwedSo
    <3>3. OwedSo'
      BY OwedIs, PTL
    <3>4. Owed(e, a)' = OwedBy(d, a)'
      BY <3>1, <3>3 DEF OwedSo
    <3> QED BY <3>1, <3>2, <3>4
  <2>2. CASE ~ \E d \in Clerks : About(d, e)
    BY <2>2 DEF Owed
  <2> QED BY <2>1, <2>2
<1> QED BY <1>1 DEF Part

(* A request that posts nothing leaves the balances as they are.           *)
LEMMA QuietBooks ==
  ASSUME TypeOK, Alone, Alone', Apart, Apart', BalancesAdd, NEW c \in Clerks, Others(c),
         pc[c] \notin Posting, pc'[c] \notin Posting,
         status' = status, lines' = lines, balance' = balance
  PROVE  BalancesAdd'
<1>1. ASSUME NEW e \in Entries, NEW a PROVE Part(a)'[e] = Part(a)[e]
  <2>1. \A d \in Clerks : About(d, e)' <=> About(d, e)
    BY DEF About, Others
  <2>2. \A d \in Clerks : About(d, e) => OwedBy(d, a)' = OwedBy(d, a)
    BY DEF About, Others, OwedBy
  <2> QED BY <2>1, <2>2, PartStays
<1>2. \A a : Part(a)' = Part(a)
  BY <1>1 DEF Part
<1> QED BY <1>2 DEF BalancesAdd

(* The request that posts an entry moves: the parts of the others stay.    *)
LEMMA OtherParts ==
  ASSUME TypeOK, Alone, Alone', Apart, Apart', NEW c \in Clerks, Others(c),
         subject[c] \in Entries, subject'[c] \in {subject[c], None},
         NEW e \in Entries, e # subject[c], NEW a,
         status'[e] = status[e], lines'[e] = lines[e]
  PROVE  Part(a)'[e] = Part(a)[e]
<1>1. \A d \in Clerks : About(d, e)' <=> About(d, e)
  BY DEF About, Others
<1>2. \A d \in Clerks : About(d, e) => OwedBy(d, a)' = OwedBy(d, a)
  BY DEF About, Others, OwedBy
<1> QED BY <1>1, <1>2, PartStays

(* Lines and what is still to be added are numbers.                        *)
LEMMA Numbers ==
  ASSUME TypeOK, NEW a \in Accounts
  PROVE  /\ \A e \in Entries : lines[e][a] \in Int
         /\ \A c \in Clerks : todo[c][a] \in Int
<1>1. /\ \A e \in Entries : lines[e] \in [Accounts -> Int]
      /\ \A c \in Clerks : todo[c] \in [Accounts -> Int]
  BY DEF TypeOK
<1> QED BY <1>1

(* What the balances have of an entry is a number.                         *)
LEMMA PartTypes ==
  ASSUME TypeOK, NEW a \in Accounts
  PROVE  \A e \in Entries : Part(a)[e] \in Int
<1> SUFFICES ASSUME NEW e \in Entries PROVE Part(a)[e] \in Int
  OBVIOUS
<1>1. \A f \in Entries : lines[f][a] \in Int
  BY Numbers
<1>2. \A c \in Clerks : todo[c][a] \in Int
  BY Numbers
<1>3. Owed(e, a) \in Int
  <2>1. CASE \E c \in Clerks : About(c, e)
    <3> DEFINE d == CHOOSE d \in Clerks : About(d, e)
    <3>1. d \in Clerks /\ About(d, e)
      BY <2>1
    <3>2. Owed(e, a) = OwedBy(d, a)
      BY <2>1 DEF Owed
    <3> HIDE DEF d
    <3> QED BY <1>1, <1>2, <3>1, <3>2 DEF OwedBy, About
  <2>2. CASE ~ \E c \in Clerks : About(c, e)
    BY <2>2 DEF Owed
  <2> QED BY <2>1, <2>2
<1> QED BY <1>1, <1>3 DEF Part

(* Saving the entry as posted adds nothing yet: all of it is owed.         *)
LEMMA SavePostedBooks ==
  ASSUME TypeOK, Position, Alone, Alone', Apart, Apart', PostingSo, BalancesAdd,
         NEW c \in Clerks, Others(c), SavePosted(c)
  PROVE  PostingSo' /\ BalancesAdd'
<1> DEFINE f == subject[c]
<1>1. /\ pc[c] = "check" /\ pc'[c] = "lines" /\ subject' = subject /\ instance' = instance
      /\ f \in Entries /\ status[f] = "draft"
      /\ status' = [status EXCEPT ![f] = "posted"]
      /\ lines' = lines /\ balance' = balance
  BY DEF SavePosted, GoTo, task, TypeOK, Position, PositionOf, AtEntry, PostingSo
<1>2. PostingSo'
  <2>1. \A d \in Clerks \ {c} : pc[d] \in Posting \cup {"check"} => subject[d] # f
    BY <1>1 DEF Alone, Apart
  <2>2. ASSUME NEW d \in Clerks
        PROVE  /\ pc'[d] \in Posting => status'[subject'[d]] = "posted"
               /\ pc'[d] = "check" /\ instance'[d].postable => status'[subject'[d]] = "draft"
    <3>1. CASE d = c
      BY <1>1, <3>1 DEF TypeOK
    <3>2. CASE d # c
      <4>1. /\ pc'[d] = pc[d] /\ subject'[d] = subject[d] /\ instance'[d] = instance[d]
            /\ pc[d] \in Posting \cup {"check"} => status'[subject[d]] = status[subject[d]]
        <5>1. /\ pc'[d] = pc[d] /\ subject'[d] = subject[d] /\ instance'[d] = instance[d]
          BY <3>2 DEF Others
        <5>2. pc[d] \in Posting \cup {"check"} => subject[d] # f
          BY <2>1, <3>2
        <5>3. \A x \in Entries : x # f => status'[x] = status[x]
          BY <1>1 DEF TypeOK
        <5>4. pc[d] \in Posting \cup {"check"} => subject[d] \in Entries
          BY DEF Position, PositionOf, AtEntry, Posting
        <5> QED BY <5>1, <5>2, <5>3, <5>4
      <4> QED BY <4>1 DEF PostingSo
    <3> QED BY <3>1, <3>2
  <2> QED BY <2>2 DEF PostingSo
<1>3. ASSUME NEW a \in Accounts PROVE Part(a)' = Part(a)
  <2>1. ASSUME NEW e \in Entries, e # f PROVE Part(a)'[e] = Part(a)[e]
    BY <1>1, <2>1, OtherParts DEF TypeOK
  <2>2. Part(a)'[f] = Part(a)[f]
    <3>1. About(c, f)' /\ OwedBy(c, a)' = lines[f][a]
      BY <1>1 DEF About, OwedBy, Posting
    <3>2. OwedSo'
      BY OwedIs, PTL
    <3>3. Owed(f, a)' = lines[f][a]
      BY <1>1, <3>1, <3>2 DEF OwedSo
    <3>4. Part(a)'[f] = 0
      <4>1. status'[f] = "posted" /\ lines[f][a] \in Int
        BY <1>1, Numbers DEF TypeOK
      <4>2. Part(a)'[f] = lines'[f][a] - Owed(f, a)'
        BY <1>1, <4>1 DEF Part
      <4> QED BY <1>1, <3>3, <4>1, <4>2
    <3>5. Part(a)[f] = 0
      BY <1>1 DEF Part
    <3> QED BY <3>4, <3>5
  <2> QED BY <2>1, <2>2 DEF Part
<1>4. BalancesAdd'
  BY <1>1, <1>3 DEF BalancesAdd
<1> QED BY <1>2, <1>4

(* So does reading its lines, or an account.                               *)
LEMMA ReadBooks ==
  ASSUME TypeOK, Position, Alone, Alone', Apart, Apart', PostingSo, BalancesAdd,
         NEW c \in Clerks, Others(c), ReadLines(c) \/ \E a \in Accounts : ReadAccount(c, a)
  PROVE  PostingSo' /\ BalancesAdd'
<1> DEFINE f == subject[c]
<1>1. /\ pc[c] \in Posting /\ pc'[c] \in Posting \ {"lines"}
      /\ subject' = subject /\ instance' = instance /\ f \in Entries
      /\ status' = status /\ lines' = lines /\ balance' = balance
      /\ todo'[c] = IF pc[c] = "lines" THEN lines[f] ELSE todo[c]
  <2>1. CASE ReadLines(c)
    BY <2>1 DEF ReadLines, GoTo, books, TypeOK, Position, PositionOf, AtEntry, Posting
  <2>2. ASSUME NEW a \in Accounts, ReadAccount(c, a)
        PROVE  /\ pc[c] = "apply" /\ pc'[c] = "write" /\ f \in Entries
               /\ subject' = subject /\ instance' = instance /\ todo' = todo
               /\ status' = status /\ lines' = lines /\ balance' = balance
    BY <2>2 DEF ReadAccount, GoTo, books, TypeOK, Position, PositionOf, AtEntry
  <2> QED BY <2>1, <2>2 DEF Posting
<1>2. PostingSo'
  BY <1>1 DEF PostingSo, Others, Posting
<1>3. ASSUME NEW a \in Accounts PROVE Part(a)' = Part(a)
  <2>1. ASSUME NEW e \in Entries PROVE Part(a)'[e] = Part(a)[e]
    <3>1. \A d \in Clerks : About(d, e)' <=> About(d, e)
      BY <1>1 DEF About, Others
    <3>2. ASSUME NEW d \in Clerks PROVE OwedBy(d, a)' = OwedBy(d, a)
      <4>1. CASE d = c
        BY <1>1, <4>1 DEF OwedBy
      <4>2. CASE d # c
        BY <1>1, <4>2 DEF OwedBy, Others
      <4> QED BY <4>1, <4>2
    <3> QED BY <1>1, <3>1, <3>2, PartStays
  <2> QED BY <2>1 DEF Part
<1>4. BalancesAdd'
  BY <1>1, <1>3 DEF BalancesAdd
<1> QED BY <1>2, <1>4

(* Writing a balance adds what is then no longer owed.                     *)
LEMMA WriteBooks ==
  ASSUME TypeOK, Position, Alone, Alone', Apart, Apart', PostingSo, BalancesAdd,
         NEW c \in Clerks, Others(c), WriteBalance(c), "books" \notin broken'
  PROVE  PostingSo' /\ BalancesAdd'
<1> DEFINE f == subject[c]
           b == account[c].of
<1>1. /\ pc[c] = "write" /\ pc'[c] = "apply"
      /\ subject' = subject /\ instance' = instance /\ f \in Entries /\ b \in Accounts
      /\ status' = status /\ lines' = lines /\ todo' = [todo EXCEPT ![c][b] = 0]
      /\ balance' = [balance EXCEPT ![b] = WithLine(account[c].value, todo[c][b])]
      /\ balance[b] = account[c].value
  BY DEF WriteBalance, GoTo, TypeOK, Position, PositionOf, AtEntry
<1>2. PostingSo'
  BY <1>1 DEF PostingSo, Others, Posting
<1>3. status[f] = "posted"
  BY <1>1 DEF PostingSo, Posting
<1>4. ASSUME NEW a \in Accounts
      PROVE  /\ Part(a)[f] = lines[f][a] - todo[c][a]
             /\ Part(a)'[f] = lines[f][a] - (IF a = b THEN 0 ELSE todo[c][a])
             /\ \A e \in Entries \ {f} : Part(a)'[e] = Part(a)[e]
  <2>1. \A e \in Entries \ {f} : Part(a)'[e] = Part(a)[e]
    BY <1>1, OtherParts
  <2>2. About(c, f) /\ OwedBy(c, a) = todo[c][a]
    BY <1>1 DEF About, OwedBy, Posting
  <2>3. About(c, f)' /\ OwedBy(c, a)' = IF a = b THEN 0 ELSE todo[c][a]
    BY <1>1 DEF About, OwedBy, Posting, TypeOK
  <2>4. OwedSo'
    BY OwedIs, PTL
  <2>5. Owed(f, a) = todo[c][a]
    BY <1>1, <2>2, OwedIs DEF OwedSo
  <2>6. Owed(f, a)' = IF a = b THEN 0 ELSE todo[c][a]
    BY <1>1, <2>3, <2>4 DEF OwedSo
  <2> QED BY <1>1, <1>3, <2>1, <2>5, <2>6 DEF Part
<1>5. ASSUME NEW a \in Accounts PROVE balance'[a] = SumOver(Part(a)', Entries)
  <2> DEFINE g == Part(a)
             h == Part(a)'
  <2>1. /\ todo[c][a] \in Int /\ lines[f][a] \in Int /\ balance[a] \in Int
        /\ balance'[a] = balance[a] + (IF a = b THEN todo[c][a] ELSE 0)
    <3>1. todo[c][a] \in Int /\ lines[f][a] \in Int /\ balance[a] \in Int
      BY <1>1, Numbers DEF TypeOK
    <3>2. balance'[a] = IF a = b THEN balance[b] + todo[c][b] ELSE balance[a]
      BY <1>1 DEF TypeOK, WithLine
    <3> QED BY <3>1, <3>2
  <2>2. \A e \in Entries : g[e] \in Int
    BY PartTypes
  <2>3. h[f] \in Int /\ \A e \in Entries \ {f} : h[e] = g[e]
    BY <1>4, <2>1
  <2>4. IsFiniteSet(Entries)
    BY LedgerAssumptions
  <2>5. SumOver(g, Entries) = balance[a]
    BY DEF BalancesAdd
  <2>6. g[f] = lines[f][a] - todo[c][a] /\ h[f] = lines[f][a] - (IF a = b THEN 0 ELSE todo[c][a])
    BY <1>4
  <2>7. f \in Entries
    BY <1>1
  <2> HIDE DEF g, h, f, b
  <2>8. SumOver(h, Entries) = SumOver(g, Entries) - g[f] + h[f]
    BY <2>2, <2>3, <2>4, <2>7, SumChange
  <2>9. balance'[a] = SumOver(h, Entries)
    BY <2>1, <2>5, <2>6, <2>8
  <2> QED BY <2>9 DEF h
<1>6. BalancesAdd'
  BY <1>5 DEF BalancesAdd
<1> QED BY <1>2, <1>6

(* A posting ends when nothing of the entry is owed.                       *)
LEMMA EndPostBooks ==
  ASSUME TypeOK, Position, Alone, Alone', Apart, Apart', PostingSo, BalancesAdd,
         NEW c \in Clerks, Others(c), EndPost(c)
  PROVE  PostingSo' /\ BalancesAdd'
<1>0. PICK f \in Entries : f = subject[c]
  BY DEF EndPost, Position, PositionOf, AtEntry
<1>1. /\ pc[c] = "apply" /\ pc'[c] = "idle" /\ subject'[c] = None
      /\ status' = status /\ lines' = lines /\ balance' = balance
      /\ todo[c] = NoLines
  BY DEF EndPost, End, GoTo, books, TypeOK
<1>2. PostingSo'
  BY <1>1 DEF PostingSo, Others, Posting
<1>3. ASSUME NEW a \in Accounts PROVE Part(a)' = Part(a)
  <2>1. ASSUME NEW e \in Entries, e # f PROVE Part(a)'[e] = Part(a)[e]
    BY <1>0, <1>1, <2>1, OtherParts
  <2>2. Part(a)'[f] = Part(a)[f]
    <3>1. Owed(f, a) = 0
      <4>1. About(c, f) /\ OwedBy(c, a) = 0
        BY <1>0, <1>1 DEF About, OwedBy, Posting, NoLines
      <4> QED BY <4>1, OwedIs DEF OwedSo
    <3>2. Owed(f, a)' = 0
      <4>1. ASSUME NEW d \in Clerks PROVE ~About(d, f)'
        <5>1. CASE d = c
          BY <1>1, <5>1 DEF About, Posting
        <5>2. CASE d # c
          <6>1. subject[d] # f
            BY <1>0, <1>1, <5>2 DEF Alone, Apart
          <6>2. subject'[d] = subject[d]
            BY <5>2 DEF Others
          <6> QED BY <6>1, <6>2 DEF About
        <5> QED BY <5>1, <5>2
      <4> QED BY <4>1 DEF Owed
    <3>3. /\ Part(a)[f] = IF status[f] = "posted" THEN lines[f][a] - Owed(f, a) ELSE 0
          /\ Part(a)'[f] = IF status'[f] = "posted" THEN lines'[f][a] - Owed(f, a)' ELSE 0
      BY DEF Part
    <3> QED BY <1>1, <3>1, <3>2, <3>3
  <2> QED BY <2>1, <2>2 DEF Part
<1>4. BalancesAdd'
  BY <1>1, <1>3 DEF BalancesAdd
<1> QED BY <1>2, <1>4

(* An edit is of a draft and leaves a draft, of which no account has a part. *)
LEMMA CommitEditBooks ==
  ASSUME TypeOK, Position, Alone, Alone', StillSo, Apart, Apart', PostingSo, BalancesAdd,
         NEW c \in Clerks, Others(c), NEW l \in Drafts, CommitEdit(c, l)
  PROVE  PostingSo' /\ BalancesAdd'
<1> DEFINE f == subject[c]
<1>1. /\ pc[c] = "edit" /\ pc'[c] = "idle" /\ subject'[c] = None /\ f \in Entries
      /\ lines' = [lines EXCEPT ![f] = l] /\ balance' = balance
      /\ status' = [status EXCEPT ![f] = instance[c].status]
  BY DEF CommitEdit, End, GoTo, TypeOK, Position, PositionOf, AtEntry
<1>2. status[f] = "draft" /\ instance[c].status = "draft"
  BY <1>1 DEF StillSo, StillSoOf, Apart
<1>3. status' = status
  BY <1>1, <1>2 DEF TypeOK
<1>4. PostingSo'
  BY <1>1, <1>3 DEF PostingSo, Others, Posting
<1>5. ASSUME NEW a \in Accounts PROVE Part(a)' = Part(a)
  <2>1. ASSUME NEW e \in Entries, e # f PROVE Part(a)'[e] = Part(a)[e]
    BY <1>1, <1>3, <2>1, OtherParts DEF TypeOK
  <2>2. Part(a)'[f] = Part(a)[f]
    BY <1>1, <1>2, <1>3 DEF Part
  <2> QED BY <2>1, <2>2 DEF Part
<1>6. BalancesAdd'
  BY <1>1, <1>5 DEF BalancesAdd
<1> QED BY <1>4, <1>6

(* Every step keeps what the balances have of the entries, as long as      *)
(* requests about an entry do not overlap and no update is lost.           *)
LEMMA BooksStep ==
  ASSUME BalancedInv, BalancedInv', BooksInv, [Next]_vars
  PROVE  BooksInv'
<1> SUFFICES ASSUME Sound' PROVE PostingSo' /\ BalancesAdd'
  BY DEF BooksInv
<1>0. /\ TypeOK /\ Position /\ Alone /\ Alone' /\ StillSo
  BY DEF BalancedInv, BasicInv
<1>1. CASE UNCHANGED vars
  <2>1. /\ UNCHANGED <<status, lines, balance, pc, subject, instance, todo>>
        /\ raced' = raced /\ broken' = broken
    BY <1>1 DEF vars, books, task, trace
  <2>2. PostingSo /\ BalancesAdd
    BY <2>1 DEF BooksInv, Sound, Apart
  <2>3. \A a : Part(a)' = Part(a)
    BY <2>1 DEF Part, Owed, OwedBy, About
  <2> QED BY <2>1, <2>2, <2>3 DEF PostingSo, BalancesAdd
<1>2. ASSUME NEW c \in Clerks, Step(c) PROVE PostingSo' /\ BalancesAdd'
  <2>0. Others(c) /\ raced \subseteq raced' /\ broken \subseteq broken'
    BY <1>0, <1>2, OthersRest
  <2>1. /\ Apart /\ Apart' /\ PostingSo /\ BalancesAdd /\ "books" \notin broken'
    BY <2>0 DEF Sound, Apart, BooksInv
  <2>2. ASSUME pc[c] \notin Posting, pc'[c] \notin Posting,
               status' = status, lines' = lines, balance' = balance,
               pc'[c] = "check" /\ instance'[c].postable => status[subject'[c]] = "draft"
        PROVE  PostingSo' /\ BalancesAdd'
    <3>1. BalancesAdd'
      BY <1>0, <2>0, <2>1, <2>2, QuietBooks
    <3>2. PostingSo'
      BY <2>0, <2>1, <2>2 DEF PostingSo, Others
    <3> QED BY <3>1, <3>2
  <2>3. ASSUME NEW e \in Entries, LoadEntry(c, e) PROVE PostingSo' /\ BalancesAdd'
    <3>1. /\ pc[c] = "idle" /\ pc'[c] = "check" /\ subject'[c] = e
          /\ status' = status /\ lines' = lines /\ balance' = balance
          /\ instance'[c].postable => status[e] = "draft"
      BY <1>0, <2>3 DEF LoadEntry, Begin, GoTo, books, TypeOK, Postable
    <3> QED BY <2>2, <3>1 DEF Posting
  <2>4. ASSUME \/ \E e \in Entries : BeginEdit(c, e)
               \/ \E r \in DOMAIN Settlements \cup {"change"}, q \in Cheques : LoadCheque(c, r, q)
        PROVE  PostingSo' /\ BalancesAdd'
    <3>1. /\ pc[c] = "idle" /\ pc'[c] \in {"edit", "settle"}
          /\ status' = status /\ lines' = lines /\ balance' = balance
      BY <1>0, <2>4 DEF BeginEdit, LoadCheque, Begin, GoTo, books, TypeOK
    <3> QED BY <2>2, <3>1 DEF Posting
  <2>5. ASSUME RefusePost(c) \/ RefuseSettlement(c) \/ ChangeCheque(c) \/ Voucher(c)
        PROVE  PostingSo' /\ BalancesAdd'
    <3>1. /\ pc[c] \in {"check", "settle", "voucher"} /\ pc'[c] = "idle"
          /\ status' = status /\ lines' = lines /\ balance' = balance
      BY <1>0, <2>5 DEF RefusePost, RefuseSettlement, ChangeCheque, Voucher, End, GoTo, books, TypeOK
    <3> QED BY <2>2, <3>1 DEF Posting
  <2>6. ASSUME Settle(c) PROVE PostingSo' /\ BalancesAdd'
    <3>1. /\ pc[c] = "settle" /\ pc'[c] \in {"idle", "read bank", "voucher"}
          /\ status' = status /\ lines' = lines /\ balance' = balance
      BY <1>0, <2>6 DEF Settle, End, GoTo, TypeOK
    <3> QED BY <2>2, <3>1 DEF Posting
  <2>7. ASSUME ReadBank(c) \/ WriteBank(c) PROVE PostingSo' /\ BalancesAdd'
    <3>1. /\ pc[c] \in {"read bank", "write bank"} /\ pc'[c] \in {"write bank", "voucher"}
          /\ status' = status /\ lines' = lines /\ balance' = balance
      BY <1>0, <2>7 DEF ReadBank, WriteBank, GoTo, books, TypeOK
    <3> QED BY <2>2, <3>1 DEF Posting
  <2>8. ASSUME Crash(c) PROVE PostingSo' /\ BalancesAdd'
    <3>1. /\ pc[c] \in Posting => "books" \in broken'
          /\ pc'[c] = "idle" /\ status' = status /\ lines' = lines /\ balance' = balance
      BY <1>0, <2>8 DEF Crash, End, GoTo, books, TypeOK, Posting
    <3> QED BY <2>1, <2>2, <3>1 DEF Posting
  <2>9. CASE SavePosted(c)
    BY <1>0, <2>0, <2>1, <2>9, SavePostedBooks
  <2>10. CASE ReadLines(c) \/ \E a \in Accounts : ReadAccount(c, a)
    BY <1>0, <2>0, <2>1, <2>10, ReadBooks
  <2>11. CASE WriteBalance(c)
    BY <1>0, <2>0, <2>1, <2>11, WriteBooks
  <2>12. CASE EndPost(c)
    BY <1>0, <2>0, <2>1, <2>12, EndPostBooks
  <2>13. ASSUME NEW l \in Drafts, CommitEdit(c, l) PROVE PostingSo' /\ BalancesAdd'
    BY <1>0, <2>0, <2>1, <2>13, CommitEditBooks
  <2> QED BY <1>2, <2>3, <2>4, <2>5, <2>6, <2>7, <2>8, <2>9, <2>10, <2>11, <2>12, <2>13 DEF Step
<1> QED BY <1>1, <1>2 DEF Next

(* Nothing is posted initially.                                            *)
LEMMA BooksInit == Init => BooksInv
<1> SUFFICES ASSUME Init PROVE PostingSo /\ BalancesAdd
  BY DEF BooksInv
<1>1. PostingSo
  BY DEF Init, PostingSo, Posting
<1>2. ASSUME NEW a \in Accounts PROVE balance[a] = SumOver(Part(a), Entries)
  <2> DEFINE g == Part(a)
  <2>1. \A e \in Entries : g[e] = 0
    BY DEF Init, Part
  <2>2. IsFiniteSet(Entries)
    BY LedgerAssumptions
  <2>3. balance[a] = 0
    BY DEF Init, NoLines
  <2> HIDE DEF g
  <2>4. SumOver(g, Entries) = 0
    BY <2>1, <2>2, SumZero
  <2> QED BY <2>3, <2>4 DEF g
<1> QED BY <1>1, <1>2 DEF BalancesAdd

(* The computed balance is the sum of what is posted.                      *)
LEMMA PostedIs ==
  ASSUME NEW a
  PROVE  Posted(a) = SumOver([e \in Entries |-> IF status[e] = "posted" THEN lines[e][a] ELSE 0],
                             Entries)
<1> DEFINE f == [e \in Entries |-> IF status[e] = "posted" THEN lines[e][a] ELSE 0]
           Sum(g) == g = [s \in SUBSET Entries |->
             IF s = {} THEN 0
             ELSE (IF status[Pick(s)] = "posted" THEN lines[Pick(s)][a] ELSE 0) + g[s \ {Pick(s)}]]
<1>1. Posted(a) = (CHOOSE g : Sum(g))[Entries]
  BY DEF Posted, MapThenSumSet, MapThenFoldSet, Pick
<1>2. IsFiniteSet(Entries)
  BY LedgerAssumptions
<1>3. \A s \in SUBSET Entries : s # {} =>
        f[Pick(s)] = IF status[Pick(s)] = "posted" THEN lines[Pick(s)][a] ELSE 0
  BY DEF Pick
<1>4. \A g : Sum(g) <=> Adds(g, f, Entries)
  BY <1>3 DEF Adds
<1>5. PICK h : Adds(h, f, Entries)
  BY <1>2, TableExists
<1> HIDE DEF f
<1>6. Adds(CHOOSE g : Sum(g), f, Entries)
  <2> HIDE DEF Sum
  <2> QED BY <1>4, <1>5
<1> HIDE DEF Sum
<1>7. (CHOOSE g : Sum(g))[Entries] = SumOver(f, Entries)
  <2>1. Adds(CHOOSE g : Adds(g, f, Entries), f, Entries)
    BY <1>5
  <2> QED BY <1>2, <1>6, <2>1, TablesAgree, SumDef
<1> QED BY <1>1, <1>7 DEF f

(* The balances agree with the posted lines when no request is under way   *)
(* (BooksAgree), whatever entries are posted and changed at the same time. *)
THEOREM BooksKept == Spec => []BooksAgree
<1>1. ASSUME BalancedInv, BooksInv PROVE BooksAgree
  <2> SUFFICES ASSUME \A c \in Clerks : pc[c] = "idle", Sound, NEW a \in Accounts
               PROVE  balance[a] = Posted(a)
    BY DEF BooksAgree, Sound, Apart
  <2>1. balance[a] = SumOver(Part(a), Entries)
    BY <1>1 DEF BooksInv, BalancesAdd
  <2>2. \A e \in Entries : Owed(e, a) = 0 /\ lines[e][a] \in Int
    BY <1>1, Numbers DEF Owed, About, Posting, BalancedInv, BasicInv
  <2>3. Part(a) = [e \in Entries |-> IF status[e] = "posted" THEN lines[e][a] ELSE 0]
    BY <2>2 DEF Part
  <2> QED BY <2>1, <2>3, PostedIs
<1>2. BalancedInv /\ BooksInv => BooksAgree
  BY <1>1
<1>3. BalancedInv /\ BalancedInv' /\ BooksInv /\ [Next]_vars => BooksInv'
  BY BooksStep
<1> QED BY BalancedInit, BalancedStep, BooksInit, <1>2, <1>3, PTL DEF Spec
-----------------------------------------------------------------------------
(* Deposits                                                                *)

Depositing == {"read bank", "write bank"}

(* The cheques the bank has the deposit of.                                *)
Deposited ==
  {q \in Cheques : /\ cheque[q] = "cleared"
                   /\ \A c \in Clerks : subject[c] = q => pc[c] \notin Depositing}

DepositsAdd == bank = Cardinality(Deposited)

(* What a request has found of a cheque still holds, if it is alone.       *)
SettlingSo ==
  \A c \in Clerks :
    /\ pc[c] \in Depositing => cheque[subject[c]] = "cleared"
    /\ pc[c] = "settle" => instance[c].status = cheque[subject[c]]

ChequesApart == raced \cap Cheques = {}

BankInv == ChequesApart /\ "bank" \notin broken => SettlingSo /\ DepositsAdd

(* A request that deposits nothing leaves the deposits as they are.        *)
LEMMA QuietBank ==
  ASSUME SettlingSo, DepositsAdd, NEW c \in Clerks, Others(c),
         pc[c] \notin Depositing, pc'[c] \notin Depositing,
         cheque' = cheque, bank' = bank,
         pc'[c] = "settle" => instance'[c].status = cheque[subject'[c]]
  PROVE  SettlingSo' /\ DepositsAdd'
<1>1. SettlingSo'
  <2> SUFFICES ASSUME NEW d \in Clerks
               PROVE  /\ pc'[d] \in Depositing => cheque[subject'[d]] = "cleared"
                      /\ pc'[d] = "settle" => instance'[d].status = cheque[subject'[d]]
    BY DEF SettlingSo
  <2>1. CASE d = c
    BY <2>1
  <2>2. CASE d # c
    BY <2>2 DEF SettlingSo, Others
  <2> QED BY <2>1, <2>2
<1>2. ASSUME NEW q \in Cheques
      PROVE  (\A d \in Clerks : subject'[d] = q => pc'[d] \notin Depositing)
               <=> (\A d \in Clerks : subject[d] = q => pc[d] \notin Depositing)
  BY DEF Others
<1>3. Deposited' = Deposited
  BY <1>2 DEF Deposited
<1> QED BY <1>1, <1>3 DEF DepositsAdd

(* A cheque that is cleared, or settled otherwise, is not deposited yet.   *)
LEMMA SettleBank ==
  ASSUME TypeOK, Position, Alone, ChequesApart, SettlingSo, DepositsAdd,
         NEW c \in Clerks, Others(c), Settle(c)
  PROVE  SettlingSo' /\ DepositsAdd'
<1>0. PICK f \in Cheques : f = subject[c]
  BY DEF Settle, Position, PositionOf, AtCheque
<1>1. /\ pc[c] = "settle" /\ pc'[c] # "settle" /\ bank' = bank
      /\ cheque' = [cheque EXCEPT ![f] = Settlements[request[c]].to]
      /\ instance[c].status \in Settlements[request[c]].from
      /\ request[c] \in DOMAIN Settlements
      /\ pc'[c] = "read bank" => request[c] = "clear" /\ subject'[c] = f
      /\ request[c] = "clear" => pc'[c] = "read bank" /\ subject'[c] = f
      /\ pc'[c] # "write bank"
  BY <1>0 DEF Settle, MaySettle, End, GoTo, TypeOK, task
<1>2. /\ "cleared" \notin Settlements[request[c]].from
      /\ Settlements[request[c]].to = "cleared" <=> request[c] = "clear"
  <2>1. request[c] \in {"present", "clear", "bounce", "cancel"}
    BY <1>1 DEF Settlements
  <2>2. /\ Settlements["present"] = [from |-> {"pending"}, to |-> "presented"]
        /\ Settlements["clear"] = [from |-> {"presented"}, to |-> "cleared"]
        /\ Settlements["bounce"] = [from |-> {"pending", "presented"}, to |-> "bounced"]
        /\ Settlements["cancel"] = [from |-> {"pending", "presented", "cancelled"},
                                    to |-> "cancelled"]
    BY DEF Settlements
  <2> QED BY <2>1, <2>2
<1>3. cheque[f] # "cleared"
  BY <1>0, <1>1, <1>2 DEF SettlingSo
<1>4. ASSUME NEW d \in Clerks, d # c, pc[d] \in Depositing \cup {"settle"}
      PROVE  subject[d] \in Cheques /\ subject[d] # f
  <2>1. subject[d] \in Cheques
    BY <1>4 DEF Position, PositionOf, AtCheque, Depositing
  <2> QED BY <1>0, <1>4, <2>1 DEF Alone, ChequesApart
<1>5. \A q \in Cheques \ {f} : cheque'[q] = cheque[q]
  BY <1>1 DEF TypeOK
<1>6. cheque'[f] = Settlements[request[c]].to
  BY <1>1 DEF TypeOK
<1>7. SettlingSo'
  <2> SUFFICES ASSUME NEW d \in Clerks
               PROVE  /\ pc'[d] \in Depositing => cheque'[subject'[d]] = "cleared"
                      /\ pc'[d] = "settle" => instance'[d].status = cheque'[subject'[d]]
    BY DEF SettlingSo
  <2>1. CASE d = c
    BY <1>1, <1>2, <1>6, <2>1 DEF Depositing
  <2>2. CASE d # c
    <3>1. pc'[d] = pc[d] /\ subject'[d] = subject[d] /\ instance'[d] = instance[d]
      BY <2>2 DEF Others
    <3> QED BY <1>4, <1>5, <2>2, <3>1 DEF SettlingSo
  <2> QED BY <2>1, <2>2
<1>8. ASSUME NEW q \in Cheques
      PROVE  q \in Deposited' <=> q \in Deposited
  <2>1. CASE q = f
    <3>1. q \notin Deposited
      BY <1>3, <2>1 DEF Deposited
    <3>2. q \notin Deposited'
      BY <1>1, <1>2, <1>6, <2>1 DEF Deposited, Depositing
    <3> QED BY <3>1, <3>2
  <2>2. CASE q # f
    <3>1. (\A d \in Clerks : subject'[d] = q => pc'[d] \notin Depositing)
               <=> (\A d \in Clerks : subject[d] = q => pc[d] \notin Depositing)
      <4>1. pc[c] \notin Depositing /\ subject[c] # q
        BY <1>0, <1>1, <2>2 DEF Depositing
      <4>2. subject'[c] = q => pc'[c] \notin Depositing
        BY <1>1, <2>2 DEF Depositing
      <4> QED BY <4>1, <4>2 DEF Others
    <3> QED BY <1>5, <2>2, <3>1 DEF Deposited
  <2> QED BY <2>1, <2>2
<1>9. Deposited' = Deposited
  BY <1>8 DEF Deposited
<1> QED BY <1>1, <1>7, <1>9 DEF DepositsAdd

(* Reading the bank's balance deposits nothing.                            *)
LEMMA ReadingBank ==
  ASSUME TypeOK, SettlingSo, DepositsAdd, NEW c \in Clerks, Others(c), ReadBank(c)
  PROVE  SettlingSo' /\ DepositsAdd'
<1>1. /\ pc[c] = "read bank" /\ pc'[c] = "write bank" /\ subject' = subject
      /\ cheque' = cheque /\ bank' = bank
  BY DEF ReadBank, GoTo, books, TypeOK
<1>2. SettlingSo'
  BY <1>1 DEF SettlingSo, Others, Depositing
<1>3. \A d \in Clerks : pc'[d] \in Depositing <=> pc[d] \in Depositing
  BY <1>1 DEF Others, Depositing
<1>4. Deposited' = Deposited
  BY <1>1, <1>3 DEF Deposited
<1> QED BY <1>1, <1>2, <1>4 DEF DepositsAdd

(* Writing it deposits the one cheque the request is about.                *)
LEMMA WritingBank ==
  ASSUME TypeOK, Position, Alone, ChequesApart, SettlingSo, DepositsAdd,
         NEW c \in Clerks, Others(c), WriteBank(c), "bank" \notin broken'
  PROVE  SettlingSo' /\ DepositsAdd'
<1>0. PICK f \in Cheques : f = subject[c]
  BY DEF WriteBank, Position, PositionOf, AtCheque
<1>1. /\ pc[c] = "write bank" /\ pc'[c] = "voucher" /\ subject' = subject
      /\ cheque' = cheque /\ bank' = bank + 1
  BY DEF WriteBank, BankDeposited, GoTo, task, TypeOK
<1>2. SettlingSo'
  BY <1>1 DEF SettlingSo, Others, Depositing
<1>3. cheque[f] = "cleared"
  BY <1>0, <1>1 DEF SettlingSo, Depositing
<1>4. \A d \in Clerks \ {c} : subject[d] # f
  BY <1>0 DEF Alone, ChequesApart
<1>5. f \notin Deposited
  BY <1>0, <1>1 DEF Deposited, Depositing
<1>6. \A q \in Cheques : q \in Deposited' <=> (q \in Deposited \/ q = f)
  <2>1. f \in Deposited'
    BY <1>0, <1>1, <1>3, <1>4 DEF Deposited, Depositing
  <2>2. ASSUME NEW q \in Cheques, q # f PROVE q \in Deposited' <=> q \in Deposited
    BY <1>0, <1>1, <2>2 DEF Deposited, Others
  <2> QED BY <2>1, <2>2
<1>7. Deposited' = Deposited \cup {f}
  BY <1>6 DEF Deposited
<1>8. IsFiniteSet(Deposited)
  <2>1. Deposited \subseteq Cheques /\ IsFiniteSet(Cheques)
    BY LedgerAssumptions DEF Deposited
  <2> QED BY <2>1, FS_Subset
<1>9. Cardinality(Deposited') = Cardinality(Deposited) + 1
  BY <1>5, <1>7, <1>8, FS_AddElement
<1> QED BY <1>1, <1>2, <1>9 DEF DepositsAdd

(* The form for a cheque saves the status that the cheque has.             *)
LEMMA ChangeBank ==
  ASSUME TypeOK, Position, ChequesApart, SettlingSo, DepositsAdd,
         NEW c \in Clerks, Others(c), ChangeCheque(c)
  PROVE  SettlingSo' /\ DepositsAdd'
<1>1. /\ pc[c] = "settle" /\ pc'[c] = "idle" /\ bank' = bank
      /\ cheque' = [cheque EXCEPT ![subject[c]] = instance[c].status]
  BY DEF ChangeCheque, End, GoTo, TypeOK
<1>2. instance[c].status = cheque[subject[c]]
  BY <1>1 DEF SettlingSo
<1>3. cheque' = cheque
  BY <1>1, <1>2 DEF TypeOK
<1> QED BY <1>1, <1>3, QuietBank DEF Depositing

(* Every step keeps the deposits, as long as requests about a cheque do    *)
(* not overlap and no update of the bank's balance is lost.                *)
LEMMA BankStep ==
  ASSUME BalancedInv, BankInv, [Next]_vars
  PROVE  BankInv'
<1> SUFFICES ASSUME ChequesApart', "bank" \notin broken' PROVE SettlingSo' /\ DepositsAdd'
  BY DEF BankInv
<1>0. TypeOK /\ Position /\ Alone
  BY DEF BalancedInv, BasicInv
<1>1. CASE UNCHANGED vars
  <2>1. /\ UNCHANGED <<cheque, bank, pc, subject, instance>>
        /\ raced' = raced /\ broken' = broken
    BY <1>1 DEF vars, books, task, trace
  <2>2. SettlingSo /\ DepositsAdd
    BY <2>1 DEF BankInv, ChequesApart
  <2> QED BY <2>1, <2>2 DEF SettlingSo, DepositsAdd, Deposited
<1>2. ASSUME NEW c \in Clerks, Step(c) PROVE SettlingSo' /\ DepositsAdd'
  <2>0. Others(c) /\ raced \subseteq raced' /\ broken \subseteq broken'
    BY <1>0, <1>2, OthersRest
  <2>1. ChequesApart /\ SettlingSo /\ DepositsAdd
    BY <2>0 DEF BankInv, ChequesApart
  <2>2. ASSUME pc[c] \notin Depositing, pc'[c] \notin Depositing, cheque' = cheque, bank' = bank,
               pc'[c] = "settle" => instance'[c].status = cheque[subject'[c]]
        PROVE  SettlingSo' /\ DepositsAdd'
    BY <2>0, <2>1, <2>2, QuietBank
  <2>3. ASSUME \E e \in Entries : LoadEntry(c, e) \/ BeginEdit(c, e)
        PROVE  SettlingSo' /\ DepositsAdd'
    <3>1. /\ pc[c] = "idle" /\ pc'[c] \in {"check", "edit"} /\ cheque' = cheque /\ bank' = bank
      BY <1>0, <2>3 DEF LoadEntry, BeginEdit, Begin, GoTo, books, TypeOK
    <3> QED BY <2>2, <3>1 DEF Depositing
  <2>4. ASSUME NEW r \in DOMAIN Settlements \cup {"change"}, NEW q \in Cheques, LoadCheque(c, r, q)
        PROVE  SettlingSo' /\ DepositsAdd'
    <3>1. /\ pc[c] = "idle" /\ pc'[c] = "settle" /\ cheque' = cheque /\ bank' = bank
          /\ subject'[c] = q /\ instance'[c].status = cheque[q]
      BY <1>0, <2>4 DEF LoadCheque, Begin, GoTo, books, TypeOK
    <3> QED BY <2>2, <3>1 DEF Depositing
  <2>5. ASSUME RefusePost(c) \/ EndPost(c) \/ RefuseSettlement(c) \/ Voucher(c)
               \/ \E l \in Drafts : CommitEdit(c, l)
        PROVE  SettlingSo' /\ DepositsAdd'
    <3>1. /\ pc[c] \notin Depositing /\ pc'[c] = "idle" /\ cheque' = cheque /\ bank' = bank
      BY <1>0, <2>5 DEF RefusePost, EndPost, RefuseSettlement, Voucher, CommitEdit, End, GoTo,
                        books, TypeOK, Depositing
    <3> QED BY <2>2, <3>1 DEF Depositing
  <2>6. ASSUME SavePosted(c) \/ ReadLines(c) \/ WriteBalance(c) \/ \E a \in Accounts : ReadAccount(c, a)
        PROVE  SettlingSo' /\ DepositsAdd'
    <3>1. /\ pc[c] \in {"check", "lines", "apply", "write"} /\ pc'[c] \in {"lines", "apply", "write"}
          /\ cheque' = cheque /\ bank' = bank
      BY <1>0, <2>6 DEF SavePosted, ReadLines, WriteBalance, ReadAccount, GoTo, books, TypeOK
    <3> QED BY <2>2, <3>1 DEF Depositing
  <2>7. ASSUME Crash(c) PROVE SettlingSo' /\ DepositsAdd'
    <3>1. /\ pc[c] \in Depositing => "bank" \in broken'
          /\ pc'[c] = "idle" /\ cheque' = cheque /\ bank' = bank
      BY <1>0, <2>7 DEF Crash, End, GoTo, books, TypeOK, Depositing
    <3> QED BY <2>2, <3>1 DEF Depositing
  <2>8. CASE Settle(c)
    BY <1>0, <2>0, <2>1, <2>8, SettleBank
  <2>9. CASE ReadBank(c)
    BY <1>0, <2>0, <2>1, <2>9, ReadingBank
  <2>10. CASE WriteBank(c)
    BY <1>0, <2>0, <2>1, <2>10, WritingBank
  <2>11. CASE ChangeCheque(c)
    BY <1>0, <2>0, <2>1, <2>11, ChangeBank
  <2> QED BY <1>2, <2>3, <2>4, <2>5, <2>6, <2>7, <2>8, <2>9, <2>10, <2>11 DEF Step
<1> QED BY <1>1, <1>2 DEF Next

(* No cheque is cleared initially.                                         *)
LEMMA BankInit == Init => BankInv
<1> SUFFICES ASSUME Init PROVE SettlingSo /\ DepositsAdd
  BY DEF BankInv
<1>1. SettlingSo
  BY DEF Init, SettlingSo, Depositing
<1>2. Deposited = {}
  BY DEF Init, Deposited
<1> QED BY <1>1, <1>2, FS_EmptySet DEF Init, DepositsAdd

(* The bank has one deposit for each cleared cheque (DepositsAgree), even  *)
(* though every request of clearance breaks off after it.                  *)
THEOREM DepositsKept == Spec => []DepositsAgree
<1>1. ASSUME BankInv PROVE DepositsAgree
  <2> SUFFICES ASSUME \A c \in Clerks : pc[c] = "idle", ChequesApart, "bank" \notin broken
               PROVE  bank = Cardinality({q \in Cheques : cheque[q] = "cleared"})
    BY DEF DepositsAgree, ChequesApart
  <2>1. Deposited = {q \in Cheques : cheque[q] = "cleared"}
    BY DEF Deposited, Depositing
  <2> QED BY <1>1, <2>1 DEF BankInv, DepositsAdd
<1>2. BankInv => DepositsAgree
  BY <1>1
<1>3. BalancedInv /\ BankInv /\ [Next]_vars => BankInv'
  BY BankStep
<1> QED BY BalancedInit, BalancedStep, BankInit, <1>2, <1>3, PTL DEF Spec
=============================================================================
