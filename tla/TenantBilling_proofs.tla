----------------------- MODULE TenantBilling_proofs -----------------------
(***************************************************************************)
(* Proofs about TenantBilling for any number of tenants, processes and     *)
(* days: the command that collects overdue invoices works on rows it read  *)
(* long ago, and still suspends no tenant that was not late                *)
(* (SuspendedWasLate); no process bills a tenant twice for a period        *)
(* (BilledOncePerProcess); and, with one batch at a time, a billing date   *)
(* moves on only for who was billed (MovedWasBilled).                      *)
(***************************************************************************)
EXTENDS TenantBilling, FiniteSetTheorems, TLAPS

(* An invoice that is in the table for good.                               *)
Committed(n) == status[n] # "none" /\ \A q \in Procs : n \notin draft[q]

(* What a process has in hand where it stands.                             *)
PositionOf(p) ==
  /\ pc[p] \in {"number", "create", "notify"} => tenant[p] \in Tenants
  /\ pc[p] = "create" => number[p] \in Numbers
  /\ pc[p] \in {"pay", "remind", "remind2"} => number[p] \in Numbers /\ Committed(number[p])
  /\ pc[p] \in {"mark", "mark2"} => \A n \in todo[p] \cap Numbers : Committed(n)
  /\ pc[p] \in {"remind", "remind2"} => \A n \in todo[p] \cap Numbers : Committed(n)
  /\ draft[p] # {} => pc[p] \in {"cycle", "number", "create", "notify"}
  /\ asOf[p] <= day

Position == \A p \in Procs : PositionOf(p)

Owned == \A n \in Numbers : status[n] # "none" => owner[n] \in Tenants

(* SuspendedWasLate, for a reason that no rollback takes away.             *)
SuspendedForGood ==
  \A t \in Tenants :
    (~active[t] /\ t \notin switched) =>
      \E n \in Numbers : Committed(n) /\ owner[n] = t /\ PastGrace(n, day)

(* What a step leaves of the committed invoices.                           *)
Kept ==
  \A n \in Numbers :
    Committed(n) => Committed(n)' /\ owner'[n] = owner[n] /\ due'[n] = due[n]

(* The inductive invariant.                                                *)
BillingInv == TypeOK /\ Position /\ Owned /\ SuspendedForGood
-----------------------------------------------------------------------------
(* The sorts of the constants.                                            *)
LEMMA ConstantTypes ==
  /\ MonthDays \in Nat \ {0} /\ Term \in Nat /\ Grace \in Nat
  /\ MaxDay \in Nat /\ MaxSeq \in Nat /\ MaxRequests \in Nat /\ MaxCrashes \in Nat
  /\ Clerks \subseteq Procs /\ Batches \subseteq Procs /\ Collectors \subseteq Procs
  /\ None \notin Tenants /\ None \notin Numbers
BY BillingAssumptions DEF Procs

USE ConstantTypes

(* A day lies in a month, whose number is natural.                         *)
LEMMA Calendar ==
  ASSUME day \in Days
  PROVE  /\ day \in Nat
         /\ Month(day) \in Months /\ Month(day) \in Nat
         /\ NextBillingDate \in Nat
         /\ <<"monthly", Month(day)>> \in Periods
<1>1. day \in Nat /\ Month(day) \in Months
  BY DEF Days, Months
<1>2. Month(day) \in Nat
  BY <1>1 DEF Month
<1>3. <<"monthly", Month(day)>> \in Periods
  BY <1>1 DEF Periods
<1> QED BY <1>1, <1>2, <1>3 DEF NextBillingDate

(* The invariant holds before any invoice exists.                          *)
LEMMA BillingInit == Init => BillingInv
<1> SUFFICES ASSUME Init PROVE BillingInv
  OBVIOUS
<1>1. TypeOK
  BY DEF Init, TypeOK, NotMoved, Steps, Days
<1>2. Position
  BY DEF Init, Position, PositionOf
<1>3. Owned /\ SuspendedForGood
  BY DEF Init, Owned, SuspendedForGood
<1> QED BY <1>1, <1>2, <1>3 DEF BillingInv

(* A process that ends forgets what it had in hand, and stays well typed.  *)
LEMMA EndTypes ==
  ASSUME TypeOK, NEW p \in Procs, End(p)
  PROVE  /\ pc' \in [Procs -> Steps]
         /\ tenant' \in [Procs -> Tenants \cup {None}]
         /\ target' \in [Procs -> Periods \cup {None}]
         /\ number' \in [Procs -> Numbers \cup {None}]
         /\ todo' \in [Procs -> SUBSET (Tenants \cup Numbers)]
         /\ draft' \in [Procs -> SUBSET Numbers]
         /\ moved' \in [Procs -> [Tenants -> Nat]]
         /\ logs' \in [Procs -> BOOLEAN]
         /\ asOf' \in [Procs -> Days]
         /\ wasActive' \in [Procs -> SUBSET Tenants]
<1>1. NotMoved \in [Tenants -> Nat] /\ 0 \in Days
  BY DEF NotMoved, Days
<1> QED BY <1>1 DEF TypeOK, End, Clear, GoTo, Steps

(* Every action keeps the types; it relies on what the process has in hand. *)
LEMMA TypeStep ==
  ASSUME BillingInv, [Next]_vars
  PROVE  TypeOK'
<1> USE DEF BillingInv, TypeOK, Position, PositionOf, Owned, Steps
<1>1. ASSUME NewDay
      PROVE  TypeOK'
  BY <1>1 DEF NewDay, rows, work, bounds, Days
<1>2. ASSUME NEW t \in Tenants, SwitchTenant(t)
      PROVE  TypeOK'
  BY <1>2 DEF SwitchTenant, rows, work
<1>3. ASSUME NEW p \in Clerks, NEW t \in Tenants, NEW per \in Periods,
             BeginInvoice(p, t, per)
      PROVE  TypeOK'
  BY <1>3 DEF BeginInvoice, GoTo, tables, rows
<1>4. ASSUME NEW p \in Clerks, NEW n \in Numbers, BeginPayment(p, n)
      PROVE  TypeOK'
  BY <1>4 DEF BeginPayment, GoTo, Seen, tables, rows, Uncommitted
<1>5. ASSUME NEW p \in Batches, NEW named \in BOOLEAN, BeginBatch(p, named)
      PROVE  TypeOK'
  BY <1>5 DEF BeginBatch, GoTo, tables, bounds, rows
<1>6. ASSUME NEW p \in Collectors, BeginCollection(p)
      PROVE  TypeOK'
  BY <1>6 DEF BeginCollection, GoTo, Late, tables, bounds, rows, Seen, Uncommitted
<1>7. ASSUME NEW p \in Procs, DrawNumber(p)
      PROVE  TypeOK'
  BY <1>7 DEF DrawNumber, GoTo, tables, bounds, rows
<1>8. ASSUME NEW p \in Procs, CreateInvoice(p)
      PROVE  TypeOK'
  <2>1. status' \in [Numbers -> {"none", "pending", "overdue", "paid"}]
    BY <1>8 DEF CreateInvoice
  <2>2. owner' \in [Numbers -> Tenants \cup {None}] /\ period' \in [Numbers -> Periods \cup {None}]
    BY <1>8 DEF CreateInvoice
  <2>3. due' \in [Numbers -> Nat]
    BY <1>8, Calendar DEF CreateInvoice
  <2>4. CASE End(p)
    BY <1>8, <2>1, <2>2, <2>3, <2>4, EndTypes DEF CreateInvoice, bounds
  <2>5. CASE /\ draft' = [draft EXCEPT ![p] = @ \cup {number[p]}]
             /\ GoTo(p, "notify")
             /\ UNCHANGED <<tenant, target, number, todo, moved, logs, asOf, wasActive>>
    BY <1>8, <2>1, <2>2, <2>3, <2>5 DEF CreateInvoice, bounds, GoTo
  <2> QED BY <1>8, <2>4, <2>5 DEF CreateInvoice
<1>9. ASSUME NEW p \in Procs, RefuseInvoice(p)
      PROVE  TypeOK'
  <2>1. CASE End(p)
    BY <1>9, <2>1, EndTypes DEF RefuseInvoice, tables, rows, bounds
  <2>2. CASE NextTurn(p, "cycle") /\ UNCHANGED <<todo, draft, moved, logs, asOf, wasActive>>
    BY <1>9, <2>2 DEF RefuseInvoice, NextTurn, GoTo, tables, rows, bounds
  <2> QED BY <1>9, <2>1, <2>2 DEF RefuseInvoice
<1>10. ASSUME NEW p \in Procs, NEW t \in Tenants, NextCycle(p, t)
      PROVE  TypeOK'
  BY <1>10, Calendar DEF NextCycle, GoTo, tables, bounds, rows
<1>11. ASSUME NEW p \in Procs, NotifyFails(p)
      PROVE  TypeOK'
  BY <1>11 DEF NotifyFails, NextTurn, tables, bounds, rows, GoTo
<1>12. ASSUME NEW p \in Procs, AdvanceCycle(p)
      PROVE  TypeOK'
  <2>1. moved' \in [Procs -> [Tenants -> Nat]]
    BY <1>12, Calendar DEF AdvanceCycle
  <2> QED BY <1>12, <2>1 DEF AdvanceCycle, NextTurn, tables, bounds, rows, GoTo
<1>13. ASSUME NEW p \in Procs, CommitBatch(p)
      PROVE  TypeOK'
  <2>1. nextBilling' \in [Tenants -> Nat]
    BY <1>13 DEF CommitBatch
  <2> QED BY <1>13, <2>1, EndTypes DEF CommitBatch, rows, bounds
<1>14. ASSUME NEW p \in Procs, CommitPayment(p)
      PROVE  TypeOK'
  BY <1>14, EndTypes DEF CommitPayment, tables, rows, bounds
<1>15. ASSUME NEW p \in Procs, NEW n \in Numbers, MarkOverdue(p, n)
      PROVE  TypeOK'
  BY <1>15 DEF MarkOverdue, GoTo, bounds, NextLate
<1>16. ASSUME NEW p \in Procs, ReminderFails(p)
      PROVE  TypeOK'
  BY <1>16, EndTypes DEF ReminderFails, tables, rows, bounds
<1>17. ASSUME NEW p \in Procs, Suspend(p)
      PROVE  TypeOK'
  BY <1>17 DEF Suspend, NextTurn, PastGrace, rows, bounds, GoTo
<1>18. ASSUME NEW p \in Procs, SuspendToday(p)
      PROVE  TypeOK'
  BY <1>18 DEF SuspendToday, NextTurn, PastGrace, rows, bounds, GoTo
<1>19. ASSUME NEW p \in Procs, BeginService(p)
      PROVE  TypeOK'
  BY <1>19 DEF BeginService, GoTo, Late, tables, bounds, rows, Seen, Uncommitted
<1>20. ASSUME NEW p \in Procs, EndCollection(p)
      PROVE  TypeOK'
  BY <1>20, EndTypes DEF EndCollection, tables, rows, bounds
<1>21. ASSUME NEW p \in Procs, Crash(p)
      PROVE  TypeOK'
  <2>1. /\ status' \in [Numbers -> {"none", "pending", "overdue", "paid"}]
        /\ owner' \in [Numbers -> Tenants \cup {None}]
        /\ period' \in [Numbers -> Periods \cup {None}]
        /\ due' \in [Numbers -> Nat]
    BY <1>21 DEF Crash, RollBack
  <2>2. crashes' \in 0..MaxCrashes
    BY <1>21 DEF Crash
  <2> QED BY <1>21, <2>1, <2>2, EndTypes DEF Crash
<1>22. CASE UNCHANGED vars
  BY <1>22 DEF vars, tables, rows, work, bounds
<1>23. ASSUME NEW p \in Procs, UndoUnlogged(p)
      PROVE  TypeOK'
  BY <1>23 DEF UndoUnlogged, NextTurn, tables, bounds, rows, GoTo
<1>24. ASSUME NEW p \in Procs, CycleMissing(p)
      PROVE  TypeOK'
  BY <1>24, EndTypes DEF CycleMissing, tables, rows, bounds
<1> HIDE DEF BillingInv, TypeOK, Position, PositionOf, Owned, Steps
<1> QED BY <1>1, <1>2, <1>3, <1>4, <1>5, <1>6, <1>7, <1>8, <1>9, <1>10, <1>11, <1>12,
           <1>13, <1>14, <1>15, <1>16, <1>17, <1>18, <1>19, <1>20, <1>21, <1>22, <1>23,
           <1>24
       DEF Next, Step

(* What is committed stays as it is, but for its status, whoever dies.     *)
LEMMA CommittedStep ==
  ASSUME BillingInv, [Next]_vars
  PROVE  Kept
<1> USE DEF BillingInv, TypeOK, Position, PositionOf, Committed, Kept
<1>1. ASSUME NewDay
      PROVE  Kept
  BY <1>1 DEF NewDay, rows, work, bounds
<1>2. ASSUME NEW t \in Tenants, SwitchTenant(t)
      PROVE  Kept
  BY <1>2 DEF SwitchTenant, rows, work
<1>3. ASSUME NEW p \in Clerks, NEW t \in Tenants, NEW per \in Periods,
             BeginInvoice(p, t, per)
      PROVE  Kept
  BY <1>3 DEF BeginInvoice, GoTo, tables, rows
<1>4. ASSUME NEW p \in Clerks, NEW n \in Numbers, BeginPayment(p, n)
      PROVE  Kept
  BY <1>4 DEF BeginPayment, GoTo, Seen, tables, rows, Uncommitted
<1>5. ASSUME NEW p \in Batches, NEW named \in BOOLEAN, BeginBatch(p, named)
      PROVE  Kept
  BY <1>5 DEF BeginBatch, GoTo, tables, bounds, rows
<1>6. ASSUME NEW p \in Collectors, BeginCollection(p)
      PROVE  Kept
  BY <1>6 DEF BeginCollection, GoTo, Late, tables, bounds, rows, Seen, Uncommitted
<1>7. ASSUME NEW p \in Procs, DrawNumber(p)
      PROVE  Kept
  BY <1>7 DEF DrawNumber, GoTo, tables, bounds, rows
<1>8. ASSUME NEW p \in Procs, CreateInvoice(p)
      PROVE  Kept
  <2>1. CASE End(p)
    BY <1>8, <2>1 DEF CreateInvoice, End, Clear
  <2>2. CASE draft' = [draft EXCEPT ![p] = @ \cup {number[p]}]
    BY <1>8, <2>2 DEF CreateInvoice
  <2> QED BY <1>8, <2>1, <2>2 DEF CreateInvoice
<1>9. ASSUME NEW p \in Procs, RefuseInvoice(p)
      PROVE  Kept
  <2>1. draft' = draft \/ draft' = [draft EXCEPT ![p] = {}]
    BY <1>9 DEF RefuseInvoice, End, Clear
  <2>2. UNCHANGED <<status, owner, due>>
    BY <1>9 DEF RefuseInvoice, tables, rows
  <2> QED BY <2>1, <2>2
<1>10. ASSUME NEW p \in Procs, NEW t \in Tenants, NextCycle(p, t)
      PROVE  Kept
  BY <1>10 DEF NextCycle, GoTo, tables, bounds, rows
<1>11. ASSUME NEW p \in Procs, NotifyFails(p)
      PROVE  Kept
  BY <1>11 DEF NotifyFails, NextTurn, tables, bounds, rows, GoTo
<1>12. ASSUME NEW p \in Procs, AdvanceCycle(p)
      PROVE  Kept
  BY <1>12 DEF AdvanceCycle, NextTurn, tables, bounds, rows, GoTo
<1>13. ASSUME NEW p \in Procs, CommitBatch(p)
      PROVE  Kept
  BY <1>13 DEF CommitBatch, End, rows, bounds, GoTo, Clear
<1>14. ASSUME NEW p \in Procs, CommitPayment(p)
      PROVE  Kept
  BY <1>14 DEF CommitPayment, End, bounds, GoTo, Clear
<1>15. ASSUME NEW p \in Procs, NEW n \in Numbers, MarkOverdue(p, n)
      PROVE  Kept
  BY <1>15 DEF MarkOverdue, GoTo, bounds, NextLate
<1>16. ASSUME NEW p \in Procs, ReminderFails(p)
      PROVE  Kept
  BY <1>16 DEF ReminderFails, End, tables, bounds, GoTo, Clear, rows
<1>17. ASSUME NEW p \in Procs, Suspend(p)
      PROVE  Kept
  BY <1>17 DEF Suspend, NextTurn, PastGrace, rows, bounds, GoTo
<1>18. ASSUME NEW p \in Procs, SuspendToday(p)
      PROVE  Kept
  BY <1>18 DEF SuspendToday, NextTurn, PastGrace, rows, bounds, GoTo
<1>19. ASSUME NEW p \in Procs, BeginService(p)
      PROVE  Kept
  BY <1>19 DEF BeginService, GoTo, Late, tables, bounds, rows, Seen, Uncommitted
<1>20. ASSUME NEW p \in Procs, EndCollection(p)
      PROVE  Kept
  BY <1>20 DEF EndCollection, End, tables, bounds, GoTo, Clear, rows
<1>21. ASSUME NEW p \in Procs, Crash(p)
      PROVE  Kept
  BY <1>21 DEF Crash, RollBack, End, GoTo, Clear
<1>22. CASE UNCHANGED vars
  BY <1>22 DEF vars, tables, rows, work, bounds
<1>23. ASSUME NEW p \in Procs, UndoUnlogged(p)
      PROVE  Kept
  BY <1>23 DEF UndoUnlogged, NextTurn, tables, bounds, rows, GoTo
<1>24. ASSUME NEW p \in Procs, CycleMissing(p)
      PROVE  Kept
  BY <1>24 DEF CycleMissing, End, tables, bounds, GoTo, Clear, rows
<1> QED BY <1>1, <1>2, <1>3, <1>4, <1>5, <1>6, <1>7, <1>8, <1>9, <1>10, <1>11, <1>12,
           <1>13, <1>14, <1>15, <1>16, <1>17, <1>18, <1>19, <1>20, <1>21, <1>22, <1>23,
           <1>24
       DEF Next, Step

(* Every invoice belongs to a tenant.                                      *)
LEMMA OwnedStep ==
  ASSUME BillingInv, [Next]_vars
  PROVE  Owned'
<1> USE DEF BillingInv, TypeOK, Position, PositionOf, Owned, Committed
<1>1. ASSUME NewDay
      PROVE  Owned'
  BY <1>1 DEF NewDay, rows, work, bounds
<1>2. ASSUME NEW t \in Tenants, SwitchTenant(t)
      PROVE  Owned'
  BY <1>2 DEF SwitchTenant, rows, work
<1>3. ASSUME NEW p \in Clerks, NEW t \in Tenants, NEW per \in Periods,
             BeginInvoice(p, t, per)
      PROVE  Owned'
  BY <1>3 DEF BeginInvoice, GoTo, tables, rows
<1>4. ASSUME NEW p \in Clerks, NEW n \in Numbers, BeginPayment(p, n)
      PROVE  Owned'
  BY <1>4 DEF BeginPayment, GoTo, Seen, tables, rows, Uncommitted
<1>5. ASSUME NEW p \in Batches, NEW named \in BOOLEAN, BeginBatch(p, named)
      PROVE  Owned'
  BY <1>5 DEF BeginBatch, GoTo, tables, bounds, rows
<1>6. ASSUME NEW p \in Collectors, BeginCollection(p)
      PROVE  Owned'
  BY <1>6 DEF BeginCollection, GoTo, Late, tables, bounds, rows, Seen, Uncommitted
<1>7. ASSUME NEW p \in Procs, DrawNumber(p)
      PROVE  Owned'
  BY <1>7 DEF DrawNumber, GoTo, tables, bounds, rows
<1>8. ASSUME NEW p \in Procs, CreateInvoice(p)
      PROVE  Owned'
  BY <1>8 DEF CreateInvoice, GoTo, End, bounds, Clear
<1>9. ASSUME NEW p \in Procs, RefuseInvoice(p)
      PROVE  Owned'
  BY <1>9 DEF RefuseInvoice, End, NextTurn, Uncommitted, tables, bounds, GoTo, Clear, rows
<1>10. ASSUME NEW p \in Procs, NEW t \in Tenants, NextCycle(p, t)
      PROVE  Owned'
  BY <1>10 DEF NextCycle, GoTo, tables, bounds, rows
<1>11. ASSUME NEW p \in Procs, NotifyFails(p)
      PROVE  Owned'
  BY <1>11 DEF NotifyFails, NextTurn, tables, bounds, rows, GoTo
<1>12. ASSUME NEW p \in Procs, AdvanceCycle(p)
      PROVE  Owned'
  BY <1>12 DEF AdvanceCycle, NextTurn, tables, bounds, rows, GoTo
<1>13. ASSUME NEW p \in Procs, CommitBatch(p)
      PROVE  Owned'
  BY <1>13 DEF CommitBatch, End, rows, bounds, GoTo, Clear
<1>14. ASSUME NEW p \in Procs, CommitPayment(p)
      PROVE  Owned'
  BY <1>14 DEF CommitPayment, End, bounds, GoTo, Clear
<1>15. ASSUME NEW p \in Procs, NEW n \in Numbers, MarkOverdue(p, n)
      PROVE  Owned'
  BY <1>15 DEF MarkOverdue, GoTo, bounds, NextLate
<1>16. ASSUME NEW p \in Procs, ReminderFails(p)
      PROVE  Owned'
  BY <1>16 DEF ReminderFails, End, tables, bounds, GoTo, Clear, rows
<1>17. ASSUME NEW p \in Procs, Suspend(p)
      PROVE  Owned'
  BY <1>17 DEF Suspend, NextTurn, PastGrace, rows, bounds, GoTo
<1>18. ASSUME NEW p \in Procs, SuspendToday(p)
      PROVE  Owned'
  BY <1>18 DEF SuspendToday, NextTurn, PastGrace, rows, bounds, GoTo
<1>19. ASSUME NEW p \in Procs, BeginService(p)
      PROVE  Owned'
  BY <1>19 DEF BeginService, GoTo, Late, tables, bounds, rows, Seen, Uncommitted
<1>20. ASSUME NEW p \in Procs, EndCollection(p)
      PROVE  Owned'
  BY <1>20 DEF EndCollection, End, tables, bounds, GoTo, Clear, rows
<1>21. ASSUME NEW p \in Procs, Crash(p)
      PROVE  Owned'
  BY <1>21 DEF Crash, RollBack, End, GoTo, Clear
<1>22. CASE UNCHANGED vars
  BY <1>22 DEF vars, tables, rows, work, bounds
<1>23. ASSUME NEW p \in Procs, UndoUnlogged(p)
      PROVE  Owned'
  BY <1>23 DEF UndoUnlogged, NextTurn, tables, bounds, rows, GoTo
<1>24. ASSUME NEW p \in Procs, CycleMissing(p)
      PROVE  Owned'
  BY <1>24 DEF CycleMissing, End, tables, bounds, GoTo, Clear, rows
<1> QED BY <1>1, <1>2, <1>3, <1>4, <1>5, <1>6, <1>7, <1>8, <1>9, <1>10, <1>11, <1>12,
           <1>13, <1>14, <1>15, <1>16, <1>17, <1>18, <1>19, <1>20, <1>21, <1>22, <1>23,
           <1>24
       DEF Next, Step

(* What a process without an open block sees is committed.                 *)
LEMMA SeenIsCommitted ==
  ASSUME BillingInv, NEW p \in Procs, NEW n \in Seen(p),
         pc[p] \notin {"cycle", "number", "create", "notify"}
  PROVE  Committed(n)
BY DEF BillingInv, Position, PositionOf, Seen, Uncommitted, Committed

(* The others keep their position when a process ends.                     *)
LEMMA EndPosition ==
  ASSUME BillingInv, Kept, NEW p \in Procs, End(p), day' = day
  PROVE  Position'
<1> SUFFICES ASSUME NEW q \in Procs PROVE PositionOf(q)'
  BY DEF Position
<1> USE DEF BillingInv, TypeOK, Position, PositionOf, End, Clear, GoTo, Kept
<1>1. CASE q = p
  BY <1>1, Calendar
<1>2. CASE q # p
  BY <1>2
<1> QED BY <1>1, <1>2

(* Every action keeps the positions, of its own process and of the others. *)
LEMMA PositionStep ==
  ASSUME BillingInv, [Next]_vars
  PROVE  Position'
<1> USE DEF BillingInv, TypeOK, Position, PositionOf
<1>0. Kept
  BY CommittedStep
<1> USE DEF Kept
<1>1. ASSUME NewDay
      PROVE  Position'
  BY <1>1, <1>0, Calendar DEF NewDay, work, Days
<1>2. ASSUME NEW t \in Tenants, SwitchTenant(t)
      PROVE  Position'
  BY <1>2, <1>0 DEF SwitchTenant, rows, work
<1>3. ASSUME NEW p \in Clerks, NEW t \in Tenants, NEW per \in Periods,
             BeginInvoice(p, t, per)
      PROVE  Position'
  BY <1>3, <1>0 DEF BeginInvoice, GoTo, tables, rows
<1>4. ASSUME NEW p \in Clerks, NEW n \in Numbers, BeginPayment(p, n)
      PROVE  Position'
  BY <1>4, <1>0, SeenIsCommitted DEF BeginPayment, GoTo, tables, bounds, rows, Seen
<1>5. ASSUME NEW p \in Batches, NEW named \in BOOLEAN, BeginBatch(p, named)
      PROVE  Position'
  BY <1>5, <1>0 DEF BeginBatch, GoTo, tables, bounds, rows
<1>6. ASSUME NEW p \in Collectors, BeginCollection(p)
      PROVE  Position'
  <2> SUFFICES ASSUME NEW q \in Procs PROVE PositionOf(q)'
    OBVIOUS
  <2>1. p \in Procs /\ day' = day /\ Kept
    BY <1>6, <1>0 DEF BeginCollection, tables
  <2>2. CASE q = p
    <3>1. \A n \in todo'[p] \cap Numbers : Committed(n)
      BY <1>6, <2>1, SeenIsCommitted DEF BeginCollection, Late
    <3>2. \A n \in todo'[p] \cap Numbers : Committed(n)'
      BY <2>1, <3>1
    <3>3. pc'[p] = "mark" /\ asOf'[p] = day /\ day \in Int
      BY <1>6, <2>1, Calendar DEF BeginCollection, GoTo
    <3>4. draft'[p] = {}
      BY <1>6, <2>1 DEF BeginCollection
    <3> QED BY <2>1, <2>2, <3>2, <3>3, <3>4
  <2>3. CASE q # p
    BY <1>6, <2>1, <2>3 DEF BeginCollection, GoTo
  <2> QED BY <2>2, <2>3
<1>7. ASSUME NEW p \in Procs, DrawNumber(p)
      PROVE  Position'
  BY <1>7, <1>0 DEF DrawNumber, GoTo, tables, bounds, rows
<1>8. ASSUME NEW p \in Procs, CreateInvoice(p)
      PROVE  Position'
  <2>1. CASE End(p)
    BY <1>8, <2>1, <1>0, EndPosition DEF CreateInvoice
  <2>2. CASE /\ draft' = [draft EXCEPT ![p] = @ \cup {number[p]}]
             /\ GoTo(p, "notify")
             /\ UNCHANGED <<tenant, target, number, todo, moved, logs, asOf, wasActive>>
    BY <1>8, <2>2, <1>0 DEF CreateInvoice, GoTo
  <2> QED BY <1>8, <2>1, <2>2 DEF CreateInvoice
<1>9. ASSUME NEW p \in Procs, RefuseInvoice(p)
      PROVE  Position'
  <2>1. CASE End(p)
    BY <1>9, <2>1, <1>0, EndPosition DEF RefuseInvoice, tables
  <2>2. CASE NextTurn(p, "cycle") /\ UNCHANGED <<todo, draft, moved, logs, asOf, wasActive>>
    BY <1>9, <2>2, <1>0 DEF RefuseInvoice, NextTurn, GoTo, tables
  <2> QED BY <1>9, <2>1, <2>2 DEF RefuseInvoice
<1>10. ASSUME NEW p \in Procs, NEW t \in Tenants, NextCycle(p, t)
      PROVE  Position'
  BY <1>10, <1>0 DEF NextCycle, GoTo, tables, bounds, rows
<1>11. ASSUME NEW p \in Procs, NotifyFails(p)
      PROVE  Position'
  BY <1>11, <1>0 DEF NotifyFails, NextTurn, tables, bounds, rows, GoTo
<1>12. ASSUME NEW p \in Procs, AdvanceCycle(p)
      PROVE  Position'
  BY <1>12, <1>0 DEF AdvanceCycle, NextTurn, tables, bounds, rows, GoTo
<1>13. ASSUME NEW p \in Procs, CommitBatch(p)
      PROVE  Position'
  BY <1>13, <1>0, EndPosition DEF CommitBatch
<1>14. ASSUME NEW p \in Procs, CommitPayment(p)
      PROVE  Position'
  BY <1>14, <1>0, EndPosition DEF CommitPayment
<1>15. ASSUME NEW p \in Procs, NEW n \in Numbers, MarkOverdue(p, n)
      PROVE  Position'
  BY <1>15, <1>0 DEF MarkOverdue, GoTo, bounds, NextLate
<1>16. ASSUME NEW p \in Procs, ReminderFails(p)
      PROVE  Position'
  BY <1>16, <1>0, EndPosition DEF ReminderFails, tables
<1>17. ASSUME NEW p \in Procs, Suspend(p)
      PROVE  Position'
  BY <1>17, <1>0 DEF Suspend, NextTurn, PastGrace, rows, bounds, GoTo
<1>18. ASSUME NEW p \in Procs, SuspendToday(p)
      PROVE  Position'
  BY <1>18, <1>0 DEF SuspendToday, NextTurn, PastGrace, rows, bounds, GoTo
<1>19. ASSUME NEW p \in Procs, BeginService(p)
      PROVE  Position'
  BY <1>19, <1>0, SeenIsCommitted DEF BeginService, GoTo, Late, tables, bounds, rows
<1>20. ASSUME NEW p \in Procs, EndCollection(p)
      PROVE  Position'
  BY <1>20, <1>0, EndPosition DEF EndCollection, tables
<1>21. ASSUME NEW p \in Procs, Crash(p)
      PROVE  Position'
  BY <1>21, <1>0, EndPosition DEF Crash
<1>22. CASE UNCHANGED vars
  BY <1>22, <1>0 DEF vars, tables, rows, work, bounds
<1>23. ASSUME NEW p \in Procs, UndoUnlogged(p)
      PROVE  Position'
  BY <1>23, <1>0 DEF UndoUnlogged, NextTurn, tables, bounds, rows, GoTo
<1>24. ASSUME NEW p \in Procs, CycleMissing(p)
      PROVE  Position'
  BY <1>24, <1>0, EndPosition DEF CycleMissing, tables
<1> QED BY <1>1, <1>2, <1>3, <1>4, <1>5, <1>6, <1>7, <1>8, <1>9, <1>10, <1>11, <1>12,
           <1>13, <1>14, <1>15, <1>16, <1>17, <1>18, <1>19, <1>20, <1>21, <1>22, <1>23,
           <1>24
       DEF Next, Step

(* Every action keeps a late, committed invoice of who is suspended.       *)
LEMMA SuspendedStep ==
  ASSUME BillingInv, [Next]_vars
  PROVE  SuspendedForGood'
<1> USE DEF BillingInv, TypeOK, Position, PositionOf, Owned, SuspendedForGood, PastGrace
<1>0. Kept
  BY CommittedStep
<1> USE DEF Kept
<1>1. ASSUME NewDay
      PROVE  SuspendedForGood'
  <2>1. \A n \in Numbers : PastGrace(n, day) => PastGrace(n, day)'
    BY <1>1, Calendar DEF NewDay, rows
  <2> HIDE DEF PastGrace
  <2> QED BY <1>1, <2>1, <1>0 DEF NewDay, bounds, rows
<1>2. ASSUME NEW t \in Tenants, SwitchTenant(t)
      PROVE  SuspendedForGood'
  BY <1>2, <1>0 DEF SwitchTenant, rows, work
<1>3. ASSUME NEW p \in Clerks, NEW t \in Tenants, NEW per \in Periods,
             BeginInvoice(p, t, per)
      PROVE  SuspendedForGood'
  BY <1>3, <1>0 DEF BeginInvoice, GoTo, tables, rows
<1>4. ASSUME NEW p \in Clerks, NEW n \in Numbers, BeginPayment(p, n)
      PROVE  SuspendedForGood'
  BY <1>4, <1>0 DEF BeginPayment, GoTo, Seen, tables, rows, Uncommitted
<1>5. ASSUME NEW p \in Batches, NEW named \in BOOLEAN, BeginBatch(p, named)
      PROVE  SuspendedForGood'
  BY <1>5, <1>0 DEF BeginBatch, GoTo, tables, bounds, rows
<1>6. ASSUME NEW p \in Collectors, BeginCollection(p)
      PROVE  SuspendedForGood'
  BY <1>6, <1>0 DEF BeginCollection, GoTo, Late, tables, bounds, rows, Seen, Uncommitted
<1>7. ASSUME NEW p \in Procs, DrawNumber(p)
      PROVE  SuspendedForGood'
  BY <1>7, <1>0 DEF DrawNumber, GoTo, tables, bounds, rows
<1>8. ASSUME NEW p \in Procs, CreateInvoice(p)
      PROVE  SuspendedForGood'
  BY <1>8, <1>0 DEF CreateInvoice, GoTo, End, bounds, Clear
<1>9. ASSUME NEW p \in Procs, RefuseInvoice(p)
      PROVE  SuspendedForGood'
  BY <1>9, <1>0 DEF RefuseInvoice, End, NextTurn, Uncommitted, tables, bounds, GoTo, Clear, rows
<1>10. ASSUME NEW p \in Procs, NEW t \in Tenants, NextCycle(p, t)
      PROVE  SuspendedForGood'
  BY <1>10, <1>0 DEF NextCycle, GoTo, tables, bounds, rows
<1>11. ASSUME NEW p \in Procs, NotifyFails(p)
      PROVE  SuspendedForGood'
  BY <1>11, <1>0 DEF NotifyFails, NextTurn, tables, bounds, rows, GoTo
<1>12. ASSUME NEW p \in Procs, AdvanceCycle(p)
      PROVE  SuspendedForGood'
  BY <1>12, <1>0 DEF AdvanceCycle, NextTurn, tables, bounds, rows, GoTo
<1>13. ASSUME NEW p \in Procs, CommitBatch(p)
      PROVE  SuspendedForGood'
  BY <1>13, <1>0 DEF CommitBatch, End, rows, bounds, GoTo, Clear
<1>14. ASSUME NEW p \in Procs, CommitPayment(p)
      PROVE  SuspendedForGood'
  BY <1>14, <1>0 DEF CommitPayment, End, bounds, GoTo, Clear
<1>15. ASSUME NEW p \in Procs, NEW n \in Numbers, MarkOverdue(p, n)
      PROVE  SuspendedForGood'
  BY <1>15, <1>0 DEF MarkOverdue, GoTo, bounds, NextLate
<1>16. ASSUME NEW p \in Procs, ReminderFails(p)
      PROVE  SuspendedForGood'
  BY <1>16, <1>0 DEF ReminderFails, End, tables, bounds, GoTo, Clear, rows
<1>17. ASSUME NEW p \in Procs, Suspend(p)
      PROVE  SuspendedForGood'
  <2>1. ASSUME PastGrace(number[p], asOf[p])
        PROVE  PastGrace(number[p], day)
    <3>1. asOf[p] \in Int /\ day \in Int /\ due[number[p]] \in Int /\ asOf[p] <= day
      BY <1>17, Calendar DEF Suspend, Days
    <3> QED BY <2>1, <3>1
  <2>2. number[p] \in Numbers /\ Committed(number[p])
    BY <1>17, <1>0 DEF Suspend
  <2>3. ASSUME NEW t \in Tenants, ~active'[t], t \notin switched'
        PROVE  \E n \in Numbers : Committed(n) /\ owner[n] = t /\ PastGrace(n, day)
    <3>1. CASE active[t]
      BY <1>17, <2>1, <2>2, <2>3, <3>1 DEF Suspend, bounds
    <3>2. CASE ~active[t]
      BY <1>17, <2>3, <3>2 DEF Suspend, bounds
    <3> QED BY <3>1, <3>2
  <2> QED BY <1>17, <1>0, <2>3 DEF Suspend, rows
<1>18. ASSUME NEW p \in Procs, SuspendToday(p)
      PROVE  SuspendedForGood'
  BY <1>18, <1>0 DEF SuspendToday, NextTurn, rows, bounds, GoTo
<1>19. ASSUME NEW p \in Procs, BeginService(p)
      PROVE  SuspendedForGood'
  BY <1>19, <1>0 DEF BeginService, GoTo, Late, tables, bounds, rows, Seen, Uncommitted
<1>20. ASSUME NEW p \in Procs, EndCollection(p)
      PROVE  SuspendedForGood'
  BY <1>20, <1>0 DEF EndCollection, End, tables, bounds, GoTo, Clear, rows
<1>21. ASSUME NEW p \in Procs, Crash(p)
      PROVE  SuspendedForGood'
  BY <1>21, <1>0 DEF Crash, RollBack, End, GoTo, Clear
<1>22. CASE UNCHANGED vars
  BY <1>22, <1>0 DEF vars, tables, rows, work, bounds
<1>23. ASSUME NEW p \in Procs, UndoUnlogged(p)
      PROVE  SuspendedForGood'
  BY <1>23, <1>0 DEF UndoUnlogged, NextTurn, tables, bounds, rows, GoTo
<1>24. ASSUME NEW p \in Procs, CycleMissing(p)
      PROVE  SuspendedForGood'
  BY <1>24, <1>0 DEF CycleMissing, End, tables, bounds, GoTo, Clear, rows
<1> QED BY <1>1, <1>2, <1>3, <1>4, <1>5, <1>6, <1>7, <1>8, <1>9, <1>10, <1>11, <1>12,
           <1>13, <1>14, <1>15, <1>16, <1>17, <1>18, <1>19, <1>20, <1>21, <1>22, <1>23,
           <1>24
       DEF Next, Step

(* Every action keeps the invariant.                                       *)
LEMMA BillingStep == BillingInv /\ [Next]_vars => BillingInv'
<1> SUFFICES ASSUME BillingInv, [Next]_vars PROVE BillingInv'
  OBVIOUS
<1>1. TypeOK'
  BY TypeStep
<1>2. Position'
  BY PositionStep
<1>3. Owned'
  BY OwnedStep
<1>4. SuspendedForGood'
  BY SuspendedStep
<1> QED BY <1>1, <1>2, <1>3, <1>4 DEF BillingInv

(* The invariant of billing: a process that is about to write an invoice   *)
(* it read holds one that no rollback takes away, and who was suspended    *)
(* has a late invoice of that kind.                                        *)
THEOREM BillingIsKept == Spec => []BillingInv
BY BillingInit, BillingStep, PTL DEF Spec

(* Billing is type correct.                                                *)
THEOREM BillingTypes == Spec => []TypeOK
<1>1. BillingInv => TypeOK
  BY DEF BillingInv
<1> QED BY <1>1, BillingIsKept, PTL

(* Nobody is suspended by process_overdue_invoices unless an invoice of    *)
(* theirs was due more than the grace period ago.                          *)
THEOREM SuspensionFollowsLateness == Spec => []SuspendedWasLate
<1>1. BillingInv => SuspendedWasLate
  BY DEF BillingInv, SuspendedForGood, SuspendedWasLate, Committed
<1> QED BY <1>1, BillingIsKept, PTL
-----------------------------------------------------------------------------
(* Nobody is billed twice by the same process.                             *)

Ordinary(n) == status[n] # "none" /\ period[n][1] # "custom"

Intends(p, n) ==
  pc[p] \in {"number", "create"} /\ tenant[p] = owner[n] /\ target[p] = period[n]

(* f names the process that wrote each invoice: another one for each of    *)
(* the invoices of a tenant and period, and none that is about to write    *)
(* one more.                                                               *)
Authored(f) ==
  /\ \A n \in Numbers : status[n] # "none" => f[n] \in Clerks \cup Batches
  /\ \A q \in Procs : \A n \in draft[q] : f[n] = q /\ status[n] # "none"
  /\ \A n, m \in Numbers :
       /\ n # m /\ Ordinary(n) /\ Ordinary(m)
       /\ owner[n] = owner[m] /\ period[n] = period[m]
       => f[n] # f[m]
  /\ \A n \in Numbers, p \in Procs : Ordinary(n) /\ Intends(p, n) => f[n] # p

AuthorsExist == \E f \in [Numbers -> Procs \cup {None}] : Authored(f)

AuthorInv == BillingInv /\ AuthorsExist

(* Before there is an invoice anyone may be its author.                    *)
LEMMA AuthorInit == Init => AuthorInv
<1> SUFFICES ASSUME Init PROVE AuthorInv
  OBVIOUS
<1> DEFINE f == [n \in Numbers |-> None]
<1>1. f \in [Numbers -> Procs \cup {None}]
  OBVIOUS
<1>2. Authored(f)
  BY DEF Init, Authored, Ordinary
<1> QED BY <1>1, <1>2, BillingInit DEF AuthorInv, AuthorsExist

(* The authors remain the authors when no invoice is added, whatever a     *)
(* rollback removes, if no process sets out to write a second one.         *)
LEMMA SameAuthors ==
  ASSUME BillingInv, NEW f, Authored(f),
         \A n \in Numbers : status'[n] # "none" =>
           status[n] # "none" /\ owner'[n] = owner[n] /\ period'[n] = period[n],
         \A q \in Procs : draft'[q] \subseteq draft[q],
         \A q \in Procs : \A n \in draft'[q] : status'[n] # "none",
         \A p \in Procs, n \in Numbers :
           status'[n] # "none" /\ period[n][1] # "custom" /\ Intends(p, n)' =>
             Intends(p, n) \/ f[n] # p
  PROVE  Authored(f)'
<1>1. \A n \in Numbers :
        Ordinary(n)' => Ordinary(n) /\ owner'[n] = owner[n] /\ period'[n] = period[n]
  BY DEF Ordinary
<1>2. \A n \in Numbers : status'[n] # "none" => f[n] \in Clerks \cup Batches
  BY DEF Authored
<1>3. \A q \in Procs : \A n \in draft'[q] : f[n] = q /\ status'[n] # "none"
  BY DEF Authored
<1>4. ASSUME NEW n \in Numbers, NEW m \in Numbers, n # m, Ordinary(n)', Ordinary(m)',
             owner'[n] = owner'[m], period'[n] = period'[m]
      PROVE  f[n] # f[m]
  BY <1>1, <1>4 DEF Authored
<1>5. ASSUME NEW n \in Numbers, NEW p \in Procs, Ordinary(n)', Intends(p, n)'
      PROVE  f[n] # p
  <2>1. Ordinary(n) /\ status'[n] # "none" /\ period[n][1] # "custom"
    BY <1>1, <1>5 DEF Ordinary
  <2> QED BY <1>5, <2>1 DEF Authored
<1> QED BY <1>2, <1>3, <1>4, <1>5 DEF Authored

(* What a process does not see is written by another one.                  *)
LEMMA UnseenIsForeign ==
  ASSUME NEW f, Authored(f), NEW p \in Procs, NEW n \in Numbers, status[n] # "none",
         n \notin Seen(p)
  PROVE  f[n] # p
BY DEF Authored, Seen, Uncommitted

(* Every action leaves each invoice its own author.                        *)
LEMMA AuthorStep ==
  ASSUME AuthorInv, [Next]_vars
  PROVE  AuthorsExist'
<1>0. BillingInv /\ TypeOK /\ Position
  BY DEF AuthorInv, BillingInv
<1>1. PICK f \in [Numbers -> Procs \cup {None}] : Authored(f)
  BY DEF AuthorInv, AuthorsExist
<1>2. SUFFICES ASSUME ~Authored(f)' PROVE AuthorsExist'
  BY <1>1 DEF AuthorsExist
<1>3. ASSUME UNCHANGED <<owner, period>>,
             \A n \in Numbers : status'[n] = "none" <=> status[n] = "none",
             NEW p \in Procs,
             \A q \in Procs \ {p} : /\ pc'[q] = pc[q] /\ tenant'[q] = tenant[q]
                                    /\ target'[q] = target[q] /\ draft'[q] = draft[q],
             draft'[p] \in {{}, draft[p]},
             \A n \in Numbers : Ordinary(n) /\ Intends(p, n)' => Intends(p, n) \/ f[n] # p
      PROVE  FALSE
  <2>1. \A q \in Procs : draft'[q] \subseteq draft[q]
    BY <1>3
  <2>2. \A q \in Procs : \A n \in draft'[q] : n \in Numbers /\ status[n] # "none"
    BY <1>0, <1>1, <2>1 DEF Authored, TypeOK
  <2>3. \A q \in Procs, n \in Numbers :
          status'[n] # "none" /\ period[n][1] # "custom" /\ Intends(q, n)' =>
            Intends(q, n) \/ f[n] # q
    BY <1>3 DEF Intends, Ordinary
  <2> QED BY <1>0, <1>1, <1>2, <1>3, <2>1, <2>2, <2>3, SameAuthors
<1>4. ASSUME NEW p \in Procs, NEW t \in Tenants, NEW per,
             pc'[p] \in {"number", "create"} =>
               /\ tenant'[p] = t /\ target'[p] = per
               /\ per[1] = "custom" \/ Billed(p, t, per) = {},
             UNCHANGED <<status, owner, period, draft>>,
             \A q \in Procs \ {p} : /\ pc'[q] = pc[q] /\ tenant'[q] = tenant[q]
                                    /\ target'[q] = target[q]
      PROVE  FALSE
  <2>1. ASSUME NEW n \in Numbers, Ordinary(n), Intends(p, n)' PROVE f[n] # p
    <3>1. status[n] # "none" /\ period[n][1] # "custom"
      BY <2>1 DEF Ordinary
    <3>2. owner[n] = t /\ period[n] = per /\ Billed(p, t, per) = {}
      BY <1>4, <2>1, <3>1 DEF Intends
    <3>3. n \notin Seen(p)
      BY <3>2 DEF Billed
    <3> QED BY <1>1, <3>1, <3>3, UnseenIsForeign
  <2> QED BY <1>3, <1>4, <2>1
<1>5. ASSUME NEW p \in Procs, CreateInvoice(p) PROVE AuthorsExist'
  <2>1. PICK n \in Numbers : n = number[p]
    BY <1>0, <1>5 DEF CreateInvoice, Position, PositionOf
  <2> DEFINE g == [f EXCEPT ![n] = p]
  <2>2. g \in [Numbers -> Procs \cup {None}]
    BY <1>1
  <2>3. /\ g[n] = p /\ status[n] = "none" /\ pc[p] = "create"
        /\ \A m \in Numbers \ {n} : g[m] = f[m]
    BY <1>1, <1>5, <2>1 DEF CreateInvoice
  <2>4. /\ status'[n] = "pending" /\ owner'[n] = tenant[p] /\ period'[n] = target[p]
        /\ \A m \in Numbers \ {n} : /\ status'[m] = status[m] /\ owner'[m] = owner[m]
                                    /\ period'[m] = period[m]
    BY <1>0, <1>5, <2>1 DEF CreateInvoice, TypeOK
  <2>5. /\ p \in Clerks \cup Batches
        /\ pc'[p] \notin {"number", "create"}
        /\ draft'[p] \subseteq draft[p] \cup {n}
        /\ \A q \in Procs \ {p} : /\ pc'[q] = pc[q] /\ tenant'[q] = tenant[q]
                                  /\ target'[q] = target[q] /\ draft'[q] = draft[q]
    BY <1>0, <1>5, <2>1 DEF CreateInvoice, End, Clear, GoTo, TypeOK
  <2> HIDE DEF g
  <2>6. \A m \in Numbers : status'[m] # "none" => g[m] \in Clerks \cup Batches
    BY <1>1, <2>3, <2>4, <2>5 DEF Authored
  <2>7. ASSUME NEW q \in Procs, NEW m \in draft'[q] PROVE g[m] = q /\ status'[m] # "none"
    <3>1. CASE m = n
      <4>1. q = p
        BY <1>1, <2>3, <2>5, <2>7, <3>1 DEF Authored
      <4> QED BY <2>3, <2>4, <3>1, <4>1
    <3>2. CASE m # n
      <4>1. m \in draft[q] /\ m \in Numbers
        <5>1. m \in draft[q]
          BY <2>5, <2>7, <3>2
        <5> QED BY <1>0, <5>1 DEF TypeOK
      <4> QED BY <1>1, <2>3, <2>4, <3>2, <4>1 DEF Authored
    <3> QED BY <3>1, <3>2
  <2>8. \A m \in Numbers \ {n} :
          Ordinary(m)' => Ordinary(m) /\ owner'[m] = owner[m] /\ period'[m] = period[m]
    BY <2>4 DEF Ordinary
  <2>9. ASSUME NEW m \in Numbers \ {n}, Ordinary(m)',
               owner'[m] = owner'[n], period'[m] = period'[n]
        PROVE  g[m] # g[n]
    <3>1. Ordinary(m) /\ Intends(p, m)
      BY <2>3, <2>4, <2>8, <2>9 DEF Intends
    <3> QED BY <1>1, <2>3, <3>1 DEF Authored
  <2>10. ASSUME NEW k \in Numbers, NEW m \in Numbers, k # m, Ordinary(k)', Ordinary(m)',
                owner'[k] = owner'[m], period'[k] = period'[m]
         PROVE  g[k] # g[m]
    <3>1. CASE k = n \/ m = n
      BY <2>9, <2>10, <3>1
    <3>2. CASE k # n /\ m # n
      <4>1. /\ Ordinary(k) /\ Ordinary(m) /\ owner[k] = owner[m] /\ period[k] = period[m]
        BY <2>8, <2>10, <3>2
      <4>2. f[k] # f[m]
        BY <1>1, <2>10, <4>1 DEF Authored
      <4> QED BY <2>3, <3>2, <4>2
    <3> QED BY <3>1, <3>2
  <2>11. ASSUME NEW m \in Numbers, NEW q \in Procs, Ordinary(m)', Intends(q, m)'
         PROVE  g[m] # q
    <3>1. q # p
      BY <2>5, <2>11 DEF Intends
    <3>2. CASE m = n
      BY <2>3, <3>1, <3>2
    <3>3. CASE m # n
      <4>1. Ordinary(m) /\ Intends(q, m)
        BY <2>5, <2>8, <2>11, <3>1, <3>3 DEF Intends
      <4> QED BY <1>1, <2>3, <3>3, <4>1 DEF Authored
    <3> QED BY <3>2, <3>3
  <2>12. Authored(g)'
    BY <2>6, <2>7, <2>10, <2>11 DEF Authored
  <2> QED BY <2>2, <2>12 DEF AuthorsExist
<1>6. ASSUME NEW p \in Procs, Crash(p) PROVE FALSE
  <2>1. /\ \A n \in Numbers : status'[n] # "none" =>
             status[n] # "none" /\ owner'[n] = owner[n] /\ period'[n] = period[n]
        /\ \A n \in Numbers \ draft[p] : status'[n] = status[n]
        /\ draft'[p] = {} /\ pc'[p] = "idle"
        /\ \A q \in Procs \ {p} : /\ pc'[q] = pc[q] /\ tenant'[q] = tenant[q]
                                  /\ target'[q] = target[q] /\ draft'[q] = draft[q]
    BY <1>0, <1>6 DEF Crash, RollBack, End, Clear, GoTo, TypeOK
  <2>2. \A q \in Procs : draft'[q] \subseteq draft[q]
    BY <2>1
  <2>3. ASSUME NEW q \in Procs, NEW n \in draft'[q] PROVE status'[n] # "none"
    <3>1. q # p /\ n \in draft[q] /\ n \in Numbers
      BY <1>0, <2>1, <2>3 DEF TypeOK
    <3>2. n \notin draft[p] /\ status[n] # "none"
      BY <1>1, <3>1 DEF Authored
    <3> QED BY <2>1, <3>1, <3>2
  <2>4. ASSUME NEW q \in Procs, NEW n \in Numbers, status'[n] # "none", Intends(q, n)'
        PROVE  Intends(q, n)
    BY <2>1, <2>4 DEF Intends
  <2> QED BY <1>0, <1>1, <1>2, <2>1, <2>2, <2>3, <2>4, SameAuthors
<1>7. ASSUME NEW p \in Clerks, NEW t \in Tenants, NEW per, BeginInvoice(p, t, per)
      PROVE  FALSE
  <2>1. /\ p \in Procs
        /\ tenant'[p] = t /\ target'[p] = per
        /\ per[1] = "custom" \/ Billed(p, t, per) = {}
        /\ UNCHANGED <<status, owner, period, draft>>
        /\ \A q \in Procs \ {p} : /\ pc'[q] = pc[q] /\ tenant'[q] = tenant[q]
                                  /\ target'[q] = target[q]
    BY <1>0, <1>7 DEF BeginInvoice, GoTo, TypeOK, tables, rows
  <2> QED BY <1>4, <2>1
<1>8. ASSUME NEW p \in Procs, NEW t \in Tenants, NextCycle(p, t) PROVE FALSE
  <2> DEFINE per == <<"monthly", Month(day)>>
  <2>1. /\ tenant'[p] = t /\ target'[p] = per
        /\ pc'[p] \in {"number", "create"} => Billed(p, t, per) = {}
        /\ UNCHANGED <<status, owner, period, draft>>
        /\ \A q \in Procs \ {p} : /\ pc'[q] = pc[q] /\ tenant'[q] = tenant[q]
                                  /\ target'[q] = target[q]
    BY <1>0, <1>8 DEF NextCycle, GoTo, TypeOK, tables, rows
  <2> HIDE DEF per
  <2> QED BY <1>4, <2>1
<1>9. ASSUME NEW p \in Procs,
             \/ \E n \in Numbers : BeginPayment(p, n) \/ MarkOverdue(p, n)
             \/ (\E named \in BOOLEAN : BeginBatch(p, named)) \/ BeginCollection(p)
             \/ DrawNumber(p) \/ RefuseInvoice(p) \/ UndoUnlogged(p) \/ NotifyFails(p)
             \/ AdvanceCycle(p) \/ CommitBatch(p) \/ CommitPayment(p) \/ ReminderFails(p)
             \/ CycleMissing(p) \/ Suspend(p) \/ SuspendToday(p) \/ BeginService(p) \/ EndCollection(p)
      PROVE  FALSE
  <2>1. /\ UNCHANGED <<owner, period>>
        /\ \A q \in Procs \ {p} : /\ pc'[q] = pc[q] /\ tenant'[q] = tenant[q]
                                  /\ target'[q] = target[q] /\ draft'[q] = draft[q]
        /\ draft'[p] \in {{}, draft[p]}
    BY <1>0, <1>9 DEF BeginPayment, MarkOverdue, BeginBatch, BeginCollection, DrawNumber,
       RefuseInvoice, UndoUnlogged, NotifyFails, AdvanceCycle, CommitBatch, CommitPayment,
       ReminderFails, CycleMissing, Suspend, SuspendToday, BeginService, EndCollection, End,
       Clear, NextTurn, GoTo, TypeOK, tables, rows, work
  <2>2. pc'[p] \in {"number", "create"} =>
          /\ pc[p] = "number" /\ tenant'[p] = tenant[p] /\ target'[p] = target[p]
    BY <1>0, <1>9 DEF BeginPayment, MarkOverdue, BeginBatch, BeginCollection, DrawNumber,
       RefuseInvoice, UndoUnlogged, NotifyFails, AdvanceCycle, CommitBatch, CommitPayment,
       ReminderFails, CycleMissing, Suspend, SuspendToday, BeginService, EndCollection, End,
       Clear, NextTurn, GoTo, TypeOK
  <2>3. \A n \in Numbers : Intends(p, n)' => Intends(p, n)
    BY <2>1, <2>2 DEF Intends
  <2>4. \A n \in Numbers : status'[n] = "none" <=> status[n] = "none"
    <3>1. CASE UNCHANGED status
      BY <3>1
    <3>2. ASSUME NEW n \in Numbers, MarkOverdue(p, n) PROVE status[n] # "none"
      BY <1>0, <3>2 DEF MarkOverdue, NextLate, Position, PositionOf, Committed
    <3>3. CASE \E n \in Numbers : MarkOverdue(p, n)
      <4>1. PICK n \in Numbers : MarkOverdue(p, n)
        BY <3>3
      <4>2. status' = [status EXCEPT ![n] = "overdue"] /\ status[n] # "none"
        BY <3>2, <4>1 DEF MarkOverdue
      <4> QED BY <1>0, <4>2 DEF TypeOK
    <3>4. CASE CommitPayment(p)
      BY <1>0, <3>4 DEF CommitPayment, TypeOK, Position, PositionOf, Committed
    <3> QED BY <1>9, <3>1, <3>3, <3>4
        DEF BeginPayment, BeginBatch, BeginCollection, DrawNumber,
            RefuseInvoice, UndoUnlogged, NotifyFails, AdvanceCycle, CommitBatch, ReminderFails,
            CycleMissing, Suspend, SuspendToday, BeginService, EndCollection, tables, rows
  <2> QED BY <1>3, <2>1, <2>3, <2>4
<1>10. ASSUME UNCHANGED <<status, owner, period, pc, tenant, target, draft>> PROVE FALSE
  BY <1>0, <1>1, <1>2, <1>10 DEF Authored, Ordinary, Intends
<1>11. CASE NewDay \/ (\E t \in Tenants : SwitchTenant(t)) \/ UNCHANGED vars
  BY <1>10, <1>11 DEF NewDay, SwitchTenant, vars, tables, rows, work
<1> QED BY <1>5, <1>6, <1>7, <1>8, <1>9, <1>11 DEF Next, Step

(* Distinct authors are at most as many as there are processes that bill.  *)
LEMMA AuthorsCount ==
  ASSUME AuthorInv
  PROVE  BilledOncePerProcess
<1>1. SUFFICES ASSUME NEW t \in Tenants, NEW per \in Periods, per[1] # "custom"
      PROVE  Cardinality({n \in Numbers : status[n] # "none" /\ owner[n] = t /\ period[n] = per})
               <= Cardinality(Clerks \cup Batches)
  BY DEF BilledOncePerProcess
<1> DEFINE S == {n \in Numbers : status[n] # "none" /\ owner[n] = t /\ period[n] = per}
           T == Clerks \cup Batches
<1>2. IsFiniteSet(T)
  BY BillingAssumptions, FS_Union
<1>3. PICK f \in [Numbers -> Procs \cup {None}] : Authored(f)
  BY DEF AuthorInv, AuthorsExist
<1> DEFINE g == [n \in S |-> f[n]]
<1>4. g \in [S -> T]
  BY <1>3 DEF Authored
<1>5. \A n, m \in S : g[n] = g[m] => n = m
  BY <1>1, <1>3 DEF Authored, Ordinary
<1>6. g \in Injection(S, T)
  BY <1>4, <1>5 DEF Injection, IsInjective
<1> HIDE DEF S, T, g
<1>7. Cardinality(S) <= Cardinality(T)
  BY <1>2, <1>6, FS_Injection
<1> QED BY <1>7 DEF S, T

(* A tenant has at most one invoice of a month or a year for each process  *)
(* that bills: the look for an invoice of the period, however early it     *)
(* was, keeps a process from writing a second one.                         *)
THEOREM BilledOncePerProcessKept == Spec => []BilledOncePerProcess
<1>1. AuthorInv /\ [Next]_vars => AuthorInv'
  BY BillingStep, AuthorStep DEF AuthorInv
<1> QED BY AuthorInit, <1>1, AuthorsCount, PTL DEF Spec
-----------------------------------------------------------------------------
(* A billing date moves on only for who was billed, as long as one process *)
(* at a time runs generate_monthly_invoices: a second one may find dates   *)
(* behind those the first has written meanwhile, and put them back.        *)

OneBatch == \A p, q \in Batches : p = q

InBlock == {"cycle", "number", "create", "notify"}

Monthly == {"monthly"} \X Months

(* The invoice n bills t for the month its billing date lies in, or later. *)
Covers(p, n, t) ==
  /\ n \in Seen(p) /\ owner[n] = t
  /\ period[n] \in Monthly /\ period[n][2] >= Month(nextBilling[t])

(* What the block of a batch knows of the tenants it has selected, of the  *)
(* one it bills, and of those whose date it has moved.                     *)
BatchSo(p) ==
  /\ pc[p] \in InBlock => \A t \in todo[p] \cap Tenants : nextBilling[t] <= day
  /\ pc[p] \in {"number", "create", "notify"} =>
       /\ nextBilling[tenant[p]] <= day
       /\ target[p] \in Monthly /\ target[p][2] >= Month(nextBilling[tenant[p]])
  /\ pc[p] = "notify" =>
       \E n \in Numbers : n \in Seen(p) /\ owner[n] = tenant[p] /\ period[n] = target[p]
  /\ \A t \in Tenants : moved[p][t] # 0 =>
       /\ pc[p] \in InBlock
       /\ moved[p][t] >= nextBilling[t]
       /\ \E n \in Numbers : Covers(p, n, t)

BatchesSo ==
  \A p \in Procs : /\ pc[p] \in {"cycle", "notify"} => p \in Batches
                   /\ p \in Batches => BatchSo(p)

BatchInv == AuthorInv /\ BatchesSo

(* The calendar: months follow each other, and the billing date of next    *)
(* month lies ahead.                                                       *)
LEMMA MonthsFollow ==
  ASSUME NEW d \in Nat, NEW e \in Nat, e <= d
  PROVE  /\ Month(e) <= Month(d)
         /\ d < (Month(d) + 1) * MonthDays
         /\ Month(d) \in Nat
BY DEF Month

(* Before anything is billed nothing is known.                             *)
LEMMA BatchInit == Init => BatchInv
<1> SUFFICES ASSUME Init PROVE BatchesSo
  BY AuthorInit DEF BatchInv
<1>1. \A p \in Procs : pc[p] = "idle" /\ \A t \in Tenants : moved[p][t] = 0
  BY DEF Init, NotMoved
<1> QED BY <1>1 DEF BatchesSo, BatchSo, InBlock

(* What a process sees it goes on seeing until its block ends.             *)
LEMMA SeenStep ==
  ASSUME BillingInv, [Next]_vars, NEW p \in Procs, pc'[p] # "idle", NEW n \in Seen(p)
  PROVE  n \in Seen(p)' /\ owner'[n] = owner[n] /\ period'[n] = period[n]
<1>0. /\ TypeOK /\ Position /\ n \in Numbers /\ status[n] # "none"
      /\ \A q \in Procs \ {p} : n \notin draft[q]
  BY DEF BillingInv, Seen, Uncommitted
<1>1. SUFFICES /\ status'[n] # "none" /\ owner'[n] = owner[n] /\ period'[n] = period[n]
               /\ \A q \in Procs \ {p} : n \notin draft'[q]
  BY <1>0 DEF Seen, Uncommitted
<1>2. ASSUME NEW q \in Procs, CreateInvoice(q) PROVE <1>1!1
  <2>1. n # number[q]
    BY <1>0, <1>2 DEF CreateInvoice
  <2>2. \A r \in Procs : draft'[r] \subseteq draft[r] \cup {number[q]}
    <3>1. \/ draft' = [draft EXCEPT ![q] = {}]
          \/ draft' = [draft EXCEPT ![q] = @ \cup {number[q]}]
      BY <1>2 DEF CreateInvoice, End, Clear
    <3>2. draft \in [Procs -> SUBSET Numbers]
      BY <1>0 DEF TypeOK
    <3>3. ASSUME NEW r \in Procs
          PROVE  draft'[r] \in {draft[r], {}, draft[r] \cup {number[q]}}
      BY <3>1, <3>2
    <3> QED BY <3>3
  <2>3. status'[n] = status[n] /\ owner'[n] = owner[n] /\ period'[n] = period[n]
    BY <1>0, <1>2, <2>1 DEF CreateInvoice, TypeOK
  <2> QED BY <1>0, <2>1, <2>2, <2>3
<1>3. ASSUME NEW q \in Procs, Crash(q) PROVE <1>1!1
  <2>1. q # p
    BY <1>0, <1>3 DEF Crash, RollBack, End, GoTo, TypeOK
  <2> QED BY <1>0, <1>3, <2>1 DEF Crash, RollBack, End, Clear, TypeOK
<1>4. ASSUME UNCHANGED <<owner, period>>, \A q \in Procs : draft'[q] \subseteq draft[q],
             status'[n] \in {status[n], "paid", "overdue"}
      PROVE  <1>1!1
  BY <1>0, <1>4
<1>5. ASSUME NEW q \in Procs,
             \/ \E t \in Tenants : NextCycle(q, t) \/ \E per : BeginInvoice(q, t, per)
             \/ \E m \in Numbers : BeginPayment(q, m) \/ MarkOverdue(q, m)
             \/ (\E named \in BOOLEAN : BeginBatch(q, named)) \/ BeginCollection(q)
             \/ DrawNumber(q) \/ RefuseInvoice(q) \/ UndoUnlogged(q) \/ NotifyFails(q)
             \/ AdvanceCycle(q) \/ CommitBatch(q) \/ CommitPayment(q) \/ ReminderFails(q)
             \/ CycleMissing(q) \/ Suspend(q) \/ SuspendToday(q) \/ BeginService(q) \/ EndCollection(q)
      PROVE  <1>1!1
  <2>1. UNCHANGED <<owner, period>> /\ \A r \in Procs : draft'[r] \subseteq draft[r]
    BY <1>0, <1>5 DEF NextCycle, BeginInvoice, BeginPayment, MarkOverdue, BeginBatch,
       BeginCollection, DrawNumber, RefuseInvoice, UndoUnlogged, NotifyFails, AdvanceCycle,
       CommitBatch, CommitPayment, ReminderFails, CycleMissing, Suspend, SuspendToday,
       BeginService, EndCollection, End, Clear, NextTurn, TypeOK, tables, rows, work
  <2>2. status'[n] \in {status[n], "paid", "overdue"}
    BY <1>0, <1>5 DEF NextCycle, BeginInvoice, BeginPayment, MarkOverdue, BeginBatch,
       BeginCollection, DrawNumber, RefuseInvoice, UndoUnlogged, NotifyFails, AdvanceCycle,
       CommitBatch, CommitPayment, ReminderFails, CycleMissing, Suspend, SuspendToday,
       BeginService, EndCollection, TypeOK, tables, rows
  <2> QED BY <1>4, <2>1, <2>2
<1>6. CASE NewDay \/ (\E t \in Tenants : SwitchTenant(t)) \/ UNCHANGED vars
  BY <1>4, <1>6 DEF NewDay, SwitchTenant, vars, tables, rows, work
<1> QED BY <1>2, <1>3, <1>5, <1>6, ConstantTypes DEF Next, Step

(* A step that moves no billing date leaves a batch what it knew, if it    *)
(* does not touch the process.                                             *)
LEMMA BatchUntouched ==
  ASSUME BillingInv, [Next]_vars, NEW p \in Batches, BatchSo(p), day' >= day,
         UNCHANGED <<nextBilling, pc[p], tenant[p], target[p], todo[p], moved[p]>>
  PROVE  BatchSo(p)'
<1>0. TypeOK /\ p \in Procs /\ PositionOf(p)
  BY DEF BillingInv, Position
<1>1. \A n \in Seen(p) : pc[p] # "idle" =>
        n \in Seen(p)' /\ owner'[n] = owner[n] /\ period'[n] = period[n]
  BY <1>0, SeenStep
<1>2. \A t \in Tenants : nextBilling[t] \in Nat /\ Month(nextBilling[t])' = Month(nextBilling[t])
  BY <1>0 DEF TypeOK, Month
<1>3. day \in Nat /\ day' \in Nat
  BY <1>0, TypeStep DEF TypeOK, Days
<1>4. \A t \in Tenants : nextBilling[t] <= day => nextBilling[t] <= day'
  BY <1>2, <1>3
<1>5. pc[p] \in {"number", "create", "notify"} =>
        tenant[p] \in Tenants /\ Month(nextBilling[tenant[p]])' = Month(nextBilling[tenant[p]])
  BY <1>0, <1>2 DEF PositionOf
<1>6. \A n \in Numbers, t \in Tenants :
        Covers(p, n, t) /\ pc[p] # "idle" => Covers(p, n, t)'
  BY <1>1, <1>2 DEF Covers, Monthly
<1>7. pc'[p] \in InBlock => \A t \in todo'[p] \cap Tenants : nextBilling'[t] <= day'
  BY <1>4 DEF BatchSo
<1>8. pc'[p] \in {"number", "create", "notify"} =>
       /\ nextBilling'[tenant'[p]] <= day'
       /\ target'[p] \in Monthly /\ target'[p][2] >= Month(nextBilling[tenant[p]])'
  BY <1>4, <1>5 DEF BatchSo
<1>9. pc'[p] = "notify" =>
       \E n \in Numbers : n \in Seen(p)' /\ owner'[n] = tenant'[p] /\ period'[n] = target'[p]
  BY <1>1 DEF BatchSo
<1>10. ASSUME NEW t \in Tenants, moved'[p][t] # 0
       PROVE  /\ pc'[p] \in InBlock
              /\ moved'[p][t] >= nextBilling'[t]
              /\ \E n \in Numbers : Covers(p, n, t)'
  <2>1. moved[p][t] # 0 /\ pc[p] \in InBlock /\ moved[p][t] >= nextBilling[t]
    BY <1>10 DEF BatchSo
  <2>2. PICK n \in Numbers : Covers(p, n, t)
    BY <2>1 DEF BatchSo
  <2>3. Covers(p, n, t)'
    BY <1>6, <2>1, <2>2 DEF InBlock
  <2> QED BY <1>10, <2>1, <2>3
<1> QED BY <1>7, <1>8, <1>9, <1>10 DEF BatchSo, Monthly

(* An action of the process itself that moves neither a day nor a billing  *)
(* date and stays in the block: what it selected, covered and moved before *)
(* stays true, so that only the tenant it bills needs care.                *)
LEMMA BatchWithin ==
  ASSUME BillingInv, [Next]_vars, NEW p \in Batches, BatchSo(p),
         UNCHANGED <<day, nextBilling>>, pc[p] \in InBlock, pc'[p] \in InBlock,
         todo'[p] \subseteq todo[p],
         \A t \in Tenants : moved'[p][t] # 0 =>
           \/ moved'[p][t] = moved[p][t]
           \/ /\ moved'[p][t] >= nextBilling[t]
              /\ \E n \in Numbers : Covers(p, n, t),
         pc'[p] \in {"number", "create", "notify"} =>
           /\ nextBilling[tenant'[p]] <= day
           /\ target'[p] \in Monthly /\ target'[p][2] >= Month(nextBilling[tenant'[p]]),
         pc'[p] = "notify" =>
           \E n \in Numbers : n \in Seen(p)' /\ owner'[n] = tenant'[p] /\ period'[n] = target'[p]
  PROVE  BatchSo(p)'
<1>0. TypeOK /\ p \in Procs
  BY DEF BillingInv
<1>1. \A n \in Seen(p) : n \in Seen(p)' /\ owner'[n] = owner[n] /\ period'[n] = period[n]
  BY <1>0, SeenStep DEF InBlock
<1>2. \A t \in Tenants : Month(nextBilling[t])' = Month(nextBilling[t])
  BY DEF Month
<1>3. \A n \in Numbers, t \in Tenants : Covers(p, n, t) => Covers(p, n, t)'
  BY <1>1, <1>2 DEF Covers, Monthly
<1>4. ASSUME NEW t \in Tenants, moved'[p][t] # 0
      PROVE  moved'[p][t] >= nextBilling'[t] /\ \E n \in Numbers : Covers(p, n, t)'
  <2>1. moved'[p][t] >= nextBilling[t] /\ \E n \in Numbers : Covers(p, n, t)
    BY <1>4 DEF BatchSo
  <2> QED BY <1>3, <2>1
<1>5. \A t \in todo'[p] \cap Tenants : nextBilling'[t] <= day'
  BY DEF BatchSo
<1>6. pc'[p] \in {"number", "create", "notify"} =>
       /\ nextBilling'[tenant'[p]] <= day'
       /\ target'[p] \in Monthly /\ target'[p][2] >= Month(nextBilling'[tenant'[p]])
  OBVIOUS
<1>7. Month(nextBilling[tenant[p]])' = Month(nextBilling'[tenant'[p]])
  BY DEF Month
<1> QED BY <1>4, <1>5, <1>6, <1>7 DEF BatchSo, Monthly

(* A number a block has inserted is taken.                                 *)
LEMMA DraftExists ==
  ASSUME AuthorInv, NEW q \in Procs, NEW n \in draft[q]
  PROVE  status[n] # "none"
BY DEF AuthorInv, AuthorsExist, Authored

(* Every action keeps what the only batch knows.                           *)
LEMMA BatchStep ==
  ASSUME OneBatch, BatchInv, [Next]_vars
  PROVE  BatchesSo'
<1>0. BillingInv /\ TypeOK /\ TypeOK' /\ BatchesSo
  BY TypeStep DEF BatchInv, AuthorInv, BillingInv
<1>1. \A p \in Procs : pc[p] \in {"number", "create", "notify"} => tenant[p] \in Tenants
  BY <1>0 DEF BillingInv, Position, PositionOf
<1>2. ASSUME NEW p \in Procs, pc'[p] \in {"cycle", "notify"}
      PROVE  p \in Batches
  <2>1. CASE pc'[p] = pc[p]
    BY <1>0, <1>2, <2>1 DEF BatchesSo
  <2>2. CASE pc'[p] # pc[p]
    <3>1. pc[p] \in {"cycle", "notify"} \/ p \in Batches
      <4> USE DEF TypeOK, GoTo, End, NextTurn
      <4>1. ASSUME NEW q \in Procs, NEW named \in BOOLEAN,
                   Step(q) \/ Crash(q) \/ BeginBatch(q, named)
            PROVE  p = q
        BY <1>0, <2>2, <4>1 DEF Step, Crash, BeginBatch, DrawNumber, CreateInvoice, RefuseInvoice,
           UndoUnlogged, NextCycle, NotifyFails, AdvanceCycle, CommitBatch, CommitPayment,
           MarkOverdue, ReminderFails, CycleMissing, Suspend, SuspendToday, BeginService,
           EndCollection, work
      <4>2. ASSUME Step(p) PROVE pc[p] \in {"cycle", "notify"} \/ p \in Batches
        BY <1>0, <1>2, <2>2, <4>2 DEF Step, DrawNumber, CreateInvoice, RefuseInvoice,
           UndoUnlogged, NextCycle, NotifyFails, AdvanceCycle, CommitBatch, CommitPayment,
           MarkOverdue, ReminderFails, CycleMissing, Suspend, SuspendToday, BeginService,
           EndCollection, work
      <4>3. ~Crash(p)
        BY <1>0, <1>2 DEF Crash
      <4>4. CASE \/ NewDay \/ (\E t \in Tenants : SwitchTenant(t)) \/ UNCHANGED vars
        BY <2>2, <4>4 DEF NewDay, SwitchTenant, vars
      <4>5. CASE \/ \E q \in Clerks, t \in Tenants, per \in Periods : BeginInvoice(q, t, per)
                 \/ \E q \in Clerks, n \in Numbers : BeginPayment(q, n)
                 \/ \E q \in Collectors : BeginCollection(q)
        BY <1>0, <1>2, <2>2, <4>5, ConstantTypes DEF BeginInvoice, BeginPayment, BeginCollection
      <4> QED BY <4>1, <4>2, <4>3, <4>4, <4>5, ConstantTypes DEF Next
    <3> QED BY <1>0, <3>1 DEF BatchesSo
  <2> QED BY <2>1, <2>2
<1>3. ASSUME NEW p \in Batches PROVE BatchSo(p)'
  <2>0. p \in Procs /\ BatchSo(p) /\ day' >= day
    <3>1. day' = day \/ day' = day + 1
      BY DEF Next, Step, NewDay, SwitchTenant, BeginInvoice, BeginPayment, BeginBatch,
         BeginCollection, Crash, DrawNumber, CreateInvoice, RefuseInvoice, UndoUnlogged,
         NextCycle, NotifyFails, AdvanceCycle, CommitBatch, CommitPayment, MarkOverdue,
         ReminderFails, CycleMissing, Suspend, SuspendToday, BeginService, EndCollection, tables,
         vars
    <3> QED BY <1>0, <3>1, ConstantTypes DEF BatchesSo, TypeOK, Days
  <2>1. ASSUME UNCHANGED <<nextBilling, pc[p], tenant[p], target[p], todo[p], moved[p]>>
        PROVE  BatchSo(p)'
    BY <1>0, <2>0, <2>1, BatchUntouched
  <2>2. ASSUME pc'[p] \notin InBlock, \A t \in Tenants : moved'[p][t] = 0
        PROVE  BatchSo(p)'
    BY <2>2 DEF BatchSo, InBlock
  <2>3. ASSUME End(p) PROVE BatchSo(p)'
    BY <1>0, <2>0, <2>2, <2>3 DEF End, Clear, GoTo, NotMoved, TypeOK, InBlock
  <2>4. \A t \in Tenants : moved[p][t] # 0 => pc[p] \in InBlock
    BY <2>0 DEF BatchSo
  <2>5. ASSUME NEW named \in BOOLEAN, BeginBatch(p, named) PROVE BatchSo(p)'
    <3>1. /\ pc'[p] = "cycle" /\ \A t \in Tenants : moved'[p][t] = 0
          /\ \A t \in todo'[p] \cap Tenants : nextBilling'[t] <= day'
      BY <1>0, <2>0, <2>4, <2>5 DEF BeginBatch, GoTo, TypeOK, InBlock, tables
    <3> QED BY <3>1 DEF BatchSo
  <2>6. ASSUME NEW t \in Tenants, NextCycle(p, t) PROVE BatchSo(p)'
    <3> DEFINE per == <<"monthly", Month(day)>>
    <3>1. /\ pc[p] = "cycle" /\ pc'[p] \in {"number", "notify"}
          /\ UNCHANGED <<day, nextBilling, moved>> /\ todo'[p] \subseteq todo[p]
          /\ tenant'[p] = t /\ target'[p] = per /\ t \in todo[p]
          /\ UNCHANGED <<status, owner, period, draft>>
      BY <1>0, <2>0, <2>6 DEF NextCycle, GoTo, TypeOK, tables, rows
    <3>2. nextBilling[t] <= day /\ nextBilling[t] \in Nat /\ day \in Nat
      BY <1>0, <2>0, <3>1 DEF BatchSo, InBlock, TypeOK, Days
    <3>3. per \in Monthly /\ per[2] >= Month(nextBilling[t])
      BY <1>0, <3>2, Calendar, MonthsFollow DEF TypeOK, Monthly
    <3>4. ASSUME pc'[p] = "notify"
          PROVE  \E n \in Numbers : n \in Seen(p)' /\ owner'[n] = t /\ period'[n] = per
      <4>1. Billed(p, t, per) # {}
        BY <1>0, <2>0, <2>6, <3>4 DEF NextCycle, GoTo, TypeOK
      <4>2. PICK n \in Seen(p) : owner[n] = t /\ period[n] = per
        BY <4>1 DEF Billed
      <4> QED BY <3>1, <4>2 DEF Seen, Uncommitted
    <3> HIDE DEF per
    <3> QED BY <1>0, <2>0, <3>1, <3>2, <3>3, <3>4, BatchWithin DEF InBlock
  <2>7. ASSUME DrawNumber(p) PROVE BatchSo(p)'
    <3>1. /\ pc[p] = "number" /\ pc'[p] = "create"
          /\ UNCHANGED <<day, nextBilling, moved, todo, tenant, target>>
      BY <1>0, <2>0, <2>7 DEF DrawNumber, GoTo, TypeOK, tables
    <3>2. /\ nextBilling[tenant'[p]] <= day
          /\ target'[p] \in Monthly /\ target'[p][2] >= Month(nextBilling[tenant'[p]])
      BY <2>0, <3>1 DEF BatchSo
    <3> QED BY <1>0, <2>0, <3>1, <3>2, BatchWithin DEF InBlock
  <2>8. ASSUME CreateInvoice(p) PROVE BatchSo(p)'
    <3>1. CASE End(p)
      BY <2>3, <3>1
    <3>2. CASE ~End(p)
      <4>1. /\ pc[p] = "create" /\ pc'[p] = "notify"
            /\ UNCHANGED <<day, nextBilling, moved, todo, tenant, target>>
        BY <1>0, <2>0, <2>8, <3>2 DEF CreateInvoice, GoTo, TypeOK
      <4>2. /\ nextBilling[tenant'[p]] <= day
            /\ target'[p] \in Monthly /\ target'[p][2] >= Month(nextBilling[tenant'[p]])
        BY <2>0, <4>1 DEF BatchSo
      <4>3. number[p] \in Numbers
        BY <1>0, <2>0, <4>1 DEF BillingInv, Position, PositionOf
      <4>4. PICK n \in Numbers : n = number[p]
        BY <4>3
      <4>5. status'[n] = "pending" /\ owner'[n] = tenant'[p] /\ period'[n] = target'[p]
        BY <1>0, <2>8, <4>1, <4>4 DEF CreateInvoice, TypeOK
      <4>6. \A q \in Procs \ {p} : n \notin draft'[q]
        <5>1. \A q \in Procs \ {p} : draft'[q] = draft[q]
          BY <1>0, <2>0, <2>8 DEF CreateInvoice, End, Clear, TypeOK
        <5>2. status[n] = "none"
          BY <2>8, <4>4 DEF CreateInvoice
        <5> QED BY <2>0, <5>1, <5>2, DraftExists DEF BatchInv
      <4>7. n \in Seen(p)'
        BY <4>5, <4>6 DEF Seen, Uncommitted
      <4> QED BY <1>0, <2>0, <4>1, <4>2, <4>5, <4>7, BatchWithin DEF InBlock
    <3> QED BY <3>1, <3>2
  <2>9. ASSUME RefuseInvoice(p) \/ UndoUnlogged(p) \/ NotifyFails(p) PROVE BatchSo(p)'
    <3>1. CASE End(p)
      BY <2>3, <3>1
    <3>2. CASE ~End(p)
      <4>1. /\ pc[p] \in InBlock /\ pc'[p] = "cycle"
            /\ UNCHANGED <<day, nextBilling, moved, todo>>
        BY <1>0, <2>0, <2>9, <3>2 DEF RefuseInvoice, UndoUnlogged, NotifyFails, NextTurn, GoTo,
           TypeOK, tables, InBlock
      <4> QED BY <1>0, <2>0, <4>1, BatchWithin DEF InBlock
    <3> QED BY <3>1, <3>2
  <2>10. ASSUME AdvanceCycle(p) PROVE BatchSo(p)'
    <3> DEFINE t == tenant[p]
    <3>1. /\ pc[p] = "notify" /\ pc'[p] = "cycle" /\ t \in Tenants
          /\ UNCHANGED <<day, nextBilling, todo>>
          /\ moved'[p][t] = NextBillingDate
          /\ \A u \in Tenants \ {t} : moved'[p][u] = moved[p][u]
      BY <1>0, <1>1, <2>0, <2>10 DEF AdvanceCycle, NextTurn, GoTo, TypeOK, tables
    <3>2. /\ nextBilling[t] <= day /\ target[p] \in Monthly
          /\ target[p][2] >= Month(nextBilling[t])
      BY <2>0, <3>1 DEF BatchSo
    <3>3. PICK n \in Numbers : n \in Seen(p) /\ owner[n] = t /\ period[n] = target[p]
      BY <2>0, <3>1 DEF BatchSo
    <3>4. Covers(p, n, t)
      BY <3>2, <3>3 DEF Covers
    <3>5. NextBillingDate >= nextBilling[t]
      <4>1. day \in Nat /\ nextBilling[t] \in Nat /\ NextBillingDate \in Nat
        BY <1>0, <3>1, Calendar DEF TypeOK
      <4>2. day < NextBillingDate
        BY <4>1, MonthsFollow DEF NextBillingDate
      <4> QED BY <3>2, <4>1, <4>2
    <3>6. \A u \in Tenants : moved'[p][u] # 0 =>
            \/ moved'[p][u] = moved[p][u]
            \/ moved'[p][u] >= nextBilling[u] /\ \E m \in Numbers : Covers(p, m, u)
      BY <3>1, <3>4, <3>5
    <3> HIDE DEF t
    <3> QED BY <1>0, <2>0, <3>1, <3>6, BatchWithin DEF InBlock
  <2>11. ASSUME \/ Crash(p) \/ CommitBatch(p) \/ CommitPayment(p) \/ ReminderFails(p)
                \/ CycleMissing(p)
                \/ EndCollection(p)
         PROVE  BatchSo(p)'
    BY <2>3, <2>11 DEF Crash, CommitBatch, CommitPayment, ReminderFails, CycleMissing,
       EndCollection
  <2>12. ASSUME \/ \E n \in Numbers : MarkOverdue(p, n)
                \/ Suspend(p) \/ SuspendToday(p) \/ BeginService(p)
         PROVE  BatchSo(p)'
    <3>1. pc[p] \notin InBlock /\ pc'[p] \notin InBlock /\ moved' = moved
      BY <1>0, <2>0, <2>12 DEF MarkOverdue, Suspend, SuspendToday, BeginService, NextTurn, GoTo,
         TypeOK, InBlock
    <3> QED BY <2>2, <2>4, <3>1
  <2>13. ASSUME NEW q \in Procs \ {p}, Step(q) \/ Crash(q) PROVE BatchSo(p)'
    <3>1. UNCHANGED nextBilling
      <4>1. ~CommitBatch(q)
        BY <1>0, <2>13 DEF CommitBatch, BatchesSo, OneBatch
      <4> QED BY <2>13, <4>1 DEF Step, Crash, DrawNumber, CreateInvoice, RefuseInvoice,
         UndoUnlogged, NextCycle, NotifyFails, AdvanceCycle, CommitPayment, MarkOverdue,
         ReminderFails, CycleMissing, Suspend, SuspendToday, BeginService, EndCollection, tables
    <3>2. UNCHANGED <<pc[p], tenant[p], target[p], todo[p], moved[p]>>
      BY <1>0, <2>0, <2>13 DEF Step, Crash, DrawNumber, CreateInvoice, RefuseInvoice,
         UndoUnlogged, NextCycle, NotifyFails, AdvanceCycle, CommitBatch, CommitPayment,
         MarkOverdue, ReminderFails, CycleMissing, Suspend, SuspendToday, BeginService,
         EndCollection, End, Clear, NextTurn, GoTo, TypeOK, work
    <3> QED BY <2>1, <3>1, <3>2
  <2>14. ASSUME \/ NewDay \/ (\E t \in Tenants : SwitchTenant(t)) \/ UNCHANGED vars
                \/ \E q \in Clerks, t \in Tenants, per \in Periods : BeginInvoice(q, t, per)
                \/ \E q \in Clerks, n \in Numbers : BeginPayment(q, n)
                \/ \E q \in Collectors : BeginCollection(q)
                \/ \E q \in Batches \ {p}, named \in BOOLEAN : BeginBatch(q, named)
         PROVE  BatchSo(p)'
    <3>1. p \notin Clerks /\ p \notin Collectors
      BY BillingAssumptions
    <3>2. UNCHANGED <<nextBilling, pc[p], tenant[p], target[p], todo[p], moved[p]>>
      BY <1>0, <2>0, <2>14, <3>1 DEF NewDay, SwitchTenant, vars, BeginInvoice, BeginPayment,
         BeginCollection, BeginBatch, GoTo, TypeOK, tables, work
    <3> QED BY <2>1, <3>2
  <2> QED BY <2>5, <2>6, <2>7, <2>8, <2>9, <2>10, <2>11, <2>12, <2>13, <2>14 DEF Next, Step
<1> QED BY <1>2, <1>3 DEF BatchesSo

(* The billing date of a tenant never falls back, and moves on only when   *)
(* the tenant was billed for the month it stood for or a later one,        *)
(* whichever tenants' errors the batch caught.                             *)
THEOREM BilledBeforeMoved ==
  ASSUME OneBatch
  PROVE  Spec => MovedWasBilled
<1> DEFINE Advance ==
      \A t \in Tenants :
        /\ nextBilling'[t] >= nextBilling[t]
        /\ nextBilling'[t] # nextBilling[t] =>
             \E n \in Numbers : /\ status'[n] # "none" /\ owner'[n] = t
                                /\ period'[n][1] = "monthly"
                                /\ period'[n][2] >= Month(nextBilling[t])
<1>1. BatchInv /\ [Next]_vars => BatchInv'
  BY BillingStep, AuthorStep, BatchStep DEF BatchInv, AuthorInv
<1>2. ASSUME BatchInv, [Next]_vars PROVE [Advance]_vars
  <2>0. TypeOK /\ BatchesSo
    BY <1>2 DEF BatchInv, AuthorInv, BillingInv
  <2>1. CASE UNCHANGED nextBilling
    BY <2>0, <2>1 DEF TypeOK
  <2>2. ASSUME NEW p \in Procs, CommitBatch(p) PROVE Advance
    <3>1. BatchSo(p)
      BY <2>0, <2>2 DEF CommitBatch, BatchesSo
    <3>2. /\ UNCHANGED <<status, owner, period>>
          /\ \A t \in Tenants : nextBilling'[t] = IF moved[p][t] # 0 THEN moved[p][t]
                                                                   ELSE nextBilling[t]
      BY <2>2 DEF CommitBatch, rows
    <3>3. ASSUME NEW t \in Tenants, moved[p][t] # 0
          PROVE  /\ moved[p][t] >= nextBilling[t]
                 /\ \E n \in Numbers : /\ status[n] # "none" /\ owner[n] = t
                                       /\ period[n][1] = "monthly"
                                       /\ period[n][2] >= Month(nextBilling[t])
      BY <3>1, <3>3 DEF BatchSo, Covers, Seen, Monthly
    <3>4. \A t \in Tenants : nextBilling[t] >= nextBilling[t]
      BY <2>0 DEF TypeOK
    <3> QED BY <3>2, <3>3, <3>4
  <2>3. CASE \A p \in Procs : ~CommitBatch(p)
    <3>1. UNCHANGED nextBilling
      BY <1>2, <2>3 DEF Next, Step, NewDay, SwitchTenant, BeginInvoice, BeginPayment, BeginBatch,
         BeginCollection, Crash, DrawNumber, CreateInvoice, RefuseInvoice, UndoUnlogged,
         NextCycle, NotifyFails, AdvanceCycle, CommitPayment, MarkOverdue, ReminderFails,
         CycleMissing, Suspend, SuspendToday, BeginService, EndCollection, tables, vars
    <3> QED BY <2>1, <3>1
  <2> QED BY <2>2, <2>3
<1> QED BY BatchInit, <1>1, <1>2, PTL DEF Spec, MovedWasBilled
=============================================================================
