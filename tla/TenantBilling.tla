--------------------------- MODULE TenantBilling ---------------------------
(***************************************************************************)
(* Subscription billing of tenants (zargar/tenants): administrators create *)
(* invoices, record payments and switch tenants on and off, one command    *)
(* bills every tenant whose billing date has come, another marks what is   *)
(* overdue and suspends the tenant.                                        *)
(*                                                                         *)
(* Requests and the overdue command run in autocommit and work on rows     *)
(* they read earlier.  The billing command runs in one atomic block on     *)
(* PostgreSQL at READ COMMITTED: the rows it inserts are seen by itself    *)
(* only, and who wants to insert the same number waits until it ends.  The *)
(* block of a payment is one step: what it reads it needs only for its     *)
(* own last statement.  Every tenant has a plan, but not every tenant a    *)
(* billing cycle: it is set up by a call of its own.                       *)
(***************************************************************************)
EXTENDS Integers, FiniteSets

CONSTANTS
  Tenants,
  Emailed,    \* tenants with an owner_email
  Uncycled,   \* tenants without a BillingCycle
  Clerks,     \* requests served at the same time
  Batches,    \* processes running generate_monthly_invoices
  Collectors, \* processes running process_overdue_invoices
  MonthDays,  \* days of a month
  Term,       \* days from an invoice to its due date
  Grace,      \* BillingCycle.grace_period_days
  MaxDay,     \* bound: last day of the behaviour
  MaxSeq,     \* bound: numbers of one month
  MaxRequests, \* bound: requests administrators make
  Kinds,      \* bound: kinds of period they bill for
  MaxCrashes, \* bound: processes that die
  None        \* no tenant, no number, no period

Days    == 0..MaxDay
Month(d) == d \div MonthDays
Months  == {Month(d) : d \in Days}
Numbers == Months \X (1..MaxSeq)
Procs   == Clerks \cup Batches \cup Collectors
Periods == ({"monthly"} \X Months) \cup {<<"yearly", 0>>} \cup ({"custom"} \X Days)

ASSUME BillingAssumptions ==
  /\ Emailed \subseteq Tenants /\ Uncycled \subseteq Tenants
  /\ MonthDays \in Nat \ {0} /\ Term \in Nat /\ Grace \in Nat
  /\ MaxDay \in Nat /\ MaxSeq \in Nat /\ MaxRequests \in Nat /\ MaxCrashes \in Nat
  /\ Clerks \cap Batches = {} /\ Clerks \cap Collectors = {} /\ Batches \cap Collectors = {}
  /\ IsFiniteSet(Clerks) /\ IsFiniteSet(Batches)
  /\ None \notin Tenants \cup Numbers \cup Periods

VARIABLES
  day,
  active,      \* Tenant.is_active
  nextBilling, \* BillingCycle.next_billing_date
  status,      \* TenantInvoice.status; "none" when there is no such row
  owner,       \* its tenant
  period,      \* its billing period
  due,         \* its due date
  pc,          \* what each process is about to do
  tenant,      \* the tenant it bills
  target,      \* the period it bills
  number,      \* the number it drew, the invoice it works on
  todo,        \* tenants or invoices its loop has not handled
  draft,       \* numbers its atomic block has inserted
  moved,       \* billing dates its atomic block has written; 0 where none
  logs,        \* it was started with --admin-user, whom its log entries name
  asOf,        \* the day the overdue run looked at
  wasActive,   \* tenants of its invoices that were active when it did
  requests,    \* requests administrators made
  switched,    \* tenants an administrator switched on or off
  crashes

rows   == <<status, owner, period, due>>
tables == <<day, active, nextBilling, rows>>
work   == <<tenant, target, number, todo, draft, moved, logs, asOf, wasActive>>
bounds == <<requests, switched, crashes>>
vars   == <<tables, pc, work, bounds>>

Steps == {"idle", "number", "create", "pay", "cycle", "notify", "mark", "remind", "mark2",
          "remind2"}

TypeOK ==
  /\ day \in Days
  /\ active \in [Tenants -> BOOLEAN]
  /\ nextBilling \in [Tenants -> Nat]
  /\ status \in [Numbers -> {"none", "pending", "overdue", "paid"}]
  /\ owner \in [Numbers -> Tenants \cup {None}]
  /\ period \in [Numbers -> Periods \cup {None}]
  /\ due \in [Numbers -> Nat]
  /\ pc \in [Procs -> Steps]
  /\ tenant \in [Procs -> Tenants \cup {None}]
  /\ target \in [Procs -> Periods \cup {None}]
  /\ number \in [Procs -> Numbers \cup {None}]
  /\ todo \in [Procs -> SUBSET (Tenants \cup Numbers)]
  /\ draft \in [Procs -> SUBSET Numbers]
  /\ moved \in [Procs -> [Tenants -> Nat]]
  /\ logs \in [Procs -> BOOLEAN]
  /\ asOf \in [Procs -> Days]
  /\ wasActive \in [Procs -> SUBSET Tenants]
  /\ requests \in 0..MaxRequests
  /\ switched \in SUBSET Tenants
  /\ crashes \in 0..MaxCrashes

NotMoved == [t \in Tenants |-> 0]

Init ==
  /\ day = 0
  /\ active = [t \in Tenants |-> TRUE]
  /\ nextBilling = [t \in Tenants |-> 0]
  /\ status = [n \in Numbers |-> "none"]
  /\ owner = [n \in Numbers |-> None]
  /\ period = [n \in Numbers |-> None]
  /\ due = [n \in Numbers |-> 0]
  /\ pc = [p \in Procs |-> "idle"]
  /\ tenant = [p \in Procs |-> None]
  /\ target = [p \in Procs |-> None]
  /\ number = [p \in Procs |-> None]
  /\ todo = [p \in Procs |-> {}]
  /\ draft = [p \in Procs |-> {}]
  /\ moved = [p \in Procs |-> NotMoved]
  /\ logs = [p \in Procs |-> FALSE]
  /\ asOf = [p \in Procs |-> 0]
  /\ wasActive = [p \in Procs |-> {}]
  /\ requests = 0
  /\ switched = {}
  /\ crashes = 0
-----------------------------------------------------------------------------
(* Helpers                                                                 *)

GoTo(p, step) == pc' = [pc EXCEPT ![p] = step]

\* Rows inserted by a block that has not ended are seen by it alone.
Uncommitted(n, p) == \E q \in Procs \ {p} : n \in draft[q]

Seen(p) == {n \in Numbers : status[n] # "none" /\ ~Uncommitted(n, p)}

Billed(p, t, per) == {n \in Seen(p) : owner[n] = t /\ period[n] = per}

\* The sequence number after the last one of this month.
NextNumber(p) ==
  LET used == {n[2] : n \in {m \in Seen(p) : m[1] = Month(day)}}
  IN  <<Month(day), 1 + CHOOSE s \in {0} \cup used : \A u \in used : u <= s>>

\* The billing day of next month; it is the first day of a month here.
NextBillingDate == (Month(day) + 1) * MonthDays

Clear(p) ==
  /\ tenant' = [tenant EXCEPT ![p] = None]
  /\ target' = [target EXCEPT ![p] = None]
  /\ number' = [number EXCEPT ![p] = None]
  /\ todo' = [todo EXCEPT ![p] = {}]
  /\ draft' = [draft EXCEPT ![p] = {}]
  /\ moved' = [moved EXCEPT ![p] = NotMoved]
  /\ logs' = [logs EXCEPT ![p] = FALSE]
  /\ asOf' = [asOf EXCEPT ![p] = 0]
  /\ wasActive' = [wasActive EXCEPT ![p] = {}]

End(p) == GoTo(p, "idle") /\ Clear(p)

\* An atomic block that does not commit leaves none of its rows.
RollBack(p) ==
  /\ status' = [n \in Numbers |-> IF n \in draft[p] THEN "none" ELSE status[n]]
  /\ owner' = [n \in Numbers |-> IF n \in draft[p] THEN None ELSE owner[n]]
  /\ period' = [n \in Numbers |-> IF n \in draft[p] THEN None ELSE period[n]]
  /\ due' = [n \in Numbers |-> IF n \in draft[p] THEN 0 ELSE due[n]]

\* The loop is done with a tenant or an invoice.
NextTurn(p, step) ==
  /\ GoTo(p, step)
  /\ tenant' = [tenant EXCEPT ![p] = None]
  /\ target' = [target EXCEPT ![p] = None]
  /\ number' = [number EXCEPT ![p] = None]

NewDay ==
  /\ day < MaxDay
  /\ day' = day + 1
  /\ UNCHANGED <<active, nextBilling, rows, pc, work, bounds>>

-----------------------------------------------------------------------------
(* An administrator creates invoices, one at a time or in bulk.  An invoice *)
(* of the period is returned as it is, and ends the request.               *)

BeginInvoice(p, t, per) ==
  /\ pc[p] = "idle"
  /\ requests < MaxRequests
  /\ per[1] \in Kinds
  /\ per \in {<<"monthly", Month(day)>>, <<"yearly", 0>>, <<"custom", day>>}
  /\ per[1] = "custom" \/ Billed(p, t, per) = {}
  /\ requests' = requests + 1
  /\ tenant' = [tenant EXCEPT ![p] = t]
  /\ target' = [target EXCEPT ![p] = per]
  /\ GoTo(p, "number")
  /\ UNCHANGED <<tables, number, todo, draft, moved, logs, asOf, wasActive, switched, crashes>>

\* Seeded fault: the number of the last invoice is used again.
DrawLastNumber(p) ==
  /\ pc[p] = "number"
  /\ number' = [number EXCEPT ![p] = <<Month(day), NextNumber(p)[2] - 1>>]
  /\ GoTo(p, "create")
  /\ UNCHANGED <<tables, tenant, target, todo, draft, moved, logs, asOf, wasActive, bounds>>

DrawNumber(p) ==
  /\ pc[p] = "number"
  /\ NextNumber(p) \in Numbers
  /\ number' = [number EXCEPT ![p] = NextNumber(p)]
  /\ GoTo(p, "create")
  /\ UNCHANGED <<tables, tenant, target, todo, draft, moved, logs, asOf, wasActive, bounds>>

\* The row and its log entry; the number is the row's unique key.
CreateInvoice(p) ==
  LET n == number[p]
  IN  /\ pc[p] = "create"
      /\ status[n] = "none"
      /\ p \in Clerks \/ logs[p]
      /\ status' = [status EXCEPT ![n] = "pending"]
      /\ owner' = [owner EXCEPT ![n] = tenant[p]]
      /\ period' = [period EXCEPT ![n] = target[p]]
      /\ due' = [due EXCEPT ![n] = day + Term]
      /\ \/ p \in Clerks /\ End(p)
         \/ /\ p \in Batches
            /\ draft' = [draft EXCEPT ![p] = @ \cup {n}]
            /\ GoTo(p, "notify")
            /\ UNCHANGED <<tenant, target, number, todo, moved, logs, asOf, wasActive>>
      /\ UNCHANGED <<day, active, nextBilling, bounds>>

\* Seeded fault: a batch goes on with the tenant it could not bill.
RefuseUnnoticed(p) ==
  /\ pc[p] = "create"
  /\ status[number[p]] # "none" /\ ~Uncommitted(number[p], p)
  /\ \/ p \in Clerks /\ End(p)
     \/ p \in Batches /\ GoTo(p, "notify") /\ UNCHANGED work
  /\ UNCHANGED <<tables, bounds>>

\* The number is taken by a committed invoice; a batch catches the error
\* and goes on with the next tenant.
RefuseInvoice(p) ==
  /\ pc[p] = "create"
  /\ status[number[p]] # "none" /\ ~Uncommitted(number[p], p)
  /\ \/ p \in Clerks /\ End(p)
     \/ p \in Batches /\ NextTurn(p, "cycle") /\ UNCHANGED <<todo, draft, moved, logs, asOf, wasActive>>
  /\ UNCHANGED <<tables, bounds>>

\* A batch started without --admin-user has nobody to name in the log entry:
\* that raises, the invoice's savepoint is undone, and the next tenant follows.
UndoUnlogged(p) ==
  /\ pc[p] = "create"
  /\ p \in Batches /\ ~logs[p]
  /\ status[number[p]] = "none"
  /\ NextTurn(p, "cycle")
  /\ UNCHANGED <<tables, todo, draft, moved, logs, asOf, wasActive, bounds>>

-----------------------------------------------------------------------------
(* generate_monthly_invoices: one atomic block over the due cycles         *)

BeginBatch(p, named) ==
  LET billable == {t \in Tenants \ Uncycled : active[t] /\ nextBilling[t] <= day}
  IN  /\ pc[p] = "idle"
      /\ billable # {}
      /\ todo' = [todo EXCEPT ![p] = billable]
      /\ logs' = [logs EXCEPT ![p] = named]
      /\ GoTo(p, "cycle")
      /\ UNCHANGED <<tables, tenant, target, number, draft, moved, asOf, wasActive, bounds>>

\* Seeded fault: no check for an invoice of the period.
NextCycleUnchecked(p, t) ==
  /\ pc[p] = "cycle"
  /\ t \in todo[p]
  /\ todo' = [todo EXCEPT ![p] = @ \ {t}]
  /\ tenant' = [tenant EXCEPT ![p] = t]
  /\ target' = [target EXCEPT ![p] = <<"monthly", Month(day)>>]
  /\ GoTo(p, "number")
  /\ UNCHANGED <<tables, number, draft, moved, logs, asOf, wasActive, bounds>>

\* An invoice of the month is not made again, but notified again.
NextCycle(p, t) ==
  LET per == <<"monthly", Month(day)>>
  IN  /\ pc[p] = "cycle"
      /\ t \in todo[p]
      /\ todo' = [todo EXCEPT ![p] = @ \ {t}]
      /\ tenant' = [tenant EXCEPT ![p] = t]
      /\ target' = [target EXCEPT ![p] = per]
      /\ GoTo(p, IF Billed(p, t, per) = {} THEN "number" ELSE "notify")
      /\ UNCHANGED <<tables, number, draft, moved, logs, asOf, wasActive, bounds>>

\* Seeded fault: the error of one tenant ends the block of all.
NotifyAborts(p) ==
  /\ pc[p] = "notify"
  /\ tenant[p] \in Emailed
  /\ RollBack(p)
  /\ End(p)
  /\ UNCHANGED <<day, active, nextBilling, bounds>>

\* The templates of the e-mail do not exist: rendering it raises, and the
\* billing date stays where it is.
NotifyFails(p) ==
  /\ pc[p] = "notify"
  /\ tenant[p] \in Emailed
  /\ NextTurn(p, "cycle")
  /\ UNCHANGED <<tables, todo, draft, moved, logs, asOf, wasActive, bounds>>

AdvanceCycle(p) ==
  /\ pc[p] = "notify"
  /\ tenant[p] \notin Emailed
  /\ moved' = [moved EXCEPT ![p][tenant[p]] = NextBillingDate]
  /\ NextTurn(p, "cycle")
  /\ UNCHANGED <<tables, todo, draft, logs, asOf, wasActive, bounds>>

CommitBatch(p) ==
  /\ pc[p] = "cycle"
  /\ todo[p] = {}
  /\ nextBilling' = [t \in Tenants |->
                       IF moved[p][t] # 0 THEN moved[p][t] ELSE nextBilling[t]]
  /\ End(p)
  /\ UNCHANGED <<day, active, rows, bounds>>

-----------------------------------------------------------------------------
(* Payments: the status is checked on the instance the view loaded, the    *)
(* block then writes the invoice and reactivates the tenant                *)

BeginPayment(p, n) ==
  /\ pc[p] = "idle"
  /\ requests < MaxRequests
  /\ n \in Seen(p) /\ status[n] # "paid"
  /\ requests' = requests + 1
  /\ number' = [number EXCEPT ![p] = n]
  /\ GoTo(p, "pay")
  /\ UNCHANGED <<tables, tenant, target, todo, draft, moved, logs, asOf, wasActive, switched, crashes>>

CommitPayment(p) ==
  /\ pc[p] = "pay"
  /\ status' = [status EXCEPT ![number[p]] = "paid"]
  /\ active' = [active EXCEPT ![owner[number[p]]] = TRUE]
  /\ End(p)
  /\ UNCHANGED <<day, nextBilling, owner, period, due, bounds>>

\* TenantToggleStatusView.
SwitchTenant(t) ==
  /\ requests < MaxRequests
  /\ requests' = requests + 1
  /\ active' = [active EXCEPT ![t] = ~@]
  /\ switched' = switched \cup {t}
  /\ UNCHANGED <<day, nextBilling, rows, pc, work, crashes>>

-----------------------------------------------------------------------------
(* process_overdue_invoices: the command's own loop, with reminders when   *)
(* it was asked for them, and then process_due_invoices over what is       *)
(* pending by then                                                         *)

Late(p) == {n \in Seen(p) : status[n] = "pending" /\ due[n] < day}

BeginCollection(p) ==
  /\ pc[p] = "idle"
  /\ Late(p) # {}
  /\ todo' = [todo EXCEPT ![p] = Late(p)]
  /\ asOf' = [asOf EXCEPT ![p] = day]
  /\ wasActive' = [wasActive EXCEPT ![p] = {t \in {owner[n] : n \in Late(p)} : active[t]}]
  /\ GoTo(p, "mark")
  /\ UNCHANGED <<tables, tenant, target, number, draft, moved, logs, bounds>>

\* The latest invoices come first.
NextLate(p, n) == n \in todo[p] /\ \A m \in todo[p] : due[m] <= due[n]

\* Seeded fault: the reminder goes out before the row is written.
RemindThenMark(p, n) ==
  /\ pc[p] \in {"mark", "mark2"}
  /\ NextLate(p, n)
  /\ \/ /\ owner[n] \in Emailed
        /\ End(p)
        /\ UNCHANGED tables
     \/ /\ owner[n] \notin Emailed
        /\ status' = [status EXCEPT ![n] = "overdue"]
        /\ number' = [number EXCEPT ![p] = n]
        /\ todo' = [todo EXCEPT ![p] = @ \ {n}]
        /\ GoTo(p, IF pc[p] = "mark" THEN "remind" ELSE "remind2")
        /\ UNCHANGED <<day, active, nextBilling, owner, period, due, tenant, target, draft,
                       moved, logs, asOf, wasActive>>
  /\ UNCHANGED bounds

\* The command looks at the tenant's billing cycle before it marks an
\* invoice, the service after it has marked it and sent the reminder: a
\* tenant without one makes either raise, which ends the run.
CycleMissing(p) ==
  /\ \/ pc[p] = "mark" /\ \E n \in Numbers : NextLate(p, n) /\ owner[n] \in Uncycled
     \/ pc[p] = "remind2" /\ owner[number[p]] \in Uncycled
  /\ End(p)
  /\ UNCHANGED <<tables, bounds>>

\* The whole row is written as it was read, whatever happened to it since.
MarkOverdue(p, n) ==
  /\ pc[p] \in {"mark", "mark2"}
  /\ NextLate(p, n)
  /\ pc[p] = "mark" => owner[n] \notin Uncycled
  /\ status' = [status EXCEPT ![n] = "overdue"]
  /\ number' = [number EXCEPT ![p] = n]
  /\ todo' = [todo EXCEPT ![p] = @ \ {n}]
  /\ GoTo(p, IF pc[p] = "mark" THEN "remind" ELSE "remind2")
  /\ UNCHANGED <<day, active, nextBilling, owner, period, due, tenant, target, draft, moved,
                 logs, asOf, wasActive, bounds>>

\* The reminder of a tenant with an e-mail address raises, and ends the run.
ReminderFails(p) ==
  /\ pc[p] \in {"remind", "remind2"}
  /\ owner[number[p]] \in Emailed
  /\ End(p)
  /\ UNCHANGED <<tables, bounds>>

PastGrace(n, d) == d - due[n] > Grace

\* Seeded fault: suspension on the last day of the grace period.
SuspendOnGrace(p) ==
  LET t == owner[number[p]]
  IN  /\ pc[p] = "remind"
      /\ active' = [active EXCEPT ![t] = @ /\ asOf[p] - due[number[p]] < Grace]
      /\ NextTurn(p, "mark")
      /\ UNCHANGED <<day, nextBilling, rows, todo, draft, moved, logs, asOf, wasActive, bounds>>

\* The command, when it sends no reminder, counts days from the day it
\* began and passes over a tenant that was inactive then.
Suspend(p) ==
  LET t == owner[number[p]]
  IN  /\ pc[p] = "remind"
      /\ active' = [active EXCEPT ![t] =
                      @ /\ ~(PastGrace(number[p], asOf[p]) /\ t \in wasActive[p])]
      /\ NextTurn(p, "mark")
      /\ UNCHANGED <<day, nextBilling, rows, todo, draft, moved, logs, asOf, wasActive, bounds>>

\* The service always sends one, and counts days from today.
SuspendToday(p) ==
  LET t == owner[number[p]]
  IN  /\ pc[p] = "remind2"
      /\ t \notin Emailed \cup Uncycled
      /\ active' = [active EXCEPT ![t] = @ /\ ~PastGrace(number[p], day)]
      /\ NextTurn(p, "mark2")
      /\ UNCHANGED <<day, nextBilling, rows, todo, draft, moved, logs, asOf, wasActive, bounds>>

BeginService(p) ==
  /\ pc[p] = "mark"
  /\ todo[p] = {}
  /\ todo' = [todo EXCEPT ![p] = Late(p)]
  /\ GoTo(p, "mark2")
  /\ UNCHANGED <<tables, tenant, target, number, draft, moved, logs, asOf, wasActive, bounds>>

EndCollection(p) ==
  /\ pc[p] = "mark2"
  /\ todo[p] = {}
  /\ End(p)
  /\ UNCHANGED <<tables, bounds>>

-----------------------------------------------------------------------------
\* A process dies: its open block is rolled back, its commits remain.
Crash(p) ==
  /\ pc[p] # "idle"
  /\ crashes < MaxCrashes
  /\ crashes' = crashes + 1
  /\ RollBack(p)
  /\ End(p)
  /\ UNCHANGED <<day, active, nextBilling, requests, switched>>

Step(p) ==
  \/ DrawNumber(p) \/ CreateInvoice(p) \/ RefuseInvoice(p) \/ UndoUnlogged(p)
  \/ \E t \in Tenants : NextCycle(p, t)
  \/ NotifyFails(p) \/ AdvanceCycle(p) \/ CommitBatch(p)
  \/ CommitPayment(p)
  \/ \E n \in Numbers : MarkOverdue(p, n)
  \/ CycleMissing(p) \/ ReminderFails(p) \/ Suspend(p) \/ SuspendToday(p)
  \/ BeginService(p) \/ EndCollection(p)

Next ==
  \/ NewDay
  \/ \E t \in Tenants : SwitchTenant(t)
  \/ \E p \in Clerks, t \in Tenants, per \in Periods : BeginInvoice(p, t, per)
  \/ \E p \in Clerks, n \in Numbers : BeginPayment(p, n)
  \/ \E p \in Batches, named \in BOOLEAN : BeginBatch(p, named)
  \/ \E p \in Collectors : BeginCollection(p)
  \/ \E p \in Procs : Step(p) \/ Crash(p)

Spec == Init /\ [][Next]_vars

(* Every process that has begun and does not die goes on.  Nothing in the  *)
(* code starts one, neither a request nor a command, and days need not pass. *)
FairSpec == Spec /\ \A p \in Procs : WF_vars(Step(p))

-----------------------------------------------------------------------------
(* Properties                                                              *)

(* A tenant is billed for a month or a year once, and once more at most    *)
(* for each further process that looked for an invoice of the period       *)
(* before the first one was committed; one process alone never bills a     *)
(* period twice, however often it is run, dies and is run again.           *)
BilledOncePerProcess ==
  \A t \in Tenants, per \in Periods :
    per[1] # "custom" =>
      Cardinality({n \in Numbers : status[n] # "none" /\ owner[n] = t /\ period[n] = per})
        <= Cardinality(Clerks \cup Batches)

(* Unless an administrator switched it off, a tenant is inactive only if   *)
(* an invoice of it was due more than the grace period ago, however stale  *)
(* the rows are that the command suspends it on.                           *)
SuspendedWasLate ==
  \A t \in Tenants :
    (~active[t] /\ t \notin switched) =>
      \E n \in Numbers : status[n] # "none" /\ owner[n] = t /\ PastGrace(n, day)

(* A billing date never falls back, and is moved on only for a tenant that *)
(* was billed for the month it stood for or a later one, although every    *)
(* error of a tenant is caught and the batch goes on.  (Two batches at a   *)
(* time may put a date back that the other has moved.)                     *)
MovedWasBilled ==
  [][\A t \in Tenants :
       /\ nextBilling'[t] >= nextBilling[t]
       /\ nextBilling'[t] # nextBilling[t] =>
            \E n \in Numbers : /\ status'[n] # "none" /\ owner'[n] = t
                               /\ period'[n][1] = "monthly"
                               /\ period'[n][2] >= Month(nextBilling[t])]_vars

(* The command collects; it has not been stopped before its own loop.      *)
Collecting == \E p \in Collectors : pc[p] = "mark"

(* No run gets to invoice n: one that comes first is of a tenant without a *)
(* billing cycle.                                                          *)
Blocked(n) ==
  \E m \in Numbers : /\ status[m] = "pending" /\ owner[m] \in Uncycled
                     /\ due[n] <= due[m] /\ due[m] < day

(* If the command is run again and again, an invoice past its due date is  *)
(* noticed, although each reminder that raises ends the run that wanted to *)
(* send it; only what lies behind an invoice without a cycle is not.       *)
NoticedIfCollected ==
  []<>Collecting =>
    \A n \in Numbers :
      (status[n] = "pending" /\ due[n] < day) ~> (status[n] # "pending" \/ Blocked(n))

(* If the batch is run with an administrator again and again, a tenant     *)
(* whose billing date has come, at a moment without a batch, gets its      *)
(* invoice of the month, or the month ends: neither one tenant's failed    *)
(* e-mail nor a refused number nor batches that log for nobody cost        *)
(* another its bill.  (A batch overtaken by the end of the month bills one *)
(* month and moves the date past the next.)                                *)
BilledIfRun ==
  []<>(\E b \in Batches : logs[b]) =>
    \A t \in Tenants \ Uncycled, m \in Months :
      (/\ active[t] /\ nextBilling[t] <= day /\ Month(day) = m
       /\ \A b \in Batches : pc[b] = "idle") ~>
        \/ ~active[t] \/ Month(day) # m
        \/ \E n \in Numbers : /\ status[n] # "none" /\ owner[n] = t
                               /\ period[n] = <<"monthly", m>>
=============================================================================
