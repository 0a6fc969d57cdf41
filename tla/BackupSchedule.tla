--------------------------- MODULE BackupSchedule ---------------------------
(***************************************************************************)
(* The schedules of backups (zargar/core/backup_tasks.py, BackupSchedule   *)
(* of zargar/system/models.py).  Every minute a task queues a backup for   *)
(* each schedule that is due; the backup task records its run, which alone *)
(* moves the schedule to its next time.  Several workers take messages     *)
(* from one queue; a task that raises is queued again a few times; a       *)
(* worker may die, and its task with it.  All schedules run at the same    *)
(* hour, and all months are of the same length.                            *)
(***************************************************************************)
EXTENDS Integers, Sequences

CONSTANTS
  Daily, Weekly, Monthly, \* schedules of full system backups, by frequency
  TenantOnly, \* schedules of one tenant's backups
  Unknown,    \* schedules of a type no task is for, or of a tenant unnamed
  Name,       \* the names of the schedules, of which the order matters
  Workers,    \* Celery worker processes
  Day,        \* ticks of the clock in a day
  Week,       \* days in a week
  Month,      \* days in a month
  Hour,       \* tick of the day at which schedules run
  WeekDay,    \* day_of_week of the weekly schedules
  MonthDay,   \* day_of_month of the monthly schedules
  MaxTime,    \* bound: ticks
  MaxRetries, \* max_retries of the backup tasks
  MaxFaults   \* bound: backups and calls that fail, processes that die

Full      == Daily \cup Weekly \cup Monthly
Schedules == Full \cup TenantOnly \cup Unknown

ASSUME ScheduleAssumptions ==
  /\ Day \in Nat \ {0} /\ Week \in Nat \ {0} /\ Month \in Nat \ {0}
  /\ Hour \in 0..(Day - 1)
  /\ Name \in [Schedules -> Nat]
  /\ WeekDay \in [Weekly -> 0..(Week - 1)] /\ MonthDay \in [Monthly -> Nat \ {0}]
  /\ Schedules # {}
  /\ MaxTime \in Nat /\ MaxRetries \in Nat /\ MaxFaults \in Nat
  /\ TenantOnly \cap Full = {} /\ Weekly \cap (Daily \cup Monthly) = {}
  /\ Daily \cap Monthly = {} /\ Unknown \cap (Full \cup TenantOnly) = {}

VARIABLES
  now,
  row,      \* the BackupSchedule rows
  queue,    \* messages of backup tasks
  todo,     \* due schedules the minute's task has selected and not handled
  pc,       \* what each worker is about to do
  task,     \* the message it has taken
  success,  \* the result of its backup
  instance, \* the row it has loaded
  made,     \* history: results of the backups of each schedule, counted
  disturbed, \* history: schedules with overlapping or broken off records
  faults

worker == <<pc, task, success, instance>>
trace  == <<made, disturbed, faults>>
vars   == <<now, row, queue, todo, worker, trace>>

Messages == [schedule : Schedules, tries : 0..MaxRetries]
Counts   == [total : Nat, good : Nat, bad : Nat]
Rows     == [total : Nat, good : Nat, bad : Nat, nextRun : Nat]

\* A queue holds equal messages once: this bounds what the minute's task
\* adds while no worker is free.
TypeOK ==
  /\ now \in 0..MaxTime
  /\ row \in [Schedules -> Rows]
  /\ queue \in Seq(Messages)
  /\ \A i, j \in DOMAIN queue : queue[i] = queue[j] => i = j
  /\ todo \in SUBSET Schedules
  /\ pc \in [Workers -> {"idle", "backup", "next", "save"}]
  /\ task \in [Workers -> Messages]
  /\ success \in [Workers -> BOOLEAN]
  /\ instance \in [Workers -> Rows]
  /\ made \in [Schedules -> Counts]
  /\ disturbed \in SUBSET Schedules
  /\ faults \in 0..MaxFaults
-----------------------------------------------------------------------------
(* calculate_next_run                                                      *)

\* Seeded fault: when the hour has passed, a day is taken away.
NextRunYesterday(s, t) ==
  LET today == t \div Day
  IN  IF s \in Daily /\ today * Day + Hour <= t
      THEN (today - 1) * Day + Hour
      ELSE today * Day + Hour

\* Days to the coming day of the week, which is never today.
DaysAhead(s, today) ==
  LET ahead == WeekDay[s] - (today % Week)
  IN  IF ahead <= 0 THEN ahead + Week ELSE ahead

\* The day of a monthly schedule, or the last one of a shorter month.
TargetDay(s) == IF MonthDay[s] <= Month THEN MonthDay[s] ELSE Month

\* A daily schedule runs today when its hour is still to come, a weekly one
\* never today, a monthly one never this month.
CalculateNextRun(s, t) ==
  LET today == t \div Day
  IN  CASE s \in Monthly -> ((today \div Month + 1) * Month + TargetDay(s) - 1) * Day + Hour
        [] s \in Weekly  -> (today + DaysAhead(s, today)) * Day + Hour
        [] OTHER         -> IF today * Day + Hour > t
                            THEN today * Day + Hour
                            ELSE (today + 1) * Day + Hour

NewRow(s) == [total |-> 0, good |-> 0, bad |-> 0, nextRun |-> CalculateNextRun(s, 0)]

Blank == [total |-> 0, good |-> 0, bad |-> 0, nextRun |-> 0]

NoTask == [schedule |-> CHOOSE s \in Schedules : TRUE, tries |-> 0]

Init ==
  /\ now = 0
  /\ row = [s \in Schedules |-> NewRow(s)]
  /\ queue = <<>>
  /\ todo = {}
  /\ pc = [w \in Workers |-> "idle"]
  /\ task = [w \in Workers |-> NoTask]
  /\ success = [w \in Workers |-> FALSE]
  /\ instance = [w \in Workers |-> Blank]
  /\ made = [s \in Schedules |-> [total |-> 0, good |-> 0, bad |-> 0]]
  /\ disturbed = {}
  /\ faults = 0
-----------------------------------------------------------------------------
(* Helpers                                                                 *)

Due(s) == row[s].nextRun <= now

\* One more run, with this result.
Count(c, ok) ==
  IF ok THEN [c EXCEPT !.total = @ + 1, !.good = @ + 1]
        ELSE [c EXCEPT !.total = @ + 1, !.bad = @ + 1]

Enqueue(m) == queue' = IF \E i \in DOMAIN queue : queue[i] = m THEN queue ELSE Append(queue, m)

GoTo(w, step) == pc' = [pc EXCEPT ![w] = step]

End(w) ==
  /\ GoTo(w, "idle")
  /\ task' = [task EXCEPT ![w] = NoTask]
  /\ success' = [success EXCEPT ![w] = FALSE]
  /\ instance' = [instance EXCEPT ![w] = Blank]

Fault ==
  /\ faults < MaxFaults
  /\ faults' = faults + 1

\* Workers that record a run.
Recording == {w \in Workers : pc[w] \in {"next", "save"}}

\* The whole task is queued again until it has been tried often enough.
Retry(w) ==
  /\ Fault
  /\ IF task[w].tries < MaxRetries
     THEN Enqueue([task[w] EXCEPT !.tries = @ + 1])
     ELSE UNCHANGED queue
-----------------------------------------------------------------------------
(* process_scheduled_backups                                               *)

\* Seeded fault: only schedules of this very minute are selected.
SelectThisMinute ==
  LET due == {s \in Schedules : row[s].nextRun = now}
  IN  /\ todo = {}
      /\ due # {}
      /\ todo' = due
      /\ UNCHANGED <<now, row, queue, worker, trace>>

SelectDue ==
  LET due == {s \in Schedules : Due(s)}
  IN  /\ todo = {}
      /\ due # {}
      /\ todo' = due
      /\ UNCHANGED <<now, row, queue, worker, trace>>

\* The schedules come by name.  The task's message is queued, whether the
\* schedule is still due or not; the next one is handled also when queueing
\* it fails, and when there is no task for it: such a schedule remains due.
Dispatch(s) ==
  /\ s \in todo /\ \A r \in todo : Name[s] <= Name[r]
  /\ todo' = todo \ {s}
  /\ \/ s \notin Unknown /\ Enqueue([schedule |-> s, tries |-> 0]) /\ UNCHANGED faults
     \/ s \notin Unknown /\ Fault /\ UNCHANGED queue
     \/ s \in Unknown /\ UNCHANGED <<queue, faults>>
  /\ UNCHANGED <<now, row, worker, made, disturbed>>

\* The minute's task dies with its worker.
DispatcherCrash ==
  /\ todo # {}
  /\ Fault
  /\ todo' = {}
  /\ UNCHANGED <<now, row, queue, worker, made, disturbed>>
-----------------------------------------------------------------------------
(* create_daily_backup, create_weekly_backup, create_tenant_backup         *)

Take(w) ==
  /\ pc[w] = "idle"
  /\ queue # <<>>
  /\ task' = [task EXCEPT ![w] = Head(queue)]
  /\ queue' = Tail(queue)
  /\ GoTo(w, "backup")
  /\ UNCHANGED <<now, row, todo, success, instance, trace>>

\* The backup is made, or has failed: both are results to record, on the
\* schedule's row as it is then.
MakeBackup(w, ok) ==
  LET s == task[w].schedule
  IN  /\ pc[w] = "backup"
      /\ s \in Full
      /\ IF ok THEN UNCHANGED faults ELSE Fault
      /\ success' = [success EXCEPT ![w] = ok]
      /\ made' = [made EXCEPT ![s] = Count(@, ok)]
      /\ instance' = [instance EXCEPT ![w] = row[s]]
      /\ disturbed' = IF \E v \in Recording : task[v].schedule = s
                      THEN disturbed \cup {s} ELSE disturbed
      /\ GoTo(w, "next")
      /\ UNCHANGED <<now, row, queue, todo, task>>

\* A tenant backup does not know its schedule, and records nothing.
MakeTenantBackup(w) ==
  /\ pc[w] = "backup"
  /\ task[w].schedule \in TenantOnly
  /\ End(w)
  /\ UNCHANGED <<now, row, queue, todo, trace>>

\* Seeded fault: the next time follows the row's last one.
SaveFollowingRun(w) ==
  LET s == task[w].schedule
      upcoming == CalculateNextRun(s, instance[w].nextRun)
  IN  /\ pc[w] = "next"
      /\ row' = [row EXCEPT ![s].nextRun = upcoming]
      /\ instance' = [instance EXCEPT ![w] = [Count(@, success[w]) EXCEPT !.nextRun = upcoming]]
      /\ GoTo(w, "save")
      /\ UNCHANGED <<now, queue, todo, task, success, trace>>

\* record_run adds the run to the counters of the instance, and saves the
\* next time alone first ...
SaveNextRun(w) ==
  LET s == task[w].schedule
      upcoming == CalculateNextRun(s, now)
  IN  /\ pc[w] = "next"
      /\ row' = [row EXCEPT ![s].nextRun = upcoming]
      /\ instance' = [instance EXCEPT ![w] = [Count(@, success[w]) EXCEPT !.nextRun = upcoming]]
      /\ GoTo(w, "save")
      /\ UNCHANGED <<now, queue, todo, task, success, trace>>

\* Seeded fault: update_fields lacks the total.
SaveWithoutTotal(w) ==
  LET s == task[w].schedule
      i == instance[w]
  IN  /\ pc[w] = "save"
      /\ row' = [row EXCEPT ![s].nextRun = i.nextRun,
                            ![s].good = IF success[w] THEN i.good ELSE @,
                            ![s].bad = IF success[w] THEN @ ELSE i.bad]
      /\ UNCHANGED queue /\ UNCHANGED faults
      /\ End(w)
      /\ UNCHANGED <<now, todo, made, disturbed>>

\* ... and then the counters it has changed, and the next time again.  The
\* verification of a good backup is queued after that; when this raises, the
\* task is retried although its run is recorded.
SaveCounts(w) ==
  LET s == task[w].schedule
      i == instance[w]
  IN  /\ pc[w] = "save"
      /\ row' = [row EXCEPT ![s].nextRun = i.nextRun,
                            ![s].total = i.total,
                            ![s].good = IF success[w] THEN i.good ELSE @,
                            ![s].bad = IF success[w] THEN @ ELSE i.bad]
      /\ \/ UNCHANGED <<queue, faults>>
         \/ success[w] /\ Retry(w)
      /\ End(w)
      /\ UNCHANGED <<now, todo, made, disturbed>>

Interrupt(w) ==
  disturbed' = disturbed \cup (IF w \in Recording THEN {task[w].schedule} ELSE {})

\* A call raises: the retried task makes a backup of its own.
Raise(w) ==
  /\ pc[w] # "idle"
  /\ Interrupt(w)
  /\ Retry(w)
  /\ End(w)
  /\ UNCHANGED <<now, row, todo, made>>

\* A worker acknowledges a message before it runs the task.
Crash(w) ==
  /\ pc[w] # "idle"
  /\ Fault
  /\ Interrupt(w)
  /\ End(w)
  /\ UNCHANGED <<now, row, queue, todo, made>>

Tick ==
  /\ now < MaxTime
  /\ now' = now + 1
  /\ UNCHANGED <<row, queue, todo, worker, trace>>

Step(w) ==
  \/ Take(w) \/ (\E ok \in BOOLEAN : MakeBackup(w, ok)) \/ MakeTenantBackup(w)
  \/ SaveNextRun(w) \/ SaveCounts(w) \/ Raise(w)

Minute == SelectDue \/ \E s \in Schedules : Dispatch(s)

Next ==
  \/ Minute \/ DispatcherCrash \/ Tick
  \/ \E w \in Workers : Step(w) \/ Crash(w)

Spec == Init /\ [][Next]_vars

(* Beat queues the minute's task every minute, and workers run what is in  *)
(* the queue, in its order.                                                *)
FairSpec == Spec /\ WF_vars(Minute) /\ \A w \in Workers : WF_vars(Step(w))
-----------------------------------------------------------------------------
(* Properties                                                              *)

(* The times a schedule stands for.                                        *)
Slot(s, u) ==
  LET d == u \div Day
  IN  /\ u % Day = Hour
      /\ s \in Weekly => d % Week = WeekDay[s]
      /\ s \in Monthly => d % Month = TargetDay(s) - 1

(* After time t: on a later day for a weekly schedule, in a later month for *)
(* a monthly one.                                                          *)
Later(s, u, t) ==
  CASE s \in Weekly  -> u \div Day > t \div Day
    [] s \in Monthly -> (u \div Day) \div Month > (t \div Day) \div Month
    [] OTHER         -> u > t

Period(s) == CASE s \in Weekly -> Week * Day [] s \in Monthly -> Month * Day [] OTHER -> Day

(* No run leaves a schedule waiting past a slot that is still to come,     *)
(* whatever stale instances are saved: a slot of a daily schedule is not   *)
(* passed over, of a weekly one only a slot later today, of a monthly one  *)
(* only a slot later this month.                                           *)
LaterSlotIsKept ==
  \A s \in Full : \A u \in (now + 1)..(now + 2 * Period(s)) :
    Slot(s, u) /\ Later(s, u, now) => row[s].nextRun <= u

(* Counters differ from the backups made only while a record is under way  *)
(* or after records of two tasks overlapped or one was broken off.         *)
UndisturbedIsCounted ==
  \A s \in Schedules \ disturbed :
    (\A w \in Recording : task[w].schedule # s) =>
      /\ row[s].total = made[s].total
      /\ row[s].good = made[s].good
      /\ row[s].bad = made[s].bad

(* A schedule of a full system backup that is due is run and recorded: it  *)
(* is due for ever only if something fails for ever.                       *)
DueIsRecorded == \A s \in Full : Due(s) ~> ~Due(s)
=============================================================================
