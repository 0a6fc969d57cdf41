----------------------- MODULE BackupSchedule_proofs -----------------------
(***************************************************************************)
(* Proofs about BackupSchedule for any number of schedules and workers and *)
(* any calendar: no schedule waits past a slot of a later hour, day or     *)
(* month (LaterSlotIsKept), and records that nobody disturbed count the    *)
(* backups made (UndisturbedIsCounted).                                    *)
(***************************************************************************)
EXTENDS BackupSchedule, SequenceTheorems, TLAPS

(* Who waits for x at time t keeps every later slot, however far ahead.    *)
InTime(s, x, t) == \A u \in Nat : Slot(s, u) /\ Later(s, u, t) => x <= u

(* LaterSlotIsKept, for the next time a worker is about to save, too.      *)
Punctual ==
  /\ \A s \in Full : InTime(s, row[s].nextRun, now)
  /\ \A w \in Workers : (pc[w] = "save" /\ task[w].schedule \in Full) =>
       InTime(task[w].schedule, instance[w].nextRun, now)

Same(c, d) == c.total = d.total /\ c.good = d.good /\ c.bad = d.bad

(* The backup of the run that worker w records is the only one its         *)
(* schedule's row lacks, and the worker's instance is as new as the row.   *)
Records(w) ==
  LET s == task[w].schedule
  IN  /\ made[s].total = row[s].total + 1
      /\ made[s].good = row[s].good + (IF success[w] THEN 1 ELSE 0)
      /\ made[s].bad = row[s].bad + (IF success[w] THEN 0 ELSE 1)
      /\ pc[w] = "next" => Same(instance[w], row[s])
      /\ pc[w] = "save" => Same(instance[w], made[s])

Counted ==
  /\ UndisturbedIsCounted
  /\ \A w \in Recording : task[w].schedule \notin disturbed => Records(w)
  /\ \A v, w \in Recording :
       (task[v].schedule = task[w].schedule /\ task[v].schedule \notin disturbed) => v = w

(* The inductive invariant.                                                *)
ScheduleInv == TypeOK /\ Punctual /\ Counted
-----------------------------------------------------------------------------
(* The sorts of the constants.                                             *)
LEMMA ConstantTypes ==
  /\ Day \in Nat \ {0} /\ Week \in Nat \ {0} /\ Month \in Nat \ {0}
  /\ Hour \in Nat /\ Hour < Day
  /\ MaxTime \in Nat /\ MaxRetries \in Nat /\ MaxFaults \in Nat
  /\ Weekly \cap Daily = {} /\ Weekly \cap Monthly = {} /\ Daily \cap Monthly = {}
  /\ \A s \in Weekly : WeekDay[s] \in 0..(Week - 1)
  /\ \A s \in Monthly : TargetDay(s) \in 1..Month
BY ScheduleAssumptions DEF TargetDay

(* Division with remainder.                                                *)
LEMMA DivMod ==
  ASSUME NEW n \in Nat, NEW d \in Nat \ {0}
  PROVE  n \div d \in Nat /\ n % d \in 0..(d - 1) /\ n = d * (n \div d) + (n % d)
OBVIOUS

(* Division keeps the order.                                               *)
LEMMA DivGrows ==
  ASSUME NEW n \in Nat, NEW m \in Nat, NEW d \in Nat \ {0}, n <= m
  PROVE  n \div d <= m \div d
<1> DEFINE p == n \div d
           q == m \div d
<1>1. /\ p \in Nat /\ n % d \in 0..(d - 1) /\ n = d * p + (n % d)
      /\ q \in Nat /\ m % d \in 0..(d - 1) /\ m = d * q + (m % d)
  BY DivMod
<1>2. ASSUME q + 1 <= p PROVE FALSE
  <2>1. d * (q + 1) <= d * p
    BY <1>1, <1>2
  <2>2. d * (q + 1) = d * q + d
    BY <1>1
  <2> HIDE DEF p, q
  <2> QED BY <1>1, <2>1, <2>2
<1> HIDE DEF p, q
<1>3. p <= q
  BY <1>1, <1>2
<1> QED BY <1>3 DEF p, q

(* Times at the same hour follow each other as their days do.              *)
LEMMA DaysInOrder ==
  ASSUME NEW u \in Nat, u % Day = Hour, NEW d \in Nat, d <= u \div Day
  PROVE  d * Day + Hour <= u
<1> USE ConstantTypes
<1> DEFINE p == u \div Day
<1>1. p \in Nat /\ u = Day * p + Hour
  BY DivMod
<1> HIDE DEF p
<1>2. d <= p
  BY DEF p
<1>3. Day * d <= Day * p /\ d * Day = Day * d
  BY <1>1, <1>2
<1> QED BY <1>1, <1>3

(* The days calculate_next_run finds are days.                             *)
LEMMA CalendarDays ==
  ASSUME NEW today \in Nat
  PROVE  /\ \A s \in Weekly : today + DaysAhead(s, today) \in Nat
         /\ \A s \in Monthly : (today \div Month + 1) * Month + TargetDay(s) - 1 \in Nat
<1> USE ConstantTypes
<1>1. today % Week \in 0..(Week - 1) /\ today \div Month \in Nat
  BY DivMod
<1>2. ASSUME NEW s \in Weekly PROVE DaysAhead(s, today) \in Nat
  BY <1>1, <1>2 DEF DaysAhead
<1>3. (today \div Month + 1) * Month \in Nat
  BY <1>1
<1>4. \A s \in Monthly : TargetDay(s) - 1 \in Nat
  BY ConstantTypes
<1> QED BY <1>2, <1>3, <1>4

(* The next time of any schedule is a time.                                *)
LEMMA NextRunType ==
  ASSUME NEW t \in Nat, NEW s
  PROVE  CalculateNextRun(s, t) \in Nat
<1> USE ConstantTypes
<1> DEFINE today == t \div Day
<1>1. today \in Nat
  BY DivMod
<1>2. CASE s \in Monthly
  <2> DEFINE d == (today \div Month + 1) * Month + TargetDay(s) - 1
  <2>1. d \in Nat /\ CalculateNextRun(s, t) = d * Day + Hour
    BY <1>1, <1>2, CalendarDays DEF CalculateNextRun
  <2> HIDE DEF d
  <2> QED BY <2>1
<1>3. CASE s \in Weekly
  <2> DEFINE d == today + DaysAhead(s, today)
  <2>1. d \in Nat /\ CalculateNextRun(s, t) = d * Day + Hour
    BY <1>1, <1>3, CalendarDays DEF CalculateNextRun
  <2> HIDE DEF d
  <2> QED BY <2>1
<1>4. CASE s \notin Monthly /\ s \notin Weekly
  <2>1. CalculateNextRun(s, t) \in {today * Day + Hour, (today + 1) * Day + Hour}
    BY <1>4 DEF CalculateNextRun
  <2> HIDE DEF today
  <2> QED BY <1>1, <2>1
<1> QED BY <1>2, <1>3, <1>4

(* calculate_next_run finds the first slot later than now: of a daily      *)
(* schedule the coming hour, of a weekly one the first slot of another     *)
(* day, of a monthly one the first of another month.                       *)
LEMMA NextRunInTime ==
  ASSUME NEW t \in Nat, NEW s \in Full
  PROVE  InTime(s, CalculateNextRun(s, t), t)
<1> USE ConstantTypes
<1> DEFINE today == t \div Day
<1>0. today \in Nat /\ t % Day \in 0..(Day - 1) /\ t = Day * today + (t % Day)
  BY DivMod
<1> SUFFICES ASSUME NEW u \in Nat, Slot(s, u), Later(s, u, t)
             PROVE  CalculateNextRun(s, t) <= u
  BY DEF InTime
<1> DEFINE p == u \div Day
<1>1. p \in Nat /\ u % Day = Hour /\ u = Day * p + Hour
  BY DivMod DEF Slot
<1>2. CASE s \in Monthly
  <2> DEFINE m == today \div Month
             q == p \div Month
             d == (m + 1) * Month + TargetDay(s) - 1
  <2>1. m \in Nat /\ q \in Nat /\ p % Month \in 0..(Month - 1) /\ p = Month * q + (p % Month)
    BY <1>0, <1>1, DivMod
  <2>2. q > m /\ p % Month = TargetDay(s) - 1 /\ TargetDay(s) \in Nat
    BY <1>2 DEF Slot, Later
  <2>3. d \in Nat /\ CalculateNextRun(s, t) = d * Day + Hour
    BY <1>0, <1>2, CalendarDays DEF CalculateNextRun
  <2>4. d <= p
    <3> HIDE DEF m, q, p
    <3>1. m + 1 <= q
      BY <2>1, <2>2
    <3>2. (m + 1) * Month <= Month * q
      BY <2>1, <3>1
    <3> QED BY <2>1, <2>2, <3>2
  <2> HIDE DEF d
  <2> QED BY <1>1, <2>3, <2>4, DaysInOrder
<1>3. CASE s \in Weekly
  <2> DEFINE k == today \div Week
             r == today % Week
             q == p \div Week
             d == today + DaysAhead(s, today)
  <2>1. /\ k \in Nat /\ r \in 0..(Week - 1) /\ today = Week * k + r
        /\ q \in Nat /\ p = Week * q + (p % Week)
    BY <1>0, <1>1, DivMod
  <2>2. p > today /\ p % Week = WeekDay[s] /\ WeekDay[s] \in Nat
    BY <1>3 DEF Slot, Later
  <2>3. k <= q
    <3>1. today \in Nat /\ p \in Nat /\ today <= p
      <4> HIDE DEF today, p
      <4> QED BY <1>0, <1>1, <2>2
    <3> HIDE DEF today, p
    <3> QED BY <3>1, DivGrows
  <2>4. d \in Nat /\ CalculateNextRun(s, t) = d * Day + Hour
    BY <1>0, <1>3, CalendarDays DEF CalculateNextRun
  <2>5. d <= p
    <3>1. d = IF WeekDay[s] - r <= 0 THEN today + (WeekDay[s] - r + Week)
                                     ELSE today + (WeekDay[s] - r)
      BY DEF DaysAhead
    <3> HIDE DEF k, r, q, p, d, today
    <3>2. Week * k <= Week * q
      BY <2>1, <2>3
    <3>3. CASE WeekDay[s] > r
      <4>1. d = Week * k + WeekDay[s] /\ p = Week * q + WeekDay[s]
        BY <2>1, <2>2, <3>1, <3>3
      <4>2. Week * k \in Int /\ Week * q \in Int
        BY <2>1
      <4> QED BY <2>2, <3>2, <4>1, <4>2
    <3>4. CASE WeekDay[s] <= r
      <4>1. k # q
        <5>1. Week * k \in Int /\ Week * k + r < Week * q + WeekDay[s]
          BY <2>1, <2>2
        <5>2. ASSUME k = q PROVE FALSE
          BY <2>1, <2>2, <3>4, <5>1, <5>2
        <5> QED BY <5>2
      <4>2. Week * (k + 1) <= Week * q
        BY <2>1, <2>3, <4>1
      <4>3. Week * (k + 1) = Week * k + Week
        BY <2>1
      <4> QED BY <2>1, <2>2, <3>1, <3>4, <4>2, <4>3
    <3> QED BY <2>1, <2>2, <3>3, <3>4
  <2> HIDE DEF d
  <2> QED BY <1>1, <2>4, <2>5, DaysInOrder
<1>4. CASE s \in Daily
  <2>1. u > t /\ CalculateNextRun(s, t) = IF today * Day + Hour > t THEN today * Day + Hour
                                                                   ELSE (today + 1) * Day + Hour
    BY <1>4 DEF Later, CalculateNextRun
  <2>2. today <= p
    <3>1. t <= u
      BY <2>1
    <3> QED BY <3>1, DivGrows
  <2>3. CASE today * Day + Hour > t
    BY <1>0, <1>1, <2>1, <2>2, <2>3, DaysInOrder
  <2>4. CASE ~(today * Day + Hour > t)
    <3>1. p # today
      <4> HIDE DEF p, today
      <4> QED BY <1>0, <1>1, <2>1, <2>4
    <3>2. today + 1 <= p /\ today + 1 \in Nat
      BY <1>0, <1>1, <2>2, <3>1
    <3>3. (today + 1) * Day + Hour <= u
      BY <1>1, <3>2, DaysInOrder
    <3> QED BY <2>1, <2>4, <3>3
  <2> QED BY <2>3, <2>4
<1> QED BY <1>2, <1>3, <1>4 DEF Full

(* As time goes by, fewer slots are later ones.                            *)
LEMMA InTimeStays ==
  ASSUME NEW t \in Nat, NEW s, NEW x, InTime(s, x, t)
  PROVE  InTime(s, x, t + 1)
<1> USE ConstantTypes
<1> DEFINE d == t \div Day
           e == (t + 1) \div Day
<1>1. d \in Nat /\ e \in Nat /\ d <= e
  <2>1. t + 1 \in Nat /\ t <= t + 1
    OBVIOUS
  <2> QED BY <2>1, DivMod, DivGrows
<1>2. d \div Month \in Nat /\ e \div Month \in Nat /\ d \div Month <= e \div Month
  BY <1>1, DivMod, DivGrows
<1>3. ASSUME NEW u \in Nat, Later(s, u, t + 1) PROVE Later(s, u, t)
  <2>1. u \div Day \in Nat /\ (u \div Day) \div Month \in Nat
    BY DivMod
  <2>2. CASE s \in Weekly
    BY <1>1, <1>3, <2>1, <2>2 DEF Later
  <2>3. CASE s \in Monthly
    BY <1>2, <1>3, <2>1, <2>3 DEF Later
  <2>4. CASE s \notin Weekly /\ s \notin Monthly
    BY <1>3, <2>4 DEF Later
  <2> QED BY <2>2, <2>3, <2>4
<1> QED BY <1>3 DEF InTime

-----------------------------------------------------------------------------
(* A message is a schedule and a number of tries.                          *)
LEMMA NoTaskType == NoTask \in Messages
BY ScheduleAssumptions DEF NoTask, Messages

(* A queue holds equal messages once, whatever is added and taken.         *)
LEMMA EnqueueTypes ==
  ASSUME TypeOK, NEW m \in Messages, Enqueue(m)
  PROVE  /\ queue' \in Seq(Messages)
         /\ \A i, j \in DOMAIN queue' : queue'[i] = queue'[j] => i = j
<1>1. CASE \E i \in DOMAIN queue : queue[i] = m
  BY <1>1 DEF Enqueue, TypeOK
<1>2. CASE ~\E i \in DOMAIN queue : queue[i] = m
  <2>1. queue' = Append(queue, m) /\ queue \in Seq(Messages)
    BY <1>2 DEF Enqueue, TypeOK
  <2>2. /\ queue' \in Seq(Messages) /\ DOMAIN queue = 1..Len(queue)
        /\ DOMAIN queue' = 1..(Len(queue) + 1) /\ Len(queue) \in Nat
        /\ \A i \in 1..Len(queue) : queue'[i] = queue[i]
        /\ queue'[Len(queue) + 1] = m
    BY <2>1
  <2>3. ASSUME NEW i \in DOMAIN queue', NEW j \in DOMAIN queue', queue'[i] = queue'[j], i # j
        PROVE  FALSE
    <3>1. CASE i \in DOMAIN queue /\ j \in DOMAIN queue
      BY <2>2, <2>3, <3>1 DEF TypeOK
    <3>2. CASE i \notin DOMAIN queue
      BY <1>2, <2>2, <2>3, <3>2
    <3>3. CASE j \notin DOMAIN queue
      BY <1>2, <2>2, <2>3, <3>3
    <3> QED BY <3>1, <3>2, <3>3
  <2> QED BY <2>2, <2>3
<1> QED BY <1>1, <1>2

(* What is left of the queue is a queue with no message twice.             *)
LEMMA TailTypes ==
  ASSUME TypeOK, queue # <<>>
  PROVE  /\ Tail(queue) \in Seq(Messages) /\ Head(queue) \in Messages
         /\ \A i, j \in DOMAIN Tail(queue) : Tail(queue)[i] = Tail(queue)[j] => i = j
<1>1. /\ queue \in Seq(Messages) /\ Len(queue) \in Nat \ {0}
      /\ Tail(queue) \in Seq(Messages) /\ Head(queue) \in Messages
      /\ DOMAIN queue = 1..Len(queue) /\ DOMAIN Tail(queue) = 1..(Len(queue) - 1)
      /\ \A i \in 1..(Len(queue) - 1) : Tail(queue)[i] = queue[i + 1]
  BY DEF TypeOK
<1>2. ASSUME NEW i \in DOMAIN Tail(queue), NEW j \in DOMAIN Tail(queue),
             Tail(queue)[i] = Tail(queue)[j]
      PROVE  i = j
  <2>1. i + 1 \in DOMAIN queue /\ j + 1 \in DOMAIN queue /\ queue[i + 1] = queue[j + 1]
    BY <1>1, <1>2
  <2>2. i + 1 = j + 1
    BY <2>1 DEF TypeOK
  <2> QED BY <1>1, <2>2
<1> QED BY <1>1, <1>2

(* What a task that ends leaves behind.                                    *)
LEMMA EndTypes ==
  ASSUME TypeOK, NEW w \in Workers, End(w)
  PROVE  /\ pc' \in [Workers -> {"idle", "backup", "next", "save"}]
         /\ task' \in [Workers -> Messages]
         /\ success' \in [Workers -> BOOLEAN]
         /\ instance' \in [Workers -> Rows]
BY NoTaskType DEF TypeOK, End, GoTo, Blank, Rows

(* A retried message is a message.                                         *)
LEMMA RetryTypes ==
  ASSUME TypeOK, NEW w \in Workers, Retry(w)
  PROVE  /\ queue' \in Seq(Messages)
         /\ \A i, j \in DOMAIN queue' : queue'[i] = queue'[j] => i = j
         /\ faults' \in 0..MaxFaults
<1>1. faults' \in 0..MaxFaults
  BY ConstantTypes DEF TypeOK, Retry, Fault
<1>2. CASE task[w].tries < MaxRetries
  <2>1. [task[w] EXCEPT !.tries = @ + 1] \in Messages
    <3>1. task[w] \in Messages
      BY DEF TypeOK
    <3>2. task[w].tries + 1 \in 0..MaxRetries
      BY <1>2, <3>1, ConstantTypes DEF Messages
    <3> QED BY <3>1, <3>2 DEF Messages
  <2>2. Enqueue([task[w] EXCEPT !.tries = @ + 1])
    BY <1>2 DEF Retry
  <2> QED BY <1>1, <2>1, <2>2, EnqueueTypes
<1>3. CASE ~(task[w].tries < MaxRetries)
  BY <1>1, <1>3 DEF Retry, TypeOK
<1> QED BY <1>2, <1>3

(* A row with the counters of another and a new time is a row.             *)
LEMMA CountTypes ==
  ASSUME NEW c \in Rows, NEW ok \in BOOLEAN, NEW t \in Nat
  PROVE  [Count(c, ok) EXCEPT !.nextRun = t] \in Rows
<1>1. CASE ok
  <2>1. Count(c, ok) = [c EXCEPT !.total = c.total + 1, !.good = c.good + 1]
    BY <1>1 DEF Count
  <2>2. c.total + 1 \in Nat /\ c.good + 1 \in Nat
    BY DEF Rows
  <2>3. Count(c, ok) \in Rows
    BY <2>1, <2>2 DEF Rows
  <2> QED BY <2>3 DEF Rows
<1>2. CASE ~ok
  <2>1. Count(c, ok) = [c EXCEPT !.total = c.total + 1, !.bad = c.bad + 1]
    BY <1>2 DEF Count
  <2>2. c.total + 1 \in Nat /\ c.bad + 1 \in Nat
    BY DEF Rows
  <2>3. Count(c, ok) \in Rows
    BY <2>1, <2>2 DEF Rows
  <2> QED BY <2>3 DEF Rows
<1> QED BY <1>1, <1>2

(* Counting a run keeps the counters' types.                               *)
LEMMA MadeTypes ==
  ASSUME NEW c \in Counts, NEW ok \in BOOLEAN
  PROVE  Count(c, ok) \in Counts
<1>1. c.total + 1 \in Nat /\ c.good + 1 \in Nat /\ c.bad + 1 \in Nat
  BY DEF Counts
<1> QED BY <1>1 DEF Count, Counts

(* The invariant holds initially.                                          *)
LEMMA ScheduleInit == Init => ScheduleInv
<1> SUFFICES ASSUME Init PROVE ScheduleInv
  OBVIOUS
<1>1. TypeOK
  <2>1. \A s \in Schedules : NewRow(s) \in Rows
    BY NextRunType DEF NewRow, Rows
  <2>2. queue \in Seq(Messages) /\ DOMAIN queue = {}
    BY DEF Init
  <2> QED BY <2>1, <2>2, NoTaskType, ConstantTypes DEF Init, TypeOK, Blank, Rows, Counts
<1>2. Punctual
  <2>1. ASSUME NEW s \in Full PROVE InTime(s, row[s].nextRun, now)
    <3>1. s \in Schedules /\ now = 0 /\ row[s].nextRun = CalculateNextRun(s, 0)
      BY DEF Init, NewRow, Full, Schedules
    <3> QED BY <3>1, NextRunInTime
  <2> QED BY <2>1 DEF Init, Punctual
<1>3. Counted
  BY DEF Init, Counted, UndisturbedIsCounted, Recording, NewRow
<1> QED BY <1>1, <1>2, <1>3 DEF ScheduleInv

(* Every action keeps the types.                                           *)
LEMMA TypeStep ==
  ASSUME ScheduleInv, [Next]_vars
  PROVE  TypeOK'
<1> USE DEF ScheduleInv, TypeOK
<1>1. ASSUME SelectDue
      PROVE  TypeOK'
  BY <1>1 DEF SelectDue, worker, trace
<1>2. ASSUME NEW s \in Schedules, Dispatch(s)
      PROVE  TypeOK'
  <2> DEFINE m == [schedule |-> s, tries |-> 0]
  <2>1. m \in Messages
    BY ConstantTypes DEF Messages
  <2>2. CASE Enqueue(m) /\ UNCHANGED faults
    <3>1. /\ queue' \in Seq(Messages)
          /\ \A i, j \in DOMAIN queue' : queue'[i] = queue'[j] => i = j
      BY <2>1, <2>2, EnqueueTypes
    <3> QED BY <1>2, <2>2, <3>1 DEF Dispatch, worker
  <2>3. CASE Fault /\ UNCHANGED queue
    BY <1>2, <2>3, ConstantTypes DEF Dispatch, Fault, worker
  <2>4. CASE UNCHANGED <<queue, faults>>
    BY <1>2, <2>4 DEF Dispatch, worker
  <2> QED BY <1>2, <2>2, <2>3, <2>4 DEF Dispatch
<1>3. ASSUME DispatcherCrash
      PROVE  TypeOK'
  BY <1>3, ConstantTypes DEF DispatcherCrash, Fault, worker
<1>4. ASSUME Tick
      PROVE  TypeOK'
  BY <1>4, ConstantTypes DEF Tick, worker, trace
<1>5. ASSUME NEW w \in Workers, Take(w)
      PROVE  TypeOK'
  BY <1>5, TailTypes DEF Take, GoTo, trace
<1>6. ASSUME NEW w \in Workers, NEW ok \in BOOLEAN, MakeBackup(w, ok)
      PROVE  TypeOK'
  <2>1. task[w].schedule \in Schedules
    BY <1>6 DEF MakeBackup, Full, Schedules
  <2>2. made' \in [Schedules -> Counts] /\ instance' \in [Workers -> Rows]
    <3>1. Count(made[task[w].schedule], ok) \in Counts
      BY <2>1, MadeTypes
    <3> QED BY <1>6, <2>1, <3>1 DEF MakeBackup
  <2>3. disturbed' \in SUBSET Schedules /\ faults' \in 0..MaxFaults
    BY <1>6, <2>1, ConstantTypes DEF MakeBackup, Fault
  <2>4. pc' \in [Workers -> {"idle", "backup", "next", "save"}] /\ success' \in [Workers -> BOOLEAN]
    BY <1>6 DEF MakeBackup, GoTo
  <2> QED BY <1>6, <2>2, <2>3, <2>4 DEF MakeBackup
<1>7. ASSUME NEW w \in Workers, MakeTenantBackup(w)
      PROVE  TypeOK'
  BY <1>7, EndTypes DEF MakeTenantBackup, trace
<1>8. ASSUME NEW w \in Workers, SaveNextRun(w)
      PROVE  TypeOK'
  <2> DEFINE s == task[w].schedule
             upcoming == CalculateNextRun(s, now)
  <2>1. s \in Schedules /\ now \in Nat
    BY ConstantTypes DEF Messages
  <2>2. upcoming \in Nat
    BY <2>1, NextRunType
  <2>3. [Count(instance[w], success[w]) EXCEPT !.nextRun = upcoming] \in Rows
    BY <2>2, CountTypes
  <2> HIDE DEF upcoming
  <2>4. row' \in [Schedules -> Rows]
    <3>1. row' = [row EXCEPT ![s].nextRun = upcoming]
      BY <1>8 DEF SaveNextRun, upcoming
    <3> QED BY <2>1, <2>2, <3>1 DEF Rows
  <2>5. instance' \in [Workers -> Rows]
    BY <1>8, <2>3 DEF SaveNextRun, upcoming
  <2> QED BY <1>8, <2>4, <2>5 DEF SaveNextRun, GoTo, trace
<1>9. ASSUME NEW w \in Workers, SaveCounts(w)
      PROVE  TypeOK'
  <2>1. row' \in [Schedules -> Rows]
    BY <1>9 DEF SaveCounts, Rows, Messages
  <2>2. /\ queue' \in Seq(Messages)
        /\ \A i, j \in DOMAIN queue' : queue'[i] = queue'[j] => i = j
        /\ faults' \in 0..MaxFaults
    BY <1>9, RetryTypes DEF SaveCounts
  <2> QED BY <1>9, <2>1, <2>2, EndTypes DEF SaveCounts
<1>10. ASSUME NEW w \in Workers, Raise(w)
      PROVE  TypeOK'
  <2>1. disturbed' \in SUBSET Schedules
    BY <1>10 DEF Raise, Interrupt, Messages
  <2> QED BY <1>10, <2>1, RetryTypes, EndTypes DEF Raise
<1>11. ASSUME NEW w \in Workers, Crash(w)
      PROVE  TypeOK'
  <2>1. disturbed' \in SUBSET Schedules
    BY <1>11 DEF Crash, Interrupt, Messages
  <2> QED BY <1>11, <2>1, EndTypes, ConstantTypes DEF Crash, Fault
<1>12. CASE UNCHANGED vars
  BY <1>12 DEF vars, worker, trace
<1> QED BY <1>1, <1>2, <1>3, <1>4, <1>5, <1>6, <1>7, <1>8, <1>9, <1>10, <1>11, <1>12
       DEF Next, Minute, Step

(* No action makes a schedule wait too long.                               *)
LEMMA PunctualStep ==
  ASSUME ScheduleInv, [Next]_vars
  PROVE  Punctual'
<1> USE DEF ScheduleInv, TypeOK, Punctual
<1>1. ASSUME SelectDue
      PROVE  Punctual'
  BY <1>1 DEF SelectDue, worker, trace
<1>2. ASSUME NEW s \in Schedules, Dispatch(s)
      PROVE  Punctual'
  BY <1>2 DEF Dispatch, Fault, Enqueue, worker
<1>3. ASSUME DispatcherCrash
      PROVE  Punctual'
  BY <1>3 DEF DispatcherCrash, Fault, worker
<1>4. ASSUME Tick
      PROVE  Punctual'
  <2>1. now \in Nat /\ now' = now + 1 /\ row' = row /\ pc' = pc /\ task' = task
        /\ instance' = instance
    BY <1>4, ConstantTypes DEF Tick, worker
  <2>2. ASSUME NEW s, NEW x, InTime(s, x, now) PROVE InTime(s, x, now')
    BY <2>1, <2>2, InTimeStays
  <2> QED BY <2>1, <2>2
<1>5. ASSUME NEW w \in Workers, Take(w)
      PROVE  Punctual'
  BY <1>5 DEF Take, GoTo, trace
<1>6. ASSUME NEW w \in Workers, NEW ok \in BOOLEAN, MakeBackup(w, ok)
      PROVE  Punctual'
  BY <1>6 DEF MakeBackup, GoTo, Fault, Recording
<1>7. ASSUME NEW w \in Workers, MakeTenantBackup(w)
      PROVE  Punctual'
  BY <1>7 DEF MakeTenantBackup, End, trace, GoTo
<1>8. ASSUME NEW w \in Workers, SaveNextRun(w)
      PROVE  Punctual'
  <2> DEFINE s == task[w].schedule
             upcoming == CalculateNextRun(s, now)
  <2>1. s \in Schedules /\ now \in Nat /\ now' = now /\ task' = task
    BY <1>8, ConstantTypes DEF SaveNextRun, Messages
  <2>2. s \in Full => InTime(s, upcoming, now)
    BY <2>1, NextRunInTime
  <2>3. \A t \in Schedules : row'[t].nextRun = IF t = s THEN upcoming ELSE row[t].nextRun
    BY <1>8, <2>1 DEF SaveNextRun, Rows
  <2>4. /\ \A v \in Workers \ {w} : pc'[v] = pc[v] /\ instance'[v] = instance[v]
        /\ instance'[w].nextRun = upcoming
    BY <1>8, <2>1 DEF SaveNextRun, GoTo, Count, Rows
  <2> HIDE DEF upcoming
  <2>5. \A t \in Full : InTime(t, row'[t].nextRun, now)
    BY <2>2, <2>3 DEF Full, Schedules
  <2>6. \A v \in Workers : (pc'[v] = "save" /\ task[v].schedule \in Full) =>
          InTime(task[v].schedule, instance'[v].nextRun, now)
    BY <2>2, <2>4
  <2> QED BY <2>1, <2>5, <2>6
<1>9. ASSUME NEW w \in Workers, SaveCounts(w)
      PROVE  Punctual'
  <2> DEFINE s == task[w].schedule
  <2>1. s \in Schedules /\ now' = now
    BY <1>9 DEF SaveCounts, Messages
  <2>2. \A t \in Schedules : row'[t].nextRun = IF t = s THEN instance[w].nextRun
                                                    ELSE row[t].nextRun
    BY <1>9, <2>1 DEF SaveCounts, Rows
  <2>3. s \in Full => InTime(s, instance[w].nextRun, now)
    BY <1>9 DEF SaveCounts
  <2>4. \A t \in Full : InTime(t, row'[t].nextRun, now)
    BY <2>2, <2>3 DEF Full, Schedules
  <2>5. /\ \A v \in Workers \ {w} : pc'[v] = pc[v] /\ instance'[v] = instance[v] /\ task'[v] = task[v]
        /\ pc'[w] = "idle"
    BY <1>9 DEF SaveCounts, End, GoTo
  <2>6. \A v \in Workers : (pc'[v] = "save" /\ task'[v].schedule \in Full) =>
          InTime(task'[v].schedule, instance'[v].nextRun, now)
    BY <2>5
  <2> QED BY <2>1, <2>4, <2>6
<1>10. ASSUME NEW w \in Workers, Raise(w)
      PROVE  Punctual'
  BY <1>10 DEF Raise, End, Retry, Interrupt, GoTo, Fault, Enqueue, Recording
<1>11. ASSUME NEW w \in Workers, Crash(w)
      PROVE  Punctual'
  BY <1>11 DEF Crash, End, Fault, Interrupt, GoTo, Recording
<1>12. CASE UNCHANGED vars
  BY <1>12 DEF vars, worker, trace
<1> QED BY <1>1, <1>2, <1>3, <1>4, <1>5, <1>6, <1>7, <1>8, <1>9, <1>10, <1>11, <1>12
       DEF Next, Minute, Step

(* No action loses count of an undisturbed record.                         *)
LEMMA CountedStep ==
  ASSUME ScheduleInv, [Next]_vars
  PROVE  Counted'
<1> USE DEF ScheduleInv, TypeOK, Counted, UndisturbedIsCounted, Records, Same
<1>1. ASSUME SelectDue
      PROVE  Counted'
  BY <1>1 DEF SelectDue, worker, trace, Recording
<1>2. ASSUME NEW s \in Schedules, Dispatch(s)
      PROVE  Counted'
  BY <1>2 DEF Dispatch, worker, Recording
<1>3. ASSUME DispatcherCrash
      PROVE  Counted'
  BY <1>3 DEF DispatcherCrash, worker, Recording
<1>4. ASSUME Tick
      PROVE  Counted'
  BY <1>4 DEF Tick, worker, trace, Recording
<1>5. ASSUME NEW w \in Workers, Take(w)
      PROVE  Counted'
  <2>1. /\ row' = row /\ made' = made /\ disturbed' = disturbed /\ w \notin Recording
        /\ \A v \in Workers \ {w} : task'[v] = task[v] /\ success'[v] = success[v]
                                   /\ instance'[v] = instance[v] /\ pc'[v] = pc[v]
    BY <1>5 DEF Take, GoTo, trace, Recording
  <2>2. Recording' = Recording
    BY <1>5 DEF Take, GoTo, trace, Recording
  <2>3. UndisturbedIsCounted'
    BY <2>1, <2>2 DEF Recording
  <2>4. ASSUME NEW v \in Recording, task'[v].schedule \notin disturbed
        PROVE  Records(v)' /\ task'[v] = task[v]
    <3>1. v # w /\ v \in Workers /\ task'[v] = task[v]
      BY <2>1 DEF Recording
    <3>2. Records(v)
      BY <2>4, <3>1
    <3> QED BY <2>1, <3>1, <3>2
  <2>5. \A v \in Recording : task'[v] = task[v]
    BY <2>1 DEF Recording
  <2> QED BY <2>1, <2>2, <2>3, <2>4, <2>5
<1>6. ASSUME NEW w \in Workers, NEW ok \in BOOLEAN, MakeBackup(w, ok)
      PROVE  Counted'
  <2> DEFINE s == task[w].schedule
  <2>1. /\ s \in Schedules /\ row' = row /\ task' = task /\ pc[w] = "backup"
        /\ pc' = [pc EXCEPT ![w] = "next"]
        /\ success' = [success EXCEPT ![w] = ok]
        /\ made' = [made EXCEPT ![s] = Count(made[s], ok)]
        /\ instance' = [instance EXCEPT ![w] = row[s]]
    BY <1>6 DEF MakeBackup, GoTo, Full, Schedules
  <2>2. Recording' = Recording \cup {w} /\ w \notin Recording
    BY <2>1 DEF Recording
  <2>3. CASE \E v \in Recording : task[v].schedule = s
    <3>1. disturbed' = disturbed \cup {s}
      BY <1>6, <2>3 DEF MakeBackup
    <3>2. \A t \in Schedules \ disturbed' : t # s /\ t \notin disturbed /\ made'[t] = made[t]
      BY <2>1, <3>1
    <3>3. UndisturbedIsCounted'
      BY <2>1, <2>2, <3>2
    <3>4. \A v \in Recording' : task'[v].schedule \notin disturbed' =>
            v \in Recording /\ v # w /\ task[v].schedule \notin disturbed
            /\ task[v].schedule # s /\ task[v].schedule \in Schedules
      BY <2>1, <2>2, <3>1 DEF Recording, Messages
    <3>5. \A v \in Recording' : task'[v].schedule \notin disturbed' => Records(v)'
      BY <2>1, <3>4 DEF Recording
    <3> QED BY <2>1, <3>3, <3>4, <3>5
  <2>4. CASE ~\E v \in Recording : task[v].schedule = s
    <3>1. disturbed' = disturbed
      BY <1>6, <2>4 DEF MakeBackup
    <3>2. UndisturbedIsCounted'
      BY <2>1, <2>2, <3>1
    <3>3. ASSUME s \notin disturbed PROVE Records(w)'
      <4>1. Same(row[s], made[s])
        BY <2>1, <2>4, <3>3
      <4>2. /\ made[s].total \in Nat /\ made[s].good \in Nat /\ made[s].bad \in Nat
        BY <2>1 DEF Counts
      <4>3. /\ made'[s].total = made[s].total + 1
            /\ made'[s].good = made[s].good + (IF ok THEN 1 ELSE 0)
            /\ made'[s].bad = made[s].bad + (IF ok THEN 0 ELSE 1)
        BY <2>1, <4>2 DEF Count, Counts
      <4>4. pc'[w] = "next" /\ instance'[w] = row[s] /\ success'[w] = ok
        BY <2>1
      <4> QED BY <2>1, <4>1, <4>2, <4>3, <4>4
    <3>4. ASSUME NEW v \in Recording, task[v].schedule \notin disturbed
          PROVE  Records(v)'
      <4>1. v # w /\ task[v].schedule # s /\ v \in Workers /\ task[v].schedule \in Schedules
        BY <2>2, <2>4 DEF Recording, Messages
      <4>2. /\ made'[task[v].schedule] = made[task[v].schedule] /\ pc'[v] = pc[v]
            /\ instance'[v] = instance[v] /\ success'[v] = success[v]
        BY <2>1, <4>1
      <4>3. Records(v)
        BY <3>4
      <4> QED BY <2>1, <4>2, <4>3
    <3>5. \A v \in Recording' : task'[v].schedule \notin disturbed' => Records(v)'
      BY <2>1, <2>2, <3>1, <3>3, <3>4
    <3>6. \A u, v \in Recording' :
            (task'[u].schedule = task'[v].schedule /\ task'[u].schedule \notin disturbed') => u = v
      BY <2>1, <2>2, <2>4, <3>1
    <3> QED BY <3>2, <3>5, <3>6
  <2> QED BY <2>3, <2>4
<1>7. ASSUME NEW w \in Workers, MakeTenantBackup(w)
      PROVE  Counted'
  <2>1. /\ row' = row /\ made' = made /\ disturbed' = disturbed /\ w \notin Recording
        /\ \A v \in Workers \ {w} : task'[v] = task[v] /\ success'[v] = success[v]
                                   /\ instance'[v] = instance[v] /\ pc'[v] = pc[v]
    BY <1>7 DEF MakeTenantBackup, End, GoTo, trace, Recording
  <2>2. Recording' = Recording
    BY <1>7 DEF MakeTenantBackup, End, GoTo, trace, Recording
  <2>3. UndisturbedIsCounted'
    BY <2>1, <2>2 DEF Recording
  <2>4. ASSUME NEW v \in Recording, task'[v].schedule \notin disturbed
        PROVE  Records(v)' /\ task'[v] = task[v]
    <3>1. v # w /\ v \in Workers /\ task'[v] = task[v]
      BY <2>1 DEF Recording
    <3>2. Records(v)
      BY <2>4, <3>1
    <3> QED BY <2>1, <3>1, <3>2
  <2>5. \A v \in Recording : task'[v] = task[v]
    BY <2>1 DEF Recording
  <2> QED BY <2>1, <2>2, <2>3, <2>4, <2>5
<1>8. ASSUME NEW w \in Workers, SaveNextRun(w)
      PROVE  Counted'
  <2> DEFINE s == task[w].schedule
             upcoming == CalculateNextRun(s, now)
  <2>1. /\ s \in Schedules /\ task' = task /\ success' = success /\ pc[w] = "next"
        /\ made' = made /\ disturbed' = disturbed /\ pc' = [pc EXCEPT ![w] = "save"]
        /\ row' = [row EXCEPT ![s].nextRun = upcoming]
        /\ instance' = [instance EXCEPT ![w] =
                          [Count(instance[w], success[w]) EXCEPT !.nextRun = upcoming]]
    BY <1>8 DEF SaveNextRun, GoTo, trace, Messages
  <2> HIDE DEF upcoming
  <2>2. Recording' = Recording /\ w \in Recording
    BY <2>1 DEF Recording
  <2>3. \A t \in Schedules : Same(row'[t], row[t])
    BY <2>1 DEF Rows
  <2>4. /\ instance'[w].total = instance[w].total + 1
        /\ instance'[w].good = instance[w].good + (IF success[w] THEN 1 ELSE 0)
        /\ instance'[w].bad = instance[w].bad + (IF success[w] THEN 0 ELSE 1)
    BY <2>1 DEF Count, Rows
  <2>5. UndisturbedIsCounted'
    BY <2>1, <2>2, <2>3
  <2>6. ASSUME NEW v \in Recording, task[v].schedule \notin disturbed
        PROVE  Records(v)'
    <3>1. Records(v) /\ task[v].schedule \in Schedules /\ v \in Workers
      BY <2>6 DEF Recording, Messages
    <3>2. CASE v = w
      BY <2>1, <2>3, <2>4, <3>1, <3>2
    <3>3. CASE v # w
      <4>1. pc'[v] = pc[v] /\ instance'[v] = instance[v]
        BY <2>1, <3>3
      <4> QED BY <2>1, <2>3, <3>1, <4>1
    <3> QED BY <3>2, <3>3
  <2> QED BY <2>1, <2>2, <2>5, <2>6
<1>9. ASSUME NEW w \in Workers, SaveCounts(w)
      PROVE  Counted'
  <2> DEFINE s == task[w].schedule
  <2>1. /\ s \in Schedules /\ pc[w] = "save" /\ made' = made /\ disturbed' = disturbed
        /\ pc' = [pc EXCEPT ![w] = "idle"]
        /\ \A v \in Workers \ {w} : task'[v] = task[v] /\ success'[v] = success[v]
                                   /\ instance'[v] = instance[v] /\ pc'[v] = pc[v]
    BY <1>9 DEF SaveCounts, End, GoTo, Messages
  <2>2. Recording' = Recording \ {w} /\ w \in Recording
    BY <2>1 DEF Recording
  <2>3. /\ \A t \in Schedules \ {s} : row'[t] = row[t]
        /\ row'[s].total = instance[w].total
        /\ row'[s].good = IF success[w] THEN instance[w].good ELSE row[s].good
        /\ row'[s].bad = IF success[w] THEN row[s].bad ELSE instance[w].bad
    BY <1>9, <2>1 DEF SaveCounts, Rows
  <2>4. ASSUME s \notin disturbed PROVE Same(row'[s], made[s])
    <3>1. Records(w) /\ Same(instance[w], made[s])
      BY <2>1, <2>2, <2>4
    <3>2. row[s].good \in Nat /\ row[s].bad \in Nat
      BY <2>1 DEF Rows
    <3> QED BY <2>3, <3>1, <3>2
  <2>5. UndisturbedIsCounted'
    BY <2>1, <2>2, <2>3, <2>4 DEF Recording
  <2>6. ASSUME NEW v \in Recording', task'[v].schedule \notin disturbed
        PROVE  Records(v)' /\ task'[v] = task[v] /\ v \in Recording
    <3>1. v \in Recording /\ v # w /\ v \in Workers /\ task'[v] = task[v]
      BY <2>1, <2>2 DEF Recording
    <3>2. Records(v) /\ task[v].schedule # s /\ task[v].schedule \in Schedules
      BY <2>2, <2>6, <3>1 DEF Messages
    <3> QED BY <2>1, <2>3, <3>1, <3>2
  <2> QED BY <2>1, <2>5, <2>6
<1>10. ASSUME NEW w \in Workers, Raise(w)
      PROVE  Counted'
  <2>1. /\ row' = row /\ made' = made /\ pc' = [pc EXCEPT ![w] = "idle"]
        /\ disturbed' = disturbed \cup (IF w \in Recording THEN {task[w].schedule} ELSE {})
        /\ \A v \in Workers \ {w} : task'[v] = task[v] /\ success'[v] = success[v]
                                   /\ instance'[v] = instance[v] /\ pc'[v] = pc[v]
    BY <1>10 DEF Raise, End, GoTo, Interrupt
  <2>2. Recording' = Recording \ {w}
    BY <2>1 DEF Recording
  <2>3. UndisturbedIsCounted'
    BY <2>1, <2>2 DEF Recording
  <2>4. ASSUME NEW v \in Recording', task'[v].schedule \notin disturbed'
        PROVE  Records(v)' /\ task'[v] = task[v] /\ v \in Recording
    <3>1. v \in Recording /\ v # w /\ v \in Workers /\ task'[v] = task[v]
      BY <2>1, <2>2 DEF Recording
    <3>2. Records(v)
      BY <2>1, <2>4, <3>1
    <3> QED BY <2>1, <3>1, <3>2
  <2> QED BY <2>1, <2>3, <2>4
<1>11. ASSUME NEW w \in Workers, Crash(w)
      PROVE  Counted'
  <2>1. /\ row' = row /\ made' = made /\ pc' = [pc EXCEPT ![w] = "idle"]
        /\ disturbed' = disturbed \cup (IF w \in Recording THEN {task[w].schedule} ELSE {})
        /\ \A v \in Workers \ {w} : task'[v] = task[v] /\ success'[v] = success[v]
                                   /\ instance'[v] = instance[v] /\ pc'[v] = pc[v]
    BY <1>11 DEF Crash, End, GoTo, Interrupt
  <2>2. Recording' = Recording \ {w}
    BY <2>1 DEF Recording
  <2>3. UndisturbedIsCounted'
    BY <2>1, <2>2 DEF Recording
  <2>4. ASSUME NEW v \in Recording', task'[v].schedule \notin disturbed'
        PROVE  Records(v)' /\ task'[v] = task[v] /\ v \in Recording
    <3>1. v \in Recording /\ v # w /\ v \in Workers /\ task'[v] = task[v]
      BY <2>1, <2>2 DEF Recording
    <3>2. Records(v)
      BY <2>1, <2>4, <3>1
    <3> QED BY <2>1, <3>1, <3>2
  <2> QED BY <2>1, <2>3, <2>4
<1>12. CASE UNCHANGED vars
  BY <1>12 DEF vars, worker, trace, Recording
<1> QED BY <1>1, <1>2, <1>3, <1>4, <1>5, <1>6, <1>7, <1>8, <1>9, <1>10, <1>11, <1>12
       DEF Next, Minute, Step


(* The invariant is inductive, and holds in every reachable state.         *)
THEOREM ScheduleInvariant == Spec => []ScheduleInv
<1>1. Init => ScheduleInv
  BY ScheduleInit
<1>2. ScheduleInv /\ [Next]_vars => ScheduleInv'
  BY TypeStep, PunctualStep, CountedStep DEF ScheduleInv
<1> QED BY <1>1, <1>2, PTL DEF Spec

(* The schedules keep their types, and the queue holds a message once.     *)
THEOREM ScheduleTypes == Spec => []TypeOK
BY ScheduleInvariant, PTL DEF ScheduleInv

(* Whatever stale instances record_run saves, a daily schedule passes over *)
(* no slot, a weekly one at most a slot of the same day, a monthly one at  *)
(* most a slot of the same month.                                          *)
THEOREM LaterSlotsAreKept == Spec => []LaterSlotIsKept
<1>1. ScheduleInv => LaterSlotIsKept
  <2> SUFFICES ASSUME ScheduleInv, NEW s \in Full, NEW u \in (now + 1)..(now + 2 * Period(s)),
                      Slot(s, u), Later(s, u, now)
               PROVE  row[s].nextRun <= u
    BY DEF LaterSlotIsKept
  <2>1. now \in Nat /\ InTime(s, row[s].nextRun, now)
    BY ConstantTypes DEF ScheduleInv, TypeOK, Punctual
  <2>2. u \in Nat
    BY <2>1
  <2> QED BY <2>1, <2>2 DEF InTime
<1> QED BY <1>1, ScheduleInvariant, PTL

(* The counters of record_run count the backups made, unless records of    *)
(* the schedule have overlapped or were broken off.                        *)
THEOREM UndisturbedRunsAreCounted == Spec => []UndisturbedIsCounted
<1>1. ScheduleInv => UndisturbedIsCounted
  BY DEF ScheduleInv, Counted
<1> QED BY <1>1, ScheduleInvariant, PTL
=============================================================================
