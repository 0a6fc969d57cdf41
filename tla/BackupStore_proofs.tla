------------------------ MODULE BackupStore_proofs ------------------------
(***************************************************************************)
(* Proofs about BackupStore for any number of rows, workers, failed calls  *)
(* and crashes: a completed backup is kept until it expires                *)
(* (CompletedIsKept), a backup is condemned only when a copy was damaged   *)
(* (CorruptedWasDamaged), what is removed stays so (RemovedIsFinal), and   *)
(* each copy without a row is the price of a failed call                   *)
(* (OrphansAreFaults).                                                     *)
(***************************************************************************)
EXTENDS BackupStore, FiniteSetTheorems, TLAPS

Making    == {"start", "upload", "complete", "record", "expire"}
Verifying == {"download", "judge", "flag"}
Removing  == {"mark", "drop"}
Ended     == {"completed", "corrupted", "expired", "gone"}

(* The row a task is making has the status the task gave it last, is not   *)
(* yet to be verified and cannot be removed.                               *)
MakerOf(w) ==
  pc[w] \in Making =>
    /\ backup[w] \in Backups
    /\ expiry[backup[w]] = "never"
    /\ backup[w] \notin toVerify
    /\ pc[w] = "start" => status[backup[w]] = "pending"
    /\ pc[w] \in {"upload", "complete"} => status[backup[w]] = "in_progress"
    /\ pc[w] \in {"record", "expire"} => status[backup[w]] = "completed"
    /\ pc[w] \in {"complete", "record", "expire"} => copy[backup[w]] # NoCopy

VerifierOf(w) ==
  pc[w] \in Verifying =>
    /\ backup[w] \in Backups
    /\ status[backup[w]] \in Ended
    /\ pc[w] = "judge" /\ content[w] = "bad" => backup[w] \in damaged
    /\ pc[w] = "flag" => backup[w] \in damaged

CleanerOf(w) ==
  /\ \A b \in todo[w] : expiry[b] = "past"
  /\ pc[w] \in Removing => backup[w] \in Backups /\ expiry[backup[w]] = "past"

Tasks == \A w \in Workers : MakerOf(w) /\ VerifierOf(w) /\ CleanerOf(w)

Alone ==
  \A v, w \in Workers :
    v # w /\ pc[v] \in Making /\ pc[w] \in Making \cup Verifying => backup[v] # backup[w]

RowsRight ==
  /\ \A b \in Backups : status[b] = "none" => expiry[b] = "never"
  /\ \A b \in Backups : status[b] \in {"expired", "gone"} => expiry[b] = "past"
  /\ \A b \in toVerify : status[b] \in Ended
  /\ \A b \in Backups, k \in Backends : copy[b][k] = "bad" => b \in damaged

StoreInv == TypeOK /\ Tasks /\ Alone /\ RowsRight /\ CompletedIsKept /\ CorruptedWasDamaged
-----------------------------------------------------------------------------
(* The sorts of the constants.                                             *)
LEMMA ConstantTypes ==
  MaxFaults \in Nat /\ MaxCrashes \in Nat /\ None \notin Backups
BY StoreAssumptions

USE ConstantTypes

(* The number of backends that fail is a number.                           *)
LEMMA FailedBackends ==
  ASSUME NEW S \in SUBSET Backends
  PROVE  Cardinality(Backends \ S) \in Nat
<1>1. IsFiniteSet(Backends)
  <2>1. IsFiniteSet({} \cup {"primary"})
    BY FS_EmptySet, FS_AddElement
  <2>2. IsFiniteSet(({} \cup {"primary"}) \cup {"secondary"})
    BY <2>1, FS_AddElement
  <2>3. Backends = ({} \cup {"primary"}) \cup {"secondary"}
    BY DEF Backends
  <2> QED BY <2>2, <2>3
<1> QED BY <1>1, FS_Difference, FS_CardinalityType

(* Faults stay within their bound.                                         *)
LEMMA FailType ==
  ASSUME NEW n \in Nat, faults \in 0..MaxFaults, Fail(n)
  PROVE  faults' \in 0..MaxFaults
BY DEF Fail

(* The invariant holds initially.                                          *)
LEMMA StoreInit == Init => StoreInv
<1> SUFFICES ASSUME Init PROVE StoreInv
  OBVIOUS
<1>1. TypeOK
  BY DEF Init, TypeOK, Steps, Kinds, NoCopy
<1>2. Tasks /\ Alone
  BY DEF Init, Tasks, MakerOf, VerifierOf, CleanerOf, Alone, Making, Verifying, Removing
<1>3. RowsRight /\ CompletedIsKept /\ CorruptedWasDamaged
  BY DEF Init, RowsRight, CompletedIsKept, CorruptedWasDamaged, NoCopy
<1> QED BY <1>1, <1>2, <1>3 DEF StoreInv

(* Types.                                                                  *)
LEMMA TypeStep ==
  ASSUME StoreInv, [Next]_vars
  PROVE  TypeOK'
<1> USE DEF StoreInv, TypeOK, Tasks, MakerOf, VerifierOf, CleanerOf,
            Making, Verifying, Removing, Ended, Steps, Kinds
<1>1. ASSUME NEW w \in Workers, NEW b \in Backups, NEW k \in Kinds, BeginBackup(w, b, k)
      PROVE  TypeOK'
  BY <1>1 DEF BeginBackup, GoTo, SetStatus, trace
<1>2. ASSUME NEW w \in Workers, NEW b \in Backups, BeginSnapshot(w, b)
      PROVE  TypeOK'
  BY <1>2 DEF BeginSnapshot, GoTo, SetStatus, trace
<1>3. ASSUME NEW w \in Workers, NEW b \in Backups, CreateTenantRow(w, b)
      PROVE  TypeOK'
  BY <1>3 DEF CreateTenantRow, GoTo, SetStatus, trace
<1>4. ASSUME NEW w \in Workers, MarkStarted(w)
      PROVE  TypeOK'
  BY <1>4 DEF MarkStarted, GoTo, SetStatus, task, trace
<1>5. ASSUME NEW w \in Workers, NEW S \in SUBSET Backends, Upload(w, S)
      PROVE  TypeOK'
  <2>1. faults' \in 0..MaxFaults
    BY <1>5, FailedBackends, FailType DEF Upload
  <2>2. [k \in Backends |-> IF k \in S THEN "good" ELSE "none"]
          \in [Backends -> {"none", "good", "bad"}]
    OBVIOUS
  <2>3. copy' \in [Backups -> [Backends -> {"none", "good", "bad"}]]
    BY <1>5, <2>2 DEF Upload
  <2> QED BY <1>5, <2>1, <2>3 DEF Upload, GoTo, task
<1>6. ASSUME NEW w \in Workers, MarkCompleted(w)
      PROVE  TypeOK'
  BY <1>6 DEF MarkCompleted, GoTo, SetStatus, task, trace
<1>7. ASSUME NEW w \in Workers, MarkFailed(w)
      PROVE  TypeOK'
  BY <1>7 DEF MarkFailed, SetStatus, End, Fail, GoTo
<1>8. ASSUME NEW w \in Workers, Record(w)
      PROVE  TypeOK'
  <2>1. toVerify' \in SUBSET Backups
    BY <1>8 DEF Record
  <2>2. CASE End(w)
    BY <1>8, <2>1, <2>2 DEF Record, End, GoTo, trace
  <2>3. CASE GoTo(w, "expire") /\ UNCHANGED task
    BY <1>8, <2>1, <2>3 DEF Record, GoTo, task, trace
  <2> QED BY <1>8, <2>2, <2>3 DEF Record
<1>9. ASSUME NEW w \in Workers, SetExpiry(w)
      PROVE  TypeOK'
  BY <1>9 DEF SetExpiry, End, trace, GoTo
<1>10. ASSUME NEW w \in Workers, Raise(w)
      PROVE  TypeOK'
  BY <1>10 DEF Raise, End, Fail, store, GoTo
<1>11. ASSUME NEW w \in Workers, NEW b \in Backups, BeginVerify(w, b)
      PROVE  TypeOK'
  BY <1>11 DEF BeginVerify, GoTo, HasRow, trace
<1>12. ASSUME NEW w \in Workers, NEW k \in Backends, Download(w, k)
      PROVE  TypeOK'
  BY <1>12 DEF Download, GoTo, Fail, store
<1>13. ASSUME NEW w \in Workers, Judge(w)
      PROVE  TypeOK'
  BY <1>13 DEF Judge, GoTo, End, store, task, trace
<1>14. ASSUME NEW w \in Workers, MarkCorrupted(w)
      PROVE  TypeOK'
  BY <1>14 DEF MarkCorrupted, SetStatus, End, HasRow, trace, GoTo
<1>15. ASSUME NEW w \in Workers, BeginCleanup(w)
      PROVE  TypeOK'
  BY <1>15 DEF BeginCleanup, GoTo, Removable, store, trace
<1>16. ASSUME NEW w \in Workers, NEW b \in Backups, NEW S \in SUBSET Backends, DeleteFile(w, b, S)
      PROVE  TypeOK'
  <2>1. faults' \in 0..MaxFaults
    BY <1>16, FailedBackends, FailType DEF DeleteFile
  <2>2. [k \in Backends |-> IF k \in S THEN "none" ELSE copy[b][k]]
          \in [Backends -> {"none", "good", "bad"}]
    OBVIOUS
  <2>3. copy' \in [Backups -> [Backends -> {"none", "good", "bad"}]]
    BY <1>16, <2>2 DEF DeleteFile
  <2>4. todo' \in [Workers -> SUBSET Backups]
    BY <1>16 DEF DeleteFile
  <2>5. backup' \in [Workers -> Backups \cup {None}] /\ pc' \in [Workers -> Steps]
    <3>1. CASE backup' = [backup EXCEPT ![w] = b] /\ GoTo(w, "mark")
      BY <3>1 DEF GoTo
    <3>2. CASE UNCHANGED <<backup, pc>>
      BY <3>2
    <3> QED BY <1>16, <3>1, <3>2 DEF DeleteFile
  <2> QED BY <1>16, <2>1, <2>3, <2>4, <2>5 DEF DeleteFile
<1>17. ASSUME NEW w \in Workers, MarkExpired(w)
      PROVE  TypeOK'
  BY <1>17 DEF MarkExpired, GoTo, SetStatus, HasRow, task, trace
<1>18. ASSUME NEW w \in Workers, DropRow(w)
      PROVE  TypeOK'
  BY <1>18 DEF DropRow, GoTo, SetStatus, trace
<1>19. ASSUME NEW w \in Workers, CleanupFails(w)
      PROVE  TypeOK'
  BY <1>19 DEF CleanupFails, GoTo, Fail, store
<1>20. ASSUME NEW w \in Workers, EndCleanup(w)
      PROVE  TypeOK'
  BY <1>20 DEF EndCleanup, End, store, trace, GoTo
<1>21. ASSUME NEW w \in Workers, Crash(w)
      PROVE  TypeOK'
  BY <1>21 DEF Crash, End, store, GoTo
<1>22. ASSUME NEW b \in Backups, Expire(b)
      PROVE  TypeOK'
  BY <1>22 DEF Expire, task, trace
<1>23. ASSUME NEW b \in Backups, NEW k \in Backends, Damage(b, k)
      PROVE  TypeOK'
  BY <1>23 DEF Damage, Fail, task
<1>24. CASE UNCHANGED vars
  BY <1>24 DEF vars, store, task, trace
<1> QED
  BY <1>1, <1>2, <1>3, <1>4, <1>5, <1>6, <1>7, <1>8, <1>9, <1>10, <1>11, <1>12,
     <1>13, <1>14, <1>15, <1>16, <1>17, <1>18, <1>19, <1>20, <1>21, <1>22, <1>23, <1>24 DEF Next, Step

(* A row is made by one task, and verified only afterwards.                *)
LEMMA AloneStep ==
  ASSUME StoreInv, [Next]_vars
  PROVE  Alone'
<1> USE DEF StoreInv, TypeOK, Alone, RowsRight, Tasks, MakerOf, VerifierOf, Making, Verifying, Ended
<1>1. ASSUME NEW w \in Workers, NEW b \in Backups, NEW k \in Kinds, BeginBackup(w, b, k)
      PROVE  Alone'
  BY <1>1 DEF BeginBackup, GoTo, SetStatus, trace
<1>2. ASSUME NEW w \in Workers, NEW b \in Backups, BeginSnapshot(w, b)
      PROVE  Alone'
  BY <1>2 DEF BeginSnapshot, GoTo, SetStatus, trace
<1>3. ASSUME NEW w \in Workers, NEW b \in Backups, CreateTenantRow(w, b)
      PROVE  Alone'
  BY <1>3 DEF CreateTenantRow, GoTo, SetStatus, trace
<1>4. ASSUME NEW w \in Workers, MarkStarted(w)
      PROVE  Alone'
  BY <1>4 DEF MarkStarted, GoTo, SetStatus, task, trace
<1>5. ASSUME NEW w \in Workers, NEW S \in SUBSET Backends, Upload(w, S)
      PROVE  Alone'
  BY <1>5 DEF Upload, GoTo, task
<1>6. ASSUME NEW w \in Workers, MarkCompleted(w)
      PROVE  Alone'
  BY <1>6 DEF MarkCompleted, GoTo, SetStatus, task, trace
<1>7. ASSUME NEW w \in Workers, MarkFailed(w)
      PROVE  Alone'
  BY <1>7 DEF MarkFailed, SetStatus, End, GoTo
<1>8. ASSUME NEW w \in Workers, Record(w)
      PROVE  Alone'
  BY <1>8 DEF Record, GoTo, End, task, trace
<1>9. ASSUME NEW w \in Workers, SetExpiry(w)
      PROVE  Alone'
  BY <1>9 DEF SetExpiry, End, trace, GoTo
<1>10. ASSUME NEW w \in Workers, Raise(w)
      PROVE  Alone'
  BY <1>10 DEF Raise, End, store, GoTo
<1>11. ASSUME NEW w \in Workers, NEW b \in Backups, BeginVerify(w, b)
      PROVE  Alone'
  BY <1>11 DEF BeginVerify, GoTo, HasRow, trace
<1>12. ASSUME NEW w \in Workers, NEW k \in Backends, Download(w, k)
      PROVE  Alone'
  BY <1>12 DEF Download, GoTo, store
<1>13. ASSUME NEW w \in Workers, Judge(w)
      PROVE  Alone'
  BY <1>13 DEF Judge, GoTo, End, store, task, trace
<1>14. ASSUME NEW w \in Workers, MarkCorrupted(w)
      PROVE  Alone'
  BY <1>14 DEF MarkCorrupted, SetStatus, End, HasRow, trace, GoTo
<1>15. ASSUME NEW w \in Workers, BeginCleanup(w)
      PROVE  Alone'
  BY <1>15 DEF BeginCleanup, GoTo, Removable, store, trace
<1>16. ASSUME NEW w \in Workers, NEW b \in Backups, NEW S \in SUBSET Backends, DeleteFile(w, b, S)
      PROVE  Alone'
  BY <1>16 DEF DeleteFile, GoTo
<1>17. ASSUME NEW w \in Workers, MarkExpired(w)
      PROVE  Alone'
  BY <1>17 DEF MarkExpired, GoTo, SetStatus, HasRow, task, trace
<1>18. ASSUME NEW w \in Workers, DropRow(w)
      PROVE  Alone'
  BY <1>18 DEF DropRow, GoTo, SetStatus, trace
<1>19. ASSUME NEW w \in Workers, CleanupFails(w)
      PROVE  Alone'
  BY <1>19 DEF CleanupFails, GoTo, store
<1>20. ASSUME NEW w \in Workers, EndCleanup(w)
      PROVE  Alone'
  BY <1>20 DEF EndCleanup, End, store, trace, GoTo
<1>21. ASSUME NEW w \in Workers, Crash(w)
      PROVE  Alone'
  BY <1>21 DEF Crash, End, store, GoTo
<1>22. ASSUME NEW b \in Backups, Expire(b)
      PROVE  Alone'
  BY <1>22 DEF Expire, task, trace
<1>23. ASSUME NEW b \in Backups, NEW k \in Backends, Damage(b, k)
      PROVE  Alone'
  BY <1>23 DEF Damage, task
<1>24. CASE UNCHANGED vars
  BY <1>24 DEF vars, store, task, trace
<1> QED
  BY <1>1, <1>2, <1>3, <1>4, <1>5, <1>6, <1>7, <1>8, <1>9, <1>10, <1>11, <1>12,
     <1>13, <1>14, <1>15, <1>16, <1>17, <1>18, <1>19, <1>20, <1>21, <1>22, <1>23, <1>24 DEF Next, Step

(* What a task has found or done of its row still holds.                   *)
LEMMA TasksStep ==
  ASSUME StoreInv, [Next]_vars
  PROVE  Tasks'
<1> USE DEF StoreInv, TypeOK, Alone, RowsRight, Tasks, MakerOf, VerifierOf, CleanerOf,
            Making, Verifying, Removing, Ended, NoCopy
<1>1. ASSUME NEW w \in Workers, NEW b \in Backups, NEW k \in Kinds, BeginBackup(w, b, k)
      PROVE  Tasks'
  BY <1>1 DEF BeginBackup, GoTo, SetStatus, trace
<1>2. ASSUME NEW w \in Workers, NEW b \in Backups, BeginSnapshot(w, b)
      PROVE  Tasks'
  BY <1>2 DEF BeginSnapshot, GoTo, SetStatus, trace
<1>3. ASSUME NEW w \in Workers, NEW b \in Backups, CreateTenantRow(w, b)
      PROVE  Tasks'
  <2>1. /\ pc[w] = "create" /\ status[b] = "none"
        /\ status' = [status EXCEPT ![b] = "pending"]
        /\ backup' = [backup EXCEPT ![w] = b] /\ pc' = [pc EXCEPT ![w] = "start"]
        /\ UNCHANGED <<expiry, copy, toVerify, todo, content, damaged>>
    BY <1>3 DEF CreateTenantRow, GoTo, SetStatus, trace
  <2>2. /\ expiry[b] = "never" /\ b \notin toVerify
        /\ \A v \in Workers : pc[v] \in Making \cup Verifying /\ v # w /\ pc[v] # "create"
             => backup[v] # b \/ pc[v] \in Making
    BY <2>1
  <2>3. ASSUME NEW v \in Workers PROVE MakerOf(v)' /\ VerifierOf(v)' /\ CleanerOf(v)'
    <3>1. CASE v = w
      BY <2>1, <2>2, <3>1
    <3>2. CASE v # w
      BY <2>1, <2>2, <3>2
    <3> QED BY <3>1, <3>2
  <2> QED BY <2>3
<1>4. ASSUME NEW w \in Workers, MarkStarted(w)
      PROVE  Tasks'
  BY <1>4 DEF MarkStarted, GoTo, SetStatus, task, trace
<1>5. ASSUME NEW w \in Workers, NEW S \in SUBSET Backends, Upload(w, S)
      PROVE  Tasks'
  BY <1>5 DEF Upload, GoTo, task
<1>6. ASSUME NEW w \in Workers, MarkCompleted(w)
      PROVE  Tasks'
  BY <1>6 DEF MarkCompleted, GoTo, SetStatus, task, trace
<1>7. ASSUME NEW w \in Workers, MarkFailed(w)
      PROVE  Tasks'
  BY <1>7 DEF MarkFailed, SetStatus, End, GoTo
<1>8. ASSUME NEW w \in Workers, Record(w)
      PROVE  Tasks'
  BY <1>8 DEF Record, GoTo, End, task, trace
<1>9. ASSUME NEW w \in Workers, SetExpiry(w)
      PROVE  Tasks'
  BY <1>9 DEF SetExpiry, End, trace, GoTo
<1>10. ASSUME NEW w \in Workers, Raise(w)
      PROVE  Tasks'
  BY <1>10 DEF Raise, End, store, GoTo
<1>11. ASSUME NEW w \in Workers, NEW b \in Backups, BeginVerify(w, b)
      PROVE  Tasks'
  BY <1>11 DEF BeginVerify, GoTo, HasRow, trace
<1>12. ASSUME NEW w \in Workers, NEW k \in Backends, Download(w, k)
      PROVE  Tasks'
  BY <1>12 DEF Download, GoTo, store
<1>13. ASSUME NEW w \in Workers, Judge(w)
      PROVE  Tasks'
  BY <1>13 DEF Judge, GoTo, End, store, task, trace
<1>14. ASSUME NEW w \in Workers, MarkCorrupted(w)
      PROVE  Tasks'
  BY <1>14 DEF MarkCorrupted, SetStatus, End, HasRow, trace, GoTo
<1>15. ASSUME NEW w \in Workers, BeginCleanup(w)
      PROVE  Tasks'
  BY <1>15 DEF BeginCleanup, GoTo, Removable, store, trace
<1>16. ASSUME NEW w \in Workers, NEW b \in Backups, NEW S \in SUBSET Backends, DeleteFile(w, b, S)
      PROVE  Tasks'
  BY <1>16 DEF DeleteFile, GoTo
<1>17. ASSUME NEW w \in Workers, MarkExpired(w)
      PROVE  Tasks'
  BY <1>17 DEF MarkExpired, GoTo, SetStatus, HasRow, task, trace
<1>18. ASSUME NEW w \in Workers, DropRow(w)
      PROVE  Tasks'
  BY <1>18 DEF DropRow, GoTo, SetStatus, trace
<1>19. ASSUME NEW w \in Workers, CleanupFails(w)
      PROVE  Tasks'
  BY <1>19 DEF CleanupFails, GoTo, store
<1>20. ASSUME NEW w \in Workers, EndCleanup(w)
      PROVE  Tasks'
  BY <1>20 DEF EndCleanup, End, store, trace, GoTo
<1>21. ASSUME NEW w \in Workers, Crash(w)
      PROVE  Tasks'
  BY <1>21 DEF Crash, End, store, GoTo
<1>22. ASSUME NEW b \in Backups, Expire(b)
      PROVE  Tasks'
  BY <1>22 DEF Expire, task, trace
<1>23. ASSUME NEW b \in Backups, NEW k \in Backends, Damage(b, k)
      PROVE  Tasks'
  BY <1>23 DEF Damage, task
<1>24. CASE UNCHANGED vars
  BY <1>24 DEF vars, store, task, trace
<1> QED
  BY <1>1, <1>2, <1>3, <1>4, <1>5, <1>6, <1>7, <1>8, <1>9, <1>10, <1>11, <1>12,
     <1>13, <1>14, <1>15, <1>16, <1>17, <1>18, <1>19, <1>20, <1>21, <1>22, <1>23, <1>24 DEF Next, Step

(* What the rows and the copies promise the tasks.                         *)
LEMMA RowsStep ==
  ASSUME StoreInv, [Next]_vars
  PROVE  RowsRight'
<1> USE DEF StoreInv, TypeOK, RowsRight, Tasks, MakerOf, VerifierOf, CleanerOf,
            Making, Verifying, Removing, Ended
<1>1. ASSUME NEW w \in Workers, NEW b \in Backups, NEW k \in Kinds, BeginBackup(w, b, k)
      PROVE  RowsRight'
  BY <1>1 DEF BeginBackup, GoTo, SetStatus, trace
<1>2. ASSUME NEW w \in Workers, NEW b \in Backups, BeginSnapshot(w, b)
      PROVE  RowsRight'
  BY <1>2 DEF BeginSnapshot, GoTo, SetStatus, trace
<1>3. ASSUME NEW w \in Workers, NEW b \in Backups, CreateTenantRow(w, b)
      PROVE  RowsRight'
  BY <1>3 DEF CreateTenantRow, GoTo, SetStatus, trace
<1>4. ASSUME NEW w \in Workers, MarkStarted(w)
      PROVE  RowsRight'
  BY <1>4 DEF MarkStarted, GoTo, SetStatus, task, trace
<1>5. ASSUME NEW w \in Workers, NEW S \in SUBSET Backends, Upload(w, S)
      PROVE  RowsRight'
  BY <1>5 DEF Upload, GoTo, task
<1>6. ASSUME NEW w \in Workers, MarkCompleted(w)
      PROVE  RowsRight'
  BY <1>6 DEF MarkCompleted, GoTo, SetStatus, task, trace
<1>7. ASSUME NEW w \in Workers, MarkFailed(w)
      PROVE  RowsRight'
  BY <1>7 DEF MarkFailed, SetStatus, End, GoTo
<1>8. ASSUME NEW w \in Workers, Record(w)
      PROVE  RowsRight'
  BY <1>8 DEF Record, GoTo, End, task, trace
<1>9. ASSUME NEW w \in Workers, SetExpiry(w)
      PROVE  RowsRight'
  BY <1>9 DEF SetExpiry, End, trace, GoTo
<1>10. ASSUME NEW w \in Workers, Raise(w)
      PROVE  RowsRight'
  BY <1>10 DEF Raise, End, store, GoTo
<1>11. ASSUME NEW w \in Workers, NEW b \in Backups, BeginVerify(w, b)
      PROVE  RowsRight'
  BY <1>11 DEF BeginVerify, GoTo, HasRow, trace
<1>12. ASSUME NEW w \in Workers, NEW k \in Backends, Download(w, k)
      PROVE  RowsRight'
  BY <1>12 DEF Download, GoTo, store
<1>13. ASSUME NEW w \in Workers, Judge(w)
      PROVE  RowsRight'
  BY <1>13 DEF Judge, GoTo, End, store, task, trace
<1>14. ASSUME NEW w \in Workers, MarkCorrupted(w)
      PROVE  RowsRight'
  <2>1. UNCHANGED <<expiry, copy, toVerify, damaged>>
    BY <1>14 DEF MarkCorrupted, trace
  <2>2. CASE UNCHANGED status
    BY <2>1, <2>2
  <2>3. CASE status' = [status EXCEPT ![backup[w]] = "corrupted"]
    BY <2>1, <2>3
  <2> QED BY <1>14, <2>2, <2>3 DEF MarkCorrupted, SetStatus
<1>15. ASSUME NEW w \in Workers, BeginCleanup(w)
      PROVE  RowsRight'
  BY <1>15 DEF BeginCleanup, GoTo, Removable, store, trace
<1>16. ASSUME NEW w \in Workers, NEW b \in Backups, NEW S \in SUBSET Backends, DeleteFile(w, b, S)
      PROVE  RowsRight'
  BY <1>16 DEF DeleteFile, GoTo
<1>17. ASSUME NEW w \in Workers, MarkExpired(w)
      PROVE  RowsRight'
  <2>1. /\ UNCHANGED <<expiry, copy, toVerify, damaged>>
        /\ backup[w] \in Backups /\ expiry[backup[w]] = "past"
    BY <1>17 DEF MarkExpired, trace
  <2>2. CASE UNCHANGED status
    BY <2>1, <2>2
  <2>3. CASE status' = [status EXCEPT ![backup[w]] = "expired"]
    BY <2>1, <2>3
  <2> QED BY <1>17, <2>2, <2>3 DEF MarkExpired, SetStatus
<1>18. ASSUME NEW w \in Workers, DropRow(w)
      PROVE  RowsRight'
  BY <1>18 DEF DropRow, GoTo, SetStatus, trace
<1>19. ASSUME NEW w \in Workers, CleanupFails(w)
      PROVE  RowsRight'
  BY <1>19 DEF CleanupFails, GoTo, store
<1>20. ASSUME NEW w \in Workers, EndCleanup(w)
      PROVE  RowsRight'
  BY <1>20 DEF EndCleanup, End, store, trace, GoTo
<1>21. ASSUME NEW w \in Workers, Crash(w)
      PROVE  RowsRight'
  BY <1>21 DEF Crash, End, store, GoTo
<1>22. ASSUME NEW b \in Backups, Expire(b)
      PROVE  RowsRight'
  BY <1>22 DEF Expire, task, trace
<1>23. ASSUME NEW b \in Backups, NEW k \in Backends, Damage(b, k)
      PROVE  RowsRight'
  BY <1>23 DEF Damage, task
<1>24. CASE UNCHANGED vars
  BY <1>24 DEF vars, store, task, trace
<1> QED
  BY <1>1, <1>2, <1>3, <1>4, <1>5, <1>6, <1>7, <1>8, <1>9, <1>10, <1>11, <1>12,
     <1>13, <1>14, <1>15, <1>16, <1>17, <1>18, <1>19, <1>20, <1>21, <1>22, <1>23, <1>24 DEF Next, Step

(* Deletions concern expired rows only, and condemnations damaged copies.  *)
LEMMA KeptStep ==
  ASSUME StoreInv, [Next]_vars
  PROVE  CompletedIsKept' /\ CorruptedWasDamaged'
<1> USE DEF StoreInv, TypeOK, RowsRight, Tasks, MakerOf, VerifierOf, CleanerOf,
            Making, Verifying, Removing, Ended, NoCopy, CompletedIsKept, CorruptedWasDamaged
<1>1. ASSUME NEW w \in Workers, NEW b \in Backups, NEW k \in Kinds, BeginBackup(w, b, k)
      PROVE  CompletedIsKept' /\ CorruptedWasDamaged'
  BY <1>1 DEF BeginBackup, GoTo, SetStatus, trace
<1>2. ASSUME NEW w \in Workers, NEW b \in Backups, BeginSnapshot(w, b)
      PROVE  CompletedIsKept' /\ CorruptedWasDamaged'
  BY <1>2 DEF BeginSnapshot, GoTo, SetStatus, trace
<1>3. ASSUME NEW w \in Workers, NEW b \in Backups, CreateTenantRow(w, b)
      PROVE  CompletedIsKept' /\ CorruptedWasDamaged'
  BY <1>3 DEF CreateTenantRow, GoTo, SetStatus, trace
<1>4. ASSUME NEW w \in Workers, MarkStarted(w)
      PROVE  CompletedIsKept' /\ CorruptedWasDamaged'
  BY <1>4 DEF MarkStarted, GoTo, SetStatus, task, trace
<1>5. ASSUME NEW w \in Workers, NEW S \in SUBSET Backends, Upload(w, S)
      PROVE  CompletedIsKept' /\ CorruptedWasDamaged'
  BY <1>5 DEF Upload, GoTo, task
<1>6. ASSUME NEW w \in Workers, MarkCompleted(w)
      PROVE  CompletedIsKept' /\ CorruptedWasDamaged'
  BY <1>6 DEF MarkCompleted, GoTo, SetStatus, task, trace
<1>7. ASSUME NEW w \in Workers, MarkFailed(w)
      PROVE  CompletedIsKept' /\ CorruptedWasDamaged'
  BY <1>7 DEF MarkFailed, SetStatus, End, GoTo
<1>8. ASSUME NEW w \in Workers, Record(w)
      PROVE  CompletedIsKept' /\ CorruptedWasDamaged'
  BY <1>8 DEF Record, GoTo, End, task, trace
<1>9. ASSUME NEW w \in Workers, SetExpiry(w)
      PROVE  CompletedIsKept' /\ CorruptedWasDamaged'
  BY <1>9 DEF SetExpiry, End, trace, GoTo
<1>10. ASSUME NEW w \in Workers, Raise(w)
      PROVE  CompletedIsKept' /\ CorruptedWasDamaged'
  BY <1>10 DEF Raise, End, store, GoTo
<1>11. ASSUME NEW w \in Workers, NEW b \in Backups, BeginVerify(w, b)
      PROVE  CompletedIsKept' /\ CorruptedWasDamaged'
  BY <1>11 DEF BeginVerify, GoTo, HasRow, trace
<1>12. ASSUME NEW w \in Workers, NEW k \in Backends, Download(w, k)
      PROVE  CompletedIsKept' /\ CorruptedWasDamaged'
  BY <1>12 DEF Download, GoTo, store
<1>13. ASSUME NEW w \in Workers, Judge(w)
      PROVE  CompletedIsKept' /\ CorruptedWasDamaged'
  BY <1>13 DEF Judge, GoTo, End, store, task, trace
<1>14. ASSUME NEW w \in Workers, MarkCorrupted(w)
      PROVE  CompletedIsKept' /\ CorruptedWasDamaged'
  BY <1>14 DEF MarkCorrupted, SetStatus, End, HasRow, trace, GoTo
<1>15. ASSUME NEW w \in Workers, BeginCleanup(w)
      PROVE  CompletedIsKept' /\ CorruptedWasDamaged'
  BY <1>15 DEF BeginCleanup, GoTo, Removable, store, trace
<1>16. ASSUME NEW w \in Workers, NEW b \in Backups, NEW S \in SUBSET Backends, DeleteFile(w, b, S)
      PROVE  CompletedIsKept' /\ CorruptedWasDamaged'
  BY <1>16 DEF DeleteFile, GoTo
<1>17. ASSUME NEW w \in Workers, MarkExpired(w)
      PROVE  CompletedIsKept' /\ CorruptedWasDamaged'
  BY <1>17 DEF MarkExpired, GoTo, SetStatus, HasRow, task, trace
<1>18. ASSUME NEW w \in Workers, DropRow(w)
      PROVE  CompletedIsKept' /\ CorruptedWasDamaged'
  BY <1>18 DEF DropRow, GoTo, SetStatus, trace
<1>19. ASSUME NEW w \in Workers, CleanupFails(w)
      PROVE  CompletedIsKept' /\ CorruptedWasDamaged'
  BY <1>19 DEF CleanupFails, GoTo, store
<1>20. ASSUME NEW w \in Workers, EndCleanup(w)
      PROVE  CompletedIsKept' /\ CorruptedWasDamaged'
  BY <1>20 DEF EndCleanup, End, store, trace, GoTo
<1>21. ASSUME NEW w \in Workers, Crash(w)
      PROVE  CompletedIsKept' /\ CorruptedWasDamaged'
  BY <1>21 DEF Crash, End, store, GoTo
<1>22. ASSUME NEW b \in Backups, Expire(b)
      PROVE  CompletedIsKept' /\ CorruptedWasDamaged'
  BY <1>22 DEF Expire, task, trace
<1>23. ASSUME NEW b \in Backups, NEW k \in Backends, Damage(b, k)
      PROVE  CompletedIsKept' /\ CorruptedWasDamaged'
  BY <1>23 DEF Damage, task
<1>24. CASE UNCHANGED vars
  BY <1>24 DEF vars, store, task, trace
<1> QED
  BY <1>1, <1>2, <1>3, <1>4, <1>5, <1>6, <1>7, <1>8, <1>9, <1>10, <1>11, <1>12,
     <1>13, <1>14, <1>15, <1>16, <1>17, <1>18, <1>19, <1>20, <1>21, <1>22, <1>23, <1>24 DEF Next, Step

(* Every step keeps the invariant.                                         *)
LEMMA StoreStep == StoreInv /\ [Next]_vars => StoreInv'
BY TypeStep, TasksStep, AloneStep, RowsStep, KeptStep DEF StoreInv

(* Every variable keeps its type through failed calls and crashes.         *)
THEOREM TypeCorrect == Spec => []TypeOK
<1>1. StoreInv => TypeOK
  BY DEF StoreInv
<1> QED BY StoreInit, StoreStep, <1>1, PTL DEF Spec

(* Until it expires, a completed backup is in one of the backends.         *)
THEOREM CompletedKept == Spec => []CompletedIsKept
<1>1. StoreInv => CompletedIsKept
  BY DEF StoreInv
<1> QED BY StoreInit, StoreStep, <1>1, PTL DEF Spec

(* A verification never condemns a backup whose copies are good, not even  *)
(* one that a cleanup is removing.                                         *)
THEOREM CorruptedDamaged == Spec => []CorruptedWasDamaged
<1>1. StoreInv => CorruptedWasDamaged
  BY DEF StoreInv
<1> QED BY StoreInit, StoreStep, <1>1, PTL DEF Spec

(* A row that was removed stays removed, and only the task that makes a    *)
(* backup completes it.                                                    *)
THEOREM RemovedFinal == Spec => RemovedIsFinal
<1> DEFINE Final == \A b \in Backups :
                      /\ status[b] = "gone" => status'[b] = "gone"
                      /\ (status'[b] = "completed" /\ status[b] # "completed")
                           => status[b] = "in_progress"
<1>1. ASSUME StoreInv, [Next]_vars PROVE [Final]_vars
  <2> USE DEF StoreInv, TypeOK
  <2>1. ASSUME NEW b \in Backups, NEW s, SetStatus(b, s), status[b] # "gone",
               s = "completed" => status[b] = "in_progress"
        PROVE  Final
    BY <1>1, <2>1 DEF SetStatus
  <2>2. CASE UNCHANGED status
    BY <2>2
  <2>3. ASSUME NEW w \in Workers, NEW b \in Backups, NEW k \in Kinds,
               BeginBackup(w, b, k) \/ BeginSnapshot(w, b) \/ CreateTenantRow(w, b)
        PROVE  Final
    BY <2>1, <2>3 DEF BeginBackup, BeginSnapshot, CreateTenantRow
  <2>4. ASSUME NEW w \in Workers, MarkStarted(w) \/ MarkCompleted(w) \/ MarkFailed(w)
        PROVE  Final
    <3>1. /\ backup[w] \in Backups
          /\ pc[w] = "complete" => status[backup[w]] = "in_progress"
          /\ status[backup[w]] # "gone"
      BY <1>1, <2>4 DEF MarkStarted, MarkCompleted, MarkFailed, Tasks, MakerOf, Making
    <3> QED BY <2>1, <2>4, <3>1 DEF MarkStarted, MarkCompleted, MarkFailed
  <2>5. ASSUME NEW w \in Workers, MarkCorrupted(w) \/ MarkExpired(w)
        PROVE  Final
    <3>1. backup[w] \in Backups
      BY <1>1, <2>5 DEF MarkCorrupted, MarkExpired, Tasks, VerifierOf, CleanerOf,
                        Verifying, Removing
    <3> QED BY <2>1, <2>2, <2>5, <3>1 DEF MarkCorrupted, MarkExpired, HasRow
  <2>6. ASSUME NEW w \in Workers, DropRow(w) PROVE Final
    BY <1>1, <2>6 DEF DropRow, SetStatus
  <2>7. ASSUME NEW w \in Workers, Step(w) PROVE Final
    BY <2>2, <2>3, <2>4, <2>5, <2>6, <2>7
       DEF Step, Kinds, Upload, Record, SetExpiry, Raise, Download, Judge, DeleteFile,
           CleanupFails, EndCleanup, store
  <2> QED BY <1>1, <2>2, <2>3, <2>7
          DEF Next, BeginVerify, BeginCleanup, Crash, Expire, Damage, Kinds, store, vars
<1>2. StoreInv /\ [Next]_vars => [Final]_vars
  BY <1>1
<1> QED BY StoreInit, StoreStep, <1>2, PTL DEF Spec, RemovedIsFinal
-----------------------------------------------------------------------------
(* Copies without a row.                                                   *)

(* A cleanup is at the row of b, or has removed it.                        *)
Tried(b) ==
  status[b] = "gone" \/ \E w \in Workers : pc[w] \in Removing /\ backup[w] = b

(* What such a cleanup has left in the backends: each copy is the price of *)
(* a call that failed, before the row is removed.                          *)
Left == {c \in Backups \X Backends : Tried(c[1]) /\ copy[c[1]][c[2]] # "none"}

LeftInv == StoreInv /\ Cardinality(Left) <= faults

(* There are finitely many copies.                                         *)
LEMMA CopiesFinite ==
  /\ IsFiniteSet(Backups \X Backends)
  /\ \A S \in SUBSET Backends : IsFiniteSet(S)
<1>1. IsFiniteSet(Backends)
  <2>1. IsFiniteSet({} \cup {"primary"})
    BY FS_EmptySet, FS_AddElement
  <2>2. IsFiniteSet(({} \cup {"primary"}) \cup {"secondary"})
    BY <2>1, FS_AddElement
  <2>3. Backends = ({} \cup {"primary"}) \cup {"secondary"}
    BY DEF Backends
  <2> QED BY <2>2, <2>3
<1>2. IsFiniteSet(Backups \X Backends)
  BY <1>1, StoreAssumptions, FS_Product
<1> QED BY <1>1, <1>2, FS_Subset

(* The copies of one backup are as many as the backends that hold one.     *)
LEMMA CopiesOfOne ==
  ASSUME NEW b \in Backups, NEW S \in SUBSET Backends
  PROVE  IsFiniteSet({b} \X S) /\ Cardinality({b} \X S) <= Cardinality(S)
<1> DEFINE P == {b} \X S
           f == [c \in P |-> c[2]]
<1>1. f \in Injection(P, S)
  BY DEF Injection, IsInjective
<1>2. IsFiniteSet(S)
  BY CopiesFinite
<1> HIDE DEF P, f
<1>3. IsFiniteSet(P) /\ Cardinality(P) <= Cardinality(S)
  BY <1>1, <1>2, FS_Injection
<1> QED BY <1>3 DEF P

(* The bound holds before any call has failed.                             *)
LEMMA LeftInit == Init => LeftInv
<1> SUFFICES ASSUME Init PROVE LeftInv
  OBVIOUS
<1>1. Left = {}
  BY DEF Init, Left, Tried, Removing
<1>2. Cardinality(Left) = 0 /\ faults = 0
  BY <1>1, FS_EmptySet DEF Init
<1> QED BY <1>2, StoreInit DEF LeftInv

(* A set with fewer elements, and one with a few more.                     *)
LEMMA LeftBound ==
  ASSUME NEW S \in SUBSET (Backups \X Backends), NEW T \in SUBSET (Backups \X Backends),
         NEW U, IsFiniteSet(U), NEW n \in Nat, Cardinality(U) <= n,
         T \subseteq S \cup U, NEW m \in Int, Cardinality(S) <= m
  PROVE  Cardinality(T) <= m + n
<1>1. IsFiniteSet(S) /\ IsFiniteSet(U)
  BY CopiesFinite, FS_Subset
<1>2. /\ IsFiniteSet(S \cup U)
      /\ Cardinality(S \cup U) = Cardinality(S) + Cardinality(U) - Cardinality(S \cap U)
  BY <1>1, FS_Union
<1>3. IsFiniteSet(S \cap U)
  BY <1>1, FS_Subset
<1>4. IsFiniteSet(T) /\ Cardinality(T) <= Cardinality(S \cup U)
  BY <1>2, FS_Subset
<1>5. /\ Cardinality(S) \in Nat /\ Cardinality(U) \in Nat /\ Cardinality(S \cap U) \in Nat
      /\ Cardinality(S \cup U) \in Nat /\ Cardinality(T) \in Nat
  BY <1>1, <1>2, <1>3, <1>4, FS_CardinalityType
<1> QED BY <1>2, <1>4, <1>5

(* Only a deletion brings a cleanup to a row, and nothing stores a copy of *)
(* a backup that a cleanup is at.                                          *)
LEMMA TriedStep ==
  ASSUME StoreInv, [Next]_vars,
         \A w \in Workers, b \in Backups, S \in SUBSET Backends : ~DeleteFile(w, b, S)
  PROVE  Left' \subseteq Left /\ faults' \in Nat /\ faults' >= faults
<1>0. /\ TypeOK /\ TypeOK' /\ Tasks /\ RowsRight
  BY TypeStep DEF StoreInv
<1>1. faults' \in Nat /\ faults' >= faults
  <2>1. \A n \in Nat : Fail(n) => faults' >= faults
    BY <1>0 DEF Fail, TypeOK
  <2>2. \A S \in SUBSET Backends : Fail(Cardinality(Backends \ S)) => faults' >= faults
    BY <2>1, FailedBackends
  <2>3. faults' = faults => faults' >= faults
    BY <1>0 DEF TypeOK
  <2>4. \/ faults' = faults \/ Fail(1)
        \/ \E S \in SUBSET Backends : Fail(Cardinality(Backends \ S))
    BY DEF Next, Step, BeginBackup, BeginSnapshot,
     CreateTenantRow, MarkStarted, Upload, MarkCompleted, MarkFailed, Record, SetExpiry, Raise,
     BeginVerify, Download, Judge, MarkCorrupted, BeginCleanup, MarkExpired, DropRow,
     CleanupFails, EndCleanup, Crash, Expire, Damage, trace, vars
  <2>5. faults' \in Nat
    BY <1>0 DEF TypeOK
  <2> QED BY <2>1, <2>2, <2>3, <2>4, <2>5
<1>2. ASSUME NEW b \in Backups, Tried(b)' PROVE Tried(b)
  <2>1. ASSUME UNCHANGED <<pc, backup>>, status'[b] = status[b] PROVE Tried(b)
    BY <1>2, <2>1 DEF Tried
  <2>2. ASSUME NEW w \in Workers, status'[b] = "gone" => status[b] = "gone",
               \A v \in Workers \ {w} : pc'[v] = pc[v] /\ backup'[v] = backup[v],
               pc'[w] \in Removing => pc[w] \in Removing /\ backup'[w] = backup[w]
        PROVE  Tried(b)
    BY <1>2, <2>2 DEF Tried
  <2>3. ASSUME NEW w \in Workers, Step(w) PROVE Tried(b)
    <3>1. \A v \in Workers \ {w} : pc'[v] = pc[v] /\ backup'[v] = backup[v]
      <4>1. \/ UNCHANGED backup
            \/ \E c \in Backups \cup {None} : backup' = [backup EXCEPT ![w] = c]
        BY <2>3 DEF Step, CreateTenantRow, MarkStarted, Upload, MarkCompleted,
           MarkFailed, Record, SetExpiry, Raise, Download, Judge, MarkCorrupted, MarkExpired,
           DropRow, CleanupFails, EndCleanup, End, task
      <4>2. \E s \in Steps : GoTo(w, s)
        BY <2>3 DEF Step, CreateTenantRow, MarkStarted, Upload, MarkCompleted,
           MarkFailed, Record, SetExpiry, Raise, Download, Judge, MarkCorrupted, MarkExpired,
           DropRow, CleanupFails, EndCleanup, End, Steps
      <4> QED BY <1>0, <4>1, <4>2 DEF TypeOK, GoTo
    <3>2. pc'[w] \in Removing => pc[w] \in Removing /\ backup'[w] = backup[w]
      <4>1. CASE MarkExpired(w)
        BY <4>1 DEF MarkExpired, task, Removing
      <4>2. CASE Judge(w)
        BY <1>0, <4>2 DEF Judge, TypeOK, GoTo, End, Removing
      <4>3. CASE Record(w)
        BY <1>0, <4>3 DEF Record, TypeOK, GoTo, End, Removing
      <4>4. CASE ~MarkExpired(w) /\ ~Judge(w) /\ ~Record(w)
        <5>1. \/ (\E c \in Backups : CreateTenantRow(w, c)) \/ MarkStarted(w)
              \/ (\E S \in SUBSET Backends : Upload(w, S)) \/ MarkCompleted(w)
              \/ MarkFailed(w) \/ SetExpiry(w) \/ Raise(w)
              \/ (\E k \in Backends : Download(w, k)) \/ MarkCorrupted(w)
              \/ DropRow(w) \/ CleanupFails(w) \/ EndCleanup(w)
          BY <2>3, <4>4 DEF Step
        <5>2. \A s : GoTo(w, s) => pc'[w] = s
          BY <1>0 DEF TypeOK, GoTo
        <5>3. End(w) => pc'[w] = "idle"
          BY <5>2 DEF End
        <5>4. \/ GoTo(w, "start") \/ GoTo(w, "upload") \/ GoTo(w, "complete")
              \/ GoTo(w, "record") \/ GoTo(w, "judge") \/ GoTo(w, "cleanup") \/ End(w)
          BY <5>1 DEF CreateTenantRow, MarkStarted, Upload, MarkCompleted, MarkFailed,
             SetExpiry, Raise, Download, MarkCorrupted, DropRow, CleanupFails, EndCleanup
        <5>5. pc'[w] \notin Removing
          BY <5>2, <5>3, <5>4 DEF Removing
        <5> QED BY <5>5
      <4> QED BY <4>1, <4>2, <4>3, <4>4
    <3>3. CASE DropRow(w) /\ backup[w] = b
      BY <3>3 DEF DropRow, Tried, Removing
    <3>4. CASE ~(DropRow(w) /\ backup[w] = b)
      <4>1. status'[b] = "gone" => status[b] = "gone"
        <5>1. \A c, s : SetStatus(c, s) /\ s # "gone" =>
                (status'[b] = "gone" => status[b] = "gone")
          BY <1>0 DEF TypeOK, SetStatus
        <5>2. CASE DropRow(w)
          BY <1>0, <3>4, <5>2 DEF DropRow, SetStatus, TypeOK
        <5>3. CASE \/ \E c \in Backups : CreateTenantRow(w, c)
                   \/ MarkStarted(w) \/ MarkCompleted(w) \/ MarkFailed(w)
          BY <5>1, <5>3 DEF CreateTenantRow, MarkStarted, MarkCompleted, MarkFailed
        <5>4. CASE MarkCorrupted(w) \/ MarkExpired(w)
          BY <5>1, <5>4 DEF MarkCorrupted, MarkExpired
        <5>5. CASE \/ (\E S \in SUBSET Backends : Upload(w, S)) \/ Record(w) \/ SetExpiry(w)
                   \/ Raise(w) \/ (\E k \in Backends : Download(w, k)) \/ Judge(w)
                   \/ CleanupFails(w) \/ EndCleanup(w)
          BY <5>5 DEF Upload, Record, SetExpiry, Raise, Download, Judge, CleanupFails,
             EndCleanup, store
        <5> QED BY <2>3, <5>2, <5>3, <5>4, <5>5 DEF Step
      <4> QED BY <2>2, <3>1, <3>2, <4>1
    <3> QED BY <3>3, <3>4
  <2>4. ASSUME NEW w \in Workers,
               \/ \E c \in Backups : BeginVerify(w, c) \/ BeginSnapshot(w, c)
                                     \/ \E k \in Kinds : BeginBackup(w, c, k)
               \/ BeginCleanup(w) \/ Crash(w)
        PROVE  Tried(b)
    <3>1. /\ \A v \in Workers \ {w} : pc'[v] = pc[v] /\ backup'[v] = backup[v]
          /\ pc'[w] \notin Removing
      BY <1>0, <2>4 DEF TypeOK, BeginVerify, BeginSnapshot, BeginBackup, BeginCleanup, Crash,
         End, GoTo, Removing
    <3>2. status'[b] = "gone" => status[b] = "gone"
      BY <1>0, <2>4 DEF TypeOK, BeginVerify, BeginSnapshot, BeginBackup, BeginCleanup, Crash,
         SetStatus, store
    <3> QED BY <2>2, <3>1, <3>2
  <2>5. CASE \/ \E c \in Backups : Expire(c) \/ \E k \in Backends : Damage(c, k)
             \/ UNCHANGED vars
    BY <2>1, <2>5 DEF Expire, Damage, vars, task, store
  <2> QED BY <2>3, <2>4, <2>5 DEF Next
<1>3. ASSUME NEW b \in Backups, NEW k \in Backends, Tried(b), copy'[b][k] # "none"
      PROVE  copy[b][k] # "none"
  <2>1. CASE UNCHANGED copy
    BY <1>3, <2>1
  <2>2. ASSUME NEW w \in Workers, NEW S \in SUBSET Backends, Upload(w, S)
        PROVE  copy[b][k] # "none"
    <3>1. /\ backup[w] \in Backups /\ expiry[backup[w]] = "never"
          /\ status[backup[w]] = "in_progress"
      BY <1>0, <2>2 DEF Upload, Tasks, MakerOf, Making
    <3>2. b # backup[w]
      BY <1>0, <1>3, <3>1 DEF Tried, Tasks, CleanerOf, Removing
    <3> QED BY <1>0, <1>3, <2>2, <3>1, <3>2 DEF Upload, TypeOK
  <2>3. ASSUME NEW c \in Backups, NEW j \in Backends, Damage(c, j) PROVE copy[b][k] # "none"
    BY <1>0, <1>3, <2>3 DEF Damage, TypeOK
  <2> QED BY <2>1, <2>2, <2>3 DEF Next, Step, BeginBackup, BeginSnapshot,
     CreateTenantRow, MarkStarted, MarkCompleted, MarkFailed, Record, SetExpiry, Raise,
     BeginVerify, Download, Judge, MarkCorrupted, BeginCleanup, MarkExpired, DropRow,
     CleanupFails, EndCleanup, Crash, Expire, store, vars
<1>4. Left' \subseteq Left
  BY <1>2, <1>3 DEF Left
<1> QED BY <1>1, <1>4

(* Every step keeps the bound.                                             *)
LEMMA LeftStep ==
  ASSUME LeftInv, [Next]_vars
  PROVE  LeftInv'
<1>0. StoreInv /\ StoreInv' /\ TypeOK /\ TypeOK' /\ Cardinality(Left) <= faults
  BY StoreStep DEF LeftInv, StoreInv
<1>1. Left \in SUBSET (Backups \X Backends) /\ Left' \in SUBSET (Backups \X Backends)
  BY DEF Left
<1>2. CASE \A w \in Workers, b \in Backups, S \in SUBSET Backends : ~DeleteFile(w, b, S)
  <2>1. Left' \subseteq Left /\ faults' \in Nat /\ faults' >= faults /\ faults \in Nat
    BY <1>0, <1>2, TriedStep DEF TypeOK
  <2>2. Left' \subseteq Left \cup {} /\ IsFiniteSet({}) /\ Cardinality({}) = 0
    BY <2>1, FS_EmptySet
  <2>3. Cardinality(Left') <= faults + 0
    BY <1>0, <1>1, <2>1, <2>2, LeftBound
  <2>4. IsFiniteSet(Left')
    BY <1>1, CopiesFinite, FS_Subset
  <2>5. Cardinality(Left') \in Nat
    BY <2>4, FS_CardinalityType
  <2> QED BY <1>0, <2>1, <2>3, <2>5 DEF LeftInv
<1>3. ASSUME NEW w \in Workers, NEW b \in Backups, NEW S \in SUBSET Backends, DeleteFile(w, b, S)
      PROVE  LeftInv'
  <2> DEFINE U == {b} \X (Backends \ S)
             n == Cardinality(Backends \ S)
  <2>1. n \in Nat /\ faults' = faults + n /\ faults \in Nat
    <3>1. n \in Nat
      BY FailedBackends
    <3>2. faults' = faults + n /\ faults \in Nat
      BY <1>0, <1>3 DEF DeleteFile, Fail, TypeOK
    <3> QED BY <3>1, <3>2
  <2>2. IsFiniteSet(U) /\ Cardinality(U) <= n
    BY CopiesOfOne
  <2>3. Left' \subseteq Left \cup U
    <3> SUFFICES ASSUME NEW c \in Left', c \notin U PROVE c \in Left
      OBVIOUS
    <3>1. c \in Backups \X Backends /\ Tried(c[1])' /\ copy'[c[1]][c[2]] # "none"
      BY DEF Left
    <3>2. /\ copy' = [copy EXCEPT ![b] = [k \in Backends |-> IF k \in S THEN "none" ELSE copy[b][k]]]
          /\ UNCHANGED status
      BY <1>3 DEF DeleteFile
    <3>3. c[1] # b
      <4>1. ASSUME c[1] = b PROVE FALSE
        <5>1. c[2] \in Backends /\ c[2] \in S
          BY <3>1, <4>1
        <5>2. copy'[b][c[2]] = "none"
          BY <1>0, <3>2, <5>1 DEF TypeOK
        <5> QED BY <3>1, <4>1, <5>2
      <4> QED BY <4>1
    <3>4. copy'[c[1]] = copy[c[1]]
      BY <1>0, <3>1, <3>2, <3>3 DEF TypeOK
    <3>5. Tried(c[1])
      <4>1. CASE UNCHANGED <<backup, pc>>
        BY <3>1, <3>2, <4>1 DEF Tried
      <4>2. CASE backup' = [backup EXCEPT ![w] = b]
        <5>1. \A v \in Workers \ {w} : pc'[v] = pc[v] /\ backup'[v] = backup[v]
          BY <1>0, <1>3 DEF DeleteFile, GoTo, TypeOK
        <5>2. backup'[w] = b
          BY <1>0, <4>2 DEF TypeOK
        <5> QED BY <3>1, <3>2, <3>3, <5>1, <5>2 DEF Tried
      <4> QED BY <1>3, <4>1, <4>2 DEF DeleteFile
    <3> QED BY <3>1, <3>4, <3>5 DEF Left
  <2> HIDE DEF U, n
  <2>4. Cardinality(Left') <= faults + n
    BY <1>0, <1>1, <2>1, <2>2, <2>3, LeftBound
  <2> QED BY <1>0, <2>1, <2>4 DEF LeftInv
<1> QED BY <1>2, <1>3

(* The copies that no row lists are at most as many as the calls that      *)
(* failed: a cleanup that every backend answers leaves none behind.        *)
THEOREM OrphansPaid == Spec => []OrphansAreFaults
<1>1. ASSUME LeftInv PROVE OrphansAreFaults
  <2>1. Orphans \subseteq Left /\ Left \in SUBSET (Backups \X Backends)
    BY DEF Orphans, Left, Tried
  <2>2. IsFiniteSet(Left)
    BY <2>1, CopiesFinite, FS_Subset
  <2>3. IsFiniteSet(Orphans) /\ Cardinality(Orphans) <= Cardinality(Left)
    BY <2>1, <2>2, FS_Subset
  <2>4. Cardinality(Orphans) \in Nat /\ Cardinality(Left) \in Nat
    BY <2>2, <2>3, FS_CardinalityType
  <2> QED BY <1>1, <2>3, <2>4 DEF LeftInv, StoreInv, TypeOK, OrphansAreFaults
<1>2. LeftInv => OrphansAreFaults
  BY <1>1
<1> QED BY LeftInit, LeftStep, <1>2, PTL DEF Spec
=============================================================================
