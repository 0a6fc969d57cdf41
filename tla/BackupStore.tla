---------------------------- MODULE BackupStore ----------------------------
(***************************************************************************)
(* One backup from its row to its removal (zargar/core/backup_manager,     *)
(* storage, the tasks of backup_tasks that call them): the file is dumped, *)
(* uploaded to two storage backends, verified by a later task and removed  *)
(* when it has expired.                                                    *)
(*                                                                         *)
(* Tasks run in Celery workers, several at a time, in autocommit.  A call  *)
(* to a backend or to the database may fail and raise; a worker may die,   *)
(* and its task with it.  A task that is retried starts over with a new    *)
(* row, as any other task.                                                 *)
(***************************************************************************)
EXTENDS Integers, FiniteSets

CONSTANTS
  Backups,   \* BackupRecord rows that may be made
  Workers,   \* Celery worker processes
  MaxFaults, \* bound: calls that fail, copies that are damaged
  MaxCrashes, \* bound: workers that die
  None       \* no row

Backends == {"primary", "secondary"}

ASSUME StoreAssumptions ==
  /\ MaxFaults \in Nat /\ MaxCrashes \in Nat
  /\ IsFiniteSet(Backups)
  /\ None \notin Backups

VARIABLES
  status,   \* BackupRecord.status; "none" before, "gone" after the row
  expiry,   \* whether expires_at is set, and has passed
  copy,     \* the file in each backend
  toVerify, \* rows whose verification is queued
  pc,       \* what each worker is about to do
  backup,   \* the row its task is about
  kind,     \* the backup it makes
  todo,     \* rows the cleanup has selected and not handled
  content,  \* what a verification has downloaded
  damaged,  \* history: rows with a damaged copy
  faults,
  crashes

store == <<status, expiry, copy, toVerify>>
task  == <<backup, kind, todo, content>>
trace == <<damaged, faults, crashes>>
vars  == <<store, pc, task, trace>>

Kinds == {"daily", "weekly", "tenant", "snapshot"}

Steps == {"idle", "create", "start", "upload", "complete", "record", "expire", "download",
          "judge", "flag", "cleanup", "mark", "drop"}

TypeOK ==
  /\ status \in [Backups -> {"none", "pending", "in_progress", "completed", "failed",
                             "corrupted", "expired", "gone"}]
  /\ expiry \in [Backups -> {"never", "ahead", "past"}]
  /\ copy \in [Backups -> [Backends -> {"none", "good", "bad"}]]
  /\ toVerify \in SUBSET Backups
  /\ pc \in [Workers -> Steps]
  /\ backup \in [Workers -> Backups \cup {None}]
  /\ kind \in [Workers -> Kinds]
  /\ todo \in [Workers -> SUBSET Backups]
  /\ content \in [Workers -> {"none", "good", "bad"}]
  /\ damaged \in SUBSET Backups
  /\ faults \in 0..MaxFaults
  /\ crashes \in 0..MaxCrashes

NoCopy == [k \in Backends |-> "none"]

Init ==
  /\ status = [b \in Backups |-> "none"]
  /\ expiry = [b \in Backups |-> "never"]
  /\ copy = [b \in Backups |-> NoCopy]
  /\ toVerify = {}
  /\ pc = [w \in Workers |-> "idle"]
  /\ backup = [w \in Workers |-> None]
  /\ kind = [w \in Workers |-> "daily"]
  /\ todo = [w \in Workers |-> {}]
  /\ content = [w \in Workers |-> "none"]
  /\ damaged = {}
  /\ faults = 0
  /\ crashes = 0
-----------------------------------------------------------------------------
(* Helpers                                                                 *)

GoTo(w, step) == pc' = [pc EXCEPT ![w] = step]

SetStatus(b, s) == status' = [status EXCEPT ![b] = s]

End(w) ==
  /\ GoTo(w, "idle")
  /\ backup' = [backup EXCEPT ![w] = None]
  /\ kind' = [kind EXCEPT ![w] = "daily"]
  /\ todo' = [todo EXCEPT ![w] = {}]
  /\ content' = [content EXCEPT ![w] = "none"]

\* n more calls fail.
Fail(n) ==
  /\ faults + n <= MaxFaults
  /\ faults' = faults + n

HasRow(b) == status[b] \notin {"none", "gone"}

-----------------------------------------------------------------------------
(* create_full_system_backup, create_tenant_backup, create_snapshot_backup *)
(* and the tasks that call them                                            *)

BeginBackup(w, b, k) ==
  /\ k # "snapshot"
  /\ pc[w] = "idle"
  /\ status[b] = "none"
  /\ SetStatus(b, "pending")
  /\ backup' = [backup EXCEPT ![w] = b]
  /\ kind' = [kind EXCEPT ![w] = k]
  /\ GoTo(w, "start")
  /\ UNCHANGED <<expiry, copy, toVerify, todo, content, trace>>

\* A snapshot makes a row of its own, which nothing completes ...
BeginSnapshot(w, b) ==
  /\ pc[w] = "idle"
  /\ status[b] = "none"
  /\ SetStatus(b, "pending")
  /\ expiry' = [expiry EXCEPT ![b] = "ahead"]
  /\ kind' = [kind EXCEPT ![w] = "snapshot"]
  /\ GoTo(w, "create")
  /\ UNCHANGED <<copy, toVerify, backup, todo, content, trace>>

\* ... and then a tenant backup with another.
CreateTenantRow(w, b) ==
  /\ pc[w] = "create"
  /\ status[b] = "none"
  /\ SetStatus(b, "pending")
  /\ backup' = [backup EXCEPT ![w] = b]
  /\ GoTo(w, "start")
  /\ UNCHANGED <<expiry, copy, toVerify, kind, todo, content, trace>>

MarkStarted(w) ==
  /\ pc[w] = "start"
  /\ SetStatus(backup[w], "in_progress")
  /\ GoTo(w, "upload")
  /\ UNCHANGED <<expiry, copy, toVerify, task, trace>>

\* Seeded fault: the upload succeeds whatever the backends did.
UploadAnyway(w, S) ==
  LET b == backup[w]
  IN  /\ pc[w] = "upload"
      /\ Fail(Cardinality(Backends \ S))
      /\ copy' = [copy EXCEPT ![b] = [k \in Backends |-> IF k \in S THEN "good" ELSE "none"]]
      /\ GoTo(w, "complete")
      /\ UNCHANGED <<status, expiry, toVerify, task, damaged, crashes>>

\* The dump is saved to the backends of S; one of them is enough.
Upload(w, S) ==
  LET b == backup[w]
  IN  /\ pc[w] = "upload"
      /\ S # {}
      /\ Fail(Cardinality(Backends \ S))
      /\ copy' = [copy EXCEPT ![b] = [k \in Backends |-> IF k \in S THEN "good" ELSE "none"]]
      /\ GoTo(w, "complete")
      /\ UNCHANGED <<status, expiry, toVerify, task, damaged, crashes>>

MarkCompleted(w) ==
  /\ pc[w] = "complete"
  /\ SetStatus(backup[w], "completed")
  /\ GoTo(w, "record")
  /\ UNCHANGED <<expiry, copy, toVerify, task, trace>>

\* The dump, the upload to both backends, or a call after the backup was
\* marked completed fails: the row is marked failed, the copies stay.
MarkFailed(w) ==
  /\ pc[w] \in {"upload", "complete", "record"}
  /\ Fail(1)
  /\ SetStatus(backup[w], "failed")
  /\ End(w)
  /\ UNCHANGED <<expiry, copy, toVerify, damaged, crashes>>

\* Storage flags and metadata are saved; a weekly backup and a snapshot get
\* their expiry in a further step.
Record(w) ==
  /\ pc[w] = "record"
  /\ \/ /\ kind[w] \in {"weekly", "snapshot"}
        /\ GoTo(w, "expire")
        /\ UNCHANGED <<toVerify, task>>
     \/ /\ kind[w] \notin {"weekly", "snapshot"}
        /\ toVerify' = toVerify \cup {backup[w]}
        /\ End(w)
  /\ UNCHANGED <<status, expiry, copy, trace>>

\* The verification of a weekly backup is queued; a snapshot has none.
SetExpiry(w) ==
  /\ pc[w] = "expire"
  /\ expiry' = [expiry EXCEPT ![backup[w]] = "ahead"]
  /\ toVerify' = IF kind[w] = "weekly" THEN toVerify \cup {backup[w]} ELSE toVerify
  /\ End(w)
  /\ UNCHANGED <<status, copy, trace>>

\* A call outside the manager's try block fails: the row stays as it is.
Raise(w) ==
  /\ pc[w] \in {"create", "start", "expire"}
  /\ Fail(1)
  /\ End(w)
  /\ UNCHANGED <<store, damaged, crashes>>

-----------------------------------------------------------------------------
(* verify_backup_integrity                                                 *)

BeginVerify(w, b) ==
  /\ pc[w] = "idle"
  /\ b \in toVerify
  /\ toVerify' = toVerify \ {b}
  /\ \/ /\ HasRow(b)
        /\ backup' = [backup EXCEPT ![w] = b]
        /\ GoTo(w, "download")
     \/ /\ ~HasRow(b)
        /\ UNCHANGED <<pc, backup>>
  /\ UNCHANGED <<status, expiry, copy, kind, todo, content, trace>>

\* The primary copy is read, the secondary one when there is none or when
\* reading it fails.
Download(w, k) ==
  LET b == backup[w]
  IN  /\ pc[w] = "download"
      /\ \/ k = "primary" /\ copy[b][k] # "none" /\ UNCHANGED faults
         \/ k = "secondary" /\ copy[b]["primary"] = "none" /\ UNCHANGED faults
         \/ k = "secondary" /\ copy[b]["primary"] # "none" /\ Fail(1)
      /\ content' = [content EXCEPT ![w] = copy[b][k]]
      /\ GoTo(w, "judge")
      /\ UNCHANGED <<store, backup, kind, todo, damaged, crashes>>

\* Seeded fault: a file that was not found counts as one that differs.
JudgeMissing(w) ==
  /\ pc[w] = "judge"
  /\ \/ content[w] # "good" /\ GoTo(w, "flag") /\ UNCHANGED task
     \/ content[w] = "good" /\ End(w)
  /\ UNCHANGED <<store, trace>>

\* The hashes differ, or agree, or there was nothing to compare.
Judge(w) ==
  /\ pc[w] = "judge"
  /\ \/ content[w] = "bad" /\ GoTo(w, "flag") /\ UNCHANGED task
     \/ content[w] # "bad" /\ End(w)
  /\ UNCHANGED <<store, trace>>

\* Seeded fault: the whole row is saved, and inserted again when it is gone.
MarkCorruptedAgain(w) ==
  /\ pc[w] = "flag"
  /\ SetStatus(backup[w], "corrupted")
  /\ End(w)
  /\ UNCHANGED <<expiry, copy, toVerify, trace>>

\* On a row that is gone the update raises; the retried task does not find
\* the row.
MarkCorrupted(w) ==
  /\ pc[w] = "flag"
  /\ \/ HasRow(backup[w]) /\ SetStatus(backup[w], "corrupted")
     \/ ~HasRow(backup[w]) /\ UNCHANGED status
  /\ End(w)
  /\ UNCHANGED <<expiry, copy, toVerify, trace>>

-----------------------------------------------------------------------------
(* cleanup_expired_backups                                                 *)

Removable == {"completed", "failed", "corrupted"}

\* Seeded fault: only completed backups are selected.
BeginCleanupCompleted(w) ==
  LET old == {b \in Backups : expiry[b] = "past" /\ status[b] = "completed"}
  IN  /\ pc[w] = "idle"
      /\ old # {}
      /\ todo' = [todo EXCEPT ![w] = old]
      /\ GoTo(w, "cleanup")
      /\ UNCHANGED <<store, backup, kind, content, trace>>

BeginCleanup(w) ==
  LET old == {b \in Backups : expiry[b] = "past" /\ status[b] \in Removable}
  IN  /\ pc[w] = "idle"
      /\ old # {}
      /\ todo' = [todo EXCEPT ![w] = old]
      /\ GoTo(w, "cleanup")
      /\ UNCHANGED <<store, backup, kind, content, trace>>

\* Seeded fault: a backup is removed although no backend deleted it.
DeleteFileUnchecked(w, b, S) ==
  /\ pc[w] = "cleanup"
  /\ b \in todo[w]
  /\ todo' = [todo EXCEPT ![w] = @ \ {b}]
  /\ \/ S = Backends /\ UNCHANGED faults
     \/ S # Backends /\ Fail(1)
  /\ copy' = [copy EXCEPT ![b] = [k \in Backends |-> IF k \in S THEN "none" ELSE @[k]]]
  /\ backup' = [backup EXCEPT ![w] = b]
  /\ GoTo(w, "mark")
  /\ UNCHANGED <<status, expiry, toVerify, kind, content, damaged, crashes>>

\* The backends of S delete their copy; one of them is enough to go on with
\* the row, else it is left for the next cleanup.
DeleteFile(w, b, S) ==
  /\ pc[w] = "cleanup"
  /\ b \in todo[w]
  /\ todo' = [todo EXCEPT ![w] = @ \ {b}]
  /\ Fail(Cardinality(Backends \ S))
  /\ copy' = [copy EXCEPT ![b] = [k \in Backends |-> IF k \in S THEN "none" ELSE @[k]]]
  /\ \/ S # {} /\ backup' = [backup EXCEPT ![w] = b] /\ GoTo(w, "mark")
     \/ S = {} /\ UNCHANGED <<backup, pc>>
  /\ UNCHANGED <<status, expiry, toVerify, kind, content, damaged, crashes>>

\* Seeded fault: a status that is none of the choices.
MarkDeleted(w) ==
  /\ pc[w] = "mark"
  /\ SetStatus(backup[w], "deleted")
  /\ GoTo(w, "drop")
  /\ UNCHANGED <<expiry, copy, toVerify, task, trace>>

\* Updating a row that another cleanup has removed raises; the error is
\* caught and the next backup is handled.
MarkExpired(w) ==
  /\ pc[w] = "mark"
  /\ \/ HasRow(backup[w]) /\ SetStatus(backup[w], "expired") /\ GoTo(w, "drop")
     \/ ~HasRow(backup[w]) /\ UNCHANGED status /\ GoTo(w, "cleanup")
  /\ UNCHANGED <<expiry, copy, toVerify, task, trace>>

DropRow(w) ==
  /\ pc[w] = "drop"
  /\ SetStatus(backup[w], "gone")
  /\ backup' = [backup EXCEPT ![w] = None]
  /\ GoTo(w, "cleanup")
  /\ UNCHANGED <<expiry, copy, toVerify, kind, todo, content, trace>>

CleanupFails(w) ==
  /\ pc[w] \in {"mark", "drop"}
  /\ Fail(1)
  /\ backup' = [backup EXCEPT ![w] = None]
  /\ GoTo(w, "cleanup")
  /\ UNCHANGED <<store, kind, todo, content, damaged, crashes>>

EndCleanup(w) ==
  /\ pc[w] = "cleanup"
  /\ todo[w] = {}
  /\ End(w)
  /\ UNCHANGED <<store, trace>>

-----------------------------------------------------------------------------
(* Time, storage and crashes                                               *)

Expire(b) ==
  /\ expiry[b] = "ahead"
  /\ expiry' = [expiry EXCEPT ![b] = "past"]
  /\ UNCHANGED <<status, copy, toVerify, pc, task, trace>>

Damage(b, k) ==
  /\ copy[b][k] = "good"
  /\ Fail(1)
  /\ copy' = [copy EXCEPT ![b][k] = "bad"]
  /\ damaged' = damaged \cup {b}
  /\ UNCHANGED <<status, expiry, toVerify, pc, task, crashes>>

\* A worker acknowledges a task before it runs it: the task is lost.
Crash(w) ==
  /\ pc[w] # "idle"
  /\ crashes < MaxCrashes
  /\ crashes' = crashes + 1
  /\ End(w)
  /\ UNCHANGED <<store, damaged, faults>>

Step(w) ==
  \/ \E b \in Backups : CreateTenantRow(w, b)
  \/ MarkStarted(w) \/ (\E S \in SUBSET Backends : Upload(w, S)) \/ MarkCompleted(w)
  \/ MarkFailed(w) \/ Record(w) \/ SetExpiry(w) \/ Raise(w)
  \/ (\E k \in Backends : Download(w, k)) \/ Judge(w) \/ MarkCorrupted(w)
  \/ \E b \in Backups, S \in SUBSET Backends : DeleteFile(w, b, S)
  \/ MarkExpired(w) \/ DropRow(w) \/ CleanupFails(w) \/ EndCleanup(w)

Next ==
  \/ \E w \in Workers, b \in Backups, k \in Kinds : BeginBackup(w, b, k)
  \/ \E w \in Workers, b \in Backups : BeginSnapshot(w, b) \/ BeginVerify(w, b)
  \/ \E w \in Workers : BeginCleanup(w) \/ Step(w) \/ Crash(w)
  \/ \E b \in Backups : Expire(b)
  \/ \E b \in Backups, k \in Backends : Damage(b, k)

Spec == Init /\ [][Next]_vars

(* Workers go on with their tasks; the cleanup is queued every day and a   *)
(* worker takes it.                                                        *)
FairSpec ==
  /\ Spec
  /\ \A w \in Workers : WF_vars(Step(w)) /\ WF_vars(BeginCleanup(w))

-----------------------------------------------------------------------------
(* Properties                                                              *)

(* A completed backup that has not expired is in at least one backend,     *)
(* through partial uploads, verifications and concurrent cleanups.         *)
CompletedIsKept ==
  \A b \in Backups :
    (status[b] \in {"completed", "corrupted"} /\ expiry[b] # "past") => copy[b] # NoCopy

(* A backup is called corrupted only if a copy of it was damaged: a file   *)
(* that a cleanup removes under the verification does not condemn it.      *)
CorruptedWasDamaged == \A b \in Backups : status[b] = "corrupted" => b \in damaged

(* A copy without a row is in no list and is never removed; each of them   *)
(* is the price of a call that failed.                                     *)
Orphans ==
  {c \in Backups \X Backends : status[c[1]] = "gone" /\ copy[c[1]][c[2]] # "none"}

OrphansAreFaults == Cardinality(Orphans) <= faults

(* A backup that is over does not come back: a row that was removed stays  *)
(* removed, and only its own task completes a backup.                      *)
RemovedIsFinal ==
  [][\A b \in Backups :
       /\ status[b] = "gone" => status'[b] = "gone"
       /\ (status'[b] = "completed" /\ status[b] # "completed") => status[b] = "in_progress"]_vars

(* An expired backup that ended, well or not, is removed in the end, or    *)
(* left as expired by a cleanup that was cut short.                        *)
ExpiredIsRemoved ==
  \A b \in Backups :
    (expiry[b] = "past" /\ status[b] \in Removable) ~> status[b] \in {"expired", "gone"}
=============================================================================
