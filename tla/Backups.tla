------------------------------ MODULE Backups ------------------------------
(***************************************************************************)
(* The backups of one policy, their retention and their verification:      *)
(* services/system_health/service.py.  The scheduler enqueues a backup     *)
(* every hour until one has succeeded, so several workers may back up at   *)
(* the same time.  The files of a backup are outside the database: they    *)
(* are written before its row says that it succeeded and unlinked before   *)
(* the row is deleted, and a worker may die in between.                    *)
(***************************************************************************)
EXTENDS Naturals, FiniteSetsExt

CONSTANTS
    BackupWorkers,   \* workers that run backups
    Verifiers,       \* workers that run restore verifications
    MaxBackupRuns,   \* bound on the runs, which are numbered as they are created
    MaxBackupLimit,  \* bound on max_backups
    retention_days,
    LastDay          \* bound on the days

ASSUME BackupsAssumption ==
    /\ MaxBackupRuns \in Nat
    /\ MaxBackupLimit \in Nat \ {0}
    /\ retention_days \in Nat \ {0}
    /\ LastDay \in Nat \ {0}

VARIABLES
    backup,      \* backup_runs: status and day of created_at
    onDisk,      \* the runs all of whose files are there
    job,         \* open execute_backup jobs
    verifying,   \* the runs that open execute_restore_verification jobs have checked
    today,
    retentionCut \* some retention ended before its commit

backupsVars == <<backup, onDisk, job, verifying, today, retentionCut>>

BackupStatuses == {"absent", "running", "succeeded", "verified"}

-----------------------------------------------------------------------------
BackupRuns == 1..MaxBackupRuns
NoBackup == [status |-> "absent", day |-> 0]
NoJob == [step |-> "idle", run |-> 0, limit |-> 1, doomed |-> {}]

BackupsInit ==
    /\ backup = [n \in BackupRuns |-> NoBackup]
    /\ onDisk = {}
    /\ job = [w \in BackupWorkers |-> NoJob]
    /\ verifying = [v \in Verifiers |-> 0]
    /\ today = 1
    /\ retentionCut = FALSE

Succeeded == {n \in BackupRuns : backup[n].status \in {"succeeded", "verified"}}
JobEnds(w) == job' = [job EXCEPT ![w] = NoJob]

\* execute_backup has loaded the policy, which update_backup_policy may change at any
\* time, and commits the row first.
StartBackup(w, n, max_backups) ==
    /\ job[w] = NoJob
    /\ \A k \in BackupRuns : backup[k] = NoBackup <=> k >= n
    /\ backup' = [backup EXCEPT ![n] = [status |-> "running", day |-> today]]
    /\ job' = [job EXCEPT ![w] = [NoJob EXCEPT
           !.step = "files", !.run = n, !.limit = max_backups]]
    /\ UNCHANGED <<onDisk, verifying, today, retentionCut>>

WriteFiles(w) ==
    /\ job[w].step = "files"
    /\ onDisk' = onDisk \cup {job[w].run}
    /\ job' = [job EXCEPT ![w].step = "written"]
    /\ UNCHANGED <<backup, verifying, today, retentionCut>>

BackupSucceeds(w) ==
    /\ job[w].step = "written"
    /\ backup' = [backup EXCEPT ![job[w].run].status = "succeeded"]
    /\ job' = [job EXCEPT ![w].step = "retain"]
    /\ UNCHANGED <<onDisk, verifying, today, retentionCut>>

Newer(n) == Cardinality({k \in Succeeded : k > n})
Older(n) == Cardinality({k \in Succeeded : k < n})
OldestKept(limit) ==                                         \* mutant: sorted the wrong way round
    {n \in Succeeded : Older(n) < limit /\ today - backup[n].day <= retention_days}
retention_keep_ids(limit) ==
    {n \in Succeeded : Newer(n) < limit /\ today - backup[n].day <= retention_days}

\* apply_backup_retention reads the runs and chooses those that it does not keep ...
RetentionRead(w) ==
    /\ job[w].step = "retain"
    /\ job' = [job EXCEPT
           ![w].step = "unlink", ![w].limit = 1,
           ![w].doomed = Succeeded \ retention_keep_ids(job[w].limit)]
    /\ UNCHANGED <<backup, onDisk, verifying, today, retentionCut>>

\* ... unlinks their files, all that are there ...
UnlinkFiles(w) ==
    /\ job[w].step = "unlink"
    /\ onDisk' = onDisk \ job[w].doomed
    /\ job' = [job EXCEPT ![w].step = "delete"]
    /\ UNCHANGED <<backup, verifying, today, retentionCut>>

NewestOnly(w) == {n \in job[w].doomed : \A k \in job[w].doomed : k <= n}
                                                             \* mutant: one row is deleted
Deleted(w) == job[w].doomed

\* ... and deletes their rows, those that another has deleted as well.
RetentionCommit(w) ==
    /\ job[w].step = "delete"
    /\ backup' = [n \in BackupRuns |->
           IF n \in Deleted(w) THEN [backup[n] EXCEPT !.status = "absent"] ELSE backup[n]]
    /\ JobEnds(w)
    /\ UNCHANGED <<onDisk, verifying, today, retentionCut>>

\* An exception or the death of the worker.  The handler of an exception reads an
\* attribute that the rollback has expired, which fails: the run stays as it is.
BackupFails(w) ==
    /\ job[w] # NoJob
    /\ JobEnds(w)
    /\ retentionCut' = (retentionCut \/ (job[w].step = "delete" /\ job[w].doomed # {}))
    /\ UNCHANGED <<backup, onDisk, verifying, today>>

-----------------------------------------------------------------------------
\* execute_restore_verification looks at the files and finds them; a verification
\* that fails writes nothing but its drill.
DrillPasses(v, n) ==
    /\ verifying[v] = 0
    /\ n \in Succeeded \cap onDisk
    /\ verifying' = [verifying EXCEPT ![v] = n]
    /\ UNCHANGED <<backup, onDisk, job, today, retentionCut>>

\* It is recorded, unless the run, and its drills with it, was deleted.
DrillCommit(v) ==
    /\ verifying[v] \in Succeeded
    /\ backup' = [backup EXCEPT ![verifying[v]].status = "verified"]
    /\ verifying' = [verifying EXCEPT ![v] = 0]
    /\ UNCHANGED <<onDisk, job, today, retentionCut>>

DrillFails(v) ==
    /\ verifying[v] # 0
    /\ verifying' = [verifying EXCEPT ![v] = 0]
    /\ UNCHANGED <<backup, onDisk, job, today, retentionCut>>

\* A day passes; a backup and its retention take less than retention_days.
NextDay ==
    /\ today < LastDay
    /\ \A w \in BackupWorkers :
          job[w] # NoJob => today + 1 - backup[job[w].run].day <= retention_days
    /\ today' = today + 1
    /\ UNCHANGED <<backup, onDisk, job, verifying, retentionCut>>

BackupsNext ==
    \/ \E w \in BackupWorkers :
          \/ \E n \in BackupRuns, limit \in 1..MaxBackupLimit : StartBackup(w, n, limit)
          \/ WriteFiles(w) \/ BackupSucceeds(w)
          \/ RetentionRead(w) \/ UnlinkFiles(w) \/ RetentionCommit(w) \/ BackupFails(w)
    \/ \E v \in Verifiers :
          \/ \E n \in BackupRuns : DrillPasses(v, n)
          \/ DrillCommit(v) \/ DrillFails(v)
    \/ NextDay

BackupsSpec == BackupsInit /\ [][BackupsNext]_backupsVars

-----------------------------------------------------------------------------
BackupsTypeOK ==
    /\ backup \in [BackupRuns -> [status : BackupStatuses, day : 0..LastDay]]
    /\ onDisk \subseteq BackupRuns
    /\ job \in [BackupWorkers ->
           [step : {"idle", "files", "written", "retain", "unlink", "delete"},
            run : 0..MaxBackupRuns, limit : 1..MaxBackupLimit, doomed : SUBSET BackupRuns]]
    /\ verifying \in [Verifiers -> 0..MaxBackupRuns]
    /\ today \in 1..LastDay

\* The newest backup that succeeded can be restored, however many workers back up
\* at the same time, wherever they die, and whatever becomes of the policy: no
\* retention unlinks its files (retention_keep_ids, apply_backup_retention).
NewestRestorable ==
    \A n \in Succeeded : Newer(n) = 0 => n \in onDisk

\* A backup that counts as successful has its files, or a retention that has unlinked
\* them has its rows to delete yet, unless a retention was cut short.
FilesOfSuccessful ==
    retentionCut \/ \A n \in Succeeded :
        n \in onDisk \/ \E w \in BackupWorkers : job[w].step = "delete" /\ n \in job[w].doomed
=============================================================================
