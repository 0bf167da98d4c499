-------------------------- MODULE OperationsProofs --------------------------
(***************************************************************************)
(* Backups with their retention, and the due sweeps of tasks and trackers, *)
(* for any number of workers, runs and tasks.                              *)
(***************************************************************************)
EXTENDS Backups, Sweeps, Maximum, TLAPS

-----------------------------------------------------------------------------
(* The backups of a policy.  The newest one that succeeded is never doomed *)
(* by a retention: it was not there when the retention read, or its worker *)
(* kept it, because a worker that reads its retention has itself added a   *)
(* run less than retention_days ago and the newest is at least that one.   *)

BackupRow == [status : BackupStatuses, day : 0..LastDay]
JobRow == [step : {"idle", "files", "written", "retain", "unlink", "delete"},
           run : 0..MaxBackupRuns, limit : 1..MaxBackupLimit, doomed : SUBSET BackupRuns]

IsNewest(n) == n \in Succeeded /\ \A k \in Succeeded : k <= n

\* The runs are created one after the other.
RunsGrow ==
    \A n \in BackupRuns : backup[n] # NoBackup =>
        /\ backup[n].day \in 1..today
        /\ \A k \in BackupRuns : k < n => backup[k].day <= backup[n].day

\* Each worker has a run of its own; it has succeeded when the retention begins, and
\* if it is deleted since then there is a newer one.
OwnRun ==
    \A w \in BackupWorkers : job[w] # NoJob =>
        /\ job[w].run \in BackupRuns /\ backup[job[w].run] # NoBackup
        /\ today - backup[job[w].run].day <= retention_days
        /\ job[w].step \in {"files", "written"} => backup[job[w].run].status = "running"
        /\ job[w].step = "written" => job[w].run \in onDisk
        /\ job[w].step = "retain" => \E m \in Succeeded : m >= job[w].run
        /\ \A x \in BackupWorkers \ {w} : job[x] # NoJob => job[x].run # job[w].run

\* What a retention deletes has succeeded once, and there is a newer one.
DoomedIsOld ==
    \A w \in BackupWorkers : \A n \in job[w].doomed :
        /\ backup[n] # NoBackup /\ backup[n].status # "running"
        /\ n \in Succeeded => \E k \in Succeeded : k > n

NewestOnDisk == \A n \in BackupRuns : IsNewest(n) => n \in onDisk

BackupsInv ==
    /\ BackupsTypeOK /\ retentionCut \in BOOLEAN
    /\ RunsGrow /\ OwnRun /\ DoomedIsOld /\ NewestOnDisk /\ FilesOfSuccessful

\* The rows of the state, as the proofs below use them.
LEMMA BackupsRows ==
    ASSUME BackupsTypeOK
    PROVE  /\ backup \in [BackupRuns -> BackupRow] /\ job \in [BackupWorkers -> JobRow]
           /\ NoJob \in JobRow /\ NoJob.doomed = {} /\ NoJob.step = "idle"
           /\ today \in Nat /\ retention_days \in Nat /\ BackupRuns \subseteq Nat
           /\ Succeeded \subseteq BackupRuns
  BY BackupsAssumption DEF BackupsTypeOK, BackupRow, JobRow, NoJob, BackupRuns, Succeeded

\* If a backup has succeeded, one of them is the newest.
LEMMA NewestExists ==
    ASSUME NEW m \in Succeeded
    PROVE  \E n \in Succeeded : n >= m /\ IsNewest(n)
<1>1. PICK S : S = Succeeded
  OBVIOUS
<1>2. S \in SUBSET (1..MaxBackupRuns) /\ S # {}
  BY <1>1 DEF Succeeded, BackupRuns
<1>3. IsFiniteSet(S)
  <2>1. 1 \in Int /\ MaxBackupRuns \in Int
    BY BackupsAssumption
  <2>2. IsFiniteSet(1..MaxBackupRuns)
    BY <2>1, FS_Interval
  <2> QED BY <1>2, <2>2, FS_Subset
<1>4. S \in SUBSET Int
  BY <1>2
<1>5. PICK n : n = Max(S)
  OBVIOUS
<1>6. n \in S /\ \A x \in S : x <= n
  BY <1>2, <1>3, <1>4, <1>5, Greatest
<1> QED BY <1>1, <1>4, <1>6 DEF IsNewest

\* A run that none is newer than is the newest (Newer).
LEMMA NewestHasNoNewer ==
    ASSUME NEW n \in Succeeded
    PROVE  Newer(n) = 0 <=> IsNewest(n)
<1>1. PICK T : T = {k \in Succeeded : k > n}
  OBVIOUS
<1>2. T \in SUBSET (1..MaxBackupRuns) /\ n \in 1..MaxBackupRuns
  BY <1>1 DEF Succeeded, BackupRuns
<1>3. IsFiniteSet(T)
  <2>1. 1 \in Int /\ MaxBackupRuns \in Int
    BY BackupsAssumption
  <2>2. IsFiniteSet(1..MaxBackupRuns)
    BY <2>1, FS_Interval
  <2> QED BY <1>2, <2>2, FS_Subset
<1>4. Cardinality(T) = 0 <=> T = {}
  BY <1>3, FS_EmptySet
<1>5. T = {} <=> IsNewest(n)
  BY <1>1, <1>2 DEF IsNewest, Succeeded, BackupRuns
<1> QED BY <1>1, <1>4, <1>5 DEF Newer

\* There are no runs at first (BackupsInit).
LEMMA BackupsStart == BackupsInit => BackupsInv
<1> SUFFICES ASSUME BackupsInit PROVE BackupsInv
  OBVIOUS
<1> USE BackupsAssumption
<1>1. Succeeded = {}
  BY DEF BackupsInit, Succeeded, NoBackup
<1>2. today \in 1..LastDay
  BY DEF BackupsInit
<1>3. BackupsTypeOK
  BY <1>2 DEF BackupsInit, BackupsTypeOK, NoBackup, NoJob, BackupStatuses
<1>4. RunsGrow /\ OwnRun /\ DoomedIsOld /\ NewestOnDisk /\ FilesOfSuccessful
  BY <1>1 DEF BackupsInit, RunsGrow, OwnRun, DoomedIsOld, NoJob, NewestOnDisk, IsNewest, FilesOfSuccessful
<1> QED BY <1>3, <1>4 DEF BackupsInv, BackupsInit

\* A new run is above all others (StartBackup).
LEMMA KeepsBackups_StartBackup ==
    ASSUME BackupsInv, NEW w \in BackupWorkers, NEW n \in BackupRuns,
           NEW limit \in 1..MaxBackupLimit, StartBackup(w, n, limit)
    PROVE  BackupsInv'
<1> USE BackupsAssumption
<1>1. PICK row, new : /\ row = [NoJob EXCEPT !.step = "files", !.run = n, !.limit = limit]
                      /\ new = [status |-> "running", day |-> today]
  OBVIOUS
<1>2. /\ job[w] = NoJob /\ \A k \in BackupRuns : backup[k] = NoBackup <=> k >= n
      /\ backup' = [backup EXCEPT ![n] = new] /\ job' = [job EXCEPT ![w] = row]
      /\ UNCHANGED <<onDisk, verifying, today, retentionCut>>
  BY <1>1 DEF StartBackup
<1>3. /\ backup \in [BackupRuns -> BackupRow] /\ job \in [BackupWorkers -> JobRow]
      /\ today \in 1..LastDay /\ BackupRuns \subseteq Nat
  BY BackupsRows DEF BackupsInv, BackupsTypeOK
<1>4. /\ row \in JobRow /\ row.step = "files" /\ row.run = n /\ row.doomed = {} /\ row # NoJob
      /\ new \in BackupRow /\ new # NoBackup /\ new.status = "running" /\ new.day = today
  <2>1. row = [step |-> "files", run |-> n, limit |-> limit, doomed |-> {}]
    BY <1>1 DEF NoJob
  <2>2. n \in 0..MaxBackupRuns /\ today \in 0..LastDay
    BY <1>3 DEF BackupRuns
  <2>3. row \in JobRow /\ row # NoJob
    BY <2>1, <2>2 DEF JobRow, NoJob
  <2>4. new \in BackupRow /\ new # NoBackup
    BY <1>1, <2>2 DEF BackupRow, NoBackup, BackupStatuses
  <2>5. row.step = "files" /\ row.run = n /\ row.doomed = {}
    BY <2>1
  <2>6. new.status = "running" /\ new.day = today
    BY <1>1
  <2> QED BY <2>3, <2>4, <2>5, <2>6
<1>5. /\ \A k \in BackupRuns : backup'[k] = IF k = n THEN new ELSE backup[k]
      /\ \A x \in BackupWorkers : job'[x] = IF x = w THEN row ELSE job[x]
      /\ backup[n] = NoBackup
  BY <1>2, <1>3
<1>6. Succeeded' = Succeeded
  BY <1>4, <1>5 DEF Succeeded, NoBackup
<1>7. BackupsTypeOK' /\ retentionCut' \in BOOLEAN
  BY <1>2, <1>3, <1>4 DEF BackupsInv, BackupsTypeOK, BackupRow, JobRow
<1>8. RunsGrow'
  BY <1>2, <1>3, <1>4, <1>5 DEF BackupsInv, RunsGrow, NoBackup
<1>9. OwnRun'
  <2>1. ASSUME NEW x \in BackupWorkers \ {w}, job[x] # NoJob PROVE job[x].run # n
    BY <1>5, <2>1 DEF BackupsInv, OwnRun
  <2> QED BY <1>2, <1>3, <1>4, <1>5, <1>6, <2>1 DEF BackupsInv, OwnRun
<1>10. DoomedIsOld'
  BY <1>3, <1>4, <1>5, <1>6 DEF BackupsInv, DoomedIsOld, JobRow
<1>11. NewestOnDisk'
  BY <1>2, <1>6 DEF BackupsInv, NewestOnDisk, IsNewest
<1>12. FilesOfSuccessful'
  BY <1>2, <1>5, <1>6 DEF BackupsInv, FilesOfSuccessful, NoJob
<1> QED BY <1>7, <1>8, <1>9, <1>10, <1>11, <1>12 DEF BackupsInv

\* The files of a run are written (WriteFiles).
LEMMA KeepsBackups_WriteFiles ==
    ASSUME BackupsInv, NEW w \in BackupWorkers, WriteFiles(w)
    PROVE  BackupsInv'
<1>1. PICK row : row = [job[w] EXCEPT !.step = "written"]
  OBVIOUS
<1>2. /\ job[w].step = "files" /\ onDisk' = onDisk \cup {job[w].run}
      /\ job' = [job EXCEPT ![w] = row] /\ UNCHANGED <<backup, verifying, today, retentionCut>>
  BY <1>1 DEF WriteFiles
<1>3. job \in [BackupWorkers -> JobRow] /\ job[w] # NoJob
  BY <1>2, BackupsRows DEF BackupsInv
<1>4. /\ row \in JobRow /\ row.step = "written" /\ row.run = job[w].run
      /\ row.doomed = job[w].doomed
  BY <1>1, <1>3 DEF JobRow
<1>5. \A x \in BackupWorkers : job'[x] = IF x = w THEN row ELSE job[x]
  BY <1>2, <1>3
<1>6. Succeeded' = Succeeded
  BY <1>2 DEF Succeeded
<1>7. BackupsTypeOK' /\ retentionCut' \in BOOLEAN
  BY <1>2, <1>3, <1>4 DEF BackupsInv, BackupsTypeOK, JobRow, OwnRun
<1>8. RunsGrow' /\ NewestOnDisk' /\ DoomedIsOld'
  BY <1>2, <1>4, <1>5, <1>6 DEF BackupsInv, RunsGrow, NewestOnDisk, IsNewest, DoomedIsOld
<1>9. OwnRun'
  BY <1>2, <1>3, <1>4, <1>5, <1>6 DEF BackupsInv, OwnRun
<1>10. FilesOfSuccessful'
  BY <1>2, <1>4, <1>5, <1>6 DEF BackupsInv, FilesOfSuccessful
<1> QED BY <1>7, <1>8, <1>9, <1>10 DEF BackupsInv

\* A run that succeeds has its files and is in no retention (BackupSucceeds).
LEMMA KeepsBackups_BackupSucceeds ==
    ASSUME BackupsInv, NEW w \in BackupWorkers, BackupSucceeds(w)
    PROVE  BackupsInv'
<1>1. PICK row, n, new : /\ row = [job[w] EXCEPT !.step = "retain"] /\ n = job[w].run
                         /\ new = [backup[n] EXCEPT !.status = "succeeded"]
  OBVIOUS
<1>2. /\ job[w].step = "written" /\ backup' = [backup EXCEPT ![n] = new]
      /\ job' = [job EXCEPT ![w] = row] /\ UNCHANGED <<onDisk, verifying, today, retentionCut>>
  BY <1>1 DEF BackupSucceeds
<1>3. /\ job \in [BackupWorkers -> JobRow] /\ backup \in [BackupRuns -> BackupRow]
      /\ job[w] # NoJob /\ BackupRuns \subseteq Nat
  BY <1>2, BackupsRows DEF BackupsInv
<1>4. /\ n \in BackupRuns /\ backup[n] # NoBackup /\ backup[n].status = "running" /\ n \in onDisk
      /\ \A x \in BackupWorkers \ {w} : job[x] # NoJob => job[x].run # n
  BY <1>1, <1>2, <1>3 DEF BackupsInv, OwnRun
<1>5. /\ row \in JobRow /\ row.step = "retain" /\ row.run = n /\ row.doomed = job[w].doomed
      /\ new \in BackupRow /\ new.status = "succeeded" /\ new.day = backup[n].day /\ new # NoBackup
  BY <1>1, <1>3, <1>4 DEF JobRow, BackupRow, BackupStatuses, NoBackup
<1>6. /\ \A x \in BackupWorkers : job'[x] = IF x = w THEN row ELSE job[x]
      /\ \A k \in BackupRuns : backup'[k] = IF k = n THEN new ELSE backup[k]
  BY <1>2, <1>3, <1>4
<1>7. Succeeded' = Succeeded \cup {n}
  BY <1>4, <1>5, <1>6 DEF Succeeded
<1>8. BackupsTypeOK' /\ retentionCut' \in BOOLEAN
  BY <1>2, <1>3, <1>4, <1>5 DEF BackupsInv, BackupsTypeOK, JobRow, BackupRow
<1>9. RunsGrow'
  BY <1>2, <1>4, <1>5, <1>6 DEF BackupsInv, RunsGrow
<1>10. NewestOnDisk'
  BY <1>2, <1>3, <1>4, <1>7 DEF BackupsInv, NewestOnDisk, IsNewest
<1>11. DoomedIsOld'
  <2> SUFFICES ASSUME NEW x \in BackupWorkers, NEW k \in job'[x].doomed
               PROVE  /\ backup'[k] # NoBackup /\ backup'[k].status # "running"
                      /\ k \in Succeeded' => \E j \in Succeeded' : j > k
    BY DEF DoomedIsOld
  <2>1. k \in job[x].doomed /\ k \in BackupRuns
    BY <1>3, <1>5, <1>6 DEF JobRow
  <2>2. k # n
    BY <1>4, <2>1 DEF BackupsInv, DoomedIsOld
  <2> QED BY <1>6, <1>7, <2>1, <2>2 DEF BackupsInv, DoomedIsOld
<1>12. OwnRun'
  <2> SUFFICES ASSUME NEW x \in BackupWorkers, job'[x] # NoJob
               PROVE  /\ job'[x].run \in BackupRuns /\ backup'[job'[x].run] # NoBackup
                      /\ today - backup'[job'[x].run].day <= retention_days
                      /\ job'[x].step \in {"files", "written"} => backup'[job'[x].run].status = "running"
                      /\ job'[x].step = "written" => job'[x].run \in onDisk
                      /\ job'[x].step = "retain" => \E m \in Succeeded' : m >= job'[x].run
                      /\ \A y \in BackupWorkers \ {x} : job'[y] # NoJob => job'[y].run # job'[x].run
    BY <1>2 DEF OwnRun
  <2>1. /\ job[x] # NoJob /\ job'[x].run = job[x].run /\ job[x].run \in BackupRuns
        /\ backup[job[x].run] # NoBackup /\ today - backup[job[x].run].day <= retention_days
    BY <1>3, <1>5, <1>6, <1>1 DEF BackupsInv, OwnRun
  <2>2. backup'[job[x].run] # NoBackup /\ backup'[job[x].run].day = backup[job[x].run].day
    BY <1>5, <1>6, <2>1
  <2>3. ASSUME NEW y \in BackupWorkers \ {x}, job'[y] # NoJob PROVE job'[y].run # job[x].run
    <3>1. job[y] # NoJob /\ job'[y].run = job[y].run
      BY <1>1, <1>3, <1>5, <1>6, <2>3
    <3> QED BY <2>1, <3>1 DEF BackupsInv, OwnRun
  <2>4. CASE x = w
    <3>1. job'[x] = row /\ n \in Succeeded' /\ n >= n
      BY <1>3, <1>4, <1>6, <1>7, <2>4
    <3> QED BY <1>5, <2>1, <2>2, <2>3, <3>1
  <2>5. CASE x # w
    <3>1. job'[x] = job[x] /\ job[x].run # n
      BY <1>4, <1>6, <2>1, <2>5
    <3>2. /\ job[x].step \in {"files", "written"} => backup'[job[x].run].status = "running"
          /\ job[x].step = "written" => job[x].run \in onDisk
          /\ job[x].step = "retain" => \E m \in Succeeded' : m >= job[x].run
      BY <1>6, <1>7, <2>1, <3>1 DEF BackupsInv, OwnRun
    <3> QED BY <2>1, <2>2, <2>3, <3>1, <3>2
  <2> QED BY <2>4, <2>5
<1>13. FilesOfSuccessful'
  BY <1>2, <1>4, <1>5, <1>6, <1>7 DEF BackupsInv, FilesOfSuccessful
<1> QED BY <1>8, <1>9, <1>10, <1>11, <1>12, <1>13 DEF BackupsInv

\* A retention keeps the newest run, whatever its limit (RetentionRead).
LEMMA KeepsBackups_RetentionRead ==
    ASSUME BackupsInv, NEW w \in BackupWorkers, RetentionRead(w)
    PROVE  BackupsInv'
<1> USE BackupsAssumption
<1>1. PICK doomed, row : /\ doomed = Succeeded \ retention_keep_ids(job[w].limit)
                         /\ row = [job[w] EXCEPT !.step = "unlink", !.limit = 1, !.doomed = doomed]
  OBVIOUS
<1>2. /\ job[w].step = "retain" /\ job' = [job EXCEPT ![w] = row]
      /\ UNCHANGED <<backup, onDisk, verifying, today, retentionCut>>
  BY <1>1 DEF RetentionRead
<1>3. /\ job \in [BackupWorkers -> JobRow] /\ backup \in [BackupRuns -> BackupRow]
      /\ job[w] # NoJob /\ BackupRuns \subseteq Nat /\ today \in Nat
      /\ Succeeded \subseteq BackupRuns
  BY <1>2, BackupsRows DEF BackupsInv
<1>4. doomed \subseteq Succeeded
  BY <1>1
<1>5. /\ row \in JobRow /\ row.step = "unlink" /\ row.run = job[w].run /\ row.doomed = doomed
  <2>1. row = [step |-> "unlink", run |-> job[w].run, limit |-> 1, doomed |-> doomed]
    BY <1>1, <1>3 DEF JobRow
  <2>2. job[w].run \in 0..MaxBackupRuns /\ 1 \in 1..MaxBackupLimit /\ doomed \in SUBSET BackupRuns
    BY <1>3, <1>4 DEF JobRow
  <2> QED BY <2>1, <2>2 DEF JobRow
<1>6. \A x \in BackupWorkers : job'[x] = IF x = w THEN row ELSE job[x]
  BY <1>2, <1>3
<1>7. Succeeded' = Succeeded
  BY <1>2 DEF Succeeded
<1>8. PICK m \in Succeeded : m >= job[w].run
  BY <1>2, <1>3 DEF BackupsInv, OwnRun
<1>9. PICK n \in Succeeded : n >= m /\ IsNewest(n)
  BY NewestExists
<1>10. n \notin doomed
  <2>1. backup[n] # NoBackup /\ job[w].run \in BackupRuns
    BY <1>3 DEF Succeeded, NoBackup, BackupsInv, OwnRun
  <2>2. backup[n].day \in Nat /\ backup[job[w].run].day \in Nat
    <3>1. n \in BackupRuns /\ job[w].run \in BackupRuns
      BY <1>3, <2>1
    <3>2. backup[n] \in BackupRow /\ backup[job[w].run] \in BackupRow
      BY <1>3, <3>1
    <3> QED BY <3>2 DEF BackupRow
  <2>4. backup[job[w].run].day <= backup[n].day
    <3>1. job[w].run <= n /\ n \in BackupRuns
      <4>1. n \in Nat /\ m \in Nat /\ job[w].run \in Nat /\ n \in BackupRuns
        BY <1>3, <2>1
      <4> QED BY <1>8, <1>9, <4>1
    <3>2. CASE job[w].run = n
      BY <2>2, <3>2
    <3>3. CASE job[w].run < n
      BY <2>1, <3>1, <3>3 DEF BackupsInv, RunsGrow
    <3>4. n \in Nat /\ job[w].run \in Nat
      BY <1>3, <2>1
    <3> QED BY <3>1, <3>2, <3>3, <3>4
  <2>3. today - backup[job[w].run].day <= retention_days
    BY <1>3 DEF BackupsInv, OwnRun
  <2>5. today - backup[n].day <= retention_days
    BY <1>3, <2>2, <2>3, <2>4
  <2>6. Newer(n) = 0
    BY <1>9, NewestHasNoNewer
  <2>7. job[w].limit \in 1..MaxBackupLimit
    BY <1>3 DEF JobRow
  <2>8. n \in retention_keep_ids(job[w].limit)
    BY <2>5, <2>6, <2>7 DEF retention_keep_ids
  <2> QED BY <1>1, <2>8
<1>11. BackupsTypeOK' /\ retentionCut' \in BOOLEAN
  BY <1>2, <1>3, <1>5 DEF BackupsInv, BackupsTypeOK, JobRow
<1>12. RunsGrow' /\ NewestOnDisk'
  BY <1>2, <1>7 DEF BackupsInv, RunsGrow, NewestOnDisk, IsNewest
<1>13. DoomedIsOld'
  <2>1. ASSUME NEW k \in doomed
        PROVE  backup[k] # NoBackup /\ backup[k].status # "running" /\ \E j \in Succeeded : j > k
    <3>1. k \in Succeeded /\ k # n /\ k <= n
      BY <1>4, <1>9, <1>10 DEF IsNewest
    <3>2. n > k
      BY <1>3, <3>1
    <3> QED BY <3>1, <3>2 DEF Succeeded, NoBackup
  <2> QED BY <1>2, <1>5, <1>6, <1>7, <2>1 DEF BackupsInv, DoomedIsOld
<1>14. OwnRun'
  BY <1>2, <1>3, <1>5, <1>6, <1>7 DEF BackupsInv, OwnRun
<1>15. FilesOfSuccessful'
  BY <1>2, <1>5, <1>6, <1>7 DEF BackupsInv, FilesOfSuccessful
<1> QED BY <1>11, <1>12, <1>13, <1>14, <1>15 DEF BackupsInv

\* Files are unlinked, none of the newest run and none of one that is being written
\* (UnlinkFiles).
LEMMA KeepsBackups_UnlinkFiles ==
    ASSUME BackupsInv, NEW w \in BackupWorkers, UnlinkFiles(w)
    PROVE  BackupsInv'
<1>1. PICK row : row = [job[w] EXCEPT !.step = "delete"]
  OBVIOUS
<1>2. /\ job[w].step = "unlink" /\ onDisk' = onDisk \ job[w].doomed
      /\ job' = [job EXCEPT ![w] = row] /\ UNCHANGED <<backup, verifying, today, retentionCut>>
  BY <1>1 DEF UnlinkFiles
<1>3. /\ job \in [BackupWorkers -> JobRow] /\ job[w] # NoJob /\ BackupRuns \subseteq Nat
      /\ Succeeded \subseteq BackupRuns
  BY <1>2, BackupsRows DEF BackupsInv
<1>4. row \in JobRow /\ row.step = "delete" /\ row.run = job[w].run /\ row.doomed = job[w].doomed
  BY <1>1, <1>3 DEF JobRow
<1>5. \A x \in BackupWorkers : job'[x] = IF x = w THEN row ELSE job[x]
  BY <1>2, <1>3
<1>6. Succeeded' = Succeeded
  BY <1>2 DEF Succeeded
<1>7. BackupsTypeOK' /\ retentionCut' \in BOOLEAN
  BY <1>2, <1>3, <1>4 DEF BackupsInv, BackupsTypeOK, JobRow
<1>8. RunsGrow' /\ DoomedIsOld'
  BY <1>2, <1>4, <1>5, <1>6 DEF BackupsInv, RunsGrow, DoomedIsOld
<1>9. NewestOnDisk'
  <2>1. ASSUME NEW n \in BackupRuns, IsNewest(n) PROVE n \notin job[w].doomed
    BY <1>3, <2>1 DEF BackupsInv, DoomedIsOld, IsNewest
  <2> QED BY <1>2, <1>6, <2>1 DEF BackupsInv, NewestOnDisk, IsNewest
<1>10. OwnRun'
  <2>1. ASSUME NEW x \in BackupWorkers, job[x] # NoJob, job[x].step = "written"
        PROVE  job[x].run \in onDisk'
    BY <1>2, <2>1 DEF BackupsInv, OwnRun, DoomedIsOld
  <2> QED BY <1>2, <1>3, <1>4, <1>5, <1>6, <2>1 DEF BackupsInv, OwnRun
<1>11. FilesOfSuccessful'
  BY <1>2, <1>4, <1>5, <1>6 DEF BackupsInv, FilesOfSuccessful
<1> QED BY <1>7, <1>8, <1>9, <1>10, <1>11 DEF BackupsInv

\* Rows are deleted; the newest run stays (RetentionCommit).
LEMMA KeepsBackups_RetentionCommit ==
    ASSUME BackupsInv, NEW w \in BackupWorkers, RetentionCommit(w)
    PROVE  BackupsInv'
<1>1. PICK doomed : doomed = job[w].doomed
  OBVIOUS
<1>2. /\ job[w].step = "delete" /\ job' = [job EXCEPT ![w] = NoJob]
      /\ backup' = [n \in BackupRuns |->
             IF n \in doomed THEN [backup[n] EXCEPT !.status = "absent"] ELSE backup[n]]
      /\ UNCHANGED <<onDisk, verifying, today, retentionCut>>
  BY <1>1 DEF RetentionCommit, Deleted, JobEnds
<1>3. /\ job \in [BackupWorkers -> JobRow] /\ backup \in [BackupRuns -> BackupRow]
      /\ BackupRuns \subseteq Nat /\ Succeeded \subseteq BackupRuns
      /\ NoJob \in JobRow /\ NoJob.doomed = {} /\ NoJob.step = "idle"
  BY <1>2, BackupsRows DEF BackupsInv
<1>4. ASSUME NEW n \in BackupRuns
      PROVE  /\ backup'[n] \in BackupRow /\ backup'[n].day = backup[n].day
             /\ backup'[n].status = IF n \in doomed THEN "absent" ELSE backup[n].status
             /\ n \notin doomed => backup'[n] = backup[n]
             /\ backup[n] # NoBackup => backup'[n] # NoBackup
             /\ n \in doomed => backup[n] # NoBackup
  <2>1. n \in doomed => backup[n] # NoBackup
    BY <1>1 DEF BackupsInv, DoomedIsOld
  <2>2. backup[n] # NoBackup => backup[n].day # 0
    BY DEF BackupsInv, RunsGrow
  <2>3. CASE n \in doomed
    BY <1>2, <1>3, <2>1, <2>2, <2>3 DEF BackupRow, BackupStatuses, NoBackup
  <2>4. CASE n \notin doomed
    BY <1>2, <1>3, <2>4
  <2> QED BY <2>1, <2>3, <2>4
<1>5. Succeeded' = Succeeded \ doomed
  BY <1>3, <1>4 DEF Succeeded
<1>6. \A x \in BackupWorkers : job'[x] = IF x = w THEN NoJob ELSE job[x]
  BY <1>2, <1>3
<1>7. ASSUME NEW m \in Succeeded PROVE \E n \in Succeeded' : n >= m /\ IsNewest(n)
  <2>1. PICK n \in Succeeded : n >= m /\ IsNewest(n)
    BY NewestExists
  <2>2. n \notin doomed
    BY <1>1, <1>3, <2>1 DEF BackupsInv, DoomedIsOld, IsNewest
  <2> QED BY <1>5, <2>1, <2>2
<1>8. BackupsTypeOK' /\ retentionCut' \in BOOLEAN
  <2>1. backup' \in [BackupRuns -> BackupRow]
    BY <1>2, <1>4
  <2>2. job' \in [BackupWorkers -> JobRow]
    BY <1>2, <1>3
  <2> QED BY <1>2, <2>1, <2>2 DEF BackupsInv, BackupsTypeOK, JobRow, BackupRow
<1>9. RunsGrow'
  BY <1>2, <1>4 DEF BackupsInv, RunsGrow, NoBackup
<1>10. OwnRun'
  <2> SUFFICES ASSUME NEW x \in BackupWorkers, job'[x] # NoJob
               PROVE  /\ job'[x].run \in BackupRuns /\ backup'[job'[x].run] # NoBackup
                      /\ today - backup'[job'[x].run].day <= retention_days
                      /\ job'[x].step \in {"files", "written"} => backup'[job'[x].run].status = "running"
                      /\ job'[x].step = "written" => job'[x].run \in onDisk
                      /\ job'[x].step = "retain" => \E m \in Succeeded' : m >= job'[x].run
                      /\ \A y \in BackupWorkers \ {x} : job'[y] # NoJob => job'[y].run # job'[x].run
    BY <1>2 DEF OwnRun
  <2>1. x # w /\ job'[x] = job[x] /\ job[x].run \in BackupRuns
    BY <1>6 DEF BackupsInv, OwnRun
  <2>2. /\ backup'[job[x].run] # NoBackup /\ backup'[job[x].run].day = backup[job[x].run].day
        /\ today - backup[job[x].run].day <= retention_days
    BY <1>4, <2>1 DEF BackupsInv, OwnRun
  <2>3. ASSUME job[x].step \in {"files", "written"} PROVE backup'[job[x].run].status = "running"
    <3>1. backup[job[x].run].status = "running"
      BY <2>1, <2>3 DEF BackupsInv, OwnRun
    <3>2. job[x].run \notin doomed
      BY <1>1, <3>1 DEF BackupsInv, DoomedIsOld
    <3> QED BY <1>4, <2>1, <3>1, <3>2
  <2>4. ASSUME job[x].step = "retain" PROVE \E m \in Succeeded' : m >= job[x].run
    <3>1. PICK m \in Succeeded : m >= job[x].run
      BY <2>1, <2>4 DEF BackupsInv, OwnRun
    <3>2. PICK n \in Succeeded' : n >= m
      BY <1>7
    <3>3. n \in Nat /\ m \in Nat /\ job[x].run \in Nat
      BY <1>3, <1>5, <2>1
    <3> QED BY <3>1, <3>2, <3>3
  <2>5. job[x].step = "written" => job[x].run \in onDisk
    BY <2>1 DEF BackupsInv, OwnRun
  <2>6. \A y \in BackupWorkers \ {x} : job'[y] # NoJob => job'[y].run # job[x].run
    BY <1>6, <2>1 DEF BackupsInv, OwnRun
  <2> QED BY <2>1, <2>2, <2>3, <2>4, <2>5, <2>6
<1>11. DoomedIsOld'
  <2> SUFFICES ASSUME NEW x \in BackupWorkers, NEW k \in job'[x].doomed
               PROVE  /\ backup'[k] # NoBackup /\ backup'[k].status # "running"
                      /\ k \in Succeeded' => \E j \in Succeeded' : j > k
    BY DEF DoomedIsOld
  <2>1. x # w /\ job'[x] = job[x] /\ k \in job[x].doomed /\ k \in BackupRuns
    BY <1>3, <1>6 DEF JobRow
  <2>2. /\ backup[k] # NoBackup /\ backup[k].status # "running"
        /\ k \in Succeeded => \E j \in Succeeded : j > k
    BY <2>1 DEF BackupsInv, DoomedIsOld
  <2>3. backup'[k] # NoBackup /\ backup'[k].status # "running"
    BY <1>4, <2>1, <2>2
  <2>4. ASSUME k \in Succeeded' PROVE \E j \in Succeeded' : j > k
    <3>1. PICK j \in Succeeded : j > k
      BY <1>5, <2>2, <2>4
    <3>2. PICK n \in Succeeded' : n >= j
      BY <1>7
    <3>3. n \in Nat /\ j \in Nat /\ k \in Nat
      BY <1>3, <1>5, <2>1
    <3>4. n > k
      BY <3>1, <3>2, <3>3
    <3> QED BY <3>4
  <2> QED BY <2>3, <2>4
<1>12. NewestOnDisk'
  <2>1. ASSUME NEW n \in Succeeded', \A k \in Succeeded' : k <= n PROVE n \in onDisk
    <3>1. PICK m \in Succeeded' : m >= n /\ IsNewest(m)
      BY <1>5, <1>7
    <3>2. m = n
      <4>1. m \in Nat /\ n \in Nat
        BY <1>3, <1>5
      <4> QED BY <2>1, <3>1, <4>1
    <3> QED BY <1>3, <1>5, <3>1, <3>2 DEF BackupsInv, NewestOnDisk
  <2> QED BY <1>2, <2>1 DEF NewestOnDisk, IsNewest
<1>13. FilesOfSuccessful'
  BY <1>1, <1>2, <1>5, <1>6 DEF BackupsInv, FilesOfSuccessful
<1> QED BY <1>8, <1>9, <1>10, <1>11, <1>12, <1>13 DEF BackupsInv

\* A worker that fails leaves what it has done (BackupFails).
LEMMA KeepsBackups_BackupFails ==
    ASSUME BackupsInv, NEW w \in BackupWorkers, BackupFails(w)
    PROVE  BackupsInv'
<1>1. /\ job' = [job EXCEPT ![w] = NoJob] /\ UNCHANGED <<backup, onDisk, verifying, today>>
      /\ retentionCut' = (retentionCut \/ (job[w].step = "delete" /\ job[w].doomed # {}))
  BY DEF BackupFails, JobEnds
<1>2. /\ job \in [BackupWorkers -> JobRow] /\ NoJob \in JobRow /\ NoJob.doomed = {}
      /\ retentionCut \in BOOLEAN
  BY BackupsRows DEF BackupsInv
<1>3. \A x \in BackupWorkers : job'[x] = IF x = w THEN NoJob ELSE job[x]
  BY <1>1, <1>2
<1>4. Succeeded' = Succeeded
  BY <1>1 DEF Succeeded
<1>5. BackupsTypeOK' /\ retentionCut' \in BOOLEAN
  BY <1>1, <1>2 DEF BackupsInv, BackupsTypeOK, JobRow
<1>6. RunsGrow' /\ NewestOnDisk' /\ DoomedIsOld'
  BY <1>1, <1>2, <1>3, <1>4 DEF BackupsInv, RunsGrow, NewestOnDisk, IsNewest, DoomedIsOld
<1>7. OwnRun'
  BY <1>1, <1>3, <1>4 DEF BackupsInv, OwnRun
<1>8. FilesOfSuccessful'
  BY <1>1, <1>2, <1>3, <1>4 DEF BackupsInv, FilesOfSuccessful
<1> QED BY <1>5, <1>6, <1>7, <1>8 DEF BackupsInv

\* A verification changes no more than the status of a run that has succeeded
\* (DrillPasses, DrillCommit, DrillFails).
LEMMA KeepsBackups_Drills ==
    ASSUME BackupsInv, NEW v \in Verifiers,
           (\E n \in BackupRuns : DrillPasses(v, n)) \/ DrillCommit(v) \/ DrillFails(v)
    PROVE  BackupsInv'
<1>1. UNCHANGED <<onDisk, job, today, retentionCut>>
  BY DEF DrillPasses, DrillCommit, DrillFails
<1>2. backup \in [BackupRuns -> BackupRow] /\ Succeeded \subseteq BackupRuns
  BY BackupsRows DEF BackupsInv
<1>3. verifying' \in [Verifiers -> 0..MaxBackupRuns]
  BY BackupsAssumption
  DEF DrillPasses, DrillCommit, DrillFails, BackupsInv, BackupsTypeOK, Succeeded, BackupRuns
<1>4. /\ backup' \in [BackupRuns -> BackupRow]
      /\ \A n \in BackupRuns :
            \/ backup'[n] = backup[n]
            \/ /\ n \in Succeeded /\ backup'[n].status = "verified"
               /\ backup'[n].day = backup[n].day
  <2>1. CASE UNCHANGED backup
    BY <1>2, <2>1
  <2>2. CASE DrillCommit(v)
    <3>1. PICK n, new : n = verifying[v] /\ new = [backup[n] EXCEPT !.status = "verified"]
      OBVIOUS
    <3>2. n \in Succeeded /\ backup' = [backup EXCEPT ![n] = new]
      BY <2>2, <3>1 DEF DrillCommit
    <3>3. new \in BackupRow /\ new.status = "verified" /\ new.day = backup[n].day
      BY <1>2, <3>1, <3>2 DEF BackupRow, BackupStatuses
    <3> QED BY <1>2, <3>2, <3>3
  <2> QED BY <2>1, <2>2 DEF DrillPasses, DrillFails
<1>5. Succeeded' = Succeeded
  BY <1>4 DEF Succeeded
<1>6. \A n \in BackupRuns : /\ backup'[n].day = backup[n].day
                            /\ backup'[n] = NoBackup <=> backup[n] = NoBackup
                            /\ backup'[n].status = "running" <=> backup[n].status = "running"
  BY <1>4 DEF NoBackup, Succeeded
<1>7. BackupsTypeOK' /\ retentionCut' \in BOOLEAN
  BY <1>1, <1>3, <1>4 DEF BackupsInv, BackupsTypeOK, BackupRow
<1>8. RunsGrow'
  BY <1>1, <1>6 DEF BackupsInv, RunsGrow
<1>9. NewestOnDisk' /\ FilesOfSuccessful'
  BY <1>1, <1>5 DEF BackupsInv, NewestOnDisk, IsNewest, FilesOfSuccessful
<1>10. OwnRun'
  BY <1>1, <1>5, <1>6 DEF BackupsInv, OwnRun
<1>11. DoomedIsOld'
  <2>1. \A w \in BackupWorkers : job[w].doomed \subseteq BackupRuns
    BY BackupsRows DEF BackupsInv, JobRow
  <2> QED BY <1>1, <1>5, <1>6, <2>1 DEF BackupsInv, DoomedIsOld
<1> QED BY <1>7, <1>8, <1>9, <1>10, <1>11 DEF BackupsInv

\* No job is open for longer than retention_days (NextDay).
LEMMA KeepsBackups_NextDay ==
    ASSUME BackupsInv, NextDay
    PROVE  BackupsInv'
<1>1. /\ today < LastDay /\ today' = today + 1
      /\ \A w \in BackupWorkers : job[w] # NoJob => today + 1 - backup[job[w].run].day <= retention_days
      /\ UNCHANGED <<backup, onDisk, job, verifying, retentionCut>>
  BY DEF NextDay
<1>2. today \in 1..LastDay /\ LastDay \in Nat /\ today' \in 1..LastDay
  BY <1>1, BackupsAssumption DEF BackupsInv, BackupsTypeOK
<1>3. Succeeded' = Succeeded
  BY <1>1 DEF Succeeded
<1>4. BackupsTypeOK' /\ retentionCut' \in BOOLEAN
  BY <1>1, <1>2 DEF BackupsInv, BackupsTypeOK
<1>5. RunsGrow'
  BY <1>1, <1>2 DEF BackupsInv, RunsGrow
<1>6. OwnRun'
  <2> SUFFICES ASSUME NEW x \in BackupWorkers, job[x] # NoJob
               PROVE  today' - backup[job[x].run].day <= retention_days
    BY <1>1, <1>3 DEF BackupsInv, OwnRun
  <2>1. today + 1 - backup[job[x].run].day <= retention_days
    BY <1>1
  <2>2. today \in Nat /\ backup[job[x].run] \in BackupRow /\ retention_days \in Nat
    BY BackupsRows DEF BackupsInv, OwnRun
  <2>3. PICK d : d = backup[job[x].run].day
    OBVIOUS
  <2>4. d \in Nat
    BY <2>2, <2>3, BackupsAssumption DEF BackupRow
  <2> QED BY <1>1, <2>1, <2>2, <2>3, <2>4
<1>7. DoomedIsOld' /\ NewestOnDisk' /\ FilesOfSuccessful'
  BY <1>1, <1>3 DEF BackupsInv, DoomedIsOld, NewestOnDisk, IsNewest, FilesOfSuccessful
<1> QED BY <1>4, <1>5, <1>6, <1>7 DEF BackupsInv

\* Every step of the backups keeps what is known of them.
LEMMA BackupsStep == BackupsInv /\ [BackupsNext]_backupsVars => BackupsInv'
<1> SUFFICES ASSUME BackupsInv, [BackupsNext]_backupsVars PROVE BackupsInv'
  OBVIOUS
<1>1. CASE UNCHANGED backupsVars
  BY <1>1 DEF backupsVars, BackupsInv, BackupsTypeOK, RunsGrow, OwnRun, DoomedIsOld, NewestOnDisk,
              IsNewest, FilesOfSuccessful, Succeeded
<1>2. CASE BackupsNext
  BY <1>2, KeepsBackups_StartBackup, KeepsBackups_WriteFiles, KeepsBackups_BackupSucceeds,
     KeepsBackups_RetentionRead, KeepsBackups_UnlinkFiles, KeepsBackups_RetentionCommit,
     KeepsBackups_BackupFails, KeepsBackups_Drills, KeepsBackups_NextDay
     DEF BackupsNext
<1> QED BY <1>1, <1>2

\* Every variable of the backups keeps its type.
THEOREM BackupsTypeCorrect == BackupsSpec => []BackupsTypeOK
  BY BackupsStart, BackupsStep, PTL DEF BackupsSpec, BackupsInv

\* For any number of workers and runs and any limits, no retention unlinks the files of
\* the newest backup that succeeded.
THEOREM NewestAlwaysRestorable == BackupsSpec => []NewestRestorable
<1>1. BackupsInv => NewestRestorable
  BY NewestHasNoNewer, BackupsRows DEF BackupsInv, NewestRestorable, NewestOnDisk
<1> QED BY <1>1, BackupsStart, BackupsStep, PTL DEF BackupsSpec

\* What counts as a backup has its files or is about to be deleted, unless a retention
\* was cut short.
THEOREM FilesAlwaysOfSuccessful == BackupsSpec => []FilesOfSuccessful
  BY BackupsStart, BackupsStep, PTL DEF BackupsSpec, BackupsInv

-----------------------------------------------------------------------------
(* The due sweeps of an organization.  A sweep that is open escalates only *)
(* tasks that were there when it read, and by no more than one level above *)
(* the one that they have; what makes it exactly one is the notification   *)
(* that may not be there twice, or that nothing else runs.                 *)

SweepRow == [open : BOOLEAN, events : SUBSET Deadlines, levels : [Tasks -> 0..MaxLevel]]
TaskRow == [status : TaskStatuses, level : 0..MaxLevel]
Careful == ~overlap \/ partner

CreatedOnce == \A d \in Deadlines : made[d] = IF d \in event THEN 1 ELSE 0
EscalatedOnce ==
    Careful => \A t \in Tasks, k \in Levels :
                   escalations[<<t, k>>] = IF k <= task[t].level THEN 1 ELSE 0

\* The task of a deadline comes with its event.
TaskHasEvent == \A d \in Deadlines : d \notin event => task[d] = NoTask

EscalatesOld ==
    \A s \in Sweepers, t \in Tasks :
        sweep[s].open /\ sweep[s].levels[t] # 0 => t \notin Deadlines \/ t \in event
OneStep ==
    Careful => \A s \in Sweepers, t \in Tasks :
                   sweep[s].open => sweep[s].levels[t] <= task[t].level + 1
OneSweep ==
    ~overlap => \A s \in Sweepers : sweep[s].open =>
        /\ \A r \in Sweepers \ {s} : ~sweep[r].open
        /\ \A t \in Tasks : sweep[s].levels[t] # 0 => escalations[<<t, sweep[s].levels[t]>>] = 0

SweepsInv ==
    /\ SweepsTypeOK
    /\ CreatedOnce /\ EscalatedOnce /\ TaskHasEvent /\ EscalatesOld /\ OneStep /\ OneSweep

\* There is nothing at first (SweepsInit).
LEMMA SweepsStart == SessionsInit /\ SweepsInit => SweepsInv
<1> SUFFICES ASSUME SessionsInit, SweepsInit PROVE SweepsInv
  OBVIOUS
<1>1. NoTask \in TaskRow /\ NoSweep \in SweepRow
  BY SweepsAssumption DEF NoTask, NoSweep, TaskRow, SweepRow, TaskStatuses
<1>2. SweepsTypeOK
  BY <1>1 DEF SweepsInit, SweepsTypeOK, TaskRow, SweepRow
<1>3. \A s \in Sweepers : ~sweep[s].open
  BY DEF SweepsInit, NoSweep
<1>4. CreatedOnce /\ TaskHasEvent /\ EscalatesOld /\ OneStep /\ OneSweep
  BY <1>3 DEF SweepsInit, CreatedOnce, TaskHasEvent, Tasks, EscalatesOld, OneStep, OneSweep
<1>5. EscalatedOnce
  BY SweepsAssumption DEF SweepsInit, EscalatedOnce, NoTask, Levels
<1> QED BY <1>2, <1>4, <1>5 DEF SweepsInv

\* A task that is created or updated keeps its level (create_task, update_task).
LEMMA KeepsSweeps_Tasks ==
    ASSUME SweepsInv,
           \/ \E t \in ManualTasks : create_task(t)
           \/ \E t \in Tasks, status \in TaskStatuses \ {"absent"} : update_task(t, status)
    PROVE  SweepsInv'
<1> USE SweepsAssumption
<1>1. task \in [Tasks -> TaskRow]
  BY DEF SweepsInv, SweepsTypeOK, TaskRow
<1>2. PICK t \in Tasks, row \in TaskRow :
          /\ NobodySweeps /\ row.level = task[t].level
          /\ t \in ManualTasks \/ task[t] # NoTask
          /\ task' = [task EXCEPT ![t] = row]
          /\ UNCHANGED <<event, made, escalations, partner, sweep, overlap>>
  <2>1. ASSUME NEW t \in ManualTasks, create_task(t)
        PROVE  /\ NobodySweeps /\ NewTask.level = task[t].level
               /\ task' = [task EXCEPT ![t] = NewTask]
               /\ UNCHANGED <<event, made, escalations, partner, sweep, overlap>>
               /\ t \in Tasks /\ NewTask \in TaskRow
    BY <2>1 DEF create_task, NewTask, NoTask, Tasks, TaskRow, TaskStatuses
  <2>2. ASSUME NEW t \in Tasks, NEW status \in TaskStatuses, update_task(t, status)
        PROVE  /\ NobodySweeps /\ task[t] # NoTask
               /\ [task[t] EXCEPT !.status = status].level = task[t].level
               /\ task' = [task EXCEPT ![t] = [task[t] EXCEPT !.status = status]]
               /\ UNCHANGED <<event, made, escalations, partner, sweep, overlap>>
               /\ [task[t] EXCEPT !.status = status] \in TaskRow
    BY <1>1, <2>2 DEF update_task, TaskRow
  <2> QED BY <2>1, <2>2
<1>3. /\ \A u \in Tasks : task'[u] = IF u = t THEN row ELSE task[u]
      /\ \A u \in Tasks : task'[u].level = task[u].level
      /\ task' \in [Tasks -> TaskRow]
  BY <1>1, <1>2
<1>4. SweepsTypeOK'
  BY <1>2, <1>3 DEF SweepsInv, SweepsTypeOK, TaskRow
<1>5. CreatedOnce' /\ EscalatedOnce' /\ EscalatesOld' /\ OneStep' /\ OneSweep'
  BY <1>2, <1>3 DEF SweepsInv, CreatedOnce, EscalatedOnce, Careful, EscalatesOld, OneStep, OneSweep
<1>6. TaskHasEvent'
  BY <1>2, <1>3 DEF SweepsInv, TaskHasEvent, Tasks
<1> QED BY <1>4, <1>5, <1>6 DEF SweepsInv

\* A sweep reads (SweepRead).
LEMMA KeepsSweeps_SweepRead ==
    ASSUME SweepsInv, NEW s \in Sweepers, NEW due \in SUBSET Deadlines,
           NEW overdue \in SUBSET Tasks, SweepRead(s, due, overdue)
    PROVE  SweepsInv'
<1> USE SweepsAssumption
<1>1. PICK row : row = [open |-> TRUE, events |-> due \ event,
                        levels |-> [t \in Tasks |-> NextLevel(t, overdue)]]
  OBVIOUS
<1>2. /\ MayOpen(sweep, NoSweep, s) /\ \A t \in overdue : Overdue(t)
      /\ sweep' = [sweep EXCEPT ![s] = row]
      /\ UNCHANGED <<event, made, task, escalations, partner, overlap>>
  BY <1>1 DEF SweepRead
<1>3. task \in [Tasks -> TaskRow] /\ sweep \in [Sweepers -> SweepRow]
  BY DEF SweepsInv, SweepsTypeOK, TaskRow, SweepRow
<1>4. ASSUME NEW t \in Tasks
      PROVE  /\ row.levels[t] \in 0..MaxLevel
             /\ row.levels[t] <= task[t].level + 1
             /\ row.levels[t] # 0 => /\ task[t] # NoTask
                                     /\ escalations[<<t, row.levels[t]>>] = 0
  <2>1. row.levels[t] = NextLevel(t, overdue) /\ task[t].level \in 0..MaxLevel
    BY <1>1, <1>3 DEF TaskRow
  <2>2. CASE t \in overdue /\ escalations[<<t, task[t].level + 1>>] = 0
    BY <1>2, <2>1, <2>2 DEF NextLevel, Overdue, NoTask
  <2>3. CASE ~(t \in overdue /\ escalations[<<t, task[t].level + 1>>] = 0)
    BY <2>1, <2>3 DEF NextLevel
  <2> QED BY <2>2, <2>3
<1>5. row \in SweepRow
  BY <1>1, <1>4 DEF SweepRow
<1>6. \A r \in Sweepers : sweep'[r] = IF r = s THEN row ELSE sweep[r]
  BY <1>2, <1>3
<1>7. SweepsTypeOK' /\ CreatedOnce' /\ EscalatedOnce' /\ TaskHasEvent'
  BY <1>2, <1>3, <1>5
  DEF SweepsInv, SweepsTypeOK, SweepRow, CreatedOnce, EscalatedOnce, Careful, TaskHasEvent
<1>8. EscalatesOld'
  BY <1>2, <1>4, <1>6 DEF SweepsInv, EscalatesOld, TaskHasEvent
<1>9. OneStep'
  BY <1>2, <1>4, <1>6 DEF SweepsInv, OneStep, Careful
<1>10. OneSweep'
  <2>1. ~overlap => \A r \in Sweepers \ {s} : ~sweep[r].open
    BY <1>2, <1>3 DEF MayOpen, NoSweep
  <2> QED BY <1>2, <1>4, <1>6, <2>1 DEF OneSweep
<1> QED BY <1>7, <1>8, <1>9, <1>10 DEF SweepsInv

\* A sweep that commits raises each of its levels by one, none of a task that it
\* creates (SweepCommit).
LEMMA KeepsSweeps_SweepCommit ==
    ASSUME SweepsInv, NEW s \in Sweepers, SweepCommit(s)
    PROVE  SweepsInv'
<1> USE SweepsAssumption
<1>1. PICK new, levels : new = sweep[s].events /\ levels = sweep[s].levels
  OBVIOUS
<1>2. /\ sweep[s].open /\ ~Clash(s)
      /\ event' = event \cup new
      /\ made' = [d \in Deadlines |-> IF d \in new THEN made[d] + 1 ELSE made[d]]
      /\ task' = [t \in Tasks |->
             CASE t \in new -> NewTask
               [] t \notin new /\ levels[t] # 0 -> [task[t] EXCEPT !.level = levels[t]]
               [] OTHER -> task[t]]
      /\ escalations' = [p \in Tasks \X Levels |->
             IF p[2] # 0 /\ levels[p[1]] = p[2] THEN escalations[p] + 1 ELSE escalations[p]]
      /\ sweep' = [sweep EXCEPT ![s] = NoSweep]
      /\ UNCHANGED <<partner, overlap>>
  BY <1>1 DEF SweepCommit, Escalates
<1>3. /\ task \in [Tasks -> TaskRow] /\ sweep \in [Sweepers -> SweepRow]
      /\ event \subseteq Deadlines /\ made \in [Deadlines -> Nat]
      /\ escalations \in [Tasks \X Levels -> Nat]
  BY DEF SweepsInv, SweepsTypeOK, TaskRow, SweepRow
<1>4. new \subseteq Deadlines /\ levels \in [Tasks -> 0..MaxLevel]
  BY <1>1, <1>3 DEF SweepRow
<1>5. new \cap event = {}
  BY <1>1, <1>2 DEF Clash
<1>6. \A t \in Tasks : t \in new => levels[t] = 0 /\ task[t] = NoTask
  BY <1>1, <1>2, <1>4, <1>5 DEF SweepsInv, EscalatesOld, TaskHasEvent
<1>7. ASSUME Careful, NEW t \in Tasks, levels[t] # 0
      PROVE  escalations[<<t, levels[t]>>] = 0 /\ levels[t] = task[t].level + 1
  <2>1. levels[t] \in Levels /\ task[t].level \in 0..MaxLevel
    BY <1>3, <1>4, <1>7 DEF Levels, TaskRow
  <2>2. escalations[<<t, levels[t]>>] = 0
    <3>1. CASE ~overlap
      BY <1>1, <1>2, <1>7, <3>1 DEF SweepsInv, OneSweep
    <3>2. CASE partner
      <4>1. Escalates(s, t, levels[t])
        BY <1>1, <1>7 DEF Escalates
      <4> QED BY <1>2, <2>1, <3>2, <4>1 DEF Clash, Notified
    <3> QED BY <1>7, <3>1, <3>2 DEF Careful
  <2>3. ~(levels[t] <= task[t].level)
    BY <1>7, <2>1, <2>2 DEF SweepsInv, EscalatedOnce
  <2>4. levels[t] <= task[t].level + 1
    BY <1>1, <1>2, <1>7 DEF SweepsInv, OneStep
  <2> QED BY <2>1, <2>2, <2>3, <2>4 DEF Levels
<1>8. ASSUME NEW t \in Tasks
      PROVE  /\ t \in new => task'[t] = NewTask
             /\ t \notin new /\ levels[t] # 0 => task'[t] = [task[t] EXCEPT !.level = levels[t]]
             /\ t \notin new /\ levels[t] = 0 => task'[t] = task[t]
  BY <1>2
<1>9. ASSUME NEW t \in Tasks
      PROVE  /\ task'[t] \in TaskRow
             /\ task'[t].level = IF levels[t] # 0 THEN levels[t] ELSE task[t].level
  <2>1. task[t] \in TaskRow /\ levels[t] \in 0..MaxLevel
    BY <1>3, <1>4
  <2>2. CASE t \in new
    BY <1>6, <1>8, <2>2 DEF NewTask, NoTask, TaskRow, TaskStatuses
  <2>3. CASE t \notin new /\ levels[t] # 0
    BY <1>8, <2>1, <2>3 DEF TaskRow
  <2>4. CASE t \notin new /\ levels[t] = 0
    BY <1>8, <2>1, <2>4
  <2> QED BY <2>2, <2>3, <2>4
<1>10. NoSweep \in SweepRow /\ ~NoSweep.open
  BY DEF NoSweep, SweepRow
<1>11. \A r \in Sweepers : sweep'[r] = IF r = s THEN NoSweep ELSE sweep[r]
  BY <1>2, <1>3
<1>12. SweepsTypeOK'
  <2>1. task' \in [Tasks -> TaskRow]
    BY <1>2, <1>9
  <2>2. escalations' \in [Tasks \X Levels -> Nat] /\ made' \in [Deadlines -> Nat]
    BY <1>2, <1>3
  <2>3. sweep' \in [Sweepers -> SweepRow]
    BY <1>2, <1>3, <1>10
  <2>4. event' \subseteq Deadlines /\ partner' \in BOOLEAN
    BY <1>2, <1>3, <1>4 DEF SweepsInv, SweepsTypeOK
  <2> QED BY <2>1, <2>2, <2>3, <2>4 DEF SweepsTypeOK, TaskRow, SweepRow
<1>13. CreatedOnce'
  BY <1>2, <1>3, <1>5 DEF SweepsInv, CreatedOnce
<1>14. EscalatedOnce'
  <2> SUFFICES ASSUME Careful, NEW t \in Tasks, NEW k \in Levels
               PROVE  escalations'[<<t, k>>] = IF k <= task'[t].level THEN 1 ELSE 0
    BY <1>2 DEF EscalatedOnce, Careful
  <2>1. escalations[<<t, k>>] = IF k <= task[t].level THEN 1 ELSE 0
    BY DEF SweepsInv, EscalatedOnce
  <2>2. escalations'[<<t, k>>] = IF levels[t] = k THEN escalations[<<t, k>>] + 1
                                                  ELSE escalations[<<t, k>>]
    <3>1. <<t, k>> \in Tasks \X Levels /\ k # 0
      BY DEF Levels
    <3> QED BY <1>2, <3>1
  <2>3. task[t].level \in 0..MaxLevel /\ levels[t] \in 0..MaxLevel
    BY <1>3, <1>4 DEF TaskRow
  <2>4. CASE levels[t] = 0
    BY <1>9, <2>1, <2>2, <2>4 DEF Levels
  <2>5. CASE levels[t] # 0
    <3>1. levels[t] = task[t].level + 1 /\ task'[t].level = levels[t]
      BY <1>7, <1>9, <2>5
    <3> QED BY <2>1, <2>2, <2>3, <3>1 DEF Levels
  <2> QED BY <2>4, <2>5
<1>15. TaskHasEvent'
  <2>1. ASSUME NEW d \in Deadlines, d \notin event' PROVE task'[d] = NoTask
    <3>1. d \in Tasks /\ d \notin new /\ d \notin event
      BY <1>2, <2>1 DEF Tasks
    <3>2. levels[d] = 0
      BY <1>1, <1>2, <3>1 DEF SweepsInv, EscalatesOld
    <3> QED BY <1>8, <3>1, <3>2 DEF SweepsInv, TaskHasEvent
  <2> QED BY <2>1 DEF TaskHasEvent
<1>16. EscalatesOld'
  BY <1>2, <1>10, <1>11 DEF SweepsInv, EscalatesOld
<1>17. OneStep'
  <2> SUFFICES ASSUME Careful, NEW r \in Sweepers, NEW t \in Tasks, sweep'[r].open
               PROVE  sweep'[r].levels[t] <= task'[t].level + 1
    BY <1>2 DEF OneStep, Careful
  <2>1. r # s /\ sweep'[r] = sweep[r]
    BY <1>10, <1>11
  <2>2. sweep[r].levels[t] <= task[t].level + 1
    BY <2>1 DEF SweepsInv, OneStep
  <2>3. task'[t].level = task[t].level \/ task'[t].level = task[t].level + 1
    BY <1>7, <1>9
  <2>4. sweep[r].levels[t] \in 0..MaxLevel /\ task[t].level \in 0..MaxLevel
    BY <1>3 DEF SweepRow, TaskRow
  <2> QED BY <2>1, <2>2, <2>3, <2>4
<1>18. OneSweep'
  BY <1>2, <1>10, <1>11 DEF SweepsInv, OneSweep
<1> QED BY <1>12, <1>13, <1>14, <1>15, <1>16, <1>17, <1>18 DEF SweepsInv

\* Nothing is left of a sweep that fails (SweepFails).
LEMMA KeepsSweeps_SweepFails ==
    ASSUME SweepsInv, NEW s \in Sweepers, SweepFails(s)
    PROVE  SweepsInv'
<1>1. /\ sweep' = [sweep EXCEPT ![s] = NoSweep]
      /\ UNCHANGED <<event, made, task, escalations, partner, overlap>>
  BY DEF SweepFails
<1>2. NoSweep \in SweepRow /\ ~NoSweep.open /\ sweep \in [Sweepers -> SweepRow]
  BY SweepsAssumption DEF NoSweep, SweepRow, SweepsInv, SweepsTypeOK
<1>3. \A r \in Sweepers : sweep'[r] = IF r = s THEN NoSweep ELSE sweep[r]
  BY <1>1, <1>2
<1>4. SweepsTypeOK' /\ CreatedOnce' /\ EscalatedOnce' /\ TaskHasEvent'
  BY <1>1, <1>2
  DEF SweepsInv, SweepsTypeOK, SweepRow, CreatedOnce, EscalatedOnce, Careful, TaskHasEvent
<1>5. EscalatesOld' /\ OneStep' /\ OneSweep'
  BY <1>1, <1>2, <1>3 DEF SweepsInv, EscalatesOld, OneStep, Careful, OneSweep
<1> QED BY <1>4, <1>5 DEF SweepsInv

\* Every step of the sweeps keeps what is known of them.
LEMMA SweepsStep == SweepsInv /\ [SweepsNext]_<<sweepsVars, overlap>> => SweepsInv'
<1> SUFFICES ASSUME SweepsInv, [SweepsNext]_<<sweepsVars, overlap>> PROVE SweepsInv'
  OBVIOUS
<1>1. CASE UNCHANGED <<sweepsVars, overlap>>
  BY <1>1 DEF sweepsVars, SweepsInv, SweepsTypeOK, CreatedOnce, EscalatedOnce, Careful,
              TaskHasEvent, EscalatesOld, OneStep, OneSweep
<1>2. CASE SweepsNext
  BY <1>2, KeepsSweeps_Tasks, KeepsSweeps_SweepRead, KeepsSweeps_SweepCommit, KeepsSweeps_SweepFails
     DEF SweepsNext
<1> QED BY <1>1, <1>2

\* Every variable of the sweeps keeps its type.
THEOREM SweepsTypeCorrect == SweepsSpec => []SweepsTypeOK
  BY SweepsStart, SweepsStep, PTL DEF SweepsSpec, SweepsInv

\* For any number of sweeps, deadlines, tasks and levels, the event of a deadline creates
\* its task once and a task is escalated once to each of its levels, if there is someone
\* to notify or the sweeps do not overlap.
THEOREM AlwaysSweptOnce == SweepsSpec => []SweptOnce
<1>1. SweepsInv => SweptOnce
  BY DEF SweepsInv, SweptOnce, CreatedOnce, EscalatedOnce, Careful
<1> QED BY <1>1, SweepsStart, SweepsStep, PTL DEF SweepsSpec
=============================================================================
