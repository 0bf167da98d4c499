------------------------------ MODULE JobQueue ------------------------------
(***************************************************************************)
(* The durable background queue: services/jobs/service.py, the predicates  *)
(* of services/jobs/engine.py and the loop of scripts/run_worker.py.       *)
(*                                                                         *)
(* One queue of one organisation.  The database rows are shared; every     *)
(* worker process has one long-lived ORM session, so what it read from a   *)
(* row (seen, known) stays as it was until the code refreshes it, while    *)
(* writes are absolute.  A transaction is split where the code awaits      *)
(* between a read and the commit that uses it, in a worker and in a        *)
(* request.  Row locks are PostgreSQL's: taken by FOR UPDATE, skipped by   *)
(* SKIP LOCKED, waited for by an UPDATE, released by the commit.           *)
(*                                                                         *)
(* Time is abstracted: a lease is live, expired or absent; a retry delay   *)
(* is over when a worker selects; jobs of one priority are taken in any    *)
(* order; recent counts the attempts of the last minute.                   *)
(***************************************************************************)
EXTENDS Naturals, FiniteSets, Sequences

CONSTANTS
    Jobs,              \* rows of background_jobs that may be created
    Workers,           \* worker processes (rows of background_workers)
    None,              \* SQL NULL
    MaxAttempts,       \* BackgroundJob.max_attempts
    MaxPerMinute,      \* BackgroundQueue.max_per_minute
    Batch,             \* how many rows one selection takes: .limit(25)
    Priority,          \* BackgroundJob.priority_value of each job
    QueueSettings,     \* what an administrator may set: [enabled, max_concurrency]
    Punctual,          \* TRUE: no live process or request stalls between two
                       \* of its steps for as long as a lease, a retry delay or
                       \* a manager's reaction to a job that ended takes
    CrashProne,        \* the workers that may be killed
    Cancellable,       \* the jobs some member may ask to cancel
    Managers,          \* the retry requests that may be open at once
    SoleManager,       \* TRUE: a job is reopened by one request at a time
    MaxManualRetries   \* bound on retry_job per job

Statuses == {"absent", "queued", "leased", "running", "retry_wait",
             "succeeded", "failed", "cancelled", "dead_letter"}
AttemptStatuses == {"leased", "running", "succeeded", "failed", "abandoned", "cancelled"}
WorkerStates == {"down", "idle", "sweeping", "swept", "claiming", "admitted",
                 "claimed", "leased", "running", "sleeping"}

\* Where a worker has a job in hand: from its admission to its outcome.
HandStates == {"admitted", "claimed", "leased", "running"}

TERMINAL_STATUSES == {"succeeded", "failed", "cancelled", "dead_letter"}
RUNNABLE_STATUSES == {"queued", "retry_wait"}
ActiveStatuses    == {"leased", "running"}

ASSUME ConstantsAssumption ==
    /\ MaxAttempts \in Nat /\ MaxPerMinute \in Nat /\ MaxManualRetries \in Nat
    /\ Batch \in Nat \ {0} /\ Priority \in [Jobs -> Nat]
    /\ None \notin Jobs \cup Workers \cup Statuses
    /\ Punctual \in BOOLEAN /\ SoleManager \in BOOLEAN
    /\ CrashProne \subseteq Workers /\ Cancellable \subseteq Jobs
    /\ QueueSettings \subseteq [enabled : BOOLEAN, max_concurrency : Nat]
    /\ QueueSettings # {} /\ None \notin QueueSettings

VARIABLES
    job,         \* background_jobs: one row per job
    attempt,     \* background_job_attempts of a job, in attempt_number order
    deps,        \* background_job_dependencies
    outputs,     \* the jobs with a "succeeded" row in background_job_events
    queue,       \* the background_queues row
    queueLock,   \* the worker whose transaction holds that row, or None
    recent,      \* attempts leased in the last minute
    manual,      \* how often retry_job reopened the job
    cancelling,  \* request_cancel between its read and its commit: the status read
    reopening,   \* retry_job between its read and its commit: the job, and
                 \* whether the row it loaded had a cancellation request
    pc,          \* where a worker is in main / claim_next / execute_claimed
    rows,        \* ORM rows a worker's current loop has still to handle
    seen,        \* what its session read from a row
    locks,       \* the job rows its transaction has locked
    known,       \* the queue row as claim_next loaded it first, or None
    hand         \* the job it is claiming or executing

dbVars     == <<job, attempt, deps, outputs, queue, recent, manual>>
sessionVars == <<pc, rows, seen, locks, known, hand, queueLock>>
requestVars == <<cancelling, reopening>>
vars == <<dbVars, sessionVars, requestVars>>

-----------------------------------------------------------------------------
\* max(1, k), as the code clamps every configured limit.
AtLeastOne(k) == IF k < 1 THEN 1 ELSE k

RetryOnceMore(n) == n <= AtLeastOne(MaxAttempts)              \* mutant: off by one
can_retry(n) == n < AtLeastOne(MaxAttempts)

NoRow   == [status |-> "absent", attempts |-> 0, cancel |-> FALSE,
            holder |-> None, lease |-> "none"]
Unread  == [n |-> 0, cancel |-> FALSE, active |-> FALSE]
NothingSeen == [j \in Jobs |-> Unread]
NoRequest == [on |-> None, cancel |-> FALSE]

Active == {j \in Jobs : job[j].status \in ActiveStatuses}
AnyLease == {j \in Active : job[j].lease # "none"}           \* mutant: no comparison with now
OnlyRunning == {j \in Active : job[j].status = "running" /\ job[j].lease = "expired"}
                                                            \* mutant: forgets leased jobs
Expired == {j \in Active : job[j].lease = "expired"}

\* An UPDATE of the row by worker w (None: an API call) need not wait.
Writable(j, w) == \A v \in Workers \ {w} : j \notin locks[v]

\* Mutant: a dependency blocks only once it has failed.
OptimisticDependencies(j) ==
    IF \E d \in deps[j] : job[d].status \in {"failed", "cancelled", "dead_letter"}
    THEN "impossible" ELSE "ready"

\* Mutant: a dependency that failed is waited for like any other.
PatientDependencies(j) ==
    IF \A d \in deps[j] : job[d].status = "succeeded" THEN "ready" ELSE "waiting"

\* Some other sweep still has to commit what it read of the row.
BeingSwept(j, w) == \E v \in Workers \ {w} : pc[v] = "sweeping" /\ j \in rows[v]

_dependency_state(j) ==
    LET reached == {job[d].status : d \in deps[j]}
    IN  IF reached \cap {"failed", "cancelled", "dead_letter"} # {} THEN "impossible"
        ELSE IF reached \subseteq {"succeeded"} THEN "ready" ELSE "waiting"

\* The queue row w decides by.  claim_next loads it once: locked again after
\* the commit in its loop, the row is still the object the session has.
Settings(w) == IF known[w] = None THEN queue ELSE known[w]

\* What claim_next checks before it leases; the counts are new queries.
HasCapacity(w) ==
    /\ Settings(w).enabled
    /\ Cardinality(Active) < AtLeastOne(Settings(w).max_concurrency)
    /\ recent < AtLeastOne(MaxPerMinute)

\* The status a job takes when its attempt n is lost or fails.
AttemptStatusOnJob(n, cancelSeen) ==              \* mutant: JobAttemptStatus for JobStatus
    IF cancelSeen THEN "cancelled"
    ELSE IF can_retry(n) THEN "retry_wait" ELSE "abandoned"
AfterFailure(n, cancelSeen) ==
    IF cancelSeen THEN "cancelled"
    ELSE IF can_retry(n) THEN "retry_wait" ELSE "dead_letter"

\* The row an attempt leaves on its job when worker w leases it.
LeasedForever(row, w, n) ==                                  \* mutant: lease_expires_at left NULL
    [row EXCEPT !.status = "leased", !.attempts = n, !.holder = w, !.lease = "none"]
Leased(row, w, n) ==
    [row EXCEPT !.status = "leased", !.attempts = n, !.holder = w, !.lease = "live"]

SetFirstAttempt(j, n, s) == [attempt EXCEPT ![j][1] = s]     \* mutant: no attempt_number filter
SetAttempt(j, n, s) == [attempt EXCEPT ![j][n] = s]

-----------------------------------------------------------------------------
Init ==
    /\ job = [j \in Jobs |-> NoRow]
    /\ attempt = [j \in Jobs |-> << >>]
    /\ deps = [j \in Jobs |-> {}]
    /\ outputs = {}
    /\ queue \in QueueSettings
    /\ queueLock = None
    /\ recent = 0
    /\ manual = [j \in Jobs |-> 0]
    /\ cancelling = [j \in Jobs |-> None]
    /\ reopening = [m \in Managers |-> NoRequest]
    /\ pc = [w \in Workers |-> "idle"]
    /\ rows = [w \in Workers |-> {}]
    /\ seen = [w \in Workers |-> NothingSeen]
    /\ locks = [w \in Workers |-> {}]
    /\ known = [w \in Workers |-> None]
    /\ hand = [w \in Workers |-> None]

\* The session of w drops its rows and ends its transaction in state s.
Settle(w, s) ==
    /\ pc' = [pc EXCEPT ![w] = s]
    /\ rows' = [rows EXCEPT ![w] = {}]
    /\ seen' = [seen EXCEPT ![w] = NothingSeen]
    /\ hand' = [hand EXCEPT ![w] = None]
    /\ locks' = [locks EXCEPT ![w] = {}]
    /\ known' = [known EXCEPT ![w] = None]
    /\ queueLock' = IF queueLock = w THEN None ELSE queueLock

-----------------------------------------------------------------------------
(* API calls.                                                              *)

enqueue(j, D) ==
    /\ job[j].status = "absent"
    /\ queue.enabled
    /\ \A d \in D : job[d].status # "absent"
    /\ job' = [job EXCEPT ![j].status = "queued"]
    /\ deps' = [deps EXCEPT ![j] = D]
    /\ UNCHANGED <<attempt, outputs, queue, recent, manual, sessionVars, requestVars>>

\* request_cancel reads the row (and checks matter access) ...
RequestCancelRead(j) ==
    /\ j \in Cancellable
    /\ cancelling[j] = None
    /\ job[j].status \notin TERMINAL_STATUSES \cup {"absent"}
    /\ cancelling' = [cancelling EXCEPT ![j] = job[j].status]
    /\ UNCHANGED <<dbVars, sessionVars, reopening>>

\* ... and commits what follows from the status it read.
RequestCancelCommit(j) ==
    /\ cancelling[j] # None
    /\ Writable(j, None)
    /\ job' = [job EXCEPT ![j].cancel = TRUE,
                          ![j].status = IF cancelling[j] \in RUNNABLE_STATUSES
                                        THEN "cancelled" ELSE @]
    /\ cancelling' = [cancelling EXCEPT ![j] = None]
    /\ UNCHANGED <<attempt, deps, outputs, queue, recent, manual, sessionVars, reopening>>

\* The requests that read j and have not yet committed.
Reopeners(j) == {m \in Managers : reopening[m].on = j}

\* No worker still has to act on what it read of the row.
Untouched(j) == \A w \in Workers : j \notin rows[w] /\ ~(pc[w] = "admitted" /\ hand[w] = j)

\* retry_job reads the row, unlocked, and awaits get_job's access check ...
RetryRead(m, j) ==
    /\ reopening[m] = NoRequest
    /\ job[j].status \in {"failed", "dead_letter", "cancelled"}
    /\ manual[j] + Cardinality(Reopeners(j)) < MaxManualRetries
    /\ Punctual => Untouched(j)
    /\ SoleManager => Reopeners(j) = {}
    /\ reopening' = [reopening EXCEPT ![m] = [on |-> j, cancel |-> job[j].cancel]]
    /\ UNCHANGED <<dbVars, sessionVars, cancelling>>

\* ... and queues the job whatever it is by then; a cancellation request is
\* written back to NULL only if the row was loaded with one.
RetryCommit(m) ==
    LET j == reopening[m].on
    IN  /\ j \in Jobs
        /\ Writable(j, None)
        /\ job' = [job EXCEPT ![j].status = "queued",
                              ![j].cancel = @ /\ ~reopening[m].cancel]
        /\ manual' = [manual EXCEPT ![j] = @ + 1]
        /\ reopening' = [reopening EXCEPT ![m] = NoRequest]
        /\ UNCHANGED <<attempt, deps, outputs, queue, recent, sessionVars, cancelling>>

update_queue ==
    /\ queueLock = None
    /\ queue' \in QueueSettings \ {queue}
    /\ UNCHANGED <<job, attempt, deps, outputs, recent, manual, sessionVars, requestVars>>

-----------------------------------------------------------------------------
(* Time.                                                                   *)

\* The worker that holds the lease still runs lease_loop for the job.
Renewing(j) == \E w \in Workers : /\ hand[w] = j /\ job[j].holder = w
                                  /\ pc[w] \in {"claimed", "leased", "running"}

LeaseExpires(j) ==
    /\ job[j].lease = "live"
    /\ job[j].status \in ActiveStatuses
    /\ Punctual => ~Renewing(j) /\ Reopeners(j) = {}
    /\ job' = [job EXCEPT ![j].lease = "expired"]
    /\ UNCHANGED <<attempt, deps, outputs, queue, recent, manual, sessionVars, requestVars>>

MinutePasses ==
    /\ recent > 0
    /\ recent' = recent - 1
    /\ UNCHANGED <<job, attempt, deps, outputs, queue, manual, sessionVars, requestVars>>

-----------------------------------------------------------------------------
(* requeue_expired_leases: read the expired rows without a lock, read each *)
(* row's attempt, commit.                                                  *)

SweepRead(w) ==
    /\ pc[w] = "idle"
    /\ Expired # {}
    /\ pc' = [pc EXCEPT ![w] = "sweeping"]
    /\ rows' = [rows EXCEPT ![w] = Expired]
    /\ seen' = [seen EXCEPT ![w] = [j \in Jobs |->
          IF j \in Expired
          THEN [n |-> job[j].attempts, cancel |-> job[j].cancel,
                active |-> attempt[j][job[j].attempts] \in ActiveStatuses]
          ELSE Unread]]
    /\ UNCHANGED <<dbVars, locks, known, hand, queueLock, requestVars>>

SweepCommit(w) ==
    /\ pc[w] = "sweeping"
    /\ \A j \in rows[w] : Writable(j, w)
    /\ job' = [j \in Jobs |->
          IF j \in rows[w]
          THEN [job[j] EXCEPT !.status = AfterFailure(seen[w][j].n, seen[w][j].cancel),
                              !.holder = None, !.lease = "none"]
          ELSE job[j]]
    /\ attempt' = [j \in Jobs |->
          IF j \in rows[w] /\ seen[w][j].active
          THEN [attempt[j] EXCEPT ![seen[w][j].n] = "abandoned"]
          ELSE attempt[j]]
    /\ Settle(w, "swept")
    /\ UNCHANGED <<deps, outputs, queue, recent, manual, requestVars>>

-----------------------------------------------------------------------------
(* claim_next: select the candidates FOR UPDATE SKIP LOCKED, then take     *)
(* them one by one.                                                        *)

Candidates(w) ==
    {j \in Jobs : /\ job[j].status \in RUNNABLE_STATUSES
                  /\ ~job[j].cancel
                  /\ Writable(j, w)
                  /\ Punctual => ~BeingSwept(j, w)}

ReadyToSelect(w) == pc[w] = "swept" \/ (pc[w] = "idle" /\ Expired = {})

\* The first rows by priority, at most Batch of them.
FirstRows(w, S) ==
    /\ S \subseteq Candidates(w)
    /\ S = Candidates(w) \/ Cardinality(S) = Batch
    /\ Cardinality(S) <= Batch
    /\ \A j \in S, k \in Candidates(w) \ S : Priority[k] <= Priority[j]

ClaimSelect(w, S) ==
    /\ ReadyToSelect(w)
    /\ S # {} /\ FirstRows(w, S)
    /\ pc' = [pc EXCEPT ![w] = "claiming"]
    /\ rows' = [rows EXCEPT ![w] = S]
    /\ locks' = [locks EXCEPT ![w] = S]
    /\ seen' = [seen EXCEPT ![w] = [j \in Jobs |->
          IF j \in S THEN [Unread EXCEPT !.n = job[j].attempts] ELSE Unread]]
    /\ UNCHANGED <<dbVars, known, hand, queueLock, requestVars>>

ClaimNothing(w) ==
    /\ pc[w] = "swept"
    /\ Candidates(w) = {}
    /\ Settle(w, "idle")
    /\ UNCHANGED <<dbVars, requestVars>>

\* The loop takes its rows in the order of their priorities.
IsNext(w, j) == j \in rows[w] /\ \A k \in rows[w] : Priority[k] <= Priority[j]

Skip(w, j) == rows' = [rows EXCEPT ![w] = @ \ {j}]

ClaimWaiting(w, j) ==
    /\ pc[w] = "claiming" /\ IsNext(w, j)
    /\ _dependency_state(j) = "waiting"
    /\ Skip(w, j)
    /\ UNCHANGED <<dbVars, pc, seen, locks, known, hand, queueLock, requestVars>>

\* The commit in the middle of the loop gives up every lock of the
\* transaction, those of the candidates still to come included.
ClaimImpossible(w, j) ==
    /\ pc[w] = "claiming" /\ IsNext(w, j)
    /\ _dependency_state(j) = "impossible"
    /\ Writable(j, w)
    /\ job' = [job EXCEPT ![j].status = "dead_letter"]
    /\ Skip(w, j)
    /\ locks' = [locks EXCEPT ![w] = {}]
    /\ queueLock' = IF queueLock = w THEN None ELSE queueLock
    /\ UNCHANGED <<attempt, deps, outputs, queue, recent, manual, pc, seen, known, hand, requestVars>>

\* SELECT ... FOR UPDATE of the queue row waits until no other worker has it.
\* Mutant: the queue row is read without FOR UPDATE.
ReadQueue(w, j) ==
    /\ pc[w] = "claiming" /\ IsNext(w, j)
    /\ _dependency_state(j) = "ready"
    /\ known' = [known EXCEPT ![w] = Settings(w)]
    /\ UNCHANGED queueLock

LockQueue(w, j) ==
    /\ pc[w] = "claiming" /\ IsNext(w, j)
    /\ _dependency_state(j) = "ready"
    /\ queueLock \in {None, w}
    /\ queueLock' = w
    /\ known' = [known EXCEPT ![w] = Settings(w)]

ClaimPostponed(w, j) ==
    /\ LockQueue(w, j)
    /\ ~HasCapacity(w)
    /\ Skip(w, j)
    /\ UNCHANGED <<dbVars, pc, seen, locks, hand, requestVars>>

ClaimAdmitted(w, j) ==
    /\ LockQueue(w, j)
    /\ HasCapacity(w)
    /\ pc' = [pc EXCEPT ![w] = "admitted"]
    /\ hand' = [hand EXCEPT ![w] = j]
    /\ rows' = [rows EXCEPT ![w] = {}]
    /\ UNCHANGED <<dbVars, seen, locks, requestVars>>

\* UniqueConstraint("job_id", "attempt_number") refuses the insert.
NoUniqueConstraint(j, n) == FALSE                            \* mutant
AttemptExists(j, n) == n \in DOMAIN attempt[j]

ClaimCommit(w) ==
    LET j == hand[w]
        n == seen[w][j].n + 1
    IN  /\ pc[w] = "admitted"
        /\ Writable(j, w)
        /\ ~AttemptExists(j, n)
        /\ job' = [job EXCEPT ![j] = Leased(@, w, n)]
        /\ attempt' = [attempt EXCEPT ![j] = Append(@, "leased")]
        /\ recent' = recent + 1
        /\ pc' = [pc EXCEPT ![w] = "claimed"]
        /\ seen' = [seen EXCEPT ![w] = [NothingSeen EXCEPT ![j].n = n]]
        /\ locks' = [locks EXCEPT ![w] = {}]
        /\ known' = [known EXCEPT ![w] = None]
        /\ queueLock' = None
        /\ UNCHANGED <<deps, outputs, queue, manual, rows, hand, requestVars>>

\* claim_next returns None without a commit: the sleeping worker keeps its
\* locks until the heartbeat of the next round.
ClaimExhausted(w) ==
    /\ pc[w] = "claiming"
    /\ rows[w] = {}
    /\ pc' = [pc EXCEPT ![w] = "sleeping"]
    /\ seen' = [seen EXCEPT ![w] = NothingSeen]
    /\ known' = [known EXCEPT ![w] = None]
    /\ UNCHANGED <<dbVars, rows, locks, hand, queueLock, requestVars>>

heartbeat(w) ==
    /\ pc[w] = "sleeping"
    /\ Settle(w, "idle")
    /\ UNCHANGED <<dbVars, requestVars>>

-----------------------------------------------------------------------------
(* execute_claimed.                                                        *)

\* claim_next ends with db.refresh; execute_claimed compares the holder.
ClaimRefresh(w) ==
    LET j == hand[w]
    IN  /\ pc[w] = "claimed"
        /\ job[j].holder = w
        /\ pc' = [pc EXCEPT ![w] = "leased"]
        /\ seen' = [seen EXCEPT ![w][j] = [n |-> job[j].attempts,
                                          cancel |-> job[j].cancel, active |-> FALSE]]
        /\ UNCHANGED <<dbVars, rows, locks, known, hand, queueLock, requestVars>>

ExecuteCancelled(w) ==
    LET j == hand[w]
    IN  /\ pc[w] = "leased"
        /\ seen[w][j].cancel
        /\ Writable(j, w)
        /\ job' = [job EXCEPT ![j].status = "cancelled"]
        /\ attempt' = SetAttempt(j, seen[w][j].n, "cancelled")
        /\ Settle(w, "idle")
        /\ UNCHANGED <<deps, outputs, queue, recent, manual, requestVars>>

ExecuteStart(w) ==
    LET j == hand[w]
    IN  /\ pc[w] = "leased"
        /\ ~seen[w][j].cancel
        /\ Writable(j, w)
        /\ job' = [job EXCEPT ![j].status = "running"]
        /\ attempt' = SetAttempt(j, seen[w][j].n, "running")
        /\ pc' = [pc EXCEPT ![w] = "running"]
        /\ UNCHANGED <<deps, outputs, queue, recent, manual, rows, seen, locks, known, hand,
                       queueLock, requestVars>>

\* The handler returned: nothing read from the row decides the outcome.
ExecuteSucceeded(w) ==
    LET j == hand[w]
    IN  /\ pc[w] = "running"
        /\ Writable(j, w)
        /\ job' = [job EXCEPT ![j].status = "succeeded", ![j].lease = "none"]
        /\ attempt' = SetAttempt(j, seen[w][j].n, "succeeded")
        /\ outputs' = outputs \cup {j}
        /\ Settle(w, "idle")
        /\ UNCHANGED <<deps, queue, recent, manual, requestVars>>

\* The handler raised: what was read before it ran decides the outcome.
ExecuteFailed(w) ==
    LET j == hand[w]
    IN  /\ pc[w] = "running"
        /\ Writable(j, w)
        /\ job' = [job EXCEPT ![j].status = AfterFailure(seen[w][j].n, seen[w][j].cancel),
                              ![j].lease = "none"]
        /\ attempt' = SetAttempt(j, seen[w][j].n, "failed")
        /\ Settle(w, "idle")
        /\ UNCHANGED <<deps, outputs, queue, recent, manual, requestVars>>

\* renew_lease, from lease_loop's own session.
renew_lease(w) ==
    LET j == hand[w]
    IN  /\ pc[w] \in {"leased", "running"}
        /\ job[j].holder = w
        /\ job[j].status \in ActiveStatuses
        /\ job[j].lease # "live"
        /\ Writable(j, None)
        /\ job' = [job EXCEPT ![j].lease = "live"]
        /\ UNCHANGED <<attempt, deps, outputs, queue, recent, manual, sessionVars, requestVars>>

-----------------------------------------------------------------------------
(* The end of a worker process: killed, or ended by an exception that      *)
(* main() does not catch.                                                  *)

Stop(w) == Settle(w, "down") /\ UNCHANGED <<dbVars, requestVars>>

Crash(w) == w \in CrashProne /\ pc[w] # "down" /\ Stop(w)

\* IntegrityError from the second attempt row with the same number.
DuplicateAttempt(w) ==
    /\ pc[w] = "admitted"
    /\ AttemptExists(hand[w], seen[w][hand[w]].n + 1)
    /\ Stop(w)

\* RuntimeError("Job is not leased by this worker").
NotTheHolder(w) == pc[w] = "claimed" /\ job[hand[w]].holder # w /\ Stop(w)

\* v waits for the queue row that w has, w for a job row that v has:
\* PostgreSQL aborts one of the two.
DeadlockVictim(w, v) ==
    /\ queueLock = w /\ pc[v] = "claiming"
    /\ \E j \in Jobs : IsNext(v, j) /\ _dependency_state(j) = "ready"
    /\ \/ pc[w] = "admitted" /\ hand[w] \in locks[v]
       \/ \E j \in locks[v] : IsNext(w, j) /\ _dependency_state(j) = "impossible"
    /\ Stop(w) \/ Stop(v)

register_worker(w) ==
    /\ pc[w] = "down"
    /\ pc' = [pc EXCEPT ![w] = "idle"]
    /\ UNCHANGED <<dbVars, rows, seen, locks, known, hand, queueLock, requestVars>>

-----------------------------------------------------------------------------
Client == \/ \E j \in Jobs, D \in SUBSET Jobs : enqueue(j, D)
          \/ \E j \in Jobs : RequestCancelRead(j) \/ RequestCancelCommit(j)
          \/ \E m \in Managers : RetryCommit(m) \/ \E j \in Jobs : RetryRead(m, j)
          \/ update_queue

Clock == MinutePasses \/ \E j \in Jobs : LeaseExpires(j)

Sweep(w) == SweepRead(w) \/ SweepCommit(w)

Claim(w) == \/ \E S \in SUBSET Jobs : ClaimSelect(w, S)
            \/ ClaimNothing(w) \/ ClaimExhausted(w) \/ heartbeat(w)
            \/ \E j \in Jobs : \/ ClaimWaiting(w, j) \/ ClaimImpossible(w, j)
                               \/ ClaimPostponed(w, j) \/ ClaimAdmitted(w, j)
            \/ ClaimCommit(w)

Execute(w) == \/ ClaimRefresh(w) \/ ExecuteCancelled(w) \/ ExecuteStart(w)
              \/ ExecuteSucceeded(w) \/ ExecuteFailed(w)

Process(w) == \/ Crash(w) \/ DuplicateAttempt(w) \/ NotTheHolder(w)
              \/ \E v \in Workers : DeadlockVictim(w, v)
              \/ register_worker(w)

Next == \/ Client \/ Clock
        \/ \E w \in Workers : Sweep(w) \/ Claim(w) \/ Execute(w) \/ renew_lease(w) \/ Process(w)

Spec == Init /\ [][Next]_vars

(***************************************************************************)
(* Fairness: the container restarts a worker that ended, its loop goes on, *)
(* a handler returns or raises, clocks advance, PostgreSQL breaks a cycle  *)
(* of waits, and its lock queue is first come first served: a worker that  *)
(* waits for the queue row gets it in the end (hence SF).  A request that  *)
(* read a row commits, and a worker is killed only finitely often.  There  *)
(* is no fairness for requests, renewals or kills.                         *)
(***************************************************************************)
Fairness ==
    /\ WF_vars(MinutePasses)
    /\ \A j \in Jobs : WF_vars(LeaseExpires(j)) /\ WF_vars(RequestCancelCommit(j))
    /\ \A m \in Managers : WF_vars(RetryCommit(m))
    /\ \A w \in Workers :
          /\ WF_vars(Sweep(w)) /\ WF_vars(Claim(w)) /\ WF_vars(Execute(w))
          /\ WF_vars(DuplicateAttempt(w)) /\ WF_vars(NotTheHolder(w))
          /\ WF_vars(\E v \in Workers : DeadlockVictim(w, v))
          /\ WF_vars(register_worker(w)) /\ <>[][~Crash(w)]_vars
          /\ SF_vars(\E j \in Jobs : ClaimPostponed(w, j) \/ ClaimAdmitted(w, j))

FairSpec == Spec /\ Fairness

-----------------------------------------------------------------------------
(* Properties.                                                             *)

JobRow == [status : Statuses, attempts : Nat, cancel : BOOLEAN,
           holder : Workers \cup {None}, lease : {"none", "live", "expired"}]
ReadRow == [n : Nat, cancel : BOOLEAN, active : BOOLEAN]

\* Every variable keeps its type: the tables' columns and the sessions.
TypeOK ==
    /\ job \in [Jobs -> JobRow]
    /\ attempt \in [Jobs -> Seq(AttemptStatuses)]
    /\ deps \in [Jobs -> SUBSET Jobs]
    /\ outputs \subseteq Jobs
    /\ queue \in QueueSettings
    /\ queueLock \in Workers \cup {None}
    /\ recent \in Nat
    /\ manual \in [Jobs -> Nat]
    /\ cancelling \in [Jobs -> Statuses \cup {None}]
    /\ reopening \in [Managers -> [on : Jobs \cup {None}, cancel : BOOLEAN]]
    /\ pc \in [Workers -> WorkerStates]
    /\ rows \in [Workers -> SUBSET Jobs]
    /\ seen \in [Workers -> [Jobs -> ReadRow]]
    /\ locks \in [Workers -> SUBSET Jobs]
    /\ known \in [Workers -> QueueSettings \cup {None}]
    /\ hand \in [Workers -> Jobs \cup {None}]
    /\ \A w \in Workers : pc[w] \in HandStates => hand[w] \in Jobs

\* attempt_count is the number of attempt rows, which are numbered without
\* a gap: no claim is lost or counted twice, although claim_next may write
\* a count it read before it gave up the row's lock.
AttemptLedger == \A j \in Jobs : job[j].attempts = Len(attempt[j])

\* A job that a worker ever leased has only dependencies that completed and
\* left their output, whatever was reclaimed, overwritten or cancelled since.
DependenciesHonoured ==
    \A j \in Jobs : job[j].attempts > 0 => deps[j] \subseteq outputs

\* With punctual workers, and retry requests that do not overlap, no two
\* workers run the handler of one job.
SingleExecution ==
    \A v, w \in Workers :
        pc[v] = "running" /\ pc[w] = "running" /\ hand[v] = hand[w] => v = w

\* A leased or running job keeps a lease that can expire, so the sweep can
\* always take it back from a worker that died.
LeasedIsRecoverable == \A j \in Active : job[j].lease # "none"

AddsWithinLimit == Cardinality(Active') > Cardinality(Active) =>
    \E w \in Workers : /\ pc[w] = "admitted" /\ known[w] # None
                      /\ Cardinality(Active') <= AtLeastOne(known[w].max_concurrency)

\* A step that adds to the leased and running jobs leaves no more of them
\* than the max_concurrency its worker loaded when it first locked the queue
\* row, however many workers claim at once.
LeaseWithinLimit == [][AddsWithinLimit]_vars

\* Only failed, dead-lettered or cancelled jobs can be retried: no retry puts
\* a leased, running or completed job back in the queue.
NoLiveJobRetried ==
    [][\A j \in Jobs : manual'[j] > manual[j]
          => job[j].status \notin ActiveStatuses \cup {"succeeded"}]_vars

\* Queues support enable/disable controls: a disabled queue leases no job.
LeasedOnlyWhileEnabled ==
    [][(\E j \in Jobs : job'[j].attempts > job[j].attempts) => queue.enabled]_vars

\* The outcome recorded for an attempt is final: nothing rewrites the row of
\* an attempt that succeeded, failed, was cancelled or abandoned.
AttemptOutcomeFinal ==
    [][\A j \in Jobs : \A n \in DOMAIN attempt[j] :
          attempt[j][n] \notin ActiveStatuses => attempt'[j][n] = attempt[j][n]]_vars

\* Exhausted jobs move to the dead-letter queue: a job gets max_attempts
\* attempts, and one more for each manual retry.
RetryBudget == \A j \in Jobs : job[j].attempts <= AtLeastOne(MaxAttempts) + manual[j]

\* No more jobs wait than one selection takes.
AllSelected == Cardinality({j \in Jobs : job[j].status \in RUNNABLE_STATUSES}) <= Batch

\* Every queued job is decided in the end, as long as no more jobs wait than
\* one selection takes: it succeeds or is dead-lettered.
EveryJobEnds ==
    []AllSelected =>
        \A j \in Jobs : (job[j].status = "queued") ~> (job[j].status \in TERMINAL_STATUSES)

\* A job whose dependency permanently failed dead-letters rather than waiting
\* for ever.
DependentsNotStranded ==
    \A j, d \in Jobs : (d \in deps[j] /\ job[d].status = "dead_letter")
                          ~> (job[j].status = "dead_letter")

\* The same, as long as no more jobs wait than one selection takes.
DependentsEnd == []AllSelected => DependentsNotStranded

\* A cancellation request ends the job: at once when it is queued, at the
\* end of its handler when it runs.
CancellationHonoured ==
    \A j \in Jobs : job[j].cancel ~> (job[j].status \in TERMINAL_STATUSES)

-----------------------------------------------------------------------------
(* What the queue implements.                                              *)

Phase(status) ==
    CASE status = "absent" -> "unknown"
      [] status \in RUNNABLE_STATUSES -> "waiting"
      [] status \in ActiveStatuses -> "executing"
      [] status = "succeeded" -> "succeeded"
      [] OTHER -> "dead"

Lifecycle == INSTANCE JobLifecycle WITH
    Budget <- AtLeastOne(MaxAttempts),
    phase <- [j \in Jobs |-> Phase(job[j].status)],
    tries <- [j \in Jobs |-> job[j].attempts],
    reopened <- manual,
    prerequisites <- deps

\* Workers that crash, sweep and compete for rows and locks implement the
\* life cycle the documentation promises, step by step.
ImplementsLifecycle == Lifecycle!Spec
=============================================================================
