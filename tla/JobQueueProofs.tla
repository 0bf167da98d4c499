--------------------------- MODULE JobQueueProofs ---------------------------
(***************************************************************************)
(* Proofs about JobQueue for any number of jobs and workers, any           *)
(* dependencies, and with every fault the module has: crashes, expired     *)
(* leases of live workers, sweeps, cancellations and retries that commit   *)
(* late.  For outcomes workers renew in time; from exclusive execution on, *)
(* nobody cancels and a job is reopened by one request at a time.          *)
(***************************************************************************)
EXTENDS JobQueue, SequenceTheorems, FiniteSetTheorems, TLAPS

-----------------------------------------------------------------------------
(* Types.                                                                  *)

\* Replacing one row keeps a table's type.
LEMMA ExceptAny ==
    ASSUME NEW T, NEW q \in Seq(T), NEW n, NEW e \in T
    PROVE  /\ [q EXCEPT ![n] = e] \in Seq(T)
           /\ Len([q EXCEPT ![n] = e]) = Len(q)
<1>1. CASE n \in 1 .. Len(q)
  BY <1>1, ExceptSeq
<1>2. CASE n \notin 1 .. Len(q)
  <2>1. q \in [1 .. Len(q) -> T]
    OBVIOUS
  <2>2. [q EXCEPT ![n] = e] = q
    BY <1>2, <2>1
  <2> QED BY <2>2
<1> QED BY <1>1, <1>2

\* Updating the status of an attempt row adds and removes none.
LEMMA SetAttemptType ==
    ASSUME TypeOK, NEW j, NEW n, NEW s \in AttemptStatuses
    PROVE  /\ SetAttempt(j, n, s) \in [Jobs -> Seq(AttemptStatuses)]
           /\ \A i \in Jobs : Len(SetAttempt(j, n, s)[i]) = Len(attempt[i])
<1>1. CASE j \in Jobs
  <2> DEFINE q == attempt[j]
             r == [q EXCEPT ![n] = s]
  <2>1. q \in Seq(AttemptStatuses)
    BY <1>1 DEF TypeOK
  <2>2. SetAttempt(j, n, s) = [attempt EXCEPT ![j] = r]
    BY DEF SetAttempt
  <2> HIDE DEF q
  <2>3. r \in Seq(AttemptStatuses) /\ Len(r) = Len(q)
    BY <2>1, ExceptAny
  <2> HIDE DEF r
  <2> QED BY <1>1, <2>2, <2>3 DEF TypeOK, q
<1>2. CASE j \notin Jobs
  <2>1. SetAttempt(j, n, s) = attempt
    BY <1>2 DEF SetAttempt, TypeOK
  <2> QED BY <2>1 DEF TypeOK
<1> QED BY <1>1, <1>2

LeaseStates == {"none", "live", "expired"}

\* The types of a row's columns.
LEMMA RowType ==
    ASSUME NEW r \in JobRow, NEW s \in Statuses, NEW b \in BOOLEAN, NEW l \in LeaseStates
    PROVE  /\ [r EXCEPT !.status = s] \in JobRow
           /\ [r EXCEPT !.lease = l] \in JobRow
           /\ [r EXCEPT !.status = s, !.cancel = b] \in JobRow
           /\ [r EXCEPT !.cancel = b, !.status = s] \in JobRow
           /\ [r EXCEPT !.status = s, !.lease = l] \in JobRow
           /\ [r EXCEPT !.status = s, !.holder = None, !.lease = l] \in JobRow
  BY DEF JobRow, LeaseStates

\* Writing one row of the right type keeps the job table's type.
LEMMA RowUpdate ==
    ASSUME TypeOK, NEW j, NEW r, j \in Jobs => r \in JobRow
    PROVE  [job EXCEPT ![j] = r] \in [Jobs -> JobRow]
  BY DEF TypeOK

\* A leased row is a row.
LEMMA LeasedType ==
    ASSUME NEW r \in JobRow, NEW w \in Workers, NEW n \in Nat
    PROVE  Leased(r, w, n) \in JobRow
  BY DEF Leased, JobRow, Statuses

\* A failed attempt leads to one of the two statuses of engine.py.
LEMMA AfterFailureType ==
    ASSUME NEW n, NEW c
    PROVE  AfterFailure(n, c) \in Statuses \ {"absent", "succeeded"}
  BY DEF AfterFailure, Statuses

\* A session that ends keeps the types.
LEMMA SettleType ==
    ASSUME TypeOK, NEW w \in Workers, NEW s \in WorkerStates \ HandStates, Settle(w, s)
    PROVE  /\ pc' \in [Workers -> WorkerStates]
           /\ rows' \in [Workers -> SUBSET Jobs]
           /\ seen' \in [Workers -> [Jobs -> ReadRow]]
           /\ locks' \in [Workers -> SUBSET Jobs]
           /\ known' \in [Workers -> QueueSettings \cup {None}]
           /\ hand' \in [Workers -> Jobs \cup {None}]
           /\ queueLock' \in Workers \cup {None}
           /\ \A v \in Workers : pc'[v] \in HandStates => hand'[v] \in Jobs
  BY DEF TypeOK, Settle, NothingSeen, Unread, ReadRow, HandStates

\* What a retry request leaves when it commits.
Reopened(m, j, c) ==
    /\ reopening[m].on = j /\ (c => job[j].cancel)
    /\ job' = [job EXCEPT ![j] = [job[j] EXCEPT !.status = "queued", !.cancel = c]]
    /\ manual' = [manual EXCEPT ![j] = @ + 1]
    /\ UNCHANGED <<attempt, deps, outputs, queue, recent, sessionVars, cancelling>>

\* It writes the row it read, whatever the row is by then.
LEMMA RetryRow ==
    ASSUME TypeOK, NEW m \in Managers, RetryCommit(m)
    PROVE  \E j \in Jobs, c \in BOOLEAN : Reopened(m, j, c)
<1> DEFINE j == reopening[m].on
           c == job[j].cancel /\ ~reopening[m].cancel
<1>1. j \in Jobs /\ c \in BOOLEAN
  BY DEF RetryCommit, TypeOK
<1>2. Reopened(m, j, c)
  BY DEF RetryCommit, Reopened
<1> QED BY <1>1, <1>2

\* The empty tables have their types.
LEMMA TypeInit == Init => TypeOK
  BY ConstantsAssumption
     DEF Init, TypeOK, NoRequest, NoRow, JobRow, Statuses, NothingSeen, Unread, ReadRow, WorkerStates, HandStates

\* Every step keeps the types, action by action.
LEMMA TypeNext == TypeOK /\ [Next]_vars => TypeOK'
<1> SUFFICES ASSUME TypeOK, [Next]_vars PROVE TypeOK'
  OBVIOUS
<1>1. CASE Client
  <2>1. ASSUME NEW j \in Jobs, NEW D \in SUBSET Jobs, enqueue(j, D) PROVE TypeOK'
    <3>1. job' \in [Jobs -> JobRow]
      <4>1. job' = [job EXCEPT ![j] = [job[j] EXCEPT !.status = "queued"]]
        BY <2>1 DEF enqueue
      <4> QED BY <4>1, RowType, RowUpdate DEF TypeOK, Statuses, LeaseStates
    <3>2. deps' \in [Jobs -> SUBSET Jobs]
      BY <2>1 DEF enqueue, TypeOK
    <3>3. UNCHANGED <<attempt, outputs, queue, recent, manual, sessionVars, requestVars>>
      BY <2>1 DEF enqueue
    <3> QED BY <3>1, <3>2, <3>3 DEF sessionVars, requestVars, TypeOK
  <2>2. ASSUME NEW j \in Jobs, RequestCancelRead(j) PROVE TypeOK'
    BY <2>2 DEF RequestCancelRead, dbVars, sessionVars, requestVars, TypeOK, JobRow, Statuses
  <2>3. ASSUME NEW j \in Jobs, RequestCancelCommit(j) PROVE TypeOK'
    <3> DEFINE st == IF cancelling[j] \in RUNNABLE_STATUSES
                     THEN "cancelled" ELSE job[j].status
    <3>1. job' = [job EXCEPT ![j] = [job[j] EXCEPT !.cancel = TRUE, !.status = st]]
      BY <2>3 DEF RequestCancelCommit
    <3>2. job[j] \in JobRow /\ st \in Statuses
      BY DEF requestVars, TypeOK, JobRow, Statuses
    <3>3. job' \in [Jobs -> JobRow]
      BY <3>1, <3>2, RowType, RowUpdate DEF LeaseStates
    <3> QED BY <2>3, <3>3 DEF RequestCancelCommit, sessionVars, requestVars, TypeOK
  <2>4. ASSUME NEW m \in Managers, RetryCommit(m) PROVE TypeOK'
    <3>1. PICK j \in Jobs, c \in BOOLEAN : Reopened(m, j, c)
      BY <2>4, RetryRow
    <3>2. job' = [job EXCEPT ![j] = [job[j] EXCEPT !.status = "queued", !.cancel = c]]
      BY <3>1 DEF Reopened
    <3>3. job' \in [Jobs -> JobRow]
      BY <3>2, RowType, RowUpdate DEF TypeOK, Statuses, LeaseStates
    <3>4. reopening' \in [Managers -> [on : Jobs \cup {None}, cancel : BOOLEAN]]
      BY <2>4 DEF RetryCommit, NoRequest, TypeOK
    <3> QED BY <2>4, <3>3, <3>4 DEF RetryCommit, sessionVars, TypeOK
  <2>6. ASSUME NEW m \in Managers, NEW j \in Jobs, RetryRead(m, j) PROVE TypeOK'
    <3>1. reopening' \in [Managers -> [on : Jobs \cup {None}, cancel : BOOLEAN]]
      BY <2>6 DEF RetryRead, TypeOK, JobRow
    <3> QED BY <2>6, <3>1 DEF RetryRead, dbVars, sessionVars, TypeOK
  <2>5. CASE update_queue
    BY <2>5 DEF update_queue, sessionVars, requestVars, TypeOK
  <2> QED BY <1>1, <2>1, <2>2, <2>3, <2>4, <2>5, <2>6 DEF Client
<1>2. CASE Clock
  <2>1. CASE MinutePasses
    BY <2>1 DEF MinutePasses, sessionVars, requestVars, TypeOK
  <2>2. ASSUME NEW j \in Jobs, LeaseExpires(j) PROVE TypeOK'
    BY <2>2 DEF LeaseExpires, sessionVars, requestVars, TypeOK, JobRow
  <2> QED BY <1>2, <2>1, <2>2 DEF Clock
<1>3. ASSUME NEW w \in Workers, Sweep(w) PROVE TypeOK'
  <2>1. CASE SweepRead(w)
    BY <2>1 DEF SweepRead, dbVars, requestVars, TypeOK, Expired, Active, Unread, ReadRow, JobRow, WorkerStates, HandStates
  <2>2. CASE SweepCommit(w)
    <3>1. job' \in [Jobs -> JobRow]
      <4> DEFINE lost(j) == [job[j] EXCEPT !.status = AfterFailure(seen[w][j].n, seen[w][j].cancel),
                                           !.holder = None, !.lease = "none"]
      <4>1. ASSUME NEW j \in Jobs PROVE job[j] \in JobRow /\ lost(j) \in JobRow
        BY AfterFailureType, RowType DEF requestVars, TypeOK, LeaseStates
      <4>2. job' = [j \in Jobs |-> IF j \in rows[w] THEN lost(j) ELSE job[j]]
        BY <2>2 DEF SweepCommit
      <4> HIDE DEF lost
      <4> QED BY <4>1, <4>2
    <3>2. attempt' \in [Jobs -> Seq(AttemptStatuses)]
      <4> DEFINE lost(j) == [attempt[j] EXCEPT ![seen[w][j].n] = "abandoned"]
      <4>1. ASSUME NEW j \in Jobs
            PROVE  attempt[j] \in Seq(AttemptStatuses) /\ lost(j) \in Seq(AttemptStatuses)
        <5> DEFINE q == attempt[j]
                   n == seen[w][j].n
        <5>1. q \in Seq(AttemptStatuses) /\ "abandoned" \in AttemptStatuses
          BY DEF requestVars, TypeOK, AttemptStatuses
        <5> HIDE DEF q, n
        <5>2. [q EXCEPT ![n] = "abandoned"] \in Seq(AttemptStatuses)
          BY <5>1, ExceptAny
        <5> QED BY <5>1, <5>2 DEF q, n
      <4>2. attempt' = [j \in Jobs |-> IF j \in rows[w] /\ seen[w][j].active
                                       THEN lost(j) ELSE attempt[j]]
        BY <2>2 DEF SweepCommit
      <4> HIDE DEF lost
      <4> QED BY <4>1, <4>2
    <3> QED BY <2>2, <3>1, <3>2, SettleType DEF SweepCommit, requestVars, TypeOK, WorkerStates, HandStates
  <2> QED BY <1>3, <2>1, <2>2 DEF Sweep
<1>4. ASSUME NEW w \in Workers, Claim(w) PROVE TypeOK'
  <2>1. ASSUME NEW S \in SUBSET Jobs, ClaimSelect(w, S) PROVE TypeOK'
    BY <2>1 DEF ClaimSelect, dbVars, requestVars, TypeOK, Unread, ReadRow, JobRow, WorkerStates, HandStates
  <2>2. CASE ClaimNothing(w)
    BY <2>2, SettleType DEF ClaimNothing, dbVars, requestVars, TypeOK, WorkerStates, HandStates
  <2>3. CASE ClaimExhausted(w)
    BY <2>3 DEF ClaimExhausted, dbVars, requestVars, TypeOK, NothingSeen, Unread, ReadRow, WorkerStates, HandStates
  <2>4. CASE heartbeat(w)
    BY <2>4, SettleType DEF heartbeat, dbVars, requestVars, TypeOK, WorkerStates, HandStates
  <2>5. ASSUME NEW j \in Jobs, ClaimWaiting(w, j) PROVE TypeOK'
    BY <2>5 DEF ClaimWaiting, Skip, dbVars, requestVars, TypeOK
  <2>6. ASSUME NEW j \in Jobs, ClaimImpossible(w, j) PROVE TypeOK'
    <3>1. job' \in [Jobs -> JobRow]
      BY <2>6, RowType, RowUpdate DEF ClaimImpossible, TypeOK, Statuses, LeaseStates
    <3> QED BY <2>6, <3>1 DEF ClaimImpossible, Skip, requestVars, TypeOK
  <2>7. ASSUME NEW j \in Jobs, ClaimPostponed(w, j) PROVE TypeOK'
    BY <2>7 DEF ClaimPostponed, LockQueue, Settings, Skip, dbVars, requestVars, TypeOK
  <2>8. ASSUME NEW j \in Jobs, ClaimAdmitted(w, j) PROVE TypeOK'
    BY <2>8 DEF ClaimAdmitted, LockQueue, Settings, dbVars, requestVars, TypeOK, WorkerStates, HandStates
  <2>9. CASE ClaimCommit(w)
    <3> DEFINE j == hand[w]
               n == seen[w][j].n + 1
    <3>1. j \in Jobs
      BY <2>9 DEF ClaimCommit, requestVars, TypeOK, HandStates
    <3>2. n \in Nat
      BY <3>1 DEF requestVars, TypeOK, ReadRow
    <3>3. job' \in [Jobs -> JobRow]
      <4>1. Leased(job[j], w, n) \in JobRow
        BY <3>1, <3>2, LeasedType DEF requestVars, TypeOK
      <4> QED BY <2>9, <4>1, RowUpdate DEF ClaimCommit
    <3>4. attempt' \in [Jobs -> Seq(AttemptStatuses)]
      BY <2>9, <3>1 DEF ClaimCommit, requestVars, TypeOK, AttemptStatuses
    <3>5. seen' \in [Workers -> [Jobs -> ReadRow]]
      BY <2>9, <3>1, <3>2 DEF ClaimCommit, requestVars, TypeOK, NothingSeen, Unread, ReadRow
    <3> QED BY <2>9, <3>1, <3>3, <3>4, <3>5 DEF ClaimCommit, requestVars, TypeOK, WorkerStates, HandStates
  <2> QED BY <1>4, <2>1, <2>2, <2>3, <2>4, <2>5, <2>6, <2>7, <2>8, <2>9 DEF Claim
<1>5. ASSUME NEW w \in Workers, Execute(w) PROVE TypeOK'
  <2>1. CASE ClaimRefresh(w)
    <3> DEFINE j == hand[w]
               r == [n |-> job[j].attempts, cancel |-> job[j].cancel, active |-> FALSE]
    <3>1. seen' = [seen EXCEPT ![w] = [seen[w] EXCEPT ![j] = r]]
      BY <2>1 DEF ClaimRefresh
    <3>2. j \in Jobs => r \in ReadRow
      BY DEF requestVars, TypeOK, ReadRow, JobRow
    <3>3. seen \in [Workers -> [Jobs -> ReadRow]] /\ seen[w] \in [Jobs -> ReadRow]
      BY DEF requestVars, TypeOK
    <3> HIDE DEF r, j
    <3>4. [seen[w] EXCEPT ![j] = r] \in [Jobs -> ReadRow]
      BY <3>2, <3>3
    <3>5. seen' \in [Workers -> [Jobs -> ReadRow]]
      BY <3>1, <3>3, <3>4
    <3> QED BY <2>1, <3>5 DEF ClaimRefresh, dbVars, requestVars, TypeOK, WorkerStates, HandStates
  <2>2. CASE ExecuteCancelled(w)
    <3>1. job' \in [Jobs -> JobRow]
      BY <2>2, RowType, RowUpdate DEF ExecuteCancelled, TypeOK, Statuses, LeaseStates
    <3>2. attempt' \in [Jobs -> Seq(AttemptStatuses)]
      BY <2>2, SetAttemptType DEF ExecuteCancelled, AttemptStatuses
    <3> QED BY <2>2, <3>1, <3>2, SettleType DEF ExecuteCancelled, requestVars, TypeOK, WorkerStates, HandStates
  <2>3. CASE ExecuteStart(w)
    <3>1. job' \in [Jobs -> JobRow]
      BY <2>3, RowType, RowUpdate DEF ExecuteStart, TypeOK, Statuses, LeaseStates
    <3>2. attempt' \in [Jobs -> Seq(AttemptStatuses)]
      BY <2>3, SetAttemptType DEF ExecuteStart, AttemptStatuses
    <3> QED BY <2>3, <3>1, <3>2 DEF ExecuteStart, requestVars, TypeOK, WorkerStates, HandStates
  <2>4. CASE ExecuteSucceeded(w)
    <3> DEFINE j == hand[w]
    <3>1. job' = [job EXCEPT ![j] = [job[j] EXCEPT !.status = "succeeded", !.lease = "none"]]
      BY <2>4 DEF ExecuteSucceeded
    <3>2. job' \in [Jobs -> JobRow]
      BY <3>1, RowType, RowUpdate DEF TypeOK, Statuses, LeaseStates
    <3>3. attempt' \in [Jobs -> Seq(AttemptStatuses)]
      BY <2>4, SetAttemptType DEF ExecuteSucceeded, AttemptStatuses
    <3> QED BY <2>4, <3>2, <3>3, SettleType DEF ExecuteSucceeded, requestVars, TypeOK, WorkerStates, HandStates
  <2>5. CASE ExecuteFailed(w)
    <3> DEFINE j == hand[w]
               st == AfterFailure(seen[w][j].n, seen[w][j].cancel)
    <3>1. job' = [job EXCEPT ![j] = [job[j] EXCEPT !.status = st, !.lease = "none"]]
      BY <2>5 DEF ExecuteFailed
    <3>2. st \in Statuses
      BY AfterFailureType
    <3>3. job' \in [Jobs -> JobRow]
      BY <3>1, <3>2, RowType, RowUpdate DEF TypeOK, LeaseStates
    <3>4. attempt' \in [Jobs -> Seq(AttemptStatuses)]
      BY <2>5, SetAttemptType DEF ExecuteFailed, AttemptStatuses
    <3> QED BY <2>5, <3>3, <3>4, SettleType DEF ExecuteFailed, requestVars, TypeOK, WorkerStates, HandStates
  <2> QED BY <1>5, <2>1, <2>2, <2>3, <2>4, <2>5 DEF Execute
<1>6. ASSUME NEW w \in Workers, renew_lease(w) PROVE TypeOK'
  <2>1. job' \in [Jobs -> JobRow]
    BY <1>6, RowType, RowUpdate DEF renew_lease, TypeOK, Statuses, LeaseStates
  <2> QED BY <1>6, <2>1 DEF renew_lease, sessionVars, requestVars, TypeOK
<1>7. ASSUME NEW w \in Workers, Process(w) PROVE TypeOK'
  <2>1. ASSUME NEW v \in Workers, Stop(v) PROVE TypeOK'
    BY <2>1, SettleType DEF Stop, dbVars, requestVars, TypeOK, WorkerStates, HandStates
  <2>2. CASE register_worker(w)
    BY <2>2 DEF register_worker, dbVars, requestVars, TypeOK, WorkerStates, HandStates
  <2> QED BY <1>7, <2>1, <2>2
          DEF Process, Crash, DuplicateAttempt, NotTheHolder, DeadlockVictim
<1>8. CASE UNCHANGED vars
  BY <1>8 DEF vars, dbVars, sessionVars, requestVars, TypeOK
<1> QED BY <1>1, <1>2, <1>3, <1>4, <1>5, <1>6, <1>7, <1>8 DEF Next

\* Every variable keeps its type in every behaviour: no column and no ORM
\* session of the background queue ever holds a value outside its domain.
THEOREM TypeCorrect == Spec => []TypeOK
  BY TypeInit, TypeNext, PTL DEF Spec

-----------------------------------------------------------------------------
(* The attempt ledger.  What a session read of attempt_count never exceeds *)
(* the attempts there are; a lease from a stale count is therefore either  *)
(* the next attempt or a duplicate, which the unique constraint refuses.   *)

Ledger == /\ AttemptLedger
          /\ \A w \in Workers, j \in Jobs : seen[w][j].n <= Len(attempt[j])

\* No step but a lease counts or adds an attempt.
SameCounts == \A i \in Jobs : /\ job'[i].attempts = job[i].attempts
                              /\ Len(attempt'[i]) = Len(attempt[i])

\* Writing status, lease or cancellation leaves attempt_count alone.
LEMMA RowAttempts ==
    ASSUME NEW r \in JobRow, NEW s, NEW b, NEW l
    PROVE  /\ [r EXCEPT !.status = s].attempts = r.attempts
           /\ [r EXCEPT !.lease = l].attempts = r.attempts
           /\ [r EXCEPT !.status = s, !.cancel = b].attempts = r.attempts
           /\ [r EXCEPT !.cancel = b, !.status = s].attempts = r.attempts
           /\ [r EXCEPT !.status = s, !.lease = l].attempts = r.attempts
           /\ [r EXCEPT !.status = s, !.holder = None, !.lease = l].attempts = r.attempts
  BY DEF JobRow

\* Writing a row with its count unchanged leaves every count as it was.
LEMMA UpdateKeepsAttempts ==
    ASSUME TypeOK, NEW j \in Jobs, NEW r, r.attempts = job[j].attempts,
           job' = [job EXCEPT ![j] = r]
    PROVE  \A i \in Jobs : job'[i].attempts = job[i].attempts
  BY DEF TypeOK

\* A step that keeps counts and attempts keeps the ledger.
LEMMA LedgerKept ==
    ASSUME TypeOK, TypeOK', Ledger, SameCounts,
           \A v \in Workers, i \in Jobs :
               seen'[v][i].n \in {0, seen[v][i].n, job[i].attempts}
    PROVE  Ledger'
<1>1. AttemptLedger'
  BY DEF Ledger, AttemptLedger, SameCounts
<1>2. ASSUME NEW v \in Workers, NEW i \in Jobs PROVE seen'[v][i].n <= Len(attempt'[i])
  <2>1. Len(attempt'[i]) = Len(attempt[i]) /\ Len(attempt[i]) \in Nat
    BY DEF SameCounts, TypeOK
  <2>2. job[i].attempts = Len(attempt[i]) /\ seen[v][i].n <= Len(attempt[i])
    BY DEF Ledger, AttemptLedger
  <2> QED BY <2>1, <2>2
<1> QED BY <1>1, <1>2 DEF Ledger

\* A transaction that ends leaves its session with counts it had seen, or has
\* just refreshed.
LEMMA SettleSeen ==
    ASSUME TypeOK, NEW w \in Workers, NEW s, Settle(w, s)
    PROVE  \A v \in Workers, i \in Jobs : seen'[v][i].n \in {0, seen[v][i].n, job[i].attempts}
  BY DEF Settle, TypeOK, NothingSeen, Unread

\* Every step keeps the ledger: only a lease inserts an attempt, and the
\* unique constraint refuses one counted from an outdated row.
LEMMA LedgerNext == TypeOK /\ TypeOK' /\ Ledger /\ [Next]_vars => Ledger'
<1> SUFFICES ASSUME TypeOK, TypeOK', Ledger, [Next]_vars PROVE Ledger'
  OBVIOUS
<1>1. CASE UNCHANGED <<attempt, seen>> /\ \A i \in Jobs : job'[i].attempts = job[i].attempts
  BY <1>1, LedgerKept DEF SameCounts
<1>2. CASE Client
  <2>1. UNCHANGED <<attempt, seen>>
    BY <1>2 DEF Client, enqueue, RequestCancelRead, RequestCancelCommit, RetryRead, RetryCommit,
                update_queue, dbVars, sessionVars
  <2>2. \A i \in Jobs : job'[i].attempts = job[i].attempts
    <3>1. ASSUME NEW j \in Jobs, job[j] \in JobRow, RequestCancelCommit(j)
          PROVE  \A i \in Jobs : job'[i].attempts = job[i].attempts
      <4> DEFINE st == IF cancelling[j] \in RUNNABLE_STATUSES
                       THEN "cancelled" ELSE job[j].status
      <4>1. job' = [job EXCEPT ![j] = [job[j] EXCEPT !.cancel = TRUE, !.status = st]]
        BY <3>1 DEF RequestCancelCommit
      <4>2. [job[j] EXCEPT !.cancel = TRUE, !.status = st].attempts = job[j].attempts
        BY <3>1, RowAttempts
      <4> QED BY <4>1, <4>2, UpdateKeepsAttempts
    <3>5. ASSUME NEW m \in Managers, RetryCommit(m)
          PROVE  \A i \in Jobs : job'[i].attempts = job[i].attempts
      <4>1. PICK j \in Jobs, c \in BOOLEAN : Reopened(m, j, c)
        BY <3>5, RetryRow
      <4>2. [job[j] EXCEPT !.status = "queued", !.cancel = c].attempts = job[j].attempts
        BY RowAttempts DEF TypeOK
      <4> QED BY <4>1, <4>2, UpdateKeepsAttempts DEF Reopened
    <3>2. ASSUME NEW j \in Jobs, NEW D \in SUBSET Jobs, job[j] \in JobRow, enqueue(j, D)
          PROVE  \A i \in Jobs : job'[i].attempts = job[i].attempts
      BY <3>2, RowAttempts, UpdateKeepsAttempts DEF enqueue
    <3>3. ASSUME UNCHANGED job
          PROVE  \A i \in Jobs : job'[i].attempts = job[i].attempts
      BY <3>3
    <3>4. \A j \in Jobs : job[j] \in JobRow
      BY DEF TypeOK
    <3> QED BY <1>2, <3>1, <3>2, <3>3, <3>4, <3>5
            DEF Client, RequestCancelRead, RetryRead, update_queue, dbVars
  <2> QED BY <1>1, <2>1, <2>2
<1>3. CASE Clock
  <2>1. CASE MinutePasses
    BY <1>1, <2>1 DEF MinutePasses, sessionVars
  <2>2. ASSUME NEW j \in Jobs, LeaseExpires(j) PROVE Ledger'
    <3>1. job[j] \in JobRow
      BY DEF TypeOK
    <3>2. \A i \in Jobs : job'[i].attempts = job[i].attempts
      BY <2>2, <3>1, RowAttempts, UpdateKeepsAttempts DEF LeaseExpires
    <3> QED BY <1>1, <2>2, <3>2 DEF LeaseExpires, sessionVars
  <2> QED BY <1>3, <2>1, <2>2 DEF Clock
<1>4. ASSUME NEW w \in Workers, Sweep(w) PROVE Ledger'
  <2>1. CASE SweepRead(w)
    <3>1. SameCounts
      BY <2>1 DEF SweepRead, dbVars, SameCounts
    <3>2. \A v \in Workers, i \in Jobs : seen'[v][i].n \in {0, seen[v][i].n, job[i].attempts}
      BY <2>1 DEF SweepRead, Unread, TypeOK
    <3> QED BY <3>1, <3>2, LedgerKept
  <2>2. CASE SweepCommit(w)
    <3>1. \A i \in Jobs : job'[i].attempts = job[i].attempts
      <4> SUFFICES ASSUME NEW i \in Jobs PROVE job'[i].attempts = job[i].attempts
        OBVIOUS
      <4> DEFINE st == AfterFailure(seen[w][i].n, seen[w][i].cancel)
                 r == [job[i] EXCEPT !.status = st, !.holder = None, !.lease = "none"]
      <4>1. job'[i] = job[i] \/ job'[i] = r
        BY <2>2 DEF SweepCommit
      <4>2. r.attempts = job[i].attempts
        BY RowAttempts DEF TypeOK
      <4> HIDE DEF r
      <4> QED BY <4>1, <4>2
    <3>2. ASSUME NEW i \in Jobs PROVE Len(attempt'[i]) = Len(attempt[i])
      <4> DEFINE q == attempt[i]
                 n == seen[w][i].n
      <4>1. q \in Seq(AttemptStatuses) /\ "abandoned" \in AttemptStatuses
        BY DEF TypeOK, AttemptStatuses
      <4>2. attempt'[i] = q \/ attempt'[i] = [q EXCEPT ![n] = "abandoned"]
        BY <2>2 DEF SweepCommit
      <4> HIDE DEF q, n
      <4>3. Len([q EXCEPT ![n] = "abandoned"]) = Len(q)
        BY <4>1, ExceptAny
      <4> QED BY <4>2, <4>3 DEF q
    <3> QED BY <2>2, <3>1, <3>2, SettleSeen, LedgerKept DEF SweepCommit, SameCounts
  <2> QED BY <1>4, <2>1, <2>2 DEF Sweep
<1>5. ASSUME NEW w \in Workers, Claim(w) PROVE Ledger'
  <2>1. ASSUME NEW S \in SUBSET Jobs, ClaimSelect(w, S) PROVE Ledger'
    <3>1. SameCounts
      BY <2>1 DEF ClaimSelect, dbVars, SameCounts
    <3>2. \A v \in Workers, i \in Jobs : seen'[v][i].n \in {0, seen[v][i].n, job[i].attempts}
      BY <2>1 DEF ClaimSelect, Unread, TypeOK
    <3> QED BY <3>1, <3>2, LedgerKept
  <2>2. CASE ClaimNothing(w) \/ heartbeat(w)
    BY <2>2, SettleSeen, LedgerKept DEF ClaimNothing, heartbeat, dbVars, SameCounts
  <2>3. CASE ClaimExhausted(w)
    <3>1. \A v \in Workers, i \in Jobs : seen'[v][i].n \in {0, seen[v][i].n, job[i].attempts}
      BY <2>3 DEF ClaimExhausted, NothingSeen, Unread, TypeOK
    <3> QED BY <2>3, <3>1, LedgerKept DEF ClaimExhausted, dbVars, SameCounts
  <2>4. ASSUME NEW j \in Jobs, ClaimWaiting(w, j) \/ ClaimPostponed(w, j) \/ ClaimAdmitted(w, j)
        PROVE  Ledger'
    BY <1>1, <2>4 DEF ClaimWaiting, ClaimPostponed, ClaimAdmitted, dbVars
  <2>5. ASSUME NEW j \in Jobs, ClaimImpossible(w, j) PROVE Ledger'
    BY <1>1, <2>5 DEF ClaimImpossible, TypeOK, JobRow
  <2>6. CASE ClaimCommit(w)
    <3> DEFINE j == hand[w]
               n == seen[w][j].n + 1
    <3>1. j \in Jobs
      BY <2>6 DEF ClaimCommit, TypeOK, HandStates
    <3>2. attempt[j] \in Seq(AttemptStatuses) /\ Len(attempt[j]) \in Nat /\ seen[w][j].n \in Nat
      BY <3>1 DEF TypeOK, ReadRow
    <3>3. n \notin 1 .. Len(attempt[j])
      BY <2>6, <3>2 DEF ClaimCommit, AttemptExists
    <3>4. n = Len(attempt[j]) + 1
      BY <3>1, <3>2, <3>3 DEF Ledger
    <3>5. \A i \in Jobs : attempt'[i] = IF i = j THEN Append(attempt[i], "leased") ELSE attempt[i]
      BY <2>6, <3>1 DEF ClaimCommit, TypeOK
    <3>6. \A i \in Jobs : job'[i] = IF i = j THEN Leased(job[i], w, n) ELSE job[i]
      BY <2>6, <3>1 DEF ClaimCommit, TypeOK
    <3>7. job'[j].attempts = n
      BY <3>1, <3>6 DEF Leased, TypeOK, JobRow
    <3>8. Len(attempt'[j]) = n
      <4>1. attempt'[j] = Append(attempt[j], "leased")
        BY <3>1, <3>5
      <4>2. Len(Append(attempt[j], "leased")) = Len(attempt[j]) + 1
        BY <3>2 DEF AttemptStatuses
      <4> QED BY <3>4, <4>1, <4>2
    <3>9. AttemptLedger'
      <4>1. ASSUME NEW i \in Jobs, i # j PROVE job'[i].attempts = Len(attempt'[i])
        BY <3>5, <3>6, <4>1 DEF Ledger, AttemptLedger
      <4> QED BY <3>7, <3>8, <4>1 DEF AttemptLedger
    <3>10. ASSUME NEW v \in Workers, NEW i \in Jobs PROVE seen'[v][i].n <= Len(attempt'[i])
      <4>1. seen[v][i].n <= Len(attempt[i]) /\ seen[v][i].n \in Nat /\ Len(attempt[i]) \in Nat
        BY DEF Ledger, TypeOK, ReadRow
      <4>2. seen'[v][i].n \in {0, seen[v][i].n} \/ (i = j /\ seen'[v][i].n = n)
        BY <2>6, <3>1 DEF ClaimCommit, NothingSeen, Unread, TypeOK
      <4>3. CASE i = j
        BY <3>2, <3>4, <3>8, <4>1, <4>2, <4>3
      <4>4. CASE i # j
        <5>1. attempt'[i] = attempt[i]
          BY <3>5, <4>4
        <5> QED BY <4>1, <4>2, <4>4, <5>1
      <4> QED BY <4>3, <4>4
    <3> QED BY <3>9, <3>10 DEF Ledger
  <2> QED BY <1>5, <2>1, <2>2, <2>3, <2>4, <2>5, <2>6 DEF Claim
<1>6. ASSUME NEW w \in Workers, Execute(w) PROVE Ledger'
  <2>1. CASE ClaimRefresh(w)
    <3>1. \A v \in Workers, i \in Jobs : seen'[v][i].n \in {0, seen[v][i].n, job[i].attempts}
      BY <2>1 DEF ClaimRefresh, TypeOK, HandStates
    <3> QED BY <2>1, <3>1, LedgerKept DEF ClaimRefresh, dbVars, SameCounts
  <2>2. CASE ExecuteStart(w)
    <3>1. \A i \in Jobs : job'[i].attempts = job[i].attempts
      BY <2>2 DEF ExecuteStart, TypeOK, JobRow
    <3>2. \A i \in Jobs : Len(attempt'[i]) = Len(attempt[i])
      BY <2>2, SetAttemptType DEF ExecuteStart, AttemptStatuses
    <3> QED BY <2>2, <3>1, <3>2, LedgerKept DEF ExecuteStart, SameCounts
  <2>3. CASE ExecuteCancelled(w) \/ ExecuteSucceeded(w) \/ ExecuteFailed(w)
    <3>1. \A i \in Jobs : job'[i].attempts = job[i].attempts
      <4> DEFINE j == hand[w]
                 st == AfterFailure(seen[w][j].n, seen[w][j].cancel)
      <4>1. j \in Jobs
        BY <2>3 DEF ExecuteCancelled, ExecuteSucceeded, ExecuteFailed, TypeOK, HandStates
      <4>2. job[j] \in JobRow
        BY <4>1 DEF TypeOK
      <4>3. \/ job' = [job EXCEPT ![j] = [job[j] EXCEPT !.status = "cancelled"]]
            \/ job' = [job EXCEPT ![j] = [job[j] EXCEPT !.status = "succeeded", !.lease = "none"]]
            \/ job' = [job EXCEPT ![j] = [job[j] EXCEPT !.status = st, !.lease = "none"]]
        BY <2>3 DEF ExecuteCancelled, ExecuteSucceeded, ExecuteFailed
      <4>4. /\ [job[j] EXCEPT !.status = "cancelled"].attempts = job[j].attempts
            /\ [job[j] EXCEPT !.status = "succeeded", !.lease = "none"].attempts = job[j].attempts
            /\ [job[j] EXCEPT !.status = st, !.lease = "none"].attempts = job[j].attempts
        BY <4>2, RowAttempts
      <4>5. CASE job' = [job EXCEPT ![j] = [job[j] EXCEPT !.status = "cancelled"]]
        BY <4>1, <4>4, <4>5, UpdateKeepsAttempts
      <4>6. CASE job' = [job EXCEPT ![j] = [job[j] EXCEPT !.status = "succeeded", !.lease = "none"]]
        BY <4>1, <4>4, <4>6, UpdateKeepsAttempts
      <4>7. CASE job' = [job EXCEPT ![j] = [job[j] EXCEPT !.status = st, !.lease = "none"]]
        BY <4>1, <4>4, <4>7, UpdateKeepsAttempts
      <4> QED BY <4>3, <4>5, <4>6, <4>7
    <3>2. \A i \in Jobs : Len(attempt'[i]) = Len(attempt[i])
      BY <2>3, SetAttemptType
         DEF ExecuteCancelled, ExecuteSucceeded, ExecuteFailed, AttemptStatuses
    <3>3. Settle(w, "idle")
      BY <2>3 DEF ExecuteCancelled, ExecuteSucceeded, ExecuteFailed
    <3> QED BY <3>1, <3>2, <3>3, SettleSeen, LedgerKept DEF SameCounts
  <2> QED BY <1>6, <2>1, <2>2, <2>3 DEF Execute
<1>7. ASSUME NEW w \in Workers, renew_lease(w) PROVE Ledger'
  <2>1. \A i \in Jobs : job'[i].attempts = job[i].attempts
    BY <1>7 DEF renew_lease, TypeOK, JobRow
  <2> QED BY <1>1, <1>7, <2>1 DEF renew_lease, sessionVars
<1>8. ASSUME NEW w \in Workers, Process(w) PROVE Ledger'
  <2>1. ASSUME NEW v \in Workers, Stop(v) PROVE Ledger'
    BY <2>1, SettleSeen, LedgerKept DEF Stop, dbVars, SameCounts
  <2>2. CASE register_worker(w)
    BY <1>1, <2>2 DEF register_worker, dbVars
  <2> QED BY <1>8, <2>1, <2>2
          DEF Process, Crash, DuplicateAttempt, NotTheHolder, DeadlockVictim
<1>9. CASE UNCHANGED vars
  BY <1>1, <1>9 DEF vars, dbVars, sessionVars
<1> QED BY <1>2, <1>3, <1>4, <1>5, <1>6, <1>7, <1>8, <1>9 DEF Next

\* attempt_count always equals the number of attempt rows, whichever workers
\* crash, stall past their lease, or lease from a row they no longer lock.
THEOREM AttemptLedgerCorrect == Spec => []AttemptLedger
<1>1. Init => Ledger
  BY ConstantsAssumption DEF Init, Ledger, AttemptLedger, NoRow, NothingSeen, Unread
<1> QED BY <1>1, TypeInit, TypeNext, LedgerNext, PTL DEF Spec, Ledger

-----------------------------------------------------------------------------
(* Dependencies.  A status "succeeded" is always backed by an output, and  *)
(* outputs only grow: what claim_next saw of the dependencies when it      *)
(* admitted a job still holds when the lease commits, even though the      *)
(* dependencies' rows are not locked and may be overwritten in between.    *)

DepInv ==
    /\ DependenciesHonoured
    /\ \A j \in Jobs : job[j].status = "succeeded" => j \in outputs
    /\ \A j \in Jobs : job[j].status = "absent" => job[j].attempts = 0
    /\ \A w \in Workers : pc[w] = "admitted" =>
          deps[hand[w]] \subseteq outputs /\ job[hand[w]].status # "absent"
    /\ \A w \in Workers : pc[w] = "claiming" =>
          \A j \in rows[w] : job[j].status # "absent"

\* A step that leaves the attempts alone and invents no success.
Harmless(i) ==
    /\ job'[i].attempts = job[i].attempts
    /\ \/ job'[i].status = job[i].status
       \/ job'[i].status \notin {"absent", "succeeded"}
       \/ job'[i].status = "succeeded" /\ i \in outputs'

SameClaims ==
    /\ \A w \in Workers : pc'[w] = "admitted" => pc[w] = "admitted" /\ hand'[w] = hand[w]
    /\ \A w \in Workers : pc'[w] = "claiming" => pc[w] = "claiming" /\ rows'[w] \subseteq rows[w]

\* A step that takes no output away and leases nothing keeps DepInv.
LEMMA DepKept ==
    ASSUME TypeOK, TypeOK', DepInv, \A i \in Jobs : Harmless(i), SameClaims,
           outputs \subseteq outputs', deps' = deps
    PROVE  DepInv'
<1>1. DependenciesHonoured'
  BY DEF DepInv, DependenciesHonoured, Harmless
<1>2. \A j \in Jobs : job'[j].status = "succeeded" => j \in outputs'
  BY DEF DepInv, Harmless
<1>3. \A j \in Jobs : job'[j].status = "absent" => job[j].status = "absent"
  BY DEF Harmless
<1>4. \A j \in Jobs : job'[j].status = "absent" => job'[j].attempts = 0
  BY <1>3 DEF DepInv, Harmless
<1>5. \A w \in Workers : pc'[w] = "admitted" =>
          deps'[hand'[w]] \subseteq outputs' /\ job'[hand'[w]].status # "absent"
  <2> SUFFICES ASSUME NEW w \in Workers, pc'[w] = "admitted"
               PROVE  deps'[hand'[w]] \subseteq outputs' /\ job'[hand'[w]].status # "absent"
    OBVIOUS
  <2>1. pc[w] = "admitted" /\ hand'[w] = hand[w]
    BY DEF SameClaims
  <2>2. hand[w] \in Jobs
    BY <2>1 DEF TypeOK, HandStates
  <2> QED BY <2>1, <2>2, <1>3 DEF DepInv
<1>6. \A w \in Workers : pc'[w] = "claiming" => \A j \in rows'[w] : job'[j].status # "absent"
  BY <1>3 DEF DepInv, SameClaims, TypeOK
<1> QED BY <1>1, <1>2, <1>4, <1>5, <1>6 DEF DepInv

\* The status a row has after each kind of write.
LEMMA RowStatus ==
    ASSUME NEW r \in JobRow, NEW s, NEW b, NEW l
    PROVE  /\ [r EXCEPT !.status = s].status = s
           /\ [r EXCEPT !.lease = l].status = r.status
           /\ [r EXCEPT !.status = s, !.cancel = b].status = s
           /\ [r EXCEPT !.cancel = b, !.status = s].status = s
           /\ [r EXCEPT !.status = s, !.lease = l].status = s
           /\ [r EXCEPT !.status = s, !.holder = None, !.lease = l].status = s
  BY DEF JobRow

\* Writing one row.
LEMMA UpdateHarmless ==
    ASSUME TypeOK, NEW j \in Jobs, NEW r, job' = [job EXCEPT ![j] = r],
           r.attempts = job[j].attempts,
           \/ r.status = job[j].status
           \/ r.status \notin {"absent", "succeeded"}
           \/ r.status = "succeeded" /\ j \in outputs'
    PROVE  \A i \in Jobs : Harmless(i)
  BY DEF TypeOK, Harmless

\* A transaction that ends claims nothing more.
LEMMA SettleClaims ==
    ASSUME TypeOK, NEW w \in Workers, NEW s, s \notin {"admitted", "claiming"}, Settle(w, s)
    PROVE  SameClaims
  BY DEF Settle, TypeOK, SameClaims

\* Every step keeps DepInv: dependencies are judged while their statuses can
\* still be trusted, and an output is never taken away.
LEMMA DepNext == TypeOK /\ TypeOK' /\ DepInv /\ [Next]_vars => DepInv'
<1> SUFFICES ASSUME TypeOK, TypeOK', DepInv, [Next]_vars PROVE DepInv'
  OBVIOUS
<1>1. \A j \in Jobs : job[j] \in JobRow
  BY DEF TypeOK
<1>2. CASE UNCHANGED <<job, deps, outputs>> /\ SameClaims
  BY <1>2, DepKept DEF Harmless
<1>3. CASE UNCHANGED <<deps, outputs, pc, hand, rows>> /\ \A i \in Jobs : Harmless(i)
  BY <1>3, DepKept DEF SameClaims
<1>4. CASE Client
  <2>1. ASSUME NEW j \in Jobs, NEW D \in SUBSET Jobs, enqueue(j, D) PROVE DepInv'
    <3>1. job[j].status = "absent" /\ job[j].attempts = 0
      BY <2>1 DEF enqueue, DepInv
    <3>2. \A i \in Jobs : /\ job'[i].attempts = job[i].attempts
                          /\ job'[i].status = IF i = j THEN "queued" ELSE job[i].status
      <4> DEFINE r == [job[j] EXCEPT !.status = "queued"]
      <4>1. r.attempts = job[j].attempts /\ r.status = "queued"
        BY <1>1, RowAttempts, RowStatus
      <4>2. job' = [job EXCEPT ![j] = r]
        BY <2>1 DEF enqueue
      <4> HIDE DEF r
      <4> QED BY <4>1, <4>2 DEF TypeOK
    <3>3. \A i \in Jobs : deps'[i] = IF i = j THEN D ELSE deps[i]
      BY <2>1 DEF enqueue, TypeOK
    <3>4. UNCHANGED <<outputs, pc, rows, hand>>
      BY <2>1 DEF enqueue, sessionVars
    <3>5. DependenciesHonoured'
      BY <3>1, <3>2, <3>3, <3>4 DEF DepInv, DependenciesHonoured
    <3>6. ASSUME NEW w \in Workers, pc'[w] = "admitted"
          PROVE  deps'[hand'[w]] \subseteq outputs' /\ job'[hand'[w]].status # "absent"
      <4>1. hand[w] \in Jobs /\ hand[w] # j
        BY <3>1, <3>4, <3>6 DEF TypeOK, HandStates, DepInv
      <4> QED BY <3>2, <3>3, <3>4, <3>6, <4>1 DEF DepInv
    <3>7. ASSUME NEW w \in Workers, pc'[w] = "claiming", NEW i \in rows'[w]
          PROVE  job'[i].status # "absent"
      BY <3>2, <3>4, <3>7 DEF DepInv, TypeOK
    <3>8. \A i \in Jobs : job'[i].status = "succeeded" => i \in outputs'
      BY <3>2, <3>4 DEF DepInv
    <3>9. \A i \in Jobs : job'[i].status = "absent" => job'[i].attempts = 0
      BY <3>2 DEF DepInv
    <3> QED BY <3>5, <3>6, <3>7, <3>8, <3>9 DEF DepInv
  <2>2. ASSUME NEW j \in Jobs, RequestCancelRead(j) PROVE DepInv'
    BY <1>2, <2>2 DEF RequestCancelRead, dbVars, sessionVars, SameClaims
  <2>3. ASSUME NEW j \in Jobs, RequestCancelCommit(j) PROVE DepInv'
    <3> DEFINE st == IF cancelling[j] \in RUNNABLE_STATUSES
                     THEN "cancelled" ELSE job[j].status
               r == [job[j] EXCEPT !.cancel = TRUE, !.status = st]
    <3>1. job' = [job EXCEPT ![j] = r]
      BY <2>3 DEF RequestCancelCommit
    <3>2. r.attempts = job[j].attempts /\ r.status = st
      BY <1>1, RowAttempts, RowStatus
    <3>3. st = job[j].status \/ st \notin {"absent", "succeeded"}
      OBVIOUS
    <3> HIDE DEF r, st
    <3>4. \A i \in Jobs : Harmless(i)
      BY <3>1, <3>2, <3>3, UpdateHarmless
    <3> QED BY <1>3, <2>3, <3>4 DEF RequestCancelCommit, sessionVars
  <2>4. ASSUME NEW m \in Managers, RetryCommit(m) PROVE DepInv'
    <3>1. PICK j \in Jobs, c \in BOOLEAN : Reopened(m, j, c)
      BY <2>4, RetryRow
    <3> DEFINE r == [job[j] EXCEPT !.status = "queued", !.cancel = c]
    <3>2. job' = [job EXCEPT ![j] = r] /\ UNCHANGED <<deps, outputs, sessionVars>>
      BY <3>1 DEF Reopened
    <3>3. r.attempts = job[j].attempts /\ r.status = "queued"
      BY <1>1, RowAttempts, RowStatus
    <3> HIDE DEF r
    <3>4. \A i \in Jobs : Harmless(i)
      BY <3>2, <3>3, UpdateHarmless
    <3> QED BY <1>3, <3>2, <3>4 DEF sessionVars
  <2>6. ASSUME NEW m \in Managers, NEW j \in Jobs, RetryRead(m, j) PROVE DepInv'
    BY <1>2, <2>6 DEF RetryRead, dbVars, sessionVars, SameClaims
  <2>5. CASE update_queue
    BY <1>2, <2>5 DEF update_queue, sessionVars, SameClaims
  <2> QED BY <1>4, <2>1, <2>2, <2>3, <2>4, <2>5, <2>6 DEF Client
<1>5. CASE Clock
  <2>1. CASE MinutePasses
    BY <1>2, <2>1 DEF MinutePasses, sessionVars, SameClaims
  <2>2. ASSUME NEW j \in Jobs, LeaseExpires(j) PROVE DepInv'
    <3> DEFINE r == [job[j] EXCEPT !.lease = "expired"]
    <3>1. r.attempts = job[j].attempts /\ r.status = job[j].status
      BY <1>1, RowAttempts, RowStatus
    <3>2. job' = [job EXCEPT ![j] = r]
      BY <2>2 DEF LeaseExpires
    <3> HIDE DEF r
    <3>3. \A i \in Jobs : Harmless(i)
      BY <3>1, <3>2, UpdateHarmless
    <3> QED BY <1>3, <2>2, <3>3 DEF LeaseExpires, sessionVars
  <2> QED BY <1>5, <2>1, <2>2 DEF Clock
<1>6. ASSUME NEW w \in Workers, Sweep(w) PROVE DepInv'
  <2>1. CASE SweepRead(w)
    <3>1. SameClaims
      BY <2>1 DEF SweepRead, TypeOK, SameClaims
    <3> QED BY <1>2, <2>1, <3>1 DEF SweepRead, dbVars
  <2>2. CASE SweepCommit(w)
    <3>1. ASSUME NEW i \in Jobs PROVE Harmless(i)
      <4> DEFINE st == AfterFailure(seen[w][i].n, seen[w][i].cancel)
                 r == [job[i] EXCEPT !.status = st, !.holder = None, !.lease = "none"]
      <4>1. job'[i] = job[i] \/ job'[i] = r
        BY <2>2 DEF SweepCommit
      <4>2. r.attempts = job[i].attempts /\ r.status = st
        BY <1>1, RowAttempts, RowStatus
      <4>3. st \notin {"absent", "succeeded"}
        BY AfterFailureType
      <4> HIDE DEF r, st
      <4> QED BY <4>1, <4>2, <4>3 DEF Harmless
    <3>2. SameClaims
      BY <2>2, SettleClaims DEF SweepCommit
    <3> QED BY <2>2, <3>1, <3>2, DepKept DEF SweepCommit
  <2> QED BY <1>6, <2>1, <2>2 DEF Sweep
<1>7. ASSUME NEW w \in Workers, Claim(w) PROVE DepInv'
  <2>1. ASSUME NEW S \in SUBSET Jobs, ClaimSelect(w, S) PROVE DepInv'
    <3>1. UNCHANGED <<job, deps, outputs, hand>>
      BY <2>1 DEF ClaimSelect, dbVars
    <3>2. \A v \in Workers : pc'[v] = "admitted" => pc[v] = "admitted"
      BY <2>1 DEF ClaimSelect, TypeOK
    <3>3. ASSUME NEW v \in Workers, pc'[v] = "claiming", NEW j \in rows'[v]
          PROVE  job[j].status # "absent"
      <4>1. CASE v = w
        BY <2>1, <3>3, <4>1 DEF ClaimSelect, FirstRows, Candidates, RUNNABLE_STATUSES, TypeOK
      <4>2. CASE v # w
        BY <2>1, <3>3, <4>2 DEF ClaimSelect, TypeOK, DepInv
      <4> QED BY <4>1, <4>2
    <3> QED BY <3>1, <3>2, <3>3 DEF DepInv, DependenciesHonoured
  <2>2. CASE ClaimNothing(w) \/ heartbeat(w)
    BY <1>2, <2>2, SettleClaims DEF ClaimNothing, heartbeat, dbVars
  <2>3. CASE ClaimExhausted(w)
    <3>1. SameClaims
      BY <2>3 DEF ClaimExhausted, TypeOK, SameClaims
    <3> QED BY <1>2, <2>3, <3>1 DEF ClaimExhausted, dbVars
  <2>4. ASSUME NEW j \in Jobs, ClaimWaiting(w, j) \/ ClaimPostponed(w, j) PROVE DepInv'
    <3>1. SameClaims
      BY <2>4 DEF ClaimWaiting, ClaimPostponed, Skip, TypeOK, SameClaims
    <3> QED BY <1>2, <2>4, <3>1 DEF ClaimWaiting, ClaimPostponed, dbVars
  <2>5. ASSUME NEW j \in Jobs, ClaimImpossible(w, j) PROVE DepInv'
    <3> DEFINE r == [job[j] EXCEPT !.status = "dead_letter"]
    <3>1. job' = [job EXCEPT ![j] = r]
      BY <2>5 DEF ClaimImpossible
    <3>2. r.attempts = job[j].attempts /\ r.status = "dead_letter"
      BY <1>1, RowAttempts, RowStatus
    <3> HIDE DEF r
    <3>3. \A i \in Jobs : Harmless(i)
      BY <3>1, <3>2, UpdateHarmless
    <3>4. SameClaims
      BY <2>5 DEF ClaimImpossible, Skip, TypeOK, SameClaims
    <3> QED BY <2>5, <3>3, <3>4, DepKept DEF ClaimImpossible
  <2>6. ASSUME NEW j \in Jobs, ClaimAdmitted(w, j) PROVE DepInv'
    <3>1. j \in rows[w] /\ pc[w] = "claiming" /\ _dependency_state(j) = "ready"
      BY <2>6 DEF ClaimAdmitted, LockQueue, IsNext
    <3>2. \A d \in deps[j] : job[d].status = "succeeded"
      BY <3>1 DEF _dependency_state
    <3>3. deps[j] \subseteq outputs /\ job[j].status # "absent"
      BY <3>1, <3>2 DEF DepInv, TypeOK
    <3>4. UNCHANGED <<job, deps, outputs>>
      BY <2>6 DEF ClaimAdmitted, dbVars
    <3>5. ASSUME NEW v \in Workers, pc'[v] = "admitted"
          PROVE  deps[hand'[v]] \subseteq outputs /\ job[hand'[v]].status # "absent"
      BY <2>6, <3>3, <3>5 DEF ClaimAdmitted, TypeOK, DepInv
    <3>6. ASSUME NEW v \in Workers, pc'[v] = "claiming", NEW i \in rows'[v]
          PROVE  job[i].status # "absent"
      BY <2>6, <3>6 DEF ClaimAdmitted, TypeOK, DepInv
    <3> QED BY <3>4, <3>5, <3>6 DEF DepInv, DependenciesHonoured
  <2>7. CASE ClaimCommit(w)
    <3> DEFINE j == hand[w]
               n == seen[w][j].n + 1
    <3>1. j \in Jobs /\ deps[j] \subseteq outputs /\ job[j].status # "absent"
      BY <2>7 DEF ClaimCommit, TypeOK, HandStates, DepInv
    <3>2. \A i \in Jobs : job'[i] = IF i = j THEN Leased(job[i], w, n) ELSE job[i]
      BY <2>7, <3>1 DEF ClaimCommit, TypeOK
    <3>3. job'[j].status = "leased"
      BY <1>1, <3>1, <3>2 DEF Leased, JobRow
    <3>4. UNCHANGED <<deps, outputs, hand, rows>>
      BY <2>7 DEF ClaimCommit
    <3>5. DependenciesHonoured'
      BY <3>1, <3>2, <3>4 DEF DepInv, DependenciesHonoured
    <3>6. \A v \in Workers : /\ pc'[v] = "admitted" => pc[v] = "admitted"
                             /\ pc'[v] = "claiming" => pc[v] = "claiming"
      BY <2>7 DEF ClaimCommit, TypeOK
    <3>7. \A i \in Jobs : job'[i].status = "absent" => job[i].status = "absent" /\ i # j
      BY <3>2, <3>3
    <3>8. ASSUME NEW v \in Workers, pc'[v] = "admitted"
          PROVE  deps'[hand'[v]] \subseteq outputs' /\ job'[hand'[v]].status # "absent"
      <4>1. pc[v] = "admitted" /\ hand[v] \in Jobs
        BY <3>6, <3>8 DEF TypeOK, HandStates
      <4> QED BY <3>4, <3>7, <4>1 DEF DepInv
    <3>9. \A v \in Workers : pc'[v] = "claiming" => \A i \in rows'[v] : job'[i].status # "absent"
      BY <3>4, <3>6, <3>7 DEF DepInv, TypeOK
    <3>10. \A i \in Jobs : job'[i].status = "succeeded" => i \in outputs'
      BY <3>2, <3>3, <3>4 DEF DepInv
    <3>11. \A i \in Jobs : job'[i].status = "absent" => job'[i].attempts = 0
      BY <3>2, <3>7 DEF DepInv
    <3> QED BY <3>5, <3>8, <3>9, <3>10, <3>11 DEF DepInv
  <2> QED BY <1>7, <2>1, <2>2, <2>3, <2>4, <2>5, <2>6, <2>7 DEF Claim
<1>8. ASSUME NEW w \in Workers, Execute(w) PROVE DepInv'
  <2>1. CASE ClaimRefresh(w)
    <3>1. SameClaims
      BY <2>1 DEF ClaimRefresh, TypeOK, SameClaims
    <3> QED BY <1>2, <2>1, <3>1 DEF ClaimRefresh, dbVars
  <2> DEFINE j == hand[w]
             st == AfterFailure(seen[w][j].n, seen[w][j].cancel)
  <2>2. ASSUME pc[w] \in HandStates, outputs \subseteq outputs', deps' = deps, SameClaims,
               \/ job' = [job EXCEPT ![j] = [job[j] EXCEPT !.status = "running"]]
               \/ job' = [job EXCEPT ![j] = [job[j] EXCEPT !.status = "cancelled"]]
               \/ job' = [job EXCEPT ![j] = [job[j] EXCEPT !.status = st, !.lease = "none"]]
               \/ /\ job' = [job EXCEPT ![j] = [job[j] EXCEPT !.status = "succeeded", !.lease = "none"]]
                  /\ j \in outputs'
        PROVE  DepInv'
    <3>1. j \in Jobs
      BY <2>2 DEF TypeOK
    <3>2. /\ [job[j] EXCEPT !.status = "running"].attempts = job[j].attempts
          /\ [job[j] EXCEPT !.status = "cancelled"].attempts = job[j].attempts
          /\ [job[j] EXCEPT !.status = st, !.lease = "none"].attempts = job[j].attempts
          /\ [job[j] EXCEPT !.status = "succeeded", !.lease = "none"].attempts = job[j].attempts
      BY <1>1, <3>1, RowAttempts
    <3>3. /\ [job[j] EXCEPT !.status = "running"].status = "running"
          /\ [job[j] EXCEPT !.status = "cancelled"].status = "cancelled"
          /\ [job[j] EXCEPT !.status = st, !.lease = "none"].status = st
          /\ [job[j] EXCEPT !.status = "succeeded", !.lease = "none"].status = "succeeded"
      BY <1>1, <3>1, RowStatus
    <3>4. st \notin {"absent", "succeeded"}
      BY AfterFailureType
    <3> HIDE DEF j, st
    <3>5. CASE job' = [job EXCEPT ![j] = [job[j] EXCEPT !.status = "running"]]
      BY <2>2, <3>1, <3>2, <3>3, <3>5, UpdateHarmless, DepKept
    <3>6. CASE job' = [job EXCEPT ![j] = [job[j] EXCEPT !.status = "cancelled"]]
      BY <2>2, <3>1, <3>2, <3>3, <3>6, UpdateHarmless, DepKept
    <3>7. CASE job' = [job EXCEPT ![j] = [job[j] EXCEPT !.status = st, !.lease = "none"]]
      BY <2>2, <3>1, <3>2, <3>3, <3>4, <3>7, UpdateHarmless, DepKept
    <3>8. CASE /\ job' = [job EXCEPT ![j] = [job[j] EXCEPT !.status = "succeeded", !.lease = "none"]]
               /\ j \in outputs'
      BY <2>2, <3>1, <3>2, <3>3, <3>8, UpdateHarmless, DepKept
    <3> QED BY <2>2, <3>5, <3>6, <3>7, <3>8
  <2>3. CASE ExecuteStart(w)
    <3>1. SameClaims
      BY <2>3 DEF ExecuteStart, TypeOK, SameClaims
    <3> QED BY <2>2, <2>3, <3>1 DEF ExecuteStart, HandStates
  <2>4. CASE ExecuteCancelled(w)
    BY <2>2, <2>4, SettleClaims DEF ExecuteCancelled, HandStates
  <2>5. CASE ExecuteSucceeded(w)
    BY <2>2, <2>5, SettleClaims DEF ExecuteSucceeded, HandStates
  <2>6. CASE ExecuteFailed(w)
    BY <2>2, <2>6, SettleClaims DEF ExecuteFailed, HandStates
  <2> QED BY <1>8, <2>1, <2>3, <2>4, <2>5, <2>6 DEF Execute
<1>9. ASSUME NEW w \in Workers, renew_lease(w) PROVE DepInv'
  <2> DEFINE j == hand[w]
             r == [job[j] EXCEPT !.lease = "live"]
  <2>1. j \in Jobs
    BY <1>9 DEF renew_lease, TypeOK, HandStates
  <2>2. r.attempts = job[j].attempts /\ r.status = job[j].status
    BY <1>1, <2>1, RowAttempts, RowStatus
  <2>3. job' = [job EXCEPT ![j] = r]
    BY <1>9 DEF renew_lease
  <2> HIDE DEF r, j
  <2>4. \A i \in Jobs : Harmless(i)
    BY <2>1, <2>2, <2>3, UpdateHarmless
  <2> QED BY <1>3, <1>9, <2>4 DEF renew_lease, sessionVars
<1>10. ASSUME NEW w \in Workers, Process(w) PROVE DepInv'
  <2>1. ASSUME NEW v \in Workers, Stop(v) PROVE DepInv'
    BY <1>2, <2>1, SettleClaims DEF Stop, dbVars
  <2>2. CASE register_worker(w)
    <3>1. SameClaims
      BY <2>2 DEF register_worker, TypeOK, SameClaims
    <3> QED BY <1>2, <2>2, <3>1 DEF register_worker, dbVars
  <2> QED BY <1>10, <2>1, <2>2
          DEF Process, Crash, DuplicateAttempt, NotTheHolder, DeadlockVictim
<1>11. CASE UNCHANGED vars
  BY <1>2, <1>11 DEF vars, dbVars, sessionVars, SameClaims
<1> QED BY <1>4, <1>5, <1>6, <1>7, <1>8, <1>9, <1>10, <1>11 DEF Next

\* No job gets a worker before each of its dependencies has left an output,
\* for any dependency graph and in every behaviour of the queue.
THEOREM DependenciesAreHonoured == Spec => []DependenciesHonoured
<1>1. Init => DepInv
  BY DEF Init, DepInv, DependenciesHonoured, NoRow
<1> QED BY <1>1, TypeInit, TypeNext, DepNext, PTL DEF Spec, DepInv

-----------------------------------------------------------------------------
(* Outcomes.  Whoever leased an attempt is the only one to report on it,   *)
(* and nobody sweeps it: its lease cannot expire while he is there, and    *)
(* who reads that a lease has expired reads the row of an attempt that     *)
(* nobody is to report on any more.  Two sweeps may write the same attempt, but   *)
(* both write that it was abandoned.  Requests that cancel the job or      *)
(* reopen it, late ones too, write its row and no attempt.                 *)

Owns(w, j)   == pc[w] \in {"claimed", "leased", "running"} /\ hand[w] = j
Sweeps(w, j) == pc[w] = "sweeping" /\ j \in rows[w]
Abandons(w, j) == Sweeps(w, j) /\ seen[w][j].active

\* The holder reports on the last attempt; while somebody is to report on it, the
\* lease has not expired, and is nobody else's.
Tied(w, j) ==
    /\ job[j].holder = w => seen[w][j].n = job[j].attempts
    /\ seen[w][j].n = job[j].attempts =>
          job[j].lease # "expired" /\ (job[j].holder = w \/ job[j].lease = "none")

\* An owner reports on an open attempt.
OwnsOpen == \A w \in Workers, j \in Jobs : Owns(w, j) =>
    /\ seen[w][j].n \in DOMAIN attempt[j]
    /\ attempt[j][seen[w][j].n] \in ActiveStatuses
    /\ Tied(w, j)
OneReporter == \A w, v \in Workers, j \in Jobs :
    Owns(w, j) /\ v # w /\ (Owns(v, j) \/ Abandons(v, j)) => seen[v][j].n # seen[w][j].n
AbandonsOpen == \A w \in Workers, j \in Jobs : Abandons(w, j) =>
    /\ seen[w][j].n \in DOMAIN attempt[j]
    /\ attempt[j][seen[w][j].n] \in ActiveStatuses \cup {"abandoned"}
LeaseIsCounted == \A j \in Jobs : job[j].lease # "none" => job[j].attempts > 0

Outcomes == OwnsOpen /\ OneReporter /\ AbandonsOpen /\ LeaseIsCounted

\* What AttemptOutcomeFinal says of one step.
FinalStep == \A j \in Jobs : \A n \in DOMAIN attempt[j] :
    attempt[j][n] \notin ActiveStatuses => attempt'[j][n] = attempt[j][n]

\* At first there are no attempts (Init).
LEMMA OutcomesInit == Init => Outcomes
  BY DEF Init, Outcomes, OwnsOpen, OneReporter, AbandonsOpen, LeaseIsCounted, Owns, Abandons, Sweeps,
         NoRow

\* Replacing one row of a table leaves the others.
LEMMA ExceptAt ==
    ASSUME NEW T, NEW q \in Seq(T), NEW n, NEW e, NEW m \in DOMAIN q
    PROVE  [q EXCEPT ![n] = e][m] = IF m = n THEN e ELSE q[m]
<1>1. q \in [1 .. Len(q) -> T]
  OBVIOUS
<1> QED BY <1>1

\* The rows after SetAttempt.
LEMMA SetAttemptAt ==
    ASSUME TypeOK, NEW j \in Jobs, NEW n, NEW s, NEW i \in Jobs, NEW m \in DOMAIN attempt[i]
    PROVE  SetAttempt(j, n, s)[i][m] = IF i = j /\ m = n THEN s ELSE attempt[i][m]
<1>1. SetAttempt(j, n, s)[i] = IF i = j THEN [attempt[i] EXCEPT ![n] = s] ELSE attempt[i]
  BY DEF SetAttempt, TypeOK
<1>2. attempt[i] \in Seq(AttemptStatuses)
  BY DEF TypeOK
<1> DEFINE q == attempt[i]
<1> HIDE DEF q
<1>3. q \in Seq(AttemptStatuses) /\ m \in DOMAIN q
  BY <1>2 DEF q
<1>4. [q EXCEPT ![n] = s][m] = IF m = n THEN s ELSE q[m]
  BY <1>3, ExceptAt
<1> QED BY <1>1, <1>4 DEF q

\* Sessions that go on with what they read.
SameReads ==
    \A w \in Workers, i \in Jobs :
        /\ Owns(w, i)' => Owns(w, i) /\ seen'[w][i].n = seen[w][i].n
        /\ Sweeps(w, i)' => Sweeps(w, i) /\ seen'[w][i] = seen[w][i]

\* The writes of a row that leave the attempts to those who have them: the lease goes
\* on, ends, expires when nobody is to report on the last attempt, or is renewed by
\* its holder.
SafeLease(i) ==
    /\ job'[i].attempts = job[i].attempts
    /\ \/ job'[i].holder = job[i].holder /\ job'[i].lease = job[i].lease
       \/ job'[i].holder \in {job[i].holder, None} /\ job'[i].lease = "none"
       \/ /\ job'[i].holder = job[i].holder
          /\ job[i].lease # "none" /\ job'[i].lease = "expired"
          /\ \A w \in Workers : Owns(w, i) => seen[w][i].n # job[i].attempts
       \/ /\ job'[i].holder = job[i].holder /\ job'[i].lease = "live"
          /\ \E w \in Workers : Owns(w, i) /\ job[i].holder = w

\* A job that somebody owns has an attempt.
LEMMA OwnedIsCounted ==
    ASSUME TypeOK, Ledger, Outcomes, NEW w \in Workers, NEW j \in Jobs, Owns(w, j)
    PROVE  job[j].attempts > 0
<1>1. attempt[j] \in Seq(AttemptStatuses) /\ job[j].attempts = Len(attempt[j])
  BY DEF TypeOK, Ledger, AttemptLedger
<1>2. seen[w][j].n \in DOMAIN attempt[j]
  BY DEF Outcomes, OwnsOpen
<1> QED BY <1>1, <1>2

\* What such steps keep: the owners, their holders and the leases.
LEMMA LeasesKept ==
    ASSUME TypeOK, Ledger, Outcomes, SameReads, \A i \in Jobs : SafeLease(i)
    PROVE  /\ LeaseIsCounted'
           /\ \A w \in Workers, i \in Jobs : Owns(w, i)' => Tied(w, i)'
           /\ OneReporter'
<1>1. ASSUME NEW i \in Jobs, job'[i].lease # "none" PROVE job'[i].attempts > 0
  BY <1>1, OwnedIsCounted DEF SafeLease, Outcomes, LeaseIsCounted
<1>2. ASSUME NEW w \in Workers, NEW i \in Jobs, Owns(w, i)'
      PROVE  Tied(w, i)'
  <2>1. Owns(w, i) /\ seen'[w][i].n = seen[w][i].n
    BY <1>2 DEF SameReads
  <2>2. Tied(w, i) /\ job'[i].attempts = job[i].attempts /\ None # w
    BY <2>1, ConstantsAssumption DEF Outcomes, OwnsOpen, SafeLease
  <2>3. CASE job'[i].holder = job[i].holder /\ job'[i].lease = job[i].lease
    BY <2>1, <2>2, <2>3 DEF Tied
  <2>4. CASE job'[i].holder \in {job[i].holder, None} /\ job'[i].lease = "none"
    BY <2>1, <2>2, <2>4 DEF Tied
  <2>5. CASE /\ job'[i].holder = job[i].holder
             /\ \A v \in Workers : Owns(v, i) => seen[v][i].n # job[i].attempts
    BY <2>1, <2>2, <2>5 DEF Tied
  <2>6. CASE /\ job'[i].holder = job[i].holder /\ job'[i].lease = "live"
             /\ \E v \in Workers : Owns(v, i) /\ job[i].holder = v
    <3>1. PICK v \in Workers : Owns(v, i) /\ job[i].holder = v
      BY <2>6
    <3>2. seen[v][i].n = job[i].attempts
      BY <3>1 DEF Outcomes, OwnsOpen, Tied
    <3>3. w = v \/ seen[w][i].n # job[i].attempts
      BY <2>1, <3>1, <3>2 DEF Outcomes, OneReporter
    <3> QED BY <2>1, <2>2, <2>6, <3>1, <3>2, <3>3 DEF Tied
  <2> QED BY <2>3, <2>4, <2>5, <2>6 DEF SafeLease
<1>3. ASSUME NEW w \in Workers, NEW v \in Workers, NEW i \in Jobs,
             Owns(w, i)', v # w, Owns(v, i)' \/ Abandons(v, i)'
      PROVE  seen'[v][i].n # seen'[w][i].n
  <2>1. Owns(w, i) /\ seen'[w][i].n = seen[w][i].n
    BY <1>3 DEF SameReads
  <2>2. (Owns(v, i) \/ Abandons(v, i)) /\ seen'[v][i].n = seen[v][i].n
    BY <1>3 DEF SameReads, Abandons
  <2> QED BY <1>3, <2>1, <2>2 DEF Outcomes, OneReporter
<1> QED BY <1>1, <1>2, <1>3 DEF LeaseIsCounted, OneReporter

\* A step that writes no attempt.
LEMMA OutcomesKept ==
    ASSUME TypeOK, Ledger, Outcomes, SameReads, \A i \in Jobs : SafeLease(i), attempt' = attempt
    PROVE  Outcomes' /\ FinalStep
<1>1. ASSUME NEW w \in Workers, NEW i \in Jobs, Owns(w, i)'
      PROVE  seen'[w][i].n \in DOMAIN attempt'[i] /\ attempt'[i][seen'[w][i].n] \in ActiveStatuses
  BY <1>1 DEF SameReads, Outcomes, OwnsOpen
<1>2. OwnsOpen'
  BY <1>1, LeasesKept DEF OwnsOpen
<1>3. AbandonsOpen'
  BY DEF SameReads, Outcomes, AbandonsOpen, Abandons
<1> QED BY <1>2, <1>3, LeasesKept DEF Outcomes, FinalStep

\* A step that writes no attempt, and of no job its lease.
LEMMA RowsKept ==
    ASSUME TypeOK, Ledger, Outcomes, SameReads, UNCHANGED <<job, attempt>>
    PROVE  Outcomes' /\ FinalStep
  BY OutcomesKept DEF SafeLease

\* The owner's write of its attempt.
LEMMA OutcomesSet ==
    ASSUME TypeOK, Ledger, Outcomes, SameReads, \A i \in Jobs : SafeLease(i),
           NEW w \in Workers, NEW j \in Jobs, Owns(w, j), NEW s,
           attempt' = SetAttempt(j, seen[w][j].n, s),
           s \in ActiveStatuses \/ ~Owns(w, j)', s \in AttemptStatuses
    PROVE  Outcomes' /\ FinalStep
<1> DEFINE n == seen[w][j].n
<1>1. n \in DOMAIN attempt[j] /\ attempt[j][n] \in ActiveStatuses
  BY DEF Outcomes, OwnsOpen
<1>2. \A i \in Jobs : \A m \in DOMAIN attempt[i] :
         attempt'[i][m] = IF i = j /\ m = n THEN s ELSE attempt[i][m]
  BY SetAttemptAt
<1>3. \A i \in Jobs : DOMAIN attempt'[i] = DOMAIN attempt[i]
  BY DEF SetAttempt, TypeOK
<1>4. FinalStep
  BY <1>1, <1>2 DEF FinalStep
<1>5. ASSUME NEW v \in Workers, NEW i \in Jobs, Owns(v, i)'
      PROVE  seen'[v][i].n \in DOMAIN attempt'[i] /\ attempt'[i][seen'[v][i].n] \in ActiveStatuses
  <2>1. Owns(v, i) /\ seen'[v][i].n = seen[v][i].n
    BY <1>5 DEF SameReads
  <2>2. seen[v][i].n \in DOMAIN attempt[i] /\ attempt[i][seen[v][i].n] \in ActiveStatuses
    BY <2>1 DEF Outcomes, OwnsOpen
  <2>3. i = j /\ seen[v][i].n = n => v = w
    BY <2>1 DEF Outcomes, OneReporter
  <2> HIDE DEF n
  <2>4. i = j /\ seen[v][i].n = n => s \in ActiveStatuses
    BY <1>5, <2>3
  <2> QED BY <1>2, <1>3, <2>1, <2>2, <2>4
<1>6. ASSUME NEW v \in Workers, NEW i \in Jobs, Abandons(v, i)'
      PROVE  /\ seen'[v][i].n \in DOMAIN attempt'[i]
             /\ attempt'[i][seen'[v][i].n] \in ActiveStatuses \cup {"abandoned"}
  <2>1. Abandons(v, i) /\ seen'[v][i] = seen[v][i]
    BY <1>6 DEF SameReads, Abandons
  <2>2. /\ seen[v][i].n \in DOMAIN attempt[i]
        /\ attempt[i][seen[v][i].n] \in ActiveStatuses \cup {"abandoned"}
    BY <2>1 DEF Outcomes, AbandonsOpen
  <2>3. ~(i = j /\ seen[v][i].n = n)
    <3>1. v # w
      BY <2>1 DEF Abandons, Sweeps, Owns
    <3> QED BY <2>1, <3>1 DEF Outcomes, OneReporter
  <2> HIDE DEF n
  <2> QED BY <1>2, <1>3, <2>1, <2>2, <2>3
<1> QED BY <1>4, <1>5, <1>6, LeasesKept DEF Outcomes, OwnsOpen, AbandonsOpen

\* A step that writes one row.
LEMMA OneLease ==
    ASSUME TypeOK, NEW j \in Jobs, NEW r, job' = [job EXCEPT ![j] = r],
           job'[j] = r => SafeLease(j)
    PROVE  \A i \in Jobs : SafeLease(i)
<1>1. job'[j] = r /\ \A i \in Jobs \ {j} : job'[i] = job[i]
  BY DEF TypeOK
<1> QED BY <1>1 DEF SafeLease

\* Writing the status, the request to cancel or the lease of a row writes nothing else.
LEMMA RowColumns ==
    ASSUME NEW r \in JobRow, NEW s, NEW b, NEW l
    PROVE  /\ [r EXCEPT !.status = s].attempts = r.attempts
           /\ [r EXCEPT !.status = s].holder = r.holder
           /\ [r EXCEPT !.status = s].lease = r.lease
           /\ [r EXCEPT !.status = s, !.cancel = b].attempts = r.attempts
           /\ [r EXCEPT !.status = s, !.cancel = b].holder = r.holder
           /\ [r EXCEPT !.status = s, !.cancel = b].lease = r.lease
           /\ [r EXCEPT !.cancel = b, !.status = s].attempts = r.attempts
           /\ [r EXCEPT !.cancel = b, !.status = s].holder = r.holder
           /\ [r EXCEPT !.cancel = b, !.status = s].lease = r.lease
           /\ [r EXCEPT !.lease = l].attempts = r.attempts
           /\ [r EXCEPT !.lease = l].holder = r.holder
           /\ [r EXCEPT !.lease = l].lease = l
           /\ [r EXCEPT !.status = s, !.lease = l].attempts = r.attempts
           /\ [r EXCEPT !.status = s, !.lease = l].holder = r.holder
           /\ [r EXCEPT !.status = s, !.lease = l].lease = l
           /\ [r EXCEPT !.status = s, !.holder = None, !.lease = l].attempts = r.attempts
           /\ [r EXCEPT !.status = s, !.holder = None, !.lease = l].holder = None
           /\ [r EXCEPT !.status = s, !.holder = None, !.lease = l].lease = l
  BY DEF JobRow

\* A worker that settles reads nothing more.
LEMMA SettleReads ==
    ASSUME TypeOK, NEW w \in Workers,
           NEW s \in WorkerStates \ (HandStates \cup {"sweeping", "claiming"}), Settle(w, s)
    PROVE  SameReads /\ \A j \in Jobs : ~Owns(w, j)'
  BY DEF TypeOK, Settle, SameReads, Owns, Sweeps, HandStates

\* What requests and clocks write of a job leaves its lease alone, or lets it
\* expire when nobody is to report on the last attempt.
LEMMA ClientLeases ==
    ASSUME TypeOK, Outcomes, Punctual, Client \/ Clock
    PROVE  /\ \A i \in Jobs : SafeLease(i)
           /\ UNCHANGED <<attempt, sessionVars>>
<1>1. CASE UNCHANGED job
  BY <1>1 DEF Client, Clock, enqueue, RequestCancelRead, RequestCancelCommit, RetryRead,
              RetryCommit, update_queue,
              MinutePasses, LeaseExpires, dbVars, SafeLease
<1>2. ASSUME NEW j \in Jobs, NEW r, job' = [job EXCEPT ![j] = r],
             r.attempts = job[j].attempts, r.holder = job[j].holder, r.lease = job[j].lease
      PROVE  \A i \in Jobs : SafeLease(i)
  BY <1>2, OneLease DEF SafeLease
<1>3. \A j \in Jobs : job[j] \in JobRow
  BY DEF TypeOK
<1>4. ASSUME NEW j \in Jobs, NEW D \in SUBSET Jobs, enqueue(j, D) PROVE \A i \in Jobs : SafeLease(i)
  <2>1. job' = [job EXCEPT ![j] = [job[j] EXCEPT !.status = "queued"]]
    BY <1>4 DEF enqueue
  <2> QED BY <2>1, <1>2, <1>3, RowColumns
<1>5. ASSUME NEW j \in Jobs, RequestCancelCommit(j) PROVE \A i \in Jobs : SafeLease(i)
  <2> DEFINE st == IF cancelling[j] \in RUNNABLE_STATUSES THEN "cancelled" ELSE job[j].status
             r == [job[j] EXCEPT !.cancel = TRUE, !.status = st]
  <2>1. job' = [job EXCEPT ![j] = r]
    BY <1>5 DEF RequestCancelCommit
  <2>2. r.attempts = job[j].attempts /\ r.holder = job[j].holder /\ r.lease = job[j].lease
    BY <1>3, RowColumns
  <2> HIDE DEF r, st
  <2> QED BY <2>1, <2>2, <1>2
<1>6. ASSUME NEW m \in Managers, RetryCommit(m) PROVE \A i \in Jobs : SafeLease(i)
  <2>1. PICK j \in Jobs, c \in BOOLEAN : Reopened(m, j, c)
    BY <1>6, RetryRow
  <2> DEFINE r == [job[j] EXCEPT !.status = "queued", !.cancel = c]
  <2>2. job' = [job EXCEPT ![j] = r]
    BY <2>1 DEF Reopened
  <2>3. r.attempts = job[j].attempts /\ r.holder = job[j].holder /\ r.lease = job[j].lease
    BY <1>3, RowColumns
  <2> HIDE DEF r
  <2> QED BY <2>2, <2>3, <1>2
<1>7. ASSUME NEW j \in Jobs, LeaseExpires(j) PROVE \A i \in Jobs : SafeLease(i)
  <2>1. job' = [job EXCEPT ![j] = [job[j] EXCEPT !.lease = "expired"]] /\ job[j].lease = "live"
    BY <1>7 DEF LeaseExpires
  <2>2. ASSUME NEW w \in Workers, Owns(w, j) PROVE seen[w][j].n # job[j].attempts
    <3>1. job[j].holder # w
      BY <1>7, <2>2 DEF LeaseExpires, Renewing, Owns
    <3> QED BY <2>1, <2>2, <3>1 DEF Outcomes, OwnsOpen, Tied
  <2> DEFINE r == [job[j] EXCEPT !.lease = "expired"]
  <2>3. r.attempts = job[j].attempts /\ r.holder = job[j].holder /\ r.lease = "expired"
    BY <1>3, RowColumns
  <2> HIDE DEF r
  <2>4. job' = [job EXCEPT ![j] = r]
    BY <2>1 DEF r
  <2> QED BY <2>1, <2>2, <2>3, <2>4, OneLease DEF SafeLease
<1>8. CASE \/ MinutePasses \/ update_queue
          \/ \E j \in Jobs : RequestCancelRead(j) \/ \E m \in Managers : RetryRead(m, j)
  BY <1>1, <1>8 DEF MinutePasses, update_queue, RequestCancelRead, RetryRead, dbVars
<1>9. UNCHANGED <<attempt, sessionVars>>
  BY DEF Client, Clock, enqueue, RequestCancelRead, RequestCancelCommit, RetryRead,
              RetryCommit, update_queue,
         MinutePasses, LeaseExpires, dbVars
<1> QED BY <1>4, <1>5, <1>6, <1>7, <1>8, <1>9 DEF Client, Clock

\* A sweep reads jobs that nobody has any more.
LEMMA Outcomes_SweepRead ==
    ASSUME TypeOK, Ledger, Outcomes, NEW w \in Workers, SweepRead(w)
    PROVE  Outcomes' /\ FinalStep
<1>1. UNCHANGED <<job, attempt, hand>> /\ pc[w] = "idle"
  BY DEF SweepRead, dbVars
<1>2. ASSUME NEW v \in Workers, NEW i \in Jobs, Owns(v, i)'
      PROVE  Owns(v, i) /\ seen'[v] = seen[v] /\ v # w
  BY <1>1, <1>2 DEF SweepRead, Owns, TypeOK
<1>3. ASSUME NEW v \in Workers \ {w}, NEW i \in Jobs, Abandons(v, i)'
      PROVE  Abandons(v, i) /\ seen'[v] = seen[v]
  BY <1>3 DEF SweepRead, Abandons, Sweeps, TypeOK
<1>4. ASSUME NEW i \in Jobs, Abandons(w, i)'
      PROVE  /\ job[i].lease = "expired" /\ seen'[w][i].n = job[i].attempts
             /\ seen'[w][i].n \in DOMAIN attempt[i]
             /\ attempt[i][seen'[w][i].n] \in ActiveStatuses
  <2>1. i \in Expired
    BY <1>4 DEF SweepRead, Abandons, Sweeps, TypeOK
  <2>2. seen'[w][i] = [n |-> job[i].attempts, cancel |-> job[i].cancel,
                       active |-> attempt[i][job[i].attempts] \in ActiveStatuses]
    BY <2>1 DEF SweepRead, TypeOK
  <2>3. job[i].attempts \in DOMAIN attempt[i]
    <3>1. job[i].attempts > 0 /\ job[i].attempts = Len(attempt[i])
      BY <2>1 DEF Expired, Active, Outcomes, LeaseIsCounted, Ledger, AttemptLedger
    <3>2. attempt[i] \in Seq(AttemptStatuses) /\ job[i].attempts \in Nat
      BY DEF TypeOK, JobRow
    <3> QED BY <3>1, <3>2
  <2> DEFINE open == attempt[i][job[i].attempts] \in ActiveStatuses
  <2>4. seen'[w][i].n = job[i].attempts /\ seen'[w][i].active = open
    <3> HIDE DEF open
    <3>1. seen'[w][i] = [n |-> job[i].attempts, cancel |-> job[i].cancel, active |-> open]
      BY <2>2 DEF open
    <3> QED BY <3>1
  <2>5. open
    BY <1>4, <2>4 DEF Abandons
  <2>6. job[i].lease = "expired"
    BY <2>1 DEF Expired
  <2> QED BY <2>3, <2>4, <2>5, <2>6
<1>5. OwnsOpen'
  BY <1>1, <1>2 DEF Outcomes, OwnsOpen, Tied
<1>6. OneReporter'
  <2> SUFFICES ASSUME NEW u \in Workers, NEW v \in Workers, NEW i \in Jobs,
                      Owns(u, i)', v # u, Owns(v, i)' \/ Abandons(v, i)'
               PROVE  seen'[v][i].n # seen'[u][i].n
    BY DEF OneReporter
  <2>1. /\ Owns(u, i) /\ seen'[u] = seen[u]
        /\ seen[u][i].n = job[i].attempts => job[i].lease # "expired"
    BY <1>2 DEF Outcomes, OwnsOpen, Tied
  <2>2. CASE Owns(v, i)'
    BY <1>2, <2>1, <2>2 DEF Outcomes, OneReporter
  <2>3. CASE Abandons(v, i)'
    <3>1. CASE v = w
      BY <1>4, <2>1, <2>3, <3>1
    <3>2. CASE v # w
      BY <1>3, <2>1, <2>3, <3>2 DEF Outcomes, OneReporter
    <3> QED BY <3>1, <3>2
  <2> QED BY <2>2, <2>3
<1>7. AbandonsOpen'
  BY <1>1, <1>3, <1>4 DEF Outcomes, AbandonsOpen
<1>8. LeaseIsCounted' /\ FinalStep
  BY <1>1 DEF Outcomes, LeaseIsCounted, FinalStep
<1> QED BY <1>5, <1>6, <1>7, <1>8 DEF Outcomes

\* A sweep abandons attempts that are open, or abandoned by another sweep.
LEMMA Outcomes_SweepCommit ==
    ASSUME TypeOK, TypeOK', Ledger, Outcomes, NEW w \in Workers, SweepCommit(w)
    PROVE  Outcomes' /\ FinalStep
<1>1. SameReads
  BY SettleReads DEF SweepCommit, WorkerStates, HandStates
<1>2. \A i \in Jobs : Abandons(w, i) <=> (i \in rows[w] /\ seen[w][i].active)
  BY DEF SweepCommit, Abandons, Sweeps
<1>3. \A i \in Jobs : SafeLease(i)
  <2> SUFFICES ASSUME NEW i \in Jobs PROVE SafeLease(i)
    OBVIOUS
  <2>1. PICK s : s = AfterFailure(seen[w][i].n, seen[w][i].cancel)
    OBVIOUS
  <2>2. job'[i] = IF i \in rows[w]
                  THEN [job[i] EXCEPT !.status = s, !.holder = None, !.lease = "none"] ELSE job[i]
    BY <2>1 DEF SweepCommit
  <2>3. job[i] \in JobRow
    BY DEF TypeOK
  <2> QED BY <2>2, <2>3, RowColumns DEF SafeLease
<1>4. ASSUME NEW i \in Jobs, NEW m \in DOMAIN attempt[i]
      PROVE  attempt'[i][m] = IF Abandons(w, i) /\ m = seen[w][i].n THEN "abandoned" ELSE attempt[i][m]
  <2> DEFINE q == attempt[i]
             k == seen[w][i].n
  <2>1. attempt'[i] = IF Abandons(w, i) THEN [q EXCEPT ![k] = "abandoned"] ELSE q
    BY <1>2 DEF SweepCommit
  <2>2. q \in Seq(AttemptStatuses) /\ m \in DOMAIN q
    BY DEF TypeOK
  <2> HIDE DEF q, k
  <2>3. [q EXCEPT ![k] = "abandoned"][m] = IF m = k THEN "abandoned" ELSE q[m]
    BY <2>2, ExceptAt
  <2> QED BY <2>1, <2>3 DEF q, k
<1>5. \A i \in Jobs : DOMAIN attempt'[i] = DOMAIN attempt[i]
  BY DEF SweepCommit
<1>6. FinalStep
  BY <1>4 DEF FinalStep, Outcomes, AbandonsOpen
<1>7. ASSUME NEW v \in Workers, NEW i \in Jobs, Owns(v, i)'
      PROVE  seen'[v][i].n \in DOMAIN attempt'[i] /\ attempt'[i][seen'[v][i].n] \in ActiveStatuses
  <2>1. Owns(v, i) /\ seen'[v][i].n = seen[v][i].n
    BY <1>1, <1>7 DEF SameReads
  <2>2. seen[v][i].n \in DOMAIN attempt[i] /\ attempt[i][seen[v][i].n] \in ActiveStatuses
    BY <2>1 DEF Outcomes, OwnsOpen
  <2>3. v # w
    BY <2>1 DEF SweepCommit, Owns
  <2>4. Abandons(w, i) => seen[v][i].n # seen[w][i].n
    BY <2>1, <2>3 DEF Outcomes, OneReporter
  <2> QED BY <1>4, <1>5, <2>1, <2>2, <2>4
<1>8. ASSUME NEW v \in Workers, NEW i \in Jobs, Abandons(v, i)'
      PROVE  /\ seen'[v][i].n \in DOMAIN attempt'[i]
             /\ attempt'[i][seen'[v][i].n] \in ActiveStatuses \cup {"abandoned"}
  <2>1. Abandons(v, i) /\ seen'[v][i] = seen[v][i]
    BY <1>1, <1>8 DEF SameReads, Abandons
  <2> QED BY <1>4, <1>5, <2>1 DEF Outcomes, AbandonsOpen
<1> QED BY <1>1, <1>3, <1>6, <1>7, <1>8, LeasesKept DEF Outcomes, OwnsOpen, AbandonsOpen

\* A new attempt is nobody else's.
LEMMA Outcomes_ClaimCommit ==
    ASSUME TypeOK, TypeOK', Ledger, Ledger', Outcomes, NEW w \in Workers, ClaimCommit(w)
    PROVE  Outcomes' /\ FinalStep
<1>0. PICK j \in Jobs : hand[w] = j
  BY DEF ClaimCommit, TypeOK, HandStates
<1> DEFINE n == seen[w][j].n + 1
<1>1. /\ \A i \in Jobs : attempt'[i] = IF i = j THEN Append(attempt[i], "leased") ELSE attempt[i]
      /\ \A i \in Jobs \ {j} : job'[i] = job[i]
      /\ UNCHANGED <<hand, rows>> /\ pc[w] = "admitted" /\ pc' = [pc EXCEPT ![w] = "claimed"]
      /\ seen' = [seen EXCEPT ![w] = [NothingSeen EXCEPT ![j].n = n]]
  BY <1>0 DEF ClaimCommit, TypeOK
<1>2. job'[j].attempts = n /\ job'[j].holder = w /\ job'[j].lease = "live"
  <2>1. job'[j] = Leased(job[j], w, n) /\ job[j] \in JobRow
    BY <1>0 DEF ClaimCommit, TypeOK
  <2> QED BY <2>1 DEF Leased, JobRow
<1>3. seen'[w][j].n = n
  BY <1>1 DEF TypeOK, NothingSeen, Unread
<1>4. n \in Nat /\ n > 0
  BY DEF TypeOK, ReadRow
<1> HIDE DEF n
<1>5. ASSUME NEW i \in Jobs, NEW m \in DOMAIN attempt[i]
      PROVE  m \in DOMAIN attempt'[i] /\ attempt'[i][m] = attempt[i][m] /\ (i = j => m # n)
  <2>1. attempt[i] \in Seq(AttemptStatuses) /\ "leased" \in AttemptStatuses
    BY DEF TypeOK, AttemptStatuses
  <2>2. attempt'[i] = IF i = j THEN Append(attempt[i], "leased") ELSE attempt[i]
    BY <1>1
  <2>3. i = j => n = Len(attempt'[i])
    BY <1>2 DEF Ledger, AttemptLedger
  <2> DEFINE q == attempt[i]
  <2> HIDE DEF q
  <2>4. q \in Seq(AttemptStatuses) /\ m \in DOMAIN q
    BY <2>1 DEF q
  <2>5. /\ m \in DOMAIN Append(q, "leased") /\ Append(q, "leased")[m] = q[m]
        /\ m # Len(Append(q, "leased"))
    BY <2>1, <2>4
  <2>6. CASE i = j
    BY <2>2, <2>3, <2>5, <2>6 DEF q
  <2>7. CASE i # j
    BY <2>2, <2>7
  <2> QED BY <2>6, <2>7
<1>6. n \in DOMAIN attempt'[j] /\ attempt'[j][n] = "leased"
  <2>1. attempt[j] \in Seq(AttemptStatuses) /\ "leased" \in AttemptStatuses
    BY DEF TypeOK, AttemptStatuses
  <2>2. n = Len(attempt'[j]) /\ attempt'[j] = Append(attempt[j], "leased")
    BY <1>1, <1>2 DEF Ledger, AttemptLedger
  <2> QED BY <2>1, <2>2
<1>7. ASSUME NEW i \in Jobs, Owns(w, i)' PROVE i = j
  BY <1>0, <1>1, <1>7 DEF Owns
<1>8. ASSUME NEW v \in Workers \ {w}, NEW i \in Jobs
      PROVE  /\ Owns(v, i)' => Owns(v, i)
             /\ Abandons(v, i)' => Abandons(v, i)
             /\ seen'[v] = seen[v]
  BY <1>1 DEF Owns, Abandons, Sweeps, TypeOK
<1>9. \A i \in Jobs : ~Abandons(w, i)'
  BY <1>1 DEF Abandons, Sweeps, TypeOK
<1>10. ASSUME NEW v \in Workers \ {w}, NEW i \in Jobs, Owns(v, i)' \/ Abandons(v, i)'
       PROVE  seen'[v][i].n = seen[v][i].n /\ seen[v][i].n \in DOMAIN attempt[i]
  BY <1>8, <1>10 DEF Outcomes, OwnsOpen, AbandonsOpen
<1>11. FinalStep
  BY <1>5 DEF FinalStep
<1>12. OwnsOpen'
  <2> SUFFICES ASSUME NEW v \in Workers, NEW i \in Jobs, Owns(v, i)'
               PROVE  /\ seen'[v][i].n \in DOMAIN attempt'[i]
                      /\ attempt'[i][seen'[v][i].n] \in ActiveStatuses
                      /\ Tied(v, i)'
    BY DEF OwnsOpen
  <2>1. CASE v = w
    BY <1>2, <1>3, <1>6, <1>7, <2>1 DEF ActiveStatuses, Tied
  <2>2. CASE v # w
    <3>1. Owns(v, i) /\ seen'[v] = seen[v]
      BY <1>8, <2>2
    <3>2. /\ seen[v][i].n \in DOMAIN attempt[i]
          /\ attempt[i][seen[v][i].n] \in ActiveStatuses
          /\ Tied(v, i)
      BY <3>1 DEF Outcomes, OwnsOpen
    <3>3. seen[v][i].n \in DOMAIN attempt'[i] /\ attempt'[i][seen[v][i].n] \in ActiveStatuses
      BY <1>5, <3>2
    <3>4. CASE i = j
      <4>1. seen[v][i].n # job'[i].attempts /\ job'[i].holder # v
        BY <1>2, <1>5, <2>2, <3>2, <3>4
      <4> QED BY <3>1, <3>3, <4>1 DEF Tied
    <3>5. CASE i # j
      BY <1>1, <3>1, <3>2, <3>3, <3>5 DEF Tied
    <3> QED BY <3>4, <3>5
  <2> QED BY <2>1, <2>2
<1>13. OneReporter'
  <2> SUFFICES ASSUME NEW u \in Workers, NEW v \in Workers, NEW i \in Jobs,
                      Owns(u, i)', v # u, Owns(v, i)' \/ Abandons(v, i)'
               PROVE  seen'[v][i].n # seen'[u][i].n
    BY DEF OneReporter
  <2>1. CASE u = w
    <3>1. i = j /\ v # w
      BY <1>7, <2>1
    <3>2. seen'[v][i].n = seen[v][i].n /\ seen[v][i].n \in DOMAIN attempt[i]
      BY <1>10, <3>1
    <3> QED BY <1>3, <1>5, <2>1, <3>1, <3>2
  <2>2. CASE v = w
    <3>1. i = j /\ u # w
      BY <1>7, <1>9, <2>2
    <3>2. seen'[u][i].n = seen[u][i].n /\ seen[u][i].n \in DOMAIN attempt[i]
      BY <1>10, <3>1
    <3> QED BY <1>3, <1>5, <2>2, <3>1, <3>2
  <2>3. CASE u # w /\ v # w
    <3>1. Owns(u, i) /\ (Owns(v, i) \/ Abandons(v, i)) /\ seen'[u] = seen[u] /\ seen'[v] = seen[v]
      BY <1>8, <2>3
    <3> QED BY <3>1 DEF Outcomes, OneReporter
  <2> QED BY <2>1, <2>2, <2>3
<1>14. AbandonsOpen'
  <2> SUFFICES ASSUME NEW v \in Workers, NEW i \in Jobs, Abandons(v, i)'
               PROVE  /\ seen'[v][i].n \in DOMAIN attempt'[i]
                      /\ attempt'[i][seen'[v][i].n] \in ActiveStatuses \cup {"abandoned"}
    BY DEF AbandonsOpen
  <2>1. v # w
    BY <1>9
  <2>2. Abandons(v, i) /\ seen'[v] = seen[v]
    BY <1>8, <2>1
  <2>3. /\ seen[v][i].n \in DOMAIN attempt[i]
        /\ attempt[i][seen[v][i].n] \in ActiveStatuses \cup {"abandoned"}
    BY <2>2 DEF Outcomes, AbandonsOpen
  <2> QED BY <1>5, <2>2, <2>3
<1>15. LeaseIsCounted'
  <2> SUFFICES ASSUME NEW i \in Jobs, job'[i].lease # "none" PROVE job'[i].attempts > 0
    BY DEF LeaseIsCounted
  <2> QED BY <1>1, <1>2, <1>4 DEF Outcomes, LeaseIsCounted
<1> QED BY <1>11, <1>12, <1>13, <1>14, <1>15 DEF Outcomes

\* Every step keeps Outcomes and rewrites no outcome.
LEMMA OutcomesNext ==
    Punctual /\ TypeOK /\ TypeOK' /\ Ledger /\ Ledger' /\ Outcomes /\ [Next]_vars => Outcomes' /\ FinalStep
<1> SUFFICES ASSUME Punctual, TypeOK, TypeOK', Ledger, Ledger', Outcomes, [Next]_vars
             PROVE  Outcomes' /\ FinalStep
  OBVIOUS
<1>1. \A j \in Jobs : job[j] \in JobRow
  BY DEF TypeOK
<1>2. CASE Client \/ Clock
  <2>1. SameReads
    BY <1>2, ClientLeases DEF SameReads, Owns, Sweeps, sessionVars
  <2> QED BY <1>2, <2>1, ClientLeases, OutcomesKept
<1>3. ASSUME NEW w \in Workers, Sweep(w) PROVE Outcomes' /\ FinalStep
  BY <1>3, Outcomes_SweepRead, Outcomes_SweepCommit DEF Sweep
<1>4. ASSUME NEW w \in Workers, Claim(w) PROVE Outcomes' /\ FinalStep
  <2>1. CASE ClaimNothing(w) \/ heartbeat(w)
    <3>1. SameReads
      BY <2>1, SettleReads DEF ClaimNothing, heartbeat, WorkerStates, HandStates
    <3> QED BY <2>1, <3>1, RowsKept DEF ClaimNothing, heartbeat, dbVars
  <2>2. CASE ClaimExhausted(w) \/ \E S \in SUBSET Jobs : ClaimSelect(w, S)
    <3>1. SameReads
      BY <2>2 DEF ClaimSelect, ReadyToSelect, ClaimExhausted, SameReads, Owns, Sweeps, TypeOK
    <3> QED BY <2>2, <3>1, RowsKept DEF ClaimSelect, ClaimExhausted, dbVars
  <2>3. ASSUME NEW j \in Jobs, ClaimWaiting(w, j) \/ ClaimPostponed(w, j) \/ ClaimAdmitted(w, j)
        PROVE  Outcomes' /\ FinalStep
    <3>1. SameReads
      BY <2>3 DEF ClaimWaiting, ClaimPostponed, ClaimAdmitted, LockQueue, Skip, SameReads, Owns,
                  Sweeps, TypeOK
    <3> QED BY <2>3, <3>1, RowsKept DEF ClaimWaiting, ClaimPostponed, ClaimAdmitted, dbVars
  <2>4. ASSUME NEW j \in Jobs, ClaimImpossible(w, j) PROVE Outcomes' /\ FinalStep
    <3> DEFINE r == [job[j] EXCEPT !.status = "dead_letter"]
    <3>1. job' = [job EXCEPT ![j] = r] /\ attempt' = attempt
      BY <2>4 DEF ClaimImpossible
    <3>2. r.attempts = job[j].attempts /\ r.holder = job[j].holder /\ r.lease = job[j].lease
      BY <1>1, RowColumns
    <3>3. SameReads
      BY <2>4 DEF ClaimImpossible, Skip, SameReads, Owns, Sweeps, TypeOK
    <3> HIDE DEF r
    <3>4. \A i \in Jobs : SafeLease(i)
      BY <3>1, <3>2, OneLease DEF SafeLease
    <3> QED BY <3>1, <3>3, <3>4, OutcomesKept
  <2> QED BY <1>4, <2>1, <2>2, <2>3, <2>4, Outcomes_ClaimCommit DEF Claim
<1>5. ASSUME NEW w \in Workers, Execute(w) PROVE Outcomes' /\ FinalStep
  <2>1. CASE ClaimRefresh(w)
    <3>1. PICK j \in Jobs : hand[w] = j
      BY <2>1 DEF ClaimRefresh, TypeOK, HandStates
    <3>2. /\ pc[w] = "claimed" /\ pc' = [pc EXCEPT ![w] = "leased"] /\ UNCHANGED <<hand, rows>>
          /\ seen' = [seen EXCEPT ![w][j] = [n |-> job[j].attempts,
                                             cancel |-> job[j].cancel, active |-> FALSE]]
      BY <2>1, <3>1 DEF ClaimRefresh
    <3>3. seen[w][j].n = job[j].attempts
      BY <2>1, <3>1 DEF ClaimRefresh, Outcomes, OwnsOpen, Owns, Tied
    <3>4. seen'[w][j].n = job[j].attempts
      BY <3>2 DEF TypeOK
    <3>5. SameReads
      BY <3>1, <3>2, <3>3, <3>4 DEF SameReads, Owns, Sweeps, TypeOK
    <3> QED BY <2>1, <3>5, RowsKept DEF ClaimRefresh, dbVars
  <2>2. CASE ExecuteStart(w)
    <3>1. PICK j \in Jobs : hand[w] = j
      BY <2>2 DEF ExecuteStart, TypeOK, HandStates
    <3> DEFINE r == [job[j] EXCEPT !.status = "running"]
    <3>2. SameReads
      BY <2>2 DEF ExecuteStart, SameReads, Owns, Sweeps, TypeOK
    <3>3. Owns(w, j) /\ attempt' = SetAttempt(j, seen[w][j].n, "running") /\ job' = [job EXCEPT ![j] = r]
      BY <2>2, <3>1 DEF ExecuteStart, Owns
    <3>4. r.attempts = job[j].attempts /\ r.holder = job[j].holder /\ r.lease = job[j].lease
      BY <1>1, RowColumns
    <3> HIDE DEF r
    <3>5. \A i \in Jobs : SafeLease(i)
      BY <3>3, <3>4, OneLease DEF SafeLease
    <3> QED BY <3>2, <3>3, <3>5, OutcomesSet DEF ActiveStatuses, AttemptStatuses
  <2>3. ASSUME NEW j \in Jobs, hand[w] = j, NEW st, NEW s \in {"cancelled", "succeeded", "failed"},
               Owns(w, j), Settle(w, "idle"), attempt' = SetAttempt(j, seen[w][j].n, s),
               \/ job' = [job EXCEPT ![j] = [job[j] EXCEPT !.status = st]]
               \/ job' = [job EXCEPT ![j] = [job[j] EXCEPT !.status = st, !.lease = "none"]]
        PROVE  Outcomes' /\ FinalStep
    <3>1. SameReads /\ ~Owns(w, j)'
      BY <2>3, SettleReads DEF WorkerStates, HandStates
    <3>2. PICK r : /\ job' = [job EXCEPT ![j] = r]
                   /\ r.attempts = job[j].attempts /\ r.holder = job[j].holder
                   /\ r.lease \in {job[j].lease, "none"}
      <4> DEFINE p == [job[j] EXCEPT !.status = st]
                 q == [job[j] EXCEPT !.status = st, !.lease = "none"]
      <4>1. p.attempts = job[j].attempts /\ p.holder = job[j].holder /\ p.lease = job[j].lease
        BY <1>1, RowColumns
      <4>2. q.attempts = job[j].attempts /\ q.holder = job[j].holder /\ q.lease = "none"
        BY <1>1, RowColumns
      <4>3. job' = [job EXCEPT ![j] = p] \/ job' = [job EXCEPT ![j] = q]
        BY <2>3
      <4> HIDE DEF p, q
      <4> QED BY <4>1, <4>2, <4>3
    <3>3. \A i \in Jobs : SafeLease(i)
      BY <3>2, OneLease DEF SafeLease
    <3> QED BY <2>3, <3>1, <3>3, OutcomesSet DEF AttemptStatuses
  <2>4. CASE ExecuteCancelled(w) \/ ExecuteSucceeded(w) \/ ExecuteFailed(w)
    <3>1. PICK j \in Jobs : hand[w] = j
      BY <2>4 DEF ExecuteCancelled, ExecuteSucceeded, ExecuteFailed, TypeOK, HandStates
    <3>2. PICK late : late = AfterFailure(seen[w][j].n, seen[w][j].cancel)
      OBVIOUS
    <3>3. CASE ExecuteCancelled(w)
      BY <2>3, <3>1, <3>3 DEF ExecuteCancelled, Owns
    <3>4. CASE ExecuteSucceeded(w)
      BY <2>3, <3>1, <3>4 DEF ExecuteSucceeded, Owns
    <3>5. CASE ExecuteFailed(w)
      BY <2>3, <3>1, <3>2, <3>5 DEF ExecuteFailed, Owns
    <3> QED BY <2>4, <3>3, <3>4, <3>5
  <2> QED BY <1>5, <2>1, <2>2, <2>4 DEF Execute
<1>6. ASSUME NEW w \in Workers, renew_lease(w) PROVE Outcomes' /\ FinalStep
  <2>1. PICK j \in Jobs : hand[w] = j
    BY <1>6 DEF renew_lease, TypeOK, HandStates
  <2> DEFINE r == [job[j] EXCEPT !.lease = "live"]
  <2>2. /\ job' = [job EXCEPT ![j] = r] /\ attempt' = attempt
        /\ UNCHANGED <<pc, rows, seen, hand>> /\ Owns(w, j) /\ job[j].holder = w
    BY <1>6, <2>1 DEF renew_lease, sessionVars, Owns
  <2>3. r.attempts = job[j].attempts /\ r.holder = job[j].holder /\ r.lease = "live"
    BY <1>1, RowColumns
  <2> HIDE DEF r
  <2>4. \A i \in Jobs : SafeLease(i)
    BY <2>2, <2>3, OneLease DEF SafeLease
  <2>5. SameReads
    BY <2>2 DEF SameReads, Owns, Sweeps
  <2> QED BY <2>2, <2>4, <2>5, OutcomesKept
<1>7. ASSUME NEW w \in Workers, Process(w) PROVE Outcomes' /\ FinalStep
  <2>1. ASSUME NEW v \in Workers, Stop(v) PROVE Outcomes' /\ FinalStep
    <3>1. SameReads
      BY <2>1, SettleReads DEF Stop, WorkerStates, HandStates
    <3> QED BY <2>1, <3>1, RowsKept DEF Stop, dbVars
  <2>2. CASE register_worker(w)
    <3>1. SameReads
      BY <2>2 DEF register_worker, SameReads, Owns, Sweeps, TypeOK
    <3> QED BY <2>2, <3>1, RowsKept DEF register_worker, dbVars
  <2> QED BY <1>7, <2>1, <2>2
          DEF Process, Crash, DuplicateAttempt, NotTheHolder, DeadlockVictim
<1>8. CASE UNCHANGED vars
  <2>1. SameReads
    BY <1>8 DEF vars, sessionVars, SameReads, Owns, Sweeps
  <2> QED BY <1>8, <2>1, RowsKept DEF vars, dbVars
<1> QED BY <1>2, <1>3, <1>4, <1>5, <1>6, <1>7, <1>8 DEF Next

\* The outcome recorded for an attempt is final in every behaviour of such a
\* queue: nothing rewrites an attempt that succeeded, failed, was cancelled
\* or abandoned, for any number of workers, sweeps and retries, whoever is
\* killed and whatever is cancelled, as long as those alive renew in time.
THEOREM OutcomesAreFinal ==
    ASSUME Punctual
    PROVE  Spec => AttemptOutcomeFinal
<1>1. Init => Ledger
  BY ConstantsAssumption DEF Init, Ledger, AttemptLedger, NoRow, NothingSeen, Unread
<1>2. TypeOK /\ TypeOK' /\ Ledger /\ Ledger' /\ Outcomes /\ [Next]_vars => Outcomes' /\ [FinalStep]_vars
  BY OutcomesNext
<1>3. Spec => [][FinalStep]_vars
  BY <1>1, <1>2, OutcomesInit, TypeInit, TypeNext, LedgerNext, PTL DEF Spec
<1> QED BY <1>3, PTL DEF AttemptOutcomeFinal, FinalStep

-----------------------------------------------------------------------------
(* Exclusive execution.  Without cancellation requests, with workers that  *)
(* renew in time and one request at a time reopening a job, a worker that  *)
(* has a job is its holder until it settles it: no sweep, no claim from an *)
(* outdated row and no late retry can take it.                             *)

Claims(w, j) == \/ pc[w] = "claiming" /\ j \in rows[w]
                \/ pc[w] = "admitted" /\ hand[w] = j

\* The statuses a job takes with a lease and keeps at least until it ends.
Held == ActiveStatuses \cup {"succeeded"}
Done(D) == \A d \in D : job[d].status = "succeeded"

\* The five parts: an owner is the holder under a live lease; what a sweep
\* read is still nobody's; a claim whose count is current is of a job that
\* nobody has or sweeps; a lease counts an attempt and can expire; and a
\* job is leased after its dependencies succeeded, which is for good.
OwnerHolds == \A w \in Workers, j \in Jobs : Owns(w, j) =>
    job[j].holder = w /\ job[j].status \in ActiveStatuses /\ job[j].lease = "live"
SweptIsFree == \A w \in Workers, j \in Jobs : Sweeps(w, j) =>
    /\ job[j].status # "succeeded"
    /\ job[j].status \in ActiveStatuses => job[j].lease = "expired"
ClaimIsFree == \A w \in Workers, j \in Jobs :
    Claims(w, j) /\ seen[w][j].n = job[j].attempts =>
        job[j].status \notin Held /\ \A v \in Workers : ~Sweeps(v, j)
HeldIsCounted == \A j \in Jobs :
    /\ job[j].status \in Held => job[j].attempts > 0
    /\ job[j].status \in ActiveStatuses => job[j].lease # "none"
LeasedAfterDeps ==
    /\ \A j \in Jobs : job[j].attempts > 0 => Done(deps[j])
    /\ \A w \in Workers : pc[w] = "admitted" => Done(deps[hand[w]])

NoneAsked == cancelling = [j \in Jobs |-> None]

Exclusive == OwnerHolds /\ SweptIsFree /\ ClaimIsFree /\ HeldIsCounted /\ LeasedAfterDeps /\ NoneAsked

\* What a retry request read stays as it was until the request commits: the job
\* has ended, nobody has or sweeps or claims it, and nobody else reopens it.
Reopens(m, j) == reopening[m].on = j
ReopenedIsFree == \A m \in Managers, j \in Jobs : Reopens(m, j) =>
    /\ job[j].status \in {"failed", "dead_letter", "cancelled"}
    /\ \A v \in Workers : ~Sweeps(v, j) /\ ~Claims(v, j)
    /\ \A n \in Managers : Reopens(n, j) => n = m

\* An owner is the only one, and no sweep has its row.
LEMMA OwnerAlone ==
    ASSUME Exclusive, NEW w \in Workers, NEW j \in Jobs, Owns(w, j)
    PROVE  \A v \in Workers : (Owns(v, j) => v = w) /\ ~Sweeps(v, j)
  BY DEF Exclusive, OwnerHolds, SweptIsFree

\* What an owner knows of its job's attempts is current.
LEMMA OwnerIsCurrent ==
    ASSUME Exclusive, Outcomes, NEW w \in Workers, NEW j \in Jobs, Owns(w, j)
    PROVE  seen[w][j].n = job[j].attempts
  BY DEF Exclusive, OwnerHolds, Outcomes, OwnsOpen, Tied

\* A step after which nobody owns, sweeps or claims what he did not before.
FewerSessions ==
    /\ \A w \in Workers, i \in Jobs :
          /\ Owns(w, i)' => Owns(w, i)
          /\ Sweeps(w, i)' => Sweeps(w, i)
          /\ Claims(w, i)' => Claims(w, i) /\ seen'[w][i].n = seen[w][i].n
    /\ \A w \in Workers : pc'[w] = "admitted" => pc[w] = "admitted" /\ hand'[w] = hand[w]

Orphaned(i) == \A w \in Workers : ~Owns(w, i)'

\* The writes of a row that take it from nobody: none; to give it up; to let
\* its lease expire; the owner's last one; and the owner's first one.
SafeWrite(i) ==
    /\ job'[i].attempts = job[i].attempts
    /\ \/ job'[i] = job[i]
       \/ Orphaned(i) /\ job[i].status # "succeeded" /\ job'[i].status \notin Held
       \/ Orphaned(i) /\ job'[i].status = job[i].status /\ job'[i].lease = "expired"
       \/ /\ Orphaned(i) /\ \E w \in Workers : Owns(w, i)
          /\ job'[i].status = "succeeded"
       \/ /\ \E w \in Workers : Owns(w, i)
          /\ job'[i].status \in ActiveStatuses
          /\ job'[i].holder = job[i].holder /\ job'[i].lease = job[i].lease

\* Such steps keep the invariant.
LEMMA ExclusiveKept ==
    ASSUME TypeOK, TypeOK', Exclusive, FewerSessions, \A i \in Jobs : SafeWrite(i),
           \A i \in Jobs : job[i].attempts > 0 => deps'[i] = deps[i],
           \A w \in Workers : pc[w] = "admitted" => deps'[hand[w]] = deps[hand[w]],
           cancelling' = cancelling
    PROVE  Exclusive'
<1>1. \A i \in Jobs : job[i].status = "succeeded" => job'[i].status = "succeeded"
  <2> SUFFICES ASSUME NEW i \in Jobs, job[i].status = "succeeded"
               PROVE  job'[i].status = "succeeded"
    OBVIOUS
  <2>1. \A w \in Workers : ~Owns(w, i)
    BY DEF Exclusive, OwnerHolds, ActiveStatuses
  <2> QED BY <2>1 DEF SafeWrite
<1>2. \A D \in SUBSET Jobs : Done(D) => Done(D)'
  BY <1>1 DEF Done
<1>3. OwnerHolds'
  <2> SUFFICES ASSUME NEW w \in Workers, NEW j \in Jobs, Owns(w, j)'
               PROVE  job'[j].holder = w /\ job'[j].status \in ActiveStatuses /\ job'[j].lease = "live"
    BY DEF OwnerHolds
  <2>1. Owns(w, j) /\ ~Orphaned(j)
    BY DEF FewerSessions, Orphaned
  <2>2. job[j].holder = w /\ job[j].status \in ActiveStatuses /\ job[j].lease = "live"
    BY <2>1 DEF Exclusive, OwnerHolds
  <2> QED BY <2>1, <2>2 DEF SafeWrite
<1>4. SweptIsFree'
  <2> SUFFICES ASSUME NEW w \in Workers, NEW j \in Jobs, Sweeps(w, j)'
               PROVE  /\ job'[j].status # "succeeded"
                      /\ job'[j].status \in ActiveStatuses => job'[j].lease = "expired"
    BY DEF SweptIsFree
  <2>1. Sweeps(w, j) /\ \A v \in Workers : ~Owns(v, j)
    BY OwnerAlone DEF FewerSessions
  <2>2. job[j].status # "succeeded" /\ (job[j].status \in ActiveStatuses => job[j].lease = "expired")
    BY <2>1 DEF Exclusive, SweptIsFree
  <2> QED BY <2>1, <2>2 DEF SafeWrite, Held
<1>5. ClaimIsFree'
  <2> SUFFICES ASSUME NEW w \in Workers, NEW j \in Jobs,
                      Claims(w, j)', seen'[w][j].n = job'[j].attempts
               PROVE  job'[j].status \notin Held /\ \A v \in Workers : ~Sweeps(v, j)'
    BY DEF ClaimIsFree
  <2>1. Claims(w, j) /\ seen[w][j].n = job[j].attempts
    BY DEF FewerSessions, SafeWrite
  <2>2. job[j].status \notin Held /\ \A v \in Workers : ~Sweeps(v, j)
    BY <2>1 DEF Exclusive, ClaimIsFree
  <2>3. \A v \in Workers : ~Owns(v, j)
    BY <2>2 DEF Exclusive, OwnerHolds, Held
  <2> QED BY <2>2, <2>3 DEF SafeWrite, FewerSessions
<1>6. HeldIsCounted'
  <2> SUFFICES ASSUME NEW j \in Jobs
               PROVE  /\ job'[j].status \in Held => job'[j].attempts > 0
                      /\ job'[j].status \in ActiveStatuses => job'[j].lease # "none"
    BY DEF HeldIsCounted
  <2>1. /\ job[j].status \in Held => job[j].attempts > 0
        /\ job[j].status \in ActiveStatuses => job[j].lease # "none"
    BY DEF Exclusive, HeldIsCounted
  <2>2. \A w \in Workers : Owns(w, j) => job[j].status \in ActiveStatuses
    BY DEF Exclusive, OwnerHolds
  <2> QED BY <2>1, <2>2 DEF SafeWrite, Held, ActiveStatuses
<1>7. LeasedAfterDeps'
  <2>1. ASSUME NEW j \in Jobs, job'[j].attempts > 0 PROVE Done(deps[j])'
    <3>1. job[j].attempts > 0 /\ deps'[j] = deps[j] /\ deps[j] \in SUBSET Jobs
      BY <2>1 DEF SafeWrite, TypeOK
    <3>2. Done(deps[j])
      BY <3>1 DEF Exclusive, LeasedAfterDeps
    <3> QED BY <3>1, <3>2, <1>1 DEF Done
  <2>2. ASSUME NEW w \in Workers, pc'[w] = "admitted" PROVE Done(deps[hand[w]])'
    <3>1. pc[w] = "admitted" /\ hand'[w] = hand[w] /\ hand[w] \in Jobs
      BY <2>2 DEF FewerSessions, TypeOK, HandStates
    <3>2. Done(deps[hand[w]]) /\ deps[hand[w]] \in SUBSET Jobs
      BY <3>1 DEF Exclusive, LeasedAfterDeps, TypeOK
    <3> QED BY <3>1, <3>2, <1>1 DEF Done
  <2> QED BY <2>1, <2>2 DEF LeasedAfterDeps
<1>8. NoneAsked'
  BY DEF Exclusive, NoneAsked
<1> QED BY <1>3, <1>4, <1>5, <1>6, <1>7, <1>8 DEF Exclusive

\* A step that writes one row, safely, and opens no session.
LEMMA OneWrite ==
    ASSUME TypeOK, TypeOK', Exclusive, FewerSessions, NEW j \in Jobs, NEW r,
           job' = [job EXCEPT ![j] = r],
           job'[j] = r => SafeWrite(j),
           deps' = deps, cancelling' = cancelling
    PROVE  Exclusive'
<1>1. job'[j] = r /\ \A i \in Jobs \ {j} : job'[i] = job[i]
  BY DEF TypeOK
<1>2. \A i \in Jobs : SafeWrite(i)
  BY <1>1 DEF SafeWrite
<1> QED BY <1>2, ExclusiveKept

\* A step that writes no row and opens no session.
LEMMA NoWrite ==
    ASSUME TypeOK, TypeOK', Exclusive, FewerSessions, UNCHANGED <<job, deps, cancelling>>
    PROVE  Exclusive'
  BY ExclusiveKept DEF SafeWrite

\* A worker that settles has neither a job nor a row any more.
LEMMA SettleSessions ==
    ASSUME TypeOK, NEW w \in Workers,
           NEW s \in WorkerStates \ (HandStates \cup {"sweeping", "claiming"}), Settle(w, s)
    PROVE  FewerSessions /\ \A j \in Jobs : ~Owns(w, j)'
  BY DEF TypeOK, Settle, FewerSessions, Owns, Sweeps, Claims, HandStates

\* The columns after each kind of write.
LEMMA RowLease ==
    ASSUME NEW r \in JobRow, NEW s, NEW l
    PROVE  /\ [r EXCEPT !.status = s].lease = r.lease
           /\ [r EXCEPT !.status = s].holder = r.holder
           /\ [r EXCEPT !.lease = l].lease = l
  BY DEF JobRow

\* With punctual workers and no cancellation requests, every step keeps it.
LEMMA ExclusiveNext ==
    ASSUME Punctual, Cancellable = {}
    PROVE  TypeOK /\ TypeOK' /\ Ledger /\ DepInv /\ Exclusive /\ ReopenedIsFree /\ [Next]_vars
               => Exclusive'
<1> SUFFICES ASSUME TypeOK, TypeOK', Ledger, DepInv, Exclusive, ReopenedIsFree, [Next]_vars
             PROVE  Exclusive'
  OBVIOUS
<1>1. \A j \in Jobs : job[j] \in JobRow
  BY DEF TypeOK
<1>2. ASSUME UNCHANGED <<pc, rows, hand, seen>> PROVE FewerSessions
  BY <1>2 DEF FewerSessions, Owns, Sweeps, Claims
<1>3. CASE UNCHANGED <<job, deps, cancelling>> /\ UNCHANGED <<pc, rows, hand, seen>>
  BY <1>2, <1>3, NoWrite
<1>4. CASE Client
  <2>1. ASSUME NEW j \in Jobs, NEW D \in SUBSET Jobs, enqueue(j, D) PROVE Exclusive'
    <3> DEFINE r == [job[j] EXCEPT !.status = "queued"]
    <3>1. job[j].status = "absent" /\ job[j].attempts = 0
      BY <2>1 DEF enqueue, DepInv
    <3>2. r.attempts = job[j].attempts /\ r.status = "queued"
      BY <1>1, RowAttempts, RowStatus
    <3>3. job' = [job EXCEPT ![j] = r]
      BY <2>1 DEF enqueue
    <3> HIDE DEF r
    <3>4. UNCHANGED <<pc, rows, hand, seen, cancelling>>
      BY <2>1 DEF enqueue, sessionVars, requestVars
    <3>5. \A w \in Workers : ~Owns(w, j)'
      BY <3>1, <3>4 DEF Exclusive, OwnerHolds, Owns, ActiveStatuses
    <3>6. \A i \in Jobs : SafeWrite(i)
      BY <3>1, <3>2, <3>3, <3>5 DEF SafeWrite, Orphaned, Held, ActiveStatuses, TypeOK
    <3>7. \A i \in Jobs \ {j} : deps'[i] = deps[i]
      BY <2>1 DEF enqueue, TypeOK
    <3>8. \A w \in Workers : pc[w] = "admitted" => hand[w] \in Jobs \ {j}
      BY <3>1 DEF DepInv, TypeOK, HandStates
    <3> QED BY <1>2, <3>1, <3>4, <3>6, <3>7, <3>8, ExclusiveKept
  <2>2. ASSUME NEW j \in Jobs, RequestCancelRead(j) \/ RequestCancelCommit(j) PROVE Exclusive'
    BY <2>2 DEF RequestCancelRead, RequestCancelCommit, Exclusive, NoneAsked
  <2>3. ASSUME NEW m \in Managers, RetryCommit(m) PROVE Exclusive'
    <3>0. PICK j \in Jobs, c \in BOOLEAN : Reopened(m, j, c)
      BY <2>3, RetryRow
    <3> DEFINE r == [job[j] EXCEPT !.status = "queued", !.cancel = c]
    <3>1. job' = [job EXCEPT ![j] = r]
      BY <3>0 DEF Reopened
    <3>2. r.attempts = job[j].attempts /\ r.status = "queued"
      BY <1>1, RowAttempts, RowStatus
    <3> HIDE DEF r
    <3>3. job[j].status \notin Held
      BY <3>0 DEF Reopened, ReopenedIsFree, Reopens, Held, ActiveStatuses
    <3>4. UNCHANGED <<pc, rows, hand, seen, deps, cancelling>>
      BY <3>0 DEF Reopened, sessionVars
    <3>5. Orphaned(j)
      BY <3>3, <3>4 DEF Exclusive, OwnerHolds, Owns, Held, Orphaned
    <3>6. job'[j] = r => SafeWrite(j)
      BY <3>2, <3>3, <3>5 DEF SafeWrite, Held, ActiveStatuses
    <3> QED BY <1>2, <3>1, <3>4, <3>6, OneWrite
  <2>4. CASE update_queue
    BY <1>3, <2>4 DEF update_queue, sessionVars, requestVars
  <2>5. ASSUME NEW m \in Managers, NEW j \in Jobs, RetryRead(m, j) PROVE Exclusive'
    BY <1>3, <2>5 DEF RetryRead, dbVars, sessionVars
  <2> QED BY <1>4, <2>1, <2>2, <2>3, <2>4, <2>5 DEF Client
<1>5. CASE Clock
  <2>1. CASE MinutePasses
    BY <1>3, <2>1 DEF MinutePasses, sessionVars, requestVars
  <2>2. ASSUME NEW j \in Jobs, LeaseExpires(j) PROVE Exclusive'
    <3> DEFINE r == [job[j] EXCEPT !.lease = "expired"]
    <3>1. r.attempts = job[j].attempts /\ r.status = job[j].status /\ r.lease = "expired"
      BY <1>1, RowAttempts, RowStatus, RowLease
    <3>2. job' = [job EXCEPT ![j] = r]
      BY <2>2 DEF LeaseExpires
    <3> HIDE DEF r
    <3>3. UNCHANGED <<pc, rows, hand, seen, deps, cancelling>>
      BY <2>2 DEF LeaseExpires, sessionVars, requestVars
    <3>4. Orphaned(j)
      BY <2>2, <3>3 DEF LeaseExpires, Renewing, Owns, Orphaned, Exclusive, OwnerHolds
    <3>5. job'[j] = r => SafeWrite(j)
      BY <3>1, <3>4 DEF SafeWrite
    <3> QED BY <1>2, <3>2, <3>3, <3>5, OneWrite
  <2> QED BY <1>5, <2>1, <2>2 DEF Clock
<1>6. ASSUME NEW w \in Workers, Sweep(w) PROVE Exclusive'
  <2>1. CASE SweepRead(w)
    <3>1. UNCHANGED <<job, deps, hand, cancelling>>
      BY <2>1 DEF SweepRead, dbVars, requestVars
    <3>2. pc[w] = "idle" /\ pc' = [pc EXCEPT ![w] = "sweeping"] /\ rows' = [rows EXCEPT ![w] = Expired]
      BY <2>1 DEF SweepRead
    <3>3. \A v \in Workers, i \in Jobs : Owns(v, i)' => Owns(v, i)
      BY <3>1, <3>2 DEF Owns, TypeOK
    <3>4. ASSUME NEW v \in Workers, NEW i \in Jobs, Claims(v, i)'
          PROVE  Claims(v, i) /\ seen'[v][i].n = seen[v][i].n
      BY <2>1, <3>1, <3>2, <3>4 DEF SweepRead, Claims, TypeOK
    <3>5. \A v \in Workers, i \in Jobs : Sweeps(v, i)' => Sweeps(v, i) \/ i \in Expired
      BY <3>2 DEF Sweeps, TypeOK
    <3>6. \A i \in Expired : job[i].status \in ActiveStatuses /\ job[i].lease = "expired"
      BY DEF Expired, Active
    <3>7. OwnerHolds'
      BY <3>1, <3>3 DEF Exclusive, OwnerHolds
    <3>8. SweptIsFree'
      BY <3>1, <3>5, <3>6 DEF Exclusive, SweptIsFree, ActiveStatuses
    <3>9. ClaimIsFree'
      BY <3>1, <3>4, <3>5, <3>6 DEF Exclusive, ClaimIsFree, Held
    <3>10. HeldIsCounted' /\ NoneAsked'
      BY <3>1 DEF Exclusive, HeldIsCounted, NoneAsked
    <3>11. LeasedAfterDeps'
      BY <3>1, <3>2 DEF Exclusive, LeasedAfterDeps, Done, TypeOK
    <3> QED BY <3>7, <3>8, <3>9, <3>10, <3>11 DEF Exclusive
  <2>2. CASE SweepCommit(w)
    <3>1. FewerSessions
      BY <2>2, SettleSessions DEF SweepCommit, WorkerStates, HandStates
    <3>2. ASSUME NEW i \in Jobs PROVE SafeWrite(i)
      <4> DEFINE st == AfterFailure(seen[w][i].n, seen[w][i].cancel)
                 r == [job[i] EXCEPT !.status = st, !.holder = None, !.lease = "none"]
      <4>1. CASE i \notin rows[w]
        BY <2>2, <4>1 DEF SweepCommit, SafeWrite
      <4>2. CASE i \in rows[w]
        <5>1. job'[i] = r
          BY <2>2, <4>2 DEF SweepCommit
        <5>2. r.attempts = job[i].attempts /\ r.status = st
          BY <1>1, RowAttempts, RowStatus
        <5>3. st \notin Held
          BY DEF AfterFailure, Held, ActiveStatuses
        <5> HIDE DEF r, st
        <5>4. Sweeps(w, i)
          BY <2>2, <4>2 DEF SweepCommit, Sweeps
        <5>5. Orphaned(i) /\ job[i].status # "succeeded"
          BY <3>1, <5>4, OwnerAlone DEF Orphaned, FewerSessions, Exclusive, SweptIsFree
        <5> QED BY <5>1, <5>2, <5>3, <5>5 DEF SafeWrite
      <4> QED BY <4>1, <4>2
    <3>3. UNCHANGED <<deps, cancelling>>
      BY <2>2 DEF SweepCommit, requestVars
    <3> QED BY <3>1, <3>2, <3>3, ExclusiveKept
  <2> QED BY <1>6, <2>1, <2>2 DEF Sweep
<1>7. ASSUME NEW w \in Workers, Claim(w) PROVE Exclusive'
  <2>1. ASSUME NEW S \in SUBSET Jobs, ClaimSelect(w, S) PROVE Exclusive'
    <3>1. UNCHANGED <<job, deps, hand, cancelling>>
      BY <2>1 DEF ClaimSelect, dbVars, requestVars
    <3>2. /\ pc' = [pc EXCEPT ![w] = "claiming"] /\ pc[w] \in {"swept", "idle"}
          /\ rows' = [rows EXCEPT ![w] = S] /\ S \subseteq Candidates(w)
      BY <2>1 DEF ClaimSelect, ReadyToSelect, FirstRows
    <3>3. \A v \in Workers, i \in Jobs : /\ Owns(v, i)' => Owns(v, i)
                                         /\ Sweeps(v, i)' => Sweeps(v, i) /\ v # w
      BY <3>1, <3>2 DEF Owns, Sweeps, TypeOK
    <3>4. ASSUME NEW v \in Workers, NEW i \in Jobs, Claims(v, i)'
          PROVE  \/ Claims(v, i) /\ seen'[v][i].n = seen[v][i].n
                 \/ v = w /\ i \in Candidates(w)
      <4>1. CASE v = w
        BY <3>1, <3>2, <3>4, <4>1 DEF Claims, TypeOK
      <4>2. CASE v # w
        BY <2>1, <3>1, <3>2, <3>4, <4>2 DEF ClaimSelect, Claims, TypeOK
      <4> QED BY <4>1, <4>2
    <3>5. \A i \in Candidates(w) : /\ job[i].status \notin Held
                                   /\ \A v \in Workers \ {w} : ~Sweeps(v, i)
      BY DEF Candidates, RUNNABLE_STATUSES, Held, ActiveStatuses, BeingSwept, Sweeps
    <3>6. OwnerHolds'
      BY <3>1, <3>3 DEF Exclusive, OwnerHolds
    <3>7. SweptIsFree'
      BY <3>1, <3>3 DEF Exclusive, SweptIsFree
    <3>8. ClaimIsFree'
      BY <3>1, <3>3, <3>4, <3>5 DEF Exclusive, ClaimIsFree
    <3>9. HeldIsCounted' /\ NoneAsked'
      BY <3>1 DEF Exclusive, HeldIsCounted, NoneAsked
    <3>10. LeasedAfterDeps'
      BY <3>1, <3>2 DEF Exclusive, LeasedAfterDeps, Done, TypeOK
    <3> QED BY <3>6, <3>7, <3>8, <3>9, <3>10 DEF Exclusive
  <2>2. CASE ClaimNothing(w) \/ heartbeat(w)
    <3>1. FewerSessions
      BY <2>2, SettleSessions DEF ClaimNothing, heartbeat, WorkerStates, HandStates
    <3> QED BY <2>2, <3>1, NoWrite DEF ClaimNothing, heartbeat, dbVars, requestVars
  <2>3. CASE ClaimExhausted(w)
    <3>1. FewerSessions
      BY <2>3 DEF ClaimExhausted, FewerSessions, Owns, Sweeps, Claims, TypeOK
    <3> QED BY <2>3, <3>1, NoWrite DEF ClaimExhausted, dbVars, requestVars
  <2>4. ASSUME NEW j \in Jobs, ClaimWaiting(w, j) \/ ClaimPostponed(w, j) PROVE Exclusive'
    <3>1. FewerSessions
      BY <2>4 DEF ClaimWaiting, ClaimPostponed, Skip, FewerSessions, Owns, Sweeps, Claims, TypeOK
    <3> QED BY <2>4, <3>1, NoWrite DEF ClaimWaiting, ClaimPostponed, dbVars, requestVars
  <2>5. ASSUME NEW j \in Jobs, ClaimImpossible(w, j) PROVE Exclusive'
    <3> DEFINE r == [job[j] EXCEPT !.status = "dead_letter"]
    <3>1. job' = [job EXCEPT ![j] = r]
      BY <2>5 DEF ClaimImpossible
    <3>2. r.attempts = job[j].attempts /\ r.status = "dead_letter"
      BY <1>1, RowAttempts, RowStatus
    <3> HIDE DEF r
    <3>3. FewerSessions
      BY <2>5 DEF ClaimImpossible, Skip, FewerSessions, IsNext, Owns, Sweeps, Claims, TypeOK
    <3>4. ~Done(deps[j])
      BY <2>5 DEF ClaimImpossible, IsNext, _dependency_state, Done
    <3>5. job[j].status \notin Held
      BY <3>4 DEF Exclusive, HeldIsCounted, LeasedAfterDeps
    <3>6. Orphaned(j)
      BY <3>3, <3>5 DEF Exclusive, OwnerHolds, Held, Orphaned, FewerSessions
    <3>7. job'[j] = r => SafeWrite(j)
      BY <3>2, <3>5, <3>6 DEF SafeWrite, Held, ActiveStatuses
    <3> QED BY <2>5, <3>1, <3>3, <3>7, OneWrite DEF ClaimImpossible, requestVars
  <2>6. ASSUME NEW j \in Jobs, ClaimAdmitted(w, j) PROVE Exclusive'
    <3>1. Claims(w, j) /\ Done(deps[j]) /\ pc[w] = "claiming"
      BY <2>6 DEF ClaimAdmitted, LockQueue, IsNext, Claims, _dependency_state, Done
    <3>2. /\ UNCHANGED <<job, deps, seen, cancelling>>
          /\ pc' = [pc EXCEPT ![w] = "admitted"] /\ hand' = [hand EXCEPT ![w] = j]
          /\ rows' = [rows EXCEPT ![w] = {}]
      BY <2>6 DEF ClaimAdmitted, dbVars, requestVars
    <3>3. \A v \in Workers, i \in Jobs : /\ Owns(v, i)' => Owns(v, i)
                                         /\ Sweeps(v, i)' => Sweeps(v, i)
                                         /\ Claims(v, i)' => Claims(v, i)
      BY <3>1, <3>2 DEF Owns, Sweeps, Claims, TypeOK
    <3>4. OwnerHolds'
      BY <3>2, <3>3 DEF Exclusive, OwnerHolds
    <3>5. SweptIsFree'
      BY <3>2, <3>3 DEF Exclusive, SweptIsFree
    <3>6. ClaimIsFree'
      BY <3>2, <3>3 DEF Exclusive, ClaimIsFree
    <3>7. HeldIsCounted' /\ NoneAsked'
      BY <3>2 DEF Exclusive, HeldIsCounted, NoneAsked
    <3>8. LeasedAfterDeps'
      BY <3>1, <3>2 DEF Exclusive, LeasedAfterDeps, Done, TypeOK
    <3> QED BY <3>4, <3>5, <3>6, <3>7, <3>8 DEF Exclusive
  <2>7. CASE ClaimCommit(w)
    <3> DEFINE j == hand[w]
               n == seen[w][j].n + 1
    <3>1. j \in Jobs /\ Claims(w, j) /\ pc[w] = "admitted"
      BY <2>7 DEF ClaimCommit, TypeOK, HandStates, Claims
    <3>2. seen[w][j].n = job[j].attempts /\ n = job[j].attempts + 1 /\ n > 0
      <4>1. seen[w][j].n <= Len(attempt[j]) /\ job[j].attempts = Len(attempt[j])
        BY <3>1 DEF Ledger, AttemptLedger
      <4>2. n \notin 1 .. Len(attempt[j])
        BY <2>7, <3>1 DEF ClaimCommit, AttemptExists, TypeOK
      <4>3. seen[w][j].n \in Nat /\ job[j].attempts \in Nat
        BY <3>1 DEF TypeOK, ReadRow, JobRow
      <4> HIDE DEF j
      <4> QED BY <4>1, <4>2, <4>3
    <3>3. job[j].status \notin Held /\ (\A v \in Workers : ~Sweeps(v, j)) /\ Done(deps[j])
      BY <3>1, <3>2 DEF Exclusive, ClaimIsFree, LeasedAfterDeps
    <3>4. \A v \in Workers : ~Owns(v, j)
      BY <3>1, <3>3 DEF Exclusive, OwnerHolds, Held
    <3>5. \A i \in Jobs : job'[i] = IF i = j THEN Leased(job[i], w, n) ELSE job[i]
      BY <2>7, <3>1 DEF ClaimCommit, TypeOK
    <3>6. /\ job'[j].status = "leased" /\ job'[j].holder = w
          /\ job'[j].lease = "live" /\ job'[j].attempts = n
      BY <1>1, <3>1, <3>5 DEF Leased, JobRow
    <3>7. /\ UNCHANGED <<deps, hand, rows, cancelling>> /\ pc' = [pc EXCEPT ![w] = "claimed"]
          /\ \A v \in Workers \ {w} : seen'[v] = seen[v]
      BY <2>7 DEF ClaimCommit, TypeOK, requestVars
    <3> HIDE DEF j, n
    <3>8. ASSUME NEW v \in Workers, NEW i \in Jobs
          PROVE  /\ Owns(v, i)' => (v = w /\ i = j) \/ (Owns(v, i) /\ i # j)
                 /\ Sweeps(v, i)' => Sweeps(v, i) /\ i # j
                 /\ Claims(v, i)' => Claims(v, i) /\ v # w
      <4>1. CASE v = w
        BY <3>1, <3>7, <4>1 DEF Owns, Sweeps, Claims, TypeOK, j
      <4>2. CASE v # w
        BY <3>3, <3>4, <3>7, <4>2 DEF Owns, Sweeps, Claims, TypeOK
      <4> QED BY <4>1, <4>2
    <3>9. OwnerHolds'
      BY <3>5, <3>6, <3>8 DEF Exclusive, OwnerHolds, ActiveStatuses
    <3>10. SweptIsFree'
      BY <3>5, <3>8 DEF Exclusive, SweptIsFree
    <3>11. ClaimIsFree'
      <4> SUFFICES ASSUME NEW v \in Workers, NEW i \in Jobs,
                          Claims(v, i)', seen'[v][i].n = job'[i].attempts
                   PROVE  job'[i].status \notin Held /\ \A u \in Workers : ~Sweeps(u, i)'
        BY DEF ClaimIsFree
      <4>1. Claims(v, i) /\ seen[v][i].n = job'[i].attempts
        BY <3>7, <3>8
      <4>2. seen[v][i].n <= job[i].attempts
        BY DEF Ledger, AttemptLedger
      <4>3. i # j
        BY <3>1, <3>2, <3>6, <4>1, <4>2 DEF TypeOK, JobRow
      <4> QED BY <3>5, <3>8, <4>1, <4>3 DEF Exclusive, ClaimIsFree
    <3>12. HeldIsCounted' /\ NoneAsked'
      BY <3>2, <3>5, <3>6, <3>7 DEF Exclusive, HeldIsCounted, NoneAsked
    <3>13. \A i \in Jobs : job[i].status = "succeeded" => job'[i].status = "succeeded"
      BY <3>3, <3>5 DEF Held
    <3>14. \A D \in SUBSET Jobs : Done(D) => Done(D)'
      BY <3>13 DEF Done
    <3>15. \A i \in Jobs : job'[i].attempts > 0 => Done(deps[i])
      BY <3>3, <3>5 DEF Exclusive, LeasedAfterDeps
    <3>16. LeasedAfterDeps'
      <4>1. \A i \in Jobs : job'[i].attempts > 0 => Done(deps[i])'
        BY <3>7, <3>13, <3>15 DEF Done, TypeOK
      <4>2. ASSUME NEW v \in Workers, pc'[v] = "admitted" PROVE Done(deps[hand[v]])'
        <5>1. pc[v] = "admitted" /\ hand[v] \in Jobs
          BY <3>7, <4>2 DEF TypeOK, HandStates
        <5>2. Done(deps[hand[v]])
          BY <5>1 DEF Exclusive, LeasedAfterDeps
        <5> QED BY <3>7, <3>13, <5>1, <5>2 DEF Done, TypeOK
      <4> QED BY <4>1, <4>2 DEF LeasedAfterDeps
    <3> QED BY <3>9, <3>10, <3>11, <3>12, <3>16 DEF Exclusive
  <2> QED BY <1>7, <2>1, <2>2, <2>3, <2>4, <2>5, <2>6, <2>7 DEF Claim
<1>8. ASSUME NEW w \in Workers, Execute(w) PROVE Exclusive'
  <2>1. CASE ClaimRefresh(w)
    <3>1. FewerSessions
      BY <2>1 DEF ClaimRefresh, FewerSessions, Owns, Sweeps, Claims, TypeOK
    <3> QED BY <2>1, <3>1, NoWrite DEF ClaimRefresh, dbVars, requestVars
  <2>2. ASSUME NEW j \in Jobs, hand[w] = j, NEW st, st \notin Held,
               pc[w] \in {"leased", "running"}, Settle(w, "idle"), deps' = deps,
               cancelling' = cancelling,
               \/ job' = [job EXCEPT ![j] = [job[j] EXCEPT !.status = "cancelled"]]
               \/ job' = [job EXCEPT ![j] = [job[j] EXCEPT !.status = st, !.lease = "none"]]
               \/ job' = [job EXCEPT ![j] = [job[j] EXCEPT !.status = "succeeded", !.lease = "none"]]
        PROVE  Exclusive'
    <3>1. Owns(w, j)
      BY <2>2 DEF Owns
    <3>2. /\ [job[j] EXCEPT !.status = "cancelled"].attempts = job[j].attempts
          /\ [job[j] EXCEPT !.status = st, !.lease = "none"].attempts = job[j].attempts
          /\ [job[j] EXCEPT !.status = "succeeded", !.lease = "none"].attempts = job[j].attempts
      BY <1>1, <3>1, RowAttempts
    <3>3. /\ [job[j] EXCEPT !.status = "cancelled"].status = "cancelled"
          /\ [job[j] EXCEPT !.status = st, !.lease = "none"].status = st
          /\ [job[j] EXCEPT !.status = "succeeded", !.lease = "none"].status = "succeeded"
      BY <1>1, <3>1, RowStatus
    <3>5. FewerSessions /\ \A i \in Jobs : ~Owns(w, i)'
      BY <2>2, SettleSessions DEF WorkerStates, HandStates
    <3>6. Orphaned(j)
      BY <3>1, <3>5, OwnerAlone DEF Orphaned, FewerSessions
    <3>7. job[j].status # "succeeded"
      BY <3>1 DEF Exclusive, OwnerHolds, ActiveStatuses
    <3>8. CASE job' = [job EXCEPT ![j] = [job[j] EXCEPT !.status = "cancelled"]]
      <4> DEFINE r == [job[j] EXCEPT !.status = "cancelled"]
      <4>1. job'[j] = r => SafeWrite(j)
        BY <3>2, <3>3, <3>6, <3>7 DEF SafeWrite, Held, ActiveStatuses
      <4> HIDE DEF r
      <4> QED BY <2>2, <3>1, <3>5, <3>8, <4>1, OneWrite DEF r
    <3>9. CASE job' = [job EXCEPT ![j] = [job[j] EXCEPT !.status = st, !.lease = "none"]]
      <4> DEFINE r == [job[j] EXCEPT !.status = st, !.lease = "none"]
      <4>1. job'[j] = r => SafeWrite(j)
        BY <2>2, <3>2, <3>3, <3>6, <3>7 DEF SafeWrite
      <4> HIDE DEF r
      <4> QED BY <2>2, <3>1, <3>5, <3>9, <4>1, OneWrite DEF r
    <3>10. CASE job' = [job EXCEPT ![j] = [job[j] EXCEPT !.status = "succeeded", !.lease = "none"]]
      <4> DEFINE r == [job[j] EXCEPT !.status = "succeeded", !.lease = "none"]
      <4>1. job'[j] = r => SafeWrite(j)
        BY <3>1, <3>2, <3>3, <3>6 DEF SafeWrite
      <4> HIDE DEF r
      <4> QED BY <2>2, <3>1, <3>5, <3>10, <4>1, OneWrite DEF r
    <3> QED BY <2>2, <3>8, <3>9, <3>10
  <2>3. CASE ExecuteCancelled(w) \/ ExecuteSucceeded(w) \/ ExecuteFailed(w)
    <3> DEFINE late == AfterFailure(seen[w][hand[w]].n, seen[w][hand[w]].cancel)
    <3>1. late \notin Held
      BY DEF AfterFailure, Held, ActiveStatuses
    <3>2. PICK st : st = late
      OBVIOUS
    <3>3. PICK j \in Jobs : hand[w] = j
      BY <2>3 DEF ExecuteCancelled, ExecuteSucceeded, ExecuteFailed, TypeOK, HandStates
    <3>4. CASE ExecuteCancelled(w)
      BY <2>2, <3>1, <3>2, <3>3, <3>4 DEF ExecuteCancelled, requestVars
    <3>5. CASE ExecuteSucceeded(w)
      BY <2>2, <3>1, <3>2, <3>3, <3>5 DEF ExecuteSucceeded, requestVars
    <3>6. CASE ExecuteFailed(w)
      BY <2>2, <3>1, <3>2, <3>3, <3>6 DEF ExecuteFailed, requestVars
    <3> QED BY <2>3, <3>4, <3>5, <3>6
  <2>4. CASE ExecuteStart(w)
    <3>0. PICK j \in Jobs : hand[w] = j
      BY <2>4 DEF ExecuteStart, TypeOK, HandStates
    <3> DEFINE r == [job[j] EXCEPT !.status = "running"]
    <3>1. Owns(w, j)
      BY <2>4, <3>0 DEF ExecuteStart, Owns
    <3>2. /\ r.attempts = job[j].attempts /\ r.status = "running"
          /\ r.lease = job[j].lease /\ r.holder = job[j].holder
      BY <1>1, <3>1, RowAttempts, RowStatus, RowLease
    <3>3. job' = [job EXCEPT ![j] = r]
      BY <2>4, <3>0 DEF ExecuteStart
    <3>4. FewerSessions
      BY <2>4 DEF ExecuteStart, FewerSessions, Owns, Sweeps, Claims, TypeOK
    <3> HIDE DEF r
    <3>5. job'[j] = r => SafeWrite(j)
      BY <3>1, <3>2 DEF SafeWrite, ActiveStatuses
    <3> QED BY <2>4, <3>1, <3>3, <3>4, <3>5, OneWrite DEF ExecuteStart, requestVars
  <2> QED BY <1>8, <2>1, <2>3, <2>4 DEF Execute
<1>9. ASSUME NEW w \in Workers, renew_lease(w) PROVE Exclusive'
  <2>1. hand[w] \in Jobs /\ Owns(w, hand[w])
    BY <1>9 DEF renew_lease, TypeOK, HandStates, Owns
  <2> QED BY <1>9, <2>1 DEF renew_lease, Exclusive, OwnerHolds
<1>10. ASSUME NEW w \in Workers, Process(w) PROVE Exclusive'
  <2>1. ASSUME NEW v \in Workers, Stop(v) PROVE Exclusive'
    <3>1. FewerSessions
      BY <2>1, SettleSessions DEF Stop, WorkerStates, HandStates
    <3> QED BY <2>1, <3>1, NoWrite DEF Stop, dbVars, requestVars
  <2>2. CASE register_worker(w)
    <3>1. FewerSessions
      BY <2>2 DEF register_worker, FewerSessions, Owns, Sweeps, Claims, TypeOK
    <3> QED BY <2>2, <3>1, NoWrite DEF register_worker, dbVars, requestVars
  <2> QED BY <1>10, <2>1, <2>2
          DEF Process, Crash, DuplicateAttempt, NotTheHolder, DeadlockVictim
<1>11. CASE UNCHANGED vars
  BY <1>3, <1>11 DEF vars, dbVars, sessionVars, requestVars
<1> QED BY <1>4, <1>5, <1>6, <1>7, <1>8, <1>9, <1>10, <1>11 DEF Next

\* Nobody else's step touches a job that a request is reopening.
LEMMA ReopenedUntouched ==
    ASSUME Cancellable = {}, TypeOK, TypeOK', Exclusive, ReopenedIsFree, Next,
           NEW m \in Managers, NEW j \in Jobs, Reopens(m, j), Reopens(m, j)'
    PROVE  /\ job'[j].status = job[j].status
           /\ \A v \in Workers : ~Sweeps(v, j)' /\ ~Claims(v, j)'
<1>0. job[j].status \in {"failed", "dead_letter", "cancelled"} /\ j \notin Expired
  BY DEF ReopenedIsFree, Expired, Active, ActiveStatuses
<1>1. \A v \in Workers : ~Sweeps(v, j) /\ ~Claims(v, j) /\ ~Owns(v, j)
  BY <1>0 DEF ReopenedIsFree, Exclusive, OwnerHolds, ActiveStatuses
<1>2. ASSUME UNCHANGED <<pc, rows, hand>>, job'[j].status = job[j].status
      PROVE  /\ job'[j].status = job[j].status
             /\ \A v \in Workers : ~Sweeps(v, j)' /\ ~Claims(v, j)'
  BY <1>1, <1>2 DEF Sweeps, Claims
<1>3. ASSUME NEW w \in Workers, NEW s \in WorkerStates, Settle(w, s), s \notin {"sweeping", "claiming", "admitted"}
      PROVE  \A v \in Workers : ~Sweeps(v, j)' /\ ~Claims(v, j)'
  BY <1>1, <1>3 DEF Settle, Sweeps, Claims, TypeOK
<1>4. CASE Client
  <2>1. ASSUME NEW i \in Jobs, NEW D \in SUBSET Jobs, enqueue(i, D)
        PROVE  UNCHANGED <<pc, rows, hand>> /\ job'[j].status = job[j].status
    BY <1>0, <2>1 DEF enqueue, sessionVars, TypeOK
  <2>2. ASSUME NEW i \in Jobs, RequestCancelRead(i) \/ RequestCancelCommit(i) PROVE FALSE
    BY <2>2 DEF RequestCancelRead, RequestCancelCommit, Exclusive, NoneAsked
  <2>3. ASSUME NEW n \in Managers, NEW i \in Jobs, RetryRead(n, i)
        PROVE  UNCHANGED <<pc, rows, hand>> /\ job'[j].status = job[j].status
    BY <2>3 DEF RetryRead, dbVars, sessionVars
  <2>4. ASSUME NEW n \in Managers, RetryCommit(n)
        PROVE  UNCHANGED <<pc, rows, hand>> /\ job'[j].status = job[j].status
    <3>1. n # m /\ reopening[n].on # j
      BY <2>4, ConstantsAssumption DEF RetryCommit, Reopens, NoRequest, ReopenedIsFree, TypeOK
    <3> QED BY <2>4, <3>1 DEF RetryCommit, sessionVars, TypeOK
  <2>5. CASE update_queue
    BY <1>2, <2>5 DEF update_queue, sessionVars
  <2> QED BY <1>2, <1>4, <2>1, <2>2, <2>3, <2>4, <2>5 DEF Client
<1>5. CASE Clock
  <2>1. CASE MinutePasses
    BY <1>2, <2>1 DEF MinutePasses, sessionVars
  <2>2. ASSUME NEW i \in Jobs, LeaseExpires(i)
        PROVE  UNCHANGED <<pc, rows, hand>> /\ job'[j].status = job[j].status
    BY <1>0, <2>2 DEF LeaseExpires, ActiveStatuses, sessionVars, TypeOK
  <2> QED BY <1>2, <1>5, <2>1, <2>2 DEF Clock
<1>6. ASSUME NEW w \in Workers, Sweep(w) PROVE /\ job'[j].status = job[j].status
             /\ \A v \in Workers : ~Sweeps(v, j)' /\ ~Claims(v, j)'
  <2>1. CASE SweepRead(w)
    BY <1>0, <1>1, <2>1 DEF SweepRead, Sweeps, Claims, dbVars, TypeOK
  <2>2. CASE SweepCommit(w)
    <3>1. job'[j] = job[j]
      BY <1>1, <2>2 DEF SweepCommit, Sweeps
    <3> QED BY <1>3, <2>2, <3>1 DEF SweepCommit, WorkerStates
  <2> QED BY <1>6, <2>1, <2>2 DEF Sweep
<1>7. ASSUME NEW w \in Workers, Claim(w) PROVE /\ job'[j].status = job[j].status
             /\ \A v \in Workers : ~Sweeps(v, j)' /\ ~Claims(v, j)'
  <2>1. ASSUME NEW S \in SUBSET Jobs, ClaimSelect(w, S)
        PROVE  /\ job'[j].status = job[j].status
               /\ \A v \in Workers : ~Sweeps(v, j)' /\ ~Claims(v, j)'
    <3>1. j \notin S
      BY <1>0, <2>1 DEF ClaimSelect, FirstRows, Candidates, RUNNABLE_STATUSES
    <3> QED BY <1>1, <2>1, <3>1 DEF ClaimSelect, Sweeps, Claims, dbVars, TypeOK
  <2>2. CASE ClaimNothing(w) \/ heartbeat(w)
    BY <1>3, <2>2 DEF ClaimNothing, heartbeat, WorkerStates, dbVars
  <2>3. CASE ClaimExhausted(w)
    BY <1>1, <2>3 DEF ClaimExhausted, Sweeps, Claims, dbVars, TypeOK
  <2>4. ASSUME NEW i \in Jobs, ClaimWaiting(w, i) \/ ClaimPostponed(w, i)
        PROVE  /\ job'[j].status = job[j].status
               /\ \A v \in Workers : ~Sweeps(v, j)' /\ ~Claims(v, j)'
    BY <1>1, <2>4 DEF ClaimWaiting, ClaimPostponed, Skip, Sweeps, Claims, dbVars, TypeOK
  <2>5. ASSUME NEW i \in Jobs, ClaimImpossible(w, i)
        PROVE  /\ job'[j].status = job[j].status
               /\ \A v \in Workers : ~Sweeps(v, j)' /\ ~Claims(v, j)'
    <3>1. i # j
      BY <1>1, <2>5 DEF ClaimImpossible, IsNext, Claims
    <3>2. job'[j] = job[j]
      BY <2>5, <3>1 DEF ClaimImpossible, TypeOK
    <3> QED BY <1>1, <2>5, <3>2 DEF ClaimImpossible, Skip, Sweeps, Claims, TypeOK
  <2>6. ASSUME NEW i \in Jobs, ClaimAdmitted(w, i)
        PROVE  /\ job'[j].status = job[j].status
               /\ \A v \in Workers : ~Sweeps(v, j)' /\ ~Claims(v, j)'
    <3>1. i # j
      BY <1>1, <2>6 DEF ClaimAdmitted, LockQueue, IsNext, Claims
    <3> QED BY <1>1, <2>6, <3>1 DEF ClaimAdmitted, Sweeps, Claims, dbVars, TypeOK
  <2>7. CASE ClaimCommit(w)
    <3>1. hand[w] # j
      BY <1>1, <2>7 DEF ClaimCommit, Claims
    <3>2. job'[j] = job[j]
      BY <2>7, <3>1 DEF ClaimCommit, TypeOK
    <3> QED BY <1>1, <2>7, <3>2 DEF ClaimCommit, Sweeps, Claims, TypeOK
  <2> QED BY <1>7, <2>1, <2>2, <2>3, <2>4, <2>5, <2>6, <2>7 DEF Claim
<1>8. ASSUME NEW w \in Workers, Execute(w) PROVE /\ job'[j].status = job[j].status
             /\ \A v \in Workers : ~Sweeps(v, j)' /\ ~Claims(v, j)'
  <2>1. CASE ClaimRefresh(w)
    BY <1>1, <2>1 DEF ClaimRefresh, Sweeps, Claims, dbVars, TypeOK
  <2>2. CASE ExecuteCancelled(w) \/ ExecuteSucceeded(w) \/ ExecuteFailed(w)
    <3>1. hand[w] # j
      BY <1>1, <2>2 DEF ExecuteCancelled, ExecuteSucceeded, ExecuteFailed, Owns
    <3>2. job'[j] = job[j] /\ Settle(w, "idle")
      BY <2>2, <3>1 DEF ExecuteCancelled, ExecuteSucceeded, ExecuteFailed, TypeOK
    <3> QED BY <1>3, <3>2 DEF WorkerStates
  <2>3. CASE ExecuteStart(w)
    <3>1. hand[w] # j
      BY <1>1, <2>3 DEF ExecuteStart, Owns
    <3>2. job'[j] = job[j]
      BY <2>3, <3>1 DEF ExecuteStart, TypeOK
    <3> QED BY <1>1, <2>3, <3>2 DEF ExecuteStart, Sweeps, Claims, TypeOK
  <2> QED BY <1>8, <2>1, <2>2, <2>3 DEF Execute
<1>9. ASSUME NEW w \in Workers, renew_lease(w) PROVE /\ job'[j].status = job[j].status
             /\ \A v \in Workers : ~Sweeps(v, j)' /\ ~Claims(v, j)'
  <2>1. hand[w] # j
    BY <1>1, <1>9 DEF renew_lease, Owns
  <2>2. job'[j] = job[j] /\ UNCHANGED <<pc, rows, hand>>
    BY <1>9, <2>1 DEF renew_lease, sessionVars, TypeOK
  <2> QED BY <1>2, <2>2
<1>10. ASSUME NEW w \in Workers, Process(w) PROVE /\ job'[j].status = job[j].status
             /\ \A v \in Workers : ~Sweeps(v, j)' /\ ~Claims(v, j)'
  <2>1. ASSUME NEW v \in Workers, Stop(v)
        PROVE  /\ job'[j].status = job[j].status
               /\ \A u \in Workers : ~Sweeps(u, j)' /\ ~Claims(u, j)'
    BY <1>3, <2>1 DEF Stop, WorkerStates, dbVars
  <2>2. CASE register_worker(w)
    BY <1>1, <2>2 DEF register_worker, Sweeps, Claims, dbVars, TypeOK
  <2> QED BY <1>10, <2>1, <2>2
          DEF Process, Crash, DuplicateAttempt, NotTheHolder, DeadlockVictim
<1> QED BY <1>4, <1>5, <1>6, <1>7, <1>8, <1>9, <1>10 DEF Next

\* A request that opens finds the job free; those that are open keep it so.
LEMMA ReopenedNext ==
    ASSUME Punctual, SoleManager, Cancellable = {}
    PROVE  TypeOK /\ TypeOK' /\ Exclusive /\ ReopenedIsFree /\ [Next]_vars => ReopenedIsFree'
<1> SUFFICES ASSUME TypeOK, TypeOK', Exclusive, ReopenedIsFree, [Next]_vars PROVE ReopenedIsFree'
  OBVIOUS
<1>1. CASE UNCHANGED vars
  BY <1>1 DEF vars, dbVars, sessionVars, requestVars, ReopenedIsFree, Reopens, Sweeps, Claims
<1>2. CASE Next
  <2>1. ASSUME NEW m \in Managers, NEW i \in Jobs, RetryRead(m, i) PROVE ReopenedIsFree'
    <3>1. /\ job[i].status \in {"failed", "dead_letter", "cancelled"}
          /\ \A v \in Workers : ~Sweeps(v, i) /\ ~Claims(v, i)
          /\ \A n \in Managers : ~Reopens(n, i)
      BY <2>1 DEF RetryRead, Untouched, Reopeners, Reopens, Sweeps, Claims
    <3>2. UNCHANGED <<job, pc, rows, hand>>
      BY <2>1 DEF RetryRead, dbVars, sessionVars
    <3>3. \A n \in Managers, j \in Jobs : Reopens(n, j)' => IF n = m THEN j = i ELSE Reopens(n, j)
      BY <2>1 DEF RetryRead, Reopens, TypeOK
    <3> QED BY <3>1, <3>2, <3>3 DEF ReopenedIsFree, Sweeps, Claims
  <2>2. CASE \A m \in Managers, j \in Jobs : Reopens(m, j)' => Reopens(m, j)
    BY <1>2, <2>2, ReopenedUntouched DEF ReopenedIsFree
  <2>3. ASSUME NEW m \in Managers, RetryCommit(m)
        PROVE  \A n \in Managers, j \in Jobs : Reopens(n, j)' => Reopens(n, j)
    BY <2>3, ConstantsAssumption DEF RetryCommit, Reopens, NoRequest, TypeOK
  <2>4. CASE reopening' = reopening
    BY <2>2, <2>4 DEF Reopens
  <2>5. \/ \E m \in Managers : RetryCommit(m) \/ \E i \in Jobs : RetryRead(m, i)
        \/ reopening' = reopening
    BY <1>2 DEF Next, Client, Clock, Sweep, Claim, Execute, Process, requestVars,
                enqueue, RequestCancelRead, RequestCancelCommit, update_queue,
                LeaseExpires, MinutePasses, SweepRead, SweepCommit, ClaimSelect, ClaimNothing,
                ClaimWaiting, ClaimImpossible, ClaimPostponed, ClaimAdmitted, ClaimCommit,
                ClaimExhausted, heartbeat, ClaimRefresh, ExecuteCancelled, ExecuteStart,
                ExecuteSucceeded, ExecuteFailed, renew_lease, Stop, Crash, DuplicateAttempt,
                NotTheHolder, DeadlockVictim, register_worker
  <2> QED BY <2>1, <2>2, <2>3, <2>4, <2>5
<1> QED BY <1>1, <1>2

\* The exclusive invariant holds in every behaviour of such a queue.
LEMMA ExclusiveAlways ==
    ASSUME Punctual, SoleManager, Cancellable = {}
    PROVE  Spec => [](TypeOK /\ Exclusive /\ ReopenedIsFree)
<1>1. Init => Exclusive
  BY ConstantsAssumption
     DEF Init, Exclusive, OwnerHolds, SweptIsFree, ClaimIsFree, HeldIsCounted, LeasedAfterDeps,
         NoneAsked, Owns, Sweeps, Claims, NoRow, Held, ActiveStatuses
<1>2. Init => Ledger
  BY ConstantsAssumption DEF Init, Ledger, AttemptLedger, NoRow, NothingSeen, Unread
<1>3. Init => DepInv
  BY DEF Init, DepInv, DependenciesHonoured, NoRow
<1>4. TypeOK /\ TypeOK' /\ Ledger /\ DepInv /\ Exclusive /\ ReopenedIsFree /\ [Next]_vars
          => Exclusive'
  BY ExclusiveNext
<1>5. TypeOK /\ TypeOK' /\ Exclusive /\ ReopenedIsFree /\ [Next]_vars => ReopenedIsFree'
  BY ReopenedNext
<1>6. Init => ReopenedIsFree
  BY ConstantsAssumption DEF Init, ReopenedIsFree, Reopens, NoRequest
<1> QED BY <1>1, <1>2, <1>3, <1>4, <1>5, <1>6, TypeInit, TypeNext, LedgerNext, DepNext, PTL DEF Spec

\* No two workers ever run the handler of one job at a time, for any number of
\* workers that may be killed at any point, as long as those alive renew their
\* leases in time, a job is reopened by one request at a time and nobody asks
\* to cancel.
THEOREM ExecutionIsSingle ==
    ASSUME Punctual, SoleManager, Cancellable = {}
    PROVE  Spec => []SingleExecution
<1>1. TypeOK /\ Exclusive => SingleExecution
  <2> SUFFICES ASSUME TypeOK, Exclusive, NEW v \in Workers, NEW w \in Workers,
                      pc[v] = "running", pc[w] = "running", hand[v] = hand[w]
               PROVE  v = w
    BY DEF SingleExecution
  <2>1. hand[w] \in Jobs /\ Owns(v, hand[w]) /\ Owns(w, hand[w])
    BY DEF TypeOK, HandStates, Owns
  <2> QED BY <2>1, OwnerAlone
<1> QED BY <1>1, ExclusiveAlways, PTL

\* A leased or running job always has a lease the sweep can wait for: a job
\* is never stuck with a worker that died, in the same conditions.
THEOREM LeasesAreRecoverable ==
    ASSUME Punctual, SoleManager, Cancellable = {}
    PROVE  Spec => []LeasedIsRecoverable
<1>1. Exclusive => LeasedIsRecoverable
  BY DEF Exclusive, HeldIsCounted, LeasedIsRecoverable, Active
<1> QED BY <1>1, ExclusiveAlways, PTL

-----------------------------------------------------------------------------
(* Concurrency.  Only a lease adds to the active jobs; the worker that     *)
(* will commit it has held the queue's row since it counted them.          *)

Limit == \A w \in Workers : pc[w] = "admitted" =>
    /\ queueLock = w /\ known[w] # None
    /\ Cardinality(Active) < AtLeastOne(known[w].max_concurrency)

\* Counting active jobs.
LEMMA ActiveCount ==
    ASSUME IsFiniteSet(Jobs), NEW S \in SUBSET Jobs, NEW T, T \subseteq S
    PROVE  Cardinality(S) \in Nat /\ Cardinality(T) \in Nat /\ Cardinality(T) <= Cardinality(S)
  BY FS_Subset, FS_CardinalityType

\* The limit is a number.
LEMMA LimitType ==
    ASSUME TypeOK, NEW w \in Workers, known[w] # None
    PROVE  AtLeastOne(known[w].max_concurrency) \in Nat
  BY ConstantsAssumption DEF TypeOK, AtLeastOne

\* A step that leases nothing, admits nobody and leaves a row lock with the
\* worker that was admitted.
LEMMA LimitKept ==
    ASSUME IsFiniteSet(Jobs), TypeOK, Limit, Active' \subseteq Active,
           \A w \in Workers : pc'[w] = "admitted" =>
               pc[w] = "admitted" /\ queueLock' = queueLock /\ known'[w] = known[w]
    PROVE  Limit' /\ AddsWithinLimit
<1>1. Active \in SUBSET Jobs
  BY DEF Active
<1>2. Cardinality(Active) \in Nat /\ Cardinality(Active') \in Nat
      /\ Cardinality(Active') <= Cardinality(Active)
  BY <1>1, ActiveCount
<1>3. AddsWithinLimit
  BY <1>2 DEF AddsWithinLimit
<1>4. ASSUME NEW w \in Workers, pc'[w] = "admitted"
      PROVE  /\ queueLock' = w /\ known'[w] # None
             /\ Cardinality(Active') < AtLeastOne(known'[w].max_concurrency)
  <2>1. /\ queueLock = w /\ known[w] # None
        /\ Cardinality(Active) < AtLeastOne(known[w].max_concurrency)
    BY <1>4 DEF Limit
  <2>2. AtLeastOne(known[w].max_concurrency) \in Nat
    BY <2>1, LimitType
  <2> QED BY <1>2, <1>4, <2>1, <2>2
<1> QED BY <1>3, <1>4 DEF Limit

\* A row that is written without being leased.
LEMMA NoNewActive ==
    ASSUME TypeOK, NEW j \in Jobs, NEW r, job' = [job EXCEPT ![j] = r],
           r.status \in ActiveStatuses => job[j].status \in ActiveStatuses
    PROVE  Active' \subseteq Active
  BY DEF TypeOK, Active

\* A worker that was not admitted may settle.
LEMMA SettleLimit ==
    ASSUME TypeOK, Limit, NEW w \in Workers, NEW s, s # "admitted", Settle(w, s)
    PROVE  \A v \in Workers : pc'[v] = "admitted" =>
               pc[v] = "admitted" /\ queueLock' = queueLock /\ known'[v] = known[v]
<1> SUFFICES ASSUME NEW v \in Workers, pc'[v] = "admitted"
             PROVE  pc[v] = "admitted" /\ queueLock' = queueLock /\ known'[v] = known[v]
  OBVIOUS
<1>1. v # w /\ pc[v] = "admitted"
  BY DEF Settle, TypeOK
<1>2. queueLock = v
  BY <1>1 DEF Limit
<1> QED BY <1>1, <1>2 DEF Settle, TypeOK

\* Every step keeps the limit.
LEMMA LimitNext ==
    ASSUME IsFiniteSet(Jobs)
    PROVE  TypeOK /\ TypeOK' /\ Exclusive /\ Limit /\ [Next]_vars => Limit' /\ AddsWithinLimit
<1> SUFFICES ASSUME TypeOK, TypeOK', Exclusive, Limit, [Next]_vars
             PROVE  Limit' /\ AddsWithinLimit
  OBVIOUS
<1>1. \A j \in Jobs : job[j] \in JobRow
  BY DEF TypeOK
<1>2. CASE UNCHANGED <<pc, queueLock, known>> /\ Active' \subseteq Active
  BY <1>2, LimitKept
<1>3. CASE UNCHANGED <<job, known, queueLock, pc>>
  BY <1>2, <1>3 DEF Active
<1>4. CASE Client
  <2>1. ASSUME NEW j \in Jobs, NEW D \in SUBSET Jobs, enqueue(j, D) PROVE Limit' /\ AddsWithinLimit
    <3> DEFINE r == [job[j] EXCEPT !.status = "queued"]
    <3>1. r.status = "queued"
      BY <1>1, RowStatus
    <3>2. job' = [job EXCEPT ![j] = r]
      BY <2>1 DEF enqueue
    <3> HIDE DEF r
    <3>3. Active' \subseteq Active
      BY <3>1, <3>2, NoNewActive DEF ActiveStatuses
    <3> QED BY <1>2, <2>1, <3>3 DEF enqueue, sessionVars
  <2>2. ASSUME NEW j \in Jobs, RequestCancelRead(j) \/ RequestCancelCommit(j)
        PROVE  Limit' /\ AddsWithinLimit
    BY <1>3, <2>2 DEF RequestCancelRead, RequestCancelCommit, Exclusive, NoneAsked, dbVars, sessionVars
  <2>3. ASSUME NEW m \in Managers, RetryCommit(m) PROVE Limit' /\ AddsWithinLimit
    <3>0. PICK j \in Jobs, c \in BOOLEAN : Reopened(m, j, c)
      BY <2>3, RetryRow
    <3> DEFINE r == [job[j] EXCEPT !.status = "queued", !.cancel = c]
    <3>1. r.status = "queued"
      BY <1>1, RowStatus
    <3>2. job' = [job EXCEPT ![j] = r]
      BY <3>0 DEF Reopened
    <3> HIDE DEF r
    <3>3. Active' \subseteq Active
      BY <3>1, <3>2, NoNewActive DEF ActiveStatuses
    <3> QED BY <1>2, <3>0, <3>3 DEF Reopened, sessionVars
  <2>4. CASE update_queue
    BY <1>3, <2>4 DEF update_queue, sessionVars
  <2>5. ASSUME NEW m \in Managers, NEW j \in Jobs, RetryRead(m, j) PROVE Limit' /\ AddsWithinLimit
    BY <1>3, <2>5 DEF RetryRead, dbVars, sessionVars
  <2> QED BY <1>4, <2>1, <2>2, <2>3, <2>4, <2>5 DEF Client
<1>5. CASE Clock
  <2>1. CASE MinutePasses
    BY <1>3, <2>1 DEF MinutePasses, sessionVars
  <2>2. ASSUME NEW j \in Jobs, LeaseExpires(j) PROVE Limit' /\ AddsWithinLimit
    <3> DEFINE r == [job[j] EXCEPT !.lease = "expired"]
    <3>1. r.status = job[j].status
      BY <1>1, RowStatus
    <3>2. job' = [job EXCEPT ![j] = r]
      BY <2>2 DEF LeaseExpires
    <3> HIDE DEF r
    <3>3. Active' \subseteq Active
      BY <3>1, <3>2, NoNewActive
    <3> QED BY <1>2, <2>2, <3>3 DEF LeaseExpires, sessionVars
  <2> QED BY <1>5, <2>1, <2>2 DEF Clock
<1>6. ASSUME NEW w \in Workers, Sweep(w) PROVE Limit' /\ AddsWithinLimit
  <2>1. CASE SweepRead(w)
    <3>1. UNCHANGED <<job, known, queueLock>> /\ pc' = [pc EXCEPT ![w] = "sweeping"]
      BY <2>1 DEF SweepRead, dbVars
    <3> QED BY <3>1, LimitKept DEF Active, TypeOK
  <2>2. CASE SweepCommit(w)
    <3>1. \A v \in Workers : pc'[v] = "admitted" =>
            pc[v] = "admitted" /\ queueLock' = queueLock /\ known'[v] = known[v]
      BY <2>2, SettleLimit DEF SweepCommit
    <3>2. ASSUME NEW i \in Jobs, job'[i].status \in ActiveStatuses
          PROVE  job[i].status \in ActiveStatuses
      <4> DEFINE st == AfterFailure(seen[w][i].n, seen[w][i].cancel)
                 r == [job[i] EXCEPT !.status = st, !.holder = None, !.lease = "none"]
      <4>1. job'[i] = job[i] \/ job'[i] = r
        BY <2>2 DEF SweepCommit
      <4>2. r.status = st
        BY <1>1, RowStatus
      <4>3. st \notin ActiveStatuses
        BY DEF AfterFailure, ActiveStatuses
      <4> HIDE DEF r, st
      <4> QED BY <3>2, <4>1, <4>2, <4>3
    <3>3. Active' \subseteq Active
      BY <3>2 DEF Active
    <3> QED BY <2>2, <3>1, <3>3, LimitKept DEF SweepCommit
  <2> QED BY <1>6, <2>1, <2>2 DEF Sweep
<1>7. ASSUME NEW w \in Workers, Claim(w) PROVE Limit' /\ AddsWithinLimit
  <2>1. CASE ClaimNothing(w) \/ heartbeat(w)
    <3>1. \A v \in Workers : pc'[v] = "admitted" =>
            pc[v] = "admitted" /\ queueLock' = queueLock /\ known'[v] = known[v]
      BY <2>1, SettleLimit DEF ClaimNothing, heartbeat
    <3>2. UNCHANGED <<job, queue>>
      BY <2>1 DEF ClaimNothing, heartbeat, dbVars
    <3> QED BY <3>1, <3>2, LimitKept DEF Active
  <2>2. CASE (\E S \in SUBSET Jobs : ClaimSelect(w, S)) \/ ClaimExhausted(w)
    <3>1. UNCHANGED <<job, queueLock>> /\ \A v \in Workers \ {w} : known'[v] = known[v]
      BY <2>2 DEF ClaimSelect, ClaimExhausted, dbVars, TypeOK
    <3>2. \E s \in {"claiming", "sleeping"} : pc' = [pc EXCEPT ![w] = s]
      BY <2>2 DEF ClaimSelect, ClaimExhausted
    <3> QED BY <3>1, <3>2, LimitKept DEF Active, TypeOK
  <2>3. ASSUME NEW j \in Jobs, ClaimWaiting(w, j) PROVE Limit' /\ AddsWithinLimit
    BY <1>3, <2>3 DEF ClaimWaiting, dbVars
  <2>4. ASSUME NEW j \in Jobs, ClaimImpossible(w, j) PROVE Limit' /\ AddsWithinLimit
    <3> DEFINE r == [job[j] EXCEPT !.status = "dead_letter"]
    <3>1. r.status = "dead_letter"
      BY <1>1, RowStatus
    <3>2. job' = [job EXCEPT ![j] = r]
      BY <2>4 DEF ClaimImpossible
    <3> HIDE DEF r
    <3>3. Active' \subseteq Active
      BY <3>1, <3>2, NoNewActive DEF ActiveStatuses
    <3>4. \A v \in Workers : pc'[v] = "admitted" =>
            pc[v] = "admitted" /\ queueLock' = queueLock /\ known'[v] = known[v]
      BY <2>4 DEF ClaimImpossible, Limit
    <3> QED BY <2>4, <3>3, <3>4, LimitKept DEF ClaimImpossible
  <2>5. ASSUME NEW j \in Jobs, LockQueue(w, j) PROVE \A v \in Workers : pc[v] # "admitted"
    BY <2>5, ConstantsAssumption DEF LockQueue, Limit
  <2>6. ASSUME NEW j \in Jobs, ClaimPostponed(w, j) PROVE Limit' /\ AddsWithinLimit
    <3>1. UNCHANGED <<job, pc>> /\ \A v \in Workers : pc[v] # "admitted"
      BY <2>5, <2>6 DEF ClaimPostponed, dbVars
    <3> QED BY <3>1, LimitKept DEF Active
  <2>7. ASSUME NEW j \in Jobs, ClaimAdmitted(w, j) PROVE Limit' /\ AddsWithinLimit
    <3>1. /\ queueLock' = w /\ job' = job /\ pc' = [pc EXCEPT ![w] = "admitted"]
          /\ \A v \in Workers : pc[v] # "admitted"
      BY <2>5, <2>7 DEF ClaimAdmitted, dbVars, LockQueue
    <3>9. known'[w] # None /\ Cardinality(Active) < AtLeastOne(known'[w].max_concurrency)
      <4>1. known'[w] = Settings(w) /\ Settings(w) # None
        BY <2>7, ConstantsAssumption DEF ClaimAdmitted, LockQueue, Settings, TypeOK
      <4> QED BY <2>7, <4>1 DEF ClaimAdmitted, HasCapacity
    <3>2. Active' = Active
      BY <3>1 DEF Active
    <3>3. Limit'
      BY <3>1, <3>2, <3>9 DEF Limit, TypeOK
    <3>4. Cardinality(Active) \in Nat
      BY ActiveCount DEF Active
    <3> QED BY <3>2, <3>3, <3>4 DEF AddsWithinLimit
  <2>8. CASE ClaimCommit(w)
    <3>0. PICK j \in Jobs : hand[w] = j
      BY <2>8 DEF ClaimCommit, TypeOK, HandStates
    <3>1. /\ pc[w] = "admitted" /\ pc' = [pc EXCEPT ![w] = "claimed"]
          /\ \A i \in Jobs \ {j} : job'[i] = job[i]
      BY <2>8, <3>0 DEF ClaimCommit, TypeOK
    <3>2. /\ queueLock = w /\ known[w] # None
          /\ Cardinality(Active) < AtLeastOne(known[w].max_concurrency)
      BY <3>1 DEF Limit
    <3>3. Limit'
      BY <3>1, <3>2 DEF Limit, TypeOK
    <3>4. Active' \subseteq Active \cup {j} /\ Active \in SUBSET Jobs /\ Active \cup {j} \in SUBSET Jobs
      BY <3>1 DEF Active
    <3>5. IsFiniteSet(Active)
      BY <3>4, FS_Subset
    <3>6. Cardinality(Active \cup {j}) <= Cardinality(Active) + 1 /\ Cardinality(Active) \in Nat
      <4>1. Cardinality(Active) \in Nat
        BY <3>5, FS_CardinalityType
      <4>2. Cardinality(Active \cup {j}) = IF j \in Active THEN Cardinality(Active)
                                                         ELSE Cardinality(Active) + 1
        BY <3>5, FS_AddElement
      <4> HIDE DEF Active
      <4> QED BY <4>1, <4>2
    <3>7. Cardinality(Active') <= Cardinality(Active \cup {j})
          /\ Cardinality(Active') \in Nat /\ Cardinality(Active \cup {j}) \in Nat
      BY <3>4, ActiveCount
    <3>8. AtLeastOne(known[w].max_concurrency) \in Nat
      BY <3>2, LimitType
    <3>9. AddsWithinLimit
      BY <3>1, <3>2, <3>6, <3>7, <3>8 DEF AddsWithinLimit
    <3> QED BY <3>3, <3>9
  <2> QED BY <1>7, <2>1, <2>2, <2>3, <2>4, <2>6, <2>7, <2>8 DEF Claim
<1>8. ASSUME NEW w \in Workers, Execute(w) PROVE Limit' /\ AddsWithinLimit
  <2>1. CASE ClaimRefresh(w)
    <3>1. UNCHANGED <<job, known, queueLock>> /\ pc' = [pc EXCEPT ![w] = "leased"]
      BY <2>1 DEF ClaimRefresh, dbVars
    <3> QED BY <3>1, LimitKept DEF Active, TypeOK
  <2>2. CASE ExecuteStart(w)
    <3>1. PICK j \in Jobs : hand[w] = j
      BY <2>2 DEF ExecuteStart, TypeOK, HandStates
    <3>2. Owns(w, j)
      BY <2>2, <3>1 DEF ExecuteStart, Owns
    <3>3. job[j].status \in ActiveStatuses
      BY <3>2 DEF Exclusive, OwnerHolds
    <3> DEFINE r == [job[j] EXCEPT !.status = "running"]
    <3>4. job' = [job EXCEPT ![j] = r]
      BY <2>2, <3>1 DEF ExecuteStart
    <3> HIDE DEF r
    <3>5. Active' \subseteq Active
      BY <3>3, <3>4, NoNewActive
    <3>6. UNCHANGED <<known, queueLock>> /\ pc' = [pc EXCEPT ![w] = "running"]
      BY <2>2 DEF ExecuteStart
    <3> QED BY <3>5, <3>6, LimitKept DEF TypeOK
  <2>3. CASE ExecuteCancelled(w) \/ ExecuteSucceeded(w) \/ ExecuteFailed(w)
    <3>1. PICK j \in Jobs : hand[w] = j
      BY <2>3 DEF ExecuteCancelled, ExecuteSucceeded, ExecuteFailed, TypeOK, HandStates
    <3>2. Settle(w, "idle") /\ queue' = queue
      BY <2>3 DEF ExecuteCancelled, ExecuteSucceeded, ExecuteFailed
    <3>3. \A v \in Workers : pc'[v] = "admitted" =>
            pc[v] = "admitted" /\ queueLock' = queueLock /\ known'[v] = known[v]
      BY <3>2, SettleLimit
    <3> DEFINE late == AfterFailure(seen[w][hand[w]].n, seen[w][hand[w]].cancel)
    <3>4. late \notin ActiveStatuses
      BY DEF AfterFailure, ActiveStatuses
    <3>5. PICK st : st = late
      OBVIOUS
    <3>6. PICK r \in {[job[j] EXCEPT !.status = "cancelled"],
                      [job[j] EXCEPT !.status = st, !.lease = "none"],
                      [job[j] EXCEPT !.status = "succeeded", !.lease = "none"]} :
             job' = [job EXCEPT ![j] = r]
      <4>1. CASE ExecuteCancelled(w)
        BY <3>1, <4>1 DEF ExecuteCancelled
      <4>2. CASE ExecuteSucceeded(w)
        BY <3>1, <4>2 DEF ExecuteSucceeded
      <4>3. CASE ExecuteFailed(w)
        BY <3>1, <3>5, <4>3 DEF ExecuteFailed
      <4> QED BY <2>3, <4>1, <4>2, <4>3
    <3> HIDE DEF late
    <3>7. r.status \notin ActiveStatuses
      <4>1. /\ [job[j] EXCEPT !.status = "cancelled"].status = "cancelled"
            /\ [job[j] EXCEPT !.status = st, !.lease = "none"].status = st
            /\ [job[j] EXCEPT !.status = "succeeded", !.lease = "none"].status = "succeeded"
        BY <1>1, RowStatus
      <4> QED BY <3>4, <3>5, <3>6, <4>1 DEF ActiveStatuses
    <3>8. Active' \subseteq Active
      BY <3>6, <3>7, NoNewActive
    <3> QED BY <3>2, <3>3, <3>8, LimitKept
  <2> QED BY <1>8, <2>1, <2>2, <2>3 DEF Execute
<1>9. ASSUME NEW w \in Workers, renew_lease(w) PROVE Limit' /\ AddsWithinLimit
  <2>1. hand[w] \in Jobs /\ Owns(w, hand[w])
    BY <1>9 DEF renew_lease, TypeOK, HandStates, Owns
  <2> QED BY <1>9, <2>1 DEF renew_lease, Exclusive, OwnerHolds
<1>10. ASSUME NEW w \in Workers, Process(w) PROVE Limit' /\ AddsWithinLimit
  <2>1. ASSUME NEW v \in Workers, Stop(v) PROVE Limit' /\ AddsWithinLimit
    <3>1. \A u \in Workers : pc'[u] = "admitted" =>
            pc[u] = "admitted" /\ queueLock' = queueLock /\ known'[u] = known[u]
      BY <2>1, SettleLimit DEF Stop
    <3>2. UNCHANGED <<job, queue>>
      BY <2>1 DEF Stop, dbVars
    <3> QED BY <3>1, <3>2, LimitKept DEF Active
  <2>2. CASE register_worker(w)
    <3>1. UNCHANGED <<job, known, queueLock>> /\ pc' = [pc EXCEPT ![w] = "idle"]
      BY <2>2 DEF register_worker, dbVars
    <3> QED BY <3>1, LimitKept DEF Active, TypeOK
  <2> QED BY <1>10, <2>1, <2>2
          DEF Process, Crash, DuplicateAttempt, NotTheHolder, DeadlockVictim
<1>11. CASE UNCHANGED vars
  BY <1>3, <1>11 DEF vars, dbVars, sessionVars
<1> QED BY <1>4, <1>5, <1>6, <1>7, <1>8, <1>9, <1>10, <1>11 DEF Next

\* However many workers claim at once, a lease never brings the leased and
\* running jobs above the max_concurrency that its worker loaded when it first
\* locked the queue row, whatever an administrator sets meanwhile.
THEOREM LeasesStayWithinLimit ==
    ASSUME Punctual, SoleManager, Cancellable = {}, IsFiniteSet(Jobs)
    PROVE  Spec => LeaseWithinLimit
<1>1. Init => Limit
  BY DEF Init, Limit
<1>2. TypeOK /\ TypeOK' /\ Exclusive /\ Limit /\ [Next]_vars => Limit' /\ [AddsWithinLimit]_vars
  BY LimitNext
<1>3. Spec => [][AddsWithinLimit]_vars
  BY <1>1, <1>2, ExclusiveAlways, PTL DEF Spec
<1> QED BY <1>3 DEF LeaseWithinLimit

-----------------------------------------------------------------------------
(* The life cycle.  A job waits only with an attempt left; what a sweep    *)
(* read is still the last attempt and its verdict still the same; a claim  *)
(* whose count is current is of a job that waits, or was never tried.      *)

Budget == AtLeastOne(MaxAttempts)
Verdict(n) == AfterFailure(n, FALSE)

NeverAsked == \A j \in Jobs : /\ job[j].cancel = FALSE
                              /\ \A w \in Workers : seen[w][j].cancel = FALSE
WithinBudget == \A j \in Jobs :
    /\ job[j].attempts <= Budget + manual[j]
    /\ job[j].status \in RUNNABLE_STATUSES => job[j].attempts < Budget + manual[j]
SweepIsCurrent == \A w \in Workers, j \in Jobs : Sweeps(w, j) =>
    /\ seen[w][j].n = job[j].attempts /\ job[j].attempts > 0
    /\ job[j].status \in ActiveStatuses \cup {Verdict(job[j].attempts)}
ClaimIsDue == \A w \in Workers, j \in Jobs :
    Claims(w, j) /\ seen[w][j].n = job[j].attempts =>
        job[j].status \in RUNNABLE_STATUSES \/ job[j].attempts = 0

Budgets == NeverAsked /\ WithinBudget /\ SweepIsCurrent /\ ClaimIsDue

\* What a failed attempt leads to.
LEMMA VerdictType ==
    ASSUME NEW n \in Nat
    PROVE  /\ Budget \in Nat /\ Budget > 0
           /\ Verdict(n) \in {"retry_wait", "dead_letter"}
           /\ Verdict(n) = "retry_wait" <=> n < Budget
  BY ConstantsAssumption DEF Budget, AtLeastOne, Verdict, AfterFailure, can_retry

\* Sessions that sweep and claim nothing they had not read before.
BudgetSessions ==
    \A w \in Workers, i \in Jobs :
        /\ seen'[w][i].cancel = FALSE
        /\ Sweeps(w, i)' => Sweeps(w, i) /\ seen'[w][i].n = seen[w][i].n
        /\ Claims(w, i)' => Claims(w, i) /\ seen'[w][i].n = seen[w][i].n

\* The writes of a row: none of its status; the verdict of a lost or failed
\* attempt; the owner's; a (re)opening; and the end of a job never tried.
BudgetWrite(i) ==
    /\ job'[i].attempts = job[i].attempts /\ job'[i].cancel = FALSE
    /\ manual'[i] >= manual[i]
    /\ \/ job'[i].status = job[i].status
       \/ /\ \E w \in Workers : Owns(w, i) \/ Sweeps(w, i)
          /\ job'[i].status = Verdict(job[i].attempts)
       \/ /\ \E w \in Workers : Owns(w, i)
          /\ job'[i].status \in {"running", "succeeded", "cancelled"}
       \/ /\ \A w \in Workers : ~Sweeps(w, i)
          /\ job'[i].status = "queued" /\ job[i].attempts < Budget + manual'[i]
       \/ job'[i].status = "dead_letter" /\ job[i].attempts = 0

\* Such steps keep Budgets.
LEMMA BudgetsKept ==
    ASSUME TypeOK, TypeOK', Exclusive, Budgets, BudgetSessions, \A i \in Jobs : BudgetWrite(i)
    PROVE  Budgets'
<1>1. \A i \in Jobs : /\ job[i].attempts \in Nat /\ manual[i] \in Nat /\ manual'[i] \in Nat
                      /\ \A w \in Workers : seen[w][i].n \in Nat
  BY DEF TypeOK, JobRow, ReadRow
<1>2. NeverAsked'
  BY DEF NeverAsked, BudgetSessions, BudgetWrite
<1>3. WithinBudget'
  <2> SUFFICES ASSUME NEW j \in Jobs
               PROVE  /\ job'[j].attempts <= Budget + manual'[j]
                      /\ job'[j].status \in RUNNABLE_STATUSES => job'[j].attempts < Budget + manual'[j]
    BY DEF WithinBudget, Budget
  <2>1. /\ job[j].attempts <= Budget + manual[j]
        /\ job[j].status \in RUNNABLE_STATUSES => job[j].attempts < Budget + manual[j]
    BY DEF Budgets, WithinBudget
  <2>2. /\ job'[j].attempts = job[j].attempts /\ manual'[j] >= manual[j]
        /\ \/ job'[j].status = job[j].status
           \/ job'[j].status = Verdict(job[j].attempts)
           \/ job'[j].status \in {"running", "succeeded", "cancelled", "dead_letter"}
           \/ job[j].attempts < Budget + manual'[j]
    BY DEF BudgetWrite
  <2>3. /\ Budget \in Nat
        /\ Verdict(job[j].attempts) \in RUNNABLE_STATUSES => job[j].attempts < Budget
    BY <1>1, VerdictType DEF RUNNABLE_STATUSES
  <2> QED BY <1>1, <2>1, <2>2, <2>3 DEF RUNNABLE_STATUSES
<1>4. SweepIsCurrent'
  <2> SUFFICES ASSUME NEW w \in Workers, NEW j \in Jobs, Sweeps(w, j)'
               PROVE  /\ seen'[w][j].n = job'[j].attempts /\ job'[j].attempts > 0
                      /\ job'[j].status \in ActiveStatuses \cup {Verdict(job'[j].attempts)}
    BY DEF SweepIsCurrent, Verdict, AfterFailure, can_retry
  <2>1. Sweeps(w, j) /\ seen'[w][j].n = seen[w][j].n /\ \A v \in Workers : ~Owns(v, j)
    BY OwnerAlone DEF BudgetSessions
  <2>2. /\ seen[w][j].n = job[j].attempts /\ job[j].attempts > 0
        /\ job[j].status \in ActiveStatuses \cup {Verdict(job[j].attempts)}
    BY <2>1 DEF Budgets, SweepIsCurrent
  <2> QED BY <1>1, <2>1, <2>2 DEF BudgetWrite
<1>5. ClaimIsDue'
  <2> SUFFICES ASSUME NEW w \in Workers, NEW j \in Jobs,
                      Claims(w, j)', seen'[w][j].n = job'[j].attempts
               PROVE  job'[j].status \in RUNNABLE_STATUSES \/ job'[j].attempts = 0
    BY DEF ClaimIsDue
  <2>1. Claims(w, j) /\ seen[w][j].n = job[j].attempts
    BY DEF BudgetSessions, BudgetWrite
  <2>2. job[j].status \notin Held /\ \A v \in Workers : ~Sweeps(v, j)
    BY <2>1 DEF Exclusive, ClaimIsFree
  <2>3. \A v \in Workers : ~Owns(v, j)
    BY <2>2 DEF Exclusive, OwnerHolds, Held
  <2>4. job[j].status \in RUNNABLE_STATUSES \/ job[j].attempts = 0
    BY <2>1 DEF Budgets, ClaimIsDue
  <2> QED BY <2>2, <2>3, <2>4 DEF BudgetWrite, RUNNABLE_STATUSES
<1> QED BY <1>2, <1>3, <1>4, <1>5 DEF Budgets

\* A step that writes one row of the queue.
LEMMA OneBudgetWrite ==
    ASSUME TypeOK, TypeOK', Exclusive, Budgets, BudgetSessions, NEW j \in Jobs, NEW r,
           job' = [job EXCEPT ![j] = r], job'[j] = r => BudgetWrite(j),
           manual' = manual
    PROVE  Budgets'
<1>1. job'[j] = r /\ \A i \in Jobs \ {j} : job'[i] = job[i]
  BY DEF TypeOK
<1>2. \A i \in Jobs : manual[i] \in Nat
  BY DEF TypeOK
<1>3. \A i \in Jobs : BudgetWrite(i)
  BY <1>1, <1>2 DEF BudgetWrite, Budgets, NeverAsked
<1> QED BY <1>3, BudgetsKept

\* A step that writes no row.
LEMMA NoBudgetWrite ==
    ASSUME TypeOK, TypeOK', Exclusive, Budgets, BudgetSessions, UNCHANGED <<job, manual>>
    PROVE  Budgets'
<1>1. \A i \in Jobs : manual[i] \in Nat
  BY DEF TypeOK
<1>2. \A i \in Jobs : BudgetWrite(i)
  BY <1>1 DEF BudgetWrite, Budgets, NeverAsked
<1> QED BY <1>2, BudgetsKept

\* A worker that settles sweeps and claims nothing more.
LEMMA SettleBudget ==
    ASSUME TypeOK, Budgets, NEW w \in Workers,
           NEW s \in WorkerStates \ (HandStates \cup {"sweeping", "claiming"}), Settle(w, s)
    PROVE  BudgetSessions
  BY DEF TypeOK, Settle, BudgetSessions, Sweeps, Claims, HandStates, Budgets, NeverAsked,
         NothingSeen, Unread

\* The cancellation column after each kind of write.
LEMMA RowCancel ==
    ASSUME NEW r \in JobRow, NEW s, NEW b, NEW l
    PROVE  /\ [r EXCEPT !.status = s].cancel = r.cancel
           /\ [r EXCEPT !.lease = l].cancel = r.cancel
           /\ [r EXCEPT !.status = s, !.cancel = FALSE].cancel = FALSE
           /\ [r EXCEPT !.status = s, !.lease = l].cancel = r.cancel
           /\ [r EXCEPT !.status = s, !.holder = None, !.lease = l].cancel = r.cancel
  BY DEF JobRow

\* Every step keeps Budgets.
LEMMA BudgetsNext ==
    ASSUME Punctual, Cancellable = {}
    PROVE  TypeOK /\ TypeOK' /\ Ledger /\ DepInv /\ Exclusive /\ ReopenedIsFree /\ Outcomes
              /\ Budgets /\ [Next]_vars
               => Budgets'
<1> SUFFICES ASSUME TypeOK, TypeOK', Ledger, DepInv, Exclusive, ReopenedIsFree, Outcomes, Budgets,
                    [Next]_vars
             PROVE  Budgets'
  OBVIOUS
<1>1. \A j \in Jobs : /\ job[j] \in JobRow /\ job[j].cancel = FALSE
                      /\ job[j].attempts \in Nat /\ manual[j] \in Nat
  BY DEF TypeOK, JobRow, Budgets, NeverAsked
<1>2. ASSUME UNCHANGED <<pc, rows, hand, seen>> PROVE BudgetSessions
  BY <1>2 DEF BudgetSessions, Sweeps, Claims, Budgets, NeverAsked
<1>3. CASE UNCHANGED <<job, manual>> /\ UNCHANGED <<pc, rows, hand, seen>>
  BY <1>2, <1>3, NoBudgetWrite
<1>4. CASE Client
  <2>1. ASSUME NEW j \in Jobs, NEW D \in SUBSET Jobs, enqueue(j, D) PROVE Budgets'
    <3> DEFINE r == [job[j] EXCEPT !.status = "queued"]
    <3>1. job[j].status = "absent" /\ job[j].attempts = 0
      BY <2>1 DEF enqueue, DepInv
    <3>2. r.attempts = job[j].attempts /\ r.status = "queued" /\ r.cancel = FALSE
      BY <1>1, RowAttempts, RowStatus, RowCancel
    <3>3. job' = [job EXCEPT ![j] = r] /\ UNCHANGED <<manual, pc, rows, hand, seen>>
      BY <2>1 DEF enqueue, sessionVars
    <3> HIDE DEF r
    <3>4. \A w \in Workers : ~Sweeps(w, j)
      BY <3>1 DEF Budgets, SweepIsCurrent
    <3>5. Budget \in Nat /\ Budget > 0
      BY VerdictType
    <3>6. job'[j] = r => BudgetWrite(j)
      BY <1>1, <3>1, <3>2, <3>3, <3>4, <3>5 DEF BudgetWrite
    <3> QED BY <1>2, <3>3, <3>6, OneBudgetWrite
  <2>2. ASSUME NEW j \in Jobs, RequestCancelRead(j) \/ RequestCancelCommit(j) PROVE Budgets'
    BY <2>2 DEF RequestCancelRead, RequestCancelCommit, Exclusive, NoneAsked
  <2>3. ASSUME NEW m \in Managers, RetryCommit(m) PROVE Budgets'
    <3>0. PICK j \in Jobs, c \in BOOLEAN : Reopened(m, j, c)
      BY <2>3, RetryRow
    <3> DEFINE r == [job[j] EXCEPT !.status = "queued", !.cancel = FALSE]
    <3>1. r.attempts = job[j].attempts /\ r.status = "queued" /\ r.cancel = FALSE
      BY <1>1, RowAttempts, RowStatus, RowCancel
    <3>2. job' = [job EXCEPT ![j] = r] /\ UNCHANGED <<pc, rows, hand, seen>>
      BY <1>1, <3>0 DEF Reopened, sessionVars
    <3> HIDE DEF r
    <3>3. \A w \in Workers : ~Sweeps(w, j)
      BY <3>0 DEF Reopened, ReopenedIsFree, Reopens
    <3>4. \A i \in Jobs : manual'[i] = IF i = j THEN manual[i] + 1 ELSE manual[i]
      BY <3>0 DEF Reopened, TypeOK
    <3>5. job[j].attempts <= Budget + manual[j]
      BY DEF Budgets, WithinBudget
    <3>6. Budget \in Nat
      BY VerdictType
    <3>7. \A i \in Jobs : job'[i] = IF i = j THEN r ELSE job[i]
      BY <3>2 DEF TypeOK
    <3>8. BudgetWrite(j)
      BY <1>1, <3>1, <3>3, <3>4, <3>5, <3>6, <3>7 DEF BudgetWrite
    <3>9. \A i \in Jobs \ {j} : BudgetWrite(i)
      BY <1>1, <3>4, <3>7 DEF BudgetWrite
    <3> QED BY <1>2, <3>2, <3>8, <3>9, BudgetsKept
  <2>4. CASE update_queue
    BY <1>3, <2>4 DEF update_queue, sessionVars
  <2>5. ASSUME NEW m \in Managers, NEW j \in Jobs, RetryRead(m, j) PROVE Budgets'
    BY <1>3, <2>5 DEF RetryRead, dbVars, sessionVars
  <2> QED BY <1>4, <2>1, <2>2, <2>3, <2>4, <2>5 DEF Client
<1>5. CASE Clock
  <2>1. CASE MinutePasses
    BY <1>3, <2>1 DEF MinutePasses, sessionVars
  <2>2. ASSUME NEW j \in Jobs, LeaseExpires(j) PROVE Budgets'
    <3> DEFINE r == [job[j] EXCEPT !.lease = "expired"]
    <3>1. r.attempts = job[j].attempts /\ r.status = job[j].status /\ r.cancel = FALSE
      BY <1>1, RowAttempts, RowStatus, RowCancel
    <3>2. job' = [job EXCEPT ![j] = r] /\ UNCHANGED <<manual, pc, rows, hand, seen>>
      BY <2>2 DEF LeaseExpires, sessionVars
    <3> HIDE DEF r
    <3>3. job'[j] = r => BudgetWrite(j)
      BY <1>1, <3>1, <3>2 DEF BudgetWrite
    <3> QED BY <1>2, <3>2, <3>3, OneBudgetWrite
  <2> QED BY <1>5, <2>1, <2>2 DEF Clock
<1>6. ASSUME NEW w \in Workers, Sweep(w) PROVE Budgets'
  <2>1. CASE SweepRead(w)
    <3>1. UNCHANGED <<job, manual, hand>>
      BY <2>1 DEF SweepRead, dbVars
    <3>2. pc[w] = "idle" /\ pc' = [pc EXCEPT ![w] = "sweeping"] /\ rows' = [rows EXCEPT ![w] = Expired]
      BY <2>1 DEF SweepRead
    <3>3. ASSUME NEW v \in Workers, NEW i \in Jobs
          PROVE  seen'[v][i].cancel = FALSE
      BY <2>1 DEF SweepRead, TypeOK, Unread, Budgets, NeverAsked
    <3>4. ASSUME NEW v \in Workers, NEW i \in Jobs, Claims(v, i)'
          PROVE  Claims(v, i) /\ seen'[v][i].n = seen[v][i].n
      BY <2>1, <3>1, <3>2, <3>4 DEF SweepRead, Claims, TypeOK
    <3>5. ASSUME NEW v \in Workers, NEW i \in Jobs, Sweeps(v, i)'
          PROVE  \/ Sweeps(v, i) /\ seen'[v][i].n = seen[v][i].n
                 \/ i \in Expired /\ seen'[v][i].n = job[i].attempts
      BY <2>1, <3>1, <3>2, <3>5 DEF SweepRead, Sweeps, TypeOK
    <3>6. \A i \in Expired : job[i].status \in ActiveStatuses /\ job[i].attempts > 0
      BY DEF Expired, Active, Exclusive, HeldIsCounted, Held
    <3>7. NeverAsked'
      BY <3>1, <3>3 DEF NeverAsked, Budgets
    <3>8. WithinBudget'
      BY <3>1 DEF Budgets, WithinBudget, Budget
    <3>9. SweepIsCurrent'
      BY <3>1, <3>5, <3>6 DEF Budgets, SweepIsCurrent, Verdict, AfterFailure, can_retry
    <3>10. ClaimIsDue'
      BY <3>1, <3>4 DEF Budgets, ClaimIsDue
    <3> QED BY <3>7, <3>8, <3>9, <3>10 DEF Budgets
  <2>2. CASE SweepCommit(w)
    <3>1. BudgetSessions
      BY <2>2, SettleBudget DEF SweepCommit, WorkerStates, HandStates
    <3>2. manual' = manual
      BY <2>2 DEF SweepCommit
    <3>3. ASSUME NEW i \in Jobs PROVE BudgetWrite(i)
      <4> DEFINE st == AfterFailure(seen[w][i].n, seen[w][i].cancel)
                 r == [job[i] EXCEPT !.status = st, !.holder = None, !.lease = "none"]
      <4>1. CASE i \notin rows[w]
        <5>1. job'[i] = job[i]
          BY <2>2, <4>1 DEF SweepCommit
        <5> QED BY <1>1, <3>2, <5>1 DEF BudgetWrite
      <4>2. CASE i \in rows[w]
        <5>1. job'[i] = r
          BY <2>2, <4>2 DEF SweepCommit
        <5>2. r.attempts = job[i].attempts /\ r.status = st /\ r.cancel = job[i].cancel
          BY <1>1, RowAttempts, RowStatus, RowCancel
        <5>3. Sweeps(w, i)
          BY <2>2, <4>2 DEF SweepCommit, Sweeps
        <5>4. seen[w][i].n = job[i].attempts /\ seen[w][i].cancel = FALSE
          BY <5>3 DEF Budgets, SweepIsCurrent, NeverAsked
        <5>5. st = Verdict(job[i].attempts)
          BY <5>4 DEF Verdict
        <5> HIDE DEF r, st
        <5> QED BY <1>1, <3>2, <5>1, <5>2, <5>3, <5>5 DEF BudgetWrite
      <4> QED BY <4>1, <4>2
    <3> QED BY <3>1, <3>3, BudgetsKept
  <2> QED BY <1>6, <2>1, <2>2 DEF Sweep
<1>7. ASSUME NEW w \in Workers, Claim(w) PROVE Budgets'
  <2>1. ASSUME NEW S \in SUBSET Jobs, ClaimSelect(w, S) PROVE Budgets'
    <3>1. UNCHANGED <<job, manual, hand>>
      BY <2>1 DEF ClaimSelect, dbVars
    <3>2. /\ pc' = [pc EXCEPT ![w] = "claiming"] /\ pc[w] \in {"swept", "idle"}
          /\ rows' = [rows EXCEPT ![w] = S] /\ S \subseteq Candidates(w)
      BY <2>1 DEF ClaimSelect, ReadyToSelect, FirstRows
    <3>3. ASSUME NEW v \in Workers, NEW i \in Jobs
          PROVE  seen'[v][i].cancel = FALSE
      BY <2>1 DEF ClaimSelect, TypeOK, Unread, Budgets, NeverAsked
    <3>4. ASSUME NEW v \in Workers, NEW i \in Jobs, Sweeps(v, i)'
          PROVE  Sweeps(v, i) /\ seen'[v][i].n = seen[v][i].n
      BY <2>1, <3>1, <3>2, <3>4 DEF ClaimSelect, Sweeps, TypeOK
    <3>5. ASSUME NEW v \in Workers, NEW i \in Jobs, Claims(v, i)'
          PROVE  \/ Claims(v, i) /\ seen'[v][i].n = seen[v][i].n
                 \/ job[i].status \in RUNNABLE_STATUSES
      <4>1. CASE v = w
        BY <3>1, <3>2, <3>5, <4>1 DEF Claims, Candidates, TypeOK
      <4>2. CASE v # w
        BY <2>1, <3>1, <3>2, <3>5, <4>2 DEF ClaimSelect, Claims, TypeOK
      <4> QED BY <4>1, <4>2
    <3>6. NeverAsked'
      BY <3>1, <3>3 DEF NeverAsked, Budgets
    <3>7. WithinBudget'
      BY <3>1 DEF Budgets, WithinBudget, Budget
    <3>8. SweepIsCurrent'
      BY <3>1, <3>4 DEF Budgets, SweepIsCurrent, Verdict, AfterFailure, can_retry
    <3>9. ClaimIsDue'
      BY <3>1, <3>5 DEF Budgets, ClaimIsDue
    <3> QED BY <3>6, <3>7, <3>8, <3>9 DEF Budgets
  <2>2. CASE ClaimNothing(w) \/ heartbeat(w)
    <3>1. BudgetSessions
      BY <2>2, SettleBudget DEF ClaimNothing, heartbeat, WorkerStates, HandStates
    <3> QED BY <2>2, <3>1, NoBudgetWrite DEF ClaimNothing, heartbeat, dbVars
  <2>3. CASE ClaimExhausted(w)
    <3>1. BudgetSessions
      BY <2>3 DEF ClaimExhausted, BudgetSessions, Sweeps, Claims, TypeOK, NothingSeen, Unread,
                  Budgets, NeverAsked
    <3> QED BY <2>3, <3>1, NoBudgetWrite DEF ClaimExhausted, dbVars
  <2>4. ASSUME NEW j \in Jobs, ClaimWaiting(w, j) \/ ClaimPostponed(w, j) \/ ClaimAdmitted(w, j)
        PROVE  Budgets'
    <3>1. seen' = seen
      BY <2>4 DEF ClaimWaiting, ClaimPostponed, ClaimAdmitted
    <3>2. ASSUME NEW v \in Workers, NEW i \in Jobs
          PROVE  (Sweeps(v, i)' => Sweeps(v, i)) /\ (Claims(v, i)' => Claims(v, i))
      <4>1. CASE ClaimWaiting(w, j) \/ ClaimPostponed(w, j)
        BY <4>1 DEF ClaimWaiting, ClaimPostponed, Skip, Sweeps, Claims, TypeOK
      <4>2. CASE ClaimAdmitted(w, j)
        BY <4>2 DEF ClaimAdmitted, LockQueue, IsNext, Sweeps, Claims, TypeOK
      <4> QED BY <2>4, <4>1, <4>2
    <3>3. BudgetSessions
      BY <3>1, <3>2 DEF BudgetSessions, Budgets, NeverAsked
    <3> QED BY <2>4, <3>3, NoBudgetWrite DEF ClaimWaiting, ClaimPostponed, ClaimAdmitted, dbVars
  <2>5. ASSUME NEW j \in Jobs, ClaimImpossible(w, j) PROVE Budgets'
    <3> DEFINE r == [job[j] EXCEPT !.status = "dead_letter"]
    <3>1. job' = [job EXCEPT ![j] = r] /\ manual' = manual
      BY <2>5 DEF ClaimImpossible
    <3>2. r.attempts = job[j].attempts /\ r.status = "dead_letter" /\ r.cancel = FALSE
      BY <1>1, RowAttempts, RowStatus, RowCancel
    <3> HIDE DEF r
    <3>3. BudgetSessions
      BY <2>5 DEF ClaimImpossible, Skip, BudgetSessions, Sweeps, Claims, TypeOK, Budgets, NeverAsked
    <3>4. ~Done(deps[j])
      BY <2>5 DEF ClaimImpossible, IsNext, _dependency_state, Done
    <3>5. job[j].attempts = 0
      BY <1>1, <3>4 DEF Exclusive, LeasedAfterDeps
    <3>6. job'[j] = r => BudgetWrite(j)
      BY <1>1, <3>1, <3>2, <3>5 DEF BudgetWrite
    <3> QED BY <3>1, <3>3, <3>6, OneBudgetWrite
  <2>6. CASE ClaimCommit(w)
    <3>0. PICK j \in Jobs : hand[w] = j
      BY <2>6 DEF ClaimCommit, TypeOK, HandStates
    <3> DEFINE n == seen[w][j].n + 1
    <3>1. Claims(w, j) /\ pc[w] = "admitted"
      BY <2>6, <3>0 DEF ClaimCommit, Claims
    <3>2. seen[w][j].n = job[j].attempts /\ n = job[j].attempts + 1
      <4>1. seen[w][j].n <= Len(attempt[j]) /\ job[j].attempts = Len(attempt[j])
        BY DEF Ledger, AttemptLedger
      <4>2. n \notin 1 .. Len(attempt[j])
        BY <2>6, <3>0 DEF ClaimCommit, AttemptExists, TypeOK
      <4>3. seen[w][j].n \in Nat /\ job[j].attempts \in Nat
        BY DEF TypeOK, ReadRow, JobRow
      <4> QED BY <4>1, <4>2, <4>3
    <3>3. \A v \in Workers : ~Sweeps(v, j)
      BY <3>1, <3>2 DEF Exclusive, ClaimIsFree
    <3>4. /\ \A i \in Jobs \ {j} : job'[i] = job[i]
          /\ job'[j] = Leased(job[j], w, n)
      BY <2>6, <3>0 DEF ClaimCommit, TypeOK
    <3>5. job'[j].status = "leased" /\ job'[j].attempts = n /\ job'[j].cancel = FALSE
      BY <1>1, <3>4 DEF Leased, JobRow
    <3>6. /\ UNCHANGED <<hand, rows, manual>> /\ pc' = [pc EXCEPT ![w] = "claimed"]
          /\ \A v \in Workers \ {w} : seen'[v] = seen[v]
          /\ seen' = [seen EXCEPT ![w] = [NothingSeen EXCEPT ![j].n = n]]
      BY <2>6, <3>0 DEF ClaimCommit, TypeOK
    <3>7. \A i \in Jobs : seen'[w][i].cancel = FALSE
      BY <3>6 DEF TypeOK, NothingSeen, Unread
    <3> HIDE DEF n
    <3>8. ASSUME NEW v \in Workers, NEW i \in Jobs
          PROVE  /\ Sweeps(v, i)' => Sweeps(v, i) /\ v # w
                 /\ Claims(v, i)' => Claims(v, i) /\ v # w
      <4>1. CASE v = w
        BY <3>1, <3>6, <4>1 DEF Sweeps, Claims, TypeOK
      <4>2. CASE v # w
        BY <3>6, <4>2 DEF Sweeps, Claims, TypeOK
      <4> QED BY <4>1, <4>2
    <3>9. NeverAsked'
      BY <1>1, <3>4, <3>5, <3>6, <3>7 DEF NeverAsked, Budgets
    <3>10. WithinBudget'
      <4>1. job[j].attempts < Budget + manual[j]
        <5>1. job[j].status \in RUNNABLE_STATUSES \/ job[j].attempts = 0
          BY <3>1, <3>2 DEF Budgets, ClaimIsDue
        <5>2. Budget \in Nat /\ Budget > 0
          BY VerdictType
        <5> QED BY <1>1, <5>1, <5>2 DEF Budgets, WithinBudget
      <4>2. Budget \in Nat
        BY VerdictType
      <4>3. n <= Budget + manual[j]
        BY <1>1, <3>2, <4>1, <4>2
      <4> SUFFICES ASSUME NEW i \in Jobs
                   PROVE  /\ job'[i].attempts <= Budget + manual'[i]
                          /\ job'[i].status \in RUNNABLE_STATUSES => job'[i].attempts < Budget + manual'[i]
        BY DEF WithinBudget, Budget
      <4>4. CASE i = j
        BY <3>5, <3>6, <4>3, <4>4 DEF RUNNABLE_STATUSES
      <4>5. CASE i # j
        BY <3>4, <3>6, <4>5 DEF Budgets, WithinBudget
      <4> QED BY <4>4, <4>5
    <3>11. SweepIsCurrent'
      <4> SUFFICES ASSUME NEW v \in Workers, NEW i \in Jobs, Sweeps(v, i)'
                   PROVE  /\ seen'[v][i].n = job'[i].attempts /\ job'[i].attempts > 0
                          /\ job'[i].status \in ActiveStatuses \cup {Verdict(job'[i].attempts)}
        BY DEF SweepIsCurrent, Verdict, AfterFailure, can_retry
      <4>1. Sweeps(v, i) /\ v # w
        BY <3>8
      <4>2. i # j
        BY <3>3, <4>1
      <4> QED BY <3>4, <3>6, <4>1, <4>2 DEF Budgets, SweepIsCurrent
    <3>12. ClaimIsDue'
      <4> SUFFICES ASSUME NEW v \in Workers, NEW i \in Jobs,
                          Claims(v, i)', seen'[v][i].n = job'[i].attempts
                   PROVE  job'[i].status \in RUNNABLE_STATUSES \/ job'[i].attempts = 0
        BY DEF ClaimIsDue
      <4>1. Claims(v, i) /\ seen[v][i].n = job'[i].attempts
        BY <3>6, <3>8
      <4>2. seen[v][i].n <= job[i].attempts
        BY DEF Ledger, AttemptLedger
      <4>3. i # j
        BY <1>1, <3>2, <3>5, <4>1, <4>2
      <4> QED BY <3>4, <4>1, <4>3 DEF Budgets, ClaimIsDue
    <3> QED BY <3>9, <3>10, <3>11, <3>12 DEF Budgets
  <2> QED BY <1>7, <2>1, <2>2, <2>3, <2>4, <2>5, <2>6 DEF Claim
<1>8. ASSUME NEW w \in Workers, Execute(w) PROVE Budgets'
  <2>1. CASE ClaimRefresh(w)
    <3>0. PICK j \in Jobs : hand[w] = j
      BY <2>1 DEF ClaimRefresh, TypeOK, HandStates
    <3>1. /\ pc[w] = "claimed" /\ pc' = [pc EXCEPT ![w] = "leased"] /\ UNCHANGED <<rows, hand>>
          /\ seen' = [seen EXCEPT ![w][j] = [n |-> job[j].attempts, cancel |-> job[j].cancel,
                                             active |-> FALSE]]
      BY <2>1, <3>0 DEF ClaimRefresh
    <3>2. ASSUME NEW v \in Workers, NEW i \in Jobs PROVE seen'[v][i].cancel = FALSE
      BY <1>1, <3>1 DEF TypeOK, Budgets, NeverAsked
    <3>3. ASSUME NEW v \in Workers, NEW i \in Jobs
          PROVE  /\ Sweeps(v, i)' => Sweeps(v, i) /\ seen'[v][i].n = seen[v][i].n
                 /\ Claims(v, i)' => Claims(v, i) /\ seen'[v][i].n = seen[v][i].n
      BY <3>1 DEF Sweeps, Claims, TypeOK
    <3>4. BudgetSessions
      BY <3>2, <3>3 DEF BudgetSessions
    <3> QED BY <2>1, <3>4, NoBudgetWrite DEF ClaimRefresh, dbVars
  <2>2. ASSUME NEW j \in Jobs, Owns(w, j), NEW st,
               \/ st \in {"running", "succeeded", "cancelled"}
               \/ st = Verdict(job[j].attempts),
               BudgetSessions, manual' = manual,
               \/ job' = [job EXCEPT ![j] = [job[j] EXCEPT !.status = st]]
               \/ job' = [job EXCEPT ![j] = [job[j] EXCEPT !.status = st, !.lease = "none"]]
        PROVE  Budgets'
    <3>1. PICK r \in {[job[j] EXCEPT !.status = st], [job[j] EXCEPT !.status = st, !.lease = "none"]} :
             job' = [job EXCEPT ![j] = r]
      BY <2>2
    <3>2. r.attempts = job[j].attempts /\ r.status = st /\ r.cancel = FALSE
      <4>1. /\ [job[j] EXCEPT !.status = st].attempts = job[j].attempts
            /\ [job[j] EXCEPT !.status = st, !.lease = "none"].attempts = job[j].attempts
        BY <1>1, RowAttempts
      <4>2. /\ [job[j] EXCEPT !.status = st].status = st
            /\ [job[j] EXCEPT !.status = st, !.lease = "none"].status = st
        BY <1>1, RowStatus
      <4>3. /\ [job[j] EXCEPT !.status = st].cancel = FALSE
            /\ [job[j] EXCEPT !.status = st, !.lease = "none"].cancel = FALSE
        BY <1>1, RowCancel
      <4> QED BY <3>1, <4>1, <4>2, <4>3
    <3>3. job'[j] = r => BudgetWrite(j)
      BY <1>1, <2>2, <3>2 DEF BudgetWrite
    <3> QED BY <2>2, <3>1, <3>3, OneBudgetWrite
  <2>3. CASE ExecuteStart(w)
    <3>1. PICK j \in Jobs : hand[w] = j
      BY <2>3 DEF ExecuteStart, TypeOK, HandStates
    <3>2. Owns(w, j) /\ manual' = manual
      BY <2>3, <3>1 DEF ExecuteStart, Owns
    <3>3. BudgetSessions
      BY <2>3 DEF ExecuteStart, BudgetSessions, Sweeps, Claims, TypeOK, Budgets, NeverAsked
    <3> QED BY <2>2, <2>3, <3>1, <3>2, <3>3 DEF ExecuteStart
  <2>4. CASE ExecuteCancelled(w) \/ ExecuteSucceeded(w) \/ ExecuteFailed(w)
    <3>1. PICK j \in Jobs : hand[w] = j
      BY <2>4 DEF ExecuteCancelled, ExecuteSucceeded, ExecuteFailed, TypeOK, HandStates
    <3>2. Owns(w, j) /\ manual' = manual /\ Settle(w, "idle")
      BY <2>4, <3>1 DEF ExecuteCancelled, ExecuteSucceeded, ExecuteFailed, Owns
    <3>3. BudgetSessions
      BY <3>2, SettleBudget DEF WorkerStates, HandStates
    <3>4. CASE ExecuteCancelled(w)
      BY <2>2, <3>1, <3>2, <3>3, <3>4 DEF ExecuteCancelled
    <3>5. CASE ExecuteSucceeded(w)
      BY <2>2, <3>1, <3>2, <3>3, <3>5 DEF ExecuteSucceeded
    <3>6. CASE ExecuteFailed(w)
      <4>1. PICK st : st = AfterFailure(seen[w][j].n, seen[w][j].cancel)
        OBVIOUS
      <4>2. seen[w][j].n = job[j].attempts /\ seen[w][j].cancel = FALSE
        BY <3>2, OwnerIsCurrent DEF Budgets, NeverAsked
      <4>3. st = Verdict(job[j].attempts)
        BY <4>1, <4>2 DEF Verdict
      <4>4. job' = [job EXCEPT ![j] = [job[j] EXCEPT !.status = st, !.lease = "none"]]
        BY <3>1, <3>6, <4>1 DEF ExecuteFailed
      <4> QED BY <2>2, <3>2, <3>3, <4>3, <4>4
    <3> QED BY <2>4, <3>4, <3>5, <3>6
  <2> QED BY <1>8, <2>1, <2>3, <2>4 DEF Execute
<1>9. ASSUME NEW w \in Workers, renew_lease(w) PROVE Budgets'
  <2>1. hand[w] \in Jobs /\ Owns(w, hand[w])
    BY <1>9 DEF renew_lease, TypeOK, HandStates, Owns
  <2> QED BY <1>9, <2>1 DEF renew_lease, Exclusive, OwnerHolds
<1>10. ASSUME NEW w \in Workers, Process(w) PROVE Budgets'
  <2>1. ASSUME NEW v \in Workers, Stop(v) PROVE Budgets'
    <3>1. BudgetSessions
      BY <2>1, SettleBudget DEF Stop, WorkerStates, HandStates
    <3> QED BY <2>1, <3>1, NoBudgetWrite DEF Stop, dbVars
  <2>2. CASE register_worker(w)
    <3>1. BudgetSessions
      BY <2>2 DEF register_worker, BudgetSessions, Sweeps, Claims, TypeOK, Budgets, NeverAsked
    <3> QED BY <2>2, <3>1, NoBudgetWrite DEF register_worker, dbVars
  <2> QED BY <1>10, <2>1, <2>2
          DEF Process, Crash, DuplicateAttempt, NotTheHolder, DeadlockVictim
<1>11. CASE UNCHANGED vars
  BY <1>3, <1>11 DEF vars, dbVars, sessionVars
<1> QED BY <1>4, <1>5, <1>6, <1>7, <1>8, <1>9, <1>10, <1>11 DEF Next

\* All the invariants of such a queue together.
LEMMA BudgetsAlways ==
    ASSUME Punctual, SoleManager, Cancellable = {}
    PROVE  Spec => [](/\ TypeOK /\ Ledger /\ DepInv /\ Exclusive /\ ReopenedIsFree
                      /\ Outcomes /\ Budgets)
<1>1. Init => Outcomes
  BY OutcomesInit
<1>2. Init => Ledger
  BY ConstantsAssumption DEF Init, Ledger, AttemptLedger, NoRow, NothingSeen, Unread
<1>3. Init => DepInv
  BY DEF Init, DepInv, DependenciesHonoured, NoRow
<1>4. Init => Budgets
  <2>1. Budget \in Nat
    BY VerdictType
  <2> QED BY <2>1 DEF Init, Budgets, NeverAsked, WithinBudget, SweepIsCurrent, ClaimIsDue, NoRow,
                      NothingSeen, Unread, Sweeps, Claims, RUNNABLE_STATUSES
<1>5. TypeOK /\ TypeOK' /\ Ledger /\ Ledger' /\ Outcomes /\ [Next]_vars => Outcomes'
  BY OutcomesNext
<1>6. TypeOK /\ TypeOK' /\ Ledger /\ DepInv /\ Exclusive /\ ReopenedIsFree /\ Outcomes /\ Budgets
         /\ [Next]_vars => Budgets'
  BY BudgetsNext
<1> QED BY <1>1, <1>2, <1>3, <1>4, <1>5, <1>6, TypeInit, TypeNext, LedgerNext, DepNext,
           ExclusiveAlways, PTL DEF Spec

\* A job never gets more attempts than max_attempts and one more for each
\* manual retry, however the attempts were lost, when workers are punctual,
\* retries do not overlap and nobody asks to cancel.
THEOREM BudgetIsKept ==
    ASSUME Punctual, SoleManager, Cancellable = {}
    PROVE  Spec => []RetryBudget
<1>1. Budgets => RetryBudget
  BY DEF Budgets, WithinBudget, RetryBudget, Budget
<1> QED BY <1>1, BudgetsAlways, PTL

-----------------------------------------------------------------------------
(* The refinement.                                                         *)

phases == [j \in Jobs |-> Phase(job[j].status)]
counts == [j \in Jobs |-> job[j].attempts]

\* What each status is to the life cycle.
LEMMA PhaseOf ==
    /\ Phase("absent") = "unknown"
    /\ \A s \in RUNNABLE_STATUSES : Phase(s) = "waiting"
    /\ \A s \in ActiveStatuses : Phase(s) = "executing"
    /\ Phase("succeeded") = "succeeded"
    /\ \A s \in {"failed", "cancelled", "dead_letter"} : Phase(s) = "dead"
    /\ \A s \in Statuses \ {"absent"} : Phase(s) # "unknown"
  BY DEF Phase, RUNNABLE_STATUSES, ActiveStatuses, Statuses

\* A step that moves no job from one phase to another is a stutter.
LEMMA StillSame ==
    ASSUME \A i \in Jobs : /\ Phase(job'[i].status) = Phase(job[i].status)
                           /\ job'[i].attempts = job[i].attempts,
           UNCHANGED <<manual, deps>>
    PROVE  UNCHANGED Lifecycle!vars
  BY DEF Lifecycle!vars

\* One job's row and its phase.
LEMMA OneMove ==
    ASSUME TypeOK, NEW j \in Jobs, NEW r, job' = [job EXCEPT ![j] = r],
           r.attempts = job[j].attempts
    PROVE  /\ phases' = [phases EXCEPT ![j] = Phase(r.status)]
           /\ counts' = counts
           /\ Phase(r.status) = Phase(job[j].status) =>
                 \A i \in Jobs : /\ Phase(job'[i].status) = Phase(job[i].status)
                                 /\ job'[i].attempts = job[i].attempts
<1>1. \A i \in Jobs : job'[i] = IF i = j THEN r ELSE job[i]
  BY DEF TypeOK
<1>2. /\ phases' = [i \in Jobs |-> Phase(job'[i].status)]
      /\ counts' = [i \in Jobs |-> job'[i].attempts]
  BY DEF phases, counts
<1>3. phases' = [phases EXCEPT ![j] = Phase(r.status)]
  <2>1. \A i \in Jobs : phases'[i] = IF i = j THEN Phase(r.status) ELSE phases[i]
    BY <1>1, <1>2 DEF phases
  <2>2. phases' = [i \in Jobs |-> phases'[i]] /\ phases = [i \in Jobs |-> phases[i]]
    BY <1>2 DEF phases
  <2> HIDE DEF phases
  <2> QED BY <2>1, <2>2
<1>4. counts' = counts
  BY <1>1, <1>2 DEF counts
<1> QED BY <1>1, <1>3, <1>4

\* Every step of the queue is a step of the life cycle, or none.
LEMMA LifecycleNext ==
    ASSUME Punctual, Cancellable = {}
    PROVE  TypeOK /\ TypeOK' /\ Ledger /\ DepInv /\ Exclusive /\ ReopenedIsFree /\ Outcomes
              /\ Budgets /\ [Next]_vars
               => [Lifecycle!Next]_(Lifecycle!vars)
<1> SUFFICES ASSUME TypeOK, TypeOK', Ledger, DepInv, Exclusive, ReopenedIsFree, Outcomes, Budgets,
                    [Next]_vars
             PROVE  Lifecycle!Next \/ UNCHANGED Lifecycle!vars
  OBVIOUS
<1>1. \A j \in Jobs : job[j] \in JobRow /\ job[j].attempts \in Nat /\ job[j].status \in Statuses
  BY DEF TypeOK, JobRow
<1>2. CASE UNCHANGED <<job, manual, deps>>
  BY <1>2, StillSame
<1>3. CASE Client
  <2>1. ASSUME NEW j \in Jobs, NEW D \in SUBSET Jobs, enqueue(j, D) PROVE Lifecycle!Next
    <3> DEFINE r == [job[j] EXCEPT !.status = "queued"]
    <3>1. r.attempts = job[j].attempts /\ r.status = "queued"
      BY <1>1, RowAttempts, RowStatus
    <3>2. job' = [job EXCEPT ![j] = r]
      BY <2>1 DEF enqueue
    <3> HIDE DEF r
    <3>0. Phase(r.status) = "waiting"
      BY <3>1, PhaseOf DEF RUNNABLE_STATUSES
    <3>3. phases' = [phases EXCEPT ![j] = "waiting"] /\ counts' = counts
      <4>1. phases' = [phases EXCEPT ![j] = Phase(r.status)] /\ counts' = counts
        BY <3>1, <3>2, OneMove
      <4> QED BY <3>0, <4>1
    <3>4. phases[j] = "unknown"
      BY <2>1, PhaseOf DEF enqueue, phases
    <3>5. \A d \in D : phases[d] # "unknown"
      BY <1>1, <2>1, PhaseOf DEF enqueue, phases
    <3>6. deps' = [deps EXCEPT ![j] = D] /\ manual' = manual
      BY <2>1 DEF enqueue
    <3>7. D \in SUBSET {d \in Jobs : phases[d] # "unknown"}
      BY <3>5
    <3>8. Lifecycle!Submit(j)
      BY <3>3, <3>4, <3>6, <3>7 DEF Lifecycle!Submit, Lifecycle!Move, phases, counts
    <3> QED BY <3>8 DEF Lifecycle!Next
  <2>2. ASSUME NEW j \in Jobs, RequestCancelRead(j) \/ RequestCancelCommit(j) PROVE FALSE
    BY <2>2 DEF RequestCancelRead, RequestCancelCommit, Exclusive, NoneAsked
  <2>3. ASSUME NEW m \in Managers, RetryCommit(m) PROVE Lifecycle!Next
    <3>7. PICK j \in Jobs, c \in BOOLEAN : Reopened(m, j, c)
      BY <2>3, RetryRow
    <3> DEFINE r == [job[j] EXCEPT !.status = "queued", !.cancel = c]
    <3>1. r.attempts = job[j].attempts /\ r.status = "queued"
      BY <1>1, RowAttempts, RowStatus
    <3>2. job' = [job EXCEPT ![j] = r]
      BY <3>7 DEF Reopened
    <3> HIDE DEF r
    <3>0. Phase(r.status) = "waiting"
      BY <3>1, PhaseOf DEF RUNNABLE_STATUSES
    <3>3. phases' = [phases EXCEPT ![j] = "waiting"] /\ counts' = counts
      <4>1. phases' = [phases EXCEPT ![j] = Phase(r.status)] /\ counts' = counts
        BY <3>1, <3>2, OneMove
      <4> QED BY <3>0, <4>1
    <3>4. phases[j] = "dead"
      BY <3>7, PhaseOf DEF Reopened, ReopenedIsFree, Reopens, phases
    <3>5. manual' = [manual EXCEPT ![j] = manual[j] + 1] /\ deps' = deps
      BY <3>7 DEF Reopened
    <3>6. Lifecycle!Reopen(j)
      BY <3>3, <3>4, <3>5 DEF Lifecycle!Reopen, Lifecycle!Move, phases, counts
    <3> QED BY <3>6 DEF Lifecycle!Next
  <2>4. CASE update_queue
    BY <1>2, <2>4 DEF update_queue
  <2>5. ASSUME NEW m \in Managers, NEW j \in Jobs, RetryRead(m, j) PROVE UNCHANGED Lifecycle!vars
    BY <1>2, <2>5, StillSame DEF RetryRead, dbVars
  <2> QED BY <1>2, <1>3, <2>1, <2>2, <2>3, <2>4, <2>5 DEF Client
<1>4. CASE Clock
  <2>1. CASE MinutePasses
    BY <1>2, <2>1 DEF MinutePasses
  <2>2. ASSUME NEW j \in Jobs, LeaseExpires(j) PROVE UNCHANGED Lifecycle!vars
    <3> DEFINE r == [job[j] EXCEPT !.lease = "expired"]
    <3>1. r.attempts = job[j].attempts /\ r.status = job[j].status
      BY <1>1, RowAttempts, RowStatus
    <3>2. job' = [job EXCEPT ![j] = r] /\ UNCHANGED <<manual, deps>>
      BY <2>2 DEF LeaseExpires
    <3> HIDE DEF r
    <3> QED BY <3>1, <3>2, OneMove, StillSame
  <2> QED BY <1>4, <2>1, <2>2 DEF Clock
<1>5. ASSUME NEW w \in Workers, Sweep(w) PROVE Lifecycle!Next \/ UNCHANGED Lifecycle!vars
  <2>1. CASE SweepRead(w)
    BY <1>2, <2>1 DEF SweepRead, dbVars
  <2>2. CASE SweepCommit(w)
    <3> DEFINE S == {i \in rows[w] : job[i].status \in ActiveStatuses}
    <3>1. S \in SUBSET Jobs /\ UNCHANGED <<manual, deps>>
      BY <2>2 DEF SweepCommit, TypeOK
    <3>2. \A i \in S : phases[i] = "executing"
      BY <3>1, PhaseOf DEF phases
    <3>3. ASSUME NEW i \in Jobs
          PROVE  /\ job'[i].attempts = job[i].attempts
                 /\ Phase(job'[i].status) = IF i \notin S THEN phases[i]
                                            ELSE IF counts[i] < Budget THEN "waiting" ELSE "dead"
      <4> DEFINE st == AfterFailure(seen[w][i].n, seen[w][i].cancel)
                 r == [job[i] EXCEPT !.status = st, !.holder = None, !.lease = "none"]
      <4>1. CASE i \notin rows[w]
        <5>1. job'[i] = job[i]
          BY <2>2, <4>1 DEF SweepCommit
        <5> QED BY <4>1, <5>1 DEF phases
      <4>2. CASE i \in rows[w]
        <5>1. job'[i] = r
          BY <2>2, <4>2 DEF SweepCommit
        <5>2. r.attempts = job[i].attempts /\ r.status = st
          BY <1>1, RowAttempts, RowStatus
        <5>3. Sweeps(w, i)
          BY <2>2, <4>2 DEF SweepCommit, Sweeps
        <5>4. /\ seen[w][i].n = job[i].attempts /\ seen[w][i].cancel = FALSE
              /\ i \in S \/ job[i].status = Verdict(job[i].attempts)
          BY <4>2, <5>3 DEF Budgets, SweepIsCurrent, NeverAsked
        <5>5. st = Verdict(job[i].attempts)
          BY <5>4 DEF Verdict
        <5> HIDE DEF r, st
        <5>6. job'[i].attempts = job[i].attempts /\ job'[i].status = Verdict(job[i].attempts)
          BY <5>1, <5>2, <5>5
        <5>7. CASE i \notin S
          BY <5>4, <5>6, <5>7 DEF phases
        <5>8. CASE i \in S
          <6>1. Phase(Verdict(job[i].attempts)) =
                   IF job[i].attempts < Budget THEN "waiting" ELSE "dead"
            BY <1>1, VerdictType, PhaseOf DEF RUNNABLE_STATUSES
          <6> QED BY <5>6, <5>8, <6>1 DEF counts
        <5> QED BY <5>7, <5>8
      <4> QED BY <4>1, <4>2
    <3> HIDE DEF S
    <3>4. phases' = [i \in Jobs |-> IF i \notin S THEN phases[i]
                                    ELSE IF counts[i] < Budget THEN "waiting" ELSE "dead"]
      BY <3>3 DEF phases
    <3>5. counts' = counts
      BY <3>3 DEF counts
    <3>6. Lifecycle!Fail(S)
      BY <3>1, <3>2, <3>4, <3>5 DEF Lifecycle!Fail, phases, counts, Budget
    <3> QED BY <3>1, <3>6 DEF Lifecycle!Next
  <2> QED BY <1>5, <2>1, <2>2 DEF Sweep
<1>6. ASSUME NEW w \in Workers, Claim(w) PROVE Lifecycle!Next \/ UNCHANGED Lifecycle!vars
  <2>1. CASE (\E S \in SUBSET Jobs : ClaimSelect(w, S)) \/ ClaimNothing(w) \/ heartbeat(w) \/ ClaimExhausted(w)
    BY <1>2, <2>1 DEF ClaimSelect, ClaimNothing, heartbeat, ClaimExhausted, dbVars
  <2>2. ASSUME NEW j \in Jobs, ClaimWaiting(w, j) \/ ClaimPostponed(w, j) \/ ClaimAdmitted(w, j)
        PROVE  Lifecycle!Next \/ UNCHANGED Lifecycle!vars
    BY <1>2, <2>2 DEF ClaimWaiting, ClaimPostponed, ClaimAdmitted, dbVars
  <2>3. ASSUME NEW j \in Jobs, ClaimImpossible(w, j) PROVE Lifecycle!Next \/ UNCHANGED Lifecycle!vars
    <3> DEFINE r == [job[j] EXCEPT !.status = "dead_letter"]
    <3>1. job' = [job EXCEPT ![j] = r] /\ UNCHANGED <<manual, deps>>
      BY <2>3 DEF ClaimImpossible
    <3>2. r.attempts = job[j].attempts /\ r.status = "dead_letter"
      BY <1>1, RowAttempts, RowStatus
    <3> HIDE DEF r
    <3>3. PICK d \in deps[j] : job[d].status \in {"failed", "cancelled", "dead_letter"}
      BY <2>3 DEF ClaimImpossible, _dependency_state
    <3>4. d \in Jobs /\ phases[d] = "dead"
      BY <3>3, PhaseOf DEF TypeOK, phases
    <3>5. ~Done(deps[j])
      BY <3>3 DEF Done
    <3>6. job[j].attempts = 0 /\ job[j].status \notin Held
      BY <1>1, <3>5 DEF Exclusive, LeasedAfterDeps, HeldIsCounted
    <3>7. job[j].status # "absent"
      BY <2>3 DEF ClaimImpossible, IsNext, DepInv
    <3>8. CASE job[j].status \in RUNNABLE_STATUSES
      <4>1. phases[j] = "waiting" /\ counts[j] = 0
        BY <3>6, <3>8, PhaseOf DEF phases, counts
      <4>0. Phase(r.status) = "dead"
        BY <3>2, PhaseOf
      <4>2. phases' = [phases EXCEPT ![j] = "dead"] /\ counts' = counts
        <5>1. phases' = [phases EXCEPT ![j] = Phase(r.status)] /\ counts' = counts
          BY <3>1, <3>2, OneMove
        <5> QED BY <4>0, <5>1
      <4>3. Lifecycle!GiveUp(j)
        BY <3>1, <3>3, <3>4, <4>1, <4>2 DEF Lifecycle!GiveUp, Lifecycle!Move, phases, counts
      <4> QED BY <4>3 DEF Lifecycle!Next
    <3>9. CASE job[j].status \notin RUNNABLE_STATUSES
      <4>1. job[j].status \in {"failed", "cancelled", "dead_letter"}
        BY <1>1, <3>6, <3>7, <3>9 DEF Statuses, Held, ActiveStatuses, RUNNABLE_STATUSES
      <4>2. Phase(r.status) = Phase(job[j].status)
        BY <3>2, <4>1, PhaseOf
      <4> QED BY <3>1, <3>2, <4>2, OneMove, StillSame
    <3> QED BY <3>8, <3>9
  <2>4. CASE ClaimCommit(w)
    <3>0. PICK j \in Jobs : hand[w] = j
      BY <2>4 DEF ClaimCommit, TypeOK, HandStates
    <3> DEFINE n == seen[w][j].n + 1
    <3>1. Claims(w, j) /\ pc[w] = "admitted"
      BY <2>4, <3>0 DEF ClaimCommit, Claims
    <3>2. seen[w][j].n = job[j].attempts /\ n = job[j].attempts + 1
      <4>1. seen[w][j].n <= Len(attempt[j]) /\ job[j].attempts = Len(attempt[j])
        BY DEF Ledger, AttemptLedger
      <4>2. n \notin 1 .. Len(attempt[j])
        BY <2>4, <3>0 DEF ClaimCommit, AttemptExists, TypeOK
      <4>3. seen[w][j].n \in Nat /\ job[j].attempts \in Nat
        BY DEF TypeOK, ReadRow, JobRow
      <4> QED BY <4>1, <4>2, <4>3
    <3>3. /\ job[j].status \in RUNNABLE_STATUSES \/ job[j].attempts = 0
          /\ job[j].status \notin Held /\ job[j].status # "absent" /\ Done(deps[j])
      BY <3>0, <3>1, <3>2 DEF Budgets, ClaimIsDue, Exclusive, ClaimIsFree, LeasedAfterDeps, DepInv
    <3>4. job' = [job EXCEPT ![j] = Leased(job[j], w, n)] /\ UNCHANGED <<manual, deps>>
      BY <2>4, <3>0 DEF ClaimCommit
    <3>5. Leased(job[j], w, n).status = "leased" /\ Leased(job[j], w, n).attempts = n
      BY <1>1 DEF Leased, JobRow
    <3> HIDE DEF n
    <3>6. \A i \in Jobs : job'[i] = IF i = j THEN Leased(job[j], w, n) ELSE job[i]
      BY <3>4 DEF TypeOK
    <3>7. phases' = [phases EXCEPT ![j] = "executing"]
      <4>1. Phase("leased") = "executing"
        BY PhaseOf DEF ActiveStatuses
      <4>2. phases' = [i \in Jobs |-> Phase(job'[i].status)]
        BY DEF phases
      <4> QED BY <3>5, <3>6, <4>1, <4>2 DEF phases
    <3>8. counts' = [counts EXCEPT ![j] = counts[j] + 1]
      <4>1. counts' = [i \in Jobs |-> job'[i].attempts]
        BY DEF counts
      <4>2. \A i \in Jobs : counts'[i] = IF i = j THEN counts[j] + 1 ELSE counts[i]
        BY <3>2, <3>5, <3>6, <4>1 DEF counts
      <4> QED BY <4>1, <4>2 DEF counts
    <3>9. \A d \in deps[j] : phases[d] = "succeeded"
      BY <3>3, PhaseOf DEF Done, phases, TypeOK
    <3>10. CASE job[j].status \in RUNNABLE_STATUSES
      <4>1. phases[j] = "waiting"
        BY <3>10, PhaseOf DEF phases
      <4>2. counts[j] < Budget + manual[j]
        BY <3>10 DEF Budgets, WithinBudget, counts
      <4>3. Lifecycle!Begin(j)
        BY <3>4, <3>7, <3>8, <3>9, <4>1, <4>2
           DEF Lifecycle!Begin, Lifecycle!Move, phases, counts, Budget
      <4> QED BY <4>3 DEF Lifecycle!Next
    <3>11. CASE job[j].status \notin RUNNABLE_STATUSES
      <4>1. job[j].status \in {"failed", "cancelled", "dead_letter"}
        BY <1>1, <3>3, <3>11 DEF Statuses, Held, ActiveStatuses, RUNNABLE_STATUSES
      <4>2. phases[j] = "dead" /\ counts[j] = 0
        BY <3>3, <3>11, <4>1, PhaseOf DEF phases, counts
      <4>3. counts' = [counts EXCEPT ![j] = 1]
        BY <3>8, <4>2
      <4>4. Lifecycle!Revive(j)
        BY <3>4, <3>7, <3>9, <4>2, <4>3 DEF Lifecycle!Revive, Lifecycle!Move, phases, counts
      <4> QED BY <4>4 DEF Lifecycle!Next
    <3> QED BY <3>10, <3>11
  <2> QED BY <1>6, <2>1, <2>2, <2>3, <2>4 DEF Claim
<1>7. ASSUME NEW w \in Workers, Execute(w) PROVE Lifecycle!Next \/ UNCHANGED Lifecycle!vars
  <2>1. CASE ClaimRefresh(w)
    BY <1>2, <2>1 DEF ClaimRefresh, dbVars
  <2>2. CASE ExecuteCancelled(w)
    <3>1. hand[w] \in Jobs
      BY <2>2 DEF ExecuteCancelled, TypeOK, HandStates
    <3> QED BY <2>2, <3>1 DEF ExecuteCancelled, Budgets, NeverAsked
  <2>3. CASE ExecuteStart(w) \/ ExecuteSucceeded(w) \/ ExecuteFailed(w)
    <3>1. PICK j \in Jobs : hand[w] = j
      BY <2>3 DEF ExecuteStart, ExecuteSucceeded, ExecuteFailed, TypeOK, HandStates
    <3>2. Owns(w, j) /\ UNCHANGED <<manual, deps>>
      BY <2>3, <3>1 DEF ExecuteStart, ExecuteSucceeded, ExecuteFailed, Owns
    <3>3. job[j].status \in ActiveStatuses /\ phases[j] = "executing"
      BY <3>2, PhaseOf DEF Exclusive, OwnerHolds, phases
    <3>4. CASE ExecuteStart(w)
      <4> DEFINE r == [job[j] EXCEPT !.status = "running"]
      <4>1. job' = [job EXCEPT ![j] = r]
        BY <3>1, <3>4 DEF ExecuteStart
      <4>2. r.attempts = job[j].attempts /\ r.status = "running"
        BY <1>1, RowAttempts, RowStatus
      <4> HIDE DEF r
      <4>3. Phase(r.status) = Phase(job[j].status)
        BY <3>3, <4>2, PhaseOf DEF ActiveStatuses
      <4> QED BY <3>2, <4>1, <4>2, <4>3, OneMove, StillSame
    <3>5. CASE ExecuteSucceeded(w)
      <4> DEFINE r == [job[j] EXCEPT !.status = "succeeded", !.lease = "none"]
      <4>1. job' = [job EXCEPT ![j] = r]
        BY <3>1, <3>5 DEF ExecuteSucceeded
      <4>2. r.attempts = job[j].attempts /\ r.status = "succeeded"
        BY <1>1, RowAttempts, RowStatus
      <4> HIDE DEF r
      <4>0. Phase(r.status) = "succeeded"
        BY <4>2, PhaseOf
      <4>3. phases' = [phases EXCEPT ![j] = "succeeded"] /\ counts' = counts
        <5>1. phases' = [phases EXCEPT ![j] = Phase(r.status)] /\ counts' = counts
          BY <4>1, <4>2, OneMove
        <5> QED BY <4>0, <5>1
      <4>4. Lifecycle!Finish(j)
        BY <3>2, <3>3, <4>3 DEF Lifecycle!Finish, Lifecycle!Move, phases, counts
      <4> QED BY <4>4 DEF Lifecycle!Next
    <3>6. CASE ExecuteFailed(w)
      <4>1. PICK st : st = AfterFailure(seen[w][j].n, seen[w][j].cancel)
        OBVIOUS
      <4> DEFINE r == [job[j] EXCEPT !.status = st, !.lease = "none"]
      <4>2. job' = [job EXCEPT ![j] = r]
        BY <3>1, <3>6, <4>1 DEF ExecuteFailed
      <4>3. r.attempts = job[j].attempts /\ r.status = st
        BY <1>1, RowAttempts, RowStatus
      <4> HIDE DEF r
      <4>4. seen[w][j].n = job[j].attempts /\ seen[w][j].cancel = FALSE
        BY <3>2, OwnerIsCurrent DEF Budgets, NeverAsked
      <4>5. st = Verdict(job[j].attempts)
        BY <4>1, <4>4 DEF Verdict
      <4>6. Phase(st) = IF counts[j] < Budget THEN "waiting" ELSE "dead"
        BY <1>1, <4>5, VerdictType, PhaseOf DEF RUNNABLE_STATUSES, counts
      <4>7. phases' = [phases EXCEPT ![j] = Phase(st)] /\ counts' = counts
        BY <4>2, <4>3, OneMove
      <4>8. phases' = [i \in Jobs |-> IF i \notin {j} THEN phases[i]
                                      ELSE IF counts[i] < Budget THEN "waiting" ELSE "dead"]
        BY <4>6, <4>7 DEF phases
      <4>9. Lifecycle!Fail({j})
        BY <3>2, <3>3, <4>7, <4>8 DEF Lifecycle!Fail, phases, counts, Budget
      <4> QED BY <4>9 DEF Lifecycle!Next
    <3> QED BY <2>3, <3>4, <3>5, <3>6
  <2> QED BY <1>7, <2>1, <2>2, <2>3 DEF Execute
<1>8. ASSUME NEW w \in Workers, renew_lease(w) PROVE FALSE
  <2>1. hand[w] \in Jobs /\ Owns(w, hand[w])
    BY <1>8 DEF renew_lease, TypeOK, HandStates, Owns
  <2> QED BY <1>8, <2>1 DEF renew_lease, Exclusive, OwnerHolds
<1>9. ASSUME NEW w \in Workers, Process(w) PROVE Lifecycle!Next \/ UNCHANGED Lifecycle!vars
  BY <1>2, <1>9 DEF Process, Crash, DuplicateAttempt, NotTheHolder, DeadlockVictim, Stop,
                    register_worker, dbVars
<1>10. CASE UNCHANGED vars
  BY <1>2, <1>10 DEF vars, dbVars
<1> QED BY <1>3, <1>4, <1>5, <1>6, <1>7, <1>8, <1>9, <1>10 DEF Next

\* The queue implements the life cycle: for any number of jobs, of workers
\* that may be killed at any point and of attempts, every step is one that
\* the life cycle allows, or does not show in it, when workers are punctual,
\* retries do not overlap and nobody asks to cancel.
THEOREM QueueImplementsLifecycle ==
    ASSUME Punctual, SoleManager, Cancellable = {}
    PROVE  Spec => ImplementsLifecycle
<1>1. Init => Lifecycle!Init
  <2> SUFFICES ASSUME Init PROVE Lifecycle!Init
    OBVIOUS
  <2>1. phases = [j \in Jobs |-> "unknown"] /\ counts = [j \in Jobs |-> 0]
    BY PhaseOf DEF Init, NoRow, phases, counts
  <2> QED BY <2>1 DEF Init, Lifecycle!Init, phases, counts
<1>2. TypeOK /\ TypeOK' /\ Ledger /\ DepInv /\ Exclusive /\ ReopenedIsFree /\ Outcomes /\ Budgets
         /\ [Next]_vars => [Lifecycle!Next]_(Lifecycle!vars)
  BY LifecycleNext
<1>3. Spec => Lifecycle!Spec
  BY <1>1, <1>2, BudgetsAlways, PTL DEF Spec, Lifecycle!Spec
<1> QED BY <1>3 DEF ImplementsLifecycle

=============================================================================
