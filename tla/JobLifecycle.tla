----------------------------- MODULE JobLifecycle -----------------------------
(***************************************************************************)
(* What the background queue promises of a job, without workers, leases or *)
(* sessions: README.md 155-161.  A job begins only when every prerequisite *)
(* has succeeded; an attempt that does not succeed is tried again until    *)
(* the retry budget is used; success is final; a job that cannot succeed   *)
(* is dead, and a manager reopens it, for one more attempt.                *)
(***************************************************************************)
EXTENDS Naturals

CONSTANTS Jobs, Budget

VARIABLES phase, tries, reopened, prerequisites

vars == <<phase, tries, reopened, prerequisites>>

Init ==
    /\ phase = [j \in Jobs |-> "unknown"]
    /\ tries = [j \in Jobs |-> 0]
    /\ reopened = [j \in Jobs |-> 0]
    /\ prerequisites = [j \in Jobs |-> {}]

Move(j, p) == phase' = [phase EXCEPT ![j] = p]

Submit(j) ==
    /\ phase[j] = "unknown"
    /\ Move(j, "waiting")
    /\ \E D \in SUBSET {d \in Jobs : phase[d] # "unknown"} :
          prerequisites' = [prerequisites EXCEPT ![j] = D]
    /\ UNCHANGED <<tries, reopened>>

Begin(j) ==
    /\ phase[j] = "waiting"
    /\ \A d \in prerequisites[j] : phase[d] = "succeeded"
    /\ tries[j] < Budget + reopened[j]
    /\ Move(j, "executing")
    /\ tries' = [tries EXCEPT ![j] = @ + 1]
    /\ UNCHANGED <<reopened, prerequisites>>

\* A job given up for its prerequisites may yet begin when they are repaired:
\* a worker that read it before it was given up leases it as if it waited.
Revive(j) ==
    /\ phase[j] = "dead"
    /\ tries[j] = 0
    /\ \A d \in prerequisites[j] : phase[d] = "succeeded"
    /\ Move(j, "executing")
    /\ tries' = [tries EXCEPT ![j] = 1]
    /\ UNCHANGED <<reopened, prerequisites>>

Finish(j) ==
    /\ phase[j] = "executing"
    /\ Move(j, "succeeded")
    /\ UNCHANGED <<tries, reopened, prerequisites>>

\* Several attempts may be given up in one step.
Fail(S) ==
    /\ \A j \in S : phase[j] = "executing"
    /\ phase' = [j \in Jobs |-> IF j \notin S THEN phase[j]
                               ELSE IF tries[j] < Budget THEN "waiting" ELSE "dead"]
    /\ UNCHANGED <<tries, reopened, prerequisites>>

GiveUp(j) ==
    /\ phase[j] = "waiting"
    /\ tries[j] = 0
    /\ \E d \in prerequisites[j] : phase[d] = "dead"
    /\ Move(j, "dead")
    /\ UNCHANGED <<tries, reopened, prerequisites>>

Reopen(j) ==
    /\ phase[j] = "dead"
    /\ Move(j, "waiting")
    /\ reopened' = [reopened EXCEPT ![j] = @ + 1]
    /\ UNCHANGED <<tries, prerequisites>>

Next == \/ \E j \in Jobs : \/ Submit(j) \/ Begin(j) \/ Revive(j)
                           \/ Finish(j) \/ GiveUp(j) \/ Reopen(j)
        \/ \E S \in SUBSET Jobs : Fail(S)

Spec == Init /\ [][Next]_vars
=============================================================================
