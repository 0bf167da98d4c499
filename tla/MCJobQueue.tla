----------------------------- MODULE MCJobQueue -----------------------------
(***************************************************************************)
(* Model-checking instances of JobQueue.                                   *)
(***************************************************************************)
EXTENDS JobQueue, Functions, TLC

CONSTANTS j1, j2, j3, j4, w1, w2, m1, m2

OneAtATime == {[enabled |-> TRUE, max_concurrency |-> 1]}

\* The administrator pauses the queue and widens or narrows it.
Adjustable == {[enabled |-> TRUE, max_concurrency |-> 1],
               [enabled |-> TRUE, max_concurrency |-> 2],
               [enabled |-> FALSE, max_concurrency |-> 2]}

\* Every job has the same priority.
Alike == [j \in Jobs |-> 0]

\* j1 before the others.
FirstFirst == [j \in Jobs |-> IF j = j1 THEN 1 ELSE 0]

\* Bound: more than two jobs only if nothing was leased before they were there, no worker
\* is killed and nothing is reopened, with one dependency and three attempts in all.
Present == {j \in Jobs : job[j].status # "absent"}
SumOver(f) == FoldFunction(LAMBDA a, b : a + b, 0, f)
Attempts == SumOver([j \in Jobs |-> job[j].attempts])
Extent ==
    Cardinality(Present) > 2 =>
        /\ SumOver([j \in Jobs |-> Cardinality(deps[j])]) = 1
        /\ IF Present = Jobs THEN Attempts <= 3 ELSE Attempts = 0
        /\ \A j \in Jobs : manual[j] = 0 /\ Reopeners(j) = {}
        /\ \A w \in Workers : pc[w] # "down"

Symmetry == Permutations(Jobs) \cup Permutations(Workers)
SymmetryButJ1 == Permutations({j2, j3}) \cup Permutations(Workers)
=============================================================================
