------------------------------ MODULE SignIns ------------------------------
(***************************************************************************)
(* The sessions of one member: services/security/service.py.  A login      *)
(* revokes the least recently seen sessions of the member, so that with    *)
(* the new one there are at most max_concurrent_sessions; a request that   *)
(* is authenticated with a session moves it to the end of that order.      *)
(***************************************************************************)
EXTENDS Sessions, Naturals, Sequences, FiniteSets, Functions

CONSTANTS
    Logins,                  \* login requests open at the same time
    SessionIds,              \* user_sessions; that of a revoked one is used again
    max_concurrent_sessions  \* of the organization's policy

ASSUME SignInsAssumption == max_concurrent_sessions \in Nat \ {0}

VARIABLES
    signedIn, \* the sessions that are not revoked, least recently seen first
    signIn,   \* open login requests
    active    \* whether the membership is active

signInsVars == <<signedIn, signIn, active>>

-----------------------------------------------------------------------------
NoSignIn == [session |-> None, revokes |-> {}]

SignInsInit ==
    /\ signedIn = <<>>
    /\ signIn = [l \in Logins |-> NoSignIn]
    /\ active = TRUE

\* The sessions that stay, in the order that they had.
Staying(revoked) == {k \in 1..Len(signedIn) : signedIn[k] \notin revoked}
Nth(places, i) == CHOOSE k \in places : Cardinality({j \in places : j <= k}) = i
Without(revoked) ==
    [i \in 1..Cardinality(Staying(revoked)) |-> signedIn[Nth(Staying(revoked), i)]]

LimitOnly ==                                                 \* mutant: the new session is not counted
    {signedIn[k] : k \in 1 .. Len(signedIn) - max_concurrent_sessions}
Overflow == {signedIn[k] : k \in 1 .. Len(signedIn) - max_concurrent_sessions + 1}

\* A login with the right password and code: its session is flushed, and the
\* member's other sessions are read.
LoginRead(l, s) ==
    /\ MayOpen(signIn, NoSignIn, l)
    /\ active
    /\ s \notin Range(signedIn)
    /\ \A k \in Logins : signIn[k].session # s
    /\ signIn' = [signIn EXCEPT ![l] = [session |-> s, revokes |-> Overflow]]
    /\ UNCHANGED <<signedIn, active, overlap>>

LoginCommit(l) ==
    /\ signIn[l] # NoSignIn
    /\ signedIn' = Append(Without(signIn[l].revokes), signIn[l].session)
    /\ signIn' = [signIn EXCEPT ![l] = NoSignIn]
    /\ UNCHANGED <<active, overlap>>

authenticate_session(s) ==
    /\ s \in Range(signedIn)
    /\ active
    /\ signedIn' = Append(Without({s}), s)
    /\ UNCHANGED <<signIn, active, overlap>>

revoke_session(s) ==
    /\ s \in Range(signedIn)
    /\ signedIn' = Without({s})
    /\ UNCHANGED <<signIn, active, overlap>>

\* update_membership suspends or reinstates the member; its sessions stay.
StatusChanges ==
    /\ active' = ~active
    /\ UNCHANGED <<signedIn, signIn, overlap>>

SignInsNext ==
    \/ \E l \in Logins, s \in SessionIds : LoginRead(l, s)
    \/ \E l \in Logins : LoginCommit(l)
    \/ \E s \in SessionIds : authenticate_session(s) \/ revoke_session(s)
    \/ StatusChanges

SignInsSpec == SessionsInit /\ SignInsInit /\ [][SignInsNext]_<<signInsVars, overlap>>

-----------------------------------------------------------------------------
SignInsTypeOK ==
    /\ \A k \in 1..Len(signedIn) : signedIn[k] \in SessionIds
    /\ \A l \in Logins : signIn[l].session \in SessionIds \cup {None}
    /\ active \in BOOLEAN

\* A member never keeps more sessions than the policy allows, but for those that
\* overlapping logins did not see of each other: that excess does not add up over
\* many logins, because the next one revokes it (login).
SessionLimit ==
    Len(signedIn) <= max_concurrent_sessions + (IF overlap THEN Cardinality(Logins) - 1 ELSE 0)
=============================================================================
