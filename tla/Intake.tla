------------------------------- MODULE Intake -------------------------------
(***************************************************************************)
(* The intake of clients: services/crm/service.py.  A lead is converted    *)
(* into a client, or a client is created; conflict checks are run for      *)
(* either and reviewed, identity records are verified, and a client whose  *)
(* four gates are met is ready.  Its matters are opened once its conflict  *)
(* check is cleared.  The requests of one office about one client are      *)
(* modelled one at a time: each handler is one transaction.                *)
(*                                                                         *)
(* "open" stands for every status of a lead but CONVERTED, "pending" for   *)
(* REVIEW_REQUIRED too, "cleared" for OVERRIDDEN too, "rejected" for every *)
(* status of a record but VERIFIED: the code treats them alike.            *)
(***************************************************************************)
EXTENDS Sessions, Naturals

CONSTANTS
    Leads,
    ClientIds,
    KYCRecords,
    MaxChecks     \* bound on the conflict checks, numbered by created_at

ASSUME IntakeAssumption ==
    /\ MaxChecks \in Nat
    /\ None \notin Leads \cup ClientIds \cup KYCRecords

VARIABLES
    lead,       \* crm_leads
    check,      \* conflict_checks: lead, client and status
    kyc,        \* client_kyc_records: client and status
    onboarding, \* client_onboarding of each client
    opened      \* the clients that a matter was opened for

intakeVars == <<lead, check, kyc, onboarding, opened>>

LeadStatuses == {"open", "converted"}
CheckStatuses == {"pending", "cleared", "conflict_found"}
KYCStatuses == {"rejected", "verified"}
OnboardingStatuses == {"absent", "not_started", "in_progress", "ready", "complete"}

-----------------------------------------------------------------------------
CheckNumbers == 1..MaxChecks
NoCheck == [lead |-> None, client |-> None, status |-> "absent"]
NoRecord == [client |-> None, status |-> "rejected"]
NewOnboarding(status, n, cleared) ==
    [status |-> status, conflict_check |-> n, conflict_cleared |-> cleared,
     identity_complete |-> FALSE, address_complete |-> FALSE, engagement_complete |-> FALSE]

IntakeInit ==
    /\ lead = [l \in Leads |-> "open"]
    /\ check = [n \in CheckNumbers |-> NoCheck]
    /\ kyc = [k \in KYCRecords |-> NoRecord]
    /\ onboarding = [c \in ClientIds |-> NewOnboarding("absent", 0, FALSE)]
    /\ opened = {}

Client(c) == onboarding[c].status # "absent"

onboarding_readiness(row) ==
    /\ row.conflict_cleared /\ row.identity_complete
    /\ row.address_complete /\ row.engagement_complete
refresh_onboarding_status(row) ==
    [row EXCEPT !.status = IF onboarding_readiness(row) THEN "ready" ELSE "in_progress"]

create_client(c) ==
    /\ ~Client(c)
    /\ onboarding' = [onboarding EXCEPT ![c] = NewOnboarding("not_started", 0, FALSE)]
    /\ UNCHANGED <<lead, check, kyc, opened>>

\* Any status may be set, also that of a lead that was converted.
update_lead(l, status) ==
    /\ lead' = [lead EXCEPT ![l] = status]
    /\ UNCHANGED <<check, kyc, onboarding, opened>>

ChecksOf(l) == {k \in CheckNumbers : check[k].lead = l}
LatestCheck(l, n) == n \in ChecksOf(l) \cup {0} /\ \A k \in ChecksOf(l) : k <= n

\* The client takes over the latest check of the lead, which is linked to it unless
\* it names a client already.
convert_lead(l, c, n) ==
    LET cleared == n # 0 /\ check[n].status = "cleared" IN
    /\ lead[l] # "converted"
    /\ ~Client(c)
    /\ LatestCheck(l, n)
    /\ onboarding' = [onboarding EXCEPT ![c] = NewOnboarding("in_progress", n, cleared)]
    /\ check' = [k \in CheckNumbers |->
           IF k = n /\ check[k].client = None THEN [check[k] EXCEPT !.client = c] ELSE check[k]]
    /\ lead' = [lead EXCEPT ![l] = "converted"]
    /\ UNCHANGED <<kyc, opened>>

run_conflict_check(n, l, c) ==
    /\ check[n] = NoCheck /\ \A k \in 1..(n - 1) : check[k] # NoCheck
    /\ c # None => Client(c)
    /\ check' = [check EXCEPT ![n] = [lead |-> l, client |-> c, status |-> "pending"]]
    /\ UNCHANGED <<lead, kyc, onboarding, opened>>

OnlyClearing(n, decision) ==                                 \* mutant: a conflict does not take the gate back
    IF check[n].client = None \/ decision # "cleared" THEN onboarding
    ELSE [onboarding EXCEPT ![check[n].client] = refresh_onboarding_status(
             [@ EXCEPT !.conflict_check = n, !.conflict_cleared = TRUE])]
GateOf(n, decision) ==
    IF check[n].client = None THEN onboarding
    ELSE [onboarding EXCEPT ![check[n].client] = refresh_onboarding_status(
             [@ EXCEPT !.conflict_check = n, !.conflict_cleared = decision = "cleared"])]

review_conflict_check(n, decision) ==
    /\ check[n] # NoCheck
    /\ check' = [check EXCEPT ![n].status = decision]
    /\ onboarding' = GateOf(n, decision)
    /\ UNCHANGED <<lead, kyc, opened>>

create_kyc(k, c) ==
    /\ kyc[k] = NoRecord
    /\ Client(c)
    /\ kyc' = [kyc EXCEPT ![k].client = c]
    /\ UNCHANGED <<lead, check, onboarding, opened>>

VerifiedRecords(c) == {k \in KYCRecords : kyc[k] = [client |-> c, status |-> "verified"]}

\* The records are counted by a query that the new status is not flushed for: the
\* count is that of before.
verify_kyc(k, status) ==
    LET c == kyc[k].client IN
    /\ c # None
    /\ kyc' = [kyc EXCEPT ![k].status = status]
    /\ onboarding' = [onboarding EXCEPT ![c] = refresh_onboarding_status(
           [@ EXCEPT !.identity_complete = VerifiedRecords(c) # {}])]
    /\ UNCHANGED <<lead, check, opened>>

\* An engagement that is created as active.
create_engagement(c) ==
    /\ Client(c)
    /\ onboarding' = [onboarding EXCEPT ![c] = refresh_onboarding_status(
           [@ EXCEPT !.engagement_complete = TRUE])]
    /\ UNCHANGED <<lead, check, kyc, opened>>

update_onboarding(c, address, engagement, mark_complete) ==
    LET row == refresh_onboarding_status([onboarding[c] EXCEPT
                   !.address_complete = address, !.engagement_complete = engagement])
    IN  /\ Client(c)
        /\ mark_complete => row.status = "ready"
        /\ onboarding' = [onboarding EXCEPT ![c] =
               IF mark_complete THEN [row EXCEPT !.status = "complete"] ELSE row]
        /\ UNCHANGED <<lead, check, kyc, opened>>

open_matter(c) ==
    /\ Client(c)
    /\ onboarding[c].conflict_cleared
    /\ opened' = opened \cup {c}
    /\ UNCHANGED <<lead, check, kyc, onboarding>>

IntakeNext ==
    \/ \E l \in Leads, status \in LeadStatuses : update_lead(l, status)
    \/ \E l \in Leads, c \in ClientIds, n \in 0..MaxChecks : convert_lead(l, c, n)
    \/ \E n \in CheckNumbers, l \in Leads \cup {None}, c \in ClientIds \cup {None} :
          run_conflict_check(n, l, c)
    \/ \E n \in CheckNumbers, decision \in {"cleared", "conflict_found"} :
          review_conflict_check(n, decision)
    \/ \E k \in KYCRecords, c \in ClientIds : create_kyc(k, c)
    \/ \E k \in KYCRecords, status \in KYCStatuses : verify_kyc(k, status)
    \/ \E c \in ClientIds :
          \/ create_client(c) \/ create_engagement(c) \/ open_matter(c)
          \/ \E address, engagement, mark \in BOOLEAN : update_onboarding(c, address, engagement, mark)

IntakeSpec == IntakeInit /\ [][IntakeNext]_intakeVars

-----------------------------------------------------------------------------
IntakeTypeOK ==
    /\ lead \in [Leads -> LeadStatuses]
    /\ check \in [CheckNumbers -> [lead : Leads \cup {None}, client : ClientIds \cup {None},
                                   status : CheckStatuses \cup {"absent"}]]
    /\ kyc \in [KYCRecords -> [client : ClientIds \cup {None}, status : KYCStatuses]]
    /\ onboarding \in [ClientIds ->
           [status : OnboardingStatuses, conflict_check : 0..MaxChecks, conflict_cleared : BOOLEAN,
            identity_complete : BOOLEAN, address_complete : BOOLEAN, engagement_complete : BOOLEAN]]
    /\ opened \subseteq ClientIds

\* The check that a client's conflict gate rests on, unless it names another client.
OwnCheck(c) ==
    LET n == onboarding[c].conflict_check IN n # 0 /\ check[n].client \in {c, None}

\* The conflict gate of a client, which lets its matters be opened, says what the
\* last review of its check decided, whether the check was run for the lead or for
\* the client, reviewed before or after the conversion, or reviewed again; and a
\* gate that is taken back takes "ready" and "complete" back with it
\* (convert_lead, review_conflict_check, refresh_onboarding_status).
GatesAgree ==
    \A c \in ClientIds :
        LET row == onboarding[c] IN
        /\ OwnCheck(c) => (row.conflict_cleared <=> check[row.conflict_check].status = "cleared")
        /\ row.conflict_check = 0 => ~row.conflict_cleared
        /\ row.status \in {"ready", "complete"} => onboarding_readiness(row)

\* "READY means all machine-checkable gates complete" (service.py:256): the identity
\* of a client that is ready has been verified.
ReadyIsVerified ==
    \A c \in ClientIds : onboarding[c].status = "ready" => VerifiedRecords(c) # {}
=============================================================================
