----------------------------- MODULE LegalHolds -----------------------------
(***************************************************************************)
(* Legal holds and deletion requests: services/security/service.py.  A     *)
(* hold is placed on a matter and released.  A deletion is requested for a *)
(* resource and decided, by a manager, as often as the request is not      *)
(* cancelled: nothing in the code executes an approved deletion, so        *)
(* "executed" never occurs.  Both look up an active hold of the matter     *)
(* that the resource belongs to.                                           *)
(***************************************************************************)
EXTENDS Sessions

CONSTANTS
    Matters,
    HoldIds,    \* legal_holds
    Deletions,  \* deletion_requests
    Desks,      \* requests that are open at the same time
    resource_matter \* the matter of a deletion's resource: the resource itself or a
                    \* document's; None for drafts, contracts and AI runs

ASSUME LegalHoldsAssumption ==
    /\ resource_matter \in [Deletions -> Matters \cup {None}]
    /\ None \notin Matters \cup HoldIds \cup Deletions

HoldStatuses == {"absent", "active", "released"}
DeletionStatuses == {"absent", "requested", "blocked", "approved", "cancelled"}

VARIABLES
    hold,     \* legal_holds: matter and status
    deletion, \* deletion_requests: status and hold_id
    request   \* open request_deletion and decide_deletion requests

holdsVars == <<hold, deletion, request>>

-----------------------------------------------------------------------------
NoHold == [matter |-> None, status |-> "absent"]
NoDeletion == [status |-> "absent", hold_id |-> None]
Closed == [on |-> None, loaded |-> NoDeletion, set |-> NoDeletion]

LegalHoldsInit ==
    /\ hold = [h \in HoldIds |-> NoHold]
    /\ deletion = [d \in Deletions |-> NoDeletion]
    /\ request = [r \in Desks |-> Closed]

BetweenRequests == overlap \/ \A r \in Desks : request[r] = Closed

create_legal_hold(h, m) ==
    /\ BetweenRequests
    /\ hold[h] = NoHold
    /\ hold' = [hold EXCEPT ![h] = [matter |-> m, status |-> "active"]]
    /\ UNCHANGED <<deletion, request, overlap>>

\* A hold that is released already is released again.
release_legal_hold(h) ==
    /\ BetweenRequests
    /\ hold[h] # NoHold
    /\ hold' = [hold EXCEPT ![h].status = "released"]
    /\ UNCHANGED <<deletion, request, overlap>>

AnyMatter(d) == {h \in HoldIds : hold[h].status = "active"}   \* mutant: a hold on any matter
ActiveHolds(d) ==
    {h \in HoldIds : hold[h].matter = resource_matter[d] /\ hold[h].status = "active"}

\* One of them, or none if there is none or the resource has no matter.
_active_hold_for_resource(d, h) ==
    IF resource_matter[d] = None \/ ActiveHolds(d) = {} THEN h = None ELSE h \in ActiveHolds(d)

RequestRead(r, d, h) ==
    /\ MayOpen(request, Closed, r)
    /\ deletion[d] = NoDeletion
    /\ \A q \in Desks : request[q].on # d
    /\ _active_hold_for_resource(d, h)
    /\ request' = [request EXCEPT ![r] = [on |-> d, loaded |-> NoDeletion,
           set |-> [status |-> IF h = None THEN "requested" ELSE "blocked", hold_id |-> h]]]
    /\ UNCHANGED <<hold, deletion, overlap>>

\* hold_id is set by a block and is not cleared by what follows it.
Decided(d, h, approve) ==
    CASE approve /\ h # None -> [status |-> "blocked", hold_id |-> h]
      [] approve /\ h = None -> [deletion[d] EXCEPT !.status = "approved"]
      [] OTHER -> [deletion[d] EXCEPT !.status = "cancelled"]

AnyStatus(d) == deletion[d] # NoDeletion                     \* mutant: a final request is decided again
Decidable(d) == deletion[d].status \notin {"absent", "cancelled"}

DecisionRead(r, d, h, approve) ==
    /\ MayOpen(request, Closed, r)
    /\ Decidable(d)
    /\ _active_hold_for_resource(d, h)
    /\ request' = [request EXCEPT ![r] =
           [on |-> d, loaded |-> deletion[d], set |-> Decided(d, h, approve)]]
    /\ UNCHANGED <<hold, deletion, overlap>>

DeskCommit(r) ==
    LET c == request[r] IN
    /\ c # Closed
    /\ deletion' = [deletion EXCEPT
           ![c.on].status = Written(c.set.status, c.loaded.status, @),
           ![c.on].hold_id = Written(c.set.hold_id, c.loaded.hold_id, @)]
    /\ request' = [request EXCEPT ![r] = Closed]
    /\ UNCHANGED <<hold, overlap>>

LegalHoldsNext ==
    \/ \E h \in HoldIds, m \in Matters : create_legal_hold(h, m)
    \/ \E h \in HoldIds : release_legal_hold(h)
    \/ \E r \in Desks, d \in Deletions, h \in HoldIds \cup {None} :
          \/ RequestRead(r, d, h)
          \/ \E approve \in BOOLEAN : DecisionRead(r, d, h, approve)
    \/ \E r \in Desks : DeskCommit(r)

LegalHoldsSpec == SessionsInit /\ LegalHoldsInit /\ [][LegalHoldsNext]_<<holdsVars, overlap>>

-----------------------------------------------------------------------------
DeletionRows == [status : DeletionStatuses, hold_id : HoldIds \cup {None}]
LegalHoldsTypeOK ==
    /\ hold \in [HoldIds -> [matter : Matters \cup {None}, status : HoldStatuses]]
    /\ deletion \in [Deletions -> DeletionRows]
    /\ request \in [Desks -> [on : Deletions \cup {None}, loaded : DeletionRows, set : DeletionRows]]

Becomes(d, status) == deletion[d].status # status /\ deletion'[d].status = status

\* One request at a time, no deletion is approved while a hold on the matter of its
\* resource is active, and none that was cancelled changes again (decide_deletion).
HeldOrFinalStays ==
    [][~overlap => \A d \in Deletions :
          /\ Becomes(d, "approved") => ActiveHolds(d) = {} \/ resource_matter[d] = None
          /\ deletion[d].status = "cancelled" => deletion'[d] = deletion[d]]_<<holdsVars, overlap>>

\* A blocked request names a hold on the matter of its own resource, however the
\* holds and the decisions overlap (request_deletion, decide_deletion).
BlockNamesItsHold ==
    \A d \in Deletions :
        deletion[d].status = "blocked" =>
            /\ deletion[d].hold_id # None
            /\ hold[deletion[d].hold_id].matter = resource_matter[d]
=============================================================================
