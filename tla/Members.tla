------------------------------ MODULE Members ------------------------------
(***************************************************************************)
(* The members of an organization: services/security/service.py.  An owner *)
(* or an administrator creates members and changes their role and status.  *)
(***************************************************************************)
EXTENDS Sessions, Naturals, FiniteSets

CONSTANTS
    Memberships,  \* organization_memberships
    Founder,      \* the one that bootstrap creates
    Updates       \* update_membership requests open at the same time

ASSUME MembersAssumption == Founder \in Memberships

Roles == {"owner", "admin", "lawyer"}
MembershipStatuses == {"active", "invited", "suspended"}
SECURITY_MANAGER_ROLES == {"owner", "admin"}

VARIABLES
    member,  \* the role and the status of each member
    update   \* open update_membership requests

membersVars == <<member, update>>

-----------------------------------------------------------------------------
NoMember == [role |-> "lawyer", status |-> "absent"]
NoUpdate == [on |-> None, loaded |-> NoMember, role |-> None, status |-> None]

MembersInit ==
    /\ member = [m \in Memberships |->
                    IF m = Founder THEN [role |-> "owner", status |-> "active"] ELSE NoMember]
    /\ update = [r \in Updates |-> NoUpdate]

Owner(m) == member[m].role = "owner"
ActiveOwners == {m \in Memberships : Owner(m) /\ member[m].status = "active"}
Manager(m) == member[m].status = "active" /\ member[m].role \in SECURITY_MANAGER_ROLES

create_user(a, m, role) ==
    /\ Manager(a)
    /\ member[m].status = "absent"
    /\ member' = [member EXCEPT ![m] = [role |-> role, status |-> "active"]]
    /\ UNCHANGED <<update, overlap>>

AsSent(value, now) == value                                  \* mutant: an absent field is written
Requested(value, now) == IF value = None THEN now ELSE value

RoleForgotten(m, role, status) == Owner(m) /\ status = "suspended"
                                                             \* mutant: a new role removes no owner
removing_owner(m, role, status) ==
    /\ Owner(m)
    /\ role \notin {None, "owner"} \/ status = "suspended"

\* update_membership up to the append of its audit entry: the row and the count of
\* the active owners are read.
UpdateRead(r, a, m, role, status) ==
    /\ MayOpen(update, NoUpdate, r)
    /\ Manager(a)
    /\ member[m].status # "absent"
    /\ ~(a = m /\ status = "suspended")
    /\ removing_owner(m, role, status) => Cardinality(ActiveOwners) > 1
    /\ update' = [update EXCEPT ![r] = [on |-> m, loaded |-> member[m],
           role |-> Requested(role, member[m].role),
           status |-> Requested(status, member[m].status)]]
    /\ UNCHANGED <<member, overlap>>

UpdateCommit(r) ==
    LET u == update[r] IN
    /\ u # NoUpdate
    /\ member' = [member EXCEPT
           ![u.on].role = Written(u.role, u.loaded.role, @),
           ![u.on].status = Written(u.status, u.loaded.status, @)]
    /\ update' = [update EXCEPT ![r] = NoUpdate]
    /\ UNCHANGED overlap

MembersNext ==
    \/ \E a, m \in Memberships, role \in Roles : create_user(a, m, role)
    \/ \E r \in Updates, a, m \in Memberships, role \in Roles \cup {None},
          status \in MembershipStatuses \cup {None} : UpdateRead(r, a, m, role, status)
    \/ \E r \in Updates : UpdateCommit(r)

MembersSpec == SessionsInit /\ MembersInit /\ [][MembersNext]_<<membersVars, overlap>>

-----------------------------------------------------------------------------
MembersTypeOK ==
    /\ member \in [Memberships -> [role : Roles, status : MembershipStatuses \cup {"absent"}]]
    /\ \A r \in Updates : update[r].on \in Memberships \cup {None}

\* One request at a time, and as long as nobody is set back to "invited", which
\* update_membership does not count as removing an owner, whatever sequence of
\* promotions, demotions, suspensions and reinstatements leaves an active owner.
OwnerUnlessInvited ==
    (~overlap /\ \A m \in Memberships : member[m].status # "invited") => ActiveOwners # {}
=============================================================================
