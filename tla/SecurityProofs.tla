--------------------------- MODULE SecurityProofs ---------------------------
(***************************************************************************)
(* The audit chain, the members of an organization and their sessions, for *)
(* any number of requests that overlap in any way.                         *)
(***************************************************************************)
EXTENDS AuditChain, Members, SignIns, FiniteSetTheorems, TLAPS

-----------------------------------------------------------------------------
(* The stored audit chain verifies, for any number of requests, in         *)
(* whichever order each of them flushes.                                   *)
(*                                                                         *)
(* The inductive invariant says what the lock on the head row is for: who  *)
(* has read the head and not ended holds the lock, so that nobody else     *)
(* moves the head meanwhile, and what it read is still the head.  A head   *)
(* that is not there is the same as the head of an empty chain.            *)

Appending(w) == At(w, "append") \/ At(w, "commit")

HoldsHead == \A w \in Writers : Appending(w) => headLock = w
HeadKnown == \A w \in Writers : Appending(w) =>
                 writer[w].sequence = head.sequence /\ writer[w].previous = head.head_hash
FirstHead == ~head.exists => head = NoHead

AuditInv == AuditTypeOK /\ HoldsHead /\ HeadKnown /\ FirstHead /\ ChainIntact

-----------------------------------------------------------------------------
\* The locks, the steps and the loaded heads keep their types (append_audit_event).
LEMMA AuditTypeStep == AuditTypeOK /\ [AuditNext]_auditVars => AuditTypeOK'
<1> SUFFICES ASSUME AuditTypeOK, [AuditNext]_auditVars PROVE AuditTypeOK'
  OBVIOUS
<1>1. CASE UNCHANGED auditVars
  BY <1>1 DEF AuditTypeOK, auditVars
<1>2. ASSUME NEW w \in Writers, Begin(w) \/ WriterStep(w) \/ Rollback(w) PROVE AuditTypeOK'
  <2> USE <1>2, AuditAssumption DEF AuditTypeOK, Go, At, WriterSteps
  <2>1. CASE Begin(w)
    BY <2>1 DEF Begin
  <2>2. CASE FlushRow(w)
    BY <2>2 DEF FlushRow
  <2>3. CASE SelectHead(w)
    BY <2>3 DEF SelectHead, Load
  <2>4. CASE SelectNoHead(w)
    BY <2>4 DEF SelectNoHead
  <2>5. CASE InsertHead(w)
    BY <2>5 DEF InsertHead, Load, NoHead, ZERO_HASH
  <2>6. CASE InsertRefused(w) \/ Rollback(w) \/ DeadlockVictim(w)
    <3>1. Fail(w)
      BY <2>6 DEF InsertRefused, Rollback, DeadlockVictim
    <3> QED
      BY <3>1 DEF Fail, Release
  <2>7. CASE AppendEntry(w)
    BY <2>7 DEF AppendEntry
  <2>8. CASE Commit(w)
    <3>1. compute_audit_hash(writer[w].previous, w) \in Seq(Writers)
      BY DEF compute_audit_hash
    <3>2. Entry(w) \in [sequence : Nat \ {0}, previous_hash : Seq(Writers),
                        payload : Writers, event_hash : Seq(Writers)]
      BY <3>1 DEF Entry
    <3>3. Advanced(w) \in [exists : BOOLEAN, sequence : Nat, head_hash : Seq(Writers)]
      BY <3>1 DEF Advanced
    <3> QED
      BY <2>8, <3>2, <3>3 DEF Commit, Release
  <2> QED
    BY <1>2, <2>1, <2>2, <2>3, <2>4, <2>5, <2>6, <2>7, <2>8 DEF WriterStep
<1> QED
  BY <1>1, <1>2 DEF AuditNext

\* Only a commit writes a chain, and only what its writer loaded (append_audit_event).
LEMMA AuditChainStep == AuditInv /\ [AuditNext]_auditVars => (HoldsHead /\ HeadKnown /\ FirstHead /\ ChainIntact)'
<1> SUFFICES ASSUME AuditInv, [AuditNext]_auditVars
             PROVE  (HoldsHead /\ HeadKnown /\ FirstHead /\ ChainIntact)'
  OBVIOUS
<1> USE DEF AuditInv, Appending, HoldsHead, HeadKnown, FirstHead
<1>1. CASE UNCHANGED auditVars
  BY <1>1 DEF auditVars, ChainIntact, verify_audit_chain, At, Linked
<1>2. ASSUME NEW w \in Writers, Begin(w) \/ WriterStep(w) \/ Rollback(w), ~Commit(w)
      PROVE  (HoldsHead /\ HeadKnown /\ FirstHead /\ ChainIntact)'
  <2>1. UNCHANGED <<entries, head>>
    BY <1>2 DEF WriterStep, Begin, FlushRow, SelectHead, SelectNoHead, InsertHead,
                InsertRefused, AppendEntry, DeadlockVictim, Rollback, Fail
  <2>2. (FirstHead /\ ChainIntact)'
    BY <2>1 DEF ChainIntact, verify_audit_chain, Linked
  <2>3. HoldsHead'
    BY <1>2, AuditAssumption
    DEF AuditTypeOK, WriterStep, Begin, FlushRow, SelectHead, SelectNoHead, InsertHead,
        InsertRefused, AppendEntry, DeadlockVictim, Rollback, Fail, Release, Go, Load, At
  <2>4. HeadKnown'
    <3>1. CASE SelectHead(w)
      BY <3>1, <2>1 DEF SelectHead, Load, At, AuditTypeOK
    <3>2. CASE InsertHead(w)
      BY <3>2, <2>1 DEF InsertHead, Load, At, AuditTypeOK
    <3>3. CASE AppendEntry(w)
      BY <3>3, <2>1 DEF AppendEntry, Go, At, AuditTypeOK
    <3>4. CASE Begin(w) \/ FlushRow(w) \/ SelectNoHead(w)
      BY <3>4, <2>1 DEF Begin, FlushRow, SelectNoHead, Go, At, AuditTypeOK
    <3>5. CASE InsertRefused(w) \/ DeadlockVictim(w) \/ Rollback(w)
      <4>1. Fail(w)
        BY <3>5 DEF InsertRefused, DeadlockVictim, Rollback
      <4> QED
        BY <4>1, <2>1 DEF Fail, Go, At, AuditTypeOK
    <3> QED
      BY <1>2, <3>1, <3>2, <3>3, <3>4, <3>5 DEF WriterStep
  <2> QED
    BY <2>2, <2>3, <2>4
<1>3. ASSUME NEW w \in Writers, Commit(w)
      PROVE  (HoldsHead /\ HeadKnown /\ FirstHead /\ ChainIntact)'
  <2> DEFINE e == Entry(w)
  <2>1. /\ entries' = entries \cup {e} /\ head' = Advanced(w)
        /\ headLock = w /\ headLock' = NoWriter
        /\ writer' = [writer EXCEPT ![w].step = "done"]
        /\ writer[w].sequence = head.sequence /\ writer[w].previous = head.head_hash
    BY <1>3 DEF Commit, At, Go, Release
  <2>2. \A v \in Writers : ~Appending(v)'
    BY <2>1, AuditAssumption DEF AuditTypeOK, At
  <2>3. FirstHead'
    BY <2>1 DEF Advanced
  <2>4. /\ e.sequence = head.sequence + 1 /\ e.previous_hash = head.head_hash
        /\ e.event_hash = compute_audit_hash(e.previous_hash, e.payload)
        /\ head'.sequence = e.sequence /\ head'.head_hash = e.event_hash
        /\ head.sequence \in Nat
    BY <2>1 DEF Entry, Advanced, AuditTypeOK
  <2>5. \A d \in entries : d.sequence \in Nat /\ d.sequence < e.sequence
    BY <2>4 DEF ChainIntact, AuditTypeOK
  <2>6. \/ e.sequence = 1 /\ e.previous_hash = ZERO_HASH
        \/ \E d \in entries : Linked(d, e)
    BY <2>4 DEF ChainIntact, Linked
  <2> HIDE DEF e
  <2>7. verify_audit_chain'
    <3>1. \A d, f \in entries' : d.sequence = f.sequence => d = f
      BY <2>1, <2>4, <2>5 DEF ChainIntact, verify_audit_chain
    <3>2. \A f \in entries' :
             /\ f.event_hash = compute_audit_hash(f.previous_hash, f.payload)
             /\ \/ f.sequence = 1 /\ f.previous_hash = ZERO_HASH
                \/ \E d \in entries' : Linked(d, f)
      BY <2>1, <2>4, <2>6 DEF ChainIntact, verify_audit_chain
    <3> QED
      BY <3>1, <3>2 DEF verify_audit_chain
  <2>8. ChainIntact'
    <3>1. \A f \in entries' : f.sequence <= head'.sequence
      BY <2>1, <2>4, <2>5
    <3> QED
      BY <2>1, <2>4, <2>7, <3>1 DEF ChainIntact
  <2> QED
    BY <2>2, <2>3, <2>8
<1> QED
  BY <1>1, <1>2, <1>3 DEF AuditNext

\* The variables of the chain keep their types (append_audit_event).
THEOREM AuditTypeCorrect == AuditSpec => []AuditTypeOK
<1>1. AuditInit => AuditTypeOK
  BY AuditAssumption DEF AuditInit, AuditTypeOK, NoHead, ZERO_HASH, Idle, WriterSteps
<1> QED
  BY <1>1, AuditTypeStep, PTL DEF AuditSpec

\* The stored chain always verifies and ends at the head row (verify_audit_chain).
THEOREM ChainAlwaysIntact == AuditSpec => []ChainIntact
<1>1. AuditInit => AuditInv
  BY AuditAssumption
  DEF AuditInit, AuditInv, AuditTypeOK, HoldsHead, HeadKnown, FirstHead, Appending, At,
      ChainIntact, verify_audit_chain, NoHead, ZERO_HASH, Idle, WriterSteps
<1>2. AuditInv /\ [AuditNext]_auditVars => AuditInv'
  BY AuditTypeStep, AuditChainStep DEF AuditInv
<1>3. AuditInv => ChainIntact
  BY DEF AuditInv
<1> QED
  BY <1>1, <1>2, <1>3, PTL DEF AuditSpec

-----------------------------------------------------------------------------
(* The members of an organization.  An owner whose status is "invited" is  *)
(* not counted as an active one, but can only be reinstated: what removes  *)
(* it is refused while no other owner is active.  So an owner that is      *)
(* active or invited always remains, and it is active if nobody is invited.*)

Remains(m)  == Owner(m) /\ member[m].status \in {"active", "invited"}
OwnerLeft   == \E m \in Memberships : Remains(m)
MemberRow   == [role : Roles, status : MembershipStatuses \cup {"absent"}]
UpdateRow   == [on : Memberships \cup {None}, loaded : MemberRow,
                role : Roles \cup {None}, status : MembershipStatuses \cup {"absent", None}]

\* What is known of an open update while no other is open: it has loaded the row as
\* it still is, and leaves an owner, its own member or another.
Keeps(u) ==
    /\ u.loaded = member[u.on] /\ u.loaded.status # "absent"
    /\ u.role \in Roles /\ u.status \in MembershipStatuses
    /\ \/ u.role = "owner" /\ u.status \in {"active", "invited"}
       \/ \E m \in Memberships \ {u.on} : Remains(m)

MembersInv ==
    /\ member \in [Memberships -> MemberRow]
    /\ update \in [Updates -> UpdateRow]
    /\ \A r \in Updates : update[r] # NoUpdate =>
          update[r].on \in Memberships /\ update[r].role \in Roles
                                       /\ update[r].status \in MembershipStatuses
    /\ ~overlap =>
          /\ OwnerLeft
          /\ \A r \in Updates : update[r] # NoUpdate =>
                Keeps(update[r]) /\ \A q \in Updates \ {r} : update[q] = NoUpdate

\* If removing an owner is let through because more than one is active, another one
\* is active (UpdateRead).
LEMMA AnotherOwner ==
    ASSUME NEW m \in Memberships, Cardinality(ActiveOwners) > 1
    PROVE  \E o \in Memberships \ {m} : Remains(o)
<1> SUFFICES ASSUME \A o \in Memberships \ {m} : ~Remains(o) PROVE FALSE
  OBVIOUS
<1>1. ActiveOwners \subseteq {m}
  BY DEF ActiveOwners, Remains
<1>2. IsFiniteSet({m}) /\ Cardinality({m}) = 1
  BY FS_Singleton
<1>3. Cardinality(ActiveOwners) \in Nat /\ Cardinality(ActiveOwners) <= 1
  BY <1>1, <1>2, FS_Subset, FS_CardinalityType
<1> QED BY <1>3

\* The founder is the first owner (MembersInit).
LEMMA MembersStart == SessionsInit /\ MembersInit => MembersInv
<1> SUFFICES ASSUME MembersInit PROVE MembersInv
  OBVIOUS
<1>1. member \in [Memberships -> MemberRow] /\ update \in [Updates -> UpdateRow]
  BY DEF MembersInit, MemberRow, UpdateRow, NoMember, NoUpdate, Roles, MembershipStatuses
<1>2. Remains(Founder)
  BY MembersAssumption DEF MembersInit, Remains, Owner
<1>3. OwnerLeft
  BY <1>2, MembersAssumption DEF OwnerLeft
<1> QED BY <1>1, <1>3 DEF MembersInv, MembersInit

\* A new member takes no role from another one (create_user).
LEMMA KeepsMembers_create_user ==
    ASSUME MembersInv, NEW a \in Memberships, NEW m \in Memberships, NEW role \in Roles,
           create_user(a, m, role)
    PROVE  MembersInv'
<1>1. /\ member' \in [Memberships -> MemberRow] /\ UNCHANGED <<update, overlap>>
      /\ \A o \in Memberships : member[o].status # "absent" => member'[o] = member[o]
  BY DEF MembersInv, create_user, MemberRow, MembershipStatuses
<1>2. \A o \in Memberships : Remains(o) => Remains(o)'
  BY <1>1 DEF Remains, Owner
<1>3. \A r \in Updates : update[r] # NoUpdate /\ Keeps(update[r]) => Keeps(update[r])'
  BY <1>1, <1>2 DEF MembersInv, Keeps
<1> QED BY <1>1, <1>2, <1>3 DEF MembersInv, OwnerLeft

\* An update opens with what keeps an owner, or is refused (UpdateRead).
LEMMA KeepsMembers_UpdateRead ==
    ASSUME MembersInv, NEW r \in Updates, NEW a \in Memberships, NEW m \in Memberships,
           NEW role \in Roles \cup {None}, NEW status \in MembershipStatuses \cup {None},
           UpdateRead(r, a, m, role, status)
    PROVE  MembersInv'
<1>0. PICK u : u = [on |-> m, loaded |-> member[m], role |-> Requested(role, member[m].role),
                     status |-> Requested(status, member[m].status)]
  OBVIOUS
<1>1. /\ MayOpen(update, NoUpdate, r) /\ member[m].status # "absent"
      /\ update' = [update EXCEPT ![r] = u] /\ UNCHANGED <<member, overlap>>
  BY <1>0 DEF UpdateRead
<1>2. member[m] \in MemberRow
  BY DEF MembersInv
<1>3. u.role \in Roles /\ u.status \in MembershipStatuses
  BY <1>0, <1>1, <1>2 DEF MemberRow, Requested
<1>4. u \in UpdateRow /\ u.on = m /\ u.loaded = member[m]
  BY <1>0, <1>2, <1>3 DEF UpdateRow
<1>5. ASSUME ~overlap PROVE Keeps(u)
  <2>1. PICK o \in Memberships : Remains(o)
    BY <1>5 DEF MembersInv, OwnerLeft
  <2>2. CASE removing_owner(m, role, status)
    <3>1. \E p \in Memberships \ {m} : Remains(p)
      BY <2>2, AnotherOwner DEF UpdateRead
    <3> QED BY <1>1, <1>3, <1>4, <3>1 DEF Keeps
  <2>3. CASE ~removing_owner(m, role, status) /\ o = m
    <3>1. u.role = "owner" /\ u.status \in {"active", "invited"}
      BY <1>0, <2>1, <2>3, <1>2 DEF removing_owner, Remains, Owner, Requested, MembershipStatuses, MemberRow
    <3> QED BY <1>1, <1>3, <1>4, <3>1 DEF Keeps
  <2>4. CASE o # m
    BY <1>1, <1>3, <1>4, <2>1, <2>4 DEF Keeps
  <2> QED BY <2>2, <2>3, <2>4
<1>6. /\ update' \in [Updates -> UpdateRow]
      /\ \A q \in Updates : update'[q] = IF q = r THEN u ELSE update[q]
  BY <1>1, <1>4 DEF MembersInv
<1>7. ~overlap => \A q \in Updates : update[q] = NoUpdate
  BY <1>1 DEF MembersInv, MayOpen
<1>8. ~overlap => Keeps(u)' /\ OwnerLeft'
  BY <1>1, <1>5 DEF MembersInv, OwnerLeft, Keeps, Remains, Owner
<1> QED BY <1>1, <1>3, <1>4, <1>6, <1>7, <1>8 DEF MembersInv

\* A commit leaves the owner that its update left (UpdateCommit).
LEMMA KeepsMembers_UpdateCommit ==
    ASSUME MembersInv, NEW r \in Updates, UpdateCommit(r)
    PROVE  MembersInv'
<1> DEFINE u == update[r]
           row == [role   |-> Written(u.role, u.loaded.role, member[u.on].role),
                   status |-> Written(u.status, u.loaded.status, member[u.on].status)]
<1>1. /\ u # NoUpdate /\ u \in UpdateRow /\ u.on \in Memberships
      /\ u.role \in Roles /\ u.status \in MembershipStatuses
      /\ update' = [update EXCEPT ![r] = NoUpdate] /\ UNCHANGED overlap
  BY DEF UpdateCommit, MembersInv
<1>2. member' = [member EXCEPT ![u.on].role = Written(u.role, u.loaded.role, @),
                               ![u.on].status = Written(u.status, u.loaded.status, @)]
  BY DEF UpdateCommit
<1>3. /\ member' \in [Memberships -> MemberRow]
      /\ \A o \in Memberships : member'[o] = IF o = u.on THEN row ELSE member[o]
  <2>1. member \in [Memberships -> MemberRow]
    BY DEF MembersInv
  <2>2. u.loaded \in MemberRow /\ member[u.on] \in MemberRow
    BY <1>1, <2>1 DEF UpdateRow
  <2>3. row \in MemberRow
    BY <1>1, <2>2 DEF MemberRow, Written
  <2>4. member' = [member EXCEPT ![u.on] = [member[u.on] EXCEPT
            !.role = row.role, !.status = row.status]]
    <3> HIDE DEF u
    <3> QED BY <1>1, <1>2, <2>1
  <2>5. [member[u.on] EXCEPT !.role = row.role, !.status = row.status] = row
    <3> HIDE DEF u
    <3> QED BY <2>2 DEF MemberRow
  <2> HIDE DEF u, row
  <2> QED BY <1>1, <2>1, <2>3, <2>4, <2>5
<1>4. ASSUME ~overlap PROVE OwnerLeft'
  <2>1. Keeps(u)
    BY <1>1, <1>4 DEF MembersInv
  <2>2. member[u.on] \in MemberRow
    BY <1>1 DEF MembersInv
  <2>3. row.role = u.role /\ row.status = u.status
    BY <2>1, <2>2 DEF Keeps, Written, MemberRow
  <2> HIDE DEF u, row
  <2>4. CASE u.role = "owner" /\ u.status \in {"active", "invited"}
    BY <1>1, <1>3, <2>3, <2>4 DEF OwnerLeft, Remains, Owner
  <2>5. CASE \E m \in Memberships \ {u.on} : Remains(m)
    BY <1>3, <2>5 DEF OwnerLeft, Remains, Owner
  <2> QED BY <2>1, <2>4, <2>5 DEF Keeps
<1> HIDE DEF u, row
<1>5. /\ update' \in [Updates -> UpdateRow]
      /\ \A q \in Updates : update'[q] # NoUpdate => q # r /\ update'[q] = update[q]
  BY <1>1 DEF MembersInv, UpdateRow, MemberRow, NoUpdate, NoMember, Roles, MembershipStatuses
<1>6. ~overlap => \A q \in Updates : update'[q] = NoUpdate
  BY <1>1, <1>5 DEF MembersInv, u
<1> QED BY <1>1, <1>3, <1>4, <1>5, <1>6 DEF MembersInv

\* Every step of the members keeps what is known of them.
LEMMA MembersStep == MembersInv /\ [MembersNext]_<<membersVars, overlap>> => MembersInv'
<1> SUFFICES ASSUME MembersInv, [MembersNext]_<<membersVars, overlap>> PROVE MembersInv'
  OBVIOUS
<1>1. CASE UNCHANGED <<membersVars, overlap>>
  BY <1>1 DEF membersVars, MembersInv, OwnerLeft, Keeps, Remains, Owner
<1>2. CASE MembersNext
  BY <1>2, KeepsMembers_create_user, KeepsMembers_UpdateRead, KeepsMembers_UpdateCommit
     DEF MembersNext
<1> QED BY <1>1, <1>2

\* Every variable of the members keeps its type, for any members and requests.
THEOREM MembersTypeCorrect == MembersSpec => []MembersTypeOK
<1>1. MembersInv => MembersTypeOK
  BY DEF MembersInv, MembersTypeOK, MemberRow, UpdateRow
<1> QED BY <1>1, MembersStart, MembersStep, PTL DEF MembersSpec

\* With separate requests an organization with nobody "invited" keeps an active
\* owner, for any number of members and any sequence of updates.
THEOREM OwnerAlwaysLeft == MembersSpec => []OwnerUnlessInvited
<1>1. MembersInv => OwnerUnlessInvited
  BY DEF MembersInv, OwnerUnlessInvited, OwnerLeft, Remains, ActiveOwners
<1> QED BY <1>1, MembersStart, MembersStep, PTL DEF MembersSpec

-----------------------------------------------------------------------------
(* The sessions of a member.  What each open login is about to revoke was  *)
(* chosen when fewer were there.  The bound that every step keeps is about *)
(* any set of open logins: the sessions that none of them revokes, and the *)
(* new ones of them all, are within the limit and its excess.              *)

Pending == {l \in Logins : signIn[l] # NoSignIn}
Excess  == IF overlap THEN Cardinality(Logins) ELSE 1
Left(W) == {s \in Range(signedIn) : \A l \in W : s \notin signIn[l].revokes}

OneOfEach == \A i, j \in 1..Len(signedIn) : signedIn[i] = signedIn[j] => i = j
NewOnes ==
    \A l \in Pending :
        /\ signIn[l].session \in SessionIds \ Range(signedIn)
        /\ \A k \in Pending : signIn[k].session = signIn[l].session => k = l
        /\ ~overlap => \A k \in Pending : k = l

SignInsInv ==
    /\ signedIn \in Seq(SessionIds)
    /\ signIn \in [Logins -> [session : SessionIds \cup {None}, revokes : SUBSET SessionIds]]
    /\ active \in BOOLEAN
    /\ OneOfEach
    /\ NewOnes
Bounded ==
    \A W \in SUBSET Pending :
        Cardinality(Left(W)) + Cardinality(W) <= max_concurrent_sessions - 1 + Excess

\* The places of a sequence that a set keeps are numbered without gaps (Nth).
LEMMA Numbered ==
    ASSUME NEW n \in Nat, NEW K \in SUBSET (1..n)
    PROVE  /\ Cardinality(K) \in Nat
           /\ \A i \in 1..Cardinality(K) : Nth(K, i) \in K
           /\ \A i, j \in 1..Cardinality(K) : Nth(K, i) = Nth(K, j) => i = j
           /\ \A k \in K : \E i \in 1..Cardinality(K) : Nth(K, i) = k
<1> DEFINE Below(k) == {j \in K : j <= k}
           rank == [k \in K |-> Cardinality(Below(k))]
<1>0. \A k \in K : k \in Nat
  OBVIOUS
<1>1. IsFiniteSet(K) /\ Cardinality(K) \in Nat
  <2>1. 1 \in Int /\ n \in Int
    OBVIOUS
  <2>2. IsFiniteSet(1..n)
    BY <2>1, FS_Interval
  <2> QED BY <2>2, FS_Subset, FS_CardinalityType
<1>2. ASSUME NEW k \in K PROVE IsFiniteSet(Below(k)) /\ rank[k] \in 1..Cardinality(K)
  <2>1. IsFiniteSet(Below(k)) /\ Cardinality(Below(k)) <= Cardinality(K)
    BY <1>1, FS_Subset
  <2>2. Cardinality(Below(k)) \in Nat /\ Cardinality(Below(k)) # 0
    <3>1. k \in Below(k)
      OBVIOUS
    <3> HIDE DEF Below
    <3> QED BY <2>1, <3>1, FS_CardinalityType, FS_EmptySet
  <2> HIDE DEF Below
  <2> QED BY <1>1, <2>1, <2>2
<1>3. ASSUME NEW k \in K, NEW m \in K, k < m PROVE rank[k] < rank[m]
  <2>1. Below(k) \subseteq Below(m) /\ m \in Below(m) /\ m \notin Below(k)
    <3>1. \A j \in K : j <= k => j <= m
      BY <1>0, <1>3
    <3>2. m <= m /\ ~(m <= k)
      BY <1>0, <1>3
    <3> QED BY <3>1, <3>2
  <2> HIDE DEF Below
  <2>2. Cardinality(Below(k)) <= Cardinality(Below(m)) /\ Cardinality(Below(k)) # Cardinality(Below(m))
    BY <1>2, <2>1, FS_Subset
  <2>3. rank[k] = Cardinality(Below(k)) /\ rank[m] = Cardinality(Below(m))
    OBVIOUS
  <2> HIDE DEF rank
  <2> QED BY <1>1, <1>2, <2>2, <2>3
<1>4. rank \in Injection(K, 1..Cardinality(K))
  <2>1. rank \in [K -> 1..Cardinality(K)]
    BY <1>2
  <2>2. ASSUME NEW k \in K, NEW m \in K, rank[k] = rank[m] PROVE k = m
    <3> HIDE DEF rank
    <3>1. rank[k] \in 1..Cardinality(K) /\ rank[m] \in 1..Cardinality(K)
      BY <1>2
    <3> QED BY <1>0, <1>1, <1>3, <2>2, <3>1
  <2> HIDE DEF rank
  <2> QED BY <2>1, <2>2 DEF Injection, IsInjective
<1>5. rank \in Surjection(K, 1..Cardinality(K))
  <2>1. IsFiniteSet(1..Cardinality(K)) /\ Cardinality(1..Cardinality(K)) = Cardinality(K)
    BY <1>1, FS_Interval
  <2> HIDE DEF rank
  <2> QED BY <1>4, <2>1, FS_Injection
<1>6. \A i : Nth(K, i) = CHOOSE k \in K : rank[k] = i
  BY DEF Nth
<1> HIDE DEF rank
<1>7. \A i \in 1..Cardinality(K) : Nth(K, i) \in K /\ rank[Nth(K, i)] = i
  BY <1>5, <1>6 DEF Surjection
<1>8. \A k \in K : rank[k] \in 1..Cardinality(K) /\ Nth(K, rank[k]) = k
  BY <1>2, <1>4, <1>7 DEF Injection, IsInjective
<1> QED BY <1>1, <1>7, <1>8

\* What stays of the sessions when some are revoked.
LEMMA Filtered ==
    ASSUME signedIn \in Seq(SessionIds), OneOfEach, NEW R, NEW t, t = Without(R)
    PROVE  /\ t \in Seq(SessionIds)
           /\ Range(t) = Range(signedIn) \ R
           /\ \A i, j \in 1..Len(t) : t[i] = t[j] => i = j
<1> DEFINE K == Staying(R)
           c == Cardinality(K)
<1>1. K \in SUBSET (1..Len(signedIn)) /\ Len(signedIn) \in Nat
  BY DEF Staying
<1>2. \A k \in 1..Len(signedIn) : k \in K <=> signedIn[k] \notin R
  BY DEF Staying
<1> HIDE DEF K
<1>3. /\ c \in Nat
      /\ \A i \in 1..c : Nth(K, i) \in K
      /\ \A i, j \in 1..c : Nth(K, i) = Nth(K, j) => i = j
      /\ \A k \in K : \E i \in 1..c : Nth(K, i) = k
  BY <1>1, Numbered
<1>4. t = [i \in 1..c |-> signedIn[Nth(K, i)]]
  BY DEF Without, K
<1> HIDE DEF c
<1>5. \A k \in 1..Len(signedIn) : signedIn[k] \in SessionIds
  OBVIOUS
<1>6. t \in [1..c -> SessionIds]
  BY <1>1, <1>3, <1>4, <1>5
<1>7. t \in Seq(SessionIds) /\ Len(t) = c
  BY <1>3, <1>6
<1>8. Range(t) = Range(signedIn) \ R
  <2>1. DOMAIN t = 1..c /\ DOMAIN signedIn = 1..Len(signedIn)
    BY <1>4
  <2>2. ASSUME NEW i \in 1..c PROVE t[i] \in Range(signedIn) \ R
    <3>1. Nth(K, i) \in 1..Len(signedIn) /\ t[i] = signedIn[Nth(K, i)]
      BY <1>1, <1>3, <1>4
    <3>2. signedIn[Nth(K, i)] \notin R
      BY <1>2, <1>3, <3>1
    <3> QED BY <2>1, <3>1, <3>2 DEF Range
  <2>3. ASSUME NEW k \in 1..Len(signedIn), signedIn[k] \notin R
        PROVE  \E i \in 1..c : t[i] = signedIn[k]
    BY <1>2, <1>3, <1>4, <2>3
  <2>4. \A s \in Range(t) : s \in Range(signedIn) \ R
    BY <2>1, <2>2 DEF Range
  <2>5. \A s \in Range(signedIn) \ R : s \in Range(t)
    BY <2>1, <2>3 DEF Range
  <2> QED BY <2>4, <2>5
<1>9. ASSUME NEW i \in 1..c, NEW j \in 1..c, t[i] = t[j] PROVE i = j
  BY <1>1, <1>3, <1>4, <1>9 DEF OneOfEach
<1> QED BY <1>7, <1>8, <1>9

\* A session that is put at the end of those that stay.
LEMMA PutLast ==
    ASSUME signedIn \in Seq(SessionIds), OneOfEach, NEW R, NEW s \in SessionIds,
           s \notin Range(signedIn) \ R, signedIn' = Append(Without(R), s)
    PROVE  /\ signedIn' \in Seq(SessionIds)
           /\ Range(signedIn') = (Range(signedIn) \ R) \cup {s}
           /\ OneOfEach'
<1>1. PICK t : t = Without(R)
  OBVIOUS
<1>2. /\ t \in Seq(SessionIds) /\ Range(t) = Range(signedIn) \ R
      /\ \A i, j \in 1..Len(t) : t[i] = t[j] => i = j
  BY <1>1, Filtered
<1>3. signedIn' = Append(t, s)
  BY <1>1
<1>4. /\ signedIn' \in Seq(SessionIds) /\ Len(signedIn') = Len(t) + 1 /\ Len(t) \in Nat
      /\ \A k \in 1..Len(t) : signedIn'[k] = t[k]
      /\ signedIn'[Len(t) + 1] = s
      /\ DOMAIN signedIn' = 1..Len(t) + 1 /\ DOMAIN t = 1..Len(t)
  BY <1>2, <1>3
<1>5. Range(signedIn') = Range(t) \cup {s}
  BY <1>4 DEF Range
<1>6. \A k \in 1..Len(t) : t[k] # s
  BY <1>2, <1>4 DEF Range
<1>7. OneOfEach'
  BY <1>2, <1>4, <1>6 DEF OneOfEach
<1> QED BY <1>2, <1>4, <1>5, <1>7

\* There are as many sessions as places.
LEMMA AsManyAsPlaces ==
    ASSUME signedIn \in Seq(SessionIds), OneOfEach
    PROVE  /\ IsFiniteSet(Range(signedIn))
           /\ Cardinality(Range(signedIn)) = Len(signedIn)
<1> DEFINE n == Len(signedIn)
<1>1. n \in Nat /\ DOMAIN signedIn = 1..n /\ IsFiniteSet(1..n) /\ Cardinality(1..n) = n
  <2>1. n \in Nat /\ DOMAIN signedIn = 1..n
    OBVIOUS
  <2> HIDE DEF n
  <2>2. 1 \in Int /\ n \in Int
    BY <2>1
  <2>3. IsFiniteSet(1..n) /\ Cardinality(1..n) = IF 1 > n THEN 0 ELSE n - 1 + 1
    BY <2>2, FS_Interval
  <2> QED BY <2>1, <2>3
<1>2. signedIn \in [1..n -> Range(signedIn)]
  BY <1>1 DEF Range
<1>3. signedIn \in Bijection(1..n, Range(signedIn))
  BY <1>1, <1>2 DEF Bijection, Injection, Surjection, IsInjective, Range, OneOfEach
<1>4. ExistsBijection(1..n, Range(signedIn))
  BY <1>3 DEF ExistsBijection
<1> HIDE DEF n
<1>5. IsFiniteSet(Range(signedIn)) /\ Cardinality(Range(signedIn)) = n
  BY <1>1, <1>4, FS_Bijection
<1> QED BY <1>5 DEF n

\* A login leaves at most one session less than the limit (login).
LEMMA OneBelowLimit ==
    ASSUME signedIn \in Seq(SessionIds), OneOfEach
    PROVE  Cardinality(Range(signedIn) \ Overflow) <= max_concurrent_sessions - 1
<1> DEFINE n == Len(signedIn)
           m == max_concurrent_sessions
           K == (1..n) \ (1..n - m + 1)
           f == [k \in K |-> signedIn[k]]
           T == {signedIn[k] : k \in K}
<1>1. n \in Nat /\ m \in Nat \ {0} /\ DOMAIN signedIn = 1..n
  BY SignInsAssumption
<1>2. Range(signedIn) \ Overflow \subseteq T
  BY <1>1 DEF Range, Overflow
<1>3. f \in Surjection(K, T)
  BY DEF Surjection
<1>4. IsFiniteSet(K) /\ Cardinality(K) <= m - 1
  <2>1. CASE n - m + 1 >= 0
    <3>1. K = n - m + 2 .. n
      BY <1>1, <2>1
    <3>2. n - m + 2 \in Int /\ n \in Int
      BY <1>1
    <3>3. IsFiniteSet(K) /\ Cardinality(K) = IF n - m + 2 > n THEN 0 ELSE n - (n - m + 2) + 1
      BY <3>1, <3>2, FS_Interval
    <3> HIDE DEF K, n, m
    <3> QED BY <1>1, <3>3
  <2>2. CASE n - m + 1 < 0
    <3>1. K = 1..n
      BY <1>1, <2>2
    <3>3. 1 \in Int /\ n \in Int
      BY <1>1
    <3>2. IsFiniteSet(K) /\ Cardinality(K) = IF 1 > n THEN 0 ELSE n - 1 + 1
      BY <3>1, <3>3, FS_Interval
    <3> HIDE DEF K, n, m
    <3> QED BY <1>1, <2>2, <3>2
  <2> QED BY <1>1, <2>1, <2>2
<1> HIDE DEF K, T, f, n, m
<1>5. IsFiniteSet(T) /\ Cardinality(T) <= Cardinality(K) /\ Cardinality(K) \in Nat
  BY <1>3, <1>4, FS_Surjection, FS_CardinalityType
<1>6. /\ Cardinality(Range(signedIn) \ Overflow) <= Cardinality(T)
      /\ Cardinality(Range(signedIn) \ Overflow) \in Nat /\ Cardinality(T) \in Nat
  BY <1>2, <1>5, FS_Subset, FS_CardinalityType
<1>7. Cardinality(Range(signedIn) \ Overflow) <= m - 1
  BY <1>1, <1>4, <1>5, <1>6
<1> QED BY <1>7 DEF m

\* Nobody is signed in at first (SignInsInit).
LEMMA SignInsStart == SessionsInit /\ SignInsInit => SignInsInv
<1> SUFFICES ASSUME SignInsInit PROVE SignInsInv
  OBVIOUS
<1>1. signedIn = <<>> /\ \A l \in Logins : signIn[l] = NoSignIn
  BY DEF SignInsInit
<1>2. OneOfEach /\ NewOnes
  BY <1>1 DEF OneOfEach, NewOnes, Pending
<1>3. signedIn \in Seq(SessionIds)
  BY <1>1
<1> QED BY <1>2, <1>3 DEF SignInsInv, SignInsInit, NoSignIn

\* A step that changes no request and brings no session.
LEMMA SameRequests ==
    ASSUME SignInsInv, signedIn' \in Seq(SessionIds), OneOfEach', active' \in BOOLEAN,
           Range(signedIn') \subseteq Range(signedIn), UNCHANGED <<signIn, overlap>>
    PROVE  SignInsInv'
<1>1. Pending' = Pending
  BY DEF Pending
<1>2. NewOnes'
  BY <1>1 DEF SignInsInv, NewOnes
<1> QED BY <1>2 DEF SignInsInv

\* What a login's read adds (LoginRead).
LEMMA SignInOpens ==
    ASSUME SignInsInv, NEW l \in Logins, NEW s \in SessionIds, LoginRead(l, s)
    PROVE  /\ SignInsInv'
           /\ Pending' \subseteq Pending \cup {l}
           /\ signIn'[l].revokes = Overflow
           /\ \A k \in Logins \ {l} : signIn'[k] = signIn[k]
           /\ ~overlap => Pending = {}
           /\ l \notin Pending /\ UNCHANGED <<signedIn, overlap>>
<1>1. /\ MayOpen(signIn, NoSignIn, l) /\ s \notin Range(signedIn)
      /\ \A k \in Logins : signIn[k].session # s
      /\ signIn' = [signIn EXCEPT ![l] = [session |-> s, revokes |-> Overflow]]
      /\ UNCHANGED <<signedIn, active, overlap>>
  BY DEF LoginRead
<1>2. Overflow \in SUBSET SessionIds
  <2>1. \A k \in 1..Len(signedIn) : signedIn[k] \in SessionIds
    BY DEF SignInsInv
  <2>2. Len(signedIn) \in Nat /\ max_concurrent_sessions \in Nat \ {0}
    BY SignInsAssumption DEF SignInsInv
  <2>3. \A k \in 1..Len(signedIn) - max_concurrent_sessions + 1 : k \in 1..Len(signedIn)
    BY <2>2
  <2> QED BY <2>1, <2>3 DEF Overflow
<1>3. signIn' \in [Logins -> [session : SessionIds \cup {None}, revokes : SUBSET SessionIds]]
  BY <1>1, <1>2 DEF SignInsInv
<1>4. /\ signIn'[l].session = s /\ signIn'[l].revokes = Overflow
      /\ \A k \in Logins \ {l} : signIn'[k] = signIn[k]
  BY <1>1 DEF SignInsInv
<1>5. l \notin Pending /\ (~overlap => Pending = {})
  BY <1>1 DEF MayOpen, Pending, SignInsInv
<1>6. Pending' \subseteq Pending \cup {l}
  BY <1>4 DEF Pending
<1>7. NewOnes'
  BY <1>1, <1>4, <1>5, <1>6 DEF SignInsInv, NewOnes, Pending
<1> QED BY <1>1, <1>3, <1>4, <1>5, <1>6, <1>7 DEF SignInsInv, OneOfEach

\* What a login's commit leaves (LoginCommit).
LEMMA SignInCommits ==
    ASSUME SignInsInv, NEW l \in Logins, LoginCommit(l)
    PROVE  /\ SignInsInv'
           /\ Pending' = Pending \ {l} /\ l \in Pending
           /\ Range(signedIn') = (Range(signedIn) \ signIn[l].revokes) \cup {signIn[l].session}
           /\ \A k \in Logins \ {l} : signIn'[k] = signIn[k]
           /\ UNCHANGED overlap
<1>1. /\ signIn[l] # NoSignIn /\ UNCHANGED <<active, overlap>>
      /\ signedIn' = Append(Without(signIn[l].revokes), signIn[l].session)
      /\ signIn' = [signIn EXCEPT ![l] = NoSignIn]
  BY DEF LoginCommit
<1>2. /\ l \in Pending /\ signIn[l].session \in SessionIds
      /\ signIn[l].session \notin Range(signedIn)
  BY <1>1 DEF Pending, SignInsInv, NewOnes
<1>3. /\ signedIn' \in Seq(SessionIds) /\ OneOfEach'
      /\ Range(signedIn') = (Range(signedIn) \ signIn[l].revokes) \cup {signIn[l].session}
  BY <1>1, <1>2, PutLast DEF SignInsInv
<1>4. /\ signIn' \in [Logins -> [session : SessionIds \cup {None}, revokes : SUBSET SessionIds]]
      /\ signIn'[l] = NoSignIn
      /\ \A k \in Logins \ {l} : signIn'[k] = signIn[k]
  BY <1>1 DEF SignInsInv, NoSignIn
<1>5. Pending' = Pending \ {l}
  BY <1>4 DEF Pending
<1>6. NewOnes'
  <2>1. ASSUME NEW k \in Pending, k # l
        PROVE  signIn'[k] = signIn[k] /\ signIn[k].session # signIn[l].session
    BY <1>2, <1>4, <2>1 DEF SignInsInv, NewOnes, Pending
  <2> QED BY <1>1, <1>3, <1>5, <2>1 DEF SignInsInv, NewOnes
<1> QED BY <1>1, <1>2, <1>3, <1>4, <1>5, <1>6 DEF SignInsInv

\* A session that is used is put last, one that is revoked is taken out.
LEMMA SessionUsed ==
    ASSUME SignInsInv, NEW s \in SessionIds, authenticate_session(s) \/ revoke_session(s)
    PROVE  SignInsInv' /\ Range(signedIn') \subseteq Range(signedIn) /\ UNCHANGED <<signIn, overlap>>
<1>1. s \in Range(signedIn) /\ UNCHANGED <<signIn, active, overlap>>
  BY DEF authenticate_session, revoke_session
<1>2. signedIn' \in Seq(SessionIds) /\ OneOfEach' /\ Range(signedIn') \subseteq Range(signedIn)
  <2>1. CASE authenticate_session(s)
    <3>1. signedIn' = Append(Without({s}), s)
      BY <2>1 DEF authenticate_session
    <3>2. signedIn \in Seq(SessionIds) /\ OneOfEach /\ s \notin Range(signedIn) \ {s}
      BY DEF SignInsInv
    <3>3. /\ signedIn' \in Seq(SessionIds) /\ OneOfEach'
          /\ Range(signedIn') = (Range(signedIn) \ {s}) \cup {s}
      BY <3>1, <3>2, PutLast
    <3> QED BY <1>1, <3>3
  <2>2. CASE revoke_session(s)
    <3>0. PICK R : R = {s}
      OBVIOUS
    <3>1. PICK t : t = Without(R)
      OBVIOUS
    <3>2. signedIn \in Seq(SessionIds) /\ OneOfEach
      BY DEF SignInsInv
    <3>3. /\ t \in Seq(SessionIds) /\ Range(t) = Range(signedIn) \ R
          /\ \A i, j \in 1..Len(t) : t[i] = t[j] => i = j
      BY <3>1, <3>2, Filtered
    <3>4. signedIn' = t
      BY <2>2, <3>0, <3>1 DEF revoke_session
    <3> QED BY <3>3, <3>4 DEF OneOfEach
  <2> QED BY <2>1, <2>2
<1> QED BY <1>1, <1>2, SameRequests DEF SignInsInv

\* Every step keeps what is known of the sessions.
LEMMA SignInsStep == SignInsInv /\ [SignInsNext]_<<signInsVars, overlap>> => SignInsInv'
<1> SUFFICES ASSUME SignInsInv, [SignInsNext]_<<signInsVars, overlap>> PROVE SignInsInv'
  OBVIOUS
<1>1. CASE UNCHANGED <<signInsVars, overlap>> \/ StatusChanges
  <2>1. UNCHANGED <<signedIn, signIn, overlap>> /\ active' \in BOOLEAN
    BY <1>1 DEF signInsVars, StatusChanges, SignInsInv
  <2> QED BY <2>1, SameRequests DEF SignInsInv, OneOfEach
<1>2. CASE SignInsNext /\ ~StatusChanges
  BY <1>2, SignInOpens, SignInCommits, SessionUsed DEF SignInsNext
<1> QED BY <1>1, <1>2

-----------------------------------------------------------------------------
\* What is left over is finite, and no more when fewer sessions are there.
LEMMA FewerLeft ==
    ASSUME SignInsInv, NEW W, NEW T \in SUBSET Left(W)
    PROVE  /\ Cardinality(Left(W)) \in Nat /\ Cardinality(T) \in Nat
           /\ Cardinality(T) <= Cardinality(Left(W)) /\ IsFiniteSet(T)
<1>1. IsFiniteSet(Range(signedIn)) /\ Left(W) \in SUBSET Range(signedIn)
  BY AsManyAsPlaces DEF SignInsInv, Left
<1>2. IsFiniteSet(Left(W))
  BY <1>1, FS_Subset
<1> QED BY <1>2, FS_Subset, FS_CardinalityType

\* Some of finitely many logins.
LEMMA SomeLogins ==
    ASSUME IsFiniteSet(Logins), NEW W \in SUBSET Logins
    PROVE  /\ IsFiniteSet(W) /\ Cardinality(W) \in Nat /\ Cardinality(Logins) \in Nat
           /\ Cardinality(W) <= Cardinality(Logins)
  BY FS_Subset, FS_CardinalityType

\* The bound that every step keeps, for finitely many logins: one that opens has left
\* one session less than the limit (LoginRead); a commit adds one session, and its
\* login no longer counts (LoginCommit).
LEMMA BoundKept ==
    ASSUME IsFiniteSet(Logins), SignInsInv, Bounded, [SignInsNext]_<<signInsVars, overlap>>
    PROVE  Bounded'
<1> USE SignInsAssumption
<1>1. SignInsInv' /\ \A W : W \in SUBSET Pending => W \in SUBSET Logins
  BY SignInsStep DEF Pending
<1>2. ASSUME NEW l \in Logins, NEW s \in SessionIds, LoginRead(l, s) PROVE Bounded'
  <2>1. SUFFICES ASSUME NEW W \in SUBSET (Pending')
                 PROVE  Cardinality(Left(W)') + Cardinality(W)
                            <= max_concurrent_sessions - 1 + Excess'
    BY DEF Bounded
  <2>2. /\ Pending' \subseteq Pending \cup {l} /\ signIn'[l].revokes = Overflow
        /\ \A k \in Logins \ {l} : signIn'[k] = signIn[k]
        /\ ~overlap => Pending = {}
        /\ l \notin Pending /\ UNCHANGED <<signedIn, overlap>>
    BY <1>2, SignInOpens
  <2>3. Excess' = Excess /\ W \in SUBSET Logins
    BY <2>2 DEF Excess, Pending
  <2>4. CASE l \notin W
    <3>1. W \in SUBSET Pending /\ Left(W)' = Left(W)
      BY <2>2, <2>4, <1>1 DEF Left
    <3> QED BY <2>3, <3>1 DEF Bounded
  <2>5. CASE l \in W
    <3>1. Left(W)' \subseteq Range(signedIn) \ Overflow
      BY <2>2, <2>5 DEF Left
    <3>2. Range(signedIn) \ Overflow \in SUBSET Left({})
      BY DEF Left
    <3>3. /\ Cardinality(Range(signedIn) \ Overflow) \in Nat
          /\ Cardinality(Range(signedIn) \ Overflow) <= max_concurrent_sessions - 1
          /\ IsFiniteSet(Range(signedIn) \ Overflow)
      BY <3>2, FewerLeft, OneBelowLimit DEF SignInsInv
    <3>4. /\ Cardinality(Left(W)') \in Nat
          /\ Cardinality(Left(W)') <= Cardinality(Range(signedIn) \ Overflow)
      BY <3>1, <3>3, FS_Subset, FS_CardinalityType
    <3>5. Cardinality(W) \in Nat /\ Excess \in Nat /\ Cardinality(W) <= Excess
      <4>1. CASE overlap
        BY <2>3, <4>1, SomeLogins DEF Excess
      <4>2. CASE ~overlap
        <5>1. W = {l}
          BY <2>2, <2>5, <4>2
        <5> QED BY <4>2, <5>1, FS_Singleton DEF Excess
      <4> QED BY <4>1, <4>2
    <3> QED BY <2>3, <3>3, <3>4, <3>5
  <2> QED BY <2>4, <2>5
<1>3. ASSUME NEW l \in Logins, LoginCommit(l) PROVE Bounded'
  <2>1. SUFFICES ASSUME NEW W \in SUBSET (Pending')
                 PROVE  Cardinality(Left(W)') + Cardinality(W)
                            <= max_concurrent_sessions - 1 + Excess'
    BY DEF Bounded
  <2>2. /\ Pending' = Pending \ {l} /\ l \in Pending
        /\ Range(signedIn') = (Range(signedIn) \ signIn[l].revokes) \cup {signIn[l].session}
        /\ \A k \in Logins \ {l} : signIn'[k] = signIn[k]
        /\ UNCHANGED overlap
    BY <1>3, SignInCommits
  <2>3. PICK V : V = W \cup {l}
    OBVIOUS
  <2>4. V \in SUBSET Pending /\ l \notin W /\ V \in SUBSET Logins /\ W \in SUBSET Logins
    BY <2>2, <2>3, <1>1
  <2>5. Left(W)' \subseteq Left(V) \cup {signIn[l].session}
    BY <2>2, <2>3, <2>4 DEF Left
  <2>6. Cardinality(Left(V)) \in Nat /\ IsFiniteSet(Left(V))
    <3>1. Left(V) \in SUBSET Left(V)
      OBVIOUS
    <3> QED BY <3>1, FewerLeft
  <2>7. Cardinality(Left(W)') \in Nat /\ Cardinality(Left(W)') <= Cardinality(Left(V)) + 1
    <3> DEFINE U == Left(V) \cup {signIn[l].session}
    <3>1. IsFiniteSet(U) /\ Cardinality(U) <= Cardinality(Left(V)) + 1
      <4>1. IsFiniteSet(U) /\ Cardinality(U) = IF signIn[l].session \in Left(V)
                               THEN Cardinality(Left(V)) ELSE Cardinality(Left(V)) + 1
        BY <2>6, FS_AddElement
      <4> HIDE DEF U
      <4> QED BY <2>6, <4>1
    <3>2. Left(W)' \in SUBSET U
      BY <2>5
    <3> HIDE DEF U
    <3>3. IsFiniteSet(Left(W)') /\ Cardinality(Left(W)') <= Cardinality(U)
      BY <3>1, <3>2, FS_Subset
    <3>4. Cardinality(Left(W)') \in Nat /\ Cardinality(U) \in Nat
      BY <3>1, <3>3, FS_CardinalityType
    <3> QED BY <2>6, <3>1, <3>3, <3>4
  <2>8. Cardinality(V) = Cardinality(W) + 1 /\ Cardinality(W) \in Nat
    BY <2>3, <2>4, SomeLogins, FS_AddElement
  <2>9. Cardinality(Left(V)) + Cardinality(V) <= max_concurrent_sessions - 1 + Excess
    BY <2>4 DEF Bounded
  <2>10. Excess' = Excess /\ Excess \in Nat
    BY <2>2, SomeLogins DEF Excess
  <2> QED BY <2>6, <2>7, <2>8, <2>9, <2>10
<1>4. CASE /\ UNCHANGED <<signIn, overlap>>
           /\ Range(signedIn') \subseteq Range(signedIn)
  <2>1. SUFFICES ASSUME NEW W \in SUBSET (Pending')
                 PROVE  Cardinality(Left(W)') + Cardinality(W)
                            <= max_concurrent_sessions - 1 + Excess'
    BY DEF Bounded
  <2>2. W \in SUBSET Pending /\ Excess' = Excess /\ Left(W)' \in SUBSET Left(W)
    BY <1>4 DEF Pending, Excess, Left
  <2>3. /\ Cardinality(Left(W)) \in Nat /\ Cardinality(Left(W)') \in Nat
        /\ Cardinality(Left(W)') <= Cardinality(Left(W))
    BY <2>2, FewerLeft
  <2>4. Cardinality(W) \in Nat /\ Excess \in Nat
    BY <1>1, <2>2, SomeLogins DEF Excess
  <2> QED BY <2>2, <2>3, <2>4 DEF Bounded
<1>5. CASE UNCHANGED <<signInsVars, overlap>> \/ StatusChanges
  BY <1>4, <1>5 DEF signInsVars, StatusChanges
<1>6. CASE \E s \in SessionIds : authenticate_session(s) \/ revoke_session(s)
  BY <1>4, <1>6, SessionUsed
<1> QED BY <1>2, <1>3, <1>5, <1>6 DEF SignInsNext

\* Every variable of the sessions keeps its type, for any sessions and logins.
THEOREM SignInsTypeCorrect == SignInsSpec => []SignInsTypeOK
<1>1. SignInsInv => SignInsTypeOK
  BY DEF SignInsInv, SignInsTypeOK
<1> QED BY <1>1, SignInsStart, SignInsStep, PTL DEF SignInsSpec

\* A member keeps no more sessions than the policy allows, and overlapping logins of a
\* finite number of devices exceed it by at most one less than their number, however
\* many of them there are one after the other.
THEOREM SessionsStayLimited ==
    ASSUME IsFiniteSet(Logins) PROVE SignInsSpec => []SessionLimit
<1>1. SignInsInit => Bounded
  <2> SUFFICES ASSUME SignInsInit PROVE Bounded
    OBVIOUS
  <2>1. Pending = {} /\ Left({}) = {}
    BY DEF SignInsInit, Pending, Left, Range
  <2>2. Excess \in Nat
    BY SomeLogins DEF Excess
  <2>3. Cardinality({}) = 0
    BY FS_EmptySet
  <2> QED BY <2>1, <2>2, <2>3, SignInsAssumption DEF Bounded
<1>2. SignInsInv /\ Bounded => SessionLimit
  <2> SUFFICES ASSUME SignInsInv, Bounded PROVE SessionLimit
    OBVIOUS
  <2>1. {} \in SUBSET Pending /\ Left({}) = Range(signedIn) /\ Cardinality({}) = 0
    BY FS_EmptySet DEF Left
  <2>2. Cardinality(Range(signedIn)) = Len(signedIn)
    BY AsManyAsPlaces DEF SignInsInv
  <2>3. Len(signedIn) + 0 <= max_concurrent_sessions - 1 + Excess
    BY <2>1, <2>2 DEF Bounded
  <2>4. Len(signedIn) \in Nat /\ Excess \in Nat
    BY SomeLogins DEF SignInsInv, Excess
  <2> QED BY <2>3, <2>4, SomeLogins, SignInsAssumption DEF SessionLimit, Excess
<1>3. SignInsInv /\ Bounded /\ [SignInsNext]_<<signInsVars, overlap>> => Bounded'
  BY BoundKept
<1> QED BY <1>1, <1>2, <1>3, SignInsStart, SignInsStep, PTL DEF SignInsSpec
=============================================================================
