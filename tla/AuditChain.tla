----------------------------- MODULE AuditChain -----------------------------
(***************************************************************************)
(* The audit chain of one organization: services/security/audit.py.        *)
(*                                                                         *)
(* A writer is a request whose transaction changes a business row and      *)
(* appends one audit entry before it commits.  append_audit_event locks    *)
(* the organization's head row, so the appends are serial; the head is the *)
(* last lock a request takes unless the append's own flush writes the      *)
(* business row, which it does in every request that did not flush it      *)
(* before.  The two orders can deadlock, and the database ends one of the  *)
(* two transactions.                                                       *)
(***************************************************************************)
EXTENDS Sequences, Naturals

CONSTANTS
    Writers,       \* requests that append an audit entry
    FlushesFirst,  \* those that flush the business row before the append
    NoWriter       \* nobody holds the lock

ASSUME AuditAssumption ==
    /\ FlushesFirst \subseteq Writers
    /\ NoWriter \notin Writers

VARIABLES
    entries,   \* committed rows of security_audit_entries
    head,      \* the committed row of audit_chain_heads
    headLock,  \* the writer that has locked the head row, or inserted it
    rowLock,   \* the writer that has written the business row
    writer     \* the transaction of each request

auditVars == <<entries, head, headLock, rowLock, writer>>

WriterSteps == {"idle", "flush", "select", "insert", "append", "commit", "done", "failed"}

-----------------------------------------------------------------------------
\* A hash is injective, so it is as good as the writers whose payloads it covers.
ZERO_HASH == <<>>
compute_audit_hash(previous, w) == Append(previous, w)

NoHead == [exists |-> FALSE, sequence |-> 0, head_hash |-> ZERO_HASH]

Idle == [step |-> "idle", sequence |-> 0, previous |-> ZERO_HASH]

AuditInit ==
    /\ entries = {}
    /\ head = NoHead
    /\ headLock = NoWriter
    /\ rowLock = NoWriter
    /\ writer = [w \in Writers |-> Idle]

At(w, step) == writer[w].step = step
Go(w, step) == writer' = [writer EXCEPT ![w].step = step]
Load(w, row) == writer' = [writer EXCEPT ![w] =
                   [step |-> "append", sequence |-> row.sequence, previous |-> row.head_hash]]

KeepHeadLock(w) ==                                           \* mutant: the failed transaction stays open
    /\ rowLock' = IF rowLock = w THEN NoWriter ELSE rowLock
    /\ UNCHANGED headLock
Release(w) ==
    /\ rowLock' = IF rowLock = w THEN NoWriter ELSE rowLock
    /\ headLock' = IF headLock = w THEN NoWriter ELSE headLock

StaleHash(w) ==                                              \* mutant: the head keeps its hash
    [exists |-> TRUE, sequence |-> writer[w].sequence + 1, head_hash |-> writer[w].previous]
Advanced(w) ==
    [exists |-> TRUE, sequence |-> writer[w].sequence + 1,
     head_hash |-> compute_audit_hash(writer[w].previous, w)]

Entry(w) ==
    [sequence |-> writer[w].sequence + 1, previous_hash |-> writer[w].previous, payload |-> w,
     event_hash |-> compute_audit_hash(writer[w].previous, w)]

-----------------------------------------------------------------------------
Begin(w) ==
    /\ At(w, "idle")
    /\ Go(w, IF w \in FlushesFirst THEN "flush" ELSE "select")
    /\ UNCHANGED <<entries, head, headLock, rowLock>>

\* An explicit flush before the append: login flushes the user row with the session.
FlushRow(w) ==
    /\ At(w, "flush")
    /\ rowLock = NoWriter
    /\ rowLock' = w
    /\ Go(w, "select")
    /\ UNCHANGED <<entries, head, headLock>>

SelectHead(w) ==
    /\ At(w, "select")
    /\ head.exists
    /\ headLock = NoWriter
    /\ headLock' = w
    /\ Load(w, head)
    /\ UNCHANGED <<entries, head, rowLock>>

SelectNoHead(w) ==
    /\ At(w, "select")
    /\ ~head.exists
    /\ Go(w, "insert")
    /\ UNCHANGED <<entries, head, headLock, rowLock>>

\* The insert waits for another one that is not committed yet.
InsertHead(w) ==
    /\ At(w, "insert")
    /\ ~head.exists
    /\ headLock = NoWriter
    /\ headLock' = w
    /\ Load(w, NoHead)
    /\ UNCHANGED <<entries, head, rowLock>>

Fail(w) ==
    /\ Go(w, "failed")
    /\ Release(w)
    /\ UNCHANGED <<entries, head>>

\* uq_audit_chain_head_org: the first entry was committed in the meantime.
InsertRefused(w) ==
    /\ At(w, "insert")
    /\ head.exists
    /\ Fail(w)

\* The append's flush writes the entry, the head and what else has changed.
AppendEntry(w) ==
    /\ At(w, "append")
    /\ rowLock \in {w, NoWriter}
    /\ rowLock' = w
    /\ Go(w, "commit")
    /\ UNCHANGED <<entries, head, headLock>>

Commit(w) ==
    /\ At(w, "commit")
    /\ entries' = entries \cup {Entry(w)}
    /\ head' = Advanced(w)
    /\ Go(w, "done")
    /\ Release(w)

\* An error of the business operation, or a crash of its process.
Rollback(w) ==
    /\ ~At(w, "idle") /\ ~At(w, "done") /\ ~At(w, "failed")
    /\ Fail(w)

WaitsForHead(w) == (At(w, "select") \/ At(w, "insert")) /\ headLock # NoWriter
WaitsForRow(w) == At(w, "append") /\ rowLock \notin {w, NoWriter}

\* The database aborts a transaction that waits for one that waits for it.
DeadlockVictim(w) ==
    /\ WaitsForHead(w)
    /\ rowLock = w
    /\ WaitsForRow(headLock)
    /\ Fail(w)

WriterStep(w) ==
    \/ FlushRow(w) \/ SelectHead(w) \/ SelectNoHead(w) \/ InsertHead(w) \/ InsertRefused(w)
    \/ AppendEntry(w) \/ Commit(w) \/ DeadlockVictim(w)

AuditNext == \E w \in Writers : Begin(w) \/ WriterStep(w) \/ Rollback(w)

AuditSpec == AuditInit /\ [][AuditNext]_auditVars

-----------------------------------------------------------------------------
\* verify_audit_chain walks the entries in the order of their sequence numbers:
\* no gap, every entry linked to the one before it, every hash recomputed.
Linked(d, e) == d.sequence + 1 = e.sequence /\ e.previous_hash = d.event_hash
verify_audit_chain ==
    /\ \A d, e \in entries : d.sequence = e.sequence => d = e
    /\ \A e \in entries :
          /\ e.event_hash = compute_audit_hash(e.previous_hash, e.payload)
          /\ \/ e.sequence = 1 /\ e.previous_hash = ZERO_HASH
             \/ \E d \in entries : Linked(d, e)

AuditTypeOK ==
    /\ entries \subseteq [sequence : Nat \ {0}, previous_hash : Seq(Writers),
                          payload : Writers, event_hash : Seq(Writers)]
    /\ head \in [exists : BOOLEAN, sequence : Nat, head_hash : Seq(Writers)]
    /\ headLock \in Writers \cup {NoWriter}
    /\ rowLock \in Writers \cup {NoWriter}
    /\ writer \in [Writers -> [step : WriterSteps, sequence : Nat, previous : Seq(Writers)]]

\* However the requests interleave, fail and deadlock, the stored chain verifies
\* and ends where the head row says: what a later append continues, and what an
\* auditor who remembers the head checks, is the last committed entry
\* (append_audit_event and verify_audit_chain).
ChainIntact ==
    /\ verify_audit_chain
    /\ \A e \in entries : e.sequence <= head.sequence
    /\ \/ entries = {} /\ head.sequence = 0 /\ head.head_hash = ZERO_HASH
       \/ \E e \in entries : e.sequence = head.sequence /\ e.event_hash = head.head_hash

\* Every request that has begun is answered: always, nobody is under way some time
\* later, and a writer begins but once.  The locks of the two flush orders can be
\* waited for in a circle (a login flushes the user row and then waits for the head,
\* a failed login locks the head and then writes the user row), and the database
\* breaks it.
RequestsEnd == []<>(\A w \in Writers : At(w, "idle") \/ At(w, "done") \/ At(w, "failed"))
=============================================================================
