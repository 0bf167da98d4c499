------------------------------ MODULE Sessions ------------------------------
(***************************************************************************)
(* The database sessions of the API (db/session.py), as the modules of the *)
(* practice's records use them.  A request loads rows, computes and writes *)
(* them back at its commit.  Reads are at READ COMMITTED and take no lock, *)
(* nothing is flushed before the commit unless the code flushes it, and an *)
(* update writes only the columns whose value the request changed, each    *)
(* with the value it computed.  So between its reads and its commit other  *)
(* requests may commit, if requests overlap at all: a small office may     *)
(* well send one at a time, and what holds then is worth stating as well.  *)
(***************************************************************************)
CONSTANT None        \* no row, no request

VARIABLE overlap     \* whether requests run at the same time

SessionsInit == overlap \in BOOLEAN

\* get_db opens a session for a request: open[r] is what it has loaded, closed
\* that it is not there.
MayOpen(open, closed, r) ==
    /\ open[r] = closed
    /\ overlap \/ \A q \in DOMAIN open : open[q] = closed

\* The value that an update leaves in a column: what the request set, or, if that
\* is what it had loaded, what the column holds by then.
Written(set, loaded, now) == IF set = loaded THEN now ELSE set
=============================================================================
