--------------------------- MODULE MCClientMoney ---------------------------
(***************************************************************************)
(* Model-checking instances of Receivables and ClientMoney.                *)
(***************************************************************************)
EXTENDS ClientMoney, TLC

CONSTANTS i1, t1, m1

\* Invoices of two units; all of them bill the same source.
TwoUnits == [i \in Invoices |-> 2]
SharedSource == [i \in Invoices |-> Sources]

\* t1 pays the invoice i1 from the matter; another transfer pays none, from
\* the client's money as a whole.
PaysFirst == [t \in Transfers |-> IF t = t1 THEN i1 ELSE None]
FromMatter == [t \in Transfers |-> IF t = t1 THEN m1 ELSE None]
OneUnit == [t \in Transfers |-> 1]

Symmetry == Permutations(Requests) \cup Permutations(Cashiers) \cup Permutations(Users)
=============================================================================
