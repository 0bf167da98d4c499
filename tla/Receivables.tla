---------------------------- MODULE Receivables ----------------------------
(***************************************************************************)
(* Billing: services/billing/service.py.  Invoices are numbered from the   *)
(* billing profile, reviewed, issued with an immutable snapshot and a      *)
(* ledger debit, and paid.                                                 *)
(*                                                                         *)
(* Every API request has its own database session.  It loads rows, checks  *)
(* what it loaded, and commits; no row is locked before the audit entry    *)
(* that ends the request, so what it checked may be out of date.  The ORM  *)
(* writes only the columns it changed.  A request that is refused, or      *)
(* whose process dies, writes nothing.  What a request asks for (an        *)
(* amount, a verdict, a date) is chosen when it matters, at its commit.    *)
(***************************************************************************)
EXTENDS Integers, FiniteSets

CONSTANTS
    Invoices,     \* invoices that may be created
    Sources,      \* time entries and expenses that invoice lines refer to
    Requests,     \* billing requests that may be open at the same time
    Series,       \* prefix/year of an invoice number
    None,         \* SQL NULL
    Total,        \* grand_total of an invoice, from its lines
    Lines,        \* the sources of an invoice's lines
    Amounts,      \* payment amounts
    MaxVersions,  \* bound on the versions of an invoice
    Overlap       \* FALSE: one request at a time

InvoiceStatuses == {"absent", "draft", "review", "issued", "partially_paid", "paid"}
Unissued        == {"absent", "draft", "review"}
SourceStatuses  == {"submitted", "approved", "billed"}

ASSUME ReceivablesAssumption ==
    /\ Total \in [Invoices -> Nat]
    /\ Lines \in [Invoices -> SUBSET Sources]
    /\ Amounts \subseteq Nat \ {0}
    /\ MaxVersions \in Nat
    /\ Overlap \in BOOLEAN
    /\ None \notin Invoices \cup Sources \cup Series \cup (Series \X Nat)

VARIABLES
    invoice,      \* invoices: status, number, tax_treatment_reviewed, amount_paid
    sequence,     \* next_invoice_sequence of the billing profile
    versions,     \* how many invoice_versions an invoice has
    debit,        \* how often an invoice was debited in client_ledger_entries
    credit,       \* the sum of its credits there, each with its cleared payment
    source,       \* status of a time entry or expense
    request       \* what an open request has loaded

billing == <<invoice, sequence, versions, debit, credit, source>>
receivables == <<billing, request>>

-----------------------------------------------------------------------------
NoInvoice == [status |-> "absent", number |-> None, reviewed |-> FALSE, paid |-> 0]
Idle == [step |-> "idle", on |-> None, status |-> "absent", reviewed |-> FALSE,
         paid |-> 0, n |-> 0]

Quiet == \A r \in Requests : request[r] = Idle
Free(r) == request[r] = Idle /\ (Overlap \/ Quiet)

\* The column after a commit: only a value that differs from the loaded one
\* is written.
Written(now, loaded, new) == IF new = loaded THEN now ELSE new

\* grand_total - amount_paid, as the request loaded it.
FullTotal(i, paid) == Total[i]                               \* mutant: earlier payments forgotten
amount_due(i, paid) == Total[i] - paid

Numbers == {invoice[i].number : i \in Invoices}

Done(r) == request' = [request EXCEPT ![r] = Idle]

\* What a payment leaves on an invoice whose row was loaded as status, paid.
PaidAhead(row, i, status, paid, a) ==                        \* mutant: paid whatever is due
    [row EXCEPT !.paid = paid + a, !.status = "paid"]
PaidBack(row, i, status, paid, a) ==                         \* mutant: sign
    [row EXCEPT !.paid = paid - a, !.status = "partially_paid"]
WithPayment(row, i, status, paid, a) ==
    [row EXCEPT !.paid = paid + a,
                !.status = Written(@, status, IF amount_due(i, paid + a) <= 0
                                              THEN "paid" ELSE "partially_paid")]

ReceivablesInit ==
    /\ invoice = [i \in Invoices |-> NoInvoice]
    /\ sequence = 1
    /\ versions = [i \in Invoices |-> 0]
    /\ debit = [i \in Invoices |-> 0]
    /\ credit = [i \in Invoices |-> 0]
    /\ source = [s \in Sources |-> "approved"]
    /\ request = [r \in Requests |-> Idle]

-----------------------------------------------------------------------------
\* create_invoice checks the line sources and reads the profile ...
NextInvoiceNumber(r, i) ==
    /\ Free(r)
    /\ invoice[i].status = "absent"
    /\ \A q \in Requests : request[q].on # i
    /\ \A s \in Lines[i] : source[s] # "billed"
    /\ request' = [request EXCEPT ![r] = [Idle EXCEPT !.step = "numbering", !.on = i,
                                                       !.n = sequence]]
    /\ UNCHANGED billing

\* Mutant: the profile's sequence is not advanced.
SameSequence(r, s) ==
    LET i == request[r].on
    IN  /\ request[r].step = "numbering"
        /\ <<s, request[r].n>> \notin Numbers
        /\ invoice' = [invoice EXCEPT ![i] =
              [NoInvoice EXCEPT !.status = "draft", !.number = <<s, request[r].n>>]]
        /\ Done(r)
        /\ UNCHANGED <<sequence, versions, debit, credit, source>>

\* ... and inserts the draft, unless its number is taken (a unique constraint).
create_invoice(r, s) ==
    LET i == request[r].on
    IN  /\ request[r].step = "numbering"
        /\ <<s, request[r].n>> \notin Numbers
        /\ invoice' = [invoice EXCEPT ![i] =
              [NoInvoice EXCEPT !.status = "draft", !.number = <<s, request[r].n>>]]
        /\ sequence' = request[r].n + 1
        /\ Done(r)
        /\ UNCHANGED <<versions, debit, credit, source>>

get_invoice(r, i) ==
    /\ Free(r)
    /\ invoice[i].status # "absent"
    /\ request' = [request EXCEPT ![r] =
          [Idle EXCEPT !.step = "loaded", !.on = i, !.status = invoice[i].status,
                       !.reviewed = invoice[i].reviewed, !.paid = invoice[i].paid]]
    /\ UNCHANGED billing

review_invoice(r, verdict) ==
    LET i == request[r].on
    IN  /\ request[r].step = "loaded"
        /\ request[r].status \in {"draft", "review"}
        /\ invoice' = [invoice EXCEPT
              ![i].reviewed = Written(@, request[r].reviewed, verdict),
              ![i].status = Written(@, request[r].status, IF verdict THEN "review" ELSE "draft")]
        /\ Done(r)
        /\ UNCHANGED <<sequence, versions, debit, credit, source>>

\* Mutant: any loaded invoice is issued.
IssueAgain(r) ==
    /\ request[r].step = "loaded"
    /\ request' = [request EXCEPT ![r].step = "counted", ![r].n = versions[request[r].on]]
    /\ UNCHANGED billing

\* issue_invoice counts the versions ...
IssueCount(r) ==
    /\ request[r].step = "loaded"
    /\ request[r].status \in {"draft", "review"}
    /\ request[r].reviewed
    /\ request' = [request EXCEPT ![r].step = "counted", ![r].n = versions[request[r].on]]
    /\ UNCHANGED billing

\* ... and inserts the next one, unless it exists (a unique constraint).
issue_invoice(r) ==
    LET i == request[r].on
    IN  /\ request[r].step = "counted"
        /\ versions[i] = request[r].n
        /\ versions[i] < MaxVersions
        /\ versions' = [versions EXCEPT ![i] = @ + 1]
        /\ debit' = [debit EXCEPT ![i] = @ + 1]
        /\ invoice' = [invoice EXCEPT ![i].status = "issued"]
        /\ source' = [s \in Sources |-> IF s \in Lines[i] THEN "billed" ELSE source[s]]
        /\ Done(r)
        /\ UNCHANGED <<sequence, credit>>

\* A cleared payment allocated to an invoice.
record_payment(r, a) ==
    LET i == request[r].on
    IN  /\ request[r].step = "loaded"
        /\ request[r].status \notin Unissued
        /\ a <= amount_due(i, request[r].paid)
        /\ credit' = [credit EXCEPT ![i] = @ + a]
        /\ invoice' = [invoice EXCEPT ![i] =
              WithPayment(@, i, request[r].status, request[r].paid, a)]
        /\ Done(r)
        /\ UNCHANGED <<sequence, versions, debit, source>>

GetExpense(r, s) ==
    /\ Free(r)
    /\ request' = [request EXCEPT ![r] =
          [Idle EXCEPT !.step = "expense", !.on = s, !.status = source[s]]]
    /\ UNCHANGED billing

update_expense_status(r, new) ==
    /\ request[r].step = "expense"
    /\ request[r].status = "billed" => new = "billed"
    /\ source' = [source EXCEPT ![request[r].on] = Written(@, request[r].status, new)]
    /\ Done(r)
    /\ UNCHANGED <<invoice, sequence, versions, debit, credit>>

\* The request is refused (an HTTPException, a constraint) or its process dies.
Abandon(r) ==
    /\ request[r] # Idle
    /\ Done(r)
    /\ UNCHANGED billing

ReceivablesNext ==
    \E r \in Requests :
        \/ \E i \in Invoices : NextInvoiceNumber(r, i) \/ get_invoice(r, i)
        \/ \E s \in Series : create_invoice(r, s)
        \/ \E verdict \in BOOLEAN : review_invoice(r, verdict)
        \/ IssueCount(r) \/ issue_invoice(r)
        \/ \E a \in Amounts : record_payment(r, a)
        \/ \E s \in Sources : GetExpense(r, s)
        \/ \E new \in SourceStatuses : update_expense_status(r, new)
        \/ Abandon(r)
=============================================================================
