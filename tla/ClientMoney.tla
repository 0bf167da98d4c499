---------------------------- MODULE ClientMoney ----------------------------
(***************************************************************************)
(* Client money: services/client_money/service.py and ledger.py, for one   *)
(* active account and one client.  Deposits and executed transfers are     *)
(* journal entries with two lines each; balances are sums of lines.  A     *)
(* transfer is requested, decided by a second user and executed, and may   *)
(* pay an invoice of Receivables.                                          *)
(*                                                                         *)
(* The sessions are those of Receivables: a request loads, checks what it  *)
(* loaded and commits, without locks.  Here execute_transfer's reads (the  *)
(* request, the balance, the invoice) are steps of their own.              *)
(***************************************************************************)
EXTENDS Receivables

LOCAL INSTANCE FiniteSetsExt

CONSTANTS
    Transfers,                  \* client_money_transfer_requests
    Cashiers,                   \* client-money requests open at the same time
    Users,                      \* members with a finance role
    Pools,                      \* the client's matters; None: no matter given
    Pays,                       \* [Transfers -> Invoices \cup {None}]
    Pool,                       \* [Transfers -> Pools]
    Amount,                     \* [Transfers -> amounts]
    require_separate_approver,  \* of the account
    MaxDeposits                 \* bound on the deposited money

TransferStatuses == {"absent", "pending", "approved", "rejected", "executed"}

ASSUME ClientMoneyAssumption ==
    /\ Pays \in [Transfers -> Invoices \cup {None}]
    /\ Pool \in [Transfers -> Pools]
    /\ Amount \in [Transfers -> Nat \ {0}]
    /\ require_separate_approver \in BOOLEAN
    /\ MaxDeposits \in Nat
    /\ None \notin Transfers \cup Users

VARIABLES
    transfer,    \* client_money_transfer_requests: status, requester
    liability,   \* credits less debits of the client-liability lines of a pool
    deposited,   \* all deposits, so that their number is bounded
    posted,      \* fee-transfer journal entries of a transfer
    decisions,   \* "transfer.decision" audit entries: transfer, user, verdict
    cashier      \* what an open client-money request has loaded

treasury == <<transfer, liability, deposited, posted, decisions>>
vars == <<receivables, treasury, cashier>>

-----------------------------------------------------------------------------
NoTransfer == [status |-> "absent", requester |-> None]
Unused == [step |-> "idle", on |-> None, loaded |-> "absent", status |-> "absent", paid |-> 0]

Vacant == \A c \in Cashiers : cashier[c] = Unused
Available(c) == cashier[c] = Unused /\ (Overlap \/ (Vacant /\ Quiet))

Leave(c) == cashier' = [cashier EXCEPT ![c] = Unused]

SelfApproval(requester, user) == TRUE                        \* mutant: anyone may approve
independent_approval_allowed(requester, user) ==
    require_separate_approver => requester # user

\* posting_lines: an entry moves the client liability and the bank control by
\* the same amount, so the lines of either give the balance.
Post(p, a) == liability' = [liability EXCEPT ![p] = @ + a]

\* The sum of a matter's lines, or of all the client's lines if no matter is given.
WholeBalance(p) == MapThenSumSet(LAMBDA q : liability[q], Pools)
                                                             \* mutant: matters not told apart
client_balance(p) ==
    IF p = None THEN MapThenSumSet(LAMBDA q : liability[q], Pools) ELSE liability[p]

\* The checks of an invoice that a transfer is to pay.
Payable(t, status, paid) ==
    /\ status \in {"issued", "partially_paid"}
    /\ Amount[t] <= amount_due(Pays[t], paid)

Init ==
    /\ ReceivablesInit
    /\ transfer = [t \in Transfers |-> NoTransfer]
    /\ liability = [p \in Pools |-> 0]
    /\ deposited = 0
    /\ posted = [t \in Transfers |-> 0]
    /\ decisions = {}
    /\ cashier = [c \in Cashiers |-> Unused]

-----------------------------------------------------------------------------
post_deposit(p, a) ==
    /\ deposited + a <= MaxDeposits
    /\ deposited' = deposited + a
    /\ Post(p, a)
    /\ UNCHANGED <<receivables, transfer, posted, decisions, cashier>>

\* What it checks is checked again when the transfer is executed.
create_transfer_request(t, u) ==
    /\ transfer[t].status = "absent"
    /\ client_balance(Pool[t]) >= Amount[t]
    /\ Pays[t] # None => Payable(t, invoice[Pays[t]].status, invoice[Pays[t]].paid)
    /\ transfer' = [transfer EXCEPT ![t] = [status |-> "pending", requester |-> u]]
    /\ UNCHANGED <<receivables, liability, deposited, posted, decisions, cashier>>

\* decide_transfer and execute_transfer begin with the request row.
GetTransfer(c, t) ==
    /\ Available(c)
    /\ transfer[t].status # "absent"
    /\ cashier' = [cashier EXCEPT ![c] =
          [Unused EXCEPT !.step = "loaded", !.on = t, !.loaded = transfer[t].status]]
    /\ UNCHANGED <<receivables, treasury>>

decide_transfer(c, u, approve) ==
    LET t == cashier[c].on
    IN  /\ cashier[c].step = "loaded"
        /\ cashier[c].loaded = "pending"
        /\ approve => independent_approval_allowed(transfer[t].requester, u)
        /\ transfer' = [transfer EXCEPT ![t].status =
                          IF approve THEN "approved" ELSE "rejected"]
        /\ decisions' = decisions \cup {<<t, u, approve>>}
        /\ Leave(c)
        /\ UNCHANGED <<receivables, liability, deposited, posted>>

\* Mutant: an executed request is executed again.
ExecuteFinished(c) ==
    /\ cashier[c].step = "loaded"
    /\ cashier[c].loaded \in {"approved", "executed"}
    /\ client_balance(Pool[cashier[c].on]) >= Amount[cashier[c].on]
    /\ cashier' = [cashier EXCEPT ![c].step = "covered"]
    /\ UNCHANGED <<receivables, treasury>>

ExecuteCovered(c) ==
    /\ cashier[c].step = "loaded"
    /\ cashier[c].loaded = "approved"
    /\ client_balance(Pool[cashier[c].on]) >= Amount[cashier[c].on]
    /\ cashier' = [cashier EXCEPT ![c].step = "covered"]
    /\ UNCHANGED <<receivables, treasury>>

ExecuteInvoice(c) ==
    LET t == cashier[c].on
        i == Pays[t]
    IN  /\ cashier[c].step = "covered"
        /\ i # None
        /\ Payable(t, invoice[i].status, invoice[i].paid)
        /\ cashier' = [cashier EXCEPT ![c].step = "payable", ![c].status = invoice[i].status,
                                      ![c].paid = invoice[i].paid]
        /\ UNCHANGED <<receivables, treasury>>

execute_transfer(c) ==
    LET t == cashier[c].on
        i == Pays[t]
    IN  /\ cashier[c].step \in {"covered", "payable"}
        /\ cashier[c].step = "payable" \/ i = None
        /\ Post(Pool[t], -Amount[t])
        /\ posted' = [posted EXCEPT ![t] = @ + 1]
        /\ transfer' = [transfer EXCEPT ![t].status = "executed"]
        /\ IF i = None THEN UNCHANGED <<invoice, credit>>
           ELSE /\ credit' = [credit EXCEPT ![i] = @ + Amount[t]]
                /\ invoice' = [invoice EXCEPT ![i] =
                      WithPayment(@, i, cashier[c].status, cashier[c].paid, Amount[t])]
        /\ Leave(c)
        /\ UNCHANGED <<sequence, versions, debit, source, request, deposited, decisions>>

Refuse(c) ==
    /\ cashier[c] # Unused
    /\ Leave(c)
    /\ UNCHANGED <<receivables, treasury>>

-----------------------------------------------------------------------------
Billing == (Overlap \/ Vacant) /\ ReceivablesNext /\ UNCHANGED <<treasury, cashier>>

Treasury ==
    \/ \E p \in Pools, a \in Amounts : post_deposit(p, a)
    \/ \E t \in Transfers, u \in Users : create_transfer_request(t, u)
    \/ \E c \in Cashiers :
          \/ \E t \in Transfers : GetTransfer(c, t)
          \/ \E u \in Users, approve \in BOOLEAN : decide_transfer(c, u, approve)
          \/ ExecuteCovered(c) \/ ExecuteInvoice(c) \/ execute_transfer(c) \/ Refuse(c)

Next == Billing \/ Treasury

Spec == Init /\ [][Next]_vars

-----------------------------------------------------------------------------
(* Properties.                                                             *)

InvoiceRow == [status : InvoiceStatuses, number : {None} \cup (Series \X Nat),
               reviewed : BOOLEAN, paid : Nat]
RequestRow == [step : {"idle", "numbering", "loaded", "counted", "expense"},
               on : Invoices \cup Sources \cup {None},
               status : InvoiceStatuses \cup SourceStatuses,
               reviewed : BOOLEAN, paid : Nat, n : Nat]
TransferRow == [status : TransferStatuses, requester : Users \cup {None}]
CashierRow == [step : {"idle", "loaded", "covered", "payable"},
               on : Transfers \cup {None}, loaded : TransferStatuses,
               status : InvoiceStatuses, paid : Nat]

\* Every variable keeps its type, and a session that loaded a row knows which.
TypeOK ==
    /\ invoice \in [Invoices -> InvoiceRow]
    /\ sequence \in Nat
    /\ versions \in [Invoices -> Nat]
    /\ debit \in [Invoices -> Nat]
    /\ credit \in [Invoices -> Nat]
    /\ source \in [Sources -> SourceStatuses]
    /\ request \in [Requests -> RequestRow]
    /\ \A r \in Requests :
          /\ request[r].step \in {"numbering", "loaded", "counted"} => request[r].on \in Invoices
          /\ request[r].step = "expense" => request[r].on \in Sources
    /\ transfer \in [Transfers -> TransferRow]
    /\ liability \in [Pools -> Int]
    /\ deposited \in Nat
    /\ posted \in [Transfers -> Nat]
    /\ decisions \subseteq Transfers \X Users \X BOOLEAN
    /\ cashier \in [Cashiers -> CashierRow]
    /\ \A c \in Cashiers : cashier[c].step # "idle" => cashier[c].on \in Transfers

\* However requests overlap, an invoice never shows more paid than its total or
\* than its ledger credits: an update may be lost, but never invented.
PaidIsReceived ==
    \A i \in Invoices : invoice[i].paid <= Total[i] /\ invoice[i].paid <= credit[i]

\* An invoice that shows "paid" was paid in full, whatever request overwrote
\* the amount in between.
PaidInFull == \A i \in Invoices : invoice[i].status = "paid" => credit[i] >= Total[i]

\* Four eyes: client money leaves the account for a transfer only after somebody
\* other than its requester approved it.
IndependentlyApproved ==
    require_separate_approver =>
        \A t \in Transfers : posted[t] > 0 =>
            \E u \in Users : u # transfer[t].requester /\ <<t, u, TRUE>> \in decisions

\* The number the profile hands out next is free in every series: otherwise
\* every later invoice of that series would be refused.
NextNumberFree == \A s \in Series : <<s, sequence>> \notin Numbers

\* One request at a time: the invoice, its snapshots and the client's ledger
\* tell the same story.
LedgerAgrees ==
    \A i \in Invoices :
        /\ credit[i] = invoice[i].paid
        /\ debit[i] = (IF invoice[i].status \in Unissued THEN 0 ELSE 1)
        /\ invoice[i].status = "paid" => invoice[i].paid = Total[i]
        /\ invoice[i].status \in Unissued \cup {"issued"} => invoice[i].paid = 0

\* One request at a time: the sources of an issued invoice stay billed.
BilledIsFinal ==
    \A i \in Invoices : invoice[i].status \notin Unissued =>
        \A s \in Lines[i] : source[s] = "billed"

\* One request at a time: a transfer is posted once, when it is executed.
PostedOnce ==
    \A t \in Transfers : posted[t] = (IF transfer[t].status = "executed" THEN 1 ELSE 0)

\* One request at a time: what is taken for a matter was there for that matter.
MatterNotOverdrawn == \A p \in Pools \ {None} : liability[p] >= 0

\* Sources are locked once invoiced: none is on two issued invoices.
SourceBilledOnce ==
    \A i, k \in Invoices :
        invoice[i].status \notin Unissued /\ invoice[k].status \notin Unissued /\ i # k
            => Lines[i] \cap Lines[k] = {}

\* The client's money covers every transfer that is executed.
NoOverdraft == client_balance(None) >= 0
=============================================================================
