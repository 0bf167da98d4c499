--------------------------- MODULE FinanceProofs ----------------------------
(***************************************************************************)
(* What ClientMoney (with Receivables) guarantees for any number of        *)
(* invoices, transfers and overlapping requests.                           *)
(***************************************************************************)
EXTENDS ClientMoney, TLAPS

\* A request that has loaded nothing is a request row.
LEMMA IdleTyped == Idle \in RequestRow
BY DEF Idle, RequestRow, InvoiceStatuses

\* A cashier that has loaded nothing is a cashier row.
LEMMA UnusedTyped == Unused \in CashierRow
BY DEF Unused, CashierRow, TransferStatuses, InvoiceStatuses

\* A payment leaves an invoice row, with the payment added to what was loaded.
LEMMA PaymentTyped ==
    ASSUME NEW row \in InvoiceRow, NEW i, NEW status, NEW paid \in Nat, NEW a \in Nat
    PROVE  /\ WithPayment(row, i, status, paid, a) \in InvoiceRow
           /\ WithPayment(row, i, status, paid, a).paid = paid + a
<1> DEFINE new == IF amount_due(i, paid + a) <= 0 THEN "paid" ELSE "partially_paid"
           next == Written(row.status, status, new)
<1>1. row.status \in InvoiceStatuses
  BY DEF InvoiceRow
<1>2. new \in InvoiceStatuses
  BY DEF InvoiceStatuses
<1>3. next \in InvoiceStatuses
  BY <1>1, <1>2 DEF Written
<1>4. WithPayment(row, i, status, paid, a) = [row EXCEPT !.paid = paid + a, !.status = next]
  BY DEF WithPayment
<1>5. paid + a \in Nat
  OBVIOUS
<1> HIDE DEF next, new
<1> QED
  BY <1>3, <1>4, <1>5 DEF InvoiceRow

-----------------------------------------------------------------------------
(* Types.                                                                  *)

\* The empty tables have their types.
LEMMA TypeInit == Init => TypeOK
<1> SUFFICES ASSUME Init PROVE TypeOK
  OBVIOUS
<1>1. [i \in Invoices |-> NoInvoice] \in [Invoices -> InvoiceRow]
  BY DEF NoInvoice, InvoiceRow, InvoiceStatuses
<1>2. [t \in Transfers |-> NoTransfer] \in [Transfers -> TransferRow]
  BY DEF NoTransfer, TransferRow, TransferStatuses
<1> QED
  BY <1>1, <1>2, IdleTyped, UnusedTyped
     DEF Init, ReceivablesInit, TypeOK, SourceStatuses, Idle, Unused

\* A step of Receivables keeps the types of its own variables.
LEMMA BillingType == TypeOK /\ Billing => TypeOK'
<1> SUFFICES ASSUME TypeOK, Billing PROVE TypeOK'
  OBVIOUS
<1> USE ReceivablesAssumption
<1> PICK r \in Requests :
        \/ \E i \in Invoices : NextInvoiceNumber(r, i) \/ get_invoice(r, i)
        \/ \E s \in Series : create_invoice(r, s)
        \/ \E verdict \in BOOLEAN : review_invoice(r, verdict)
        \/ IssueCount(r) \/ issue_invoice(r)
        \/ \E a \in Amounts : record_payment(r, a)
        \/ \E s \in Sources : GetExpense(r, s)
        \/ \E new \in SourceStatuses : update_expense_status(r, new)
        \/ Abandon(r)
  BY DEF Billing, ReceivablesNext
<1>u. UNCHANGED <<transfer, liability, deposited, posted, decisions, cashier>>
  BY DEF Billing, treasury
<1>d. Done(r) => /\ request' \in [Requests -> RequestRow]
                 /\ \A q \in Requests :
                      /\ request'[q].step \in {"numbering", "loaded", "counted"}
                            => request'[q].on \in Invoices
                      /\ request'[q].step = "expense" => request'[q].on \in Sources
  BY IdleTyped DEF TypeOK, Done, Idle
<1>1. ASSUME NEW i \in Invoices, NextInvoiceNumber(r, i) PROVE TypeOK'
  <2>1. [Idle EXCEPT !.step = "numbering", !.on = i, !.n = sequence] \in RequestRow
    BY DEF TypeOK, Idle, RequestRow, InvoiceStatuses
  <2> QED
    BY <1>1, <1>u, <2>1 DEF TypeOK, NextInvoiceNumber, billing, Idle
<1>2. ASSUME NEW i \in Invoices, get_invoice(r, i) PROVE TypeOK'
  <2>1. [Idle EXCEPT !.step = "loaded", !.on = i, !.status = invoice[i].status,
                     !.reviewed = invoice[i].reviewed, !.paid = invoice[i].paid] \in RequestRow
    BY DEF TypeOK, Idle, RequestRow, InvoiceRow
  <2> QED
    BY <1>2, <1>u, <2>1 DEF TypeOK, get_invoice, billing, Idle
<1>3. ASSUME NEW s \in Series, create_invoice(r, s) PROVE TypeOK'
  <2>1. request[r].n \in Nat /\ request[r].on \in Invoices
    BY <1>3 DEF TypeOK, RequestRow, create_invoice
  <2>2. [NoInvoice EXCEPT !.status = "draft", !.number = <<s, request[r].n>>] \in InvoiceRow
    BY <2>1 DEF NoInvoice, InvoiceRow, InvoiceStatuses
  <2> DEFINE row == [NoInvoice EXCEPT !.status = "draft", !.number = <<s, request[r].n>>]
  <2>i. invoice' = [invoice EXCEPT ![request[r].on] = row] /\ sequence' = request[r].n + 1
    BY <1>3 DEF create_invoice
  <2> HIDE DEF row
  <2>3. invoice' \in [Invoices -> InvoiceRow] /\ sequence' \in Nat
    BY <2>i, <2>1, <2>2 DEF TypeOK, row
  <2> QED
    BY <1>3, <1>u, <1>d, <2>3 DEF TypeOK, create_invoice
<1>4. ASSUME NEW verdict \in BOOLEAN, review_invoice(r, verdict) PROVE TypeOK'
  <2>1. request[r].on \in Invoices
    BY <1>4 DEF TypeOK, review_invoice
  <2> DEFINE i == request[r].on
             checked == Written(invoice[i].reviewed, request[r].reviewed, verdict)
             status == Written(invoice[i].status, request[r].status,
                               IF verdict THEN "review" ELSE "draft")
             row == [invoice[i] EXCEPT !.reviewed = checked, !.status = status]
  <2>i. invoice' = [invoice EXCEPT ![i] = row]
    BY <1>4, <2>1 DEF TypeOK, review_invoice
  <2>c. checked \in BOOLEAN
    BY <2>1 DEF TypeOK, InvoiceRow, Written
  <2>s. status \in InvoiceStatuses
    BY <2>1 DEF TypeOK, InvoiceRow, InvoiceStatuses, Written
  <2> HIDE DEF checked, status
  <2>v. invoice[i] \in InvoiceRow
    BY <2>1 DEF TypeOK
  <2>r. row \in InvoiceRow
    BY <2>v, <2>c, <2>s DEF InvoiceRow
  <2>2. invoice' \in [Invoices -> InvoiceRow]
    BY <2>i, <2>r, <2>1 DEF TypeOK
  <2> QED
    BY <1>4, <1>u, <1>d, <2>2 DEF TypeOK, review_invoice
<1>5. ASSUME IssueCount(r) PROVE TypeOK'
  <2>1. request[r].on \in Invoices
    BY <1>5 DEF TypeOK, IssueCount
  <2>v. request[r] \in RequestRow /\ versions[request[r].on] \in Nat
    BY <2>1 DEF TypeOK
  <2>2. [request[r] EXCEPT !.step = "counted", !.n = versions[request[r].on]] \in RequestRow
    BY <2>v DEF RequestRow
  <2>3. request' = [request EXCEPT ![r] =
                      [request[r] EXCEPT !.step = "counted", !.n = versions[request[r].on]]]
    BY <1>5 DEF IssueCount, TypeOK
  <2> QED
    BY <1>5, <1>u, <2>1, <2>2, <2>3 DEF TypeOK, IssueCount, billing, RequestRow
<1>6. ASSUME issue_invoice(r) PROVE TypeOK'
  <2>1. request[r].on \in Invoices
    BY <1>6 DEF TypeOK, issue_invoice
  <2>2. /\ invoice' \in [Invoices -> InvoiceRow]
        /\ versions' \in [Invoices -> Nat] /\ debit' \in [Invoices -> Nat]
        /\ source' \in [Sources -> SourceStatuses]
    BY <1>6, <2>1 DEF TypeOK, issue_invoice, InvoiceRow, InvoiceStatuses, SourceStatuses
  <2> QED
    BY <1>6, <1>u, <1>d, <2>2 DEF TypeOK, issue_invoice
<1>7. ASSUME NEW a \in Amounts, record_payment(r, a) PROVE TypeOK'
  <2>1. request[r].on \in Invoices /\ request[r].paid \in Nat /\ a \in Nat
    BY <1>7 DEF TypeOK, record_payment, RequestRow
  <2>2. /\ invoice' \in [Invoices -> InvoiceRow]
        /\ credit' \in [Invoices -> Nat]
    BY <1>7, <2>1, PaymentTyped DEF TypeOK, record_payment
  <2> QED
    BY <1>7, <1>u, <1>d, <2>2 DEF TypeOK, record_payment
<1>8. ASSUME NEW s \in Sources, GetExpense(r, s) PROVE TypeOK'
  <2>1. [Idle EXCEPT !.step = "expense", !.on = s, !.status = source[s]] \in RequestRow
    BY DEF TypeOK, Idle, RequestRow
  <2> QED
    BY <1>8, <1>u, <2>1 DEF TypeOK, GetExpense, billing, Idle
<1>9. ASSUME NEW new \in SourceStatuses, update_expense_status(r, new) PROVE TypeOK'
  <2>1. source' \in [Sources -> SourceStatuses]
    BY <1>9 DEF TypeOK, update_expense_status, Written
  <2> QED
    BY <1>9, <1>u, <1>d, <2>1 DEF TypeOK, update_expense_status
<1>10. ASSUME Abandon(r) PROVE TypeOK'
  BY <1>10, <1>u, <1>d DEF TypeOK, Abandon, billing
<1> QED
  BY <1>1, <1>2, <1>3, <1>4, <1>5, <1>6, <1>7, <1>8, <1>9, <1>10

\* A step of the client-money requests keeps the types.
LEMMA TreasuryType == TypeOK /\ Treasury => TypeOK'
<1> SUFFICES ASSUME TypeOK, Treasury PROVE TypeOK'
  OBVIOUS
<1> USE ReceivablesAssumption, ClientMoneyAssumption
<1>l. ASSUME NEW c \in Cashiers, Leave(c)
      PROVE  /\ cashier' \in [Cashiers -> CashierRow]
             /\ \A d \in Cashiers : cashier'[d].step # "idle" => cashier'[d].on \in Transfers
  BY <1>l, UnusedTyped DEF TypeOK, Leave, Unused
<1>1. ASSUME NEW p \in Pools, NEW a \in Amounts, post_deposit(p, a) PROVE TypeOK'
  <2>1. deposited' \in Nat /\ liability' \in [Pools -> Int]
    BY <1>1 DEF TypeOK, post_deposit, Post
  <2> QED
    BY <1>1, <2>1 DEF TypeOK, post_deposit, receivables, billing
<1>2. ASSUME NEW t \in Transfers, NEW u \in Users, create_transfer_request(t, u) PROVE TypeOK'
  <2>1. [status |-> "pending", requester |-> u] \in TransferRow
    BY DEF TransferRow, TransferStatuses
  <2>2. transfer' \in [Transfers -> TransferRow]
    BY <1>2, <2>1 DEF TypeOK, create_transfer_request
  <2> QED
    BY <1>2, <2>2 DEF TypeOK, create_transfer_request, receivables, billing
<1>3. ASSUME NEW c \in Cashiers, NEW t \in Transfers, GetTransfer(c, t) PROVE TypeOK'
  <2>1. [Unused EXCEPT !.step = "loaded", !.on = t, !.loaded = transfer[t].status] \in CashierRow
    BY DEF TypeOK, Unused, CashierRow, TransferRow, InvoiceStatuses
  <2> QED
    BY <1>3, <2>1 DEF TypeOK, GetTransfer, receivables, billing, treasury, Unused
<1>4. ASSUME NEW c \in Cashiers, NEW u \in Users, NEW approve \in BOOLEAN,
             decide_transfer(c, u, approve)
      PROVE  TypeOK'
  <2>1. cashier[c].on \in Transfers
    BY <1>4 DEF TypeOK, decide_transfer
  <2>2. transfer' \in [Transfers -> TransferRow]
    <3> DEFINE new == IF approve THEN "approved" ELSE "rejected"
               row == [transfer[cashier[c].on] EXCEPT !.status = new]
    <3>1. transfer' = [transfer EXCEPT ![cashier[c].on] = row]
      BY <1>4, <2>1 DEF TypeOK, decide_transfer
    <3>2. new \in TransferStatuses
      BY DEF TransferStatuses
    <3> HIDE DEF new
    <3>3. transfer[cashier[c].on] \in TransferRow
      BY <2>1 DEF TypeOK
    <3>4. row \in TransferRow
      BY <3>2, <3>3 DEF TransferRow
    <3> QED
      BY <3>1, <3>4, <2>1 DEF TypeOK
  <2>3. decisions' \subseteq Transfers \X Users \X BOOLEAN
    BY <1>4, <2>1 DEF TypeOK, decide_transfer
  <2> QED
    BY <1>4, <1>l, <2>2, <2>3 DEF TypeOK, decide_transfer, receivables, billing
<1>5. ASSUME NEW c \in Cashiers, ExecuteCovered(c) PROVE TypeOK'
  <2>1. cashier[c] \in CashierRow /\ cashier[c].on \in Transfers
    BY <1>5 DEF TypeOK, ExecuteCovered
  <2>2. [cashier[c] EXCEPT !.step = "covered"] \in CashierRow
    BY <2>1 DEF CashierRow
  <2>3. cashier' = [cashier EXCEPT ![c] = [cashier[c] EXCEPT !.step = "covered"]]
    BY <1>5 DEF ExecuteCovered, TypeOK
  <2> QED
    BY <1>5, <2>1, <2>2, <2>3
       DEF TypeOK, ExecuteCovered, receivables, billing, treasury, CashierRow
<1>6. ASSUME NEW c \in Cashiers, ExecuteInvoice(c) PROVE TypeOK'
  <2> DEFINE i == Pays[cashier[c].on]
             row == [cashier[c] EXCEPT !.step = "payable", !.status = invoice[i].status,
                                       !.paid = invoice[i].paid]
  <2>1. cashier[c] \in CashierRow /\ cashier[c].on \in Transfers
    BY <1>6 DEF TypeOK, ExecuteInvoice
  <2>i. i \in Invoices
    BY <1>6, <2>1 DEF ExecuteInvoice
  <2>v. invoice[i].status \in InvoiceStatuses /\ invoice[i].paid \in Nat
    BY <2>i DEF TypeOK, InvoiceRow
  <2>2. row \in CashierRow
    BY <2>1, <2>v DEF CashierRow
  <2>3. cashier' = [cashier EXCEPT ![c] = row]
    BY <1>6 DEF ExecuteInvoice, TypeOK
  <2>o. row.on \in Transfers
    BY <2>1 DEF CashierRow
  <2>u. UNCHANGED <<receivables, treasury>>
    BY <1>6 DEF ExecuteInvoice
  <2> HIDE DEF row
  <2> QED
    BY <2>2, <2>3, <2>o, <2>u DEF TypeOK, receivables, billing, treasury
<1>7. ASSUME NEW c \in Cashiers, execute_transfer(c) PROVE TypeOK'
  <2> DEFINE t == cashier[c].on
             i == Pays[t]
  <2>1. cashier[c].paid \in Nat /\ t \in Transfers /\ Amount[t] \in Nat /\ Pool[t] \in Pools
    BY <1>7 DEF TypeOK, execute_transfer, CashierRow
  <2>2. liability' \in [Pools -> Int] /\ posted' \in [Transfers -> Nat]
    BY <1>7, <2>1 DEF TypeOK, execute_transfer, Post
  <2>3. transfer' \in [Transfers -> TransferRow]
    <3>1. transfer[t] \in TransferRow
      BY <2>1 DEF TypeOK
    <3>2. [transfer[t] EXCEPT !.status = "executed"] \in TransferRow
      BY <3>1 DEF TransferRow, TransferStatuses
    <3>3. transfer' = [transfer EXCEPT ![t] = [transfer[t] EXCEPT !.status = "executed"]]
      BY <1>7 DEF execute_transfer
    <3> QED
      BY <3>2, <3>3 DEF TypeOK
  <2>4. invoice' \in [Invoices -> InvoiceRow] /\ credit' \in [Invoices -> Nat]
    <3>1. CASE i = None
      BY <1>7, <3>1 DEF TypeOK, execute_transfer
    <3>2. CASE i # None
      <4>1. i \in Invoices /\ invoice[i] \in InvoiceRow
        BY <3>2, <2>1 DEF TypeOK
      <4>2. WithPayment(invoice[i], i, cashier[c].status, cashier[c].paid, Amount[t])
              \in InvoiceRow
        BY <4>1, <2>1, PaymentTyped
      <4> QED
        BY <1>7, <3>2, <4>1, <4>2, <2>1 DEF TypeOK, execute_transfer
    <3> QED
      BY <3>1, <3>2
  <2> QED
    BY <1>7, <1>l, <2>2, <2>3, <2>4 DEF TypeOK, execute_transfer
<1>8. ASSUME NEW c \in Cashiers, Refuse(c) PROVE TypeOK'
  BY <1>8, <1>l DEF TypeOK, Refuse, receivables, billing, treasury
<1> QED
  BY <1>1, <1>2, <1>3, <1>4, <1>5, <1>6, <1>7, <1>8 DEF Treasury

\* Every step keeps the types.
LEMMA TypeStep == TypeOK /\ [Next]_vars => TypeOK'
<1>1. TypeOK /\ UNCHANGED vars => TypeOK'
  BY DEF TypeOK, vars, receivables, billing, treasury
<1> QED
  BY <1>1, BillingType, TreasuryType DEF Next

\* Every variable keeps its type, and a request that loaded a row knows which.
THEOREM FinanceTypeCorrect == Spec => []TypeOK
BY TypeInit, TypeStep, PTL DEF Spec

-----------------------------------------------------------------------------
(* Payments.  What an open request loaded was received before it commits,  *)
(* for a credit is never taken back; the check of the amount due is made   *)
(* against the same loaded value that the payment is added to.             *)

\* What the payment checks of open requests rest on.
PaidInv ==
    /\ PaidIsReceived
    /\ PaidInFull
    /\ \A r \in Requests : request[r].step \in {"loaded", "counted"} =>
          request[r].paid <= credit[request[r].on]
    /\ \A c \in Cashiers : cashier[c].step = "payable" =>
          LET t == cashier[c].on
          IN  /\ Pays[t] \in Invoices
              /\ cashier[c].paid <= credit[Pays[t]]
              /\ Amount[t] <= amount_due(Pays[t], cashier[c].paid)

\* A payment that was checked against what it adds to, and whose base was
\* received, leaves an invoice that shows no more than was received.
LEMMA PaymentReceived ==
    ASSUME NEW i \in Invoices, NEW row \in InvoiceRow, NEW status, NEW paid \in Nat,
           NEW a \in Nat, NEW received \in Nat,
           paid <= received, a <= amount_due(i, paid),
           row.status = "paid" => received >= Total[i]
    PROVE  /\ WithPayment(row, i, status, paid, a).paid <= Total[i]
           /\ WithPayment(row, i, status, paid, a).paid <= received + a
           /\ WithPayment(row, i, status, paid, a).status = "paid" => received + a >= Total[i]
<1> DEFINE new == IF amount_due(i, paid + a) <= 0 THEN "paid" ELSE "partially_paid"
           next == Written(row.status, status, new)
<1>0. Total[i] \in Nat
  BY ReceivablesAssumption
<1>1. new = "paid" => Total[i] <= paid + a
  BY <1>0 DEF amount_due
<1>2. next = "paid" => received + a >= Total[i]
  BY <1>0, <1>1 DEF Written
<1>3. WithPayment(row, i, status, paid, a) = [row EXCEPT !.paid = paid + a, !.status = next]
  BY DEF WithPayment
<1>4. paid + a <= Total[i] /\ paid + a <= received + a
  BY <1>0 DEF amount_due
<1> HIDE DEF new, next
<1> QED
  BY <1>2, <1>3, <1>4 DEF InvoiceRow

\* Nothing is paid at first.
LEMMA PaidInit == Init => PaidInv
BY ReceivablesAssumption
   DEF Init, ReceivablesInit, PaidInv, PaidIsReceived, PaidInFull, NoInvoice, Idle, Unused

\* Whatever a request or a cashier loaded stays received while credits grow.
LEMMA LoadedStaysReceived ==
    ASSUME TypeOK, PaidInv, credit' \in [Invoices -> Nat],
           \A i \in Invoices : credit[i] <= credit'[i]
    PROVE  /\ \A r \in Requests : request[r].step \in {"loaded", "counted"} =>
                 request[r].paid <= credit'[request[r].on]
           /\ \A c \in Cashiers : cashier[c].step = "payable" =>
                 cashier[c].paid <= credit'[Pays[cashier[c].on]]
<1>1. ASSUME NEW r \in Requests, request[r].step \in {"loaded", "counted"}
      PROVE  request[r].paid <= credit'[request[r].on]
  <2>1. /\ request[r].on \in Invoices /\ request[r].paid \in Nat
        /\ request[r].paid <= credit[request[r].on]
    BY <1>1 DEF TypeOK, RequestRow, PaidInv
  <2>2. credit[request[r].on] \in Nat /\ credit'[request[r].on] \in Nat
    BY <2>1 DEF TypeOK
  <2> QED
    BY <2>1, <2>2
<1>2. ASSUME NEW c \in Cashiers, cashier[c].step = "payable"
      PROVE  cashier[c].paid <= credit'[Pays[cashier[c].on]]
  <2>1. /\ Pays[cashier[c].on] \in Invoices /\ cashier[c].paid \in Nat
        /\ cashier[c].paid <= credit[Pays[cashier[c].on]]
    BY <1>2 DEF TypeOK, CashierRow, PaidInv
  <2>2. credit[Pays[cashier[c].on]] \in Nat /\ credit'[Pays[cashier[c].on]] \in Nat
    BY <2>1 DEF TypeOK
  <2> QED
    BY <2>1, <2>2
<1> QED
  BY <1>1, <1>2

\* A step of the billing requests keeps PaidInv: only a payment adds to what
\* an invoice shows, and it adds to a value that was received.
LEMMA BillingPaid == TypeOK /\ PaidInv /\ Billing => PaidInv'
<1> SUFFICES ASSUME TypeOK, PaidInv, Billing PROVE PaidInv'
  OBVIOUS
<1> USE ReceivablesAssumption
<1> PICK r \in Requests :
        \/ \E i \in Invoices : NextInvoiceNumber(r, i) \/ get_invoice(r, i)
        \/ \E s \in Series : create_invoice(r, s)
        \/ \E verdict \in BOOLEAN : review_invoice(r, verdict)
        \/ IssueCount(r) \/ issue_invoice(r)
        \/ \E a \in Amounts : record_payment(r, a)
        \/ \E s \in Sources : GetExpense(r, s)
        \/ \E new \in SourceStatuses : update_expense_status(r, new)
        \/ Abandon(r)
  BY DEF Billing, ReceivablesNext
<1>u. UNCHANGED cashier
  BY DEF Billing
<1>t. TypeOK'
  BY BillingType
\* Only the invoice that r is about can change, and only r's own row.
<1>1. ASSUME NEW i \in Invoices, NextInvoiceNumber(r, i) PROVE PaidInv'
  BY <1>1, <1>u DEF TypeOK, PaidInv, PaidIsReceived, PaidInFull, NextInvoiceNumber, billing, Idle
<1>2. ASSUME NEW i \in Invoices, get_invoice(r, i) PROVE PaidInv'
  BY <1>2, <1>u DEF TypeOK, PaidInv, PaidIsReceived, PaidInFull, get_invoice, billing, Idle
<1>d. Done(r) => request' \in [Requests -> RequestRow]
                 /\ \A q \in Requests : request'[q] = request[q] \/ request'[q].step = "idle"
  BY IdleTyped DEF TypeOK, Done, Idle
<1>3. ASSUME NEW s \in Series, create_invoice(r, s) PROVE PaidInv'
  <2> DEFINE i == request[r].on
  <2>1. i \in Invoices
    BY <1>3 DEF TypeOK, create_invoice
  <2>2. \A k \in Invoices : k # i => invoice'[k] = invoice[k]
    BY <1>3, <2>1 DEF TypeOK, create_invoice
  <2>3. invoice'[i].paid = 0 /\ invoice'[i].status = "draft"
    BY <1>3, <2>1 DEF TypeOK, create_invoice, NoInvoice
  <2>4. UNCHANGED credit /\ Done(r)
    BY <1>3 DEF create_invoice
  <2> QED
    BY <1>u, <1>d, <2>1, <2>2, <2>3, <2>4 DEF TypeOK, PaidInv, PaidIsReceived, PaidInFull
<1>4. ASSUME NEW verdict \in BOOLEAN, review_invoice(r, verdict) PROVE PaidInv'
  <2> DEFINE i == request[r].on
  <2>1. i \in Invoices
    BY <1>4 DEF TypeOK, review_invoice
  <2>2. \A k \in Invoices : invoice'[k].paid = invoice[k].paid
    BY <1>4, <2>1 DEF TypeOK, review_invoice, InvoiceRow
  <2>3. \A k \in Invoices : invoice'[k].status = "paid" => invoice[k].status = "paid"
    BY <1>4, <2>1 DEF TypeOK, review_invoice, InvoiceRow, Written
  <2>4. UNCHANGED credit /\ Done(r)
    BY <1>4 DEF review_invoice
  <2> QED
    BY <1>u, <1>d, <2>2, <2>3, <2>4 DEF TypeOK, PaidInv, PaidIsReceived, PaidInFull
<1>5. ASSUME IssueCount(r) PROVE PaidInv'
  <2>1. \A q \in Requests : /\ request'[q].paid = request[q].paid
                            /\ request'[q].on = request[q].on
                            /\ request'[q].step # request[q].step => request[q].step = "loaded"
    BY <1>5 DEF TypeOK, IssueCount, RequestRow
  <2>2. UNCHANGED <<invoice, credit>>
    BY <1>5 DEF IssueCount, billing
  <2> QED
    BY <1>u, <2>1, <2>2 DEF PaidInv, PaidIsReceived, PaidInFull
<1>6. ASSUME issue_invoice(r) PROVE PaidInv'
  <2> DEFINE i == request[r].on
  <2>1. i \in Invoices
    BY <1>6 DEF TypeOK, issue_invoice
  <2>2. \A k \in Invoices : invoice'[k].paid = invoice[k].paid
    BY <1>6, <2>1 DEF TypeOK, issue_invoice, InvoiceRow
  <2>3. \A k \in Invoices : invoice'[k].status = "paid" => invoice[k].status = "paid"
    BY <1>6, <2>1 DEF TypeOK, issue_invoice, InvoiceRow
  <2>4. UNCHANGED credit /\ Done(r)
    BY <1>6 DEF issue_invoice
  <2> QED
    BY <1>u, <1>d, <2>2, <2>3, <2>4 DEF TypeOK, PaidInv, PaidIsReceived, PaidInFull
<1>7. ASSUME NEW a \in Amounts, record_payment(r, a) PROVE PaidInv'
  <2> DEFINE i == request[r].on
             row == WithPayment(invoice[i], i, request[r].status, request[r].paid, a)
  <2>1. /\ i \in Invoices /\ request[r].paid \in Nat /\ a \in Nat
        /\ credit[i] \in Nat /\ invoice[i] \in InvoiceRow
    BY <1>7 DEF TypeOK, record_payment, RequestRow
  <2>2. /\ invoice' = [invoice EXCEPT ![i] = row]
        /\ credit' = [credit EXCEPT ![i] = credit[i] + a]
        /\ a <= amount_due(i, request[r].paid) /\ Done(r)
    BY <1>7 DEF record_payment
  <2>3. request[r].paid <= credit[i] /\ (invoice[i].status = "paid" => credit[i] >= Total[i])
    BY <1>7, <2>1 DEF PaidInv, PaidInFull, record_payment
  <2>4. /\ row.paid <= Total[i] /\ row.paid <= credit[i] + a
        /\ row.status = "paid" => credit[i] + a >= Total[i]
    BY <2>1, <2>2, <2>3, PaymentReceived
  <2> HIDE DEF row
  <2>5. \A k \in Invoices : credit[k] <= credit'[k]
    BY <2>1, <2>2 DEF TypeOK
  <2>6. PaidIsReceived' /\ PaidInFull'
    BY <2>1, <2>2, <2>4 DEF TypeOK, PaidInv, PaidIsReceived, PaidInFull
  <2> QED
    BY <1>u, <1>d, <1>t, <2>2, <2>5, <2>6, LoadedStaysReceived DEF TypeOK, PaidInv
<1>8. ASSUME NEW s \in Sources, GetExpense(r, s) PROVE PaidInv'
  BY <1>8, <1>u DEF TypeOK, PaidInv, PaidIsReceived, PaidInFull, GetExpense, billing, Idle
<1>9. ASSUME NEW new \in SourceStatuses, update_expense_status(r, new) PROVE PaidInv'
  BY <1>9, <1>u, <1>d DEF PaidInv, PaidIsReceived, PaidInFull, update_expense_status
<1>10. ASSUME Abandon(r) PROVE PaidInv'
  BY <1>10, <1>u, <1>d DEF PaidInv, PaidIsReceived, PaidInFull, Abandon, billing
<1> QED
  BY <1>1, <1>2, <1>3, <1>4, <1>5, <1>6, <1>7, <1>8, <1>9, <1>10

\* A step of the client-money requests keeps PaidInv: an executed transfer is
\* a payment like any other.
LEMMA TreasuryPaid == TypeOK /\ PaidInv /\ Treasury => PaidInv'
<1> SUFFICES ASSUME TypeOK, PaidInv, Treasury PROVE PaidInv'
  OBVIOUS
<1> USE ReceivablesAssumption, ClientMoneyAssumption
<1>t. TypeOK'
  BY TreasuryType
<1>l. \A c \in Cashiers : Leave(c) =>
         \A d \in Cashiers : cashier'[d] = cashier[d] \/ cashier'[d].step = "idle"
  BY DEF TypeOK, Leave, Unused
\* Nothing of the invoices changes, and no cashier becomes payable.
<1>s. ASSUME UNCHANGED <<invoice, credit, request>>,
             \A d \in Cashiers : cashier'[d] = cashier[d] \/ cashier'[d].step # "payable"
      PROVE  PaidInv'
  BY <1>s DEF PaidInv, PaidIsReceived, PaidInFull
<1>1. ASSUME NEW p \in Pools, NEW a \in Amounts, post_deposit(p, a) PROVE PaidInv'
  BY <1>1, <1>s DEF post_deposit, receivables, billing
<1>2. ASSUME NEW t \in Transfers, NEW u \in Users, create_transfer_request(t, u) PROVE PaidInv'
  BY <1>2, <1>s DEF create_transfer_request, receivables, billing
<1>3. ASSUME NEW c \in Cashiers, NEW t \in Transfers, GetTransfer(c, t) PROVE PaidInv'
  BY <1>3, <1>s DEF GetTransfer, receivables, billing, TypeOK, Unused
<1>4. ASSUME NEW c \in Cashiers, NEW u \in Users, NEW approve \in BOOLEAN,
             decide_transfer(c, u, approve)
      PROVE  PaidInv'
  BY <1>4, <1>s, <1>l DEF decide_transfer, receivables, billing
<1>5. ASSUME NEW c \in Cashiers, ExecuteCovered(c) PROVE PaidInv'
  BY <1>5, <1>s DEF ExecuteCovered, receivables, billing, TypeOK, CashierRow
<1>6. ASSUME NEW c \in Cashiers, ExecuteInvoice(c) PROVE PaidInv'
  <2> DEFINE t == cashier[c].on
             i == Pays[t]
  <2>1. t \in Transfers /\ i \in Invoices /\ cashier[c] \in CashierRow
    BY <1>6 DEF TypeOK, ExecuteInvoice
  <2>2. /\ cashier'[c].on = t /\ cashier'[c].paid = invoice[i].paid
        /\ \A d \in Cashiers \ {c} : cashier'[d] = cashier[d]
    BY <1>6, <2>1 DEF TypeOK, ExecuteInvoice, CashierRow
  <2>3. invoice[i].paid <= credit[i] /\ Amount[t] <= amount_due(i, invoice[i].paid)
    BY <1>6, <2>1 DEF PaidInv, PaidIsReceived, ExecuteInvoice, Payable
  <2>4. UNCHANGED <<invoice, credit, request>>
    BY <1>6 DEF ExecuteInvoice, receivables, billing
  <2> QED
    BY <2>1, <2>2, <2>3, <2>4 DEF PaidInv, PaidIsReceived, PaidInFull, amount_due
<1>7. ASSUME NEW c \in Cashiers, execute_transfer(c) PROVE PaidInv'
  <2> DEFINE t == cashier[c].on
             i == Pays[t]
             row == WithPayment(invoice[i], i, cashier[c].status, cashier[c].paid, Amount[t])
  <2>1. t \in Transfers /\ cashier[c].paid \in Nat /\ Amount[t] \in Nat
    BY <1>7 DEF TypeOK, execute_transfer, CashierRow
  <2>l. /\ \A d \in Cashiers : cashier'[d] = cashier[d] \/ cashier'[d].step = "idle"
        /\ UNCHANGED request
    BY <1>7, <1>l DEF execute_transfer
  <2>2. CASE i = None
    BY <1>7, <2>2, <2>l, <1>s DEF execute_transfer
  <2>3. CASE i # None
    <3>1. cashier[c].step = "payable" /\ i \in Invoices
      BY <1>7, <2>1, <2>3 DEF execute_transfer
    <3>2. /\ invoice' = [invoice EXCEPT ![i] = row]
          /\ credit' = [credit EXCEPT ![i] = credit[i] + Amount[t]]
      BY <1>7, <2>3 DEF execute_transfer
    <3>3. /\ cashier[c].paid <= credit[i] /\ Amount[t] <= amount_due(i, cashier[c].paid)
          /\ invoice[i].status = "paid" => credit[i] >= Total[i]
      BY <3>1 DEF PaidInv, PaidInFull
    <3>4. credit[i] \in Nat /\ invoice[i] \in InvoiceRow
      BY <3>1 DEF TypeOK
    <3>5. /\ row.paid <= Total[i] /\ row.paid <= credit[i] + Amount[t]
          /\ row.status = "paid" => credit[i] + Amount[t] >= Total[i]
      BY <2>1, <3>1, <3>3, <3>4, PaymentReceived
    <3> HIDE DEF row, i, t
    <3>6. \A k \in Invoices : credit[k] <= credit'[k]
      BY <2>1, <3>1, <3>2, <3>4 DEF TypeOK
    <3>7. PaidIsReceived' /\ PaidInFull'
      BY <3>1, <3>2, <3>5 DEF TypeOK, PaidInv, PaidIsReceived, PaidInFull
    <3> QED
      BY <1>t, <2>l, <3>6, <3>7, LoadedStaysReceived DEF TypeOK, PaidInv, amount_due
  <2> QED
    BY <2>2, <2>3
<1>8. ASSUME NEW c \in Cashiers, Refuse(c) PROVE PaidInv'
  BY <1>8, <1>s, <1>l DEF Refuse, receivables, billing
<1> QED
  BY <1>1, <1>2, <1>3, <1>4, <1>5, <1>6, <1>7, <1>8 DEF Treasury

\* Every step keeps PaidInv.
LEMMA PaidStep == TypeOK /\ PaidInv /\ [Next]_vars => PaidInv'
<1>1. PaidInv /\ UNCHANGED vars => PaidInv'
  BY DEF PaidInv, PaidIsReceived, PaidInFull, vars, receivables, billing
<1> QED
  BY <1>1, BillingPaid, TreasuryPaid DEF Next

\* However the requests overlap, no invoice ever shows more paid than its total
\* or than the ledger received for it.
THEOREM InvoicesShowOnlyMoneyReceived == Spec => []PaidIsReceived
<1>1. PaidInv => PaidIsReceived
  BY DEF PaidInv
<1> QED
  BY <1>1, PaidInit, PaidStep, FinanceTypeCorrect, PTL DEF Spec

\* An invoice that shows "paid" was paid in full.
THEOREM PaidInvoicesArePaidInFull == Spec => []PaidInFull
<1>1. PaidInv => PaidInFull
  BY DEF PaidInv
<1> QED
  BY <1>1, PaidInit, PaidStep, FinanceTypeCorrect, PTL DEF Spec

-----------------------------------------------------------------------------
(* Four eyes.  A request that loaded an approved transfer can rely on it,  *)
(* although the row may have been decided again since: an approval by      *)
(* another user stays in the audit chain and the requester never changes.  *)

\* The transfers that someone other than their requester approved.
Vouched ==
    {t \in Transfers : \E u \in Users : u # transfer[t].requester /\ <<t, u, TRUE>> \in decisions}

\* Every approval that an open request may act on is vouched for.
ApprovalInv ==
    /\ \A t \in Transfers :
          /\ transfer[t].status = "absent" =>
                posted[t] = 0 /\ \A c \in Cashiers : cashier[c].on # t
          /\ transfer[t].status = "approved" \/ posted[t] > 0 => t \in Vouched
    /\ \A c \in Cashiers :
          /\ cashier[c].step \in {"covered", "payable"} => cashier[c].loaded = "approved"
          /\ cashier[c].loaded = "approved" => cashier[c].on \in Vouched

\* Nothing is approved at first.
LEMMA ApprovalInit == Init => ApprovalInv
<1> SUFFICES ASSUME Init PROVE ApprovalInv
  OBVIOUS
<1>1. \A t \in Transfers : transfer[t].status = "absent" /\ posted[t] = 0 /\ t # None
  BY ClientMoneyAssumption DEF Init, NoTransfer
<1>2. \A c \in Cashiers : cashier[c] = Unused
  BY DEF Init
<1> QED
  BY <1>1, <1>2 DEF ApprovalInv, Unused

\* Steps that leave the transfers alone, or make a cashier idle.
LEMMA ApprovalKept ==
    ASSUME ApprovalInv, UNCHANGED <<transfer, posted, decisions>>,
           \A c \in Cashiers : cashier'[c] = cashier[c] \/ cashier'[c] = Unused
    PROVE  ApprovalInv'
<1>1. Vouched' = Vouched
  BY DEF Vouched
<1>2. \A c \in Cashiers : /\ cashier'[c].loaded = "approved" => cashier'[c] = cashier[c]
                          /\ cashier'[c].step \in {"covered", "payable"} => cashier'[c] = cashier[c]
                          /\ cashier'[c].on = cashier[c].on \/ cashier'[c].on = None
  BY DEF Unused
<1> QED
  BY <1>1, <1>2, ClientMoneyAssumption DEF ApprovalInv

\* Every step keeps ApprovalInv: an approval names a user other than the
\* requester, and neither is ever taken back.
LEMMA ApprovalStep ==
    require_separate_approver /\ TypeOK /\ ApprovalInv /\ [Next]_vars => ApprovalInv'
<1> SUFFICES ASSUME require_separate_approver, TypeOK, ApprovalInv, [Next]_vars
             PROVE  ApprovalInv'
  OBVIOUS
<1> USE ClientMoneyAssumption
<1>l. \A c \in Cashiers : Leave(c) =>
         \A d \in Cashiers : cashier'[d] = cashier[d] \/ cashier'[d] = Unused
  BY DEF TypeOK, Leave
<1>0. CASE UNCHANGED vars \/ Billing
  <2>1. UNCHANGED <<transfer, posted, decisions, cashier>>
    BY <1>0 DEF vars, treasury, Billing
  <2> QED
    BY <2>1, ApprovalKept
<1>1. ASSUME NEW p \in Pools, NEW a \in Amounts, post_deposit(p, a) PROVE ApprovalInv'
  BY <1>1, ApprovalKept DEF post_deposit
<1>2. ASSUME NEW t \in Transfers, NEW u \in Users, create_transfer_request(t, u)
      PROVE  ApprovalInv'
  <2>1. /\ transfer[t].status = "absent" /\ transfer'[t].status = "pending"
        /\ \A s \in Transfers \ {t} : transfer'[s] = transfer[s]
        /\ UNCHANGED <<posted, decisions, cashier>>
    BY <1>2 DEF TypeOK, create_transfer_request
  <2>2. posted[t] = 0 /\ \A c \in Cashiers : cashier[c].on # t
    BY <2>1 DEF ApprovalInv
  <2>3. \A s \in Transfers \ {t} : s \in Vouched => s \in Vouched'
    BY <2>1 DEF Vouched
  <2>4. \A c \in Cashiers : cashier[c].loaded = "approved" => cashier[c].on \in Vouched'
    <3> SUFFICES ASSUME NEW c \in Cashiers, cashier[c].loaded = "approved"
                 PROVE  cashier[c].on \in Vouched'
      OBVIOUS
    <3>1. cashier[c].on \in Vouched /\ cashier[c].on # t
      BY <2>2 DEF ApprovalInv
    <3>2. cashier[c].on \in Transfers
      BY <3>1 DEF Vouched, TypeOK
    <3> QED
      BY <2>3, <3>1, <3>2
  <2> QED
    BY <2>1, <2>2, <2>3, <2>4 DEF ApprovalInv
<1>3. ASSUME NEW c \in Cashiers, NEW t \in Transfers, GetTransfer(c, t) PROVE ApprovalInv'
  <2>1. /\ cashier'[c].step = "loaded" /\ cashier'[c].on = t
        /\ cashier'[c].loaded = transfer[t].status
        /\ \A d \in Cashiers \ {c} : cashier'[d] = cashier[d]
        /\ transfer[t].status # "absent"
        /\ UNCHANGED <<transfer, posted, decisions>>
    BY <1>3 DEF TypeOK, GetTransfer, Unused, treasury
  <2>2. Vouched' = Vouched
    BY <2>1 DEF Vouched
  <2> QED
    BY <2>1, <2>2 DEF ApprovalInv
<1>4. ASSUME NEW c \in Cashiers, NEW u \in Users, NEW approve \in BOOLEAN,
             decide_transfer(c, u, approve)
      PROVE  ApprovalInv'
  <2> DEFINE t == cashier[c].on
  <2>1. t \in Transfers /\ transfer[t].status # "absent"
    BY <1>4 DEF TypeOK, decide_transfer, ApprovalInv
  <2>2. /\ \A s \in Transfers : transfer'[s].requester = transfer[s].requester
        /\ \A s \in Transfers \ {t} : transfer'[s].status = transfer[s].status
        /\ transfer'[t].status = IF approve THEN "approved" ELSE "rejected"
    BY <1>4, <2>1 DEF TypeOK, decide_transfer, TransferRow
  <2>3. /\ decisions \subseteq decisions' /\ <<t, u, approve>> \in decisions'
        /\ approve => u # transfer[t].requester
        /\ UNCHANGED posted
    BY <1>4 DEF decide_transfer, independent_approval_allowed
  <2>4. Vouched \subseteq Vouched'
    BY <2>2, <2>3 DEF Vouched
  <2>5. transfer'[t].status = "approved" => t \in Vouched'
    BY <2>1, <2>2, <2>3 DEF Vouched
  <2>6. \A d \in Cashiers : cashier'[d] = cashier[d] \/ cashier'[d] = Unused
    BY <1>4, <1>l DEF decide_transfer
  <2>7. \A s \in Transfers : transfer'[s].status = "absent" => transfer[s].status = "absent"
    BY <2>1, <2>2
  <2>8. \A s \in Transfers :
           transfer'[s].status = "approved" \/ posted'[s] > 0 => s \in Vouched'
    BY <2>2, <2>3, <2>4, <2>5 DEF ApprovalInv
  <2>9. \A d \in Cashiers : cashier'[d].loaded = "approved" => cashier'[d].on \in Vouched'
    <3> SUFFICES ASSUME NEW d \in Cashiers, cashier'[d].loaded = "approved"
                 PROVE  cashier'[d].on \in Vouched'
      OBVIOUS
    <3>1. cashier'[d] = cashier[d]
      BY <2>6 DEF Unused
    <3>2. cashier[d].on \in Vouched /\ cashier[d].on \in Transfers
      BY <3>1 DEF ApprovalInv, Vouched, TypeOK
    <3> QED
      BY <2>4, <3>1, <3>2
  <2>10. \A d \in Cashiers :
            cashier'[d].step \in {"covered", "payable"} => cashier'[d].loaded = "approved"
    BY <2>6 DEF ApprovalInv, Unused
  <2>11. \A s \in Transfers : transfer'[s].status = "absent" =>
            posted'[s] = 0 /\ \A d \in Cashiers : cashier'[d].on # s
    BY <2>3, <2>6, <2>7 DEF ApprovalInv, Unused
  <2> QED
    BY <2>8, <2>9, <2>10, <2>11 DEF ApprovalInv
<1>5. ASSUME NEW c \in Cashiers, ExecuteCovered(c) \/ ExecuteInvoice(c) PROVE ApprovalInv'
  <2>1. /\ cashier[c].loaded = "approved"
        /\ \A d \in Cashiers : cashier'[d].on = cashier[d].on
                               /\ cashier'[d].loaded = cashier[d].loaded
        /\ \A d \in Cashiers \ {c} : cashier'[d] = cashier[d]
        /\ UNCHANGED <<transfer, posted, decisions>>
    BY <1>5 DEF ExecuteCovered, ExecuteInvoice, TypeOK, CashierRow, treasury, ApprovalInv
  <2>2. Vouched' = Vouched
    BY <2>1 DEF Vouched
  <2> QED
    BY <2>1, <2>2 DEF ApprovalInv
<1>6. ASSUME NEW c \in Cashiers, execute_transfer(c) PROVE ApprovalInv'
  <2> DEFINE t == cashier[c].on
  <2>1. t \in Transfers /\ transfer[t].status # "absent" /\ t \in Vouched
    BY <1>6 DEF TypeOK, execute_transfer, ApprovalInv
  <2>2. /\ \A s \in Transfers : transfer'[s].requester = transfer[s].requester
        /\ \A s \in Transfers \ {t} : transfer'[s].status = transfer[s].status
                                      /\ posted'[s] = posted[s]
        /\ transfer'[t].status = "executed"
        /\ UNCHANGED decisions
    BY <1>6, <2>1 DEF TypeOK, execute_transfer, TransferRow
  <2>3. Vouched \subseteq Vouched'
    BY <2>2 DEF Vouched
  <2>4. \A d \in Cashiers : cashier'[d] = cashier[d] \/ cashier'[d] = Unused
    BY <1>6, <1>l DEF execute_transfer
  <2>5. \A s \in Transfers :
           transfer'[s].status = "approved" \/ posted'[s] > 0 => s \in Vouched'
    BY <2>1, <2>2, <2>3 DEF ApprovalInv
  <2>6. \A d \in Cashiers : cashier'[d].loaded = "approved" => cashier'[d].on \in Vouched'
    <3> SUFFICES ASSUME NEW d \in Cashiers, cashier'[d].loaded = "approved"
                 PROVE  cashier'[d].on \in Vouched'
      OBVIOUS
    <3>1. cashier'[d] = cashier[d]
      BY <2>4 DEF Unused
    <3>2. cashier[d].on \in Vouched /\ cashier[d].on \in Transfers
      BY <3>1 DEF ApprovalInv, Vouched, TypeOK
    <3> QED
      BY <2>3, <3>1, <3>2
  <2>7. \A d \in Cashiers :
           cashier'[d].step \in {"covered", "payable"} => cashier'[d].loaded = "approved"
    BY <2>4 DEF ApprovalInv, Unused
  <2>8. \A s \in Transfers : transfer'[s].status = "absent" =>
           posted'[s] = 0 /\ \A d \in Cashiers : cashier'[d].on # s
    BY <2>2, <2>4 DEF ApprovalInv, Unused
  <2> QED
    BY <2>5, <2>6, <2>7, <2>8 DEF ApprovalInv
<1>7. ASSUME NEW c \in Cashiers, Refuse(c) PROVE ApprovalInv'
  BY <1>7, <1>l, ApprovalKept DEF Refuse, treasury
<1> QED
  BY <1>0, <1>1, <1>2, <1>3, <1>4, <1>5, <1>6, <1>7 DEF Next, Treasury

\* Where the account requires a separate approver, client money leaves it for
\* a transfer only after a user other than the requester approved it.
THEOREM TransfersAreIndependentlyApproved == Spec => []IndependentlyApproved
<1>1. ApprovalInv => IndependentlyApproved
  BY DEF ApprovalInv, IndependentlyApproved, Vouched
<1>2. ~require_separate_approver => IndependentlyApproved
  BY DEF IndependentlyApproved
<1>3. CASE require_separate_approver
  BY <1>1, <1>3, ApprovalInit, ApprovalStep, FinanceTypeCorrect, PTL DEF Spec
<1>4. CASE ~require_separate_approver
  BY <1>2, <1>4, PTL
<1> QED
  BY <1>3, <1>4

-----------------------------------------------------------------------------
(* What ClientMoney guarantees when requests do not overlap, for any       *)
(* number of invoices, sources, transfers and users.  Then an open request *)
(* is the only one (One), so what it loaded is still so when it commits    *)
(* (Current, Covered), and every commit leaves the books as the next one   *)
(* expects them (Books).                                                   *)

One ==
    /\ Quiet \/ Vacant
    /\ \A q, r \in Requests : q # r => request[q] = Idle \/ request[r] = Idle
    /\ \A c, d \in Cashiers : c # d => cashier[c] = Unused \/ cashier[d] = Unused

\* What an open billing request has loaded.
Current(r) ==
    /\ request[r].step = "numbering" =>
          invoice[request[r].on].status = "absent" /\ request[r].n = sequence
    /\ request[r].step \in {"loaded", "counted"} =>
          /\ request[r].status = invoice[request[r].on].status
          /\ request[r].paid = invoice[request[r].on].paid
    /\ request[r].step = "counted" => request[r].status \in {"draft", "review"}
    /\ request[r].step = "expense" => request[r].status = source[request[r].on]

\* What an open client-money request has loaded and checked.
Covered(c) ==
    /\ cashier[c].step # "idle" =>
          cashier[c].loaded # "absent" /\ cashier[c].loaded = transfer[cashier[c].on].status
    /\ cashier[c].step \in {"covered", "payable"} =>
          /\ cashier[c].loaded = "approved"
          /\ Pool[cashier[c].on] # None => liability[Pool[cashier[c].on]] >= Amount[cashier[c].on]
    /\ cashier[c].step = "payable" =>
          /\ Pays[cashier[c].on] \in Invoices
          /\ cashier[c].status = invoice[Pays[cashier[c].on]].status
          /\ cashier[c].paid = invoice[Pays[cashier[c].on]].paid
          /\ Payable(cashier[c].on, cashier[c].status, cashier[c].paid)

NumbersUsed ==
    \A i \in Invoices, s \in Series, k \in Nat : invoice[i].number = <<s, k>> => k < sequence

Accounts == PostedOnce /\ MatterNotOverdrawn
Books == LedgerAgrees /\ BilledIsFinal /\ NumbersUsed
Sessions == One /\ (\A r \in Requests : Current(r)) /\ (\A c \in Cashiers : Covered(c))

IsolatedInv == TypeOK /\ Sessions /\ Books /\ Accounts

-----------------------------------------------------------------------------
\* Nothing is open, numbered or paid at first.
LEMMA IsolatedInit == Init => IsolatedInv
<1> SUFFICES ASSUME Init PROVE IsolatedInv
  OBVIOUS
<1> USE DEF Init, ReceivablesInit
<1>1. Sessions
  BY DEF Sessions, One, Quiet, Vacant, Current, Covered, Idle, Unused
<1>2. LedgerAgrees /\ BilledIsFinal
  BY DEF LedgerAgrees, BilledIsFinal, NoInvoice, Unissued
<1>3. NumbersUsed
  <2>1. ASSUME NEW s \in Series, NEW k \in Nat PROVE None # <<s, k>>
    BY ReceivablesAssumption
  <2> QED
    BY <2>1 DEF NumbersUsed, NoInvoice
<1>4. Accounts
  BY DEF Accounts, PostedOnce, MatterNotOverdrawn, NoTransfer
<1> QED
  BY <1>1, <1>2, <1>3, <1>4, TypeInit DEF IsolatedInv, Books

\* The next number is above all that were given out (NextNumberFree).
LEMMA UsedIsNotNext == TypeOK /\ NumbersUsed => NextNumberFree
<1> SUFFICES ASSUME TypeOK, NumbersUsed, NEW s \in Series, NEW i \in Invoices,
                    invoice[i].number = <<s, sequence>>
             PROVE  FALSE
  BY DEF NextNumberFree, Numbers
<1>1. sequence \in Nat
  BY DEF TypeOK
<1> QED
  BY <1>1 DEF NumbersUsed

\* The payment of an amount that is due on the row as it is.
LEMMA PaymentAgrees ==
    ASSUME NEW i \in Invoices, NEW row \in InvoiceRow, NEW a \in Nat \ {0},
           a <= amount_due(i, row.paid), row.status \notin Unissued
    PROVE  /\ WithPayment(row, i, row.status, row.paid, a).paid = row.paid + a
           /\ WithPayment(row, i, row.status, row.paid, a).status \in {"paid", "partially_paid"}
           /\ WithPayment(row, i, row.status, row.paid, a).status = "paid" => row.paid + a = Total[i]
           /\ WithPayment(row, i, row.status, row.paid, a).number = row.number
<1> DEFINE new == IF amount_due(i, row.paid + a) <= 0 THEN "paid" ELSE "partially_paid"
<1>1. Total[i] \in Nat /\ row.paid \in Nat
  BY ReceivablesAssumption DEF InvoiceRow
<1>2. new \in {"paid", "partially_paid"} /\ (new = "paid" => row.paid + a = Total[i])
  BY <1>1 DEF amount_due
<1>3. WithPayment(row, i, row.status, row.paid, a) = [row EXCEPT !.paid = row.paid + a, !.status = new]
  BY DEF WithPayment, Written
<1> HIDE DEF new
<1> QED
  BY <1>2, <1>3 DEF InvoiceRow

\* Such a payment leaves its invoice and the ledger in agreement (record_payment,
\* execute_transfer).
LEMMA PaymentBooked ==
    ASSUME TypeOK, Books, NEW i \in Invoices, NEW a \in Nat \ {0},
           a <= amount_due(i, invoice[i].paid), invoice[i].status \notin Unissued,
           invoice' = [invoice EXCEPT ![i] =
               WithPayment(invoice[i], i, invoice[i].status, invoice[i].paid, a)],
           credit' = [credit EXCEPT ![i] = credit[i] + a],
           UNCHANGED <<debit, source, sequence>>
    PROVE  Books'
<1> DEFINE row == WithPayment(invoice[i], i, invoice[i].status, invoice[i].paid, a)
<1>1. invoice[i] \in InvoiceRow /\ credit[i] \in Nat /\ Total[i] \in Nat
  BY ReceivablesAssumption DEF TypeOK
<1>2. /\ row.paid = invoice[i].paid + a
      /\ row.status \in {"paid", "partially_paid"}
      /\ row.status = "paid" => invoice[i].paid + a = Total[i]
      /\ row.number = invoice[i].number
  BY <1>1, PaymentAgrees
<1> HIDE DEF row
<1>3. invoice'[i] = row /\ \A k \in Invoices \ {i} : invoice'[k] = invoice[k] /\ credit'[k] = credit[k]
  BY DEF TypeOK, row
<1>4. credit'[i] = credit[i] + a
  BY DEF TypeOK
<1>5. LedgerAgrees'
  <2> SUFFICES ASSUME NEW k \in Invoices
               PROVE  /\ credit'[k] = invoice'[k].paid
                      /\ debit[k] = (IF invoice'[k].status \in Unissued THEN 0 ELSE 1)
                      /\ invoice'[k].status = "paid" => invoice'[k].paid = Total[k]
                      /\ invoice'[k].status \in Unissued \cup {"issued"} => invoice'[k].paid = 0
    BY DEF LedgerAgrees
  <2>1. CASE k = i
    BY <1>1, <1>2, <1>3, <1>4, <2>1 DEF Books, LedgerAgrees, Unissued
  <2>2. CASE k # i
    BY <1>3, <2>2 DEF Books, LedgerAgrees
  <2> QED
    BY <2>1, <2>2
<1>6. BilledIsFinal'
  BY <1>2, <1>3 DEF Books, BilledIsFinal
<1>7. NumbersUsed'
  BY <1>2, <1>3 DEF Books, NumbersUsed
<1> QED
  BY <1>5, <1>6, <1>7 DEF Books

-----------------------------------------------------------------------------
\* A billing request that ends was the only one.
LEMMA RequestEnds ==
    ASSUME TypeOK, One, Vacant, NEW r \in Requests, request[r] # Idle, Done(r), UNCHANGED cashier
    PROVE  Sessions'
<1>1. \A q \in Requests : request'[q] = Idle
  BY DEF TypeOK, One, Done
<1>2. \A c \in Cashiers : cashier'[c] = Unused
  BY DEF Vacant
<1>3. \A q \in Requests : Current(q)'
  BY <1>1 DEF Current, Idle
<1>4. \A c \in Cashiers : Covered(c)'
  BY <1>2 DEF Covered, Unused
<1>5. One'
  BY <1>1, <1>2 DEF One, Quiet
<1> QED
  BY <1>3, <1>4, <1>5 DEF Sessions

\* A billing request that begins is the only one.
LEMMA RequestBegins ==
    ASSUME TypeOK, Quiet, Vacant, NEW r \in Requests, NEW row,
           request' = [request EXCEPT ![r] = row], UNCHANGED <<billing, cashier>>,
           row.step = "numbering" => invoice[row.on].status = "absent" /\ row.n = sequence,
           row.step = "loaded" => row.status = invoice[row.on].status /\ row.paid = invoice[row.on].paid,
           row.step = "expense" => row.status = source[row.on],
           row.step # "counted"
    PROVE  Sessions'
<1>1. request'[r] = row /\ \A q \in Requests \ {r} : request'[q] = Idle
  BY DEF TypeOK, Quiet
<1>2. \A c \in Cashiers : cashier'[c] = Unused
  BY DEF Vacant
<1>3. UNCHANGED <<invoice, sequence, source>>
  BY DEF billing
<1>4. \A q \in Requests : Current(q)'
  BY <1>1, <1>3 DEF Current, Idle
<1> QED
  BY <1>1, <1>2, <1>4 DEF Sessions, One, Vacant, Covered, Unused

\* The books are not touched.
LEMMA BooksUntouched == Books /\ UNCHANGED billing => Books'
  BY DEF Books, LedgerAgrees, BilledIsFinal, NumbersUsed, billing

\* A billing step, alone, keeps the books and what the request loaded.
LEMMA BillingIsolated == ~Overlap /\ IsolatedInv /\ Billing => (Sessions /\ Books)'
<1> SUFFICES ASSUME ~Overlap, IsolatedInv, Billing PROVE (Sessions /\ Books)'
  OBVIOUS
<1> USE ReceivablesAssumption
<1>0. TypeOK /\ Sessions /\ One /\ Books /\ Vacant /\ UNCHANGED cashier
  BY DEF IsolatedInv, Sessions, Billing
<1> PICK r \in Requests :
        \/ \E i \in Invoices : NextInvoiceNumber(r, i) \/ get_invoice(r, i)
        \/ \E s \in Series : create_invoice(r, s)
        \/ \E verdict \in BOOLEAN : review_invoice(r, verdict)
        \/ IssueCount(r) \/ issue_invoice(r)
        \/ \E a \in Amounts : record_payment(r, a)
        \/ \E s \in Sources : GetExpense(r, s)
        \/ \E new \in SourceStatuses : update_expense_status(r, new)
        \/ Abandon(r)
  BY DEF Billing, ReceivablesNext
<1>r. request[r] \in RequestRow /\ Current(r)
  BY <1>0 DEF TypeOK, Sessions
<1>e. request[r].step # "idle" /\ Done(r) => Sessions'
  BY <1>0, RequestEnds DEF Idle
<1>1. ASSUME NEW i \in Invoices, NextInvoiceNumber(r, i) PROVE (Sessions /\ Books)'
  <2> DEFINE row == [Idle EXCEPT !.step = "numbering", !.on = i, !.n = sequence]
  <2>1. request' = [request EXCEPT ![r] = row] /\ UNCHANGED billing /\ Quiet /\ invoice[i].status = "absent"
    BY <1>1 DEF NextInvoiceNumber, Free
  <2>2. row.step = "numbering" /\ row.on = i /\ row.n = sequence
    BY DEF Idle
  <2> HIDE DEF row
  <2> QED
    BY <1>0, <2>1, <2>2, RequestBegins, BooksUntouched
<1>2. ASSUME NEW i \in Invoices, get_invoice(r, i) PROVE (Sessions /\ Books)'
  <2> DEFINE row == [Idle EXCEPT !.step = "loaded", !.on = i, !.status = invoice[i].status,
                                 !.reviewed = invoice[i].reviewed, !.paid = invoice[i].paid]
  <2>1. request' = [request EXCEPT ![r] = row] /\ UNCHANGED billing /\ Quiet
    BY <1>2 DEF get_invoice, Free
  <2>2. row.step = "loaded" /\ row.on = i /\ row.status = invoice[i].status /\ row.paid = invoice[i].paid
    BY DEF Idle
  <2> HIDE DEF row
  <2> QED
    BY <1>0, <2>1, <2>2, RequestBegins, BooksUntouched
<1>3. ASSUME NEW s \in Series, create_invoice(r, s) PROVE (Sessions /\ Books)'
  <2> DEFINE i == request[r].on
             n == request[r].n
  <2>1. i \in Invoices /\ n = sequence /\ n \in Nat /\ invoice[i].status = "absent"
    BY <1>0, <1>3, <1>r DEF create_invoice, TypeOK, Current
  <2>2. /\ invoice' = [invoice EXCEPT ![i] = [NoInvoice EXCEPT !.status = "draft", !.number = <<s, n>>]]
        /\ sequence' = n + 1 /\ UNCHANGED <<debit, credit, source>>
    BY <1>3 DEF create_invoice
  <2>3. /\ invoice'[i].status = "draft" /\ invoice'[i].paid = 0 /\ invoice'[i].number = <<s, n>>
        /\ \A k \in Invoices \ {i} : invoice'[k] = invoice[k]
    BY <1>0, <2>1, <2>2 DEF TypeOK, NoInvoice
  <2>4. LedgerAgrees'
    BY <1>0, <2>1, <2>2, <2>3 DEF Books, LedgerAgrees, Unissued
  <2>5. BilledIsFinal'
    BY <1>0, <2>1, <2>2, <2>3 DEF Books, BilledIsFinal, Unissued
  <2>6. NumbersUsed'
    <3> SUFFICES ASSUME NEW k \in Invoices, NEW x \in Series, NEW m \in Nat, invoice'[k].number = <<x, m>>
                 PROVE  m < sequence'
      BY DEF NumbersUsed
    <3>1. CASE k = i
      BY <2>1, <2>2, <2>3, <3>1
    <3>2. CASE k # i
      <4>1. m < sequence
        BY <1>0, <2>3, <3>2 DEF Books, NumbersUsed
      <4> QED
        BY <2>1, <2>2, <4>1
    <3> QED
      BY <3>1, <3>2
  <2>7. Sessions'
    BY <1>3, <1>e DEF create_invoice
  <2> QED
    BY <2>4, <2>5, <2>6, <2>7 DEF Books
<1>4. ASSUME NEW verdict \in BOOLEAN, review_invoice(r, verdict) PROVE (Sessions /\ Books)'
  <2> DEFINE i == request[r].on
  <2>1. i \in Invoices /\ request[r].status = invoice[i].status /\ invoice[i].status \in {"draft", "review"}
    BY <1>0, <1>4, <1>r DEF review_invoice, TypeOK, Current
  <2>2. UNCHANGED <<sequence, debit, credit, source>>
    BY <1>4 DEF review_invoice
  <2>3. \A k \in Invoices : invoice'[k].paid = invoice[k].paid /\ invoice'[k].number = invoice[k].number
    BY <1>0, <1>4, <2>1 DEF review_invoice, TypeOK, InvoiceRow
  <2>4. /\ invoice'[i].status \in {"draft", "review"}
        /\ \A k \in Invoices \ {i} : invoice'[k] = invoice[k]
    BY <1>0, <1>4, <2>1 DEF review_invoice, TypeOK, InvoiceRow, Written
  <2>5. LedgerAgrees'
    BY <1>0, <2>1, <2>2, <2>3, <2>4 DEF Books, LedgerAgrees, Unissued
  <2>6. BilledIsFinal'
    BY <1>0, <2>1, <2>2, <2>4 DEF Books, BilledIsFinal, Unissued
  <2>7. NumbersUsed'
    BY <1>0, <2>2, <2>3 DEF Books, NumbersUsed
  <2>8. Sessions'
    BY <1>4, <1>e DEF review_invoice
  <2> QED
    BY <2>5, <2>6, <2>7, <2>8 DEF Books
<1>5. ASSUME IssueCount(r) PROVE (Sessions /\ Books)'
  <2>1. /\ \A q \in Requests \ {r} : request'[q] = request[q]
        /\ request'[r].step = "counted" /\ request'[r].on = request[r].on
        /\ request'[r].status = request[r].status /\ request'[r].paid = request[r].paid
    BY <1>0, <1>5 DEF IssueCount, TypeOK, RequestRow
  <2>2. UNCHANGED billing /\ request[r].step = "loaded" /\ request[r].status \in {"draft", "review"}
    BY <1>5 DEF IssueCount
  <2>3. Current(r)'
    BY <1>r, <2>1, <2>2 DEF Current, billing
  <2>a. request[r] # Idle
    BY <2>2 DEF Idle
  <2>4. \A q \in Requests \ {r} : request'[q] = Idle
    BY <1>0, <2>1, <2>a DEF One
  <2>5. \A q \in Requests : Current(q)'
    BY <2>3, <2>4 DEF Current, Idle
  <2>6. One'
    BY <1>0, <2>4 DEF One, Vacant
  <2>7. \A c \in Cashiers : Covered(c)'
    BY <1>0 DEF Vacant, Covered, Unused
  <2> QED
    BY <1>0, <2>2, <2>5, <2>6, <2>7, BooksUntouched DEF Sessions
<1>6. ASSUME issue_invoice(r) PROVE (Sessions /\ Books)'
  <2> DEFINE i == request[r].on
  <2>1. i \in Invoices /\ invoice[i].status \in {"draft", "review"}
    BY <1>0, <1>6, <1>r DEF issue_invoice, TypeOK, Current
  <2>2. /\ invoice' = [invoice EXCEPT ![i].status = "issued"] /\ debit' = [debit EXCEPT ![i] = @ + 1]
        /\ source' = [s \in Sources |-> IF s \in Lines[i] THEN "billed" ELSE source[s]]
        /\ UNCHANGED <<sequence, credit>>
    BY <1>6 DEF issue_invoice
  <2>3. /\ \A k \in Invoices : invoice'[k].paid = invoice[k].paid /\ invoice'[k].number = invoice[k].number
        /\ invoice'[i].status = "issued"
        /\ \A k \in Invoices \ {i} : invoice'[k] = invoice[k]
    BY <1>0, <2>1, <2>2 DEF TypeOK, InvoiceRow
  <2>4. debit'[i] = debit[i] + 1 /\ \A k \in Invoices \ {i} : debit'[k] = debit[k]
    BY <1>0, <2>1, <2>2 DEF TypeOK
  <2>5. LedgerAgrees'
    BY <1>0, <2>1, <2>2, <2>3, <2>4 DEF Books, LedgerAgrees, Unissued
  <2>6. BilledIsFinal'
    <3> SUFFICES ASSUME NEW k \in Invoices, invoice'[k].status \notin Unissued, NEW s \in Lines[k]
                 PROVE  source'[s] = "billed"
      BY DEF BilledIsFinal
    <3>1. s \in Sources
      OBVIOUS
    <3>2. CASE k = i
      BY <2>2, <3>1, <3>2
    <3>3. CASE k # i
      BY <1>0, <2>2, <2>3, <3>1, <3>3 DEF Books, BilledIsFinal
    <3> QED
      BY <3>2, <3>3
  <2>7. NumbersUsed'
    BY <1>0, <2>2, <2>3 DEF Books, NumbersUsed
  <2>8. Sessions'
    BY <1>6, <1>e DEF issue_invoice
  <2> QED
    BY <2>5, <2>6, <2>7, <2>8 DEF Books
<1>7. ASSUME NEW a \in Amounts, record_payment(r, a) PROVE (Sessions /\ Books)'
  <2> DEFINE i == request[r].on
  <2>1. /\ i \in Invoices /\ request[r].status = invoice[i].status /\ request[r].paid = invoice[i].paid
        /\ a \in Nat \ {0}
    BY <1>0, <1>7, <1>r DEF record_payment, TypeOK, Current
  <2>2. /\ invoice' = [invoice EXCEPT ![i] = WithPayment(invoice[i], i, request[r].status, request[r].paid, a)]
        /\ credit' = [credit EXCEPT ![i] = credit[i] + a] /\ UNCHANGED <<sequence, debit, source>>
        /\ a <= amount_due(i, request[r].paid) /\ request[r].status \notin Unissued
    BY <1>7 DEF record_payment
  <2>3. Sessions'
    BY <1>7, <1>e DEF record_payment
  <2> QED
    BY <1>0, <2>1, <2>2, <2>3, PaymentBooked
<1>8. ASSUME NEW s \in Sources, GetExpense(r, s) PROVE (Sessions /\ Books)'
  <2> DEFINE row == [Idle EXCEPT !.step = "expense", !.on = s, !.status = source[s]]
  <2>1. request' = [request EXCEPT ![r] = row] /\ UNCHANGED billing /\ Quiet
    BY <1>8 DEF GetExpense, Free
  <2>2. row.step = "expense" /\ row.on = s /\ row.status = source[s]
    BY DEF Idle
  <2> HIDE DEF row
  <2> QED
    BY <1>0, <2>1, <2>2, RequestBegins, BooksUntouched
<1>9. ASSUME NEW new \in SourceStatuses, update_expense_status(r, new) PROVE (Sessions /\ Books)'
  <2> DEFINE x == request[r].on
  <2>1. x \in Sources /\ request[r].status = source[x]
    BY <1>0, <1>9, <1>r DEF update_expense_status, TypeOK, Current
  <2>2. /\ request[r].status = "billed" => new = "billed"
        /\ source' = [source EXCEPT ![x] = Written(@, request[r].status, new)]
        /\ UNCHANGED <<invoice, sequence, debit, credit>>
    BY <1>9 DEF update_expense_status
  <2>3. \A s \in Sources : source[s] = "billed" => source'[s] = "billed"
    BY <1>0, <2>1, <2>2 DEF TypeOK, Written
  <2>4. Books'
    BY <1>0, <2>2, <2>3 DEF Books, LedgerAgrees, BilledIsFinal, NumbersUsed
  <2>5. Sessions'
    BY <1>9, <1>e DEF update_expense_status
  <2> QED
    BY <2>4, <2>5
<1>10. ASSUME Abandon(r) PROVE (Sessions /\ Books)'
  BY <1>0, <1>10, RequestEnds, BooksUntouched DEF Abandon
<1> QED
  BY <1>1, <1>2, <1>3, <1>4, <1>5, <1>6, <1>7, <1>8, <1>9, <1>10

-----------------------------------------------------------------------------
\* A client-money request that ends was the only one.
LEMMA CashierEnds ==
    ASSUME TypeOK, One, NEW c \in Cashiers, cashier[c] # Unused, Leave(c), UNCHANGED request
    PROVE  Sessions'
<1>1. Quiet /\ \A d \in Cashiers : cashier'[d] = Unused
  BY DEF TypeOK, One, Leave, Vacant
<1>2. \A q \in Requests : request'[q] = Idle
  BY <1>1 DEF Quiet
<1>3. \A q \in Requests : Current(q)'
  BY <1>2 DEF Current, Idle
<1>4. \A d \in Cashiers : Covered(d)'
  BY <1>1 DEF Covered, Unused
<1>5. One'
  BY <1>1, <1>2 DEF One, Vacant
<1> QED
  BY <1>3, <1>4, <1>5 DEF Sessions

\* A client-money request that is, or becomes, the only one and writes nothing.
LEMMA CashierGoesOn ==
    ASSUME TypeOK, Quiet, NEW c \in Cashiers, UNCHANGED receivables,
           \A d \in Cashiers \ {c} : cashier'[d] = Unused,
           Covered(c)'
    PROVE  Sessions'
<1>1. \A q \in Requests : request'[q] = Idle
  BY DEF Quiet, receivables
<1>2. \A q \in Requests : Current(q)'
  BY <1>1 DEF Current, Idle
<1>3. \A d \in Cashiers : Covered(d)'
  BY DEF Covered, Unused
<1>4. One'
  BY <1>1 DEF One, Quiet
<1> QED
  BY <1>2, <1>3, <1>4 DEF Sessions

\* A client-money step, alone, keeps the books, the accounts and what is loaded.
LEMMA TreasuryIsolated == ~Overlap /\ IsolatedInv /\ Treasury => (Sessions /\ Books /\ Accounts)'
<1> SUFFICES ASSUME ~Overlap, IsolatedInv, Treasury PROVE (Sessions /\ Books /\ Accounts)'
  OBVIOUS
<1> USE ReceivablesAssumption, ClientMoneyAssumption
<1>0. TypeOK /\ Sessions /\ One /\ Books /\ Accounts
  BY DEF IsolatedInv, Sessions
<1>b. UNCHANGED receivables => Books'
  BY <1>0, BooksUntouched DEF receivables
<1>c. \A c \in Cashiers : cashier[c] # Unused => Quiet /\ \A d \in Cashiers \ {c} : cashier[d] = Unused
  BY <1>0 DEF One, Vacant
<1>e. \A c \in Cashiers : cashier[c] # Unused /\ Leave(c) /\ UNCHANGED request => Sessions'
  BY <1>0, CashierEnds
<1>k. \A c \in Cashiers : cashier[c] \in CashierRow /\ Covered(c)
  BY <1>0 DEF TypeOK, Sessions
<1>1. ASSUME NEW p \in Pools, NEW a \in Amounts, post_deposit(p, a)
      PROVE  (Sessions /\ Books /\ Accounts)'
  <2>1. UNCHANGED <<receivables, transfer, posted, cashier>> /\ liability' = [liability EXCEPT ![p] = @ + a]
    BY <1>1 DEF post_deposit, Post
  <2>2. \A q \in Pools : liability[q] \in Int /\ liability'[q] >= liability[q]
    BY <1>0, <2>1 DEF TypeOK
  <2>3. \A q \in Requests : Current(q)'
    BY <1>0, <2>1 DEF Sessions, Current, receivables, billing
  <2>4. ASSUME NEW c \in Cashiers
        PROVE  Covered(c)'
    <3>1. CASE cashier[c].step = "idle"
      BY <2>1, <3>1 DEF Covered
    <3>2. CASE cashier[c].step # "idle"
      <4>1. cashier[c].on \in Transfers
        BY <1>0, <3>2 DEF TypeOK
      <4>2. /\ Pool[cashier[c].on] \in Pools /\ Amount[cashier[c].on] \in Nat
            /\ liability'[Pool[cashier[c].on]] \in Int
        BY <1>0, <2>1, <4>1 DEF TypeOK
      <4>3. liability[Pool[cashier[c].on]] >= Amount[cashier[c].on]
               => liability'[Pool[cashier[c].on]] >= Amount[cashier[c].on]
        BY <2>2, <4>2
      <4> QED
        BY <1>k, <2>1, <4>3 DEF Covered, Payable, receivables, billing
    <3> QED
      BY <3>1, <3>2
  <2>5. One'
    BY <1>0, <2>1 DEF One, Quiet, Vacant, receivables
  <2>6. Accounts'
    <3>1. \A q \in Pools \ {None} : liability'[q] >= 0
      <4> SUFFICES ASSUME NEW q \in Pools \ {None} PROVE liability'[q] >= 0
        OBVIOUS
      <4>1. liability[q] >= 0 /\ liability'[q] \in Int
        BY <1>0, <2>1 DEF Accounts, MatterNotOverdrawn, TypeOK
      <4> QED
        BY <2>2, <4>1
    <3> QED
      BY <1>0, <2>1, <3>1 DEF Accounts, PostedOnce, MatterNotOverdrawn
  <2> QED
    BY <1>b, <2>1, <2>3, <2>4, <2>5, <2>6 DEF Sessions
<1>2. ASSUME NEW t \in Transfers, NEW u \in Users, create_transfer_request(t, u)
      PROVE  (Sessions /\ Books /\ Accounts)'
  <2>1. /\ UNCHANGED <<receivables, liability, posted, cashier>> /\ transfer[t].status = "absent"
        /\ transfer' = [transfer EXCEPT ![t] = [status |-> "pending", requester |-> u]]
    BY <1>2 DEF create_transfer_request
  <2>2. transfer'[t].status = "pending" /\ \A x \in Transfers \ {t} : transfer'[x] = transfer[x]
    BY <1>0, <2>1 DEF TypeOK
  <2>3. \A q \in Requests : Current(q)'
    BY <1>0, <2>1 DEF Sessions, Current, receivables, billing
  <2>4. ASSUME NEW c \in Cashiers
        PROVE  Covered(c)'
    <3>1. cashier[c].step # "idle" => cashier[c].on \in Transfers \ {t}
      BY <1>0, <1>k, <2>1 DEF TypeOK, Covered
    <3> QED
      BY <1>k, <2>1, <2>2, <3>1 DEF Covered, Payable, receivables, billing, CashierRow
  <2>5. One'
    BY <1>0, <2>1 DEF One, Quiet, Vacant, receivables
  <2>6. Accounts'
    BY <1>0, <2>1, <2>2 DEF Accounts, PostedOnce, MatterNotOverdrawn
  <2> QED
    BY <1>b, <2>1, <2>3, <2>4, <2>5, <2>6 DEF Sessions
<1>3. ASSUME NEW c \in Cashiers, NEW t \in Transfers, GetTransfer(c, t)
      PROVE  (Sessions /\ Books /\ Accounts)'
  <2> DEFINE row == [Unused EXCEPT !.step = "loaded", !.on = t, !.loaded = transfer[t].status]
  <2>1. /\ Vacant /\ Quiet /\ transfer[t].status # "absent" /\ UNCHANGED <<receivables, treasury>>
        /\ cashier' = [cashier EXCEPT ![c] = row]
    BY <1>3 DEF GetTransfer, Available
  <2>2. row.step = "loaded" /\ row.on = t /\ row.loaded = transfer[t].status
    BY DEF Unused
  <2> HIDE DEF row
  <2>3. cashier'[c] = row /\ \A d \in Cashiers \ {c} : cashier'[d] = Unused
    BY <1>0, <2>1 DEF TypeOK, Vacant
  <2>4. Covered(c)'
    BY <2>1, <2>2, <2>3 DEF Covered, treasury
  <2>5. Sessions'
    BY <1>0, <2>1, <2>3, <2>4, CashierGoesOn
  <2>6. Accounts'
    BY <1>0, <2>1 DEF Accounts, PostedOnce, MatterNotOverdrawn, treasury
  <2> QED
    BY <1>b, <2>1, <2>5, <2>6
<1>4. ASSUME NEW c \in Cashiers, NEW u \in Users, NEW approve \in BOOLEAN, decide_transfer(c, u, approve)
      PROVE  (Sessions /\ Books /\ Accounts)'
  <2> DEFINE t == cashier[c].on
  <2>1. t \in Transfers /\ transfer[t].status = "pending" /\ cashier[c].step = "loaded"
    BY <1>0, <1>k, <1>4 DEF decide_transfer, TypeOK, Covered
  <2>2. /\ UNCHANGED <<receivables, liability, posted>> /\ Leave(c)
        /\ transfer' = [transfer EXCEPT ![t].status = IF approve THEN "approved" ELSE "rejected"]
    BY <1>4 DEF decide_transfer
  <2>3. /\ transfer'[t].status \in {"approved", "rejected"}
        /\ \A x \in Transfers \ {t} : transfer'[x] = transfer[x]
    BY <1>0, <2>1, <2>2 DEF TypeOK, TransferRow
  <2>4. Sessions'
    BY <1>e, <2>1, <2>2 DEF Unused, receivables
  <2>5. Accounts'
    BY <1>0, <2>1, <2>2, <2>3 DEF Accounts, PostedOnce, MatterNotOverdrawn
  <2> QED
    BY <1>b, <2>2, <2>4, <2>5
<1>5. ASSUME NEW c \in Cashiers, ExecuteCovered(c)
      PROVE  (Sessions /\ Books /\ Accounts)'
  <2> DEFINE t == cashier[c].on
  <2>1. /\ cashier[c].step = "loaded" /\ cashier[c].loaded = "approved"
        /\ client_balance(Pool[t]) >= Amount[t]
        /\ cashier' = [cashier EXCEPT ![c].step = "covered"] /\ UNCHANGED <<receivables, treasury>>
    BY <1>5 DEF ExecuteCovered
  <2>2. Pool[t] # None => liability[Pool[t]] >= Amount[t]
    BY <2>1 DEF client_balance
  <2>3. /\ cashier'[c].step = "covered" /\ cashier'[c].on = t /\ cashier'[c].loaded = "approved"
        /\ \A d \in Cashiers \ {c} : cashier'[d] = cashier[d]
    BY <1>0, <2>1 DEF TypeOK, CashierRow
  <2>4. Quiet /\ \A d \in Cashiers \ {c} : cashier'[d] = Unused
    BY <1>c, <2>1, <2>3 DEF Unused
  <2>5. Covered(c)'
    BY <1>k, <2>1, <2>2, <2>3 DEF Covered, treasury
  <2>6. Sessions'
    BY <1>0, <2>1, <2>4, <2>5, CashierGoesOn
  <2>7. Accounts'
    BY <1>0, <2>1 DEF Accounts, PostedOnce, MatterNotOverdrawn, treasury
  <2> QED
    BY <1>b, <2>1, <2>6, <2>7
<1>6. ASSUME NEW c \in Cashiers, ExecuteInvoice(c)
      PROVE  (Sessions /\ Books /\ Accounts)'
  <2> DEFINE t == cashier[c].on
             i == Pays[t]
  <2>1. /\ cashier[c].step = "covered" /\ i # None /\ Payable(t, invoice[i].status, invoice[i].paid)
        /\ cashier' = [cashier EXCEPT ![c].step = "payable", ![c].status = invoice[i].status,
                                      ![c].paid = invoice[i].paid]
        /\ UNCHANGED <<receivables, treasury>>
    BY <1>6 DEF ExecuteInvoice
  <2>2. t \in Transfers /\ i \in Invoices
    BY <1>0, <2>1 DEF TypeOK
  <2>3. /\ cashier'[c].step = "payable" /\ cashier'[c].on = t /\ cashier'[c].loaded = cashier[c].loaded
        /\ cashier'[c].status = invoice[i].status /\ cashier'[c].paid = invoice[i].paid
        /\ \A d \in Cashiers \ {c} : cashier'[d] = cashier[d]
    BY <1>0, <2>1 DEF TypeOK, CashierRow
  <2>a. cashier[c] # Unused
    BY <2>1 DEF Unused
  <2>4. Quiet /\ \A d \in Cashiers \ {c} : cashier'[d] = Unused
    BY <1>c, <2>a, <2>3
  <2>5. Covered(c)'
    BY <1>k, <2>1, <2>2, <2>3 DEF Covered, Payable, treasury, receivables, billing
  <2>6. Sessions'
    BY <1>0, <2>1, <2>4, <2>5, CashierGoesOn
  <2>7. Accounts'
    BY <1>0, <2>1 DEF Accounts, PostedOnce, MatterNotOverdrawn, treasury
  <2> QED
    BY <1>b, <2>1, <2>6, <2>7
<1>7. ASSUME NEW c \in Cashiers, execute_transfer(c)
      PROVE  (Sessions /\ Books /\ Accounts)'
  <2> DEFINE t == cashier[c].on
             i == Pays[t]
             p == Pool[t]
  <2>1. /\ cashier[c].step \in {"covered", "payable"} /\ Leave(c) /\ UNCHANGED request
        /\ liability' = [liability EXCEPT ![p] = @ + (-Amount[t])]
        /\ posted' = [posted EXCEPT ![t] = @ + 1]
        /\ transfer' = [transfer EXCEPT ![t].status = "executed"]
        /\ UNCHANGED <<sequence, debit, source>>
    BY <1>7 DEF execute_transfer, Post
  <2>2. /\ t \in Transfers /\ p \in Pools /\ Amount[t] \in Nat \ {0}
        /\ transfer[t].status = "approved"
        /\ p # None => liability[p] >= Amount[t]
    BY <1>0, <1>k, <2>1 DEF TypeOK, Covered
  <2>3. Sessions'
    BY <1>e, <2>1 DEF Unused
  <2>4. PostedOnce'
    <3>1. /\ transfer'[t].status = "executed" /\ posted'[t] = posted[t] + 1
          /\ \A x \in Transfers \ {t} : transfer'[x] = transfer[x] /\ posted'[x] = posted[x]
      BY <1>0, <2>1, <2>2 DEF TypeOK, TransferRow
    <3> QED
      BY <1>0, <2>2, <3>1 DEF Accounts, PostedOnce
  <2>5. MatterNotOverdrawn'
    <3> SUFFICES ASSUME NEW q \in Pools \ {None} PROVE liability'[q] >= 0
      BY DEF MatterNotOverdrawn
    <3>1. liability[q] \in Int /\ liability[q] >= 0
      BY <1>0 DEF TypeOK, Accounts, MatterNotOverdrawn
    <3>2. liability'[q] = IF q = p THEN liability[q] - Amount[t] ELSE liability[q]
      BY <1>0, <2>1, <2>2, <3>1 DEF TypeOK
    <3> QED
      BY <2>2, <3>1, <3>2
  <2>6. Books'
    <3>1. CASE i = None
      BY <1>0, <1>7, <2>1, <3>1 DEF execute_transfer, Books, LedgerAgrees, BilledIsFinal, NumbersUsed
    <3>2. CASE i # None
      <4>1. cashier[c].step = "payable"
        BY <1>7, <3>2 DEF execute_transfer
      <4>2. /\ i \in Invoices /\ cashier[c].status = invoice[i].status /\ cashier[c].paid = invoice[i].paid
            /\ invoice[i].status \notin Unissued /\ Amount[t] <= amount_due(i, invoice[i].paid)
        BY <1>k, <4>1 DEF Covered, Payable, Unissued
      <4>3. /\ invoice' = [invoice EXCEPT ![i] =
                   WithPayment(invoice[i], i, invoice[i].status, invoice[i].paid, Amount[t])]
            /\ credit' = [credit EXCEPT ![i] = credit[i] + Amount[t]]
        BY <1>7, <3>2, <4>2 DEF execute_transfer
      <4> QED
        BY <1>0, <2>1, <2>2, <4>2, <4>3, PaymentBooked
    <3> QED
      BY <3>1, <3>2
  <2> QED
    BY <2>3, <2>4, <2>5, <2>6 DEF Accounts
<1>8. ASSUME NEW c \in Cashiers, Refuse(c)
      PROVE  (Sessions /\ Books /\ Accounts)'
  <2>1. cashier[c] # Unused /\ Leave(c) /\ UNCHANGED <<receivables, treasury>>
    BY <1>8 DEF Refuse
  <2>2. Sessions'
    BY <1>e, <2>1 DEF receivables
  <2>3. Accounts'
    BY <1>0, <2>1 DEF Accounts, PostedOnce, MatterNotOverdrawn, treasury
  <2> QED
    BY <1>b, <2>1, <2>2, <2>3
<1> QED
  BY <1>1, <1>2, <1>3, <1>4, <1>5, <1>6, <1>7, <1>8 DEF Treasury

\* When requests do not overlap, IsolatedInv is inductive.
LEMMA IsolatedStep == ~Overlap /\ IsolatedInv /\ [Next]_vars => IsolatedInv'
<1> SUFFICES ASSUME ~Overlap, IsolatedInv, [Next]_vars PROVE IsolatedInv'
  OBVIOUS
<1>1. TypeOK'
  BY TypeStep DEF IsolatedInv
<1>2. CASE Billing
  <2>1. Accounts'
    BY <1>2 DEF IsolatedInv, Billing, treasury, Accounts, PostedOnce, MatterNotOverdrawn
  <2> QED
    BY <1>1, <1>2, <2>1, BillingIsolated DEF IsolatedInv
<1>3. CASE Treasury
  BY <1>1, <1>3, TreasuryIsolated DEF IsolatedInv
<1>4. CASE UNCHANGED vars
  <2>1. Sessions'
    BY <1>4 DEF IsolatedInv, Sessions, One, Quiet, Vacant, Current, Covered, Payable, vars, treasury,
                receivables, billing
  <2>2. Books' /\ Accounts'
    BY <1>4, BooksUntouched DEF IsolatedInv, Accounts, PostedOnce, MatterNotOverdrawn, vars, treasury,
                receivables
  <2> QED
    BY <1>1, <2>1, <2>2 DEF IsolatedInv
<1> QED
  BY <1>2, <1>3, <1>4 DEF Next

\* So it always holds.
LEMMA IsolatedAlways == ~Overlap => (Spec => []IsolatedInv)
<1> SUFFICES ASSUME ~Overlap PROVE Spec => []IsolatedInv
  OBVIOUS
<1>1. IsolatedInv /\ [Next]_vars => IsolatedInv'
  BY IsolatedStep
<1> QED
  BY <1>1, IsolatedInit, PTL DEF Spec

-----------------------------------------------------------------------------
\* One request at a time, an invoice, its snapshots and the client's ledger tell the
\* same story (record_payment, issue_invoice, execute_transfer).
THEOREM LedgerAlwaysAgrees == ~Overlap => (Spec => []LedgerAgrees)
<1> SUFFICES ASSUME ~Overlap PROVE Spec => []LedgerAgrees
  OBVIOUS
<1>1. IsolatedInv => LedgerAgrees
  BY DEF IsolatedInv, Books
<1> QED
  BY <1>1, IsolatedAlways, PTL

\* One request at a time, the sources of an issued invoice stay billed
\* (update_expense_status, issue_invoice).
THEOREM BilledStaysBilled == ~Overlap => (Spec => []BilledIsFinal)
<1> SUFFICES ASSUME ~Overlap PROVE Spec => []BilledIsFinal
  OBVIOUS
<1>1. IsolatedInv => BilledIsFinal
  BY DEF IsolatedInv, Books
<1> QED
  BY <1>1, IsolatedAlways, PTL

\* One request at a time, a transfer is posted once, when it is executed
\* (execute_transfer).
THEOREM TransfersArePostedOnce == ~Overlap => (Spec => []PostedOnce)
<1> SUFFICES ASSUME ~Overlap PROVE Spec => []PostedOnce
  OBVIOUS
<1>1. IsolatedInv => PostedOnce
  BY DEF IsolatedInv, Accounts
<1> QED
  BY <1>1, IsolatedAlways, PTL

\* One request at a time, the next invoice number is free in every series
\* (create_invoice).
THEOREM NextNumberAlwaysFree == ~Overlap => (Spec => []NextNumberFree)
<1> SUFFICES ASSUME ~Overlap PROVE Spec => []NextNumberFree
  OBVIOUS
<1>1. IsolatedInv => NextNumberFree
  BY UsedIsNotNext DEF IsolatedInv, Books
<1> QED
  BY <1>1, IsolatedAlways, PTL

\* One request at a time, what is taken for a matter was there for that matter
\* (execute_transfer, client_balance).
THEOREM MattersNotOverdrawn == ~Overlap => (Spec => []MatterNotOverdrawn)
<1> SUFFICES ASSUME ~Overlap PROVE Spec => []MatterNotOverdrawn
  OBVIOUS
<1>1. IsolatedInv => MatterNotOverdrawn
  BY DEF IsolatedInv, Accounts
<1> QED
  BY <1>1, IsolatedAlways, PTL
=============================================================================
