---------------------------- MODULE SalesInvoices ----------------------------
(***************************************************************************)
(* Sales in a tenant's shop: invoices of one product of one branch, sold   *)
(* to one customer and collected into one treasury, with their returns,    *)
(* corrections, edits and deletions. Each operation moves four books that  *)
(* no constraint of the database ties together: the stock, the customer's  *)
(* balance, the treasury and the invoice's own paid amount                 *)
(* (inventory/services/invoice_service.py, customer_payments.py and the    *)
(* views of inventory/views_lightning).                                    *)
(*                                                                         *)
(* A handler that works under the lock of the invoice or of the customer   *)
(* is one action. A return, an edit of the payments and a deletion decide  *)
(* on an invoice they read before: they are two, with a copy in between.   *)
(* Amounts are in piastres; one price, no tax, no refundable cores, and    *)
(* one tender for each payment.                                            *)
(***************************************************************************)
EXTENDS Integers, FiniteSets, FiniteSetsExt, Functions

CONSTANTS
    Invoices,       \* sale invoices, numbered in the order of their dates
    Returns,        \* return invoices
    Clerks,         \* requests with an invoice in memory
    Price,          \* unit price
    Quantities,     \* bound: quantities sold on one invoice
    Discounts,      \* bound: discounts a clerk enters
    Tenders,        \* bound: amounts a clerk enters
    OpeningStock, OpeningBalance, OpeningTill,
    SmallDebt,      \* threshold of reconcile_small_debts
    PayNothing,     \* do clerks enter a tender for an invoice whose total is zero?
    Traffic,        \* the requests that occur
    Overlap         \* may edits and deletions overlap other requests?

VARIABLES
    stock,          \* Inventory.quantity
    balance,        \* Customer.balance
    till,           \* Treasury.balance
    invoice,        \* SaleInvoice rows that are not returns, with their line
    ret,            \* SaleInvoice rows that are returns, with their line
    takings,        \* FinancialTransaction 'in' rows: how many of each invoice and amount
    clerk           \* requests in progress, with what they read

books == <<stock, balance, till>>
vars == <<books, invoice, ret, takings, clerk>>

ASSUME SalesAssumption ==
    /\ Invoices \subseteq Nat \ {0} /\ IsFiniteSet(Invoices)
    /\ IsFiniteSet(Returns)
    /\ Price \in Nat \ {0}
    /\ Quantities \subseteq Nat \ {0} /\ IsFiniteSet(Quantities) /\ Quantities # {}
    /\ Discounts \subseteq Nat /\ Tenders \subseteq Nat /\ IsFiniteSet(Tenders)
    /\ {OpeningStock, OpeningBalance, OpeningTill, SmallDebt} \subseteq Nat
    /\ Overlap \in BOOLEAN /\ PayNothing \in BOOLEAN

-----------------------------------------------------------------------------
(* Rows                                                                    *)

\* A payment on the customer's account belongs to no invoice.
OnAccount == 0

MaxAmount == Max(Quantities) * Price
MaxPaid == Max({MaxAmount} \cup Tenders)
Amounts == 1..MaxPaid
Receipts == (Invoices \cup {OnAccount}) \X Amounts

InvoiceRow == [status : {"none", "quotation", "in_progress", "posted", "deleted"},
               qty : 0..Max(Quantities), discount : 0..MaxAmount, paid : 0..MaxPaid]
ReturnRow == [status : {"none", "quotation", "posted"}, of : Invoices \cup {OnAccount},
              qty : 0..Max(Quantities), total : 0..MaxAmount, paid : 0..MaxAmount,
              corrected : BOOLEAN]
Request == [job : {"idle", "return", "edit", "delete"}, inv : Invoices \cup {OnAccount},
            applied : BOOLEAN, qty : 0..Max(Quantities), total : 0..MaxAmount,
            due : 0..MaxAmount, discount : 0..MaxAmount]

NoInvoice == [status |-> "none", qty |-> 0, discount |-> 0, paid |-> 0]
NoReturn == [status |-> "none", of |-> OnAccount, qty |-> 0, total |-> 0, paid |-> 0,
             corrected |-> FALSE]
NoRequest == [job |-> "idle", inv |-> OnAccount, applied |-> FALSE, qty |-> 0, total |-> 0,
              due |-> 0, discount |-> 0]

SalesInit ==
    /\ stock = OpeningStock /\ balance = OpeningBalance /\ till = OpeningTill
    /\ invoice = [i \in Invoices |-> NoInvoice]
    /\ ret = [r \in Returns |-> NoReturn]
    /\ takings = [p \in Receipts |-> 0]
    /\ clerk = [c \in Clerks |-> NoRequest]

-----------------------------------------------------------------------------
(* What the rows add up to                                                 *)

Positive(n) == IF n > 0 THEN n ELSE 0
Least(a, b) == IF a <= b THEN a ELSE b

\* quantize: to the nearest piastre, ties to even.
HalfEven(n, d) ==
    LET down == n \div d  twice == 2 * (n % d)
    IN  IF twice < d \/ (twice = d /\ down % 2 = 0) THEN down ELSE down + 1

Total(i) == invoice[i].qty * Price - invoice[i].discount
Applied(i) == invoice[i].status \in {"in_progress", "posted"}
AppliedInvoices == {i \in Invoices : Applied(i)}

\* due_amount
Due(i) == Positive(Total(i) - invoice[i].paid)

ReturnsOf(i) == {r \in Returns : ret[r].status # "none" /\ ret[r].of = i}
PostedReturnsOf(i) == {r \in ReturnsOf(i) : ret[r].status = "posted"}

\* returned_credit: what posted returns took off the customer's account.
ReturnedCredit(i) ==
    SumFunction([r \in PostedReturnsOf(i) |-> Positive(ret[r].total - ret[r].paid)])

\* open_due: what is left to collect.
OpenDue(i) == Positive(Due(i) - ReturnedCredit(i))

\* Mutant: drafts of returns do not count.
ReturnedPosted(i) == SumFunction([r \in PostedReturnsOf(i) |-> ret[r].qty])

\* returned_quantities: drafts count too.
Returned(i) == SumFunction([r \in ReturnsOf(i) |-> ret[r].qty])

Refunded(i) == SumFunction([r \in ReturnsOf(i) |-> ret[r].paid])

\* The receipts of an invoice, or those on the account.
Taken(rows, i) == SumFunction([a \in Amounts |-> a * rows[<<i, a>>]])

WithReceipt(i, amount) ==
    IF amount = 0 THEN takings ELSE [takings EXCEPT ![<<i, amount>>] = @ + 1]

\* _purge_invoice_payments
WithoutReceiptsOf(i) == [p \in Receipts |-> IF p[1] = i THEN 0 ELSE takings[p]]

NewInvoices == {i \in Invoices : invoice[i].status = "none"}
IsNext(i) == i \in NewInvoices /\ \A j \in NewInvoices : i <= j
NewReturn(r) == ret[r].status = "none"

\* Edits and deletions read without a lock and write on what they read.
Unlocked == {"edit", "delete"}
Quiet == Overlap \/ \A c \in Clerks : clerk[c].job \notin Unlocked

-----------------------------------------------------------------------------
(* Selling                                                                 *)

\* _record_invoice_payments refuses more than the total, unless that is zero.
Payable(total, amount) == amount <= total \/ (total = 0 /\ PayNothing)

\* The effects of a sale whose goods leave: stock, money, what is left on account.
GoesOut(i, row) ==
    LET total == row.qty * Price - row.discount
    IN  /\ stock >= row.qty
        /\ stock' = stock - row.qty
        /\ till' = till + row.paid
        /\ balance' = balance + Positive(total - row.paid)
        /\ invoice' = [invoice EXCEPT ![i] = row]
        /\ takings' = WithReceipt(i, row.paid)

\* lightning_pos_checkout, job_card_save: sold, or taken into the workshop.
Sell(i) ==
    /\ "sell" \in Traffic /\ Quiet /\ IsNext(i)
    /\ \E q \in Quantities, d \in Discounts, paid \in Tenders, s \in {"posted", "in_progress"} :
        /\ d <= q * Price /\ Payable(q * Price - d, paid)
        /\ GoesOut(i, [status |-> s, qty |-> q, discount |-> d, paid |-> paid])
    /\ UNCHANGED <<ret, clerk>>

\* sale_invoice_deliver: the job card's stock and money were booked when it was saved.
Deliver(i) ==
    /\ "sell" \in Traffic /\ Quiet
    /\ invoice[i].status = "in_progress"
    /\ invoice' = [invoice EXCEPT ![i].status = "posted"]
    /\ UNCHANGED <<books, ret, takings, clerk>>

Quote(i) ==
    /\ "quote" \in Traffic /\ Quiet /\ IsNext(i)
    /\ \E q \in Quantities, d \in Discounts :
        /\ d <= q * Price
        /\ invoice' = [invoice EXCEPT ![i] =
                [status |-> "quotation", qty |-> q, discount |-> d, paid |-> 0]]
    /\ UNCHANGED <<books, ret, takings, clerk>>

\* execute_sale, when the admin posts a quotation; with a treasury it is paid in full.
PostQuotation(i) ==
    /\ "quote" \in Traffic /\ Quiet
    /\ invoice[i].status = "quotation"
    /\ \E paid \in {0, Total(i)} :
        GoesOut(i, [invoice[i] EXCEPT !.status = "posted", !.paid = paid])
    /\ UNCHANGED <<ret, clerk>>

\* returns_audit_correct: a line returned by mistake is sold again, once.
Correct(r, i) ==
    /\ "correct" \in Traffic /\ Quiet /\ IsNext(i)
    /\ ret[r].status = "posted" /\ ~ret[r].corrected
    /\ \E paid \in {0, ret[r].total} :
        GoesOut(i, [status |-> "posted", qty |-> ret[r].qty,
                    discount |-> ret[r].qty * Price - ret[r].total, paid |-> paid])
    /\ ret' = [ret EXCEPT ![r].corrected = TRUE]
    /\ UNCHANGED clerk

-----------------------------------------------------------------------------
(* Collecting                                                              *)

\* Mutant: the invoice's paid amount is the last payment.
PaidIsLast(i, amount, rows) == amount

\* _resync_invoice_paid: the paid amount is what the receipts add up to.
PaidAfter(i, amount, rows) == Taken(rows, i)

\* sale_invoice_pay, under the lock of the invoice: a discount on what is left, a payment, or both.
Pay(i) ==
    /\ "pay" \in Traffic /\ Quiet /\ Applied(i)
    /\ \E tender \in Tenders, cut \in Discounts :
        LET credit == ReturnedCredit(i)
            discount == Least(cut, Positive(Due(i) - credit))
            total == Total(i) - discount
            left == Positive(Positive(total - invoice[i].paid) - credit)
            amount == Least(tender, left)
            rows == WithReceipt(i, amount)
            paid == IF amount = 0 THEN invoice[i].paid ELSE PaidAfter(i, amount, rows)
        IN  /\ amount + discount > 0
            /\ invoice' = [invoice EXCEPT ![i].discount = @ + discount, ![i].paid = paid]
            /\ takings' = rows
            /\ till' = till + amount
            /\ balance' = balance + Positive(total - paid) - Due(i)
    /\ UNCHANGED <<stock, ret, clerk>>

\* What each invoice gets of an amount, the oldest first (open_invoices).
OpenBefore(i) == SumFunction([j \in {k \in AppliedInvoices : k < i} |-> OpenDue(j)])
OpenInAll == SumFunction([j \in AppliedInvoices |-> OpenDue(j)])

\* Mutant: what older invoices took of the amount is offered again.
PartAgain(i, amount) == IF Applied(i) THEN Least(OpenDue(i), amount) ELSE 0

Part(i, amount) == IF Applied(i) THEN Least(OpenDue(i), Positive(amount - OpenBefore(i))) ELSE 0

\* collect, under the locks of the customer and of the customer's invoices.
Collect ==
    /\ "collect" \in Traffic /\ Quiet
    /\ \E amount \in Tenders :
        LET left == Positive(amount - OpenInAll)
        IN  /\ amount > 0 /\ amount <= balance
            /\ invoice' = [i \in Invoices |->
                    [invoice[i] EXCEPT !.paid = @ + Part(i, amount)]]
            /\ takings' = [p \in Receipts |->
                    takings[p] + IF p[2] = (IF p[1] = OnAccount THEN left ELSE Part(p[1], amount))
                                 THEN 1 ELSE 0]
            /\ till' = till + amount
            /\ balance' = balance - amount
    /\ UNCHANGED <<stock, ret, clerk>>

\* void_collection: a receipt is deleted and its amount owed again.
Void(i, amount) ==
    /\ "void" \in Traffic /\ Quiet
    /\ takings[<<i, amount>>] > 0 /\ till >= amount
    /\ takings' = [takings EXCEPT ![<<i, amount>>] = @ - 1]
    /\ till' = till - amount
    /\ balance' = balance + amount
    /\ invoice' = IF i = OnAccount THEN invoice
                  ELSE [invoice EXCEPT ![i].paid = Taken(takings', i)]
    /\ UNCHANGED <<stock, ret, clerk>>

\* reconcile_small_debts: what is left of a small debt becomes a discount.
WriteOff ==
    /\ "write_off" \in Traffic /\ Quiet
    /\ balance > 0 /\ balance <= SmallDebt
    /\ LET written == Least(balance, OpenInAll)
       IN /\ written > 0
          /\ invoice' = [i \in Invoices |->
                    [invoice[i] EXCEPT !.discount = @ + Part(i, balance)]]
          /\ balance' = balance - written
    /\ UNCHANGED <<stock, till, ret, takings, clerk>>

-----------------------------------------------------------------------------
(* Returning                                                               *)

Begin(c, job, i) ==
    clerk' = [clerk EXCEPT ![c] =
        [job |-> job, inv |-> i, applied |-> Applied(i), qty |-> invoice[i].qty,
         total |-> Total(i), due |-> IF Applied(i) THEN Due(i) ELSE 0,
         discount |-> invoice[i].discount]]

\* A request fails and its transaction is rolled back, or its form is left.
Abandon(c) ==
    /\ clerk[c].job # "idle"
    /\ clerk' = [clerk EXCEPT ![c] = NoRequest]
    /\ UNCHANGED <<books, invoice, ret, takings>>

ReturnRead(c, i) ==
    /\ "return" \in Traffic /\ Quiet
    /\ clerk[c].job = "idle" /\ invoice[i].status = "posted"
    /\ Begin(c, "return", i)
    /\ UNCHANGED <<books, invoice, ret, takings>>

\* Mutant: what earlier returns refunded is forgotten.
RefundableAgain(i) == invoice[i].paid

\* What was paid and not yet refunded in cash.
Refundable(i) == Positive(invoice[i].paid - Refunded(i))

\* create_return_invoice, under the lock of the original: what is returned settles what is
\* still owed, and cash is given back for the rest. The discount is that of the copy.
NewReturnOf(c, q) ==
    LET i == clerk[c].inv
        value == q * Price
        share == Least(HalfEven(clerk[c].discount * value, invoice[i].qty * Price), value)
        total == value - share
        cash == Least(total - Least(total, OpenDue(i)), Refundable(i))
    IN  [status |-> "quotation", of |-> i, qty |-> q, total |-> total, paid |-> cash,
         corrected |-> FALSE]

Returnable(c, q) ==
    /\ clerk[c].job = "return"
    /\ invoice[clerk[c].inv].status = "posted"
    /\ q > 0 /\ q <= invoice[clerk[c].inv].qty - Returned(clerk[c].inv)

\* The part of a return that is not refunded in cash.
CreditOf(row) == Positive(row.total - row.paid)

\* execute_sale of a return.
ComesBack(r, row) ==
    /\ ret' = [ret EXCEPT ![r] = [row EXCEPT !.status = "posted"]]
    /\ stock' = stock + row.qty
    /\ till' = till - row.paid
    /\ balance' = balance - CreditOf(row)

\* sale_invoice_return: the return is made and posted in one transaction.
ReturnPost(c, r) ==
    /\ Quiet /\ NewReturn(r)
    /\ \E q \in 1..Max(Quantities) :
        LET row == NewReturnOf(c, q)
        IN  /\ Returnable(c, q)
            /\ row.paid <= till
            /\ ComesBack(r, row)
    /\ clerk' = [clerk EXCEPT ![c] = NoRequest]
    /\ UNCHANGED <<invoice, takings>>

\* The admin's action returns all that is left, as a draft.
ReturnDraft(c, r) ==
    /\ "draft" \in Traffic /\ Quiet /\ NewReturn(r)
    /\ LET q == invoice[clerk[c].inv].qty - Returned(clerk[c].inv)
       IN  /\ Returnable(c, q)
           /\ ret' = [ret EXCEPT ![r] = NewReturnOf(c, q)]
    /\ clerk' = [clerk EXCEPT ![c] = NoRequest]
    /\ UNCHANGED <<books, invoice, takings>>

PostDraft(r) ==
    /\ "draft" \in Traffic /\ Quiet
    /\ ret[r].status = "quotation"
    /\ ComesBack(r, ret[r])
    /\ UNCHANGED <<invoice, takings, clerk>>

-----------------------------------------------------------------------------
(* Editing the payments, deleting                                          *)

EditRead(c, i) ==
    /\ "edit" \in Traffic /\ Quiet
    /\ clerk[c].job = "idle" /\ Applied(i)
    /\ Begin(c, "edit", i)
    /\ UNCHANGED <<books, invoice, ret, takings>>

\* sale_invoice_edit: the receipts are replaced by a new one, the account by the difference.
EditWrite(c) ==
    LET i == clerk[c].inv
    IN  /\ clerk[c].job = "edit" /\ Applied(i)
        /\ \E paid \in Tenders :
            /\ Payable(clerk[c].total, paid)
            /\ takings' = [p \in Receipts |-> IF p = <<i, paid>> THEN 1 ELSE WithoutReceiptsOf(i)[p]]
            /\ till' = till + paid - Taken(takings, i)
            /\ invoice' = [invoice EXCEPT ![i].paid = paid]
            /\ balance' = balance + Positive(Total(i) - paid) - clerk[c].due
        /\ clerk' = [clerk EXCEPT ![c] = NoRequest]
        /\ UNCHANGED <<stock, ret>>

DeleteRead(c, i) ==
    /\ "delete" \in Traffic /\ Quiet
    /\ clerk[c].job = "idle"
    /\ invoice[i].status \notin {"none", "deleted"} /\ ReturnsOf(i) = {}
    /\ Begin(c, "delete", i)
    /\ UNCHANGED <<books, invoice, ret, takings>>

\* Mutant: a quotation's goods come back too.
RestockedAnyway(c, lines) == lines

\* Only the goods of an invoice that was applied come back.
Restocked(c, lines) == IF clerk[c].applied THEN lines ELSE 0

\* sale_invoice_delete. Its lines may be read before another deletion commits or after.
DeleteWrite(c) ==
    LET i == clerk[c].inv
    IN  /\ clerk[c].job = "delete"
        /\ \E lines \in {clerk[c].qty, invoice[i].qty} : stock' = stock + Restocked(c, lines)
        /\ takings' = WithoutReceiptsOf(i)
        /\ till' = till - Taken(takings, i)
        /\ balance' = balance - clerk[c].due
        /\ invoice' = [invoice EXCEPT ![i] = [NoInvoice EXCEPT !.status = "deleted"]]
        /\ ret' = [r \in Returns |-> IF ret[r].of = i THEN [ret[r] EXCEPT !.of = OnAccount] ELSE ret[r]]
        /\ clerk' = [clerk EXCEPT ![c] = NoRequest]

-----------------------------------------------------------------------------
SalesNext ==
    \/ \E i \in Invoices : Sell(i) \/ Deliver(i) \/ Quote(i) \/ PostQuotation(i) \/ Pay(i)
    \/ \E r \in Returns : PostDraft(r) \/ \E i \in Invoices : Correct(r, i)
    \/ Collect \/ WriteOff
    \/ \E i \in Invoices \cup {OnAccount}, amount \in Amounts : Void(i, amount)
    \/ \E c \in Clerks : Abandon(c) \/ EditWrite(c) \/ DeleteWrite(c)
    \/ \E c \in Clerks, i \in Invoices : ReturnRead(c, i) \/ EditRead(c, i) \/ DeleteRead(c, i)
    \/ \E c \in Clerks, r \in Returns : ReturnPost(c, r) \/ ReturnDraft(c, r)

SalesSpec == SalesInit /\ [][SalesNext]_vars

-----------------------------------------------------------------------------
(* Properties                                                              *)

PostedReturns == {r \in Returns : ret[r].status = "posted"}

\* Types of the rows and of the copies.
SalesTypeOK ==
    /\ stock \in Nat /\ balance \in Int /\ till \in Int
    /\ invoice \in [Invoices -> InvoiceRow]
    /\ ret \in [Returns -> ReturnRow]
    /\ takings \in [Receipts -> Nat]
    /\ clerk \in [Clerks -> Request]

\* What is on the shelf is what was there, less what was sold, plus what came back,
\* whatever is returned, corrected or deleted: no piece leaves or comes back twice.
StockMatchesInvoices ==
    stock = OpeningStock - SumFunction([i \in AppliedInvoices |-> invoice[i].qty])
                         + SumFunction([r \in PostedReturns |-> ret[r].qty])

\* The customer owes what is due on the invoices, less what returns credited and
\* what was paid on account: four handlers add differences to the balance, and no
\* difference is lost or counted twice.
BalanceMatchesInvoices ==
    balance = OpeningBalance + SumFunction([i \in AppliedInvoices |-> Due(i)])
                             - SumFunction([r \in PostedReturns |-> CreditOf(ret[r])])
                             - Taken(takings, OnAccount)

\* The paid amount of an invoice is what its receipts add up to, so that voiding
\* one of them, or replacing them, gives the right amount back; and the treasury
\* holds all the receipts less the cash refunded.
MoneyMatchesReceipts ==
    /\ \A i \in AppliedInvoices : invoice[i].paid = Taken(takings, i)
    /\ till = OpeningTill + SumFunction([i \in Invoices \cup {OnAccount} |-> Taken(takings, i)])
                          - SumFunction([r \in PostedReturns |-> ret[r].paid])

\* However many partial returns, drafts and clicks, no more comes back than was sold.
ReturnedWithinSold == \A i \in Invoices : Applied(i) => Returned(i) <= invoice[i].qty

\* A new return never brings the cash refunded over what the customer paid.
RefundsWithinPaid ==
    [][\A i \in Invoices :
        Applied(i) /\ Refunded(i)' > Refunded(i) => Refunded(i)' <= invoice[i].paid]_vars

\* customer_payments.py: "the customer's balance = what is left on the invoices, after
\* the returns, less what was collected on account".
\* It fails: a return made before a discount was credited at the full price, and what
\* it credits too much appears as soon as the rest is returned.
BalanceIsOpenDue ==
    balance = OpeningBalance + OpenInAll - Taken(takings, OnAccount)
=============================================================================
