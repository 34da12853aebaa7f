----------------------------- MODULE SalesProofs -----------------------------
(***************************************************************************)
(* Proofs about SalesInvoices, for every set of invoices, returns and      *)
(* clerks and for all the amounts they may enter.                          *)
(*                                                                         *)
(* SalesInv is the inductive invariant of the rows: discounts within the   *)
(* price, money only on invoices that were applied, returns only of posted *)
(* ones, and a paid amount that is what the receipts add up to. It gives   *)
(* the types, and with ReturnedInv the limits on returns and refunds.      *)
(*                                                                         *)
(* For the three books, each action is shown to move a book by what it     *)
(* moves in the sums over the rows (ShelfStep, TillStep, BalanceStep). The *)
(* treasury needs no more than SalesInv; the stock needs that a request    *)
(* which edits or deletes works on a fresh copy (FreshInv); the customer's *)
(* balance needs in addition that no more was paid than the total          *)
(* (Covered).                                                              *)
(***************************************************************************)
EXTENDS SalesInvoices, Sums, TLAPS

-----------------------------------------------------------------------------
(* Bounds                                                                  *)

\* The largest quantity bounds every quantity, and its price every total.
LEMMA QuantityBound ==
    /\ Max(Quantities) \in Nat \ {0}
    /\ \A q \in Quantities : q \in Nat /\ q > 0 /\ q <= Max(Quantities)
<1>1. IsFiniteSet(Quantities) /\ Quantities \subseteq Int /\ Quantities # {}
  BY SalesAssumption DEF SalesAssumption
<1>2. \E m \in Quantities : \A y \in Quantities : m >= y
  BY <1>1, FiniteMax
<1>3. Max(Quantities) \in Quantities /\ \A y \in Quantities : Max(Quantities) >= y
  BY <1>2 DEF Max
<1>4. \A q \in Quantities : q \in Nat /\ q > 0
  BY SalesAssumption DEF SalesAssumption
<1>5. \A y \in Quantities : Max(Quantities) >= y /\ Max(Quantities) \in Nat
  BY <1>3, <1>4
<1>6. \A q \in Quantities : q \in Nat /\ q > 0 /\ q <= Max(Quantities)
  <2> TAKE q \in Quantities
  <2> HIDE DEF Max
  <2> QED BY <1>4, <1>5
<1>7. Max(Quantities) \in Nat \ {0}
  BY <1>3, <1>4
<1> QED BY <1>6, <1>7

\* A larger quantity costs no less.
LEMMA PriceOrder ==
    ASSUME NEW p \in Nat, NEW m \in Nat, NEW q \in 0..m
    PROVE  q * p \in Nat /\ m * p \in Nat /\ q * p <= m * p
<1>1. q \in Nat /\ m - q \in Nat
  OBVIOUS
<1>2. (m - q) * p \in Nat /\ m * p \in Nat /\ q * p \in Nat
  BY <1>1
<1>3. m * p = q * p + (m - q) * p
  BY <1>1
<1> QED BY <1>2, <1>3

\* A multiple is no less.
LEMMA TimesGrows == \A a, k \in Nat : k > 0 => a <= a * k
<1> TAKE a, k \in Nat
<1> HAVE k > 0
<1>1. k - 1 \in Nat
  OBVIOUS
<1>2. a * (k - 1) \in Nat
  BY <1>1
<1>3. a * k = a * (k - 1) + a
  BY <1>1
<1> QED BY <1>2, <1>3

\* The price of what fits on an invoice fits in the amounts.
LEMMA AmountBound ==
    /\ Price \in Nat \ {0} /\ MaxAmount \in Nat
    /\ \A q \in 0..Max(Quantities) : q * Price \in Nat /\ q * Price <= MaxAmount
<1>1. Price \in Nat \ {0}
  BY SalesAssumption DEF SalesAssumption
<1>2. \A q \in 0..Max(Quantities) : /\ q * Price \in Nat /\ Max(Quantities) * Price \in Nat
                                    /\ q * Price <= Max(Quantities) * Price
  BY <1>1, QuantityBound, PriceOrder
<1>3. Max(Quantities) \in 0..Max(Quantities)
  BY QuantityBound
<1> QED BY <1>1, <1>2, <1>3 DEF MaxAmount

\* A tender fits in the amounts of the receipts.
LEMMA TenderBound ==
    /\ MaxPaid \in Nat /\ MaxAmount <= MaxPaid
    /\ \A t \in Tenders : t \in 0..MaxPaid
<1> DEFINE S == {MaxAmount} \cup Tenders
<1>1. IsFiniteSet(Tenders) /\ Tenders \subseteq Nat
  BY SalesAssumption DEF SalesAssumption
<1>2. MaxAmount \in Nat
  BY AmountBound
<1>3. IsFiniteSet(S) /\ S \subseteq Int /\ S # {}
  <2>1. S = Tenders \cup {MaxAmount}
    OBVIOUS
  <2>2. IsFiniteSet(S)
    BY <1>1, <2>1, FS_AddElement
  <2> QED BY <1>1, <1>2, <2>2
<1>4. \E m \in S : \A y \in S : m >= y
  <2> HIDE DEF S
  <2> QED BY <1>3, FiniteMax
<1>5. Max(S) \in S /\ \A y \in S : Max(S) >= y
  BY <1>4 DEF Max
<1>6. S \subseteq Nat /\ MaxAmount \in S /\ Tenders \subseteq S
  BY <1>1, <1>2
<1>7. MaxPaid = Max(S)
  BY DEF MaxPaid
<1> HIDE DEF S
<1>8. \A y \in S : y \in Nat /\ MaxPaid \in Nat /\ MaxPaid >= y
  BY <1>5, <1>6, <1>7
<1>9. \A y \in S : y \in 0..MaxPaid /\ MaxPaid \in Nat /\ y <= MaxPaid
  BY <1>8
<1> QED BY <1>6, <1>9

\* Every sum of the model is over a finite set.
LEMMA RowsFinite ==
    /\ IsFiniteSet(Invoices) /\ IsFiniteSet(Returns) /\ IsFiniteSet(Amounts)
    /\ IsFiniteSet(Invoices \cup {OnAccount})
<1>1. IsFiniteSet(Invoices) /\ IsFiniteSet(Returns)
  BY SalesAssumption DEF SalesAssumption
<1>2. IsFiniteSet(Amounts)
  BY TenderBound, FS_Interval DEF Amounts
<1> QED BY <1>1, <1>2, FS_AddElement

\* No invoice has the number of the account.
LEMMA AccountApart == OnAccount \notin Invoices /\ Invoices \subseteq Nat /\ OnAccount = 0
BY SalesAssumption DEF SalesAssumption, OnAccount

\* A rounded share is not negative.
LEMMA ShareNat == \A n, d \in Nat : d > 0 => HalfEven(n, d) \in Nat
<1> TAKE n, d \in Nat
<1> HAVE d > 0
<1>1. n \div d \in Nat
  OBVIOUS
<1> QED BY <1>1 DEF HalfEven

-----------------------------------------------------------------------------
(* What the receipts of an invoice add up to                               *)

Accounts == Invoices \cup {OnAccount}

\* The receipts are those of the accounts, for the amounts.
LEMMA ReceiptIn == \A i \in Accounts : \A a \in Amounts : <<i, a>> \in Receipts /\ a \in Nat
BY TenderBound DEF Accounts, Receipts, Amounts

\* The receipts of an account add up to a natural number.
LEMMA TakenNat ==
    ASSUME NEW rows \in [Receipts -> Nat], NEW i \in Accounts
    PROVE  Taken(rows, i) \in Nat
<1> DEFINE f == [a \in Amounts |-> a * rows[<<i, a>>]]
<1>1. \A a \in Amounts : f[a] \in Nat
  BY ReceiptIn
<1>2. Taken(rows, i) = SumFunctionOnSet(f, Amounts)
  BY DEF Taken, SumFunction
<1> HIDE DEF f
<1> QED BY <1>1, <1>2, SumAtLeast, RowsFinite

\* One of the receipts is no more than all of them.
LEMMA TakenHolds ==
    ASSUME NEW rows \in [Receipts -> Nat], NEW i \in Accounts, NEW a \in Amounts,
           rows[<<i, a>>] > 0
    PROVE  a <= Taken(rows, i)
<1> DEFINE f == [b \in Amounts |-> b * rows[<<i, b>>]]
<1>1. \A b \in Amounts : f[b] \in Nat
  BY ReceiptIn
<1>2. Taken(rows, i) = SumFunctionOnSet(f, Amounts)
  BY DEF Taken, SumFunction
<1>3. f[a] \in Nat /\ a <= f[a]
  <2>1. a \in Nat /\ rows[<<i, a>>] \in Nat
    BY ReceiptIn
  <2>2. a <= a * rows[<<i, a>>]
    BY <2>1, TimesGrows
  <2> QED BY <1>1, <2>2
<1> HIDE DEF f
<1>4. /\ SumFunctionOnSet(f, Amounts) \in Nat
      /\ \A b \in Amounts : f[b] <= SumFunctionOnSet(f, Amounts)
  BY <1>1, SumAtLeast, RowsFinite
<1>5. a \in Nat
  BY ReceiptIn
<1> QED BY <1>2, <1>3, <1>4, <1>5

\* Equal receipts, equal takings.
LEMMA TakenSame ==
    ASSUME NEW rows \in [Receipts -> Nat], NEW new \in [Receipts -> Nat], NEW i \in Accounts,
           \A a \in Amounts : new[<<i, a>>] = rows[<<i, a>>]
    PROVE  Taken(new, i) = Taken(rows, i)
BY DEF Taken

\* The takings change by what changes in the receipts of one amount.
LEMMA TakenWrite ==
    ASSUME NEW rows \in [Receipts -> Nat], NEW new \in [Receipts -> Nat], NEW i \in Accounts,
           NEW x \in Amounts, \A a \in Amounts \ {x} : new[<<i, a>>] = rows[<<i, a>>]
    PROVE  Taken(new, i) = Taken(rows, i) + x * new[<<i, x>>] - x * rows[<<i, x>>]
<1> DEFINE f == [a \in Amounts |-> a * rows[<<i, a>>]]
           g == [a \in Amounts |-> a * new[<<i, a>>]]
<1>1. f \in [Amounts -> Int] /\ g \in [Amounts -> Int]
  BY ReceiptIn
<1>2. \A a \in Amounts \ {x} : g[a] = f[a]
  OBVIOUS
<1>3. f[x] = x * rows[<<i, x>>] /\ g[x] = x * new[<<i, x>>]
  OBVIOUS
<1>4. Taken(rows, i) = SumFunctionOnSet(f, Amounts) /\ Taken(new, i) = SumFunctionOnSet(g, Amounts)
  BY DEF Taken, SumFunction
<1> HIDE DEF f, g
<1>5. g = [f EXCEPT ![x] = g[x]]
  BY <1>1, <1>2
<1>6. SumFunctionOnSet(g, Amounts) = SumFunctionOnSet(f, Amounts) + g[x] - f[x]
  BY <1>1, <1>5, SumWrite, RowsFinite
<1> QED BY <1>3, <1>4, <1>6

\* One more receipt of n; of 0 there is none.
LEMMA TakenGrows ==
    ASSUME NEW rows \in [Receipts -> Nat], NEW new \in [Receipts -> Nat], NEW i \in Accounts,
           NEW n \in 0..MaxPaid,
           \A a \in Amounts : new[<<i, a>>] = rows[<<i, a>>] + (IF a = n THEN 1 ELSE 0)
    PROVE  Taken(new, i) = Taken(rows, i) + n
<1>1. CASE n = 0
  <2>1. \A a \in Amounts : new[<<i, a>>] = rows[<<i, a>>]
    BY <1>1, ReceiptIn DEF Amounts
  <2> QED BY <1>1, <2>1, TakenSame, TakenNat
<1>2. CASE n # 0
  <2>1. n \in Amounts
    BY <1>2, TenderBound DEF Amounts
  <2>2. \A a \in Amounts \ {n} : new[<<i, a>>] = rows[<<i, a>>]
    BY ReceiptIn
  <2>3. Taken(new, i) = Taken(rows, i) + n * new[<<i, n>>] - n * rows[<<i, n>>]
    BY <2>1, <2>2, TakenWrite
  <2>4. n * new[<<i, n>>] = n * rows[<<i, n>>] + n
    <3>1. new[<<i, n>>] = rows[<<i, n>>] + 1 /\ n \in Nat /\ rows[<<i, n>>] \in Nat
      BY <2>1, ReceiptIn
    <3>2. n * (rows[<<i, n>>] + 1) = n * rows[<<i, n>>] + n
      BY <3>1
    <3> QED BY <3>1, <3>2
  <2>5. n * rows[<<i, n>>] \in Nat
    BY <2>1, ReceiptIn
  <2> QED BY <2>3, <2>4, <2>5, TakenNat
<1> QED BY <1>1, <1>2

\* Without receipts nothing is taken.
LEMMA TakenNone ==
    ASSUME NEW rows \in [Receipts -> Nat], NEW i \in Accounts,
           \A a \in Amounts : rows[<<i, a>>] = 0
    PROVE  Taken(rows, i) = 0
<1> DEFINE f == [a \in Amounts |-> a * rows[<<i, a>>]]
<1>1. \A a \in Amounts : f[a] = 0
  BY ReceiptIn
<1>2. Taken(rows, i) = SumFunctionOnSet(f, Amounts)
  BY DEF Taken, SumFunction
<1> HIDE DEF f
<1> QED BY <1>1, <1>2, SumZero, RowsFinite

\* A single receipt of n, and none when n is 0.
LEMMA TakenOnce ==
    ASSUME NEW rows \in [Receipts -> Nat], NEW i \in Accounts, NEW n \in 0..MaxPaid,
           \A a \in Amounts : rows[<<i, a>>] = (IF a = n THEN 1 ELSE 0)
    PROVE  Taken(rows, i) = n
<1> DEFINE none == [p \in Receipts |-> 0]
<1>1. none \in [Receipts -> Nat]
  OBVIOUS
<1>2. \A a \in Amounts : none[<<i, a>>] = 0
  BY ReceiptIn
<1> HIDE DEF none
<1>3. Taken(none, i) = 0
  BY <1>1, <1>2, TakenNone
<1>4. \A a \in Amounts : rows[<<i, a>>] = none[<<i, a>>] + (IF a = n THEN 1 ELSE 0)
  BY <1>2
<1>5. Taken(rows, i) = Taken(none, i) + n
  BY <1>1, <1>4, TakenGrows
<1> QED BY <1>3, <1>5

-----------------------------------------------------------------------------
(* The inductive invariant                                                 *)

\* A discount is within the price, goods are on an invoice that was not deleted,
\* and money only on one that was applied.
RowInv(row) ==
    /\ row \in InvoiceRow
    /\ row.discount <= row.qty * Price
    /\ row.status \in {"none", "deleted"} => row.qty = 0
    /\ row.status \notin {"none", "deleted"} => row.qty > 0
    /\ row.status \notin {"in_progress", "posted"} => row.paid = 0

ReturnInv(row) ==
    /\ row \in ReturnRow
    /\ row.total <= row.qty * Price
    /\ row.paid <= row.total
    /\ row.status # "none" => row.qty > 0

BooksInv == stock \in Nat /\ balance \in Int /\ till \in Int

RowsInv ==
    /\ invoice \in [Invoices -> InvoiceRow]
    /\ \A i \in Invoices : RowInv(invoice[i])

ReturnsInv ==
    /\ ret \in [Returns -> ReturnRow]
    /\ \A r \in Returns : ReturnInv(ret[r])

\* Only a posted invoice has returns: a deletion takes the number off its returns.
OriginInv ==
    \A r \in Returns : ret[r].of \in Invoices => /\ invoice[ret[r].of].status = "posted"
                                                  /\ ret[r].status # "none"

CopiesInv ==
    /\ clerk \in [Clerks -> Request]
    /\ \A c \in Clerks : clerk[c].job # "idle" => clerk[c].inv \in Invoices

\* The paid amount is what the receipts add up to.
ReceiptsInv ==
    /\ takings \in [Receipts -> Nat]
    /\ \A i \in Invoices : invoice[i].paid = Taken(takings, i)

SalesInv == BooksInv /\ RowsInv /\ ReturnsInv /\ OriginInv /\ CopiesInv /\ ReceiptsInv

\* The invariant has the types of every variable.
LEMMA TypesFollow == SalesInv => SalesTypeOK
BY DEF SalesInv, BooksInv, RowsInv, ReturnsInv, CopiesInv, ReceiptsInv, SalesTypeOK

\* The fields of an invoice, and what is due on it.
LEMMA RowFacts ==
    ASSUME RowsInv, NEW i \in Invoices
    PROVE  /\ invoice[i].qty \in 0..Max(Quantities) /\ invoice[i].qty \in Nat
           /\ invoice[i].qty * Price \in Nat /\ invoice[i].qty * Price <= MaxAmount
           /\ invoice[i].discount \in Nat /\ invoice[i].discount <= invoice[i].qty * Price
           /\ invoice[i].paid \in Nat /\ invoice[i].paid <= MaxPaid
           /\ Total(i) \in Nat /\ Total(i) <= MaxAmount
           /\ Due(i) \in Nat /\ Due(i) <= Total(i)
<1>1. RowInv(invoice[i])
  BY DEF RowsInv
<1>2. /\ invoice[i].qty \in 0..Max(Quantities) /\ invoice[i].discount \in 0..MaxAmount
      /\ invoice[i].paid \in 0..MaxPaid
  BY <1>1 DEF RowInv, InvoiceRow
<1>3. /\ invoice[i].qty * Price \in Nat /\ invoice[i].qty * Price <= MaxAmount
      /\ invoice[i].discount <= invoice[i].qty * Price
      /\ MaxAmount \in Nat /\ Max(Quantities) \in Nat
  BY <1>1, <1>2, AmountBound, QuantityBound DEF RowInv
<1>4. MaxPaid \in Nat
  BY TenderBound
<1>5. Total(i) \in Nat /\ Total(i) <= MaxAmount
  BY <1>2, <1>3 DEF Total
<1>6. Due(i) \in Nat /\ Due(i) <= Total(i)
  BY <1>2, <1>4, <1>5 DEF Due, Positive
<1> QED BY <1>2, <1>3, <1>4, <1>5, <1>6

\* The fields of a return, and what it credits.
LEMMA ReturnFacts ==
    ASSUME ReturnsInv, NEW r \in Returns
    PROVE  /\ ret[r].qty \in 0..Max(Quantities) /\ ret[r].qty \in Nat
           /\ ret[r].qty * Price \in Nat /\ ret[r].qty * Price <= MaxAmount
           /\ ret[r].total \in Nat /\ ret[r].total <= ret[r].qty * Price
           /\ ret[r].paid \in Nat /\ ret[r].paid <= ret[r].total
           /\ CreditOf(ret[r]) \in Nat
<1>1. ReturnInv(ret[r])
  BY DEF ReturnsInv
<1>2. /\ ret[r].qty \in 0..Max(Quantities) /\ ret[r].total \in 0..MaxAmount
      /\ ret[r].paid \in 0..MaxAmount
  BY <1>1 DEF ReturnInv, ReturnRow
<1>3. /\ ret[r].qty * Price \in Nat /\ ret[r].qty * Price <= MaxAmount
      /\ ret[r].total <= ret[r].qty * Price /\ ret[r].paid <= ret[r].total
      /\ MaxAmount \in Nat /\ Max(Quantities) \in Nat
  BY <1>1, <1>2, AmountBound, QuantityBound DEF ReturnInv
<1>4. CreditOf(ret[r]) \in Nat
  BY <1>2, <1>3 DEF CreditOf, Positive
<1> QED BY <1>2, <1>3, <1>4

\* What comes back of an invoice, and what it refunds and credits, are natural numbers.
LEMMA ReturnSums ==
    ASSUME ReturnsInv, NEW i \in Invoices
    PROVE  Returned(i) \in Nat /\ Refunded(i) \in Nat /\ ReturnedCredit(i) \in Nat
<1> DEFINE q == [r \in ReturnsOf(i) |-> ret[r].qty]
           p == [r \in ReturnsOf(i) |-> ret[r].paid]
           c == [r \in PostedReturnsOf(i) |-> Positive(ret[r].total - ret[r].paid)]
<1>1. ReturnsOf(i) \subseteq Returns /\ PostedReturnsOf(i) \subseteq Returns
  BY DEF ReturnsOf, PostedReturnsOf
<1>2. IsFiniteSet(ReturnsOf(i)) /\ IsFiniteSet(PostedReturnsOf(i))
  BY <1>1, RowsFinite, FS_Subset
<1>3. \A r \in ReturnsOf(i) : q[r] \in Nat /\ p[r] \in Nat
  BY <1>1, ReturnFacts
<1>4. \A r \in PostedReturnsOf(i) : c[r] \in Nat
  BY <1>1, ReturnFacts DEF CreditOf
<1>5. /\ Returned(i) = SumFunctionOnSet(q, ReturnsOf(i))
      /\ Refunded(i) = SumFunctionOnSet(p, ReturnsOf(i))
      /\ ReturnedCredit(i) = SumFunctionOnSet(c, PostedReturnsOf(i))
  BY DEF Returned, Refunded, ReturnedCredit, SumFunction
<1> HIDE DEF q, p, c
<1> QED BY <1>2, <1>3, <1>4, <1>5, SumAtLeast

\* What is open on an invoice is no more than what is due on it.
LEMMA DueFacts ==
    ASSUME RowsInv, ReturnsInv, NEW i \in Invoices
    PROVE  OpenDue(i) \in Nat /\ OpenDue(i) <= Due(i)
BY RowFacts, ReturnSums DEF OpenDue, Positive

LEMMA SalesInvInit == SalesInit => SalesInv
<1> SUFFICES ASSUME SalesInit PROVE SalesInv
  OBVIOUS
<1>1. {OpeningStock, OpeningBalance, OpeningTill} \subseteq Nat
  BY SalesAssumption DEF SalesAssumption
<1>2. BooksInv
  BY <1>1 DEF SalesInit, BooksInv
<1>3. 0 \in 0..Max(Quantities) /\ 0 \in 0..MaxAmount /\ 0 \in 0..MaxPaid /\ 0 * Price = 0
  BY QuantityBound, AmountBound, TenderBound
<1>4. RowsInv
  <2>1. NoInvoice \in InvoiceRow /\ RowInv(NoInvoice)
    BY <1>3 DEF NoInvoice, InvoiceRow, RowInv
  <2> QED BY <2>1 DEF SalesInit, RowsInv
<1>5. ReturnsInv
  <2>1. NoReturn \in ReturnRow /\ ReturnInv(NoReturn)
    BY <1>3 DEF NoReturn, ReturnRow, ReturnInv
  <2> QED BY <2>1 DEF SalesInit, ReturnsInv
<1>6. OriginInv
  BY AccountApart DEF SalesInit, OriginInv, NoReturn
<1>7. CopiesInv
  BY <1>3 DEF SalesInit, CopiesInv, NoRequest, Request
<1>8. ReceiptsInv
  <2>1. takings \in [Receipts -> Nat]
    BY DEF SalesInit
  <2>2. \A i \in Invoices : \A a \in Amounts : takings[<<i, a>>] = 0
    BY ReceiptIn DEF SalesInit, Accounts
  <2>3. \A i \in Invoices : Taken(takings, i) = 0
    BY <2>1, <2>2, TakenNone DEF Accounts
  <2>4. \A i \in Invoices : invoice[i].paid = 0
    BY DEF SalesInit, NoInvoice
  <2> QED BY <2>1, <2>3, <2>4 DEF ReceiptsInv
<1> QED BY <1>2, <1>4, <1>5, <1>6, <1>7, <1>8 DEF SalesInv

-----------------------------------------------------------------------------
(* What an action writes                                                   *)

\* One invoice is written, the others stay.
LEMMA RowWritten ==
    ASSUME RowsInv, NEW i \in Invoices, NEW row, RowInv(row),
           invoice' = [invoice EXCEPT ![i] = row]
    PROVE  /\ RowsInv' /\ invoice'[i] = row
           /\ \A j \in Invoices \ {i} : invoice'[j] = invoice[j]
<1>1. row \in InvoiceRow
  BY DEF RowInv
<1>2. invoice' \in [Invoices -> InvoiceRow] /\ invoice'[i] = row
  BY <1>1 DEF RowsInv
<1>3. \A j \in Invoices \ {i} : invoice'[j] = invoice[j]
  BY DEF RowsInv
<1>4. \A j \in Invoices : RowInv(invoice'[j])
  BY <1>2, <1>3 DEF RowsInv
<1> QED BY <1>2, <1>3, <1>4 DEF RowsInv, RowInv, InvoiceRow

LEMMA RowsSame ==
    ASSUME RowsInv, UNCHANGED invoice
    PROVE  RowsInv'
BY DEF RowsInv, RowInv, InvoiceRow

LEMMA ReturnsSame ==
    ASSUME ReturnsInv, UNCHANGED ret
    PROVE  ReturnsInv'
BY DEF ReturnsInv, ReturnInv, ReturnRow

\* One return is written, the others stay.
LEMMA ReturnWritten ==
    ASSUME ReturnsInv, NEW r \in Returns, NEW row, ReturnInv(row),
           ret' = [ret EXCEPT ![r] = row]
    PROVE  /\ ReturnsInv' /\ ret'[r] = row
           /\ \A s \in Returns \ {r} : ret'[s] = ret[s]
<1>1. row \in ReturnRow
  BY DEF ReturnInv
<1>2. ret' \in [Returns -> ReturnRow] /\ ret'[r] = row
  BY <1>1 DEF ReturnsInv
<1>3. \A s \in Returns \ {r} : ret'[s] = ret[s]
  BY DEF ReturnsInv
<1>4. \A s \in Returns : ReturnInv(ret'[s])
  BY <1>2, <1>3 DEF ReturnsInv
<1> QED BY <1>2, <1>3, <1>4 DEF ReturnsInv, ReturnInv, ReturnRow

LEMMA CopiesSame ==
    ASSUME CopiesInv, UNCHANGED clerk
    PROVE  CopiesInv'
BY DEF CopiesInv

LEMMA CopyDropped ==
    ASSUME CopiesInv, NEW c \in Clerks, clerk' = [clerk EXCEPT ![c] = NoRequest]
    PROVE  CopiesInv'
<1>1. NoRequest \in Request
  BY QuantityBound, AmountBound DEF NoRequest, Request
<1>2. NoRequest.job = "idle"
  BY DEF NoRequest
<1> QED BY <1>1, <1>2 DEF CopiesInv

\* Posted invoices stay posted, and returns keep their invoice.
LEMMA OriginKept ==
    ASSUME OriginInv, UNCHANGED ret,
           \A j \in Invoices : invoice[j].status = "posted" => invoice'[j].status = "posted"
    PROVE  OriginInv'
BY DEF OriginInv

\* _record_invoice_payments: one receipt more, for one account.
LEMMA ReceiptAdded ==
    ASSUME takings \in [Receipts -> Nat], NEW i \in Accounts, NEW n \in 0..MaxPaid,
           takings' = WithReceipt(i, n)
    PROVE  /\ takings' \in [Receipts -> Nat]
           /\ Taken(takings', i) = Taken(takings, i) + n
           /\ \A j \in Accounts \ {i} : Taken(takings', j) = Taken(takings, j)
<1>1. n # 0 => <<i, n>> \in Receipts
  BY ReceiptIn, TenderBound DEF Amounts
<1>2. takings' \in [Receipts -> Nat]
  BY <1>1 DEF WithReceipt
<1>3. \A a \in Amounts : takings'[<<i, a>>] = takings[<<i, a>>] + (IF a = n THEN 1 ELSE 0)
  BY <1>1, ReceiptIn, TenderBound DEF WithReceipt, Amounts
<1>4. \A j \in Accounts \ {i} : \A a \in Amounts : takings'[<<j, a>>] = takings[<<j, a>>]
  BY <1>1, ReceiptIn DEF WithReceipt
<1>5. Taken(takings', i) = Taken(takings, i) + n
  BY <1>2, <1>3, TakenGrows
<1>6. \A j \in Accounts \ {i} : Taken(takings', j) = Taken(takings, j)
  BY <1>2, <1>4, TakenSame
<1> QED BY <1>2, <1>5, <1>6

\* void_collection: one receipt less.
LEMMA ReceiptVoided ==
    ASSUME takings \in [Receipts -> Nat], NEW i \in Accounts, NEW a \in Amounts,
           takings[<<i, a>>] > 0, takings' = [takings EXCEPT ![<<i, a>>] = @ - 1]
    PROVE  /\ takings' \in [Receipts -> Nat]
           /\ Taken(takings', i) = Taken(takings, i) - a
           /\ \A j \in Accounts \ {i} : Taken(takings', j) = Taken(takings, j)
<1>1. <<i, a>> \in Receipts /\ a \in 0..MaxPaid
  BY ReceiptIn, TenderBound DEF Amounts
<1>2. takings' \in [Receipts -> Nat]
  BY <1>1
<1>3. \A b \in Amounts : takings[<<i, b>>] = takings'[<<i, b>>] + (IF b = a THEN 1 ELSE 0)
  BY <1>1, ReceiptIn
<1>4. \A j \in Accounts \ {i} : \A b \in Amounts : takings'[<<j, b>>] = takings[<<j, b>>]
  BY <1>1, ReceiptIn
<1>5. Taken(takings, i) = Taken(takings', i) + a
  <2> DEFINE rows == takings'
  <2>1. rows \in [Receipts -> Nat]
    BY <1>2
  <2>2. \A b \in Amounts : takings[<<i, b>>] = rows[<<i, b>>] + (IF b = a THEN 1 ELSE 0)
    BY <1>3
  <2>3. Taken(takings, i) = Taken(rows, i) + a
    <3> HIDE DEF rows
    <3> QED BY <1>1, <2>1, <2>2, TakenGrows
  <2> QED BY <2>3
<1>6. \A j \in Accounts \ {i} : Taken(takings', j) = Taken(takings, j)
  BY <1>2, <1>4, TakenSame
<1>7. a \in Nat /\ Taken(takings', i) \in Nat
  BY <1>1, <1>2, TakenNat, ReceiptIn
<1>8. \A x, y, z \in Nat : x = y + z => y = x - z
  OBVIOUS
<1>9. Taken(takings, i) \in Nat
  BY TakenNat
<1>10. Taken(takings', i) = Taken(takings, i) - a
  BY <1>5, <1>7, <1>8, <1>9
<1> QED BY <1>2, <1>6, <1>10

\* The receipts of an invoice are replaced by one of n, or by none when n is 0.
LEMMA ReceiptsReplaced ==
    ASSUME takings \in [Receipts -> Nat], NEW i \in Accounts, NEW n \in 0..MaxPaid,
           takings' = [p \in Receipts |-> IF p = <<i, n>> THEN 1 ELSE WithoutReceiptsOf(i)[p]]
    PROVE  /\ takings' \in [Receipts -> Nat]
           /\ Taken(takings', i) = n
           /\ \A j \in Accounts \ {i} : Taken(takings', j) = Taken(takings, j)
<1>1. \A p \in Receipts : takings'[p] = IF p = <<i, n>> THEN 1
                                       ELSE IF p[1] = i THEN 0 ELSE takings[p]
  BY DEF WithoutReceiptsOf
<1>2. takings' \in [Receipts -> Nat]
  BY <1>1
<1>3. \A a \in Amounts : takings'[<<i, a>>] = (IF a = n THEN 1 ELSE 0)
  BY <1>1, ReceiptIn
<1>4. \A j \in Accounts \ {i} : \A a \in Amounts : takings'[<<j, a>>] = takings[<<j, a>>]
  BY <1>1, ReceiptIn
<1>5. Taken(takings', i) = n
  BY <1>2, <1>3, TakenOnce
<1>6. \A j \in Accounts \ {i} : Taken(takings', j) = Taken(takings, j)
  BY <1>2, <1>4, TakenSame
<1> QED BY <1>2, <1>5, <1>6

\* _purge_invoice_payments: no receipts of an invoice.
LEMMA ReceiptsPurged ==
    ASSUME takings \in [Receipts -> Nat], NEW i \in Accounts,
           takings' = WithoutReceiptsOf(i)
    PROVE  /\ takings' \in [Receipts -> Nat]
           /\ Taken(takings', i) = 0
           /\ \A j \in Accounts \ {i} : Taken(takings', j) = Taken(takings, j)
<1>1. \A p \in Receipts : takings'[p] = IF p[1] = i THEN 0 ELSE takings[p]
  BY DEF WithoutReceiptsOf
<1>2. takings' \in [Receipts -> Nat]
  BY <1>1 DEF WithoutReceiptsOf
<1>3. \A a \in Amounts : takings'[<<i, a>>] = 0
  BY <1>1, ReceiptIn
<1>4. \A j \in Accounts \ {i} : \A a \in Amounts : takings'[<<j, a>>] = takings[<<j, a>>]
  BY <1>1, ReceiptIn
<1>5. Taken(takings', i) = 0
  BY <1>2, <1>3, TakenNone
<1>6. \A j \in Accounts \ {i} : Taken(takings', j) = Taken(takings, j)
  BY <1>2, <1>4, TakenSame
<1> QED BY <1>2, <1>5, <1>6

\* Every account gets one receipt more, of its own amount.
LEMMA ReceiptsSpread ==
    ASSUME takings \in [Receipts -> Nat], NEW m, \A j \in Accounts : m[j] \in 0..MaxPaid,
           takings' = [p \in Receipts |-> takings[p] + IF p[2] = m[p[1]] THEN 1 ELSE 0]
    PROVE  /\ takings' \in [Receipts -> Nat]
           /\ \A j \in Accounts : Taken(takings', j) = Taken(takings, j) + m[j]
<1>1. takings' \in [Receipts -> Nat]
  OBVIOUS
<1>2. \A j \in Accounts : \A a \in Amounts :
          takings'[<<j, a>>] = takings[<<j, a>>] + (IF a = m[j] THEN 1 ELSE 0)
  BY ReceiptIn
<1>3. ASSUME NEW j \in Accounts PROVE Taken(takings', j) = Taken(takings, j) + m[j]
  BY <1>1, <1>2, TakenGrows
<1> QED BY <1>1, <1>3

-----------------------------------------------------------------------------
(* The invariant is inductive                                              *)

\* A sale, a posted quotation and a correction write a new row and its receipt.
LEMMA GoesOutStep ==
    ASSUME SalesInv, NEW i \in Invoices, ~Applied(i), NEW row, RowInv(row),
           row.status \in {"in_progress", "posted"}, GoesOut(i, row)
    PROVE  /\ BooksInv' /\ RowsInv' /\ ReceiptsInv'
           /\ \A j \in Invoices : invoice[j].status = "posted" => invoice'[j].status = "posted"
<1>1. RowsInv' /\ invoice'[i] = row /\ \A j \in Invoices \ {i} : invoice'[j] = invoice[j]
  BY RowWritten DEF GoesOut, SalesInv
<1>2. row.qty \in Nat /\ row.paid \in 0..MaxPaid /\ row.qty * Price \in Nat /\ row.discount \in Nat
  <2>1. row.qty \in 0..Max(Quantities) /\ row.discount \in 0..MaxAmount /\ row.paid \in 0..MaxPaid
    BY DEF RowInv, InvoiceRow
  <2> QED BY <2>1, AmountBound, QuantityBound
<1>3. row.qty * Price - row.discount \in Int /\ row.paid \in Nat
  BY <1>2, TenderBound
<1>4. BooksInv'
  <2>1. Positive(row.qty * Price - row.discount - row.paid) \in Int
    BY <1>3 DEF Positive
  <2> QED BY <1>2, <1>3, <2>1 DEF GoesOut, SalesInv, BooksInv
<1>5. ReceiptsInv'
  <2>1. i \in Accounts /\ takings \in [Receipts -> Nat] /\ takings' = WithReceipt(i, row.paid)
    BY DEF Accounts, GoesOut, SalesInv, ReceiptsInv
  <2>2. /\ takings' \in [Receipts -> Nat]
        /\ Taken(takings', i) = Taken(takings, i) + row.paid
        /\ \A j \in Accounts \ {i} : Taken(takings', j) = Taken(takings, j)
    BY <1>2, <2>1, ReceiptAdded
  <2>3. Taken(takings, i) = 0
    BY DEF SalesInv, ReceiptsInv, RowsInv, RowInv, Applied
  <2>4. Taken(takings', i) = row.paid
    BY <1>3, <2>2, <2>3
  <2>5. \A j \in Invoices \ {i} : invoice'[j].paid = Taken(takings', j)
    BY <1>1, <2>2 DEF SalesInv, ReceiptsInv, Accounts
  <2> QED BY <1>1, <2>2, <2>4, <2>5 DEF ReceiptsInv
<1>6. \A j \in Invoices : invoice[j].status = "posted" => invoice'[j].status = "posted"
  BY <1>1 DEF Applied
<1> QED BY <1>1, <1>4, <1>5, <1>6

\* A tender that Payable accepts fits.
LEMMA TenderFits == \A t \in Tenders : t \in Nat /\ t \in 0..MaxPaid
BY TenderBound

\* A new row for goods sold.
LEMMA NewRow ==
    ASSUME NEW q \in 1..Max(Quantities), NEW d \in Nat, d <= q * Price, NEW p \in 0..MaxPaid,
           NEW s \in {"quotation", "in_progress", "posted"}, s = "quotation" => p = 0
    PROVE  RowInv([status |-> s, qty |-> q, discount |-> d, paid |-> p])
<1>1. /\ q \in 0..Max(Quantities) /\ q > 0 /\ q * Price \in Nat /\ q * Price <= MaxAmount
      /\ MaxAmount \in Nat
  BY AmountBound, QuantityBound
<1>2. d \in 0..MaxAmount
  BY <1>1
<1> QED BY <1>1, <1>2 DEF RowInv, InvoiceRow

\* A discount is a natural number.
LEMMA DiscountNat == \A d \in Discounts : d \in Nat
BY SalesAssumption DEF SalesAssumption

\* One lemma for each action, from here to SalesInvStep.
LEMMA SellStep ==
    ASSUME SalesInv, NEW i \in Invoices, Sell(i)
    PROVE  SalesInv'
<1>1. PICK q \in Quantities, d \in Discounts, paid \in Tenders, s \in {"posted", "in_progress"} :
          /\ d <= q * Price
          /\ GoesOut(i, [status |-> s, qty |-> q, discount |-> d, paid |-> paid])
  BY DEF Sell
<1> DEFINE row == [status |-> s, qty |-> q, discount |-> d, paid |-> paid]
<1>2. q \in 1..Max(Quantities) /\ d \in Nat /\ paid \in 0..MaxPaid
  BY QuantityBound, DiscountNat, TenderFits
<1>3. RowInv(row)
  BY <1>1, <1>2, NewRow
<1>4. ~Applied(i) /\ row.status \in {"in_progress", "posted"}
  BY DEF Sell, IsNext, NewInvoices, Applied
<1>5. GoesOut(i, row)
  BY <1>1
<1> HIDE DEF row
<1>6. /\ BooksInv' /\ RowsInv' /\ ReceiptsInv'
      /\ \A j \in Invoices : invoice[j].status = "posted" => invoice'[j].status = "posted"
  BY <1>3, <1>4, <1>5, GoesOutStep
<1>7. UNCHANGED <<ret, clerk>>
  BY DEF Sell
<1> QED BY <1>6, <1>7, ReturnsSame, CopiesSame, OriginKept DEF SalesInv

LEMMA DeliverStep ==
    ASSUME SalesInv, NEW i \in Invoices, Deliver(i)
    PROVE  SalesInv'
<1> DEFINE row == [invoice[i] EXCEPT !.status = "posted"]
<1>1. RowInv(row)
  <2>1. RowInv(invoice[i]) /\ invoice[i].status = "in_progress"
    BY DEF SalesInv, RowsInv, Deliver
  <2> QED BY <2>1 DEF RowInv, InvoiceRow
<1>2. invoice' = [invoice EXCEPT ![i] = row]
  BY DEF Deliver
<1>3. row.paid = invoice[i].paid /\ row.status = "posted"
  BY DEF SalesInv, RowsInv, InvoiceRow
<1> HIDE DEF row
<1>4. RowsInv' /\ invoice'[i] = row /\ \A j \in Invoices \ {i} : invoice'[j] = invoice[j]
  BY <1>1, <1>2, RowWritten DEF SalesInv
<1>5. UNCHANGED <<books, ret, takings, clerk>>
  BY DEF Deliver
<1>6. ReceiptsInv'
  BY <1>3, <1>4, <1>5 DEF SalesInv, ReceiptsInv
<1>7. \A j \in Invoices : invoice[j].status = "posted" => invoice'[j].status = "posted"
  BY <1>3, <1>4
<1>8. BooksInv'
  BY <1>5 DEF books, SalesInv, BooksInv
<1> QED BY <1>4, <1>5, <1>6, <1>7, <1>8, ReturnsSame, CopiesSame, OriginKept DEF SalesInv

LEMMA QuoteStep ==
    ASSUME SalesInv, NEW i \in Invoices, Quote(i)
    PROVE  SalesInv'
<1>1. PICK q \in Quantities, d \in Discounts :
          /\ d <= q * Price
          /\ invoice' = [invoice EXCEPT ![i] =
                  [status |-> "quotation", qty |-> q, discount |-> d, paid |-> 0]]
  BY DEF Quote
<1> DEFINE row == [status |-> "quotation", qty |-> q, discount |-> d, paid |-> 0]
<1>2. RowInv(row)
  <2>1. q \in 1..Max(Quantities) /\ d \in Nat /\ 0 \in 0..MaxPaid
    BY QuantityBound, DiscountNat, TenderBound
  <2> QED BY <1>1, <2>1, NewRow
<1>3. invoice' = [invoice EXCEPT ![i] = row] /\ row.paid = 0 /\ invoice[i].status = "none"
  BY <1>1 DEF Quote, IsNext, NewInvoices
<1> HIDE DEF row
<1>4. RowsInv' /\ invoice'[i] = row /\ \A j \in Invoices \ {i} : invoice'[j] = invoice[j]
  BY <1>2, <1>3, RowWritten DEF SalesInv
<1>5. UNCHANGED <<books, ret, takings, clerk>>
  BY DEF Quote
<1>6. ReceiptsInv'
  <2>1. invoice[i].paid = 0
    BY <1>3 DEF SalesInv, RowsInv, RowInv
  <2> QED BY <1>3, <1>4, <1>5, <2>1 DEF SalesInv, ReceiptsInv
<1>7. \A j \in Invoices : invoice[j].status = "posted" => invoice'[j].status = "posted"
  BY <1>3, <1>4
<1>8. BooksInv'
  BY <1>5 DEF books, SalesInv, BooksInv
<1> QED BY <1>4, <1>5, <1>6, <1>7, <1>8, ReturnsSame, CopiesSame, OriginKept DEF SalesInv

LEMMA PostQuotationStep ==
    ASSUME SalesInv, NEW i \in Invoices, PostQuotation(i)
    PROVE  SalesInv'
<1>1. PICK paid \in {0, Total(i)} :
          GoesOut(i, [invoice[i] EXCEPT !.status = "posted", !.paid = paid])
  BY DEF PostQuotation
<1> DEFINE row == [invoice[i] EXCEPT !.status = "posted", !.paid = paid]
<1>2. paid \in 0..MaxPaid
  <2>1. Total(i) \in Nat /\ Total(i) <= MaxAmount
    BY RowFacts DEF SalesInv
  <2> QED BY <2>1, TenderBound, AmountBound
<1>3. RowInv(row) /\ row.status = "posted"
  <2>1. RowInv(invoice[i]) /\ invoice[i].status = "quotation"
    BY DEF SalesInv, RowsInv, PostQuotation
  <2> QED BY <1>2, <2>1 DEF RowInv, InvoiceRow
<1>4. ~Applied(i) /\ GoesOut(i, row)
  BY <1>1 DEF PostQuotation, Applied
<1> HIDE DEF row
<1>5. /\ BooksInv' /\ RowsInv' /\ ReceiptsInv'
      /\ \A j \in Invoices : invoice[j].status = "posted" => invoice'[j].status = "posted"
  BY <1>3, <1>4, GoesOutStep
<1>6. UNCHANGED <<ret, clerk>>
  BY DEF PostQuotation
<1> QED BY <1>5, <1>6, ReturnsSame, CopiesSame, OriginKept DEF SalesInv

LEMMA CorrectStep ==
    ASSUME SalesInv, NEW r \in Returns, NEW i \in Invoices, Correct(r, i)
    PROVE  SalesInv'
<1>1. PICK paid \in {0, ret[r].total} :
          GoesOut(i, [status |-> "posted", qty |-> ret[r].qty,
                      discount |-> ret[r].qty * Price - ret[r].total, paid |-> paid])
  BY DEF Correct
<1> DEFINE row == [status |-> "posted", qty |-> ret[r].qty,
                   discount |-> ret[r].qty * Price - ret[r].total, paid |-> paid]
<1>2. RowInv(row)
  <2>1. /\ ret[r].qty \in 0..Max(Quantities) /\ ret[r].qty * Price \in Nat /\ ret[r].total \in Nat
        /\ ret[r].total <= ret[r].qty * Price /\ ret[r].qty * Price <= MaxAmount
    BY ReturnFacts DEF SalesInv
  <2>2. ret[r].qty > 0
    BY DEF SalesInv, ReturnsInv, ReturnInv, Correct
  <2>3. ret[r].qty \in 1..Max(Quantities)
    BY <2>1, <2>2, QuantityBound
  <2>4. /\ ret[r].qty * Price - ret[r].total \in Nat
        /\ ret[r].qty * Price - ret[r].total <= ret[r].qty * Price
    BY <2>1
  <2>5. paid \in 0..MaxPaid
    BY <2>1, TenderBound, AmountBound
  <2> QED BY <2>3, <2>4, <2>5, NewRow
<1>3. ~Applied(i) /\ row.status \in {"in_progress", "posted"} /\ GoesOut(i, row)
  BY <1>1 DEF Correct, IsNext, NewInvoices, Applied
<1> HIDE DEF row
<1>4. /\ BooksInv' /\ RowsInv' /\ ReceiptsInv'
      /\ \A j \in Invoices : invoice[j].status = "posted" => invoice'[j].status = "posted"
  BY <1>2, <1>3, GoesOutStep
<1> DEFINE back == [ret[r] EXCEPT !.corrected = TRUE]
<1>5. ret' = [ret EXCEPT ![r] = back] /\ UNCHANGED clerk
  BY DEF Correct
<1>6. ReturnInv(back) /\ back.of = ret[r].of /\ back.status = ret[r].status
  <2>1. ReturnInv(ret[r])
    BY DEF SalesInv, ReturnsInv
  <2> QED BY <2>1 DEF ReturnInv, ReturnRow
<1> HIDE DEF back
<1>7. ReturnsInv' /\ ret'[r] = back /\ \A s \in Returns \ {r} : ret'[s] = ret[s]
  BY <1>5, <1>6, ReturnWritten DEF SalesInv
<1>8. OriginInv'
  BY <1>4, <1>6, <1>7 DEF SalesInv, OriginInv
<1> QED BY <1>4, <1>5, <1>7, <1>8, CopiesSame DEF SalesInv

\* What a payment can take and what it leaves.
LEMMA PayStep ==
    ASSUME SalesInv, NEW i \in Invoices, Pay(i)
    PROVE  SalesInv'
<1>1. PICK tender \in Tenders, cut \in Discounts :
        LET credit == ReturnedCredit(i)
            discount == Least(cut, Positive(Due(i) - credit))
            total == Total(i) - discount
            left == Positive(Positive(total - invoice[i].paid) - credit)
            amount == Least(tender, left)
            rows == WithReceipt(i, amount)
            paid == IF amount = 0 THEN invoice[i].paid ELSE PaidAfter(i, amount, rows)
        IN  /\ invoice' = [invoice EXCEPT ![i].discount = @ + discount, ![i].paid = paid]
            /\ takings' = rows
            /\ till' = till + amount
            /\ balance' = balance + Positive(total - paid) - Due(i)
  BY DEF Pay
<1> DEFINE credit == ReturnedCredit(i)
           discount == Least(cut, Positive(Due(i) - credit))
           total == Total(i) - discount
           left == Positive(Positive(total - invoice[i].paid) - credit)
           amount == Least(tender, left)
           rows == WithReceipt(i, amount)
           paid == IF amount = 0 THEN invoice[i].paid ELSE PaidAfter(i, amount, rows)
           row == [invoice[i] EXCEPT !.discount = @ + discount, !.paid = paid]
<1>2. /\ invoice' = [invoice EXCEPT ![i] = row] /\ takings' = rows
      /\ till' = till + amount /\ balance' = balance + Positive(total - paid) - Due(i)
  BY <1>1
<1>3. /\ credit \in Nat /\ Due(i) \in Nat /\ Due(i) <= Total(i) /\ Total(i) \in Nat
      /\ Total(i) <= MaxAmount /\ invoice[i].paid \in Nat /\ invoice[i].paid <= MaxPaid
      /\ cut \in Nat /\ tender \in Nat /\ tender <= MaxPaid /\ MaxPaid \in Nat
  BY RowFacts, ReturnSums, DiscountNat, TenderFits, TenderBound DEF SalesInv
<1>4. discount \in Nat /\ discount <= Due(i) /\ total \in Nat /\ total <= MaxAmount
  BY <1>3, AmountBound DEF Least, Positive
<1>5. /\ amount \in Nat /\ amount \in 0..MaxPaid
      /\ amount # 0 => invoice[i].paid + amount <= total
  <2> HIDE DEF credit, total
  <2> QED BY <1>3, <1>4 DEF Least, Positive
<1>6. i \in Accounts /\ takings \in [Receipts -> Nat]
  BY DEF Accounts, SalesInv, ReceiptsInv
<1>7. /\ takings' \in [Receipts -> Nat]
      /\ Taken(takings', i) = Taken(takings, i) + amount
      /\ \A j \in Accounts \ {i} : Taken(takings', j) = Taken(takings, j)
  <2> HIDE DEF amount
  <2> QED BY <1>2, <1>5, <1>6, ReceiptAdded
<1>8. invoice[i].paid = Taken(takings, i)
  BY DEF SalesInv, ReceiptsInv
<1>9. paid = invoice[i].paid + amount /\ paid = Taken(takings', i)
  <2>1. amount # 0 => paid = Taken(takings', i)
    BY <1>2 DEF PaidAfter
  <2>2. amount = 0 => paid = invoice[i].paid
    OBVIOUS
  <2> HIDE DEF paid, amount
  <2> QED BY <1>3, <1>5, <1>7, <1>8, <2>1, <2>2
<1>10. paid \in 0..MaxPaid /\ paid \in Nat
  <2> HIDE DEF paid, amount, total
  <2> QED BY <1>3, <1>4, <1>5, <1>9, TenderBound, AmountBound
<1>11. RowInv(row) /\ row.status = invoice[i].status /\ row.paid = paid
  <2>1. RowInv(invoice[i]) /\ invoice[i].status \in {"in_progress", "posted"}
    BY DEF SalesInv, RowsInv, Pay, Applied
  <2>2. /\ invoice[i].discount \in Nat /\ invoice[i].qty * Price \in Nat
        /\ invoice[i].qty * Price <= MaxAmount /\ MaxAmount \in Nat
        /\ Total(i) = invoice[i].qty * Price - invoice[i].discount
    BY RowFacts, AmountBound DEF SalesInv, Total
  <2>3. /\ invoice[i].discount + discount \in 0..MaxAmount
        /\ invoice[i].discount + discount <= invoice[i].qty * Price
    <3> HIDE DEF discount
    <3> QED BY <1>3, <1>4, <2>2
  <2> HIDE DEF discount, paid
  <2> QED BY <1>10, <2>1, <2>3 DEF RowInv, InvoiceRow
<1> HIDE DEF row
<1>12. RowsInv' /\ invoice'[i] = row /\ \A j \in Invoices \ {i} : invoice'[j] = invoice[j]
  BY <1>2, <1>11, RowWritten DEF SalesInv
<1>13. ReceiptsInv'
  <2> HIDE DEF paid, amount
  <2> QED BY <1>7, <1>9, <1>11, <1>12 DEF SalesInv, ReceiptsInv, Accounts
<1>14. BooksInv'
  <2>1. UNCHANGED stock
    BY DEF Pay
  <2>2. Positive(total - paid) \in Int
    <3> HIDE DEF total, paid
    <3> QED BY <1>4, <1>10 DEF Positive
  <2> HIDE DEF total, paid, amount
  <2> QED BY <1>2, <1>3, <1>5, <2>1, <2>2 DEF SalesInv, BooksInv
<1>15. UNCHANGED <<ret, clerk>>
  BY DEF Pay
<1>16. \A j \in Invoices : invoice[j].status = "posted" => invoice'[j].status = "posted"
  BY <1>11, <1>12
<1> QED BY <1>12, <1>13, <1>14, <1>15, <1>16, ReturnsSame, CopiesSame, OriginKept DEF SalesInv

\* What is open is a natural number.
LEMMA OpenNat ==
    ASSUME RowsInv, ReturnsInv
    PROVE  OpenInAll \in Nat /\ \A i \in Invoices : OpenBefore(i) \in Nat
<1>1. OpenInAll \in Nat
  <2> DEFINE g == [j \in AppliedInvoices |-> OpenDue(j)]
  <2>1. AppliedInvoices \subseteq Invoices /\ IsFiniteSet(AppliedInvoices)
    BY RowsFinite, FS_Subset DEF AppliedInvoices
  <2>2. \A j \in AppliedInvoices : g[j] \in Nat
    BY <2>1, DueFacts
  <2>3. OpenInAll = SumFunctionOnSet(g, AppliedInvoices)
    BY DEF OpenInAll, SumFunction
  <2> HIDE DEF g
  <2> QED BY <2>1, <2>2, <2>3, SumAtLeast
<1>2. ASSUME NEW i \in Invoices PROVE OpenBefore(i) \in Nat
  <2> DEFINE S == {k \in AppliedInvoices : k < i}
             f == [j \in S |-> OpenDue(j)]
  <2>1. S \subseteq Invoices
    BY DEF AppliedInvoices
  <2>2. IsFiniteSet(S)
    BY <2>1, RowsFinite, FS_Subset
  <2>3. \A j \in S : f[j] \in Nat
    BY <2>1, DueFacts
  <2>4. OpenBefore(i) = SumFunctionOnSet(f, S)
    BY DEF OpenBefore, SumFunction
  <2> HIDE DEF S, f
  <2> QED BY <2>2, <2>3, <2>4, SumAtLeast
<1> QED BY <1>1, <1>2

\* What an invoice gets of an amount is not more than what is open on it.
LEMMA PartFacts ==
    ASSUME RowsInv, ReturnsInv, NEW i \in Invoices, NEW n \in Nat
    PROVE  /\ OpenBefore(i) \in Nat /\ OpenInAll \in Nat
           /\ Part(i, n) \in Nat /\ Part(i, n) <= Due(i)
           /\ Part(i, n) \in 0..MaxPaid
           /\ ~Applied(i) => Part(i, n) = 0
<1>5. OpenBefore(i) \in Nat /\ OpenInAll \in Nat
  BY OpenNat
<1>6. OpenDue(i) \in Nat /\ OpenDue(i) <= Due(i) /\ Due(i) \in Nat /\ Due(i) <= Total(i)
  BY DueFacts, RowFacts
<1>7. Total(i) \in Nat /\ Total(i) <= MaxAmount /\ MaxAmount \in Nat /\ MaxPaid \in Nat
      /\ MaxAmount <= MaxPaid
  BY RowFacts, AmountBound, TenderBound
<1>8. Positive(n - OpenBefore(i)) \in Nat
  BY <1>5 DEF Positive
<1>9. Least(OpenDue(i), Positive(n - OpenBefore(i))) \in Nat
      /\ Least(OpenDue(i), Positive(n - OpenBefore(i))) <= OpenDue(i)
  BY <1>6, <1>8 DEF Least
<1>10. Part(i, n) \in Nat /\ Part(i, n) <= OpenDue(i)
  BY <1>6, <1>9 DEF Part
<1> QED BY <1>5, <1>6, <1>7, <1>10 DEF Part

LEMMA CollectStep ==
    ASSUME SalesInv, Collect
    PROVE  SalesInv'
<1>1. PICK amount \in Tenders :
        LET left == Positive(amount - OpenInAll)
        IN  /\ invoice' = [i \in Invoices |-> [invoice[i] EXCEPT !.paid = @ + Part(i, amount)]]
            /\ takings' = [p \in Receipts |->
                    takings[p] + IF p[2] = (IF p[1] = OnAccount THEN left ELSE Part(p[1], amount))
                                 THEN 1 ELSE 0]
            /\ till' = till + amount
            /\ balance' = balance - amount
  BY DEF Collect
<1> DEFINE left == Positive(amount - OpenInAll)
           m == [j \in Accounts |-> IF j = OnAccount THEN left ELSE Part(j, amount)]
<1>2. RowsInv /\ ReturnsInv /\ takings \in [Receipts -> Nat]
  BY DEF SalesInv, ReceiptsInv
<1>3. amount \in Nat /\ amount <= MaxPaid /\ MaxPaid \in Nat
  BY TenderFits, TenderBound
<1>4. \A j \in Invoices : /\ Part(j, amount) \in Nat /\ Part(j, amount) <= Due(j)
                          /\ Part(j, amount) \in 0..MaxPaid
                          /\ ~Applied(j) => Part(j, amount) = 0
  BY <1>2, <1>3, PartFacts
<1>5. left \in 0..MaxPaid
  <2>1. OpenInAll \in Nat
    BY <1>2, OpenNat
  <2> QED BY <1>3, <2>1 DEF Positive
<1>6. \A j \in Accounts : m[j] \in 0..MaxPaid
  <2> HIDE DEF left
  <2> QED BY <1>4, <1>5 DEF Accounts
<1>7. takings' = [p \in Receipts |-> takings[p] + IF p[2] = m[p[1]] THEN 1 ELSE 0]
  <2>1. \A p \in Receipts : m[p[1]] = IF p[1] = OnAccount THEN left ELSE Part(p[1], amount)
    BY DEF Receipts, Accounts
  <2> HIDE DEF left, m
  <2>2. takings' = [p \in Receipts |->
                    takings[p] + IF p[2] = (IF p[1] = OnAccount THEN left ELSE Part(p[1], amount))
                                 THEN 1 ELSE 0]
    BY <1>1 DEF left
  <2> QED BY <2>1, <2>2
<1>8. \A j \in Invoices : m[j] = Part(j, amount)
  BY AccountApart DEF Accounts
<1> HIDE DEF m
<1>9. /\ takings' \in [Receipts -> Nat]
      /\ \A j \in Accounts : Taken(takings', j) = Taken(takings, j) + m[j]
  BY <1>2, <1>6, <1>7, ReceiptsSpread
<1>10. \A j \in Invoices : invoice'[j] = [invoice[j] EXCEPT !.paid = @ + Part(j, amount)]
  BY <1>1
<1>11. ASSUME NEW j \in Invoices
       PROVE  /\ RowInv(invoice'[j]) /\ invoice'[j].status = invoice[j].status
              /\ invoice'[j].paid = invoice[j].paid + Part(j, amount)
  <2>1. RowInv(invoice[j])
    BY <1>2 DEF RowsInv
  <2>2. /\ invoice[j].paid \in Nat /\ invoice[j].paid <= MaxPaid /\ Total(j) \in Nat
        /\ Total(j) <= MaxAmount /\ Due(j) \in Nat
    BY <1>2, RowFacts
  <2>3. invoice[j].paid + Part(j, amount) \in 0..MaxPaid
    <3>1. Part(j, amount) \in Nat /\ Part(j, amount) <= Due(j)
      BY <1>4
    <3>2. Due(j) = Positive(Total(j) - invoice[j].paid)
      BY DEF Due
    <3> QED BY <1>3, <2>2, <3>1, <3>2, TenderBound, AmountBound DEF Positive
  <2>4. invoice[j].status \notin {"in_progress", "posted"} => invoice[j].paid + Part(j, amount) = 0
    BY <1>4, <2>1 DEF RowInv, Applied
  <2> QED BY <1>10, <2>1, <2>3, <2>4 DEF RowInv, InvoiceRow
<1>12. RowsInv'
  <2>1. invoice' \in [Invoices -> InvoiceRow]
    <3>1. \A j \in Invoices : invoice'[j] \in InvoiceRow
      BY <1>11 DEF RowInv
    <3>2. invoice' = [i \in Invoices |-> [invoice[i] EXCEPT !.paid = @ + Part(i, amount)]]
      BY <1>1
    <3>3. invoice' = [i \in Invoices |-> invoice'[i]]
      BY <3>2
    <3> QED BY <3>1, <3>3
  <2> QED BY <1>11, <2>1 DEF RowsInv, RowInv, InvoiceRow
<1>13. ReceiptsInv'
  <2>1. \A j \in Invoices : invoice'[j].paid = Taken(takings', j)
    BY <1>2, <1>8, <1>9, <1>11 DEF SalesInv, ReceiptsInv, Accounts
  <2> QED BY <1>9, <2>1 DEF ReceiptsInv
<1>14. UNCHANGED <<stock, ret, clerk>>
  BY DEF Collect
<1>15. BooksInv'
  BY <1>1, <1>3, <1>14 DEF SalesInv, BooksInv
<1>16. \A j \in Invoices : invoice[j].status = "posted" => invoice'[j].status = "posted"
  BY <1>11
<1> QED BY <1>12, <1>13, <1>14, <1>15, <1>16, ReturnsSame, CopiesSame, OriginKept DEF SalesInv

LEMMA WriteOffStep ==
    ASSUME SalesInv, WriteOff
    PROVE  SalesInv'
<1>1. /\ balance > 0
      /\ invoice' = [i \in Invoices |-> [invoice[i] EXCEPT !.discount = @ + Part(i, balance)]]
      /\ balance' = balance - Least(balance, OpenInAll)
      /\ UNCHANGED <<stock, till, ret, takings, clerk>>
  BY DEF WriteOff
<1>2. RowsInv /\ ReturnsInv /\ balance \in Nat
  BY <1>1 DEF SalesInv, BooksInv
<1>3. \A j \in Invoices : /\ Part(j, balance) \in Nat /\ Part(j, balance) <= Due(j)
                          /\ ~Applied(j) => Part(j, balance) = 0
  BY <1>2, PartFacts
<1>4. ASSUME NEW j \in Invoices
      PROVE  /\ RowInv(invoice'[j]) /\ invoice'[j].status = invoice[j].status
             /\ invoice'[j].paid = invoice[j].paid
  <2>1. RowInv(invoice[j]) /\ invoice'[j] = [invoice[j] EXCEPT !.discount = @ + Part(j, balance)]
    BY <1>1, <1>2 DEF RowsInv
  <2>2. /\ invoice[j].discount \in Nat /\ invoice[j].qty * Price \in Nat
        /\ invoice[j].qty * Price <= MaxAmount /\ MaxAmount \in Nat
        /\ Total(j) = invoice[j].qty * Price - invoice[j].discount
        /\ Due(j) \in Nat /\ Due(j) <= Total(j)
    BY <1>2, RowFacts, AmountBound DEF Total
  <2>3. /\ invoice[j].discount + Part(j, balance) \in 0..MaxAmount
        /\ invoice[j].discount + Part(j, balance) <= invoice[j].qty * Price
    BY <1>3, <2>2
  <2> QED BY <2>1, <2>3 DEF RowInv, InvoiceRow
<1>5. RowsInv'
  <2>1. invoice' \in [Invoices -> InvoiceRow]
    <3>1. \A j \in Invoices : invoice'[j] \in InvoiceRow
      BY <1>4 DEF RowInv
    <3>2. invoice' = [i \in Invoices |-> invoice'[i]]
      BY <1>1
    <3> QED BY <3>1, <3>2
  <2> QED BY <1>4, <2>1 DEF RowsInv, RowInv, InvoiceRow
<1>6. ReceiptsInv'
  BY <1>1, <1>4 DEF SalesInv, ReceiptsInv
<1>7. BooksInv'
  <2>1. Least(balance, OpenInAll) \in Int
    BY <1>2, OpenNat DEF Least
  <2> QED BY <1>1, <1>2, <2>1 DEF SalesInv, BooksInv
<1>8. \A j \in Invoices : invoice[j].status = "posted" => invoice'[j].status = "posted"
  BY <1>4
<1> QED BY <1>1, <1>5, <1>6, <1>7, <1>8, ReturnsSame, CopiesSame, OriginKept DEF SalesInv

\* A receipt of an invoice is on an invoice that was applied.
LEMMA VoidStep ==
    ASSUME SalesInv, NEW i \in Accounts, NEW a \in Amounts, Void(i, a)
    PROVE  SalesInv'
<1>1. /\ takings[<<i, a>>] > 0
      /\ takings' = [takings EXCEPT ![<<i, a>>] = @ - 1]
      /\ till' = till - a /\ balance' = balance + a
      /\ UNCHANGED <<stock, ret, clerk>>
  BY DEF Void
<1>2. takings \in [Receipts -> Nat] /\ a \in Nat
  BY ReceiptIn DEF SalesInv, ReceiptsInv
<1>3. /\ takings' \in [Receipts -> Nat]
      /\ Taken(takings', i) = Taken(takings, i) - a
      /\ \A j \in Accounts \ {i} : Taken(takings', j) = Taken(takings, j)
  BY <1>1, <1>2, ReceiptVoided
<1>4. BooksInv'
  BY <1>1, <1>2 DEF SalesInv, BooksInv
<1>5. CASE i = OnAccount
  <2>1. UNCHANGED invoice
    BY <1>5 DEF Void
  <2>2. ReceiptsInv'
    BY <1>3, <1>5, <2>1, AccountApart DEF SalesInv, ReceiptsInv, Accounts
  <2> QED BY <1>1, <1>4, <2>1, <2>2, RowsSame, ReturnsSame, CopiesSame, OriginKept DEF SalesInv
<1>6. CASE i # OnAccount
  <2> DEFINE row == [invoice[i] EXCEPT !.paid = Taken(takings', i)]
  <2>1. i \in Invoices /\ invoice' = [invoice EXCEPT ![i] = row]
    BY <1>6 DEF Void, Accounts
  <2>2. invoice[i].paid = Taken(takings, i) /\ a <= Taken(takings, i)
    BY <1>1, <1>2, <2>1, TakenHolds DEF SalesInv, ReceiptsInv
  <2>3. Taken(takings', i) \in Nat /\ Taken(takings, i) \in Nat
    BY <1>2, <1>3, TakenNat
  <2>4. a > 0
    BY <1>2, TenderBound DEF Amounts
  <2>5. RowInv(row) /\ row.paid = Taken(takings', i) /\ row.status = invoice[i].status
    <3>1. RowInv(invoice[i]) /\ invoice[i].paid \in Nat /\ invoice[i].paid <= MaxPaid
      BY <2>1, RowFacts DEF SalesInv, RowsInv
    <3>2. invoice[i].paid > 0 /\ Taken(takings', i) \in 0..MaxPaid
      BY <1>2, <1>3, <2>2, <2>3, <2>4, <3>1, TenderBound
    <3> QED BY <3>1, <3>2 DEF RowInv, InvoiceRow
  <2> HIDE DEF row
  <2>6. RowsInv' /\ invoice'[i] = row /\ \A j \in Invoices \ {i} : invoice'[j] = invoice[j]
    BY <2>1, <2>5, RowWritten DEF SalesInv
  <2>7. ReceiptsInv'
    BY <1>3, <2>5, <2>6 DEF SalesInv, ReceiptsInv, Accounts
  <2>8. \A j \in Invoices : invoice[j].status = "posted" => invoice'[j].status = "posted"
    BY <2>5, <2>6
  <2> QED BY <1>1, <1>4, <2>6, <2>7, <2>8, ReturnsSame, CopiesSame, OriginKept DEF SalesInv
<1> QED BY <1>5, <1>6

\* A step of the copies only.
LEMMA BooksSame ==
    ASSUME SalesInv, UNCHANGED <<books, invoice, ret, takings>>, CopiesInv'
    PROVE  SalesInv'
<1>1. BooksInv'
  BY DEF books, SalesInv, BooksInv
<1>2. ReceiptsInv'
  BY DEF SalesInv, ReceiptsInv
<1> QED BY <1>1, <1>2, RowsSame, ReturnsSame, OriginKept DEF SalesInv

LEMMA BeginStep ==
    ASSUME SalesInv, NEW c \in Clerks, NEW i \in Invoices,
           ReturnRead(c, i) \/ EditRead(c, i) \/ DeleteRead(c, i)
    PROVE  SalesInv'
<1>1. PICK job \in {"return", "edit", "delete"} : Begin(c, job, i)
  BY DEF ReturnRead, EditRead, DeleteRead
<1>2. UNCHANGED <<books, invoice, ret, takings>>
  BY DEF ReturnRead, EditRead, DeleteRead
<1> DEFINE copy == [job |-> job, inv |-> i, applied |-> Applied(i), qty |-> invoice[i].qty,
                    total |-> Total(i), due |-> IF Applied(i) THEN Due(i) ELSE 0,
                    discount |-> invoice[i].discount]
<1>3. clerk' = [clerk EXCEPT ![c] = copy]
  BY <1>1 DEF Begin
<1>4. copy \in Request
  <2>1. /\ invoice[i].qty \in 0..Max(Quantities) /\ Total(i) \in Nat /\ Total(i) <= MaxAmount
        /\ Due(i) \in Nat /\ Due(i) <= Total(i) /\ invoice[i].discount \in Nat
        /\ invoice[i].discount <= invoice[i].qty * Price /\ invoice[i].qty * Price <= MaxAmount
        /\ MaxAmount \in Nat /\ invoice[i].qty * Price \in Nat
    BY RowFacts, AmountBound DEF SalesInv
  <2>2. /\ Total(i) \in 0..MaxAmount /\ invoice[i].discount \in 0..MaxAmount
        /\ (IF Applied(i) THEN Due(i) ELSE 0) \in 0..MaxAmount
    BY <2>1
  <2>3. Applied(i) \in BOOLEAN
    BY DEF Applied
  <2> QED BY <2>1, <2>2, <2>3 DEF Request
<1>5. copy.inv = i
  OBVIOUS
<1> HIDE DEF copy
<1>6. CopiesInv'
  BY <1>3, <1>4, <1>5 DEF SalesInv, CopiesInv
<1> QED BY <1>2, <1>6, BooksSame

LEMMA AbandonStep ==
    ASSUME SalesInv, NEW c \in Clerks, Abandon(c)
    PROVE  SalesInv'
BY CopyDropped, BooksSame DEF Abandon, SalesInv

\* The goods of a return are goods of the invoice, and the cash is cash paid on it.
LEMMA NewReturnFacts ==
    ASSUME SalesInv, NEW c \in Clerks, NEW q \in Int, Returnable(c, q)
    PROVE  /\ ReturnInv(NewReturnOf(c, q))
           /\ NewReturnOf(c, q).of = clerk[c].inv /\ clerk[c].inv \in Invoices
           /\ invoice[clerk[c].inv].status = "posted"
           /\ NewReturnOf(c, q).status = "quotation"
           /\ NewReturnOf(c, q).qty = q
           /\ NewReturnOf(c, q).paid \in Nat
           /\ NewReturnOf(c, q).paid <= Refundable(clerk[c].inv)
<1> DEFINE i == clerk[c].inv
           value == q * Price
           half == HalfEven(clerk[c].discount * value, invoice[i].qty * Price)
           share == Least(half, value)
           total == value - share
           cash == Least(total - Least(total, OpenDue(i)), Refundable(i))
<1>1. i \in Invoices /\ clerk[c].discount \in 0..MaxAmount
  BY DEF SalesInv, CopiesInv, Returnable, Request
<1>2. invoice[i].status = "posted" /\ q > 0 /\ q <= invoice[i].qty - Returned(i)
  BY DEF Returnable
<1>3. /\ Returned(i) \in Nat /\ Refunded(i) \in Nat /\ OpenDue(i) \in Nat
      /\ invoice[i].paid \in Nat /\ invoice[i].qty \in Nat /\ invoice[i].qty <= Max(Quantities)
      /\ Max(Quantities) \in Nat
  BY <1>1, RowFacts, ReturnSums, DueFacts, QuantityBound DEF SalesInv
<1>4. q \in 0..Max(Quantities) /\ invoice[i].qty > 0
  BY <1>2, <1>3
<1>5. value \in Nat /\ value <= MaxAmount /\ MaxAmount \in Nat /\ Price \in Nat \ {0}
  BY <1>4, AmountBound
<1>6. half \in Nat
  <2>1. clerk[c].discount * value \in Nat
    BY <1>1, <1>5
  <2>2. invoice[i].qty * Price \in Nat /\ invoice[i].qty * Price > 0
    <3>1. invoice[i].qty <= invoice[i].qty * Price
      BY <1>3, <1>5, TimesGrows
    <3>2. invoice[i].qty * Price \in Nat
      BY <1>3, <1>5
    <3> QED BY <1>3, <1>4, <3>1, <3>2
  <2> QED BY <2>1, <2>2, ShareNat
<1> HIDE DEF value, half
<1>7. share \in Nat /\ share <= value
  BY <1>5, <1>6 DEF Least
<1>8. total \in Nat /\ total <= value
  <2> HIDE DEF share
  <2> QED BY <1>5, <1>7
<1>9. Refundable(i) \in Nat
  BY <1>1, <1>3 DEF Refundable, Positive
<1>10. cash \in Nat /\ cash <= total /\ cash <= Refundable(i)
  <2> HIDE DEF total
  <2> QED BY <1>3, <1>8, <1>9 DEF Least
<1>11. total \in 0..MaxAmount /\ cash \in 0..MaxAmount
  <2> HIDE DEF total, cash
  <2> QED BY <1>5, <1>8, <1>10
<1>12. NewReturnOf(c, q) = [status |-> "quotation", of |-> i, qty |-> q, total |-> total,
                            paid |-> cash, corrected |-> FALSE]
  BY DEF NewReturnOf, value, half
<1> HIDE DEF total, cash
<1>13. total <= q * Price
  BY <1>8 DEF value
<1>14. ReturnInv(NewReturnOf(c, q))
  BY <1>1, <1>2, <1>4, <1>10, <1>11, <1>12, <1>13 DEF ReturnInv, ReturnRow
<1> QED BY <1>1, <1>2, <1>10, <1>12, <1>14

\* A return is posted, new or from its draft.
LEMMA ComesBackStep ==
    ASSUME SalesInv, NEW r \in Returns, NEW row, ReturnInv(row), ComesBack(r, row),
           row.status # "none", row.of \in Invoices => invoice[row.of].status = "posted",
           UNCHANGED <<invoice, takings>>, CopiesInv'
    PROVE  SalesInv'
<1> DEFINE new == [row EXCEPT !.status = "posted"]
<1>1. ret' = [ret EXCEPT ![r] = new] /\ stock' = stock + row.qty /\ till' = till - row.paid
      /\ balance' = balance - CreditOf(row)
  BY DEF ComesBack
<1>2. row.qty \in Nat /\ row.paid \in Nat /\ CreditOf(row) \in Int
  <2>1. row.qty \in 0..Max(Quantities) /\ row.paid \in 0..MaxAmount /\ row.total \in 0..MaxAmount
    BY DEF ReturnInv, ReturnRow
  <2>2. row.qty \in Nat /\ row.paid \in Nat /\ row.total \in Nat
    BY <2>1, QuantityBound, AmountBound
  <2> QED BY <2>2 DEF CreditOf, Positive
<1>3. ReturnInv(new) /\ new.of = row.of /\ new.status = "posted"
  BY DEF ReturnInv, ReturnRow
<1> HIDE DEF new
<1>4. ReturnsInv' /\ ret'[r] = new /\ \A s \in Returns \ {r} : ret'[s] = ret[s]
  BY <1>1, <1>3, ReturnWritten DEF SalesInv
<1>5. OriginInv'
  BY <1>3, <1>4 DEF SalesInv, OriginInv
<1>6. BooksInv'
  BY <1>1, <1>2 DEF SalesInv, BooksInv
<1>7. ReceiptsInv'
  BY DEF SalesInv, ReceiptsInv
<1> QED BY <1>4, <1>5, <1>6, <1>7, RowsSame DEF SalesInv

LEMMA ReturnSteps ==
    ASSUME SalesInv, NEW r \in Returns,
           \/ PostDraft(r)
           \/ \E c \in Clerks : ReturnPost(c, r) \/ ReturnDraft(c, r)
    PROVE  SalesInv'
<1>1. CASE PostDraft(r)
  <2>1. ReturnInv(ret[r]) /\ ret[r].status # "none" /\ ComesBack(r, ret[r])
    BY <1>1 DEF PostDraft, SalesInv, ReturnsInv
  <2>2. ret[r].of \in Invoices => invoice[ret[r].of].status = "posted"
    BY DEF SalesInv, OriginInv
  <2>3. UNCHANGED <<invoice, takings>> /\ CopiesInv'
    BY <1>1, CopiesSame DEF PostDraft, SalesInv
  <2> QED BY <2>1, <2>2, <2>3, ComesBackStep
<1>2. ASSUME NEW c \in Clerks, ReturnPost(c, r) PROVE SalesInv'
  <2>1. PICK q \in 1..Max(Quantities) : Returnable(c, q) /\ ComesBack(r, NewReturnOf(c, q))
    BY <1>2 DEF ReturnPost
  <2> DEFINE row == NewReturnOf(c, q)
  <2>2. /\ ReturnInv(row) /\ row.status = "quotation" /\ row.of = clerk[c].inv
        /\ invoice[clerk[c].inv].status = "posted"
    BY <2>1, NewReturnFacts
  <2>3. UNCHANGED <<invoice, takings>> /\ CopiesInv'
    BY <1>2, CopyDropped DEF ReturnPost, SalesInv
  <2> HIDE DEF row
  <2>4. ComesBack(r, row)
    BY <2>1 DEF row
  <2> QED BY <2>2, <2>3, <2>4, ComesBackStep
<1>3. ASSUME NEW c \in Clerks, ReturnDraft(c, r) PROVE SalesInv'
  <2> DEFINE q == invoice[clerk[c].inv].qty - Returned(clerk[c].inv)
             row == NewReturnOf(c, q)
  <2>1. Returnable(c, q) /\ ret' = [ret EXCEPT ![r] = row]
    BY <1>3 DEF ReturnDraft
  <2>2. q \in Int
    <3>1. clerk[c].inv \in Invoices
      BY <2>1 DEF Returnable, SalesInv, CopiesInv
    <3> QED BY <3>1, RowFacts, ReturnSums DEF SalesInv
  <2> HIDE DEF q
  <2>3. /\ ReturnInv(row) /\ row.status = "quotation" /\ row.of = clerk[c].inv
        /\ invoice[clerk[c].inv].status = "posted"
    BY <2>1, <2>2, NewReturnFacts
  <2> HIDE DEF row
  <2>4. ReturnsInv' /\ ret'[r] = row /\ \A s \in Returns \ {r} : ret'[s] = ret[s]
    BY <2>1, <2>3, ReturnWritten DEF SalesInv
  <2>5. UNCHANGED <<books, invoice, takings>> /\ CopiesInv'
    BY <1>3, CopyDropped DEF ReturnDraft, SalesInv
  <2>6. OriginInv'
    BY <2>3, <2>4, <2>5 DEF SalesInv, OriginInv
  <2>7. BooksInv' /\ ReceiptsInv'
    BY <2>5 DEF books, SalesInv, BooksInv, ReceiptsInv
  <2> QED BY <2>4, <2>5, <2>6, <2>7, RowsSame DEF SalesInv
<1> QED BY <1>1, <1>2, <1>3

LEMMA EditStep ==
    ASSUME SalesInv, NEW c \in Clerks, EditWrite(c)
    PROVE  SalesInv'
<1> DEFINE i == clerk[c].inv
<1>1. /\ clerk[c].job = "edit" /\ Applied(i)
      /\ clerk' = [clerk EXCEPT ![c] = NoRequest] /\ UNCHANGED <<stock, ret>>
  BY DEF EditWrite
<1>2. PICK paid \in Tenders :
        /\ takings' = [p \in Receipts |-> IF p = <<i, paid>> THEN 1 ELSE WithoutReceiptsOf(i)[p]]
        /\ till' = till + paid - Taken(takings, i)
        /\ invoice' = [invoice EXCEPT ![i].paid = paid]
        /\ balance' = balance + Positive(Total(i) - paid) - clerk[c].due
  BY DEF EditWrite
<1>3. i \in Invoices /\ i \in Accounts /\ clerk[c].due \in 0..MaxAmount
  BY <1>1 DEF SalesInv, CopiesInv, Request, Accounts
<1>4. paid \in 0..MaxPaid /\ paid \in Nat /\ takings \in [Receipts -> Nat]
  BY TenderFits DEF SalesInv, ReceiptsInv
<1> DEFINE row == [invoice[i] EXCEPT !.paid = paid]
<1>5. RowInv(row) /\ row.paid = paid /\ row.status = invoice[i].status
  <2>1. RowInv(invoice[i]) /\ invoice[i].status \in {"in_progress", "posted"}
    BY <1>1, <1>3 DEF SalesInv, RowsInv, Applied
  <2> HIDE DEF i
  <2> QED BY <1>4, <2>1 DEF RowInv, InvoiceRow
<1>6. invoice' = [invoice EXCEPT ![i] = row]
  BY <1>2
<1>7. /\ takings' \in [Receipts -> Nat] /\ Taken(takings', i) = paid
      /\ \A j \in Accounts \ {i} : Taken(takings', j) = Taken(takings, j)
  <2> HIDE DEF i, row
  <2> QED BY <1>2, <1>3, <1>4, ReceiptsReplaced
<1>8. Taken(takings, i) \in Nat /\ Total(i) \in Nat /\ clerk[c].due \in Nat
  BY <1>3, <1>4, TakenNat, RowFacts, AmountBound DEF SalesInv
<1> HIDE DEF i, row
<1>9. RowsInv' /\ invoice'[i] = row /\ \A j \in Invoices \ {i} : invoice'[j] = invoice[j]
  BY <1>3, <1>5, <1>6, RowWritten DEF SalesInv
<1>10. ReceiptsInv'
  BY <1>5, <1>7, <1>9 DEF SalesInv, ReceiptsInv, Accounts
<1>11. BooksInv'
  <2>1. Positive(Total(i) - paid) \in Int
    BY <1>4, <1>8 DEF Positive
  <2> QED BY <1>1, <1>2, <1>4, <1>8, <2>1 DEF SalesInv, BooksInv
<1>12. \A j \in Invoices : invoice[j].status = "posted" => invoice'[j].status = "posted"
  BY <1>5, <1>9
<1> QED BY <1>1, <1>9, <1>10, <1>11, <1>12, ReturnsSame, CopyDropped, OriginKept DEF SalesInv

\* A deletion leaves the returns without a number, so none is left of the row.
LEMMA DeleteStep ==
    ASSUME SalesInv, NEW c \in Clerks, DeleteWrite(c)
    PROVE  SalesInv'
<1> DEFINE i == clerk[c].inv
           row == [NoInvoice EXCEPT !.status = "deleted"]
<1>1. /\ clerk[c].job = "delete"
      /\ takings' = WithoutReceiptsOf(i)
      /\ till' = till - Taken(takings, i)
      /\ balance' = balance - clerk[c].due
      /\ invoice' = [invoice EXCEPT ![i] = row]
      /\ ret' = [r \in Returns |-> IF ret[r].of = i THEN [ret[r] EXCEPT !.of = OnAccount]
                                   ELSE ret[r]]
      /\ clerk' = [clerk EXCEPT ![c] = NoRequest]
  BY DEF DeleteWrite
<1>2. PICK lines \in {clerk[c].qty, invoice[i].qty} : stock' = stock + Restocked(c, lines)
  BY DEF DeleteWrite
<1>3. /\ i \in Invoices /\ i \in Accounts /\ clerk[c].due \in 0..MaxAmount
      /\ clerk[c].qty \in 0..Max(Quantities)
  BY <1>1 DEF SalesInv, CopiesInv, Request, Accounts
<1>4. takings \in [Receipts -> Nat]
  BY DEF SalesInv, ReceiptsInv
<1>5. RowInv(row) /\ row.paid = 0
  <2>1. 0 \in 0..Max(Quantities) /\ 0 \in 0..MaxAmount /\ 0 \in 0..MaxPaid /\ 0 * Price = 0
    BY QuantityBound, AmountBound, TenderBound
  <2> QED BY <2>1 DEF NoInvoice, RowInv, InvoiceRow
<1> HIDE DEF row
<1>6. /\ takings' \in [Receipts -> Nat] /\ Taken(takings', i) = 0
      /\ \A j \in Accounts \ {i} : Taken(takings', j) = Taken(takings, j)
  <2> HIDE DEF i
  <2> QED BY <1>1, <1>3, <1>4, ReceiptsPurged
<1>7. /\ Taken(takings, i) \in Nat /\ clerk[c].due \in Nat /\ clerk[c].qty \in Nat
      /\ invoice[i].qty \in Nat
  BY <1>3, <1>4, TakenNat, RowFacts, AmountBound, QuantityBound DEF SalesInv
<1> HIDE DEF i
<1>8. RowsInv' /\ invoice'[i] = row /\ \A j \in Invoices \ {i} : invoice'[j] = invoice[j]
  BY <1>1, <1>3, <1>5, RowWritten DEF SalesInv
<1>9. ReceiptsInv'
  BY <1>5, <1>6, <1>8 DEF SalesInv, ReceiptsInv, Accounts
<1>10. BooksInv'
  <2>1. Restocked(c, lines) \in Nat
    BY <1>2, <1>7 DEF Restocked
  <2> QED BY <1>1, <1>2, <1>7, <2>1 DEF SalesInv, BooksInv
<1>11. \A r \in Returns : ret'[r] = IF ret[r].of = i THEN [ret[r] EXCEPT !.of = OnAccount]
                                    ELSE ret[r]
  BY <1>1
<1>12. \A r \in Returns : ReturnInv(ret'[r])
  <2> TAKE r \in Returns
  <2>1. ReturnInv(ret[r])
    BY DEF SalesInv, ReturnsInv
  <2>2. CASE ret[r].of = i
    BY <1>11, <2>1, <2>2 DEF ReturnInv, ReturnRow
  <2>3. CASE ret[r].of # i
    BY <1>11, <2>1, <2>3
  <2> QED BY <2>2, <2>3
<1>13. ReturnsInv'
  <2>1. \A r \in Returns : ret'[r] \in ReturnRow
    BY <1>12 DEF ReturnInv
  <2>2. ret' = [r \in Returns |-> ret'[r]]
    BY <1>1
  <2>3. ret' \in [Returns -> ReturnRow]
    BY <2>1, <2>2
  <2> QED BY <1>12, <2>3 DEF ReturnsInv, ReturnInv, ReturnRow
<1>14. OriginInv'
  <2> SUFFICES ASSUME NEW r \in Returns, ret'[r].of \in Invoices
               PROVE  invoice'[ret'[r].of].status = "posted" /\ ret'[r].status # "none"
    BY DEF OriginInv
  <2>1. ret[r].of # i
    <3> SUFFICES ASSUME ret[r].of = i PROVE FALSE
      OBVIOUS
    <3>1. ret'[r] = [ret[r] EXCEPT !.of = OnAccount] /\ ret[r] \in ReturnRow
      BY <1>11 DEF SalesInv, ReturnsInv
    <3>2. ret'[r].of = OnAccount
      BY <3>1 DEF ReturnRow
    <3> QED BY <3>2, AccountApart
  <2>2. ret'[r] = ret[r]
    BY <1>11, <2>1
  <2> QED BY <1>8, <2>1, <2>2 DEF SalesInv, OriginInv
<1> QED BY <1>1, <1>8, <1>9, <1>10, <1>13, <1>14, CopyDropped DEF SalesInv

LEMMA SalesInvStep == SalesInv /\ [SalesNext]_vars => SalesInv'
<1> SUFFICES ASSUME SalesInv, [SalesNext]_vars PROVE SalesInv'
  OBVIOUS
<1>1. CASE UNCHANGED vars
  BY <1>1, CopiesSame, BooksSame DEF vars, SalesInv
<1>2. ASSUME NEW i \in Invoices, Sell(i) \/ Deliver(i) \/ Quote(i) \/ PostQuotation(i) \/ Pay(i)
      PROVE  SalesInv'
  BY <1>2, SellStep, DeliverStep, QuoteStep, PostQuotationStep, PayStep
<1>3. ASSUME NEW r \in Returns, PostDraft(r) \/ \E i \in Invoices : Correct(r, i)
      PROVE  SalesInv'
  BY <1>3, ReturnSteps, CorrectStep
<1>4. CASE Collect \/ WriteOff
  BY <1>4, CollectStep, WriteOffStep
<1>5. ASSUME NEW i \in Invoices \cup {OnAccount}, NEW amount \in Amounts, Void(i, amount)
      PROVE  SalesInv'
  BY <1>5, VoidStep DEF Accounts
<1>6. ASSUME NEW c \in Clerks, Abandon(c) \/ EditWrite(c) \/ DeleteWrite(c)
      PROVE  SalesInv'
  BY <1>6, AbandonStep, EditStep, DeleteStep
<1>7. ASSUME NEW c \in Clerks, NEW i \in Invoices,
             ReturnRead(c, i) \/ EditRead(c, i) \/ DeleteRead(c, i)
      PROVE  SalesInv'
  BY <1>7, BeginStep
<1>8. ASSUME NEW c \in Clerks, NEW r \in Returns, ReturnPost(c, r) \/ ReturnDraft(c, r)
      PROVE  SalesInv'
  BY <1>8, ReturnSteps
<1> QED BY <1>1, <1>2, <1>3, <1>4, <1>5, <1>6, <1>7, <1>8 DEF SalesNext

LEMMA SalesInvHolds == SalesSpec => []SalesInv
BY SalesInvInit, SalesInvStep, PTL DEF SalesSpec

\* Every field of every row and of every copy stays in its type, whatever requests
\* overlap: no discount exceeds the price, and no stock goes below zero.
THEOREM SalesTyped == SalesSpec => []SalesTypeOK
BY SalesInvHolds, TypesFollow, PTL

-----------------------------------------------------------------------------
(* No more comes back than was sold, no more is refunded than was paid     *)

\* The returns of an invoice after one return is written.
LEMMA ReturnedMoves ==
    ASSUME ReturnsInv, ReturnsInv', NEW r \in Returns, \A s \in Returns \ {r} : ret'[s] = ret[s],
           NEW i \in Invoices
    PROVE  /\ Returned(i)' = Returned(i) + (IF r \in ReturnsOf(i)' THEN ret'[r].qty ELSE 0)
                                         - (IF r \in ReturnsOf(i) THEN ret[r].qty ELSE 0)
           /\ Refunded(i)' = Refunded(i) + (IF r \in ReturnsOf(i)' THEN ret'[r].paid ELSE 0)
                                         - (IF r \in ReturnsOf(i) THEN ret[r].paid ELSE 0)
<1> DEFINE S == ReturnsOf(i)
           Q == ReturnsOf(i)'
           f == [s \in S |-> ret[s].qty]
           g == [s \in Q |-> ret'[s].qty]
           h == [s \in S |-> ret[s].paid]
           k == [s \in Q |-> ret'[s].paid]
<1>1. S \in SUBSET Returns /\ Q \in SUBSET Returns /\ IsFiniteSet(Returns)
  BY RowsFinite DEF ReturnsOf
<1>2. Q \ {r} = S \ {r}
  BY DEF ReturnsOf
<1>3. \A s \in Returns : /\ ret[s].qty \in Int /\ ret'[s].qty \in Int
                         /\ ret[s].paid \in Int /\ ret'[s].paid \in Int
  <2>1. \A s \in Returns : ret[s].qty \in Int /\ ret[s].paid \in Int
    BY ReturnFacts
  <2>2. \A s \in Returns : ret'[s].qty \in 0..Max(Quantities) /\ ret'[s].paid \in 0..MaxAmount
    BY DEF ReturnsInv, ReturnRow
  <2> QED BY <2>1, <2>2
<1>4. /\ f \in [S -> Int] /\ h \in [S -> Int]
      /\ g \in [Q -> Int] /\ k \in [Q -> Int]
  BY <1>1, <1>3
<1>5. \A s \in Q \ {r} : g[s] = f[s] /\ k[s] = h[s]
  BY <1>1, <1>2
<1>6. /\ r \in Q => g[r] = ret'[r].qty /\ k[r] = ret'[r].paid
      /\ r \in S => f[r] = ret[r].qty /\ h[r] = ret[r].paid
  OBVIOUS
<1>7. /\ Returned(i) = SumFunction(f) /\ Returned(i)' = SumFunction(g)
      /\ Refunded(i) = SumFunction(h) /\ Refunded(i)' = SumFunction(k)
  BY DEF Returned, Refunded
<1> HIDE DEF f, g, h, k, S, Q
<1>8. Moved(Returns, S, Q, r, f, g) /\ Moved(Returns, S, Q, r, h, k)
  BY <1>1, <1>2, <1>4, <1>5 DEF Moved
<1>9. /\ SumFunction(g) = SumFunction(f) + At(Q, g, r) - At(S, f, r)
      /\ SumFunction(k) = SumFunction(h) + At(Q, k, r) - At(S, h, r)
  BY <1>8, SumMoved
<1>10. /\ At(Q, g, r) = (IF r \in Q THEN ret'[r].qty ELSE 0)
       /\ At(S, f, r) = (IF r \in S THEN ret[r].qty ELSE 0)
       /\ At(Q, k, r) = (IF r \in Q THEN ret'[r].paid ELSE 0)
       /\ At(S, h, r) = (IF r \in S THEN ret[r].paid ELSE 0)
  BY <1>6 DEF At
<1> QED BY <1>7, <1>9, <1>10 DEF S, Q

\* An invoice that is not posted has no returns.
LEMMA NoReturns ==
    ASSUME OriginInv, NEW i \in Invoices, invoice[i].status # "posted"
    PROVE  ReturnsOf(i) = {} /\ PostedReturnsOf(i) = {} /\ Returned(i) = 0
<1>1. ReturnsOf(i) = {} /\ PostedReturnsOf(i) = {}
  BY DEF OriginInv, ReturnsOf, PostedReturnsOf
<1> DEFINE f == [r \in ReturnsOf(i) |-> ret[r].qty]
<1>2. Returned(i) = SumFunctionOnSet(f, {})
  BY <1>1 DEF Returned, SumFunction
<1> HIDE DEF f
<1> QED BY <1>1, <1>2, SumEmpty

\* Without a write on the returns, no invoice gets more back.
LEMMA ReturnedKept ==
    ASSUME UNCHANGED ret
    PROVE  \A i \in Invoices : Returned(i)' = Returned(i) /\ Refunded(i)' = Refunded(i)
BY DEF Returned, Refunded, ReturnsOf

\* A return that only changes its status or its mark.
LEMMA ReturnedMarked ==
    ASSUME ReturnsInv, ReturnsInv', NEW r \in Returns, \A s \in Returns \ {r} : ret'[s] = ret[s],
           ret'[r].of = ret[r].of, ret'[r].qty = ret[r].qty, ret'[r].paid = ret[r].paid,
           ret'[r].status # "none", ret[r].status # "none"
    PROVE  \A i \in Invoices : Returned(i)' = Returned(i) /\ Refunded(i)' = Refunded(i)
<1> TAKE i \in Invoices
<1>1. r \in ReturnsOf(i)' <=> r \in ReturnsOf(i)
  BY DEF ReturnsOf
<1>2. Returned(i) \in Nat /\ Refunded(i) \in Nat /\ ret[r].qty \in Nat /\ ret[r].paid \in Nat
  BY ReturnSums, ReturnFacts
<1>3. /\ Returned(i)' = Returned(i) + (IF r \in ReturnsOf(i)' THEN ret'[r].qty ELSE 0)
                                    - (IF r \in ReturnsOf(i) THEN ret[r].qty ELSE 0)
      /\ Refunded(i)' = Refunded(i) + (IF r \in ReturnsOf(i)' THEN ret'[r].paid ELSE 0)
                                    - (IF r \in ReturnsOf(i) THEN ret[r].paid ELSE 0)
  BY ReturnedMoves
<1> QED BY <1>1, <1>2, <1>3

\* A return made adds its goods and its cash to those of its invoice.
LEMMA ReturnedMade ==
    ASSUME SalesInv, ReturnsInv', NEW c \in Clerks, NEW r \in Returns, NEW q \in Int,
           NewReturn(r), Returnable(c, q), \A s \in Returns \ {r} : ret'[s] = ret[s],
           ret'[r].of = clerk[c].inv, ret'[r].qty = q, ret'[r].status # "none",
           ret'[r].paid = NewReturnOf(c, q).paid
    PROVE  \A i \in Invoices :
               /\ Returned(i)' = Returned(i) + (IF i = clerk[c].inv THEN q ELSE 0)
               /\ Refunded(i)' = Refunded(i)
                                   + (IF i = clerk[c].inv THEN NewReturnOf(c, q).paid ELSE 0)
<1> TAKE i \in Invoices
<1> DEFINE cash == NewReturnOf(c, q).paid
<1>1. ReturnsInv /\ cash \in Nat
  BY NewReturnFacts DEF SalesInv
<1>2. r \notin ReturnsOf(i) /\ (r \in ReturnsOf(i)' <=> i = clerk[c].inv)
  BY DEF ReturnsOf, NewReturn
<1>3. Returned(i) \in Nat /\ Refunded(i) \in Nat
  BY <1>1, ReturnSums
<1> HIDE DEF cash
<1>4. ret'[r].paid = cash
  BY DEF cash
<1>5. /\ Returned(i)' = Returned(i) + (IF r \in ReturnsOf(i)' THEN ret'[r].qty ELSE 0)
                                    - (IF r \in ReturnsOf(i) THEN ret[r].qty ELSE 0)
      /\ Refunded(i)' = Refunded(i) + (IF r \in ReturnsOf(i)' THEN ret'[r].paid ELSE 0)
                                    - (IF r \in ReturnsOf(i) THEN ret[r].paid ELSE 0)
  BY <1>1, ReturnedMoves
<1>6. Returned(i)' = Returned(i) + (IF i = clerk[c].inv THEN q ELSE 0)
  BY <1>2, <1>3, <1>5
<1>7. Refunded(i)' = Refunded(i) + (IF i = clerk[c].inv THEN cash ELSE 0)
  BY <1>1, <1>2, <1>3, <1>4, <1>5
<1> QED BY <1>6, <1>7 DEF cash

\* Returns of other invoices are not touched by a deletion, its own lose their number.
LEMMA ReturnedDeleted ==
    ASSUME SalesInv, NEW c \in Clerks, DeleteWrite(c)
    PROVE  \A i \in Invoices :
               IF i = clerk[c].inv THEN ReturnsOf(i)' = {} /\ Returned(i)' = 0 /\ Refunded(i)' = 0
               ELSE Returned(i)' = Returned(i) /\ Refunded(i)' = Refunded(i)
<1> TAKE i \in Invoices
<1>1. \A r \in Returns : ret'[r] = IF ret[r].of = clerk[c].inv THEN [ret[r] EXCEPT !.of = OnAccount]
                                   ELSE ret[r]
  BY DEF DeleteWrite
<1>2. \A r \in Returns : ret[r] \in ReturnRow
  BY DEF SalesInv, ReturnsInv
<1>3. OnAccount # i
  BY AccountApart
<1>4. CASE i = clerk[c].inv
  <2>1. \A r \in Returns : ret'[r].of # i
    BY <1>1, <1>2, <1>3, <1>4 DEF ReturnRow
  <2>2. ReturnsOf(i)' = {}
    BY <2>1 DEF ReturnsOf
  <2> DEFINE f == [r \in ReturnsOf(i)' |-> ret'[r].qty]
             g == [r \in ReturnsOf(i)' |-> ret'[r].paid]
  <2>3. Returned(i)' = SumFunctionOnSet(f, {}) /\ Refunded(i)' = SumFunctionOnSet(g, {})
    BY <2>2 DEF Returned, Refunded, SumFunction
  <2> HIDE DEF f, g
  <2> QED BY <1>4, <2>2, <2>3, SumEmpty
<1>5. CASE i # clerk[c].inv
  <2>1. \A r \in Returns : ret'[r].of = i => ret'[r] = ret[r]
    BY <1>1, <1>2, <1>3, <1>5 DEF ReturnRow
  <2>2. \A r \in Returns : ret[r].of = i => ret'[r] = ret[r]
    BY <1>1, <1>2, <1>3, <1>5 DEF ReturnRow
  <2>3. ReturnsOf(i)' = ReturnsOf(i) /\ \A r \in ReturnsOf(i) : ret'[r] = ret[r]
    BY <2>1, <2>2 DEF ReturnsOf
  <2>4. Returned(i)' = Returned(i) /\ Refunded(i)' = Refunded(i)
    BY <2>3 DEF Returned, Refunded
  <2> QED BY <1>5, <2>4
<1> QED BY <1>4, <1>5

\* No more than was sold, on any invoice.
ReturnedInv == \A i \in Invoices : Returned(i) <= invoice[i].qty

LEMMA ReturnedInvInit == SalesInit => ReturnedInv
<1> SUFFICES ASSUME SalesInit, NEW i \in Invoices PROVE Returned(i) <= invoice[i].qty
  BY DEF ReturnedInv
<1>1. OriginInv
  BY SalesInvInit DEF SalesInv
<1>2. invoice[i].status # "posted" /\ invoice[i].qty = 0
  BY DEF SalesInit, NoInvoice
<1> QED BY <1>1, <1>2, NoReturns

\* Nothing returned, and no goods taken off an invoice that has returns.
LEMMA ReturnedInvKept ==
    ASSUME SalesInv, SalesInv', ReturnedInv,
           \A i \in Invoices : Returned(i)' = Returned(i),
           \A i \in Invoices : invoice[i].status = "posted" => invoice'[i].qty = invoice[i].qty
    PROVE  ReturnedInv'
<1> SUFFICES ASSUME NEW i \in Invoices PROVE Returned(i)' <= invoice'[i].qty
  BY DEF ReturnedInv
<1>1. CASE invoice[i].status = "posted"
  BY <1>1 DEF ReturnedInv
<1>2. CASE invoice[i].status # "posted"
  <2>1. Returned(i) = 0
    BY <1>2, NoReturns DEF SalesInv
  <2>2. invoice'[i].qty \in Nat
    <3>1. invoice'[i].qty \in 0..Max(Quantities)
      BY DEF SalesInv, RowsInv, InvoiceRow
    <3> QED BY <3>1, QuantityBound
  <2> QED BY <2>1, <2>2
<1> QED BY <1>1, <1>2

\* The actions that write one invoice keep its goods once it is posted.
LEMMA GoodsKept ==
    ASSUME SalesInv, NEW i \in Invoices,
           \/ Sell(i) \/ Deliver(i) \/ Quote(i) \/ PostQuotation(i) \/ Pay(i)
           \/ \E r \in Returns : Correct(r, i)
    PROVE  \A j \in Invoices : invoice[j].status = "posted" => invoice'[j].qty = invoice[j].qty
<1>1. invoice \in [Invoices -> InvoiceRow]
  BY DEF SalesInv, RowsInv
<1>2. CASE Pay(i)
  <2>1. PICK tender \in Tenders, cut \in Discounts :
        LET credit == ReturnedCredit(i)
            discount == Least(cut, Positive(Due(i) - credit))
            total == Total(i) - discount
            left == Positive(Positive(total - invoice[i].paid) - credit)
            amount == Least(tender, left)
            rows == WithReceipt(i, amount)
            paid == IF amount = 0 THEN invoice[i].paid ELSE PaidAfter(i, amount, rows)
        IN  invoice' = [invoice EXCEPT ![i].discount = @ + discount, ![i].paid = paid]
    BY <1>2 DEF Pay
  <2>2. PICK d, p : invoice' = [invoice EXCEPT ![i].discount = d, ![i].paid = p]
    BY <2>1
  <2>3. \A j \in Invoices : invoice'[j].qty = invoice[j].qty
    BY <1>1, <2>2 DEF InvoiceRow
  <2> QED BY <2>3
<1>3. CASE ~Pay(i)
  <2>1. \A j \in Invoices \ {i} : invoice'[j] = invoice[j]
    BY <1>1, <1>3 DEF Sell, Deliver, Quote, PostQuotation, Correct, GoesOut
  <2>2. invoice[i].status # "posted"
    BY <1>3 DEF Sell, Deliver, Quote, PostQuotation, Correct, IsNext, NewInvoices
  <2> QED BY <2>1, <2>2
<1> QED BY <1>2, <1>3

\* A step's new cash is cash the customer paid.
CashWithinPaid ==
    \A i \in Invoices :
        Applied(i) /\ Refunded(i)' > Refunded(i) => Refunded(i)' <= invoice[i].paid

\* A step that refunds nothing.
LEMMA NoCash ==
    ASSUME SalesInv, \A i \in Invoices : Refunded(i)' = Refunded(i)
    PROVE  CashWithinPaid
<1>1. \A i \in Invoices : Refunded(i) \in Nat
  BY ReturnSums DEF SalesInv
<1> QED BY <1>1 DEF CashWithinPaid

\* A new return takes goods not yet returned, and cash not yet refunded.
LEMMA MadeWithin ==
    ASSUME SalesInv, SalesInv', ReturnedInv, NEW c \in Clerks, NEW r \in Returns,
           ReturnPost(c, r) \/ ReturnDraft(c, r)
    PROVE  ReturnedInv' /\ CashWithinPaid
<1> DEFINE i == clerk[c].inv
           Made(q) ==
          /\ NewReturn(r) /\ Returnable(c, q)
          /\ \/ ret' = [ret EXCEPT ![r] = [NewReturnOf(c, q) EXCEPT !.status = "posted"]]
             \/ ret' = [ret EXCEPT ![r] = NewReturnOf(c, q)]
          /\ UNCHANGED invoice
<1>1. PICK q \in Int : Made(q)
  <2>1. ASSUME ReturnPost(c, r) PROVE \E q \in Int : Made(q)
    <3>1. PICK q \in 1..Max(Quantities) : Returnable(c, q) /\ ComesBack(r, NewReturnOf(c, q))
      BY <2>1 DEF ReturnPost
    <3>2. q \in Int /\ NewReturn(r) /\ UNCHANGED invoice
      BY <2>1 DEF ReturnPost
    <3> QED BY <3>1, <3>2 DEF ComesBack
  <2>2. ASSUME ReturnDraft(c, r) PROVE \E q \in Int : Made(q)
    <3> DEFINE q == invoice[clerk[c].inv].qty - Returned(clerk[c].inv)
    <3>1. Returnable(c, q) /\ ret' = [ret EXCEPT ![r] = NewReturnOf(c, q)]
      BY <2>2 DEF ReturnDraft
    <3>2. q \in Int
      <4>1. clerk[c].inv \in Invoices
        BY <3>1 DEF Returnable, SalesInv, CopiesInv
      <4> QED BY <4>1, RowFacts, ReturnSums DEF SalesInv
    <3>3. NewReturn(r) /\ UNCHANGED invoice
      BY <2>2 DEF ReturnDraft
    <3> HIDE DEF q
    <3> QED BY <3>1, <3>2, <3>3
  <2> QED BY <2>1, <2>2
<1> DEFINE row == NewReturnOf(c, q)
<1>2. /\ row \in ReturnRow /\ row.of = i /\ i \in Invoices /\ row.status = "quotation"
      /\ row.qty = q
      /\ row.paid \in Nat /\ row.paid <= Refundable(i)
  BY <1>1, NewReturnFacts DEF ReturnInv
<1>3. /\ \A s \in Returns \ {r} : ret'[s] = ret[s]
      /\ ret'[r].of = i /\ ret'[r].qty = q /\ ret'[r].status # "none" /\ ret'[r].paid = row.paid
  <2>1. ret \in [Returns -> ReturnRow]
    BY DEF SalesInv, ReturnsInv
  <2> HIDE DEF row, i
  <2>2. \/ ret' = [ret EXCEPT ![r] = [row EXCEPT !.status = "posted"]]
        \/ ret' = [ret EXCEPT ![r] = row]
    BY <1>1 DEF row
  <2> QED BY <1>2, <2>1, <2>2 DEF ReturnRow
<1>4. \A j \in Invoices :
          /\ Returned(j)' = Returned(j) + (IF j = i THEN q ELSE 0)
          /\ Refunded(j)' = Refunded(j) + (IF j = i THEN row.paid ELSE 0)
  <2>1. ReturnsInv'
    BY DEF SalesInv
  <2> QED BY <1>1, <1>3, <2>1, ReturnedMade
<1>5. \A j \in Invoices : /\ Returned(j) \in Nat /\ Refunded(j) \in Nat
                          /\ invoice[j].qty \in Nat /\ invoice[j].paid \in Nat
                          /\ Returned(j) <= invoice[j].qty
  BY ReturnSums, RowFacts DEF SalesInv, ReturnedInv
<1>6. q <= invoice[i].qty - Returned(i) /\ invoice' = invoice
  BY <1>1 DEF Returnable
<1> HIDE DEF row, i
<1>7. ReturnedInv'
  <2> SUFFICES ASSUME NEW j \in Invoices PROVE Returned(j)' <= invoice'[j].qty
    BY DEF ReturnedInv
  <2>1. Returned(j)' = Returned(j) + (IF j = i THEN q ELSE 0)
    BY <1>4
  <2> QED BY <1>2, <1>5, <1>6, <2>1
<1>8. CashWithinPaid
  <2> SUFFICES ASSUME NEW j \in Invoices, Refunded(j)' > Refunded(j)
               PROVE  Refunded(j)' <= invoice[j].paid
    BY DEF CashWithinPaid
  <2>1. Refunded(j)' = Refunded(j) + (IF j = i THEN row.paid ELSE 0)
    BY <1>4
  <2>2. j = i /\ row.paid > 0
    BY <1>2, <1>5, <2>1
  <2>3. row.paid <= Positive(invoice[i].paid - Refunded(i))
    BY <1>2 DEF Refundable
  <2> QED BY <1>2, <1>5, <2>1, <2>2, <2>3 DEF Positive
<1> QED BY <1>7, <1>8

LEMMA ReturnedInvStep ==
    ASSUME SalesInv, SalesInv', ReturnedInv, [SalesNext]_vars
    PROVE  ReturnedInv' /\ CashWithinPaid
<1>0. ReturnsInv /\ ReturnsInv' /\ invoice \in [Invoices -> InvoiceRow]
  BY DEF SalesInv, RowsInv
<1>1. ASSUME UNCHANGED ret,
             \A j \in Invoices : invoice[j].status = "posted" => invoice'[j].qty = invoice[j].qty
      PROVE  ReturnedInv' /\ CashWithinPaid
  BY <1>1, ReturnedKept, ReturnedInvKept, NoCash
<1>2. CASE UNCHANGED vars
  BY <1>1, <1>2 DEF vars
<1>3. ASSUME NEW i \in Invoices, Sell(i) \/ Deliver(i) \/ Quote(i) \/ PostQuotation(i) \/ Pay(i)
      PROVE  ReturnedInv' /\ CashWithinPaid
  <2>1. UNCHANGED ret
    BY <1>3 DEF Sell, Deliver, Quote, PostQuotation, Pay
  <2> QED BY <1>1, <1>3, <2>1, GoodsKept
<1>4. ASSUME NEW r \in Returns, NEW i \in Invoices, Correct(r, i)
      PROVE  ReturnedInv' /\ CashWithinPaid
  <2>1. ret' = [ret EXCEPT ![r].corrected = TRUE] /\ ret[r].status = "posted"
    BY <1>4 DEF Correct
  <2>2. /\ \A s \in Returns \ {r} : ret'[s] = ret[s]
        /\ ret'[r].of = ret[r].of /\ ret'[r].qty = ret[r].qty /\ ret'[r].paid = ret[r].paid
        /\ ret'[r].status # "none" /\ ret[r].status # "none"
    BY <1>0, <2>1 DEF ReturnsInv, ReturnRow
  <2>3. \A j \in Invoices : Returned(j)' = Returned(j) /\ Refunded(j)' = Refunded(j)
    BY <1>0, <2>2, ReturnedMarked
  <2>4. \A j \in Invoices : invoice[j].status = "posted" => invoice'[j].qty = invoice[j].qty
    BY <1>4, GoodsKept
  <2> QED BY <2>3, <2>4, ReturnedInvKept, NoCash
<1>5. ASSUME NEW r \in Returns, PostDraft(r)
      PROVE  ReturnedInv' /\ CashWithinPaid
  <2>1. /\ ret' = [ret EXCEPT ![r] = [ret[r] EXCEPT !.status = "posted"]]
        /\ ret[r].status = "quotation"
    BY <1>5 DEF PostDraft, ComesBack
  <2>2. /\ \A s \in Returns \ {r} : ret'[s] = ret[s]
        /\ ret'[r].of = ret[r].of /\ ret'[r].qty = ret[r].qty /\ ret'[r].paid = ret[r].paid
        /\ ret'[r].status # "none" /\ ret[r].status # "none"
    BY <1>0, <2>1 DEF ReturnsInv, ReturnRow
  <2>3. \A j \in Invoices : Returned(j)' = Returned(j) /\ Refunded(j)' = Refunded(j)
    BY <1>0, <2>2, ReturnedMarked
  <2>4. UNCHANGED invoice
    BY <1>5 DEF PostDraft
  <2> QED BY <2>3, <2>4, ReturnedInvKept, NoCash
<1>6. CASE Collect \/ WriteOff
  <2>1. UNCHANGED ret /\ \A j \in Invoices : invoice'[j].qty = invoice[j].qty
    BY <1>0, <1>6 DEF Collect, WriteOff, InvoiceRow
  <2> QED BY <1>1, <2>1
<1>7. ASSUME NEW i \in Invoices \cup {OnAccount}, NEW amount \in Amounts, Void(i, amount)
      PROVE  ReturnedInv' /\ CashWithinPaid
  <2>1. UNCHANGED ret /\ \A j \in Invoices : invoice'[j].qty = invoice[j].qty
    BY <1>0, <1>7 DEF Void, InvoiceRow
  <2> QED BY <1>1, <2>1
<1>8. ASSUME NEW c \in Clerks, Abandon(c) \/ EditWrite(c)
      PROVE  ReturnedInv' /\ CashWithinPaid
  <2>1. PICK p : invoice' = invoice \/ invoice' = [invoice EXCEPT ![clerk[c].inv].paid = p]
    BY <1>8 DEF Abandon, EditWrite
  <2>2. UNCHANGED ret
    BY <1>8 DEF Abandon, EditWrite
  <2>3. \A j \in Invoices : invoice'[j].qty = invoice[j].qty
    BY <1>0, <2>1 DEF InvoiceRow
  <2> QED BY <1>1, <2>2, <2>3
<1>9. ASSUME NEW c \in Clerks, NEW i \in Invoices,
             ReturnRead(c, i) \/ EditRead(c, i) \/ DeleteRead(c, i)
      PROVE  ReturnedInv' /\ CashWithinPaid
  <2>1. UNCHANGED <<ret, invoice>>
    BY <1>9 DEF ReturnRead, EditRead, DeleteRead
  <2> QED BY <1>1, <2>1
<1>10. ASSUME NEW c \in Clerks, DeleteWrite(c)
       PROVE  ReturnedInv' /\ CashWithinPaid
  <2>1. \A i \in Invoices :
            IF i = clerk[c].inv THEN ReturnsOf(i)' = {} /\ Returned(i)' = 0 /\ Refunded(i)' = 0
            ELSE Returned(i)' = Returned(i) /\ Refunded(i)' = Refunded(i)
    BY <1>10, ReturnedDeleted
  <2>2. \A i \in Invoices : i # clerk[c].inv => invoice'[i] = invoice[i]
    BY <1>0, <1>10 DEF DeleteWrite
  <2>3. \A i \in Invoices : /\ Refunded(i) \in Nat /\ invoice[i].paid \in Nat
                            /\ invoice'[i].qty \in Nat
    <3>1. \A i \in Invoices : invoice'[i].qty \in 0..Max(Quantities)
      BY DEF SalesInv, RowsInv, InvoiceRow
    <3> QED BY <3>1, QuantityBound, ReturnSums, RowFacts DEF SalesInv
  <2>4. ReturnedInv'
    BY <2>1, <2>2, <2>3 DEF ReturnedInv
  <2>5. CashWithinPaid
    BY <2>1, <2>3 DEF CashWithinPaid
  <2> QED BY <2>4, <2>5
<1>11. ASSUME NEW c \in Clerks, NEW r \in Returns, ReturnPost(c, r) \/ ReturnDraft(c, r)
       PROVE  ReturnedInv' /\ CashWithinPaid
  BY <1>11, MadeWithin
<1> QED BY <1>2, <1>3, <1>4, <1>5, <1>6, <1>7, <1>8, <1>9, <1>10, <1>11 DEF SalesNext

LEMMA ReturnedInvHolds == SalesSpec => [](SalesInv /\ ReturnedInv)
<1>1. SalesInit => ReturnedInv
  BY ReturnedInvInit
<1>2. SalesInv /\ SalesInv' /\ ReturnedInv /\ [SalesNext]_vars => ReturnedInv'
  BY ReturnedInvStep
<1> QED BY <1>1, <1>2, SalesInvHolds, PTL DEF SalesSpec

\* However many partial returns, drafts and clicks overlap, no more of an invoice
\* comes back than was sold on it: a return counts the drafts too, under the lock
\* of the invoice.
THEOREM NoMoreReturned == SalesSpec => []ReturnedWithinSold
<1>1. ReturnedInv => ReturnedWithinSold
  BY DEF ReturnedInv, ReturnedWithinSold
<1> QED BY <1>1, ReturnedInvHolds, PTL

\* No step brings the cash refunded on an invoice over what the customer paid on it.
THEOREM RefundsCovered == SalesSpec => RefundsWithinPaid
<1>1. SalesInv /\ SalesInv' /\ ReturnedInv /\ [SalesNext]_vars => CashWithinPaid
  BY ReturnedInvStep
<1>2. CashWithinPaid =>
          [\A i \in Invoices :
              Applied(i) /\ Refunded(i)' > Refunded(i) => Refunded(i)' <= invoice[i].paid]_vars
  BY DEF CashWithinPaid
<1> QED BY <1>1, <1>2, ReturnedInvHolds, PTL DEF SalesSpec, RefundsWithinPaid

-----------------------------------------------------------------------------
(* The books and the rows: what they add up to                             *)

\* What was sold, is owed, was received, came back, was refunded and was credited.
Sold == SumFunction([i \in AppliedInvoices |-> invoice[i].qty])
Owed == SumFunction([i \in AppliedInvoices |-> Due(i)])
Received == SumFunction([i \in Accounts |-> Taken(takings, i)])
CameBack == SumFunction([r \in PostedReturns |-> ret[r].qty])
PaidBack == SumFunction([r \in PostedReturns |-> ret[r].paid])
Credited == SumFunction([r \in PostedReturns |-> CreditOf(ret[r])])

\* The three books as the rows have them.
OnShelf == OpeningStock - Sold + CameBack
InTill == OpeningTill + Received - PaidBack
OnBalance == OpeningBalance + Owed - Credited - Taken(takings, OnAccount)

\* A step moves a book by what it moves in the rows.
ShelfStep == stock' - stock = OnShelf' - OnShelf
TillStep == till' - till = InTill' - InTill
BalanceStep == balance' - balance = OnBalance' - OnBalance

\* What an applied invoice sold and what is due on it, and 0 of any other.
SoldOn(i) == IF Applied(i) THEN invoice[i].qty ELSE 0
OwedOn(i) == IF Applied(i) THEN Due(i) ELSE 0

\* What a posted return brought back, and what it gave back.
BackBy(r) == IF ret[r].status = "posted" THEN ret[r].qty ELSE 0
CashBy(r) == IF ret[r].status = "posted" THEN ret[r].paid ELSE 0
CreditBy(r) == IF ret[r].status = "posted" THEN CreditOf(ret[r]) ELSE 0

\* The sums are integers.
LEMMA InvoiceSums ==
    ASSUME RowsInv
    PROVE  Sold \in Int /\ Owed \in Int
<1> DEFINE f == [i \in AppliedInvoices |-> invoice[i].qty]
           g == [i \in AppliedInvoices |-> Due(i)]
<1>1. AppliedInvoices \subseteq Invoices
  BY DEF AppliedInvoices
<1>2. IsFiniteSet(AppliedInvoices)
  BY <1>1, RowsFinite, FS_Subset
<1>3. f \in [AppliedInvoices -> Int] /\ g \in [AppliedInvoices -> Int]
  BY <1>1, RowFacts
<1>4. Sold = SumFunction(f) /\ Owed = SumFunction(g)
  BY DEF Sold, Owed
<1> HIDE DEF f, g
<1> QED BY <1>2, <1>3, <1>4, SumIsInt

LEMMA BackSums ==
    ASSUME ReturnsInv
    PROVE  CameBack \in Int /\ PaidBack \in Int /\ Credited \in Int
<1> DEFINE f == [r \in PostedReturns |-> ret[r].qty]
           g == [r \in PostedReturns |-> ret[r].paid]
           h == [r \in PostedReturns |-> CreditOf(ret[r])]
<1>1. PostedReturns \subseteq Returns
  BY DEF PostedReturns
<1>2. IsFiniteSet(PostedReturns)
  BY <1>1, RowsFinite, FS_Subset
<1>3. /\ f \in [PostedReturns -> Int] /\ g \in [PostedReturns -> Int]
      /\ h \in [PostedReturns -> Int]
  BY <1>1, ReturnFacts
<1>4. CameBack = SumFunction(f) /\ PaidBack = SumFunction(g) /\ Credited = SumFunction(h)
  BY DEF CameBack, PaidBack, Credited
<1> HIDE DEF f, g, h
<1> QED BY <1>2, <1>3, <1>4, SumIsInt

LEMMA ReceivedSum ==
    ASSUME takings \in [Receipts -> Nat]
    PROVE  Received \in Int /\ Taken(takings, OnAccount) \in Int
<1> DEFINE f == [i \in Accounts |-> Taken(takings, i)]
<1>1. f \in [Accounts -> Int]
  BY TakenNat
<1>2. Received = SumFunction(f) /\ IsFiniteSet(Accounts)
  BY RowsFinite DEF Received, Accounts
<1> HIDE DEF f
<1>3. Received \in Int
  BY <1>1, <1>2, SumIsInt
<1> QED BY <1>3, TakenNat DEF Accounts

LEMMA OpeningNat == OpeningStock \in Nat /\ OpeningTill \in Nat /\ OpeningBalance \in Nat
BY SalesAssumption DEF SalesAssumption

LEMMA BooksInt ==
    ASSUME SalesInv
    PROVE  OnShelf \in Int /\ InTill \in Int /\ OnBalance \in Int
BY InvoiceSums, BackSums, ReceivedSum, OpeningNat
   DEF SalesInv, ReceiptsInv, OnShelf, InTill, OnBalance

\* After a step, the terms of the sums are integers.
LEMMA RowFactsPrimed ==
    ASSUME RowsInv', NEW i \in Invoices
    PROVE  /\ invoice'[i].qty \in Int /\ invoice'[i].discount \in Int /\ invoice'[i].paid \in Int
           /\ Total(i)' \in Int /\ Due(i)' \in Int
<1>1. /\ invoice'[i].qty \in 0..Max(Quantities) /\ invoice'[i].discount \in 0..MaxAmount
      /\ invoice'[i].paid \in 0..MaxPaid
  BY DEF RowsInv, InvoiceRow
<1>2. invoice'[i].qty \in Int /\ invoice'[i].discount \in Int /\ invoice'[i].paid \in Int
  BY <1>1
<1>3. Total(i)' \in Int
  BY <1>2, AmountBound DEF Total
<1>4. Due(i)' \in Int
  BY <1>2, <1>3 DEF Due, Positive
<1> QED BY <1>2, <1>3, <1>4

LEMMA ReturnFactsPrimed ==
    ASSUME ReturnsInv', NEW r \in Returns
    PROVE  ret'[r].qty \in Int /\ ret'[r].paid \in Int /\ CreditOf(ret'[r]) \in Int
<1>1. /\ ret'[r].qty \in 0..Max(Quantities) /\ ret'[r].paid \in 0..MaxAmount
      /\ ret'[r].total \in 0..MaxAmount
  BY DEF ReturnsInv, ReturnRow
<1>2. ret'[r].qty \in Int /\ ret'[r].paid \in Int /\ ret'[r].total \in Int
  BY <1>1
<1> QED BY <1>2 DEF CreditOf, Positive

\* One invoice is written.
LEMMA InvoiceMoves ==
    ASSUME RowsInv, RowsInv', NEW i \in Invoices,
           \A j \in Invoices \ {i} : invoice'[j] = invoice[j]
    PROVE  /\ Sold' = Sold + SoldOn(i)' - SoldOn(i)
           /\ Owed' = Owed + OwedOn(i)' - OwedOn(i)
<1> DEFINE S == AppliedInvoices
           Q == AppliedInvoices'
           f == [j \in S |-> invoice[j].qty]
           g == [j \in Q |-> invoice'[j].qty]
           h == [j \in S |-> Due(j)]
           k == [j \in Q |-> Due(j)']
<1>1. S \subseteq Invoices /\ Q \subseteq Invoices /\ IsFiniteSet(Invoices)
  BY RowsFinite DEF AppliedInvoices
<1>2. \A j \in Invoices \ {i} : (Applied(j)' <=> Applied(j)) /\ Due(j)' = Due(j)
  BY DEF Applied, Due, Total
<1>3. Q \ {i} = S \ {i}
  BY <1>2 DEF AppliedInvoices
<1>4. \A j \in Invoices : /\ invoice[j].qty \in Int /\ Due(j) \in Int
                          /\ invoice'[j].qty \in Int /\ Due(j)' \in Int
  <2>1. \A j \in Invoices : invoice[j].qty \in Int /\ Due(j) \in Int
    BY RowFacts
  <2>2. \A j \in Invoices : invoice'[j].qty \in Int /\ Due(j)' \in Int
    BY RowFactsPrimed
  <2> QED BY <2>1, <2>2
<1>5. /\ f \in [S -> Int] /\ g \in [Q -> Int] /\ h \in [S -> Int] /\ k \in [Q -> Int]
  BY <1>1, <1>4
<1>6. \A j \in Q \ {i} : g[j] = f[j] /\ k[j] = h[j]
  BY <1>1, <1>2, <1>3
<1>7. /\ Sold = SumFunction(f) /\ Sold' = SumFunction(g)
      /\ Owed = SumFunction(h) /\ Owed' = SumFunction(k)
  BY DEF Sold, Owed
<1>8. /\ At(S, f, i) = SoldOn(i) /\ At(Q, g, i) = SoldOn(i)'
      /\ At(S, h, i) = OwedOn(i) /\ At(Q, k, i) = OwedOn(i)'
  BY DEF At, SoldOn, OwedOn, AppliedInvoices
<1> HIDE DEF f, g, h, k, S, Q
<1>9. Moved(Invoices, S, Q, i, f, g) /\ Moved(Invoices, S, Q, i, h, k)
  BY <1>1, <1>3, <1>5, <1>6 DEF Moved
<1> QED BY <1>7, <1>8, <1>9, SumMoved

\* One return is written.
LEMMA BackMoves ==
    ASSUME ReturnsInv, ReturnsInv', NEW r \in Returns,
           \A s \in Returns \ {r} : ret'[s] = ret[s]
    PROVE  /\ CameBack' = CameBack + BackBy(r)' - BackBy(r)
           /\ PaidBack' = PaidBack + CashBy(r)' - CashBy(r)
           /\ Credited' = Credited + CreditBy(r)' - CreditBy(r)
<1> DEFINE S == PostedReturns
           Q == PostedReturns'
           f == [s \in S |-> ret[s].qty]
           g == [s \in Q |-> ret'[s].qty]
           h == [s \in S |-> ret[s].paid]
           k == [s \in Q |-> ret'[s].paid]
           l == [s \in S |-> CreditOf(ret[s])]
           m == [s \in Q |-> CreditOf(ret'[s])]
<1>1. S \subseteq Returns /\ Q \subseteq Returns /\ IsFiniteSet(Returns)
  BY RowsFinite DEF PostedReturns
<1>2. Q \ {r} = S \ {r}
  BY DEF PostedReturns
<1>3. \A s \in Returns :
          /\ ret[s].qty \in Int /\ ret[s].paid \in Int /\ CreditOf(ret[s]) \in Int
          /\ ret'[s].qty \in Int /\ ret'[s].paid \in Int /\ CreditOf(ret'[s]) \in Int
  <2>1. \A s \in Returns : ret[s].qty \in Int /\ ret[s].paid \in Int /\ CreditOf(ret[s]) \in Int
    BY ReturnFacts
  <2>2. \A s \in Returns : /\ ret'[s].qty \in Int /\ ret'[s].paid \in Int
                           /\ CreditOf(ret'[s]) \in Int
    BY ReturnFactsPrimed
  <2> QED BY <2>1, <2>2
<1>4. /\ f \in [S -> Int] /\ h \in [S -> Int] /\ l \in [S -> Int]
      /\ g \in [Q -> Int] /\ k \in [Q -> Int] /\ m \in [Q -> Int]
  BY <1>1, <1>3
<1>5. \A s \in Q \ {r} : g[s] = f[s] /\ k[s] = h[s] /\ m[s] = l[s]
  BY <1>1, <1>2
<1>6. /\ CameBack = SumFunction(f) /\ CameBack' = SumFunction(g)
      /\ PaidBack = SumFunction(h) /\ PaidBack' = SumFunction(k)
      /\ Credited = SumFunction(l) /\ Credited' = SumFunction(m)
  BY DEF CameBack, PaidBack, Credited
<1>7. /\ At(S, f, r) = BackBy(r) /\ At(Q, g, r) = BackBy(r)'
      /\ At(S, h, r) = CashBy(r) /\ At(Q, k, r) = CashBy(r)'
      /\ At(S, l, r) = CreditBy(r) /\ At(Q, m, r) = CreditBy(r)'
  BY DEF At, BackBy, CashBy, CreditBy, PostedReturns
<1> HIDE DEF f, g, h, k, l, m, S, Q
<1>8. /\ Moved(Returns, S, Q, r, f, g) /\ Moved(Returns, S, Q, r, h, k)
      /\ Moved(Returns, S, Q, r, l, m)
  BY <1>1, <1>2, <1>4, <1>5 DEF Moved
<1> QED BY <1>6, <1>7, <1>8, SumMoved

\* Returns whose amounts stay add up to the same.
LEMMA BackSame ==
    ASSUME \A r \in Returns : /\ ret'[r].status = ret[r].status /\ ret'[r].qty = ret[r].qty
                              /\ ret'[r].total = ret[r].total /\ ret'[r].paid = ret[r].paid
    PROVE  CameBack' = CameBack /\ PaidBack' = PaidBack /\ Credited' = Credited
<1>1. PostedReturns' = PostedReturns /\ PostedReturns \subseteq Returns
  BY DEF PostedReturns
<1>2. \A r \in Returns : CreditOf(ret'[r]) = CreditOf(ret[r])
  BY DEF CreditOf
<1> QED BY <1>1, <1>2 DEF CameBack, PaidBack, Credited

\* The receipts of one account change.
LEMMA ReceivedMoves ==
    ASSUME takings \in [Receipts -> Nat], takings' \in [Receipts -> Nat], NEW i \in Accounts,
           \A j \in Accounts \ {i} : Taken(takings', j) = Taken(takings, j)
    PROVE  Received' = Received + Taken(takings', i) - Taken(takings, i)
<1> DEFINE f == [j \in Accounts |-> Taken(takings, j)]
           g == [j \in Accounts |-> Taken(takings', j)]
<1>1. f \in [Accounts -> Int] /\ g \in [Accounts -> Int]
  BY TakenNat
<1>2. Received = SumFunction(f) /\ Received' = SumFunction(g) /\ IsFiniteSet(Accounts)
  BY RowsFinite DEF Received, Accounts
<1>3. At(Accounts, f, i) = Taken(takings, i) /\ At(Accounts, g, i) = Taken(takings', i)
  BY DEF At
<1>4. \A j \in Accounts \ {i} : g[j] = f[j]
  OBVIOUS
<1> HIDE DEF f, g
<1>5. Moved(Accounts, Accounts, Accounts, i, f, g)
  BY <1>1, <1>2, <1>4 DEF Moved
<1> QED BY <1>2, <1>3, <1>5, SumMoved

\* Receipts that stay add up to the same.
LEMMA ReceivedSame ==
    ASSUME UNCHANGED takings
    PROVE  Received' = Received /\ Taken(takings', OnAccount) = Taken(takings, OnAccount)
BY DEF Received

-----------------------------------------------------------------------------
(* Each action moves a book by what it moves in the rows                   *)

BooksStep == ShelfStep /\ TillStep /\ BalanceStep

\* The arithmetic of a step: the books and the sums move by the same amounts.
LEMMA BooksAdd ==
    ASSUME SalesInv, NEW q \in Int, NEW p \in Int, NEW d \in Int, NEW a \in Int,
           NEW bq \in Int, NEW bp \in Int, NEW bc \in Int,
           Sold' = Sold + q, Owed' = Owed + d, Received' = Received + p,
           CameBack' = CameBack + bq, PaidBack' = PaidBack + bp, Credited' = Credited + bc,
           Taken(takings', OnAccount) = Taken(takings, OnAccount) + a
    PROVE  /\ stock' = stock - q + bq => ShelfStep
           /\ till' = till + p - bp => TillStep
           /\ balance' = balance + d - bc - a => BalanceStep
<1>1. /\ Sold \in Int /\ Owed \in Int /\ Received \in Int /\ CameBack \in Int /\ PaidBack \in Int
      /\ Credited \in Int /\ Taken(takings, OnAccount) \in Int
  BY InvoiceSums, BackSums, ReceivedSum DEF SalesInv, ReceiptsInv
<1>2. stock \in Int /\ till \in Int /\ balance \in Int
  BY DEF SalesInv, BooksInv
<1>3. OpeningStock \in Int /\ OpeningTill \in Int /\ OpeningBalance \in Int
  BY OpeningNat
<1>4. ASSUME stock' = stock - q + bq PROVE ShelfStep
  <2>1. OnShelf' = OnShelf - q + bq
    BY <1>1, <1>3 DEF OnShelf
  <2>2. OnShelf \in Int
    BY <1>1, <1>3 DEF OnShelf
  <2> QED BY <1>2, <1>4, <2>1, <2>2 DEF ShelfStep
<1>5. ASSUME till' = till + p - bp PROVE TillStep
  <2>1. InTill' = InTill + p - bp
    BY <1>1, <1>3 DEF InTill
  <2>2. InTill \in Int
    BY <1>1, <1>3 DEF InTill
  <2> QED BY <1>2, <1>5, <2>1, <2>2 DEF TillStep
<1>6. ASSUME balance' = balance + d - bc - a PROVE BalanceStep
  <2>1. OnBalance' = OnBalance + d - bc - a
    BY <1>1, <1>3 DEF OnBalance
  <2>2. OnBalance \in Int
    BY <1>1, <1>3 DEF OnBalance
  <2> QED BY <1>2, <1>6, <2>1, <2>2 DEF BalanceStep
<1> QED BY <1>4, <1>5, <1>6

\* Returns untouched, or only marked.
BackKept ==
    \A r \in Returns : /\ ret'[r].status = ret[r].status /\ ret'[r].qty = ret[r].qty
                       /\ ret'[r].total = ret[r].total /\ ret'[r].paid = ret[r].paid

LEMMA BackAdd ==
    ASSUME ReturnsInv, BackKept
    PROVE  CameBack' = CameBack + 0 /\ PaidBack' = PaidBack + 0 /\ Credited' = Credited + 0
<1>1. CameBack' = CameBack /\ PaidBack' = PaidBack /\ Credited' = Credited
  BY BackSame DEF BackKept
<1> QED BY <1>1, BackSums

\* A step that writes one invoice, with the receipts of that invoice.
LEMMA InvoiceBooks ==
    ASSUME SalesInv, SalesInv', NEW i \in Invoices, BackKept,
           \A j \in Invoices \ {i} : invoice'[j] = invoice[j],
           \A j \in Accounts \ {i} : Taken(takings', j) = Taken(takings, j)
    PROVE  /\ stock' = stock + SoldOn(i) - SoldOn(i)' => ShelfStep
           /\ till' = till + Taken(takings', i) - Taken(takings, i) => TillStep
           /\ balance' = balance + OwedOn(i)' - OwedOn(i) => BalanceStep
<1> DEFINE q == SoldOn(i)' - SoldOn(i)
           d == OwedOn(i)' - OwedOn(i)
           p == Taken(takings', i) - Taken(takings, i)
<1>1. RowsInv /\ RowsInv' /\ takings \in [Receipts -> Nat] /\ takings' \in [Receipts -> Nat]
  BY DEF SalesInv, ReceiptsInv
<1>2. i \in Accounts /\ OnAccount \in Accounts /\ i # OnAccount
  BY AccountApart DEF Accounts
<1>3. Taken(takings, i) \in Int /\ Taken(takings', i) \in Int
  BY <1>1, <1>2, TakenNat
<1>4. SoldOn(i) \in Int /\ OwedOn(i) \in Int
  BY <1>1, RowFacts DEF SoldOn, OwedOn
<1>5. SoldOn(i)' \in Int /\ OwedOn(i)' \in Int
  BY <1>1, RowFactsPrimed DEF SoldOn, OwedOn
<1>6. Sold \in Int /\ Owed \in Int /\ Received \in Int /\ Taken(takings, OnAccount) \in Int
      /\ stock \in Int /\ till \in Int /\ balance \in Int
  BY <1>1, InvoiceSums, ReceivedSum DEF SalesInv, BooksInv
<1>7. Sold' = Sold + SoldOn(i)' - SoldOn(i) /\ Owed' = Owed + OwedOn(i)' - OwedOn(i)
  BY <1>1, InvoiceMoves
<1>8. Received' = Received + Taken(takings', i) - Taken(takings, i)
  BY <1>1, <1>2, ReceivedMoves
<1>9. Taken(takings', OnAccount) = Taken(takings, OnAccount) + 0
  BY <1>2, <1>6
<1>10. q \in Int /\ d \in Int /\ p \in Int /\ 0 \in Int
  BY <1>3, <1>4, <1>5
<1>11. Sold' = Sold + q /\ Owed' = Owed + d /\ Received' = Received + p
  BY <1>3, <1>4, <1>5, <1>6, <1>7, <1>8
<1>12. CameBack' = CameBack + 0 /\ PaidBack' = PaidBack + 0 /\ Credited' = Credited + 0
  BY BackAdd DEF SalesInv
<1>13. /\ stock' = stock + SoldOn(i) - SoldOn(i)' => stock' = stock - q + 0
       /\ till' = till + Taken(takings', i) - Taken(takings, i) => till' = till + p - 0
       /\ balance' = balance + OwedOn(i)' - OwedOn(i) => balance' = balance + d - 0 - 0
  BY <1>3, <1>4, <1>5, <1>6
<1> HIDE DEF q, d, p
<1>14. /\ stock' = stock - q + 0 => ShelfStep
       /\ till' = till + p - 0 => TillStep
       /\ balance' = balance + d - 0 - 0 => BalanceStep
  BY <1>9, <1>10, <1>11, <1>12, BooksAdd
<1> QED BY <1>13, <1>14

\* A step that writes one return and nothing of the invoices.
LEMMA BackBooks ==
    ASSUME SalesInv, SalesInv', NEW r \in Returns, UNCHANGED <<invoice, takings>>,
           \A s \in Returns \ {r} : ret'[s] = ret[s]
    PROVE  /\ stock' = stock + BackBy(r)' - BackBy(r) => ShelfStep
           /\ till' = till - CashBy(r)' + CashBy(r) => TillStep
           /\ balance' = balance - CreditBy(r)' + CreditBy(r) => BalanceStep
<1> DEFINE bq == BackBy(r)' - BackBy(r)
           bp == CashBy(r)' - CashBy(r)
           bc == CreditBy(r)' - CreditBy(r)
<1>1. ReturnsInv /\ ReturnsInv'
  BY DEF SalesInv
<1>2. BackBy(r) \in Int /\ CashBy(r) \in Int /\ CreditBy(r) \in Int
  BY <1>1, ReturnFacts DEF BackBy, CashBy, CreditBy
<1>3. BackBy(r)' \in Int /\ CashBy(r)' \in Int /\ CreditBy(r)' \in Int
  BY <1>1, ReturnFactsPrimed DEF BackBy, CashBy, CreditBy
<1>4. /\ CameBack' = CameBack + BackBy(r)' - BackBy(r)
      /\ PaidBack' = PaidBack + CashBy(r)' - CashBy(r)
      /\ Credited' = Credited + CreditBy(r)' - CreditBy(r)
  BY <1>1, BackMoves
<1>5. /\ Sold \in Int /\ Owed \in Int /\ Received \in Int /\ Taken(takings, OnAccount) \in Int
      /\ CameBack \in Int /\ PaidBack \in Int /\ Credited \in Int
      /\ stock \in Int /\ till \in Int /\ balance \in Int
  BY InvoiceSums, ReceivedSum, BackSums DEF SalesInv, ReceiptsInv, BooksInv
<1>6. Sold' = Sold /\ Owed' = Owed
  BY DEF Sold, Owed, AppliedInvoices, Applied, Due, Total
<1>7. Received' = Received /\ Taken(takings', OnAccount) = Taken(takings, OnAccount)
  BY ReceivedSame
<1>8. bq \in Int /\ bp \in Int /\ bc \in Int /\ 0 \in Int
  BY <1>2, <1>3
<1>9. /\ Sold' = Sold + 0 /\ Owed' = Owed + 0 /\ Received' = Received + 0
      /\ Taken(takings', OnAccount) = Taken(takings, OnAccount) + 0
      /\ CameBack' = CameBack + bq /\ PaidBack' = PaidBack + bp /\ Credited' = Credited + bc
  BY <1>2, <1>3, <1>4, <1>5, <1>6, <1>7
<1>10. /\ stock' = stock + BackBy(r)' - BackBy(r) => stock' = stock - 0 + bq
       /\ till' = till - CashBy(r)' + CashBy(r) => till' = till + 0 - bp
       /\ balance' = balance - CreditBy(r)' + CreditBy(r) => balance' = balance + 0 - bc - 0
  BY <1>2, <1>3, <1>5
<1> HIDE DEF bq, bp, bc
<1>11. /\ stock' = stock - 0 + bq => ShelfStep
       /\ till' = till + 0 - bp => TillStep
       /\ balance' = balance + 0 - bc - 0 => BalanceStep
  BY <1>8, <1>9, BooksAdd
<1> QED BY <1>10, <1>11

\* Nothing of the books, the receipts and the returns moves, and the row of one
\* invoice counts for the same.
LEMMA RowBooks ==
    ASSUME SalesInv, SalesInv', NEW i \in Invoices, UNCHANGED <<books, ret, takings>>,
           \A j \in Invoices \ {i} : invoice'[j] = invoice[j],
           SoldOn(i)' = SoldOn(i), OwedOn(i)' = OwedOn(i)
    PROVE  BooksStep
<1>1. BackKept /\ \A j \in Accounts \ {i} : Taken(takings', j) = Taken(takings, j)
  BY DEF BackKept
<1>2. /\ stock \in Int /\ till \in Int /\ balance \in Int
      /\ SoldOn(i) \in Int /\ OwedOn(i) \in Int /\ Taken(takings, i) \in Int
  BY RowFacts, TakenNat DEF SalesInv, BooksInv, ReceiptsInv, SoldOn, OwedOn, Accounts
<1>3. /\ stock' = stock + SoldOn(i) - SoldOn(i)'
      /\ till' = till + Taken(takings', i) - Taken(takings, i)
      /\ balance' = balance + OwedOn(i)' - OwedOn(i)
  BY <1>2 DEF books
<1> QED BY <1>1, <1>3, InvoiceBooks DEF BooksStep

\* Nothing but copies moves.
LEMMA CopyBooks ==
    ASSUME SalesInv, SalesInv', UNCHANGED <<books, invoice, ret, takings>>
    PROVE  BooksStep
<1>1. /\ Sold' = Sold /\ Owed' = Owed /\ Received' = Received /\ CameBack' = CameBack
      /\ PaidBack' = PaidBack /\ Credited' = Credited
      /\ Taken(takings', OnAccount) = Taken(takings, OnAccount)
  BY DEF Sold, Owed, Received, CameBack, PaidBack, Credited, AppliedInvoices, Applied, Due,
         Total, PostedReturns
<1>2. OnShelf' = OnShelf /\ InTill' = InTill /\ OnBalance' = OnBalance
  BY <1>1 DEF OnShelf, InTill, OnBalance
<1>3. OnShelf \in Int /\ InTill \in Int /\ OnBalance \in Int
  BY BooksInt
<1>4. stock \in Int /\ till \in Int /\ balance \in Int
  BY DEF SalesInv, BooksInv
<1> QED BY <1>2, <1>3, <1>4 DEF books, BooksStep, ShelfStep, TillStep, BalanceStep

\* Goods that leave with a new row: what the row says goes into every book.
LEMMA GoesOutBooks ==
    ASSUME SalesInv, SalesInv', NEW i \in Invoices, ~Applied(i), NEW row, RowInv(row),
           row.status \in {"in_progress", "posted"}, GoesOut(i, row), BackKept
    PROVE  BooksStep
<1>1. invoice'[i] = row /\ \A j \in Invoices \ {i} : invoice'[j] = invoice[j]
  BY RowWritten DEF GoesOut, SalesInv
<1>2. /\ row.qty \in Nat /\ row.paid \in 0..MaxPaid /\ row.paid \in Nat
      /\ row.qty * Price \in Nat /\ row.discount \in Nat
  <2>1. row.qty \in 0..Max(Quantities) /\ row.discount \in 0..MaxAmount /\ row.paid \in 0..MaxPaid
    BY DEF RowInv, InvoiceRow
  <2> QED BY <2>1, AmountBound, QuantityBound, TenderBound
<1>3. i \in Accounts /\ takings \in [Receipts -> Nat] /\ takings' = WithReceipt(i, row.paid)
  BY DEF Accounts, GoesOut, SalesInv, ReceiptsInv
<1>4. /\ Taken(takings', i) = Taken(takings, i) + row.paid
      /\ \A j \in Accounts \ {i} : Taken(takings', j) = Taken(takings, j)
  BY <1>2, <1>3, ReceiptAdded
<1>5. SoldOn(i) = 0 /\ OwedOn(i) = 0
  BY DEF SoldOn, OwedOn
<1> DEFINE total == row.qty * Price - row.discount
<1>6. SoldOn(i)' = row.qty /\ OwedOn(i)' = Positive(total - row.paid)
  BY <1>1 DEF SoldOn, OwedOn, Applied, Due, Total
<1>7. /\ stock' = stock - row.qty /\ till' = till + row.paid
      /\ balance' = balance + Positive(total - row.paid)
  BY DEF GoesOut
<1>8. total \in Int
  BY <1>2
<1> HIDE DEF total
<1>9. Positive(total - row.paid) \in Int /\ Taken(takings, i) \in Int
  BY <1>2, <1>3, <1>8, TakenNat DEF Positive
<1>10. stock \in Int /\ till \in Int /\ balance \in Int
  BY DEF SalesInv, BooksInv
<1>11. /\ stock' = stock + SoldOn(i) - SoldOn(i)'
       /\ till' = till + Taken(takings', i) - Taken(takings, i)
       /\ balance' = balance + OwedOn(i)' - OwedOn(i)
  BY <1>2, <1>4, <1>5, <1>6, <1>7, <1>9, <1>10
<1> QED BY <1>1, <1>4, <1>11, InvoiceBooks DEF BooksStep

\* One lemma for each action, from here to BooksFollow: the books move with the rows.
LEMMA SellBooks ==
    ASSUME SalesInv, SalesInv', NEW i \in Invoices, Sell(i)
    PROVE  BooksStep
<1>1. PICK q \in Quantities, d \in Discounts, paid \in Tenders, s \in {"posted", "in_progress"} :
          /\ d <= q * Price
          /\ GoesOut(i, [status |-> s, qty |-> q, discount |-> d, paid |-> paid])
  BY DEF Sell
<1> DEFINE row == [status |-> s, qty |-> q, discount |-> d, paid |-> paid]
<1>2. q \in 1..Max(Quantities) /\ d \in Nat /\ paid \in 0..MaxPaid
  BY QuantityBound, DiscountNat, TenderFits
<1>3. RowInv(row)
  BY <1>1, <1>2, NewRow
<1>4. ~Applied(i) /\ row.status \in {"in_progress", "posted"}
  BY DEF Sell, IsNext, NewInvoices, Applied
<1>5. GoesOut(i, row)
  BY <1>1
<1>6. BackKept
  BY DEF Sell, BackKept
<1> HIDE DEF row
<1> QED BY <1>3, <1>4, <1>5, <1>6, GoesOutBooks

LEMMA PostQuotationBooks ==
    ASSUME SalesInv, SalesInv', NEW i \in Invoices, PostQuotation(i)
    PROVE  BooksStep
<1>1. PICK paid \in {0, Total(i)} :
          GoesOut(i, [invoice[i] EXCEPT !.status = "posted", !.paid = paid])
  BY DEF PostQuotation
<1> DEFINE row == [invoice[i] EXCEPT !.status = "posted", !.paid = paid]
<1>2. paid \in 0..MaxPaid
  <2>1. Total(i) \in Nat /\ Total(i) <= MaxAmount
    BY RowFacts DEF SalesInv
  <2> QED BY <2>1, TenderBound, AmountBound
<1>3. RowInv(row) /\ row.status = "posted"
  <2>1. RowInv(invoice[i]) /\ invoice[i].status = "quotation"
    BY DEF SalesInv, RowsInv, PostQuotation
  <2> QED BY <1>2, <2>1 DEF RowInv, InvoiceRow
<1>4. ~Applied(i) /\ GoesOut(i, row)
  BY <1>1 DEF PostQuotation, Applied
<1>5. BackKept
  BY DEF PostQuotation, BackKept
<1> HIDE DEF row
<1> QED BY <1>3, <1>4, <1>5, GoesOutBooks

LEMMA CorrectBooks ==
    ASSUME SalesInv, SalesInv', NEW r \in Returns, NEW i \in Invoices, Correct(r, i)
    PROVE  BooksStep
<1>1. PICK paid \in {0, ret[r].total} :
          GoesOut(i, [status |-> "posted", qty |-> ret[r].qty,
                      discount |-> ret[r].qty * Price - ret[r].total, paid |-> paid])
  BY DEF Correct
<1> DEFINE row == [status |-> "posted", qty |-> ret[r].qty,
                   discount |-> ret[r].qty * Price - ret[r].total, paid |-> paid]
<1>2. ~Applied(i) /\ row.status \in {"in_progress", "posted"} /\ GoesOut(i, row)
  BY <1>1 DEF Correct, IsNext, NewInvoices, Applied
<1>3. RowInv(row)
  <2>1. RowInv(invoice'[i])
    BY DEF SalesInv, RowsInv, RowInv, InvoiceRow
  <2>2. invoice'[i] = row
    BY <1>2 DEF GoesOut, SalesInv, RowsInv
  <2> QED BY <2>1, <2>2
<1>4. BackKept
  BY DEF Correct, BackKept, SalesInv, ReturnsInv, ReturnRow
<1> HIDE DEF row
<1> QED BY <1>2, <1>3, <1>4, GoesOutBooks

\* A delivery and a quotation touch no book.
LEMMA DeliverBooks ==
    ASSUME SalesInv, SalesInv', NEW i \in Invoices, Deliver(i)
    PROVE  BooksStep
<1> DEFINE row == [invoice[i] EXCEPT !.status = "posted"]
<1>1. invoice'[i] = row /\ \A j \in Invoices \ {i} : invoice'[j] = invoice[j]
  BY DEF Deliver, SalesInv, RowsInv
<1>2. /\ row.status = "posted" /\ row.qty = invoice[i].qty /\ row.paid = invoice[i].paid
      /\ row.discount = invoice[i].discount /\ invoice[i].status = "in_progress"
  BY DEF Deliver, SalesInv, RowsInv, InvoiceRow
<1> HIDE DEF row
<1>3. SoldOn(i)' = SoldOn(i) /\ OwedOn(i)' = OwedOn(i)
  BY <1>1, <1>2 DEF SoldOn, OwedOn, Applied, Due, Total
<1>4. UNCHANGED <<books, ret, takings>>
  BY DEF Deliver
<1> QED BY <1>1, <1>3, <1>4, RowBooks

LEMMA QuoteBooks ==
    ASSUME SalesInv, SalesInv', NEW i \in Invoices, Quote(i)
    PROVE  BooksStep
<1>1. /\ invoice'[i].status = "quotation" /\ invoice[i].status = "none"
      /\ \A j \in Invoices \ {i} : invoice'[j] = invoice[j]
  BY DEF Quote, IsNext, NewInvoices, SalesInv, RowsInv
<1>2. SoldOn(i)' = SoldOn(i) /\ OwedOn(i)' = OwedOn(i)
  BY <1>1 DEF SoldOn, OwedOn, Applied
<1>3. UNCHANGED <<books, ret, takings>>
  BY DEF Quote
<1> QED BY <1>1, <1>2, <1>3, RowBooks

\* A return is posted: what it is worth goes out of the till and off the account.
LEMMA ComesBackBooks ==
    ASSUME SalesInv, SalesInv', NEW r \in Returns, NEW row, ReturnInv(row), ComesBack(r, row),
           ret[r].status # "posted", UNCHANGED <<invoice, takings>>
    PROVE  BooksStep
<1>1. /\ ret'[r] = [row EXCEPT !.status = "posted"]
      /\ \A s \in Returns \ {r} : ret'[s] = ret[s]
  BY DEF ComesBack, SalesInv, ReturnsInv
<1>2. BackBy(r) = 0 /\ CashBy(r) = 0 /\ CreditBy(r) = 0
  BY DEF BackBy, CashBy, CreditBy
<1>3. BackBy(r)' = row.qty /\ CashBy(r)' = row.paid /\ CreditBy(r)' = CreditOf(row)
  <2>1. /\ ret'[r].status = "posted" /\ ret'[r].qty = row.qty /\ ret'[r].paid = row.paid
        /\ ret'[r].total = row.total
    BY <1>1 DEF ReturnInv, ReturnRow
  <2> QED BY <2>1 DEF BackBy, CashBy, CreditBy, CreditOf
<1>4. row.qty \in Int /\ row.paid \in Int /\ CreditOf(row) \in Int
  <2>1. row.qty \in 0..Max(Quantities) /\ row.paid \in 0..MaxAmount /\ row.total \in 0..MaxAmount
    BY DEF ReturnInv, ReturnRow
  <2>2. row.qty \in Int /\ row.paid \in Int /\ row.total \in Int
    BY <2>1
  <2> QED BY <2>2 DEF CreditOf, Positive
<1>5. /\ stock' = stock + BackBy(r)' - BackBy(r)
      /\ till' = till - CashBy(r)' + CashBy(r)
      /\ balance' = balance - CreditBy(r)' + CreditBy(r)
  <2>1. stock \in Int /\ till \in Int /\ balance \in Int
    BY DEF SalesInv, BooksInv
  <2>2. /\ stock' = stock + row.qty /\ till' = till - row.paid
        /\ balance' = balance - CreditOf(row)
    BY DEF ComesBack
  <2> QED BY <1>2, <1>3, <1>4, <2>1, <2>2
<1> QED BY <1>1, <1>5, BackBooks DEF BooksStep

LEMMA ReturnBooks ==
    ASSUME SalesInv, SalesInv', NEW r \in Returns,
           \/ PostDraft(r)
           \/ \E c \in Clerks : ReturnPost(c, r) \/ ReturnDraft(c, r)
    PROVE  BooksStep
<1>1. CASE PostDraft(r)
  <2>1. ReturnInv(ret[r]) /\ ret[r].status # "posted" /\ ComesBack(r, ret[r])
    BY <1>1 DEF PostDraft, SalesInv, ReturnsInv
  <2>2. UNCHANGED <<invoice, takings>>
    BY <1>1 DEF PostDraft
  <2> QED BY <2>1, <2>2, ComesBackBooks
<1>2. ASSUME NEW c \in Clerks, ReturnPost(c, r) PROVE BooksStep
  <2>1. PICK q \in 1..Max(Quantities) : Returnable(c, q) /\ ComesBack(r, NewReturnOf(c, q))
    BY <1>2 DEF ReturnPost
  <2> DEFINE row == NewReturnOf(c, q)
  <2>2. ReturnInv(row)
    BY <2>1, NewReturnFacts
  <2>3. UNCHANGED <<invoice, takings>> /\ ret[r].status # "posted"
    BY <1>2 DEF ReturnPost, NewReturn
  <2> HIDE DEF row
  <2>4. ComesBack(r, row)
    BY <2>1 DEF row
  <2> QED BY <2>2, <2>3, <2>4, ComesBackBooks
<1>3. ASSUME NEW c \in Clerks, ReturnDraft(c, r) PROVE BooksStep
  <2> DEFINE q == invoice[clerk[c].inv].qty - Returned(clerk[c].inv)
             row == NewReturnOf(c, q)
  <2>1. ret' = [ret EXCEPT ![r] = row] /\ ret[r].status = "none"
    BY <1>3 DEF ReturnDraft, NewReturn
  <2>2. row.status = "quotation"
    BY DEF NewReturnOf
  <2> HIDE DEF row
  <2>3. ret'[r] = row /\ \A s \in Returns \ {r} : ret'[s] = ret[s]
    BY <2>1 DEF SalesInv, ReturnsInv
  <2>4. UNCHANGED <<books, invoice, takings>>
    BY <1>3 DEF ReturnDraft
  <2>5. /\ BackBy(r) = 0 /\ CashBy(r) = 0 /\ CreditBy(r) = 0
        /\ BackBy(r)' = 0 /\ CashBy(r)' = 0 /\ CreditBy(r)' = 0
    BY <2>1, <2>2, <2>3 DEF BackBy, CashBy, CreditBy
  <2>6. /\ stock' = stock + BackBy(r)' - BackBy(r)
        /\ till' = till - CashBy(r)' + CashBy(r)
        /\ balance' = balance - CreditBy(r)' + CreditBy(r)
    BY <2>4, <2>5 DEF books, SalesInv, BooksInv
  <2> QED BY <2>3, <2>4, <2>6, BackBooks DEF BooksStep
<1> QED BY <1>1, <1>2, <1>3

LEMMA PayBooks ==
    ASSUME SalesInv, SalesInv', NEW i \in Invoices, Pay(i)
    PROVE  BooksStep
<1>1. PICK tender \in Tenders, cut \in Discounts :
        LET credit == ReturnedCredit(i)
            discount == Least(cut, Positive(Due(i) - credit))
            total == Total(i) - discount
            left == Positive(Positive(total - invoice[i].paid) - credit)
            amount == Least(tender, left)
            rows == WithReceipt(i, amount)
            paid == IF amount = 0 THEN invoice[i].paid ELSE PaidAfter(i, amount, rows)
        IN  /\ invoice' = [invoice EXCEPT ![i].discount = @ + discount, ![i].paid = paid]
            /\ takings' = rows
            /\ till' = till + amount
            /\ balance' = balance + Positive(total - paid) - Due(i)
  BY DEF Pay
<1> DEFINE credit == ReturnedCredit(i)
           discount == Least(cut, Positive(Due(i) - credit))
           total == Total(i) - discount
           left == Positive(Positive(total - invoice[i].paid) - credit)
           amount == Least(tender, left)
           rows == WithReceipt(i, amount)
           paid == IF amount = 0 THEN invoice[i].paid ELSE PaidAfter(i, amount, rows)
<1>2. /\ invoice' = [invoice EXCEPT ![i].discount = @ + discount, ![i].paid = paid]
      /\ takings' = rows /\ till' = till + amount
      /\ balance' = balance + Positive(total - paid) - Due(i)
  BY <1>1
<1>3. /\ credit \in Nat /\ Due(i) \in Nat /\ Due(i) <= Total(i) /\ Total(i) \in Nat
      /\ invoice[i].paid \in Nat /\ cut \in Nat /\ tender \in Nat /\ tender <= MaxPaid
      /\ MaxPaid \in Nat /\ invoice[i].qty \in Nat /\ invoice[i].discount \in Nat
      /\ invoice[i].qty * Price \in Nat
      /\ Total(i) = invoice[i].qty * Price - invoice[i].discount
  BY RowFacts, ReturnSums, DiscountNat, TenderFits, TenderBound DEF SalesInv, Total
<1>4. discount \in Nat /\ total \in Int
  BY <1>3 DEF Least, Positive
<1>5. amount \in 0..MaxPaid /\ amount \in Nat
  <2> HIDE DEF credit, total
  <2> QED BY <1>3, <1>4 DEF Least, Positive
<1> HIDE DEF credit, discount, left, amount, paid
<1>6. i \in Accounts /\ takings \in [Receipts -> Nat]
  BY DEF Accounts, SalesInv, ReceiptsInv
<1>7. /\ Taken(takings', i) = Taken(takings, i) + amount
      /\ \A j \in Accounts \ {i} : Taken(takings', j) = Taken(takings, j)
  BY <1>2, <1>5, <1>6, ReceiptAdded
<1>8. /\ invoice'[i].qty = invoice[i].qty /\ invoice'[i].paid = paid
      /\ invoice'[i].discount = invoice[i].discount + discount
      /\ invoice'[i].status = invoice[i].status
      /\ \A j \in Invoices \ {i} : invoice'[j] = invoice[j]
  BY <1>2 DEF SalesInv, RowsInv, InvoiceRow
<1>9. Applied(i) /\ Applied(i)'
  BY <1>8 DEF Pay, Applied
<1>10. Total(i)' = total
  BY <1>3, <1>4, <1>8 DEF Total
<1>11. /\ SoldOn(i) = invoice[i].qty /\ SoldOn(i)' = invoice[i].qty
       /\ OwedOn(i) = Due(i) /\ OwedOn(i)' = Positive(total - paid)
  BY <1>8, <1>9, <1>10 DEF SoldOn, OwedOn, Due
<1>12. OwedOn(i)' \in Int
  BY <1>9, RowFactsPrimed DEF SalesInv, OwedOn
<1>13. UNCHANGED <<stock, ret>> /\ BackKept
  BY DEF Pay, BackKept
<1>14. stock \in Int /\ till \in Int /\ balance \in Int /\ Taken(takings, i) \in Int
  BY <1>6, TakenNat DEF SalesInv, BooksInv
<1> HIDE DEF total, rows
<1>15. /\ stock' = stock + SoldOn(i) - SoldOn(i)'
       /\ till' = till + Taken(takings', i) - Taken(takings, i)
       /\ balance' = balance + OwedOn(i)' - OwedOn(i)
  BY <1>2, <1>3, <1>5, <1>7, <1>11, <1>12, <1>13, <1>14
<1> QED BY <1>7, <1>8, <1>13, <1>15, InvoiceBooks DEF BooksStep

\* The paid amount of every invoice is within its total.
Covered == \A i \in Invoices : invoice[i].paid <= Total(i)

\* A receipt is voided: its amount is owed again, unless more was paid than the total.
LEMMA VoidBooks ==
    ASSUME SalesInv, SalesInv', NEW i \in Accounts, NEW n \in Amounts, Void(i, n)
    PROVE  ShelfStep /\ TillStep /\ (Covered => BalanceStep)
<1>1. /\ takings[<<i, n>>] > 0 /\ takings' = [takings EXCEPT ![<<i, n>>] = @ - 1]
      /\ stock' = stock /\ till' = till - n /\ balance' = balance + n /\ BackKept
  BY DEF Void, BackKept
<1>2. takings \in [Receipts -> Nat] /\ n \in Nat
  BY ReceiptIn DEF SalesInv, ReceiptsInv
<1>3. /\ takings' \in [Receipts -> Nat]
      /\ Taken(takings', i) = Taken(takings, i) - n
      /\ \A j \in Accounts \ {i} : Taken(takings', j) = Taken(takings, j)
  BY <1>1, <1>2, ReceiptVoided
<1>4. stock \in Int /\ till \in Int /\ balance \in Int /\ Taken(takings, i) \in Int
  BY <1>2, TakenNat DEF SalesInv, BooksInv
<1>5. CASE i = OnAccount
  <2>1. Sold' = Sold /\ Owed' = Owed
    <3>1. UNCHANGED invoice
      BY <1>5 DEF Void
    <3> QED BY <3>1 DEF Sold, Owed, AppliedInvoices, Applied, Due, Total
  <2>2. Received' = Received + Taken(takings', i) - Taken(takings, i)
    BY <1>2, <1>3, ReceivedMoves
  <2>3. CameBack' = CameBack + 0 /\ PaidBack' = PaidBack + 0 /\ Credited' = Credited + 0
    BY <1>1, BackAdd DEF SalesInv
  <2>4. Sold \in Int /\ Owed \in Int /\ Received \in Int
    BY <1>2, InvoiceSums, ReceivedSum DEF SalesInv
  <2> DEFINE m == 0 - n
  <2>5. /\ Sold' = Sold + 0 /\ Owed' = Owed + 0 /\ Received' = Received + m
        /\ Taken(takings', OnAccount) = Taken(takings, OnAccount) + m
    BY <1>2, <1>3, <1>4, <1>5, <2>1, <2>2, <2>4
  <2>6. /\ stock' = stock - 0 + 0 /\ till' = till + m - 0 /\ balance' = balance + 0 - 0 - m
    BY <1>1, <1>2, <1>4
  <2>7. m \in Int /\ 0 \in Int
    BY <1>2
  <2> HIDE DEF m
  <2> QED BY <2>3, <2>5, <2>6, <2>7, BooksAdd
<1>6. CASE i # OnAccount
  <2>1. i \in Invoices /\ invoice' = [invoice EXCEPT ![i].paid = Taken(takings', i)]
    BY <1>6 DEF Void, Accounts
  <2>2. invoice[i].paid = Taken(takings, i) /\ n <= Taken(takings, i) /\ n > 0
    BY <1>1, <1>2, <2>1, TakenHolds, TenderBound DEF SalesInv, ReceiptsInv, Amounts
  <2>3. /\ invoice'[i].qty = invoice[i].qty /\ invoice'[i].paid = Taken(takings', i)
        /\ invoice'[i].discount = invoice[i].discount /\ invoice'[i].status = invoice[i].status
        /\ \A j \in Invoices \ {i} : invoice'[j] = invoice[j]
    BY <2>1 DEF SalesInv, RowsInv, InvoiceRow
  <2>4. /\ invoice[i].qty \in Nat /\ Total(i) \in Nat /\ Due(i) \in Nat
    BY <2>1, RowFacts DEF SalesInv
  <2>5. Applied(i) /\ Applied(i)'
    <3>1. invoice[i].paid # 0
      BY <1>2, <1>4, <2>2
    <3>2. Applied(i)
      BY <2>1, <3>1 DEF SalesInv, RowsInv, RowInv, Applied
    <3> QED BY <2>3, <3>2 DEF Applied
  <2>6. SoldOn(i) = invoice[i].qty /\ SoldOn(i)' = invoice[i].qty
    BY <2>3, <2>5 DEF SoldOn
  <2>7. /\ stock' = stock + SoldOn(i) - SoldOn(i)'
        /\ till' = till + Taken(takings', i) - Taken(takings, i)
    BY <1>1, <1>2, <1>3, <1>4, <2>4, <2>6
  <2>8. ASSUME Covered PROVE balance' = balance + OwedOn(i)' - OwedOn(i)
    <3>1. /\ OwedOn(i) = Positive(Total(i) - Taken(takings, i))
          /\ OwedOn(i)' = Positive(Total(i) - Taken(takings', i))
      BY <2>2, <2>3, <2>5 DEF OwedOn, Due, Total
    <3>2. Taken(takings, i) <= Total(i)
      BY <2>1, <2>2, <2>8 DEF Covered
    <3>3. OwedOn(i)' = OwedOn(i) + n /\ OwedOn(i) \in Int
      BY <1>2, <1>3, <1>4, <2>4, <3>1, <3>2 DEF Positive
    <3> QED BY <1>1, <1>2, <1>4, <3>3
  <2> QED BY <1>1, <1>3, <2>1, <2>3, <2>7, <2>8, InvoiceBooks
<1> QED BY <1>5, <1>6

\* What a request copied of its invoice still is what the invoice says.
Fresh(c) ==
    LET i == clerk[c].inv
    IN  /\ i \in Invoices
        /\ clerk[c].applied <=> Applied(i)
        /\ clerk[c].qty = invoice[i].qty
        /\ clerk[c].total = Total(i)
        /\ clerk[c].due = OwedOn(i)

\* The receipts are replaced: the books follow when the copy is fresh.
LEMMA EditBooks ==
    ASSUME SalesInv, SalesInv', NEW c \in Clerks, EditWrite(c)
    PROVE  ShelfStep /\ TillStep /\ (Fresh(c) => BalanceStep)
<1>0. PICK i \in Invoices : i = clerk[c].inv
  BY DEF EditWrite, SalesInv, CopiesInv
<1>1. clerk[c].job = "edit" /\ Applied(i) /\ UNCHANGED <<stock, ret>>
  BY <1>0 DEF EditWrite
<1>2. PICK paid \in Tenders :
        /\ takings' = [p \in Receipts |-> IF p = <<i, paid>> THEN 1 ELSE WithoutReceiptsOf(i)[p]]
        /\ till' = till + paid - Taken(takings, i)
        /\ invoice' = [invoice EXCEPT ![i].paid = paid]
        /\ balance' = balance + Positive(Total(i) - paid) - clerk[c].due
  BY <1>0 DEF EditWrite
<1>3. i \in Invoices /\ i \in Accounts /\ clerk[c].due \in 0..MaxAmount
  BY <1>1 DEF SalesInv, CopiesInv, Request, Accounts
<1>4. paid \in 0..MaxPaid /\ paid \in Nat /\ takings \in [Receipts -> Nat]
  BY TenderFits DEF SalesInv, ReceiptsInv
<1>5. Taken(takings', i) = paid /\ \A j \in Accounts \ {i} : Taken(takings', j) = Taken(takings, j)
  BY <1>2, <1>3, <1>4, ReceiptsReplaced
<1>6. /\ invoice'[i].qty = invoice[i].qty /\ invoice'[i].paid = paid
      /\ invoice'[i].discount = invoice[i].discount /\ invoice'[i].status = invoice[i].status
      /\ \A j \in Invoices \ {i} : invoice'[j] = invoice[j]
  BY <1>2, <1>3 DEF SalesInv, RowsInv, InvoiceRow
<1>7. Applied(i)'
  BY <1>1, <1>6 DEF Applied
<1>8. /\ SoldOn(i) = invoice[i].qty /\ SoldOn(i)' = invoice[i].qty
      /\ OwedOn(i)' = Positive(Total(i) - paid)
  BY <1>1, <1>6, <1>7 DEF SoldOn, OwedOn, Due, Total
<1>9. /\ stock \in Int /\ till \in Int /\ balance \in Int /\ Taken(takings, i) \in Int
      /\ invoice[i].qty \in Int /\ Total(i) \in Int /\ OwedOn(i) \in Int
  BY <1>3, <1>4, TakenNat, RowFacts DEF SalesInv, BooksInv, OwedOn
<1>10. /\ stock' = stock + SoldOn(i) - SoldOn(i)'
       /\ till' = till + Taken(takings', i) - Taken(takings, i)
  BY <1>1, <1>2, <1>4, <1>5, <1>8, <1>9
<1>11. Fresh(c) => balance' = balance + OwedOn(i)' - OwedOn(i)
  <2>1. Fresh(c) => clerk[c].due = OwedOn(i)
    BY <1>0 DEF Fresh
  <2> QED BY <1>2, <1>8, <2>1
<1>12. BackKept
  BY <1>1 DEF BackKept
<1> QED BY <1>3, <1>5, <1>6, <1>10, <1>11, <1>12, InvoiceBooks

\* A deletion takes back what the copy says was sold and is due.
LEMMA DeleteBooks ==
    ASSUME SalesInv, SalesInv', NEW c \in Clerks, DeleteWrite(c)
    PROVE  TillStep /\ (Fresh(c) => ShelfStep /\ BalanceStep)
<1>0. PICK i \in Invoices : i = clerk[c].inv
  BY DEF DeleteWrite, SalesInv, CopiesInv
<1> DEFINE row == [NoInvoice EXCEPT !.status = "deleted"]
<1>1. /\ clerk[c].job = "delete"
      /\ takings' = WithoutReceiptsOf(i)
      /\ till' = till - Taken(takings, i)
      /\ balance' = balance - clerk[c].due
      /\ invoice' = [invoice EXCEPT ![i] = row]
      /\ ret' = [r \in Returns |-> IF ret[r].of = i THEN [ret[r] EXCEPT !.of = OnAccount]
                                   ELSE ret[r]]
  BY <1>0 DEF DeleteWrite
<1>2. PICK lines \in {clerk[c].qty, invoice[i].qty} : stock' = stock + Restocked(c, lines)
  BY <1>0 DEF DeleteWrite
<1>3. /\ i \in Invoices /\ i \in Accounts /\ clerk[c].due \in 0..MaxAmount
      /\ takings \in [Receipts -> Nat]
  BY <1>1 DEF SalesInv, CopiesInv, Request, Accounts, ReceiptsInv
<1>4. Taken(takings', i) = 0 /\ \A j \in Accounts \ {i} : Taken(takings', j) = Taken(takings, j)
  BY <1>1, <1>3, ReceiptsPurged
<1>5. row.status = "deleted"
  BY DEF NoInvoice
<1>6. BackKept
  <2>1. \A r \in Returns : ret'[r] = IF ret[r].of = i THEN [ret[r] EXCEPT !.of = OnAccount]
                                     ELSE ret[r]
    BY <1>1
  <2>2. \A r \in Returns : ret[r] \in ReturnRow
    BY DEF SalesInv, ReturnsInv
  <2> QED BY <2>1, <2>2 DEF BackKept, ReturnRow
<1> HIDE DEF row
<1>7. invoice'[i] = row /\ \A j \in Invoices \ {i} : invoice'[j] = invoice[j]
  BY <1>1, <1>3 DEF SalesInv, RowsInv
<1>8. SoldOn(i)' = 0 /\ OwedOn(i)' = 0
  BY <1>5, <1>7 DEF SoldOn, OwedOn, Applied
<1>9. /\ stock \in Int /\ till \in Int /\ balance \in Int /\ Taken(takings, i) \in Int
      /\ SoldOn(i) \in Int /\ OwedOn(i) \in Int
  BY <1>3, TakenNat, RowFacts DEF SalesInv, BooksInv, SoldOn, OwedOn
<1>10. till' = till + Taken(takings', i) - Taken(takings, i)
  BY <1>1, <1>4, <1>9
<1>11. ASSUME Fresh(c)
       PROVE  /\ stock' = stock + SoldOn(i) - SoldOn(i)'
              /\ balance' = balance + OwedOn(i)' - OwedOn(i)
  <2>1. /\ clerk[c].applied <=> Applied(i)
        /\ clerk[c].qty = invoice[i].qty /\ clerk[c].due = OwedOn(i)
    BY <1>0, <1>11 DEF Fresh
  <2>2. Restocked(c, lines) = SoldOn(i)
    BY <1>2, <2>1 DEF Restocked, SoldOn
  <2> QED BY <1>1, <1>2, <1>8, <1>9, <2>1, <2>2
<1> QED BY <1>3, <1>4, <1>6, <1>7, <1>10, <1>11, InvoiceBooks

\* Of an amount the open invoices take, the oldest first, all of it or all that is open.
LEMMA PartsTaken ==
    ASSUME RowsInv, ReturnsInv, NEW n \in Nat
    PROVE  /\ SumFunction([i \in AppliedInvoices |-> Part(i, n)]) = Least(n, OpenInAll)
           /\ [i \in AppliedInvoices |-> Part(i, n)] \in [AppliedInvoices -> Nat]
           /\ IsFiniteSet(AppliedInvoices)
<1> DEFINE A == AppliedInvoices
           d == [j \in A |-> OpenDue(j)]
           part == [j \in A |-> Part(j, n)]
<1>1. A \subseteq Invoices /\ A \subseteq Nat /\ IsFiniteSet(A)
  BY AccountApart, RowsFinite, FS_Subset DEF AppliedInvoices
<1>2. d \in [A -> Nat] /\ part \in [A -> Nat]
  BY <1>1, DueFacts, PartFacts
<1>3. ASSUME NEW i \in A PROVE part[i] = Smaller(d[i], Rest(n, Earlier(A, d, i)))
  <2> DEFINE S == {k \in A : k < i}
             g == [j \in S |-> OpenDue(j)]
  <2>1. \A x \in S : d[x] \in Int /\ g[x] = d[x]
    BY <1>1, <1>2
  <2>2. IsFiniteSet(S)
    BY <1>1, FS_Subset
  <2>3. OpenBefore(i) = SumFunctionOnSet(g, S) /\ Earlier(A, d, i) = SumFunctionOnSet(d, S)
    BY DEF OpenBefore, SumFunction, Earlier
  <2>4. OpenBefore(i) \in Nat /\ part[i] = Part(i, n) /\ d[i] = OpenDue(i) /\ d[i] \in Nat
    BY <1>1, <1>2, OpenNat
  <2>5. Part(i, n) = Least(OpenDue(i), Positive(n - OpenBefore(i)))
    BY DEF Part, AppliedInvoices
  <2> HIDE DEF A, d, part, g, S
  <2>6. SumFunctionOnSet(g, S) = SumFunctionOnSet(d, S)
    BY <2>1, <2>2, SumSame
  <2> QED BY <2>3, <2>4, <2>5, <2>6 DEF Least, Positive, Smaller, Rest
<1>4. OpenInAll = SumFunction(d)
  BY DEF OpenInAll
<1> HIDE DEF d, part
<1>5. Served(A, d, n, part)
  BY <1>1, <1>2, <1>3 DEF Served
<1>6. SumFunction(part) = Smaller(n, SumFunction(d))
  BY <1>5, SumServed
<1> QED BY <1>1, <1>2, <1>4, <1>6 DEF part, Smaller, Least

\* What is due falls by what the open invoices take.
LEMMA DueServed ==
    ASSUME SalesInv, RowsInv', NEW n \in Nat,
           \A i \in Invoices : /\ invoice'[i].status = invoice[i].status
                               /\ invoice'[i].qty = invoice[i].qty
                               /\ Due(i)' = Due(i) - Part(i, n)
    PROVE  Sold' = Sold + 0 /\ Owed' = Owed + (0 - Least(n, OpenInAll))
<1> DEFINE A == AppliedInvoices
           f == [i \in A |-> Due(i)]
           k == [i \in A |-> Due(i)']
           part == [i \in A |-> Part(i, n)]
<1>1. RowsInv /\ ReturnsInv /\ A \subseteq Invoices
  BY DEF SalesInv, AppliedInvoices
<1>2. AppliedInvoices' = A
  BY DEF AppliedInvoices, Applied
<1>3. /\ SumFunction(part) = Least(n, OpenInAll) /\ part \in [A -> Nat] /\ IsFiniteSet(A)
  BY <1>1, PartsTaken
<1>4. \A i \in A : Due(i) \in Int /\ Due(i)' \in Int
  BY <1>1, RowFacts, RowFactsPrimed
<1>5. f \in [A -> Int] /\ k \in [A -> Int]
  BY <1>4
<1>6. \A i \in A : f[i] = k[i] + part[i]
  <2> TAKE i \in A
  <2>1. f[i] = Due(i) /\ k[i] = Due(i)' /\ part[i] = Part(i, n) /\ part[i] \in Nat
    BY <1>3
  <2>2. Due(i)' = Due(i) - Part(i, n)
    BY <1>1
  <2> QED BY <1>4, <2>1, <2>2
<1>7. Owed = SumFunction(f) /\ Owed' = SumFunction(k)
  BY <1>2 DEF Owed
<1>8. Sold' = Sold /\ Sold \in Int
  BY <1>1, <1>2, InvoiceSums DEF Sold
<1> HIDE DEF f, k, part, A
<1>9. Together(A, k, part, f)
  BY <1>3, <1>5, <1>6 DEF Together
<1>10. /\ SumFunction(k) \in Int /\ SumFunction(part) \in Int
       /\ SumFunction(f) = SumFunction(k) + SumFunction(part)
  BY <1>9, SumTogether
<1> QED BY <1>3, <1>7, <1>8, <1>10

\* A written-off debt leaves the account and the invoices together.
LEMMA WriteOffBooks ==
    ASSUME SalesInv, SalesInv', WriteOff
    PROVE  BooksStep
<1>1. balance \in Nat
  BY DEF WriteOff, SalesInv, BooksInv
<1>2. PICK n \in Nat : n = balance
  BY <1>1
<1>3. /\ invoice' = [i \in Invoices |-> [invoice[i] EXCEPT !.discount = @ + Part(i, n)]]
      /\ balance' = balance - Least(n, OpenInAll)
      /\ UNCHANGED <<stock, till, ret, takings>>
  BY <1>2 DEF WriteOff
<1>4. RowsInv /\ ReturnsInv /\ RowsInv'
  BY DEF SalesInv
<1>5. ASSUME NEW i \in Invoices
      PROVE  /\ invoice'[i].status = invoice[i].status /\ invoice'[i].qty = invoice[i].qty
             /\ Due(i)' = Due(i) - Part(i, n)
  <2>1. /\ invoice'[i].status = invoice[i].status /\ invoice'[i].qty = invoice[i].qty
        /\ invoice'[i].discount = invoice[i].discount + Part(i, n)
        /\ invoice'[i].paid = invoice[i].paid
    BY <1>3, <1>4 DEF RowsInv, InvoiceRow
  <2>2. /\ Part(i, n) \in Nat /\ Part(i, n) <= Due(i)
        /\ invoice[i].qty * Price \in Nat /\ invoice[i].discount \in Nat
        /\ invoice[i].paid \in Nat /\ Due(i) \in Nat
    BY <1>4, PartFacts, RowFacts
  <2>3. /\ Due(i) = Positive(invoice[i].qty * Price - invoice[i].discount - invoice[i].paid)
        /\ Due(i)' = Positive(invoice[i].qty * Price - (invoice[i].discount + Part(i, n))
                              - invoice[i].paid)
    BY <2>1 DEF Due, Total
  <2> QED BY <2>1, <2>2, <2>3 DEF Positive
<1> DEFINE d == 0 - Least(n, OpenInAll)
<1>6. Sold' = Sold + 0 /\ Owed' = Owed + d
  BY <1>4, <1>5, DueServed
<1>7. Least(n, OpenInAll) \in Int
  BY <1>4, OpenNat DEF Least
<1>8. d \in Int /\ 0 \in Int
  BY <1>7
<1>9. /\ stock \in Int /\ till \in Int /\ balance \in Int
      /\ Received \in Int /\ Taken(takings, OnAccount) \in Int
  BY ReceivedSum DEF SalesInv, BooksInv, ReceiptsInv
<1>10. Received' = Received + 0 /\ Taken(takings', OnAccount) = Taken(takings, OnAccount) + 0
  BY <1>3, <1>9, ReceivedSame
<1>11. CameBack' = CameBack + 0 /\ PaidBack' = PaidBack + 0 /\ Credited' = Credited + 0
  BY <1>3, <1>4, BackAdd DEF BackKept
<1>12. stock' = stock - 0 + 0 /\ till' = till + 0 - 0 /\ balance' = balance + d - 0 - 0
  BY <1>3, <1>7, <1>9
<1> HIDE DEF d
<1> QED BY <1>6, <1>8, <1>10, <1>11, <1>12, BooksAdd DEF BooksStep

\* What a collection writes on the receipts: a part for each invoice, the rest for the
\* account, and all of it together.
LEMMA CollectReceipts ==
    ASSUME SalesInv, NEW n \in Nat, n <= MaxPaid, NEW left, left = Positive(n - OpenInAll),
           takings' = [p \in Receipts |->
               takings[p] + IF p[2] = (IF p[1] = OnAccount THEN left ELSE Part(p[1], n))
                            THEN 1 ELSE 0]
    PROVE  /\ Received' = Received + n
           /\ Taken(takings', OnAccount) = Taken(takings, OnAccount) + left
           /\ left \in Nat /\ left = n - Least(n, OpenInAll)
<1> DEFINE m == [j \in Accounts |-> IF j = OnAccount THEN left ELSE Part(j, n)]
           p == [j \in Invoices |-> Part(j, n)]
           part == [j \in AppliedInvoices |-> Part(j, n)]
           f == [j \in Accounts |-> Taken(takings, j)]
           g == [j \in Accounts |-> Taken(takings', j)]
<1>1. RowsInv /\ ReturnsInv /\ takings \in [Receipts -> Nat] /\ OpenInAll \in Nat
      /\ MaxPaid \in Nat
  BY OpenNat, TenderBound DEF SalesInv, ReceiptsInv
<1>2. left \in Nat /\ left \in 0..MaxPaid /\ left = n - Least(n, OpenInAll)
  BY <1>1 DEF Positive, Least
<1>3. \A j \in Invoices : /\ Part(j, n) \in Nat /\ Part(j, n) \in 0..MaxPaid
                          /\ ~Applied(j) => Part(j, n) = 0
  BY <1>1, PartFacts
<1>4. /\ m[OnAccount] = left /\ \A j \in Invoices : m[j] = p[j] /\ p[j] = Part(j, n)
      /\ OnAccount \in Accounts /\ Invoices = Accounts \ {OnAccount}
  BY AccountApart DEF Accounts
<1>5. \A j \in Accounts : m[j] \in 0..MaxPaid
  BY <1>2, <1>3 DEF Accounts
<1>6. m \in [Accounts -> Int] /\ p \in [Invoices -> Int]
  BY <1>1, <1>3, <1>5
<1>7. takings' = [q \in Receipts |-> takings[q] + IF q[2] = m[q[1]] THEN 1 ELSE 0]
  <2>1. \A q \in Receipts : m[q[1]] = IF q[1] = OnAccount THEN left ELSE Part(q[1], n)
    BY DEF Receipts, Accounts
  <2> HIDE DEF m
  <2> QED BY <2>1
<1>8. part \in [AppliedInvoices -> Int] /\ SumFunction(part) = Least(n, OpenInAll)
  BY <1>1, PartsTaken
<1>9. \A j \in AppliedInvoices : p[j] = part[j]
  BY DEF AppliedInvoices
<1>10. \A j \in Invoices \ AppliedInvoices : p[j] = 0
  BY <1>3 DEF AppliedInvoices
<1>11. /\ IsFiniteSet(Invoices) /\ IsFiniteSet(Accounts) /\ AppliedInvoices \subseteq Invoices
  BY RowsFinite DEF AppliedInvoices, Accounts
<1> HIDE DEF m, p, part
<1>12. /\ takings' \in [Receipts -> Nat]
       /\ \A j \in Accounts : Taken(takings', j) = Taken(takings, j) + m[j]
  BY <1>1, <1>5, <1>7, ReceiptsSpread
<1>13. f \in [Accounts -> Int] /\ g \in [Accounts -> Int]
  BY <1>1, <1>12, TakenNat
<1>14. \A j \in Accounts : g[j] = f[j] + m[j]
  BY <1>12
<1>15. Received = SumFunction(f) /\ Received' = SumFunction(g)
  BY DEF Received
<1> HIDE DEF f, g
<1>16. Together(Accounts, f, m, g)
  BY <1>6, <1>11, <1>13, <1>14 DEF Together
<1>17. Padded(Invoices, AppliedInvoices, part, p)
  BY <1>6, <1>8, <1>9, <1>10, <1>11 DEF Padded
<1>18. Moved(Accounts, Invoices, Accounts, OnAccount, p, m)
  BY <1>4, <1>6, <1>11, AccountApart DEF Moved
<1>19. At(Invoices, p, OnAccount) = 0 /\ At(Accounts, m, OnAccount) = left
  BY <1>4, AccountApart DEF At
<1>20. SumFunction(p) = Least(n, OpenInAll)
  BY <1>8, <1>17, SumPadded
<1>21. SumFunction(m) = SumFunction(p) + left - 0
  BY <1>18, <1>19, SumMoved
<1>22. Least(n, OpenInAll) \in Nat
  BY <1>1 DEF Least
<1>23. SumFunction(m) = n
  BY <1>2, <1>20, <1>21, <1>22
<1>24. Received' = Received + n
  BY <1>15, <1>16, <1>23, SumTogether
<1>25. Taken(takings', OnAccount) = Taken(takings, OnAccount) + left
  BY <1>4, <1>12
<1> QED BY <1>2, <1>24, <1>25

\* A collection pays invoices and account with one amount.
LEMMA CollectBooks ==
    ASSUME SalesInv, SalesInv', Collect
    PROVE  BooksStep
<1>1. PICK n \in Tenders :
        LET left == Positive(n - OpenInAll)
        IN  /\ invoice' = [i \in Invoices |-> [invoice[i] EXCEPT !.paid = @ + Part(i, n)]]
            /\ takings' = [p \in Receipts |->
                    takings[p] + IF p[2] = (IF p[1] = OnAccount THEN left ELSE Part(p[1], n))
                                 THEN 1 ELSE 0]
            /\ till' = till + n
            /\ balance' = balance - n
  BY DEF Collect
<1>2. RowsInv /\ ReturnsInv /\ RowsInv' /\ OpenInAll \in Nat
  BY OpenNat DEF SalesInv
<1>3. n \in Nat /\ n <= MaxPaid
  BY TenderFits, TenderBound
<1>4. Positive(n - OpenInAll) \in Nat
  BY <1>2, <1>3 DEF Positive
<1>5. PICK left \in Nat : left = Positive(n - OpenInAll)
  BY <1>4
<1>6. /\ invoice' = [i \in Invoices |-> [invoice[i] EXCEPT !.paid = @ + Part(i, n)]]
      /\ takings' = [p \in Receipts |->
              takings[p] + IF p[2] = (IF p[1] = OnAccount THEN left ELSE Part(p[1], n))
                           THEN 1 ELSE 0]
      /\ till' = till + n /\ balance' = balance - n /\ UNCHANGED <<stock, ret>>
  BY <1>1, <1>5 DEF Collect
<1>7. /\ Received' = Received + n
      /\ Taken(takings', OnAccount) = Taken(takings, OnAccount) + left
      /\ left = n - Least(n, OpenInAll)
  BY <1>3, <1>5, <1>6, CollectReceipts
<1>8. ASSUME NEW i \in Invoices
      PROVE  /\ invoice'[i].status = invoice[i].status /\ invoice'[i].qty = invoice[i].qty
             /\ Due(i)' = Due(i) - Part(i, n)
  <2>1. /\ invoice'[i].status = invoice[i].status /\ invoice'[i].qty = invoice[i].qty
        /\ invoice'[i].discount = invoice[i].discount
        /\ invoice'[i].paid = invoice[i].paid + Part(i, n)
    BY <1>2, <1>6 DEF RowsInv, InvoiceRow
  <2>2. /\ Part(i, n) \in Nat /\ Part(i, n) <= Due(i) /\ Total(i) \in Nat
        /\ invoice[i].paid \in Nat /\ Due(i) \in Nat
    BY <1>2, <1>3, PartFacts, RowFacts
  <2>3. /\ Due(i) = Positive(Total(i) - invoice[i].paid)
        /\ Due(i)' = Positive(Total(i) - (invoice[i].paid + Part(i, n)))
    BY <2>1 DEF Due, Total
  <2> QED BY <2>1, <2>2, <2>3 DEF Positive
<1> DEFINE d == 0 - Least(n, OpenInAll)
<1>9. Sold' = Sold + 0 /\ Owed' = Owed + d
  BY <1>2, <1>3, <1>8, DueServed
<1>10. Least(n, OpenInAll) \in Int
  BY <1>2, <1>3 DEF Least
<1>11. d \in Int /\ 0 \in Int /\ n \in Int /\ left \in Int
  BY <1>3, <1>10
<1>12. CameBack' = CameBack + 0 /\ PaidBack' = PaidBack + 0 /\ Credited' = Credited + 0
  BY <1>2, <1>6, BackAdd DEF BackKept
<1>13. stock \in Int /\ till \in Int /\ balance \in Int
  BY DEF SalesInv, BooksInv
<1>14. stock' = stock - 0 + 0 /\ till' = till + n - 0 /\ balance' = balance + d - 0 - left
  BY <1>3, <1>6, <1>7, <1>10, <1>13
<1> HIDE DEF d
<1> QED BY <1>7, <1>9, <1>11, <1>12, <1>14, BooksAdd DEF BooksStep

-----------------------------------------------------------------------------
(* Copies stay fresh when edits and deletions overlap nothing              *)

\* A request that edits or deletes is alone, and its copy is fresh.
FreshInv ==
    /\ \A c \in Clerks : clerk[c].job \in Unlocked => Fresh(c)
    /\ \A c, d \in Clerks : clerk[c].job \in Unlocked /\ clerk[d].job \in Unlocked => c = d

\* The treasury always follows; the shelf and the account need fresh copies, and
\* the account that no more was paid than the total.
LEMMA BooksFollow ==
    ASSUME SalesInv, SalesInv', [SalesNext]_vars
    PROVE  /\ TillStep
           /\ FreshInv => ShelfStep
           /\ FreshInv /\ Covered => BalanceStep
<1>1. CASE UNCHANGED vars
  BY <1>1, CopyBooks DEF vars, BooksStep
<1>2. ASSUME NEW i \in Invoices, Sell(i) \/ Deliver(i) \/ Quote(i) \/ PostQuotation(i) \/ Pay(i)
      PROVE  BooksStep
  BY <1>2, SellBooks, DeliverBooks, QuoteBooks, PostQuotationBooks, PayBooks
<1>3. ASSUME NEW r \in Returns, PostDraft(r) \/ \E i \in Invoices : Correct(r, i)
      PROVE  BooksStep
  BY <1>3, ReturnBooks, CorrectBooks
<1>4. CASE Collect \/ WriteOff
  BY <1>4, CollectBooks, WriteOffBooks DEF BooksStep
<1>5. ASSUME NEW i \in Invoices \cup {OnAccount}, NEW amount \in Amounts, Void(i, amount)
      PROVE  ShelfStep /\ TillStep /\ (Covered => BalanceStep)
  BY <1>5, VoidBooks DEF Accounts
<1>6. ASSUME NEW c \in Clerks, Abandon(c) PROVE BooksStep
  BY <1>6, CopyBooks DEF Abandon
<1>7. ASSUME NEW c \in Clerks, EditWrite(c)
      PROVE  /\ TillStep
             /\ FreshInv => ShelfStep /\ BalanceStep
  <2>1. FreshInv => Fresh(c)
    BY <1>7 DEF EditWrite, FreshInv, Unlocked
  <2> QED BY <1>7, <2>1, EditBooks
<1>8. ASSUME NEW c \in Clerks, DeleteWrite(c)
      PROVE  /\ TillStep
             /\ FreshInv => ShelfStep /\ BalanceStep
  <2>1. FreshInv => Fresh(c)
    BY <1>8 DEF DeleteWrite, FreshInv, Unlocked
  <2> QED BY <1>8, <2>1, DeleteBooks
<1>9. ASSUME NEW c \in Clerks, NEW i \in Invoices,
             ReturnRead(c, i) \/ EditRead(c, i) \/ DeleteRead(c, i)
      PROVE  BooksStep
  BY <1>9, CopyBooks DEF ReturnRead, EditRead, DeleteRead
<1>10. ASSUME NEW c \in Clerks, NEW r \in Returns, ReturnPost(c, r) \/ ReturnDraft(c, r)
       PROVE  BooksStep
  BY <1>10, ReturnBooks
<1> QED BY <1>1, <1>2, <1>3, <1>4, <1>5, <1>6, <1>7, <1>8, <1>9, <1>10 DEF SalesNext, BooksStep

\* Nothing is sold, received or returned at first.
LEMMA BooksOpen ==
    ASSUME SalesInit
    PROVE  stock = OnShelf /\ till = InTill /\ balance = OnBalance
<1>1. SalesInv /\ AppliedInvoices = {} /\ PostedReturns = {}
  BY SalesInvInit DEF SalesInit, AppliedInvoices, Applied, NoInvoice, PostedReturns, NoReturn
<1>2. \A i \in Accounts : Taken(takings, i) = 0
  <2>1. takings \in [Receipts -> Nat] /\ \A p \in Receipts : takings[p] = 0
    BY DEF SalesInit
  <2>2. \A i \in Accounts : \A a \in Amounts : takings[<<i, a>>] = 0
    BY <2>1, ReceiptIn
  <2> QED BY <2>1, <2>2, TakenNone
<1>3. /\ Sold = 0 /\ Owed = 0 /\ CameBack = 0 /\ PaidBack = 0 /\ Credited = 0
  BY <1>1, SumEmpty DEF Sold, Owed, CameBack, PaidBack, Credited, SumFunction
<1>4. Received = 0
  <2> DEFINE f == [i \in Accounts |-> Taken(takings, i)]
  <2>1. \A i \in Accounts : f[i] = 0
    BY <1>2
  <2>2. Received = SumFunctionOnSet(f, Accounts)
    BY DEF Received, SumFunction
  <2>3. IsFiniteSet(Accounts)
    BY RowsFinite DEF Accounts
  <2> HIDE DEF f
  <2> QED BY <2>1, <2>2, <2>3, SumZero
<1>5. Taken(takings, OnAccount) = 0
  BY <1>2 DEF Accounts
<1> QED BY <1>3, <1>4, <1>5, OpeningNat DEF SalesInit, OnShelf, InTill, OnBalance

LEMMA BooksIntNext == SalesInv' => (OnShelf \in Int /\ InTill \in Int /\ OnBalance \in Int)'
<1>1. SalesInv => OnShelf \in Int /\ InTill \in Int /\ OnBalance \in Int
  BY BooksInt
<1> QED BY <1>1, PTL

LEMMA TillHolds == SalesSpec => [](SalesInv /\ till = InTill)
<1>1. SalesInit => SalesInv /\ till = InTill
  BY SalesInvInit, BooksOpen
<1>2. (SalesInv /\ till = InTill) /\ [SalesNext]_vars => (SalesInv /\ till = InTill)'
  <2> SUFFICES ASSUME SalesInv, till = InTill, [SalesNext]_vars
               PROVE  SalesInv' /\ till' = InTill'
    OBVIOUS
  <2>1. SalesInv'
    BY SalesInvStep
  <2>2. TillStep
    BY <2>1, BooksFollow
  <2>3. till' \in Int /\ till \in Int
    BY <2>1 DEF SalesInv, BooksInv
  <2>4. InTill' \in Int
    BY <2>1, BooksIntNext
  <2> QED BY <2>1, <2>2, <2>3, <2>4 DEF TillStep
<1> QED BY <1>1, <1>2, PTL DEF SalesSpec

\* Whatever is paid, collected, voided, edited, returned or deleted, and whatever
\* overlaps, an invoice's paid amount is what its receipts add up to, and the treasury
\* holds all the receipts less the cash refunded.
THEOREM ReceiptsAddUp == SalesSpec => []MoneyMatchesReceipts
<1>1. SalesInv /\ till = InTill => MoneyMatchesReceipts
  BY DEF SalesInv, ReceiptsInv, InTill, Received, PaidBack, Accounts, MoneyMatchesReceipts,
         AppliedInvoices
<1> QED BY <1>1, TillHolds, PTL

\* With no request that edits or deletes, there is no copy to be stale.
LEMMA FreshNone ==
    ASSUME \A c \in Clerks : clerk'[c].job \notin Unlocked
    PROVE  FreshInv'
BY DEF FreshInv, Unlocked

\* The request that edits or deletes ends.
LEMMA FreshDropped ==
    ASSUME CopiesInv, NEW c \in Clerks, clerk' = [clerk EXCEPT ![c] = NoRequest],
           \A d \in Clerks \ {c} : clerk[d].job \notin Unlocked
    PROVE  FreshInv'
<1>1. clerk'[c].job = "idle" /\ \A d \in Clerks \ {c} : clerk'[d] = clerk[d]
  BY DEF CopiesInv, NoRequest
<1>2. \A d \in Clerks : clerk'[d].job \notin Unlocked
  BY <1>1 DEF Unlocked
<1> QED BY <1>2, FreshNone

\* A request reads its invoice: its copy is fresh.
LEMMA FreshBegun ==
    ASSUME SalesInv, NEW c \in Clerks, NEW i \in Invoices, NEW job, Begin(c, job, i),
           UNCHANGED invoice, \A d \in Clerks : clerk[d].job \notin Unlocked
    PROVE  FreshInv'
<1> DEFINE copy == [job |-> job, inv |-> i, applied |-> Applied(i), qty |-> invoice[i].qty,
                    total |-> Total(i), due |-> IF Applied(i) THEN Due(i) ELSE 0,
                    discount |-> invoice[i].discount]
<1>1. clerk'[c] = copy /\ \A d \in Clerks \ {c} : clerk'[d] = clerk[d]
  BY DEF Begin, SalesInv, CopiesInv
<1>2. /\ clerk'[c].inv = i /\ clerk'[c].applied = Applied(i)
      /\ clerk'[c].qty = invoice[i].qty /\ clerk'[c].total = Total(i)
      /\ clerk'[c].due = OwedOn(i)
  BY <1>1 DEF OwedOn
<1>3. Applied(i)' = Applied(i) /\ Total(i)' = Total(i) /\ OwedOn(i)' = OwedOn(i)
  BY DEF Applied, Total, OwedOn, Due
<1> HIDE DEF copy
<1>4. Fresh(c)'
  BY <1>2, <1>3 DEF Fresh, Applied, Total, OwedOn, Due
<1>5. \A d \in Clerks : clerk'[d].job \in Unlocked => d = c
  BY <1>1
<1>6. (\A d \in Clerks : clerk[d].job \in Unlocked => Fresh(d))'
  BY <1>4, <1>5 DEF Unlocked
<1> QED BY <1>5, <1>6 DEF FreshInv, Unlocked

\* Every other request waits for the one that edits or deletes.
LEMMA FreshInvStep ==
    ASSUME ~Overlap, SalesInv, FreshInv, [SalesNext]_vars
    PROVE  FreshInv'
<1>1. Quiet => \A c \in Clerks : clerk[c].job \notin Unlocked
  BY DEF Quiet
<1>2. CASE UNCHANGED vars
  <2>1. UNCHANGED <<invoice, clerk>>
    BY <1>2 DEF vars
  <2> QED BY <2>1 DEF FreshInv, Fresh, Applied, Total, OwedOn, Due, Unlocked
<1>3. CASE Quiet /\ UNCHANGED clerk
  BY <1>1, <1>3, FreshNone
<1>4. ASSUME NEW i \in Invoices, Sell(i) \/ Deliver(i) \/ Quote(i) \/ PostQuotation(i) \/ Pay(i)
      PROVE  FreshInv'
  BY <1>3, <1>4 DEF Sell, Deliver, Quote, PostQuotation, Pay
<1>5. ASSUME NEW r \in Returns, PostDraft(r) \/ \E i \in Invoices : Correct(r, i)
      PROVE  FreshInv'
  BY <1>3, <1>5 DEF PostDraft, Correct
<1>6. CASE Collect \/ WriteOff
  BY <1>3, <1>6 DEF Collect, WriteOff
<1>7. ASSUME NEW i \in Invoices \cup {OnAccount}, NEW amount \in Amounts, Void(i, amount)
      PROVE  FreshInv'
  BY <1>3, <1>7 DEF Void
<1>8. ASSUME NEW c \in Clerks, Abandon(c) PROVE FreshInv'
  <2>1. /\ clerk'[c].job = "idle" /\ \A d \in Clerks \ {c} : clerk'[d] = clerk[d]
        /\ UNCHANGED invoice
    BY <1>8 DEF Abandon, SalesInv, CopiesInv, NoRequest
  <2>2. ASSUME NEW d \in Clerks, clerk'[d].job \in Unlocked
        PROVE  Fresh(d)' /\ clerk[d].job \in Unlocked
    <3>1. d # c /\ clerk'[d] = clerk[d] /\ Fresh(d)
      BY <2>1, <2>2 DEF Unlocked, FreshInv
    <3> QED BY <2>1, <2>2, <3>1 DEF Fresh, Applied, Total, OwedOn, Due
  <2> QED BY <2>2 DEF FreshInv, Unlocked
<1>9. ASSUME NEW c \in Clerks, EditWrite(c) \/ DeleteWrite(c) PROVE FreshInv'
  <2>1. clerk[c].job \in Unlocked /\ clerk' = [clerk EXCEPT ![c] = NoRequest]
    BY <1>9 DEF EditWrite, DeleteWrite, Unlocked
  <2>2. \A d \in Clerks \ {c} : clerk[d].job \notin Unlocked
    BY <2>1 DEF FreshInv
  <2> QED BY <2>1, <2>2, FreshDropped DEF SalesInv
<1>10. ASSUME NEW c \in Clerks, NEW i \in Invoices,
              ReturnRead(c, i) \/ EditRead(c, i) \/ DeleteRead(c, i)
       PROVE  FreshInv'
  <2>1. PICK job : Begin(c, job, i)
    BY <1>10 DEF ReturnRead, EditRead, DeleteRead
  <2>2. Quiet /\ UNCHANGED invoice
    BY <1>10 DEF ReturnRead, EditRead, DeleteRead
  <2> QED BY <1>1, <2>1, <2>2, FreshBegun
<1>11. ASSUME NEW c \in Clerks, NEW r \in Returns, ReturnPost(c, r) \/ ReturnDraft(c, r)
       PROVE  FreshInv'
  <2>1. Quiet /\ clerk' = [clerk EXCEPT ![c] = NoRequest]
    BY <1>11 DEF ReturnPost, ReturnDraft
  <2> QED BY <1>1, <2>1, FreshDropped DEF SalesInv
<1> QED BY <1>2, <1>4, <1>5, <1>6, <1>7, <1>8, <1>9, <1>10, <1>11 DEF SalesNext

\* Edits and deletions that overlap nothing: no piece leaves or comes back twice.
LEMMA ShelfHolds ==
    ASSUME ~Overlap
    PROVE  SalesSpec => [](SalesInv /\ FreshInv /\ stock = OnShelf)
<1>1. SalesInit => SalesInv /\ FreshInv /\ stock = OnShelf
  BY SalesInvInit, BooksOpen DEF SalesInit, FreshInv, NoRequest, Unlocked
<1>2. (SalesInv /\ FreshInv /\ stock = OnShelf) /\ [SalesNext]_vars
          => (SalesInv /\ FreshInv /\ stock = OnShelf)'
  <2> SUFFICES ASSUME SalesInv, FreshInv, stock = OnShelf, [SalesNext]_vars
               PROVE  SalesInv' /\ FreshInv' /\ stock' = OnShelf'
    OBVIOUS
  <2>1. SalesInv'
    BY SalesInvStep
  <2>2. FreshInv'
    BY FreshInvStep
  <2>3. ShelfStep
    BY <2>1, BooksFollow
  <2>4. stock' \in Int /\ stock \in Int
    BY <2>1 DEF SalesInv, BooksInv
  <2>5. OnShelf' \in Int
    BY <2>1, BooksIntNext
  <2> QED BY <2>1, <2>2, <2>3, <2>4, <2>5 DEF ShelfStep
<1> QED BY <1>1, <1>2, PTL DEF SalesSpec

\* What is on the shelf is what was there, less what was sold, plus what came back,
\* whatever is quoted, returned, corrected, edited or deleted, when no request
\* overlaps an edit or a deletion (with overlap, two deletions of one invoice bring
\* its goods back twice).
THEOREM ShelfMatches ==
    ASSUME ~Overlap
    PROVE  SalesSpec => []StockMatchesInvoices
<1>1. SalesInv /\ stock = OnShelf => StockMatchesInvoices
  BY DEF OnShelf, Sold, CameBack, StockMatchesInvoices
<1> QED BY <1>1, ShelfHolds, PTL

-----------------------------------------------------------------------------
(* No more is paid than the total, unless the total is zero                *)

\* One row is written, and it is covered.
LEMMA CoveredWritten ==
    ASSUME Covered, NEW i \in Invoices, \A j \in Invoices \ {i} : invoice'[j] = invoice[j],
           invoice'[i].paid <= Total(i)'
    PROVE  Covered'
<1>1. \A j \in Invoices \ {i} : invoice'[j].paid <= Total(j)'
  BY DEF Covered, Total
<1> QED BY <1>1 DEF Covered, Total

\* Goods leave with no more paid than their total.
LEMMA CoveredSale ==
    ASSUME SalesInv, Covered, NEW i \in Invoices, NEW row, GoesOut(i, row),
           row.paid <= row.qty * Price - row.discount
    PROVE  Covered'
<1>1. invoice'[i] = row /\ \A j \in Invoices \ {i} : invoice'[j] = invoice[j]
  BY DEF GoesOut, SalesInv, RowsInv
<1>2. invoice'[i].paid <= Total(i)'
  BY <1>1 DEF Total
<1> QED BY <1>1, <1>2, CoveredWritten

LEMMA CoveredSell ==
    ASSUME ~PayNothing, SalesInv, Covered, NEW i \in Invoices, Sell(i)
    PROVE  Covered'
<1>1. PICK q \in Quantities, d \in Discounts, paid \in Tenders, s \in {"posted", "in_progress"} :
          /\ Payable(q * Price - d, paid)
          /\ GoesOut(i, [status |-> s, qty |-> q, discount |-> d, paid |-> paid])
  BY DEF Sell
<1>2. paid <= q * Price - d
  BY <1>1 DEF Payable
<1> DEFINE row == [status |-> s, qty |-> q, discount |-> d, paid |-> paid]
<1>3. GoesOut(i, row) /\ row.paid <= row.qty * Price - row.discount
  BY <1>1, <1>2
<1> HIDE DEF row
<1> QED BY <1>3, CoveredSale

LEMMA CoveredDeliver ==
    ASSUME SalesInv, Covered, NEW i \in Invoices, Deliver(i)
    PROVE  Covered'
<1>1. \A j \in Invoices \ {i} : invoice'[j] = invoice[j]
  BY DEF Deliver, SalesInv, RowsInv
<1>2. /\ invoice'[i].paid = invoice[i].paid /\ invoice'[i].qty = invoice[i].qty
      /\ invoice'[i].discount = invoice[i].discount
  BY DEF Deliver, SalesInv, RowsInv, InvoiceRow
<1>3. invoice'[i].paid <= Total(i)'
  BY <1>2 DEF Covered, Total
<1> QED BY <1>1, <1>3, CoveredWritten

LEMMA CoveredQuote ==
    ASSUME SalesInv, Covered, NEW i \in Invoices, Quote(i)
    PROVE  Covered'
<1>1. PICK q \in Quantities, d \in Discounts :
          /\ d <= q * Price
          /\ invoice' = [invoice EXCEPT ![i] =
                  [status |-> "quotation", qty |-> q, discount |-> d, paid |-> 0]]
  BY DEF Quote
<1>2. /\ invoice'[i].qty = q /\ invoice'[i].discount = d /\ invoice'[i].paid = 0
      /\ \A j \in Invoices \ {i} : invoice'[j] = invoice[j]
  BY <1>1 DEF SalesInv, RowsInv
<1>3. q * Price \in Nat /\ d \in Nat
  <2>1. q \in 0..Max(Quantities)
    BY QuantityBound
  <2> QED BY <2>1, AmountBound, DiscountNat
<1>4. invoice'[i].paid <= Total(i)'
  BY <1>1, <1>2, <1>3 DEF Total
<1> QED BY <1>2, <1>4, CoveredWritten

LEMMA CoveredQuotationPosted ==
    ASSUME SalesInv, Covered, NEW i \in Invoices, PostQuotation(i)
    PROVE  Covered'
<1>1. PICK paid \in {0, Total(i)} :
          GoesOut(i, [invoice[i] EXCEPT !.status = "posted", !.paid = paid])
  BY DEF PostQuotation
<1> DEFINE row == [invoice[i] EXCEPT !.status = "posted", !.paid = paid]
<1>2. /\ row.paid = paid /\ row.qty = invoice[i].qty /\ row.discount = invoice[i].discount
      /\ GoesOut(i, row)
  BY <1>1 DEF SalesInv, RowsInv, InvoiceRow
<1>3. Total(i) \in Nat /\ Total(i) = invoice[i].qty * Price - invoice[i].discount
  BY RowFacts DEF SalesInv, Total
<1> HIDE DEF row
<1>4. row.paid <= row.qty * Price - row.discount
  BY <1>2, <1>3
<1> QED BY <1>2, <1>4, CoveredSale

LEMMA CoveredCorrect ==
    ASSUME SalesInv, Covered, NEW r \in Returns, NEW i \in Invoices, Correct(r, i)
    PROVE  Covered'
<1>1. PICK paid \in {0, ret[r].total} :
          GoesOut(i, [status |-> "posted", qty |-> ret[r].qty,
                      discount |-> ret[r].qty * Price - ret[r].total, paid |-> paid])
  BY DEF Correct
<1> DEFINE row == [status |-> "posted", qty |-> ret[r].qty,
                   discount |-> ret[r].qty * Price - ret[r].total, paid |-> paid]
<1>2. /\ row.paid = paid /\ row.qty = ret[r].qty
      /\ row.discount = ret[r].qty * Price - ret[r].total /\ GoesOut(i, row)
  BY <1>1
<1>3. ret[r].qty * Price \in Nat /\ ret[r].total \in Nat
  BY ReturnFacts DEF SalesInv
<1> HIDE DEF row
<1>4. row.paid <= row.qty * Price - row.discount
  BY <1>2, <1>3
<1> QED BY <1>2, <1>4, CoveredSale

\* A discount is cut from what is left, and a payment is no more than what is left then.
LEMMA CoveredPay ==
    ASSUME SalesInv, Covered, NEW i \in Invoices, Pay(i)
    PROVE  Covered'
<1>1. PICK tender \in Tenders, cut \in Discounts :
        LET credit == ReturnedCredit(i)
            discount == Least(cut, Positive(Due(i) - credit))
            total == Total(i) - discount
            left == Positive(Positive(total - invoice[i].paid) - credit)
            amount == Least(tender, left)
            rows == WithReceipt(i, amount)
            paid == IF amount = 0 THEN invoice[i].paid ELSE PaidAfter(i, amount, rows)
        IN  /\ invoice' = [invoice EXCEPT ![i].discount = @ + discount, ![i].paid = paid]
            /\ takings' = rows
  BY DEF Pay
<1> DEFINE credit == ReturnedCredit(i)
           discount == Least(cut, Positive(Due(i) - credit))
           total == Total(i) - discount
           left == Positive(Positive(total - invoice[i].paid) - credit)
           amount == Least(tender, left)
           rows == WithReceipt(i, amount)
           paid == IF amount = 0 THEN invoice[i].paid ELSE PaidAfter(i, amount, rows)
<1>2. /\ invoice' = [invoice EXCEPT ![i].discount = @ + discount, ![i].paid = paid]
      /\ takings' = rows
  BY <1>1
<1>3. /\ credit \in Nat /\ Due(i) \in Nat /\ Due(i) <= Total(i) /\ Total(i) \in Nat
      /\ invoice[i].paid \in Nat /\ cut \in Nat /\ tender \in Nat /\ tender <= MaxPaid
      /\ MaxPaid \in Nat /\ invoice[i].discount \in Nat /\ invoice[i].qty * Price \in Nat
      /\ Total(i) = invoice[i].qty * Price - invoice[i].discount
      /\ invoice[i].paid <= Total(i) /\ Due(i) = Positive(Total(i) - invoice[i].paid)
  BY RowFacts, ReturnSums, DiscountNat, TenderFits, TenderBound DEF SalesInv, Total, Due, Covered
<1>4. discount \in Nat /\ total \in Int /\ invoice[i].paid <= total
  BY <1>3 DEF Least, Positive
<1>5. amount \in 0..MaxPaid /\ amount \in Nat /\ invoice[i].paid + amount <= total
  <2>1. left \in Nat /\ left <= total - invoice[i].paid
    <3> HIDE DEF credit, total
    <3> QED BY <1>3, <1>4 DEF Positive
  <2>2. amount \in Nat /\ amount <= tender /\ amount <= left
    <3> HIDE DEF left
    <3> QED BY <1>3, <2>1 DEF Least
  <2> HIDE DEF left, amount, total
  <2> QED BY <1>3, <1>4, <2>1, <2>2
<1> HIDE DEF credit, discount, left, amount
<1>6. i \in Accounts /\ takings \in [Receipts -> Nat] /\ invoice[i].paid = Taken(takings, i)
  BY DEF Accounts, SalesInv, ReceiptsInv
<1>7. Taken(takings', i) = Taken(takings, i) + amount
  BY <1>2, <1>5, <1>6, ReceiptAdded
<1>8. paid <= total
  <2>1. amount # 0 => paid = Taken(takings', i)
    BY <1>2 DEF PaidAfter
  <2>2. amount = 0 => paid = invoice[i].paid
    OBVIOUS
  <2> HIDE DEF paid, total
  <2> QED BY <1>4, <1>5, <1>6, <1>7, <2>1, <2>2
<1> HIDE DEF paid
<1>9. /\ invoice'[i].qty = invoice[i].qty /\ invoice'[i].paid = paid
      /\ invoice'[i].discount = invoice[i].discount + discount
      /\ \A j \in Invoices \ {i} : invoice'[j] = invoice[j]
  BY <1>2 DEF SalesInv, RowsInv, InvoiceRow
<1>10. Total(i)' = total
  BY <1>3, <1>4, <1>9 DEF Total
<1> QED BY <1>8, <1>9, <1>10, CoveredWritten

LEMMA CoveredCollect ==
    ASSUME SalesInv, Covered, Collect
    PROVE  Covered'
<1>1. PICK n \in Tenders :
        invoice' = [i \in Invoices |-> [invoice[i] EXCEPT !.paid = @ + Part(i, n)]]
  BY DEF Collect
<1>2. RowsInv /\ ReturnsInv /\ n \in Nat
  BY TenderFits DEF SalesInv
<1>3. ASSUME NEW i \in Invoices PROVE invoice'[i].paid <= Total(i)'
  <2>1. /\ invoice'[i].qty = invoice[i].qty /\ invoice'[i].discount = invoice[i].discount
        /\ invoice'[i].paid = invoice[i].paid + Part(i, n)
    BY <1>1, <1>2 DEF RowsInv, InvoiceRow
  <2>2. /\ Part(i, n) \in Nat /\ Part(i, n) <= Due(i) /\ Total(i) \in Nat
        /\ invoice[i].paid \in Nat /\ invoice[i].paid <= Total(i)
        /\ Due(i) = Positive(Total(i) - invoice[i].paid)
    BY <1>2, PartFacts, RowFacts DEF Covered, Due
  <2>3. Total(i)' = Total(i)
    BY <2>1 DEF Total
  <2> QED BY <2>1, <2>2, <2>3 DEF Positive
<1> QED BY <1>3 DEF Covered, Total

LEMMA CoveredWriteOff ==
    ASSUME SalesInv, Covered, WriteOff
    PROVE  Covered'
<1>1. balance \in Nat
  BY DEF WriteOff, SalesInv, BooksInv
<1>2. PICK n \in Nat : n = balance
  BY <1>1
<1>3. invoice' = [i \in Invoices |-> [invoice[i] EXCEPT !.discount = @ + Part(i, n)]]
  BY <1>2 DEF WriteOff
<1>4. RowsInv /\ ReturnsInv
  BY DEF SalesInv
<1>5. ASSUME NEW i \in Invoices PROVE invoice'[i].paid <= Total(i)'
  <2>1. /\ invoice'[i].qty = invoice[i].qty /\ invoice'[i].paid = invoice[i].paid
        /\ invoice'[i].discount = invoice[i].discount + Part(i, n)
    BY <1>3, <1>4 DEF RowsInv, InvoiceRow
  <2>2. /\ Part(i, n) \in Nat /\ Part(i, n) <= Due(i)
        /\ invoice[i].qty * Price \in Nat /\ invoice[i].discount \in Nat
        /\ invoice[i].paid \in Nat /\ invoice[i].paid <= Total(i)
        /\ Total(i) = invoice[i].qty * Price - invoice[i].discount
        /\ Due(i) = Positive(Total(i) - invoice[i].paid)
    BY <1>4, PartFacts, RowFacts DEF Covered, Total, Due
  <2>3. Total(i)' = invoice[i].qty * Price - (invoice[i].discount + Part(i, n))
    BY <2>1 DEF Total
  <2> QED BY <2>1, <2>2, <2>3 DEF Positive
<1> QED BY <1>5 DEF Covered, Total

LEMMA CoveredVoid ==
    ASSUME SalesInv, Covered, NEW i \in Accounts, NEW n \in Amounts, Void(i, n)
    PROVE  Covered'
<1>1. CASE i = OnAccount
  <2>1. UNCHANGED invoice
    BY <1>1 DEF Void
  <2> QED BY <2>1 DEF Covered, Total
<1>2. CASE i # OnAccount
  <2>1. /\ i \in Invoices /\ invoice' = [invoice EXCEPT ![i].paid = Taken(takings', i)]
        /\ takings[<<i, n>>] > 0 /\ takings' = [takings EXCEPT ![<<i, n>>] = @ - 1]
        /\ takings \in [Receipts -> Nat] /\ n \in Nat
    BY <1>2, ReceiptIn DEF Void, Accounts, SalesInv, ReceiptsInv
  <2>2. Taken(takings', i) = Taken(takings, i) - n
    BY <2>1, ReceiptVoided
  <2>3. /\ invoice'[i].qty = invoice[i].qty /\ invoice'[i].paid = Taken(takings', i)
        /\ invoice'[i].discount = invoice[i].discount
        /\ \A j \in Invoices \ {i} : invoice'[j] = invoice[j]
    BY <2>1 DEF SalesInv, RowsInv, InvoiceRow
  <2>4. /\ invoice[i].paid = Taken(takings, i) /\ invoice[i].paid \in Nat
        /\ invoice[i].paid <= Total(i) /\ Total(i) \in Nat
    BY <2>1, RowFacts DEF SalesInv, ReceiptsInv, Covered
  <2>5. Total(i)' = Total(i)
    BY <2>3 DEF Total
  <2>6. invoice'[i].paid <= Total(i)'
    BY <2>1, <2>2, <2>3, <2>4, <2>5
  <2> QED BY <2>1, <2>3, <2>6, CoveredWritten
<1> QED BY <1>1, <1>2

\* The new receipt is within the total of a fresh copy; a deleted row is empty.
LEMMA CoveredWrites ==
    ASSUME ~PayNothing, SalesInv, Covered, NEW c \in Clerks, Fresh(c),
           EditWrite(c) \/ DeleteWrite(c)
    PROVE  Covered'
<1>0. PICK i \in Invoices : i = clerk[c].inv
  BY DEF Fresh
<1>1. CASE EditWrite(c)
  <2>1. PICK paid \in Tenders : /\ Payable(clerk[c].total, paid)
                                /\ invoice' = [invoice EXCEPT ![i].paid = paid]
    BY <1>0, <1>1 DEF EditWrite
  <2>2. paid <= Total(i)
    BY <1>0, <2>1 DEF Payable, Fresh
  <2>3. /\ invoice'[i].qty = invoice[i].qty /\ invoice'[i].paid = paid
        /\ invoice'[i].discount = invoice[i].discount
        /\ \A j \in Invoices \ {i} : invoice'[j] = invoice[j]
    BY <2>1 DEF SalesInv, RowsInv, InvoiceRow
  <2>4. invoice'[i].paid <= Total(i)'
    BY <2>2, <2>3 DEF Total
  <2> QED BY <2>3, <2>4, CoveredWritten
<1>2. CASE DeleteWrite(c)
  <2>1. invoice' = [invoice EXCEPT ![i] = [NoInvoice EXCEPT !.status = "deleted"]]
    BY <1>0, <1>2 DEF DeleteWrite
  <2>2. /\ invoice'[i].qty = 0 /\ invoice'[i].paid = 0 /\ invoice'[i].discount = 0
        /\ \A j \in Invoices \ {i} : invoice'[j] = invoice[j]
    BY <2>1 DEF SalesInv, RowsInv, NoInvoice
  <2>3. invoice'[i].paid <= Total(i)'
    BY <2>2, AmountBound DEF Total
  <2> QED BY <2>2, <2>3, CoveredWritten
<1> QED BY <1>1, <1>2

LEMMA CoveredStep ==
    ASSUME ~PayNothing, SalesInv, FreshInv, Covered, [SalesNext]_vars
    PROVE  Covered'
<1>1. CASE UNCHANGED invoice
  BY <1>1 DEF Covered, Total
<1>2. CASE UNCHANGED vars
  BY <1>1, <1>2 DEF vars
<1>3. ASSUME NEW i \in Invoices, Sell(i) \/ Deliver(i) \/ Quote(i) \/ PostQuotation(i) \/ Pay(i)
      PROVE  Covered'
  BY <1>3, CoveredSell, CoveredDeliver, CoveredQuote, CoveredQuotationPosted, CoveredPay
<1>4. ASSUME NEW r \in Returns, PostDraft(r) \/ \E i \in Invoices : Correct(r, i)
      PROVE  Covered'
  BY <1>1, <1>4, CoveredCorrect DEF PostDraft
<1>5. CASE Collect \/ WriteOff
  BY <1>5, CoveredCollect, CoveredWriteOff
<1>6. ASSUME NEW i \in Invoices \cup {OnAccount}, NEW amount \in Amounts, Void(i, amount)
      PROVE  Covered'
  BY <1>6, CoveredVoid DEF Accounts
<1>7. ASSUME NEW c \in Clerks, Abandon(c) \/ EditWrite(c) \/ DeleteWrite(c)
      PROVE  Covered'
  <2>1. EditWrite(c) \/ DeleteWrite(c) => Fresh(c)
    BY DEF EditWrite, DeleteWrite, FreshInv, Unlocked
  <2> QED BY <1>1, <1>7, <2>1, CoveredWrites DEF Abandon
<1>8. ASSUME NEW c \in Clerks, NEW i \in Invoices,
             ReturnRead(c, i) \/ EditRead(c, i) \/ DeleteRead(c, i)
      PROVE  Covered'
  BY <1>1, <1>8 DEF ReturnRead, EditRead, DeleteRead
<1>9. ASSUME NEW c \in Clerks, NEW r \in Returns, ReturnPost(c, r) \/ ReturnDraft(c, r)
      PROVE  Covered'
  BY <1>1, <1>9 DEF ReturnPost, ReturnDraft
<1> QED BY <1>2, <1>3, <1>4, <1>5, <1>6, <1>7, <1>8, <1>9 DEF SalesNext

\* No differences are lost: the account and the rows move together.
LEMMA AccountHolds ==
    ASSUME ~Overlap, ~PayNothing
    PROVE  SalesSpec => [](SalesInv /\ FreshInv /\ Covered /\ balance = OnBalance)
<1>1. SalesInit => SalesInv /\ FreshInv /\ Covered /\ balance = OnBalance
  <2>1. SalesInit => Covered
    BY AmountBound DEF SalesInit, NoInvoice, Covered, Total
  <2> QED BY <2>1, SalesInvInit, BooksOpen DEF SalesInit, FreshInv, NoRequest, Unlocked
<1>2. (SalesInv /\ FreshInv /\ Covered /\ balance = OnBalance) /\ [SalesNext]_vars
          => (SalesInv /\ FreshInv /\ Covered /\ balance = OnBalance)'
  <2> SUFFICES ASSUME SalesInv, FreshInv, Covered, balance = OnBalance, [SalesNext]_vars
               PROVE  SalesInv' /\ FreshInv' /\ Covered' /\ balance' = OnBalance'
    OBVIOUS
  <2>1. SalesInv'
    BY SalesInvStep
  <2>2. FreshInv' /\ Covered'
    BY FreshInvStep, CoveredStep
  <2>3. BalanceStep
    BY <2>1, BooksFollow
  <2>4. balance' \in Int /\ balance \in Int
    BY <2>1 DEF SalesInv, BooksInv
  <2>5. OnBalance' \in Int
    BY <2>1, BooksIntNext
  <2> QED BY <2>1, <2>2, <2>3, <2>4, <2>5 DEF BalanceStep
<1> QED BY <1>1, <1>2, PTL DEF SalesSpec

\* The customer owes what is due on the invoices, less what returns credited and what
\* was paid on account, after any number of sales, payments, collections, voids,
\* write-offs, returns, corrections, edits and deletions; when no request overlaps an
\* edit or a deletion, and no tender is entered for an invoice whose total is zero (a
\* later void of that tender would add to the account what was never owed).
THEOREM AccountMatches ==
    ASSUME ~Overlap, ~PayNothing
    PROVE  SalesSpec => []BalanceMatchesInvoices
<1>1. SalesInv /\ balance = OnBalance => BalanceMatchesInvoices
  BY DEF OnBalance, Owed, Credited, BalanceMatchesInvoices
<1> QED BY <1>1, AccountHolds, PTL

=============================================================================
