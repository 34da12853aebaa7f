---------------------------- MODULE WantedRequests ----------------------------
(***************************************************************************)
(* "Part wanted" requests of the parts marketplace: sellers answer a       *)
(* buyer's request with offers, the buyer accepts one, which becomes a     *)
(* private listing that only this buyer can check out, and the payment of  *)
(* that order closes the request.                                          *)
(*                                                                         *)
(* Closing a request and paying its order are two transactions that lock   *)
(* the same two rows in opposite orders: parts_wanted_cancel the request,  *)
(* then the orders; mark_paid the order, then the request.  What a         *)
(* transaction has locked and read, and has still to write, is in `txn`;   *)
(* its writes are seen by others when it commits.                          *)
(***************************************************************************)
EXTENDS Naturals, FiniteSets

CONSTANTS
    Requests,     \* the PartWantedRequest rows
    Offers,       \* the PartWantedOffer rows, one for each seller of a request
    RequestOf,    \* the request an offer answers
    Orders,       \* the PartOrder rows
    OfferOf,      \* the offer whose private listing an order would buy
    Workers,      \* the web and Celery workers
    MaxPrice,     \* bound on the prices a seller may ask
    EditRaces     \* whether an offer may change between the read and the write
                  \* of its seller's edit

Nothing == "-"    \* NULL

ASSUME WantedAssumption ==
    /\ Nothing \notin Requests \cup Offers \cup Orders
    /\ RequestOf \in [Offers -> Requests]
    /\ OfferOf \in [Orders -> Offers]
    /\ MaxPrice \in Nat \ {0}
    /\ EditRaces \in BOOLEAN

VARIABLES
    request,   \* PartWantedRequest.status
    offer,     \* PartWantedOffer.status, "none" while the row does not exist
    price,     \* PartWantedOffer.price_egp
    deal,      \* the private PartListing of an accepted offer: status, price,
               \* and the price its buyer was looking at when accepting
    order,     \* PartOrder.status up to its payment, "none" before checkout
    txn        \* what each worker has read or locked

wantedVars == <<request, offer, price, deal, order, txn>>

RequestStatus == {"open", "matched", "fulfilled", "cancelled", "expired"}
OfferStatus == {"none", "pending", "accepted", "rejected", "withdrawn"}
DealStatus == {"none", "active", "reserved", "sold", "removed"}
OrderStatus == {"none", "pending_payment", "paid_held", "cancelled"}
Prices == 0 .. MaxPrice

NoDeal == [status |-> "none", price |-> 0, seen |-> 0]

Work(job, target, read, p, ids) ==
    [job |-> job, target |-> target, read |-> read, price |-> p, ids |-> ids]

Idle == Work("idle", Nothing, Nothing, 0, {})

Jobs == {"submit", "edit", "accept", "cancel", "pay", "expire"}

Txn == [job : Jobs \cup {"idle"},
        target : Requests \cup Offers \cup Orders \cup {Nothing},
        read : Requests \cup Offers \cup OfferStatus \cup {Nothing},
        price : Prices,
        ids : SUBSET (Requests \cup Orders)]

Deal == [status : DealStatus, price : Prices, seen : Prices]

WantedTypeOK ==
    /\ request \in [Requests -> RequestStatus]
    /\ offer \in [Offers -> OfferStatus]
    /\ price \in [Offers -> Prices]
    /\ deal \in [Offers -> Deal]
    /\ order \in [Orders -> OrderStatus]
    /\ txn \in [Workers -> Txn]

\* Requests as parts_wanted_create leaves them, before any offer.
WantedInit ==
    /\ request = [r \in Requests |-> "open"]
    /\ offer = [f \in Offers |-> "none"]
    /\ price = [f \in Offers |-> 0]
    /\ deal = [f \in Offers |-> NoDeal]
    /\ order = [o \in Orders |-> "none"]
    /\ txn = [w \in Workers |-> Idle]

-----------------------------------------------------------------------------
(* Transactions and the row locks they hold                                *)

Start(w, t) ==
    /\ txn[w] = Idle
    /\ txn' = [txn EXCEPT ![w] = t]

End(w) == txn' = [txn EXCEPT ![w] = Idle]

\* parts_wanted_cancel keeps the request row until it commits.
RequestFree(r) == \A w \in Workers : ~(txn[w].job = "cancel" /\ txn[w].target = r)

\* mark_paid keeps the order row and, after its UPDATE, the listing row.
OrderFree(o) == \A w \in Workers : ~(txn[w].job = "pay" /\ txn[w].target = o)
DealFree(f) == \A w \in Workers : ~(txn[w].job = "pay" /\ OfferOf[txn[w].target] = f)

OffersOn(r) == {f \in Offers : RequestOf[f] = r}
OrdersFor(f) == {o \in Orders : OfferOf[o] = f}

UnchangedRows == UNCHANGED <<request, offer, price, deal, order>>

-----------------------------------------------------------------------------
(* Offers of the sellers                                                   *)

\* parts_wanted_offer_submit looks at the request without a lock.
SubmitRead(w, f) ==
    /\ request[RequestOf[f]] = "open"
    /\ \E p \in 1 .. MaxPrice : Start(w, Work("submit", f, Nothing, p, {}))
    /\ UnchangedRows

\* get_or_create: the first offer of this seller is inserted at once, an
\* existing one that is still open is edited further down.
SubmitCreate(w, f) ==
    /\ txn[w].job = "submit" /\ txn[w].target = f
    /\ offer[f] = "none"
    /\ offer' = [offer EXCEPT ![f] = "pending"]
    /\ price' = [price EXCEPT ![f] = txn[w].price]
    /\ End(w)
    /\ UNCHANGED <<request, deal, order>>

SubmitGet(w, f) ==
    /\ txn[w].job = "submit" /\ txn[w].target = f
    /\ offer[f] # "none"
    /\ IF offer[f] \in {"pending", "withdrawn"}
       THEN txn' = [txn EXCEPT ![w] = Work("edit", f, offer[f], @.price, {})]
       ELSE End(w)
    /\ UnchangedRows

EditSave(w, f) ==
    /\ txn[w].job = "edit" /\ txn[w].target = f
    /\ EditRaces \/ offer[f] = txn[w].read
    /\ offer' = [offer EXCEPT ![f] = "pending"]
    /\ price' = [price EXCEPT ![f] = txn[w].price]
    /\ End(w)
    /\ UNCHANGED <<request, deal, order>>

\* Where edits do not race, one that was overtaken is not modelled further.
EditOvertaken(w, f) ==
    /\ txn[w].job = "edit" /\ txn[w].target = f
    /\ ~EditRaces /\ offer[f] # txn[w].read
    /\ End(w)
    /\ UnchangedRows

\* parts_wanted_offer_withdraw is one conditional UPDATE.
OfferWithdraw(f) ==
    /\ offer[f] = "pending"
    /\ offer' = [offer EXCEPT ![f] = "withdrawn"]
    /\ UNCHANGED <<request, price, deal, order, txn>>

-----------------------------------------------------------------------------
(* The buyer accepts an offer, or closes the request                       *)

\* The page the buyer looks at (parts_wanted_my_requests).
AcceptRead(w, f) ==
    /\ request[RequestOf[f]] = "open"
    /\ offer[f] = "pending"
    /\ Start(w, Work("accept", f, Nothing, price[f], {}))
    /\ UnchangedRows

\* Mutant: the request is locked but its status not looked at.
AcceptableClosed(f) == offer[f] = "pending"

\* parts_wanted_offer_accept, once offer and request are locked.
Acceptable(f) == offer[f] = "pending" /\ request[RequestOf[f]] = "open"

OfferAccept(w, f) ==
    /\ txn[w].job = "accept" /\ txn[w].target = f
    /\ RequestFree(RequestOf[f])
    /\ Acceptable(f)
    /\ deal' = [deal EXCEPT ![f] =
                   [status |-> "active", price |-> price[f], seen |-> txn[w].price]]
    /\ offer' = [g \in Offers |->
                   IF g = f THEN "accepted"
                   ELSE IF RequestOf[g] = RequestOf[f] /\ offer[g] = "pending"
                        THEN "rejected" ELSE offer[g]]
    /\ request' = [request EXCEPT ![RequestOf[f]] = "matched"]
    /\ End(w)
    /\ UNCHANGED <<price, order>>

AcceptRefused(w, f) ==
    /\ txn[w].job = "accept" /\ txn[w].target = f
    /\ RequestFree(RequestOf[f])
    /\ ~Acceptable(f)
    /\ End(w)
    /\ UnchangedRows

Deals(r) == {f \in OffersOn(r) : offer[f] = "accepted" /\ deal[f].status # "none"}

PaidOn(f) == \E o \in OrdersFor(f) : order[o] = "paid_held"

CancelReads(r) == request[r] \in {"open", "matched"} /\ \A f \in Deals(r) : ~PaidOn(f)

\* parts_wanted_cancel locks the request, refuses when the accepted offer is
\* paid, and lists the pending orders it is about to cancel.
CancelRead(w, r) ==
    /\ RequestFree(r)
    /\ CancelReads(r)
    /\ \E f \in Deals(r) \cup {Nothing} :
          /\ f = Nothing => Deals(r) = {}
          /\ Start(w, Work("cancel", r, f, 0, {o \in Orders : OfferOf[o] = f
                                                     /\ order[o] = "pending_payment"}))
    /\ UnchangedRows

\* Mutant: a listing reserved by a checkout is left on sale.
OnSaleUnreserved(f) == deal[f].status = "active"

OnSale(f) == deal[f].status \in {"active", "reserved"}

\* Its waits are over: the orders listed are cancelled if still pending, the
\* private listing leaves the market unless it was sold.
CancelCommit(w, r) ==
    /\ txn[w].job = "cancel" /\ txn[w].target = r
    /\ \A o \in txn[w].ids : OrderFree(o)
    /\ txn[w].read # Nothing => DealFree(txn[w].read)
    /\ order' = [o \in Orders |->
                   IF o \in txn[w].ids /\ order[o] = "pending_payment"
                   THEN "cancelled" ELSE order[o]]
    /\ deal' = [f \in Offers |->
                   IF f = txn[w].read /\ OnSale(f)
                   THEN [deal[f] EXCEPT !.status = "removed"] ELSE deal[f]]
    /\ request' = [request EXCEPT ![r] = "cancelled"]
    /\ offer' = [f \in Offers |->
                   IF RequestOf[f] = r /\ offer[f] \in {"pending", "accepted"}
                   THEN "rejected" ELSE offer[f]]
    /\ End(w)
    /\ UNCHANGED price
-----------------------------------------------------------------------------
(* The private listing and its orders                                      *)

\* parts_listing_withdraw by the seller, a single transaction on the listing.
SellerWithdraws(f) ==
    /\ deal[f].status = "active"
    /\ deal' = [deal EXCEPT ![f].status = "removed"]
    /\ UNCHANGED <<request, offer, price, order, txn>>

\* reserve_listing_for_checkout, a single transaction on the listing.
Checkout(o) ==
    /\ order[o] = "none"
    /\ deal[OfferOf[o]].status = "active"
    /\ deal' = [deal EXCEPT ![OfferOf[o]].status = "reserved"]
    /\ order' = [order EXCEPT ![o] = "pending_payment"]
    /\ UNCHANGED <<request, offer, price, txn>>

\* Mutant: cancel_unpaid does not look at the row it has locked.
UnpaidUnchecked(o) == order[o] # "none"

Unpaid(o) == order[o] = "pending_payment"

\* cancel_unpaid, called for the buyer or by the sweep of abandoned checkouts.
CancelUnpaid(o) ==
    /\ OrderFree(o) /\ DealFree(OfferOf[o])
    /\ Unpaid(o)
    /\ order' = [order EXCEPT ![o] = "cancelled"]
    /\ deal' = IF /\ deal[OfferOf[o]].status = "reserved"
                  /\ \A p \in OrdersFor(OfferOf[o]) \ {o} : order[p] \in {"none", "cancelled"}
               THEN [deal EXCEPT ![OfferOf[o]].status = "active"] ELSE deal
    /\ UNCHANGED <<request, offer, price, txn>>

\* Mutant: the wanted request is not closed by the payment.
ClosesNothing(o) == Nothing

\* The request that the payment of an order closes.
Closes(o) ==
    IF offer[OfferOf[o]] = "accepted" /\ request[RequestOf[OfferOf[o]]] \in {"open", "matched"}
    THEN RequestOf[OfferOf[o]] ELSE Nothing

\* mark_paid locks the order and the listing, and looks at the offer and its
\* request without a lock.
PayRead(w, o) ==
    /\ order[o] = "pending_payment"
    /\ OrderFree(o) /\ DealFree(OfferOf[o])
    /\ Start(w, Work("pay", o, Closes(o), 0, {}))
    /\ UnchangedRows

\* It commits when the request row, if there is one to write, is free.
PayCommit(w, o) ==
    /\ txn[w].job = "pay" /\ txn[w].target = o
    /\ txn[w].read # Nothing => RequestFree(txn[w].read)
    /\ order' = [order EXCEPT ![o] = "paid_held"]
    /\ deal' = [deal EXCEPT ![OfferOf[o]].status = "sold"]
    /\ request' = [r \in Requests |->
                      IF r = txn[w].read THEN "fulfilled" ELSE request[r]]
    /\ End(w)
    /\ UNCHANGED <<offer, price>>

-----------------------------------------------------------------------------
(* The sweep of expired requests                                           *)

\* The ids are collected before the transaction; the deadline of an open
\* request may pass any time.
ExpireScan(w, r) ==
    /\ request[r] = "open"
    /\ \E more \in SUBSET {q \in Requests : request[q] = "open"} :
          Start(w, Work("expire", Nothing, Nothing, 0, more \cup {r}))
    /\ UnchangedRows

\* Mutant: the sweep's UPDATE looks for a status no row of its list has.
StillOpenMisspelt(q) == request[q] = "expired"

StillOpen(q) == request[q] = "open"

ExpireWrite(w) ==
    /\ txn[w].job = "expire"
    /\ \A r \in txn[w].ids : StillOpen(r) => RequestFree(r)
    /\ request' = [r \in Requests |->
                      IF r \in txn[w].ids /\ StillOpen(r) THEN "expired" ELSE request[r]]
    /\ offer' = [f \in Offers |->
                    IF RequestOf[f] \in txn[w].ids /\ offer[f] = "pending"
                    THEN "rejected" ELSE offer[f]]
    /\ End(w)
    /\ UNCHANGED <<price, deal, order>>

-----------------------------------------------------------------------------
(* Deadlock: PostgreSQL aborts one of the transactions in a cycle of waits.*)

Blocks(p, c) ==
    /\ txn[p].job = "pay" /\ txn[c].job = "cancel"
    /\ txn[p].target \in txn[c].ids \/ OfferOf[txn[p].target] = txn[c].read
    /\ txn[p].read = txn[c].target

\* Mutant: the waits are never resolved.
NoVictim(w) == FALSE

\* A callback that is aborted answers 500 and is delivered again; a cancelled
\* wanted request has to be cancelled again by its buyer.
DeadlockVictim(w) ==
    /\ \E v \in Workers : Blocks(w, v) \/ Blocks(v, w)
    /\ End(w)
    /\ UnchangedRows

-----------------------------------------------------------------------------
(* The specification                                                       *)

OfferStep(w, f) ==
    \/ SubmitCreate(w, f) \/ SubmitGet(w, f) \/ EditSave(w, f)
    \/ EditOvertaken(w, f) \/ OfferAccept(w, f) \/ AcceptRefused(w, f)

\* What a worker does with the transaction or request it has begun.
WorkerStep(w) ==
    \/ \E f \in Offers : OfferStep(w, f)
    \/ \E r \in Requests : CancelCommit(w, r)
    \/ \E o \in Orders : PayCommit(w, o)
    \/ ExpireWrite(w)
    \/ DeadlockVictim(w)

Arrival(w) ==
    \/ \E f \in Offers : SubmitRead(w, f) \/ AcceptRead(w, f)
    \/ \E r \in Requests : CancelRead(w, r)
    \/ \E o \in Orders : PayRead(w, o)

WantedNext ==
    \/ \E w \in Workers : Arrival(w) \/ WorkerStep(w)
    \/ \E w \in Workers, r \in Requests : ExpireScan(w, r)
    \/ \E f \in Offers : OfferWithdraw(f) \/ SellerWithdraws(f)
    \/ \E o \in Orders : Checkout(o) \/ CancelUnpaid(o)

WantedSpec == WantedInit /\ [][WantedNext]_wantedVars

\* A worker carries on with what it began, row locks are granted in the order
\* they were asked for, and the beat schedule runs the sweep every day.
WantedFairness ==
    /\ \A w \in Workers : SF_wantedVars(WorkerStep(w))
    /\ \A r \in Requests : SF_wantedVars(\E w \in Workers : ExpireScan(w, r))

FairWantedSpec == WantedSpec /\ WantedFairness

-----------------------------------------------------------------------------
(* Properties                                                              *)

\* However sellers edit and withdraw and the buyer clicks, at most one offer
\* of a request is ever turned into a private listing.
OneDealPerRequest ==
    \A f, g \in Offers :
        (RequestOf[f] = RequestOf[g] /\ deal[f].status # "none" /\ deal[g].status # "none")
            => f = g

\* A request counts as fulfilled only when the order for its own private
\* listing has been paid (mark_paid closes it).
FulfilledMeansPaid ==
    \A r \in Requests : request[r] = "fulfilled" => \E f \in OffersOn(r) : PaidOn(f)

\* A request the buyer gave up leaves no private listing to check out, even if
\* a checkout was waiting for payment when it was cancelled.
CancelledDealOffSale ==
    \A f \in Offers :
        request[RequestOf[f]] = "cancelled" => deal[f].status \notin {"active", "reserved"}

\* A request whose order is paid is never cancelled, although the cancellation
\* looks at the orders before it has locked them.
PaidDealNotCancelled ==
    [][\A r \in Requests :
          (request[r] # "cancelled" /\ request'[r] = "cancelled")
              => \A f \in OffersOn(r) : ~PaidOn(f)]_wantedVars

\* The buyer's cancellation and the payment of the order wait for each other's
\* rows; every transaction ends all the same.
TransactionsEnd == \A w \in Workers : txn[w] # Idle ~> txn[w] = Idle

\* A wanted request does not stay open for ever.
WantedRequestEnds == \A r \in Requests : request[r] = "open" ~> request[r] # "open"

\* "The buyer approved this exact offer for themselves" (comment in
\* parts_wanted_offer_accept): the listing costs what the buyer saw.
DealAtPriceSeen == \A f \in Offers : deal[f].price = deal[f].seen
=============================================================================
