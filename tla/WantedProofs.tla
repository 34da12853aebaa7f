----------------------------- MODULE WantedProofs -----------------------------
(***************************************************************************)
(* What TLC checks of WantedRequests on one request, proved for any number *)
(* of requests, offers, orders and workers.                                *)
(***************************************************************************)
EXTENDS WantedRequests, TLAPS

-----------------------------------------------------------------------------
(* Types                                                                   *)

LEMMA PriceFacts == 0 \in Prices /\ (1 .. MaxPrice) \subseteq Prices
BY WantedAssumption DEF Prices

LEMMA IdleTyped == Idle \in Txn
BY PriceFacts DEF Idle, Work, Txn

LEMMA EndTyped ==
    ASSUME txn \in [Workers -> Txn], NEW w \in Workers, End(w)
    PROVE  txn' \in [Workers -> Txn]
BY IdleTyped DEF End

LEMMA StartTyped ==
    ASSUME txn \in [Workers -> Txn], NEW w \in Workers, NEW t \in Txn, Start(w, t)
    PROVE  txn' \in [Workers -> Txn]
BY DEF Start


\* What a worker has begun, whichever way it began.
LEMMA WorkTyped ==
    ASSUME NEW job \in Jobs,
           NEW target \in Requests \cup Offers \cup Orders \cup {Nothing},
           NEW read \in Requests \cup Offers \cup OfferStatus \cup {Nothing},
           NEW p \in Prices,
           NEW ids \in SUBSET (Requests \cup Orders)
    PROVE  Work(job, target, read, p, ids) \in Txn
BY DEF Work, Txn

\* A transaction that is about to be written has the fields its record says.
LEMMA TxnFields ==
    ASSUME WantedTypeOK, NEW w \in Workers
    PROVE  /\ txn[w] \in Txn
           /\ txn[w].price \in Prices
           /\ txn[w].read \in Requests \cup Offers \cup OfferStatus \cup {Nothing}
BY DEF WantedTypeOK, Txn

LEMMA DealFields ==
    ASSUME WantedTypeOK, NEW f \in Offers
    PROVE  /\ deal[f] \in Deal
           /\ \A status \in DealStatus : [deal[f] EXCEPT !.status = status] \in Deal
BY DEF WantedTypeOK, Deal

LEMMA RowsTyped ==
    ASSUME WantedTypeOK, UnchangedRows, txn' \in [Workers -> Txn]
    PROVE  WantedTypeOK'
BY DEF WantedTypeOK, UnchangedRows

\* The steps of an offer.
LEMMA OfferStepTyped ==
    ASSUME WantedTypeOK, NEW w \in Workers, NEW f \in Offers, OfferStep(w, f)
    PROVE  WantedTypeOK'
<1> USE WantedAssumption
<1>f. /\ txn[w].price \in Prices /\ price[f] \in Prices /\ offer[f] \in OfferStatus
      /\ txn \in [Workers -> Txn]
  BY TxnFields DEF WantedTypeOK
<1>1. CASE SubmitCreate(w, f)
  <2>1. offer' \in [Offers -> OfferStatus] /\ price' \in [Offers -> Prices]
    BY <1>1, <1>f DEF SubmitCreate, WantedTypeOK, OfferStatus
  <2> QED BY <1>1, <1>f, <2>1, EndTyped DEF SubmitCreate, WantedTypeOK
<1>2. CASE SubmitGet(w, f)
  <2>1. Work("edit", f, offer[f], txn[w].price, {}) \in Txn
    BY <1>f, WorkTyped DEF Jobs
  <2>2. txn' \in [Workers -> Txn]
    BY <1>2, <1>f, <2>1, EndTyped DEF SubmitGet
  <2> QED BY <1>2, <2>2, RowsTyped DEF SubmitGet
<1>3. CASE EditSave(w, f)
  <2>1. offer' \in [Offers -> OfferStatus] /\ price' \in [Offers -> Prices]
    BY <1>3, <1>f DEF EditSave, WantedTypeOK, OfferStatus
  <2> QED BY <1>3, <1>f, <2>1, EndTyped DEF EditSave, WantedTypeOK
<1>4. CASE EditOvertaken(w, f)
  BY <1>4, <1>f, EndTyped, RowsTyped DEF EditOvertaken
<1>5. CASE OfferAccept(w, f)
  <2>1. [status |-> "active", price |-> price[f], seen |-> txn[w].price] \in Deal
    BY <1>f DEF Deal, DealStatus
  <2>2. deal' \in [Offers -> Deal]
    BY <1>5, <2>1 DEF OfferAccept, WantedTypeOK
  <2>3. offer' \in [Offers -> OfferStatus]
    BY <1>5 DEF OfferAccept, WantedTypeOK, OfferStatus
  <2>4. request' \in [Requests -> RequestStatus]
    BY <1>5 DEF OfferAccept, WantedTypeOK, RequestStatus
  <2> QED BY <1>5, <1>f, <2>2, <2>3, <2>4, EndTyped DEF OfferAccept, WantedTypeOK
<1>6. CASE AcceptRefused(w, f)
  BY <1>6, <1>f, EndTyped, RowsTyped DEF AcceptRefused
<1> QED BY <1>1, <1>2, <1>3, <1>4, <1>5, <1>6 DEF OfferStep

LEMMA WorkerStepTyped ==
    ASSUME WantedTypeOK, NEW w \in Workers, WorkerStep(w)
    PROVE  WantedTypeOK'
<1> USE WantedAssumption
<1>t. txn \in [Workers -> Txn]
  BY DEF WantedTypeOK
<1>1. ASSUME NEW r \in Requests, CancelCommit(w, r) PROVE WantedTypeOK'
  <2>1. order' \in [Orders -> OrderStatus]
    BY <1>1 DEF CancelCommit, WantedTypeOK, OrderStatus
  <2>2. deal' \in [Offers -> Deal]
    BY <1>1, DealFields DEF CancelCommit, WantedTypeOK, DealStatus
  <2>3. request' \in [Requests -> RequestStatus] /\ offer' \in [Offers -> OfferStatus]
    BY <1>1 DEF CancelCommit, WantedTypeOK, RequestStatus, OfferStatus
  <2> QED BY <1>1, <1>t, <2>1, <2>2, <2>3, EndTyped DEF CancelCommit, WantedTypeOK
<1>2. ASSUME NEW o \in Orders, PayCommit(w, o) PROVE WantedTypeOK'
  <2>1. order' \in [Orders -> OrderStatus] /\ request' \in [Requests -> RequestStatus]
    BY <1>2 DEF PayCommit, WantedTypeOK, OrderStatus, RequestStatus
  <2>2. [deal[OfferOf[o]] EXCEPT !.status = "sold"] \in Deal /\ OfferOf[o] \in Offers
    BY DealFields DEF DealStatus
  <2>3. deal' \in [Offers -> Deal]
    BY <1>2, <2>2 DEF PayCommit, WantedTypeOK
  <2> QED BY <1>2, <1>t, <2>1, <2>3, EndTyped DEF PayCommit, WantedTypeOK
<1>3. CASE ExpireWrite(w)
  <2>1. request' \in [Requests -> RequestStatus] /\ offer' \in [Offers -> OfferStatus]
    BY <1>3 DEF ExpireWrite, WantedTypeOK, RequestStatus, OfferStatus
  <2> QED BY <1>3, <1>t, <2>1, EndTyped DEF ExpireWrite, WantedTypeOK
<1>4. CASE DeadlockVictim(w)
  BY <1>4, <1>t, EndTyped, RowsTyped DEF DeadlockVictim
<1> QED BY <1>1, <1>2, <1>3, <1>4, OfferStepTyped DEF WorkerStep

LEMMA ArrivalTyped ==
    ASSUME WantedTypeOK, NEW w \in Workers,
           Arrival(w) \/ \E r \in Requests : ExpireScan(w, r)
    PROVE  WantedTypeOK'
<1> USE WantedAssumption DEF Jobs
<1>t. txn \in [Workers -> Txn]
  BY DEF WantedTypeOK
<1>1. ASSUME NEW f \in Offers, SubmitRead(w, f) PROVE WantedTypeOK'
  <2>1. \A p \in 1 .. MaxPrice : Work("submit", f, Nothing, p, {}) \in Txn
    BY WorkTyped, PriceFacts
  <2> QED BY <1>1, <1>t, <2>1, StartTyped, RowsTyped DEF SubmitRead
<1>2. ASSUME NEW f \in Offers, AcceptRead(w, f) PROVE WantedTypeOK'
  <2>1. Work("accept", f, Nothing, price[f], {}) \in Txn
    BY WorkTyped DEF WantedTypeOK
  <2> QED BY <1>2, <1>t, <2>1, StartTyped, RowsTyped DEF AcceptRead
<1>3. ASSUME NEW r \in Requests, CancelRead(w, r) PROVE WantedTypeOK'
  <2>1. ASSUME NEW f \in Deals(r) \cup {Nothing}, NEW S \in SUBSET Orders
        PROVE  Work("cancel", r, f, 0, S) \in Txn
    BY WorkTyped, PriceFacts DEF Deals, OffersOn
  <2> QED BY <1>3, <1>t, <2>1, StartTyped, RowsTyped DEF CancelRead
<1>4. ASSUME NEW o \in Orders, PayRead(w, o) PROVE WantedTypeOK'
  <2>1. Closes(o) \in Requests \cup {Nothing}
    BY DEF Closes
  <2>2. Work("pay", o, Closes(o), 0, {}) \in Txn
    BY <2>1, WorkTyped, PriceFacts
  <2> QED BY <1>4, <1>t, <2>2, StartTyped, RowsTyped DEF PayRead
<1>5. ASSUME NEW r \in Requests, ExpireScan(w, r) PROVE WantedTypeOK'
  <2>1. ASSUME NEW S \in SUBSET Requests
        PROVE  Work("expire", Nothing, Nothing, 0, S \cup {r}) \in Txn
    BY WorkTyped, PriceFacts
  <2> QED BY <1>5, <1>t, <2>1, StartTyped, RowsTyped DEF ExpireScan
<1> QED BY <1>1, <1>2, <1>3, <1>4, <1>5 DEF Arrival

\* A step of a seller, or of the orders of a private listing.
ListingStep ==
    \/ \E f \in Offers : OfferWithdraw(f) \/ SellerWithdraws(f)
    \/ \E o \in Orders : Checkout(o) \/ CancelUnpaid(o)

LEMMA ListingStepTyped == ASSUME WantedTypeOK, ListingStep PROVE WantedTypeOK'
<1> USE WantedAssumption
<1>1. ASSUME NEW f \in Offers, OfferWithdraw(f) PROVE WantedTypeOK'
  BY <1>1 DEF OfferWithdraw, WantedTypeOK, OfferStatus
<1>2. ASSUME NEW f \in Offers, SellerWithdraws(f) PROVE WantedTypeOK'
  <2>1. deal' = [deal EXCEPT ![f] = [deal[f] EXCEPT !.status = "removed"]]
    BY <1>2 DEF SellerWithdraws
  <2>2. [deal[f] EXCEPT !.status = "removed"] \in Deal
    BY DealFields DEF DealStatus
  <2> QED BY <1>2, <2>1, <2>2 DEF SellerWithdraws, WantedTypeOK
<1>3. ASSUME NEW o \in Orders, Checkout(o) PROVE WantedTypeOK'
  <2>1. [deal[OfferOf[o]] EXCEPT !.status = "reserved"] \in Deal /\ OfferOf[o] \in Offers
    BY DealFields DEF DealStatus
  <2>2. deal' = [deal EXCEPT ![OfferOf[o]] = [deal[OfferOf[o]] EXCEPT !.status = "reserved"]]
    BY <1>3 DEF Checkout
  <2>3. deal' \in [Offers -> Deal] /\ order' \in [Orders -> OrderStatus]
    BY <1>3, <2>1, <2>2 DEF Checkout, WantedTypeOK, OrderStatus
  <2> QED BY <1>3, <2>3 DEF Checkout, WantedTypeOK
<1>4. ASSUME NEW o \in Orders, CancelUnpaid(o) PROVE WantedTypeOK'
  <2>1. [deal[OfferOf[o]] EXCEPT !.status = "active"] \in Deal /\ OfferOf[o] \in Offers
    BY DealFields DEF DealStatus
  <2>2. deal' \in [Offers -> Deal] /\ order' \in [Orders -> OrderStatus]
    BY <1>4, <2>1 DEF CancelUnpaid, WantedTypeOK, OrderStatus
  <2> QED BY <1>4, <2>2 DEF CancelUnpaid, WantedTypeOK
<1> QED BY <1>1, <1>2, <1>3, <1>4 DEF ListingStep

\* The three kinds of steps of the module.
LEMMA StepKinds ==
    ASSUME WantedNext
    PROVE  \/ \E w \in Workers : WorkerStep(w)
           \/ \E w \in Workers : Arrival(w) \/ \E r \in Requests : ExpireScan(w, r)
           \/ ListingStep
BY DEF WantedNext, ListingStep

LEMMA WantedTypeHolds == WantedInit => WantedTypeOK
BY IdleTyped, PriceFacts, WantedAssumption DEF WantedInit, WantedTypeOK, RequestStatus, OfferStatus,
   OrderStatus, DealStatus, Deal, NoDeal

LEMMA WantedTypeStep == WantedTypeOK /\ [WantedNext]_wantedVars => WantedTypeOK'
<1> SUFFICES ASSUME WantedTypeOK, [WantedNext]_wantedVars PROVE WantedTypeOK'
  OBVIOUS
<1>1. CASE WantedNext
  BY <1>1, StepKinds, WorkerStepTyped, ArrivalTyped, ListingStepTyped
<1>2. CASE UNCHANGED wantedVars
  BY <1>2 DEF wantedVars, WantedTypeOK
<1> QED BY <1>1, <1>2

\* Every row and every transaction keeps its type: parts_wanted_* and the
\* payment of a private listing write no status a row of theirs cannot have.
THEOREM WantedTypes == WantedSpec => []WantedTypeOK
BY WantedTypeHolds, WantedTypeStep, PTL DEF WantedSpec

-----------------------------------------------------------------------------
(* One deal for a request, fulfilled only by payment.  None of it depends  *)
(* on the edits of offers being free of races.                             *)

HasDeal(f) == deal[f].status # "none"

\* A private listing is made only by closing its request.
OpenHasNoDeal == \A f \in Offers : HasDeal(f) => request[RequestOf[f]] # "open"

\* An order is for a private listing that exists.
OrderHasDeal == \A o \in Orders : order[o] # "none" => HasDeal(OfferOf[o])

\* A payment under way has the order it locked, and the request it will close
\* is the one whose private listing that order buys.
PayLocks ==
    \A w \in Workers : txn[w].job = "pay" =>
        /\ txn[w].target \in Orders
        /\ order[txn[w].target] # "none"
        /\ txn[w].read \in {Nothing, RequestOf[OfferOf[txn[w].target]]}

DealRows ==
    /\ OneDealPerRequest
    /\ FulfilledMeansPaid
    /\ OpenHasNoDeal
    /\ OrderHasDeal
    /\ PayLocks

DealInv == WantedTypeOK /\ DealRows

\* What most steps have in common: no deal, order or payment begins, and no
\* request is reopened or fulfilled.
NothingBegins ==
    /\ \A f \in Offers : deal'[f].status = "none" <=> deal[f].status = "none"
    /\ \A r \in Requests : /\ request'[r] = "open" => request[r] = "open"
                           /\ request'[r] = "fulfilled" => request[r] = "fulfilled"
    /\ \A o \in Orders : /\ order[o] = "paid_held" => order'[o] = "paid_held"
                         /\ order'[o] = "none" <=> order[o] = "none"
    /\ \A w \in Workers : txn'[w].job = "pay" => txn'[w] = txn[w]

LEMMA NothingBeginsKeeps == ASSUME DealRows, NothingBegins PROVE DealRows'
<1>. USE WantedAssumption DEF DealRows, NothingBegins
<1>1. OneDealPerRequest'
  BY DEF OneDealPerRequest
<1>2. FulfilledMeansPaid'
  BY DEF FulfilledMeansPaid, PaidOn, OffersOn, OrdersFor
<1>3. OpenHasNoDeal' /\ OrderHasDeal'
  BY DEF OpenHasNoDeal, OrderHasDeal, HasDeal
<1>4. PayLocks'
  BY DEF PayLocks
<1> QED BY <1>1, <1>2, <1>3, <1>4

\* A transaction that ends, or one that begins and is no payment, leaves the
\* payments as they are.
LEMMA EndIsNoPayment ==
    ASSUME txn \in [Workers -> Txn], NEW w \in Workers, End(w)
    PROVE  \A v \in Workers : txn'[v].job = "pay" => txn'[v] = txn[v]
BY DEF End, Idle, Work

LEMMA StartIsNoPayment ==
    ASSUME txn \in [Workers -> Txn], NEW w \in Workers,
           NEW t, t.job # "pay", Start(w, t)
    PROVE  \A v \in Workers : txn'[v].job = "pay" => txn'[v] = txn[v]
BY DEF Start

LEMMA ReadingBeginsNothing ==
    ASSUME UnchangedRows,
           \A v \in Workers : txn'[v].job = "pay" => txn'[v] = txn[v]
    PROVE  NothingBegins
BY DEF UnchangedRows, NothingBegins

\* The four steps that do begin something.
LEMMA AcceptKeepsDeals ==
    ASSUME DealInv, NEW w \in Workers, NEW f \in Offers, OfferAccept(w, f)
    PROVE  DealRows'
<1> USE WantedAssumption
<1>1. /\ txn \in [Workers -> Txn] /\ deal \in [Offers -> Deal]
      /\ request \in [Requests -> RequestStatus]
      /\ RequestOf[f] \in Requests
  BY DEF DealInv, WantedTypeOK
<1>2. \A g \in Offers : RequestOf[g] = RequestOf[f] => deal[g].status = "none"
  BY DEF DealInv, DealRows, OpenHasNoDeal, HasDeal, OfferAccept, Acceptable
<1>3. \A g \in Offers : deal'[g] = IF g = f
          THEN [status |-> "active", price |-> price[f], seen |-> txn[w].price] ELSE deal[g]
  BY <1>1 DEF OfferAccept
<1>4. \A r \in Requests : request'[r] = IF r = RequestOf[f] THEN "matched" ELSE request[r]
  BY <1>1 DEF OfferAccept
<1>5. \A v \in Workers : txn'[v].job = "pay" => txn'[v] = txn[v]
  BY <1>1, EndIsNoPayment DEF OfferAccept
<1>6. order' = order
  BY DEF OfferAccept
<1>7. OneDealPerRequest'
  BY <1>2, <1>3 DEF DealInv, DealRows, OneDealPerRequest
<1>8. FulfilledMeansPaid'
  BY <1>4, <1>6 DEF DealInv, DealRows, FulfilledMeansPaid, PaidOn, OffersOn, OrdersFor
<1>9. OpenHasNoDeal' /\ OrderHasDeal'
  BY <1>2, <1>3, <1>4, <1>6 DEF DealInv, DealRows, OpenHasNoDeal, OrderHasDeal, HasDeal
<1>10. PayLocks'
  BY <1>5, <1>6 DEF DealInv, DealRows, PayLocks
<1> QED BY <1>7, <1>8, <1>9, <1>10 DEF DealRows

LEMMA CheckoutKeepsDeals ==
    ASSUME DealInv, NEW o \in Orders, Checkout(o)
    PROVE  DealRows'
<1> USE WantedAssumption
<1>1. /\ deal \in [Offers -> Deal] /\ order \in [Orders -> OrderStatus]
      /\ OfferOf[o] \in Offers
  BY DEF DealInv, WantedTypeOK
<1>2. deal' = [deal EXCEPT ![OfferOf[o]] = [deal[OfferOf[o]] EXCEPT !.status = "reserved"]]
  BY DEF Checkout
<1>3. \A f \in Offers : deal'[f].status = "none" <=> deal[f].status = "none"
  <2>1. [deal[OfferOf[o]] EXCEPT !.status = "reserved"].status = "reserved"
    BY <1>1 DEF Deal
  <2> QED BY <1>1, <1>2, <2>1 DEF Checkout
<1>4. /\ order'[o] = "pending_payment" /\ \A p \in Orders \ {o} : order'[p] = order[p]
      /\ order[o] = "none"
      /\ request' = request /\ txn' = txn
  BY <1>1 DEF Checkout
<1>5. deal[OfferOf[o]].status = "active"
  BY DEF Checkout
<1>6. OneDealPerRequest' /\ OpenHasNoDeal'
  BY <1>3, <1>4 DEF DealInv, DealRows, OneDealPerRequest, OpenHasNoDeal, HasDeal
<1>7. FulfilledMeansPaid'
  BY <1>4 DEF DealInv, DealRows, FulfilledMeansPaid, PaidOn, OffersOn, OrdersFor
<1>8. OrderHasDeal'
  BY <1>1, <1>3, <1>4, <1>5 DEF DealInv, DealRows, OrderHasDeal, HasDeal
<1>9. PayLocks'
  BY <1>4 DEF DealInv, DealRows, PayLocks
<1> QED BY <1>6, <1>7, <1>8, <1>9 DEF DealRows

LEMMA PayReadKeepsDeals ==
    ASSUME DealInv, NEW w \in Workers, NEW o \in Orders, PayRead(w, o)
    PROVE  DealRows'
<1> USE WantedAssumption
<1>1. UnchangedRows /\ txn \in [Workers -> Txn] /\ order[o] = "pending_payment"
  BY DEF DealInv, WantedTypeOK, PayRead
<1>2. txn' = [txn EXCEPT ![w] = Work("pay", o, Closes(o), 0, {})]
  BY DEF PayRead, Start
<1>3. Closes(o) \in {Nothing, RequestOf[OfferOf[o]]}
  BY DEF Closes
<1>4. PayLocks'
  BY <1>1, <1>2, <1>3 DEF UnchangedRows, DealInv, DealRows, PayLocks, Work
<1> QED BY <1>1, <1>4 DEF UnchangedRows, DealInv, DealRows, OneDealPerRequest,
        FulfilledMeansPaid, PaidOn, OffersOn, OrdersFor, OpenHasNoDeal, OrderHasDeal, HasDeal

LEMMA PayCommitKeepsDeals ==
    ASSUME DealInv, NEW w \in Workers, NEW o \in Orders, PayCommit(w, o)
    PROVE  DealRows'
<1> USE WantedAssumption
<1>1. /\ deal \in [Offers -> Deal] /\ order \in [Orders -> OrderStatus]
      /\ txn \in [Workers -> Txn] /\ OfferOf[o] \in Offers
  BY DEF DealInv, WantedTypeOK
<1>2. txn[w].read \in {Nothing, RequestOf[OfferOf[o]]} /\ HasDeal(OfferOf[o]) /\ order[o] # "none"
  BY DEF DealInv, DealRows, PayLocks, OrderHasDeal, PayCommit
<1>3. \A f \in Offers : deal'[f].status = "none" <=> deal[f].status = "none"
  <2>1. deal' = [deal EXCEPT ![OfferOf[o]] = [deal[OfferOf[o]] EXCEPT !.status = "sold"]]
    BY DEF PayCommit
  <2>2. [deal[OfferOf[o]] EXCEPT !.status = "sold"].status = "sold"
    BY <1>1 DEF Deal
  <2> QED BY <1>1, <1>2, <2>1, <2>2 DEF HasDeal
<1>4. order'[o] = "paid_held" /\ \A p \in Orders \ {o} : order'[p] = order[p]
  BY <1>1 DEF PayCommit
<1>5. /\ \A r \in Requests : request'[r] = IF r = txn[w].read THEN "fulfilled" ELSE request[r]
      /\ \A v \in Workers : txn'[v].job = "pay" => txn'[v] = txn[v]
  BY <1>1, EndIsNoPayment DEF PayCommit
<1>6. OneDealPerRequest'
  BY <1>3 DEF DealInv, DealRows, OneDealPerRequest
<1>7. FulfilledMeansPaid'
  <2> SUFFICES ASSUME NEW r \in Requests, request'[r] = "fulfilled"
               PROVE  \E f \in OffersOn(r) : PaidOn(f)'
    BY DEF FulfilledMeansPaid, OffersOn
  <2>1. CASE r = txn[w].read
    <3>1. r = RequestOf[OfferOf[o]]
      BY <1>2, <2>1
    <3> QED BY <1>1, <1>4, <3>1 DEF PaidOn, OffersOn, OrdersFor
  <2>2. CASE r # txn[w].read
    BY <2>2, <1>4, <1>5 DEF DealInv, DealRows, FulfilledMeansPaid, PaidOn, OffersOn, OrdersFor
  <2> QED BY <2>1, <2>2
<1>8. OpenHasNoDeal' /\ OrderHasDeal'
  BY <1>2, <1>3, <1>4, <1>5 DEF DealInv, DealRows, OpenHasNoDeal, OrderHasDeal, HasDeal
<1>9. PayLocks'
  BY <1>4, <1>5 DEF DealInv, DealRows, PayLocks
<1> QED BY <1>6, <1>7, <1>8, <1>9 DEF DealRows

\* The other steps begin nothing.
LEMMA OtherOfferStepsBeginNothing ==
    ASSUME DealInv, NEW w \in Workers, NEW f \in Offers,
           OfferStep(w, f), ~OfferAccept(w, f)
    PROVE  NothingBegins
<1>t. txn \in [Workers -> Txn]
  BY DEF DealInv, WantedTypeOK
<1>1. CASE SubmitCreate(w, f) \/ EditSave(w, f)
  BY <1>1, <1>t, EndIsNoPayment DEF SubmitCreate, EditSave, NothingBegins
<1>2. CASE SubmitGet(w, f)
  <2>1. CASE End(w)
    BY <1>2, <1>t, <2>1, EndIsNoPayment, ReadingBeginsNothing DEF SubmitGet
  <2>2. CASE txn' = [txn EXCEPT ![w] = Work("edit", f, offer[f], @.price, {})]
    <3>1. \A v \in Workers : txn'[v].job = "pay" => txn'[v] = txn[v]
      BY <1>t, <2>2 DEF Work
    <3> QED BY <1>2, <3>1, ReadingBeginsNothing DEF SubmitGet
  <2> QED BY <1>2, <2>1, <2>2 DEF SubmitGet
<1>3. CASE EditOvertaken(w, f) \/ AcceptRefused(w, f)
  BY <1>3, <1>t, EndIsNoPayment, ReadingBeginsNothing DEF EditOvertaken, AcceptRefused
<1> QED BY <1>1, <1>2, <1>3 DEF OfferStep

LEMMA WorkerStepKeepsDeals ==
    ASSUME DealInv, NEW w \in Workers, WorkerStep(w)
    PROVE  DealRows'
<1> USE WantedAssumption
<1>t. /\ txn \in [Workers -> Txn] /\ deal \in [Offers -> Deal]
      /\ order \in [Orders -> OrderStatus] /\ request \in [Requests -> RequestStatus]
  BY DEF DealInv, WantedTypeOK
<1>d. DealRows
  BY DEF DealInv
<1>1. ASSUME NEW f \in Offers, OfferStep(w, f) PROVE DealRows'
  BY <1>d, <1>1, AcceptKeepsDeals, OtherOfferStepsBeginNothing, NothingBeginsKeeps
<1>2. ASSUME NEW r \in Requests, CancelCommit(w, r) PROVE DealRows'
  <2>1. \A f \in Offers : deal'[f].status = "none" <=> deal[f].status = "none"
    BY <1>t, <1>2 DEF CancelCommit, OnSale, Deal
  <2>2. NothingBegins
    BY <1>t, <1>2, <2>1, EndIsNoPayment DEF CancelCommit, NothingBegins
  <2> QED BY <1>d, <2>2, NothingBeginsKeeps
<1>3. ASSUME NEW o \in Orders, PayCommit(w, o) PROVE DealRows'
  BY <1>3, PayCommitKeepsDeals
<1>4. CASE ExpireWrite(w)
  <2>1. NothingBegins
    BY <1>t, <1>4, EndIsNoPayment DEF ExpireWrite, NothingBegins
  <2> QED BY <1>d, <2>1, NothingBeginsKeeps
<1>5. CASE DeadlockVictim(w)
  BY <1>d, <1>t, <1>5, EndIsNoPayment, ReadingBeginsNothing, NothingBeginsKeeps
     DEF DeadlockVictim
<1> QED BY <1>1, <1>2, <1>3, <1>4, <1>5 DEF WorkerStep

LEMMA ArrivalKeepsDeals ==
    ASSUME DealInv, NEW w \in Workers,
           Arrival(w) \/ \E r \in Requests : ExpireScan(w, r)
    PROVE  DealRows'
<1>t. DealRows /\ txn \in [Workers -> Txn]
  BY DEF DealInv, WantedTypeOK
<1>1. ASSUME UnchangedRows, NEW t, t.job # "pay", Start(w, t) PROVE DealRows'
  BY <1>1, <1>t, StartIsNoPayment, ReadingBeginsNothing, NothingBeginsKeeps
<1>2. \A job, target, read, p, ids : Work(job, target, read, p, ids).job = job
  BY DEF Work
<1>3. ASSUME NEW f \in Offers, SubmitRead(w, f) \/ AcceptRead(w, f) PROVE DealRows'
  BY <1>1, <1>2, <1>3 DEF SubmitRead, AcceptRead
<1>4. ASSUME NEW r \in Requests, CancelRead(w, r) PROVE DealRows'
  <2>1. \E f, S : Start(w, Work("cancel", r, f, 0, S))
    BY <1>4 DEF CancelRead
  <2>2. UnchangedRows
    BY <1>4 DEF CancelRead
  <2> QED BY <1>1, <1>2, <2>1, <2>2
<1>5. ASSUME NEW r \in Requests, ExpireScan(w, r) PROVE DealRows'
  <2>1. \E S : Start(w, Work("expire", Nothing, Nothing, 0, S))
    BY <1>5 DEF ExpireScan
  <2>2. UnchangedRows
    BY <1>5 DEF ExpireScan
  <2> QED BY <1>1, <1>2, <2>1, <2>2
<1> QED BY <1>3, <1>4, <1>5, PayReadKeepsDeals DEF Arrival

LEMMA ListingStepKeepsDeals == ASSUME DealInv, ListingStep PROVE DealRows'
<1> USE WantedAssumption
<1>t. DealRows /\ deal \in [Offers -> Deal] /\ order \in [Orders -> OrderStatus]
  BY DEF DealInv, WantedTypeOK
<1>1. ASSUME NEW f \in Offers, OfferWithdraw(f) PROVE NothingBegins
  BY <1>1 DEF OfferWithdraw, NothingBegins
<1>2. ASSUME NEW f \in Offers, SellerWithdraws(f) PROVE NothingBegins
  <2>1. /\ deal' = [deal EXCEPT ![f] = [deal[f] EXCEPT !.status = "removed"]]
        /\ [deal[f] EXCEPT !.status = "removed"].status = "removed"
    BY <1>t, <1>2 DEF SellerWithdraws, Deal
  <2> QED BY <1>t, <1>2, <2>1 DEF SellerWithdraws, NothingBegins
<1>3. ASSUME NEW o \in Orders, CancelUnpaid(o) PROVE NothingBegins
  <2>1. /\ OfferOf[o] \in Offers
        /\ [deal[OfferOf[o]] EXCEPT !.status = "active"].status = "active"
    BY <1>t DEF Deal
  <2>2. \A f \in Offers : deal'[f].status = "none" <=> deal[f].status = "none"
    BY <1>t, <1>3, <2>1 DEF CancelUnpaid
  <2> QED BY <1>t, <1>3, <2>2 DEF CancelUnpaid, Unpaid, NothingBegins
<1> QED BY <1>t, <1>1, <1>2, <1>3, NothingBeginsKeeps, CheckoutKeepsDeals DEF ListingStep

LEMMA DealInvInductive == WantedSpec => []DealInv
<1>1. WantedInit => DealInv
  <2> SUFFICES ASSUME WantedInit PROVE DealRows
    BY WantedTypeHolds DEF DealInv
  <2> QED BY WantedAssumption DEF WantedInit, DealRows, OneDealPerRequest, FulfilledMeansPaid,
          OpenHasNoDeal, OrderHasDeal, PayLocks, HasDeal, NoDeal, Idle, Work
<1>2. DealInv /\ [WantedNext]_wantedVars => DealInv'
  <2> SUFFICES ASSUME DealInv, [WantedNext]_wantedVars PROVE DealRows'
    BY WantedTypeStep DEF DealInv
  <2>1. CASE WantedNext
    BY <2>1, StepKinds, WorkerStepKeepsDeals, ArrivalKeepsDeals, ListingStepKeepsDeals
  <2>2. CASE UNCHANGED wantedVars
    BY <2>2 DEF wantedVars, DealInv, DealRows, OneDealPerRequest, FulfilledMeansPaid,
       PaidOn, OffersOn, OrdersFor, OpenHasNoDeal, OrderHasDeal, PayLocks, HasDeal
  <2> QED BY <2>1, <2>2
<1> QED BY <1>1, <1>2, PTL DEF WantedSpec

\* However sellers edit and withdraw and the buyer clicks, parts_wanted_offer_accept
\* turns at most one offer of a request into a private listing.
THEOREM OneDeal == WantedSpec => []OneDealPerRequest
BY DealInvInductive, PTL DEF DealInv, DealRows

\* mark_paid alone fulfils a request, with the payment of the order for the
\* request's own private listing, whatever was cancelled or expired meanwhile.
THEOREM FulfilledByPayment == WantedSpec => []FulfilledMeansPaid
BY DealInvInductive, PTL DEF DealInv, DealRows

-----------------------------------------------------------------------------
(* The cancellation of a request against the payment of its order, where   *)
(* the edits of offers do not race: an edit that overwrites an accepted    *)
(* offer would hide the private listing from the cancellation.             *)

OnSaleOrReserved(f) == deal[f].status \in {"active", "reserved"}

EditReads ==
    \A w \in Workers : txn[w].job = "edit" => txn[w].read \in {"pending", "withdrawn"}

\* The offer behind a private listing stays accepted until the request is
\* cancelled.
AcceptedDeals ==
    \A f \in Offers : HasDeal(f) =>
        /\ request[RequestOf[f]] \in {"matched", "fulfilled", "cancelled"}
        /\ request[RequestOf[f]] # "cancelled" => offer[f] = "accepted"

\* What a payment knows of the request it read without a lock.
PayKnows ==
    \A w \in Workers : txn[w].job = "pay" =>
        IF txn[w].read = Nothing
        THEN request[RequestOf[OfferOf[txn[w].target]]] \in {"fulfilled", "cancelled"}
        ELSE request[txn[w].read] \in {"matched", "fulfilled"}

\* What a cancellation has locked, and what it has read of the rest stands.
CancelKnows ==
    \A w \in Workers : txn[w].job = "cancel" =>
        /\ txn[w].target \in Requests
        /\ request[txn[w].target] \in {"open", "matched"}
        /\ IF txn[w].read = Nothing THEN Deals(txn[w].target) = {}
           ELSE txn[w].read \in Deals(txn[w].target)
        /\ \A f \in OffersOn(txn[w].target) : ~PaidOn(f)

CancelAlone ==
    \A v, w \in Workers :
        (txn[v].job = "cancel" /\ txn[w].job = "cancel" /\ txn[v].target = txn[w].target)
            => v = w

SaleRows ==
    /\ EditReads
    /\ AcceptedDeals
    /\ PayKnows
    /\ CancelKnows
    /\ CancelAlone
    /\ CancelledDealOffSale

SaleInv == DealInv /\ SaleRows

\* What most steps have in common: no offer is accepted or stops being so, no
\* request but an open one with a free row changes, and then to expired, nothing
\* is paid or put on sale, no payment or cancellation begins.
NothingCloses ==
    /\ \A f \in Offers : /\ offer'[f] = "accepted" <=> offer[f] = "accepted"
                         /\ HasDeal(f)' <=> HasDeal(f)
                         /\ OnSaleOrReserved(f)' => OnSaleOrReserved(f)
    /\ \A r \in Requests :
          request'[r] # request[r] =>
              request[r] = "open" /\ request'[r] = "expired" /\ RequestFree(r)
    /\ \A o \in Orders : order'[o] = "paid_held" => order[o] = "paid_held"
    /\ \A w \in Workers :
          /\ txn'[w].job \in {"pay", "cancel"} => txn'[w] = txn[w]
          /\ txn'[w].job = "edit" =>
                txn'[w] = txn[w] \/ txn'[w].read \in {"pending", "withdrawn"}

LEMMA NothingClosesKeeps ==
    ASSUME DealInv, SaleRows, NothingCloses
    PROVE  SaleRows'
<1> USE WantedAssumption DEF SaleRows
<1>t. \A w \in Workers : txn[w].job = "pay" =>
         /\ txn[w].target \in Orders /\ OfferOf[txn[w].target] \in Offers
         /\ RequestOf[OfferOf[txn[w].target]] \in Requests
         /\ txn[w].read # Nothing => txn[w].read \in Requests
  BY DEF DealInv, DealRows, PayLocks
<1>1. EditReads'
  BY DEF EditReads, NothingCloses
<1>2. AcceptedDeals'
  BY DEF AcceptedDeals, NothingCloses
<1>3. PayKnows'
  BY <1>t DEF PayKnows, NothingCloses
<1>4. CancelKnows'
  <2> SUFFICES ASSUME NEW w \in Workers, txn'[w].job = "cancel"
               PROVE  /\ txn[w].target \in Requests
                      /\ request'[txn[w].target] \in {"open", "matched"}
                      /\ IF txn[w].read = Nothing THEN Deals(txn[w].target)' = {}
                         ELSE txn[w].read \in Deals(txn[w].target)'
                      /\ \A f \in OffersOn(txn[w].target) : ~PaidOn(f)'
    BY DEF CancelKnows, NothingCloses, OffersOn
  <2>1. txn'[w] = txn[w] /\ txn[w].job = "cancel"
    BY DEF NothingCloses
  <2>2. request'[txn[w].target] = request[txn[w].target]
    BY <2>1 DEF NothingCloses, RequestFree, CancelKnows
  <2>3. Deals(txn[w].target)' = Deals(txn[w].target)
    BY <2>1 DEF NothingCloses, Deals, OffersOn, HasDeal
  <2>4. \A f \in Offers : PaidOn(f)' => PaidOn(f)
    BY DEF NothingCloses, PaidOn, OrdersFor
  <2> QED BY <2>1, <2>2, <2>3, <2>4 DEF CancelKnows, OffersOn
<1>5. CancelAlone'
  BY DEF CancelAlone, NothingCloses
<1>6. CancelledDealOffSale'
  BY DEF CancelledDealOffSale, NothingCloses, OnSaleOrReserved
<1> QED BY <1>1, <1>2, <1>3, <1>4, <1>5, <1>6

LEMMA EndClosesNothing ==
    ASSUME txn \in [Workers -> Txn], NEW w \in Workers, End(w)
    PROVE  \A v \in Workers : /\ txn'[v].job \in {"pay", "cancel", "edit"} => txn'[v] = txn[v]
BY DEF End, Idle, Work

LEMMA StartClosesNothing ==
    ASSUME txn \in [Workers -> Txn], NEW w \in Workers,
           NEW t, t.job \notin {"pay", "cancel", "edit"}, Start(w, t)
    PROVE  \A v \in Workers : txn'[v].job \in {"pay", "cancel", "edit"} => txn'[v] = txn[v]
BY DEF Start

LEMMA ReadingClosesNothing ==
    ASSUME UnchangedRows,
           \A v \in Workers :
              /\ txn'[v].job \in {"pay", "cancel"} => txn'[v] = txn[v]
              /\ txn'[v].job = "edit" =>
                    txn'[v] = txn[v] \/ txn'[v].read \in {"pending", "withdrawn"}
    PROVE  NothingCloses
BY DEF UnchangedRows, NothingCloses, HasDeal, OnSaleOrReserved

\* The steps that close a request, begin to, or pay.
LEMMA AcceptKeepsSale ==
    ASSUME SaleInv, NEW w \in Workers, NEW f \in Offers, OfferAccept(w, f)
    PROVE  SaleRows'
<1> USE WantedAssumption DEF SaleInv, SaleRows
<1>1. /\ txn \in [Workers -> Txn] /\ deal \in [Offers -> Deal]
      /\ request \in [Requests -> RequestStatus]
      /\ RequestOf[f] \in Requests
      /\ request[RequestOf[f]] = "open" /\ offer[f] = "pending" /\ RequestFree(RequestOf[f])
  BY DEF DealInv, WantedTypeOK, OfferAccept, Acceptable
<1>2. \A g \in Offers : RequestOf[g] = RequestOf[f] => deal[g].status = "none"
  BY <1>1 DEF DealInv, DealRows, OpenHasNoDeal, HasDeal
<1>3. /\ \A g \in Offers \ {f} : deal'[g] = deal[g]
      /\ deal'[f] = [status |-> "active", price |-> price[f], seen |-> txn[w].price]
  BY <1>1 DEF OfferAccept
<1>4. /\ \A r \in Requests \ {RequestOf[f]} : request'[r] = request[r]
      /\ request'[RequestOf[f]] = "matched"
  BY <1>1 DEF OfferAccept
<1>5. /\ offer'[f] = "accepted"
      /\ \A g \in Offers : RequestOf[g] # RequestOf[f] => offer'[g] = offer[g]
  BY DEF OfferAccept
<1>6. \A v \in Workers : txn'[v].job \in {"pay", "cancel", "edit"} => txn'[v] = txn[v]
  BY <1>1, EndClosesNothing DEF OfferAccept
<1>7. order' = order
  BY DEF OfferAccept
<1>8. EditReads' /\ CancelAlone'
  BY <1>6 DEF EditReads, CancelAlone
<1>9. AcceptedDeals'
  BY <1>2, <1>3, <1>4, <1>5 DEF AcceptedDeals, HasDeal
<1>10. PayKnows'
  <2>1. \A v \in Workers : txn[v].job = "pay" =>
           /\ txn[v].target \in Orders /\ HasDeal(OfferOf[txn[v].target])
           /\ txn[v].read \in {Nothing, RequestOf[OfferOf[txn[v].target]]}
    BY DEF DealInv, DealRows, PayLocks, OrderHasDeal
  <2>2. \A v \in Workers : txn[v].job = "pay" =>
           /\ OfferOf[txn[v].target] \in Offers
           /\ RequestOf[OfferOf[txn[v].target]] \in Requests \ {RequestOf[f]}
    BY <1>2, <2>1 DEF HasDeal
  <2> QED BY <1>4, <1>6, <2>1, <2>2 DEF PayKnows
<1>11. CancelKnows'
  <2> SUFFICES ASSUME NEW v \in Workers, txn'[v].job = "cancel"
               PROVE  /\ txn[v].target \in Requests
                      /\ request'[txn[v].target] \in {"open", "matched"}
                      /\ IF txn[v].read = Nothing THEN Deals(txn[v].target)' = {}
                         ELSE txn[v].read \in Deals(txn[v].target)'
                      /\ \A g \in OffersOn(txn[v].target) : ~PaidOn(g)'
    BY <1>6 DEF CancelKnows, OffersOn
  <2>1. txn'[v] = txn[v] /\ txn[v].job = "cancel" /\ txn[v].target # RequestOf[f]
        /\ txn[v].target \in Requests
    BY <1>1, <1>6 DEF RequestFree, CancelKnows
  <2>2. Deals(txn[v].target)' = Deals(txn[v].target)
    BY <1>3, <1>5, <2>1 DEF Deals, OffersOn
  <2>3. \A g \in Offers : PaidOn(g)' <=> PaidOn(g)
    BY <1>7 DEF PaidOn, OrdersFor
  <2> QED BY <1>4, <2>1, <2>2, <2>3 DEF CancelKnows, OffersOn
<1>12. CancelledDealOffSale'
  BY <1>3, <1>4 DEF CancelledDealOffSale
<1> QED BY <1>8, <1>9, <1>10, <1>11, <1>12

\* A payment under way and a cancellation of the same request: the payment
\* waits for the request, and the cancellation for the private listing.
LEMMA PayAgainstCancel ==
    ASSUME SaleInv, NEW v \in Workers, NEW w \in Workers,
           txn[v].job = "pay", txn[w].job = "cancel",
           RequestOf[OfferOf[txn[v].target]] = txn[w].target
    PROVE  txn[v].read = txn[w].target /\ txn[w].read = OfferOf[txn[v].target]
<1> USE WantedAssumption DEF SaleInv, SaleRows
<1>1. /\ txn[v].target \in Orders /\ OfferOf[txn[v].target] \in Offers
      /\ HasDeal(OfferOf[txn[v].target])
      /\ txn[v].read \in {Nothing, txn[w].target}
  BY DEF DealInv, DealRows, PayLocks, OrderHasDeal
<1>2. txn[w].target \in Requests /\ request[txn[w].target] \in {"open", "matched"}
  BY DEF CancelKnows
<1>3. txn[v].read = txn[w].target
  BY <1>1, <1>2 DEF PayKnows
<1>4. OfferOf[txn[v].target] \in Deals(txn[w].target)
  BY <1>1, <1>2 DEF AcceptedDeals, Deals, OffersOn, HasDeal
<1>5. txn[w].read \in Deals(txn[w].target)
  BY <1>4 DEF CancelKnows
<1>6. txn[w].read = OfferOf[txn[v].target]
  BY <1>4, <1>5 DEF DealInv, DealRows, OneDealPerRequest, Deals, OffersOn
<1> QED BY <1>3, <1>6

LEMMA CancelCommitKeepsSale ==
    ASSUME SaleInv, NEW w \in Workers, NEW r \in Requests, CancelCommit(w, r)
    PROVE  SaleRows'
<1> USE WantedAssumption DEF SaleInv, SaleRows
<1>1. /\ txn \in [Workers -> Txn] /\ deal \in [Offers -> Deal]
      /\ request \in [Requests -> RequestStatus]
      /\ txn[w].job = "cancel" /\ txn[w].target = r
      /\ request[r] \in {"open", "matched"}
  BY DEF DealInv, WantedTypeOK, CancelCommit, CancelKnows
<1>2. \A v \in Workers : txn'[v].job \in {"pay", "cancel", "edit"} => txn'[v] = txn[v] /\ v # w
  BY <1>1 DEF CancelCommit, End, Idle, Work
<1>3. /\ request'[r] = "cancelled"
      /\ \A q \in Requests \ {r} : request'[q] = request[q]
  BY <1>1 DEF CancelCommit
<1>4. \A f \in Offers : RequestOf[f] # r => offer'[f] = offer[f]
  BY DEF CancelCommit
<1>5. \A f \in Offers :
         /\ HasDeal(f)' <=> HasDeal(f)
         /\ OnSaleOrReserved(f)' => OnSaleOrReserved(f) /\ f # txn[w].read
  BY <1>1 DEF CancelCommit, OnSale, HasDeal, OnSaleOrReserved, Deal
<1>6. \A o \in Orders : order'[o] = "paid_held" => order[o] = "paid_held"
  BY DEF CancelCommit
<1>7. EditReads' /\ CancelAlone'
  BY <1>2 DEF EditReads, CancelAlone
<1>8. AcceptedDeals'
  BY <1>3, <1>4, <1>5 DEF AcceptedDeals
<1>9. PayKnows'
  <2> SUFFICES ASSUME NEW v \in Workers, txn'[v].job = "pay"
               PROVE  IF txn[v].read = Nothing
                      THEN request'[RequestOf[OfferOf[txn[v].target]]] \in {"fulfilled", "cancelled"}
                      ELSE request'[txn[v].read] \in {"matched", "fulfilled"}
    BY <1>2 DEF PayKnows
  <2>1. /\ txn[v].job = "pay" /\ txn[v].target \in Orders
        /\ OfferOf[txn[v].target] \in Offers
        /\ RequestOf[OfferOf[txn[v].target]] \in Requests
        /\ txn[v].read \in {Nothing, RequestOf[OfferOf[txn[v].target]]}
    BY <1>2 DEF DealInv, DealRows, PayLocks
  <2>2. RequestOf[OfferOf[txn[v].target]] # r
    <3> SUFFICES ASSUME RequestOf[OfferOf[txn[v].target]] = r PROVE FALSE
      OBVIOUS
    <3>1. txn[w].read = OfferOf[txn[v].target]
      BY <1>1, <2>1, PayAgainstCancel
    <3>2. txn[w].read # Nothing /\ ~DealFree(txn[w].read)
      BY <2>1, <3>1 DEF DealFree
    <3> QED BY <3>2 DEF CancelCommit
  <2> QED BY <1>3, <2>1, <2>2 DEF PayKnows
<1>10. CancelKnows'
  <2> SUFFICES ASSUME NEW v \in Workers, txn'[v].job = "cancel"
               PROVE  /\ txn[v].target \in Requests
                      /\ request'[txn[v].target] \in {"open", "matched"}
                      /\ IF txn[v].read = Nothing THEN Deals(txn[v].target)' = {}
                         ELSE txn[v].read \in Deals(txn[v].target)'
                      /\ \A f \in OffersOn(txn[v].target) : ~PaidOn(f)'
    BY <1>2 DEF CancelKnows, OffersOn
  <2>1. txn'[v] = txn[v] /\ txn[v].job = "cancel" /\ txn[v].target \in Requests \ {r}
    BY <1>1, <1>2 DEF CancelAlone, CancelKnows
  <2>2. Deals(txn[v].target)' = Deals(txn[v].target)
    BY <1>4, <1>5, <2>1 DEF Deals, OffersOn, HasDeal
  <2>3. \A f \in Offers : PaidOn(f)' => PaidOn(f)
    BY <1>6 DEF PaidOn, OrdersFor
  <2> QED BY <1>3, <2>1, <2>2, <2>3 DEF CancelKnows, OffersOn
<1>11. CancelledDealOffSale'
  <2> SUFFICES ASSUME NEW f \in Offers, request'[RequestOf[f]] = "cancelled"
               PROVE  ~OnSaleOrReserved(f)'
    BY DEF CancelledDealOffSale, OnSaleOrReserved
  <2>1. CASE RequestOf[f] # r
    <3>1. request[RequestOf[f]] = "cancelled"
      BY <1>3, <2>1
    <3> QED BY <1>5, <3>1 DEF CancelledDealOffSale, OnSaleOrReserved
  <2>2. CASE RequestOf[f] = r
    <3> SUFFICES ASSUME OnSaleOrReserved(f)' PROVE FALSE
      OBVIOUS
    <3>1. HasDeal(f) /\ f # txn[w].read
      BY <1>5 DEF OnSaleOrReserved, HasDeal
    <3>2. f \in Deals(r)
      BY <1>1, <2>2, <3>1 DEF AcceptedDeals, Deals, OffersOn, HasDeal
    <3>3. txn[w].read \in Deals(r)
      BY <1>1, <3>2 DEF CancelKnows
    <3> QED BY <3>1, <3>2, <3>3 DEF DealInv, DealRows, OneDealPerRequest, Deals, OffersOn
  <2> QED BY <2>1, <2>2
<1> QED BY <1>7, <1>8, <1>9, <1>10, <1>11

LEMMA PayCommitKeepsSale ==
    ASSUME SaleInv, NEW w \in Workers, NEW o \in Orders, PayCommit(w, o)
    PROVE  SaleRows'
<1> USE WantedAssumption DEF SaleInv, SaleRows
<1> DEFINE q == RequestOf[OfferOf[o]]
<1>1. /\ txn \in [Workers -> Txn] /\ deal \in [Offers -> Deal]
      /\ request \in [Requests -> RequestStatus] /\ order \in [Orders -> OrderStatus]
      /\ OfferOf[o] \in Offers /\ q \in Requests
      /\ txn[w].job = "pay" /\ txn[w].target = o
  BY DEF DealInv, WantedTypeOK, PayCommit
<1>2. txn[w].read \in {Nothing, q} /\ HasDeal(OfferOf[o])
  BY <1>1 DEF DealInv, DealRows, PayLocks, OrderHasDeal
<1>3. \A v \in Workers : txn'[v].job \in {"pay", "cancel", "edit"} => txn'[v] = txn[v]
  BY <1>1, EndClosesNothing DEF PayCommit
<1>4. /\ \A r \in Requests \ {q} : request'[r] = request[r]
      /\ txn[w].read = q => request'[q] = "fulfilled" /\ request[q] \in {"matched", "fulfilled"}
      /\ txn[w].read = Nothing =>
            request'[q] = request[q] /\ request[q] \in {"fulfilled", "cancelled"}
  BY <1>1, <1>2 DEF PayCommit, PayKnows
<1>5. /\ \A f \in Offers : HasDeal(f)' <=> HasDeal(f)
      /\ \A f \in Offers : OnSaleOrReserved(f)' => OnSaleOrReserved(f)
  <2>1. /\ deal' = [deal EXCEPT ![OfferOf[o]] = [deal[OfferOf[o]] EXCEPT !.status = "sold"]]
        /\ [deal[OfferOf[o]] EXCEPT !.status = "sold"].status = "sold"
    BY <1>1 DEF PayCommit, Deal
  <2> QED BY <1>1, <1>2, <2>1 DEF HasDeal, OnSaleOrReserved
<1>6. offer' = offer /\ \A p \in Orders \ {o} : order'[p] = order[p]
  BY <1>1 DEF PayCommit
<1>7. EditReads' /\ CancelAlone'
  BY <1>3 DEF EditReads, CancelAlone
<1>8. AcceptedDeals'
  BY <1>2, <1>4, <1>5, <1>6 DEF AcceptedDeals
<1>9. PayKnows'
  <2>1. \A v \in Workers : txn[v].job = "pay" =>
           /\ txn[v].target \in Orders
           /\ OfferOf[txn[v].target] \in Offers
           /\ RequestOf[OfferOf[txn[v].target]] \in Requests
           /\ txn[v].read \in {Nothing, RequestOf[OfferOf[txn[v].target]]}
    BY DEF DealInv, DealRows, PayLocks
  <2> QED BY <1>2, <1>3, <1>4, <2>1 DEF PayKnows
<1>10. CancelKnows'
  <2> SUFFICES ASSUME NEW v \in Workers, txn'[v].job = "cancel"
               PROVE  /\ txn[v].target \in Requests
                      /\ request'[txn[v].target] \in {"open", "matched"}
                      /\ IF txn[v].read = Nothing THEN Deals(txn[v].target)' = {}
                         ELSE txn[v].read \in Deals(txn[v].target)'
                      /\ \A f \in OffersOn(txn[v].target) : ~PaidOn(f)'
    BY <1>3 DEF CancelKnows, OffersOn
  <2>1. txn'[v] = txn[v] /\ txn[v].job = "cancel" /\ txn[v].target \in Requests
    BY <1>3 DEF CancelKnows
  <2>2. txn[v].target # q
    <3> SUFFICES ASSUME txn[v].target = q PROVE FALSE
      OBVIOUS
    <3>1. txn[w].read = q /\ ~RequestFree(q)
      BY <1>1, <2>1, PayAgainstCancel DEF RequestFree
    <3> QED BY <1>1, <3>1 DEF PayCommit
  <2>3. Deals(txn[v].target)' = Deals(txn[v].target)
    BY <1>5, <1>6, <2>1 DEF Deals, OffersOn, HasDeal
  <2>4. \A f \in OffersOn(txn[v].target) : PaidOn(f)' => PaidOn(f)
    BY <1>6, <2>2 DEF PaidOn, OrdersFor, OffersOn
  <2> QED BY <1>4, <2>1, <2>2, <2>3, <2>4 DEF CancelKnows
<1>11. CancelledDealOffSale'
  BY <1>2, <1>4, <1>5 DEF CancelledDealOffSale, OnSaleOrReserved
<1> QED BY <1>7, <1>8, <1>9, <1>10, <1>11

LEMMA PayReadKeepsSale ==
    ASSUME SaleInv, NEW w \in Workers, NEW o \in Orders, PayRead(w, o)
    PROVE  SaleRows'
<1> USE WantedAssumption DEF SaleInv, SaleRows
<1>1. /\ UnchangedRows /\ txn \in [Workers -> Txn]
      /\ order[o] = "pending_payment" /\ OfferOf[o] \in Offers
  BY DEF DealInv, WantedTypeOK, PayRead
<1>2. txn' = [txn EXCEPT ![w] = Work("pay", o, Closes(o), 0, {})]
  BY DEF PayRead, Start
<1>3. HasDeal(OfferOf[o])
  BY <1>1 DEF DealInv, DealRows, OrderHasDeal
<1>4. IF Closes(o) = Nothing
      THEN request[RequestOf[OfferOf[o]]] \in {"fulfilled", "cancelled"}
      ELSE request[Closes(o)] \in {"matched", "fulfilled"}
  BY <1>1, <1>3 DEF Closes, AcceptedDeals
<1>5. /\ txn'[w] = Work("pay", o, Closes(o), 0, {})
      /\ \A v \in Workers \ {w} : txn'[v] = txn[v]
  BY <1>1, <1>2
<1>6. txn'[w].job = "pay" /\ txn'[w].target = o /\ txn'[w].read = Closes(o)
  BY <1>5 DEF Work
<1>7. PayKnows'
  BY <1>1, <1>4, <1>5, <1>6 DEF UnchangedRows, PayKnows
<1>8. EditReads' /\ CancelAlone'
  BY <1>5, <1>6 DEF EditReads, CancelAlone
<1>9. CancelKnows'
  BY <1>1, <1>5, <1>6 DEF UnchangedRows, CancelKnows, Deals, OffersOn, PaidOn, OrdersFor
<1> QED BY <1>1, <1>7, <1>8, <1>9 DEF UnchangedRows, AcceptedDeals, CancelledDealOffSale, HasDeal

LEMMA CancelReadKeepsSale ==
    ASSUME SaleInv, NEW w \in Workers, NEW r \in Requests, CancelRead(w, r)
    PROVE  SaleRows'
<1> USE WantedAssumption DEF SaleInv, SaleRows
<1>1. /\ UnchangedRows /\ txn \in [Workers -> Txn] /\ RequestFree(r)
      /\ request[r] \in {"open", "matched"} /\ \A f \in Deals(r) : ~PaidOn(f)
  BY DEF DealInv, WantedTypeOK, CancelRead, CancelReads
<1>2. PICK f \in Deals(r) \cup {Nothing}, S \in SUBSET Orders :
         /\ f = Nothing => Deals(r) = {}
         /\ txn' = [txn EXCEPT ![w] = Work("cancel", r, f, 0, S)]
  BY DEF CancelRead, Start
<1>3. /\ txn'[w] = Work("cancel", r, f, 0, S)
      /\ \A v \in Workers \ {w} : txn'[v] = txn[v]
  BY <1>1, <1>2
<1>4. txn'[w].job = "cancel" /\ txn'[w].target = r /\ txn'[w].read = f
  BY <1>3 DEF Work
<1>5. \A g \in OffersOn(r) : ~PaidOn(g)
  <2> SUFFICES ASSUME NEW g \in OffersOn(r), PaidOn(g) PROVE FALSE
    OBVIOUS
  <2>1. HasDeal(g)
    BY DEF DealInv, DealRows, OrderHasDeal, PaidOn, OrdersFor
  <2>2. g \in Deals(r)
    BY <1>1, <2>1 DEF AcceptedDeals, Deals, OffersOn, HasDeal,
       DealInv, DealRows, OpenHasNoDeal
  <2> QED BY <1>1, <2>2
<1>6. CancelKnows'
  BY <1>1, <1>2, <1>3, <1>4, <1>5
     DEF UnchangedRows, CancelKnows, Deals, OffersOn, PaidOn, OrdersFor
<1>7. PayKnows'
  BY <1>1, <1>3, <1>4 DEF UnchangedRows, PayKnows
<1>8. EditReads' /\ CancelAlone'
  BY <1>1, <1>3, <1>4 DEF EditReads, CancelAlone, RequestFree
<1> QED BY <1>1, <1>6, <1>7, <1>8 DEF UnchangedRows, AcceptedDeals, CancelledDealOffSale, HasDeal

\* The other steps close nothing.
LEMMA OtherOfferStepsCloseNothing ==
    ASSUME SaleInv, ~EditRaces, NEW w \in Workers, NEW f \in Offers,
           OfferStep(w, f), ~OfferAccept(w, f)
    PROVE  NothingCloses
<1>t. txn \in [Workers -> Txn] /\ offer \in [Offers -> OfferStatus]
  BY DEF SaleInv, DealInv, WantedTypeOK
<1>1. CASE SubmitCreate(w, f)
  BY <1>1, <1>t, EndClosesNothing DEF SubmitCreate, NothingCloses, HasDeal, OnSaleOrReserved
<1>2. CASE SubmitGet(w, f)
  <2>1. CASE End(w)
    BY <1>2, <1>t, <2>1, EndClosesNothing, ReadingClosesNothing DEF SubmitGet
  <2>2. CASE ~End(w)
    <3>1. /\ offer[f] \in {"pending", "withdrawn"}
          /\ txn' = [txn EXCEPT ![w] = Work("edit", f, offer[f], @.price, {})]
      BY <1>2, <2>2 DEF SubmitGet
    <3>2. /\ txn'[w].job = "edit" /\ txn'[w].read \in {"pending", "withdrawn"}
          /\ \A v \in Workers \ {w} : txn'[v] = txn[v]
      BY <1>t, <3>1 DEF Work
    <3> QED BY <1>2, <3>2, ReadingClosesNothing DEF SubmitGet
  <2> QED BY <2>1, <2>2
<1>3. CASE EditSave(w, f)
  <2>1. offer[f] \in {"pending", "withdrawn"}
    BY <1>3 DEF EditSave, SaleInv, SaleRows, EditReads
  <2> QED BY <1>3, <1>t, <2>1, EndClosesNothing
          DEF EditSave, NothingCloses, HasDeal, OnSaleOrReserved
<1>4. CASE EditOvertaken(w, f) \/ AcceptRefused(w, f)
  BY <1>4, <1>t, EndClosesNothing, ReadingClosesNothing DEF EditOvertaken, AcceptRefused
<1> QED BY <1>1, <1>2, <1>3, <1>4 DEF OfferStep

LEMMA WorkerStepKeepsSale ==
    ASSUME SaleInv, ~EditRaces, NEW w \in Workers, WorkerStep(w)
    PROVE  SaleRows'
<1>t. /\ DealInv /\ SaleRows /\ txn \in [Workers -> Txn]
      /\ request \in [Requests -> RequestStatus]
  BY DEF SaleInv, DealInv, WantedTypeOK
<1>1. ASSUME NEW f \in Offers, OfferStep(w, f) PROVE SaleRows'
  BY <1>t, <1>1, AcceptKeepsSale, OtherOfferStepsCloseNothing, NothingClosesKeeps
<1>2. CASE ExpireWrite(w)
  <2>1. NothingCloses
    BY <1>t, <1>2, EndClosesNothing
       DEF ExpireWrite, StillOpen, NothingCloses, HasDeal, OnSaleOrReserved
  <2> QED BY <1>t, <2>1, NothingClosesKeeps
<1>3. CASE DeadlockVictim(w)
  BY <1>t, <1>3, EndClosesNothing, ReadingClosesNothing, NothingClosesKeeps DEF DeadlockVictim
<1> QED BY <1>1, <1>2, <1>3, CancelCommitKeepsSale, PayCommitKeepsSale DEF WorkerStep

LEMMA ArrivalKeepsSale ==
    ASSUME SaleInv, NEW w \in Workers,
           Arrival(w) \/ \E r \in Requests : ExpireScan(w, r)
    PROVE  SaleRows'
<1>t. DealInv /\ SaleRows /\ txn \in [Workers -> Txn]
  BY DEF SaleInv, DealInv, WantedTypeOK
<1>1. ASSUME UnchangedRows, NEW t, t.job \notin {"pay", "cancel", "edit"}, Start(w, t)
      PROVE  SaleRows'
  <2>1. \A v \in Workers : txn'[v].job \in {"pay", "cancel", "edit"} => txn'[v] = txn[v]
    BY <1>1, <1>t, StartClosesNothing
  <2>2. NothingCloses
    BY <1>1, <2>1, ReadingClosesNothing
  <2> QED BY <1>t, <2>2, NothingClosesKeeps
<1>2. \A job, target, read, p, ids : Work(job, target, read, p, ids).job = job
  BY DEF Work
<1>3. ASSUME NEW f \in Offers, SubmitRead(w, f) \/ AcceptRead(w, f) PROVE SaleRows'
  BY <1>1, <1>2, <1>3 DEF SubmitRead, AcceptRead
<1>4. ASSUME NEW r \in Requests, ExpireScan(w, r) PROVE SaleRows'
  <2>1. UnchangedRows /\ \E S : Start(w, Work("expire", Nothing, Nothing, 0, S))
    BY <1>4 DEF ExpireScan
  <2> QED BY <1>1, <1>2, <2>1
<1> QED BY <1>3, <1>4, CancelReadKeepsSale, PayReadKeepsSale DEF Arrival

LEMMA ListingStepKeepsSale == ASSUME SaleInv, ListingStep PROVE SaleRows'
<1> USE WantedAssumption DEF HasDeal, OnSaleOrReserved
<1>t. /\ DealInv /\ SaleRows /\ deal \in [Offers -> Deal] /\ order \in [Orders -> OrderStatus]
      /\ offer \in [Offers -> OfferStatus]
  BY DEF SaleInv, DealInv, WantedTypeOK
<1>d. \A f \in Offers, status \in DealStatus : [deal[f] EXCEPT !.status = status].status = status
  BY <1>t DEF Deal
<1>1. ASSUME NEW f \in Offers, OfferWithdraw(f) PROVE NothingCloses
  BY <1>t, <1>1 DEF OfferWithdraw, NothingCloses
<1>2. ASSUME NEW f \in Offers, SellerWithdraws(f) PROVE NothingCloses
  <2>1. /\ deal' = [deal EXCEPT ![f] = [deal[f] EXCEPT !.status = "removed"]]
        /\ [deal[f] EXCEPT !.status = "removed"].status = "removed"
    BY <1>d, <1>2 DEF SellerWithdraws, DealStatus
  <2> QED BY <1>t, <1>2, <2>1 DEF SellerWithdraws, NothingCloses
<1>3. ASSUME NEW o \in Orders, Checkout(o) PROVE NothingCloses
  <2>1. /\ OfferOf[o] \in Offers
        /\ deal' = [deal EXCEPT ![OfferOf[o]] = [deal[OfferOf[o]] EXCEPT !.status = "reserved"]]
        /\ [deal[OfferOf[o]] EXCEPT !.status = "reserved"].status = "reserved"
    BY <1>d, <1>3 DEF Checkout, DealStatus
  <2>2. \A f \in Offers : /\ HasDeal(f)' <=> HasDeal(f)
                          /\ OnSaleOrReserved(f)' => OnSaleOrReserved(f)
    BY <1>t, <1>3, <2>1 DEF Checkout
  <2> QED BY <1>t, <1>3, <2>2 DEF Checkout, NothingCloses
<1>4. ASSUME NEW o \in Orders, CancelUnpaid(o) PROVE NothingCloses
  <2>1. OfferOf[o] \in Offers /\ [deal[OfferOf[o]] EXCEPT !.status = "active"].status = "active"
    BY <1>d DEF DealStatus
  <2>2. \A f \in Offers : /\ HasDeal(f)' <=> HasDeal(f)
                          /\ OnSaleOrReserved(f)' => OnSaleOrReserved(f)
    BY <1>t, <1>4, <2>1 DEF CancelUnpaid
  <2> QED BY <1>t, <1>4, <2>2 DEF CancelUnpaid, NothingCloses
<1> QED BY <1>t, <1>1, <1>2, <1>3, <1>4, NothingClosesKeeps DEF ListingStep

LEMMA SaleInvInductive == ASSUME ~EditRaces PROVE WantedSpec => []SaleInv
<1>1. WantedInit => SaleRows
  BY WantedAssumption DEF WantedInit, SaleRows, EditReads, AcceptedDeals, PayKnows, CancelKnows,
     CancelAlone, CancelledDealOffSale, HasDeal, NoDeal, Idle, Work
<1>2. DealInv /\ SaleRows /\ [WantedNext]_wantedVars => SaleRows'
  <2> SUFFICES ASSUME SaleInv, [WantedNext]_wantedVars PROVE SaleRows'
    BY DEF SaleInv
  <2>1. CASE WantedNext
    BY <2>1, StepKinds, WorkerStepKeepsSale, ArrivalKeepsSale, ListingStepKeepsSale
  <2>2. CASE UNCHANGED wantedVars
    BY <2>2 DEF wantedVars, SaleInv, SaleRows, EditReads, AcceptedDeals, PayKnows, CancelKnows,
       CancelAlone, CancelledDealOffSale, HasDeal, Deals, OffersOn, PaidOn, OrdersFor
  <2> QED BY <2>1, <2>2
<1> QED BY <1>1, <1>2, DealInvInductive, PTL DEF WantedSpec, SaleInv

\* parts_wanted_cancel takes the private listing off the market whatever state a
\* checkout has left it in, and no accept, checkout or payment puts it back:
\* where the edits of offers do not race.
THEOREM CancelledOffSale == ASSUME ~EditRaces PROVE WantedSpec => []CancelledDealOffSale
BY SaleInvInductive, PTL DEF SaleInv, SaleRows

\* A request whose order is paid is never cancelled: what parts_wanted_cancel saw
\* of the orders before it locked them stands until it commits.
THEOREM PaidNotCancelled == ASSUME ~EditRaces PROVE WantedSpec => PaidDealNotCancelled
<1>1. SaleInv /\ [WantedNext]_wantedVars =>
        [\A r \in Requests : (request[r] # "cancelled" /\ request'[r] = "cancelled")
             => \A f \in OffersOn(r) : ~PaidOn(f)]_wantedVars
  <2> SUFFICES ASSUME SaleInv, WantedNext,
                      NEW r \in Requests, request[r] # "cancelled", request'[r] = "cancelled"
               PROVE  \A f \in OffersOn(r) : ~PaidOn(f)
    OBVIOUS
  <2>1. request \in [Requests -> RequestStatus]
    BY DEF SaleInv, DealInv, WantedTypeOK
  <2>2. PICK w \in Workers, q \in Requests : CancelCommit(w, q)
    <3>1. \A w \in Workers, f \in Offers : ~OfferStep(w, f)
      BY <2>1 DEF OfferStep, SubmitCreate, SubmitGet, EditSave, EditOvertaken, OfferAccept,
         AcceptRefused, UnchangedRows
    <3>2. \A w \in Workers : ~ExpireWrite(w) /\ ~DeadlockVictim(w)
      BY DEF ExpireWrite, DeadlockVictim, UnchangedRows
    <3>3. \A w \in Workers, o \in Orders : ~PayCommit(w, o)
      BY DEF PayCommit
    <3>4. \A w \in Workers : ~Arrival(w) /\ \A q \in Requests : ~ExpireScan(w, q)
      BY DEF Arrival, SubmitRead, AcceptRead, CancelRead, PayRead, ExpireScan, UnchangedRows
    <3>5. ~ListingStep
      BY DEF ListingStep, OfferWithdraw, SellerWithdraws, Checkout, CancelUnpaid
    <3> QED BY <3>1, <3>2, <3>3, <3>4, <3>5, StepKinds DEF WorkerStep
  <2>3. q = r
    BY <2>1, <2>2 DEF CancelCommit
  <2> QED BY <2>2, <2>3 DEF CancelCommit, SaleInv, SaleRows, CancelKnows
<1> QED BY <1>1, SaleInvInductive, PTL DEF WantedSpec, PaidDealNotCancelled
=============================================================================
