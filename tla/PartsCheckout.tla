---------------------------- MODULE PartsCheckout ----------------------------
(***************************************************************************)
(* The way to a paid order in the parts marketplace: listings and their    *)
(* moderation, reservation, payment through Paymob or by a transfer receipt*)
(* that an admin reviews, cancellation, and the sweep that cancels         *)
(* abandoned checkouts.                                                    *)
(*                                                                         *)
(* A handler that works under a row lock, or with one conditional UPDATE,  *)
(* is one action.  A handler that reads a row, decides, and writes later   *)
(* is two or three: the value it read is kept in `req`, and any other      *)
(* request may run in between.                                             *)
(***************************************************************************)
EXTENDS Escrow, FiniteSets

CONSTANTS
    Listings,     \* the PartListing rows
    ListingOf,    \* the listing each order would buy
    Web,          \* request slots of the web workers
    Celery,       \* slots of the Celery workers that run the sweeps
    Traffic,      \* the requests that occur in this instance
    Overlap,      \* whether a request may start while another is in flight
    Alone,        \* requests that overlap no other one, whatever Overlap says
    MaxCrashes    \* bound on requests that die half way

Slots == Web \cup Celery

\* Handlers that do not hold a lock from their first read to their last write.
CheckoutJobs == {"callback_success", "callback_failure", "cancel", "cancel_receipts",
                 "expire", "expire_receipts", "upload", "confirm", "confirm_locked",
                 "reject", "approve", "admin_edit"}

\* Handlers that are one transaction under a lock, as far as they are modelled.
AtomicJobs == {"checkout_paymob", "checkout_manual", "seller_change", "moderate"}

ASSUME CheckoutAssumption ==
    /\ ListingOf \in [Orders -> Listings]
    /\ Overlap \in BOOLEAN
    /\ Alone \subseteq CheckoutJobs
    /\ MaxCrashes \in Nat
    /\ Orders \cap Listings = {}

VARIABLES
    order,      \* PartOrder.status, "none" while the row does not exist
    listing,    \* PartListing: status, moderation_status, is_deleted
    receipt,    \* ManualPaymentReceipt of the order: status, proof uploaded
    gateway,    \* the order's payment page at Paymob
    outcome,    \* the transaction results Paymob may call back with
    answered,   \* the success callback was answered 200
    flagged,    \* PlatformEvent asking an admin to return a payment
    req,        \* the request in flight in each slot
    crashes     \* how many requests died half way so far

checkoutVars == <<order, listing, receipt, gateway, outcome, answered,
                  flagged, req, crashes, escrowVars>>

OrderStatus == {"pending_payment", "paid_held", "shipped", "delivered", "released",
                "refund_requested", "refunded", "disputed", "cancelled"}

\* The statuses in which an order owns its listing (cancel_unpaid).
LiveStatus == OrderStatus \ {"refunded", "cancelled"}

ListingStatus == {"draft", "active", "reserved", "sold", "removed"}

ListingRow == [status : ListingStatus,
               moderation : {"pending_approval", "approved", "rejected", "suspended"},
               deleted : BOOLEAN]

ReceiptStatus == {"none", "pending", "confirmed", "rejected"}

ReceiptRow == [status : ReceiptStatus, uploaded : BOOLEAN]

Outcomes == {"captured", "declined"}

Nothing == "-"

Submitted == [status |-> "draft", moderation |-> "pending_approval", deleted |-> FALSE]

Published == [status |-> "active", moderation |-> "approved", deleted |-> FALSE]

Idle == [job |-> "idle", target |-> Nothing, seen |-> Nothing, row |-> Submitted]

\* What a handler remembers: a status for an order's or receipt's handler, the
\* whole row for a listing's.
Request == [job : CheckoutJobs \cup {"idle"},
            target : Orders \cup Listings \cup {Nothing},
            seen : OrderStatus \cup ReceiptStatus \cup {Nothing},
            row : ListingRow]

CheckoutTypeOK ==
    /\ EscrowTypeOK
    /\ order \in [Orders -> OrderStatus \cup {"none"}]
    /\ listing \in [Listings -> ListingRow]
    /\ receipt \in [Orders -> ReceiptRow]
    /\ gateway \in [Orders -> {"none", "creating", "open"}]
    /\ outcome \in [Orders -> SUBSET Outcomes]
    /\ answered \in [Orders -> BOOLEAN]
    /\ flagged \in [Orders -> BOOLEAN]
    /\ req \in [Slots -> Request]
    /\ crashes \in 0 .. MaxCrashes

\* A listing is as the seller submitted it (create_listing_from_post), or was
\* already published by the moderators.
CheckoutInit ==
    /\ EscrowInit
    /\ order = [o \in Orders |-> "none"]
    /\ listing \in [Listings -> {Submitted, Published}]
    /\ receipt = [o \in Orders |-> [status |-> "none", uploaded |-> FALSE]]
    /\ gateway = [o \in Orders |-> "none"]
    /\ outcome = [o \in Orders |-> {}]
    /\ answered = [o \in Orders |-> FALSE]
    /\ flagged = [o \in Orders |-> FALSE]
    /\ req = [w \in Slots |-> Idle]
    /\ crashes = 0

-----------------------------------------------------------------------------
(* Requests in flight                                                      *)

Free(w) == req[w].job = "idle"

\* Nothing is in flight (the checkout that waits for Paymob's answer included).
AllQuiet ==
    /\ \A w \in Slots : Free(w)
    /\ \A o \in Orders : gateway[o] # "creating"

Quiet == AllQuiet \/ (Overlap /\ \A w \in Slots : req[w].job \notin Alone)

\* A request of this kind may arrive now.
Comes(job) == job \in Traffic /\ Quiet /\ (job \in Alone => AllQuiet)

Accept(w, request) ==
    /\ Free(w)
    /\ Comes(request.job)
    /\ req' = [req EXCEPT ![w] = request]

Begin(w, job, o, seen) ==
    Accept(w, [Idle EXCEPT !.job = job, !.target = o, !.seen = seen])

Continue(w, job, seen) ==
    req' = [req EXCEPT ![w] = [@ EXCEPT !.job = job, !.seen = seen]]

Finish(w) == req' = [req EXCEPT ![w] = Idle]

\* A row lock on the receipt, taken by confirm() with its first save and held
\* until its transaction ends.
ReceiptFree(o) ==
    \A w \in Slots : ~(req[w].job = "confirm_locked" /\ req[w].target = o)

UnchangedSale == UNCHANGED <<order, listing, escrowVars>>

UnchangedPayment == UNCHANGED <<gateway, outcome, answered, flagged>>

-----------------------------------------------------------------------------
(* marketplace_b2b/services/parts_orders.py                                *)

\* mark_paid once the order row is locked and seen pending.
Pay(o) ==
    /\ order' = [order EXCEPT ![o] = "paid_held"]
    /\ listing' = [listing EXCEPT ![ListingOf[o]].status = "sold"]
    /\ \E placed \in BOOLEAN : TakeCustody(o, placed)

\* Mutant: mark_paid accepts a cancelled order.
TryPayEvenCancelled(o) ==
    \/ order[o] \in {"pending_payment", "cancelled"} /\ Pay(o)
    \/ order[o] \notin {"pending_payment", "cancelled"} /\ UnchangedSale

TryPay(o) ==
    \/ order[o] = "pending_payment" /\ Pay(o)
    \/ order[o] # "pending_payment" /\ UnchangedSale

OtherLiveOrder(o) ==
    \E p \in Orders \ {o} : ListingOf[p] = ListingOf[o] /\ order[p] \in LiveStatus

\* Mutant: the reservation is forgotten.
CancelKeepsReservation(o) ==
    /\ order' = [order EXCEPT ![o] = "cancelled"]
    /\ UNCHANGED <<listing, escrowVars>>

\* cancel_unpaid once the order row is locked and seen pending.
Cancel(o) ==
    /\ order' = [order EXCEPT ![o] = "cancelled"]
    /\ listing' =
          IF listing[ListingOf[o]].status = "reserved" /\ ~OtherLiveOrder(o)
          THEN [listing EXCEPT ![ListingOf[o]].status = "active"] ELSE listing
    /\ UNCHANGED escrowVars

\* Mutant: the locked row is not read again.
TryCancelStale(o) == Cancel(o)

TryCancel(o) ==
    \/ order[o] = "pending_payment" /\ Cancel(o)
    \/ order[o] # "pending_payment" /\ UnchangedSale

-----------------------------------------------------------------------------
(* Checkout                                                                *)

\* can_be_bought_by; the marketplace hides who is asking.
CanBeBought(l) ==
    /\ listing[l].status = "active"
    /\ listing[l].moderation = "approved"
    /\ ~listing[l].deleted

Reserve(o) ==
    /\ order[o] = "none"
    /\ CanBeBought(ListingOf[o])
    /\ listing' = [listing EXCEPT ![ListingOf[o]].status = "reserved"]
    /\ order' = [order EXCEPT ![o] = "pending_payment"]
    /\ UNCHANGED escrowVars

\* parts_checkout reserves and commits, then asks Paymob for a payment page.
CheckoutPaymob(o) ==
    /\ Comes("checkout_paymob")
    /\ Reserve(o)
    /\ gateway' = [gateway EXCEPT ![o] = "creating"]
    /\ UNCHANGED <<receipt, outcome, answered, flagged, req, crashes>>

PaymobCreated(o) ==
    /\ gateway[o] = "creating"
    /\ gateway' = [gateway EXCEPT ![o] = "open"]
    /\ UNCHANGED <<receipt, outcome, answered, flagged, req, crashes>>
    /\ UnchangedSale

PaymobUnavailable(o) ==
    /\ gateway[o] = "creating"
    /\ gateway' = [gateway EXCEPT ![o] = "none"]
    /\ TryCancel(o)
    /\ UNCHANGED <<receipt, outcome, answered, flagged, req, crashes>>

\* The worker dies with the order reserved and no payment page.
CheckoutDied(o) ==
    /\ gateway[o] = "creating"
    /\ crashes < MaxCrashes
    /\ crashes' = crashes + 1
    /\ gateway' = [gateway EXCEPT ![o] = "none"]
    /\ UNCHANGED <<receipt, outcome, answered, flagged, req>>
    /\ UnchangedSale

\* manual_pay_parts_start reserves and creates the receipt in one transaction.
CheckoutManual(o) ==
    /\ Comes("checkout_manual")
    /\ Reserve(o)
    /\ receipt' = [receipt EXCEPT ![o].status = "pending"]
    /\ UnchangedPayment
    /\ UNCHANGED <<req, crashes>>

-----------------------------------------------------------------------------
(* Paymob: the buyer pays on Paymob's page; each result is called back any *)
(* number of times, in any order.                                          *)

PaymentAttempt(o) ==
    /\ gateway[o] = "open"
    /\ "captured" \notin outcome[o]
    /\ \E r \in Outcomes : outcome' = [outcome EXCEPT ![o] = @ \cup {r}]
    /\ UNCHANGED <<receipt, gateway, answered, flagged, req, crashes>>
    /\ UnchangedSale

CallbackRead(w, o) ==
    /\ \/ "captured" \in outcome[o] /\ Begin(w, "callback_success", o, order[o])
       \/ "declined" \in outcome[o] /\ Begin(w, "callback_failure", o, order[o])
    /\ UNCHANGED <<receipt, crashes>>
    /\ UnchangedPayment
    /\ UnchangedSale

\* Mutant: a capture for a cancelled order is dropped.
RaiseNoEvent(o) == UNCHANGED flagged

\* A PlatformEvent asks an admin to return the money.
RaiseEvent(o) == flagged' = [flagged EXCEPT ![o] = TRUE]

CallbackSuccess(w, o) ==
    /\ req[w].job = "callback_success" /\ req[w].target = o
    /\ \/ req[w].seen = "pending_payment" /\ TryPay(o) /\ UNCHANGED flagged
       \/ /\ req[w].seen = "cancelled"
          /\ RaiseEvent(o)
          /\ UnchangedSale
       \/ /\ req[w].seen \notin {"pending_payment", "cancelled"}
          /\ UnchangedSale /\ UNCHANGED flagged
    /\ answered' = [answered EXCEPT ![o] = TRUE]
    /\ Finish(w)
    /\ UNCHANGED <<receipt, gateway, outcome, crashes>>

CallbackFailure(w, o) ==
    /\ req[w].job = "callback_failure" /\ req[w].target = o
    /\ \/ req[w].seen = "pending_payment" /\ TryCancel(o)
       \/ req[w].seen # "pending_payment" /\ UnchangedSale
    /\ Finish(w)
    /\ UNCHANGED <<receipt, crashes>>
    /\ UnchangedPayment

-----------------------------------------------------------------------------
(* Cancellation by the buyer and by the sweep of abandoned checkouts       *)

ReceiptAwaitsReview(o) == receipt[o].status = "pending" /\ receipt[o].uploaded

CancelRead(w, o) ==
    /\ order[o] # "none"
    /\ ~ReceiptAwaitsReview(o)
    /\ Begin(w, "cancel", o, Nothing)
    /\ UNCHANGED <<receipt, crashes>>
    /\ UnchangedPayment
    /\ UnchangedSale

\* Mutant: the sweep leaves every checkout with a receipt to the admin.
ExpirableWithoutReceipt(o) == receipt[o].status = "none"

\* The sweep keeps away from a checkout whose receipt was uploaded, unless
\* that receipt was rejected.
Expirable(o) == ~(receipt[o].status \in {"pending", "confirmed"} /\ receipt[o].uploaded)

\* The deadlines (2 and 24 hours) may pass any time.
ExpireRead(w, o) ==
    /\ order[o] = "pending_payment"
    /\ Expirable(o)
    /\ Begin(w, "expire", o, Nothing)
    /\ UNCHANGED <<receipt, crashes>>
    /\ UnchangedPayment
    /\ UnchangedSale

CancelWrite(w, o) ==
    /\ req[w].job \in {"cancel", "expire"} /\ req[w].target = o
    /\ TryCancel(o)
    /\ IF order[o] # "pending_payment" THEN Finish(w)
       ELSE Continue(w, IF req[w].job = "cancel" THEN "cancel_receipts"
                                                 ELSE "expire_receipts", Nothing)
    /\ UNCHANGED <<receipt, crashes>>
    /\ UnchangedPayment

\* The buyer's cancellation rejects every pending receipt of the order, the
\* sweep only those without a proof of payment.
CancelReceipts(w, o) ==
    /\ req[w].job \in {"cancel_receipts", "expire_receipts"} /\ req[w].target = o
    /\ ReceiptFree(o)
    /\ receipt' =
          IF receipt[o].status = "pending"
             /\ (req[w].job = "cancel_receipts" \/ ~receipt[o].uploaded)
          THEN [receipt EXCEPT ![o].status = "rejected"] ELSE receipt
    /\ Finish(w)
    /\ UnchangedPayment
    /\ UnchangedSale
    /\ UNCHANGED crashes
-----------------------------------------------------------------------------
(* ManualPaymentReceipt: upload by the buyer, review by an admin           *)

UploadRead(w, o) ==
    /\ receipt[o].status = "pending"
    /\ order[o] # "cancelled"
    /\ Begin(w, "upload", o, Nothing)
    /\ UNCHANGED <<receipt, crashes>>
    /\ UnchangedPayment
    /\ UnchangedSale

\* The proof is saved without the status, whatever became of the receipt.
UploadWrite(w, o) ==
    /\ req[w].job = "upload" /\ req[w].target = o
    /\ ReceiptFree(o)
    /\ receipt' = [receipt EXCEPT ![o].uploaded = TRUE]
    /\ Finish(w)
    /\ UNCHANGED crashes
    /\ UnchangedPayment
    /\ UnchangedSale

\* admin_review_receipt fetches the receipt, then calls confirm or reject.
ReviewRead(w, o) ==
    /\ receipt[o].status # "none"
    /\ \E decision \in {"confirm", "reject"} :
          Begin(w, decision, o, receipt[o].status)
    /\ UNCHANGED <<receipt, crashes>>
    /\ UnchangedPayment
    /\ UnchangedSale

\* Both decisions look at the status fetched before, not at the row.
MayDecide(w) == req[w].seen # "confirmed"

ReviewRefused(w, o) ==
    /\ req[w].job \in {"confirm", "reject"} /\ req[w].target = o
    /\ ~MayDecide(w)
    /\ Finish(w)
    /\ UNCHANGED <<receipt, crashes>>
    /\ UnchangedPayment
    /\ UnchangedSale

\* confirm() saves the receipt, which locks its row, and reads the order.
ConfirmLock(w, o) ==
    /\ req[w].job = "confirm" /\ req[w].target = o
    /\ MayDecide(w)
    /\ ReceiptFree(o)
    /\ Continue(w, "confirm_locked", order[o])
    /\ UNCHANGED <<receipt, crashes>>
    /\ UnchangedPayment
    /\ UnchangedSale

\* Mutant: whether the listing is still for sale is not looked at.
CanReactivateAnyway(o) == ~listing[ListingOf[o]].deleted

CanReactivate(o) ==
    /\ listing[ListingOf[o]].status = "active"
    /\ ~listing[ListingOf[o]].deleted

\* A cancelled order is reactivated and paid if its listing is still for sale.
ConfirmCommit(w, o) ==
    /\ req[w].job = "confirm_locked" /\ req[w].target = o
    /\ \/ req[w].seen = "cancelled" /\ CanReactivate(o) /\ Pay(o)
       \/ req[w].seen # "cancelled" /\ TryPay(o)
    /\ receipt' = [receipt EXCEPT ![o].status = "confirmed"]
    /\ Finish(w)
    /\ UNCHANGED crashes
    /\ UnchangedPayment

\* Mutant: the error is swallowed and the receipt saved.
ConfirmSwallowed(w, o) ==
    /\ req[w].job = "confirm_locked" /\ req[w].target = o
    /\ req[w].seen = "cancelled" /\ ~CanReactivate(o)
    /\ receipt' = [receipt EXCEPT ![o].status = "confirmed"]
    /\ Finish(w)
    /\ UNCHANGED crashes
    /\ UnchangedPayment
    /\ UnchangedSale

\* ValidationError: the listing is gone, the whole transaction rolls back.
ConfirmRolledBack(w, o) ==
    /\ req[w].job = "confirm_locked" /\ req[w].target = o
    /\ req[w].seen = "cancelled" /\ ~CanReactivate(o)
    /\ Finish(w)
    /\ UNCHANGED <<receipt, crashes>>
    /\ UnchangedPayment
    /\ UnchangedSale

RejectWrite(w, o) ==
    /\ req[w].job = "reject" /\ req[w].target = o
    /\ MayDecide(w)
    /\ ReceiptFree(o)
    /\ receipt' = [receipt EXCEPT ![o].status = "rejected"]
    /\ TryCancel(o)
    /\ Finish(w)
    /\ UNCHANGED crashes
    /\ UnchangedPayment

-----------------------------------------------------------------------------
(* Listings: the seller under the row lock, the admin without it           *)

ChangeListing(l, row) ==
    /\ listing' = [listing EXCEPT ![l] = row]
    /\ UNCHANGED <<order, receipt, crashes, escrowVars>>
    /\ UnchangedPayment

\* Mutant: a listing that was sold can still be withdrawn.
SellerMayChangeAny(l) == Comes("seller_change") /\ ~listing[l].deleted

SellerMayChange(l) ==
    /\ Comes("seller_change")
    /\ listing[l].status \in {"draft", "active"}
    /\ ~listing[l].deleted

Withdraw(l) ==
    /\ SellerMayChange(l)
    /\ ChangeListing(l, [listing[l] EXCEPT !.status = "removed"])
    /\ UNCHANGED req

\* An edit of the content, or of a rejected listing, goes back to review; a
\* change of price or city alone leaves the row as modelled here unchanged.
SellerEdit(l) ==
    /\ SellerMayChange(l)
    /\ listing[l].moderation # "suspended"
    /\ ChangeListing(l, [listing[l] EXCEPT !.status = "draft",
                                           !.moderation = "pending_approval"])
    /\ UNCHANGED req

\* Suspension, rejection and soft deletion save only their own columns.
Moderate(l) ==
    /\ Comes("moderate")
    /\ ~listing[l].deleted
    /\ \E row \in {[listing[l] EXCEPT !.moderation = "suspended"],
                   [listing[l] EXCEPT !.moderation = "rejected"],
                   [listing[l] EXCEPT !.deleted = TRUE]} : ChangeListing(l, row)
    /\ UNCHANGED req

ListingRead(w, l) ==
    /\ ~listing[l].deleted
    /\ \E job \in {"approve", "admin_edit"} :
          Accept(w, [Idle EXCEPT !.job = job, !.target = l, !.row = listing[l]])
    /\ ChangeListing(l, listing[l])

\* approve() saves the moderation and the status of the instance it read.
ApproveWrite(w, l) ==
    /\ req[w].job = "approve" /\ req[w].target = l
    /\ IF req[w].row.moderation = "approved" THEN ChangeListing(l, listing[l])
       ELSE ChangeListing(l, [listing[l] EXCEPT
                !.moderation = "approved",
                !.status = IF req[w].row.status = "draft" THEN "active"
                                                          ELSE req[w].row.status])
    /\ Finish(w)

\* The admin form saves every column of the instance it read.
AdminEditWrite(w, l) ==
    /\ req[w].job = "admin_edit" /\ req[w].target = l
    /\ ChangeListing(l, req[w].row)
    /\ Finish(w)

-----------------------------------------------------------------------------
(* The specification                                                       *)

\* A worker dies: its transaction, if any, rolls back.
Crash(w) ==
    /\ ~Free(w)
    /\ crashes < MaxCrashes
    /\ crashes' = crashes + 1
    /\ Finish(w)
    /\ UNCHANGED receipt
    /\ UnchangedPayment
    /\ UnchangedSale

WebStep(w) ==
    \/ \E o \in Orders :
          \/ CallbackRead(w, o) \/ CallbackSuccess(w, o) \/ CallbackFailure(w, o)
          \/ CancelRead(w, o) \/ UploadRead(w, o) \/ UploadWrite(w, o)
          \/ ReviewRead(w, o) \/ ReviewRefused(w, o) \/ RejectWrite(w, o)
          \/ ConfirmLock(w, o) \/ ConfirmCommit(w, o) \/ ConfirmRolledBack(w, o)
    \/ \E l \in Listings : ListingRead(w, l) \/ ApproveWrite(w, l) \/ AdminEditWrite(w, l)

SweepStep(w, o) == CancelWrite(w, o) \/ CancelReceipts(w, o)

CheckoutNext ==
    \/ \E o \in Orders :
          \/ CheckoutPaymob(o) \/ PaymobCreated(o) \/ PaymobUnavailable(o)
          \/ CheckoutDied(o) \/ CheckoutManual(o) \/ PaymentAttempt(o)
    \/ \E l \in Listings : Withdraw(l) \/ SellerEdit(l) \/ Moderate(l)
    \/ \E w \in Web : WebStep(w)
    \/ \E w \in Celery, o \in Orders : ExpireRead(w, o)
    \/ \E w \in Slots : Crash(w) \/ \E o \in Orders : SweepStep(w, o)

CheckoutSpec == CheckoutInit /\ [][CheckoutNext]_checkoutVars

FinishSweep(w) == \E o \in Orders : SweepStep(w, o)

FinishReview(w) ==
    \E o \in Orders :
        \/ UploadWrite(w, o) \/ ReviewRefused(w, o) \/ RejectWrite(w, o)
        \/ ConfirmLock(w, o) \/ ConfirmCommit(w, o) \/ ConfirmRolledBack(w, o)

\* A worker that does not die runs its handler to the end; a sweep that waits
\* for a receipt another request keeps locking gets its turn (PostgreSQL queues
\* the waiters of a row lock), and the beat schedule brings the sweep back to
\* every order that is still a candidate.
CheckoutFairness ==
    /\ \A w \in Web : WF_checkoutVars(FinishReview(w))
    /\ \A w \in Celery : SF_checkoutVars(FinishSweep(w))
    /\ \A o \in Orders : WF_checkoutVars(\E w \in Celery : ExpireRead(w, o))

FairCheckoutSpec == CheckoutSpec /\ CheckoutFairness

-----------------------------------------------------------------------------
(* Properties                                                              *)

\* No double sale: however checkouts, payments, cancellations, sweeps and
\* receipt reviews interleave, at most one order at a time owns a listing,
\* including an order that an admin revives after it was cancelled.
OneLiveOrder ==
    \A o, p \in Orders :
        (ListingOf[o] = ListingOf[p] /\ order[o] \in LiveStatus /\ order[p] \in LiveStatus)
            => o = p

\* A reserved listing is reserved for a checkout that is still open, so that
\* some payment, cancellation or sweep will take it out of that status.
ReservationHasCheckout ==
    \A l \in Listings :
        listing[l].status = "reserved" =>
            \E o \in Orders : ListingOf[o] = l /\ order[o] = "pending_payment"

\* The part a buyer paid for stays off the market while the order waits to be
\* shipped: no cancelled checkout, seller edit or withdrawal puts it back.
PaidPartStaysSold ==
    \A o \in Orders : order[o] = "paid_held" => listing[ListingOf[o]].status = "sold"

\* Money that reached escrow is never attached to an order that the platform
\* considers unpaid: neither a failure callback that arrives after the
\* success, nor a cancellation, nor a rejected receipt undoes a payment.
PaidOrderNeverDropped ==
    \A o \in Orders : paidAt[o] => order[o] \notin {"none", "pending_payment", "cancelled"}

\* An admin is asked to return a capture by hand only when escrow did not take
\* the money, or the buyer would get it back twice.
ManualReturnNotInEscrow == \A o \in Orders : flagged[o] => ~paidAt[o]

\* A capture that Paymob was told is accepted either pays its order or leaves
\* an event for an admin (the comment in parts_paymob_callback).
MoneyAccountedFor == \A o \in Orders : answered[o] => paidAt[o] \/ flagged[o]

\* A capture that was answered with 200 and left no trace.
Lost(o) == answered[o] /\ ~paidAt[o] /\ ~flagged[o]

\* The one race that loses a capture: the callback found the order pending and the
\* order was cancelled before mark_paid locked it.  However callbacks repeat and
\* overlap cancellations, sweeps, receipts and deaths, nothing else does, and a
\* capture that pays or is flagged stays so.
CaptureLostOnlyToCancellation ==
    [][\A o \in Orders :
          ~Lost(o) /\ Lost(o)' =>
              /\ order[o] = "cancelled"
              /\ \E w \in Web : /\ req[w].job = "callback_success" /\ req[w].target = o
                              /\ req[w].seen = "pending_payment"]_checkoutVars

\* A confirmed transfer receipt means its order was paid: the confirmation and
\* the activation succeed together or not at all.
ConfirmedReceiptMeansPaid ==
    \A o \in Orders : receipt[o].status = "confirmed" => paidAt[o]

\* «A confirmed receipt is final» (comment in ManualPaymentReceipt.reject).
ConfirmedReceiptIsFinal ==
    [][\A o \in Orders :
          receipt[o].status = "confirmed" => receipt'[o].status = "confirmed"]_checkoutVars

Unfunded(o) == receipt[o].status = "confirmed" /\ ~paidAt[o]

\* The two races that break the two statements above, and no others: a receipt is
\* confirmed without a payment only if its order was cancelled between confirm()'s
\* read and its mark_paid, and a confirmation is taken back only by a rejection
\* that had fetched the receipt before, which leaves a paid order paid.
ReceiptsFailOnlyByRaces ==
    [][\A o \in Orders :
          /\ ~Unfunded(o) /\ Unfunded(o)' =>
                /\ order[o] = "cancelled"
                /\ \E w \in Web : /\ req[w].job = "confirm_locked" /\ req[w].target = o
                                /\ req[w].seen = "pending_payment"
          /\ receipt[o].status = "confirmed" /\ receipt'[o].status # "confirmed" =>
                /\ \E w \in Web : /\ req[w].job = "reject" /\ req[w].target = o
                                /\ req[w].seen # "confirmed"
                /\ paidAt[o] => order'[o] = order[o]]_checkoutVars

\* An abandoned checkout does not block its listing for ever: unless a receipt
\* waits for an admin, the sweep puts the listing back on sale (or the payment
\* sells it).
ReservationEnds ==
    \A l \in Listings :
        listing[l].status = "reserved" ~>
            \/ listing[l].status # "reserved"
            \/ \E o \in Orders : ListingOf[o] = l /\ ReceiptAwaitsReview(o)
-----------------------------------------------------------------------------
(* Refinement: orders, listings and holds keep the promise of PartSale.    *)

\* Past the checkout it is the hold, not the status, that says whether the buyer
\* has the money back.
DealOf(o) ==
    CASE order[o] = "none" -> "none"
      [] order[o] = "pending_payment" -> "reserved"
      [] order[o] = "cancelled" -> "given_up"
      [] OTHER -> IF hold[o] = "refunded_to_buyer" THEN "returned" ELSE "bought"

Sale == INSTANCE PartSale WITH
    Deals <- Orders, PartOf <- ListingOf, deal <- [o \in Orders |-> DealOf(o)]

\* Seen from outside, callbacks, receipts, cancellations, sweeps and reviews give
\* a part to one buyer at a time, never drop a purchase that was paid, and let a
\* late payment revive a cancelled one only while the part is free.
ImplementsPartSale == Sale!PartSaleSpec
=============================================================================
