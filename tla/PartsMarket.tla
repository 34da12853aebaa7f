----------------------------- MODULE PartsMarket -----------------------------
(***************************************************************************)
(* The life of a paid order: shipping, delivery, the warranty, refund      *)
(* requests, disputes, the sweeps that act when a deadline passes, and the  *)
(* settlement each of them asks of the escrow.  Composes PartsCheckout     *)
(* (how the order came to be paid) and Escrow (where its money is).        *)
(*                                                                         *)
(* `desk` plays for these handlers the part `req` plays in PartsCheckout:  *)
(* what a handler read before it got to the row it will write.             *)
(***************************************************************************)
EXTENDS PartsCheckout

CONSTANTS
    Tickets,   \* bound on the DisputeTicket rows ever created
    Desk       \* slots of web and Celery workers serving paid orders

MarketJobs == {"dispute", "dispute_checked", "cancel_dispute", "refund_request",
               "refund_approve", "refund_reject", "release", "release_settle", "auto_deliver",
               "auto_refund"}

ASSUME MarketAssumption ==
    /\ IsFiniteSet(Tickets)
    /\ Orders \cap Tickets = {}

VARIABLES
    ticket,      \* the DisputeTicket rows
    shipped,     \* PartOrder.shipped_at is set
    warranty,    \* warranty_ends_at: not set, ahead, or past
    inspection,  \* the same for the 3 days in which a dispute may be opened
    desk         \* the handler in flight in each slot

marketVars == <<ticket, shipped, warranty, inspection, desk>>

vars == <<checkoutVars, marketVars>>

\* The statuses in which a paid order waits for its money to be settled
\* (wallet_summary counts them as "in escrow").
EscrowStatus == {"paid_held", "shipped", "delivered", "refund_requested", "disputed"}

TicketStatus == {"none", "open", "resolved_refund", "resolved_release",
                 "resolved_split", "cancelled"}

TicketRow == [status : TicketStatus, order : Orders \cup {Nothing},
              at_open : EscrowStatus \cup {Nothing}]

NoTicket == [status |-> "none", order |-> Nothing, at_open |-> Nothing]

Clock == {"not_started", "running", "over"}

IdleDesk == [job |-> "idle", order |-> Nothing, ticket |-> Nothing, seen |-> Nothing]

DeskRow == [job : MarketJobs \cup {"idle"}, order : Orders \cup {Nothing},
            ticket : Tickets \cup {Nothing}, seen : OrderStatus \cup {Nothing}]

MarketTypeOK ==
    /\ CheckoutTypeOK
    /\ ticket \in [Tickets -> TicketRow]
    /\ shipped \in [Orders -> BOOLEAN]
    /\ warranty \in [Orders -> Clock]
    /\ inspection \in [Orders -> Clock]
    /\ desk \in [Desk -> DeskRow]

MarketInit ==
    /\ CheckoutInit
    /\ ticket = [t \in Tickets |-> NoTicket]
    /\ shipped = [o \in Orders |-> FALSE]
    /\ warranty = [o \in Orders |-> "not_started"]
    /\ inspection = [o \in Orders |-> "not_started"]
    /\ desk = [d \in Desk |-> IdleDesk]

-----------------------------------------------------------------------------
(* Handlers in flight                                                      *)

DeskIdle == \A d \in Desk : desk[d].job = "idle"

MayStart == Quiet /\ (Overlap \/ DeskIdle)

Take(d, job, o, t) ==
    /\ MayStart
    /\ desk[d].job = "idle"
    /\ job \in Traffic
    /\ desk' = [desk EXCEPT ![d] =
          [job |-> job, order |-> o, ticket |-> t, seen |-> order[o]]]

Serving(d, job, o) == desk[d].job = job /\ desk[d].order = o

GoOn(d, job) == desk' = [desk EXCEPT ![d].job = job]

Done(d) == desk' = [desk EXCEPT ![d] = IdleDesk]

\* What no handler of a paid order touches.
UnchangedCheckout == UNCHANGED <<receipt, gateway, outcome, answered, flagged, req, crashes>>

UnchangedClocks == UNCHANGED <<shipped, warranty, inspection>>

SetStatus(o, status) == order' = [order EXCEPT ![o] = status]

\* A handler that only read: its slot moves, the rows stay.
OnlyRead ==
    /\ UnchangedSale
    /\ UnchangedCheckout
    /\ UnchangedClocks
    /\ UNCHANGED ticket

OpenTicketOn(o) == \E t \in Tickets : ticket[t].order = o /\ ticket[t].status = "open"

-----------------------------------------------------------------------------
(* Shipping and delivery                                                   *)

\* parts_mark_shipped: one conditional UPDATE.
Ship(o) ==
    /\ MayStart
    /\ order[o] = "paid_held"
    /\ SetStatus(o, "shipped")
    /\ shipped' = [shipped EXCEPT ![o] = TRUE]
    /\ UNCHANGED <<listing, escrowVars, warranty, inspection, ticket, desk>>
    /\ UnchangedCheckout

\* PartOrder.mark_delivered, under the row lock in both of its callers.
MarkDelivered(o) ==
    /\ order[o] \in {"paid_held", "shipped"}
    /\ SetStatus(o, "delivered")
    /\ warranty' = [warranty EXCEPT ![o] = "running"]
    /\ inspection' = [inspection EXCEPT ![o] = "running"]
    /\ UNCHANGED <<listing, escrowVars, shipped, ticket>>
    /\ UnchangedCheckout

ConfirmDelivery(o) ==
    /\ MayStart
    /\ MarkDelivered(o)
    /\ UNCHANGED desk

\* auto_confirm_stale_deliveries, 14 days after shipping: the scan and the look
\* for an open dispute come before the row is locked and its status read again.
AutoDeliverScan(d, o) ==
    /\ order[o] = "shipped"
    /\ ~OpenTicketOn(o)
    /\ Take(d, "auto_deliver", o, Nothing)
    /\ OnlyRead

AutoDeliver(d, o) ==
    /\ Serving(d, "auto_deliver", o)
    /\ Done(d)
    /\ \/ order[o] = "shipped" /\ MarkDelivered(o)
       \/ order[o] # "shipped" /\ OnlyRead

\* The days of the warranty, and those of the inspection window, pass.
WarrantyEnds(o) ==
    /\ warranty[o] = "running"
    /\ warranty' = [warranty EXCEPT ![o] = "over"]
    /\ UNCHANGED <<shipped, inspection, ticket, desk>>
    /\ UnchangedSale
    /\ UnchangedCheckout

InspectionEnds(o) ==
    /\ inspection[o] = "running"
    /\ inspection' = [inspection EXCEPT ![o] = "over"]
    /\ UNCHANGED <<shipped, warranty, ticket, desk>>
    /\ UnchangedSale
    /\ UnchangedCheckout

-----------------------------------------------------------------------------
(* Settlements that follow a deadline                                      *)

\* Mutant: only the order is marked; its hold stays.
RefundOrderStatusOnly(o) ==
    /\ SetStatus(o, "refunded")
    /\ UNCHANGED escrowVars
    /\ UnchangedCheckout
    /\ UnchangedClocks

\* Mutant: only the hold is settled.
RefundOrderHoldOnly(o) ==
    /\ RefundToBuyer(o)
    /\ UNCHANGED order
    /\ UnchangedCheckout
    /\ UnchangedClocks

\* A settlement and the order status it is recorded with.  When the hold is
\* already settled the escrow refuses and the transaction rolls back.
RefundOrder(o) ==
    /\ RefundToBuyer(o)
    /\ SetStatus(o, "refunded")
    /\ UnchangedCheckout
    /\ UnchangedClocks

\* Mutant: only the order is marked; its hold stays.
ReleaseOrderStatusOnly(o) ==
    /\ SetStatus(o, "released")
    /\ UNCHANGED escrowVars
    /\ UnchangedCheckout
    /\ UnchangedClocks

ReleaseOrder(o) ==
    /\ ReleaseToSeller(o)
    /\ SetStatus(o, "released")
    /\ UnchangedCheckout
    /\ UnchangedClocks

\* Mutant: the sweep also takes orders that were shipped.
UnshippedOrShipped(o) == order[o] \in {"paid_held", "shipped"}

Unshipped(o) == order[o] = "paid_held"

\* refund_unshipped_orders, 5 days after payment; same shape as AutoDeliver.
AutoRefundScan(d, o) ==
    /\ Unshipped(o)
    /\ ~OpenTicketOn(o)
    /\ Take(d, "auto_refund", o, Nothing)
    /\ OnlyRead

AutoRefund(d, o) ==
    /\ Serving(d, "auto_refund", o)
    /\ Done(d)
    /\ \/ /\ Unshipped(o)
          /\ RefundOrder(o)
          /\ listing' = IF listing[ListingOf[o]].status = "sold"
                        THEN [listing EXCEPT ![ListingOf[o]].status = "removed"] ELSE listing
          /\ UNCHANGED ticket
       \/ ~(Unshipped(o) /\ CanSettle(o)) /\ OnlyRead

\* auto_release_expired_warranties reads the candidates, ...
ReleaseScan(d, o) ==
    /\ order[o] = "delivered"
    /\ warranty[o] = "over"
    /\ Take(d, "release", o, Nothing)
    /\ OnlyRead

\* Mutant: the UPDATE is not conditional.
StillDeliveredUnchecked(o) == TRUE

StillDelivered(o) == order[o] = "delivered"

\* ... moves each with one conditional UPDATE that commits by itself, ...
ReleaseUpdate(d, o) ==
    /\ Serving(d, "release", o)
    /\ \/ /\ StillDelivered(o)
          /\ SetStatus(o, "released")
          /\ GoOn(d, "release_settle")
          /\ UNCHANGED <<listing, escrowVars, ticket>>
          /\ UnchangedCheckout
          /\ UnchangedClocks
       \/ ~StillDelivered(o) /\ Done(d) /\ OnlyRead

\* ... and then settles the hold; a refusal is logged and swallowed.
ReleaseSettle(d, o) ==
    /\ Serving(d, "release_settle", o)
    /\ Done(d)
    /\ \/ /\ ReleaseToSeller(o)
          /\ UNCHANGED <<order, listing, ticket>>
          /\ UnchangedCheckout
          /\ UnchangedClocks
       \/ ~CanSettle(o) /\ OnlyRead

-----------------------------------------------------------------------------
(* Refund requests                                                         *)

\* parts_request_refund looks at the order and its warranty, ...
RequestRefundRead(d, o) ==
    /\ order[o] = "delivered"
    /\ warranty[o] # "over"
    /\ Take(d, "refund_request", o, Nothing)
    /\ OnlyRead

\* ... and then its conditional UPDATE decides.
RequestRefund(d, o) ==
    /\ Serving(d, "refund_request", o)
    /\ Done(d)
    /\ \/ /\ order[o] = "delivered"
          /\ SetStatus(o, "refund_requested")
          /\ UNCHANGED <<listing, escrowVars, ticket>>
          /\ UnchangedCheckout
          /\ UnchangedClocks
       \/ order[o] # "delivered" /\ OnlyRead

\* super_admin_parts_refund_approve / _reject look at the order unlocked ...
DecideRefundRead(d, o) ==
    /\ order[o] = "refund_requested"
    /\ \E job \in {"refund_approve", "refund_reject"} : Take(d, job, o, Nothing)
    /\ OnlyRead

\* ... and only the hold protects what they then write.
ApproveRefund(d, o) ==
    /\ Serving(d, "refund_approve", o)
    /\ Done(d)
    /\ \/ RefundOrder(o) /\ UNCHANGED <<listing, ticket>>
       \/ ~CanSettle(o) /\ OnlyRead

RejectRefund(d, o) ==
    /\ Serving(d, "refund_reject", o)
    /\ Done(d)
    /\ \/ ReleaseOrder(o) /\ UNCHANGED <<listing, ticket>>
       \/ ~CanSettle(o) /\ OnlyRead

-----------------------------------------------------------------------------
(* Disputes (marketplace_c2c/services/disputes.py)                         *)

FreeTickets == {t \in Tickets : ticket[t].status = "none"}

\* Bound: a dispute is taken up only while a ticket row is left for it.
TicketLeft ==
    Cardinality({d \in Desk : desk[d].job \in {"dispute", "dispute_checked"}})
        < Cardinality(FreeTickets)

IsWithinWindow(o) ==
    \/ order[o] \in {"paid_held", "shipped", "disputed"}
    \/ order[o] = "delivered" /\ inspection[o] = "running"

\* The view fetches the order, open_dispute tests the window on that copy, ...
DisputeRead(d, o) ==
    /\ IsWithinWindow(o)
    /\ TicketLeft
    /\ Take(d, "dispute", o, Nothing)
    /\ OnlyRead

\* ... looks for an open ticket to return instead, ...
DisputeCheck(d, o) ==
    /\ Serving(d, "dispute", o)
    /\ IF OpenTicketOn(o) THEN Done(d) ELSE GoOn(d, "dispute_checked")
    /\ OnlyRead

Freeze(o, seen) == IF seen = "disputed" THEN UNCHANGED order ELSE SetStatus(o, "disputed")

\* ... creates the ticket and freezes the order, whatever became of it.
DisputeCommit(d, o) ==
    /\ Serving(d, "dispute_checked", o)
    /\ \E t \in FreeTickets :
          ticket' = [ticket EXCEPT ![t] =
              [status |-> "open", order |-> o, at_open |-> desk[d].seen]]
    /\ Freeze(o, desk[d].seen)
    /\ Done(d)
    /\ UNCHANGED <<listing, escrowVars>>
    /\ UnchangedCheckout
    /\ UnchangedClocks

CloseTicket(t, status) ==
    /\ ticket[t].status = "open"
    /\ ticket' = [ticket EXCEPT ![t].status = status]

\* The ticket row is locked and read again, the hold is locked by the escrow;
\* order and ticket are written in the same transaction.
ResolveWithRefund(t) ==
    /\ MayStart
    /\ CloseTicket(t, "resolved_refund")
    /\ RefundOrder(ticket[t].order)
    /\ UNCHANGED <<listing, desk>>

ResolveWithRelease(t) ==
    /\ MayStart
    /\ CloseTicket(t, "resolved_release")
    /\ ReleaseOrder(ticket[t].order)
    /\ UNCHANGED <<listing, desk>>

ResolveWithSplit(t) ==
    LET o == ticket[t].order IN
    /\ MayStart
    /\ CloseTicket(t, "resolved_split")
    /\ \E refund \in SplitRefunds(o) : SplitSettlement(o, refund)
    /\ SetStatus(o, "released")
    /\ UNCHANGED <<listing, desk>>
    /\ UnchangedCheckout
    /\ UnchangedClocks

\* dispute_resolve fetches the ticket with its order; only the ticket's status
\* is read again under the lock.
CancelDisputeRead(d, t) ==
    /\ ticket[t].status = "open"
    /\ Take(d, "cancel_dispute", ticket[t].order, t)
    /\ OnlyRead

Restore(o, seen, t) ==
    IF seen = "disputed" THEN SetStatus(o, ticket[t].at_open) ELSE UNCHANGED order

CancelDispute(d, o) ==
    LET t == desk[d].ticket IN
    /\ Serving(d, "cancel_dispute", o)
    /\ Done(d)
    /\ \/ /\ CloseTicket(t, "cancelled")
          /\ Restore(o, desk[d].seen, t)
          /\ UNCHANGED <<listing, escrowVars>>
          /\ UnchangedCheckout
          /\ UnchangedClocks
       \/ ticket[t].status # "open" /\ OnlyRead

-----------------------------------------------------------------------------
(* The specification                                                       *)

\* An admin records a transfer (payouts.mark_paid, under the row lock).
PayOut(o) ==
    /\ MayStart
    /\ \E k \in PayoutKinds : MarkPayoutPaid(o, k)
    /\ UNCHANGED <<order, listing, marketVars>>
    /\ UnchangedCheckout

DeskCrash(d) ==
    /\ desk[d].job # "idle"
    /\ crashes < MaxCrashes
    /\ crashes' = crashes + 1
    /\ Done(d)
    /\ UNCHANGED <<receipt, ticket, req>>
    /\ UnchangedPayment
    /\ UnchangedSale
    /\ UnchangedClocks

CheckoutStep ==
    /\ Overlap \/ DeskIdle
    /\ CheckoutNext
    /\ UNCHANGED marketVars

Scan(d, o) == AutoDeliverScan(d, o) \/ AutoRefundScan(d, o) \/ ReleaseScan(d, o)

FinishDesk(d, o) ==
    \/ AutoDeliver(d, o) \/ AutoRefund(d, o) \/ ReleaseUpdate(d, o) \/ ReleaseSettle(d, o)
    \/ RequestRefund(d, o) \/ ApproveRefund(d, o) \/ RejectRefund(d, o)
    \/ DisputeCheck(d, o) \/ DisputeCommit(d, o) \/ CancelDispute(d, o)

ClockStep(o) == WarrantyEnds(o) \/ InspectionEnds(o)

MarketStep ==
    \/ \E o \in Orders :
          \/ Ship(o) \/ ConfirmDelivery(o) \/ ClockStep(o) \/ PayOut(o)
          \/ \E d \in Desk :
                \/ Scan(d, o) \/ RequestRefundRead(d, o) \/ DecideRefundRead(d, o)
                \/ DisputeRead(d, o) \/ FinishDesk(d, o)
    \/ \E t \in Tickets :
          \/ ResolveWithRefund(t) \/ ResolveWithRelease(t) \/ ResolveWithSplit(t)
          \/ \E d \in Desk : CancelDisputeRead(d, t)
    \/ \E d \in Desk : DeskCrash(d)

MarketNext == CheckoutStep \/ MarketStep

MarketSpec == MarketInit /\ [][MarketNext]_vars

\* Handlers run to their end, the warranty passes, and the beat schedule brings
\* the sweeps back to an order as long as it keeps being a candidate, however
\* often other handlers had the workers meanwhile (hence the strong fairness).
MarketFairness ==
    /\ \A d \in Desk : WF_vars(\E o \in Orders : FinishDesk(d, o))
    /\ \A o \in Orders :
          /\ SF_vars(\E d \in Desk : AutoDeliverScan(d, o))
          /\ SF_vars(\E d \in Desk : AutoRefundScan(d, o))
          /\ SF_vars(\E d \in Desk : ReleaseScan(d, o))
          /\ WF_vars(WarrantyEnds(o))

FairMarketSpec == MarketSpec /\ MarketFairness

-----------------------------------------------------------------------------
(* Properties                                                              *)

Serves(job, o) == \E d \in Desk : Serving(d, job, o)

\* A buyer whose order says "refunded" is owed the whole amount: whatever the
\* refund raced with, no order is marked refunded while its money went, or may
\* still go, to the seller.
RefundedMeansMoneyBack ==
    \A o \in Orders : order[o] = "refunded" => hold[o] = "refunded_to_buyer"

\* The order and its hold tell the same story, except between the two commits
\* of the warranty sweep: sweeps, refund requests and the admin's decision on
\* them never settle an order twice or under different names.
LedgerAgrees ==
    \A o \in Orders :
        /\ order[o] = "refunded" <=> hold[o] = "refunded_to_buyer"
        /\ hold[o] = "released_to_seller" => order[o] = "released"
        /\ order[o] = "released" =>
              hold[o] = "released_to_seller" \/ Serves("release_settle", o)

\* "A dispute or refund request opened while the sweep was running must win"
\* (comment in PartOrder.release_to_seller): while a refund request stands, only
\* the admin who decides it moves the order or its money.
RefundRequestWins ==
    [][\A o \in Orders :
          /\ order[o] = "refund_requested"
          /\ order'[o] # order[o] \/ hold'[o] # hold[o]
          => Serves("refund_approve", o) \/ Serves("refund_reject", o)]_vars

\* While a dispute is open its order is frozen and nobody has been paid:
\* "escrow funds are frozen until an admin resolves the case" (DisputeTicket).
\* Overlapping handlers break it, which is why the next property says what holds.
DisputeFreezesFunds ==
    \A t \in Tickets :
        ticket[t].status = "open" =>
            order[ticket[t].order] = "disputed" /\ ~Settled(ticket[t].order)

Finishes(job, o) == \E d \in Desk : Serving(d, job, o) /\ desk'[d] = IdleDesk

\* A frozen order and its money are moved only by the admin who closes one of its
\* tickets, by one who decides a refund request seen before the freeze, or by the
\* second commit of a release whose first came before it: no shipment, delivery,
\* deadline or sweep gets past a dispute, whatever it had read.
FrozenUntilDecided ==
    [][\A o \in Orders :
          order[o] = "disputed" /\ (order'[o] # order[o] \/ hold'[o] # hold[o]) =>
              \/ \E t \in Tickets : /\ ticket[t].order = o /\ ticket[t].status = "open"
                                    /\ ticket'[t].status # "open"
              \/ Finishes("refund_approve", o) \/ Finishes("refund_reject", o)
              \/ Finishes("release_settle", o)]_vars

\* "Don't allow a second open dispute on the same order" (open_dispute).  Two
\* requests that overlap do open two.
OneTicketPerDispute ==
    \A t, u \in Tickets :
        (ticket[t].status = "open" /\ ticket[u].status = "open"
            /\ ticket[t].order = ticket[u].order) => t = u

Ruling(status) ==
    CASE status = "resolved_refund" -> "refunded_to_buyer"
      [] status = "resolved_release" -> "released_to_seller"
      [] status = "resolved_split" -> "split"
      [] OTHER -> "none"

Ruled(t) == Ruling(ticket[t].status) # "none"

\* However many tickets an order has, one ruling is carried out and the money
\* stays where that ruling sent it, ...
RulingsStand ==
    /\ \A t \in Tickets : Ruled(t) => hold[ticket[t].order] = Ruling(ticket[t].status)
    /\ \A t, u \in Tickets : Ruled(t) /\ Ruled(u) /\ ticket[t].order = ticket[u].order => t = u

\* ... and a frozen order has an open ticket through which an admin can unfreeze
\* it, for no sweep touches it; unless a dispute was taken up on an order already
\* frozen, and its cancellation "restores" that.
FrozenHasTicket ==
    \A o \in Orders :
        order[o] = "disputed" =>
            \/ OpenTicketOn(o)
            \/ \E t \in Tickets : /\ ticket[t].order = o /\ ticket[t].status = "cancelled"
                                  /\ ticket[t].at_open = "disputed"

TicketsDecide == RulingsStand /\ FrozenHasTicket

EverDisputed(o) == \E t \in Tickets : ticket[t].order = o /\ ticket[t].status # "none"

\* The seller's wallet shows the money of a sale once: an order counted as "in
\* escrow" has no payout row yet (wallet_summary adds the two up separately).  A
\* dispute may write a status back over a settlement; nothing else does.
WalletNeverCountsTwice ==
    \A o \in Orders :
        order[o] \in EscrowStatus /\ ~EverDisputed(o) =>
            paidAt[o] /\ \A k \in PayoutKinds : payout[o][k].status = "none"

\* Once the seller has shipped, the buyer's money comes back only through a refund
\* request that an admin approves or a dispute that one rules on.  The automatic
\* refund is for orders "the seller never shipped" (refund_unshipped_orders): it
\* takes a shipped one only if a dispute of before the shipping, cancelled after
\* it, has put "paid" back.
ShippedRefundHasCause ==
    [][\A o \in Orders :
          shipped[o] /\ order[o] # "refunded" /\ order'[o] = "refunded" =>
              \/ Finishes("refund_approve", o)
              \/ \E t \in Tickets :
                    /\ ticket[t].order = o
                    /\ \/ ticket[t].status = "open" /\ ticket'[t].status = "resolved_refund"
                       \/ ticket[t].status = "cancelled" /\ ticket[t].at_open = "paid_held"]_vars

\* Released orders whose money still lies in custody with no handler on its way
\* to it: no sweep selects them again.
Stranded ==
    {o \in Orders : order[o] = "released" /\ ~Settled(o) /\ ~Serves("release_settle", o)}

\* "The financial record must reflect the release" (PartOrder.release_to_seller):
\* a released order has its hold settled, and so the seller's payout queued.
ReleasedMeansSettled == Stranded = {}

\* Only a worker that dies between the two commits of a release strands an order,
\* and each death at most one: neither the refusal that release_to_seller logs and
\* swallows, nor any race with refunds and disputes, leaves a release half done.
StrandedOnlyByCrash == Cardinality(Stranded) <= crashes

\* A buyer's or a seller's silence never strands the money: every paid order
\* comes to be settled, or waits for an admin (a dispute or a refund request).
MoneyMovesOn ==
    \A o \in Orders :
        paidAt[o] ~> [](Settled(o) \/ order[o] \in {"disputed", "refund_requested"}
                        \/ OpenTicketOn(o))
=============================================================================
