-------------------------- MODULE PartsMarketProofs --------------------------
(***************************************************************************)
(* The marketplace moves money only through the escrow: whatever the       *)
(* number of orders, listings, workers and tickets, and whatever dies or   *)
(* interleaves, each step of PartsMarket is one operation of Escrow or     *)
(* leaves the money alone, and so the guarantees proved of Escrow hold of  *)
(* the whole market. From the money side follows what an order's status    *)
(* says of it: StatusInv and, with the tickets, DisputeInv for every       *)
(* overlap; LedgerInv where there are no disputes. MarketMoves and         *)
(* MarketWays say once what each step does to an order, its money and its  *)
(* tickets; the invariants are proved of them. At last the invariants of   *)
(* the checkout are shown to survive what happens to its orders once paid. *)
(***************************************************************************)
EXTENDS PartsMarket, EscrowProofs, CheckoutProofs, FiniteSetTheorems

-----------------------------------------------------------------------------
(* Operations of one order                                                 *)

LEMMA CustodyIsEscrow ==
    ASSUME NEW o \in Orders, \E placed \in BOOLEAN : TakeCustody(o, placed)
    PROVE  EscrowNext
BY DEF EscrowNext, EscrowStep

LEMMA ReleaseIsEscrow ==
    ASSUME NEW o \in Orders, ReleaseToSeller(o)
    PROVE  EscrowNext
BY DEF EscrowNext, EscrowStep

LEMMA RefundIsEscrow ==
    ASSUME NEW o \in Orders, RefundToBuyer(o)
    PROVE  EscrowNext
BY DEF EscrowNext, EscrowStep

LEMMA SplitIsEscrow ==
    ASSUME NEW o \in Orders, \E refund \in SplitRefunds(o) : SplitSettlement(o, refund)
    PROVE  EscrowNext
BY DEF EscrowNext, EscrowStep

LEMMA MarkIsEscrow ==
    ASSUME NEW o \in Orders, \E k \in PayoutKinds : MarkPayoutPaid(o, k)
    PROVE  EscrowNext
BY DEF EscrowNext, EscrowStep

-----------------------------------------------------------------------------
(* Checkout                                                                *)

\* Paying and cancelling, attempted on an order in any status.
LEMMA TryPayIsEscrow ==
    ASSUME NEW o \in Orders, TryPay(o)
    PROVE  [EscrowNext]_escrowVars
BY CustodyIsEscrow DEF TryPay, Pay, UnchangedSale

LEMMA TryCancelIsEscrow ==
    ASSUME NEW o \in Orders, TryCancel(o)
    PROVE  UNCHANGED escrowVars
BY DEF TryCancel, Cancel, UnchangedSale

LEMMA OrderEntryIsEscrow ==
    ASSUME NEW o \in Orders,
           \/ CheckoutPaymob(o) \/ PaymobCreated(o) \/ PaymobUnavailable(o)
           \/ CheckoutDied(o) \/ CheckoutManual(o) \/ PaymentAttempt(o)
    PROVE  UNCHANGED escrowVars
BY TryCancelIsEscrow DEF CheckoutPaymob, PaymobCreated, PaymobUnavailable, CheckoutDied,
       CheckoutManual, PaymentAttempt, Reserve, UnchangedSale

LEMMA ListingStepIsEscrow ==
    ASSUME NEW l \in Listings, NEW w \in Slots,
           \/ Withdraw(l) \/ SellerEdit(l) \/ Moderate(l)
           \/ ListingRead(w, l) \/ ApproveWrite(w, l) \/ AdminEditWrite(w, l)
    PROVE  UNCHANGED escrowVars
BY DEF Withdraw, SellerEdit, Moderate, ListingRead, ApproveWrite, AdminEditWrite,
       ChangeListing

LEMMA SweepIsEscrow ==
    ASSUME NEW w \in Slots, NEW o \in Orders, ExpireRead(w, o) \/ SweepStep(w, o) \/ Crash(w)
    PROVE  UNCHANGED escrowVars
BY TryCancelIsEscrow DEF ExpireRead, SweepStep, CancelWrite, CancelReceipts, Crash,
       UnchangedSale

LEMMA WebOrderStepIsEscrow ==
    ASSUME NEW w \in Slots, NEW o \in Orders,
           \/ CallbackRead(w, o) \/ CallbackSuccess(w, o) \/ CallbackFailure(w, o)
           \/ CancelRead(w, o) \/ UploadRead(w, o) \/ UploadWrite(w, o)
           \/ ReviewRead(w, o) \/ ReviewRefused(w, o) \/ RejectWrite(w, o)
           \/ ConfirmLock(w, o) \/ ConfirmCommit(w, o) \/ ConfirmRolledBack(w, o)
    PROVE  [EscrowNext]_escrowVars
<1>1. CASE \/ CallbackRead(w, o) \/ CancelRead(w, o) \/ UploadRead(w, o) \/ UploadWrite(w, o)
           \/ ReviewRead(w, o) \/ ReviewRefused(w, o) \/ ConfirmLock(w, o)
           \/ ConfirmRolledBack(w, o)
  BY <1>1 DEF CallbackRead, CancelRead, UploadRead, UploadWrite, ReviewRead, ReviewRefused,
              ConfirmLock, ConfirmRolledBack, UnchangedSale
<1>2. CASE CallbackSuccess(w, o)
  BY <1>2, TryPayIsEscrow DEF CallbackSuccess, UnchangedSale
<1>3. CASE CallbackFailure(w, o) \/ RejectWrite(w, o)
  BY <1>3, TryCancelIsEscrow DEF CallbackFailure, RejectWrite, UnchangedSale
<1>4. CASE ConfirmCommit(w, o)
  BY <1>4, TryPayIsEscrow, CustodyIsEscrow DEF ConfirmCommit, Pay
<1> QED
  BY <1>1, <1>2, <1>3, <1>4

LEMMA CheckoutIsEscrow == CheckoutNext => [EscrowNext]_escrowVars
<1> SUFFICES ASSUME CheckoutNext PROVE [EscrowNext]_escrowVars
  OBVIOUS
<1> USE DEF Slots
<1>1. ASSUME NEW o \in Orders,
             \/ CheckoutPaymob(o) \/ PaymobCreated(o) \/ PaymobUnavailable(o)
             \/ CheckoutDied(o) \/ CheckoutManual(o) \/ PaymentAttempt(o)
      PROVE  [EscrowNext]_escrowVars
  BY <1>1, OrderEntryIsEscrow
<1>2. ASSUME NEW l \in Listings, Withdraw(l) \/ SellerEdit(l) \/ Moderate(l)
      PROVE  [EscrowNext]_escrowVars
  BY <1>2 DEF Withdraw, SellerEdit, Moderate, ChangeListing
<1>3. ASSUME NEW w \in Web, WebStep(w)
      PROVE  [EscrowNext]_escrowVars
  BY <1>3, WebOrderStepIsEscrow, ListingStepIsEscrow DEF WebStep
<1>4. ASSUME NEW w \in Celery, NEW o \in Orders, ExpireRead(w, o)
      PROVE  [EscrowNext]_escrowVars
  BY <1>4, SweepIsEscrow
<1>5. ASSUME NEW w \in Slots, Crash(w) \/ \E o \in Orders : SweepStep(w, o)
      PROVE  [EscrowNext]_escrowVars
  BY <1>5, SweepIsEscrow DEF Crash, UnchangedSale
<1> QED
  BY <1>1, <1>2, <1>3, <1>4, <1>5 DEF CheckoutNext

-----------------------------------------------------------------------------
(* Paid orders                                                             *)

LEMMA DeskStepIsEscrow ==
    ASSUME NEW d \in Desk, NEW o \in Orders,
           \/ Scan(d, o) \/ RequestRefundRead(d, o) \/ DecideRefundRead(d, o)
           \/ DisputeRead(d, o) \/ FinishDesk(d, o)
    PROVE  [EscrowNext]_escrowVars
<1>1. OnlyRead => UNCHANGED escrowVars
  BY DEF OnlyRead, UnchangedSale
<1>2. CASE \/ Scan(d, o) \/ RequestRefundRead(d, o) \/ DecideRefundRead(d, o)
           \/ DisputeRead(d, o) \/ DisputeCheck(d, o)
  BY <1>1, <1>2 DEF Scan, AutoDeliverScan, AutoRefundScan, ReleaseScan, RequestRefundRead,
                    DecideRefundRead, DisputeRead, DisputeCheck
<1>3. CASE AutoDeliver(d, o)
  BY <1>1, <1>3 DEF AutoDeliver, MarkDelivered
<1>4. CASE AutoRefund(d, o)
  BY <1>1, <1>4, RefundIsEscrow DEF AutoRefund, RefundOrder
<1>5. CASE ReleaseUpdate(d, o) \/ RequestRefund(d, o)
  BY <1>1, <1>5 DEF ReleaseUpdate, RequestRefund
<1>6. CASE ReleaseSettle(d, o)
  BY <1>1, <1>6, ReleaseIsEscrow DEF ReleaseSettle
<1>7. CASE ApproveRefund(d, o)
  BY <1>1, <1>7, RefundIsEscrow DEF ApproveRefund, RefundOrder
<1>8. CASE RejectRefund(d, o)
  BY <1>1, <1>8, ReleaseIsEscrow DEF RejectRefund, ReleaseOrder
<1>9. CASE DisputeCommit(d, o)
  BY <1>9 DEF DisputeCommit
<1>10. CASE CancelDispute(d, o)
  BY <1>1, <1>10 DEF CancelDispute
<1> QED
  BY <1>2, <1>3, <1>4, <1>5, <1>6, <1>7, <1>8, <1>9, <1>10 DEF FinishDesk

LEMMA OrderStepIsEscrow ==
    ASSUME NEW o \in Orders,
           Ship(o) \/ ConfirmDelivery(o) \/ ClockStep(o) \/ PayOut(o)
    PROVE  [EscrowNext]_escrowVars
<1>1. CASE Ship(o) \/ ConfirmDelivery(o)
  BY <1>1 DEF Ship, ConfirmDelivery, MarkDelivered
<1>2. CASE ClockStep(o)
  BY <1>2 DEF ClockStep, WarrantyEnds, InspectionEnds, UnchangedSale
<1>3. CASE PayOut(o)
  BY <1>3, MarkIsEscrow DEF PayOut
<1> QED
  BY <1>1, <1>2, <1>3

\* An open ticket is about an order.
TicketsOfOrders ==
    \A t \in Tickets : ticket[t].status = "open" => ticket[t].order \in Orders

LEMMA ResolutionIsEscrow ==
    ASSUME TicketsOfOrders, NEW t \in Tickets,
           ResolveWithRefund(t) \/ ResolveWithRelease(t) \/ ResolveWithSplit(t)
    PROVE  EscrowNext
<1> DEFINE o == ticket[t].order
<1>1. o \in Orders
  BY DEF TicketsOfOrders, ResolveWithRefund, ResolveWithRelease, ResolveWithSplit, CloseTicket
<1>2. CASE ResolveWithRefund(t)
  <2>1. RefundToBuyer(o)
    BY <1>2 DEF ResolveWithRefund, RefundOrder
  <2> QED
    BY <1>1, <2>1, RefundIsEscrow
<1>3. CASE ResolveWithRelease(t)
  <2>1. ReleaseToSeller(o)
    BY <1>3 DEF ResolveWithRelease, ReleaseOrder
  <2> QED
    BY <1>1, <2>1, ReleaseIsEscrow
<1>4. CASE ResolveWithSplit(t)
  <2>1. \E refund \in SplitRefunds(o) : SplitSettlement(o, refund)
    BY <1>4 DEF ResolveWithSplit
  <2> QED
    BY <1>1, <2>1, SplitIsEscrow
<1> QED
  BY <1>2, <1>3, <1>4

LEMMA MarketStepIsEscrow ==
    ASSUME TicketsOfOrders, MarketNext
    PROVE  [EscrowNext]_escrowVars
<1>1. CASE CheckoutStep
  BY <1>1, CheckoutIsEscrow DEF CheckoutStep
<1>2. ASSUME NEW o \in Orders,
             \/ Ship(o) \/ ConfirmDelivery(o) \/ ClockStep(o) \/ PayOut(o)
             \/ \E d \in Desk :
                   \/ Scan(d, o) \/ RequestRefundRead(d, o) \/ DecideRefundRead(d, o)
                   \/ DisputeRead(d, o) \/ FinishDesk(d, o)
      PROVE  [EscrowNext]_escrowVars
  BY <1>2, OrderStepIsEscrow, DeskStepIsEscrow
<1>3. ASSUME NEW t \in Tickets,
             \/ ResolveWithRefund(t) \/ ResolveWithRelease(t) \/ ResolveWithSplit(t)
             \/ \E d \in Desk : CancelDisputeRead(d, t)
      PROVE  [EscrowNext]_escrowVars
  BY <1>3, ResolutionIsEscrow DEF CancelDisputeRead, OnlyRead, UnchangedSale
<1>4. ASSUME NEW d \in Desk, DeskCrash(d)
      PROVE  [EscrowNext]_escrowVars
  BY <1>4 DEF DeskCrash, UnchangedSale
<1> QED
  BY <1>1, <1>2, <1>3, <1>4 DEF MarketNext, MarketStep

-----------------------------------------------------------------------------
(* Tickets: every open one stays attached to an order                      *)

\* The rows keep their shape; nothing is said of the status they remember.
TicketRows ==
    /\ ticket = [t \in Tickets |-> ticket[t]]
    /\ \A t \in Tickets :
          ticket[t] = [status |-> ticket[t].status, order |-> ticket[t].order,
                       at_open |-> ticket[t].at_open]

TicketInv == TicketRows /\ TicketsOfOrders

ClosedStatus == {"resolved_refund", "resolved_release", "resolved_split", "cancelled"}

\* Only opening, resolving and cancelling a dispute write a ticket.
LEMMA TicketWriters ==
    MarketNext => \/ UNCHANGED ticket
                  \/ \E t : \E s \in ClosedStatus : CloseTicket(t, s)
                  \/ \E d \in Desk, o \in Orders : DisputeCommit(d, o)
<1> SUFFICES ASSUME MarketNext,
                    ~ \E t : \E s \in ClosedStatus : CloseTicket(t, s),
                    ~ \E d \in Desk, o \in Orders : DisputeCommit(d, o)
             PROVE  UNCHANGED ticket
  OBVIOUS
<1>1. CASE CheckoutStep
  BY <1>1 DEF CheckoutStep, marketVars
<1>2. ASSUME NEW o \in Orders,
             Ship(o) \/ ConfirmDelivery(o) \/ ClockStep(o) \/ PayOut(o)
      PROVE  UNCHANGED ticket
  BY <1>2 DEF Ship, ConfirmDelivery, MarkDelivered, ClockStep, WarrantyEnds,
              InspectionEnds, PayOut, marketVars
<1>3. ASSUME NEW o \in Orders, NEW d \in Desk,
             \/ Scan(d, o) \/ RequestRefundRead(d, o) \/ DecideRefundRead(d, o)
             \/ DisputeRead(d, o) \/ DisputeCheck(d, o)
      PROVE  UNCHANGED ticket
  BY <1>3 DEF Scan, AutoDeliverScan, AutoRefundScan, ReleaseScan, RequestRefundRead,
              DecideRefundRead, DisputeRead, DisputeCheck, OnlyRead
<1>4. ASSUME NEW o \in Orders, NEW d \in Desk,
             \/ AutoDeliver(d, o) \/ AutoRefund(d, o) \/ ReleaseUpdate(d, o)
             \/ ReleaseSettle(d, o) \/ RequestRefund(d, o)
             \/ ApproveRefund(d, o) \/ RejectRefund(d, o)
      PROVE  UNCHANGED ticket
  BY <1>4 DEF AutoDeliver, AutoRefund, ReleaseUpdate, ReleaseSettle, RequestRefund, ApproveRefund,
              RejectRefund, OnlyRead, MarkDelivered
<1>5. ASSUME NEW o \in Orders, NEW d \in Desk, CancelDispute(d, o)
      PROVE  UNCHANGED ticket
  <2>1. "cancelled" \in ClosedStatus
    BY DEF ClosedStatus
  <2>2. ~CloseTicket(desk[d].ticket, "cancelled")
    BY <2>1
  <2> QED
    BY <1>5, <2>2 DEF CancelDispute, OnlyRead
<1>6. ASSUME NEW t \in Tickets,
             ResolveWithRefund(t) \/ ResolveWithRelease(t) \/ ResolveWithSplit(t)
      PROVE  FALSE
  BY <1>6 DEF ResolveWithRefund, ResolveWithRelease, ResolveWithSplit, ClosedStatus
<1>7. ASSUME NEW t \in Tickets, NEW d \in Desk, CancelDisputeRead(d, t)
      PROVE  UNCHANGED ticket
  BY <1>7 DEF CancelDisputeRead, OnlyRead
<1>8. ASSUME NEW d \in Desk, DeskCrash(d)
      PROVE  UNCHANGED ticket
  BY <1>8 DEF DeskCrash
<1> QED
  BY <1>1, <1>2, <1>3, <1>4, <1>5, <1>6, <1>7, <1>8 DEF MarketNext, MarketStep, FinishDesk

LEMMA ClosedTicketKeepsRows ==
    ASSUME TicketInv, NEW t, NEW s \in ClosedStatus, CloseTicket(t, s)
    PROVE  TicketInv'
<1>1. s # "open"
  BY DEF ClosedStatus
<1>2. ticket' = [ticket EXCEPT ![t] = [ticket[t] EXCEPT !.status = s]]
  BY DEF CloseTicket
<1>3. CASE t \notin Tickets
  <2>1. ticket' = ticket
    BY <1>2, <1>3 DEF TicketInv, TicketRows
  <2> QED
    BY <2>1 DEF TicketInv, TicketRows, TicketsOfOrders
<1>4. CASE t \in Tickets
  <2>1. [ticket[t] EXCEPT !.status = s] =
            [status |-> s, order |-> ticket[t].order, at_open |-> ticket[t].at_open]
    BY <1>4 DEF TicketInv, TicketRows
  <2> QED
    BY <1>1, <1>2, <1>4, <2>1 DEF TicketInv, TicketRows, TicketsOfOrders
<1> QED
  BY <1>3, <1>4

LEMMA OpenedTicketKeepsRows ==
    ASSUME TicketInv, NEW d \in Desk, NEW o \in Orders, DisputeCommit(d, o)
    PROVE  TicketInv'
<1>1. PICK t \in Tickets : ticket' = [ticket EXCEPT ![t] =
              [status |-> "open", order |-> o, at_open |-> desk[d].seen]]
  BY DEF DisputeCommit, FreeTickets
<1> QED
  BY <1>1 DEF TicketInv, TicketRows, TicketsOfOrders

\* Every open ticket is about an order (DisputeTicket.order is not nullable, and
\* open_dispute sets it): the resolutions always settle an order's hold.
THEOREM TicketsStayWithOrders == MarketSpec => []TicketInv
<1>1. MarketInit => TicketInv
  <2> SUFFICES ASSUME MarketInit PROVE TicketInv
    OBVIOUS
  <2>1. ticket = [t \in Tickets |-> NoTicket]
    BY DEF MarketInit
  <2> QED
    BY <2>1 DEF NoTicket, TicketInv, TicketRows, TicketsOfOrders
<1>2. TicketInv /\ [MarketNext]_vars => TicketInv'
  <2> SUFFICES ASSUME TicketInv, [MarketNext]_vars PROVE TicketInv'
    OBVIOUS
  <2>1. CASE UNCHANGED ticket
    BY <2>1 DEF TicketInv, TicketRows, TicketsOfOrders
  <2>2. CASE \E t : \E s \in ClosedStatus : CloseTicket(t, s)
    BY <2>2, ClosedTicketKeepsRows
  <2>3. CASE \E d \in Desk, o \in Orders : DisputeCommit(d, o)
    BY <2>3, OpenedTicketKeepsRows
  <2>4. UNCHANGED vars => UNCHANGED ticket
    BY DEF vars, marketVars
  <2> QED
    BY <2>1, <2>2, <2>3, <2>4, TicketWriters
<1> QED
  BY <1>1, <1>2, PTL DEF MarketSpec

-----------------------------------------------------------------------------
(* The marketplace implements the escrow                                   *)

\* Whatever checkouts, callbacks, sweeps, refund requests and disputes do, the
\* hold and payout rows only ever see the operations of escrow.py and payouts.py.
THEOREM MarketImplementsEscrow == MarketSpec => EscrowSpec
<1>1. MarketInit => EscrowInit
  BY DEF MarketInit, CheckoutInit
<1>2. TicketInv /\ [MarketNext]_vars => [EscrowNext]_escrowVars
  <2> SUFFICES ASSUME TicketInv, [MarketNext]_vars PROVE [EscrowNext]_escrowVars
    OBVIOUS
  <2>1. UNCHANGED vars => UNCHANGED escrowVars
    BY DEF vars, checkoutVars
  <2> QED
    BY <2>1, MarketStepIsEscrow DEF TicketInv
<1> QED
  BY <1>1, <1>2, TicketsStayWithOrders, PTL DEF MarketSpec, EscrowSpec

\* No interleaving of the whole marketplace loses a piastre of a settled hold.
THEOREM MarketConservesMoney == MarketSpec => []Conservation
BY MarketImplementsEscrow, MoneyIsConserved, PTL

\* Whatever a sweep, an admin's ruling or a cancelled dispute settles, the payout
\* rows of the marketplace are the shares of its settlements, and no ruling pays
\* a seller more than a release would have.
THEOREM MarketPaysAsSettled == MarketSpec => [](PayoutsMatchSettlement /\ SplitNeverBeatsRelease)
BY MarketImplementsEscrow, PayoutsAlwaysMatch, SplitIsNeverBetter, PTL

\* No settlement of the marketplace is undone or followed by a second one.
THEOREM MarketSettlesOnce == MarketSpec => SettledForGood
BY MarketImplementsEscrow, SettlementIsFinal, PTL

\* The marketplace keeps the abstract promise of Custody to both parties.
THEOREM MarketKeepsPromise == MarketSpec => ImplementsCustody
BY MarketImplementsEscrow, EscrowKeepsPromise, PTL

LEMMA EscrowHolds == MarketSpec => []EscrowInv
BY MarketImplementsEscrow, EscrowInvariant, PTL

-----------------------------------------------------------------------------
(* Paid orders: their rows, and the handlers at work on them               *)

\* The statuses in which open_dispute takes up an order.
CaseStatus == {"paid_held", "shipped", "delivered", "disputed"}

TicketTypes ==
    /\ ticket \in [Tickets -> TicketRow]
    /\ \A t \in Tickets :
          ticket[t].status # "none" =>
              /\ ticket[t].order \in Orders /\ paidAt[ticket[t].order]
              /\ ticket[t].at_open \in CaseStatus

\* A handler that is not idle has a paid order; a dispute's has a status in which
\* a dispute may be opened, a cancellation's a ticket of that order.
DeskTypes ==
    /\ desk \in [Desk -> DeskRow]
    /\ \A d \in Desk :
          /\ desk[d].job # "idle" =>
                desk[d].order \in Orders /\ paidAt[desk[d].order]
          /\ desk[d].job \in {"dispute", "dispute_checked"} => desk[d].seen \in CaseStatus
          /\ desk[d].job = "cancel_dispute" =>
                /\ desk[d].ticket \in Tickets
                /\ ticket[desk[d].ticket].status # "none"
                /\ ticket[desk[d].ticket].order = desk[d].order

ClockTypes ==
    /\ shipped \in [Orders -> BOOLEAN]
    /\ warranty \in [Orders -> Clock]
    /\ inspection \in [Orders -> Clock]

MarketTypes == TypeInv /\ TicketTypes /\ DeskTypes /\ ClockTypes

StatusInv == PaidBothWays /\ HoldIsPaid /\ LockInv /\ RefundedMeansMoneyBack

-----------------------------------------------------------------------------
(* What a step on a paid order does to it and its money                    *)

Settles(o, status) ==
    /\ CanSettle(o)
    /\ hold' = [hold EXCEPT ![o] = status]

MarketMove(o) ==
    /\ paidAt[o] /\ UNCHANGED paidAt
    /\ \/ /\ UNCHANGED hold
          /\ \E s \in CaseStatus \cup {"released", "refund_requested"} :
                /\ s = "released" => order[o] = "delivered"
                /\ order' = [order EXCEPT ![o] = s]
       \/ /\ Settles(o, "refunded_to_buyer")
          /\ order' = [order EXCEPT ![o] = "refunded"]
       \/ /\ \E status \in {"released_to_seller", "split"} : Settles(o, status)
          /\ order' \in {order, [order EXCEPT ![o] = "released"]}

LEMMA RefundMoves ==
    ASSUME NEW o \in Orders, paidAt[o], RefundOrder(o)
    PROVE  MarketMove(o)
BY DEF RefundOrder, RefundToBuyer, SettleHold, SetStatus, Settles, MarketMove

LEMMA ReleaseMoves ==
    ASSUME NEW o \in Orders, paidAt[o], ReleaseOrder(o)
    PROVE  MarketMove(o)
BY DEF ReleaseOrder, ReleaseToSeller, SettleHold, SetStatus, Settles, MarketMove

LEMMA SetMoves ==
    ASSUME NEW o \in Orders, paidAt[o], UNCHANGED escrowVars,
           NEW s \in CaseStatus \cup {"released", "refund_requested"}, SetStatus(o, s),
           s = "released" => order[o] = "delivered"
    PROVE  MarketMove(o)
BY DEF SetStatus, MarketMove, escrowVars

StayPut == UNCHANGED <<order, paidAt, hold>>

LEMMA OnlyReadStays == OnlyRead => StayPut
BY DEF OnlyRead, UnchangedSale, escrowVars, StayPut

LEMMA DeskMoves ==
    ASSUME MarketTypes, PaidBothWays, NEW d \in Desk, NEW o \in Orders,
           \/ Scan(d, o) \/ RequestRefundRead(d, o) \/ DecideRefundRead(d, o)
           \/ DisputeRead(d, o) \/ FinishDesk(d, o)
    PROVE  StayPut \/ MarketMove(o)
<1>1. \A job : Serving(d, job, o) /\ job # "idle" => paidAt[o]
  BY DEF MarketTypes, DeskTypes, Serving
<1>2. CASE \/ Scan(d, o) \/ RequestRefundRead(d, o) \/ DecideRefundRead(d, o)
           \/ DisputeRead(d, o) \/ DisputeCheck(d, o)
  BY <1>2, OnlyReadStays DEF Scan, AutoDeliverScan, AutoRefundScan, ReleaseScan,
     RequestRefundRead, DecideRefundRead, DisputeRead, DisputeCheck
<1>3. CASE AutoDeliver(d, o)
  BY <1>1, <1>3, OnlyReadStays, SetMoves DEF AutoDeliver, MarkDelivered, CaseStatus
<1>4. CASE AutoRefund(d, o)
  BY <1>1, <1>4, OnlyReadStays, RefundMoves DEF AutoRefund
<1>5. CASE ReleaseUpdate(d, o)
  BY <1>1, <1>5, OnlyReadStays, SetMoves DEF ReleaseUpdate, StillDelivered
<1>6. CASE ReleaseSettle(d, o)
  <2>1. CASE ReleaseToSeller(o) /\ UNCHANGED order
    BY <1>1, <1>6, <2>1 DEF ReleaseSettle, ReleaseToSeller, SettleHold, Settles, MarketMove
  <2> QED BY <1>6, <2>1, OnlyReadStays DEF ReleaseSettle
<1>7. CASE RequestRefund(d, o)
  BY <1>1, <1>7, OnlyReadStays, SetMoves DEF RequestRefund
<1>8. CASE ApproveRefund(d, o)
  BY <1>1, <1>8, OnlyReadStays, RefundMoves DEF ApproveRefund
<1>9. CASE RejectRefund(d, o)
  BY <1>1, <1>9, OnlyReadStays, ReleaseMoves DEF RejectRefund
<1>10. CASE DisputeCommit(d, o)
  <2>1. CASE SetStatus(o, "disputed")
    BY <1>1, <1>10, <2>1, SetMoves DEF DisputeCommit, CaseStatus
  <2>2. CASE UNCHANGED order
    BY <1>10, <2>2 DEF DisputeCommit, escrowVars, StayPut
  <2> QED BY <1>10, <2>1, <2>2 DEF DisputeCommit, Freeze
<1>11. CASE CancelDispute(d, o)
  <2> DEFINE t == desk[d].ticket
  <2>1. t \in Tickets /\ ticket[t].at_open \in CaseStatus
    BY <1>11 DEF CancelDispute, Serving, MarketTypes, DeskTypes, TicketTypes
  <2>2. CASE OnlyRead
    BY <2>2, OnlyReadStays
  <2>3. CASE Restore(o, desk[d].seen, t) /\ UNCHANGED escrowVars
    <3>1. CASE SetStatus(o, ticket[t].at_open)
      BY <1>1, <1>11, <2>1, <2>3, <3>1, SetMoves DEF CancelDispute, CaseStatus
    <3>2. CASE UNCHANGED order
      BY <2>3, <3>2 DEF escrowVars, StayPut
    <3> QED BY <2>3, <3>1, <3>2 DEF Restore
  <2> QED BY <1>11, <2>2, <2>3 DEF CancelDispute
<1> QED
  BY <1>2, <1>3, <1>4, <1>5, <1>6, <1>7, <1>8, <1>9, <1>10, <1>11 DEF FinishDesk

LEMMA OrderStepMoves ==
    ASSUME PaidBothWays, NEW o \in Orders,
           Ship(o) \/ ConfirmDelivery(o) \/ ClockStep(o) \/ PayOut(o)
    PROVE  StayPut \/ MarketMove(o)
<1>1. CASE Ship(o)
  BY <1>1, SetMoves DEF Ship, PaidBothWays, Unpaid, CaseStatus
<1>2. CASE ConfirmDelivery(o)
  BY <1>2, SetMoves DEF ConfirmDelivery, MarkDelivered, PaidBothWays, Unpaid, CaseStatus
<1>3. CASE ClockStep(o)
  BY <1>3 DEF ClockStep, WarrantyEnds, InspectionEnds, UnchangedSale, escrowVars, StayPut
<1>4. CASE PayOut(o)
  BY <1>4 DEF PayOut, MarkPayoutPaid, StayPut
<1> QED
  BY <1>1, <1>2, <1>3, <1>4

LEMMA ResolutionMoves ==
    ASSUME MarketTypes, NEW t \in Tickets,
           ResolveWithRefund(t) \/ ResolveWithRelease(t) \/ ResolveWithSplit(t)
    PROVE  ticket[t].order \in Orders /\ MarketMove(ticket[t].order)
<1> DEFINE o == ticket[t].order
<1>1. o \in Orders /\ paidAt[o]
  BY DEF MarketTypes, TicketTypes, ResolveWithRefund, ResolveWithRelease, ResolveWithSplit,
     CloseTicket
<1>2. CASE ResolveWithRefund(t)
  <2>1. RefundOrder(o)
    BY <1>2 DEF ResolveWithRefund
  <2> QED BY <1>1, <2>1, RefundMoves
<1>3. CASE ResolveWithRelease(t)
  <2>1. ReleaseOrder(o)
    BY <1>3 DEF ResolveWithRelease
  <2> QED BY <1>1, <2>1, ReleaseMoves
<1>4. CASE ResolveWithSplit(t)
  <2>1. /\ \E refund \in SplitRefunds(o) : SplitSettlement(o, refund)
        /\ order' = [order EXCEPT ![o] = "released"]
    BY <1>4 DEF ResolveWithSplit, SetStatus
  <2>2. Settles(o, "split") /\ UNCHANGED paidAt
    BY <2>1 DEF SplitSettlement, SettleHold, Settles
  <2> QED BY <1>1, <2>1, <2>2 DEF MarketMove
<1> QED
  BY <1>2, <1>3, <1>4

LEMMA MarketMoves ==
    ASSUME MarketTypes, PaidBothWays, MarketStep
    PROVE  StayPut \/ \E o \in Orders : MarketMove(o)
<1>1. ASSUME NEW d \in Desk, DeskCrash(d)
      PROVE  StayPut
  BY <1>1 DEF DeskCrash, UnchangedSale, escrowVars, StayPut
<1>2. ASSUME NEW t \in Tickets, NEW d \in Desk, CancelDisputeRead(d, t)
      PROVE  StayPut
  BY <1>2, OnlyReadStays DEF CancelDisputeRead
<1> QED
  BY <1>1, <1>2, DeskMoves, OrderStepMoves, ResolutionMoves DEF MarketStep

-----------------------------------------------------------------------------
(* The status of an order and the record of its payment                    *)

RefundsInv == PaidBothWays /\ HoldIsPaid /\ RefundedMeansMoneyBack

LEMMA CheckoutMoveKeeps ==
    ASSUME SaleRows, RefundsInv, NEW o \in Orders, CheckoutMove(o)
    PROVE  RefundsInv'
<1>1. CASE /\ order[o] \in {"pending_payment", "cancelled"}
           /\ order' = [order EXCEPT ![o] = "paid_held"]
           /\ \E placed \in BOOLEAN : TakeCustody(o, placed)
  BY <1>1 DEF SaleRows, RefundsInv, PaidBothWays, HoldIsPaid, RefundedMeansMoneyBack, Unpaid,
     TakeCustody
<1>2. CASE /\ order[o] \in {"pending_payment", "none"}
           /\ order' \in {[order EXCEPT ![o] = "cancelled"], [order EXCEPT ![o] = "pending_payment"]}
           /\ UNCHANGED escrowVars
  BY <1>2 DEF SaleRows, RefundsInv, PaidBothWays, HoldIsPaid, RefundedMeansMoneyBack, Unpaid,
     escrowVars
<1> QED
  BY <1>1, <1>2 DEF CheckoutMove

\* Once the hold of an order is settled as a refund no handler marks it otherwise
\* in the escrow, and only with such a settlement is it marked refunded.
LEMMA MarketMoveKeeps ==
    ASSUME SaleRows, RefundsInv, NEW o \in Orders, MarketMove(o)
    PROVE  RefundsInv'
<1>1. CASE /\ UNCHANGED hold
           /\ \E s \in CaseStatus \cup {"released", "refund_requested"} :
                order' = [order EXCEPT ![o] = s]
  BY <1>1 DEF MarketMove, SaleRows, RefundsInv, PaidBothWays, HoldIsPaid,
     RefundedMeansMoneyBack, Unpaid, CaseStatus
<1>2. CASE /\ Settles(o, "refunded_to_buyer")
           /\ order' = [order EXCEPT ![o] = "refunded"]
  BY <1>2 DEF MarketMove, Settles, SaleRows, RefundsInv, PaidBothWays, HoldIsPaid,
     RefundedMeansMoneyBack, Unpaid
<1>3. CASE /\ \E status \in {"released_to_seller", "split"} : Settles(o, status)
           /\ order' \in {order, [order EXCEPT ![o] = "released"]}
  <2>1. order[o] # "refunded"
    BY <1>3, CanSettleOnce DEF Settles, RefundsInv, RefundedMeansMoneyBack, Settled, SettledStatus
  <2> QED BY <1>3, <2>1 DEF MarketMove, Settles, SaleRows, RefundsInv, PaidBothWays, HoldIsPaid,
     RefundedMeansMoneyBack, Unpaid
<1> QED
  BY <1>1, <1>2, <1>3 DEF MarketMove

LEMMA StayPutKeeps == ASSUME RefundsInv, StayPut PROVE RefundsInv'
BY DEF StayPut, RefundsInv, PaidBothWays, HoldIsPaid, RefundedMeansMoneyBack

\* What no handler of a paid order writes.
LEMMA MarketFrame ==
    MarketStep => /\ UNCHANGED <<receipt, gateway, outcome, answered, flagged, req>>
                  /\ crashes' = crashes \/ (crashes < MaxCrashes /\ crashes' = crashes + 1)
<1> DEFINE Frame == /\ UNCHANGED <<receipt, gateway, outcome, answered, flagged, req>>
                    /\ crashes' = crashes \/ (crashes < MaxCrashes /\ crashes' = crashes + 1)
<1> SUFFICES ASSUME MarketStep PROVE Frame
  OBVIOUS
<1>1. UnchangedCheckout => Frame
  BY DEF UnchangedCheckout
<1>2. OnlyRead => UnchangedCheckout
  BY DEF OnlyRead
<1>3. ASSUME NEW o \in Orders,
             Ship(o) \/ ConfirmDelivery(o) \/ ClockStep(o) \/ PayOut(o)
      PROVE  UnchangedCheckout
  BY <1>3 DEF Ship, ConfirmDelivery, MarkDelivered, ClockStep, WarrantyEnds, InspectionEnds, PayOut
<1>4. ASSUME NEW d \in Desk, NEW o \in Orders,
             \/ Scan(d, o) \/ RequestRefundRead(d, o) \/ DecideRefundRead(d, o)
             \/ DisputeRead(d, o) \/ FinishDesk(d, o)
      PROVE  UnchangedCheckout
  BY <1>2, <1>4 DEF Scan, AutoDeliverScan, AutoRefundScan, ReleaseScan, RequestRefundRead,
     DecideRefundRead, DisputeRead, FinishDesk, AutoDeliver, MarkDelivered, AutoRefund,
     RefundOrder, ReleaseOrder, ReleaseUpdate, ReleaseSettle, RequestRefund, ApproveRefund,
     RejectRefund, DisputeCheck, DisputeCommit, CancelDispute
<1>5. ASSUME NEW t \in Tickets,
             \/ ResolveWithRefund(t) \/ ResolveWithRelease(t) \/ ResolveWithSplit(t)
             \/ \E d \in Desk : CancelDisputeRead(d, t)
      PROVE  UnchangedCheckout
  BY <1>2, <1>5 DEF ResolveWithRefund, ResolveWithRelease, ResolveWithSplit, CancelDisputeRead,
     RefundOrder, ReleaseOrder
<1>6. ASSUME NEW d \in Desk, DeskCrash(d)
      PROVE  Frame
  BY <1>6 DEF DeskCrash, UnchangedPayment
<1> HIDE DEF Frame
<1> QED
  BY <1>1, <1>3, <1>4, <1>5, <1>6 DEF MarketStep

LEMMA StatusInvStep ==
    ASSUME MarketTypes, StatusInv, [MarketNext]_vars
    PROVE  StatusInv'
<1> USE DEF StatusInv
<1>1. SaleRows
  BY DEF MarketTypes, TypeInv, SaleTypes, EscrowTypeOK, SaleRows
<1>2. CASE CheckoutStep
  <2>1. LockInv'
    BY <1>2, LockInvStep DEF CheckoutStep, MarketTypes
  <2>2. UNCHANGED <<order, escrowVars>> => StayPut
    BY DEF StayPut, escrowVars
  <2>3. RefundsInv'
    BY <1>1, <1>2, <2>2, CheckoutMoves, CheckoutMoveKeeps, StayPutKeeps DEF CheckoutStep, RefundsInv
  <2> QED BY <2>1, <2>3 DEF RefundsInv
<1>3. CASE MarketStep
  <2>1. UNCHANGED req
    BY <1>3, MarketFrame
  <2>2. \A o \in Orders : order[o] = "cancelled" => order'[o] = "cancelled"
    BY <1>1, <1>3, MarketMoves DEF StayPut, MarketMove, PaidBothWays, Unpaid, SaleRows
  <2>3. LockInv'
    BY <2>1, <2>2 DEF LockInv
  <2>4. RefundsInv'
    BY <1>1, <1>3, MarketMoves, MarketMoveKeeps, StayPutKeeps DEF RefundsInv
  <2> QED BY <2>3, <2>4 DEF RefundsInv
<1>4. CASE UNCHANGED vars
  BY <1>4 DEF vars, checkoutVars, escrowVars, PaidBothWays, HoldIsPaid, LockInv,
     RefundedMeansMoneyBack
<1> QED
  BY <1>2, <1>3, <1>4 DEF MarketNext

-----------------------------------------------------------------------------
(* Types                                                                   *)

\* What a handler of a paid order remembers stays true of the rows.
RowsStay ==
    /\ \A o \in Orders : paidAt[o] => paidAt'[o]
    /\ \A t \in Tickets :
          ticket[t].status # "none" =>
              ticket'[t].status # "none" /\ ticket'[t].order = ticket[t].order

DeskRowOK(r) ==
    /\ r \in DeskRow
    /\ r.job # "idle" => r.order \in Orders /\ paidAt[r.order]
    /\ r.job \in {"dispute", "dispute_checked"} => r.seen \in CaseStatus
    /\ r.job = "cancel_dispute" =>
          /\ r.ticket \in Tickets
          /\ ticket[r.ticket].status # "none"
          /\ ticket[r.ticket].order = r.order

LEMMA DeskKept ==
    ASSUME DeskTypes, RowsStay, UNCHANGED desk
    PROVE  DeskTypes'
BY DEF DeskTypes, RowsStay

LEMMA DeskWritten ==
    ASSUME DeskTypes, RowsStay, NEW d \in Desk, NEW r, DeskRowOK(r),
           desk' = [desk EXCEPT ![d] = r]
    PROVE  DeskTypes' /\ desk'[d] = r /\ \A e \in Desk \ {d} : desk'[e] = desk[e]
BY DEF DeskTypes, RowsStay, DeskRowOK

LEMMA IdleDeskOK == DeskRowOK(IdleDesk) /\ IdleDesk.job = "idle"
BY DEF DeskRowOK, IdleDesk, DeskRow, MarketJobs

LEMMA DoneEffect ==
    ASSUME DeskTypes, RowsStay, NEW d \in Desk, Done(d)
    PROVE  DeskTypes' /\ desk'[d] = IdleDesk /\ \A e \in Desk \ {d} : desk'[e] = desk[e]
BY DeskWritten, IdleDeskOK DEF Done

LEMMA TakeEffect ==
    ASSUME DeskTypes, RowsStay, NEW d \in Desk, NEW job \in MarketJobs, NEW o \in Orders,
           paidAt[o], order[o] \in OrderStatus, NEW t \in Tickets \cup {Nothing},
           job \in {"dispute", "dispute_checked"} => order[o] \in CaseStatus,
           job = "cancel_dispute" =>
               t \in Tickets /\ ticket[t].status # "none" /\ ticket[t].order = o,
           Take(d, job, o, t)
    PROVE  /\ DeskTypes'
           /\ desk'[d] = [job |-> job, order |-> o, ticket |-> t, seen |-> order[o]]
           /\ \A e \in Desk \ {d} : desk'[e] = desk[e]
           /\ MayStart /\ desk[d].job = "idle" /\ job \in Traffic
<1> DEFINE r == [job |-> job, order |-> o, ticket |-> t, seen |-> order[o]]
<1>1. DeskRowOK(r)
  BY DEF DeskRowOK, DeskRow
<1>2. /\ desk' = [desk EXCEPT ![d] = r]
      /\ MayStart /\ desk[d].job = "idle" /\ job \in Traffic
  BY DEF Take
<1> HIDE DEF r
<1>3. DeskTypes' /\ desk'[d] = r /\ \A e \in Desk \ {d} : desk'[e] = desk[e]
  BY <1>1, <1>2, DeskWritten
<1> QED
  BY <1>2, <1>3 DEF r

LEMMA GoOnEffect ==
    ASSUME DeskTypes, RowsStay, NEW d \in Desk, NEW job \in {"dispute_checked", "release_settle"},
           desk[d].job = IF job = "dispute_checked" THEN "dispute" ELSE "release",
           GoOn(d, job)
    PROVE  /\ DeskTypes'
           /\ desk'[d].job = job /\ desk'[d].order = desk[d].order
           /\ desk'[d].seen = desk[d].seen /\ desk'[d].ticket = desk[d].ticket
           /\ \A e \in Desk \ {d} : desk'[e] = desk[e]
<1> DEFINE r == [desk[d] EXCEPT !.job = job]
<1>1. /\ r.job = job /\ r.order = desk[d].order
      /\ r.seen = desk[d].seen /\ r.ticket = desk[d].ticket
  BY DEF DeskTypes, DeskRow
<1>2. r \in DeskRow
  BY DEF DeskTypes, DeskRow, MarketJobs
<1>3. desk' = [desk EXCEPT ![d] = r]
  BY DEF GoOn
<1> HIDE DEF r
<1>4. DeskRowOK(r)
  BY <1>1, <1>2 DEF DeskRowOK, DeskTypes
<1>5. DeskTypes' /\ desk'[d] = r /\ \A e \in Desk \ {d} : desk'[e] = desk[e]
  BY <1>3, <1>4, DeskWritten
<1> QED
  BY <1>1, <1>5

LEMMA PaidForGood ==
    ASSUME MarketTypes, StatusInv, [MarketNext]_vars
    PROVE  \A o \in Orders : paidAt[o] => paidAt'[o]
<1>1. paidAt \in [Orders -> BOOLEAN]
  BY DEF MarketTypes, TypeInv, SaleTypes, EscrowTypeOK
<1>2. ASSUME NEW o \in Orders, CheckoutMove(o)
      PROVE  \A p \in Orders : paidAt[p] => paidAt'[p]
  BY <1>1, <1>2 DEF CheckoutMove, TakeCustody, escrowVars
<1>3. ASSUME NEW o \in Orders, MarketMove(o)
      PROVE  UNCHANGED paidAt
  BY <1>3 DEF MarketMove
<1>4. UNCHANGED escrowVars \/ StayPut \/ UNCHANGED vars => UNCHANGED paidAt
  BY DEF escrowVars, StayPut, vars, checkoutVars
<1> QED
  BY <1>2, <1>3, <1>4, CheckoutMoves, MarketMoves DEF StatusInv, MarketNext, CheckoutStep

LEMMA TicketRowKept ==
    ASSUME TicketTypes, NEW t \in Tickets, NEW s \in ClosedStatus, CloseTicket(t, s)
    PROVE  /\ ticket' \in [Tickets -> TicketRow]
           /\ ticket'[t].status = s /\ ticket'[t].order = ticket[t].order
           /\ ticket'[t].at_open = ticket[t].at_open
           /\ \A u \in Tickets \ {t} : ticket'[u] = ticket[u]
<1>1. ticket' = [ticket EXCEPT ![t] = [ticket[t] EXCEPT !.status = s]]
  BY DEF CloseTicket
<1> DEFINE r == [ticket[t] EXCEPT !.status = s]
<1>2. r \in TicketRow /\ r.status = s /\ r.order = ticket[t].order /\ r.at_open = ticket[t].at_open
  BY DEF TicketTypes, TicketRow, TicketStatus, ClosedStatus
<1> HIDE DEF r
<1>3. ticket' \in [Tickets -> TicketRow] /\ ticket'[t] = r
      /\ \A u \in Tickets \ {t} : ticket'[u] = ticket[u]
  BY <1>1, <1>2 DEF TicketTypes, r
<1> QED
  BY <1>2, <1>3

LEMMA TicketOpened ==
    ASSUME TicketTypes, DeskTypes, NEW d \in Desk, NEW o \in Orders, DisputeCommit(d, o)
    PROVE  \E t \in FreeTickets :
              /\ ticket' \in [Tickets -> TicketRow]
              /\ ticket'[t] = [status |-> "open", order |-> o, at_open |-> desk[d].seen]
              /\ \A u \in Tickets \ {t} : ticket'[u] = ticket[u]
<1>1. PICK t \in FreeTickets : ticket' = [ticket EXCEPT ![t] =
              [status |-> "open", order |-> o, at_open |-> desk[d].seen]]
  BY DEF DisputeCommit
<1>2. desk[d].seen \in CaseStatus
  BY DEF DisputeCommit, Serving, DeskTypes
<1>3. [status |-> "open", order |-> o, at_open |-> desk[d].seen] \in TicketRow
  BY <1>2 DEF TicketRow, TicketStatus, CaseStatus, EscrowStatus
<1> QED
  BY <1>1, <1>3 DEF TicketTypes, FreeTickets

LEMMA TicketStep ==
    ASSUME MarketTypes, StatusInv, [MarketNext]_vars
    PROVE  TicketTypes' /\ RowsStay
<1>1. \A o \in Orders : paidAt[o] => paidAt'[o]
  BY PaidForGood
<1> USE DEF MarketTypes
<1>2. CASE UNCHANGED ticket
  BY <1>1, <1>2 DEF TicketTypes, RowsStay
<1>3. ASSUME NEW t, NEW s \in ClosedStatus, CloseTicket(t, s)
      PROVE  TicketTypes' /\ RowsStay
  <2>1. CASE t \notin Tickets
    <3>1. ticket' = ticket
      BY <1>3, <2>1 DEF CloseTicket, TicketTypes
    <3> QED BY <1>2, <3>1
  <2>2. CASE t \in Tickets
    <3>1. ticket[t].status = "open" /\ s # "none"
      BY <1>3 DEF CloseTicket, ClosedStatus
    <3> QED BY <1>1, <1>3, <2>2, <3>1, TicketRowKept DEF TicketTypes, RowsStay
  <2> QED BY <2>1, <2>2
<1>4. ASSUME NEW d \in Desk, NEW o \in Orders, DisputeCommit(d, o)
      PROVE  TicketTypes' /\ RowsStay
  <2>1. desk[d].seen \in CaseStatus /\ paidAt[o]
    BY <1>4 DEF DisputeCommit, Serving, DeskTypes
  <2>2. PICK t \in FreeTickets :
           /\ ticket' \in [Tickets -> TicketRow]
           /\ ticket'[t] = [status |-> "open", order |-> o, at_open |-> desk[d].seen]
           /\ \A u \in Tickets \ {t} : ticket'[u] = ticket[u]
    BY <1>4, TicketOpened
  <2>3. RowsStay
    BY <1>1, <2>2 DEF RowsStay, FreeTickets
  <2>4. /\ ticket'[t].status # "none" => ticket'[t].order = o /\ ticket'[t].at_open = desk[d].seen
        /\ paidAt'[o]
    BY <1>1, <2>1, <2>2
  <2>5. TicketTypes'
    BY <1>1, <2>1, <2>2, <2>4 DEF TicketTypes
  <2> QED BY <2>3, <2>5
<1>5. UNCHANGED vars => UNCHANGED ticket
  BY DEF vars, marketVars
<1> QED
  BY <1>2, <1>3, <1>4, <1>5, TicketWriters

LEMMA DeskStep ==
    ASSUME MarketTypes, StatusInv, RowsStay, MarketStep
    PROVE  DeskTypes'
<1> USE DEF MarketTypes
<1>0. ASSUME NEW o \in Orders, order[o] \notin Unpaid
      PROVE  paidAt[o] /\ order[o] \in OrderStatus
  BY <1>0 DEF StatusInv, PaidBothWays, TypeInv, SaleTypes, Unpaid
<1>1. ASSUME NEW o \in Orders,
             Ship(o) \/ ConfirmDelivery(o) \/ ClockStep(o) \/ PayOut(o)
      PROVE  DeskTypes'
  <2>1. UNCHANGED desk
    BY <1>1 DEF Ship, ConfirmDelivery, ClockStep, WarrantyEnds, InspectionEnds, PayOut, marketVars
  <2> QED BY <2>1, DeskKept
<1>2. ASSUME NEW t \in Tickets,
             ResolveWithRefund(t) \/ ResolveWithRelease(t) \/ ResolveWithSplit(t)
      PROVE  DeskTypes'
  <2>1. UNCHANGED desk
    BY <1>2 DEF ResolveWithRefund, ResolveWithRelease, ResolveWithSplit
  <2> QED BY <2>1, DeskKept
<1>3. ASSUME NEW d \in Desk, NEW o \in Orders,
             Scan(d, o) \/ RequestRefundRead(d, o) \/ DecideRefundRead(d, o)
      PROVE  DeskTypes'
  <2>1. order[o] \notin Unpaid
    BY <1>3 DEF Scan, AutoDeliverScan, AutoRefundScan, ReleaseScan, RequestRefundRead,
       DecideRefundRead, Unshipped, Unpaid
  <2>2. \E job \in MarketJobs \ {"dispute", "dispute_checked", "cancel_dispute"} :
           Take(d, job, o, Nothing)
    BY <1>3 DEF Scan, AutoDeliverScan, AutoRefundScan, ReleaseScan, RequestRefundRead,
       DecideRefundRead, MarketJobs
  <2> QED BY <1>0, <2>1, <2>2, TakeEffect
<1>4. ASSUME NEW d \in Desk, NEW o \in Orders, DisputeRead(d, o)
      PROVE  DeskTypes'
  <2>1. order[o] \in CaseStatus /\ order[o] \notin Unpaid
    BY <1>4 DEF DisputeRead, IsWithinWindow, CaseStatus, Unpaid
  <2>2. Take(d, "dispute", o, Nothing) /\ "dispute" \in MarketJobs
    BY <1>4 DEF DisputeRead, MarketJobs
  <2> QED BY <1>0, <2>1, <2>2, TakeEffect
<1>5. ASSUME NEW d \in Desk, NEW t \in Tickets, CancelDisputeRead(d, t)
      PROVE  DeskTypes'
  <2>1. /\ ticket[t].status # "none"
        /\ ticket[t].order \in Orders /\ paidAt[ticket[t].order]
    BY <1>5 DEF CancelDisputeRead, TicketTypes
  <2>2. Take(d, "cancel_dispute", ticket[t].order, t) /\ "cancel_dispute" \in MarketJobs
    BY <1>5 DEF CancelDisputeRead, MarketJobs
  <2>3. order[ticket[t].order] \in OrderStatus
    BY <1>0, <2>1 DEF StatusInv, PaidBothWays
  <2> QED BY <2>1, <2>2, <2>3, TakeEffect
<1>6. ASSUME NEW d \in Desk, NEW o \in Orders, FinishDesk(d, o)
      PROVE  DeskTypes'
  <2>1. \/ Done(d)
        \/ desk[d].job = "dispute" /\ GoOn(d, "dispute_checked")
        \/ desk[d].job = "release" /\ GoOn(d, "release_settle")
    BY <1>6 DEF FinishDesk, AutoDeliver, AutoRefund, ReleaseUpdate, ReleaseSettle, RequestRefund,
       ApproveRefund, RejectRefund, DisputeCheck, DisputeCommit, CancelDispute, Serving
  <2> QED BY <2>1, DoneEffect, GoOnEffect
<1>7. ASSUME NEW d \in Desk, DeskCrash(d)
      PROVE  DeskTypes'
  BY <1>7, DoneEffect DEF DeskCrash
<1> QED
  BY <1>1, <1>2, <1>3, <1>4, <1>5, <1>6, <1>7 DEF MarketStep

LEMMA ClockStepTypes ==
    ASSUME ClockTypes, MarketStep
    PROVE  ClockTypes'
<1>1. UnchangedClocks => ClockTypes'
  BY DEF UnchangedClocks, ClockTypes
<1>2. OnlyRead => UnchangedClocks
  BY DEF OnlyRead
<1>3. ASSUME NEW o \in Orders, Ship(o) \/ MarkDelivered(o) \/ ClockStep(o) \/ PayOut(o)
      PROVE  ClockTypes'
  BY <1>3 DEF Ship, MarkDelivered, ClockStep, WarrantyEnds, InspectionEnds, PayOut,
     marketVars, ClockTypes, Clock
<1>4. ASSUME NEW d \in Desk, NEW o \in Orders,
             \/ Scan(d, o) \/ RequestRefundRead(d, o) \/ DecideRefundRead(d, o)
             \/ DisputeRead(d, o) \/ FinishDesk(d, o)
      PROVE  UnchangedClocks \/ MarkDelivered(o)
  BY <1>2, <1>4 DEF Scan, AutoDeliverScan, AutoRefundScan, ReleaseScan, RequestRefundRead,
     DecideRefundRead, DisputeRead, FinishDesk, AutoDeliver, AutoRefund,
     RefundOrder, ReleaseOrder, ReleaseUpdate, ReleaseSettle, RequestRefund, ApproveRefund,
     RejectRefund, DisputeCheck, DisputeCommit, CancelDispute
<1>5. ASSUME NEW t \in Tickets,
             \/ ResolveWithRefund(t) \/ ResolveWithRelease(t) \/ ResolveWithSplit(t)
             \/ \E d \in Desk : CancelDisputeRead(d, t)
      PROVE  UnchangedClocks
  BY <1>2, <1>5 DEF ResolveWithRefund, ResolveWithRelease, ResolveWithSplit, CancelDisputeRead,
     RefundOrder, ReleaseOrder
<1>6. ASSUME NEW d \in Desk, DeskCrash(d)
      PROVE  UnchangedClocks
  BY <1>6 DEF DeskCrash
<1> QED
  BY <1>1, <1>3, <1>4, <1>5, <1>6 DEF MarketStep, ConfirmDelivery

\* Only the refund of a part that was never shipped touches its listing.
LEMMA ListingStays ==
    ASSUME MarketStep
    PROVE  \/ UNCHANGED listing
           \/ \E o \in Orders :
                 /\ order[o] = "paid_held" /\ order' = [order EXCEPT ![o] = "refunded"]
                 /\ listing' = [listing EXCEPT ![ListingOf[o]].status = "removed"]
                 /\ \E d \in Desk : Serving(d, "auto_refund", o)
<1> DEFINE TakenOff(o) ==
              /\ order[o] = "paid_held" /\ order' = [order EXCEPT ![o] = "refunded"]
              /\ listing' = [listing EXCEPT ![ListingOf[o]].status = "removed"]
              /\ \E d \in Desk : Serving(d, "auto_refund", o)
<1>1. UnchangedSale \/ OnlyRead => UNCHANGED listing
  BY DEF UnchangedSale, OnlyRead
<1>2. ASSUME NEW o \in Orders,
             Ship(o) \/ ConfirmDelivery(o) \/ ClockStep(o) \/ PayOut(o)
      PROVE  UNCHANGED listing
  BY <1>1, <1>2 DEF Ship, ConfirmDelivery, MarkDelivered, ClockStep, WarrantyEnds, InspectionEnds,
     PayOut
<1>3. ASSUME NEW d \in Desk, NEW o \in Orders,
             \/ Scan(d, o) \/ RequestRefundRead(d, o) \/ DecideRefundRead(d, o)
             \/ DisputeRead(d, o) \/ FinishDesk(d, o)
      PROVE  UNCHANGED listing \/ TakenOff(o)
  <2>1. CASE AutoRefund(d, o)
    <3>1. RefundOrder(o) => order' = [order EXCEPT ![o] = "refunded"]
      BY DEF RefundOrder, SetStatus
    <3> QED BY <1>1, <2>1, <3>1 DEF AutoRefund, Unshipped
  <2> QED BY <1>1, <1>3, <2>1 DEF Scan, AutoDeliverScan, AutoRefundScan, ReleaseScan,
     RequestRefundRead, DecideRefundRead, DisputeRead, FinishDesk, AutoDeliver, MarkDelivered,
     ReleaseUpdate, ReleaseSettle, RequestRefund, ApproveRefund, RejectRefund, DisputeCheck,
     DisputeCommit, CancelDispute
<1>4. ASSUME NEW t \in Tickets,
             \/ ResolveWithRefund(t) \/ ResolveWithRelease(t) \/ ResolveWithSplit(t)
             \/ \E d \in Desk : CancelDisputeRead(d, t)
      PROVE  UNCHANGED listing
  BY <1>1, <1>4 DEF ResolveWithRefund, ResolveWithRelease, ResolveWithSplit, CancelDisputeRead
<1>5. ASSUME NEW d \in Desk, DeskCrash(d)
      PROVE  UNCHANGED listing
  BY <1>1, <1>5 DEF DeskCrash
<1> HIDE DEF TakenOff
<1>6. UNCHANGED listing \/ \E o \in Orders : TakenOff(o)
  BY <1>2, <1>3, <1>4, <1>5 DEF MarketStep
<1> QED
  BY <1>6 DEF TakenOff

LEMMA ListingTypesKept ==
    ASSUME MarketTypes, MarketStep
    PROVE  listing' \in [Listings -> ListingRow]
<1>1. listing \in [Listings -> ListingRow]
  BY DEF MarketTypes, TypeInv, SaleTypes
<1>2. ASSUME NEW o \in Orders, listing' = [listing EXCEPT ![ListingOf[o]].status = "removed"]
      PROVE  listing' \in [Listings -> ListingRow]
  BY <1>1, <1>2 DEF ListingRow, ListingStatus
<1> QED
  BY <1>1, <1>2, ListingStays

LEMMA MarketTypesStep ==
    ASSUME MarketTypes, StatusInv, EscrowInv', [MarketNext]_vars
    PROVE  MarketTypes'
<1>1. TicketTypes' /\ RowsStay
  BY TicketStep
<1>2. CASE CheckoutStep
  <2>1. TypeInv' /\ UNCHANGED <<desk, shipped, warranty, inspection>>
    BY <1>2, TypeInvStep DEF CheckoutStep, MarketTypes, marketVars
  <2> QED BY <1>1, <2>1, DeskKept DEF MarketTypes, ClockTypes
<1>3. CASE MarketStep
  <2>1. SaleTypes'
    <3>1. order \in [Orders -> OrderStatus \cup {"none"}]
      BY DEF MarketTypes, TypeInv, SaleTypes
    <3>2. order' \in [Orders -> OrderStatus \cup {"none"}]
      BY <1>3, <3>1, MarketMoves DEF StatusInv, StayPut, MarketMove, CaseStatus, OrderStatus
    <3> QED BY <1>3, <3>2, ListingTypesKept DEF SaleTypes, EscrowInv
  <2>2. PaymentTypes' /\ ReqTypes'
    BY <1>3, MarketFrame, CheckoutAssumption
       DEF MarketTypes, TypeInv, PaymentTypes, ReqTypes, CheckoutAssumption
  <2> QED BY <1>1, <1>3, <2>1, <2>2, DeskStep, ClockStepTypes DEF MarketTypes, TypeInv
<1>4. CASE UNCHANGED vars
  <2>1. TypeInv'
    BY <1>4, TypeInvStep DEF vars, MarketTypes
  <2> QED BY <1>1, <1>4, <2>1, DeskKept DEF vars, marketVars, MarketTypes, ClockTypes
<1> QED
  BY <1>2, <1>3, <1>4 DEF MarketNext

LEMMA MarketInitInv == MarketInit => MarketTypes /\ StatusInv
<1> SUFFICES ASSUME MarketInit PROVE MarketTypes /\ StatusInv
  OBVIOUS
<1>1. TypeInv
  BY TypeInvInit DEF MarketInit
<1>2. TicketTypes
  BY DEF MarketInit, TicketTypes, NoTicket, TicketRow, TicketStatus
<1>3. DeskTypes
  BY DEF MarketInit, DeskTypes, IdleDesk, DeskRow
<1>4. ClockTypes
  BY DEF MarketInit, ClockTypes, Clock
<1>5. StatusInv
  BY IdleType DEF MarketInit, CheckoutInit, EscrowInit, StatusInv, PaidBothWays, HoldIsPaid, LockInv,
     RefundedMeansMoneyBack, Unpaid
<1> QED
  BY <1>1, <1>2, <1>3, <1>4, <1>5 DEF MarketTypes

LEMMA StatusHolds == MarketSpec => [](MarketTypes /\ StatusInv)
BY MarketInitInv, MarketTypesStep, StatusInvStep, EscrowHolds, PTL DEF MarketSpec

\* No handler of a paid order, and no interleaving of them, writes a status, a
\* ticket or a deadline that a row cannot have.
THEOREM MarketRowsTyped == MarketSpec => []MarketTypeOK
<1>1. MarketTypes => MarketTypeOK
  BY DEF MarketTypes, MarketTypeOK, TypeInv, SaleTypes, PaymentTypes, ReqTypes, CheckoutTypeOK,
     TicketTypes, DeskTypes, ClockTypes
<1> QED
  BY <1>1, StatusHolds, PTL

\* Whatever a refund races with (sweeps, requests, disputes, an admin's decision,
\* a crash between two commits), an order says "refunded" only when the whole
\* amount goes back to the buyer.
THEOREM RefundsAreReal == MarketSpec => []RefundedMeansMoneyBack
<1>1. StatusInv => RefundedMeansMoneyBack
  BY DEF StatusInv
<1> QED
  BY <1>1, StatusHolds, PTL

-----------------------------------------------------------------------------
(* Orders without disputes: the order and its hold tell the same story     *)

\* The jobs of a dispute.
DisputeJobs == {"dispute", "dispute_checked", "cancel_dispute"}

NoCase ==
    /\ \A t \in Tickets : ticket[t].status = "none"
    /\ \A d \in Desk : desk[d].job \notin DisputeJobs

\* An admin's decision finds the request or the settlement of another admin; a
\* sweep between its two commits finds the order as it left it, and no other
\* sweep is there.
HandlersAgree ==
    /\ \A d \in Desk :
          /\ desk[d].job \in {"refund_approve", "refund_reject"} =>
                order[desk[d].order] = "refund_requested" \/ Settled(desk[d].order)
          /\ desk[d].job = "release_settle" =>
                order[desk[d].order] = "released" /\ ~Settled(desk[d].order)
    /\ \A d, e \in Desk :
          /\ desk[d].job = "release_settle" /\ desk[e].job = "release_settle"
          /\ desk[d].order = desk[e].order
          => d = e

LedgerInv ==
    /\ LedgerAgrees
    /\ \A o \in Orders : hold[o] # "split"
    /\ HandlersAgree

LEMMA TypedMarket ==
    ASSUME MarketTypes
    PROVE  /\ SaleRows
           /\ ticket \in [Tickets -> TicketRow]
           /\ desk \in [Desk -> DeskRow]
           /\ shipped \in [Orders -> BOOLEAN]
BY DEF MarketTypes, TypeInv, SaleTypes, EscrowTypeOK, SaleRows, TicketTypes, DeskTypes, ClockTypes

\* What the handlers of a paid order do to their slots.
LEMMA SlotOfDesk ==
    ASSUME MarketTypes, RowsStay, NEW d \in Desk, Done(d)
    PROVE  desk'[d].job = "idle" /\ \A e \in Desk \ {d} : desk'[e] = desk[e]
BY DoneEffect, IdleDeskOK DEF MarketTypes

LEMMA NoCaseStep ==
    ASSUME DisputeJobs \cap Traffic = {}, MarketTypes, StatusInv, NoCase, [MarketNext]_vars
    PROVE  NoCase'
<1>0. RowsStay
  BY TicketStep
<1>1. \A t \in Tickets : ~ \E s \in ClosedStatus : CloseTicket(t, s)
  BY DEF NoCase, CloseTicket
<1>2. \A d \in Desk, o \in Orders : ~DisputeCommit(d, o) /\ ~DisputeCheck(d, o)
  BY DEF NoCase, DisputeJobs, DisputeCommit, DisputeCheck, Serving
<1>3. \A t \in Tickets : ticket'[t].status = "none"
  <2>1. CASE UNCHANGED ticket
    BY <2>1 DEF NoCase
  <2>2. ASSUME NEW t, NEW s \in ClosedStatus, CloseTicket(t, s)
        PROVE  UNCHANGED ticket
    BY <1>1, <2>2 DEF CloseTicket, MarketTypes, TicketTypes
  <2>3. UNCHANGED vars => UNCHANGED ticket
    BY DEF vars, marketVars
  <2> QED BY <1>2, <2>1, <2>2, <2>3, TicketWriters
<1>4. \A o, t : \A job \in DisputeJobs, d \in Desk : ~Take(d, job, o, t)
  BY DEF Take
<1>5. ASSUME NEW d \in Desk, Done(d)
      PROVE  \A e \in Desk : desk'[e].job \notin DisputeJobs
  BY <1>0, <1>5, SlotOfDesk DEF NoCase, DisputeJobs
<1>6. ASSUME NEW d \in Desk, NEW job \in MarketJobs, NEW o, NEW t, Take(d, job, o, t)
      PROVE  \A e \in Desk : desk'[e].job \notin DisputeJobs
  BY <1>4, <1>6 DEF Take, NoCase, MarketTypes, DeskTypes
<1>7. ASSUME NEW d \in Desk, NEW job \in {"release_settle"}, GoOn(d, job)
      PROVE  \A e \in Desk : desk'[e].job \notin DisputeJobs
  <2>1. \A e \in Desk : desk'[e].job \in {desk[e].job, job}
    BY <1>7 DEF GoOn, MarketTypes, DeskTypes, DeskRow
  <2> QED BY <2>1 DEF NoCase, DisputeJobs
<1>8. \A d \in Desk : desk'[d].job \notin DisputeJobs
  <2>1. CASE UNCHANGED desk
    BY <2>1 DEF NoCase
  <2>2. ASSUME NEW o \in Orders,
               Ship(o) \/ ConfirmDelivery(o) \/ ClockStep(o) \/ PayOut(o)
        PROVE  UNCHANGED desk
    BY <2>2 DEF Ship, ConfirmDelivery, ClockStep, WarrantyEnds, InspectionEnds, PayOut, marketVars
  <2>3. ASSUME NEW d \in Desk, NEW o \in Orders,
               Scan(d, o) \/ RequestRefundRead(d, o) \/ DecideRefundRead(d, o) \/ DisputeRead(d, o)
        PROVE  \E job \in MarketJobs : Take(d, job, o, Nothing)
    BY <2>3 DEF Scan, AutoDeliverScan, AutoRefundScan, ReleaseScan, RequestRefundRead,
       DecideRefundRead, DisputeRead, MarketJobs
  <2>4. ASSUME NEW d \in Desk, NEW o \in Orders, FinishDesk(d, o)
        PROVE  Done(d) \/ GoOn(d, "release_settle")
    BY <1>2, <2>4 DEF FinishDesk, AutoDeliver, AutoRefund, ReleaseUpdate, ReleaseSettle,
       RequestRefund, ApproveRefund, RejectRefund, CancelDispute
  <2>5. ASSUME NEW t \in Tickets,
               \/ ResolveWithRefund(t) \/ ResolveWithRelease(t) \/ ResolveWithSplit(t)
               \/ \E d \in Desk : CancelDisputeRead(d, t)
        PROVE  FALSE
    BY <1>1, <2>5 DEF ResolveWithRefund, ResolveWithRelease, ResolveWithSplit, CancelDisputeRead,
       NoCase, ClosedStatus
  <2>6. \A d \in Desk : DeskCrash(d) => Done(d)
    BY DEF DeskCrash
  <2>7. UNCHANGED vars \/ CheckoutStep => UNCHANGED desk
    BY DEF vars, marketVars, CheckoutStep
  <2> QED BY <1>5, <1>6, <1>7, <2>1, <2>2, <2>3, <2>4, <2>5, <2>6, <2>7 DEF MarketNext, MarketStep
<1> QED
  BY <1>3, <1>8 DEF NoCase

\* No hold of an order that still waits for its end is settled.
LEMMA WaitingUnsettled ==
    ASSUME MarketTypes, StatusInv, LedgerInv, NEW o \in Orders,
           order[o] \notin {"released", "refunded"}
    PROVE  ~Settled(o) /\ (paidAt[o] => CanSettle(o))
BY TypedMarket DEF LedgerInv, LedgerAgrees, Settled, SettledStatus, SaleRows, HoldStatus, CanSettle

\* Handlers that only read, or move an order that waits for its end to another
\* such status.
LEMMA WaitingStep ==
    ASSUME MarketTypes, StatusInv, LedgerInv, UNCHANGED hold, SaleRows',
           \/ UNCHANGED order
           \/ \E o \in Orders :
                 /\ order[o] \notin {"released", "refunded", "refund_requested"}
                 /\ \E s \in OrderStatus \ {"released", "refunded"} :
                       order' = [order EXCEPT ![o] = s],
           \A d \in Desk :
              \/ desk'[d] = desk[d]
              \/ /\ desk[d].job # "release_settle" /\ desk'[d].job # "release_settle"
                 /\ desk'[d].job \in {"refund_approve", "refund_reject"} =>
                       order'[desk'[d].order] = "refund_requested"
    PROVE  LedgerInv'
<1>0. SaleRows
  BY TypedMarket
<1>1. \A o \in Orders : Settled(o)' <=> Settled(o)
  BY DEF Settled
<1>2. \A o \in Orders : /\ order[o] = "released" <=> order'[o] = "released"
                        /\ order[o] = "refunded" <=> order'[o] = "refunded"
                        /\ order[o] = "refund_requested" => order'[o] = "refund_requested"
  BY <1>0 DEF SaleRows
<1>3. \A d \in Desk : desk'[d].job # "idle" /\ desk'[d] = desk[d] => desk[d].order \in Orders
  BY DEF MarketTypes, DeskTypes
<1>4. \A o \in Orders : Serves("release_settle", o) => Serves("release_settle", o)'
  BY DEF Serves, Serving
<1>5. LedgerAgrees' /\ \A o \in Orders : hold'[o] # "split"
  BY <1>2, <1>4 DEF LedgerInv, LedgerAgrees
<1>6. HandlersAgree'
  BY <1>1, <1>2, <1>3 DEF LedgerInv, HandlersAgree
<1> QED
  BY <1>5, <1>6 DEF LedgerInv

\* An order is settled under the status it gets; no other handler is left to do so.
LEMMA EndingStep ==
    ASSUME MarketTypes, StatusInv, LedgerInv, NEW o \in Orders, NEW d \in Desk,
           desk[d].order = o, order[o] # "released" \/ desk[d].job = "release_settle",
           desk'[d].job = "idle", \A e \in Desk \ {d} : desk'[e] = desk[e],
           \/ Settles(o, "refunded_to_buyer") /\ order' = [order EXCEPT ![o] = "refunded"]
           \/ Settles(o, "released_to_seller") /\ order' = [order EXCEPT ![o] = "released"]
    PROVE  LedgerInv'
<1>1. SaleRows
  BY TypedMarket
<1>2. /\ \A p \in Orders \ {o} : hold'[p] = hold[p] /\ order'[p] = order[p]
      /\ \/ hold'[o] = "refunded_to_buyer" /\ order'[o] = "refunded"
         \/ hold'[o] = "released_to_seller" /\ order'[o] = "released"
  BY <1>1 DEF Settles, SaleRows
<1>3. \A e \in Desk \ {d} : ~(desk[e].job = "release_settle" /\ desk[e].order = o)
  BY DEF LedgerInv, HandlersAgree
<1>4. \A p \in Orders \ {o} : Serves("release_settle", p) => Serves("release_settle", p)'
  BY DEF Serves, Serving
<1>5. LedgerAgrees' /\ \A p \in Orders : hold'[p] # "split"
  BY <1>2, <1>4 DEF LedgerInv, LedgerAgrees
<1>6. \A p \in Orders \ {o} : Settled(p)' <=> Settled(p)
  BY <1>2 DEF Settled
<1>7. Settled(o)'
  BY <1>2 DEF Settled, SettledStatus
<1>8. \A e \in Desk : desk'[e].job # "idle" => e # d /\ desk[e].order \in Orders
  BY DEF MarketTypes, DeskTypes
<1>9. HandlersAgree'
  BY <1>2, <1>3, <1>6, <1>7, <1>8 DEF LedgerInv, HandlersAgree
<1> QED
  BY <1>5, <1>9 DEF LedgerInv

\* The sweep's first commit.
LEMMA ReleaseUpdateStep ==
    ASSUME MarketTypes, StatusInv, LedgerInv, RowsStay, NEW o \in Orders, NEW d \in Desk,
           Serving(d, "release", o), order[o] = "delivered", GoOn(d, "release_settle"),
           order' = [order EXCEPT ![o] = "released"], UNCHANGED hold
    PROVE  LedgerInv'
<1>1. SaleRows
  BY TypedMarket
<1>2. /\ desk'[d].job = "release_settle" /\ desk'[d].order = o
      /\ \A e \in Desk \ {d} : desk'[e] = desk[e]
  BY GoOnEffect DEF Serving, MarketTypes
<1>3. /\ order'[o] = "released" /\ \A p \in Orders \ {o} : order'[p] = order[p]
  BY <1>1 DEF SaleRows
<1>4. ~Settled(o)
  BY WaitingUnsettled
<1>5. \A p \in Orders \ {o} : Serves("release_settle", p) => Serves("release_settle", p)'
  BY <1>2 DEF Serves, Serving
<1>6. Serves("release_settle", o)'
  BY <1>2 DEF Serves, Serving
<1>7. LedgerAgrees' /\ \A p \in Orders : hold'[p] # "split"
  BY <1>3, <1>4, <1>5, <1>6 DEF LedgerInv, LedgerAgrees, Settled, SettledStatus
<1>8. \A p \in Orders : Settled(p)' <=> Settled(p)
  BY DEF Settled
<1>9. \A e \in Desk \ {d} : ~(desk[e].order = o /\
          desk[e].job \in {"release_settle", "refund_approve", "refund_reject"})
  BY <1>4 DEF LedgerInv, HandlersAgree
<1>10. \A e \in Desk : desk[e].job # "idle" => desk[e].order \in Orders
  BY DEF MarketTypes, DeskTypes
<1>11. HandlersAgree'
  BY <1>2, <1>3, <1>4, <1>8, <1>9, <1>10 DEF LedgerInv, HandlersAgree
<1> QED
  BY <1>7, <1>11 DEF LedgerInv

\* A checkout writes orders whose money is not in escrow.
LEMMA CheckoutLedger ==
    ASSUME MarketTypes, StatusInv, LedgerInv, CheckoutStep
    PROVE  LedgerInv'
<1>1. SaleRows /\ UNCHANGED desk
  BY TypedMarket DEF CheckoutStep, marketVars
<1>2. ASSUME NEW o \in Orders, CheckoutMove(o)
      PROVE  LedgerInv'
  <2>1. order[o] \in Unpaid /\ order'[o] \notin {"released", "refunded"} /\ ~paidAt[o]
    BY <1>1, <1>2 DEF CheckoutMove, Unpaid, SaleRows, StatusInv, PaidBothWays
  <2>2. hold[o] = "none" /\ hold'[o] \in {"none", "held"}
    BY <1>1, <1>2, <2>1 DEF CheckoutMove, StatusInv, HoldIsPaid, TakeCustody, SaleRows, escrowVars
  <2>3. \A p \in Orders \ {o} : order'[p] = order[p] /\ hold'[p] = hold[p]
    BY <1>1, <1>2 DEF CheckoutMove, TakeCustody, SaleRows, escrowVars
  <2>4. \A d \in Desk : desk[d].job # "idle" => desk[d].order \in Orders \ {o}
    BY <2>1 DEF MarketTypes, DeskTypes
  <2>5. LedgerAgrees' /\ \A p \in Orders : hold'[p] # "split"
    BY <1>1, <2>1, <2>2, <2>3, <2>4 DEF LedgerInv, LedgerAgrees, Serves, Serving, Unpaid
  <2>6. \A p \in Orders \ {o} : Settled(p)' <=> Settled(p)
    BY <2>3 DEF Settled
  <2>7. HandlersAgree'
    BY <1>1, <2>3, <2>4, <2>6 DEF LedgerInv, HandlersAgree
  <2> QED BY <2>5, <2>7 DEF LedgerInv
<1>3. CASE UNCHANGED <<order, escrowVars>>
  BY <1>1, <1>3 DEF LedgerInv, LedgerAgrees, HandlersAgree, Serves, Serving, Settled, escrowVars
<1> QED
  BY <1>2, <1>3, CheckoutMoves DEF CheckoutStep, StatusInv

LEMMA LedgerStep ==
    ASSUME DisputeJobs \cap Traffic = {}, MaxCrashes = 0,
           MarketTypes, MarketTypes', StatusInv, NoCase, LedgerInv, [MarketNext]_vars
    PROVE  LedgerInv'
<1>0. RowsStay /\ SaleRows /\ SaleRows'
  BY TicketStep, TypedMarket DEF MarketTypes, TypeInv, SaleTypes, EscrowTypeOK, SaleRows
<1> DEFINE HandlersQuiet ==
        \A d \in Desk :
           \/ desk'[d] = desk[d]
           \/ /\ desk[d].job # "release_settle" /\ desk'[d].job # "release_settle"
              /\ desk'[d].job \in {"refund_approve", "refund_reject"} =>
                    order'[desk'[d].order] = "refund_requested"
           OtherStatus(o) ==
              /\ order[o] \notin {"released", "refunded", "refund_requested"}
              /\ \E s \in OrderStatus \ {"released", "refunded"} :
                    order' = [order EXCEPT ![o] = s]
<1>1. ASSUME NEW d \in Desk, Done(d), desk[d].job # "release_settle"
      PROVE  HandlersQuiet
  BY <1>0, <1>1, SlotOfDesk
<1>2. ASSUME UNCHANGED <<order, hold>>, HandlersQuiet
      PROVE  LedgerInv'
  BY <1>0, <1>2, WaitingStep
<1>3. ASSUME NEW o \in Orders, OtherStatus(o), UNCHANGED hold, HandlersQuiet
      PROVE  LedgerInv'
  BY <1>0, <1>3, WaitingStep
<1>4. OnlyRead => UNCHANGED <<order, hold>>
  BY OnlyReadStays DEF StayPut
<1>5. ASSUME NEW o \in Orders,
             Ship(o) \/ ConfirmDelivery(o) \/ ClockStep(o) \/ PayOut(o)
      PROVE  LedgerInv'
  <2>1. UNCHANGED desk
    BY <1>5 DEF Ship, ConfirmDelivery, ClockStep, WarrantyEnds, InspectionEnds, PayOut, marketVars
  <2>2. CASE Ship(o) \/ ConfirmDelivery(o)
    <3>1. OtherStatus(o) /\ UNCHANGED hold
      BY <2>2 DEF Ship, ConfirmDelivery, MarkDelivered, SetStatus, OrderStatus, escrowVars
    <3> QED BY <1>3, <2>1, <3>1
  <2>3. CASE ClockStep(o) \/ PayOut(o)
    <3>1. UNCHANGED <<order, hold>>
      BY <2>3 DEF ClockStep, WarrantyEnds, InspectionEnds, PayOut, MarkPayoutPaid, UnchangedSale,
         escrowVars
    <3> QED BY <1>2, <2>1, <3>1
  <2> QED BY <1>5, <2>2, <2>3
<1>6. ASSUME NEW d \in Desk, NEW o \in Orders,
             Scan(d, o) \/ RequestRefundRead(d, o) \/ DecideRefundRead(d, o)
      PROVE  LedgerInv'
  <2>1. PICK job \in MarketJobs \ (DisputeJobs \cup {"release_settle"}) :
           /\ Take(d, job, o, Nothing)
           /\ job \in {"refund_approve", "refund_reject"} => order[o] = "refund_requested"
           /\ order[o] \notin Unpaid
    BY <1>6 DEF Scan, AutoDeliverScan, AutoRefundScan, ReleaseScan, RequestRefundRead,
       DecideRefundRead, MarketJobs, DisputeJobs, Unshipped, Unpaid
  <2>2. UNCHANGED <<order, hold>>
    BY <1>4, <1>6 DEF Scan, AutoDeliverScan, AutoRefundScan, ReleaseScan, RequestRefundRead,
       DecideRefundRead
  <2>3. paidAt[o] /\ order[o] \in OrderStatus
    BY <1>0, <2>1 DEF StatusInv, PaidBothWays, SaleRows, Unpaid
  <2>4. /\ desk'[d] = [job |-> job, order |-> o, ticket |-> Nothing, seen |-> order[o]]
        /\ \A e \in Desk \ {d} : desk'[e] = desk[e]
        /\ desk[d].job = "idle"
    BY <1>0, <2>1, <2>3, TakeEffect DEF MarketTypes, DisputeJobs
  <2>5. HandlersQuiet
    BY <2>1, <2>2, <2>4
  <2> QED BY <1>2, <2>2, <2>5
<1>7. ASSUME NEW d \in Desk, NEW o \in Orders, AutoDeliver(d, o) \/ RequestRefund(d, o)
      PROVE  LedgerInv'
  <2>1. HandlersQuiet
    BY <1>1, <1>7 DEF AutoDeliver, RequestRefund, Serving
  <2>2. \/ OnlyRead
        \/ OtherStatus(o) /\ UNCHANGED hold
    BY <1>7 DEF AutoDeliver, RequestRefund, MarkDelivered, SetStatus, OrderStatus, escrowVars
  <2> QED BY <1>2, <1>3, <1>4, <2>1, <2>2
<1>8. ASSUME NEW d \in Desk, NEW o \in Orders,
             AutoRefund(d, o) \/ ApproveRefund(d, o) \/ RejectRefund(d, o)
      PROVE  LedgerInv'
  <2>1. /\ desk[d].order = o /\ desk[d].job # "release_settle" /\ Done(d)
        /\ desk[d].job \in {"refund_approve", "refund_reject"} \/ Unshipped(o) \/ OnlyRead
    BY <1>8 DEF AutoRefund, ApproveRefund, RejectRefund, Serving
  <2>2. CASE OnlyRead
    BY <1>1, <1>2, <1>4, <2>1, <2>2
  <2>3. CASE ~OnlyRead
    <3>1. \/ Settles(o, "refunded_to_buyer") /\ order' = [order EXCEPT ![o] = "refunded"]
          \/ Settles(o, "released_to_seller") /\ order' = [order EXCEPT ![o] = "released"]
      BY <1>8, <2>3 DEF AutoRefund, ApproveRefund, RejectRefund, RefundOrder, ReleaseOrder,
         RefundToBuyer, ReleaseToSeller, SettleHold, SetStatus, Settles
    <3>2. ~Settled(o)
      BY <3>1, CanSettleOnce DEF Settles
    <3>3. order[o] # "released"
      BY <2>1, <2>3, <3>2 DEF LedgerInv, HandlersAgree, Unshipped
    <3>4. desk'[d].job = "idle" /\ \A e \in Desk \ {d} : desk'[e] = desk[e]
      BY <1>0, <2>1, SlotOfDesk
    <3> QED BY <2>1, <3>1, <3>3, <3>4, EndingStep
  <2> QED BY <2>2, <2>3
<1>9. ASSUME NEW d \in Desk, NEW o \in Orders, ReleaseUpdate(d, o)
      PROVE  LedgerInv'
  <2>1. CASE OnlyRead /\ Done(d)
    BY <1>1, <1>2, <1>4, <1>9, <2>1 DEF ReleaseUpdate, Serving
  <2>2. CASE ~(OnlyRead /\ Done(d))
    BY <1>0, <1>9, <2>2, ReleaseUpdateStep DEF ReleaseUpdate, StillDelivered, SetStatus, escrowVars
  <2> QED BY <2>1, <2>2
<1>10. ASSUME NEW d \in Desk, NEW o \in Orders, ReleaseSettle(d, o)
       PROVE  LedgerInv'
  <2>1. /\ desk[d].order = o /\ desk[d].job = "release_settle" /\ Done(d)
        /\ order[o] = "released" /\ ~Settled(o)
    BY <1>10 DEF ReleaseSettle, Serving, LedgerInv, HandlersAgree
  <2>2. CanSettle(o)
    BY <1>0, <2>1 DEF CanSettle, Settled, SettledStatus, SaleRows, HoldStatus, StatusInv,
       PaidBothWays, Unpaid
  <2>3. Settles(o, "released_to_seller") /\ UNCHANGED order
    BY <1>10, <2>2 DEF ReleaseSettle, ReleaseToSeller, SettleHold, Settles
  <2>4. order' = [order EXCEPT ![o] = "released"]
    BY <1>0, <2>1, <2>3 DEF SaleRows
  <2>5. desk'[d].job = "idle" /\ \A e \in Desk \ {d} : desk'[e] = desk[e]
    BY <1>0, <2>1, SlotOfDesk
  <2> QED BY <2>1, <2>3, <2>4, <2>5, EndingStep
<1>11. ASSUME NEW d \in Desk, NEW o \in Orders,
              DisputeRead(d, o) \/ DisputeCheck(d, o) \/ DisputeCommit(d, o) \/ CancelDispute(d, o)
       PROVE  FALSE
  BY <1>11 DEF DisputeRead, DisputeCheck, DisputeCommit, CancelDispute, Take, Serving, NoCase,
     DisputeJobs
<1>12. ASSUME NEW t \in Tickets,
              \/ ResolveWithRefund(t) \/ ResolveWithRelease(t) \/ ResolveWithSplit(t)
              \/ \E d \in Desk : CancelDisputeRead(d, t)
       PROVE  FALSE
  BY <1>12 DEF ResolveWithRefund, ResolveWithRelease, ResolveWithSplit, CancelDisputeRead,
     CloseTicket, NoCase
<1>13. \A d \in Desk : ~DeskCrash(d)
  BY DEF DeskCrash, MarketTypes, TypeInv, PaymentTypes
<1>14. CASE UNCHANGED vars
  <2>1. UNCHANGED <<order, hold, desk>>
    BY <1>14 DEF vars, checkoutVars, escrowVars, marketVars
  <2> QED BY <1>2, <2>1
<1> HIDE DEF HandlersQuiet, OtherStatus
<1> QED
  BY <1>5, <1>6, <1>7, <1>8, <1>9, <1>10, <1>11, <1>12, <1>13, <1>14, CheckoutLedger
     DEF MarketNext, MarketStep, FinishDesk

LEMMA LedgerHolds ==
    ASSUME DisputeJobs \cap Traffic = {}, MaxCrashes = 0
    PROVE  MarketSpec => [](NoCase /\ LedgerInv)
<1>1. MarketInit => NoCase /\ LedgerInv
  BY DEF MarketInit, CheckoutInit, EscrowInit, NoTicket, IdleDesk, NoCase, DisputeJobs, LedgerInv,
     LedgerAgrees, HandlersAgree
<1>2. MarketTypes /\ MarketTypes' /\ StatusInv /\ NoCase /\ LedgerInv /\ [MarketNext]_vars
          => NoCase' /\ LedgerInv'
  BY NoCaseStep, LedgerStep
<1> QED
  BY <1>1, <1>2, StatusHolds, PTL DEF MarketSpec

\* Without disputes, and when no worker dies between the two commits of a release,
\* sweeps, refund requests and decisions of several admins, overlapping in any way,
\* settle each order once and under the status that it shows.
THEOREM OrderAndHoldAgree ==
    ASSUME DisputeJobs \cap Traffic = {}, MaxCrashes = 0
    PROVE  MarketSpec => []LedgerAgrees
<1>1. LedgerInv => LedgerAgrees
  BY DEF LedgerInv
<1> QED
  BY <1>1, LedgerHolds, PTL

\* A step on one order leaves the other orders and their holds alone.
LEMMA MovesAreOfOneOrder ==
    ASSUME SaleRows, NEW o \in Orders, MarketMove(o) \/ CheckoutMove(o)
    PROVE  Only(o)
BY DEF SaleRows, MarketMove, CheckoutMove, Settles, TakeCustody, escrowVars, Only

Decides(o) == Serves("refund_approve", o) \/ Serves("refund_reject", o)

Untouched(o) == order'[o] = order[o] /\ hold'[o] = hold[o]

LEMMA RequestStands ==
    ASSUME MarketTypes, StatusInv, NoCase, LedgerInv, MarketNext,
           NEW p \in Orders, order[p] = "refund_requested"
    PROVE  Untouched(p) \/ Decides(p)
<1>1. SaleRows
  BY TypedMarket
<1>2. StayPut => Untouched(p)
  BY DEF StayPut, Untouched
<1>3. ASSUME NEW o \in Orders, StayPut \/ MarketMove(o), p # o
      PROVE  Untouched(p)
  BY <1>1, <1>2, <1>3, MovesAreOfOneOrder DEF Only, Untouched
<1>4. CASE CheckoutStep
  <2>1. UNCHANGED <<order, escrowVars>> => Untouched(p)
    BY DEF escrowVars, Untouched
  <2>2. ASSUME NEW o \in Orders, CheckoutMove(o)
        PROVE  Untouched(p)
    <3>1. p # o
      BY <2>2 DEF CheckoutMove
    <3> QED BY <1>1, <2>2, <3>1, MovesAreOfOneOrder DEF Only, Untouched
  <2> QED BY <1>4, <2>1, <2>2, CheckoutMoves DEF CheckoutStep, StatusInv
<1>5. ASSUME NEW o \in Orders,
             Ship(o) \/ ConfirmDelivery(o) \/ ClockStep(o) \/ PayOut(o)
      PROVE  Untouched(p)
  <2>1. CASE p # o
    BY <1>3, <1>5, <2>1, OrderStepMoves DEF StatusInv
  <2>2. CASE p = o
    BY <1>5, <2>2 DEF Ship, ConfirmDelivery, MarkDelivered, ClockStep, WarrantyEnds,
       InspectionEnds, PayOut, MarkPayoutPaid, UnchangedSale, escrowVars, Untouched
  <2> QED BY <2>1, <2>2
<1>6. ASSUME NEW d \in Desk, NEW o \in Orders,
             \/ Scan(d, o) \/ RequestRefundRead(d, o) \/ DecideRefundRead(d, o)
             \/ DisputeRead(d, o) \/ FinishDesk(d, o)
      PROVE  Untouched(p) \/ Decides(p)
  <2>1. CASE p # o
    BY <1>3, <1>6, <2>1, DeskMoves DEF StatusInv
  <2>2. CASE p = o
    <3>1. OnlyRead => Untouched(p)
      BY <1>2, OnlyReadStays
    <3>2. CASE \/ Scan(d, p) \/ RequestRefundRead(d, p) \/ DecideRefundRead(d, p)
               \/ DisputeRead(d, p) \/ DisputeCheck(d, p)
      BY <3>1, <3>2 DEF Scan, AutoDeliverScan, AutoRefundScan, ReleaseScan, RequestRefundRead,
         DecideRefundRead, DisputeRead, DisputeCheck
    <3>3. CASE AutoDeliver(d, p) \/ AutoRefund(d, p) \/ ReleaseUpdate(d, p) \/ RequestRefund(d, p)
      BY <3>1, <3>3 DEF AutoDeliver, AutoRefund, Unshipped, ReleaseUpdate, StillDelivered,
         RequestRefund
    <3>4. ~ReleaseSettle(d, p)
      BY DEF ReleaseSettle, Serving, LedgerInv, HandlersAgree
    <3>5. CASE ApproveRefund(d, p) \/ RejectRefund(d, p)
      BY <3>5 DEF ApproveRefund, RejectRefund, Decides, Serves
    <3>6. ~DisputeCommit(d, p) /\ ~CancelDispute(d, p)
      BY DEF DisputeCommit, CancelDispute, Serving, NoCase, DisputeJobs
    <3> QED BY <1>6, <2>2, <3>2, <3>3, <3>4, <3>5, <3>6 DEF FinishDesk
  <2> QED BY <2>1, <2>2
<1>7. ASSUME NEW t \in Tickets,
             ResolveWithRefund(t) \/ ResolveWithRelease(t) \/ ResolveWithSplit(t)
      PROVE  FALSE
  BY <1>7 DEF ResolveWithRefund, ResolveWithRelease, ResolveWithSplit, CloseTicket, NoCase
<1>8. ASSUME NEW d \in Desk, DeskCrash(d) \/ \E t \in Tickets : CancelDisputeRead(d, t)
      PROVE  Untouched(p)
  BY <1>2, <1>8, OnlyReadStays DEF DeskCrash, UnchangedSale, escrowVars, StayPut, CancelDisputeRead
<1> QED
  BY <1>4, <1>5, <1>6, <1>7, <1>8 DEF MarketNext, MarketStep

\* A refund request that a buyer got in while the sweep was at work stands until an
\* admin decides it: no sweep, late handler or payout moves its order or its hold.
THEOREM RefundRequestsWin ==
    ASSUME DisputeJobs \cap Traffic = {}, MaxCrashes = 0
    PROVE  MarketSpec => RefundRequestWins
<1> DEFINE Wins ==
        \A o \in Orders :
          /\ order[o] = "refund_requested"
          /\ order'[o] # order[o] \/ hold'[o] # hold[o]
          => Serves("refund_approve", o) \/ Serves("refund_reject", o)
<1>1. MarketTypes /\ StatusInv /\ NoCase /\ LedgerInv /\ [MarketNext]_vars => [Wins]_vars
  BY RequestStands DEF Untouched, Decides
<1> QED
  BY <1>1, StatusHolds, LedgerHolds, PTL DEF MarketSpec, RefundRequestWins

-----------------------------------------------------------------------------
(* Released orders whose money stays in custody                            *)

\* An order is not stranded by a step that leaves it to the handler that has it.
LEMMA StrandedBefore ==
    ASSUME NEW p \in Orders, Untouched(p),
           Serves("release_settle", p) => Serves("release_settle", p)'
    PROVE  p \in Stranded' => p \in Stranded
BY DEF Stranded, Untouched, Settled

\* A handler that is not between the commits of a release leaves those that are.
LEMMA OthersServe ==
    ASSUME NEW d \in Desk, NEW p \in Orders, ~Serving(d, "release_settle", p),
           \A e \in Desk \ {d} : desk'[e] = desk[e]
    PROVE  Serves("release_settle", p) => Serves("release_settle", p)'
BY DEF Serves, Serving

\* An order that no handler marks released is left alone, or is not released.
LEMMA NotReleasedNow ==
    ASSUME SaleRows, NEW o \in Orders, NEW s \in OrderStatus \ {"released"}, SetStatus(o, s),
           UNCHANGED hold, NEW p \in Orders
    PROVE  Untouched(p) \/ p \notin Stranded'
BY DEF SaleRows, SetStatus, Untouched, Stranded

\* A settlement strands nobody: its own order has its money moved.
LEMMA NotSettledNow ==
    ASSUME SaleRows, NEW o \in Orders, NEW status \in SettledStatus, Settles(o, status),
           \A p \in Orders \ {o} : order'[p] = order[p], NEW p \in Orders
    PROVE  Untouched(p) \/ p \notin Stranded'
BY DEF SaleRows, Settles, Untouched, Stranded, Settled

\* A refund or a release writes the order it settles.
LEMMA EndedNow ==
    ASSUME SaleRows, NEW o \in Orders, RefundOrder(o) \/ ReleaseOrder(o), NEW p \in Orders
    PROVE  Untouched(p) \/ p \notin Stranded'
<1>1. \E status \in SettledStatus : Settles(o, status)
  BY DEF RefundOrder, RefundToBuyer, ReleaseOrder, ReleaseToSeller, SettleHold, Settles,
     SettledStatus
<1>2. \A q \in Orders \ {o} : order'[q] = order[q]
  BY DEF SaleRows, RefundOrder, ReleaseOrder, SetStatus
<1> QED
  BY <1>1, <1>2, NotSettledNow

LEMMA DeskStrandsNone ==
    ASSUME MarketTypes, StatusInv, RowsStay, NEW d \in Desk, NEW o \in Orders, NEW p \in Orders,
           \/ Scan(d, o) \/ RequestRefundRead(d, o) \/ DecideRefundRead(d, o)
           \/ DisputeRead(d, o) \/ FinishDesk(d, o)
    PROVE  p \in Stranded' => p \in Stranded
<1>1. SaleRows
  BY TypedMarket
<1>2. OnlyRead => Untouched(p)
  BY OnlyReadStays DEF StayPut, Untouched
<1>3. ASSUME ~Serving(d, "release_settle", p),
             Untouched(p) \/ p \notin Stranded',
             \A e \in Desk \ {d} : desk'[e] = desk[e]
      PROVE  p \in Stranded' => p \in Stranded
  BY <1>3, OthersServe, StrandedBefore
<1>4. Done(d) => \A e \in Desk \ {d} : desk'[e] = desk[e]
  BY SlotOfDesk
<1>5. CASE Scan(d, o) \/ RequestRefundRead(d, o) \/ DecideRefundRead(d, o) \/ DisputeRead(d, o)
  <2>1. OnlyRead /\ \E job : Take(d, job, o, Nothing)
    BY <1>5 DEF Scan, AutoDeliverScan, AutoRefundScan, ReleaseScan, RequestRefundRead,
       DecideRefundRead, DisputeRead
  <2>2. desk[d].job = "idle" /\ \A e \in Desk \ {d} : desk'[e] = desk[e]
    BY <2>1, TypedMarket DEF Take
  <2> QED BY <1>2, <1>3, <2>1, <2>2 DEF Serving
<1>6. CASE \/ AutoDeliver(d, o) \/ RequestRefund(d, o) \/ DisputeCommit(d, o)
           \/ CancelDispute(d, o)
  <2>1. Done(d) /\ desk[d].job \notin {"idle", "release_settle"}
    BY <1>6 DEF AutoDeliver, RequestRefund, DisputeCommit, CancelDispute, Serving
  <2>2. \/ UNCHANGED <<order, hold>>
        \/ UNCHANGED hold /\ \E s \in OrderStatus \ {"released"} : SetStatus(o, s)
    <3>1. CASE AutoDeliver(d, o) \/ RequestRefund(d, o) \/ DisputeCommit(d, o)
      BY <3>1, OnlyReadStays DEF AutoDeliver, RequestRefund, DisputeCommit, MarkDelivered,
         Freeze, OrderStatus, StayPut, escrowVars
    <3>2. CASE CancelDispute(d, o)
      <4> DEFINE t == desk[d].ticket
      <4>1. t \in Tickets /\ ticket[t].at_open \in CaseStatus
        BY <3>2 DEF CancelDispute, Serving, MarketTypes, DeskTypes, TicketTypes
      <4>2. \/ StayPut
            \/ UNCHANGED hold /\ (UNCHANGED order \/ SetStatus(o, ticket[t].at_open))
        BY <3>2, OnlyReadStays DEF CancelDispute, Restore, escrowVars
      <4>3. ticket[t].at_open \in OrderStatus \ {"released"}
        BY <4>1 DEF CaseStatus, OrderStatus
      <4> QED BY <4>2, <4>3 DEF StayPut
    <3> QED BY <1>6, <3>1, <3>2
  <2>3. Untouched(p) \/ p \notin Stranded'
    BY <1>1, <2>2, NotReleasedNow DEF Untouched
  <2> QED BY <1>3, <1>4, <2>1, <2>3 DEF Serving
<1>7. CASE AutoRefund(d, o) \/ ApproveRefund(d, o) \/ RejectRefund(d, o)
  <2>1. Done(d) /\ desk[d].job # "release_settle"
    BY <1>7 DEF AutoRefund, ApproveRefund, RejectRefund, Serving
  <2>2. OnlyRead \/ RefundOrder(o) \/ ReleaseOrder(o)
    BY <1>7 DEF AutoRefund, ApproveRefund, RejectRefund
  <2> QED BY <1>1, <1>2, <1>3, <1>4, <2>1, <2>2, EndedNow DEF Serving
<1>8. CASE DisputeCheck(d, o)
  <2>1. /\ OnlyRead /\ desk[d].job = "dispute"
        /\ \A e \in Desk \ {d} : desk'[e] = desk[e]
    BY <1>4, <1>8, GoOnEffect DEF DisputeCheck, Serving, MarketTypes
  <2> QED BY <1>2, <1>3, <2>1 DEF Serving
<1>9. CASE ReleaseUpdate(d, o)
  <2>1. desk[d].job = "release" /\ desk[d].order = o
    BY <1>9 DEF ReleaseUpdate, Serving
  <2>2. CASE Done(d) /\ OnlyRead
    BY <1>2, <1>3, <1>4, <2>1, <2>2 DEF Serving
  <2>3. CASE SetStatus(o, "released") /\ GoOn(d, "release_settle") /\ UNCHANGED hold
    <3>1. /\ desk'[d].job = "release_settle" /\ desk'[d].order = o
          /\ \A e \in Desk \ {d} : desk'[e] = desk[e]
      BY <2>1, <2>3, GoOnEffect DEF MarketTypes
    <3>2. o \notin Stranded'
      BY <3>1 DEF Stranded, Serves, Serving
    <3>3. p # o => Untouched(p)
      BY <1>1, <2>3 DEF SetStatus, SaleRows, Untouched
    <3> QED BY <1>3, <2>1, <3>1, <3>2, <3>3 DEF Serving
  <2> QED BY <1>9, <2>2, <2>3 DEF ReleaseUpdate, escrowVars
<1>10. CASE ReleaseSettle(d, o)
  <2>1. desk[d].job = "release_settle" /\ desk[d].order = o /\ Done(d) /\ UNCHANGED order
    BY <1>10, OnlyReadStays DEF ReleaseSettle, Serving, StayPut
  <2>2. CASE ReleaseToSeller(o)
    <3>1. Settles(o, "released_to_seller") /\ "released_to_seller" \in SettledStatus
      BY <2>2 DEF ReleaseToSeller, SettleHold, Settles, SettledStatus
    <3>2. Untouched(p) \/ p \notin Stranded'
      BY <1>1, <2>1, <3>1, NotSettledNow
    <3>3. o \notin Stranded'
      BY <1>1, <3>1 DEF SaleRows, Settles, Stranded, Settled
    <3> QED BY <1>3, <1>4, <2>1, <3>2, <3>3 DEF Serving
  <2>3. CASE ~CanSettle(o) /\ OnlyRead
    <3>1. order[o] = "released" => Settled(o)
      BY <1>1, <2>3 DEF CanSettle, Settled, SettledStatus, SaleRows, HoldStatus, StatusInv,
         PaidBothWays, Unpaid
    <3>2. UNCHANGED hold
      BY <2>3, OnlyReadStays DEF StayPut
    <3>3. o \notin Stranded'
      BY <2>1, <3>1, <3>2 DEF Stranded, Settled
    <3> QED BY <1>2, <1>3, <1>4, <2>1, <2>3, <3>3 DEF Serving
  <2> QED BY <1>10, <2>2, <2>3 DEF ReleaseSettle
<1> QED
  BY <1>5, <1>6, <1>7, <1>8, <1>9, <1>10 DEF FinishDesk

\* No step but the death of a worker strands an order.
LEMMA WorkStrandsNone ==
    ASSUME MarketTypes, StatusInv, [MarketNext]_vars, \A d \in Desk : ~DeskCrash(d)
    PROVE  Stranded' \subseteq Stranded
<1> SUFFICES ASSUME NEW p \in Orders PROVE p \in Stranded' => p \in Stranded
  BY DEF Stranded
<1>1. SaleRows /\ RowsStay
  BY TypedMarket, TicketStep
<1>2. UNCHANGED desk => (Serves("release_settle", p) => Serves("release_settle", p)')
  BY DEF Serves, Serving
<1>3. ASSUME NEW o \in Orders, CheckoutMove(o)
      PROVE  Untouched(p) \/ p \notin Stranded'
  <2>1. order'[o] # "released"
    BY <1>1, <1>3 DEF CheckoutMove, SaleRows
  <2> QED BY <1>1, <1>3, <2>1, MovesAreOfOneOrder DEF Only, Untouched, Stranded
<1>4. CASE CheckoutStep
  <2>1. UNCHANGED desk
    BY <1>4 DEF CheckoutStep, marketVars
  <2>2. UNCHANGED <<order, escrowVars>> => Untouched(p)
    BY DEF escrowVars, Untouched
  <2> QED BY <1>2, <1>3, <1>4, <2>1, <2>2, CheckoutMoves, StrandedBefore
          DEF CheckoutStep, StatusInv
<1>5. ASSUME NEW o \in Orders,
             Ship(o) \/ ConfirmDelivery(o) \/ ClockStep(o) \/ PayOut(o)
      PROVE  p \in Stranded' => p \in Stranded
  <2>1. UNCHANGED desk
    BY <1>5 DEF Ship, ConfirmDelivery, ClockStep, WarrantyEnds, InspectionEnds, PayOut, marketVars
  <2>2. \/ UNCHANGED <<order, hold>>
        \/ UNCHANGED hold /\ \E s \in OrderStatus \ {"released"} : SetStatus(o, s)
    BY <1>5 DEF Ship, ConfirmDelivery, MarkDelivered, ClockStep, WarrantyEnds, InspectionEnds,
       PayOut, MarkPayoutPaid, UnchangedSale, OrderStatus, escrowVars
  <2>3. Untouched(p) \/ p \notin Stranded'
    BY <1>1, <2>2, NotReleasedNow DEF Untouched
  <2> QED BY <1>2, <2>1, <2>3, StrandedBefore
<1>6. ASSUME NEW t \in Tickets,
             ResolveWithRefund(t) \/ ResolveWithRelease(t) \/ ResolveWithSplit(t)
      PROVE  p \in Stranded' => p \in Stranded
  <2> DEFINE o == ticket[t].order
  <2>1. o \in Orders /\ UNCHANGED desk
    BY <1>6, ResolutionMoves DEF ResolveWithRefund, ResolveWithRelease, ResolveWithSplit
  <2>2. CASE ResolveWithRefund(t) \/ ResolveWithRelease(t)
    BY <1>1, <1>2, <2>1, <2>2, EndedNow, StrandedBefore DEF ResolveWithRefund, ResolveWithRelease
  <2>3. CASE ResolveWithSplit(t)
    <3>1. Settles(o, "split") /\ "split" \in SettledStatus
      BY <2>3 DEF ResolveWithSplit, SplitSettlement, SettleHold, Settles, SettledStatus
    <3>2. \A q \in Orders \ {o} : order'[q] = order[q]
      BY <1>1, <2>3 DEF ResolveWithSplit, SetStatus, SaleRows
    <3>3. Untouched(p) \/ p \notin Stranded'
      BY <1>1, <2>1, <3>1, <3>2, NotSettledNow
    <3> QED BY <1>2, <2>1, <3>3, StrandedBefore
  <2> QED BY <1>6, <2>2, <2>3
<1>7. ASSUME NEW d \in Desk, NEW t \in Tickets, CancelDisputeRead(d, t)
      PROVE  p \in Stranded' => p \in Stranded
  <2>1. OnlyRead /\ Take(d, "cancel_dispute", ticket[t].order, t)
    BY <1>7 DEF CancelDisputeRead
  <2>2. desk[d].job = "idle" /\ \A e \in Desk \ {d} : desk'[e] = desk[e]
    BY <2>1, TypedMarket DEF Take
  <2>3. Untouched(p)
    BY <2>1, OnlyReadStays DEF StayPut, Untouched
  <2> QED BY <2>2, <2>3, OthersServe, StrandedBefore DEF Serving
<1>8. CASE UNCHANGED vars
  BY <1>2, <1>8, StrandedBefore DEF vars, checkoutVars, escrowVars, marketVars, Untouched
<1> QED
  BY <1>1, <1>4, <1>5, <1>6, <1>7, <1>8, DeskStrandsNone DEF MarketNext, MarketStep

\* A death strands the order of the worker that died, at most.
LEMMA DeathStrandsOne ==
    ASSUME MarketTypes, RowsStay, NEW d \in Desk, DeskCrash(d)
    PROVE  Stranded' \subseteq Stranded \cup {desk[d].order}
<1> SUFFICES ASSUME NEW p \in Orders, p # desk[d].order PROVE p \in Stranded' => p \in Stranded
  BY DEF Stranded
<1>1. \A e \in Desk \ {d} : desk'[e] = desk[e]
  BY SlotOfDesk DEF DeskCrash
<1>2. Untouched(p)
  BY DEF DeskCrash, UnchangedSale, escrowVars, Untouched
<1> QED
  BY <1>1, <1>2, OthersServe, StrandedBefore DEF Serving

LEMMA CheckoutDeaths ==
    ASSUME CheckoutNext
    PROVE  crashes' \in {crashes, crashes + 1}
<1> USE DEF Slots
<1> DEFINE Counted == crashes' \in {crashes, crashes + 1}
<1>1. ASSUME NEW o \in Orders,
             \/ CheckoutPaymob(o) \/ PaymobCreated(o) \/ PaymobUnavailable(o)
             \/ CheckoutDied(o) \/ CheckoutManual(o) \/ PaymentAttempt(o)
      PROVE  Counted
  BY <1>1 DEF CheckoutPaymob, PaymobCreated, PaymobUnavailable, CheckoutDied, CheckoutManual,
     PaymentAttempt
<1>2. ASSUME NEW l \in Listings,
             \/ Withdraw(l) \/ SellerEdit(l) \/ Moderate(l)
             \/ \E w \in Web : ListingRead(w, l) \/ ApproveWrite(w, l) \/ AdminEditWrite(w, l)
      PROVE  Counted
  BY <1>2 DEF Withdraw, SellerEdit, Moderate, ListingRead, ApproveWrite, AdminEditWrite,
     ChangeListing
<1>3. ASSUME NEW w \in Slots, NEW o \in Orders,
             \/ CallbackRead(w, o) \/ CancelRead(w, o) \/ UploadRead(w, o) \/ ReviewRead(w, o)
             \/ ExpireRead(w, o) \/ CallbackSuccess(w, o) \/ CallbackFailure(w, o)
             \/ CancelWrite(w, o) \/ CancelReceipts(w, o) \/ UploadWrite(w, o)
             \/ ReviewRefused(w, o) \/ ConfirmLock(w, o) \/ ConfirmCommit(w, o)
             \/ ConfirmRolledBack(w, o) \/ RejectWrite(w, o)
      PROVE  Counted
  BY <1>3 DEF CallbackRead, CancelRead, UploadRead, ReviewRead, ExpireRead, CallbackSuccess,
     CallbackFailure, CancelWrite, CancelReceipts, UploadWrite, ReviewRefused, ConfirmLock,
     ConfirmCommit, ConfirmRolledBack, RejectWrite
<1>4. ASSUME NEW w \in Slots, Crash(w)
      PROVE  Counted
  BY <1>4 DEF Crash
<1> HIDE DEF Counted
<1>5. Counted
  BY <1>1, <1>2, <1>3, <1>4 DEF CheckoutNext, WebStep, SweepStep
<1> QED
  BY <1>5 DEF Counted

\* Deaths are counted; those of checkouts strand nobody.
LEMMA DeathsCounted ==
    ASSUME MarketTypes, [MarketNext]_vars
    PROVE  /\ crashes \in Nat /\ crashes' \in Nat /\ crashes <= crashes'
           /\ \A d \in Desk : DeskCrash(d) => crashes' = crashes + 1
<1>1. crashes \in Nat
  BY CheckoutAssumption DEF MarketTypes, TypeInv, PaymentTypes
<1>2. CheckoutStep => crashes' \in {crashes, crashes + 1}
  BY CheckoutDeaths DEF CheckoutStep
<1>3. MarketStep => crashes' \in {crashes, crashes + 1}
  BY MarketFrame
<1>4. UNCHANGED vars => crashes' = crashes
  BY DEF vars, checkoutVars
<1>5. crashes' \in {crashes, crashes + 1}
  BY <1>2, <1>3, <1>4 DEF MarketNext
<1> QED
  BY <1>1, <1>5 DEF DeskCrash

StrandedInv == IsFiniteSet(Stranded) /\ StrandedOnlyByCrash

LEMMA StrandedStep ==
    ASSUME MarketTypes, StatusInv, StrandedInv, [MarketNext]_vars
    PROVE  StrandedInv'
<1>0. /\ crashes \in Nat /\ crashes' \in Nat /\ crashes <= crashes'
      /\ IsFiniteSet(Stranded) /\ Cardinality(Stranded) <= crashes
      /\ Cardinality(Stranded) \in Nat
  BY DeathsCounted, FS_CardinalityType DEF StrandedInv, StrandedOnlyByCrash
<1>1. CASE \A d \in Desk : ~DeskCrash(d)
  <2>1. IsFiniteSet(Stranded') /\ Cardinality(Stranded') <= Cardinality(Stranded)
    BY <1>0, <1>1, WorkStrandsNone, FS_Subset
  <2>2. Cardinality(Stranded') \in Nat
    BY <2>1, FS_CardinalityType
  <2> QED BY <1>0, <2>1, <2>2 DEF StrandedInv, StrandedOnlyByCrash
<1>2. ASSUME NEW d \in Desk, DeskCrash(d)
      PROVE  StrandedInv'
  <2> DEFINE S == Stranded \cup {desk[d].order}
  <2>1. Stranded' \subseteq S /\ crashes' = crashes + 1
    BY <1>2, DeathStrandsOne, DeathsCounted, TicketStep
  <2>2. IsFiniteSet(S) /\ Cardinality(S) <= Cardinality(Stranded) + 1
    <3>1. /\ IsFiniteSet(S)
          /\ Cardinality(S) = IF desk[d].order \in Stranded THEN Cardinality(Stranded)
                                                            ELSE Cardinality(Stranded) + 1
      BY <1>0, FS_AddElement
    <3> HIDE DEF S
    <3> QED BY <1>0, <3>1
  <2>3. IsFiniteSet(Stranded') /\ Cardinality(Stranded') <= Cardinality(S)
    BY <2>1, <2>2, FS_Subset
  <2>4. Cardinality(Stranded') \in Nat /\ Cardinality(S) \in Nat
    BY <2>2, <2>3, FS_CardinalityType
  <2> HIDE DEF S
  <2> QED BY <1>0, <2>1, <2>2, <2>3, <2>4 DEF StrandedInv, StrandedOnlyByCrash
<1> QED
  BY <1>1, <1>2

\* However many sweeps, refund requests, decisions and disputes overlap on however
\* many orders: released orders whose money stays in custody are at most as many
\* as the workers that died. A refusal that the sweep swallows strands nobody.
THEOREM DeathsStrandAtMostOne == MarketSpec => []StrandedOnlyByCrash
<1>1. MarketInit => StrandedInv
  <2>1. MarketInit => Stranded = {} /\ crashes = 0
    BY DEF MarketInit, CheckoutInit, Stranded
  <2> QED BY <2>1, FS_EmptySet DEF StrandedInv, StrandedOnlyByCrash
<1>2. MarketTypes /\ StatusInv /\ StrandedInv /\ [MarketNext]_vars => StrandedInv'
  BY StrandedStep
<1>3. StrandedInv => StrandedOnlyByCrash
  BY DEF StrandedInv
<1> QED
  BY <1>1, <1>2, <1>3, StatusHolds, PTL DEF MarketSpec

-----------------------------------------------------------------------------
(* Disputed orders, whatever overlaps                                      *)

Marked(p, status) == order'[p] = status /\ hold'[p] = hold[p]

SettledAs(p, status, end) == CanSettle(p) /\ order'[p] = status /\ hold'[p] = end

\* What a step that writes no ticket does to an order: from which status each is
\* written, or at the end of which handler.
PlainWay(p) ==
    \/ Untouched(p)
    \/ order[p] = "paid_held" /\ Marked(p, "shipped")
    \/ order[p] \in {"paid_held", "shipped"} /\ Marked(p, "delivered")
    \/ order[p] = "delivered" /\ (Marked(p, "refund_requested") \/ Marked(p, "released"))
    \/ order[p] = "paid_held" /\ SettledAs(p, "refunded", "refunded_to_buyer")
    \/ Finishes("refund_approve", p) /\ SettledAs(p, "refunded", "refunded_to_buyer")
    \/ Finishes("refund_reject", p) /\ SettledAs(p, "released", "released_to_seller")
    \/ Finishes("release_settle", p) /\ SettledAs(p, order[p], "released_to_seller")

OtherTickets(t) == \A u \in Tickets \ {t} : ticket'[u] = ticket[u]

Opens(t) ==
    LET o == ticket'[t].order IN
    /\ ticket[t].status = "none" /\ ticket'[t].status = "open" /\ OtherTickets(t)
    /\ o \in Orders /\ Only(o)
    /\ Untouched(o) \/ Marked(o, "disputed")

RulingStatus == {"resolved_refund", "resolved_release", "resolved_split"}

Closes(t) ==
    LET o == ticket[t].order IN
    /\ ticket[t].status = "open" /\ OtherTickets(t)
    /\ ticket'[t].order = o /\ ticket'[t].at_open = ticket[t].at_open
    /\ o \in Orders /\ Only(o)

\* A ruling is carried out with the settlement it names.
Rules(t) ==
    /\ Closes(t) /\ ticket'[t].status \in RulingStatus
    /\ SettledAs(ticket[t].order,
                 IF ticket'[t].status = "resolved_refund" THEN "refunded" ELSE "released",
                 Ruling(ticket'[t].status))

\* A cancellation restores what the ticket remembers if the order was seen frozen.
Cancels(t) ==
    /\ Closes(t) /\ ticket'[t].status = "cancelled"
    /\ \E d \in Desk :
          /\ desk[d].job = "cancel_dispute" /\ desk[d].ticket = t
          /\ Marked(ticket[t].order, IF desk[d].seen = "disputed" THEN ticket[t].at_open
                                     ELSE order[ticket[t].order])

LEMMA RulingEnds ==
    /\ Ruling("resolved_refund") = "refunded_to_buyer"
    /\ Ruling("resolved_release") = "released_to_seller"
    /\ Ruling("resolved_split") = "split"
    /\ \A s : Ruling(s) # "none" => s \in RulingStatus
    /\ \A s \in RulingStatus : Ruling(s) # "none" /\ Ruling(s) \in SettledStatus
BY DEF Ruling, RulingStatus, SettledStatus

LEMMA SetMarks ==
    ASSUME SaleRows, NEW o \in Orders, NEW s, SetStatus(o, s), UNCHANGED hold
    PROVE  Marked(o, s)
BY DEF SaleRows, SetStatus, Marked

LEMMA SettleMarks ==
    ASSUME SaleRows, NEW o \in Orders
    PROVE  /\ RefundOrder(o) => SettledAs(o, "refunded", "refunded_to_buyer")
           /\ ReleaseOrder(o) => SettledAs(o, "released", "released_to_seller")
           /\ ReleaseToSeller(o) /\ UNCHANGED order
                 => SettledAs(o, order[o], "released_to_seller")
BY DEF SaleRows, RefundOrder, RefundToBuyer, ReleaseOrder, ReleaseToSeller, SettleHold, SetStatus,
   SettledAs

\* An order that a step is not about.
LEMMA OtherOrdersUntouched ==
    ASSUME SaleRows, NEW o \in Orders, StayPut \/ MarketMove(o), NEW p \in Orders, p # o
    PROVE  Untouched(p)
<1>1. CASE StayPut
  BY <1>1 DEF StayPut, Untouched
<1>2. CASE MarketMove(o)
  BY <1>2, MovesAreOfOneOrder DEF Only, Untouched
<1> QED
  BY <1>1, <1>2

LEMMA PlainDesk ==
    ASSUME MarketTypes, StatusInv, RowsStay, NEW d \in Desk, NEW o \in Orders, NEW p \in Orders,
           \/ Scan(d, o) \/ RequestRefundRead(d, o) \/ DecideRefundRead(d, o)
           \/ DisputeRead(d, o) \/ FinishDesk(d, o),
           ~DisputeCommit(d, o), ~CancelDispute(d, o)
    PROVE  UNCHANGED ticket /\ PlainWay(p)
<1>1. SaleRows
  BY TypedMarket
<1>2. OnlyRead => UNCHANGED ticket /\ Untouched(p)
  BY OnlyReadStays DEF OnlyRead, StayPut, Untouched
<1>3. p # o => Untouched(p)
  <2>1. StayPut \/ MarketMove(o)
    BY DeskMoves DEF StatusInv
  <2> QED BY <1>1, <2>1, OtherOrdersUntouched
<1>4. \A job : Serving(d, job, p) /\ Done(d) => Finishes(job, p)
  BY DoneEffect DEF Finishes, MarketTypes
<1>5. CASE \/ Scan(d, o) \/ RequestRefundRead(d, o) \/ DecideRefundRead(d, o)
           \/ DisputeRead(d, o) \/ DisputeCheck(d, o)
  BY <1>2, <1>5 DEF Scan, AutoDeliverScan, AutoRefundScan, ReleaseScan, RequestRefundRead,
     DecideRefundRead, DisputeRead, DisputeCheck, PlainWay
<1>6. CASE AutoDeliver(d, o)
  <2>1. MarkDelivered(o) =>
            /\ UNCHANGED ticket /\ Marked(o, "delivered")
            /\ order[o] \in {"paid_held", "shipped"}
    BY <1>1, SetMarks DEF MarkDelivered, escrowVars
  <2> QED BY <1>2, <1>3, <1>6, <2>1 DEF AutoDeliver, PlainWay
<1>7. CASE AutoRefund(d, o)
  BY <1>1, <1>2, <1>3, <1>7, SettleMarks DEF AutoRefund, Unshipped, PlainWay
<1>8. CASE ReleaseUpdate(d, o)
  <2>1. SetStatus(o, "released") /\ UNCHANGED escrowVars => Marked(o, "released")
    BY <1>1, SetMarks DEF escrowVars
  <2> QED BY <1>2, <1>3, <1>8, <2>1 DEF ReleaseUpdate, StillDelivered, PlainWay
<1>9. CASE ReleaseSettle(d, o)
  BY <1>1, <1>2, <1>3, <1>4, <1>9, SettleMarks DEF ReleaseSettle, PlainWay
<1>10. CASE RequestRefund(d, o)
  <2>1. SetStatus(o, "refund_requested") /\ UNCHANGED escrowVars => Marked(o, "refund_requested")
    BY <1>1, SetMarks DEF escrowVars
  <2> QED BY <1>2, <1>3, <1>10, <2>1 DEF RequestRefund, PlainWay
<1>11. CASE ApproveRefund(d, o)
  BY <1>1, <1>2, <1>3, <1>4, <1>11, SettleMarks DEF ApproveRefund, PlainWay
<1>12. CASE RejectRefund(d, o)
  BY <1>1, <1>2, <1>3, <1>4, <1>12, SettleMarks DEF RejectRefund, PlainWay
<1> QED
  BY <1>5, <1>6, <1>7, <1>8, <1>9, <1>10, <1>11, <1>12 DEF FinishDesk

LEMMA PlainOrderStep ==
    ASSUME MarketTypes, StatusInv, NEW o \in Orders, NEW p \in Orders,
           Ship(o) \/ ConfirmDelivery(o) \/ ClockStep(o) \/ PayOut(o)
    PROVE  UNCHANGED ticket /\ PlainWay(p)
<1>1. SaleRows
  BY TypedMarket
<1>2. p # o => Untouched(p)
  <2>1. StayPut \/ MarketMove(o)
    BY OrderStepMoves DEF StatusInv
  <2> QED BY <1>1, <2>1, OtherOrdersUntouched
<1>3. CASE Ship(o)
  <2>1. Marked(o, "shipped")
    BY <1>1, <1>3, SetMarks DEF Ship, escrowVars
  <2> QED BY <1>2, <1>3, <2>1 DEF Ship, PlainWay
<1>4. CASE ConfirmDelivery(o)
  <2>1. Marked(o, "delivered")
    BY <1>1, <1>4, SetMarks DEF ConfirmDelivery, MarkDelivered, escrowVars
  <2> QED BY <1>2, <1>4, <2>1 DEF ConfirmDelivery, MarkDelivered, PlainWay
<1>5. CASE ClockStep(o) \/ PayOut(o)
  BY <1>5 DEF ClockStep, WarrantyEnds, InspectionEnds, PayOut, marketVars, UnchangedSale,
     escrowVars, MarkPayoutPaid, PlainWay, Untouched
<1> QED
  BY <1>3, <1>4, <1>5

LEMMA TicketIsOpened ==
    ASSUME MarketTypes, StatusInv, NEW d \in Desk, NEW o \in Orders, DisputeCommit(d, o)
    PROVE  \E t \in Tickets : Opens(t)
<1>1. PICK t \in FreeTickets :
         /\ ticket'[t] = [status |-> "open", order |-> o, at_open |-> desk[d].seen]
         /\ \A u \in Tickets \ {t} : ticket'[u] = ticket[u]
  BY TicketOpened DEF MarketTypes
<1>2. Only(o) /\ (Untouched(o) \/ Marked(o, "disputed"))
  BY TypedMarket, SetMarks
     DEF DisputeCommit, Freeze, SetStatus, SaleRows, escrowVars, Only, Untouched
<1>3. t \in Tickets /\ ticket[t].status = "none"
  BY DEF FreeTickets
<1>4. Opens(t)
  BY <1>1, <1>2, <1>3 DEF Opens, OtherTickets
<1> QED
  BY <1>3, <1>4

LEMMA TicketIsCancelled ==
    ASSUME MarketTypes, StatusInv, NEW d \in Desk, NEW o \in Orders, CancelDispute(d, o)
    PROVE  OnlyRead \/ \E t \in Tickets : Cancels(t)
<1> DEFINE t == desk[d].ticket
<1>1. desk[d].job = "cancel_dispute" /\ t \in Tickets /\ ticket[t].order = o
  BY DEF CancelDispute, Serving, MarketTypes, DeskTypes
<1>2. SUFFICES ASSUME CloseTicket(t, "cancelled"), Restore(o, desk[d].seen, t), UNCHANGED escrowVars
               PROVE  Cancels(t)
  BY <1>1 DEF CancelDispute
<1> HIDE DEF t
<1>3. /\ ticket[t].status = "open" /\ ticket'[t].status = "cancelled"
      /\ ticket'[t].order = o /\ ticket'[t].at_open = ticket[t].at_open
      /\ OtherTickets(t)
  <2>1. "cancelled" \in ClosedStatus
    BY DEF ClosedStatus
  <2> QED BY <1>1, <1>2, <2>1, TicketRowKept DEF MarketTypes, CloseTicket, OtherTickets
<1>4. Only(o) /\ Marked(o, IF desk[d].seen = "disputed" THEN ticket[t].at_open ELSE order[o])
  BY <1>2, TypedMarket DEF Restore, SetStatus, SaleRows, escrowVars, Only, Marked
<1> QED
  BY <1>1, <1>3, <1>4 DEF Cancels, Closes, t

LEMMA TicketIsRuled ==
    ASSUME MarketTypes, StatusInv, NEW t \in Tickets,
           ResolveWithRefund(t) \/ ResolveWithRelease(t) \/ ResolveWithSplit(t)
    PROVE  Rules(t)
<1> DEFINE o == ticket[t].order
<1>1. o \in Orders /\ Only(o) /\ SaleRows
  BY TypedMarket, ResolutionMoves, MovesAreOfOneOrder
<1> HIDE DEF o
<1>2. ASSUME NEW s \in RulingStatus, CloseTicket(t, s)
      PROVE  Closes(t) /\ ticket'[t].status = s
  <2>1. s \in ClosedStatus
    BY DEF RulingStatus, ClosedStatus
  <2> QED BY <1>1, <1>2, <2>1, TicketRowKept DEF MarketTypes, CloseTicket, Closes, OtherTickets, o
<1>3. CASE ResolveWithRefund(t)
  <2>1. CloseTicket(t, "resolved_refund") /\ RefundOrder(o)
    BY <1>3 DEF ResolveWithRefund, o
  <2>2. SettledAs(o, "refunded", "refunded_to_buyer")
    BY <1>1, <2>1, SettleMarks
  <2> QED BY <1>2, <2>1, <2>2, RulingEnds DEF Rules, RulingStatus, o
<1>4. CASE ResolveWithRelease(t)
  <2>1. CloseTicket(t, "resolved_release") /\ ReleaseOrder(o)
    BY <1>4 DEF ResolveWithRelease, o
  <2>2. SettledAs(o, "released", "released_to_seller")
    BY <1>1, <2>1, SettleMarks
  <2> QED BY <1>2, <2>1, <2>2, RulingEnds DEF Rules, RulingStatus, o
<1>5. CASE ResolveWithSplit(t)
  <2>1. /\ CloseTicket(t, "resolved_split") /\ SetStatus(o, "released")
        /\ \E refund \in SplitRefunds(o) : SplitSettlement(o, refund)
    BY <1>5 DEF ResolveWithSplit, o
  <2>2. SettledAs(o, "released", "split")
    BY <1>1, <2>1 DEF SplitSettlement, SettleHold, SetStatus, SaleRows, SettledAs
  <2> QED BY <1>2, <2>1, <2>2, RulingEnds DEF Rules, RulingStatus, o
<1> QED
  BY <1>3, <1>4, <1>5

\* Every step of the market: a ticket opened, ruled on or cancelled with its order,
\* or no ticket written and each order moved one of the plain ways.
StepWays ==
    \/ UNCHANGED ticket /\ \A p \in Orders : PlainWay(p)
    \/ \E t \in Tickets : Opens(t) \/ Rules(t) \/ Cancels(t)

LEMMA MarketWays ==
    ASSUME MarketTypes, StatusInv, RowsStay, MarketStep
    PROVE  StepWays
<1>1. OnlyRead => StepWays
  BY OnlyReadStays DEF OnlyRead, StayPut, Untouched, PlainWay, StepWays
<1>2. ASSUME NEW o \in Orders, Ship(o) \/ ConfirmDelivery(o) \/ ClockStep(o) \/ PayOut(o)
      PROVE  StepWays
  BY <1>2, PlainOrderStep DEF StepWays
<1>3. ASSUME NEW d \in Desk, NEW o \in Orders,
             \/ Scan(d, o) \/ RequestRefundRead(d, o) \/ DecideRefundRead(d, o)
             \/ DisputeRead(d, o) \/ FinishDesk(d, o)
      PROVE  StepWays
  <2>1. CASE DisputeCommit(d, o)
    BY <2>1, TicketIsOpened DEF StepWays
  <2>2. CASE CancelDispute(d, o)
    BY <1>1, <2>2, TicketIsCancelled DEF StepWays
  <2>3. CASE ~DisputeCommit(d, o) /\ ~CancelDispute(d, o)
    BY <1>3, <2>3, PlainDesk DEF StepWays
  <2> QED BY <2>1, <2>2, <2>3
<1>4. ASSUME NEW t \in Tickets,
             ResolveWithRefund(t) \/ ResolveWithRelease(t) \/ ResolveWithSplit(t)
      PROVE  StepWays
  BY <1>4, TicketIsRuled DEF StepWays
<1>5. ASSUME NEW d \in Desk, NEW t \in Tickets, CancelDisputeRead(d, t)
      PROVE  StepWays
  BY <1>1, <1>5 DEF CancelDisputeRead
<1>6. ASSUME NEW d \in Desk, DeskCrash(d)
      PROVE  StepWays
  BY <1>6 DEF DeskCrash, UnchangedSale, escrowVars, Untouched, PlainWay, StepWays
<1> QED
  BY <1>2, <1>3, <1>4, <1>5, <1>6 DEF MarketStep

\* A step of the checkout moves orders that have no ticket and no handler yet.
LEMMA CheckoutWays ==
    ASSUME MarketTypes, StatusInv, CheckoutStep, NEW p \in Orders
    PROVE  /\ UNCHANGED <<ticket, desk, shipped>>
           /\ \/ Untouched(p)
              \/ /\ ~paidAt[p] /\ ~Settled(p)' /\ order'[p] \notin {"refunded", "disputed"}
<1>1. SaleRows
  BY TypedMarket
<1>2. UNCHANGED <<order, escrowVars>> => Untouched(p)
  BY DEF escrowVars, Untouched
<1>3. ASSUME NEW o \in Orders, CheckoutMove(o), p # o
      PROVE  Untouched(p)
  BY <1>1, <1>3, MovesAreOfOneOrder DEF Only, Untouched
<1>4. ASSUME CheckoutMove(p)
      PROVE  ~paidAt[p] /\ ~Settled(p)' /\ order'[p] \notin {"refunded", "disputed"}
  <2>1. ~paidAt[p] /\ hold[p] = "none"
    BY <1>1, <1>4 DEF CheckoutMove, StatusInv, PaidBothWays, HoldIsPaid, Unpaid
  <2>2. hold'[p] \in {"none", "held"}
    BY <1>1, <1>4, <2>1 DEF CheckoutMove, TakeCustody, escrowVars, SaleRows
  <2>3. order'[p] \in {"paid_held", "cancelled", "pending_payment"}
    BY <1>1, <1>4 DEF CheckoutMove, SaleRows
  <2> QED BY <2>1, <2>2, <2>3 DEF Settled, SettledStatus
<1> QED
  BY <1>2, <1>3, <1>4, CheckoutMoves DEF CheckoutStep, marketVars, StatusInv

\* A handler of a paid order starts with a read.
Starts(d) ==
    \E job \in MarketJobs \ {"dispute_checked", "release_settle"},
       o \in Orders, t \in Tickets \cup {Nothing} :
        /\ OnlyRead
        /\ desk'[d] = [job |-> job, order |-> o, ticket |-> t, seen |-> order[o]]

LEMMA StartsJob ==
    ASSUME NEW d \in Desk, Starts(d)
    PROVE  desk'[d].job \notin {"dispute_checked", "release_settle"}
BY DEF Starts

LEMMA ReadsStart ==
    ASSUME MarketTypes, StatusInv, RowsStay, NEW d \in Desk,
           \/ \E o \in Orders : \/ Scan(d, o) \/ RequestRefundRead(d, o)
                                \/ DecideRefundRead(d, o) \/ DisputeRead(d, o)
           \/ \E t \in Tickets : CancelDisputeRead(d, t)
    PROVE  Starts(d) /\ \A e \in Desk \ {d} : desk'[e] = desk[e]
<1>0. ASSUME NEW o \in Orders, order[o] \notin Unpaid
      PROVE  paidAt[o] /\ order[o] \in OrderStatus
  BY <1>0 DEF StatusInv, PaidBothWays, MarketTypes, TypeInv, SaleTypes, Unpaid
<1>1. ASSUME NEW o \in Orders,
             \/ Scan(d, o) \/ RequestRefundRead(d, o) \/ DecideRefundRead(d, o)
             \/ DisputeRead(d, o)
      PROVE  Starts(d) /\ \A e \in Desk \ {d} : desk'[e] = desk[e]
  <2>1. PICK job \in MarketJobs \ {"dispute_checked", "release_settle", "cancel_dispute"} :
           /\ Take(d, job, o, Nothing)
           /\ job \in {"dispute", "dispute_checked"} => order[o] \in CaseStatus
           /\ order[o] \notin Unpaid
           /\ OnlyRead
    BY <1>1 DEF Scan, AutoDeliverScan, AutoRefundScan, ReleaseScan, RequestRefundRead,
       DecideRefundRead, DisputeRead, IsWithinWindow, Unshipped, MarketJobs, CaseStatus, Unpaid
  <2>2. /\ desk'[d] = [job |-> job, order |-> o, ticket |-> Nothing, seen |-> order[o]]
        /\ \A e \in Desk \ {d} : desk'[e] = desk[e]
    BY <1>0, <2>1, TakeEffect DEF MarketTypes
  <2> QED BY <2>1, <2>2 DEF Starts
<1>2. ASSUME NEW t \in Tickets, CancelDisputeRead(d, t)
      PROVE  Starts(d) /\ \A e \in Desk \ {d} : desk'[e] = desk[e]
  <2> DEFINE o == ticket[t].order
  <2>1. /\ ticket[t].status = "open" /\ o \in Orders /\ paidAt[o]
        /\ Take(d, "cancel_dispute", o, t) /\ OnlyRead
        /\ "cancel_dispute" \in MarketJobs
    BY <1>2 DEF CancelDisputeRead, MarketTypes, TicketTypes, MarketJobs
  <2>2. order[o] \in OrderStatus
    BY <1>0, <2>1 DEF StatusInv, PaidBothWays
  <2> HIDE DEF o
  <2>3. /\ desk'[d] = [job |-> "cancel_dispute", order |-> o, ticket |-> t, seen |-> order[o]]
        /\ \A e \in Desk \ {d} : desk'[e] = desk[e]
    BY <2>1, <2>2, TakeEffect DEF MarketTypes, o
  <2> QED BY <2>1, <2>3 DEF Starts
<1> QED
  BY <1>1, <1>2

\* What a step makes of a handler's slot.
SlotWay(e) ==
    \/ desk'[e] = desk[e]
    \/ desk'[e].job = "idle"
    \/ Starts(e)
    \/ desk'[e].job = "dispute_checked"
    \/ desk'[e].job = "release_settle" /\ order'[desk'[e].order] = "released"

LEMMA SlotWays ==
    ASSUME MarketTypes, StatusInv, RowsStay, MarketStep, NEW e \in Desk
    PROVE  SlotWay(e)
<1>1. UNCHANGED desk => SlotWay(e)
  BY DEF SlotWay
<1>2. ASSUME NEW d \in Desk, Done(d)
      PROVE  SlotWay(e)
  BY <1>2, SlotOfDesk DEF SlotWay
<1>3. ASSUME NEW o \in Orders, Ship(o) \/ ConfirmDelivery(o) \/ ClockStep(o) \/ PayOut(o)
      PROVE  UNCHANGED desk
  BY <1>3 DEF Ship, ConfirmDelivery, ClockStep, WarrantyEnds, InspectionEnds, PayOut, marketVars
<1>4. ASSUME NEW t \in Tickets,
             ResolveWithRefund(t) \/ ResolveWithRelease(t) \/ ResolveWithSplit(t)
      PROVE  UNCHANGED desk
  BY <1>4 DEF ResolveWithRefund, ResolveWithRelease, ResolveWithSplit
<1>5. ASSUME NEW d \in Desk,
             \/ \E o \in Orders : \/ Scan(d, o) \/ RequestRefundRead(d, o)
                                  \/ DecideRefundRead(d, o) \/ DisputeRead(d, o)
             \/ \E t \in Tickets : CancelDisputeRead(d, t)
      PROVE  SlotWay(e)
  BY <1>5, ReadsStart DEF SlotWay
<1>6. ASSUME NEW d \in Desk, NEW o \in Orders, FinishDesk(d, o)
      PROVE  SlotWay(e)
  <2>1. \/ Done(d)
        \/ desk[d].job = "dispute" /\ GoOn(d, "dispute_checked")
        \/ /\ desk[d].job = "release" /\ desk[d].order = o
           /\ GoOn(d, "release_settle") /\ SetStatus(o, "released")
    BY <1>6 DEF FinishDesk, AutoDeliver, AutoRefund, ReleaseUpdate, ReleaseSettle, RequestRefund,
       ApproveRefund, RejectRefund, DisputeCheck, DisputeCommit, CancelDispute, Serving
  <2>2. CASE desk[d].job = "dispute" /\ GoOn(d, "dispute_checked")
    BY <2>2, GoOnEffect DEF MarketTypes, SlotWay
  <2>3. CASE /\ desk[d].job = "release" /\ desk[d].order = o
             /\ GoOn(d, "release_settle") /\ SetStatus(o, "released")
    <3>1. /\ desk'[d].job = "release_settle" /\ desk'[d].order = o
          /\ \A f \in Desk \ {d} : desk'[f] = desk[f]
      BY <2>3, GoOnEffect DEF MarketTypes
    <3>2. order'[o] = "released"
      BY <2>3, TypedMarket DEF SetStatus, SaleRows
    <3> QED BY <3>1, <3>2 DEF SlotWay
  <2> QED BY <1>2, <2>1, <2>2, <2>3
<1>7. ASSUME NEW d \in Desk, DeskCrash(d)
      PROVE  SlotWay(e)
  BY <1>2, <1>7 DEF DeskCrash
<1> QED
  BY <1>1, <1>3, <1>4, <1>5, <1>6, <1>7 DEF MarketStep

\* What became of an order that a ticket is about, or was, is on the ticket.
LEMMA RulingsStandStep ==
    ASSUME MarketTypes, StatusInv, RulingsStand, [MarketNext]_vars
    PROVE  RulingsStand'
<1>1. SaleRows /\ RowsStay
  BY TypedMarket, TicketStep
<1>2. \A t \in Tickets : Ruled(t) => /\ ticket[t].status \in RulingStatus
                                     /\ ticket[t].order \in Orders /\ paidAt[ticket[t].order]
                                     /\ Settled(ticket[t].order)
  BY RulingEnds DEF Ruled, MarketTypes, TicketTypes, RulingsStand, RulingStatus, Settled
<1>3. ASSUME UNCHANGED ticket,
             \A t \in Tickets : Ruled(t) => hold'[ticket[t].order] = hold[ticket[t].order]
      PROVE  RulingsStand'
  BY <1>3 DEF RulingsStand, Ruled
<1>4. CASE UNCHANGED vars
  BY <1>3, <1>4 DEF vars, checkoutVars, marketVars, escrowVars
<1>5. CASE CheckoutStep
  <2>1. UNCHANGED ticket
    BY <1>5 DEF CheckoutStep, marketVars
  <2>2. \A o \in Orders : paidAt[o] => hold'[o] = hold[o]
    BY <1>5, CheckoutWays DEF Untouched
  <2> QED BY <1>2, <1>3, <2>1, <2>2
<1>6. \A o \in Orders : Settled(o) => ~CanSettle(o)
  BY CanSettleOnce
<1>7. CASE UNCHANGED ticket /\ \A p \in Orders : PlainWay(p)
  <2>1. \A p \in Orders : Settled(p) => hold'[p] = hold[p]
    BY <1>6, <1>7 DEF PlainWay, Untouched, Marked, SettledAs
  <2> QED BY <1>2, <1>3, <1>7, <2>1
<1>8. ASSUME NEW t \in Tickets, Opens(t) \/ Cancels(t)
      PROVE  RulingsStand'
  <2>1. \A p \in Orders : hold'[p] = hold[p]
    BY <1>8 DEF Opens, Cancels, Closes, Only, Untouched, Marked
  <2>2. ~Ruled(t)'
    BY <1>8, RulingEnds DEF Opens, Cancels, Ruled, RulingStatus
  <2>3. \A u \in Tickets : Ruled(u)' => Ruled(u) /\ u # t /\ ticket'[u] = ticket[u]
    BY <1>8, <2>2 DEF Opens, Cancels, Closes, OtherTickets, Ruled
  <2> QED BY <1>2, <2>1, <2>3 DEF RulingsStand, Ruled
<1>9. ASSUME NEW t \in Tickets, Rules(t)
      PROVE  RulingsStand'
  <2> DEFINE o == ticket[t].order
  <2>1. /\ o \in Orders /\ ~Settled(o) /\ hold'[o] = Ruling(ticket'[t].status)
        /\ ticket'[t].order = o
        /\ \A p \in Orders \ {o} : hold'[p] = hold[p]
        /\ \A u \in Tickets \ {t} : ticket'[u] = ticket[u]
    BY <1>6, <1>9 DEF Rules, Closes, SettledAs, Only, OtherTickets
  <2>2. \A u \in Tickets \ {t} : Ruled(u)' => Ruled(u) /\ ticket[u].order # o
    BY <1>2, <2>1 DEF Ruled
  <2> QED BY <1>2, <2>1, <2>2 DEF RulingsStand, Ruled
<1> QED
  BY <1>1, <1>4, <1>5, <1>7, <1>8, <1>9, MarketWays DEF MarketNext, StepWays

\* A frozen order has a ticket that still freezes it: one whose cancellation, if
\* it is under way, has seen the order frozen and will restore it; or one whose
\* cancellation has "restored" the freeze of another.
Freezes(t) ==
    \/ /\ ticket[t].status = "open"
       /\ \A d \in Desk : desk[d].job = "cancel_dispute" /\ desk[d].ticket = t
                              => desk[d].seen = "disputed"
    \/ ticket[t].status = "cancelled" /\ ticket[t].at_open = "disputed"

FrozenInv ==
    \A o \in Orders :
        order[o] = "disputed" => \E t \in Tickets : ticket[t].order = o /\ Freezes(t)

\* A ticket that no step writes goes on freezing its order.
LEMMA FreezesOn ==
    ASSUME MarketTypes, StatusInv, RowsStay, DeskTypes', MarketStep,
           NEW t \in Tickets, Freezes(t), ticket'[t] = ticket[t],
           order[ticket[t].order] = "disputed"
    PROVE  Freezes(t)'
<1> SUFFICES ASSUME NEW d \in Desk, ticket[t].status = "open",
                    desk'[d].job = "cancel_dispute", desk'[d].ticket = t
             PROVE  desk'[d].seen = "disputed"
  BY DEF Freezes
<1>1. CASE desk'[d] = desk[d]
  BY <1>1 DEF Freezes
<1>2. CASE Starts(d)
  <2>1. desk'[d].seen = order[desk'[d].order]
    BY <1>2 DEF Starts
  <2>2. desk'[d].order = ticket[t].order
    BY DEF DeskTypes
  <2> QED BY <2>1, <2>2
<1> QED
  BY <1>1, <1>2, SlotWays DEF SlotWay

LEMMA FrozenInvStep ==
    ASSUME MarketTypes, StatusInv, FrozenInv, DeskTypes', [MarketNext]_vars
    PROVE  FrozenInv'
<1>1. SaleRows /\ RowsStay
  BY TypedMarket, TicketStep
<1>2. CASE UNCHANGED vars
  BY <1>2 DEF vars, checkoutVars, marketVars, FrozenInv, Freezes
<1>3. CASE CheckoutStep
  <2>1. UNCHANGED <<ticket, desk>> /\ \A o \in Orders : order'[o] = "disputed" => order[o] = "disputed"
    BY <1>3, CheckoutWays DEF CheckoutStep, marketVars, Untouched
  <2> QED BY <2>1 DEF FrozenInv, Freezes
<1>4. CASE MarketStep
  <2> SUFFICES ASSUME NEW p \in Orders, order'[p] = "disputed"
               PROVE  \E t \in Tickets : ticket'[t].order = p /\ Freezes(t)'
    BY DEF FrozenInv
  <2>1. ASSUME order[p] = "disputed", NEW u \in Tickets, ticket[u].order = p, Freezes(u),
               ticket'[u] = ticket[u]
        PROVE  \E t \in Tickets : ticket'[t].order = p /\ Freezes(t)'
    BY <1>1, <1>4, <2>1, FreezesOn
  <2>2. order[p] = "disputed" => \E u \in Tickets : ticket[u].order = p /\ Freezes(u)
    BY DEF FrozenInv
  <2>3. CASE UNCHANGED ticket /\ \A o \in Orders : PlainWay(o)
    <3>1. order[p] = "disputed"
      BY <2>3 DEF PlainWay, Untouched, Marked, SettledAs
    <3> QED BY <2>1, <2>2, <2>3, <3>1
  <2>4. ASSUME NEW t \in Tickets, Opens(t)
        PROVE  \E u \in Tickets : ticket'[u].order = p /\ Freezes(u)'
    <3>1. CASE ticket'[t].order = p
      <4>1. \A d \in Desk : ~(desk'[d].job = "cancel_dispute" /\ desk'[d].ticket = t)
        <5> SUFFICES ASSUME NEW d \in Desk, desk'[d].job = "cancel_dispute", desk'[d].ticket = t
                     PROVE  FALSE
          OBVIOUS
        <5>1. ticket[t].status = "none" /\ ticket'[t] # ticket[t]
          BY <2>4 DEF Opens
        <5>2. ~Starts(d)
          BY <5>1 DEF Starts, OnlyRead
        <5>3. desk[d].job = "cancel_dispute" /\ desk[d].ticket = t
          BY <1>1, <1>4, <5>2, SlotWays DEF SlotWay
        <5> QED BY <5>1, <5>3 DEF MarketTypes, DeskTypes
      <4> QED BY <2>4, <3>1, <4>1 DEF Opens, Freezes
    <3>2. CASE ticket'[t].order # p
      <4>1. order[p] = "disputed"
        BY <2>4, <3>2 DEF Opens, Only
      <4>2. PICK u \in Tickets : ticket[u].order = p /\ Freezes(u)
        BY <2>2, <4>1
      <4>3. u # t
        BY <2>4, <4>2 DEF Opens, Freezes
      <4> QED BY <2>1, <2>4, <4>1, <4>2, <4>3 DEF Opens, OtherTickets
    <3> QED BY <3>1, <3>2
  <2>5. ASSUME NEW t \in Tickets, Closes(t), order[p] = "disputed",
               ticket[t].order = p => ticket'[t].status = "cancelled" /\ ~Freezes(t)
        PROVE  \E u \in Tickets : ticket'[u].order = p /\ Freezes(u)'
    <3>1. PICK u \in Tickets : ticket[u].order = p /\ Freezes(u)
      BY <2>2, <2>5
    <3>2. u # t
      BY <2>5, <3>1
    <3> QED BY <2>1, <2>5, <3>1, <3>2 DEF Closes, OtherTickets
  <2>6. ASSUME NEW t \in Tickets, Rules(t)
        PROVE  \E u \in Tickets : ticket'[u].order = p /\ Freezes(u)'
    <3>1. ticket[t].order # p /\ order[p] = "disputed"
      BY <2>6 DEF Rules, Closes, SettledAs, Only
    <3> QED BY <2>5, <2>6, <3>1 DEF Rules
  <2>7. ASSUME NEW t \in Tickets, Cancels(t)
        PROVE  \E u \in Tickets : ticket'[u].order = p /\ Freezes(u)'
    <3>1. CASE ticket[t].order # p
      <4>1. order[p] = "disputed"
        BY <2>7, <3>1 DEF Cancels, Closes, Only
      <4> QED BY <2>5, <2>7, <3>1, <4>1 DEF Cancels
    <3>2. CASE ticket[t].order = p
      <4>1. PICK d \in Desk :
               /\ desk[d].job = "cancel_dispute" /\ desk[d].ticket = t
               /\ Marked(p, IF desk[d].seen = "disputed" THEN ticket[t].at_open ELSE order[p])
        BY <2>7, <3>2 DEF Cancels
      <4>2. CASE desk[d].seen = "disputed"
        <5>1. ticket'[t].at_open = "disputed" /\ ticket'[t].status = "cancelled" /\ ticket'[t].order = p
          BY <2>7, <3>2, <4>1, <4>2 DEF Cancels, Closes, Marked
        <5> QED BY <5>1 DEF Freezes
      <4>3. CASE desk[d].seen # "disputed"
        <5>1. order[p] = "disputed"
          BY <4>1, <4>3 DEF Marked
        <5>2. ~Freezes(t)
          BY <2>7, <4>1, <4>3 DEF Cancels, Closes, Freezes
        <5> QED BY <2>5, <2>7, <5>1, <5>2 DEF Cancels
      <4> QED BY <4>2, <4>3
    <3> QED BY <3>1, <3>2
  <2> QED BY <1>1, <1>4, <2>3, <2>4, <2>6, <2>7, MarketWays DEF StepWays
<1> QED
  BY <1>2, <1>3, <1>4 DEF MarketNext

\* An order without a dispute whose money has moved, or is about to, is marked so.
WalletInv ==
    \A o \in Orders :
        ~EverDisputed(o) /\ (Settled(o) \/ Serves("release_settle", o))
            => order[o] \in {"released", "refunded"}

LEMMA WalletInvStep ==
    ASSUME MarketTypes, StatusInv, WalletInv, DeskTypes', [MarketNext]_vars
    PROVE  WalletInv'
<1> USE DEF WalletInv
<1>1. SaleRows /\ RowsStay
  BY TypedMarket, TicketStep
<1>2. \A o \in Orders : EverDisputed(o) => EverDisputed(o)'
  BY <1>1 DEF RowsStay, EverDisputed
<1>3. CASE UNCHANGED vars
  BY <1>3 DEF vars, checkoutVars, marketVars, escrowVars, EverDisputed, Settled, Serves, Serving
<1> SUFFICES ASSUME NEW p \in Orders, ~EverDisputed(p), ~EverDisputed(p)',
                    CheckoutStep \/ MarketStep,
                    Settled(p)' \/ Serves("release_settle", p)'
             PROVE  order'[p] \in {"released", "refunded"}
  BY <1>2, <1>3 DEF MarketNext
<1>4. CASE CheckoutStep
  <2>1. Serves("release_settle", p)' => Serves("release_settle", p) /\ paidAt[p]
    BY <1>4, CheckoutWays DEF Serves, Serving, MarketTypes, DeskTypes
  <2> QED BY <1>4, <2>1, CheckoutWays DEF Untouched, Settled
<1>5. CASE MarketStep
  <2>1. Serves("release_settle", p)' => Serves("release_settle", p) \/ order'[p] = "released"
    <3>1. ASSUME NEW d \in Desk, desk'[d].job = "release_settle"
          PROVE  desk'[d] = desk[d] \/ order'[desk'[d].order] = "released"
      <4>1. SlotWay(d)
        BY <1>1, <1>5, SlotWays
      <4>2. ~Starts(d)
        BY <3>1, StartsJob
      <4> QED BY <3>1, <4>1, <4>2 DEF SlotWay
    <3> QED BY <3>1 DEF Serves, Serving
  <2>2. CASE Untouched(p)
    BY <2>1, <2>2 DEF Untouched, Settled
  <2>3. CASE PlainWay(p)
    <3>1. Finishes("release_settle", p) => Serves("release_settle", p)
      BY DEF Finishes, Serves
    <3>2. CASE \E s : Marked(p, s)
      BY <2>1, <2>3, <3>1, <3>2 DEF PlainWay, Untouched, Marked, SettledAs, Settled
    <3>3. CASE \E s, h : SettledAs(p, s, h)
      BY <2>1, <2>3, <3>1, <3>3 DEF PlainWay, Untouched, Marked, SettledAs, Settled
    <3> QED BY <2>2, <2>3, <3>2, <3>3 DEF PlainWay
  <2>4. ASSUME NEW t \in Tickets, Opens(t) \/ Rules(t) \/ Cancels(t)
        PROVE  Untouched(p)
    <3>1. ticket'[t].order # p
      BY <2>4 DEF Opens, Rules, Cancels, Closes, RulingStatus, EverDisputed
    <3> QED BY <2>4, <3>1 DEF Opens, Rules, Cancels, Closes, Only, Untouched
  <2> QED BY <1>1, <1>5, <2>2, <2>3, <2>4, MarketWays DEF StepWays
<1> QED
  BY <1>4, <1>5

\* A shipped order is paid; only a cancelled dispute of before the shipping makes it
\* look as if it had not been shipped.
ReopenedBy(t, o) ==
    ticket[t].order = o /\ ticket[t].status = "cancelled" /\ ticket[t].at_open = "paid_held"

ShippedInv ==
    \A o \in Orders :
        shipped[o] => /\ paidAt[o]
                      /\ order[o] = "paid_held" => \E t \in Tickets : ReopenedBy(t, o)

LEMMA ShippedWays ==
    ASSUME MarketTypes, StatusInv, MarketStep, NEW p \in Orders, shipped'[p]
    PROVE  shipped[p] \/ (paidAt[p] /\ order'[p] = "shipped")
<1>1. UnchangedClocks \/ OnlyRead => UNCHANGED shipped
  BY DEF UnchangedClocks, OnlyRead
<1>2. ASSUME NEW o \in Orders, Ship(o)
      PROVE  shipped[p] \/ (paidAt[p] /\ order'[p] = "shipped")
  <2>1. p # o => shipped'[p] = shipped[p]
    BY <1>2, TypedMarket DEF Ship
  <2>2. paidAt[o] /\ order'[o] = "shipped"
    BY <1>2, TypedMarket DEF Ship, SetStatus, SaleRows, StatusInv, PaidBothWays, Unpaid
  <2> QED BY <2>1, <2>2
<1>3. ASSUME NEW o \in Orders, MarkDelivered(o) \/ ClockStep(o) \/ PayOut(o)
      PROVE  UNCHANGED shipped
  BY <1>3 DEF MarkDelivered, ClockStep, WarrantyEnds, InspectionEnds, PayOut, marketVars
<1>4. ASSUME NEW d \in Desk, NEW o \in Orders,
             \/ Scan(d, o) \/ RequestRefundRead(d, o) \/ DecideRefundRead(d, o)
             \/ DisputeRead(d, o) \/ FinishDesk(d, o)
      PROVE  UNCHANGED shipped
  BY <1>1, <1>3, <1>4 DEF Scan, AutoDeliverScan, AutoRefundScan, ReleaseScan, RequestRefundRead,
     DecideRefundRead, DisputeRead, FinishDesk, AutoDeliver, AutoRefund, RefundOrder, ReleaseOrder,
     ReleaseUpdate, ReleaseSettle, RequestRefund, ApproveRefund, RejectRefund, DisputeCheck,
     DisputeCommit, CancelDispute
<1>5. ASSUME NEW t \in Tickets,
             \/ ResolveWithRefund(t) \/ ResolveWithRelease(t) \/ ResolveWithSplit(t)
             \/ \E d \in Desk : CancelDisputeRead(d, t)
      PROVE  UNCHANGED shipped
  BY <1>1, <1>5 DEF ResolveWithRefund, ResolveWithRelease, ResolveWithSplit, CancelDisputeRead,
     RefundOrder, ReleaseOrder
<1>6. ASSUME NEW d \in Desk, DeskCrash(d)
      PROVE  UNCHANGED shipped
  BY <1>1, <1>6 DEF DeskCrash
<1> QED
  BY <1>2, <1>3, <1>4, <1>5, <1>6 DEF MarketStep, ConfirmDelivery

LEMMA ShippedInvStep ==
    ASSUME MarketTypes, StatusInv, ShippedInv, [MarketNext]_vars
    PROVE  ShippedInv'
<1>1. SaleRows /\ RowsStay
  BY TypedMarket, TicketStep
<1>2. CASE UNCHANGED vars
  BY <1>2 DEF vars, checkoutVars, marketVars, escrowVars, ShippedInv, ReopenedBy
<1> SUFFICES ASSUME NEW p \in Orders, shipped'[p], CheckoutStep \/ MarketStep
             PROVE  /\ paidAt'[p]
                    /\ order'[p] = "paid_held" => \E t \in Tickets : ReopenedBy(t, p)'
  BY <1>2 DEF ShippedInv, MarketNext
<1>3. CASE CheckoutStep
  <2>1. UNCHANGED <<ticket, shipped>>
    BY <1>3 DEF CheckoutStep, marketVars
  <2>2. paidAt[p] /\ paidAt'[p]
    BY <1>1, <2>1 DEF RowsStay, ShippedInv
  <2>3. Untouched(p)
    BY <1>3, <2>2, CheckoutWays
  <2> QED BY <2>1, <2>2, <2>3 DEF Untouched, ShippedInv, ReopenedBy
<1>4. CASE MarketStep
  <2>1. /\ paidAt'[p]
        /\ order'[p] # "shipped" => shipped[p]
    BY <1>1, <1>4, ShippedWays DEF RowsStay, ShippedInv
  <2>2. ASSUME order'[p] = "paid_held", order[p] = "paid_held",
               \A t \in Tickets : ReopenedBy(t, p) => ticket'[t] = ticket[t]
        PROVE  \E t \in Tickets : ReopenedBy(t, p)'
    <3>1. PICK t \in Tickets : ReopenedBy(t, p)
      BY <2>1, <2>2 DEF ShippedInv
    <3> QED BY <2>2, <3>1 DEF ReopenedBy
  <2>3. CASE UNCHANGED ticket /\ PlainWay(p)
    BY <2>1, <2>2, <2>3 DEF PlainWay, Untouched, Marked, SettledAs
  <2>4. ASSUME NEW t \in Tickets, Opens(t) \/ Rules(t) \/ Cancels(t)
        PROVE  order'[p] = "paid_held" => \E u \in Tickets : ReopenedBy(u, p)'
    <3>1. \A u \in Tickets : ReopenedBy(u, p) => ticket'[u] = ticket[u]
      BY <2>4 DEF Opens, Rules, Cancels, Closes, OtherTickets, ReopenedBy
    <3>2. CASE order[p] = "paid_held"
      BY <2>2, <3>1, <3>2
    <3>3. CASE order[p] # "paid_held" /\ order'[p] = "paid_held"
      <4>1. Cancels(t) /\ ticket[t].order = p
        BY <2>4, <3>3 DEF Opens, Rules, Cancels, Closes, SettledAs, Only, Untouched, Marked
      <4>2. ticket[t].at_open = "paid_held"
        BY <3>3, <4>1 DEF Cancels, Marked
      <4>3. ReopenedBy(t, p)'
        BY <4>1, <4>2 DEF Cancels, Closes, ReopenedBy
      <4> QED BY <4>3
    <3> QED BY <3>2, <3>3
  <2> QED BY <1>1, <1>4, <2>1, <2>3, <2>4, MarketWays DEF StepWays
<1> QED
  BY <1>3, <1>4

DisputeInv == RulingsStand /\ FrozenInv /\ WalletInv /\ ShippedInv

LEMMA DisputesHold == MarketSpec => []DisputeInv
<1>1. MarketInit => DisputeInv
  <2> SUFFICES ASSUME MarketInit PROVE DisputeInv
    OBVIOUS
  <2>1. /\ \A o \in Orders : order[o] = "none" /\ hold[o] = "none" /\ ~shipped[o]
        /\ \A t \in Tickets : ticket[t].status = "none"
        /\ \A d \in Desk : desk[d].job = "idle"
    BY DEF MarketInit, CheckoutInit, EscrowInit, NoTicket, IdleDesk
  <2>2. RulingsStand
    BY <2>1, RulingEnds DEF RulingsStand, Ruled, RulingStatus
  <2> QED BY <2>1, <2>2 DEF DisputeInv, FrozenInv, WalletInv, ShippedInv, Settled, SettledStatus,
     Serves, Serving
<1>2. MarketTypes /\ StatusInv /\ DisputeInv /\ MarketTypes' /\ [MarketNext]_vars => DisputeInv'
  BY RulingsStandStep, FrozenInvStep, WalletInvStep, ShippedInvStep DEF DisputeInv, MarketTypes
<1> QED
  BY <1>1, <1>2, StatusHolds, PTL DEF MarketSpec

\* No shipment, delivery, deadline or sweep moves a frozen order or its money,
\* however long before the freeze it had looked at the order.
THEOREM FreezeHolds == MarketSpec => FrozenUntilDecided
<1> DEFINE Decided ==
        \A o \in Orders :
          order[o] = "disputed" /\ (order'[o] # order[o] \/ hold'[o] # hold[o]) =>
              \/ \E t \in Tickets : /\ ticket[t].order = o /\ ticket[t].status = "open"
                                    /\ ticket'[t].status # "open"
              \/ Finishes("refund_approve", o) \/ Finishes("refund_reject", o)
              \/ Finishes("release_settle", o)
<1>1. MarketTypes /\ StatusInv /\ [MarketNext]_vars => [Decided]_vars
  <2> SUFFICES ASSUME MarketTypes, StatusInv, MarketNext,
                      NEW o \in Orders, order[o] = "disputed", ~Untouched(o)
               PROVE  \/ \E t \in Tickets : /\ ticket[t].order = o /\ ticket[t].status = "open"
                                            /\ ticket'[t].status # "open"
                      \/ Finishes("refund_approve", o) \/ Finishes("refund_reject", o)
                      \/ Finishes("release_settle", o)
    BY DEF Untouched
  <2>1. ~CheckoutStep
    <3>1. paidAt[o]
      BY DEF StatusInv, PaidBothWays, Unpaid
    <3> QED BY <3>1, CheckoutWays
  <2>2. StepWays
    BY <2>1, MarketWays, TicketStep DEF MarketNext
  <2>3. CASE PlainWay(o)
    BY <2>3 DEF PlainWay, Untouched, Marked, SettledAs
  <2>4. ASSUME NEW t \in Tickets, Opens(t)
        PROVE  FALSE
    BY <2>4 DEF Opens, Only, Untouched, Marked
  <2>5. ASSUME NEW t \in Tickets, Rules(t) \/ Cancels(t)
        PROVE  ticket[t].order = o /\ ticket[t].status = "open" /\ ticket'[t].status # "open"
    BY <2>5 DEF Rules, Cancels, Closes, RulingStatus, Only, Untouched
  <2> QED BY <2>2, <2>3, <2>4, <2>5 DEF StepWays
<1> QED
  BY <1>1, StatusHolds, PTL DEF MarketSpec, FrozenUntilDecided

\* However many tickets overlapping requests open on one order, at most one of
\* them is ruled on and its ruling is where the money went; and an order that is
\* frozen has a ticket left to unfreeze it, but for the case the property names.
THEOREM TicketsAreDecisive == MarketSpec => []TicketsDecide
<1>1. DisputeInv => TicketsDecide
  BY DEF DisputeInv, TicketsDecide, FrozenInv, Freezes, FrozenHasTicket, OpenTicketOn
<1> QED
  BY <1>1, DisputesHold, PTL

\* Whatever sweeps, refund requests and decisions overlap, or die, the wallet
\* never shows a sale as "in escrow" that already has a payout row, unless the
\* order has been disputed.
THEOREM WalletCountsOnce == MarketSpec => []WalletNeverCountsTwice
<1>1. MarketTypes /\ StatusInv /\ EscrowInv /\ DisputeInv => WalletNeverCountsTwice
  <2> SUFFICES ASSUME MarketTypes, StatusInv, EscrowInv, DisputeInv,
                      NEW o \in Orders, order[o] \in EscrowStatus, ~EverDisputed(o)
               PROVE  paidAt[o] /\ \A k \in PayoutKinds : payout[o][k].status = "none"
    BY DEF WalletNeverCountsTwice
  <2>1. paidAt[o] /\ ~Settled(o)
    BY DEF StatusInv, PaidBothWays, Unpaid, EscrowStatus, DisputeInv, WalletInv
  <2>2. \A k \in PayoutKinds : settlement[o][k] = 0
    BY <2>1, NothingSharedYet DEF Shares
  <2> QED BY <2>1, <2>2 DEF EscrowInv, PayoutsMatchSettlement
<1> QED
  BY <1>1, StatusHolds, EscrowHolds, DisputesHold, PTL

\* However sweeps, shipments and disputes overlap: a shipped part is refunded by
\* an admin's decision, or by the sweep after a dispute of before the shipping
\* was cancelled, and in no other way.
THEOREM ShippedRefundsHaveCause == MarketSpec => ShippedRefundHasCause
<1> DEFINE Caused ==
        \A o \in Orders :
          shipped[o] /\ order[o] # "refunded" /\ order'[o] = "refunded" =>
              \/ Finishes("refund_approve", o)
              \/ \E t \in Tickets :
                    /\ ticket[t].order = o
                    /\ \/ ticket[t].status = "open" /\ ticket'[t].status = "resolved_refund"
                       \/ ticket[t].status = "cancelled" /\ ticket[t].at_open = "paid_held"
<1>1. MarketTypes /\ StatusInv /\ DisputeInv /\ [MarketNext]_vars => [Caused]_vars
  <2> SUFFICES ASSUME MarketTypes, StatusInv, DisputeInv, MarketNext, NEW o \in Orders,
                      shipped[o], order[o] # "refunded", order'[o] = "refunded"
               PROVE  \/ Finishes("refund_approve", o)
                      \/ \E t \in Tickets :
                            /\ ticket[t].order = o
                            /\ \/ /\ ticket[t].status = "open"
                                  /\ ticket'[t].status = "resolved_refund"
                               \/ ticket[t].status = "cancelled" /\ ticket[t].at_open = "paid_held"
    OBVIOUS
  <2>1. ~CheckoutStep
    BY CheckoutWays DEF Untouched
  <2>2. StepWays
    BY <2>1, MarketWays, TicketStep DEF MarketNext
  <2>3. order[o] = "paid_held" => \E t \in Tickets : ReopenedBy(t, o)
    BY DEF DisputeInv, ShippedInv
  <2>4. CASE PlainWay(o)
    BY <2>3, <2>4 DEF PlainWay, Untouched, Marked, SettledAs, ReopenedBy
  <2>5. ASSUME NEW t \in Tickets, Opens(t)
        PROVE  FALSE
    BY <2>5 DEF Opens, Only, Untouched, Marked
  <2>6. ASSUME NEW t \in Tickets, Rules(t)
        PROVE  /\ ticket[t].order = o /\ ticket[t].status = "open"
               /\ ticket'[t].status = "resolved_refund"
    BY <2>6 DEF Rules, Closes, SettledAs, Only
  <2>7. ASSUME NEW t \in Tickets, Cancels(t)
        PROVE  FALSE
    <3>1. ticket[t].at_open \in CaseStatus
      BY <2>7 DEF Cancels, Closes, MarketTypes, TicketTypes
    <3> QED BY <2>7, <3>1 DEF Cancels, Closes, Only, Marked, CaseStatus
  <2> QED BY <2>2, <2>4, <2>5, <2>6, <2>7 DEF StepWays
<1> QED
  BY <1>1, StatusHolds, DisputesHold, PTL DEF MarketSpec, ShippedRefundHasCause

-----------------------------------------------------------------------------
(* The checkout while paid orders move on                                  *)

\* What a handler of a paid order leaves of the checkout.
LEMMA CheckoutUntouched ==
    ASSUME MarketTypes, StatusInv, MarketStep
    PROVE  /\ UNCHANGED <<receipt, gateway, outcome, answered, flagged, req, paidAt>>
           /\ \A o \in Orders : \A s \in Unpaid : order'[o] = s <=> order[o] = s
<1>1. UNCHANGED <<receipt, gateway, outcome, answered, flagged, req>>
  BY MarketFrame
<1>2. \A o \in Orders : \A s \in Unpaid : order'[o] = s <=> order[o] = s
  BY TypedMarket, MarketMoves
     DEF StatusInv, PaidBothWays, StayPut, MarketMove, CaseStatus, Unpaid, SaleRows
<1>3. UNCHANGED paidAt
  BY MarketMoves DEF StatusInv, StayPut, MarketMove
<1> QED
  BY <1>1, <1>2, <1>3

LEMMA ChannelInvInMarket ==
    ASSUME MarketTypes, StatusInv, ChannelInv, [MarketNext]_vars
    PROVE  ChannelInv'
<1>1. CASE CheckoutStep
  BY <1>1, ChannelInvStep DEF CheckoutStep, MarketTypes
<1>2. CASE UNCHANGED vars
  BY <1>2, ChannelInvStep DEF vars, MarketTypes
<1>3. CASE MarketStep
  <2>1. /\ UNCHANGED <<receipt, gateway, outcome, flagged, req>>
        /\ \A o \in Orders : /\ order'[o] = "none" <=> order[o] = "none"
                             /\ order'[o] = "cancelled" <=> order[o] = "cancelled"
    BY <1>3, CheckoutUntouched DEF Unpaid
  <2>2. OneChannel' /\ FlaggedIsCancelled'
    BY <2>1 DEF ChannelInv, OneChannel, FlaggedIsCancelled
  <2>3. HandlersOnChannel'
    BY <2>1 DEF ChannelInv, HandlersOnChannel
  <2> QED BY <2>2, <2>3 DEF ChannelInv
<1> QED
  BY <1>1, <1>2, <1>3 DEF MarketNext

LEMMA ChannelInMarketHolds == MarketSpec => []ChannelInv
<1>1. MarketInit => ChannelInv
  BY ChannelInvInit DEF MarketInit
<1> QED
  BY <1>1, ChannelInvInMarket, StatusHolds, PTL DEF MarketSpec

\* In the whole market, whatever overlaps or dies: an order with money in escrow
\* never counts as unpaid, and no admin is asked to return what escrow took.
THEOREM NoPaymentLeftBehind ==
    MarketSpec => [](PaidOrderNeverDropped /\ ManualReturnNotInEscrow)
<1>1. StatusInv /\ ChannelInv => PaidOrderNeverDropped /\ ManualReturnNotInEscrow
  BY DEF StatusInv, PaidBothWays, Unpaid, ChannelInv, FlaggedIsCancelled, PaidOrderNeverDropped,
     ManualReturnNotInEscrow
<1> QED
  BY <1>1, StatusHolds, ChannelInMarketHolds, PTL

LEMMA SeenInMarket ==
    ASSUME MarketTypes, StatusInv, ChannelInv, ChannelInv', SeenInv, [MarketNext]_vars
    PROVE  SeenInv'
<1>1. TypeInv /\ RecordInv
  BY DEF MarketTypes, StatusInv, RecordInv
<1>2. CASE CheckoutStep
  BY <1>1, <1>2, SeenInvStep DEF CheckoutStep
<1>3. CASE UNCHANGED vars
  BY <1>1, <1>3, SeenInvStep DEF vars
<1>4. CASE MarketStep
  BY <1>4, CheckoutUntouched DEF SeenInv
<1> QED
  BY <1>2, <1>3, <1>4 DEF MarketNext

\* What loses a capture or a confirmation is still as in the checkout alone: the
\* handlers of paid orders write neither.
LEMMA RulesInMarket ==
    MarketSpec => [][\A o \in Orders : CaptureRule(o) /\ ReceiptRule(o)]_checkoutVars
<1> DEFINE KeepsRules == \A o \in Orders : CaptureRule(o) /\ ReceiptRule(o)
<1>1. MarketInit => SeenInv
  BY IdleType DEF MarketInit, CheckoutInit, SeenInv, Lookers
<1>2. /\ MarketTypes /\ StatusInv /\ ChannelInv /\ ChannelInv' /\ SeenInv /\ [MarketNext]_vars
      => SeenInv'
  BY SeenInMarket
<1>3. MarketTypes /\ StatusInv /\ ChannelInv /\ SeenInv /\ [MarketNext]_vars
      => [KeepsRules]_checkoutVars
  <2> SUFFICES ASSUME MarketTypes, StatusInv, ChannelInv, SeenInv, [MarketNext]_vars
               PROVE  [KeepsRules]_checkoutVars
    OBVIOUS
  <2>1. TypeInv /\ RecordInv
    BY DEF MarketTypes, StatusInv, RecordInv
  <2>2. CASE CheckoutStep
    BY <2>1, <2>2, RulesHold DEF CheckoutStep
  <2>3. CASE MarketStep
    <3>1. \A o \in Orders : /\ Lost(o)' <=> Lost(o)
                            /\ Unfunded(o)' <=> Unfunded(o)
                            /\ receipt'[o] = receipt[o]
      BY <2>3, CheckoutUntouched DEF Lost, Unfunded
    <3> QED BY <3>1 DEF CaptureRule, ReceiptRule
  <2>4. CASE UNCHANGED vars
    BY <2>4 DEF vars
  <2> QED BY <2>2, <2>3, <2>4 DEF MarketNext
<1> HIDE DEF KeepsRules
<1>4. MarketSpec => [][KeepsRules]_checkoutVars
  BY <1>1, <1>2, <1>3, StatusHolds, ChannelInMarketHolds, PTL DEF MarketSpec
<1> QED
  BY <1>4 DEF KeepsRules

\* In the whole market too: of all that shipping, disputes, settlements and sweeps
\* add, nothing loses a capture but a cancellation that beats mark_paid to the order.
THEOREM MarketLosesCapturesToOneRace == MarketSpec => CaptureLostOnlyToCancellation
<1> DEFINE KeepsRules == \A o \in Orders : CaptureRule(o) /\ ReceiptRule(o)
           Captures == \A o \in Orders :
              ~Lost(o) /\ Lost(o)' =>
                  /\ order[o] = "cancelled"
                  /\ \E w \in Web : /\ req[w].job = "callback_success" /\ req[w].target = o
                                  /\ req[w].seen = "pending_payment"
<1>1. [KeepsRules]_checkoutVars => [Captures]_checkoutVars
  BY DEF CaptureRule
<1>2. MarketSpec => [][KeepsRules]_checkoutVars
  BY RulesInMarket
<1> HIDE DEF KeepsRules, Captures
<1>3. MarketSpec => [][Captures]_checkoutVars
  BY <1>1, <1>2, PTL
<1> QED
  BY <1>3 DEF Captures, CaptureLostOnlyToCancellation

\* Likewise, whatever became of the orders since, a confirmed receipt is unfunded, or
\* its confirmation taken back, by the two races of the checkout and no other.
THEOREM MarketFailsReceiptsToTwoRaces == MarketSpec => ReceiptsFailOnlyByRaces
<1> DEFINE KeepsRules == \A o \in Orders : CaptureRule(o) /\ ReceiptRule(o)
           Receipts == \A o \in Orders :
              /\ ~Unfunded(o) /\ Unfunded(o)' =>
                    /\ order[o] = "cancelled"
                    /\ \E w \in Web : /\ req[w].job = "confirm_locked" /\ req[w].target = o
                                    /\ req[w].seen = "pending_payment"
              /\ receipt[o].status = "confirmed" /\ receipt'[o].status # "confirmed" =>
                    /\ \E w \in Web : /\ req[w].job = "reject" /\ req[w].target = o
                                    /\ req[w].seen # "confirmed"
                    /\ paidAt[o] => order'[o] = order[o]
<1>1. [KeepsRules]_checkoutVars => [Receipts]_checkoutVars
  BY DEF ReceiptRule
<1>2. MarketSpec => [][KeepsRules]_checkoutVars
  BY RulesInMarket
<1> HIDE DEF KeepsRules, Receipts
<1>3. MarketSpec => [][Receipts]_checkoutVars
  BY <1>1, <1>2, PTL
<1> QED
  BY <1>3 DEF Receipts, ReceiptsFailOnlyByRaces

-----------------------------------------------------------------------------
(* The marketplace keeps the promise of PartSale                           *)

LEMMA RefundedHoldStays ==
    ASSUME MarketTypes, StatusInv, MarketStep, NEW p \in Orders, hold[p] = "refunded_to_buyer"
    PROVE  hold'[p] = "refunded_to_buyer"
<1>1. ~CanSettle(p)
  BY CanSettleOnce DEF Settled, SettledStatus
<1>2. ASSUME NEW o \in Orders, MarketMove(o)
      PROVE  hold'[p] = hold[p]
  BY <1>1, <1>2, TypedMarket DEF MarketMove, Settles, SaleRows
<1> QED
  BY <1>2, MarketMoves DEF StatusInv, StayPut

\* The refund that withdraws a listing gives the money of a bought part back.
LEMMA WithdrawnIsReturned ==
    ASSUME MarketTypes, StatusInv, MarketStep, NEW o \in Orders,
           order[o] = "paid_held", order' = [order EXCEPT ![o] = "refunded"]
    PROVE  Only(o) /\ Bought(o) /\ hold'[o] = "refunded_to_buyer"
<1>1. SaleRows
  BY TypedMarket
<1>2. order'[o] = "refunded"
  BY <1>1 DEF SaleRows
<1>3. MarketMove(o) /\ Only(o)
  BY <1>1, <1>2, MarketMoves, MovesAreOfOneOrder DEF StatusInv, StayPut, Only
<1>4. CanSettle(o) /\ hold' = [hold EXCEPT ![o] = "refunded_to_buyer"]
  BY <1>1, <1>2, <1>3 DEF MarketMove, CaseStatus, Settles, SaleRows
<1>5. Bought(o)
  BY <1>4 DEF CanSettle, Bought, Unpaid
<1> QED
  BY <1>1, <1>3, <1>4, <1>5 DEF SaleRows

LEMMA CopySafeInMarket ==
    ASSUME Exclusive(StaleRows), MarketTypes, StatusInv, PartInv, CopySafe, [MarketNext]_vars
    PROVE  CopySafe'
<1>1. CASE CheckoutStep
  BY <1>1, CopySafeStep DEF CheckoutStep, MarketTypes
<1>2. CASE UNCHANGED vars
  BY <1>2, CopySafeStep DEF vars, MarketTypes
<1>3. CASE MarketStep
  <2>1. UNCHANGED <<gateway, req>>
    BY <1>3, MarketFrame
  <2>2. CopyIsAlone'
    BY <2>1 DEF CopySafe, CopyIsAlone, Free
  <2>3. CASE UNCHANGED listing
    BY <2>1, <2>2, <2>3 DEF CopySafe
  <2>4. ASSUME NEW o \in Orders,
               order[o] = "paid_held", order' = [order EXCEPT ![o] = "refunded"],
               listing' = [listing EXCEPT ![ListingOf[o]].status = "removed"]
        PROVE  CopySafe'
    <3>1. listing[ListingOf[o]].status = "sold"
      BY <1>3, <2>4, WithdrawnIsReturned DEF PartInv
    <3>2. \A l \in Listings : listing'[l].status = IF l = ListingOf[o] THEN "removed"
                                                                       ELSE listing[l].status
      <4>1. listing[ListingOf[o]] \in ListingRow
        BY OwnerListed DEF MarketTypes, TypeInv, SaleTypes
      <4> QED BY <2>4, <4>1 DEF MarketTypes, TypeInv, SaleTypes, ListingRow
    <3>3. ASSUME NEW w \in Slots, req[w].job \in StaleRows
          PROVE  \/ req[w].row.status = listing'[req[w].target].status
                 \/ req[w].row.status = "sold" /\ listing'[req[w].target].status = "removed"
      <4>1. req[w].target \in Listings
        BY <3>3 DEF CopySafe, CopyIsAlone
      <4>2. \/ req[w].row.status = listing[req[w].target].status
            \/ req[w].row.status = "sold" /\ listing[req[w].target].status = "removed"
        BY <3>3 DEF CopySafe
      <4> QED BY <3>1, <3>2, <4>1, <4>2
    <3> QED BY <2>1, <2>2, <3>3 DEF CopySafe
  <2> QED BY <1>3, <2>3, <2>4, ListingStays
<1> QED
  BY <1>1, <1>2, <1>3 DEF MarketNext

LEMMA PartInvInMarket ==
    ASSUME MarketTypes, StatusInv, CopySafe, PartInv, [MarketNext]_vars
    PROVE  PartInv'
<1>1. CASE CheckoutStep
  BY <1>1, PartInvStep DEF CheckoutStep, MarketTypes
<1>2. CASE UNCHANGED vars
  BY <1>2, PartInvStep DEF vars, MarketTypes
<1>3. CASE MarketStep /\ UNCHANGED listing
  <2>1. \A p \in Orders : /\ order'[p] = "pending_payment" <=> order[p] = "pending_payment"
                          /\ Bought(p)' => Bought(p)
    BY <1>3, CheckoutUntouched, RefundedHoldStays DEF Bought, Unpaid
  <2> QED BY <1>3, <2>1 DEF PartInv, OneOwner, Owns
<1>4. ASSUME MarketStep, NEW o \in Orders,
             order[o] = "paid_held", order' = [order EXCEPT ![o] = "refunded"],
             listing' = [listing EXCEPT ![ListingOf[o]].status = "removed"]
      PROVE  PartInv'
  <2>1. Only(o) /\ Bought(o) /\ hold'[o] = "refunded_to_buyer"
    BY <1>4, WithdrawnIsReturned
  <2>2. \A p \in Orders \ {o} : ListingOf[p] = ListingOf[o] => ~Owns(p)
    BY <2>1 DEF PartInv, OneOwner, Owns
  <2>3. \A l \in Listings : listing'[l].status = IF l = ListingOf[o] THEN "removed"
                                                                     ELSE listing[l].status
    <3>1. listing[ListingOf[o]] \in ListingRow
      BY OwnerListed DEF MarketTypes, TypeInv, SaleTypes
    <3> QED BY <1>4, <3>1 DEF MarketTypes, TypeInv, SaleTypes, ListingRow
  <2>4. order'[o] = "refunded" /\ ~Bought(o)'
    BY <1>4, <2>1, TypedMarket DEF SaleRows, Bought
  <2> QED BY <2>1, <2>2, <2>3, <2>4, OwnerMoves
<1> QED
  BY <1>1, <1>2, <1>3, <1>4, ListingStays DEF MarketNext

\* A handler of a paid order leaves the deals alone, or returns one.
LEMMA MarketReturns ==
    ASSUME MarketTypes, StatusInv, MarketStep
    PROVE  [Sale!PartSaleNext]_(Sale!saleVars)
<1>1. SaleRows
  BY TypedMarket
<1>2. CASE StayPut
  BY <1>2 DEF StayPut, DealOf, Sale!saleVars
<1>3. ASSUME NEW o \in Orders, MarketMove(o)
      PROVE  [Sale!PartSaleNext]_(Sale!saleVars)
  <2> DEFINE deal == [p \in Orders |-> DealOf(p)]
  <2>1. deal' = [deal EXCEPT ![o] = DealOf(o)'] /\ deal[o] = DealOf(o)
    BY <1>1, <1>3, MovesAreOfOneOrder, DealMoves
  <2>2. order[o] \notin Unpaid /\ order'[o] \notin Unpaid
    BY <1>3, <1>1, MarketMoveKeeps
       DEF StatusInv, RefundsInv, PaidBothWays, MarketMove
  <2>3. /\ DealOf(o) = IF hold[o] = "refunded_to_buyer" THEN "returned" ELSE "bought"
        /\ DealOf(o)' = IF hold'[o] = "refunded_to_buyer" THEN "returned" ELSE "bought"
    BY <2>2 DEF DealOf, Unpaid
  <2>4. \/ hold'[o] = hold[o]
        \/ hold[o] # "refunded_to_buyer"
    BY <1>3 DEF MarketMove, Settles, CanSettle
  <2>5. CASE DealOf(o)' = DealOf(o)
    BY <2>1, <2>5 DEF Sale!saleVars
  <2>6. CASE DealOf(o) = "bought" /\ DealOf(o)' = "returned"
    <3>1. Sale!Return(o)
      BY <2>1, <2>6 DEF Sale!Return, Sale!Becomes
    <3> QED BY <3>1 DEF Sale!PartSaleNext
  <2> HIDE DEF deal
  <2> QED BY <2>3, <2>4, <2>5, <2>6
<1> QED
  BY <1>2, <1>3, MarketMoves DEF StatusInv

\* The whole marketplace implements PartSale, however the handlers of paid orders
\* and the requests of the checkout overlap, are disputed or die, provided the
\* admin's two requests on a listing overlap no other request of the checkout: a
\* part has one owner at a time, and a purchase ends only with the money back.
THEOREM MarketKeepsSale ==
    ASSUME Exclusive(StaleRows) PROVE MarketSpec => ImplementsPartSale
<1>1. MarketInit => CopySafe /\ PartInv /\ Sale!PartSaleInit
  BY SaleStarts DEF MarketInit
<1>2. MarketTypes /\ StatusInv /\ PartInv /\ CopySafe /\ [MarketNext]_vars => CopySafe'
  BY CopySafeInMarket
<1>3. MarketTypes /\ StatusInv /\ PartInv /\ CopySafe /\ [MarketNext]_vars => PartInv'
  BY PartInvInMarket
<1>4. MarketTypes /\ StatusInv /\ PartInv' /\ [MarketNext]_vars
      => [Sale!PartSaleNext]_(Sale!saleVars)
  <2> SUFFICES ASSUME MarketTypes, StatusInv, PartInv', [MarketNext]_vars
               PROVE  [Sale!PartSaleNext]_(Sale!saleVars)
    OBVIOUS
  <2>1. TypeInv /\ RecordInv /\ OneOwner'
    BY DEF MarketTypes, StatusInv, RecordInv, PartInv
  <2>2. CASE CheckoutStep
    BY <2>1, <2>2, CheckoutSells DEF CheckoutStep
  <2>3. CASE UNCHANGED vars
    BY <2>1, <2>3, CheckoutSells DEF vars
  <2> QED BY <2>2, <2>3, MarketReturns DEF MarketNext
<1> QED
  BY <1>1, <1>2, <1>3, <1>4, StatusHolds, PTL
     DEF MarketSpec, ImplementsPartSale, Sale!PartSaleSpec

\* So no two buyers ever have one part reserved or paid, in any overlap.
THEOREM MarketHasOneHolder ==
    ASSUME Exclusive(StaleRows) PROVE MarketSpec => []Sale!OneHolder
BY MarketKeepsSale, SaleHasOneHolder, PTL
=============================================================================
