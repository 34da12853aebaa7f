-------------------------------- MODULE Escrow --------------------------------
(***************************************************************************)
(* The money side of the parts marketplace: one EscrowHold per PartOrder   *)
(* (marketplace_b2b/services/escrow.py) and the MarketplacePayout rows a    *)
(* settlement queues (marketplace_b2b/services/payouts.py).                 *)
(*                                                                         *)
(* Every settlement runs in one database transaction that holds the row    *)
(* lock of the hold, so each is one action.  Amounts are in piastres: the  *)
(* code quantizes every amount to 0.01.                                    *)
(***************************************************************************)
EXTENDS Integers

CONSTANTS
    Orders,            \* the PartOrder rows
    AmountPaid,        \* PartOrder.amount_paid, frozen at checkout
    CommissionAmount   \* PartOrder.commission_amount, frozen at checkout

ASSUME AmountAssumption ==
    /\ AmountPaid \in [Orders -> Nat \ {0}]
    /\ CommissionAmount \in [Orders -> Nat]
    /\ \A o \in Orders : CommissionAmount[o] < AmountPaid[o]

VARIABLES
    paidAt,      \* PartOrder.paid_at is set
    hold,        \* EscrowHold.status, "none" while the row does not exist
    settlement,  \* how the hold was shared out
    payout       \* the MarketplacePayout row per order and kind

escrowVars == <<paidAt, hold, settlement, payout>>

PayoutKinds == {"seller_payout", "buyer_refund"}

Shares == PayoutKinds \cup {"commission"}

SettledStatus == {"released_to_seller", "refunded_to_buyer", "split"}

HoldStatus == {"none", "held"} \cup SettledStatus

PayoutRow == [status : {"none", "pending", "paid"}, amount : Nat]

Share(seller, buyer, commission) ==
    [s \in Shares |-> IF s = "seller_payout" THEN seller
                      ELSE IF s = "buyer_refund" THEN buyer
                      ELSE commission]

NoShare == Share(0, 0, 0)

NoPayout == [status |-> "none", amount |-> 0]

EscrowTypeOK ==
    /\ paidAt \in [Orders -> BOOLEAN]
    /\ hold \in [Orders -> HoldStatus]
    /\ settlement \in [Orders -> [Shares -> Nat]]
    /\ payout \in [Orders -> [PayoutKinds -> PayoutRow]]

EscrowInit ==
    /\ paidAt = [o \in Orders |-> FALSE]
    /\ hold = [o \in Orders |-> "none"]
    /\ settlement = [o \in Orders |-> NoShare]
    /\ payout = [o \in Orders |-> [k \in PayoutKinds |-> NoPayout]]

-----------------------------------------------------------------------------
(* Helpers                                                                 *)

Settled(o) == hold[o] \in SettledStatus

\* Mutant: a settled hold may be settled again.
CanSettleAgain(o) == paidAt[o]

\* Mutant: a hold whose creation failed is not recreated.
CanSettleNoHealing(o) == hold[o] = "held"

\* _hold_for_update: the locked hold, or the one recreated from paid_at when
\* place_hold had failed inside the payment callback; a hold already settled
\* is refused by the caller.
CanSettle(o) == hold[o] = "held" \/ (hold[o] = "none" /\ paidAt[o])

\* quantize gives the nearest piastre.  The rate it is applied to was itself
\* rounded to 28 digits, so an exact tie may fall on either side.
Nearest(n, d) ==
    {m \in {n \div d, n \div d + 1} : 2 * m * d - d <= 2 * n /\ 2 * n <= 2 * m * d + d}

ReleaseShare(o) ==
    Share(AmountPaid[o] - CommissionAmount[o], 0, CommissionAmount[o])

RefundShare(o) == Share(0, AmountPaid[o], 0)

\* The commission of a split applies to what the seller keeps.
SplitCommissions(o, refund) ==
    Nearest((AmountPaid[o] - refund) * CommissionAmount[o], AmountPaid[o])

\* Mutant: the seller is charged the commission of the full sale.
SplitShareFullCharge(o, refund, commission) ==
    Share(AmountPaid[o] - refund - CommissionAmount[o], refund, commission)

\* Mutant: no commission on a split.
SplitShareFree(o, refund, commission) == Share(AmountPaid[o] - refund, refund, 0)

SplitShare(o, refund, commission) ==
    Share(AmountPaid[o] - refund - commission, refund, commission)

SplitRefunds(o) == 1 .. (AmountPaid[o] - 1)

\* Mutant: only the seller's transfer is queued.
QueueForSellerOnly(o, share) ==
    payout' = [payout EXCEPT ![o]["seller_payout"] =
        IF share["seller_payout"] > 0
        THEN [status |-> "pending", amount |-> share["seller_payout"]] ELSE @]

\* queue_for_hold: one row per hold and kind (get_or_create), none for zero.
QueueForHold(o, share) ==
    payout' = [payout EXCEPT ![o] =
        [k \in PayoutKinds |->
            IF share[k] > 0 /\ payout[o][k].status = "none"
            THEN [status |-> "pending", amount |-> share[k]]
            ELSE payout[o][k]]]

SettleHold(o, status, share) ==
    /\ CanSettle(o)
    /\ hold' = [hold EXCEPT ![o] = status]
    /\ settlement' = [settlement EXCEPT ![o] = share]
    /\ QueueForHold(o, share)
    /\ UNCHANGED paidAt

-----------------------------------------------------------------------------
(* Operations                                                              *)

\* The custody part of mark_paid: paid_at, then place_hold, whose failure is
\* logged and swallowed (placed = FALSE).
TakeCustody(o, placed) ==
    /\ paidAt' = [paidAt EXCEPT ![o] = TRUE]
    /\ hold' = IF placed /\ hold[o] = "none"
               THEN [hold EXCEPT ![o] = "held"] ELSE hold
    /\ UNCHANGED <<settlement, payout>>

ReleaseToSeller(o) == SettleHold(o, "released_to_seller", ReleaseShare(o))

RefundToBuyer(o) == SettleHold(o, "refunded_to_buyer", RefundShare(o))

SplitSettlement(o, refund) ==
    /\ refund \in SplitRefunds(o)
    /\ \E commission \in SplitCommissions(o, refund) :
          SettleHold(o, "split", SplitShare(o, refund, commission))

\* Mutant: the status of the row is not checked.
MarkPayoutPaidUnchecked(o, k) ==
    /\ payout' = [payout EXCEPT ![o][k].status = "paid"]
    /\ UNCHANGED <<paidAt, hold, settlement>>

\* An admin records that the transfer was sent.
MarkPayoutPaid(o, k) ==
    /\ payout[o][k].status = "pending"
    /\ payout' = [payout EXCEPT ![o][k].status = "paid"]
    /\ UNCHANGED <<paidAt, hold, settlement>>

EscrowStep(o) ==
    \/ \E placed \in BOOLEAN : TakeCustody(o, placed)
    \/ ReleaseToSeller(o)
    \/ RefundToBuyer(o)
    \/ \E refund \in SplitRefunds(o) : SplitSettlement(o, refund)
    \/ \E k \in PayoutKinds : MarkPayoutPaid(o, k)

EscrowNext == \E o \in Orders : EscrowStep(o)

EscrowSpec == EscrowInit /\ [][EscrowNext]_escrowVars

-----------------------------------------------------------------------------
(* Properties                                                              *)

\* A settled hold is shared out to the piastre among seller, buyer and
\* platform; before settlement nothing is promised to anyone.  (The split
\* rounds the commission, so this is where a piastre could be lost.)
Conservation ==
    \A o \in Orders :
        settlement[o]["seller_payout"] + settlement[o]["buyer_refund"]
            + settlement[o]["commission"] = IF Settled(o) THEN AmountPaid[o] ELSE 0

\* The transfers the platform owes are exactly the positive shares of settled
\* holds, at the amount of the share: no settlement leaves a party without
\* its row and no row is owed without a settlement.
PayoutsMatchSettlement ==
    \A o \in Orders : \A k \in PayoutKinds :
        /\ payout[o][k].status # "none" <=> settlement[o][k] > 0
        /\ payout[o][k].amount = settlement[o][k]

\* Who gets what fits the name of the settlement: a released hold owes the
\* buyer nothing, a refunded one owes the seller and the platform nothing.
ShareFitsStatus ==
    \A o \in Orders :
        /\ hold[o] = "released_to_seller" => settlement[o]["buyer_refund"] = 0
        /\ hold[o] = "refunded_to_buyer" =>
              settlement[o]["seller_payout"] = 0 /\ settlement[o]["commission"] = 0

\* A partial refund never pays the seller, nor the platform, more than the
\* full release of the same order would.
SplitNeverBeatsRelease ==
    \A o \in Orders :
        hold[o] = "split" =>
            /\ settlement[o]["seller_payout"] <= ReleaseShare(o)["seller_payout"]
            /\ settlement[o]["commission"] <= CommissionAmount[o]

\* Once settled, a hold keeps its status and its shares, and a transfer that
\* was sent is never queued again: two settlements racing on the same order
\* cannot both take effect.
SettledForGood ==
    [][\A o \in Orders :
          /\ Settled(o) => hold'[o] = hold[o] /\ settlement'[o] = settlement[o]
          /\ \A k \in PayoutKinds :
                payout[o][k].status = "paid" => payout'[o][k] = payout[o][k]]_escrowVars

\* The inductive invariant behind the properties above.
EscrowInv ==
    /\ EscrowTypeOK
    /\ Conservation
    /\ PayoutsMatchSettlement
    /\ ShareFitsStatus
    /\ SplitNeverBeatsRelease

-----------------------------------------------------------------------------
(* Refinement: the escrow rows keep the promise of Custody.                *)

CustodyOf(o) ==
    IF hold[o] # "none" THEN hold[o] ELSE IF paidAt[o] THEN "held" ELSE "unpaid"

TransferredOf(o) == {k \in PayoutKinds : payout[o][k].status = "paid"}

Promise == INSTANCE Custody WITH
    custody <- [o \in Orders |-> CustodyOf(o)],
    transferred <- [o \in Orders |-> TransferredOf(o)]

\* Seen from outside, the hold and payout rows move the buyer's money in
\* once, out once, and transfer it only to the parties entitled to it.
ImplementsCustody == Promise!CustodySpec
=============================================================================
