----------------------------- MODULE EscrowProofs -----------------------------
(***************************************************************************)
(* What Escrow guarantees for every set of orders and every amount.        *)
(***************************************************************************)
EXTENDS Escrow, TLAPS

-----------------------------------------------------------------------------
(* Rounding                                                                *)

\* A product grows with its first factor.
LEMMA ProductMonotone ==
    ASSUME NEW x \in Int, NEW y \in Int, NEW d \in Nat, x <= y
    PROVE  x * d <= y * d
<1>1. (y - x) * d >= 0
  OBVIOUS
<1>2. (y - x) * d = y * d - x * d
  OBVIOUS
<1> QED
  BY <1>1, <1>2

\* Rounding stays between two whole piastre amounts that bound the exact
\* quotient.
LEMMA NearestBounds ==
    ASSUME NEW n \in Nat, NEW d \in Nat \ {0}, NEW lo \in Int, NEW hi \in Int,
           lo * d <= n, n <= hi * d, NEW m \in Nearest(n, d)
    PROVE  m \in Nat /\ lo <= m /\ m <= hi
<1> DEFINE q == n \div d
           r == n % d
<1>1. q \in Nat /\ r \in 0 .. (d - 1) /\ n = d * q + r
  OBVIOUS
<1> HIDE DEF q, r
<1>2. m \in {q, q + 1} /\ 2 * m * d - d <= 2 * n
  BY DEF Nearest, q
<1>3. r = 0 => m = q
  <2> SUFFICES ASSUME r = 0, m = q + 1 PROVE FALSE
    BY <1>2
  <2>1. n = d * q /\ d * q \in Int
    BY <1>1
  <2>2. 2 * m * d = 2 * (d * q) + 2 * d
    BY <1>1
  <2> QED
    BY <1>2, <2>1, <2>2
<1>4. lo <= q
  <2> SUFFICES ASSUME q + 1 <= lo PROVE FALSE
    BY <1>1
  <2>1. (q + 1) * d <= lo * d
    BY <1>1, ProductMonotone
  <2>2. (q + 1) * d = d * q + d
    BY <1>1
  <2> QED
    BY <1>1, <2>1, <2>2
<1>5. q <= hi
  <2> SUFFICES ASSUME hi + 1 <= q PROVE FALSE
    BY <1>1
  <2>1. (hi + 1) * d <= q * d
    BY <1>1, ProductMonotone
  <2>2. (hi + 1) * d = hi * d + d /\ q * d = d * q
    BY <1>1
  <2> QED
    BY <1>1, <2>1, <2>2
<1>6. q = hi => r = 0
  <2> SUFFICES ASSUME q = hi PROVE r = 0
    OBVIOUS
  <2>1. d * q = hi * d
    BY <1>1
  <2> QED
    BY <1>1, <2>1
<1> QED
  BY <1>1, <1>2, <1>3, <1>4, <1>5, <1>6

\* The commission of a split: at most what the seller keeps, at most the
\* commission of a full sale, and no lower than that commission less the
\* refund.
LEMMA SplitCommission ==
    ASSUME NEW o \in Orders, NEW refund \in SplitRefunds(o),
           NEW commission \in SplitCommissions(o, refund)
    PROVE  LET kept == AmountPaid[o] - refund
           IN  /\ kept \in Nat
               /\ commission \in Nat
               /\ commission <= kept
               /\ commission <= CommissionAmount[o]
               /\ CommissionAmount[o] - refund <= commission
<1> DEFINE a == AmountPaid[o]
           c == CommissionAmount[o]
           kept == a - refund
<1>1. a \in Nat \ {0} /\ c \in Nat /\ c < a
  BY AmountAssumption
<1>2. refund \in 1 .. (a - 1)
  BY DEF SplitRefunds
<1> HIDE DEF a, c
<1>3. kept \in Nat /\ kept <= a
  BY <1>1, <1>2
<1>4. kept * c \in Nat
  BY <1>1, <1>3
<1>5. kept * c <= c * a
  <2>1. kept * c <= a * c
    BY <1>1, <1>3, ProductMonotone
  <2> QED
    BY <1>1, <2>1
<1>6. kept * c <= kept * a
  <2>1. c * kept <= a * kept
    BY <1>1, <1>3, ProductMonotone
  <2> QED
    BY <1>1, <1>3, <2>1
<1>7. (c - refund) * a <= kept * c
  <2>1. c * refund <= a * refund
    BY <1>1, <1>2, ProductMonotone
  <2>2. (c - refund) * a = c * a - a * refund
    BY <1>1, <1>2
  <2>3. kept * c = c * a - c * refund
    BY <1>1, <1>2
  <2>4. c * a \in Int /\ a * refund \in Int /\ c * refund \in Int
    BY <1>1, <1>2
  <2> QED
    BY <2>1, <2>2, <2>3, <2>4
<1>8. 0 * a <= kept * c
  BY <1>1, <1>4
<1>9. c - refund \in Int
  BY <1>1, <1>2
<1>a. commission \in Nearest(kept * c, a)
  BY DEF SplitCommissions, kept, c, a
<1> HIDE DEF kept
<1>10. commission \in Nat /\ c - refund <= commission /\ commission <= c
  BY <1>1, <1>4, <1>5, <1>7, <1>9, <1>a, NearestBounds
<1>11. commission <= kept
  BY <1>1, <1>3, <1>4, <1>6, <1>8, <1>a, NearestBounds
<1> QED
  BY <1>3, <1>10, <1>11 DEF kept, a, c

-----------------------------------------------------------------------------
(* Shares                                                                  *)

\* Share builds a function on Shares, whose values are the amounts given.
LEMMA ShareValues ==
    ASSUME NEW x \in Nat, NEW y \in Nat, NEW z \in Nat
    PROVE  /\ Share(x, y, z) \in [Shares -> Nat]
           /\ Share(x, y, z)["seller_payout"] = x
           /\ Share(x, y, z)["buyer_refund"] = y
           /\ Share(x, y, z)["commission"] = z
BY DEF Share, Shares, PayoutKinds

\* The full amount of an order is a positive integer above its commission.
LEMMA Amounts ==
    ASSUME NEW o \in Orders
    PROVE  /\ AmountPaid[o] \in Nat /\ AmountPaid[o] > 0
           /\ CommissionAmount[o] \in Nat
           /\ AmountPaid[o] - CommissionAmount[o] \in Nat
BY AmountAssumption

\* What the three settlements write adds up and fits its status.
Fits(o, status, share) ==
    /\ status \in SettledStatus
    /\ share \in [Shares -> Nat]
    /\ share["seller_payout"] + share["buyer_refund"] + share["commission"] = AmountPaid[o]
    /\ status = "released_to_seller" => share["buyer_refund"] = 0
    /\ status = "refunded_to_buyer" =>
          share["seller_payout"] = 0 /\ share["commission"] = 0
    /\ status = "split" =>
          /\ share["seller_payout"] <= AmountPaid[o] - CommissionAmount[o]
          /\ share["commission"] <= CommissionAmount[o]

LEMMA ReleaseFits ==
    ASSUME NEW o \in Orders
    PROVE  /\ Fits(o, "released_to_seller", ReleaseShare(o))
           /\ ReleaseShare(o)["seller_payout"] = AmountPaid[o] - CommissionAmount[o]
<1> DEFINE x == AmountPaid[o] - CommissionAmount[o]
           z == CommissionAmount[o]
<1>1. x \in Nat /\ z \in Nat /\ x + 0 + z = AmountPaid[o]
  BY Amounts
<1>2. ReleaseShare(o) = Share(x, 0, z)
  BY DEF ReleaseShare
<1> HIDE DEF x, z
<1>3. /\ Share(x, 0, z) \in [Shares -> Nat]
      /\ Share(x, 0, z)["seller_payout"] = x
      /\ Share(x, 0, z)["buyer_refund"] = 0
      /\ Share(x, 0, z)["commission"] = z
  BY <1>1, ShareValues
<1>4. ReleaseShare(o)["seller_payout"] = AmountPaid[o] - CommissionAmount[o]
  BY <1>2, <1>3 DEF x
<1> QED
  BY <1>1, <1>2, <1>3, <1>4 DEF Fits, SettledStatus

LEMMA RefundFits ==
    ASSUME NEW o \in Orders
    PROVE  Fits(o, "refunded_to_buyer", RefundShare(o))
<1> DEFINE y == AmountPaid[o]
<1>1. y \in Nat /\ 0 + y + 0 = AmountPaid[o]
  BY Amounts
<1>2. RefundShare(o) = Share(0, y, 0)
  BY DEF RefundShare
<1> HIDE DEF y
<1>3. /\ Share(0, y, 0) \in [Shares -> Nat]
      /\ Share(0, y, 0)["seller_payout"] = 0
      /\ Share(0, y, 0)["buyer_refund"] = y
      /\ Share(0, y, 0)["commission"] = 0
  BY <1>1, ShareValues
<1> QED
  BY <1>1, <1>2, <1>3 DEF Fits, SettledStatus

LEMMA SplitFits ==
    ASSUME NEW o \in Orders, NEW refund \in SplitRefunds(o),
           NEW commission \in SplitCommissions(o, refund)
    PROVE  Fits(o, "split", SplitShare(o, refund, commission))
<1> DEFINE kept == AmountPaid[o] - refund
<1>1. /\ kept \in Nat /\ commission \in Nat
      /\ commission <= kept /\ commission <= CommissionAmount[o]
      /\ CommissionAmount[o] - refund <= commission
  BY SplitCommission
<1>2. SplitShare(o, refund, commission) = Share(kept - commission, refund, commission)
  BY DEF SplitShare
<1>3. refund \in Nat
  BY Amounts DEF SplitRefunds
<1>4. AmountPaid[o] = kept + refund
  BY <1>3, Amounts
<1> HIDE DEF kept
<1> DEFINE x == kept - commission
<1>5. /\ x \in Nat
      /\ x + refund + commission = AmountPaid[o]
      /\ x <= AmountPaid[o] - CommissionAmount[o]
  BY <1>1, <1>3, <1>4, Amounts
<1>6. SplitShare(o, refund, commission) = Share(x, refund, commission)
  BY <1>2
<1> HIDE DEF x
<1>7. /\ Share(x, refund, commission) \in [Shares -> Nat]
      /\ Share(x, refund, commission)["seller_payout"] = x
      /\ Share(x, refund, commission)["buyer_refund"] = refund
      /\ Share(x, refund, commission)["commission"] = commission
  BY <1>1, <1>3, <1>5, ShareValues
<1> QED
  BY <1>1, <1>5, <1>6, <1>7 DEF Fits, SettledStatus

-----------------------------------------------------------------------------
(* The inductive invariant                                                 *)

\* An unsettled hold has shared nothing out.
LEMMA NothingSharedYet ==
    ASSUME EscrowInv, NEW o \in Orders, ~Settled(o)
    PROVE  \A s \in Shares : settlement[o][s] = 0
<1>1. settlement[o] \in [Shares -> Nat]
  BY DEF EscrowInv, EscrowTypeOK
<1>2. settlement[o]["seller_payout"] + settlement[o]["buyer_refund"]
         + settlement[o]["commission"] = 0
  BY DEF EscrowInv, Conservation
<1>3. /\ settlement[o]["seller_payout"] \in Nat
      /\ settlement[o]["buyer_refund"] \in Nat
      /\ settlement[o]["commission"] \in Nat
  BY <1>1 DEF Shares, PayoutKinds
<1>4. /\ settlement[o]["seller_payout"] = 0
      /\ settlement[o]["buyer_refund"] = 0
      /\ settlement[o]["commission"] = 0
  BY <1>2, <1>3
<1> QED
  BY <1>4 DEF Shares, PayoutKinds

\* A hold can be settled only while it is not settled.
LEMMA CanSettleOnce ==
    ASSUME NEW o \in Orders, CanSettle(o)
    PROVE  ~Settled(o)
BY DEF CanSettle, Settled, SettledStatus

\* The step all three settlements share.
LEMMA SettleKeepsInv ==
    ASSUME EscrowInv, NEW o \in Orders, NEW status, NEW share,
           Fits(o, status, share), SettleHold(o, status, share)
    PROVE  EscrowInv'
<1>1. status \in SettledStatus /\ share \in [Shares -> Nat]
  BY DEF Fits
<1>2. /\ hold' = [hold EXCEPT ![o] = status]
      /\ settlement' = [settlement EXCEPT ![o] = share]
      /\ paidAt' = paidAt
  BY DEF SettleHold
<1>3. EscrowTypeOK
  BY DEF EscrowInv
<1>4. payout' = [payout EXCEPT ![o] =
         [k \in PayoutKinds |->
             IF share[k] > 0 /\ payout[o][k].status = "none"
             THEN [status |-> "pending", amount |-> share[k]]
             ELSE payout[o][k]]]
  BY DEF SettleHold, QueueForHold
<1>5. \A k \in PayoutKinds : payout[o][k].status = "none" /\ payout[o][k].amount = 0
  <2>1. \A k \in PayoutKinds : settlement[o][k] = 0
    BY NothingSharedYet, CanSettleOnce DEF SettleHold, Shares
  <2> QED
    BY <2>1, <1>3 DEF EscrowInv, PayoutsMatchSettlement, EscrowTypeOK, PayoutRow
<1>6. EscrowTypeOK'
  <2>1. hold' \in [Orders -> HoldStatus]
    BY <1>1, <1>2, <1>3 DEF EscrowTypeOK, HoldStatus
  <2>2. settlement' \in [Orders -> [Shares -> Nat]]
    BY <1>1, <1>2, <1>3 DEF EscrowTypeOK
  <2>3. payout' \in [Orders -> [PayoutKinds -> PayoutRow]]
    <3>1. \A k \in PayoutKinds : share[k] \in Nat /\ payout[o][k] \in PayoutRow
      BY <1>1, <1>3 DEF EscrowTypeOK, Shares
    <3>2. \A k \in PayoutKinds : [status |-> "pending", amount |-> share[k]] \in PayoutRow
      BY <3>1 DEF PayoutRow
    <3> QED
      BY <1>3, <1>4, <3>1, <3>2 DEF EscrowTypeOK
  <2> QED
    BY <1>2, <1>3, <2>1, <2>2, <2>3 DEF EscrowTypeOK
<1>7. \A p \in Orders : p # o =>
         /\ hold'[p] = hold[p]
         /\ settlement'[p] = settlement[p]
         /\ payout'[p] = payout[p]
  BY <1>2, <1>3, <1>4 DEF EscrowTypeOK
<1>8. hold'[o] = status /\ settlement'[o] = share
  BY <1>2, <1>3 DEF EscrowTypeOK
<1>9. Conservation'
  BY <1>1, <1>7, <1>8 DEF EscrowInv, Conservation, Settled, Fits
<1>10. PayoutsMatchSettlement'
  <2> SUFFICES ASSUME NEW p \in Orders, NEW k \in PayoutKinds
               PROVE  /\ payout'[p][k].status # "none" <=> settlement'[p][k] > 0
                      /\ payout'[p][k].amount = settlement'[p][k]
    BY DEF PayoutsMatchSettlement
  <2>1. CASE p # o
    BY <2>1, <1>7 DEF EscrowInv, PayoutsMatchSettlement
  <2>2. CASE p = o
    <3>1. share[k] \in Nat
      BY <1>1 DEF Shares
    <3>2. payout'[o][k] = IF share[k] > 0
                          THEN [status |-> "pending", amount |-> share[k]]
                          ELSE payout[o][k]
      BY <1>3, <1>4, <1>5 DEF EscrowTypeOK
    <3> QED
      BY <1>5, <1>8, <2>2, <3>1, <3>2
  <2> QED
    BY <2>1, <2>2
<1>11. ShareFitsStatus'
  BY <1>7, <1>8 DEF EscrowInv, ShareFitsStatus, Fits
<1>12. SplitNeverBeatsRelease'
  <2>1. \A p \in Orders : ReleaseShare(p)' = ReleaseShare(p)
    BY DEF ReleaseShare, Share
  <2> QED
    BY <1>7, <1>8, <2>1, ReleaseFits DEF EscrowInv, SplitNeverBeatsRelease, Fits
<1> QED
  BY <1>6, <1>9, <1>10, <1>11, <1>12 DEF EscrowInv

\* The step that takes custody changes no settled hold and no row of a payout.
LEMMA TakeCustodyKeepsInv ==
    ASSUME EscrowInv, NEW o \in Orders, NEW placed \in BOOLEAN, TakeCustody(o, placed)
    PROVE  EscrowInv'
<1>1. EscrowTypeOK
  BY DEF EscrowInv
<1>2. /\ settlement' = settlement /\ payout' = payout
      /\ paidAt' = [paidAt EXCEPT ![o] = TRUE]
      /\ hold' = hold \/ (hold[o] = "none" /\ hold' = [hold EXCEPT ![o] = "held"])
  BY DEF TakeCustody
<1>3. EscrowTypeOK'
  BY <1>1, <1>2 DEF EscrowTypeOK, HoldStatus
<1>4. \A p \in Orders : hold'[p] = hold[p] \/ (hold[p] = "none" /\ hold'[p] = "held")
  BY <1>1, <1>2 DEF EscrowTypeOK
<1>5. Conservation'
  BY <1>2, <1>4 DEF EscrowInv, Conservation, Settled, SettledStatus
<1>6. PayoutsMatchSettlement'
  BY <1>2 DEF EscrowInv, PayoutsMatchSettlement
<1>7. ShareFitsStatus'
  BY <1>2, <1>4 DEF EscrowInv, ShareFitsStatus
<1>8. SplitNeverBeatsRelease'
  BY <1>2, <1>4 DEF EscrowInv, SplitNeverBeatsRelease, ReleaseShare, Share
<1> QED
  BY <1>3, <1>5, <1>6, <1>7, <1>8 DEF EscrowInv

\* Recording a transfer only moves its row from pending to paid.
LEMMA MarkPayoutPaidKeepsInv ==
    ASSUME EscrowInv, NEW o \in Orders, NEW k \in PayoutKinds, MarkPayoutPaid(o, k)
    PROVE  EscrowInv'
<1>1. EscrowTypeOK
  BY DEF EscrowInv
<1>2. /\ payout[o][k].status = "pending"
      /\ payout' = [payout EXCEPT ![o][k].status = "paid"]
      /\ UNCHANGED <<paidAt, hold, settlement>>
  BY DEF MarkPayoutPaid
<1>3. \A p \in Orders : \A j \in PayoutKinds :
         /\ payout'[p][j] \in PayoutRow
         /\ payout'[p][j].amount = payout[p][j].amount
         /\ payout'[p][j].status # "none" <=> payout[p][j].status # "none"
  BY <1>1, <1>2 DEF EscrowTypeOK, PayoutRow
<1>4. EscrowTypeOK'
  <2>1. payout' \in [Orders -> [PayoutKinds -> PayoutRow]]
    <3>1. payout' = [payout EXCEPT ![o] = [payout[o] EXCEPT ![k] =
                                              [payout[o][k] EXCEPT !.status = "paid"]]]
      BY <1>2
    <3>2. payout \in [Orders -> [PayoutKinds -> PayoutRow]]
      BY <1>1 DEF EscrowTypeOK
    <3>3. [payout[o][k] EXCEPT !.status = "paid"] \in PayoutRow
      BY <3>2 DEF PayoutRow
    <3> QED BY <3>1, <3>2, <3>3
  <2> QED BY <1>1, <1>2, <2>1 DEF EscrowTypeOK
<1>5. PayoutsMatchSettlement'
  BY <1>2, <1>3 DEF EscrowInv, PayoutsMatchSettlement
<1>6. Conservation' /\ ShareFitsStatus'
  BY <1>2 DEF EscrowInv, Conservation, Settled, ShareFitsStatus
<1>7. SplitNeverBeatsRelease'
  BY <1>2 DEF EscrowInv, SplitNeverBeatsRelease, ReleaseShare, Share
<1> QED
  BY <1>4, <1>5, <1>6, <1>7 DEF EscrowInv

\* Before any payment there is nothing to share out.
LEMMA InitInv == EscrowInit => EscrowInv
<1> SUFFICES ASSUME EscrowInit PROVE EscrowInv
  OBVIOUS
<1>1. NoShare \in [Shares -> Nat] /\ \A s \in Shares : NoShare[s] = 0
  BY ShareValues DEF NoShare, Shares, PayoutKinds
<1>2. NoPayout \in PayoutRow
  BY DEF NoPayout, PayoutRow
<1>3. EscrowTypeOK
  BY <1>1, <1>2 DEF EscrowInit, EscrowTypeOK, HoldStatus
<1>4. \A o \in Orders :
         /\ hold[o] = "none" /\ settlement[o] = NoShare
         /\ \A k \in PayoutKinds : payout[o][k] = NoPayout
  BY DEF EscrowInit
<1>5. Conservation
  <2>1. \A o \in Orders : ~Settled(o)
    BY <1>4 DEF Settled, SettledStatus
  <2>2. /\ NoShare["seller_payout"] = 0
        /\ NoShare["buyer_refund"] = 0
        /\ NoShare["commission"] = 0
    BY <1>1 DEF Shares, PayoutKinds
  <2>3. \A o \in Orders :
           settlement[o]["seller_payout"] + settlement[o]["buyer_refund"]
               + settlement[o]["commission"] = 0
    <3> SUFFICES ASSUME NEW o \in Orders
                 PROVE  settlement[o]["seller_payout"] + settlement[o]["buyer_refund"]
                            + settlement[o]["commission"] = 0
      OBVIOUS
    <3>1. settlement[o] = NoShare
      BY <1>4
    <3> QED
      BY <2>2, <3>1
  <2> QED
    BY <2>1, <2>3 DEF Conservation
<1>6. PayoutsMatchSettlement
  BY <1>1, <1>4 DEF PayoutsMatchSettlement, NoPayout, Shares
<1>7. ShareFitsStatus /\ SplitNeverBeatsRelease
  BY <1>4 DEF ShareFitsStatus, SplitNeverBeatsRelease
<1> QED
  BY <1>3, <1>5, <1>6, <1>7 DEF EscrowInv

\* Every operation of the escrow, and a step of anything else, keeps the
\* invariant.
LEMMA StepKeepsInv == EscrowInv /\ [EscrowNext]_escrowVars => EscrowInv'
<1> SUFFICES ASSUME EscrowInv, [EscrowNext]_escrowVars PROVE EscrowInv'
  OBVIOUS
<1>1. CASE UNCHANGED escrowVars
  BY <1>1 DEF escrowVars, EscrowInv, EscrowTypeOK, Conservation, Settled,
              PayoutsMatchSettlement, ShareFitsStatus, SplitNeverBeatsRelease,
              ReleaseShare, Share
<1>2. CASE EscrowNext
  <2> PICK o \in Orders : EscrowStep(o)
    BY <1>2 DEF EscrowNext
  <2>1. CASE \E placed \in BOOLEAN : TakeCustody(o, placed)
    BY <2>1, TakeCustodyKeepsInv
  <2>2. CASE ReleaseToSeller(o)
    BY <2>2, ReleaseFits, SettleKeepsInv DEF ReleaseToSeller
  <2>3. CASE RefundToBuyer(o)
    BY <2>3, RefundFits, SettleKeepsInv DEF RefundToBuyer
  <2>4. CASE \E refund \in SplitRefunds(o) : SplitSettlement(o, refund)
    BY <2>4, SplitFits, SettleKeepsInv DEF SplitSettlement
  <2>5. CASE \E k \in PayoutKinds : MarkPayoutPaid(o, k)
    BY <2>5, MarkPayoutPaidKeepsInv
  <2> QED
    BY <2>1, <2>2, <2>3, <2>4, <2>5 DEF EscrowStep
<1> QED
  BY <1>1, <1>2

\* Every reachable state of the escrow satisfies the inductive invariant.
THEOREM EscrowInvariant == EscrowSpec => []EscrowInv
<1> QED
  BY InitInv, StepKeepsInv, PTL DEF EscrowSpec

\* In every reachable state each settled hold is shared out to the piastre.
THEOREM MoneyIsConserved == EscrowSpec => []Conservation
<1>1. EscrowInv => Conservation
  BY DEF EscrowInv
<1> QED
  BY <1>1, EscrowInvariant, PTL

\* In every reachable state the transfers owed are the positive shares.
THEOREM PayoutsAlwaysMatch == EscrowSpec => []PayoutsMatchSettlement
<1>1. EscrowInv => PayoutsMatchSettlement
  BY DEF EscrowInv
<1> QED
  BY <1>1, EscrowInvariant, PTL

\* For every amount and commission a split pays seller and platform at most
\* what the full release would.
THEOREM SplitIsNeverBetter == EscrowSpec => []SplitNeverBeatsRelease
<1>1. EscrowInv => SplitNeverBeatsRelease
  BY DEF EscrowInv
<1> QED
  BY <1>1, EscrowInvariant, PTL

-----------------------------------------------------------------------------
(* What a step does to one order                                           *)

\* A step on one order leaves the rows of the others alone.
LEMMA OthersUntouched ==
    ASSUME EscrowTypeOK, NEW o \in Orders, EscrowStep(o), NEW p \in Orders, p # o
    PROVE  /\ paidAt'[p] = paidAt[p] /\ hold'[p] = hold[p]
           /\ settlement'[p] = settlement[p] /\ payout'[p] = payout[p]
<1>1. CASE \E placed \in BOOLEAN : TakeCustody(o, placed)
  BY <1>1 DEF TakeCustody, EscrowTypeOK
<1>2. ASSUME NEW status, NEW share, SettleHold(o, status, share)
      PROVE  /\ paidAt'[p] = paidAt[p] /\ hold'[p] = hold[p]
             /\ settlement'[p] = settlement[p] /\ payout'[p] = payout[p]
  BY <1>2 DEF SettleHold, QueueForHold, EscrowTypeOK
<1>3. CASE \E k \in PayoutKinds : MarkPayoutPaid(o, k)
  BY <1>3 DEF MarkPayoutPaid, EscrowTypeOK
<1> QED
  BY <1>1, <1>2, <1>3 DEF EscrowStep, ReleaseToSeller, RefundToBuyer, SplitSettlement

\* What each kind of step does to the rows of its order.
LEMMA CustodyEffect ==
    ASSUME EscrowTypeOK, NEW o \in Orders, NEW placed \in BOOLEAN, TakeCustody(o, placed)
    PROVE  /\ paidAt'[o] = TRUE
           /\ hold'[o] \in {hold[o], "held"} /\ (hold[o] # "none" => hold'[o] = hold[o])
           /\ settlement'[o] = settlement[o] /\ payout'[o] = payout[o]
BY DEF TakeCustody, EscrowTypeOK

LEMMA SettleEffect ==
    ASSUME EscrowTypeOK, NEW o \in Orders, NEW status, NEW share,
           SettleHold(o, status, share)
    PROVE  /\ CanSettle(o)
           /\ hold'[o] = status /\ paidAt'[o] = paidAt[o]
           /\ \A k \in PayoutKinds :
                 payout'[o][k] = payout[o][k] \/
                    (payout[o][k].status = "none" /\ payout'[o][k].status = "pending")
<1>1. payout'[o] = [k \in PayoutKinds |->
            IF share[k] > 0 /\ payout[o][k].status = "none"
            THEN [status |-> "pending", amount |-> share[k]]
            ELSE payout[o][k]]
  BY DEF SettleHold, QueueForHold, EscrowTypeOK
<1> QED
  BY <1>1 DEF SettleHold, EscrowTypeOK

LEMMA MarkEffect ==
    ASSUME EscrowTypeOK, NEW o \in Orders, NEW k \in PayoutKinds, MarkPayoutPaid(o, k)
    PROVE  /\ hold'[o] = hold[o] /\ paidAt'[o] = paidAt[o]
           /\ settlement'[o] = settlement[o]
           /\ payout[o][k].status = "pending" /\ payout'[o][k].status = "paid"
           /\ \A j \in PayoutKinds \ {k} : payout'[o][j] = payout[o][j]
BY DEF MarkPayoutPaid, EscrowTypeOK, PayoutRow

\* A step on a settled order changes neither its status nor its shares, and a
\* transfer that was sent stays as it is.
LEMMA SettledStays ==
    ASSUME EscrowTypeOK, NEW o \in Orders, EscrowStep(o)
    PROVE  /\ Settled(o) => hold'[o] = hold[o] /\ settlement'[o] = settlement[o]
           /\ \A k \in PayoutKinds :
                 payout[o][k].status = "paid" => payout'[o][k] = payout[o][k]
<1>1. CASE \E placed \in BOOLEAN : TakeCustody(o, placed)
  BY <1>1, CustodyEffect DEF Settled, SettledStatus
<1>2. ASSUME NEW status, NEW share, SettleHold(o, status, share)
      PROVE  /\ Settled(o) => hold'[o] = hold[o] /\ settlement'[o] = settlement[o]
             /\ \A k \in PayoutKinds :
                   payout[o][k].status = "paid" => payout'[o][k] = payout[o][k]
  BY <1>2, SettleEffect, CanSettleOnce
<1>3. CASE \E k \in PayoutKinds : MarkPayoutPaid(o, k)
  BY <1>3, MarkEffect
<1> QED
  BY <1>1, <1>2, <1>3 DEF EscrowStep, ReleaseToSeller, RefundToBuyer, SplitSettlement

\* Two settlements never both take effect, and no transfer is undone.
THEOREM SettlementIsFinal == EscrowSpec => SettledForGood
<1> DEFINE Stays ==
      \A o \in Orders :
          /\ Settled(o) => hold'[o] = hold[o] /\ settlement'[o] = settlement[o]
          /\ \A k \in PayoutKinds :
                payout[o][k].status = "paid" => payout'[o][k] = payout[o][k]
<1>1. EscrowInv /\ [EscrowNext]_escrowVars => [Stays]_escrowVars
  <2> SUFFICES ASSUME EscrowTypeOK, EscrowNext PROVE Stays
    BY DEF EscrowInv
  <2> PICK o \in Orders : EscrowStep(o)
    BY DEF EscrowNext
  <2> SUFFICES ASSUME NEW p \in Orders
               PROVE  /\ Settled(p) => hold'[p] = hold[p] /\ settlement'[p] = settlement[p]
                      /\ \A k \in PayoutKinds :
                            payout[p][k].status = "paid" => payout'[p][k] = payout[p][k]
    OBVIOUS
  <2>1. CASE p # o
    BY <2>1, OthersUntouched
  <2>2. CASE p = o
    BY <2>2, SettledStays
  <2> QED
    BY <2>1, <2>2
<1> QED
  BY <1>1, EscrowInvariant, PTL DEF EscrowSpec, SettledForGood

-----------------------------------------------------------------------------
(* Refinement of Custody                                                   *)

\* What one step of the escrow is for the promise: money taken in, settled,
\* transferred to someone entitled to it, or nothing at all.
LEMMA StepKeepsPromise ==
    ASSUME EscrowInv, NEW o \in Orders, EscrowStep(o)
    PROVE  \/ CustodyOf(o)' = CustodyOf(o) /\ TransferredOf(o)' = TransferredOf(o)
           \/ /\ CustodyOf(o) = "unpaid" /\ CustodyOf(o)' = "held"
              /\ TransferredOf(o)' = TransferredOf(o)
           \/ /\ CustodyOf(o) = "held" /\ CustodyOf(o)' \in Promise!Settlements
              /\ TransferredOf(o)' = TransferredOf(o)
           \/ /\ CustodyOf(o) \in Promise!Settlements /\ CustodyOf(o)' = CustodyOf(o)
              /\ \E t \in Promise!Entitled(CustodyOf(o)) \ TransferredOf(o) :
                    TransferredOf(o)' = TransferredOf(o) \cup {t}
<1>1. EscrowTypeOK
  BY DEF EscrowInv
<1>2. CASE \E placed \in BOOLEAN : TakeCustody(o, placed)
  <2>1. TransferredOf(o)' = TransferredOf(o)
    BY <1>1, <1>2, CustodyEffect DEF TransferredOf
  <2>2. \/ CustodyOf(o)' = CustodyOf(o)
        \/ CustodyOf(o) = "unpaid" /\ CustodyOf(o)' = "held"
    BY <1>1, <1>2, CustodyEffect DEF CustodyOf
  <2> QED
    BY <2>1, <2>2
<1>3. ASSUME NEW status \in SettledStatus, NEW share, SettleHold(o, status, share)
      PROVE  /\ CustodyOf(o) = "held" /\ CustodyOf(o)' \in Promise!Settlements
             /\ TransferredOf(o)' = TransferredOf(o)
  <2>1. CustodyOf(o) = "held"
    BY <1>1, <1>3, SettleEffect DEF CanSettle, CustodyOf
  <2>2. CustodyOf(o)' \in Promise!Settlements
    BY <1>1, <1>3, SettleEffect DEF CustodyOf, SettledStatus, Promise!Settlements
  <2>3. \A k \in PayoutKinds : payout'[o][k].status = "paid" <=> payout[o][k].status = "paid"
    BY <1>1, <1>3, SettleEffect
  <2> QED
    BY <2>1, <2>2, <2>3 DEF TransferredOf
<1>4. ASSUME NEW k \in PayoutKinds, MarkPayoutPaid(o, k)
      PROVE  /\ CustodyOf(o) \in Promise!Settlements /\ CustodyOf(o)' = CustodyOf(o)
             /\ \E t \in Promise!Entitled(CustodyOf(o)) \ TransferredOf(o) :
                   TransferredOf(o)' = TransferredOf(o) \cup {t}
  <2>1. /\ hold'[o] = hold[o] /\ paidAt'[o] = paidAt[o]
        /\ payout[o][k].status = "pending" /\ payout'[o][k].status = "paid"
        /\ \A j \in PayoutKinds \ {k} : payout'[o][j] = payout[o][j]
    BY <1>1, <1>4, MarkEffect
  <2>2. settlement[o][k] > 0
    BY <2>1 DEF EscrowInv, PayoutsMatchSettlement
  <2>3. Settled(o)
    BY <2>2, NothingSharedYet DEF Shares
  <2>4. CustodyOf(o) = hold[o] /\ CustodyOf(o)' = hold[o]
    BY <2>1, <2>3 DEF CustodyOf, Settled, SettledStatus
  <2>5. hold[o] \in Promise!Settlements
    BY <2>3 DEF Settled, SettledStatus, Promise!Settlements
  <2>6. k \in Promise!Entitled(hold[o])
    BY <2>2, <2>3 DEF EscrowInv, ShareFitsStatus, Settled, SettledStatus, PayoutKinds,
                      Promise!Entitled, Promise!Transfers
  <2>7. k \notin TransferredOf(o) /\ TransferredOf(o)' = TransferredOf(o) \cup {k}
    BY <2>1 DEF TransferredOf
  <2> QED
    BY <2>4, <2>5, <2>6, <2>7
<1>5. \A status \in SettledStatus : \A share :
         SettleHold(o, status, share) =>
             /\ CustodyOf(o) = "held" /\ CustodyOf(o)' \in Promise!Settlements
             /\ TransferredOf(o)' = TransferredOf(o)
  BY <1>3
<1>6. CASE ReleaseToSeller(o)
  BY <1>5, <1>6 DEF ReleaseToSeller, SettledStatus
<1>7. CASE RefundToBuyer(o)
  BY <1>5, <1>7 DEF RefundToBuyer, SettledStatus
<1>8. CASE \E refund \in SplitRefunds(o) : SplitSettlement(o, refund)
  BY <1>5, <1>8 DEF SplitSettlement, SettledStatus
<1>9. CASE \E k \in PayoutKinds : MarkPayoutPaid(o, k)
  BY <1>4, <1>9
<1> QED
  BY <1>2, <1>6, <1>7, <1>8, <1>9 DEF EscrowStep

\* What a step leaves of the other orders in the eyes of the promise.
LEMMA PromiseOfOthers ==
    ASSUME EscrowTypeOK, NEW o \in Orders, EscrowStep(o), NEW p \in Orders, p # o
    PROVE  CustodyOf(p)' = CustodyOf(p) /\ TransferredOf(p)' = TransferredOf(p)
BY OthersUntouched DEF CustodyOf, TransferredOf

\* The escrow rows implement Custody: each step is a step of the promise or a
\* stutter.
THEOREM EscrowKeepsPromise == EscrowSpec => ImplementsCustody
<1> DEFINE custody == [o \in Orders |-> CustodyOf(o)]
           transferred == [o \in Orders |-> TransferredOf(o)]
<1>1. EscrowInit => Promise!CustodyInit
  <2> SUFFICES ASSUME EscrowInit PROVE Promise!CustodyInit
    OBVIOUS
  <2>1. \A o \in Orders : CustodyOf(o) = "unpaid"
    BY DEF EscrowInit, CustodyOf
  <2>2. \A o \in Orders : TransferredOf(o) = {}
    BY DEF EscrowInit, TransferredOf, NoPayout
  <2> QED
    BY <2>1, <2>2 DEF Promise!CustodyInit
<1>2. EscrowInv /\ [EscrowNext]_escrowVars => [Promise!CustodyNext]_(Promise!custodyVars)
  <2> SUFFICES ASSUME EscrowInv, [EscrowNext]_escrowVars
               PROVE  [Promise!CustodyNext]_(Promise!custodyVars)
    OBVIOUS
  <2>1. CASE UNCHANGED escrowVars
    BY <2>1 DEF escrowVars, Promise!custodyVars, CustodyOf, TransferredOf
  <2>2. CASE EscrowNext
    <3> PICK o \in Orders : EscrowStep(o)
      BY <2>2 DEF EscrowNext
    <3>1. \A p \in Orders : p # o =>
             CustodyOf(p)' = CustodyOf(p) /\ TransferredOf(p)' = TransferredOf(p)
      BY PromiseOfOthers DEF EscrowInv
    <3>2. /\ custody' = [p \in Orders |-> CustodyOf(p)']
          /\ transferred' = [p \in Orders |-> TransferredOf(p)']
      OBVIOUS
    <3>3. CustodyOf(o)' = CustodyOf(o) =>
             custody' = custody
      BY <3>1
    <3>4. TransferredOf(o)' = TransferredOf(o) => transferred' = transferred
      BY <3>1
    <3>5. custody' = [custody EXCEPT ![o] = CustodyOf(o)']
      BY <3>1
    <3>6. transferred' = [transferred EXCEPT ![o] = TransferredOf(o)']
      BY <3>1
    <3>7. custody[o] = CustodyOf(o) /\ transferred[o] = TransferredOf(o)
      OBVIOUS
    <3> HIDE DEF custody, transferred
    <3>8. CASE CustodyOf(o)' = CustodyOf(o) /\ TransferredOf(o)' = TransferredOf(o)
      BY <3>3, <3>4, <3>8 DEF Promise!custodyVars, custody, transferred
    <3>9. CASE /\ CustodyOf(o) = "unpaid" /\ CustodyOf(o)' = "held"
               /\ TransferredOf(o)' = TransferredOf(o)
      <4>1. Promise!TakeIn(o)
        BY <3>4, <3>5, <3>7, <3>9 DEF Promise!TakeIn, custody, transferred
      <4> QED
        BY <4>1 DEF Promise!CustodyNext
    <3>10. CASE /\ CustodyOf(o) = "held" /\ CustodyOf(o)' \in Promise!Settlements
                /\ TransferredOf(o)' = TransferredOf(o)
      <4>1. Promise!Settle(o)
        BY <3>4, <3>5, <3>7, <3>10 DEF Promise!Settle, custody, transferred
      <4> QED
        BY <4>1 DEF Promise!CustodyNext
    <3>11. CASE /\ CustodyOf(o) \in Promise!Settlements /\ CustodyOf(o)' = CustodyOf(o)
                /\ \E t \in Promise!Entitled(CustodyOf(o)) \ TransferredOf(o) :
                      TransferredOf(o)' = TransferredOf(o) \cup {t}
      <4>1. Promise!Transfer(o)
        BY <3>3, <3>6, <3>7, <3>11 DEF Promise!Transfer, custody, transferred
      <4> QED
        BY <4>1 DEF Promise!CustodyNext
    <3> QED
      BY <3>8, <3>9, <3>10, <3>11, StepKeepsPromise
  <2> QED
    BY <2>1, <2>2
<1> QED
  BY <1>1, <1>2, EscrowInvariant, PTL DEF EscrowSpec, ImplementsCustody, Promise!CustodySpec
=============================================================================
