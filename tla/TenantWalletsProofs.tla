------------------------- MODULE TenantWalletsProofs -------------------------
(***************************************************************************)
(* Theorems about TenantWallets, for any tenants, bids, deposits, workers  *)
(* and bounds: the types of the rows; that awards, automatic awards,       *)
(* purchases, releases and refunds, whatever copies they act on, never     *)
(* take a balance below what administrators have debited; and that the     *)
(* balances, the money held for bids and the deposits always add up.       *)
(***************************************************************************)
EXTENDS TenantWallets, Sums, TLAPS

-----------------------------------------------------------------------------
(* The inductive invariant                                                 *)

\* The balances and the sums of the ledger's rows.
MoneyInv ==
    /\ wallet \in [Tenants -> Int]
    /\ held \in [Tenants -> Int]
    /\ entry \in [Bids -> [hold : Nat, release : Nat, refund : Nat]]
    /\ frozen \in [Tenants -> Nat]
    /\ spent \in Nat /\ debited \in Nat /\ fees \in Nat
    /\ OverdraftOnlyByDebit

\* A bid with a winner, or past its award, has a price: the settlements of a
\* bid read winner and status, and pay the price.
BidInv ==
    /\ bid \in [Bids -> Bid]
    /\ \A x \in Bids :
          (bid[x].winner # Nobody \/ bid[x].status \in {"escrow_held", "shipped", "disputed"})
              => bid[x].price \in Prices

\* So have the copies of jobs that will pay it, and the bid whose price is
\* about to be held.
PayingJobs == {"award", "hold", "release", "form", "debit"}

JobInv ==
    /\ job \in [Workers -> [kind : Jobs, copy : Bid,
                            target : Bids \cup Deposits \cup Tenants \cup {Nobody}]]
    /\ \A w \in Workers :
          /\ job[w].kind \in PayingJobs => job[w].copy.price \in Prices
          /\ job[w].kind = "hold" =>
                job[w].target \in Bids /\ bid[job[w].target].price \in Prices

RestInv ==
    /\ offer \in [Bids -> [Tenants -> Prices \cup {0}]]
    /\ credited \in [Deposits -> Nat]
    /\ cached \subseteq Deposits
    /\ queue \subseteq Bids
    /\ retries \in Nat /\ crashes \in Nat

WalletInv == MoneyInv /\ BidInv /\ JobInv /\ RestInv

\* No step takes the price from a bid.
PricesKept == \A x \in Bids : bid[x].price \in Prices => bid'[x].price \in Prices

LEMMA PriceIsNat ==
    ASSUME NEW p \in Prices \cup {0}
    PROVE  p \in Nat
<1>1. CASE p \in Prices
    BY <1>1, WalletAssumption DEF WalletAssumption
<1>2. CASE p = 0
    BY <1>2
<1> QED BY <1>1, <1>2

-----------------------------------------------------------------------------
(* Movements of money                                                      *)

\* A hold that the wallet covers does not overdraw it (pre_save of EscrowLedger).
LEMMA HoldKeeps ==
    ASSUME MoneyInv, NEW x \in Bids, NEW p \in Prices, Covers(BuyerOf[x], p), Hold(x, p),
           UNCHANGED <<spent, debited>>
    PROVE  MoneyInv'
<1>1. p \in Nat /\ BuyerOf[x] \in Tenants
    BY WalletAssumption DEF WalletAssumption
<1>2. wallet' \in [Tenants -> Int] /\ held' \in [Tenants -> Int]
    BY <1>1 DEF Hold, MoneyInv
<1>3. entry' \in [Bids -> [hold : Nat, release : Nat, refund : Nat]]
    BY <1>1 DEF Hold, MoneyInv
<1>4. OverdraftOnlyByDebit'
    BY <1>1 DEF Hold, Covers, MoneyInv, OverdraftOnlyByDebit
<1> QED BY <1>2, <1>3, <1>4 DEF Hold, MoneyInv

\* A release of a price pays the winner and gives the excess back: no wallet
\* loses (trigger_release_to_seller).
LEMMA ReleaseKeeps ==
    ASSUME MoneyInv, NEW x \in Bids, NEW p \in Prices, NEW s, Release(x, s, p),
           UNCHANGED <<spent, debited>>
    PROVE  MoneyInv'
<1> DEFINE excess == IF NetHeld(x) > p THEN NetHeld(x) - p ELSE 0
<1>1. p \in Nat /\ BuyerOf[x] \in Tenants /\ FeeOf[p] \in Nat /\ p - FeeOf[p] \in Nat
    BY WalletAssumption DEF WalletAssumption
<1>2. entry[x] \in [hold : Nat, release : Nat, refund : Nat]
    BY DEF MoneyInv
<1>3. excess \in Nat
    BY <1>1, <1>2 DEF NetHeld
<1>4. /\ held' = [held EXCEPT ![BuyerOf[x]] = @ - excess - p]
      /\ wallet' = [t \in Tenants |->
                      wallet[t] + (IF t = BuyerOf[x] THEN excess ELSE 0)
                                + (IF t = s THEN p - FeeOf[p] ELSE 0)]
      /\ entry' = [entry EXCEPT ![x].refund = @ + excess, ![x].release = @ + p]
      /\ fees' = fees + FeeOf[p]
      /\ frozen' = frozen
    BY DEF Release
<1> HIDE DEF excess
<1>5. \A t \in Tenants : wallet'[t] \in Int /\ wallet'[t] >= wallet[t]
    BY <1>1, <1>3, <1>4 DEF MoneyInv
<1>6. wallet' \in [Tenants -> Int] /\ held' \in [Tenants -> Int]
    BY <1>1, <1>3, <1>4, <1>5 DEF MoneyInv
<1>7. entry' \in [Bids -> [hold : Nat, release : Nat, refund : Nat]]
  <2> DEFINE refunded == entry[x].refund + excess
             released == entry[x].release + p
  <2>1. refunded \in Nat /\ released \in Nat
      BY <1>1, <1>2, <1>3
  <2>2. entry' = [entry EXCEPT ![x].refund = refunded, ![x].release = released]
      BY <1>4
  <2> HIDE DEF refunded, released
  <2>3. entry'[x] \in [hold : Nat, release : Nat, refund : Nat]
      BY <1>2, <2>1, <2>2 DEF MoneyInv
  <2>4. entry' = [entry EXCEPT ![x] = entry'[x]]
      BY <2>2 DEF MoneyInv
  <2> QED BY <2>3, <2>4 DEF MoneyInv
<1>8. fees' \in Nat /\ frozen' \in [Tenants -> Nat]
    BY <1>1, <1>4 DEF MoneyInv
<1>9. OverdraftOnlyByDebit'
    BY <1>5 DEF MoneyInv, OverdraftOnlyByDebit
<1> QED BY <1>6, <1>7, <1>8, <1>9 DEF MoneyInv

\* A refund pays into the buyer's wallet only (trigger_refund_to_buyer).
LEMMA RefundKeeps ==
    ASSUME MoneyInv, NEW x \in Bids, NEW p \in Nat, Refund(x, p), UNCHANGED <<spent, debited>>
    PROVE  MoneyInv'
<1> DEFINE amount == IF NetHeld(x) > 0 THEN NetHeld(x) ELSE p
<1>1. BuyerOf[x] \in Tenants
    BY WalletAssumption DEF WalletAssumption
<1>2. entry[x] \in [hold : Nat, release : Nat, refund : Nat]
    BY DEF MoneyInv
<1>3. amount \in Nat
    BY <1>2 DEF NetHeld
<1>4. /\ held' = [held EXCEPT ![BuyerOf[x]] = @ - amount]
      /\ wallet' = [wallet EXCEPT ![BuyerOf[x]] = @ + amount]
      /\ entry' = [entry EXCEPT ![x].refund = @ + amount]
      /\ UNCHANGED <<frozen, fees>>
    BY DEF Refund
<1> HIDE DEF amount
<1>5. wallet' \in [Tenants -> Int] /\ held' \in [Tenants -> Int]
    BY <1>1, <1>3, <1>4 DEF MoneyInv
<1>6. entry' \in [Bids -> [hold : Nat, release : Nat, refund : Nat]]
    BY <1>2, <1>3, <1>4 DEF MoneyInv
<1>7. OverdraftOnlyByDebit'
    BY <1>1, <1>3, <1>4 DEF MoneyInv, OverdraftOnlyByDebit
<1> QED BY <1>4, <1>5, <1>6, <1>7 DEF MoneyInv

-----------------------------------------------------------------------------
(* Jobs                                                                    *)

\* Ending a job leaves the others what they need.
LEMMA EndKeeps ==
    ASSUME JobInv, NEW w \in Workers, End(w), PricesKept
    PROVE  JobInv'
<1>1. NoJob \in [kind : Jobs, copy : Bid, target : Bids \cup Deposits \cup Tenants \cup {Nobody}]
    BY DEF NoJob, NewBid, Bid, Jobs, BidStatus
<1>2. \A v \in Workers : job'[v] = IF v = w THEN NoJob ELSE job[v]
    BY DEF End, JobInv
<1>3. NoJob.kind = "idle"
    BY DEF NoJob
<1>4. job' \in [Workers -> [kind : Jobs, copy : Bid,
                            target : Bids \cup Deposits \cup Tenants \cup {Nobody}]]
    BY <1>1 DEF End, JobInv
<1> QED BY <1>2, <1>3, <1>4 DEF JobInv, PayingJobs, PricesKept

\* A job begins with what it read; none begins with a hold.
LEMMA BeginKeeps ==
    ASSUME JobInv, NEW w \in Workers, NEW kind \in Jobs \ {"hold"}, NEW copy \in Bid,
           NEW target \in Bids \cup Deposits \cup Tenants,
           Begin(w, kind, target, copy), UNCHANGED bid,
           kind \in PayingJobs => copy.price \in Prices
    PROVE  JobInv'
<1> DEFINE begun == [kind |-> kind, target |-> target, copy |-> copy]
<1>1. \A v \in Workers : job'[v] = IF v = w THEN begun ELSE job[v]
    BY DEF Begin, JobInv
<1>2. job' \in [Workers -> [kind : Jobs, copy : Bid,
                            target : Bids \cup Deposits \cup Tenants \cup {Nobody}]]
    BY DEF Begin, JobInv
<1>3. begun.kind = kind /\ begun.copy = copy
    OBVIOUS
<1> QED BY <1>1, <1>2, <1>3 DEF JobInv, PayingJobs

\* A job goes on with the same copy.
LEMMA TurnKeeps ==
    ASSUME JobInv, NEW w \in Workers, NEW kind \in Jobs, Turn(w, kind), PricesKept,
           kind \in PayingJobs => job[w].copy.price \in Prices,
           kind = "hold" => job[w].target \in Bids /\ bid'[job[w].target].price \in Prices
    PROVE  JobInv'
<1>1. \A v \in Workers :
          /\ job'[v].kind = IF v = w THEN kind ELSE job[v].kind
          /\ job'[v].copy = job[v].copy /\ job'[v].target = job[v].target
    BY DEF Turn, JobInv
<1>2. job' \in [Workers -> [kind : Jobs, copy : Bid,
                            target : Bids \cup Deposits \cup Tenants \cup {Nobody}]]
    BY DEF Turn, JobInv
<1> QED BY <1>1, <1>2 DEF JobInv, PricesKept

\* What a job takes from a row is a row.
LEMMA TermsType ==
    ASSUME NEW s \in Tenants \cup {Nobody}, NEW p \in Prices \cup {0}
    PROVE  Terms(s, p) \in Bid /\ Terms(s, p).price = p
BY DEF Terms, NewBid, Bid, BidStatus

-----------------------------------------------------------------------------
(* Rows of bids                                                            *)

\* A step that leaves the bids alone.
LEMMA BidsSame ==
    ASSUME BidInv, UNCHANGED bid
    PROVE  BidInv' /\ PricesKept
BY DEF BidInv, PricesKept

\* A step that leaves the balances alone.
LEMMA MoneySame ==
    ASSUME MoneyInv, UNCHANGED <<wallet, held, entry, frozen, spent, debited, fees>>
    PROVE  MoneyInv'
BY DEF MoneyInv, OverdraftOnlyByDebit

\* A row may be written whose price survives, and is there if it is awarded.
LEMMA RowWritten ==
    ASSUME BidInv, NEW x \in Bids,
           bid' = [bid EXCEPT ![x] = bid'[x]], bid'[x] \in Bid,
           \/ bid'[x].price \in Prices
           \/ /\ bid'[x].winner = bid[x].winner /\ bid'[x].price = bid[x].price
              /\ bid'[x].status \notin {"escrow_held", "shipped", "disputed"}
    PROVE  BidInv' /\ PricesKept
<1>1. \A y \in Bids : bid'[y] = IF y = x THEN bid'[x] ELSE bid[y]
    BY DEF BidInv
<1>2. bid' \in [Bids -> Bid]
    BY DEF BidInv
<1> QED BY <1>1, <1>2 DEF BidInv, PricesKept

\* A change of the status to one that needs no price.
LEMMA StatusWritten ==
    ASSUME BidInv, NEW x \in Bids,
           NEW status \in {"open", "awarding", "completed", "cancelled"},
           \/ bid' = [bid EXCEPT ![x].status = status]
           \/ bid' = [bid EXCEPT ![x].status = status, ![x].expired = FALSE]
    PROVE  BidInv' /\ PricesKept
<1>1. bid[x] \in Bid
    BY DEF BidInv
<1>2. /\ bid'[x].status = status
      /\ bid'[x].winner = bid[x].winner /\ bid'[x].price = bid[x].price
    BY <1>1 DEF BidInv, Bid
<1>3. bid' = [bid EXCEPT ![x] = bid'[x]]
    BY DEF BidInv
<1>4. bid'[x] \in Bid
    BY <1>1 DEF BidInv, Bid, BidStatus
<1> QED BY <1>2, <1>3, <1>4, RowWritten

\* An award writes winner and price together.
LEMMA AwardWritten ==
    ASSUME BidInv, NEW x \in Bids, NEW status \in BidStatus,
           NEW s \in Tenants \cup {Nobody}, NEW p \in Prices,
           bid' = [bid EXCEPT ![x].status = status, ![x].winner = s, ![x].price = p]
    PROVE  BidInv' /\ PricesKept
<1>1. bid[x] \in Bid
    BY DEF BidInv
<1>2. bid'[x].price = p
    BY <1>1 DEF BidInv, Bid
<1>3. bid'[x] \in Bid
    BY <1>1 DEF BidInv, Bid
<1>4. bid' = [bid EXCEPT ![x] = bid'[x]]
    BY DEF BidInv
<1> QED BY <1>2, <1>3, <1>4, RowWritten

-----------------------------------------------------------------------------
(* The steps                                                               *)

\* What most steps leave alone.
LEMMA RestSame ==
    ASSUME RestInv, UNCHANGED <<offer, credited, cached, queue, retries, crashes>>
    PROVE  RestInv'
BY DEF RestInv

LEMMA JobsSame ==
    ASSUME JobInv, UNCHANGED job, PricesKept
    PROVE  JobInv'
BY DEF JobInv, PricesKept

LEMMA NewBidType == NewBid \in Bid
BY DEF NewBid, Bid, BidStatus

\* The automatic award and the deadline (submit_bid_offer_api).
LEMMA OfferSteps ==
    ASSUME WalletInv, NEW x \in Bids, NEW s \in Tenants, NEW p \in Prices,
           SubmitOffer(x, s, p) \/ AutoAward(x, s, p)
    PROVE  WalletInv'
<1>1. CASE SubmitOffer(x, s, p)
  <2>1. MoneyInv'
      BY <1>1, MoneySame DEF SubmitOffer, WalletInv, ledger, funding
  <2>2. BidInv' /\ PricesKept
      BY <1>1, BidsSame DEF SubmitOffer, WalletInv
  <2>3. JobInv'
      BY <1>1, <2>2, JobsSame DEF SubmitOffer, WalletInv, AtOnce
  <2>4. RestInv'
      BY <1>1 DEF SubmitOffer, WalletInv, RestInv, funding, failures
  <2> QED BY <2>1, <2>2, <2>3, <2>4 DEF WalletInv
<1>2. CASE AutoAward(x, s, p)
  <2>1. MoneyInv'
      BY <1>2, HoldKeeps DEF AutoAward, Covers, WalletInv, funding
  <2>2. BidInv' /\ PricesKept
      BY <1>2, AwardWritten DEF AutoAward, WalletInv, BidStatus
  <2>3. JobInv'
      BY <1>2, <2>2, JobsSame DEF AutoAward, WalletInv, AtOnce
  <2>4. RestInv'
      BY <1>2 DEF AutoAward, WalletInv, RestInv, funding, failures
  <2> QED BY <2>1, <2>2, <2>3, <2>4 DEF WalletInv
<1> QED BY <1>1, <1>2

LEMMA ExpireStep ==
    ASSUME WalletInv, NEW x \in Bids, Expire(x)
    PROVE  WalletInv'
<1>1. MoneyInv'
    BY MoneySame DEF Expire, WalletInv, ledger, funding
<1>2. BidInv' /\ PricesKept
  <2>1. bid[x] \in Bid
      BY DEF WalletInv, BidInv
  <2>2. /\ bid'[x].status = "open"
        /\ bid'[x].winner = bid[x].winner /\ bid'[x].price = bid[x].price
      BY <2>1 DEF Expire, WalletInv, BidInv, Bid
  <2>3. bid' = [bid EXCEPT ![x] = bid'[x]] /\ bid'[x] \in Bid
      BY <2>1 DEF Expire, WalletInv, BidInv, Bid
  <2> QED BY <2>2, <2>3, RowWritten DEF WalletInv
<1>3. JobInv'
    BY <1>2, JobsSame DEF Expire, WalletInv
<1>4. RestInv'
    BY RestSame DEF Expire, WalletInv, funding, failures
<1> QED BY <1>1, <1>2, <1>3, <1>4 DEF WalletInv

\* A job that begins has read a row that is typed, and whose price is there if
\* the job will pay it.
LEMMA ReadSteps ==
    ASSUME WalletInv, NEW w \in Workers, NEW x \in Bids,
           WatchScan(w, x) \/ ReceiptRead(w, x) \/ ResolveRead(w, x) \/ FormRead(w, x)
    PROVE  WalletInv'
<1>1. /\ UNCHANGED <<bid, offer, wallet, held, entry, frozen, fees, credited, cached,
                     spent, debited, queue, retries, crashes>>
    BY DEF WatchScan, ReceiptRead, ResolveRead, FormRead, ledger, funding, failures
<1>2. MoneyInv' /\ BidInv' /\ RestInv'
    BY <1>1, MoneySame, BidsSame, RestSame DEF WalletInv
<1>3. bid[x] \in Bid
    BY DEF WalletInv, BidInv
<1>4. JobInv'
  <2>1. CASE WatchScan(w, x)
    <3>1. PICK kind \in {"mark", "drop"} : Begin(w, kind, x, NewBid)
        BY <2>1 DEF WatchScan
    <3>2. kind \in Jobs \ {"hold"} /\ kind \notin PayingJobs
        BY DEF Jobs, PayingJobs
    <3> QED BY <1>1, <3>1, <3>2, NewBidType, BeginKeeps DEF WalletInv
  <2>2. CASE ReceiptRead(w, x)
    <3>1. bid[x].price \in Prices
        BY <2>2 DEF ReceiptRead, WalletInv, BidInv
    <3>2. Terms(bid[x].winner, bid[x].price) \in Bid
        BY <1>3, TermsType DEF Bid
    <3>3. Terms(bid[x].winner, bid[x].price).price = bid[x].price
        BY <1>3, TermsType DEF Bid
    <3>4. "release" \in Jobs \ {"hold"}
        BY DEF Jobs
    <3>5. Begin(w, "release", x, Terms(bid[x].winner, bid[x].price))
        BY <2>2 DEF ReceiptRead
    <3> QED BY <1>1, <3>1, <3>2, <3>3, <3>4, <3>5, BeginKeeps DEF WalletInv
  <2>3. CASE ResolveRead(w, x)
    <3>1. bid[x].price \in Prices
        BY <2>3 DEF ResolveRead, WalletInv, BidInv
    <3>2. Terms(bid[x].winner, bid[x].price) \in Bid
        BY <1>3, TermsType DEF Bid
    <3>3. Terms(bid[x].winner, bid[x].price).price = bid[x].price
        BY <1>3, TermsType DEF Bid
    <3>4. PICK decision \in {"refund", "release"} :
              Begin(w, decision, x, Terms(bid[x].winner, bid[x].price))
        BY <2>3 DEF ResolveRead
    <3>5. decision \in Jobs \ {"hold"}
        BY DEF Jobs
    <3> QED BY <1>1, <3>1, <3>2, <3>3, <3>4, <3>5, BeginKeeps DEF WalletInv
  <2>4. CASE FormRead(w, x)
    <3>1. PICK new \in {"shipped", "disputed"} :
              Begin(w, "form", x, [bid[x] EXCEPT !.status = new])
        BY <2>4 DEF FormRead
    <3>2. bid[x].price \in Prices
        BY <2>4 DEF FormRead, WalletInv, BidInv
    <3> DEFINE copy == [bid[x] EXCEPT !.status = new]
    <3>3. copy \in Bid /\ copy.price = bid[x].price
        BY <1>3 DEF Bid, BidStatus
    <3>4. "form" \in Jobs \ {"hold"}
        BY DEF Jobs
    <3> HIDE DEF copy
    <3>5. Begin(w, "form", x, copy)
        BY <3>1 DEF copy
    <3> QED BY <1>1, <3>2, <3>3, <3>4, <3>5, BeginKeeps DEF WalletInv
  <2> QED BY <2>1, <2>2, <2>3, <2>4
<1> QED BY <1>2, <1>4 DEF WalletInv

\* The award task reads an offer; its price is the one it will write and hold.
LEMMA AwardReadStep ==
    ASSUME WalletInv, NEW w \in Workers, NEW x \in Bids, AwardRead(w, x)
    PROVE  WalletInv'
<1>1. UNCHANGED <<bid, offer, wallet, held, entry, frozen, fees, credited, cached,
                  spent, debited, retries, crashes>>
    BY DEF AwardRead, ledger, funding, failures
<1>2. MoneyInv' /\ BidInv' /\ PricesKept
    BY <1>1, MoneySame, BidsSame DEF WalletInv
<1>3. RestInv'
    BY <1>1 DEF AwardRead, WalletInv, RestInv
<1>4. JobInv'
  <2>1. CASE Begin(w, "drop", x, NewBid)
    <3>1. "drop" \in Jobs \ {"hold"} /\ "drop" \notin PayingJobs
        BY DEF Jobs, PayingJobs
    <3> QED BY <1>1, <2>1, <3>1, NewBidType, BeginKeeps DEF WalletInv
  <2>2. ASSUME NEW s \in Offered(x), Begin(w, "award", x, Terms(s, offer[x][s]))
        PROVE  JobInv'
    <3>1. s \in Tenants /\ offer[x][s] \in Prices
        BY <2>2 DEF Offered, WalletInv, RestInv
    <3>2. Terms(s, offer[x][s]) \in Bid /\ Terms(s, offer[x][s]).price = offer[x][s]
        BY <3>1, TermsType
    <3>3. "award" \in Jobs \ {"hold"}
        BY DEF Jobs
    <3> QED BY <1>1, <2>2, <3>1, <3>2, <3>3, BeginKeeps DEF WalletInv
  <2>3. CASE AtOnce
      BY <1>2, <2>3, JobsSame DEF AtOnce, WalletInv
  <2> QED BY <2>1, <2>2, <2>3 DEF AwardRead
<1> QED BY <1>2, <1>3, <1>4 DEF WalletInv

\* The watchdog's writes, the failed dispatch included.
LEMMA WatchSteps ==
    ASSUME WalletInv, NEW w \in Workers, NEW x \in Bids,
           \/ WatchCancel(w, x) \/ WatchMark(w, x) \/ Dispatch(w, x) \/ DispatchFails(w, x)
    PROVE  WalletInv'
<1>1. UNCHANGED <<offer, wallet, held, entry, frozen, fees, credited, cached,
                  spent, debited, retries, crashes>>
    BY DEF WatchCancel, WatchMark, Dispatch, DispatchFails, ledger, funding, failures
<1>2. MoneyInv'
    BY <1>1, MoneySame DEF WalletInv
<1>3. RestInv'
    BY <1>1 DEF WatchCancel, WatchMark, Dispatch, DispatchFails, WalletInv, RestInv
<1>4. BidInv' /\ PricesKept
  <2>1. CASE WatchCancel(w, x)
      BY <2>1, StatusWritten DEF WatchCancel, WalletInv
  <2>2. CASE WatchMark(w, x)
      BY <2>2, StatusWritten DEF WatchMark, WalletInv
  <2>3. CASE Dispatch(w, x)
      BY <2>3, BidsSame DEF Dispatch, WalletInv
  <2>4. CASE DispatchFails(w, x)
      BY <2>4, StatusWritten DEF DispatchFails, WalletInv
  <2> QED BY <2>1, <2>2, <2>3, <2>4
<1>5. JobInv'
  <2>1. CASE WatchMark(w, x)
    <3>1. "dispatch" \in Jobs /\ "dispatch" \notin PayingJobs
        BY DEF Jobs, PayingJobs
    <3> QED BY <1>4, <2>1, <3>1, TurnKeeps DEF WatchMark, WalletInv
  <2>2. CASE WatchCancel(w, x) \/ Dispatch(w, x) \/ DispatchFails(w, x)
      BY <1>4, <2>2, EndKeeps DEF WatchCancel, Dispatch, DispatchFails, WalletInv
  <2> QED BY <2>1, <2>2
<1> QED BY <1>2, <1>3, <1>4, <1>5 DEF WalletInv

\* The award writes the terms it has read, then holds their price.
LEMMA AwardSteps ==
    ASSUME WalletInv, NEW w \in Workers, NEW x \in Bids, AwardWrite(w, x) \/ AwardHold(w, x)
    PROVE  WalletInv'
<1>1. job[w].copy \in Bid
    BY DEF WalletInv, JobInv
<1>2. CASE AwardWrite(w, x)
  <2>1. /\ job[w].kind = "award" /\ job[w].target = x
        /\ job[w].copy.price \in Prices
      BY <1>2 DEF AwardWrite, Doing, WalletInv, JobInv, PayingJobs
  <2>2. job[w].copy.winner \in Tenants \cup {Nobody}
      BY <1>1 DEF Bid
  <2>3. BidInv' /\ PricesKept
      BY <1>2, <2>1, <2>2, AwardWritten DEF AwardWrite, WalletInv, BidStatus
  <2>4. bid'[x].price \in Prices
    <3>1. bid[x] \in Bid
        BY DEF WalletInv, BidInv
    <3> QED BY <1>2, <2>1, <3>1 DEF AwardWrite, WalletInv, BidInv, Bid
  <2>5. JobInv'
    <3>1. "hold" \in Jobs
        BY DEF Jobs
    <3> QED BY <1>2, <2>1, <2>3, <2>4, <3>1, TurnKeeps DEF AwardWrite, WalletInv
  <2>6. MoneyInv' /\ RestInv'
      BY <1>2, MoneySame, RestSame DEF AwardWrite, WalletInv, ledger, funding, failures
  <2> QED BY <2>3, <2>5, <2>6 DEF WalletInv
<1>3. CASE AwardHold(w, x)
  <2>1. /\ job[w].kind = "hold" /\ job[w].target = x
        /\ job[w].copy.price \in Prices /\ bid[x].price \in Prices
      BY <1>3 DEF AwardHold, Doing, WalletInv, JobInv, PayingJobs
  <2>2. RestInv' /\ End(w)
      BY <1>3, RestSame DEF AwardHold, WalletInv, funding, failures
  <2>3. MoneyInv'
    <3>1. UNCHANGED <<spent, debited>>
        BY <1>3 DEF AwardHold, funding
    <3>2. CASE Covers(BuyerOf[x], job[w].copy.price)
        BY <1>3, <2>1, <3>1, <3>2, HoldKeeps DEF AwardHold, WalletInv
    <3>3. CASE ~Covers(BuyerOf[x], job[w].copy.price)
        BY <1>3, <3>1, <3>3, MoneySame DEF AwardHold, WalletInv, ledger
    <3> QED BY <3>2, <3>3
  <2>4. BidInv' /\ PricesKept
    <3>1. CASE UNCHANGED bid
        BY <3>1, BidsSame DEF WalletInv
    <3>2. CASE bid' = [bid EXCEPT ![x].status = "escrow_held"]
      <4>1. bid[x] \in Bid
          BY DEF WalletInv, BidInv
      <4>2. bid'[x].price \in Prices
          BY <2>1, <3>2, <4>1 DEF WalletInv, BidInv, Bid
      <4>3. bid' = [bid EXCEPT ![x] = bid'[x]] /\ bid'[x] \in Bid
          BY <3>2, <4>1 DEF WalletInv, BidInv, Bid, BidStatus
      <4> QED BY <4>2, <4>3, RowWritten DEF WalletInv
    <3> QED BY <1>3, <3>1, <3>2 DEF AwardHold
  <2>5. JobInv'
      BY <2>2, <2>4, EndKeeps DEF WalletInv
  <2> QED BY <2>2, <2>3, <2>4, <2>5 DEF WalletInv
<1> QED BY <1>2, <1>3

\* Settlements move the price of the copy they read; the form puts its copy back.
LEMMA SettleSteps ==
    ASSUME WalletInv, NEW w \in Workers, NEW x \in Bids,
           ReleaseWrite(w, x) \/ RefundWrite(w, x) \/ FormSave(w, x)
    PROVE  WalletInv'
<1>1. UNCHANGED <<offer, credited, cached, spent, debited, queue, retries, crashes>> /\ End(w)
    BY DEF ReleaseWrite, RefundWrite, FormSave, funding, failures
<1>2. RestInv'
    BY <1>1, RestSame DEF WalletInv
<1>3. job[w].copy \in Bid
    BY DEF WalletInv, JobInv
<1>4. MoneyInv' /\ BidInv' /\ PricesKept
  <2>1. CASE ReleaseWrite(w, x)
    <3>1. job[w].copy.price \in Prices
        BY <2>1 DEF ReleaseWrite, Doing, WalletInv, JobInv, PayingJobs
    <3>2. MoneyInv'
        BY <1>1, <2>1, <3>1, ReleaseKeeps DEF ReleaseWrite, WalletInv
    <3>3. BidInv' /\ PricesKept
        BY <2>1, StatusWritten DEF ReleaseWrite, WalletInv
    <3> QED BY <3>2, <3>3
  <2>2. CASE RefundWrite(w, x)
    <3>1. job[w].copy.price \in Nat
      <4>1. job[w].copy.price \in Prices \cup {0}
          BY <1>3 DEF Bid
      <4> QED BY <4>1, PriceIsNat
    <3>2. MoneyInv'
        BY <1>1, <2>2, <3>1, RefundKeeps DEF RefundWrite, WalletInv
    <3>3. BidInv' /\ PricesKept
        BY <2>2, StatusWritten DEF RefundWrite, WalletInv
    <3> QED BY <3>2, <3>3
  <2>3. CASE FormSave(w, x)
    <3>1. job[w].copy.price \in Prices
        BY <2>3 DEF FormSave, Doing, WalletInv, JobInv, PayingJobs
    <3>2. MoneyInv'
        BY <1>1, <2>3, MoneySame DEF FormSave, WalletInv, ledger
    <3>3. bid' = [bid EXCEPT ![x] = bid'[x]] /\ bid'[x] = job[w].copy
        BY <2>3 DEF FormSave, WalletInv, BidInv
    <3> QED BY <1>3, <3>1, <3>2, <3>3, RowWritten DEF WalletInv
  <2> QED BY <2>1, <2>2, <2>3
<1>5. JobInv'
    BY <1>1, <1>4, EndKeeps DEF WalletInv
<1> QED BY <1>2, <1>4, <1>5 DEF WalletInv

\* Deposits, purchases and debits.
LEMMA MoneyReadSteps ==
    ASSUME WalletInv, NEW w \in Workers,
           \/ \E e \in Deposits : DepositRead(w, e)
           \/ \E t \in Tenants, n \in Prices : DebitCheck(w, t, n)
    PROVE  WalletInv'
<1>1. UNCHANGED <<bid, offer, wallet, held, entry, frozen, fees, credited, cached,
                  spent, debited, queue, retries, crashes>>
    BY DEF DepositRead, DebitCheck, ledger, funding, failures
<1>2. MoneyInv' /\ BidInv' /\ RestInv'
    BY <1>1, MoneySame, BidsSame, RestSame DEF WalletInv
<1>3. JobInv'
  <2>1. ASSUME NEW e \in Deposits, DepositRead(w, e)
        PROVE  JobInv'
    <3>1. "deposit" \in Jobs \ {"hold"} /\ "deposit" \notin PayingJobs
        BY DEF Jobs, PayingJobs
    <3>2. Begin(w, "deposit", e, NewBid)
        BY <2>1 DEF DepositRead
    <3> QED BY <1>1, <3>1, <3>2, NewBidType, BeginKeeps DEF WalletInv
  <2>2. ASSUME NEW t \in Tenants, NEW n \in Prices, DebitCheck(w, t, n)
        PROVE  JobInv'
    <3>1. "debit" \in Jobs \ {"hold"}
        BY DEF Jobs
    <3>2. Begin(w, "debit", t, Terms(Nobody, n))
        BY <2>2 DEF DebitCheck
    <3>3. Terms(Nobody, n) \in Bid /\ Terms(Nobody, n).price = n
        BY TermsType
    <3> QED BY <1>1, <3>1, <3>2, <3>3, BeginKeeps DEF WalletInv
  <2> QED BY <2>1, <2>2
<1> QED BY <1>2, <1>3 DEF WalletInv

LEMMA DepositStep ==
    ASSUME WalletInv, NEW w \in Workers, NEW e \in Deposits, DepositWrite(w, e)
    PROVE  WalletInv'
<1> DEFINE t == DepositOf[e].client
           n == DepositOf[e].amount
<1>1. t \in Tenants /\ n \in Nat
    BY WalletAssumption DEF WalletAssumption
<1>2. /\ UNCHANGED <<bid, offer, entry, fees, spent, debited, queue, retries>>
      /\ End(w) /\ Deposit(t, n, DepositOf[e].review)
    BY DEF DepositWrite
<1> HIDE DEF t, n
<1>3. MoneyInv'
  <2>1. CASE /\ frozen' = [frozen EXCEPT ![t] = @ + n]
             /\ held' = [held EXCEPT ![t] = @ + n]
             /\ UNCHANGED wallet
      BY <1>1, <1>2, <2>1 DEF WalletInv, MoneyInv, OverdraftOnlyByDebit
  <2>2. CASE /\ wallet' = [wallet EXCEPT ![t] = @ + n]
             /\ UNCHANGED <<frozen, held>>
    <3>1. wallet' \in [Tenants -> Int]
        BY <1>1, <2>2 DEF WalletInv, MoneyInv
    <3>2. \A u \in Tenants : wallet'[u] >= wallet[u]
        BY <1>1, <2>2 DEF WalletInv, MoneyInv
    <3>3. OverdraftOnlyByDebit'
        BY <1>2, <3>1, <3>2 DEF WalletInv, MoneyInv, OverdraftOnlyByDebit
    <3> QED BY <1>2, <2>2, <3>1, <3>3 DEF WalletInv, MoneyInv
  <2> QED BY <1>2, <2>1, <2>2 DEF Deposit
<1>4. BidInv' /\ PricesKept
    BY <1>2, BidsSame DEF WalletInv
<1>5. JobInv'
    BY <1>2, <1>4, EndKeeps DEF WalletInv
<1>6. RestInv'
    BY <1>2 DEF DepositWrite, WalletInv, RestInv
<1> QED BY <1>3, <1>4, <1>5, <1>6 DEF WalletInv

\* A purchase looks at the balance it reduces.
LEMMA SpendStep ==
    ASSUME WalletInv, NEW t \in Tenants, NEW n \in Prices, Spend(t, n)
    PROVE  WalletInv'
<1>1. n \in Nat
    BY WalletAssumption DEF WalletAssumption
<1>2. MoneyInv'
    BY <1>1 DEF Spend, Covers, WalletInv, MoneyInv, OverdraftOnlyByDebit
<1>3. BidInv' /\ PricesKept
    BY BidsSame DEF Spend, WalletInv
<1>4. JobInv'
    BY <1>3, JobsSame DEF Spend, AtOnce, WalletInv
<1>5. RestInv'
    BY RestSame DEF Spend, WalletInv, failures
<1> QED BY <1>2, <1>3, <1>4, <1>5 DEF WalletInv

\* What a debit takes without looking, `debited` counts.
LEMMA DebitStep ==
    ASSUME WalletInv, NEW w \in Workers, NEW t \in Tenants, DebitWrite(w, t)
    PROVE  WalletInv'
<1> DEFINE n == job[w].copy.price
<1>1. n \in Nat
  <2>1. job[w].copy \in Bid
      BY DEF WalletInv, JobInv
  <2>2. job[w].copy.price \in Prices \cup {0}
      BY <2>1 DEF Bid
  <2> QED BY <2>2, PriceIsNat
<1>2. /\ wallet' = [wallet EXCEPT ![t] = @ - n]
      /\ debited' = debited + n
      /\ End(w)
      /\ UNCHANGED <<bid, offer, held, entry, frozen, fees, credited, cached, spent, queue,
                     retries, crashes>>
    BY DEF DebitWrite, failures
<1> HIDE DEF n
<1>3. MoneyInv'
    BY <1>1, <1>2 DEF WalletInv, MoneyInv, OverdraftOnlyByDebit
<1>4. BidInv' /\ PricesKept
    BY <1>2, BidsSame DEF WalletInv
<1>5. JobInv'
    BY <1>2, <1>4, EndKeeps DEF WalletInv
<1>6. RestInv'
    BY <1>2, RestSame DEF WalletInv
<1> QED BY <1>3, <1>4, <1>5, <1>6 DEF WalletInv

\* A task that raises, and a worker that dies, lose their copy and no more.
LEMMA FailureSteps ==
    ASSUME WalletInv, NEW w \in Workers, (\E x \in Bids : Retry(w, x)) \/ Crash(w)
    PROVE  WalletInv'
<1>1. UNCHANGED <<bid, offer, wallet, held, entry, frozen, fees, credited, cached,
                  spent, debited>> /\ End(w)
    BY DEF Retry, Crash, ledger, funding
<1>2. MoneyInv' /\ BidInv' /\ PricesKept
    BY <1>1, MoneySame, BidsSame DEF WalletInv
<1>3. JobInv'
    BY <1>1, <1>2, EndKeeps DEF WalletInv
<1>4. RestInv'
    BY <1>1 DEF Retry, Crash, WalletInv, RestInv
<1> QED BY <1>2, <1>3, <1>4 DEF WalletInv

-----------------------------------------------------------------------------
(* The theorems                                                            *)

LEMMA WalletInvInit == WalletInit => WalletInv
<1> SUFFICES ASSUME WalletInit PROVE WalletInv
    OBVIOUS
<1>1. MoneyInv
    BY DEF WalletInit, MoneyInv, OverdraftOnlyByDebit
<1>2. BidInv
  <2>1. NewBid.winner = Nobody /\ NewBid.status = "open"
      BY DEF NewBid
  <2> QED BY <2>1, NewBidType DEF WalletInit, BidInv
<1>3. JobInv
  <2>1. NoJob.kind = "idle"
      BY DEF NoJob
  <2>2. NoJob \in [kind : Jobs, copy : Bid, target : Bids \cup Deposits \cup Tenants \cup {Nobody}]
      BY NewBidType DEF NoJob, Jobs
  <2> QED BY <2>1, <2>2 DEF WalletInit, JobInv, PayingJobs
<1>4. RestInv
    BY DEF WalletInit, RestInv
<1> QED BY <1>1, <1>2, <1>3, <1>4 DEF WalletInv

LEMMA WalletInvStep == WalletInv /\ [WalletNext]_walletVars => WalletInv'
<1> SUFFICES ASSUME WalletInv, [WalletNext]_walletVars PROVE WalletInv'
    OBVIOUS
<1>1. CASE UNCHANGED walletVars
  <2>1. MoneyInv' /\ BidInv' /\ PricesKept /\ RestInv'
      BY <1>1, MoneySame, BidsSame, RestSame DEF WalletInv, walletVars
  <2>2. JobInv'
      BY <1>1, <2>1, JobsSame DEF WalletInv, walletVars
  <2> QED BY <2>1, <2>2 DEF WalletInv
<1>2. ASSUME NEW x \in Bids, NEW s \in Tenants, NEW p \in Prices,
             SubmitOffer(x, s, p) \/ AutoAward(x, s, p)
      PROVE  WalletInv'
    BY <1>2, OfferSteps
<1>3. ASSUME NEW x \in Bids, Expire(x)
      PROVE  WalletInv'
    BY <1>3, ExpireStep
<1>4. ASSUME NEW w \in Workers, NEW x \in Bids, BidRequest(w, x)
      PROVE  WalletInv'
    BY <1>4, ReadSteps, AwardReadStep DEF BidRequest
<1>5. ASSUME NEW w \in Workers, NEW x \in Bids, BidStep(w, x)
      PROVE  WalletInv'
    BY <1>5, WatchSteps, AwardSteps, SettleSteps DEF BidStep
<1>6. ASSUME NEW w \in Workers, (\E x \in Bids : Retry(w, x)) \/ Crash(w)
      PROVE  WalletInv'
    BY <1>6, FailureSteps
<1>7. ASSUME NEW w \in Workers, MoneyStep(w)
      PROVE  WalletInv'
    BY <1>7, DepositStep, DebitStep DEF MoneyStep
<1>8. ASSUME NEW w \in Workers,
             \/ \E e \in Deposits : DepositRead(w, e)
             \/ \E t \in Tenants, n \in Prices : DebitCheck(w, t, n)
      PROVE  WalletInv'
    BY <1>8, MoneyReadSteps
<1>9. ASSUME NEW t \in Tenants, NEW n \in Prices, Spend(t, n)
      PROVE  WalletInv'
    BY <1>9, SpendStep
<1> QED BY <1>1, <1>2, <1>3, <1>4, <1>5, <1>6, <1>7, <1>8, <1>9 DEF WalletNext

LEMMA WalletInvHolds == WalletSpec => []WalletInv
BY WalletInvInit, WalletInvStep, PTL DEF WalletSpec

\* Every balance, row, job and counter keeps its type; the sums of the ledger's
\* rows and the fees never become negative.
THEOREM WalletTypes == WalletSpec => []WalletsTypeOK
<1>1. WalletInv => WalletsTypeOK
    BY DEF WalletInv, MoneyInv, BidInv, JobInv, RestInv, WalletsTypeOK
<1> QED BY <1>1, WalletInvHolds, PTL

\* Whatever overlaps, is lost or is delivered twice, a wallet is overdrawn by no
\* more than administrators debited: the holds of awards, purchases and automatic
\* awards compare the balance they reduce, under its lock.
THEOREM OverdraftBounded == WalletSpec => []OverdraftOnlyByDebit
<1>1. WalletInv => OverdraftOnlyByDebit
    BY DEF WalletInv, MoneyInv
<1> QED BY <1>1, WalletInvHolds, PTL

\* A bid that is awarded, and every job that will pay for it, has a price.
THEOREM AwardsArePriced == WalletSpec => [](BidInv /\ JobInv)
<1>1. WalletInv => BidInv /\ JobInv
    BY DEF WalletInv
<1> QED BY <1>1, WalletInvHolds, PTL

-----------------------------------------------------------------------------
(* Whoever is paid is a tenant                                             *)

\* An awarded bid has a winner, and so has every job that will write or pay
\* one.  A release to nobody would take the price out of escrow and put it
\* nowhere, so the balance of the ledger rests on this.
WinningJobs == {"award", "hold", "release", "form"}

WinnerBids ==
    \A x \in Bids : bid[x].status \in {"escrow_held", "shipped", "disputed"}
                        => bid[x].winner \in Tenants

WinnerJobs ==
    \A w \in Workers :
        /\ job[w].kind \in WinningJobs => job[w].copy.winner \in Tenants
        /\ job[w].kind = "hold" => bid[job[w].target].winner \in Tenants

WinnerInv == WinnerBids /\ WinnerJobs

\* No step takes the winner from a bid.
WinnersKept == \A x \in Bids : bid[x].winner \in Tenants => bid'[x].winner \in Tenants

LEMMA WinnersSame ==
    ASSUME WinnerBids, UNCHANGED bid
    PROVE  WinnerBids' /\ WinnersKept
BY DEF WinnerBids, WinnersKept

LEMMA WinnerRowWritten ==
    ASSUME BidInv, WinnerBids, NEW x \in Bids, bid' = [bid EXCEPT ![x] = bid'[x]],
           \/ bid'[x].winner \in Tenants
           \/ /\ bid'[x].winner = bid[x].winner
              /\ bid'[x].status \notin {"escrow_held", "shipped", "disputed"}
    PROVE  WinnerBids' /\ WinnersKept
<1>1. \A y \in Bids : bid'[y] = IF y = x THEN bid'[x] ELSE bid[y]
    BY DEF BidInv
<1> QED BY <1>1 DEF WinnerBids, WinnersKept

LEMMA WinnerStatusWritten ==
    ASSUME BidInv, WinnerBids, NEW x \in Bids,
           NEW status \in {"open", "awarding", "completed", "cancelled"},
           \/ bid' = [bid EXCEPT ![x].status = status]
           \/ bid' = [bid EXCEPT ![x].status = status, ![x].expired = FALSE]
    PROVE  WinnerBids' /\ WinnersKept
<1>1. bid[x] \in Bid
    BY DEF BidInv
<1>2. bid'[x].status = status /\ bid'[x].winner = bid[x].winner
    BY <1>1 DEF BidInv, Bid
<1>3. bid' = [bid EXCEPT ![x] = bid'[x]]
    BY DEF BidInv
<1> QED BY <1>2, <1>3, WinnerRowWritten

LEMMA WinnerJobsSame ==
    ASSUME JobInv, WinnerJobs, UNCHANGED job, WinnersKept
    PROVE  WinnerJobs'
BY DEF JobInv, WinnerJobs, WinnersKept

LEMMA WinnerJobsEnd ==
    ASSUME JobInv, WinnerJobs, NEW w \in Workers, End(w), WinnersKept
    PROVE  WinnerJobs'
<1>1. \A v \in Workers : job'[v] = IF v = w THEN NoJob ELSE job[v]
    BY DEF End, JobInv
<1>2. NoJob.kind = "idle"
    BY DEF NoJob
<1> QED BY <1>1, <1>2 DEF JobInv, WinnerJobs, WinningJobs, WinnersKept

LEMMA WinnerJobsBegin ==
    ASSUME JobInv, WinnerJobs, NEW w \in Workers, NEW kind, kind # "hold", NEW copy, NEW target,
           Begin(w, kind, target, copy), UNCHANGED bid,
           kind \in WinningJobs => copy.winner \in Tenants
    PROVE  WinnerJobs'
<1> DEFINE begun == [kind |-> kind, target |-> target, copy |-> copy]
<1>1. \A v \in Workers : job'[v] = IF v = w THEN begun ELSE job[v]
    BY DEF Begin, JobInv
<1>2. begun.kind = kind /\ begun.copy = copy
    OBVIOUS
<1> QED BY <1>1, <1>2 DEF WinnerJobs

LEMMA WinnerJobsTurn ==
    ASSUME JobInv, WinnerJobs, NEW w \in Workers, NEW kind, Turn(w, kind), WinnersKept,
           kind \in WinningJobs => job[w].copy.winner \in Tenants,
           kind = "hold" => bid'[job[w].target].winner \in Tenants
    PROVE  WinnerJobs'
<1>1. \A v \in Workers :
          /\ job'[v].kind = IF v = w THEN kind ELSE job[v].kind
          /\ job'[v].copy = job[v].copy /\ job'[v].target = job[v].target
    BY DEF Turn, JobInv
<1> QED BY <1>1 DEF JobInv, WinnerJobs, WinnersKept

LEMMA TermsWinner ==
    ASSUME NEW s, NEW p
    PROVE  Terms(s, p).winner = s
BY DEF Terms, NewBid

\* The requests read a winner where they need one.
LEMMA WinnerReads ==
    ASSUME WalletInv, WinnerInv, NEW w \in Workers, NEW x \in Bids, BidRequest(w, x)
    PROVE  WinnerInv'
<1>1. UNCHANGED bid
    BY DEF BidRequest, WatchScan, AwardRead, ReceiptRead, ResolveRead, FormRead
<1>2. WinnerBids' /\ WinnersKept
    BY <1>1, WinnersSame DEF WinnerInv
<1>3. bid[x] \in Bid /\ JobInv /\ WinnerJobs
    BY DEF WalletInv, BidInv, WinnerInv
<1>4. WinnerJobs'
  <2>1. CASE WatchScan(w, x)
    <3>1. PICK kind \in {"mark", "drop"} : Begin(w, kind, x, NewBid)
        BY <2>1 DEF WatchScan
    <3>2. kind \notin WinningJobs /\ kind # "hold"
        BY DEF WinningJobs
    <3> QED BY <1>1, <1>3, <3>1, <3>2, WinnerJobsBegin
  <2>2. CASE AwardRead(w, x)
    <3>1. CASE Begin(w, "drop", x, NewBid)
      <4>1. "drop" \notin WinningJobs /\ "drop" # "hold"
          BY DEF WinningJobs
      <4> QED BY <1>1, <1>3, <3>1, <4>1, WinnerJobsBegin
    <3>2. ASSUME NEW s \in Offered(x), Begin(w, "award", x, Terms(s, offer[x][s]))
          PROVE  WinnerJobs'
      <4>1. Terms(s, offer[x][s]).winner \in Tenants
          BY TermsWinner DEF Offered
      <4>2. "award" # "hold"
          OBVIOUS
      <4> HIDE DEF Terms
      <4> QED BY <1>1, <1>3, <3>2, <4>1, <4>2, WinnerJobsBegin
    <3>3. CASE AtOnce
        BY <1>2, <1>3, <3>3, WinnerJobsSame DEF AtOnce
    <3> QED BY <2>2, <3>1, <3>2, <3>3 DEF AwardRead
  <2>3. CASE ReceiptRead(w, x)
    <3>1. Terms(bid[x].winner, bid[x].price).winner \in Tenants
        BY <1>3, <2>3, TermsWinner DEF ReceiptRead, Bid
    <3>2. Begin(w, "release", x, Terms(bid[x].winner, bid[x].price)) /\ "release" # "hold"
        BY <2>3 DEF ReceiptRead
    <3> QED BY <1>1, <1>3, <3>1, <3>2, WinnerJobsBegin
  <2>4. CASE ResolveRead(w, x)
    <3>1. Terms(bid[x].winner, bid[x].price).winner \in Tenants
        BY <2>4, TermsWinner DEF ResolveRead, WinnerInv, WinnerBids
    <3>2. PICK decision \in {"refund", "release"} :
              Begin(w, decision, x, Terms(bid[x].winner, bid[x].price))
        BY <2>4 DEF ResolveRead
    <3>3. decision # "hold"
        OBVIOUS
    <3> QED BY <1>1, <1>3, <3>1, <3>2, <3>3, WinnerJobsBegin
  <2>5. CASE FormRead(w, x)
    <3>1. PICK new \in {"shipped", "disputed"} :
              Begin(w, "form", x, [bid[x] EXCEPT !.status = new])
        BY <2>5 DEF FormRead
    <3> DEFINE copy == [bid[x] EXCEPT !.status = new]
    <3>2. copy.winner = bid[x].winner
        BY <1>3 DEF Bid
    <3>3. bid[x].winner \in Tenants
        BY <2>5 DEF FormRead, WinnerInv, WinnerBids
    <3>4. Begin(w, "form", x, copy) /\ "form" # "hold"
        BY <3>1
    <3> HIDE DEF copy
    <3> QED BY <1>1, <1>3, <3>2, <3>3, <3>4, WinnerJobsBegin
  <2> QED BY <2>1, <2>2, <2>3, <2>4, <2>5 DEF BidRequest
<1> QED BY <1>2, <1>4 DEF WinnerInv

\* The steps of a job write a winner or keep the one that is there.
LEMMA WinnerWrites ==
    ASSUME WalletInv, WinnerInv, NEW w \in Workers, NEW x \in Bids, BidStep(w, x)
    PROVE  WinnerInv'
<1>1. BidInv /\ JobInv /\ WinnerBids /\ WinnerJobs /\ bid[x] \in Bid
    BY DEF WalletInv, BidInv, WinnerInv
<1>2. CASE WatchCancel(w, x) \/ DispatchFails(w, x) \/ ReleaseWrite(w, x) \/ RefundWrite(w, x)
  <2>1. End(w)
      BY <1>2 DEF WatchCancel, DispatchFails, ReleaseWrite, RefundWrite
  <2>2. WinnerBids' /\ WinnersKept
    <3>1. CASE WatchCancel(w, x)
        BY <1>1, <3>1, WinnerStatusWritten DEF WatchCancel
    <3>2. CASE DispatchFails(w, x)
        BY <1>1, <3>2, WinnerStatusWritten DEF DispatchFails
    <3>3. CASE ReleaseWrite(w, x)
        BY <1>1, <3>3, WinnerStatusWritten DEF ReleaseWrite
    <3>4. CASE RefundWrite(w, x)
        BY <1>1, <3>4, WinnerStatusWritten DEF RefundWrite
    <3> QED BY <1>2, <3>1, <3>2, <3>3, <3>4
  <2> QED BY <1>1, <2>1, <2>2, WinnerJobsEnd DEF WinnerInv
<1>3. CASE WatchMark(w, x)
  <2>1. WinnerBids' /\ WinnersKept
      BY <1>1, <1>3, WinnerStatusWritten DEF WatchMark
  <2>2. Turn(w, "dispatch") /\ "dispatch" \notin WinningJobs /\ "dispatch" # "hold"
      BY <1>3 DEF WatchMark, WinningJobs
  <2> QED BY <1>1, <2>1, <2>2, WinnerJobsTurn DEF WinnerInv
<1>4. CASE Dispatch(w, x)
  <2>1. UNCHANGED bid /\ End(w)
      BY <1>4 DEF Dispatch
  <2> QED BY <1>1, <2>1, WinnersSame, WinnerJobsEnd DEF WinnerInv
<1>5. CASE AwardWrite(w, x)
  <2>1. job[w].kind = "award" /\ job[w].target = x /\ job[w].copy.winner \in Tenants
      BY <1>1, <1>5 DEF AwardWrite, Doing, WinnerJobs, WinningJobs
  <2>2. bid' = [bid EXCEPT ![x] = bid'[x]] /\ bid'[x].winner \in Tenants
      BY <1>1, <1>5, <2>1 DEF AwardWrite, BidInv, Bid
  <2>3. WinnerBids' /\ WinnersKept
      BY <1>1, <2>2, WinnerRowWritten
  <2>4. Turn(w, "hold")
      BY <1>5 DEF AwardWrite
  <2> QED BY <1>1, <2>1, <2>2, <2>3, <2>4, WinnerJobsTurn DEF WinnerInv
<1>6. CASE AwardHold(w, x)
  <2>1. job[w].kind = "hold" /\ job[w].target = x /\ bid[x].winner \in Tenants /\ End(w)
      BY <1>1, <1>6 DEF AwardHold, Doing, WinnerJobs
  <2>2. WinnerBids' /\ WinnersKept
    <3>1. CASE UNCHANGED bid
        BY <1>1, <3>1, WinnersSame
    <3>2. CASE bid' = [bid EXCEPT ![x].status = "escrow_held"]
      <4>1. bid' = [bid EXCEPT ![x] = bid'[x]] /\ bid'[x].winner = bid[x].winner
          BY <1>1, <3>2 DEF BidInv, Bid
      <4> QED BY <1>1, <2>1, <4>1, WinnerRowWritten
    <3> QED BY <1>6, <3>1, <3>2 DEF AwardHold
  <2> QED BY <1>1, <2>1, <2>2, WinnerJobsEnd DEF WinnerInv
<1>7. CASE FormSave(w, x)
  <2>1. job[w].copy.winner \in Tenants /\ End(w)
      BY <1>1, <1>7 DEF FormSave, Doing, WinnerJobs, WinningJobs
  <2>2. bid' = [bid EXCEPT ![x] = bid'[x]] /\ bid'[x] = job[w].copy
      BY <1>1, <1>7 DEF FormSave, BidInv
  <2>3. WinnerBids' /\ WinnersKept
      BY <1>1, <2>1, <2>2, WinnerRowWritten
  <2> QED BY <1>1, <2>1, <2>3, WinnerJobsEnd DEF WinnerInv
<1> QED BY <1>2, <1>3, <1>4, <1>5, <1>6, <1>7 DEF BidStep

\* The other steps write no winner.
LEMMA WinnerOthers ==
    ASSUME WalletInv, WinnerInv,
           \/ \E x \in Bids, s \in Tenants, p \in Prices : SubmitOffer(x, s, p) \/ AutoAward(x, s, p)
           \/ \E x \in Bids : Expire(x)
           \/ \E w \in Workers, x \in Bids : Retry(w, x)
           \/ \E w \in Workers, e \in Deposits : DepositRead(w, e)
           \/ \E w \in Workers : MoneyStep(w) \/ Crash(w)
           \/ \E t \in Tenants, n \in Prices : Spend(t, n)
           \/ \E w \in Workers, t \in Tenants, n \in Prices : DebitCheck(w, t, n)
           \/ UNCHANGED walletVars
    PROVE  WinnerInv'
<1>1. BidInv /\ JobInv /\ WinnerBids /\ WinnerJobs
    BY DEF WalletInv, WinnerInv
<1>2. ASSUME NEW x \in Bids, NEW s \in Tenants, NEW p \in Prices, AutoAward(x, s, p)
      PROVE  WinnerInv'
  <2>1. bid' = [bid EXCEPT ![x] = bid'[x]] /\ bid'[x].winner \in Tenants /\ UNCHANGED job
      BY <1>1, <1>2 DEF AutoAward, AtOnce, BidInv, Bid
  <2> QED BY <1>1, <2>1, WinnerRowWritten, WinnerJobsSame DEF WinnerInv
<1>3. ASSUME NEW x \in Bids, Expire(x)
      PROVE  WinnerInv'
  <2>1. bid' = [bid EXCEPT ![x] = bid'[x]] /\ UNCHANGED job
      BY <1>1, <1>3 DEF Expire, BidInv
  <2>2. bid'[x].winner = bid[x].winner /\ bid'[x].status = "open"
      BY <1>1, <1>3 DEF Expire, BidInv, Bid
  <2> QED BY <1>1, <2>1, <2>2, WinnerRowWritten, WinnerJobsSame DEF WinnerInv
<1>4. ASSUME UNCHANGED bid, NEW w \in Workers, End(w)
      PROVE  WinnerInv'
    BY <1>1, <1>4, WinnersSame, WinnerJobsEnd DEF WinnerInv
<1>5. ASSUME UNCHANGED <<bid, job>>
      PROVE  WinnerInv'
    BY <1>1, <1>5, WinnersSame, WinnerJobsSame DEF WinnerInv
<1>6. ASSUME NEW w \in Workers, NEW e \in Deposits, DepositRead(w, e)
      PROVE  WinnerInv'
  <2>1. /\ UNCHANGED bid /\ Begin(w, "deposit", e, NewBid)
        /\ "deposit" \notin WinningJobs /\ "deposit" # "hold"
      BY <1>6 DEF DepositRead, WinningJobs
  <2> QED BY <1>1, <2>1, WinnersSame, WinnerJobsBegin DEF WinnerInv
<1>7. ASSUME NEW w \in Workers, NEW t \in Tenants, NEW n \in Prices, DebitCheck(w, t, n)
      PROVE  WinnerInv'
  <2>1. /\ UNCHANGED bid /\ Begin(w, "debit", t, Terms(Nobody, n))
        /\ "debit" \notin WinningJobs /\ "debit" # "hold"
      BY <1>7 DEF DebitCheck, WinningJobs
  <2> QED BY <1>1, <2>1, WinnersSame, WinnerJobsBegin DEF WinnerInv
<1>8. ASSUME NEW w \in Workers, (\E x \in Bids : Retry(w, x)) \/ MoneyStep(w) \/ Crash(w)
      PROVE  UNCHANGED bid /\ End(w)
    BY <1>8 DEF Retry, MoneyStep, DepositWrite, DebitWrite, Crash
<1>9. ASSUME NEW x \in Bids, NEW s \in Tenants, NEW p \in Prices, SubmitOffer(x, s, p)
      PROVE  UNCHANGED <<bid, job>>
    BY <1>9 DEF SubmitOffer, AtOnce
<1>10. ASSUME NEW t \in Tenants, NEW n \in Prices, Spend(t, n)
       PROVE  UNCHANGED <<bid, job>>
    BY <1>10 DEF Spend, AtOnce
<1>11. CASE UNCHANGED walletVars
    BY <1>5, <1>11 DEF walletVars
<1> QED BY <1>2, <1>3, <1>4, <1>5, <1>6, <1>7, <1>8, <1>9, <1>10, <1>11

LEMMA WinnerInvHolds == WalletSpec => [](WalletInv /\ WinnerInv)
<1>1. WalletInit => WalletInv /\ WinnerInv
  <2> SUFFICES ASSUME WalletInit PROVE WinnerInv
      BY WalletInvInit
  <2>1. NewBid.status = "open" /\ NoJob.kind = "idle"
      BY DEF NewBid, NoJob
  <2> QED BY <2>1 DEF WalletInit, WinnerInv, WinnerBids, WinnerJobs, WinningJobs
<1>2. WalletInv /\ WinnerInv /\ [WalletNext]_walletVars => (WalletInv /\ WinnerInv)'
  <2> SUFFICES ASSUME WalletInv, WinnerInv, [WalletNext]_walletVars PROVE WinnerInv'
      BY WalletInvStep
  <2>1. CASE \E w \in Workers, x \in Bids : BidRequest(w, x) \/ BidStep(w, x)
      BY <2>1, WinnerReads, WinnerWrites
  <2>2. CASE ~ \E w \in Workers, x \in Bids : BidRequest(w, x) \/ BidStep(w, x)
      BY <2>2, WinnerOthers DEF WalletNext
  <2> QED BY <2>1, <2>2
<1> QED BY <1>1, <1>2, PTL DEF WalletSpec

-----------------------------------------------------------------------------
(* The ledger                                                              *)

EscrowMatchesRows == \A t \in Tenants : held[t] = frozen[t] + HeldForBids(t)
MoneyIsSomewhere == Deposited = Balances + spent + debited + fees

\* There are finitely many rows to sum over.
LEMMA RowsFinite == IsFiniteSet(Tenants) /\ IsFiniteSet(Bids) /\ IsFiniteSet(Deposits)
BY WalletAssumption DEF WalletAssumption

LEMMA LedgerTypes ==
    ASSUME MoneyInv, RestInv
    PROVE  /\ \A x \in Bids : NetHeld(x) \in Int
           /\ \A t \in Tenants : HeldForBids(t) \in Int
           /\ \A e \in Deposits : credited[e] * DepositOf[e].amount \in Int
           /\ Deposited \in Int /\ Balances \in Int
<1>1. \A x \in Bids : NetHeld(x) \in Int
    BY DEF MoneyInv, NetHeld
<1>2. \A t \in Tenants : HeldForBids(t) \in Int
  <2> TAKE t \in Tenants
  <2> DEFINE f == [x \in Bids |-> IF BuyerOf[x] = t THEN NetHeld(x) ELSE 0]
  <2>1. \A x \in Bids : f[x] \in Int
      BY <1>1
  <2> HIDE DEF f
  <2>2. SumFunctionOnSet(f, Bids) \in Int
      BY <2>1, SumInt, RowsFinite
  <2> QED BY <2>2 DEF f, HeldForBids
<1>3. \A e \in Deposits : credited[e] * DepositOf[e].amount \in Int
    BY WalletAssumption DEF WalletAssumption, RestInv
<1>4. Deposited \in Int
  <2> DEFINE f == [e \in Deposits |-> credited[e] * DepositOf[e].amount]
  <2>1. \A e \in Deposits : f[e] \in Int
      BY <1>3
  <2> HIDE DEF f
  <2>2. SumFunctionOnSet(f, Deposits) \in Int
      BY <2>1, SumInt, RowsFinite
  <2> QED BY <2>2 DEF f, Deposited
<1>5. Balances \in Int
  <2> DEFINE f == [t \in Tenants |-> wallet[t] + held[t]]
  <2>1. \A t \in Tenants : f[t] \in Int
      BY DEF MoneyInv
  <2> HIDE DEF f
  <2>2. SumFunctionOnSet(f, Tenants) \in Int
      BY <2>1, SumInt, RowsFinite
  <2> QED BY <2>2 DEF f, Balances
<1> QED BY <1>1, <1>2, <1>3, <1>4, <1>5

\* A movement of n on the rows of one bid is a movement of n on its buyer's
\* escrow.
LEMMA EscrowMoves ==
    ASSUME MoneyInv, RestInv, MoneyInv', EscrowMatchesRows, NEW x \in Bids, NEW n \in Int,
           held' = [held EXCEPT ![BuyerOf[x]] = @ + n], UNCHANGED frozen,
           NetHeld(x)' = NetHeld(x) + n,
           \A y \in Bids \ {x} : entry'[y] = entry[y]
    PROVE  EscrowMatchesRows'
<1> SUFFICES ASSUME NEW t \in Tenants
             PROVE  held'[t] = frozen'[t] + HeldForBids(t)'
    BY DEF EscrowMatchesRows
<1> DEFINE f == [y \in Bids |-> IF BuyerOf[y] = t THEN NetHeld(y) ELSE 0]
           g == [y \in Bids |-> IF BuyerOf[y] = t THEN NetHeld(y)' ELSE 0]
<1>1. \A y \in Bids : NetHeld(y) \in Int /\ NetHeld(y)' \in Int
    BY DEF MoneyInv, NetHeld
<1>2. \A y \in Bids \ {x} : NetHeld(y)' = NetHeld(y)
    BY DEF NetHeld
<1>3. f \in [Bids -> Int] /\ g \in [Bids -> Int]
    BY <1>1
<1>4. g = [f EXCEPT ![x] = g[x]]
    BY <1>2
<1>5. g[x] - f[x] = IF BuyerOf[x] = t THEN n ELSE 0
    BY <1>1
<1>6. HeldForBids(t) = SumFunctionOnSet(f, Bids) /\ HeldForBids(t)' = SumFunctionOnSet(g, Bids)
    BY DEF HeldForBids
<1>7. SumFunctionOnSet(g, Bids) = SumFunctionOnSet(f, Bids) + g[x] - f[x]
  <2> HIDE DEF f, g
  <2> QED BY <1>3, <1>4, SumWrite, RowsFinite
<1>8. HeldForBids(t) \in Int /\ held[t] = frozen[t] + HeldForBids(t)
    BY LedgerTypes DEF EscrowMatchesRows
<1>9. f[x] \in Int /\ g[x] \in Int /\ held[t] \in Int /\ frozen[t] \in Int
    BY <1>3 DEF MoneyInv
<1>10. held'[t] = held[t] + (IF BuyerOf[x] = t THEN n ELSE 0)
    BY DEF MoneyInv
<1> HIDE DEF f, g
<1> QED BY <1>5, <1>6, <1>7, <1>8, <1>9, <1>10

\* Nor does a step that leaves escrow and rows alone.
LEMMA EscrowSame ==
    ASSUME EscrowMatchesRows, UNCHANGED <<held, frozen, entry>>
    PROVE  EscrowMatchesRows'
<1>1. \A t \in Tenants : HeldForBids(t)' = HeldForBids(t)
    BY DEF HeldForBids, NetHeld
<1> QED BY <1>1 DEF EscrowMatchesRows

\* A deposit under review is frozen and held by the same sum.
LEMMA EscrowFrozen ==
    ASSUME MoneyInv, RestInv, EscrowMatchesRows, NEW u \in Tenants, NEW n \in Int,
           held' = [held EXCEPT ![u] = @ + n], frozen' = [frozen EXCEPT ![u] = @ + n],
           UNCHANGED entry
    PROVE  EscrowMatchesRows'
<1> SUFFICES ASSUME NEW t \in Tenants
             PROVE  held'[t] = frozen'[t] + HeldForBids(t)'
    BY DEF EscrowMatchesRows
<1>1. HeldForBids(t)' = HeldForBids(t)
    BY DEF HeldForBids, NetHeld
<1>2. HeldForBids(t) \in Int /\ held[t] = frozen[t] + HeldForBids(t)
    BY LedgerTypes DEF EscrowMatchesRows
<1>3. /\ held'[t] = held[t] + (IF u = t THEN n ELSE 0)
      /\ frozen'[t] = frozen[t] + (IF u = t THEN n ELSE 0)
    BY DEF MoneyInv
<1>4. held[t] \in Int /\ frozen[t] \in Int
    BY DEF MoneyInv
<1> QED BY <1>1, <1>2, <1>3, <1>4

\* The balances of all tenants change by what one tenant's do.
LEMMA BalanceMoves ==
    ASSUME MoneyInv, RestInv, MoneyInv', NEW t \in Tenants, NEW n \in Int,
           wallet'[t] + held'[t] = wallet[t] + held[t] + n,
           \A u \in Tenants \ {t} : wallet'[u] + held'[u] = wallet[u] + held[u]
    PROVE  Balances' = Balances + n
<1> DEFINE f == [u \in Tenants |-> wallet[u] + held[u]]
           g == [u \in Tenants |-> wallet'[u] + held'[u]]
<1>1. f \in [Tenants -> Int] /\ g \in [Tenants -> Int]
    BY DEF MoneyInv
<1>2. g = [f EXCEPT ![t] = g[t]]
    OBVIOUS
<1>3. g[t] = f[t] + n
    OBVIOUS
<1>4. Balances = SumFunctionOnSet(f, Tenants) /\ Balances' = SumFunctionOnSet(g, Tenants)
    BY DEF Balances
<1>5. f[t] \in Int /\ g[t] \in Int
    BY <1>1
<1> HIDE DEF f, g
<1>6. SumFunctionOnSet(g, Tenants) = SumFunctionOnSet(f, Tenants) + g[t] - f[t]
    BY <1>1, <1>2, SumWrite, RowsFinite
<1>7. SumFunctionOnSet(f, Tenants) \in Int
    BY <1>1, SumInt, RowsFinite
<1> QED BY <1>3, <1>4, <1>5, <1>6, <1>7

\* Two tenants' balances change in a release: the buyer's escrow gives the
\* price, the winner's wallet gets it less the fee.
LEMMA BalanceRelease ==
    ASSUME MoneyInv, RestInv, MoneyInv', NEW b \in Tenants, NEW s \in Tenants,
           NEW m \in Int, NEW n \in Int,
           \A u \in Tenants : wallet'[u] + held'[u] = wallet[u] + held[u]
                                  + (IF u = b THEN m ELSE 0) + (IF u = s THEN n ELSE 0)
    PROVE  Balances' = Balances + m + n
<1> DEFINE f == [u \in Tenants |-> wallet[u] + held[u]]
           g == [u \in Tenants |-> wallet'[u] + held'[u]]
           h == [u \in Tenants |-> wallet[u] + held[u] + (IF u = b THEN m ELSE 0)]
<1>1. f \in [Tenants -> Int] /\ g \in [Tenants -> Int] /\ h \in [Tenants -> Int]
    BY DEF MoneyInv
<1>2. \A u \in Tenants : /\ h[u] = f[u] + (IF u = b THEN m ELSE 0)
                         /\ g[u] = h[u] + (IF u = s THEN n ELSE 0)
    OBVIOUS
<1>3. Balances = SumFunctionOnSet(f, Tenants) /\ Balances' = SumFunctionOnSet(g, Tenants)
    BY DEF Balances
<1> HIDE DEF f, g, h
<1>4. h = [f EXCEPT ![b] = h[b]] /\ g = [h EXCEPT ![s] = g[s]]
    BY <1>1, <1>2
<1>5. SumFunctionOnSet(h, Tenants) = SumFunctionOnSet(f, Tenants) + h[b] - f[b]
    BY <1>1, <1>4, SumWrite, RowsFinite
<1>6. SumFunctionOnSet(g, Tenants) = SumFunctionOnSet(h, Tenants) + g[s] - h[s]
    BY <1>1, <1>4, SumWrite, RowsFinite
<1>7. SumFunctionOnSet(f, Tenants) \in Int
    BY <1>1, SumInt, RowsFinite
<1>8. /\ h[b] = f[b] + m /\ g[s] = h[s] + n
      /\ f[b] \in Int /\ h[b] \in Int /\ g[s] \in Int /\ h[s] \in Int
    BY <1>1, <1>2
<1> QED BY <1>3, <1>5, <1>6, <1>7, <1>8

LEMMA DepositedSame ==
    ASSUME UNCHANGED credited
    PROVE  Deposited' = Deposited
BY DEF Deposited

\* An event credited once more adds its amount.
LEMMA DepositedMoves ==
    ASSUME RestInv, NEW e \in Deposits, credited' = [credited EXCEPT ![e] = @ + 1]
    PROVE  Deposited' = Deposited + DepositOf[e].amount
<1> DEFINE f == [d \in Deposits |-> credited[d] * DepositOf[d].amount]
           g == [d \in Deposits |-> credited'[d] * DepositOf[d].amount]
<1>1. \A d \in Deposits : credited[d] \in Nat /\ credited'[d] \in Nat /\ DepositOf[d].amount \in Nat
  <2>1. \A d \in Deposits : DepositOf[d].amount \in Nat
      BY WalletAssumption DEF WalletAssumption
  <2>2. \A d \in Deposits : credited[d] \in Nat /\ credited'[d] \in Nat
      BY DEF RestInv
  <2> QED BY <2>1, <2>2
<1>2. f \in [Deposits -> Int] /\ g \in [Deposits -> Int]
    BY <1>1
<1>3. g = [f EXCEPT ![e] = g[e]]
    BY DEF RestInv
<1>4. g[e] = f[e] + DepositOf[e].amount
  <2>1. g[e] = (credited[e] + 1) * DepositOf[e].amount
      BY DEF RestInv
  <2>2. \A k, a \in Nat : (k + 1) * a = k * a + a
      OBVIOUS
  <2> QED BY <1>1, <2>1, <2>2
<1>5. Deposited = SumFunctionOnSet(f, Deposits) /\ Deposited' = SumFunctionOnSet(g, Deposits)
    BY DEF Deposited
<1>6. f[e] \in Int /\ DepositOf[e].amount \in Int
    BY <1>1, <1>2
<1> HIDE DEF f, g
<1>7. SumFunctionOnSet(g, Deposits) = SumFunctionOnSet(f, Deposits) + g[e] - f[e]
    BY <1>2, <1>3, SumWrite, RowsFinite
<1>8. SumFunctionOnSet(f, Deposits) \in Int
    BY <1>2, SumInt, RowsFinite
<1> QED BY <1>4, <1>5, <1>6, <1>7, <1>8

\* What is neither credited nor moved stays where it was.
LEMMA LedgerSame ==
    ASSUME BalancesMatchLedger,
           UNCHANGED <<wallet, held, entry, frozen, credited, spent, debited, fees>>
    PROVE  BalancesMatchLedger'
<1>1. EscrowMatchesRows'
    BY EscrowSame DEF BalancesMatchLedger, EscrowMatchesRows
<1>2. Deposited' = Deposited /\ Balances' = Balances
    BY DepositedSame DEF Balances
<1> QED BY <1>1, <1>2 DEF BalancesMatchLedger, EscrowMatchesRows

LEMMA LedgerParts == BalancesMatchLedger <=> EscrowMatchesRows /\ MoneyIsSomewhere
BY DEF BalancesMatchLedger, EscrowMatchesRows, MoneyIsSomewhere

LEMMA HoldBalances ==
    ASSUME MoneyInv, RestInv, MoneyInv', BalancesMatchLedger, NEW x \in Bids, NEW p \in Prices,
           Hold(x, p), UNCHANGED <<credited, spent, debited>>
    PROVE  BalancesMatchLedger'
<1>1. p \in Nat /\ BuyerOf[x] \in Tenants
    BY WalletAssumption DEF WalletAssumption
<1>2. entry[x] \in [hold : Nat, release : Nat, refund : Nat]
    BY DEF MoneyInv
<1>3. EscrowMatchesRows'
  <2>1. NetHeld(x)' = NetHeld(x) + p
      BY <1>1, <1>2 DEF Hold, NetHeld, MoneyInv
  <2>2. \A y \in Bids \ {x} : entry'[y] = entry[y]
      BY DEF Hold, MoneyInv
  <2>3. held' = [held EXCEPT ![BuyerOf[x]] = @ + p] /\ UNCHANGED frozen
      BY DEF Hold
  <2>4. p \in Int /\ EscrowMatchesRows
      BY <1>1, LedgerParts
  <2> QED BY <2>1, <2>2, <2>3, <2>4, EscrowMoves
<1>4. Balances' = Balances + 0
  <2>1. \A u \in Tenants : wallet'[u] + held'[u] = wallet[u] + held[u]
      BY <1>1 DEF Hold, MoneyInv
  <2>2. wallet'[BuyerOf[x]] + held'[BuyerOf[x]] = wallet[BuyerOf[x]] + held[BuyerOf[x]] + 0
      BY <1>1, <2>1 DEF MoneyInv
  <2> QED BY <1>1, <2>1, <2>2, BalanceMoves
<1>5. Deposited' = Deposited /\ fees' = fees
    BY DepositedSame DEF Hold
<1> QED BY <1>3, <1>4, <1>5, LedgerTypes DEF BalancesMatchLedger, EscrowMatchesRows

\* The winner gets the price less the fee, which is the platform's.
LEMMA ReleaseBalances ==
    ASSUME MoneyInv, RestInv, MoneyInv', BalancesMatchLedger, NEW x \in Bids, NEW p \in Prices,
           NEW s \in Tenants, Release(x, s, p), UNCHANGED <<credited, spent, debited>>
    PROVE  BalancesMatchLedger'
<1> DEFINE excess == IF NetHeld(x) > p THEN NetHeld(x) - p ELSE 0
<1>1. p \in Nat /\ BuyerOf[x] \in Tenants /\ FeeOf[p] \in Nat
    BY WalletAssumption DEF WalletAssumption
<1>2. entry[x] \in [hold : Nat, release : Nat, refund : Nat]
    BY DEF MoneyInv
<1>3. excess \in Nat
    BY <1>1, <1>2 DEF NetHeld
<1>4. /\ held' = [held EXCEPT ![BuyerOf[x]] = @ - excess - p]
      /\ wallet' = [t \in Tenants |->
                      wallet[t] + (IF t = BuyerOf[x] THEN excess ELSE 0)
                                + (IF t = s THEN p - FeeOf[p] ELSE 0)]
      /\ entry' = [entry EXCEPT ![x].refund = @ + excess, ![x].release = @ + p]
      /\ fees' = fees + FeeOf[p]
      /\ frozen' = frozen
    BY DEF Release
<1> DEFINE moved == 0 - excess - p
           paid == p - FeeOf[p]
<1>5. moved \in Int /\ paid \in Int
    BY <1>1, <1>3
<1>6. EscrowMatchesRows'
  <2>1. NetHeld(x)' = NetHeld(x) + moved
    <3>1. /\ entry'[x].hold = entry[x].hold
          /\ entry'[x].release = entry[x].release + p
          /\ entry'[x].refund = entry[x].refund + excess
        <4> HIDE DEF excess
        <4> QED BY <1>2, <1>4 DEF MoneyInv
    <3> HIDE DEF excess
    <3> QED BY <1>1, <1>2, <1>3, <3>1 DEF NetHeld
  <2> HIDE DEF excess
  <2>2. \A y \in Bids \ {x} : entry'[y] = entry[y]
      BY <1>4 DEF MoneyInv
  <2>3. held' = [held EXCEPT ![BuyerOf[x]] = @ + moved] /\ UNCHANGED frozen
    <3>1. held[BuyerOf[x]] + moved = held[BuyerOf[x]] - excess - p
        BY <1>1, <1>3 DEF MoneyInv
    <3> HIDE DEF moved
    <3> QED BY <1>4, <3>1
  <2> HIDE DEF moved
  <2> QED BY <1>5, <2>1, <2>2, <2>3, LedgerParts, EscrowMoves
<1>7. Balances' = Balances + (0 - p) + paid
  <2> HIDE DEF excess
  <2>1. \A u \in Tenants : wallet'[u] + held'[u] = wallet[u] + held[u]
                 + (IF u = BuyerOf[x] THEN 0 - p ELSE 0) + (IF u = s THEN paid ELSE 0)
      BY <1>1, <1>3, <1>4 DEF MoneyInv
  <2>2. 0 - p \in Int
      BY <1>1
  <2> HIDE DEF paid
  <2> QED BY <1>1, <1>5, <2>1, <2>2, BalanceRelease
<1>8. Deposited' = Deposited
    BY DepositedSame
<1>9. fees \in Nat /\ spent \in Nat /\ debited \in Nat /\ Balances \in Int
    BY LedgerTypes DEF MoneyInv
<1>10. MoneyIsSomewhere'
  <2> HIDE DEF excess
  <2> QED BY <1>1, <1>4, <1>7, <1>8, <1>9 DEF BalancesMatchLedger, MoneyIsSomewhere
<1> QED BY <1>6, <1>10 DEF BalancesMatchLedger, EscrowMatchesRows, MoneyIsSomewhere

LEMMA RefundBalances ==
    ASSUME MoneyInv, RestInv, MoneyInv', BalancesMatchLedger, NEW x \in Bids, NEW p \in Nat,
           Refund(x, p), UNCHANGED <<credited, spent, debited>>
    PROVE  BalancesMatchLedger'
<1> DEFINE amount == IF NetHeld(x) > 0 THEN NetHeld(x) ELSE p
           moved == 0 - amount
<1>1. BuyerOf[x] \in Tenants
    BY WalletAssumption DEF WalletAssumption
<1>2. entry[x] \in [hold : Nat, release : Nat, refund : Nat]
    BY DEF MoneyInv
<1>3. amount \in Nat
    BY <1>2 DEF NetHeld
<1>4. /\ held' = [held EXCEPT ![BuyerOf[x]] = @ - amount]
      /\ wallet' = [wallet EXCEPT ![BuyerOf[x]] = @ + amount]
      /\ entry' = [entry EXCEPT ![x].refund = @ + amount]
      /\ UNCHANGED <<frozen, fees>>
    BY DEF Refund
<1> HIDE DEF amount
<1>5. moved \in Int
    BY <1>3
<1>6. EscrowMatchesRows'
  <2>1. NetHeld(x)' = NetHeld(x) + moved
      BY <1>2, <1>3, <1>4 DEF NetHeld, MoneyInv
  <2>2. \A y \in Bids \ {x} : entry'[y] = entry[y]
      BY <1>4 DEF MoneyInv
  <2>3. held' = [held EXCEPT ![BuyerOf[x]] = @ + moved] /\ UNCHANGED frozen
    <3>1. held[BuyerOf[x]] + moved = held[BuyerOf[x]] - amount
        BY <1>1, <1>3 DEF MoneyInv
    <3> HIDE DEF moved
    <3> QED BY <1>4, <3>1
  <2> HIDE DEF moved
  <2> QED BY <1>5, <2>1, <2>2, <2>3, LedgerParts, EscrowMoves
<1>7. Balances' = Balances + 0
  <2>1. \A u \in Tenants : wallet'[u] + held'[u] = wallet[u] + held[u]
      BY <1>1, <1>3, <1>4 DEF MoneyInv
  <2>2. wallet'[BuyerOf[x]] + held'[BuyerOf[x]] = wallet[BuyerOf[x]] + held[BuyerOf[x]] + 0
      BY <1>1, <2>1 DEF MoneyInv
  <2> QED BY <1>1, <2>1, <2>2, BalanceMoves
<1>8. Deposited' = Deposited
    BY DepositedSame
<1> QED BY <1>4, <1>6, <1>7, <1>8, LedgerTypes DEF BalancesMatchLedger, EscrowMatchesRows

\* A deposit arrives in the wallet or, under review, in escrow.
LEMMA DepositBalances ==
    ASSUME WalletInv, WalletInv', BalancesMatchLedger, NEW w \in Workers, NEW e \in Deposits,
           DepositWrite(w, e)
    PROVE  BalancesMatchLedger'
<1> DEFINE t == DepositOf[e].client
           n == DepositOf[e].amount
<1>1. t \in Tenants /\ n \in Nat
    BY WalletAssumption DEF WalletAssumption
<1>2. /\ Deposit(t, n, DepositOf[e].review)
      /\ credited' = [credited EXCEPT ![e] = @ + 1]
      /\ UNCHANGED <<entry, spent, debited, fees>>
    BY DEF DepositWrite
<1>3. Deposited' = Deposited + n
    BY <1>2, DepositedMoves DEF WalletInv
<1> HIDE DEF t, n
<1>4. CASE /\ frozen' = [frozen EXCEPT ![t] = @ + n]
           /\ held' = [held EXCEPT ![t] = @ + n]
           /\ UNCHANGED wallet
  <2>1. EscrowMatchesRows'
    <3>1. n \in Int /\ EscrowMatchesRows /\ MoneyInv /\ RestInv /\ UNCHANGED entry
        BY <1>1, <1>2, LedgerParts DEF WalletInv
    <3> QED BY <1>1, <1>4, <3>1, EscrowFrozen
  <2>2. wallet'[t] + held'[t] = wallet[t] + held[t] + n
      BY <1>1, <1>4 DEF WalletInv, MoneyInv
  <2>3. \A u \in Tenants \ {t} : wallet'[u] + held'[u] = wallet[u] + held[u]
      BY <1>4 DEF WalletInv, MoneyInv
  <2>4. Balances' = Balances + n
      BY <1>1, <2>2, <2>3, BalanceMoves DEF WalletInv
  <2> QED BY <1>1, <1>2, <1>3, <2>1, <2>4, LedgerTypes
          DEF BalancesMatchLedger, EscrowMatchesRows, WalletInv, MoneyInv
<1>5. CASE /\ wallet' = [wallet EXCEPT ![t] = @ + n]
           /\ UNCHANGED <<frozen, held>>
  <2>1. EscrowMatchesRows'
      BY <1>2, <1>5, LedgerParts, EscrowSame
  <2>2. wallet'[t] + held'[t] = wallet[t] + held[t] + n
      BY <1>1, <1>5 DEF WalletInv, MoneyInv
  <2>3. \A u \in Tenants \ {t} : wallet'[u] + held'[u] = wallet[u] + held[u]
      BY <1>5 DEF WalletInv, MoneyInv
  <2>4. Balances' = Balances + n
      BY <1>1, <2>2, <2>3, BalanceMoves DEF WalletInv
  <2> QED BY <1>1, <1>2, <1>3, <2>1, <2>4, LedgerTypes
          DEF BalancesMatchLedger, EscrowMatchesRows, WalletInv, MoneyInv
<1> QED BY <1>2, <1>4, <1>5 DEF Deposit

\* Purchases and debits are what the tenants paid out.
LEMMA PaymentBalances ==
    ASSUME MoneyInv, RestInv, MoneyInv', BalancesMatchLedger, NEW t \in Tenants, NEW n \in Nat,
           wallet' = [wallet EXCEPT ![t] = @ - n], spent' + debited' = spent + debited + n,
           UNCHANGED <<held, entry, frozen, fees, credited>>
    PROVE  BalancesMatchLedger'
<1>1. EscrowMatchesRows'
    BY EscrowSame, LedgerParts
<1>2. Balances' = Balances + (0 - n)
  <2>1. wallet'[t] + held'[t] = wallet[t] + held[t] + (0 - n)
      BY DEF MoneyInv
  <2>2. \A u \in Tenants \ {t} : wallet'[u] + held'[u] = wallet[u] + held[u]
      BY DEF MoneyInv
  <2>3. 0 - n \in Int
      OBVIOUS
  <2> QED BY <2>1, <2>2, <2>3, BalanceMoves
<1>3. Deposited' = Deposited
    BY DepositedSame
<1>4. /\ Balances \in Int /\ fees \in Int /\ spent \in Int /\ debited \in Int
      /\ spent' \in Int /\ debited' \in Int
    BY LedgerTypes DEF MoneyInv
<1>5. MoneyIsSomewhere'
  <2> DEFINE paidOut == spent + debited
  <2>1. paidOut \in Int /\ paidOut' \in Int /\ fees \in Int /\ Balances \in Int /\ Balances' \in Int
      BY <1>2, <1>4
  <2>2. Deposited = Balances + paidOut + fees
      BY <1>4 DEF BalancesMatchLedger
  <2>3. Deposited' = Balances' + paidOut' + fees' <=> MoneyIsSomewhere'
      BY <1>4, <2>1 DEF MoneyIsSomewhere
  <2>4. paidOut' = paidOut + n
      BY <1>4
  <2> HIDE DEF paidOut
  <2>5. Balances' + paidOut' = Balances + paidOut
      BY <1>2, <2>1, <2>4
  <2> QED BY <1>3, <2>2, <2>3, <2>5
<1> QED BY <1>1, <1>5 DEF BalancesMatchLedger, EscrowMatchesRows, MoneyIsSomewhere

LEMMA BalancesStep ==
    ASSUME WalletInv, WalletInv', WinnerInv, BalancesMatchLedger, [WalletNext]_walletVars
    PROVE  BalancesMatchLedger'
<1>1. MoneyInv /\ MoneyInv' /\ RestInv /\ JobInv
    BY DEF WalletInv
<1>2. ASSUME NEW x \in Bids, NEW s \in Tenants, NEW p \in Prices, SubmitOffer(x, s, p)
      PROVE  BalancesMatchLedger'
    BY <1>2, LedgerSame DEF SubmitOffer, ledger, funding
<1>3. ASSUME NEW x \in Bids, NEW s \in Tenants, NEW p \in Prices, AutoAward(x, s, p)
      PROVE  BalancesMatchLedger'
    BY <1>1, <1>3, HoldBalances DEF AutoAward, funding
<1>4. ASSUME NEW x \in Bids, Expire(x)
      PROVE  BalancesMatchLedger'
    BY <1>4, LedgerSame DEF Expire, ledger, funding
<1>5. ASSUME NEW w \in Workers, NEW x \in Bids, BidRequest(w, x)
      PROVE  BalancesMatchLedger'
    BY <1>5, LedgerSame
    DEF BidRequest, WatchScan, AwardRead, ReceiptRead, ResolveRead, FormRead, ledger, funding
<1>6. ASSUME NEW w \in Workers, NEW x \in Bids, BidStep(w, x)
      PROVE  BalancesMatchLedger'
  <2>1. CASE \/ WatchCancel(w, x) \/ WatchMark(w, x) \/ Dispatch(w, x) \/ DispatchFails(w, x)
             \/ AwardWrite(w, x) \/ FormSave(w, x)
      BY <2>1, LedgerSame
      DEF WatchCancel, WatchMark, Dispatch, DispatchFails, AwardWrite, FormSave, ledger, funding
  <2>2. CASE AwardHold(w, x)
    <3>1. job[w].copy.price \in Prices /\ UNCHANGED <<credited, spent, debited>>
        BY <1>1, <2>2 DEF AwardHold, Doing, JobInv, PayingJobs, funding
    <3>2. CASE Hold(x, job[w].copy.price)
        BY <1>1, <3>1, <3>2, HoldBalances
    <3>3. CASE UNCHANGED ledger
        BY <3>1, <3>3, LedgerSame DEF ledger
    <3> QED BY <2>2, <3>2, <3>3 DEF AwardHold
  <2>3. CASE ReleaseWrite(w, x)
    <3>1. job[w].copy.price \in Prices /\ UNCHANGED <<credited, spent, debited>>
        BY <1>1, <2>3 DEF ReleaseWrite, Doing, JobInv, PayingJobs, funding
    <3>2. job[w].copy.winner \in Tenants
        BY <2>3 DEF ReleaseWrite, Doing, WinnerInv, WinnerJobs, WinningJobs
    <3>3. Release(x, job[w].copy.winner, job[w].copy.price)
        BY <2>3 DEF ReleaseWrite
    <3> QED BY <1>1, <3>1, <3>2, <3>3, ReleaseBalances
  <2>4. CASE RefundWrite(w, x)
    <3>1. job[w].copy \in Bid /\ UNCHANGED <<credited, spent, debited>>
        BY <1>1, <2>4 DEF RefundWrite, JobInv, funding
    <3>2. job[w].copy.price \in Nat
      <4>1. job[w].copy.price \in Prices \cup {0}
          BY <3>1 DEF Bid
      <4> QED BY <4>1, PriceIsNat
    <3>3. Refund(x, job[w].copy.price)
        BY <2>4 DEF RefundWrite
    <3> QED BY <1>1, <3>1, <3>2, <3>3, RefundBalances
  <2> QED BY <1>6, <2>1, <2>2, <2>3, <2>4 DEF BidStep
<1>7. ASSUME NEW w \in Workers, NEW e \in Deposits, DepositWrite(w, e)
      PROVE  BalancesMatchLedger'
    BY <1>7, DepositBalances
<1>8. ASSUME NEW w \in Workers, NEW t \in Tenants, DebitWrite(w, t)
      PROVE  BalancesMatchLedger'
  <2>1. job[w].copy \in Bid
      BY <1>1 DEF JobInv
  <2>2. job[w].copy.price \in Nat
    <3>1. job[w].copy.price \in Prices \cup {0}
        BY <2>1 DEF Bid
    <3> QED BY <3>1, PriceIsNat
  <2>3. /\ wallet' = [wallet EXCEPT ![t] = @ - job[w].copy.price]
        /\ debited' = debited + job[w].copy.price
        /\ UNCHANGED <<held, entry, frozen, fees, credited, spent>>
      BY <1>8 DEF DebitWrite
  <2>4. spent' + debited' = spent + debited + job[w].copy.price
      BY <1>1, <2>2, <2>3 DEF MoneyInv
  <2> QED BY <1>1, <2>2, <2>3, <2>4, PaymentBalances
<1>9. ASSUME NEW t \in Tenants, NEW n \in Prices, Spend(t, n)
      PROVE  BalancesMatchLedger'
  <2>1. n \in Nat
      BY WalletAssumption DEF WalletAssumption
  <2>2. /\ wallet' = [wallet EXCEPT ![t] = @ - n]
        /\ UNCHANGED <<held, entry, frozen, fees, credited>>
        /\ spent' = spent + n /\ debited' = debited
      BY <1>9 DEF Spend
  <2>3. spent' + debited' = spent + debited + n
      BY <1>1, <2>1, <2>2 DEF MoneyInv
  <2> QED BY <1>1, <2>1, <2>2, <2>3, PaymentBalances
<1>10. ASSUME NEW w \in Workers,
              \/ \E x \in Bids : Retry(w, x)
              \/ Crash(w)
              \/ \E e \in Deposits : DepositRead(w, e)
              \/ \E t \in Tenants, n \in Prices : DebitCheck(w, t, n)
       PROVE  BalancesMatchLedger'
    BY <1>10, LedgerSame DEF Retry, Crash, DepositRead, DebitCheck, ledger, funding
<1>11. CASE UNCHANGED walletVars
    BY <1>11, LedgerSame DEF walletVars
<1> QED BY <1>2, <1>3, <1>4, <1>5, <1>6, <1>7, <1>8, <1>9, <1>10, <1>11
        DEF WalletNext, MoneyStep

LEMMA BalancesInit == WalletInit => BalancesMatchLedger
<1> SUFFICES ASSUME WalletInit PROVE BalancesMatchLedger
    OBVIOUS
<1>1. \A t \in Tenants : HeldForBids(t) = 0
  <2> TAKE t \in Tenants
  <2> DEFINE f == [x \in Bids |-> IF BuyerOf[x] = t THEN NetHeld(x) ELSE 0]
  <2>1. \A x \in Bids : f[x] = 0
      BY DEF WalletInit, NetHeld
  <2> HIDE DEF f
  <2>2. SumFunctionOnSet(f, Bids) = 0
      BY <2>1, SumZero, RowsFinite
  <2> QED BY <2>2 DEF f, HeldForBids
<1>2. Deposited = 0
  <2> DEFINE f == [e \in Deposits |-> credited[e] * DepositOf[e].amount]
  <2>1. \A e \in Deposits : f[e] = 0
      BY WalletAssumption DEF WalletInit, WalletAssumption
  <2> HIDE DEF f
  <2>2. SumFunctionOnSet(f, Deposits) = 0
      BY <2>1, SumZero, RowsFinite
  <2> QED BY <2>2 DEF f, Deposited
<1>3. Balances = 0
  <2> DEFINE f == [t \in Tenants |-> wallet[t] + held[t]]
  <2>1. \A t \in Tenants : f[t] = 0
      BY DEF WalletInit
  <2> HIDE DEF f
  <2>2. SumFunctionOnSet(f, Tenants) = 0
      BY <2>1, SumZero, RowsFinite
  <2> QED BY <2>2 DEF f, Balances
<1> QED BY <1>1, <1>2, <1>3 DEF WalletInit, BalancesMatchLedger

\* The signal handlers of EscrowLedger neither make nor lose money, whatever
\* copies the settlements act on: a tenant's escrow_held is what the rows of its
\* bids and its deposits under review leave there, and what was credited is in a
\* wallet, in escrow, paid out or the platform's.
THEOREM LedgerBalances == WalletSpec => []BalancesMatchLedger
<1>1. WalletInv /\ WinnerInv /\ (WalletInv /\ WinnerInv)' /\ BalancesMatchLedger
          /\ [WalletNext]_walletVars => BalancesMatchLedger'
    BY BalancesStep
<1> QED BY <1>1, BalancesInit, WinnerInvHolds, PTL DEF WalletSpec

=============================================================================
