----------------------------- MODULE TenantWallets -----------------------------
(***************************************************************************)
(* The prepaid wallets of the tenants and the blind bids settled from them.*)
(* A tenant's request for a part is awarded to one of the sealed offers,   *)
(* the price is moved from the buyer's wallet into escrow, and released to *)
(* the seller or refunded later.  Every movement is a row of EscrowLedger, *)
(* whose signal handlers update the balances with F() expressions.         *)
(*                                                                         *)
(* Of the handlers only submit_bid_offer_api and the wallet's spenders     *)
(* decide on locked rows.  The others act on an instance read before; it   *)
(* is the `copy` of their job.                                             *)
(***************************************************************************)
EXTENDS Integers, FiniteSets, Functions

CONSTANTS
    Tenants,       \* Client rows
    Bids,          \* BlindBiddingRequest rows
    BuyerOf,       \* the tenant that created a bid
    Prices,        \* the prices offered for the whole quantity, and of purchases
    FeeOf,         \* the platform's fee on a price, at the buyer's rate
    Deposits,      \* payment_intent.succeeded events of the gateway
    DepositOf,     \* tenant, amount, and whether it is over the AML threshold
    MaxDeliveries, \* an event credited that often is not delivered again
    MaxSpent,      \* no purchase or debit starts beyond this sum
    MaxMoved,      \* no award starts when the hold rows of the bid reach this
                   \* sum, no settlement when its release and refund rows do
    Workers,       \* web workers, Celery workers and watchdog threads
    Overlap,       \* whether requests overlap: if not, one job at a time
    MaxFailures    \* bound on the award tasks that raise and the jobs lost

ASSUME WalletAssumption ==
    /\ IsFiniteSet(Tenants) /\ IsFiniteSet(Bids) /\ IsFiniteSet(Deposits)
    /\ BuyerOf \in [Bids -> Tenants]
    /\ Prices \subseteq Nat \ {0}
    /\ MaxSpent \in Nat /\ MaxMoved \in Nat
    /\ MaxDeliveries \in Nat /\ MaxFailures \in Nat
    /\ FeeOf \in [Prices -> Nat] /\ \A p \in Prices : FeeOf[p] <= p
    /\ DepositOf \in [Deposits -> [client : Tenants, amount : Nat, review : BOOLEAN]]
    /\ Overlap \in BOOLEAN

VARIABLES
    wallet,     \* Client.wallet_balance
    held,       \* Client.escrow_held
    bid,        \* BlindBiddingRequest: status, winner, price, deadline passed
    offer,      \* BidOffer: the price of each seller's offer, 0 for none
    entry,      \* the sums of a bid's hold, release and refund rows
    frozen,     \* the holds of large deposits, which belong to no bid
    credited,   \* how often a deposit event has been credited
    cached,     \* events whose webhook_processed_ key is set
    spent,      \* what the tenants have paid out of their wallets
    debited,    \* what administrators have debited
    fees,       \* the platform's commission
    queue,      \* process_ai_bidding_award messages
    job,        \* what each worker is doing
    retries,    \* award tasks queued again so far
    crashes     \* jobs lost so far

walletVars == <<wallet, held, bid, offer, entry, frozen, credited, cached,
                spent, debited, fees, queue, job, retries, crashes>>

BidStatus == {"open", "awarding", "escrow_held", "shipped", "completed",
              "disputed", "cancelled"}
Nobody == "nobody"
Bid == [status : BidStatus, winner : Tenants \cup {Nobody}, price : Prices \cup {0},
        expired : BOOLEAN]
NewBid == [status |-> "open", winner |-> Nobody, price |-> 0, expired |-> FALSE]

Jobs == {"idle", "mark", "dispatch", "drop", "award", "hold", "refund", "release",
         "form", "deposit", "debit"}
NoJob == [kind |-> "idle", target |-> Nobody, copy |-> NewBid]

WalletsTypeOK ==
    /\ wallet \in [Tenants -> Int]
    /\ held \in [Tenants -> Int]
    /\ bid \in [Bids -> Bid]
    /\ offer \in [Bids -> [Tenants -> Prices \cup {0}]]
    /\ entry \in [Bids -> [hold : Nat, release : Nat, refund : Nat]]
    /\ frozen \in [Tenants -> Nat]
    /\ credited \in [Deposits -> Nat]
    /\ cached \subseteq Deposits
    /\ spent \in Nat /\ debited \in Nat
    /\ fees \in Nat
    /\ queue \subseteq Bids
    /\ job \in [Workers -> [kind : Jobs, copy : Bid,
                            target : Bids \cup Deposits \cup Tenants \cup {Nobody}]]
    /\ retries \in Nat /\ crashes \in Nat

WalletInit ==
    /\ wallet = [t \in Tenants |-> 0]
    /\ held = [t \in Tenants |-> 0]
    /\ bid = [x \in Bids |-> NewBid]
    /\ offer = [x \in Bids |-> [t \in Tenants |-> 0]]
    /\ entry = [x \in Bids |-> [hold |-> 0, release |-> 0, refund |-> 0]]
    /\ frozen = [t \in Tenants |-> 0]
    /\ credited = [e \in Deposits |-> 0]
    /\ cached = {}
    /\ spent = 0 /\ debited = 0
    /\ fees = 0
    /\ queue = {}
    /\ job = [w \in Workers |-> NoJob]
    /\ retries = 0 /\ crashes = 0

-----------------------------------------------------------------------------
(* Jobs                                                                    *)

Quiet == \A w \in Workers : job[w] = NoJob

Begin(w, kind, target, copy) ==
    /\ job[w] = NoJob
    /\ Overlap \/ Quiet
    /\ job' = [job EXCEPT ![w] = [kind |-> kind, target |-> target, copy |-> copy]]

Doing(w, kind, target) == job[w].kind = kind /\ job[w].target = target

Turn(w, kind) == job' = [job EXCEPT ![w].kind = kind]

End(w) == job' = [job EXCEPT ![w] = NoJob]

\* What a job uses of the instance it has read.
Terms(winner, price) == [NewBid EXCEPT !.winner = winner, !.price = price]

\* A request that decides on rows it has locked is one step.
AtOnce == (Overlap \/ Quiet) /\ UNCHANGED job

ledger == <<wallet, held, entry, frozen, fees>>
funding == <<credited, cached, spent, debited>>
failures == <<retries, crashes>>

MayFail == retries + crashes < MaxFailures

-----------------------------------------------------------------------------
(* Rows of EscrowLedger and what their signal handlers do                  *)

NetHeld(x) == entry[x].hold - entry[x].release - entry[x].refund

\* Mutant: the balance is not looked at before a hold.
CoversAnything(t, p) == TRUE

\* The pre_save check of a hold, on the locked buyer.
Covers(t, p) == wallet[t] >= p

\* Mutant: the hold leaves the wallet but does not arrive in escrow.
HoldWalletOnly(x, p) ==
    /\ wallet' = [wallet EXCEPT ![BuyerOf[x]] = @ - p]
    /\ entry' = [entry EXCEPT ![x].hold = @ + p]
    /\ UNCHANGED <<held, frozen, fees>>

Hold(x, p) ==
    /\ wallet' = [wallet EXCEPT ![BuyerOf[x]] = @ - p]
    /\ held' = [held EXCEPT ![BuyerOf[x]] = @ + p]
    /\ entry' = [entry EXCEPT ![x].hold = @ + p]
    /\ UNCHANGED <<frozen, fees>>

\* trigger_release_to_seller: what is held beyond the price goes back to the
\* buyer, the price less the fee to the winner of the instance at hand.
Release(x, winner, p) ==
    LET excess == IF NetHeld(x) > p THEN NetHeld(x) - p ELSE 0
    IN  /\ held' = [held EXCEPT ![BuyerOf[x]] = @ - excess - p]
        /\ wallet' = [t \in Tenants |->
                        wallet[t] + (IF t = BuyerOf[x] THEN excess ELSE 0)
                                  + (IF t = winner THEN p - FeeOf[p] ELSE 0)]
        /\ entry' = [entry EXCEPT ![x].refund = @ + excess, ![x].release = @ + p]
        /\ fees' = fees + FeeOf[p]
        /\ UNCHANGED frozen

\* trigger_refund_to_buyer gives back what is held, or the price if nothing is.
Refund(x, p) ==
    LET amount == IF NetHeld(x) > 0 THEN NetHeld(x) ELSE p
    IN  /\ held' = [held EXCEPT ![BuyerOf[x]] = @ - amount]
        /\ wallet' = [wallet EXCEPT ![BuyerOf[x]] = @ + amount]
        /\ entry' = [entry EXCEPT ![x].refund = @ + amount]
        /\ UNCHANGED <<frozen, fees>>

-----------------------------------------------------------------------------
(* Offers and the automatic award                                          *)

\* submit_bid_offer_api locks the bid, then the buyer.  An offer at or below
\* the target of a bid with auto_award is awarded at once if the wallet covers
\* it; targets and the flag are left open.
SubmitOffer(x, s, p) ==
    /\ AtOnce
    /\ bid[x].status = "open" /\ ~bid[x].expired
    /\ s # BuyerOf[x]
    /\ offer' = [offer EXCEPT ![x][s] = p]
    /\ UNCHANGED <<bid, ledger, funding, queue, failures>>

AutoAward(x, s, p) ==
    /\ AtOnce
    /\ bid[x].status = "open" /\ ~bid[x].expired
    /\ s # BuyerOf[x]
    /\ wallet[BuyerOf[x]] >= p
    /\ entry[x].hold < MaxMoved
    /\ offer' = [offer EXCEPT ![x][s] = p]
    /\ Hold(x, p)
    /\ bid' = [bid EXCEPT ![x].status = "escrow_held", ![x].winner = s, ![x].price = p]
    /\ UNCHANGED <<funding, queue, failures>>

\* The deadline set by create_blind_bid_api passes.
Expire(x) ==
    /\ bid[x].status = "open" /\ ~bid[x].expired
    /\ bid' = [bid EXCEPT ![x].expired = TRUE]
    /\ UNCHANGED <<offer, ledger, funding, queue, job, failures>>

-----------------------------------------------------------------------------
(* The watchdog: a scan without locks, then one write for each bid found   *)

Offered(x) == {s \in Tenants : offer[x][s] > 0}

WatchScan(w, x) ==
    /\ bid[x].status = "open" /\ bid[x].expired
    /\ Begin(w, IF Offered(x) # {} THEN "mark" ELSE "drop", x, NewBid)
    /\ UNCHANGED <<bid, offer, ledger, funding, queue, failures>>

WatchCancel(w, x) ==
    /\ Doing(w, "drop", x)
    /\ bid' = [bid EXCEPT ![x].status = "cancelled"]
    /\ End(w)
    /\ UNCHANGED <<offer, ledger, funding, queue, failures>>

WatchMark(w, x) ==
    /\ Doing(w, "mark", x)
    /\ bid' = [bid EXCEPT ![x].status = "awarding"]
    /\ Turn(w, "dispatch")
    /\ UNCHANGED <<offer, ledger, funding, queue, failures>>

Dispatch(w, x) ==
    /\ Doing(w, "dispatch", x)
    /\ queue' = queue \cup {x}
    /\ End(w)
    /\ UNCHANGED <<bid, offer, ledger, funding, failures>>

\* Mutant: the bid is not opened again when the broker is down.
DispatchFailsSilently(w, x) ==
    /\ Doing(w, "dispatch", x)
    /\ End(w)
    /\ UNCHANGED <<bid, offer, ledger, funding, queue, failures>>

\* The broker is down: the bid is opened for another five minutes.
DispatchFails(w, x) ==
    /\ Doing(w, "dispatch", x)
    /\ bid' = [bid EXCEPT ![x].status = "open", ![x].expired = FALSE]
    /\ End(w)
    /\ UNCHANGED <<offer, ledger, funding, queue, failures>>

-----------------------------------------------------------------------------
(* process_ai_bidding_award                                                *)

\* The task reads the bid without a lock and picks an offer by price and trust.
AwardRead(w, x) ==
    /\ x \in queue
    /\ entry[x].hold < MaxMoved
    /\ queue' = queue \ {x}
    /\ IF bid[x].status \in {"awarding", "open"}
       THEN IF Offered(x) = {} THEN Begin(w, "drop", x, NewBid)
            ELSE \E s \in Offered(x) : Begin(w, "award", x, Terms(s, offer[x][s]))
       ELSE AtOnce
    /\ UNCHANGED <<bid, offer, ledger, funding, failures>>

\* A transaction of its own writes status, winner and price ...
AwardWrite(w, x) ==
    /\ Doing(w, "award", x)
    /\ bid' = [bid EXCEPT ![x].status = "awarding",
                          ![x].winner = job[w].copy.winner, ![x].price = job[w].copy.price]
    /\ Turn(w, "hold")
    /\ UNCHANGED <<offer, ledger, funding, queue, failures>>

\* ... and another holds the price, or leaves the bid "awarding" when the
\* buyer's wallet does not cover it.
AwardHold(w, x) ==
    /\ Doing(w, "hold", x)
    /\ IF Covers(BuyerOf[x], job[w].copy.price)
       THEN /\ Hold(x, job[w].copy.price)
            /\ bid' = [bid EXCEPT ![x].status = "escrow_held"]
       ELSE UNCHANGED <<bid, ledger>>
    /\ End(w)
    /\ UNCHANGED <<offer, funding, queue, failures>>

-----------------------------------------------------------------------------
(* Settlement                                                              *)

\* The buyer applies the purchase invoice that names the bid: any status but
\* "completed" becomes "shipped" in memory.  Without a winner the release is
\* refused.
ReceiptRead(w, x) ==
    /\ entry[x].release + entry[x].refund < MaxMoved
    /\ bid[x].status # "completed"
    /\ bid[x].winner # Nobody
    /\ Begin(w, "release", x, Terms(bid[x].winner, bid[x].price))
    /\ UNCHANGED <<bid, offer, ledger, funding, queue, failures>>

\* An administrator resolves a dispute listed as "disputed".
ResolveRead(w, x) ==
    /\ entry[x].release + entry[x].refund < MaxMoved
    /\ bid[x].status = "disputed"
    /\ \E decision \in {"refund", "release"} : 
          Begin(w, decision, x, Terms(bid[x].winner, bid[x].price))
    /\ UNCHANGED <<bid, offer, ledger, funding, queue, failures>>

ReleaseWrite(w, x) ==
    /\ Doing(w, "release", x)
    /\ Release(x, job[w].copy.winner, job[w].copy.price)
    /\ bid' = [bid EXCEPT ![x].status = "completed"]
    /\ End(w)
    /\ UNCHANGED <<offer, funding, queue, failures>>

RefundWrite(w, x) ==
    /\ Doing(w, "refund", x)
    /\ Refund(x, job[w].copy.price)
    /\ bid' = [bid EXCEPT ![x].status = "cancelled"]
    /\ End(w)
    /\ UNCHANGED <<offer, funding, queue, failures>>

\* An administrator marks an awarded bid shipped or disputed; the form writes
\* the row back as it was read.
FormRead(w, x) ==
    /\ bid[x].status \in {"escrow_held", "shipped"}
    /\ \E new \in {"shipped", "disputed"} : Begin(w, "form", x, [bid[x] EXCEPT !.status = new])
    /\ UNCHANGED <<bid, offer, ledger, funding, queue, failures>>

FormSave(w, x) ==
    /\ Doing(w, "form", x)
    /\ bid' = [bid EXCEPT ![x] = job[w].copy]
    /\ End(w)
    /\ UNCHANGED <<offer, ledger, funding, queue, failures>>

-----------------------------------------------------------------------------
(* Money in and out of the wallets                                         *)

\* The gateway's webhook looks for the event's cache key first.
DepositRead(w, e) ==
    /\ e \notin cached /\ credited[e] < MaxDeliveries
    /\ Begin(w, "deposit", e, NewBid)
    /\ UNCHANGED <<bid, offer, ledger, funding, queue, failures>>

\* A large deposit is credited and frozen in the same transaction.
Deposit(t, n, review) ==
    IF review
    THEN /\ frozen' = [frozen EXCEPT ![t] = @ + n]
         /\ held' = [held EXCEPT ![t] = @ + n]
         /\ UNCHANGED wallet
    ELSE /\ wallet' = [wallet EXCEPT ![t] = @ + n]
         /\ UNCHANGED <<frozen, held>>

\* The key is set after the commit, unless the worker dies before.
DepositWrite(w, e) ==
    /\ Doing(w, "deposit", e)
    /\ Deposit(DepositOf[e].client, DepositOf[e].amount, DepositOf[e].review)
    /\ credited' = [credited EXCEPT ![e] = @ + 1]
    /\ \/ cached' = cached \cup {e} /\ UNCHANGED crashes
       \/ MayFail /\ crashes' = crashes + 1 /\ UNCHANGED cached
    /\ End(w)
    /\ UNCHANGED <<bid, offer, entry, fees, spent, debited, queue, retries>>

\* Subscriptions, add-ons, advertising, messages, BMW jobs: the wallet is
\* locked, compared and reduced in one transaction.
Spend(t, n) ==
    /\ AtOnce
    /\ spent + debited + n <= MaxSpent
    /\ Covers(t, n)
    /\ wallet' = [wallet EXCEPT ![t] = @ - n]
    /\ spent' = spent + n
    /\ UNCHANGED <<bid, offer, held, entry, frozen, fees, credited, cached, debited, queue, failures>>

\* wallet_adjust debits outside a transaction: the lock of the pre_save check
\* is released before the balance is written.
DebitCheck(w, t, n) ==
    /\ spent + debited + n <= MaxSpent
    /\ Covers(t, n)
    /\ Begin(w, "debit", t, Terms(Nobody, n))
    /\ UNCHANGED <<bid, offer, ledger, funding, queue, failures>>

DebitWrite(w, t) ==
    LET n == job[w].copy.price
    IN  /\ Doing(w, "debit", t)
        /\ wallet' = [wallet EXCEPT ![t] = @ - n]
        /\ debited' = debited + n
        /\ End(w)
        /\ UNCHANGED <<bid, offer, held, entry, frozen, fees, credited, cached, spent, queue, failures>>

-----------------------------------------------------------------------------
(* Failures                                                                *)

\* self.retry: an award task that raises is queued again.
Retry(w, x) ==
    /\ Doing(w, "award", x) \/ Doing(w, "hold", x)
    /\ MayFail
    /\ retries' = retries + 1
    /\ queue' = queue \cup {x}
    /\ End(w)
    /\ UNCHANGED <<bid, offer, ledger, funding, crashes>>

\* A worker dies between two transactions.
Crash(w) ==
    /\ job[w] # NoJob
    /\ MayFail
    /\ crashes' = crashes + 1
    /\ End(w)
    /\ UNCHANGED <<bid, offer, ledger, funding, queue, retries>>

-----------------------------------------------------------------------------
(* The specification                                                       *)

BidStep(w, x) ==
    \/ WatchCancel(w, x) \/ WatchMark(w, x) \/ Dispatch(w, x) \/ DispatchFails(w, x)
    \/ AwardWrite(w, x) \/ AwardHold(w, x)
    \/ ReleaseWrite(w, x) \/ RefundWrite(w, x) \/ FormSave(w, x)

BidRequest(w, x) ==
    \/ WatchScan(w, x) \/ AwardRead(w, x)
    \/ ReceiptRead(w, x) \/ ResolveRead(w, x) \/ FormRead(w, x)

MoneyStep(w) ==
    \/ \E e \in Deposits : DepositWrite(w, e)
    \/ \E t \in Tenants : DebitWrite(w, t)

WalletNext ==
    \/ \E x \in Bids, s \in Tenants, p \in Prices : SubmitOffer(x, s, p) \/ AutoAward(x, s, p)
    \/ \E x \in Bids : Expire(x)
    \/ \E w \in Workers, x \in Bids : BidRequest(w, x) \/ BidStep(w, x) \/ Retry(w, x)
    \/ \E w \in Workers, e \in Deposits : DepositRead(w, e)
    \/ \E w \in Workers : MoneyStep(w) \/ Crash(w)
    \/ \E t \in Tenants, n \in Prices : Spend(t, n)
    \/ \E w \in Workers, t \in Tenants, n \in Prices : DebitCheck(w, t, n)

WalletSpec == WalletInit /\ [][WalletNext]_walletVars

\* Deadlines pass, the watchdog looks every minute, workers carry on, messages
\* are consumed, and the broker is not down at every attempt.
WalletFairness ==
    \A x \in Bids :
        /\ WF_walletVars(Expire(x))
        /\ SF_walletVars(\E w \in Workers : WatchScan(w, x))
        /\ SF_walletVars(\E w \in Workers : AwardRead(w, x))
        /\ SF_walletVars(\E w \in Workers : Dispatch(w, x))
        /\ \A w \in Workers : WF_walletVars(BidStep(w, x) \/ MoneyStep(w))

FairWalletSpec == WalletSpec /\ WalletFairness

-----------------------------------------------------------------------------
(* Properties                                                              *)

\* What the rows of a tenant's bids leave in escrow.
HeldForBids(t) ==
    SumFunctionOnSet([x \in Bids |-> IF BuyerOf[x] = t THEN NetHeld(x) ELSE 0], Bids)

Deposited == SumFunctionOnSet([e \in Deposits |-> credited[e] * DepositOf[e].amount], Deposits)
Balances == SumFunctionOnSet([t \in Tenants |-> wallet[t] + held[t]], Tenants)

\* However jobs on one bid overlap, a tenant's escrow_held is what the rows of
\* its bids and of its deposits under review leave frozen, and holding, releasing
\* and refunding lose no money: what was credited is in a wallet, in escrow,
\* paid out, or the platform's fee.
BalancesMatchLedger ==
    /\ \A t \in Tenants : held[t] = frozen[t] + HeldForBids(t)
    /\ Deposited = Balances + spent + debited + fees

\* Awards, purchases and an automatic award compete for the same balance; all
\* of them look at it under the buyer's row lock, so that only the debits of an
\* administrator, which do not, can overdraw it.
OverdraftOnlyByDebit == \A t \in Tenants : wallet[t] + debited >= 0

\* A bid left open gets a winner or is cancelled, although the broker may be
\* down for a while and tasks may fail, unless a worker dies with the task.
OpenBidDecided ==
    \A x \in Bids :
        bid[x].status = "open" ~> \/ bid[x].winner # Nobody
                                  \/ bid[x].status = "cancelled"
                                  \/ crashes > 0

\* "Escrow drained on a delivered auction (buyer refunded AND seller paid)" is
\* the regression test_blind_bidding_lifecycle.py guards against: both may be
\* paid only from what was held for the bid.
RefundedOrPaid ==
    \A x \in Bids : (entry[x].refund > 0 /\ entry[x].release > 0) => NetHeld(x) >= 0
=============================================================================
