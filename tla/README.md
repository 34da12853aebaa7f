# Mouss Tec in TLA+: marketplace, wallets, billing, sales

Mouss Tec is a multi-tenant Django system for car workshops and parts dealers: inventory, invoices and accounting
per tenant, and on the public schema a parts marketplace that holds the buyer's money in escrow, prepaid wallets for
blind bids, and the platform's own subscriptions. This directory specifies the parts of it that move money or goods,
checks them with TLC and proves what can be proved with TLAPS.

How the program runs decides what can go wrong. Web workers and Celery workers serve requests and scheduled
tasks at the same time against PostgreSQL at READ COMMITTED. `ATOMIC_REQUESTS` is off, so a view's statements
commit one by one unless a `transaction.atomic` block joins them; only `select_for_update` and conditional
`UPDATE`s keep two requests apart. A handler that reads a row, decides, and writes later decides on a copy.

## 1. Inventory

| Part | State | Operations | Hard behaviour | Modelled in |
|---|---|---|---|---|
| Escrow (`marketplace_b2b/services/escrow.py`) | `EscrowHold` per order | place, release, refund, split | settlements racing; recreating a hold whose creation failed; rounding | `Escrow`, `Custody` |
| Payouts (`services/payouts.py`) | `MarketplacePayout` per hold and kind | queue, mark paid, wallet | queued or sent twice; a wallet that counts money twice | `Escrow` |
| Checkout (`parts_marketplace_views.py`, `services/parts_orders.py`) | `PartListing`, `PartOrder`, the payment at Paymob | reserve, pay, cancel, expire | callbacks late, doubled, out of order; a cancellation racing a payment; abandoned checkouts; a worker that dies | `PartsCheckout` |
| Transfer receipts (`models/billing.py`, `manual_payment_views.py`) | `ManualPaymentReceipt` | upload, confirm, reject | reviews of a stale copy; reviving a cancelled order | `PartsCheckout` |
| Listings (`parts_marketplace_views.py`, `saas_admin_views.py`) | status, moderation, deletion | approve, edit, suspend, withdraw | admin forms that save stale columns | `PartsCheckout` |
| Fulfilment (`models/marketplace_b2b.py`, `services/parts_orders.py`) | order status, deadlines | ship, deliver, request refund, sweeps | sweeps that scan before they lock; a release in two commits | `PartsMarket` |
| Disputes (`marketplace_c2c/services/disputes.py`) | `DisputeTicket`, the status it froze | open, resolve, cancel | check-then-create; writing and restoring a stale status | `PartsMarket` |
| Wanted requests (`parts_marketplace_views.py`, `services/parts_orders.py`) | `PartRequest`, `PartRequestOffer`, the private listing of an accepted offer | offer, edit, accept, cancel, pay, expire | offers edited while another is accepted; cancellation racing payment; locks taken in opposite orders | `WantedRequests` |
| Blind bidding, `EscrowLedger` (`models/marketplace_b2b.py`, `clients/apps.py`) | tenants' balances and escrow, bids, ledger rows | award, hold, release, refund, deposit, debit | status checked in memory; a balance checked before it is debited; a watchdog that competes with the task | `TenantWallets` |
| Platform billing, renewal (`platform_billing.py`, `auto_renew.py`, `subscription_views.py`) | subscription, invoices, saved card | issue, settle, collect, void, refund, renew, suspend | an answer lost after the charge; two invoices for the same days; two runs of the task | `Subscriptions` |
| Sales (`inventory/services/invoice_service.py`, `views_lightning/*`) | stock, customer's balance, treasury, invoices with their receipts and returns | sell, quote, deliver, pay, edit, return, correct, delete | four books moved by differences; partial returns; unlocked edits and deletions | `SalesInvoices` |
| Customer payments (`customer_payments.py`, `treasury_service.py`) | receipts, allocated or on account | collect, void, write off | allocation over open invoices; voiding in any order | `SalesInvoices` |
| AI credits and quotas | counters | reserve, charge, refund | concurrent use at the limit | - |
| Double entry, vendors, purchases, transfers, HR | per-tenant ledgers | post, reverse, pay | totals that must agree after any sequence of operations | - |
| Everything else (diagnostics, BMW tools, robot, bots, design, mobile, printing, configuration) | | | | see `PROJECT.json` and section 6 |

The parts interact as follows. A checkout reserves a listing and creates an order. A Paymob callback, or an
admin who confirms a receipt, calls `mark_paid`, which marks the listing sold, calls `place_hold` and closes the
wanted request the listing was made for. Then the seller, the buyer, an admin or a sweep moves the order on; each
ending (release, refund, split) calls the escrow, which settles the hold and queues the payouts, which an admin
transfers by hand. A dispute freezes the order's status so that the sweeps leave it alone. Blind bids have wallets of
their own and meet the inventory when the purchase invoice of the goods is applied. Subscriptions share with the
marketplace only the gateway. Sales live in each tenant's schema.

What makes it correct: a part is sold once; every pound has one owner; the order, its hold, its ticket and its payouts
tell the same story; a request ends in at most one deal; balances are what their rows add up to; a card is charged
once a day and every payment buys its own days; no piece of stock leaves or returns twice.

## 2. Modules

| Module | Models | Notes |
|---|---|---|
| `Custody` | what the escrow promises | abstract: `unpaid -> held -> ` one settlement, then transfers to those entitled |
| `PartSale` | what the marketplace promises of a sale | abstract: one buyer at a time; reserved, given up, bought, returned |
| `Escrow` | `escrow.py`, `payouts.py` | amounts are constants; refinement mapping `Promise` to `Custody` |
| `PartsCheckout` | listings, checkout, payment, receipts, cancellation | extends `Escrow`; `mark_paid` contains `TakeCustody`; refinement mapping `Sale` to `PartSale` |
| `PartsMarket` | everything that happens to a paid order | extends `PartsCheckout`; each ending contains a settlement of `Escrow` |
| `WantedRequests` | requests, offers, their deals and payment | transactions and the row locks they wait for are explicit |
| `TenantWallets` | wallets, blind bids, ledger | jobs act on the instance they read (`copy`) |
| `Subscriptions` | platform invoices, renewal, suspension | days are numbers; the gateway may take money and lose the answer |
| `SalesInvoices` | sales, payments and returns of one product and customer | no component in common with the others |
| `EscrowProofs`, `CheckoutProofs`, `PartsMarketProofs`, `WantedProofs`, `SubscriptionsProofs`, `TenantWalletsProofs`, `SalesProofs` | theorems | section 5 |
| `Sums` | lemmas on sums over finite sets | used by `TenantWalletsProofs` and `SalesProofs` |
| `MC*` | instances for TLC | the amounts, the `Traffic` of each run, symmetry |

**Steps.** A handler that works under a row lock from its first decisive read to its last write, or with a
single conditional `UPDATE`, is one action: nothing else can see or change its row in between. Every
other handler is two or three actions, and what it read is kept in a slot (`req`, `desk`, `job`, `txn`, `clerk`) until it
writes: `CallbackRead` / `CallbackSuccess`, `DisputeRead` / `DisputeCheck` / `DisputeCommit`, `EditRead` / `EditWrite`, and so
on. A rolled-back transaction is a step that only frees the slot, so a crash inside a transaction needs no action of its own.

**Marketplace (`Escrow`, `PartsCheckout`, `PartsMarket`).** `order`, `listing`, `receipt`, `hold`, `payout`, `ticket` are the
rows' status columns ("none" while the row does not exist). `paidAt`, `shipped`, `warranty`, `inspection` stand for the
timestamps the code tests. `settlement` is the three amounts of the hold. `gateway` and `outcome` are the payment page at
Paymob and the results it may call back with; `answered` and `flagged` record that a success callback was answered and that a
`PlatformEvent` asks an admin to return money. `ReceiptFree` is the row lock of a receipt between the first save of `confirm()`
and its commit.
- Faults: Paymob repeats and reorders its callbacks (`outcome` is never emptied) or answers nothing
  (`PaymobUnavailable`); a worker may die between two commits (`Crash`, `DeskCrash`, `CheckoutDied`); `place_hold` may fail
  and be swallowed (`placed = FALSE`).
- Amounts are in piastres. `quantize` is `Nearest`, which on an exact tie allows both neighbours: the code
  multiplies by a rate already rounded to 28 digits, so the side a tie falls on depends on digits the model does not have.
- The refinement `Sale` takes what became of a purchase (`DealOf`) from the order's status up to payment and from the hold
  afterwards: the races of section 3 may damage the status of a paid order, but the hold says whether the buyer has the
  money back. A late confirmation that revives a cancelled order is a `Buy` from "given up", allowed only while the part is free.
- Deadlines may pass at any time; only their order matters. `under_review` (tickets) and `cancelled` (payouts) are never
  set by the code, so they are not in the model. Prices are frozen per order.
- Merchants (`merchant_parts_views.py`) use the same operations as customers; one action stands for both. Who is
  asking is checked by every view and left out, and so are notifications, ratings and watch lists.

**`WantedRequests`.** A request, its offers and the private listing of the accepted one (`deal`). Acceptance, cancellation and
payment are transactions that take row locks one after the other; `txn` is what each holds, waits for and has read.
Payment locks the order and then the request, cancellation the request and then the orders: a cycle is broken by
`DeadlockVictim`, PostgreSQL's choice of one transaction to abort. The buyer's scan for orders is not locked, so the
listing may be reserved between the scan and the listing's `UPDATE`; the order of a removed listing can then still be
paid. `EditRaces` lets an offer read without a lock be saved over a status it got meanwhile.

**`TenantWallets`.** Each movement of money is a row of `EscrowLedger`; `entry` sums them by bid and kind, and the balances
follow by the signal handlers. The watchdog thread awards or drops expired bids from a scan, the Celery task awards from a
queue, administrators resolve disputes and the purchase invoice releases, all deciding on copies. The watchdog may write
"awarding" over a bid that was awarded since its scan; then the price is held twice and the excess comes back when the price is
released. An award whose hold failed is never retried by the code; that the
task itself gives up after `max_retries` (`clients/tasks.py:502`) is not modelled, `MaxFailures` bounds the failures instead. A deposit delivered twice at once, or after a crash
before its key is cached, is credited twice.

**`Subscriptions`.** A tenant's subscription and its invoices, with days as numbers; one plan and one period. A handler that is
one transaction is one action. A renewal is a run of `renew_one` over a list read before: attempt, open invoice, charge,
settle; the worker may die between any two, the answer may be lost or garbled (a garbled 200 counts as declined
although the money was taken), and the notification may come later, twice, or find only the cached copy of the checkout
(`RebuildFromCache`, which ends in the same commit as a settlement). What `mark_paid` saves is the subscription read before
the locks, by settlements (`settling.sub`) and changes of plan (`RenewRead`, `desk.sub`). An order collected by hand and paid at Paymob as well counts as extended. `Tick` ends a day and waits for the renewals under way.

**`SalesInvoices`.** One product in one branch, one customer, one treasury, one tender per payment. `invoice` are the sales,
`ret` the returns, `takings` counts the receipts by invoice (or on account) and amount. A job card in
`quality_check` or `ready` behaves as `in_progress` and is not told apart. A return decides under the lock of its invoice but on
the discount of the instance its view had read (`clerk`); edits of the payments and deletions decide on unlocked
instances altogether. With one treasury `void_collection` and the collections are serialised by its row; with two, `_resync_paid`
could overwrite a collection made meanwhile, which the model does not have. `PayNothing` lets a clerk enter a payment
for an invoice whose total is zero: `_record_invoice_payments` accepts it (`_common.py:194`), and voiding it leaves a
debt for nothing, as `BalanceMatchesInvoices` shows when the constant is TRUE; the runs leave it FALSE. Lock cycles (a return locks
invoice, treasury, customer; a collection customer, invoices) end in an aborted transaction and are not modelled.

## 3. Runs

`Overlap` says whether a request may start while another is in flight, `Alone` which requests overlap no
other one even then (the two admin requests on a listing in `checkout`, which save columns they read before and would put
a sold part back on sale: the last table of this section). `Traffic` says which requests occur;
`Web`, `Celery`, `Desk`, `Workers`, `Clerks` are the slots, hence how many handlers overlap.

| Run | Instance | Shows |
|---|---|---|
| `checkout` | 2 orders, 1 listing, 2 web slots, 1 sweep | no double sale, no dropped payment, `PartSale` implemented, captures and receipts lost only to the races that section 3 names, under overlap; 2.1 million states |
| `checkout_live` | 2 orders, 1 web slot, 1 sweep, 1 crash | every reservation ends; 480,692 states |
| `market` | 1 order, 2 desk slots, 2 tickets, 1 crash, every overlap | the money stays right whatever becomes of the order's status; a frozen order is moved only by admins or by what was decided before, one ruling stands, a shipped order is refunded only for a reason, the wallet shows an undisputed sale once; only the death of a worker leaves a released order unsettled; 749,664 states |
| `market_no_disputes` | 3 desk slots, no disputes, fair | order and hold agree, refund requests win, money never strands |
| `market_serial` | 1 order of 25 piastres, commission 2, all requests from checkout to transfer one at a time, 2 tickets, 1 crash | the transfers owed are the shares of the settlement and no split beats a release, with amounts that round; 935,222 states |
| `wanted` | 1 request, 2 offers, 2 orders, 3 transactions | one deal, fulfilled only by payment, never cancelled once paid, deadlocks and requests end; 63,591 states |
| `wallets` | 1 bid, buyer and seller, 2 deposits, 2 workers, 1 failure | balances follow the ledger, only debits overdraw, open bids are decided; 437,560 states |
| `subs` | 2 invoices, 2 runs of the renewal, 3 days, 1 crash | one charge a day, every payment buys its own days, no early lock-out, captures extend; 610,657 states |
| `sales` | 2 invoices, 2 returns, 2 clerks, stock of 3 | stock, balance and treasury follow the rows, returns stay within what was sold and paid; 575,209 states |

Why the bounds are enough to be interesting: a double sale needs two orders and one listing; the races
need two handlers on one row and, for three-way ones (scan, refund request, admin; acceptance, payment, cancellation), three
slots; a second dispute needs two tickets; 25 piastres make the commission of a split round up, down and tie. Orders
do not interact except through their listing, so one order is enough in `PartsMarket`. Two prices of a wanted request only
matter to `DealAtPriceSeen` below. `MaxMoved` and `MaxSpent` stop new awards and purchases, never a
job under way; the bid's price of 2 against deposits of 1 and 2 makes it affordable, unaffordable and just affordable. Two
invoices and a period of two days are what is needed for two invoices of the same days, collected in either order. Two
invoices of two pieces each with three in stock make the second sale fail or follow a return; a discount of 1 on two pieces
is shared with rounding; a tender of 2 pays one invoice, closes two, or goes on account; two returns exhaust an invoice.

`CHECK_DEADLOCK FALSE`: when the listing is withdrawn, everything is settled and transferred, a request is closed or the
bounded counters are used up, nothing is left to do.

Types: the type invariant of every module is proved (section 5), so no run spends a property on it.

**Where the code and its comments part.** Three runs expect a violation; each quotes a comment, docstring or test and is
listed under `findings` with its lines.

| Run | What happens |
|---|---|
| `capture_dropped` | the callback reads "pending", the sweep cancels, `mark_paid` refuses, 200 is answered and no event raised |
| `wallets_refund` | a dispute of a blind bid is refunded; the purchase invoice is applied later and pays the seller too |
| `sales_credit` | two pieces are sold on credit for 4; one comes back (credit 2), the remaining 2 are written off by a discount, the other comes back (credit 1, its share of the discount): nothing was paid, nothing is kept, and the customer has a credit of 1 |

More of the kind, each seen by checking one property alone:

| Property | How | What happens |
|---|---|---|
| `ReleasedMeansSettled` | `MCPartsMarket.cfg` | a worker dies between the two commits of a release; no sweep selects the order again (`StrandedOnlyByCrash`: nothing else has this effect) |
| `MoneyAccountedFor`, `ConfirmedReceiptMeansPaid` | `MCPartsCheckout.cfg` | the buyer cancels between the callback's, or `confirm()`'s, read of the order and its `mark_paid` |
| `ConfirmedReceiptIsFinal` | `MCPartsCheckout.cfg`, one order | a rejection that fetched the receipt earlier overwrites its confirmation |
| `OneLiveOrder`, `ReservationEnds` | `MCPartsCheckout.cfg`, `Alone = {}` / `MCCheckoutLive.cfg`, `Traffic <- AllTraffic` | an admin's form puts back "active" on a reserved listing, or "reserved" on a free one |
| `DisputeFreezesFunds` | `MCPartsMarket.cfg` | a dispute is opened on an order the sweep refunds meanwhile |
| `OneTicketPerDispute` | `MCPartsMarket.cfg` | two requests find no ticket and both create one |
| `DealAtPriceSeen` | `MCWantedRequests.cfg`, `MaxPrice = 2` | the seller changes the price between the page the buyer saw and the acceptance |
| `CancelledDealOffSale` | `MCWantedRequests.cfg`, `EditRaces = TRUE` | an edited offer is "pending" again and its listing is missed by the cancellation |
| `ChargeOnlyWhenDue` | `MCSubscriptions.cfg` | a subscription renewed after the list of due ones was read is charged again |
| `PaidPeriodsAddUp` | `MCSubscriptions.cfg`, `Overlap = TRUE` | an admin's change of plan overwrites an extension made meanwhile |
| `OneChargePerDay` | `MCSubscriptions.cfg`, `Overlap = TRUE`, three invoices | `mark_paid` saves the whole subscription from a copy read before a renewal recorded its attempt; a second run attempts and charges again |
| `BalanceMatchesInvoices` | `MCSalesInvoices.cfg`, `Overlap = TRUE` | an edit of the payments takes the due amount read before a payment |
| `StockMatchesInvoices` | `MCSalesInvoices.cfg`, `Overlap = TRUE` | a quotation is posted while it is deleted, and its goods are lost |

For the races of the marketplace the runs `checkout` and `market` check what is left when they happen, with all handlers
overlapping: `CaptureLostOnlyToCancellation` and `ReceiptsFailOnlyByRaces` name the steps that may break the statements above and
say that no other step does; `FrozenUntilDecided`, `TicketsDecide` and `ShippedRefundHasCause` say what disputes still guarantee
when they were opened on a stale copy, twice, or cancelled after the order moved on (the seller ships while a dispute is
being opened, and its cancellation restores "paid_held"); `WalletNeverCountsTwice` speaks of orders that were never disputed,
for a cancelled dispute may write its status back over a settlement. Where another property of the table appears in a passing
run, it is checked there without the overlap or the stale requests that break it, so a change that broke it in
another way would be noticed.

Hazards of the code that no property covers: the price sent to Paymob is that of the listing before its
reservation (`parts_marketplace_views.py:533`); the sweeps take bounded batches (`parts_orders.py:180`); a bid whose hold
failed stays "awarding" (`clients/tasks.py:568`); a deposit delivered twice at once is credited twice
(`webhook_views.py:117`); two simultaneous notifications of an order that only the cache knows both find no paid invoice and may
rebuild it twice (`subscription_views.py:742`); `void_invoice` saves a stale status (`platform_billing.py:479`); the two queries of
`wallet_summary` are not one snapshot (`payouts.py:139`); coupons are counted without a lock (`platform_billing.py:281`).

## 4. Fairness

A handler that has started finishes unless its worker dies: weak fairness of its steps, or strong where it waits for a row
lock that others keep taking (PostgreSQL queues the waiters) or for a row that stops and starts being a candidate. The sweeps
and daily tasks come back to each candidate because the beat schedule starts them again and again
(`erp_core/settings.py:1085-1094`): `expire_stale_parts_orders` and the scans of paid orders, `expire_wanted_requests`,
the watchdog and the award task of blind bids. `SubsFairness` adds that a capture's settlement, an admin's request and the
gateway's notification of a captured order complete: the gateway repeats it until it is answered. `MarketFairness` also
says that a warranty passes. Nothing else is assumed of buyers, sellers, admins or Paymob, and nothing of crashed
workers. That a batch of a sweep does not starve an order is assumed, not shown.

## 5. Proofs

**Escrow** (`EscrowProofs`). From `AmountAssumption` (amounts are positive, a commission is a natural number below its
amount: the code's rates are 4% and 8%) and nothing else, for any set of orders:

- `EscrowInvariant`: `EscrowSpec => []EscrowInv`. The invariant is `EscrowTypeOK`, `Conservation`,
  `PayoutsMatchSettlement`, `ShareFitsStatus` and `SplitNeverBeatsRelease`. None of the last four is inductive alone:
  that no share of an unsettled hold is positive (from `Conservation` and the types) is what lets
  `QueueForHold` create exactly the rows the shares call for. The arithmetic of the split is in `NearestBounds` and
  `SplitCommission`: rounding to the nearest piastre, whichever way ties go, stays between 0 and the smaller of
  the full commission and what the seller keeps.
- `MoneyIsConserved`, `PayoutsAlwaysMatch`, `SplitIsNeverBetter`: its conjuncts. `SettlementIsFinal`: `EscrowSpec => SettledForGood`
  (no run checks it apart from `ImplementsCustody`, in which a settled hold stays settled too).
- `EscrowKeepsPromise`: `EscrowSpec => ImplementsCustody`, one step per action; a transfer maps to
  a `Transfer` because a pending row exists only for those the settlement entitles.

**Checkout** (`CheckoutProofs`), for any number of orders, listings, workers and crashes:

- `CheckoutTypes`; `PaymentNeverDropped` and `ManualReturnIsRight` without further assumption: every request may overlap every
  other. The second rests on `ChannelInv`: an order is paid through Paymob or by a receipt, never both, and only a receipt
  revives a cancelled order, so a capture that found its order cancelled finds it so for good.
- `NoDoubleSale`, `PaidPartOffMarket` and `ReservationsAreOpen` for `Exclusive(StaleRows)`: the admin's approval and form edit overlap no
  other request, everything else may. `CopyIsRow` says that what they write back is then still the row, `SaleInv` that the status of a
  listing follows its orders. Without the assumption they fail (section 3).
- `CapturesLostToOneRace` and `ReceiptsFailToTwoRaces` without further assumption: the action properties that name the races
  of the success callback, of `confirm()` and of a rejection (section 3), and exclude every other way to lose a capture or a confirmation.
  `AccountEffects` says which step can answer, pay, flag or confirm an order; `SeenInv` that a request which saw its order past
  the checkout has the payment on record, so that only one which saw "pending" and finds it cancelled comes to nothing
  (`CallbackLoses`, `ConfirmationUnfunded`).
- `CheckoutKeepsSale`: `CheckoutSpec => ImplementsPartSale`, for `Exclusive(StaleRows)` as well. `PartInv` says that a pending order keeps its listing
  reserved, a purchase not given back keeps it sold, and no part has two owners (`OneOwner`), where an owner is told by the hold once
  the order is past the checkout; `RecordInv` that payment is on record exactly for those orders; `CopySafe` that what the two
  admin requests write back is harmless. `SaleMoves` turns the change of one order into a step of `PartSale`; `PartIsFree`
  is why its guard holds. `CheckoutHasOneHolder` follows: no part is ever with two buyers, reserved or bought.

**Marketplace** (`PartsMarketProofs`), for any number of orders, listings, tickets, slots and crashes:

- `TicketsStayWithOrders`: a ticket in use names an order. It is needed because disputes settle `ticket[t].order`.
- `MarketImplementsEscrow`: `MarketSpec => EscrowSpec`. Every action either leaves the escrow's variables alone or is one of
  its operations on an existing order. With it the theorems of the escrow carry over:
  `MarketConservesMoney`, `MarketPaysAsSettled`, `MarketSettlesOnce` and `MarketKeepsPromise`. So none of the races of section 3
  can create, lose or pay out money twice; what they damage is the order's status and who gets to decide.
- `MarketRowsTyped` and `RefundsAreReal` without further assumption: an order marked refunded has its money back, whatever it
  raced with. `StatusInv` adds that an order's status says it is paid exactly when its payment is on record, that only a paid order
  has a hold (`PaidBothWays`, `HoldIsPaid`), and that one confirmation at a time works on a receipt and an order it found cancelled
  stays cancelled until it revives it (`LockInv`).
- `OrderAndHoldAgree` and `RefundRequestsWin` where neither disputes nor crashes occur (`DisputeJobs \cap Traffic = {}`,
  `MaxCrashes = 0`), for any number of handlers that overlap. `HandlersAgree` says what the two-step handlers may rely on: a sweep
  between its two commits is alone on its order, and an admin who decides finds either the request or the settlement of
  another admin. A crash in that gap breaks the first (`ReleasedMeansSettled`, section 3).
- `DeathsStrandAtMostOne`: `StrandedOnlyByCrash` without any assumption, so also where handlers overlap, disputes are ruled and
  workers die. A released order whose money is still held either has a worker between the two commits of its release or is
  stranded. No step of a handler adds to the stranded ones (`WorkStrandsNone`), a death adds at most the one order of its worker
  (`DeathStrandsOne`); `StrandedInv` adds that they are finitely many, without which their number would mean nothing.
- `FreezeHolds`, `TicketsAreDecisive`, `WalletCountsOnce` and `ShippedRefundsHaveCause` without any assumption: stale copies, double
  tickets and deaths included. `MarketWays` says once what a step can do to one order, its hold, its clocks and its tickets: a
  plain move, an opened dispute, a ruling or a cancellation. `DisputeInv` is proved from it. `RulingsStand`: the escrow
  settles a hold once, so a second ticket of an order can never be ruled on. `FrozenInv`: a frozen order has a ticket that is open, or about
  to be cancelled by an admin who will restore its status, or was opened on an order already frozen. `WalletInv`: without a dispute, an
  order settled or about to be is marked so. `ShippedInv`: a shipped order is paid, and looks unshipped only by a cancelled dispute.
- `MarketKeepsSale`: `MarketSpec => ImplementsPartSale` for `Exclusive(StaleRows)`, all other handlers overlapping, disputes and crashes
  included, and from it `MarketHasOneHolder`: no part is ever with two buyers who reserved or keep it. The endings of an
  order map to `Return` where they refund the hold and to stuttering otherwise (`MarketReturns`), and a listing is withdrawn by a
  refund only when the part's one owner has the money back (`WithdrawnIsReturned`).
- The checkout's own properties while paid orders move on, which `CheckoutSpec` leaves out: `NoPaymentLeftBehind`,
  `MarketLosesCapturesToOneRace` and `MarketFailsReceiptsToTwoRaces`, without further assumption. The lemmas of `CheckoutProofs` serve
  its steps; handlers of paid orders make no order unpaid and write no order that a request of the checkout still
  decides on (`CheckoutUntouched`, `RulesInMarket`).

**Wanted requests** (`WantedProofs`), for any number of requests, offers, orders and transactions:

- `WantedTypes`; `OneDeal` and `FulfilledByPayment` without further assumption, races of edits included. Their invariant
  `DealInv` adds what the locks carry: an open request has no deal, an order belongs to a deal, and a payment that holds its
  order's lock knows its status.
- `CancelledOffSale` and `PaidNotCancelled` for `~EditRaces`. `SaleInv` adds what each transaction has read and why it still holds
  when it writes: only one transaction at a time works under a request's lock, the acceptance's listings are those of accepted
  offers, and a payment that found the request open excludes a cancellation that found no paid order (the payment waits for
  the request, the cancellation for the listing; `PayAgainstCancel` is the case that makes the order of the locks matter).

**Subscriptions** (`SubscriptionsProofs`), for any invoices, workers, days and crashes:

- `SubsTypes`: types, with the counter of failures, which is written from a copy, below its limit.
- `SuspendedOnlyWhenLapsed`: from `LapseInv`, which adds that a refund under way knows the days the tenant has left.
- `ChargedOncePerDay` and `PeriodsAddUp` for `~Overlap` (no request overlaps a settlement; the runs of the renewal still
  overlap each other): `AloneInv` says that the copies of those under way (the subscription that a settlement or a change of plan
  will save, the end it extends) agree with the rows, `ChargeRows` that every charge belongs to an attempt of its day. With overlap both
  fail, as section 3 says.

**Wallets** (`TenantWalletsProofs`), for any tenants, bids, deposits, workers, prices and failures:

- `WalletTypes`, `OverdraftBounded` and `AwardsArePriced` from `WalletInv`. The bound on an overdraft needs a price wherever one is
  paid: the fee is subtracted from it, and a debit of nothing would count as covered. `BidInv` and `JobInv` say that a bid past
  its award has one, and so has every copy that a settlement, a hold, a debit or a form acts on, whatever became of the row meanwhile.
  Releases and refunds may be applied twice or after one another (`wallets_refund`): they add to wallets, so the bound stands.
- `LedgerBalances`, without further assumption: each tenant's escrow is what the rows of its bids and deposits leave held, and all
  that was deposited is in a wallet, in escrow, paid out or a fee. It needs `WinnerInv`, that every copy a release pays from names a
  tenant, and for each movement of money that the two sides of the sums change by the same amount.

**Sales** (`SalesProofs`), for any invoices, returns, clerks and amounts:

- `SalesTyped`, `NoMoreReturned`, `RefundsCovered` and `ReceiptsAddUp` without further assumption, edits and deletions that overlap
  everything else included. They rest on `SalesInv`: discounts stay within the price, only applied invoices have money, returns
  belong to invoices that were posted, copies are of rows that existed, and the paid amount is what the receipts add up to.
  `ReturnedInv` adds the quantities; a return decides on them under the lock of its invoice, which is why overlap does not hurt.
  That the stock never becomes negative is part of `SalesTyped`.
- `ShelfMatches` for `~Overlap`: `FreshInv` says that a request that edits or deletes is alone and its copy still the row.
- `AccountMatches` for `~Overlap` and `~PayNothing`: with `Covered`, no invoice is paid above its total; otherwise what was paid too much
  would disappear from what is due. The collection is the hard case: its parts, oldest invoice first, add up to the amount or to all
  that is open (`OldestFirst`, `SumServed`), and the rest goes on account. Section 3 shows how both fail otherwise.
- Each of the three books follows from one fact per action, that the book and the sums over the rows change by the same
  amount (`ShelfStep`, `TillStep`, `BalanceStep`).

**Sums** (`Sums`). `SumFunction` is a fold, which the community modules define by recursion over sets. `SumExists` constructs a solution of
that recursion, by induction on the size of the set, with a set of numbers in the place of the predicate, which the provers can instantiate;
`SumAny` shows that the order in which elements are taken does not matter. The rest (a sum with one entry changed, with one
element more, of two functions, the bound of a part by the whole) follows and is what the two modules above cite.

Each invariant was model-checked on the instances above before it was proved.

Every invariant and every action property that a passing run checks is stated by a theorem about the specification that run
uses (without its fairness), under the assumptions on overlap, crashes and disputes given above.

Only model-checked: the liveness properties `ReservationEnds`, `MoneyMovesOn`, `TransactionsEnd`, `WantedRequestEnds`, `OpenBidDecided` and
`CaptureExtends` (liveness and `ENABLED` are out of the prover's reach), and the violations of section 3.

## 6. Not modelled, and why

- In the modelled parts: prices of listings, offers on public listings, coupons, trials, upgrades and downgrades, add-ons; in
  sales the services, taxes, refundable cores, commissions, loyalty points, average costs, maintenance contracts, walk-in customers
  and payments split over treasuries. They add amounts to the same steps, or rules of their own that touch none of the books here.
- `AI credits and quotas`: counters locked and compared in one transaction, as `Spend` in `TenantWallets`.
- Double entry and period close follow from signals of the rows modelled here and could be a module that refines
  `SalesInvoices`; vendor payments mirror `customer_payments.py`; purchases, transfers between branches, landed cost and the
  repayment of HR advances are further candidates.
- `bmw_ecu` drives hardware; the robot, the bots, the assistants, the design store and the diagnostics talk to language models and
  external services; the mobile client, printing, templates and configuration are I/O or single-user forms over the
  database. Nothing in them is shared between actors in a way a model checker could tell more about than a reader.
