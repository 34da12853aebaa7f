---------------------------- MODULE Subscriptions ----------------------------
(***************************************************************************)
(* The platform's own billing for one tenant: platform invoices opened by  *)
(* a card checkout, by an admin or by the automatic renewal, collected by  *)
(* Paymob's notifications or by hand, and the subscription's end they move *)
(* (clients/services/platform_billing.py, clients/services/auto_renew.py,  *)
(* PlatformInvoice in clients/models/tenancy.py).                          *)
(*                                                                         *)
(* A transaction under row locks is one action. What a handler reads       *)
(* before it locks, and the row mark_paid saves whole, are copies kept     *)
(* from the reading step to the writing one. The renewal is as many steps  *)
(* as it has commits, because a call to the gateway lies between them. One *)
(* plan and one period, so upgrades, downgrades and coupons are left out.  *)
(***************************************************************************)
EXTENDS Integers, FiniteSets

CONSTANTS
    Invoices,       \* invoice rows; the Paymob order of one has its name
    Workers,        \* Celery processes running auto_renew_subscriptions
    PeriodDays,     \* days a payment buys
    RenewDaysBefore, GraceDays, MaxFailures,    \* auto_renew.py
    FirstEnd,       \* end of the subscription at the start
    Overlap,        \* may requests overlap settlements and admin requests?
    MaxDay,         \* bound: days
    MaxDeliveries,  \* bound: notifications per Paymob order
    MaxCrashes,     \* bound: workers that die
    MaxRequests,    \* bound: admin requests and changes of the renewal's settings
    none            \* no invoice; the reference of one collected by hand

VARIABLES
    day,            \* timezone.localdate(), from day 1
    tenant,         \* Client: end of the subscription and status
    sub,            \* TenantSubscription: the fields of the renewal
    card,           \* is there an active SavedPaymentCard?
    invoice,        \* PlatformInvoice rows, with the Paymob order they refer to
    cached,         \* orders whose checkout is still in the cache (2 hours)
    captured,       \* orders for which Paymob took the money
    deliveries,     \* notifications delivered for each order
    worker,         \* renewal runs: where they are, their invoice, their copy of failures
    settling,       \* the settlement in progress, with its copy of the subscription
    desk,           \* an admin's request in progress, with what it read
    crashes, requests,      \* bounds' counters
    bought,         \* history: periods sold
    cut,            \* history: was the service cut by a refund?
    extended,       \* history: invoices that extended the subscription
    charges         \* history: card charges sent today

gateway == <<cached, captured, deliveries>>
history == <<bought, cut, extended>>
vars == <<day, tenant, sub, card, invoice, gateway, worker, settling, desk, crashes,
          requests, history, charges>>

ASSUME SubscriptionsAssumption ==
    /\ IsFiniteSet(Invoices) /\ none \notin Invoices
    /\ {PeriodDays, RenewDaysBefore, GraceDays, MaxFailures, FirstEnd,
        MaxDay, MaxDeliveries, MaxCrashes, MaxRequests} \subseteq Nat
    /\ PeriodDays > 0 /\ MaxFailures > 0 /\ MaxDay > 0
    /\ Overlap \in BOOLEAN

InvoiceStatus == {"none", "issued", "paid", "refunded", "void"}
Subscription == [auto : BOOLEAN, failures : 0..MaxFailures, lastAttempt : 0..MaxDay]
RunStep == {"idle", "listed", "attempted", "opened", "captured", "lost", "declined", "settling"}

InvoiceRow == [status : InvoiceStatus, ref : Invoices \cup {none}]
Run == [at : RunStep, inv : Invoices \cup {none}, failures : 0..MaxFailures]
Settlement == [inv : Invoices \cup {none}, by : Workers \cup {none},
               ref : Invoices \cup {none}, sub : Subscription]
DeskJob == [job : {"idle", "void", "collect", "refund", "renew", "renewing"},
            inv : Invoices \cup {none}, end : Nat, sub : Subscription]

NoRun == [at |-> "idle", inv |-> none, failures |-> 0]
NotRead == [auto |-> FALSE, failures |-> 0, lastAttempt |-> 0]
NoSettlement == [inv |-> none, by |-> none, ref |-> none, sub |-> NotRead]
NoRequest == [job |-> "idle", inv |-> none, end |-> 0, sub |-> NotRead]
NoInvoice == [status |-> "none", ref |-> none]

SubsInit ==
    /\ day = 1
    /\ tenant = [end |-> FirstEnd, status |-> "active"]
    /\ sub = [auto |-> TRUE, failures |-> 0, lastAttempt |-> 0]
    /\ card = TRUE
    /\ invoice = [i \in Invoices |-> NoInvoice]
    /\ cached = {} /\ captured = {}
    /\ deliveries = [i \in Invoices |-> 0]
    /\ worker = [w \in Workers |-> NoRun]
    /\ settling = NoSettlement
    /\ desk = NoRequest
    /\ crashes = 0 /\ requests = 0 /\ charges = 0
    /\ bought = 0 /\ cut = FALSE /\ extended = {}

-----------------------------------------------------------------------------
(* Helpers                                                                 *)

Later(a, b) == IF a >= b THEN a ELSE b

\* A settlement holds the locks of its invoice and of the tenant.
Unlocked == settling = NoSettlement

\* Without overlap a settlement and an admin's request run alone.
MayStart == Overlap \/ (Unlocked /\ desk = NoRequest)

Free(i) ==
    /\ invoice[i].status = "none" /\ settling.inv # i
    /\ \A w \in Workers : worker[w].inv # i

\* period_anchor: a period begins after the last paid one, or today.
PeriodAnchor(end) == Later(end, day)

\* open_gateway_invoice: card orders that were not paid are voided.
Opened(i) ==
    [j \in Invoices |->
        CASE j = i -> [status |-> "issued", ref |-> i]
          [] j # i /\ invoice[j].status = "issued" /\ invoice[j].ref # none ->
                [invoice[j] EXCEPT !.status = "void"]
          [] OTHER -> invoice[j]]

\* Mutant: a payment does not reopen a suspended tenant.
ExtendsSuspended(i, end) ==
    /\ tenant' = [tenant EXCEPT !.end = end]
    /\ extended' = extended \cup {i}
    /\ bought' = bought + 1
    /\ UNCHANGED cut

\* mark_paid: the invoice is paid and the tenant extended and reactivated.
Extends(i, end) ==
    /\ tenant' = [end |-> end, status |-> "active"]
    /\ extended' = extended \cup {i}
    /\ bought' = bought + 1
    /\ UNCHANGED cut

\* Mutant: the period begins today, whatever was paid before.
SettledEndFromToday == day + PeriodDays

\* settle_issued_invoice computes the period at the settlement, from the locked tenant.
SettledEnd == PeriodAnchor(tenant.end) + PeriodDays

\* Mutant: money for an order voided meanwhile is refused.
CollectableIssued(i) == invoice[i].status = "issued"

\* A settlement takes invoices that are due, and voided ones: the money is there.
Collectable(i) == invoice[i].status \in {"issued", "void"}

Requested ==
    /\ MayStart
    /\ requests < MaxRequests
    /\ requests' = requests + 1

\* Leaves alone the clock, the card and the bounds' counters.
UnchangedOutside == UNCHANGED <<day, card, crashes, requests>>

-----------------------------------------------------------------------------
(* Days and suspensions                                                    *)

\* The beat schedule runs the renewals of a day within the day.
Tick ==
    /\ day < MaxDay
    /\ \A w \in Workers : worker[w] = NoRun
    /\ day' = day + 1
    /\ charges' = 0
    /\ UNCHANGED <<tenant, sub, card, invoice, gateway, worker, settling, desk, crashes, requests,
                   history>>

\* orchestrate_billing_and_suspensions: one UPDATE, after the days of grace.
SuspendExpired ==
    /\ Unlocked /\ MayStart
    /\ tenant.status = "active"
    /\ tenant.end < day - GraceDays
    /\ tenant' = [tenant EXCEPT !.status = "suspended"]
    /\ UnchangedOutside
    /\ UNCHANGED <<sub, invoice, gateway, worker, settling, desk, history, charges>>

-----------------------------------------------------------------------------
(* Settlement (settle_issued_invoice and mark_paid)                        *)

\* The locks are taken and the subscription read, without a lock.
SettleBegin(i, by, ref) ==
    /\ Unlocked
    /\ Collectable(i)
    /\ settling' = [inv |-> i, by |-> by, ref |-> ref, sub |-> sub]

\* sub.save() writes back every column; a renewal then resets the failures.
SettleCommit ==
    LET i == settling.inv
        w == settling.by
    IN  /\ ~Unlocked
        /\ invoice' = [invoice EXCEPT ![i] = [status |-> "paid", ref |-> settling.ref]]
        /\ Extends(i, SettledEnd)
        /\ sub' = [settling.sub EXCEPT !.failures = IF w \in Workers THEN 0 ELSE @]
        /\ worker' = IF w \in Workers THEN [worker EXCEPT ![w] = NoRun] ELSE worker
        /\ cached' = IF w \in Workers THEN cached ELSE cached \ {settling.ref}
        /\ settling' = NoSettlement
        /\ UnchangedOutside
        /\ UNCHANGED <<captured, deliveries, desk, charges>>

-----------------------------------------------------------------------------
(* The customer and the gateway                                            *)

\* paymob_checkout opens the Paymob order and its invoice.
Checkout(i) ==
    /\ Unlocked /\ MayStart
    /\ Free(i)
    /\ invoice' = Opened(i)
    /\ cached' = cached \cup {i}
    /\ UnchangedOutside
    /\ UNCHANGED <<tenant, sub, captured, deliveries, worker, settling, desk, history, charges>>

\* The customer pays an order on Paymob's page, also one that a newer checkout voided.
Pay(i) ==
    /\ i \in cached \ captured
    /\ captured' = captured \cup {i}
    /\ UnchangedOutside
    /\ UNCHANGED <<tenant, sub, invoice, cached, deliveries, worker, settling, desk, history,
                   charges>>

\* The rows settle_gateway_invoice finds for an order: one collected by hand has
\* been given the admin's reference.
Found(i) == {j \in Invoices : invoice[j].ref = i}

\* An order without invoice is rebuilt from the cache, unless that has expired too:
\* the tenant is locked, the subscription read, and a new invoice paid at once.
RebuildFromCache(i) ==
    /\ i \in cached
    /\ \E j \in Invoices :
          /\ Free(j)
          /\ settling' = [inv |-> j, by |-> none, ref |-> i, sub |-> sub]

\* paymob_callback on a successful payment: the browser's and the server's
\* notification come to the same address, and Paymob repeats them.
Webhook(i) ==
    /\ Unlocked /\ MayStart
    /\ i \in captured
    /\ deliveries[i] < MaxDeliveries
    /\ deliveries' = [deliveries EXCEPT ![i] = @ + 1]
    /\ \/ (\E j \in Found(i) : SettleBegin(j, none, i)) /\ UNCHANGED cached
       \/ (\E j \in Found(i) : ~Collectable(j)) /\ UNCHANGED <<cached, settling>>
       \/ Found(i) = {} /\ RebuildFromCache(i) /\ UNCHANGED cached
       \/ Found(i) = {} /\ cached' = cached \ {i} /\ UNCHANGED settling
    /\ UnchangedOutside
    /\ UNCHANGED <<tenant, sub, invoice, captured, worker, desk, history, charges>>

\* set_auto_renew
SetAutoRenew(on) ==
    /\ Requested
    /\ on => card
    /\ sub' = [auto |-> on, failures |-> IF on THEN 0 ELSE sub.failures,
               lastAttempt |-> sub.lastAttempt]
    /\ UNCHANGED <<day, card, crashes, tenant, invoice, gateway, worker, settling, desk, history, charges>>

\* remove_card
RemoveCard ==
    /\ Requested
    /\ card' = FALSE
    /\ sub' = [sub EXCEPT !.auto = FALSE]
    /\ UNCHANGED <<day, crashes, tenant, invoice, gateway, worker, settling, desk, history, charges>>

\* save_card_from_token_callback: the notification names an order with an invoice.
SaveCard ==
    /\ Requested
    /\ \E i \in Invoices : invoice[i].ref # none
    /\ card' = TRUE
    /\ UNCHANGED <<day, crashes, tenant, sub, invoice, gateway, worker, settling, desk, history,
                   charges>>

-----------------------------------------------------------------------------
(* Admin requests (saas_admin_views): read without a lock, then write      *)

DeskOnly == UNCHANGED <<day, card, crashes, gateway, worker, charges>>

DeskRead ==
    /\ desk = NoRequest /\ Requested
    /\ \/ \E i \in Invoices, j \in {"void", "collect"} :
             /\ invoice[i].status = "issued"
             /\ desk' = [NoRequest EXCEPT !.job = j, !.inv = i]
       \/ \E i \in Invoices :
             /\ invoice[i].status = "paid"
             /\ desk' = [NoRequest EXCEPT !.job = "refund", !.inv = i, !.end = tenant.end]
       \/ /\ \E i \in Invoices : Free(i)
          /\ desk' = [NoRequest EXCEPT !.job = "renew", !.end = tenant.end]
    /\ DeskOnly
    /\ UNCHANGED <<tenant, sub, invoice, settling, history>>

\* void_invoice saves the status over whatever the row says by now.
VoidWrite ==
    /\ desk.job = "void" /\ Unlocked
    /\ invoice' = [invoice EXCEPT ![desk.inv].status = "void"]
    /\ desk' = NoRequest
    /\ DeskOnly /\ UNCHANGED requests
    /\ UNCHANGED <<tenant, sub, settling, history>>

\* mark_paid by an admin goes through settle_issued_invoice, which looks again.
Collect ==
    /\ desk.job = "collect" /\ Unlocked
    /\ SettleBegin(desk.inv, none, none) \/ (~Collectable(desk.inv) /\ UNCHANGED settling)
    /\ desk' = NoRequest
    /\ DeskOnly /\ UNCHANGED requests
    /\ UNCHANGED <<tenant, sub, invoice, history>>

\* refund_invoice, with or without ending the service today.
RefundWrite ==
    /\ desk.job = "refund" /\ Unlocked
    /\ invoice' = [invoice EXCEPT ![desk.inv].status = "refunded"]
    /\ \/ UNCHANGED <<tenant, cut>>
       \/ /\ tenant' = [tenant EXCEPT !.end = IF desk.end > day THEN day ELSE @]
          /\ cut' = TRUE
    /\ desk' = NoRequest
    /\ DeskOnly /\ UNCHANGED requests
    /\ UNCHANGED <<sub, settling, bought, extended>>

\* change_plan (issue_subscription_invoice): the subscription is read without a lock
\* and the period follows the end of the tenant that the request read.
RenewRead ==
    /\ desk.job = "renew"
    /\ desk' = [desk EXCEPT !.job = "renewing", !.end = PeriodAnchor(@) + PeriodDays,
                            !.sub = sub]
    /\ DeskOnly /\ UNCHANGED requests
    /\ UNCHANGED <<tenant, sub, invoice, settling, history>>

\* The invoice is issued and paid at once; mark_paid saves what was read.
RenewWrite ==
    /\ desk.job = "renewing" /\ Unlocked
    /\ \E i \in Invoices :
          /\ Free(i)
          /\ invoice' = [invoice EXCEPT ![i] = [status |-> "paid", ref |-> none]]
          /\ Extends(i, desk.end)
    /\ sub' = desk.sub
    /\ desk' = NoRequest
    /\ DeskOnly /\ UNCHANGED <<requests, settling>>

\* issue_invoice: an invoice the tenant owes.
IssueByHand(i) ==
    /\ Requested
    /\ Free(i)
    /\ invoice' = [invoice EXCEPT ![i] = [status |-> "issued", ref |-> none]]
    /\ DeskOnly
    /\ UNCHANGED <<tenant, sub, settling, desk, history>>

-----------------------------------------------------------------------------
(* The automatic renewal (renew_due_subscriptions, renew_one)              *)

At(w, step) == worker[w].at = step /\ MayStart
GoesTo(w, step) == worker' = [worker EXCEPT ![w].at = step]
Ends(w) == worker' = [worker EXCEPT ![w] = NoRun]
WorkerOnly == UNCHANGED <<day, card, crashes, requests, desk>>

\* due_subscriptions
Due ==
    /\ sub.auto /\ sub.lastAttempt # day
    /\ tenant.status = "active"
    /\ day - GraceDays <= tenant.end /\ tenant.end <= day + RenewDaysBefore

RenewList(w) ==
    /\ At(w, "idle") /\ Due
    /\ GoesTo(w, "listed")
    /\ WorkerOnly
    /\ UNCHANGED <<tenant, sub, invoice, gateway, settling, history, charges>>

\* Mutant: today's attempt is not looked at again under the lock.
MayAttemptAgain(s) == s.auto

\* Under the row's lock, and committed before the gateway is called.
MayAttempt(s) == s.auto /\ s.lastAttempt # day

RenewAttempt(w) ==
    /\ At(w, "listed")
    /\ IF MayAttempt(sub)
       THEN /\ sub' = [sub EXCEPT !.lastAttempt = day]
            /\ worker' = [worker EXCEPT ![w] = [at |-> "attempted", inv |-> none,
                                                failures |-> sub.failures]]
       ELSE UNCHANGED sub /\ Ends(w)
    /\ WorkerOnly
    /\ UNCHANGED <<tenant, invoice, gateway, settling, history, charges>>

\* Without a card the renewal is switched off; else the order is created, which
\* may fail, and its invoice recorded (on_order) before the card is charged.
RenewOpen(w) ==
    /\ At(w, "attempted") /\ Unlocked
    /\ \/ /\ ~card
          /\ sub' = [sub EXCEPT !.auto = FALSE]
          /\ Ends(w)
          /\ UNCHANGED invoice
       \/ card /\ GoesTo(w, "declined") /\ UNCHANGED <<sub, invoice>>
       \/ \E i \in Invoices :
             /\ card /\ Free(i)
             /\ invoice' = Opened(i)
             /\ worker' = [worker EXCEPT ![w] = [at |-> "opened", inv |-> i,
                                                  failures |-> worker[w].failures]]
             /\ UNCHANGED sub
    /\ WorkerOnly
    /\ UNCHANGED <<tenant, gateway, settling, history, charges>>

\* charge_with_saved_token: the answer may be lost, and one that cannot be parsed
\* counts as declined although the money was taken.
RenewCharge(w) ==
    /\ At(w, "opened")
    /\ charges' = charges + 1
    /\ \/ GoesTo(w, "captured") /\ captured' = captured \cup {worker[w].inv}
       \/ \E answer \in {"lost", "declined"} :
             /\ GoesTo(w, answer)
             /\ captured' \in {captured, captured \cup {worker[w].inv}}
    /\ WorkerOnly
    /\ UNCHANGED <<tenant, sub, invoice, cached, deliveries, settling, history>>

RenewSettle(w) ==
    /\ At(w, "captured") /\ Unlocked
    /\ \/ /\ \E j \in Found(worker[w].inv) : SettleBegin(j, w, worker[w].inv)
          /\ GoesTo(w, "settling")
          /\ UNCHANGED sub
       \/ /\ \A j \in Found(worker[w].inv) : ~Collectable(j)
          /\ sub' = [sub EXCEPT !.failures = 0]
          /\ Ends(w)
          /\ UNCHANGED settling
    /\ WorkerOnly
    /\ UNCHANGED <<tenant, invoice, gateway, history, charges>>

\* pay_network_error: the renewal is switched off, the invoice stays due.
RenewLost(w) ==
    /\ At(w, "lost")
    /\ sub' = [sub EXCEPT !.auto = FALSE]
    /\ Ends(w)
    /\ WorkerOnly
    /\ UNCHANGED <<tenant, invoice, gateway, settling, history, charges>>

\* A refused card: the invoice, issued in the worker's memory, is voided and the
\* failures counted from the worker's copy.
RenewDeclined(w) ==
    LET i == worker[w].inv
        failures == worker[w].failures + 1
    IN  /\ At(w, "declined") /\ Unlocked
        /\ invoice' = IF i = none THEN invoice ELSE [invoice EXCEPT ![i].status = "void"]
        /\ sub' = [auto |-> sub.auto /\ failures < MaxFailures, failures |-> failures,
                   lastAttempt |-> sub.lastAttempt]
        /\ Ends(w)
        /\ WorkerOnly
        /\ UNCHANGED <<tenant, gateway, settling, history, charges>>

\* The worker dies: what it had not committed is rolled back.
WorkerCrash(w) ==
    /\ worker[w] # NoRun
    /\ crashes < MaxCrashes
    /\ crashes' = crashes + 1
    /\ Ends(w)
    /\ settling' = IF settling.by = w THEN NoSettlement ELSE settling
    /\ UNCHANGED <<day, card, requests, tenant, sub, invoice, gateway, desk, history, charges>>

-----------------------------------------------------------------------------
(* The specification                                                       *)

RenewStep(w) ==
    \/ RenewAttempt(w) \/ RenewOpen(w) \/ RenewCharge(w) \/ RenewSettle(w) \/ RenewLost(w)
    \/ RenewDeclined(w)

DeskWrite == VoidWrite \/ Collect \/ RefundWrite \/ RenewWrite

SubsNext ==
    \/ Tick \/ SuspendExpired \/ SettleCommit \/ DeskRead \/ RenewRead \/ DeskWrite
    \/ RemoveCard \/ SaveCard
    \/ \E on \in BOOLEAN : SetAutoRenew(on)
    \/ \E i \in Invoices : Checkout(i) \/ Pay(i) \/ Webhook(i) \/ IssueByHand(i)
    \/ \E w \in Workers : RenewList(w) \/ RenewStep(w) \/ WorkerCrash(w)

SubsSpec == SubsInit /\ [][SubsNext]_vars

\* Handlers run to their end and Paymob delivers its notifications.
SubsFairness ==
    /\ WF_vars(SettleCommit)
    /\ WF_vars(RenewRead) /\ WF_vars(DeskWrite)
    /\ \A i \in Invoices : WF_vars(Webhook(i))

FairSubsSpec == SubsSpec /\ SubsFairness

-----------------------------------------------------------------------------
(* Properties                                                              *)

SubsTypeOK ==
    /\ day \in 1..MaxDay
    /\ tenant \in [end : Nat, status : {"active", "suspended"}]
    /\ sub \in Subscription
    /\ card \in BOOLEAN
    /\ invoice \in [Invoices -> InvoiceRow]
    /\ cached \subseteq Invoices /\ captured \subseteq Invoices
    /\ deliveries \in [Invoices -> 0..MaxDeliveries]
    /\ worker \in [Workers -> Run]
    /\ settling \in Settlement
    /\ desk \in DeskJob
    /\ crashes \in 0..MaxCrashes /\ requests \in 0..MaxRequests
    /\ bought \in Nat /\ cut \in BOOLEAN /\ extended \subseteq Invoices
    /\ charges \in Nat

\* "One attempt a day for every company ... even if the task ran twice or the
\* worker was restarted" (auto_renew.py): the card is never charged twice on a day.
OneChargePerDay == charges <= 1

\* Every payment buys its own period: two invoices of one tenant, whenever they
\* were issued and whoever collects them, never cover the same days (the bug that
\* the docstring of settle_issued_invoice describes). A refund may cut the service.
PaidPeriodsAddUp == cut \/ tenant.end >= FirstEnd + bought * PeriodDays

\* A tenant is locked out only when its paid days and the days of grace are over,
\* however a payment races with the daily suspension.
SuspendedMeansLapsed == tenant.status = "suspended" => tenant.end + GraceDays < day

\* Money Paymob took extends the subscription in the end: also when the order was
\* voided by a newer one or by a refused renewal, when the answer of the charge
\* was lost, and when the worker died after charging.
CaptureExtends == \A i \in Invoices : i \in captured ~> i \in extended

\* "Charges the card a day before the subscription's end" (auto_renew.py): no card
\* is charged for a subscription that somebody has renewed meanwhile.  It fails:
\* renew_one does not look at the end again.
ChargeOnlyWhenDue ==
    [][charges' > charges => tenant.end <= day + RenewDaysBefore]_vars
=============================================================================
