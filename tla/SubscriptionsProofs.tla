------------------------- MODULE SubscriptionsProofs -------------------------
(***************************************************************************)
(* What TLC checks of Subscriptions on two invoices and two renewal runs,  *)
(* proved for any number of them and for all lengths of the periods.       *)
(***************************************************************************)
EXTENDS Subscriptions, TLAPS

-----------------------------------------------------------------------------
(* Types.  The counter of failures stays below its limit as long as the    *)
(* renewal is on, and a step that uses an invoice has one.                 *)

FailuresBelow ==
    /\ sub.auto => sub.failures < MaxFailures
    /\ settling.sub.auto => settling.sub.failures < MaxFailures
    /\ desk.sub.auto => desk.sub.failures < MaxFailures
    /\ \A w \in Workers : worker[w].failures < MaxFailures

InvoicesNamed ==
    /\ settling # NoSettlement => settling.inv \in Invoices
    /\ \A w \in Workers : worker[w].at = "opened" => worker[w].inv \in Invoices
    /\ desk.job = "collect" => desk.inv \in Invoices

TypeInv == SubsTypeOK /\ FailuresBelow /\ InvoicesNamed

LEMMA ConstantTypes ==
    /\ PeriodDays \in Nat \ {0} /\ RenewDaysBefore \in Nat /\ GraceDays \in Nat
    /\ MaxFailures \in Nat \ {0} /\ FirstEnd \in Nat /\ MaxDay \in Nat \ {0}
    /\ MaxDeliveries \in Nat /\ MaxCrashes \in Nat /\ MaxRequests \in Nat
    /\ none \notin Invoices /\ Overlap \in BOOLEAN
BY SubscriptionsAssumption

LEMMA NoJobsTyped ==
    /\ NoRun \in Run /\ NoRequest \in DeskJob /\ NoInvoice \in InvoiceRow
    /\ NoSettlement \in Settlement
    /\ ~NoSettlement.sub.auto /\ ~NoRequest.sub.auto /\ NoRun.failures = 0 /\ NoRun.at = "idle" /\ NoRun.inv = none
    /\ NoRequest.job = "idle" /\ NoSettlement.by = none
BY ConstantTypes DEF NoRun, NoRequest, NoInvoice, NoSettlement, NotRead, Run, DeskJob, InvoiceRow,
   Settlement, Subscription, RunStep, InvoiceStatus

\* A payment moves the end of the subscription to a later day.
LEMMA EndsTyped ==
    ASSUME SubsTypeOK, NEW end \in Nat
    PROVE  PeriodAnchor(end) + PeriodDays \in Nat /\ PeriodAnchor(end) >= end
BY ConstantTypes DEF SubsTypeOK, PeriodAnchor, Later

LEMMA ExtendsTyped ==
    ASSUME SubsTypeOK, NEW i \in Invoices, NEW end \in Nat, Extends(i, end)
    PROVE  /\ tenant' \in [end : Nat, status : {"active", "suspended"}]
           /\ bought' \in Nat /\ cut' \in BOOLEAN /\ extended' \subseteq Invoices
BY DEF SubsTypeOK, Extends

LEMMA OpenedTyped ==
    ASSUME SubsTypeOK, NEW i \in Invoices
    PROVE  Opened(i) \in [Invoices -> InvoiceRow]
<1> SUFFICES ASSUME NEW j \in Invoices PROVE Opened(i)[j] \in InvoiceRow
  BY DEF Opened
<1>1. [status |-> "issued", ref |-> i] \in InvoiceRow
  BY DEF InvoiceRow, InvoiceStatus
<1>2. invoice[j] \in InvoiceRow /\ [invoice[j] EXCEPT !.status = "void"] \in InvoiceRow
  BY DEF SubsTypeOK, InvoiceRow, InvoiceStatus
<1> QED BY <1>1, <1>2 DEF Opened

LEMMA RowsTyped ==
    ASSUME SubsTypeOK, NEW i, NEW status \in InvoiceStatus
    PROVE  [invoice EXCEPT ![i].status = status] \in [Invoices -> InvoiceRow]
<1>1. \A j \in Invoices : [invoice[j] EXCEPT !.status = status] \in InvoiceRow
  BY DEF SubsTypeOK, InvoiceRow
<1> QED BY <1>1 DEF SubsTypeOK

LEMMA PaidRowTyped ==
    ASSUME SubsTypeOK, NEW i, NEW ref \in Invoices \cup {none}
    PROVE  [invoice EXCEPT ![i] = [status |-> "paid", ref |-> ref]] \in [Invoices -> InvoiceRow]
<1>1. [status |-> "paid", ref |-> ref] \in InvoiceRow
  BY DEF InvoiceRow, InvoiceStatus
<1> QED BY <1>1 DEF SubsTypeOK

LEMMA SettleBeginTyped ==
    ASSUME TypeInv, NEW i \in Invoices, NEW by \in Workers \cup {none},
           NEW ref \in Invoices \cup {none}, SettleBegin(i, by, ref)
    PROVE  /\ settling' \in Settlement /\ settling'.inv = i /\ settling'.by = by
           /\ settling'.sub = sub
BY DEF TypeInv, SubsTypeOK, SettleBegin, Settlement

\* A notification begins a settlement for an invoice the order has or will have.
LEMMA NotifiedTyped ==
    ASSUME TypeInv, NEW i \in Invoices,
           \/ \E j \in Found(i) : SettleBegin(j, none, i)
           \/ RebuildFromCache(i)
    PROVE  settling' \in Settlement /\ settling'.inv \in Invoices /\ settling'.sub = sub
<1>1. ASSUME NEW j \in Invoices, SettleBegin(j, none, i)
      PROVE  settling' \in Settlement /\ settling'.inv \in Invoices /\ settling'.sub = sub
  BY <1>1, SettleBeginTyped
<1>2. CASE RebuildFromCache(i)
  BY <1>2 DEF RebuildFromCache, TypeInv, SubsTypeOK, Settlement
<1> QED BY <1>1, <1>2 DEF Found

\* A step of a run keeps its invoice and its copy of the failures.
LEMMA GoesToTyped ==
    ASSUME TypeInv, NEW w \in Workers, NEW step \in RunStep, GoesTo(w, step)
    PROVE  /\ worker' \in [Workers -> Run]
           /\ \A v \in Workers : /\ worker'[v].failures < MaxFailures
                                 /\ v # w => worker'[v] = worker[v]
           /\ worker'[w].at = step /\ worker'[w].inv = worker[w].inv
<1>1. worker[w] \in Run
  BY DEF TypeInv, SubsTypeOK
<1>2. [worker[w] EXCEPT !.at = step] \in Run
  BY <1>1 DEF Run
<1>3. /\ [worker[w] EXCEPT !.at = step].at = step
      /\ [worker[w] EXCEPT !.at = step].inv = worker[w].inv
      /\ [worker[w] EXCEPT !.at = step].failures = worker[w].failures
  BY <1>1 DEF Run
<1> QED BY <1>2, <1>3 DEF TypeInv, SubsTypeOK, FailuresBelow, GoesTo

LEMMA EndsRunTyped ==
    ASSUME TypeInv, NEW w \in Workers, Ends(w)
    PROVE  /\ worker' \in [Workers -> Run]
           /\ \A v \in Workers : /\ worker'[v].failures < MaxFailures
                                 /\ v # w => worker'[v] = worker[v]
           /\ worker'[w] = NoRun
BY ConstantTypes, NoJobsTyped DEF TypeInv, SubsTypeOK, FailuresBelow, Ends

\* A change of the renewal's settings.
LEMMA SubTyped ==
    ASSUME TypeInv
    PROVE  /\ \A on \in BOOLEAN : [sub EXCEPT !.auto = on] \in Subscription
           /\ [sub EXCEPT !.failures = 0] \in Subscription
           /\ [sub EXCEPT !.lastAttempt = day] \in Subscription
           /\ \A on \in BOOLEAN, n \in 0..MaxFailures :
                [auto |-> on, failures |-> n, lastAttempt |-> sub.lastAttempt] \in Subscription
           /\ sub.auto \in BOOLEAN /\ sub.failures \in 0..MaxFailures
BY ConstantTypes DEF TypeInv, SubsTypeOK, Subscription

\* What is left alone keeps its part of the invariant.
LEMMA UnchangedTyped ==
    ASSUME TypeInv
    PROVE  /\ (UNCHANGED <<sub, settling, worker, desk>>) => FailuresBelow'
           /\ (UNCHANGED <<settling, worker, desk>>) => InvoicesNamed'
           /\ (UNCHANGED history) =>
                bought' \in Nat /\ cut' \in BOOLEAN /\ extended' \subseteq Invoices
           /\ (UNCHANGED gateway) =>
                /\ cached' \subseteq Invoices /\ captured' \subseteq Invoices
                /\ deliveries' \in [Invoices -> 0..MaxDeliveries]
BY DEF TypeInv, SubsTypeOK, FailuresBelow, InvoicesNamed, history, gateway

\* Days, the customer and the gateway.
LEMMA TickTyped == ASSUME TypeInv, Tick PROVE TypeInv'
<1>1. day' \in 1..MaxDay /\ charges' \in Nat
  BY ConstantTypes DEF TypeInv, SubsTypeOK, Tick
<1> QED BY <1>1, UnchangedTyped DEF TypeInv, SubsTypeOK, Tick

LEMMA SuspendTyped == ASSUME TypeInv, SuspendExpired PROVE TypeInv'
<1>1. tenant' \in [end : Nat, status : {"active", "suspended"}]
  BY DEF TypeInv, SubsTypeOK, SuspendExpired
<1> QED BY <1>1, UnchangedTyped DEF TypeInv, SubsTypeOK, SuspendExpired, UnchangedOutside

LEMMA CheckoutTyped == ASSUME TypeInv, NEW i \in Invoices, Checkout(i) PROVE TypeInv'
<1>1. invoice' \in [Invoices -> InvoiceRow] /\ cached' \subseteq Invoices
  BY OpenedTyped DEF TypeInv, SubsTypeOK, Checkout
<1> QED BY <1>1, UnchangedTyped DEF TypeInv, SubsTypeOK, Checkout, UnchangedOutside

LEMMA PayTyped == ASSUME TypeInv, NEW i \in Invoices, Pay(i) PROVE TypeInv'
<1>1. captured' \subseteq Invoices
  BY DEF TypeInv, SubsTypeOK, Pay
<1> QED BY <1>1, UnchangedTyped DEF TypeInv, SubsTypeOK, Pay, UnchangedOutside

LEMMA WebhookTyped == ASSUME TypeInv, NEW i \in Invoices, Webhook(i) PROVE TypeInv'
<1>1. deliveries' \in [Invoices -> 0..MaxDeliveries]
  BY ConstantTypes DEF TypeInv, SubsTypeOK, Webhook
<1>2. UNCHANGED <<day, card, crashes, requests, tenant, sub, invoice, captured, worker, desk,
                  history, charges>>
  BY DEF Webhook, UnchangedOutside
<1>3. CASE (\E j \in Found(i) : SettleBegin(j, none, i)) \/ RebuildFromCache(i)
  <2>1. settling' \in Settlement /\ settling'.inv \in Invoices /\ settling'.sub = sub
    BY <1>3, NotifiedTyped
  <2>2. cached' \subseteq Invoices
    BY DEF TypeInv, SubsTypeOK, Webhook
  <2> QED BY <1>1, <1>2, <2>1, <2>2, UnchangedTyped
          DEF TypeInv, SubsTypeOK, FailuresBelow, InvoicesNamed
<1>4. CASE UNCHANGED settling /\ cached' \subseteq Invoices
  BY <1>1, <1>2, <1>4, UnchangedTyped DEF TypeInv, SubsTypeOK
<1> QED BY <1>3, <1>4 DEF Webhook, TypeInv, SubsTypeOK

LEMMA SettleCommitTyped == ASSUME TypeInv, SettleCommit PROVE TypeInv'
<1>1. /\ settling.inv \in Invoices /\ settling.ref \in Invoices \cup {none}
      /\ settling.sub \in Subscription
  BY DEF TypeInv, SubsTypeOK, InvoicesNamed, SettleCommit, Unlocked, Settlement
<1>2. /\ tenant' \in [end : Nat, status : {"active", "suspended"}]
      /\ bought' \in Nat /\ cut' \in BOOLEAN /\ extended' \subseteq Invoices
  <2>1. SettledEnd \in Nat
    BY EndsTyped DEF SettledEnd, TypeInv, SubsTypeOK
  <2> QED BY <1>1, <2>1, ExtendsTyped DEF TypeInv, SettleCommit
<1>3. invoice' \in [Invoices -> InvoiceRow]
  BY <1>1, PaidRowTyped DEF TypeInv, SettleCommit
<1>4. /\ sub' \in Subscription
      /\ sub'.auto => sub'.failures < MaxFailures
  <2>1. \A n \in 0..MaxFailures :
          /\ [settling.sub EXCEPT !.failures = n] \in Subscription
          /\ [settling.sub EXCEPT !.failures = n].failures = n
          /\ [settling.sub EXCEPT !.failures = n].auto = settling.sub.auto
    BY <1>1 DEF Subscription
  <2>2. /\ sub' = [settling.sub EXCEPT !.failures = sub'.failures]
        /\ sub'.failures \in {0, settling.sub.failures}
    BY <1>1 DEF SettleCommit, Subscription
  <2>3. 0 \in 0..MaxFailures /\ 0 < MaxFailures /\ settling.sub.failures \in 0..MaxFailures
    BY <1>1, ConstantTypes DEF Subscription
  <2> QED BY <2>1, <2>2, <2>3 DEF TypeInv, FailuresBelow
<1>5. /\ worker' \in [Workers -> Run]
      /\ \A w \in Workers : /\ worker'[w].failures < MaxFailures
                            /\ worker'[w] = NoRun \/ worker'[w] = worker[w]
  BY NoJobsTyped, ConstantTypes DEF TypeInv, SubsTypeOK, FailuresBelow, SettleCommit
<1>6. cached' \subseteq Invoices /\ settling' = NoSettlement
  BY DEF TypeInv, SubsTypeOK, SettleCommit
<1>7. FailuresBelow' /\ InvoicesNamed'
  BY <1>4, <1>5, <1>6, NoJobsTyped DEF TypeInv, FailuresBelow, InvoicesNamed, SettleCommit
<1> QED BY <1>2, <1>3, <1>4, <1>5, <1>6, <1>7, NoJobsTyped
        DEF TypeInv, SubsTypeOK, SettleCommit, UnchangedOutside

\* Changes of the renewal's settings.
LEMMA SettingsTyped ==
    ASSUME TypeInv,
           RemoveCard \/ SaveCard \/ \E on \in BOOLEAN : SetAutoRenew(on)
    PROVE  TypeInv'
<1>1. requests' \in 0..MaxRequests
  BY ConstantTypes DEF TypeInv, SubsTypeOK, RemoveCard, SaveCard, SetAutoRenew, Requested
<1>2. ASSUME NEW on \in BOOLEAN, SetAutoRenew(on) PROVE TypeInv'
  <2>1. PICK n \in 0..MaxFailures :
           /\ sub' = [auto |-> on, failures |-> n, lastAttempt |-> sub.lastAttempt]
           /\ n = IF on THEN 0 ELSE sub.failures
    BY <1>2, SubTyped, ConstantTypes DEF SetAutoRenew
  <2>2. sub' \in Subscription /\ (sub'.auto => sub'.failures < MaxFailures)
    BY <2>1, SubTyped, ConstantTypes
  <2> QED BY <1>1, <1>2, <2>2, UnchangedTyped DEF TypeInv, SubsTypeOK, FailuresBelow, SetAutoRenew
<1>3. CASE RemoveCard
  <2>1. sub' \in Subscription /\ ~sub'.auto
    BY <1>3, SubTyped DEF RemoveCard, TypeInv, SubsTypeOK, Subscription
  <2> QED BY <1>1, <1>3, <2>1, UnchangedTyped DEF TypeInv, SubsTypeOK, FailuresBelow, RemoveCard
<1>4. CASE SaveCard
  BY <1>1, <1>4, UnchangedTyped DEF TypeInv, SubsTypeOK, SaveCard
<1> QED BY <1>2, <1>3, <1>4

\* Admin requests.
LEMMA DeskReadTyped == ASSUME TypeInv, DeskRead PROVE TypeInv'
<1>1. requests' \in 0..MaxRequests
  <2>1. Requested
    BY DEF DeskRead
  <2> QED BY <2>1, ConstantTypes DEF TypeInv, SubsTypeOK, Requested
<1>2. /\ desk' \in DeskJob /\ (desk'.job = "collect" => desk'.inv \in Invoices)
      /\ ~desk'.sub.auto
  <2>1. NotRead \in Subscription /\ ~NotRead.auto /\ tenant.end \in Nat
    BY ConstantTypes DEF NotRead, Subscription, TypeInv, SubsTypeOK
  <2>2. \/ \E i \in Invoices, j \in {"void", "collect"} :
             desk' = [job |-> j, inv |-> i, end |-> 0, sub |-> NotRead]
        \/ \E i \in Invoices :
             desk' = [job |-> "refund", inv |-> i, end |-> tenant.end, sub |-> NotRead]
        \/ desk' = [job |-> "renew", inv |-> none, end |-> tenant.end, sub |-> NotRead]
    BY DEF DeskRead, NoRequest
  <2> QED BY <2>1, <2>2 DEF DeskJob
<1> QED BY <1>1, <1>2, UnchangedTyped
        DEF TypeInv, SubsTypeOK, FailuresBelow, InvoicesNamed, DeskRead, DeskOnly

LEMMA RenewReadTyped == ASSUME TypeInv, RenewRead PROVE TypeInv'
<1>1. desk \in DeskJob /\ PeriodAnchor(desk.end) + PeriodDays \in Nat
  BY EndsTyped DEF TypeInv, SubsTypeOK, DeskJob
<1>2. desk' \in DeskJob /\ desk'.job = "renewing" /\ desk'.sub = sub
  BY <1>1 DEF RenewRead, TypeInv, SubsTypeOK, DeskJob
<1> QED BY <1>2, UnchangedTyped
        DEF TypeInv, SubsTypeOK, FailuresBelow, InvoicesNamed, RenewRead, DeskOnly

LEMMA DeskWriteTyped == ASSUME TypeInv, DeskWrite PROVE TypeInv'
<1>d. /\ desk' = NoRequest /\ desk \in DeskJob
      /\ UNCHANGED <<day, card, crashes, requests, gateway, worker, charges>>
      /\ sub' = sub \/ (RenewWrite /\ sub' = desk.sub)
  BY DEF DeskWrite, VoidWrite, Collect, RefundWrite, RenewWrite, DeskOnly, TypeInv, SubsTypeOK
<1>s. sub' \in Subscription
  BY <1>d DEF TypeInv, SubsTypeOK, DeskJob
<1>n. (UNCHANGED settling) => FailuresBelow' /\ InvoicesNamed'
  BY <1>d, NoJobsTyped DEF TypeInv, FailuresBelow, InvoicesNamed
<1>1. CASE VoidWrite
  <2>1. invoice' \in [Invoices -> InvoiceRow]
    BY <1>1, RowsTyped DEF TypeInv, VoidWrite, InvoiceStatus
  <2> QED BY <1>1, <1>d, <1>s, <1>n, <2>1, NoJobsTyped, UnchangedTyped DEF TypeInv, SubsTypeOK, VoidWrite
<1>2. CASE Collect
  <2>1. CASE SettleBegin(desk.inv, none, none)
    <3>1. settling' \in Settlement /\ settling'.inv \in Invoices /\ settling'.sub = sub
      BY <1>2, <2>1, SettleBeginTyped DEF Collect, TypeInv, InvoicesNamed
    <3> QED BY <1>2, <1>d, <1>s, <3>1, NoJobsTyped, UnchangedTyped
            DEF TypeInv, SubsTypeOK, FailuresBelow, InvoicesNamed, Collect
  <2>2. CASE UNCHANGED settling
    BY <1>2, <1>d, <1>s, <1>n, <2>2, NoJobsTyped, UnchangedTyped DEF TypeInv, SubsTypeOK, Collect
  <2> QED BY <1>2, <2>1, <2>2 DEF Collect
<1>3. CASE RefundWrite
  <2>1. invoice' \in [Invoices -> InvoiceRow]
    BY <1>3, RowsTyped DEF TypeInv, RefundWrite, InvoiceStatus
  <2>2. cut' \in BOOLEAN /\ \E end \in Nat : tenant' = [tenant EXCEPT !.end = end]
    <3>1. day \in Nat /\ tenant.end \in Nat /\ tenant = [tenant EXCEPT !.end = tenant.end]
      BY ConstantTypes DEF TypeInv, SubsTypeOK
    <3> QED BY <1>3, <3>1 DEF TypeInv, SubsTypeOK, RefundWrite
  <2>3. tenant' \in [end : Nat, status : {"active", "suspended"}]
    BY <2>2 DEF TypeInv, SubsTypeOK
  <2> QED BY <1>3, <1>d, <1>s, <1>n, <2>1, <2>2, <2>3, NoJobsTyped, UnchangedTyped
          DEF TypeInv, SubsTypeOK, RefundWrite
<1>4. CASE RenewWrite
  <2>1. desk.end \in Nat
    BY <1>d DEF DeskJob
  <2>2. PICK i \in Invoices :
           /\ invoice' = [invoice EXCEPT ![i] = [status |-> "paid", ref |-> none]]
           /\ Extends(i, desk.end)
    BY <1>4 DEF RenewWrite
  <2>3. /\ tenant' \in [end : Nat, status : {"active", "suspended"}]
        /\ bought' \in Nat /\ cut' \in BOOLEAN /\ extended' \subseteq Invoices
        /\ invoice' \in [Invoices -> InvoiceRow]
    BY <2>1, <2>2, ExtendsTyped, PaidRowTyped DEF TypeInv
  <2> QED BY <1>4, <1>d, <1>s, <1>n, <2>3, NoJobsTyped, UnchangedTyped DEF TypeInv, SubsTypeOK, RenewWrite
<1> QED BY <1>1, <1>2, <1>3, <1>4 DEF DeskWrite

LEMMA IssueTyped == ASSUME TypeInv, NEW i \in Invoices, IssueByHand(i) PROVE TypeInv'
<1>1. requests' \in 0..MaxRequests
  BY ConstantTypes DEF TypeInv, SubsTypeOK, IssueByHand, Requested
<1>2. [status |-> "issued", ref |-> none] \in InvoiceRow
  BY DEF InvoiceRow, InvoiceStatus
<1>3. invoice' \in [Invoices -> InvoiceRow]
  BY <1>2 DEF TypeInv, SubsTypeOK, IssueByHand
<1> QED BY <1>1, <1>3, UnchangedTyped DEF TypeInv, SubsTypeOK, IssueByHand, DeskOnly

\* The renewal.
LEMMA RunTyped ==
    ASSUME TypeInv, NEW w \in Workers, RenewList(w) \/ RenewStep(w)
    PROVE  TypeInv'
<1>o. UNCHANGED <<day, card, crashes, requests, desk>>
  BY DEF RenewList, RenewStep, RenewAttempt, RenewOpen, RenewCharge, RenewSettle, RenewLost,
     RenewDeclined, WorkerOnly
<1>w. worker[w] \in Run /\ worker[w].failures < MaxFailures
  BY DEF TypeInv, SubsTypeOK, FailuresBelow
<1>g. ASSUME NEW step \in RunStep, step # "opened", GoesTo(w, step)
      PROVE  /\ worker' \in [Workers -> Run]
             /\ \A v \in Workers : /\ worker'[v].failures < MaxFailures
                                   /\ worker'[v].at = "opened" => worker'[v].inv \in Invoices
  BY <1>g, GoesToTyped DEF TypeInv, InvoicesNamed
<1>e. ASSUME Ends(w)
      PROVE  /\ worker' \in [Workers -> Run]
             /\ \A v \in Workers : /\ worker'[v].failures < MaxFailures
                                   /\ worker'[v].at = "opened" => worker'[v].inv \in Invoices
  BY <1>e, EndsRunTyped, NoJobsTyped DEF TypeInv, InvoicesNamed
<1>1. CASE RenewList(w)
  BY <1>1, <1>o, <1>g, UnchangedTyped
     DEF RenewList, RunStep, TypeInv, SubsTypeOK, FailuresBelow, InvoicesNamed
<1>2. CASE RenewAttempt(w)
  <2>1. CASE ~MayAttempt(sub)
    BY <1>2, <1>o, <1>e, <2>1, UnchangedTyped
       DEF RenewAttempt, TypeInv, SubsTypeOK, FailuresBelow, InvoicesNamed
  <2>2. CASE MayAttempt(sub)
    <3>1. /\ sub' \in Subscription /\ sub'.auto = sub.auto /\ sub'.failures = sub.failures
          /\ sub.failures \in 0..MaxFailures /\ sub.failures < MaxFailures
      BY <1>2, <2>2, SubTyped DEF RenewAttempt, MayAttempt, TypeInv, SubsTypeOK, FailuresBelow,
         Subscription
    <3>2. [at |-> "attempted", inv |-> none, failures |-> sub.failures] \in Run
      BY <3>1 DEF Run, RunStep
    <3>3. /\ worker' \in [Workers -> Run]
          /\ \A v \in Workers : /\ worker'[v].failures < MaxFailures
                                /\ worker'[v].at = "opened" => worker'[v].inv \in Invoices
      BY <1>2, <2>2, <3>1, <3>2
         DEF RenewAttempt, TypeInv, SubsTypeOK, FailuresBelow, InvoicesNamed
    <3> QED BY <1>2, <1>o, <2>2, <3>1, <3>3, UnchangedTyped
            DEF RenewAttempt, TypeInv, SubsTypeOK, FailuresBelow, InvoicesNamed
  <2> QED BY <2>1, <2>2
<1>3. CASE RenewOpen(w)
  <2>u. UNCHANGED <<tenant, gateway, settling, history, charges>>
    BY <1>3 DEF RenewOpen
  <2>1. CASE sub' = [sub EXCEPT !.auto = FALSE] /\ Ends(w) /\ UNCHANGED invoice
    <3>1. sub' \in Subscription /\ ~sub'.auto
      BY <2>1, SubTyped DEF TypeInv, SubsTypeOK, Subscription
    <3> QED BY <1>o, <1>e, <2>u, <2>1, <3>1, UnchangedTyped
            DEF TypeInv, SubsTypeOK, FailuresBelow, InvoicesNamed
  <2>2. CASE GoesTo(w, "declined") /\ UNCHANGED <<sub, invoice>>
    BY <1>o, <1>g, <2>u, <2>2, UnchangedTyped
       DEF RunStep, TypeInv, SubsTypeOK, FailuresBelow, InvoicesNamed
  <2>3. ASSUME NEW i \in Invoices, invoice' = Opened(i), UNCHANGED sub,
               worker' = [worker EXCEPT ![w] = [at |-> "opened", inv |-> i,
                                                failures |-> worker[w].failures]]
        PROVE  TypeInv'
    <3>1. [at |-> "opened", inv |-> i, failures |-> worker[w].failures] \in Run
      BY <1>w DEF Run, RunStep
    <3>2. /\ worker' \in [Workers -> Run]
          /\ \A v \in Workers : /\ worker'[v].failures < MaxFailures
                                /\ worker'[v].at = "opened" => worker'[v].inv \in Invoices
      BY <1>w, <2>3, <3>1 DEF TypeInv, SubsTypeOK, FailuresBelow, InvoicesNamed
    <3>3. invoice' \in [Invoices -> InvoiceRow]
      BY <2>3, OpenedTyped DEF TypeInv
    <3> QED BY <1>o, <2>u, <2>3, <3>2, <3>3, UnchangedTyped
            DEF TypeInv, SubsTypeOK, FailuresBelow, InvoicesNamed
  <2> QED BY <1>3, <2>1, <2>2, <2>3 DEF RenewOpen
<1>4. CASE RenewCharge(w)
  <2>1. captured' \subseteq Invoices /\ charges' \in Nat
    BY <1>4 DEF RenewCharge, At, TypeInv, SubsTypeOK, InvoicesNamed
  <2>2. /\ worker' \in [Workers -> Run]
        /\ \A v \in Workers : /\ worker'[v].failures < MaxFailures
                              /\ worker'[v].at = "opened" => worker'[v].inv \in Invoices
    BY <1>4, <1>g DEF RenewCharge, RunStep
  <2> QED BY <1>4, <1>o, <2>1, <2>2, UnchangedTyped
          DEF RenewCharge, TypeInv, SubsTypeOK, FailuresBelow, InvoicesNamed
<1>5. CASE RenewSettle(w)
  <2>u. UNCHANGED <<tenant, invoice, gateway, history, charges>>
    BY <1>5 DEF RenewSettle
  <2>1. CASE /\ \E j \in Found(worker[w].inv) : SettleBegin(j, w, worker[w].inv)
             /\ GoesTo(w, "settling") /\ UNCHANGED sub
    <3>1. PICK j \in Invoices : SettleBegin(j, w, worker[w].inv)
      BY <2>1 DEF Found
    <3>2. settling' \in Settlement /\ settling'.inv = j /\ settling'.sub = sub
      BY <1>w, <3>1, SettleBeginTyped DEF Run
    <3> QED BY <1>o, <1>g, <2>u, <2>1, <3>2, UnchangedTyped
            DEF RunStep, TypeInv, SubsTypeOK, FailuresBelow, InvoicesNamed
  <2>2. CASE sub' = [sub EXCEPT !.failures = 0] /\ Ends(w) /\ UNCHANGED settling
    <3>1. sub' \in Subscription /\ sub'.failures < MaxFailures
      BY <2>2, SubTyped, ConstantTypes DEF TypeInv, SubsTypeOK, Subscription
    <3> QED BY <1>o, <1>e, <2>u, <2>2, <3>1, UnchangedTyped
            DEF TypeInv, SubsTypeOK, FailuresBelow, InvoicesNamed
  <2> QED BY <1>5, <2>1, <2>2 DEF RenewSettle
<1>6. CASE RenewLost(w)
  <2>1. sub' \in Subscription /\ ~sub'.auto
    BY <1>6, SubTyped DEF RenewLost, TypeInv, SubsTypeOK, Subscription
  <2> QED BY <1>6, <1>o, <1>e, <2>1, UnchangedTyped
          DEF RenewLost, TypeInv, SubsTypeOK, FailuresBelow, InvoicesNamed
<1>7. CASE RenewDeclined(w)
  <2>1. worker[w].failures + 1 \in 0..MaxFailures
    BY <1>w, ConstantTypes DEF Run
  <2>2. sub' \in Subscription /\ (sub'.auto => sub'.failures < MaxFailures)
    BY <1>7, <2>1, SubTyped, ConstantTypes DEF RenewDeclined
  <2>3. invoice' \in [Invoices -> InvoiceRow]
    BY <1>7, RowsTyped DEF RenewDeclined, InvoiceStatus, TypeInv, SubsTypeOK
  <2> QED BY <1>7, <1>o, <1>e, <2>2, <2>3, UnchangedTyped
          DEF RenewDeclined, TypeInv, SubsTypeOK, FailuresBelow, InvoicesNamed
<1> QED BY <1>1, <1>2, <1>3, <1>4, <1>5, <1>6, <1>7 DEF RenewStep

LEMMA WorkerCrashTyped == ASSUME TypeInv, NEW w \in Workers, WorkerCrash(w) PROVE TypeInv'
<1>1. crashes' \in 0..MaxCrashes
  BY ConstantTypes DEF TypeInv, SubsTypeOK, WorkerCrash
<1>2. /\ worker' \in [Workers -> Run]
      /\ \A v \in Workers : /\ worker'[v].failures < MaxFailures
                            /\ worker'[v].at = "opened" => worker'[v].inv \in Invoices
  BY EndsRunTyped, NoJobsTyped DEF TypeInv, InvoicesNamed, WorkerCrash
<1>3. settling' \in {settling, NoSettlement}
  BY DEF WorkerCrash
<1> QED BY <1>1, <1>2, <1>3, NoJobsTyped, UnchangedTyped
        DEF TypeInv, SubsTypeOK, FailuresBelow, InvoicesNamed, WorkerCrash

LEMMA TypeInvHolds == SubsInit => TypeInv
<1> SUFFICES ASSUME SubsInit PROVE TypeInv
  OBVIOUS
<1>1. sub \in Subscription /\ sub.failures = 0
  BY ConstantTypes DEF SubsInit, Subscription
<1>2. /\ day \in 1..MaxDay /\ charges \in Nat /\ crashes \in 0..MaxCrashes
      /\ requests \in 0..MaxRequests /\ deliveries \in [Invoices -> 0..MaxDeliveries]
      /\ tenant \in [end : Nat, status : {"active", "suspended"}]
  BY ConstantTypes DEF SubsInit
<1>3. FailuresBelow /\ InvoicesNamed
  BY <1>1, NoJobsTyped, ConstantTypes DEF SubsInit, FailuresBelow, InvoicesNamed
<1> QED BY <1>1, <1>2, <1>3, NoJobsTyped DEF SubsInit, TypeInv, SubsTypeOK

LEMMA TypeInvStep == TypeInv /\ [SubsNext]_vars => TypeInv'
<1> SUFFICES ASSUME TypeInv, [SubsNext]_vars PROVE TypeInv'
  OBVIOUS
<1>1. CASE SubsNext
  BY <1>1, TickTyped, SuspendTyped, SettleCommitTyped, DeskReadTyped, RenewReadTyped,
     DeskWriteTyped, SettingsTyped, CheckoutTyped, PayTyped, WebhookTyped, IssueTyped, RunTyped, WorkerCrashTyped
     DEF SubsNext
<1>2. CASE UNCHANGED vars
  BY <1>2, UnchangedTyped DEF vars, TypeInv, SubsTypeOK
<1> QED BY <1>1, <1>2

\* The renewal, the settlements and the admins write no value a row cannot have; in
\* particular the counter of failures never passes its limit, although a renewal
\* writes it from a copy.
THEOREM SubsTypes == SubsSpec => []SubsTypeOK
BY TypeInvHolds, TypeInvStep, PTL DEF SubsSpec, TypeInv

-----------------------------------------------------------------------------
(* A tenant is suspended only after its days are over.  An admin's refund  *)
(* decides on the end it has read, which a payment can only have moved to  *)
(* a later day.                                                            *)

RefundKnows == desk.job = "refund" => desk.end <= tenant.end

LapseInv == TypeInv /\ SuspendedMeansLapsed /\ RefundKnows

\* A payment reactivates the tenant and never brings the end forward.
LEMMA PaymentReactivates ==
    ASSUME TypeInv, SettleCommit
    PROVE  tenant'.status = "active" /\ tenant'.end >= tenant.end
<1>1. PICK i : Extends(i, SettledEnd)
  BY DEF SettleCommit
<1>2. tenant.end \in Nat
  BY DEF TypeInv, SubsTypeOK
<1>3. SettledEnd >= tenant.end
  BY <1>2, EndsTyped, ConstantTypes DEF SettledEnd, PeriodAnchor, Later, TypeInv, SubsTypeOK
<1> QED BY <1>1, <1>3 DEF Extends

\* The steps that touch neither the tenant nor the admin's request.
LEMMA TenantSteps ==
    ASSUME SubsNext
    PROVE  \/ UNCHANGED <<tenant, desk, day>>
           \/ Tick \/ SuspendExpired \/ SettleCommit \/ DeskRead \/ RenewRead \/ DeskWrite
<1>2. ASSUME NEW i \in Invoices, Checkout(i) \/ Pay(i) \/ Webhook(i) \/ IssueByHand(i)
      PROVE  UNCHANGED <<tenant, desk, day>>
  BY <1>2 DEF Checkout, Pay, Webhook, IssueByHand, UnchangedOutside, DeskOnly
<1>3. ASSUME RemoveCard \/ SaveCard \/ \E on \in BOOLEAN : SetAutoRenew(on)
      PROVE  UNCHANGED <<tenant, desk, day>>
  BY <1>3 DEF RemoveCard, SaveCard, SetAutoRenew
<1>4. ASSUME NEW w \in Workers, RenewList(w) \/ RenewStep(w) \/ WorkerCrash(w)
      PROVE  UNCHANGED <<tenant, desk, day>>
  BY <1>4 DEF RenewList, RenewStep, RenewAttempt, RenewOpen, RenewCharge, RenewSettle,
     RenewLost, RenewDeclined, WorkerCrash, WorkerOnly
<1> QED BY <1>2, <1>3, <1>4 DEF SubsNext

LEMMA LapseInvStep == LapseInv /\ [SubsNext]_vars => LapseInv'
<1> SUFFICES ASSUME LapseInv, [SubsNext]_vars
             PROVE  SuspendedMeansLapsed' /\ RefundKnows'
  BY TypeInvStep DEF LapseInv
<1> USE ConstantTypes DEF LapseInv, SuspendedMeansLapsed, RefundKnows
<1>t. /\ TypeInv /\ day \in Nat /\ tenant.end \in Nat /\ desk.end \in Nat
      /\ tenant \in [end : Nat, status : {"active", "suspended"}]
  BY DEF TypeInv, SubsTypeOK, DeskJob
<1>1. CASE UNCHANGED <<tenant, desk, day>>
  BY <1>1
<1>2. CASE Tick
  BY <1>2, <1>t DEF Tick
<1>3. CASE SuspendExpired
  <2>1. tenant'.end = tenant.end /\ UNCHANGED <<day, desk>> /\ tenant.end < day - GraceDays
    BY <1>3, <1>t DEF SuspendExpired, UnchangedOutside
  <2> QED BY <1>t, <2>1
<1>4. CASE SettleCommit
  <2>1. UNCHANGED desk
    BY <1>4 DEF SettleCommit
  <2>2. tenant'.status = "active" /\ tenant'.end >= tenant.end /\ tenant'.end \in Nat
    <3>1. TypeInv'
      BY TypeInvStep
    <3> QED BY <1>4, <1>t, <3>1, PaymentReactivates DEF TypeInv, SubsTypeOK
  <2> QED BY <1>t, <2>1, <2>2
<1>5. CASE DeskRead
  <2>1. /\ UNCHANGED <<tenant, day>>
        /\ desk'.job = "refund" => desk'.end = tenant.end
    BY <1>5 DEF DeskRead, DeskOnly, NoRequest
  <2> QED BY <1>t, <2>1
<1>8. CASE RenewRead
  <2>1. UNCHANGED <<tenant, day>> /\ desk'.job = "renewing"
    BY <1>8 DEF RenewRead, DeskOnly, TypeInv, SubsTypeOK, DeskJob
  <2> QED BY <1>t, <2>1
<1>6. CASE DeskWrite
  <2>1. desk' = NoRequest /\ UNCHANGED day
    BY <1>6 DEF DeskWrite, VoidWrite, Collect, RefundWrite, RenewWrite, DeskOnly
  <2>2. RefundKnows'
    BY <2>1, NoJobsTyped
  <2>3. CASE VoidWrite \/ Collect
    BY <2>1, <2>2, <2>3 DEF VoidWrite, Collect
  <2>4. CASE RefundWrite
    <3>1. CASE UNCHANGED tenant
      BY <2>1, <2>2, <3>1
    <3>2. CASE tenant' = [tenant EXCEPT !.end = IF desk.end > day THEN day ELSE @]
      <4>1. tenant'.status = tenant.status /\ (desk.end <= day => tenant'.end = tenant.end)
        BY <1>t, <3>2
      <4>2. tenant.status = "suspended" => desk.end <= day
        BY <1>t, <2>4 DEF RefundWrite
      <4> QED BY <2>1, <2>2, <4>1, <4>2
    <3> QED BY <2>4, <3>1, <3>2 DEF RefundWrite
  <2>5. CASE RenewWrite
    BY <2>2, <2>5 DEF RenewWrite, Extends
  <2> QED BY <1>6, <2>3, <2>4, <2>5 DEF DeskWrite
<1>7. CASE UNCHANGED vars
  BY <1>7 DEF vars
<1> QED BY <1>1, <1>2, <1>3, <1>4, <1>5, <1>6, <1>7, <1>8, TenantSteps

\* A tenant is locked out only when its paid days and the days of grace are over,
\* however renewals, payments, refunds and suspensions overlap.
THEOREM SuspendedOnlyWhenLapsed == SubsSpec => []SuspendedMeansLapsed
<1>1. SubsInit => LapseInv
  BY TypeInvHolds, NoJobsTyped DEF SubsInit, LapseInv, SuspendedMeansLapsed, RefundKnows
<1> QED BY <1>1, LapseInvStep, PTL DEF SubsSpec, LapseInv

-----------------------------------------------------------------------------
(* Where requests, settlements and renewals do not overlap, what one of    *)
(* them has read stands until it writes.                                   *)

CopiesAgree ==
    /\ settling # NoSettlement => settling.sub = sub /\ desk = NoRequest
    /\ desk.job = "renew" => desk.end = tenant.end
    /\ desk.job = "renewing" => desk.end >= tenant.end + PeriodDays /\ desk.sub = sub

AloneInv == TypeInv /\ CopiesAgree

LEMMA AloneInvStep == ASSUME ~Overlap PROVE AloneInv /\ [SubsNext]_vars => AloneInv'
<1> SUFFICES ASSUME AloneInv, [SubsNext]_vars PROVE CopiesAgree'
  BY TypeInvStep DEF AloneInv
<1> USE DEF AloneInv
<1>1. CASE Tick
  BY <1>1 DEF CopiesAgree, Tick
<1>2. CASE SettleCommit
  BY <1>2, NoJobsTyped DEF CopiesAgree, SettleCommit, Unlocked
<1>3. CASE DeskRead
  BY <1>3 DEF CopiesAgree, DeskRead, DeskOnly, Requested, MayStart, Unlocked, NoRequest
<1>4. CASE DeskWrite
  <2>1. desk' = NoRequest
    BY <1>4 DEF DeskWrite, VoidWrite, Collect, RefundWrite, RenewWrite
  <2>2. CASE Collect
    <3>1. UNCHANGED sub /\ (UNCHANGED settling \/ settling'.sub = sub)
      BY <2>2, SettleBeginTyped DEF TypeInv, InvoicesNamed, Collect
    <3> QED BY <2>1, <2>2, <3>1, NoJobsTyped DEF CopiesAgree, Collect, Unlocked
  <2>3. CASE ~Collect
    BY <1>4, <2>1, <2>3, NoJobsTyped
       DEF CopiesAgree, DeskWrite, VoidWrite, RefundWrite, RenewWrite, Unlocked
  <2> QED BY <2>2, <2>3
<1>5. ASSUME NEW i \in Invoices, Webhook(i) PROVE CopiesAgree'
  <2>1. MayStart /\ UNCHANGED <<sub, desk>>
    BY <1>5 DEF Webhook
  <2>2. UNCHANGED settling \/ settling'.sub = sub
    BY <1>5, NotifiedTyped DEF Webhook
  <2> QED BY <2>1, <2>2, NoJobsTyped DEF CopiesAgree, MayStart, Unlocked
<1>6. ASSUME NEW i \in Invoices, Checkout(i) \/ Pay(i) \/ IssueByHand(i) PROVE CopiesAgree'
  BY <1>6 DEF CopiesAgree, Checkout, Pay, IssueByHand
<1>7. ASSUME RemoveCard \/ SaveCard \/ \E on \in BOOLEAN : SetAutoRenew(on) PROVE CopiesAgree'
  <2>1. MayStart /\ UNCHANGED <<tenant, settling, desk>>
    BY <1>7 DEF RemoveCard, SaveCard, SetAutoRenew, Requested
  <2> QED BY <2>1, NoJobsTyped DEF CopiesAgree, MayStart, Unlocked
<1>8. CASE SuspendExpired
  BY <1>8, NoJobsTyped DEF CopiesAgree, SuspendExpired, MayStart, Unlocked
<1>9. ASSUME NEW w \in Workers, RenewList(w) \/ RenewStep(w) PROVE CopiesAgree'
  <2>1. MayStart /\ UNCHANGED <<tenant, desk>>
    BY <1>9 DEF RenewList, RenewStep, RenewAttempt, RenewOpen, RenewCharge, RenewSettle,
       RenewLost, RenewDeclined, WorkerOnly, At
  <2>2. UNCHANGED settling \/ (settling'.sub = sub /\ UNCHANGED sub)
    <3>1. CASE RenewSettle(w)
      <4>1. worker[w].inv \in Invoices \cup {none}
        BY DEF TypeInv, SubsTypeOK, Run
      <4>2. ASSUME NEW j \in Invoices, SettleBegin(j, w, worker[w].inv) PROVE settling'.sub = sub
        BY <4>1, <4>2, SettleBeginTyped
      <4> QED BY <3>1, <4>2 DEF RenewSettle, Found
    <3>2. CASE ~RenewSettle(w)
      BY <1>9, <3>2 DEF RenewList, RenewStep, RenewAttempt, RenewOpen, RenewCharge,
         RenewLost, RenewDeclined
    <3> QED BY <3>1, <3>2
  <2> QED BY <2>1, <2>2, NoJobsTyped DEF CopiesAgree, MayStart, Unlocked
<1>10. ASSUME NEW w \in Workers, WorkerCrash(w) PROVE CopiesAgree'
  BY <1>10 DEF CopiesAgree, WorkerCrash
<1>11. CASE UNCHANGED vars
  BY <1>11 DEF vars, CopiesAgree
<1>12. CASE RenewRead
  <2>1. /\ desk \in DeskJob /\ desk.end = tenant.end /\ desk.end \in Nat
        /\ PeriodAnchor(desk.end) + PeriodDays \in Nat /\ PeriodAnchor(desk.end) >= desk.end
        /\ PeriodAnchor(desk.end) \in Nat
    BY <1>12, EndsTyped, ConstantTypes
       DEF CopiesAgree, RenewRead, TypeInv, SubsTypeOK, DeskJob, PeriodAnchor, Later
  <2>2. /\ desk'.job = "renewing" /\ desk'.end = PeriodAnchor(desk.end) + PeriodDays
        /\ desk'.sub = sub /\ UNCHANGED <<tenant, sub, settling>>
    BY <1>12, <2>1 DEF RenewRead, DeskJob
  <2>3. settling = NoSettlement
    BY <1>12, NoJobsTyped DEF RenewRead, CopiesAgree
  <2> QED BY <2>1, <2>2, <2>3, ConstantTypes DEF CopiesAgree
<1> QED BY <1>1, <1>2, <1>3, <1>4, <1>5, <1>6, <1>7, <1>8, <1>9, <1>10, <1>11, <1>12 DEF SubsNext

LEMMA AloneInvHolds == ASSUME ~Overlap PROVE SubsSpec => []AloneInv
<1>1. SubsInit => AloneInv
  BY TypeInvHolds, NoJobsTyped DEF SubsInit, AloneInv, CopiesAgree
<1> QED BY <1>1, AloneInvStep, PTL DEF SubsSpec

-----------------------------------------------------------------------------
(* One charge a day                                                        *)

Attempting(w) == worker[w].at \in {"attempted", "opened"}

ChargeRows ==
    /\ OneChargePerDay
    /\ charges > 0 => sub.lastAttempt = day
    /\ \A w \in Workers : Attempting(w) => sub.lastAttempt = day /\ charges = 0
    /\ \A v, w \in Workers : (Attempting(v) /\ Attempting(w)) => v = w

ChargeInv == AloneInv /\ ChargeRows

\* What most steps have in common: today's attempt stays recorded, and no run
\* comes to attempt or to charge.
NoAttempt ==
    /\ UNCHANGED <<day, charges>>
    /\ sub'.lastAttempt = sub.lastAttempt
    /\ \A w \in Workers : Attempting(w)' => Attempting(w)

LEMMA NoAttemptKeeps == ASSUME ChargeRows, NoAttempt PROVE ChargeRows'
BY DEF ChargeRows, NoAttempt, OneChargePerDay

LEMMA OutsideAttemptsNothing ==
    ASSUME ChargeInv, ~Overlap,
           \/ SuspendExpired \/ SettleCommit \/ DeskRead \/ RenewRead \/ DeskWrite
           \/ RemoveCard \/ SaveCard
           \/ \E on \in BOOLEAN : SetAutoRenew(on)
           \/ \E i \in Invoices : Checkout(i) \/ Pay(i) \/ Webhook(i) \/ IssueByHand(i)
    PROVE  NoAttempt
<1> USE DEF NoAttempt, Attempting
<1>t. sub \in Subscription /\ settling.sub \in Subscription
  BY DEF ChargeInv, AloneInv, TypeInv, SubsTypeOK, Settlement
<1>1. CASE SettleCommit
  <2>1. settling.sub = sub /\ UNCHANGED <<day, charges>>
    BY <1>1 DEF ChargeInv, AloneInv, CopiesAgree, SettleCommit, Unlocked, UnchangedOutside
  <2>2. sub'.lastAttempt = settling.sub.lastAttempt
    BY <1>1, <1>t DEF SettleCommit, Subscription
  <2>3. \A w \in Workers : worker'[w] = worker[w] \/ worker'[w] = NoRun
    BY <1>1 DEF SettleCommit, ChargeInv, AloneInv, TypeInv, SubsTypeOK
  <2> QED BY <2>1, <2>2, <2>3, NoJobsTyped
<1>2. ASSUME RemoveCard \/ SaveCard \/ \E on \in BOOLEAN : SetAutoRenew(on) PROVE NoAttempt
  BY <1>2, <1>t DEF RemoveCard, SaveCard, SetAutoRenew, Subscription
<1>3. CASE SuspendExpired
  BY <1>3 DEF SuspendExpired, UnchangedOutside
<1>4. CASE DeskRead \/ RenewRead \/ DeskWrite
  BY <1>4 DEF DeskRead, RenewRead, DeskWrite, VoidWrite, Collect, RefundWrite, RenewWrite,
     DeskOnly, ChargeInv, AloneInv, CopiesAgree
<1>5. ASSUME NEW i \in Invoices, Checkout(i) \/ Pay(i) \/ Webhook(i) \/ IssueByHand(i)
      PROVE  NoAttempt
  BY <1>5 DEF Checkout, Pay, Webhook, IssueByHand, UnchangedOutside, DeskOnly
<1> QED BY <1>1, <1>2, <1>3, <1>4, <1>5

LEMMA RunsCharge ==
    ASSUME ChargeInv, ~Overlap, NEW w \in Workers,
           RenewList(w) \/ RenewStep(w) \/ WorkerCrash(w)
    PROVE  ChargeRows'
<1>t. /\ TypeInv /\ ChargeRows /\ sub \in Subscription /\ charges \in Nat
      /\ worker \in [Workers -> Run]
  BY DEF ChargeInv, AloneInv, TypeInv, SubsTypeOK
<1>g. ASSUME NEW step \in RunStep, step \notin {"attempted", "opened"}, GoesTo(w, step)
      PROVE  \A v \in Workers : Attempting(v)' => Attempting(v) /\ v # w
  BY <1>g, <1>t, GoesToTyped DEF Attempting
<1>e. ASSUME Ends(w)
      PROVE  \A v \in Workers : Attempting(v)' => Attempting(v) /\ v # w
  BY <1>e, <1>t, EndsRunTyped, NoJobsTyped DEF Attempting
<1>1. CASE RenewList(w)
  BY <1>1, <1>t, <1>g, NoAttemptKeeps DEF RenewList, WorkerOnly, RunStep, NoAttempt
<1>2. CASE RenewAttempt(w)
  <2>1. CASE ~MayAttempt(sub)
    BY <1>2, <1>t, <1>e, <2>1, NoAttemptKeeps DEF RenewAttempt, WorkerOnly, NoAttempt
  <2>2. CASE MayAttempt(sub)
    <3>1. /\ sub'.lastAttempt = day' /\ UNCHANGED <<day, charges>>
          /\ sub.lastAttempt # day
      BY <1>2, <1>t, <2>2 DEF RenewAttempt, MayAttempt, WorkerOnly, Subscription
    <3>2. charges = 0 /\ \A v \in Workers : ~Attempting(v)
      BY <1>t, <3>1 DEF ChargeRows
    <3>3. \A v \in Workers : v # w => worker'[v] = worker[v]
      BY <1>2, <1>t, <2>2 DEF RenewAttempt
    <3> QED BY <3>1, <3>2, <3>3 DEF ChargeRows, OneChargePerDay, Attempting
  <2> QED BY <2>1, <2>2
<1>3. CASE RenewOpen(w)
  <2>1. \A v \in Workers : Attempting(v)' => Attempting(v)
    <3>1. CASE Ends(w)
      BY <1>e, <3>1
    <3>2. CASE GoesTo(w, "declined")
      BY <1>g, <3>2 DEF RunStep
    <3>3. CASE \A v \in Workers : v # w => worker'[v] = worker[v]
      BY <1>3, <3>3 DEF RenewOpen, At, Attempting
    <3> QED BY <1>3, <1>t, <3>1, <3>2, <3>3 DEF RenewOpen
  <2> QED BY <1>3, <1>t, <2>1, NoAttemptKeeps DEF RenewOpen, WorkerOnly, NoAttempt, Subscription
<1>4. CASE RenewCharge(w)
  <2>1. /\ charges = 0 /\ sub.lastAttempt = day
        /\ \A v \in Workers : Attempting(v) => v = w
    BY <1>4, <1>t DEF RenewCharge, At, ChargeRows, Attempting
  <2>2. \A v \in Workers : ~Attempting(v)'
    BY <1>4, <1>g, <2>1 DEF RenewCharge, RunStep
  <2>3. charges' = 1 /\ UNCHANGED <<day, sub>>
    BY <1>4, <2>1 DEF RenewCharge, WorkerOnly
  <2> QED BY <2>1, <2>2, <2>3 DEF ChargeRows, OneChargePerDay
<1>5. CASE RenewSettle(w)
  <2>1. \A v \in Workers : Attempting(v)' => Attempting(v)
    BY <1>5, <1>g, <1>e DEF RenewSettle, RunStep
  <2> QED BY <1>5, <1>t, <2>1, NoAttemptKeeps DEF RenewSettle, WorkerOnly, NoAttempt, Subscription
<1>6. CASE RenewLost(w)
  BY <1>6, <1>t, <1>e, NoAttemptKeeps DEF RenewLost, WorkerOnly, NoAttempt, Subscription
<1>7. CASE RenewDeclined(w)
  BY <1>7, <1>t, <1>e, NoAttemptKeeps DEF RenewDeclined, WorkerOnly, NoAttempt, Subscription
<1>8. CASE WorkerCrash(w)
  BY <1>8, <1>t, <1>e, NoAttemptKeeps DEF WorkerCrash, NoAttempt
<1> QED BY <1>1, <1>2, <1>3, <1>4, <1>5, <1>6, <1>7, <1>8 DEF RenewStep

\* However often the task of a day runs and whichever workers die, the card is
\* charged once a day: the attempt is committed before the gateway is called.
THEOREM ChargedOncePerDay == ASSUME ~Overlap PROVE SubsSpec => []OneChargePerDay
<1>1. SubsInit => ChargeRows
  BY NoJobsTyped DEF SubsInit, ChargeRows, OneChargePerDay, Attempting
<1>2. AloneInv /\ ChargeRows /\ [SubsNext]_vars => ChargeRows'
  <2> SUFFICES ASSUME ChargeInv, [SubsNext]_vars PROVE ChargeRows'
    BY DEF ChargeInv
  <2>1. CASE Tick
    BY <2>1, NoJobsTyped DEF Tick, ChargeRows, OneChargePerDay, Attempting
  <2>2. CASE UNCHANGED vars
    BY <2>2 DEF vars, ChargeInv, ChargeRows, OneChargePerDay, Attempting
  <2> QED BY <2>1, <2>2, OutsideAttemptsNothing, NoAttemptKeeps, RunsCharge DEF SubsNext, ChargeInv
<1> QED BY <1>1, <1>2, AloneInvHolds, PTL DEF SubsSpec, ChargeRows

-----------------------------------------------------------------------------
(* Every payment buys its own period                                       *)

LEMMA PeriodBought ==
    ASSUME TypeInv, PaidPeriodsAddUp, NEW i, NEW end \in Nat, Extends(i, end),
           end >= tenant.end + PeriodDays
    PROVE  PaidPeriodsAddUp'
<1>1. /\ tenant.end \in Nat /\ bought \in Nat /\ bought * PeriodDays \in Nat
      /\ (bought + 1) * PeriodDays = bought * PeriodDays + PeriodDays
  BY ConstantTypes DEF TypeInv, SubsTypeOK
<1>2. tenant'.end = end /\ bought' = bought + 1 /\ cut' = cut
  BY DEF Extends
<1> QED BY <1>1, <1>2, ConstantTypes DEF PaidPeriodsAddUp

\* Two invoices of one tenant, whenever they were issued and whoever collects them,
\* never pay for the same days: the period is computed when the money is settled.
THEOREM PeriodsAddUp == ASSUME ~Overlap PROVE SubsSpec => []PaidPeriodsAddUp
<1>1. SubsInit => PaidPeriodsAddUp
  BY ConstantTypes DEF SubsInit, PaidPeriodsAddUp
<1>2. AloneInv /\ PaidPeriodsAddUp /\ [SubsNext]_vars => PaidPeriodsAddUp'
  <2> SUFFICES ASSUME AloneInv, PaidPeriodsAddUp, [SubsNext]_vars PROVE PaidPeriodsAddUp'
    OBVIOUS
  <2>t. TypeInv /\ tenant \in [end : Nat, status : {"active", "suspended"}]
    BY DEF AloneInv, TypeInv, SubsTypeOK
  <2>1. CASE UNCHANGED <<tenant, history>>
    BY <2>1 DEF PaidPeriodsAddUp, history
  <2>2. CASE SuspendExpired
    <3>1. tenant'.end = tenant.end /\ UNCHANGED history
      BY <2>2, <2>t DEF SuspendExpired
    <3> QED BY <3>1 DEF PaidPeriodsAddUp, history
  <2>3. CASE SettleCommit
    <3>1. SettledEnd \in Nat /\ SettledEnd >= tenant.end + PeriodDays
      BY <2>t, ConstantTypes DEF SettledEnd, PeriodAnchor, Later, TypeInv, SubsTypeOK
    <3> QED BY <2>3, <2>t, <3>1, PeriodBought DEF SettleCommit
  <2>4. CASE RenewWrite
    <3>1. desk.end \in Nat /\ desk.end >= tenant.end + PeriodDays
      BY <2>4, <2>t DEF RenewWrite, AloneInv, CopiesAgree, TypeInv, SubsTypeOK, DeskJob
    <3> QED BY <2>4, <2>t, <3>1, PeriodBought DEF RenewWrite
  <2>5. CASE RefundWrite
    BY <2>5 DEF RefundWrite, PaidPeriodsAddUp
  <2>6. \/ UNCHANGED <<tenant, history>> \/ SuspendExpired \/ SettleCommit
        \/ RenewWrite \/ RefundWrite
    <3>1. ASSUME Tick \/ DeskRead \/ RenewRead \/ VoidWrite \/ Collect
          PROVE  UNCHANGED <<tenant, history>>
      BY <3>1 DEF Tick, DeskRead, RenewRead, VoidWrite, Collect
    <3>2. ASSUME RemoveCard \/ SaveCard \/ \E on \in BOOLEAN : SetAutoRenew(on)
          PROVE  UNCHANGED <<tenant, history>>
      BY <3>2 DEF RemoveCard, SaveCard, SetAutoRenew
    <3>3. ASSUME NEW i \in Invoices, Checkout(i) \/ Pay(i) \/ Webhook(i) \/ IssueByHand(i)
          PROVE  UNCHANGED <<tenant, history>>
      BY <3>3 DEF Checkout, Pay, Webhook, IssueByHand
    <3>5. ASSUME NEW w \in Workers, RenewList(w) \/ RenewStep(w) \/ WorkerCrash(w)
          PROVE  UNCHANGED <<tenant, history>>
      BY <3>5 DEF RenewList, RenewStep, RenewAttempt, RenewOpen, RenewCharge, RenewSettle,
         RenewLost, RenewDeclined, WorkerCrash
    <3>6. CASE UNCHANGED vars
      BY <3>6 DEF vars
    <3> QED BY <3>1, <3>2, <3>3, <3>5, <3>6 DEF SubsNext, DeskWrite
  <2> QED BY <2>1, <2>2, <2>3, <2>4, <2>5, <2>6
<1> QED BY <1>1, <1>2, AloneInvHolds, PTL DEF SubsSpec
=============================================================================
