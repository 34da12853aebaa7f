---------------------------- MODULE CheckoutProofs ----------------------------
(***************************************************************************)
(* Theorems about PartsCheckout, for any number of orders, listings,       *)
(* workers and crashes: types; a payment is never dropped and never asked  *)
(* to be returned by hand; a capture and a receipt's confirmation are lost *)
(* to the races named and to no others; if the two admin requests that     *)
(* write a listing back overlap no other request, a part is never sold     *)
(* twice and orders, listings and holds keep the promise of PartSale.      *)
(***************************************************************************)
EXTENDS PartsCheckout, TLAPS

-----------------------------------------------------------------------------
(* Invariants                                                              *)

SaleTypes ==
    /\ EscrowTypeOK
    /\ order \in [Orders -> OrderStatus \cup {"none"}]
    /\ listing \in [Listings -> ListingRow]

PaymentTypes ==
    /\ receipt \in [Orders -> ReceiptRow]
    /\ gateway \in [Orders -> {"none", "creating", "open"}]
    /\ outcome \in [Orders -> SUBSET Outcomes]
    /\ answered \in [Orders -> BOOLEAN]
    /\ flagged \in [Orders -> BOOLEAN]
    /\ crashes \in 0 .. MaxCrashes

ReqTypes == req \in [Slots -> Request]

\* An order is paid through Paymob or by a receipt, never both: a checkout of
\* either kind starts from an order that has neither.
ReceiptJobs == {"upload", "confirm", "confirm_locked", "reject"}
CallbackJobs == {"callback_success", "callback_failure"}

OneChannel ==
    \A o \in Orders :
        /\ order[o] = "none" => receipt[o].status = "none"
        /\ order[o] = "none" \/ receipt[o].status # "none" =>
              gateway[o] = "none" /\ outcome[o] = {}

\* Each handler in flight belongs to the channel of its order; a capture that
\* found its order cancelled will never see it revived, for only a receipt can.
HandlersOnChannel ==
    \A w \in Slots, o \in Orders :
        req[w].target = o =>
            /\ req[w].job \in ReceiptJobs => receipt[o].status # "none"
            /\ req[w].job \in CallbackJobs => outcome[o] # {}
            /\ req[w].job = "callback_success" /\ req[w].seen = "cancelled" =>
                  order[o] = "cancelled"

FlaggedIsCancelled ==
    \A o \in Orders : flagged[o] => order[o] = "cancelled" /\ outcome[o] # {}

ChannelInv == OneChannel /\ HandlersOnChannel /\ FlaggedIsCancelled

\* The requests that save columns of a listing which they read before.
StaleRows == {"approve", "admin_edit"}

\* No request overlaps one of these: they are served alone, or all are.
Exclusive(jobs) == ~Overlap \/ jobs \subseteq Alone

\* While one of them is in flight nothing else is, ...
CopyIsAlone ==
    \A w \in Slots :
        req[w].job \in StaleRows =>
            /\ \A v \in Slots \ {w} : Free(v)
            /\ \A o \in Orders : gateway[o] # "creating"
            /\ req[w].target \in Listings

\* ... and its copy is the row.
CopyIsRow ==
    /\ CopyIsAlone
    /\ \A w \in Slots : req[w].job \in StaleRows => req[w].row = listing[req[w].target]

\* The status of a listing follows the orders on it, those past the checkout included.
SaleInv ==
    /\ \A o \in Orders :
          order[o] = "pending_payment" => listing[ListingOf[o]].status = "reserved"
    /\ \A o \in Orders :
          order[o] \in LiveStatus \ {"pending_payment"} => listing[ListingOf[o]].status = "sold"
    /\ OneLiveOrder
    /\ ReservationHasCheckout

-----------------------------------------------------------------------------
(* Requests in flight                                                      *)

Seen == OrderStatus \cup ReceiptStatus \cup {Nothing}

LEMMA IdleType == Idle \in Request /\ Idle.job = "idle"
BY DEF Idle, Request, Submitted, ListingRow, ListingStatus, CheckoutJobs

\* The slot of a request changes, no other does.
LEMMA SlotWritten ==
    ASSUME ReqTypes, NEW w \in Slots, NEW r \in Request, req' = [req EXCEPT ![w] = r]
    PROVE  ReqTypes' /\ \A v \in Slots : req'[v] = IF v = w THEN r ELSE req[v]
BY DEF ReqTypes

LEMMA FinishEffect ==
    ASSUME ReqTypes, NEW w \in Slots, Finish(w)
    PROVE  ReqTypes' /\ \A v \in Slots : req'[v] = IF v = w THEN Idle ELSE req[v]
BY IdleType, SlotWritten DEF Finish

LEMMA BeginEffect ==
    ASSUME ReqTypes, NEW w \in Slots, NEW o \in Orders, NEW job \in CheckoutJobs,
           NEW seen \in Seen, Begin(w, job, o, seen)
    PROVE  /\ ReqTypes'
           /\ req'[w].job = job /\ req'[w].target = o /\ req'[w].seen = seen
           /\ \A v \in Slots \ {w} : req'[v] = req[v]
           /\ Free(w) /\ Comes(job)
<1> DEFINE r == [Idle EXCEPT !.job = job, !.target = o, !.seen = seen]
<1>1. /\ r \in Request
      /\ r.job = job /\ r.target = o /\ r.seen = seen
    BY DEF Idle, Request, Submitted, ListingRow, ListingStatus, Seen
<1>2. Free(w) /\ Comes(job) /\ req' = [req EXCEPT ![w] = r]
    BY <1>1 DEF Begin, Accept
<1> HIDE DEF r
<1>3. ReqTypes' /\ \A v \in Slots : req'[v] = IF v = w THEN r ELSE req[v]
    BY <1>1, <1>2, SlotWritten
<1> QED BY <1>1, <1>2, <1>3

LEMMA ContinueEffect ==
    ASSUME ReqTypes, NEW w \in Slots, NEW job \in CheckoutJobs, NEW seen \in Seen,
           Continue(w, job, seen)
    PROVE  /\ ReqTypes'
           /\ req'[w].job = job /\ req'[w].target = req[w].target /\ req'[w].seen = seen
           /\ \A v \in Slots \ {w} : req'[v] = req[v]
<1> DEFINE r == [req[w] EXCEPT !.job = job, !.seen = seen]
<1>1. /\ r \in Request
      /\ r.job = job /\ r.target = req[w].target /\ r.seen = seen
    BY DEF ReqTypes, Request, Seen
<1>2. req' = [req EXCEPT ![w] = r]
    BY DEF Continue
<1> HIDE DEF r
<1>3. ReqTypes' /\ \A v \in Slots : req'[v] = IF v = w THEN r ELSE req[v]
    BY <1>1, <1>2, SlotWritten
<1> QED BY <1>1, <1>2, <1>3

LEMMA ListingReadEffect ==
    ASSUME ReqTypes, SaleTypes, NEW w \in Slots, NEW l \in Listings, ListingRead(w, l)
    PROVE  /\ ReqTypes'
           /\ req'[w].job \in StaleRows /\ req'[w].target = l /\ req'[w].row = listing[l]
           /\ \A v \in Slots \ {w} : req'[v] = req[v]
           /\ Free(w) /\ Comes(req'[w].job)
           /\ UNCHANGED listing
<1>1. PICK job \in StaleRows :
          Accept(w, [Idle EXCEPT !.job = job, !.target = l, !.row = listing[l]])
    BY DEF ListingRead, StaleRows
<1> DEFINE r == [Idle EXCEPT !.job = job, !.target = l, !.row = listing[l]]
<1>2. listing[l] \in ListingRow
    BY DEF SaleTypes
<1>3. /\ r \in Request
      /\ r.job = job /\ r.target = l /\ r.row = listing[l]
    BY <1>2 DEF Idle, Request, CheckoutJobs, StaleRows
<1>4. Free(w) /\ Comes(job) /\ req' = [req EXCEPT ![w] = r]
    BY <1>1, <1>3 DEF Accept
<1>5. UNCHANGED listing
    BY DEF ListingRead, ChangeListing, SaleTypes
<1> HIDE DEF r
<1>6. ReqTypes' /\ \A v \in Slots : req'[v] = IF v = w THEN r ELSE req[v]
    BY <1>3, <1>4, SlotWritten
<1> QED BY <1>3, <1>4, <1>5, <1>6

-----------------------------------------------------------------------------
(* What a step does to orders, listings and custody                        *)

\* Statuses between which sellers and moderators move a listing that no order owns.
ForSeller == {"draft", "active", "removed"}

\* A listing is written with the status it has, or nobody owns it.
SafeRow(l, row) ==
    /\ row \in ListingRow
    /\ \/ row.status = listing[l].status
       \/ {row.status, listing[l].status} \subseteq ForSeller

OrderChange(o) ==
    \/ (order[o] = "pending_payment" \/ CanReactivate(o)) /\ Pay(o)
    \/ order[o] = "pending_payment" /\ Cancel(o)
    \/ Reserve(o)

SafeChange ==
    \/ UnchangedSale
    \/ \E o \in Orders : OrderChange(o)
    \/ \E l \in Listings : \E row \in ListingRow : SafeRow(l, row) /\ ChangeListing(l, row)

StaleWrite == \E w \in Web, l \in Listings : ApproveWrite(w, l) \/ AdminEditWrite(w, l)

TypeInv == SaleTypes /\ PaymentTypes /\ ReqTypes

LEMMA OwnerListed == ASSUME NEW o \in Orders PROVE ListingOf[o] \in Listings
BY CheckoutAssumption DEF CheckoutAssumption

LEMMA TryPaySafe == ASSUME NEW o \in Orders, TryPay(o) PROVE SafeChange
BY DEF TryPay, SafeChange, OrderChange

LEMMA TryCancelSafe == ASSUME NEW o \in Orders, TryCancel(o) PROVE SafeChange
BY DEF TryCancel, SafeChange, OrderChange

LEMMA WebOrderSafe ==
    ASSUME NEW w \in Slots, NEW o \in Orders,
           \/ CallbackRead(w, o) \/ CallbackSuccess(w, o) \/ CallbackFailure(w, o)
           \/ CancelRead(w, o) \/ UploadRead(w, o) \/ UploadWrite(w, o)
           \/ ReviewRead(w, o) \/ ReviewRefused(w, o) \/ RejectWrite(w, o)
           \/ ConfirmLock(w, o) \/ ConfirmCommit(w, o) \/ ConfirmRolledBack(w, o)
    PROVE  SafeChange
<1>1. CASE \/ CallbackRead(w, o) \/ CancelRead(w, o) \/ UploadRead(w, o) \/ UploadWrite(w, o)
           \/ ReviewRead(w, o) \/ ReviewRefused(w, o) \/ ConfirmLock(w, o)
           \/ ConfirmRolledBack(w, o)
  BY <1>1 DEF CallbackRead, CancelRead, UploadRead, UploadWrite, ReviewRead, ReviewRefused,
              ConfirmLock, ConfirmRolledBack, SafeChange
<1>2. CASE CallbackSuccess(w, o)
  BY <1>2, TryPaySafe DEF CallbackSuccess, SafeChange
<1>3. CASE CallbackFailure(w, o) \/ RejectWrite(w, o)
  BY <1>3, TryCancelSafe DEF CallbackFailure, RejectWrite, SafeChange
<1>4. CASE ConfirmCommit(w, o)
  BY <1>4, TryPaySafe DEF ConfirmCommit, SafeChange, OrderChange
<1> QED
  BY <1>1, <1>2, <1>3, <1>4

LEMMA SellerSafe ==
    ASSUME TypeInv, NEW l \in Listings, Withdraw(l) \/ SellerEdit(l) \/ Moderate(l)
    PROVE  SafeChange
<1>1. listing[l] \in ListingRow
  BY DEF TypeInv, SaleTypes
<1>2. CASE Withdraw(l)
  <2> DEFINE row == [listing[l] EXCEPT !.status = "removed"]
  <2>1. row \in ListingRow /\ row.status = "removed"
    BY <1>1 DEF ListingRow, ListingStatus
  <2>2. ChangeListing(l, row) /\ listing[l].status \in {"draft", "active"}
    BY <1>2 DEF Withdraw, SellerMayChange
  <2> HIDE DEF row
  <2> QED BY <2>1, <2>2 DEF SafeChange, SafeRow, ForSeller
<1>3. CASE SellerEdit(l)
  <2> DEFINE row == [listing[l] EXCEPT !.status = "draft", !.moderation = "pending_approval"]
  <2>1. row \in ListingRow /\ row.status = "draft"
    BY <1>1 DEF ListingRow, ListingStatus
  <2>2. ChangeListing(l, row) /\ listing[l].status \in {"draft", "active"}
    BY <1>3 DEF SellerEdit, SellerMayChange
  <2> HIDE DEF row
  <2> QED BY <2>1, <2>2 DEF SafeChange, SafeRow, ForSeller
<1>4. CASE Moderate(l)
  <2>1. PICK row \in {[listing[l] EXCEPT !.moderation = "suspended"],
                      [listing[l] EXCEPT !.moderation = "rejected"],
                      [listing[l] EXCEPT !.deleted = TRUE]} : ChangeListing(l, row)
    BY <1>4 DEF Moderate
  <2>2. row \in ListingRow /\ row.status = listing[l].status
    BY <1>1 DEF ListingRow
  <2> QED BY <2>1, <2>2 DEF SafeChange, SafeRow
<1> QED
  BY <1>2, <1>3, <1>4

LEMMA SaleEffects == TypeInv /\ CheckoutNext => SafeChange \/ StaleWrite
<1> SUFFICES ASSUME TypeInv, CheckoutNext PROVE SafeChange \/ StaleWrite
  OBVIOUS
<1> USE DEF Slots
<1>1. ASSUME NEW o \in Orders,
             \/ CheckoutPaymob(o) \/ PaymobCreated(o) \/ PaymobUnavailable(o)
             \/ CheckoutDied(o) \/ CheckoutManual(o) \/ PaymentAttempt(o)
      PROVE  SafeChange
  BY <1>1, TryCancelSafe DEF CheckoutPaymob, PaymobCreated, PaymobUnavailable, CheckoutDied,
     CheckoutManual, PaymentAttempt, SafeChange, OrderChange
<1>2. ASSUME NEW l \in Listings, Withdraw(l) \/ SellerEdit(l) \/ Moderate(l)
      PROVE  SafeChange
  BY <1>2, SellerSafe
<1>3. ASSUME NEW w \in Web, WebStep(w)
      PROVE  SafeChange \/ StaleWrite
  <2>1. ASSUME NEW l \in Listings, ListingRead(w, l)
        PROVE  SafeChange
    <3>1. listing[l] \in ListingRow /\ ChangeListing(l, listing[l])
      BY <2>1 DEF ListingRead, TypeInv, SaleTypes
    <3> QED BY <3>1 DEF SafeChange, SafeRow
  <2>2. ASSUME NEW l \in Listings, ApproveWrite(w, l) \/ AdminEditWrite(w, l)
        PROVE  StaleWrite
    BY <2>2 DEF StaleWrite
  <2> QED BY <1>3, <2>1, <2>2, WebOrderSafe DEF WebStep
<1>4. ASSUME NEW w \in Slots, NEW o \in Orders, ExpireRead(w, o) \/ SweepStep(w, o)
      PROVE  SafeChange
  BY <1>4, TryCancelSafe DEF ExpireRead, SweepStep, CancelWrite, CancelReceipts, SafeChange
<1>5. ASSUME NEW w \in Slots, Crash(w)
      PROVE  SafeChange
  BY <1>5 DEF Crash, SafeChange
<1> QED
  BY <1>1, <1>2, <1>3, <1>4, <1>5 DEF CheckoutNext

\* An admin's write of a listing touches no order, whatever it had read.
LEMMA StaleWriteEffect ==
    ASSUME TypeInv, StaleWrite
    PROVE  \E l \in Listings : \E row \in ListingRow : ChangeListing(l, row)
<1>1. PICK w \in Web, l \in Listings : ApproveWrite(w, l) \/ AdminEditWrite(w, l)
  BY DEF StaleWrite
<1>2. listing[l] \in ListingRow /\ req[w].row \in ListingRow
  BY DEF TypeInv, SaleTypes, ReqTypes, Request, Slots
<1>3. CASE AdminEditWrite(w, l)
  BY <1>2, <1>3 DEF AdminEditWrite
<1>4. CASE ApproveWrite(w, l) /\ req[w].row.moderation = "approved"
  BY <1>2, <1>4 DEF ApproveWrite
<1>5. CASE ApproveWrite(w, l) /\ req[w].row.moderation # "approved"
  <2> DEFINE status == IF req[w].row.status = "draft" THEN "active" ELSE req[w].row.status
             row == [listing[l] EXCEPT !.moderation = "approved", !.status = status]
  <2>1. status \in ListingStatus
    BY <1>2 DEF ListingRow, ListingStatus
  <2>2. ChangeListing(l, row)
    BY <1>5 DEF ApproveWrite
  <2> HIDE DEF status
  <2>3. row \in ListingRow
    BY <1>2, <2>1 DEF ListingRow
  <2> QED BY <2>2, <2>3
<1> QED
  BY <1>1, <1>3, <1>4, <1>5

-----------------------------------------------------------------------------
(* Types                                                                   *)

LEMMA EscrowTypesKept ==
    ASSUME EscrowTypeOK, NEW o \in Orders, NEW placed \in BOOLEAN, TakeCustody(o, placed)
    PROVE  EscrowTypeOK'
BY DEF TakeCustody, EscrowTypeOK, HoldStatus

LEMMA SaleTypesKept == TypeInv /\ CheckoutNext => SaleTypes'
<1> SUFFICES ASSUME TypeInv, CheckoutNext PROVE SaleTypes'
  OBVIOUS
<1>1. CASE UnchangedSale
  BY <1>1 DEF UnchangedSale, TypeInv, SaleTypes, EscrowTypeOK, escrowVars
<1>2. ASSUME NEW l \in Listings, NEW row \in ListingRow, ChangeListing(l, row)
      PROVE  SaleTypes'
  BY <1>2 DEF ChangeListing, TypeInv, SaleTypes, EscrowTypeOK, escrowVars
<1>3. ASSUME NEW o \in Orders, OrderChange(o)
      PROVE  SaleTypes'
  <2>1. listing[ListingOf[o]] \in ListingRow /\ ListingOf[o] \in Listings
    BY OwnerListed DEF TypeInv, SaleTypes
  <2>2. ASSUME NEW status \in ListingStatus,
               listing' = [listing EXCEPT ![ListingOf[o]].status = status]
        PROVE  listing' \in [Listings -> ListingRow]
    BY <2>1, <2>2 DEF TypeInv, SaleTypes, ListingRow
  <2>3. CASE Pay(o)
    BY <2>2, <2>3, EscrowTypesKept DEF Pay, TypeInv, SaleTypes, OrderStatus, ListingStatus
  <2>4. CASE Cancel(o)
    <3>1. listing' \in [Listings -> ListingRow]
      BY <2>2, <2>4 DEF Cancel, TypeInv, SaleTypes, ListingStatus
    <3> QED BY <2>4, <3>1 DEF Cancel, TypeInv, SaleTypes, EscrowTypeOK, escrowVars, OrderStatus
  <2>5. CASE Reserve(o)
    <3>1. listing' \in [Listings -> ListingRow]
      BY <2>2, <2>5 DEF Reserve, ListingStatus
    <3> QED BY <2>5, <3>1 DEF Reserve, TypeInv, SaleTypes, EscrowTypeOK, escrowVars, OrderStatus
  <2> QED BY <1>3, <2>3, <2>4, <2>5 DEF OrderChange
<1> QED
  BY <1>1, <1>2, <1>3, SaleEffects, StaleWriteEffect DEF SafeChange

\* The two steps of a checkout's birth, and the buyer's attempts to pay.
LEMMA EntryTypes ==
    ASSUME TypeInv, NEW o \in Orders,
           \/ CheckoutPaymob(o) \/ PaymobCreated(o) \/ PaymobUnavailable(o)
           \/ CheckoutDied(o) \/ CheckoutManual(o) \/ PaymentAttempt(o)
    PROVE  PaymentTypes' /\ ReqTypes'
<1>1. ReqTypes'
  BY DEF CheckoutPaymob, PaymobCreated, PaymobUnavailable, CheckoutDied, CheckoutManual,
         PaymentAttempt, TypeInv, ReqTypes
<1>2. CASE CheckoutManual(o)
  BY <1>1, <1>2 DEF CheckoutManual, UnchangedPayment, TypeInv, PaymentTypes, ReceiptRow, ReceiptStatus
<1>3. CASE CheckoutDied(o)
  BY <1>1, <1>3, CheckoutAssumption DEF CheckoutDied, TypeInv, PaymentTypes, CheckoutAssumption
<1>4. CASE PaymentAttempt(o)
  BY <1>1, <1>4 DEF PaymentAttempt, TypeInv, PaymentTypes, Outcomes
<1>5. CASE CheckoutPaymob(o) \/ PaymobCreated(o) \/ PaymobUnavailable(o)
  BY <1>1, <1>5 DEF CheckoutPaymob, PaymobCreated, PaymobUnavailable, TypeInv, PaymentTypes
<1> QED
  BY <1>1, <1>2, <1>3, <1>4, <1>5

\* Requests that begin, and what they remember.
LEMMA ReadTypes ==
    ASSUME TypeInv, NEW w \in Slots, NEW o \in Orders,
           \/ CallbackRead(w, o) \/ CancelRead(w, o) \/ UploadRead(w, o) \/ ReviewRead(w, o)
           \/ ExpireRead(w, o)
    PROVE  PaymentTypes' /\ ReqTypes'
<1>1. PaymentTypes'
  BY DEF CallbackRead, CancelRead, UploadRead, ReviewRead, ExpireRead, UnchangedPayment,
         TypeInv, PaymentTypes
<1>2. order[o] \in Seen /\ receipt[o].status \in Seen /\ Nothing \in Seen
  BY DEF TypeInv, SaleTypes, PaymentTypes, ReceiptRow, ReceiptStatus, Seen
<1>3. PICK job \in CheckoutJobs, seen \in Seen : Begin(w, job, o, seen)
  BY <1>2 DEF CallbackRead, CancelRead, UploadRead, ReviewRead, ExpireRead, CheckoutJobs
<1> QED
  BY <1>1, <1>3, BeginEffect DEF TypeInv

LEMMA ReceiptTyped ==
    ASSUME PaymentTypes, NEW o \in Orders, NEW status \in ReceiptStatus,
           \/ receipt' = [receipt EXCEPT ![o].status = status]
           \/ receipt' = [receipt EXCEPT ![o].uploaded = TRUE]
           \/ receipt' = receipt
    PROVE  receipt' \in [Orders -> ReceiptRow]
<1>1. receipt \in [Orders -> ReceiptRow]
  BY DEF PaymentTypes
<1>2. /\ [receipt[o] EXCEPT !.status = status] \in ReceiptRow
      /\ [receipt[o] EXCEPT !.uploaded = TRUE] \in ReceiptRow
  BY <1>1 DEF ReceiptRow
<1>3. \/ receipt' = [receipt EXCEPT ![o] = [receipt[o] EXCEPT !.status = status]]
      \/ receipt' = [receipt EXCEPT ![o] = [receipt[o] EXCEPT !.uploaded = TRUE]]
      \/ receipt' = receipt
  OBVIOUS
<1> QED
  BY <1>1, <1>2, <1>3

LEMMA WriteTypes ==
    ASSUME TypeInv, NEW w \in Slots, NEW o \in Orders,
           \/ CallbackSuccess(w, o) \/ CallbackFailure(w, o) \/ CancelWrite(w, o)
           \/ CancelReceipts(w, o) \/ UploadWrite(w, o) \/ ReviewRefused(w, o)
           \/ ConfirmLock(w, o) \/ ConfirmCommit(w, o) \/ ConfirmRolledBack(w, o)
           \/ RejectWrite(w, o)
    PROVE  PaymentTypes' /\ ReqTypes'
<1>1. receipt' \in [Orders -> ReceiptRow]
  <2>1. {"rejected", "confirmed"} \subseteq ReceiptStatus
    BY DEF ReceiptStatus
  <2>2. \E status \in ReceiptStatus :
           \/ receipt' = [receipt EXCEPT ![o].status = status]
           \/ receipt' = [receipt EXCEPT ![o].uploaded = TRUE]
           \/ receipt' = receipt
    BY <2>1 DEF CallbackSuccess, CallbackFailure, CancelWrite, CancelReceipts, UploadWrite,
       ReviewRefused, ConfirmLock, ConfirmCommit, ConfirmRolledBack, RejectWrite
  <2> QED BY <2>2, ReceiptTyped DEF TypeInv
<1>2. /\ gateway' = gateway /\ outcome' = outcome /\ crashes' = crashes
      /\ answered' \in {answered, [answered EXCEPT ![o] = TRUE]}
      /\ flagged' \in {flagged, [flagged EXCEPT ![o] = TRUE]}
  BY DEF CallbackSuccess, CallbackFailure, CancelWrite, CancelReceipts, UploadWrite,
     ReviewRefused, ConfirmLock, ConfirmCommit, ConfirmRolledBack, RejectWrite,
     UnchangedPayment, RaiseEvent
<1>3. PaymentTypes'
  BY <1>1, <1>2 DEF TypeInv, PaymentTypes
<1>4. order[o] \in Seen /\ Nothing \in Seen
  BY DEF TypeInv, SaleTypes, Seen, ReceiptStatus
<1>5. \/ Finish(w)
      \/ \E job \in CheckoutJobs, seen \in Seen : Continue(w, job, seen)
  BY <1>4 DEF CallbackSuccess, CallbackFailure, CancelWrite, CancelReceipts, UploadWrite,
     ReviewRefused, ConfirmLock, ConfirmCommit, ConfirmRolledBack, RejectWrite, CheckoutJobs
<1>6. ReqTypes'
  BY <1>5, FinishEffect, ContinueEffect DEF TypeInv
<1> QED
  BY <1>3, <1>6

LEMMA AdminTypes ==
    ASSUME TypeInv, NEW l \in Listings, NEW w \in Slots,
           ListingRead(w, l) \/ ApproveWrite(w, l) \/ AdminEditWrite(w, l)
    PROVE  PaymentTypes' /\ ReqTypes'
<1>1. PaymentTypes'
  BY DEF ListingRead, ApproveWrite, AdminEditWrite, ChangeListing, UnchangedPayment,
     TypeInv, PaymentTypes
<1>2. CASE ListingRead(w, l)
  BY <1>1, <1>2, ListingReadEffect DEF TypeInv
<1>3. CASE ApproveWrite(w, l) \/ AdminEditWrite(w, l)
  BY <1>1, <1>3, FinishEffect DEF ApproveWrite, AdminEditWrite, TypeInv
<1> QED
  BY <1>2, <1>3

LEMMA CrashTypes ==
    ASSUME TypeInv, NEW w \in Slots, Crash(w)
    PROVE  PaymentTypes' /\ ReqTypes'
<1>1. PaymentTypes'
  BY CheckoutAssumption DEF Crash, UnchangedPayment, TypeInv, PaymentTypes, CheckoutAssumption
<1> QED
  BY <1>1, FinishEffect DEF Crash, TypeInv

LEMMA TypeInvStep == TypeInv /\ [CheckoutNext]_checkoutVars => TypeInv'
<1> SUFFICES ASSUME TypeInv, [CheckoutNext]_checkoutVars PROVE TypeInv'
  OBVIOUS
<1> USE DEF Slots
<1>1. CASE UNCHANGED checkoutVars
  BY <1>1 DEF checkoutVars, escrowVars, TypeInv, SaleTypes, PaymentTypes, ReqTypes, EscrowTypeOK
<1>2. CASE CheckoutNext
  <2>1. SaleTypes'
    BY <1>2, SaleTypesKept
  <2>2. PaymentTypes' /\ ReqTypes'
    <3>1. ASSUME NEW o \in Orders,
                 \/ CheckoutPaymob(o) \/ PaymobCreated(o) \/ PaymobUnavailable(o)
                 \/ CheckoutDied(o) \/ CheckoutManual(o) \/ PaymentAttempt(o)
          PROVE  PaymentTypes' /\ ReqTypes'
      BY <3>1, EntryTypes
    <3>2. ASSUME NEW l \in Listings, Withdraw(l) \/ SellerEdit(l) \/ Moderate(l)
          PROVE  PaymentTypes' /\ ReqTypes'
      BY <3>2 DEF Withdraw, SellerEdit, Moderate, ChangeListing, UnchangedPayment,
         TypeInv, PaymentTypes, ReqTypes
    <3>3. ASSUME NEW w \in Web, WebStep(w)
          PROVE  PaymentTypes' /\ ReqTypes'
      BY <3>3, ReadTypes, WriteTypes, AdminTypes DEF WebStep
    <3>4. ASSUME NEW w \in Slots, NEW o \in Orders, ExpireRead(w, o) \/ SweepStep(w, o)
          PROVE  PaymentTypes' /\ ReqTypes'
      BY <3>4, ReadTypes, WriteTypes DEF SweepStep
    <3> QED BY <1>2, <3>1, <3>2, <3>3, <3>4, CrashTypes DEF CheckoutNext
  <2> QED BY <2>1, <2>2 DEF TypeInv
<1> QED
  BY <1>1, <1>2

LEMMA TypeInvInit == CheckoutInit => TypeInv
<1> SUFFICES ASSUME CheckoutInit PROVE TypeInv
  OBVIOUS
<1>1. EscrowTypeOK
  BY DEF CheckoutInit, EscrowInit, EscrowTypeOK, HoldStatus, NoShare, Share, Shares, NoPayout,
     PayoutRow, PayoutKinds
<1>2. SaleTypes
  <2>1. Submitted \in ListingRow /\ Published \in ListingRow
    BY DEF Submitted, Published, ListingRow, ListingStatus
  <2> QED BY <1>1, <2>1 DEF CheckoutInit, SaleTypes
<1>3. PaymentTypes
  BY CheckoutAssumption DEF CheckoutInit, PaymentTypes, ReceiptRow, ReceiptStatus, CheckoutAssumption
<1>4. ReqTypes
  BY IdleType DEF CheckoutInit, ReqTypes
<1> QED
  BY <1>2, <1>3, <1>4 DEF TypeInv

LEMMA TypesHold == CheckoutSpec => []TypeInv
BY TypeInvInit, TypeInvStep, PTL DEF CheckoutSpec

\* Orders, listings, receipts and requests in flight keep their types, whatever
\* overlaps or dies.
THEOREM CheckoutTypes == CheckoutSpec => []CheckoutTypeOK
<1>1. TypeInv => CheckoutTypeOK
  BY DEF TypeInv, SaleTypes, PaymentTypes, ReqTypes, CheckoutTypeOK
<1> QED
  BY <1>1, TypesHold, PTL

-----------------------------------------------------------------------------
(* A payment is not dropped                                                *)

\* What happens to an order and to the record of its payment.
LEMMA PaymentEffects ==
    ASSUME TypeInv, CheckoutNext
    PROVE  \/ UNCHANGED <<order, paidAt>>
           \/ \E o \in Orders :
                 \/ /\ order' = [order EXCEPT ![o] = "paid_held"]
                    /\ paidAt' = [paidAt EXCEPT ![o] = TRUE]
                 \/ /\ order[o] = "pending_payment"
                    /\ order' = [order EXCEPT ![o] = "cancelled"]
                    /\ paidAt' = paidAt
                 \/ /\ order[o] = "none"
                    /\ order' = [order EXCEPT ![o] = "pending_payment"]
                    /\ paidAt' = paidAt
<1>1. CASE UnchangedSale
  BY <1>1 DEF UnchangedSale, escrowVars
<1>2. ASSUME NEW o \in Orders, OrderChange(o)
      PROVE  \/ /\ order' = [order EXCEPT ![o] = "paid_held"]
                /\ paidAt' = [paidAt EXCEPT ![o] = TRUE]
             \/ /\ order[o] = "pending_payment"
                /\ order' = [order EXCEPT ![o] = "cancelled"]
                /\ paidAt' = paidAt
             \/ /\ order[o] = "none"
                /\ order' = [order EXCEPT ![o] = "pending_payment"]
                /\ paidAt' = paidAt
  BY <1>2 DEF OrderChange, Pay, Cancel, Reserve, TakeCustody, escrowVars
<1>3. ASSUME NEW l \in Listings, NEW row, ChangeListing(l, row)
      PROVE  UNCHANGED <<order, paidAt>>
  BY <1>3 DEF ChangeListing, escrowVars
<1> QED
  BY <1>1, <1>2, <1>3, SaleEffects, StaleWriteEffect DEF SafeChange

LEMMA PaidStep ==
    TypeInv /\ PaidOrderNeverDropped /\ [CheckoutNext]_checkoutVars => PaidOrderNeverDropped'
<1> SUFFICES ASSUME TypeInv, PaidOrderNeverDropped, [CheckoutNext]_checkoutVars
             PROVE  PaidOrderNeverDropped'
  OBVIOUS
<1>1. order \in [Orders -> OrderStatus \cup {"none"}] /\ paidAt \in [Orders -> BOOLEAN]
  BY DEF TypeInv, SaleTypes, EscrowTypeOK
<1>2. CASE UNCHANGED <<order, paidAt>>
  BY <1>2 DEF PaidOrderNeverDropped
<1>3. ASSUME NEW o \in Orders,
             \/ /\ order' = [order EXCEPT ![o] = "paid_held"]
                /\ paidAt' = [paidAt EXCEPT ![o] = TRUE]
             \/ /\ order[o] = "pending_payment"
                /\ order' = [order EXCEPT ![o] = "cancelled"]
                /\ paidAt' = paidAt
             \/ /\ order[o] = "none"
                /\ order' = [order EXCEPT ![o] = "pending_payment"]
                /\ paidAt' = paidAt
      PROVE  PaidOrderNeverDropped'
  BY <1>1, <1>3 DEF PaidOrderNeverDropped
<1> QED
  BY <1>2, <1>3, PaymentEffects DEF checkoutVars, escrowVars

\* Money in escrow is never attached to an order that counts as unpaid, although
\* payments, cancellations, sweeps and reviews act on what they read before.
THEOREM PaymentNeverDropped == CheckoutSpec => []PaidOrderNeverDropped
<1>1. CheckoutInit => PaidOrderNeverDropped
  BY DEF CheckoutInit, EscrowInit, PaidOrderNeverDropped
<1> QED
  BY <1>1, PaidStep, TypesHold, PTL DEF CheckoutSpec

-----------------------------------------------------------------------------
(* A payment in escrow is not returned by hand                             *)

\* What a step must keep of an order for the handlers that know it.
ChannelKept ==
    \A o \in Orders :
        /\ receipt[o].status # "none" => receipt'[o].status # "none"
        /\ outcome[o] # {} => outcome'[o] # {}
        /\ order[o] = "cancelled" /\ outcome[o] # {} => order'[o] = "cancelled"

\* Handlers whose slot a step leaves alone still fit their orders.
LEMMA HandlersKept ==
    ASSUME HandlersOnChannel, ChannelKept, UNCHANGED req
    PROVE  HandlersOnChannel'
BY DEF HandlersOnChannel, ChannelKept, CallbackJobs

LEMMA HandlersKeptBut ==
    ASSUME HandlersOnChannel, ChannelKept, NEW w \in Slots,
           \A v \in Slots \ {w} : req'[v] = req[v],
           \A o \in Orders :
              req'[w].target = o =>
                  /\ req'[w].job \in ReceiptJobs => receipt'[o].status # "none"
                  /\ req'[w].job \in CallbackJobs => outcome'[o] # {}
                  /\ req'[w].job = "callback_success" /\ req'[w].seen = "cancelled" =>
                        order'[o] = "cancelled"
    PROVE  HandlersOnChannel'
<1> SUFFICES ASSUME NEW v \in Slots, NEW o \in Orders, req'[v].target = o
             PROVE  /\ req'[v].job \in ReceiptJobs => receipt'[o].status # "none"
                    /\ req'[v].job \in CallbackJobs => outcome'[o] # {}
                    /\ req'[v].job = "callback_success" /\ req'[v].seen = "cancelled" =>
                          order'[o] = "cancelled"
  BY DEF HandlersOnChannel
<1>1. CASE v = w
  BY <1>1
<1>2. CASE v # w
  BY <1>2 DEF HandlersOnChannel, ChannelKept, CallbackJobs
<1> QED
  BY <1>1, <1>2

LEMMA HandlerEnds ==
    ASSUME ReqTypes, HandlersOnChannel, ChannelKept, NEW w \in Slots, Finish(w)
    PROVE  HandlersOnChannel'
<1>1. /\ \A v \in Slots \ {w} : req'[v] = req[v]
      /\ req'[w].job = "idle"
  BY FinishEffect, IdleType
<1>2. "idle" \notin ReceiptJobs \cup CallbackJobs
  BY DEF ReceiptJobs, CallbackJobs
<1> QED
  BY <1>1, <1>2, HandlersKeptBut

LEMMA EntryOnChannel ==
    ASSUME TypeInv, ChannelInv, NEW o \in Orders,
           \/ CheckoutPaymob(o) \/ PaymobCreated(o) \/ PaymobUnavailable(o)
           \/ CheckoutDied(o) \/ CheckoutManual(o) \/ PaymentAttempt(o)
    PROVE  ChannelInv'
<1>1. /\ order \in [Orders -> OrderStatus \cup {"none"}]
      /\ receipt \in [Orders -> ReceiptRow]
      /\ gateway \in [Orders -> {"none", "creating", "open"}]
      /\ outcome \in [Orders -> SUBSET Outcomes]
  BY DEF TypeInv, SaleTypes, PaymentTypes
<1>2. UNCHANGED <<flagged, req>>
  BY DEF CheckoutPaymob, PaymobCreated, PaymobUnavailable, CheckoutDied, CheckoutManual,
         PaymentAttempt, UnchangedPayment
<1>3. CASE CheckoutPaymob(o)
  <2>1. OneChannel' /\ ChannelKept /\ FlaggedIsCancelled'
    BY <1>1, <1>2, <1>3 DEF CheckoutPaymob, Reserve, ChannelInv, OneChannel, ChannelKept,
       FlaggedIsCancelled
  <2> QED BY <1>2, <2>1, HandlersKept DEF ChannelInv
<1>4. CASE CheckoutManual(o)
  <2>1. /\ order[o] = "none" /\ order' = [order EXCEPT ![o] = "pending_payment"]
        /\ gateway' = gateway /\ outcome' = outcome
        /\ receipt' = [receipt EXCEPT ![o].status = "pending"]
    BY <1>4 DEF CheckoutManual, Reserve, UnchangedPayment
  <2>2. \A p \in Orders : receipt'[p].status = IF p = o THEN "pending" ELSE receipt[p].status
    BY <1>1, <2>1 DEF ReceiptRow
  <2>3. OneChannel' /\ ChannelKept /\ FlaggedIsCancelled'
    BY <1>1, <1>2, <2>1, <2>2 DEF ChannelInv, OneChannel, ChannelKept, FlaggedIsCancelled
  <2> QED BY <1>2, <2>3, HandlersKept DEF ChannelInv
<1>5. CASE PaymobCreated(o) \/ CheckoutDied(o) \/ PaymentAttempt(o)
  <2>1. order' = order /\ receipt' = receipt
    BY <1>5 DEF PaymobCreated, CheckoutDied, PaymentAttempt, UnchangedSale
  <2>2. \A p \in Orders :
           /\ gateway[p] = "none" => gateway'[p] = "none"
           /\ outcome[p] # {} => outcome'[p] # {}
           /\ gateway[p] = "none" => outcome'[p] = outcome[p]
    BY <1>1, <1>5 DEF PaymobCreated, CheckoutDied, PaymentAttempt
  <2>3. OneChannel' /\ ChannelKept /\ FlaggedIsCancelled'
    BY <1>2, <2>1, <2>2 DEF ChannelInv, OneChannel, ChannelKept, FlaggedIsCancelled
  <2> QED BY <1>2, <2>3, HandlersKept DEF ChannelInv
<1>6. CASE PaymobUnavailable(o)
  <2>1. OneChannel' /\ ChannelKept /\ FlaggedIsCancelled'
    BY <1>1, <1>2, <1>6 DEF PaymobUnavailable, TryCancel, Cancel, UnchangedSale, ChannelInv,
       OneChannel, ChannelKept, FlaggedIsCancelled
  <2> QED BY <1>2, <2>1, HandlersKept DEF ChannelInv
<1> QED
  BY <1>3, <1>4, <1>5, <1>6

\* Requests begin on what their order has; listings are another matter.
LEMMA ReadOnChannel ==
    ASSUME TypeInv, ChannelInv, NEW w \in Slots, NEW o \in Orders,
           \/ CallbackRead(w, o) \/ CancelRead(w, o) \/ UploadRead(w, o) \/ ReviewRead(w, o)
           \/ ExpireRead(w, o)
    PROVE  ChannelInv'
<1>1. UNCHANGED <<order, receipt, gateway, outcome, flagged>>
  BY DEF CallbackRead, CancelRead, UploadRead, ReviewRead, ExpireRead, UnchangedPayment,
         UnchangedSale
<1>2. OneChannel' /\ FlaggedIsCancelled' /\ ChannelKept
  BY <1>1 DEF ChannelInv, OneChannel, FlaggedIsCancelled, ChannelKept
<1>3. order[o] \in Seen /\ receipt[o].status \in Seen /\ Nothing \in Seen
  BY DEF TypeInv, SaleTypes, PaymentTypes, ReceiptRow, ReceiptStatus, Seen
<1>4. PICK job \in CheckoutJobs, seen \in Seen :
         /\ Begin(w, job, o, seen)
         /\ job \in ReceiptJobs => receipt[o].status # "none"
         /\ job \in CallbackJobs => outcome[o] # {} /\ seen = order[o]
  BY <1>3 DEF CallbackRead, CancelRead, UploadRead, ReviewRead, ExpireRead, CheckoutJobs,
     ReceiptJobs, CallbackJobs
<1>5. /\ req'[w].job = job /\ req'[w].target = o /\ req'[w].seen = seen
      /\ \A v \in Slots \ {w} : req'[v] = req[v]
  BY <1>4, BeginEffect DEF TypeInv
<1>6. HandlersOnChannel'
  BY <1>1, <1>2, <1>4, <1>5, HandlersKeptBut DEF ChannelInv, CallbackJobs
<1> QED
  BY <1>2, <1>6 DEF ChannelInv

\* A write keeps every order in its channel: only a receipt revives an order.
LEMMA WriteOnChannel ==
    ASSUME TypeInv, ChannelInv, NEW w \in Slots, NEW o \in Orders,
           \/ CallbackSuccess(w, o) \/ CallbackFailure(w, o) \/ CancelWrite(w, o)
           \/ CancelReceipts(w, o) \/ UploadWrite(w, o) \/ ReviewRefused(w, o)
           \/ ConfirmLock(w, o) \/ ConfirmCommit(w, o) \/ ConfirmRolledBack(w, o)
           \/ RejectWrite(w, o)
    PROVE  ChannelInv'
<1>1. /\ order \in [Orders -> OrderStatus \cup {"none"}]
      /\ receipt \in [Orders -> ReceiptRow]
      /\ flagged \in [Orders -> BOOLEAN]
  BY DEF TypeInv, SaleTypes, PaymentTypes
<1>2. gateway' = gateway /\ outcome' = outcome
  BY DEF CallbackSuccess, CallbackFailure, CancelWrite, CancelReceipts, UploadWrite,
     ReviewRefused, ConfirmLock, ConfirmCommit, ConfirmRolledBack, RejectWrite, UnchangedPayment
<1>3. \A p \in Orders : receipt'[p].status = "none" <=> receipt[p].status = "none"
  <2>1. CASE ConfirmCommit(w, o) \/ RejectWrite(w, o)
    <3>1. receipt[o].status # "none"
      BY <2>1 DEF ConfirmCommit, RejectWrite, ChannelInv, HandlersOnChannel, ReceiptJobs
    <3>2. \E status \in {"confirmed", "rejected"} :
             receipt' = [receipt EXCEPT ![o].status = status]
      BY <2>1 DEF ConfirmCommit, RejectWrite
    <3> QED BY <1>1, <3>1, <3>2 DEF ReceiptRow
  <2>2. CASE CancelReceipts(w, o)
    BY <1>1, <2>2 DEF CancelReceipts, ReceiptRow
  <2>3. CASE UploadWrite(w, o)
    BY <1>1, <2>3 DEF UploadWrite, ReceiptRow
  <2>4. CASE \/ CallbackSuccess(w, o) \/ CallbackFailure(w, o) \/ CancelWrite(w, o)
             \/ ReviewRefused(w, o) \/ ConfirmLock(w, o) \/ ConfirmRolledBack(w, o)
    BY <2>4 DEF CallbackSuccess, CallbackFailure, CancelWrite, ReviewRefused, ConfirmLock,
       ConfirmRolledBack
  <2> QED BY <2>1, <2>2, <2>3, <2>4
<1>4. \/ order' = order
      \/ /\ order[o] = "pending_payment"
         /\ \E status \in OrderStatus : order' = [order EXCEPT ![o] = status]
      \/ receipt[o].status # "none" /\ order' = [order EXCEPT ![o] = "paid_held"]
  <2>1. CASE ConfirmCommit(w, o)
    <3>1. receipt[o].status # "none"
      BY <2>1 DEF ConfirmCommit, ChannelInv, HandlersOnChannel, ReceiptJobs
    <3> QED BY <2>1, <3>1 DEF ConfirmCommit, TryPay, Pay, UnchangedSale
  <2>2. CASE CallbackSuccess(w, o)
    BY <2>2 DEF CallbackSuccess, TryPay, Pay, UnchangedSale, OrderStatus
  <2>3. CASE CallbackFailure(w, o) \/ CancelWrite(w, o) \/ RejectWrite(w, o)
    BY <2>3 DEF CallbackFailure, CancelWrite, RejectWrite, TryCancel, Cancel, UnchangedSale,
       OrderStatus
  <2>4. CASE \/ CancelReceipts(w, o) \/ UploadWrite(w, o) \/ ReviewRefused(w, o)
             \/ ConfirmLock(w, o) \/ ConfirmRolledBack(w, o)
    BY <2>4 DEF CancelReceipts, UploadWrite, ReviewRefused, ConfirmLock, ConfirmRolledBack,
       UnchangedSale
  <2> QED BY <2>1, <2>2, <2>3, <2>4
<1>5. /\ \A p \in Orders : order'[p] = "none" => order[p] = "none"
      /\ \A p \in Orders : order[p] = "cancelled" /\ outcome[p] # {} => order'[p] = "cancelled"
  <2>1. "none" \notin OrderStatus
    BY DEF OrderStatus
  <2> QED BY <1>1, <1>4, <2>1 DEF ChannelInv, OneChannel
<1>6. OneChannel' /\ ChannelKept
  BY <1>2, <1>3, <1>5 DEF ChannelInv, OneChannel, ChannelKept
<1>7. FlaggedIsCancelled'
  <2>1. CASE flagged' = flagged
    BY <1>2, <1>5, <2>1 DEF ChannelInv, FlaggedIsCancelled
  <2>2. CASE flagged' # flagged
    <3>1. /\ CallbackSuccess(w, o) /\ req[w].seen = "cancelled"
          /\ flagged' = [flagged EXCEPT ![o] = TRUE]
      BY <2>2 DEF CallbackSuccess, CallbackFailure, CancelWrite, CancelReceipts, UploadWrite,
         ReviewRefused, ConfirmLock, ConfirmCommit, ConfirmRolledBack, RejectWrite,
         UnchangedPayment, RaiseEvent
    <3>2. order[o] = "cancelled" /\ outcome[o] # {}
      BY <3>1 DEF CallbackSuccess, ChannelInv, HandlersOnChannel, CallbackJobs
    <3> QED BY <1>1, <1>2, <1>5, <3>1, <3>2 DEF ChannelInv, FlaggedIsCancelled
  <2> QED BY <2>1, <2>2
<1>8. HandlersOnChannel'
  <2>1. CASE Finish(w)
    BY <1>6, <2>1, HandlerEnds DEF TypeInv, ChannelInv
  <2>2. CASE ConfirmLock(w, o)
    <3>1. receipt[o].status # "none" /\ req[w].target = o
      BY <2>2 DEF ConfirmLock, ChannelInv, HandlersOnChannel, ReceiptJobs
    <3>2. order[o] \in Seen /\ "confirm_locked" \in CheckoutJobs
      BY DEF TypeInv, SaleTypes, Seen, ReceiptStatus, CheckoutJobs
    <3>3. /\ req'[w].job = "confirm_locked" /\ req'[w].target = o
          /\ \A v \in Slots \ {w} : req'[v] = req[v]
      BY <2>2, <3>1, <3>2, ContinueEffect DEF ConfirmLock, TypeInv
    <3> QED BY <1>3, <1>6, <3>1, <3>3, HandlersKeptBut DEF ChannelInv, CallbackJobs
  <2>3. CASE CancelWrite(w, o) /\ ~Finish(w)
    <3>1. PICK job \in {"cancel_receipts", "expire_receipts"} : Continue(w, job, Nothing)
      BY <2>3 DEF CancelWrite
    <3>2. job \in CheckoutJobs /\ job \notin ReceiptJobs \cup CallbackJobs /\ Nothing \in Seen
      BY DEF CheckoutJobs, ReceiptJobs, CallbackJobs, Seen
    <3>3. /\ req'[w].job = job
          /\ \A v \in Slots \ {w} : req'[v] = req[v]
      BY <3>1, <3>2, ContinueEffect DEF TypeInv
    <3> QED BY <1>6, <3>2, <3>3, HandlersKeptBut DEF ChannelInv, CallbackJobs
  <2> QED BY <2>1, <2>2, <2>3 DEF CallbackSuccess, CallbackFailure, CancelReceipts, UploadWrite,
          ReviewRefused, ConfirmCommit, ConfirmRolledBack, RejectWrite
<1> QED
  BY <1>6, <1>7, <1>8 DEF ChannelInv

LEMMA ListingOnChannel ==
    ASSUME TypeInv, ChannelInv, NEW l \in Listings,
           \/ Withdraw(l) \/ SellerEdit(l) \/ Moderate(l)
           \/ \E w \in Slots : ListingRead(w, l) \/ ApproveWrite(w, l) \/ AdminEditWrite(w, l)
    PROVE  ChannelInv'
<1>1. UNCHANGED <<order, receipt, gateway, outcome, flagged>>
  BY DEF Withdraw, SellerEdit, Moderate, ListingRead, ApproveWrite, AdminEditWrite,
     ChangeListing, UnchangedPayment
<1>2. OneChannel' /\ FlaggedIsCancelled' /\ ChannelKept
  BY <1>1 DEF ChannelInv, OneChannel, FlaggedIsCancelled, ChannelKept
<1>3. CASE UNCHANGED req
  BY <1>2, <1>3, HandlersKept DEF ChannelInv
<1>4. ASSUME NEW w \in Slots, ListingRead(w, l)
      PROVE  ChannelInv'
  <2>1. StaleRows \cap (ReceiptJobs \cup CallbackJobs) = {}
    BY DEF StaleRows, ReceiptJobs, CallbackJobs
  <2>2. req'[w].job \in StaleRows /\ \A v \in Slots \ {w} : req'[v] = req[v]
    BY <1>4, ListingReadEffect DEF TypeInv
  <2> QED BY <1>2, <2>1, <2>2, HandlersKeptBut DEF ChannelInv, CallbackJobs
<1>5. ASSUME NEW w \in Slots, ApproveWrite(w, l) \/ AdminEditWrite(w, l)
      PROVE  ChannelInv'
  BY <1>2, <1>5, HandlerEnds DEF ApproveWrite, AdminEditWrite, TypeInv, ChannelInv
<1> QED
  BY <1>3, <1>4, <1>5 DEF Withdraw, SellerEdit, Moderate

LEMMA ChannelInvStep == TypeInv /\ ChannelInv /\ [CheckoutNext]_checkoutVars => ChannelInv'
<1> SUFFICES ASSUME TypeInv, ChannelInv, [CheckoutNext]_checkoutVars PROVE ChannelInv'
  OBVIOUS
<1> USE DEF Slots
<1>1. CASE UNCHANGED checkoutVars
  BY <1>1 DEF checkoutVars, ChannelInv, OneChannel, HandlersOnChannel, FlaggedIsCancelled
<1>2. ASSUME NEW o \in Orders,
             \/ CheckoutPaymob(o) \/ PaymobCreated(o) \/ PaymobUnavailable(o)
             \/ CheckoutDied(o) \/ CheckoutManual(o) \/ PaymentAttempt(o)
      PROVE  ChannelInv'
  BY <1>2, EntryOnChannel
<1>3. ASSUME NEW l \in Listings, Withdraw(l) \/ SellerEdit(l) \/ Moderate(l)
      PROVE  ChannelInv'
  BY <1>3, ListingOnChannel
<1>4. ASSUME NEW w \in Web, WebStep(w)
      PROVE  ChannelInv'
  BY <1>4, ReadOnChannel, WriteOnChannel, ListingOnChannel DEF WebStep
<1>5. ASSUME NEW w \in Slots, NEW o \in Orders, ExpireRead(w, o) \/ SweepStep(w, o)
      PROVE  ChannelInv'
  BY <1>5, ReadOnChannel, WriteOnChannel DEF SweepStep
<1>6. ASSUME NEW w \in Slots, Crash(w)
      PROVE  ChannelInv'
  <2>1. UNCHANGED <<order, receipt, gateway, outcome, flagged>>
    BY <1>6 DEF Crash, UnchangedPayment, UnchangedSale
  <2>2. OneChannel' /\ FlaggedIsCancelled' /\ ChannelKept
    BY <2>1 DEF ChannelInv, OneChannel, FlaggedIsCancelled, ChannelKept
  <2> QED BY <1>6, <2>2, HandlerEnds DEF Crash, TypeInv, ChannelInv
<1> QED
  BY <1>1, <1>2, <1>3, <1>4, <1>5, <1>6 DEF CheckoutNext

LEMMA ChannelInvInit == CheckoutInit => ChannelInv
BY IdleType DEF CheckoutInit, ChannelInv, OneChannel, HandlersOnChannel, FlaggedIsCancelled,
   ReceiptJobs, CallbackJobs

LEMMA ChannelHolds == CheckoutSpec => []ChannelInv
BY ChannelInvInit, ChannelInvStep, TypesHold, PTL DEF CheckoutSpec

\* When a capture arrives for a cancelled order an admin is asked to return it;
\* escrow never takes that payment as well, although an admin can revive a
\* cancelled order: only one that is paid by a receipt.
THEOREM ManualReturnIsRight == CheckoutSpec => []ManualReturnNotInEscrow
<1>1. ChannelInv /\ PaidOrderNeverDropped => ManualReturnNotInEscrow
  BY DEF ChannelInv, FlaggedIsCancelled, PaidOrderNeverDropped, ManualReturnNotInEscrow
<1> QED
  BY <1>1, ChannelHolds, PaymentNeverDropped, PTL

-----------------------------------------------------------------------------
(* No part is sold twice                                                   *)

\* What a step does to the slots, except the admin's read of a listing.
SlotStep(w) ==
    \/ Finish(w)
    \/ \E job \in CheckoutJobs \ StaleRows, seen \in Seen :
          \/ Continue(w, job, seen)
          \/ \E o \in Orders : Begin(w, job, o, seen)

LEMMA ReadSlot ==
    ASSUME TypeInv, NEW w \in Slots, NEW o \in Orders,
           \/ CallbackRead(w, o) \/ CancelRead(w, o) \/ UploadRead(w, o) \/ ReviewRead(w, o)
           \/ ExpireRead(w, o)
    PROVE  SlotStep(w)
<1>1. order[o] \in Seen /\ receipt[o].status \in Seen /\ Nothing \in Seen
  BY DEF TypeInv, SaleTypes, PaymentTypes, ReceiptRow, ReceiptStatus, Seen
<1>2. PICK job \in CheckoutJobs \ StaleRows, seen \in Seen : Begin(w, job, o, seen)
  BY <1>1 DEF CallbackRead, CancelRead, UploadRead, ReviewRead, ExpireRead, CheckoutJobs, StaleRows
<1> QED
  BY <1>2 DEF SlotStep

LEMMA WriteSlot ==
    ASSUME TypeInv, NEW w \in Slots, NEW o \in Orders,
           \/ CallbackSuccess(w, o) \/ CallbackFailure(w, o) \/ CancelWrite(w, o)
           \/ CancelReceipts(w, o) \/ UploadWrite(w, o) \/ ReviewRefused(w, o)
           \/ ConfirmLock(w, o) \/ ConfirmCommit(w, o) \/ ConfirmRolledBack(w, o)
           \/ RejectWrite(w, o)
    PROVE  SlotStep(w) /\ gateway' = gateway /\ ~Free(w)
<1>1. order[o] \in Seen /\ Nothing \in Seen
  BY DEF TypeInv, SaleTypes, Seen, ReceiptStatus
<1>2. {"cancel_receipts", "expire_receipts", "confirm_locked"} \subseteq CheckoutJobs \ StaleRows
  BY DEF CheckoutJobs, StaleRows
<1>3. SlotStep(w)
  BY <1>1, <1>2 DEF CallbackSuccess, CallbackFailure, CancelWrite, CancelReceipts, UploadWrite,
     ReviewRefused, ConfirmLock, ConfirmCommit, ConfirmRolledBack, RejectWrite, SlotStep
<1> QED
  BY <1>3 DEF CallbackSuccess, CallbackFailure, CancelWrite, CancelReceipts, UploadWrite,
     ReviewRefused, ConfirmLock, ConfirmCommit, ConfirmRolledBack, RejectWrite, Free,
     UnchangedPayment

\* Without an admin's copy in flight, a step other than the admin's read brings none.
LEMMA NoCopyAppears ==
    ASSUME ReqTypes, NEW w \in Slots, SlotStep(w),
           \A v \in Slots : req[v].job \notin StaleRows
    PROVE  \A v \in Slots : req'[v].job \notin StaleRows
<1>1. CASE Finish(w)
  BY <1>1, FinishEffect, IdleType DEF StaleRows
<1>2. ASSUME NEW job \in CheckoutJobs \ StaleRows, NEW seen \in Seen, Continue(w, job, seen)
      PROVE  \A v \in Slots : req'[v].job \notin StaleRows
  <2>1. req'[w].job = job /\ \A v \in Slots \ {w} : req'[v] = req[v]
    BY <1>2, ContinueEffect
  <2> QED BY <2>1
<1>3. ASSUME NEW job \in CheckoutJobs \ StaleRows, NEW seen \in Seen, NEW o \in Orders,
             Begin(w, job, o, seen)
      PROVE  \A v \in Slots : req'[v].job \notin StaleRows
  <2>1. req'[w].job = job /\ \A v \in Slots \ {w} : req'[v] = req[v]
    BY <1>3, BeginEffect
  <2> QED BY <2>1
<1> QED
  BY <1>1, <1>2, <1>3 DEF SlotStep

LEMMA NoCopyStep ==
    ASSUME TypeInv, CheckoutNext, Exclusive(StaleRows),
           \A v \in Slots : req[v].job \notin StaleRows
    PROVE  CopyIsRow'
<1> USE DEF Slots
<1>1. ASSUME UNCHANGED req
      PROVE  CopyIsRow'
  BY <1>1 DEF CopyIsRow, CopyIsAlone
<1>2. ASSUME NEW w \in Slots, SlotStep(w)
      PROVE  CopyIsRow'
  BY <1>2, NoCopyAppears DEF CopyIsRow, CopyIsAlone, TypeInv
<1>3. ASSUME NEW w \in Slots, NEW l \in Listings, ListingRead(w, l)
      PROVE  CopyIsRow'
  <2>1. /\ req'[w].job \in StaleRows /\ req'[w].target = l /\ req'[w].row = listing[l]
        /\ \A v \in Slots \ {w} : req'[v] = req[v]
        /\ Free(w) /\ Comes(req'[w].job)
        /\ UNCHANGED listing
    BY <1>3, ListingReadEffect DEF TypeInv
  <2>2. AllQuiet /\ gateway' = gateway
    BY <1>3, <2>1 DEF Exclusive, Comes, Quiet, ListingRead, ChangeListing, UnchangedPayment
  <2> QED BY <2>1, <2>2 DEF CopyIsRow, CopyIsAlone, AllQuiet, Free
<1>4. ASSUME NEW w \in Web, WebStep(w)
      PROVE  CopyIsRow'
  <2>1. ASSUME NEW l \in Listings, ApproveWrite(w, l) \/ AdminEditWrite(w, l)
        PROVE  SlotStep(w)
    BY <2>1 DEF ApproveWrite, AdminEditWrite, SlotStep
  <2> QED BY <1>2, <1>3, <1>4, <2>1, ReadSlot, WriteSlot DEF WebStep
<1>5. ASSUME NEW w \in Slots, NEW o \in Orders, ExpireRead(w, o) \/ SweepStep(w, o)
      PROVE  CopyIsRow'
  BY <1>2, <1>5, ReadSlot, WriteSlot DEF SweepStep
<1>6. ASSUME NEW w \in Slots, Crash(w)
      PROVE  CopyIsRow'
  BY <1>2, <1>6 DEF Crash, SlotStep
<1>7. ASSUME NEW o \in Orders,
             \/ CheckoutPaymob(o) \/ PaymobCreated(o) \/ PaymobUnavailable(o)
             \/ CheckoutDied(o) \/ CheckoutManual(o) \/ PaymentAttempt(o)
      PROVE  UNCHANGED req
  BY <1>7 DEF CheckoutPaymob, PaymobCreated, PaymobUnavailable, CheckoutDied, CheckoutManual,
     PaymentAttempt
<1>8. ASSUME NEW l \in Listings, Withdraw(l) \/ SellerEdit(l) \/ Moderate(l)
      PROVE  UNCHANGED req
  BY <1>8 DEF Withdraw, SellerEdit, Moderate
<1> QED
  BY <1>1, <1>4, <1>5, <1>6, <1>7, <1>8 DEF CheckoutNext

\* While an admin's copy is in flight only its own end, or a payment attempt on
\* Paymob's page, can happen.
LEMMA CopyEnds ==
    ASSUME TypeInv, CopyIsAlone, CheckoutNext, Exclusive(StaleRows),
           NEW u \in Slots, req[u].job \in StaleRows
    PROVE  Finish(u) \/ \E o \in Orders : PaymentAttempt(o)
<1> USE DEF Slots
<1>1. /\ \A v \in Slots \ {u} : Free(v)
      /\ \A o \in Orders : gateway[o] # "creating"
      /\ ~Free(u)
  BY DEF CopyIsAlone, StaleRows, Free
<1>2. \A job : ~Comes(job)
  BY <1>1 DEF Exclusive, Comes, Quiet, AllQuiet
<1>3. \A w \in Slots, o \in Orders :
          ~(\/ CallbackRead(w, o) \/ CancelRead(w, o) \/ UploadRead(w, o) \/ ReviewRead(w, o)
            \/ ExpireRead(w, o))
  BY <1>2 DEF CallbackRead, CancelRead, UploadRead, ReviewRead, ExpireRead, Begin, Accept
<1>4. \A w \in Slots, l \in Listings : ~ListingRead(w, l)
  BY <1>2 DEF ListingRead, Accept
<1>5. \A w \in Slots, o \in Orders :
          ~(\/ CallbackSuccess(w, o) \/ CallbackFailure(w, o) \/ CancelWrite(w, o)
            \/ CancelReceipts(w, o) \/ UploadWrite(w, o) \/ ReviewRefused(w, o)
            \/ ConfirmLock(w, o) \/ ConfirmCommit(w, o) \/ ConfirmRolledBack(w, o)
            \/ RejectWrite(w, o))
  BY <1>1 DEF CallbackSuccess, CallbackFailure, CancelWrite, CancelReceipts, UploadWrite,
     ReviewRefused, ConfirmLock, ConfirmCommit, ConfirmRolledBack, RejectWrite, Free, StaleRows
<1>6. \A o \in Orders :
          ~(\/ CheckoutPaymob(o) \/ PaymobCreated(o) \/ PaymobUnavailable(o)
            \/ CheckoutDied(o) \/ CheckoutManual(o))
  BY <1>1, <1>2 DEF CheckoutPaymob, PaymobCreated, PaymobUnavailable, CheckoutDied, CheckoutManual
<1>7. \A l \in Listings : ~(Withdraw(l) \/ SellerEdit(l) \/ Moderate(l))
  BY <1>2 DEF Withdraw, SellerEdit, Moderate, SellerMayChange
<1>8. ASSUME NEW w \in Slots,
             \/ Crash(w)
             \/ \E l \in Listings : ApproveWrite(w, l) \/ AdminEditWrite(w, l)
      PROVE  Finish(u)
  BY <1>1, <1>8 DEF Crash, ApproveWrite, AdminEditWrite, Free
<1> QED
  BY <1>3, <1>4, <1>5, <1>6, <1>7, <1>8 DEF CheckoutNext, WebStep, SweepStep

LEMMA CopyIsRowStep ==
    ASSUME Exclusive(StaleRows)
    PROVE  TypeInv /\ CopyIsRow /\ [CheckoutNext]_checkoutVars => CopyIsRow'
<1> SUFFICES ASSUME TypeInv, CopyIsRow, [CheckoutNext]_checkoutVars PROVE CopyIsRow'
  OBVIOUS
<1>1. CASE UNCHANGED checkoutVars
  BY <1>1 DEF checkoutVars, CopyIsRow, CopyIsAlone, Free
<1>2. CASE CheckoutNext /\ \A v \in Slots : req[v].job \notin StaleRows
  BY <1>2, NoCopyStep
<1>3. ASSUME CheckoutNext, NEW u \in Slots, req[u].job \in StaleRows
      PROVE  CopyIsRow'
  <2>1. CASE Finish(u)
    <3>1. \A v \in Slots : Free(v)'
      BY <1>3, <2>1, FinishEffect, IdleType DEF CopyIsRow, CopyIsAlone, Free, TypeInv
    <3> QED BY <3>1 DEF CopyIsRow, CopyIsAlone, Free, StaleRows
  <2>2. ASSUME NEW o \in Orders, PaymentAttempt(o)
        PROVE  CopyIsRow'
    BY <2>2 DEF PaymentAttempt, UnchangedSale, CopyIsRow, CopyIsAlone, Free
  <2> QED BY <1>3, <2>1, <2>2, CopyEnds DEF CopyIsRow
<1> QED
  BY <1>1, <1>2, <1>3

\* What the admin's requests write back is then the row, published if it was a draft.
LEMMA StaleWriteSafe ==
    ASSUME TypeInv, CopyIsRow, StaleWrite
    PROVE  SafeChange
<1>1. PICK w \in Web, l \in Listings : ApproveWrite(w, l) \/ AdminEditWrite(w, l)
  BY DEF StaleWrite
<1>2. req[w].row = listing[l] /\ listing[l] \in ListingRow
  BY <1>1 DEF ApproveWrite, AdminEditWrite, CopyIsRow, StaleRows, Slots, TypeInv, SaleTypes
<1>3. CASE AdminEditWrite(w, l) \/ (ApproveWrite(w, l) /\ listing[l].moderation = "approved")
  <2>1. ChangeListing(l, listing[l])
    BY <1>2, <1>3 DEF AdminEditWrite, ApproveWrite
  <2> QED BY <1>2, <2>1 DEF SafeChange, SafeRow
<1>4. CASE ApproveWrite(w, l) /\ listing[l].moderation # "approved"
  <2> DEFINE status == IF listing[l].status = "draft" THEN "active" ELSE listing[l].status
             row == [listing[l] EXCEPT !.moderation = "approved", !.status = status]
  <2>1. /\ status \in ListingStatus
        /\ status = listing[l].status \/ {status, listing[l].status} \subseteq ForSeller
    BY <1>2 DEF ListingRow, ListingStatus, ForSeller
  <2>2. ChangeListing(l, row)
    BY <1>2, <1>4 DEF ApproveWrite
  <2> HIDE DEF status
  <2>3. row \in ListingRow /\ row.status = status
    BY <1>2, <2>1 DEF ListingRow
  <2> QED BY <2>1, <2>2, <2>3 DEF SafeChange, SafeRow
<1> QED
  BY <1>1, <1>3, <1>4

\* An order and its listing change together while no other order owns it.
LEMMA OwnerChanges ==
    ASSUME TypeInv, SaleInv, NEW o \in Orders,
           \A p \in Orders \ {o} : ListingOf[p] = ListingOf[o] => order[p] \notin LiveStatus,
           NEW status \in {"pending_payment", "paid_held", "cancelled"},
           NEW sale \in {"reserved", "sold", "active"},
           status = "pending_payment" <=> sale = "reserved",
           status = "paid_held" => sale = "sold",
           order' = [order EXCEPT ![o] = status],
           listing' = [listing EXCEPT ![ListingOf[o]].status = sale]
    PROVE  SaleInv'
<1>1. /\ \A p \in Orders : order'[p] = IF p = o THEN status ELSE order[p]
      /\ \A l \in Listings : listing'[l].status = IF l = ListingOf[o] THEN sale
                                                                     ELSE listing[l].status
  <2>1. listing[ListingOf[o]] \in ListingRow
    BY OwnerListed DEF TypeInv, SaleTypes
  <2> QED BY <2>1 DEF TypeInv, SaleTypes, ListingRow
<1>2. \A p \in Orders : ListingOf[p] \in Listings
  BY OwnerListed
<1>3. {"pending_payment", "paid_held"} \subseteq LiveStatus /\ {"none", "cancelled"} \cap LiveStatus = {}
  BY DEF LiveStatus, OrderStatus
<1>5. \A p \in Orders : order'[p] = "pending_payment" => listing'[ListingOf[p]].status = "reserved"
  BY <1>1, <1>2, <1>3 DEF SaleInv
<1>6. \A p \in Orders : order'[p] \in LiveStatus \ {"pending_payment"}
                            => listing'[ListingOf[p]].status = "sold"
  BY <1>1, <1>2, <1>3 DEF SaleInv
<1>7. OneLiveOrder'
  BY <1>1, <1>3 DEF SaleInv, OneLiveOrder
<1>8. ReservationHasCheckout'
  BY <1>1, <1>2 DEF SaleInv, ReservationHasCheckout
<1> QED
  BY <1>5, <1>6, <1>7, <1>8 DEF SaleInv

LEMMA SafeChangeKeeps ==
    ASSUME TypeInv, SaleInv, SafeChange
    PROVE  SaleInv'
<1>1. {"pending_payment", "paid_held"} \subseteq LiveStatus /\ {"none", "cancelled"} \cap LiveStatus = {}
  BY DEF LiveStatus, OrderStatus
<1>2. CASE UnchangedSale
  BY <1>2 DEF UnchangedSale, SaleInv, OneLiveOrder, ReservationHasCheckout
<1>3. ASSUME NEW l \in Listings, NEW row \in ListingRow, SafeRow(l, row), ChangeListing(l, row)
      PROVE  SaleInv'
  <2>1. /\ order' = order
        /\ \A m \in Listings : listing'[m].status = IF m = l THEN row.status ELSE listing[m].status
    BY <1>3 DEF ChangeListing, TypeInv, SaleTypes
  <2>2. \A m \in Listings :
           \/ listing'[m].status = listing[m].status
           \/ {listing'[m].status, listing[m].status} \subseteq ForSeller
    BY <1>3, <2>1 DEF SafeRow
  <2>3. \A o \in Orders : ListingOf[o] \in Listings
    BY OwnerListed
  <2>4. \A m \in Listings : \A status \in {"reserved", "sold"} :
           listing'[m].status = status <=> listing[m].status = status
    BY <2>2 DEF ForSeller
  <2> QED BY <2>1, <2>3, <2>4 DEF SaleInv, OneLiveOrder, ReservationHasCheckout
<1>4. ASSUME NEW o \in Orders, OrderChange(o)
      PROVE  SaleInv'
  <2>1. ASSUME listing[ListingOf[o]].status = "active"
        PROVE  \A p \in Orders : ListingOf[p] = ListingOf[o] => order[p] \notin LiveStatus
    BY <1>1, <2>1 DEF SaleInv
  <2>2. ASSUME order[o] = "pending_payment"
        PROVE  \A p \in Orders \ {o} : ListingOf[p] = ListingOf[o] => order[p] \notin LiveStatus
    BY <1>1, <2>2 DEF SaleInv, OneLiveOrder
  <2>3. CASE (order[o] = "pending_payment" \/ CanReactivate(o)) /\ Pay(o)
    <3>1. \A p \in Orders \ {o} : ListingOf[p] = ListingOf[o] => order[p] \notin LiveStatus
      BY <2>1, <2>2, <2>3 DEF CanReactivate
    <3> QED BY <2>3, <3>1, OwnerChanges DEF Pay
  <2>4. CASE order[o] = "pending_payment" /\ Cancel(o)
    <3>1. listing[ListingOf[o]].status = "reserved" /\ ~OtherLiveOrder(o)
      BY <2>2, <2>4 DEF SaleInv, OtherLiveOrder
    <3>2. /\ order' = [order EXCEPT ![o] = "cancelled"]
          /\ listing' = [listing EXCEPT ![ListingOf[o]].status = "active"]
      BY <2>4, <3>1 DEF Cancel
    <3> QED BY <2>2, <2>4, <3>2, OwnerChanges
  <2>5. CASE Reserve(o)
    BY <2>1, <2>5, OwnerChanges DEF Reserve, CanBeBought
  <2> QED BY <1>4, <2>3, <2>4, <2>5 DEF OrderChange
<1> QED
  BY <1>2, <1>3, <1>4 DEF SafeChange

LEMMA SaleInvStep ==
    TypeInv /\ CopyIsRow /\ SaleInv /\ [CheckoutNext]_checkoutVars => SaleInv'
<1>1. ASSUME SaleInv, UNCHANGED checkoutVars PROVE SaleInv'
  BY <1>1 DEF checkoutVars, SaleInv, OneLiveOrder, ReservationHasCheckout
<1> QED
  BY <1>1, SaleEffects, StaleWriteSafe, SafeChangeKeeps

LEMMA SaleInvInit == CheckoutInit => CopyIsRow /\ SaleInv
<1>1. CheckoutInit => CopyIsRow
  BY IdleType DEF CheckoutInit, CopyIsRow, CopyIsAlone, StaleRows
<1>2. CheckoutInit => SaleInv
  <2>1. Submitted.status # "reserved" /\ Published.status # "reserved" /\ "none" \notin LiveStatus
    BY DEF Submitted, Published, LiveStatus, OrderStatus
  <2> QED BY <2>1 DEF CheckoutInit, SaleInv, OneLiveOrder, ReservationHasCheckout
<1> QED
  BY <1>1, <1>2

LEMMA SaleInvHolds == ASSUME Exclusive(StaleRows) PROVE CheckoutSpec => []SaleInv
<1>1. TypeInv /\ CopyIsRow /\ [CheckoutNext]_checkoutVars => CopyIsRow'
  BY CopyIsRowStep
<1> QED
  BY <1>1, SaleInvInit, SaleInvStep, TypesHold, PTL DEF CheckoutSpec

\* No double sale, however checkouts, callbacks, cancellations, sweeps and reviews
\* overlap, provided the admin's two requests on a listing do not overlap them.
THEOREM NoDoubleSale == ASSUME Exclusive(StaleRows) PROVE CheckoutSpec => []OneLiveOrder
<1>1. SaleInv => OneLiveOrder
  BY DEF SaleInv
<1> QED
  BY <1>1, SaleInvHolds, PTL

\* Under the same condition the part of an order that waits to be shipped is off
\* the market, whatever sellers edit and checkouts are cancelled.
THEOREM PaidPartOffMarket ==
    ASSUME Exclusive(StaleRows) PROVE CheckoutSpec => []PaidPartStaysSold
<1>1. SaleInv => PaidPartStaysSold
  BY DEF SaleInv, PaidPartStaysSold, LiveStatus, OrderStatus
<1> QED
  BY <1>1, SaleInvHolds, PTL

\* Under the same condition a reserved listing has an open checkout, which a
\* payment, a cancellation or the sweep will end.
THEOREM ReservationsAreOpen ==
    ASSUME Exclusive(StaleRows) PROVE CheckoutSpec => []ReservationHasCheckout
<1>1. SaleInv => ReservationHasCheckout
  BY DEF SaleInv
<1> QED
  BY <1>1, SaleInvHolds, PTL

-----------------------------------------------------------------------------
(* What a step of the checkout does to an order and its money              *)

\* The statuses of an order nobody has paid.
Unpaid == {"none", "pending_payment", "cancelled"}

ConfirmationEnds(w, o) ==
    req[w].job = "confirm_locked" /\ req[w].target = o /\ Finish(w)

CheckoutMove(o) ==
    \/ /\ \/ order[o] = "pending_payment"
          \/ order[o] = "cancelled" /\ \E w \in Slots : ConfirmationEnds(w, o)
       /\ order' = [order EXCEPT ![o] = "paid_held"]
       /\ \E placed \in BOOLEAN : TakeCustody(o, placed)
    \/ /\ order[o] = "pending_payment"
       /\ order' = [order EXCEPT ![o] = "cancelled"]
       /\ UNCHANGED escrowVars
    \/ /\ order[o] = "none"
       /\ order' = [order EXCEPT ![o] = "pending_payment"]
       /\ UNCHANGED escrowVars

\* Payment is on record exactly for the orders past the checkout.
PaidBothWays == \A o \in Orders : paidAt[o] <=> order[o] \notin Unpaid

HoldIsPaid == \A o \in Orders : hold[o] # "none" => paidAt[o]

\* One confirmation at a time holds the lock of a receipt, and the order that it
\* saw cancelled stays so: only a confirmation could revive it.
LockInv ==
    /\ \A w, v \in Slots, o \in Orders :
          /\ req[w].job = "confirm_locked" /\ req[w].target = o
          /\ req[v].job = "confirm_locked" /\ req[v].target = o
          => w = v
    /\ \A w \in Slots, o \in Orders :
          req[w].job = "confirm_locked" /\ req[w].target = o /\ req[w].seen = "cancelled"
              => order[o] = "cancelled"

SaleRows ==
    /\ order \in [Orders -> OrderStatus \cup {"none"}]
    /\ paidAt \in [Orders -> BOOLEAN]
    /\ hold \in [Orders -> HoldStatus]

Only(o) == \A p \in Orders \ {o} : order'[p] = order[p] /\ hold'[p] = hold[p]

LEMMA TryPayMoves ==
    ASSUME NEW o \in Orders, TryPay(o)
    PROVE  UNCHANGED <<order, escrowVars>> \/ CheckoutMove(o)
BY DEF TryPay, Pay, UnchangedSale, CheckoutMove

LEMMA TryCancelMoves ==
    ASSUME NEW o \in Orders, TryCancel(o)
    PROVE  UNCHANGED <<order, escrowVars>> \/ CheckoutMove(o)
BY DEF TryCancel, Cancel, UnchangedSale, CheckoutMove

LEMMA WebOrderMoves ==
    ASSUME LockInv, NEW w \in Slots, NEW o \in Orders,
           \/ CallbackRead(w, o) \/ CallbackSuccess(w, o) \/ CallbackFailure(w, o)
           \/ CancelRead(w, o) \/ UploadRead(w, o) \/ UploadWrite(w, o)
           \/ ReviewRead(w, o) \/ ReviewRefused(w, o) \/ RejectWrite(w, o)
           \/ ConfirmLock(w, o) \/ ConfirmCommit(w, o) \/ ConfirmRolledBack(w, o)
    PROVE  UNCHANGED <<order, escrowVars>> \/ CheckoutMove(o)
<1>1. CASE \/ CallbackRead(w, o) \/ CancelRead(w, o) \/ UploadRead(w, o) \/ UploadWrite(w, o)
           \/ ReviewRead(w, o) \/ ReviewRefused(w, o) \/ ConfirmLock(w, o)
           \/ ConfirmRolledBack(w, o)
  BY <1>1 DEF CallbackRead, CancelRead, UploadRead, UploadWrite, ReviewRead, ReviewRefused,
              ConfirmLock, ConfirmRolledBack, UnchangedSale
<1>2. CASE CallbackSuccess(w, o)
  BY <1>2, TryPayMoves DEF CallbackSuccess, UnchangedSale
<1>3. CASE CallbackFailure(w, o) \/ RejectWrite(w, o)
  BY <1>3, TryCancelMoves DEF CallbackFailure, RejectWrite, UnchangedSale
<1>4. CASE ConfirmCommit(w, o)
  <2>1. CASE req[w].seen = "cancelled" /\ Pay(o)
    <3>1. order[o] = "cancelled"
      BY <1>4, <2>1 DEF ConfirmCommit, LockInv
    <3>2. ConfirmationEnds(w, o)
      BY <1>4 DEF ConfirmCommit, ConfirmationEnds
    <3> QED BY <2>1, <3>1, <3>2 DEF Pay, CheckoutMove
  <2> QED BY <1>4, <2>1, TryPayMoves DEF ConfirmCommit
<1> QED
  BY <1>1, <1>2, <1>3, <1>4

LEMMA CheckoutMoves ==
    ASSUME LockInv, CheckoutNext
    PROVE  UNCHANGED <<order, escrowVars>> \/ \E o \in Orders : CheckoutMove(o)
<1> USE DEF Slots
<1> DEFINE Moved == UNCHANGED <<order, escrowVars>> \/ \E o \in Orders : CheckoutMove(o)
<1>1. ASSUME NEW o \in Orders,
             \/ CheckoutPaymob(o) \/ PaymobCreated(o) \/ PaymobUnavailable(o)
             \/ CheckoutDied(o) \/ CheckoutManual(o) \/ PaymentAttempt(o)
      PROVE  Moved
  BY <1>1, TryCancelMoves DEF CheckoutPaymob, PaymobCreated, PaymobUnavailable, CheckoutDied,
     CheckoutManual, PaymentAttempt, Reserve, UnchangedSale, CheckoutMove
<1>2. ASSUME NEW l \in Listings,
             \/ Withdraw(l) \/ SellerEdit(l) \/ Moderate(l)
             \/ \E w \in Web : ListingRead(w, l) \/ ApproveWrite(w, l) \/ AdminEditWrite(w, l)
      PROVE  Moved
  BY <1>2 DEF Withdraw, SellerEdit, Moderate, ListingRead, ApproveWrite, AdminEditWrite,
     ChangeListing
<1>3. ASSUME NEW w \in Slots, NEW o \in Orders, ExpireRead(w, o) \/ SweepStep(w, o)
      PROVE  Moved
  BY <1>3, TryCancelMoves DEF ExpireRead, SweepStep, CancelWrite, CancelReceipts, UnchangedSale
<1>4. ASSUME NEW w \in Slots, Crash(w)
      PROVE  Moved
  BY <1>4 DEF Crash, UnchangedSale
<1>5. ASSUME NEW w \in Web, WebStep(w)
      PROVE  Moved
  BY <1>2, <1>5, WebOrderMoves DEF WebStep
<1> HIDE DEF Moved
<1>6. Moved
  BY <1>1, <1>2, <1>3, <1>4, <1>5 DEF CheckoutNext
<1> QED
  BY <1>6 DEF Moved

\* The requests that decide on the status of an order which they read before.
Lookers == {"callback_success", "confirm_locked"}

\* Such a request gets to work in one step, which only reads the order; a confirmation
\* takes the lock of its receipt in that step.
LEMMA OrderLooked ==
    ASSUME TypeInv, CheckoutNext
    PROVE  \/ \A w \in Slots : req'[w].job \in Lookers => req'[w] = req[w]
           \/ \E w \in Slots, o \in Orders :
                 /\ req'[w].job = "confirm_locked" => ReceiptFree(o)
                 /\ UNCHANGED <<order, escrowVars>>
                 /\ req'[w].target = o /\ req'[w].seen = order[o]
                 /\ \A v \in Slots \ {w} : req'[v] = req[v]
<1> USE DEF Slots, Lookers
<1> DEFINE NoneNew == \A w \in Slots : req'[w].job \in Lookers => req'[w] = req[w]
           OneNew == \E w \in Slots, o \in Orders :
                 /\ req'[w].job = "confirm_locked" => ReceiptFree(o)
                 /\ UNCHANGED <<order, escrowVars>>
                 /\ req'[w].target = o /\ req'[w].seen = order[o]
                 /\ \A v \in Slots \ {w} : req'[v] = req[v]
<1>1. ASSUME UNCHANGED req
      PROVE  NoneNew
  BY <1>1
<1>2. ASSUME NEW w \in Slots, Finish(w)
      PROVE  NoneNew
  BY <1>2, FinishEffect, IdleType DEF TypeInv
<1>3. ASSUME NEW w \in Slots, NEW l \in Listings, ListingRead(w, l)
      PROVE  NoneNew
  <2>1. /\ req'[w].job \in StaleRows
        /\ \A v \in Slots \ {w} : req'[v] = req[v]
    BY <1>3, ListingReadEffect DEF TypeInv
  <2> QED BY <2>1 DEF StaleRows
<1>4. ASSUME NEW w \in Slots, NEW o \in Orders,
             \/ CallbackRead(w, o) \/ CancelRead(w, o) \/ UploadRead(w, o) \/ ReviewRead(w, o)
             \/ ExpireRead(w, o)
      PROVE  NoneNew \/ OneNew
  <2>1. order[o] \in Seen /\ receipt[o].status \in Seen /\ Nothing \in Seen
    BY DEF TypeInv, SaleTypes, PaymentTypes, ReceiptRow, ReceiptStatus, Seen
  <2>2. UNCHANGED <<order, escrowVars>>
    BY <1>4 DEF CallbackRead, CancelRead, UploadRead, ReviewRead, ExpireRead, UnchangedSale
  <2>3. PICK job \in CheckoutJobs, seen \in Seen :
           /\ Begin(w, job, o, seen) /\ job # "confirm_locked"
           /\ job = "callback_success" => seen = order[o]
    BY <1>4, <2>1 DEF CallbackRead, CancelRead, UploadRead, ReviewRead, ExpireRead, CheckoutJobs
  <2>4. /\ req'[w].job = job /\ req'[w].target = o /\ req'[w].seen = seen
        /\ \A v \in Slots \ {w} : req'[v] = req[v]
    BY <2>3, BeginEffect DEF TypeInv
  <2>5. CASE job = "callback_success"
    <3>1. OneNew
      BY <2>2, <2>3, <2>4, <2>5
    <3> QED BY <3>1
  <2>6. CASE job # "callback_success"
    <3>1. NoneNew
      BY <2>3, <2>4, <2>6
    <3> QED BY <3>1
  <2> QED BY <2>5, <2>6
<1>5. ASSUME NEW w \in Slots, NEW o \in Orders, ConfirmLock(w, o)
      PROVE  OneNew
  <2>1. order[o] \in Seen /\ "confirm_locked" \in CheckoutJobs
    BY DEF TypeInv, SaleTypes, Seen, ReceiptStatus, CheckoutJobs
  <2>2. /\ Continue(w, "confirm_locked", order[o])
        /\ ReceiptFree(o) /\ UNCHANGED <<order, escrowVars>> /\ req[w].target = o
    BY <1>5 DEF ConfirmLock, UnchangedSale
  <2>3. /\ req'[w].target = o /\ req'[w].seen = order[o]
        /\ \A v \in Slots \ {w} : req'[v] = req[v]
    BY <2>1, <2>2, ContinueEffect DEF TypeInv
  <2> QED BY <2>2, <2>3
<1>6. ASSUME NEW w \in Slots, NEW o \in Orders, CancelWrite(w, o)
      PROVE  NoneNew
  <2>1. CASE Finish(w)
    BY <1>2, <2>1
  <2>2. ASSUME NEW job \in {"cancel_receipts", "expire_receipts"}, Continue(w, job, Nothing)
        PROVE  NoneNew
    <3>1. job \in CheckoutJobs /\ Nothing \in Seen
      BY DEF CheckoutJobs, Seen
    <3>2. /\ req'[w].job = job
          /\ \A v \in Slots \ {w} : req'[v] = req[v]
      BY <2>2, <3>1, ContinueEffect DEF TypeInv
    <3> QED BY <3>2
  <2> QED BY <1>6, <2>1, <2>2 DEF CancelWrite
<1>7. ASSUME NEW w \in Slots, NEW o \in Orders,
             \/ CallbackSuccess(w, o) \/ CallbackFailure(w, o) \/ CancelReceipts(w, o)
             \/ UploadWrite(w, o) \/ ReviewRefused(w, o) \/ ConfirmCommit(w, o)
             \/ ConfirmRolledBack(w, o) \/ RejectWrite(w, o)
      PROVE  NoneNew
  <2>1. Finish(w)
    BY <1>7 DEF CallbackSuccess, CallbackFailure, CancelReceipts, UploadWrite, ReviewRefused,
       ConfirmCommit, ConfirmRolledBack, RejectWrite
  <2> QED BY <1>2, <2>1
<1>8. ASSUME NEW w \in Slots,
             \/ Crash(w)
             \/ \E l \in Listings : ApproveWrite(w, l) \/ AdminEditWrite(w, l)
      PROVE  NoneNew
  <2>1. Finish(w)
    BY <1>8 DEF Crash, ApproveWrite, AdminEditWrite
  <2> QED BY <1>2, <2>1
<1>9. ASSUME NEW o \in Orders,
             \/ CheckoutPaymob(o) \/ PaymobCreated(o) \/ PaymobUnavailable(o)
             \/ CheckoutDied(o) \/ CheckoutManual(o) \/ PaymentAttempt(o)
      PROVE  UNCHANGED req
  BY <1>9 DEF CheckoutPaymob, PaymobCreated, PaymobUnavailable, CheckoutDied, CheckoutManual,
     PaymentAttempt
<1>10. ASSUME NEW l \in Listings, Withdraw(l) \/ SellerEdit(l) \/ Moderate(l)
       PROVE  UNCHANGED req
  BY <1>10 DEF Withdraw, SellerEdit, Moderate
<1> HIDE DEF NoneNew, OneNew
<1>11. NoneNew \/ OneNew
  BY <1>1, <1>3, <1>4, <1>5, <1>6, <1>7, <1>8, <1>9, <1>10 DEF CheckoutNext, WebStep, SweepStep
<1> QED
  BY <1>11 DEF NoneNew, OneNew

LEMMA LockInvStep ==
    ASSUME TypeInv, LockInv, CheckoutNext
    PROVE  LockInv'
<1> USE DEF Slots, Lookers
<1>1. order \in [Orders -> OrderStatus \cup {"none"}]
  BY DEF TypeInv, SaleTypes
<1>2. ASSUME NEW w \in Slots, NEW v \in Slots, NEW o \in Orders,
             req'[w].job = "confirm_locked", req'[w].target = o,
             req'[v].job = "confirm_locked", req'[v].target = o
      PROVE  w = v
  BY <1>2, OrderLooked DEF LockInv, ReceiptFree
<1>3. ASSUME NEW w \in Slots, NEW o \in Orders,
             req'[w].job = "confirm_locked", req'[w].target = o, req'[w].seen = "cancelled"
      PROVE  order'[o] = "cancelled"
  <2>1. CASE req'[w] # req[w]
    BY <1>3, <2>1, OrderLooked
  <2>2. CASE req'[w] = req[w]
    <3>1. /\ order[o] = "cancelled"
          /\ \A v \in Slots : req[v].job = "confirm_locked" /\ req[v].target = o => v = w
      BY <1>3, <2>2 DEF LockInv
    <3>2. ~ConfirmationEnds(w, o)
      <4>1. Finish(w) => req'[w].job = "idle"
        BY FinishEffect, IdleType DEF TypeInv
      <4> QED BY <1>3, <4>1 DEF ConfirmationEnds
    <3>3. \A v \in Slots : ~ConfirmationEnds(v, o)
      BY <3>1, <3>2 DEF ConfirmationEnds
    <3> QED BY <1>1, <3>1, <3>3, CheckoutMoves DEF CheckoutMove
  <2> QED BY <2>1, <2>2
<1> QED
  BY <1>2, <1>3 DEF LockInv

-----------------------------------------------------------------------------
(* A checkout keeps the promise of PartSale                                *)

\* A part is with the buyer who reserved it, or who paid and has not the money back.
Bought(o) == order[o] \notin Unpaid /\ hold[o] # "refunded_to_buyer"

Owns(o) == order[o] = "pending_payment" \/ Bought(o)

OneOwner == \A o, p \in Orders : ListingOf[o] = ListingOf[p] /\ Owns(o) /\ Owns(p) => o = p

\* The status of a listing keeps everybody away from a part that somebody owns.
PartInv ==
    /\ \A o \in Orders :
          order[o] = "pending_payment" => listing[ListingOf[o]].status = "reserved"
    /\ \A o \in Orders : Bought(o) => listing[ListingOf[o]].status = "sold"
    /\ OneOwner

\* What an admin's request writes back is the status of the listing, unless an
\* automatic refund has withdrawn it meanwhile.
CopySafe ==
    /\ CopyIsAlone
    /\ \A w \in Slots :
          req[w].job \in StaleRows =>
              LET l == req[w].target IN
              \/ req[w].row.status = listing[l].status
              \/ req[w].row.status = "sold" /\ listing[l].status = "removed"

\* Payment is on record exactly for the orders past the checkout, and only they
\* have a hold.
RecordInv == PaidBothWays /\ HoldIsPaid /\ LockInv

LEMMA CopySafeStep ==
    ASSUME Exclusive(StaleRows), TypeInv, CopySafe, [CheckoutNext]_checkoutVars
    PROVE  CopySafe'
<1>1. CASE UNCHANGED checkoutVars
  BY <1>1 DEF checkoutVars, CopySafe, CopyIsAlone, Free
<1>2. CASE CheckoutNext /\ \A v \in Slots : req[v].job \notin StaleRows
  <2>1. CopyIsRow'
    BY <1>2, NoCopyStep
  <2> QED BY <2>1 DEF CopyIsRow, CopySafe
<1>3. ASSUME CheckoutNext, NEW u \in Slots, req[u].job \in StaleRows
      PROVE  CopySafe'
  <2>1. CASE Finish(u)
    <3>1. \A v \in Slots : Free(v)'
      BY <1>3, <2>1, FinishEffect, IdleType DEF CopySafe, CopyIsAlone, Free, TypeInv
    <3> QED BY <3>1 DEF CopySafe, CopyIsAlone, Free, StaleRows
  <2>2. ASSUME NEW o \in Orders, PaymentAttempt(o)
        PROVE  CopySafe'
    BY <2>2 DEF PaymentAttempt, UnchangedSale, CopySafe, CopyIsAlone, Free
  <2> QED BY <1>3, <2>1, <2>2, CopyEnds DEF CopySafe
<1> QED
  BY <1>1, <1>2, <1>3

\* What becomes of the part of an order that no other order owns.
LEMMA OwnerMoves ==
    ASSUME PartInv, NEW o \in Orders,
           \A p \in Orders \ {o} : ListingOf[p] = ListingOf[o] => ~Owns(p),
           Only(o), NEW sale,
           \A l \in Listings : listing'[l].status = IF l = ListingOf[o] THEN sale
                                                                       ELSE listing[l].status,
           (order[o] = "pending_payment")' => sale = "reserved",
           Bought(o)' => sale = "sold"
    PROVE  PartInv'
<1>1. \A p \in Orders : ListingOf[p] \in Listings
  BY OwnerListed
<1>2. \A p \in Orders \ {o} : /\ Bought(p)' <=> Bought(p)
                              /\ order'[p] = order[p]
                              /\ Owns(p)' <=> Owns(p)
  BY DEF Only, Bought, Owns
<1>3. \A p \in Orders \ {o} : Owns(p) => ListingOf[p] # ListingOf[o]
  OBVIOUS
<1>4. OneOwner'
  BY <1>2, <1>3 DEF PartInv, OneOwner
<1>5. \A p \in Orders : order'[p] = "pending_payment" => listing'[ListingOf[p]].status = "reserved"
  BY <1>1, <1>2, <1>3 DEF PartInv, Owns
<1>6. \A p \in Orders : Bought(p)' => listing'[ListingOf[p]].status = "sold"
  BY <1>1, <1>2, <1>3 DEF PartInv, Owns
<1> QED
  BY <1>4, <1>5, <1>6 DEF PartInv

\* A listing that keeps the status "reserved" or "sold", if it has one, or that
\* only leaves "removed".
LEMMA ListingMoves ==
    ASSUME PartInv, NEW l \in Listings,
           UNCHANGED <<order, hold>>,
           \A m \in Listings \ {l} : listing'[m].status = listing[m].status,
           \/ listing'[l].status = listing[l].status
           \/ listing[l].status \notin {"reserved", "sold"}
    PROVE  PartInv'
<1>1. \A p \in Orders : ListingOf[p] \in Listings
  BY OwnerListed
<1>2. \A m \in Listings : \A s \in {"reserved", "sold"} :
          listing[m].status = s => listing'[m].status = s
  OBVIOUS
<1>3. \A p \in Orders : (Bought(p)' <=> Bought(p)) /\ (Owns(p)' <=> Owns(p))
  BY DEF Bought, Owns
<1> QED
  BY <1>1, <1>2, <1>3 DEF PartInv, OneOwner

LEMMA StaleWriteKeeps ==
    ASSUME TypeInv, CopySafe, PartInv, StaleWrite
    PROVE  PartInv'
<1>1. PICK w \in Web, l \in Listings : ApproveWrite(w, l) \/ AdminEditWrite(w, l)
  BY DEF StaleWrite
<1>2. /\ req[w].target = l /\ req[w].job \in StaleRows /\ w \in Slots
      /\ req[w].row \in ListingRow /\ listing[l] \in ListingRow
  BY <1>1 DEF ApproveWrite, AdminEditWrite, StaleRows, Slots, TypeInv, SaleTypes, ReqTypes, Request
<1>3. PICK row \in ListingRow :
         /\ ChangeListing(l, row)
         /\ \/ row.status = listing[l].status
            \/ row.status = req[w].row.status
            \/ req[w].row.status = "draft"
  <2>1. CASE AdminEditWrite(w, l)
    BY <1>2, <2>1 DEF AdminEditWrite
  <2>2. CASE ApproveWrite(w, l) /\ req[w].row.moderation = "approved"
    BY <1>2, <2>2 DEF ApproveWrite
  <2>3. CASE ApproveWrite(w, l) /\ req[w].row.moderation # "approved"
    <3> DEFINE status == IF req[w].row.status = "draft" THEN "active" ELSE req[w].row.status
               row == [listing[l] EXCEPT !.moderation = "approved", !.status = status]
    <3>1. ChangeListing(l, row)
      BY <2>3 DEF ApproveWrite
    <3>2. status \in ListingStatus /\ (status = req[w].row.status \/ req[w].row.status = "draft")
      BY <1>2 DEF ListingRow, ListingStatus
    <3> HIDE DEF status
    <3>3. row \in ListingRow /\ row.status = status
      BY <1>2, <3>2 DEF ListingRow
    <3> HIDE DEF row
    <3> QED BY <3>1, <3>2, <3>3
  <2> QED BY <1>1, <2>1, <2>2, <2>3
<1>4. \/ req[w].row.status = listing[l].status
      \/ listing[l].status = "removed"
  BY <1>2 DEF CopySafe
<1>5. row.status = listing[l].status \/ listing[l].status \notin {"reserved", "sold"}
  BY <1>3, <1>4
<1>6. /\ UNCHANGED <<order, hold>>
      /\ \A m \in Listings : listing'[m].status = IF m = l THEN row.status ELSE listing[m].status
  BY <1>3 DEF ChangeListing, escrowVars, TypeInv, SaleTypes
<1> QED
  BY <1>5, <1>6, ListingMoves

LEMMA OrderChangeKeeps ==
    ASSUME TypeInv, PartInv, NEW o \in Orders, OrderChange(o)
    PROVE  PartInv'
<1>1. /\ order \in [Orders -> OrderStatus \cup {"none"}] /\ hold \in [Orders -> HoldStatus]
      /\ listing \in [Listings -> ListingRow] /\ ListingOf[o] \in Listings
  BY OwnerListed DEF TypeInv, SaleTypes, EscrowTypeOK
<1>2. ASSUME listing[ListingOf[o]].status = "active"
      PROVE  \A p \in Orders : ListingOf[p] = ListingOf[o] => ~Owns(p)
  BY <1>2 DEF PartInv, Owns
<1>3. ASSUME order[o] = "pending_payment"
      PROVE  \A p \in Orders \ {o} : ListingOf[p] = ListingOf[o] => ~Owns(p)
  BY <1>3 DEF PartInv, OneOwner, Owns
<1>4. ASSUME NEW sale, listing' = [listing EXCEPT ![ListingOf[o]].status = sale]
      PROVE  \A l \in Listings : listing'[l].status = IF l = ListingOf[o] THEN sale
                                                                         ELSE listing[l].status
  BY <1>1, <1>4 DEF ListingRow
<1>5. CASE (order[o] = "pending_payment" \/ CanReactivate(o)) /\ Pay(o)
  <2>1. \A p \in Orders \ {o} : ListingOf[p] = ListingOf[o] => ~Owns(p)
    BY <1>2, <1>3, <1>5 DEF CanReactivate
  <2>2. Only(o) /\ order'[o] = "paid_held"
    BY <1>1, <1>5 DEF Pay, TakeCustody, Only
  <2>3. \A l \in Listings : listing'[l].status = IF l = ListingOf[o] THEN "sold"
                                                                     ELSE listing[l].status
    BY <1>4, <1>5 DEF Pay
  <2> QED BY <2>1, <2>2, <2>3, OwnerMoves
<1>6. CASE order[o] = "pending_payment" /\ Cancel(o)
  <2>1. Only(o) /\ order'[o] = "cancelled" /\ ~Bought(o)'
    BY <1>1, <1>6 DEF Cancel, escrowVars, Only, Bought, Unpaid
  <2>2. CASE listing' = [listing EXCEPT ![ListingOf[o]].status = "active"]
    BY <1>3, <1>4, <1>6, <2>1, <2>2, OwnerMoves
  <2>3. CASE listing' = listing
    BY <1>3, <1>6, <2>1, <2>3, OwnerMoves
  <2> QED BY <1>6, <2>2, <2>3 DEF Cancel
<1>7. CASE Reserve(o)
  <2>1. /\ \A p \in Orders \ {o} : ListingOf[p] = ListingOf[o] => ~Owns(p)
        /\ Only(o) /\ order'[o] = "pending_payment" /\ ~Bought(o)'
    BY <1>1, <1>2, <1>7 DEF Reserve, CanBeBought, escrowVars, Only, Bought, Unpaid
  <2>2. \A l \in Listings : listing'[l].status = IF l = ListingOf[o] THEN "reserved"
                                                                     ELSE listing[l].status
    BY <1>4, <1>7 DEF Reserve
  <2> QED BY <2>1, <2>2, OwnerMoves
<1> QED
  BY <1>5, <1>6, <1>7 DEF OrderChange

LEMMA PartInvStep ==
    ASSUME TypeInv, CopySafe, PartInv, [CheckoutNext]_checkoutVars
    PROVE  PartInv'
<1>1. CASE UNCHANGED <<order, listing, escrowVars>>
  BY <1>1 DEF escrowVars, PartInv, OneOwner, Owns, Bought
<1>2. ASSUME NEW l \in Listings, NEW row \in ListingRow, SafeRow(l, row), ChangeListing(l, row)
      PROVE  PartInv'
  <2>1. /\ UNCHANGED <<order, hold>>
        /\ \A m \in Listings : listing'[m].status = IF m = l THEN row.status ELSE listing[m].status
    BY <1>2 DEF ChangeListing, escrowVars, TypeInv, SaleTypes
  <2>2. row.status = listing[l].status \/ listing[l].status \notin {"reserved", "sold"}
    BY <1>2 DEF SafeRow, ForSeller
  <2> QED BY <2>1, <2>2, ListingMoves
<1>3. SafeChange => PartInv'
  BY <1>1, <1>2, OrderChangeKeeps DEF SafeChange, UnchangedSale
<1> QED
  BY <1>1, <1>3, SaleEffects, StaleWriteKeeps DEF checkoutVars

LEMMA RecordStep ==
    ASSUME TypeInv, RecordInv, [CheckoutNext]_checkoutVars
    PROVE  RecordInv'
<1>1. SaleRows
  BY DEF TypeInv, SaleTypes, EscrowTypeOK, SaleRows
<1>2. ASSUME NEW o \in Orders, CheckoutMove(o)
      PROVE  (PaidBothWays /\ HoldIsPaid)'
  BY <1>1, <1>2 DEF CheckoutMove, TakeCustody, escrowVars, SaleRows, RecordInv, PaidBothWays,
     HoldIsPaid, Unpaid
<1>3. ASSUME UNCHANGED <<order, escrowVars>>
      PROVE  (PaidBothWays /\ HoldIsPaid)'
  BY <1>3 DEF escrowVars, RecordInv, PaidBothWays, HoldIsPaid
<1>4. CASE UNCHANGED checkoutVars
  BY <1>4 DEF checkoutVars, escrowVars, RecordInv, PaidBothWays, HoldIsPaid, LockInv
<1>5. CASE CheckoutNext
  BY <1>2, <1>3, <1>5, CheckoutMoves, LockInvStep DEF RecordInv
<1> QED
  BY <1>4, <1>5

\* What one order does to the deals.
LEMMA DealMoves ==
    ASSUME NEW o \in Orders, Only(o)
    PROVE  [p \in Orders |-> DealOf(p)]' = [[p \in Orders |-> DealOf(p)] EXCEPT ![o] = DealOf(o)']
BY DEF Only, DealOf

LEMMA PartIsFree ==
    ASSUME SaleRows, NEW o \in Orders, Only(o), OneOwner', Owns(o)'
    PROVE  Sale!PartFree(o)
<1>1. \A p \in Orders \ {o} : ListingOf[p] = ListingOf[o] => ~Owns(p)
  BY DEF OneOwner, Only, Owns, Bought
<1>2. \A p \in Orders : DealOf(p) \in {"reserved", "bought"} => Owns(p)
  BY DEF DealOf, Owns, Bought, Unpaid
<1> QED
  BY <1>1, <1>2 DEF Sale!PartFree, Sale!HasPart

LEMMA SaleMoves ==
    ASSUME SaleRows, RecordInv, OneOwner', NEW o \in Orders, CheckoutMove(o)
    PROVE  Sale!PartSaleNext
<1> DEFINE deal == [p \in Orders |-> DealOf(p)]
<1>1. Only(o)
  BY DEF SaleRows, CheckoutMove, TakeCustody, escrowVars, Only
<1>2. deal' = [deal EXCEPT ![o] = DealOf(o)'] /\ deal[o] = DealOf(o)
  BY <1>1, DealMoves
<1>3. CASE /\ order[o] \in {"pending_payment", "cancelled"}
           /\ order' = [order EXCEPT ![o] = "paid_held"]
           /\ \E placed \in BOOLEAN : TakeCustody(o, placed)
  <2>1. hold[o] = "none"
    BY <1>3 DEF RecordInv, PaidBothWays, HoldIsPaid, Unpaid
  <2>2. order'[o] = "paid_held" /\ hold'[o] # "refunded_to_buyer"
    BY <1>3, <2>1 DEF SaleRows, TakeCustody
  <2>3. Owns(o)' /\ DealOf(o)' = "bought"
    BY <2>2 DEF Owns, Bought, Unpaid, DealOf
  <2>4. DealOf(o) \in {"reserved", "given_up"}
    BY <1>3 DEF DealOf
  <2>5. Sale!Buy(o)
    BY <1>1, <1>2, <2>3, <2>4, PartIsFree DEF Sale!Buy, Sale!Becomes
  <2> QED BY <2>5 DEF Sale!PartSaleNext
<1>4. CASE /\ order[o] = "pending_payment"
           /\ order' = [order EXCEPT ![o] = "cancelled"]
           /\ UNCHANGED escrowVars
  <2>1. DealOf(o) = "reserved" /\ DealOf(o)' = "given_up"
    BY <1>4 DEF SaleRows, DealOf
  <2>2. Sale!GiveUp(o)
    BY <1>2, <2>1 DEF Sale!GiveUp, Sale!Becomes
  <2> QED BY <2>2 DEF Sale!PartSaleNext
<1>5. CASE /\ order[o] = "none"
           /\ order' = [order EXCEPT ![o] = "pending_payment"]
           /\ UNCHANGED escrowVars
  <2>1. DealOf(o) = "none" /\ DealOf(o)' = "reserved" /\ Owns(o)'
    BY <1>5 DEF SaleRows, DealOf, Owns
  <2>2. Sale!Reserve(o)
    BY <1>1, <1>2, <2>1, PartIsFree DEF Sale!Reserve, Sale!Becomes
  <2> QED BY <2>2 DEF Sale!PartSaleNext
<1> QED
  BY <1>3, <1>4, <1>5 DEF CheckoutMove

LEMMA SaleStays ==
    ASSUME UNCHANGED <<order, escrowVars>>
    PROVE  UNCHANGED Sale!saleVars
BY DEF escrowVars, DealOf, Sale!saleVars

LEMMA CheckoutSells ==
    ASSUME TypeInv, RecordInv, OneOwner', [CheckoutNext]_checkoutVars
    PROVE  [Sale!PartSaleNext]_(Sale!saleVars)
<1>1. SaleRows
  BY DEF TypeInv, SaleTypes, EscrowTypeOK, SaleRows
<1> QED
  BY <1>1, CheckoutMoves, SaleMoves, SaleStays DEF RecordInv, checkoutVars

LEMMA SaleStarts ==
    ASSUME CheckoutInit
    PROVE  CopySafe /\ PartInv /\ RecordInv /\ Sale!PartSaleInit
<1>1. CopySafe
  BY SaleInvInit DEF CopyIsRow, CopySafe
<1>2. \A o \in Orders : order[o] = "none" /\ hold[o] = "none" /\ ~paidAt[o] /\ ~Owns(o)
  BY DEF CheckoutInit, EscrowInit, Owns, Bought, Unpaid
<1>3. PartInv
  BY <1>2 DEF PartInv, OneOwner, Owns
<1>4. RecordInv
  BY <1>2, IdleType DEF CheckoutInit, RecordInv, PaidBothWays, HoldIsPaid, LockInv, Unpaid
<1>5. Sale!PartSaleInit
  BY <1>2 DEF Sale!PartSaleInit, DealOf
<1> QED
  BY <1>1, <1>3, <1>4, <1>5

\* Checkouts, callbacks, receipts, cancellations and sweeps implement PartSale,
\* however they overlap, provided the admin's two requests on a listing overlap
\* no other: every payment, late ones included, finds the part free or its own.
THEOREM CheckoutKeepsSale ==
    ASSUME Exclusive(StaleRows) PROVE CheckoutSpec => ImplementsPartSale
<1>1. TypeInv /\ CopySafe /\ [CheckoutNext]_checkoutVars => CopySafe'
  BY CopySafeStep
<1>2. TypeInv /\ CopySafe /\ PartInv /\ [CheckoutNext]_checkoutVars => PartInv'
  BY PartInvStep
<1>3. TypeInv /\ RecordInv /\ [CheckoutNext]_checkoutVars => RecordInv'
  BY RecordStep
<1>4. TypeInv /\ RecordInv /\ PartInv' /\ [CheckoutNext]_checkoutVars
      => [Sale!PartSaleNext]_(Sale!saleVars)
  BY CheckoutSells DEF PartInv
<1>5. CheckoutInit => CopySafe /\ PartInv /\ RecordInv /\ Sale!PartSaleInit
  BY SaleStarts
<1> QED
  BY <1>1, <1>2, <1>3, <1>4, <1>5, TypesHold, PTL
     DEF CheckoutSpec, ImplementsPartSale, Sale!PartSaleSpec

LEMMA HolderStep ==
    ASSUME Sale!OneHolder, [Sale!PartSaleNext]_(Sale!saleVars)
    PROVE  Sale!OneHolder'
<1> DEFINE deal == [o \in Orders |-> DealOf(o)]
           Has(d) == deal[d] \in {"reserved", "bought"}
<1>1. CASE UNCHANGED Sale!saleVars
  <2>1. deal' = deal
    BY <1>1 DEF Sale!saleVars
  <2> HIDE DEF deal
  <2> QED BY <2>1 DEF Sale!OneHolder, Sale!HasPart, deal
<1>2. ASSUME NEW d \in Orders,
             Sale!Reserve(d) \/ Sale!GiveUp(d) \/ Sale!Buy(d) \/ Sale!Return(d)
      PROVE  Sale!OneHolder'
  <2>1. \A e \in Orders \ {d} : deal'[e] = deal[e]
    BY <1>2 DEF Sale!Reserve, Sale!GiveUp, Sale!Buy, Sale!Return, Sale!Becomes
  <2>2. \/ Has(d)
        \/ ~Has(d)'
        \/ \A e \in Orders \ {d} : ListingOf[e] = ListingOf[d] => ~Has(e)
    BY <1>2 DEF Sale!Reserve, Sale!GiveUp, Sale!Buy, Sale!Return, Sale!Becomes, Sale!PartFree,
       Sale!HasPart
  <2>3. \A e, f \in Orders : ListingOf[e] = ListingOf[f] /\ Has(e) /\ Has(f) => e = f
    BY DEF Sale!OneHolder, Sale!HasPart
  <2>4. \A e \in Orders \ {d} : Has(e)' <=> Has(e)
    BY <2>1
  <2>5. \A e, f \in Orders : ListingOf[e] = ListingOf[f] /\ Has(e)' /\ Has(f)' => e = f
    <3> HIDE DEF Has
    <3> QED BY <2>2, <2>3, <2>4
  <2> QED BY <2>5 DEF Sale!OneHolder, Sale!HasPart
<1> QED
  BY <1>1, <1>2 DEF Sale!PartSaleNext

\* What PartSale promises two buyers of one part.
LEMMA SaleHasOneHolder == ImplementsPartSale => []Sale!OneHolder
<1>1. Sale!PartSaleInit => Sale!OneHolder
  BY DEF Sale!PartSaleInit, Sale!OneHolder, Sale!HasPart
<1> QED
  BY <1>1, HolderStep, PTL DEF ImplementsPartSale, Sale!PartSaleSpec

\* Under the same condition a part is reserved for, or with, one buyer at a time, from
\* the reservation until the buyer has the money back, whatever the order then says.
THEOREM CheckoutHasOneHolder ==
    ASSUME Exclusive(StaleRows) PROVE CheckoutSpec => []Sale!OneHolder
BY CheckoutKeepsSale, SaleHasOneHolder, PTL

-----------------------------------------------------------------------------
(* Which races lose a capture or a confirmation                            *)

\* A handler that saw its order paid will find it paid; none saw no order.
SeenInv ==
    \A w \in Slots, o \in Orders :
        req[w].job \in Lookers /\ req[w].target = o =>
            /\ req[w].seen # "none"
            /\ req[w].seen \notin Unpaid => paidAt[o]

LEMMA PaidAtStays ==
    ASSUME TypeInv, [CheckoutNext]_checkoutVars, NEW p \in Orders, paidAt[p]
    PROVE  paidAt'[p]
<1>1. paidAt \in [Orders -> BOOLEAN]
  BY DEF TypeInv, SaleTypes, EscrowTypeOK
<1> QED
  BY <1>1, PaymentEffects DEF checkoutVars, escrowVars

\* An order with results to call back, or with a receipt, exists.
LEMMA LookersOnChannel ==
    ASSUME ChannelInv, NEW w \in Slots, req[w].job \in Lookers, req[w].target \in Orders
    PROVE  order[req[w].target] # "none"
BY DEF ChannelInv, OneChannel, HandlersOnChannel, Lookers, CallbackJobs, ReceiptJobs

LEMMA SeenInvStep ==
    ASSUME TypeInv, RecordInv, ChannelInv, ChannelInv', SeenInv, [CheckoutNext]_checkoutVars
    PROVE  SeenInv'
<1> SUFFICES ASSUME NEW w \in Slots, NEW o \in Orders, req'[w].job \in Lookers, req'[w].target = o
             PROVE  /\ req'[w].seen # "none"
                    /\ req'[w].seen \notin Unpaid => paidAt'[o]
  BY DEF SeenInv
<1>1. CASE req'[w] = req[w]
  BY <1>1, PaidAtStays DEF SeenInv
<1>2. CASE req'[w] # req[w]
  <2>1. CheckoutNext
    BY <1>2 DEF checkoutVars
  <2>2. req'[w].seen = order[o] /\ UNCHANGED <<order, escrowVars>>
    BY <1>2, <2>1, OrderLooked
  <2>3. order'[o] # "none"
    BY DEF ChannelInv, OneChannel, HandlersOnChannel, Lookers, CallbackJobs, ReceiptJobs
  <2> QED BY <2>2, <2>3 DEF escrowVars, RecordInv, PaidBothWays
<1> QED
  BY <1>1, <1>2

\* mark_paid leaves an order unpaid only if it finds it cancelled.
LEMMA PaidOrCancelled ==
    ASSUME TypeInv, RecordInv, NEW o \in Orders, order[o] # "none", TryPay(o)
    PROVE  paidAt'[o] \/ order[o] = "cancelled"
BY DEF TypeInv, SaleTypes, EscrowTypeOK, RecordInv, PaidBothWays, Unpaid, TryPay, Pay,
   TakeCustody, UnchangedSale, escrowVars

LEMMA CallbackLoses ==
    ASSUME TypeInv, ChannelInv, RecordInv, SeenInv, NEW w \in Slots, NEW o \in Orders,
           CallbackSuccess(w, o), Lost(o)'
    PROVE  order[o] = "cancelled" /\ req[w].seen = "pending_payment"
<1>1. /\ req[w].job \in Lookers /\ req[w].target = o
      /\ flagged \in [Orders -> BOOLEAN]
  BY DEF CallbackSuccess, Lookers, TypeInv, PaymentTypes
<1>2. order[o] # "none"
  BY <1>1, LookersOnChannel
<1>3. req[w].seen # "none" /\ (req[w].seen \notin Unpaid => paidAt[o])
  BY <1>1 DEF SeenInv
<1>4. ~paidAt'[o] /\ ~flagged'[o]
  BY DEF Lost
<1>5. CASE req[w].seen = "pending_payment"
  BY <1>2, <1>4, <1>5, PaidOrCancelled DEF CallbackSuccess
<1>6. CASE req[w].seen = "cancelled"
  BY <1>1, <1>4, <1>6 DEF CallbackSuccess, RaiseEvent
<1>7. CASE req[w].seen \notin {"pending_payment", "cancelled"}
  BY <1>3, <1>4, <1>7 DEF CallbackSuccess, UnchangedSale, escrowVars, Unpaid
<1> QED
  BY <1>5, <1>6, <1>7

LEMMA ConfirmationUnfunded ==
    ASSUME TypeInv, ChannelInv, RecordInv, SeenInv, NEW w \in Slots, NEW o \in Orders,
           ConfirmCommit(w, o), ~paidAt'[o]
    PROVE  order[o] = "cancelled" /\ req[w].seen = "pending_payment"
<1>1. req[w].job \in Lookers /\ req[w].target = o
  BY DEF ConfirmCommit, Lookers
<1>2. order[o] # "none"
  BY <1>1, LookersOnChannel
<1>3. req[w].seen # "none" /\ (req[w].seen \notin Unpaid => paidAt[o])
  BY <1>1 DEF SeenInv
<1>4. req[w].seen # "cancelled" /\ TryPay(o)
  BY DEF ConfirmCommit, Pay, TakeCustody, TypeInv, SaleTypes, EscrowTypeOK
<1>5. order[o] = "cancelled" /\ ~paidAt[o]
  BY <1>2, <1>4, PaidOrCancelled DEF TryPay, UnchangedSale, escrowVars
<1> QED
  BY <1>3, <1>4, <1>5 DEF Unpaid

\* The only steps that answer Paymob, or confirm a receipt.
LEMMA AccountEffects ==
    ASSUME TypeInv, CheckoutNext, NEW p \in Orders
    PROVE  /\ \/ answered'[p] = answered[p]
              \/ \E w \in Web : CallbackSuccess(w, p)
           /\ \/ receipt'[p].status = "confirmed" => receipt[p].status = "confirmed"
              \/ \E w \in Web : ConfirmCommit(w, p)
           /\ flagged[p] => flagged'[p]
<1> USE DEF Slots
<1> DEFINE Account ==
              /\ \/ answered'[p] = answered[p]
                 \/ \E w \in Web : CallbackSuccess(w, p)
              /\ \/ receipt'[p].status = "confirmed" => receipt[p].status = "confirmed"
                 \/ \E w \in Web : ConfirmCommit(w, p)
              /\ flagged[p] => flagged'[p]
<1>1. /\ receipt \in [Orders -> ReceiptRow]
      /\ answered \in [Orders -> BOOLEAN]
      /\ flagged \in [Orders -> BOOLEAN]
  BY DEF TypeInv, PaymentTypes
<1>2. ASSUME UNCHANGED <<receipt, answered, flagged>>
      PROVE  Account
  BY <1>2
<1>3. ASSUME NEW o \in Orders,
             \/ CheckoutPaymob(o) \/ PaymobCreated(o) \/ PaymobUnavailable(o)
             \/ CheckoutDied(o) \/ CheckoutManual(o) \/ PaymentAttempt(o)
      PROVE  Account
  BY <1>1, <1>3 DEF CheckoutPaymob, PaymobCreated, PaymobUnavailable, CheckoutDied,
     CheckoutManual, PaymentAttempt, UnchangedPayment, ReceiptRow
<1>4. ASSUME NEW l \in Listings,
             \/ Withdraw(l) \/ SellerEdit(l) \/ Moderate(l)
             \/ \E w \in Web : ListingRead(w, l) \/ ApproveWrite(w, l) \/ AdminEditWrite(w, l)
      PROVE  Account
  BY <1>2, <1>4 DEF Withdraw, SellerEdit, Moderate, ListingRead, ApproveWrite, AdminEditWrite,
     ChangeListing, UnchangedPayment
<1>5. ASSUME NEW w \in Slots, NEW o \in Orders,
             \/ CallbackRead(w, o) \/ CancelRead(w, o) \/ UploadRead(w, o) \/ ReviewRead(w, o)
             \/ ExpireRead(w, o) \/ CallbackFailure(w, o) \/ CancelWrite(w, o)
             \/ ReviewRefused(w, o) \/ ConfirmLock(w, o) \/ ConfirmRolledBack(w, o)
      PROVE  Account
  BY <1>2, <1>5 DEF CallbackRead, CancelRead, UploadRead, ReviewRead, ExpireRead,
     CallbackFailure, CancelWrite, ReviewRefused, ConfirmLock, ConfirmRolledBack, UnchangedPayment
<1>6. ASSUME NEW w \in Slots, NEW o \in Orders,
             CancelReceipts(w, o) \/ UploadWrite(w, o) \/ RejectWrite(w, o)
      PROVE  Account
  BY <1>1, <1>6 DEF CancelReceipts, UploadWrite, RejectWrite, UnchangedPayment, ReceiptRow
<1>7. ASSUME NEW w \in Web, NEW o \in Orders, CallbackSuccess(w, o)
      PROVE  Account
  BY <1>1, <1>7 DEF CallbackSuccess, RaiseEvent
<1>8. ASSUME NEW w \in Web, NEW o \in Orders, ConfirmCommit(w, o)
      PROVE  Account
  BY <1>1, <1>8 DEF ConfirmCommit, UnchangedPayment, ReceiptRow
<1>9. ASSUME NEW w \in Slots, Crash(w)
      PROVE  Account
  BY <1>2, <1>9 DEF Crash, UnchangedPayment
<1> HIDE DEF Account
<1>10. Account
  BY <1>3, <1>4, <1>5, <1>6, <1>7, <1>8, <1>9 DEF CheckoutNext, WebStep, SweepStep
<1> QED
  BY <1>10 DEF Account

\* Only an admin's rejection, or a new checkout of the order, takes a confirmation back.
LEMMA ConfirmedEffects ==
    ASSUME TypeInv, CheckoutNext, NEW p \in Orders, receipt[p].status = "confirmed"
    PROVE  \/ receipt'[p].status = "confirmed"
           \/ CheckoutManual(p)
           \/ \E w \in Web : RejectWrite(w, p)
<1> USE DEF Slots
<1> DEFINE Kept == \/ receipt'[p].status = "confirmed"
                   \/ CheckoutManual(p)
                   \/ \E w \in Web : RejectWrite(w, p)
<1>1. receipt \in [Orders -> ReceiptRow]
  BY DEF TypeInv, PaymentTypes
<1>2. ASSUME UNCHANGED receipt
      PROVE  Kept
  BY <1>2
<1>3. ASSUME NEW o \in Orders,
             \/ CheckoutPaymob(o) \/ PaymobCreated(o) \/ PaymobUnavailable(o)
             \/ CheckoutDied(o) \/ PaymentAttempt(o)
             \/ \E w \in Slots :
                   \/ CallbackRead(w, o) \/ CancelRead(w, o) \/ UploadRead(w, o)
                   \/ ReviewRead(w, o) \/ ExpireRead(w, o) \/ CallbackSuccess(w, o)
                   \/ CallbackFailure(w, o) \/ CancelWrite(w, o) \/ ReviewRefused(w, o)
                   \/ ConfirmLock(w, o) \/ ConfirmRolledBack(w, o)
      PROVE  UNCHANGED receipt
  BY <1>3 DEF CheckoutPaymob, PaymobCreated, PaymobUnavailable, CheckoutDied, PaymentAttempt,
     CallbackRead, CancelRead, UploadRead, ReviewRead, ExpireRead, CallbackSuccess,
     CallbackFailure, CancelWrite, ReviewRefused, ConfirmLock, ConfirmRolledBack
<1>4. ASSUME NEW l \in Listings,
             \/ Withdraw(l) \/ SellerEdit(l) \/ Moderate(l)
             \/ \E w \in Web : ListingRead(w, l) \/ ApproveWrite(w, l) \/ AdminEditWrite(w, l)
      PROVE  UNCHANGED receipt
  BY <1>4 DEF Withdraw, SellerEdit, Moderate, ListingRead, ApproveWrite, AdminEditWrite,
     ChangeListing
<1>5. ASSUME NEW w \in Slots, NEW o \in Orders, CancelReceipts(w, o) \/ UploadWrite(w, o)
      PROVE  Kept
  BY <1>1, <1>5 DEF CancelReceipts, UploadWrite, ReceiptRow
<1>6. ASSUME NEW w \in Slots, NEW o \in Orders, ConfirmCommit(w, o)
      PROVE  Kept
  BY <1>1, <1>6 DEF ConfirmCommit, ReceiptRow
<1>7. ASSUME NEW w \in Web, NEW o \in Orders, RejectWrite(w, o)
      PROVE  Kept
  BY <1>1, <1>7 DEF RejectWrite
<1>8. ASSUME NEW o \in Orders, CheckoutManual(o)
      PROVE  Kept
  BY <1>1, <1>8 DEF CheckoutManual
<1>9. ASSUME NEW w \in Slots, Crash(w)
      PROVE  UNCHANGED receipt
  BY <1>9 DEF Crash
<1> HIDE DEF Kept
<1>10. Kept
  BY <1>2, <1>3, <1>4, <1>5, <1>6, <1>7, <1>8, <1>9 DEF CheckoutNext, WebStep, SweepStep
<1> QED
  BY <1>10 DEF Kept

\* What one step of the checkout may do to a capture, and to a receipt.
CaptureRule(o) ==
    ~Lost(o) /\ Lost(o)' =>
        /\ order[o] = "cancelled"
        /\ \E w \in Web : /\ req[w].job = "callback_success" /\ req[w].target = o
                        /\ req[w].seen = "pending_payment"

ReceiptRule(o) ==
    /\ ~Unfunded(o) /\ Unfunded(o)' =>
          /\ order[o] = "cancelled"
          /\ \E w \in Web : /\ req[w].job = "confirm_locked" /\ req[w].target = o
                          /\ req[w].seen = "pending_payment"
    /\ receipt[o].status = "confirmed" /\ receipt'[o].status # "confirmed" =>
          /\ \E w \in Web : /\ req[w].job = "reject" /\ req[w].target = o
                          /\ req[w].seen # "confirmed"
          /\ paidAt[o] => order'[o] = order[o]

LEMMA CaptureStep ==
    ASSUME TypeInv, ChannelInv, RecordInv, SeenInv, CheckoutNext, NEW o \in Orders
    PROVE  CaptureRule(o)
<1> SUFFICES ASSUME ~Lost(o), Lost(o)'
             PROVE  /\ order[o] = "cancelled"
                    /\ \E w \in Web : /\ req[w].job = "callback_success" /\ req[w].target = o
                                    /\ req[w].seen = "pending_payment"
  BY DEF CaptureRule
<1>1. ~paidAt[o] /\ ~flagged[o]
  BY PaidAtStays, AccountEffects DEF Lost
<1>2. PICK w \in Web : CallbackSuccess(w, o)
  BY <1>1, AccountEffects DEF Lost
<1>3. order[o] = "cancelled" /\ req[w].seen = "pending_payment"
  BY <1>2, CallbackLoses DEF Slots
<1> QED
  BY <1>2, <1>3 DEF CallbackSuccess

LEMMA ReceiptStep ==
    ASSUME TypeInv, ChannelInv, RecordInv, SeenInv, CheckoutNext, NEW o \in Orders
    PROVE  ReceiptRule(o)
<1>1. ASSUME ~Unfunded(o), Unfunded(o)'
      PROVE  /\ order[o] = "cancelled"
             /\ \E w \in Web : /\ req[w].job = "confirm_locked" /\ req[w].target = o
                             /\ req[w].seen = "pending_payment"
  <2>1. ~paidAt[o] /\ ~paidAt'[o]
    BY <1>1, PaidAtStays DEF Unfunded
  <2>2. PICK w \in Web : ConfirmCommit(w, o)
    BY <1>1, <2>1, AccountEffects DEF Unfunded
  <2>3. order[o] = "cancelled" /\ req[w].seen = "pending_payment"
    BY <2>1, <2>2, ConfirmationUnfunded DEF Slots
  <2> QED BY <2>2, <2>3 DEF ConfirmCommit
<1>2. ASSUME receipt[o].status = "confirmed", receipt'[o].status # "confirmed"
      PROVE  /\ \E w \in Web : /\ req[w].job = "reject" /\ req[w].target = o
                             /\ req[w].seen # "confirmed"
             /\ paidAt[o] => order'[o] = order[o]
  <2>1. ~CheckoutManual(o)
    BY <1>2 DEF CheckoutManual, Reserve, ChannelInv, OneChannel
  <2>2. PICK w \in Web : RejectWrite(w, o)
    BY <1>2, <2>1, ConfirmedEffects
  <2>3. paidAt[o] => order'[o] = order[o]
    BY <2>2 DEF RejectWrite, TryCancel, UnchangedSale, RecordInv, PaidBothWays, Unpaid
  <2> QED BY <2>2, <2>3 DEF RejectWrite, MayDecide
<1> QED
  BY <1>1, <1>2 DEF ReceiptRule

LEMMA RulesHold ==
    ASSUME TypeInv, ChannelInv, RecordInv, SeenInv, [CheckoutNext]_checkoutVars
    PROVE  [\A o \in Orders : CaptureRule(o) /\ ReceiptRule(o)]_checkoutVars
BY CaptureStep, ReceiptStep

LEMMA SeenHolds == CheckoutSpec => [](RecordInv /\ SeenInv)
<1>1. TypeInv /\ RecordInv /\ [CheckoutNext]_checkoutVars => RecordInv'
  BY RecordStep
<1>2. TypeInv /\ RecordInv /\ ChannelInv /\ ChannelInv' /\ SeenInv /\ [CheckoutNext]_checkoutVars
      => SeenInv'
  BY SeenInvStep
<1>3. CheckoutInit => RecordInv /\ SeenInv
  BY SaleStarts, IdleType DEF CheckoutInit, SeenInv, Lookers
<1> QED
  BY <1>1, <1>2, <1>3, TypesHold, ChannelHolds, PTL DEF CheckoutSpec

LEMMA RulesAlways ==
    CheckoutSpec => [][\A o \in Orders : CaptureRule(o) /\ ReceiptRule(o)]_checkoutVars
<1> DEFINE Rules == \A o \in Orders : CaptureRule(o) /\ ReceiptRule(o)
<1>1. TypeInv /\ ChannelInv /\ RecordInv /\ SeenInv /\ [CheckoutNext]_checkoutVars
      => [Rules]_checkoutVars
  BY RulesHold
<1> HIDE DEF Rules
<1>2. CheckoutSpec => [][Rules]_checkoutVars
  BY <1>1, SeenHolds, TypesHold, ChannelHolds, PTL DEF CheckoutSpec
<1> QED
  BY <1>2 DEF Rules

\* However callbacks, cancellations, sweeps, receipts and deaths interleave, one race
\* alone loses a capture: an order cancelled between the success callback's look at
\* its status and the lock mark_paid takes.
THEOREM CapturesLostToOneRace == CheckoutSpec => CaptureLostOnlyToCancellation
<1> DEFINE Rules == \A o \in Orders : CaptureRule(o) /\ ReceiptRule(o)
           Capture == \A o \in Orders :
              ~Lost(o) /\ Lost(o)' =>
                  /\ order[o] = "cancelled"
                  /\ \E w \in Web : /\ req[w].job = "callback_success" /\ req[w].target = o
                                  /\ req[w].seen = "pending_payment"
<1>1. [Rules]_checkoutVars => [Capture]_checkoutVars
  BY DEF CaptureRule
<1>2. CheckoutSpec => [][Rules]_checkoutVars
  BY RulesAlways
<1> HIDE DEF Rules, Capture
<1>3. CheckoutSpec => [][Capture]_checkoutVars
  BY <1>1, <1>2, PTL
<1> QED
  BY <1>3 DEF Capture, CaptureLostOnlyToCancellation

\* Two races alone break what is said of a receipt: it is confirmed without a payment
\* only if its order was cancelled under the confirmation, and its confirmation is
\* taken back only by a rejection that fetched it before, which drops no payment.
THEOREM ReceiptsFailToTwoRaces == CheckoutSpec => ReceiptsFailOnlyByRaces
<1> DEFINE Rules == \A o \in Orders : CaptureRule(o) /\ ReceiptRule(o)
           Receipts == \A o \in Orders :
              /\ ~Unfunded(o) /\ Unfunded(o)' =>
                    /\ order[o] = "cancelled"
                    /\ \E w \in Web : /\ req[w].job = "confirm_locked" /\ req[w].target = o
                                    /\ req[w].seen = "pending_payment"
              /\ receipt[o].status = "confirmed" /\ receipt'[o].status # "confirmed" =>
                    /\ \E w \in Web : /\ req[w].job = "reject" /\ req[w].target = o
                                    /\ req[w].seen # "confirmed"
                    /\ paidAt[o] => order'[o] = order[o]
<1>1. [Rules]_checkoutVars => [Receipts]_checkoutVars
  BY DEF ReceiptRule
<1>2. CheckoutSpec => [][Rules]_checkoutVars
  BY RulesAlways
<1> HIDE DEF Rules, Receipts
<1>3. CheckoutSpec => [][Receipts]_checkoutVars
  BY <1>1, <1>2, PTL
<1> QED
  BY <1>3 DEF Receipts, ReceiptsFailOnlyByRaces
===============================================================================
