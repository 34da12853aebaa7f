------------------------------- MODULE Custody -------------------------------
(***************************************************************************)
(* What the escrow of the parts marketplace promises, for every order: the *)
(* buyer's money enters custody once, leaves it by exactly one settlement, *)
(* and is then transferred, at most once each, to the parties that         *)
(* settlement entitles.  Nothing here says how the platform keeps its      *)
(* rows; Escrow is shown to implement this module.                         *)
(***************************************************************************)

CONSTANT Orders

VARIABLES
    custody,     \* where the buyer's money for an order is
    transferred  \* which transfers have been sent for an order

custodyVars == <<custody, transferred>>

Settlements == {"released_to_seller", "refunded_to_buyer", "split"}

CustodyStates == {"unpaid", "held"} \cup Settlements

Transfers == {"seller_payout", "buyer_refund"}

\* The transfers a settlement may give rise to.
Entitled(settlement) ==
    {t \in Transfers :
        \/ settlement = "split"
        \/ settlement = "released_to_seller" /\ t = "seller_payout"
        \/ settlement = "refunded_to_buyer" /\ t = "buyer_refund"}

CustodyTypeOK ==
    /\ custody \in [Orders -> CustodyStates]
    /\ transferred \in [Orders -> SUBSET Transfers]

CustodyInit ==
    /\ custody = [o \in Orders |-> "unpaid"]
    /\ transferred = [o \in Orders |-> {}]

TakeIn(o) ==
    /\ custody[o] = "unpaid"
    /\ custody' = [custody EXCEPT ![o] = "held"]
    /\ UNCHANGED transferred

Settle(o) ==
    /\ custody[o] = "held"
    /\ \E s \in Settlements : custody' = [custody EXCEPT ![o] = s]
    /\ UNCHANGED transferred

Transfer(o) ==
    /\ custody[o] \in Settlements
    /\ \E t \in Entitled(custody[o]) \ transferred[o] :
          transferred' = [transferred EXCEPT ![o] = @ \cup {t}]
    /\ UNCHANGED custody

CustodyNext == \E o \in Orders : TakeIn(o) \/ Settle(o) \/ Transfer(o)

CustodySpec == CustodyInit /\ [][CustodyNext]_custodyVars
=============================================================================
