------------------------------ MODULE PartSale ------------------------------
(***************************************************************************)
(* What the parts marketplace promises of a sale, for every part and all   *)
(* purchases of it that are attempted: at most one of them at a time has   *)
(* the part, one that was paid ends only with the buyer's money given      *)
(* back, and one that was given up becomes a purchase after all only if    *)
(* nobody else has the part by then.  Nothing here says how orders,        *)
(* listings, receipts and callbacks bring that about; PartsCheckout and    *)
(* PartsMarket are shown to implement this module.                         *)
(***************************************************************************)

CONSTANTS
    Deals,   \* the purchases that may be attempted
    PartOf   \* the part each of them is about

VARIABLE deal   \* what became of each purchase

saleVars == <<deal>>

DealStates == {"none", "reserved", "given_up", "bought", "returned"}

PartSaleTypeOK == deal \in [Deals -> DealStates]

HasPart(d) == deal[d] \in {"reserved", "bought"}

PartFree(d) == \A e \in Deals \ {d} : PartOf[e] = PartOf[d] => ~HasPart(e)

Becomes(d, state) == deal' = [deal EXCEPT ![d] = state]

Reserve(d) ==
    /\ deal[d] = "none"
    /\ PartFree(d)
    /\ Becomes(d, "reserved")

GiveUp(d) == deal[d] = "reserved" /\ Becomes(d, "given_up")

Buy(d) ==
    /\ \/ deal[d] = "reserved"
       \/ deal[d] = "given_up" /\ PartFree(d)
    /\ Becomes(d, "bought")

Return(d) == deal[d] = "bought" /\ Becomes(d, "returned")

PartSaleInit == deal = [d \in Deals |-> "none"]

PartSaleNext == \E d \in Deals : Reserve(d) \/ GiveUp(d) \/ Buy(d) \/ Return(d)

PartSaleSpec == PartSaleInit /\ [][PartSaleNext]_saleVars

\* What this amounts to for two buyers of one part.
OneHolder == \A d, e \in Deals : PartOf[d] = PartOf[e] /\ HasPart(d) /\ HasPart(e) => d = e
=============================================================================
