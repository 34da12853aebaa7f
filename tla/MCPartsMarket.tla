---------------------------- MODULE MCPartsMarket ----------------------------
(***************************************************************************)
(* Instances of PartsMarket for TLC: one order, so that every handler that *)
(* can work on it at the same time does, paid by a confirmed receipt.      *)
(***************************************************************************)
EXTENDS PartsMarket, TLC

CONSTANTS o1, l1, t1, t2

MCListingOf == [o \in Orders |-> l1]
MCAmountPaid == [o \in Orders |-> 3]
MCCommissionAmount == [o \in Orders |-> 1]

Symmetry == Permutations(Tickets) \cup Permutations(Desk)

DisputeJobs == {"dispute", "dispute_checked", "cancel_dispute"}

\* The order is paid, then everything that may happen to a paid order.
PaidTraffic == {"checkout_manual", "confirm"} \cup MarketJobs
FullTraffic == CheckoutJobs \cup AtomicJobs \cup MarketJobs
SplitAmountPaid == [o \in Orders |-> 25]
SplitCommissionAmount == [o \in Orders |-> 2]
NoDisputes == PaidTraffic \ DisputeJobs
=============================================================================
