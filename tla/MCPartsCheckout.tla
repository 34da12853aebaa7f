--------------------------- MODULE MCPartsCheckout ---------------------------
(***************************************************************************)
(* Instances of PartsCheckout for TLC: two orders compete for one listing. *)
(***************************************************************************)
EXTENDS PartsCheckout, TLC

CONSTANTS o1, o2, l1

MCListingOf == [o \in Orders |-> l1]
MCAmountPaid == [o \in Orders |-> 25]
MCCommissionAmount == [o \in Orders |-> 2]

Symmetry == Permutations({o1, o2})

AllTraffic == CheckoutJobs \cup AtomicJobs

\* Everything but the two admin requests that write back a stale listing row.
CustomerTraffic == AllTraffic \ {"approve", "admin_edit"}
=============================================================================
