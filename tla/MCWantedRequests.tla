--------------------------- MODULE MCWantedRequests ---------------------------
(***************************************************************************)
(* Instances of WantedRequests for TLC: one request, two sellers, and two  *)
(* checkouts of the private listing of the first.                          *)
(***************************************************************************)
EXTENDS WantedRequests, TLC

CONSTANTS r1, f1, f2, o1, o2

MCRequestOf == [f \in Offers |-> r1]
MCOfferOf == [o \in Orders |-> f1]
=============================================================================
