--------------------------- MODULE MCSubscriptions ---------------------------
(***************************************************************************)
(* Instances of Subscriptions for TLC: a few days around the end of one    *)
(* subscription, with periods of days instead of months.                   *)
(***************************************************************************)
EXTENDS Subscriptions, TLC

Symmetry == Permutations(Workers)
=============================================================================
