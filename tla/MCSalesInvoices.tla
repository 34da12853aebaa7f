--------------------------- MODULE MCSalesInvoices ---------------------------
(***************************************************************************)
(* Instances of SalesInvoices for TLC.                                     *)
(***************************************************************************)
EXTENDS SalesInvoices, TLC

Symmetry == Permutations(Returns) \cup Permutations(Clerks)

AllTraffic == {"sell", "quote", "correct", "pay", "collect", "void", "write_off",
               "return", "draft", "edit", "delete"}

\* Sales, payments and returns, one at a time.
CounterTraffic == {"sell", "pay", "return"}
=============================================================================
