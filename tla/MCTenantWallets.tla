---------------------------- MODULE MCTenantWallets ----------------------------
(***************************************************************************)
(* Instances of TenantWallets for TLC: one buyer with one or two bids, and *)
(* a small and a large deposit.                                            *)
(***************************************************************************)
EXTENDS TenantWallets, TLC

CONSTANTS buyer, d1, d2

MCBuyerOf == [x \in Bids |-> buyer]
MCFeeOf == [p \in Prices |-> p \div 2]
MCDepositOf == (d1 :> [client |-> buyer, amount |-> 2, review |-> FALSE])
            @@ (d2 :> [client |-> buyer, amount |-> 1, review |-> TRUE])
=============================================================================
