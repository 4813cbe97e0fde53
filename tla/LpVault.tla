------------------------------ MODULE LpVault ------------------------------
(***************************************************************************)
(* What the pool promises the holders of its LP token.  The vault holds    *)
(* assets against shares.  Shares are bought and redeemed at a price that  *)
(* never hurts the remaining holders.  In between the vault may lend its   *)
(* assets out as deposits that it does not count as assets, but the two    *)
(* together never shrink.                                                  *)
(***************************************************************************)
EXTENDS Integers

VARIABLES assets, shares, deposits

vars == <<assets, shares, deposits>>

(* Assets per share, compared without division.                            *)
PriceKept == assets' * shares >= assets * shares'

Init == assets = 0 /\ shares = 0 /\ deposits = 0

(* The first holder of an empty vault gets one share per lamport.          *)
Mint ==
    /\ assets' \in Nat /\ shares' \in Nat
    /\ assets' >= assets /\ shares' > shares
    /\ IF shares = 0 THEN shares' = assets' ELSE PriceKept
    /\ UNCHANGED deposits

Burn ==
    /\ assets' \in Nat /\ shares' \in Nat
    /\ assets' <= assets /\ shares' < shares
    /\ PriceKept
    /\ UNCHANGED deposits

Earn ==
    /\ assets' \in Nat /\ deposits' \in Nat
    /\ assets' + deposits' >= assets + deposits
    /\ UNCHANGED shares

Next == Mint \/ Burn \/ Earn

Spec == Init /\ [][Next]_vars

=============================================================================
