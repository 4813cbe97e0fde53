--------------------------- MODULE MCUnstakePool ---------------------------
(* Instances of UnstakePool for TLC.                                       *)
EXTENDS UnstakePool, TLC

Ratio(n, d) == [num |-> n, denom |-> d]

MCProtocolFee(n, d, rn, rd, to) ==
    [fee_ratio |-> Ratio(n, d), referrer_fee_ratio |-> Ratio(rn, rd),
     destination |-> to]

(* A flat fee of 10%, the linear schedule from 0% to 50%, and a ratio      *)
(* above one that validate refuses.                                        *)
MCFees == {Flat(Ratio(1, 10)),
           LiquidityLinear(Ratio(0, 1), Ratio(1, 2)),
           Flat(Ratio(3, 2))}

(* Half of the fee goes to the protocol, half of that to the referrer; or  *)
(* everything, with the reserves themselves as the destination.            *)
MCProtocolFees ==
    {MCProtocolFee(1, 2, 1, 2, CHOOSE u \in Users : TRUE),
     MCProtocolFee(1, 1, 0, 1, Pool)}

MCSymmetry == Permutations(Stakes)

=============================================================================
