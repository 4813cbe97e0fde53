---------------------------- MODULE MCFlashLoan ----------------------------
(* Instances of FlashLoan for TLC.                                         *)
EXTENDS FlashLoan, TLC

Ratio(n, d) == [num |-> n, denom |-> d]

MCFees == {LiquidityLinear(Ratio(0, 1), Ratio(1, 2))}

MCProtocolFees ==
    {[fee_ratio |-> Ratio(1, 2), referrer_fee_ratio |-> Ratio(1, 2),
      destination |-> CHOOSE u \in Users : TRUE]}

(* A loan fee of one half, and a ratio without a denominator.              *)
MCLoanFees == {Ratio(1, 2), Ratio(1, 0)}

=============================================================================
