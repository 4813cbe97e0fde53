--------------------------- MODULE MCFeeSchedule ---------------------------
(* Instances of FeeSchedule for TLC: pools without a protocol fee.         *)
EXTENDS FeeSchedule, TLC

Ratio(n, d) == [num |-> n, denom |-> d]

(* A flat fee, and linear schedules over a wide and a narrow range.        *)
MCSchedules == {Flat(Ratio(1, 3)),
                LiquidityLinear(Ratio(0, 1), Ratio(1, 1)),
                LiquidityLinear(Ratio(1, 4), Ratio(3, 5))}

(* The narrowest range validate accepts.                                   *)
MCConstantSchedule == {LiquidityLinear(Ratio(1, 4), Ratio(1, 4))}

MCNoProtocolFee == {[fee_ratio |-> Ratio(0, 1), referrer_fee_ratio |-> Ratio(0, 1),
                     destination |-> CHOOSE u \in Users : TRUE]}

MCSymmetry == Permutations(Stakes)

=============================================================================
