----------------------------- MODULE MCPreviews -----------------------------
(* Instances of Previews for TLC: pools without a protocol fee.            *)
EXTENDS Previews, TLC

Ratio(n, d) == [num |-> n, denom |-> d]

MCSchedules == {LiquidityLinear(Ratio(1, 4), Ratio(3, 5))}

MCNoProtocolFee == {[fee_ratio |-> Ratio(0, 1), referrer_fee_ratio |-> Ratio(0, 1),
                     destination |-> CHOOSE u \in Users : TRUE]}

Asked(ix, to) == [instruction |-> ix, destination |-> to]

(* To the unstaker by default, and to a wSOL account by name.              *)
MCRequests == {Asked("unstake", Unnamed), Asked("unstake_wsol", "wsol_ata")}

MCUnnamedWsol == {Asked("unstake_wsol", Unnamed)}

MCSymmetry == Permutations(Stakes)

=============================================================================
