--------------------------- MODULE MCUnstakeReport ---------------------------
(* Instances of UnstakeReport for TLC: a flat fee of 30%, half of which    *)
(* goes to the protocol.                                                   *)
EXTENDS UnstakeReport

Ratio(n, d) == [num |-> n, denom |-> d]

MCFees == {Flat(Ratio(3, 10))}

MCProtocolFees ==
    {[fee_ratio |-> Ratio(1, 2), referrer_fee_ratio |-> Ratio(1, 2),
      destination |-> CHOOSE u \in Users : TRUE]}

=============================================================================
