----------------------------- MODULE MCCommands -----------------------------
(* Instances of Commands for TLC.  U64Max is 1023, so that 10^places fits  *)
(* for places up to 3, as it does for up to 19 in a u64.                   *)
EXTENDS Commands, TLC

Dec(n, places) == [digits |-> n, places |-> places]

MCFlatFile(n, places) == [kind |-> "Flat", ratio |-> Dec(n, places)]

MCLinearFile(max, zero) ==
    [kind |-> "LiquidityLinear", max_liq_remaining |-> max, zero_liq_remaining |-> zero]

(* 0.003 to 0.03 (the example of the help text), the range                 *)
(* reversed, a number with as many places as fit, a negative fee, a fee    *)
(* above one, and digits that do not fit.                                  *)
MCFiles ==
    {MCLinearFile(Dec(3, 3), Dec(3, 2)), MCLinearFile(Dec(3, 2), Dec(3, 3)),
     MCFlatFile(333, 3), MCFlatFile(-1, 1), MCFlatFile(2, 0), MCFlatFile(1025, 3)}

Ratio(n, d) == [num |-> n, denom |-> d]

(* The fees of files, and one of none.                                     *)
MCStrangersFee == Flat(Ratio(1, 3))

MCFees == {MCStrangersFee} \cup UNION {ConvertFee(file) : file \in Files}

MCFlashFees == {Ratio(1, 1000)}

MCTermsOf(by, n) ==
    [destination |-> Keyless, authority |-> by,
     fee_ratio |-> Ratio(n, 10), referrer_fee_ratio |-> Ratio(1, 2)]

MCDefault == MCTermsOf(CHOOSE w \in Wallets \ Operators : TRUE, 1)

(* The protocol fee handed over, and a ratio that validate refuses.        *)
MCTerms == {MCTermsOf(by, 1) : by \in Addresses} \cup {MCTermsOf(Keyless, 11)}

MCSymmetry ==
    Permutations(Operators) \cup Permutations(Pools) \cup Permutations(Mints)

(* Each transaction is wrong in at most one respect: an account that does  *)
(* not fit the others, or a fee that validate refuses.                     *)
MCFaults(t) ==
    (IF "authority" \in DOMAIN t /\ t.authority # t.signer THEN {"authority"} ELSE {})
    \cup {f \in DOMAIN t \cap {"fee_account", "flash_loan_fee_account",
                               "pool_sol_reserves"} : t[f] # t.pool}
    \cup (IF t.type = "set_lp_token_metadata" /\ t.metadata # t.lp_mint
             THEN {"metadata"} ELSE {})
    \cup (IF "fee" \in DOMAIN t /\ ~ValidFee(t.fee) THEN {"fee"} ELSE {})

(* Pools are handed over to wallets, the protocol fee also to an address   *)
(* without a key.  The valid flat fee of a file is the operators' own.     *)
MCProposed ==
    {t \in Transactions :
        /\ Cardinality(MCFaults(t)) <= 1
        /\ "pool" \in DOMAIN t => t.authority \in Wallets
        /\ t.type = "set_fee_authority" => t.new_fee_authority \in Wallets
        /\ "fee" \in DOMAIN t /\ t.fee.kind = "Flat" /\ MCFaults(t) # {"fee"} =>
               \/ t.fee = MCStrangersFee
               \/ t.signer \in Operators /\ MCFaults(t) = {}}

(* The protocol fee and the pools have no state in common but the          *)
(* transactions in flight, and are explored one at a time.                 *)
MCApart ==
    \/ protocolFee = Nobody /\ \A t \in sent : "pool" \in DOMAIN t
    \/ /\ UNION {DOMAIN t : t \in sent} \cap {"pool"} = {}
       /\ \A p \in Pools : pools[p] = Nobody
       /\ \A m \in Mints : mintAuthority[m] = Nobody

(* One flash loan fee or description at a time.                          *)
MCFewSettings ==
    Cardinality({p \in Pools : flashFees[p] # Nobody})
        + Cardinality({m \in Mints : metadata[m] # Nobody}) <= 1

=============================================================================
