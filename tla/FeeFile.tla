------------------------------ MODULE FeeFile ------------------------------
(***************************************************************************)
(* How the Rust CLI turns the numbers of a fee file into the ratios it     *)
(* sends (cli-rust/src/utils/fee.rs).  A number is a floating point number *)
(* that the code formats as a plain decimal, without exponent: digits with *)
(* the point, places from the right, left out.  A conversion that panics   *)
(* has no result: the operators return the set of results.                 *)
(***************************************************************************)
EXTENDS PoolMath

Decimal == [digits : Int, places : Nat]

FileNumbers(file) ==
    IF file.kind = "Flat" THEN {file.ratio}
    ELSE {file.max_liq_remaining, file.zero_liq_remaining}

PowerOf10[n \in Nat] == IF n = 0 THEN 1 ELSE 10 * PowerOf10[n - 1]

AtMost(d, e) ==
    d.digits * PowerOf10[e.places] <= e.digits * PowerOf10[d.places]

(* A whole number is cast (num: n as u64), which saturates.                *)
WholeNumber(d) ==
    [num |-> IF d.digits <= U64Max THEN d.digits ELSE U64Max, denom |-> 1]

(* Fault: the point counted among the places.                              *)
ScaleWithPoint(places) == PowerOf10[places + 1] % (U64Max + 1)

(* 10_i64.pow(dps) as u64: a release build wraps around without notice.    *)
Scale(places) == PowerOf10[places] % (U64Max + 1)

NumberToPositiveRational(d) ==
    IF d.digits < 0 THEN {}
    ELSE IF d.places = 0 THEN {WholeNumber(d)}
    ELSE IF d.digits \notin U64 THEN {}
    ELSE {[num |-> d.digits, denom |-> Scale(d.places)]}

ConvertFee(file) ==
    IF file.kind = "Flat"
    THEN {Flat(r) : r \in NumberToPositiveRational(file.ratio)}
    ELSE {LiquidityLinear(max, zero) :
             max \in {r \in NumberToPositiveRational(file.max_liq_remaining) :
                         AtMost(file.max_liq_remaining, file.zero_liq_remaining)},
             zero \in NumberToPositiveRational(file.zero_liq_remaining)}

-----------------------------------------------------------------------------
(* The reference: the ratio is the decimal.                                *)

Equals(r, d) == r.num * PowerOf10[d.places] = d.digits * r.denom

IsFiled(f, file) ==
    /\ f.kind = file.kind
    /\ IF f.kind = "Flat" THEN Equals(f.ratio, file.ratio)
       ELSE /\ Equals(f.max_liq_remaining, file.max_liq_remaining)
            /\ Equals(f.zero_liq_remaining, file.zero_liq_remaining)

=============================================================================
