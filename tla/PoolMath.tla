------------------------------ MODULE PoolMath ------------------------------
(***************************************************************************)
(* The arithmetic of the unstake program: ratios, LP share conversion and  *)
(* the two fee schedules.  Lamport amounts are u64.  A Rust function that  *)
(* returns None or an error is an operator whose value lies outside U64,   *)
(* so a caller's "?" is the guard  value \in U64.  Products are computed   *)
(* by the code in u128 (and U256 in PreciseNumber) where two u64 factors   *)
(* always fit, so they are exact here.                                     *)
(*                                                                         *)
(* Definitions announced as "Faults" are what an edit could have got       *)
(* wrong; no module uses them, the properties must fail with them.         *)
(***************************************************************************)
EXTENDS Integers

CONSTANTS
    U64Max,   \* u64::MAX, scaled down for model checking
    ONE       \* the scale of spl_math's PreciseNumber, 10^12 in the library

ASSUME U64MaxAssumption == U64Max \in Nat \ {0}
ASSUME ONEAssumption == ONE \in Nat \ {0}

U64 == 0 .. U64Max

None == -1   \* the absent result of a checked computation

-----------------------------------------------------------------------------
(* rational.rs: a ratio is a record of two u64 fields.                     *)

Rational == [num : U64, denom : U64]

Validate(r) == r.denom # 0

IsLteOne(r) == r.num <= r.denom

FloorMul(r, v) == (v * r.num) \div r.denom

CeilMul(r, v) == (v * r.num + r.denom - 1) \div r.denom

-----------------------------------------------------------------------------
(* spl_math::PreciseNumber: unsigned fixed point with scale ONE.  Division *)
(* and multiplication add half a unit before truncating; division by zero  *)
(* is None, which the callers below test before they divide.               *)

PreciseNew(v) == v * ONE

PreciseDiv(a, b) == (a * ONE + ONE \div 2) \div b

PreciseMul(a, b) == (a * b + ONE \div 2) \div ONE

PreciseCeiling(a) == (a + ONE - 1) \div ONE   \* ceiling().to_imprecise()

IntoPrecise(r) == PreciseDiv(PreciseNew(r.num), PreciseNew(r.denom))

-----------------------------------------------------------------------------
(* state/fee.rs: a fee is either a flat ratio or the linear schedule.      *)

Flat(r) == [kind |-> "Flat", ratio |-> r]

LiquidityLinear(max, zero) ==
    [kind |-> "LiquidityLinear",
     max_liq_remaining |-> max, zero_liq_remaining |-> zero]

FeeEnum ==
    [kind : {"Flat"}, ratio : Rational]
      \cup [kind : {"LiquidityLinear"},
            max_liq_remaining : Rational, zero_liq_remaining : Rational]

ValidRatio(r) == Validate(r) /\ IsLteOne(r)

ValidFee(f) ==
    \/ f.kind = "Flat" /\ ValidRatio(f.ratio)
    \/ /\ f.kind = "LiquidityLinear"
       /\ ValidRatio(f.zero_liq_remaining)
       /\ ValidRatio(f.max_liq_remaining)
       /\ IntoPrecise(f.max_liq_remaining) <= IntoPrecise(f.zero_liq_remaining)

(* Faults: the fee charged on the whole stake instead of what is paid for  *)
(* it, and a fee on the liquidity left instead of the liquidity consumed.  *)
UnsolvedLinearRatio(f, incoming, reserves, stake) ==
    LET maxFee   == IntoPrecise(f.max_liq_remaining)
        slopeNum == IntoPrecise(f.zero_liq_remaining) - maxFee
        owned    == PreciseNew(incoming + reserves)
        num      == PreciseDiv(PreciseMul(owned, maxFee), slopeNum)
                      + PreciseNew(incoming + stake)
    IN  IF slopeNum <= 0 \/ owned = 0
        THEN None ELSE PreciseDiv(num, PreciseDiv(owned, slopeNum))

InvertedLinearRatio(f, incoming, reserves, stake) ==
    LET maxFee   == IntoPrecise(f.max_liq_remaining)
        slopeNum == IntoPrecise(f.zero_liq_remaining) - maxFee
        owned    == PreciseNew(incoming + reserves)
        num      == PreciseDiv(PreciseMul(owned, maxFee), slopeNum)
                      + PreciseNew(reserves)
        denom    == PreciseDiv(owned, slopeNum) + PreciseNew(stake)
    IN  IF slopeNum <= 0 \/ denom = 0 THEN None ELSE PreciseDiv(num, denom)

(* The linear fee ratio y = (I + S + c/m) / (1/m + S) with 1/m computed as *)
(* owned / slope_num.                                                      *)
LinearRatio(f, incoming, reserves, stake) ==
    LET maxFee   == IntoPrecise(f.max_liq_remaining)
        slopeNum == IntoPrecise(f.zero_liq_remaining) - maxFee
        owned    == PreciseNew(incoming + reserves)
        num      == PreciseDiv(PreciseMul(owned, maxFee), slopeNum)
                      + PreciseNew(incoming + stake)
        denom    == PreciseDiv(owned, slopeNum) + PreciseNew(stake)
    IN  IF slopeNum <= 0 \/ denom = 0 THEN None ELSE PreciseDiv(num, denom)

FeeRatio(f, incoming, reserves, stake) ==
    IF f.kind = "Flat"
    THEN IntoPrecise(f.ratio)
    ELSE LinearRatio(f, incoming, reserves, stake)

ApplyFee(f, incoming, reserves, stake) ==
    LET ratio == FeeRatio(f, incoming, reserves, stake)
    IN  IF ratio = None
        THEN None
        ELSE PreciseCeiling(PreciseMul(PreciseNew(stake), ratio))

-----------------------------------------------------------------------------
(* utils.rs, add_liquidity.rs and remove_liquidity.rs                      *)

OwnedWithoutLoans(reserves, incoming, borrowed) == reserves + incoming   \* Fault

PoolOwnedLamports(reserves, incoming, borrowed) == reserves + incoming + borrowed

(* Faults: shares rounded in the depositor's favour, shares priced after   *)
(* the deposit, and a redemption priced after the burn.                    *)
MintRoundedUp(owned, supply, amount) ==
    IF owned = 0 \/ supply = 0
    THEN amount + owned - supply
    ELSE (amount * supply + owned - 1) \div owned

MintAtNewPrice(owned, supply, amount) ==
    IF owned = 0 \/ supply = 0
    THEN amount + owned - supply
    ELSE (amount * supply) \div (owned + amount)

ReturnAfterBurn(owned, supply, amountLp) ==
    IF owned = 0 \/ supply <= amountLp
    THEN owned
    ELSE (amountLp * owned) \div (supply - amountLp)

LpTokensToMint(owned, supply, amount) ==
    IF owned = 0 \/ supply = 0
    THEN amount + owned - supply
    ELSE (amount * supply) \div owned

LamportsToReturn(owned, supply, amountLp) ==
    IF owned = 0 \/ supply = 0
    THEN 0
    ELSE (amountLp * owned) \div supply

=============================================================================
