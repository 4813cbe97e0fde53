--------------------------- MODULE PreviewsProofs ---------------------------
(***************************************************************************)
(* Proofs that the estimates and the previews of the TypeScript SDK err on *)
(* a known side, for any pool, any stake and however the pool moves        *)
(* between the requests and until the swap.                                *)
(***************************************************************************)
EXTENDS Previews, FeeScheduleProofs

-----------------------------------------------------------------------------
(* The program's fee when the pool has lost liquidity.                     *)

(* Beyond the end of the schedule the fee is all of the stake that the     *)
(* reserves cannot pay.                                                    *)
LEMMA BeyondEndArithmetic ==
    ASSUME NEW one \in Nat \ {0}, NEW max \in Nat, NEW slope \in Nat \ {0},
           NEW inc \in Nat, NEW res \in Nat, NEW stake \in Nat \ {0},
           NEW ratio \in Nat, ratio < one, max + slope < ratio,
           ratio * (one * (inc + res) + slope * stake)
             <= one * (slope * (inc + stake) + max * (inc + res)) + one + (slope - 1)
    PROVE  one * res <= stake * (one - ratio)
<1> SUFFICES ASSUME stake * (one - ratio) + 1 <= one * res PROVE FALSE
  OBVIOUS
<1> DEFINE owned == inc + res
<1>1. owned \in Nat
  OBVIOUS
<1>2. slope * (stake * (one - ratio) + 1) <= slope * (one * res)
  BY TimesMonotone
<1>3. one * owned * (slope + 1) <= one * owned * (ratio - max)
  <2>1. one * owned \in Nat /\ slope + 1 <= ratio - max
    BY <1>1
  <2> QED BY <2>1, TimesMonotone
<1>4. one * owned * (ratio - max)
        <= one * slope * inc + slope * (stake * (one - ratio)) + one + (slope - 1)
  OBVIOUS
<1>5. one * slope * inc + slope * (one * res) = one * owned * slope
  OBVIOUS
<1>6. one * owned * (slope + 1) = one * owned * slope + one * owned
  BY <1>1
<1>7. slope * (stake * (one - ratio) + 1) = slope * (stake * (one - ratio)) + slope
  OBVIOUS
<1>8. one * owned <= one - 1
  BY <1>2, <1>3, <1>4, <1>5, <1>6, <1>7, <1>1
<1>9. owned = 0
  <2> SUFFICES ASSUME 1 <= owned PROVE FALSE
    BY <1>1
  <2>1. one * 1 <= one * owned
    BY <1>1, TimesMonotone
  <2> QED BY <1>8, <2>1
<1>10. res = 0 /\ stake * (one - ratio) >= 0
  <2>1. one - ratio \in Nat
    OBVIOUS
  <2> QED BY <1>9, <2>1
<1> QED BY <1>10

(* The ratio is below one unless the reserves are empty.                   *)
LEMMA FullRatioArithmetic ==
    ASSUME NEW one \in Nat \ {0}, NEW max \in Nat, NEW slope \in Nat \ {0},
           max + slope <= one, NEW inc \in Nat, NEW owned \in Nat,
           NEW h \in Nat, h < one, NEW stake \in Nat,
           NEW a \in Nat, slope * a <= owned * max * one + h,
           NEW b \in Nat, slope * b >= owned * one * one + h - (slope - 1),
           one * (b + stake * one) <= (a + (inc + stake) * one) * one + h
    PROVE  owned <= inc
<1>1. b <= a + inc * one
  <2> SUFFICES ASSUME a + inc * one + 1 <= b PROVE FALSE
    OBVIOUS
  <2>1. one * (a + inc * one + 1) <= one * b
    BY TimesMonotone
  <2> QED BY <2>1
<1>2. slope * b <= slope * (a + inc * one)
  BY <1>1, TimesMonotone
<1>3. owned * one * slope <= owned * one * (one - max)
  BY TimesMonotone
<1>4. slope * (owned * one) <= slope * (inc * one) + (slope - 1)
  BY <1>2, <1>3
<1> SUFFICES ASSUME inc + 1 <= owned PROVE FALSE
  OBVIOUS
<1>5. slope * one * (inc + 1) <= slope * one * owned
  BY TimesMonotone
<1>6. slope * 1 <= slope * one
  BY TimesMonotone
<1> QED BY <1>4, <1>5, <1>6

(* Incoming stake that leaves the reserves as they were can lower a ratio  *)
(* by the rounding of a unit, but not by two.                              *)
LEMMA DipArithmetic ==
    ASSUME NEW one \in Nat \ {0}, NEW max \in Nat, NEW slope \in Nat \ {0},
           max + slope <= one, NEW rise \in Nat \ {0}, NEW ratio \in Nat,
           ratio <= max + slope,
           NEW dn \in Int, slope * dn >= rise * max * one - (slope - 1),
           NEW dd \in Int, slope * dd <= rise * one * one + (slope - 1),
           NEW stake \in Nat \ {0}, NEW after \in Nat \ {0},
           NEW b \in Nat, slope * b >= after * one * one - (slope - 1)
    PROVE  ratio * dd <= (dn + rise * one) * one + (b + stake * one)
<1> DEFINE k == slope - 1
<1>1. k \in Nat /\ k < one /\ ratio <= one
  OBVIOUS
<1>2. /\ slope * dn >= rise * max * one - k /\ slope * dd <= rise * one * one + k
      /\ slope * b >= after * one * one - k
  OBVIOUS
<1>3. slope = k + 1
  OBVIOUS
<1> HIDE DEF k
<1>4. ratio * (slope * dd) <= ratio * (rise * one * one + k)
  BY <1>1, <1>2, TimesMonotone
<1>5. rise * one * one * ratio <= rise * one * one * (max + slope)
  BY TimesMonotone
<1>6. one * (slope * dn) >= one * (rise * max * one - k)
  BY <1>1, <1>2, TimesMonotone
<1>7. k * ratio <= k * one /\ one * k <= one * (one - 1)
  BY <1>1, TimesMonotone
<1>8. one * one * 1 <= one * one * after /\ slope * one * 1 <= slope * one * stake
  BY TimesMonotone
<1>9. slope * (ratio * dd) <= slope * ((dn + rise * one) * one + (b + stake * one))
  BY <1>1, <1>2, <1>3, <1>4, <1>5, <1>6, <1>7, <1>8
<1>10. ratio * dd \in Int /\ (dn + rise * one) * one + (b + stake * one) \in Int
  OBVIOUS
<1> QED BY <1>9, <1>10, CancelFactor

(* The line's two rounded parts, and the ratio they are divided to.        *)
Half == ONE \div 2

NumPart(max, slope, owned) == PreciseDiv(owned * max, slope)

DenomPart(slope, owned) == PreciseDiv(PreciseNew(owned), slope)

LEMMA LineTerms ==
    ASSUME NEW max \in Nat, NEW slope \in Nat \ {0}, NEW inc \in Nat,
           NEW owned \in Nat, NEW stake \in Nat \ {0}
    PROVE  LET a     == NumPart(max, slope, owned)
               b     == DenomPart(slope, owned)
               h     == Half
               ratio == Line(max, slope, inc, owned, stake)
           IN  /\ h \in Nat /\ h < ONE /\ ONE \in Nat \ {0} /\ ratio \in Nat
               /\ a \in Nat /\ slope * a <= owned * max * ONE + h
               /\ b \in Nat /\ slope * b >= owned * ONE * ONE + h - (slope - 1)
               /\ a + (inc + stake) * ONE \in Nat /\ b + stake * ONE \in Nat \ {0}
               /\ ratio = ((a + (inc + stake) * ONE) * ONE + h) \div (b + stake * ONE)
               /\ ratio * (b + stake * ONE) <= (a + (inc + stake) * ONE) * ONE + h
<1> DEFINE a == NumPart(max, slope, owned)
           b == DenomPart(slope, owned)
           h == Half
           ratio == Line(max, slope, inc, owned, stake)
<1> DEFINE num == LineNum(max, slope, inc, owned, stake)
           den == LineDenom(slope, owned, stake)
           n == owned * max * ONE + h
           m == owned * ONE * ONE + h
<1>1. h \in Nat /\ h < ONE /\ ONE \in Nat \ {0}
  BY HalfType, ONEAssumption DEF Half
<1>2. num = a + (inc + stake) * ONE /\ den = b + stake * ONE
  BY DEF LineNum, LineDenom, PreciseNew, NumPart, DenomPart
<1>3. num \in Nat /\ den \in Nat \ {0} /\ ratio \in Nat
  BY LineType
<1>4. ratio = (num * ONE + h) \div den
  BY DEF Line, PreciseDiv, Half
<1>5. a = n \div slope /\ b = m \div slope
  BY DEF PreciseDiv, PreciseNew, NumPart, DenomPart, Half
<1> HIDE DEF a, b, h, ratio, num, den
<1>6. n \in Nat /\ m \in Nat /\ num * ONE + h \in Nat
  BY <1>1, <1>3
<1>7. /\ a \in Nat /\ slope * a <= n
      /\ b \in Nat /\ m < slope * b + slope
  <2> HIDE DEF n, m
  <2> QED BY <1>5, <1>6, DivBounds
<1>8. slope * b >= m - (slope - 1)
  <2> HIDE DEF n, m
  <2>1. slope * b \in Int
    BY <1>7
  <2> QED BY <1>6, <1>7, <2>1
<1>9. den * ratio <= num * ONE + h
  BY <1>3, <1>4, <1>6, DivBounds
<1>10. ratio * den = den * ratio
  BY <1>3
<1> QED BY <1>1, <1>2, <1>3, <1>4, <1>7, <1>8, <1>9, <1>10 DEF a, b, h, ratio

LEMMA LineDips ==
    ASSUME NEW max \in Nat, NEW slope \in Nat \ {0}, max + slope <= ONE,
           NEW inc \in Nat, NEW owned \in Nat, NEW rise \in Nat \ {0},
           NEW stake \in Nat \ {0},
           Line(max, slope, inc, owned, stake) <= max + slope
    PROVE  Line(max, slope, inc, owned, stake) - 1
             <= Line(max, slope, inc + rise, owned + rise, stake)
<1> DEFINE h == Half
           after == owned + rise
           then == inc + rise
           ratio == Line(max, slope, inc, owned, stake)
           ratio2 == Line(max, slope, then, after, stake)
           a == NumPart(max, slope, owned)
           b == DenomPart(slope, owned)
           a2 == NumPart(max, slope, after)
           b2 == DenomPart(slope, after)
           num == a + (inc + stake) * ONE
           den == b + stake * ONE
           num2 == a2 + (then + stake) * ONE
           den2 == b2 + stake * ONE
           dn == NumChange(max, slope, owned, after)
           dd == DenomChange(slope, owned, after)
<1>1. after \in Nat \ {0} /\ then \in Nat /\ after - owned = rise /\ then - inc = rise
  OBVIOUS
<1>2. dn = a2 - a /\ dd = b2 - b
  BY DEF NumChange, DenomChange, NumPart, DenomPart
<1> HIDE DEF h, after, then, ratio, ratio2, a, b, a2, b2, num, den, num2, den2, dn, dd
<1>3. /\ h \in Nat /\ ONE \in Nat \ {0} /\ ratio \in Nat /\ a \in Nat /\ b \in Nat
      /\ num \in Nat /\ den \in Nat \ {0}
      /\ ratio * den <= num * ONE + h
  BY LineTerms DEF h, ratio, a, b, num, den
<1>4. /\ ratio2 \in Nat /\ a2 \in Nat /\ b2 \in Nat
      /\ slope * b2 >= after * ONE * ONE + h - (slope - 1)
      /\ num2 \in Nat /\ den2 \in Nat \ {0}
      /\ ratio2 = (num2 * ONE + h) \div den2
  <2>1. after \in Nat /\ then \in Nat
    BY <1>1
  <2>2. /\ h \in Nat /\ h < ONE /\ ONE \in Nat \ {0} /\ ratio2 \in Nat
        /\ a2 \in Nat /\ slope * a2 <= after * max * ONE + h
        /\ b2 \in Nat /\ slope * b2 >= after * ONE * ONE + h - (slope - 1)
        /\ num2 \in Nat /\ den2 \in Nat \ {0}
        /\ ratio2 = (num2 * ONE + h) \div den2
        /\ ratio2 * den2 <= num2 * ONE + h
    BY <2>1, LineTerms, ZenonT(60) DEF h, ratio2, a2, b2, num2, den2
  <2> QED BY <2>2
<1>5. /\ dn \in Int /\ dd \in Int
      /\ slope * dn >= rise * max * ONE - (slope - 1)
      /\ slope * dd <= rise * ONE * ONE + (slope - 1)
  <2>1. LET x == NumChange(max, slope, owned, after)
            y == DenomChange(slope, owned, after)
        IN  /\ x \in Int /\ y \in Int
            /\ slope * x <= (after - owned) * max * ONE + (slope - 1)
            /\ slope * x >= (after - owned) * max * ONE - (slope - 1)
            /\ slope * y <= (after - owned) * ONE * ONE + (slope - 1)
            /\ slope * y >= (after - owned) * ONE * ONE - (slope - 1)
    BY <1>1, LineParts
  <2> QED BY <1>1, <2>1 DEF dn, dd
<1>6. slope * b2 >= after * ONE * ONE - (slope - 1)
  <2>1. slope * b2 \in Int /\ after * ONE * ONE \in Int
    BY <1>1, <1>3, <1>4
  <2> QED BY <1>3, <1>4, <2>1
<1>7. ratio * dd <= (dn + rise * ONE) * ONE + den2
  <2>1. ratio <= max + slope
    BY DEF ratio
  <2>2. ratio * dd <= (dn + rise * ONE) * ONE + (b2 + stake * ONE)
    BY <1>1, <1>3, <1>4, <1>5, <1>6, <2>1, DipArithmetic
  <2> QED BY <2>2 DEF den2
<1>8. num2 = num + dn + rise * ONE /\ den2 = den + dd
  BY <1>1, <1>2, <1>3, <1>4 DEF num, den, num2, den2
<1>9. (ratio - 1) * den2 <= num2 * ONE + h
  <2>1. (ratio - 1) * den2 = ratio * den + ratio * dd - den2
    BY <1>3, <1>4, <1>5, <1>8
  <2>2. num2 * ONE = num * ONE + (dn + rise * ONE) * ONE
    BY <1>3, <1>5, <1>8
  <2>3. /\ ratio * den \in Int /\ ratio * dd \in Int /\ num * ONE \in Int
        /\ (dn + rise * ONE) * ONE \in Int
    BY <1>3, <1>5
  <2> QED BY <1>3, <1>4, <1>7, <2>1, <2>2, <2>3
<1>10. ratio - 1 <= ratio2
  <2>1. CASE ratio = 0
    BY <1>4, <2>1
  <2>2. CASE ratio # 0
    <3>1. ratio - 1 \in Nat /\ num2 * ONE + h \in Nat
      BY <1>3, <1>4, <2>2
    <3> QED BY <1>4, <1>9, <3>1, QuotientAtLeast
  <2> QED BY <2>1, <2>2
<1> QED BY <1>10 DEF ratio, ratio2, after, then

(* Beyond its end the line charges what cannot be paid.                    *)
LEMMA LineBeyondEnd ==
    ASSUME NEW max \in Nat, NEW slope \in Nat \ {0}, max + slope <= ONE,
           NEW inc \in Nat, NEW res \in Nat, NEW stake \in Nat \ {0},
           NEW ratio, ratio = Line(max, slope, inc, inc + res, stake),
           max + slope < ratio,
           NEW paid \in Nat, paid <= stake, (paid - 1) * ONE < stake * ratio
    PROVE  paid <= stake - res
<1>1. inc + res \in Nat /\ ONE \in Nat \ {0}
  BY ONEAssumption
<1>2. ratio \in Nat
  BY <1>1, LineType
<1>3. CASE ratio < ONE
  <2>1. ratio * (ONE * (inc + res) + slope * stake)
          <= ONE * (slope * (inc + stake) + max * (inc + res)) + ONE + (slope - 1)
    BY <1>1, <1>3, LineRounds
  <2>2. ONE * res <= stake * (ONE - ratio)
    BY <1>1, <1>2, <1>3, <2>1, BeyondEndArithmetic
  <2>3. (paid - 1) * ONE < ONE * (stake - res)
    <3>1. /\ stake * (ONE - ratio) = stake * ONE - stake * ratio
          /\ ONE * (stake - res) = stake * ONE - ONE * res
          /\ stake * ONE \in Int /\ stake * ratio \in Int /\ ONE * res \in Int
      BY <1>1, <1>2
    <3> QED BY <1>1, <2>2, <3>1
  <2> SUFFICES ASSUME stake - res <= paid - 1 PROVE FALSE
    OBVIOUS
  <2>4. ONE * (stake - res) <= ONE * (paid - 1)
    BY <1>1, TimesMonotone
  <2>5. ONE * (paid - 1) = (paid - 1) * ONE /\ (paid - 1) * ONE \in Int
    BY <1>1
  <2> QED BY <1>1, <2>3, <2>4, <2>5
<1>4. CASE ratio >= ONE
  <2> DEFINE owned == inc + res
             a == NumPart(max, slope, owned)
             b == DenomPart(slope, owned)
             h == Half
  <2>1. ratio = Line(max, slope, inc, owned, stake) /\ owned \in Nat
    OBVIOUS
  <2> HIDE DEF owned, a, b, h
  <2>2. /\ h \in Nat /\ h < ONE /\ a \in Nat /\ slope * a <= owned * max * ONE + h
        /\ b \in Nat /\ slope * b >= owned * ONE * ONE + h - (slope - 1)
        /\ b + stake * ONE \in Nat \ {0}
        /\ ratio * (b + stake * ONE) <= (a + (inc + stake) * ONE) * ONE + h
    BY <2>1, LineTerms DEF a, b, h
  <2>3. ONE * (b + stake * ONE) <= (a + (inc + stake) * ONE) * ONE + h
    <3>1. (b + stake * ONE) * ONE <= (b + stake * ONE) * ratio
      BY <1>1, <1>2, <1>4, <2>2, TimesMonotone
    <3> DEFINE d == b + stake * ONE
               n == (a + (inc + stake) * ONE) * ONE + h
    <3>2. d \in Int /\ n \in Int
      BY <1>1, <2>2
    <3> HIDE DEF d, n
    <3>3. d * ONE <= d * ratio /\ ratio * d <= n
      BY <2>2, <3>1 DEF d, n
    <3>4. ONE * d <= n
      <4>1. d * ONE = ONE * d /\ d * ratio = ratio * d /\ ratio * d \in Int /\ ONE * d \in Int
        BY <1>1, <1>2, <3>2
      <4> QED BY <3>2, <3>3, <4>1
    <3> QED BY <3>4 DEF d, n
  <2>4. owned <= inc
    BY <1>1, <2>1, <2>2, <2>3, FullRatioArithmetic
  <2>5. res = 0
    BY <2>4 DEF owned
  <2> QED BY <2>5
<1> QED BY <1>1, <1>2, <1>3, <1>4

(* A swap of a pool that has more stake and no more reserves than before   *)
(* costs no less than before, but for a unit of the fixed point.           *)
LEMMA FeeOfDrained ==
    ASSUME NEW f \in FeeEnum, ValidFee(f), NEW stake \in Nat \ {0},
           NEW inc \in Nat, NEW res \in Nat, NEW inc2 \in Nat, NEW res2 \in Nat,
           inc <= inc2, res2 <= res,
           NEW before, before = ApplyFee(f, inc, res, stake),
           before \in Nat, before <= stake,
           NEW now, now = ApplyFee(f, inc2, res2, stake),
           now \in Nat, stake - now <= res2
    PROVE  (before - now - 1) * ONE < stake
<1>1. ONE \in Nat \ {0}
  BY ONEAssumption
<1>2. ASSUME before <= now PROVE (before - now - 1) * ONE < stake
  <2>1. now + 1 - before \in Nat
    BY <1>2
  <2>2. (now + 1 - before) * ONE \in Nat
    BY <1>1, <2>1
  <2>3. (before - now - 1) * ONE = 0 - (now + 1 - before) * ONE
    BY <1>1
  <2> QED BY <2>2, <2>3
<1>3. CASE f.kind = "Flat"
  <2>1. ApplyFee(f, inc, res, stake) <= ApplyFee(f, inc2, res2, stake)
    BY <1>3, FlatRatioType, FeeByRatio DEF FeeRatio
  <2> QED BY <1>2, <2>1
<1>4. CASE f.kind = "LiquidityLinear"
  <2> DEFINE max == IntoPrecise(f.max_liq_remaining)
             slope == IntoPrecise(f.zero_liq_remaining) - max
             low == FeeRatio(f, inc, res, stake)
             high == FeeRatio(f, inc2, res2, stake)
  <2>1. /\ max \in Nat /\ slope \in Nat /\ max + slope <= ONE
        /\ max + slope = IntoPrecise(f.zero_liq_remaining)
        /\ slope = 0 => low = None
        /\ slope > 0 => /\ low = Line(max, slope, inc, inc + res, stake)
                        /\ high = Line(max, slope, inc2, inc2 + res2, stake)
    BY <1>4, RatioIsLine
  <2>2. /\ before = IF low = None THEN None
                    ELSE PreciseCeiling(PreciseMul(PreciseNew(stake), low))
        /\ now = IF high = None THEN None
                 ELSE PreciseCeiling(PreciseMul(PreciseNew(stake), high))
    BY Zenon DEF ApplyFee
  <2> HIDE DEF max, slope
  <2>3. slope \in Nat \ {0}
    <3> HIDE DEF low, high
    <3> QED BY <2>1, <2>2 DEF None
  <2>4. inc + res \in Nat /\ inc2 + res2 \in Nat
    OBVIOUS
  <2>5. /\ low = Line(max, slope, inc, inc + res, stake)
        /\ high = Line(max, slope, inc2, inc2 + res2, stake)
    BY <2>1, <2>3
  <2>6. low \in Nat /\ high \in Nat
    <3> HIDE DEF low, high
    <3> QED BY <2>1, <2>3, <2>4, <2>5, LineType
  <2>7. /\ (before - 1) * ONE < stake * low
        /\ stake * high <= now * ONE
    <3> HIDE DEF low, high
    <3>1. /\ before = PreciseCeiling(PreciseMul(PreciseNew(stake), low))
          /\ now = PreciseCeiling(PreciseMul(PreciseNew(stake), high))
      BY <2>2, <2>6 DEF None
    <3> QED BY <2>6, <3>1, FeeRounds
  <2>8. CASE max + slope < low
    <3> HIDE DEF low, high
    <3>1. before <= stake - res
      BY <2>1, <2>3, <2>5, <2>7, <2>8, LineBeyondEnd
    <3> QED BY <1>2, <3>1
  <2>9. CASE low <= max + slope /\ res2 < res
    <3>1. f.kind = "LiquidityLinear" =>
              FeeRatio(f, inc, res, stake) <= IntoPrecise(f.zero_liq_remaining)
      BY <2>1, <2>9
    <3>2. ApplyFee(f, inc, res, stake) <= ApplyFee(f, inc2, res2, stake)
      BY <2>9, <3>1, FeeRisesWithStake
    <3> QED BY <1>2, <3>2
  <2>10. CASE res2 = res /\ inc2 = inc
    BY <1>2, <2>10
  <2>11. CASE low <= max + slope /\ res2 = res /\ inc2 > inc
    <3> DEFINE rise == inc2 - inc
    <3>1. /\ rise \in Nat \ {0} /\ inc2 = inc + rise
          /\ inc2 + res2 = (inc + res) + rise
      BY <2>11
    <3> HIDE DEF low, high, rise
    <3>2. Line(max, slope, inc, inc + res, stake) <= max + slope
      BY <2>5, <2>11
    <3>3. Line(max, slope, inc, inc + res, stake) - 1
            <= Line(max, slope, inc + rise, (inc + res) + rise, stake)
      BY <2>1, <2>3, <2>4, <3>1, <3>2, LineDips
    <3>4. low - 1 <= high
      BY <2>5, <3>1, <3>3
    <3>5. stake * (low - 1) <= stake * high
      BY <2>6, <3>4, TimesMonotone
    <3>6. stake * (low - 1) = stake * low - stake
      BY <2>6
    <3>7. (before - now - 1) * ONE = (before - 1) * ONE - now * ONE
      BY <1>1
    <3>8. /\ stake * low \in Int /\ stake * high \in Int
          /\ (before - 1) * ONE \in Int /\ now * ONE \in Int
      BY <1>1, <2>6
    <3> QED BY <2>7, <3>5, <3>6, <3>7, <3>8
  <2>12. low \in Int /\ max + slope \in Int
    BY <2>1, <2>6
  <2> HIDE DEF low, high
  <2> QED BY <2>8, <2>9, <2>10, <2>11, <2>12
<1> QED BY <1>3, <1>4 DEF ValidFee

-----------------------------------------------------------------------------
(* The exact fee when the pool has moved.  The schedule's ends are low and *)
(* low + slope, over D.                                                    *)

ExactNum(low, slope, inc, owned, stake) == slope * (inc + stake) + low * owned

ExactDenom(D, slope, owned, stake) == D * owned + slope * stake

(* With less incoming stake and more liquidity the ratio is no larger.     *)
LEMMA ExactRelieved ==
    ASSUME NEW D \in Nat \ {0}, NEW low \in Nat, NEW slope \in Nat, low + slope <= D,
           NEW inc \in Nat, NEW owned \in Nat, NEW inc2 \in Nat, NEW owned2 \in Nat,
           NEW stake \in Nat \ {0}, inc2 <= inc, owned <= owned2
    PROVE  ExactNum(low, slope, inc2, owned2, stake) * ExactDenom(D, slope, owned, stake)
             <= ExactNum(low, slope, inc, owned, stake) * ExactDenom(D, slope, owned2, stake)
<1> DEFINE i == inc - inc2
           l == owned2 - owned
           N == ExactNum(low, slope, inc, owned, stake)
           E == ExactDenom(D, slope, owned, stake)
<1>1. i \in Nat /\ l \in Nat
  OBVIOUS
<1>2. N \in Nat /\ E \in Nat
  BY DEF ExactNum, ExactDenom
<1>3. /\ ExactNum(low, slope, inc2, owned2, stake) = N - slope * i + low * l
      /\ ExactDenom(D, slope, owned2, stake) = E + D * l
  BY DEF ExactNum, ExactDenom
<1>4. N * D - low * E = slope * (D * inc + (D - low) * stake)
  BY DEF ExactNum, ExactDenom
<1>5. N * D - low * E >= 0
  <2>1. D - low \in Nat
    OBVIOUS
  <2>2. slope * (D * inc + (D - low) * stake) \in Nat
    BY <2>1
  <2> QED BY <1>4, <2>2
<1> HIDE DEF i, l, N, E
<1>6. l * (N * D - low * E) >= 0 /\ slope * i * E >= 0
  <2>1. N * D - low * E \in Nat
    BY <1>2, <1>5
  <2> QED BY <1>1, <1>2, <2>1
<1>7. (N - slope * i + low * l) * E <= N * (E + D * l)
  BY <1>1, <1>2, <1>6
<1> QED BY <1>3, <1>7 DEF N, E

(* With more incoming stake and no more reserves it is no smaller, or it   *)
(* was beyond the end: then the fee was all that could not be paid.        *)
LEMMA ExactDrained ==
    ASSUME NEW D \in Nat \ {0}, NEW low \in Nat, NEW slope \in Nat, low + slope <= D,
           NEW inc \in Nat, NEW res \in Nat, NEW inc2 \in Nat, NEW res2 \in Nat,
           NEW stake \in Nat \ {0}, inc <= inc2, res2 <= res,
           NEW owned \in Nat \ {0}, owned = inc + res,
           NEW owned2 \in Nat, owned2 = inc2 + res2
    PROVE  \/ ExactNum(low, slope, inc, owned, stake) * ExactDenom(D, slope, owned2, stake)
                <= ExactNum(low, slope, inc2, owned2, stake)
                     * ExactDenom(D, slope, owned, stake)
           \/ stake * ExactNum(low, slope, inc, owned, stake)
                < (stake - res) * ExactDenom(D, slope, owned, stake)
<1> DEFINE i == inc2 - inc
           l == owned2 - owned
           N == ExactNum(low, slope, inc, owned, stake)
           E == ExactDenom(D, slope, owned, stake)
           over == D * (stake - res) - (low + slope) * stake
<1>1. i \in Nat /\ l \in Int /\ l <= i /\ over \in Int
  OBVIOUS
<1>2. N \in Nat /\ E \in Nat
  BY DEF ExactNum, ExactDenom
<1>3. /\ ExactNum(low, slope, inc2, owned2, stake) = N + slope * i + low * l
      /\ ExactDenom(D, slope, owned2, stake) = E + D * l
  BY DEF ExactNum, ExactDenom
<1>4. (stake - res) * E - stake * N = owned * over
  BY DEF ExactNum, ExactDenom
<1>5. N * D - (low + slope) * E = slope * over
  BY DEF ExactNum, ExactDenom
<1>6. N * D - low * E >= 0
  <2>1. N * D - low * E = slope * (D * inc + (D - low) * stake)
    BY DEF ExactNum, ExactDenom
  <2>2. D - low \in Nat
    OBVIOUS
  <2>3. slope * (D * inc + (D - low) * stake) \in Nat
    BY <2>2
  <2> QED BY <2>1, <2>3
<1> HIDE DEF i, l, N, E, over
<1>7. CASE over > 0
  <2>1. owned * over > 0
    <3>1. over \in Nat \ {0}
      BY <1>1, <1>7
    <3> QED BY <3>1
  <2>2. stake * N < (stake - res) * E
    BY <1>2, <1>4, <2>1
  <2> QED BY <2>2 DEF N, E
<1>8. CASE over <= 0
  <2>1. N * D - (low + slope) * E <= 0
    <3>1. slope * over <= slope * 0
      BY <1>1, <1>8, TimesMonotone
    <3> QED BY <1>5, <3>1
  <2>2. N * (E + D * l) <= (N + slope * i + low * l) * E
    <3>1. CASE l >= 0
      <4>1. l * (N * D - (low + slope) * E) <= l * 0
        BY <1>1, <1>2, <2>1, <3>1, TimesMonotone
      <4>2. slope * E * l <= slope * E * i
        BY <1>1, <1>2, TimesMonotone
      <4> QED BY <1>1, <1>2, <4>1, <4>2
    <3>2. CASE l < 0
      <4>1. (0 - l) * 0 <= (0 - l) * (N * D - low * E)
        BY <1>1, <1>2, <1>6, <3>2, TimesMonotone
      <4>2. slope * i * E >= 0
        BY <1>1, <1>2
      <4> QED BY <1>1, <1>2, <4>1, <4>2
    <3> QED BY <1>1, <3>1, <3>2
  <2> QED BY <1>3, <2>2 DEF N, E
<1> QED BY <1>1, <1>7, <1>8

-----------------------------------------------------------------------------
(* The estimate against the fee charged.                                   *)

LEMMA CeilingBounds ==
    ASSUME NEW num \in Nat, NEW den \in Nat \ {0}, NEW v \in Nat,
           NEW c, c = CeilingOf([num |-> num, denom |-> den], v)
    PROVE  c \in Nat /\ v * num <= c * den /\ (c - 1) * den < v * num
<1> DEFINE n == v * num + den - 1
<1>1. c = n \div den
  BY DEF CeilingOf
<1>2. n \in Nat
  OBVIOUS
<1> HIDE DEF n
<1>3. c \in Nat /\ den * c <= n /\ n < den * c + den
  BY <1>1, <1>2, DivBounds
<1>4. c * den = den * c /\ (c - 1) * den = den * c - den /\ den * c \in Int
  BY <1>3
<1>5. n = v * num + den - 1 /\ v * num \in Int
  BY DEF n
<1> QED BY <1>3, <1>4, <1>5

LEMMA EstimateFromAbove ==
    ASSUME NEW one \in Nat \ {0}, NEW stake \in Nat, NEW est \in Nat, NEW kept \in Nat,
           NEW n1 \in Int, NEW d1 \in Nat \ {0}, NEW n2 \in Int, NEW d2 \in Nat \ {0},
           n2 * d1 <= n1 * d2, stake * n1 <= est * d1,
           ((kept - 1) * one - 2 * stake) * d2 < stake * one * n2
    PROVE  (kept - est - 1) * one < 2 * stake
<1> SUFFICES ASSUME 2 * stake <= (kept - est - 1) * one PROVE FALSE
  OBVIOUS
<1>1. est * one <= (kept - 1) * one - 2 * stake
  OBVIOUS
<1>2. d2 * (est * one) <= d2 * ((kept - 1) * one - 2 * stake)
  BY <1>1, TimesMonotone
<1>3. one * (est * d2) < one * (stake * n2)
  BY <1>2
<1>4. est * d2 + 1 <= stake * n2
  <2> SUFFICES ASSUME stake * n2 <= est * d2 PROVE FALSE
    OBVIOUS
  <2>1. one * (stake * n2) <= one * (est * d2)
    BY TimesMonotone
  <2> QED BY <1>3, <2>1
<1>5. d1 * (est * d2 + 1) <= d1 * (stake * n2)
  BY <1>4, TimesMonotone
<1>6. stake * (n2 * d1) <= stake * (n1 * d2) /\ d2 * (stake * n1) <= d2 * (est * d1)
  BY TimesMonotone
<1> QED BY <1>5, <1>6

LEMMA EstimateFromBelow ==
    ASSUME NEW one \in Nat \ {0}, NEW stake \in Nat \ {0}, NEW est \in Nat,
           NEW kept \in Nat, NEW n1 \in Int, NEW d1 \in Nat \ {0},
           NEW n2 \in Int, NEW d2 \in Nat \ {0},
           (est - 1) * d1 < stake * n1,
           (kept * one + 3 * stake) * d2 >= stake * one * n2,
           n1 * d2 <= n2 * d1
    PROVE  (est - 1 - kept) * one < 3 * stake
<1> SUFFICES ASSUME 3 * stake <= (est - 1 - kept) * one PROVE FALSE
  OBVIOUS
<1>1. kept * one + 3 * stake <= (est - 1) * one
  OBVIOUS
<1>2. d2 * (kept * one + 3 * stake) <= d2 * ((est - 1) * one)
  BY <1>1, TimesMonotone
<1>3. one * (stake * n2) <= one * ((est - 1) * d2)
  BY <1>2
<1>4. stake * n2 <= (est - 1) * d2
  BY <1>3, CancelFactor
<1>5. d1 * (stake * n2) <= d1 * ((est - 1) * d2)
  BY <1>4, TimesMonotone
<1>6. stake * (n1 * d2) <= stake * (n2 * d1)
  BY TimesMonotone
<1>7. d2 * ((est - 1) * d1 + 1) <= d2 * (stake * n1)
  BY TimesMonotone
<1> QED BY <1>5, <1>6, <1>7

(* A fee that can be charged has ends that differ, and none is above one.  *)
LEMMA ScheduleEnds ==
    ASSUME fee \in FeeEnum, ValidFee(fee), fee.kind = "LiquidityLinear",
           NEW inc \in Nat, NEW res \in Nat, NEW stake \in Nat \ {0},
           FeeRatio(fee, inc, res, stake) # None
    PROVE  /\ SlopeDenom \in Nat \ {0} /\ MaxNum \in Nat /\ ZeroNum - MaxNum \in Nat
           /\ MaxNum + (ZeroNum - MaxNum) <= SlopeDenom
<1> DEFINE low == fee.max_liq_remaining
           high == fee.zero_liq_remaining
           max == IntoPrecise(low)
           slope == IntoPrecise(high) - max
           D == low.denom * high.denom
           lower == low.num * high.denom * ONE
           upper == high.num * low.denom * ONE
<1>1. /\ low \in Rational /\ ValidRatio(low) /\ high \in Rational /\ ValidRatio(high)
  BY DEF FeeEnum, ValidFee
<1>2. /\ low.num \in Nat /\ low.denom \in Nat \ {0}
      /\ high.num \in Nat /\ high.denom \in Nat \ {0} /\ high.num <= high.denom
  BY <1>1, U64MaxAssumption DEF Rational, U64, ValidRatio, Validate, IsLteOne
<1>3. max \in Nat /\ slope \in Nat /\ (slope = 0 => FeeRatio(fee, inc, res, stake) = None)
  BY RatioIsLine
<1>4. slope \in Nat \ {0}
  <2> HIDE DEF slope
  <2> QED BY <1>3
<1>5. /\ D \in Nat \ {0} /\ lower \in Nat /\ upper \in Nat
      /\ lower - D * max \in 0 .. D - 1
      /\ upper - D * IntoPrecise(high) \in 0 .. D - 1
  <2> HIDE DEF low, high
  <2> QED BY <1>1, EndsRound
<1>6. /\ SlopeDenom = D /\ MaxNum = low.num * high.denom
      /\ ZeroNum = high.num * low.denom
  BY DEF SlopeDenom, MaxNum, ZeroNum
<1>7. SlopeDenom \in Nat \ {0} /\ MaxNum \in Nat /\ ZeroNum \in Nat
  <2> HIDE DEF low, high
  <2> QED BY <1>2, <1>5, <1>6
<1>8. ZeroNum <= SlopeDenom
  <2> HIDE DEF low, high
  <2>1. low.denom * high.num <= low.denom * high.denom
    BY <1>2, TimesMonotone
  <2> QED BY <1>2, <1>6, <2>1
<1>9. lower < upper
  <2>1. IntoPrecise(high) = max + slope
    <3>1. IntoPrecise(high) \in 0 .. ONE
      <4> HIDE DEF high
      <4> QED BY <1>1, IntoPreciseBounds
    <3> QED BY <1>3, <3>1, ONEAssumption
  <2> HIDE DEF max, slope, D, lower, upper
  <2>2. D * 1 <= D * slope
    BY <1>4, <1>5, TimesMonotone
  <2>3. D * (max + slope) = D * max + D * slope
    BY <1>3, <1>5
  <2>4. D * max \in Int /\ D * slope \in Int
    BY <1>3, <1>5
  <2> QED BY <1>5, <2>1, <2>2, <2>3, <2>4
<1>10. MaxNum <= ZeroNum
  <2>1. lower = ONE * MaxNum /\ upper = ONE * ZeroNum
    <3> HIDE DEF low, high
    <3> QED BY <1>2, <1>6, ONEAssumption
  <2> HIDE DEF lower, upper
  <2>2. ONE * MaxNum <= ONE * ZeroNum /\ ONE \in Nat \ {0}
    BY <1>5, <1>9, <2>1, ONEAssumption
  <2> QED BY <1>7, <2>2, CancelFactor
<1> QED BY <1>7, <1>8, <1>10

(* The estimate from what was read, and the swap of the pool as it is now. *)
LEMMA EstimateErrs ==
    ASSUME AccountsInv, AnyStep, NEW s \in Stakes, PaidFor(s), NoProtocolFee,
           NEW read \in [incoming : Nat, reserves : Nat],
           read.reserves >= RecordRent, read.incoming + read.reserves > RecordRent,
           NEW est, est = ApplyFeeSdk(read, lamports[s])
    PROVE  /\ incoming <= read.incoming
              /\ read.incoming + read.reserves <= incoming + reserves
                  => (Kept(s) - est - 1) * ONE < 2 * lamports[s]
           /\ read.incoming <= incoming /\ reserves <= read.reserves
              /\ recordLamports[s] = 0
                  => (est - 1 - Kept(s)) * ONE < 3 * lamports[s]
<1> DEFINE stake == lamports[s]
           res == reserves - RecordTopUp(s)
           ratio == FeeRatio(fee, incoming, res, stake)
           liq == read.incoming + read.reserves - RecordRent
           liq2 == Liquidity - RecordTopUp(s)
           exact == ExactRatio(liq2, stake)
           kept == Kept(s)
<1>1. /\ s \in OnSale /\ ratio # None
      /\ kept \in Nat /\ kept < stake /\ stake - kept <= res
  BY SwapTerms
<1>2. /\ fee \in FeeEnum /\ ValidFee(fee) /\ stake \in Nat \ {0} /\ incoming \in Nat
      /\ RecordTopUp(s) \in Nat /\ res \in Nat
  BY <1>1, QuoteTerms
<1>3. reserves \in Nat /\ recordLamports[s] \in Nat /\ RecordRent \in Nat \ {0}
  BY RentAssumption DEF AccountsInv, AccountsTypeOK
<1>4. RecordTopUp(s) <= RecordRent /\ (recordLamports[s] = 0 => RecordTopUp(s) = RecordRent)
  BY <1>3 DEF RecordTopUp
<1>5. /\ read.incoming \in Nat /\ read.reserves \in Nat
      /\ liq \in Nat \ {0} /\ liq2 = incoming + res /\ liq2 \in Nat
  BY <1>2, <1>3 DEF Liquidity
<1>6. /\ (kept * ONE + 3 * stake) * exact.denom >= stake * ONE * exact.num
      /\ ((kept - 1) * ONE - 2 * stake) * exact.denom < stake * ONE * exact.num
  BY ChargedStep
<1>7. ONE \in Nat \ {0}
  BY ONEAssumption
<1> HIDE DEF stake, res, ratio, liq, kept
<1>8. CASE fee.kind = "Flat"
  <2>1. fee.ratio \in Rational /\ ValidRatio(fee.ratio)
    BY <1>2, <1>8 DEF FeeEnum, ValidFee
  <2> DEFINE num == fee.ratio.num
             den == fee.ratio.denom
  <2>2. /\ num \in Nat /\ den \in Nat \ {0}
        /\ fee.ratio = [num |-> num, denom |-> den]
    BY <2>1, U64MaxAssumption DEF Rational, U64, ValidRatio, Validate
  <2>3. exact = fee.ratio /\ est = CeilingOf(fee.ratio, stake)
    BY <1>8 DEF ExactRatio, ApplyFeeSdk, stake
  <2> HIDE DEF num, den, exact
  <2>4. exact.num = num /\ exact.denom = den
    BY <2>3 DEF num, den
  <2>5. est \in Nat /\ stake * num <= est * den /\ (est - 1) * den < stake * num
    BY <1>2, <2>2, <2>3, CeilingBounds
  <2>6. (kept - est - 1) * ONE < 2 * stake
    <3>1. num * den <= num * den
      BY <2>2
    <3> QED BY <1>1, <1>2, <1>6, <1>7, <2>2, <2>4, <2>5, <3>1, EstimateFromAbove
  <2>7. (est - 1 - kept) * ONE < 3 * stake
    <3>1. num * den <= num * den
      BY <2>2
    <3> QED BY <1>1, <1>2, <1>6, <1>7, <2>2, <2>4, <2>5, <3>1, EstimateFromBelow
  <2> QED BY <2>6, <2>7 DEF stake, kept
<1>9. CASE fee.kind = "LiquidityLinear"
  <2> DEFINE D == SlopeDenom
             low == MaxNum
             slope == ZeroNum - MaxNum
             n1 == ExactNum(low, slope, read.incoming, liq, stake)
             d1 == ExactDenom(D, slope, liq, stake)
             n2 == ExactNum(low, slope, incoming, liq2, stake)
             d2 == ExactDenom(D, slope, liq2, stake)
  <2>1. D \in Nat \ {0} /\ low \in Nat /\ slope \in Nat /\ low + slope <= D
    BY <1>1, <1>2, <1>9, ScheduleEnds DEF ratio
  <2>2. exact.num = n2 /\ exact.denom = d2
    BY <1>9 DEF ExactRatio, ExactLinear, ExactNum, ExactDenom
  <2>3. est = CeilingOf([num |-> n1, denom |-> d1], stake)
    BY <1>9 DEF ApplyFeeSdk, ApplyLiquidityLinearFee, ExactNum, ExactDenom, liq, stake
  <2>4. liq2 \in Nat \ {0}
    <3>1. res > 0
      BY <1>1, <1>2
    <3> QED BY <1>2, <1>5, <3>1
  <2> HIDE DEF D, low, slope, exact, liq2
  <2>5. n1 \in Nat /\ d1 \in Nat \ {0} /\ n2 \in Nat /\ d2 \in Nat \ {0}
    <3>1. \A o \in Nat \ {0} : D * o \in Nat \ {0}
      BY <2>1
    <3>2. D * liq \in Nat \ {0} /\ D * liq2 \in Nat \ {0}
      BY <1>5, <2>4, <3>1
    <3>3. /\ slope * stake \in Nat /\ low * liq \in Nat /\ low * liq2 \in Nat
          /\ slope * (read.incoming + stake) \in Nat /\ slope * (incoming + stake) \in Nat
      BY <1>2, <1>5, <2>1, <2>4
    <3> QED BY <3>2, <3>3 DEF ExactNum, ExactDenom
  <2> HIDE DEF n1, d1, n2, d2
  <2>6. est \in Nat /\ stake * n1 <= est * d1 /\ (est - 1) * d1 < stake * n1
    BY <1>2, <2>3, <2>5, CeilingBounds
  <2>7. ASSUME incoming <= read.incoming,
               read.incoming + read.reserves <= incoming + reserves
        PROVE  (kept - est - 1) * ONE < 2 * stake
    <3>1. liq <= liq2
      BY <1>2, <1>3, <1>4, <1>5, <2>7 DEF liq, res
    <3>2. n2 * d1 <= n1 * d2
      BY <1>2, <1>5, <2>1, <2>4, <2>7, <3>1, ExactRelieved DEF n1, d1, n2, d2
    <3> QED BY <1>1, <1>2, <1>6, <1>7, <2>2, <2>5, <2>6, <3>2, EstimateFromAbove
  <2>8. ASSUME read.incoming <= incoming, reserves <= read.reserves, recordLamports[s] = 0
        PROVE  (est - 1 - kept) * ONE < 3 * stake
    <3> DEFINE a == read.reserves - RecordRent
    <3>1. a \in Nat /\ res <= a /\ liq = read.incoming + a
      BY <1>2, <1>3, <1>4, <1>5, <2>8 DEF liq, res
    <3> HIDE DEF a
    <3>2. \/ n1 * d2 <= n2 * d1
          \/ stake * n1 < (stake - a) * d1
      BY <1>2, <1>5, <2>1, <2>4, <2>8, <3>1, ExactDrained DEF n1, d1, n2, d2
    <3>3. CASE n1 * d2 <= n2 * d1
      BY <1>1, <1>2, <1>6, <1>7, <2>2, <2>5, <2>6, <3>3, EstimateFromBelow
    <3>4. CASE stake * n1 < (stake - a) * d1
      <4>1. est - 1 < stake - a
        <5> SUFFICES ASSUME stake - a <= est - 1 PROVE FALSE
          BY <1>2, <2>6, <3>1
        <5>1. d1 * (stake - a) <= d1 * (est - 1)
          BY <1>2, <2>5, <2>6, <3>1, TimesMonotone
        <5>2. /\ d1 * (stake - a) = (stake - a) * d1 /\ d1 * (est - 1) = (est - 1) * d1
              /\ (stake - a) * d1 \in Int /\ (est - 1) * d1 \in Int /\ stake * n1 \in Int
          BY <1>2, <2>5, <2>6, <3>1
        <5> QED BY <2>6, <3>4, <5>1, <5>2
      <4>2. est - 1 - kept < 0
        BY <1>1, <1>2, <2>6, <3>1, <4>1
      <4>3. (kept - (est - 1)) * ONE \in Nat
        BY <1>1, <1>7, <2>6, <4>2
      <4>4. (est - 1 - kept) * ONE = 0 - (kept - (est - 1)) * ONE
        BY <1>1, <1>7, <2>6
      <4> QED BY <1>2, <4>3, <4>4
    <3> QED BY <3>2, <3>3, <3>4
  <2> QED BY <2>7, <2>8 DEF stake, kept
<1> QED BY <1>2, <1>8, <1>9 DEF ValidFee

-----------------------------------------------------------------------------
(* A quote while the pool moves.                                           *)

Moved == {"relief", "drain"}

(* A pool that has moved from incoming stake i and reserves a to j and b.  *)
Since(effects, i, a, j, b) ==
    /\ effects \subseteq {"relief"} => j <= i /\ i + a <= j + b
    /\ effects \subseteq {"drain"} => i <= j /\ b <= a

(* What the swap of a stake account changes at the observed account.       *)
ChangeBy(request, payout) ==
    (IF Observed(request) = Destination(request) THEN payout ELSE 0)
    - (IF Observed(request) = "unstaker" THEN NetworkFee ELSE 0)

(* The reserves' balance is in hand.                                       *)
Reading ==
    [stage : {"reserves"}, stake : Stakes, reserves : Nat, since : SUBSET Moved]

ReadingInv ==
    /\ quote.reserves >= RecordRent
    /\ quote.since \subseteq {"relief"} => quote.reserves <= reserves
    /\ quote.since \subseteq {"drain"} => reserves <= quote.reserves

(* The estimate is that of a pool from which the present one has moved.    *)
Quoted(estimate) ==
    [stage : {"quoted"}, stake : Stakes, since : SUBSET Moved, estimate : {estimate}]

QuotedInv(read) ==
    /\ read.reserves >= RecordRent /\ read.incoming + read.reserves > RecordRent
    /\ quote \in Quoted(ApplyFeeSdk(read, lamports[quote.stake]))
    /\ Since(quote.since, read.incoming, read.reserves, incoming, reserves)

(* And so is the payout of the simulated swap, if the account was at rest: *)
(* with fee f, the stake's balance, and a pool that has become j and b.    *)
Simulated(f, stake, request, effects, steady, change, j, b) ==
    \E i, a, cost \in Nat :
        /\ cost = ApplyFee(f, i, a, stake) /\ cost <= stake
        /\ Since(effects, i, a, j, b)
        /\ steady => change = ChangeBy(request, stake - cost)

SimulatedChangeIs(change) ==
    Simulated(fee, lamports[quote.stake], quote.request, quote.since, quote.steady,
              change, incoming, reserves - RecordTopUp(quote.stake))

Requested ==
    [stage : {"requested"}, stake : Stakes, request : Requests, since : SUBSET Moved,
     pre : Int, post : Int, balance : Int, steady : BOOLEAN]

RequestedInv ==
    /\ quote.pre # Unanswered /\ quote.steady => quote.pre = quote.balance
    /\ quote.post # Unanswered => SimulatedChangeIs(quote.post - quote.balance)

Answers ==
    [stage : {"previewed"}, stake : Stakes, request : Requests, since : SUBSET Moved,
     steady : BOOLEAN, change : Int]

PreviewedInv == SimulatedChangeIs(quote.change)

QuoteInv ==
    \/ quote = NoQuote
    \/ /\ quote.stake \notin records
       /\ \/ quote \in Reading /\ ReadingInv
          \/ \E read \in [incoming : Nat, reserves : Nat] : QuotedInv(read)
          \/ quote \in Requested /\ RequestedInv
          \/ quote \in Answers /\ PreviewedInv

(* The steps of a module that reads the pool are steps of the pool.        *)
LEMMA MovementIsNext == ASSUME Movement PROVE Next /\ AnyStep
BY DEF Movement, Next, Environment, StakeOwner, AnyStep

(* The address of a record that does not exist only ever gains lamports.   *)
LEMMA RecordsFill ==
    ASSUME AccountsTypeOK, AnyStep, NEW s \in Stakes, s \notin records
    PROVE  recordLamports[s] <= recordLamports'[s]
<1> USE DEF AccountsTypeOK, recordVars
<1>1. ASSUME NEW t \in Stakes, NEW u, NEW destination, NEW referrer,
             RunUnstake(u, t, destination, referrer)
      PROVE  recordLamports[s] <= recordLamports'[s]
  <2>1. RecordTopUp(t) \in Nat /\ recordLamports[s] \in Nat
    BY RentAssumption DEF RecordTopUp
  <2>2. recordLamports' = [recordLamports EXCEPT ![t] = @ + RecordTopUp(t)]
    BY <1>1 DEF RunUnstake
  <2> QED BY <2>1, <2>2
<1>2. ASSUME NEW t \in Stakes, ReclaimStakeAccount(t)
      PROVE  recordLamports[s] <= recordLamports'[s]
  BY <1>2 DEF ReclaimStakeAccount
<1>3. ASSUME NEW t \in Stakes, NEW amount \in Donations, RecordReceives(t, amount)
      PROVE  recordLamports[s] <= recordLamports'[s]
  BY <1>3, AmountsAssumption DEF RecordReceives
<1>4. recordLamports' = recordLamports => recordLamports[s] <= recordLamports'[s]
  OBVIOUS
<1> QED
  BY <1>1, <1>2, <1>3, <1>4
  DEF AnyStep, PoolInstruction, Environment, StakeOwner, Cluster, Unstake, UnstakeWsol,
      AddLiquidity, RemoveLiquidity, SetFee, SetProtocolFee, DeactivateStakeAccount,
      CreateStake, DelegateStake, OwnerDeactivate, OwnerWithdraw, AuthorizeStaker,
      AuthorizeWithdrawer, SetLockup, LockupExpires, EpochPasses, ReservesReceive,
      StakeReceives, HolderBurns

(* Stake ceases to be incoming only when it is reclaimed.                  *)
LEMMA IncomingLeaves ==
    ASSUME AccountsInv, AnyStep, incoming' < incoming
    PROVE  incoming + reserves <= incoming' + reserves' /\ reserves < reserves'
<1> USE DEF ledgerVars
<1>1. incoming \in Nat /\ reserves \in Nat
  BY U64MaxAssumption DEF AccountsInv, AccountsTypeOK, U64
<1>2. ASSUME NEW t \in Stakes, ReclaimStakeAccount(t)
      PROVE  incoming + reserves <= incoming' + reserves' /\ reserves < reserves'
  <2>1. /\ t \in records /\ incoming' = incoming - recorded[t]
        /\ reserves' = reserves + lamports[t] + recordLamports[t]
    BY <1>2 DEF ReclaimStakeAccount, Unbook
  <2>2. /\ lamports[t] \in Nat /\ recorded[t] \in Nat /\ recordLamports[t] \in Nat
        /\ lamports[t] >= recorded[t] /\ recordLamports[t] >= RecordRent
    BY <2>1 DEF AccountsInv, AccountsTypeOK, RecordsCovered, RecordsControlled
  <2> QED BY <1>1, <2>1, <2>2, RentAssumption
<1>3. ASSUME NEW t \in Stakes, NEW u, NEW destination, NEW referrer,
             RunUnstake(u, t, destination, referrer)
      PROVE  FALSE
  BY <1>1, <1>3 DEF RunUnstake, AccountsInv, AccountsTypeOK
<1>4. incoming' # incoming
  BY <1>1
<1> QED
  BY <1>2, <1>3, <1>4
  DEF AnyStep, PoolInstruction, Environment, StakeOwner, Cluster, Unstake, UnstakeWsol,
      AddLiquidity, RemoveLiquidity, SetFee, SetProtocolFee, DeactivateStakeAccount,
      CreateStake, DelegateStake, OwnerDeactivate, OwnerWithdraw, AuthorizeStaker,
      AuthorizeWithdrawer, SetLockup, LockupExpires, EpochPasses, ReservesReceive,
      StakeReceives, RecordReceives, HolderBurns

(* The marks on a quote say on which side the pool has moved.              *)
LEMMA EffectsTell ==
    ASSUME AccountsInv, AccountsInv', AnyStep, NEW s \in Stakes, s \notin records
    PROVE  /\ "drain" \notin Effects(s)
                  => /\ incoming' <= incoming /\ reserves <= reserves'
                     /\ incoming + reserves <= incoming' + reserves'
                     /\ RecordTopUp(s)' <= RecordTopUp(s)
           /\ "relief" \notin Effects(s)
                  => /\ incoming <= incoming' /\ reserves' <= reserves
                     /\ RecordTopUp(s)' = RecordTopUp(s)
           /\ "other" \notin Effects(s) => fee' = fee /\ lamports'[s] = lamports[s]
<1>1. /\ incoming \in Nat /\ reserves \in Nat /\ incoming' \in Nat /\ reserves' \in Nat
      /\ recordLamports[s] \in Nat /\ recordLamports'[s] \in Nat
  BY U64MaxAssumption DEF AccountsInv, AccountsTypeOK, U64
<1>2. recordLamports[s] <= recordLamports'[s]
  BY RecordsFill DEF AccountsInv
<1>3. RecordTopUp(s)' <= RecordTopUp(s)
  BY <1>1, <1>2, RentAssumption DEF RecordTopUp
<1>4. incoming' < incoming
         => incoming + reserves <= incoming' + reserves' /\ reserves < reserves'
  BY IncomingLeaves
<1>5. "drain" \notin Effects(s) => ~(reserves' < reserves \/ incoming' > incoming)
  BY DEF Effects
<1>6. "relief" \notin Effects(s)
         => ~(reserves' > reserves \/ recordLamports'[s] > recordLamports[s])
  BY DEF Effects
<1>7. "other" \notin Effects(s) => ~(fee' # fee \/ lamports'[s] # lamports[s])
  BY DEF Effects
<1>8. ASSUME "drain" \notin Effects(s)
      PROVE  /\ incoming' <= incoming /\ reserves <= reserves'
             /\ incoming + reserves <= incoming' + reserves'
  <2>1. incoming' <= incoming /\ reserves <= reserves'
    BY <1>1, <1>5, <1>8
  <2>2. incoming <= incoming' => incoming + reserves <= incoming' + reserves'
    BY <1>1, <2>1
  <2>3. incoming <= incoming' \/ incoming' < incoming
    BY <1>1
  <2> QED BY <1>4, <2>1, <2>2, <2>3
<1>9. ASSUME "relief" \notin Effects(s)
      PROVE  /\ incoming <= incoming' /\ reserves' <= reserves
             /\ RecordTopUp(s)' = RecordTopUp(s)
  <2>1. reserves' <= reserves /\ recordLamports'[s] = recordLamports[s]
    BY <1>1, <1>2, <1>6, <1>9
  <2>2. RecordTopUp(s)' = RecordTopUp(s)
    BY <2>1 DEF RecordTopUp
  <2>3. incoming <= incoming'
    BY <1>1, <1>4, <2>1
  <2> QED BY <2>1, <2>2, <2>3
<1> QED BY <1>3, <1>7, <1>8, <1>9

LEMMA EffectsType == ASSUME NEW s PROVE Effects(s) \subseteq Moved \cup {"other"}
BY DEF Effects, Moved

LEMMA RestMoves ==
    ASSUME NEW i \in Nat, NEW r \in Nat, NEW t \in Nat,
           NEW i2 \in Nat, NEW r2 \in Nat, NEW t2 \in Nat
    PROVE  /\ i + r <= i2 + r2 /\ t2 <= t => i + (r - t) <= i2 + (r2 - t2)
           /\ r2 <= r /\ t <= t2 => r2 - t2 <= r - t
OBVIOUS

LEMMA SinceStep ==
    ASSUME AccountsInv, AccountsInv', AnyStep, NEW s \in Stakes, s \notin records,
           NEW effects \in SUBSET Moved, NEW i \in Nat, NEW a \in Nat
    PROVE  /\ Since(effects, i, a, incoming, reserves)
                  => Since(effects \cup Effects(s), i, a, incoming', reserves')
           /\ Since(effects, i, a, incoming, reserves - RecordTopUp(s))
                  => Since(effects \cup Effects(s), i, a, incoming',
                           reserves' - RecordTopUp(s)')
<1> DEFINE after == effects \cup Effects(s)
<1>1. /\ incoming \in Nat /\ reserves \in Nat /\ incoming' \in Nat /\ reserves' \in Nat
      /\ recordLamports[s] \in Nat /\ recordLamports'[s] \in Nat
  BY U64MaxAssumption DEF AccountsInv, AccountsTypeOK, U64
<1>2. RecordTopUp(s) \in Nat /\ RecordTopUp(s)' \in Nat
  BY <1>1, RentAssumption DEF RecordTopUp
<1>3. after \subseteq {"relief"}
         => /\ effects \subseteq {"relief"}
            /\ incoming' <= incoming /\ reserves <= reserves'
            /\ incoming + reserves <= incoming' + reserves'
            /\ RecordTopUp(s)' <= RecordTopUp(s)
  <2>1. after \subseteq {"relief"} => effects \subseteq {"relief"} /\ "drain" \notin Effects(s)
    OBVIOUS
  <2> QED BY <2>1, EffectsTell
<1>4. after \subseteq {"drain"}
         => /\ effects \subseteq {"drain"}
            /\ incoming <= incoming' /\ reserves' <= reserves
            /\ RecordTopUp(s)' = RecordTopUp(s)
  <2>1. after \subseteq {"drain"} => effects \subseteq {"drain"} /\ "relief" \notin Effects(s)
    OBVIOUS
  <2> QED BY <2>1, EffectsTell
<1> HIDE DEF after
<1>5. ASSUME NEW b, NEW b2, b \in Int, b2 \in Int, Since(effects, i, a, incoming, b),
             after \subseteq {"relief"} => incoming + b <= incoming' + b2,
             after \subseteq {"drain"} => b2 <= b
      PROVE  Since(after, i, a, incoming', b2)
  <2>0. i + a \in Int /\ incoming + b \in Int /\ incoming' + b2 \in Int
    BY <1>1, <1>5
  <2>1. ASSUME after \subseteq {"relief"}
        PROVE  incoming' <= i /\ i + a <= incoming' + b2
    <3>1. incoming <= i /\ i + a <= incoming + b
      BY <1>3, <1>5, <2>1 DEF Since
    <3>2. incoming' <= incoming /\ incoming + b <= incoming' + b2
      BY <1>3, <1>5, <2>1
    <3>3. incoming' <= i
      BY <1>1, <3>1, <3>2
    <3>4. i + a <= incoming' + b2
      <4> DEFINE x == i + a
                 y == incoming + b
                 z == incoming' + b2
      <4> HIDE DEF x, y, z
      <4>1. x \in Int /\ y \in Int /\ z \in Int /\ x <= y /\ y <= z
        BY <2>0, <3>1, <3>2 DEF x, y, z
      <4> QED BY <4>1 DEF x, z
    <3> QED BY <3>3, <3>4
  <2>2. ASSUME after \subseteq {"drain"}
        PROVE  i <= incoming' /\ b2 <= a
    <3>1. i <= incoming /\ b <= a
      BY <1>4, <1>5, <2>2 DEF Since
    <3>2. incoming <= incoming' /\ b2 <= b
      BY <1>4, <1>5, <2>2
    <3> QED BY <1>1, <1>5, <3>1, <3>2
  <2> QED BY <2>1, <2>2 DEF Since
<1>6. Since(effects, i, a, incoming, reserves) => Since(after, i, a, incoming', reserves')
  BY <1>1, <1>3, <1>4, <1>5
<1> DEFINE b == reserves - RecordTopUp(s)
           b2 == reserves' - RecordTopUp(s)'
<1>7. /\ b \in Int /\ b2 \in Int
      /\ after \subseteq {"relief"} => incoming + b <= incoming' + b2
      /\ after \subseteq {"drain"} => b2 <= b
  <2>1. b \in Int /\ b2 \in Int
    BY <1>1, <1>2
  <2>2. /\ incoming + reserves <= incoming' + reserves' /\ RecordTopUp(s)' <= RecordTopUp(s)
             => incoming + b <= incoming' + b2
        /\ reserves' <= reserves /\ RecordTopUp(s) <= RecordTopUp(s)' => b2 <= b
    BY <1>1, <1>2, RestMoves, Zenon
  <2>3. RecordTopUp(s)' = RecordTopUp(s) => RecordTopUp(s) <= RecordTopUp(s)'
    BY <1>2
  <2> HIDE DEF b, b2
  <2> QED BY <1>3, <1>4, <2>1, <2>2, <2>3
<1>8. Since(effects, i, a, incoming, b) => Since(after, i, a, incoming', b2)
  <2> HIDE DEF b, b2
  <2> QED BY <1>5, <1>7
<1> QED BY <1>6, <1>8 DEF after

(* Every step of the pool that keeps a quote keeps what is known of it.    *)
LEMMA SimulatedStep ==
    ASSUME AccountsInv, AccountsInv', AnyStep, NEW s \in Stakes, s \notin records,
           "other" \notin Effects(s), NEW effects \in SUBSET Moved,
           NEW request, NEW steady, NEW change,
           Simulated(fee, lamports[s], request, effects, steady, change,
                     incoming, reserves - RecordTopUp(s))
    PROVE  Simulated(fee', lamports'[s], request, effects \cup Effects(s), steady, change,
                     incoming', reserves' - RecordTopUp(s)')
<1>1. PICK i, a, cost \in Nat :
          /\ cost = ApplyFee(fee, i, a, lamports[s]) /\ cost <= lamports[s]
          /\ Since(effects, i, a, incoming, reserves - RecordTopUp(s))
          /\ steady => change = ChangeBy(request, lamports[s] - cost)
  BY Zenon DEF Simulated
<1>2. fee' = fee /\ lamports'[s] = lamports[s]
  BY EffectsTell
<1>3. Since(effects \cup Effects(s), i, a, incoming', reserves' - RecordTopUp(s)')
  BY <1>1, SinceStep, Zenon
<1>4. /\ cost = ApplyFee(fee', i, a, lamports'[s]) /\ cost <= lamports'[s]
      /\ steady => change = ChangeBy(request, lamports'[s] - cost)
  BY <1>1, <1>2, Zenon
<1> QED BY <1>3, <1>4, Zenon DEF Simulated

LEMMA QuoteMoves ==
    ASSUME AccountsInv, AccountsInv', AnyStep, PoolMoves, QuoteInv
    PROVE  QuoteInv'
<1> DEFINE s == quote.stake
           after == quote.since \cup Effects(s)
<1>1. CASE quote' = NoQuote
  BY <1>1 DEF QuoteInv
<1>2. CASE quote # NoQuote /\ quote' # NoQuote
  <2>1. /\ quote' = [quote EXCEPT !.since = after]
        /\ ~Sold(s) /\ "other" \notin Effects(s) /\ s \notin records
    BY <1>2 DEF PoolMoves, QuoteInv
  <2>2. s \notin records' /\ Effects(s) \subseteq Moved
    BY <2>1, EffectsType DEF Sold
  <2> HIDE DEF after
  <2>3. ASSUME quote \in Reading, ReadingInv
        PROVE  quote' \in Reading /\ ReadingInv'
    <3>1. /\ quote.reserves \in Nat /\ s \in Stakes /\ after \in SUBSET Moved
          /\ quote' \in Reading /\ quote'.reserves = quote.reserves /\ quote'.since = after
      BY <2>1, <2>2, <2>3 DEF Reading, after
    <3>2. reserves \in Nat /\ reserves' \in Nat
      BY DEF AccountsInv, AccountsTypeOK
    <3>3. ASSUME after \subseteq {"relief"} PROVE quote.reserves <= reserves'
      <4>1. quote.since \subseteq {"relief"} /\ "drain" \notin Effects(s)
        BY <3>3 DEF after
      <4>2. quote.reserves <= reserves /\ reserves <= reserves'
        BY <2>1, <2>3, <3>1, <4>1, EffectsTell DEF ReadingInv
      <4> QED BY <3>1, <3>2, <4>2
    <3>4. ASSUME after \subseteq {"drain"} PROVE reserves' <= quote.reserves
      <4>1. quote.since \subseteq {"drain"} /\ "relief" \notin Effects(s)
        BY <3>4 DEF after
      <4>2. reserves <= quote.reserves /\ reserves' <= reserves
        BY <2>1, <2>3, <3>1, <4>1, EffectsTell DEF ReadingInv
      <4> QED BY <3>1, <3>2, <4>2
    <3> QED BY <2>3, <3>1, <3>3, <3>4 DEF ReadingInv
  <2>4. ASSUME NEW read \in [incoming : Nat, reserves : Nat], QuotedInv(read)
        PROVE  QuotedInv(read)'
    <3> DEFINE est == ApplyFeeSdk(read, lamports[s])
    <3>1. /\ quote \in Quoted(est)
          /\ Since(quote.since, read.incoming, read.reserves, incoming, reserves)
          /\ read.reserves >= RecordRent /\ read.incoming + read.reserves > RecordRent
      BY <2>4 DEF QuotedInv
    <3> HIDE DEF est
    <3>2. /\ s \in Stakes /\ quote.since \in SUBSET Moved
          /\ quote' \in Quoted(est) /\ quote'.since = after /\ quote'.stake = s
      BY <2>1, <2>2, <3>1 DEF Quoted, after
    <3>3. Since(after, read.incoming, read.reserves, incoming', reserves')
      BY <2>1, <3>1, <3>2, SinceStep DEF after
    <3>4. est = ApplyFeeSdk(read, lamports[quote.stake])'
      <4>1. fee' = fee /\ lamports'[s] = lamports[s]
        BY <2>1, <3>2, EffectsTell
      <4>2. lamports'[quote'.stake] = lamports[s]
        BY <3>2, <4>1
      <4> QED
        BY <4>1, <4>2, Zenon
        DEF est, ApplyFeeSdk, ApplyLiquidityLinearFee, SlopeDenom, MaxNum, ZeroNum
    <3> QED BY <3>1, <3>2, <3>3, <3>4 DEF QuotedInv
  <2>5. ASSUME quote \in Requested, RequestedInv
        PROVE  quote' \in Requested /\ RequestedInv'
    <3>1. /\ s \in Stakes /\ quote.since \in SUBSET Moved
          /\ quote' \in Requested /\ quote'.since = after /\ quote'.stake = s
          /\ quote'.pre = quote.pre /\ quote'.post = quote.post
          /\ quote'.balance = quote.balance /\ quote'.steady = quote.steady
          /\ quote'.request = quote.request
      BY <2>1, <2>2, <2>5 DEF Requested, after
    <3>2. ASSUME quote.post # Unanswered
          PROVE  SimulatedChangeIs(quote.post - quote.balance)'
      <4>1. SimulatedChangeIs(quote.post - quote.balance)
        BY <2>5, <3>2 DEF RequestedInv
      <4>2. Simulated(fee', lamports'[s], quote.request, after, quote.steady,
                      quote.post - quote.balance, incoming', reserves' - RecordTopUp(s)')
        BY <2>1, <3>1, <4>1, SimulatedStep DEF SimulatedChangeIs, after
      <4> QED BY <3>1, <4>2, Zenon DEF SimulatedChangeIs
    <3> QED BY <2>5, <3>1, <3>2 DEF RequestedInv
  <2>6. ASSUME quote \in Answers, PreviewedInv
        PROVE  quote' \in Answers /\ PreviewedInv'
    <3>1. /\ s \in Stakes /\ quote.since \in SUBSET Moved
          /\ quote' \in Answers /\ quote'.since = after /\ quote'.stake = s
          /\ quote'.change = quote.change /\ quote'.steady = quote.steady
          /\ quote'.request = quote.request
      BY <2>1, <2>2, <2>6 DEF Answers, after
    <3>2. Simulated(fee', lamports'[s], quote.request, after, quote.steady,
                    quote.change, incoming', reserves' - RecordTopUp(s)')
      BY <2>1, <2>6, <3>1, SimulatedStep DEF SimulatedChangeIs, PreviewedInv, after
    <3> QED BY <3>1, <3>2, Zenon DEF SimulatedChangeIs, PreviewedInv
  <2>7. quote'.stake \notin records'
    <3>1. quote'.stake = s
      BY <1>2, <2>1 DEF QuoteInv, Reading, QuotedInv, Quoted, Requested, Answers
    <3> QED BY <2>2, <3>1
  <2> QED BY <1>2, <2>3, <2>4, <2>5, <2>6, <2>7 DEF QuoteInv
<1>3. CASE quote = NoQuote
  BY <1>3 DEF PoolMoves, QuoteInv
<1> QED BY <1>1, <1>2, <1>3

(* The SDK's requests and their answers.                                   *)
LEMMA ReadReservesKeeps ==
    ASSUME AccountsInv, NEW s \in Stakes, ReadReserves(s)
    PROVE  QuoteInv'
<1>1. reserves \in Nat
  BY DEF AccountsInv, AccountsTypeOK
<1>2. /\ s \notin records' /\ reserves' = reserves /\ reserves >= RecordRent
      /\ quote' = [stage |-> "reserves", stake |-> s, reserves |-> reserves, since |-> {}]
  BY DEF ReadReserves, vars, ledgerVars, recordVars
<1>3. /\ quote' \in Reading /\ quote'.stake = s
      /\ quote'.reserves = reserves /\ quote'.since = {}
  BY <1>1, <1>2 DEF Reading
<1>4. ReadingInv'
  BY <1>1, <1>2, <1>3 DEF ReadingInv
<1> QED BY <1>2, <1>3, <1>4 DEF QuoteInv

LEMMA ReadPoolKeeps ==
    ASSUME AccountsInv, QuoteInv, ReadPool
    PROVE  QuoteInv'
<1> DEFINE s == quote.stake
<1>1. incoming \in Nat /\ reserves \in Nat
  BY U64MaxAssumption DEF AccountsInv, AccountsTypeOK, U64
<1>2. quote \in Reading /\ ReadingInv /\ s \notin records
  BY DEF ReadPool, QuoteInv, NoQuote, QuotedInv, Quoted, Requested, Answers
<1>3. /\ s \in Stakes /\ quote.reserves \in Nat /\ quote.since \in SUBSET Moved
      /\ quote.reserves >= RecordRent
  BY <1>2 DEF Reading, ReadingInv
<1>4. PICK read : read = [incoming |-> incoming, reserves |-> quote.reserves]
  OBVIOUS
<1> DEFINE est == ApplyFeeSdk(read, lamports[s])
<1>5. /\ incoming + quote.reserves > RecordRent
      /\ quote' = [stage |-> "quoted", stake |-> s, since |-> quote.since, estimate |-> est]
      /\ UNCHANGED vars
  BY <1>4, Zenon DEF ReadPool
<1>6. /\ read \in [incoming : Nat, reserves : Nat]
      /\ read.incoming = incoming /\ read.reserves = quote.reserves
  BY <1>1, <1>3, <1>4
<1>7. Since(quote.since, read.incoming, read.reserves, incoming, reserves)
  BY <1>1, <1>2, <1>3, <1>6 DEF Since, ReadingInv
<1>8. ApplyFeeSdk(read, lamports[quote.stake])' = est
  <2>1. fee' = fee /\ lamports'[quote'.stake] = lamports[s]
    BY <1>5 DEF vars, configVars, stakeVars
  <2> QED
    BY <2>1, Zenon
    DEF est, ApplyFeeSdk, ApplyLiquidityLinearFee, SlopeDenom, MaxNum, ZeroNum
<1> HIDE DEF est
<1>9. quote' \in Quoted(est) /\ quote'.stake = s /\ quote'.since = quote.since
  BY <1>3, <1>5 DEF Quoted
<1>10. s \notin records' /\ incoming' = incoming /\ reserves' = reserves
  BY <1>2, <1>5 DEF vars, ledgerVars, recordVars
<1>11. QuotedInv(read)'
  BY <1>3, <1>5, <1>6, <1>7, <1>8, <1>9, <1>10 DEF QuotedInv
<1> QED BY <1>6, <1>9, <1>10, <1>11 DEF QuoteInv

LEMMA RequestKeeps ==
    ASSUME NEW s \in Stakes, NEW request \in Requests, NEW balance \in Balances,
           Request(s, request, balance)
    PROVE  QuoteInv'
<1>1. /\ s \notin records'
      /\ quote' = [stage |-> "requested", stake |-> s, request |-> request, since |-> {},
                   pre |-> Unanswered, post |-> Unanswered,
                   balance |-> balance, steady |-> TRUE]
  BY DEF Request, vars, recordVars
<1>2. balance \in Int /\ Unanswered \in Int
  BY RequestsAssumption DEF Unanswered
<1>3. /\ quote' \in Requested /\ quote'.stake = s
      /\ quote'.pre = Unanswered /\ quote'.post = Unanswered
  BY <1>1, <1>2 DEF Requested
<1> QED BY <1>1, <1>3 DEF QuoteInv, RequestedInv

(* Both answers or one: the two ways that Answered goes on.                *)
LEMMA AnsweredKeeps ==
    ASSUME QuoteInv, UNCHANGED vars, NEW q \in Requested, quote' = Answered(q),
           q.stake \notin records,
           q.pre # Unanswered /\ q.steady => q.pre = q.balance,
           q.post # Unanswered
              => Simulated(fee, lamports[q.stake], q.request, q.since, q.steady,
                           q.post - q.balance, incoming, reserves - RecordTopUp(q.stake))
    PROVE  QuoteInv'
<1> DEFINE Sim(r, change) ==
      Simulated(fee, lamports[r.stake], r.request, r.since, r.steady, change,
                incoming, reserves - RecordTopUp(r.stake))
<1>1. q.stake \notin records' /\ q.stake \in Stakes
  BY DEF vars, recordVars, Requested
<1>2. ASSUME NEW change, Sim(quote', change)
      PROVE  SimulatedChangeIs(change)'
  <2>1. /\ fee' = fee /\ incoming' = incoming /\ reserves' = reserves
        /\ lamports' = lamports /\ recordLamports' = recordLamports
    BY DEF vars, ledgerVars, configVars, recordVars, stakeVars
  <2> QED BY <1>2, <2>1, Zenon DEF SimulatedChangeIs, RecordTopUp
<1>3. CASE Unanswered \in {q.pre, q.post}
  <2>1. quote' = q
    BY <1>3 DEF Answered
  <2> QED BY <1>1, <1>2, <2>1 DEF QuoteInv, RequestedInv
<1>4. CASE Unanswered \notin {q.pre, q.post}
  <2>1. quote' = [stage |-> "previewed", stake |-> q.stake, request |-> q.request,
                  since |-> q.since, steady |-> q.steady, change |-> q.post - q.pre]
    BY <1>4 DEF Answered, Change
  <2>2. q.post - q.pre \in Int
    BY DEF Requested
  <2>3. /\ quote' \in Answers /\ quote'.stake = q.stake /\ quote'.request = q.request
        /\ quote'.since = q.since /\ quote'.steady = q.steady
        /\ quote'.change = q.post - q.pre
    BY <2>1, <2>2 DEF Requested, Answers
  <2>4. PICK i, a, cost \in Nat :
            /\ cost = ApplyFee(fee, i, a, lamports[q.stake]) /\ cost <= lamports[q.stake]
            /\ Since(q.since, i, a, incoming, reserves - RecordTopUp(q.stake))
            /\ q.steady => q.post - q.balance = ChangeBy(q.request, lamports[q.stake] - cost)
    BY <1>4, Zenon DEF Simulated
  <2>5. q.steady => q.post - q.pre = ChangeBy(q.request, lamports[q.stake] - cost)
    BY <1>4, <2>4
  <2>6. Sim(q, q.post - q.pre)
    BY <2>4, <2>5, Zenon DEF Simulated
  <2>7. Sim(quote', quote'.change)
    BY <2>3, <2>6, Zenon
  <2>8. PreviewedInv'
    BY <1>2, <2>7 DEF PreviewedInv
  <2> QED BY <1>1, <2>3, <2>8 DEF QuoteInv
<1> QED BY <1>3, <1>4

LEMMA AnswerBalanceKeeps == ASSUME QuoteInv, AnswerBalance PROVE QuoteInv'
<1> DEFINE q == [quote EXCEPT !.pre = quote.balance]
<1>1. /\ quote \in Requested /\ RequestedInv /\ quote.stake \notin records
      /\ UNCHANGED vars /\ quote' = Answered(q)
  BY DEF AnswerBalance, QuoteInv, NoQuote, Reading, QuotedInv, Quoted, Answers
<1>2. /\ q \in Requested /\ q.stake = quote.stake /\ q.request = quote.request
      /\ q.since = quote.since /\ q.steady = quote.steady /\ q.post = quote.post
      /\ q.balance = quote.balance /\ q.pre = quote.balance
  BY <1>1 DEF Requested
<1> HIDE DEF q
<1>3. q.post # Unanswered
         => Simulated(fee, lamports[q.stake], q.request, q.since, q.steady,
                      q.post - q.balance, incoming, reserves - RecordTopUp(q.stake))
  BY <1>1, <1>2, Zenon DEF RequestedInv, SimulatedChangeIs
<1> QED BY <1>1, <1>2, <1>3, AnsweredKeeps

LEMMA AnswerSimulationKeeps ==
    ASSUME AccountsInv, QuoteInv, AnswerSimulation
    PROVE  QuoteInv'
<1> DEFINE s == quote.stake
           change == SimulatedChange(s, quote.request)
           q == [quote EXCEPT !.post = quote.balance + change, !.since = {}]
<1>1. /\ quote \in Requested /\ RequestedInv /\ s \notin records /\ UNCHANGED vars
      /\ IF \E u \in Users : CanUnstake(u, s) THEN quote' = Answered(q) ELSE quote' = NoQuote
  <2>1. quote \in Requested /\ RequestedInv /\ s \notin records
    BY DEF AnswerSimulation, QuoteInv, NoQuote, Reading, QuotedInv, Quoted, Answers
  <2> QED BY <2>1, Zenon DEF AnswerSimulation
<1>2. ASSUME NEW u \in Users, CanUnstake(u, s)
      PROVE  /\ s \in OnSale /\ Quote(s) \in Nat /\ Quote(s) <= lamports[s]
             /\ Payout(s) = lamports[s] - Quote(s)
  <2>1. s \in OnSale /\ Quote(s) \in Nat /\ Payout(s) \in Nat
    BY <1>2, U64MaxAssumption DEF CanUnstake, U64
  <2>2. lamports[s] \in Nat /\ Payout(s) = lamports[s] - Quote(s)
    BY <2>1, QuoteTerms DEF Payout
  <2> QED BY <2>1, <2>2
<1>3. CASE \E u \in Users : CanUnstake(u, s)
  <2>1. PICK u \in Users : CanUnstake(u, s)
    BY <1>3
  <2> DEFINE a == reserves - RecordTopUp(s)
             cost == Quote(s)
             stake == lamports[s]
  <2>2. /\ s \in OnSale /\ cost \in Nat /\ cost <= stake /\ Payout(s) = stake - cost
        /\ quote' = Answered(q)
    BY <1>1, <1>2, <1>3, <2>1
  <2>3. incoming \in Nat /\ a \in Nat /\ stake \in Nat
    BY <2>2, QuoteTerms
  <2>4. cost = ApplyFee(fee, incoming, a, stake)
    BY DEF Quote
  <2>5. change = ChangeBy(quote.request, stake - cost)
    BY <2>2 DEF SimulatedChange, ChangeBy
  <2> HIDE DEF a, cost, stake, change
  <2>6. change \in Int
    <3>1. NetworkFee \in Int /\ stake - cost \in Int
      BY <2>2, <2>3, RequestsAssumption
    <3> QED BY <2>5, <3>1 DEF ChangeBy
  <2>7. /\ q \in Requested /\ q.stake = s /\ q.request = quote.request
        /\ q.since = {} /\ q.steady = quote.steady /\ q.balance = quote.balance
        /\ q.pre = quote.pre /\ q.post = quote.balance + change /\ q.balance \in Int
    <3> DEFINE sum == quote.balance + change
    <3>1. quote \in Requested /\ quote.balance \in Int
      BY <1>1 DEF Requested
    <3>2. sum \in Int
      BY <2>6, <3>1
    <3>3. q = [quote EXCEPT !.post = sum, !.since = {}]
      OBVIOUS
    <3> HIDE DEF sum, q
    <3> QED BY <3>1, <3>2, <3>3 DEF Requested, sum
  <2> HIDE DEF q
  <2>8. q.post - q.balance = change
    BY <2>6, <2>7
  <2>9. Since({}, incoming, a, incoming, a)
    BY <2>3 DEF Since
  <2>10. Simulated(fee, stake, q.request, q.since, q.steady, change, incoming, a)
    BY <2>2, <2>3, <2>4, <2>5, <2>7, <2>9, Zenon DEF Simulated
  <2>11. Simulated(fee, lamports[q.stake], q.request, q.since, q.steady,
                   q.post - q.balance, incoming, reserves - RecordTopUp(q.stake))
    BY <2>7, <2>8, <2>10, Zenon DEF a, stake
  <2>12. q.pre # Unanswered /\ q.steady => q.pre = q.balance
    BY <1>1, <2>7 DEF RequestedInv
  <2> QED BY <1>1, <2>2, <2>7, <2>11, <2>12, AnsweredKeeps
<1>4. CASE ~ \E u \in Users : CanUnstake(u, s)
  BY <1>1, <1>4 DEF QuoteInv
<1> QED BY <1>3, <1>4

LEMMA AccountMovesKeeps ==
    ASSUME QuoteInv, NEW balance \in Balances, AccountMoves(balance)
    PROVE  QuoteInv'
<1>1. /\ quote \in Requested /\ RequestedInv /\ quote.stake \notin records
      /\ UNCHANGED vars
      /\ quote' = [quote EXCEPT !.balance = balance, !.steady = FALSE]
  BY DEF AccountMoves, QuoteInv, NoQuote, Reading, QuotedInv, Quoted, Answers
<1>2. balance \in Int
  BY RequestsAssumption
<1>3. /\ quote' \in Requested /\ quote'.stake = quote.stake
      /\ quote'.request = quote.request /\ quote'.since = quote.since
      /\ quote'.steady = FALSE /\ quote'.post = quote.post
  BY <1>1, <1>2 DEF Requested
<1>4. ASSUME quote'.post # Unanswered
      PROVE  SimulatedChangeIs(quote.post - balance)'
  <2>1. SimulatedChangeIs(quote.post - quote.balance)
    BY <1>1, <1>3, <1>4 DEF RequestedInv
  <2>2. Simulated(fee, lamports[quote.stake], quote.request, quote.since, FALSE,
                  quote.post - balance, incoming, reserves - RecordTopUp(quote.stake))
    BY <2>1, Zenon DEF SimulatedChangeIs, Simulated
  <2>3. /\ fee' = fee /\ incoming' = incoming /\ reserves' = reserves
        /\ lamports' = lamports /\ recordLamports' = recordLamports
    BY <1>1 DEF vars, ledgerVars, configVars, recordVars, stakeVars
  <2> QED BY <1>3, <2>2, <2>3, Zenon DEF SimulatedChangeIs, RecordTopUp
<1>5. quote'.balance = balance
  BY <1>1 DEF Requested
<1>6. quote'.stake \notin records'
  BY <1>1, <1>3 DEF vars, recordVars
<1> QED BY <1>3, <1>4, <1>5, <1>6 DEF QuoteInv, RequestedInv

-----------------------------------------------------------------------------
(* The invariant and what it promises.                                     *)

(* While the SDK waits and computes, the pool either moves or rests.       *)
LEMMA PreviewsStep ==
    ASSUME PreviewsNext
    PROVE  (PoolMoves /\ Next /\ AnyStep) \/ UNCHANGED vars
<1>1. PoolMoves => Next /\ AnyStep
  BY MovementIsNext DEF PoolMoves
<1> QED
  BY <1>1
  DEF PreviewsNext, ReadPool, ReadReserves, Request, AnswerBalance, AnswerSimulation,
      AccountMoves

LEMMA QuoteStutter == ASSUME QuoteInv, UNCHANGED <<vars, quote>> PROVE QuoteInv'
<1>1. /\ quote' = quote /\ fee' = fee /\ incoming' = incoming /\ reserves' = reserves
      /\ lamports' = lamports /\ recordLamports' = recordLamports /\ records' = records
  BY DEF vars, ledgerVars, configVars, recordVars, stakeVars
<1> QED
  BY <1>1, Zenon
  DEF QuoteInv, ReadingInv, QuotedInv, RequestedInv, PreviewedInv, SimulatedChangeIs,
      RecordTopUp, ApplyFeeSdk, ApplyLiquidityLinearFee, SlopeDenom, MaxNum, ZeroNum

LEMMA QuoteInvStep ==
    ASSUME IInv, QuoteInv, [PreviewsNext]_<<vars, quote>>
    PROVE  IInv' /\ QuoteInv'
<1>1. CASE UNCHANGED <<vars, quote>>
  BY <1>1, IInvStep, QuoteStutter
<1>2. CASE PreviewsNext
  <2>1. IInv'
    <3>1. [Next]_vars
      BY <1>2, PreviewsStep
    <3> QED BY <3>1, IInvStep
  <2>2. AccountsInv /\ AccountsInv'
    BY <2>1 DEF IInv
  <2>3. CASE PoolMoves
    BY <2>1, <2>2, <2>3, MovementIsNext, QuoteMoves DEF PoolMoves
  <2>4. CASE ReadPool
    BY <2>1, <2>2, <2>4, ReadPoolKeeps
  <2>5. ASSUME NEW s \in Stakes, ReadReserves(s) PROVE QuoteInv'
    BY <2>2, <2>5, ReadReservesKeeps
  <2>6. ASSUME NEW s \in Stakes, NEW request \in Requests, NEW balance \in Balances,
               Request(s, request, balance)
        PROVE  QuoteInv'
    BY <2>6, RequestKeeps
  <2>7. CASE AnswerBalance
    BY <2>1, <2>7, AnswerBalanceKeeps
  <2>8. CASE AnswerSimulation
    BY <2>1, <2>2, <2>8, AnswerSimulationKeeps
  <2>9. ASSUME NEW balance \in Balances, AccountMoves(balance) PROVE QuoteInv'
    BY <2>9, AccountMovesKeeps
  <2> QED
    BY <1>2, <2>1, <2>3, <2>4, <2>5, <2>6, <2>7, <2>8, <2>9, Zenon DEF PreviewsNext
<1> QED BY <1>1, <1>2

(* Whatever the SDK holds was once true of a pool that has since moved     *)
(* only in the way it is marked with.                                      *)
THEOREM QuotesStayMarked == PreviewsSpec => [](IInv /\ QuoteInv)
<1>1. QuotesInit => IInv /\ QuoteInv
  BY IInvInit DEF QuotesInit, QuoteInv
<1>2. IInv /\ QuoteInv /\ [PreviewsNext]_<<vars, quote>> => (IInv /\ QuoteInv)'
  BY QuoteInvStep
<1> QED BY <1>1, <1>2, PTL DEF PreviewsSpec

LEMMA PaidStep ==
    ASSUME IInv, PreviewsNext, NEW s \in Stakes, PaidFor(s)
    PROVE  AccountsInv /\ AnyStep
<1>1. ~ UNCHANGED vars
  BY DEF PaidFor, Sold, vars, recordVars
<1> QED BY <1>1, PreviewsStep DEF IInv

LEMMA EstimateStep ==
    ASSUME IInv, QuoteInv, PreviewsNext, NEW s \in Stakes,
           PaidFor(s), NoProtocolFee, quote.stage = "quoted", quote.stake = s
    PROVE  /\ quote.since \subseteq {"relief"}
                 => (Kept(s) - quote.estimate - 1) * ONE < 2 * lamports[s]
           /\ quote.since \subseteq {"drain"} /\ recordLamports[s] = 0
                 => (quote.estimate - 1 - Kept(s)) * ONE < 3 * lamports[s]
<1>1. PICK read \in [incoming : Nat, reserves : Nat] : QuotedInv(read)
  BY DEF QuoteInv, NoQuote, Reading, Requested, Answers
<1> DEFINE est == ApplyFeeSdk(read, lamports[s])
<1>2. /\ read.reserves >= RecordRent /\ read.incoming + read.reserves > RecordRent
      /\ quote \in Quoted(est)
      /\ Since(quote.since, read.incoming, read.reserves, incoming, reserves)
  BY <1>1 DEF QuotedInv
<1>3. /\ incoming <= read.incoming
         /\ read.incoming + read.reserves <= incoming + reserves
             => (Kept(s) - est - 1) * ONE < 2 * lamports[s]
      /\ read.incoming <= incoming /\ reserves <= read.reserves
         /\ recordLamports[s] = 0
             => (est - 1 - Kept(s)) * ONE < 3 * lamports[s]
  BY <1>2, PaidStep, EstimateErrs
<1> HIDE DEF est
<1>4. quote.estimate = est
  BY <1>2 DEF Quoted
<1> QED BY <1>2, <1>3, <1>4, Zenon DEF Since

(* The estimate of the SDK errs on a known side, by a lamport and a few    *)
(* units of the program's fixed point.                                     *)
THEOREM EstimateCorrect == PreviewsSpec => EstimateErrsKnowingly
<1> DEFINE Errs ==
      \A s \in Stakes :
          /\ PaidFor(s) /\ NoProtocolFee
          /\ quote.stage = "quoted" /\ quote.stake = s
          => /\ quote.since \subseteq {"relief"}
                    => (Kept(s) - quote.estimate - 1) * ONE < 2 * lamports[s]
             /\ quote.since \subseteq {"drain"} /\ recordLamports[s] = 0
                    => (quote.estimate - 1 - Kept(s)) * ONE < 3 * lamports[s]
<1>1. IInv /\ QuoteInv /\ [PreviewsNext]_<<vars, quote>> => [Errs]_<<vars, quote>>
  <2> SUFFICES ASSUME IInv, QuoteInv, PreviewsNext PROVE Errs
    BY Zenon
  <2> QED BY EstimateStep, Zenon
<1>2. EstimateErrsKnowingly <=> [][Errs]_<<vars, quote>>
  BY DEF EstimateErrsKnowingly
<1> HIDE DEF Errs
<1> QED BY <1>1, <1>2, QuotesStayMarked, PTL DEF PreviewsSpec

LEMMA PreviewStep ==
    ASSUME IInv, QuoteInv, PreviewsNext, NEW s \in Stakes,
           Swapped(s), DestinationGiven(quote.request)
    PROVE  /\ quote.since = {} => Paid(s) = Previewed(quote)
           /\ quote.since \subseteq {"relief"} => Paid(s) >= Previewed(quote)
           /\ quote.since \subseteq {"drain"}
                  => (Paid(s) - Previewed(quote) - 1) * ONE < lamports[s]
<1> DEFINE stake == lamports[s]
           res == reserves - RecordTopUp(s)
           kept == Kept(s)
<1>1. /\ PaidFor(s) /\ NoProtocolFee /\ quote.stage = "previewed"
      /\ quote.stake = s /\ quote.steady
  BY DEF Swapped
<1>2. quote \in Answers /\ SimulatedChangeIs(quote.change)
  BY <1>1 DEF QuoteInv, NoQuote, Reading, QuotedInv, Quoted, Requested, PreviewedInv
<1>3. PICK i, a, cost \in Nat :
          /\ cost = ApplyFee(fee, i, a, stake) /\ cost <= stake
          /\ Since(quote.since, i, a, incoming, res)
          /\ quote.change = ChangeBy(quote.request, stake - cost)
  BY <1>1, <1>2, Zenon DEF SimulatedChangeIs, Simulated
<1>4. AccountsInv /\ AnyStep
  BY <1>1, PaidStep
<1>5. /\ s \in OnSale /\ FeeRatio(fee, incoming, res, stake) # None
      /\ kept = PreciseCeiling(PreciseMul(PreciseNew(stake), FeeRatio(fee, incoming, res, stake)))
      /\ kept \in Nat /\ kept < stake /\ stake - kept <= res
  BY <1>1, <1>4, SwapTerms
<1>6. kept = ApplyFee(fee, incoming, res, stake)
  BY <1>5, Zenon DEF ApplyFee
<1>7. /\ fee \in FeeEnum /\ ValidFee(fee) /\ stake \in Nat \ {0} /\ incoming \in Nat
      /\ res \in Nat
  BY <1>4, <1>5, QuoteTerms
<1>8. Paid(s) = stake - kept
  BY DEF Paid
<1>9. Previewed(quote) = stake - cost
  <2>1. Observed(quote.request) = Destination(quote.request)
    <3>1. quote.request.instruction \in {"unstake", "unstake_wsol"}
      BY <1>2, RequestsAssumption DEF Answers
    <3> QED BY <3>1 DEF DestinationGiven, Observed, Destination
  <2>2. NetworkFee \in Nat /\ stake - cost \in Int
    BY <1>3, <1>7, RequestsAssumption
  <2> HIDE DEF stake
  <2> QED BY <1>3, <2>1, <2>2 DEF Previewed, ChangeBy
<1> HIDE DEF stake, res, kept
<1>10. ASSUME quote.since \subseteq {"relief"} PROVE kept <= cost
  <2>1. incoming <= i /\ i + a <= incoming + res
    BY <1>3, <1>10 DEF Since
  <2> QED BY <1>3, <1>6, <1>7, <2>1, FeeFollowsShare
<1>11. ASSUME quote.since \subseteq {"drain"} PROVE (cost - kept - 1) * ONE < stake
  <2>1. i <= incoming /\ res <= a
    BY <1>3, <1>11 DEF Since
  <2> QED BY <1>3, <1>5, <1>6, <1>7, <2>1, FeeOfDrained
<1>12. ASSUME quote.since = {} PROVE kept = cost
  <2>1. incoming <= i /\ i + a <= incoming + res /\ i <= incoming /\ res <= a
    BY <1>3, <1>12 DEF Since
  <2>2. i = incoming /\ a = res
    BY <1>3, <1>7, <2>1
  <2> QED BY <1>3, <1>6, <2>2
<1>13. Paid(s) - Previewed(quote) = cost - kept
  BY <1>3, <1>5, <1>7, <1>8, <1>9
<1>14. quote.since \subseteq {"relief"} => Paid(s) >= Previewed(quote)
  BY <1>3, <1>5, <1>7, <1>8, <1>9, <1>10
<1>15. quote.since \subseteq {"drain"}
          => (Paid(s) - Previewed(quote) - 1) * ONE < lamports[s]
  BY <1>11, <1>13, Zenon DEF stake
<1> QED BY <1>8, <1>9, <1>12, <1>14, <1>15

(* And so does the preview of a swap: exact for the pool as it was, and on *)
(* the safe side of one that has gained liquidity.                         *)
THEOREM PreviewCorrect == PreviewsSpec => PreviewErrsKnowingly
<1> DEFINE Errs ==
      \A s \in Stakes : Swapped(s) /\ DestinationGiven(quote.request) =>
           /\ quote.since = {} => Paid(s) = Previewed(quote)
           /\ quote.since \subseteq {"relief"} => Paid(s) >= Previewed(quote)
           /\ quote.since \subseteq {"drain"}
                  => (Paid(s) - Previewed(quote) - 1) * ONE < lamports[s]
<1>1. IInv /\ QuoteInv /\ [PreviewsNext]_<<vars, quote>> => [Errs]_<<vars, quote>>
  <2> SUFFICES ASSUME IInv, QuoteInv, PreviewsNext PROVE Errs
    BY Zenon
  <2> QED BY PreviewStep, Zenon
<1>2. PreviewErrsKnowingly <=> [][Errs]_<<vars, quote>>
  BY DEF PreviewErrsKnowingly
<1> HIDE DEF Errs
<1> QED BY <1>1, <1>2, QuotesStayMarked, PTL DEF PreviewsSpec

=============================================================================
