------------------------- MODULE FeeScheduleProofs -------------------------
(***************************************************************************)
(* Proofs about the fee schedules, in the fixed-point arithmetic of the    *)
(* code: for any scale ONE, any ends of a linear schedule that validate    *)
(* accepts and any pool, the rounding of two divisions never turns the     *)
(* direction in which a quote moves.                                       *)
(***************************************************************************)
EXTENDS FeeSchedule, UnstakePoolProofs

-----------------------------------------------------------------------------
(* Integer arithmetic.                                                     *)

LEMMA TimesMonotone ==
    ASSUME NEW a \in Int, NEW b \in Int, NEW c \in Nat, a <= b
    PROVE  c * a <= c * b
<1>1. b - a \in Nat
  OBVIOUS
<1>2. c * (b - a) \in Nat
  BY <1>1
<1>3. c * (b - a) = c * b - c * a
  OBVIOUS
<1> QED BY <1>2, <1>3

(* A divisor that fits is at most the quotient, and the other way round.   *)
LEMMA QuotientAtLeast ==
    ASSUME NEW n \in Nat, NEW d \in Nat \ {0}, NEW q \in Nat, q * d <= n
    PROVE  q <= n \div d
<1> DEFINE p == n \div d
<1>1. p \in Nat /\ n < d * p + d
  BY DivBounds
<1> HIDE DEF p
<1>2. SUFFICES ASSUME p + 1 <= q PROVE FALSE
  BY <1>1 DEF p
<1>3. d * (p + 1) <= d * q
  BY <1>1, <1>2, TimesMonotone
<1>4. d * (p + 1) = d * p + d /\ d * q = q * d
  BY <1>1
<1> QED BY <1>1, <1>3, <1>4

LEMMA QuotientAtMost ==
    ASSUME NEW n \in Nat, NEW d \in Nat \ {0}, NEW q \in Nat, n < (q + 1) * d
    PROVE  n \div d <= q
<1> DEFINE p == n \div d
<1>1. p \in Nat /\ d * p <= n
  BY DivBounds
<1> HIDE DEF p
<1>2. SUFFICES ASSUME q + 1 <= p PROVE FALSE
  BY <1>1 DEF p
<1>3. d * (q + 1) <= d * p
  BY <1>1, <1>2, TimesMonotone
<1>4. d * (q + 1) = (q + 1) * d
  OBVIOUS
<1> QED BY <1>1, <1>3, <1>4

(* A quotient does not fall if the numerator grows by at least its share   *)
(* of what the denominator grows by.                                       *)
LEMMA QuotientGrows ==
    ASSUME NEW n \in Nat, NEW d \in Nat \ {0}, NEW m \in Nat, NEW e \in Nat \ {0},
           (n \div d) * (e - d) <= m - n
    PROVE  n \div d <= m \div e
<1> DEFINE q == n \div d
<1>1. q \in Nat /\ d * q <= n
  BY DivBounds
<1>2. q * (e - d) <= m - n
  OBVIOUS
<1> HIDE DEF q
<1>3. q * (e - d) = q * e - d * q
  BY <1>1
<1>4. q * e \in Nat /\ d * q \in Nat
  BY <1>1
<1>5. q * e <= m
  BY <1>1, <1>2, <1>3, <1>4
<1>6. q <= m \div e
  BY <1>1, <1>5, QuotientAtLeast
<1> QED BY <1>6 DEF q

(* Two quotients by one divisor are apart by what the numerators are, up   *)
(* to one unit less a fraction on either side.                             *)
LEMMA QuotientStep ==
    ASSUME NEW n \in Nat, NEW m \in Nat, NEW d \in Nat \ {0}
    PROVE  /\ d * (m \div d) - d * (n \div d) <= m - n + (d - 1)
           /\ d * (m \div d) - d * (n \div d) >= m - n - (d - 1)
<1> DEFINE p == n \div d
           q == m \div d
<1>1. /\ p \in Nat /\ d * p <= n /\ n < d * p + d
      /\ q \in Nat /\ d * q <= m /\ m < d * q + d
  BY DivBounds
<1> HIDE DEF p, q
<1>2. d * p \in Nat /\ d * q \in Nat
  BY <1>1
<1>3. d * q - d * p <= m - n + (d - 1) /\ d * q - d * p >= m - n - (d - 1)
  BY <1>1, <1>2
<1> QED BY <1>3 DEF p, q

(* A product that is no larger than another, by a common positive factor.  *)
LEMMA CancelFactor ==
    ASSUME NEW a \in Int, NEW b \in Int, NEW c \in Nat \ {0}, c * a <= c * b
    PROVE  a <= b
<1>1. SUFFICES ASSUME b + 1 <= a PROVE FALSE
  OBVIOUS
<1>2. c * (b + 1) <= c * a
  BY <1>1, TimesMonotone
<1>3. c * (b + 1) = c * b + c
  OBVIOUS
<1>4. c * b \in Int /\ c * a \in Int
  OBVIOUS
<1> QED BY <1>2, <1>3, <1>4

-----------------------------------------------------------------------------
(* The linear schedule.  For ends at max and max + slope the code computes *)
(* the numerator and the denominator below from the liquidity in lamports; *)
(* each of them holds one rounded division.                                *)

LineNum(max, slope, inc, owned, stake) ==
    PreciseDiv(owned * max, slope) + PreciseNew(inc + stake)

LineDenom(slope, owned, stake) ==
    PreciseDiv(PreciseNew(owned), slope) + PreciseNew(stake)

Line(max, slope, inc, owned, stake) ==
    PreciseDiv(LineNum(max, slope, inc, owned, stake), LineDenom(slope, owned, stake))

(* Half a unit of the scale.                                               *)
LEMMA HalfType == ONE \div 2 \in Nat /\ ONE \div 2 < ONE
BY ONEAssumption

LEMMA LineType ==
    ASSUME NEW max \in Nat, NEW slope \in Nat \ {0}, NEW inc \in Nat,
           NEW owned \in Nat, NEW stake \in Nat \ {0}
    PROVE  /\ LineNum(max, slope, inc, owned, stake) \in Nat
           /\ LineDenom(slope, owned, stake) \in Nat \ {0}
           /\ Line(max, slope, inc, owned, stake) \in Nat
<1> DEFINE h == ONE \div 2
           num == LineNum(max, slope, inc, owned, stake)
           den == LineDenom(slope, owned, stake)
<1>1. h \in Nat /\ ONE \in Nat /\ ONE > 0
  BY HalfType, ONEAssumption
<1> HIDE DEF h
<1>2. owned * max * ONE + h \in Nat /\ owned * ONE * ONE + h \in Nat
  BY <1>1
<1>3. (owned * max * ONE + h) \div slope \in Nat /\ (owned * ONE * ONE + h) \div slope \in Nat
  BY <1>2, DivBounds
<1>4. (inc + stake) * ONE \in Nat /\ stake * ONE \in Nat \ {0}
  BY <1>1
<1>5. num \in Nat /\ den \in Nat \ {0}
  BY <1>3, <1>4 DEF LineNum, LineDenom, PreciseDiv, PreciseNew, h
<1> HIDE DEF num, den
<1>6. num * ONE + h \in Nat
  BY <1>1, <1>5
<1>7. (num * ONE + h) \div den \in Nat
  BY <1>5, <1>6, DivBounds
<1> QED BY <1>5, <1>7 DEF Line, PreciseDiv, num, den, h

(* What more or less liquidity does to the two parts.                      *)
NumChange(max, slope, owned, after) ==
    PreciseDiv(after * max, slope) - PreciseDiv(owned * max, slope)

DenomChange(slope, owned, after) ==
    PreciseDiv(PreciseNew(after), slope) - PreciseDiv(PreciseNew(owned), slope)

LEMMA LineParts ==
    ASSUME NEW max \in Nat, NEW slope \in Nat \ {0}, NEW owned \in Nat, NEW after \in Nat
    PROVE  LET dn == NumChange(max, slope, owned, after)
               dd == DenomChange(slope, owned, after)
           IN  /\ dn \in Int /\ dd \in Int
               /\ slope * dn <= (after - owned) * max * ONE + (slope - 1)
               /\ slope * dn >= (after - owned) * max * ONE - (slope - 1)
               /\ slope * dd <= (after - owned) * ONE * ONE + (slope - 1)
               /\ slope * dd >= (after - owned) * ONE * ONE - (slope - 1)
<1> DEFINE h == ONE \div 2
           n1 == owned * max * ONE + h
           n2 == after * max * ONE + h
           m1 == owned * ONE * ONE + h
           m2 == after * ONE * ONE + h
<1>1. h \in Nat /\ ONE \in Nat
  BY HalfType, ONEAssumption
<1> HIDE DEF h
<1>2. n1 \in Nat /\ n2 \in Nat /\ m1 \in Nat /\ m2 \in Nat
  BY <1>1
<1>3. /\ n2 - n1 = (after - owned) * max * ONE
      /\ m2 - m1 = (after - owned) * ONE * ONE
  BY <1>1
<1> HIDE DEF n1, n2, m1, m2
<1>4. /\ n1 \div slope \in Nat /\ n2 \div slope \in Nat
      /\ m1 \div slope \in Nat /\ m2 \div slope \in Nat
  BY <1>2, DivBounds
<1>5. /\ slope * (n2 \div slope) - slope * (n1 \div slope) <= n2 - n1 + (slope - 1)
      /\ slope * (n2 \div slope) - slope * (n1 \div slope) >= n2 - n1 - (slope - 1)
  BY <1>2, QuotientStep
<1>6. /\ slope * (m2 \div slope) - slope * (m1 \div slope) <= m2 - m1 + (slope - 1)
      /\ slope * (m2 \div slope) - slope * (m1 \div slope) >= m2 - m1 - (slope - 1)
  BY <1>2, QuotientStep
<1>7. /\ slope * ((n2 \div slope) - (n1 \div slope))
            = slope * (n2 \div slope) - slope * (n1 \div slope)
      /\ slope * ((m2 \div slope) - (m1 \div slope))
            = slope * (m2 \div slope) - slope * (m1 \div slope)
  BY <1>4
<1>8. /\ PreciseDiv(owned * max, slope) = n1 \div slope
      /\ PreciseDiv(after * max, slope) = n2 \div slope
      /\ PreciseDiv(PreciseNew(owned), slope) = m1 \div slope
      /\ PreciseDiv(PreciseNew(after), slope) = m2 \div slope
  BY DEF PreciseDiv, PreciseNew, n1, n2, m1, m2, h
<1> QED BY <1>3, <1>4, <1>5, <1>6, <1>7, <1>8 DEF NumChange, DenomChange

(* The line starts at max: rounding takes nothing from it.                 *)
LEMMA StartArithmetic ==
    ASSUME NEW one \in Nat \ {0}, NEW max \in Nat, NEW slope \in Nat \ {0},
           max + slope <= one, NEW h \in Nat, NEW owned \in Nat, NEW inc \in Nat,
           NEW stake \in Nat \ {0}, NEW a \in Nat, NEW b \in Nat,
           slope * a >= owned * max * one + h - (slope - 1),
           slope * b <= owned * one * one + h
    PROVE  max * (b + stake * one) <= (a + (inc + stake) * one) * one + h
<1>1. one * (slope * a) >= one * (owned * max * one + h - (slope - 1))
  BY TimesMonotone
<1>2. max * (slope * b) <= max * (owned * one * one + h)
  BY TimesMonotone
<1>3. (one - max) * h >= 0
  BY TimesMonotone
<1>4. slope * one * stake * (one - max) >= one * (slope - 1)
  <2>1. one * slope \in Nat /\ one * slope * (stake * (one - max)) >= one * slope * 1
    <3>1. stake * (one - max) >= 1
      BY TimesMonotone
    <3> QED BY <3>1, TimesMonotone
  <2>2. one * slope >= one * (slope - 1)
    BY TimesMonotone
  <2> QED BY <2>1, <2>2
<1>5. slope * inc * one * one >= 0 /\ slope * h >= 0
  OBVIOUS
<1>6. slope * (max * (b + stake * one)) <= slope * ((a + (inc + stake) * one) * one + h)
  BY <1>1, <1>2, <1>3, <1>4, <1>5
<1>7. max * (b + stake * one) \in Int /\ (a + (inc + stake) * one) * one + h \in Int
  OBVIOUS
<1> QED BY <1>6, <1>7, CancelFactor

(* Liquidity falls, and the ratio is above the start of the line.          *)
LEMMA FallArithmetic ==
    ASSUME NEW one \in Nat \ {0}, NEW max \in Nat, NEW slope \in Nat \ {0},
           max + slope <= one, NEW fall \in Nat \ {0}, NEW ratio \in Nat, ratio > max,
           NEW dn \in Int, slope * dn >= 0 - fall * max * one - (slope - 1),
           NEW dd \in Int, slope * dd <= 0 - fall * one * one + (slope - 1)
    PROVE  ratio * dd <= dn * one
<1> DEFINE k == slope - 1
<1>1. k \in Nat /\ one - k \in Nat /\ max + 1 <= one - k
  OBVIOUS
<1> HIDE DEF k
<1>2. k * (one + max + 1) <= k * (one + (one - k))
  BY <1>1, TimesMonotone
<1>3. (one - k) * (one - k) >= 0
  BY <1>1
<1>4. one * one <= fall * (one * one)
  <2>1. one * one * 1 <= one * one * fall
    BY TimesMonotone
  <2> QED BY <2>1
<1>5. k * (one + max + 1) <= fall * (one * one)
  BY <1>1, <1>2, <1>3, <1>4
<1>6. slope * dd <= 0 - fall * one * one + k /\ slope * dn >= 0 - fall * max * one - k
  BY DEF k
<1>7. dd <= 0
  <2>1. k <= one * one
    <3>1. one * 1 <= one * one
      BY TimesMonotone
    <3> QED BY <1>1, <3>1
  <2>2. slope * dd <= slope * 0
    BY <1>1, <1>4, <1>6, <2>1
  <2> QED BY <2>2, CancelFactor
<1>8. ratio * dd <= (max + 1) * dd
  <2>1. (0 - dd) * (max + 1) <= (0 - dd) * ratio
    BY <1>7, TimesMonotone
  <2> QED BY <2>1
<1>9. (max + 1) * (slope * dd) <= (max + 1) * (0 - fall * one * one + k)
  BY <1>1, <1>6, TimesMonotone
<1>10. one * (slope * dn) >= one * (0 - fall * max * one - k)
  BY <1>1, <1>6, TimesMonotone
<1>11. slope * ((max + 1) * dd) <= slope * (dn * one)
  BY <1>1, <1>5, <1>9, <1>10
<1>12. (max + 1) * dd <= dn * one
  BY <1>11, CancelFactor
<1> QED BY <1>8, <1>12

(* More stake comes in than liquidity, and the ratio is not beyond the end.*)
LEMMA RiseArithmetic ==
    ASSUME NEW one \in Nat \ {0}, NEW max \in Nat, NEW slope \in Nat \ {0},
           max + slope <= one, NEW rise \in Nat, NEW ratio \in Nat, ratio <= max + slope,
           NEW more \in Nat, more > rise,
           NEW dn \in Int, slope * dn >= rise * max * one - (slope - 1),
           NEW dd \in Int, slope * dd <= rise * one * one + (slope - 1)
    PROVE  ratio * dd <= (dn + more * one) * one
<1> DEFINE k == slope - 1
<1>1. k \in Nat /\ rise * one * one + k \in Nat /\ k <= slope
  OBVIOUS
<1>2. slope * dd <= rise * one * one + k /\ slope * dn >= rise * max * one - k
  OBVIOUS
<1>3. one = 1 => k = 0
  OBVIOUS
<1> HIDE DEF k
<1>4. ratio * (slope * dd) <= ratio * (rise * one * one + k)
  BY <1>1, <1>2, TimesMonotone
<1>5. (rise * one * one + k) * ratio <= (rise * one * one + k) * (max + slope)
  BY <1>1, TimesMonotone
<1>6. one * (slope * dn) >= one * (rise * max * one - k)
  BY <1>1, <1>2, TimesMonotone
<1>7. slope * one * one * more >= slope * one * one * (rise + 1)
  BY TimesMonotone
<1>8. k * (max + slope) <= k * one
  BY <1>1, TimesMonotone
<1>9. 2 * (one * k) <= slope * one * one
  <2>1. CASE one = 1
    BY <1>1, <1>3, <2>1
  <2>2. CASE one >= 2
    <3>1. slope * 2 <= slope * one
      BY <2>2, TimesMonotone
    <3>2. 2 * k <= slope * one
      BY <1>1, <3>1
    <3>3. one * (2 * k) <= one * (slope * one)
      BY <1>1, <3>2, TimesMonotone
    <3> QED BY <1>1, <3>3
  <2> QED BY <2>1, <2>2
<1>10. slope * (ratio * dd) <= slope * ((dn + more * one) * one)
  BY <1>1, <1>4, <1>5, <1>6, <1>7, <1>8, <1>9
<1>11. ratio * dd \in Int /\ (dn + more * one) * one \in Int
  OBVIOUS
<1> QED BY <1>10, <1>11, CancelFactor

LEMMA LineAboveStart ==
    ASSUME NEW max \in Nat, NEW slope \in Nat \ {0}, max + slope <= ONE,
           NEW inc \in Nat, NEW owned \in Nat, NEW stake \in Nat \ {0}
    PROVE  max <= Line(max, slope, inc, owned, stake)
<1> DEFINE h == ONE \div 2
           a == PreciseDiv(owned * max, slope)
           b == PreciseDiv(PreciseNew(owned), slope)
           num == LineNum(max, slope, inc, owned, stake)
           den == LineDenom(slope, owned, stake)
<1>1. h \in Nat /\ ONE \in Nat \ {0}
  BY HalfType, ONEAssumption
<1>2. /\ a \in Nat /\ slope * a >= owned * max * ONE + h - (slope - 1)
      /\ b \in Nat /\ slope * b <= owned * ONE * ONE + h
  <2> DEFINE n == owned * max * ONE + h
             m == owned * ONE * ONE + h
  <2> HIDE DEF h
  <2>1. n \in Nat /\ m \in Nat
    BY <1>1
  <2>2. a = n \div slope /\ b = m \div slope
    BY DEF PreciseDiv, PreciseNew, h
  <2> HIDE DEF a, b, n, m
  <2>3. a \in Nat /\ b \in Nat /\ n < slope * a + slope /\ slope * b <= m
    BY <2>1, <2>2, DivBounds
  <2>4. slope * a \in Int
    BY <2>3
  <2>5. slope * a >= n - (slope - 1)
    BY <2>1, <2>3, <2>4
  <2> QED BY <1>1, <2>3, <2>5 DEF n, m
<1>3. num = a + (inc + stake) * ONE /\ den = b + stake * ONE
  BY DEF LineNum, LineDenom, PreciseNew
<1>4. num \in Nat /\ den \in Nat \ {0}
  BY LineType
<1>5. Line(max, slope, inc, owned, stake) = (num * ONE + h) \div den
  BY DEF Line, PreciseDiv
<1> HIDE DEF h, a, b, num, den
<1>6. max * (b + stake * ONE) <= (a + (inc + stake) * ONE) * ONE + h
  BY <1>1, <1>2, StartArithmetic
<1>7. max * den <= num * ONE + h /\ num * ONE + h \in Nat
  BY <1>1, <1>3, <1>4, <1>6
<1> QED BY <1>4, <1>5, <1>7, QuotientAtLeast

(* One ratio is at most another if the numerator makes up for its share of *)
(* the denominator's growth.                                               *)
LEMMA LineGrows ==
    ASSUME NEW max \in Nat, NEW slope \in Nat \ {0}, NEW inc \in Nat, NEW then \in Nat,
           NEW owned \in Nat, NEW after \in Nat, NEW stake \in Nat \ {0},
           Line(max, slope, inc, owned, stake) * DenomChange(slope, owned, after)
             <= (NumChange(max, slope, owned, after) + (then - inc) * ONE) * ONE
    PROVE  Line(max, slope, inc, owned, stake) <= Line(max, slope, then, after, stake)
<1> DEFINE h == ONE \div 2
           dn == NumChange(max, slope, owned, after)
           dd == DenomChange(slope, owned, after)
           num  == LineNum(max, slope, inc, owned, stake)
           den  == LineDenom(slope, owned, stake)
           num2 == LineNum(max, slope, then, after, stake)
           den2 == LineDenom(slope, after, stake)
           ratio == Line(max, slope, inc, owned, stake)
<1>1. h \in Nat /\ ONE \in Nat
  BY HalfType, ONEAssumption
<1>2. /\ num \in Nat /\ den \in Nat \ {0} /\ num2 \in Nat /\ den2 \in Nat \ {0}
      /\ ratio \in Nat
  BY LineType
<1>3. /\ ratio = (num * ONE + h) \div den
      /\ Line(max, slope, then, after, stake) = (num2 * ONE + h) \div den2
  BY DEF Line, PreciseDiv
<1>4. num2 - num = dn + (then - inc) * ONE /\ den2 - den = dd
  <2> DEFINE a == PreciseDiv(owned * max, slope)
             a2 == PreciseDiv(after * max, slope)
             b == PreciseDiv(PreciseNew(owned), slope)
             b2 == PreciseDiv(PreciseNew(after), slope)
  <2>1. a \in Nat /\ a2 \in Nat /\ b \in Nat /\ b2 \in Nat
    <3>1. \A x \in Nat : (x + h) \div slope \in Nat
      <4> TAKE x \in Nat
      <4> HIDE DEF h
      <4>1. x + h \in Nat
        BY <1>1
      <4> QED BY <4>1, DivBounds
    <3>2. /\ owned * max * ONE \in Nat /\ after * max * ONE \in Nat
          /\ owned * ONE * ONE \in Nat /\ after * ONE * ONE \in Nat
      BY <1>1
    <3> QED BY <3>1, <3>2 DEF PreciseDiv, PreciseNew
  <2>2. /\ num = a + (inc + stake) * ONE /\ num2 = a2 + (then + stake) * ONE
        /\ den = b + stake * ONE /\ den2 = b2 + stake * ONE
        /\ dn = a2 - a /\ dd = b2 - b
    BY DEF LineNum, LineDenom, PreciseNew, NumChange, DenomChange
  <2> HIDE DEF a, a2, b, b2, num, num2, den, den2, dn, dd
  <2> QED BY <1>1, <2>1, <2>2
<1>5. ratio * dd <= (dn + (then - inc) * ONE) * ONE
  OBVIOUS
<1> HIDE DEF h, dn, dd, num, den, num2, den2, ratio
<1>6. num * ONE + h \in Nat /\ num2 * ONE + h \in Nat
  BY <1>1, <1>2
<1>7. ratio * (den2 - den) <= (num2 * ONE + h) - (num * ONE + h)
  <2>1. (num2 - num) * ONE = (num2 * ONE + h) - (num * ONE + h)
    BY <1>1, <1>2
  <2> QED BY <1>4, <1>5, <2>1
<1> QED BY <1>2, <1>3, <1>6, <1>7, QuotientGrows DEF ratio

(* Less liquidity, the same stake locked in it: the ratio does not fall.   *)
LEMMA LineFallingLiquidity ==
    ASSUME NEW max \in Nat, NEW slope \in Nat \ {0}, max + slope <= ONE,
           NEW inc \in Nat, NEW owned \in Nat, NEW after \in 0 .. owned,
           NEW stake \in Nat \ {0}
    PROVE  Line(max, slope, inc, owned, stake) <= Line(max, slope, inc, after, stake)
<1> DEFINE ratio == Line(max, slope, inc, owned, stake)
           dn == NumChange(max, slope, owned, after)
           dd == DenomChange(slope, owned, after)
<1>1. ratio \in Nat /\ Line(max, slope, inc, after, stake) \in Nat
  <2>1. after \in Nat
    OBVIOUS
  <2> QED BY <2>1, LineType
<1>2. CASE ratio <= max
  <2>1. max <= Line(max, slope, inc, after, stake)
    BY LineAboveStart
  <2> HIDE DEF ratio
  <2> QED BY <1>1, <1>2, <2>1 DEF ratio
<1>3. CASE after = owned
  BY <1>1, <1>3
<1>4. CASE ratio > max /\ after < owned
  <2> DEFINE fall == owned - after
  <2>1. /\ dn \in Int /\ slope * dn >= (after - owned) * max * ONE - (slope - 1)
        /\ dd \in Int /\ slope * dd <= (after - owned) * ONE * ONE + (slope - 1)
    <3>1. after \in Nat
      OBVIOUS
    <3> QED BY <3>1, LineParts
  <2>2. fall \in Nat \ {0} /\ after - owned = 0 - fall
    BY <1>4
  <2>3. ONE \in Nat \ {0}
    BY ONEAssumption
  <2> HIDE DEF ratio, dn, dd, fall
  <2>4. /\ slope * dn >= 0 - fall * max * ONE - (slope - 1)
        /\ slope * dd <= 0 - fall * ONE * ONE + (slope - 1)
    <3>1. /\ (after - owned) * max * ONE = 0 - fall * max * ONE
          /\ (after - owned) * ONE * ONE = 0 - fall * ONE * ONE
      BY <2>2, <2>3
    <3> QED BY <2>1, <3>1
  <2>5. ratio * dd <= dn * ONE
    BY <1>1, <1>4, <2>1, <2>2, <2>3, <2>4, FallArithmetic
  <2>6. ratio * dd <= (dn + (inc - inc) * ONE) * ONE
    BY <2>1, <2>3, <2>5
  <2>7. after \in Nat
    OBVIOUS
  <2> QED BY <2>6, <2>7, LineGrows DEF ratio, dn, dd
<1> QED BY <1>1, <1>2, <1>3, <1>4

(* More stake locked in the same liquidity.                                *)
LEMMA LineRisingIncoming ==
    ASSUME NEW max \in Nat, NEW slope \in Nat \ {0}, NEW inc \in Nat, NEW then \in Nat,
           inc <= then, NEW owned \in Nat, NEW stake \in Nat \ {0}
    PROVE  Line(max, slope, inc, owned, stake) <= Line(max, slope, then, owned, stake)
<1>1. Line(max, slope, inc, owned, stake) \in Nat
  BY LineType
<1>2. (then - inc) * ONE * ONE >= 0
  BY ONEAssumption
<1>3. NumChange(max, slope, owned, owned) = 0 /\ DenomChange(slope, owned, owned) = 0
  <2> DEFINE h == ONE \div 2
  <2>1. \A x \in Nat : (x + h) \div slope \in Nat
    BY HalfType, DivBounds
  <2>2. owned * max * ONE \in Nat /\ owned * ONE * ONE \in Nat
    BY ONEAssumption
  <2> QED BY <2>1, <2>2 DEF NumChange, DenomChange, PreciseDiv, PreciseNew
<1>4. Line(max, slope, inc, owned, stake) * 0 <= (0 + (then - inc) * ONE) * ONE
  BY <1>1, <1>2, ONEAssumption
<1> QED BY <1>3, <1>4, LineGrows

(* Stake comes in for less than its worth, and the line has not ended.     *)
LEMMA LineRisingStake ==
    ASSUME NEW max \in Nat, NEW slope \in Nat \ {0}, max + slope <= ONE,
           NEW inc \in Nat, NEW then \in Nat, inc <= then,
           NEW owned \in Nat, NEW after \in Nat, after - owned < then - inc,
           NEW stake \in Nat \ {0},
           Line(max, slope, inc, owned, stake) <= max + slope
    PROVE  Line(max, slope, inc, owned, stake) <= Line(max, slope, then, after, stake)
<1>1. /\ Line(max, slope, inc, owned, stake) \in Nat
      /\ Line(max, slope, inc, after, stake) \in Nat
      /\ Line(max, slope, then, after, stake) \in Nat
  BY LineType
<1>2. CASE after <= owned
  <2>1. Line(max, slope, inc, owned, stake) <= Line(max, slope, inc, after, stake)
    BY <1>2, LineFallingLiquidity
  <2>2. Line(max, slope, inc, after, stake) <= Line(max, slope, then, after, stake)
    BY LineRisingIncoming
  <2> QED BY <1>1, <2>1, <2>2
<1>3. CASE after > owned
  <2> DEFINE ratio == Line(max, slope, inc, owned, stake)
             dn == NumChange(max, slope, owned, after)
             dd == DenomChange(slope, owned, after)
             rise == after - owned
             more == then - inc
  <2>1. /\ dn \in Int /\ slope * dn >= rise * max * ONE - (slope - 1)
        /\ dd \in Int /\ slope * dd <= rise * ONE * ONE + (slope - 1)
    BY LineParts
  <2>2. rise \in Nat /\ more \in Nat /\ more > rise
    BY <1>3
  <2>3. ONE \in Nat \ {0}
    BY ONEAssumption
  <2>4. ratio \in Nat /\ ratio <= max + slope
    BY <1>1
  <2> HIDE DEF ratio, dn, dd, rise, more
  <2>5. ratio * dd <= (dn + more * ONE) * ONE
    BY <2>1, <2>2, <2>3, <2>4, RiseArithmetic
  <2> QED BY <2>5, LineGrows DEF ratio, dn, dd, more
<1> QED BY <1>2, <1>3

-----------------------------------------------------------------------------
(* The fee, as apply() computes it.                                        *)

LEMMA QuotientMonotone ==
    ASSUME NEW n \in Nat, NEW m \in Nat, n <= m, NEW d \in Nat \ {0}
    PROVE  n \div d <= m \div d
<1>1. n \div d \in Nat
  BY DivBounds
<1>2. (n \div d) * (d - d) <= m - n
  BY <1>1
<1> QED BY <1>2, QuotientGrows

(* A valid ratio is at most one in fixed point.                            *)
LEMMA IntoPreciseBounds ==
    ASSUME NEW r \in Rational, ValidRatio(r)
    PROVE  IntoPrecise(r) \in 0 .. ONE
<1> DEFINE h == ONE \div 2
           n == r.num * ONE * ONE + h
           d == r.denom * ONE
<1>1. r.num \in Nat /\ r.denom \in Nat \ {0} /\ r.num <= r.denom
  BY U64MaxAssumption DEF Rational, U64, ValidRatio, Validate, IsLteOne
<1>2. h \in Nat /\ h < ONE /\ ONE \in Nat \ {0}
  BY HalfType, ONEAssumption
<1> HIDE DEF h
<1>3. n \in Nat /\ d \in Nat \ {0}
  BY <1>1, <1>2
<1>4. n < (ONE + 1) * d
  <2>1. ONE * ONE * r.num <= ONE * ONE * r.denom
    BY <1>1, <1>2, TimesMonotone
  <2>2. ONE * 1 <= ONE * r.denom
    BY <1>1, <1>2, TimesMonotone
  <2> QED BY <1>1, <1>2, <2>1, <2>2
<1>5. IntoPrecise(r) = n \div d
  BY DEF IntoPrecise, PreciseDiv, PreciseNew, h
<1> HIDE DEF n, d
<1>6. n \div d \in Nat /\ n \div d <= ONE
  BY <1>2, <1>3, <1>4, DivBounds, QuotientAtMost
<1> QED BY <1>2, <1>5, <1>6

(* Scaling up and multiplying loses nothing.                               *)
LEMMA PreciseMulWhole ==
    ASSUME NEW v \in Nat, NEW r \in Nat
    PROVE  PreciseMul(PreciseNew(v), r) = v * r
<1> DEFINE h == ONE \div 2
           n == v * ONE * r + h
           q == v * r
<1>1. h \in Nat /\ h < ONE /\ ONE \in Nat \ {0}
  BY HalfType, ONEAssumption
<1> HIDE DEF h
<1>2. n \in Nat /\ q \in Nat /\ q * ONE <= n /\ n < (q + 1) * ONE
  BY <1>1
<1>3. PreciseMul(PreciseNew(v), r) = n \div ONE
  BY DEF PreciseMul, PreciseNew, h
<1> HIDE DEF n, q
<1>4. q <= n \div ONE /\ n \div ONE <= q /\ n \div ONE \in Nat
  BY <1>1, <1>2, QuotientAtLeast, QuotientAtMost, DivBounds
<1> QED BY <1>2, <1>3, <1>4 DEF q

(* The ratio charged is the line between the two ends, and there is none   *)
(* if they are equal.                                                      *)
LEMMA RatioIsLine ==
    ASSUME NEW f \in FeeEnum, ValidFee(f), f.kind = "LiquidityLinear",
           NEW inc \in Nat, NEW res \in Nat, NEW stake \in Nat \ {0},
           NEW max, max = IntoPrecise(f.max_liq_remaining),
           NEW slope, slope = IntoPrecise(f.zero_liq_remaining) - max
    PROVE  /\ max \in Nat /\ slope \in Nat /\ max + slope <= ONE
           /\ max + slope = IntoPrecise(f.zero_liq_remaining)
           /\ slope = 0 => FeeRatio(f, inc, res, stake) = None
           /\ slope > 0 => FeeRatio(f, inc, res, stake)
                             = Line(max, slope, inc, inc + res, stake)
<1>1. /\ f.max_liq_remaining \in Rational /\ ValidRatio(f.max_liq_remaining)
      /\ f.zero_liq_remaining \in Rational /\ ValidRatio(f.zero_liq_remaining)
      /\ IntoPrecise(f.max_liq_remaining) <= IntoPrecise(f.zero_liq_remaining)
  BY DEF FeeEnum, ValidFee
<1>2. /\ max \in Nat /\ slope \in Nat /\ max + slope <= ONE
      /\ max + slope = IntoPrecise(f.zero_liq_remaining)
  BY <1>1, IntoPreciseBounds, ONEAssumption
<1>3. FeeRatio(f, inc, res, stake) = LinearRatio(f, inc, res, stake)
  BY DEF FeeRatio
<1>4. CASE slope = 0
  BY <1>2, <1>3, <1>4 DEF LinearRatio
<1>5. CASE slope > 0
  <2> DEFINE owned == inc + res
  <2>1. owned \in Nat /\ inc + stake \in Nat
    OBVIOUS
  <2>2. PreciseMul(PreciseNew(owned), max) = owned * max
    BY <1>2, <2>1, PreciseMulWhole
  <2>3. /\ LineDenom(slope, owned, stake) # 0 /\ slope \in Nat \ {0}
    <3>1. slope \in Nat \ {0}
      BY <1>2, <1>5
    <3> QED BY <1>2, <2>1, <3>1, LineType
  <2>4. ~(slope <= 0)
    BY <1>2, <1>5
  <2>5. LinearRatio(f, inc, res, stake)
          = IF slope <= 0 \/ LineDenom(slope, owned, stake) = 0
            THEN None
            ELSE PreciseDiv(PreciseDiv(PreciseMul(PreciseNew(owned), max), slope)
                              + PreciseNew(inc + stake),
                            LineDenom(slope, owned, stake))
    BY Zenon DEF LinearRatio, LineDenom
  <2> HIDE DEF owned
  <2>6. LinearRatio(f, inc, res, stake) = Line(max, slope, inc, owned, stake)
    BY <2>2, <2>3, <2>4, <2>5 DEF Line, LineNum
  <2> QED BY <1>2, <1>3, <1>5, <2>6 DEF owned
<1> QED BY <1>2, <1>4, <1>5

LEMMA FlatRatioType ==
    ASSUME NEW f \in FeeEnum, ValidFee(f), f.kind = "Flat"
    PROVE  IntoPrecise(f.ratio) \in Nat
<1>1. f.ratio \in Rational /\ ValidRatio(f.ratio)
  BY DEF FeeEnum, ValidFee
<1> QED BY <1>1, IntoPreciseBounds

(* A larger ratio is a larger fee.                                         *)
LEMMA FeeOfRatio ==
    ASSUME NEW stake \in Nat, NEW low \in Nat, NEW high \in Nat, low <= high
    PROVE  PreciseCeiling(PreciseMul(PreciseNew(stake), low))
             <= PreciseCeiling(PreciseMul(PreciseNew(stake), high))
<1>1. stake * low \in Nat /\ stake * high \in Nat /\ stake * low <= stake * high
  BY TimesMonotone
<1>2. ONE \in Nat \ {0}
  BY ONEAssumption
<1> DEFINE n == stake * low + ONE - 1
           m == stake * high + ONE - 1
<1>3. n \in Nat /\ m \in Nat /\ n <= m
  BY <1>1, <1>2
<1> HIDE DEF n, m
<1>4. n \div ONE <= m \div ONE
  BY <1>2, <1>3, QuotientMonotone
<1> QED BY <1>4, PreciseMulWhole DEF PreciseCeiling, n, m

(* Ratios compare like the fees: the fee is absent for both or for none.   *)
LEMMA FeeByRatio ==
    ASSUME NEW f, NEW stake \in Nat, NEW i1, NEW r1, NEW i2, NEW r2,
           \/ FeeRatio(f, i1, r1, stake) = FeeRatio(f, i2, r2, stake)
              /\ FeeRatio(f, i1, r1, stake) \in Nat \cup {None}
           \/ /\ FeeRatio(f, i1, r1, stake) \in Nat
              /\ FeeRatio(f, i2, r2, stake) \in Nat
              /\ FeeRatio(f, i1, r1, stake) <= FeeRatio(f, i2, r2, stake)
    PROVE  ApplyFee(f, i1, r1, stake) <= ApplyFee(f, i2, r2, stake)
<1> DEFINE low == FeeRatio(f, i1, r1, stake)
           high == FeeRatio(f, i2, r2, stake)
<1>1. /\ ApplyFee(f, i1, r1, stake)
            = IF low = None THEN None
              ELSE PreciseCeiling(PreciseMul(PreciseNew(stake), low))
      /\ ApplyFee(f, i2, r2, stake)
            = IF high = None THEN None
              ELSE PreciseCeiling(PreciseMul(PreciseNew(stake), high))
  BY Zenon DEF ApplyFee
<1>2. \/ low = None /\ high = None
      \/ low \in Nat /\ high \in Nat /\ low <= high
  BY DEF None
<1> HIDE DEF low, high
<1>3. CASE low = None /\ high = None
  BY <1>1, <1>3 DEF None
<1>4. CASE low \in Nat /\ high \in Nat /\ low <= high
  <2>1. low # None /\ high # None
    BY <1>4 DEF None
  <2> QED BY <1>1, <1>4, <2>1, FeeOfRatio
<1> QED BY <1>2, <1>3, <1>4

(* A quote is an amount, or absent.                                        *)
LEMMA FeeType ==
    ASSUME NEW f \in FeeEnum, ValidFee(f), NEW stake \in Nat \ {0},
           NEW inc \in Nat, NEW res \in Nat
    PROVE  ApplyFee(f, inc, res, stake) \in Nat \cup {None}
<1> DEFINE ratio == FeeRatio(f, inc, res, stake)
<1>1. ratio \in Nat \cup {None}
  <2>1. CASE f.kind = "Flat"
    BY <2>1, FlatRatioType DEF FeeRatio
  <2>2. CASE f.kind = "LiquidityLinear"
    <3> DEFINE max == IntoPrecise(f.max_liq_remaining)
               slope == IntoPrecise(f.zero_liq_remaining) - max
    <3>1. /\ max \in Nat /\ slope \in Nat
          /\ slope = 0 => FeeRatio(f, inc, res, stake) = None
          /\ slope > 0 => FeeRatio(f, inc, res, stake)
                           = Line(max, slope, inc, inc + res, stake)
      BY <2>2, RatioIsLine
    <3> HIDE DEF max, slope
    <3>2. slope > 0 => Line(max, slope, inc, inc + res, stake) \in Nat
      <4>1. inc + res \in Nat
        OBVIOUS
      <4> QED BY <3>1, <4>1, LineType
    <3> QED BY <3>1, <3>2
  <2> QED BY <2>1, <2>2 DEF ValidFee
<1>2. ApplyFee(f, inc, res, stake)
        = IF ratio = None THEN None
          ELSE PreciseCeiling(PreciseMul(PreciseNew(stake), ratio))
  BY Zenon DEF ApplyFee
<1> HIDE DEF ratio
<1>3. ASSUME ratio \in Nat
      PROVE  PreciseCeiling(PreciseMul(PreciseNew(stake), ratio)) \in Nat
  <2> DEFINE n == stake * ratio + ONE - 1
  <2>1. n \in Nat /\ ONE \in Nat \ {0}
    BY <1>3, ONEAssumption
  <2> HIDE DEF n
  <2>2. n \div ONE \in Nat
    BY <2>1, DivBounds
  <2> QED BY <1>3, <2>2, PreciseMulWhole DEF PreciseCeiling, n
<1> QED BY <1>1, <1>2, <1>3

(* Less stake locked in more liquidity is not dearer.                      *)
LEMMA FeeFollowsShare ==
    ASSUME NEW f \in FeeEnum, ValidFee(f), NEW stake \in Nat \ {0},
           NEW inc \in Nat, NEW res \in Nat, NEW inc2 \in Nat, NEW res2 \in Nat,
           inc2 <= inc, inc + res <= inc2 + res2
    PROVE  ApplyFee(f, inc2, res2, stake) <= ApplyFee(f, inc, res, stake)
<1>1. CASE f.kind = "Flat"
  BY <1>1, FlatRatioType, FeeByRatio DEF FeeRatio
<1>2. CASE f.kind = "LiquidityLinear"
  <2> DEFINE max == IntoPrecise(f.max_liq_remaining)
             slope == IntoPrecise(f.zero_liq_remaining) - max
  <2>1. /\ max \in Nat /\ slope \in Nat /\ max + slope <= ONE
        /\ slope = 0 => /\ FeeRatio(f, inc, res, stake) = None
                        /\ FeeRatio(f, inc2, res2, stake) = None
        /\ slope > 0 => /\ FeeRatio(f, inc, res, stake)
                             = Line(max, slope, inc, inc + res, stake)
                        /\ FeeRatio(f, inc2, res2, stake)
                             = Line(max, slope, inc2, inc2 + res2, stake)
    BY <1>2, RatioIsLine
  <2> HIDE DEF max, slope
  <2>2. CASE slope = 0
    BY <2>1, <2>2, FeeByRatio
  <2>3. CASE slope > 0
    <3>1. slope \in Nat \ {0} /\ inc + res \in 0 .. (inc2 + res2) /\ inc2 + res2 \in Nat
      BY <2>1, <2>3
    <3>2. Line(max, slope, inc2, inc2 + res2, stake) <= Line(max, slope, inc2, inc + res, stake)
      BY <2>1, <3>1, LineFallingLiquidity
    <3>3. Line(max, slope, inc2, inc + res, stake) <= Line(max, slope, inc, inc + res, stake)
      BY <2>1, <3>1, LineRisingIncoming
    <3>4. /\ Line(max, slope, inc2, inc2 + res2, stake) \in Nat
          /\ Line(max, slope, inc2, inc + res, stake) \in Nat
          /\ Line(max, slope, inc, inc + res, stake) \in Nat
      BY <2>1, <3>1, LineType
    <3>5. /\ FeeRatio(f, inc2, res2, stake) \in Nat /\ FeeRatio(f, inc, res, stake) \in Nat
          /\ FeeRatio(f, inc2, res2, stake) <= FeeRatio(f, inc, res, stake)
      BY <2>1, <2>3, <3>2, <3>3, <3>4
    <3> QED BY <3>5, FeeByRatio
  <2> QED BY <2>1, <2>2, <2>3
<1> QED BY <1>1, <1>2 DEF ValidFee

(* More stake, and reserves that were paid out for it, are not cheaper as  *)
(* long as the ratio is not beyond the end of the schedule.                *)
LEMMA FeeRisesWithStake ==
    ASSUME NEW f \in FeeEnum, ValidFee(f), NEW stake \in Nat \ {0},
           NEW inc \in Nat, NEW res \in Nat, NEW inc2 \in Nat, NEW res2 \in Nat,
           inc <= inc2, res2 < res,
           f.kind = "LiquidityLinear" =>
               FeeRatio(f, inc, res, stake) <= IntoPrecise(f.zero_liq_remaining)
    PROVE  ApplyFee(f, inc, res, stake) <= ApplyFee(f, inc2, res2, stake)
<1>1. CASE f.kind = "Flat"
  BY <1>1, FlatRatioType, FeeByRatio DEF FeeRatio
<1>2. CASE f.kind = "LiquidityLinear"
  <2> DEFINE max == IntoPrecise(f.max_liq_remaining)
             slope == IntoPrecise(f.zero_liq_remaining) - max
  <2>1. /\ max \in Nat /\ slope \in Nat /\ max + slope <= ONE
        /\ max + slope = IntoPrecise(f.zero_liq_remaining)
        /\ slope = 0 => /\ FeeRatio(f, inc, res, stake) = None
                        /\ FeeRatio(f, inc2, res2, stake) = None
        /\ slope > 0 => /\ FeeRatio(f, inc, res, stake)
                             = Line(max, slope, inc, inc + res, stake)
                        /\ FeeRatio(f, inc2, res2, stake)
                             = Line(max, slope, inc2, inc2 + res2, stake)
    BY <1>2, RatioIsLine
  <2> HIDE DEF max, slope
  <2>2. CASE slope = 0
    BY <2>1, <2>2, FeeByRatio
  <2>3. CASE slope > 0
    <3>1. /\ slope \in Nat \ {0} /\ inc + res \in Nat /\ inc2 + res2 \in Nat
          /\ (inc2 + res2) - (inc + res) < inc2 - inc
      BY <2>1, <2>3
    <3>2. Line(max, slope, inc, inc + res, stake) <= max + slope
      BY <1>2, <2>1, <2>3
    <3>3. Line(max, slope, inc, inc + res, stake) <= Line(max, slope, inc2, inc2 + res2, stake)
      BY <2>1, <3>1, <3>2, LineRisingStake
    <3>4. /\ Line(max, slope, inc, inc + res, stake) \in Nat
          /\ Line(max, slope, inc2, inc2 + res2, stake) \in Nat
      BY <2>1, <3>1, LineType
    <3>5. /\ FeeRatio(f, inc2, res2, stake) \in Nat /\ FeeRatio(f, inc, res, stake) \in Nat
          /\ FeeRatio(f, inc, res, stake) <= FeeRatio(f, inc2, res2, stake)
      BY <2>1, <2>3, <3>3, <3>4
    <3> QED BY <3>5, FeeByRatio
  <2> QED BY <2>1, <2>2, <2>3
<1> QED BY <1>1, <1>2 DEF ValidFee

-----------------------------------------------------------------------------
(* Quotes along the steps of the pool.                                     *)

LEMMA QuoteTerms ==
    ASSUME AccountsInv, NEW s \in OnSale
    PROVE  /\ fee \in FeeEnum /\ ValidFee(fee) /\ s \in Stakes
           /\ lamports[s] \in Nat \ {0} /\ incoming \in Nat
           /\ RecordTopUp(s) \in Nat /\ reserves - RecordTopUp(s) \in Nat
<1>1. s \in Stakes /\ phase[s] # "none" /\ RecordTopUp(s) <= reserves
  BY DEF OnSale
<1>2. lamports[s] \in Nat \ {0}
  BY <1>1, RentAssumption DEF AccountsInv, AccountsTypeOK, StakeFunded
<1>3. RecordTopUp(s) \in Nat /\ reserves \in Nat /\ incoming \in Nat
  BY <1>1, RentAssumption, U64MaxAssumption DEF AccountsInv, AccountsTypeOK, RecordTopUp, U64
<1>4. fee \in FeeEnum /\ ValidFee(fee)
  BY FeesAssumption DEF AccountsInv, AccountsTypeOK
<1> QED BY <1>1, <1>2, <1>3, <1>4

(* Stake is only booked by a swap, which pays for it out of the reserves.  *)
LEMMA SoldBy ==
    ASSUME AccountsTypeOK, AnyStep, NEW t \in Stakes, Sold(t)
    PROVE  incoming <= incoming'
<1> USE DEF Sold, recordVars
<1>1. ASSUME NEW u \in Users, NEW s \in Stakes, NEW destination, NEW referrer,
             RunUnstake(u, s, destination, referrer)
      PROVE  incoming <= incoming'
  BY <1>1, U64MaxAssumption DEF RunUnstake, AccountsTypeOK, U64
<1>2. ASSUME NEW s \in Stakes, ReclaimStakeAccount(s)
      PROVE  FALSE
  BY <1>2 DEF ReclaimStakeAccount, Unbook
<1> QED
  BY <1>1, <1>2
  DEF AnyStep, PoolInstruction, Environment, StakeOwner, Cluster, Unstake, UnstakeWsol,
      AddLiquidity, RemoveLiquidity, SetFee, SetProtocolFee, DeactivateStakeAccount,
      CreateStake, DelegateStake, OwnerDeactivate, OwnerWithdraw, AuthorizeStaker,
      AuthorizeWithdrawer, SetLockup, LockupExpires, EpochPasses, ReservesReceive,
      StakeReceives, RecordReceives, HolderBurns

(* A deposit raises the liquidity, and a reclaim turns stake into more.    *)
LEMMA LiquidityReturns ==
    ASSUME AccountsInv, AnyStep,
           supply' > supply \/ (\E t \in records : t \notin records')
    PROVE  incoming' <= incoming /\ incoming + reserves <= incoming' + reserves'
<1>1. supply \in Nat /\ reserves \in Nat /\ incoming \in Nat
  BY U64MaxAssumption DEF AccountsInv, AccountsTypeOK, U64
<1> USE DEF ledgerVars, recordVars
<1>2. ASSUME NEW amount \in Deposits, AddLiquidity(amount)
      PROVE  incoming' <= incoming /\ incoming + reserves <= incoming' + reserves'
  <2>1. amount \in Nat /\ reserves' = reserves + amount /\ incoming' = incoming
    BY <1>2, AmountsAssumption DEF AddLiquidity
  <2> QED BY <1>1, <2>1
<1>3. ASSUME NEW s \in Stakes, ReclaimStakeAccount(s)
      PROVE  incoming' <= incoming /\ incoming + reserves <= incoming' + reserves'
  <2>1. /\ s \in records /\ incoming' = incoming - recorded[s]
        /\ reserves' = reserves + lamports[s] + recordLamports[s]
    BY <1>3 DEF ReclaimStakeAccount, Unbook
  <2>2. /\ lamports[s] \in Nat /\ recorded[s] \in Nat /\ recordLamports[s] \in Nat
        /\ lamports[s] >= recorded[s]
    BY <2>1 DEF AccountsInv, AccountsTypeOK, RecordsCovered
  <2> QED BY <1>1, <2>1, <2>2
<1>4. ASSUME NEW amountLp \in Burns \cup {supply}, NEW to, RemoveLiquidity(amountLp, to)
      PROVE  FALSE
  BY <1>1, <1>4, AmountsAssumption DEF RemoveLiquidity
<1>5. ASSUME NEW amountLp \in Burns, HolderBurns(amountLp)
      PROVE  FALSE
  BY <1>1, <1>5, AmountsAssumption DEF HolderBurns
<1>6. ASSUME NEW u, NEW s, NEW destination, NEW referrer,
             RunUnstake(u, s, destination, referrer)
      PROVE  FALSE
  BY <1>1, <1>6 DEF RunUnstake
<1> QED
  BY <1>1, <1>2, <1>3, <1>4, <1>5, <1>6
  DEF AnyStep, PoolInstruction, Environment, StakeOwner, Cluster, Unstake, UnstakeWsol,
      SetFee, SetProtocolFee, DeactivateStakeAccount,
      CreateStake, DelegateStake, OwnerDeactivate, OwnerWithdraw, AuthorizeStaker,
      AuthorizeWithdrawer, SetLockup, LockupExpires, EpochPasses, ReservesReceive,
      StakeReceives, RecordReceives

LEMMA QuotesStep ==
    ASSUME AccountsInv, AccountsInv', AnyStep, NEW s \in OnSale, s \in OnSale',
           fee' = fee, UNCHANGED <<lamports[s], recordLamports[s]>>
    PROVE  /\ (\E t \in Stakes : Sold(t)) /\ reserves' < reserves /\ OnSchedule(s)
                  => Quote(s)' >= Quote(s)
           /\ supply' > supply \/ (\E t \in records : t \notin records')
                  => Quote(s)' <= Quote(s)
<1> DEFINE topUp == RecordTopUp(s)
           stake == lamports[s]
           res   == reserves - topUp
           left  == reserves' - topUp
<1>1. /\ fee \in FeeEnum /\ ValidFee(fee) /\ stake \in Nat \ {0} /\ incoming \in Nat
      /\ topUp \in Nat /\ res \in Nat /\ reserves \in Nat
  BY QuoteTerms DEF AccountsInv, AccountsTypeOK
<1>2. RecordTopUp(s)' = topUp
  BY DEF RecordTopUp
<1>3. incoming' \in Nat /\ left \in Nat /\ reserves' \in Nat
  <2>1. RecordTopUp(s)' <= reserves' /\ s \in Stakes
    BY DEF OnSale
  <2>2. reserves' \in Nat /\ incoming' \in Nat
    BY U64MaxAssumption DEF AccountsInv, AccountsTypeOK, U64
  <2> QED BY <1>1, <1>2, <2>1, <2>2
<1>4. Quote(s) = ApplyFee(fee, incoming, res, stake)
  BY DEF Quote
<1>5. Quote(s)' = ApplyFee(fee, incoming', left, stake)
  BY <1>2 DEF Quote
<1>6. ASSUME NEW t \in Stakes, Sold(t), reserves' < reserves, OnSchedule(s)
      PROVE  Quote(s) <= Quote(s)'
  <2>1. incoming <= incoming'
    BY <1>6, SoldBy DEF AccountsInv
  <2>2. left < res
    BY <1>1, <1>3, <1>6
  <2>3. fee.kind = "LiquidityLinear" =>
            FeeRatio(fee, incoming, res, stake) <= IntoPrecise(fee.zero_liq_remaining)
    BY <1>6 DEF OnSchedule
  <2> HIDE DEF topUp, stake, res, left
  <2> QED BY <1>1, <1>3, <1>4, <1>5, <2>1, <2>2, <2>3, FeeRisesWithStake
<1>7. ASSUME supply' > supply \/ (\E t \in records : t \notin records')
      PROVE  Quote(s)' <= Quote(s)
  <2>1. incoming' <= incoming /\ incoming + reserves <= incoming' + reserves'
    BY <1>7, LiquidityReturns
  <2>2. incoming + res <= incoming' + left
    BY <1>1, <1>3, <2>1
  <2> HIDE DEF topUp, stake, res, left
  <2> QED BY <1>1, <1>3, <1>4, <1>5, <2>1, <2>2, FeeFollowsShare
<1>8. ApplyFee(fee, incoming, res, stake) \in Int /\ ApplyFee(fee, incoming', left, stake) \in Int
  <2> HIDE DEF topUp, stake, res, left
  <2> QED BY <1>1, <1>3, FeeType DEF None
<1> HIDE DEF topUp, stake, res, left
<1> QED BY <1>4, <1>5, <1>6, <1>7, <1>8

(* The next quote moves with the share of the liquidity that is locked in  *)
(* stake, whatever the schedule, the amounts and the rounding.             *)
THEOREM QuotesCorrect == Spec => QuotesFollowLiquidity
<1> DEFINE Follows ==
      \A s \in OnSale :
           s \in OnSale' /\ fee' = fee
           /\ UNCHANGED <<lamports[s], recordLamports[s]>> =>
             /\ (\E t \in Stakes : Sold(t)) /\ reserves' < reserves /\ OnSchedule(s)
                    => Quote(s)' >= Quote(s)
             /\ supply' > supply \/ (\E t \in records : t \notin records')
                    => Quote(s)' <= Quote(s)
<1>1. IInv /\ IInv' /\ [Next]_vars => [Follows]_vars
  <2> SUFFICES ASSUME IInv, IInv', Next PROVE Follows
    BY Zenon
  <2> HIDE DEF Follows
  <2>1. AccountsInv /\ AccountsInv' /\ AnyStep
    BY DEF IInv, Next, AnyStep
  <2> QED BY <2>1, QuotesStep, Zenon DEF Follows
<1>2. QuotesFollowLiquidity <=> [][Follows]_vars
  BY DEF QuotesFollowLiquidity
<1> HIDE DEF Follows
<1> QED BY <1>1, <1>2, InductiveInvariant, PTL DEF Spec

-----------------------------------------------------------------------------
(* The fee that is charged against the exact one.  Everything is brought   *)
(* to one denominator: P and Q are the numerator and the denominator of    *)
(* the line between the rounded ends, with no rounding after them.         *)

(* A valid ratio is rounded down to the scale.                             *)
LEMMA IntoPreciseRounds ==
    ASSUME NEW r \in Rational, ValidRatio(r)
    PROVE  /\ r.denom * IntoPrecise(r) <= r.num * ONE
           /\ r.num * ONE < r.denom * IntoPrecise(r) + r.denom
<1> DEFINE h == ONE \div 2
           n == r.num * ONE * ONE + h
           d == r.denom * ONE
           c == IntoPrecise(r)
<1>1. r.num \in Nat /\ r.denom \in Nat \ {0}
  BY U64MaxAssumption DEF Rational, U64, ValidRatio, Validate
<1>2. h \in Nat /\ h < ONE /\ ONE \in Nat \ {0}
  BY HalfType, ONEAssumption
<1>3. c = n \div d
  BY DEF IntoPrecise, PreciseDiv, PreciseNew
<1>4. c \in Nat /\ d * c <= n /\ n < d * c + d
  <2> HIDE DEF h, c
  <2>1. n \in Nat /\ d \in Nat \ {0}
    BY <1>1, <1>2
  <2> HIDE DEF n, d
  <2> QED BY <1>3, <2>1, DivBounds
<1> HIDE DEF h, c
<1>5. ONE * (r.denom * c) <= ONE * (r.num * ONE) + h
  BY <1>1, <1>2, <1>4
<1>6. ONE * (r.num * ONE) + h < ONE * (r.denom * c + r.denom)
  BY <1>1, <1>2, <1>4
<1> DEFINE x == r.denom * c
           y == r.num * ONE
<1>7. x \in Nat /\ y \in Nat
  BY <1>1, <1>2, <1>4
<1>8. ONE * x <= ONE * y + h /\ ONE * y + h < ONE * (x + r.denom)
  BY <1>5, <1>6
<1> HIDE DEF x, y
<1>9. x <= y
  <2> SUFFICES ASSUME y + 1 <= x PROVE FALSE
    BY <1>7
  <2>1. ONE * (y + 1) <= ONE * x
    BY <1>2, <1>7, TimesMonotone
  <2> QED BY <1>2, <1>7, <1>8, <2>1
<1>10. y < x + r.denom
  <2> SUFFICES ASSUME x + r.denom <= y PROVE FALSE
    BY <1>1, <1>7
  <2>1. ONE * (x + r.denom) <= ONE * y
    BY <1>1, <1>2, <1>7, TimesMonotone
  <2>2. ONE * (x + r.denom) \in Int /\ ONE * y \in Int
    BY <1>1, <1>2, <1>7
  <2> QED BY <1>2, <1>8, <2>1, <2>2
<1> QED BY <1>9, <1>10 DEF x, y, c

(* What the three rounded divisions of the ratio add up to.                *)
LEMMA RoundingArithmetic ==
    ASSUME NEW one \in Nat \ {0}, NEW max \in Nat, NEW slope \in Nat \ {0},
           max + slope <= one, NEW h \in Nat, 2 * h <= one,
           NEW owned \in Nat, NEW inc \in Nat, NEW stake \in Nat \ {0},
           NEW a \in Nat, slope * a <= owned * max * one + h,
           slope * a >= owned * max * one + h - (slope - 1),
           NEW b \in Nat, slope * b <= owned * one * one + h,
           slope * b >= owned * one * one + h - (slope - 1),
           NEW ratio \in Nat, ratio < one,
           ratio * (b + stake * one) <= (a + (inc + stake) * one) * one + h,
           (a + (inc + stake) * one) * one + h < (ratio + 1) * (b + stake * one)
    PROVE  LET P == slope * (inc + stake) + max * owned
               Q == one * owned + slope * stake
           IN  /\ (ratio + 1) * Q >= one * P - (slope - 1)
               /\ ratio * Q <= one * P + one + (slope - 1)
<1> DEFINE P == slope * (inc + stake) + max * owned
           Q == one * owned + slope * stake
           k == slope - 1
<1>1. k \in Nat /\ P \in Nat /\ Q \in Nat
  OBVIOUS
<1>2. one * (one * P - k) <= one * ((ratio + 1) * Q)
  <2>1. slope * ((a + (inc + stake) * one) * one + h + 1)
          <= slope * ((ratio + 1) * (b + stake * one))
    BY TimesMonotone
  <2>2. (ratio + 1) * (slope * b) <= (ratio + 1) * (owned * one * one + h)
    BY TimesMonotone
  <2>3. one * (slope * a) >= one * (owned * max * one + h - k)
    BY TimesMonotone
  <2>4. h * (ratio + 1) <= h * one
    BY TimesMonotone
  <2>5. slope * (h + 1) >= 0
    OBVIOUS
  <2> QED BY <2>1, <2>2, <2>3, <2>4, <2>5
<1>3. one * (ratio * Q) <= one * (one * P + one + k)
  <2>1. slope * (ratio * (b + stake * one))
          <= slope * ((a + (inc + stake) * one) * one + h)
    BY TimesMonotone
  <2>2. ratio * (slope * b) >= ratio * (owned * one * one + h - k)
    BY TimesMonotone
  <2>3. one * (slope * a) <= one * (owned * max * one + h)
    BY TimesMonotone
  <2>4. h * slope <= h * one /\ one * (2 * h) <= one * one
    BY TimesMonotone
  <2>5. one * (ratio * Q) + ratio * (h - k) <= one * (one * P) + one * h + h * slope
    BY <2>1, <2>2, <2>3
  <2>6. CASE k <= h
    <3>1. ratio * (h - k) >= 0 /\ one * k >= 0
      BY <1>1, <2>6
    <3> QED BY <1>1, <2>4, <2>5, <3>1
  <2>7. CASE h < k
    <3>1. (k - h) * ratio <= (k - h) * one
      BY <1>1, <2>7, TimesMonotone
    <3> QED BY <1>1, <2>4, <2>5, <3>1
  <2> QED BY <1>1, <2>6, <2>7
<1>4. (ratio + 1) * Q \in Int /\ one * P - k \in Int
      /\ ratio * Q \in Int /\ one * P + one + k \in Int
  OBVIOUS
<1> HIDE DEF P, Q, k
<1>5. one * P - k <= (ratio + 1) * Q /\ ratio * Q <= one * P + one + k
  BY <1>2, <1>3, <1>4, CancelFactor
<1> QED BY <1>5 DEF P, Q, k

(* The ends of the schedule, at a common denominator D: as the code rounds *)
(* them, D max and D (max + slope), and exactly, lower and upper.          *)
LEMMA ExactArithmetic ==
    ASSUME NEW one \in Nat \ {0}, NEW max \in Nat, NEW slope \in Nat \ {0},
           max + slope <= one, NEW inc \in Nat, NEW stake \in Nat \ {0},
           NEW owned \in Nat \ {0}, NEW res \in Nat, owned = inc + res,
           NEW ratio \in Nat, ratio < one,
           stake * (one - ratio) <= res * one + (one - 1),
           NEW P, P = slope * (inc + stake) + max * owned,
           NEW Q, Q = one * owned + slope * stake,
           (ratio + 1) * Q >= one * P - (slope - 1),
           ratio * Q <= one * P + one + (slope - 1),
           NEW D \in Nat \ {0}, NEW alpha \in 0 .. D - 1, NEW beta \in 0 .. D - 1,
           NEW lower, lower = D * max + beta,
           NEW upper, upper = D * (max + slope) + alpha
    PROVE  LET num == (upper - lower) * (inc + stake) + lower * owned
               den == one * D * owned + (upper - lower) * stake
           IN  /\ (ratio + 3) * den >= one * num
               /\ (ratio - 2) * den <= one * num
<1> DEFINE num == (upper - lower) * (inc + stake) + lower * owned
           den == one * D * owned + (upper - lower) * stake
           full == one * owned
           w == one * inc + stake * (one - ratio)
<1>1. P \in Nat /\ Q \in Nat /\ full \in Nat /\ w \in Nat
  <2>1. stake * (one - ratio) \in Nat
    OBVIOUS
  <2> QED BY <2>1
<1>2. full >= one /\ slope * stake >= stake /\ slope * stake >= slope
  <2>1. one * 1 <= one * owned /\ stake * 1 <= stake * slope /\ slope * 1 <= slope * stake
    BY TimesMonotone
  <2> QED BY <2>1
<1>3. w <= full + (one - 1)
  OBVIOUS
<1>4. w >= stake
  <2>1. stake * 1 <= stake * (one - ratio)
    BY TimesMonotone
  <2>2. one * inc \in Nat
    OBVIOUS
  <2> QED BY <2>1, <2>2
<1>5. /\ num = D * P + (alpha - beta) * (inc + stake) + beta * owned
      /\ den = D * Q + (alpha - beta) * stake
  OBVIOUS
<1>6. one * num = D * (one * P) + (alpha - beta) * (one * (inc + stake)) + beta * full
  BY <1>1, <1>5
<1>7. one * (inc + stake) = w + ratio * stake
  OBVIOUS
<1>8. one * num = D * (one * P) + (alpha - beta) * (w + ratio * stake) + beta * full
  BY <1>6, <1>7
<1>9. /\ (ratio + 3) * den = D * ((ratio + 1) * Q) + 2 * (D * Q)
                               + (alpha - beta) * (ratio * stake + 3 * stake)
      /\ (ratio - 2) * den = D * (ratio * Q) - 2 * (D * Q)
                               + (alpha - beta) * (ratio * stake - 2 * stake)
  BY <1>1, <1>5
<1>10. /\ D * (one * P - (slope - 1)) <= D * ((ratio + 1) * Q)
       /\ D * (ratio * Q) <= D * (one * P + one + (slope - 1))
  BY <1>1, TimesMonotone
<1>11. alpha \in Nat /\ beta \in Nat /\ alpha <= D /\ beta <= D
  OBVIOUS
<1>12. Q = full + slope * stake
  OBVIOUS
<1>13. den \in Int /\ num \in Int
  BY <1>1, <1>5, <1>11
<1> HIDE DEF num, den, full, w
(* How far the exact ratio can be above the rounded one.                   *)
<1>14. (ratio + 3) * den >= one * num
  <2> DEFINE v == w - 3 * stake
  <2>1. (ratio + 3) * den - one * num
          >= 2 * (D * Q) - D * (slope - 1) - alpha * v + beta * (v - full)
    <3>1. /\ D * (one * P) \in Int /\ D * ((ratio + 1) * Q) \in Int /\ D * Q \in Int
          /\ D * (one * P - (slope - 1)) = D * (one * P) - D * (slope - 1)
          /\ D * (slope - 1) \in Int
      BY <1>1
    <3>2. /\ (alpha - beta) * (ratio * stake + 3 * stake)
                = (alpha - beta) * (ratio * stake) + 3 * (alpha * stake) - 3 * (beta * stake)
          /\ (alpha - beta) * (w + ratio * stake)
                = (alpha - beta) * (ratio * stake) + alpha * w - beta * w
          /\ alpha * v = alpha * w - 3 * (alpha * stake)
          /\ beta * (v - full) = beta * w - 3 * (beta * stake) - beta * full
      BY <1>1, <1>11
    <3>3. /\ (alpha - beta) * (ratio * stake) \in Int /\ alpha * stake \in Int
          /\ beta * stake \in Int /\ alpha * w \in Int /\ beta * w \in Int
          /\ beta * full \in Int
      BY <1>1, <1>11
    <3> QED BY <1>8, <1>9, <1>10, <3>1, <3>2, <3>3
  <2>2. v \in Int /\ v <= full + one /\ v >= 0 - 2 * stake
    BY <1>1, <1>3, <1>4
  <2> HIDE DEF v
  <2>3. alpha * v <= D * full + D * full /\ (v <= 0 => alpha * v <= 0)
    <3>1. CASE v <= 0
      <4>1. alpha * v <= alpha * 0
        BY <1>11, <2>2, <3>1, TimesMonotone
      <4>2. D * full \in Nat /\ alpha * 0 = 0 /\ alpha * v \in Int
        BY <1>1, <1>11, <2>2
      <4> QED BY <4>1, <4>2
    <3>2. CASE v > 0
      <4>1. v * alpha <= v * D
        BY <1>11, <2>2, <3>2, TimesMonotone
      <4>2. D * v <= D * (full + full)
        BY <1>1, <1>2, <2>2, TimesMonotone
      <4> QED BY <1>1, <1>11, <2>2, <3>2, <4>1, <4>2
    <3> QED BY <2>2, <3>1, <3>2
  <2>4. 2 * (D * Q) = 2 * (D * full) + 2 * (D * (slope * stake))
    BY <1>1, <1>12
  <2>5. D * (slope * stake) >= D * slope /\ D * (slope * stake) >= D * stake
    BY <1>2, TimesMonotone
  <2>6. /\ D * (slope - 1) <= D * slope /\ D * full \in Nat
        /\ D * slope \in Nat /\ D * (slope - 1) \in Int
        /\ D * stake \in Nat /\ D * (slope * stake) \in Nat /\ D * Q \in Int
        /\ alpha * v \in Int /\ beta * (v - full) \in Int
    BY <1>1, <1>11, <2>2
  <2>7. 2 * (D * Q) - D * (slope - 1) - alpha * v + beta * (v - full) >= 0
    <3>1. CASE v >= full
      <4>1. beta * (v - full) >= 0
        BY <1>1, <1>11, <2>2, <3>1
      <4> QED BY <2>3, <2>4, <2>5, <2>6, <4>1
    <3>2. CASE v < full /\ v >= 0
      <4>1. (full - v) * beta <= (full - v) * D /\ v * alpha <= v * D
        BY <1>1, <1>11, <2>2, <3>2, TimesMonotone
      <4>2. /\ (full - v) * D + v * D = D * full
            /\ (full - v) * beta = 0 - beta * (v - full) /\ v * alpha = alpha * v
            /\ (full - v) * D \in Int /\ v * D \in Int
        BY <1>1, <1>11, <2>2
      <4> QED BY <2>4, <2>5, <2>6, <4>1, <4>2
    <3>3. CASE v < 0
      <4>1. (full - v) * beta <= (full - v) * D
        BY <1>1, <1>11, <2>2, <3>3, TimesMonotone
      <4>2. D * (full - v) <= D * (full + 2 * stake)
        BY <1>1, <2>2, TimesMonotone
      <4>3. /\ (full - v) * D = D * (full - v) /\ D * (full - v) \in Int
            /\ D * (full + 2 * stake) = D * full + 2 * (D * stake)
            /\ (full - v) * beta = 0 - beta * (v - full)
        BY <1>1, <1>11, <2>2
      <4>4. alpha * v <= 0
        BY <2>2, <2>3, <3>3
      <4>5. D * slope <= D * one /\ D * one <= D * full /\ D * one \in Nat
        BY <1>1, <1>2, TimesMonotone
      <4> QED BY <2>4, <2>5, <2>6, <4>1, <4>2, <4>3, <4>4, <4>5
    <3> QED BY <1>1, <2>2, <3>1, <3>2, <3>3
  <2>8. ratio + 3 \in Int /\ (ratio + 3) * den \in Int /\ one * num \in Int
    BY <1>13
  <2> QED BY <2>1, <2>6, <2>7, <2>8
(* And how far below.                                                      *)
<1>15. (ratio - 2) * den <= one * num
  <2> DEFINE v == w + 2 * stake
  <2>1. one * num - (ratio - 2) * den
          >= 2 * (D * Q) - D * (one + (slope - 1)) + alpha * v + beta * (full - v)
    <3>1. /\ D * (one * P) \in Int /\ D * (ratio * Q) \in Int /\ D * Q \in Int
          /\ D * (one * P + one + (slope - 1)) = D * (one * P) + D * (one + (slope - 1))
          /\ D * (one + (slope - 1)) \in Int
      BY <1>1
    <3>2. /\ (alpha - beta) * (ratio * stake - 2 * stake)
                = (alpha - beta) * (ratio * stake) - 2 * (alpha * stake) + 2 * (beta * stake)
          /\ (alpha - beta) * (w + ratio * stake)
                = (alpha - beta) * (ratio * stake) + alpha * w - beta * w
          /\ alpha * v = alpha * w + 2 * (alpha * stake)
          /\ beta * (full - v) = beta * full - beta * w - 2 * (beta * stake)
      BY <1>1, <1>11
    <3>3. /\ (alpha - beta) * (ratio * stake) \in Int /\ alpha * stake \in Int
          /\ beta * stake \in Int /\ alpha * w \in Int /\ beta * w \in Int
          /\ beta * full \in Int
      BY <1>1, <1>11
    <3> QED BY <1>8, <1>9, <1>10, <3>1, <3>2, <3>3
  <2>2. v \in Nat /\ v - full <= one - 1 + 2 * stake
    BY <1>1, <1>3
  <2> HIDE DEF v
  <2>3. alpha * v >= 0
    BY <1>11, <2>2
  <2>4. 0 - beta * (full - v) <= D * (one - 1 + 2 * stake)
    <3>1. CASE v <= full
      <4>1. beta * (full - v) >= 0
        BY <1>1, <1>11, <2>2, <3>1
      <4>2. D * (one - 1 + 2 * stake) >= 0
        OBVIOUS
      <4> QED BY <1>1, <1>11, <2>2, <4>1, <4>2
    <3>2. CASE v > full
      <4>1. (v - full) * beta <= (v - full) * D
        BY <1>1, <1>11, <2>2, <3>2, TimesMonotone
      <4>2. D * (v - full) <= D * (one - 1 + 2 * stake)
        BY <1>1, <2>2, TimesMonotone
      <4>3. 0 - beta * (full - v) = (v - full) * beta /\ (v - full) * D = D * (v - full)
        BY <1>1, <1>11, <2>2
      <4> QED BY <1>1, <1>11, <2>2, <4>1, <4>2, <4>3
    <3> QED BY <1>1, <2>2, <3>1, <3>2
  <2>5. 2 * Q >= (one + (slope - 1)) + (one - 1 + 2 * stake)
    <3>1. (slope - 1) * 1 <= (slope - 1) * stake
      BY TimesMonotone
    <3>2. slope * stake = (slope - 1) * stake + stake
      OBVIOUS
    <3> QED BY <1>1, <1>2, <1>12, <3>1, <3>2
  <2>6. D * ((one + (slope - 1)) + (one - 1 + 2 * stake)) <= D * (2 * Q)
    BY <1>1, <2>5, TimesMonotone
  <2>7. one * num - (ratio - 2) * den >= 0
    <3>1. /\ D * ((one + (slope - 1)) + (one - 1 + 2 * stake))
               = D * (one + (slope - 1)) + D * (one - 1 + 2 * stake)
          /\ D * (2 * Q) = 2 * (D * Q) /\ D * Q \in Int
          /\ D * (one + (slope - 1)) \in Int /\ D * (one - 1 + 2 * stake) \in Int
          /\ beta * (full - v) \in Int /\ alpha * v \in Int
      BY <1>1, <1>11, <2>2
    <3> QED BY <1>13, <2>1, <2>3, <2>4, <2>6, <3>1
  <2> QED BY <1>13, <2>7
<1> QED BY <1>14, <1>15 DEF num, den

(* What is charged beyond the schedule's end: at most the end itself, and, *)
(* for a swap short of a lamport, that lamport's share on the steeper line.*)
LEMMA RangeArithmetic ==
    ASSUME NEW one \in Nat \ {0}, NEW max \in Nat, NEW slope \in Nat \ {0},
           NEW inc \in Nat, NEW owned \in Nat \ {0}, NEW stake \in Nat \ {0},
           NEW res \in Nat, owned = inc + res, NEW ratio \in Nat, ratio < one,
           stake * (one - ratio) <= res * one + (one - 1),
           NEW P, P = slope * (inc + stake) + max * owned,
           NEW Q, Q = one * owned + slope * stake,
           ratio * Q <= one * P + one + (slope - 1),
           NEW D \in Nat \ {0}, NEW lower \in Int, NEW upper \in Int,
           D * (max + slope) <= upper, D * slope <= upper - lower + D
    PROVE  D * ((ratio - 1) * owned) <= upper * owned + (upper - lower)
<1>1. slope * (stake * (one - ratio)) <= slope * (res * one + (one - 1))
  BY TimesMonotone
<1>2. one * (ratio * owned) <= one * ((max + slope) * owned + slope) + (one - 1)
  <2>1. ratio * Q = one * (ratio * owned) + slope * (stake * ratio)
    OBVIOUS
  <2>2. one * P = slope * one * inc + slope * (stake * one) + one * (max * owned)
    OBVIOUS
  <2>3. slope * (stake * (one - ratio)) = slope * (stake * one) - slope * (stake * ratio)
    OBVIOUS
  <2>4. slope * (res * one + (one - 1))
          = one * (slope * owned) - slope * one * inc + slope * one - slope
    OBVIOUS
  <2>5. one * ((max + slope) * owned + slope)
          = one * (max * owned) + one * (slope * owned) + slope * one
    OBVIOUS
  <2> DEFINE a == one * (ratio * owned)
             b == slope * (stake * ratio)
             c == slope * (stake * one)
             d == one * (max * owned)
             e == one * (slope * owned)
             g == slope * one * inc
             k == slope * one
             l == ratio * Q
             m == one * P
  <2>6. /\ a \in Int /\ b \in Int /\ c \in Int /\ d \in Int /\ e \in Int
        /\ g \in Int /\ k \in Int
    OBVIOUS
  <2>7. /\ l = a + b /\ m = g + c + d /\ l <= m + one + (slope - 1)
        /\ c - b <= e - g + k - slope
    BY <1>1, <2>1, <2>2, <2>3, <2>4
  <2>8. one * ((max + slope) * owned + slope) = d + e + k
    BY <2>5
  <2> HIDE DEF a, b, c, d, e, g, k, l, m
  <2>9. a <= d + e + k + (one - 1)
    BY <2>6, <2>7
  <2> QED BY <2>8, <2>9 DEF a
<1> DEFINE x == ratio * owned
           y == (max + slope) * owned + slope
<1>3. x \in Nat /\ y \in Nat
  OBVIOUS
<1>4. one * x <= one * y + (one - 1)
  BY <1>2
<1>5. x <= y
  <2> HIDE DEF x, y
  <2> SUFFICES ASSUME y + 1 <= x PROVE FALSE
    BY <1>3
  <2>1. one * (y + 1) <= one * x
    BY <1>3, TimesMonotone
  <2>2. one * (y + 1) = one * y + one /\ one * y \in Int /\ one * x \in Int
    BY <1>3
  <2> QED BY <1>4, <2>1, <2>2
<1>6. D * (ratio * owned) <= D * ((max + slope) * owned + slope)
  BY <1>3, <1>5, TimesMonotone
<1>7. owned * (D * (max + slope)) <= owned * upper
  BY TimesMonotone
<1>8. D * 1 <= D * owned
  BY TimesMonotone
<1>9. /\ D * ((ratio - 1) * owned) = D * (ratio * owned) - D * owned
      /\ D * ((max + slope) * owned + slope) = owned * (D * (max + slope)) + D * slope
      /\ owned * upper = upper * owned /\ D * 1 = D
      /\ D * (ratio * owned) \in Int /\ D * owned \in Int /\ D * slope \in Int
      /\ owned * (D * (max + slope)) \in Int /\ upper * owned \in Int
  OBVIOUS
<1> QED BY <1>6, <1>7, <1>8, <1>9

-----------------------------------------------------------------------------
(* The fee charged in a step of the pool.                                  *)

LEMMA LineRounds ==
    ASSUME NEW max \in Nat, NEW slope \in Nat \ {0}, max + slope <= ONE,
           NEW inc \in Nat, NEW owned \in Nat, NEW stake \in Nat \ {0},
           NEW ratio, ratio = Line(max, slope, inc, owned, stake), ratio < ONE,
           NEW P, P = slope * (inc + stake) + max * owned,
           NEW Q, Q = ONE * owned + slope * stake
    PROVE  /\ (ratio + 1) * Q >= ONE * P - (slope - 1)
           /\ ratio * Q <= ONE * P + ONE + (slope - 1)
<1> DEFINE h == ONE \div 2
           n == owned * max * ONE + h
           m == owned * ONE * ONE + h
           a == n \div slope
           b == m \div slope
           num == LineNum(max, slope, inc, owned, stake)
           den == LineDenom(slope, owned, stake)
<1>1. h \in Nat /\ 2 * h <= ONE /\ ONE \in Nat \ {0}
  BY ONEAssumption
<1>2. num = a + (inc + stake) * ONE /\ den = b + stake * ONE
  BY DEF LineNum, LineDenom, PreciseDiv, PreciseNew
<1>3. num \in Nat /\ den \in Nat \ {0} /\ ratio \in Nat
  BY LineType
<1>4. ratio = (num * ONE + h) \div den
  BY DEF Line, PreciseDiv
<1> HIDE DEF h, num, den
<1>5. n \in Nat /\ m \in Nat /\ num * ONE + h \in Nat
  BY <1>1, <1>3
<1>6. a \in Nat /\ slope * a <= n /\ n < slope * a + slope
      /\ b \in Nat /\ slope * b <= m /\ m < slope * b + slope
  <2> HIDE DEF n, m
  <2> QED BY <1>5, DivBounds
<1>7. slope * a >= n - (slope - 1) /\ slope * b >= m - (slope - 1)
  <2> HIDE DEF n, m, a, b
  <2>1. slope * a \in Int /\ slope * b \in Int
    BY <1>6
  <2> QED BY <1>5, <1>6, <2>1
<1>8. den * ratio <= num * ONE + h /\ num * ONE + h < den * ratio + den
  BY <1>3, <1>4, <1>5, DivBounds
<1>9. ratio * den <= num * ONE + h /\ num * ONE + h < (ratio + 1) * den
  BY <1>1, <1>3, <1>8
<1>10. /\ n = owned * max * ONE + h /\ m = owned * ONE * ONE + h
  OBVIOUS
<1> HIDE DEF n, m, a, b
<1>11. /\ ratio * (b + stake * ONE) <= (a + (inc + stake) * ONE) * ONE + h
       /\ (a + (inc + stake) * ONE) * ONE + h < (ratio + 1) * (b + stake * ONE)
  BY <1>2, <1>9
<1>12. /\ slope * a <= owned * max * ONE + h
       /\ slope * a >= owned * max * ONE + h - (slope - 1)
       /\ slope * b <= owned * ONE * ONE + h
       /\ slope * b >= owned * ONE * ONE + h - (slope - 1)
  BY <1>1, <1>5, <1>6, <1>7, <1>10
<1> QED BY <1>1, <1>3, <1>6, <1>11, <1>12, RoundingArithmetic

(* The ends of a linear schedule, rounded down, over their common          *)
(* denominator.                                                            *)
LEMMA EndsRound ==
    ASSUME NEW low \in Rational, ValidRatio(low), NEW high \in Rational, ValidRatio(high),
           NEW D, D = low.denom * high.denom,
           NEW lower, lower = low.num * high.denom * ONE,
           NEW upper, upper = high.num * low.denom * ONE
    PROVE  /\ D \in Nat \ {0} /\ lower \in Nat /\ upper \in Nat
           /\ lower - D * IntoPrecise(low) \in 0 .. D - 1
           /\ upper - D * IntoPrecise(high) \in 0 .. D - 1
<1> DEFINE p == IntoPrecise(low)
           q == IntoPrecise(high)
<1>1. /\ low.num \in Nat /\ low.denom \in Nat \ {0}
      /\ high.num \in Nat /\ high.denom \in Nat \ {0} /\ ONE \in Nat \ {0}
  BY U64MaxAssumption, ONEAssumption DEF Rational, U64, ValidRatio, Validate
<1>2. p \in Nat /\ low.denom * p <= low.num * ONE /\ low.num * ONE < low.denom * p + low.denom
  BY <1>1, IntoPreciseBounds, IntoPreciseRounds
<1>3. q \in Nat /\ high.denom * q <= high.num * ONE
      /\ high.num * ONE < high.denom * q + high.denom
  BY <1>1, IntoPreciseBounds, IntoPreciseRounds
<1> HIDE DEF p, q
<1>4. D \in Nat \ {0} /\ lower \in Nat /\ upper \in Nat
  BY <1>1
<1> DEFINE beta == low.num * ONE - low.denom * p
           alpha == high.num * ONE - high.denom * q
<1>5. beta \in 0 .. low.denom - 1 /\ alpha \in 0 .. high.denom - 1
  <2>1. low.denom * p \in Int /\ low.num * ONE \in Int
        /\ high.denom * q \in Int /\ high.num * ONE \in Int
    BY <1>1, <1>2, <1>3
  <2> QED BY <1>1, <1>2, <1>3, <2>1
<1>6. lower - D * p = high.denom * beta /\ upper - D * q = low.denom * alpha
  BY <1>1, <1>2, <1>3
<1> HIDE DEF beta, alpha
<1>7. /\ high.denom * 0 <= high.denom * beta
      /\ high.denom * beta <= high.denom * (low.denom - 1)
      /\ low.denom * 0 <= low.denom * alpha
      /\ low.denom * alpha <= low.denom * (high.denom - 1)
  BY <1>1, <1>5, TimesMonotone
<1>8. /\ high.denom * (low.denom - 1) = D - high.denom
      /\ low.denom * (high.denom - 1) = D - low.denom
      /\ high.denom * beta \in Int /\ low.denom * alpha \in Int
      /\ high.denom * 0 = 0 /\ low.denom * 0 = 0
  BY <1>1, <1>5
<1>9. lower - D * p \in 0 .. D - 1 /\ upper - D * q \in 0 .. D - 1
  <2> DEFINE x == high.denom * beta
             y == low.denom * alpha
  <2>1. /\ x \in Int /\ y \in Int /\ 0 <= x /\ x <= D - high.denom
        /\ 0 <= y /\ y <= D - low.denom
    BY <1>7, <1>8
  <2> HIDE DEF x, y
  <2>2. x \in 0 .. D - 1 /\ y \in 0 .. D - 1
    BY <1>1, <1>4, <2>1
  <2> QED BY <1>6, <2>2 DEF x, y
<1> QED BY <1>4, <1>9 DEF p, q

(* A fee is its ratio of the stake, rounded up to a lamport.               *)
LEMMA FeeRounds ==
    ASSUME NEW stake \in Nat, NEW ratio \in Nat,
           NEW paid, paid = PreciseCeiling(PreciseMul(PreciseNew(stake), ratio))
    PROVE  paid \in Nat /\ stake * ratio <= paid * ONE /\ (paid - 1) * ONE < stake * ratio
<1> DEFINE x == stake * ratio
           n == x + ONE - 1
<1>1. x \in Nat /\ ONE \in Nat \ {0}
  BY ONEAssumption
<1>2. paid = n \div ONE
  BY PreciseMulWhole DEF PreciseCeiling
<1> HIDE DEF x
<1>3. n \in Nat
  BY <1>1
<1>4. paid \in Nat /\ ONE * paid <= n /\ n < ONE * paid + ONE
  <2> HIDE DEF n
  <2> QED BY <1>1, <1>2, <1>3, DivBounds
<1>5. ONE * paid = paid * ONE /\ (paid - 1) * ONE = paid * ONE - ONE /\ paid * ONE \in Int
  BY <1>1, <1>4
<1>6. x <= paid * ONE /\ (paid - 1) * ONE < x
  BY <1>1, <1>4, <1>5
<1> QED BY <1>4, <1>6 DEF x

(* What a swap that pays for s charges, where none of it is the protocol's:*)
(* the ratio of the schedule, rounded up, which leaves the seller something*)
(* that the reserves hold.                                                 *)
LEMMA SwapTerms ==
    ASSUME AccountsInv, AnyStep, NEW s \in Stakes, PaidFor(s), NoProtocolFee,
           NEW stake, stake = lamports[s],
           NEW res, res = reserves - RecordTopUp(s),
           NEW ratio, ratio = FeeRatio(fee, incoming, res, stake)
    PROVE  /\ s \in OnSale
           /\ ratio # None
           /\ Kept(s) = PreciseCeiling(PreciseMul(PreciseNew(stake), ratio))
           /\ Kept(s) \in Nat /\ Kept(s) < stake /\ stake - Kept(s) <= res
<1> DEFINE paid == ApplyFee(fee, incoming, res, stake)
           Charged == /\ s \in OnSale
                      /\ paid \in Nat /\ Kept(s) = paid
                      /\ paid < stake /\ stake - paid <= res
<1>1. ASSUME NEW u \in Users, NEW destination, NEW referrer,
             RunUnstake(u, s, destination, referrer)
      PROVE  Charged
  <2> DEFINE left == stake - paid
             levy == FloorMul(protocolFee.fee_ratio, paid)
             toReferrer == IF referrer = Nobody
                           THEN 0 ELSE FloorMul(protocolFee.referrer_fee_ratio, levy)
  <2>1. s \in OnSale
    BY <1>1 DEF RunUnstake, OnSale
  <2>2. /\ paid \in Nat /\ left \in Nat /\ left + levy <= res
        /\ reserves' = res - PaidOut(destination, left) - PaidOut(referrer, toReferrer)
                           - PaidOut(protocolFee.destination, levy - toReferrer)
    BY <1>1, U64MaxAssumption DEF RunUnstake, U64
  <2>3. res \in Nat /\ stake \in Nat \ {0} /\ reserves \in Nat /\ RecordTopUp(s) \in Nat
    BY <2>1, QuoteTerms DEF AccountsInv, AccountsTypeOK
  <2>4. /\ levy = 0
        /\ toReferrer = 0
    <3>1. /\ protocolFee.fee_ratio.denom \in Nat \ {0}
          /\ protocolFee.referrer_fee_ratio.denom \in Nat \ {0}
          /\ protocolFee.referrer_fee_ratio.num \in Nat
      BY FeesAssumption, U64MaxAssumption
      DEF AccountsInv, AccountsTypeOK, ValidProtocolFee, ValidRatio, Validate, Rational, U64
    <3>2. ASSUME NEW c \in Nat \ {0} PROVE 0 \div c = 0
      BY DivBounds, QuotientAtMost
    <3> HIDE DEF paid
    <3>3. levy = 0
      BY <2>2, <3>1, <3>2 DEF NoProtocolFee, FloorMul
    <3>4. FloorMul(protocolFee.referrer_fee_ratio, 0) = 0
      BY <3>1, <3>2 DEF FloorMul
    <3> QED BY <3>3, <3>4
  <2>5. reserves' < res
    BY DEF PaidFor
  <2> HIDE DEF paid, levy, toReferrer
  <2>6. reserves' = res - PaidOut(destination, left)
    BY <2>2, <2>3, <2>4 DEF PaidOut
  <2>7. PaidOut(destination, left) = left /\ left > 0
    BY <2>2, <2>3, <2>5, <2>6 DEF PaidOut
  <2>8. Kept(s) = stake - (res - reserves')
    BY DEF Kept
  <2> QED BY <2>1, <2>2, <2>3, <2>4, <2>6, <2>7, <2>8
<1>2. ASSUME NEW t \in Stakes, ReclaimStakeAccount(t)
      PROVE  FALSE
  BY <1>2 DEF ReclaimStakeAccount, Unbook, PaidFor, Sold
<1>3. ASSUME NEW t \in Stakes, t # s, NEW u, NEW destination, NEW referrer,
             RunUnstake(u, t, destination, referrer)
      PROVE  FALSE
  BY <1>3 DEF RunUnstake, PaidFor, Sold
<1>4. ASSUME NEW t \in Stakes, NEW u \in Users, NEW destination, NEW referrer,
             RunUnstake(u, t, destination, referrer)
      PROVE  Charged
  BY <1>1, <1>3, <1>4
<1> HIDE DEF Charged, paid
<1>5. Charged
  BY <1>2, <1>4
  DEF AnyStep, PoolInstruction, Environment, StakeOwner, Cluster, Unstake, UnstakeWsol,
      AddLiquidity, RemoveLiquidity, SetFee, SetProtocolFee, DeactivateStakeAccount,
      CreateStake, DelegateStake, OwnerDeactivate, OwnerWithdraw, AuthorizeStaker,
      AuthorizeWithdrawer, SetLockup, LockupExpires, EpochPasses, ReservesReceive,
      StakeReceives, RecordReceives, HolderBurns, PaidFor, Sold, recordVars
<1>6. paid = IF ratio = None THEN None
             ELSE PreciseCeiling(PreciseMul(PreciseNew(stake), ratio))
  BY Zenon DEF ApplyFee, paid
<1>7. ratio # None
  BY <1>5, <1>6 DEF None, Charged
<1> QED BY <1>5, <1>6, <1>7 DEF Charged

(* Rounding the fee to a lamport, on either side of a bound on the ratio.  *)
LEMMA PaidAtLeast ==
    ASSUME NEW one \in Nat \ {0}, NEW stake \in Nat \ {0}, NEW ratio \in Nat,
           NEW paid \in Nat, stake * ratio <= paid * one,
           NEW up \in Nat, NEW den \in Nat \ {0}, NEW num \in Int,
           num <= (ratio + up) * den
    PROVE  (paid * one + up * stake) * den >= stake * num
<1>1. stake * num <= stake * ((ratio + up) * den)
  BY TimesMonotone
<1>2. den * (stake * ratio) <= den * (paid * one)
  BY TimesMonotone
<1>3. /\ stake * ((ratio + up) * den) = den * (stake * ratio) + den * (up * stake)
      /\ (paid * one + up * stake) * den = den * (paid * one) + den * (up * stake)
      /\ den * (stake * ratio) \in Int /\ den * (paid * one) \in Int
      /\ den * (up * stake) \in Int /\ stake * num \in Int
  OBVIOUS
<1> QED BY <1>1, <1>2, <1>3

LEMMA PaidBelow ==
    ASSUME NEW one \in Nat \ {0}, NEW stake \in Nat \ {0}, NEW ratio \in Nat,
           NEW paid \in Nat, (paid - 1) * one < stake * ratio,
           NEW down \in Nat, NEW den \in Nat \ {0}, NEW num \in Int,
           (ratio - down) * den <= num
    PROVE  ((paid - 1) * one - down * stake) * den < stake * num
<1>1. stake * ((ratio - down) * den) <= stake * num
  BY TimesMonotone
<1>2. den * ((paid - 1) * one + 1) <= den * (stake * ratio)
  BY TimesMonotone
<1>3. /\ stake * ((ratio - down) * den) = den * (stake * ratio) - den * (down * stake)
      /\ ((paid - 1) * one - down * stake) * den
            = den * ((paid - 1) * one) - den * (down * stake)
      /\ den * ((paid - 1) * one + 1) = den * ((paid - 1) * one) + den
      /\ den * (stake * ratio) \in Int /\ den * ((paid - 1) * one) \in Int
      /\ den * (down * stake) \in Int /\ stake * num \in Int
  OBVIOUS
<1> QED BY <1>1, <1>2, <1>3

(* A fee below the stake, and a payment within the reserves, bound the     *)
(* ratio.                                                                  *)
LEMMA PayableRatio ==
    ASSUME NEW one \in Nat \ {0}, NEW stake \in Nat \ {0}, NEW ratio \in Nat,
           NEW paid \in Nat, stake * ratio <= paid * one, (paid - 1) * one < stake * ratio,
           paid < stake, NEW res \in Nat, stake - paid <= res
    PROVE  /\ ratio < one /\ res > 0
           /\ stake * (one - ratio) <= res * one + (one - 1)
<1>1. one * (stake - paid) <= one * res
  BY TimesMonotone
<1>2. /\ one * (stake - paid) = stake * one - paid * one /\ one * res = res * one
      /\ stake * (one - ratio) = stake * one - stake * ratio
      /\ (paid - 1) * one = paid * one - one
      /\ stake * one \in Int /\ paid * one \in Int /\ stake * ratio \in Int /\ res * one \in Int
  OBVIOUS
<1>3. stake * (one - ratio) <= res * one + (one - 1)
  BY <1>1, <1>2
<1>4. ratio < one
  <2> SUFFICES ASSUME one <= ratio PROVE FALSE
    OBVIOUS
  <2>1. stake * one <= stake * ratio /\ one * (paid + 1) <= one * stake
    BY TimesMonotone
  <2>2. one * (paid + 1) = paid * one + one /\ one * stake = stake * one
    OBVIOUS
  <2> QED BY <1>2, <2>1, <2>2
<1> QED BY <1>3, <1>4

(* The ratio of a linear schedule at which a swap is charged, against the  *)
(* exact one and against the schedule's two ends.                          *)
LEMMA LinearRatioCharged ==
    ASSUME fee \in FeeEnum, ValidFee(fee), fee.kind = "LiquidityLinear",
           incoming \in Nat, NEW res \in Nat \ {0}, NEW stake \in Nat \ {0},
           NEW ratio, ratio = FeeRatio(fee, incoming, res, stake), ratio # None,
           ratio < ONE, stake * (ONE - ratio) <= res * ONE + (ONE - 1),
           NEW owned, owned = incoming + res
    PROVE  /\ SlopeDenom \in Nat \ {0} /\ MaxNum \in Nat /\ ZeroNum \in Nat
           /\ MaxNum < ZeroNum /\ ratio \in Nat
           /\ ONE * ((ZeroNum - MaxNum) * (incoming + stake) + MaxNum * owned)
                <= (ratio + 3) * (SlopeDenom * owned + (ZeroNum - MaxNum) * stake)
           /\ (ratio - 2) * (SlopeDenom * owned + (ZeroNum - MaxNum) * stake)
                <= ONE * ((ZeroNum - MaxNum) * (incoming + stake) + MaxNum * owned)
           /\ ONE * MaxNum <= (ratio + 1) * SlopeDenom
           /\ (ratio - 1) * (SlopeDenom * owned)
                <= ONE * (ZeroNum * owned + (ZeroNum - MaxNum))
<1> DEFINE max   == IntoPrecise(fee.max_liq_remaining)
           slope == IntoPrecise(fee.zero_liq_remaining) - max
           lower == MaxNum * ONE
           upper == ZeroNum * ONE
           P == slope * (incoming + stake) + max * owned
           Q == ONE * owned + slope * stake
           beta  == lower - SlopeDenom * max
           alpha == upper - SlopeDenom * (max + slope)
<1>1. /\ max \in Nat /\ slope \in Nat \ {0} /\ max + slope <= ONE
      /\ max + slope = IntoPrecise(fee.zero_liq_remaining)
      /\ ratio = Line(max, slope, incoming, owned, stake)
  <2> DEFINE zero == IntoPrecise(fee.zero_liq_remaining)
  <2> HIDE DEF max, zero
  <2>1. /\ max \in Nat /\ zero - max \in Nat /\ max + (zero - max) <= ONE
        /\ max + (zero - max) = zero
        /\ zero - max = 0 => FeeRatio(fee, incoming, res, stake) = None
        /\ zero - max > 0 => FeeRatio(fee, incoming, res, stake)
                             = Line(max, zero - max, incoming, incoming + res, stake)
    BY RatioIsLine DEF max, zero
  <2> QED BY <2>1 DEF zero
<1>2. ONE \in Nat \ {0} /\ owned \in Nat \ {0}
  BY ONEAssumption
<1>3. /\ SlopeDenom \in Nat \ {0} /\ lower \in Nat /\ upper \in Nat
      /\ beta \in 0 .. SlopeDenom - 1 /\ alpha \in 0 .. SlopeDenom - 1
  <2>1. /\ fee.max_liq_remaining \in Rational /\ ValidRatio(fee.max_liq_remaining)
        /\ fee.zero_liq_remaining \in Rational /\ ValidRatio(fee.zero_liq_remaining)
    BY DEF FeeEnum, ValidFee
  <2> QED BY <1>1, <2>1, EndsRound DEF SlopeDenom, MaxNum, ZeroNum
<1>4. MaxNum \in Nat /\ ZeroNum \in Nat
  BY U64MaxAssumption DEF FeeEnum, Rational, U64, MaxNum, ZeroNum
<1>5. max <= ratio /\ ratio \in Nat
  <2> HIDE DEF max, slope
  <2> QED BY <1>1, <1>2, LineAboveStart, LineType
<1>6. (ratio + 1) * Q >= ONE * P - (slope - 1) /\ ratio * Q <= ONE * P + ONE + (slope - 1)
  <2> HIDE DEF max, slope
  <2> QED BY <1>1, <1>2, LineRounds
<1> HIDE DEF max, slope
<1>7. P = slope * (incoming + stake) + max * owned /\ Q = ONE * owned + slope * stake
  OBVIOUS
<1>8. lower = SlopeDenom * max + beta /\ upper = SlopeDenom * (max + slope) + alpha
  <2>1. SlopeDenom * max \in Int /\ SlopeDenom * (max + slope) \in Int
    BY <1>1, <1>3
  <2> HIDE DEF lower, upper
  <2> QED BY <1>3, <2>1
<1>9. lower = MaxNum * ONE /\ upper = ZeroNum * ONE
  OBVIOUS
<1> HIDE DEF lower, upper, P, Q, alpha, beta
<1>10. /\ SlopeDenom * slope <= upper - lower + SlopeDenom
       /\ SlopeDenom * (max + slope) <= upper /\ lower < upper
  <2>1. SlopeDenom * 1 <= SlopeDenom * slope
    <3>1. 1 <= slope /\ slope \in Int
      BY <1>1
    <3> QED BY <1>3, <3>1, TimesMonotone
  <2>2. /\ SlopeDenom * (max + slope) = SlopeDenom * max + SlopeDenom * slope
        /\ SlopeDenom * 1 = SlopeDenom
        /\ SlopeDenom * max \in Int /\ SlopeDenom * slope \in Int
    BY <1>1, <1>3
  <2> QED BY <1>3, <1>8, <2>1, <2>2
<1>11. MaxNum < ZeroNum
  <2> SUFFICES ASSUME ZeroNum <= MaxNum PROVE FALSE
    BY <1>4
  <2>1. ONE * ZeroNum <= ONE * MaxNum
    BY <1>2, <1>4, TimesMonotone
  <2>2. ONE * ZeroNum = upper /\ ONE * MaxNum = lower
    BY <1>2, <1>4, <1>9
  <2> QED BY <1>3, <1>10, <2>1, <2>2
(* The exact ratio. *)
<1> DEFINE num == (ZeroNum - MaxNum) * (incoming + stake) + MaxNum * owned
           den == SlopeDenom * owned + (ZeroNum - MaxNum) * stake
<1>12. /\ (ratio + 3) * (ONE * den) >= ONE * (ONE * num)
       /\ (ratio - 2) * (ONE * den) <= ONE * (ONE * num)
  <2> DEFINE bigNum == (upper - lower) * (incoming + stake) + lower * owned
             bigDen == ONE * SlopeDenom * owned + (upper - lower) * stake
  <2>1. (ratio + 3) * bigDen >= ONE * bigNum /\ (ratio - 2) * bigDen <= ONE * bigNum
    BY <1>1, <1>2, <1>3, <1>5, <1>6, <1>7, <1>8, ExactArithmetic, ZenonT(60)
  <2>2. bigNum = ONE * num /\ bigDen = ONE * den
    BY <1>2, <1>3, <1>4, <1>9
  <2> QED BY <2>1, <2>2
<1>13. num \in Int /\ den \in Int
  BY <1>2, <1>3, <1>4
<1>14. ONE * num <= (ratio + 3) * den /\ (ratio - 2) * den <= ONE * num
  <2> HIDE DEF num, den
  <2>1. \A a \in Int : a * (ONE * den) = ONE * (a * den) /\ a * den \in Int
    BY <1>2, <1>13
  <2>2. ratio + 3 \in Int /\ ratio - 2 \in Int
    BY <1>5
  <2>3. ONE * num \in Int /\ ONE * (ONE * num) \in Int
    BY <1>2, <1>13
  <2>4. /\ ONE * (ONE * num) <= ONE * ((ratio + 3) * den)
        /\ ONE * ((ratio - 2) * den) <= ONE * (ONE * num)
    BY <1>12, <2>1, <2>2
  <2> QED BY <1>2, <2>1, <2>2, <2>3, <2>4, CancelFactor
(* The ends. *)
<1>15. ONE * MaxNum <= (ratio + 1) * SlopeDenom
  <2>1. SlopeDenom * (max + 1) <= SlopeDenom * (ratio + 1)
    BY <1>1, <1>3, <1>5, TimesMonotone
  <2>2. /\ SlopeDenom * (max + 1) = SlopeDenom * max + SlopeDenom
        /\ SlopeDenom * (ratio + 1) = (ratio + 1) * SlopeDenom
        /\ SlopeDenom * max \in Int /\ (ratio + 1) * SlopeDenom \in Int
    BY <1>1, <1>3, <1>5
  <2>3. ONE * MaxNum = lower
    BY <1>2, <1>4, <1>9
  <2> QED BY <1>3, <1>8, <2>1, <2>2, <2>3
<1>16. SlopeDenom * ((ratio - 1) * owned) <= upper * owned + (upper - lower)
  <2>1. lower \in Int /\ upper \in Int
    BY <1>3
  <2> QED BY <1>1, <1>2, <1>3, <1>5, <1>6, <1>7, <1>10, <2>1, RangeArithmetic, ZenonT(60)
<1>17. (ratio - 1) * (SlopeDenom * owned) <= ONE * (ZeroNum * owned + (ZeroNum - MaxNum))
  BY <1>2, <1>3, <1>4, <1>5, <1>9, <1>16
<1> QED BY <1>3, <1>4, <1>5, <1>11, <1>14, <1>15, <1>17

LEMMA FlatRatioCharged ==
    ASSUME NEW r \in Rational, ValidRatio(r), NEW ratio, ratio = IntoPrecise(r)
    PROVE  /\ r.denom \in Nat \ {0} /\ r.num \in Nat /\ ratio \in Nat
           /\ ONE * r.num <= (ratio + 3) * r.denom
           /\ (ratio - 2) * r.denom <= ONE * r.num
<1>1. r.denom \in Nat \ {0} /\ r.num \in Nat /\ ONE \in Nat \ {0}
  BY U64MaxAssumption, ONEAssumption DEF Rational, U64, ValidRatio, Validate
<1>2. ratio \in Nat
  BY <1>1, IntoPreciseBounds
<1>3. r.denom * ratio <= r.num * ONE /\ r.num * ONE < r.denom * ratio + r.denom
  BY IntoPreciseRounds
<1>4. /\ (ratio + 3) * r.denom = r.denom * ratio + 3 * r.denom
      /\ (ratio - 2) * r.denom = r.denom * ratio - 2 * r.denom
      /\ ONE * r.num = r.num * ONE /\ r.denom * ratio \in Int /\ r.num * ONE \in Int
  BY <1>1, <1>2
<1> QED BY <1>1, <1>2, <1>3, <1>4

LEMMA ChargedStep ==
    ASSUME AccountsInv, AnyStep, NEW s \in Stakes, PaidFor(s), NoProtocolFee,
           NEW stake, stake = lamports[s],
           NEW liquidity, liquidity = Liquidity - RecordTopUp(s),
           NEW exact, exact = ExactRatio(liquidity, stake)
    PROVE  /\ (Kept(s) * ONE + 3 * stake) * exact.denom >= stake * ONE * exact.num
           /\ ((Kept(s) - 1) * ONE - 2 * stake) * exact.denom < stake * ONE * exact.num
           /\ fee.kind = "LiquidityLinear" =>
                /\ (Kept(s) * ONE + stake) * SlopeDenom >= stake * ONE * MaxNum
                /\ ((Kept(s) - 1) * ONE - stake) * SlopeDenom * liquidity
                       < stake * ONE * (ZeroNum * liquidity + (ZeroNum - MaxNum))
<1> DEFINE res == reserves - RecordTopUp(s)
           ratio == FeeRatio(fee, incoming, res, stake)
           paid == Kept(s)
<1>1. /\ s \in OnSale /\ ratio # None
      /\ paid = PreciseCeiling(PreciseMul(PreciseNew(stake), ratio))
      /\ paid \in Nat /\ paid < stake /\ stake - paid <= res
  BY SwapTerms
<1>2. /\ fee \in FeeEnum /\ ValidFee(fee) /\ stake \in Nat \ {0} /\ incoming \in Nat
      /\ res \in Nat /\ ONE \in Nat \ {0} /\ liquidity = incoming + res
  <2>1. /\ fee \in FeeEnum /\ ValidFee(fee) /\ stake \in Nat \ {0} /\ incoming \in Nat
        /\ res \in Nat /\ RecordTopUp(s) \in Nat
    BY <1>1, QuoteTerms
  <2>2. reserves \in Nat
    BY DEF AccountsInv, AccountsTypeOK
  <2> QED BY <2>1, <2>2, ONEAssumption DEF Liquidity
<1> HIDE DEF res, ratio, paid
<1>3. /\ exact.denom \in Nat \ {0} /\ exact.num \in Int /\ ratio \in Nat
      /\ ONE * exact.num <= (ratio + 3) * exact.denom
      /\ (ratio - 2) * exact.denom <= ONE * exact.num
      /\ fee.kind = "LiquidityLinear" =>
           /\ SlopeDenom \in Nat \ {0} /\ MaxNum \in Nat /\ ZeroNum \in Nat
           /\ liquidity \in Nat \ {0}
           /\ ONE * MaxNum <= (ratio + 1) * SlopeDenom
           /\ (ratio - 1) * (SlopeDenom * liquidity)
                <= ONE * (ZeroNum * liquidity + (ZeroNum - MaxNum))
  <2>1. CASE fee.kind = "Flat"
    <3>1. exact = fee.ratio /\ ratio = IntoPrecise(fee.ratio)
      BY <2>1 DEF ExactRatio, FeeRatio, ratio
    <3>2. fee.ratio \in Rational /\ ValidRatio(fee.ratio)
      BY <1>2, <2>1 DEF FeeEnum, ValidFee
    <3> QED BY <2>1, <3>1, <3>2, FlatRatioCharged
  <2>2. CASE fee.kind = "LiquidityLinear"
    <3>1. ratio = FeeRatio(fee, incoming, res, stake)
      BY DEF ratio
    <3>2. ratio \in Nat
      <4> DEFINE max == IntoPrecise(fee.max_liq_remaining)
                 slope == IntoPrecise(fee.zero_liq_remaining) - max
      <4>1. /\ max \in Nat /\ slope \in Nat
            /\ slope = 0 => FeeRatio(fee, incoming, res, stake) = None
            /\ slope > 0 => FeeRatio(fee, incoming, res, stake)
                             = Line(max, slope, incoming, incoming + res, stake)
        BY <1>2, <2>2, RatioIsLine
      <4> HIDE DEF max, slope
      <4>2. /\ slope \in Nat \ {0} /\ incoming + res \in Nat
            /\ ratio = Line(max, slope, incoming, incoming + res, stake)
        BY <1>1, <1>2, <3>1, <4>1
      <4> QED BY <1>2, <4>1, <4>2, LineType
    <3>3. /\ ratio < ONE /\ res \in Nat \ {0}
          /\ stake * (ONE - ratio) <= res * ONE + (ONE - 1)
      <4>1. stake * ratio <= paid * ONE /\ (paid - 1) * ONE < stake * ratio
        BY <1>1, <1>2, <3>2, FeeRounds
      <4>2. /\ ratio < ONE /\ res > 0
            /\ stake * (ONE - ratio) <= res * ONE + (ONE - 1)
        BY <1>1, <1>2, <3>2, <4>1, PayableRatio, ZenonT(60)
      <4> QED BY <1>2, <4>2
    <3>4. /\ SlopeDenom \in Nat \ {0} /\ MaxNum \in Nat /\ ZeroNum \in Nat
          /\ MaxNum < ZeroNum /\ ratio \in Nat
          /\ ONE * ((ZeroNum - MaxNum) * (incoming + stake) + MaxNum * liquidity)
               <= (ratio + 3) * (SlopeDenom * liquidity + (ZeroNum - MaxNum) * stake)
          /\ (ratio - 2) * (SlopeDenom * liquidity + (ZeroNum - MaxNum) * stake)
               <= ONE * ((ZeroNum - MaxNum) * (incoming + stake) + MaxNum * liquidity)
          /\ ONE * MaxNum <= (ratio + 1) * SlopeDenom
          /\ (ratio - 1) * (SlopeDenom * liquidity)
               <= ONE * (ZeroNum * liquidity + (ZeroNum - MaxNum))
      <4>1. /\ fee \in FeeEnum /\ ValidFee(fee) /\ fee.kind = "LiquidityLinear"
            /\ incoming \in Nat /\ stake \in Nat \ {0} /\ ratio # None
            /\ liquidity = incoming + res
        BY <1>1, <1>2, <2>2
      <4> QED BY <3>1, <3>3, <4>1, LinearRatioCharged
    <3>5. /\ exact.num = (ZeroNum - MaxNum) * (incoming + stake) + MaxNum * liquidity
          /\ exact.denom = SlopeDenom * liquidity + (ZeroNum - MaxNum) * stake
      BY <2>2 DEF ExactRatio, ExactLinear
    <3>6. liquidity \in Nat \ {0} /\ exact.num \in Int /\ exact.denom \in Nat \ {0}
      <4>1. liquidity \in Nat \ {0}
        BY <1>2, <3>3
      <4>2. SlopeDenom \in Nat \ {0} /\ MaxNum \in Nat /\ ZeroNum - MaxNum \in Nat
        BY <3>4
      <4>3. /\ SlopeDenom * liquidity \in Nat \ {0} /\ (ZeroNum - MaxNum) * stake \in Nat
            /\ (ZeroNum - MaxNum) * (incoming + stake) \in Nat /\ MaxNum * liquidity \in Nat
        BY <1>2, <4>1, <4>2
      <4> QED BY <3>5, <4>1, <4>3
    <3> QED BY <3>2, <3>4, <3>5, <3>6
  <2> QED BY <1>2, <2>1, <2>2 DEF ValidFee
<1>4. stake * ratio <= paid * ONE /\ (paid - 1) * ONE < stake * ratio
  BY <1>1, <1>2, <1>3, FeeRounds
<1>5. /\ (paid * ONE + 3 * stake) * exact.denom >= stake * (ONE * exact.num)
      /\ ((paid - 1) * ONE - 2 * stake) * exact.denom < stake * (ONE * exact.num)
  <2>1. ONE * exact.num \in Int
    BY <1>2, <1>3
  <2> QED BY <1>1, <1>2, <1>3, <1>4, <2>1, PaidAtLeast, PaidBelow
<1>6. ASSUME fee.kind = "LiquidityLinear"
      PROVE  /\ (paid * ONE + stake) * SlopeDenom >= stake * ONE * MaxNum
             /\ ((paid - 1) * ONE - stake) * SlopeDenom * liquidity
                    < stake * ONE * (ZeroNum * liquidity + (ZeroNum - MaxNum))
  <2> DEFINE below == ZeroNum * liquidity + (ZeroNum - MaxNum)
             den == SlopeDenom * liquidity
  <2>1. /\ SlopeDenom \in Nat \ {0} /\ MaxNum \in Nat /\ ZeroNum \in Nat
        /\ liquidity \in Nat \ {0}
        /\ ONE * MaxNum <= (ratio + 1) * SlopeDenom
        /\ (ratio - 1) * den <= ONE * below
    BY <1>3, <1>6
  <2>2. below \in Int /\ den \in Nat \ {0}
    BY <2>1
  <2> HIDE DEF below, den
  <2>3. ONE * MaxNum \in Int /\ ONE * below \in Int
    BY <1>2, <2>1, <2>2
  <2>4. /\ (paid * ONE + 1 * stake) * SlopeDenom >= stake * (ONE * MaxNum)
        /\ ((paid - 1) * ONE - 1 * stake) * den < stake * (ONE * below)
    BY <1>1, <1>2, <1>3, <1>4, <2>1, <2>2, <2>3, PaidAtLeast, PaidBelow
  <2>5. /\ 1 * stake = stake /\ stake * (ONE * MaxNum) = stake * ONE * MaxNum
        /\ stake * (ONE * below) = stake * ONE * below
    BY <1>2, <2>1, <2>2
  <2>6. ((paid - 1) * ONE - stake) * den = ((paid - 1) * ONE - stake) * SlopeDenom * liquidity
    BY <1>1, <1>2, <2>1 DEF den
  <2> QED BY <2>4, <2>5, <2>6 DEF below
<1>7. stake * (ONE * exact.num) = stake * ONE * exact.num
  BY <1>2, <1>3
<1> QED BY <1>5, <1>6, <1>7 DEF paid

(* A swap charges the exact fee of the schedule, to within three units of  *)
(* the fixed-point scale, for every schedule and every pool.               *)
THEOREM ChargedCorrect == Spec => ChargedBySchedule
<1> DEFINE Charged ==
      \A s \in Stakes : PaidFor(s) /\ NoProtocolFee =>
           LET stake == lamports[s]
               exact == ExactRatio(Liquidity - RecordTopUp(s), stake)
           IN  /\ (Kept(s) * ONE + 3 * stake) * exact.denom >= stake * ONE * exact.num
               /\ ((Kept(s) - 1) * ONE - 2 * stake) * exact.denom
                      < stake * ONE * exact.num
<1>1. IInv /\ [Next]_vars => [Charged]_vars
  <2> SUFFICES ASSUME IInv, Next PROVE Charged
    BY Zenon
  <2>1. AccountsInv /\ AnyStep
    BY DEF IInv, Next, AnyStep
  <2> QED BY <2>1, ChargedStep, Zenon
<1>2. ChargedBySchedule <=> [][Charged]_vars
  BY DEF ChargedBySchedule
<1> HIDE DEF Charged
<1> QED BY <1>1, <1>2, InductiveInvariant, PTL DEF Spec

(* And never a ratio outside the schedule's two ends, but for a lamport.   *)
THEOREM RangeCorrect == Spec => ChargedInRange
<1> DEFINE Within ==
      \A s \in Stakes : PaidFor(s) /\ NoProtocolFee /\ fee.kind = "LiquidityLinear" =>
           LET stake     == lamports[s]
               liquidity == Liquidity - RecordTopUp(s)
           IN  /\ (Kept(s) * ONE + stake) * SlopeDenom >= stake * ONE * MaxNum
               /\ ((Kept(s) - 1) * ONE - stake) * SlopeDenom * liquidity
                      < stake * ONE * (ZeroNum * liquidity + (ZeroNum - MaxNum))
<1>1. IInv /\ [Next]_vars => [Within]_vars
  <2> SUFFICES ASSUME IInv, Next PROVE Within
    BY Zenon
  <2>1. AccountsInv /\ AnyStep
    BY DEF IInv, Next, AnyStep
  <2> QED BY <2>1, ChargedStep, Zenon
<1>2. ChargedInRange <=> [][Within]_vars
  BY DEF ChargedInRange
<1> HIDE DEF Within
<1> QED BY <1>1, <1>2, InductiveInvariant, PTL DEF Spec

=============================================================================
