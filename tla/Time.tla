-------------------------------- MODULE Time --------------------------------
(* Rational media time: stills_Time.h.  A Time is value / scale seconds, or *)
(* one of three states that are no number.  Values are words of 64 bits and *)
(* scales words of 32; both widths are parameters.  Intermediate products   *)
(* are formed in 128 bits by the code and are unbounded here.               *)
EXTENDS Integers

CONSTANTS
  MaxValue,   \* INT64_MAX
  MaxScale,   \* INT32_MAX
  None        \* std::nullopt

ASSUME TimeAssumption ==
  MaxValue \in Nat \ {0} /\ MaxScale \in Nat \ {0} /\ MaxScale <= MaxValue /\ None \notin Int

MinValue == -MaxValue - 1
Fits(n) == MinValue <= n /\ n <= MaxValue

Of(kind) == [kind |-> kind, value |-> 0, scale |-> 1]
Invalid == Of("invalid")
PositiveInfinity == Of("positiveInfinity")
NegativeInfinity == Of("negativeInfinity")
Zero == Of("finite")

Finite(value, scale) ==
  IF scale > 0 THEN [kind |-> "finite", value |-> value, scale |-> scale] ELSE Invalid

IsFinite(t) == t.kind = "finite"

\* A Time is constructed with a positive scale, whatever its kind.
IsTime(t) ==
  /\ t.kind \in {"invalid", "negativeInfinity", "finite", "positiveInfinity"}
  /\ t.value \in Int /\ t.scale \in Nat \ {0}

IsTimeBase(base) == base.num \in Nat \ {0} /\ base.den \in Nat \ {0}

-----------------------------------------------------------------------------
(* Scaling.                                                                *)

\* p / d as a whole number; halves go away from zero.
Rounded(p, d, rounding) ==
  LET down == p \div d
      up == -((-p) \div d)
  IN CASE rounding = "down" -> down
       [] rounding = "up" -> up
       [] rounding = "zero" -> IF p < 0 THEN up ELSE down
       [] rounding = "nearest" -> IF p < 0 THEN -((d - 2 * p) \div (2 * d)) ELSE (2 * p + d) \div (2 * d)

Rescale(a, num, den, rounding) ==
  IF den > 0 /\ Fits(Rounded(a * num, den, rounding)) THEN Rounded(a * num, den, rounding) ELSE None

\* Scaled when it fits, invalid when it does not.
FiniteOrInvalid(value, scale) == IF value = None THEN Invalid ELSE Finite(value, scale)

\* A time base is a rational [num, den].
FromTimestamp(ts, base) ==
  IF ts = MinValue \/ base.den <= 0 \/ base.num <= 0 THEN Invalid
  ELSE FiniteOrInvalid(Rescale(ts, base.num, 1, "nearest"), base.den)

\* The presentation time of frame n at a constant rate.
Frames(n, fps) ==
  IF fps.num <= 0 \/ fps.den <= 0 THEN Invalid
  ELSE FiniteOrInvalid(Rescale(n, fps.den, 1, "zero"), fps.num)

\* mutant: the scale of the time is left out of the product
ToTimestampOfSeconds(t, base, rounding) ==
  LET v == Rescale(t.value, base.den, base.num, rounding)
  IN IF v # None THEN v ELSE IF t.value < 0 THEN MinValue + 1 ELSE MaxValue

ToTimestamp(t, base, rounding) ==
  LET v == Rescale(t.value, base.den, t.scale * base.num, rounding)
  IN CASE t.kind = "invalid" -> MinValue
       [] t.kind = "positiveInfinity" -> MaxValue
       [] t.kind = "negativeInfinity" -> MinValue + 1
       [] OTHER -> IF base.num <= 0 \/ base.den <= 0 THEN MinValue
                   ELSE IF v # None THEN v
                   ELSE IF t.value < 0 THEN MinValue + 1 ELSE MaxValue

Converted(t, scale) ==
  CASE ~IsFinite(t) -> t
    [] IsFinite(t) /\ scale <= 0 -> Invalid
    [] OTHER -> FiniteOrInvalid(Rescale(t.value, scale, t.scale, "nearest"), scale)

-----------------------------------------------------------------------------
(* Arithmetic and order.                                                   *)

\* gcd64(), by what it computes; b > 0.
Gcd(a, b) == CHOOSE d \in 1..b : /\ a % d = 0 /\ b % d = 0
                                 /\ \A e \in 1..b : a % e = 0 /\ b % e = 0 => e <= d

\* The least common multiple when it fits, otherwise the larger of the two.
CommonScale(a, b) ==
  LET lcm == (a \div Gcd(a, b)) * b
  IN IF lcm <= MaxScale THEN lcm ELSE IF a > b THEN a ELSE b

Plus(a, b) ==
  LET scale == CommonScale(a.scale, b.scale)
      x == Converted(a, scale)
      y == Converted(b, scale)
  IN CASE a.kind = "invalid" \/ b.kind = "invalid" -> Invalid
       [] IsFinite(a) /\ IsFinite(b) ->
            IF IsFinite(x) /\ IsFinite(y) /\ Fits(x.value + y.value)
            THEN Finite(x.value + y.value, scale) ELSE Invalid
       [] OTHER -> CASE IsFinite(a) -> b
                     [] IsFinite(b) -> a
                     [] OTHER -> IF a.kind = b.kind THEN a ELSE Invalid

Negated(t) ==
  CASE t.kind = "finite" /\ t.value # MinValue -> Finite(-t.value, t.scale)
    [] t.kind = "positiveInfinity" -> NegativeInfinity
    [] t.kind = "negativeInfinity" -> PositiveInfinity
    [] OTHER -> Invalid

\* Scaling by a whole number.
Times(t, k) ==
  CASE IsFinite(t) /\ k <= MaxValue -> FiniteOrInvalid(Rescale(t.value, k, 1, "zero"), t.scale)
    [] t.kind \in {"positiveInfinity", "negativeInfinity"} /\ k # 0 /\ k <= MaxValue ->
         IF k < 0 THEN Negated(t) ELSE t
    [] OTHER -> Invalid

Rank(kind) == CASE kind = "invalid" -> 0 [] kind = "negativeInfinity" -> 1
                [] kind = "finite" -> 2 [] kind = "positiveInfinity" -> 3

\* The total order: invalid < -inf < finite < +inf, and 1/2 == 2/4.
Less(a, b) ==
  \/ Rank(a.kind) < Rank(b.kind)
  \/ IsFinite(a) /\ IsFinite(b) /\ a.value * b.scale < b.value * a.scale

Equal(a, b) == ~Less(a, b) /\ ~Less(b, a)

\* What hash() mixes: the fraction in lowest terms, except of the least value,
\* whose magnitude has no representation.
Hashed(t) ==
  IF ~IsFinite(t) \/ t.value = MinValue THEN t
  ELSE LET g == Gcd(IF t.value < 0 THEN -t.value ELSE t.value, t.scale)
       IN Finite(IF t.value < 0 THEN -((-t.value) \div g) ELSE t.value \div g, t.scale \div g)

=============================================================================
