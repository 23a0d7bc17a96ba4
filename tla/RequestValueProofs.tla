------------------------- MODULE RequestValueProofs -------------------------
(* Proofs about the values of a request, for every value of them: times and   *)
(* windows for words of any width and every time base, pictures of any size,  *)
(* streams of any number, and the converter's caches.                         *)
EXTENDS RequestWindow, Geometry, SourceOpening, Converter, FiniteSetTheorems, SequenceTheorems, TLAPS

-----------------------------------------------------------------------------
(* Sets of numbers.  A least element takes the place of an induction.      *)

\* Every set of natural numbers that has an element has a least one.
LEMMA LeastOf ==
  ASSUME NEW S, S \subseteq Nat, S # {}
  PROVE  \E x \in S : \A y \in S : x <= y
<1> DEFINE Heap(n) == 1..n
           heaps == {Heap(n) : n \in S}
<1>1. heaps \subseteq FiniteSubsetsOf(Nat)
  <2>1. ASSUME NEW n \in S PROVE Heap(n) \in SUBSET Nat /\ IsFiniteSet(Heap(n))
    BY FS_Interval
  <2> QED
    BY <2>1 DEF FiniteSubsetsOf
<1>2. PICK h \in heaps : \A g \in heaps : ~(<<g, h>> \in StrictSubsetOrdering(Nat))
  <2>1. heaps # {}
    OBVIOUS
  <2> HIDE DEF heaps
  <2> QED
    BY <1>1, <2>1, FS_StrictSubsetOrderingWellFounded, WFMin
<1>3. PICK x \in S : h = Heap(x)
  OBVIOUS
<1>4. ASSUME NEW y \in S, y < x PROVE FALSE
  <2>1. Heap(y) \subseteq Heap(x) /\ x \in Heap(x) /\ x \notin Heap(y) /\ Heap(x) \subseteq Nat
    BY <1>4
  <2>2. Heap(y) # Heap(x)
    BY <2>1
  <2> HIDE DEF Heap
  <2>3. <<Heap(y), Heap(x)>> \in StrictSubsetOrdering(Nat)
    BY <2>1, <2>2 DEF StrictSubsetOrdering
  <2>4. Heap(y) \in heaps
    OBVIOUS
  <2> QED
    BY <1>2, <1>3, <2>3, <2>4
<1> QED
  BY <1>4

\* Min() of a set of natural numbers is its least element.
LEMMA MinIsLeast ==
  ASSUME NEW S, S \subseteq Nat, S # {}
  PROVE  Min(S) \in S /\ \A y \in S : Min(S) <= y
BY LeastOf DEF Min

\* A set of natural numbers that is bounded has a greatest element.
LEMMA GreatestOf ==
  ASSUME NEW S, NEW n \in Nat, S \subseteq 0..n, S # {}
  PROVE  \E x \in S : \A y \in S : y <= x
<1> DEFINE below == {n - x : x \in S}
<1>1. PICK b \in below : \A c \in below : b <= c
  <2>1. \A x \in S : x \in Nat /\ n - x \in Nat
    OBVIOUS
  <2>2. below \subseteq Nat /\ below # {}
    BY <2>1
  <2> HIDE DEF below
  <2> QED
    BY <2>2, LeastOf
<1>2. PICK x \in S : b = n - x
  BY <1>1
<1>3. ASSUME NEW y \in S PROVE y <= x
  BY <1>1, <1>2
<1> QED
  BY <1>3

LEMMA MaxIsGreatest ==
  ASSUME NEW S, NEW n \in Nat, S \subseteq 0..n, S # {}
  PROVE  Max(S) \in S /\ \A y \in S : y <= Max(S)
BY GreatestOf DEF Max

-----------------------------------------------------------------------------
(* Division.                                                               *)

\* A quotient is known by what it leaves.
LEMMA Quotient ==
  ASSUME NEW p \in Int, NEW q \in Int, NEW d \in Nat \ {0}, d * q <= p, p < d * q + d
  PROVE  p \div d = q
<1> DEFINE r == p \div d
<1>1. r \in Int /\ d * r <= p /\ p < d * r + d
  OBVIOUS
<1>2. CASE r >= q + 1
  <2>1. d * r >= d * (q + 1)
    BY <1>1, <1>2
  <2> QED
    BY <1>1, <2>1
<1>3. CASE q >= r + 1
  <2>1. d * q >= d * (r + 1)
    BY <1>1, <1>3
  <2> QED
    BY <1>1, <2>1
<1> QED
  BY <1>1, <1>2, <1>3

\* What divides exactly is not rounded.
LEMMA ExactIsNotRounded ==
  ASSUME NEW n \in Int, NEW d \in Nat \ {0}
  PROVE  Rounded(n * d, d, "nearest") = n
<1>1. CASE n * d >= 0
  <2>1. (2 * (n * d) + d) \div (2 * d) = n
    <3>1. (2 * d) * n = 2 * (n * d)
      OBVIOUS
    <3> QED
      BY <3>1, Quotient
  <2> QED
    BY <1>1, <2>1 DEF Rounded
<1>2. CASE n * d < 0
  <2>1. (d - 2 * (n * d)) \div (2 * d) = -n
    <3>1. (2 * d) * (-n) = -2 * (n * d)
      OBVIOUS
    <3> QED
      BY <3>1, Quotient
  <2> QED
    BY <1>2, <2>1 DEF Rounded
<1> QED
  BY <1>1, <1>2

\* And what it leaves is less than what it was divided by.
LEMMA Remainder ==
  ASSUME NEW p \in Int, NEW d \in Nat \ {0}
  PROVE  /\ p \div d \in Int /\ p % d \in 0..(d - 1)
         /\ p = d * (p \div d) + (p % d)
OBVIOUS

\* A count that is not negative stays so.
LEMMA QuotientOfNaturals ==
  ASSUME NEW p \in Nat, NEW d \in Nat \ {0}
  PROVE  p \div d \in Nat
OBVIOUS

-----------------------------------------------------------------------------
(* Sums.                                                                   *)

IsNumber(t) == IsFinite(t) /\ t.value \in Int /\ t.scale \in Nat \ {0}

\* gcd64() divides both of its arguments, and no greater number does.
LEMMA GcdIsGreatest ==
  ASSUME NEW a \in Nat, NEW b \in Nat \ {0}
  PROVE  /\ Gcd(a, b) \in 1..b /\ a % Gcd(a, b) = 0 /\ b % Gcd(a, b) = 0
         /\ \A e \in 1..b : a % e = 0 /\ b % e = 0 => e <= Gcd(a, b)
<1> DEFINE common == {d \in 1..b : a % d = 0 /\ b % d = 0}
<1>1. common \subseteq 0..b /\ common # {}
  <2>1. 1 \in 1..b /\ a % 1 = 0 /\ b % 1 = 0
    OBVIOUS
  <2> QED
    BY <2>1
<1>2. PICK d \in common : \A e \in common : e <= d
  <2> HIDE DEF common
  <2> QED
    BY <1>1, GreatestOf
<1>3. \E g \in 1..b : a % g = 0 /\ b % g = 0 /\ \A e \in 1..b : a % e = 0 /\ b % e = 0 => e <= g
  BY <1>2
<1> QED
  BY <1>3 DEF Gcd

\* A common scale is a scale.
LEMMA CommonScaleIsScale ==
  ASSUME NEW a \in Nat \ {0}, NEW b \in Nat \ {0}
  PROVE  CommonScale(a, b) \in Nat \ {0}
<1> DEFINE g == Gcd(a, b)
<1>1. g \in 1..b /\ a % g = 0
  BY GcdIsGreatest
<1> HIDE DEF g
<1>2. a \div g \in Nat \ {0}
  <2>1. a = g * (a \div g) + (a % g) /\ a \div g \in Int
    BY <1>1, Remainder
  <2>2. a \div g \in Nat
    BY <1>1, QuotientOfNaturals
  <2>3. a \div g # 0
    BY <1>1, <2>1
  <2> QED
    BY <2>2, <2>3
<1>3. \A q \in Nat \ {0} : q * b \in Nat \ {0}
  OBVIOUS
<1> QED
  BY <1>2, <1>3 DEF CommonScale, g

LEMMA RoundedIsWhole ==
  ASSUME NEW p \in Int, NEW d \in Nat \ {0}, NEW rounding \in {"down", "up", "zero", "nearest"}
  PROVE  Rounded(p, d, rounding) \in Int
<1>1. 2 * d \in Nat \ {0} /\ 2 * p + d \in Int /\ d - 2 * p \in Int /\ -p \in Int
  OBVIOUS
<1>2. \A n \in Int, e \in Nat \ {0} : n \div e \in Int
  OBVIOUS
<1>3. /\ p \div d \in Int /\ (-p) \div d \in Int
      /\ (2 * p + d) \div (2 * d) \in Int /\ (d - 2 * p) \div (2 * d) \in Int
  BY <1>1, <1>2
<1> QED
  BY <1>3 DEF Rounded

LEMMA RescaledIsWhole ==
  ASSUME NEW a \in Int, NEW num \in Int, NEW den \in Nat \ {0}, NEW rounding \in {"down", "up", "zero", "nearest"}
  PROVE  Rescale(a, num, den, rounding) \in Int \cup {None}
<1>1. a * num \in Int
  OBVIOUS
<1> QED
  BY <1>1, RoundedIsWhole DEF Rescale

\* operator+: a sum of times is a time.
LEMMA PlusIsTime ==
  ASSUME NEW a, IsTime(a), NEW b, IsTime(b)
  PROVE  IsTime(Plus(a, b))
<1> DEFINE scale == CommonScale(a.scale, b.scale)
           x == Converted(a, scale)
           y == Converted(b, scale)
<1>1. scale \in Nat \ {0}
  BY CommonScaleIsScale DEF IsTime
<1>2. ASSUME NEW t, IsTime(t)
      PROVE  Converted(t, scale).value \in Int
  <2> DEFINE v == Rescale(t.value, scale, t.scale, "nearest")
  <2>1. v \in Int \cup {None}
    BY <1>1, <1>2, RescaledIsWhole DEF IsTime
  <2> HIDE DEF v, scale
  <2>2. CASE ~IsFinite(t)
    BY <1>2, <2>2 DEF Converted, IsTime
  <2>3. CASE IsFinite(t)
    <3>1. Converted(t, scale) = FiniteOrInvalid(v, scale)
      BY <1>1, <2>3 DEF Converted, v
    <3> QED
      BY <1>1, <2>1, <3>1, TimeAssumption DEF FiniteOrInvalid, Finite, Invalid, Of
  <2> QED
    BY <2>2, <2>3
<1>3. x.value \in Int /\ y.value \in Int
  BY <1>2
<1> HIDE DEF x, y, scale
<1>4. IsTime(Invalid)
  BY DEF IsTime, Invalid, Of
<1>5. Fits(x.value + y.value) => IsTime(Finite(x.value + y.value, scale))
  BY <1>1, <1>3 DEF IsTime, Finite
<1>6. CASE a.kind = "invalid" \/ b.kind = "invalid"
  BY <1>4, <1>6 DEF Plus, IsFinite
<1>7. CASE a.kind # "invalid" /\ b.kind # "invalid" /\ IsFinite(a) /\ IsFinite(b)
  BY <1>4, <1>5, <1>7 DEF Plus, x, y, scale
<1>8. CASE a.kind # "invalid" /\ b.kind # "invalid" /\ ~(IsFinite(a) /\ IsFinite(b))
  <2>1. Plus(a, b) = CASE IsFinite(a) -> b [] IsFinite(b) -> a
                       [] OTHER -> IF a.kind = b.kind THEN a ELSE Invalid
    BY <1>8 DEF Plus
  <2> QED
    BY <1>4, <1>8, <2>1
<1> QED
  BY <1>6, <1>7, <1>8

\* One of several numbers that a product is over.
LEMMA CancelFactor ==
  ASSUME NEW x \in Int, NEW y \in Int, NEW d \in Nat \ {0}, x * d = y * d
  PROVE  x = y
<1>1. CASE x >= y + 1
  <2>1. x * d >= (y + 1) * d
    BY <1>1
  <2>2. (y + 1) * d = y * d + d
    OBVIOUS
  <2> QED
    BY <2>1, <2>2
<1>2. CASE y >= x + 1
  <2>1. y * d >= (x + 1) * d
    BY <1>2
  <2>2. (x + 1) * d = x * d + d
    OBVIOUS
  <2> QED
    BY <2>1, <2>2
<1> QED
  BY <1>1, <1>2

\* What divides a number goes into it a whole number of times.
LEMMA Divides ==
  ASSUME NEW a \in Nat, NEW d \in Nat \ {0}
  PROVE  /\ a % d = 0 => a \div d \in Nat /\ a = d * (a \div d)
         /\ \A k \in Nat : a = d * k => a % d = 0 /\ a \div d = k
<1>1. a \div d \in Nat /\ a % d \in 0..(d - 1) /\ a = d * (a \div d) + (a % d)
  <2>1. a \div d \in Nat
    BY QuotientOfNaturals
  <2>2. a % d \in 0..(d - 1) /\ a = d * (a \div d) + (a % d)
    BY Remainder
  <2> QED
    BY <2>1, <2>2
<1>2. ASSUME NEW k \in Nat, a = d * k PROVE a % d = 0 /\ a \div d = k
  <2>1. d * k <= a /\ a < d * k + d
    BY <1>2
  <2>2. a \div d = k
    BY <2>1, Quotient
  <2> QED
    BY <1>1, <1>2, <2>2
<1> QED
  BY <1>1, <1>2

\* A common scale that can be represented is a multiple of both, and common with either.
LEMMA ExactCommonScale ==
  ASSUME NEW a \in Nat \ {0}, NEW b \in Nat \ {0}, (a \div Gcd(a, b)) * b <= MaxScale
  PROVE  \E p, q \in Nat \ {0} : /\ CommonScale(a, b) = p * a /\ CommonScale(a, b) = q * b
                                 /\ CommonScale(CommonScale(a, b), b) = CommonScale(a, b)
<1> DEFINE g == Gcd(a, b)
           q == a \div g
           p == b \div g
           lcm == q * b
<1>1. g \in Nat \ {0} /\ a % g = 0 /\ b % g = 0
  <2>1. g \in 1..b /\ a % g = 0 /\ b % g = 0
    BY GcdIsGreatest
  <2> HIDE DEF g
  <2> QED
    BY <2>1
<1>2. CommonScale(a, b) = lcm /\ lcm <= MaxScale
  BY DEF CommonScale
<1> HIDE DEF g
<1>3. q \in Nat /\ p \in Nat /\ a = g * q /\ b = g * p
  BY <1>1, Divides
<1> HIDE DEF q, p
<1>4. q \in Nat \ {0} /\ p \in Nat \ {0}
  BY <1>1, <1>3
<1>5. lcm = p * a /\ lcm \in Nat \ {0}
  <2>1. q * (g * p) = p * (g * q)
    BY <1>1, <1>4
  <2> QED
    BY <1>3, <1>4, <2>1
<1>6. lcm = b * q
  BY <1>4
<1> HIDE DEF lcm
<1>7. Gcd(lcm, b) = b
  <2>1. lcm % b = 0 /\ b % b = 0
    <3>1. b = b * 1
      OBVIOUS
    <3> QED
      BY <1>4, <1>5, <1>6, <3>1, Divides
  <2>2. Gcd(lcm, b) \in 1..b /\ \A e \in 1..b : lcm % e = 0 /\ b % e = 0 => e <= Gcd(lcm, b)
    BY <1>5, GcdIsGreatest
  <2> QED
    BY <2>1, <2>2
<1>8. lcm \div b = q
  BY <1>4, <1>5, <1>6, Divides
<1>9. CommonScale(lcm, b) = lcm
  BY <1>2, <1>4, <1>6, <1>7, <1>8 DEF CommonScale, lcm
<1> QED
  BY <1>2, <1>4, <1>5, <1>6, <1>9

\* convertedTo(): a time in a scale that is a multiple of its own is not rounded.
LEMMA ConvertedExactly ==
  ASSUME NEW t, IsNumber(t), NEW p \in Nat \ {0}, NEW scale, scale = p * t.scale
  PROVE  Converted(t, scale) = IF Fits(t.value * p) THEN Finite(t.value * p, scale) ELSE Invalid
<1>1. t.value \in Int /\ t.scale \in Nat \ {0} /\ scale \in Nat \ {0} /\ IsFinite(t)
  BY DEF IsNumber
<1> DEFINE n == t.value * p
<1>2. n \in Int /\ t.value * scale = n * t.scale
  BY <1>1
<1> HIDE DEF n
<1>3. Rescale(t.value, scale, t.scale, "nearest") = IF Fits(n) THEN n ELSE None
  <2>1. Rounded(n * t.scale, t.scale, "nearest") = n
    BY <1>1, <1>2, ExactIsNotRounded
  <2>2. Rounded(t.value * scale, t.scale, "nearest") = n
    BY <1>2, <2>1
  <2> QED
    BY <1>1, <2>2 DEF Rescale
<1>4. Converted(t, scale) = FiniteOrInvalid(Rescale(t.value, scale, t.scale, "nearest"), scale)
  BY <1>1 DEF Converted
<1>5. Converted(t, scale) = IF Fits(n) THEN Finite(n, scale) ELSE Invalid
  BY <1>2, <1>3, <1>4, TimeAssumption DEF FiniteOrInvalid
<1> QED
  BY <1>5 DEF n

\* operator+: over a common scale a sum is exact, or it is invalid.
LEMMA SumIsExact ==
  ASSUME NEW a, IsNumber(a), NEW b, IsNumber(b), NEW p \in Nat \ {0}, NEW q \in Nat \ {0},
         CommonScale(a.scale, b.scale) = p * a.scale, CommonScale(a.scale, b.scale) = q * b.scale
  PROVE  Plus(a, b) = IF Fits(a.value * p) /\ Fits(b.value * q) /\ Fits(a.value * p + b.value * q)
                      THEN Finite(a.value * p + b.value * q, CommonScale(a.scale, b.scale)) ELSE Invalid
<1> DEFINE scale == CommonScale(a.scale, b.scale)
           x == Converted(a, scale)
           y == Converted(b, scale)
           m == a.value * p
           n == b.value * q
<1>1. x = IF Fits(m) THEN Finite(m, scale) ELSE Invalid
  BY ConvertedExactly
<1>2. y = IF Fits(n) THEN Finite(n, scale) ELSE Invalid
  BY ConvertedExactly
<1>3. scale \in Nat \ {0}
  BY CommonScaleIsScale DEF IsNumber
<1>4. IsFinite(a) /\ IsFinite(b) /\ a.kind # "invalid" /\ b.kind # "invalid"
  BY DEF IsNumber, IsFinite
<1>5. Plus(a, b) = IF IsFinite(x) /\ IsFinite(y) /\ Fits(x.value + y.value)
                   THEN Finite(x.value + y.value, scale) ELSE Invalid
  BY <1>4 DEF Plus
<1> HIDE DEF scale, x, y, m, n
<1>6. Plus(a, b) = IF Fits(m) /\ Fits(n) /\ Fits(m + n) THEN Finite(m + n, scale) ELSE Invalid
  BY <1>1, <1>2, <1>3, <1>5 DEF Finite, Invalid, Of, IsFinite
<1> QED
  BY <1>6 DEF m, n, scale

-----------------------------------------------------------------------------
(* Lowest terms.                                                           *)

\* Of the fractions that equal a / b.
IsLeastDenominator(n, a, b) == \A x \in Nat, y \in Nat \ {0} : x * b = a * y => n <= y

\* No fraction of the same value has a smaller denominator than the one in lowest terms.
LEMMA LowestIsLeast ==
  ASSUME NEW a \in Nat, NEW b \in Nat \ {0}
  PROVE  LET g == Gcd(a, b)
         IN /\ a \div g \in Nat /\ b \div g \in Nat \ {0}
            /\ a = g * (a \div g) /\ b = g * (b \div g) /\ (a \div g) * b = a * (b \div g)
            /\ IsLeastDenominator(b \div g, a, b)
<1> DEFINE g == Gcd(a, b)
           low == a \div g
           least == b \div g
           S == {y \in Nat \ {0} : \E x \in Nat : x * b = a * y}
<1>1. g \in Nat \ {0} /\ a % g = 0 /\ b % g = 0
      /\ \A e \in 1..b : a % e = 0 /\ b % e = 0 => e <= g
  <2>1. /\ g \in 1..b /\ a % g = 0 /\ b % g = 0
        /\ \A e \in 1..b : a % e = 0 /\ b % e = 0 => e <= g
    BY GcdIsGreatest
  <2> HIDE DEF g
  <2> QED
    BY <2>1
<1> HIDE DEF g
<1>2. low \in Nat /\ least \in Nat /\ a = g * low /\ b = g * least
  BY <1>1, Divides
<1> HIDE DEF low, least
<1>3. least \in Nat \ {0}
  BY <1>1, <1>2
<1>4. low * b = a * least
  <2>1. low * (g * least) = (g * low) * least
    BY <1>1, <1>2
  <2> QED
    BY <1>2, <2>1
<1>5. least \in S
  BY <1>2, <1>3, <1>4
<1>6. PICK y0 \in S : \A y \in S : y0 <= y
  <2>1. S \subseteq Nat /\ S # {}
    BY <1>5
  <2> HIDE DEF S
  <2> QED
    BY <2>1, LeastOf
<1>7. PICK x0 \in Nat : x0 * b = a * y0
  OBVIOUS
<1> DEFINE k == b \div y0
           r == b % y0
<1>8. y0 \in Nat \ {0} /\ k \in Nat /\ r \in 0..(y0 - 1) /\ b = y0 * k + r
  <2>1. y0 \in Nat \ {0}
    BY <1>6
  <2>2. k \in Nat
    BY <2>1, QuotientOfNaturals
  <2>3. r \in 0..(y0 - 1) /\ b = y0 * k + r
    BY <2>1, Remainder
  <2> QED
    BY <2>1, <2>2, <2>3
<1> HIDE DEF k, r
<1>9. r = 0
  <2>1. SUFFICES ASSUME r > 0 PROVE FALSE
    BY <1>8
  <2> DEFINE s == a - k * x0
  <2>2. s \in Int /\ s * b = a * r
    <3>1. s * b = a * b - k * (x0 * b)
      BY <1>7, <1>8
    <3>2. a * b - k * (a * y0) = a * (b - y0 * k)
      BY <1>8
    <3>3. b - y0 * k = r
      BY <1>8
    <3> QED
      BY <1>7, <1>8, <3>1, <3>2, <3>3
  <2> HIDE DEF s
  <2>3. a * r >= 0
    BY <1>8
  <2>4. s >= 0
    <3>1. SUFFICES ASSUME s <= -1 PROVE FALSE
      BY <2>2
    <3>2. s * b <= (-1) * b
      BY <2>2, <3>1
    <3> QED
      BY <2>2, <2>3, <3>2
  <2>5. r \in S
    BY <1>8, <2>1, <2>2, <2>4
  <2> QED
    BY <1>6, <1>8, <2>5
<1>10. b = y0 * k /\ k \in Nat \ {0}
  BY <1>8, <1>9
<1>11. a = k * x0
  <2>1. x0 * b = (k * x0) * y0
    <3>1. x0 * (y0 * k) = (k * x0) * y0
      BY <1>8
    <3> QED
      BY <1>10, <3>1
  <2> QED
    BY <1>7, <1>8, <1>10, <2>1, CancelFactor
<1>12. k <= g
  <2>1. a % k = 0 /\ b % k = 0
    <3>1. b = k * y0
      BY <1>8, <1>10
    <3> QED
      BY <1>8, <1>10, <1>11, <3>1, Divides
  <2>2. k <= b
    <3>1. y0 * k >= 1 * k
      BY <1>8, <1>10
    <3> QED
      BY <1>10, <3>1
  <2>3. k \in 1..b
    BY <1>10, <2>2
  <2> QED
    BY <1>1, <2>1, <2>3
<1>13. y0 = least
  <2>1. y0 <= least
    BY <1>5, <1>6
  <2>2. SUFFICES ASSUME y0 + 1 <= least PROVE FALSE
    BY <1>3, <1>8, <2>1
  <2>3. g * least >= k * least
    BY <1>1, <1>3, <1>10, <1>12
  <2>4. k * least >= k * (y0 + 1)
    BY <1>3, <1>8, <1>10, <2>2
  <2>5. k * (y0 + 1) = y0 * k + k
    BY <1>8, <1>10
  <2> QED
    BY <1>1, <1>2, <1>3, <1>8, <1>10, <2>3, <2>4, <2>5
<1>14. IsLeastDenominator(least, a, b)
  BY <1>6, <1>13 DEF IsLeastDenominator
<1> HIDE DEF S
<1> QED
  BY <1>2, <1>3, <1>4, <1>14 DEF g, low, least

\* Equal fractions are the same in lowest terms.
LEMMA LowestTermsAreUnique ==
  ASSUME NEW a \in Nat, NEW b \in Nat \ {0}, NEW c \in Nat, NEW d \in Nat \ {0}, a * d = c * b
  PROVE  a \div Gcd(a, b) = c \div Gcd(c, d) /\ b \div Gcd(a, b) = d \div Gcd(c, d)
<1> DEFINE a1 == a \div Gcd(a, b)
           b1 == b \div Gcd(a, b)
           c1 == c \div Gcd(c, d)
           d1 == d \div Gcd(c, d)
<1>1. /\ a1 \in Nat /\ b1 \in Nat \ {0} /\ a1 * b = a * b1
      /\ IsLeastDenominator(b1, a, b)
  BY LowestIsLeast
<1>2. /\ c1 \in Nat /\ d1 \in Nat \ {0} /\ c1 * d = c * d1
      /\ IsLeastDenominator(d1, c, d)
  BY LowestIsLeast
<1> HIDE DEF a1, b1, c1, d1
<1>3. a1 * d = c * b1
  <2>1. (a1 * d) * b = (c * b1) * b
    <3>1. (a1 * d) * b = (a1 * b) * d
      BY <1>1
    <3>2. (a * b1) * d = (a * d) * b1
      BY <1>1
    <3>3. (c * b) * b1 = (c * b1) * b
      BY <1>1
    <3> QED
      BY <1>1, <3>1, <3>2, <3>3
  <2> QED
    BY <1>1, <2>1, CancelFactor
<1>4. c1 * b = a * d1
  <2>1. (c1 * b) * d = (a * d1) * d
    <3>1. (c1 * b) * d = (c1 * d) * b
      BY <1>2
    <3>2. (c * d1) * b = (c * b) * d1
      BY <1>2
    <3>3. (a * d) * d1 = (a * d1) * d
      BY <1>2
    <3> QED
      BY <1>2, <3>1, <3>2, <3>3
  <2> QED
    BY <1>2, <2>1, CancelFactor
<1>5. b1 = d1
  <2>1. b1 <= d1
    BY <1>1, <1>2, <1>4 DEF IsLeastDenominator
  <2>2. d1 <= b1
    BY <1>1, <1>2, <1>3 DEF IsLeastDenominator
  <2> QED
    BY <1>1, <1>2, <2>1, <2>2
<1>6. a1 = c1
  <2>1. a1 * b = c1 * b
    BY <1>1, <1>4, <1>5
  <2> QED
    BY <1>1, <1>2, <2>1, CancelFactor
<1> QED
  BY <1>5, <1>6 DEF a1, b1, c1, d1

-----------------------------------------------------------------------------
(* Times and ticks.                                                        *)

\* stills_Time.h, fromTimestamp() and toTimestamp(): a tick whose time can be
\* represented is found again from that time, in every time base.
THEOREM TicksComeBack ==
  ASSUME NEW ts \in Int, Fits(ts), NEW base, IsTimeBase(base),
         IsFinite(FromTimestamp(ts, base))
  PROVE  ToTimestamp(FromTimestamp(ts, base), base, "nearest") = ts
<1> DEFINE n == ts * base.num
           d == base.num * base.den
<1>1. /\ n \in Int /\ d \in Nat \ {0}
      /\ base.num \in Nat \ {0} /\ base.den \in Nat \ {0}
  BY DEF IsTimeBase
<1>2. Rounded(n, 1, "nearest") = n
  BY <1>1, ExactIsNotRounded
<1>3. FromTimestamp(ts, base) = [kind |-> "finite", value |-> n, scale |-> base.den]
  BY <1>1, <1>2 DEF FromTimestamp, FiniteOrInvalid, Finite, Rescale, Invalid, Of, IsFinite
<1>4. n * base.den = ts * d /\ base.den * base.num = d
  BY <1>1
<1>5. Rounded(n * base.den, base.den * base.num, "nearest") = ts
  BY <1>1, <1>4, ExactIsNotRounded
<1> QED
  BY <1>1, <1>3, <1>4, <1>5, TimeAssumption DEF ToTimestamp, Rescale, Fits, MinValue

-----------------------------------------------------------------------------
(* Windows.                                                                *)

IsSide(side) == side = PositiveInfinity \/ (IsNumber(side) /\ side.value >= 0)

\* A time that is not negative is not before tick 0.
LEMMA TicksKeepTheirSign ==
  ASSUME NEW t, IsNumber(t), t.value >= 0, NEW base, IsTimeBase(base),
         NEW rounding \in {"down", "nearest"}
  PROVE  ToTimestamp(t, base, rounding) \in Nat
<1> DEFINE p == t.value * base.den
           d == t.scale * base.num
<1>1. p \in Nat /\ d \in Nat \ {0}
  BY DEF IsNumber, IsTimeBase
<1>2. Rounded(p, d, rounding) \in Nat
  <2>1. 2 * p + d \in Nat /\ 2 * d \in Nat \ {0}
    BY <1>1
  <2> QED
    BY <1>1, <2>1, QuotientOfNaturals DEF Rounded
<1> QED
  BY <1>1, <1>2, TimeAssumption DEF ToTimestamp, Rescale, IsNumber, IsFinite, IsTimeBase

\* The tick of a time that is not negative is the nearest one, unless it is out of range.
LEMMA TickIsNearest ==
  ASSUME NEW t, IsNumber(t), t.value >= 0, NEW base, IsTimeBase(base),
         ToTimestamp(t, base, "nearest") # MaxValue
  PROVE  LET n == ToTimestamp(t, base, "nearest")
             off == 2 * t.value * base.den - 2 * n * base.num * t.scale
         IN n \in Nat /\ -(base.num * t.scale) <= off /\ off <= base.num * t.scale
<1> DEFINE p == t.value * base.den
           d == t.scale * base.num
           q == (2 * p + d) \div (2 * d)
           n == ToTimestamp(t, base, "nearest")
<1>1. /\ p \in Nat /\ d \in Nat \ {0} /\ t.value \in Nat /\ t.scale \in Nat \ {0}
      /\ base.num \in Nat \ {0} /\ base.den \in Nat \ {0}
  BY DEF IsNumber, IsTimeBase
<1>2. q \in Nat /\ 2 * p - 2 * (q * d) >= -d /\ 2 * p - 2 * (q * d) <= d
  <2> HIDE DEF p, d
  <2>1. 2 * p + d \in Nat /\ 2 * d \in Nat \ {0}
    BY <1>1
  <2>2. q \in Nat
    BY <2>1, QuotientOfNaturals
  <2>3. (2 * d) * q <= 2 * p + d /\ 2 * p + d < (2 * d) * q + 2 * d
    BY <2>1
  <2> HIDE DEF q
  <2>4. (2 * d) * q = 2 * (q * d)
    BY <1>1, <2>2
  <2> QED
    BY <1>1, <2>2, <2>3, <2>4
<1>3. n = q
  <2>1. Rounded(p, d, "nearest") = q
    BY <1>1 DEF Rounded
  <2>2. Rescale(t.value, base.den, d, "nearest") = IF Fits(q) THEN q ELSE None
    BY <1>1, <2>1 DEF Rescale
  <2> HIDE DEF p, q
  <2> DEFINE v == Rescale(t.value, base.den, t.scale * base.num, "nearest")
  <2>3. v = IF Fits(q) THEN q ELSE None
    BY <2>2
  <2> HIDE DEF v, d
  <2>4. n = IF v # None THEN v ELSE MaxValue
    BY <1>1 DEF ToTimestamp, IsNumber, IsFinite, v
  <2> QED
    BY <2>3, <2>4
<1>4. 2 * t.value * base.den = 2 * p /\ 2 * q * base.num * t.scale = 2 * (q * d) /\ base.num * t.scale = d
  <2>1. \A x \in Int : 2 * x * base.num * t.scale = 2 * (x * d)
    BY <1>1
  <2> QED
    BY <1>1, <1>2, <2>1
<1> HIDE DEF p, d, q, n
<1> QED
  BY <1>1, <1>2, <1>3, <1>4 DEF n

\* A tolerance in ticks is not negative.
LEMMA TicksArePositive ==
  ASSUME NEW tolerance, IsSide(tolerance), NEW base, IsTimeBase(base)
  PROVE  Ticks(tolerance, base) \in Nat
<1>1. CASE ~(IsFinite(tolerance) /\ Less(Zero, tolerance))
  BY <1>1 DEF Ticks
<1>2. CASE IsFinite(tolerance) /\ Less(Zero, tolerance)
  <2>1. IsNumber(tolerance) /\ tolerance.value >= 0
    BY <1>2 DEF IsSide, IsFinite, PositiveInfinity, Of
  <2> QED
    BY <1>2, <2>1, TicksKeepTheirSign DEF Ticks
<1> QED
  BY <1>1, <1>2

\* A tolerance in ticks is as many of them as lie within it, up to what a word holds.
LEMMA TicksReach ==
  ASSUME NEW t, IsNumber(t), t.value >= 0, NEW base, IsTimeBase(base), NEW n \in Int
  PROVE  n <= Ticks(t, base) <=> n <= MaxValue /\ n * base.num * t.scale <= t.value * base.den
<1> DEFINE p == t.value * base.den
           d == t.scale * base.num
           q == p \div d
<1>1. /\ p \in Nat /\ d \in Nat \ {0} /\ t.value \in Nat /\ t.scale \in Nat \ {0}
      /\ base.num \in Nat \ {0} /\ base.den \in Nat \ {0}
  BY DEF IsNumber, IsTimeBase
<1>2. q \in Nat /\ (n <= q <=> n * d <= p)
  <2> HIDE DEF p, d
  <2>1. q \in Nat /\ d * q <= p /\ p < d * q + d
    BY <1>1, QuotientOfNaturals
  <2> HIDE DEF q
  <2>2. CASE n <= q
    <3>1. n * d <= q * d
      BY <1>1, <2>1, <2>2
    <3> QED
      BY <1>1, <2>1, <2>2, <3>1
  <2>3. CASE n >= q + 1
    <3>1. n * d >= (q + 1) * d
      BY <1>1, <2>1, <2>3
    <3> QED
      BY <1>1, <2>1, <2>3, <3>1
  <2> QED
    BY <2>1, <2>2, <2>3
<1>3. n * base.num * t.scale = n * d
  BY <1>1
<1>4. Ticks(t, base) = IF q <= MaxValue THEN q ELSE MaxValue
  <2>1. CASE t.value = 0
    <3>1. ~Less(Zero, t)
      BY <1>1, <2>1 DEF Less, Zero, Of, Rank, IsNumber, IsFinite
    <3>2. q = 0
      BY <1>1, <2>1
    <3> QED
      BY <3>1, <3>2, TimeAssumption DEF Ticks
  <2>2. CASE t.value # 0
    <3>1. Less(Zero, t)
      BY <1>1, <2>2 DEF Less, Zero, Of, Rank, IsNumber, IsFinite
    <3>2. Rounded(p, d, "down") = q
      BY DEF Rounded
    <3>3. Rescale(t.value, base.den, d, "down") = IF Fits(q) THEN q ELSE None
      BY <1>1, <3>2 DEF Rescale
    <3>4. Fits(q) <=> q <= MaxValue
      BY <1>2, TimeAssumption DEF Fits, MinValue
    <3> HIDE DEF p, d, q
    <3>5. Ticks(t, base) = ToTimestamp(t, base, "down")
      BY <3>1 DEF Ticks, IsNumber
    <3> DEFINE v == Rescale(t.value, base.den, t.scale * base.num, "down")
    <3>6. v = IF q <= MaxValue THEN q ELSE None
      BY <3>3, <3>4 DEF d
    <3> HIDE DEF v
    <3>7. ToTimestamp(t, base, "down") = IF v # None THEN v ELSE MaxValue
      BY <1>1 DEF ToTimestamp, IsNumber, IsFinite, v
    <3>8. q # None
      BY <1>2, TimeAssumption
    <3> QED
      BY <3>5, <3>6, <3>7, <3>8
  <2> QED
    BY <2>1, <2>2
<1> HIDE DEF p, d, q
<1> QED
  BY <1>2, <1>3, <1>4, TimeAssumption DEF p

\* A window holds its target, lies in the domain, and starts at the least value - which
\* stands for the key frame before - exactly if it is one the source can seek for.
LEMMA WindowHoldsTarget ==
  ASSUME NEW target \in Int, Fits(target), NEW tolerance, IsSide(tolerance.before),
         IsSide(tolerance.after), NEW stream, IsTimeBase(stream.base),
         stream.seekable \in BOOLEAN, MinValue < target, NEW clamped
  PROVE  LET w == Window(target, tolerance, stream, clamped)
         IN /\ Fits(w.start) /\ w.start <= w.target /\ w.target <= w.end /\ Fits(w.end)
            /\ w.keyframe <=> w.start = MinValue
<1> DEFINE early == Earliest(target, tolerance.before, stream.base)
           late == Latest(target, tolerance.after, stream.base)
<1>1. MaxValue \in Nat /\ MaxValue > 0 /\ MinValue = -MaxValue - 1
  BY TimeAssumption DEF MinValue
<1>2. Half(MinValue) \in Int /\ MinValue < Half(MinValue) /\ Half(MinValue) <= 0
  BY <1>1 DEF Half
<1>3. Half(MaxValue) \in Int /\ 0 <= Half(MaxValue) /\ Half(MaxValue) <= MaxValue
  BY <1>1 DEF Half
<1>4. early \in Int /\ MinValue <= early /\ early <= target
  <2>1. Ticks(tolerance.before, stream.base) \in Nat
    BY TicksArePositive
  <2> QED
    BY <1>1, <1>2, <2>1 DEF Earliest, Fits
<1>5. late \in Int /\ target <= late /\ late <= MaxValue
  <2>1. Ticks(tolerance.after, stream.base) \in Nat
    BY TicksArePositive
  <2> QED
    BY <1>1, <1>3, <2>1 DEF Latest, Fits
<1> DEFINE w == Window(target, tolerance, stream, clamped)
<1>6. w = [status |-> "ok", target |-> target,
           start |-> IF early = MinValue /\ ~stream.seekable THEN target ELSE early,
           end |-> IF early = MinValue /\ ~stream.seekable THEN target ELSE late,
           clamped |-> clamped, keyframe |-> early = MinValue /\ stream.seekable]
  BY DEF Window
<1> HIDE DEF early, late
<1>7. CASE early = MinValue /\ ~stream.seekable
  BY <1>1, <1>6, <1>7 DEF Fits
<1>8. CASE ~(early = MinValue /\ ~stream.seekable)
  <2>1. w.start = early /\ w.target = target /\ w.end = late
    BY <1>6, <1>8
  <2>2. w.keyframe = (early = MinValue)
    <3>1. w.keyframe = (early = MinValue /\ stream.seekable)
      BY <1>6
    <3>2. (early = MinValue /\ stream.seekable) = (early = MinValue)
      BY <1>8
    <3> QED
      BY <3>1, <3>2
  <2> HIDE DEF w
  <2>3. Fits(w.start) /\ w.start <= w.target /\ w.target <= w.end /\ Fits(w.end)
    BY <1>1, <1>4, <1>5, <2>1 DEF Fits
  <2> QED
    BY <2>1, <2>2, <2>3, Zenon DEF w
<1> QED
  BY <1>7, <1>8

\* detail/RequestWindow.h, resolve(): every accepted request has a window as above, however
\* far its time and its tolerance reach, and clamped or not.
THEOREM AcceptedRequestsHoldTheirTarget ==
  ASSUME NEW time, IsFinite(time) => IsNumber(time),
         NEW tolerance, IsSide(tolerance.before), IsSide(tolerance.after),
         NEW stream, IsTimeBase(stream.base), stream.seekable \in BOOLEAN,
         stream.start \in Int, MinValue < stream.start, stream.frame \in Nat,
         stream.duration \in Nat \cup {None}, NEW clamps \in BOOLEAN
  PROVE  LET w == ResolveTime(time, tolerance, stream, clamps)
         IN w.status = "ok" =>
              /\ Fits(w.start) /\ w.start <= w.target /\ w.target <= w.end /\ Fits(w.end)
              /\ w.keyframe <=> w.start = MinValue
<1> DEFINE relative == ToTimestamp(time, stream.base, "nearest")
           w == ResolveTime(time, tolerance, stream, clamps)
<1> SUFFICES ASSUME w.status = "ok"
             PROVE  /\ Fits(w.start) /\ w.start <= w.target /\ w.target <= w.end /\ Fits(w.end)
                    /\ w.keyframe <=> w.start = MinValue
  OBVIOUS
<1>1. /\ IsNumber(time) /\ time.value >= 0
      /\ Fits(stream.start + relative)
  <2>1. ~(~IsFinite(time) \/ time.value < 0)
    <3>1. SUFFICES ASSUME ~IsFinite(time) \/ time.value < 0
                   PROVE  FALSE
      OBVIOUS
    <3>2. w = Refused("invalidArgument")
      BY <3>1 DEF ResolveTime
    <3> QED
      BY <3>2 DEF Refused
  <2>2. ~(relative = MaxValue \/ ~Fits(stream.start + relative))
    <3>1. SUFFICES ASSUME relative = MaxValue \/ ~Fits(stream.start + relative)
                   PROVE  FALSE
      OBVIOUS
    <3>2. w = Refused("timeOutOfRange")
      BY <2>1, <3>1 DEF ResolveTime
    <3> QED
      BY <3>2 DEF Refused
  <2> QED
    BY <2>1, <2>2 DEF IsNumber
<1>2. relative \in Nat
  BY <1>1, TicksKeepTheirSign
<1>3. PICK target \in Int, clamped \in BOOLEAN :
        /\ Fits(target) /\ MinValue < target
        /\ w = Window(target, tolerance, stream, clamped)
  <2>1. CASE ~IsPastDuration(relative, stream)
    <3>1. w = Window(stream.start + relative, tolerance, stream, FALSE)
      BY <2>1, <1>1 DEF ResolveTime, Refused, IsNumber, IsFinite
    <3>2. stream.start + relative \in Int /\ MinValue < stream.start + relative
      BY <1>2, TimeAssumption DEF MinValue
    <3> QED
      BY <1>1, <3>1, <3>2
  <2>2. CASE IsPastDuration(relative, stream)
    <3>1. /\ stream.duration \in Nat
          /\ stream.start + stream.duration \in Int
          /\ MinValue < stream.start + stream.duration
          /\ stream.start + stream.duration <= stream.start + relative
      BY <1>2, <2>2, TimeAssumption DEF IsPastDuration, MinValue
    <3>2. w = Window(stream.start + stream.duration, tolerance, stream, TRUE)
      BY <2>2, <1>1 DEF ResolveTime, Refused, IsNumber, IsFinite
    <3>3. Fits(stream.start + stream.duration)
      BY <1>1, <1>2, <3>1, TimeAssumption DEF Fits, MinValue
    <3> QED
      BY <3>1, <3>2, <3>3
  <2> QED
    BY <2>1, <2>2
<1> HIDE DEF w
<1> QED
  BY <1>3, WindowHoldsTarget

-----------------------------------------------------------------------------
(* Planes.                                                                 *)

Rotations == {0, 90, 180, 270}

\* The cells of a plane, and of the plane it is turned into.
Cells(width, height) == (0..(width - 1)) \X (0..(height - 1))
TurnedCells(degrees, width, height) ==
  IF degrees \in {90, 270} THEN Cells(height, width) ELSE Cells(width, height)

\* detail/Transform.h, computeRowMap() and transformPlane(): no cell is written outside
\* the turned plane.
THEOREM TurnStaysInside ==
  ASSUME NEW width \in Nat, NEW height \in Nat, NEW degrees \in Rotations, NEW mirror \in BOOLEAN,
         NEW x \in 0..(width - 1), NEW y \in 0..(height - 1)
  PROVE  Destination(degrees, mirror, width, height, x, y) \in TurnedCells(degrees, width, height)
<1>1. CASE mirror
  BY <1>1 DEF Destination, RowMap, TurnedCells, Cells, Rotations
<1>2. CASE ~mirror
  BY <1>2 DEF Destination, RowMap, TurnedCells, Cells, Rotations
<1> QED
  BY <1>1, <1>2

\* Where a cell goes, written out.
LEMMA Destinations ==
  ASSUME NEW width \in Nat, NEW height \in Nat, NEW degrees \in Rotations, NEW mirror \in BOOLEAN,
         NEW x \in Int, NEW y \in Int
  PROVE  LET cell == Destination(degrees, mirror, width, height, x, y)
         IN /\ degrees = 0 => cell = <<IF mirror THEN width - 1 - x ELSE x, y>>
            /\ degrees = 90 => cell = <<IF mirror THEN y ELSE height - 1 - y, x>>
            /\ degrees = 180 => cell = <<IF mirror THEN x ELSE width - 1 - x, height - 1 - y>>
            /\ degrees = 270 => cell = <<IF mirror THEN height - 1 - y ELSE y, width - 1 - x>>
<1>1. CASE mirror
  BY <1>1 DEF Destination, RowMap, Rotations
<1>2. CASE ~mirror
  BY <1>2 DEF Destination, RowMap, Rotations
<1> QED
  BY <1>1, <1>2

\* No two cells are written to the same place.
THEOREM TurnKeepsCellsApart ==
  ASSUME NEW width \in Nat, NEW height \in Nat, NEW degrees \in Rotations, NEW mirror \in BOOLEAN,
         NEW x \in 0..(width - 1), NEW y \in 0..(height - 1),
         NEW u \in 0..(width - 1), NEW v \in 0..(height - 1),
         Destination(degrees, mirror, width, height, x, y)
           = Destination(degrees, mirror, width, height, u, v)
  PROVE  x = u /\ y = v
<1>1. CASE degrees = 0
  BY <1>1, Destinations
<1>2. CASE degrees = 90
  BY <1>2, Destinations
<1>3. CASE degrees = 180
  BY <1>3, Destinations
<1>4. CASE degrees = 270
  BY <1>4, Destinations
<1> QED
  BY <1>1, <1>2, <1>3, <1>4 DEF Rotations

\* Every cell of the turned plane is written: nothing of a recycled buffer shows through.
THEOREM TurnFillsThePlane ==
  ASSUME NEW width \in Nat, NEW height \in Nat, NEW degrees \in Rotations, NEW mirror \in BOOLEAN,
         NEW cell \in TurnedCells(degrees, width, height)
  PROVE  \E x \in 0..(width - 1), y \in 0..(height - 1) :
           Destination(degrees, mirror, width, height, x, y) = cell
<1> DEFINE i == cell[1]
           j == cell[2]
           across == IF degrees \in {90, 270} THEN height ELSE width
           k == IF mirror THEN across - 1 - i ELSE i
           x == CASE degrees = 90 -> j [] degrees = 180 -> width - 1 - k
                  [] degrees = 270 -> width - 1 - j [] OTHER -> k
           y == CASE degrees = 90 -> height - 1 - k [] degrees = 180 -> height - 1 - j
                  [] degrees = 270 -> k [] OTHER -> j
<1>1. cell = <<i, j>> /\ i \in Int /\ j \in Int
  BY DEF TurnedCells, Cells
<1>2. x \in 0..(width - 1) /\ y \in 0..(height - 1)
  BY DEF TurnedCells, Cells, Rotations
<1>3. Destination(degrees, mirror, width, height, x, y) = <<i, j>>
  <2>1. CASE mirror
    BY <1>1, <2>1 DEF Destination, RowMap, TurnedCells, Cells, Rotations
  <2>2. CASE ~mirror
    BY <1>1, <2>2 DEF Destination, RowMap, TurnedCells, Cells, Rotations
  <2> QED
    BY <2>1, <2>2
<1> QED
  BY <1>1, <1>2, <1>3

-----------------------------------------------------------------------------
(* The caches of a converter.                                              *)

IsSlot(s) ==
  /\ s = [live |-> s.live, key |-> s.key, used |-> s.used, colours |-> s.colours]
  /\ s.live \in BOOLEAN /\ s.used \in Nat
IsCache(cache) == cache = [i \in 1..Slots |-> cache[i]] /\ \A i \in 1..Slots : IsSlot(cache[i])
\* What a lookup changes of a cache, and what it leaves alone.
IsNewest(entry, key, used) == entry.live /\ entry.key = key /\ entry.used = used
OthersKept(slot, old, new) == \A i \in 1..Slots : i # slot => new[i] = old[i]
SameStamps(old, new) ==
  \A i \in 1..Slots : /\ new[i].live <=> old[i].live
                      /\ new[i].key = old[i].key /\ new[i].used = old[i].used
IsConverter(c) ==
  /\ c = [clock |-> c.clock, pools |-> c.pools, scalers |-> c.scalers,
          replaner |-> c.replaner, built |-> c.built]
  /\ c.clock \in Nat /\ IsCache(c.pools) /\ IsCache(c.scalers)

LEMMA NewConverterIsOne ==
  IsConverter(NewConverter)
<1>1. IsSlot(EmptySlot)
  BY DEF IsSlot, EmptySlot
<1>2. IsCache([i \in 1..Slots |-> EmptySlot])
  BY <1>1 DEF IsCache
<1> QED
  BY <1>2 DEF IsConverter, NewConverter

\* scalerFor() and pooledFrame(): the slots searched last are those from the last empty
\* one on.
LEMMA SlotsSearched ==
  ASSUME NEW cache
  PROVE  /\ Searched(cache) \subseteq 1..Slots /\ Searched(cache) # {}
         /\ \A i \in 1..Slots : ~cache[i].live => \A j \in Searched(cache) : i <= j
         /\ \A j \in 1..Slots : (\A i \in 1..Slots : ~cache[i].live => i <= j) => j \in Searched(cache)
<1> DEFINE starts == {1} \cup {i \in 1..Slots : ~cache[i].live}
<1>1. Slots \in Nat /\ 4 <= Slots /\ starts \subseteq 0..Slots /\ starts # {}
  BY SlotsAssumption
<1>2. Max(starts) \in starts /\ \A i \in starts : i <= Max(starts)
  BY <1>1, MaxIsGreatest
<1>3. Searched(cache) = Max(starts)..Slots /\ 1 <= Max(starts) /\ Max(starts) <= Slots
  BY <1>1, <1>2 DEF Searched
<1>4. Searched(cache) \subseteq 1..Slots /\ Searched(cache) # {}
  <2> DEFINE first == Max(starts)
  <2>1. first \in Nat /\ 1 <= first /\ first <= Slots /\ Slots \in Nat
    BY <1>1, <1>2, <1>3
  <2> HIDE DEF first
  <2>2. first..Slots \subseteq 1..Slots /\ Slots \in first..Slots
    BY <2>1
  <2> QED
    BY <1>3, <2>2 DEF first
<1>5. ASSUME NEW i \in 1..Slots, ~cache[i].live, NEW j \in Searched(cache)
      PROVE  i <= j
  BY <1>1, <1>2, <1>3, <1>5
<1>6. ASSUME NEW j \in 1..Slots, \A i \in 1..Slots : ~cache[i].live => i <= j
      PROVE  j \in Searched(cache)
  BY <1>1, <1>2, <1>3, <1>6
<1> QED
  BY <1>4, <1>5, <1>6

\* The slot given up is one of those, and none of them was used longer ago.
LEMMA SlotGivenUp ==
  ASSUME NEW cache, IsCache(cache)
  PROVE  /\ LeastRecentlyUsed(cache) \in Searched(cache)
         /\ \A j \in Searched(cache) : cache[LeastRecentlyUsed(cache)].used <= cache[j].used
<1> DEFINE searched == Searched(cache)
           stamps == {cache[i].used : i \in searched}
<1>1. searched \subseteq Nat /\ searched # {} /\ \A i \in searched : cache[i].used \in Nat
  <2>1. searched \subseteq 1..Slots /\ searched # {}
    BY SlotsSearched
  <2>2. \A i \in 1..Slots : i \in Nat /\ cache[i].used \in Nat
    BY SlotsAssumption DEF IsCache, IsSlot
  <2> HIDE DEF searched
  <2> QED
    BY <2>1, <2>2
<1>2. PICK u \in stamps : \A v \in stamps : u <= v
  <2>1. stamps \subseteq Nat /\ stamps # {}
    BY <1>1
  <2> QED
    BY <2>1, LeastOf
<1> DEFINE oldest == {i \in searched : cache[i].used = u}
<1>3. PICK i \in oldest : \A j \in oldest : i <= j
  <2>1. oldest \subseteq Nat /\ oldest # {}
    BY <1>1, <1>2
  <2> QED
    BY <2>1, LeastOf
<1>4. \A j \in searched : cache[i].used < cache[j].used \/ (cache[i].used = cache[j].used /\ i <= j)
  <2>1. SUFFICES ASSUME NEW j \in searched
                 PROVE  cache[i].used < cache[j].used \/ (cache[i].used = cache[j].used /\ i <= j)
    OBVIOUS
  <2>2. u <= cache[j].used /\ cache[i].used = u /\ cache[j].used \in Nat
    BY <1>1, <1>2, <1>3
  <2>3. CASE cache[j].used = u
    BY <1>3, <2>2, <2>3
  <2> QED
    BY <1>1, <2>2, <2>3
<1>5. i \in searched
  BY <1>3
<1>6. /\ LeastRecentlyUsed(cache) \in searched
      /\ \A j \in searched : \/ cache[LeastRecentlyUsed(cache)].used < cache[j].used
                             \/ /\ cache[LeastRecentlyUsed(cache)].used = cache[j].used
                                /\ LeastRecentlyUsed(cache) <= j
  <2> HIDE DEF searched
  <2>1. LeastRecentlyUsed(cache) =
          CHOOSE k \in searched : \A j \in searched :
            cache[k].used < cache[j].used \/ (cache[k].used = cache[j].used /\ k <= j)
    BY DEF LeastRecentlyUsed, searched
  <2> QED
    BY <1>4, <1>5, <2>1
<1> QED
  BY <1>1, <1>6

\* An empty slot is given up before one that is not, unless it was used later.
LEMMA EmptySlotGivenUp ==
  ASSUME NEW cache, IsCache(cache), NEW d \in 1..Slots, ~cache[d].live
  PROVE  \E e \in 1..Slots : ~cache[e].live /\ cache[LeastRecentlyUsed(cache)].used <= cache[e].used
<1> DEFINE empty == {i \in 1..Slots : ~cache[i].live}
<1>1. PICK e \in empty : \A i \in empty : i <= e
  <2>1. empty \subseteq 0..Slots /\ empty # {} /\ Slots \in Nat
    BY SlotsAssumption
  <2> HIDE DEF empty
  <2> QED
    BY <2>1, GreatestOf
<1>2. e \in Searched(cache)
  BY <1>1, SlotsSearched
<1> QED
  BY <1>1, <1>2, SlotGivenUp

\* If none is empty, none at all was used longer ago.
LEMMA OldestSlotGivenUp ==
  ASSUME NEW cache, IsCache(cache), \A i \in 1..Slots : cache[i].live
  PROVE  \A j \in 1..Slots : cache[LeastRecentlyUsed(cache)].used <= cache[j].used
<1>1. \A j \in 1..Slots : j \in Searched(cache)
  BY SlotsSearched
<1> QED
  BY <1>1, SlotGivenUp

\* A slot used later than every other is not given up.
LEMMA NewestIsNotGivenUp ==
  ASSUME NEW cache, IsCache(cache), NEW i \in 1..Slots, cache[i].live,
         \A j \in 1..Slots : j # i => cache[j].used < cache[i].used
  PROVE  LeastRecentlyUsed(cache) # i
<1>1. SUFFICES ASSUME LeastRecentlyUsed(cache) = i PROVE FALSE
  OBVIOUS
<1>2. \A j \in 1..Slots : cache[j].used \in Nat
  BY DEF IsCache, IsSlot
<1>3. \E j \in 1..Slots : j # i
  BY SlotsAssumption
<1>4. CASE \E d \in 1..Slots : ~cache[d].live
  <2>1. PICK e \in 1..Slots : ~cache[e].live /\ cache[i].used <= cache[e].used
    BY <1>1, <1>4, EmptySlotGivenUp
  <2> QED
    BY <1>2, <2>1
<1>5. CASE \A d \in 1..Slots : cache[d].live
  <2>1. \A j \in 1..Slots : cache[i].used <= cache[j].used
    BY <1>1, <1>5, OldestSlotGivenUp
  <2> QED
    BY <1>2, <1>3, <2>1
<1> QED
  BY <1>4, <1>5

\* Nor is one of at most three that were used since some time, while the empty ones were not.
LEMMA OneOfThreeIsNotGivenUp ==
  ASSUME NEW cache, IsCache(cache), NEW since \in Nat,
         \A j \in 1..Slots : cache[j].used > since => cache[j].live /\ cache[j].used <= since + 3,
         \A j, k \in 1..Slots : j # k /\ cache[j].used = cache[k].used => cache[j].used = 0
  PROVE  cache[LeastRecentlyUsed(cache)].used <= since
<1> DEFINE i == LeastRecentlyUsed(cache)
<1>1. i \in 1..Slots /\ \A j \in 1..Slots : cache[j].used \in Nat
  BY SlotGivenUp, SlotsSearched DEF IsCache, IsSlot
<1>2. SUFFICES ASSUME cache[i].used > since PROVE FALSE
  BY <1>1
<1>3. CASE \E d \in 1..Slots : ~cache[d].live
  <2>1. PICK e \in 1..Slots : ~cache[e].live /\ cache[i].used <= cache[e].used
    BY <1>3, EmptySlotGivenUp
  <2> QED
    BY <1>1, <1>2, <2>1
<1>4. CASE \A d \in 1..Slots : cache[d].live
  <2>1. \A j \in 1..Slots : cache[i].used <= cache[j].used
    BY <1>4, OldestSlotGivenUp
  <2> HIDE DEF i
  <2>2. \A j \in 1..Slots : cache[j].used \in (since + 1)..(since + 3)
    BY <1>1, <1>2, <2>1
  <2>3. {1, 2, 3, 4} \subseteq 1..Slots
    BY SlotsAssumption
  <2> DEFINE u(j) == cache[j].used
  <2>4. /\ u(1) \in (since + 1)..(since + 3) /\ u(2) \in (since + 1)..(since + 3)
        /\ u(3) \in (since + 1)..(since + 3) /\ u(4) \in (since + 1)..(since + 3)
    BY <2>2, <2>3
  <2>5. /\ u(1) # u(2) /\ u(1) # u(3) /\ u(1) # u(4)
        /\ u(2) # u(3) /\ u(2) # u(4) /\ u(3) # u(4)
    BY <2>3, <2>4
  <2> HIDE DEF u
  <2> QED
    BY <2>4, <2>5
<1> QED
  BY <1>3, <1>4

LEMMA SlotOfKey ==
  ASSUME NEW cache, IsCache(cache), NEW key
  PROVE  /\ Slot(cache, key) \in 1..Slots
         /\ Hits(cache, key) # {} => Slot(cache, key) \in Hits(cache, key)
         /\ Hits(cache, key) = {} => Slot(cache, key) = LeastRecentlyUsed(cache)
<1>1. CASE Hits(cache, key) # {}
  BY <1>1 DEF Slot, Hits
<1>2. CASE Hits(cache, key) = {}
  BY <1>2, SlotGivenUp, SlotsSearched DEF Slot
<1> QED
  BY <1>1, <1>2

\* An entry of a cache, new or renewed.
NewEntry(key, used) == [EmptySlot EXCEPT !.live = TRUE, !.key = key, !.used = used]

LEMMA NewEntryIsSlot ==
  ASSUME NEW key, NEW used \in Nat
  PROVE  /\ IsSlot(NewEntry(key, used)) /\ NewEntry(key, used).live
         /\ NewEntry(key, used).key = key /\ NewEntry(key, used).used = used
<1> DEFINE none == <<>>
           entry == NewEntry(key, used)
<1>1. EmptySlot = [live |-> FALSE, key |-> none, used |-> 0, colours |-> none]
  BY DEF EmptySlot
<1>2. entry = [EmptySlot EXCEPT !.live = TRUE, !.key = key, !.used = used]
  BY DEF NewEntry
<1> HIDE DEF none, entry
<1>3. entry = [live |-> TRUE, key |-> key, used |-> used, colours |-> none]
  BY <1>1, <1>2
<1>4. IsSlot(entry) /\ entry.live /\ entry.key = key /\ entry.used = used
  BY <1>3 DEF IsSlot
<1> QED
  BY <1>4 DEF entry

\* pooledFrame(): afterwards there is a pool of the key, with the newest stamp.
LEMMA AfterPooled ==
  ASSUME NEW c, IsConverter(c), NEW key
  PROVE  LET d == Pooled(c, key)
             slot == Slot(c.pools, key)
         IN /\ IsConverter(d) /\ d.clock = c.clock + 1 /\ d.scalers = c.scalers
            /\ d.replaner = c.replaner
            /\ d.built = IF Hits(c.pools, key) = {} THEN c.built \cup {"pool"} ELSE c.built
            /\ OthersKept(slot, c.pools, d.pools)
            /\ IsNewest(d.pools[slot], key, c.clock + 1)
<1> DEFINE d == Pooled(c, key)
           slot == Slot(c.pools, key)
           entry == [EmptySlot EXCEPT !.live = TRUE, !.key = key, !.used = c.clock + 1]
           pools == [c.pools EXCEPT ![slot] = entry]
           built == IF Hits(c.pools, key) = {} THEN c.built \cup {"pool"} ELSE c.built
<1>1. slot \in 1..Slots
  BY SlotOfKey DEF IsConverter
<1>2. c.clock + 1 \in Nat
  BY DEF IsConverter
<1>3. IsSlot(entry) /\ entry.live /\ entry.key = key /\ entry.used = c.clock + 1
  <2>1. entry = NewEntry(key, c.clock + 1)
    BY DEF NewEntry
  <2> QED
    BY <1>2, <2>1, NewEntryIsSlot
<1>4. d = [clock |-> c.clock + 1, pools |-> pools, scalers |-> c.scalers,
           replaner |-> c.replaner, built |-> built]
  <2>1. d = [[c EXCEPT !.clock = @ + 1] EXCEPT !.pools[slot] = entry, !.built = built]
    BY <1>1 DEF Pooled, Tick, IsConverter
  <2> HIDE DEF slot, entry, built, d
  <2> QED
    BY <2>1 DEF IsConverter
<1> HIDE DEF entry, slot, built, d
<1>5. IsCache(pools) /\ pools[slot] = entry /\ OthersKept(slot, c.pools, pools)
  BY <1>1, <1>3 DEF IsConverter, IsCache, OthersKept
<1> HIDE DEF pools
<1>6. IsConverter(d)
  BY <1>4, <1>5 DEF IsConverter
<1> QED
  BY <1>3, <1>4, <1>5, <1>6 DEF slot, d, built, IsNewest

\* The same of a pool that turns out not to be had: if there was none, its slot is
\* empty then.
LEMMA AfterPoolFailed ==
  ASSUME NEW c, IsConverter(c), NEW key
  PROVE  LET d == PoolFailed(c, key)
             slot == Slot(c.pools, key)
         IN IF Hits(c.pools, key) # {} THEN d = Pooled(c, key)
            ELSE /\ IsConverter(d) /\ d.clock = c.clock + 1 /\ d.scalers = c.scalers /\ d.built = c.built
                 /\ d.replaner = c.replaner
                 /\ OthersKept(slot, c.pools, d.pools)
                 /\ ~d.pools[slot].live /\ d.pools[slot].used = c.pools[slot].used
<1> DEFINE d == PoolFailed(c, key)
           slot == Slot(c.pools, key)
<1>1. CASE Hits(c.pools, key) # {}
  BY <1>1 DEF PoolFailed
<1>2. CASE Hits(c.pools, key) = {}
  <2> DEFINE old == c.pools[slot]
             entry == [old EXCEPT !.live = FALSE, !.key = key]
             pools == [c.pools EXCEPT ![slot] = entry]
  <2>1. slot \in 1..Slots /\ IsSlot(old)
    BY SlotOfKey DEF IsConverter, IsCache
  <2>2. d = [clock |-> c.clock + 1, pools |-> pools, scalers |-> c.scalers,
             replaner |-> c.replaner, built |-> c.built]
    <3>1. d = [[c EXCEPT !.clock = @ + 1] EXCEPT !.pools[slot] = [@ EXCEPT !.live = FALSE, !.key = key]]
      BY <1>2 DEF PoolFailed, Tick
    <3>2. d = [[c EXCEPT !.clock = @ + 1] EXCEPT !.pools[slot] = entry]
      <4>1. [c EXCEPT !.clock = @ + 1].pools[slot] = old
        BY DEF IsConverter
      <4> QED
        BY <3>1, <4>1
    <3> HIDE DEF d, slot, entry
    <3> QED
      BY <3>2 DEF IsConverter
  <2>3. IsSlot(entry) /\ ~entry.live /\ entry.used = old.used
    <3> HIDE DEF entry, old
    <3>1. entry = [old EXCEPT !.live = FALSE, !.key = key]
      BY DEF entry
    <3> QED
      BY <2>1, <3>1 DEF IsSlot
  <2> HIDE DEF entry, slot, d
  <2>4. IsCache(pools) /\ pools[slot] = entry /\ OthersKept(slot, c.pools, pools)
    BY <2>1, <2>3 DEF IsConverter, IsCache, OthersKept
  <2> HIDE DEF pools
  <2>5. IsConverter(d)
    BY <2>2, <2>4 DEF IsConverter
  <2> QED
    BY <1>2, <2>2, <2>3, <2>4, <2>5 DEF slot, d
<1> QED
  BY <1>1, <1>2

\* scalerFor(): afterwards there is a context of the key, with the newest stamp.
LEMMA AfterScaler ==
  ASSUME NEW c, IsConverter(c), NEW key
  PROVE  LET d == Scaler(c, key)
             slot == Slot(c.scalers, key)
         IN /\ IsConverter(d) /\ d.clock = c.clock + 1 /\ d.pools = c.pools
            /\ d.replaner = c.replaner
            /\ d.built = IF Hits(c.scalers, key) = {} THEN c.built \cup {"scaler"} ELSE c.built
            /\ OthersKept(slot, c.scalers, d.scalers)
            /\ IsNewest(d.scalers[slot], key, c.clock + 1)
<1> DEFINE d == Scaler(c, key)
           slot == Slot(c.scalers, key)
           old == c.scalers[slot]
           entry == IF Hits(c.scalers, key) # {} THEN [old EXCEPT !.used = c.clock + 1]
                    ELSE [EmptySlot EXCEPT !.live = TRUE, !.key = key, !.used = c.clock + 1]
           scalers == [c.scalers EXCEPT ![slot] = entry]
           built == IF Hits(c.scalers, key) = {} THEN c.built \cup {"scaler"} ELSE c.built
<1>1. slot \in 1..Slots /\ IsSlot(old) /\ c.clock + 1 \in Nat
  <2>1. slot \in 1..Slots
    BY SlotOfKey DEF IsConverter
  <2> HIDE DEF slot
  <2> QED
    BY <2>1 DEF IsConverter, IsCache
<1>2. IsSlot(entry) /\ entry.live /\ entry.key = key /\ entry.used = c.clock + 1
  <2>1. CASE Hits(c.scalers, key) # {}
    <3>1. old.live /\ old.key = key
      BY <2>1, SlotOfKey DEF Hits, IsConverter
    <3> HIDE DEF entry, old
    <3>2. entry = [old EXCEPT !.used = c.clock + 1]
      BY <2>1 DEF entry, old
    <3> QED
      BY <1>1, <3>1, <3>2 DEF IsSlot
  <2>2. CASE Hits(c.scalers, key) = {}
    <3>1. entry = NewEntry(key, c.clock + 1)
      BY <2>2 DEF NewEntry
    <3> HIDE DEF entry
    <3> QED
      BY <1>1, <3>1, NewEntryIsSlot
  <2> QED
    BY <2>1, <2>2
<1>3. d = [clock |-> c.clock + 1, pools |-> c.pools, scalers |-> scalers,
           replaner |-> c.replaner, built |-> built]
  <2>1. d = [[c EXCEPT !.clock = @ + 1] EXCEPT !.scalers[slot] = entry, !.built = built]
    <3>1. [c EXCEPT !.clock = @ + 1].scalers[slot] = old /\ [c EXCEPT !.clock = @ + 1].built = c.built
      BY DEF IsConverter
    <3> QED
      BY <3>1 DEF Scaler, Tick
  <2> HIDE DEF d, slot, entry, built
  <2> QED
    BY <2>1 DEF IsConverter
<1> HIDE DEF entry, slot, built, d
<1>4. IsCache(scalers) /\ scalers[slot] = entry /\ OthersKept(slot, c.scalers, scalers)
  BY <1>1, <1>2 DEF IsConverter, IsCache, OthersKept
<1> HIDE DEF scalers
<1>5. IsConverter(d)
  BY <1>3, <1>4 DEF IsConverter
<1> QED
  BY <1>2, <1>3, <1>4, <1>5 DEF slot, d, built, IsNewest

\* applyColorspace(): the context of a key is told the colours, and nothing else changes.
LEMMA AfterColoured ==
  ASSUME NEW c, IsConverter(c), NEW key, NEW colours, Hits(c.scalers, key) # {}
  PROVE  LET d == Coloured(c, key, colours)
         IN /\ IsConverter(d) /\ d.clock = c.clock /\ d.pools = c.pools /\ d.built = c.built
            /\ d.replaner = c.replaner
            /\ SameStamps(c.scalers, d.scalers)
            /\ d.scalers[Slot(d.scalers, key)].colours = colours
<1> DEFINE d == Coloured(c, key, colours)
           slot == Slot(c.scalers, key)
           old == c.scalers[slot]
           entry == [old EXCEPT !.colours = colours]
           scalers == [c.scalers EXCEPT ![slot] = entry]
<1>1. slot \in 1..Slots /\ IsSlot(old) /\ slot \in Hits(c.scalers, key)
  BY SlotOfKey DEF IsConverter, IsCache
<1>2. /\ IsSlot(entry) /\ entry.key = old.key /\ entry.used = old.used /\ entry.colours = colours
      /\ entry.live <=> old.live
  <2> HIDE DEF entry, old
  <2>1. entry = [old EXCEPT !.colours = colours]
    BY DEF entry
  <2> QED
    BY <1>1, <2>1 DEF IsSlot
<1>3. d = [clock |-> c.clock, pools |-> c.pools, scalers |-> scalers,
           replaner |-> c.replaner, built |-> c.built]
  <2>1. d = [c EXCEPT !.scalers = scalers]
    BY <1>1 DEF Coloured, IsConverter, IsCache, IsSlot
  <2> HIDE DEF d, scalers
  <2> QED
    BY <2>1 DEF IsConverter
<1> HIDE DEF entry, d
<1>4. IsCache(scalers) /\ scalers[slot] = entry /\ OthersKept(slot, c.scalers, scalers)
  BY <1>1, <1>2 DEF IsConverter, IsCache, OthersKept
<1> HIDE DEF scalers, slot, old
<1>5. IsConverter(d)
  BY <1>3, <1>4 DEF IsConverter
<1>6. \A i \in 1..Slots : /\ scalers[i].live <=> c.scalers[i].live
                          /\ scalers[i].key = c.scalers[i].key
                          /\ scalers[i].used = c.scalers[i].used
  BY <1>2, <1>4 DEF old, OthersKept
<1>7. Slot(scalers, key) = slot
  <2>1. Hits(scalers, key) = Hits(c.scalers, key)
    BY <1>6 DEF Hits
  <2> QED
    BY <2>1 DEF Slot, slot
<1> QED
  BY <1>2, <1>3, <1>4, <1>5, <1>6, <1>7 DEF d, SameStamps

\* A frame is scaled: afterwards there is a context of its key, with the newest stamp.
LEMMA AfterScaled ==
  ASSUME NEW c, IsConverter(c), NEW key, NEW colours
  PROVE  LET d == Coloured(Scaler(c, key), key, colours)
             slot == Slot(c.scalers, key)
         IN /\ IsConverter(d) /\ d.clock = c.clock + 1 /\ d.pools = c.pools
            /\ d.built = IF Hits(c.scalers, key) = {} THEN c.built \cup {"scaler"} ELSE c.built
            /\ \E scalers : /\ OthersKept(slot, c.scalers, scalers) /\ SameStamps(scalers, d.scalers)
                            /\ IsNewest(scalers[slot], key, c.clock + 1)
<1> DEFINE b == Scaler(c, key)
           d == Coloured(b, key, colours)
           slot == Slot(c.scalers, key)
<1>1. slot \in 1..Slots
  BY SlotOfKey DEF IsConverter
<1>2. /\ IsConverter(b) /\ b.clock = c.clock + 1 /\ b.pools = c.pools
      /\ b.built = IF Hits(c.scalers, key) = {} THEN c.built \cup {"scaler"} ELSE c.built
  BY AfterScaler
<1>3. OthersKept(slot, c.scalers, b.scalers) /\ IsNewest(b.scalers[slot], key, c.clock + 1)
  BY AfterScaler
<1> HIDE DEF b, slot
<1>4. Hits(b.scalers, key) # {}
  BY <1>1, <1>3 DEF Hits, IsNewest
<1>5. /\ IsConverter(d) /\ d.clock = b.clock /\ d.pools = b.pools /\ d.built = b.built
      /\ SameStamps(b.scalers, d.scalers)
  BY <1>2, <1>4, AfterColoured
<1> HIDE DEF d
<1> QED
  BY <1>2, <1>3, <1>5 DEF b, d, slot

\* The context for rearranging planes is another matter.
LEMMA ScaledKeepsReplaner ==
  ASSUME NEW c, IsConverter(c), NEW key, NEW colours
  PROVE  LET d == Coloured(Scaler(c, key), key, colours)
         IN d.replaner = c.replaner /\ d.built \in {c.built, c.built \cup {"scaler"}}
<1> DEFINE b == Scaler(c, key)
           slot == Slot(c.scalers, key)
<1>1. slot \in 1..Slots
  BY SlotOfKey DEF IsConverter
<1>2. /\ IsConverter(b) /\ b.replaner = c.replaner
      /\ b.built = IF Hits(c.scalers, key) = {} THEN c.built \cup {"scaler"} ELSE c.built
  BY AfterScaler
<1>3. IsNewest(b.scalers[slot], key, c.clock + 1)
  BY AfterScaler
<1> HIDE DEF b, slot
<1>4. Hits(b.scalers, key) # {}
  BY <1>1, <1>3 DEF Hits, IsNewest
<1>5. Coloured(b, key, colours).replaner = b.replaner /\ Coloured(b, key, colours).built = b.built
  BY <1>2, <1>4, AfterColoured
<1> QED
  BY <1>2, <1>5 DEF b

\* And it is the one that was told the frame's colours.
LEMMA ScaledIsColoured ==
  ASSUME NEW c, IsConverter(c), NEW key, NEW colours
  PROVE  LET d == Coloured(Scaler(c, key), key, colours)
         IN d.scalers[Slot(d.scalers, key)].colours = colours
<1> DEFINE b == Scaler(c, key)
           slot == Slot(c.scalers, key)
<1>1. slot \in 1..Slots
  BY SlotOfKey DEF IsConverter
<1>2. IsConverter(b) /\ IsNewest(b.scalers[slot], key, c.clock + 1)
  BY AfterScaler
<1> HIDE DEF b, slot
<1>3. Hits(b.scalers, key) # {}
  BY <1>1, <1>2 DEF Hits, IsNewest
<1>4. Coloured(b, key, colours).scalers[Slot(Coloured(b, key, colours).scalers, key)].colours = colours
  BY <1>2, <1>3, AfterColoured
<1> QED
  BY <1>4 DEF b

\* replane(): nothing but its own context is another one, and what it had to build.
LEMMA AfterReplaned ==
  ASSUME NEW c, IsConverter(c), NEW key
  PROVE  /\ LET d == Replaned(c, key)
            IN /\ IsConverter(d) /\ d.clock = c.clock /\ d.pools = c.pools /\ d.scalers = c.scalers
               /\ d.replaner = key
               /\ d.built = IF c.replaner = key THEN c.built ELSE c.built \cup {"replaner"}
         /\ LET d == ReplanerLost(c)
            IN IsConverter(d) /\ d.clock = c.clock /\ d.pools = c.pools /\ d.scalers = c.scalers
<1> DEFINE built == IF c.replaner = key THEN c.built ELSE c.built \cup {"replaner"}
           none == <<>>
           clock == c.clock
           pools == c.pools
           scalers == c.scalers
<1>1. Replaned(c, key) = [clock |-> clock, pools |-> pools, scalers |-> scalers, replaner |-> key, built |-> built]
  <2>1. Replaned(c, key) = [c EXCEPT !.replaner = key, !.built = built]
    BY DEF Replaned, IsConverter
  <2> HIDE DEF built
  <2> QED
    BY <2>1 DEF IsConverter
<1>2. ReplanerLost(c) = [clock |-> clock, pools |-> pools, scalers |-> scalers, replaner |-> none, built |-> c.built]
  <2>1. ReplanerLost(c) = [c EXCEPT !.replaner = none]
    BY DEF ReplanerLost
  <2> HIDE DEF none
  <2> QED
    BY <2>1 DEF IsConverter
<1>3. clock \in Nat /\ IsCache(pools) /\ IsCache(scalers)
  BY DEF IsConverter
<1> HIDE DEF built, none, clock, pools, scalers
<1>4. IsConverter(Replaned(c, key))
  BY <1>1, <1>3 DEF IsConverter
<1>5. IsConverter(ReplanerLost(c))
  BY <1>2, <1>3 DEF IsConverter
<1> QED
  BY <1>1, <1>2, <1>4, <1>5 DEF built, clock, pools, scalers

\* A key that is found leaves every other key found, or not.
LEMMA HitKeepsHits ==
  ASSUME NEW cache, NEW slot, NEW new, NEW key, NEW used, slot \in Hits(cache, key),
         OthersKept(slot, cache, new), IsNewest(new[slot], key, used), NEW other
  PROVE  Hits(new, other) = Hits(cache, other)
BY DEF Hits, OthersKept, IsNewest

LEMMA SameStampsKeepHits ==
  ASSUME NEW cache, NEW new, SameStamps(cache, new), NEW other
  PROVE  Hits(new, other) = Hits(cache, other)
BY DEF Hits, SameStamps

-----------------------------------------------------------------------------
(* The last three of a sequence.                                           *)

LEMMA LastThree ==
  ASSUME NEW S, NEW past \in Seq(S), Len(past) <= 3, NEW x \in S
  PROVE  LET last == SubSeq(<<x>> \o past, 1, Min({3, Len(past) + 1}))
         IN /\ last \in Seq(S) /\ 1 <= Len(last) /\ Len(last) <= 3 /\ last[1] = x
            /\ Len(last) >= 2 => Len(past) >= 1 /\ last[2] = past[1]
            /\ Len(last) >= 3 => Len(past) >= 2 /\ last[3] = past[2]
<1> DEFINE n == Min({3, Len(past) + 1})
           all == <<x>> \o past
           last == SubSeq(all, 1, n)
<1>1. n \in 1..3 /\ n <= Len(past) + 1
  <2>1. {3, Len(past) + 1} \subseteq Nat /\ {3, Len(past) + 1} # {}
    OBVIOUS
  <2>2. n \in {3, Len(past) + 1} /\ n <= 3 /\ n <= Len(past) + 1
    BY <2>1, MinIsLeast
  <2> QED
    BY <2>1, <2>2
<1>2. /\ all \in Seq(S) /\ Len(all) = Len(past) + 1 /\ all[1] = x
      /\ \A i \in 1..Len(past) : all[i + 1] = past[i]
  OBVIOUS
<1> HIDE DEF n, all
<1>4. last \in Seq(S) /\ Len(last) = n /\ \A i \in 1..n : last[i] = all[i]
  <2>1. 1 \in 1..(Len(all) + 1) /\ n \in (1 - 1)..Len(all)
    BY <1>1, <1>2
  <2>2. /\ SubSeq(all, 1, n) \in Seq(S) /\ Len(SubSeq(all, 1, n)) = n - 1 + 1
        /\ \A i \in 1..(n - 1 + 1) : SubSeq(all, 1, n)[i] = all[1 + i - 1]
    BY <1>2, <2>1, SubSeqProperties
  <2>3. n - 1 + 1 = n /\ \A i \in 1..n : 1 + i - 1 = i
    BY <1>1
  <2> QED
    BY <2>2, <2>3
<1>5. Len(past) \in Nat
  OBVIOUS
<1>6. n >= 2 => Len(past) >= 1 /\ all[2] = past[1]
  BY <1>1, <1>2, <1>5
<1>7. n >= 3 => Len(past) >= 2 /\ all[3] = past[2]
  BY <1>1, <1>2, <1>5
<1> HIDE DEF last
<1>8. last \in Seq(S) /\ Len(last) = n /\ last[1] = x
  BY <1>1, <1>2, <1>4
<1>9. n >= 2 => last[2] = all[2]
  BY <1>1, <1>4
<1>10. n >= 3 => last[3] = all[3]
  BY <1>1, <1>4
<1> QED
  <2>1. /\ last \in Seq(S) /\ 1 <= Len(last) /\ Len(last) <= 3 /\ last[1] = x
        /\ Len(last) >= 2 => Len(past) >= 1 /\ last[2] = past[1]
        /\ Len(last) >= 3 => Len(past) >= 2 /\ last[3] = past[2]
    BY <1>1, <1>6, <1>7, <1>8, <1>9, <1>10
  <2> QED
    BY <2>1, Zenon DEF last, all, n

-----------------------------------------------------------------------------
(* Sizes of pictures.                                                      *)

\* A fraction rounds to the whole number it lies half a unit from, at most.
LEMMA NearestRounds ==
  ASSUME NEW p \in Int, NEW q \in Nat \ {0}
  PROVE  /\ Nearest(p, q) \in Int
         /\ 2 * q * Nearest(p, q) <= 2 * p + q /\ 2 * p + q < 2 * q * Nearest(p, q) + 2 * q
<1> DEFINE n == 2 * p + q
           d == 2 * q
           r == n \div d
<1>1. n \in Int /\ d \in Nat \ {0}
  OBVIOUS
<1> HIDE DEF n, d
<1>2. r \in Int /\ d * r <= n /\ n < d * r + d
  BY <1>1
<1>3. r = Nearest(p, q)
  BY DEF n, d, Nearest
<1> HIDE DEF r
<1> QED
  BY <1>2, <1>3 DEF n, d

\* Rounding a fraction that lies below a whole number stays there.
LEMMA NearestBelow ==
  ASSUME NEW p \in Int, NEW q \in Nat \ {0}, NEW m \in Int, p <= q * m
  PROVE  Nearest(p, q) <= m
<1> DEFINE n == Nearest(p, q)
<1>1. n \in Int /\ 2 * q * n <= 2 * p + q
  BY NearestRounds
<1> HIDE DEF n
<1>2. ASSUME n >= m + 1 PROVE FALSE
  <2>1. q * n >= q * (m + 1)
    BY <1>1, <1>2
  <2>2. q * n >= q * m + q
    BY <2>1, <1>1
  <2> QED
    BY <1>1, <2>2
<1> QED
  BY <1>1, <1>2 DEF n

\* And a whole number is not rounded.
LEMMA NearestExact ==
  ASSUME NEW q \in Nat \ {0}, NEW m \in Int
  PROVE  Nearest(q * m, q) = m
<1> DEFINE n == Nearest(q * m, q)
<1>1. n \in Int /\ 2 * (q * m) + q < 2 * q * n + 2 * q
  BY NearestRounds
<1>2. n <= m
  BY NearestBelow
<1> HIDE DEF n
<1>3. ASSUME n <= m - 1 PROVE FALSE
  <2>1. q * n <= q * (m - 1)
    BY <1>1, <1>3
  <2> QED
    BY <1>1, <2>1
<1> QED
  BY <1>1, <1>2, <1>3 DEF n

\* detail/Converter.h: a picture with pixels is displayed with some.
LEMMA DisplayHasPixels ==
  ASSUME NEW f, f.width \in Nat \ {0}, f.height \in Nat \ {0},
         NEW sar, sar.num \in Int, sar.den \in Int, NEW squares, NEW rotation
  PROVE  LET size == DisplaySize(f, sar, squares, rotation)
         IN size = Size(size.width, size.height) /\ size.width \in Nat \ {0} /\ size.height \in Nat \ {0}
<1> DEFINE width == IF squares /\ IsRatio(sar) /\ sar.num # sar.den
                    THEN AtLeast(1, Nearest(f.width * sar.num, sar.den)) ELSE f.width
<1>1. width \in Nat \ {0}
  <2>1. ASSUME IsRatio(sar) PROVE AtLeast(1, Nearest(f.width * sar.num, sar.den)) \in Nat \ {0}
    <3>1. f.width * sar.num \in Int /\ sar.den \in Nat \ {0}
      BY <2>1 DEF IsRatio
    <3>2. Nearest(f.width * sar.num, sar.den) \in Int
      BY <3>1, NearestRounds
    <3> QED
      BY <3>2 DEF AtLeast
  <2> QED
    BY <2>1
<1>2. DisplaySize(f, sar, squares, rotation) =
        IF rotation \in {90, 270} THEN Size(f.height, width) ELSE Size(width, f.height)
  BY DEF DisplaySize, Size, Transposed
<1> HIDE DEF width
<1> QED
  BY <1>1, <1>2 DEF Size

\* The side of a box that counts, and what is left of a side inside it.
Inside(side, bound) == IF bound > 0 /\ bound < side THEN bound ELSE side

\* The scale is no larger than 1 nor than either side of the box asks for, and it is
\* one of the three.
LEMMA ScaleIsLeast ==
  ASSUME NEW display, display.width \in Nat \ {0}, display.height \in Nat \ {0},
         NEW box, box.width \in Nat, box.height \in Nat
  PROVE  LET s == Scale(display, box)
         IN /\ s[1] \in Nat \ {0} /\ s[2] \in Nat \ {0} /\ s = <<s[1], s[2]>>
            /\ s[1] <= s[2]
            /\ box.width > 0 => s[1] * display.width <= box.width * s[2]
            /\ box.height > 0 => s[1] * display.height <= box.height * s[2]
            /\ \/ s = <<1, 1>>
               \/ box.width > 0 /\ s = <<box.width, display.width>>
               \/ box.height > 0 /\ s = <<box.height, display.height>>
<1> DEFINE w == <<box.width, display.width>>
           h == <<box.height, display.height>>
           ws == IF box.width > 0 THEN {w} ELSE {}
           hs == IF box.height > 0 THEN {h} ELSE {}
           scales == {<<1, 1>>} \cup ws \cup hs
           Least(s) == s \in scales /\ \A t \in scales : s[1] * t[2] <= t[1] * s[2]
<1>1. Scale(display, box) = CHOOSE s \in scales : \A t \in scales : s[1] * t[2] <= t[1] * s[2]
  <2>1. {<<box.width, display.width>> : i \in IF box.width > 0 THEN {1} ELSE {}} = ws
    OBVIOUS
  <2>2. {<<box.height, display.height>> : i \in IF box.height > 0 THEN {1} ELSE {}} = hs
    OBVIOUS
  <2> QED
    BY <2>1, <2>2 DEF Scale
<1>2. \E s : Least(s)
  <2>1. CASE box.width > 0 /\ box.height > 0
    <3>1. scales = {<<1, 1>>, w, h}
      BY <2>1
    <3>2. box.width * display.height \in Int /\ box.height * display.width \in Int
      OBVIOUS
    <3>3. CASE box.width * display.height <= box.height * display.width
      <4>1. CASE box.width <= display.width
        <5>1. Least(w)
          BY <3>1, <3>2, <3>3, <4>1
        <5> QED
          BY <5>1
      <4>2. CASE box.width > display.width
        <5>1. box.height >= display.height
          <6>1. SUFFICES ASSUME box.height < display.height PROVE FALSE
            OBVIOUS
          <6>2. box.height * display.width < display.height * display.width
            BY <6>1
          <6>3. display.height * display.width <= display.height * box.width
            BY <4>2
          <6> QED
            BY <3>2, <3>3, <6>2, <6>3
        <5>2. Least(<<1, 1>>)
          BY <3>1, <4>2, <5>1
        <5> QED
          BY <5>2
      <4> QED
        BY <4>1, <4>2
    <3>4. CASE box.width * display.height > box.height * display.width
      <4>1. CASE box.height <= display.height
        <5>1. Least(h)
          BY <3>1, <3>2, <3>4, <4>1
        <5> QED
          BY <5>1
      <4>2. CASE box.height > display.height
        <5>1. box.width >= display.width
          <6>1. SUFFICES ASSUME box.width < display.width PROVE FALSE
            OBVIOUS
          <6>2. box.width * display.height < display.width * display.height
            BY <6>1
          <6>3. display.width * display.height <= display.width * box.height
            BY <4>2
          <6> QED
            BY <3>2, <3>4, <6>2, <6>3
        <5>2. Least(<<1, 1>>)
          BY <3>1, <4>2, <5>1
        <5> QED
          BY <5>2
      <4> QED
        BY <4>1, <4>2
    <3> QED
      BY <3>2, <3>3, <3>4
  <2>2. CASE box.width > 0 /\ box.height = 0
    <3>1. scales = {<<1, 1>>, w}
      BY <2>2
    <3>2. IF box.width <= display.width THEN Least(w) ELSE Least(<<1, 1>>)
      BY <3>1, <2>2
    <3> QED
      BY <3>2
  <2>3. CASE box.width = 0 /\ box.height > 0
    <3>1. scales = {<<1, 1>>, h}
      BY <2>3
    <3>2. IF box.height <= display.height THEN Least(h) ELSE Least(<<1, 1>>)
      BY <3>1, <2>3
    <3> QED
      BY <3>2
  <2>4. CASE box.width = 0 /\ box.height = 0
    <3>1. Least(<<1, 1>>)
      BY <2>4
    <3> QED
      BY <3>1
  <2> QED
    BY <2>1, <2>2, <2>3, <2>4
<1>3. Least(Scale(display, box))
  <2> DEFINE chosen == CHOOSE s : Least(s)
  <2>1. Scale(display, box) = CHOOSE s : Least(s)
    BY <1>1
  <2> HIDE DEF Least
  <2> QED
    BY <1>2, <2>1
<1> DEFINE s == Scale(display, box)
<1>4. s \in scales /\ \A t \in scales : s[1] * t[2] <= t[1] * s[2]
  BY <1>3
<1> HIDE DEF s
<1>5. \/ s = <<1, 1>>
      \/ box.width > 0 /\ s = <<box.width, display.width>>
      \/ box.height > 0 /\ s = <<box.height, display.height>>
  BY <1>4
<1>6. s[1] \in Nat \ {0} /\ s[2] \in Nat \ {0} /\ s = <<s[1], s[2]>>
  BY <1>5
<1>7. s[1] * 1 <= 1 * s[2]
  <2>1. <<1, 1>> \in scales
    OBVIOUS
  <2> HIDE DEF scales
  <2>2. s[1] * (<<1, 1>>)[2] <= (<<1, 1>>)[1] * s[2]
    BY <1>4, <2>1
  <2> QED
    BY <2>2
<1>8. box.width > 0 => s[1] * display.width <= box.width * s[2]
  <2>1. box.width > 0 => w \in scales
    OBVIOUS
  <2> HIDE DEF scales
  <2> QED
    BY <1>4, <2>1
<1>9. box.height > 0 => s[1] * display.height <= box.height * s[2]
  <2>1. box.height > 0 => h \in scales
    OBVIOUS
  <2> HIDE DEF scales
  <2> QED
    BY <1>4, <2>1
<1> QED
  BY <1>5, <1>6, <1>7, <1>8, <1>9 DEF s

\* The sides of a picture that is scaled down: none is longer than its own and its
\* box's allow, and one is as long.
LEMMA ScaledSides ==
  ASSUME NEW display, display.width \in Nat \ {0}, display.height \in Nat \ {0},
         NEW box, box.width \in Nat, box.height \in Nat
  PROVE  LET s == Scale(display, box)
             width == AtLeast(1, Nearest(display.width * s[1], s[2]))
             height == AtLeast(1, Nearest(display.height * s[1], s[2]))
         IN /\ width \in Nat \ {0} /\ width <= Inside(display.width, box.width)
            /\ height \in Nat \ {0} /\ height <= Inside(display.height, box.height)
            /\ width = Inside(display.width, box.width) \/ height = Inside(display.height, box.height)
<1> DEFINE s == Scale(display, box)
<1>1. /\ s[1] \in Nat \ {0} /\ s[2] \in Nat \ {0} /\ s[1] <= s[2]
      /\ box.width > 0 => s[1] * display.width <= box.width * s[2]
      /\ box.height > 0 => s[1] * display.height <= box.height * s[2]
      /\ \/ s[1] = 1 /\ s[2] = 1
         \/ box.width > 0 /\ s[1] = box.width /\ s[2] = display.width
         \/ box.height > 0 /\ s[1] = box.height /\ s[2] = display.height
  BY ScaleIsLeast
<1> HIDE DEF s
<1>2. ASSUME NEW side \in Nat \ {0}, NEW bound \in Nat, bound > 0 => s[1] * side <= bound * s[2]
      PROVE  LET n == AtLeast(1, Nearest(side * s[1], s[2]))
             IN /\ n \in Nat \ {0} /\ n <= Inside(side, bound)
                /\ s[1] = 1 /\ s[2] = 1 => n = Inside(side, bound)
                /\ bound > 0 /\ s[1] = bound /\ s[2] = side => n = Inside(side, bound)
  <2>1. Nearest(side * s[1], s[2]) \in Int
    <3>1. side * s[1] \in Int
      BY <1>1, <1>2
    <3> QED
      BY <1>1, <3>1, NearestRounds
  <2>2. Inside(side, bound) \in Nat \ {0}
    BY <1>2 DEF Inside
  <2>3. side * s[1] <= s[2] * Inside(side, bound)
    <3>1. side * s[1] <= s[2] * side
      BY <1>1, <1>2
    <3>2. bound > 0 => side * s[1] <= s[2] * bound
      BY <1>1, <1>2
    <3> QED
      BY <3>1, <3>2 DEF Inside
  <2>4. Nearest(side * s[1], s[2]) <= Inside(side, bound)
    BY <1>1, <2>2, <2>3, NearestBelow
  <2>5. ASSUME s[1] = 1, s[2] = 1 PROVE Nearest(side * s[1], s[2]) = side /\ Inside(side, bound) = side
    <3>1. Nearest(1 * side, 1) = side
      BY NearestExact
    <3>2. side * 1 = 1 * side
      BY <1>2
    <3>3. Nearest(side * 1, 1) = side
      BY <3>1, <3>2
    <3>4. bound > 0 => side <= bound
      BY <1>2, <2>5
    <3> QED
      BY <2>5, <3>3, <3>4, <1>2 DEF Inside
  <2>6. ASSUME bound > 0, s[1] = bound, s[2] = side
        PROVE  Nearest(side * s[1], s[2]) = bound /\ Inside(side, bound) = bound
    <3>1. Nearest(side * bound, side) = bound
      BY <1>2, NearestExact
    <3> QED
      BY <1>1, <1>2, <2>6, <3>1 DEF Inside
  <2> QED
    BY <2>1, <2>2, <2>4, <2>5, <2>6 DEF AtLeast
<1>3. LET n == AtLeast(1, Nearest(display.width * s[1], s[2]))
      IN /\ n \in Nat \ {0} /\ n <= Inside(display.width, box.width)
         /\ s[1] = 1 /\ s[2] = 1 => n = Inside(display.width, box.width)
         /\ box.width > 0 /\ s[1] = box.width /\ s[2] = display.width => n = Inside(display.width, box.width)
  BY <1>1, <1>2
<1>4. LET n == AtLeast(1, Nearest(display.height * s[1], s[2]))
      IN /\ n \in Nat \ {0} /\ n <= Inside(display.height, box.height)
         /\ s[1] = 1 /\ s[2] = 1 => n = Inside(display.height, box.height)
         /\ box.height > 0 /\ s[1] = box.height /\ s[2] = display.height => n = Inside(display.height, box.height)
  BY <1>1, <1>2
<1> QED
  BY <1>1, <1>3, <1>4 DEF s

\* detail/Converter.h, fitWithin(): a picture is in its box and never scaled up, as
\* large as that allows, and of whole chroma cells.
THEOREM PicturesFitTheirBox ==
  ASSUME NEW display, display.width \in Nat \ {0}, display.height \in Nat \ {0},
         NEW box, box # NoBox => box.width \in Int /\ box.height \in Int,
         NEW subsampled \in BOOLEAN, IsBox(box, subsampled)
  PROVE  LET size == FitWithin(display, box, subsampled)
             least == IF subsampled THEN 2 ELSE 1
             width == Inside(display.width, IF box = NoBox THEN 0 ELSE box.width)
             height == Inside(display.height, IF box = NoBox THEN 0 ELSE box.height)
         IN /\ size = Size(size.width, size.height) /\ size.width \in Nat \ {0} /\ size.height \in Nat \ {0}
            /\ size.width <= AtLeast(least, width) /\ size.height <= AtLeast(least, height)
            /\ size.width > width - least \/ size.height > height - least
            /\ subsampled => size.width % 2 = 0 /\ size.height % 2 = 0
<1> DEFINE whole(n) == IF subsampled THEN AtLeast(2, Even(n)) ELSE n
           least == IF subsampled THEN 2 ELSE 1
           width == Inside(display.width, IF box = NoBox THEN 0 ELSE box.width)
           height == Inside(display.height, IF box = NoBox THEN 0 ELSE box.height)
<1>1. PICK w \in Nat \ {0}, h \in Nat \ {0} :
        /\ FitWithin(display, box, subsampled) = Size(whole(w), whole(h))
        /\ w <= width /\ h <= height /\ (w = width \/ h = height)
  <2>1. CASE box = NoBox
    <3>1. Nearest(1 * display.width, 1) = display.width /\ Nearest(1 * display.height, 1) = display.height
      BY NearestExact
    <3>2. AtLeast(1, Nearest(display.width * (<<1, 1>>)[1], (<<1, 1>>)[2])) = display.width
      BY <3>1 DEF AtLeast
    <3>3. AtLeast(1, Nearest(display.height * (<<1, 1>>)[1], (<<1, 1>>)[2])) = display.height
      BY <3>1 DEF AtLeast
    <3>4. FitWithin(display, box, subsampled) = Size(whole(display.width), whole(display.height))
      BY <2>1, <3>2, <3>3 DEF FitWithin
    <3>5. width = display.width /\ height = display.height
      BY <2>1 DEF Inside
    <3> QED
      BY <3>4, <3>5
  <2>2. CASE box # NoBox
    <3> DEFINE s == Scale(display, box)
               w == AtLeast(1, Nearest(display.width * s[1], s[2]))
               h == AtLeast(1, Nearest(display.height * s[1], s[2]))
    <3>1. box.width \in Nat /\ box.height \in Nat
      BY <2>2 DEF IsBox
    <3>2. /\ w \in Nat \ {0} /\ h \in Nat \ {0}
          /\ w <= Inside(display.width, box.width) /\ h <= Inside(display.height, box.height)
          /\ w = Inside(display.width, box.width) \/ h = Inside(display.height, box.height)
      BY <3>1, ScaledSides
    <3>3. FitWithin(display, box, subsampled) = Size(whole(w), whole(h))
      BY <2>2 DEF FitWithin
    <3>4. width = Inside(display.width, box.width) /\ height = Inside(display.height, box.height)
      BY <2>2
    <3> HIDE DEF w, h
    <3> QED
      BY <3>2, <3>3, <3>4
  <2> QED
    BY <2>1, <2>2
<1>2. width \in Int /\ height \in Int
  BY DEF Inside, IsBox
<1>3. ASSUME NEW n \in Nat \ {0}, NEW limit \in Int, n <= limit
      PROVE  /\ whole(n) \in Nat \ {0} /\ whole(n) <= AtLeast(least, limit)
             /\ n = limit => whole(n) > limit - least
             /\ subsampled => whole(n) % 2 = 0
  BY <1>3 DEF AtLeast, Even
<1> HIDE DEF whole, width, height, least
<1>4. LET size == FitWithin(display, box, subsampled)
      IN size = Size(whole(w), whole(h)) /\ size.width = whole(w) /\ size.height = whole(h)
  BY <1>1 DEF Size
<1>5. /\ whole(w) \in Nat \ {0} /\ whole(w) <= AtLeast(least, width)
      /\ w = width => whole(w) > width - least
      /\ subsampled => whole(w) % 2 = 0
  BY <1>1, <1>2, <1>3
<1>6. /\ whole(h) \in Nat \ {0} /\ whole(h) <= AtLeast(least, height)
      /\ h = height => whole(h) > height - least
      /\ subsampled => whole(h) % 2 = 0
  BY <1>1, <1>2, <1>3
<1>7. w = width \/ h = height
  BY <1>1
<1> QED
  BY <1>4, <1>5, <1>6, <1>7 DEF width, height, least

=============================================================================
