------------------------ MODULE TypedCounter_proofs ------------------------
(***************************************************************************)
(* What the values of the built-in counter types say, for every set of     *)
(* items, width of an integer, buffer size and division into batches.      *)
(***************************************************************************)
EXTENDS TypedCounter, MdcsCounter_proofs, Induction, FiniteSetTheorems

-----------------------------------------------------------------------------
(* Rational numbers *)

(* Denominators. *)
Positive == Nat \ {0}

(* A positive factor can be divided out of an equation. *)
LEMMA Cancel ==
  ASSUME NEW a \in Int, NEW b \in Int, NEW c \in Positive, a * c = b * c
  PROVE  a = b
<1>1. (a - b) * c = 0 /\ c \in Int
  BY DEF Positive
<1> QED
  BY <1>1 DEF Positive

(* q is a denominator of n / d if some p / q is n / d. *)
LEMMA Denominates ==
  ASSUME NEW n \in Int, NEW d \in Positive, NEW q \in Nat
  PROVE  IsDenominator(q, n, d) <=> \E p \in Int : p * d = n * q
<1> DEFINE m == n * q
<1>1. m \in Int /\ d \in Int /\ d > 0
  BY DEF Positive
<1> HIDE DEF m
<1>2. m = (m \div d) * d + (m % d) /\ m \div d \in Int /\ m % d \in 0..(d - 1)
  BY <1>1
<1>3. ASSUME m % d = 0 PROVE \E p \in Int : p * d = m
  <2>1. (m \div d) * d \in Int
    BY <1>1, <1>2
  <2>2. (m \div d) * d = m
    BY <1>1, <1>2, <1>3, <2>1
  <2> QED
    BY <1>2, <2>2
<1>4. ASSUME NEW p \in Int, p * d = m PROVE m % d = 0
  <2>1. (p - (m \div d)) * d = m % d
    BY <1>1, <1>2, <1>4
  <2>2. p - (m \div d) \in Int
    BY <1>2
  <2>3. ASSUME p - (m \div d) >= 1 PROVE FALSE
    BY <1>1, <1>2, <2>1, <2>2, <2>3
  <2>4. ASSUME p - (m \div d) <= -1 PROVE FALSE
    BY <1>1, <1>2, <2>1, <2>2, <2>4
  <2> QED
    BY <1>1, <1>2, <2>1, <2>2, <2>3, <2>4
<1> QED
  BY <1>3, <1>4 DEF m, IsDenominator

(* Ratio(n, d) is a fraction equal to n / d, with the least denominator. *)
LEMMA RatioForm ==
  ASSUME NEW n \in Int, NEW d \in Positive
  PROVE  \E p \in Int, q \in 1..d :
           /\ Ratio(n, d) = << p, q >>
           /\ p * d = n * q
           /\ \A r \in 1..(q - 1) : ~IsDenominator(r, n, d)
<1> DEFINE T == {q \in 1..d : IsDenominator(q, n, d)}
<1> DEFINE IsLeast(q) == IsDenominator(q, n, d) /\ \A r \in 1..(q - 1) : ~IsDenominator(r, n, d)
<1> DEFINE least == CHOOSE q \in 1..d : IsLeast(q)
<1>1. \E q \in 1..d : IsLeast(q)
  <2>1. d \in T
    <3>1. IsDenominator(d, n, d)
      BY Denominates DEF Positive
    <3> QED
      BY <3>1 DEF Positive
  <2>2. PICK q \in T : \A r \in T : q <= r
    <3>1. T \subseteq Nat
      BY DEF Positive
    <3> HIDE DEF T
    <3> QED
      BY <2>1, <3>1, LeastElement
  <2>3. \A r \in 1..(q - 1) : r \notin T /\ r \in 1..d
    BY <2>2 DEF Positive
  <2> QED
    BY <2>2, <2>3
<1>2. least \in 1..d /\ IsLeast(least)
  BY <1>1
<1>3. Ratio(n, d) = << (n * least) \div d, least >>
  BY DEF Ratio
<1> HIDE DEF IsLeast, least
<1>4. least \in Nat
  BY <1>2
<1>5. PICK p \in Int : p * d = n * least
  BY <1>2, <1>4, Denominates DEF IsLeast
<1>6. (n * least) \div d = p
  <2>1. n * least \in Int /\ d \in Int /\ d > 0
    BY <1>4 DEF Positive
  <2> DEFINE m == n * least
  <2> HIDE DEF m
  <2>2. m \in Int /\ p * d = m /\ m % d = 0
    BY <1>2, <1>5, <2>1 DEF m, IsLeast, IsDenominator
  <2>3. m = (m \div d) * d + (m % d) /\ m \div d \in Int
    BY <2>1, <2>2
  <2>4. (m \div d) * d = p * d
    <3>1. (m \div d) * d \in Int
      BY <2>1, <2>3
    <3> QED
      BY <2>2, <2>3, <3>1
  <2> QED
    BY <2>3, <2>4, Cancel DEF m
<1> QED
  BY <1>2, <1>3, <1>5, <1>6 DEF IsLeast

(* Equal fractions are the same ratio. *)
LEMMA RatioEqual ==
  ASSUME NEW n \in Int, NEW d \in Positive, NEW m \in Int, NEW e \in Positive,
         n * e = m * d
  PROVE  Ratio(n, d) = Ratio(m, e)
<1>1. PICK p \in Int, q \in 1..d :
        /\ Ratio(n, d) = << p, q >>
        /\ p * d = n * q
        /\ \A r \in 1..(q - 1) : ~IsDenominator(r, n, d)
  BY RatioForm
<1>2. PICK s \in Int, t \in 1..e :
        /\ Ratio(m, e) = << s, t >>
        /\ s * e = m * t
        /\ \A r \in 1..(t - 1) : ~IsDenominator(r, m, e)
  BY RatioForm
<1>3. d \in Int /\ e \in Int /\ q \in Positive /\ t \in Positive /\ q \in Int /\ t \in Int
  BY DEF Positive
<1>4. ASSUME NEW k \in Int, NEW x \in Int, k * d = n * x PROVE k * e = m * x
  <2>1. (k * e) * d = (k * d) * e
    BY <1>3
  <2>2. (n * x) * e = (n * e) * x
    BY <1>3
  <2>3. (m * d) * x = (m * x) * d
    BY <1>3
  <2>4. (k * e) * d = (m * x) * d
    BY <1>4, <2>1, <2>2, <2>3
  <2> QED
    BY <1>3, <2>4, Cancel
<1>5. ASSUME NEW k \in Int, NEW x \in Int, k * e = m * x PROVE k * d = n * x
  <2>1. (k * d) * e = (k * e) * d
    BY <1>3
  <2>2. (m * x) * d = (m * d) * x
    BY <1>3
  <2>3. (n * e) * x = (n * x) * e
    BY <1>3
  <2>4. (k * d) * e = (n * x) * e
    BY <1>5, <2>1, <2>2, <2>3
  <2> QED
    BY <1>3, <2>4, Cancel
<1>6. IsDenominator(q, m, e) /\ IsDenominator(t, n, d)
  <2>1. p * e = m * q /\ s * d = n * t
    BY <1>1, <1>2, <1>3, <1>4, <1>5
  <2> QED
    BY <1>3, <2>1, Denominates DEF Positive
<1>7. q = t
  <2>1. ~(q < t)
    BY <1>2, <1>3, <1>6 DEF Positive
  <2>2. ~(t < q)
    BY <1>1, <1>3, <1>6 DEF Positive
  <2> QED
    BY <1>3, <2>1, <2>2
<1>8. p = s
  <2>1. p * e = m * q
    BY <1>1, <1>3, <1>4
  <2>2. p * e = s * e
    BY <1>2, <1>7, <2>1
  <2> QED
    BY <2>2, Cancel
<1> QED
  BY <1>1, <1>2, <1>7, <1>8

(* The values of the double fields. *)
Rationals == {Ratio(n, d) : n \in Int, d \in Positive}

(* Products of denominators are denominators. *)
LEMMA PositiveTimes == \A b, d \in Positive : b * d \in Positive
<1> SUFFICES ASSUME NEW b \in Positive, NEW d \in Positive PROVE b * d \in Positive
  OBVIOUS
<1>1. b \in Nat /\ d \in Nat /\ b # 0 /\ d # 0
  BY DEF Positive
<1>2. b * d \in Nat
  BY <1>1
<1>3. b * d # 0
  <2>1. b >= 1 /\ d >= 1
    BY <1>1
  <2> QED
    BY <1>1, <2>1
<1> QED
  BY <1>2, <1>3 DEF Positive

(* A whole number is itself over one. *)
LEMMA WholeRatio == \A n \in Int : Whole(n) = Ratio(n, 1)
<1> SUFFICES ASSUME NEW n \in Int PROVE << n, 1 >> = Ratio(n, 1)
  BY DEF Whole
<1>1. PICK p \in Int, q \in 1..1 : Ratio(n, 1) = << p, q >> /\ p * 1 = n * q
  <2>1. 1 \in Positive
    BY DEF Positive
  <2> QED
    BY <2>1, RatioForm
<1>2. q = 1 /\ p = n
  BY <1>1
<1> QED
  BY <1>1, <1>2

(* Sums are those of the fractions. *)
LEMMA PlusRatio ==
  ASSUME NEW a \in Int, NEW b \in Positive, NEW c \in Int, NEW d \in Positive
  PROVE  Plus(Ratio(a, b), Ratio(c, d)) = Ratio(a * d + c * b, b * d)
<1>1. PICK p \in Int, q \in 1..b : Ratio(a, b) = << p, q >> /\ p * b = a * q
  BY RatioForm
<1>2. PICK r \in Int, s \in 1..d : Ratio(c, d) = << r, s >> /\ r * d = c * s
  BY RatioForm
<1>3. /\ b \in Int /\ d \in Int /\ q \in Int /\ s \in Int
      /\ q \in Positive /\ s \in Positive
  BY DEF Positive
<1>4. Plus(Ratio(a, b), Ratio(c, d)) = Ratio(p * s + r * q, q * s)
  BY <1>1, <1>2 DEF Plus
<1>5. (p * s + r * q) * (b * d) = (a * d + c * b) * (q * s)
  <2>1. (p * s) * (b * d) = (p * b) * (s * d) /\ (a * d) * (q * s) = (a * q) * (s * d)
    BY <1>3
  <2>2. (r * q) * (b * d) = (r * d) * (q * b) /\ (c * b) * (q * s) = (c * s) * (q * b)
    BY <1>3
  <2>3. (p * s) * (b * d) = (a * d) * (q * s) /\ (r * q) * (b * d) = (c * b) * (q * s)
    BY <1>1, <1>2, <2>1, <2>2
  <2> DEFINE u == p * s
  <2> DEFINE v == r * q
  <2> DEFINE w == b * d
  <2> DEFINE x == a * d
  <2> DEFINE y == c * b
  <2> DEFINE z == q * s
  <2>4. /\ u \in Int /\ v \in Int /\ w \in Int /\ x \in Int /\ y \in Int /\ z \in Int
        /\ u * w = x * z /\ v * w = y * z
    BY <1>3, <2>3
  <2> HIDE DEF u, v, w, x, y, z
  <2>5. (u + v) * w = u * w + v * w /\ (x + y) * z = x * z + y * z
    BY <2>4
  <2>6. (u + v) * w = (x + y) * z
    BY <2>4, <2>5
  <2> QED
    BY <2>6 DEF u, v, w, x, y, z
<1>6. /\ p * s + r * q \in Int /\ a * d + c * b \in Int
      /\ q * s \in Positive /\ b * d \in Positive
  BY <1>3, PositiveTimes
<1> QED
  BY <1>4, <1>5, <1>6, RatioEqual

(* So are differences ... *)
LEMMA MinusRatio ==
  ASSUME NEW a \in Int, NEW b \in Positive, NEW c \in Int, NEW d \in Positive
  PROVE  Minus(Ratio(a, b), Ratio(c, d)) = Ratio(a * d - c * b, b * d)
<1>1. PICK p \in Int, q \in 1..b : Ratio(a, b) = << p, q >> /\ p * b = a * q
  BY RatioForm
<1>2. PICK r \in Int, s \in 1..d : Ratio(c, d) = << r, s >> /\ r * d = c * s
  BY RatioForm
<1>3. /\ b \in Int /\ d \in Int /\ q \in Int /\ s \in Int
      /\ q \in Positive /\ s \in Positive
  BY DEF Positive
<1>4. Minus(Ratio(a, b), Ratio(c, d)) = Ratio(p * s - r * q, q * s)
  BY <1>1, <1>2 DEF Minus
<1>5. (p * s - r * q) * (b * d) = (a * d - c * b) * (q * s)
  <2>1. (p * s) * (b * d) = (p * b) * (s * d) /\ (a * d) * (q * s) = (a * q) * (s * d)
    BY <1>3
  <2>2. (r * q) * (b * d) = (r * d) * (q * b) /\ (c * b) * (q * s) = (c * s) * (q * b)
    BY <1>3
  <2>3. (p * s) * (b * d) = (a * d) * (q * s) /\ (r * q) * (b * d) = (c * b) * (q * s)
    BY <1>1, <1>2, <2>1, <2>2
  <2> DEFINE u == p * s
  <2> DEFINE v == r * q
  <2> DEFINE w == b * d
  <2> DEFINE x == a * d
  <2> DEFINE y == c * b
  <2> DEFINE z == q * s
  <2>4. /\ u \in Int /\ v \in Int /\ w \in Int /\ x \in Int /\ y \in Int /\ z \in Int
        /\ u * w = x * z /\ v * w = y * z
    BY <1>3, <2>3
  <2> HIDE DEF u, v, w, x, y, z
  <2>5. (u - v) * w = u * w - v * w /\ (x - y) * z = x * z - y * z
    BY <2>4
  <2>6. (u - v) * w = (x - y) * z
    BY <2>4, <2>5
  <2> QED
    BY <2>6 DEF u, v, w, x, y, z
<1>6. /\ p * s - r * q \in Int /\ a * d - c * b \in Int
      /\ q * s \in Positive /\ b * d \in Positive
  BY <1>3, PositiveTimes
<1> QED
  BY <1>4, <1>5, <1>6, RatioEqual

(* ... and products. *)
LEMMA TimesRatio ==
  ASSUME NEW a \in Int, NEW b \in Positive, NEW c \in Int, NEW d \in Positive
  PROVE  Times(Ratio(a, b), Ratio(c, d)) = Ratio(a * c, b * d)
<1>1. PICK p \in Int, q \in 1..b : Ratio(a, b) = << p, q >> /\ p * b = a * q
  BY RatioForm
<1>2. PICK r \in Int, s \in 1..d : Ratio(c, d) = << r, s >> /\ r * d = c * s
  BY RatioForm
<1>3. /\ b \in Int /\ d \in Int /\ q \in Int /\ s \in Int
      /\ q \in Positive /\ s \in Positive
  BY DEF Positive
<1>4. Times(Ratio(a, b), Ratio(c, d)) = Ratio(p * r, q * s)
  BY <1>1, <1>2 DEF Times
<1>5. (p * r) * (b * d) = (a * c) * (q * s)
  <2>1. (p * r) * (b * d) = (p * b) * (r * d) /\ (a * c) * (q * s) = (a * q) * (c * s)
    BY <1>3
  <2> QED
    BY <1>1, <1>2, <2>1
<1>6. /\ p * r \in Int /\ a * c \in Int
      /\ q * s \in Positive /\ b * d \in Positive
  BY <1>3, PositiveTimes
<1> QED
  BY <1>4, <1>5, <1>6, RatioEqual

(* Arithmetic stays within the rationals. *)
LEMMA RationalsClosed ==
  ASSUME NEW A \in Rationals, NEW B \in Rationals
  PROVE  Plus(A, B) \in Rationals /\ Minus(A, B) \in Rationals /\ Times(A, B) \in Rationals
<1>1. PICK a \in Int, b \in Positive : A = Ratio(a, b)
  BY DEF Rationals
<1>2. PICK c \in Int, d \in Positive : B = Ratio(c, d)
  BY DEF Rationals
<1>3. b * d \in Positive /\ b \in Int /\ d \in Int
  BY PositiveTimes DEF Positive
<1>4. a * d + c * b \in Int /\ a * d - c * b \in Int /\ a * c \in Int
  BY <1>3
<1> QED
  BY <1>1, <1>2, <1>3, <1>4, PlusRatio, MinusRatio, TimesRatio DEF Rationals

(* What is subtracted can be added again. *)
LEMMA MinusPlus ==
  ASSUME NEW A \in Rationals, NEW B \in Rationals
  PROVE  Plus(Minus(A, B), B) = A
<1>1. PICK a \in Int, b \in Positive : A = Ratio(a, b)
  BY DEF Rationals
<1>2. PICK c \in Int, d \in Positive : B = Ratio(c, d)
  BY DEF Rationals
<1>3. b * d \in Positive /\ b \in Int /\ d \in Int /\ b * d \in Int
  BY PositiveTimes DEF Positive
<1>4. a * d - c * b \in Int
  BY <1>3
<1>5. Plus(Minus(A, B), B) = Ratio((a * d - c * b) * d + c * (b * d), (b * d) * d)
  <2>1. Minus(A, B) = Ratio(a * d - c * b, b * d)
    BY <1>1, <1>2, MinusRatio
  <2> DEFINE m == a * d - c * b
  <2> DEFINE e == b * d
  <2>2. m \in Int /\ e \in Positive /\ Minus(A, B) = Ratio(m, e)
    BY <1>3, <1>4, <2>1
  <2> HIDE DEF m, e
  <2>3. Plus(Minus(A, B), B) = Ratio(m * d + c * e, e * d)
    BY <1>2, <2>2, PlusRatio
  <2> QED
    BY <2>3 DEF m, e
<1>6. (a * d - c * b) * d + c * (b * d) = (a * d) * d
  <2>1. (a * d - c * b) * d = (a * d) * d - (c * b) * d
    BY <1>3
  <2>2. c * (b * d) = (c * b) * d
    BY <1>3
  <2>3. (a * d) * d \in Int /\ (c * b) * d \in Int
    BY <1>3
  <2> QED
    BY <2>1, <2>2, <2>3
<1>7. ((a * d) * d) * b = a * ((b * d) * d)
  BY <1>3
<1>8. (a * d) * d \in Int /\ (b * d) * d \in Positive
  BY <1>3, PositiveTimes
<1> QED
  BY <1>1, <1>5, <1>6, <1>7, <1>8, RatioEqual

-----------------------------------------------------------------------------
(* Loops over the items *)

(* Of all items. *)
SumOfSquares(s) == Sum(LAMBDA x : x * x, s)

(* The partial sums of a sequence, as Sum computes them. *)
IsTotal(f, s, n) == f = [k \in 0..n |-> IF k = 0 THEN 0 ELSE f[k - 1] + s[k] * s[k]]

(* Partial sums exist, by induction over the length. *)
LEMMA TotalExists ==
  ASSUME NEW s \in Seq(Int)
  PROVE  \E f : IsTotal(f, s, Len(s))
<1> DEFINE m == Len(s)
<1> DEFINE S == {n \in 0..m : \E f : IsTotal(f, s, n)}
<1>1. 0 \in S
  <2>1. IsTotal([k \in 0..0 |-> 0], s, 0)
    BY DEF IsTotal
  <2> QED
    BY <2>1
<1>2. ASSUME NEW n \in 0..(m - 1), n \in S PROVE n + 1 \in S
  <2>1. PICK f : IsTotal(f, s, n)
    BY <1>2
  <2> DEFINE g == [k \in 0..(n + 1) |-> IF k = n + 1 THEN f[n] + s[n + 1] * s[n + 1] ELSE f[k]]
  <2>2. \A k \in 0..n : f[k] = IF k = 0 THEN 0 ELSE f[k - 1] + s[k] * s[k]
    BY <2>1 DEF IsTotal
  <2>3. \A k \in 0..(n + 1) : g[k] = IF k = 0 THEN 0 ELSE g[k - 1] + s[k] * s[k]
    <3> SUFFICES ASSUME NEW k \in 0..(n + 1)
                 PROVE  g[k] = IF k = 0 THEN 0 ELSE g[k - 1] + s[k] * s[k]
      OBVIOUS
    <3>1. CASE k = n + 1
      <4>1. k - 1 = n /\ n \in 0..(n + 1) /\ n # n + 1 /\ k # 0
        BY <3>1
      <4> QED
        BY <3>1, <4>1
    <3>2. CASE k # n + 1
      <4>1. k \in 0..n /\ g[k] = f[k]
        BY <3>2
      <4>2. k # 0 => k - 1 \in 0..(n + 1) /\ k - 1 # n + 1 /\ g[k - 1] = f[k - 1]
        BY <4>1
      <4> QED
        BY <2>2, <4>1, <4>2
    <3> QED
      BY <3>1, <3>2
  <2>4. g = [k \in 0..(n + 1) |-> IF k = 0 THEN 0 ELSE g[k - 1] + s[k] * s[k]]
    <3> DEFINE h == [k \in 0..(n + 1) |-> IF k = 0 THEN 0 ELSE g[k - 1] + s[k] * s[k]]
    <3>1. \A k \in 0..(n + 1) : g[k] = h[k]
      BY <2>3
    <3> QED
      BY <3>1
  <2>5. IsTotal(g, s, n + 1)
    BY <2>4 DEF IsTotal
  <2> QED
    BY <2>5
<1>3. m \in S
  <2>1. m \in Nat /\ m \in 0..m
    OBVIOUS
  <2> HIDE DEF m, S
  <2> QED
    BY <1>1, <1>2, <2>1, InductionTo
<1> QED
  BY <1>3

(* Its definition as a recursive function gives the sum. *)
LEMMA SumIsTotal ==
  ASSUME NEW s \in Seq(Int)
  PROVE  \E f : IsTotal(f, s, Len(s)) /\ SumOfSquares(s) = f[Len(s)]
<1> DEFINE total == CHOOSE f : IsTotal(f, s, Len(s))
<1>1. IsTotal(total, s, Len(s))
  BY TotalExists
<1>2. SumOfSquares(s) = total[Len(s)]
  BY DEF SumOfSquares, Sum, IsTotal
<1> QED
  BY <1>1, <1>2

(* The sum of an empty sequence is 0. *)
LEMMA SumEmpty == SumOfSquares(<< >>) = 0
<1>1. << >> \in Seq(Int) /\ Len(<< >>) = 0
  OBVIOUS
<1>2. PICK f : IsTotal(f, << >>, 0) /\ SumOfSquares(<< >>) = f[0]
  BY <1>1, SumIsTotal
<1>3. f[0] = 0
  BY <1>2 DEF IsTotal
<1> QED
  BY <1>2, <1>3

(* One more item adds its square. *)
LEMMA SumAppend ==
  ASSUME NEW s \in Seq(Int), NEW x \in Int
  PROVE  /\ SumOfSquares(s) \in Int
         /\ SumOfSquares(Append(s, x)) = SumOfSquares(s) + x * x
<1> DEFINE m == Len(s)
<1> DEFINE t == Append(s, x)
<1>1. m \in Nat /\ t \in Seq(Int) /\ Len(t) = m + 1 /\ t[m + 1] = x /\ \A k \in 1..m : t[k] = s[k]
  OBVIOUS
<1>2. PICK f : IsTotal(f, s, m) /\ SumOfSquares(s) = f[m]
  BY SumIsTotal
<1>3. PICK g : IsTotal(g, t, m + 1) /\ SumOfSquares(t) = g[m + 1]
  BY <1>1, SumIsTotal
<1>4. \A k \in 0..m : f[k] = IF k = 0 THEN 0 ELSE f[k - 1] + s[k] * s[k]
  BY <1>2 DEF IsTotal
<1>5. \A k \in 0..(m + 1) : g[k] = IF k = 0 THEN 0 ELSE g[k - 1] + t[k] * t[k]
  BY <1>3 DEF IsTotal
<1> DEFINE S == {k \in 0..m : f[k] \in Int /\ g[k] = f[k]}
<1>6. 0 \in S
  BY <1>1, <1>4, <1>5
<1>7. ASSUME NEW k \in 0..(m - 1), k \in S PROVE k + 1 \in S
  <2>1. k + 1 \in 1..m /\ k + 1 \in 0..(m + 1) /\ (k + 1) - 1 = k /\ k + 1 # 0
    BY <1>1
  <2>2. s[k + 1] \in Int /\ t[k + 1] = s[k + 1]
    BY <1>1, <2>1
  <2>3. f[k + 1] = f[k] + s[k + 1] * s[k + 1] /\ g[k + 1] = g[k] + s[k + 1] * s[k + 1]
    BY <1>4, <1>5, <2>1, <2>2
  <2>4. f[k] \in Int /\ g[k] = f[k]
    BY <1>7
  <2>5. f[k + 1] \in Int /\ g[k + 1] = f[k + 1]
    BY <2>2, <2>3, <2>4
  <2> QED
    BY <2>1, <2>5
<1>8. m \in S
  <2>1. m \in 0..m
    BY <1>1
  <2> HIDE DEF S, m
  <2> QED
    BY <1>1, <1>6, <1>7, <2>1, InductionTo
<1>9. g[m + 1] = g[m] + x * x
  <2>1. m + 1 \in 0..(m + 1) /\ m + 1 # 0 /\ (m + 1) - 1 = m
    BY <1>1
  <2> QED
    BY <1>1, <1>5, <2>1
<1> QED
  BY <1>2, <1>3, <1>8, <1>9

-----------------------------------------------------------------------------
(* What the data of a type says of the items it absorbed *)

(* The least and the greatest of the items. *)
Extremes(d, s) ==
  /\ d.min \in Range(s) /\ d.max \in Range(s)
  /\ \A x \in Range(s) : d.min <= x /\ x <= d.max

(* No product x*x overflows an int64. *)
SquaresFit(t, s) == t = "stat_int64" => \A x \in Range(s) : x * x <= MaxInt

(* mdcs_counter_stat_double_value_t, or that of int64. *)
StatRecord ==
  [ count : Nat,
    min   : MinInt..MaxInt,
    max   : MinInt..MaxInt,
    avg   : Rationals,
    var   : Rationals,
    last  : MinInt..MaxInt ]

(* The data d of type t is what the items s make of it. *)
Fits(t, d, s) ==
  /\ t = "last" =>
       /\ d.value \in MinInt..MaxInt
       /\ d.value = IF s = << >> THEN 0 ELSE s[Len(s)]
  /\ t = "range" =>
       /\ d.min \in MinInt..MaxInt /\ d.max \in MinInt..MaxInt
       /\ s = << >> => d.min = MaxInt /\ d.max = MinInt
       /\ s # << >> => Extremes(d, s)
  /\ IsStat(t) =>
       /\ d \in StatRecord
       /\ d.count = Len(s)
       /\ s # << >> => Extremes(d, s) /\ d.last = s[Len(s)]
       /\ s # << >> /\ SquaresFit(t, s) =>
            Plus(d.var, Square(d.avg)) = Ratio(SumOfSquares(s), Len(s))

(* An integer has at least two values. *)
LEMMA HalfPositive == Half \in Positive /\ MinInt \in Int /\ MaxInt \in Int /\ 0 \in MinInt..MaxInt
<1> DEFINE S == 1..(Width - 1)
<1>1. Width - 1 \in Nat
  BY WidthAssumption
<1>2. IsFiniteSet(S) /\ Cardinality(S) = Width - 1
  BY <1>1, FS_Interval
<1>3. IsFiniteSet(SUBSET S) /\ Cardinality(SUBSET S) = Half
  BY <1>2, FS_SUBSET DEF Half
<1>4. SUBSET S # {}
  OBVIOUS
<1>5. Cardinality(SUBSET S) \in Nat /\ Cardinality(SUBSET S) # 0
  <2> HIDE DEF S
  <2> QED
    BY <1>3, <1>4, FS_EmptySet, FS_CardinalityType
<1>6. Half \in Nat /\ Half # 0
  BY <1>3, <1>5
<1> QED
  BY <1>6 DEF Positive, MinInt, MaxInt

(* Appending an item adds it to the set of the items. *)
LEMMA RangeAppend ==
  ASSUME NEW s \in Seq(Int), NEW x \in Int
  PROVE  /\ Range(Append(s, x)) = Range(s) \union {x}
         /\ Append(s, x) # << >> /\ Len(Append(s, x)) = Len(s) + 1
         /\ Append(s, x)[Len(Append(s, x))] = x
<1> DEFINE t == Append(s, x)
<1>1. /\ Len(s) \in Nat /\ DOMAIN s = 1..Len(s) /\ DOMAIN t = 1..(Len(s) + 1)
      /\ t[Len(s) + 1] = x /\ \A k \in 1..Len(s) : t[k] = s[k]
      /\ Len(t) = Len(s) + 1 /\ t # << >>
  OBVIOUS
<1>2. Range(s) = {s[k] : k \in 1..Len(s)} /\ Range(t) = {t[k] : k \in 1..(Len(s) + 1)}
  BY <1>1 DEF Range
<1> HIDE DEF t
<1>3. Range(t) = Range(s) \union {x}
  <2>1. \A k \in 1..Len(s) : k \in 1..(Len(s) + 1) /\ t[k] = s[k]
    BY <1>1
  <2>2. \A k \in 1..(Len(s) + 1) : k = Len(s) + 1 \/ k \in 1..Len(s)
    BY <1>1
  <2>3. Len(s) + 1 \in 1..(Len(s) + 1)
    BY <1>1
  <2> QED
    BY <1>1, <1>2, <2>1, <2>2, <2>3
<1> QED
  BY <1>1, <1>3 DEF t

(* Items are integers of Width bits. *)
LEMMA RangeInItems ==
  ASSUME NEW s \in Seq(Item)
  PROVE  s \in Seq(Int) /\ Range(s) \subseteq MinInt..MaxInt /\ (Range(s) = {} <=> s = << >>)
<1>1. MinInt \in Int /\ MaxInt \in Int
  BY HalfPositive
<1>2. /\ Len(s) \in Nat /\ DOMAIN s = 1..Len(s) /\ \A k \in 1..Len(s) : s[k] \in Item
      /\ s = << >> <=> Len(s) = 0
      /\ s = [k \in 1..Len(s) |-> s[k]]
  OBVIOUS
<1>3. Range(s) = {s[k] : k \in 1..Len(s)}
  BY <1>2 DEF Range
<1>4. Range(s) \subseteq Item
  BY <1>2, <1>3
<1>5. Range(s) = {} <=> Len(s) = 0
  <2>1. Len(s) = 0 => 1..Len(s) = {}
    OBVIOUS
  <2>2. Len(s) # 0 => 1 \in 1..Len(s)
    BY <1>2
  <2>3. 1..Len(s) = {} => Range(s) = {}
    BY <1>3
  <2>4. 1 \in 1..Len(s) => s[1] \in Range(s)
    BY <1>3
  <2> QED
    BY <2>1, <2>2, <2>3, <2>4
<1>6. Item \subseteq Int
  BY <1>1, ItemsAssumption
<1>7. s \in Seq(Int)
  BY <1>2, <1>6
<1> QED
  BY <1>2, <1>4, <1>5, <1>7, ItemsAssumption

(* Comparing each new item with the extremes so far keeps them the extremes. *)
LEMMA ExtremesAppend ==
  ASSUME NEW s \in Seq(Item), NEW x \in Item, NEW d, NEW e, Extremes(d, s),
         e.min = IF x < d.min THEN x ELSE d.min,
         e.max = IF x > d.max THEN x ELSE d.max
  PROVE  Extremes(e, Append(s, x))
<1>1. /\ x \in Int /\ Range(s) \subseteq Int
      /\ Range(Append(s, x)) = Range(s) \union {x}
  BY HalfPositive, RangeInItems, RangeAppend, ItemsAssumption
<1>2. d.min \in Range(s) /\ d.max \in Range(s) /\ \A y \in Range(s) : d.min <= y /\ y <= d.max
  BY DEF Extremes
<1>3. e.min \in Range(s) \union {x} /\ e.max \in Range(s) \union {x}
  BY <1>2
<1>4. ASSUME NEW y \in Range(s) \union {x} PROVE e.min <= y /\ y <= e.max
  <2>1. d.min \in Int /\ d.max \in Int /\ d.min <= d.max
    BY <1>1, <1>2
  <2>2. CASE y = x
    BY <1>1, <2>1, <2>2
  <2>3. CASE y \in Range(s)
    <3>1. y \in Int /\ d.min <= y /\ y <= d.max
      BY <1>1, <1>2, <2>3
    <3> QED
      BY <1>1, <2>1, <3>1
  <2> QED
    BY <2>2, <2>3
<1> QED
  BY <1>1, <1>3, <1>4 DEF Extremes

(* The only item is both. *)
LEMMA ExtremesOne ==
  ASSUME NEW x \in Item, NEW e, e.min = x, e.max = x
  PROVE  Extremes(e, Append(<< >>, x))
<1>1. x \in Int
  BY HalfPositive, ItemsAssumption
<1>2. << >> \in Seq(Int) /\ Range(<< >>) = {}
  BY DEF Range
<1>3. Range(Append(<< >>, x)) = {x}
  BY <1>1, <1>2, RangeAppend
<1> QED
  BY <1>1, <1>3 DEF Extremes

(* A square that fits in an integer is computed without a change. *)
LEMMA SignedFits ==
  ASSUME NEW n \in Int
  PROVE  Signed(n) \in MinInt..MaxInt /\ (n \in MinInt..MaxInt => Signed(n) = n)
<1>1. Half \in Int /\ Half >= 1 /\ MinInt = -Half /\ MaxInt = Half - 1
  BY HalfPositive DEF Positive, MinInt, MaxInt
<1> DEFINE m == n - MinInt
<1> DEFINE w == 2 * Half
<1>2. m \in Int /\ w \in Int /\ w > 0 /\ Signed(n) = (m % w) + MinInt
  BY <1>1 DEF Signed
<1>3. m % w \in 0..(w - 1) /\ (m \in 0..(w - 1) => m % w = m)
  <2> HIDE DEF m, w
  <2> QED
    BY <1>2
<1>4. (n \in MinInt..MaxInt => m \in 0..(w - 1)) /\ m = n + Half /\ w = 2 * Half
  BY <1>1
<1> HIDE DEF m, w
<1> QED
  BY <1>1, <1>2, <1>3, <1>4

-----------------------------------------------------------------------------
(* One push *)

(* A LAST counter keeps the pushed item only. *)
LEMMA LastPush ==
  ASSUME NEW s \in Seq(Item), NEW x \in Item, NEW d
  PROVE  Fits("last", PushOne("last", d, x), Append(s, x))
<1>1. s \in Seq(Int) /\ x \in Int /\ x \in MinInt..MaxInt
  BY HalfPositive, RangeInItems, ItemsAssumption
<1>2. PushOne("last", d, x).value = x
  BY DEF PushOne, LastPushed
<1> QED
  BY <1>1, <1>2, RangeAppend DEF Fits, IsStat

(* A range tracker compares it with its extremes. *)
LEMMA RangePush ==
  ASSUME NEW s \in Seq(Item), NEW x \in Item, NEW d, Fits("range", d, s)
  PROVE  Fits("range", PushOne("range", d, x), Append(s, x))
<1> DEFINE e == PushOne("range", d, x)
<1>1. /\ s \in Seq(Int) /\ x \in Int /\ x \in MinInt..MaxInt
      /\ MinInt \in Int /\ MaxInt \in Int
  BY HalfPositive, RangeInItems, ItemsAssumption
<1>2. /\ e.min = IF d.min > x THEN x ELSE d.min
      /\ e.max = IF d.max < x THEN x ELSE d.max
  BY DEF PushOne, RangePushed, IsStat
<1>3. d.min \in MinInt..MaxInt /\ d.max \in MinInt..MaxInt
  BY DEF Fits
<1> HIDE DEF e
<1>4. e.min \in MinInt..MaxInt /\ e.max \in MinInt..MaxInt
  BY <1>1, <1>2, <1>3
<1>5. Extremes(e, Append(s, x))
  <2>1. CASE s = << >>
    <3>1. d.min = MaxInt /\ d.max = MinInt
      BY <2>1 DEF Fits
    <3>2. e.min = x /\ e.max = x
      BY <1>1, <1>2, <3>1
    <3> QED
      BY <2>1, <3>2, ExtremesOne
  <2>2. CASE s # << >>
    <3>1. Extremes(d, s)
      BY <2>2 DEF Fits
    <3>2. /\ e.min = IF x < d.min THEN x ELSE d.min
          /\ e.max = IF x > d.max THEN x ELSE d.max
      BY <1>1, <1>2, <1>3
    <3> QED
      BY <3>1, <3>2, ExtremesAppend
  <2> QED
    BY <2>1, <2>2
<1>6. Append(s, x) # << >>
  BY <1>1, RangeAppend
<1> QED
  BY <1>4, <1>5, <1>6 DEF Fits, IsStat, e

(* avg and var change together so that avg^2 + var absorbs the new square.   *)
LEMMA SecondMomentPush ==
  ASSUME NEW k \in Positive, NEW total \in Int, NEW square \in Int,
         NEW avg \in Rationals, NEW var \in Rationals, NEW mean \in Rationals,
         Plus(var, Square(avg)) = Ratio(total, k)
  PROVE  Plus(Minus(Plus(Times(Ratio(k, k + 1), Plus(var, Square(avg))), Ratio(square, k + 1)),
                    Square(mean)),
              Square(mean))
         = Ratio(total + square, k + 1)
<1>1. k \in Int /\ k + 1 \in Positive /\ k + 1 \in Int
  BY DEF Positive
<1> DEFINE n == k + 1
<1>2. n \in Positive /\ n \in Int
  BY <1>1
<1> HIDE DEF n
<1>3. Times(Ratio(k, n), Ratio(total, k)) = Ratio(k * total, n * k)
  BY <1>1, <1>2, TimesRatio
<1>4. Ratio(k * total, n * k) = Ratio(total, n)
  <2>1. k * total \in Int /\ n * k \in Positive /\ (k * total) * n = total * (n * k)
    BY <1>1, <1>2, PositiveTimes
  <2> QED
    BY <1>2, <2>1, RatioEqual
<1>5. Plus(Ratio(total, n), Ratio(square, n)) = Ratio(total * n + square * n, n * n)
  BY <1>2, PlusRatio
<1>6. Ratio(total * n + square * n, n * n) = Ratio(total + square, n)
  <2>1. total * n + square * n \in Int /\ total + square \in Int /\ n * n \in Positive
    BY <1>2, PositiveTimes
  <2>2. total * n + square * n = (total + square) * n
    BY <1>2
  <2>3. ((total + square) * n) * n = (total + square) * (n * n)
    BY <1>2
  <2>4. (total * n + square * n) * n = (total + square) * (n * n)
    BY <2>2, <2>3
  <2> QED
    BY <1>2, <2>1, <2>4, RatioEqual
<1>7. Ratio(total + square, n) \in Rationals
  BY <1>2 DEF Rationals
<1>8. Square(mean) \in Rationals
  BY RationalsClosed DEF Square
<1>9. Plus(Times(Ratio(k, n), Plus(var, Square(avg))), Ratio(square, n)) = Ratio(total + square, n)
  BY <1>3, <1>4, <1>5, <1>6
<1> QED
  BY <1>7, <1>8, <1>9, MinusPlus DEF n

(* The first item of a STAT counter. *)
LEMMA StatFirst ==
  ASSUME NEW t, IsStat(t), NEW x \in Item, NEW e,
         e = [count |-> 1, min |-> x, max |-> x, avg |-> Whole(x), var |-> Whole(0), last |-> x]
  PROVE  Fits(t, e, Append(<< >>, x))
<1>1. x \in Int /\ x \in MinInt..MaxInt
  BY HalfPositive, ItemsAssumption
<1>2. 1 \in Positive /\ 1 \in Nat /\ 0 \in Int /\ x * x \in Int
  BY <1>1 DEF Positive
<1>3. Whole(x) = Ratio(x, 1) /\ Whole(0) = Ratio(0, 1)
  BY <1>1, WholeRatio
<1>4. Whole(x) \in Rationals /\ Whole(0) \in Rationals
  BY <1>1, <1>2, <1>3 DEF Rationals
<1>5. e \in StatRecord /\ e.count = 1 /\ e.min = x /\ e.max = x /\ e.last = x
      /\ e.avg = Whole(x) /\ e.var = Whole(0)
  BY <1>1, <1>2, <1>4 DEF StatRecord
<1>6. << >> \in Seq(Int) /\ Len(<< >>) = 0
  OBVIOUS
<1>7. /\ Append(<< >>, x) # << >> /\ Len(Append(<< >>, x)) = 1
      /\ Append(<< >>, x)[Len(Append(<< >>, x))] = x
  BY <1>1, <1>6, RangeAppend
<1>8. SumOfSquares(Append(<< >>, x)) = x * x
  <2>1. SumOfSquares(Append(<< >>, x)) = SumOfSquares(<< >>) + x * x
    BY <1>1, <1>6, SumAppend
  <2> QED
    BY <1>2, <2>1, SumEmpty
<1>9. Plus(Whole(0), Square(Whole(x))) = Ratio(x * x, 1)
  <2>1. Square(Whole(x)) = Ratio(x * x, 1 * 1)
    BY <1>1, <1>2, <1>3, TimesRatio DEF Square
  <2>2. Square(Whole(x)) = Ratio(x * x, 1)
    BY <2>1
  <2> DEFINE y == x * x
  <2>3. y \in Int /\ Square(Whole(x)) = Ratio(y, 1)
    BY <1>2, <2>2
  <2> HIDE DEF y
  <2>4. Plus(Ratio(0, 1), Ratio(y, 1)) = Ratio(0 * 1 + y * 1, 1 * 1)
    BY <1>2, <2>3, PlusRatio
  <2>5. 0 * 1 + y * 1 = y /\ 1 * 1 = 1
    BY <2>3
  <2>6. Plus(Ratio(0, 1), Ratio(y, 1)) = Ratio(y, 1)
    BY <2>4, <2>5
  <2> QED
    BY <1>3, <2>3, <2>6 DEF y
<1>10. Extremes(e, Append(<< >>, x))
  BY <1>5, ExtremesOne
<1> QED
  BY <1>5, <1>7, <1>8, <1>9, <1>10 DEF Fits, IsStat

(* Every item after the first. *)
LEMMA StatNext ==
  ASSUME NEW t, IsStat(t), NEW s \in Seq(Item), NEW x \in Item, NEW d, Fits(t, d, s), s # << >>,
         NEW square \in Int, SquaresFit(t, Append(s, x)) => square = x * x
  PROVE  Fits(t, StatAccumulated(d, x, square), Append(s, x))
<1> DEFINE u == Append(s, x)
<1> DEFINE k == d.count
<1> DEFINE mean == Plus(Times(Ratio(k, k + 1), d.avg), Ratio(x, k))
<1> DEFINE var == Minus(Plus(Times(Ratio(k, k + 1), Plus(d.var, Square(d.avg))), Ratio(square, k + 1)),
                        Square(mean))
<1> DEFINE e == StatAccumulated(d, x, square)
<1>1. /\ x \in Int /\ x \in MinInt..MaxInt /\ s \in Seq(Int)
      /\ MinInt \in Int /\ MaxInt \in Int
  BY HalfPositive, RangeInItems, ItemsAssumption
<1>2. d \in StatRecord /\ d.count = Len(s) /\ Extremes(d, s)
  BY DEF Fits
<1>3. /\ k \in Nat /\ k # 0 /\ d.avg \in Rationals /\ d.var \in Rationals
      /\ d.min \in MinInt..MaxInt /\ d.max \in MinInt..MaxInt
  BY <1>1, <1>2 DEF StatRecord
<1>4. k \in Positive /\ k + 1 \in Positive /\ k \in Int
  BY <1>3 DEF Positive
<1>5. e = [count |-> k + 1,
           min   |-> IF x < d.min THEN x ELSE d.min,
           max   |-> IF x > d.max THEN x ELSE d.max,
           avg   |-> mean, var |-> var, last |-> x]
  BY DEF StatAccumulated
<1>6. mean \in Rationals /\ var \in Rationals /\ Square(mean) \in Rationals
  <2>1. Ratio(k, k + 1) \in Rationals /\ Ratio(x, k) \in Rationals /\ Ratio(square, k + 1) \in Rationals
    BY <1>1, <1>4 DEF Rationals
  <2>2. mean \in Rationals
    BY <1>3, <2>1, RationalsClosed
  <2>3. Square(mean) \in Rationals /\ Square(d.avg) \in Rationals
    BY <1>3, <2>2, RationalsClosed DEF Square
  <2>4. Plus(d.var, Square(d.avg)) \in Rationals
    BY <1>3, <2>3, RationalsClosed
  <2>5. Times(Ratio(k, k + 1), Plus(d.var, Square(d.avg))) \in Rationals
    BY <2>1, <2>4, RationalsClosed
  <2>6. Plus(Times(Ratio(k, k + 1), Plus(d.var, Square(d.avg))), Ratio(square, k + 1)) \in Rationals
    BY <2>1, <2>5, RationalsClosed
  <2> QED
    BY <2>2, <2>3, <2>6, RationalsClosed
<1> HIDE DEF mean, var, e
<1>7. /\ e.count = k + 1 /\ e.avg = mean /\ e.var = var /\ e.last = x
      /\ e.min = IF x < d.min THEN x ELSE d.min
      /\ e.max = IF x > d.max THEN x ELSE d.max
  BY <1>5
<1>8. e \in StatRecord
  <2>1. e.min \in MinInt..MaxInt /\ e.max \in MinInt..MaxInt
    BY <1>1, <1>3, <1>7
  <2>2. e = [count |-> k + 1, min |-> e.min, max |-> e.max, avg |-> mean, var |-> var, last |-> x]
    BY <1>5, <1>7
  <2>3. [count |-> k + 1, min |-> e.min, max |-> e.max, avg |-> mean, var |-> var, last |-> x]
        \in StatRecord
    BY <1>1, <1>3, <1>6, <2>1 DEF StatRecord
  <2> QED
    BY <2>2, <2>3
<1>9. Extremes(e, u)
  BY <1>2, <1>7, ExtremesAppend
<1>10. /\ u # << >> /\ Len(u) = Len(s) + 1 /\ u[Len(u)] = x
       /\ Range(u) = Range(s) \union {x}
  BY <1>1, RangeAppend
<1>11. ASSUME SquaresFit(t, u)
       PROVE  Plus(e.var, Square(e.avg)) = Ratio(SumOfSquares(u), Len(u))
  <2>1. SquaresFit(t, s)
    BY <1>10, <1>11 DEF SquaresFit
  <2>2. Plus(d.var, Square(d.avg)) = Ratio(SumOfSquares(s), k)
    BY <1>2, <2>1 DEF Fits
  <2>3. SumOfSquares(s) \in Int /\ SumOfSquares(u) = SumOfSquares(s) + square
    BY <1>1, <1>11, SumAppend
  <2>4. Plus(var, Square(mean)) = Ratio(SumOfSquares(s) + square, k + 1)
    BY <1>3, <1>4, <1>6, <2>2, <2>3, SecondMomentPush DEF var
  <2> QED
    BY <1>2, <1>7, <1>10, <2>3, <2>4
<1> QED
  BY <1>2, <1>7, <1>8, <1>9, <1>10, <1>11 DEF Fits, IsStat, e

(* A STAT counter takes the first item as it is and accumulates the others. *)
LEMMA StatPush ==
  ASSUME NEW t, IsStat(t), NEW s \in Seq(Item), NEW x \in Item, NEW d, Fits(t, d, s)
  PROVE  Fits(t, PushOne(t, d, x), Append(s, x))
<1> DEFINE square == IF t = "stat_double" THEN x * x ELSE Signed(x * x)
<1>1. x \in Int /\ s \in Seq(Int) /\ MinInt \in Int /\ MaxInt \in Int /\ x * x \in Int
  BY HalfPositive, RangeInItems, ItemsAssumption
<1>2. square \in Int
  BY <1>1, SignedFits
<1>3. ASSUME SquaresFit(t, Append(s, x)) PROVE square = x * x
  <2>1. CASE t = "stat_double"
    BY <2>1
  <2>2. CASE t = "stat_int64"
    <3>1. x \in Range(Append(s, x))
      BY <1>1, RangeAppend
    <3>2. x * x <= MaxInt
      BY <1>3, <2>2, <3>1 DEF SquaresFit
    <3>3. x * x >= 0
      <4>1. x >= 0 => x * x >= 0
        BY <1>1
      <4>2. x <= 0 => x * x >= 0
        BY <1>1
      <4> QED
        BY <1>1, <4>1, <4>2
    <3>4. x * x \in MinInt..MaxInt
      BY <1>1, <3>2, <3>3, HalfPositive
    <3> QED
      BY <1>1, <2>2, <3>4, SignedFits
  <2> QED
    BY <2>1, <2>2 DEF IsStat
<1>4. PushOne(t, d, x) = StatPushed(d, x, square)
  BY DEF PushOne, IsStat
<1> HIDE DEF square
<1>5. d.count = Len(s) /\ (s = << >> <=> Len(s) = 0)
  BY DEF Fits
<1>6. CASE s = << >>
  <2>1. PushOne(t, d, x)
        = [count |-> 1, min |-> x, max |-> x, avg |-> Whole(x), var |-> Whole(0), last |-> x]
    BY <1>4, <1>5, <1>6 DEF StatPushed
  <2> QED
    BY <1>6, <2>1, StatFirst
<1>7. CASE s # << >>
  <2>1. PushOne(t, d, x) = StatAccumulated(d, x, square)
    BY <1>4, <1>5, <1>7 DEF StatPushed
  <2> QED
    BY <1>2, <1>3, <1>7, <2>1, StatNext
<1> QED
  BY <1>6, <1>7

(* One item more, one item more in what the data says. *)
LEMMA PushOneFits ==
  ASSUME NEW t \in Types, NEW s \in Seq(Item), NEW x \in Item, NEW d, Fits(t, d, s)
  PROVE  Fits(t, PushOne(t, d, x), Append(s, x))
<1>1. t = "last" \/ t = "range" \/ IsStat(t)
  BY DEF Types, IsStat
<1> QED
  BY <1>1, LastPush, RangePush, StatPush

-----------------------------------------------------------------------------
(* A batch *)

(* The data after each item of a batch, as PushEach computes it. *)
IsPass(f, t, d, items, n) ==
  f = [k \in 0..n |-> IF k = 0 THEN d ELSE PushOne(t, f[k - 1], items[k])]

(* There is such a function, by induction over the length. *)
LEMMA PassExists ==
  ASSUME NEW t, NEW d, NEW items, NEW m \in Nat
  PROVE  \E f : IsPass(f, t, d, items, m)
<1> DEFINE S == {n \in 0..m : \E f : IsPass(f, t, d, items, n)}
<1>1. 0 \in S
  <2>1. IsPass([k \in 0..0 |-> d], t, d, items, 0)
    BY DEF IsPass
  <2> QED
    BY <2>1
<1>2. ASSUME NEW n \in 0..(m - 1), n \in S PROVE n + 1 \in S
  <2>1. PICK f : IsPass(f, t, d, items, n)
    BY <1>2
  <2> DEFINE g == [k \in 0..(n + 1) |->
                     IF k = n + 1 THEN PushOne(t, f[n], items[n + 1]) ELSE f[k]]
  <2>2. \A k \in 0..n : f[k] = IF k = 0 THEN d ELSE PushOne(t, f[k - 1], items[k])
    BY <2>1 DEF IsPass
  <2>3. \A k \in 0..(n + 1) : g[k] = IF k = 0 THEN d ELSE PushOne(t, g[k - 1], items[k])
    <3> SUFFICES ASSUME NEW k \in 0..(n + 1)
                 PROVE  g[k] = IF k = 0 THEN d ELSE PushOne(t, g[k - 1], items[k])
      OBVIOUS
    <3>1. CASE k = n + 1
      <4>1. k - 1 = n /\ n \in 0..(n + 1) /\ n # n + 1 /\ k # 0
        BY <3>1
      <4> QED
        BY <3>1, <4>1
    <3>2. CASE k # n + 1
      <4>1. k \in 0..n /\ g[k] = f[k]
        BY <3>2
      <4>2. k # 0 => k - 1 \in 0..(n + 1) /\ k - 1 # n + 1 /\ g[k - 1] = f[k - 1]
        BY <4>1
      <4> QED
        BY <2>2, <4>1, <4>2
    <3> QED
      BY <3>1, <3>2
  <2>4. g = [k \in 0..(n + 1) |-> IF k = 0 THEN d ELSE PushOne(t, g[k - 1], items[k])]
    <3> DEFINE h == [k \in 0..(n + 1) |-> IF k = 0 THEN d ELSE PushOne(t, g[k - 1], items[k])]
    <3>1. \A k \in 0..(n + 1) : g[k] = h[k]
      BY <2>3
    <3> QED
      BY <3>1
  <2>5. IsPass(g, t, d, items, n + 1)
    BY <2>4 DEF IsPass
  <2> QED
    BY <2>5
<1>3. m \in S
  <2>1. m \in 0..m
    OBVIOUS
  <2> HIDE DEF S
  <2> QED
    BY <1>1, <1>2, <2>1, InductionTo
<1> QED
  BY <1>3

(* A loop of pushes is a push of each item in turn. *)
LEMMA PushEachFits ==
  ASSUME NEW t \in Types, NEW s \in Seq(Item), NEW items \in Seq(Item), NEW d, Fits(t, d, s)
  PROVE  Fits(t, PushEach(t, d, items), s \o items)
<1> DEFINE m == Len(items)
<1> DEFINE after == CHOOSE f : IsPass(f, t, d, items, m)
<1> DEFINE done(k) == s \o SubSeq(items, 1, k)
<1>1. m \in Nat /\ IsPass(after, t, d, items, m)
  BY PassExists
<1>2. PushEach(t, d, items) = after[m]
  BY DEF PushEach, IsPass
<1>3. \A k \in 0..m : after[k] = IF k = 0 THEN d ELSE PushOne(t, after[k - 1], items[k])
  BY <1>1 DEF IsPass
<1> HIDE DEF after
<1> DEFINE S == {k \in 0..m : Fits(t, after[k], done(k))}
<1>4. 0 \in S
  <2>1. SubSeq(items, 1, 0) = << >>
    BY SubSeqEmpty
  <2>2. done(0) = s
    BY <2>1
  <2>3. 0 \in 0..m /\ after[0] = d
    BY <1>1, <1>3
  <2> HIDE DEF done
  <2>4. Fits(t, after[0], done(0))
    BY <2>2, <2>3
  <2> QED
    BY <2>3, <2>4
<1>5. ASSUME NEW k \in 0..(m - 1), k \in S PROVE k + 1 \in S
  <2>1. k \in Nat /\ k + 1 \in 1..m /\ k + 1 \in 0..m /\ (k + 1) - 1 = k /\ k + 1 # 0
    BY <1>1
  <2>2. SubSeq(items, 1, k) \in Seq(Item) /\ items[k + 1] \in Item
    BY <1>1, <2>1
  <2>3. SubSeq(items, 1, k + 1) = Append(SubSeq(items, 1, k), items[k + 1])
    <3> DEFINE a == SubSeq(items, 1, k + 1)
    <3> DEFINE b == Append(SubSeq(items, 1, k), items[k + 1])
    <3>1. /\ a \in Seq(Item) /\ b \in Seq(Item) /\ Len(a) = k + 1 /\ Len(b) = k + 1
          /\ \A j \in 1..(k + 1) : a[j] = items[j] /\ b[j] = items[j]
      BY <1>1, <2>1, <2>2
    <3> HIDE DEF a, b
    <3>2. a = b
      BY <3>1, SeqEqual
    <3> QED
      BY <3>2 DEF a, b
  <2>4. done(k) \in Seq(Item) /\ done(k + 1) = Append(done(k), items[k + 1])
    BY <2>2, <2>3, ConcatAppend, ConcatProperties
  <2>5. Fits(t, after[k], done(k))
    BY <1>5
  <2>6. after[k + 1] = PushOne(t, after[k], items[k + 1])
    BY <1>3, <2>1
  <2> HIDE DEF done
  <2>7. Fits(t, after[k + 1], done(k + 1))
    BY <2>2, <2>4, <2>5, <2>6, PushOneFits
  <2> QED
    BY <2>1, <2>7
<1>6. m \in S
  <2>1. m \in 0..m
    BY <1>1
  <2> HIDE DEF S, m
  <2> QED
    BY <1>1, <1>4, <1>5, <2>1, InductionTo
<1>7. done(m) = s \o items
  <2>1. SubSeq(items, 1, m) = items
    BY SubSeqFull
  <2> QED
    BY <2>1
<1> QED
  BY <1>2, <1>6, <1>7

(* Whatever a type does with a batch that is not empty. *)
LEMMA PushMultiFits ==
  ASSUME NEW t \in Types, NEW s \in Seq(Item), NEW items \in Seq(Item), items # << >>,
         NEW d, Fits(t, d, s)
  PROVE  Fits(t, PushMulti(t, d, items), s \o items)
<1>1. CASE t = "last"
  <2>1. PushMulti(t, d, items) = [value |-> items[Len(items)]]
    BY <1>1 DEF PushMulti, LastOfBatch, IsStat
  <2>2. /\ Len(items) \in Nat /\ Len(items) # 0 /\ Len(s) \in Nat /\ items[Len(items)] \in Item
        /\ s \o items # << >>
        /\ (s \o items)[Len(s \o items)] = items[Len(items)]
    OBVIOUS
  <2>3. items[Len(items)] \in MinInt..MaxInt
    BY <2>2, ItemsAssumption
  <2> QED
    BY <1>1, <2>1, <2>2, <2>3 DEF Fits, IsStat
<1>2. CASE t # "last"
  <2>1. PushMulti(t, d, items) = PushEach(t, d, items)
    BY <1>2 DEF PushMulti, RangePushedMulti, Types, IsStat
  <2> QED
    BY <2>1, PushEachFits
<1> QED
  BY <1>1, <1>2

-----------------------------------------------------------------------------
(* The counter and its data *)

(* A counter that holds items only holds them in both of its parts. *)
LEMMA PartsAreItems ==
  ASSUME NEW c, Shape(c), Content(c) \in Seq(Item)
  PROVE  c.data \in Seq(Item) /\ Buffered(c) \in Seq(Item)
<1>1. c.data \in Seq(Memory) /\ Buffered(c) \in Seq(Memory)
  BY BufferedType DEF Shape, CounterRecord
<1>2. ASSUME NEW s \in Seq(Memory), NEW b \in Seq(Memory), s \o b \in Seq(Item)
      PROVE  s \in Seq(Item) /\ b \in Seq(Item)
  <2> DEFINE u == s \o b
  <2>1. /\ Len(s) \in Nat /\ Len(b) \in Nat /\ Len(u) = Len(s) + Len(b)
        /\ \A j \in 1..(Len(s) + Len(b)) :
             u[j] = IF j <= Len(s) THEN s[j] ELSE b[j - Len(s)]
    BY ConcatProperties
  <2>2. u \in Seq(Item)
    BY <1>2
  <2> HIDE DEF u
  <2>3. \A j \in 1..(Len(s) + Len(b)) : u[j] \in Item
    BY <2>1, <2>2
  <2>4. ASSUME NEW j \in 1..Len(s) PROVE s[j] \in Item
    <3>1. j \in 1..(Len(s) + Len(b)) /\ j <= Len(s)
      BY <2>1
    <3> QED
      BY <2>1, <2>3, <3>1
  <2>5. ASSUME NEW j \in 1..Len(b) PROVE b[j] \in Item
    <3>1. Len(s) + j \in 1..(Len(s) + Len(b)) /\ ~(Len(s) + j <= Len(s)) /\ (Len(s) + j) - Len(s) = j
      BY <2>1
    <3> QED
      BY <2>1, <2>3, <3>1
  <2>6. s \in Seq(Item)
    BY <2>4
  <2>7. b \in Seq(Item)
    BY <2>5
  <2> QED
    BY <2>6, <2>7
<1> QED
  BY <1>1, <1>2 DEF Content

(* What a digest hands to the type is what it appends to the absorbed items. *)
LEMMA DigestFits ==
  ASSUME NEW c, Shape(c), Content(c) \in Seq(Item), NEW t \in Types, NEW d, Fits(t, d, c.data)
  PROVE  Fits(t, IF c.num_buffered # 0 THEN PushMulti(t, d, Buffered(c)) ELSE d,
              Digested(c).data)
<1>1. c.data \in Seq(Item) /\ Buffered(c) \in Seq(Item)
  BY PartsAreItems
<1>2. Len(Buffered(c)) = c.num_buffered /\ c \in CounterRecord
  BY BufferedType DEF Shape
<1>3. CASE c.num_buffered # 0
  <2>1. Buffered(c) # << >>
    BY <1>1, <1>2, <1>3
  <2>2. Digested(c).data = c.data \o Buffered(c)
    BY <1>2, <1>3 DEF Digested, CounterRecord
  <2> QED
    BY <1>1, <1>3, <2>1, <2>2, PushMultiFits
<1>4. CASE c.num_buffered = 0
  <2>1. Digested(c) = c
    BY <1>4 DEF Digested
  <2> QED
    BY <1>4, <2>1
<1> QED
  BY <1>3, <1>4

(* The data after a reset says that there are no items. *)
LEMMA ResetFits == \A t \in Types : Fits(t, ResetData(t), << >>)
<1> SUFFICES ASSUME NEW t \in Types PROVE Fits(t, ResetData(t), << >>)
  OBVIOUS
<1>1. /\ MinInt \in Int /\ MaxInt \in Int /\ 0 \in MinInt..MaxInt
      /\ MinInt \in MinInt..MaxInt /\ MaxInt \in MinInt..MaxInt
  BY HalfPositive
<1>2. CASE t = "last"
  <2>1. ResetData(t) = [value |-> 0]
    BY <1>2 DEF ResetData, LastReset, IsStat
  <2> QED
    BY <1>1, <1>2, <2>1 DEF Fits, IsStat
<1>3. CASE t = "range"
  <2>1. ResetData(t) = [min |-> MaxInt, max |-> MinInt]
    BY <1>3 DEF ResetData, RangeReset, IsStat
  <2> QED
    BY <1>1, <1>3, <2>1 DEF Fits, IsStat
<1>4. CASE IsStat(t)
  <2>1. ResetData(t) = [count |-> 0, min |-> 0, max |-> 0, avg |-> Whole(0), var |-> Whole(0), last |-> 0]
    BY <1>4 DEF ResetData, StatReset, IsStat
  <2>2. Whole(0) \in Rationals
    <3>1. 0 \in Int /\ 1 \in Positive
      BY DEF Positive
    <3> QED
      BY <3>1, WholeRatio DEF Rationals
  <2>3. ResetData(t) \in StatRecord /\ ResetData(t).count = 0
    BY <1>1, <2>1, <2>2 DEF StatRecord
  <2>4. Len(<< >>) = 0
    OBVIOUS
  <2> QED
    BY <1>4, <2>3, <2>4 DEF Fits, IsStat
<1> QED
  BY <1>2, <1>3, <1>4 DEF Types, IsStat

-----------------------------------------------------------------------------
(* The invariant: that of the counter, and that the data of the type fits    *)
(* the items which the counter has absorbed.                                 *)
TypedInv ==
  /\ Inv
  /\ type \in Types
  /\ Fits(type, data, counter.data)

(* Each call on the typed counter is that call of MdcsCounter. *)
LEMMA TypedStep == [TypedNext]_typedVars => [Next]_vars
  BY DEF TypedNext, TypedPush, TypedDigest, TypedValue, TypedReset, Next, typedVars

(* The invariant holds at first, ... *)
LEMMA TypedInvInit == TypedInit => TypedInv
<1> SUFFICES ASSUME TypedInit PROVE TypedInv
  OBVIOUS
<1>1. Init /\ type \in Types /\ data = ResetData(type)
  BY DEF TypedInit
<1>2. PICK n \in BufferSizes : counter = WasReset(Allocated(n))
  BY <1>1 DEF Init
<1>3. counter.data = << >>
  BY <1>2 DEF WasReset, Allocated
<1> QED
  BY <1>1, <1>3, InvInit, ResetFits DEF TypedInv

(* ... and every call keeps it. *)
LEMMA TypedInvNext == TypedInv /\ [TypedNext]_typedVars => TypedInv'
<1> SUFFICES ASSUME TypedInv, [TypedNext]_typedVars PROVE TypedInv'
  OBVIOUS
<1>1. Inv' /\ Inv
  BY TypedStep, InvNext DEF TypedInv
<1>2. /\ Shape(counter) /\ Content(counter) \in Seq(Item) /\ counter \in CounterRecord
      /\ type \in Types /\ Fits(type, data, counter.data)
  BY <1>1 DEF TypedInv, Inv, TypeOK, BufferTransparent, Shape
<1>3. Fits(type, DigestedData, Digested(counter).data)
  BY <1>2, DigestFits DEF DigestedData
<1>4. ASSUME NEW x \in Item, TypedPush(x) PROVE Fits(type', data', counter'.data)
  <2>1. /\ counter' = Pushed(counter, x) /\ type' = type
        /\ data' = CASE counter.max_buffer_size = 0 -> PushOne(type, data, x)
                     [] IsFull(counter) -> DigestedData
                     [] OTHER -> data
    BY <1>4 DEF TypedPush, Push
  <2>2. CASE counter.max_buffer_size = 0
    <3>1. counter' = [counter EXCEPT !.data = Append(@, x)]
      BY <2>1, <2>2 DEF Pushed, IsFull, Stored
    <3>2. counter'.data = Append(counter.data, x)
      BY <1>2, <3>1 DEF CounterRecord
    <3>3. data' = PushOne(type, data, x)
      BY <2>1, <2>2 DEF IsFull
    <3> QED
      BY <1>2, <2>1, <3>2, <3>3, PartsAreItems, PushOneFits
  <2>3. CASE IsFull(counter)
    <3> DEFINE c == Digested(counter)
    <3>1. c \in CounterRecord /\ c.max_buffer_size # 0
      BY <1>2, <2>3, DigestKeepsContent DEF Shape, IsFull
    <3>2. counter' = Stored(c, x)
      BY <2>1, <2>3 DEF Pushed
    <3> HIDE DEF c
    <3>3. counter'.data = c.data
      BY <3>1, <3>2 DEF Stored, CounterRecord
    <3>4. data' = DigestedData
      BY <2>1, <2>3 DEF IsFull
    <3> QED
      BY <1>3, <2>1, <3>3, <3>4 DEF c
  <2>4. CASE counter.max_buffer_size # 0 /\ ~IsFull(counter)
    <3>1. counter' = Stored(counter, x)
      BY <2>1, <2>4 DEF Pushed
    <3>2. counter'.data = counter.data
      BY <1>2, <2>4, <3>1 DEF Stored, CounterRecord
    <3>3. data' = data
      BY <2>1, <2>4
    <3> QED
      BY <1>2, <2>1, <3>2, <3>3
  <2> QED
    BY <2>2, <2>3, <2>4
<1>5. ASSUME TypedDigest \/ TypedValue PROVE Fits(type', data', counter'.data)
  <2>1. counter' = Digested(counter) /\ data' = DigestedData /\ type' = type
    BY <1>5 DEF TypedDigest, TypedValue, Digest, Value
  <2> QED
    BY <1>3, <2>1
<1>6. ASSUME TypedReset PROVE Fits(type', data', counter'.data)
  <2>1. counter' = WasReset(counter) /\ data' = ResetData(type) /\ type' = type
    BY <1>6 DEF TypedReset, Reset
  <2>2. counter'.data = << >>
    BY <1>2, <2>1 DEF WasReset, CounterRecord
  <2> QED
    BY <1>2, <2>1, <2>2, ResetFits
<1>7. ASSUME UNCHANGED typedVars PROVE Fits(type', data', counter'.data)
  BY <1>2, <1>7 DEF typedVars, vars
<1>8. type' = type
  BY DEF TypedNext, TypedPush, TypedDigest, TypedValue, TypedReset, typedVars
<1>9. Fits(type', data', counter'.data)
  BY <1>4, <1>5, <1>6, <1>7 DEF TypedNext
<1> QED
  BY <1>1, <1>2, <1>8, <1>9 DEF TypedInv

-----------------------------------------------------------------------------
(* What holds of a counter of each type *)

(* A counter of any type is a counter: buffering, reads and resets are as    *)
(* MdcsCounter_proofs shows them, whatever the type makes of the items.      *)
THEOREM TypedRunsTheCounter == TypedSpec => Spec
<1>1. TypedInit => Init
  BY DEF TypedInit
<1> QED
  BY <1>1, TypedStep, PTL DEF TypedSpec, Spec

(* Denominators are positive. *)
LEMMA DenominatorPositive == \A A \in Rationals : A[2] > 0
<1> SUFFICES ASSUME NEW A \in Rationals PROVE A[2] > 0
  OBVIOUS
<1>1. PICK n \in Int, d \in Positive : A = Ratio(n, d)
  BY DEF Rationals
<1>2. PICK p \in Int, q \in 1..d : A = << p, q >>
  BY <1>1, RatioForm
<1> QED
  BY <1>2

(* The fields of every type stay in the range of their C types, the marks of *)
(* an empty range tracker included.                                          *)
THEOREM TypedTypeCorrect == TypedSpec => []TypedTypeOK
<1>1. TypedInv => TypedTypeOK
  <2> SUFFICES ASSUME TypedInv PROVE TypedTypeOK
    OBVIOUS
  <2>1. type \in Types /\ Fits(type, data, counter.data)
    BY DEF TypedInv
  <2>2. ASSUME IsStat(type)
        PROVE  /\ data.count \in Nat
               /\ {data.min, data.max, data.last} \subseteq MinInt..MaxInt
               /\ data.avg[2] > 0 /\ data.var[2] > 0
    <3>1. data \in StatRecord
      BY <2>1, <2>2 DEF Fits
    <3>2. /\ data.count \in Nat
          /\ data.min \in MinInt..MaxInt /\ data.max \in MinInt..MaxInt
          /\ data.last \in MinInt..MaxInt
          /\ data.avg \in Rationals /\ data.var \in Rationals
      BY <3>1 DEF StatRecord
    <3> QED
      BY <3>2, DenominatorPositive
  <2> QED
    BY <2>1, <2>2 DEF Fits, TypedTypeOK
<1> QED
  BY <1>1, TypedInvInit, TypedInvNext, PTL DEF TypedSpec

(* A LAST counter returns the item it absorbed last, however the items were  *)
(* divided into batches.                                                     *)
THEOREM LastOfAll == TypedSpec => []LastIsLast
<1>1. TypedInv => LastIsLast
  BY DEF TypedInv, Fits, LastIsLast, GetValue, LastValue, absorbed, IsStat
<1> QED
  BY <1>1, TypedInvInit, TypedInvNext, PTL DEF TypedSpec

(* The least item and the greatest are the only ones of their kind. *)
LEMMA ExtremesAre ==
  ASSUME NEW s \in Seq(Item), NEW d, Extremes(d, s)
  PROVE  Least(Range(s)) = d.min /\ Greatest(Range(s)) = d.max
<1>1. Range(s) \subseteq Int
  BY RangeInItems, HalfPositive
<1>2. d.min \in Range(s) /\ d.max \in Range(s) /\ \A x \in Range(s) : d.min <= x /\ x <= d.max
  BY DEF Extremes
<1> DEFINE R == Range(s)
<1> HIDE DEF R
<1>3. Least(R) = d.min
  <2>1. Least(R) \in R /\ \A x \in R : Least(R) <= x
    BY <1>2 DEF Least, R
  <2>2. Least(R) <= d.min /\ d.min <= Least(R)
    BY <1>2, <2>1 DEF R
  <2> QED
    BY <1>1, <1>2, <2>1, <2>2 DEF R
<1>4. Greatest(R) = d.max
  <2>1. Greatest(R) \in R /\ \A x \in R : x <= Greatest(R)
    BY <1>2 DEF Greatest, R
  <2>2. Greatest(R) <= d.max /\ d.max <= Greatest(R)
    BY <1>2, <2>1 DEF R
  <2> QED
    BY <1>1, <1>2, <2>1, <2>2 DEF R
<1> QED
  BY <1>3, <1>4 DEF R

(* What the counter has absorbed are items. *)
LEMMA AbsorbedItems == TypedInv => counter.data \in Seq(Item)
  BY PartsAreItems DEF TypedInv, Inv, TypeOK, BufferTransparent, Shape

(* count, min, max and last of a STAT counter are those of the items since   *)
(* the reset, for every width of an integer and every order of calls.        *)
THEOREM StatsExact == TypedSpec => []StatsAreExact
<1>1. TypedInv => StatsAreExact
  <2> SUFFICES ASSUME TypedInv, IsStat(type), absorbed # << >>
               PROVE  /\ GetValue(type, data).count = Len(absorbed)
                      /\ GetValue(type, data).min = Least(Absorbed)
                      /\ GetValue(type, data).max = Greatest(Absorbed)
                      /\ GetValue(type, data).last = absorbed[Len(absorbed)]
    BY DEF StatsAreExact
  <2>1. GetValue(type, data) = data
    BY DEF GetValue, StatValue, IsStat
  <2>2. /\ data.count = Len(counter.data) /\ Extremes(data, counter.data)
        /\ data.last = counter.data[Len(counter.data)]
    BY DEF TypedInv, Fits, absorbed
  <2>3. data.min = Least(Range(counter.data)) /\ data.max = Greatest(Range(counter.data))
    BY <2>2, AbsorbedItems, ExtremesAre
  <2> QED
    BY <2>1, <2>2, <2>3 DEF absorbed, Absorbed
<1> QED
  BY <1>1, TypedInvInit, TypedInvNext, PTL DEF TypedSpec

(* avg^2 + var is the exact mean of the squares, although avg is not the     *)
(* mean: one division is wrong, and the other field makes up for it.         *)
THEOREM SecondMoment == TypedSpec => []SecondMomentIsExact
<1>1. TypedInv => SecondMomentIsExact
  <2> SUFFICES ASSUME TypedInv, IsStat(type), absorbed # << >>,
                      type = "stat_int64" => \A x \in Absorbed : x * x <= MaxInt
               PROVE  Plus(data.var, Square(data.avg))
                      = Ratio(Sum(LAMBDA x : x * x, absorbed), Len(absorbed))
    BY DEF SecondMomentIsExact
  <2>1. counter.data # << >> /\ SquaresFit(type, counter.data)
    BY DEF absorbed, Absorbed, SquaresFit
  <2>2. Plus(data.var, Square(data.avg)) = Ratio(SumOfSquares(counter.data), Len(counter.data))
    BY <2>1 DEF TypedInv, Fits
  <2> QED
    BY <2>2 DEF SumOfSquares, absorbed
<1> QED
  BY <1>1, TypedInvInit, TypedInvNext, PTL DEF TypedSpec

(* The range tracker returns the distance of its extremes although it is     *)
(* computed in integers that do not hold it, and never takes a tracker with  *)
(* items for an empty one.                                                   *)
THEOREM RangeExact == TypedSpec => []RangeIsExact
<1>1. TypedInv => RangeIsExact
  <2> SUFFICES ASSUME TypedInv, type = "range"
               PROVE  GetValue(type, data) =
                        IF absorbed = << >> THEN 0 ELSE Greatest(Absorbed) - Least(Absorbed)
    BY DEF RangeIsExact
  <2>1. /\ data.min \in MinInt..MaxInt /\ data.max \in MinInt..MaxInt
        /\ absorbed = << >> => data.min = MaxInt /\ data.max = MinInt
        /\ absorbed # << >> => Extremes(data, absorbed)
    BY DEF TypedInv, Fits, absorbed
  <2>2. GetValue(type, data)
        = IF data.min = MaxInt /\ data.max = MinInt THEN 0 ELSE Unsigned(data.max - data.min)
    BY DEF GetValue, RangeValue, IsStat
  <2>3. CASE absorbed = << >>
    BY <2>1, <2>2, <2>3
  <2>4. CASE absorbed # << >>
    <3>1. /\ Extremes(data, counter.data) /\ counter.data \in Seq(Item)
          /\ Absorbed = Range(counter.data)
      BY <2>1, <2>4, AbsorbedItems DEF absorbed, Absorbed
    <3>2. data.min = Least(Absorbed) /\ data.max = Greatest(Absorbed)
      BY <3>1, ExtremesAre
    <3>3. Half \in Int /\ Half >= 1 /\ MinInt = -Half /\ MaxInt = Half - 1
      BY HalfPositive DEF Positive, MinInt, MaxInt
    <3>4. data.min <= data.max /\ data.min \in Int /\ data.max \in Int
      BY <2>1, <3>1, <3>3 DEF Extremes
    <3>5. ~(data.min = MaxInt /\ data.max = MinInt)
      BY <3>3, <3>4
    <3>6. Unsigned(data.max - data.min) = data.max - data.min
      <4> DEFINE m == data.max - data.min
      <4> DEFINE w == 2 * Half
      <4>1. m \in 0..(w - 1) /\ w \in Int /\ w > 0
        BY <2>1, <3>3, <3>4
      <4> HIDE DEF m, w
      <4>2. m % w = m
        BY <4>1
      <4> QED
        BY <4>2 DEF m, w, Unsigned
    <3> QED
      BY <2>2, <2>4, <3>2, <3>5, <3>6
  <2> QED
    BY <2>3, <2>4
<1> QED
  BY <1>1, TypedInvInit, TypedInvNext, PTL DEF TypedSpec
=============================================================================
