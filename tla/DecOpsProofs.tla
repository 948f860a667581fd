---------------------------- MODULE DecOpsProofs ----------------------------
(***************************************************************************)
(* Proofs about the calls of DecOps, for every operand, context and length *)
(* of Unit: what each routine delivers is carried by the invariant to the  *)
(* end of the call, and is shown there to be what DecOpsCorrect asks for.  *)
(***************************************************************************)
EXTENDS DecOpsCorrect, DecRoundProofs, FiniteSetTheorems, TLAPS

(***************************************************************************)
(* decCompare: values at a common exponent.                                *)
(***************************************************************************)
LEMMA ValidFields ==
    ASSUME NEW n, Valid(n)
    PROVE  /\ n \in Numbers
           /\ n.kind \in Kinds /\ n.neg \in BOOLEAN /\ n.coef \in Nat /\ n.exp \in Int
           /\ n.kind # "finite" => n.exp = 0
           /\ n.kind = "inf" => n.coef = 0
BY NumberFields DEF Valid, IsSpecial

LEMMA NegatedIs ==
    ASSUME NEW i \in Int, NEW s \in BOOLEAN
    PROVE  /\ Negated(i, s) \in Int
           /\ s => Negated(i, s) + i = 0
           /\ ~s => Negated(i, s) = i
BY DEF Negated

LEMMA MultipleIs ==
    ASSUME NEW n, n.neg \in BOOLEAN, n.coef \in Nat, n.exp \in Int, NEW e \in Int, e <= n.exp
    PROVE  /\ Multiple(n, e) \in Int /\ Size(n, e) \in Nat
           /\ n.neg => Multiple(n, e) + Size(n, e) = 0
           /\ ~n.neg => Multiple(n, e) = Size(n, e)
           /\ Size(n, e) = 0 <=> n.coef = 0
<1>1. Size(n, e) \in Nat /\ (Size(n, e) = 0 <=> n.coef = 0)
  BY SizeIs
<1>2. Multiple(n, e) = Negated(Size(n, e), n.neg)
  BY DEF Multiple, Size
<1> QED
  BY <1>1, <1>2, NegatedIs

\* seen finer, a value is multiplied by a power of ten
LEMMA MultipleFiner ==
    ASSUME NEW n, n.neg \in BOOLEAN, n.coef \in Nat, n.exp \in Int,
           NEW e \in Int, e <= n.exp, NEW k \in Nat
    PROVE  /\ Multiple(n, e - k) = Multiple(n, e) * powers[k]
           /\ Size(n, e - k) = Size(n, e) * powers[k]
<1>1. PICK j \in Nat : j = n.exp - e
  OBVIOUS
<1>2. n.exp - (e - k) = j + k /\ e - k <= n.exp /\ e - k \in Int
  BY <1>1
<1>3. PICK p \in Nat : p = powers[j]
  BY PowersFacts
<1>4. PICK q \in Nat : q = powers[k]
  BY PowersFacts
<1>5. powers[j + k] = p * q
  BY <1>3, <1>4, PowersSum
<1>6. PICK c \in Nat : c = n.coef
  OBVIOUS
<1>7. Size(n, e - k) = c * (p * q) /\ Size(n, e) = c * p
  BY <1>1, <1>2, <1>3, <1>5, <1>6 DEF Size
<1>8. c * (p * q) = (c * p) * q
  OBVIOUS
<1>9. PICK s \in Nat : s = c * p
  OBVIOUS
<1>10. /\ Multiple(n, e) = Negated(s, n.neg)
       /\ Multiple(n, e - k) = Negated(s * q, n.neg)
  BY <1>7, <1>8, <1>9 DEF Multiple, Size
<1>11. Negated(s * q, n.neg) = Negated(s, n.neg) * q
  <2>1. CASE n.neg
    <3>1. -(s * q) = (-s) * q
      OBVIOUS
    <3> QED
      BY <2>1, <3>1 DEF Negated
  <2>2. CASE ~n.neg
    BY <2>2 DEF Negated
  <2> QED
    BY <2>1, <2>2
<1> QED
  BY <1>4, <1>7, <1>8, <1>9, <1>10, <1>11

LEMMA ScaledOrder ==
    ASSUME NEW a \in Int, NEW b \in Int, NEW p \in Nat \ {0}
    PROVE  a < b <=> a * p < b * p
<1>1. ASSUME NEW x \in Int, NEW y \in Int, x < y PROVE x * p < y * p
  <2>1. PICK d \in Nat \ {0} : y = x + d
    <3>1. y - x \in Nat \ {0} /\ y = x + (y - x)
      BY <1>1
    <3> QED
      BY <3>1
  <2>2. y * p = x * p + d * p
    BY <2>1
  <2>3. 1 * p <= d * p
    BY MulGrows
  <2>4. d * p \in Nat /\ x * p \in Int
    OBVIOUS
  <2> QED
    BY <2>2, <2>3, <2>4
<1>2. a < b => a * p < b * p
  BY <1>1
<1>3. b < a => b * p < a * p
  BY <1>1
<1>4. a = b => a * p = b * p
  OBVIOUS
<1>5. a * p \in Int /\ b * p \in Int
  OBVIOUS
<1> QED
  BY <1>2, <1>3, <1>4, <1>5

LEMMA CommonIs ==
    ASSUME NEW a \in Int, NEW b \in Int
    PROVE  /\ Min({a, b}) \in Int /\ Min({a, b}) <= a /\ Min({a, b}) <= b
           /\ Min({a, b}) = IF a > b THEN b ELSE a
BY MinOfTwo

\* which exponent two values are compared at makes no difference
LEMMA BelowAt ==
    ASSUME NEW x, NEW y, Valid(x), Valid(y), x.kind = "finite", y.kind = "finite",
           NEW e \in Int, e <= x.exp, e <= y.exp
    PROVE  Below(x, y) <=> Multiple(x, e) < Multiple(y, e)
<1>1. /\ x.neg \in BOOLEAN /\ x.coef \in Nat /\ x.exp \in Int
      /\ y.neg \in BOOLEAN /\ y.coef \in Nat /\ y.exp \in Int
  BY ValidFields
<1>2. PICK m \in Int : m = Min({x.exp, y.exp}) /\ m <= x.exp /\ m <= y.exp /\ e <= m
  <2>1. PICK a \in Int : a = x.exp
    BY <1>1
  <2>2. PICK b \in Int : b = y.exp
    BY <1>1
  <2>3. Min({a, b}) \in Int /\ Min({a, b}) <= a /\ Min({a, b}) <= b /\ e <= Min({a, b})
    BY <2>1, <2>2, CommonIs
  <2> QED
    BY <2>1, <2>2, <2>3
<1>3. Below(x, y) <=> Multiple(x, m) < Multiple(y, m)
  BY <1>2 DEF Below, IsSpecial
<1>4. PICK k \in Nat : k = m - e /\ e = m - k
  BY <1>2
<1>5. Multiple(x, e) = Multiple(x, m) * powers[k]
  BY <1>1, <1>2, <1>4, MultipleFiner
<1>6. Multiple(y, e) = Multiple(y, m) * powers[k]
  BY <1>1, <1>2, <1>4, MultipleFiner
<1>7. Multiple(x, m) \in Int /\ Multiple(y, m) \in Int
  BY <1>1, <1>2, MultipleIs
<1>8. powers[k] \in Nat \ {0}
  BY PowersFacts
<1> QED
  BY <1>3, <1>5, <1>6, <1>7, <1>8, ScaledOrder

(***************************************************************************)
(* decCompare is the order of the values.                                  *)
(***************************************************************************)
Ordering(x, y) == IF Below(x, y) THEN -1 ELSE IF Below(y, x) THEN 1 ELSE 0

LEMMA CompareCoefsIs ==
    ASSUME NEW x, NEW y, Valid(x), Valid(y), x.coef # 0, y.coef # 0,
           NEW e \in Int, e = Min({x.exp, y.exp})
    PROVE  /\ CompareCoefs(x, y) \in {-1, 0, 1}
           /\ CompareCoefs(x, y) = 1 <=> Size(x, e) > Size(y, e)
           /\ CompareCoefs(x, y) = -1 <=> Size(x, e) < Size(y, e)
<1>1. x.coef \in Nat /\ x.exp \in Int /\ y.coef \in Nat /\ y.exp \in Int
  BY ValidFields
<1>2. PICK a \in Int : a = x.exp
  BY <1>1
<1>3. PICK b \in Int : b = y.exp
  BY <1>1
<1>4. e = (IF a > b THEN b ELSE a) /\ e <= a /\ e <= b
  BY <1>2, <1>3, CommonIs
<1>5. PICK u \in Nat : u = Size(x, e)
  BY <1>1, <1>2, <1>4, SizeIs
<1>6. PICK v \in Nat : v = Size(y, e)
  BY <1>1, <1>3, <1>4, SizeIs
<1>7. CASE a > b
  <2>1. PICK k \in Nat \ {0} : k = a - b
    BY <1>7
  <2>2. UnitCompare(UnitsOf(y), UnitsOf(x), k) = Sign(y.coef - x.coef * powers[k])
    BY <1>1, UnitCompareSound
  <2>3. v = y.coef /\ u = x.coef * powers[k]
    BY <1>1, <1>2, <1>3, <1>4, <1>5, <1>6, <1>7, <2>1, SizeIs DEF Size
  <2>4. CompareCoefs(x, y) = -Sign(v - u)
    BY <1>2, <1>3, <1>7, <2>1, <2>2, <2>3 DEF CompareCoefs
  <2>5. PICK i \in Int : i = Sign(v - u) /\ i \in {-1, 0, 1} /\ (i = 1 <=> v > u) /\ (i = -1 <=> v < u)
    BY SignIs
  <2>6. -i \in {-1, 0, 1} /\ (-i = 1 <=> i = -1) /\ (-i = -1 <=> i = 1)
    BY <2>5
  <2> QED
    BY <1>5, <1>6, <2>4, <2>5, <2>6
<1>8. CASE ~(a > b)
  <2>1. PICK k \in Nat : k = b - a
    BY <1>8
  <2>2. UnitCompare(UnitsOf(x), UnitsOf(y), k) = Sign(x.coef - y.coef * powers[k])
    BY <1>1, UnitCompareSound
  <2>3. u = x.coef /\ v = y.coef * powers[k]
    BY <1>1, <1>2, <1>3, <1>4, <1>5, <1>6, <1>8, <2>1, SizeIs DEF Size
  <2>4. CompareCoefs(x, y) = Sign(u - v)
    BY <1>2, <1>3, <1>8, <2>1, <2>2, <2>3 DEF CompareCoefs
  <2>5. PICK i \in Int : i = Sign(u - v) /\ i \in {-1, 0, 1} /\ (i = 1 <=> u > v) /\ (i = -1 <=> u < v)
    BY SignIs
  <2> QED
    BY <1>5, <1>6, <2>4, <2>5
<1> QED
  BY <1>7, <1>8

SignumOf(n) == Signum(n, FALSE)
ByValue(x, y) == Compare(x, y, FALSE)

LEMMA SignumIs ==
    ASSUME NEW n, Valid(n), ~IsNaN(n)
    PROVE  /\ SignumOf(n) \in Int /\ -1 <= SignumOf(n) /\ SignumOf(n) <= 1
           /\ SignumOf(n) = 0 <=> n.kind = "finite" /\ n.coef = 0
           /\ SignumOf(n) < 0 => n.neg
           /\ SignumOf(n) > 0 => ~n.neg
           /\ n.kind \in {"finite", "inf"}
BY ValidFields DEF SignumOf, Signum, IsZero, Negated, IsNaN, Kinds

LEMMA CompareSound ==
    ASSUME NEW x, NEW y, Valid(x), Valid(y), ~IsNaN(x), ~IsNaN(y)
    PROVE  ByValue(x, y) = Ordering(x, y) /\ ~(Below(x, y) /\ Below(y, x))
<1>1. /\ x.neg \in BOOLEAN /\ x.coef \in Nat /\ x.exp \in Int
      /\ y.neg \in BOOLEAN /\ y.coef \in Nat /\ y.exp \in Int
      /\ x.kind \in {"finite", "inf"} /\ y.kind \in {"finite", "inf"}
  BY ValidFields, SignumIs
<1>2. PICK sx \in Int : sx = SignumOf(x) /\ -1 <= sx /\ sx <= 1
                         /\ (sx = 0 <=> x.kind = "finite" /\ x.coef = 0)
                         /\ (sx < 0 => x.neg) /\ (sx > 0 => ~x.neg)
  BY SignumIs
<1>3. PICK sy \in Int : sy = SignumOf(y) /\ -1 <= sy /\ sy <= 1
                         /\ (sy = 0 <=> y.kind = "finite" /\ y.coef = 0)
                         /\ (sy < 0 => y.neg) /\ (sy > 0 => ~y.neg)
  BY SignumIs
<1> DEFINE BySign == sx # sy \/ sx = 0
<1>4. ByValue(x, y) = IF BySign THEN Sign(sx - sy)
                             ELSE IF y.kind = "inf" THEN IF x.kind = "inf" THEN 0 ELSE -sx
                             ELSE IF x.kind = "inf" THEN sx
                             ELSE sx * CompareCoefs(x, y)
  BY <1>2, <1>3 DEF ByValue, Compare, SignumOf
<1>5. CASE x.kind = "inf" \/ y.kind = "inf"
  <2>1. Below(x, y) <=> \/ x.kind = "inf" /\ x.neg /\ ~(y.kind = "inf" /\ y.neg)
                        \/ y.kind = "inf" /\ ~y.neg /\ ~(x.kind = "inf" /\ ~x.neg)
    BY <1>5 DEF Below, IsSpecial
  <2>2. Below(y, x) <=> \/ y.kind = "inf" /\ y.neg /\ ~(x.kind = "inf" /\ x.neg)
                        \/ x.kind = "inf" /\ ~x.neg /\ ~(y.kind = "inf" /\ ~y.neg)
    BY <1>5 DEF Below, IsSpecial
  <2>3. Sign(sx - sy) = IF sx > sy THEN 1 ELSE IF sx < sy THEN -1 ELSE 0
    BY <1>2, <1>3 DEF Sign
  <2>4. sx < 0 => -sx = 1
    BY <1>2
  <2>5. CASE x.kind = "inf" /\ y.kind = "inf"
    BY <1>1, <1>2, <1>3, <1>4, <2>1, <2>2, <2>3, <2>5 DEF Ordering
  <2>6. CASE x.kind = "inf" /\ y.kind = "finite"
    BY <1>1, <1>2, <1>3, <1>4, <2>1, <2>2, <2>3, <2>6 DEF Ordering
  <2>7. CASE x.kind = "finite" /\ y.kind = "inf"
    BY <1>1, <1>2, <1>3, <1>4, <2>1, <2>2, <2>3, <2>4, <2>7 DEF Ordering
  <2> QED
    BY <1>1, <1>5, <2>5, <2>6, <2>7
<1>6. CASE x.kind = "finite" /\ y.kind = "finite"
  <2>1. PICK e \in Int : e = Min({x.exp, y.exp}) /\ e <= x.exp /\ e <= y.exp
    BY <1>1, CommonIs
  <2>2. PICK a \in Int : a = Multiple(x, e)
    BY <1>1, <2>1, MultipleIs
  <2>3. PICK b \in Int : b = Multiple(y, e)
    BY <1>1, <2>1, MultipleIs
  <2>4. PICK u \in Nat : u = Size(x, e)
    BY <1>1, <2>1, MultipleIs
  <2>5. PICK v \in Nat : v = Size(y, e)
    BY <1>1, <2>1, MultipleIs
  <2>6. (x.neg => a + u = 0) /\ (~x.neg => a = u) /\ (u = 0 <=> x.coef = 0)
    BY <1>1, <2>1, <2>2, <2>4, MultipleIs
  <2>7. (y.neg => b + v = 0) /\ (~y.neg => b = v) /\ (v = 0 <=> y.coef = 0)
    BY <1>1, <2>1, <2>3, <2>5, MultipleIs
  <2>8. (Below(x, y) <=> a < b) /\ (Below(y, x) <=> b < a)
    BY <1>6, <2>1, <2>2, <2>3, BelowAt
  <2>9. Ordering(x, y) = IF a < b THEN -1 ELSE IF b < a THEN 1 ELSE 0
    BY <2>8 DEF Ordering
  <2>10. CASE BySign
    <3>1. ByValue(x, y) = IF sx > sy THEN 1 ELSE IF sx < sy THEN -1 ELSE 0
      BY <1>2, <1>3, <1>4, <2>10 DEF Sign
    <3>2. (sx < sy <=> a < b) /\ (sy < sx <=> b < a)
      BY <1>2, <1>3, <1>6, <2>6, <2>7, <2>10
    <3> QED
      BY <2>8, <2>9, <3>1, <3>2, <1>2, <1>3
  <2>11. CASE ~BySign
    <3>1. x.coef # 0 /\ y.coef # 0 /\ sx = sy /\ (sx = 1 \/ sx = -1)
      BY <1>2, <1>3, <1>6, <2>11
    <3>2. PICK c \in Int : c \in {-1, 0, 1} /\ c = CompareCoefs(x, y) /\ (c = 1 <=> u > v) /\ (c = -1 <=> u < v)
      BY <2>1, <2>4, <2>5, <3>1, CompareCoefsIs
    <3>3. ByValue(x, y) = sx * c
      BY <1>4, <1>6, <2>11, <3>2
    <3>4. CASE sx = 1
      <4>1. a = u /\ b = v /\ sx * c = c
        BY <1>2, <1>3, <2>6, <2>7, <3>1, <3>2, <3>4
      <4> QED
        BY <2>8, <2>9, <3>2, <3>3, <4>1
    <3>5. CASE sx = -1
      <4>1. a + u = 0 /\ b + v = 0 /\ sx * c + c = 0
        BY <1>2, <1>3, <2>6, <2>7, <3>1, <3>2, <3>5
      <4>2. (a < b <=> c = 1) /\ (b < a <=> c = -1)
        BY <3>2, <4>1
      <4>3. sx * c = IF c = 1 THEN -1 ELSE IF c = -1 THEN 1 ELSE 0
        BY <3>2, <3>5
      <4> QED
        BY <2>8, <2>9, <3>2, <3>3, <4>2, <4>3
    <3> QED
      BY <3>1, <3>4, <3>5
  <2> QED
    BY <2>10, <2>11
<1> QED
  BY <1>1, <1>5, <1>6

(***************************************************************************)
(* The total order compares four numbers of each operand, one after the    *)
(* other: its sign and how much of a NaN it is, whether it is infinite,    *)
(* its value at a common exponent, and its exponent.                       *)
(***************************************************************************)
Lex(i, j, k, m) == Foremost(Sign(i), Foremost(Sign(j), Foremost(Sign(k), Sign(m))))

Rank(n) == IF n.neg THEN -1 - NaNRank(n) ELSE NaNRank(n)
Level(n) == IF n.kind # "inf" THEN 0 ELSE IF n.neg THEN -1 ELSE 1
Drift(n) == Negated(n.exp, n.neg)

LEMMA SignOpposed ==
    ASSUME NEW i \in Int, NEW j \in Int, i + j = 0
    PROVE  Sign(i) + Sign(j) = 0
BY DEF Sign

LEMMA LexIs ==
    ASSUME NEW i \in Int, NEW j \in Int, NEW k \in Int, NEW m \in Int
    PROVE  Lex(i, j, k, m) = IF i > 0 THEN 1 ELSE IF i < 0 THEN -1
                             ELSE IF j > 0 THEN 1 ELSE IF j < 0 THEN -1
                             ELSE IF k > 0 THEN 1 ELSE IF k < 0 THEN -1
                             ELSE IF m > 0 THEN 1 ELSE IF m < 0 THEN -1 ELSE 0
BY DEF Lex, Foremost, Sign

LEMMA LexAdds ==
    ASSUME NEW i \in Int, NEW j \in Int, NEW k \in Int, NEW m \in Int,
           NEW i2 \in Int, NEW j2 \in Int, NEW k2 \in Int, NEW m2 \in Int,
           Lex(i, j, k, m) <= 0, Lex(i2, j2, k2, m2) <= 0
    PROVE  Lex(i + i2, j + j2, k + k2, m + m2) <= 0
<1>1. i <= 0 /\ (i = 0 => j <= 0) /\ (i = 0 /\ j = 0 => k <= 0)
      /\ (i = 0 /\ j = 0 /\ k = 0 => m <= 0)
  BY LexIs
<1>2. i2 <= 0 /\ (i2 = 0 => j2 <= 0) /\ (i2 = 0 /\ j2 = 0 => k2 <= 0)
      /\ (i2 = 0 /\ j2 = 0 /\ k2 = 0 => m2 <= 0)
  BY LexIs
<1>3. PICK a \in Int, b \in Int, c \in Int, d \in Int :
          a = i + i2 /\ b = j + j2 /\ c = k + k2 /\ d = m + m2
  OBVIOUS
<1>4. a <= 0 /\ (a = 0 => i = 0 /\ i2 = 0 /\ b <= 0)
      /\ (a = 0 /\ b = 0 => j = 0 /\ j2 = 0 /\ c <= 0)
      /\ (a = 0 /\ b = 0 /\ c = 0 => d <= 0)
  BY <1>1, <1>2, <1>3
<1>5. Lex(a, b, c, d) <= 0
  BY <1>4, LexIs
<1> QED
  BY <1>3, <1>5

LEMMA KeysAre ==
    ASSUME NEW n, Valid(n), NEW e \in Int, e <= n.exp
    PROVE  /\ NaNRank(n) \in Nat /\ Rank(n) \in Int /\ Level(n) \in Int
           /\ Multiple(n, e) \in Int /\ Drift(n) \in Int
           /\ n.neg => Rank(n) = -1 - NaNRank(n) /\ Drift(n) + n.exp = 0
           /\ ~n.neg => Rank(n) = NaNRank(n) /\ Drift(n) = n.exp
           /\ NaNRank(n) = IF n.kind = "snan" THEN 1 ELSE IF n.kind = "nan" THEN 2 ELSE 0
<1>1. n.kind \in Kinds /\ n.neg \in BOOLEAN /\ n.coef \in Nat /\ n.exp \in Int
  BY ValidFields
<1>2. NaNRank(n) \in Nat
      /\ NaNRank(n) = IF n.kind = "snan" THEN 1 ELSE IF n.kind = "nan" THEN 2 ELSE 0
  BY <1>1 DEF NaNRank, Kinds
<1>3. Rank(n) \in Int /\ (n.neg => Rank(n) = -1 - NaNRank(n)) /\ (~n.neg => Rank(n) = NaNRank(n))
  BY <1>1, <1>2 DEF Rank
<1>4. Level(n) \in Int
  BY <1>1 DEF Level
<1>5. Drift(n) \in Int /\ (n.neg => Drift(n) + n.exp = 0) /\ (~n.neg => Drift(n) = n.exp)
  BY <1>1, NegatedIs DEF Drift
<1>6. Multiple(n, e) \in Int
  BY <1>1, MultipleIs
<1> QED
  BY <1>2, <1>3, <1>4, <1>5, <1>6

LEMMA BelowIs ==
    ASSUME NEW x, NEW y, Valid(x), Valid(y), ~IsNaN(x), ~IsNaN(y),
           NEW e \in Int, e <= x.exp, e <= y.exp
    PROVE  Below(x, y) <=> \/ Level(x) < Level(y)
                           \/ Level(x) = Level(y) /\ Multiple(x, e) < Multiple(y, e)
<1>1. /\ x.neg \in BOOLEAN /\ x.coef \in Nat /\ x.exp \in Int
      /\ y.neg \in BOOLEAN /\ y.coef \in Nat /\ y.exp \in Int
      /\ x.kind \in {"finite", "inf"} /\ y.kind \in {"finite", "inf"}
      /\ (x.kind = "inf" => x.coef = 0) /\ (y.kind = "inf" => y.coef = 0)
  BY ValidFields, SignumIs
<1>2. /\ Multiple(x, e) \in Int /\ Multiple(y, e) \in Int
      /\ x.kind = "inf" => Multiple(x, e) = 0
      /\ y.kind = "inf" => Multiple(y, e) = 0
  BY <1>1, MultipleIs
<1>3. CASE x.kind = "finite" /\ y.kind = "finite"
  <2>1. Level(x) = 0 /\ Level(y) = 0
    BY <1>3 DEF Level
  <2> QED
    BY <1>3, <2>1, BelowAt
<1>4. CASE x.kind = "inf" \/ y.kind = "inf"
  <2>1. Below(x, y) <=> \/ x.kind = "inf" /\ x.neg /\ ~(y.kind = "inf" /\ y.neg)
                        \/ y.kind = "inf" /\ ~y.neg /\ ~(x.kind = "inf" /\ ~x.neg)
    BY <1>4 DEF Below, IsSpecial
  <2> QED
    BY <1>1, <1>2, <1>4, <2>1 DEF Level
<1> QED
  BY <1>1, <1>3, <1>4

Keys(x, y, e) == Lex(Rank(x) - Rank(y), Level(x) - Level(y),
                     Multiple(x, e) - Multiple(y, e), Drift(x) - Drift(y))

LEMMA NegatedSign ==
    ASSUME NEW i \in Int, NEW s \in BOOLEAN, NEW j \in Int,
           s => i + j = 0, ~s => i = j
    PROVE  Negated(Sign(i), s) = Sign(j)
<1>1. PICK a \in Int : a = Sign(i)
  BY SignIs
<1>2. PICK b \in Int : b = Sign(j)
  BY SignIs
<1>3. CASE s
  <2>1. a + b = 0
    BY <1>1, <1>2, <1>3, SignOpposed
  <2>2. Negated(a, s) + a = 0 /\ Negated(a, s) \in Int
    BY <1>1, <1>3, NegatedIs
  <2> QED
    BY <1>1, <1>2, <2>1, <2>2
<1>4. CASE ~s
  BY <1>1, <1>4, NegatedIs
<1> QED
  BY <1>3, <1>4

LEMMA TotalOfSigns ==
    ASSUME NEW x, NEW y, Valid(x), Valid(y), x.neg # y.neg,
           NEW e \in Int, e <= x.exp, e <= y.exp
    PROVE  Total(x, y) = Keys(x, y, e)
<1>1. x.neg \in BOOLEAN /\ y.neg \in BOOLEAN
  BY ValidFields
<1>2. Total(x, y) = IF x.neg THEN -1 ELSE 1
  BY <1>1 DEF Total, Negated
<1>3. PICK i \in Int : i = Rank(x) - Rank(y) /\ (x.neg => i < 0) /\ (~x.neg => i > 0)
  <2>1. PICK a \in Nat : a = NaNRank(x)
    BY KeysAre
  <2>2. PICK b \in Nat : b = NaNRank(y)
    BY KeysAre
  <2>3. (x.neg => Rank(x) = -1 - a) /\ (~x.neg => Rank(x) = a)
        /\ (y.neg => Rank(y) = -1 - b) /\ (~y.neg => Rank(y) = b)
    BY <2>1, <2>2, KeysAre
  <2>4. CASE x.neg
    <3>1. ~y.neg /\ Rank(x) - Rank(y) = -1 - a - b
      BY <1>1, <2>3, <2>4
    <3> QED
      BY <2>4, <3>1
  <2>5. CASE ~x.neg
    <3>1. y.neg /\ Rank(x) - Rank(y) = a - (-1 - b)
      BY <1>1, <2>3, <2>5
    <3> QED
      BY <2>5, <3>1
  <2> QED
    BY <2>4, <2>5
<1>4. PICK j \in Int : j = Level(x) - Level(y)
  BY KeysAre
<1>5. PICK k \in Int : k = Multiple(x, e) - Multiple(y, e)
  BY KeysAre
<1>6. PICK m \in Int : m = Drift(x) - Drift(y)
  BY KeysAre
<1>7. Keys(x, y, e) = Lex(i, j, k, m)
  BY <1>3, <1>4, <1>5, <1>6 DEF Keys
<1> QED
  BY <1>1, <1>2, <1>3, <1>7, LexIs

LEMMA TotalOfNaNsIs ==
    ASSUME NEW x, NEW y, Valid(x), Valid(y), x.neg = y.neg, IsNaN(x) \/ IsNaN(y),
           NEW e \in Int, e <= x.exp, e <= y.exp
    PROVE  Total(x, y) = Keys(x, y, e)
<1>1. /\ x.neg \in BOOLEAN /\ x.coef \in Nat /\ x.exp \in Int /\ x.kind \in Kinds
      /\ y.neg \in BOOLEAN /\ y.coef \in Nat /\ y.exp \in Int /\ y.kind \in Kinds
  BY ValidFields
<1>2. Total(x, y) = Negated(Sign(TotalOfNaNs(x, y)), x.neg)
  BY DEF Total
<1>3. PICK i \in Int : i = Rank(x) - Rank(y)
  BY KeysAre
<1>4. PICK j \in Int : j = Level(x) - Level(y)
  BY KeysAre
<1>5. PICK k \in Int : k = Multiple(x, e) - Multiple(y, e)
  BY KeysAre
<1>6. PICK m \in Int : m = Drift(x) - Drift(y)
  BY KeysAre
<1>7. Keys(x, y, e) = Lex(i, j, k, m)
  BY <1>3, <1>4, <1>5, <1>6 DEF Keys
<1>8. PICK a \in Nat : a = NaNRank(x) /\ (x.neg => Rank(x) = -1 - a) /\ (~x.neg => Rank(x) = a)
  BY KeysAre
<1>9. PICK b \in Nat : b = NaNRank(y) /\ (x.neg => Rank(y) = -1 - b) /\ (~x.neg => Rank(y) = b)
  BY KeysAre
<1>10. (x.neg => (a - b) + i = 0) /\ (~x.neg => a - b = i)
  BY <1>3, <1>8, <1>9
<1>11. CASE a # b
  <2>1. TotalOfNaNs(x, y) = a - b
    BY <1>8, <1>9, <1>11 DEF TotalOfNaNs
  <2>2. Total(x, y) = Sign(i)
    BY <1>1, <1>2, <1>10, <2>1, NegatedSign
  <2>3. i # 0
    BY <1>1, <1>10, <1>11
  <2>4. Lex(i, j, k, m) = Sign(i)
    BY <2>3, LexIs DEF Sign
  <2> QED
    BY <1>7, <2>2, <2>4
<1>12. CASE a = b
  <2>1. i = 0
    BY <1>1, <1>10, <1>12
  <2>2. IsNaN(x) /\ IsNaN(y) /\ x.kind # "inf" /\ y.kind # "inf"
    BY <1>8, <1>9, <1>12, KeysAre DEF IsNaN
  <2>3. x.exp = 0 /\ y.exp = 0
    BY <2>2, ValidFields DEF IsNaN
  <2>4. j = 0
    BY <1>4, <2>2 DEF Level
  <2>5. m = 0
    BY <1>1, <1>6, <2>3, KeysAre
  <2>6. TotalOfNaNs(x, y) = Sign(x.coef - y.coef)
    <3>1. TotalOfNaNs(x, y) = UnitCompare(UnitsOf(x), UnitsOf(y), 0)
      BY <1>8, <1>9, <1>12 DEF TotalOfNaNs
    <3>2. UnitCompare(UnitsOf(x), UnitsOf(y), 0) = Sign(x.coef - y.coef * powers[0])
      BY <1>1, UnitCompareSound
    <3>3. y.coef * powers[0] = y.coef
      BY <1>1, PowersFacts
    <3> QED
      BY <3>1, <3>2, <3>3
  <2>7. PICK c \in Nat : c = x.coef
    BY <1>1
  <2>8. PICK d \in Nat : d = y.coef
    BY <1>1
  <2>9. PICK p \in Nat \ {0} : p = powers[0 - e]
    <3>1. 0 - e \in Nat
      BY <2>3
    <3> QED
      BY <3>1, PowersFacts
  <2>10. Size(x, e) = c * p /\ Size(y, e) = d * p
    BY <2>3, <2>7, <2>8, <2>9 DEF Size
  <2>11. (c < d <=> c * p < d * p) /\ (d < c <=> d * p < c * p)
    BY <2>7, <2>8, <2>9, ScaledOrder
  <2>12. PICK u \in Nat : u = c * p
    BY <2>7, <2>8, <2>9
  <2>13. PICK v \in Nat : v = d * p
    BY <2>7, <2>8, <2>9
  <2>14. /\ x.neg => Multiple(x, e) + u = 0 /\ Multiple(y, e) + v = 0
         /\ ~x.neg => Multiple(x, e) = u /\ Multiple(y, e) = v
    BY <1>1, <2>10, <2>12, <2>13, MultipleIs
  <2>15. Sign(Sign(c - d)) = Sign(u - v)
    BY <2>11, <2>12, <2>13, SignIs DEF Sign
  <2>16. (x.neg => (u - v) + k = 0) /\ (~x.neg => u - v = k)
    <3>1. Multiple(x, e) \in Int /\ Multiple(y, e) \in Int
      BY KeysAre
    <3> QED
      BY <1>5, <2>14, <3>1
  <2>17. Total(x, y) = Sign(k)
    <3>1. Total(x, y) = Negated(Sign(u - v), x.neg)
      BY <1>2, <2>6, <2>7, <2>8, <2>15
    <3>2. Negated(Sign(u - v), x.neg) = Sign(k)
      BY <1>1, <2>16, NegatedSign
    <3> QED
      BY <3>1, <3>2
  <2>18. Lex(i, j, k, m) = Sign(k)
    BY <2>1, <2>4, <2>5, LexIs DEF Sign
  <2> QED
    BY <1>7, <2>17, <2>18
<1> QED
  BY <1>11, <1>12

LEMMA TotalOfNumbers ==
    ASSUME NEW x, NEW y, Valid(x), Valid(y), x.neg = y.neg, ~IsNaN(x), ~IsNaN(y),
           NEW e \in Int, e <= x.exp, e <= y.exp
    PROVE  Total(x, y) = Keys(x, y, e)
<1>1. /\ x.neg \in BOOLEAN /\ x.exp \in Int /\ y.exp \in Int
      /\ x.kind \in {"finite", "inf"} /\ y.kind \in {"finite", "inf"}
  BY ValidFields, SignumIs
<1>2. Total(x, y) = Foremost(ByValue(x, y), Negated(Sign(x.exp - y.exp), x.neg))
  BY DEF Total, ByValue
<1>3. PICK i \in Int : i = Rank(x) - Rank(y) /\ i = 0
  <2>1. NaNRank(x) = 0 /\ NaNRank(y) = 0
    BY DEF NaNRank, IsNaN
  <2>2. Rank(x) = Rank(y)
    BY <2>1 DEF Rank
  <2> QED
    BY <2>2, KeysAre
<1>4. PICK j \in Int : j = Level(x) - Level(y) /\ (j < 0 <=> Level(x) < Level(y))
                       /\ (j > 0 <=> Level(y) < Level(x))
  <2>1. Level(x) \in Int /\ Level(y) \in Int
    BY KeysAre
  <2> QED
    BY <2>1
<1>5. PICK k \in Int : /\ k = Multiple(x, e) - Multiple(y, e)
                       /\ k < 0 <=> Multiple(x, e) < Multiple(y, e)
                       /\ k > 0 <=> Multiple(y, e) < Multiple(x, e)
  <2>1. Multiple(x, e) \in Int /\ Multiple(y, e) \in Int
    BY KeysAre
  <2> QED
    BY <2>1
<1>6. PICK m \in Int : m = Drift(x) - Drift(y)
  BY KeysAre
<1>7. Keys(x, y, e) = Lex(i, j, k, m)
  BY <1>3, <1>4, <1>5, <1>6 DEF Keys
<1>8. (x.neg => (x.exp - y.exp) + m = 0) /\ (~x.neg => x.exp - y.exp = m)
  <2>1. /\ Drift(x) \in Int /\ Drift(y) \in Int
        /\ x.neg => Drift(x) + x.exp = 0 /\ Drift(y) + y.exp = 0
        /\ ~x.neg => Drift(x) = x.exp /\ Drift(y) = y.exp
    BY KeysAre
  <2> QED
    BY <1>1, <1>6, <2>1
<1>9. Negated(Sign(x.exp - y.exp), x.neg) = Sign(m)
  BY <1>1, <1>8, NegatedSign
<1>10. ByValue(x, y) = Ordering(x, y)
  BY CompareSound
<1>11. Below(x, y) <=> j < 0 \/ (j = 0 /\ k < 0)
  BY <1>4, <1>5, KeysAre, BelowIs
<1>12. Below(y, x) <=> j > 0 \/ (j = 0 /\ k > 0)
  BY <1>4, <1>5, KeysAre, BelowIs
<1>13. ByValue(x, y) = IF j < 0 \/ (j = 0 /\ k < 0) THEN -1
                       ELSE IF j > 0 \/ (j = 0 /\ k > 0) THEN 1 ELSE 0
  BY <1>10, <1>11, <1>12 DEF Ordering
<1>14. Total(x, y) = Foremost(ByValue(x, y), Sign(m))
  BY <1>2, <1>9
<1>15. Lex(i, j, k, m) = IF j < 0 \/ (j = 0 /\ k < 0) THEN -1
                         ELSE IF j > 0 \/ (j = 0 /\ k > 0) THEN 1 ELSE Sign(m)
  BY <1>3, LexIs DEF Sign
<1> QED
  BY <1>7, <1>13, <1>14, <1>15 DEF Foremost

LEMMA TotalIs ==
    ASSUME NEW x, NEW y, Valid(x), Valid(y), NEW e \in Int, e <= x.exp, e <= y.exp
    PROVE  Total(x, y) = Keys(x, y, e)
BY TotalOfSigns, TotalOfNaNsIs, TotalOfNumbers

\* an exponent at which three numbers can be compared
LEMMA CommonExponent ==
    ASSUME NEW a \in Int, NEW b \in Int, NEW c \in Int
    PROVE  \E e \in Int : e <= a /\ e <= b /\ e <= c
<1>1. CASE a <= b /\ a <= c
  BY <1>1
<1>2. CASE b <= a /\ b <= c
  BY <1>2
<1>3. CASE c <= a /\ c <= b
  BY <1>3
<1> QED
  BY <1>1, <1>2, <1>3

LEMMA SameKeys ==
    ASSUME NEW x, NEW y, Valid(x), Valid(y), NEW e \in Int, e <= x.exp, e <= y.exp,
           Rank(x) = Rank(y), Level(x) = Level(y), Multiple(x, e) = Multiple(y, e),
           Drift(x) = Drift(y)
    PROVE  x = y
<1>1. /\ x.neg \in BOOLEAN /\ x.coef \in Nat /\ x.exp \in Int /\ x.kind \in Kinds
      /\ y.neg \in BOOLEAN /\ y.coef \in Nat /\ y.exp \in Int /\ y.kind \in Kinds
  BY ValidFields
<1>2. PICK a \in Nat : a = NaNRank(x) /\ (x.neg => Rank(x) = -1 - a) /\ (~x.neg => Rank(x) = a)
  BY KeysAre
<1>3. PICK b \in Nat : b = NaNRank(y) /\ (y.neg => Rank(y) = -1 - b) /\ (~y.neg => Rank(y) = b)
  BY KeysAre
<1>4. x.neg = y.neg /\ a = b
  BY <1>1, <1>2, <1>3
<1>5. x.exp = y.exp
  BY <1>1, <1>4, KeysAre
<1>6. /\ NaNRank(x) = IF x.kind = "snan" THEN 1 ELSE IF x.kind = "nan" THEN 2 ELSE 0
      /\ NaNRank(y) = IF y.kind = "snan" THEN 1 ELSE IF y.kind = "nan" THEN 2 ELSE 0
  BY KeysAre
<1>7. Level(x) = 0 <=> x.kind # "inf"
  BY <1>1 DEF Level
<1>8. Level(y) = 0 <=> y.kind # "inf"
  BY <1>1 DEF Level
<1>9. x.kind = y.kind
  <2>1. x.kind = "inf" <=> y.kind = "inf"
    BY <1>7, <1>8
  <2>2. NaNRank(x) = NaNRank(y)
    BY <1>2, <1>3, <1>4
  <2>3. (x.kind = "snan" <=> y.kind = "snan") /\ (x.kind = "nan" <=> y.kind = "nan")
    BY <1>6, <2>2
  <2> QED
    BY <1>1, <2>1, <2>3 DEF Kinds
<1>10. Size(x, e) = Size(y, e)
  BY <1>1, <1>4, MultipleIs
<1>11. x.coef = y.coef
  <2>1. PICK p \in Nat \ {0} : p = powers[x.exp - e]
    <3>1. x.exp - e \in Nat
      BY <1>1
    <3> QED
      BY <3>1, PowersFacts
  <2>2. x.coef * p = y.coef * p
    BY <1>5, <1>10, <2>1 DEF Size
  <2>3. PICK c \in Nat : c = x.coef
    BY <1>1
  <2>4. PICK d \in Nat : d = y.coef
    BY <1>1
  <2>5. (c < d <=> c * p < d * p) /\ (d < c <=> d * p < c * p)
    BY <2>1, ScaledOrder
  <2>6. c * p = d * p /\ c * p \in Nat
    BY <2>2, <2>3, <2>4
  <2>7. ~(c < d) /\ ~(d < c)
    BY <2>5, <2>6
  <2> QED
    BY <2>3, <2>4, <2>7
<1>12. x = [kind |-> x.kind, neg |-> x.neg, coef |-> x.coef, exp |-> x.exp]
  BY NumberFields DEF Valid
<1>13. y = [kind |-> y.kind, neg |-> y.neg, coef |-> y.coef, exp |-> y.exp]
  BY NumberFields DEF Valid
<1> QED
  BY <1>4, <1>5, <1>9, <1>11, <1>12, <1>13

\* The total order is one: it tells apart whatever is not identical, and is
\* antisymmetric and transitive (decCompareOp with COMPTOTAL).
THEOREM TotalIsOrder ==
    ASSUME NEW x, NEW y, NEW z, Valid(x), Valid(y), Valid(z)
    PROVE  /\ Total(x, y) \in {-1, 0, 1}
           /\ Total(x, y) = 0 <=> x = y
           /\ Total(y, x) + Total(x, y) = 0
           /\ Total(x, y) <= 0 /\ Total(y, z) <= 0 => Total(x, z) <= 0
<1>1. x.exp \in Int /\ y.exp \in Int /\ z.exp \in Int
  BY ValidFields
<1>2. PICK e \in Int : e <= x.exp /\ e <= y.exp /\ e <= z.exp
  BY <1>1, CommonExponent
<1>3. /\ Total(x, y) = Keys(x, y, e) /\ Total(y, x) = Keys(y, x, e)
      /\ Total(y, z) = Keys(y, z, e) /\ Total(x, z) = Keys(x, z, e)
  BY <1>2, TotalIs
<1>4. /\ Rank(x) \in Int /\ Level(x) \in Int /\ Multiple(x, e) \in Int /\ Drift(x) \in Int
      /\ Rank(y) \in Int /\ Level(y) \in Int /\ Multiple(y, e) \in Int /\ Drift(y) \in Int
      /\ Rank(z) \in Int /\ Level(z) \in Int /\ Multiple(z, e) \in Int /\ Drift(z) \in Int
  BY <1>2, KeysAre
<1> DEFINE i == Rank(x) - Rank(y)
           j == Level(x) - Level(y)
           k == Multiple(x, e) - Multiple(y, e)
           m == Drift(x) - Drift(y)
           i2 == Rank(y) - Rank(x)
           j2 == Level(y) - Level(x)
           k2 == Multiple(y, e) - Multiple(x, e)
           m2 == Drift(y) - Drift(x)
<1>12. /\ i \in Int /\ j \in Int /\ k \in Int /\ m \in Int
       /\ i2 \in Int /\ j2 \in Int /\ k2 \in Int /\ m2 \in Int
       /\ i + i2 = 0 /\ j + j2 = 0 /\ k + k2 = 0 /\ m + m2 = 0
  BY <1>4
<1>13. Total(x, y) = Lex(i, j, k, m) /\ Total(y, x) = Lex(i2, j2, k2, m2)
  BY <1>3 DEF Keys
<1>14. (i = 0 <=> Rank(x) = Rank(y)) /\ (j = 0 <=> Level(x) = Level(y))
       /\ (k = 0 <=> Multiple(x, e) = Multiple(y, e)) /\ (m = 0 <=> Drift(x) = Drift(y))
  BY <1>4
<1> HIDE DEF i, j, k, m, i2, j2, k2, m2
<1>5. Total(y, x) + Total(x, y) = 0 /\ Total(x, y) \in Int
  <2>1. /\ Lex(i, j, k, m) \in Int /\ Lex(i2, j2, k2, m2) \in Int
        /\ Lex(i, j, k, m) + Lex(i2, j2, k2, m2) = 0
    <3>1. Lex(i2, j2, k2, m2) = IF i2 > 0 THEN 1 ELSE IF i2 < 0 THEN -1
                                ELSE IF j2 > 0 THEN 1 ELSE IF j2 < 0 THEN -1
                                ELSE IF k2 > 0 THEN 1 ELSE IF k2 < 0 THEN -1
                                ELSE IF m2 > 0 THEN 1 ELSE IF m2 < 0 THEN -1 ELSE 0
      BY <1>12, LexIs
    <3>2. Lex(i, j, k, m) = IF i > 0 THEN 1 ELSE IF i < 0 THEN -1
                            ELSE IF j > 0 THEN 1 ELSE IF j < 0 THEN -1
                            ELSE IF k > 0 THEN 1 ELSE IF k < 0 THEN -1
                            ELSE IF m > 0 THEN 1 ELSE IF m < 0 THEN -1 ELSE 0
      BY <1>12, LexIs
    <3> QED
      BY <1>12, <3>1, <3>2
  <2> QED
    BY <1>13, <2>1
<1>6. ASSUME Total(x, y) <= 0, Total(y, z) <= 0 PROVE Total(x, z) <= 0
  <2>1. Lex((Rank(x) - Rank(y)) + (Rank(y) - Rank(z)),
            (Level(x) - Level(y)) + (Level(y) - Level(z)),
            (Multiple(x, e) - Multiple(y, e)) + (Multiple(y, e) - Multiple(z, e)),
            (Drift(x) - Drift(y)) + (Drift(y) - Drift(z))) <= 0
    BY <1>3, <1>4, <1>6, LexAdds DEF Keys
  <2>2. /\ (Rank(x) - Rank(y)) + (Rank(y) - Rank(z)) = Rank(x) - Rank(z)
        /\ (Level(x) - Level(y)) + (Level(y) - Level(z)) = Level(x) - Level(z)
        /\ (Multiple(x, e) - Multiple(y, e)) + (Multiple(y, e) - Multiple(z, e))
               = Multiple(x, e) - Multiple(z, e)
        /\ (Drift(x) - Drift(y)) + (Drift(y) - Drift(z)) = Drift(x) - Drift(z)
    BY <1>4
  <2> QED
    BY <1>3, <2>1, <2>2 DEF Keys
<1>7. /\ Lex(i, j, k, m) \in {-1, 0, 1}
      /\ Lex(i, j, k, m) = 0 <=> i = 0 /\ j = 0 /\ k = 0 /\ m = 0
  BY <1>12, LexIs
<1>8. Total(x, y) \in {-1, 0, 1}
  BY <1>13, <1>7
<1>9. Total(x, y) = 0 <=> /\ Rank(x) = Rank(y) /\ Level(x) = Level(y)
                          /\ Multiple(x, e) = Multiple(y, e) /\ Drift(x) = Drift(y)
  BY <1>13, <1>14, <1>7
<1>10. Total(x, y) = 0 => x = y
  BY <1>2, <1>9, SameKeys
<1>11. x = y => Total(x, y) = 0
  BY <1>9
<1> QED
  BY <1>5, <1>6, <1>8, <1>10, <1>11

\* and agrees with the order of the values
LEMMA TotalAgrees ==
    ASSUME NEW x, NEW y, Valid(x), Valid(y), ~IsNaN(x), ~IsNaN(y)
    PROVE  /\ Below(x, y) => Total(x, y) = -1
           /\ Below(y, x) => Total(x, y) = 1
           /\ SameValue(x, y) /\ x.neg = y.neg
                  => Total(x, y) = Negated(Sign(x.exp - y.exp), x.neg)
           /\ x.neg # y.neg => Total(x, y) = IF x.neg THEN -1 ELSE 1
           /\ ~(Below(x, y) /\ Below(y, x))
<1>1. x.exp \in Int /\ y.exp \in Int /\ x.neg \in BOOLEAN /\ y.neg \in BOOLEAN
  BY ValidFields
<1>2. x.neg # y.neg => Total(x, y) = IF x.neg THEN -1 ELSE 1
  BY <1>1 DEF Total, Negated
<1>3. ~(Below(x, y) /\ Below(y, x)) /\ ByValue(x, y) = Ordering(x, y)
  BY CompareSound
<1>4. x.neg = y.neg => Total(x, y) = Foremost(ByValue(x, y), Negated(Sign(x.exp - y.exp), x.neg))
  BY DEF Total, ByValue
<1>5. CASE x.neg = y.neg
  BY <1>3, <1>4, <1>5 DEF Ordering, Foremost, SameValue
<1>6. CASE x.neg # y.neg
  <2>1. PICK e \in Int : e <= x.exp /\ e <= y.exp
    BY <1>1, CommonExponent
  <2>2. (Below(x, y) <=> Level(x) < Level(y) \/ (Level(x) = Level(y) /\ Multiple(x, e) < Multiple(y, e)))
        /\ (Below(y, x) <=> Level(y) < Level(x) \/ (Level(y) = Level(x) /\ Multiple(y, e) < Multiple(x, e)))
    BY <2>1, BelowIs
  <2>3. ASSUME NEW n, Valid(n), e <= n.exp
        PROVE  /\ n.neg => Level(n) <= 0 /\ Multiple(n, e) <= 0
               /\ ~n.neg => Level(n) >= 0 /\ Multiple(n, e) >= 0
               /\ Level(n) \in Int /\ Multiple(n, e) \in Int
    <3>1. n.neg \in BOOLEAN /\ n.coef \in Nat /\ n.exp \in Int
      BY <2>3, ValidFields
    <3>2. /\ Multiple(n, e) \in Int /\ Size(n, e) \in Nat
          /\ n.neg => Multiple(n, e) + Size(n, e) = 0
          /\ ~n.neg => Multiple(n, e) = Size(n, e)
      BY <2>3, <3>1, MultipleIs
    <3>3. Level(n) \in Int /\ (n.neg => Level(n) <= 0) /\ (~n.neg => Level(n) >= 0)
      BY <3>1 DEF Level
    <3> QED
      BY <3>2, <3>3
  <2>4. /\ Level(x) \in Int /\ Multiple(x, e) \in Int /\ Level(y) \in Int /\ Multiple(y, e) \in Int
        /\ x.neg => Level(x) <= 0 /\ Multiple(x, e) <= 0
        /\ ~x.neg => Level(x) >= 0 /\ Multiple(x, e) >= 0
        /\ y.neg => Level(y) <= 0 /\ Multiple(y, e) <= 0
        /\ ~y.neg => Level(y) >= 0 /\ Multiple(y, e) >= 0
    BY <2>1, <2>3
  <2>5. ASSUME x.neg PROVE ~y.neg /\ ~Below(y, x)
    <3>1. ~y.neg
      BY <1>1, <1>6, <2>5
    <3>2. Level(x) <= Level(y) /\ Multiple(x, e) <= Multiple(y, e)
      BY <2>4, <2>5, <3>1
    <3> QED
      BY <2>2, <2>4, <3>1, <3>2
  <2>6. ASSUME ~x.neg PROVE y.neg /\ ~Below(x, y)
    <3>1. y.neg
      BY <1>1, <1>6, <2>6
    <3>2. Level(y) <= Level(x) /\ Multiple(y, e) <= Multiple(x, e)
      BY <2>4, <2>6, <3>1
    <3> QED
      BY <2>2, <2>4, <3>1, <3>2
  <2> QED
    BY <1>1, <1>2, <1>3, <1>6, <2>5, <2>6
<1> QED
  BY <1>5, <1>6

(***************************************************************************)
(* The larger of two numbers.                                              *)
(***************************************************************************)
ByMagnitude(x, y) == Compare(x, y, TRUE)
LargerByValue(x, y) == Larger(x, y, FALSE)
LargerByMagnitude(x, y) == Larger(x, y, TRUE)
Apart(x, y) == Below(x, y) \/ Below(y, x)

LEMMA CopyIs ==
    ASSUME NEW x, Valid(x), NEW s \in BOOLEAN
    PROVE  /\ WithSign(x, s) = [kind |-> x.kind, neg |-> s, coef |-> x.coef, exp |-> x.exp]
           /\ Valid(WithSign(x, s))
           /\ WithSign(x, s).kind = x.kind /\ WithSign(x, s).coef = x.coef
           /\ WithSign(x, s).exp = x.exp /\ WithSign(x, s).neg = s
<1>1. x \in Numbers
  BY ValidFields
<1>2. /\ x.kind \in Kinds /\ x.coef \in Nat /\ x.exp \in Int
      /\ x = [kind |-> x.kind, neg |-> x.neg, coef |-> x.coef, exp |-> x.exp]
  BY <1>1, NumberFields
<1>3. WithSign(x, s) = [kind |-> x.kind, neg |-> s, coef |-> x.coef, exp |-> x.exp]
  BY <1>2 DEF WithSign
<1>4. WithSign(x, s) \in Numbers
  BY <1>2, <1>3 DEF Numbers
<1>5. /\ WithSign(x, s).kind = x.kind /\ WithSign(x, s).coef = x.coef
      /\ WithSign(x, s).exp = x.exp /\ WithSign(x, s).neg = s
  BY <1>3
<1> QED
  BY <1>3, <1>4, <1>5 DEF Valid, IsSpecial

LEMMA AbsIs ==
    ASSUME NEW x, Valid(x)
    PROVE  /\ CopyAbs(x) = [kind |-> x.kind, neg |-> FALSE, coef |-> x.coef, exp |-> x.exp]
           /\ Valid(CopyAbs(x))
           /\ CopyAbs(x).kind = x.kind /\ CopyAbs(x).coef = x.coef /\ CopyAbs(x).exp = x.exp
           /\ ~CopyAbs(x).neg
<1>1. /\ WithSign(x, FALSE) = [kind |-> x.kind, neg |-> FALSE, coef |-> x.coef, exp |-> x.exp]
      /\ Valid(WithSign(x, FALSE))
      /\ WithSign(x, FALSE).kind = x.kind /\ WithSign(x, FALSE).coef = x.coef
      /\ WithSign(x, FALSE).exp = x.exp /\ WithSign(x, FALSE).neg = FALSE
  BY CopyIs, Zenon
<1>2. CopyAbs(x) = WithSign(x, FALSE)
  BY Zenon DEF CopyAbs
<1> QED
  BY <1>1, <1>2, Zenon

LEMMA MagnitudeIs ==
    ASSUME NEW x, NEW y, Valid(x), Valid(y)
    PROVE  ByMagnitude(x, y) = ByValue(CopyAbs(x), CopyAbs(y))
<1>1. /\ CopyAbs(x).kind = x.kind /\ CopyAbs(x).coef = x.coef /\ CopyAbs(x).exp = x.exp
      /\ ~CopyAbs(x).neg
  BY AbsIs
<1>2. /\ CopyAbs(y).kind = y.kind /\ CopyAbs(y).coef = y.coef /\ CopyAbs(y).exp = y.exp
      /\ ~CopyAbs(y).neg
  BY AbsIs
<1>3. Signum(x, TRUE) = Signum(CopyAbs(x), FALSE)
  BY <1>1 DEF Signum, IsZero, Negated
<1>4. Signum(y, TRUE) = Signum(CopyAbs(y), FALSE)
  BY <1>2 DEF Signum, IsZero, Negated
<1>5. UnitsOf(x) = UnitsOf(CopyAbs(x)) /\ UnitsOf(y) = UnitsOf(CopyAbs(y))
  BY <1>1, <1>2 DEF UnitsOf
<1>6. CompareCoefs(x, y) = CompareCoefs(CopyAbs(x), CopyAbs(y))
  BY <1>1, <1>2, <1>5 DEF CompareCoefs
<1> HIDE DEF UnitsOf
<1> QED
  BY <1>1, <1>2, <1>3, <1>4, <1>6, Zenon DEF ByMagnitude, ByValue, Compare

LEMMA PreferredIs ==
    ASSUME NEW x, NEW y, Valid(x), Valid(y), ~IsNaN(x), ~IsNaN(y),
           x.neg = y.neg => SameValue(x, y)
    PROVE  /\ Preferred(x, y) = 1 \/ Preferred(x, y) = -1
           /\ Total(x, y) # 0 => Preferred(x, y) = Total(x, y)
<1>1. x.exp \in Int /\ y.exp \in Int /\ x.neg \in BOOLEAN /\ y.neg \in BOOLEAN
  BY ValidFields
<1>2. Preferred(x, y) = 1 \/ Preferred(x, y) = -1
  BY <1>1 DEF Preferred, Negated
<1>3. CASE x.neg # y.neg
  <2>1. Total(x, y) = IF x.neg THEN -1 ELSE 1
    BY <1>3, TotalAgrees
  <2>2. Preferred(x, y) = IF x.neg THEN -1 ELSE 1
    BY <1>1, <1>3 DEF Preferred, Negated
  <2> QED
    BY <1>2, <2>1, <2>2
<1>4. CASE x.neg = y.neg
  <2>1. Total(x, y) = Negated(Sign(x.exp - y.exp), x.neg)
    BY <1>4, TotalAgrees
  <2>2. Preferred(x, y) = IF x.neg THEN IF x.exp < y.exp THEN 1 ELSE -1
                          ELSE IF x.exp > y.exp THEN 1 ELSE -1
    BY <1>4 DEF Preferred
  <2>3. CASE x.neg
    <3>1. PICK i \in Int : i = Sign(x.exp - y.exp) /\ (i = 1 <=> x.exp > y.exp)
                           /\ (i = 0 <=> x.exp = y.exp) /\ (i = -1 <=> x.exp < y.exp)
                           /\ (i = 0 \/ i = 1 \/ i = -1)
      BY <1>1, SignIs DEF Sign
    <3>2. Total(x, y) + i = 0 /\ Total(x, y) \in Int
      BY <1>1, <2>1, <2>3, <3>1, NegatedIs
    <3> QED
      BY <1>2, <2>2, <2>3, <3>1, <3>2
  <2>4. CASE ~x.neg
    <3>1. Total(x, y) = Sign(x.exp - y.exp)
      BY <1>1, <2>1, <2>4 DEF Negated
    <3> QED
      BY <1>1, <1>2, <2>2, <2>4, <3>1 DEF Sign
  <2> QED
    BY <1>1, <2>3, <2>4
<1> QED
  BY <1>3, <1>4

LEMMA SameMagnitude ==
    ASSUME NEW x, NEW y, Valid(x), Valid(y), ~IsNaN(x), ~IsNaN(y), x.neg = y.neg,
           ~Apart(CopyAbs(x), CopyAbs(y))
    PROVE  SameValue(x, y)
<1>1. x.exp \in Int /\ y.exp \in Int /\ x.neg \in BOOLEAN
      /\ x.coef \in Nat /\ y.coef \in Nat /\ x.kind \in Kinds /\ y.kind \in Kinds
  BY ValidFields
<1>2. PICK e \in Int : e <= x.exp /\ e <= y.exp
  BY <1>1, CommonExponent
<1> DEFINE a == CopyAbs(x)
           b == CopyAbs(y)
<1>3. /\ Valid(a) /\ a.kind = x.kind /\ a.coef = x.coef /\ a.exp = x.exp /\ ~a.neg /\ ~IsNaN(a)
      /\ Valid(b) /\ b.kind = y.kind /\ b.coef = y.coef /\ b.exp = y.exp /\ ~b.neg /\ ~IsNaN(b)
  BY AbsIs DEF IsNaN
<1>4. ~Below(a, b) /\ ~Below(b, a)
  BY DEF Apart
<1> HIDE DEF a, b
<1>5. Below(a, b) <=> Level(a) < Level(b) \/ (Level(a) = Level(b) /\ Multiple(a, e) < Multiple(b, e))
  BY <1>2, <1>3, BelowIs
<1>6. Below(b, a) <=> Level(b) < Level(a) \/ (Level(b) = Level(a) /\ Multiple(b, e) < Multiple(a, e))
  BY <1>2, <1>3, BelowIs
<1>7. /\ Level(a) \in Int /\ Level(b) \in Int /\ Multiple(a, e) \in Int /\ Multiple(b, e) \in Int
  BY <1>2, <1>3, KeysAre
<1>8. Level(a) = Level(b) /\ Multiple(a, e) = Multiple(b, e)
  BY <1>4, <1>5, <1>6, <1>7
<1>9. Multiple(a, e) = Size(x, e) /\ Multiple(b, e) = Size(y, e)
  <2>1. a.neg \in BOOLEAN /\ b.neg \in BOOLEAN
    BY <1>3, ValidFields
  <2>2. Multiple(a, e) = Size(a, e) /\ Multiple(b, e) = Size(b, e)
    BY <1>1, <1>2, <1>3, <2>1, MultipleIs
  <2> QED
    BY <1>3, <2>2 DEF Size
<1>10. Multiple(x, e) = Multiple(y, e)
  <2>1. Multiple(x, e) = Negated(Size(x, e), x.neg) /\ Multiple(y, e) = Negated(Size(y, e), x.neg)
    BY DEF Multiple, Size
  <2> QED
    BY <1>8, <1>9, <2>1
<1>11. x.kind = "inf" <=> y.kind = "inf"
  BY <1>3, <1>8 DEF Level
<1>12. Level(x) = Level(y)
  BY <1>11 DEF Level
<1>13. Level(x) \in Int /\ Multiple(x, e) \in Int
  BY <1>2, KeysAre
<1>14. ~Below(x, y)
  BY <1>2, <1>10, <1>12, <1>13, BelowIs
<1>15. ~Below(y, x)
  BY <1>2, <1>10, <1>12, <1>13, BelowIs
<1> QED
  BY <1>14, <1>15 DEF SameValue

LEMMA LargerIs ==
    ASSUME NEW x, NEW y, Valid(x), Valid(y), ~IsNaN(x), ~IsNaN(y)
    PROVE  /\ LargerByValue(x, y) = 1 \/ LargerByValue(x, y) = -1
           /\ Total(x, y) # 0 => LargerByValue(x, y) = Total(x, y)
           /\ LargerByMagnitude(x, y) = 1 \/ LargerByMagnitude(x, y) = -1
           /\ IF Apart(CopyAbs(x), CopyAbs(y))
              THEN /\ Total(CopyAbs(x), CopyAbs(y)) # 0
                   /\ LargerByMagnitude(x, y) = Total(CopyAbs(x), CopyAbs(y))
              ELSE Total(x, y) # 0 => LargerByMagnitude(x, y) = Total(x, y)
<1> DEFINE a == CopyAbs(x)
           b == CopyAbs(y)
<1>1. Valid(a) /\ Valid(b) /\ ~IsNaN(a) /\ ~IsNaN(b)
  BY AbsIs DEF IsNaN
<1>2. LargerByValue(x, y) = Foremost(ByValue(x, y), Preferred(x, y))
  BY DEF LargerByValue, Larger, ByValue
<1>3. LargerByMagnitude(x, y) = Foremost(ByValue(a, b), Preferred(x, y))
  BY MagnitudeIs DEF LargerByMagnitude, Larger, ByMagnitude
<1>4. ByValue(x, y) = Ordering(x, y)
  BY CompareSound
<1>5. ByValue(a, b) = Ordering(a, b)
  BY <1>1, CompareSound
<1>6. /\ Below(x, y) => Total(x, y) = -1
      /\ Below(y, x) => Total(x, y) = 1
  BY TotalAgrees
<1>7. /\ Below(a, b) => Total(a, b) = -1
      /\ Below(b, a) => Total(a, b) = 1
      /\ ~(Below(a, b) /\ Below(b, a))
  BY <1>1, TotalAgrees
<1>8. SameValue(x, y) => (/\ Preferred(x, y) = 1 \/ Preferred(x, y) = -1
                          /\ Total(x, y) # 0 => Preferred(x, y) = Total(x, y))
  BY PreferredIs
<1>9. ~Apart(a, b) => (/\ Preferred(x, y) = 1 \/ Preferred(x, y) = -1
                       /\ Total(x, y) # 0 => Preferred(x, y) = Total(x, y))
  BY SameMagnitude, PreferredIs
<1> HIDE DEF a, b
<1>10. /\ LargerByValue(x, y) = 1 \/ LargerByValue(x, y) = -1
       /\ Total(x, y) # 0 => LargerByValue(x, y) = Total(x, y)
  <2>1. CASE Apart(x, y)
    <3>1. LargerByValue(x, y) = IF Below(x, y) THEN -1 ELSE 1
      BY <1>2, <1>4, <2>1 DEF Ordering, Foremost, Apart
    <3>2. Total(x, y) = IF Below(x, y) THEN -1 ELSE 1
      BY <1>6, <2>1 DEF Apart
    <3> QED
      BY <3>1, <3>2
  <2>2. CASE ~Apart(x, y)
    <3>1. LargerByValue(x, y) = Preferred(x, y)
      BY <1>2, <1>4, <2>2 DEF Ordering, Foremost, Apart
    <3>2. SameValue(x, y)
      BY <2>2 DEF Apart, SameValue
    <3> QED
      BY <1>8, <3>1, <3>2
  <2> QED
    BY <2>1, <2>2
<1>11. /\ LargerByMagnitude(x, y) = 1 \/ LargerByMagnitude(x, y) = -1
       /\ IF Apart(a, b)
          THEN Total(a, b) # 0 /\ LargerByMagnitude(x, y) = Total(a, b)
          ELSE Total(x, y) # 0 => LargerByMagnitude(x, y) = Total(x, y)
  <2>1. CASE Apart(a, b)
    <3>1. LargerByMagnitude(x, y) = IF Below(a, b) THEN -1 ELSE 1
      BY <1>3, <1>5, <2>1 DEF Ordering, Foremost, Apart
    <3>2. Total(a, b) = IF Below(a, b) THEN -1 ELSE 1
      BY <1>7, <2>1 DEF Apart
    <3> QED
      BY <2>1, <3>1, <3>2
  <2>2. CASE ~Apart(a, b)
    <3>1. LargerByMagnitude(x, y) = Preferred(x, y)
      BY <1>3, <1>5, <2>2 DEF Ordering, Foremost, Apart
    <3> QED
      BY <1>9, <2>2, <3>1
  <2> QED
    BY <2>1, <2>2
<1> QED
  BY <1>10, <1>11 DEF a, b

(***************************************************************************)
(* The invariant: what the routine of the call delivers stays its result   *)
(* and status, but for the NaN that decStatus makes.                       *)
(***************************************************************************)
Binarily == {"ToInt32", "ToUInt32"}
Textual == {"ToString", "ToEngString", "FromString"}

OutcomeOfOrder(w) ==
    \/ call.routine = "Compare" /\ w = CompareValue(l, r, set)
    \/ call.routine = "CompareSignal" /\ w = CompareSignal(l, r, set)
    \/ call.routine = "CompareTotal" /\ w = CompareTotal(l, r)
    \/ call.routine = "CompareTotalMag" /\ w = CompareTotalMag(l, r)
    \/ call.routine = "Max" /\ w = MaxOrMin(l, r, set, FALSE, FALSE)
    \/ call.routine = "Min" /\ w = MaxOrMin(l, r, set, TRUE, FALSE)
    \/ call.routine = "MaxMag" /\ w = MaxOrMin(l, r, set, FALSE, TRUE)
    \/ call.routine = "MinMag" /\ w = MaxOrMin(l, r, set, TRUE, TRUE)

OutcomeOfCopy(w) ==
    \/ call.routine = "SameQuantum" /\ w = Plain(SameQuantum(l, r))
    \/ call.routine = "CopyAbs" /\ w = Plain(CopyAbs(l))
    \/ call.routine = "CopyNegate" /\ w = Plain(CopyNegate(l))
    \/ call.routine = "CopySign" /\ w = Plain(CopySign(l, r))
    \/ call.routine = "Quantize" /\ w = Quantize(l, r, set)
    \/ call.routine = "Rescale" /\ w = Rescale(l, r, set)

OutcomeOfExponent(w) ==
    \/ call.routine = "Reduce" /\ w = Reduce(l, set)
    \/ call.routine = "Trim" /\ w = Trim(l, set)
    \/ call.routine = "ScaleB" /\ w = ScaleB(l, r, set)
    \/ call.routine = "LogB" /\ w = LogB(l, set)
    \/ call.routine = "ToIntegralExact" /\ w = ToIntegralExact(l, set, given)
    \/ call.routine = "ToIntegralValue" /\ w = ToIntegralValue(l, set, given)
    \/ call.routine = "NextPlus" /\ w = NextPlus(l, set)
    \/ call.routine = "NextMinus" /\ w = NextMinus(l, set)
    \/ call.routine = "NextToward" /\ w = NextToward(l, r, set)

OutcomeOfDigits(w) ==
    \/ call.routine \in {"And", "Or", "Xor"} /\ w = Logical(call.routine, l, r, set)
    \/ call.routine = "Invert" /\ w = Invert(l, set)
    \/ call.routine = "Rotate" /\ w = Rotate(l, r, set)
    \/ call.routine = "Shift" /\ w = Shift(l, r, set)
    \/ call.routine = "BCD" /\ w = Plain(SetBCD(l, GetBCD(l)))
    \/ call.routine = "ToInt32" /\ w = Failed(FromInt(ToInt(l).value), ToInt(l).status)
    \/ call.routine = "ToUInt32" /\ w = Failed(FromInt(ToUInt(l).value), ToUInt(l).status)
    \/ call.routine \in Textual /\ w = FromText(text, set)

Outcome(w) ==
    \/ OutcomeOfOrder(w) \/ OutcomeOfCopy(w) \/ OutcomeOfExponent(w) \/ OutcomeOfDigits(w)

DeliverStep ==
    /\ \/ pc = "read"
       \/ pc = "call" /\ call.routine \notin {"ToString", "ToEngString"}
    /\ \E w : Outcome(w) /\ Deliver(w)

\* res and status are those of w, as they stand before or after decStatus
Left(w) ==
    /\ status = w.status
    /\ res = IF pc = "report" \/ call.routine \in Binarily THEN w.dn
             ELSE AfterStatus(w.dn, w.status)

Operands == Valid(l) /\ Valid(r) /\ IsContext(set) /\ InLimits(set)

TextIs ==
    /\ pc = "read" => call.routine \in Textual
    /\ pc \notin {"save", "call"}
           => /\ call.routine = "ToString" => text = ToText(l, FALSE)
              /\ call.routine = "ToEngString" => text = ToText(l, TRUE)

CallIs ==
    /\ pc \in {"save", "call", "read", "report", "reported", "done"}
    /\ Operands /\ TextIs
    /\ pc \in {"call", "read", "report"} => given = ctx.status
    /\ pc \in {"report", "reported", "done"} => \E w : Outcome(w) /\ Left(w)

LEMMA CallsDeliver ==
    CallIs /\ Next => \/ SaveAndClear \/ Restore \/ RestoreByName \/ Report \/ CallToString
                      \/ DeliverStep
<1> SUFFICES ASSUME CallIs, Next
             PROVE  \/ SaveAndClear \/ Restore \/ RestoreByName \/ Report \/ CallToString
                    \/ DeliverStep
  OBVIOUS
<1>1. CASE CallCompare \/ CallCompareSignal \/ CallCompareTotal \/ CallCompareTotalMag
  BY <1>1 DEF CallCompare, CallCompareSignal, CallCompareTotal, CallCompareTotalMag,
              Called, DeliverStep, Outcome, OutcomeOfOrder, OutcomeOfCopy,
              OutcomeOfExponent, OutcomeOfDigits
<1>2. CASE CallMax \/ CallMin \/ CallMaxMag \/ CallMinMag
  <2>1. pc = "call" /\ call.routine \in {"Max", "Min", "MaxMag", "MinMag"}
    BY <1>2 DEF CallMax, CallMin, CallMaxMag, CallMinMag, Called
  <2>2. \E w : Outcome(w) /\ Deliver(w)
    BY <1>2, Zenon DEF CallMax, CallMin, CallMaxMag, CallMinMag, Called, Outcome, OutcomeOfOrder, OutcomeOfCopy,
              OutcomeOfExponent, OutcomeOfDigits
  <2> QED
    BY <2>1, <2>2 DEF DeliverStep
<1>3. CASE CallSameQuantum \/ CallCopyAbs \/ CallCopyNegate \/ CallCopySign
  BY <1>3 DEF CallSameQuantum, CallCopyAbs, CallCopyNegate, CallCopySign, Called, DeliverStep, Outcome, OutcomeOfOrder, OutcomeOfCopy,
              OutcomeOfExponent, OutcomeOfDigits
<1>4. CASE CallQuantize \/ CallRescale \/ CallReduce \/ CallTrim \/ CallScaleB \/ CallLogB
  BY <1>4 DEF CallQuantize, CallRescale, CallReduce, CallTrim, CallScaleB, CallLogB,
              Called, DeliverStep, Outcome, OutcomeOfOrder, OutcomeOfCopy,
              OutcomeOfExponent, OutcomeOfDigits
<1>5. CASE CallToIntegralExact \/ CallToIntegralValue
  <2>1. given = ctx.status
    BY <1>5 DEF CallIs, CallToIntegralExact, CallToIntegralValue, Called
  <2> QED
    BY <1>5, <2>1 DEF CallToIntegralExact, CallToIntegralValue, Called, DeliverStep, Outcome, OutcomeOfOrder, OutcomeOfCopy,
              OutcomeOfExponent, OutcomeOfDigits
<1>6. CASE CallNextPlus \/ CallNextMinus \/ CallNextToward
  BY <1>6 DEF CallNextPlus, CallNextMinus, CallNextToward, Called, DeliverStep, Outcome, OutcomeOfOrder, OutcomeOfCopy,
              OutcomeOfExponent, OutcomeOfDigits
<1>7. CASE CallLogical
  BY <1>7 DEF CallLogical, Called, DeliverStep, Outcome, OutcomeOfOrder, OutcomeOfCopy,
              OutcomeOfExponent, OutcomeOfDigits
<1>8. CASE CallInvert \/ CallRotate \/ CallShift \/ CallBCD
  BY <1>8 DEF CallInvert, CallRotate, CallShift, CallBCD, Called, DeliverStep, Outcome, OutcomeOfOrder, OutcomeOfCopy,
              OutcomeOfExponent, OutcomeOfDigits
<1>9. CASE CallToInt \/ CallToUInt
  BY <1>9 DEF CallToInt, CallToUInt, Called, DeliverStep, Outcome, OutcomeOfOrder, OutcomeOfCopy,
              OutcomeOfExponent, OutcomeOfDigits
<1>10. CASE CallFromString
  <2>1. /\ call.routine \in Textual /\ Deliver(FromText(text, set))
        /\ pc = "read" \/ (pc = "call" /\ call.routine = "FromString")
    BY <1>10 DEF CallFromString, Called, CallIs, TextIs, Textual
  <2>2. Outcome(FromText(text, set))
    BY <2>1, Zenon DEF Outcome, OutcomeOfOrder, OutcomeOfCopy,
              OutcomeOfExponent, OutcomeOfDigits
  <2> QED
    BY <2>1, <2>2 DEF DeliverStep
<1> QED
  BY <1>1, <1>2, <1>3, <1>4, <1>5, <1>6, <1>7, <1>8, <1>9, <1>10, Zenon DEF Next

LEMMA CallStart == Init => CallIs
<1> SUFFICES ASSUME Init PROVE CallIs
  OBVIOUS
<1>1. PICK f \in Families :
          /\ \E routine \in f.routines, x \in f.lhs, y \in f.rhs :
                 call = [routine |-> routine, l |-> x, r |-> y]
          /\ set \in f.contexts
  BY DEF Init
<1>2. PICK routine \in f.routines, x \in f.lhs, y \in f.rhs :
          call = [routine |-> routine, l |-> x, r |-> y]
  BY <1>1
<1>3. l = x /\ r = y
  BY <1>2 DEF l, r
<1>4. (\A n \in f.lhs \cup f.rhs : Valid(n))
      /\ (\A c \in f.contexts : IsContext(c) /\ InLimits(c))
  BY FamiliesAssumption, Zenon
<1>5. Valid(l) /\ Valid(r) /\ IsContext(set) /\ InLimits(set)
  BY <1>1, <1>2, <1>3, <1>4
<1> QED
  BY <1>5 DEF Init, CallIs, Operands, TextIs

\* what of the call no step changes
SameCall == UNCHANGED <<call, set>>

LEMMA SameOutcome ==
    SameCall /\ UNCHANGED <<text, given>>
        => /\ Operands => Operands'
           /\ \A w : Outcome(w) => Outcome(w)'
<1> SUFFICES ASSUME SameCall, UNCHANGED <<text, given>>
             PROVE  /\ Operands => Operands'
                    /\ \A w : Outcome(w) => Outcome(w)'
  OBVIOUS
<1>1. call' = call /\ set' = set /\ text' = text /\ given' = given
  BY DEF SameCall
<1>2. l' = l /\ r' = r
  BY <1>1 DEF l, r
<1>3. Operands => Operands'
  BY <1>1, <1>2, Zenon DEF Operands
<1>4. ASSUME NEW w, Outcome(w) PROVE Outcome(w)'
  <2>1. OutcomeOfOrder(w) => OutcomeOfOrder(w)'
    BY <1>1, <1>2, Zenon DEF OutcomeOfOrder
  <2>2. OutcomeOfCopy(w) => OutcomeOfCopy(w)'
    BY <1>1, <1>2, Zenon DEF OutcomeOfCopy
  <2>3. OutcomeOfExponent(w) => OutcomeOfExponent(w)'
    BY <1>1, <1>2, Zenon DEF OutcomeOfExponent
  <2>4. OutcomeOfDigits(w) => OutcomeOfDigits(w)'
    BY <1>1, <1>2, Zenon DEF OutcomeOfDigits
  <2> QED
    BY <1>4, <2>1, <2>2, <2>3, <2>4 DEF Outcome
<1> QED
  BY <1>3, <1>4

LEMMA CallKeeps == CallIs /\ [Next]_vars => CallIs'
<1> SUFFICES ASSUME CallIs, [Next]_vars PROVE CallIs'
  OBVIOUS
<1>1. CASE SaveAndClear
  <2>1. SameCall /\ pc = "save" /\ pc' = "call" /\ given' = ctx'.status /\ Operands
    BY <1>1 DEF SaveAndClear, SameCall, CallIs
  <2>2. Operands'
    BY <2>1, Zenon DEF SameCall, Operands, l, r
  <2> QED
    BY <2>1, <2>2 DEF CallIs, TextIs
<1>2. CASE Restore \/ RestoreByName
  <2>1. /\ SameCall /\ UNCHANGED <<text, given, res, status>>
        /\ pc = "reported" /\ pc' = "done" /\ Operands /\ TextIs
    BY <1>2 DEF Restore, RestoreByName, SameCall, CallIs
  <2>2. PICK w : Outcome(w) /\ Left(w)
    BY <2>1 DEF CallIs
  <2>3. Operands' /\ Outcome(w)'
    BY <2>1, <2>2, SameOutcome
  <2>4. Left(w)'
    BY <2>1, <2>2 DEF Left, SameCall
  <2>5. TextIs'
    BY <2>1 DEF TextIs, SameCall, l
  <2> QED
    BY <2>1, <2>3, <2>4, <2>5 DEF CallIs
<1>3. CASE Report
  <2>1. /\ SameCall /\ UNCHANGED <<text, given, status>>
        /\ pc = "report" /\ pc' = "reported" /\ Operands /\ TextIs
        /\ res' = IF call.routine \in Binarily THEN res ELSE AfterStatus(res, status)
    BY <1>3 DEF Report, SameCall, CallIs, Binarily
  <2>2. PICK w : Outcome(w) /\ Left(w)
    BY <2>1 DEF CallIs
  <2>3. Operands' /\ Outcome(w)'
    BY <2>1, <2>2, SameOutcome
  <2>4. Left(w)'
    BY <2>1, <2>2 DEF Left, SameCall
  <2>5. TextIs'
    BY <2>1 DEF TextIs, SameCall, l
  <2> QED
    BY <2>1, <2>3, <2>4, <2>5 DEF CallIs
<1>4. CASE CallToString
  <2>1. /\ SameCall /\ UNCHANGED <<given, ctx>> /\ pc = "call" /\ pc' = "read"
        /\ Operands /\ given = ctx.status
    BY <1>4 DEF CallToString, SameCall, CallIs, Called
  <2>2. Operands' /\ l' = l
    BY <2>1, Zenon DEF SameCall, Operands, l, r
  <2>3. TextIs'
    BY <1>4, <2>1, <2>2 DEF CallToString, Called, TextIs, SameCall, Textual
  <2> QED
    BY <2>1, <2>2, <2>3 DEF CallIs
<1>5. CASE DeliverStep
  <2>1. PICK w : Outcome(w) /\ Deliver(w)
    BY <1>5 DEF DeliverStep
  <2>2. /\ SameCall /\ UNCHANGED <<text, given, ctx>> /\ pc' = "report"
        /\ res' = w.dn /\ status' = w.status
        /\ Operands /\ TextIs /\ given = ctx.status
    BY <1>5, <2>1 DEF DeliverStep, Deliver, SameCall, CallIs
  <2>3. Operands' /\ Outcome(w)'
    BY <2>1, <2>2, SameOutcome
  <2>4. Left(w)'
    BY <2>2 DEF Left
  <2>5. TextIs'
    <3>1. CASE pc = "read"
      BY <2>2, <3>1 DEF TextIs, SameCall, l
    <3>2. CASE pc = "call"
      BY <1>5, <2>2, <3>2 DEF DeliverStep, TextIs, SameCall, l
    <3> QED
      BY <1>5, <3>1, <3>2 DEF DeliverStep
  <2> QED
    BY <2>2, <2>3, <2>4, <2>5 DEF CallIs
<1>6. CASE UNCHANGED vars
  <2>1. SameCall /\ UNCHANGED <<text, given, res, status, ctx, pc>>
    BY <1>6 DEF vars, SameCall
  <2>2. Operands' /\ TextIs'
    BY <2>1, SameOutcome DEF CallIs, TextIs, SameCall, l
  <2>3. ASSUME NEW w, Outcome(w), Left(w) PROVE Outcome(w)' /\ Left(w)'
    BY <2>1, <2>3, SameOutcome DEF Left, SameCall
  <2> QED
    BY <2>1, <2>2, <2>3 DEF CallIs
<1> QED
  BY <1>1, <1>2, <1>3, <1>4, <1>5, <1>6, CallsDeliver

THEOREM CallInvariant == Spec => []CallIs
<1> QED
  BY CallStart, CallKeeps, PTL DEF Spec

(***************************************************************************)
(* A number fitted into a context.                                         *)
(***************************************************************************)
LEMMA PlainIs ==
    ASSUME NEW n
    PROVE  /\ Plain(n) = Work(n, 0, {})
           /\ Plain(n).dn = n /\ Plain(n).residue = 0 /\ Plain(n).status = {}
BY DEF Plain, Work

LEMMA LossesAreNoNaNs == LossFlags \cap NaNFlags = {} /\ "sNaN" \notin LossFlags /\ LossFlags \subseteq Flags
BY DEF LossFlags, NaNFlags, Flags

LEMMA UnroundedStays ==
    ASSUME NEW w, w.residue = 0, NEW c, c.round \in Modes
    PROVE  ApplyRound(w, c) = w
<1>1. ~RoundsUp(w, c.round)
  <2>1. ~(w.residue > 0) /\ ~(w.residue > 5) /\ w.residue # 5 /\ ~(w.residue >= 5)
    OBVIOUS
  <2> QED
    BY <2>1, Zenon DEF RoundsUp, Modes
<1>2. ~RoundsDown(w, c.round)
  BY DEF RoundsDown
<1> QED
  BY <1>1, <1>2 DEF ApplyRound

LEMMA InfinityStays ==
    ASSUME NEW n, Valid(n), n.kind = "inf", NEW c, IsContext(c)
    PROVE  Fitted(n, c) = Plain(n)
<1>1. n.coef = 0 /\ n.exp = 0
  BY ValidFields
<1>2. Digits(0) = 1
  BY DigitsFacts
<1>3. /\ c.digits \in Nat \ {0} /\ c.emin \in Int /\ c.emax \in Int /\ c.round \in Modes
      /\ c.emin <= 0 /\ 0 <= c.emax /\ (c.clamp => c.digits <= c.emax + 1)
  BY ContextHolds DEF Context
<1>4. Plain(n).dn = n /\ Plain(n).residue = 0
  BY PlainIs
<1>5. SetCoeff(Plain(n), c) = Plain(n)
  <2>1. Digits(Plain(n).dn.coef) - c.digits <= 0
    BY <1>1, <1>2, <1>3, <1>4
  <2> QED
    BY <1>4, <2>1 DEF SetCoeff
<1>6. ~BelowNmin(Plain(n), c)
  BY <1>1, <1>2, <1>3, <1>4 DEF BelowNmin
<1>7. ~JustBelowNmin(Plain(n), c)
  BY <1>4 DEF JustBelowNmin
<1>8. ApplyRound(Plain(n), c) = Plain(n)
  BY <1>3, <1>4, UnroundedStays
<1>9. CheckRange(Plain(n), c) = Plain(n)
  <2>1. Etop(c) = c.emax - (c.digits - 1) /\ Etop(c) \in Int
    BY <1>3 DEF Etop
  <2>2. Plain(n).dn.exp = 0 /\ c.emax - Digits(Plain(n).dn.coef) + 1 = c.emax
    BY <1>1, <1>2, <1>3, <1>4
  <2>3. CASE 0 <= Etop(c)
    BY <2>2, <2>3 DEF CheckRange
  <2>4. CASE ~(0 <= Etop(c))
    <3>1. ~c.clamp
      BY <1>3, <2>1, <2>4
    <3>2. ~(0 > c.emax)
      BY <1>3
    <3> QED
      BY <2>2, <2>4, <3>1, <3>2 DEF CheckRange
  <2> QED
    BY <2>3, <2>4
<1> QED
  BY <1>5, <1>6, <1>7, <1>8, <1>9 DEF Fitted, Finalize

LEMMA FittedNumber ==
    ASSUME NEW n, n \in Numbers, ~IsSpecial(n), NEW c, IsContext(c)
    PROVE  /\ Fitted(n, c).dn = Delivered(n.neg, n.coef, n.exp, c)
           /\ Fitted(n, c).status = FlagsFor(n.neg, n.coef, n.exp, c)
           /\ Proper(Fitted(n, c), c)
<1>1. Context(c)
  BY ContextHolds
<1>2. /\ n = Finite(n.neg, n.coef, n.exp)
      /\ n.neg \in BOOLEAN /\ n.coef \in Nat /\ n.exp \in Int
  BY NumberIs
<1>3. PICK x, rs, st :
          /\ SetCoeff(Work(Finite(n.neg, n.coef, n.exp), 0, {}), c) = Work(x, rs, st)
          /\ Carries(x, rs, st, n.neg, n.coef, n.exp, c) /\ rs >= 0
  BY <1>1, <1>2, SetCoeffCarries, Zenon
<1>4. SetCoeff(Plain(n), c) = Work(x, rs, st)
  BY <1>2, <1>3, PlainIs, Zenon
<1>5. Fitted(n, c) = Finalize(Work(x, rs, st), c)
  BY <1>4, Zenon DEF Fitted
<1> DEFINE w == Fitted(n, c)
<1>6. w = Finalize(Work(x, rs, st), c)
  BY <1>5
<1> HIDE DEF w
<1>7. /\ Proper(w, c)
      /\ c.digits > 1 \/ n.coef = 0 \/ rs >= 0
             => /\ w.dn = Delivered(n.neg, n.coef, n.exp, c)
                /\ w.status = FlagsFor(n.neg, n.coef, n.exp, c)
  BY <1>1, <1>3, <1>6, FinishCarries
<1> QED
  BY <1>3, <1>7, Zenon DEF w

LEMMA DeliveredKind ==
    ASSUME NEW neg, NEW n, NEW q, NEW c
    PROVE  Delivered(neg, n, q, c).kind \in {"finite", "inf"}
<1>1. FitZero(neg, q, c).kind = "finite"
  BY DEF FitZero, Finite
<1>2. Nearest(neg, n, q, c).kind = "finite"
  BY DEF Nearest, Finite
<1>3. ASSUME NEW x, x.kind = "finite" PROVE InRange(x, c).kind \in {"finite", "inf"}
  <2>1. Overflowed(x.neg, c).kind \in {"finite", "inf"}
    BY DEF Overflowed, Finite, Special
  <2>2. Folded(x, c).kind = "finite"
    BY <1>3 DEF Folded, Finite
  <2> QED
    BY <2>1, <2>2 DEF InRange
<1>4. InRange(Nearest(neg, n, q, c), c).kind \in {"finite", "inf"}
  BY <1>2, <1>3
<1> QED
  BY <1>1, <1>4 DEF Delivered

LEMMA FittedIs ==
    ASSUME NEW n, Valid(n), ~IsNaN(n), IsContext(set)
    PROVE  /\ Fitted(n, set).dn = Into(n) /\ ~IsNaN(Into(n))
           /\ Fitted(n, set).status \cap NaNFlags = {}
           /\ Digits(Into(n).coef) <= set.digits
<1>1. n \in Numbers /\ n.kind \in {"finite", "inf"}
  BY ValidFields, SignumIs
<1>2. CASE n.kind = "inf"
  <2>1. Fitted(n, set) = Plain(n)
    BY <1>2, InfinityStays
  <2>2. Into(n) = n
    BY <1>2 DEF Into, IsSpecial
  <2>3. Digits(n.coef) = 1 /\ set.digits \in Nat \ {0}
    BY <1>2, ValidFields, DigitsFacts, ContextHolds DEF Context
  <2> QED
    BY <2>1, <2>2, <2>3, PlainIs
<1>3. CASE n.kind = "finite"
  <2>1. ~IsSpecial(n)
    BY <1>3 DEF IsSpecial
  <2>2. /\ Fitted(n, set).dn = Delivered(n.neg, n.coef, n.exp, set)
        /\ Proper(Fitted(n, set), set)
    BY <1>1, <2>1, FittedNumber
  <2>3. Into(n) = Delivered(n.neg, n.coef, n.exp, set)
    BY <2>1 DEF Into
  <2>4. Fitted(n, set).status \subseteq LossFlags /\ FitsIn(Fitted(n, set).dn, set)
    BY <2>2 DEF Proper
  <2>5. Digits(Into(n).coef) <= set.digits
    BY <2>2, <2>3, <2>4 DEF FitsIn
  <2>6. Into(n).kind \in {"finite", "inf"}
    <3>1. Context(set) /\ n.neg \in BOOLEAN /\ n.coef \in Nat /\ n.exp \in Int
      BY ContextHolds, ValidFields
    <3> QED
      BY <2>3, <3>1, DeliveredKind
  <2> QED
    BY <2>2, <2>3, <2>4, <2>5, <2>6, LossesAreNoNaNs DEF IsNaN
<1> QED
  BY <1>1, <1>2, <1>3

(***************************************************************************)
(* The orders are sound.                                                   *)
(***************************************************************************)
LEMMA Ends ==
    ASSUME CallIs, Reported, call.routine \notin Binarily
    PROVE  /\ \E w : Outcome(w) /\ status = w.status /\ res = AfterStatus(w.dn, w.status)
           /\ Operands
<1>1. PICK w : Outcome(w) /\ Left(w)
  BY DEF CallIs, Reported
<1>2. pc # "report"
  BY DEF Reported
<1> QED
  BY <1>1, <1>2 DEF Left, CallIs

LEMMA NoNaNFlag ==
    ASSUME NEW n, NEW st, st \cap NaNFlags = {} \/ "sNaN" \in st
    PROVE  AfterStatus(n, st) = n
BY DEF AfterStatus

OrderRoutines == {"Compare", "CompareSignal", "CompareTotal", "Max", "Min", "MaxMag", "MinMag"}

LEMMA OrderOutcome ==
    ASSUME NEW w, Outcome(w), call.routine \in OrderRoutines
    PROVE  OutcomeOfOrder(w)
BY DEF OrderRoutines, Outcome, OutcomeOfCopy, OutcomeOfExponent, OutcomeOfDigits, Textual

LEMMA SignumNumber ==
    ASSUME NEW i \in Int
    PROVE  /\ FromSignum(i).kind = "finite"
           /\ FromSignum(i).neg <=> i < 0
           /\ IsZero(FromSignum(i)) <=> i = 0
<1>1. CASE i < 0
  <2>1. i # 0
    BY <1>1
  <2>2. FromSignum(i) = Finite(TRUE, 1, 0)
    BY <1>1, <2>1, Zenon DEF FromSignum
  <2>3. /\ Finite(TRUE, 1, 0).kind = "finite" /\ Finite(TRUE, 1, 0).neg
        /\ Finite(TRUE, 1, 0).coef = 1
    BY DEF Finite
  <2>4. FromSignum(i).kind = "finite" /\ FromSignum(i).neg /\ FromSignum(i).coef = 1
    BY <2>2, <2>3, Zenon
  <2> QED
    BY <1>1, <2>1, <2>4 DEF IsZero
<1>2. CASE ~(i < 0)
  <2>1. FromSignum(i) = Finite(FALSE, IF i = 0 THEN 0 ELSE 1, 0)
    <3>1. (i < 0) = FALSE
      BY <1>2
    <3> QED
      BY <3>1, Zenon DEF FromSignum
  <2>2. ASSUME NEW c
        PROVE  /\ Finite(FALSE, c, 0).kind = "finite" /\ ~Finite(FALSE, c, 0).neg
               /\ Finite(FALSE, c, 0).coef = c
    BY DEF Finite
  <2>3. /\ FromSignum(i).kind = "finite" /\ ~FromSignum(i).neg
        /\ FromSignum(i).coef = IF i = 0 THEN 0 ELSE 1
    BY <2>1, <2>2, Zenon
  <2> QED
    BY <1>2, <2>3 DEF IsZero
<1> QED
  BY <1>1, <1>2

LEMMA CompareOrder ==
    ASSUME CallIs, Is({"Compare"}), Numbers2
    PROVE  res = FromSignum(IF Below(l, r) THEN -1 ELSE IF Below(r, l) THEN 1 ELSE 0)
<1>1. Reported /\ call.routine = "Compare" /\ ~IsNaN(l) /\ ~IsNaN(r)
  BY DEF Is, Numbers2
<1>2. PICK w : Outcome(w) /\ status = w.status /\ res = AfterStatus(w.dn, w.status)
  BY <1>1, Ends DEF Binarily
<1>3. Valid(l) /\ Valid(r)
  BY <1>1, Ends DEF Binarily, Operands
<1>4. w = CompareValue(l, r, set)
  BY <1>1, <1>2, OrderOutcome DEF OrderRoutines, OutcomeOfOrder
<1>5. w = Plain(FromSignum(ByValue(l, r)))
  BY <1>1, <1>4, Zenon DEF CompareValue, ByValue
<1>6. res = FromSignum(ByValue(l, r))
  BY <1>2, <1>5, PlainIs, NoNaNFlag
<1>7. ByValue(l, r) = Ordering(l, r)
  BY <1>1, <1>3, CompareSound
<1> QED
  BY <1>6, <1>7 DEF Ordering

LEMMA CompareSignals ==
    ASSUME CallIs, Is({"CompareSignal"})
    PROVE  /\ IsNaN(res) <=> ~Numbers2
           /\ IsNaN(res) => "Invalid_operation" \in status
<1>1. Reported /\ call.routine = "CompareSignal"
  BY DEF Is
<1>2. PICK w : Outcome(w) /\ status = w.status /\ res = AfterStatus(w.dn, w.status)
  BY <1>1, Ends DEF Binarily
<1>3. w = CompareSignal(l, r, set)
  BY <1>1, <1>2, OrderOutcome DEF OrderRoutines, OutcomeOfOrder
<1>4. CASE Numbers2
  <2>1. ~IsNaN(l) /\ ~IsNaN(r)
    BY <1>4 DEF Numbers2
  <2>2. w = Raise(Plain(FromSignum(ByValue(l, r))), {})
    BY <1>3, <2>1, Zenon DEF CompareSignal, CompareValue, ByValue
  <2>3. w = Work(FromSignum(ByValue(l, r)), 0, {} \cup {})
    BY <2>2, PlainIs, WorkParts
  <2>4. w.dn = FromSignum(ByValue(l, r)) /\ w.status = {}
    BY <2>3, WorkFields
  <2>5. res = FromSignum(ByValue(l, r))
    BY <1>2, <2>4, NoNaNFlag
  <2>6. ~IsNaN(res)
    BY <2>5 DEF FromSignum, Finite, IsNaN
  <2> QED
    BY <1>4, <2>6
<1>5. CASE ~Numbers2
  <2>1. IsNaN(l) \/ IsNaN(r)
    BY <1>5 DEF Numbers2
  <2>2. w = Raise(Failed(QuietNaN(l, r, set), NaNStatus(l, r)), {"Invalid_operation", "sNaN"})
    BY <1>3, <2>1 DEF CompareSignal, CompareValue
  <2>3. w = Work(QuietNaN(l, r, set), 0, NaNStatus(l, r) \cup {"Invalid_operation", "sNaN"})
    BY <2>2, WorkParts DEF Failed
  <2>4. w.dn = QuietNaN(l, r, set) /\ w.status = NaNStatus(l, r) \cup {"Invalid_operation", "sNaN"}
    BY <2>3, WorkFields
  <2>5. res = QuietNaN(l, r, set)
    BY <1>2, <2>4, NoNaNFlag
  <2>6. IsNaN(res)
    BY <2>5 DEF QuietNaN, IsNaN
  <2> QED
    BY <1>2, <1>5, <2>4, <2>6
<1> QED
  BY <1>4, <1>5

LEMMA TotalOrders ==
    ASSUME CallIs, Is({"CompareTotal"})
    PROVE  /\ IsZero(res) <=> l = r
           /\ Total(r, l) = -Total(l, r)
           /\ Numbers2 /\ Below(l, r) => res.neg
           /\ Numbers2 /\ SameValue(l, r) /\ l.neg = r.neg /\ l.exp < r.exp
                  => res.neg # l.neg
           /\ \A t \in Thirds : Total(l, r) <= 0 /\ Total(r, t) <= 0 => Total(l, t) <= 0
<1>1. Reported /\ call.routine = "CompareTotal"
  BY DEF Is
<1>2. PICK w : Outcome(w) /\ status = w.status /\ res = AfterStatus(w.dn, w.status)
  BY <1>1, Ends DEF Binarily
<1>3. Valid(l) /\ Valid(r)
  BY <1>1, Ends DEF Binarily, Operands
<1>4. w = CompareTotal(l, r)
  BY <1>1, <1>2, OrderOutcome DEF OrderRoutines, OutcomeOfOrder
<1>5. PICK i \in Int : i = Total(l, r)
  BY <1>3, TotalIsOrder
<1>6. res = FromSignum(i)
  BY <1>2, <1>4, <1>5, PlainIs, NoNaNFlag DEF CompareTotal
<1>7. (IsZero(res) <=> i = 0) /\ (res.neg <=> i < 0)
  BY <1>6, SignumNumber
<1>8. IsZero(res) <=> l = r
  BY <1>3, <1>5, <1>7, TotalIsOrder
<1>9. Total(r, l) = -Total(l, r)
  <2>1. Total(r, l) + i = 0
    BY <1>3, <1>5, TotalIsOrder
  <2>2. PICK j \in Int : j = Total(r, l)
    BY <1>3, TotalIsOrder
  <2>3. j = -i
    BY <2>1, <2>2
  <2> QED
    BY <1>5, <2>2, <2>3
<1>10. ASSUME Numbers2, Below(l, r) PROVE res.neg
  BY <1>3, <1>5, <1>7, <1>10, TotalAgrees DEF Numbers2
<1>11. ASSUME Numbers2, SameValue(l, r), l.neg = r.neg, l.exp < r.exp PROVE res.neg # l.neg
  <2>1. i = Negated(Sign(l.exp - r.exp), l.neg)
    BY <1>3, <1>5, <1>11, TotalAgrees DEF Numbers2
  <2>2. l.exp \in Int /\ r.exp \in Int /\ l.neg \in BOOLEAN
    BY <1>3, ValidFields
  <2>3. Sign(l.exp - r.exp) = -1
    BY <1>11, <2>2 DEF Sign
  <2>4. res.neg \in BOOLEAN
    BY <1>6 DEF FromSignum, Finite
  <2>5. CASE l.neg
    <3>1. PICK j \in Int : j = Sign(l.exp - r.exp) /\ j = -1
      BY <2>3
    <3>2. i + j = 0
      BY <2>1, <2>5, <3>1, NegatedIs
    <3>3. ~(i < 0)
      BY <3>1, <3>2
    <3> QED
      BY <1>7, <2>4, <2>5, <3>3
  <2>6. CASE ~l.neg
    <3>1. i = -1
      BY <2>1, <2>3, <2>6 DEF Negated
    <3> QED
      BY <1>7, <2>2, <2>4, <2>6, <3>1
  <2> QED
    BY <2>5, <2>6
<1>12. \A t \in Thirds : Total(l, r) <= 0 /\ Total(r, t) <= 0 => Total(l, t) <= 0
  BY <1>3, ThirdsAssumption, TotalIsOrder
<1> QED
  BY <1>8, <1>9, <1>10, <1>11, <1>12

\* the sign of an order, turned if the smaller is wanted, picks an operand
LEMMA SignPicks ==
    ASSUME NEW i \in Int, i = 1 \/ i = -1, NEW t \in Int, t # 0 => i = t,
           NEW x, NEW y, t = 0 => x = y, NEW small \in BOOLEAN
    PROVE  (IF Negated(i, small) > 0 THEN x ELSE y) = (IF t < 0 <=> ~small THEN y ELSE x)
<1>1. CASE small
  <2>1. PICK j \in Int : j = Negated(i, small) /\ j + i = 0
    BY <1>1, NegatedIs
  <2>2. (t < 0 <=> ~small) <=> ~(t < 0)
    BY <1>1
  <2>3. (IF j > 0 THEN x ELSE y) = (IF ~(t < 0) THEN y ELSE x)
    BY <2>1
  <2> QED
    BY <2>1, <2>2, <2>3
<1>2. CASE ~small
  <2>1. Negated(i, small) = i
    BY <1>2, NegatedIs
  <2> QED
    BY <1>2, <2>1
<1> QED
  BY <1>1, <1>2

LEMMA OrderTells ==
    ASSUME NEW x, NEW y, Valid(x), Valid(y), ~IsNaN(x), ~IsNaN(y)
    PROVE  Below(x, y) \/ (~Below(y, x) /\ Total(x, y) < 0) <=> Total(x, y) < 0
<1>1. PICK t \in Int : t = Total(x, y)
  BY TotalIsOrder
<1>2. (Below(x, y) => t = -1) /\ (Below(y, x) => t = 1)
  BY <1>1, TotalAgrees
<1> QED
  BY <1>1, <1>2

\* the operand that the routine picks of two numbers
PickByValue(small) == IF Negated(LargerByValue(l, r), small) > 0 THEN l ELSE r
PickByMagnitude(small) == IF Negated(LargerByMagnitude(l, r), small) > 0 THEN l ELSE r

LEMMA ValuePicks ==
    ASSUME Valid(l), Valid(r), ~IsNaN(l), ~IsNaN(r), NEW small \in BOOLEAN,
           call.routine = IF small THEN "Min" ELSE "Max"
    PROVE  PickByValue(small) = Picked
<1>1. PICK t \in Int : t = Total(l, r) /\ (t = 0 => l = r)
  BY TotalIsOrder
<1>2. PICK i \in Int : i = LargerByValue(l, r) /\ (i = 1 \/ i = -1) /\ (t # 0 => i = t)
  BY <1>1, LargerIs
<1>3. Ordered(l, r) = <<l, r>>
  BY DEF Ordered
<1>4. RightIsLarger <=> t < 0
  BY <1>1, <1>3, OrderTells DEF RightIsLarger
<1>5. PickByValue(small) = (IF t < 0 <=> ~small THEN r ELSE l)
  BY <1>1, <1>2, SignPicks DEF PickByValue
<1>6. call.routine \in {"Max", "MaxMag"} <=> ~small
  OBVIOUS
<1> QED
  BY <1>4, <1>5, <1>6, Zenon DEF Picked

LEMMA MagnitudePicks ==
    ASSUME Valid(l), Valid(r), ~IsNaN(l), ~IsNaN(r), NEW small \in BOOLEAN,
           call.routine = IF small THEN "MinMag" ELSE "MaxMag"
    PROVE  PickByMagnitude(small) = Picked
<1>1. call.routine \in {"Max", "MaxMag"} <=> ~small
  OBVIOUS
<1>2. call.routine \notin {"Max", "Min"}
  OBVIOUS
<1>3. Valid(CopyAbs(l)) /\ Valid(CopyAbs(r)) /\ ~IsNaN(CopyAbs(l)) /\ ~IsNaN(CopyAbs(r))
  BY AbsIs DEF IsNaN
<1>4. CASE Apart(CopyAbs(l), CopyAbs(r))
  <2>1. PICK t \in Int : t = Total(CopyAbs(l), CopyAbs(r))
    BY <1>3, TotalIsOrder
  <2>2. PICK i \in Int : i = LargerByMagnitude(l, r) /\ (i = 1 \/ i = -1) /\ i = t /\ t # 0
    BY <1>4, <2>1, LargerIs
  <2>3. Ordered(l, r) = <<CopyAbs(l), CopyAbs(r)>>
    BY <1>2, <1>4 DEF Ordered, Apart
  <2>4. RightIsLarger <=> t < 0
    BY <1>3, <2>1, <2>3, OrderTells DEF RightIsLarger
  <2>5. PickByMagnitude(small) = (IF t < 0 <=> ~small THEN r ELSE l)
    BY <2>1, <2>2, SignPicks DEF PickByMagnitude
  <2> QED
    BY <1>1, <2>4, <2>5, Zenon DEF Picked
<1>5. CASE ~Apart(CopyAbs(l), CopyAbs(r))
  <2>1. PICK t \in Int : t = Total(l, r) /\ (t = 0 => l = r)
    BY TotalIsOrder
  <2>2. PICK i \in Int : i = LargerByMagnitude(l, r) /\ (i = 1 \/ i = -1) /\ (t # 0 => i = t)
    BY <1>5, <2>1, LargerIs
  <2>3. Ordered(l, r) = <<l, r>>
    BY <1>2, <1>5 DEF Ordered, Apart
  <2>4. RightIsLarger <=> t < 0
    BY <2>1, <2>3, OrderTells DEF RightIsLarger
  <2>5. PickByMagnitude(small) = (IF t < 0 <=> ~small THEN r ELSE l)
    BY <2>1, <2>2, SignPicks DEF PickByMagnitude
  <2> QED
    BY <1>1, <2>4, <2>5, Zenon DEF Picked
<1> QED
  BY <1>4, <1>5

TwoNaNs == "snan" \in {l.kind, r.kind} \/ (IsNaN(l) /\ IsNaN(r))

\* what is given to decCopyFit if not a NaN
Candidate(w) ==
    \/ call.routine = "Max" /\ w = PickByValue(FALSE)
    \/ call.routine = "Min" /\ w = PickByValue(TRUE)
    \/ call.routine = "MaxMag" /\ w = PickByMagnitude(FALSE)
    \/ call.routine = "MinMag" /\ w = PickByMagnitude(TRUE)

LEMMA PicksOne ==
    ASSUME NEW w, OutcomeOfOrder(w), call.routine \in {"Max", "Min", "MaxMag", "MinMag"}
    PROVE  IF TwoNaNs THEN w = Failed(QuietNaN(l, r, set), NaNStatus(l, r))
           ELSE \E n : /\ w = Fitted(n, set)
                       /\ IF IsNaN(l) THEN n = r ELSE IF IsNaN(r) THEN n = l ELSE Candidate(n)
<1>1. CASE call.routine = "Max"
  <2>1. w = MaxOrMin(l, r, set, FALSE, FALSE)
    BY <1>1, Zenon DEF OutcomeOfOrder
  <2> QED
    BY <1>1, <2>1, Zenon DEF MaxOrMin, TwoNaNs, Candidate, PickByValue, LargerByValue
<1>2. CASE call.routine = "Min"
  <2>1. w = MaxOrMin(l, r, set, TRUE, FALSE)
    BY <1>2, Zenon DEF OutcomeOfOrder
  <2> QED
    BY <1>2, <2>1, Zenon DEF MaxOrMin, TwoNaNs, Candidate, PickByValue, LargerByValue
<1>3. CASE call.routine = "MaxMag"
  <2>1. w = MaxOrMin(l, r, set, FALSE, TRUE)
    BY <1>3, Zenon DEF OutcomeOfOrder
  <2> QED
    BY <1>3, <2>1, Zenon DEF MaxOrMin, TwoNaNs, Candidate, PickByMagnitude, LargerByMagnitude
<1>4. CASE call.routine = "MinMag"
  <2>1. w = MaxOrMin(l, r, set, TRUE, TRUE)
    BY <1>4, Zenon DEF OutcomeOfOrder
  <2> QED
    BY <1>4, <2>1, Zenon DEF MaxOrMin, TwoNaNs, Candidate, PickByMagnitude, LargerByMagnitude
<1> QED
  BY <1>1, <1>2, <1>3, <1>4

LEMMA CandidateIsPicked ==
    ASSUME Valid(l), Valid(r), ~IsNaN(l), ~IsNaN(r), NEW n, Candidate(n)
    PROVE  n = Picked
<1>1. CASE call.routine = "Max" /\ n = PickByValue(FALSE)
  <2>1. call.routine = IF FALSE THEN "Min" ELSE "Max"
    BY <1>1
  <2>2. PickByValue(FALSE) = Picked
    BY <2>1, ValuePicks, Zenon
  <2> QED
    BY <1>1, <2>2, Zenon
<1>2. CASE call.routine = "Min" /\ n = PickByValue(TRUE)
  <2>1. call.routine = IF TRUE THEN "Min" ELSE "Max"
    BY <1>2
  <2>2. PickByValue(TRUE) = Picked
    BY <2>1, ValuePicks, Zenon
  <2> QED
    BY <1>2, <2>2, Zenon
<1>3. CASE call.routine = "MaxMag" /\ n = PickByMagnitude(FALSE)
  <2>1. call.routine = IF FALSE THEN "MinMag" ELSE "MaxMag"
    BY <1>3
  <2>2. PickByMagnitude(FALSE) = Picked
    BY <2>1, MagnitudePicks, Zenon
  <2> QED
    BY <1>3, <2>2, Zenon
<1>4. CASE call.routine = "MinMag" /\ n = PickByMagnitude(TRUE)
  <2>1. call.routine = IF TRUE THEN "MinMag" ELSE "MaxMag"
    BY <1>4
  <2>2. PickByMagnitude(TRUE) = Picked
    BY <2>1, MagnitudePicks, Zenon
  <2> QED
    BY <1>4, <2>2, Zenon
<1> QED
  BY <1>1, <1>2, <1>3, <1>4, Zenon DEF Candidate

LEMMA OnePicked ==
    ASSUME CallIs, Is({"Max", "Min", "MaxMag", "MinMag"})
    PROVE  IF "snan" \in {l.kind, r.kind} \/ (IsNaN(l) /\ IsNaN(r))
           THEN IsNaN(res) ELSE res = Into(Picked)
<1>1. Reported /\ call.routine \in {"Max", "Min", "MaxMag", "MinMag"}
  BY DEF Is
<1>2. PICK w : Outcome(w) /\ status = w.status /\ res = AfterStatus(w.dn, w.status)
  BY <1>1, Ends DEF Binarily
<1>3. Valid(l) /\ Valid(r) /\ IsContext(set)
  BY <1>1, Ends DEF Binarily, Operands
<1>4. OutcomeOfOrder(w)
  BY <1>1, <1>2, OrderOutcome DEF OrderRoutines
<1>5. CASE TwoNaNs
  <2>1. w = Failed(QuietNaN(l, r, set), NaNStatus(l, r))
    BY <1>1, <1>4, <1>5, PicksOne
  <2>2. w.dn = QuietNaN(l, r, set) /\ w.status = NaNStatus(l, r)
    BY <2>1, WorkFields DEF Failed
  <2>3. NaNStatus(l, r) = {} \/ "sNaN" \in NaNStatus(l, r)
    BY DEF NaNStatus
  <2>4. res = QuietNaN(l, r, set)
    BY <1>2, <2>2, <2>3, NoNaNFlag
  <2>5. IsNaN(res)
    BY <2>4 DEF QuietNaN, IsNaN
  <2> QED
    BY <1>5, <2>5 DEF TwoNaNs
<1>6. CASE ~TwoNaNs
  <2>1. PICK n : /\ w = Fitted(n, set)
                 /\ IF IsNaN(l) THEN n = r ELSE IF IsNaN(r) THEN n = l ELSE Candidate(n)
    BY <1>1, <1>4, <1>6, PicksOne
  <2>2. n = Picked /\ (n = l \/ n = r) /\ Valid(n)
    <3>1. CASE IsNaN(l)
      BY <1>3, <2>1, <3>1 DEF Picked
    <3>2. CASE ~IsNaN(l) /\ IsNaN(r)
      BY <1>3, <2>1, <3>2 DEF Picked
    <3>3. CASE ~IsNaN(l) /\ ~IsNaN(r)
      <4>1. n = Picked
        BY <1>3, <2>1, <3>3, CandidateIsPicked
      <4>2. Picked = l \/ Picked = r
        BY DEF Picked
      <4> QED
        BY <1>3, <4>1, <4>2
    <3> QED
      BY <3>1, <3>2, <3>3
  <2>3. ~IsNaN(n)
    <3>1. CASE IsNaN(l)
      BY <1>6, <2>1, <3>1 DEF TwoNaNs
    <3>2. CASE ~IsNaN(l)
      <4>1. CASE IsNaN(r)
        BY <2>1, <3>2, <4>1
      <4>2. CASE ~IsNaN(r)
        BY <2>2, <3>2, <4>2
      <4> QED
        BY <4>1, <4>2
    <3> QED
      BY <3>1, <3>2
  <2>4. w.dn = Into(n) /\ w.status \cap NaNFlags = {}
    BY <1>3, <2>1, <2>2, <2>3, FittedIs
  <2>5. res = Into(Picked)
    BY <1>2, <2>2, <2>4, NoNaNFlag
  <2> QED
    BY <1>6, <2>5 DEF TwoNaNs
<1> QED
  BY <1>5, <1>6

LEMMA OrdersAreSound == CallIs => OrderIsSound
<1> SUFFICES ASSUME CallIs PROVE OrderIsSound
  OBVIOUS
<1>1. Is({"Compare"}) /\ Numbers2
          => res = FromSignum(IF Below(l, r) THEN -1 ELSE IF Below(r, l) THEN 1 ELSE 0)
  BY CompareOrder
<1>2. Is({"CompareSignal"})
          => /\ IsNaN(res) <=> ~Numbers2
             /\ IsNaN(res) => "Invalid_operation" \in status
  BY CompareSignals
<1>3. Is({"CompareTotal"})
          => /\ IsZero(res) <=> l = r
             /\ Total(r, l) = -Total(l, r)
             /\ Numbers2 /\ Below(l, r) => res.neg
             /\ Numbers2 /\ SameValue(l, r) /\ l.neg = r.neg /\ l.exp < r.exp
                    => res.neg # l.neg
             /\ \A t \in Thirds :
                    Total(l, r) <= 0 /\ Total(r, t) <= 0 => Total(l, t) <= 0
  BY TotalOrders
<1>4. Is({"Max", "Min", "MaxMag", "MinMag"})
          => IF "snan" \in {l.kind, r.kind} \/ (IsNaN(l) /\ IsNaN(r))
             THEN IsNaN(res)
             ELSE res = Into(Picked)
  BY OnePicked
<1> QED
  BY <1>1, <1>2, <1>3, <1>4, Zenon DEF OrderIsSound

\* In every call the comparison by value is the order of the exact values,
\* the total order is one and agrees with it, and the larger or the smaller is
\* the operand that the order asked for puts last or first, rounded into the
\* context (decCompareOp, decCompare, decUnitCompare).
THEOREM OrdersHold == Spec => []OrderIsSound
<1> QED
  BY CallInvariant, OrdersAreSound, PTL

(***************************************************************************)
(* The flags: what the context gathers around a call.                      *)
(***************************************************************************)
IsState(c) == c = [status |-> c.status, traps |-> c.traps, raised |-> c.raised]
IsSaved(s) == s = [mask |-> s.mask, status |-> s.status, by |-> s.by]

LEMMA StateIs ==
    ASSUME NEW c, IsState(c), NEW flags
    PROVE  /\ SetStatus(c, flags) = [status |-> c.status \cup flags, traps |-> c.traps,
                                     raised |-> IF flags \cap c.traps # {} THEN flags ELSE {}]
           /\ SetStatusQuiet(c, flags)
                  = [status |-> c.status \cup flags, traps |-> c.traps, raised |-> c.raised]
           /\ ClearStatus(c, flags)
                  = [status |-> c.status \ flags, traps |-> c.traps, raised |-> c.raised]
<1>1. PICK s, t, x : c = [status |-> s, traps |-> t, raised |-> x]
  BY DEF IsState
<1>2. c.status = s /\ c.traps = t /\ c.raised = x
  BY <1>1
<1>3. SetStatus(c, flags) = [status |-> s \cup flags, traps |-> t,
                             raised |-> IF flags \cap t # {} THEN flags ELSE {}]
  <2>1. PICK raised : raised = IF flags \cap t # {} THEN flags ELSE {}
    OBVIOUS
  <2>2. SetStatus(c, flags) = [c EXCEPT !.status = @ \cup flags, !.raised = raised]
    BY <1>2, <2>1, Zenon DEF SetStatus
  <2>3. SetStatus(c, flags) = [status |-> s \cup flags, traps |-> t, raised |-> raised]
    BY <1>1, <2>2
  <2> QED
    BY <2>1, <2>3, Zenon
<1>4. SetStatusQuiet(c, flags) = [status |-> s \cup flags, traps |-> t, raised |-> x]
  BY <1>1, <1>2 DEF SetStatusQuiet
<1>5. ClearStatus(c, flags) = [status |-> s \ flags, traps |-> t, raised |-> x]
  BY <1>1, <1>2 DEF ClearStatus
<1> QED
  BY <1>2, <1>3, <1>4, <1>5

LEMMA ThreeMore ==
    ASSUME NEW S, IsFiniteSet(S), NEW x, NEW y, NEW z
    PROVE  IsFiniteSet(((S \cup {x}) \cup {y}) \cup {z})
<1>1. IsFiniteSet(S \cup {x})
  BY FS_AddElement
<1>2. IsFiniteSet((S \cup {x}) \cup {y})
  BY <1>1, FS_AddElement
<1> QED
  BY <1>2, FS_AddElement

LEMMA FlagsFinite == IsFiniteSet(Flags)
<1>1. IsFiniteSet({})
  BY FS_EmptySet
<1> DEFINE a == {"Invalid_operation", "Division_impossible", "Division_undefined"}
           b == {"Conversion_syntax", "Insufficient_storage", "Invalid_context"}
           c == {"Inexact", "Rounded", "Subnormal", "Underflow"}
           d == {"Overflow", "Clamped", "Division_by_zero", "sNaN"}
<1>2. IsFiniteSet(a)
  <2>1. a = (({} \cup {"Invalid_operation"}) \cup {"Division_impossible"})
                \cup {"Division_undefined"}
    OBVIOUS
  <2> HIDE DEF a
  <2> QED
    BY <1>1, <2>1, ThreeMore
<1>3. IsFiniteSet(a \cup b)
  <2>1. a \cup b = ((a \cup {"Conversion_syntax"}) \cup {"Insufficient_storage"})
                       \cup {"Invalid_context"}
    OBVIOUS
  <2> HIDE DEF a, b
  <2> QED
    BY <1>2, <2>1, ThreeMore
<1>4. IsFiniteSet((a \cup b) \cup c)
  <2>1. (a \cup b) \cup c = ((((a \cup b) \cup {"Inexact"}) \cup {"Rounded"})
                                \cup {"Subnormal"}) \cup {"Underflow"}
    OBVIOUS
  <2> HIDE DEF a, b, c
  <2> QED
    BY <1>3, <2>1, ThreeMore, FS_AddElement
<1>5. IsFiniteSet(((a \cup b) \cup c) \cup d)
  <2>1. ((a \cup b) \cup c) \cup d
            = (((((a \cup b) \cup c) \cup {"Overflow"}) \cup {"Clamped"})
                  \cup {"Division_by_zero"}) \cup {"sNaN"}
    OBVIOUS
  <2> HIDE DEF a, b, c, d
  <2> QED
    BY <1>4, <2>1, ThreeMore, FS_AddElement
<1>6. Flags = ((a \cup b) \cup c) \cup d
  BY DEF Flags, NaNFlags
<1> QED
  BY <1>5, <1>6

\* fewer than two flags have a name that is understood
LEMMA NamesOf ==
    ASSUME NEW s, s \subseteq Flags \ {"sNaN"}
    PROVE  /\ Cardinality(s) < 2 <=> Recognized(ConditionOf(s))
           /\ Cardinality(s) < 2 => FlagsOf(ConditionOf(s)) = s
<1>1. IsFiniteSet(s) /\ Cardinality(s) \in Nat
  BY FlagsFinite, FS_Subset, FS_CardinalityType
<1>2. Cardinality(s) = 0 <=> s = {}
  BY <1>1, FS_EmptySet
<1>3. Cardinality(s) = 1 <=> \E x : s = {x}
  BY <1>1, FS_Singleton
<1>4. "No status" \notin Flags /\ "Multiple status" \notin Flags /\ "No status" # "Multiple status"
  BY DEF Flags, NaNFlags
<1>5. CASE s = {}
  <2>1. ConditionOf(s) = "No status"
    BY <1>5 DEF ConditionOf
  <2>2. Recognized(ConditionOf(s)) /\ FlagsOf(ConditionOf(s)) = {}
    BY <2>1, Zenon DEF Recognized, FlagsOf
  <2> QED
    BY <1>1, <1>2, <1>5, <2>2
<1>6. CASE s # {} /\ \E x : s = {x}
  <2>1. PICK x : s = {x}
    BY <1>6
  <2>2. (CHOOSE f \in s : TRUE) = x
    BY <2>1
  <2>3. ConditionOf(s) = x /\ x \in Flags \ {"sNaN"}
    BY <1>6, <2>1, <2>2 DEF ConditionOf
  <2> QED
    <3>1. x # "No status"
      BY <1>4, <2>3
    <3>2. Recognized(ConditionOf(s)) /\ FlagsOf(ConditionOf(s)) = {x}
      BY <2>3, <3>1, Zenon DEF Recognized, FlagsOf
    <3>3. Cardinality(s) = 1
      BY <1>3, <2>1
    <3> QED
      BY <2>1, <3>2, <3>3
<1>7. CASE s # {} /\ ~ \E x : s = {x}
  <2>1. ConditionOf(s) = "Multiple status"
    BY <1>7 DEF ConditionOf
  <2> QED
    <3>1. ~Recognized(ConditionOf(s))
      BY <1>4, <2>1, Zenon DEF Recognized
    <3>2. ~(Cardinality(s) < 2)
      BY <1>1, <1>2, <1>3, <1>7
    <3> QED
      BY <3>1, <3>2
<1> QED
  BY <1>5, <1>6, <1>7

Traps == ctx.raised # {} <=> LastRaised \cap ctx.traps # {}

Restored ==
    /\ ctx.status \cap saved.mask =
           IF saved.by = "bits" \/ Cardinality(saved.status) < 2 THEN saved.status ELSE {}
    /\ given \ saved.mask \subseteq ctx.status
    /\ (status \ {"sNaN"}) \ saved.mask \subseteq ctx.status

StatusKept ==
    /\ IsState(ctx) /\ IsSaved(saved)
    /\ saved.mask \subseteq Flags \ {"sNaN"} /\ saved.status \subseteq saved.mask
    /\ pc \in {"save", "call", "read", "report", "reported", "done"}
    /\ pc # "done" => saved.by = "bits"
    /\ pc # "save" => given \cap saved.mask = {}
    /\ pc \in {"call", "read", "report"} => given = ctx.status
    /\ pc \notin {"reported", "done"} => ctx.raised = {}
    /\ pc = "reported" => ctx.status = given \cup (status \ {"sNaN"})
    /\ Reported => Traps
    /\ pc = "done" => Restored

LEMMA StatusStart == Init => StatusKept
<1> SUFFICES ASSUME Init PROVE StatusKept
  OBVIOUS
<1>1. PICK f \in Families :
          /\ \E s \in f.earlier, t \in f.traps :
                 ctx = [status |-> s, traps |-> t, raised |-> {}]
          /\ \E mask \in f.masks : saved = [mask |-> mask, status |-> {}, by |-> "bits"]
  BY DEF Init
<1>2. f.masks \subseteq SUBSET (Flags \ {"sNaN"})
  BY FamiliesAssumption
<1>3. PICK s, t : ctx = [status |-> s, traps |-> t, raised |-> {}]
  BY <1>1
<1>4. PICK mask \in f.masks : saved = [mask |-> mask, status |-> {}, by |-> "bits"]
  BY <1>1
<1>5. IsState(ctx) /\ ctx.raised = {}
  BY <1>3 DEF IsState
<1>6. IsSaved(saved) /\ saved.mask = mask /\ saved.status = {} /\ saved.by = "bits"
  BY <1>4 DEF IsSaved
<1>7. mask \subseteq Flags \ {"sNaN"}
  BY <1>2, <1>4
<1>8. pc = "save"
  BY DEF Init
<1> QED
  BY <1>5, <1>6, <1>7, <1>8 DEF StatusKept, Reported

\* the three ways to give the flags back
LEMMA GivenBack ==
    ASSUME StatusKept, pc = "reported", UNCHANGED <<status, given>>,
           Restore \/ RestoreByName
    PROVE  /\ IsState(ctx)' /\ IsSaved(saved)' /\ saved'.mask = saved.mask
           /\ saved'.status = saved.status /\ pc' = "done" /\ Traps' /\ Restored'
<1>1. /\ IsState(ctx) /\ IsSaved(saved) /\ saved.by = "bits" /\ given \cap saved.mask = {}
      /\ ctx.status = given \cup (status \ {"sNaN"}) /\ saved.status \subseteq saved.mask
      /\ saved.mask \subseteq Flags \ {"sNaN"}
  BY DEF StatusKept
<1>2. ctx.raised # {} <=> (status \ {"sNaN"}) \cap ctx.traps # {}
  BY DEF StatusKept, Traps, Reported, LastRaised
<1>3. CASE Restore
  <2>1. ctx' = [status |-> (ctx.status \ saved.mask) \cup (saved.mask \cap saved.status),
                traps |-> ctx.traps, raised |-> ctx.raised]
    BY <1>1, <1>3 DEF Restore, RestoreStatus, IsState
  <2>2. saved' = saved /\ pc' = "done"
    BY <1>3 DEF Restore
  <2>3. IsState(ctx)' /\ ctx'.traps = ctx.traps /\ ctx'.raised = ctx.raised
        /\ ctx'.status = (ctx.status \ saved.mask) \cup saved.status
    BY <1>1, <2>1 DEF IsState
  <2>4. Restored'
    BY <1>1, <2>2, <2>3 DEF Restored
  <2>5. LastRaised' = status \ {"sNaN"}
    BY <1>1, <2>2 DEF LastRaised
  <2> QED
    BY <1>1, <1>2, <2>2, <2>3, <2>4, <2>5 DEF Traps, IsSaved
<1>4. CASE RestoreByName
  <2> DEFINE cleared == ClearStatus(ctx, saved.mask)
             name == ConditionOf(saved.status)
             few == Cardinality(saved.status) < 2
  <2>1. cleared = [status |-> ctx.status \ saved.mask, traps |-> ctx.traps,
                   raised |-> ctx.raised]
    BY <1>1, StateIs
  <2>2. /\ IsState(cleared) /\ cleared.status = ctx.status \ saved.mask
        /\ cleared.traps = ctx.traps /\ cleared.raised = ctx.raised
    BY <2>1 DEF IsState
  <2>3. (few <=> Recognized(name)) /\ (few => FlagsOf(name) = saved.status)
    BY <1>1, NamesOf
  <2>4. pc' = "done"
    BY <1>4 DEF RestoreByName
  <2>5. \/ ctx' = SetStatusFromString(cleared, name) /\ saved' = [saved EXCEPT !.by = "name"]
        \/ /\ ctx' = SetStatusFromStringQuiet(cleared, name)
           /\ saved' = [saved EXCEPT !.by = "quiet name"]
    BY <1>4 DEF RestoreByName
  <2> HIDE DEF cleared, name
  <2>6. CASE /\ ctx' = SetStatusFromString(cleared, name)
             /\ saved' = [saved EXCEPT !.by = "name"]
    <3>1. IsSaved(saved)' /\ saved'.mask = saved.mask /\ saved'.status = saved.status
          /\ saved'.by = "name"
      BY <1>1, <2>6 DEF IsSaved
    <3>2. CASE few
      <4>1. ctx' = SetStatus(cleared, saved.status)
        BY <2>3, <2>6, <3>2 DEF SetStatusFromString
      <4>2. ctx' = [status |-> (ctx.status \ saved.mask) \cup saved.status,
                    traps |-> ctx.traps,
                    raised |-> IF saved.status \cap ctx.traps # {} THEN saved.status ELSE {}]
        <5>1. SetStatus(cleared, saved.status)
                  = [status |-> cleared.status \cup saved.status, traps |-> cleared.traps,
                     raised |-> IF saved.status \cap cleared.traps # {} THEN saved.status
                                ELSE {}]
          BY <2>2, StateIs, Zenon
        <5> QED
          BY <2>2, <4>1, <5>1
      <4>3. IsState(ctx)' /\ ctx'.status = (ctx.status \ saved.mask) \cup saved.status
            /\ ctx'.traps = ctx.traps
            /\ ctx'.raised = IF saved.status \cap ctx.traps # {} THEN saved.status ELSE {}
        BY <4>2 DEF IsState
      <4>4. LastRaised' = saved.status
        BY <2>4, <3>1, <3>2 DEF LastRaised
      <4>5. Restored'
        BY <1>1, <3>1, <3>2, <4>3 DEF Restored
      <4>6. Traps'
        BY <4>3, <4>4 DEF Traps
      <4> QED
        BY <2>4, <3>1, <4>3, <4>5, <4>6
    <3>3. CASE ~few
      <4>1. ctx' = cleared
        BY <2>3, <2>6, <3>3 DEF SetStatusFromString
      <4>2. LastRaised' = status \ {"sNaN"}
        BY <3>1, <3>3 DEF LastRaised
      <4>3. Restored'
        BY <1>1, <2>2, <3>1, <3>3, <4>1 DEF Restored
      <4>4. Traps'
        BY <1>2, <2>2, <4>1, <4>2 DEF Traps
      <4>5. IsState(ctx)'
        BY <2>2, <4>1 DEF IsState
      <4> QED
        BY <2>4, <3>1, <4>3, <4>4, <4>5
    <3> QED
      BY <3>2, <3>3
  <2>7. CASE /\ ctx' = SetStatusFromStringQuiet(cleared, name)
             /\ saved' = [saved EXCEPT !.by = "quiet name"]
    <3>1. IsSaved(saved)' /\ saved'.mask = saved.mask /\ saved'.status = saved.status
          /\ saved'.by = "quiet name"
      BY <1>1, <2>7 DEF IsSaved
    <3>2. LastRaised' = status \ {"sNaN"}
      BY <3>1 DEF LastRaised
    <3>3. CASE few
      <4>1. ctx' = SetStatusQuiet(cleared, saved.status)
        BY <2>3, <2>7, <3>3 DEF SetStatusFromStringQuiet
      <4>2. ctx' = [status |-> (ctx.status \ saved.mask) \cup saved.status,
                    traps |-> ctx.traps, raised |-> ctx.raised]
        BY <2>2, <4>1, StateIs
      <4>3. IsState(ctx)' /\ ctx'.status = (ctx.status \ saved.mask) \cup saved.status
            /\ ctx'.traps = ctx.traps /\ ctx'.raised = ctx.raised
        BY <4>2 DEF IsState
      <4>4. Restored'
        BY <1>1, <3>1, <3>3, <4>3 DEF Restored
      <4>5. Traps'
        BY <1>2, <3>2, <4>3 DEF Traps
      <4> QED
        BY <2>4, <3>1, <4>3, <4>4, <4>5
    <3>4. CASE ~few
      <4>1. ctx' = cleared
        BY <2>3, <2>7, <3>4 DEF SetStatusFromStringQuiet
      <4>2. Restored'
        BY <1>1, <2>2, <3>1, <3>4, <4>1 DEF Restored
      <4>3. Traps'
        BY <1>2, <2>2, <3>2, <4>1 DEF Traps
      <4>4. IsState(ctx)'
        BY <2>2, <4>1 DEF IsState
      <4> QED
        BY <2>4, <3>1, <4>2, <4>3, <4>4
    <3> QED
      BY <3>3, <3>4
  <2> QED
    BY <2>5, <2>6, <2>7
<1> QED
  BY <1>3, <1>4

LEMMA StatusStays == CallIs /\ StatusKept /\ [Next]_vars => StatusKept'
<1> SUFFICES ASSUME CallIs, StatusKept, [Next]_vars PROVE StatusKept'
  OBVIOUS
<1>0. /\ IsState(ctx) /\ IsSaved(saved)
      /\ saved.mask \subseteq Flags \ {"sNaN"} /\ saved.status \subseteq saved.mask
  BY DEF StatusKept
<1>1. CASE SaveAndClear
  <2>1. /\ pc = "save" /\ pc' = "call" /\ saved.by = "bits" /\ ctx.raised = {}
        /\ saved' = [saved EXCEPT !.status = SaveStatus(ctx, saved.mask)]
        /\ ctx' = ClearStatus(ctx, saved.mask) /\ given' = ctx'.status
    BY <1>1 DEF SaveAndClear, StatusKept
  <2>2. IsSaved(saved)' /\ saved'.mask = saved.mask /\ saved'.by = "bits"
        /\ saved'.status = ctx.status \cap saved.mask
    BY <1>0, <2>1 DEF IsSaved, SaveStatus
  <2>3. ctx' = [status |-> ctx.status \ saved.mask, traps |-> ctx.traps,
                raised |-> ctx.raised]
    BY <1>0, <2>1, StateIs
  <2>4. IsState(ctx)' /\ ctx'.status = ctx.status \ saved.mask /\ ctx'.raised = {}
    BY <2>1, <2>3 DEF IsState
  <2>5. ~Reported'
    BY <2>1 DEF Reported
  <2> QED
    BY <1>0, <2>1, <2>2, <2>4, <2>5 DEF StatusKept
<1>2. CASE Restore \/ RestoreByName
  <2>1. pc = "reported" /\ UNCHANGED <<status, given>>
    BY <1>2 DEF Restore, RestoreByName
  <2>2. /\ IsState(ctx)' /\ IsSaved(saved)' /\ saved'.mask = saved.mask
        /\ saved'.status = saved.status /\ pc' = "done" /\ Traps' /\ Restored'
    BY <1>2, <2>1, GivenBack
  <2>3. given' \cap saved'.mask = {}
    BY <2>1, <2>2 DEF StatusKept
  <2> QED
    BY <1>0, <2>2, <2>3 DEF StatusKept
<1>3. CASE Report
  <2>1. /\ pc = "report" /\ pc' = "reported" /\ saved' = saved /\ given' = given
        /\ status' = status /\ ctx' = SetStatus(ctx, status \ {"sNaN"})
    BY <1>3 DEF Report
  <2>2. saved.by = "bits" /\ given \cap saved.mask = {} /\ given = ctx.status
    BY <2>1 DEF StatusKept
  <2> DEFINE told == status \ {"sNaN"}
  <2>3. ctx' = [status |-> ctx.status \cup told, traps |-> ctx.traps,
                raised |-> IF told \cap ctx.traps # {} THEN told ELSE {}]
    BY <1>0, <2>1, StateIs
  <2>4. IsState(ctx)' /\ ctx'.status = ctx.status \cup told /\ ctx'.traps = ctx.traps
        /\ ctx'.raised = IF told \cap ctx.traps # {} THEN told ELSE {}
    BY <2>3 DEF IsState
  <2>5. LastRaised' = told
    BY <2>1 DEF LastRaised
  <2>6. Traps'
    BY <2>4, <2>5 DEF Traps
  <2> QED
    BY <1>0, <2>1, <2>2, <2>4, <2>6 DEF StatusKept
<1>4. CASE CallToString \/ DeliverStep
  <2>1. /\ pc \in {"call", "read"} /\ pc' \in {"read", "report"}
        /\ UNCHANGED <<given, ctx, saved>>
    BY <1>4 DEF CallToString, Called, DeliverStep, Deliver
  <2> QED
    BY <1>0, <2>1 DEF StatusKept, Reported
<1>5. CASE UNCHANGED vars
  <2>1. UNCHANGED <<ctx, saved, pc, given, status>>
    BY <1>5 DEF vars
  <2> QED
    BY <2>1, Zenon DEF StatusKept, Reported, Traps, Restored, LastRaised
<1> QED
  BY <1>1, <1>2, <1>3, <1>4, <1>5, CallsDeliver

\* Around every call the context keeps the flags it had and gains those of the
\* call, raises a trap for the latter only, and gets back the ones the caller
\* had taken out (decContextSetStatus, decContextRestoreStatus,
\* decContextSetStatusFromString).
THEOREM StatusInvariant == Spec => [](CallIs /\ StatusKept)
<1> QED
  BY CallStart, CallKeeps, StatusStart, StatusStays, PTL DEF Spec

(***************************************************************************)
(* A number that the context can hold is left as it is, but for the clamp. *)
(***************************************************************************)
Holds(c, e, cx) ==
    /\ c \in Nat /\ e \in Int /\ Digits(c) <= cx.digits
    /\ Etiny(cx) <= e /\ e + Digits(c) - 1 <= cx.emax

\* a context but for the clamp: with decNumberToIntegral's it may be too long for
\* one, though nothing that is then rounded is below Nmin
Loose(cx) ==
    /\ cx \in [digits : Nat \ {0}, emin : Int, emax : Int, round : Modes, clamp : BOOLEAN]
    /\ cx.digits \in Nat \ {0} /\ cx.emin \in Int /\ cx.emax \in Int
    /\ cx.emin <= 0 /\ 0 <= cx.emax
    /\ cx.round \in Modes /\ cx.clamp \in BOOLEAN

Roomy(e, cx) == Loose(cx) /\ (cx.clamp => cx.digits <= cx.emax + 1 \/ cx.emin <= e)

\* flags that tell of no loss
Harmless == {"Subnormal", "Underflow", "Clamped"}

\* what is left of Finite(neg, c, e)
Settles(w, neg, c, e, st, cx) ==
    \E x : /\ x \subseteq Harmless
           /\ w = Work(Folded(Finite(neg, c, e), cx), 0, st \cup x)
           /\ c # 0 /\ e + Digits(c) - 1 < cx.emin => "Subnormal" \in x

LEMMA RangeSettles ==
    ASSUME NEW neg \in BOOLEAN, NEW c, NEW e, NEW st, NEW cx, Roomy(e, cx), Holds(c, e, cx)
    PROVE  \E x : /\ x \subseteq {"Clamped"}
                  /\ CheckRange(Work(Finite(neg, c, e), 0, st), cx)
                         = Work(Folded(Finite(neg, c, e), cx), 0, st \cup x)
<1> DEFINE n == Finite(neg, c, e)
           w == Work(n, 0, st)
<1>1. w.dn = n /\ n.coef = c /\ n.exp = e /\ n.neg = neg /\ n.kind = "finite"
  BY DEF Work, Finite
<1>2. Etop(cx) \in Int /\ Etop(cx) = cx.emax - (cx.digits - 1) /\ cx.clamp \in BOOLEAN
      /\ cx.emax \in Int /\ cx.digits \in Nat
  BY DEF Roomy, Loose, Etop
<1>3. PICK d \in Nat \ {0} : d = Digits(c)
  BY DigitsFacts DEF Holds
<1>4. c \in Nat /\ e \in Int /\ d <= cx.digits /\ e + d - 1 <= cx.emax
  BY <1>3 DEF Holds
<1>5. ~(n.exp > cx.emax - Digits(n.coef) + 1)
  BY <1>1, <1>2, <1>3, <1>4
<1>6. w = Work(n, 0, st \cup {})
  BY DEF Work
<1>7. CASE n.exp <= Etop(cx)
  <2>1. CheckRange(w, cx) = w
    BY <1>1, <1>7, Zenon DEF CheckRange
  <2>2. ~(n.exp > Etop(cx))
    BY <1>1, <1>2, <1>4, <1>7
  <2>3. Folded(n, cx) = n
    BY <2>2, Zenon DEF Folded
  <2> QED
    BY <1>6, <2>1, <2>3
<1>8. CASE ~(n.exp <= Etop(cx)) /\ ~cx.clamp
  <2>1. CheckRange(w, cx) = w
    BY <1>1, <1>5, <1>8, Zenon DEF CheckRange
  <2>2. Folded(n, cx) = n
    BY <1>8, Zenon DEF Folded
  <2> QED
    BY <1>6, <2>1, <2>2
<1>9. CASE ~(n.exp <= Etop(cx)) /\ cx.clamp
  <2>1. CheckRange(w, cx) = FoldDown(w, cx)
    BY <1>1, <1>5, <1>9, Zenon DEF CheckRange
  <2>2. n.exp > Etop(cx)
    BY <1>1, <1>2, <1>4, <1>9
  <2>3. Folded(n, cx) = Finite(neg, c * powers[e - Etop(cx)], Etop(cx))
    BY <1>1, <1>9, <2>2, Zenon DEF Folded
  <2>4. PICK p : p = powers[e - Etop(cx)]
    OBVIOUS
  <2>5. FoldDown(w, cx) = Work(Finite(neg, c * p, Etop(cx)), 0, st \cup {"Clamped"})
    <3>1. PICK t, x : t = Etop(cx) /\ x = c * p
      OBVIOUS
    <3>2. [w EXCEPT !.dn.coef = x, !.dn.exp = t] = Work(Finite(neg, x, t), 0, st)
      <4>1. [w EXCEPT !.dn.coef = x] = Work(Finite(neg, x, e), 0, st)
        BY DEF Work, Finite
      <4>2. [Work(Finite(neg, x, e), 0, st) EXCEPT !.dn.exp = t] = Work(Finite(neg, x, t), 0, st)
        BY DEF Work, Finite
      <4>3. [w EXCEPT !.dn.coef = x, !.dn.exp = t]
                = [[w EXCEPT !.dn.coef = x] EXCEPT !.dn.exp = t]
        OBVIOUS
      <4> QED
        BY <4>1, <4>2, <4>3, Zenon
    <3>3. w.dn.coef * powers[w.dn.exp - Etop(cx)] = x
      BY <1>1, <2>4, <3>1
    <3>4. FoldDown(w, cx) = Raise(Work(Finite(neg, x, t), 0, st), {"Clamped"})
      BY <3>1, <3>2, <3>3, Zenon DEF FoldDown
    <3> QED
      BY <3>1, <3>4, WorkParts
  <2> QED
    BY <2>1, <2>3, <2>4, <2>5
<1> QED
  BY <1>7, <1>8, <1>9

LEMMA ExactSettles ==
    ASSUME NEW neg \in BOOLEAN, NEW c, NEW e, NEW st, NEW cx, Roomy(e, cx), Holds(c, e, cx)
    PROVE  Settles(Finalize(Work(Finite(neg, c, e), 0, st), cx), neg, c, e, st, cx)
<1> DEFINE n == Finite(neg, c, e)
           w == Work(n, 0, st)
<1>1. w.dn = n /\ w.residue = 0 /\ n.coef = c /\ n.exp = e /\ n.neg = neg
      /\ n.kind = "finite" /\ w.status = st
  BY DEF Work, Finite
<1>2. /\ Etop(cx) = cx.emax - (cx.digits - 1) /\ Etiny(cx) = cx.emin - (cx.digits - 1)
      /\ cx.emin \in Int /\ cx.emax \in Int /\ cx.digits \in Nat /\ cx.round \in Modes
      /\ cx.emin <= 0 /\ 0 <= cx.emax
  BY DEF Roomy, Loose, Etop, Etiny
<1>3. PICK d \in Nat \ {0} : d = Digits(c)
  BY DigitsFacts DEF Holds
<1>4. /\ c \in Nat /\ e \in Int /\ d <= cx.digits /\ e + d - 1 <= cx.emax /\ Etiny(cx) <= e
      /\ (c = 0 => d = 1)
  BY <1>3, DigitsFacts DEF Holds
<1>5. ApplyRound(w, cx) = w
  BY <1>1, <1>2, UnroundedStays
<1>6. ~JustBelowNmin(w, cx)
  BY <1>1 DEF JustBelowNmin
<1>7. CASE ~BelowNmin(w, cx)
  <2>1. Finalize(w, cx) = CheckRange(w, cx)
    BY <1>5, <1>6, <1>7, Zenon DEF Finalize
  <2>2. cx.emin - d + 1 <= e
    BY <1>1, <1>2, <1>3, <1>4, <1>7 DEF BelowNmin
  <2>3. ~(c # 0 /\ e + d - 1 < cx.emin)
    BY <1>2, <1>4, <2>2
  <2>4. PICK x : /\ x \subseteq {"Clamped"}
                 /\ CheckRange(w, cx) = Work(Folded(n, cx), 0, st \cup x)
    BY RangeSettles
  <2> QED
    BY <1>3, <2>1, <2>3, <2>4 DEF Settles, Harmless
<1>8. CASE BelowNmin(w, cx)
  <2>1. e < cx.emin - d + 1
    BY <1>1, <1>2, <1>3, <1>4, <1>8 DEF BelowNmin
  <2>2. Finalize(w, cx) = SetSubnormal(w, cx)
    BY <1>8, Zenon DEF Finalize
  <2>3. ~(Etiny(cx) - n.exp > 0) /\ Etiny(cx) - n.exp <= 0
    BY <1>1, <1>2, <1>3, <1>4, <2>1
  <2>4. Folded(n, cx) = n
    <3>1. cx.clamp => Etop(cx) >= 0
      BY <1>2, <1>4, <2>1 DEF Roomy, Loose
    <3>2. cx.clamp => ~(n.exp > Etop(cx))
      BY <1>1, <1>2, <1>3, <1>4, <2>1, <3>1
    <3> QED
      BY <3>2, Zenon DEF Folded
  <2>5. CASE c = 0
    <3>1. IsZero(w.dn)
      BY <1>1, <2>5 DEF IsZero
    <3>2. SetSubnormal(w, cx) = w
      BY <1>1, <2>3, <3>1, Zenon DEF SetSubnormal
    <3>3. w = Work(n, 0, st \cup {})
      BY DEF Work
    <3> HIDE DEF w, n
    <3>4. Finalize(w, cx) = Work(Folded(n, cx), 0, st \cup {})
      BY <2>2, <2>4, <3>2, <3>3
    <3>5. PICK v : v = Finalize(w, cx)
      OBVIOUS
    <3>6. v = Work(Folded(Finite(neg, c, e), cx), 0, st \cup {})
      BY <3>4, <3>5, Zenon DEF n
    <3>7. Settles(v, neg, c, e, st, cx)
      <4>0. PICK none : none = {}
        OBVIOUS
      <4>1. none = {} /\ none \subseteq Harmless
        BY <4>0, SMT
      <4>2. v = Work(Folded(Finite(neg, c, e), cx), 0, st \cup none)
        BY <3>6, <4>1
      <4> QED
        BY <2>5, <4>1, <4>2, Zenon DEF Settles
    <3> QED
      BY <3>5, <3>7, Zenon DEF w, n
  <2>6. CASE c # 0
    <3>1. ~IsZero(w.dn)
      BY <1>1, <2>6 DEF IsZero
    <3> DEFINE low == Raise(w, {"Subnormal"})
    <3>2. low = Work(n, 0, st \cup {"Subnormal"})
      BY WorkParts
    <3>3. SetSubnormal(w, cx) = UnderflowIfInexact(low)
      BY <1>1, <2>3, <3>1, Zenon DEF SetSubnormal
    <3> HIDE DEF low, w, n
    <3>4. low.status = st \cup {"Subnormal"}
      BY <3>2, WorkFields
    <3>5. Raise(low, {"Underflow"}) = Work(n, 0, (st \cup {"Subnormal"}) \cup {"Underflow"})
      BY <3>2, WorkParts
    <3>6. CASE "Inexact" \in low.status
      <4>1. SetSubnormal(w, cx) = Work(n, 0, st \cup {"Subnormal", "Underflow"})
        <5>1. (st \cup {"Subnormal"}) \cup {"Underflow"} = st \cup {"Subnormal", "Underflow"}
          OBVIOUS
        <5> QED
          BY <3>3, <3>5, <3>6, <5>1 DEF UnderflowIfInexact
      <4> QED
        BY <2>2, <2>4, <4>1 DEF Settles, Harmless, w, n
    <3>7. CASE "Inexact" \notin low.status
      <4>1. SetSubnormal(w, cx) = Work(n, 0, st \cup {"Subnormal"})
        BY <3>2, <3>3, <3>7 DEF UnderflowIfInexact
      <4> QED
        BY <2>2, <2>4, <4>1 DEF Settles, Harmless, w, n
    <3> QED
      BY <3>6, <3>7
  <2> QED
    BY <2>5, <2>6
<1> QED
  BY <1>7, <1>8

(***************************************************************************)
(* A number cut and rounded to an exponent.                                *)
(***************************************************************************)
\* rounded at a place k digits up, by the mode
Up(neg, c, k, mode) ==
    RoundsAway(mode, neg, c \div powers[k], c % powers[k], powers[k])

RoundedUp(neg, c, k, mode) ==
    IF Up(neg, c, k, mode) THEN c \div powers[k] + 1 ELSE c \div powers[k]

Shorter(cx, c, k) == [cx EXCEPT !.digits = Digits(c) - k]

\* all nines, to be made larger
AllNines(neg, c, k, mode) ==
    Up(neg, c, k, mode) /\ c \div powers[k] = powers[Digits(c \div powers[k])] - 1

Cut(neg, c, q, k, cx) ==
    ApplyRound(SetCoeff(Plain(Finite(neg, c, q)), Shorter(cx, c, k)), Shorter(cx, c, k))

LEMMA ShorterIs ==
    ASSUME NEW cx, Loose(cx), NEW c \in Nat, NEW k \in Int
    PROVE  /\ Shorter(cx, c, k).digits = Digits(c) - k /\ Shorter(cx, c, k).emax = cx.emax
           /\ Shorter(cx, c, k).emin = cx.emin /\ Shorter(cx, c, k).round = cx.round
           /\ Shorter(cx, c, k).clamp = cx.clamp
<1>1. PICK d \in Nat \ {0} : d = Digits(c)
  BY DigitsFacts
<1>2. cx \in [digits : Nat \ {0}, emin : Int, emax : Int, round : Modes, clamp : BOOLEAN]
  BY DEF Loose
<1>3. PICK x : x = d - k
  OBVIOUS
<1>4. Shorter(cx, c, k) = [cx EXCEPT !.digits = x]
  BY <1>1, <1>3 DEF Shorter
<1>5. /\ Shorter(cx, c, k).digits = x /\ Shorter(cx, c, k).emax = cx.emax
      /\ Shorter(cx, c, k).emin = cx.emin /\ Shorter(cx, c, k).round = cx.round
      /\ Shorter(cx, c, k).clamp = cx.clamp
  BY <1>2, <1>4
<1> QED
  BY <1>1, <1>3, <1>5

\* what a cut leaves, s telling of the digits that are gone
CutLeaves(w, s, neg, c, q, k, cx) ==
    LET d  == Digits(c \div powers[k])
        up == Work(Finite(neg, powers[d - 1], q + k + 1), s, CutFlags({}, s))
    IN  IF AllNines(neg, c, k, cx.round)
        THEN w = IF q + k + 1 + d > cx.emax + 1
                 THEN SetOverflow(up, Shorter(cx, c, k)) ELSE up
        ELSE w = Work(Finite(neg, RoundedUp(neg, c, k, cx.round), q + k), s, CutFlags({}, s))

LEMMA CutIs ==
    ASSUME NEW neg \in BOOLEAN, NEW c \in Nat \ {0}, NEW q \in Int, NEW k \in Nat \ {0},
           NEW cx, Loose(cx)
    PROVE  \E s \in 0..9 : /\ s = 0 <=> c % powers[k] = 0
                           /\ CutLeaves(Cut(neg, c, q, k, cx), s, neg, c, q, k, cx)
<1>1. PICK u \in Nat \ {0} : u = powers[k]
  BY PowersFacts
<1>2. PICK lower \in Nat, rest \in Nat : lower = c \div u /\ rest = c % u /\ rest < u
  BY Euclid
<1>3. PICK d \in Nat \ {0} : d = Digits(lower)
  BY <1>2, DigitsFacts
<1> DEFINE ws == Shorter(cx, c, k)
<1>4. Digits(c) - ws.digits = k /\ ws.round = cx.round /\ ws.emax = cx.emax
  <2>1. PICK dc \in Nat \ {0} : dc = Digits(c)
    BY DigitsFacts
  <2> QED
    BY <2>1, ShorterIs
<1>5. cx.round \in Modes /\ cx.emax \in Int
  BY DEF Loose
<1> HIDE DEF ws
<1>6. CutBy(c, 0, 0, 1, k, ws)
  BY <1>4 DEF CutBy, Near
<1>7. PICK s \in -1..9 :
          /\ SetCoeff(Work(Finite(neg, c, q), 0, {}), ws)
                 = Work(Finite(neg, c \div powers[k], q + k), s, CutFlags({}, s))
          /\ Tells(s, (c % powers[k]) * 1 + 0, powers[k] * 1)
  BY <1>6, SetCoeffCuts
<1>8. Tells(s, rest, u)
  <2>1. (c % powers[k]) * 1 + 0 = rest /\ powers[k] * 1 = u
    BY <1>1, <1>2
  <2> QED
    BY <1>7, <2>1
<1>9. s \in 0..9 /\ (s = 0 <=> rest = 0)
  BY <1>1, <1>2, <1>8 DEF Tells
<1> DEFINE w == Work(Finite(neg, lower, q + k), s, CutFlags({}, s))
<1>10. SetCoeff(Plain(Finite(neg, c, q)), ws) = w
  BY <1>1, <1>2, <1>7, PlainIs
<1>11. w.dn.coef = lower /\ w.dn.neg = neg /\ w.residue = s
  BY DEF Work, Finite
<1>12. Cut(neg, c, q, k, cx) = ApplyRound(w, ws)
  BY <1>10 DEF Cut, ws
<1> HIDE DEF w
<1>13. RoundsUp(w, ws.round) <=> RoundsAway(cx.round, neg, lower, rest, u)
  BY <1>2, <1>4, <1>5, <1>8, <1>9, <1>11, RoundsUpAgrees
<1>14. RoundsUp(w, ws.round) <=> Up(neg, c, k, cx.round)
  BY <1>1, <1>2, <1>13 DEF Up
<1>15. ~RoundsDown(w, ws.round)
  BY <1>9, <1>11 DEF RoundsDown
<1>16. CASE ~Up(neg, c, k, cx.round)
  <2>1. Cut(neg, c, q, k, cx) = w
    BY <1>12, <1>14, <1>15, <1>16, ApplyRoundIs
  <2>2. RoundedUp(neg, c, k, cx.round) = lower /\ ~AllNines(neg, c, k, cx.round)
    BY <1>1, <1>2, <1>16 DEF RoundedUp, AllNines
  <2>3. CutLeaves(Cut(neg, c, q, k, cx), s, neg, c, q, k, cx)
    BY <2>1, <2>2, Zenon DEF CutLeaves, w
  <2> QED
    BY <1>1, <1>2, <1>9, <2>3
<1>17. CASE Up(neg, c, k, cx.round)
  <2>1. Cut(neg, c, q, k, cx) = BumpUp(w, ws)
    BY <1>12, <1>14, <1>17, ApplyRoundIs
  <2>2. q + k \in Int
    OBVIOUS
  <2>3. RoundedUp(neg, c, k, cx.round) = lower + 1
    BY <1>1, <1>2, <1>17 DEF RoundedUp
  <2>4. AllNines(neg, c, k, cx.round) <=> lower = powers[d] - 1
    BY <1>1, <1>2, <1>3, <1>17 DEF AllNines
  <2>5. PICK up : up = Work(Finite(neg, powers[d - 1], q + k + 1), s, CutFlags({}, s))
    OBVIOUS
  <2>6. /\ lower # powers[d] - 1
               => BumpUp(w, ws) = Work(Finite(neg, lower + 1, q + k), s, CutFlags({}, s))
        /\ lower = powers[d] - 1
               => BumpUp(w, ws) = IF q + k + 1 + d > ws.emax + 1
                                  THEN SetOverflow(up, ws) ELSE up
    BY <1>3, <2>2, <2>5, BumpUpIs DEF w
  <2>7. CASE lower # powers[d] - 1
    <3>1. Cut(neg, c, q, k, cx) = Work(Finite(neg, lower + 1, q + k), s, CutFlags({}, s))
      BY <2>1, <2>6, <2>7
    <3>2. CutLeaves(Cut(neg, c, q, k, cx), s, neg, c, q, k, cx)
      BY <2>3, <2>4, <2>7, <3>1, Zenon DEF CutLeaves
    <3> QED
      BY <1>1, <1>2, <1>9, <3>2
  <2>8. CASE lower = powers[d] - 1
    <3>1. Cut(neg, c, q, k, cx) = IF q + k + 1 + d > cx.emax + 1
                                  THEN SetOverflow(up, ws) ELSE up
      BY <1>4, <2>1, <2>6, <2>8
    <3>2. AllNines(neg, c, k, cx.round) /\ d = Digits(c \div powers[k])
      BY <1>1, <1>2, <1>3, <2>4, <2>8
    <3>3. CutLeaves(Cut(neg, c, q, k, cx), s, neg, c, q, k, cx)
      BY <2>5, <3>1, <3>2, Zenon DEF CutLeaves, ws
    <3> QED
      BY <1>1, <1>2, <1>9, <3>3
  <2> QED
    BY <2>7, <2>8
<1> QED
  BY <1>16, <1>17

(***************************************************************************)
(* Quantizing: z is the coefficient asked for, at the exponent e.          *)
(***************************************************************************)
CutOnly == {"Inexact", "Rounded"}

Quantized(w, neg, z, e, n, inexact, cx) ==
    IF Holds(z, e, cx)
    THEN \E st : /\ w = Work(Folded(Finite(neg, z, e), cx), 0, st)
                 /\ st \subseteq LossFlags
                 /\ "Inexact" \in st <=> inexact
                 /\ z # 0 /\ e + Digits(z) - 1 < cx.emin => "Subnormal" \in st
    ELSE \E st : /\ w = Work(n, 0, st)
                 /\ "Invalid_operation" \in st /\ st \subseteq CutOnly \cup {"Invalid_operation"}

LEMMA InvalidIs ==
    ASSUME NEW n, NEW dn, NEW rs, NEW st
    PROVE  Invalid(n, Work(dn, rs, st)) = Work(n, rs, st \cup {"Invalid_operation"})
<1>1. [Work(dn, rs, st) EXCEPT !.dn = n] = Work(n, rs, st)
  BY DEF Work
<1>2. Raise(Work(n, rs, st), {"Invalid_operation"}) = Work(n, rs, st \cup {"Invalid_operation"})
  BY WorkParts
<1> QED
  BY <1>1, <1>2, Zenon DEF Invalid

LEMMA InContextIs ==
    ASSUME NEW neg \in BOOLEAN, NEW z \in Nat, NEW e \in Int, NEW n, NEW st, NEW cx, Roomy(e, cx),
           Digits(z) <= cx.digits, Etiny(cx) <= e, st \subseteq CutOnly
    PROVE  Quantized(InContext(Work(Finite(neg, z, e), 0, st), n, cx),
                     neg, z, e, n, "Inexact" \in st, cx)
<1> DEFINE w == Work(Finite(neg, z, e), 0, st)
<1>1. w.dn.exp = e /\ w.dn.coef = z /\ w.status = st
  BY DEF Work, Finite
<1>2. "Invalid_operation" \notin st
  BY DEF CutOnly
<1>3. PICK d \in Nat \ {0} : d = Digits(z)
  BY DigitsFacts
<1>4. cx.emax \in Int
  BY DEF Roomy, Loose
<1>5. Holds(z, e, cx) <=> ~(w.dn.exp > cx.emax - Digits(w.dn.coef) + 1)
  BY <1>1, <1>3, <1>4 DEF Holds
<1>6. CASE Holds(z, e, cx)
  <2>1. InContext(w, n, cx) = [Finalize(w, cx) EXCEPT !.status = @ \ {"Underflow"}]
    BY <1>1, <1>2, <1>5, <1>6, Zenon DEF InContext
  <2>2. Settles(Finalize(w, cx), neg, z, e, st, cx)
    BY <1>6, ExactSettles
  <2>3. PICK x : /\ x \subseteq Harmless
                 /\ Finalize(w, cx) = Work(Folded(Finite(neg, z, e), cx), 0, st \cup x)
                 /\ z # 0 /\ e + Digits(z) - 1 < cx.emin => "Subnormal" \in x
    BY <2>2 DEF Settles
  <2>4. PICK f : f = Folded(Finite(neg, z, e), cx)
    OBVIOUS
  <2>5. PICK t : t = (st \cup x) \ {"Underflow"}
    OBVIOUS
  <2> HIDE DEF w
  <2>6. InContext(w, n, cx) = Work(f, 0, t)
    <3>1. PICK y : y = st \cup x
      OBVIOUS
    <3>2. Finalize(w, cx) = Work(f, 0, y)
      BY <2>3, <2>4, <3>1, Zenon
    <3>3. [Work(f, 0, y) EXCEPT !.status = @ \ {"Underflow"}] = Work(f, 0, t)
      BY <2>5, <3>1 DEF Work
    <3> QED
      BY <2>1, <3>2, <3>3, Zenon
  <2>7. t \subseteq LossFlags /\ ("Inexact" \in t <=> "Inexact" \in st)
        /\ (z # 0 /\ e + Digits(z) - 1 < cx.emin => "Subnormal" \in t)
    BY <2>3, <2>5 DEF Harmless, CutOnly, LossFlags
  <2> QED
    BY <1>6, <2>4, <2>6, <2>7, Zenon DEF Quantized, w
<1>7. CASE ~Holds(z, e, cx)
  <2>1. InContext(w, n, cx) = Invalid(n, w)
    BY <1>1, <1>2, <1>5, <1>7, Zenon DEF InContext
  <2>2. Invalid(n, w) = Work(n, 0, st \cup {"Invalid_operation"})
    BY InvalidIs
  <2>3. PICK t : t = st \cup {"Invalid_operation"}
    OBVIOUS
  <2>4. "Invalid_operation" \in t /\ t \subseteq CutOnly \cup {"Invalid_operation"}
    BY <2>3
  <2> QED
    BY <1>7, <2>1, <2>2, <2>3, <2>4, Zenon DEF Quantized
<1> QED
  BY <1>6, <1>7

\* what was refused before stays so
LEMMA InvalidStays ==
    ASSUME NEW n, NEW st, "Invalid_operation" \in st, NEW cx
    PROVE  InContext(Work(n, 0, st), n, cx) = Work(n, 0, st)
BY WorkFields DEF InContext

QuantumOf(neg, c, q, e, mode) ==
    IF e <= q THEN c * powers[q - e] ELSE RoundedUp(neg, c, e - q, mode)

IsInexact(c, q, e) == e > q /\ c # 0 /\ c % powers[e - q] # 0

\* all nines carried beyond emax while being cut
Overruns(neg, c, q, e, cx) ==
    /\ c # 0 /\ q < e /\ e <= cx.emax
    /\ AllNines(neg, c, e - q, cx.round)
    /\ Digits(c) + q > cx.emax

LEMMA RoundedUpIs ==
    ASSUME NEW neg, NEW c \in Nat, NEW k \in Nat, NEW mode \in Modes
    PROVE  /\ RoundedUp(neg, c, k, mode) \in Nat /\ c \div powers[k] \in Nat
           /\ c \div powers[k] <= RoundedUp(neg, c, k, mode)
           /\ RoundedUp(neg, c, k, mode) <= c \div powers[k] + 1
           /\ c = 0 => RoundedUp(neg, c, k, mode) = 0
<1>1. PICK u \in Nat \ {0} : u = powers[k]
  <2>1. powers[k] \in Nat \ {0}
    BY PowersFacts
  <2> QED
    BY <2>1
<1>2. PICK lower \in Nat, rest \in Nat :
          lower = c \div u /\ rest = c % u /\ rest < u /\ c = lower * u + rest
  BY <1>1, Euclid
<1>3. c = 0 => rest = 0 /\ lower = 0
  <2>1. ASSUME c = 0 PROVE rest = 0 /\ lower = 0
    BY <1>1, <1>2, <2>1, QuotientIs
  <2> QED
    BY <2>1
<1>4. c = 0 => ~Up(neg, c, k, mode)
  <2>1. ASSUME rest = 0 PROVE ~RoundsAway(mode, neg, lower, 0, u)
    BY <1>1, ExactStays
  <2> QED
    BY <1>1, <1>2, <1>3, <2>1 DEF Up
<1>5. PICK z \in Nat : z = IF Up(neg, c, k, mode) THEN lower + 1 ELSE lower
  OBVIOUS
<1>6. RoundedUp(neg, c, k, mode) = z /\ c \div powers[k] = lower
  BY <1>1, <1>2, <1>5 DEF RoundedUp
<1>7. lower <= z /\ z <= lower + 1 /\ (c = 0 => z = 0)
  BY <1>3, <1>4, <1>5
<1> QED
  BY <1>6, <1>7

LEMMA ZeroQuantized ==
    ASSUME NEW neg \in BOOLEAN, NEW q \in Int, NEW e \in Int, NEW cx, Roomy(e, cx),
           Etiny(cx) <= e, e <= cx.emax
    PROVE  Quantized(InContext(Requantized(Finite(neg, 0, q), e, cx), Finite(neg, 0, q), cx),
                     neg, 0, e, Finite(neg, 0, q), FALSE, cx)
<1> DEFINE n == Finite(neg, 0, q)
<1>1. IsZero(n) /\ [n EXCEPT !.exp = e] = Finite(neg, 0, e)
  BY DEF IsZero, Finite
<1>2. Requantized(n, e, cx) = Plain(Finite(neg, 0, e))
  BY <1>1, Zenon DEF Requantized
<1>3. Digits(0) <= cx.digits
  BY DigitsFacts DEF Roomy, Loose
<1>4. PICK none : none = {}
  OBVIOUS
<1>5. none \subseteq CutOnly /\ ("Inexact" \in none <=> FALSE)
  BY <1>4, SMT
<1>6. Requantized(n, e, cx) = Work(Finite(neg, 0, e), 0, none)
  BY <1>2, <1>4, PlainIs
<1>7. Quantized(InContext(Work(Finite(neg, 0, e), 0, none), n, cx),
                neg, 0, e, n, "Inexact" \in none, cx)
  BY <1>3, <1>5, InContextIs
<1>8. ("Inexact" \in none) = FALSE
  BY <1>5
<1> QED
  BY <1>6, <1>7, <1>8, Zenon

LEMMA PaddedQuantized ==
    ASSUME NEW neg \in BOOLEAN, NEW c \in Nat \ {0}, NEW q \in Int, NEW e \in Int, e <= q,
           NEW cx, Roomy(e, cx), Etiny(cx) <= e
    PROVE  /\ c * powers[q - e] \in Nat
           /\ Quantized(InContext(Requantized(Finite(neg, c, q), e, cx), Finite(neg, c, q), cx),
                        neg, c * powers[q - e], e, Finite(neg, c, q), FALSE, cx)
<1> DEFINE n == Finite(neg, c, q)
<1>1. PICK k \in Nat : k = q - e
  OBVIOUS
<1>2. PICK p \in Nat \ {0} : p = powers[k]
  BY PowersFacts
<1>3. PICK z \in Nat : z = c * p
  BY MulGrows
<1>4. z = c * powers[q - e]
  BY <1>1, <1>2, <1>3
<1>5. PICK d \in Nat \ {0} : d = Digits(c)
  BY DigitsFacts
<1>6. Digits(z) = d + k
  BY <1>2, <1>3, <1>5, DigitsScaled
<1>7. n.coef = c /\ n.exp = q /\ ~IsZero(n) /\ [n EXCEPT !.coef = z, !.exp = e] = Finite(neg, z, e)
  <2>1. n.coef = c /\ n.exp = q /\ ~IsZero(n)
    BY DEF Finite, IsZero
  <2>2. [n EXCEPT !.coef = z] = Finite(neg, z, q)
    BY DEF Finite
  <2>3. [Finite(neg, z, q) EXCEPT !.exp = e] = Finite(neg, z, e)
    BY DEF Finite
  <2>4. [n EXCEPT !.coef = z, !.exp = e] = [[n EXCEPT !.coef = z] EXCEPT !.exp = e]
    OBVIOUS
  <2>5. [n EXCEPT !.coef = z, !.exp = e] = Finite(neg, z, e)
    BY <2>2, <2>3, <2>4, Zenon
  <2> QED
    BY <2>1, <2>5
<1>8. Digits(n.coef) - (e - n.exp) = d + k /\ ~(e - n.exp > 0) /\ -(e - n.exp) = k
  <2>1. PICK i \in Int : i = e - n.exp /\ i + k = 0
    BY <1>1, <1>7
  <2>2. d - i = d + k /\ ~(i > 0) /\ -i = k
    BY <2>1
  <2> QED
    BY <1>5, <1>7, <2>1, <2>2
<1>9. cx.digits \in Nat
  BY DEF Roomy, Loose
<1> HIDE DEF n
<1>10. CASE d + k > cx.digits
  <2>1. Requantized(n, e, cx) = Invalid(n, Plain(n))
    BY <1>7, <1>8, <1>10, Zenon DEF Requantized
  <2>2. PICK t : t = {} \cup {"Invalid_operation"}
    OBVIOUS
  <2>3. Requantized(n, e, cx) = Work(n, 0, t)
    BY <2>1, <2>2, InvalidIs, PlainIs
  <2>4. "Invalid_operation" \in t /\ t \subseteq CutOnly \cup {"Invalid_operation"}
    BY <2>2
  <2>5. ~Holds(z, e, cx)
    BY <1>1, <1>5, <1>6, <1>9, <1>10 DEF Holds
  <2>6. InContext(Work(n, 0, t), n, cx) = Work(n, 0, t)
    BY <2>4, InvalidStays
  <2>7. Quantized(InContext(Requantized(n, e, cx), n, cx), neg, z, e, n, FALSE, cx)
    BY <2>3, <2>4, <2>5, <2>6, Zenon DEF Quantized
  <2> QED
    BY <1>4, <2>7 DEF n
<1>11. CASE ~(d + k > cx.digits)
  <2>1. n.coef * powers[-(e - n.exp)] = z
    BY <1>2, <1>3, <1>7, <1>8
  <2>2. Requantized(n, e, cx) = Plain(Finite(neg, z, e))
    BY <1>7, <1>8, <1>11, <2>1, Zenon DEF Requantized
  <2>3. PICK none : none = {}
    OBVIOUS
  <2>4. none \subseteq CutOnly /\ ("Inexact" \in none) = FALSE
    BY <2>3, SMT
  <2>5. Requantized(n, e, cx) = Work(Finite(neg, z, e), 0, none)
    BY <2>2, <2>3, PlainIs
  <2>6. Digits(z) <= cx.digits
    BY <1>6, <1>9, <1>11
  <2>7. Quantized(InContext(Work(Finite(neg, z, e), 0, none), n, cx),
                  neg, z, e, n, "Inexact" \in none, cx)
    BY <2>4, <2>6, InContextIs
  <2>8. Quantized(InContext(Requantized(n, e, cx), n, cx), neg, z, e, n, FALSE, cx)
    BY <2>4, <2>5, <2>7, Zenon
  <2> QED
    BY <1>4, <2>8 DEF n
<1> QED
  BY <1>10, <1>11

\* the flags of a cut
LEMMA CutFlagsAre ==
    ASSUME NEW s
    PROVE  /\ CutFlags({}, s) \subseteq CutOnly
           /\ "Inexact" \in CutFlags({}, s) <=> s # 0
BY DEF CutFlags, CutOnly

\* the cut, its flags forgotten if it is refused, and shifted back
Shifted(w, n, e, cx) == Readjusted([w EXCEPT !.residue = 0], n, e, cx)

LEMMA ShiftedIs ==
    ASSUME NEW dn, NEW s, NEW st, NEW n, NEW e, NEW cx, ~(dn.exp <= e), Digits(dn.coef) = cx.digits
    PROVE  Shifted(Work(dn, s, st), n, e, cx)
               = Work(n, 0, (st \ {"Inexact", "Rounded"}) \cup {"Invalid_operation"})
<1> DEFINE w == Work(dn, 0, st)
<1>1. [Work(dn, s, st) EXCEPT !.residue = 0] = w
  BY DEF Work
<1>2. w.dn = dn
  BY DEF Work
<1>3. [w EXCEPT !.status = @ \ {"Inexact", "Rounded"}]
          = Work(dn, 0, st \ {"Inexact", "Rounded"})
  BY DEF Work
<1>4. Shifted(Work(dn, s, st), n, e, cx) = Readjusted(w, n, e, cx)
  BY <1>1, Zenon DEF Shifted
<1> HIDE DEF w
<1>5. Readjusted(w, n, e, cx) = Invalid(n, Work(dn, 0, st \ {"Inexact", "Rounded"}))
  BY <1>2, <1>3, Zenon DEF Readjusted
<1> QED
  BY <1>4, <1>5, InvalidIs

LEMMA ShiftedBackIs ==
    ASSUME NEW neg, NEW x, NEW y, NEW s, NEW st, NEW n, NEW e, NEW cx,
           ~(y <= e), Digits(x) # cx.digits
    PROVE  Shifted(Work(Finite(neg, x, y), s, st), n, e, cx)
               = Work(Finite(neg, 10 * x, y - 1), 0, st)
<1> DEFINE w == Work(Finite(neg, x, y), 0, st)
<1>1. [Work(Finite(neg, x, y), s, st) EXCEPT !.residue = 0] = w
  BY DEF Work
<1>2. w.dn.exp = y /\ w.dn.coef = x
  BY DEF Work, Finite
<1>3. PICK a, b : a = 10 * x /\ b = y - 1
  OBVIOUS
<1>4. [w EXCEPT !.dn.coef = a] = Work(Finite(neg, a, y), 0, st)
  BY DEF Work, Finite
<1>5. [Work(Finite(neg, a, y), 0, st) EXCEPT !.dn.exp = b] = Work(Finite(neg, a, b), 0, st)
  BY DEF Work, Finite
<1>6. [w EXCEPT !.dn.coef = a, !.dn.exp = b] = [[w EXCEPT !.dn.coef = a] EXCEPT !.dn.exp = b]
  OBVIOUS
<1> HIDE DEF w
<1>7. Readjusted(w, n, e, cx) = [w EXCEPT !.dn.coef = a, !.dn.exp = b]
  BY <1>2, <1>3, Zenon DEF Readjusted
<1> QED
  BY <1>1, <1>3, <1>4, <1>5, <1>6, <1>7, Zenon DEF Shifted, w

LEMMA CutQuantized ==
    ASSUME NEW neg \in BOOLEAN, NEW c \in Nat \ {0}, NEW q \in Int, NEW e \in Int, q < e,
           NEW cx, Roomy(e, cx), Etiny(cx) <= e, e <= cx.emax, ~Overruns(neg, c, q, e, cx)
    PROVE  Quantized(InContext(Requantized(Finite(neg, c, q), e, cx), Finite(neg, c, q), cx),
                     neg, RoundedUp(neg, c, e - q, cx.round), e, Finite(neg, c, q),
                     c % powers[e - q] # 0, cx)
<1> DEFINE n == Finite(neg, c, q)
<1>1. PICK k \in Nat \ {0} : k = e - q /\ q + k = e /\ q + k + 1 = e + 1
  OBVIOUS
<1>2. PICK u \in Nat \ {0} : u = powers[k]
  BY PowersFacts
<1>3. cx.round \in Modes /\ cx.digits \in Nat \ {0} /\ cx.emax \in Int
  BY DEF Roomy, Loose
<1>4. PICK lower \in Nat, z \in Nat :
          /\ lower = c \div powers[k] /\ z = RoundedUp(neg, c, k, cx.round)
          /\ lower <= z /\ z <= lower + 1
  BY <1>3, RoundedUpIs
<1>5. PICK d \in Nat \ {0}, dl \in Nat \ {0}, dz \in Nat \ {0} :
          d = Digits(c) /\ dl = Digits(lower) /\ dz = Digits(z) /\ dl <= dz
  BY <1>4, DigitsFacts, DigitsGrow
<1>6. /\ k < d => dl = d - k /\ lower # 0
      /\ k >= d => lower = 0 /\ dl = 1
  BY <1>4, <1>5, DigitsCut, DigitsFacts
<1>7. n.coef = c /\ n.exp = q /\ ~IsZero(n)
  BY DEF Finite, IsZero
<1>8. PICK x : x = (c % powers[k] # 0)
  OBVIOUS
<1>9. (c % powers[e - q] # 0) = x /\ RoundedUp(neg, c, e - q, cx.round) = z
  BY <1>1, <1>4, <1>8
<1>10. Digits(n.coef) - (e - n.exp) = d - k /\ e - n.exp > 0 /\ e - n.exp = k
  BY <1>1, <1>5, <1>7
<1> DEFINE f == InContext(Requantized(n, e, cx), n, cx)
<1>11. SUFFICES Quantized(f, neg, z, e, n, x, cx)
  BY <1>9, Zenon
<1> HIDE DEF n
<1>12. CASE d - k > cx.digits
  <2>1. Requantized(n, e, cx) = Invalid(n, Plain(n))
    BY <1>7, <1>10, <1>12, Zenon DEF Requantized
  <2>2. PICK t : t = {} \cup {"Invalid_operation"}
    OBVIOUS
  <2>3. Requantized(n, e, cx) = Work(n, 0, t)
    BY <2>1, <2>2, InvalidIs, PlainIs
  <2>4. "Invalid_operation" \in t /\ t \subseteq CutOnly \cup {"Invalid_operation"}
    BY <2>2
  <2>5. dz > cx.digits
    BY <1>3, <1>5, <1>6, <1>12
  <2>6. ~Holds(z, e, cx)
    BY <1>3, <1>5, <2>5 DEF Holds
  <2>7. InContext(Work(n, 0, t), n, cx) = Work(n, 0, t)
    BY <2>4, InvalidStays
  <2> QED
    BY <2>3, <2>4, <2>6, <2>7, Zenon DEF Quantized
<1>13. CASE ~(d - k > cx.digits)
  <2>1. PICK s \in 0..9 : /\ s = 0 <=> c % powers[k] = 0
                          /\ CutLeaves(Cut(neg, c, q, k, cx), s, neg, c, q, k, cx)
    <3>1. Loose(cx)
      BY DEF Roomy
    <3> QED
      BY <3>1, CutIs
  <2>2. PICK st : st = CutFlags({}, s)
    OBVIOUS
  <2>3. st \subseteq CutOnly /\ ("Inexact" \in st) = x
    BY <1>8, <2>1, <2>2, CutFlagsAre
  <2>4. Requantized(n, e, cx) = Shifted(Cut(neg, c, q, k, cx), n, e, cx)
    <3>1. [cx EXCEPT !.digits = Digits(n.coef) - (e - n.exp)] = Shorter(cx, c, k)
      BY <1>5, <1>10 DEF Shorter
    <3> QED
      BY <1>7, <1>10, <1>13, <3>1, Zenon DEF Requantized, Cut, Shifted, n
  <2>5. dl <= cx.digits
    BY <1>3, <1>5, <1>6, <1>13
  <2>6. lower < powers[dl] /\ powers[dl] \in Nat
    BY <1>4, <1>5, DigitsAtMost, PowersFacts
  <2>7. CASE ~AllNines(neg, c, k, cx.round)
    <3>1. Cut(neg, c, q, k, cx) = Work(Finite(neg, z, e), s, st)
      BY <1>1, <1>4, <2>1, <2>2, <2>7, Zenon DEF CutLeaves
    <3>2. Finite(neg, z, e).exp <= e
      BY DEF Finite
    <3>3. Requantized(n, e, cx) = Work(Finite(neg, z, e), 0, st)
      <4>1. PICK dn : dn = Finite(neg, z, e)
        OBVIOUS
      <4>2. dn.exp <= e
        BY <3>2, <4>1, Zenon
      <4>3. Shifted(Work(dn, s, st), n, e, cx) = Work(dn, 0, st)
        <5>1. [Work(dn, s, st) EXCEPT !.residue = 0] = Work(dn, 0, st)
          BY DEF Work
        <5>2. Work(dn, 0, st).dn = dn
          BY DEF Work
        <5> QED
          BY <4>2, <5>1, <5>2, Zenon DEF Shifted, Readjusted
      <4> QED
        BY <2>4, <3>1, <4>1, <4>3, Zenon
    <3>4. z < powers[dl]
      BY <1>4, <1>5, <2>6, <2>7 DEF AllNines, RoundedUp
    <3>5. Digits(z) <= cx.digits
      BY <1>3, <1>4, <1>5, <2>5, <3>4, DigitsAtMost
    <3>6. Quantized(InContext(Work(Finite(neg, z, e), 0, st), n, cx),
                    neg, z, e, n, "Inexact" \in st, cx)
      BY <2>3, <3>5, InContextIs
    <3> QED
      BY <2>3, <3>3, <3>6, Zenon
  <2>8. CASE AllNines(neg, c, k, cx.round)
    <3>1. lower = powers[dl] - 1 /\ z = powers[dl]
      BY <1>4, <1>5, <2>6, <2>8 DEF AllNines, RoundedUp
    <3>2. lower # 0
      <4>1. powers[dl] # 1
        BY <1>5, PowersStep, PowersFacts
      <4> QED
        BY <2>6, <3>1, <4>1
    <3>3. k < d /\ dl = d - k
      BY <1>5, <1>6, <3>2
    <3>4. dz = dl + 1
      BY <1>5, <3>1, DigitsOfPower
    <3>5. ~(q + k + 1 + dl > cx.emax + 1)
      <4>1. ~(d + q > cx.emax)
        BY <1>1, <1>5, <2>8 DEF Overruns
      <4> QED
        BY <1>1, <1>3, <1>5, <3>3, <4>1
    <3>6. PICK y : y = powers[dl - 1] /\ Digits(y) = dl
      <4>1. dl - 1 \in Nat
        BY <1>5
      <4> QED
        BY <1>5, <4>1, DigitsOfPower
    <3>7. PICK b \in Int : b = e + 1
      OBVIOUS
    <3>8. Cut(neg, c, q, k, cx) = Work(Finite(neg, y, b), s, st)
      <4>1. y = powers[Digits(c \div powers[k]) - 1] /\ b = q + k + 1
            /\ ~(q + k + 1 + Digits(c \div powers[k]) > cx.emax + 1)
        BY <1>1, <1>4, <1>5, <3>5, <3>6, <3>7
      <4> QED
        BY <2>1, <2>2, <2>8, <4>1, Zenon DEF CutLeaves
    <3>9. ~(b <= e) /\ b - 1 = e
      BY <3>7
    <3>10. Finite(neg, y, b).exp = b /\ Finite(neg, y, b).coef = y
      BY DEF Finite
    <3>11. CASE dl = cx.digits
      <4>1. PICK t : t = (st \ {"Inexact", "Rounded"}) \cup {"Invalid_operation"}
        OBVIOUS
      <4>2. Requantized(n, e, cx) = Work(n, 0, t)
        BY <2>4, <3>6, <3>8, <3>9, <3>10, <3>11, <4>1, ShiftedIs
      <4>3. "Invalid_operation" \in t /\ t \subseteq CutOnly \cup {"Invalid_operation"}
        BY <2>3, <4>1
      <4>4. ~Holds(z, e, cx)
        BY <1>3, <1>5, <3>4, <3>11 DEF Holds
      <4>5. InContext(Work(n, 0, t), n, cx) = Work(n, 0, t)
        BY <4>3, InvalidStays
      <4> QED
        BY <4>2, <4>3, <4>4, <4>5, Zenon DEF Quantized
    <3>12. CASE dl # cx.digits
      <4>1. 10 * y = z
        <5>1. dl - 1 \in Nat /\ (dl - 1) + 1 = dl
          BY <1>5
        <5> QED
          BY <3>1, <3>6, <5>1, PowersStep
      <4>2. Requantized(n, e, cx) = Work(Finite(neg, z, e), 0, st)
        BY <2>4, <3>6, <3>8, <3>9, <3>12, <4>1, ShiftedBackIs
      <4>3. Digits(z) <= cx.digits
        BY <1>3, <1>5, <2>5, <3>4, <3>12
      <4>4. Quantized(InContext(Work(Finite(neg, z, e), 0, st), n, cx),
                      neg, z, e, n, "Inexact" \in st, cx)
        BY <2>3, <4>3, InContextIs
      <4> QED
        BY <2>3, <4>2, <4>4, Zenon
    <3> QED
      BY <3>11, <3>12
  <2> QED
    BY <2>7, <2>8
<1> QED
  BY <1>12, <1>13

(***************************************************************************)
(* No NaN comes of numbers untold: rounding makes none, and a routine that *)
(* refuses its operands says so.                                           *)
(***************************************************************************)
IsNumeral(n) == /\ n.kind \in {"finite", "inf"}
                /\ n = [kind |-> n.kind, neg |-> n.neg, coef |-> n.coef, exp |-> n.exp]

Loud == NaNFlags \ {"Invalid_operation"}

Tame(w) == \E n, rs, st : IsNumeral(n) /\ st \cap Loud = {} /\ w = Work(n, rs, st)

LEMMA NumeralsAre ==
    /\ \A neg, c, e : IsNumeral(Finite(neg, c, e))
    /\ \A neg : IsNumeral(Special("inf", neg))
    /\ \A n : n \in Numbers /\ ~IsNaN(n) => IsNumeral(n)
    /\ \A n : IsNumeral(n) => ~IsNaN(n)
<1>1. ASSUME NEW neg, NEW c, NEW e PROVE IsNumeral(Finite(neg, c, e))
  BY DEF IsNumeral, Finite
<1>2. ASSUME NEW neg PROVE IsNumeral(Special("inf", neg))
  BY DEF IsNumeral, Special
<1>3. ASSUME NEW n, n \in Numbers, ~IsNaN(n) PROVE IsNumeral(n)
  <2>1. n = [kind |-> n.kind, neg |-> n.neg, coef |-> n.coef, exp |-> n.exp]
    BY <1>3 DEF Numbers
  <2>2. n.kind \in {"finite", "inf"}
    BY <1>3 DEF Numbers, Kinds, IsNaN
  <2> QED
    BY <2>1, <2>2 DEF IsNumeral
<1>4. ASSUME NEW n, IsNumeral(n) PROVE ~IsNaN(n)
  BY <1>4 DEF IsNumeral, IsNaN
<1> QED
  BY <1>1, <1>2, <1>3, <1>4, Zenon

LEMMA TameIs ==
    ASSUME NEW n, IsNumeral(n), NEW rs, NEW st, st \cap Loud = {}
    PROVE  Tame(Work(n, rs, st))
BY Zenon DEF Tame

LEMMA TameFields ==
    ASSUME NEW w, Tame(w)
    PROVE  IsNumeral(w.dn) /\ w.status \cap Loud = {}
<1>1. PICK n, rs, st : IsNumeral(n) /\ st \cap Loud = {} /\ w = Work(n, rs, st)
  BY DEF Tame
<1>2. w.dn = n /\ w.status = st
  BY <1>1, WorkFields
<1> QED
  BY <1>1, <1>2

LEMMA NumeralParts ==
    ASSUME NEW n, IsNumeral(n), NEW x
    PROVE  /\ IsNumeral([n EXCEPT !.coef = x]) /\ IsNumeral([n EXCEPT !.exp = x])
           /\ IsNumeral([n EXCEPT !.neg = x])
<1>1. PICK k, neg, c, e : /\ k \in {"finite", "inf"}
                          /\ n = [kind |-> k, neg |-> neg, coef |-> c, exp |-> e]
  BY DEF IsNumeral
<1>2. [n EXCEPT !.coef = x] = [kind |-> k, neg |-> neg, coef |-> x, exp |-> e]
  BY <1>1
<1>3. [n EXCEPT !.exp = x] = [kind |-> k, neg |-> neg, coef |-> c, exp |-> x]
  BY <1>1
<1>4. [n EXCEPT !.neg = x] = [kind |-> k, neg |-> x, coef |-> c, exp |-> e]
  BY <1>1
<1> QED
  BY <1>1, <1>2, <1>3, <1>4 DEF IsNumeral

LEMMA TameParts ==
    ASSUME NEW w, Tame(w), NEW x
    PROVE  /\ Tame([w EXCEPT !.dn.coef = x]) /\ Tame([w EXCEPT !.dn.exp = x])
           /\ Tame([w EXCEPT !.residue = x])
           /\ IsNumeral(x) => Tame([w EXCEPT !.dn = x])
           /\ x \cap Loud = {} => Tame(Raise(w, x))
           /\ x \cap Loud = {} => Tame([w EXCEPT !.status = x])
<1>1. PICK n, rs, st : IsNumeral(n) /\ st \cap Loud = {} /\ w = Work(n, rs, st)
  BY DEF Tame
<1>2. [w EXCEPT !.dn.coef = x] = Work([n EXCEPT !.coef = x], rs, st)
  BY <1>1 DEF Work
<1>3. [w EXCEPT !.dn.exp = x] = Work([n EXCEPT !.exp = x], rs, st)
  BY <1>1 DEF Work
<1>4. /\ [w EXCEPT !.residue = x] = Work(n, x, st)
      /\ [w EXCEPT !.dn = x] = Work(x, rs, st)
      /\ Raise(w, x) = Work(n, rs, st \cup x)
  BY <1>1, WorkParts
<1>5. [w EXCEPT !.status = x] = Work(n, rs, x)
  BY <1>1 DEF Work
<1>6. x \cap Loud = {} => (st \cup x) \cap Loud = {}
  BY <1>1
<1>7. IsNumeral([n EXCEPT !.coef = x]) /\ IsNumeral([n EXCEPT !.exp = x])
  BY <1>1, NumeralParts
<1>8. Tame([w EXCEPT !.dn.coef = x]) /\ Tame([w EXCEPT !.dn.exp = x])
  <2>1. Tame(Work([n EXCEPT !.coef = x], rs, st)) /\ Tame(Work([n EXCEPT !.exp = x], rs, st))
    BY <1>1, <1>7, TameIs
  <2> QED
    BY <1>2, <1>3, <2>1, Zenon
<1>9. Tame([w EXCEPT !.residue = x]) /\ (IsNumeral(x) => Tame([w EXCEPT !.dn = x]))
  <2>1. Tame(Work(n, x, st)) /\ (IsNumeral(x) => Tame(Work(x, rs, st)))
    BY <1>1, TameIs
  <2> QED
    BY <1>4, <2>1, Zenon
<1>10. x \cap Loud = {} => Tame(Raise(w, x)) /\ Tame([w EXCEPT !.status = x])
  <2>1. x \cap Loud = {} => Tame(Work(n, rs, st \cup x)) /\ Tame(Work(n, rs, x))
    BY <1>1, <1>6, TameIs
  <2> QED
    BY <1>4, <1>5, <2>1, Zenon
<1> QED
  BY <1>8, <1>9, <1>10

LEMMA TameMoved ==
    ASSUME NEW w, Tame(w), NEW x, NEW y
    PROVE  Tame([w EXCEPT !.dn.coef = x, !.dn.exp = y])
<1>1. [w EXCEPT !.dn.coef = x, !.dn.exp = y] = [[w EXCEPT !.dn.coef = x] EXCEPT !.dn.exp = y]
  OBVIOUS
<1>2. PICK v : v = [w EXCEPT !.dn.coef = x]
  OBVIOUS
<1>3. Tame(v)
  BY <1>2, TameParts
<1>4. Tame([v EXCEPT !.dn.exp = y])
  BY <1>3, TameParts
<1> QED
  BY <1>1, <1>2, <1>4, Zenon

LEMMA TameOverflow ==
    ASSUME NEW w, Tame(w), NEW cx
    PROVE  Tame(SetOverflow(w, cx))
<1>1. PICK m : m = IF NeedMax(w.dn.neg, cx.round) THEN MaxValue(w.dn.neg, cx)
                   ELSE Special("inf", w.dn.neg)
  OBVIOUS
<1>2. IsNumeral(m)
  BY <1>1, NumeralsAre, Zenon DEF MaxValue
<1>3. PICK x : x = IF cx.clamp THEN Etop(cx) ELSE cx.emax
  OBVIOUS
<1>4. \/ SetOverflow(w, cx) = w
      \/ SetOverflow(w, cx) = Raise([w EXCEPT !.dn.exp = x], {"Clamped"})
      \/ SetOverflow(w, cx) = Raise([w EXCEPT !.dn = m], {"Overflow", "Inexact", "Rounded"})
  BY <1>1, <1>3, Zenon DEF SetOverflow
<1>5. Tame([w EXCEPT !.dn.exp = x]) /\ Tame([w EXCEPT !.dn = m])
  BY <1>2, TameParts
<1>6. {"Clamped"} \cap Loud = {} /\ {"Overflow", "Inexact", "Rounded"} \cap Loud = {}
  BY DEF Loud, NaNFlags
<1>7. Tame(Raise([w EXCEPT !.dn.exp = x], {"Clamped"}))
  BY <1>5, <1>6, TameParts, Zenon
<1>8. Tame(Raise([w EXCEPT !.dn = m], {"Overflow", "Inexact", "Rounded"}))
  BY <1>5, <1>6, TameParts, Zenon
<1> QED
  BY <1>4, <1>7, <1>8

LEMMA TameCut ==
    ASSUME NEW w, Tame(w), NEW cx
    PROVE  Tame(SetCoeff(w, cx))
<1>1. IsNumeral(w.dn) /\ w.status \cap Loud = {}
  BY TameFields
<1>2. {"Inexact", "Rounded"} \cap Loud = {}
  BY DEF Loud, NaNFlags
<1>3. Tame(Raise(w, {"Inexact", "Rounded"}))
  BY <1>2, TameParts
<1>4. ASSUME NEW a, NEW b, NEW rs, NEW st, st \cap Loud = {}
      PROVE  Tame(Work([w.dn EXCEPT !.coef = a, !.exp = b], rs, st))
  <2>1. IsNumeral([[w.dn EXCEPT !.coef = a] EXCEPT !.exp = b])
    BY <1>1, NumeralParts, Zenon
  <2>2. [w.dn EXCEPT !.coef = a, !.exp = b] = [[w.dn EXCEPT !.coef = a] EXCEPT !.exp = b]
    OBVIOUS
  <2> QED
    BY <1>4, <2>1, <2>2, Zenon DEF Tame
<1>5. \/ SetCoeff(w, cx) = w \/ SetCoeff(w, cx) = Raise(w, {"Inexact", "Rounded"})
      \/ \E a, b, rs, st : /\ st \cap Loud = {}
                           /\ SetCoeff(w, cx) = Work([w.dn EXCEPT !.coef = a, !.exp = b], rs, st)
  <2>1. PICK dis : dis = Digits(w.dn.coef) - cx.digits
    OBVIOUS
  <2>2. PICK total : total = (dis > Digits(w.dn.coef))
    OBVIOUS
  <2>3. PICK rs : rs = IF total THEN Sticky(w, w.dn.coef) ELSE CutResidue(w, dis)
    OBVIOUS
  <2>4. PICK a : a = IF total THEN 0 ELSE w.dn.coef \div powers[dis]
    OBVIOUS
  <2>5. PICK b : b = w.dn.exp + dis
    OBVIOUS
  <2>6. PICK more : more = IF rs = 0 THEN {} ELSE {"Inexact"}
    OBVIOUS
  <2>7. PICK st : st = w.status \cup {"Rounded"} \cup more
    OBVIOUS
  <2>8. st \cap Loud = {}
    <3>1. more \cap Loud = {} /\ {"Rounded"} \cap Loud = {}
      BY <2>6 DEF Loud, NaNFlags
    <3> QED
      BY <1>1, <2>7, <3>1
  <2>9. \/ SetCoeff(w, cx) = w \/ SetCoeff(w, cx) = Raise(w, {"Inexact", "Rounded"})
        \/ SetCoeff(w, cx) = Work([w.dn EXCEPT !.coef = a, !.exp = b], rs, st)
    BY <2>1, <2>2, <2>3, <2>4, <2>5, <2>6, <2>7, Zenon DEF SetCoeff
  <2> QED
    BY <2>8, <2>9, Zenon
<1>6. ASSUME NEW a, NEW b, NEW rs, NEW st, st \cap Loud = {},
             SetCoeff(w, cx) = Work([w.dn EXCEPT !.coef = a, !.exp = b], rs, st)
      PROVE  Tame(SetCoeff(w, cx))
  <2>1. Tame(Work([w.dn EXCEPT !.coef = a, !.exp = b], rs, st))
    BY <1>4, <1>6
  <2> QED
    BY <1>6, <2>1, Zenon
<1> QED
  BY <1>3, <1>5, <1>6

LEMMA TameRound ==
    ASSUME NEW w, Tame(w), NEW cx
    PROVE  Tame(ApplyRound(w, cx))
<1>1. Tame(BumpUp(w, cx))
  <2>1. PICK c, e, d : c = w.dn.coef + 1 /\ e = w.dn.exp + 1 /\ d = powers[Digits(w.dn.coef) - 1]
    OBVIOUS
  <2>2. \/ BumpUp(w, cx) = [w EXCEPT !.dn.coef = c]
        \/ BumpUp(w, cx) = [w EXCEPT !.dn.coef = d, !.dn.exp = e]
        \/ BumpUp(w, cx) = SetOverflow([w EXCEPT !.dn.coef = d, !.dn.exp = e], cx)
    BY <2>1, Zenon DEF BumpUp
  <2>3. Tame([w EXCEPT !.dn.coef = c]) /\ Tame([w EXCEPT !.dn.coef = d, !.dn.exp = e])
    BY TameParts, TameMoved
  <2>4. Tame(SetOverflow([w EXCEPT !.dn.coef = d, !.dn.exp = e], cx))
    BY <2>3, TameOverflow
  <2> QED
    BY <2>2, <2>3, <2>4
<1>2. Tame(BumpDown(w, cx))
  <2>1. PICK c, d, a, e : /\ c = w.dn.coef - 1 /\ d = powers[Digits(w.dn.coef) - 1] - 1
                          /\ a = powers[Digits(w.dn.coef)] - 1 /\ e = w.dn.exp - 1
    OBVIOUS
  <2>2. \/ BumpDown(w, cx) = [w EXCEPT !.dn.coef = c]
        \/ BumpDown(w, cx) = Raise([w EXCEPT !.dn.coef = d],
                                   {"Underflow", "Subnormal", "Inexact", "Rounded"})
        \/ BumpDown(w, cx) = [w EXCEPT !.dn.coef = a, !.dn.exp = e]
    BY <2>1, Zenon DEF BumpDown
  <2>3. /\ Tame([w EXCEPT !.dn.coef = c]) /\ Tame([w EXCEPT !.dn.coef = d])
        /\ Tame([w EXCEPT !.dn.coef = a, !.dn.exp = e])
    BY TameParts, TameMoved
  <2>4. {"Underflow", "Subnormal", "Inexact", "Rounded"} \cap Loud = {}
    BY DEF Loud, NaNFlags
  <2>5. Tame(Raise([w EXCEPT !.dn.coef = d], {"Underflow", "Subnormal", "Inexact", "Rounded"}))
    BY <2>3, <2>4, TameParts, Zenon
  <2> QED
    BY <2>2, <2>3, <2>5
<1> QED
  BY <1>1, <1>2, Zenon DEF ApplyRound

LEMMA TameSubnormal ==
    ASSUME NEW w, Tame(w), NEW cx
    PROVE  Tame(SetSubnormal(w, cx))
<1>1. \A x \in {"Clamped", "Subnormal", "Underflow"} : {x} \cap Loud = {}
  BY DEF Loud, NaNFlags
<1>2. ASSUME NEW v, Tame(v), NEW x \in {"Clamped", "Subnormal", "Underflow"}
      PROVE  Tame(Raise(v, {x}))
  BY <1>1, <1>2, TameParts, Zenon
<1>3. ASSUME NEW v, Tame(v) PROVE Tame(UnderflowIfInexact(v)) /\ Tame(ClampedIfZero(v))
  BY <1>2, <1>3, Zenon DEF UnderflowIfInexact, ClampedIfZero
<1>4. ASSUME NEW v, Tame(v), NEW t PROVE Tame(ShiftedBack(v, t))
  <2>1. PICK a, b : a = 10 * v.dn.coef /\ b = v.dn.exp - 1
    OBVIOUS
  <2>2. ShiftedBack(v, t) = v \/ ShiftedBack(v, t) = [v EXCEPT !.dn.coef = a, !.dn.exp = b]
    BY <2>1, Zenon DEF ShiftedBack
  <2> QED
    <3>1. Tame([v EXCEPT !.dn.coef = a, !.dn.exp = b])
      BY <1>4, TameMoved
    <3> QED
      BY <1>4, <2>2, <3>1
<1>5. PICK t, low : t = Etiny(cx) /\ low = Raise(w, {"Subnormal"})
  OBVIOUS
<1>6. PICK ws : ws = [cx EXCEPT !.digits = Digits(w.dn.coef) - (t - w.dn.exp),
                                !.emin = @ - (t - w.dn.exp)]
  OBVIOUS
<1>7. PICK v : v = ApplyRound(SetCoeff(low, ws), ws)
  OBVIOUS
<1>8. Tame(low)
  BY <1>2, <1>5
<1>9. Tame(SetCoeff(low, ws))
  BY <1>8, TameCut
<1>10. Tame(v)
  BY <1>7, <1>9, TameRound
<1>11. Tame([w EXCEPT !.dn.exp = t])
  BY TameParts
<1>12. Tame(Raise([w EXCEPT !.dn.exp = t], {"Clamped"}))
  BY <1>2, <1>11
<1>13. Tame(ClampedIfZero(ShiftedBack(UnderflowIfInexact(v), t))) /\ Tame(UnderflowIfInexact(low))
  BY <1>3, <1>4, <1>8, <1>10
<1>14. \/ SetSubnormal(w, cx) = w
       \/ SetSubnormal(w, cx) = Raise([w EXCEPT !.dn.exp = t], {"Clamped"})
       \/ SetSubnormal(w, cx) = UnderflowIfInexact(low)
       \/ SetSubnormal(w, cx) = ClampedIfZero(ShiftedBack(UnderflowIfInexact(v), t))
  BY <1>5, <1>6, <1>7, Zenon DEF SetSubnormal
<1> QED
  BY <1>12, <1>13, <1>14

LEMMA TameFinalize ==
    ASSUME NEW w, Tame(w), NEW cx
    PROVE  Tame(Finalize(w, cx))
<1>1. ASSUME NEW v, Tame(v) PROVE Tame(CheckRange(v, cx))
  <2>1. PICK a, b : a = v.dn.coef * powers[v.dn.exp - Etop(cx)] /\ b = Etop(cx)
    OBVIOUS
  <2>2. FoldDown(v, cx) = Raise([v EXCEPT !.dn.coef = a, !.dn.exp = b], {"Clamped"})
    BY <2>1, Zenon DEF FoldDown
  <2>3. {"Clamped"} \cap Loud = {}
    BY DEF Loud, NaNFlags
  <2>4. PICK u : u = [v EXCEPT !.dn.coef = a, !.dn.exp = b]
    OBVIOUS
  <2>5. Tame(u)
    BY <1>1, <2>4, TameMoved
  <2>6. Tame(FoldDown(v, cx))
    <3>1. Tame(Raise(u, {"Clamped"}))
      BY <2>3, <2>5, TameParts, Zenon
    <3> QED
      BY <2>2, <2>4, <3>1, Zenon
  <2> QED
    BY <1>1, <2>6, TameOverflow, Zenon DEF CheckRange
<1>2. Tame(ApplyRound(w, cx))
  BY TameRound
<1>3. Tame(SetSubnormal(w, cx)) /\ Tame(SetSubnormal(ApplyRound(w, cx), cx))
  BY <1>2, TameSubnormal
<1> QED
  BY <1>1, <1>2, <1>3, Zenon DEF Finalize

\* a NaN that comes of numbers is told
Told(w) == IsNaN(w.dn) => w.status \cap NaNFlags # {}

LEMMA TameIsTold ==
    ASSUME NEW w, Tame(w)
    PROVE  Told(w)
BY TameFields, NumeralsAre DEF Told

LEMMA TamePlain ==
    ASSUME NEW n, IsNumeral(n)
    PROVE  Tame(Plain(n))
<1>1. PICK none : none = {}
  OBVIOUS
<1>2. none \cap Loud = {}
  BY <1>1
<1> QED
  BY <1>1, <1>2, TameIs, Zenon DEF Plain

LEMMA TameInvalid ==
    ASSUME NEW n, IsNumeral(n), NEW w, Tame(w)
    PROVE  Tame(Invalid(n, w))
<1>1. PICK v : v = [w EXCEPT !.dn = n]
  OBVIOUS
<1>2. Tame(v)
  BY <1>1, TameParts
<1>3. {"Invalid_operation"} \cap Loud = {}
  BY DEF Loud
<1> QED
  BY <1>1, <1>2, <1>3, TameParts, Zenon DEF Invalid

LEMMA TameFitted ==
    ASSUME NEW n, IsNumeral(n), NEW cx
    PROVE  Tame(Fitted(n, cx))
<1>1. Tame(SetCoeff(Plain(n), cx))
  BY TamePlain, TameCut
<1> QED
  BY <1>1, TameFinalize DEF Fitted

LEMMA OrdersTame ==
    ASSUME NEW x, IsNumeral(x), NEW y, IsNumeral(y), NEW cx
    PROVE  /\ Tame(CompareValue(x, y, cx)) /\ Tame(CompareSignal(x, y, cx))
           /\ Tame(CompareTotal(x, y)) /\ Tame(CompareTotalMag(x, y))
           /\ \A min, mag : Tame(MaxOrMin(x, y, cx, min, mag))
<1>1. ~IsNaN(x) /\ ~IsNaN(y)
  BY NumeralsAre
<1>2. ASSUME NEW i PROVE Tame(Plain(FromSignum(i)))
  <2>1. IsNumeral(FromSignum(i))
    BY NumeralsAre, Zenon DEF FromSignum
  <2> QED
    BY <2>1, TamePlain
<1>3. Tame(CompareValue(x, y, cx))
  BY <1>1, <1>2, Zenon DEF CompareValue
<1>4. Tame(CompareSignal(x, y, cx))
  <2>1. PICK f : f = IF IsNaN(x) \/ IsNaN(y) THEN {"Invalid_operation", "sNaN"} ELSE {}
    OBVIOUS
  <2>2. f \cap Loud = {}
    BY <1>1, <2>1
  <2>3. CompareSignal(x, y, cx) = Raise(CompareValue(x, y, cx), f)
    BY <2>1, Zenon DEF CompareSignal
  <2> QED
    <3>1. PICK w : w = CompareValue(x, y, cx) /\ Tame(w)
      BY <1>3
    <3>2. Tame(Raise(w, f))
      BY <2>2, <3>1, TameParts, Zenon
    <3> QED
      BY <2>3, <3>1, <3>2, Zenon
<1>5. Tame(CompareTotal(x, y)) /\ Tame(CompareTotalMag(x, y))
  BY <1>2, Zenon DEF CompareTotal, CompareTotalMag
<1>6. ASSUME NEW min, NEW mag PROVE Tame(MaxOrMin(x, y, cx, min, mag))
  <2>1. ~("snan" \in {x.kind, y.kind} \/ (IsNaN(x) /\ IsNaN(y)))
    BY <1>1 DEF IsNaN
  <2>2. MaxOrMin(x, y, cx, min, mag) = Fitted(x, cx) \/ MaxOrMin(x, y, cx, min, mag) = Fitted(y, cx)
    BY <1>1, <2>1, Zenon DEF MaxOrMin
  <2> QED
    BY <2>2, TameFitted
<1> QED
  BY <1>3, <1>4, <1>5, <1>6

LEMMA CopiesTame ==
    ASSUME NEW x, IsNumeral(x), NEW y
    PROVE  /\ Tame(Plain(SameQuantum(x, y))) /\ Tame(Plain(CopyAbs(x)))
           /\ Tame(Plain(CopyNegate(x))) /\ Tame(Plain(CopySign(x, y)))
<1>1. IsNumeral(SameQuantum(x, y))
  BY NumeralsAre, Zenon DEF SameQuantum, FromSignum
<1>2. ASSUME NEW s PROVE IsNumeral(WithSign(x, s))
  BY NumeralParts DEF WithSign
<1>3. IsNumeral(CopyAbs(x)) /\ IsNumeral(CopyNegate(x)) /\ IsNumeral(CopySign(x, y))
  BY <1>2 DEF CopyAbs, CopyNegate, CopySign
<1> QED
  BY <1>1, <1>3, TamePlain

LEMMA QuantizeTame ==
    ASSUME NEW x, IsNumeral(x), NEW y, IsNumeral(y), NEW cx
    PROVE  /\ \A req : Tame(QuantizeOp(x, y, cx, req))
           /\ Tame(Quantize(x, y, cx)) /\ Tame(Rescale(x, y, cx))
<1>1. ~IsNaN(x) /\ ~IsNaN(y)
  BY NumeralsAre
<1>2. Tame(Plain(x)) /\ Tame(Invalid(x, Plain(x)))
  BY TamePlain, TameInvalid
<1>3. ASSUME NEW e PROVE Tame(Requantized(x, e, cx))
  <2>1. PICK ws : ws = [cx EXCEPT !.digits = Digits(x.coef) - (e - x.exp)]
    OBVIOUS
  <2>2. Tame(ApplyRound(SetCoeff(Plain(x), ws), ws))
    BY <1>2, TameCut, TameRound
  <2>3. PICK w : w = [ApplyRound(SetCoeff(Plain(x), ws), ws) EXCEPT !.residue = 0]
    OBVIOUS
  <2>4. Tame(w)
    BY <2>2, <2>3, TameParts
  <2>5. Tame(Readjusted(w, x, e, cx))
    <3>1. PICK a, b, st : a = 10 * w.dn.coef /\ b = w.dn.exp - 1
                          /\ st = w.status \ {"Inexact", "Rounded"}
      OBVIOUS
    <3>2. \/ Readjusted(w, x, e, cx) = w
          \/ Readjusted(w, x, e, cx) = Invalid(x, [w EXCEPT !.status = st])
          \/ Readjusted(w, x, e, cx) = [w EXCEPT !.dn.coef = a, !.dn.exp = b]
      BY <3>1, Zenon DEF Readjusted
    <3>3. st \cap Loud = {}
      BY <2>4, <3>1, TameFields
    <3>4. Tame([w EXCEPT !.status = st])
      BY <2>4, <3>3, TameParts
    <3>5. Tame(Invalid(x, [w EXCEPT !.status = st]))
      BY <3>4, TameInvalid
    <3>6. Tame([w EXCEPT !.dn.coef = a, !.dn.exp = b])
      BY <2>4, TameMoved
    <3> QED
      BY <2>4, <3>2, <3>5, <3>6
  <2>6. PICK c : c = x.coef * powers[-(e - x.exp)]
    OBVIOUS
  <2>7. IsNumeral([x EXCEPT !.exp = e]) /\ IsNumeral([x EXCEPT !.coef = c, !.exp = e])
    <3>1. [x EXCEPT !.coef = c, !.exp = e] = [[x EXCEPT !.coef = c] EXCEPT !.exp = e]
      OBVIOUS
    <3>2. IsNumeral([x EXCEPT !.exp = e]) /\ IsNumeral([x EXCEPT !.coef = c])
      BY NumeralParts
    <3>3. IsNumeral([[x EXCEPT !.coef = c] EXCEPT !.exp = e])
      BY <3>2, NumeralParts
    <3> QED
      BY <3>1, <3>2, <3>3, Zenon
  <2>8. \/ Requantized(x, e, cx) = Plain([x EXCEPT !.exp = e])
        \/ Requantized(x, e, cx) = Invalid(x, Plain(x))
        \/ Requantized(x, e, cx) = Readjusted(w, x, e, cx)
        \/ Requantized(x, e, cx) = Plain([x EXCEPT !.coef = c, !.exp = e])
    BY <2>1, <2>3, <2>6, Zenon DEF Requantized
  <2> QED
    BY <1>2, <2>5, <2>7, <2>8, TamePlain
<1>4. ASSUME NEW w, Tame(w) PROVE Tame(InContext(w, x, cx))
  <2>1. PICK f : f = Finalize(w, cx)
    OBVIOUS
  <2>2. PICK st : st = f.status \ {"Underflow"}
    OBVIOUS
  <2>3. Tame(f)
    BY <1>4, <2>1, TameFinalize
  <2>4. st \cap Loud = {}
    BY <2>2, <2>3, TameFields
  <2>5. Tame([f EXCEPT !.status = st])
    BY <2>3, <2>4, TameParts
  <2>6. Tame(Invalid(x, w))
    BY <1>4, TameInvalid
  <2>7. \/ InContext(w, x, cx) = w \/ InContext(w, x, cx) = Invalid(x, w)
        \/ InContext(w, x, cx) = [f EXCEPT !.status = st]
    BY <2>1, <2>2, Zenon DEF InContext
  <2> QED
    BY <1>4, <2>5, <2>6, <2>7
<1>5. ASSUME NEW e PROVE Tame(QuantizeTo(x, e, cx))
  BY <1>2, <1>3, <1>4, Zenon DEF QuantizeTo
<1>6. ASSUME NEW req PROVE Tame(QuantizeOp(x, y, cx, req))
  BY <1>1, <1>2, <1>5, Zenon DEF QuantizeOp
<1> QED
  BY <1>6, Zenon DEF Quantize, Rescale

LEMMA ExponentsTame ==
    ASSUME NEW x, IsNumeral(x), NEW y, IsNumeral(y), NEW cx
    PROVE  /\ Tame(Reduce(x, cx)) /\ Tame(Trim(x, cx))
           /\ Tame(ScaleB(x, y, cx)) /\ Tame(LogB(x, cx))
<1>1. ~IsNaN(x) /\ ~IsNaN(y)
  BY NumeralsAre
<1>2. ASSUME NEW n, IsNumeral(n), NEW c, NEW all, NEW noclamp
      PROVE  IsNumeral(TrimOp(n, c, all, noclamp))
  <2>1. PICK d : d = Droppable(n, c, all, noclamp)
    OBVIOUS
  <2>2. PICK a, b : a = n.coef \div powers[d] /\ b = n.exp + d
    OBVIOUS
  <2>3. \/ TrimOp(n, c, all, noclamp) = n
        \/ TrimOp(n, c, all, noclamp) = [n EXCEPT !.exp = 0]
        \/ TrimOp(n, c, all, noclamp) = [n EXCEPT !.coef = a, !.exp = b]
    BY <2>1, <2>2, Zenon DEF TrimOp
  <2>4. [n EXCEPT !.coef = a, !.exp = b] = [[n EXCEPT !.coef = a] EXCEPT !.exp = b]
    OBVIOUS
  <2>5. IsNumeral([n EXCEPT !.coef = a])
    BY <1>2, NumeralParts
  <2>6. IsNumeral([[n EXCEPT !.coef = a] EXCEPT !.exp = b]) /\ IsNumeral([n EXCEPT !.exp = 0])
    BY <1>2, <2>5, NumeralParts
  <2> QED
    BY <1>2, <2>3, <2>4, <2>6, Zenon
<1>3. Tame(Reduce(x, cx))
  <2>1. PICK w : w = Fitted(x, cx)
    OBVIOUS
  <2>2. PICK m : m = TrimOp(w.dn, cx, TRUE, FALSE)
    OBVIOUS
  <2>3. Tame(w)
    BY <2>1, TameFitted
  <2>4. IsNumeral(w.dn)
    BY <2>3, TameFields
  <2>5. IsNumeral(m)
    BY <1>2, <2>2, <2>4, Zenon
  <2>6. Tame([w EXCEPT !.dn = m])
    BY <2>3, <2>5, TameParts
  <2>7. Reduce(x, cx) = [w EXCEPT !.dn = m]
    BY <1>1, <2>1, <2>2, Zenon DEF Reduce
  <2> QED
    BY <2>6, <2>7
<1>4. Tame(Trim(x, cx))
  <2>1. IsNumeral(TrimOp(x, [cx EXCEPT !.clamp = FALSE], FALSE, TRUE))
    BY <1>2, Zenon
  <2> QED
    BY <2>1, TamePlain DEF Trim
<1>5. Tame(ScaleB(x, y, cx))
  <2>1. PICK e : e = x.exp + GetInt(y).value
    OBVIOUS
  <2>2. IsNumeral([x EXCEPT !.exp = e])
    BY NumeralParts
  <2>3. Tame(Finalize(Plain([x EXCEPT !.exp = e]), cx))
    BY <2>2, TamePlain, TameFinalize
  <2>4. Tame(Plain(x)) /\ Tame(Invalid(x, Plain(x)))
    BY TamePlain, TameInvalid
  <2>5. \/ ScaleB(x, y, cx) = Invalid(x, Plain(x)) \/ ScaleB(x, y, cx) = Plain(x)
        \/ ScaleB(x, y, cx) = Finalize(Plain([x EXCEPT !.exp = e]), cx)
    BY <1>1, <2>1, Zenon DEF ScaleB
  <2> QED
    BY <2>3, <2>4, <2>5
<1>6. Tame(LogB(x, cx))
  <2>1. PICK a, b : a = (Adjusted(x) < 0) /\ b = IF a THEN -Adjusted(x) ELSE Adjusted(x)
    OBVIOUS
  <2>2. Tame(Fitted(Finite(a, b, 0), cx))
    BY NumeralsAre, TameFitted
  <2>3. Tame(Plain(CopyAbs(x)))
    BY CopiesTame
  <2>4. Tame(Failed(Special("inf", TRUE), {"Division_by_zero"}))
    <3>1. IsNumeral(Special("inf", TRUE))
      BY NumeralsAre
    <3>2. {"Division_by_zero"} \cap Loud = {}
      BY DEF Loud, NaNFlags
    <3> QED
      BY <3>1, <3>2, TameIs DEF Failed
  <2>5. \/ LogB(x, cx) = Plain(CopyAbs(x)) \/ LogB(x, cx) = Fitted(Finite(a, b, 0), cx)
        \/ LogB(x, cx) = Failed(Special("inf", TRUE), {"Division_by_zero"})
    BY <1>1, <2>1, Zenon DEF LogB
  <2> QED
    BY <2>2, <2>3, <2>4, <2>5
<1> QED
  BY <1>3, <1>4, <1>5, <1>6

LEMMA AfterStatusTold ==
    ASSUME NEW w, Tame(w)
    PROVE  IsNaN(AfterStatus(w.dn, w.status)) => w.status \cap NaNFlags # {}
<1>1. ~IsNaN(w.dn)
  BY TameFields, NumeralsAre
<1> QED
  BY <1>1, Zenon DEF AfterStatus

LEMMA IntegralTold ==
    ASSUME NEW x, IsNumeral(x), NEW cx, NEW earlier
    PROVE  /\ Told(ToIntegralExact(x, cx, earlier))
           /\ earlier \cap Loud = {} => Told(ToIntegralValue(x, cx, earlier))
<1>1. ~IsNaN(x)
  BY NumeralsAre
<1>2. PICK w : w = Quantize(x, Finite(FALSE, 0, 0), [cx EXCEPT !.digits = Digits(x.coef)])
  OBVIOUS
<1>3. Tame(w)
  BY <1>2, NumeralsAre, QuantizeTame
<1>4. PICK dn, rs, st : IsNumeral(dn) /\ st \cap Loud = {} /\ w = Work(dn, rs, st)
  BY <1>3 DEF Tame
<1>5. w.dn = dn /\ w.status = st
  BY <1>4, WorkFields
<1>6. PICK m : m = AfterStatus(dn, st)
  OBVIOUS
<1>7. IsNaN(m) => st \cap NaNFlags # {}
  BY <1>3, <1>5, <1>6, AfterStatusTold
<1>8. InnerResult(w) = Work(m, rs, st)
  <2>1. InnerResult(w) = [w EXCEPT !.dn = m]
    BY <1>5, <1>6, Zenon DEF InnerResult
  <2> QED
    BY <1>4, <2>1 DEF Work
<1>9. Raise(InnerResult(w), earlier) = Work(m, rs, st \cup earlier)
  BY <1>8, WorkParts
<1>10. CASE ToIntegralExact(x, cx, earlier) = Plain(x)
  <2>1. Tame(Plain(x))
    BY TamePlain
  <2>2. Told(ToIntegralExact(x, cx, earlier))
    BY <1>10, <2>1, TameIsTold
  <2>3. Told(ToIntegralValue(x, cx, earlier))
    <3>1. Plain(x).status \cap NaNFlags = {}
      BY PlainIs
    <3>2. AfterStatus(x, Plain(x).status) = x
      BY <3>1, NoNaNFlag
    <3>3. InnerResult(Plain(x)) = Plain(x)
      <4>1. InnerResult(Plain(x)) = [Plain(x) EXCEPT !.dn = x]
        BY <3>2, PlainIs, Zenon DEF InnerResult
      <4> QED
        BY <4>1 DEF Plain, Work
    <3>4. ToIntegralValue(x, cx, earlier) = OnlyInvalid(Plain(x))
      BY <1>10, <3>3, Zenon DEF ToIntegralValue
    <3>5. PICK f : f = IF "Invalid_operation" \in Plain(x).status
                       THEN {"Invalid_operation", "sNaN"} ELSE {}
      OBVIOUS
    <3>6. OnlyInvalid(Plain(x)) = [Plain(x) EXCEPT !.status = f]
      BY <3>5, Zenon DEF OnlyInvalid
    <3>7. f \cap Loud = {}
      BY <3>5 DEF Loud, NaNFlags
    <3>8. Tame([Plain(x) EXCEPT !.status = f])
      BY <2>1, <3>7, TameParts
    <3> QED
      BY <3>4, <3>6, <3>8, TameIsTold, Zenon
  <2> QED
    BY <2>2, <2>3
<1>11. CASE ToIntegralExact(x, cx, earlier) = Work(m, rs, st \cup earlier)
  <2>1. Told(ToIntegralExact(x, cx, earlier))
    <3>1. IsNaN(m) => (st \cup earlier) \cap NaNFlags # {}
      BY <1>7
    <3> QED
      BY <1>11, <3>1, WorkFields DEF Told
  <2>2. ASSUME earlier \cap Loud = {} PROVE Told(ToIntegralValue(x, cx, earlier))
    <3>1. PICK all, k : all = st \cup earlier /\ k = AfterStatus(m, all)
      OBVIOUS
    <3>2. InnerResult(Work(m, rs, all)) = Work(k, rs, all)
      <4>1. PICK v : v = Work(m, rs, all)
        OBVIOUS
      <4>2. v.dn = m /\ v.status = all
        BY <4>1, WorkFields
      <4>3. InnerResult(v) = [v EXCEPT !.dn = k]
        BY <3>1, <4>2, Zenon DEF InnerResult
      <4> QED
        BY <4>1, <4>3 DEF Work
    <3>3. PICK f : f = IF "Invalid_operation" \in all THEN {"Invalid_operation", "sNaN"} ELSE {}
      OBVIOUS
    <3>4. OnlyInvalid(Work(k, rs, all)) = [Work(k, rs, all) EXCEPT !.status = f]
      <4>1. PICK v : v = Work(k, rs, all)
        OBVIOUS
      <4>2. v.status = all
        BY <4>1, WorkFields
      <4>3. OnlyInvalid(v) = [v EXCEPT !.status = f]
        BY <3>3, <4>2, Zenon DEF OnlyInvalid
      <4> QED
        BY <4>1, <4>3, Zenon
    <3>5. [Work(k, rs, all) EXCEPT !.status = f] = Work(k, rs, f)
      BY DEF Work
    <3>6. ToIntegralValue(x, cx, earlier) = Work(k, rs, f)
      BY <1>11, <3>1, <3>2, <3>4, <3>5, Zenon DEF ToIntegralValue
    <3>7. IsNaN(k) => all \cap NaNFlags # {}
      <4>1. IsNaN(m) => all \cap NaNFlags # {}
        BY <1>7, <3>1
      <4> QED
        BY <3>1, <4>1, Zenon DEF AfterStatus
    <3>8. all \cap NaNFlags # {} => f \cap NaNFlags # {}
      BY <1>4, <2>2, <3>1, <3>3 DEF Loud, NaNFlags
    <3> QED
      BY <3>6, <3>7, <3>8, WorkFields DEF Told
  <2> QED
    BY <2>1, <2>2
<1>12. \/ ToIntegralExact(x, cx, earlier) = Plain(x)
       \/ ToIntegralExact(x, cx, earlier) = Raise(InnerResult(w), earlier)
  BY <1>1, <1>2, Zenon DEF ToIntegralExact
<1> QED
  BY <1>9, <1>10, <1>11, <1>12

LEMMA NextTold ==
    ASSUME NEW x, IsNumeral(x), NEW y, IsNumeral(y), NEW cx
    PROVE  Told(NextPlus(x, cx)) /\ Told(NextMinus(x, cx)) /\ Told(NextToward(x, y, cx))
<1>1. ~IsNaN(x) /\ ~IsNaN(y)
  BY NumeralsAre
<1>2. ASSUME NEW up
      PROVE  \E n, st : ~IsNaN(n) /\ Step(x, up, cx) = Work(n, 0, st)
  <2>1. ~IsNaN(MaxValue(up, cx))
    BY DEF MaxValue, Finite, IsNaN
  <2>2. \E n, st : ~IsNaN(n) /\ InfinitesimalOff(x, up, cx) = Work(n, 0, st)
    <3>1. ASSUME NEW neg, NEW c, NEW ws PROVE ~IsNaN(Delivered(neg, c, TinyExp, ws))
      BY DeliveredKind DEF IsNaN
    <3>2. \/ InfinitesimalOff(x, up, cx) = Plain(x)
          \/ \E neg, c, ws : InfinitesimalOff(x, up, cx)
                 = Work(Delivered(neg, c, TinyExp, ws), 0, FlagsFor(neg, c, TinyExp, ws))
      BY Zenon DEF InfinitesimalOff
    <3> QED
      BY <1>1, <3>1, <3>2, Zenon DEF Plain
  <2> QED
    BY <2>1, <2>2, Zenon DEF Step, Plain
<1>3. ASSUME NEW up PROVE Told(Next1(x, up, cx))
  <2>1. PICK n, st : ~IsNaN(n) /\ Step(x, up, cx) = Work(n, 0, st)
    BY <1>2
  <2>2. [Work(n, 0, st) EXCEPT !.status = {}] = Work(n, 0, {})
    BY DEF Work
  <2>3. Next1(x, up, cx) = Work(n, 0, {})
    BY <1>1, <2>1, <2>2, Zenon DEF Next1
  <2> QED
    BY <2>1, <2>3, WorkFields DEF Told
<1>4. ASSUME NEW up PROVE Told(QuietIfNormal(Step(x, up, cx), cx))
  <2>1. PICK n, st : ~IsNaN(n) /\ Step(x, up, cx) = Work(n, 0, st)
    BY <1>2
  <2>2. [Work(n, 0, st) EXCEPT !.status = {}] = Work(n, 0, {})
    BY DEF Work
  <2>3. \/ QuietIfNormal(Step(x, up, cx), cx) = Work(n, 0, {})
        \/ QuietIfNormal(Step(x, up, cx), cx) = Work(n, 0, st)
    BY <2>1, <2>2, Zenon DEF QuietIfNormal
  <2> QED
    BY <2>1, <2>3, WorkFields DEF Told
<1>5. Told(NextToward(x, y, cx))
  <2>1. Told(Plain(CopySign(x, y)))
    BY CopiesTame, TameIsTold
  <2> QED
    BY <1>1, <1>4, <2>1, Zenon DEF NextToward, Towards
<1> QED
  BY <1>3, <1>5 DEF NextPlus, NextMinus

LEMMA DigitsTold ==
    ASSUME NEW x, IsNumeral(x), NEW y, IsNumeral(y), NEW cx
    PROVE  /\ \A op : Tame(Logical(op, x, y, cx))
           /\ Tame(Invert(x, cx)) /\ Tame(Rotate(x, y, cx)) /\ Tame(Shift(x, y, cx))
           /\ Tame(Plain(SetBCD(x, GetBCD(x))))
           /\ \A i, st : Told(Failed(FromInt(i), st))
<1>1. ~IsNaN(x) /\ ~IsNaN(y)
  BY NumeralsAre
<1>2. Tame(Plain(x)) /\ Tame(Invalid(x, Plain(x)))
  BY TamePlain, TameInvalid
<1>3. ASSUME NEW c PROVE Tame(Plain(Finite(FALSE, c, 0))) /\ IsNumeral([x EXCEPT !.coef = c])
                         /\ Tame(Plain([x EXCEPT !.coef = c]))
  BY NumeralsAre, NumeralParts, TamePlain
<1>4. ASSUME NEW op PROVE Tame(Logical(op, x, y, cx))
  BY <1>2, <1>3, Zenon DEF Logical
<1>5. Tame(Invert(x, cx))
  BY <1>2, <1>3, Zenon DEF Invert
<1>6. Tame(Rotate(x, y, cx))
  <2>1. \E c : \/ Rotate(x, y, cx) = Invalid(x, Plain(x)) \/ Rotate(x, y, cx) = Plain(x)
               \/ Rotate(x, y, cx) = Plain([x EXCEPT !.coef = c])
    <3>1. PICK left : left = IF CountOf(y, cx).value < 0 THEN cx.digits + CountOf(y, cx).value
                             ELSE CountOf(y, cx).value
      OBVIOUS
    <3>2. PICK c : c = RotateRight(x.coef, cx.digits, cx.digits - left)
      OBVIOUS
    <3>3. \/ Rotate(x, y, cx) = Invalid(x, Plain(x)) \/ Rotate(x, y, cx) = Plain(x)
          \/ Rotate(x, y, cx) = Plain([x EXCEPT !.coef = c])
      BY <1>1, <3>1, <3>2, Zenon DEF Rotate
    <3> QED
      BY <3>3
  <2> QED
    BY <1>2, <1>3, <2>1, Zenon
<1>7. Tame(Shift(x, y, cx))
  <2>1. ASSUME NEW by PROVE Tame(Plain(ShiftRight(x, by)))
    <3>1. PICK c : c = Value(SubSeq(ShiftToLeast(UnitsOf(x), D2U(Digits(x.coef)), by), 1,
                                    D2U(Digits(x.coef) - by)))
      OBVIOUS
    <3>2. ShiftRight(x, by) = [x EXCEPT !.coef = 0] \/ ShiftRight(x, by) = [x EXCEPT !.coef = c]
      BY <3>1, Zenon DEF ShiftRight
    <3> QED
      BY <1>3, <3>2, Zenon
  <2>2. ASSUME NEW by PROVE Tame(Plain(ShiftLeft(x, by, cx)))
    <3>1. PICK cut : cut = IF Digits(x.coef) + by - cx.digits > 0
                           THEN Decap(x, Digits(x.coef) + by - cx.digits) ELSE x
      OBVIOUS
    <3>2. IsNumeral(cut)
      <4>1. ASSUME NEW drop PROVE IsNumeral(Decap(x, drop))
        <5>1. PICK c : c = x.coef % powers[Digits(x.coef) - drop]
          OBVIOUS
        <5>2. Decap(x, drop) = [x EXCEPT !.coef = 0] \/ Decap(x, drop) = [x EXCEPT !.coef = c]
          BY <5>1, Zenon DEF Decap
        <5> QED
          BY <1>3, <5>2, Zenon
      <4> QED
        BY <3>1, <4>1, Zenon
    <3>3. PICK c : c = Value(ShiftToMost(UnitsOf(cut), Digits(cut.coef), by))
      OBVIOUS
    <3>4. \/ ShiftLeft(x, by, cx) = [x EXCEPT !.coef = 0] \/ ShiftLeft(x, by, cx) = cut
          \/ ShiftLeft(x, by, cx) = [cut EXCEPT !.coef = c]
      BY <3>1, <3>3, Zenon DEF ShiftLeft
    <3>5. IsNumeral([x EXCEPT !.coef = 0]) /\ IsNumeral([cut EXCEPT !.coef = c])
      BY <3>2, NumeralParts
    <3>6. IsNumeral(ShiftLeft(x, by, cx))
      BY <3>2, <3>4, <3>5, Zenon
    <3> QED
      BY <3>6, TamePlain
  <2> QED
    BY <1>1, <1>2, <2>1, <2>2, Zenon DEF Shift
<1>8. Tame(Plain(SetBCD(x, GetBCD(x))))
  BY <1>3, Zenon DEF SetBCD
<1>9. ASSUME NEW i, NEW st PROVE Told(Failed(FromInt(i), st))
  <2>1. IsNumeral(FromInt(i))
    BY NumeralsAre, Zenon DEF FromInt
  <2> QED
    BY <2>1, NumeralsAre, WorkFields DEF Told, Failed
<1> QED
  BY <1>4, <1>5, <1>6, <1>7, <1>8, <1>9

(***************************************************************************)
(* A number that was laid out does not read back as a NaN.                 *)
(***************************************************************************)
Letters == {"0", "1", "2", "3", "4", "5", "6", "7", "8", "9", ".", "-", "+", "E",
            "I", "n", "f", "i", "t", "y"}

Opens(s) == s \in Seq(Letters) /\ s # <<>> /\ IsDigit(s[1])

LEMMA DigitCharsAre ==
    /\ \A d \in 0..9 : DigitChars[d + 1] \in Letters /\ IsDigit(DigitChars[d + 1])
    /\ ~IsDigit(".") /\ ~IsDigit("-") /\ ~IsDigit("+") /\ ~IsDigit("I")
<1>1. ASSUME NEW d \in 0..9 PROVE DigitChars[d + 1] \in Letters /\ IsDigit(DigitChars[d + 1])
  <2>1. DigitChars[d + 1] \in Letters
    BY DEF DigitChars, Letters
  <2> QED
    BY <2>1, Zenon DEF IsDigit
<1>2. ASSUME NEW d \in 0..9 PROVE DigitChars[d + 1] \notin {".", "-", "+", "I"}
  BY DEF DigitChars
<1> QED
  BY <1>1, <1>2, Zenon DEF IsDigit

LEMMA OpensOn ==
    ASSUME NEW s, Opens(s), NEW u \in Seq(Letters)
    PROVE  Opens(s \o u)
<1>1. s \in Seq(Letters) /\ s # <<>> /\ IsDigit(s[1])
  BY DEF Opens
<1>2. s \o u \in Seq(Letters) /\ s \o u # <<>> /\ (s \o u)[1] = s[1]
  BY <1>1
<1> QED
  BY <1>1, <1>2 DEF Opens

LEMMA NumeralOpens ==
    ASSUME NEW c \in Nat
    PROVE  Opens(Numeral(c)) /\ Len(Numeral(c)) = Digits(c)
<1>1. PICK d \in Nat \ {0} : d = Digits(c)
  BY DigitsFacts
<1>2. ASSUME NEW i \in 1..d
      PROVE  /\ DigitChars[DigitAt(c, d - i) + 1] \in Letters
             /\ IsDigit(DigitChars[DigitAt(c, d - i) + 1])
  <2>1. d - i \in Nat
    OBVIOUS
  <2>2. PICK u \in Nat \ {0} : u = powers[d - i]
    BY <2>1, PowersFacts
  <2>3. PICK x \in Nat : x = c \div u
    BY Euclid
  <2>4. DigitAt(c, d - i) = x % 10
    BY <2>2, <2>3 DEF DigitAt
  <2>5. PICK y \in 0..9 : y = x % 10
    BY <2>3
  <2> QED
    BY <2>4, <2>5, DigitCharsAre
<1>3. Numeral(c) = [i \in 1..d |-> DigitChars[DigitAt(c, d - i) + 1]]
  BY <1>1 DEF Numeral
<1>4. Numeral(c) \in Seq(Letters) /\ Len(Numeral(c)) = d
  BY <1>2, <1>3
<1>5. Numeral(c)[1] = DigitChars[DigitAt(c, d - 1) + 1]
  BY <1>3
<1> QED
  BY <1>1, <1>2, <1>4, <1>5 DEF Opens

LEMMA RepeatIs ==
    ASSUME NEW n \in Nat
    PROVE  Repeat("0", n) \in Seq(Letters)
<1>1. PICK zero \in Letters : zero = "0"
  BY DEF Letters
<1>2. [i \in 1..n |-> zero] \in Seq(Letters)
  OBVIOUS
<1> QED
  BY <1>1, <1>2 DEF Repeat

LEMMA LaidOpens ==
    ASSUME NEW ds, Opens(ds), NEW pre \in Int
    PROVE  Opens(Laid(ds, pre))
<1>1. ds \in Seq(Letters) /\ ds # <<>> /\ IsDigit(ds[1]) /\ Len(ds) \in Nat \ {0}
  BY DEF Opens
<1>2. CASE pre <= 0
  <2>1. PICK m \in Nat : m = -pre
    BY <1>2
  <2>2. Opens(<<"0", ".">>)
    <3>1. DigitChars[1] = "0"
      BY DEF DigitChars
    <3>2. IsDigit(DigitChars[0 + 1])
      BY DigitCharsAre
    <3>3. <<"0", ".">> \in Seq(Letters) /\ <<"0", ".">> # <<>> /\ <<"0", ".">>[1] = "0"
      BY DEF Letters
    <3> QED
      BY <3>1, <3>2, <3>3 DEF Opens
  <2>3. Opens(<<"0", ".">> \o Repeat("0", m))
    BY <2>2, RepeatIs, OpensOn
  <2>4. Opens((<<"0", ".">> \o Repeat("0", m)) \o ds)
    BY <1>1, <2>3, OpensOn
  <2>5. Laid(ds, pre) = <<"0", ".">> \o Repeat("0", m) \o ds
    BY <1>2, <2>1, Zenon DEF Laid
  <2> QED
    BY <2>4, <2>5, Zenon
<1>3. CASE ~(pre <= 0) /\ pre < Len(ds)
  <2>1. Opens(SubSeq(ds, 1, pre))
    <3>1. SubSeq(ds, 1, pre) \in Seq(Letters) /\ SubSeq(ds, 1, pre)[1] = ds[1]
          /\ Len(SubSeq(ds, 1, pre)) = pre
      BY <1>1, <1>3
    <3> QED
      BY <1>1, <1>3, <3>1 DEF Opens
  <2>2. <<".">> \in Seq(Letters) /\ SubSeq(ds, pre + 1, Len(ds)) \in Seq(Letters)
    BY <1>1, <1>3 DEF Letters
  <2>3. Opens((SubSeq(ds, 1, pre) \o <<".">>) \o SubSeq(ds, pre + 1, Len(ds)))
    BY <2>1, <2>2, OpensOn
  <2>4. Laid(ds, pre) = SubSeq(ds, 1, pre) \o <<".">> \o SubSeq(ds, pre + 1, Len(ds))
    BY <1>3, Zenon DEF Laid
  <2> QED
    BY <2>3, <2>4, Zenon
<1>4. CASE ~(pre <= 0) /\ ~(pre < Len(ds))
  <2>1. PICK m \in Nat : m = pre - Len(ds)
    BY <1>1, <1>4
  <2>2. Laid(ds, pre) = ds \o Repeat("0", m)
    BY <1>4, <2>1, Zenon DEF Laid
  <2> QED
    BY <2>2, RepeatIs, OpensOn
<1> QED
  BY <1>2, <1>3, <1>4

LEMMA EPartIs ==
    ASSUME NEW e \in Int
    PROVE  EPart(e) \in Seq(Letters)
<1>1. PICK a \in Nat : a = IF e < 0 THEN -e ELSE e
  OBVIOUS
<1>2. PICK sign \in Letters : sign = IF e < 0 THEN "-" ELSE "+"
  BY DEF Letters
<1>3. Numeral(a) \in Seq(Letters)
  BY NumeralOpens DEF Opens
<1>4. <<"E", sign>> \in Seq(Letters)
  BY DEF Letters
<1>5. EPart(e) = <<>> \/ EPart(e) = <<"E", sign>> \o Numeral(a)
  BY <1>1, <1>2, Zenon DEF EPart
<1>6. <<"E", sign>> \o Numeral(a) \in Seq(Letters)
  BY <1>3, <1>4
<1>7. <<>> \in Seq(Letters)
  OBVIOUS
<1> QED
  BY <1>5, <1>6, <1>7, Zenon

LEMMA FiniteTextOpens ==
    ASSUME NEW n \in Numbers, NEW eng \in BOOLEAN
    PROVE  Opens(FiniteText(n, eng))
<1>1. n.coef \in Nat /\ n.exp \in Int
  BY DEF Numbers
<1>2. PICK ds : ds = Numeral(n.coef)
  OBVIOUS
<1>3. PICK len \in Nat \ {0} : len = Len(ds)
  BY <1>1, <1>2, NumeralOpens, DigitsFacts
<1>4. Opens(ds)
  BY <1>1, <1>2, NumeralOpens
<1>5. PICK e \in Int : e = n.exp + Len(ds) - 1
  BY <1>1, <1>3
<1>6. PICK adj \in Int : adj = IF eng THEN Adjust3(e) ELSE 0
  BY DEF Adjust3
<1>7. PICK a \in Int, b \in Int, x \in Int, y \in Int, z \in Int :
          /\ a = Len(ds) + n.exp /\ b = adj - 2 /\ x = 1 + adj /\ y = e - adj + 3 /\ z = e - adj
  BY <1>1, <1>3
<1>8. /\ Opens(Laid(ds, a)) /\ Opens(Laid(ds, b) \o EPart(y)) /\ Opens(Laid(ds, x) \o EPart(z))
  BY <1>4, LaidOpens, EPartIs, OpensOn
<1>9. \/ FiniteText(n, eng) = ds \/ FiniteText(n, eng) = Laid(ds, a)
      \/ FiniteText(n, eng) = Laid(ds, b) \o EPart(y)
      \/ FiniteText(n, eng) = Laid(ds, x) \o EPart(z)
  BY <1>2, <1>5, <1>6, <1>7, Zenon DEF FiniteText
<1> QED
  BY <1>4, <1>8, <1>9

\* where the body of a string begins, and that its digits end behind that
LEMMA SignSkipped ==
    ASSUME NEW body \in Seq(Letters), body # <<>>, body[1] \notin {"-", "+"}, NEW neg \in BOOLEAN,
           NEW t, t = (IF neg THEN <<"-">> ELSE <<>>) \o body
    PROVE  /\ t \in Seq(Letters) /\ t # <<>> /\ Start(t) \in 1..Len(t) /\ t[Start(t)] = body[1]
<1>1. CASE neg
  <2>1. <<"-">> \in Seq(Letters)
    BY DEF Letters
  <2>2. t = <<"-">> \o body
    BY <1>1
  <2>3. t \in Seq(Letters) /\ t # <<>> /\ Len(t) = 1 + Len(body) /\ t[1] = "-" /\ t[2] = body[1]
        /\ Len(body) \in Nat \ {0}
    BY <2>1, <2>2
  <2>4. Start(t) = 2
    BY <2>3 DEF Start
  <2> QED
    BY <2>3, <2>4
<1>2. CASE ~neg
  <2>1. t = body /\ Len(body) \in Nat \ {0}
    BY <1>2
  <2>2. Start(t) = 1
    BY <2>1 DEF Start
  <2> QED
    BY <2>1, <2>2
<1> QED
  BY <1>1, <1>2

LEMMA StopIs ==
    ASSUME NEW t \in Seq(Letters), Start(t) \in 1..Len(t)
    PROVE  /\ Stop(t) \in Start(t)..(Len(t) + 1)
           /\ IsDigit(t[Start(t)]) => Stop(t) > Start(t)
           /\ ~IsDigit(t[Start(t)]) /\ t[Start(t)] # "." => Stop(t) = Start(t)
<1>1. PICK a \in Nat \ {0}, z \in Nat : a = Start(t) /\ z = Len(t) /\ a <= z
  OBVIOUS
<1> DEFINE Halts(p) == \/ p > Len(t)
                       \/ ~IsDigit(t[p])
                          /\ ~(t[p] = "." /\ \A q \in Start(t)..(p - 1) : t[q] # ".")
           S == {p \in Start(t)..(Len(t) + 1) : Halts(p)}
<1>2. S \subseteq Nat /\ (z + 1) \in S /\ Len(t) = z
  BY <1>1
<1>3. a \in S => ~IsDigit(t[a])
  BY <1>1
<1>4. ~IsDigit(t[a]) /\ t[a] # "." => a \in S
  BY <1>1
<1>5. \A p \in S : p \in a..(z + 1)
  BY <1>1
<1>6. Stop(t) = Min(S)
  BY DEF Stop
<1> HIDE DEF S
<1>7. PICK x \in S : \A y \in S : x <= y
  BY <1>2, Least
<1>8. Stop(t) \in S /\ \A y \in S : Stop(t) <= y
  BY <1>6, <1>7 DEF Min
<1> QED
  BY <1>1, <1>3, <1>4, <1>5, <1>8

LEMMA DigitsFound ==
    ASSUME NEW t \in Seq(Letters), Start(t) \in 1..Len(t), IsDigit(t[Start(t)])
    PROVE  AllDigits(t) # <<>>
<1>1. PICK a \in Nat \ {0}, b \in Nat : a = Start(t) /\ b = Stop(t) /\ a < b /\ b <= Len(t) + 1
  BY StopIs
<1>2. PICK m : m = Mantissa(t)
  OBVIOUS
<1>3. m \in Seq(Letters) /\ Len(m) \in Nat \ {0} /\ m[1] = t[a]
  <2>1. m = SubSeq(t, a, b - 1)
    BY <1>1, <1>2 DEF Mantissa
  <2> QED
    BY <1>1, <2>1
<1>4. m[1] # "."
  BY <1>1, <1>3, DigitCharsAre
<1>5. CASE HasDot(t)
  <2>1. \E i \in DOMAIN m : m[i] = "."
    BY <1>2, <1>5 DEF HasDot
  <2>2. PICK d : d = Dot(t)
    OBVIOUS
  <2>3. d \in DOMAIN m /\ m[d] = "."
    BY <1>2, <2>1, <2>2 DEF Dot
  <2>4. d \in Nat /\ 2 <= d /\ d <= Len(m)
    BY <1>3, <1>4, <2>3
  <2>5. PICK u : u = SubSeq(m, 1, d - 1)
    OBVIOUS
  <2>6. PICK v : v = SubSeq(m, d + 1, Len(m))
    OBVIOUS
  <2>7. u \in Seq(Letters) /\ Len(u) = d - 1 /\ v \in Seq(Letters)
    BY <1>3, <2>4, <2>5, <2>6
  <2>8. u \o v # <<>>
    BY <2>4, <2>7
  <2>9. AllDigits(t) = u \o v
    BY <1>2, <1>5, <2>2, <2>5, <2>6, Zenon DEF AllDigits
  <2> QED
    BY <2>8, <2>9
<1>6. CASE ~HasDot(t)
  <2>1. AllDigits(t) = m
    BY <1>2, <1>6 DEF AllDigits
  <2> QED
    BY <1>3, <2>1
<1> QED
  BY <1>5, <1>6

LEMMA ReadTold ==
    ASSUME NEW t \in Seq(Letters), Start(t) \in 1..Len(t), NEW cx,
           IsDigit(t[Start(t)]) \/ t[Start(t)] = "I"
    PROVE  Told(FromText(t, cx))
<1>1. Told(Syntax)
  <2>1. PICK n, st : n = Finite(FALSE, 0, 0) /\ st = {"Conversion_syntax"}
    OBVIOUS
  <2>2. Syntax = Work(n, 0, st) /\ ~IsNaN(n)
    BY <2>1, NumeralsAre, Zenon DEF Syntax, Failed
  <2> QED
    BY <2>2, WorkFields DEF Told
<1>2. ASSUME NEW e PROVE Told(Assembled(t, e, cx))
  <2>1. PICK n : n = Finite(t[1] = "-", NumberOf(AllDigits(t)), e - Fraction(t))
    OBVIOUS
  <2>2. IsNumeral(n)
    BY <2>1, NumeralsAre, Zenon
  <2>3. Tame(Fitted(n, cx)) /\ Tame(Plain(n)) /\ Tame(Finalize(Plain(n), cx))
    BY <2>2, TameFitted, TamePlain, TameFinalize
  <2>4. Tame(Settled(n, cx))
    BY <2>3, Zenon DEF Settled
  <2> QED
    BY <2>1, <2>4, TameIsTold DEF Assembled
<1>3. PICK rest : rest = From(t, Stop(t))
  OBVIOUS
<1>4. CASE AllDigits(t) # <<>>
  BY <1>1, <1>2, <1>4, Zenon DEF FromText
<1>5. CASE AllDigits(t) = <<>>
  <2>1. t[Start(t)] = "I"
    BY <1>5, DigitsFound
  <2>2. Stop(t) = Start(t)
    BY <2>1, DigitCharsAre, StopIs
  <2>3. rest \in Seq(Letters) /\ Len(rest) \in Nat \ {0} /\ rest[1] = "I"
    BY <1>3, <2>1, <2>2 DEF From
  <2>4. ASSUME NEW neg PROVE Told(SpecialValue(rest, neg, cx))
    <3>1. Told(Plain(Special("inf", neg)))
      BY NumeralsAre, TamePlain, TameIsTold
    <3>2. PICK name : name = From(rest, IF rest[1] \in {"s", "S"} THEN 2 ELSE 1)
      OBVIOUS
    <3>3. name \in Seq(Letters) /\ name[1] = "I" /\ Len(name) \in Nat \ {0}
      BY <2>3, <3>2 DEF From
    <3>4. PICK u : u = SubSeq(name, 1, Min({3, Len(name)}))
      OBVIOUS
    <3>5. ~Spells(u, <<"N", "A", "N">>, <<"n", "a", "n">>)
      <4>1. SUFFICES ASSUME Spells(u, <<"N", "A", "N">>, <<"n", "a", "n">>) PROVE FALSE
        OBVIOUS
      <4>2. Len(u) = 3 /\ \A i \in DOMAIN u : u[i] \in {<<"N", "A", "N">>[i], <<"n", "a", "n">>[i]}
        BY <4>1 DEF Spells
      <4>3. PICK m \in Nat \ {0} : m = Min({3, Len(name)}) /\ m <= Len(name)
        <5>1. Len(name) \in Nat
          BY <3>3
        <5> QED
          BY <3>3, <5>1, MinOfTwo
      <4>4. u \in Seq(Letters) /\ u[1] = "I" /\ 1 \in DOMAIN u
        <5>1. u = SubSeq(name, 1, m)
          BY <3>4, <4>3
        <5>2. \A i \in 1..m : name[i] \in Letters
          BY <3>3, <4>3
        <5>3. /\ u \in Seq(Letters) /\ Len(u) = IF 1 <= m THEN m - 1 + 1 ELSE 0
              /\ \A i \in 1..(m - 1 + 1) : u[i] = name[1 + i - 1]
          BY <5>1, <5>2, SubSeqProperties
        <5>4. m = 3
          <6>1. Len(u) = 3
            BY <4>2, Zenon
          <6>2. Len(u) = m
            BY <4>3, <5>3
          <6> QED
            BY <6>1, <6>2
        <5>5. u[1] = name[1]
          BY <5>3, <5>4
        <5> QED
          BY <3>3, <5>3, <5>4, <5>5
      <4>5. u[1] \in {"N", "n"}
        BY <4>2, <4>4
      <4> QED
        BY <4>4, <4>5
    <3>6. SpecialValue(rest, neg, cx) = Plain(Special("inf", neg))
          \/ SpecialValue(rest, neg, cx) = Syntax
      BY <3>2, <3>4, <3>5, Zenon DEF SpecialValue
    <3> QED
      BY <1>1, <3>1, <3>6
  <2> QED
    BY <1>1, <1>3, <1>5, <2>4, Zenon DEF FromText
<1> QED
  BY <1>4, <1>5

LEMMA TextTold ==
    ASSUME NEW n \in Numbers, ~IsNaN(n), NEW eng \in BOOLEAN, NEW cx
    PROVE  Told(FromText(ToText(n, eng), cx))
<1>1. n.neg \in BOOLEAN /\ n.kind \in Kinds
  BY DEF Numbers
<1>2. PICK t : t = ToText(n, eng)
  OBVIOUS
<1>3. CASE n.kind = "inf"
  <2>1. PICK body : body = <<"I", "n", "f", "i", "n", "i", "t", "y">>
    OBVIOUS
  <2>2. body \in Seq(Letters) /\ body # <<>> /\ body[1] = "I"
    BY <2>1 DEF Letters
  <2>3. t = (IF n.neg THEN <<"-">> ELSE <<>>) \o body
    BY <1>2, <1>3, <2>1, Zenon DEF ToText
  <2>4. t \in Seq(Letters) /\ Start(t) \in 1..Len(t) /\ t[Start(t)] = "I"
    BY <1>1, <2>2, <2>3, SignSkipped
  <2> QED
    BY <1>2, <2>4, ReadTold
<1>4. CASE n.kind # "inf"
  <2>1. PICK body : body = FiniteText(n, eng)
    OBVIOUS
  <2>2. body \in Seq(Letters) /\ body # <<>> /\ IsDigit(body[1]) /\ body[1] \notin {"-", "+"}
    BY <2>1, FiniteTextOpens, DigitCharsAre DEF Opens
  <2>3. t = (IF n.neg THEN <<"-">> ELSE <<>>) \o body
    BY <1>2, <1>4, <2>1, Zenon DEF ToText
  <2>4. t \in Seq(Letters) /\ Start(t) \in 1..Len(t) /\ IsDigit(t[Start(t)])
    BY <1>1, <2>2, <2>3, SignSkipped
  <2> QED
    BY <1>2, <2>4, ReadTold
<1> QED
  BY <1>3, <1>4

LEMMA CallsTold ==
    ASSUME CallIs, pc \notin {"save", "call"}, NEW w, Outcome(w),
           ~IsNaN(l), ~IsNaN(r), call.routine # "FromString", ~Untold
    PROVE  Told(w)
<1>1. l \in Numbers /\ IsNumeral(l) /\ IsNumeral(r)
  <2>1. l \in Numbers /\ r \in Numbers
    BY DEF CallIs, Operands, Valid
  <2> QED
    BY <2>1, NumeralsAre
<1>2. ASSUME NEW v, Tame(v) PROVE Told(v)
  BY <1>2, TameIsTold
<1>3. CASE OutcomeOfOrder(w)
  <2>1. Tame(w)
    BY <1>1, <1>3, OrdersTame, Zenon DEF OutcomeOfOrder
  <2> QED
    BY <1>2, <2>1
<1>4. CASE OutcomeOfCopy(w)
  <2>1. Tame(w)
    BY <1>1, <1>4, CopiesTame, QuantizeTame, Zenon DEF OutcomeOfCopy
  <2> QED
    BY <1>2, <2>1
<1>5. CASE OutcomeOfExponent(w)
  <2>1. CASE call.routine \in {"Reduce", "Trim", "ScaleB", "LogB"}
    <3>1. w \in {Reduce(l, set), Trim(l, set), ScaleB(l, r, set), LogB(l, set)}
      BY <1>5, <2>1 DEF OutcomeOfExponent
    <3> QED
      BY <1>1, <1>2, <3>1, ExponentsTame
  <2>2. CASE call.routine = "ToIntegralExact"
    <3>1. w = ToIntegralExact(l, set, given)
      BY <1>5, <2>2 DEF OutcomeOfExponent
    <3> QED
      BY <1>1, <3>1, IntegralTold
  <2>3. CASE call.routine = "ToIntegralValue"
    <3>1. w = ToIntegralValue(l, set, given)
      BY <1>5, <2>3 DEF OutcomeOfExponent
    <3>2. given \cap Loud = {}
      BY <2>3 DEF Untold, Loud
    <3> QED
      BY <1>1, <3>1, <3>2, IntegralTold
  <2>4. CASE call.routine \in {"NextPlus", "NextMinus", "NextToward"}
    <3>1. w \in {NextPlus(l, set), NextMinus(l, set), NextToward(l, r, set)}
      BY <1>5, <2>4 DEF OutcomeOfExponent
    <3> QED
      BY <1>1, <3>1, NextTold
  <2> QED
    BY <1>5, <2>1, <2>2, <2>3, <2>4 DEF OutcomeOfExponent
<1>6. CASE OutcomeOfDigits(w)
  <2>1. CASE call.routine \in Textual
    <3>1. w = FromText(text, set)
      BY <1>6, <2>1 DEF OutcomeOfDigits, Textual
    <3>2. text = ToText(l, FALSE) \/ text = ToText(l, TRUE)
      BY <2>1 DEF CallIs, TextIs, Textual
    <3> QED
      BY <1>1, <3>1, <3>2, TextTold
  <2>2. CASE call.routine \notin Textual
    <3>1. \/ \E op : w = Logical(op, l, r, set)
          \/ w = Invert(l, set) \/ w = Rotate(l, r, set) \/ w = Shift(l, r, set)
          \/ w = Plain(SetBCD(l, GetBCD(l)))
          \/ \E i, st : w = Failed(FromInt(i), st)
      BY <1>6, <2>2, Zenon DEF OutcomeOfDigits
    <3> QED
      BY <1>1, <1>2, <3>1, DigitsTold, Zenon
  <2> QED
    BY <2>1, <2>2
<1> QED
  BY <1>3, <1>4, <1>5, <1>6 DEF Outcome

LEMMA FlagsAreGathered == CallIs /\ StatusKept => FlagsGather
<1> SUFFICES ASSUME CallIs, StatusKept PROVE FlagsGather
  OBVIOUS
<1>1. Reported => (ctx.raised # {} <=> LastRaised \cap ctx.traps # {})
  BY DEF StatusKept, Traps
<1>2. pc = "done" => Restored
  BY DEF StatusKept
<1>3. ASSUME Reported, IsNaN(res), Numbers2, call.routine # "FromString", ~Untold
      PROVE  status \cap NaNFlags # {}
  <2>1. pc \in {"reported", "done"}
    BY <1>3 DEF Reported
  <2>2. PICK w : Outcome(w) /\ Left(w)
    BY <2>1 DEF CallIs
  <2>3. Told(w)
    BY <1>3, <2>1, <2>2, CallsTold DEF Numbers2
  <2>4. status = w.status /\ (res = w.dn \/ res = AfterStatus(w.dn, w.status))
    BY <2>2 DEF Left
  <2> QED
    BY <1>3, <2>3, <2>4, Zenon DEF Told, AfterStatus
<1> QED
  BY <1>1, <1>2, <1>3, Zenon DEF FlagsGather, Restored

\* A trap is raised for what a call found and no other reason, no NaN comes of
\* numbers untold, and the flags that were saved come back: in every state of
\* every call, whatever its operands, context and flags.
THEOREM FlagsHold == Spec => []FlagsGather
<1>1. Spec => [](CallIs /\ StatusKept)
  BY StatusInvariant
<1>2. CallIs /\ StatusKept => FlagsGather
  BY FlagsAreGathered
<1> QED
  BY <1>1, <1>2, PTL

(***************************************************************************)
(* Quantizing rounds once.                                                 *)
(***************************************************************************)
LEMMA QuantizeToIs ==
    ASSUME NEW neg \in BOOLEAN, NEW c \in Nat, NEW q \in Int, NEW e \in Int,
           NEW cx, Roomy(e, cx), ~Overruns(neg, c, q, e, cx)
    PROVE  /\ QuantumOf(neg, c, q, e, cx.round) \in Nat
           /\ Quantized(QuantizeTo(Finite(neg, c, q), e, cx), neg,
                        QuantumOf(neg, c, q, e, cx.round), e, Finite(neg, c, q),
                        IsInexact(c, q, e), cx)
<1> DEFINE n == Finite(neg, c, q)
<1>1. /\ Loose(cx) /\ cx.digits \in Nat \ {0} /\ cx.emin \in Int /\ cx.emax \in Int
      /\ cx.round \in Modes /\ Etiny(cx) = cx.emin - (cx.digits - 1) /\ Etiny(cx) \in Int
  BY DEF Roomy, Loose, Etiny
<1>2. PICK z : z = QuantumOf(neg, c, q, e, cx.round)
  OBVIOUS
<1>3. PICK x : x = IsInexact(c, q, e)
  OBVIOUS
<1>4. z \in Nat
  <2>1. CASE e <= q
    <3>1. q - e \in Nat
      BY <2>1
    <3>2. PICK p \in Nat \ {0} : p = powers[q - e]
      BY <3>1, PowersFacts
    <3>3. z = c * p /\ c * p \in Nat
      BY <1>2, <2>1, <3>2, MulGrows DEF QuantumOf
    <3> QED
      BY <3>3
  <2>2. CASE ~(e <= q)
    <3>1. PICK k \in Nat : k = e - q
      BY <2>2
    <3>2. RoundedUp(neg, c, k, cx.round) \in Nat
      BY <1>1, RoundedUpIs
    <3> QED
      BY <1>2, <2>2, <3>1, <3>2 DEF QuantumOf
  <2> QED
    BY <2>1, <2>2
<1>5. Quantized(QuantizeTo(n, e, cx), neg, z, e, n, x, cx)
  <2>1. CASE e < Etiny(cx) \/ e > cx.emax
    <3>1. QuantizeTo(n, e, cx) = Invalid(n, Plain(n))
      BY <2>1, Zenon DEF QuantizeTo
    <3>2. PICK t : t = {} \cup {"Invalid_operation"}
      OBVIOUS
    <3>3. QuantizeTo(n, e, cx) = Work(n, 0, t)
      BY <3>1, <3>2, InvalidIs, PlainIs
    <3>4. "Invalid_operation" \in t /\ t \subseteq CutOnly \cup {"Invalid_operation"}
      BY <3>2
    <3>5. ~Holds(z, e, cx)
      <4>1. PICK d \in Nat \ {0} : d = Digits(z)
        BY <1>4, DigitsFacts
      <4> QED
        BY <1>1, <2>1, <4>1 DEF Holds
    <3> QED
      BY <3>3, <3>4, <3>5, Zenon DEF Quantized
  <2>2. CASE ~(e < Etiny(cx) \/ e > cx.emax)
    <3>1. QuantizeTo(n, e, cx) = InContext(Requantized(n, e, cx), n, cx)
      BY <2>2, Zenon DEF QuantizeTo
    <3>2. Etiny(cx) <= e /\ e <= cx.emax
      BY <1>1, <2>2
    <3>3. CASE c = 0
      <4>1. z = 0
        <5>1. CASE e <= q
          <6>1. q - e \in Nat
            BY <5>1
          <6>2. PICK p \in Nat : p = powers[q - e]
            BY <6>1, PowersFacts
          <6>3. 0 * p = 0
            OBVIOUS
          <6> QED
            BY <1>2, <3>3, <5>1, <6>2, <6>3 DEF QuantumOf
        <5>2. CASE ~(e <= q)
          <6>1. PICK k \in Nat : k = e - q
            BY <5>2
          <6>2. RoundedUp(neg, c, k, cx.round) = 0
            BY <1>1, <3>3, RoundedUpIs
          <6> QED
            BY <1>2, <5>2, <6>1, <6>2 DEF QuantumOf
        <5> QED
          BY <5>1, <5>2
      <4>2. x = FALSE
        BY <1>3, <3>3 DEF IsInexact
      <4>3. Quantized(InContext(Requantized(Finite(neg, 0, q), e, cx), Finite(neg, 0, q), cx),
                      neg, 0, e, Finite(neg, 0, q), FALSE, cx)
        BY <3>2, ZeroQuantized
      <4> QED
        BY <3>1, <3>3, <4>1, <4>2, <4>3, Zenon
    <3>4. CASE c # 0 /\ e <= q
      <4>1. z = c * powers[q - e]
        BY <1>2, <3>4 DEF QuantumOf
      <4>2. x = FALSE
        <5>1. ~(e > q)
          BY <3>4
        <5> QED
          BY <1>3, <5>1, Zenon DEF IsInexact
      <4>3. c \in Nat \ {0}
        BY <3>4
      <4>4. Quantized(InContext(Requantized(n, e, cx), n, cx),
                      neg, c * powers[q - e], e, n, FALSE, cx)
        BY <3>2, <3>4, <4>3, PaddedQuantized
      <4> QED
        BY <3>1, <4>1, <4>2, <4>4, Zenon
    <3>5. CASE c # 0 /\ ~(e <= q)
      <4>1. z = RoundedUp(neg, c, e - q, cx.round)
        BY <1>2, <3>5 DEF QuantumOf
      <4>2. x = (c % powers[e - q] # 0)
        BY <1>3, <3>5 DEF IsInexact
      <4>3. c \in Nat \ {0} /\ q < e
        BY <3>5
      <4>4. Quantized(InContext(Requantized(n, e, cx), n, cx),
                      neg, RoundedUp(neg, c, e - q, cx.round), e, n, c % powers[e - q] # 0, cx)
        BY <3>2, <4>3, CutQuantized
      <4> QED
        BY <3>1, <4>1, <4>2, <4>4, Zenon
    <3> QED
      BY <3>3, <3>4, <3>5
  <2> QED
    BY <2>1, <2>2
<1> QED
  BY <1>2, <1>3, <1>4, <1>5, Zenon

(***************************************************************************)
(* decGetInt: every integer that a context could have as an exponent.      *)
(***************************************************************************)
LEMMA LongIsLarge ==
    ASSUME NEW z \in Nat, Digits(z) > 10
    PROVE  z > 1999999997
<1>1. powers[10] = 10000000000
  <2> DEFINE f(k) == powers[k]
  <2>1. f(0) = 1 /\ \A k \in Nat : f(k + 1) = 10 * f(k)
    BY PowersFacts
  <2> HIDE DEF f
  <2>2. f(1) = 10 /\ f(2) = 100 /\ f(3) = 1000 /\ f(4) = 10000 /\ f(5) = 100000
    <3>1. f(0 + 1) = 10 * f(0) /\ f(1 + 1) = 10 * f(1) /\ f(2 + 1) = 10 * f(2)
          /\ f(3 + 1) = 10 * f(3) /\ f(4 + 1) = 10 * f(4)
      BY <2>1
    <3> QED
      BY <2>1, <3>1
  <2>3. f(6) = 1000000 /\ f(7) = 10000000 /\ f(8) = 100000000 /\ f(9) = 1000000000
        /\ f(10) = 10000000000
    <3>1. f(5 + 1) = 10 * f(5) /\ f(6 + 1) = 10 * f(6) /\ f(7 + 1) = 10 * f(7)
          /\ f(8 + 1) = 10 * f(8) /\ f(9 + 1) = 10 * f(9)
      BY <2>1
    <3> QED
      BY <2>2, <3>1
  <2> QED
    BY <2>3 DEF f
<1>2. Digits(z) \in Nat
  BY DigitsFacts
<1>3. Digits(z) <= 10 <=> z < powers[10]
  BY DigitsAtMost
<1> QED
  BY <1>1, <1>2, <1>3

LEMMA GetIntIs ==
    ASSUME NEW n \in Numbers, ~IsSpecial(n)
    PROVE  /\ GetInt(n).ok => IsInteger(n) /\ GetInt(n).value = IntegerOf(n)
           /\ IsInteger(n) => /\ IntegerOf(n) \in Int
                              /\ ~GetInt(n).ok => \/ IntegerOf(n) < -1999999997
                                                  \/ IntegerOf(n) > 999999999
<1>1. n.coef \in Nat /\ n.exp \in Int /\ n.neg \in BOOLEAN /\ n.kind = "finite"
  BY DEF Numbers, IsSpecial
<1>2. PICK drop \in Int : drop = -n.exp
  BY <1>1
<1>3. PICK d \in Nat \ {0} : d = Digits(n.coef)
  BY <1>1, DigitsFacts
<1> DEFINE size == IF drop > 0 THEN n.coef \div powers[drop] ELSE n.coef * powers[n.exp]
<1>4. PICK z : z = size
  OBVIOUS
<1>5. z \in Nat
  <2>1. CASE drop > 0
    <3>1. PICK u \in Nat \ {0} : u = powers[drop]
      BY <2>1, PowersFacts
    <3>2. n.coef \div u \in Nat
      BY <1>1, Euclid
    <3> QED
      BY <1>4, <2>1, <3>1, <3>2
  <2>2. CASE ~(drop > 0)
    <3>1. n.exp \in Nat
      BY <1>1, <1>2, <2>2
    <3>2. PICK u \in Nat \ {0} : u = powers[n.exp]
      BY <3>1, PowersFacts
    <3>3. n.coef * u \in Nat
      BY <1>1, <3>2, MulGrows
    <3> QED
      BY <1>4, <2>2, <3>2, <3>3
  <2> QED
    BY <2>1, <2>2
<1>6. IsInteger(n) <=> ~(drop > 0) \/ n.coef % powers[drop] = 0
  BY <1>1, <1>2 DEF IsInteger
<1>7. IntegerOf(n) = Negated(z, n.neg)
  <2>1. z = IF n.exp >= 0 THEN n.coef * powers[n.exp] ELSE n.coef \div powers[-n.exp]
    BY <1>1, <1>2, <1>4
  <2> QED
    BY <2>1, Zenon DEF IntegerOf
<1>8. CASE n.coef = 0
  <2>1. IsZero(n)
    BY <1>1, <1>8 DEF IsZero
  <2>2. GetInt(n) = [ok |-> TRUE, value |-> 0]
    BY <2>1, SMT DEF GetInt
  <2>3. z = 0 /\ (drop > 0 => n.coef % powers[drop] = 0)
    <3>1. CASE drop > 0
      <4>1. PICK u \in Nat \ {0} : u = powers[drop]
        BY <3>1, PowersFacts
      <4>2. n.coef \div u = 0 /\ n.coef % u = 0
        BY <1>8, <4>1, QuotientIs
      <4> QED
        BY <1>4, <3>1, <4>1, <4>2
    <3>2. CASE ~(drop > 0)
      <4>1. PICK u \in Nat \ {0} : u = powers[n.exp]
        BY <1>1, <1>2, <3>2, PowersFacts
      <4>2. 0 * u = 0
        OBVIOUS
      <4> QED
        BY <1>4, <1>8, <3>2, <4>1, <4>2
    <3> QED
      BY <3>1, <3>2
  <2>4. IntegerOf(n) = 0
    <3>1. z = 0
      BY <2>3
    <3>2. z <= 0 /\ z >= 0
      BY <3>1
    <3>3. -z = 0
      BY <1>5, <3>2
    <3>4. Negated(z, n.neg) = 0
      BY <3>1, <3>3, Zenon DEF Negated
    <3> QED
      BY <1>7, <3>4
  <2> QED
    BY <1>6, <2>2, <2>3, <2>4
<1>9. CASE n.coef # 0
  <2>1. ~IsZero(n)
    BY <1>9 DEF IsZero
  <2>2. PICK limit \in Nat : limit = IF n.neg THEN 1999999997 ELSE 999999999
    OBVIOUS
  <2>6. limit <= 1999999997
    BY <2>2
  <2> DEFINE Bad == \/ drop >= Digits(n.coef) \/ (drop > 0 /\ n.coef % powers[drop] # 0)
                    \/ Digits(n.coef) + n.exp > 10 \/ z > limit
  <2>3. GetInt(n) = IF Bad THEN NotAnInt ELSE [ok |-> TRUE, value |-> Negated(z, n.neg)]
    BY <1>2, <1>4, <2>1, <2>2, SMT DEF GetInt
  <2>4. CASE ~Bad
    <3>1. GetInt(n).ok /\ GetInt(n).value = Negated(z, n.neg)
      BY <2>3, <2>4
    <3>2. IsInteger(n)
      BY <1>6, <2>4
    <3>3. Negated(z, n.neg) \in Int
      BY <1>5, <1>1 DEF Negated
    <3> QED
      BY <1>7, <3>1, <3>2, <3>3
  <2>5. CASE Bad
    <3>1. ~GetInt(n).ok
      BY <2>3, <2>5 DEF NotAnInt
    <3>2. ASSUME IsInteger(n) PROVE z > limit
      <4>1. CASE drop > 0
        <5>1. n.coef % powers[drop] = 0
          BY <1>6, <3>2, <4>1
        <5>2. PICK u \in Nat \ {0} : u = powers[drop]
          BY <4>1, PowersFacts
        <5>3. ~(drop >= d)
          <6>1. SUFFICES ASSUME drop >= d PROVE FALSE
            OBVIOUS
          <6>2. n.coef \div powers[drop] = 0
            BY <1>1, <1>3, <1>9, <4>1, <6>1, DigitsCut
          <6>3. n.coef = (n.coef \div u) * u + (n.coef % u)
            BY <1>1, Euclid
          <6>4. n.coef = 0 * u + 0
            BY <5>1, <5>2, <6>2, <6>3
          <6> QED
            BY <1>9, <6>4
        <5>4. z = n.coef \div powers[drop] /\ Digits(z) = d - drop
          BY <1>1, <1>3, <1>4, <1>9, <4>1, <5>3, DigitsCut
        <5>5. d + n.exp > 10 => Digits(z) > 10
          BY <1>1, <1>2, <1>3, <5>4
        <5>6. CASE d + n.exp > 10
          <6>1. z > 1999999997
            BY <1>5, <5>5, <5>6, LongIsLarge
          <6> QED
            BY <1>5, <2>6, <6>1
        <5>7. CASE ~(d + n.exp > 10)
          BY <1>3, <2>5, <5>1, <5>3, <5>7
        <5> QED
          BY <5>6, <5>7
      <4>2. CASE ~(drop > 0)
        <5>1. n.exp \in Nat
          BY <1>1, <1>2, <4>2
        <5>2. z = n.coef * powers[n.exp]
          BY <1>4, <4>2
        <5>3. Digits(z) = d + n.exp
          BY <1>1, <1>3, <1>9, <5>1, <5>2, DigitsScaled
        <5>4. ~(drop >= Digits(n.coef))
          BY <1>2, <1>3, <4>2
        <5>5. CASE d + n.exp > 10
          <6>1. z > 1999999997
            BY <1>5, <5>3, <5>5, LongIsLarge
          <6> QED
            BY <1>5, <2>6, <6>1
        <5>6. CASE ~(d + n.exp > 10)
          BY <1>3, <2>5, <4>2, <5>4, <5>6
        <5> QED
          BY <5>5, <5>6
      <4> QED
        BY <4>1, <4>2
    <3>3. IsInteger(n) => Negated(z, n.neg) \in Int
                          /\ (Negated(z, n.neg) < -1999999997 \/ Negated(z, n.neg) > 999999999)
      BY <1>1, <1>5, <2>2, <3>2 DEF Negated
    <3> QED
      BY <1>7, <3>1, <3>3
  <2> QED
    BY <2>4, <2>5
<1> QED
  BY <1>8, <1>9

(***************************************************************************)
(* The requests of quantize, rescale and round to integral.                *)
(***************************************************************************)
\* far above the number only the sign and the mode matter
LEMMA FarAlike ==
    ASSUME NEW mode \in Modes, NEW neg \in BOOLEAN, NEW c \in Nat \ {0}, NEW u \in Nat, 2 * c < u
    PROVE  RoundsAway(mode, neg, 0, c, u) <=> RoundsAway(mode, neg, 0, 1, 100)
<1>1. mode \in {"UP", "DOWN", "CEILING", "FLOOR", "HALF_UP", "HALF_DOWN", "HALF_EVEN", "05UP"}
  BY DEF Modes
<1>2. c > 0 /\ ~(2 * c >= u) /\ ~(2 * c > u) /\ 2 * c # u /\ 0 % 2 = 0 /\ 0 % 10 = 0
  OBVIOUS
<1>3. CASE mode \in {"UP", "DOWN", "CEILING", "FLOOR"}
  BY <1>2, <1>3 DEF RoundsAway
<1>4. CASE mode \in {"HALF_UP", "HALF_DOWN"}
  BY <1>2, <1>4 DEF RoundsAway
<1>5. CASE mode \in {"HALF_EVEN", "05UP"}
  BY <1>2, <1>5 DEF RoundsAway
<1> QED
  BY <1>1, <1>3, <1>4, <1>5

LEMMA RoundedAtIs ==
    ASSUME NEW n \in Numbers, ~IsSpecial(n), NEW e \in Int, set.round \in Modes
    PROVE  RoundedAt(n, e) = QuantumOf(n.neg, n.coef, n.exp, e, set.round)
<1>1. n.coef \in Nat /\ n.exp \in Int /\ n.neg \in BOOLEAN
  BY NumberIs
<1>2. PICK mode \in Modes : mode = set.round
  OBVIOUS
<1>3. CASE e <= n.exp
  BY <1>3 DEF RoundedAt, QuantumOf
<1>4. CASE ~(e <= n.exp)
  <2>1. PICK k \in Nat \ {0} : k = e - n.exp
    BY <1>1, <1>4
  <2>2. PICK d \in Nat \ {0} : d = Digits(n.coef)
    BY <1>1, DigitsFacts
  <2>3. QuantumOf(n.neg, n.coef, n.exp, e, mode) = RoundedUp(n.neg, n.coef, k, mode)
    BY <1>4, <2>1 DEF QuantumOf
  <2>4. CASE ~(k > d + 1)
    <3>1. RoundedAt(n, e) = IF RoundsAway(set.round, n.neg, n.coef \div powers[k],
                                          n.coef % powers[k], powers[k])
                            THEN n.coef \div powers[k] + 1 ELSE n.coef \div powers[k]
      BY <1>4, <2>1, <2>2, <2>4 DEF RoundedAt
    <3> QED
      BY <1>2, <2>3, <3>1, Zenon DEF RoundedUp, Up
  <2>5. CASE k > d + 1
    <3>1. RoundedAt(n, e) = IF RoundsAway(mode, n.neg, 0, 1, 100) /\ n.coef # 0 THEN 1 ELSE 0
      BY <1>2, <1>4, <2>1, <2>2, <2>5 DEF RoundedAt
    <3>2. CASE n.coef = 0
      <4>1. RoundedUp(n.neg, n.coef, k, mode) = 0
        BY <1>1, <3>2, RoundedUpIs
      <4> QED
        BY <1>2, <2>3, <3>1, <3>2, <4>1
    <3>3. CASE n.coef # 0
      <4>1. PICK u \in Nat \ {0} : u = powers[k]
        BY PowersFacts
      <4>2. n.coef < powers[d]
        BY <1>1, <2>2, DigitsFacts
      <4>3. 10 * powers[d] <= powers[k] /\ powers[d] \in Nat
        BY <2>5, PowersGrow, PowersFacts
      <4>4. n.coef < u /\ 2 * n.coef < u
        BY <1>1, <4>1, <4>2, <4>3
      <4>5. n.coef = 0 * u + n.coef
        BY <1>1
      <4>6. n.coef \div u = 0 /\ n.coef % u = n.coef
        BY <1>1, <4>1, <4>4, <4>5, QuotientIs
      <4>7. RoundsAway(mode, n.neg, 0, n.coef, u) <=> RoundsAway(mode, n.neg, 0, 1, 100)
        BY <1>1, <3>3, <4>4, FarAlike
      <4>8. Up(n.neg, n.coef, k, mode) <=> RoundsAway(mode, n.neg, 0, n.coef, u)
        BY <4>1, <4>6, Zenon DEF Up
      <4>9. RoundedUp(n.neg, n.coef, k, mode)
                = IF Up(n.neg, n.coef, k, mode) THEN 1 ELSE 0
        BY <4>1, <4>6 DEF RoundedUp
      <4> QED
        BY <1>2, <2>3, <3>1, <3>3, <4>7, <4>8, <4>9
    <3> QED
      BY <3>2, <3>3
  <2> QED
    BY <2>4, <2>5
<1> QED
  BY <1>3, <1>4

\* what a context is to a call: the precision is the operand's for ToIntegral
InForce == [set EXCEPT !.digits = ReqDigits]

LEMMA OverrunIsCarried ==
    ASSUME Operands, ~IsSpecial(l), ReqExp \in Int,
           Overruns(l.neg, l.coef, l.exp, ReqExp, set)
    PROVE  CarriedAway
<1> DEFINE e == ReqExp
<1>1. /\ l \in Numbers /\ l.coef \in Nat /\ l.exp \in Int /\ l.neg \in BOOLEAN
      /\ set.round \in Modes /\ set.emax \in Int
  BY ValidFields DEF Operands, IsContext
<1>2. PICK c \in Nat : c = l.coef
  BY <1>1
<1>3. /\ c # 0 /\ l.exp < e /\ e <= set.emax /\ Digits(c) + l.exp > set.emax
      /\ AllNines(l.neg, c, e - l.exp, set.round)
  BY <1>2 DEF Overruns
<1>4. PICK k \in Nat \ {0} : k = e - l.exp
  BY <1>1, <1>3
<1>5. PICK d \in Nat \ {0} : d = Digits(c)
  BY <1>2, DigitsFacts
<1>6. PICK low : low = c \div powers[k]
  OBVIOUS
<1>7. /\ Up(l.neg, c, k, set.round) /\ low = powers[Digits(low)] - 1
  BY <1>3, <1>4, <1>6 DEF AllNines
<1>8. RoundedUp(l.neg, c, k, set.round) = low + 1
  BY <1>6, <1>7 DEF RoundedUp
<1>9. k < d /\ Digits(low) = d - k
  <2>1. CASE k >= d
    <3>1. low = 0
      BY <1>3, <1>5, <1>6, <2>1, DigitsCut
    <3>2. Digits(0) = 1 /\ powers[1] = 10
      <4>1. powers[0 + 1] = 10 * powers[0] /\ powers[0] = 1
        BY PowersFacts
      <4> QED
        BY <4>1, DigitsFacts
    <3> QED
      BY <1>7, <3>1, <3>2
  <2>2. CASE ~(k >= d)
    BY <1>3, <1>5, <1>6, <2>2, DigitsCut
  <2> QED
    BY <2>1, <2>2
<1>10. RoundedAt(l, e) = powers[d - k]
  <2>1. RoundedAt(l, e) = QuantumOf(l.neg, c, l.exp, e, set.round)
    BY <1>1, <1>2, RoundedAtIs
  <2>2. RoundedAt(l, e) = low + 1
    BY <1>1, <1>3, <1>4, <1>8, <2>1 DEF QuantumOf
  <2>3. powers[d - k] \in Nat
    BY <1>9, PowersFacts
  <2> QED
    BY <1>7, <1>9, <2>2, <2>3
<1>11. d - k = Digits(l.coef) + l.exp - e
  BY <1>1, <1>2, <1>4, <1>5
<1>12. e \in (l.exp + 1)..set.emax
  BY <1>1, <1>3
<1> HIDE DEF e
<1> QED
  BY <1>2, <1>3, <1>10, <1>11, <1>12 DEF CarriedAway, e

LEMMA InForceIs ==
    ASSUME IsContext(set), ReqDigits \in Nat \ {0}
    PROVE  /\ Loose(InForce) /\ InForce.digits = ReqDigits /\ InForce.emin = set.emin
           /\ InForce.emax = set.emax /\ InForce.round = set.round /\ InForce.clamp = set.clamp
           /\ Etiny(InForce) = set.emin - (ReqDigits - 1) /\ Etiny(InForce) \in Int
<1>1. /\ set \in [digits : Nat \ {0}, emin : Int, emax : Int, round : Modes, clamp : BOOLEAN]
      /\ set.emin <= 0 /\ 0 <= set.emax
  BY DEF IsContext
<1>2. PICK d \in Nat \ {0} : d = ReqDigits
  OBVIOUS
<1>3. InForce = [set EXCEPT !.digits = d]
  BY <1>2 DEF InForce
<1>4. /\ InForce \in [digits : Nat \ {0}, emin : Int, emax : Int, round : Modes, clamp : BOOLEAN]
      /\ InForce.digits = d /\ InForce.emin = set.emin
      /\ InForce.emax = set.emax /\ InForce.round = set.round /\ InForce.clamp = set.clamp
  BY <1>1, <1>3
<1> QED
  BY <1>1, <1>2, <1>4 DEF Loose, Etiny

LEMMA RefusalIs ==
    ASSUME IsContext(set), ReqDigits \in Nat \ {0}, ReqExp \in Int,
           RoundedAt(l, ReqExp) \in Nat, call.routine = "Rescale" => IsInteger(r)
    PROVE  RefusesRequest <=> ~Holds(RoundedAt(l, ReqExp), ReqExp, InForce)
<1>1. PICK e \in Int : e = ReqExp
  OBVIOUS
<1>2. PICK z \in Nat : z = RoundedAt(l, ReqExp)
  OBVIOUS
<1>3. PICK d \in Nat \ {0} : d = Digits(z) /\ (z = 0 => d = 1)
  BY DigitsFacts
<1>4. PICK p \in Nat \ {0} : p = ReqDigits
  OBVIOUS
<1>5. PICK lo \in Int, hi \in Int : lo = set.emin /\ hi = set.emax
  BY DEF IsContext
<1>6. RefusesRequest <=> e < lo - (p - 1) \/ e > hi \/ d > p \/ (z # 0 /\ e + d - 1 > hi)
  BY <1>1, <1>2, <1>3, <1>4, <1>5 DEF RefusesRequest
<1>7. Etiny(InForce) = lo - (p - 1) /\ InForce.digits = p /\ InForce.emax = hi
  BY <1>4, <1>5, InForceIs
<1>8. Holds(z, e, InForce) <=> d <= p /\ lo - (p - 1) <= e /\ e + d - 1 <= hi
  BY <1>3, <1>7 DEF Holds
<1>9. RefusesRequest <=> ~Holds(z, e, InForce)
  BY <1>3, <1>6, <1>8
<1> QED
  BY <1>1, <1>2, <1>9

\* w answers the request
Answers(w) ==
    Quantized(w, l.neg, RoundedAt(l, ReqExp), ReqExp, l, IsInexact(l.coef, l.exp, ReqExp), InForce)

LEMMA QuantizeAnswers ==
    ASSUME Operands, ~IsSpecial(l), ReqExp \in Int, ReqDigits \in Nat \ {0},
           Roomy(ReqExp, InForce), ~CarriedAway
    PROVE  /\ RoundedAt(l, ReqExp) \in Nat
           /\ Answers(QuantizeTo(l, ReqExp, InForce))
<1>1. /\ l \in Numbers /\ l.coef \in Nat /\ l.exp \in Int /\ l.neg \in BOOLEAN
      /\ l = Finite(l.neg, l.coef, l.exp)
  BY ValidFields, NumberIs DEF Operands
<1>2. set.round \in Modes
  BY DEF Operands, IsContext
<1>3. InForce.round = set.round /\ InForce.emax = set.emax
  BY InForceIs DEF Operands
<1>4. ~Overruns(l.neg, l.coef, l.exp, ReqExp, set)
  BY OverrunIsCarried
<1>5. ~Overruns(l.neg, l.coef, l.exp, ReqExp, InForce)
  BY <1>3, <1>4, Zenon DEF Overruns
<1>6. RoundedAt(l, ReqExp) = QuantumOf(l.neg, l.coef, l.exp, ReqExp, InForce.round)
  BY <1>1, <1>2, <1>3, RoundedAtIs
<1>7. PICK n \in BOOLEAN, c \in Nat, q \in Int : n = l.neg /\ c = l.coef /\ q = l.exp
  BY <1>1
<1>8. PICK e \in Int : e = ReqExp
  OBVIOUS
<1>9. /\ QuantumOf(n, c, q, e, InForce.round) \in Nat
      /\ Quantized(QuantizeTo(Finite(n, c, q), e, InForce), n,
                   QuantumOf(n, c, q, e, InForce.round), e, Finite(n, c, q),
                   IsInexact(c, q, e), InForce)
  BY <1>5, <1>7, <1>8, QuantizeToIs
<1>10. l = Finite(n, c, q)
  BY <1>1, <1>7
<1> QED
  BY <1>6, <1>7, <1>8, <1>9, <1>10, Zenon DEF Answers

LEMMA SetInForce ==
    ASSUME IsContext(set), call.routine \in {"Quantize", "Rescale"}
    PROVE  ReqDigits = set.digits /\ InForce = set /\ set.digits \in Nat \ {0}
<1>1. ReqDigits = set.digits
  BY DEF ReqDigits
<1>2. set \in [digits : Nat \ {0}, emin : Int, emax : Int, round : Modes, clamp : BOOLEAN]
  BY DEF IsContext
<1>3. PICK d \in Nat \ {0} : d = set.digits
  BY <1>2
<1>4. [set EXCEPT !.digits = d] = set
  BY <1>2, <1>3
<1> QED
  BY <1>1, <1>3, <1>4 DEF InForce

LEMMA RoomInContext ==
    ASSUME IsContext(set), NEW e
    PROVE  Roomy(e, set)
BY DEF IsContext, Roomy, Loose

\* quantize and rescale, the latter if it is asked for an integral exponent
LEMMA RequestAnswered ==
    ASSUME Operands, ~IsSpecial(l), ~IsSpecial(r), ~CarriedAway, NEW w,
           \/ call.routine = "Quantize" /\ w = Quantize(l, r, set)
           \/ call.routine = "Rescale" /\ w = Rescale(l, r, set)
    PROVE  IF call.routine = "Rescale" /\ ~IsInteger(r)
           THEN w = Work(l, 0, {"Invalid_operation"})
           ELSE /\ ReqExp \in Int /\ RoundedAt(l, ReqExp) \in Nat
                /\ ReqDigits = set.digits /\ Answers(w)
<1>1. /\ l.kind = "finite" /\ r.kind = "finite" /\ r.exp \in Int /\ r \in Numbers
      /\ ~IsNaN(l) /\ ~IsNaN(r) /\ l.kind = r.kind /\ l.kind # "inf"
  BY ValidFields DEF Operands, IsSpecial, IsNaN, Kinds
<1>2. IsContext(set) /\ call.routine \in {"Quantize", "Rescale"}
  BY DEF Operands
<1>3. ReqDigits = set.digits /\ InForce = set /\ set.digits \in Nat \ {0}
  BY <1>2, SetInForce
<1>4. Roomy(ReqExp, InForce)
  BY <1>2, <1>3, RoomInContext
<1>5. ASSUME ReqExp \in Int, w = QuantizeTo(l, ReqExp, set)
      PROVE  RoundedAt(l, ReqExp) \in Nat /\ Answers(w)
  BY <1>3, <1>4, <1>5, QuantizeAnswers
<1>6. CASE call.routine = "Quantize"
  <2>1. ReqExp = r.exp
    BY <1>6 DEF ReqExp
  <2>2. w = QuantizeTo(l, r.exp, set)
    BY <1>1, <1>6 DEF Quantize, QuantizeOp
  <2> QED
    BY <1>1, <1>3, <1>5, <1>6, <2>1, <2>2
<1>7. CASE call.routine = "Rescale"
  <2>1. w = IF ~GetInt(r).ok THEN Invalid(l, Plain(l)) ELSE QuantizeTo(l, GetInt(r).value, set)
    BY <1>1, <1>7, Zenon DEF Rescale, QuantizeOp
  <2>2. ReqExp = IntegerOf(r)
    BY <1>7 DEF ReqExp
  <2>3. PICK t : t = {"Invalid_operation"}
    OBVIOUS
  <2>4. Invalid(l, Plain(l)) = Work(l, 0, t)
    <3>1. {} \cup {"Invalid_operation"} = t
      BY <2>3
    <3> QED
      BY <3>1, PlainIs, InvalidIs
  <2>5. CASE ~IsInteger(r)
    <3>1. ~GetInt(r).ok
      BY <1>1, <2>5, GetIntIs
    <3> QED
      BY <1>7, <2>1, <2>3, <2>4, <2>5, <3>1
  <2>6. CASE IsInteger(r)
    <3>1. ReqExp \in Int
      BY <1>1, <2>2, <2>6, GetIntIs
    <3>2. w = QuantizeTo(l, ReqExp, set)
      <4>1. CASE GetInt(r).ok
        BY <1>1, <2>1, <2>2, <4>1, GetIntIs
      <4>2. CASE ~GetInt(r).ok
        <5>1. ReqExp < -1999999997 \/ ReqExp > 999999999
          BY <1>1, <2>2, <2>6, <4>2, GetIntIs
        <5>2. /\ set.digits \in Nat /\ set.emin \in Int /\ set.emax \in Int
              /\ set.digits <= 999999999 /\ -999999999 <= set.emin /\ set.emax <= 999999999
          BY DEF Operands, IsContext, InLimits
        <5>3. ReqExp < Etiny(set) \/ ReqExp > set.emax
          BY <3>1, <5>1, <5>2 DEF Etiny
        <5>4. QuantizeTo(l, ReqExp, set) = Invalid(l, Plain(l))
          BY <5>3, Zenon DEF QuantizeTo
        <5> QED
          BY <2>1, <4>2, <5>4
      <4> QED
        BY <4>1, <4>2
    <3> QED
      BY <1>3, <1>5, <2>6, <3>1, <3>2
  <2> QED
    BY <2>5, <2>6
<1> QED
  BY <1>2, <1>6, <1>7

\* round to integral, which quantizes in a context of its own
LEMMA IntegralAnswered ==
    ASSUME Operands, ~IsSpecial(l), l.exp < 0, ~CarriedAway,
           call.routine \in {"ToIntegralExact", "ToIntegralValue"}
    PROVE  /\ ReqExp \in Int /\ ReqDigits \in Nat \ {0} /\ RoundedAt(l, ReqExp) \in Nat
           /\ \E w : Answers(w) /\ ToIntegralExact(l, set, given) = Raise(InnerResult(w), given)
<1>1. /\ l \in Numbers /\ l.kind = "finite" /\ l.coef \in Nat /\ l.exp \in Int /\ ~IsNaN(l)
      /\ IsContext(set)
  BY ValidFields DEF Operands, IsSpecial, IsNaN, Kinds
<1>2. ReqExp = 0 /\ ReqDigits = Digits(l.coef)
  BY DEF ReqExp, ReqDigits
<1>3. ReqDigits \in Nat \ {0}
  BY <1>1, <1>2, DigitsFacts
<1>4. Roomy(0, InForce)
  <2>1. Loose(InForce) /\ InForce.emin = set.emin
    BY <1>1, <1>3, InForceIs
  <2>2. set.emin <= 0
    BY <1>1 DEF IsContext
  <2> QED
    BY <2>1, <2>2 DEF Roomy
<1>5. RoundedAt(l, ReqExp) \in Nat /\ Answers(QuantizeTo(l, ReqExp, InForce))
  <2>1. ReqExp \in Int /\ Roomy(ReqExp, InForce)
    BY <1>2, <1>4
  <2> QED
    BY <1>3, <2>1, QuantizeAnswers
<1>6. PICK zero : zero = Finite(FALSE, 0, 0)
  OBVIOUS
<1>7. zero.kind = "finite" /\ zero.exp = 0 /\ ~IsNaN(zero)
  BY <1>6 DEF Finite, IsNaN
<1>8. Quantize(l, zero, InForce) = QuantizeTo(l, 0, InForce)
  <2>1. PICK cx : cx = InForce
    OBVIOUS
  <2>2. l.kind = zero.kind /\ l.kind # "inf"
    BY <1>1, <1>7
  <2>3. Quantize(l, zero, cx) = QuantizeTo(l, zero.exp, cx)
    BY <1>1, <1>7, <2>2 DEF Quantize, QuantizeOp
  <2> QED
    BY <1>7, <2>1, <2>3
<1>9. ToIntegralExact(l, set, given)
          = Raise(InnerResult(Quantize(l, zero, [set EXCEPT !.digits = Digits(l.coef)])), given)
  <2>1. ~(l.kind = "inf" \/ l.exp >= 0)
    BY <1>1
  <2> QED
    BY <1>1, <1>6, <2>1, Zenon DEF ToIntegralExact
<1>10. InForce = [set EXCEPT !.digits = Digits(l.coef)]
  BY <1>2, Zenon DEF InForce
<1>11. ToIntegralExact(l, set, given) = Raise(InnerResult(QuantizeTo(l, ReqExp, InForce)), given)
  BY <1>2, <1>8, <1>9, <1>10, Zenon
<1> QED
  BY <1>2, <1>3, <1>5, <1>11

LEMMA InexactIs ==
    ASSUME Operands, ReqExp \in Int
    PROVE  IsInexact(l.coef, l.exp, ReqExp) <=>
               /\ ReqExp > l.exp /\ l.coef # 0
               /\ \/ ReqExp - l.exp > Digits(l.coef)
                  \/ l.coef % powers[ReqExp - l.exp] # 0
<1>1. PICK c \in Nat, q \in Int : c = l.coef /\ q = l.exp
  BY ValidFields DEF Operands
<1>2. PICK e \in Int : e = ReqExp
  OBVIOUS
<1>3. ASSUME e > q, c # 0, e - q > Digits(c) PROVE c % powers[e - q] # 0
  <2>1. PICK d \in Nat \ {0}, k \in Nat : d = Digits(c) /\ k = e - q /\ d < k
    BY <1>3, DigitsFacts
  <2>2. PICK u \in Nat \ {0}, v \in Nat : u = powers[k] /\ v = powers[d]
    BY PowersFacts
  <2>3. v <= u /\ c < v
    BY <2>1, <2>2, PowersGrow, DigitsFacts
  <2>4. c < u /\ c = 0 * u + c
    BY <2>3
  <2>5. c % u = c
    BY <2>4, QuotientIs
  <2> QED
    BY <1>3, <2>1, <2>2, <2>5
<1> QED
  BY <1>1, <1>2, <1>3 DEF IsInexact

\* what is asked for, and what comes of it, are numbers
Sized == ReqExp \in Int /\ ReqDigits \in Nat \ {0} /\ RoundedAt(l, ReqExp) \in Nat

Fulfilled ==
    IF RefusesRequest THEN IsNaN(res) /\ "Invalid_operation" \in status
    ELSE /\ Sized
         /\ res = Folded(Finite(l.neg, RoundedAt(l, ReqExp), ReqExp), InForce)
         /\ "Inexact" \in status \cup given <=>
                \/ "Inexact" \in given
                \/ /\ call.routine # "ToIntegralValue"
                   /\ ReqExp > l.exp /\ l.coef # 0
                   /\ \/ ReqExp - l.exp > Digits(l.coef)
                      \/ l.coef % powers[ReqExp - l.exp] # 0

\* the result as the caller of quantize or the inner call of ToIntegral gets it
LEMMA AnswerDelivered ==
    ASSUME IsContext(set), ReqDigits \in Nat \ {0}, ReqExp \in Int,
           RoundedAt(l, ReqExp) \in Nat, call.routine = "Rescale" => IsInteger(r),
           NEW w, Answers(w)
    PROVE  IF RefusesRequest
           THEN /\ IsNaN(AfterStatus(w.dn, w.status)) /\ "Invalid_operation" \in w.status
           ELSE /\ AfterStatus(w.dn, w.status)
                       = Folded(Finite(l.neg, RoundedAt(l, ReqExp), ReqExp), InForce)
                /\ w.status \cap NaNFlags = {}
                /\ "Inexact" \in w.status <=> IsInexact(l.coef, l.exp, ReqExp)
<1>1. RefusesRequest <=> ~Holds(RoundedAt(l, ReqExp), ReqExp, InForce)
  BY RefusalIs
<1>2. CASE RefusesRequest
  <2>1. PICK st : /\ w = Work(l, 0, st) /\ "Invalid_operation" \in st
                  /\ st \subseteq CutOnly \cup {"Invalid_operation"}
    BY <1>1, <1>2, Zenon DEF Answers, Quantized
  <2>2. w.status = st /\ "sNaN" \notin st /\ st \cap NaNFlags # {}
    BY <2>1, WorkFields DEF CutOnly, NaNFlags
  <2>3. AfterStatus(w.dn, w.status) = Special("nan", FALSE)
    BY <2>2, Zenon DEF AfterStatus
  <2> QED
    BY <1>2, <2>1, <2>2, <2>3 DEF IsNaN, Special
<1>3. CASE ~RefusesRequest
  <2>1. PICK st : /\ w = Work(Folded(Finite(l.neg, RoundedAt(l, ReqExp), ReqExp), InForce), 0, st)
                  /\ st \subseteq LossFlags
                  /\ "Inexact" \in st <=> IsInexact(l.coef, l.exp, ReqExp)
    BY <1>1, <1>3, Zenon DEF Answers, Quantized
  <2>2. /\ w.status = st /\ st \cap NaNFlags = {}
        /\ w.dn = Folded(Finite(l.neg, RoundedAt(l, ReqExp), ReqExp), InForce)
    BY <2>1, WorkFields, LossesAreNoNaNs
  <2>3. AfterStatus(w.dn, st) = w.dn
    BY <2>2, NoNaNFlag
  <2> QED
    BY <1>3, <2>1, <2>2, <2>3
<1> QED
  BY <1>2, <1>3

LEMMA QuantizeFulfilled ==
    ASSUME CallIs, Is({"Quantize", "Rescale"}), ~IsSpecial(l), ~IsSpecial(r), ~CarriedAway
    PROVE  Fulfilled
<1>1. Reported /\ call.routine \in {"Quantize", "Rescale"} /\ call.routine \notin Binarily
  BY DEF Is, Binarily
<1>2. /\ \E x : Outcome(x) /\ status = x.status /\ res = AfterStatus(x.dn, x.status)
      /\ Operands
  BY <1>1, Ends
<1>3. PICK w : Outcome(w) /\ status = w.status /\ res = AfterStatus(w.dn, w.status)
  BY <1>2
<1>4. \/ call.routine = "Quantize" /\ w = Quantize(l, r, set)
      \/ call.routine = "Rescale" /\ w = Rescale(l, r, set)
  BY <1>1, <1>3 DEF Outcome, OutcomeOfOrder, OutcomeOfCopy, OutcomeOfExponent, OutcomeOfDigits,
                    Textual
<1>5. IF call.routine = "Rescale" /\ ~IsInteger(r)
      THEN w = Work(l, 0, {"Invalid_operation"})
      ELSE /\ ReqExp \in Int /\ RoundedAt(l, ReqExp) \in Nat
           /\ ReqDigits = set.digits /\ Answers(w)
  BY <1>2, <1>4, RequestAnswered
<1>6. CASE call.routine = "Rescale" /\ ~IsInteger(r)
  <2>1. RefusesRequest
    BY <1>6, Zenon DEF RefusesRequest
  <2>2. PICK t : t = {"Invalid_operation"}
    OBVIOUS
  <2>3. w = Work(l, 0, t)
    BY <1>5, <1>6, <2>2, Zenon
  <2>4. w.status = t /\ "sNaN" \notin t /\ t \cap NaNFlags # {} /\ "Invalid_operation" \in t
    BY <2>2, <2>3, WorkFields DEF NaNFlags
  <2>5. AfterStatus(w.dn, w.status) = Special("nan", FALSE)
    BY <2>4, Zenon DEF AfterStatus
  <2>6. IsNaN(res)
    BY <1>3, <2>5 DEF IsNaN, Special
  <2> QED
    BY <1>3, <2>1, <2>4, <2>6, Zenon DEF Fulfilled
<1>7. CASE ~(call.routine = "Rescale" /\ ~IsInteger(r))
  <2>1. IsContext(set) /\ ReqDigits \in Nat \ {0} /\ ReqExp \in Int /\ RoundedAt(l, ReqExp) \in Nat
        /\ Answers(w)
    BY <1>2, <1>5, <1>7 DEF Operands, IsContext
  <2>2. IF RefusesRequest
        THEN /\ IsNaN(res) /\ "Invalid_operation" \in status
        ELSE /\ res = Folded(Finite(l.neg, RoundedAt(l, ReqExp), ReqExp), InForce)
             /\ status \cap NaNFlags = {}
             /\ "Inexact" \in status <=> IsInexact(l.coef, l.exp, ReqExp)
    BY <1>3, <1>7, <2>1, AnswerDelivered
  <2>3. call.routine # "ToIntegralValue"
    BY <1>1
  <2> QED
    BY <1>2, <2>1, <2>2, <2>3, InexactIs DEF Fulfilled, Sized
<1> QED
  BY <1>6, <1>7

LEMMA IntegralFulfilled ==
    ASSUME CallIs, Is({"ToIntegralExact", "ToIntegralValue"}), ~IsSpecial(l), l.exp < 0,
           given \cap NaNFlags = {}, ~CarriedAway
    PROVE  Fulfilled
<1>1. Reported /\ call.routine \in {"ToIntegralExact", "ToIntegralValue"}
      /\ call.routine \notin Binarily
  BY DEF Is, Binarily
<1>2. /\ \E x : Outcome(x) /\ status = x.status /\ res = AfterStatus(x.dn, x.status)
      /\ Operands
  BY <1>1, Ends
<1>3. PICK v : Outcome(v) /\ status = v.status /\ res = AfterStatus(v.dn, v.status)
  BY <1>2
<1>4. \/ call.routine = "ToIntegralExact" /\ v = ToIntegralExact(l, set, given)
      \/ call.routine = "ToIntegralValue" /\ v = ToIntegralValue(l, set, given)
  BY <1>1, <1>3 DEF Outcome, OutcomeOfOrder, OutcomeOfCopy, OutcomeOfExponent, OutcomeOfDigits,
                    Textual
<1>5. /\ ReqExp \in Int /\ ReqDigits \in Nat \ {0} /\ RoundedAt(l, ReqExp) \in Nat
      /\ \E w : Answers(w) /\ ToIntegralExact(l, set, given) = Raise(InnerResult(w), given)
  BY <1>1, <1>2, IntegralAnswered
<1>6. PICK w : Answers(w) /\ ToIntegralExact(l, set, given) = Raise(InnerResult(w), given)
  BY <1>5
<1>7. PICK n, st : n = w.dn /\ st = w.status /\ w = Work(n, 0, st)
  <2>1. \E m, t : w = Work(m, 0, t)
    BY <1>6, Zenon DEF Answers, Quantized
  <2> QED
    BY <2>1, WorkFields
<1>8. PICK a : a = AfterStatus(n, st)
  OBVIOUS
<1>9. PICK all : all = st \cup given
  OBVIOUS
<1>10. ToIntegralExact(l, set, given) = Work(a, 0, all)
  <2>1. InnerResult(w) = Work(a, 0, st)
    <3>1. [Work(n, 0, st) EXCEPT !.dn = AfterStatus(@, st)] = Work(a, 0, st)
      BY <1>8 DEF Work
    <3> QED
      BY <1>7, <3>1, WorkFields, Zenon DEF InnerResult
  <2>2. Raise(Work(a, 0, st), given) = Work(a, 0, all)
    BY <1>9, WorkParts
  <2> QED
    BY <1>6, <2>1, <2>2
<1>11. IF RefusesRequest
       THEN IsNaN(a) /\ "Invalid_operation" \in st
       ELSE /\ a = Folded(Finite(l.neg, RoundedAt(l, ReqExp), ReqExp), InForce)
            /\ st \cap NaNFlags = {}
            /\ "Inexact" \in st <=> IsInexact(l.coef, l.exp, ReqExp)
  <2>1. IsContext(set) /\ call.routine # "Rescale"
    BY <1>1, <1>2 DEF Operands
  <2> QED
    BY <1>5, <1>6, <1>7, <1>8, <2>1, AnswerDelivered
\* a second decStatus, or a third, changes nothing
<1>12. ASSUME NEW x, x = all \/ ("Invalid_operation" \in all /\ "sNaN" \in x) \/ x = {}
       PROVE  /\ RefusesRequest => IsNaN(AfterStatus(a, x))
              /\ ~RefusesRequest => AfterStatus(a, all) = a
  <2>1. ASSUME IsNaN(a) PROVE IsNaN(AfterStatus(a, x))
    BY <2>1 DEF AfterStatus, IsNaN, Special
  <2>2. ASSUME ~RefusesRequest PROVE AfterStatus(a, all) = a
    <3>1. all \cap NaNFlags = {}
      BY <1>9, <1>11, <2>2
    <3> QED
      BY <3>1, NoNaNFlag
  <2> QED
    BY <1>11, <2>1, <2>2
<1>13. CASE call.routine = "ToIntegralExact"
  <2>1. status = all /\ res = AfterStatus(a, all)
    BY <1>3, <1>4, <1>10, <1>13, WorkFields
  <2>2. RefusesRequest => IsNaN(res) /\ "Invalid_operation" \in status
    BY <1>9, <1>11, <1>12, <2>1
  <2>3. ~RefusesRequest =>
            /\ res = Folded(Finite(l.neg, RoundedAt(l, ReqExp), ReqExp), InForce)
            /\ "Inexact" \in status \cup given <=>
                   "Inexact" \in given \/ IsInexact(l.coef, l.exp, ReqExp)
    BY <1>9, <1>11, <1>12, <2>1
  <2>4. call.routine # "ToIntegralValue"
    BY <1>13
  <2> QED
    BY <1>2, <1>5, <2>2, <2>3, <2>4, InexactIs DEF Fulfilled, Sized
<1>14. CASE call.routine = "ToIntegralValue"
  <2>1. PICK b : b = AfterStatus(a, all)
    OBVIOUS
  <2>2. PICK t : t = IF "Invalid_operation" \in all THEN {"Invalid_operation", "sNaN"} ELSE {}
    OBVIOUS
  <2>3. v = Work(b, 0, t)
    <3>1. InnerResult(Work(a, 0, all)) = Work(b, 0, all)
      <4>1. PICK o : o = Work(a, 0, all)
        OBVIOUS
      <4>2. o.dn = a /\ o.status = all
        BY <4>1, WorkFields
      <4>3. [o EXCEPT !.dn = b] = Work(b, 0, all)
        BY <4>1 DEF Work
      <4> QED
        BY <2>1, <4>1, <4>2, <4>3 DEF InnerResult
    <3>2. PICK o : o = Work(b, 0, all)
      OBVIOUS
    <3>3. OnlyInvalid(o) = Work(b, 0, t)
      <4>1. o.status = all
        BY <3>2, WorkFields
      <4>2. [o EXCEPT !.status = t] = Work(b, 0, t)
        BY <3>2 DEF Work
      <4> QED
        BY <2>2, <4>1, <4>2 DEF OnlyInvalid
    <3>4. v = OnlyInvalid(InnerResult(ToIntegralExact(l, set, given)))
      BY <1>4, <1>14, Zenon DEF ToIntegralValue
    <3> QED
      BY <1>10, <3>1, <3>2, <3>3, <3>4, Zenon
  <2>4. status = t /\ res = AfterStatus(b, t)
    BY <1>3, <2>3, WorkFields
  <2>5. res = b
    <3>1. t \cap NaNFlags = {} \/ "sNaN" \in t
      BY <2>2
    <3> QED
      BY <2>4, <3>1, NoNaNFlag
  <2>6. RefusesRequest => IsNaN(res) /\ "Invalid_operation" \in status
    BY <1>9, <1>11, <1>12, <2>1, <2>2, <2>4, <2>5
  <2>7. ~RefusesRequest => res = Folded(Finite(l.neg, RoundedAt(l, ReqExp), ReqExp), InForce)
    BY <1>11, <1>12, <2>1, <2>5
  <2>8. "Inexact" \notin status
    BY <2>2, <2>4
  <2> QED
    BY <1>5, <1>14, <2>6, <2>7, <2>8 DEF Fulfilled, Sized
<1> QED
  BY <1>1, <1>13, <1>14

(***************************************************************************)
(* Scaling by a power of ten.                                              *)
(***************************************************************************)
LEMMA NaNsArePassed ==
    ASSUME NEW w, w = NaNs(l, r, set)
    PROVE  IsNaN(AfterStatus(w.dn, w.status))
<1>1. w.dn = QuietNaN(l, r, set) /\ w.status = NaNStatus(l, r)
  BY WorkFields DEF Failed, NaNs
<1>2. NaNStatus(l, r) = {} \/ "sNaN" \in NaNStatus(l, r)
  BY DEF NaNStatus
<1>3. AfterStatus(w.dn, w.status) = QuietNaN(l, r, set)
  BY <1>1, <1>2, NoNaNFlag
<1> QED
  BY <1>3 DEF QuietNaN, IsNaN

LEMMA InvalidIsNaN ==
    ASSUME NEW n, NEW w, w = Invalid(n, Plain(n))
    PROVE  IsNaN(AfterStatus(w.dn, w.status)) /\ "Invalid_operation" \in w.status
<1>1. PICK t : t = {} \cup {"Invalid_operation"}
  OBVIOUS
<1>2. w = Work(n, 0, t)
  BY <1>1, PlainIs, InvalidIs
<1>3. w.status = t /\ "sNaN" \notin t /\ t \cap NaNFlags # {} /\ "Invalid_operation" \in t
  BY <1>1, <1>2, WorkFields DEF NaNFlags
<1>4. AfterStatus(w.dn, w.status) = Special("nan", FALSE)
  BY <1>3, Zenon DEF AfterStatus
<1> QED
  BY <1>3, <1>4 DEF IsNaN, Special

\* a number no longer than the precision need not be cut to be fitted
LEMMA ShortIsFitted ==
    ASSUME NEW n, IsContext(set), Digits(n.coef) \in Nat, Digits(n.coef) <= set.digits
    PROVE  Finalize(Plain(n), set) = Fitted(n, set)
<1>1. Digits(n.coef) - set.digits <= 0
  BY DEF IsContext
<1>2. PICK none : none = {}
  OBVIOUS
<1>3. SetCoeff(Work(n, 0, none), set) = Work(n, 0, none \cup (IF 0 = 0 THEN {} ELSE {"Inexact", "Rounded"}))
  BY <1>1, SetCoeffKeeps
<1>4. none \cup (IF 0 = 0 THEN {} ELSE {"Inexact", "Rounded"}) = none
  BY <1>2
<1>5. SetCoeff(Plain(n), set) = Plain(n)
  BY <1>2, <1>3, <1>4, PlainIs, Zenon
<1> QED
  BY <1>5, Zenon DEF Fitted

LEMMA ScaledOnce ==
    ASSUME CallIs, Is({"ScaleB"}), ~IsSpecial(l), ~IsNaN(res), Digits(l.coef) <= set.digits
    PROVE  /\ res = Delivered(l.neg, l.coef, l.exp + GetInt(r).value, set)
           /\ status = FlagsFor(l.neg, l.coef, l.exp + GetInt(r).value, set)
<1>1. Reported /\ call.routine = "ScaleB" /\ call.routine \notin Binarily
  BY DEF Is, Binarily
<1>2. /\ \E x : Outcome(x) /\ status = x.status /\ res = AfterStatus(x.dn, x.status)
      /\ Operands
  BY <1>1, Ends
<1>3. PICK w : Outcome(w) /\ status = w.status /\ res = AfterStatus(w.dn, w.status)
  BY <1>2
<1>4. w = ScaleB(l, r, set)
  BY <1>1, <1>3 DEF Outcome, OutcomeOfOrder, OutcomeOfCopy, OutcomeOfExponent, OutcomeOfDigits,
                    Textual
<1>5. /\ IsContext(set) /\ l \in Numbers /\ l.kind = "finite" /\ ~IsNaN(l)
      /\ r \in Numbers /\ r.kind \in Kinds
      /\ l.neg \in BOOLEAN /\ l.coef \in Nat /\ l.exp \in Int
  BY <1>2, ValidFields DEF Operands, IsSpecial, IsNaN, Kinds
<1>6. ~IsNaN(r)
  <2>1. ASSUME IsNaN(r) PROVE w = NaNs(l, r, set)
    BY <1>4, <2>1, Zenon DEF ScaleB
  <2> QED
    BY <1>3, <2>1, NaNsArePassed
<1>7. w # Invalid(l, Plain(l))
  BY <1>3, InvalidIsNaN
<1>8. PICK by : by = GetInt(r)
  OBVIOUS
<1>9. /\ r.kind # "inf" /\ by.ok
      /\ w = Finalize(Plain([l EXCEPT !.exp = @ + by.value]), set)
  BY <1>4, <1>5, <1>6, <1>7, <1>8 DEF ScaleB
<1>10. by.value \in Int
  <2>1. ~IsSpecial(r)
    BY <1>5, <1>6, <1>9 DEF IsSpecial, IsNaN, Kinds
  <2> QED
    BY <1>5, <1>8, <1>9, <2>1, GetIntIs
<1>11. PICK e \in Int : e = l.exp + by.value
  BY <1>5, <1>10
<1>12. PICK n : n = Finite(l.neg, l.coef, e)
  OBVIOUS
<1>13. [l EXCEPT !.exp = @ + by.value] = n
  BY <1>5, <1>11, <1>12 DEF Finite, Numbers
<1>14. n \in Numbers /\ ~IsSpecial(n) /\ n.neg = l.neg /\ n.coef = l.coef /\ n.exp = e
  BY <1>5, <1>11, <1>12 DEF Finite, Numbers, Kinds, IsSpecial
<1>15. w = Fitted(n, set)
  <2>1. Digits(n.coef) \in Nat
    BY <1>5, <1>14, DigitsFacts
  <2> QED
    BY <1>5, <1>9, <1>13, <1>14, <2>1, ShortIsFitted
<1>16. /\ w.dn = Delivered(l.neg, l.coef, e, set)
       /\ w.status = FlagsFor(l.neg, l.coef, e, set)
       /\ w.status \subseteq LossFlags
  BY <1>5, <1>14, <1>15, FittedNumber DEF Proper
<1>17. res = w.dn
  BY <1>3, <1>16, NoNaNFlag, LossesAreNoNaNs
<1> QED
  BY <1>3, <1>8, <1>11, <1>16, <1>17

(***************************************************************************)
(* Dropping trailing zeros.                                                *)
(***************************************************************************)
LEMMA TrailingZerosAre ==
    ASSUME NEW n, n.coef \in Nat
    PROVE  /\ TrailingZeros(n) \in 0..(Digits(n.coef) - 1)
           /\ n.coef % powers[TrailingZeros(n)] = 0
           /\ \A d \in 0..(Digits(n.coef) - 1) :
                  n.coef % powers[d] = 0 => d <= TrailingZeros(n)
<1>1. PICK c \in Nat : c = n.coef
  OBVIOUS
<1>2. PICK t \in Nat : t = Digits(c) - 1
  BY DigitsFacts
<1> DEFINE Zeros == {d \in 0..t : c % powers[d] = 0}
<1> DEFINE Kept == {j \in 0..t : c % powers[t - j] = 0}
<1>3. Kept \subseteq Nat /\ t \in Kept
  <2>1. powers[t - t] = 1
    BY PowersFacts
  <2>2. c % 1 = 0
    OBVIOUS
  <2> QED
    BY <2>1, <2>2
<1>4. PICK j \in Kept : \A i \in Kept : j <= i
  <2>1. Kept # {}
    BY <1>3
  <2> QED
    BY <1>3, <2>1, Least
<1>5. t - j \in Zeros /\ \A d \in Zeros : t - j >= d
  <2>1. t - j \in Zeros
    BY <1>4
  <2>2. ASSUME NEW d \in Zeros PROVE t - j >= d
    <3>1. d \in 0..t /\ c % powers[d] = 0
      BY <2>2
    <3>2. PICK i \in 0..t : i = t - d /\ d = t - i
      BY <3>1
    <3>3. i \in Kept
      BY <3>1, <3>2
    <3>4. j <= i
      BY <1>4, <3>3
    <3>5. j \in 0..t
      BY <1>4
    <3> QED
      BY <3>1, <3>2, <3>4, <3>5
  <2> QED
    BY <2>1, <2>2
<1>6. Max(Zeros) \in Zeros /\ \A d \in Zeros : Max(Zeros) >= d
  BY <1>5, Zenon DEF Max
<1>7. TrailingZeros(n) = Max(Zeros)
  BY <1>1, <1>2, Zenon DEF TrailingZeros
<1>8. \A d \in 0..t : c % powers[d] = 0 => Max(Zeros) >= d
  BY <1>6
<1>9. PICK m \in 0..t : m = Max(Zeros) /\ c % powers[m] = 0
  BY <1>6
<1> QED
  BY <1>1, <1>2, <1>7, <1>8, <1>9

\* a number without k of its trailing zeros
Dropped(n, k) == [n EXCEPT !.coef = @ \div powers[k], !.exp = @ + k]

LEMMA DroppedIs ==
    ASSUME NEW n \in Numbers, ~IsSpecial(n), n.coef # 0, NEW k \in 0..TrailingZeros(n)
    PROVE  /\ k \in Nat
           /\ \E c \in Nat \ {0} :
                  /\ Dropped(n, k) = Finite(n.neg, c, n.exp + k)
                  /\ c * powers[k] = n.coef
                  /\ k = TrailingZeros(n) => c % 10 # 0
<1>1. /\ n = Finite(n.neg, n.coef, n.exp)
      /\ n.neg \in BOOLEAN /\ n.coef \in Nat \ {0} /\ n.exp \in Int
  BY NumberIs
<1>2. PICK a \in Nat \ {0}, q \in Int : a = n.coef /\ q = n.exp
  BY <1>1
<1>3. PICK t \in Nat : /\ t = TrailingZeros(n) /\ t \in 0..(Digits(a) - 1) /\ a % powers[t] = 0
                       /\ \A d \in 0..(Digits(a) - 1) : a % powers[d] = 0 => d <= t
  BY <1>1, <1>2, TrailingZerosAre
<1>4. k \in Nat /\ k <= t
  BY <1>3
<1>5. PICK u \in Nat \ {0}, v \in Nat \ {0} : u = powers[k] /\ v = powers[t - k] /\ v * u = powers[t]
  <2>1. t - k \in Nat /\ k + (t - k) = t
    BY <1>4
  <2>2. powers[k] \in Nat \ {0} /\ powers[t - k] \in Nat \ {0}
    BY <1>4, <2>1, PowersFacts
  <2>3. powers[(t - k) + k] = powers[t - k] * powers[k]
    BY <1>4, <2>1, PowersSum
  <2>4. (t - k) + k = t
    BY <2>1
  <2> QED
    BY <2>2, <2>3, <2>4
<1>6. PICK c \in Nat : c = a \div u
  BY Euclid
<1>7. a % u = 0
  <2>1. a % (v * u) = ((a \div u) % v) * u + (a % u)
    BY QuotientTwice
  <2>2. PICK x \in Nat, y \in Nat : x = (a \div u) % v /\ y = a % u
    BY <1>6, Euclid
  <2>3. x * u \in Nat
    BY MulGrows
  <2>4. x * u + y = 0
    BY <1>3, <1>5, <2>1, <2>2
  <2> QED
    BY <2>2, <2>3, <2>4
<1>8. a = c * u
  BY <1>6, <1>7, Euclid
<1>9. c # 0
  <2>1. 0 * u = 0
    OBVIOUS
  <2> QED
    BY <1>8, <2>1
<1>10. Dropped(n, k) = Finite(n.neg, c, q + k)
  <2>1. PICK s, e : s = n.neg /\ e = q + k /\ n = Finite(s, a, q)
    BY <1>1, <1>2
  <2>2. a \div powers[k] = c
    BY <1>5, <1>6
  <2>3. [Finite(s, a, q) EXCEPT !.coef = c, !.exp = e] = Finite(s, c, e)
    <3>1. [Finite(s, a, q) EXCEPT !.coef = c] = Finite(s, c, q)
      BY DEF Finite
    <3>2. [Finite(s, c, q) EXCEPT !.exp = e] = Finite(s, c, e)
      BY DEF Finite
    <3>3. [Finite(s, a, q) EXCEPT !.coef = c, !.exp = e]
              = [[Finite(s, a, q) EXCEPT !.coef = c] EXCEPT !.exp = e]
      OBVIOUS
    <3> QED
      BY <3>1, <3>2, <3>3, Zenon
  <2>4. n.coef \div powers[k] = c /\ n.exp + k = e
    BY <1>2, <2>1, <2>2
  <2>5. [n EXCEPT !.coef = c, !.exp = e] = Finite(s, c, e)
    BY <2>1, <2>3
  <2>6. Dropped(n, k) = [n EXCEPT !.coef = c, !.exp = e]
    BY <2>4, Zenon DEF Dropped
  <2> QED
    BY <2>1, <2>5, <2>6
<1>11. ASSUME k = t PROVE c % 10 # 0
  <2>1. SUFFICES ASSUME c % 10 = 0 PROVE FALSE
    OBVIOUS
  <2>2. powers[t + 1] = 10 * u
    BY <1>5, <1>11, PowersFacts
  <2>3. a % (10 * u) = (c % 10) * u + (a % u)
    <3>1. PICK ten \in Nat \ {0} : ten = 10
      OBVIOUS
    <3>2. a % (ten * u) = ((a \div u) % ten) * u + (a % u)
      BY QuotientTwice
    <3> QED
      BY <1>6, <3>1, <3>2
  <2>4. a % powers[t + 1] = 0
    <3>1. 0 * u + 0 = 0
      OBVIOUS
    <3> QED
      BY <1>7, <2>1, <2>2, <2>3, <3>1
  <2>5. PICK b \in Nat : b = c \div 10 /\ c = b * 10
    BY <2>1, Euclid
  <2>6. b # 0
    BY <1>9, <2>5
  <2>7. PICK e \in Nat \ {0} : e = Digits(b)
    BY <2>5, DigitsFacts
  <2>8. a = b * powers[t + 1]
    BY <1>8, <2>2, <2>5
  <2>9. Digits(b * powers[t + 1]) = Digits(b) + (t + 1)
    <3>1. b \in Nat \ {0} /\ t + 1 \in Nat
      BY <2>6
    <3> QED
      BY <3>1, DigitsScaled
  <2>10. t + 1 \in 0..(Digits(a) - 1)
    BY <2>7, <2>8, <2>9
  <2>11. t + 1 <= t
    BY <1>3, <2>4, <2>10
  <2> QED
    BY <2>11
<1> QED
  BY <1>2, <1>3, <1>4, <1>5, <1>8, <1>9, <1>10, <1>11

LEMMA DroppingKeepsValue ==
    ASSUME NEW neg \in BOOLEAN, NEW c \in Nat, NEW q \in Int, NEW k \in Nat
    PROVE  SameValue(Finite(neg, c * powers[k], q), Finite(neg, c, q + k))
<1>1. PICK u \in Nat \ {0} : u = powers[k]
  BY PowersFacts
<1>2. PICK a \in Nat : a = c * u
  BY MulGrows
<1>3. PICK e \in Int : e = q + k
  OBVIOUS
<1> DEFINE x == Finite(neg, a, q)
<1> DEFINE y == Finite(neg, c, e)
<1>4. /\ x.neg = neg /\ x.coef = a /\ x.exp = q /\ x.kind = "finite"
      /\ y.neg = neg /\ y.coef = c /\ y.exp = e /\ y.kind = "finite"
  BY DEF Finite
<1>5. Valid(x) /\ Valid(y)
  BY DEF Valid, Finite, Numbers, Kinds, IsSpecial
<1> HIDE DEF x, y
<1>6. q <= e /\ q <= x.exp /\ q <= y.exp
  BY <1>3, <1>4
<1>7. Multiple(x, q) = Multiple(y, q) /\ Multiple(x, q) \in Int
  <2>1. powers[x.exp - q] = 1 /\ powers[y.exp - q] = u
    <3>1. q - q = 0 /\ e - q = k
      BY <1>3
    <3> QED
      BY <1>1, <1>4, <3>1, PowersFacts
  <2>2. a * 1 = a
    OBVIOUS
  <2>3. Multiple(x, q) = Negated(a, neg) /\ Multiple(y, q) = Negated(a, neg)
    BY <1>2, <1>4, <2>1, <2>2 DEF Multiple
  <2> QED
    BY <2>3, NegatedIs
<1>8. ~Below(x, y) /\ ~Below(y, x)
  <2>1. Below(x, y) <=> Multiple(x, q) < Multiple(y, q)
    BY <1>4, <1>5, <1>6, BelowAt
  <2>2. Below(y, x) <=> Multiple(y, q) < Multiple(x, q)
    BY <1>4, <1>5, <1>6, BelowAt
  <2> QED
    BY <1>7, <2>1, <2>2
<1> QED
  BY <1>1, <1>2, <1>3, <1>8 DEF SameValue, x, y

LEMMA ZerosAlike ==
    ASSUME NEW s \in BOOLEAN, NEW q \in Int, NEW e \in Int
    PROVE  SameValue(Finite(s, 0, q), Finite(s, 0, e))
<1>1. PICK m \in Int : m <= q /\ m <= e
  <2>1. CASE q <= e
    BY <2>1
  <2>2. CASE ~(q <= e)
    BY <2>2
  <2> QED
    BY <2>1, <2>2
<1> DEFINE x == Finite(s, 0, q)
<1> DEFINE y == Finite(s, 0, e)
<1>2. /\ x.neg = s /\ x.coef = 0 /\ x.exp = q /\ x.kind = "finite"
      /\ y.neg = s /\ y.coef = 0 /\ y.exp = e /\ y.kind = "finite"
  BY DEF Finite
<1>3. Valid(x) /\ Valid(y)
  BY DEF Valid, Finite, Numbers, Kinds, IsSpecial
<1> HIDE DEF x, y
<1>4. Multiple(x, m) = 0 /\ Multiple(y, m) = 0
  <2>1. /\ Multiple(x, m) \in Int /\ Size(x, m) = 0
        /\ x.neg => Multiple(x, m) + Size(x, m) = 0
        /\ ~x.neg => Multiple(x, m) = Size(x, m)
    BY <1>1, <1>2, MultipleIs
  <2>2. /\ Multiple(y, m) \in Int /\ Size(y, m) = 0
        /\ y.neg => Multiple(y, m) + Size(y, m) = 0
        /\ ~y.neg => Multiple(y, m) = Size(y, m)
    BY <1>1, <1>2, MultipleIs
  <2> QED
    BY <1>2, <2>1, <2>2
<1>5. /\ Below(x, y) <=> Multiple(x, m) < Multiple(y, m)
      /\ Below(y, x) <=> Multiple(y, m) < Multiple(x, m)
  BY <1>1, <1>2, <1>3, BelowAt
<1>6. ~Below(x, y) /\ ~Below(y, x)
  BY <1>4, <1>5
<1> QED
  BY <1>6 DEF SameValue, x, y

\* decTrim, with k zeros to drop
Trimmed(n, k) == IF n.coef % 2 = 1 THEN n
                 ELSE IF IsZero(n) THEN [n EXCEPT !.exp = 0] ELSE Dropped(n, k)

LEMMA TrimIs ==
    ASSUME NEW n \in Numbers, ~IsSpecial(n), NEW k \in Nat, k <= TrailingZeros(n)
    PROVE  LET w == Trimmed(n, k)
           IN  /\ w \in Numbers /\ ~IsSpecial(w) /\ w.neg = n.neg /\ SameValue(n, w)
               /\ w.coef # 0 /\ w.coef % 10 = 0
                      => k < TrailingZeros(n) /\ w.exp = n.exp + k
<1>1. /\ n = Finite(n.neg, n.coef, n.exp)
      /\ n.neg \in BOOLEAN /\ n.coef \in Nat /\ n.exp \in Int
  BY NumberIs
<1> DEFINE w == Trimmed(n, k)
<1>2. PICK s \in BOOLEAN, c \in Nat, q \in Int : s = n.neg /\ c = n.coef /\ q = n.exp
  BY <1>1
<1>3. n = Finite(s, c, q)
  BY <1>1, <1>2
<1>4. CASE c % 2 = 1
  <2>1. w = n
    BY <1>2, <1>4, Zenon DEF Trimmed
  <2>2. c % 10 # 0
    <3>1. SUFFICES ASSUME c % 10 = 0 PROVE FALSE
      OBVIOUS
    <3>2. PICK b \in Nat : c = b * 10
      BY <3>1, Euclid
    <3> QED
      BY <1>4, <3>2
  <2>3. SameValue(n, n)
    <3>1. powers[0] = 1 /\ c * 1 = c /\ q + 0 = q
      BY PowersFacts
    <3>2. SameValue(Finite(s, c * powers[0], q), Finite(s, c, q + 0))
      BY DroppingKeepsValue
    <3> QED
      BY <1>3, <3>1, <3>2
  <2> QED
    BY <1>2, <2>1, <2>2, <2>3
<1>5. CASE c % 2 # 1 /\ c = 0
  <2>1. IsZero(n)
    BY <1>2, <1>3, <1>5 DEF IsZero, Finite
  <2>2. w = [n EXCEPT !.exp = 0]
    BY <1>2, <1>5, <2>1, Zenon DEF Trimmed
  <2>3. w = Finite(s, 0, 0)
    <3>1. [Finite(s, c, q) EXCEPT !.exp = 0] = Finite(s, c, 0)
      BY DEF Finite
    <3> QED
      BY <1>3, <1>5, <2>2, <3>1
  <2>4. SameValue(Finite(s, 0, q), Finite(s, 0, 0))
    BY ZerosAlike
  <2>5. /\ Finite(s, 0, 0) \in Numbers /\ ~IsSpecial(Finite(s, 0, 0))
        /\ Finite(s, 0, 0).neg = s /\ Finite(s, 0, 0).coef = 0
    BY DEF Finite, Numbers, Kinds, IsSpecial
  <2> HIDE DEF w
  <2>6. w \in Numbers /\ ~IsSpecial(w) /\ w.neg = n.neg /\ w.coef = 0
    BY <1>2, <2>3, <2>5
  <2>7. SameValue(n, w)
    BY <1>3, <1>5, <2>3, <2>4
  <2> QED
    BY <2>6, <2>7 DEF w
<1>6. CASE c % 2 # 1 /\ c # 0
  <2>1. ~IsZero(n)
    BY <1>2, <1>6 DEF IsZero
  <2>2. w = Dropped(n, k)
    BY <1>2, <1>6, <2>1, Zenon DEF Trimmed
  <2>3. TrailingZeros(n) \in Nat /\ k \in 0..TrailingZeros(n)
    BY <1>2, <1>6, TrailingZerosAre
  <2>4. PICK b \in Nat \ {0} : /\ Dropped(n, k) = Finite(n.neg, b, n.exp + k)
                               /\ b * powers[k] = n.coef
                               /\ k = TrailingZeros(n) => b % 10 # 0
    BY <1>2, <1>6, <2>3, DroppedIs
  <2>5. PICK e \in Int : e = q + k
    OBVIOUS
  <2>6. w = Finite(s, b, e)
    BY <1>2, <2>2, <2>4, <2>5
  <2>7. SameValue(Finite(s, b * powers[k], q), Finite(s, b, q + k))
    BY DroppingKeepsValue
  <2>8. SameValue(n, w)
    BY <1>2, <1>3, <2>4, <2>5, <2>6, <2>7
  <2>9. /\ Finite(s, b, e) \in Numbers /\ ~IsSpecial(Finite(s, b, e))
        /\ Finite(s, b, e).neg = s /\ Finite(s, b, e).coef = b /\ Finite(s, b, e).exp = e
    BY DEF Finite, Numbers, Kinds, IsSpecial
  <2> HIDE DEF w
  <2>10. w \in Numbers /\ ~IsSpecial(w) /\ w.neg = n.neg /\ w.coef = b /\ w.exp = n.exp + k
    BY <1>2, <2>5, <2>6, <2>9
  <2>11. b % 10 = 0 => k < TrailingZeros(n)
    BY <2>3, <2>4
  <2> QED
    BY <2>8, <2>10, <2>11 DEF w
<1> QED
  BY <1>4, <1>5, <1>6

\* how many zeros decTrim drops: all of them, the context's clamp allowing
LEMMA ReduceDrops ==
    ASSUME NEW n \in Numbers, NEW cx, Etop(cx) \in Int
    PROVE  \E k \in Nat : /\ k = Droppable(n, cx, TRUE, FALSE) /\ k <= TrailingZeros(n)
                          /\ k < TrailingZeros(n) => cx.clamp /\ n.exp + k >= Etop(cx)
<1>1. n.coef \in Nat /\ n.exp \in Int
  BY NumberFields
<1>2. PICK t \in Nat : t = TrailingZeros(n)
  BY <1>1, TrailingZerosAre
<1>3. PICK m \in Int : m = Etop(cx) - n.exp
  BY <1>1
<1>4. Droppable(n, cx, TRUE, FALSE) = IF ~cx.clamp THEN t ELSE Max({0, Min({t, m})})
  BY <1>2, <1>3, Zenon DEF Droppable
<1>5. PICK a \in Int : a = Min({t, m}) /\ (a = IF t <= m THEN t ELSE m)
  BY MinOfTwo
<1>6. PICK b \in Int : b = Max({0, a}) /\ (b = IF 0 <= a THEN a ELSE 0)
  BY MaxOfTwo
<1>7. PICK k \in Nat : k = (IF ~cx.clamp THEN t ELSE b)
  BY <1>6
<1>8. k = Droppable(n, cx, TRUE, FALSE)
  BY <1>4, <1>5, <1>6, <1>7
<1>9. k <= t /\ (k < t => k >= m)
  BY <1>5, <1>6, <1>7
<1>10. k < t => cx.clamp
  BY <1>7
<1>11. k < t => n.exp + k >= Etop(cx)
  BY <1>1, <1>3, <1>9
<1> QED
  BY <1>2, <1>8, <1>9, <1>10, <1>11, Zenon

\* or those of the fraction
LEMMA TrimDrops ==
    ASSUME NEW n \in Numbers, NEW cx
    PROVE  \E k \in Nat : /\ k = Droppable(n, cx, FALSE, TRUE) /\ k <= TrailingZeros(n)
                          /\ k < TrailingZeros(n) => n.exp + k >= 0
<1>1. n.coef \in Nat /\ n.exp \in Int
  BY NumberFields
<1>2. PICK t \in Nat : t = TrailingZeros(n)
  BY <1>1, TrailingZerosAre
<1>3. PICK m \in Int : m = -n.exp
  BY <1>1
<1>4. Droppable(n, cx, FALSE, TRUE) = IF n.exp > 0 THEN t ELSE Min({t, m})
  BY <1>2, <1>3, Zenon DEF Droppable
<1>5. PICK a \in Int : a = Min({t, m}) /\ (a = IF t <= m THEN t ELSE m)
  BY MinOfTwo
<1>6. PICK k \in Nat : k = (IF n.exp > 0 THEN t ELSE a)
  BY <1>1, <1>3, <1>5
<1>7. k = Droppable(n, cx, FALSE, TRUE)
  BY <1>4, <1>5, <1>6
<1>8. k <= t /\ (k < t => n.exp + k >= 0)
  BY <1>1, <1>3, <1>5, <1>6
<1> QED
  BY <1>2, <1>7, <1>8

\* reducing rounds first; trimming needs no context
LEMMA ReducedIs ==
    ASSUME CallIs, Is({"Reduce"}), ~IsSpecial(l)
    PROVE  LET d == Into(l)
           IN  /\ IsSpecial(d) => res = d
               /\ ~IsSpecial(d)
                      => /\ SameValue(d, res) /\ d.neg = res.neg
                         /\ res.coef # 0 /\ res.coef % 10 = 0
                                => set.clamp /\ res.exp >= Etop(set)
<1>1. Reported /\ call.routine = "Reduce" /\ call.routine \notin Binarily
  BY DEF Is, Binarily
<1>2. /\ \E x : Outcome(x) /\ status = x.status /\ res = AfterStatus(x.dn, x.status)
      /\ Operands
  BY <1>1, Ends
<1>3. PICK w : Outcome(w) /\ status = w.status /\ res = AfterStatus(w.dn, w.status)
  BY <1>2
<1>4. w = Reduce(l, set)
  BY <1>1, <1>3 DEF Outcome, OutcomeOfOrder, OutcomeOfCopy, OutcomeOfExponent, OutcomeOfDigits,
                    Textual
<1>5. /\ IsContext(set) /\ l \in Numbers /\ l.kind = "finite" /\ ~IsNaN(l) /\ Context(set)
  BY <1>2, ValidFields, ContextHolds DEF Operands, IsSpecial, IsNaN, Kinds
<1>6. PICK d : d = Into(l)
  OBVIOUS
<1>7. PICK rs, st : Fitted(l, set) = Work(d, rs, st) /\ st \subseteq LossFlags /\ FitsIn(d, set)
  <2>1. /\ Fitted(l, set).dn = Delivered(l.neg, l.coef, l.exp, set)
        /\ Proper(Fitted(l, set), set)
    BY <1>5, FittedNumber
  <2>2. Into(l) = Delivered(l.neg, l.coef, l.exp, set)
    BY DEF Into
  <2> QED
    BY <1>6, <2>1, <2>2 DEF Proper
<1>8. PICK t : t = TrimOp(d, set, TRUE, FALSE)
  OBVIOUS
<1>9. w = Work(t, rs, st)
  <2>1. PICK o : o = Work(d, rs, st)
    OBVIOUS
  <2>2. o.dn = d
    BY <2>1, WorkFields
  <2>3. [o EXCEPT !.dn = t] = Work(t, rs, st)
    BY <2>1 DEF Work
  <2>4. w = [o EXCEPT !.dn = TrimOp(@, set, TRUE, FALSE)]
    BY <1>4, <1>5, <1>7, <2>1, Zenon DEF Reduce
  <2> QED
    BY <1>8, <2>2, <2>3, <2>4
<1>10. res = t
  BY <1>3, <1>7, <1>9, WorkFields, NoNaNFlag, LossesAreNoNaNs
<1>11. CASE IsSpecial(d)
  <2>1. t = d
    BY <1>8, <1>11, Zenon DEF TrimOp
  <2> QED
    BY <1>6, <1>10, <1>11, <2>1
<1>12. CASE ~IsSpecial(d)
  <2>1. d \in Numbers /\ Etop(set) \in Int
    BY <1>5, <1>7, ContextRange DEF FitsIn
  <2>2. PICK k \in Nat : /\ k = Droppable(d, set, TRUE, FALSE) /\ k <= TrailingZeros(d)
                         /\ k < TrailingZeros(d) => set.clamp /\ d.exp + k >= Etop(set)
    BY <2>1, ReduceDrops
  <2>3. /\ t.neg = d.neg /\ SameValue(d, t)
        /\ t.coef # 0 /\ t.coef % 10 = 0
               => k < TrailingZeros(d) /\ t.exp = d.exp + k
    <3>1. t = Trimmed(d, k)
      BY <1>8, <1>12, <2>2, Zenon DEF TrimOp, Trimmed, Dropped
    <3> QED
      BY <1>12, <2>1, <2>2, <3>1, TrimIs
  <2> QED
    BY <1>6, <1>10, <1>12, <2>2, <2>3
<1> QED
  BY <1>11, <1>12

LEMMA TrimmedIs ==
    ASSUME CallIs, Is({"Trim"}), ~IsSpecial(l)
    PROVE  /\ SameValue(l, res)
           /\ res.exp < 0 /\ res.coef # 0 => res.coef % 10 # 0
<1>1. Reported /\ call.routine = "Trim" /\ call.routine \notin Binarily
  BY DEF Is, Binarily
<1>2. /\ \E x : Outcome(x) /\ status = x.status /\ res = AfterStatus(x.dn, x.status)
      /\ Operands
  BY <1>1, Ends
<1>3. PICK w : Outcome(w) /\ status = w.status /\ res = AfterStatus(w.dn, w.status)
  BY <1>2
<1>4. w = Trim(l, set)
  BY <1>1, <1>3 DEF Outcome, OutcomeOfOrder, OutcomeOfCopy, OutcomeOfExponent, OutcomeOfDigits,
                    Textual
<1>5. l \in Numbers
  BY <1>2, ValidFields DEF Operands
<1>6. PICK cx : cx = [set EXCEPT !.clamp = FALSE]
  OBVIOUS
<1>7. PICK t : t = TrimOp(l, cx, FALSE, TRUE)
  OBVIOUS
<1>8. w = Plain(t)
  BY <1>4, <1>6, <1>7, Zenon DEF Trim
<1>9. w.dn = t /\ w.status = {}
  BY <1>8, PlainIs
<1>10. w.status \cap NaNFlags = {}
  BY <1>9
<1>11. res = t
  BY <1>3, <1>9, <1>10, NoNaNFlag
<1>12. PICK k \in Nat : /\ k = Droppable(l, cx, FALSE, TRUE) /\ k <= TrailingZeros(l)
                        /\ k < TrailingZeros(l) => l.exp + k >= 0
  BY <1>5, TrimDrops
<1>13. /\ t \in Numbers /\ SameValue(l, t)
       /\ t.coef # 0 /\ t.coef % 10 = 0
              => k < TrailingZeros(l) /\ t.exp = l.exp + k
  <2>1. t = Trimmed(l, k)
    BY <1>7, <1>12, Zenon DEF TrimOp, Trimmed, Dropped
  <2> QED
    BY <1>5, <1>12, <2>1, TrimIs
<1>14. l.exp \in Int
  BY <1>5, NumberFields
<1>15. ASSUME t.exp < 0, t.coef # 0, t.coef % 10 = 0 PROVE FALSE
  <2>1. t.exp = l.exp + k /\ l.exp + k >= 0
    BY <1>12, <1>13, <1>15, Zenon
  <2> QED
    BY <1>14, <1>15, <2>1
<1> QED
  BY <1>11, <1>13, <1>15

(***************************************************************************)
(* Every request is rounded once.                                          *)
(***************************************************************************)
\* Folding moves the exponent of an answer, never its value.
LEMMA FoldedIsRequested ==
    ASSUME Operands, ~IsSpecial(l), Sized, NEW a, a = Folded(Requested, InForce)
    PROVE  IF FoldsAnswer THEN ~IsSpecial(a) /\ SameValue(a, Requested) /\ a.neg = l.neg
           ELSE a = Requested
<1>1. l.neg \in BOOLEAN /\ IsContext(set)
  BY ValidFields DEF Operands
<1>2. PICK neg \in BOOLEAN, c \in Nat, e \in Int :
          neg = l.neg /\ c = RoundedAt(l, ReqExp) /\ e = ReqExp
  BY <1>1 DEF Sized
<1>3. Requested = Finite(neg, c, e)
  BY <1>2 DEF Requested
<1>4. PICK h \in Int : h = Etop(InForce)
  <2>1. InForce.emax \in Int /\ InForce.digits \in Nat
    BY <1>1, InForceIs DEF Sized, IsContext
  <2> QED
    BY <2>1 DEF Etop
<1>5. FoldsAnswer <=> InForce.clamp /\ e > h
  BY <1>1, <1>2, <1>4, InForceIs DEF FoldsAnswer, InForce, Sized
<1>6. Requested.kind = "finite" /\ Requested.neg = neg /\ Requested.coef = c
      /\ Requested.exp = e
  BY <1>3 DEF Finite
<1>7. CASE FoldsAnswer
  <2>1. PICK k \in Nat : k = e - h /\ h + k = e
    BY <1>5, <1>7
  <2>2. a = Finite(neg, c * powers[k], h)
    BY <1>4, <1>5, <1>6, <1>7, <2>1 DEF Folded
  <2>3. SameValue(a, Requested)
    BY <1>3, <2>1, <2>2, DroppingKeepsValue
  <2>4. ~IsSpecial(a) /\ a.neg = neg
    BY <2>2 DEF IsSpecial, Finite
  <2> QED
    BY <1>2, <1>7, <2>3, <2>4
<1>8. CASE ~FoldsAnswer
  BY <1>4, <1>5, <1>6, <1>8 DEF Folded
<1> QED
  BY <1>7, <1>8

\* what QuantizedOnce asks of a request
Answered ==
    IF RefusesRequest THEN IsNaN(res) /\ "Invalid_operation" \in status
    ELSE /\ IF FoldsAnswer
            THEN ~IsSpecial(res) /\ SameValue(res, Requested) /\ res.neg = l.neg
            ELSE res = Requested
         /\ "Inexact" \in status \cup given <=>
                \/ "Inexact" \in given
                \/ /\ call.routine # "ToIntegralValue"
                   /\ ReqExp > l.exp /\ l.coef # 0
                   /\ \/ ReqExp - l.exp > Digits(l.coef)
                      \/ l.coef % powers[ReqExp - l.exp] # 0

LEMMA QuantizesOnce == CallIs => QuantizedOnce
<1> SUFFICES ASSUME CallIs PROVE QuantizedOnce
  OBVIOUS
<1>1. ASSUME RequestMade, ~CarriedAway PROVE Answered
  <2>1. ~IsSpecial(l) /\ ~IsSpecial(r)
    BY <1>1 DEF RequestMade
  <2>2. Fulfilled
    <3>1. CASE Is({"Quantize", "Rescale"})
      BY <1>1, <2>1, <3>1, QuantizeFulfilled
    <3>2. CASE ~Is({"Quantize", "Rescale"})
      <4>1. Is({"ToIntegralExact", "ToIntegralValue"}) /\ given \cap NaNFlags = {} /\ l.exp < 0
        BY <1>1, <3>2, Zenon DEF RequestMade
      <4> QED
        BY <1>1, <2>1, <4>1, IntegralFulfilled
    <3> QED
      BY <3>1, <3>2
  <2>3. CASE RefusesRequest
    BY <2>2, <2>3, Zenon DEF Fulfilled, Answered
  <2>4. CASE ~RefusesRequest
    <3>1. Sized /\ res = Folded(Requested, InForce)
      BY <2>2, <2>4, Zenon DEF Fulfilled, Requested
    <3>2. Operands
      BY DEF CallIs
    <3>3. IF FoldsAnswer THEN ~IsSpecial(res) /\ SameValue(res, Requested) /\ res.neg = l.neg
          ELSE res = Requested
      BY <2>1, <3>1, <3>2, FoldedIsRequested
    <3> QED
      BY <2>2, <2>4, <3>3, Zenon DEF Fulfilled, Answered
  <2> QED
    BY <2>3, <2>4
<1>2. Is({"ScaleB"}) /\ ~IsSpecial(l) /\ ~IsNaN(res) /\ Digits(l.coef) <= set.digits
          => /\ res = Delivered(l.neg, l.coef, l.exp + GetInt(r).value, set)
             /\ status = FlagsFor(l.neg, l.coef, l.exp + GetInt(r).value, set)
  BY ScaledOnce
<1>3. Is({"Reduce"}) /\ ~IsSpecial(l)
          => LET d == Into(l)
             IN  /\ IsSpecial(d) => res = d
                 /\ ~IsSpecial(d)
                        => /\ SameValue(d, res) /\ d.neg = res.neg
                           /\ res.coef # 0 /\ res.coef % 10 = 0
                                  => set.clamp /\ res.exp >= Etop(set)
  BY ReducedIs
<1>4. Is({"Trim"}) /\ ~IsSpecial(l)
          => /\ SameValue(l, res)
             /\ res.exp < 0 /\ res.coef # 0 => res.coef % 10 # 0
  BY TrimmedIs
<1> QED
  BY <1>1, <1>2, <1>3, <1>4, Zenon DEF QuantizedOnce, Answered

\* Quantize, rescale, round to integral, scaleB, reduce and trim deliver the
\* operand rounded once where it was asked for, in every call that does not carry
\* all nines beyond emax; where a context that clamps folds the answer it has the
\* value asked for at another exponent.
THEOREM QuantizeRoundsOnce == Spec => []QuantizedOnce
<1>1. Spec => []CallIs
  BY CallInvariant
<1>2. CallIs => QuantizedOnce
  BY QuantizesOnce
<1> QED
  BY <1>1, <1>2, PTL

(***************************************************************************)
(* The successor and the predecessor of an operand.                        *)
(***************************************************************************)
LEMMA DeliveredNumber ==
    ASSUME NEW cx, Context(cx), NEW neg \in BOOLEAN, NEW m \in Nat, NEW q \in Int, q < Etiny(cx),
           Outward(neg, cx) \/ Inward(neg, cx)
    PROVE  Valid(Delivered(neg, m, q, cx))
<1>1. PICK h \in Int, t \in Int, top \in Nat :
          h = Etop(cx) /\ t = Etiny(cx) /\ top = powers[cx.digits] - 1
  BY ContextRange, HeaviestIs
<1>2. ASSUME NEW c \in Nat, NEW e \in Int PROVE Valid(Finite(neg, c, e))
  BY DEF Valid, Finite, Numbers, Kinds, IsSpecial
<1>3. ASSUME NEW a \in Nat, NEW f \in Int, t <= f PROVE Valid(InRange(Finite(neg, a, f), cx))
  <2>1. PICK g : g = Finite(neg, a, f)
    OBVIOUS
  <2>2. g.neg = neg /\ g.coef = a /\ g.exp = f /\ g.kind = "finite"
    BY <2>1 DEF Finite
  <2>3. Valid(Special("inf", neg))
    BY DEF Valid, Special, Numbers, Kinds, IsSpecial
  <2>4. Valid(Overflowed(neg, cx))
    BY <1>1, <1>2, <2>3 DEF Overflowed
  <2>5. Valid(Folded(g, cx))
    <3>1. CASE cx.clamp /\ f > h
      <4>1. PICK i \in Nat : i = f - h
        BY <1>1, <3>1
      <4>2. PICK u \in Nat : u = powers[i]
        BY PowersFacts
      <4>3. PICK b \in Nat : b = a * u
        BY MulGrows
      <4>4. Folded(g, cx) = Finite(neg, b, h)
        BY <1>1, <2>2, <3>1, <4>1, <4>2, <4>3 DEF Folded
      <4> QED
        BY <1>1, <1>2, <4>4
    <3>2. CASE ~(cx.clamp /\ f > h)
      BY <1>1, <1>2, <2>1, <2>2, <3>2 DEF Folded
    <3> QED
      BY <3>1, <3>2
  <2> QED
    BY <2>1, <2>2, <2>4, <2>5 DEF InRange
<1>4. CASE m = 0
  BY <1>2, <1>4, ZeroIsDelivered
<1>5. CASE m # 0
  <2>1. m \in Nat \ {0}
    BY <1>5
  <2>2. PICK k \in Nat, lower \in Nat, rest \in Nat : Cell(m, q, cx, k, lower, rest)
    BY <2>1, CellExists
  <2>3. PICK a \in Nat, f \in Int :
            Delivered(neg, m, q, cx) = InRange(Finite(neg, a, f), cx) /\ Etiny(cx) <= f
    BY <2>1, <2>2, DirectedIs
  <2> QED
    BY <1>1, <1>3, <2>3
<1> QED
  BY <1>4, <1>5

\* i * 10^q, rounded up or down, is the first that the context can hold there
LEMMA SteppedIs ==
    ASSUME NEW cx, Context(cx), NEW up \in BOOLEAN, cx.round = (IF up THEN "CEILING" ELSE "FLOOR"),
           NEW q \in Int, q < Etiny(cx), NEW i \in Int
    PROVE  LET w == Delivered(i < 0, IF i < 0 THEN -i ELSE i, q, cx)
           IN  /\ Valid(w) /\ w.kind \in {"finite", "inf"}
               /\ w.kind = "inf" => w.neg = ~up
               /\ w.kind = "finite" => /\ q <= w.exp
                                       /\ IF up THEN i <= Multiple(w, q) ELSE Multiple(w, q) <= i
               /\ \A c \in 0..(powers[cx.digits] - 1), e \in Etiny(cx)..Etop(cx), s \in BOOLEAN :
                      LET v == Negated(Weight(c, e, q), s)
                      IN  (IF up THEN i <= v ELSE v <= i)
                              => /\ w.kind = "finite"
                                 /\ IF up THEN Multiple(w, q) <= v ELSE v <= Multiple(w, q)
<1>1. PICK neg \in BOOLEAN : neg = (i < 0)
  <2>1. (i < 0) \in BOOLEAN
    <3>1. CASE i < 0
      BY <3>1, SMT
    <3>2. CASE ~(i < 0)
      BY <3>2, SMT
    <3> QED
      BY <3>1, <3>2, Zenon
  <2> QED
    BY <2>1, Zenon
<1>2. PICK m \in Nat : m = IF i < 0 THEN -i ELSE i
  OBVIOUS
<1>3. PICK w : w = Delivered(neg, m, q, cx)
  OBVIOUS
<1>4. /\ Outward(neg, cx) <=> neg = ~up
      /\ Inward(neg, cx) <=> neg = up
  <2>1. CASE up
    BY <2>1 DEF Outward, Inward
  <2>2. CASE ~up
    BY <2>2 DEF Outward, Inward
  <2> QED
    BY <2>1, <2>2
<1>5. Valid(w)
  BY <1>3, <1>4, DeliveredNumber
<1>6. w.neg \in BOOLEAN /\ w.coef \in Nat /\ w.exp \in Int
  BY <1>5, ValidFields
<1>7. ASSUME w.kind = "finite", q <= w.exp
      PROVE  /\ Multiple(w, q) \in Int /\ Size(w, q) \in Nat
             /\ w.neg => Multiple(w, q) + Size(w, q) = 0
             /\ ~w.neg => Multiple(w, q) = Size(w, q)
  BY <1>6, <1>7, MultipleIs
<1>8. ASSUME NEW c \in 0..(powers[cx.digits] - 1), NEW e \in Etiny(cx)..Etop(cx), NEW s \in BOOLEAN
      PROVE  /\ Weight(c, e, q) \in Nat /\ Negated(Weight(c, e, q), s) \in Int
             /\ s => Negated(Weight(c, e, q), s) + Weight(c, e, q) = 0
             /\ ~s => Negated(Weight(c, e, q), s) = Weight(c, e, q)
  <2>1. c \in Nat /\ e \in Int /\ q <= e
    BY ContextRange, HeaviestIs
  <2>2. PICK x \in Nat : x = Weight(c, e, q)
    BY <2>1, NumberWeighs
  <2>3. Negated(x, s) \in Int /\ (s => Negated(x, s) + x = 0) /\ (~s => Negated(x, s) = x)
    BY NegatedIs
  <2> QED
    BY <2>2, <2>3
<1>9. CASE neg = ~up
  <2>1. /\ w.kind \in {"finite", "inf"} /\ w.neg = neg
        /\ w.kind = "finite" => q <= w.exp /\ m <= Size(w, q)
        /\ \A c \in 0..(powers[cx.digits] - 1), e \in Etiny(cx)..Etop(cx) :
               m <= Weight(c, e, q) => w.kind = "finite" /\ Size(w, q) <= Weight(c, e, q)
    BY <1>3, <1>4, <1>9, OutwardTight
  <2>2. w.kind = "finite" => IF up THEN i <= Multiple(w, q) ELSE Multiple(w, q) <= i
    <3>1. SUFFICES ASSUME w.kind = "finite"
                   PROVE  IF up THEN i <= Multiple(w, q) ELSE Multiple(w, q) <= i
      OBVIOUS
    <3>2. m <= Size(w, q) /\ Multiple(w, q) \in Int /\ Size(w, q) \in Nat
      BY <1>7, <2>1, <3>1
    <3>3. CASE up
      <4>1. ~neg /\ Multiple(w, q) = Size(w, q) /\ m = i
        BY <1>1, <1>2, <1>7, <1>9, <2>1, <3>1, <3>3
      <4> QED
        BY <3>2, <3>3, <4>1
    <3>4. CASE ~up
      <4>1. neg /\ Multiple(w, q) + Size(w, q) = 0 /\ m = -i
        BY <1>1, <1>2, <1>7, <1>9, <2>1, <3>1, <3>4
      <4> QED
        BY <3>2, <3>4, <4>1
    <3> QED
      BY <3>3, <3>4
  <2>3. ASSUME NEW c \in 0..(powers[cx.digits] - 1), NEW e \in Etiny(cx)..Etop(cx), NEW s \in BOOLEAN,
               NEW v \in Int, v = Negated(Weight(c, e, q), s), IF up THEN i <= v ELSE v <= i
        PROVE  w.kind = "finite" /\ IF up THEN Multiple(w, q) <= v ELSE v <= Multiple(w, q)
    <3>1. PICK x \in Nat : x = Weight(c, e, q) /\ (s => v + x = 0) /\ (~s => v = x)
      BY <1>8, <2>3
    <3>2. CASE up
      <4>0. ~neg
        BY <1>9, <3>2
      <4>1. ~neg /\ m = i /\ i >= 0
        <5>1. ~(i < 0)
          BY <1>1, <4>0, Zenon
        <5> QED
          BY <1>2, <4>0, <5>1
      <4>2. v = x /\ m <= x
        BY <2>3, <3>1, <3>2, <4>1
      <4>3. w.kind = "finite" /\ Size(w, q) <= x
        BY <2>1, <3>1, <4>2
      <4>4. Multiple(w, q) = Size(w, q)
        BY <1>7, <2>1, <4>1, <4>3
      <4> QED
        BY <3>2, <4>2, <4>3, <4>4
    <3>3. CASE ~up
      <4>1. neg /\ m = -i /\ i < 0
        BY <1>1, <1>2, <1>9, <3>3
      <4>2. v + x = 0 /\ m <= x
        BY <2>3, <3>1, <3>3, <4>1
      <4>3. w.kind = "finite" /\ Size(w, q) <= x
        BY <2>1, <3>1, <4>2
      <4>4. Multiple(w, q) + Size(w, q) = 0 /\ Multiple(w, q) \in Int /\ Size(w, q) \in Nat
        BY <1>7, <2>1, <4>1, <4>3
      <4> QED
        BY <3>3, <4>2, <4>3, <4>4
    <3> QED
      BY <3>2, <3>3
  <2>4. w.kind = "inf" => w.neg = ~up
    BY <1>9, <2>1
  <2>5. w.kind = "finite" => q <= w.exp
    BY <2>1
  <2> QED
    BY <1>1, <1>2, <1>3, <1>5, <1>8, <2>1, <2>2, <2>3, <2>4, <2>5, Zenon
<1>10. CASE neg = up
  <2>1. /\ w.kind = "finite" /\ w.neg = neg /\ q <= w.exp /\ Size(w, q) <= m
        /\ \A c \in 0..(powers[cx.digits] - 1), e \in Etiny(cx)..Etop(cx) :
               Weight(c, e, q) <= m => Weight(c, e, q) <= Size(w, q)
    BY <1>3, <1>4, <1>10, InwardTight
  <2>2. Multiple(w, q) \in Int /\ Size(w, q) \in Nat
    BY <1>7, <2>1
  <2>3. CASE up
    <3>1. neg /\ m = -i /\ i < 0 /\ Multiple(w, q) + Size(w, q) = 0
      BY <1>1, <1>2, <1>7, <1>10, <2>1, <2>3
    <3>2. i <= Multiple(w, q)
      BY <2>1, <2>2, <3>1
    <3>3. ASSUME NEW c \in 0..(powers[cx.digits] - 1), NEW e \in Etiny(cx)..Etop(cx),
                 NEW s \in BOOLEAN, i <= Negated(Weight(c, e, q), s)
          PROVE  Multiple(w, q) <= Negated(Weight(c, e, q), s)
      <4>1. PICK x \in Nat : x = Weight(c, e, q)
        BY <1>8
      <4>2. PICK v \in Int : v = Negated(Weight(c, e, q), s) /\ (s => v + x = 0) /\ (~s => v = x)
        BY <1>8, <4>1
      <4>3. x <= m => x <= Size(w, q)
        BY <2>1, <4>1
      <4> QED
        BY <2>2, <3>1, <3>3, <4>2, <4>3
    <3> QED
      BY <1>1, <1>2, <1>3, <1>5, <2>1, <2>3, <3>2, <3>3
  <2>4. CASE ~up
    <3>1. ~neg /\ m = i /\ Multiple(w, q) = Size(w, q)
      BY <1>1, <1>2, <1>7, <1>10, <2>1, <2>4
    <3>2. Multiple(w, q) <= i
      BY <2>1, <2>2, <3>1
    <3>3. ASSUME NEW c \in 0..(powers[cx.digits] - 1), NEW e \in Etiny(cx)..Etop(cx),
                 NEW s \in BOOLEAN, Negated(Weight(c, e, q), s) <= i
          PROVE  Negated(Weight(c, e, q), s) <= Multiple(w, q)
      <4>1. PICK x \in Nat : x = Weight(c, e, q)
        BY <1>8
      <4>2. PICK v \in Int : v = Negated(Weight(c, e, q), s) /\ (s => v + x = 0) /\ (~s => v = x)
        BY <1>8, <4>1
      <4>3. x <= m => x <= Size(w, q)
        BY <2>1, <4>1
      <4> QED
        BY <2>2, <3>1, <3>3, <4>2, <4>3
    <3> QED
      BY <1>1, <1>2, <1>3, <1>5, <2>1, <2>4, <3>2, <3>3
  <2> QED
    BY <2>3, <2>4
<1> QED
  BY <1>9, <1>10

(***************************************************************************)
(* The next number is a neighbour.                                         *)
(***************************************************************************)
\* y follows x upwards or downwards, with nothing of the context in between
IsNextOf(x, up, y) ==
    /\ IF up THEN Below(x, y) ELSE Below(y, x)
    /\ \A n \in Representable : IF up THEN ~Between(n, x, y) ELSE ~Between(n, y, x)

LEMMA RepresentableIs ==
    ASSUME IsContext(set), NEW n \in Representable, NEW q \in Int, q < Etiny(set)
    PROVE  /\ Valid(n) /\ n.kind = "finite" /\ n.neg \in BOOLEAN /\ q <= n.exp
           /\ n.coef \in 0..(powers[set.digits] - 1) /\ n.exp \in Etiny(set)..Etop(set)
           /\ Multiple(n, q) \in Int /\ Multiple(n, q) = Negated(Weight(n.coef, n.exp, q), n.neg)
<1>1. Context(set)
  BY ContextHolds
<1>2. PICK s \in BOOLEAN, c \in 0..(powers[set.digits] - 1), e \in Etiny(set)..Etop(set) :
          n = Finite(s, c, e)
  BY DEF Representable
<1>3. n.kind = "finite" /\ n.neg = s /\ n.coef = c /\ n.exp = e
  BY <1>2 DEF Finite
<1>4. c \in Nat /\ e \in Int /\ q <= e
  BY <1>1, ContextRange, HeaviestIs
<1>5. Valid(n)
  BY <1>2, <1>4 DEF Valid, Finite, Numbers, Kinds, IsSpecial
<1>6. Multiple(n, q) \in Int
  BY <1>3, <1>4, MultipleIs
<1>7. Multiple(n, q) = Negated(Weight(n.coef, n.exp, q), n.neg)
  BY DEF Multiple, Weight
<1> QED
  BY <1>3, <1>4, <1>5, <1>6, <1>7

LEMMA InfinitesimalNext ==
    ASSUME IsContext(set), TinyExp < Etiny(set), NEW up \in BOOLEAN,
           NEW x, Valid(x), x.kind = "finite", TinyExp <= x.exp
    PROVE  LET w == InfinitesimalOff(x, up, set)
           IN  IsNextOf(x, up, w.dn) /\ w.status \subseteq LossFlags
<1>1. PICK mode \in Modes : mode = IF up THEN "CEILING" ELSE "FLOOR"
  BY DEF Modes
<1>2. PICK cx : cx = [set EXCEPT !.round = mode]
  OBVIOUS
<1>3. /\ IsContext(cx) /\ cx.round = mode /\ cx.digits = set.digits
      /\ Etiny(cx) = Etiny(set) /\ Etop(cx) = Etop(set)
  BY <1>2 DEF IsContext, Etiny, Etop
<1>4. Context(cx)
  BY <1>3, ContextHolds
<1>5. PICK q \in Int : q = TinyExp
  BY TinyExpAssumption
<1>6. x.neg \in BOOLEAN /\ x.coef \in Nat /\ x.exp \in Int
  BY ValidFields
<1>7. PICK k \in Int : k = Multiple(x, q)
  BY <1>5, <1>6, MultipleIs
<1>8. PICK i \in Int : i = k + (IF up THEN 1 ELSE -1)
  OBVIOUS
<1>9. PICK d : d = Delivered(i < 0, IF i < 0 THEN -i ELSE i, q, cx)
  OBVIOUS
<1>10. PICK st : st = FlagsFor(i < 0, IF i < 0 THEN -i ELSE i, q, cx)
  OBVIOUS
<1>11. InfinitesimalOff(x, up, set) = Work(d, 0, st)
  <2>1. k + (IF up THEN 1 ELSE -1)
            = Negated(x.coef * powers[x.exp - TinyExp], x.neg) + (IF up THEN 1 ELSE -1)
    BY <1>5, <1>7 DEF Multiple
  <2>2. x.kind # "inf"
    OBVIOUS
  <2> QED
    BY <1>1, <1>2, <1>5, <1>8, <1>9, <1>10, <2>1, <2>2, Zenon DEF InfinitesimalOff
<1>12. st \subseteq LossFlags
  BY <1>10, FlagsAreLosses
<1>13. /\ Valid(d) /\ d.kind \in {"finite", "inf"}
       /\ d.kind = "inf" => d.neg = ~up
       /\ d.kind = "finite" => /\ q <= d.exp
                               /\ IF up THEN i <= Multiple(d, q) ELSE Multiple(d, q) <= i
       /\ \A c \in 0..(powers[cx.digits] - 1), e \in Etiny(cx)..Etop(cx), s \in BOOLEAN :
              LET v == Negated(Weight(c, e, q), s)
              IN  (IF up THEN i <= v ELSE v <= i)
                      => /\ d.kind = "finite"
                         /\ IF up THEN Multiple(d, q) <= v ELSE v <= Multiple(d, q)
  BY <1>1, <1>3, <1>4, <1>5, <1>9, SteppedIs
<1>14. ASSUME d.kind = "finite" PROVE Multiple(d, q) \in Int
  BY <1>13, <1>14, ValidFields, MultipleIs
<1>15. IF up THEN Below(x, d) ELSE Below(d, x)
  <2>1. CASE d.kind = "inf"
    BY <1>13, <2>1 DEF Below
  <2>2. CASE d.kind = "finite"
    <3>1. /\ Below(x, d) <=> k < Multiple(d, q)
          /\ Below(d, x) <=> Multiple(d, q) < k
      BY <1>5, <1>6, <1>7, <1>13, <2>2, BelowAt
    <3> QED
      BY <1>8, <1>13, <1>14, <2>2, <3>1
  <2> QED
    BY <1>13, <2>1, <2>2
<1>16. ASSUME NEW n \in Representable
       PROVE  IF up THEN ~Between(n, x, d) ELSE ~Between(n, d, x)
  <2>1. /\ Valid(n) /\ n.kind = "finite" /\ n.neg \in BOOLEAN /\ q <= n.exp
        /\ n.coef \in 0..(powers[set.digits] - 1) /\ n.exp \in Etiny(set)..Etop(set)
        /\ Multiple(n, q) \in Int /\ Multiple(n, q) = Negated(Weight(n.coef, n.exp, q), n.neg)
    BY <1>5, RepresentableIs
  <2>2. PICK v \in Int : v = Multiple(n, q)
    BY <2>1
  <2>3. (IF up THEN i <= v ELSE v <= i)
            => /\ d.kind = "finite"
               /\ IF up THEN Multiple(d, q) <= v ELSE v <= Multiple(d, q)
    BY <1>3, <1>13, <2>1, <2>2
  <2>4. (Below(x, n) <=> k < v) /\ (Below(n, x) <=> v < k)
    BY <1>5, <1>6, <1>7, <2>1, <2>2, BelowAt
  <2>5. d.kind = "finite" => /\ Below(n, d) <=> v < Multiple(d, q)
                             /\ Below(d, n) <=> Multiple(d, q) < v
    BY <1>13, <2>1, <2>2, BelowAt
  <2>6. CASE up
    <3>1. Below(x, n) => i <= v
      BY <1>8, <2>4, <2>6
    <3>2. Below(x, n) => ~Below(n, d)
      BY <1>14, <2>3, <2>5, <2>6, <3>1
    <3> QED
      BY <2>6, <3>2 DEF Between
  <2>7. CASE ~up
    <3>1. Below(n, x) => v <= i
      BY <1>8, <2>4, <2>7
    <3>2. Below(n, x) => ~Below(d, n)
      BY <1>14, <2>3, <2>5, <2>7, <3>1
    <3> QED
      BY <2>7, <3>2 DEF Between
  <2> QED
    BY <2>6, <2>7
<1>17. IsNextOf(x, up, d)
  BY <1>15, <1>16, Zenon DEF IsNextOf
<1>18. Work(d, 0, st).dn = d /\ Work(d, 0, st).status = st
  BY WorkFields
<1> QED
  BY <1>11, <1>12, <1>17, <1>18

\* the largest number is next to the infinity
LEMMA LargestNext ==
    ASSUME IsContext(set), TinyExp < Etiny(set), NEW up \in BOOLEAN,
           NEW x, Valid(x), x.kind = "inf", x.neg = up
    PROVE  IsNextOf(x, up, MaxValue(up, set))
<1>1. Context(set)
  BY ContextHolds
<1>2. PICK q \in Int : q = TinyExp
  BY TinyExpAssumption
<1>3. PICK y \in Nat, h \in Int : y = powers[set.digits] - 1 /\ h = Etop(set) /\ q <= h
  <2>1. powers[set.digits] - 1 \in Nat
    BY <1>1, <1>2, HeaviestIs
  <2>2. Etop(set) \in Int /\ q <= Etop(set)
    BY <1>1, <1>2, ContextRange
  <2> QED
    BY <2>1, <2>2
<1>4. PICK d : d = MaxValue(up, set)
  OBVIOUS
<1>5. d.kind = "finite" /\ d.neg = up /\ d.coef = y /\ d.exp = h /\ Valid(d)
  BY <1>3, <1>4 DEF MaxValue, Finite, Valid, Numbers, Kinds, IsSpecial
<1>6. PICK z \in Nat : z = Weight(y, h, q)
  BY <1>3, NumberWeighs
<1>7. Multiple(d, q) \in Int /\ (up => Multiple(d, q) + z = 0) /\ (~up => Multiple(d, q) = z)
  <2>1. Size(d, q) = z
    BY <1>5, <1>6 DEF Size, Weight
  <2> QED
    BY <1>3, <1>5, <2>1, MultipleIs
<1>8. IF up THEN Below(x, d) ELSE Below(d, x)
  BY <1>5 DEF Below
<1>9. ASSUME NEW n \in Representable
      PROVE  IF up THEN ~Between(n, x, d) ELSE ~Between(n, d, x)
  <2>1. /\ Valid(n) /\ n.kind = "finite" /\ n.neg \in BOOLEAN /\ q <= n.exp
        /\ n.coef \in 0..(powers[set.digits] - 1) /\ n.exp \in Etiny(set)..Etop(set)
        /\ Multiple(n, q) \in Int
    BY <1>2, RepresentableIs
  <2>2. Size(n, q) <= z
    <3>1. Weight(n.coef, n.exp, q) <= z
      BY <1>1, <1>2, <1>3, <1>6, <2>1, HeaviestIs
    <3> QED
      BY <3>1 DEF Size, Weight
  <2>3. /\ n.coef \in Nat /\ n.exp \in Int
    BY <2>1, ValidFields
  <2>4. /\ Size(n, q) \in Nat
        /\ n.neg => Multiple(n, q) + Size(n, q) = 0
        /\ ~n.neg => Multiple(n, q) = Size(n, q)
    BY <2>1, <2>3, MultipleIs
  <2>5. (Below(n, d) <=> Multiple(n, q) < Multiple(d, q))
        /\ (Below(d, n) <=> Multiple(d, q) < Multiple(n, q))
    BY <1>3, <1>5, <2>1, BelowAt
  <2>6. CASE up
    <3>1. ~Below(n, d)
      BY <1>7, <2>1, <2>2, <2>4, <2>5, <2>6
    <3> QED
      BY <2>6, <3>1 DEF Between
  <2>7. CASE ~up
    <3>1. ~Below(d, n)
      BY <1>7, <2>1, <2>2, <2>4, <2>5, <2>7
    <3> QED
      BY <2>7, <3>1 DEF Between
  <2> QED
    BY <2>6, <2>7
<1> QED
  BY <1>4, <1>8, <1>9, Zenon DEF IsNextOf

LEMMA StepIsNext ==
    ASSUME IsContext(set), TinyExp < Etiny(set), NEW up \in BOOLEAN,
           NEW x, Valid(x), ~IsNaN(x), ~IsSpecial(x) => TinyExp <= x.exp
    PROVE  LET w == Step(x, up, set)
           IN  /\ w.status \cap NaNFlags = {}
               /\ IF x.kind = "inf" /\ x.neg # up THEN w.dn = x ELSE IsNextOf(x, up, w.dn)
<1>1. x.kind \in {"finite", "inf"} /\ x.neg \in BOOLEAN
  BY ValidFields DEF IsNaN, Kinds
<1>2. CASE x.kind = "finite"
  <2>1. Step(x, up, set) = InfinitesimalOff(x, up, set)
    BY <1>2 DEF Step
  <2>2. TinyExp <= x.exp
    BY <1>2 DEF IsSpecial
  <2>3. LET w == InfinitesimalOff(x, up, set)
        IN  IsNextOf(x, up, w.dn) /\ w.status \subseteq LossFlags
    BY <1>2, <2>2, InfinitesimalNext
  <2>4. x.kind # "inf"
    BY <1>2
  <2> QED
    BY <2>1, <2>3, <2>4, LossesAreNoNaNs
<1>3. CASE x.kind = "inf" /\ x.neg = up
  <2>1. Step(x, up, set) = Plain(MaxValue(up, set))
    BY <1>3 DEF Step
  <2>2. IsNextOf(x, up, MaxValue(up, set))
    BY <1>3, LargestNext
  <2> QED
    BY <1>3, <2>1, <2>2, PlainIs
<1>4. CASE x.kind = "inf" /\ x.neg # up
  <2>1. Step(x, up, set) = InfinitesimalOff(x, up, set)
    BY <1>4, Zenon DEF Step
  <2>2. InfinitesimalOff(x, up, set) = Plain(x)
    BY <1>4, Zenon DEF InfinitesimalOff
  <2> QED
    BY <1>4, <2>1, <2>2, PlainIs
<1> QED
  BY <1>1, <1>2, <1>3, <1>4

LEMMA TowardsIs ==
    ASSUME NEW cx, NEW x, NEW y, NEW c
    PROVE  /\ c # 0 => /\ Towards(c, x, y, cx).dn = Step(x, c < 0, cx).dn
                       /\ Towards(c, x, y, cx).status \subseteq Step(x, c < 0, cx).status
<1> SUFFICES ASSUME c # 0
             PROVE  /\ Towards(c, x, y, cx).dn = Step(x, c < 0, cx).dn
                    /\ Towards(c, x, y, cx).status \subseteq Step(x, c < 0, cx).status
  OBVIOUS
<1>1. \E n, rs, st : Step(x, c < 0, cx) = Work(n, rs, st)
  <2>1. \E n, rs, st : InfinitesimalOff(x, c < 0, cx) = Work(n, rs, st)
    BY Zenon DEF InfinitesimalOff, Plain
  <2> QED
    BY <2>1, Zenon DEF Step, Plain
<1>2. PICK n, rs, st : Step(x, c < 0, cx) = Work(n, rs, st)
  BY <1>1
<1>3. Towards(c, x, y, cx) = QuietIfNormal(Work(n, rs, st), cx)
  BY <1>2, Zenon DEF Towards
<1>4. [Work(n, rs, st) EXCEPT !.status = {}] = Work(n, rs, {})
  BY DEF Work
<1>5. \/ Towards(c, x, y, cx) = Work(n, rs, {})
      \/ Towards(c, x, y, cx) = Work(n, rs, st)
  BY <1>3, <1>4, Zenon DEF QuietIfNormal
<1> QED
  BY <1>2, <1>5, WorkFields

LEMMA NextsAreNeighbours == CallIs => NextIsNeighbour
<1> SUFFICES ASSUME CallIs, Is({"NextPlus", "NextMinus", "NextToward"}), Numbers2, Moves,
                    InfinitesimalServes
             PROVE  IF l.kind = "inf" /\ l.neg # Upwards THEN res = l ELSE IsNextOf(l, Upwards, res)
  BY Zenon DEF NextIsNeighbour, IsNextOf
<1>1. /\ Reported /\ call.routine \notin Binarily
      /\ call.routine \in {"NextPlus", "NextMinus", "NextToward"}
  BY DEF Is, Binarily
<1>2. Valid(l) /\ Valid(r) /\ IsContext(set) /\ ~IsNaN(l) /\ ~IsNaN(r)
  BY <1>1, Ends DEF Operands, Numbers2
<1>3. PICK w : Outcome(w) /\ status = w.status /\ res = AfterStatus(w.dn, w.status)
  BY <1>1, Ends
<1>4. ASSUME NEW up \in BOOLEAN, w.dn = Step(l, up, set).dn,
             w.status \subseteq Step(l, up, set).status
      PROVE  IF l.kind = "inf" /\ l.neg # up THEN res = l ELSE IsNextOf(l, up, res)
  <2>1. LET x == Step(l, up, set)
        IN  /\ x.status \cap NaNFlags = {}
            /\ IF l.kind = "inf" /\ l.neg # up THEN x.dn = l ELSE IsNextOf(l, up, x.dn)
    BY <1>2, StepIsNext DEF InfinitesimalServes
  <2>2. w.status \cap NaNFlags = {}
    BY <1>4, <2>1
  <2>3. res = Step(l, up, set).dn
    BY <1>3, <1>4, <2>2, NoNaNFlag
  <2> QED
    BY <2>1, <2>3
<1>5. ASSUME NEW up \in BOOLEAN, w = Next1(l, up, set)
      PROVE  w.dn = Step(l, up, set).dn /\ w.status \subseteq Step(l, up, set).status
  <2>1. PICK n, rs, st : Step(l, up, set) = Work(n, rs, st)
    <3>1. \E n, rs, st : InfinitesimalOff(l, up, set) = Work(n, rs, st)
      BY Zenon DEF InfinitesimalOff, Plain
    <3> QED
      BY <3>1, Zenon DEF Step, Plain
  <2>2. [Work(n, rs, st) EXCEPT !.status = {}] = Work(n, rs, {})
    BY DEF Work
  <2>3. w = Work(n, rs, {})
    BY <1>2, <1>5, <2>1, <2>2, Zenon DEF Next1
  <2> QED
    BY <2>1, <2>3, WorkFields
<1>6. CASE call.routine = "NextPlus"
  <2>1. w = NextPlus(l, set)
    BY <1>3, <1>6 DEF Outcome, OutcomeOfOrder, OutcomeOfCopy, OutcomeOfExponent, OutcomeOfDigits,
                      Textual
  <2>2. w = Next1(l, TRUE, set) /\ Upwards
    BY <1>6, <2>1 DEF NextPlus, Upwards
  <2>3. PICK up \in BOOLEAN : up = TRUE
    OBVIOUS
  <2>4. w = Next1(l, up, set) /\ Upwards = up
    BY <2>2, <2>3, Zenon
  <2>5. IF l.kind = "inf" /\ l.neg # up THEN res = l ELSE IsNextOf(l, up, res)
    BY <1>4, <1>5, <2>4
  <2> QED
    BY <2>4, <2>5, Zenon
<1>7. CASE call.routine = "NextMinus"
  <2>1. w = NextMinus(l, set)
    BY <1>3, <1>7 DEF Outcome, OutcomeOfOrder, OutcomeOfCopy, OutcomeOfExponent, OutcomeOfDigits,
                      Textual
  <2>2. w = Next1(l, FALSE, set) /\ ~Upwards
    BY <1>7, <2>1 DEF NextMinus, Upwards
  <2>3. PICK up \in BOOLEAN : up = FALSE
    OBVIOUS
  <2>4. w = Next1(l, up, set) /\ Upwards = up
    BY <2>2, <2>3, Zenon DEF Upwards
  <2>5. IF l.kind = "inf" /\ l.neg # up THEN res = l ELSE IsNextOf(l, up, res)
    BY <1>4, <1>5, <2>4
  <2> QED
    BY <2>4, <2>5, Zenon
<1>8. CASE call.routine = "NextToward"
  <2>1. w = NextToward(l, r, set)
    BY <1>3, <1>8 DEF Outcome, OutcomeOfOrder, OutcomeOfCopy, OutcomeOfExponent, OutcomeOfDigits,
                      Textual
  <2>2. PICK c : c = ByValue(l, r)
    OBVIOUS
  <2>3. w = Towards(c, l, r, set)
    BY <1>2, <2>1, <2>2, Zenon DEF NextToward, ByValue
  <2>4. c = Ordering(l, r) /\ ~(Below(l, r) /\ Below(r, l)) /\ (Below(l, r) \/ Below(r, l))
    BY <1>2, <1>8, <2>2, CompareSound DEF Moves
  <2>5. c \in Int /\ c # 0 /\ (c < 0 <=> Below(l, r)) /\ (Upwards <=> Below(l, r))
    BY <1>8, <2>4 DEF Ordering, Upwards
  <2>6. PICK up \in BOOLEAN : up = (c < 0) /\ Upwards = up
    <3>1. CASE c < 0
      <4>1. (c < 0) = TRUE
        BY <3>1, SMT
      <4>2. Upwards = TRUE
        BY <2>5, <3>1, Zenon DEF Upwards
      <4> QED
        BY <4>1, <4>2, Zenon
    <3>2. CASE ~(c < 0)
      <4>1. (c < 0) = FALSE
        BY <3>2, SMT
      <4>2. Upwards = FALSE
        BY <2>5, <3>2, Zenon DEF Upwards
      <4> QED
        BY <4>1, <4>2, Zenon
    <3> QED
      BY <3>1, <3>2
  <2>7. w.dn = Step(l, up, set).dn /\ w.status \subseteq Step(l, up, set).status
    <3>1. /\ w.dn = Step(l, c < 0, set).dn
          /\ w.status \subseteq Step(l, c < 0, set).status
      BY <2>3, <2>5, TowardsIs, Zenon
    <3> QED
      BY <2>6, <3>1, Zenon
  <2>8. IF l.kind = "inf" /\ l.neg # up THEN res = l ELSE IsNextOf(l, up, res)
    BY <1>4, <2>7
  <2> QED
    BY <2>6, <2>8, Zenon
<1> QED
  BY <1>1, <1>6, <1>7, <1>8

\* Nothing that the context can hold lies between an operand and the successor or
\* predecessor delivered for it, which differs from it in the direction asked for:
\* NextPlus, NextMinus, NextToward, whenever the infinitesimal serves.
THEOREM NextFindsNeighbour == Spec => []NextIsNeighbour
<1>1. Spec => []CallIs
  BY CallInvariant
<1>2. CallIs => NextIsNeighbour
  BY NextsAreNeighbours
<1> QED
  BY <1>1, <1>2, PTL

(***************************************************************************)
(* A number is made up of its digits.                                      *)
(***************************************************************************)
LEMMA DigitIsField ==
    ASSUME NEW c \in Nat, NEW i \in Nat
    PROVE  DigitAt(c, i) = Field(c, i, 1) /\ DigitAt(c, i) \in 0..9
<1>1. powers[1] = 10
  <2>1. powers[0 + 1] = 10 * powers[0] /\ powers[0] = 1 /\ 0 + 1 = 1
    BY PowersFacts
  <2> QED
    BY <2>1
<1>2. DigitAt(c, i) = Field(c, i, 1)
  BY <1>1 DEF DigitAt, Field
<1>3. Field(c, i, 1) \in Nat /\ Field(c, i, 1) < 10
  BY <1>1, FieldIs
<1> QED
  BY <1>2, <1>3

LEMMA FromDigitsIs ==
    ASSUME NEW c \in Nat, NEW n \in Nat
    PROVE  FromDigits([i \in 1..n |-> DigitAt(c, i - 1)]) = c % powers[n]
<1> DEFINE u == [i \in 1..n |-> DigitAt(c, i - 1)]
           Good == {k \in 0..n : Worth(10, u)[k] = c % powers[k]}
<1>1. \A k \in 1..n : DigitAt(c, k - 1) = Field(c, k - 1, 1) /\ DigitAt(c, k - 1) \in Nat
  BY DigitIsField
<1>2. /\ u \in Seq(Nat) /\ Len(u) = n /\ DOMAIN u = 1..n
      /\ \A k \in 1..n : u[k] = Field(c, k - 1, 1)
  BY <1>1
<1> HIDE DEF u
<1>3. PICK ten \in Nat : ten = 10
  OBVIOUS
<1>4. FromDigits(u) = Worth(10, u)[n] /\ NatItems(u)
  <2>1. Number(ten, u) = Worth(ten, u)[Len(u)] /\ NatItems(u)
    BY <1>2, <1>3, NumberWorth
  <2> QED
    BY <1>2, <1>3, <2>1 DEF FromDigits
<1>5. 0 \in Good
  <2>1. Worth(ten, u)[0] = 0 /\ \A k \in Nat : Worth(ten, u)[k] \in Nat
    BY <1>3, <1>4, WorthZero
  <2>2. powers[0] = 1 /\ c % 1 = 0
    BY PowersFacts
  <2> QED
    BY <1>3, <2>1, <2>2
<1>6. ASSUME NEW k \in 1..n, k - 1 \in Good PROVE k \in Good
  <2>1. PICK j \in Nat : j = k - 1 /\ k \in Nat \ {0} /\ k \in 0..n /\ k = j + 1
    OBVIOUS
  <2>2. Worth(ten, u)[k] = Worth(ten, u)[k - 1] + Item(u, k) * Power(ten)[k - 1]
    BY <1>3, <1>4, <2>1, WorthStep
  <2>3. Power(ten)[j] = powers[j]
    BY <1>3, PowerOfTen
  <2>4. Item(u, k) = Field(c, j, 1)
    BY <1>2, <2>1 DEF Item
  <2>5. Worth(ten, u)[j] = c % powers[j]
    BY <1>3, <1>6, <2>1
  <2>6. /\ c \div powers[j + 1] = (c \div powers[j]) \div powers[1]
        /\ c % powers[j + 1] = Field(c, j, 1) * powers[j] + (c % powers[j])
    BY TwoCuts
  <2>7. PICK x \in Nat : x = Field(c, j, 1)
    BY FieldIs
  <2>8. PICK y \in Nat : y = c % powers[j]
    BY FieldIs
  <2>9. PICK p \in Nat \ {0} : p = powers[j]
    BY PowerPick
  <2>10. Worth(ten, u)[k] = y + x * p
    BY <2>1, <2>2, <2>3, <2>4, <2>5, <2>7, <2>8, <2>9, Zenon
  <2>11. c % powers[k] = x * p + y
    BY <2>1, <2>6, <2>7, <2>8, <2>9, Zenon
  <2>12. y + x * p = x * p + y
    OBVIOUS
  <2> QED
    BY <1>3, <2>1, <2>10, <2>11, <2>12
<1> HIDE DEF Good
<1>7. \A k \in 0..n : k \in Good
  BY <1>5, <1>6, Climb
<1>8. n \in Good
  BY <1>7
<1> QED
  BY <1>4, <1>8 DEF Good, u

(***************************************************************************)
(* decNumberRotate, step by step.  To the right by n of p digits: the low  *)
(* n digits come to stand above the others.                                *)
(***************************************************************************)
Turned(c, p, n) == (c % powers[n]) * powers[p - n] + (c \div powers[n])

LEMMA TurnedIs ==
    ASSUME NEW p \in Nat, NEW c \in Nat, c < powers[p], NEW n \in 0..p
    PROVE  /\ Turned(c, p, n) \in Nat /\ Turned(c, p, n) < powers[p]
           /\ c \div powers[n] \in Nat /\ c \div powers[n] < powers[p - n]
           /\ c % powers[n] \in Nat /\ c % powers[n] < powers[n]
<1>1. PICK m \in Nat : m = p - n /\ n \in Nat /\ n + m = p
  OBVIOUS
<1>2. PICK hi \in Nat : hi = c \div powers[n] /\ hi < powers[m]
  BY <1>1, QuotientIn
<1>3. PICK lo \in Nat : lo = c % powers[n] /\ lo < powers[n]
  BY <1>1, FieldIs
<1>4. /\ lo * powers[m] + hi \in Nat
      /\ (lo * powers[m] + hi) \div powers[m] = lo /\ (lo * powers[m] + hi) % powers[m] = hi
  BY <1>2, Stacked
<1>5. lo * powers[m] + hi < powers[n + m]
  BY <1>1, <1>2, <1>3, StackedBelow
<1> QED
  BY <1>1, <1>2, <1>3, <1>4, <1>5 DEF Turned

LEMMA PartialTurnIs ==
    ASSUME NEW p \in Nat \ {0}, NEW c \in Nat, c < powers[p],
           NEW s \in 0..(DPUN - 1), s < p
    PROVE  PartialTurn(ToUnits(c, D2U(p)), s, MSUDigits(p)) = ToUnits(Turned(c, p, s), D2U(p))
<1>1. PICK j \in Nat, msud \in 1..DPUN :
          D2U(p) = j + 1 /\ MSUDigits(p) = msud /\ p = DPUN * j + msud
  BY FirstUnit
<1>2. PICK n \in Nat \ {0} : n = j + 1 /\ n = D2U(p)
  BY <1>1
<1>3. PICK w \in Nat \ {0} : w = DPUN /\ s \in Nat /\ s < w /\ msud \in Nat /\ msud <= w
                             /\ msud >= 1
  BY UnitBase
<1>4. PICK t \in Nat : t = DPUN * j /\ DPUN * n = t + w /\ p = t + msud /\ DPUN * (n - 1) = t
  BY <1>1, <1>2, <1>3
<1>5. c < powers[DPUN * n]
  <2>1. powers[p] <= powers[t + w] /\ powers[p] \in Nat /\ powers[t + w] \in Nat
    BY <1>3, <1>4, PowersGrow, PowersFacts
  <2> QED
    BY <1>4, <2>1
<1>6. PICK u : u = ToUnits(c, n) /\ u \in Arrays /\ Len(u) = n
  BY ToUnitsIs
<1>7. \A k \in 1..n : u[k] = Field(c, DPUN * (k - 1), DPUN)
  BY <1>6, UnitsAreFields
<1>8. CASE s = 0
  <2>1. Turned(c, p, 0) = c
    <3>1. powers[0] = 1 /\ c % 1 = 0 /\ c \div 1 = c /\ p - 0 = p /\ powers[p] \in Nat
      BY PowersFacts
    <3> QED
      BY <3>1 DEF Turned
  <2>2. PartialTurn(u, s, msud) = u
    BY <1>8 DEF PartialTurn
  <2> QED
    BY <1>1, <1>2, <1>6, <1>8, <2>1, <2>2
<1>9. CASE s # 0
  <2>1. PICK m \in Nat : m = p - s /\ m + s = p
    BY <1>3
  <2>2. PICK hi \in Nat : hi = c \div powers[s] /\ hi < powers[m]
    BY <1>3, <2>1, TurnedIs
  <2>3. PICK lo \in Nat : lo = c % powers[s] /\ lo < powers[s]
    BY <1>3, TurnedIs
  <2>4. PICK v \in Nat : v = lo * powers[m] + hi /\ v = Turned(c, p, s)
    BY <1>3, <2>1, <2>2, <2>3, TurnedIs DEF Turned
  <2>5. u[1] % powers[s] = lo
    <3>1. PICK i \in Nat : i = DPUN * (1 - 1) /\ i = 0
      BY <1>3
    <3>2. u[1] = Field(c, 0, w)
      BY <1>2, <1>3, <1>7, <3>1
    <3>3. s \in 0..w
      BY <1>3
    <3>4. Field(c, i, w) % powers[s] = Field(c, i, s)
      BY <3>3, FieldParts
    <3>5. Field(c, 0, s) = c % powers[s]
      BY PowersFacts DEF Field
    <3> QED
      BY <2>3, <3>1, <3>2, <3>4, <3>5
  <2>6. PICK down : /\ down = ShiftToLeast(u, n, s)
                    /\ down = [k \in 1..n |-> Field(hi, DPUN * (k - 1), DPUN)]
    <3>1. s \in Nat \ {0} /\ s < DPUN * n /\ LowUnitsHold(u, n, c)
      BY <1>2, <1>3, <1>4, <1>5, <1>6, <1>7, <1>9 DEF LowUnitsHold
    <3>2. ShiftToLeast(u, n, s)
              = [k \in 1..Len(u) |->
                     IF DPUN * (k - 1) < DPUN * n - s
                     THEN Field(c, DPUN * (k - 1) + s, DPUN) ELSE u[k]]
      <4>1. ShiftToLeast(u, n, s) = Lowered(u, n, c, s)
        BY <3>1, ShiftDownIs, Zenon
      <4> QED
        BY <4>1, Zenon DEF Lowered
    <3>3. ASSUME NEW k \in 1..n
          PROVE  (IF DPUN * (k - 1) < DPUN * n - s
                  THEN Field(c, DPUN * (k - 1) + s, DPUN) ELSE u[k])
                 = Field(hi, DPUN * (k - 1), DPUN)
      <4>1. PICK i \in Nat : i = DPUN * (k - 1) /\ DPUN * k = i + w
        BY <1>3, UnitPlace
      <4>2. DPUN * k <= DPUN * n /\ DPUN * n \in Nat
        BY <1>3, <1>4, MulGrows
      <4>3. i < DPUN * n - s
        BY <1>3, <4>1, <4>2
      <4>4. Field(c \div powers[s], i, w) = Field(c, i + s, w)
        BY <1>3, FieldDown
      <4> QED
        BY <1>3, <2>2, <4>1, <4>3, <4>4
    <3> QED
      BY <1>6, <3>2, <3>3
  <2>7. ASSUME NEW k \in 1..n, DPUN * k <= m
        PROVE  Field(v, DPUN * (k - 1), DPUN) = Field(hi, DPUN * (k - 1), DPUN)
    <3>1. PICK i \in Nat : i = DPUN * (k - 1) /\ DPUN * k = i + w
      BY <1>3, UnitPlace
    <3>2. Field(lo * powers[m] + hi, i, w) = Field(hi, i, w)
      BY <2>2, <2>7, <3>1, FieldBelow
    <3> QED
      BY <1>3, <2>4, <3>1, <3>2
  <2>8. CASE s <= msud
    <3>1. PICK a \in Nat : a = msud - s /\ -(s - msud) = a /\ m = t + a
      BY <1>3, <1>4, <2>1, <2>8
    <3>2. Field(v, t, w) = Field(hi, t, w) + lo * powers[a]
      <4>1. t <= m /\ m <= t + w /\ m - t = a
        BY <1>3, <3>1
      <4>2. PICK b \in Nat : b = w - (m - t) /\ s <= b
        BY <1>3, <3>1, <2>8
      <4>3. Field(lo * powers[m] + hi, t, w)
                = Field(hi, t, w) + (lo % powers[w - (m - t)]) * powers[m - t]
        BY <2>2, <4>1, Straddle
      <4>4. lo < powers[b]
        <5>1. powers[s] <= powers[b] /\ powers[s] \in Nat /\ powers[b] \in Nat
          BY <1>3, <4>2, PowersGrow, PowersFacts
        <5> QED
          BY <2>3, <5>1
      <4>5. lo % powers[b] = lo
        BY <4>4, RestOfSmall
      <4> QED
        BY <2>4, <4>1, <4>2, <4>3, <4>5
    <3>3. PartialTurn(u, s, msud) = [down EXCEPT ![n] = @ + lo * powers[a]]
      <4>1. ~(s - msud > 0) /\ s # 0
        BY <1>3, <1>9, <2>8
      <4> QED
        BY <1>6, <2>5, <2>6, <3>1, <4>1, Zenon DEF PartialTurn
    <3>4. ASSUME NEW k \in 1..n
          PROVE  [down EXCEPT ![n] = @ + lo * powers[a]][k] = Field(v, DPUN * (k - 1), DPUN)
      <4>1. CASE k = n
        <5>1. [down EXCEPT ![n] = @ + lo * powers[a]][n] = down[n] + lo * powers[a]
          BY <1>2, <2>6
        <5>2. down[n] = Field(hi, t, w)
          BY <1>2, <1>3, <1>4, <2>6
        <5> QED
          BY <1>3, <1>4, <3>2, <4>1, <5>1, <5>2
      <4>2. CASE k # n
        <5>1. [down EXCEPT ![n] = @ + lo * powers[a]][k] = Field(hi, DPUN * (k - 1), DPUN)
          BY <2>6, <4>2
        <5>2. k <= j
          BY <1>2, <4>2
        <5>3. DPUN * k <= DPUN * j
          BY <1>3, <5>2, MulGrows
        <5>4. DPUN * k <= m
          BY <1>3, <1>4, <3>1, <5>3
        <5> QED
          BY <2>7, <5>1, <5>4
      <4> QED
        BY <4>1, <4>2
    <3>5. [down EXCEPT ![n] = @ + lo * powers[a]]
              = [k \in 1..n |-> Field(v, DPUN * (k - 1), DPUN)]
      <4>1. [down EXCEPT ![n] = @ + lo * powers[a]]
                = [k \in 1..n |-> [down EXCEPT ![n] = @ + lo * powers[a]][k]]
        BY <2>6
      <4> QED
        BY <3>4, <4>1, Zenon
    <3>6. ToUnits(v, n) = [k \in 1..n |-> Field(v, DPUN * (k - 1), DPUN)]
      BY DEF ToUnits, Field, Base
    <3> QED
      BY <1>1, <1>2, <1>6, <2>4, <3>3, <3>5, <3>6, Zenon
  <2>9. CASE s > msud
    <3>1. PICK over \in Nat \ {0} : over = s - msud /\ over < w /\ over <= s
      BY <1>3, <2>9
    <3>2. j # 0
      BY <1>1, <1>3, <1>4, <2>9
    <3>3. PICK h \in Nat \ {0} : h = j /\ n - 1 = h /\ h # n /\ h \in 1..n
      BY <1>2, <3>2
    <3>4. PICK g \in Nat : g = DPUN * (h - 1) /\ t = g + w
      BY <1>3, <1>4, <3>3, UnitPlace
    <3>5. PICK a \in Nat : a = DPUN - over /\ a = m - g /\ g <= m /\ m <= g + w
                           /\ w - (m - g) = over /\ m + over = t
      BY <1>3, <1>4, <2>1, <3>1, <3>4
    <3>6. Field(v, g, w) = Field(hi, g, w) + (lo % powers[over]) * powers[a]
      <4>1. Field(lo * powers[m] + hi, g, w)
                = Field(hi, g, w) + (lo % powers[w - (m - g)]) * powers[m - g]
        BY <2>2, <3>5, Straddle
      <4> QED
        BY <2>4, <3>5, <4>1
    <3>7. Field(v, t, w) = lo \div powers[over]
      <4>1. Field(lo * powers[m] + hi, over + m, w) = Field(lo, over, w)
        BY <2>2, <3>1, FieldAbove
      <4>2. s <= over + w
        BY <1>3, <3>1
      <4>3. /\ s <= over => lo \div powers[over] = 0 /\ Field(lo, over, w) = 0
            /\ s <= over + w => Field(lo, over, w) = lo \div powers[over]
        BY <1>3, <2>3, <3>1, FieldBeyond
      <4>4. over + m = t
        BY <3>5
      <4> QED
        BY <2>4, <4>1, <4>2, <4>3, <4>4
    <3> DEFINE f == [down EXCEPT ![n] = lo \div powers[over],
                                 ![n - 1] = @ + (lo % powers[over]) * powers[DPUN - over]]
    <3>8. PartialTurn(u, s, msud) = f
      <4>1. s - msud > 0 /\ s # 0
        BY <1>3, <1>9, <2>9
      <4> QED
        BY <1>6, <2>5, <2>6, <3>1, <4>1, Zenon DEF PartialTurn
    <3>9. /\ f = [k \in 1..n |-> f[k]]
          /\ f[n] = lo \div powers[over]
          /\ f[h] = down[h] + (lo % powers[over]) * powers[a]
          /\ \A k \in 1..n : k # n /\ k # h => f[k] = down[k]
      <4>1. PICK x : x = lo \div powers[over]
        OBVIOUS
      <4>2. PICK y : y = (lo % powers[over]) * powers[DPUN - over]
        OBVIOUS
      <4>3. f = [down EXCEPT ![n] = x, ![h] = @ + y]
        BY <3>3, <4>1, <4>2, Zenon
      <4>4. DOMAIN down = 1..n /\ down = [k \in 1..n |-> down[k]]
        BY <2>6
      <4>5. [down EXCEPT ![n] = x, ![h] = @ + y]
                = [k \in 1..n |-> IF k = h THEN down[h] + y ELSE IF k = n THEN x ELSE down[k]]
        BY <3>3, <4>4
      <4>6. n \in 1..n
        BY <1>2
      <4>7. /\ f = [k \in 1..n |-> f[k]] /\ f[n] = x /\ f[h] = down[h] + y
            /\ \A k \in 1..n : k # n /\ k # h => f[k] = down[k]
        <5>1. f = [k \in 1..n |-> IF k = h THEN down[h] + y ELSE IF k = n THEN x ELSE down[k]]
          BY <4>3, <4>5, Zenon
        <5> HIDE DEF f
        <5> QED
          BY <3>3, <4>6, <5>1
      <4> QED
        BY <3>5, <4>1, <4>2, <4>7, Zenon
    <3> HIDE DEF f
    <3>10. ASSUME NEW k \in 1..n PROVE f[k] = Field(v, DPUN * (k - 1), DPUN)
      <4>1. CASE k = n
        BY <1>3, <1>4, <3>7, <3>9, <4>1
      <4>2. CASE k = h
        BY <1>3, <2>6, <3>3, <3>4, <3>6, <3>9, <4>2
      <4>3. CASE k # n /\ k # h
        <5>1. f[k] = Field(hi, DPUN * (k - 1), DPUN)
          BY <2>6, <3>9, <4>3
        <5>2. k <= h - 1 /\ h - 1 \in Nat
          BY <3>3, <4>3
        <5>3. DPUN * k <= DPUN * (h - 1)
          BY <1>3, <5>2, MulGrows
        <5>4. DPUN * k <= m
          BY <1>3, <3>4, <3>5, <5>3
        <5> QED
          BY <2>7, <5>1, <5>4
      <4> QED
        BY <4>1, <4>2, <4>3
    <3>11. f = [k \in 1..n |-> Field(v, DPUN * (k - 1), DPUN)]
      BY <3>9, <3>10, Zenon
    <3>12. ToUnits(v, n) = [k \in 1..n |-> Field(v, DPUN * (k - 1), DPUN)]
      BY DEF ToUnits, Field, Base
    <3> QED
      BY <1>1, <1>2, <1>6, <2>4, <3>8, <3>11, <3>12, Zenon
  <2> QED
    BY <1>3, <2>8, <2>9
<1> QED
  BY <1>8, <1>9

\* what is left of the split holds the low Units' digits without the last ones,
\* which stand above the first digit of the others
LEMMA AlignTurnIs ==
    ASSUME NEW p \in Nat \ {0}, NEW c \in Nat, c < powers[p],
           NEW whole \in Nat \ {0}, DPUN * whole < p
    PROVE  LET n    == D2U(p)
               sh   == DPUN - MSUDigits(p)
               hi   == c \div powers[DPUN * whole]
               over == (c % powers[sh]) * powers[p - DPUN * whole] + hi
               low  == (c % powers[DPUN * whole]) \div powers[sh]
           IN  /\ n - whole \in Nat \ {0}
               /\ AlignTurn(ToUnits(c, n), whole, MSUDigits(p))
                      = [k \in 1..n |-> IF k <= whole THEN Field(low, DPUN * (k - 1), DPUN)
                                        ELSE Field(over, DPUN * (k - whole - 1), DPUN)]
<1>1. PICK j \in Nat, msud \in 1..DPUN :
          D2U(p) = j + 1 /\ MSUDigits(p) = msud /\ p = DPUN * j + msud
  BY FirstUnit
<1>2. PICK n \in Nat \ {0} : n = j + 1 /\ n = D2U(p)
  BY <1>1
<1>3. PICK w \in Nat \ {0} : w = DPUN /\ msud \in Nat /\ msud <= w /\ msud >= 1
  BY UnitBase
<1>4. PICK d \in Nat \ {0} : d = DPUN * whole /\ w <= d
  <2>1. DPUN * 1 <= DPUN * whole /\ DPUN * whole \in Nat
    BY <1>3, MulGrows
  <2> QED
    BY <1>3, <2>1
<1>5. whole <= j
  <2>1. ASSUME j + 1 <= whole PROVE FALSE
    <3>1. DPUN * (j + 1) <= DPUN * whole
      BY <1>3, <2>1, MulGrows
    <3>2. DPUN * (j + 1) = DPUN * j + w /\ DPUN * j \in Nat
      BY <1>3
    <3> QED
      BY <1>1, <1>3, <3>1, <3>2
  <2> QED
    BY <2>1
<1>6. PICK q \in Nat : q = j - whole /\ n - whole = q + 1
  BY <1>2, <1>5
<1>7. PICK t \in Nat : t = DPUN * q /\ DPUN * j = t + d
  BY <1>3, <1>4, <1>6
<1>8. PICK m \in Nat : m = p - d /\ m = t + msud
  BY <1>1, <1>3, <1>7
<1>9. PICK sh \in Nat : sh = DPUN - msud /\ sh < w /\ sh <= d /\ m + sh = t + w
  BY <1>3, <1>4, <1>8
<1>10. PICK rest \in Nat : rest = c % powers[d] /\ rest < powers[d]
  BY FieldIs
<1>11. PICK hi \in Nat : hi = c \div powers[d] /\ hi < powers[m]
  <2>1. d + m = p
    BY <1>1, <1>3, <1>7, <1>8
  <2> QED
    BY <2>1, QuotientIn
<1>12. PICK lo \in Nat : lo = c % powers[sh] /\ lo < powers[sh]
  BY FieldIs
<1>13. PICK over \in Nat : over = lo * powers[m] + hi
  BY <1>11, Stacked
<1>14. PICK low \in Nat : low = rest \div powers[sh]
  BY <1>10, FieldIs
<1>15. DPUN * n = t + d + w
  BY <1>2, <1>3, <1>7
<1>16. PICK u : u = ToUnits(c, n) /\ u \in Arrays /\ Len(u) = n /\ DOMAIN u = 1..n
  BY ToUnitsIs, UnitsAreFields
<1>17. \A k \in 1..n : u[k] = Field(c, DPUN * (k - 1), DPUN)
  BY <1>16, UnitsAreFields
<1>18. ASSUME NEW k \in 1..whole
       PROVE  /\ u[k] = Field(rest, DPUN * (k - 1), DPUN)
              /\ DPUN * (k - 1) < d - sh
  <2>1. PICK i \in Nat : i = DPUN * (k - 1) /\ DPUN * k = i + w
    BY <1>3, UnitPlace
  <2>2. DPUN * k <= d
    BY <1>3, <1>4, MulGrows
  <2>3. Field(c % powers[d], i, w) = Field(c, i, w)
    BY <2>1, <2>2, FieldOfRest
  <2>4. k \in 1..n
    BY <1>2, <1>5
  <2> QED
    BY <1>3, <1>9, <1>10, <1>17, <2>1, <2>2, <2>3, <2>4
<1>19. ASSUME NEW k \in 1..n, k > whole
       PROVE  /\ u[k] = Field(hi, DPUN * (k - whole - 1), DPUN)
              /\ ~(DPUN * (k - 1) < d - sh)
              /\ k - whole \in Nat \ {0}
  <2>1. PICK g \in Nat \ {0} : g = k - whole
    BY <1>19
  <2>2. PICK i \in Nat : i = DPUN * (g - 1)
    BY UnitPlace
  <2>3. DPUN * (k - 1) = i + d
    BY <1>3, <1>4, <2>1, <2>2
  <2>4. Field(c \div powers[d], i, w) = Field(c, i + d, w)
    BY FieldDown
  <2> QED
    BY <1>3, <1>9, <1>11, <1>17, <2>1, <2>2, <2>3, <2>4
<1>20. ASSUME NEW k \in 1..n, k > whole, k # n
       PROVE  Field(over, DPUN * (k - whole - 1), DPUN) = Field(hi, DPUN * (k - whole - 1), DPUN)
  <2>1. PICK g \in Nat \ {0} : g = k - whole /\ g <= q
    BY <1>6, <1>20
  <2>2. PICK i \in Nat : i = DPUN * (g - 1) /\ DPUN * g = i + w
    BY <1>3, UnitPlace
  <2>3. DPUN * g <= t
    BY <1>3, <1>7, <2>1, MulGrows
  <2>4. i + w <= m
    BY <1>3, <1>8, <2>2, <2>3
  <2>5. Field(lo * powers[m] + hi, i, w) = Field(hi, i, w)
    BY <1>11, <2>4, FieldBelow
  <2> QED
    BY <1>3, <1>13, <2>1, <2>2, <2>5
<1>21. Field(over, t, w) = Field(hi, t, w) + lo * powers[msud]
  <2>1. t <= m /\ m <= t + w /\ m - t = msud /\ w - (m - t) = sh
    BY <1>3, <1>8, <1>9
  <2>2. Field(lo * powers[m] + hi, t, w)
            = Field(hi, t, w) + (lo % powers[w - (m - t)]) * powers[m - t]
    BY <1>11, <2>1, Straddle
  <2>3. lo % powers[sh] = lo
    BY <1>12, RestOfSmall
  <2> QED
    BY <1>13, <2>1, <2>2, <2>3
<1> DEFINE v == [k \in 1..n |-> IF k <= whole THEN Field(low, DPUN * (k - 1), DPUN)
                                ELSE Field(over, DPUN * (k - whole - 1), DPUN)]
<1>22. AlignTurn(u, whole, msud) = v
  <2>1. CASE sh = 0
    <3>1. AlignTurn(u, whole, msud) = u
      BY <1>9, <2>1 DEF AlignTurn
    <3>2. powers[0] = 1 /\ powers[m] \in Nat
      BY PowersFacts
    <3>3. low = rest /\ lo = 0
      BY <1>12, <1>14, <2>1, <3>2
    <3>4. over = hi
      BY <1>13, <3>2, <3>3
    <3>5. ASSUME NEW k \in 1..n PROVE u[k] = v[k]
      <4>1. CASE k <= whole
        BY <1>18, <3>3, <4>1
      <4>2. CASE ~(k <= whole)
        BY <1>19, <3>4, <4>2
      <4> QED
        BY <4>1, <4>2
    <3>6. u = [k \in 1..n |-> u[k]]
      BY <1>16 DEF Arrays
    <3> HIDE DEF v
    <3>7. v = [k \in 1..n |-> v[k]]
      BY DEF v
    <3>8. u = v
      BY <3>5, <3>6, <3>7, Zenon
    <3> QED
      BY <3>1, <3>8
  <2>2. CASE sh # 0
    <3>1. PICK down : /\ down = ShiftToLeast(u, whole, sh)
                      /\ down = [k \in 1..n |-> IF k <= whole THEN Field(low, DPUN * (k - 1), DPUN)
                                                ELSE u[k]]
      <4>1. sh \in Nat \ {0} /\ sh < DPUN * whole
        BY <1>3, <1>4, <1>9, <2>2
      <4>2. LowUnitsHold(u, whole, rest)
        BY <1>2, <1>4, <1>5, <1>10, <1>16, <1>18 DEF LowUnitsHold
      <4>3. ShiftToLeast(u, whole, sh)
                = [k \in 1..Len(u) |->
                       IF DPUN * (k - 1) < DPUN * whole - sh
                       THEN Field(rest, DPUN * (k - 1) + sh, DPUN) ELSE u[k]]
        <5>1. ShiftToLeast(u, whole, sh) = Lowered(u, whole, rest, sh)
          BY <4>1, <4>2, ShiftDownIs, Zenon
        <5> QED
          BY <5>1, Zenon DEF Lowered
      <4>4. ASSUME NEW k \in 1..n
            PROVE  (IF DPUN * (k - 1) < DPUN * whole - sh
                    THEN Field(rest, DPUN * (k - 1) + sh, DPUN) ELSE u[k])
                   = (IF k <= whole THEN Field(low, DPUN * (k - 1), DPUN) ELSE u[k])
        <5>1. CASE k <= whole
          <6>0. k \in 1..whole /\ k \in Nat \ {0}
            BY <5>1
          <6>1. PICK i \in Nat : i = DPUN * (k - 1) /\ i < DPUN * whole - sh
            BY <1>4, <1>18, <6>0, UnitPlace
          <6>2. Field(rest \div powers[sh], i, w) = Field(rest, i + sh, w)
            BY FieldDown
          <6> QED
            BY <1>3, <1>14, <5>1, <6>1, <6>2
        <5>2. CASE ~(k <= whole)
          BY <1>4, <1>19, <5>2
        <5> QED
          BY <5>1, <5>2
      <4> QED
        BY <1>16, <4>3, <4>4
    <3>2. u[1] % powers[sh] = lo
      <4>1. 0 * w = 0 /\ DPUN * (1 - 1) = 0 /\ 1 \in 1..n /\ 0 \in Nat
        BY <1>2, <1>3
      <4>2. u[1] = Field(c, 0, w)
        BY <1>3, <1>17, <4>1
      <4>3. sh \in 0..w
        BY <1>9
      <4>4. PICK i \in Nat : i = 0
        OBVIOUS
      <4>5. Field(c, i, w) % powers[sh] = Field(c, i, sh)
        BY <4>3, FieldParts
      <4>6. Field(c, 0, sh) = c % powers[sh]
        BY PowersFacts DEF Field
      <4> QED
        BY <1>12, <4>2, <4>4, <4>5, <4>6
    <3>3. AlignTurn(u, whole, msud) = [down EXCEPT ![n] = @ + lo * powers[msud]]
      BY <1>9, <1>16, <2>2, <3>1, <3>2, Zenon DEF AlignTurn
    <3> DEFINE f == [down EXCEPT ![n] = @ + lo * powers[msud]]
    <3>4. /\ f = [k \in 1..n |-> f[k]]
          /\ f[n] = down[n] + lo * powers[msud]
          /\ \A k \in 1..n : k # n => f[k] = down[k]
      <4>1. PICK x : x = lo * powers[msud]
        OBVIOUS
      <4>2. f = [down EXCEPT ![n] = @ + x]
        BY <4>1, Zenon
      <4>3. DOMAIN down = 1..n /\ n \in 1..n
        BY <1>2, <3>1
      <4>4. [down EXCEPT ![n] = @ + x] = [k \in 1..n |-> IF k = n THEN down[n] + x ELSE down[k]]
        BY <4>3
      <4>5. f = [k \in 1..n |-> IF k = n THEN down[n] + x ELSE down[k]]
        BY <4>2, <4>4, Zenon
      <4> HIDE DEF f
      <4> QED
        BY <4>1, <4>3, <4>5
    <3> HIDE DEF f, v
    <3>5. ASSUME NEW k \in 1..n PROVE f[k] = v[k]
      <4>1. CASE k = n
        <5>1. n > whole /\ n \in 1..n /\ n - whole - 1 = q
          BY <1>2, <1>5, <1>6
        <5>2. down[n] = u[n]
          BY <1>2, <1>5, <3>1, <5>1
        <5>3. u[n] = Field(hi, t, w)
          BY <1>3, <1>7, <1>19, <5>1
        <5>4. v[n] = Field(over, t, w)
          BY <1>3, <1>5, <1>7, <5>1 DEF v
        <5> QED
          BY <1>21, <3>4, <4>1, <5>2, <5>3, <5>4
      <4>2. CASE k # n /\ k > whole
        BY <1>19, <1>20, <3>1, <3>4, <4>2 DEF v
      <4>3. CASE k # n /\ k <= whole
        BY <3>1, <3>4, <4>3 DEF v
      <4> QED
        BY <4>1, <4>2, <4>3
    <3>6. v = [k \in 1..n |-> v[k]]
      BY DEF v
    <3>7. f = v
      BY <3>4, <3>5, <3>6, Zenon
    <3> QED
      BY <3>3, <3>7 DEF f
  <2> QED
    BY <2>1, <2>2
<1>23. /\ AlignTurn(ToUnits(c, D2U(p)), whole, MSUDigits(p)) = v
       /\ D2U(p) = n /\ DPUN - MSUDigits(p) = sh /\ n - whole \in Nat \ {0}
  <2>1. n - whole \in Nat \ {0}
    BY <1>6
  <2> HIDE DEF v
  <2> QED
    BY <1>1, <1>2, <1>9, <1>16, <1>22, <2>1, Zenon
<1> HIDE DEF v
<1> QED
  BY <1>4, <1>8, <1>10, <1>11, <1>12, <1>13, <1>14, <1>23, Zenon DEF v

\* three reversals put the upper part of the array below the lower one
LEMMA WholeTurnIs ==
    ASSUME NEW n \in Nat, NEW u \in Arrays, Len(u) = n, NEW whole \in 1..(n - 1)
    PROVE  WholeTurn(u, whole)
               = [k \in 1..n |-> IF k <= n - whole THEN u[k + whole] ELSE u[k - (n - whole)]]
<1> DEFINE left  == ReversePart(u, whole + 1, n)
           right == ReversePart(left, 1, whole)
           all   == ReversePart(right, 1, n)
<1>1. DOMAIN u = 1..n /\ whole + 1 \in 1..n /\ 1 \in 1..n /\ whole \in 0..n /\ n \in 0..n
  BY ArrayFacts
<1>2. /\ DOMAIN left = 1..n
      /\ \A k \in 1..n : left[k] = IF whole + 1 <= k /\ k <= n THEN u[whole + 1 + n - k] ELSE u[k]
  BY <1>1 DEF ReversePart
<1> HIDE DEF left
<1>3. /\ DOMAIN right = 1..n
      /\ \A k \in 1..n : right[k] = IF 1 <= k /\ k <= whole THEN left[1 + whole - k] ELSE left[k]
  BY <1>1, <1>2 DEF ReversePart
<1> HIDE DEF right
<1>4. /\ DOMAIN all = 1..n
      /\ \A k \in 1..n : all[k] = IF 1 <= k /\ k <= n THEN right[1 + n - k] ELSE right[k]
  BY <1>1, <1>3 DEF ReversePart
<1>5. all = [k \in 1..n |-> all[k]]
  BY <1>3 DEF ReversePart
<1>6. WholeTurn(u, whole) = all
  <2>1. Len(ReversePart(right, 1, n)) = Len(ReversePart(right, 1, n))
    OBVIOUS
  <2>2. Len(u) = n /\ Len(left) = n /\ Len(right) = n
    <3>1. left = [k \in 1..n |-> left[k]]
      BY <1>1 DEF left, ReversePart
    <3>2. right = [k \in 1..n |-> right[k]]
      BY <1>2 DEF right, ReversePart
    <3>3. left \in Seq({left[k] : k \in 1..n}) /\ right \in Seq({right[k] : k \in 1..n})
      BY <3>1, <3>2
    <3> QED
      BY <1>2, <1>3, <3>3
  <2> QED
    BY <2>2, Zenon DEF WholeTurn, left, right
<1> HIDE DEF all
<1>7. ASSUME NEW k \in 1..n
      PROVE  all[k] = IF k <= n - whole THEN u[k + whole] ELSE u[k - (n - whole)]
  <2>1. PICK i \in 1..n : i = 1 + n - k
    OBVIOUS
  <2>2. all[k] = right[i]
    BY <1>4, <2>1
  <2>3. CASE k <= n - whole
    <3>1. i > whole /\ whole + 1 <= i /\ whole + 1 + n - i = k + whole
      BY <2>1, <2>3
    <3>2. right[i] = left[i] /\ left[i] = u[whole + 1 + n - i]
      BY <1>2, <1>3, <3>1
    <3> QED
      BY <2>2, <2>3, <3>1, <3>2
  <2>4. CASE ~(k <= n - whole)
    <3>1. PICK h \in 1..n : h = 1 + whole - i /\ h <= whole /\ h = k - (n - whole) /\ i <= whole
      BY <2>1, <2>4
    <3>2. right[i] = left[h] /\ left[h] = u[h]
      BY <1>2, <1>3, <3>1
    <3> QED
      BY <2>2, <2>4, <3>1, <3>2
  <2> QED
    BY <2>3, <2>4
<1> QED
  BY <1>5, <1>6, <1>7, Zenon

LEMMA TurnedTwice ==
    ASSUME NEW p \in Nat, NEW c \in Nat, c < powers[p],
           NEW s \in Nat, NEW d \in Nat, s + d <= p
    PROVE  Turned(Turned(c, p, s), p, d) = Turned(c, p, s + d)
<1>1. PICK m \in Nat : m = p - (s + d) /\ p - s = d + m /\ p - d = s + m /\ d <= p - s
  OBVIOUS
<1>2. PICK a \in Nat : a = p - s /\ s \in 0..p /\ a = d + m
  BY <1>1
<1>3. PICK mid \in Nat : mid = c \div powers[s] /\ mid < powers[a]
  BY <1>2, TurnedIs
<1>4. PICK lo \in Nat : lo = c % powers[s] /\ lo < powers[s]
  BY <1>2, TurnedIs
<1>5. PICK once \in Nat : once = lo * powers[a] + mid /\ once = Turned(c, p, s)
  BY <1>2, <1>3, <1>4, Stacked DEF Turned
<1>6. PICK t \in Nat : t = mid \div powers[d]
  BY FieldIs
<1>7. PICK y \in Nat : y = mid % powers[d] /\ y < powers[d]
  BY FieldIs
<1>8. PICK pd \in Nat \ {0} : pd = powers[d]
  BY PowerPick
<1>9. PICK pm \in Nat \ {0} : pm = powers[m]
  BY PowerPick
<1>10. PICK ps \in Nat \ {0} : ps = powers[s]
  BY PowerPick
<1>11. powers[a] = pd * pm
  BY <1>2, <1>8, <1>9, PowersSum
<1>12. powers[s + m] = ps * pm
  BY <1>9, <1>10, PowersSum
<1>13. mid = t * pd + y
  BY <1>6, <1>7, <1>8, Euclid
<1>14. PICK x \in Nat : x = lo * pm + t
  OBVIOUS
<1>15. once = x * powers[d] + y
  <2>1. lo * (pd * pm) = (lo * pm) * pd
    OBVIOUS
  <2>2. x * pd = (lo * pm) * pd + t * pd
    BY <1>14
  <2> QED
    BY <1>5, <1>8, <1>11, <1>13, <2>1, <2>2
<1>16. once \div powers[d] = x /\ once % powers[d] = y
  <2>1. /\ x * powers[d] + y \in Nat
        /\ (x * powers[d] + y) \div powers[d] = x /\ (x * powers[d] + y) % powers[d] = y
    BY <1>7, Stacked
  <2> QED
    BY <1>15, <2>1
<1>17. Turned(once, p, d) = y * (ps * pm) + x
  BY <1>1, <1>12, <1>16 DEF Turned
<1>18. c \div powers[s + d] = t /\ c % powers[s + d] = y * ps + lo
  <2>1. /\ c \div powers[s + d] = (c \div powers[s]) \div powers[d]
        /\ c % powers[s + d] = Field(c, s, d) * powers[s] + (c % powers[s])
    BY TwoCuts
  <2> QED
    BY <1>3, <1>4, <1>6, <1>7, <1>10, <2>1 DEF Field
<1>19. Turned(c, p, s + d) = (y * ps + lo) * pm + t
  BY <1>1, <1>9, <1>18 DEF Turned
<1>20. (y * ps + lo) * pm = y * (ps * pm) + lo * pm
  OBVIOUS
<1> QED
  BY <1>5, <1>14, <1>17, <1>19, <1>20

LEMMA UnitsOfTurned ==
    ASSUME NEW p \in Nat \ {0}, NEW c \in Nat, c < powers[p],
           NEW whole \in Nat \ {0}, DPUN * whole < p
    PROVE  WholeTurn(AlignTurn(ToUnits(c, D2U(p)), whole, MSUDigits(p)), whole)
               = ToUnits(Turned(c, p, DPUN * whole), D2U(p))
<1>1. PICK j \in Nat, msud \in 1..DPUN :
          D2U(p) = j + 1 /\ MSUDigits(p) = msud /\ p = DPUN * j + msud
  BY FirstUnit
<1>2. PICK n \in Nat \ {0} : n = j + 1 /\ n = D2U(p)
  BY <1>1
<1>3. PICK w \in Nat \ {0} : w = DPUN /\ msud \in Nat /\ msud <= w /\ msud >= 1
  BY UnitBase
<1>4. PICK d \in Nat \ {0} : d = DPUN * whole /\ w <= d
  <2>1. DPUN * 1 <= DPUN * whole /\ DPUN * whole \in Nat
    BY <1>3, MulGrows
  <2> QED
    BY <1>3, <2>1
<1>5. PICK sh \in Nat : sh = DPUN - msud /\ sh <= d /\ sh < w
  BY <1>3, <1>4
<1>6. PICK m \in Nat : m = p - d
  BY <1>4
<1>7. PICK rest \in Nat : rest = c % powers[d]
  BY FieldIs
<1>8. PICK hi \in Nat : hi = c \div powers[d] /\ hi < powers[m]
  <2>1. d + m = p
    BY <1>4, <1>6
  <2> QED
    BY <2>1, QuotientIn
<1>9. PICK lo \in Nat : lo = c % powers[sh] /\ lo < powers[sh]
  BY FieldIs
<1>10. PICK over \in Nat : over = lo * powers[m] + hi /\ over < powers[sh + m]
  BY <1>8, <1>9, Stacked, StackedBelow
<1>11. PICK low \in Nat : low = rest \div powers[sh]
  BY <1>7, FieldIs
<1>12. PICK v : /\ v = AlignTurn(ToUnits(c, n), whole, msud)
                /\ v = [k \in 1..n |-> IF k <= whole THEN Field(low, DPUN * (k - 1), DPUN)
                                       ELSE Field(over, DPUN * (k - whole - 1), DPUN)]
                /\ n - whole \in Nat \ {0}
  <2>1. LET n0   == D2U(p)
            sh0  == DPUN - MSUDigits(p)
            hi0  == c \div powers[DPUN * whole]
            over0 == (c % powers[sh0]) * powers[p - DPUN * whole] + hi0
            low0 == (c % powers[DPUN * whole]) \div powers[sh0]
        IN  /\ n0 - whole \in Nat \ {0}
            /\ AlignTurn(ToUnits(c, n0), whole, MSUDigits(p))
                   = [k \in 1..n0 |-> IF k <= whole THEN Field(low0, DPUN * (k - 1), DPUN)
                                      ELSE Field(over0, DPUN * (k - whole - 1), DPUN)]
    BY AlignTurnIs
  <2> QED
    BY <1>1, <1>2, <1>4, <1>5, <1>6, <1>7, <1>8, <1>9, <1>10, <1>11, <2>1, Zenon
<1>13. PICK high \in Nat \ {0} : high = n - whole /\ whole \in 1..(n - 1)
  BY <1>12
<1>14. PICK e \in Nat : e = DPUN * high /\ e = sh + m
  <2>1. DPUN * n = DPUN * j + w /\ DPUN * high = DPUN * n - d /\ DPUN * j \in Nat
    BY <1>2, <1>3, <1>4, <1>13
  <2> QED
    BY <1>1, <1>3, <1>5, <1>6, <2>1
<1>15. \A k \in 1..n : /\ v[k] \in 0..(Base - 1)
                       /\ k <= whole => v[k] = Field(low, DPUN * (k - 1), DPUN)
                       /\ k > whole => v[k] = Field(over, DPUN * (k - whole - 1), DPUN)
  <2> SUFFICES ASSUME NEW k \in 1..n
               PROVE  /\ v[k] \in 0..(Base - 1)
                      /\ k <= whole => v[k] = Field(low, DPUN * (k - 1), DPUN)
                      /\ k > whole => v[k] = Field(over, DPUN * (k - whole - 1), DPUN)
    OBVIOUS
  <2>1. Base = powers[w] /\ powers[w] \in Nat
    BY <1>3, PowersFacts DEF Base
  <2>2. CASE k <= whole
    <3>1. PICK i \in Nat : i = DPUN * (k - 1)
      BY UnitPlace
    <3>2. Field(low, i, w) \in Nat /\ Field(low, i, w) < powers[w]
      BY FieldIs
    <3> QED
      BY <1>3, <1>12, <2>1, <2>2, <3>1, <3>2
  <2>3. CASE ~(k <= whole)
    <3>1. PICK g \in Nat \ {0} : g = k - whole
      BY <2>3
    <3>2. PICK i \in Nat : i = DPUN * (g - 1)
      BY UnitPlace
    <3>3. Field(over, i, w) \in Nat /\ Field(over, i, w) < powers[w]
      BY FieldIs
    <3> QED
      BY <1>3, <1>12, <2>1, <2>3, <3>1, <3>2, <3>3
  <2> QED
    BY <2>2, <2>3
<1>16. v \in Arrays /\ Len(v) = n
  <2>1. v \in [1..n -> 0..(Base - 1)]
    BY <1>12, <1>15
  <2> QED
    BY <2>1, ArrayIs
<1>17. WholeTurn(v, whole)
           = [k \in 1..n |-> IF k <= n - whole THEN v[k + whole] ELSE v[k - (n - whole)]]
  BY <1>13, <1>16, WholeTurnIs
<1>18. PICK turned \in Nat : turned = low * powers[e] + over
  BY <1>10, <1>14, Stacked
<1>19. ASSUME NEW k \in 1..n
       PROVE  (IF k <= n - whole THEN v[k + whole] ELSE v[k - (n - whole)])
              = Field(turned, DPUN * (k - 1), DPUN)
  <2>1. PICK i \in Nat : i = DPUN * (k - 1) /\ DPUN * k = i + w
    BY <1>3, UnitPlace
  <2>2. over < powers[e]
    BY <1>10, <1>14
  <2>3. CASE k <= high
    <3>1. k + whole \in 1..n /\ k + whole > whole /\ k + whole - whole - 1 = k - 1
      BY <1>13, <2>3
    <3>2. v[k + whole] = Field(over, i, w)
      BY <1>3, <1>15, <2>1, <3>1
    <3>3. DPUN * k <= e
      BY <1>3, <1>14, <2>3, MulGrows
    <3>4. Field(low * powers[e] + over, i, w) = Field(over, i, w)
      BY <2>1, <2>2, <3>3, FieldBelow
    <3> QED
      BY <1>3, <1>13, <1>18, <2>1, <2>3, <3>2, <3>4
  <2>4. CASE ~(k <= high)
    <3>1. PICK g \in Nat \ {0} : g = k - high /\ g \in 1..n /\ g <= whole /\ g = k - (n - whole)
      BY <1>13, <2>4
    <3>2. PICK h \in Nat : h = DPUN * (g - 1)
      BY UnitPlace
    <3>3. v[g] = Field(low, h, w)
      BY <1>3, <1>15, <3>1, <3>2
    <3>4. i = h + e
      BY <1>3, <1>14, <2>1, <3>1, <3>2
    <3>5. Field(low * powers[e] + over, h + e, w) = Field(low, h, w)
      BY <2>2, FieldAbove
    <3> QED
      BY <1>3, <1>13, <1>18, <2>1, <2>4, <3>1, <3>3, <3>4, <3>5
  <2> QED
    BY <2>3, <2>4
<1>20. turned = Turned(c, p, d)
  <2>1. rest = low * powers[sh] + lo
    <3>1. PICK zero \in Nat : zero = 0 /\ zero + sh <= d
      BY <1>5
    <3>2. Field(c % powers[d], zero, sh) = Field(c, zero, sh)
      BY <3>1, FieldOfRest
    <3>3. rest % powers[sh] = lo
      BY <1>7, <1>9, <3>1, <3>2, PowersFacts DEF Field
    <3>4. PICK q \in Nat \ {0} : q = powers[sh]
      BY PowerPick
    <3>5. rest = (rest \div q) * q + (rest % q)
      BY Euclid
    <3> QED
      BY <1>11, <3>3, <3>4, <3>5
  <2>2. PICK q \in Nat \ {0} : q = powers[sh]
    BY PowerPick
  <2>3. PICK y \in Nat \ {0} : y = powers[m]
    BY PowerPick
  <2>4. powers[e] = q * y
    BY <1>14, <2>2, <2>3, PowersSum
  <2>5. Turned(c, p, d) = rest * y + hi
    BY <1>6, <1>7, <1>8, <2>3 DEF Turned
  <2>6. (low * q + lo) * y = low * (q * y) + lo * y
    OBVIOUS
  <2> QED
    BY <1>10, <1>18, <2>1, <2>2, <2>3, <2>4, <2>5, <2>6
<1>21. ToUnits(turned, n) = [k \in 1..n |-> Field(turned, DPUN * (k - 1), DPUN)]
  BY DEF ToUnits, Field, Base
<1>22. WholeTurn(v, whole) = [k \in 1..n |-> Field(turned, DPUN * (k - 1), DPUN)]
  BY <1>17, <1>19, Zenon
<1> QED
  BY <1>1, <1>2, <1>4, <1>12, <1>20, <1>21, <1>22, Zenon

LEMMA RotateRightIs ==
    ASSUME NEW p \in Nat, NEW c \in Nat, c < powers[p], NEW right \in 1..(p - 1)
    PROVE  RotateRight(c, p, right) = Turned(c, p, right)
<1>1. PICK w \in Nat \ {0} : w = DPUN
  BY UnitBase
<1>2. PICK whole \in Nat : whole = right \div w
  BY <1>1, Euclid
<1>3. PICK s \in Nat : s = right % w /\ s < w
  BY <1>1, Euclid
<1>4. PICK d \in Nat : d = DPUN * whole /\ d + s = right
  <2>1. right \in Nat /\ right = (right \div w) * w + (right % w)
    BY Euclid
  <2> QED
    BY <1>1, <1>2, <1>3, <2>1
<1>5. PICK n \in Nat : n = D2U(p) /\ p <= DPUN * n
  BY UnitsNeeded
<1>6. p \in Nat \ {0} /\ s \in 0..(DPUN - 1) /\ s < p /\ s \in 0..p /\ d < p
  BY <1>1, <1>3, <1>4
<1>7. PICK once \in Nat : once = Turned(c, p, s) /\ once < powers[p]
  BY <1>6, TurnedIs
<1>8. PartialTurn(ToUnits(c, n), s, MSUDigits(p)) = ToUnits(once, n)
  BY <1>5, <1>6, <1>7, PartialTurnIs
<1>9. ASSUME NEW x \in Nat, x < powers[p] PROVE Value(ToUnits(x, n)) = x
  <2>1. PICK t \in Nat : t = DPUN * n
    BY <1>1, <1>5
  <2>2. powers[p] <= powers[t] /\ powers[p] \in Nat /\ powers[t] \in Nat
    BY <1>5, <2>1, PowersGrow, PowersFacts
  <2>3. x % powers[t] = x
    BY <1>9, <2>2, RestOfSmall
  <2> QED
    BY <2>1, <2>3, ToUnitsIs
<1>10. CASE whole = 0
  <2>1. d = 0 /\ s = right
    BY <1>1, <1>4, <1>10
  <2>2. RotateRight(c, p, right) = Value(ToUnits(once, n))
    BY <1>1, <1>2, <1>3, <1>5, <1>8, <1>10, Zenon DEF RotateRight
  <2> QED
    BY <1>7, <1>9, <2>1, <2>2
<1>11. CASE whole # 0
  <2>1. whole \in Nat \ {0} /\ DPUN * whole < p
    BY <1>4, <1>6, <1>11
  <2>2. WholeTurn(AlignTurn(ToUnits(once, n), whole, MSUDigits(p)), whole)
            = ToUnits(Turned(once, p, d), n)
    BY <1>4, <1>5, <1>6, <1>7, <2>1, UnitsOfTurned
  <2>3. RotateRight(c, p, right) = Value(ToUnits(Turned(once, p, d), n))
    BY <1>1, <1>2, <1>3, <1>5, <1>8, <1>11, <2>2, Zenon DEF RotateRight
  <2>4. s + d <= p /\ s + d = right
    BY <1>4
  <2>5. Turned(Turned(c, p, s), p, d) = Turned(c, p, s + d)
    BY <2>4, TurnedTwice
  <2>6. Turned(once, p, d) = Turned(c, p, right)
    BY <1>7, <2>4, <2>5
  <2>7. PICK x \in Nat : x = Turned(c, p, right) /\ x < powers[p]
    <3>1. right \in 0..p
      OBVIOUS
    <3> QED
      BY <3>1, TurnedIs
  <2> QED
    BY <1>9, <2>3, <2>6, <2>7
<1> QED
  BY <1>10, <1>11

(***************************************************************************)
(* Rotate and Shift, digit by digit.                                       *)
(***************************************************************************)
LEMMA TurnedDigits ==
    ASSUME NEW p \in Nat, NEW c \in Nat, c < powers[p], NEW n \in 0..p, NEW i \in 0..(p - 1)
    PROVE  DigitAt(Turned(c, p, n), i) = IF i < p - n THEN DigitAt(c, i + n)
                                         ELSE DigitAt(c, i - (p - n))
<1>1. PICK m \in Nat : m = p - n /\ n \in Nat /\ i \in Nat /\ 1 \in Nat
  OBVIOUS
<1>2. PICK hi \in Nat : hi = c \div powers[n] /\ hi < powers[m]
  BY <1>1, TurnedIs
<1>3. PICK lo \in Nat : lo = c % powers[n]
  BY TurnedIs
<1>4. PICK v \in Nat : v = lo * powers[m] + hi /\ v = Turned(c, p, n)
  BY <1>1, <1>2, <1>3, Stacked DEF Turned
<1>5. DigitAt(v, i) = Field(v, i, 1)
  BY <1>1, DigitIsField
<1>6. CASE i < m
  <2>1. i + 1 <= m
    BY <1>1, <1>6
  <2>2. Field(lo * powers[m] + hi, i, 1) = Field(hi, i, 1)
    BY <1>1, <1>2, <2>1, FieldBelow
  <2>3. Field(c \div powers[n], i, 1) = Field(c, i + n, 1)
    BY <1>1, FieldDown
  <2>4. PICK h \in Nat : h = i + n
    BY <1>1
  <2>5. DigitAt(c, h) = Field(c, h, 1)
    BY DigitIsField
  <2> QED
    BY <1>1, <1>2, <1>4, <1>5, <1>6, <2>2, <2>3, <2>4, <2>5
<1>7. CASE ~(i < m)
  <2>1. PICK g \in Nat : g = i - m /\ i = g + m /\ g + 1 <= n
    BY <1>1, <1>7
  <2>2. Field(lo * powers[m] + hi, g + m, 1) = Field(lo, g, 1)
    BY <1>1, <1>2, FieldAbove
  <2>3. Field(c % powers[n], g, 1) = Field(c, g, 1)
    BY <1>1, <2>1, FieldOfRest
  <2>4. DigitAt(c, g) = Field(c, g, 1)
    BY DigitIsField
  <2> QED
    BY <1>1, <1>3, <1>4, <1>5, <1>7, <2>1, <2>2, <2>3, <2>4
<1> QED
  BY <1>6, <1>7

LEMMA Around ==
    ASSUME NEW p \in Nat \ {0}, NEW k \in 0..(p - 1), NEW e \in Nat,
           e = k \/ e = k + p \/ e = k + p + p
    PROVE  e % p = k
<1>1. k \in Nat /\ k < p
  OBVIOUS
<1>2. PICK q \in Nat : e = q * p + k
  <2>1. e = 0 * p + k \/ e = 1 * p + k \/ e = 2 * p + k
    OBVIOUS
  <2> QED
    BY <2>1
<1> QED
  BY <1>1, <1>2, QuotientIs

LEMMA CountIs ==
    ASSUME NEW y, NEW cx, NEW p \in Nat, p = cx.digits, CountOf(y, cx).ok
    PROVE  CountOf(y, cx) = GetInt(y) /\ GetInt(y).value \in (-p)..p
<1>1. ~NotAnInt.ok
  BY DEF NotAnInt
<1>2. CountOf(y, cx) = IF y.kind = "inf" \/ y.exp # 0 \/ ~GetInt(y).ok
                           \/ GetInt(y).value \notin (-p)..p THEN NotAnInt ELSE GetInt(y)
  BY DEF CountOf
<1> QED
  BY <1>1, <1>2, Zenon

\* a finite number that fits, and a count that is one
Movable(x, y, cx) ==
    /\ x \in Numbers /\ x.kind = "finite" /\ ~IsNaN(y)
    /\ cx.digits \in Nat \ {0} /\ x.coef < powers[cx.digits]
    /\ CountOf(y, cx).ok

RotatedTo(v, x, y, cx) ==
    /\ v < powers[cx.digits]
    /\ Rotate(x, y, cx) = Plain([x EXCEPT !.coef = v])
    /\ \A i \in 0..(cx.digits - 1) :
           DigitAt(v, i) = DigitAt(x.coef, (i - GetInt(y).value + cx.digits) % cx.digits)

ShiftedTo(v, x, y, cx) ==
    /\ v < powers[cx.digits]
    /\ Shift(x, y, cx) = Plain([x EXCEPT !.coef = v])
    /\ \A i \in 0..(cx.digits - 1) :
           DigitAt(v, i) = IF i - GetInt(y).value \in 0..(cx.digits - 1)
                           THEN DigitAt(x.coef, i - GetInt(y).value) ELSE 0

LEMMA RotateMoves ==
    ASSUME NEW x, NEW y, NEW cx, Movable(x, y, cx)
    PROVE  \E v \in Nat : RotatedTo(v, x, y, cx)
<1>0. PICK p \in Nat \ {0} : /\ p = cx.digits /\ x.coef < powers[p]
                             /\ x \in Numbers /\ x.kind = "finite" /\ ~IsNaN(y)
                             /\ CountOf(y, cx).ok
  BY DEF Movable
<1>1. PICK by \in (-p)..p : by = GetInt(y).value
  BY <1>0, CountIs
<1>2. PICK c \in Nat : c = x.coef /\ c < powers[p]
  BY <1>0, NumberFields
<1>3. PICK left \in 0..p : left = IF by < 0 THEN p + by ELSE by
  OBVIOUS
<1>4. Rotate(x, y, cx) = IF left \in {0, p} THEN Plain(x)
                         ELSE Plain([x EXCEPT !.coef = RotateRight(@, p, p - left)])
  <2>1. ~IsNaN(x) /\ ~(x.kind = "inf")
    BY <1>0 DEF IsNaN
  <2>2. PICK n : n = CountOf(y, cx) /\ n.ok /\ n.value = by
    BY <1>0, <1>1, CountIs
  <2> QED
    BY <1>0, <1>3, <2>1, <2>2, Zenon DEF Rotate
<1>5. ASSUME NEW i \in 0..(p - 1), NEW k \in 0..(p - 1),
             k = i - left \/ k = i + p - left
      PROVE  (i - by + p) % p = k
  <2>1. PICK e \in Nat : e = i - by + p
    BY <1>3
  <2>2. e = k \/ e = k + p \/ e = k + p + p
    BY <1>3, <1>5, <2>1
  <2> QED
    BY <2>1, <2>2, Around
<1>6. CASE left \in {0, p}
  <2>1. Rotate(x, y, cx) = Plain([x EXCEPT !.coef = c])
    <3>1. x = [x EXCEPT !.coef = c]
      BY <1>0, <1>2 DEF Numbers
    <3> QED
      BY <1>4, <1>6, <3>1
  <2>2. ASSUME NEW i \in 0..(p - 1) PROVE (i - by + p) % p = i
    <3>1. i = i - left \/ i = i + p - left
      BY <1>6
    <3> QED
      BY <1>5, <3>1
  <2>3. RotatedTo(c, x, y, cx)
    BY <1>0, <1>1, <1>2, <2>1, <2>2 DEF RotatedTo
  <2> QED
    BY <2>3
<1>7. CASE left \notin {0, p}
  <2>1. PICK right \in 1..(p - 1) : right = p - left /\ p - right = left /\ right \in 0..p
    BY <1>7
  <2>2. PICK v \in Nat : v = Turned(c, p, right) /\ v < powers[p]
    BY <1>2, <2>1, TurnedIs
  <2>3. Rotate(x, y, cx) = Plain([x EXCEPT !.coef = v])
    <3>1. RotateRight(c, p, right) = v
      BY <1>2, <2>2, RotateRightIs
    <3>2. [x EXCEPT !.coef = RotateRight(@, p, p - left)] = [x EXCEPT !.coef = v]
      BY <1>2, <2>1, <3>1
    <3> QED
      BY <1>4, <1>7, <3>2
  <2>4. ASSUME NEW i \in 0..(p - 1)
        PROVE  DigitAt(v, i) = DigitAt(c, (i - by + p) % p)
    <3>1. DigitAt(v, i) = IF i < p - right THEN DigitAt(c, i + right)
                          ELSE DigitAt(c, i - (p - right))
      <4>1. p \in Nat /\ i \in 0..(p - 1) /\ right \in 0..p /\ c \in Nat /\ c < powers[p]
        BY <1>2, <2>1
      <4>2. DigitAt(Turned(c, p, right), i)
                = IF i < p - right THEN DigitAt(c, i + right) ELSE DigitAt(c, i - (p - right))
        BY <4>1, TurnedDigits, Zenon
      <4> QED
        BY <2>2, <4>2, Zenon
    <3>2. CASE i < left
      <4>1. PICK k \in 0..(p - 1) : k = i + right /\ k = i + p - left
        BY <2>1, <3>2
      <4> QED
        BY <1>5, <2>1, <3>1, <3>2, <4>1
    <3>3. CASE ~(i < left)
      <4>1. PICK k \in 0..(p - 1) : k = i - left
        BY <3>3
      <4> QED
        BY <1>5, <2>1, <3>1, <3>3, <4>1
    <3> QED
      BY <3>2, <3>3
  <2>5. RotatedTo(v, x, y, cx)
    BY <1>0, <1>1, <1>2, <2>2, <2>3, <2>4 DEF RotatedTo
  <2> QED
    BY <2>5
<1> QED
  BY <1>6, <1>7

\* to the left, digits beyond the precision are cut off first
LiftHolds(x, by, cx) ==
    /\ x \in Numbers /\ x.kind = "finite" /\ cx.digits \in Nat \ {0}
    /\ x.coef < powers[cx.digits] /\ by \in 1..cx.digits

MovedUp(x, by, p) == [x EXCEPT !.coef = (x.coef % powers[p - by]) * powers[by]]

LEMMA ShiftLeftIs ==
    ASSUME NEW x, NEW by, NEW cx, LiftHolds(x, by, cx)
    PROVE  ShiftLeft(x, by, cx) = MovedUp(x, by, cx.digits)
<1>0. PICK p \in Nat \ {0} : /\ p = cx.digits /\ x.coef < powers[p] /\ by \in 1..p
                             /\ x \in Numbers /\ x.kind = "finite"
  BY DEF LiftHolds
<1>1. PICK c \in Nat : c = x.coef /\ c < powers[p]
  BY <1>0, NumberFields
<1>2. PICK d \in Nat \ {0} : d = Digits(c) /\ d <= p /\ c < powers[d]
  BY <1>1, DigitsFacts, DigitsAtMost
<1>3. by \in Nat \ {0} /\ by \in 1..p
  BY <1>0
<1>4. CASE by = p
  <2>1. powers[p - by] = 1 /\ c % 1 = 0 /\ powers[by] \in Nat
    BY <1>3, <1>4, PowersFacts
  <2>2. ShiftLeft(x, by, cx) = [x EXCEPT !.coef = 0]
    BY <1>0, <1>4, Zenon DEF ShiftLeft
  <2>3. (c % powers[p - by]) * powers[by] = 0
    BY <2>1
  <2> QED
    BY <1>0, <1>1, <2>2, <2>3 DEF MovedUp
<1>5. CASE by # p
  <2>1. PICK m \in Nat \ {0} : m = p - by /\ m + by = p
    BY <1>3, <1>5
  <2>2. PICK y \in Nat : y = c % powers[m]
    BY FieldIs
  <2>3. PICK cut : /\ cut = (IF d + by - p > 0 THEN Decap(x, d + by - p) ELSE x)
                   /\ cut = [x EXCEPT !.coef = y]
    <3>1. CASE d + by - p > 0
      <4>1. PICK drop \in Nat : drop = d + by - p /\ ~(drop >= d) /\ d - drop = m
        BY <1>2, <1>3, <2>1, <3>1
      <4>2. Decap(x, drop) = [x EXCEPT !.coef = @ % powers[m]]
        BY <1>0, <1>1, <1>2, <4>1, Zenon DEF Decap
      <4>3. [x EXCEPT !.coef = @ % powers[m]] = [x EXCEPT !.coef = y]
        BY <1>0, <1>1, <2>2
      <4> QED
        BY <3>1, <4>1, <4>2, <4>3
    <3>2. CASE ~(d + by - p > 0)
      <4>1. d <= m
        BY <1>2, <1>3, <2>1, <3>2
      <4>2. powers[d] <= powers[m] /\ powers[d] \in Nat /\ powers[m] \in Nat
        BY <4>1, PowersGrow, PowersFacts
      <4>3. c % powers[m] = c
        BY <1>2, <4>2, RestOfSmall
      <4>4. x = [x EXCEPT !.coef = y]
        BY <1>0, <1>1, <2>2, <4>3 DEF Numbers
      <4> QED
        BY <3>2, <4>4
    <3> QED
      BY <3>1, <3>2
  <2>4. cut.coef = y /\ cut.kind = "finite"
    BY <1>0, <2>3 DEF Numbers
  <2>5. PICK k \in Nat \ {0} : k = Digits(y) /\ y < powers[k]
    BY DigitsFacts
  <2>6. Value(ShiftToMost(UnitsOf(cut), k, by)) = y * powers[by]
    <3>1. UnitsOf(cut) = ToUnits(y, D2U(k))
      BY <2>4, <2>5 DEF UnitsOf
    <3>2. ShiftToMost(ToUnits(y, D2U(k)), k, by) = ToUnits(y * powers[by], D2U(k + by))
      BY <1>3, <2>5, ShiftUpIs
    <3>3. PICK z \in Nat : z = y * powers[by] + 0 /\ z < powers[k + by]
      <4>1. 0 < powers[by] /\ 0 \in Nat /\ by \in Nat
        BY <1>3, PowersFacts
      <4> QED
        BY <2>5, <4>1, Stacked, StackedBelow
    <3>4. y * powers[by] = z
      <4>1. PICK q \in Nat \ {0} : q = powers[by]
        BY <1>3, PowerPick
      <4> QED
        BY <3>3, <4>1
    <3>5. PICK n \in Nat : n = D2U(k + by) /\ k + by <= DPUN * n
      BY <1>3, <2>5, UnitsNeeded
    <3>6. PICK t \in Nat : t = DPUN * n
      BY <3>5, UnitBase
    <3>7. powers[k + by] <= powers[t] /\ powers[k + by] \in Nat /\ powers[t] \in Nat
      BY <1>3, <2>5, <3>5, <3>6, PowersGrow, PowersFacts
    <3>8. z % powers[t] = z
      BY <3>3, <3>7, RestOfSmall
    <3>9. Value(ToUnits(z, n)) = z % powers[DPUN * n]
      BY <3>5, ToUnitsIs
    <3> QED
      BY <3>1, <3>2, <3>4, <3>5, <3>6, <3>8, <3>9
  <2>7. CASE y = 0
    <3>1. ShiftLeft(x, by, cx) = cut
      BY <1>0, <1>1, <1>2, <1>5, <2>3, <2>4, <2>7, Zenon DEF ShiftLeft, IsZero
    <3>2. y * powers[by] = 0
      BY <1>3, <2>7, PowersFacts
    <3> QED
      BY <1>0, <1>1, <2>1, <2>2, <2>3, <2>7, <3>1, <3>2 DEF MovedUp
  <2>8. CASE y # 0
    <3>1. ShiftLeft(x, by, cx) = [cut EXCEPT !.coef = Value(ShiftToMost(UnitsOf(cut), k, by))]
      BY <1>0, <1>1, <1>2, <1>5, <2>3, <2>4, <2>5, <2>8, Zenon DEF ShiftLeft, IsZero
    <3>2. [cut EXCEPT !.coef = y * powers[by]] = [x EXCEPT !.coef = y * powers[by]]
      BY <2>3
    <3> QED
      BY <1>0, <1>1, <2>1, <2>2, <2>6, <3>1, <3>2 DEF MovedUp
  <2> QED
    BY <2>7, <2>8
<1> QED
  BY <1>4, <1>5

LEMMA ShiftRightIs ==
    ASSUME NEW x \in Numbers, x.kind = "finite", NEW by \in Nat \ {0}
    PROVE  ShiftRight(x, by) = [x EXCEPT !.coef = x.coef \div powers[by]]
<1>1. PICK c \in Nat : c = x.coef
  BY NumberFields
<1>2. PICK d \in Nat \ {0} : d = Digits(c) /\ c < powers[d]
  BY <1>1, DigitsFacts
<1>3. CASE d - by <= 0
  <2>1. /\ d <= by => c \div powers[by] = 0 /\ Field(c, by, 1) = 0
        /\ d <= by + 1 => Field(c, by, 1) = c \div powers[by]
    BY <1>2, FieldBeyond
  <2>2. ShiftRight(x, by) = [x EXCEPT !.coef = 0]
    BY <1>1, <1>2, <1>3, Zenon DEF ShiftRight
  <2> QED
    BY <1>1, <1>3, <2>1, <2>2
<1>4. CASE ~(d - by <= 0)
  <2>1. PICK left \in Nat \ {0} : left = d - by /\ by + left = d
    BY <1>4
  <2>2. PICK n \in Nat : n = D2U(d) /\ d <= DPUN * n
    BY UnitsNeeded
  <2>3. PICK a \in Nat : a = D2U(left) /\ left <= DPUN * a
    BY UnitsNeeded
  <2>4. PICK y \in Nat : y = c \div powers[by] /\ y < powers[left]
    BY <1>2, <2>1, QuotientIn
  <2>5. PICK u : u = UnitsOf(x) /\ u = ToUnits(c, n) /\ u \in Arrays /\ Len(u) = n
    BY <1>1, <1>2, <2>2, ToUnitsIs DEF UnitsOf
  <2>6. PICK t \in Nat : t = DPUN * n /\ by < t /\ c < powers[t]
    <3>1. PICK t \in Nat : t = DPUN * n
      BY <2>2, UnitBase
    <3>2. powers[d] <= powers[t] /\ powers[d] \in Nat /\ powers[t] \in Nat
      BY <2>2, <3>1, PowersGrow, PowersFacts
    <3> QED
      BY <1>2, <2>1, <2>2, <3>1, <3>2
  <2>7. PICK v : /\ v = ShiftToLeast(u, n, by)
                 /\ v = [k \in 1..n |->
                             IF DPUN * (k - 1) < t - by
                             THEN Field(c, DPUN * (k - 1) + by, DPUN) ELSE u[k]]
    <3>1. by < DPUN * n
      BY <2>6
    <3>2. LowUnitsHold(u, n, c)
      <4>1. c \in Nat /\ c < powers[DPUN * n] /\ n \in 0..Len(u) /\ u \in Arrays
        BY <1>2, <2>2, <2>5, <2>6
      <4>2. \A k \in 1..n : ToUnits(c, n)[k] = Field(c, DPUN * (k - 1), DPUN)
        BY <2>2, <4>1, UnitsAreFields, Zenon
      <4>3. \A k \in 1..n : u[k] = Field(c, DPUN * (k - 1), DPUN)
        BY <2>5, <4>2, Zenon
      <4> QED
        BY <4>1, <4>3, Zenon DEF LowUnitsHold
    <3>3. ShiftToLeast(u, n, by)
              = [k \in 1..Len(u) |->
                     IF DPUN * (k - 1) < DPUN * n - by
                     THEN Field(c, DPUN * (k - 1) + by, DPUN) ELSE u[k]]
      <4>1. by \in Nat \ {0}
        OBVIOUS
      <4>2. ShiftToLeast(u, n, by) = Lowered(u, n, c, by)
        BY <3>1, <3>2, <4>1, ShiftDownIs, Zenon
      <4> QED
        BY <4>2, Zenon DEF Lowered
    <3> QED
      BY <2>5, <2>6, <3>3
  <2>8. a <= n
    <3>1. CASE a = 0
      BY <3>1
    <3>2. CASE a # 0
      <4>1. a \in Nat \ {0} /\ a <= a
        BY <3>2
      <4>2. DPUN * (a - 1) < left
        BY <2>3, <4>1, UnitsReach
      <4>3. PICK i \in Nat : i = DPUN * (a - 1)
        BY <4>1, UnitPlace
      <4>4. DPUN * (a - 1) < d
        BY <2>1, <4>2, <4>3
      <4> QED
        BY <2>2, <4>1, <4>4, UnitsReach
    <3> QED
      BY <3>1, <3>2
  <2>9. ASSUME NEW k \in 1..n, k <= a PROVE v[k] = Field(y, DPUN * (k - 1), DPUN)
    <3>1. k \in Nat \ {0}
      OBVIOUS
    <3>2. PICK i \in Nat : i = DPUN * (k - 1)
      BY <3>1, UnitPlace
    <3>3. i < left
      BY <2>3, <2>9, <3>1, <3>2, UnitsReach
    <3>4. i < t - by
      BY <2>1, <2>2, <2>6, <3>3
    <3>5. PICK w \in Nat : w = DPUN
      BY UnitBase
    <3>6. Field(c \div powers[by], i, w) = Field(c, i + by, w)
      BY FieldDown
    <3> QED
      BY <2>4, <2>7, <3>2, <3>4, <3>5, <3>6
  <2>10. ASSUME NEW k \in 1..n PROVE v[k] \in Nat
    <3>1. k \in Nat \ {0}
      OBVIOUS
    <3>2. PICK i \in Nat : i = DPUN * (k - 1)
      BY <3>1, UnitPlace
    <3>3. PICK h \in Nat : h = i + by
      OBVIOUS
    <3>4. PICK w \in Nat : w = DPUN
      BY UnitBase
    <3>5. Field(c, h, w) \in Nat
      BY FieldIs
    <3>6. u[k] \in Nat
      BY <2>5, ArrayFacts
    <3> QED
      BY <2>7, <3>2, <3>3, <3>4, <3>5, <3>6
  <2>11. SubSeq(v, 1, a) = ToUnits(y, a)
    <3>1. v \in [1..n -> Nat]
      BY <2>7, <2>10
    <3>2. v \in Seq(Nat) /\ Len(v) = n
      BY <3>1
    <3>3. SubSeq(v, 1, a) \in [1..a -> Nat] /\ \A k \in 1..a : SubSeq(v, 1, a)[k] = v[k]
      <4>1. SubSeq(v, 1, a) = [k \in 1..a |-> v[k]]
        BY <2>8, <3>2
      <4>2. \A k \in 1..a : v[k] \in Nat
        BY <2>8, <2>10
      <4> QED
        BY <4>1, <4>2
    <3>4. \A k \in 1..a : SubSeq(v, 1, a)[k] = Field(y, DPUN * (k - 1), DPUN)
      BY <2>8, <2>9, <3>3
    <3> QED
      BY <3>3, <3>4, FieldsMakeUnits
  <2>12. Value(ToUnits(y, a)) = y
    <3>1. PICK b \in Nat : b = DPUN * a
      BY <2>3, UnitBase
    <3>2. powers[left] <= powers[b] /\ powers[left] \in Nat /\ powers[b] \in Nat
      BY <2>3, <3>1, PowersGrow, PowersFacts
    <3>3. y % powers[b] = y
      BY <2>4, <3>2, RestOfSmall
    <3>4. Value(ToUnits(y, a)) = y % powers[DPUN * a]
      BY <2>3, ToUnitsIs
    <3> QED
      BY <3>1, <3>3, <3>4
  <2>13. ShiftRight(x, by) = [x EXCEPT !.coef = Value(SubSeq(v, 1, a))]
    BY <1>1, <1>2, <1>4, <2>1, <2>2, <2>3, <2>5, <2>7, Zenon DEF ShiftRight
  <2> QED
    BY <1>1, <2>4, <2>11, <2>12, <2>13
<1> QED
  BY <1>3, <1>4

LEMMA ShiftMoves ==
    ASSUME NEW x, NEW y, NEW cx, Movable(x, y, cx)
    PROVE  \E v \in Nat : ShiftedTo(v, x, y, cx)
<1>0. PICK p \in Nat \ {0} : /\ p = cx.digits /\ x.coef < powers[p]
                             /\ x \in Numbers /\ x.kind = "finite" /\ ~IsNaN(y)
                             /\ CountOf(y, cx).ok
  BY DEF Movable
<1>1. PICK by \in (-p)..p : by = GetInt(y).value
  BY <1>0, CountIs
<1>2. PICK c \in Nat : c = x.coef /\ c < powers[p]
  BY <1>0, NumberFields
<1>3. Shift(x, y, cx) = IF by = 0 THEN Plain(x)
                        ELSE IF by > 0 THEN Plain(ShiftLeft(x, by, cx))
                        ELSE Plain(ShiftRight(x, -by))
  <2>1. ~IsNaN(x) /\ ~(x.kind = "inf")
    BY <1>0 DEF IsNaN
  <2>2. PICK n : n = CountOf(y, cx) /\ n.ok /\ n.value = by
    BY <1>0, <1>1, CountIs
  <2> QED
    BY <1>0, <2>1, <2>2, Zenon DEF Shift
<1>4. CASE by = 0
  <2>1. x = [x EXCEPT !.coef = c]
    BY <1>0, <1>2 DEF Numbers
  <2>2. Shift(x, y, cx) = Plain([x EXCEPT !.coef = c])
    BY <1>3, <1>4, <2>1
  <2>3. \A i \in 0..(p - 1) : i - by \in 0..(p - 1) /\ i - by = i
    BY <1>4
  <2>4. ShiftedTo(c, x, y, cx)
    BY <1>0, <1>1, <1>2, <2>2, <2>3 DEF ShiftedTo
  <2> QED
    BY <2>4
<1>5. CASE by > 0
  <2>1. PICK n \in 1..p : n = by /\ n \in Nat
    BY <1>5
  <2>2. PICK m \in Nat : m = p - n /\ m + n = p
    OBVIOUS
  <2>3. PICK low \in Nat : low = c % powers[m] /\ low < powers[m]
    BY FieldIs
  <2>4. 0 < powers[n] /\ 0 \in Nat
    BY <2>1, PowersFacts
  <2>5. PICK v \in Nat : v = low * powers[n] + 0 /\ v < powers[p]
    <3>1. low * powers[n] + 0 \in Nat /\ low * powers[n] + 0 < powers[m + n]
      BY <2>1, <2>3, <2>4, Stacked, StackedBelow
    <3> QED
      BY <2>2, <3>1
  <2>6. Shift(x, y, cx) = Plain([x EXCEPT !.coef = v])
    <3>1. ShiftLeft(x, n, cx) = [x EXCEPT !.coef = (x.coef % powers[p - n]) * powers[n]]
      <4>1. LiftHolds(x, n, cx)
        BY <1>0, <2>1 DEF LiftHolds
      <4>2. ShiftLeft(x, n, cx) = MovedUp(x, n, cx.digits)
        BY <4>1, ShiftLeftIs, Zenon
      <4> QED
        BY <1>0, <4>2, Zenon DEF MovedUp
    <3>2. low * powers[n] = v
      <4>1. PICK q \in Nat \ {0} : q = powers[n]
        BY <2>1, PowerPick
      <4> QED
        BY <2>5, <4>1
    <3>3. (x.coef % powers[p - n]) * powers[n] = v
      BY <1>2, <2>2, <2>3, <3>2
    <3>4. ShiftLeft(x, by, cx) = [x EXCEPT !.coef = v]
      BY <2>1, <3>1, <3>3
    <3>5. by # 0
      BY <1>5
    <3> QED
      BY <1>3, <1>5, <3>4, <3>5
  <2>7. ASSUME NEW i \in 0..(p - 1)
        PROVE  DigitAt(v, i) = IF i - by \in 0..(p - 1) THEN DigitAt(c, i - by) ELSE 0
    <3>1. i \in Nat /\ 1 \in Nat /\ DigitAt(v, i) = Field(v, i, 1)
      BY DigitIsField
    <3>2. CASE i < n
      <4>1. i + 1 <= n /\ i - by \notin 0..(p - 1)
        BY <2>1, <3>1, <3>2
      <4>2. Field(low * powers[n] + 0, i, 1) = Field(0, i, 1)
        BY <2>1, <2>4, <3>1, <4>1, FieldBelow
      <4>3. Field(0, i, 1) = 0
        <5>1. PICK zero \in Nat : zero = 0 /\ zero < powers[zero] /\ zero <= i
          BY <3>1, PowersFacts
        <5>2. /\ zero <= i => zero \div powers[i] = 0 /\ Field(zero, i, 1) = 0
              /\ zero <= i + 1 => Field(zero, i, 1) = zero \div powers[i]
          BY <3>1, <5>1, FieldBeyond
        <5> QED
          BY <5>1, <5>2
      <4> QED
        BY <2>5, <3>1, <4>1, <4>2, <4>3
    <3>3. CASE ~(i < n)
      <4>1. PICK g \in Nat : g = i - n /\ g + n = i /\ g + 1 <= m /\ g = i - by /\ g \in 0..(p - 1)
        BY <2>1, <2>2, <3>1, <3>3
      <4>2. Field(low * powers[n] + 0, g + n, 1) = Field(low, g, 1)
        BY <2>1, <2>4, <3>1, FieldAbove
      <4>3. Field(c % powers[m], g, 1) = Field(c, g, 1)
        BY <3>1, <4>1, FieldOfRest
      <4>4. DigitAt(c, g) = Field(c, g, 1)
        BY DigitIsField
      <4> QED
        BY <2>3, <2>5, <3>1, <4>1, <4>2, <4>3, <4>4
    <3> QED
      BY <3>2, <3>3
  <2>8. ShiftedTo(v, x, y, cx)
    BY <1>0, <1>1, <1>2, <2>5, <2>6, <2>7 DEF ShiftedTo
  <2> QED
    BY <2>8
<1>6. CASE by < 0
  <2>1. PICK n \in Nat \ {0} : n = -by
    BY <1>6
  <2>2. PICK v \in Nat : v = c \div powers[n] /\ v < powers[p]
    <3>1. PICK q \in Nat \ {0} : q = powers[n]
      BY PowerPick
    <3>2. c \div q \in Nat /\ c % q \in Nat /\ c = (c \div q) * q + (c % q)
      BY Euclid
    <3>3. PICK h \in Nat : h = c \div q
      BY <3>2
    <3>4. h * 1 <= h * q /\ h * q \in Nat
      <4>1. 1 <= q /\ 1 \in Nat /\ q \in Nat
        OBVIOUS
      <4> QED
        BY <4>1, MulGrows
    <3>5. h <= c
      BY <3>2, <3>3, <3>4
    <3>6. powers[p] \in Nat
      BY PowersFacts
    <3> QED
      BY <1>2, <3>1, <3>3, <3>5, <3>6
  <2>3. Shift(x, y, cx) = Plain([x EXCEPT !.coef = v])
    <3>1. ShiftRight(x, n) = [x EXCEPT !.coef = x.coef \div powers[n]]
      BY <1>0, ShiftRightIs
    <3>2. by # 0 /\ ~(by > 0)
      BY <1>6
    <3> QED
      BY <1>2, <1>3, <2>1, <2>2, <3>1, <3>2
  <2>4. ASSUME NEW i \in 0..(p - 1)
        PROVE  DigitAt(v, i) = IF i - by \in 0..(p - 1) THEN DigitAt(c, i - by) ELSE 0
    <3>1. i \in Nat /\ 1 \in Nat /\ DigitAt(v, i) = Field(v, i, 1)
      BY DigitIsField
    <3>2. PICK h \in Nat : h = i + n /\ h = i - by
      BY <2>1
    <3>3. Field(c \div powers[n], i, 1) = Field(c, i + n, 1)
      BY <3>1, FieldDown
    <3>4. DigitAt(c, h) = Field(c, h, 1)
      BY DigitIsField
    <3>5. /\ p <= h => c \div powers[h] = 0 /\ Field(c, h, 1) = 0
          /\ p <= h + 1 => Field(c, h, 1) = c \div powers[h]
      BY <1>2, <3>1, FieldBeyond
    <3>6. DigitAt(v, i) = Field(c, h, 1)
      BY <2>2, <3>1, <3>2, <3>3
    <3>7. CASE h < p
      <4>1. i - by \in 0..(p - 1)
        BY <3>2, <3>7
      <4> QED
        BY <3>2, <3>4, <3>6, <4>1
    <3>8. CASE ~(h < p)
      <4>1. i - by \notin 0..(p - 1)
        BY <3>2, <3>8
      <4> QED
        BY <3>5, <3>6, <3>8, <4>1
    <3> QED
      BY <3>7, <3>8
  <2>5. ShiftedTo(v, x, y, cx)
    BY <1>0, <1>1, <1>2, <2>2, <2>3, <2>4 DEF ShiftedTo
  <2> QED
    BY <2>5
<1>7. by = 0 \/ by > 0 \/ by < 0
  OBVIOUS
<1> QED
  BY <1>4, <1>5, <1>6, <1>7, Zenon

LEMMA DigitsMake ==
    ASSUME NEW p \in Nat, NEW v \in Nat, v < powers[p], NEW g,
           g = [i \in 1..p |-> g[i]], \A i \in 1..p : g[i] = DigitAt(v, i - 1)
    PROVE  FromDigits(g) = v
<1>1. g = [i \in 1..p |-> DigitAt(v, i - 1)]
  BY Zenon
<1>2. v % powers[p] = v
  BY RestOfSmall
<1> QED
  BY <1>1, <1>2, FromDigitsIs

LEMMA DigitsAreMoved == CallIs => DigitsMoved
<1> SUFFICES ASSUME CallIs, Is({"Rotate", "Shift"}), Numbers2, ~IsSpecial(l), ~IsNaN(res),
                    Digits(l.coef) <= set.digits
             PROVE  LET by == GetInt(r).value
                        p  == set.digits
                        source(i) == IF call.routine = "Rotate" THEN (i - by + p) % p
                                     ELSE i - by
                        digit(i) == IF i \in 0..(p - 1) THEN DigitAt(l.coef, i) ELSE 0
                    IN  res = [l EXCEPT !.coef = FromDigits(
                                   [i \in 1..p |-> digit(source(i - 1))])]
  BY Zenon DEF DigitsMoved
<1>1. Reported /\ call.routine \notin Binarily /\ call.routine \in {"Rotate", "Shift"}
  BY DEF Is, Binarily
<1>2. Valid(l) /\ Valid(r) /\ IsContext(set) /\ ~IsNaN(l) /\ ~IsNaN(r)
  BY <1>1, Ends DEF Operands, Numbers2
<1>3. PICK w : Outcome(w) /\ status = w.status /\ res = AfterStatus(w.dn, w.status)
  BY <1>1, Ends
<1>4. w = IF call.routine = "Rotate" THEN Rotate(l, r, set) ELSE Shift(l, r, set)
  BY <1>1, <1>3 DEF Outcome, OutcomeOfOrder, OutcomeOfCopy, OutcomeOfExponent, OutcomeOfDigits,
                    Textual
<1>5. PICK p \in Nat \ {0} : p = set.digits
  BY <1>2 DEF IsContext
<1>6. l \in Numbers /\ l.kind = "finite" /\ l.coef \in Nat
  BY <1>2, ValidFields DEF IsSpecial
<1>7. l.coef < powers[p]
  BY <1>5, <1>6, DigitsAtMost
<1>8. CountOf(r, set).ok
  <2> SUFFICES ASSUME ~CountOf(r, set).ok PROVE FALSE
    OBVIOUS
  <2>1. w = Invalid(l, Plain(l))
    BY <1>2, <1>4, Zenon DEF Rotate, Shift
  <2> QED
    BY <1>3, <2>1, InvalidIsNaN
<1>9. PICK by \in (-p)..p : by = GetInt(r).value
  BY <1>5, <1>8, CountIs
<1>10. ASSUME NEW v \in Nat, w = Plain([l EXCEPT !.coef = v]) PROVE res = [l EXCEPT !.coef = v]
  <2>1. PICK n : n = [l EXCEPT !.coef = v]
    OBVIOUS
  <2>2. w.dn = n /\ w.status \cap NaNFlags = {}
    BY <1>10, <2>1, PlainIs
  <2> QED
    BY <1>3, <2>1, <2>2, NoNaNFlag
<1>13. Movable(l, r, set)
  BY <1>2, <1>5, <1>6, <1>7, <1>8 DEF Movable
<1> DEFINE digit(i) == IF i \in 0..(p - 1) THEN DigitAt(l.coef, i) ELSE 0
<1>11. CASE call.routine = "Rotate"
  <2>0. PICK v \in Nat : RotatedTo(v, l, r, set)
    BY <1>13, RotateMoves, Zenon
  <2>1. /\ v < powers[p]
        /\ Rotate(l, r, set) = Plain([l EXCEPT !.coef = v])
        /\ \A i \in 0..(p - 1) :
               DigitAt(v, i) = DigitAt(l.coef, (i - GetInt(r).value + p) % p)
    BY <1>5, <2>0, Zenon DEF RotatedTo
  <2> DEFINE g == [i \in 1..p |-> digit(((i - 1) - by + p) % p)]
  <2>2. \A k \in 1..p : g[k] = DigitAt(v, k - 1)
    <3> SUFFICES ASSUME NEW k \in 1..p PROVE g[k] = DigitAt(v, k - 1)
      OBVIOUS
    <3>0. PICK i \in 0..(p - 1) : i = k - 1
      OBVIOUS
    <3>1. PICK e \in Nat : e = i - by + p
      OBVIOUS
    <3>2. e % p \in 0..(p - 1)
      BY Euclid
    <3> QED
      BY <1>9, <2>1, <3>0, <3>1, <3>2
  <2>3. FromDigits(g) = v
    <3>1. g = [k \in 1..p |-> g[k]]
      OBVIOUS
    <3> HIDE DEF g
    <3> QED
      BY <2>1, <2>2, <3>1, DigitsMake
  <2>4. res = [l EXCEPT !.coef = v]
    BY <1>4, <1>10, <1>11, <2>1
  <2> QED
    BY <1>5, <1>9, <1>11, <2>3, <2>4
<1>12. CASE call.routine = "Shift"
  <2>0. PICK v \in Nat : ShiftedTo(v, l, r, set)
    BY <1>13, ShiftMoves, Zenon
  <2>1. /\ v < powers[p]
        /\ Shift(l, r, set) = Plain([l EXCEPT !.coef = v])
        /\ \A i \in 0..(p - 1) :
               DigitAt(v, i) = IF i - GetInt(r).value \in 0..(p - 1)
                               THEN DigitAt(l.coef, i - GetInt(r).value) ELSE 0
    BY <1>5, <2>0, Zenon DEF ShiftedTo
  <2> DEFINE g == [i \in 1..p |-> digit((i - 1) - by)]
  <2>2. \A k \in 1..p : g[k] = DigitAt(v, k - 1)
    <3> SUFFICES ASSUME NEW k \in 1..p PROVE g[k] = DigitAt(v, k - 1)
      OBVIOUS
    <3>0. PICK i \in 0..(p - 1) : i = k - 1
      OBVIOUS
    <3> QED
      BY <1>9, <2>1, <3>0
  <2>3. FromDigits(g) = v
    <3>1. g = [k \in 1..p |-> g[k]]
      OBVIOUS
    <3> HIDE DEF g
    <3> QED
      BY <2>1, <2>2, <3>1, DigitsMake
  <2>4. res = [l EXCEPT !.coef = v]
    BY <1>4, <1>10, <1>12, <2>1
  <2> QED
    BY <1>5, <1>9, <1>12, <2>3, <2>4
<1> QED
  BY <1>1, <1>11, <1>12

\* Every digit of a coefficient that fits the precision ends where the count says,
\* turned or shifted, for every length of Unit and every split of the count into
\* Units: Rotate, Shift.
THEOREM DigitsAreWhereTold == Spec => []DigitsMoved
<1>1. Spec => []CallIs
  BY CallInvariant
<1>2. CallIs => DigitsMoved
  BY DigitsAreMoved
<1> QED
  BY <1>1, <1>2, PTL

=============================================================================
