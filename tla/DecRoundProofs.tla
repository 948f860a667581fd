--------------------------- MODULE DecRoundProofs ---------------------------
(***************************************************************************)
(* Proofs about the rounding core of decNumber, for every precision,       *)
(* exponent range, mode and length of Unit: what decSetCoeff leaves in the *)
(* residue tells on which side of half the digits cut off lie, and         *)
(* decFinalize turns a coefficient and a residue into the number that      *)
(* rounding the exact value once would have given, with its flags.         *)
(***************************************************************************)
EXTENDS DecUnits, DecReference, LeastNumber, SequenceTheorems

(***************************************************************************)
(* Powers of ten.                                                          *)
(***************************************************************************)
LEMMA PowersFacts ==
    /\ powers[0] = 1
    /\ \A k \in Nat : powers[k + 1] = 10 * powers[k]
    /\ \A k \in Nat : powers[k] \in Nat /\ powers[k] >= 1
<1> DEFINE step == [k \in Nat |-> [x \in Nat |-> 10 * x]]
           IsPower(f) == f = [k \in Nat |-> IF k = 0 THEN 1 ELSE 10 * f[k - 1]]
<1>1. \E f : IsPower(f)
  <2>1. 1 \in Nat /\ \A k \in Nat : \A x \in Nat : step[k][x] \in Nat
    OBVIOUS
  <2>2. \A k, x \in Nat : step[k][x] = 10 * x
    OBVIOUS
  <2> HIDE DEF step
  <2>3. PICK f : IsRecursive(f, Nat, 1, step)
    BY <2>1, Recursion
  <2>4. ASSUME NEW k \in Nat PROVE f[k] = IF k = 0 THEN 1 ELSE 10 * f[k - 1]
    <3>1. CASE k = 0
      BY <2>3, <3>1 DEF IsRecursive
    <3>2. CASE k # 0
      <4>1. k - 1 \in Nat /\ (k - 1) + 1 = k
        BY <3>2
      <4>2. f[k - 1] \in Nat /\ f[k] = step[k - 1][f[k - 1]]
        BY <2>3, <4>1 DEF IsRecursive
      <4> QED
        BY <2>2, <3>2, <4>1, <4>2
    <3> QED
      BY <3>1, <3>2
  <2>5. f = [k \in Nat |-> f[k]]
    BY <2>3 DEF IsRecursive
  <2> QED
    BY <2>4, <2>5
<1>2. IsPower(powers)
  BY <1>1 DEF powers
<1>3. \A k \in Nat : powers[k] = IF k = 0 THEN 1 ELSE 10 * powers[k - 1]
  BY <1>2, Zenon
<1>4. powers[0] = 1
  BY <1>3
<1>5. ASSUME NEW k \in Nat PROVE powers[k + 1] = 10 * powers[k]
  <2>1. k + 1 \in Nat /\ k + 1 # 0 /\ (k + 1) - 1 = k
    OBVIOUS
  <2> QED
    BY <1>3, <2>1, Zenon
<1>6. ASSUME NEW n \in Nat PROVE powers[n] \in Nat /\ powers[n] >= 1
  <2> DEFINE Good == {k \in 0..n : powers[k] \in Nat /\ powers[k] >= 1}
  <2>1. 0 \in Good
    BY <1>4
  <2>2. ASSUME NEW k \in 1..n, k - 1 \in Good PROVE k \in Good
    <3>1. k - 1 \in Nat /\ (k - 1) + 1 = k /\ powers[k - 1] \in Nat /\ powers[k - 1] >= 1
      BY <2>2
    <3>2. powers[k] = 10 * powers[k - 1]
      BY <1>5, <3>1
    <3> QED
      BY <3>1, <3>2
  <2> HIDE DEF Good
  <2>3. \A k \in 0..n : k \in Good
    BY <2>1, <2>2, Climb
  <2> QED
    BY <2>3 DEF Good
<1> QED
  BY <1>4, <1>5, <1>6

LEMMA PowersStep ==
    ASSUME NEW k \in Nat \ {0}
    PROVE  powers[k] = 10 * powers[k - 1] /\ powers[k - 1] \in Nat \ {0} /\ powers[k] \in Nat \ {0}
<1>1. k - 1 \in Nat /\ (k - 1) + 1 = k
  OBVIOUS
<1>2. powers[(k - 1) + 1] = 10 * powers[k - 1] /\ powers[k - 1] \in Nat /\ powers[k - 1] >= 1
  BY <1>1, PowersFacts
<1> QED
  BY <1>1, <1>2

LEMMA PowersSum ==
    ASSUME NEW j \in Nat, NEW n \in Nat
    PROVE  powers[j + n] = powers[j] * powers[n]
<1> DEFINE Good == {k \in 0..n : powers[j + k] = powers[j] * powers[k]}
<1>1. 0 \in Good
  BY PowersFacts
<1>2. ASSUME NEW k \in 1..n, k - 1 \in Good PROVE k \in Good
  <2>1. /\ k - 1 \in Nat /\ (k - 1) + 1 = k
        /\ j + (k - 1) \in Nat /\ (j + (k - 1)) + 1 = j + k
    OBVIOUS
  <2>2. powers[k] = 10 * powers[k - 1] /\ powers[j + k] = 10 * powers[j + (k - 1)]
    BY <2>1, PowersFacts
  <2>3. powers[j + (k - 1)] = powers[j] * powers[k - 1]
    BY <1>2
  <2>4. powers[j] \in Nat /\ powers[k - 1] \in Nat
    BY <2>1, PowersFacts
  <2>5. 10 * (powers[j] * powers[k - 1]) = powers[j] * (10 * powers[k - 1])
    BY <2>4
  <2> QED
    BY <2>2, <2>3, <2>5
<1> HIDE DEF Good
<1>3. \A k \in 0..n : k \in Good
  BY <1>1, <1>2, Climb
<1>4. n \in 0..n
  OBVIOUS
<1> QED
  BY <1>3, <1>4 DEF Good

\* n digits hold more than n
LEMMA PowersExceed ==
    ASSUME NEW n \in Nat
    PROVE  n < powers[n]
<1> DEFINE Good == {k \in 0..n : k < powers[k]}
<1>1. 0 \in Good
  BY PowersFacts
<1>2. ASSUME NEW k \in 1..n, k - 1 \in Good PROVE k \in Good
  <2>1. powers[k] = 10 * powers[k - 1] /\ powers[k - 1] \in Nat
    BY PowersStep
  <2>2. k - 1 < powers[k - 1]
    BY <1>2
  <2> QED
    BY <2>1, <2>2
<1> HIDE DEF Good
<1>3. \A k \in 0..n : k \in Good
  BY <1>1, <1>2, Climb
<1> QED
  BY <1>3 DEF Good

LEMMA MulGrows ==
    ASSUME NEW a \in Nat, NEW b \in Nat, NEW c \in Nat, a <= b
    PROVE  a * c <= b * c /\ c * a <= c * b /\ a * c \in Nat /\ b * c \in Nat
<1>1. PICK d \in Nat : b = a + d
  <2>1. b - a \in Nat /\ b = a + (b - a)
    OBVIOUS
  <2> QED
    BY <2>1
<1>2. (a + d) * c = a * c + d * c /\ d * c \in Nat /\ a * c \in Nat
      /\ c * (a + d) = c * a + c * d /\ c * d \in Nat /\ c * a \in Nat
  OBVIOUS
<1> QED
  BY <1>1, <1>2

LEMMA PowersGrow ==
    ASSUME NEW a \in Nat, NEW b \in Nat
    PROVE  /\ a <= b => powers[a] <= powers[b]
           /\ a < b => 10 * powers[a] <= powers[b]
<1>1. ASSUME NEW i \in Nat, NEW j \in Nat, i <= j PROVE powers[i] <= powers[j]
  <2>1. j - i \in Nat /\ i + (j - i) = j
    BY <1>1
  <2>2. powers[j] = powers[i] * powers[j - i]
    BY <2>1, PowersSum
  <2>3. powers[i] \in Nat /\ powers[j - i] \in Nat /\ 1 <= powers[j - i]
    BY <2>1, PowersFacts
  <2>4. powers[i] * 1 <= powers[i] * powers[j - i]
    BY <2>3, MulGrows
  <2> QED
    BY <2>2, <2>3, <2>4
<1>2. ASSUME a < b PROVE 10 * powers[a] <= powers[b]
  <2>1. powers[a + 1] <= powers[b]
    BY <1>1, <1>2
  <2> QED
    BY <2>1, PowersFacts
<1> QED
  BY <1>1, <1>2

(***************************************************************************)
(* Quotients.                                                              *)
(***************************************************************************)
LEMMA Euclid ==
    ASSUME NEW n \in Nat, NEW u \in Nat \ {0}
    PROVE  /\ n \div u \in Nat /\ n % u \in Nat /\ n % u < u
           /\ n = (n \div u) * u + (n % u)
<1>1. n \div u \in Nat
  OBVIOUS
<1>2. n % u \in 0..(u - 1)
  OBVIOUS
<1>3. n = u * (n \div u) + (n % u)
  OBVIOUS
<1>4. u * (n \div u) = (n \div u) * u
  BY <1>1
<1> QED
  BY <1>1, <1>2, <1>3, <1>4

\* p and q are quotient and rest of n by u if they look like it
LEMMA QuotientIs ==
    ASSUME NEW n \in Nat, NEW u \in Nat \ {0}, NEW p \in Nat, NEW r \in Nat,
           r < u, n = p * u + r
    PROVE  n \div u = p /\ n % u = r
<1>1. PICK a \in Nat, b \in Nat : a = n \div u /\ b = n % u
  BY Euclid
<1>2. n = a * u + b /\ b < u
  BY <1>1, Euclid
<1>3. ASSUME a < p PROVE FALSE
  <2>1. (a + 1) * u <= p * u /\ (a + 1) * u = a * u + u
    BY <1>3, MulGrows
  <2>2. PICK x \in Nat, y \in Nat : x = a * u /\ y = p * u
    OBVIOUS
  <2> QED
    BY <1>2, <2>1, <2>2
<1>4. ASSUME p < a PROVE FALSE
  <2>1. (p + 1) * u <= a * u /\ (p + 1) * u = p * u + u
    BY <1>4, MulGrows
  <2>2. PICK x \in Nat, y \in Nat : x = a * u /\ y = p * u
    OBVIOUS
  <2> QED
    BY <1>2, <2>1, <2>2
<1>5. a = p
  BY <1>3, <1>4
<1>6. PICK y \in Nat : y = p * u
  OBVIOUS
<1> QED
  BY <1>1, <1>2, <1>5, <1>6

\* cutting twice is cutting once, and the two rests make one
LEMMA QuotientTwice ==
    ASSUME NEW n \in Nat, NEW u \in Nat \ {0}, NEW v \in Nat \ {0}
    PROVE  /\ v * u \in Nat \ {0}
           /\ n \div (v * u) = (n \div u) \div v
           /\ n % (v * u) = ((n \div u) % v) * u + (n % u)
<1>1. PICK m \in Nat, low \in Nat : m = n \div u /\ low = n % u
  BY Euclid
<1>2. PICK c \in Nat, d \in Nat : c = m \div v /\ d = m % v
  BY Euclid
<1>3. n = m * u + low /\ low < u /\ m = c * v + d /\ d < v
  BY <1>1, <1>2, Euclid
<1>4. v * u \in Nat \ {0}
  OBVIOUS
<1>5. (c * v + d) * u = c * (v * u) + d * u /\ d * u \in Nat /\ c * (v * u) \in Nat
  OBVIOUS
<1>6. (d + 1) * u <= v * u /\ (d + 1) * u = d * u + u
  BY <1>3, MulGrows
<1>7. PICK x \in Nat, y \in Nat, z \in Nat : x = d * u /\ y = v * u /\ z = c * (v * u)
  BY <1>5
<1>8. n = z + (x + low) /\ x + low < y
  <2>1. n = (c * v + d) * u + low
    BY <1>3
  <2>2. x + u <= y
    BY <1>6, <1>7
  <2> QED
    BY <2>1, <2>2, <1>3, <1>5, <1>7
<1>9. n \div (v * u) = c /\ n % (v * u) = x + low
  <2>1. n = c * (v * u) + (x + low) /\ x + low \in Nat /\ x + low < v * u
    BY <1>7, <1>8
  <2> QED
    BY <1>4, <2>1, QuotientIs
<1> QED
  BY <1>1, <1>2, <1>4, <1>7, <1>9

(***************************************************************************)
(* The length of a coefficient.                                            *)
(***************************************************************************)
HasLength(c, d) == d \in Nat \ {0} /\ powers[d - 1] <= c /\ c < powers[d]

LEMMA LengthExists ==
    ASSUME NEW c \in Nat \ {0}
    PROVE  \E d \in Nat \ {0} : HasLength(c, d)
<1> DEFINE T == {d \in Nat : c < powers[d]}
<1>1. c \in T
  BY PowersExceed
<1>2. PICK d \in T : \A y \in T : d <= y
  <2>1. T \subseteq Nat /\ T # {}
    BY <1>1
  <2> HIDE DEF T
  <2> QED
    BY <2>1, Least
<1>3. d \in Nat \ {0}
  BY PowersFacts
<1>4. d - 1 \notin T /\ d - 1 \in Nat
  BY <1>2, <1>3
<1>5. powers[d - 1] <= c
  BY <1>3, <1>4, PowersFacts
<1> QED
  BY <1>3, <1>5 DEF HasLength

LEMMA LengthUnique ==
    ASSUME NEW c \in Nat \ {0}, NEW d, NEW e, HasLength(c, d), HasLength(c, e)
    PROVE  d = e
<1>1. ASSUME NEW i, NEW j, HasLength(c, i), HasLength(c, j), i < j PROVE FALSE
  <2>1. i \in Nat /\ j - 1 \in Nat /\ i <= j - 1 /\ c < powers[i] /\ powers[j - 1] <= c
    BY <1>1 DEF HasLength
  <2>2. powers[i] <= powers[j - 1] /\ powers[i] \in Nat /\ powers[j - 1] \in Nat
    BY <2>1, PowersGrow, PowersFacts
  <2> QED
    BY <2>1, <2>2
<1>2. d \in Nat /\ e \in Nat
  BY DEF HasLength
<1> QED
  BY <1>1, <1>2

\* what the search in Digits asks of a length
LEMMA LengthLead ==
    ASSUME NEW c \in Nat \ {0}, NEW d \in Nat \ {0}
    PROVE  HasLength(c, d) <=> c \div powers[d - 1] \in 1..9
<1>1. PICK u \in Nat \ {0} : u = powers[d - 1] /\ powers[d] = 10 * u
  BY PowersStep
<1>2. PICK m \in Nat, r \in Nat : m = c \div u /\ r = c % u
  BY Euclid
<1>3. c = m * u + r /\ r < u
  BY <1>2, Euclid
<1>4. ASSUME HasLength(c, d) PROVE m \in 1..9
  <2>1. u <= c /\ c < 10 * u
    BY <1>1, <1>4 DEF HasLength
  <2>2. m # 0
    BY <1>3, <2>1
  <2>3. ASSUME m >= 10 PROVE FALSE
    <3>1. 10 * u <= m * u
      BY <2>3, MulGrows
    <3>2. PICK x \in Nat : x = m * u
      OBVIOUS
    <3> QED
      BY <1>3, <2>1, <3>1, <3>2
  <2> QED
    BY <2>2, <2>3
<1>5. ASSUME m \in 1..9 PROVE HasLength(c, d)
  <2>1. 1 * u <= m * u /\ m * u <= 9 * u
    BY <1>5, MulGrows
  <2>2. PICK x \in Nat : x = m * u
    OBVIOUS
  <2>3. u <= c /\ c < 10 * u
    BY <1>3, <2>1, <2>2
  <2> QED
    BY <1>1, <2>3 DEF HasLength
<1> QED
  BY <1>1, <1>2, <1>4, <1>5

\* a length is at most a number's tenth-power part and nine
LEMMA LengthBound ==
    ASSUME NEW c \in Nat \ {0}, NEW d, HasLength(c, d)
    PROVE  d \in 1..(9 + (c \div powers[9]))
<1>1. powers[9] \in Nat \ {0}
  BY PowersFacts
<1>2. PICK m \in Nat : m = c \div powers[9]
  BY <1>1, Euclid
<1>3. d \in Nat \ {0} /\ powers[d - 1] <= c
  BY DEF HasLength
<1>4. CASE d <= 9
  BY <1>2, <1>3, <1>4
<1>5. CASE d > 9
  <2>1. d - 10 \in Nat /\ (d - 10) + 9 = d - 1
    BY <1>3, <1>5
  <2>2. powers[d - 1] = powers[d - 10] * powers[9] /\ powers[d - 10] \in Nat
        /\ d - 10 < powers[d - 10]
    <3>1. powers[(d - 10) + 9] = powers[d - 10] * powers[9]
      BY <2>1, PowersSum
    <3> QED
      BY <2>1, <3>1, PowersExceed, PowersFacts
  <2>3. ASSUME m < powers[d - 10] PROVE FALSE
    <3>1. (m + 1) * powers[9] <= powers[d - 10] * powers[9]
      BY <1>1, <2>2, <2>3, MulGrows
    <3>2. c = m * powers[9] + (c % powers[9]) /\ c % powers[9] \in Nat
          /\ c % powers[9] < powers[9]
      BY <1>1, <1>2, Euclid
    <3>3. PICK y \in Nat : y = powers[9]
      BY <1>1
    <3>4. PICK x \in Nat : x = m * y /\ (m + 1) * y = x + y
      OBVIOUS
    <3> QED
      BY <1>3, <2>2, <3>1, <3>2, <3>3, <3>4
  <2> QED
    BY <1>2, <1>3, <2>2, <2>3
<1> QED
  BY <1>3, <1>4, <1>5

\* Digits finds the length
LEMMA DigitsLength ==
    ASSUME NEW c \in Nat \ {0}
    PROVE  HasLength(c, Digits(c))
<1> DEFINE R == 1..(9 + (c \div powers[9]))
           Leads(d) == c \div powers[d - 1] \in 1..9
<1>1. PICK d \in Nat \ {0} : HasLength(c, d)
  BY LengthExists
<1>2. d \in R /\ Leads(d)
  BY <1>1, LengthBound, LengthLead
<1>3. Digits(c) = CHOOSE x \in R : Leads(x)
  BY DEF Digits
<1>4. R \subseteq Nat \ {0}
  OBVIOUS
<1> HIDE DEF R, Leads
<1>5. Digits(c) \in R /\ Leads(Digits(c))
  BY <1>2, <1>3
<1> QED
  BY <1>4, <1>5, LengthLead DEF Leads

LEMMA DigitsFacts ==
    ASSUME NEW c \in Nat
    PROVE  /\ Digits(c) \in Nat \ {0} /\ c < powers[Digits(c)]
           /\ c # 0 => powers[Digits(c) - 1] <= c
           /\ c = 0 => Digits(c) = 1
<1>1. CASE c = 0
  <2>1. Digits(c) = 1
    BY <1>1 DEF Digits
  <2> QED
    BY <1>1, <2>1, PowersFacts
<1>2. CASE c # 0
  BY <1>2, DigitsLength DEF HasLength
<1> QED
  BY <1>1, <1>2

LEMMA DigitsAre ==
    ASSUME NEW c \in Nat, NEW d \in Nat \ {0}, powers[d - 1] <= c, c < powers[d]
    PROVE  Digits(c) = d
<1>1. c # 0
  BY PowersStep
<1> QED
  BY <1>1, DigitsLength, LengthUnique DEF HasLength

LEMMA DigitsAtMost ==
    ASSUME NEW c \in Nat, NEW d \in Nat \ {0}
    PROVE  Digits(c) <= d <=> c < powers[d]
<1>1. PICK e \in Nat \ {0} : e = Digits(c)
  BY DigitsFacts
<1>2. c < powers[e] /\ powers[e] \in Nat /\ powers[d] \in Nat
  BY <1>1, DigitsFacts, PowersFacts
<1>3. e <= d => powers[e] <= powers[d]
  BY PowersGrow
<1>4. ASSUME d < e, c < powers[d] PROVE FALSE
  <2>1. d <= e - 1 /\ e - 1 \in Nat /\ e # 1
    BY <1>4
  <2>2. powers[d] <= powers[e - 1] /\ powers[e - 1] \in Nat
    BY <2>1, PowersGrow, PowersFacts
  <2>3. c # 0
    BY <1>1, <2>1, DigitsFacts
  <2>4. powers[e - 1] <= c
    BY <1>1, <2>3, DigitsFacts
  <2> QED
    BY <1>2, <1>4, <2>2, <2>4
<1> QED
  BY <1>1, <1>2, <1>3, <1>4

LEMMA DigitsGrow ==
    ASSUME NEW a \in Nat, NEW b \in Nat, a <= b
    PROVE  Digits(a) <= Digits(b)
<1>1. PICK d \in Nat \ {0} : d = Digits(b) /\ b < powers[d]
  BY DigitsFacts
<1>2. a < powers[d]
  BY <1>1, PowersFacts
<1> QED
  BY <1>1, <1>2, DigitsAtMost

LEMMA DigitsOfPower ==
    ASSUME NEW k \in Nat
    PROVE  /\ Digits(powers[k]) = k + 1
           /\ k # 0 => Digits(powers[k] - 1) = k
<1>1. PICK p \in Nat \ {0} : p = powers[k] /\ powers[k + 1] = 10 * p
  BY PowersFacts
<1>2. Digits(p) = k + 1
  <2>1. k + 1 \in Nat \ {0} /\ (k + 1) - 1 = k
    OBVIOUS
  <2> QED
    BY <1>1, <2>1, DigitsAre
<1>3. ASSUME k # 0 PROVE Digits(p - 1) = k
  <2>1. k \in Nat \ {0} /\ powers[k] = 10 * powers[k - 1] /\ powers[k - 1] \in Nat \ {0}
    BY <1>3, PowersStep
  <2>2. p - 1 \in Nat /\ powers[k - 1] <= p - 1 /\ p - 1 < powers[k]
    BY <1>1, <2>1
  <2> QED
    BY <2>1, <2>2, DigitsAre
<1> QED
  BY <1>1, <1>2, <1>3

\* A number is c times a power of ten and a little more, or a little less:
\* its length is that of c and the power's.
LEMMA DigitsAbove ==
    ASSUME NEW c \in Nat \ {0}, NEW k \in Nat, NEW rest \in Nat, rest < powers[k]
    PROVE  Digits(c * powers[k] + rest) = Digits(c) + k
<1>1. PICK d \in Nat \ {0} : d = Digits(c) /\ powers[d - 1] <= c /\ c < powers[d]
  BY DigitsFacts
<1>2. PICK u \in Nat \ {0} : u = powers[k]
  BY PowersFacts
<1>3. PICK a \in Nat, b \in Nat : a = powers[d - 1] /\ b = powers[d]
  BY PowersStep
<1>4. /\ d + k \in Nat \ {0} /\ (d + k) - 1 = (d - 1) + k /\ d - 1 \in Nat
      /\ powers[(d - 1) + k] = a * u /\ powers[d + k] = b * u
  <2>1. d + k \in Nat \ {0} /\ (d + k) - 1 = (d - 1) + k /\ d - 1 \in Nat
    OBVIOUS
  <2> QED
    BY <1>2, <1>3, <2>1, PowersSum
<1>5. a * u <= c * u /\ (c + 1) * u <= b * u /\ (c + 1) * u = c * u + u
  BY <1>1, <1>3, MulGrows
<1>6. PICK x \in Nat, y \in Nat, z \in Nat : x = a * u /\ y = c * u /\ z = b * u
  OBVIOUS
<1>7. y + rest \in Nat /\ powers[(d + k) - 1] <= y + rest /\ y + rest < powers[d + k]
  BY <1>2, <1>4, <1>5, <1>6
<1>8. Digits(y + rest) = d + k
  BY <1>4, <1>7, DigitsAre
<1> QED
  BY <1>1, <1>2, <1>6, <1>8

LEMMA DigitsScaled ==
    ASSUME NEW c \in Nat \ {0}, NEW k \in Nat
    PROVE  Digits(c * powers[k]) = Digits(c) + k
<1>1. 0 < powers[k] /\ powers[k] \in Nat
  BY PowersFacts
<1>2. Digits(c * powers[k] + 0) = Digits(c) + k
  BY <1>1, DigitsAbove
<1>3. c * powers[k] + 0 = c * powers[k]
  BY <1>1
<1> QED
  BY <1>2, <1>3

LEMMA DigitsBelow ==
    ASSUME NEW c \in Nat \ {0}, NEW k \in Nat \ {0}, NEW less \in Nat \ {0},
           less <= powers[k - 1], c # powers[Digits(c) - 1]
    PROVE  Digits(c * powers[k] - less) = Digits(c) + k
<1>1. PICK d \in Nat \ {0} : d = Digits(c) /\ powers[d - 1] <= c /\ c < powers[d]
  BY DigitsFacts
<1>2. powers[d - 1] <= c - 1 /\ c - 1 \in Nat \ {0} /\ c - 1 < powers[d]
  BY <1>1, PowersStep
<1>3. Digits(c - 1) = d
  BY <1>1, <1>2, DigitsAre
<1>4. PICK u \in Nat \ {0}, v \in Nat : u = powers[k] /\ v = powers[k - 1] /\ u = 10 * v
  BY PowersStep
<1>5. u - less \in Nat /\ u - less < powers[k]
  BY <1>4
<1>6. Digits((c - 1) * u + (u - less)) = d + k
  <2>1. PICK e \in Nat \ {0}, w \in Nat : e = c - 1 /\ w = u - less
    BY <1>2, <1>5
  <2>2. w < powers[k]
    BY <1>5, <2>1
  <2>3. Digits(e * powers[k] + w) = Digits(e) + k
    BY <2>1, <2>2, DigitsAbove
  <2> QED
    BY <1>3, <1>4, <2>1, <2>3, Zenon
<1>7. (c - 1) * u + (u - less) = c * u - less
  <2>1. (c - 1) * u = c * u - u
    OBVIOUS
  <2>2. PICK x \in Int : x = c * u
    OBVIOUS
  <2> QED
    BY <2>1, <2>2
<1> QED
  BY <1>1, <1>4, <1>6, <1>7

\* just below a power of ten a number has one digit less
LEMMA DigitsBelowPower ==
    ASSUME NEW d \in Nat, NEW k \in Nat \ {0}, NEW less \in Nat \ {0},
           less <= powers[k - 1]
    PROVE  /\ powers[d] * powers[k] - less \in Nat
           /\ Digits(powers[d] * powers[k] - less) = d + k
<1>1. d + k \in Nat \ {0}
  OBVIOUS
<1>2. powers[d + k] = powers[d] * powers[k]
  BY PowersSum
<1>3. PICK a \in Nat \ {0}, b \in Nat, v \in Nat :
          a = powers[d + k] /\ b = powers[(d + k) - 1] /\ v = powers[k - 1] /\ a = 10 * b
  BY <1>1, PowersStep
<1>4. v <= b
  <2>1. k - 1 \in Nat /\ (d + k) - 1 \in Nat /\ k - 1 <= (d + k) - 1
    OBVIOUS
  <2> QED
    BY <1>3, <2>1, PowersGrow
<1>5. a - less \in Nat /\ powers[(d + k) - 1] <= a - less /\ a - less < powers[d + k]
  BY <1>3, <1>4
<1>6. Digits(a - less) = d + k
  BY <1>1, <1>5, DigitsAre
<1> QED
  BY <1>2, <1>3, <1>5, <1>6

LEMMA DigitsCut ==
    ASSUME NEW c \in Nat \ {0}, NEW k \in Nat
    PROVE  /\ k < Digits(c) => /\ Digits(c \div powers[k]) = Digits(c) - k
                               /\ c \div powers[k] # 0
           /\ k >= Digits(c) => c \div powers[k] = 0
<1>1. PICK d \in Nat \ {0} : d = Digits(c) /\ c < powers[d]
  BY DigitsFacts
<1>2. PICK u \in Nat \ {0} : u = powers[k]
  BY PowersFacts
<1>3. PICK m \in Nat, r \in Nat : m = c \div u /\ r = c % u
  BY Euclid
<1>4. c = m * u + r /\ r < u
  BY <1>3, Euclid
<1>5. ASSUME k < d PROVE Digits(m) = d - k /\ m # 0
  <2>1. m # 0
    <3>1. ASSUME m = 0 PROVE FALSE
      <4>1. c < powers[k]
        BY <1>2, <1>4, <3>1
      <4>2. k # 0
        BY <1>2, <4>1, PowersFacts
      <4>3. Digits(c) <= k
        BY <4>1, <4>2, DigitsAtMost
      <4> QED
        BY <1>1, <1>5, <4>3
    <3> QED
      BY <3>1
  <2>2. Digits(m * u + r) = Digits(m) + k
    BY <1>2, <1>4, <2>1, DigitsAbove
  <2>3. Digits(m) \in Nat
    BY DigitsFacts
  <2> QED
    BY <1>1, <1>4, <2>1, <2>2, <2>3
<1>6. ASSUME k >= d PROVE m = 0
  <2>1. c < u
    BY <1>1, <1>2, <1>6, PowersGrow, PowersFacts
  <2>2. c = 0 * u + c
    OBVIOUS
  <2>3. c \div u = 0
    BY <2>1, <2>2, QuotientIs
  <2> QED
    BY <1>3, <2>3
<1> QED
  BY <1>1, <1>2, <1>3, <1>5, <1>6

(***************************************************************************)
(* What a residue tells.  The exact value lies rest above the coefficient, *)
(* in units of its last place (below it, when rest is negative).           *)
(***************************************************************************)
Tells(r, rest, unit) ==
    \/ r = 0 /\ rest = 0
    \/ r \in 1..4 /\ 0 < rest /\ 2 * rest < unit
    \/ r = 5 /\ 2 * rest = unit
    \/ r \in 6..9 /\ unit < 2 * rest /\ rest < unit
    \/ r = -1 /\ rest < 0 /\ -unit < 20 * rest

\* What a cut needs of the residue of an earlier cut: its sign, and that the
\* value it stands for is less than a unit, and little in the unit the cut
\* makes, if it lies below the coefficient.
Near(r, rest, unit, whole) ==
    \/ r = 0 /\ rest = 0
    \/ r \in 1..9 /\ 0 < rest /\ rest < unit
    \/ r = -1 /\ rest < 0 /\ -unit < rest /\ -whole < 20 * rest

LEMMA TellsNear ==
    ASSUME NEW r \in -1..9, NEW rest \in Int, NEW unit \in Nat \ {0}, NEW whole \in Nat,
           unit <= whole, Tells(r, rest, unit)
    PROVE  Near(r, rest, unit, whole)
BY DEF Tells, Near

\* digits below the decisive one, and an earlier residue, become a sticky bit
StickyBit(r, low) == IF low # 0 THEN 1 ELSE IF r > 1 THEN 1 ELSE r

LEMMA StickyNear ==
    ASSUME NEW r \in -1..9, NEW rest \in Int, NEW unit \in Nat \ {0}, NEW whole \in Nat,
           Near(r, rest, unit, whole), NEW p \in Nat \ {0}, NEW low \in Nat, low < p
    PROVE  /\ StickyBit(r, low) \in -1..1
           /\ Near(StickyBit(r, low), low * unit + rest, p * unit, whole)
<1>1. PICK x \in Nat, y \in Nat : x = low * unit /\ y = p * unit
  OBVIOUS
<1>2. (low + 1) * unit <= p * unit /\ (low + 1) * unit = low * unit + unit
  BY MulGrows
<1>3. x + unit <= y
  BY <1>1, <1>2
<1>4. CASE low = 0
  <2>1. x = 0
    BY <1>1, <1>4
  <2> QED
    BY <1>1, <1>3, <1>4, <2>1 DEF Near, StickyBit
<1>5. CASE low # 0
  <2>1. 1 * unit <= low * unit
    BY <1>5, MulGrows
  <2>2. unit <= x
    BY <1>1, <2>1
  <2>3. 0 < x + rest /\ x + rest < y
    BY <1>3, <2>2 DEF Near
  <2> QED
    BY <1>1, <1>5, <2>3 DEF Near, StickyBit
<1> QED
  BY <1>4, <1>5

\* The decisive digit (or Unit) against one half of its range, with a sticky
\* bit for what is below it.
Against(d, half, s, r) ==
    \/ d = 0 /\ r = s
    \/ 0 < d /\ d < half /\ r \in 2..4
    \/ d = half /\ r = s + 5
    \/ half < d /\ r \in 6..8

LEMMA HalfTells ==
    ASSUME NEW half \in Nat, half >= 5, NEW d \in 0..(2 * half - 1), NEW s \in -1..1,
           NEW t \in Int, NEW u \in Nat \ {0}, NEW r, Against(d, half, s, r),
           Near(s, t, u, (2 * half) * u)
    PROVE  Tells(r, d * u + t, (2 * half) * u) /\ r \in -1..9
<1>1. PICK x \in Nat, h \in Nat : x = d * u /\ h = half * u
  OBVIOUS
<1>2. (2 * half) * u = 2 * h
  BY <1>1
<1>3. 5 * u <= h
  BY <1>1, MulGrows
<1>4. Near(s, t, u, 2 * h)
  BY <1>2, Zenon
<1>5. -u < t /\ t < u /\ (s = 0 <=> t = 0) /\ (s = 1 <=> t > 0) /\ (s = -1 <=> t < 0)
      /\ (s = -1 => -(2 * h) < 20 * t)
  BY <1>4 DEF Near
<1>6. CASE d = 0
  <2>1. x = 0 /\ r = s
    BY <1>1, <1>6 DEF Against
  <2> QED
    BY <1>1, <1>2, <1>3, <1>5, <2>1 DEF Tells
<1>7. CASE 0 < d /\ d < half
  <2>1. 1 * u <= d * u /\ (d + 1) * u <= half * u /\ (d + 1) * u = d * u + u
    BY <1>7, MulGrows
  <2>2. u <= x /\ x + u <= h /\ r \in 2..4
    BY <1>1, <1>7, <2>1 DEF Against
  <2> QED
    BY <1>1, <1>2, <1>5, <2>2 DEF Tells
<1>8. CASE d = half
  <2>1. x = h /\ r = s + 5
    BY <1>1, <1>8 DEF Against
  <2> QED
    BY <1>1, <1>2, <1>3, <1>5, <2>1 DEF Tells
<1>9. CASE half < d
  <2>1. (half + 1) * u <= d * u /\ (half + 1) * u = half * u + u
        /\ (d + 1) * u <= (2 * half) * u /\ (d + 1) * u = d * u + u
    BY <1>9, MulGrows
  <2>2. h + u <= x /\ x + u <= 2 * h /\ r \in 6..8
    BY <1>1, <1>2, <1>9, <2>1 DEF Against
  <2> QED
    BY <1>1, <1>2, <1>5, <2>2 DEF Tells
<1> QED
  BY <1>6, <1>7, <1>8, <1>9

\* half of what a Unit holds
LEMMA HalfUnit ==
    \E half \in Nat : /\ half >= 5 /\ powers[DPUN] = 2 * half
                      /\ powers[DPUN] \div 2 = half
<1>1. powers[DPUN] = 10 * powers[DPUN - 1] /\ powers[DPUN - 1] \in Nat \ {0}
  BY DPUNAssumption, PowersStep
<1>2. PICK q \in Nat \ {0} : q = powers[DPUN - 1] /\ powers[DPUN] = 10 * q
  BY <1>1
<1>3. (10 * q) \div 2 = 5 * q
  OBVIOUS
<1> QED
  BY <1>2, <1>3

\* the two ways of looking at the digits cut off
LEMMA ResidueAgainst ==
    ASSUME NEW coef \in Nat, NEW discard \in Nat \ {0}, NEW s \in -1..1
    PROVE  /\ Against((coef \div powers[discard - 1]) % 10, 5, s,
                      ResidueInUnit(coef, discard, s))
           /\ \A half \in Nat : half >= 5 /\ powers[DPUN] = 2 * half
                                /\ powers[DPUN] \div 2 = half /\ discard >= DPUN
                  => Against((coef \div powers[discard - DPUN]) % powers[DPUN], half, s,
                             ResidueOnBoundary(coef, discard, s))
<1>1. Against((coef \div powers[discard - 1]) % 10, 5, s, ResidueInUnit(coef, discard, s))
  <2>1. powers[discard - 1] \in Nat \ {0}
    BY PowersStep
  <2>2. coef \div powers[discard - 1] \in Nat
    BY <2>1, Euclid
  <2>3. PICK d \in 0..9 : d = (coef \div powers[discard - 1]) % 10
    BY <2>2
  <2>4. ResidueInUnit(coef, discard, s) = s + resmap[d + 1]
    BY <2>3 DEF ResidueInUnit
  <2>5. Against(d, 5, s, s + resmap[d + 1])
    BY DEF Against, resmap
  <2> QED
    BY <2>3, <2>4, <2>5
<1>2. ASSUME NEW half \in Nat, half >= 5, powers[DPUN] = 2 * half,
             powers[DPUN] \div 2 = half, discard >= DPUN
      PROVE  Against((coef \div powers[discard - DPUN]) % powers[DPUN], half, s,
                     ResidueOnBoundary(coef, discard, s))
  <2>1. powers[discard - DPUN] \in Nat \ {0}
    BY <1>2, DPUNAssumption, PowersFacts
  <2>2. coef \div powers[discard - DPUN] \in Nat
    BY <2>1, Euclid
  <2>3. PICK d \in Nat : d = (coef \div powers[discard - DPUN]) % powers[DPUN]
    BY <1>2, <2>2, Euclid
  <2>4. ResidueOnBoundary(coef, discard, s) =
            CASE d > half -> 7
              [] d = half -> s + 5
              [] d \in 1..(half - 1) -> 3
              [] OTHER -> s
    BY <1>2, <2>3 DEF ResidueOnBoundary
  <2>5. Against(d, half, s, ResidueOnBoundary(coef, discard, s))
    <3>1. CASE d > half
      <4>1. ResidueOnBoundary(coef, discard, s) = 7
        BY <2>4, <3>1
      <4> QED
        BY <3>1, <4>1 DEF Against
    <3>2. CASE d = half
      <4>1. ResidueOnBoundary(coef, discard, s) = s + 5
        BY <2>4, <3>2
      <4> QED
        BY <3>2, <4>1 DEF Against
    <3>3. CASE d \in 1..(half - 1)
      <4>1. ResidueOnBoundary(coef, discard, s) = 3
        BY <2>4, <3>3
      <4> QED
        BY <3>3, <4>1 DEF Against
    <3>4. CASE d = 0
      <4>1. ResidueOnBoundary(coef, discard, s) = s
        BY <1>2, <2>4, <3>4
      <4> QED
        BY <3>4, <4>1 DEF Against
    <3> QED
      BY <3>1, <3>2, <3>3, <3>4
  <2> QED
    BY <2>3, <2>5
<1> QED
  BY <1>1, <1>2

\* cutting j digits where half is one half of their range
LEMMA CutAt ==
    ASSUME NEW coef \in Nat, NEW r \in -1..9, NEW i \in Nat, NEW j \in Nat,
           NEW rest \in Int, NEW unit \in Nat \ {0},
           Near(r, rest, unit, powers[i + j] * unit),
           NEW half \in Nat, half >= 5, powers[j] = 2 * half, NEW residue,
           Against((coef \div powers[i]) % powers[j], half,
                   StickyBit(r, coef % powers[i]), residue)
    PROVE  /\ Tells(residue, (coef % powers[i + j]) * unit + rest, powers[i + j] * unit)
           /\ residue \in -1..9
<1>1. PICK p \in Nat \ {0}, v \in Nat \ {0} :
          p = powers[i] /\ v = powers[j] /\ v = 2 * half /\ powers[i + j] = v * p
  <2>1. powers[i] \in Nat \ {0} /\ powers[j] \in Nat \ {0}
    BY PowersFacts
  <2>2. powers[i + j] = powers[i] * powers[j]
    BY PowersSum
  <2>3. powers[i] * powers[j] = powers[j] * powers[i]
    BY <2>1
  <2> QED
    BY <2>1, <2>2, <2>3
<1>2. PICK m \in Nat, low \in Nat : m = coef \div p /\ low = coef % p /\ low < p
  BY Euclid
<1>3. PICK d \in Nat : d = m % v /\ d < v
  BY Euclid
<1>4. coef % (v * p) = d * p + low
  <2>1. coef % (v * p) = ((coef \div p) % v) * p + (coef % p)
    BY QuotientTwice
  <2> QED
    BY <1>2, <1>3, <2>1, Zenon
<1>5. PICK s \in -1..1 : s = StickyBit(r, low)
  BY DEF StickyBit
<1>6. Against(d, half, s, residue)
  BY <1>1, <1>2, <1>3, <1>5, Zenon
<1>7. PICK u \in Nat \ {0} : u = p * unit /\ (v * p) * unit = v * u
  OBVIOUS
<1>8. Near(s, low * unit + rest, u, v * u)
  <2>1. Near(r, rest, unit, v * u)
    BY <1>1, <1>7, Zenon
  <2>2. v * u \in Nat
    OBVIOUS
  <2> QED
    BY <1>2, <1>5, <1>7, <2>1, <2>2, StickyNear
<1>9. PICK t \in Int : t = low * unit + rest
  OBVIOUS
<1>10. d \in 0..(2 * half - 1)
  BY <1>1, <1>3
<1>11. Tells(residue, d * u + t, (2 * half) * u) /\ residue \in -1..9
  <2>1. Near(s, t, u, (2 * half) * u)
    BY <1>1, <1>8, <1>9, Zenon
  <2> QED
    BY <1>6, <1>10, <2>1, HalfTells
<1>12. d * u + t = (d * p + low) * unit + rest
  <2>1. d * u = (d * p) * unit
    BY <1>7
  <2>2. (d * p + low) * unit = (d * p) * unit + low * unit
    OBVIOUS
  <2> QED
    BY <1>9, <2>1, <2>2
<1>13. (2 * half) * u = powers[i + j] * unit
  BY <1>1, <1>7
<1>14. coef % powers[i + j] = d * p + low
  BY <1>1, <1>4
<1> QED
  BY <1>11, <1>12, <1>13, <1>14, Zenon

\* decSetCoeff: whatever it cuts off, the residue tells.
LEMMA CutTells ==
    ASSUME NEW w, w.dn.coef \in Nat, w.residue \in -1..9, NEW discard \in Nat \ {0},
           NEW rest \in Int, NEW unit \in Nat \ {0},
           Near(w.residue, rest, unit, powers[discard] * unit)
    PROVE  /\ CutResidue(w, discard) \in -1..9
           /\ Tells(CutResidue(w, discard), (w.dn.coef % powers[discard]) * unit + rest,
                    powers[discard] * unit)
<1>1. PICK coef \in Nat, r \in -1..9 : coef = w.dn.coef /\ r = w.residue
  OBVIOUS
<1>2. ASSUME NEW low PROVE Sticky(w, low) = StickyBit(r, low)
  BY <1>1 DEF Sticky, StickyBit
<1>3. Near(r, rest, unit, powers[discard] * unit)
  BY <1>1
<1>4. ASSUME NEW i \in Nat PROVE StickyBit(r, coef % powers[i]) \in -1..1
  BY <1>1 DEF StickyBit
<1>5. CASE discard % DPUN = 0
  <2>1. PICK half \in Nat : /\ half >= 5 /\ powers[DPUN] = 2 * half
                            /\ powers[DPUN] \div 2 = half
    BY HalfUnit
  <2>2. DPUN \in Nat \ {0} /\ discard >= DPUN
    <3>1. DPUN \in Nat \ {0}
      BY DPUNAssumption
    <3>2. ASSUME discard < DPUN PROVE FALSE
      <4>1. discard = 0 * DPUN + discard
        BY <3>1
      <4>2. discard % DPUN = discard
        BY <3>1, <3>2, <4>1, QuotientIs
      <4> QED
        BY <1>5, <4>2
    <3> QED
      BY <3>1, <3>2
  <2>3. PICK i \in Nat : i = discard - DPUN /\ i + DPUN = discard
    BY <2>2
  <2>4. PICK s \in -1..1 : s = StickyBit(r, coef % powers[i])
    BY <1>4
  <2>5. CutResidue(w, discard) = ResidueOnBoundary(coef, discard, s)
    BY <1>1, <1>2, <1>5, <2>3, <2>4 DEF CutResidue
  <2>6. Against((coef \div powers[i]) % powers[DPUN], half, s, CutResidue(w, discard))
    BY <2>1, <2>2, <2>3, <2>5, ResidueAgainst
  <2>7. Near(r, rest, unit, powers[i + DPUN] * unit)
    BY <1>3, <2>3
  <2>8. /\ Tells(CutResidue(w, discard), (coef % powers[i + DPUN]) * unit + rest,
                 powers[i + DPUN] * unit)
        /\ CutResidue(w, discard) \in -1..9
    BY <2>1, <2>2, <2>4, <2>6, <2>7, CutAt
  <2> QED
    BY <1>1, <2>3, <2>8, Zenon
<1>6. CASE discard % DPUN # 0
  <2>1. PICK i \in Nat : i = discard - 1 /\ i + 1 = discard
    OBVIOUS
  <2>2. PICK s \in -1..1 : s = StickyBit(r, coef % powers[i])
    BY <1>4
  <2>3. CutResidue(w, discard) = ResidueInUnit(coef, discard, s)
    BY <1>1, <1>2, <1>6, <2>1, <2>2 DEF CutResidue
  <2>4. powers[1] = 10
    BY PowersStep, PowersFacts
  <2>5. Against((coef \div powers[i]) % powers[1], 5, s, CutResidue(w, discard))
    BY <2>1, <2>3, <2>4, ResidueAgainst
  <2>6. Near(r, rest, unit, powers[i + 1] * unit)
    BY <1>3, <2>1
  <2>7. 5 >= 5 /\ powers[1] = 2 * 5
    BY <2>4
  <2>8. /\ Tells(CutResidue(w, discard), (coef % powers[i + 1]) * unit + rest,
                 powers[i + 1] * unit)
        /\ CutResidue(w, discard) \in -1..9
    BY <2>2, <2>5, <2>6, <2>7, CutAt
  <2> QED
    BY <1>1, <2>1, <2>8, Zenon
<1> QED
  BY <1>5, <1>6

(***************************************************************************)
(* Work records and the numbers in them, field by field.                   *)
(***************************************************************************)
LEMMA FiniteFields ==
    ASSUME NEW neg, NEW c, NEW e
    PROVE  /\ Finite(neg, c, e).coef = c /\ Finite(neg, c, e).exp = e
           /\ Finite(neg, c, e).neg = neg /\ Finite(neg, c, e).kind = "finite"
BY DEF Finite

LEMMA WorkFields ==
    ASSUME NEW dn, NEW r, NEW st
    PROVE  /\ Work(dn, r, st).dn = dn /\ Work(dn, r, st).residue = r
           /\ Work(dn, r, st).status = st
BY DEF Work

LEMMA WorkParts ==
    ASSUME NEW dn, NEW r, NEW st, NEW x
    PROVE  /\ [Work(dn, r, st) EXCEPT !.dn = x] = Work(x, r, st)
           /\ [Work(dn, r, st) EXCEPT !.residue = x] = Work(dn, x, st)
           /\ Raise(Work(dn, r, st), x) = Work(dn, r, st \cup x)
<1>1. /\ [Work(dn, r, st) EXCEPT !.dn = x] = Work(x, r, st)
      /\ [Work(dn, r, st) EXCEPT !.residue = x] = Work(dn, x, st)
  BY DEF Work
<1>2. Raise(Work(dn, r, st), x) = Work(dn, r, st \cup x)
  BY DEF Work, Raise
<1> QED
  BY <1>1, <1>2

\* decSetCoeff when it has to cut
\* a coefficient from which discard digits are to be cut
CutBy(c, r, rest, unit, discard, set) ==
    /\ c \in Nat \ {0} /\ r \in -1..9 /\ rest \in Int /\ unit \in Nat \ {0}
    /\ discard \in Nat \ {0} /\ Digits(c) - set.digits = discard
    /\ Near(r, rest, unit, powers[discard] * unit)

CutFlags(st, s) == st \cup {"Rounded"} \cup (IF s = 0 THEN {} ELSE {"Inexact"})

LEMMA SetCoeffCuts ==
    ASSUME NEW neg \in BOOLEAN, NEW e \in Int, NEW st, NEW set, NEW c, NEW r, NEW discard,
           NEW rest, NEW unit, CutBy(c, r, rest, unit, discard, set)
    PROVE  \E s \in -1..9 :
               /\ SetCoeff(Work(Finite(neg, c, e), r, st), set)
                      = Work(Finite(neg, c \div powers[discard], e + discard), s,
                             CutFlags(st, s))
               /\ Tells(s, (c % powers[discard]) * unit + rest, powers[discard] * unit)
<1> DEFINE w == Work(Finite(neg, c, e), r, st)
<1>0. /\ c \in Nat \ {0} /\ r \in -1..9 /\ rest \in Int /\ unit \in Nat \ {0}
      /\ discard \in Nat \ {0} /\ Digits(c) - set.digits = discard
      /\ Near(r, rest, unit, powers[discard] * unit)
  BY DEF CutBy
<1>d. PICK d \in Nat : d = Digits(c) /\ d - set.digits = discard
  BY <1>0, DigitsFacts
<1>1. /\ w.dn = Finite(neg, c, e) /\ w.dn.coef = c /\ w.dn.exp = e
      /\ w.residue = r /\ w.status = st
      /\ \A a, b \in Int : [w.dn EXCEPT !.coef = a, !.exp = b] = Finite(neg, a, b)
  <2>1. w.dn = Finite(neg, c, e) /\ w.residue = r /\ w.status = st
    BY WorkFields
  <2>2. Finite(neg, c, e).coef = c /\ Finite(neg, c, e).exp = e
    BY FiniteFields
  <2>3. ASSUME NEW a \in Int, NEW b \in Int
        PROVE  [Finite(neg, c, e) EXCEPT !.coef = a, !.exp = b] = Finite(neg, a, b)
    <3>1. [Finite(neg, c, e) EXCEPT !.coef = a] = Finite(neg, a, e)
      BY DEF Finite
    <3>2. [Finite(neg, a, e) EXCEPT !.exp = b] = Finite(neg, a, b)
      BY DEF Finite
    <3>3. [Finite(neg, c, e) EXCEPT !.coef = a, !.exp = b]
              = [[Finite(neg, c, e) EXCEPT !.coef = a] EXCEPT !.exp = b]
      OBVIOUS
    <3> QED
      BY <3>1, <3>2, <3>3, Zenon
  <2> QED
    BY <2>1, <2>2, <2>3, Zenon
<1>2. ~(discard <= 0)
  BY <1>0
<1> DEFINE residue == IF discard > d THEN Sticky(w, c) ELSE CutResidue(w, discard)
           coef    == IF discard > d THEN 0 ELSE c \div powers[discard]
<1>3. SetCoeff(w, set) = Work(Finite(neg, coef, e + discard), residue, CutFlags(st, residue))
  <2>0. coef \in Int /\ e + discard \in Int
    BY <1>0, Euclid, PowersFacts
  <2>1. Digits(w.dn.coef) - set.digits = discard /\ Digits(w.dn.coef) = d
    BY <1>1, <1>d
  <2>2. PICK a \in Int, f \in Int : a = coef /\ f = e + discard
    BY <2>0
  <2>3. [w.dn EXCEPT !.coef = a, !.exp = f] = Finite(neg, a, f)
    BY <1>1, Zenon
  <2>4. coef = (IF discard > d THEN 0 ELSE c \div powers[discard])
    OBVIOUS
  <2> HIDE DEF coef, w
  <2>5. [w.dn EXCEPT !.coef = coef, !.exp = w.dn.exp + discard] = Finite(neg, coef, e + discard)
    BY <1>1, <2>2, <2>3, Zenon
  <2>6. coef = (IF discard > Digits(w.dn.coef) THEN 0 ELSE w.dn.coef \div powers[discard])
    BY <1>1, <2>1, <2>4, Zenon
  <2> QED
    BY <1>1, <1>2, <2>1, <2>5, <2>6, Zenon DEF SetCoeff, CutFlags
<1>4. coef = c \div powers[discard]
  BY <1>0, <1>d, DigitsCut
<1>5. residue \in -1..9
      /\ Tells(residue, (c % powers[discard]) * unit + rest, powers[discard] * unit)
  <2>1. CASE discard > d
    <3>1. PICK p \in Nat \ {0}, v \in Nat \ {0} : p = powers[discard] /\ v = powers[d]
      BY <1>0, <1>d, PowersFacts
    <3>2. c < v /\ 10 * v <= p
      BY <1>0, <1>d, <2>1, <3>1, DigitsFacts, PowersGrow
    <3>3. c % p = c
      <4>1. c = 0 * p + c /\ c < p
        BY <1>0, <3>1, <3>2
      <4> QED
        BY <1>0, <4>1, QuotientIs
    <3>4. Sticky(w, c) = 1
      BY <1>0 DEF Sticky
    <3>5. 1 * unit <= c * unit /\ (c + 1) * unit <= v * unit
          /\ (c + 1) * unit = c * unit + unit /\ (10 * v) * unit <= p * unit
          /\ (10 * v) * unit = 10 * (v * unit)
      BY <1>0, <3>2, MulGrows
    <3>6. PICK x \in Nat, y \in Nat, z \in Nat :
              x = c * unit /\ y = v * unit /\ z = p * unit
      BY <1>0
    <3>7. Near(r, rest, unit, z)
      BY <1>0, <3>1, <3>6, Zenon
    <3>8. 0 < x + rest /\ 2 * (x + rest) < z
      BY <1>0, <3>5, <3>6, <3>7 DEF Near
    <3>9. Tells(1, x + rest, z)
      BY <3>8 DEF Tells
    <3>10. Tells(1, (c % powers[discard]) * unit + rest, powers[discard] * unit)
      BY <3>1, <3>3, <3>6, <3>9, Zenon
    <3> QED
      BY <2>1, <3>4, <3>10
  <2>2. CASE ~(discard > d)
    <3> HIDE DEF w
    <3>1. /\ CutResidue(w, discard) \in -1..9
          /\ Tells(CutResidue(w, discard), (w.dn.coef % powers[discard]) * unit + rest,
                   powers[discard] * unit)
      BY <1>0, <1>1, CutTells
    <3> QED
      BY <1>1, <2>2, <3>1, Zenon
  <2> QED
    BY <2>1, <2>2
<1> HIDE DEF residue, coef
<1> QED
  BY <1>3, <1>4, <1>5

LEMMA SetCoeffKeeps ==
    ASSUME NEW dn, NEW r, NEW st, NEW set, Digits(dn.coef) - set.digits <= 0
    PROVE  SetCoeff(Work(dn, r, st), set)
               = Work(dn, r, st \cup (IF r = 0 THEN {} ELSE {"Inexact", "Rounded"}))
<1> DEFINE w == Work(dn, r, st)
<1>1. w.dn = dn /\ w.residue = r /\ w.status = st
  BY DEF Work
<1>2. Raise(w, {"Inexact", "Rounded"}) = Work(dn, r, st \cup {"Inexact", "Rounded"})
  BY DEF Raise, Work
<1>3. w = Work(dn, r, st \cup {})
  BY DEF Work
<1>4. SetCoeff(w, set) = IF r = 0 THEN w ELSE Raise(w, {"Inexact", "Rounded"})
  BY <1>1, Zenon DEF SetCoeff
<1> QED
  BY <1>2, <1>3, <1>4

(***************************************************************************)
(* The decision of decApplyRound is that of the reference.                 *)
(***************************************************************************)
LEMMA RoundsUpAgrees ==
    ASSUME NEW w, w.dn.coef \in Nat, w.dn.neg \in BOOLEAN, w.residue \in 0..9,
           NEW mode \in Modes, NEW rest \in Int, NEW unit \in Nat \ {0},
           Tells(w.residue, rest, unit)
    PROVE  RoundsUp(w, mode) <=> RoundsAway(mode, w.dn.neg, w.dn.coef, rest, unit)
<1>1. PICK c \in Nat, r \in 0..9 : c = w.dn.coef /\ r = w.residue
  OBVIOUS
<1>2. (c % 5 = 0 <=> c % 10 \in {0, 5}) /\ c % 2 \in 0..1
  OBVIOUS
<1>3. /\ r > 0 <=> rest > 0
      /\ r > 5 <=> 2 * rest > unit
      /\ r >= 5 <=> 2 * rest >= unit
      /\ r = 5 <=> 2 * rest = unit
  BY <1>1 DEF Tells
<1> QED
  BY <1>1, <1>2, <1>3 DEF RoundsUp, RoundsAway, Modes

LEMMA RoundsDownAgrees ==
    ASSUME NEW w, w.dn.coef \in Nat \ {0}, w.dn.neg \in BOOLEAN, w.residue = -1,
           NEW mode \in Modes, NEW rest \in Int, NEW unit \in Nat \ {0},
           Tells(-1, rest, unit)
    PROVE  /\ ~RoundsUp(w, mode)
           /\ RoundsDown(w, mode)
                  <=> ~RoundsAway(mode, w.dn.neg, w.dn.coef - 1, unit + rest, unit)
<1>1. PICK c \in Nat \ {0} : c = w.dn.coef
  OBVIOUS
<1>2. (c - 1) % 10 \in {0, 5} <=> c % 5 = 1
  OBVIOUS
<1>3. PICK over \in Int : over = unit + rest /\ over > 0 /\ 2 * over > unit
  BY DEF Tells
<1>4. ~RoundsUp(w, mode)
  <2>1. ~(w.residue > 0) /\ ~(w.residue > 5) /\ ~(w.residue >= 5) /\ w.residue # 5
    OBVIOUS
  <2> QED
    BY <2>1 DEF RoundsUp, Modes
<1>5. RoundsDown(w, mode) <=> ~RoundsAway(mode, w.dn.neg, c - 1, over, unit)
  <2>1. w.residue < 0 /\ 2 * over >= unit
    BY <1>3
  <2>2. CASE mode = "05UP"
    BY <1>1, <1>2, <1>3, <2>1, <2>2 DEF RoundsDown, RoundsAway
  <2>3. CASE mode = "DOWN"
    BY <2>1, <2>3 DEF RoundsDown, RoundsAway
  <2>4. CASE mode = "CEILING"
    BY <1>3, <2>1, <2>4 DEF RoundsDown, RoundsAway
  <2>5. CASE mode = "FLOOR"
    BY <1>3, <2>1, <2>5 DEF RoundsDown, RoundsAway
  <2>6. CASE mode = "UP"
    BY <1>3, <2>1, <2>6 DEF RoundsDown, RoundsAway
  <2>7. CASE mode \in {"HALF_UP", "HALF_DOWN", "HALF_EVEN"}
    BY <1>3, <2>1, <2>7 DEF RoundsDown, RoundsAway
  <2> QED
    BY <2>2, <2>3, <2>4, <2>5, <2>6, <2>7 DEF Modes
<1> QED
  BY <1>1, <1>3, <1>4, <1>5

\* Below a power of ten the reference decides one place further down, where
\* the neighbour is all nines.
LEMMA RoundsDownFromPower ==
    ASSUME NEW w, w.dn.coef \in Nat \ {0}, w.dn.coef % 10 = 0, w.dn.neg \in BOOLEAN,
           w.residue = -1, NEW mode \in Modes, NEW rest \in Int, NEW unit \in Nat \ {0},
           Tells(-1, rest, 10 * unit)
    PROVE  RoundsDown(w, mode)
               <=> ~RoundsAway(mode, w.dn.neg, 10 * w.dn.coef - 1, unit + rest, unit)
<1>1. PICK c \in Nat \ {0} : c = w.dn.coef
  OBVIOUS
<1>2. PICK less \in Nat : less = 10 * c - 1 /\ less % 10 = 9
  OBVIOUS
<1>3. PICK over \in Int : over = unit + rest /\ over > 0 /\ 2 * over > unit
  BY DEF Tells
<1>4. w.dn.coef % 5 = 0
  OBVIOUS
<1>5. RoundsDown(w, mode) <=> ~RoundsAway(mode, w.dn.neg, less, over, unit)
  <2>1. w.residue < 0 /\ 2 * over >= unit
    BY <1>3
  <2>2. CASE mode = "05UP"
    BY <1>2, <1>4, <2>1, <2>2 DEF RoundsDown, RoundsAway
  <2>3. CASE mode = "DOWN"
    BY <2>1, <2>3 DEF RoundsDown, RoundsAway
  <2>4. CASE mode = "CEILING"
    BY <1>3, <2>1, <2>4 DEF RoundsDown, RoundsAway
  <2>5. CASE mode = "FLOOR"
    BY <1>3, <2>1, <2>5 DEF RoundsDown, RoundsAway
  <2>6. CASE mode = "UP"
    BY <1>3, <2>1, <2>6 DEF RoundsDown, RoundsAway
  <2>7. CASE mode \in {"HALF_UP", "HALF_DOWN", "HALF_EVEN"}
    BY <1>3, <2>1, <2>7 DEF RoundsDown, RoundsAway
  <2> QED
    BY <2>2, <2>3, <2>4, <2>5, <2>6, <2>7 DEF Modes
<1> QED
  BY <1>1, <1>2, <1>3, <1>5

(***************************************************************************)
(* Largest and smallest of a few numbers.                                  *)
(***************************************************************************)
LEMMA MaxOfThree ==
    ASSUME NEW a \in Int, NEW b \in Int, NEW c \in Int, NEW m \in {a, b, c},
           a <= m, b <= m, c <= m
    PROVE  Max({a, b, c}) = m
BY DEF Max

LEMMA MaxOfTwo ==
    ASSUME NEW a \in Int, NEW b \in Int
    PROVE  Max({a, b}) = IF a <= b THEN b ELSE a
BY DEF Max

LEMMA MinOfTwo ==
    ASSUME NEW a \in Int, NEW b \in Int
    PROVE  Min({a, b}) = IF a <= b THEN a ELSE b
BY DEF Min

(***************************************************************************)
(* The operators of DecRound on a work record in its parts.                *)
(***************************************************************************)
Context(set) ==
    /\ set \in [digits : Nat \ {0}, emin : Int, emax : Int, round : Modes, clamp : BOOLEAN]
    /\ set.digits \in Nat \ {0} /\ set.emin \in Int /\ set.emax \in Int
    /\ set.emin <= 0 /\ 0 <= set.emax
    /\ set.round \in Modes /\ set.clamp \in BOOLEAN
    /\ set.clamp => set.digits <= set.emax + 1

OverflowFlags == {"Overflow", "Inexact", "Rounded"}

LEMMA BumpUpIs ==
    ASSUME NEW neg \in BOOLEAN, NEW c \in Nat, NEW e \in Int, NEW r, NEW st, NEW set,
           NEW d \in Nat \ {0}, d = Digits(c)
    PROVE  LET w == Work(Finite(neg, c, e), r, st)
               carried == Work(Finite(neg, powers[d - 1], e + 1), r, st)
           IN  /\ c # powers[d] - 1
                      => BumpUp(w, set) = Work(Finite(neg, c + 1, e), r, st)
               /\ c = powers[d] - 1
                      => BumpUp(w, set) = IF e + 1 + d > set.emax + 1
                                          THEN SetOverflow(carried, set) ELSE carried
<1> DEFINE w == Work(Finite(neg, c, e), r, st)
           carried == Work(Finite(neg, powers[d - 1], e + 1), r, st)
<1>1. w.dn.coef = c /\ w.dn.exp = e
  BY DEF Work, Finite
<1>2. PICK p \in Nat : p = powers[d - 1]
  BY PowersStep
<1>3. [w EXCEPT !.dn.coef = @ + 1] = Work(Finite(neg, c + 1, e), r, st)
  BY DEF Work, Finite
<1>4. [w EXCEPT !.dn.coef = powers[d - 1], !.dn.exp = @ + 1] = carried
  <2>1. [w EXCEPT !.dn.coef = p] = Work(Finite(neg, p, e), r, st)
    BY DEF Work, Finite
  <2>2. [Work(Finite(neg, p, e), r, st) EXCEPT !.dn.exp = e + 1]
            = Work(Finite(neg, p, e + 1), r, st)
    BY DEF Work, Finite
  <2>3. [w EXCEPT !.dn.coef = p, !.dn.exp = e + 1]
            = [[w EXCEPT !.dn.coef = p] EXCEPT !.dn.exp = e + 1]
    OBVIOUS
  <2>4. [w EXCEPT !.dn.coef = p, !.dn.exp = e + 1] = carried
    BY <1>2, <2>1, <2>2, <2>3, Zenon
  <2> QED
    BY <1>1, <1>2, <2>4, Zenon
<1>5. carried.dn.exp = e + 1
  BY DEF Work, Finite
<1> HIDE DEF w, carried
<1>6. ASSUME c # powers[d] - 1 PROVE BumpUp(w, set) = Work(Finite(neg, c + 1, e), r, st)
  BY <1>1, <1>3, <1>6, Zenon DEF BumpUp
<1>7. ASSUME c = powers[d] - 1
      PROVE  BumpUp(w, set) = IF e + 1 + d > set.emax + 1
                              THEN SetOverflow(carried, set) ELSE carried
  <2>1. BumpUp(w, set) = IF carried.dn.exp + d > set.emax + 1
                         THEN SetOverflow(carried, set) ELSE carried
    <3>1. Digits(w.dn.coef) = d /\ w.dn.coef = powers[d] - 1
      BY <1>1, <1>7
    <3>2. PICK k : k = Digits(w.dn.coef)
      OBVIOUS
    <3>3. [w EXCEPT !.dn.coef = powers[k - 1], !.dn.exp = @ + 1] = carried
      BY <1>4, <3>1, <3>2
    <3>4. w.dn.coef = powers[k] - 1
      BY <3>1, <3>2
    <3>5. BumpUp(w, set) =
              LET up == [w EXCEPT !.dn.coef = powers[k - 1], !.dn.exp = @ + 1]
              IN  IF up.dn.exp + k > set.emax + 1 THEN SetOverflow(up, set) ELSE up
      BY <3>2, <3>4 DEF BumpUp
    <3> QED
      BY <3>1, <3>2, <3>3, <3>5, Zenon
  <2> QED
    BY <1>5, <2>1, Zenon
<1> QED
  BY <1>6, <1>7, Zenon DEF w, carried

LEMMA BumpUpMore ==
    ASSUME NEW neg \in BOOLEAN, NEW c \in Nat, NEW e \in Int, NEW r, NEW st, NEW set,
           c # powers[Digits(c)] - 1
    PROVE  BumpUp(Work(Finite(neg, c, e), r, st), set) = Work(Finite(neg, c + 1, e), r, st)
<1>1. PICK d \in Nat \ {0} : d = Digits(c)
  BY DigitsFacts
<1> QED
  BY <1>1, BumpUpIs

LEMMA BumpUpCarry ==
    ASSUME NEW neg \in BOOLEAN, NEW c \in Nat, NEW e \in Int, NEW r, NEW st, NEW set,
           NEW d \in Nat \ {0}, d = Digits(c), c = powers[d] - 1
    PROVE  BumpUp(Work(Finite(neg, c, e), r, st), set) =
               IF e + 1 + d > set.emax + 1
               THEN SetOverflow(Work(Finite(neg, powers[d - 1], e + 1), r, st), set)
               ELSE Work(Finite(neg, powers[d - 1], e + 1), r, st)
BY BumpUpIs

LEMMA BumpDownLess ==
    ASSUME NEW neg \in BOOLEAN, NEW c \in Nat \ {0}, NEW e \in Int, NEW r, NEW st, NEW set,
           c # powers[Digits(c) - 1]
    PROVE  BumpDown(Work(Finite(neg, c, e), r, st), set) = Work(Finite(neg, c - 1, e), r, st)
<1> DEFINE w == Work(Finite(neg, c, e), r, st)
<1>1. w.dn.coef = c
  BY DEF Work, Finite
<1>2. [w EXCEPT !.dn.coef = @ - 1] = Work(Finite(neg, c - 1, e), r, st)
  BY DEF Work, Finite
<1> HIDE DEF w
<1> QED
  BY <1>1, <1>2, Zenon DEF BumpDown, w

\* what decApplyRound raises when it leaves the smallest normal number
SunkFlags == {"Underflow", "Subnormal", "Inexact", "Rounded"}

LEMMA BumpDownTiny ==
    ASSUME NEW neg \in BOOLEAN, NEW c \in Nat \ {0}, NEW e \in Int, NEW r, NEW st, NEW set,
           c = powers[Digits(c) - 1], e = Etiny(set)
    PROVE  BumpDown(Work(Finite(neg, c, e), r, st), set)
               = Work(Finite(neg, c - 1, e), r, st \cup SunkFlags)
<1> DEFINE w == Work(Finite(neg, c, e), r, st)
<1>1. w.dn.coef = c /\ w.dn.exp = e
  BY DEF Work, Finite
<1>2. [w EXCEPT !.dn.coef = c - 1] = Work(Finite(neg, c - 1, e), r, st)
  BY DEF Work, Finite
<1>3. Raise(Work(Finite(neg, c - 1, e), r, st), SunkFlags)
          = Work(Finite(neg, c - 1, e), r, st \cup SunkFlags)
  BY WorkParts
<1> HIDE DEF w
<1>4. BumpDown(w, set) = Raise([w EXCEPT !.dn.coef = c - 1], SunkFlags)
  BY <1>1, Zenon DEF BumpDown, SunkFlags
<1> QED
  BY <1>2, <1>3, <1>4, Zenon DEF w

LEMMA BumpDownBorrow ==
    ASSUME NEW neg \in BOOLEAN, NEW c \in Nat \ {0}, NEW e \in Int, NEW r, NEW st, NEW set,
           c = powers[Digits(c) - 1], NEW a \in Int, a = powers[Digits(c)] - 1,
           NEW f \in Int, f = e - 1, e # Etiny(set)
    PROVE  BumpDown(Work(Finite(neg, c, e), r, st), set) = Work(Finite(neg, a, f), r, st)
<1> DEFINE w == Work(Finite(neg, c, e), r, st)
<1>1. w.dn.coef = c /\ w.dn.exp = e
  BY DEF Work, Finite
<1>2. [w EXCEPT !.dn.coef = a] = Work(Finite(neg, a, e), r, st)
  BY DEF Work, Finite
<1>3. [Work(Finite(neg, a, e), r, st) EXCEPT !.dn.exp = f] = Work(Finite(neg, a, f), r, st)
  BY DEF Work, Finite
<1>4. [w EXCEPT !.dn.coef = a, !.dn.exp = f] = [[w EXCEPT !.dn.coef = a] EXCEPT !.dn.exp = f]
  OBVIOUS
<1>5. [w EXCEPT !.dn.coef = a, !.dn.exp = f] = Work(Finite(neg, a, f), r, st)
  BY <1>2, <1>3, <1>4, Zenon
<1> HIDE DEF w
<1>6. BumpDown(w, set) = [w EXCEPT !.dn.coef = a, !.dn.exp = f]
  BY <1>1, Zenon DEF BumpDown
<1> QED
  BY <1>5, <1>6, Zenon DEF w

LEMMA NeedMaxAgrees ==
    ASSUME NEW neg \in BOOLEAN, NEW set, Context(set)
    PROVE  Overflowed(neg, set) = IF NeedMax(neg, set.round) THEN MaxValue(neg, set)
                                  ELSE Special("inf", neg)
<1>1. set.digits \in Nat \ {0} /\ set.round \in Modes
  BY DEF Context
<1>2. (powers[set.digits] - 1) % 10 = 9 /\ powers[set.digits] - 1 \in Nat
  <2>1. PICK q \in Nat \ {0} : q = powers[set.digits - 1] /\ powers[set.digits] = 10 * q
    BY <1>1, PowersStep
  <2>2. (10 * q - 1) % 10 = 9
    OBVIOUS
  <2> QED
    BY <2>1, <2>2
<1>3. PICK nines \in Nat : nines = powers[set.digits] - 1 /\ nines % 10 = 9
  BY <1>2
<1>4. RoundsAway(set.round, neg, nines, 1, 1)
          \/ set.round \in {"HALF_UP", "HALF_DOWN", "HALF_EVEN"}
      <=> ~NeedMax(neg, set.round)
  <2>1. CASE set.round = "UP"
    BY <2>1 DEF RoundsAway, NeedMax
  <2>2. CASE set.round = "DOWN"
    BY <2>2 DEF RoundsAway, NeedMax
  <2>3. CASE set.round = "05UP"
    BY <1>3, <2>3 DEF RoundsAway, NeedMax
  <2>4. CASE set.round = "CEILING"
    BY <2>4 DEF RoundsAway, NeedMax
  <2>5. CASE set.round = "FLOOR"
    BY <2>5 DEF RoundsAway, NeedMax
  <2>6. CASE set.round \in {"HALF_UP", "HALF_DOWN", "HALF_EVEN"}
    BY <2>6 DEF NeedMax
  <2> QED
    BY <1>1, <2>1, <2>2, <2>3, <2>4, <2>5, <2>6 DEF Modes
<1> QED
  BY <1>3, <1>4, Zenon DEF Overflowed, MaxValue

LEMMA SetOverflowIs ==
    ASSUME NEW neg \in BOOLEAN, NEW c \in Nat \ {0}, NEW e \in Int, NEW r, NEW st, NEW set,
           Context(set)
    PROVE  SetOverflow(Work(Finite(neg, c, e), r, st), set)
               = Work(Overflowed(neg, set), r, st \cup OverflowFlags)
<1> DEFINE w == Work(Finite(neg, c, e), r, st)
<1>1. w.dn.neg = neg /\ w.dn.coef = c
  BY DEF Work, Finite
<1>2. ~IsZero(w.dn)
  BY <1>1 DEF IsZero
<1>3. \A x : [w EXCEPT !.dn = x] = Work(x, r, st)
  BY DEF Work
<1>4. Raise(Work(Overflowed(neg, set), r, st), {"Overflow", "Inexact", "Rounded"})
          = Work(Overflowed(neg, set), r, st \cup {"Overflow", "Inexact", "Rounded"})
  BY WorkParts
<1> HIDE DEF w
<1>5. SetOverflow(w, set) = Raise([w EXCEPT !.dn = Overflowed(neg, set)],
                                  {"Overflow", "Inexact", "Rounded"})
  BY <1>1, <1>2, NeedMaxAgrees, Zenon DEF SetOverflow
<1> QED
  BY <1>3, <1>4, <1>5, Zenon DEF OverflowFlags, w

\* what the checks of the range add to the flags
RangeFlags(n, set) ==
    IF TooLarge(n, set) THEN OverflowFlags
    ELSE IF set.clamp /\ n.exp > Etop(set) THEN {"Clamped"} ELSE {}

LEMMA OverflowedStays ==
    ASSUME NEW neg \in BOOLEAN, NEW r, NEW st, NEW set, Context(set)
    PROVE  CheckRange(Work(Overflowed(neg, set), r, st), set) = Work(Overflowed(neg, set), r, st)
<1> DEFINE x == Overflowed(neg, set)
           w == Work(x, r, st)
<1>1. w.dn = x
  BY DEF Work
<1>2. Etop(set) \in Int /\ (set.clamp => Etop(set) >= 0) /\ set.emax >= 0 /\ set.emax \in Int
      /\ set.clamp \in BOOLEAN
  BY DEF Context, Etop
<1>3. x = Special("inf", neg) \/ x = MaxValue(neg, set)
  BY NeedMaxAgrees
<1> HIDE DEF w, x
<1>4. CASE x = MaxValue(neg, set)
  <2>1. x.exp = Etop(set)
    BY <1>4 DEF MaxValue, Finite
  <2>2. w.dn.exp <= Etop(set)
    BY <1>1, <1>2, <2>1
  <2>3. CheckRange(w, set) = w
    BY <2>2, Zenon DEF CheckRange
  <2> QED
    BY <2>3 DEF w, x
<1>5. CASE x = Special("inf", neg)
  <2>1. x.exp = 0 /\ x.coef = 0
    BY <1>5 DEF Special
  <2>2. Digits(w.dn.coef) = 1 /\ w.dn.exp = 0
    BY <1>1, <2>1, DigitsFacts
  <2>3. ~(w.dn.exp > set.emax - Digits(w.dn.coef) + 1)
    BY <1>2, <2>2
  <2>4. ~(w.dn.exp <= Etop(set)) => ~set.clamp
    BY <1>2, <2>2
  <2>5. CheckRange(w, set) = w
    BY <2>3, <2>4, Zenon DEF CheckRange
  <2> QED
    BY <2>5 DEF w, x
<1> QED
  BY <1>3, <1>4, <1>5

LEMMA CheckRangeIs ==
    ASSUME NEW neg \in BOOLEAN, NEW c \in Nat \ {0}, NEW e \in Int, NEW r, NEW st, NEW set,
           Context(set), Digits(c) <= set.digits
    PROVE  LET n == Finite(neg, c, e)
           IN  CheckRange(Work(n, r, st), set)
                   = Work(InRange(n, set), r, st \cup RangeFlags(n, set))
<1> DEFINE n == Finite(neg, c, e)
           w == Work(n, r, st)
<1>1. w.dn = n /\ n.coef = c /\ n.exp = e /\ n.neg = neg /\ n.kind = "finite"
  BY DEF Work, Finite
<1>2. Etop(set) \in Int /\ Etop(set) = set.emax - (set.digits - 1) /\ set.clamp \in BOOLEAN
      /\ set.emax \in Int /\ set.digits \in Nat
  BY DEF Context, Etop
<1>3. PICK d \in Nat \ {0} : d = Digits(c)
  BY DigitsFacts
<1>4. TooLarge(n, set) <=> e + d - 1 > set.emax
  BY <1>1, <1>3 DEF TooLarge
<1>5. \A f : Raise(w, f) = Work(n, r, st \cup f)
  BY WorkParts
<1>6. w = Work(n, r, st \cup {})
  BY DEF Work
<1> HIDE DEF n, w
<1>7. CASE e <= Etop(set)
  <2>1. CheckRange(w, set) = w
    BY <1>1, <1>7, Zenon DEF CheckRange
  <2>2. ~TooLarge(n, set) /\ ~(n.exp > Etop(set))
    BY <1>1, <1>2, <1>3, <1>4, <1>7
  <2>3. InRange(n, set) = n /\ RangeFlags(n, set) = {}
    BY <2>2, Zenon DEF InRange, RangeFlags, Folded
  <2> QED
    BY <1>6, <2>1, <2>3, Zenon DEF w, n
<1>8. CASE ~(e <= Etop(set)) /\ TooLarge(n, set)
  <2>1. e > set.emax - d + 1
    BY <1>2, <1>4, <1>8
  <2>2. CheckRange(w, set) = SetOverflow(w, set)
    <3>1. Digits(w.dn.coef) = d /\ w.dn.exp = e
      BY <1>1, <1>3
    <3>2. ~(w.dn.exp <= Etop(set)) /\ w.dn.exp > set.emax - Digits(w.dn.coef) + 1
      BY <1>8, <2>1, <3>1
    <3> QED
      BY <3>2, Zenon DEF CheckRange
  <2>3. SetOverflow(w, set) = Work(Overflowed(neg, set), r, st \cup OverflowFlags)
    BY SetOverflowIs DEF w, n
  <2>4. InRange(n, set) = Overflowed(neg, set) /\ RangeFlags(n, set) = OverflowFlags
    BY <1>1, <1>8, Zenon DEF InRange, RangeFlags
  <2> QED
    BY <2>2, <2>3, <2>4, Zenon DEF w, n
<1>9. CASE ~(e <= Etop(set)) /\ ~TooLarge(n, set)
  <2>1. ~(w.dn.exp <= Etop(set)) /\ ~(w.dn.exp > set.emax - Digits(w.dn.coef) + 1)
    <3>1. Digits(w.dn.coef) = d /\ w.dn.exp = e
      BY <1>1, <1>3
    <3> QED
      BY <1>2, <1>4, <1>9, <3>1
  <2>2. CheckRange(w, set) = IF set.clamp THEN FoldDown(w, set) ELSE w
    BY <2>1, Zenon DEF CheckRange
  <2>3. e > Etop(set)
    BY <1>2, <1>9
  <2>4. InRange(n, set) = Folded(n, set)
        /\ RangeFlags(n, set) = IF set.clamp THEN {"Clamped"} ELSE {}
    BY <1>1, <1>9, <2>3, Zenon DEF InRange, RangeFlags
  <2>5. CASE ~set.clamp
    <3>1. CheckRange(w, set) = w /\ InRange(n, set) = n /\ RangeFlags(n, set) = {}
      BY <2>2, <2>4, <2>5, Zenon DEF Folded
    <3> QED
      BY <1>6, <3>1, Zenon DEF w, n
  <2>6. CASE set.clamp
    <3>1. PICK p \in Nat : p = powers[e - Etop(set)]
      BY <1>2, <2>3, PowersFacts
    <3>2. PICK x \in Int, t \in Int : x = c * p /\ t = Etop(set)
      BY <1>2
    <3>3. [w EXCEPT !.dn.coef = @ * powers[w.dn.exp - Etop(set)], !.dn.exp = Etop(set)]
              = Work(Finite(neg, x, t), r, st)
      <4>1. [w EXCEPT !.dn.coef = x] = Work(Finite(neg, x, e), r, st)
        BY DEF Work, Finite, w, n
      <4>2. [Work(Finite(neg, x, e), r, st) EXCEPT !.dn.exp = t]
                = Work(Finite(neg, x, t), r, st)
        BY DEF Work, Finite
      <4>3. [w EXCEPT !.dn.coef = x, !.dn.exp = t]
                = [[w EXCEPT !.dn.coef = x] EXCEPT !.dn.exp = t]
        OBVIOUS
      <4>4. w.dn.coef * powers[w.dn.exp - Etop(set)] = x
        BY <1>1, <3>1, <3>2
      <4> QED
        BY <3>2, <4>1, <4>2, <4>3, <4>4, Zenon
    <3>4. Folded(n, set) = Finite(neg, x, t)
      <4>1. set.clamp /\ n.kind = "finite" /\ n.exp > Etop(set)
        BY <1>1, <2>3, <2>6
      <4>2. n.coef * powers[n.exp - Etop(set)] = x
        BY <1>1, <3>1, <3>2
      <4> QED
        BY <1>1, <3>2, <4>1, <4>2, Zenon DEF Folded
    <3>5. FoldDown(w, set) = Raise(Work(Finite(neg, x, t), r, st), {"Clamped"})
      BY <3>3, Zenon DEF FoldDown
    <3>6. FoldDown(w, set) = Work(Finite(neg, x, t), r, st \cup {"Clamped"})
      BY <3>5, WorkParts
    <3> QED
      BY <2>2, <2>4, <2>6, <3>4, <3>6, Zenon DEF w, n
  <2> QED
    BY <2>5, <2>6, <1>2
<1> QED
  BY <1>7, <1>8, <1>9, Zenon

(***************************************************************************)
(* The reference, for a value between two neighbours.                      *)
(***************************************************************************)
\* n * 10^q lies rest above lower * 10^(q + k), its lower neighbour
RestAbove(n, q, set, k, lower, rest) ==
    /\ n \in Nat \ {0} /\ q \in Int /\ k \in Nat /\ Place(n, q, set) = q + k
    /\ lower \in Nat /\ rest \in Nat /\ rest < powers[k]
    /\ n = lower * powers[k] + rest

\* all nines and one are a power of ten, one place up
Neighbour(neg, c, e, set) ==
    IF c = powers[set.digits] THEN Finite(neg, powers[set.digits - 1], e + 1)
    ELSE Finite(neg, c, e)

\* and is rounded to c, one of the two
RoundsTo(neg, n, q, set, k, lower, rest, c) ==
    /\ RestAbove(n, q, set, k, lower, rest)
    /\ c = IF RoundsAway(set.round, neg, lower, rest, powers[k])
            THEN lower + 1 ELSE lower

LEMMA NearestIs ==
    ASSUME NEW neg, NEW n, NEW q, NEW set, NEW k, NEW lower, NEW rest, NEW c,
           RoundsTo(neg, n, q, set, k, lower, rest, c)
    PROVE  /\ n % powers[Place(n, q, set) - q] = rest
           /\ Nearest(neg, n, q, set) = Neighbour(neg, c, q + k, set)
<1>0. /\ n \in Nat \ {0} /\ q \in Int /\ k \in Nat /\ Place(n, q, set) = q + k
      /\ lower \in Nat /\ rest \in Nat /\ rest < powers[k]
      /\ n = lower * powers[k] + rest
      /\ c = IF RoundsAway(set.round, neg, lower, rest, powers[k])
             THEN lower + 1 ELSE lower
  BY DEF RestAbove, RoundsTo
<1>1. powers[k] \in Nat \ {0}
  BY <1>0, PowersFacts
<1>2. n \div powers[k] = lower /\ n % powers[k] = rest
  BY <1>0, <1>1, QuotientIs
<1>3. (q + k) - q = k
  BY <1>0
<1>4. PICK e : e = q + k
  OBVIOUS
<1>5. Place(n, q, set) = e /\ e - q = k
  BY <1>0, <1>3, <1>4
<1>6. Nearest(neg, n, q, set) = Neighbour(neg, c, e, set)
  BY <1>0, <1>2, <1>5, Zenon DEF Nearest, Neighbour
<1> QED
  BY <1>2, <1>4, <1>5, <1>6, Zenon

LEMMA PlaceIs ==
    ASSUME NEW n \in Nat, NEW q \in Int, NEW set, Context(set), NEW p \in Int,
           q <= p, q + Digits(n) - set.digits <= p, Etiny(set) <= p,
           p \in {q, q + Digits(n) - set.digits, Etiny(set)}
    PROVE  Place(n, q, set) = p
<1>1. Digits(n) \in Nat /\ set.digits \in Nat /\ Etiny(set) \in Int
  BY DigitsFacts DEF Context, Etiny
<1>2. PICK b \in Int, c \in Int : b = q + Digits(n) - set.digits /\ c = Etiny(set)
  BY <1>1
<1>3. Max({q, b, c}) = p
  BY <1>2, MaxOfThree
<1> QED
  BY <1>2, <1>3, Zenon DEF Place

\* the flags of a number that is not zero, one by one
LEMMA FlagsAre ==
    ASSUME NEW neg, NEW n, n # 0, NEW q, NEW set, NEW f
    PROVE  LET r == Nearest(neg, n, q, set)
               d == Delivered(neg, n, q, set)
               overflow == TooLarge(r, set)
               inexact == overflow \/ n % powers[Place(n, q, set) - q] # 0
           IN  f \in FlagsFor(neg, n, q, set) <=>
                   \/ f = "Inexact" /\ inexact
                   \/ f = "Rounded" /\ (overflow \/ Place(n, q, set) > q)
                   \/ f = "Subnormal" /\ IsTiny(n, q, set)
                   \/ f = "Underflow" /\ IsTiny(n, q, set) /\ inexact
                   \/ f = "Overflow" /\ overflow
                   \/ f = "Clamped" /\ d.kind = "finite"
                      /\ (d.coef = 0 \/ (d.exp < r.exp /\ ~overflow))
<1> DEFINE r == Nearest(neg, n, q, set)
           d == Delivered(neg, n, q, set)
           overflow == n # 0 /\ TooLarge(r, set)
           inexact  == n # 0 /\ (overflow \/ n % powers[Place(n, q, set) - q] # 0)
           rounded  == n # 0 /\ (overflow \/ Place(n, q, set) > q)
           tiny     == IsTiny(n, q, set)
           under    == tiny /\ inexact
           clamped  == \/ n = 0 /\ d.exp # q
                       \/ n # 0 /\ d.coef = 0 /\ d.kind = "finite"
                       \/ d.kind = "finite" /\ d.exp < r.exp /\ ~overflow /\ n # 0
           raised == [Inexact |-> inexact, Rounded |-> rounded, Subnormal |-> tiny,
                      Underflow |-> under, Overflow |-> overflow, Clamped |-> clamped]
<1>1. FlagsFor(neg, n, q, set) = {g \in DOMAIN raised : raised[g]}
  BY Zenon DEF FlagsFor, FlagsTelling
<1>2. (overflow <=> TooLarge(r, set))
      /\ (inexact <=> TooLarge(r, set) \/ n % powers[Place(n, q, set) - q] # 0)
      /\ (rounded <=> TooLarge(r, set) \/ Place(n, q, set) > q)
      /\ (clamped <=> d.kind = "finite"
                      /\ (d.coef = 0 \/ (d.exp < r.exp /\ ~TooLarge(r, set))))
  BY Zenon
<1> HIDE DEF r, d, overflow, inexact, rounded, tiny, under, clamped
<1>3. DOMAIN raised = {"Inexact", "Rounded", "Subnormal", "Underflow", "Overflow", "Clamped"}
  OBVIOUS
<1>4. /\ raised["Inexact"] = inexact /\ raised["Rounded"] = rounded
      /\ raised["Subnormal"] = tiny /\ raised["Underflow"] = under
      /\ raised["Overflow"] = overflow /\ raised["Clamped"] = clamped
  BY Zenon
<1> HIDE DEF raised
<1>5. f \in {g \in DOMAIN raised : raised[g]} <=>
          \/ f = "Inexact" /\ inexact
          \/ f = "Rounded" /\ rounded
          \/ f = "Subnormal" /\ tiny
          \/ f = "Underflow" /\ under
          \/ f = "Overflow" /\ overflow
          \/ f = "Clamped" /\ clamped
  BY <1>3, <1>4, Zenon
<1> QED
  BY <1>1, <1>2, <1>5, Zenon DEF r, d, tiny, under

LEMMA DeliveredIs ==
    ASSUME NEW neg, NEW n, n # 0, NEW q, NEW set
    PROVE  Delivered(neg, n, q, set) = InRange(Nearest(neg, n, q, set), set)
BY DEF Delivered

\* the flags an inexact coefficient has raised when it is finished
Lost(cut, r) ==
    (IF cut THEN {"Rounded"} ELSE {}) \cup (IF r # 0 THEN {"Inexact"} ELSE {})

\* c * 10^e is what the reference makes of n * 10^q, which is not subnormal;
\* cut and r say what it loses
Reaches(neg, n, q, set, c, e, cut, r) ==
    /\ n # 0 /\ c \in Nat \ {0} /\ e \in Int /\ Nearest(neg, n, q, set) = Finite(neg, c, e)
    /\ Digits(c) <= set.digits /\ ~IsTiny(n, q, set)
    /\ cut \in BOOLEAN /\ (Place(n, q, set) > q <=> cut)
    /\ (n % powers[Place(n, q, set) - q] # 0 <=> r # 0)

LEMMA NormalFlags ==
    ASSUME NEW neg \in BOOLEAN, NEW n, NEW q, NEW set, Context(set), NEW c, NEW e,
           NEW cut, NEW r, Reaches(neg, n, q, set, c, e, cut, r)
    PROVE  FlagsFor(neg, n, q, set) = Lost(cut, r) \cup RangeFlags(Finite(neg, c, e), set)
<1>0. /\ n # 0 /\ c \in Nat \ {0} /\ e \in Int /\ Nearest(neg, n, q, set) = Finite(neg, c, e)
      /\ Digits(c) <= set.digits /\ ~IsTiny(n, q, set)
      /\ cut \in BOOLEAN /\ (Place(n, q, set) > q <=> cut)
      /\ (n % powers[Place(n, q, set) - q] # 0 <=> r # 0)
  BY DEF Reaches
<1> DEFINE x == Finite(neg, c, e)
           d == Delivered(neg, n, q, set)
           overflow == TooLarge(x, set)
<1>1. x.kind = "finite" /\ x.coef = c /\ x.exp = e /\ x.neg = neg
  BY DEF Finite
<1>2. d = InRange(x, set)
  BY <1>0, DeliveredIs
<1>3. d.kind = "finite" /\ (d.coef = 0 \/ (d.exp < x.exp /\ ~overflow))
          <=> ~overflow /\ set.clamp /\ x.exp > Etop(set)
  <2>1. set.digits \in Nat \ {0} /\ Etop(set) \in Int
    BY DEF Context, Etop
  <2>2. CASE overflow
    <3>1. d = Overflowed(neg, set)
      BY <1>1, <1>2, <2>2, Zenon DEF InRange
    <3>2. d = Special("inf", neg) \/ d = MaxValue(neg, set)
      BY <3>1, NeedMaxAgrees
    <3>3. powers[set.digits] - 1 # 0
      BY <2>1, PowersStep
    <3>4. d.kind # "finite" \/ d.coef # 0
      <4>1. Special("inf", neg).kind = "inf"
        BY DEF Special
      <4>2. MaxValue(neg, set).coef = powers[set.digits] - 1
        BY DEF MaxValue, Finite
      <4> QED
        BY <3>2, <3>3, <4>1, <4>2
    <3> QED
      BY <2>2, <3>4
  <2>3. CASE ~overflow
    <3>1. d = Folded(x, set)
      BY <1>1, <1>2, <2>3, Zenon DEF InRange
    <3>2. CASE set.clamp /\ x.exp > Etop(set)
      <4>1. PICK p \in Nat \ {0} : p = powers[x.exp - Etop(set)]
        BY <1>0, <1>1, <2>1, <3>2, PowersFacts
      <4>2. d = Finite(neg, c * p, Etop(set))
        BY <1>1, <3>1, <3>2, <4>1, Zenon DEF Folded
      <4>3. d.kind = "finite" /\ d.exp = Etop(set)
        BY <4>2 DEF Finite
      <4> QED
        BY <1>1, <2>1, <2>3, <3>2, <1>0, <4>3
    <3>3. CASE ~(set.clamp /\ x.exp > Etop(set))
      <4>1. d = x
        BY <3>1, <3>3, Zenon DEF Folded
      <4> QED
        BY <1>0, <1>1, <2>1, <2>3, <3>3, <4>1
    <3> QED
      BY <3>2, <3>3
  <2> QED
    BY <2>2, <2>3
<1> HIDE DEF x, d, overflow
<1>4. ASSUME NEW f
      PROVE  f \in FlagsFor(neg, n, q, set) <=>
                 f \in Lost(cut, r) \cup RangeFlags(x, set)
  <2>1. f \in FlagsFor(neg, n, q, set) <=>
            \/ f = "Inexact" /\ (overflow \/ r # 0)
            \/ f = "Rounded" /\ (overflow \/ cut)
            \/ f = "Overflow" /\ overflow
            \/ f = "Clamped" /\ ~overflow /\ set.clamp /\ x.exp > Etop(set)
    <3>1. Nearest(neg, n, q, set) = x
      BY <1>0 DEF x
    <3>2. f \in FlagsFor(neg, n, q, set) <=>
              \/ f = "Inexact" /\ (overflow \/ n % powers[Place(n, q, set) - q] # 0)
              \/ f = "Rounded" /\ (overflow \/ Place(n, q, set) > q)
              \/ f = "Subnormal" /\ IsTiny(n, q, set)
              \/ f = "Underflow" /\ IsTiny(n, q, set)
                 /\ (overflow \/ n % powers[Place(n, q, set) - q] # 0)
              \/ f = "Overflow" /\ overflow
              \/ f = "Clamped" /\ d.kind = "finite"
                 /\ (d.coef = 0 \/ (d.exp < x.exp /\ ~overflow))
      BY <1>0, <3>1, FlagsAre DEF d, overflow
    <3> QED
      BY <1>0, <1>3, <3>2, Zenon
  <2>2. f \in RangeFlags(x, set) <=>
            \/ overflow /\ f \in {"Overflow", "Inexact", "Rounded"}
            \/ ~overflow /\ set.clamp /\ x.exp > Etop(set) /\ f = "Clamped"
    BY Zenon DEF RangeFlags, OverflowFlags, overflow
  <2>3. f \in Lost(cut, r) <=> (cut /\ f = "Rounded") \/ (r # 0 /\ f = "Inexact")
    BY Zenon DEF Lost
  <2> QED
    BY <2>1, <2>2, <2>3, Zenon
<1> QED
  BY <1>4, Zenon DEF x

(***************************************************************************)
(* decFinalize of a number within the exponent range.                      *)
(***************************************************************************)
LEMMA NormalCloses ==
    ASSUME NEW neg \in BOOLEAN, NEW n, NEW q, NEW set, Context(set), NEW c, NEW e,
           NEW cut, NEW r, Reaches(neg, n, q, set, c, e, cut, r), NEW w,
           \/ w = Work(Finite(neg, c, e), r, Lost(cut, r))
           \/ /\ TooLarge(Finite(neg, c, e), set)
              /\ w = SetOverflow(Work(Finite(neg, c, e), r, Lost(cut, r)), set)
    PROVE  CheckRange(w, set)
               = Work(Delivered(neg, n, q, set), r, FlagsFor(neg, n, q, set))
<1>0. /\ n # 0 /\ c \in Nat \ {0} /\ e \in Int /\ Nearest(neg, n, q, set) = Finite(neg, c, e)
      /\ Digits(c) <= set.digits /\ ~IsTiny(n, q, set)
      /\ cut \in BOOLEAN /\ (Place(n, q, set) > q <=> cut)
      /\ (n % powers[Place(n, q, set) - q] # 0 <=> r # 0)
  BY DEF Reaches
<1> DEFINE x == Finite(neg, c, e)
           st == Lost(cut, r)
<1>1. Delivered(neg, n, q, set) = InRange(x, set)
  BY <1>0, DeliveredIs
<1>2. FlagsFor(neg, n, q, set) = st \cup RangeFlags(x, set)
  BY <1>0, NormalFlags
<1>3. CheckRange(Work(x, r, st), set) = Work(InRange(x, set), r, st \cup RangeFlags(x, set))
  BY <1>0, CheckRangeIs
<1>4. ASSUME TooLarge(x, set), w = SetOverflow(Work(x, r, st), set)
      PROVE  CheckRange(w, set) = Work(InRange(x, set), r, st \cup RangeFlags(x, set))
  <2>1. w = Work(Overflowed(neg, set), r, st \cup OverflowFlags)
    BY <1>0, <1>4, SetOverflowIs
  <2>2. CheckRange(w, set) = w
    BY <2>1, OverflowedStays
  <2>3. x.neg = neg
    BY DEF Finite
  <2>4. InRange(x, set) = Overflowed(neg, set) /\ RangeFlags(x, set) = OverflowFlags
    BY <1>4, <2>3, Zenon DEF InRange, RangeFlags
  <2> QED
    BY <2>1, <2>2, <2>4, Zenon
<1> HIDE DEF x, st
<1> QED
  BY <1>1, <1>2, <1>3, <1>4, Zenon DEF x, st

\* The number c * 10^e and a residue stand for n * 10^q: n lies where the
\* residue tells, and the coefficient is as long as the precision if digits
\* have been cut off.
Pending(c, e, r, n, q, set) ==
    /\ c \in Nat \ {0} /\ e \in Int /\ r \in -1..9
    /\ n \in Nat \ {0} /\ q \in Int /\ e - q \in Nat
    /\ Tells(r, n - c * powers[e - q], powers[e - q])
    /\ Digits(c) <= set.digits
    /\ e = q \/ Digits(c) = set.digits

\* the same with the distance from the exact value in view
Stands(c, k, r, rest, d, n, set) ==
    /\ c \in Nat \ {0} /\ k \in Nat /\ r \in -1..9 /\ rest \in Int /\ d \in Nat \ {0}
    /\ n \in Nat \ {0} /\ n = c * powers[k] + rest /\ Tells(r, rest, powers[k])
    /\ d = Digits(c) /\ d <= set.digits /\ (k = 0 \/ d = set.digits)

LEMMA PendingStands ==
    ASSUME NEW c, NEW e, NEW r, NEW n, NEW q, NEW set, Pending(c, e, r, n, q, set)
    PROVE  \E k, rest, d : k = e - q /\ e = q + k /\ Stands(c, k, r, rest, d, n, set)
<1>1. PICK k \in Nat : k = e - q /\ e = q + k
  BY DEF Pending
<1>2. PICK u \in Nat : u = powers[k]
  BY PowersFacts
<1>3. c \in Nat \ {0} /\ n \in Nat \ {0}
  BY DEF Pending
<1>4. PICK rest \in Int : rest = n - c * u /\ n = c * u + rest
  BY <1>3
<1>5. PICK d \in Nat \ {0} : d = Digits(c)
  BY <1>3, DigitsFacts
<1>6. Tells(r, rest, powers[k])
  BY <1>1, <1>2, <1>4, Zenon DEF Pending
<1>7. Stands(c, k, r, rest, d, n, set)
  BY <1>1, <1>2, <1>3, <1>4, <1>5, <1>6 DEF Pending, Stands
<1> QED
  BY <1>1, <1>7

\* what the sign of the residue means for the exact value
LEMMA StandsFacts ==
    ASSUME NEW c, NEW k, NEW r, NEW rest, NEW d, NEW n, NEW set,
           Stands(c, k, r, rest, d, n, set)
    PROVE  /\ k = 0 => r = 0
           /\ r = 0 <=> rest = 0
           /\ r # 0 => d = set.digits
           /\ r >= 0 => rest \in 0..(powers[k] - 1) /\ Digits(n) = d + k
           /\ r < 0 => /\ r = -1 /\ k >= 2 /\ k - 1 \in Nat /\ powers[k] = 10 * powers[k - 1]
                       /\ -rest \in Nat \ {0} /\ -rest < powers[k - 1]
                       /\ c # powers[d - 1] => Digits(n) = d + k
                       /\ c = powers[d - 1] => Digits(n) = d + k - 1
<1>1. /\ c \in Nat \ {0} /\ k \in Nat /\ r \in -1..9 /\ rest \in Int /\ d \in Nat \ {0}
      /\ n \in Nat \ {0} /\ n = c * powers[k] + rest /\ Tells(r, rest, powers[k])
      /\ d = Digits(c) /\ d <= set.digits /\ (k = 0 \/ d = set.digits)
  BY DEF Stands
<1>2. PICK u \in Nat \ {0} : u = powers[k]
  BY <1>1, PowersFacts
<1>3. Tells(r, rest, u)
  BY <1>1, <1>2
<1>4. ASSUME k = 0 PROVE r = 0
  <2>1. u = 1
    BY <1>2, <1>4, PowersFacts
  <2> QED
    BY <1>1, <1>3, <2>1 DEF Tells
<1>5. r = 0 <=> rest = 0
  BY <1>1, <1>2, <1>3 DEF Tells
<1>6. ASSUME r >= 0 PROVE rest \in 0..(u - 1) /\ Digits(n) = d + k
  <2>1. rest \in 0..(u - 1)
    BY <1>1, <1>2, <1>3, <1>6 DEF Tells
  <2>2. rest \in Nat /\ rest < powers[k]
    BY <1>2, <2>1
  <2> QED
    BY <1>1, <2>1, <2>2, DigitsAbove
<1>7. ASSUME r < 0
      PROVE  /\ r = -1 /\ k >= 2 /\ k - 1 \in Nat /\ powers[k] = 10 * powers[k - 1]
             /\ -rest \in Nat \ {0} /\ -rest < powers[k - 1]
  <2>1. r = -1 /\ rest < 0 /\ -u < 20 * rest
    BY <1>1, <1>3, <1>7 DEF Tells
  <2>2. k \in Nat \ {0}
    BY <1>1, <1>4, <1>7
  <2>3. PICK v \in Nat \ {0} : v = powers[k - 1] /\ u = 10 * v
    BY <1>2, <2>2, PowersStep
  <2>4. v > 1
    BY <1>1, <2>1, <2>3
  <2>5. k # 1
    BY <2>3, <2>4, PowersFacts
  <2> QED
    BY <1>1, <1>2, <2>1, <2>2, <2>3, <2>5
<1>8. ASSUME r < 0
      PROVE  /\ c # powers[d - 1] => Digits(n) = d + k
             /\ c = powers[d - 1] => Digits(n) = d + k - 1
  <2>1. PICK less \in Nat \ {0} : less = -rest /\ less <= powers[k - 1]
    BY <1>1, <1>2, <1>7, <1>8, PowersFacts
  <2>2. k \in Nat \ {0}
    BY <1>1, <1>7, <1>8
  <2>3. n = c * powers[k] - less
    <3>1. PICK x \in Int : x = c * u
      BY <1>1
    <3> QED
      BY <1>1, <1>2, <2>1, <3>1
  <2>4. c # powers[d - 1] => Digits(n) = d + k
    BY <1>1, <2>1, <2>2, <2>3, DigitsBelow
  <2>5. ASSUME c = powers[d - 1] PROVE Digits(n) = d + k - 1
    <3>1. PICK f \in Nat : f = d - 1
      BY <1>1
    <3>2. Digits(powers[f] * powers[k] - less) = f + k
      BY <2>1, <2>2, DigitsBelowPower
    <3>3. n = powers[f] * powers[k] - less
      BY <2>3, <2>5, <3>1
    <3> QED
      BY <1>1, <3>1, <3>2, <3>3
  <2> QED
    BY <2>4, <2>5
<1> QED
  BY <1>1, <1>2, <1>4, <1>5, <1>6, <1>7, <1>8

LEMMA ApplyRoundIs ==
    ASSUME NEW w, NEW set
    PROVE  /\ RoundsUp(w, set.round) => ApplyRound(w, set) = BumpUp(w, set)
           /\ ~RoundsUp(w, set.round) /\ RoundsDown(w, set.round)
                  => ApplyRound(w, set) = BumpDown(w, set)
           /\ ~RoundsUp(w, set.round) /\ ~RoundsDown(w, set.round)
                  => ApplyRound(w, set) = w
BY Zenon DEF ApplyRound

\* what is exact is not rounded
LEMMA ExactStays ==
    ASSUME NEW mode \in Modes, NEW neg, NEW lower, NEW unit \in Nat \ {0}
    PROVE  ~RoundsAway(mode, neg, lower, 0, unit)
<1>1. ~(0 > 0) /\ ~(2 * 0 > unit) /\ ~(2 * 0 >= unit) /\ 2 * 0 # unit
  OBVIOUS
<1>2. CASE mode \in {"UP", "DOWN", "CEILING", "FLOOR", "05UP"}
  BY <1>1, <1>2, Zenon DEF RoundsAway
<1>3. CASE mode \in {"HALF_UP", "HALF_DOWN", "HALF_EVEN"}
  BY <1>1, <1>3, Zenon DEF RoundsAway
<1> QED
  BY <1>2, <1>3 DEF Modes

\* the exact value is at the coefficient, or above it
LEMMA NormalAbove ==
    ASSUME NEW neg \in BOOLEAN, NEW set, Context(set), NEW c, NEW e, NEW r, NEW n, NEW q,
           Pending(c, e, r, n, q, set), r >= 0, e >= set.emin - Digits(c) + 1
    PROVE  CheckRange(ApplyRound(Work(Finite(neg, c, e), r, Lost(e > q, r)), set), set)
               = Work(Delivered(neg, n, q, set), r, FlagsFor(neg, n, q, set))
<1>1. PICK k, rest, d : k = e - q /\ e = q + k /\ Stands(c, k, r, rest, d, n, set)
  BY PendingStands
<1>2. /\ k \in Nat /\ rest \in Int /\ d \in Nat \ {0}
      /\ c \in Nat \ {0} /\ n \in Nat \ {0} /\ n = c * powers[k] + rest
      /\ Tells(r, rest, powers[k]) /\ d = Digits(c) /\ d <= set.digits
      /\ (k = 0 \/ d = set.digits) /\ r \in 0..9 /\ q \in Int /\ e \in Int
  BY <1>1 DEF Stands, Pending
<1>3. /\ k = 0 => r = 0
      /\ r = 0 <=> rest = 0
      /\ rest \in 0..(powers[k] - 1) /\ Digits(n) = d + k
  BY <1>1, StandsFacts
<1>4. PICK u \in Nat \ {0} : u = powers[k]
  BY <1>2, PowersFacts
<1>5. /\ set.digits \in Nat \ {0} /\ set.emin \in Int /\ set.emax \in Int /\ set.round \in Modes
      /\ Etiny(set) = set.emin - (set.digits - 1)
  BY DEF Context, Etiny
<1>6. Place(n, q, set) = q + k
  <2>1. /\ q <= q + k /\ q + Digits(n) - set.digits <= q + k /\ Etiny(set) <= q + k
        /\ q + k \in {q, q + Digits(n) - set.digits, Etiny(set)} /\ q + k \in Int
    BY <1>1, <1>2, <1>3, <1>5
  <2> QED
    BY <1>2, <2>1, PlaceIs
<1>7. ~IsTiny(n, q, set)
  BY <1>1, <1>2, <1>3, <1>5 DEF IsTiny
<1>c. PICK cut \in BOOLEAN : cut <=> e > q
  BY <1>2
<1>s. PICK st : st = Lost(cut, r)
  OBVIOUS
<1>u. PICK up \in BOOLEAN : up <=> RoundsAway(set.round, neg, c, rest, powers[k])
  BY Zenon
<1> DEFINE w == Work(Finite(neg, c, e), r, st)
<1>g. SUFFICES CheckRange(ApplyRound(w, set), set)
                   = Work(Delivered(neg, n, q, set), r, FlagsFor(neg, n, q, set))
  <2>1. Lost(e > q, r) = st
    BY <1>c, <1>s, Zenon DEF Lost
  <2> QED
    BY <2>1, Zenon
<1>8. /\ n % powers[Place(n, q, set) - q] = rest
      /\ up => Nearest(neg, n, q, set) = Neighbour(neg, c + 1, e, set)
      /\ ~up => Nearest(neg, n, q, set) = Neighbour(neg, c, e, set)
  <2>1. RestAbove(n, q, set, k, c, rest)
    BY <1>2, <1>3, <1>4, <1>6 DEF RestAbove
  <2>2. PICK b : b = IF up THEN c + 1 ELSE c
    OBVIOUS
  <2>3. RoundsTo(neg, n, q, set, k, c, rest, b)
    BY <1>u, <2>1, <2>2, Zenon DEF RoundsTo
  <2>4. /\ n % powers[Place(n, q, set) - q] = rest
        /\ Nearest(neg, n, q, set) = Neighbour(neg, b, q + k, set)
    BY <2>3, NearestIs
  <2> QED
    BY <1>1, <2>2, <2>4, Zenon
<1>9. RoundsUp(w, set.round) <=> up
  <2>1. w.dn.coef = c /\ w.dn.neg = neg /\ w.residue = r
    BY DEF Work, Finite
  <2> HIDE DEF w
  <2>2. Tells(w.residue, rest, u) /\ w.residue \in 0..9 /\ w.dn.coef \in Nat
        /\ w.dn.neg \in BOOLEAN /\ rest \in Int /\ set.round \in Modes
    BY <1>2, <1>4, <1>5, <2>1
  <2>3. RoundsUp(w, set.round) <=> RoundsAway(set.round, w.dn.neg, w.dn.coef, rest, u)
    BY <2>2, RoundsUpAgrees
  <2> QED
    BY <1>4, <1>u, <2>1, <2>3, Zenon
<1>10. ~RoundsDown(w, set.round)
  <2>1. w.residue = r
    BY DEF Work
  <2> HIDE DEF w
  <2>2. ~(w.residue < 0)
    BY <1>2, <2>1
  <2> QED
    BY <2>2, Zenon DEF RoundsDown
<1>11. /\ (Place(n, q, set) > q <=> cut)
       /\ (n % powers[Place(n, q, set) - q] # 0 <=> r # 0)
  BY <1>1, <1>2, <1>c, <1>3, <1>6, <1>8
<1>12. PICK b \in Nat \ {0}, a \in Nat \ {0} :
           b = powers[d] /\ a = powers[d - 1] /\ c < b /\ a <= c /\ b = 10 * a
           /\ b <= powers[set.digits]
  BY <1>2, <1>5, PowersStep, DigitsFacts, PowersGrow
<1>t. PICK t \in Nat : t = powers[set.digits] /\ b <= t
  BY <1>5, <1>12, PowersFacts
<1>13. CASE ~up
  <2>1. Nearest(neg, n, q, set) = Finite(neg, c, e)
    <3>1. c # powers[set.digits]
      BY <1>12, <1>t
    <3> QED
      BY <1>8, <1>13, <3>1, Zenon DEF Neighbour
  <2>2. ApplyRound(w, set) = Work(Finite(neg, c, e), r, Lost(cut, r))
    BY <1>s, <1>9, <1>10, <1>13, ApplyRoundIs
  <2>3. Reaches(neg, n, q, set, c, e, cut, r)
    BY <1>2, <1>7, <1>11, <2>1 DEF Reaches
  <2> HIDE DEF w
  <2> QED
    BY <2>2, <2>3, NormalCloses
<1>14. CASE up /\ c # b - 1
  <2>1. c + 1 < powers[set.digits] /\ c + 1 < b
    BY <1>2, <1>12, <1>14, <1>t
  <2>2. Nearest(neg, n, q, set) = Finite(neg, c + 1, e)
    <3>1. c + 1 # powers[set.digits]
      BY <1>2, <1>t, <2>1
    <3> QED
      BY <1>8, <1>14, <3>1, Zenon DEF Neighbour
  <2>3. ApplyRound(w, set) = Work(Finite(neg, c + 1, e), r, st)
    <3>1. ApplyRound(w, set) = BumpUp(w, set)
      BY <1>9, <1>14, ApplyRoundIs
    <3>2. BumpUp(w, set) = Work(Finite(neg, c + 1, e), r, st)
      <4>1. c # powers[Digits(c)] - 1
        BY <1>2, <1>12, <1>14
      <4> QED
        BY <1>2, <4>1, BumpUpMore
    <3> QED
      BY <3>1, <3>2
  <2>4. PICK x \in Nat \ {0} : x = c + 1
    BY <1>2
  <2>5. Digits(x) <= set.digits
    BY <1>5, <2>1, <2>4, DigitsAtMost
  <2>6. Nearest(neg, n, q, set) = Finite(neg, x, e)
        /\ ApplyRound(w, set) = Work(Finite(neg, x, e), r, st)
    BY <2>2, <2>3, <2>4
  <2> HIDE DEF w
  <2> QED
    <3>1. Reaches(neg, n, q, set, x, e, cut, r)
      BY <1>2, <1>7, <1>11, <2>5, <2>6 DEF Reaches
    <3> QED
      BY <1>s, <2>6, <3>1, NormalCloses
<1>15. CASE up /\ c = b - 1
  <2>1. d = set.digits
    <3>1. rest # 0
      <4>1. CASE rest = 0
        BY <1>4, <1>5, <1>u, <1>15, <4>1, ExactStays
      <4> QED
        BY <4>1
    <3> QED
      BY <1>2, <1>3, <3>1
  <2>2. Nearest(neg, n, q, set) = Finite(neg, a, e + 1)
    <3>1. c + 1 = powers[set.digits] /\ a = powers[set.digits - 1]
      <4>1. c + 1 = b
        BY <1>12, <1>15
      <4> QED
        BY <1>12, <2>1, <4>1, Zenon
    <3> QED
      BY <1>8, <1>15, <3>1, Zenon DEF Neighbour
  <2>3. Digits(a) = d
    <3>1. d - 1 \in Nat /\ (d - 1) + 1 = d
      BY <1>2
    <3>2. Digits(powers[d - 1]) = (d - 1) + 1
      BY <3>1, DigitsOfPower
    <3> QED
      BY <1>12, <3>1, <3>2
  <2>4. TooLarge(Finite(neg, a, e + 1), set) <=> e + 1 + d > set.emax + 1
    <3>1. Finite(neg, a, e + 1).coef = a /\ Finite(neg, a, e + 1).exp = e + 1
      BY DEF Finite
    <3>2. TooLarge(Finite(neg, a, e + 1), set) <=> a # 0 /\ (e + 1) + d - 1 > set.emax
      BY <2>3, <3>1, Zenon DEF TooLarge
    <3> QED
      BY <1>2, <1>5, <3>2
  <2>5. LET carried == Work(Finite(neg, a, e + 1), r, st)
        IN  BumpUp(w, set) = IF e + 1 + d > set.emax + 1
                             THEN SetOverflow(carried, set) ELSE carried
    <3>1. c = powers[d] - 1 /\ a = powers[d - 1]
      BY <1>12, <1>15
    <3>2. c \in Nat /\ e \in Int /\ d \in Nat \ {0} /\ d = Digits(c)
      BY <1>2
    <3>3. BumpUp(Work(Finite(neg, c, e), r, st), set) =
               IF e + 1 + d > set.emax + 1
               THEN SetOverflow(Work(Finite(neg, powers[d - 1], e + 1), r, st), set)
               ELSE Work(Finite(neg, powers[d - 1], e + 1), r, st)
      BY <3>1, <3>2, BumpUpCarry, SMT
    <3> QED
      BY <3>1, <3>3, Zenon
  <2>6. ApplyRound(w, set) = BumpUp(w, set)
    BY <1>9, <1>15, ApplyRoundIs
  <2>7. PICK f \in Int : f = e + 1
    BY <1>2
  <2> HIDE DEF w
  <2> QED
    <3>1. Nearest(neg, n, q, set) = Finite(neg, a, f) /\ Digits(a) <= set.digits
      BY <2>1, <2>2, <2>3, <2>7, <1>5
    <3>2. \/ ApplyRound(w, set) = Work(Finite(neg, a, f), r, st)
          \/ /\ TooLarge(Finite(neg, a, f), set)
             /\ ApplyRound(w, set) = SetOverflow(Work(Finite(neg, a, f), r, st), set)
      BY <2>4, <2>5, <2>6, <2>7, Zenon
    <3>3. Reaches(neg, n, q, set, a, f, cut, r)
      BY <1>2, <1>7, <1>11, <1>12, <3>1 DEF Reaches
    <3> QED
      BY <1>s, <3>2, <3>3, NormalCloses
<1> QED
  BY <1>13, <1>14, <1>15

\* the exact value is a little below the coefficient, in the same decade
LEMMA NormalBelow ==
    ASSUME NEW neg \in BOOLEAN, NEW set, Context(set), NEW c, NEW e, NEW r, NEW n, NEW q,
           Pending(c, e, r, n, q, set), r < 0, c # powers[Digits(c) - 1],
           e >= set.emin - Digits(c) + 1
    PROVE  CheckRange(ApplyRound(Work(Finite(neg, c, e), r, Lost(e > q, r)), set), set)
               = Work(Delivered(neg, n, q, set), r, FlagsFor(neg, n, q, set))
<1>1. PICK k, rest, d : k = e - q /\ e = q + k /\ Stands(c, k, r, rest, d, n, set)
  BY PendingStands
<1>2. /\ k \in Nat /\ rest \in Int /\ d \in Nat \ {0}
      /\ c \in Nat \ {0} /\ n \in Nat \ {0} /\ n = c * powers[k] + rest
      /\ Tells(r, rest, powers[k]) /\ d = Digits(c) /\ d <= set.digits
      /\ q \in Int /\ e \in Int
  BY <1>1 DEF Stands, Pending
<1>3. /\ r = -1 /\ k >= 2 /\ rest # 0 /\ d = set.digits
      /\ -rest \in Nat \ {0} /\ -rest < powers[k - 1] /\ powers[k] = 10 * powers[k - 1]
      /\ Digits(n) = d + k
  BY <1>1, <1>2, StandsFacts
<1>4. PICK u \in Nat \ {0} : u = powers[k]
  BY <1>2, PowersFacts
<1>5. /\ set.digits \in Nat \ {0} /\ set.emin \in Int /\ set.emax \in Int /\ set.round \in Modes
      /\ Etiny(set) = set.emin - (set.digits - 1)
  BY DEF Context, Etiny
<1>6. Place(n, q, set) = q + k
  <2>1. /\ q <= q + k /\ q + Digits(n) - set.digits <= q + k /\ Etiny(set) <= q + k
        /\ q + k \in {q, q + Digits(n) - set.digits, Etiny(set)} /\ q + k \in Int
    BY <1>1, <1>2, <1>3, <1>5
  <2> QED
    BY <1>2, <2>1, PlaceIs
<1>7. ~IsTiny(n, q, set)
  BY <1>1, <1>2, <1>3, <1>5 DEF IsTiny
<1>c. PICK cut \in BOOLEAN : cut <=> e > q
  BY <1>2
<1>s. PICK st : st = Lost(cut, r)
  OBVIOUS
<1>l. PICK lower \in Nat, over \in Int : lower = c - 1 /\ over = u + rest
  BY <1>2
<1>u. PICK up \in BOOLEAN : up <=> RoundsAway(set.round, neg, lower, over, powers[k])
  BY Zenon
<1> DEFINE w == Work(Finite(neg, c, e), r, st)
<1>g. SUFFICES CheckRange(ApplyRound(w, set), set)
                   = Work(Delivered(neg, n, q, set), r, FlagsFor(neg, n, q, set))
  <2>1. Lost(e > q, r) = st
    BY <1>c, <1>s, Zenon DEF Lost
  <2> QED
    BY <2>1, Zenon
<1>o. over \in Nat \ {0} /\ over < u
  <2>1. PICK v \in Nat : v = powers[k - 1] /\ u = 10 * v
    BY <1>2, <1>3, <1>4, PowersFacts
  <2> QED
    BY <1>2, <1>3, <1>l, <2>1
<1>8. /\ n % powers[Place(n, q, set) - q] = over
      /\ up => Nearest(neg, n, q, set) = Neighbour(neg, c, e, set)
      /\ ~up => Nearest(neg, n, q, set) = Neighbour(neg, lower, e, set)
  <2>1. n = lower * powers[k] + over
    <3>1. PICK x \in Int : x = c * u
      BY <1>2
    <3>2. lower * u = x - u
      BY <1>2, <1>l, <3>1
    <3> QED
      BY <1>2, <1>4, <1>l, <3>1, <3>2
  <2>2. RestAbove(n, q, set, k, lower, over)
    BY <1>2, <1>4, <1>6, <1>l, <1>o, <2>1 DEF RestAbove
  <2>3. PICK b : b = IF up THEN lower + 1 ELSE lower
    OBVIOUS
  <2>4. RoundsTo(neg, n, q, set, k, lower, over, b)
    BY <1>u, <2>2, <2>3, Zenon DEF RoundsTo
  <2>5. /\ n % powers[Place(n, q, set) - q] = over
        /\ Nearest(neg, n, q, set) = Neighbour(neg, b, q + k, set)
    BY <2>4, NearestIs
  <2>6. lower + 1 = c
    BY <1>2, <1>l
  <2> QED
    BY <1>1, <2>3, <2>5, <2>6, Zenon
<1>9. ~RoundsUp(w, set.round) /\ (RoundsDown(w, set.round) <=> ~up)
  <2>1. w.dn.coef = c /\ w.dn.neg = neg /\ w.residue = -1
    BY <1>3 DEF Work, Finite
  <2> HIDE DEF w
  <2>2. Tells(-1, rest, u) /\ w.residue = -1 /\ w.dn.coef \in Nat \ {0}
        /\ w.dn.neg \in BOOLEAN /\ rest \in Int /\ set.round \in Modes
    BY <1>2, <1>3, <1>4, <1>5, <2>1
  <2>3. /\ ~RoundsUp(w, set.round)
        /\ RoundsDown(w, set.round)
               <=> ~RoundsAway(set.round, w.dn.neg, w.dn.coef - 1, u + rest, u)
    BY <2>2, RoundsDownAgrees
  <2> QED
    BY <1>4, <1>l, <1>u, <2>1, <2>3, Zenon
<1>10. c < powers[set.digits] /\ powers[d - 1] <= c
  BY <1>2, <1>3, DigitsFacts
<1>11. /\ (Place(n, q, set) > q <=> cut)
       /\ (n % powers[Place(n, q, set) - q] # 0 <=> r # 0)
  BY <1>1, <1>2, <1>c, <1>3, <1>6, <1>8, <1>o
<1>t. PICK t \in Nat : t = powers[set.digits]
  BY <1>5, PowersFacts
<1>12. CASE up
  <2>1. Nearest(neg, n, q, set) = Finite(neg, c, e)
    <3>1. c # powers[set.digits]
      BY <1>2, <1>10, <1>t
    <3> QED
      BY <1>8, <1>12, <3>1, Zenon DEF Neighbour
  <2>2. ApplyRound(w, set) = Work(Finite(neg, c, e), r, Lost(cut, r))
    BY <1>s, <1>9, <1>12, ApplyRoundIs
  <2>3. Reaches(neg, n, q, set, c, e, cut, r)
    BY <1>2, <1>7, <1>11, <2>1 DEF Reaches
  <2> HIDE DEF w
  <2> QED
    BY <2>2, <2>3, NormalCloses
<1>13. CASE ~up
  <2>1. lower \in Nat \ {0} /\ lower < t
    <3>1. PICK a \in Nat \ {0} : a = powers[d - 1]
      BY <1>2, PowersStep
    <3> QED
      BY <1>2, <1>10, <1>t, <1>l, <3>1
  <2>2. Nearest(neg, n, q, set) = Finite(neg, lower, e)
    <3>1. lower # powers[set.digits]
      BY <1>t, <2>1
    <3> QED
      BY <1>8, <1>13, <3>1, Zenon DEF Neighbour
  <2>3. ApplyRound(w, set) = Work(Finite(neg, lower, e), r, st)
    <3>1. ApplyRound(w, set) = BumpDown(w, set)
      BY <1>9, <1>13, ApplyRoundIs
    <3>2. BumpDown(w, set) = Work(Finite(neg, c - 1, e), r, st)
      BY <1>2, BumpDownLess
    <3> QED
      BY <1>l, <3>1, <3>2
  <2>4. Digits(lower) <= set.digits
    BY <1>5, <1>t, <2>1, DigitsAtMost
  <2> HIDE DEF w
  <2> QED
    <3>1. Reaches(neg, n, q, set, lower, e, cut, r)
      BY <1>2, <1>7, <1>11, <2>1, <2>2, <2>4 DEF Reaches
    <3> QED
      BY <1>s, <2>3, <3>1, NormalCloses
<1> QED
  BY <1>12, <1>13

\* the exact value is a little below a power of ten, so in the decade below
LEMMA NormalBelowPower ==
    ASSUME NEW neg \in BOOLEAN, NEW set, Context(set), NEW c, NEW e, NEW r, NEW n, NEW q,
           set.digits >= 2,
           Pending(c, e, r, n, q, set), r < 0, c = powers[Digits(c) - 1],
           e > set.emin - Digits(c) + 1
    PROVE  CheckRange(ApplyRound(Work(Finite(neg, c, e), r, Lost(e > q, r)), set), set)
               = Work(Delivered(neg, n, q, set), r, FlagsFor(neg, n, q, set))
<1>1. PICK k, rest, d : k = e - q /\ e = q + k /\ Stands(c, k, r, rest, d, n, set)
  BY PendingStands
<1>2. /\ k \in Nat /\ rest \in Int /\ d \in Nat \ {0}
      /\ c \in Nat \ {0} /\ n \in Nat \ {0} /\ n = c * powers[k] + rest
      /\ Tells(r, rest, powers[k]) /\ d = Digits(c) /\ d <= set.digits
      /\ q \in Int /\ e \in Int
  BY <1>1 DEF Stands, Pending
<1>3. /\ r = -1 /\ k >= 2 /\ rest # 0 /\ d = set.digits
      /\ -rest \in Nat \ {0} /\ -rest < powers[k - 1] /\ powers[k] = 10 * powers[k - 1]
      /\ Digits(n) = d + k - 1 /\ c = powers[d - 1]
  BY <1>1, <1>2, StandsFacts
<1>4. PICK j \in Nat, v \in Nat \ {0} :
          j = k - 1 /\ j >= 1 /\ v = powers[j] /\ powers[k] = 10 * v
  BY <1>2, <1>3, PowersFacts
<1>5. /\ set.digits \in Nat \ {0} /\ set.emin \in Int /\ set.emax \in Int /\ set.round \in Modes
      /\ Etiny(set) = set.emin - (set.digits - 1)
  BY DEF Context, Etiny
<1>f. PICK f \in Int : f = e - 1 /\ f = q + j
  BY <1>1, <1>2, <1>4
<1>6. Place(n, q, set) = f
  <2>1. /\ q <= f /\ q + Digits(n) - set.digits <= f /\ Etiny(set) <= f
        /\ f \in {q, q + Digits(n) - set.digits, Etiny(set)}
    BY <1>1, <1>2, <1>3, <1>4, <1>5, <1>f
  <2> QED
    BY <1>2, <2>1, PlaceIs
<1>7. ~IsTiny(n, q, set)
  BY <1>1, <1>2, <1>3, <1>5 DEF IsTiny
<1>c. PICK cut \in BOOLEAN : cut <=> e > q
  BY <1>2
<1>s. PICK st : st = Lost(cut, r)
  OBVIOUS
<1>l. PICK lower \in Nat \ {0}, over \in Int : lower = 10 * c - 1 /\ over = v + rest
  BY <1>2
<1>u. PICK up \in BOOLEAN : up <=> RoundsAway(set.round, neg, lower, over, powers[j])
  BY Zenon
<1> DEFINE w == Work(Finite(neg, c, e), r, st)
<1>g. SUFFICES CheckRange(ApplyRound(w, set), set)
                   = Work(Delivered(neg, n, q, set), r, FlagsFor(neg, n, q, set))
  <2>1. Lost(e > q, r) = st
    BY <1>c, <1>s, Zenon DEF Lost
  <2> QED
    BY <2>1, Zenon
<1>o. over \in Nat \ {0} /\ over < v
  <2>1. -rest < v
    BY <1>3, <1>4
  <2> QED
    BY <1>2, <1>3, <1>l, <2>1
<1>10. powers[set.digits] = 10 * c /\ powers[set.digits] = lower + 1
       /\ powers[set.digits - 1] = c /\ c % 10 = 0
  <2>1. PICK g \in Nat \ {0} : g = d - 1
    BY <1>2, <1>3, <1>5
  <2>2. PICK a \in Nat : a = powers[g - 1] /\ powers[g] = 10 * a
    BY <2>1, PowersStep
  <2>3. powers[d] = 10 * powers[d - 1]
    BY <1>2, PowersStep
  <2>4. c = powers[g] /\ powers[set.digits] = powers[d] /\ powers[set.digits - 1] = powers[g]
    BY <1>3, <2>1
  <2>5. c = 10 * a
    BY <2>2, <2>4
  <2>6. powers[set.digits] = 10 * c
    BY <1>3, <2>3, <2>4
  <2> QED
    BY <1>2, <1>l, <2>2, <2>4, <2>5, <2>6
<1>8. /\ n % powers[Place(n, q, set) - q] = over
      /\ up => Nearest(neg, n, q, set) = Neighbour(neg, 10 * c, f, set)
      /\ ~up => Nearest(neg, n, q, set) = Neighbour(neg, lower, f, set)
  <2>1. n = lower * powers[j] + over
    <3>1. PICK x \in Int : x = c * v
      BY <1>2
    <3>2. lower * v = 10 * x - v
      BY <1>2, <1>l, <3>1
    <3>3. c * (10 * v) = 10 * x
      BY <1>2, <3>1
    <3>4. n = 10 * x + rest
      BY <1>2, <1>4, <3>3, Zenon
    <3>5. n = lower * v + over
      BY <1>2, <1>l, <3>1, <3>2, <3>4
    <3> QED
      BY <1>4, <3>5
  <2>2. RestAbove(n, q, set, j, lower, over)
    <3>1. Place(n, q, set) = q + j
      BY <1>6, <1>f
    <3>2. over < powers[j]
      BY <1>4, <1>o
    <3> QED
      BY <1>2, <1>4, <1>l, <1>o, <2>1, <3>1, <3>2 DEF RestAbove
  <2>3. PICK b : b = IF up THEN lower + 1 ELSE lower
    OBVIOUS
  <2>4. RoundsTo(neg, n, q, set, j, lower, over, b)
    BY <1>u, <2>2, <2>3, Zenon DEF RoundsTo
  <2>5. /\ n % powers[Place(n, q, set) - q] = over
        /\ Nearest(neg, n, q, set) = Neighbour(neg, b, q + j, set)
    BY <2>4, NearestIs
  <2>6. lower + 1 = 10 * c
    BY <1>2, <1>l
  <2> QED
    BY <1>f, <2>3, <2>5, <2>6, Zenon
<1>9. RoundsDown(w, set.round) <=> ~up
  <2>1. w.dn.coef = c /\ w.dn.neg = neg /\ w.residue = -1
    BY <1>3 DEF Work, Finite
  <2> HIDE DEF w
  <2>2. Tells(-1, rest, 10 * v)
    BY <1>2, <1>3, <1>4
  <2>3. w.residue = -1 /\ w.dn.coef \in Nat \ {0} /\ w.dn.coef % 10 = 0
        /\ w.dn.neg \in BOOLEAN /\ rest \in Int /\ set.round \in Modes
    BY <1>2, <1>5, <1>10, <2>1
  <2>4. RoundsDown(w, set.round)
            <=> ~RoundsAway(set.round, w.dn.neg, 10 * w.dn.coef - 1, v + rest, v)
    BY <2>2, <2>3, RoundsDownFromPower
  <2> QED
    BY <1>4, <1>l, <1>u, <2>1, <2>4, Zenon
<1>u2. ~RoundsUp(w, set.round)
  <2>1. w.dn.coef = c /\ w.dn.neg = neg /\ w.residue = -1
    BY <1>3 DEF Work, Finite
  <2> HIDE DEF w
  <2>2. Tells(-1, rest, powers[k]) /\ powers[k] \in Nat \ {0}
        /\ w.residue = -1 /\ w.dn.coef \in Nat \ {0}
        /\ w.dn.neg \in BOOLEAN /\ rest \in Int /\ set.round \in Modes
    BY <1>2, <1>3, <1>5, <2>1, PowersFacts
  <2> QED
    BY <2>2, RoundsDownAgrees
<1>11. /\ (Place(n, q, set) > q <=> cut)
       /\ (n % powers[Place(n, q, set) - q] # 0 <=> r # 0)
  BY <1>1, <1>2, <1>c, <1>3, <1>4, <1>6, <1>8, <1>o, <1>f
<1>12. CASE up
  <2>1. Nearest(neg, n, q, set) = Finite(neg, c, e)
    <3>1. f + 1 = e
      BY <1>2, <1>f
    <3> QED
      BY <1>8, <1>10, <1>12, <3>1, Zenon DEF Neighbour
  <2>2. ApplyRound(w, set) = Work(Finite(neg, c, e), r, Lost(cut, r))
    BY <1>s, <1>9, <1>u2, <1>12, ApplyRoundIs
  <2>3. Reaches(neg, n, q, set, c, e, cut, r)
    BY <1>2, <1>7, <1>11, <2>1 DEF Reaches
  <2> HIDE DEF w
  <2> QED
    BY <2>2, <2>3, NormalCloses
<1>13. CASE ~up
  <2>2. Nearest(neg, n, q, set) = Finite(neg, lower, f)
    <3>1. lower # powers[set.digits]
      BY <1>10, <1>l
    <3> QED
      BY <1>8, <1>13, <3>1, Zenon DEF Neighbour
  <2>3. ApplyRound(w, set) = Work(Finite(neg, lower, f), r, st)
    <3>1. ApplyRound(w, set) = BumpDown(w, set)
      BY <1>9, <1>u2, <1>13, ApplyRoundIs
    <3>2. e # Etiny(set) /\ c = powers[Digits(c) - 1]
      BY <1>2, <1>3, <1>5
    <3>3. lower = powers[Digits(c)] - 1
      BY <1>2, <1>3, <1>10, <1>l
    <3>4. BumpDown(w, set) = Work(Finite(neg, lower, f), r, st)
      BY <1>2, <1>f, <3>2, <3>3, BumpDownBorrow
    <3> QED
      BY <3>1, <3>4
  <2>4. Digits(lower) <= set.digits
    BY <1>5, <1>10, <1>l, DigitsAtMost
  <2> HIDE DEF w
  <2> QED
    <3>1. Reaches(neg, n, q, set, lower, f, cut, r)
      BY <1>2, <1>7, <1>11, <1>f, <2>2, <2>4 DEF Reaches
    <3> QED
      BY <1>s, <2>3, <3>1, NormalCloses
<1> QED
  BY <1>12, <1>13

(***************************************************************************)
(* decFinalize of a subnormal number.                                      *)
(***************************************************************************)
\* what the reference makes of a value that is too small: c * 10^e
Sinks(neg, n, q, set, c, e) ==
    /\ n # 0 /\ IsTiny(n, q, set) /\ c \in Nat /\ e \in Int
    /\ Nearest(neg, n, q, set) = Finite(neg, c, e)
    /\ e <= 0 /\ e + Digits(c) - 1 <= set.emin

TinyFlags(cut, inexact, zero) ==
    {"Subnormal"} \cup (IF cut THEN {"Rounded"} ELSE {})
                  \cup (IF inexact THEN {"Inexact", "Underflow"} ELSE {})
                  \cup (IF zero THEN {"Clamped"} ELSE {})

LEMMA TinyIs ==
    ASSUME NEW neg \in BOOLEAN, NEW n, NEW q, NEW set, Context(set), NEW c, NEW e,
           Sinks(neg, n, q, set, c, e)
    PROVE  /\ Delivered(neg, n, q, set) = Finite(neg, c, e)
           /\ \A cut, inexact, zero \in BOOLEAN :
                  /\ cut <=> Place(n, q, set) > q
                  /\ inexact <=> n % powers[Place(n, q, set) - q] # 0
                  /\ zero <=> c = 0
                  => FlagsFor(neg, n, q, set) = TinyFlags(cut, inexact, zero)
<1>0. /\ n # 0 /\ IsTiny(n, q, set) /\ c \in Nat /\ e \in Int
      /\ Nearest(neg, n, q, set) = Finite(neg, c, e)
      /\ e <= 0 /\ e + Digits(c) - 1 <= set.emin
  BY DEF Sinks
<1>x. PICK x : x = Finite(neg, c, e)
  OBVIOUS
<1>1. x.coef = c /\ x.exp = e /\ x.kind = "finite"
  BY <1>x, FiniteFields
<1>2. ~TooLarge(x, set)
  <2>1. Digits(c) \in Nat
    BY <1>0, DigitsFacts
  <2>2. set.emin \in Int /\ set.emax \in Int /\ set.emin <= set.emax
    BY DEF Context
  <2> QED
    BY <1>0, <1>1, <2>1, <2>2 DEF TooLarge
<1>3. ~(set.clamp /\ x.exp > Etop(set))
  BY <1>0, <1>1 DEF Context, Etop
<1>4. InRange(x, set) = x
  BY <1>2, <1>3, Zenon DEF InRange, Folded
<1>5. Delivered(neg, n, q, set) = x
  BY <1>0, <1>x, <1>4, DeliveredIs
<1>6. ASSUME NEW cut \in BOOLEAN, NEW inexact \in BOOLEAN, NEW zero \in BOOLEAN,
             cut <=> Place(n, q, set) > q,
             inexact <=> n % powers[Place(n, q, set) - q] # 0,
             zero <=> c = 0
      PROVE  FlagsFor(neg, n, q, set) = TinyFlags(cut, inexact, zero)
  <2>1. ASSUME NEW f
        PROVE  f \in FlagsFor(neg, n, q, set) <=> f \in TinyFlags(cut, inexact, zero)
    <3>0. Nearest(neg, n, q, set) = x
      BY <1>0, <1>x
    <3>1. f \in FlagsFor(neg, n, q, set) <=>
              \/ f = "Inexact" /\ (TooLarge(x, set) \/ n % powers[Place(n, q, set) - q] # 0)
              \/ f = "Rounded" /\ (TooLarge(x, set) \/ Place(n, q, set) > q)
              \/ f = "Subnormal" /\ IsTiny(n, q, set)
              \/ f = "Underflow" /\ IsTiny(n, q, set)
                 /\ (TooLarge(x, set) \/ n % powers[Place(n, q, set) - q] # 0)
              \/ f = "Overflow" /\ TooLarge(x, set)
              \/ f = "Clamped" /\ x.kind = "finite"
                 /\ (x.coef = 0 \/ (x.exp < x.exp /\ ~TooLarge(x, set)))
      BY <1>0, <1>5, <3>0, FlagsAre
    <3>2. ~(x.exp < x.exp)
      BY <1>0, <1>1
    <3>3. f \in FlagsFor(neg, n, q, set) <=>
              \/ f = "Inexact" /\ inexact
              \/ f = "Rounded" /\ cut
              \/ f = "Subnormal"
              \/ f = "Underflow" /\ inexact
              \/ f = "Clamped" /\ zero
      BY <1>0, <1>1, <1>2, <1>6, <3>1, <3>2, Zenon
    <3>4. f \in TinyFlags(cut, inexact, zero) <=>
              \/ f = "Inexact" /\ inexact
              \/ f = "Rounded" /\ cut
              \/ f = "Subnormal"
              \/ f = "Underflow" /\ inexact
              \/ f = "Clamped" /\ zero
      BY Zenon DEF TinyFlags
    <3> QED
      BY <3>3, <3>4, Zenon
  <2> QED
    BY <2>1, Zenon
<1> QED
  BY <1>5, <1>6, <1>x, Zenon

SinksWith(neg, n, q, set, c, e, cut, inexact, zero) ==
    /\ Context(set) /\ Sinks(neg, n, q, set, c, e)
    /\ cut \in BOOLEAN /\ inexact \in BOOLEAN /\ zero \in BOOLEAN
    /\ cut <=> Place(n, q, set) > q
    /\ inexact <=> n % powers[Place(n, q, set) - q] # 0
    /\ zero <=> c = 0

LEMMA TinyFlagsAre ==
    ASSUME NEW neg \in BOOLEAN, NEW n, NEW q, NEW set, NEW c, NEW e,
           NEW cut, NEW inexact, NEW zero,
           SinksWith(neg, n, q, set, c, e, cut, inexact, zero)
    PROVE  FlagsFor(neg, n, q, set) = TinyFlags(cut, inexact, zero)
<1>0. /\ Context(set) /\ Sinks(neg, n, q, set, c, e)
      /\ cut \in BOOLEAN /\ inexact \in BOOLEAN /\ zero \in BOOLEAN
      /\ cut <=> Place(n, q, set) > q
      /\ inexact <=> n % powers[Place(n, q, set) - q] # 0
      /\ zero <=> c = 0
  BY DEF SinksWith
<1> QED
  BY <1>0, TinyIs

\* below the normal numbers, but on a place the context can hold
LEMMA TinyExact ==
    ASSUME NEW neg \in BOOLEAN, NEW set, Context(set), NEW c, NEW e, NEW r, NEW n, NEW q,
           Pending(c, e, r, n, q, set), e < set.emin - Digits(c) + 1, e >= Etiny(set)
    PROVE  SetSubnormal(Work(Finite(neg, c, e), r, Lost(e > q, r)), set)
               = Work(Delivered(neg, n, q, set), r, FlagsFor(neg, n, q, set))
<1>1. PICK k, rest, d : k = e - q /\ e = q + k /\ Stands(c, k, r, rest, d, n, set)
  BY PendingStands
<1>2. /\ k \in Nat /\ rest \in Int /\ d \in Nat \ {0}
      /\ c \in Nat \ {0} /\ n \in Nat \ {0} /\ n = c * powers[k] + rest
      /\ d = Digits(c) /\ d <= set.digits /\ (k = 0 \/ d = set.digits)
      /\ q \in Int /\ e \in Int
  BY <1>1 DEF Stands, Pending
<1>3. /\ set.digits \in Nat \ {0} /\ set.emin \in Int /\ set.emin <= 0
      /\ Etiny(set) = set.emin - (set.digits - 1)
  BY DEF Context, Etiny
<1>4. d < set.digits /\ k = 0 /\ e = q
  BY <1>1, <1>2, <1>3
<1>5. r = 0 /\ rest = 0 /\ n = c
  BY <1>1, <1>2, <1>4, StandsFacts, PowersFacts
<1>6. Place(n, q, set) = q
  <2>1. q <= q /\ q + Digits(n) - set.digits <= q /\ Etiny(set) <= q
        /\ q \in {q, q + Digits(n) - set.digits, Etiny(set)}
    BY <1>2, <1>3, <1>4, <1>5
  <2> QED
    BY <1>2, <2>1, PlaceIs
<1>7. n % powers[Place(n, q, set) - q] = 0 /\ Nearest(neg, n, q, set) = Finite(neg, c, e)
  <2>1. RestAbove(n, q, set, 0, c, 0)
    BY <1>2, <1>5, <1>6, PowersFacts DEF RestAbove
  <2>2. ~RoundsAway(set.round, neg, c, 0, powers[0])
    BY <1>2, PowersFacts, ExactStays DEF Context
  <2>3. RoundsTo(neg, n, q, set, 0, c, 0, c)
    BY <2>1, <2>2, Zenon DEF RoundsTo
  <2>4. n % powers[Place(n, q, set) - q] = 0 /\ Nearest(neg, n, q, set) = Neighbour(neg, c, q + 0, set)
    BY <2>3, NearestIs
  <2>5. q + 0 = e
    BY <1>2, <1>4
  <2>6. c # powers[set.digits]
    BY <1>2, <1>3, <1>4, DigitsAtMost
  <2> QED
    BY <2>4, <2>5, <2>6, Zenon DEF Neighbour
<1>8. Sinks(neg, n, q, set, c, e)
  <2>1. IsTiny(n, q, set)
    BY <1>2, <1>3, <1>4, <1>5 DEF IsTiny
  <2>2. e <= 0 /\ e + Digits(c) - 1 <= set.emin
    BY <1>2, <1>3
  <2> QED
    BY <1>2, <1>7, <2>1, <2>2 DEF Sinks
<1>9. Delivered(neg, n, q, set) = Finite(neg, c, e)
      /\ FlagsFor(neg, n, q, set) = {"Subnormal"}
  <2>1. FlagsFor(neg, n, q, set) = TinyFlags(FALSE, FALSE, FALSE)
    <3>1. ~(Place(n, q, set) > q)
      BY <1>2, <1>6
    <3>2. ~(n % powers[Place(n, q, set) - q] # 0) /\ ~(c = 0)
      BY <1>2, <1>7
    <3>3. PICK no \in BOOLEAN : no = FALSE
      OBVIOUS
    <3>4. FlagsFor(neg, n, q, set) = TinyFlags(no, no, no)
      BY <1>8, <3>1, <3>2, <3>3, TinyIs
    <3> QED
      BY <3>3, <3>4
  <2> QED
    BY <1>8, <2>1, TinyIs DEF TinyFlags
<1> DEFINE w == Work(Finite(neg, c, e), r, {})
<1>10. Lost(e > q, r) = {}
  <2>1. ~(e > q) /\ ~(r # 0)
    BY <1>2, <1>4, <1>5
  <2> QED
    BY <2>1, Zenon DEF Lost
<1>11. w.dn.exp = e /\ ~IsZero(w.dn)
  BY <1>2 DEF Work, Finite, IsZero
<1>12. Raise(w, {"Subnormal"}) = Work(Finite(neg, c, e), r, {"Subnormal"})
  BY WorkParts
<1>13. UnderflowIfInexact(Work(Finite(neg, c, e), r, {"Subnormal"}))
           = Work(Finite(neg, c, e), r, {"Subnormal"})
  <2>1. "Inexact" \notin Work(Finite(neg, c, e), r, {"Subnormal"}).status
    BY WorkFields
  <2> QED
    BY <2>1, Zenon DEF UnderflowIfInexact
<1>14. Etiny(set) - e <= 0
  BY <1>2, <1>3
<1> HIDE DEF w
<1>15. SetSubnormal(w, set) = UnderflowIfInexact(Raise(w, {"Subnormal"}))
  BY <1>11, <1>14, Zenon DEF SetSubnormal
<1> QED
  BY <1>9, <1>10, <1>12, <1>13, <1>15, Zenon DEF w

\* a subnormal number that has been cut at the lowest place
StandsTiny(c, k, s, rest, n, q, set) ==
    /\ c \in Nat /\ k \in Nat /\ s \in -1..9 /\ rest \in Int
    /\ n \in Nat \ {0} /\ q \in Int /\ Etiny(set) = q + k /\ IsTiny(n, q, set)
    /\ n = c * powers[k] + rest /\ Tells(s, rest, powers[k])
    /\ c < powers[set.digits - 1]

\* what decApplyRound can have made of it, if c is the coefficient due
TinyOutcome(w, neg, c, tiny, s, st) ==
    \/ w = Work(Finite(neg, c, tiny), s, st)
    \/ /\ s # 0
       /\ w = Work(Finite(neg, c, tiny), s, st \cup SunkFlags)
    \/ \E x \in Nat : c = 10 * x /\ w = Work(Finite(neg, x, tiny + 1), s, st)

LEMMA TinyPlace ==
    ASSUME NEW c, NEW k, NEW s, NEW rest, NEW n, NEW q, NEW set, Context(set),
           StandsTiny(c, k, s, rest, n, q, set)
    PROVE  Place(n, q, set) = q + k
<1>1. /\ n \in Nat \ {0} /\ q \in Int /\ k \in Nat /\ Etiny(set) = q + k /\ IsTiny(n, q, set)
  BY DEF StandsTiny
<1>2. /\ set.digits \in Nat \ {0} /\ set.emin \in Int
      /\ Etiny(set) = set.emin - (set.digits - 1)
  BY DEF Context, Etiny
<1>3. Digits(n) \in Nat
  BY <1>1, DigitsFacts
<1>4. /\ q <= q + k /\ q + Digits(n) - set.digits <= q + k /\ Etiny(set) <= q + k
      /\ q + k \in {q, q + Digits(n) - set.digits, Etiny(set)} /\ q + k \in Int
  BY <1>1, <1>2, <1>3 DEF IsTiny
<1> QED
  BY <1>1, <1>4, PlaceIs

\* the coefficient due, when no more than the smallest normal one
LEMMA TinySinks ==
    ASSUME NEW neg, NEW set, Context(set), NEW n, NEW q, NEW c \in Nat, n # 0,
           IsTiny(n, q, set), NEW tiny, tiny = Etiny(set),
           Nearest(neg, n, q, set) = Neighbour(neg, c, tiny, set),
           NEW b \in Nat, b = powers[set.digits - 1], c <= b
    PROVE  Sinks(neg, n, q, set, c, tiny)
<1>1. /\ set.digits \in Nat \ {0} /\ set.emin \in Int /\ set.emin <= 0
      /\ tiny = set.emin - (set.digits - 1)
  BY DEF Context, Etiny
<1>2. PICK f \in Nat : f = set.digits - 1
  BY <1>1
<1>3. b = powers[f] /\ Digits(powers[f]) = f + 1
  BY <1>2, DigitsOfPower
<1>4. Digits(c) <= Digits(b) /\ Digits(c) \in Nat
  BY DigitsGrow, DigitsFacts
<1>5. tiny <= 0 /\ tiny + Digits(c) - 1 <= set.emin
  BY <1>1, <1>2, <1>3, <1>4
<1>6. c # powers[set.digits]
  <2>1. PICK t \in Nat : t = powers[set.digits] /\ t = 10 * b /\ b # 0
    BY <1>1, PowersStep
  <2> QED
    BY <2>1
<1>7. Nearest(neg, n, q, set) = Finite(neg, c, tiny)
  BY <1>6, Zenon DEF Neighbour
<1> QED
  BY <1>1, <1>5, <1>7 DEF Sinks

LEMMA TinyAbove ==
    ASSUME NEW neg \in BOOLEAN, NEW set, Context(set), NEW ws, ws.round = set.round,
           ws.emax = set.emax, NEW c, NEW k, NEW s, NEW rest, NEW n, NEW q, NEW st,
           StandsTiny(c, k, s, rest, n, q, set), s >= 0, NEW tiny, tiny = Etiny(set)
    PROVE  /\ n % powers[Place(n, q, set) - q] # 0 <=> s # 0
           /\ \E x \in Nat :
                  /\ Sinks(neg, n, q, set, x, tiny)
                  /\ TinyOutcome(ApplyRound(Work(Finite(neg, c, tiny), s, st), ws),
                                 neg, x, tiny, s, st)
<1>1. /\ c \in Nat /\ k \in Nat /\ s \in 0..9 /\ rest \in Int
      /\ n \in Nat \ {0} /\ q \in Int /\ tiny = q + k /\ IsTiny(n, q, set)
      /\ n = c * powers[k] + rest /\ Tells(s, rest, powers[k])
      /\ c < powers[set.digits - 1] /\ tiny \in Int
  BY DEF StandsTiny
<1>2. /\ set.digits \in Nat \ {0} /\ set.emin \in Int /\ set.emax \in Int /\ set.round \in Modes
      /\ set.emin <= set.emax /\ tiny = set.emin - (set.digits - 1)
  BY DEF Context, Etiny
<1>3. PICK u \in Nat \ {0} : u = powers[k]
  BY <1>1, PowersFacts
<1>4. rest \in 0..(u - 1) /\ (s = 0 <=> rest = 0)
  BY <1>1, <1>3 DEF Tells
<1>u. PICK up \in BOOLEAN : up <=> RoundsAway(set.round, neg, c, rest, powers[k])
  BY Zenon
<1>x. PICK x \in Nat : x = IF up THEN c + 1 ELSE c
  BY <1>1
<1>5. /\ n % powers[Place(n, q, set) - q] = rest
      /\ Nearest(neg, n, q, set) = Neighbour(neg, x, tiny, set)
  <2>1. Place(n, q, set) = q + k
    BY TinyPlace
  <2>2. rest \in Nat /\ rest < powers[k]
    BY <1>3, <1>4
  <2>3. RestAbove(n, q, set, k, c, rest)
    BY <1>1, <2>1, <2>2 DEF RestAbove
  <2>4. RoundsTo(neg, n, q, set, k, c, rest, x)
    BY <1>u, <1>x, <2>3, Zenon DEF RoundsTo
  <2>5. /\ n % powers[Place(n, q, set) - q] = rest
        /\ Nearest(neg, n, q, set) = Neighbour(neg, x, q + k, set)
    BY <2>4, NearestIs
  <2> QED
    BY <1>1, <2>5, Zenon
<1>b. PICK b \in Nat : b = powers[set.digits - 1] /\ c < b
  BY <1>1, <1>2, PowersStep
<1>6. Sinks(neg, n, q, set, x, tiny)
  <2>1. x <= b
    BY <1>1, <1>b, <1>x
  <2> QED
    BY <1>1, <1>5, <1>b, <2>1, TinySinks
<1> DEFINE w == Work(Finite(neg, c, tiny), s, st)
<1>7. w.dn.coef = c /\ w.dn.neg = neg /\ w.residue = s
  BY DEF Work, Finite
<1> HIDE DEF w
<1>8. RoundsUp(w, ws.round) <=> up
  <2>1. Tells(w.residue, rest, u) /\ w.residue \in 0..9 /\ w.dn.coef \in Nat
        /\ w.dn.neg \in BOOLEAN /\ rest \in Int /\ ws.round \in Modes
    BY <1>1, <1>2, <1>3, <1>7
  <2>2. RoundsUp(w, ws.round) <=> RoundsAway(ws.round, w.dn.neg, w.dn.coef, rest, u)
    BY <2>1, RoundsUpAgrees
  <2> QED
    BY <1>3, <1>7, <1>u, <2>2, Zenon
<1>9. ~RoundsDown(w, ws.round)
  <2>1. ~(w.residue < 0)
    BY <1>1, <1>7
  <2> QED
    BY <2>1, Zenon DEF RoundsDown
<1>10. TinyOutcome(ApplyRound(w, ws), neg, x, tiny, s, st)
  <2>1. CASE ~up
    <3>1. ApplyRound(w, ws) = w
      BY <1>8, <1>9, <2>1, ApplyRoundIs
    <3> QED
      BY <1>x, <2>1, <3>1 DEF TinyOutcome, w
  <2>2. CASE up /\ c # powers[Digits(c)] - 1
    <3>1. ApplyRound(w, ws) = BumpUp(w, ws)
      BY <1>8, <2>2, ApplyRoundIs
    <3>2. BumpUp(w, ws) = Work(Finite(neg, c + 1, tiny), s, st)
      BY <1>1, <2>2, BumpUpMore DEF w
    <3> QED
      BY <1>x, <2>2, <3>1, <3>2 DEF TinyOutcome
  <2>3. CASE up /\ c = powers[Digits(c)] - 1
    <3>1. ApplyRound(w, ws) = BumpUp(w, ws)
      BY <1>8, <2>3, ApplyRoundIs
    <3>2. PICK d \in Nat \ {0}, a \in Nat \ {0} : d = Digits(c) /\ a = powers[d - 1]
                                                 /\ powers[d] = 10 * a
      BY <1>1, DigitsFacts, PowersStep
    <3>3. c = powers[d] - 1 /\ x = 10 * a
      BY <1>1, <1>x, <2>3, <3>2
    <3>4. d <= set.digits - 1
      <4>1. c # 0 /\ set.digits # 1
        <5>1. c >= 9
          BY <1>1, <3>2, <3>3
        <5>2. CASE set.digits = 1
          <6>1. set.digits - 1 = 0
            BY <5>2
          <6>2. powers[set.digits - 1] = 1
            BY <6>1, PowersFacts
          <6> QED
            BY <1>1, <5>1, <6>2
        <5> QED
          BY <5>1, <5>2
      <4>2. set.digits - 1 \in Nat \ {0}
        BY <1>2, <4>1
      <4> QED
        BY <1>1, <3>2, <4>2, DigitsAtMost
    <3>5. ~(tiny + 1 + d > ws.emax + 1)
      BY <1>1, <1>2, <3>2, <3>4
    <3>6. BumpUp(w, ws) = IF tiny + 1 + d > ws.emax + 1
               THEN SetOverflow(Work(Finite(neg, powers[d - 1], tiny + 1), s, st), ws)
               ELSE Work(Finite(neg, powers[d - 1], tiny + 1), s, st)
      BY <1>1, <3>2, <3>3, BumpUpCarry, SMT DEF w
    <3>7. BumpUp(w, ws) = Work(Finite(neg, a, tiny + 1), s, st)
      BY <3>2, <3>5, <3>6, Zenon
    <3> QED
      BY <3>1, <3>2, <3>3, <3>7 DEF TinyOutcome
  <2> QED
    BY <2>1, <2>2, <2>3
<1> QED
  BY <1>4, <1>5, <1>6, <1>10 DEF w

LEMMA TinyBelow ==
    ASSUME NEW neg \in BOOLEAN, NEW set, Context(set), NEW ws, ws.round = set.round,
           NEW c, NEW k, NEW s, NEW rest, NEW n, NEW q, NEW st,
           StandsTiny(c, k, s, rest, n, q, set), s < 0, Etiny(ws) = Etiny(set),
           NEW tiny, tiny = Etiny(set)
    PROVE  /\ n % powers[Place(n, q, set) - q] # 0 <=> s # 0
           /\ \E x \in Nat :
                  /\ Sinks(neg, n, q, set, x, tiny)
                  /\ TinyOutcome(ApplyRound(Work(Finite(neg, c, tiny), s, st), ws),
                                 neg, x, tiny, s, st)
<1>1. /\ c \in Nat /\ k \in Nat /\ s = -1 /\ rest \in Int
      /\ n \in Nat \ {0} /\ q \in Int /\ tiny = q + k /\ IsTiny(n, q, set)
      /\ n = c * powers[k] + rest /\ Tells(s, rest, powers[k])
      /\ c < powers[set.digits - 1] /\ tiny \in Int
  BY DEF StandsTiny
<1>2. set.digits \in Nat \ {0} /\ set.round \in Modes
  BY DEF Context, Etiny
<1>3. PICK u \in Nat \ {0} : u = powers[k]
  BY <1>1, PowersFacts
<1>4. PICK over \in Nat \ {0} : over = u + rest /\ over < u /\ rest < 0
  BY <1>1, <1>3 DEF Tells
<1>5. c \in Nat \ {0}
  <2>1. CASE c = 0
    BY <1>1, <1>3, <1>4, <2>1
  <2> QED
    BY <1>1, <2>1
<1>l. PICK lower \in Nat : lower = c - 1 /\ lower + 1 = c
  BY <1>5
<1>u. PICK up \in BOOLEAN : up <=> RoundsAway(set.round, neg, lower, over, powers[k])
  BY Zenon
<1>x. PICK x \in Nat : x = IF up THEN lower + 1 ELSE lower
  BY <1>l
<1>6. /\ n % powers[Place(n, q, set) - q] = over
      /\ Nearest(neg, n, q, set) = Neighbour(neg, x, tiny, set)
  <2>1. Place(n, q, set) = q + k
    BY TinyPlace
  <2>2. n = lower * powers[k] + over
    <3>1. PICK y \in Int : y = c * u
      BY <1>1
    <3>2. lower * u = y - u
      BY <1>5, <1>l, <3>1
    <3> QED
      BY <1>1, <1>3, <1>4, <3>1, <3>2
  <2>3. RestAbove(n, q, set, k, lower, over)
    BY <1>1, <1>3, <1>4, <2>1, <2>2 DEF RestAbove
  <2>4. RoundsTo(neg, n, q, set, k, lower, over, x)
    BY <1>u, <1>x, <2>3, Zenon DEF RoundsTo
  <2>5. /\ n % powers[Place(n, q, set) - q] = over
        /\ Nearest(neg, n, q, set) = Neighbour(neg, x, q + k, set)
    BY <2>4, NearestIs
  <2> QED
    BY <1>1, <2>5, Zenon
<1>b. PICK b \in Nat : b = powers[set.digits - 1] /\ c < b
  BY <1>1, <1>2, PowersStep
<1>7. Sinks(neg, n, q, set, x, tiny)
  <2>1. x <= b
    BY <1>b, <1>l, <1>x
  <2> QED
    BY <1>1, <1>6, <1>b, <2>1, TinySinks
<1> DEFINE w == Work(Finite(neg, c, tiny), s, st)
<1>8. w.dn.coef = c /\ w.dn.neg = neg /\ w.residue = s
  BY DEF Work, Finite
<1> HIDE DEF w
<1>9. ~RoundsUp(w, ws.round) /\ (RoundsDown(w, ws.round) <=> ~up)
  <2>1. Tells(-1, rest, u) /\ w.residue = -1 /\ w.dn.coef \in Nat \ {0}
        /\ w.dn.neg \in BOOLEAN /\ rest \in Int /\ ws.round \in Modes
    BY <1>1, <1>2, <1>3, <1>5, <1>8
  <2>2. /\ ~RoundsUp(w, ws.round)
        /\ RoundsDown(w, ws.round)
               <=> ~RoundsAway(ws.round, w.dn.neg, w.dn.coef - 1, u + rest, u)
    BY <2>1, RoundsDownAgrees
  <2> QED
    BY <1>3, <1>4, <1>8, <1>l, <1>u, <2>2, Zenon
<1>10. TinyOutcome(ApplyRound(w, ws), neg, x, tiny, s, st)
  <2>1. CASE up
    <3>1. ApplyRound(w, ws) = w
      BY <1>9, <2>1, ApplyRoundIs
    <3> QED
      BY <1>l, <1>x, <2>1, <3>1 DEF TinyOutcome, w
  <2>2. CASE ~up
    <3>1. ApplyRound(w, ws) = BumpDown(w, ws)
      BY <1>9, <2>2, ApplyRoundIs
    <3>2. CASE c # powers[Digits(c) - 1]
      <4>1. BumpDown(w, ws) = Work(Finite(neg, c - 1, tiny), s, st)
        BY <1>1, <1>5, <3>2, BumpDownLess DEF w
      <4> QED
        BY <1>l, <1>x, <2>2, <3>1, <4>1 DEF TinyOutcome
    <3>3. CASE c = powers[Digits(c) - 1]
      <4>1. BumpDown(w, ws) = Work(Finite(neg, c - 1, tiny), s, st \cup SunkFlags)
        BY <1>1, <1>5, <3>3, BumpDownTiny DEF w
      <4>2. s # 0
        BY <1>1
      <4> QED
        BY <1>l, <1>x, <2>2, <3>1, <4>1, <4>2 DEF TinyOutcome
    <3> QED
      BY <3>2, <3>3
  <2> QED
    BY <2>1, <2>2
<1> QED
  BY <1>1, <1>4, <1>6, <1>7, <1>10 DEF w

\* the flags a cut leaves
TinyStatus(inexact) == {"Subnormal", "Rounded"} \cup (IF inexact THEN {"Inexact"} ELSE {})

\* what decSetSubnormal does after the round
TinyRounded(w, neg, c, tiny, s, inexact, zero, flags) ==
    /\ flags = TinyFlags(TRUE, inexact, zero)
    /\ c \in Nat /\ tiny \in Int /\ neg \in BOOLEAN
    /\ inexact \in BOOLEAN /\ zero \in BOOLEAN
    /\ inexact <=> s # 0
    /\ zero <=> c = 0
    /\ TinyOutcome(w, neg, c, tiny, s, TinyStatus(inexact))

LEMMA TinyFinish ==
    ASSUME NEW neg, NEW w, NEW c, NEW tiny, NEW s, NEW inexact, NEW zero, NEW flags,
           TinyRounded(w, neg, c, tiny, s, inexact, zero, flags)
    PROVE  ClampedIfZero(ShiftedBack(UnderflowIfInexact(w), tiny))
               = Work(Finite(neg, c, tiny), s, flags)
<1>0. /\ flags = TinyFlags(TRUE, inexact, zero)
      /\ c \in Nat /\ tiny \in Int /\ neg \in BOOLEAN
      /\ inexact \in BOOLEAN /\ zero \in BOOLEAN
      /\ inexact <=> s # 0
      /\ zero <=> c = 0
  BY DEF TinyRounded
<1>t. PICK st : st = TinyStatus(inexact) /\ TinyOutcome(w, neg, c, tiny, s, st)
  BY DEF TinyRounded
<1>f. PICK final : final = st \cup (IF inexact THEN {"Underflow"} ELSE {})
  OBVIOUS
<1>s. st = {"Subnormal", "Rounded"} \cup (IF inexact THEN {"Inexact"} ELSE {})
  BY <1>t DEF TinyStatus
<1>1. UnderflowIfInexact(w) = Work(w.dn, s, final)
  <2>1. ASSUME NEW dn, w = Work(dn, s, st)
        PROVE  UnderflowIfInexact(w) = Work(w.dn, s, final)
    <3>1. w.status = st /\ w.dn = dn /\ Raise(w, {"Underflow"}) = Work(dn, s, st \cup {"Underflow"})
      BY <2>1, WorkFields, WorkParts
    <3>2. "Inexact" \in st <=> inexact
      BY <1>s, Zenon
    <3>3. CASE inexact
      <4>1. UnderflowIfInexact(w) = Raise(w, {"Underflow"})
        BY <3>1, <3>2, <3>3, Zenon DEF UnderflowIfInexact
      <4>2. final = st \cup {"Underflow"}
        BY <1>f, <3>3
      <4> QED
        BY <3>1, <4>1, <4>2
    <3>4. CASE ~inexact
      <4>1. UnderflowIfInexact(w) = w
        BY <3>1, <3>2, <3>4, Zenon DEF UnderflowIfInexact
      <4>2. final = st
        BY <1>f, <3>4
      <4> QED
        BY <2>1, <3>1, <4>1, <4>2
    <3> QED
      BY <3>3, <3>4
  <2>2. ASSUME NEW dn, w = Work(dn, s, st \cup SunkFlags), inexact
        PROVE  UnderflowIfInexact(w) = Work(w.dn, s, final)
    <3>0. PICK all : all = st \cup SunkFlags
      OBVIOUS
    <3>1. w.status = st \cup SunkFlags /\ w.dn = dn
          /\ Raise(w, {"Underflow"}) = Work(dn, s, (st \cup SunkFlags) \cup {"Underflow"})
      <4>1. w = Work(dn, s, all)
        BY <2>2, <3>0
      <4>2. w.status = all /\ w.dn = dn /\ Raise(w, {"Underflow"}) = Work(dn, s, all \cup {"Underflow"})
        BY <4>1, WorkFields, WorkParts
      <4> QED
        BY <3>0, <4>2
    <3>2. "Inexact" \in w.status
      BY <1>s, <2>2, <3>1
    <3>3. UnderflowIfInexact(w) = Raise(w, {"Underflow"})
      BY <3>2, Zenon DEF UnderflowIfInexact
    <3>4. (st \cup SunkFlags) \cup {"Underflow"} = final
      BY <1>f, <1>s, <2>2 DEF SunkFlags
    <3> QED
      BY <3>1, <3>3, <3>4
  <2> QED
    BY <1>0, <1>t, <2>1, <2>2 DEF TinyOutcome
<1>2. final = {"Subnormal", "Rounded"} \cup (IF inexact THEN {"Inexact", "Underflow"} ELSE {})
  BY <1>f, <1>s
<1>3. ShiftedBack(Work(w.dn, s, final), tiny) = Work(Finite(neg, c, tiny), s, final)
  <2> DEFINE y == Work(w.dn, s, final)
  <2>1. ASSUME w.dn = Finite(neg, c, tiny)
        PROVE  ShiftedBack(y, tiny) = Work(Finite(neg, c, tiny), s, final)
    <3>1. y.dn.exp = tiny
      BY <2>1 DEF Work, Finite
    <3> HIDE DEF y
    <3>2. ~(y.dn.exp > tiny)
      BY <1>0, <3>1
    <3>3. ShiftedBack(y, tiny) = y
      BY <3>2, Zenon DEF ShiftedBack
    <3> QED
      BY <2>1, <3>3 DEF y
  <2>2. ASSUME NEW x \in Nat, c = 10 * x, w.dn = Finite(neg, x, tiny + 1)
        PROVE  ShiftedBack(y, tiny) = Work(Finite(neg, c, tiny), s, final)
    <3>1. PICK up \in Int : up = tiny + 1
      BY <1>0
    <3>2. y = Work(Finite(neg, x, up), s, final)
      BY <2>2, <3>1
    <3>3. y.dn.exp = up /\ y.dn.coef = x
      BY <3>2 DEF Work, Finite
    <3>4. [y EXCEPT !.dn.coef = c] = Work(Finite(neg, c, up), s, final)
      BY <1>0, <3>2 DEF Work, Finite
    <3>5. [Work(Finite(neg, c, up), s, final) EXCEPT !.dn.exp = tiny]
              = Work(Finite(neg, c, tiny), s, final)
      BY <1>0 DEF Work, Finite
    <3> HIDE DEF y
    <3>6. [y EXCEPT !.dn.coef = c, !.dn.exp = tiny]
              = [[y EXCEPT !.dn.coef = c] EXCEPT !.dn.exp = tiny]
      OBVIOUS
    <3>7. y.dn.exp > tiny /\ y.dn.exp - 1 = tiny /\ 10 * y.dn.coef = c
      BY <1>0, <2>2, <3>1, <3>3
    <3>8. ShiftedBack(y, tiny) = [y EXCEPT !.dn.coef = c, !.dn.exp = tiny]
      BY <3>7, Zenon DEF ShiftedBack
    <3> QED
      BY <3>4, <3>5, <3>6, <3>8, Zenon
  <2>3. \/ w.dn = Finite(neg, c, tiny)
        \/ \E x \in Nat : c = 10 * x /\ w.dn = Finite(neg, x, tiny + 1)
    BY <1>t, WorkFields DEF TinyOutcome
  <2> QED
    BY <2>1, <2>2, <2>3
<1>4. ClampedIfZero(Work(Finite(neg, c, tiny), s, final))
          = Work(Finite(neg, c, tiny), s, TinyFlags(TRUE, inexact, zero))
  <2> DEFINE y == Work(Finite(neg, c, tiny), s, final)
  <2>1. y.dn.kind = "finite" /\ y.dn.coef = c
    BY DEF Work, Finite
  <2>2. Raise(y, {"Clamped"}) = Work(Finite(neg, c, tiny), s, final \cup {"Clamped"})
    BY WorkParts
  <2>3. TinyFlags(TRUE, inexact, zero) = final \cup (IF zero THEN {"Clamped"} ELSE {})
    BY <1>2 DEF TinyFlags
  <2> HIDE DEF y
  <2>4. CASE zero
    <3>1. ClampedIfZero(y) = Raise(y, {"Clamped"})
      BY <1>0, <2>1, <2>4, Zenon DEF ClampedIfZero, IsZero
    <3> QED
      BY <2>2, <2>3, <2>4, <3>1 DEF y
  <2>5. CASE ~zero
    <3>1. ClampedIfZero(y) = y
      BY <1>0, <2>1, <2>5, Zenon DEF ClampedIfZero, IsZero
    <3> QED
      BY <2>3, <2>5, <3>1 DEF y
  <2> QED
    BY <2>4, <2>5
<1> QED
  BY <1>0, <1>1, <1>3, <1>4, Zenon

\* the number as decSetSubnormal has cut it
CutsAt(c, e, r, n, q, set, ws, tiny) ==
    /\ Context(set) /\ Pending(c, e, r, n, q, set)
    /\ tiny \in Int /\ tiny = Etiny(set) /\ e < tiny
    /\ ws.digits = Digits(c) - (tiny - e)

LEMMA TinyIsCut ==
    ASSUME NEW neg \in BOOLEAN, NEW set, NEW ws, NEW c, NEW e, NEW r, NEW n, NEW q,
           NEW st, NEW tiny, CutsAt(c, e, r, n, q, set, ws, tiny)
    PROVE  \E s \in -1..9 : \E b \in Nat : \E k, rest :
               /\ SetCoeff(Work(Finite(neg, c, e), r, st), ws)
                      = Work(Finite(neg, b, tiny), s, CutFlags(st, s))
               /\ StandsTiny(b, k, s, rest, n, q, set)
               /\ r # 0 => s # 0
               /\ s < 0 => Digits(c) = set.digits
<1>0. /\ Context(set) /\ Pending(c, e, r, n, q, set)
      /\ tiny \in Int /\ tiny = Etiny(set) /\ e < tiny
      /\ ws.digits = Digits(c) - (tiny - e)
  BY DEF CutsAt
<1>1. PICK i, low, d : i = e - q /\ e = q + i /\ Stands(c, i, r, low, d, n, set)
  BY <1>0, PendingStands
<1>2. /\ i \in Nat /\ low \in Int /\ d \in Nat \ {0} /\ r \in -1..9
      /\ c \in Nat \ {0} /\ n \in Nat \ {0} /\ n = c * powers[i] + low
      /\ Tells(r, low, powers[i]) /\ d = Digits(c) /\ d <= set.digits
      /\ q \in Int /\ e \in Int
  BY <1>0, <1>1 DEF Stands, Pending
<1>3. /\ r = 0 <=> low = 0
      /\ r # 0 => d = set.digits
      /\ Digits(n) <= d + i
  <2>1. /\ r = 0 <=> low = 0
        /\ r # 0 => d = set.digits
        /\ r >= 0 => Digits(n) = d + i
        /\ r < 0 /\ c # powers[d - 1] => Digits(n) = d + i
        /\ r < 0 /\ c = powers[d - 1] => Digits(n) = d + i - 1
    BY <1>1, StandsFacts
  <2> QED
    BY <1>2, <2>1
<1>4. /\ set.digits \in Nat \ {0} /\ set.emin \in Int /\ tiny = set.emin - (set.digits - 1)
  BY <1>0 DEF Context, Etiny
<1>5. PICK adj \in Nat \ {0} : adj = tiny - e
  BY <1>0, <1>2
<1>6. PICK u \in Nat \ {0}, p \in Nat \ {0} : u = powers[i] /\ p = powers[adj]
  <2>1. powers[i] \in Nat \ {0}
    BY <1>2, PowersFacts
  <2>2. powers[adj] \in Nat \ {0}
    BY PowersFacts
  <2> QED
    BY <2>1, <2>2
<1>w. PICK whole \in Nat \ {0} : whole = p * u /\ u <= whole
  BY <1>6, MulGrows
<1>k. PICK k \in Nat : k = adj + i /\ powers[k] = whole
  <2>1. adj + i \in Nat
    BY <1>2
  <2>2. powers[adj + i] = powers[adj] * powers[i]
    BY <1>2, PowersSum
  <2>3. powers[adj + i] = whole
    BY <1>6, <1>w, <2>2, Zenon
  <2> QED
    BY <2>1, <2>3
<1>7. Near(r, low, u, whole)
  <2>1. Tells(r, low, u)
    BY <1>2, <1>6
  <2> QED
    BY <1>2, <1>w, <2>1, TellsNear
<1>8. PICK s \in -1..9 :
          /\ SetCoeff(Work(Finite(neg, c, e), r, st), ws)
                 = Work(Finite(neg, c \div powers[adj], e + adj), s, CutFlags(st, s))
          /\ Tells(s, (c % powers[adj]) * u + low, powers[adj] * u)
  <2>1. d - ws.digits = adj
    BY <1>0, <1>2, <1>5
  <2>2. Near(r, low, u, powers[adj] * u)
    BY <1>6, <1>w, <1>7
  <2>3. CutBy(c, r, low, u, adj, ws)
    BY <1>2, <2>1, <2>2 DEF CutBy
  <2> QED
    BY <1>2, <2>3, SetCoeffCuts
<1>9. PICK b \in Nat, m \in Nat : b = c \div p /\ m = c % p /\ c = b * p + m /\ m < p
  BY <1>2, Euclid
<1>10. PICK rest \in Int : rest = m * u + low
  BY <1>2
<1>11. Tells(s, rest, whole)
  BY <1>6, <1>8, <1>9, <1>10, <1>w
<1>12. n = b * whole + rest
  <2>1. PICK y \in Int : y = b * whole
    OBVIOUS
  <2>2. b * (p * u) = y
    BY <1>w, <2>1
  <2>3. (b * p + m) * u = b * (p * u) + m * u
    OBVIOUS
  <2>4. c * u = y + m * u
    BY <1>9, <2>2, <2>3, Zenon
  <2>5. PICK z \in Int, x \in Int : z = m * u /\ x = c * u
    BY <1>2
  <2>6. n = x + low
    BY <1>2, <1>6, <2>5
  <2>7. x = y + z
    BY <2>4, <2>5
  <2>8. rest = z + low
    BY <1>10, <2>5
  <2> QED
    BY <1>2, <2>1, <2>6, <2>7, <2>8
<1>13. r # 0 => s # 0
  <2>1. ASSUME r # 0 PROVE rest # 0
    <3>1. low # 0
      BY <1>2, <1>3, <2>1
    <3>2. -u < low /\ low < u
      <4>1. Tells(r, low, u)
        BY <1>2, <1>6
      <4> QED
        BY <1>2, <4>1 DEF Tells
    <3>3. CASE m = 0
      <4>1. m * u = 0
        BY <3>3
      <4> QED
        BY <1>2, <1>10, <3>1, <4>1
    <3>4. CASE m # 0
      <4>1. PICK z \in Nat : z = m * u /\ u <= z
        BY <3>4, MulGrows
      <4> QED
        BY <1>2, <1>10, <3>2, <4>1
    <3> QED
      BY <3>3, <3>4
  <2> QED
    BY <1>11, <2>1 DEF Tells
<1>14. s < 0 => d = set.digits
  <2>1. ASSUME s < 0 PROVE r # 0
    <3>1. rest < 0
      BY <1>11, <2>1 DEF Tells
    <3>2. PICK z \in Nat : z = m * u
      OBVIOUS
    <3>3. low < 0
      BY <1>2, <1>10, <3>1, <3>2
    <3> QED
      BY <1>2, <1>3, <3>3
  <2> QED
    BY <1>3, <2>1
<1>15. b < powers[set.digits - 1]
  <2>1. PICK top \in Nat \ {0} : top = powers[set.digits - 1] /\ powers[set.digits] = 10 * top
    BY <1>4, PowersStep
  <2>2. c < 10 * top
    <3>1. c < powers[d] /\ powers[d] <= powers[set.digits]
      BY <1>2, <1>4, DigitsFacts, PowersGrow
    <3>2. powers[d] \in Nat
      BY <1>2, PowersFacts
    <3> QED
      BY <1>2, <2>1, <3>1, <3>2
  <2>3. p >= 10
    <3>1. PICK v \in Nat \ {0} : p = 10 * v
      BY <1>6, PowersStep
    <3> QED
      BY <3>1
  <2>4. 10 * b <= b * p
    BY <2>3
  <2>5. PICK y \in Nat : y = b * p
    OBVIOUS
  <2> QED
    BY <1>2, <1>9, <2>1, <2>2, <2>4, <2>5
<1>16. IsTiny(n, q, set)
  BY <1>0, <1>1, <1>2, <1>3, <1>4, DigitsFacts DEF IsTiny
<1>17. StandsTiny(b, k, s, rest, n, q, set)
  <2>1. Etiny(set) = q + k
    BY <1>0, <1>1, <1>2, <1>5, <1>k
  <2>2. n = b * powers[k] + rest /\ Tells(s, rest, powers[k])
    BY <1>11, <1>12, <1>k
  <2> QED
    BY <1>2, <1>15, <1>16, <2>1, <2>2 DEF StandsTiny
<1>18. e + adj = tiny /\ c \div powers[adj] = b
  BY <1>0, <1>2, <1>5, <1>6, <1>9
<1>19. SetCoeff(Work(Finite(neg, c, e), r, st), ws) = Work(Finite(neg, b, tiny), s, CutFlags(st, s))
  BY <1>8, <1>18, Zenon
<1> QED
  BY <1>2, <1>13, <1>14, <1>17, <1>19

LEMMA TinyCut ==
    ASSUME NEW neg \in BOOLEAN, NEW set, Context(set), NEW c, NEW e, NEW r, NEW n, NEW q,
           Pending(c, e, r, n, q, set), e < Etiny(set)
    PROVE  \E s \in -1..9 :
               SetSubnormal(Work(Finite(neg, c, e), r, Lost(e > q, r)), set)
                   = Work(Delivered(neg, n, q, set), s, FlagsFor(neg, n, q, set))
<1>1. c \in Nat \ {0} /\ e \in Int /\ r \in -1..9 /\ q \in Int /\ e - q \in Nat
  BY DEF Pending
<1>2. set \in [digits : Nat \ {0}, emin : Int, emax : Int, round : Modes, clamp : BOOLEAN]
  BY DEF Context
<1>3. PICK tiny \in Int : tiny = Etiny(set) /\ tiny = set.emin - (set.digits - 1)
  BY <1>2 DEF Etiny
<1>c. PICK cut \in BOOLEAN : cut <=> e > q
  BY <1>1
<1>s. PICK st : st = Lost(cut, r)
  OBVIOUS
<1>b. PICK sub : sub = st \cup {"Subnormal"}
  OBVIOUS
<1> DEFINE w   == Work(Finite(neg, c, e), r, st)
           low == Work(Finite(neg, c, e), r, sub)
           adj == tiny - e
           ws  == [set EXCEPT !.digits = Digits(c) - adj, !.emin = @ - adj]
<1>g. SUFFICES \E s \in -1..9 : SetSubnormal(w, set)
                          = Work(Delivered(neg, n, q, set), s, FlagsFor(neg, n, q, set))
  <2>1. Lost(e > q, r) = st
    BY <1>c, <1>s, Zenon DEF Lost
  <2> QED
    BY <2>1, Zenon
<1>4. w.dn.coef = c /\ w.dn.exp = e /\ w.dn.kind = "finite"
      /\ Raise(w, {"Subnormal"}) = low
  BY <1>b, WorkFields, FiniteFields, WorkParts
<1>5. ws.digits = Digits(c) - adj /\ ws.round = set.round /\ ws.emax = set.emax
      /\ ws.emin = set.emin - adj
  BY <1>2
<1>6. Digits(c) \in Nat
  BY <1>1, DigitsFacts
<1>7. Digits(c) = set.digits => Etiny(ws) = tiny
  BY <1>1, <1>2, <1>3, <1>5, <1>6 DEF Etiny
<1> HIDE DEF w
<1>8. SetSubnormal(w, set)
          = ClampedIfZero(ShiftedBack(UnderflowIfInexact(ApplyRound(SetCoeff(low, ws), ws)),
                                      tiny))
  <2>1. ~(tiny - e <= 0) /\ c # 0
    BY <1>1, <1>3
  <2> QED
    BY <1>3, <1>4, <2>1, Zenon DEF SetSubnormal, IsZero
<1> HIDE DEF ws, low
<1>9. PICK s \in -1..9, b \in Nat :
          /\ SetCoeff(low, ws) = Work(Finite(neg, b, tiny), s, CutFlags(sub, s))
          /\ \E k, rest : StandsTiny(b, k, s, rest, n, q, set)
          /\ r # 0 => s # 0
          /\ s < 0 => Digits(c) = set.digits
  <2>1. ws.digits = Digits(c) - (tiny - e) /\ e < tiny
    BY <1>3, <1>5
  <2> HIDE DEF adj
  <2>2. CutsAt(c, e, r, n, q, set, ws, tiny)
    BY <1>3, <2>1 DEF CutsAt
  <2>3. \E s \in -1..9 : \E b \in Nat : \E k, rest :
            /\ SetCoeff(Work(Finite(neg, c, e), r, sub), ws)
                   = Work(Finite(neg, b, tiny), s, CutFlags(sub, s))
            /\ StandsTiny(b, k, s, rest, n, q, set)
            /\ r # 0 => s # 0
            /\ s < 0 => Digits(c) = set.digits
    BY <2>2, TinyIsCut
  <2> QED
    BY <2>3 DEF low
<1>k. PICK k, rest : StandsTiny(b, k, s, rest, n, q, set)
  BY <1>9
<1>10. PICK fl : fl = CutFlags(sub, s)
  OBVIOUS
<1>11. PICK x \in Nat :
          /\ n % powers[Place(n, q, set) - q] # 0 <=> s # 0
          /\ Sinks(neg, n, q, set, x, tiny)
          /\ TinyOutcome(ApplyRound(Work(Finite(neg, b, tiny), s, fl), ws), neg, x, tiny, s, fl)
  <2>1. CASE s >= 0
    BY <1>3, <1>5, <1>k, <2>1, TinyAbove
  <2>2. CASE s < 0
    <3>1. Etiny(ws) = Etiny(set)
      BY <1>3, <1>7, <1>9, <2>2
    <3> QED
      BY <1>3, <1>5, <1>k, <2>2, <3>1, TinyBelow
  <2> QED
    BY <2>1, <2>2
<1>12. PICK inexact \in BOOLEAN, zero \in BOOLEAN, yes \in BOOLEAN :
           (inexact <=> s # 0) /\ (zero <=> x = 0) /\ yes = TRUE
  <2>1. (s # 0) \in BOOLEAN /\ (x = 0) \in BOOLEAN
    OBVIOUS
  <2> QED
    BY <2>1
<1>13. fl = TinyStatus(inexact)
  <2>1. ASSUME NEW f
        PROVE  f \in fl <=> f \in TinyStatus(inexact)
    <3>1. f \in CutFlags(sub, s) <=> f \in sub \/ f = "Rounded" \/ (s # 0 /\ f = "Inexact")
      BY Zenon DEF CutFlags
    <3>2. f \in st <=> (cut /\ f = "Rounded") \/ (r # 0 /\ f = "Inexact")
      BY <1>s, Zenon DEF Lost
    <3>3. f \in sub <=> f \in st \/ f = "Subnormal"
      BY <1>b, Zenon
    <3>4. r # 0 => inexact
      BY <1>9, <1>12
    <3>5. f \in CutFlags(sub, s)
              <=> f = "Subnormal" \/ f = "Rounded" \/ (inexact /\ f = "Inexact")
      BY <1>12, <3>1, <3>2, <3>3, <3>4, Zenon
    <3> QED
      BY <1>10, <3>5, Zenon DEF TinyStatus
  <2> QED
    BY <2>1, Zenon DEF TinyStatus
<1>14. ClampedIfZero(ShiftedBack(UnderflowIfInexact(
                     ApplyRound(Work(Finite(neg, b, tiny), s, fl), ws)), tiny))
           = Work(Finite(neg, x, tiny), s, TinyFlags(TRUE, inexact, zero))
  <2>1. PICK a : a = ApplyRound(Work(Finite(neg, b, tiny), s, fl), ws)
    OBVIOUS
  <2>2. PICK flags : flags = TinyFlags(TRUE, inexact, zero)
    OBVIOUS
  <2>3. TinyRounded(a, neg, x, tiny, s, inexact, zero, flags)
    BY <1>3, <1>11, <1>12, <1>13, <2>1, <2>2 DEF TinyRounded
  <2>4. ClampedIfZero(ShiftedBack(UnderflowIfInexact(a), tiny))
           = Work(Finite(neg, x, tiny), s, flags)
    BY <2>3, TinyFinish
  <2> QED
    BY <2>1, <2>2, <2>4
<1>15. Place(n, q, set) > q
  <2>1. Place(n, q, set) = q + k
    BY <1>k, TinyPlace
  <2>2. tiny = q + k
    BY <1>3, <1>k DEF StandsTiny
  <2> QED
    BY <1>1, <1>3, <2>1, <2>2
<1>16. Delivered(neg, n, q, set) = Finite(neg, x, tiny)
       /\ FlagsFor(neg, n, q, set) = TinyFlags(TRUE, inexact, zero)
  <2>1. yes <=> Place(n, q, set) > q
    BY <1>12, <1>15
  <2>2. inexact <=> n % powers[Place(n, q, set) - q] # 0
    BY <1>11, <1>12
  <2>3. FlagsFor(neg, n, q, set) = TinyFlags(yes, inexact, zero)
    <3>1. SinksWith(neg, n, q, set, x, tiny, yes, inexact, zero)
      BY <1>11, <1>12, <2>1, <2>2 DEF SinksWith
    <3> QED
      BY <3>1, TinyFlagsAre
  <2>4. Delivered(neg, n, q, set) = Finite(neg, x, tiny)
    BY <1>11, TinyIs
  <2> QED
    BY <1>12, <2>3, <2>4
<1> QED
  BY <1>8, <1>9, <1>10, <1>14, <1>16, Zenon

\* the exact value is a little below the smallest normal number
AtNmin(c, e, r, n, q, set) ==
    /\ Context(set) /\ set.digits >= 2 /\ Pending(c, e, r, n, q, set) /\ r < 0
    /\ c = powers[Digits(c) - 1] /\ e = set.emin - Digits(c) + 1

LEMMA TinyBelowNmin ==
    ASSUME NEW neg \in BOOLEAN, NEW set, NEW c, NEW e, NEW r, NEW n, NEW q,
           AtNmin(c, e, r, n, q, set)
    PROVE  SetSubnormal(ApplyRound(Work(Finite(neg, c, e), r, Lost(e > q, r)), set), set)
               = Work(Delivered(neg, n, q, set), r, FlagsFor(neg, n, q, set))
<1>0. /\ Context(set) /\ set.digits >= 2 /\ Pending(c, e, r, n, q, set) /\ r < 0
      /\ c = powers[Digits(c) - 1] /\ e = set.emin - Digits(c) + 1
  BY DEF AtNmin
<1>1. PICK k, rest, d : k = e - q /\ e = q + k /\ Stands(c, k, r, rest, d, n, set)
  BY <1>0, PendingStands
<1>2. /\ k \in Nat /\ rest \in Int /\ d \in Nat \ {0}
      /\ c \in Nat \ {0} /\ n \in Nat \ {0} /\ n = c * powers[k] + rest
      /\ Tells(r, rest, powers[k]) /\ d = Digits(c) /\ d <= set.digits
      /\ q \in Int /\ e \in Int
  BY <1>0, <1>1 DEF Stands, Pending
<1>3. /\ r = -1 /\ k >= 2 /\ rest # 0 /\ d = set.digits
      /\ -rest \in Nat \ {0} /\ -rest < powers[k - 1] /\ powers[k] = 10 * powers[k - 1]
      /\ Digits(n) = d + k - 1 /\ c = powers[d - 1]
  BY <1>0, <1>1, <1>2, StandsFacts
<1>4. PICK u \in Nat \ {0} : u = powers[k]
  BY <1>2, PowersFacts
<1>5. /\ set.digits \in Nat \ {0} /\ set.emin \in Int /\ set.emax \in Int /\ set.round \in Modes
      /\ set.emin <= 0 /\ Etiny(set) = set.emin - (set.digits - 1)
  BY <1>0 DEF Context, Etiny
<1>6. Place(n, q, set) = q + k /\ e = Etiny(set)
  <2>1. /\ q <= q + k /\ q + Digits(n) - set.digits <= q + k /\ Etiny(set) <= q + k
        /\ q + k \in {q, q + Digits(n) - set.digits, Etiny(set)} /\ q + k \in Int
        /\ e = Etiny(set)
    BY <1>0, <1>1, <1>2, <1>3, <1>5
  <2> QED
    BY <1>0, <1>2, <2>1, PlaceIs
<1>7. IsTiny(n, q, set)
  BY <1>0, <1>1, <1>2, <1>3, <1>5 DEF IsTiny
<1>c. e > q
  BY <1>1, <1>2, <1>3
<1>s. PICK st : st = {"Rounded", "Inexact"} /\ Lost(e > q, r) = st
  <2>1. r # 0
    BY <1>3
  <2>2. Lost(e > q, r) = {"Rounded"} \cup {"Inexact"}
    BY <1>c, <2>1, Zenon DEF Lost
  <2> QED
    BY <2>2
<1>l. PICK lower \in Nat \ {0}, over \in Int : lower = c - 1 /\ over = u + rest
  <2>1. d - 1 \in Nat \ {0}
    BY <1>0, <1>2, <1>3, <1>5
  <2>2. PICK a \in Nat \ {0} : powers[d - 1] = 10 * a
    BY <2>1, PowersStep
  <2>3. c - 1 \in Nat \ {0} /\ u + rest \in Int
    BY <1>2, <1>3, <2>2
  <2> QED
    BY <2>3
<1>u. PICK up \in BOOLEAN : up <=> RoundsAway(set.round, neg, lower, over, powers[k])
  BY Zenon
<1>x. PICK x \in Nat \ {0} : x = (IF up THEN lower + 1 ELSE lower) /\ lower + 1 = c
  BY <1>2, <1>l
<1> DEFINE w == Work(Finite(neg, c, e), r, st)
<1>o. over \in Nat \ {0} /\ over < u
  <2>1. PICK v \in Nat : v = powers[k - 1] /\ u = 10 * v
    BY <1>2, <1>3, <1>4, PowersFacts
  <2> QED
    BY <1>2, <1>3, <1>l, <2>1
<1>8. /\ n % powers[Place(n, q, set) - q] = over
      /\ Nearest(neg, n, q, set) = Neighbour(neg, x, e, set)
  <2>1. n = lower * powers[k] + over
    <3>1. PICK y \in Int : y = c * u
      BY <1>2
    <3>2. lower * u = y - u
      BY <1>2, <1>l, <3>1
    <3> QED
      BY <1>2, <1>4, <1>l, <3>1, <3>2
  <2>2. RestAbove(n, q, set, k, lower, over)
    BY <1>2, <1>4, <1>6, <1>l, <1>o, <2>1 DEF RestAbove
  <2>3. RoundsTo(neg, n, q, set, k, lower, over, x)
    BY <1>u, <1>x, <2>2, Zenon DEF RoundsTo
  <2>4. /\ n % powers[Place(n, q, set) - q] = over
        /\ Nearest(neg, n, q, set) = Neighbour(neg, x, q + k, set)
    BY <2>3, NearestIs
  <2> QED
    BY <1>1, <2>4, Zenon
<1>9. ~RoundsUp(w, set.round) /\ (RoundsDown(w, set.round) <=> ~up)
  <2>1. w.dn.coef = c /\ w.dn.neg = neg /\ w.residue = -1
    BY <1>3 DEF Work, Finite
  <2> HIDE DEF w
  <2>2. Tells(-1, rest, u) /\ w.residue = -1 /\ w.dn.coef \in Nat \ {0}
        /\ w.dn.neg \in BOOLEAN /\ rest \in Int /\ set.round \in Modes
    BY <1>2, <1>3, <1>4, <1>5, <2>1
  <2>3. /\ ~RoundsUp(w, set.round)
        /\ RoundsDown(w, set.round)
               <=> ~RoundsAway(set.round, w.dn.neg, w.dn.coef - 1, u + rest, u)
    BY <2>2, RoundsDownAgrees
  <2> QED
    BY <1>4, <1>l, <1>u, <2>1, <2>3, Zenon
<1>10. Sinks(neg, n, q, set, x, e)
  <2>1. PICK b \in Nat : b = powers[set.digits - 1] /\ c = b
    BY <1>2, <1>3
  <2>2. x <= b
    BY <1>l, <1>x, <2>1
  <2> QED
    BY <1>0, <1>2, <1>6, <1>7, <1>8, <2>1, <2>2, TinySinks
<1>11. /\ Delivered(neg, n, q, set) = Finite(neg, x, e)
       /\ FlagsFor(neg, n, q, set) = {"Subnormal", "Rounded", "Inexact", "Underflow"}
  <2>1. PICK yes \in BOOLEAN, no \in BOOLEAN : yes = TRUE /\ no = FALSE
    OBVIOUS
  <2>2. yes <=> Place(n, q, set) > q
    BY <1>1, <1>6, <1>c, <2>1
  <2>3. yes <=> n % powers[Place(n, q, set) - q] # 0
    BY <1>8, <1>o, <2>1
  <2>4. SinksWith(neg, n, q, set, x, e, yes, yes, no)
    BY <1>0, <1>10, <2>1, <2>2, <2>3 DEF SinksWith
  <2>5. FlagsFor(neg, n, q, set) = TinyFlags(yes, yes, no)
    BY <2>4, TinyFlagsAre
  <2>6. TinyFlags(yes, yes, no) = {"Subnormal", "Rounded", "Inexact", "Underflow"}
    BY <2>1 DEF TinyFlags
  <2> QED
    BY <1>0, <1>10, <2>5, <2>6, TinyIs
<1>12. PICK fl : /\ ApplyRound(w, set) = Work(Finite(neg, x, e), r, fl)
                 /\ fl = st \/ fl = st \cup SunkFlags
  <2>1. CASE up
    <3>1. ApplyRound(w, set) = w
      BY <1>9, <2>1, ApplyRoundIs
    <3> QED
      BY <1>x, <2>1, <3>1
  <2>2. CASE ~up
    <3>1. ApplyRound(w, set) = BumpDown(w, set)
      BY <1>9, <2>2, ApplyRoundIs
    <3>2. BumpDown(w, set) = Work(Finite(neg, c - 1, e), r, st \cup SunkFlags)
      BY <1>0, <1>2, <1>6, BumpDownTiny
    <3> QED
      BY <1>l, <1>x, <2>2, <3>1, <3>2
  <2> QED
    BY <2>1, <2>2
<1>13. SetSubnormal(Work(Finite(neg, x, e), r, fl), set)
           = Work(Finite(neg, x, e), r, {"Subnormal", "Rounded", "Inexact", "Underflow"})
  <2> DEFINE y == Work(Finite(neg, x, e), r, fl)
  <2>1. PICK all : all = fl \cup {"Subnormal"}
    OBVIOUS
  <2>2. y.dn.exp = e /\ y.dn.coef = x /\ Raise(y, {"Subnormal"}) = Work(Finite(neg, x, e), r, all)
    BY <2>1, WorkFields, FiniteFields, WorkParts
  <2> HIDE DEF y
  <2>3. Etiny(set) - e <= 0 /\ x # 0
    BY <1>2, <1>5, <1>6, <1>x
  <2>4. SetSubnormal(y, set) = UnderflowIfInexact(Raise(y, {"Subnormal"}))
    BY <2>2, <2>3, Zenon DEF SetSubnormal, IsZero
  <2>5. "Inexact" \in all
    BY <1>12, <1>s, <2>1
  <2>6. UnderflowIfInexact(Work(Finite(neg, x, e), r, all))
            = Work(Finite(neg, x, e), r, all \cup {"Underflow"})
    <3>1. Work(Finite(neg, x, e), r, all).status = all
          /\ Raise(Work(Finite(neg, x, e), r, all), {"Underflow"})
                 = Work(Finite(neg, x, e), r, all \cup {"Underflow"})
      BY WorkFields, WorkParts
    <3> QED
      BY <2>5, <3>1, Zenon DEF UnderflowIfInexact
  <2>7. all \cup {"Underflow"} = {"Subnormal", "Rounded", "Inexact", "Underflow"}
    BY <1>12, <1>s, <2>1 DEF SunkFlags
  <2> QED
    BY <2>2, <2>4, <2>6, <2>7 DEF y
<1> QED
  BY <1>11, <1>12, <1>13, <1>s, Zenon

ZeroPlace(q, set) ==
    LET most == IF set.clamp THEN Etop(set) ELSE set.emax
    IN  IF q < Etiny(set) THEN Etiny(set) ELSE IF q > most THEN most ELSE q

\* a zero is moved to the nearest exponent the context can hold
LEMMA ZeroDelivered ==
    ASSUME NEW neg \in BOOLEAN, NEW set, Context(set), NEW q \in Int
    PROVE  /\ ZeroPlace(q, set) \in Int
           /\ Delivered(neg, 0, q, set) = Finite(neg, 0, ZeroPlace(q, set))
           /\ FlagsFor(neg, 0, q, set)
                  = IF ZeroPlace(q, set) # q THEN {"Clamped"} ELSE {}
<1>1. /\ set.digits \in Nat \ {0} /\ set.emin \in Int /\ set.emax \in Int
      /\ set.emin <= 0 /\ 0 <= set.emax /\ set.clamp \in BOOLEAN
      /\ set.clamp => set.digits <= set.emax + 1
  BY DEF Context
<1>2. PICK tiny \in Int, top \in Int :
          /\ tiny = Etiny(set) /\ tiny = set.emin - (set.digits - 1)
          /\ top = Etop(set) /\ top = set.emax - (set.digits - 1)
  BY <1>1 DEF Etiny, Etop
<1>m. PICK most \in Int : most = IF set.clamp THEN top ELSE set.emax
  BY <1>1, <1>2
<1>f. PICK f \in Int : f = IF q < tiny THEN tiny ELSE IF q > most THEN most ELSE q
  BY <1>2, <1>m
<1>3. tiny <= most /\ top <= most /\ tiny <= set.emin /\ set.emin <= most
  BY <1>1, <1>2, <1>m
<1>4. Delivered(neg, 0, q, set) = Finite(neg, 0, f)
  <2>1. PICK lo \in Int : lo = IF q <= most THEN q ELSE most
    OBVIOUS
  <2>2. Min({q, most}) = lo
    BY <2>1, MinOfTwo
  <2>3. Max({tiny, lo}) = f
    <3>1. f = IF tiny <= lo THEN lo ELSE tiny
      BY <1>3, <1>f, <2>1
    <3> QED
      BY <3>1, MaxOfTwo
  <2>4. FitZero(neg, q, set) = Finite(neg, 0, f)
    BY <1>2, <1>m, <2>2, <2>3, Zenon DEF FitZero
  <2> QED
    BY <2>4 DEF Delivered
<1> DEFINE moved == IF f # q THEN {"Clamped"} ELSE {}
<1>5. FlagsFor(neg, 0, q, set) = moved
  <2> DEFINE r == Nearest(neg, 0, q, set)
             d == Delivered(neg, 0, q, set)
             overflow == 0 # 0 /\ TooLarge(r, set)
             inexact  == 0 # 0 /\ (overflow \/ 0 % powers[Place(0, q, set) - q] # 0)
             rounded  == 0 # 0 /\ (overflow \/ Place(0, q, set) > q)
             tiny0    == IsTiny(0, q, set)
             under    == tiny0 /\ inexact
             clamped  == \/ 0 = 0 /\ d.exp # q
                         \/ 0 # 0 /\ d.coef = 0 /\ d.kind = "finite"
                         \/ d.kind = "finite" /\ d.exp < r.exp /\ ~overflow /\ 0 # 0
             raised == [Inexact |-> inexact, Rounded |-> rounded, Subnormal |-> tiny0,
                        Underflow |-> under, Overflow |-> overflow, Clamped |-> clamped]
  <2>1. FlagsFor(neg, 0, q, set) = {g \in DOMAIN raised : raised[g]}
    BY Zenon DEF FlagsFor, FlagsTelling
  <2>2. d.exp = f
    BY <1>4, FiniteFields
  <2>3. ~overflow /\ ~inexact /\ ~rounded /\ ~tiny0 /\ ~under /\ (clamped <=> f # q)
    BY <2>2, Zenon DEF IsTiny
  <2> HIDE DEF overflow, inexact, rounded, tiny0, under, clamped
  <2>4. DOMAIN raised = {"Inexact", "Rounded", "Subnormal", "Underflow", "Overflow", "Clamped"}
    OBVIOUS
  <2>5. /\ raised["Inexact"] = inexact /\ raised["Rounded"] = rounded
        /\ raised["Subnormal"] = tiny0 /\ raised["Underflow"] = under
        /\ raised["Overflow"] = overflow /\ raised["Clamped"] = clamped
    BY Zenon
  <2> HIDE DEF raised
  <2>6. ASSUME NEW g PROVE g \in {h \in DOMAIN raised : raised[h]} <=> g \in moved
    BY <2>3, <2>4, <2>5, Zenon
  <2> QED
    BY <2>1, <2>6, Zenon
<1>6. ZeroPlace(q, set) = f
  BY <1>2, <1>m, <1>f DEF ZeroPlace
<1> QED
  BY <1>4, <1>5, <1>6

(***************************************************************************)
(* decFinalize.                                                            *)
(***************************************************************************)
\* of a zero that nothing is known to be cut from
LEMMA ZeroCloses ==
    ASSUME NEW neg \in BOOLEAN, NEW set, Context(set), NEW q \in Int
    PROVE  Finalize(Work(Finite(neg, 0, q), 0, {}), set)
               = Work(Delivered(neg, 0, q, set), 0, FlagsFor(neg, 0, q, set))
<1>1. /\ set.digits \in Nat \ {0} /\ set.emin \in Int /\ set.emax \in Int
      /\ set.emin <= 0 /\ 0 <= set.emax /\ set.clamp \in BOOLEAN
      /\ set.clamp => set.digits <= set.emax + 1
  BY DEF Context
<1>2. PICK tiny \in Int, top \in Int :
          /\ tiny = Etiny(set) /\ tiny = set.emin - (set.digits - 1)
          /\ top = Etop(set) /\ top = set.emax - (set.digits - 1)
  BY <1>1 DEF Etiny, Etop
<1>m. PICK most \in Int : most = IF set.clamp THEN top ELSE set.emax
  BY <1>1, <1>2
<1>f. PICK f \in Int : f = IF q < tiny THEN tiny ELSE IF q > most THEN most ELSE q
  BY <1>2, <1>m
<1>3. tiny <= most /\ top <= most /\ tiny <= set.emin /\ set.emin <= most
  BY <1>1, <1>2, <1>m
<1>z. ZeroPlace(q, set) = f
  BY <1>2, <1>m, <1>f DEF ZeroPlace
<1>4. Delivered(neg, 0, q, set) = Finite(neg, 0, f)
  BY <1>z, ZeroDelivered
<1> DEFINE moved == IF f # q THEN {"Clamped"} ELSE {}
<1>5. FlagsFor(neg, 0, q, set) = moved
  BY <1>z, ZeroDelivered
<1> DEFINE w == Work(Finite(neg, 0, q), 0, {})
<1>6. /\ w.dn.coef = 0 /\ w.dn.exp = q /\ w.dn.kind = "finite" /\ w.residue = 0
      /\ w.dn.neg = neg
  BY WorkFields, FiniteFields
<1>7. ASSUME NEW g \in Int
      PROVE  [w EXCEPT !.dn.exp = g] = Work(Finite(neg, 0, g), 0, {})
             /\ Raise([w EXCEPT !.dn.exp = g], {"Clamped"}) = Work(Finite(neg, 0, g), 0, {"Clamped"})
  <2>1. [w EXCEPT !.dn.exp = g] = Work(Finite(neg, 0, g), 0, {})
    BY DEF Work, Finite
  <2>2. Raise(Work(Finite(neg, 0, g), 0, {}), {"Clamped"}) = Work(Finite(neg, 0, g), 0, {} \cup {"Clamped"})
    BY WorkParts
  <2>3. {} \cup {"Clamped"} = {"Clamped"}
    OBVIOUS
  <2> QED
    BY <2>1, <2>2, <2>3, Zenon
<1> HIDE DEF w
<1>8. Digits(0) = 1
  BY DigitsFacts
<1>9. CASE q < set.emin
  <2>1. Finalize(w, set) = SetSubnormal(w, set)
    <3>1. w.dn.exp < set.emin - Digits(w.dn.coef) + 1
      BY <1>1, <1>6, <1>8, <1>9
    <3> QED
      BY <3>1, Zenon DEF Finalize, BelowNmin
  <2>2. CASE q < tiny
    <3>1. tiny - w.dn.exp > 0
      BY <1>6, <2>2
    <3>2. SetSubnormal(w, set) = Raise([w EXCEPT !.dn.exp = tiny], {"Clamped"})
      BY <1>2, <1>6, <3>1, Zenon DEF SetSubnormal, IsZero
    <3>3. f = tiny /\ f # q
      BY <1>f, <2>2
    <3> QED
      BY <1>2, <1>4, <1>5, <1>7, <2>1, <3>2, <3>3 DEF w
  <2>3. CASE ~(q < tiny)
    <3>1. ~(tiny - w.dn.exp > 0)
      BY <1>6, <2>3
    <3>2. SetSubnormal(w, set) = w
      BY <1>2, <1>6, <3>1, Zenon DEF SetSubnormal, IsZero
    <3>3. f = q
      BY <1>1, <1>3, <1>9, <1>f, <2>3
    <3> QED
      BY <1>4, <1>5, <2>1, <3>2, <3>3 DEF w
  <2> QED
    BY <2>2, <2>3
<1>10. CASE ~(q < set.emin)
  <2>1. Finalize(w, set) = CheckRange(ApplyRound(w, set), set)
    <3>1. ~(w.dn.exp < set.emin - Digits(w.dn.coef) + 1) /\ ~(w.residue < 0)
      BY <1>1, <1>6, <1>8, <1>10
    <3> QED
      BY <3>1, Zenon DEF Finalize, BelowNmin, JustBelowNmin
  <2>2. ApplyRound(w, set) = w
    <3>1. ~(w.residue > 0) /\ ~(w.residue > 5) /\ ~(w.residue >= 5) /\ w.residue # 5
          /\ ~(w.residue < 0)
      BY <1>6
    <3>2. set.round \in Modes
      BY DEF Context
    <3>3. ~RoundsUp(w, set.round)
      BY <3>1, <3>2 DEF RoundsUp, Modes
    <3>4. ~RoundsDown(w, set.round)
      BY <3>1, Zenon DEF RoundsDown
    <3> QED
      BY <3>3, <3>4, ApplyRoundIs
  <2>3. CASE q <= top
    <3>1. CheckRange(w, set) = w
      BY <1>2, <1>6, <2>3, Zenon DEF CheckRange
    <3>2. f = q
      BY <1>1, <1>3, <1>10, <1>f, <2>3
    <3> QED
      BY <1>4, <1>5, <2>1, <2>2, <3>1, <3>2 DEF w
  <2>4. CASE ~(q <= top) /\ q > set.emax
    <3>1. w.dn.exp > set.emax - Digits(w.dn.coef) + 1
      BY <1>1, <1>6, <1>8, <2>4
    <3>2. CheckRange(w, set) = SetOverflow(w, set)
      BY <1>2, <1>6, <2>4, <3>1, Zenon DEF CheckRange
    <3>3. w.dn.exp > most
      BY <1>1, <1>2, <1>6, <1>m, <2>4
    <3>4. SetOverflow(w, set) = Raise([w EXCEPT !.dn.exp = most], {"Clamped"})
      BY <1>2, <1>6, <1>m, <3>3, Zenon DEF SetOverflow, IsZero
    <3>5. f = most /\ f # q
      BY <1>1, <1>3, <1>6, <1>10, <1>f, <3>3
    <3> QED
      BY <1>4, <1>5, <1>7, <1>m, <2>1, <2>2, <3>2, <3>4, <3>5 DEF w
  <2>5. CASE ~(q <= top) /\ ~(q > set.emax)
    <3>1. ~(w.dn.exp > set.emax - Digits(w.dn.coef) + 1) /\ ~(w.dn.exp <= top)
      BY <1>1, <1>6, <1>8, <2>5
    <3>2. CheckRange(w, set) = IF set.clamp THEN FoldDown(w, set) ELSE w
      BY <1>2, <3>1, Zenon DEF CheckRange
    <3>3. CASE ~set.clamp
      <4>1. CheckRange(w, set) = w
        BY <3>2, <3>3
      <4>2. f = q
        BY <1>1, <1>3, <1>10, <1>f, <1>m, <2>5, <3>3
      <4> QED
        BY <1>4, <1>5, <2>1, <2>2, <4>1, <4>2 DEF w
    <3>4. CASE set.clamp
      <4>1. f = top /\ f # q
        BY <1>1, <1>2, <1>3, <1>10, <1>f, <1>m, <2>5, <3>4
      <4>2. PICK p \in Nat : p = powers[q - top] /\ 0 * p = 0
        BY <1>2, <2>5, PowersFacts
      <4>3. [w EXCEPT !.dn.coef = @ * powers[w.dn.exp - Etop(set)], !.dn.exp = Etop(set)]
                = [w EXCEPT !.dn.coef = 0, !.dn.exp = top]
        BY <1>2, <1>6, <4>2, Zenon
      <4>4. [w EXCEPT !.dn.coef = 0, !.dn.exp = top] = [[w EXCEPT !.dn.coef = 0] EXCEPT !.dn.exp = top]
        OBVIOUS
      <4>5. [w EXCEPT !.dn.coef = 0] = w
        BY DEF w, Work, Finite
      <4>6. FoldDown(w, set) = Raise([w EXCEPT !.dn.exp = top], {"Clamped"})
        BY <4>3, <4>4, <4>5, Zenon DEF FoldDown
      <4> QED
        BY <1>4, <1>5, <1>7, <2>1, <2>2, <3>2, <3>4, <4>1, <4>6 DEF w
    <3> QED
      BY <3>3, <3>4
  <2> QED
    BY <2>3, <2>4, <2>5
<1> QED
  BY <1>9, <1>10 DEF w

\* With a precision of 1 the reference looks at a digit that a residue below a
\* power of ten does not tell; everything else is settled.
Decided(c, e, r, set) ==
    \/ set.digits >= 2
    \/ r >= 0 \/ c # powers[Digits(c) - 1] \/ e < set.emin - Digits(c) + 1

LEMMA FinalizeCloses ==
    ASSUME NEW neg \in BOOLEAN, NEW set, Context(set), NEW c, NEW e, NEW r, NEW n, NEW q,
           Pending(c, e, r, n, q, set), Decided(c, e, r, set)
    PROVE  \E s \in -1..9 : Finalize(Work(Finite(neg, c, e), r, Lost(e > q, r)), set)
                   = Work(Delivered(neg, n, q, set), s, FlagsFor(neg, n, q, set))
<1>1. c \in Nat \ {0} /\ e \in Int /\ r \in -1..9 /\ Digits(c) <= set.digits
  BY DEF Pending
<1>2. set.digits \in Nat \ {0} /\ set.emin \in Int /\ Etiny(set) = set.emin - (set.digits - 1)
  BY DEF Context, Etiny
<1>3. PICK d \in Nat \ {0} : d = Digits(c)
  BY <1>1, DigitsFacts
<1>s. PICK st : st = Lost(e > q, r)
  OBVIOUS
<1> DEFINE w == Work(Finite(neg, c, e), r, st)
<1>4. w.dn.coef = c /\ w.dn.exp = e /\ w.residue = r
  BY WorkFields, FiniteFields
<1> HIDE DEF w
<1>5. BelowNmin(w, set) <=> e < set.emin - d + 1
  BY <1>3, <1>4, Zenon DEF BelowNmin
<1>6. JustBelowNmin(w, set) <=> r < 0 /\ c = powers[d - 1] /\ e = set.emin - d + 1
  BY <1>3, <1>4, Zenon DEF JustBelowNmin
<1>7. CASE e < set.emin - d + 1
  <2>1. Finalize(w, set) = SetSubnormal(w, set)
    BY <1>5, <1>7, Zenon DEF Finalize
  <2>2. CASE e < Etiny(set)
    <3>1. \E s \in -1..9 :
              SetSubnormal(w, set) = Work(Delivered(neg, n, q, set), s, FlagsFor(neg, n, q, set))
      BY <1>s, <2>2, TinyCut DEF w
    <3> QED
      BY <1>s, <2>1, <3>1 DEF w
  <2>3. CASE e >= Etiny(set)
    <3>1. SetSubnormal(w, set) = Work(Delivered(neg, n, q, set), r, FlagsFor(neg, n, q, set))
      BY <1>s, <1>3, <1>7, <2>3, TinyExact DEF w
    <3> QED
      BY <1>1, <1>s, <2>1, <3>1 DEF w
  <2> QED
    BY <1>1, <1>2, <2>2, <2>3
<1>8. CASE e >= set.emin - d + 1 /\ r < 0 /\ c = powers[d - 1] /\ e = set.emin - d + 1
  <2>1. ~(e < set.emin - d + 1)
    BY <1>1, <1>2, <1>8
  <2>2. Finalize(w, set) = SetSubnormal(ApplyRound(w, set), set)
    BY <1>5, <1>6, <1>8, <2>1, Zenon DEF Finalize
  <2>3. SetSubnormal(ApplyRound(w, set), set)
            = Work(Delivered(neg, n, q, set), r, FlagsFor(neg, n, q, set))
    <3>1. r < 0 /\ c = powers[Digits(c) - 1] /\ e = set.emin - Digits(c) + 1
      BY <1>3, <1>8
    <3>2. set.digits >= 2
      <4>1. ~(r >= 0) /\ ~(e < set.emin - Digits(c) + 1)
        BY <1>1, <1>2, <1>3, <3>1
      <4> QED
        BY <3>1, <4>1 DEF Decided
    <3>3. AtNmin(c, e, r, n, q, set)
      BY <3>1, <3>2 DEF AtNmin
    <3>4. SetSubnormal(ApplyRound(Work(Finite(neg, c, e), r, Lost(e > q, r)), set), set)
              = Work(Delivered(neg, n, q, set), r, FlagsFor(neg, n, q, set))
      BY <3>3, TinyBelowNmin
    <3> QED
      BY <1>s, <3>4 DEF w
  <2> QED
    BY <1>1, <1>s, <2>2, <2>3 DEF w
<1>9. CASE e >= set.emin - d + 1 /\ ~(r < 0 /\ c = powers[d - 1] /\ e = set.emin - d + 1)
  <2>1. ~(e < set.emin - d + 1)
    BY <1>1, <1>2, <1>9
  <2>2. Finalize(w, set) = CheckRange(ApplyRound(w, set), set)
    BY <1>5, <1>6, <1>9, <2>1, Zenon DEF Finalize
  <2>3. CheckRange(ApplyRound(w, set), set)
            = Work(Delivered(neg, n, q, set), r, FlagsFor(neg, n, q, set))
    <3>1. CASE r >= 0
      BY <1>s, <1>3, <1>9, <3>1, NormalAbove DEF w
    <3>2. CASE r < 0 /\ c # powers[Digits(c) - 1]
      BY <1>s, <1>3, <1>9, <3>2, NormalBelow DEF w
    <3>3. CASE r < 0 /\ c = powers[Digits(c) - 1]
      <4>1. e > set.emin - Digits(c) + 1
        BY <1>1, <1>2, <1>3, <1>9, <3>3
      <4>2. set.digits >= 2
        BY <1>1, <1>2, <1>3, <1>9, <3>3 DEF Decided
      <4> QED
        BY <1>s, <3>3, <4>1, <4>2, NormalBelowPower DEF w
    <3> QED
      BY <1>1, <3>1, <3>2, <3>3
  <2> QED
    BY <1>1, <1>s, <2>2, <2>3 DEF w
<1> QED
  BY <1>1, <1>2, <1>3, <1>7, <1>8, <1>9

\* decFinalize makes of a coefficient and a residue that stand for n * 10^q the
\* number that rounding n * 10^q once gives, subnormal, overflowed or folded
\* down as the context asks, with the flags that say what was lost; for every
\* precision above 1, exponent range, mode and length of Unit.
THEOREM FinalizeRounds ==
    ASSUME NEW neg \in BOOLEAN, NEW set, Context(set), set.digits >= 2,
           NEW c, NEW e, NEW r, NEW n, NEW q, Pending(c, e, r, n, q, set)
    PROVE  \E s \in -1..9 : Finalize(Work(Finite(neg, c, e), r, Lost(e > q, r)), set)
                   = Work(Delivered(neg, n, q, set), s, FlagsFor(neg, n, q, set))
  BY FinalizeCloses DEF Decided

(***************************************************************************)
(* What the context can hold.                                              *)
(***************************************************************************)
Highest(set) == IF set.clamp THEN Etop(set) ELSE set.emax

FitsIn(n, set) ==
    /\ n \in Numbers
    /\ Digits(n.coef) <= set.digits
    /\ IsSpecial(n) => n.exp = 0
    /\ ~IsSpecial(n) => /\ Etiny(set) <= n.exp
                        /\ n.exp <= Highest(set)
                        /\ n.coef # 0 => n.exp + Digits(n.coef) - 1 <= set.emax

LEMMA ContextRange ==
    ASSUME NEW set, Context(set)
    PROVE  /\ set.digits \in Nat \ {0} /\ set.emin \in Int /\ set.emax \in Int
           /\ Etiny(set) \in Int /\ Etiny(set) = set.emin - (set.digits - 1)
           /\ Etop(set) \in Int /\ Etop(set) = set.emax - (set.digits - 1)
           /\ Highest(set) \in Int /\ Etop(set) <= Highest(set) /\ Highest(set) <= set.emax
           /\ Etiny(set) <= Etop(set) /\ set.emin <= Highest(set)
           /\ set.emin <= 0 /\ 0 <= set.emax
           /\ set.clamp => Highest(set) = Etop(set) /\ 0 <= Etop(set)
           /\ ~set.clamp => Highest(set) = set.emax
BY DEF Context, Etiny, Etop, Highest

LEMMA FiniteFits ==
    ASSUME NEW neg \in BOOLEAN, NEW set, NEW c \in Nat, NEW e \in Int,
           Digits(c) <= set.digits, Etiny(set) <= e, e <= Highest(set),
           c # 0 => e + Digits(c) - 1 <= set.emax
    PROVE  FitsIn(Finite(neg, c, e), set)
BY DEF FitsIn, Finite, IsSpecial, Kinds, Numbers

LEMMA InfinityFits ==
    ASSUME NEW neg \in BOOLEAN, NEW set, Context(set)
    PROVE  FitsIn(Special("inf", neg), set)
<1>1. Digits(0) = 1 /\ 1 <= set.digits
  BY DigitsFacts, ContextRange
<1> QED
  BY <1>1 DEF FitsIn, Special, IsSpecial, Kinds, Numbers

LEMMA OverflowedFits ==
    ASSUME NEW neg \in BOOLEAN, NEW set, Context(set)
    PROVE  FitsIn(Overflowed(neg, set), set)
<1>1. CASE Overflowed(neg, set) = Special("inf", neg)
  BY <1>1, InfinityFits
<1>2. CASE Overflowed(neg, set) = MaxValue(neg, set)
  <2>1. PICK c \in Nat : c = powers[set.digits] - 1 /\ Digits(c) = set.digits
    <3>1. set.digits \in Nat \ {0}
      BY ContextRange
    <3>2. powers[set.digits] \in Nat \ {0} /\ Digits(powers[set.digits] - 1) = set.digits
      BY <3>1, PowersFacts, DigitsOfPower
    <3> QED
      BY <3>2
  <2>2. PICK e \in Int : e = Etop(set)
    BY ContextRange
  <2>3. FitsIn(Finite(neg, c, e), set)
    <3>1. Digits(c) <= set.digits /\ Etiny(set) <= e /\ e <= Highest(set)
          /\ e + Digits(c) - 1 <= set.emax
      BY <2>1, <2>2, ContextRange
    <3> QED
      BY <3>1, FiniteFits
  <2> QED
    BY <1>2, <2>1, <2>2, <2>3 DEF MaxValue
<1> QED
  BY <1>1, <1>2, NeedMaxAgrees

LEMMA InRangeFits ==
    ASSUME NEW neg \in BOOLEAN, NEW set, Context(set), NEW c \in Nat, NEW e \in Int,
           Digits(c) <= set.digits, Etiny(set) <= e, c = 0 => e <= Highest(set)
    PROVE  FitsIn(InRange(Finite(neg, c, e), set), set)
<1> DEFINE x == Finite(neg, c, e)
<1>1. x.coef = c /\ x.exp = e /\ x.neg = neg /\ x.kind = "finite"
  BY FiniteFields
<1>2. PICK d \in Nat \ {0} : d = Digits(c)
  BY DigitsFacts
<1>3. TooLarge(x, set) <=> c # 0 /\ e + d - 1 > set.emax
  BY <1>1, <1>2, Zenon DEF TooLarge
<1>4. CASE TooLarge(x, set)
  <2>1. InRange(x, set) = Overflowed(neg, set)
    BY <1>1, <1>4, Zenon DEF InRange
  <2> QED
    BY <2>1, OverflowedFits
<1>5. CASE ~TooLarge(x, set) /\ set.clamp /\ e > Etop(set)
  <2>1. PICK t \in Int, k \in Nat \ {0} : t = Etop(set) /\ k = e - t
    BY <1>5, ContextRange
  <2>2. PICK y \in Nat : y = c * powers[k]
    BY <2>1, PowersFacts
  <2>3. InRange(x, set) = Finite(neg, y, t)
    BY <1>1, <1>5, <2>1, <2>2, Zenon DEF InRange, Folded
  <2>4. c # 0
    BY <1>5, ContextRange
  <2>5. Digits(y) = d + k
    BY <1>2, <2>1, <2>2, <2>4, DigitsScaled
  <2>6. FitsIn(Finite(neg, y, t), set)
    <3>1. Digits(y) <= set.digits /\ Etiny(set) <= t /\ t <= Highest(set)
          /\ t + Digits(y) - 1 <= set.emax
      BY <1>3, <1>5, <2>1, <2>4, <2>5, ContextRange
    <3> QED
      BY <3>1, FiniteFits
  <2> QED
    BY <2>3, <2>6
<1>6. CASE ~TooLarge(x, set) /\ ~(set.clamp /\ e > Etop(set))
  <2>1. InRange(x, set) = x
    BY <1>1, <1>6, Zenon DEF InRange, Folded
  <2>2. e <= Highest(set) /\ (c # 0 => e + Digits(c) - 1 <= set.emax)
    BY <1>2, <1>3, <1>6, ContextRange
  <2>3. FitsIn(x, set)
    BY <2>2, FiniteFits
  <2> QED
    BY <2>1, <2>3
<1> QED
  BY <1>4, <1>5, <1>6, ContextRange DEF Context

LEMMA PlaceBounds ==
    ASSUME NEW n \in Nat, NEW q \in Int, NEW set, Context(set)
    PROVE  \E p \in Int :
               /\ p = Place(n, q, set)
               /\ q <= p /\ q + Digits(n) - set.digits <= p /\ Etiny(set) <= p
               /\ p \in {q, q + Digits(n) - set.digits, Etiny(set)}
<1>1. Digits(n) \in Nat /\ set.digits \in Nat /\ Etiny(set) \in Int
  BY DigitsFacts, ContextRange
<1>2. PICK b \in Int, c \in Int : b = q + Digits(n) - set.digits /\ c = Etiny(set)
  BY <1>1
<1>3. PICK p \in {q, b, c} : q <= p /\ b <= p /\ c <= p
  <2>1. \/ b <= q /\ c <= q
        \/ q <= b /\ c <= b
        \/ q <= c /\ b <= c
    OBVIOUS
  <2> QED
    BY <2>1
<1>4. Place(n, q, set) = p
  BY <1>2, <1>3, PlaceIs
<1> QED
  BY <1>2, <1>3, <1>4

\* what the reference delivers
LEMMA DeliveredFits ==
    ASSUME NEW neg \in BOOLEAN, NEW set, Context(set), NEW n \in Nat, NEW q \in Int
    PROVE  FitsIn(Delivered(neg, n, q, set), set)
<1>0. /\ set.digits \in Nat \ {0} /\ set.emin \in Int /\ set.emax \in Int
      /\ Etiny(set) \in Int /\ Highest(set) \in Int /\ Etiny(set) <= Highest(set)
  BY ContextRange
<1>1. CASE n = 0
  <2>1. PICK lo \in Int : lo = IF q <= Highest(set) THEN q ELSE Highest(set)
    BY <1>0
  <2>2. Min({q, Highest(set)}) = lo
    BY <1>0, <2>1, MinOfTwo
  <2>3. PICK f \in Int : f = (IF Etiny(set) <= lo THEN lo ELSE Etiny(set))
    BY <1>0
  <2>4. Max({Etiny(set), lo}) = f
    BY <1>0, <2>3, MaxOfTwo
  <2>5. Delivered(neg, n, q, set) = Finite(neg, 0, f)
    BY <1>1, <2>2, <2>4, Zenon DEF Delivered, FitZero, Highest
  <2>6. Digits(0) = 1 /\ Etiny(set) <= f /\ f <= Highest(set)
    BY <1>0, <2>1, <2>3, DigitsFacts
  <2>7. FitsIn(Finite(neg, 0, f), set)
    BY <1>0, <2>6, FiniteFits
  <2> QED
    BY <2>5, <2>7
<1>2. CASE n # 0
  <2>1. PICK p \in Int : /\ p = Place(n, q, set)
                         /\ q <= p /\ q + Digits(n) - set.digits <= p /\ Etiny(set) <= p
                         /\ p \in {q, q + Digits(n) - set.digits, Etiny(set)}
    BY PlaceBounds
  <2>2. PICK k \in Nat : k = p - q /\ p = q + k
    BY <2>1
  <2>3. PICK u \in Nat \ {0} : u = powers[k]
    BY <2>2, PowersFacts
  <2>4. PICK lower \in Nat, rest \in Nat :
            lower = n \div u /\ rest = n % u /\ rest < u /\ n = lower * u + rest
    BY <2>3, Euclid
  <2>d. PICK d \in Nat \ {0} : d = Digits(n)
    BY DigitsFacts
  <2>D. PICK D \in Nat \ {0} : D = set.digits
    BY <1>0
  <2>5. k < d => Digits(lower) = d - k /\ lower # 0
    BY <1>2, <2>2, <2>3, <2>4, <2>d, DigitsCut
  <2>6. k >= d => lower = 0
    BY <1>2, <2>2, <2>3, <2>4, <2>d, DigitsCut
  <2>7. Digits(lower) <= set.digits
    <3>1. CASE k < d
      <4>1. q + d - D <= p
        BY <2>1, <2>d, <2>D, Zenon
      <4>2. d - k <= D
        BY <2>2, <4>1
      <4> QED
        BY <2>5, <2>D, <3>1, <4>2, Zenon
    <3>2. CASE k >= d
      BY <1>0, <2>6, <3>2, DigitsFacts
    <3> QED
      BY <2>2, <2>d, <3>1, <3>2
  <2>8. lower = 0 => p = Etiny(set)
    <3>1. SUFFICES ASSUME lower = 0 PROVE p = Etiny(set)
      OBVIOUS
    <3>2. k >= d
      BY <2>2, <2>5, <2>d, <3>1
    <3>3. p # q /\ p # q + d - D
      BY <2>2, <2>D, <3>2
    <3>4. p \in {q, q + d - D, Etiny(set)}
      BY <2>1, <2>d, <2>D, Zenon
    <3> QED
      BY <3>3, <3>4, Zenon
  <2>u. PICK up \in BOOLEAN : up <=> RoundsAway(set.round, neg, lower, rest, powers[k])
    BY Zenon
  <2>x. PICK x \in Nat : x = IF up THEN lower + 1 ELSE lower
    BY <2>4
  <2>9. Nearest(neg, n, q, set) = Neighbour(neg, x, p, set)
    <3>1. RestAbove(n, q, set, k, lower, rest)
      BY <1>2, <2>1, <2>2, <2>3, <2>4 DEF RestAbove
    <3>2. RoundsTo(neg, n, q, set, k, lower, rest, x)
      BY <2>u, <2>x, <3>1, Zenon DEF RoundsTo
    <3> QED
      BY <2>2, <3>2, NearestIs
  <2>t. PICK t \in Nat : t = powers[set.digits]
    BY <1>0, PowersFacts
  <2>10. PICK c \in Nat, e \in Int :
            /\ Nearest(neg, n, q, set) = Finite(neg, c, e)
            /\ Digits(c) <= set.digits /\ Etiny(set) <= e /\ (c = 0 => e <= Highest(set))
    <3>1. CASE x = t
      <4>1. PICK f \in Nat : f = set.digits - 1 /\ f + 1 = set.digits
        BY <1>0
      <4>2. PICK a \in Nat \ {0} : a = powers[f]
        BY <4>1, PowersFacts
      <4>3. Digits(a) = set.digits
        BY <4>1, <4>2, DigitsOfPower
      <4>4. Nearest(neg, n, q, set) = Finite(neg, a, p + 1)
        BY <2>9, <2>t, <3>1, <4>1, <4>2, Zenon DEF Neighbour
      <4> QED
        BY <1>0, <2>1, <4>2, <4>3, <4>4
    <3>2. CASE x # t
      <4>1. Nearest(neg, n, q, set) = Finite(neg, x, p)
        BY <2>9, <2>t, <3>2, Zenon DEF Neighbour
      <4>2. lower < t
        BY <1>0, <2>4, <2>7, <2>t, DigitsAtMost
      <4>3. x < t
        BY <2>4, <2>x, <3>2, <4>2
      <4>4. Digits(x) <= set.digits
        BY <1>0, <2>t, <4>3, DigitsAtMost
      <4>5. x = 0 => p <= Highest(set)
        BY <1>0, <2>4, <2>8, <2>x
      <4> QED
        BY <2>1, <4>1, <4>4, <4>5
    <3> QED
      BY <3>1, <3>2
  <2>11. Delivered(neg, n, q, set) = InRange(Finite(neg, c, e), set)
    BY <1>2, <2>10, DeliveredIs
  <2> QED
    BY <2>10, <2>11, InRangeFits
<1> QED
  BY <1>1, <1>2

LossFlags == {"Inexact", "Rounded", "Subnormal", "Underflow", "Overflow", "Clamped"}

LEMMA FlagsAreLosses ==
    ASSUME NEW neg, NEW n, NEW q, NEW set
    PROVE  FlagsFor(neg, n, q, set) \subseteq LossFlags
  BY Zenon DEF FlagsFor, FlagsTelling, LossFlags

\* a finished number with the residue and flags it may have
Proper(w, set) ==
    /\ w = Work(w.dn, w.residue, w.status)
    /\ FitsIn(w.dn, set) /\ w.residue \in -1..9 /\ w.status \subseteq LossFlags

LEMMA ProperIs ==
    ASSUME NEW n, NEW r \in -1..9, NEW st, st \subseteq LossFlags, NEW set, FitsIn(n, set)
    PROVE  Proper(Work(n, r, st), set)
  BY WorkFields DEF Proper

\* The one coefficient that is not settled at a precision of 1 gives a number
\* that fits all the same.
OneBelow(neg, e, st, set) ==
    /\ Context(set) /\ set.digits = 1 /\ neg \in BOOLEAN /\ e \in Int /\ e >= set.emin
    /\ st \subseteq LossFlags

LEMMA OneBelowFits ==
    ASSUME NEW neg, NEW e, NEW st, NEW set, OneBelow(neg, e, st, set)
    PROVE  Proper(Finalize(Work(Finite(neg, 1, e), -1, st), set), set)
<1>1. /\ Context(set) /\ set.digits = 1 /\ neg \in BOOLEAN /\ e \in Int /\ e >= set.emin
      /\ st \subseteq LossFlags /\ set.emin \in Int /\ set.emax \in Int
      /\ Etiny(set) = set.emin /\ Etiny(set) <= Highest(set)
  BY ContextRange DEF OneBelow
<1>2. powers[0] = 1 /\ powers[1] = 10
  BY PowersFacts, PowersStep
<1>3. Digits(1) = 1 /\ Digits(0) = 1 /\ Digits(9) = 1
  <2>1. 0 \in Nat /\ 1 \in Nat /\ 9 \in Nat /\ 1 \in Nat \ {0} /\ 1 - 1 = 0
    OBVIOUS
  <2> QED
    BY <1>2, <2>1, DigitsAre, DigitsFacts
<1> DEFINE w == Work(Finite(neg, 1, e), -1, st)
<1>4. w.dn.coef = 1 /\ w.dn.exp = e /\ w.residue = -1 /\ w.dn.kind = "finite"
  BY WorkFields, FiniteFields
<1>5. Raise(w, {"Subnormal"}) = Work(Finite(neg, 1, e), -1, st \cup {"Subnormal"})
  BY WorkParts
<1> HIDE DEF w
<1>6. PICK a : a = ApplyRound(w, set)
  OBVIOUS
<1>7. a = w \/ a = BumpDown(w, set)
  <2>1. ~RoundsUp(w, set.round)
    <3>1. ~(w.residue > 0) /\ ~(w.residue > 5) /\ ~(w.residue >= 5) /\ w.residue # 5
      BY <1>4
    <3>2. set.round \in Modes
      BY <1>1 DEF Context
    <3> QED
      BY <3>1, <3>2, Zenon DEF RoundsUp, Modes
  <2> QED
    BY <1>6, <2>1, ApplyRoundIs
<1>8. BelowNmin(w, set) <=> e < set.emin - 1 + 1
  BY <1>3, <1>4, Zenon DEF BelowNmin
<1>9. JustBelowNmin(w, set) <=> e = set.emin - 1 + 1
  <2>1. 1 = powers[1 - 1]
    BY <1>2
  <2>2. w.residue < 0
    BY <1>4
  <2> QED
    BY <1>3, <1>4, <2>1, <2>2, Zenon DEF JustBelowNmin
<1>10. CASE e = set.emin
  <2>1. ~BelowNmin(w, set) /\ JustBelowNmin(w, set)
    BY <1>1, <1>8, <1>9, <1>10
  <2>2. Finalize(w, set) = SetSubnormal(a, set)
    BY <1>6, <2>1, Zenon DEF Finalize
  <2>3. CASE a = w
    <3>1. PICK sub : sub = st \cup {"Subnormal"}
      OBVIOUS
    <3>2. SetSubnormal(w, set) = UnderflowIfInexact(Work(Finite(neg, 1, e), -1, sub))
      <4>1. Etiny(set) - e <= 0 /\ 1 # 0
        BY <1>1, <1>10
      <4> QED
        BY <1>4, <1>5, <3>1, <4>1, Zenon DEF SetSubnormal, IsZero
    <3>3. PICK sub2 : /\ sub2 \subseteq LossFlags
                      /\ UnderflowIfInexact(Work(Finite(neg, 1, e), -1, sub))
                            = Work(Finite(neg, 1, e), -1, sub2)
      <4>1. sub \subseteq LossFlags /\ sub \cup {"Underflow"} \subseteq LossFlags
        BY <1>1, <3>1 DEF LossFlags
      <4>2. PICK v : v = Work(Finite(neg, 1, e), -1, sub)
        OBVIOUS
      <4>3. Raise(v, {"Underflow"}) = Work(Finite(neg, 1, e), -1, sub \cup {"Underflow"})
        BY <4>2, WorkParts
      <4>4. \/ UnderflowIfInexact(v) = v
            \/ UnderflowIfInexact(v) = Raise(v, {"Underflow"})
        BY Zenon DEF UnderflowIfInexact
      <4> QED
        BY <4>1, <4>2, <4>3, <4>4
    <3>4. FitsIn(Finite(neg, 1, e), set)
      <4>1. e <= Highest(set) /\ e + Digits(1) - 1 <= set.emax /\ Digits(1) <= set.digits
            /\ Etiny(set) <= e
        BY <1>1, <1>3, <1>10, ContextRange
      <4> QED
        BY <1>1, <4>1, FiniteFits
    <3>5. Proper(Work(Finite(neg, 1, e), -1, sub2), set)
      BY <3>3, <3>4, ProperIs
    <3> QED
      BY <2>2, <2>3, <3>2, <3>3, <3>5 DEF w
  <2>4. CASE a = BumpDown(w, set)
    <3>1. PICK sub : sub = st \cup SunkFlags
      OBVIOUS
    <3>2. BumpDown(w, set) = Work(Finite(neg, 0, e), -1, sub)
      <4>1. 1 = powers[Digits(1) - 1] /\ e = Etiny(set) /\ 1 - 1 = 0
        BY <1>1, <1>2, <1>3, <1>10
      <4>2. BumpDown(w, set) = Work(Finite(neg, 1 - 1, e), -1, st \cup SunkFlags)
        BY <1>1, <4>1, BumpDownTiny DEF w
      <4> QED
        BY <3>1, <4>1, <4>2
    <3>3. SetSubnormal(a, set) = a
      <4>1. a.dn.coef = 0 /\ a.dn.exp = e /\ a.dn.kind = "finite"
        BY <2>4, <3>2, WorkFields, FiniteFields
      <4>2. ~(Etiny(set) - e > 0)
        BY <1>1, <1>10
      <4> QED
        BY <4>1, <4>2, Zenon DEF SetSubnormal, IsZero
    <3>4. FitsIn(Finite(neg, 0, e), set)
      BY <1>1, <1>3, <1>10, FiniteFits
    <3>5. sub \subseteq LossFlags
      BY <1>1, <3>1 DEF LossFlags, SunkFlags
    <3>6. Proper(Work(Finite(neg, 0, e), -1, sub), set)
      BY <3>4, <3>5, ProperIs
    <3> QED
      BY <2>2, <2>4, <3>2, <3>3, <3>6 DEF w
  <2> QED
    BY <1>7, <2>3, <2>4
<1>11. CASE e # set.emin
  <2>1. ~BelowNmin(w, set) /\ ~JustBelowNmin(w, set)
    BY <1>1, <1>8, <1>9, <1>11
  <2>2. Finalize(w, set) = CheckRange(a, set)
    BY <1>6, <2>1, Zenon DEF Finalize
  <2>3. PICK c \in Nat \ {0}, f \in Int :
            /\ a = Work(Finite(neg, c, f), -1, st) /\ Digits(c) <= set.digits
            /\ Etiny(set) <= f
    <3>1. CASE a = w
      BY <1>1, <1>3, <3>1 DEF w
    <3>2. CASE a = BumpDown(w, set)
      <4>1. 1 = powers[Digits(1) - 1] /\ 9 = powers[Digits(1)] - 1 /\ e # Etiny(set)
        BY <1>1, <1>2, <1>3, <1>11
      <4>2. PICK f \in Int : f = e - 1 /\ Etiny(set) <= f
        BY <1>1, <1>11
      <4>3. BumpDown(w, set) = Work(Finite(neg, 9, f), -1, st)
        BY <1>1, <4>1, <4>2, BumpDownBorrow DEF w
      <4> QED
        BY <1>1, <1>3, <3>2, <4>2, <4>3
    <3> QED
      BY <1>7, <3>1, <3>2
  <2>4. PICK n : n = Finite(neg, c, f)
    OBVIOUS
  <2>5. CheckRange(a, set) = Work(InRange(n, set), -1, st \cup RangeFlags(n, set))
    BY <1>1, <2>3, <2>4, CheckRangeIs
  <2>6. FitsIn(InRange(n, set), set)
    BY <1>1, <2>3, <2>4, InRangeFits
  <2>7. st \cup RangeFlags(n, set) \subseteq LossFlags
    BY <1>1, Zenon DEF RangeFlags, OverflowFlags, LossFlags
  <2>8. Proper(Work(InRange(n, set), -1, st \cup RangeFlags(n, set)), set)
    BY <2>6, <2>7, ProperIs
  <2> QED
    BY <2>2, <2>5, <2>8 DEF w
<1> QED
  BY <1>10, <1>11 DEF w

\* whatever the coefficient and residue stand for, at every precision
LEMMA FinalizeFits ==
    ASSUME NEW neg \in BOOLEAN, NEW set, Context(set), NEW c, NEW e, NEW r, NEW n, NEW q,
           Pending(c, e, r, n, q, set)
    PROVE  Proper(Finalize(Work(Finite(neg, c, e), r, Lost(e > q, r)), set), set)
<1>1. /\ c \in Nat \ {0} /\ e \in Int /\ r \in -1..9 /\ n \in Nat \ {0} /\ q \in Int
      /\ Digits(c) <= set.digits
  BY DEF Pending
<1>2. CASE Decided(c, e, r, set)
  <2>1. PICK s \in -1..9 : Finalize(Work(Finite(neg, c, e), r, Lost(e > q, r)), set)
                              = Work(Delivered(neg, n, q, set), s, FlagsFor(neg, n, q, set))
    BY <1>2, FinalizeCloses
  <2>2. FitsIn(Delivered(neg, n, q, set), set)
    BY <1>1, DeliveredFits
  <2>3. FlagsFor(neg, n, q, set) \subseteq LossFlags
    BY FlagsAreLosses
  <2> QED
    BY <2>1, <2>2, <2>3, ProperIs
<1>3. CASE ~Decided(c, e, r, set)
  <2>1. set.digits \in Nat \ {0} /\ set.emin \in Int
    BY ContextRange
  <2>2. PICK d \in Nat \ {0} : d = Digits(c)
    BY <1>1, DigitsFacts
  <2>3. r < 0 /\ c = powers[d - 1] /\ ~(e < set.emin - d + 1) /\ set.digits = 1
    BY <1>1, <1>3, <2>1, <2>2 DEF Decided
  <2>4. d = 1 /\ r = -1
    BY <1>1, <2>2, <2>3
  <2>5. c = 1
    BY <2>3, <2>4, PowersFacts
  <2>6. e >= set.emin
    BY <1>1, <2>1, <2>3, <2>4
  <2>7. PICK st : st = Lost(e > q, r)
    OBVIOUS
  <2>8. st \subseteq LossFlags
    BY <2>7, Zenon DEF Lost, LossFlags
  <2>9. OneBelow(neg, e, st, set)
    BY <1>1, <2>3, <2>6, <2>8 DEF OneBelow
  <2>10. Proper(Finalize(Work(Finite(neg, 1, e), -1, st), set), set)
    BY <2>9, OneBelowFits
  <2> QED
    BY <2>4, <2>5, <2>7, <2>10
<1> QED
  BY <1>2, <1>3

\* A number that is not zero becomes zero only with a loss.
LEMMA ZeroIsInexact ==
    ASSUME NEW neg \in BOOLEAN, NEW set, Context(set), NEW n \in Nat \ {0}, NEW q \in Int,
           IsZero(Delivered(neg, n, q, set))
    PROVE  "Inexact" \in FlagsFor(neg, n, q, set)
<1>0. set.digits \in Nat \ {0} /\ Etop(set) \in Int
  BY ContextRange
<1>1. PICK p \in Int : p = Place(n, q, set) /\ q <= p
  BY PlaceBounds
<1>2. PICK k \in Nat : k = p - q /\ p = q + k
  BY <1>1
<1>3. PICK u \in Nat \ {0} : u = powers[k]
  BY PowersFacts
<1>4. PICK lower \in Nat, rest \in Nat :
          lower = n \div u /\ rest = n % u /\ rest < u /\ n = lower * u + rest
  BY Euclid
<1>5. PICK x \in Nat : x = IF RoundsAway(set.round, neg, lower, rest, powers[k])
                            THEN lower + 1 ELSE lower
  BY <1>4
<1>6. /\ n % powers[Place(n, q, set) - q] = rest
      /\ Nearest(neg, n, q, set) = Neighbour(neg, x, p, set)
  <2>1. RestAbove(n, q, set, k, lower, rest)
    BY <1>1, <1>2, <1>3, <1>4 DEF RestAbove
  <2>2. RoundsTo(neg, n, q, set, k, lower, rest, x)
    BY <1>5, <2>1, Zenon DEF RoundsTo
  <2> QED
    BY <1>2, <2>2, NearestIs
<1>t. PICK t \in Nat, f \in Nat, a \in Nat \ {0} :
          t = powers[set.digits] /\ f = set.digits - 1 /\ a = powers[f]
  <2>1. PICK f \in Nat : f = set.digits - 1
    BY <1>0
  <2>2. PICK a \in Nat \ {0} : a = powers[f]
    BY PowersFacts
  <2>3. powers[set.digits] \in Nat
    BY <1>0, PowersFacts
  <2> QED
    BY <2>1, <2>2, <2>3
<1>7. PICK c \in Nat, e \in Int : /\ Nearest(neg, n, q, set) = Finite(neg, c, e)
                                  /\ c = 0 => lower = 0
  <2>1. CASE x = t
    BY <1>1, <1>6, <1>t, <2>1 DEF Neighbour
  <2>2. CASE x # t
    BY <1>1, <1>4, <1>5, <1>6, <1>t, <2>2 DEF Neighbour
  <2> QED
    BY <2>1, <2>2
<1> DEFINE r == Nearest(neg, n, q, set)
<1>8. r.coef = c /\ r.exp = e /\ r.kind = "finite" /\ r.neg = neg
  BY <1>7, FiniteFields
<1>9. TooLarge(r, set) \/ n % powers[Place(n, q, set) - q] # 0
  <2>1. SUFFICES ASSUME ~TooLarge(r, set) PROVE rest # 0
    BY <1>6
  <2>2. Delivered(neg, n, q, set) = Folded(r, set)
    <3>1. Delivered(neg, n, q, set) = InRange(r, set)
      BY DeliveredIs
    <3> QED
      BY <2>1, <3>1, Zenon DEF InRange
  <2>3. c = 0
    <3>1. CASE set.clamp /\ e > Etop(set)
      <4>1. PICK j \in Nat, v \in Nat \ {0} : j = e - Etop(set) /\ v = powers[j]
        <5>1. PICK j \in Nat : j = e - Etop(set)
          BY <1>0, <3>1
        <5> QED
          BY <5>1, PowersFacts
      <4>2. Folded(r, set) = Finite(neg, c * powers[j], Etop(set))
        BY <1>8, <3>1, <4>1, Zenon DEF Folded
      <4>3. c * v = 0
        BY <2>2, <4>1, <4>2, FiniteFields DEF IsZero
      <4> QED
        BY <4>3
    <3>2. CASE ~(set.clamp /\ e > Etop(set))
      <4>1. Folded(r, set) = r
        BY <1>8, <3>2, Zenon DEF Folded
      <4> QED
        BY <1>8, <2>2, <4>1, Zenon DEF IsZero
    <3> QED
      BY <3>1, <3>2
  <2>4. lower = 0
    BY <1>7, <2>3
  <2> QED
    BY <1>4, <2>4
<1> QED
  BY <1>9, FlagsAre

\* what is in the range and within the precision is delivered as it is
LEMMA ExactDelivered ==
    ASSUME NEW neg \in BOOLEAN, NEW set, Context(set), NEW n \in Nat \ {0}, NEW q \in Int,
           Digits(n) <= set.digits, set.emin <= q, q <= Etop(set)
    PROVE  /\ Delivered(neg, n, q, set) = Finite(neg, n, q)
           /\ FlagsFor(neg, n, q, set) = {}
<1>0. /\ set.digits \in Nat \ {0} /\ set.emin \in Int /\ set.emax \in Int
      /\ Etop(set) \in Int /\ Etop(set) = set.emax - (set.digits - 1)
  BY ContextRange
<1>1. PICK d \in Nat \ {0} : d = Digits(n)
  BY DigitsFacts
<1>2. Pending(n, q, 0, n, q, set)
  <2>1. q - q = 0 /\ powers[0] = 1 /\ n - n * powers[0] = 0
    BY PowersFacts
  <2>2. Tells(0, n - n * powers[q - q], powers[q - q])
    BY <2>1 DEF Tells
  <2> QED
    BY <2>1, <2>2 DEF Pending
<1>3. PICK w : w = Work(Finite(neg, n, q), 0, {})
  OBVIOUS
<1>4. CheckRange(ApplyRound(w, set), set)
          = Work(Delivered(neg, n, q, set), 0, FlagsFor(neg, n, q, set))
  <2>1. q >= set.emin - Digits(n) + 1
    BY <1>0, <1>1
  <2>2. Lost(q > q, 0) = {}
    <3>1. ~(q > q)
      OBVIOUS
    <3> QED
      BY <3>1, Zenon DEF Lost
  <2>3. CheckRange(ApplyRound(Work(Finite(neg, n, q), 0, Lost(q > q, 0)), set), set)
            = Work(Delivered(neg, n, q, set), 0, FlagsFor(neg, n, q, set))
    BY <1>2, <2>1, NormalAbove
  <2> QED
    BY <1>3, <2>2, <2>3, Zenon
<1>5. w.residue = 0 /\ w.dn.exp = q
  BY <1>3, WorkFields, FiniteFields
<1>6. ApplyRound(w, set) = w
  <2>1. /\ ~(w.residue > 0) /\ ~(w.residue > 5) /\ ~(w.residue >= 5) /\ w.residue # 5
        /\ ~(w.residue < 0)
    BY <1>5
  <2>2. set.round \in Modes
    BY DEF Context
  <2> QED
    BY <2>1, <2>2, Zenon DEF ApplyRound, RoundsUp, RoundsDown, Modes
<1>7. CheckRange(w, set) = w
  BY <1>5, Zenon DEF CheckRange
<1> QED
  BY <1>3, <1>4, <1>6, <1>7, WorkFields

LEMMA ContextHolds ==
    ASSUME NEW ctx, IsContext(ctx)
    PROVE  Context(ctx)
  BY DEF IsContext, Context

(***************************************************************************)
(* What a number that is about to be finished, its residue and the flags   *)
(* raised so far say of the exact value n * 10^q.                          *)
(***************************************************************************)
Carries(x, r, st, neg, n, q, ctx) ==
    /\ n \in Nat /\ q \in Int /\ neg \in BOOLEAN
    /\ n = 0 => x = Finite(neg, 0, q) /\ r = 0 /\ st = {}
    /\ n # 0 => \E c, e : /\ x = Finite(neg, c, e) /\ st = Lost(e > q, r)
                          /\ Pending(c, e, r, n, q, ctx)

LEMMA LostIs ==
    ASSUME NEW cut \in BOOLEAN, NEW r
    PROVE  /\ Lost(cut, r) \subseteq LossFlags
           /\ cut => CutFlags({}, r) = Lost(cut, r)
           /\ ~cut /\ r = 0 => Lost(cut, r) = {}
           /\ cut => Lost(cut, r) \cup {"Rounded"} = Lost(cut, r)
           /\ cut /\ r # 0 => {"Inexact", "Rounded"} = Lost(cut, r)
           /\ cut /\ r = 0 => {"Rounded"} = Lost(cut, r)
  BY Zenon DEF Lost, LossFlags, CutFlags

\* decSetCoeff of a number as it is
LEMMA SetCoeffCarries ==
    ASSUME NEW neg \in BOOLEAN, NEW n \in Nat, NEW q \in Int, NEW ctx, Context(ctx)
    PROVE  \E x, r, st : /\ SetCoeff(Work(Finite(neg, n, q), 0, {}), ctx) = Work(x, r, st)
                         /\ Carries(x, r, st, neg, n, q, ctx) /\ r >= 0
<1>1. PICK d \in Nat \ {0}, P \in Nat \ {0} : d = Digits(n) /\ P = ctx.digits
  BY DigitsFacts, ContextRange
<1>2. CASE d <= P
  <2>1. Digits(Finite(neg, n, q).coef) - ctx.digits <= 0
    BY <1>1, <1>2, FiniteFields
  <2>2. SetCoeff(Work(Finite(neg, n, q), 0, {}), ctx) = Work(Finite(neg, n, q), 0, {})
    <3>1. PICK w : w = Work(Finite(neg, n, q), 0, {})
      OBVIOUS
    <3>2. w.residue = 0 /\ w.dn = Finite(neg, n, q)
      BY <3>1, WorkFields
    <3>3. SetCoeff(w, ctx) = w
      BY <2>1, <3>2, Zenon DEF SetCoeff
    <3> QED
      BY <3>1, <3>3
  <2>3. Carries(Finite(neg, n, q), 0, {}, neg, n, q, ctx)
    <3>1. CASE n # 0
      <4>1. PICK cut \in BOOLEAN : (cut <=> q > q) /\ ~cut
        <5>1. ~(q > q)
          OBVIOUS
        <5>2. PICK cut \in BOOLEAN : cut <=> q > q
          OBVIOUS
        <5> QED
          BY <5>1, <5>2
      <4>2. Lost(q > q, 0) = {}
        BY <4>1, LostIs
      <4>3. Pending(n, q, 0, n, q, ctx)
        <5>1. q - q = 0 /\ n - n * powers[0] = 0 /\ powers[0] = 1
          BY PowersFacts
        <5>2. Tells(0, n - n * powers[q - q], powers[q - q])
          BY <5>1 DEF Tells
        <5>3. Digits(n) <= ctx.digits
          BY <1>1, <1>2
        <5> QED
          BY <3>1, <5>1, <5>2, <5>3 DEF Pending
      <4> QED
        BY <3>1, <4>2, <4>3 DEF Carries
    <3> QED
      BY <3>1 DEF Carries
  <2> QED
    BY <2>2, <2>3
<1>3. CASE d > P
  <2>1. PICK k \in Nat \ {0} : k = d - P
    BY <1>1, <1>3
  <2>2. n # 0
    BY <1>1, <1>3, DigitsFacts
  <2>3. CutBy(n, 0, 0, 1, k, ctx)
    BY <1>1, <2>1, <2>2 DEF CutBy, Near
  <2>4. PICK s \in -1..9 :
            /\ SetCoeff(Work(Finite(neg, n, q), 0, {}), ctx)
                   = Work(Finite(neg, n \div powers[k], q + k), s, CutFlags({}, s))
            /\ Tells(s, (n % powers[k]) * 1 + 0, powers[k] * 1)
    BY <2>3, SetCoeffCuts
  <2>u. PICK u \in Nat \ {0} : u = powers[k]
    BY PowersFacts
  <2>5. PICK c \in Nat, rest \in Nat : c = n \div u /\ rest = n % u /\ n = c * u + rest
    BY Euclid
  <2>6. Tells(s, rest, u)
    <3>1. (n % powers[k]) * 1 + 0 = rest /\ powers[k] * 1 = u
      BY <2>u, <2>5
    <3> QED
      BY <2>4, <3>1, Zenon
  <2>7. c # 0 /\ Digits(c) = P
    <3>1. k < d /\ d - k = P
      BY <1>1, <1>3, <2>1
    <3>2. Digits(n \div powers[k]) = d - k /\ n \div powers[k] # 0
      BY <1>1, <2>2, <3>1, DigitsCut
    <3> QED
      BY <2>u, <2>5, <3>1, <3>2
  <2>8. Pending(c, q + k, s, n, q, ctx)
    <3>1. (q + k) - q = k /\ q + k \in Int
      OBVIOUS
    <3>2. n - c * powers[k] = rest
      BY <2>u, <2>5
    <3>3. Tells(s, n - c * powers[(q + k) - q], powers[(q + k) - q])
      BY <2>u, <2>6, <3>1, <3>2
    <3> QED
      BY <1>1, <2>2, <2>7, <3>1, <3>3 DEF Pending
  <2>9. PICK cut \in BOOLEAN : (cut <=> q + k > q) /\ cut
    <3>1. q + k > q
      OBVIOUS
    <3>2. PICK cut \in BOOLEAN : cut <=> q + k > q
      OBVIOUS
    <3> QED
      BY <3>1, <3>2
  <2>10. CutFlags({}, s) = Lost(q + k > q, s)
    BY <2>9, LostIs
  <2>11. Carries(Finite(neg, c, q + k), s, CutFlags({}, s), neg, n, q, ctx)
    BY <2>2, <2>8, <2>10 DEF Carries
  <2>12. s >= 0
    BY <2>5, <2>6 DEF Tells
  <2> QED
    BY <2>4, <2>u, <2>5, <2>11, <2>12
<1> QED
  BY <1>1, <1>2, <1>3

\* a coefficient with zeros to spare stands for itself
LEMMA PendingExact ==
    ASSUME NEW c \in Nat \ {0}, NEW e \in Int, NEW q \in Int, NEW j \in Nat, j = e - q,
           NEW n, n = c * powers[j], NEW ctx, Digits(c) <= ctx.digits,
           j = 0 \/ Digits(c) = ctx.digits
    PROVE  Pending(c, e, 0, n, q, ctx)
<1>1. PICK u \in Nat \ {0} : u = powers[j]
  BY PowersFacts
<1>2. n \in Nat \ {0} /\ n - c * u = 0
  <2>1. PICK v \in Nat \ {0} : v = c * u
    OBVIOUS
  <2>2. n = v
    BY <1>1, <2>1
  <2> QED
    BY <2>1, <2>2
<1>3. Tells(0, n - c * powers[e - q], powers[e - q])
  BY <1>1, <1>2 DEF Tells
<1>4. e = q \/ Digits(c) = ctx.digits
  OBVIOUS
<1> QED
  BY <1>2, <1>3, <1>4 DEF Pending

\* an uncut coefficient is the exact value
LEMMA PendingUncut ==
    ASSUME NEW c, NEW e, NEW r, NEW n, NEW q, NEW ctx, Pending(c, e, r, n, q, ctx),
           Digits(c) # ctx.digits
    PROVE  e = q /\ r = 0 /\ n = c
<1>1. PICK k, rest, d : k = e - q /\ e = q + k /\ Stands(c, k, r, rest, d, n, ctx)
  BY PendingStands
<1>2. e = q
  BY DEF Pending
<1>3. k = 0
  BY <1>1, <1>2 DEF Pending
<1>4. r = 0 /\ rest = 0
  BY <1>1, <1>3, StandsFacts
<1>5. n = c * powers[0] + 0 /\ c \in Nat
  BY <1>1, <1>3, <1>4 DEF Stands
<1> QED
  BY <1>2, <1>4, <1>5, PowersFacts

(***************************************************************************)
(* decFinalize of a number that carries the exact value.                   *)
(***************************************************************************)
LEMMA FinishCarries ==
    ASSUME NEW ctx, Context(ctx), NEW x, NEW r, NEW st, NEW neg, NEW n, NEW q,
           Carries(x, r, st, neg, n, q, ctx), NEW w, w = Finalize(Work(x, r, st), ctx)
    PROVE  /\ Proper(w, ctx)
           /\ ctx.digits > 1 \/ n = 0 \/ r >= 0
                  => /\ w.dn = Delivered(neg, n, q, ctx)
                     /\ w.status = FlagsFor(neg, n, q, ctx)
<1>1. n \in Nat /\ q \in Int /\ neg \in BOOLEAN
  BY DEF Carries
<1>2. FlagsFor(neg, n, q, ctx) \subseteq LossFlags /\ FitsIn(Delivered(neg, n, q, ctx), ctx)
  BY <1>1, DeliveredFits, FlagsAreLosses
<1>3. ASSUME NEW s \in -1..9,
             w = Work(Delivered(neg, n, q, ctx), s, FlagsFor(neg, n, q, ctx))
      PROVE  /\ Proper(w, ctx)
             /\ w.dn = Delivered(neg, n, q, ctx)
             /\ w.status = FlagsFor(neg, n, q, ctx)
  <2>1. PICK y, fl : y = Delivered(neg, n, q, ctx) /\ fl = FlagsFor(neg, n, q, ctx)
    OBVIOUS
  <2>2. w = Work(y, s, fl)
    BY <1>3, <2>1
  <2>3. Proper(Work(y, s, fl), ctx)
    BY <1>2, <2>1, ProperIs
  <2> QED
    BY <2>1, <2>2, <2>3, WorkFields
<1>4. CASE n = 0
  <2>1. x = Finite(neg, 0, q) /\ r = 0 /\ st = {}
    BY <1>4 DEF Carries
  <2>2. w = Work(Delivered(neg, n, q, ctx), 0, FlagsFor(neg, n, q, ctx))
    BY <1>1, <1>4, <2>1, ZeroCloses
  <2> QED
    BY <1>3, <2>2
<1>5. CASE n # 0
  <2>1. PICK c, e : /\ x = Finite(neg, c, e) /\ st = Lost(e > q, r)
                    /\ Pending(c, e, r, n, q, ctx)
    BY <1>5 DEF Carries
  <2>2. w = Finalize(Work(Finite(neg, c, e), r, Lost(e > q, r)), ctx)
    BY <2>1
  <2>3. CASE ctx.digits > 1 \/ r >= 0
    <3>1. Decided(c, e, r, ctx)
      BY <2>3, ContextRange DEF Decided
    <3>2. PICK s \in -1..9 : w = Work(Delivered(neg, n, q, ctx), s, FlagsFor(neg, n, q, ctx))
      BY <1>1, <2>1, <2>2, <3>1, FinalizeCloses
    <3> QED
      BY <1>3, <3>2
  <2>4. CASE ~(ctx.digits > 1 \/ r >= 0)
    BY <1>1, <1>5, <2>1, <2>2, <2>4, FinalizeFits
  <2> QED
    BY <2>3, <2>4
<1> QED
  BY <1>4, <1>5

LEMMA NumberIs ==
    ASSUME NEW n \in Numbers, ~IsSpecial(n)
    PROVE  /\ n = Finite(n.neg, n.coef, n.exp)
           /\ n.neg \in BOOLEAN /\ n.coef \in Nat /\ n.exp \in Int
  BY DEF Numbers, IsSpecial, Finite

LEMMA CarriesNumber ==
    ASSUME NEW x, NEW r, NEW st, NEW neg, NEW n, NEW q, NEW ctx,
           Carries(x, r, st, neg, n, q, ctx)
    PROVE  /\ x \in Numbers /\ r \in -1..9 /\ st \subseteq LossFlags /\ st \subseteq Flags
           /\ IsZero(x) <=> n = 0
           /\ x.neg = neg
<1>1. n \in Nat /\ q \in Int /\ neg \in BOOLEAN
  BY DEF Carries
<1>2. LossFlags \subseteq Flags
  BY DEF LossFlags, Flags
<1>3. CASE n = 0
  <2>1. x = Finite(neg, 0, q) /\ r = 0 /\ st = {}
    BY <1>3 DEF Carries
  <2>2. Finite(neg, 0, q) \in Numbers
    BY <1>1 DEF Finite, Numbers, Kinds
  <2> QED
    BY <1>3, <2>1, <2>2, FiniteFields DEF IsZero
<1>4. CASE n # 0
  <2>1. PICK c, e : /\ x = Finite(neg, c, e) /\ st = Lost(e > q, r)
                    /\ Pending(c, e, r, n, q, ctx)
    BY <1>4 DEF Carries
  <2>2. c \in Nat \ {0} /\ e \in Int /\ r \in -1..9
    BY <2>1 DEF Pending
  <2>3. Finite(neg, c, e) \in Numbers
    BY <1>1, <2>2 DEF Finite, Numbers, Kinds
  <2>4. st \subseteq LossFlags
    BY <2>1, Zenon DEF Lost, LossFlags
  <2> QED
    BY <1>2, <1>4, <2>1, <2>2, <2>3, <2>4, FiniteFields DEF IsZero
<1> QED
  BY <1>3, <1>4

(***************************************************************************)
(* Unit arrays: numbers written in the base of a Unit.                     *)
(***************************************************************************)
LEMMA UnitBase == Base \in Nat /\ Base >= 10 /\ Base > 1 /\ DPUN \in Nat \ {0}
<1>1. DPUN \in Nat \ {0}
  BY DPUNAssumption
<1>2. powers[DPUN] = 10 * powers[DPUN - 1] /\ powers[DPUN - 1] \in Nat \ {0}
  BY <1>1, PowersStep
<1> QED
  BY <1>1, <1>2 DEF Base

LEMMA PowerOfBase ==
    ASSUME NEW k \in Nat
    PROVE  Power(Base)[k] = powers[DPUN * k] /\ DPUN * k \in Nat
<1> DEFINE Good == {j \in 0..k : Power(Base)[j] = powers[DPUN * j]}
<1>1. DPUN \in Nat /\ DPUN * 0 = 0
  BY UnitBase
<1>2. /\ Power(Base)[0] = 1
      /\ \A j \in Nat : Power(Base)[j + 1] = Base * Power(Base)[j]
  BY UnitBase, PowerFacts
<1>3. 0 \in Good
  BY <1>1, <1>2, PowersFacts
<1>4. ASSUME NEW j \in 1..k, j - 1 \in Good PROVE j \in Good
  <2>1. j - 1 \in Nat /\ (j - 1) + 1 = j /\ Power(Base)[j - 1] = powers[DPUN * (j - 1)]
    BY <1>4
  <2>2. Power(Base)[j] = Base * Power(Base)[j - 1]
    BY <1>2, <2>1
  <2>3. DPUN * (j - 1) \in Nat /\ DPUN * j = DPUN + DPUN * (j - 1)
    BY <1>1, <2>1
  <2>4. powers[DPUN + DPUN * (j - 1)] = powers[DPUN] * powers[DPUN * (j - 1)]
    BY <1>1, <2>3, PowersSum
  <2> QED
    BY <1>4, <2>1, <2>2, <2>3, <2>4 DEF Base
<1> HIDE DEF Good
<1>5. \A j \in 0..k : j \in Good
  BY <1>3, <1>4, Climb
<1> QED
  BY <1>1, <1>5 DEF Good

LEMMA PowerOfTen ==
    ASSUME NEW k \in Nat
    PROVE  Power(10)[k] = powers[k]
<1> DEFINE Good == {j \in 0..k : Power(10)[j] = powers[j]}
<1>1. /\ Power(10)[0] = 1
      /\ \A j \in Nat : Power(10)[j + 1] = 10 * Power(10)[j]
  BY PowerFacts
<1>2. 0 \in Good
  BY <1>1, PowersFacts
<1>3. ASSUME NEW j \in 1..k, j - 1 \in Good PROVE j \in Good
  <2>1. j - 1 \in Nat /\ (j - 1) + 1 = j /\ Power(10)[j - 1] = powers[j - 1]
    BY <1>3
  <2> QED
    BY <1>1, <1>3, <2>1, PowersFacts
<1> HIDE DEF Good
<1>4. \A j \in 0..k : j \in Good
  BY <1>2, <1>3, Climb
<1> QED
  BY <1>4 DEF Good

\* read from the top or summed up from below, a number is the same
LEMMA NumberWorth ==
    ASSUME NEW base \in Nat, base > 1, NEW s \in Seq(Nat)
    PROVE  Number(base, s) = Worth(base, s)[Len(s)] /\ NatItems(s)
<1> DEFINE n == Len(s)
           IsTop(f) == f = [k \in 0..n |-> IF k = 0 THEN 0
                                           ELSE base * f[k - 1] + s[n + 1 - k]]
           top  == CHOOSE f : IsTop(f)
           low(k) == IF k \in 0..(n - 1) THEN s[n - k] ELSE 0
           step == [k \in Nat |-> [x \in Nat |-> base * x + low(k)]]
<1>1. /\ n \in Nat /\ DOMAIN s = 1..n
      /\ \A k \in 1..n : s[k] \in Nat
  OBVIOUS
<1>2. NatItems(s)
  BY <1>1 DEF NatItems
<1> HIDE DEF n
<1>3. \A k \in Nat : low(k) \in Nat
  BY <1>1
<1>4. \A k \in 1..n : low(k - 1) = s[n + 1 - k]
  <2> SUFFICES ASSUME NEW k \in 1..n PROVE low(k - 1) = s[n + 1 - k]
    OBVIOUS
  <2>1. k - 1 \in 0..(n - 1) /\ n - (k - 1) = n + 1 - k
    BY <1>1
  <2> QED
    BY <2>1
<1> HIDE DEF low
<1>5. \A k, x \in Nat : step[k][x] = base * x + low(k)
  OBVIOUS
<1> HIDE DEF step
<1>6. 0 \in Nat /\ \A k \in Nat : \A x \in Nat : step[k][x] \in Nat
  <2> SUFFICES ASSUME NEW k \in Nat, NEW x \in Nat PROVE step[k][x] \in Nat
    OBVIOUS
  <2>1. base * x \in Nat /\ low(k) \in Nat
    BY <1>3
  <2>2. \A u, v \in Nat : u + v \in Nat
    OBVIOUS
  <2> QED
    BY <1>5, <2>1, <2>2, Zenon
<1>7. PICK g : IsStart(g, n, Nat, 0, step)
  BY <1>1, <1>6, StartExists
<1>8. IsTop(g)
  <2>1. ASSUME NEW k \in 0..n PROVE g[k] = IF k = 0 THEN 0 ELSE base * g[k - 1] + s[n + 1 - k]
    <3>1. CASE k = 0
      BY <1>7, <3>1 DEF IsStart
    <3>2. CASE k # 0
      <4>1. k - 1 \in 0..n /\ k \in 1..n /\ k - 1 \in Nat
        BY <1>1, <3>2
      <4>2. g[k - 1] \in Nat /\ g[k] = step[k - 1][g[k - 1]]
        BY <1>7, <4>1 DEF IsStart
      <4> QED
        BY <1>4, <1>5, <3>2, <4>1, <4>2
    <3> QED
      BY <3>1, <3>2
  <2>2. g = [k \in 0..n |-> g[k]]
    BY <1>7 DEF IsStart
  <2> QED
    BY <2>1, <2>2
<1>9. IsTop(top)
  BY <1>8
<1>10. Number(base, s) = top[n]
  BY DEF Number, n
<1> HIDE DEF top
<1>11. \A k \in 0..n : top[k] = IF k = 0 THEN 0 ELSE base * top[k - 1] + s[n + 1 - k]
  BY <1>9, Zenon
<1> DEFINE Rest(k) == top[k] * Power(base)[n - k] + Worth(base, s)[n - k]
           Good == {k \in 0..n : top[k] \in Nat /\ Rest(k) = Worth(base, s)[n]}
<1>12. 0 \in Good
  <2>1. 0 \in 0..n /\ n - 0 = n /\ top[0] = 0
    BY <1>1, <1>11
  <2>2. Power(base)[n] \in Nat /\ Worth(base, s)[n] \in Nat
    BY <1>1, <1>2, PowerFacts, WorthZero
  <2> QED
    BY <2>1, <2>2
<1>13. ASSUME NEW k \in 1..n, k - 1 \in Good PROVE k \in Good
  <2>1. /\ k \in 0..n /\ k # 0 /\ n - k \in Nat /\ n + 1 - k \in Nat \ {0}
        /\ (n - k) + 1 = n + 1 - k /\ n - (k - 1) = n + 1 - k /\ (n + 1 - k) - 1 = n - k
        /\ n + 1 - k \in DOMAIN s
    BY <1>1
  <2>2. top[k - 1] \in Nat /\ Rest(k - 1) = Worth(base, s)[n]
    BY <1>13
  <2>3. top[k] = base * top[k - 1] + s[n + 1 - k] /\ s[n + 1 - k] \in Nat
    BY <1>1, <1>11, <2>1
  <2>4. Worth(base, s)[n + 1 - k]
            = Worth(base, s)[n - k] + s[n + 1 - k] * Power(base)[n - k]
        /\ Worth(base, s)[n - k] \in Nat
    <3>1. Item(s, n + 1 - k) = s[n + 1 - k]
      BY <2>1 DEF Item
    <3>2. \A j \in Nat \ {0} :
              /\ Worth(base, s)[j] = Worth(base, s)[j - 1] + Item(s, j) * Power(base)[j - 1]
              /\ Worth(base, s)[j - 1] \in Nat
      BY <1>2, WorthStep
    <3> QED
      BY <2>1, <3>1, <3>2, Zenon
  <2>5. Power(base)[n + 1 - k] = base * Power(base)[n - k] /\ Power(base)[n - k] \in Nat
    <3>1. Power(base)[(n - k) + 1] = base * Power(base)[n - k]
      BY <2>1, PowerFacts
    <3> QED
      BY <2>1, <3>1, PowerFacts
  <2>6. PICK t \in Nat : t = top[k - 1]
    BY <2>2
  <2>7. PICK u \in Nat : u = s[n + 1 - k]
    BY <2>3
  <2>8. PICK p \in Nat : p = Power(base)[n - k]
    BY <2>5
  <2>9. PICK w \in Nat : w = Worth(base, s)[n - k]
    BY <2>4
  <2>10. (base * t + u) * p + w = t * (base * p) + (w + u * p)
    OBVIOUS
  <2>11. Rest(k - 1) = t * (base * p) + (w + u * p)
    BY <2>1, <2>4, <2>5, <2>6, <2>7, <2>8, <2>9, Zenon
  <2>12. Rest(k) = (base * t + u) * p + w
    BY <2>3, <2>6, <2>7, <2>8, <2>9, Zenon
  <2>13. top[k] \in Nat
    <3>1. base * t \in Nat /\ base * t + u \in Nat
      OBVIOUS
    <3> QED
      BY <2>3, <2>6, <2>7, <3>1, Zenon
  <2> QED
    BY <2>1, <2>2, <2>10, <2>11, <2>12, <2>13
<1> HIDE DEF Good
<1>14. \A k \in 0..n : k \in Good
  BY <1>1, <1>12, <1>13, Climb
<1>15. n \in Good /\ n - n = 0
  BY <1>1, <1>14
<1>16. top[n] \in Nat /\ top[n] * Power(base)[n - n] + Worth(base, s)[n - n] = Worth(base, s)[n]
  BY <1>15 DEF Good
<1>17. Power(base)[0] = 1 /\ Worth(base, s)[0] = 0
  BY <1>2, PowerFacts, WorthZero
<1> QED
  BY <1>2, <1>10, <1>15, <1>16, <1>17 DEF n

\* what stands in an array of Units
Arrays == Seq(0..(Base - 1))

LEMMA ArrayIs ==
    ASSUME NEW n \in Nat, NEW s \in [1..n -> 0..(Base - 1)]
    PROVE  s \in Arrays /\ Len(s) = n /\ DOMAIN s = 1..n
<1> DEFINE Unit == 0..(Base - 1)
<1>1. s \in [1..n -> Unit]
  OBVIOUS
<1> HIDE DEF Unit
<1>2. s \in Seq(Unit) /\ Len(s) = n /\ DOMAIN s = 1..n
  BY <1>1
<1> QED
  BY <1>2 DEF Unit, Arrays

LEMMA ArrayFacts ==
    ASSUME NEW u \in Arrays
    PROVE  /\ u \in Seq(Nat) /\ Len(u) \in Nat /\ DOMAIN u = 1..Len(u) /\ NatItems(u)
           /\ \A k \in 1..Len(u) : u[k] \in Nat /\ u[k] <= Base - 1
           /\ Value(u) = Worth(Base, u)[Len(u)] /\ Value(u) \in Nat
           /\ Value(u) < powers[DPUN * Len(u)]
<1>1. Base \in Nat /\ Base > 1
  BY UnitBase
<1>2. /\ u \in Seq(Nat) /\ Len(u) \in Nat /\ DOMAIN u = 1..Len(u)
      /\ \A k \in 1..Len(u) : u[k] \in Nat /\ u[k] <= Base - 1
  BY <1>1 DEF Arrays
<1>3. Value(u) = Worth(Base, u)[Len(u)] /\ NatItems(u)
  BY <1>1, <1>2, NumberWorth DEF Value
<1>4. Worth(Base, u)[Len(u)] \in Nat
  BY <1>1, <1>2, <1>3, WorthZero
<1>5. Worth(Base, u)[Len(u)] < Power(Base)[Len(u)]
  BY <1>1, <1>2, <1>3, WorthBelow
<1> QED
  BY <1>2, <1>3, <1>4, <1>5, PowerOfBase

LEMMA UnitAtIs ==
    ASSUME NEW u \in Arrays, NEW k \in Int
    PROVE  UnitAt(u, k) = Item(u, k) /\ UnitAt(u, k) \in 0..(Base - 1)
BY ArrayFacts, UnitBase DEF UnitAt, Item

\* one number written above another
LEMMA WorthConcat ==
    ASSUME NEW base \in Nat, base > 1, NEW s \in Seq(Nat), NEW t \in Seq(Nat),
           NEW k \in Nat
    PROVE  Worth(base, s \o t)[Len(s) + k]
               = Worth(base, s)[Len(s)] + Power(base)[Len(s)] * Worth(base, t)[k]
<1> DEFINE n == Len(s)
           j == s \o t
<1>1. j \in Seq(Nat) /\ n \in Nat
  OBVIOUS
<1>2. NatItems(s) /\ NatItems(t) /\ NatItems(j)
  <2> HIDE DEF j
  <2> QED
    BY <1>1, NumberWorth
<1>3. \A i \in Nat \ {0} : Item(j, n + i) = Item(t, i)
  <2> SUFFICES ASSUME NEW i \in Nat \ {0} PROVE Item(j, n + i) = Item(t, i)
    OBVIOUS
  <2>1. Len(j) = n + Len(t) /\ Len(t) \in Nat /\ DOMAIN j = 1..Len(j) /\ DOMAIN t = 1..Len(t)
    OBVIOUS
  <2>2. CASE i <= Len(t)
    <3>1. j[n + i] = t[i]
      BY <2>1, <2>2
    <3> QED
      BY <2>1, <2>2, <3>1 DEF Item
  <2>3. CASE i > Len(t)
    <3> HIDE DEF j, n
    <3> QED
      BY <1>1, <2>1, <2>3 DEF Item
  <2> QED
    BY <2>1, <2>2, <2>3
<1>4. \A i \in 1..n : Item(j, i) = Item(s, i)
  <2> SUFFICES ASSUME NEW i \in 1..n PROVE Item(j, i) = Item(s, i)
    OBVIOUS
  <2>1. Len(j) = n + Len(t) /\ Len(t) \in Nat /\ DOMAIN j = 1..Len(j) /\ DOMAIN s = 1..n
    OBVIOUS
  <2>2. j[i] = s[i] /\ i \in DOMAIN j
    BY <1>1, <2>1
  <2> QED
    BY <2>1, <2>2 DEF Item
<1> HIDE DEF j, n
<1>5. Worth(base, j)[n] = Worth(base, s)[n]
  BY <1>1, <1>2, <1>4, SameWorth
<1>6. Worth(base, j)[n + k] = Worth(base, j)[n] + Power(base)[n] * Worth(base, t)[k]
  <2>1. \A i \in 1..k : Item(j, n + i) = Item(t, i)
    BY <1>3
  <2> QED
    BY <1>1, <1>2, <2>1, WorthShift
<1> QED
  BY <1>5, <1>6, Zenon DEF n, j

LEMMA ValueConcat ==
    ASSUME NEW s \in Arrays, NEW t \in Arrays
    PROVE  /\ s \o t \in Arrays
           /\ Value(s \o t) = Value(s) + powers[DPUN * Len(s)] * Value(t)
<1>1. s \o t \in Arrays /\ Len(s \o t) = Len(s) + Len(t)
  BY DEF Arrays
<1>2. /\ Value(s) = Worth(Base, s)[Len(s)] /\ s \in Seq(Nat) /\ Len(s) \in Nat
      /\ Value(t) = Worth(Base, t)[Len(t)] /\ t \in Seq(Nat) /\ Len(t) \in Nat
  BY ArrayFacts
<1>3. Value(s \o t) = Worth(Base, s \o t)[Len(s \o t)]
  BY <1>1, ArrayFacts
<1>4. Worth(Base, s \o t)[Len(s) + Len(t)]
          = Worth(Base, s)[Len(s)] + Power(Base)[Len(s)] * Worth(Base, t)[Len(t)]
  BY <1>2, UnitBase, WorthConcat
<1> QED
  BY <1>1, <1>2, <1>3, <1>4, PowerOfBase, Zenon

LEMMA ValueOne ==
    ASSUME NEW c \in 0..(Base - 1)
    PROVE  <<c>> \in Arrays /\ Value(<<c>>) = c
<1>1. <<c>> \in Arrays /\ Len(<<c>>) = 1 /\ DOMAIN <<c>> = 1..1
  BY DEF Arrays
<1>2. Value(<<c>>) = Worth(Base, <<c>>)[1] /\ NatItems(<<c>>)
  BY <1>1, ArrayFacts
<1>3. Worth(Base, <<c>>)[1] = Worth(Base, <<c>>)[0] + Item(<<c>>, 1) * Power(Base)[0]
  <2>1. 0 \in Nat /\ 0 + 1 = 1
    OBVIOUS
  <2>2. \A k \in DOMAIN <<c>> : <<c>>[k] \in Nat
    BY <1>2 DEF NatItems
  <2>3. \A k \in Nat : Worth(Base, <<c>>)[k + 1]
                           = Worth(Base, <<c>>)[k] + Item(<<c>>, k + 1) * Power(Base)[k]
    BY <2>2, UnitBase, WorthFacts
  <2> QED
    BY <2>1, <2>3, Zenon
<1>4. Worth(Base, <<c>>)[0] = 0 /\ Power(Base)[0] = 1 /\ Item(<<c>>, 1) = c
  BY <1>1, <1>2, UnitBase, WorthZero, PowerFacts DEF Item
<1>5. c \in Nat
  BY UnitBase
<1> QED
  BY <1>1, <1>2, <1>3, <1>4, <1>5

LEMMA ValueEmpty == <<>> \in Arrays /\ Value(<<>>) = 0 /\ Len(<<>>) = 0
<1>1. <<>> \in Arrays /\ Len(<<>>) = 0
  BY DEF Arrays
<1> QED
  BY <1>1, ArrayFacts, UnitBase, WorthZero

LEMMA ValueAppend ==
    ASSUME NEW s \in Arrays, NEW c \in 0..(Base - 1)
    PROVE  /\ Append(s, c) \in Arrays
           /\ Value(Append(s, c)) = Value(s) + powers[DPUN * Len(s)] * c
<1>1. Append(s, c) = s \o <<c>>
  BY DEF Arrays
<1> QED
  BY <1>1, ValueOne, ValueConcat

\* an array is its lower Units with the rest above them
LEMMA ValueSplits ==
    ASSUME NEW s \in Arrays, NEW j \in 0..Len(s)
    PROVE  /\ SubSeq(s, 1, j) \in Arrays /\ Len(SubSeq(s, 1, j)) = j
           /\ SubSeq(s, j + 1, Len(s)) \in Arrays
           /\ Len(SubSeq(s, j + 1, Len(s))) = Len(s) - j
           /\ Value(s) = Value(SubSeq(s, 1, j))
                             + powers[DPUN * j] * Value(SubSeq(s, j + 1, Len(s)))
<1> DEFINE low  == SubSeq(s, 1, j)
           high == SubSeq(s, j + 1, Len(s))
<1>1. s \in Seq(0..(Base - 1)) /\ Len(s) \in Nat
  BY DEF Arrays
<1> DEFINE Unit == 0..(Base - 1)
<1>6. \A i \in 1..Len(s) : s[i] \in Unit
  BY <1>1, ElementOfSeq
<1> HIDE DEF Unit
<1>2. low \in Arrays /\ Len(low) = j
  <2>0. 1 \in Int /\ j \in Int /\ \A i \in 1..j : i \in 1..Len(s)
    BY <1>1
  <2>1. 1 \in Int /\ j \in Int /\ \A i \in 1..j : s[i] \in 0..(Base - 1)
    BY <1>6, <2>0, Zenon DEF Unit
  <2>2. low \in Seq(0..(Base - 1)) /\ Len(low) = IF 1 <= j THEN j - 1 + 1 ELSE 0
    BY <2>1, SubSeqProperties
  <2> HIDE DEF low
  <2> QED
    BY <1>1, <2>2 DEF Arrays
<1>3. high \in Arrays /\ Len(high) = Len(s) - j
  <2>0. j + 1 \in Int /\ Len(s) \in Int /\ \A i \in (j + 1)..Len(s) : i \in 1..Len(s)
    BY <1>1
  <2>1. /\ j + 1 \in Int /\ Len(s) \in Int
        /\ \A i \in (j + 1)..Len(s) : s[i] \in 0..(Base - 1)
    BY <1>6, <2>0, Zenon DEF Unit
  <2>2. /\ high \in Seq(0..(Base - 1))
        /\ Len(high) = IF j + 1 <= Len(s) THEN Len(s) - (j + 1) + 1 ELSE 0
    BY <2>1, SubSeqProperties
  <2> HIDE DEF high
  <2> QED
    BY <1>1, <2>2 DEF Arrays
<1>4. low \o high = s
  <2>1. 1 \in 1..(Len(s) + 1) /\ j \in (1 - 1)..Len(s) /\ Len(s) \in j..Len(s)
    BY <1>1
  <2>2. SubSeq(s, 1, j) \o SubSeq(s, j + 1, Len(s)) = SubSeq(s, 1, Len(s))
    BY <1>1, <2>1, ConcatAdjacentSubSeq
  <2>3. SubSeq(s, 1, Len(s)) = s
    BY <1>1, SubSeqFull
  <2> QED
    BY <2>2, <2>3
<1> HIDE DEF low, high
<1>5. Value(low \o high) = Value(low) + powers[DPUN * Len(low)] * Value(high)
  BY <1>2, <1>3, ValueConcat
<1> QED
  BY <1>2, <1>3, <1>4, <1>5 DEF low, high

LEMMA UnitsNeeded ==
    ASSUME NEW d \in Nat
    PROVE  D2U(d) \in Nat /\ d <= DPUN * D2U(d) /\ DPUN * D2U(d) < d + DPUN
<1>1. DPUN \in Nat \ {0} /\ d + DPUN - 1 \in Nat
  BY UnitBase
<1>2. /\ D2U(d) \in Nat /\ (d + DPUN - 1) % DPUN \in Nat /\ (d + DPUN - 1) % DPUN < DPUN
      /\ d + DPUN - 1 = D2U(d) * DPUN + ((d + DPUN - 1) % DPUN)
  BY <1>1, Euclid DEF D2U
<1> HIDE DEF D2U
<1>3. D2U(d) * DPUN = DPUN * D2U(d) /\ DPUN * D2U(d) \in Nat
  BY <1>1, <1>2
<1> QED
  BY <1>1, <1>2, <1>3

\* cutting a number into Units
LEMMA ToUnitsIs ==
    ASSUME NEW c \in Nat, NEW n \in Nat
    PROVE  /\ ToUnits(c, n) \in Arrays /\ Len(ToUnits(c, n)) = n
           /\ Value(ToUnits(c, n)) = c % powers[DPUN * n]
<1> DEFINE u == ToUnits(c, n)
           Good == {k \in 0..n : Worth(Base, u)[k] = c % powers[DPUN * k]}
<1>1. Base \in Nat /\ Base > 1 /\ DPUN \in Nat
  BY UnitBase
<1>2. \A k \in Nat \ {0} : DPUN * (k - 1) \in Nat /\ powers[DPUN * (k - 1)] \in Nat \ {0}
  <2> SUFFICES ASSUME NEW k \in Nat \ {0}
               PROVE  DPUN * (k - 1) \in Nat /\ powers[DPUN * (k - 1)] \in Nat \ {0}
    OBVIOUS
  <2>1. k - 1 \in Nat
    OBVIOUS
  <2>2. DPUN * (k - 1) \in Nat
    BY <1>1, <2>1
  <2> QED
    BY <2>2, PowersFacts
<1>3. \A k \in 1..n : (c \div powers[DPUN * (k - 1)]) % Base \in 0..(Base - 1)
  <2> SUFFICES ASSUME NEW k \in 1..n
               PROVE  (c \div powers[DPUN * (k - 1)]) % Base \in 0..(Base - 1)
    OBVIOUS
  <2>1. c \div powers[DPUN * (k - 1)] \in Nat
    BY <1>2, Euclid
  <2> QED
    BY <1>1, <2>1, Euclid
<1>4. /\ u \in Arrays /\ Len(u) = n
      /\ \A k \in 1..n : u[k] = (c \div powers[DPUN * (k - 1)]) % Base
  BY <1>3 DEF ToUnits, Arrays
<1> HIDE DEF u
<1>5. /\ Value(u) = Worth(Base, u)[n] /\ NatItems(u) /\ DOMAIN u = 1..n
      /\ \A k \in Nat : Worth(Base, u)[k] \in Nat
  <2>1. Value(u) = Worth(Base, u)[n] /\ NatItems(u) /\ DOMAIN u = 1..n
    BY <1>4, ArrayFacts
  <2> QED
    BY <1>1, <2>1, WorthZero
<1>6. 0 \in Good
  <2>1. Worth(Base, u)[0] = 0 /\ DPUN * 0 = 0 /\ powers[0] = 1 /\ c % 1 = 0
    BY <1>1, <1>5, WorthZero, PowersFacts
  <2> QED
    BY <2>1
<1>7. ASSUME NEW k \in 1..n, k - 1 \in Good PROVE k \in Good
  <2> DEFINE p == powers[DPUN * (k - 1)]
  <2>1. k \in Nat \ {0} /\ k \in 0..n /\ k - 1 \in Nat
    OBVIOUS
  <2>2. p \in Nat \ {0} /\ DPUN * (k - 1) \in Nat
    BY <1>2, <2>1
  <2>3. powers[DPUN * k] = Base * p
    <3>1. DPUN * k = DPUN + DPUN * (k - 1)
      BY <1>1, <2>1
    <3> QED
      BY <1>1, <2>2, <3>1, PowersSum DEF Base
  <2>4. Power(Base)[k - 1] = p
    BY <2>1, PowerOfBase
  <2>5. Item(u, k) = (c \div p) % Base
    BY <1>4, <1>5 DEF Item
  <2>6. Worth(Base, u)[k] = Worth(Base, u)[k - 1] + Item(u, k) * Power(Base)[k - 1]
    BY <1>1, <1>5, <2>1, WorthStep
  <2>7. Worth(Base, u)[k - 1] = c % p
    BY <1>7
  <2>8. c % (Base * p) = ((c \div p) % Base) * p + (c % p)
    <3>1. Base \in Nat \ {0}
      BY <1>1
    <3> HIDE DEF p
    <3> QED
      BY <2>2, <3>1, QuotientTwice
  <2> HIDE DEF p
  <2>9. c \div p \in Nat /\ c % p \in Nat
    BY <2>2, Euclid
  <2>10. (c \div p) % Base \in Nat
    BY <1>1, <2>9, Euclid
  <2>11. PICK x \in Nat : x = (c \div p) % Base
    BY <2>10
  <2>12. PICK y \in Nat : y = c % p
    BY <2>9
  <2>13. y + x * p = x * p + y
    BY <2>2
  <2>14. Worth(Base, u)[k] = y + x * p /\ c % powers[DPUN * k] = x * p + y
    BY <2>3, <2>4, <2>5, <2>6, <2>7, <2>8, <2>11, <2>12, Zenon
  <2> QED
    BY <2>1, <2>13, <2>14
<1> HIDE DEF Good
<1>8. \A k \in 0..n : k \in Good
  BY <1>6, <1>7, Climb
<1>9. n \in Good
  BY <1>8
<1> QED
  BY <1>4, <1>5, <1>9 DEF Good, u

LEMMA UnitsOfIs ==
    ASSUME NEW n, n.coef \in Nat
    PROVE  /\ UnitsOf(n) \in Arrays /\ Value(UnitsOf(n)) = n.coef
           /\ Len(UnitsOf(n)) = D2U(Digits(n.coef)) /\ Len(UnitsOf(n)) >= 1
<1> DEFINE c == n.coef
           d == Digits(c)
           k == D2U(d)
<1>1. c \in Nat
  OBVIOUS
<1>2. d \in Nat \ {0} /\ c < powers[d]
  BY DigitsFacts
<1>3. k \in Nat /\ d <= DPUN * k
  BY <1>2, UnitsNeeded
<1>4. UnitsOf(n) = ToUnits(c, k)
  BY DEF UnitsOf
<1> HIDE DEF c, d, k
<1>5. /\ ToUnits(c, k) \in Arrays /\ Len(ToUnits(c, k)) = k
      /\ Value(ToUnits(c, k)) = c % powers[DPUN * k]
  BY <1>1, <1>3, ToUnitsIs
<1>6. k >= 1
  <2>1. DPUN * 0 = 0
    BY UnitBase
  <2> QED
    BY <1>2, <1>3, <2>1
<1>7. powers[d] <= powers[DPUN * k] /\ powers[DPUN * k] \in Nat \ {0} /\ powers[d] \in Nat
  <2>1. DPUN * k \in Nat
    BY <1>3, PowerOfBase
  <2> QED
    BY <1>2, <1>3, <2>1, PowersGrow, PowersFacts
<1>8. c % powers[DPUN * k] = c
  <2>1. PICK u \in Nat \ {0} : u = powers[DPUN * k]
    BY <1>7
  <2>2. c < u /\ c = 0 * u + c
    BY <1>1, <1>2, <1>7, <2>1
  <2>3. c % u = c
    BY <1>1, <2>2, QuotientIs
  <2> QED
    BY <2>1, <2>3
<1> QED
  BY <1>4, <1>5, <1>6, <1>8 DEF c, d, k

(***************************************************************************)
(* decUnitAddSub.                                                          *)
(***************************************************************************)

\* the reciprocals: the estimate is the quotient, or one too small
LEMMA EstimateIs ==
    ASSUME NEW u \in Nat, u < Base * Base + Base
    PROVE  /\ Estimate(u) \in Nat
           /\ Estimate(u) * Base <= u /\ u < (Estimate(u) + 2) * Base
<1>1. DPUN \in Nat \ {0} /\ Base \in Nat
  BY UnitBase
<1>2. powers[0] = 1 /\ \A k \in Nat : powers[k + 1] = 10 * powers[k]
  BY PowersFacts
<1>3. powers[1] = 10 /\ powers[2] = 100 /\ powers[3] = 1000 /\ powers[4] = 10000
  <2>1. powers[0 + 1] = 10 * powers[0] /\ powers[1 + 1] = 10 * powers[1]
        /\ powers[2 + 1] = 10 * powers[2] /\ powers[3 + 1] = 10 * powers[3]
    BY <1>2
  <2>2. 0 + 1 = 1 /\ 1 + 1 = 2 /\ 2 + 1 = 3 /\ 3 + 1 = 4
    OBVIOUS
  <2> QED
    BY <1>2, <2>1, <2>2
<1>4. CASE DPUN = 1
  <2>1. Estimate(u) = ((u \div 2) * 26215) \div 131072 /\ Base = 10 /\ u < 110
    BY <1>3, <1>4 DEF Estimate, Base
  <2> QED
    BY <2>1
<1>5. CASE DPUN = 2
  <2>1. Estimate(u) = ((u \div 4) * 5243) \div 131072 /\ Base = 100 /\ u < 10100
    BY <1>3, <1>5 DEF Estimate, Base
  <2> QED
    BY <2>1
<1>6. CASE DPUN = 3
  <2>1. Estimate(u) = ((u \div 8) * 16777) \div 2097152 /\ Base = 1000 /\ u < 1001000
    BY <1>3, <1>6 DEF Estimate, Base
  <2> QED
    BY <2>1
<1>7. CASE DPUN = 4
  <2>1. Estimate(u) = ((u \div 2048) * 53687) \div 262144 /\ Base = 10000 /\ u < 100010000
    BY <1>3, <1>7 DEF Estimate, Base
  <2> QED
    BY <2>1
<1>8. CASE DPUN \notin {1, 2, 3, 4}
  <2>1. Estimate(u) = u \div Base
    BY <1>8 DEF Estimate
  <2>2. /\ u \div Base \in Nat /\ u % Base \in Nat /\ u % Base < Base
        /\ u = (u \div Base) * Base + (u % Base)
    BY UnitBase, Euclid
  <2>3. PICK q \in Nat : q = u \div Base
    BY <2>2
  <2>4. (q + 2) * Base = q * Base + 2 * Base /\ q * Base \in Nat
    BY <1>1
  <2>5. q * Base <= u /\ u < q * Base + 2 * Base
    BY <1>1, <2>2, <2>3, <2>4
  <2> QED
    BY <2>1, <2>3, <2>4, <2>5
<1> QED
  BY <1>4, <1>5, <1>6, <1>7, <1>8

LEMMA CorrectedIs ==
    ASSUME NEW u \in Nat, u < Base * Base + Base
    PROVE  Corrected(u, Estimate(u)) = u \div Base
<1>1. Base \in Nat /\ Base > 1
  BY UnitBase
<1>2. /\ Estimate(u) \in Nat
      /\ Estimate(u) * Base <= u /\ u < (Estimate(u) + 2) * Base
  BY EstimateIs
<1>3. PICK e \in Nat : e = Estimate(u)
  BY <1>2
<1>4. e * Base <= u /\ u < (e + 2) * Base /\ Corrected(u, e) = Corrected(u, Estimate(u))
  BY <1>2, <1>3, Zenon
<1>5. e * Base \in Nat /\ (e + 2) * Base = e * Base + 2 * Base /\ (e + 1) * Base = e * Base + Base
  BY <1>1
<1>6. CASE u - e * Base < Base
  <2>1. u - e * Base \in Nat /\ u = e * Base + (u - e * Base)
    BY <1>1, <1>4, <1>5
  <2>2. u \div Base = e
    BY <1>1, <1>6, <2>1, QuotientIs
  <2> QED
    BY <1>4, <1>6, <2>2 DEF Corrected
<1>7. CASE ~(u - e * Base < Base)
  <2>1. /\ u - (e + 1) * Base \in Nat /\ u = (e + 1) * Base + (u - (e + 1) * Base)
        /\ u - (e + 1) * Base < Base /\ e + 1 \in Nat
    BY <1>1, <1>4, <1>5, <1>7
  <2>2. u \div Base = e + 1
    BY <1>1, <2>1, QuotientIs
  <2> QED
    BY <1>4, <1>7, <2>2 DEF Corrected
<1> QED
  BY <1>6, <1>7

\* how large a column may become
IsColumn(x) == x \in Int /\ -(Base * Base - Base) <= x /\ x < Base * Base

LEMMA SplitIs ==
    ASSUME NEW x, IsColumn(x)
    PROVE  /\ Split(x)[1] \in 0..(Base - 1)
           /\ Split(x)[2] \in (-(Base - 1))..(Base - 1)
           /\ Split(x)[1] + Split(x)[2] * Base = x
<1> DEFINE pos  == IF x < 0 THEN x + Base * Base ELSE x
           q    == pos \div Base
<1>1. Base \in Nat /\ Base > 1 /\ Base * Base \in Nat
  BY UnitBase
<1>2. x \in Int /\ -(Base * Base - Base) <= x /\ x < Base * Base
  BY DEF IsColumn
<1>3. pos \in Nat /\ pos < Base * Base /\ (x < 0 => pos >= Base)
  BY <1>1, <1>2
<1>4. Corrected(pos, Estimate(pos)) = q
  BY <1>1, <1>3, CorrectedIs
<1>5. Split(x) = IF x \in 0..(Base - 1) THEN <<x, 0>>
                 ELSE <<pos - q * Base, IF x < 0 THEN q - Base ELSE q>>
  BY <1>4 DEF Split
<1>6. q \in Nat /\ pos % Base \in Nat /\ pos % Base < Base /\ pos = q * Base + (pos % Base)
  <2> HIDE DEF pos
  <2>1. pos \in Nat /\ Base \in Nat \ {0}
    BY <1>1, <1>3
  <2> QED
    BY <2>1, Euclid
<1>7. CASE x \in 0..(Base - 1)
  <2>1. Split(x) = <<x, 0>>
    BY <1>5, <1>7
  <2> QED
    BY <1>1, <1>7, <2>1
<1>8. CASE x \notin 0..(Base - 1)
  <2> HIDE DEF q
  <2>1. q * Base \in Nat /\ pos - q * Base \in 0..(Base - 1)
    BY <1>1, <1>3, <1>6
  <2>2. q < Base
    <3>1. q >= Base => Base * Base <= q * Base
      BY <1>1, <1>6, MulGrows
    <3> QED
      BY <1>1, <1>3, <1>6, <2>1, <3>1
  <2>3. x < 0 => q >= 1
    <3>1. q = 0 => q * Base = 0
      BY <1>1
    <3> QED
      BY <1>1, <1>3, <1>6, <2>1, <3>1
  <2>4. Split(x) = <<pos - q * Base, IF x < 0 THEN q - Base ELSE q>>
    BY <1>5, <1>8
  <2>5. (q - Base) * Base = q * Base - Base * Base
    BY <1>1, <1>6
  <2>6. CASE x < 0
    <3>1. Split(x)[1] = pos - q * Base /\ Split(x)[2] = q - Base
      BY <2>4, <2>6
    <3> QED
      BY <1>1, <1>2, <1>6, <2>1, <2>2, <2>3, <2>5, <2>6, <3>1
  <2>7. CASE ~(x < 0)
    <3>1. Split(x)[1] = pos - q * Base /\ Split(x)[2] = q
      BY <2>4, <2>7
    <3> QED
      BY <1>1, <1>2, <1>6, <2>1, <2>2, <2>7, <3>1
  <2> QED
    BY <2>6, <2>7
<1> QED
  BY <1>7, <1>8

\* what a column takes: two Units, one of them multiplied, and a carry
LEMMA ColumnIs ==
    ASSUME NEW c \in (-(Base - 1))..(Base - 1), NEW x \in 0..(Base - 1),
           NEW y \in 0..(Base - 1), NEW m \in (-(Base - 1))..(Base - 1)
    PROVE  IsColumn(c + x + y * m)
<1>1. PICK b \in Nat : b = Base - 1 /\ Base = b + 1
  BY UnitBase
<1>2. Base * Base = b * b + 2 * b + 1 /\ b * b \in Nat
  BY <1>1
<1>3. y \in 0..b /\ m \in (-b)..b /\ c \in (-b)..b /\ x \in 0..b
  BY <1>1
<1>4. y * m \in Int /\ -(b * b) <= y * m /\ y * m <= b * b
  <2>1. y * m <= b * b
    BY <1>3, <1>1
  <2>2. -(b * b) <= y * m
    BY <1>3, <1>1
  <2> QED
    BY <1>3, <2>1, <2>2
<1> QED
  BY <1>1, <1>2, <1>3, <1>4 DEF IsColumn

(***************************************************************************)
(* The columns, from the lowest one up: what stands in the Units written   *)
(* and the carry together are the sum so far.                              *)
(***************************************************************************)
High(a, b, bshift) == IF Len(a) > Len(b) + bshift THEN Len(a) ELSE Len(b) + bshift

IsColumns(f, a, b, bshift, m) ==
    f = [k \in 0..High(a, b, bshift) |->
            IF k = 0 THEN <<0, 0>>
            ELSE Split(f[k - 1][2] + UnitAt(a, k) + UnitAt(b, k - bshift) * m)]

IsMultiplier(m) == m \in (-(Base - 1))..(Base - 1)

\* f are the columns, each a Unit and a carry
HoldColumns(f, a, b, bshift, m) ==
    /\ f[0] = <<0, 0>>
    /\ \A k \in 0..High(a, b, bshift) :
           /\ f[k][1] \in 0..(Base - 1)
           /\ f[k][2] \in (-(Base - 1))..(Base - 1)
    /\ \A k \in 1..High(a, b, bshift) :
           f[k][1] + f[k][2] * Base = f[k - 1][2] + UnitAt(a, k) + UnitAt(b, k - bshift) * m

LEMMA HighIs ==
    ASSUME NEW a \in Arrays, NEW b \in Arrays, NEW bshift \in Nat
    PROVE  /\ High(a, b, bshift) \in Nat /\ Len(a) <= High(a, b, bshift)
           /\ Len(b) + bshift <= High(a, b, bshift)
BY ArrayFacts DEF High

LEMMA ColumnsExist ==
    ASSUME NEW a \in Arrays, NEW b \in Arrays, NEW bshift \in Nat, NEW m, IsMultiplier(m)
    PROVE  \E f : IsColumns(f, a, b, bshift, m) /\ HoldColumns(f, a, b, bshift, m)
<1> DEFINE n == High(a, b, bshift)
           U == 0..(Base - 1)
           C == (-(Base - 1))..(Base - 1)
           S == U \X C
           sum(k, c) == c + UnitAt(a, k) + UnitAt(b, k - bshift) * m
           step == [k \in Nat |-> [x \in S |-> Split(sum(k + 1, x[2]))]]
<1>1. n \in Nat
  BY HighIs
<1>2. \A k \in Int : UnitAt(a, k) \in U /\ UnitAt(b, k - bshift) \in U
  <2> SUFFICES ASSUME NEW k \in Int PROVE UnitAt(a, k) \in U /\ UnitAt(b, k - bshift) \in U
    OBVIOUS
  <2>1. k - bshift \in Int
    OBVIOUS
  <2> QED
    BY <2>1, UnitAtIs
<1>3. \A k \in Int : \A c \in C : IsColumn(sum(k, c))
  BY <1>2, ColumnIs DEF IsMultiplier
<1>4. \A k \in Int : \A c \in C :
          LET x == Split(sum(k, c))
          IN  /\ x[1] \in U /\ x[2] \in C /\ x[1] + x[2] * Base = sum(k, c)
              /\ x = <<x[1], x[2]>>
  <2> SUFFICES ASSUME NEW k \in Int, NEW c \in C
               PROVE  LET x == Split(sum(k, c))
                      IN  /\ x[1] \in U /\ x[2] \in C /\ x[1] + x[2] * Base = sum(k, c)
                          /\ x = <<x[1], x[2]>>
    OBVIOUS
  <2>1. IsColumn(sum(k, c))
    BY <1>3
  <2> HIDE DEF sum
  <2>2. Split(sum(k, c)) = <<Split(sum(k, c))[1], Split(sum(k, c))[2]>>
    BY DEF Split
  <2> QED
    BY <2>1, <2>2, SplitIs
<1> HIDE DEF sum
<1>5. \A k \in Nat : \A x \in S : step[k][x] \in S
  <2> SUFFICES ASSUME NEW k \in Nat, NEW x \in S PROVE step[k][x] \in S
    OBVIOUS
  <2>1. x[2] \in C /\ k + 1 \in Int
    OBVIOUS
  <2>2. step[k][x] = Split(sum(k + 1, x[2]))
    OBVIOUS
  <2> HIDE DEF step, U, C
  <2> QED
    BY <1>4, <2>1, <2>2
<1>6. <<0, 0>> \in S
  BY UnitBase
<1>7. \A k \in Nat : \A x \in S : step[k][x] = Split(sum(k + 1, x[2]))
  OBVIOUS
<1> HIDE DEF step, S
<1>8. PICK f : IsStart(f, n, S, <<0, 0>>, step)
  BY <1>1, <1>5, <1>6, StartExists
<1>9. f \in [0..n -> S] /\ f[0] = <<0, 0>>
  BY <1>8 DEF IsStart
<1>10. ASSUME NEW k \in 1..n PROVE f[k] = Split(sum(k, f[k - 1][2])) /\ k - 1 \in 0..n
  <2>1. k - 1 \in 0..n /\ k - 1 \in Nat /\ (k - 1) + 1 = k
    BY <1>1
  <2>2. f[k] = step[k - 1][f[k - 1]]
    BY <1>8 DEF IsStart
  <2>3. step[k - 1][f[k - 1]] = Split(sum((k - 1) + 1, f[k - 1][2]))
    BY <1>7, <1>9, <2>1
  <2> QED
    BY <2>1, <2>2, <2>3
<1>11. \A k \in 0..n : f[k][1] \in U /\ f[k][2] \in C
  BY <1>9 DEF S
<1>12. IsColumns(f, a, b, bshift, m)
  <2>1. \A k \in 0..n : f[k] = IF k = 0 THEN <<0, 0>> ELSE Split(sum(k, f[k - 1][2]))
    <3> SUFFICES ASSUME NEW k \in 0..n
                 PROVE  f[k] = IF k = 0 THEN <<0, 0>> ELSE Split(sum(k, f[k - 1][2]))
      OBVIOUS
    <3>1. k # 0 => k \in 1..n
      BY <1>1
    <3> QED
      BY <1>9, <1>10, <3>1
  <2>2. f = [k \in 0..n |-> f[k]]
    BY <1>9
  <2>3. f = [k \in 0..n |-> IF k = 0 THEN <<0, 0>> ELSE Split(sum(k, f[k - 1][2]))]
    BY <2>1, <2>2
  <2> QED
    BY <2>3 DEF IsColumns, sum
<1>13. HoldColumns(f, a, b, bshift, m)
  <2>1. \A k \in 1..n : f[k][1] + f[k][2] * Base = sum(k, f[k - 1][2])
    <3> SUFFICES ASSUME NEW k \in 1..n
                 PROVE  f[k][1] + f[k][2] * Base = sum(k, f[k - 1][2])
      OBVIOUS
    <3>1. k \in Int /\ f[k - 1][2] \in C
      BY <1>1, <1>10, <1>11
    <3> HIDE DEF C
    <3> QED
      BY <1>4, <1>10, <3>1
  <2> QED
    BY <1>9, <1>11, <2>1 DEF HoldColumns, sum
<1> QED
  BY <1>12, <1>13

\* two functions that recur alike agree
LEMMA ColumnsUnique ==
    ASSUME NEW a \in Arrays, NEW b \in Arrays, NEW bshift \in Nat, NEW m,
           NEW f, IsColumns(f, a, b, bshift, m), NEW g, IsColumns(g, a, b, bshift, m)
    PROVE  f = g
<1> DEFINE n == High(a, b, bshift)
           Good == {k \in 0..n : f[k] = g[k]}
<1>1. n \in Nat
  BY HighIs
<1>2. \A k \in 0..n : f[k] = IF k = 0 THEN <<0, 0>>
                ELSE Split(f[k - 1][2] + UnitAt(a, k) + UnitAt(b, k - bshift) * m)
  BY Zenon DEF IsColumns
<1>3. \A k \in 0..n : g[k] = IF k = 0 THEN <<0, 0>>
                ELSE Split(g[k - 1][2] + UnitAt(a, k) + UnitAt(b, k - bshift) * m)
  BY Zenon DEF IsColumns
<1>4. f = [k \in 0..n |-> f[k]] /\ g = [k \in 0..n |-> g[k]]
  BY DEF IsColumns
<1> HIDE DEF n
<1>5. 0 \in Good
  BY <1>1, <1>2, <1>3
<1>6. ASSUME NEW k \in 1..n, k - 1 \in Good PROVE k \in Good
  <2>1. k \in 0..n /\ k # 0 /\ f[k - 1] = g[k - 1]
    BY <1>1, <1>6
  <2>2. f[k] = g[k]
    BY <1>2, <1>3, <2>1, Zenon
  <2> QED
    BY <2>1, <2>2
<1> HIDE DEF Good
<1>7. \A k \in 0..n : k \in Good
  BY <1>1, <1>5, <1>6, Climb
<1>8. \A k \in 0..n : f[k] = g[k]
  BY <1>7 DEF Good
<1> QED
  BY <1>4, <1>8

\* b with bshift zero Units below it
Lifted(b, bshift, n) == [k \in 1..n |-> UnitAt(b, k - bshift)]

LEMMA LiftedIs ==
    ASSUME NEW b \in Arrays, b # <<>>, NEW bshift \in Nat, NEW n \in Nat,
           Len(b) + bshift <= n
    PROVE  /\ Lifted(b, bshift, n) \in Arrays
           /\ Worth(Base, Lifted(b, bshift, n))[n] = Value(b) * powers[DPUN * bshift]
<1> DEFINE t == Lifted(b, bshift, n)
           r == bshift + 1
           none == [k \in 1..n |-> 0]
<1>1. /\ Base \in Nat /\ Base > 1 /\ Len(b) \in Nat /\ Len(b) > 0 /\ NatItems(b)
      /\ DOMAIN b = 1..Len(b) /\ Value(b) = Worth(Base, b)[Len(b)] /\ Value(b) \in Nat
  <2>1. Len(b) > 0
    BY DEF Arrays
  <2> QED
    BY <2>1, UnitBase, ArrayFacts
<1>2. r \in 1..n /\ n - r + 1 = n - bshift /\ r - 1 = bshift /\ n - bshift \in Nat
      /\ Len(b) <= n - bshift
  BY <1>1
<1>3. \A k \in 1..n : UnitAt(b, k - bshift) = Item(b, k - bshift)
                      /\ UnitAt(b, k - bshift) \in 0..(Base - 1)
  BY UnitAtIs
<1>4. t \in Arrays /\ DOMAIN t = 1..n /\ \A k \in 1..n : t[k] = Item(b, k - bshift)
  <2>1. t \in [1..n -> 0..(Base - 1)] /\ \A k \in 1..n : t[k] = Item(b, k - bshift)
    BY <1>3 DEF Lifted
  <2> HIDE DEF t
  <2> QED
    BY <2>1, ArrayIs
<1>5. none \in Arrays /\ DOMAIN none = 1..n /\ \A k \in 1..n : none[k] = 0
  <2>1. none \in [1..n -> 0..(Base - 1)] /\ \A k \in 1..n : none[k] = 0
    BY <1>1
  <2> HIDE DEF none
  <2> QED
    BY <2>1, ArrayIs
<1>6. NatItems(t) /\ NatItems(none)
  BY <1>4, <1>5, ArrayFacts
<1>7. \A k \in 1..n : Item(t, k) = Item(b, k - bshift) /\ Item(none, k) = 0
  BY <1>4, <1>5 DEF Item
<1> HIDE DEF t, none
<1>8. \A k \in 1..n : k < r => Item(t, k) = Item(none, k)
  <2> SUFFICES ASSUME NEW k \in 1..n, k < r PROVE Item(t, k) = Item(none, k)
    OBVIOUS
  <2>1. k - bshift \notin DOMAIN b
    BY <1>1
  <2>2. Item(b, k - bshift) = 0
    BY <2>1 DEF Item
  <2> QED
    BY <1>7, <2>2
<1>9. \A k \in 1..n : k >= r => Item(t, k) = Item(none, k) + Item(b, k - r + 1) * 1
  <2> SUFFICES ASSUME NEW k \in 1..n, k >= r
               PROVE  Item(t, k) = Item(none, k) + Item(b, k - r + 1) * 1
    OBVIOUS
  <2>1. k - r + 1 = k - bshift /\ k - bshift \in Int
    OBVIOUS
  <2>2. Item(b, k - bshift) \in Nat
    BY <1>1, ArrayFacts DEF Item
  <2>3. Item(t, k) = Item(b, k - bshift) /\ Item(none, k) = 0
    BY <1>7
  <2> QED
    BY <2>1, <2>2, <2>3
<1>10. Worth(Base, t)[n] = Worth(Base, none)[n]
                               + Worth(Base, b)[n - r + 1] * (1 * Power(Base)[r - 1])
  <2>1. PICK d \in Nat : d = 1
    OBVIOUS
  <2>2. n \in Nat /\ Base \in Nat /\ Base > 1 /\ NatItems(none) /\ NatItems(t) /\ NatItems(b)
    BY <1>1, <1>6
  <2>3. PICK v \in 1..n : v = r
    BY <1>2
  <2> HIDE DEF r, Item, NatItems, Worth, Power
  <2>4. /\ \A k \in 1..n : k < v => Item(t, k) = Item(none, k)
        /\ \A k \in 1..n : k >= v => Item(t, k) = Item(none, k) + Item(b, k - v + 1) * d
    BY <1>8, <1>9, <2>1, <2>3, Zenon
  <2>5. Worth(Base, t)[n] = Worth(Base, none)[n]
                                + Worth(Base, b)[n - v + 1] * (d * Power(Base)[v - 1])
    BY ONLY <2>2, <2>4, v \in 1..n, d \in Nat, RowWorth, SMTT(30)
  <2> QED
    BY <2>1, <2>3, <2>5, Zenon
<1>11. Worth(Base, none)[n] = 0
  <2>1. \A k \in 1..n : Item(<<>>, k) = Item(none, k)
    BY <1>7 DEF Item
  <2>2. NatItems(<<>>) /\ \A k \in Nat : k > 0 => k \notin DOMAIN <<>>
    BY DEF NatItems
  <2>3. Worth(Base, <<>>)[n] = Worth(Base, <<>>)[0] /\ Worth(Base, <<>>)[0] = 0
    BY <1>1, <2>2, WorthAbove, WorthZero
  <2>4. Worth(Base, <<>>)[n] = Worth(Base, none)[n]
    BY <1>1, <1>6, <2>1, <2>2, SameWorth
  <2> QED
    BY <2>3, <2>4
<1>12. Worth(Base, b)[n - bshift] = Value(b)
  <2>1. \A k \in Nat : k > Len(b) => k \notin DOMAIN b
    BY <1>1
  <2> QED
    BY <1>1, <1>2, <2>1, WorthAbove
<1>13. Power(Base)[bshift] = powers[DPUN * bshift] /\ powers[DPUN * bshift] \in Nat
  BY PowerOfBase, PowersFacts
<1>14. PICK v \in Nat : v = Value(b)
  BY <1>1
<1>15. PICK p \in Nat : p = powers[DPUN * bshift]
  BY <1>13
<1>16. 0 + v * (1 * p) = v * p
  OBVIOUS
<1>17. Worth(Base, t)[n] = 0 + v * (1 * p)
  BY <1>2, <1>10, <1>11, <1>12, <1>13, <1>14, <1>15, Zenon
<1> QED
  BY <1>4, <1>14, <1>15, <1>16, <1>17 DEF t

\* a sum of products, put together in another way
LEMMA ColumnAdds ==
    ASSUME NEW u \in Int, NEW c \in Int, NEW d \in Int, NEW x \in Int, NEW y \in Int,
           NEW m \in Int, NEW p \in Int, NEW base \in Int,
           NEW wu \in Int, NEW wx \in Int, NEW wy \in Int,
           u + d * base = c + x + y * m,
           wu + c * p = wx + m * wy
    PROVE  (wu + u * p) + d * (base * p) = (wx + x * p) + m * (wy + y * p)
<1>1. (u + d * base) * p = (c + x + y * m) * p
  OBVIOUS
<1>2. (u + d * base) * p = u * p + d * (base * p)
  OBVIOUS
<1>3. (c + x + y * m) * p = c * p + x * p + m * (y * p)
  OBVIOUS
<1>4. m * (wy + y * p) = m * wy + m * (y * p)
  OBVIOUS
<1>5. /\ u * p \in Int /\ d * (base * p) \in Int /\ c * p \in Int /\ x * p \in Int
      /\ m * (y * p) \in Int /\ m * wy \in Int
  OBVIOUS
<1> QED
  BY <1>1, <1>2, <1>3, <1>4, <1>5

LEMMA ColumnsWorth ==
    ASSUME NEW a \in Arrays, NEW b \in Arrays, NEW bshift \in Nat, NEW m, IsMultiplier(m),
           NEW f, HoldColumns(f, a, b, bshift, m),
           NEW n, n = High(a, b, bshift),
           NEW u, u = [k \in 1..n |-> f[k][1]]
    PROVE  /\ u \in Arrays /\ Len(u) = n /\ f[n][2] \in (-(Base - 1))..(Base - 1)
           /\ Worth(Base, u)[n] + f[n][2] * Power(Base)[n]
                  = Worth(Base, a)[n] + m * Worth(Base, Lifted(b, bshift, n))[n]
<1> DEFINE t == Lifted(b, bshift, n)
           Good == {k \in 0..n : Worth(Base, u)[k] + f[k][2] * Power(Base)[k]
                                    = Worth(Base, a)[k] + m * Worth(Base, t)[k]}
<1>1. n \in Nat /\ Base \in Nat /\ Base > 1 /\ m \in Int
  BY HighIs, UnitBase DEF IsMultiplier
<1>2. /\ f[0] = <<0, 0>>
      /\ \A k \in 0..n : f[k][1] \in 0..(Base - 1) /\ f[k][2] \in (-(Base - 1))..(Base - 1)
      /\ \A k \in 1..n :
             f[k][1] + f[k][2] * Base = f[k - 1][2] + UnitAt(a, k) + UnitAt(b, k - bshift) * m
  BY DEF HoldColumns
<1>3. u \in Arrays /\ Len(u) = n /\ DOMAIN u = 1..n
  <2>1. \A k \in 1..n : k \in 0..n
    BY <1>1
  <2>2. u \in [1..n -> 0..(Base - 1)]
    BY <1>2, <2>1
  <2> QED
    BY <1>1, <2>2, ArrayIs
<1>4. t \in Arrays /\ DOMAIN t = 1..n
  <2>1. \A k \in 1..n : k - bshift \in Int
    OBVIOUS
  <2>2. \A k \in 1..n : UnitAt(b, k - bshift) \in 0..(Base - 1)
    BY <2>1, UnitAtIs
  <2>3. t \in [1..n -> 0..(Base - 1)]
    BY <2>2 DEF Lifted
  <2> HIDE DEF t
  <2> QED
    BY <1>1, <2>3, ArrayIs
<1>5. NatItems(u) /\ NatItems(t) /\ NatItems(a)
  BY <1>3, <1>4, ArrayFacts
<1>6. \A k \in 1..n : /\ Item(u, k) = f[k][1] /\ Item(a, k) = UnitAt(a, k)
                      /\ Item(t, k) = UnitAt(b, k - bshift)
  <2>1. \A k \in 1..n : Item(t, k) = UnitAt(b, k - bshift)
    BY <1>4 DEF Item, Lifted
  <2>2. \A k \in 1..n : Item(u, k) = f[k][1]
    BY <1>3 DEF Item
  <2>3. \A k \in 1..n : Item(a, k) = UnitAt(a, k)
    BY DEF Item, UnitAt
  <2> QED
    BY <2>1, <2>2, <2>3
<1> HIDE DEF t
<1>7. 0 \in Good
  <2>1. /\ Worth(Base, u)[0] = 0 /\ Worth(Base, a)[0] = 0 /\ Worth(Base, t)[0] = 0
        /\ Power(Base)[0] = 1 /\ f[0][2] = 0
    BY <1>1, <1>2, <1>5, WorthZero, PowerFacts
  <2> QED
    BY <1>1, <2>1
<1>8. ASSUME NEW k \in 1..n, k - 1 \in Good PROVE k \in Good
  <2>1. k \in Nat \ {0} /\ k - 1 \in Nat /\ k \in 0..n /\ k - 1 \in 0..n /\ (k - 1) + 1 = k
    BY <1>1
  <2>2. /\ Worth(Base, u)[k] = Worth(Base, u)[k - 1] + f[k][1] * Power(Base)[k - 1]
        /\ Worth(Base, a)[k] = Worth(Base, a)[k - 1] + UnitAt(a, k) * Power(Base)[k - 1]
        /\ Worth(Base, t)[k] = Worth(Base, t)[k - 1] + UnitAt(b, k - bshift) * Power(Base)[k - 1]
    <3>1. /\ Worth(Base, u)[k] = Worth(Base, u)[k - 1] + Item(u, k) * Power(Base)[k - 1]
          /\ Worth(Base, a)[k] = Worth(Base, a)[k - 1] + Item(a, k) * Power(Base)[k - 1]
          /\ Worth(Base, t)[k] = Worth(Base, t)[k - 1] + Item(t, k) * Power(Base)[k - 1]
      BY <1>1, <1>5, <2>1, WorthStep
    <3> QED
      BY <1>6, <3>1, Zenon
  <2>3. /\ Worth(Base, u)[k - 1] \in Nat /\ Worth(Base, a)[k - 1] \in Nat
        /\ Worth(Base, t)[k - 1] \in Nat /\ Power(Base)[k - 1] \in Nat
    BY <1>1, <1>5, <2>1, WorthStep
  <2>4. Power(Base)[k] = Base * Power(Base)[k - 1]
    <3>1. \A j \in Nat : Power(Base)[j + 1] = Base * Power(Base)[j]
      BY <1>1, PowerFacts
    <3> QED
      BY <2>1, <3>1, Zenon
  <2>5. Worth(Base, u)[k - 1] + f[k - 1][2] * Power(Base)[k - 1]
            = Worth(Base, a)[k - 1] + m * Worth(Base, t)[k - 1]
    BY <1>8
  <2>6. /\ f[k][1] \in Int /\ f[k][2] \in Int /\ f[k - 1][2] \in Int
        /\ UnitAt(a, k) \in Int /\ UnitAt(b, k - bshift) \in Int
    <3>1. k - bshift \in Int /\ k \in Int
      OBVIOUS
    <3>2. UnitAt(a, k) \in Int /\ UnitAt(b, k - bshift) \in Int
      BY <3>1, <1>1, UnitAtIs
    <3>3. /\ f[k][1] \in 0..(Base - 1) /\ f[k][2] \in (-(Base - 1))..(Base - 1)
          /\ f[k - 1][2] \in (-(Base - 1))..(Base - 1)
      BY <1>2, <2>1
    <3> QED
      BY <1>1, <3>2, <3>3
  <2>7. f[k][1] + f[k][2] * Base = f[k - 1][2] + UnitAt(a, k) + UnitAt(b, k - bshift) * m
    BY <1>2
  <2>8. PICK fu \in Int : fu = f[k][1]
    BY <2>6
  <2>9. PICK d \in Int : d = f[k][2]
    BY <2>6
  <2>10. PICK c \in Int : c = f[k - 1][2]
    BY <2>6
  <2>11. PICK x \in Int : x = UnitAt(a, k)
    BY <2>6
  <2>12. PICK y \in Int : y = UnitAt(b, k - bshift)
    BY <2>6
  <2>13. PICK p \in Int : p = Power(Base)[k - 1]
    BY <2>3
  <2>14. PICK wu \in Int : wu = Worth(Base, u)[k - 1]
    <3>1. Worth(Base, u)[k - 1] \in Int
      BY <2>3
    <3> QED
      BY <3>1, Zenon
  <2>15. PICK wx \in Int : wx = Worth(Base, a)[k - 1]
    BY <2>3
  <2>16. PICK wy \in Int : wy = Worth(Base, t)[k - 1]
    BY <2>3
  <2>17. fu + d * Base = c + x + y * m
    BY <2>7, <2>8, <2>9, <2>10, <2>11, <2>12, Zenon
  <2>18. wu + c * p = wx + m * wy
    BY <2>5, <2>10, <2>13, <2>14, <2>15, <2>16, Zenon
  <2>19. Base \in Int
    BY <1>1
  <2>20. (wu + fu * p) + d * (Base * p) = (wx + x * p) + m * (wy + y * p)
    BY <1>1, <2>17, <2>18, <2>19, ColumnAdds
  <2>21. /\ Worth(Base, u)[k] = wu + fu * p /\ Worth(Base, a)[k] = wx + x * p
         /\ Worth(Base, t)[k] = wy + y * p /\ Power(Base)[k] = Base * p
    BY <2>2, <2>4, <2>8, <2>11, <2>12, <2>13, <2>14, <2>15, <2>16, Zenon
  <2>22. Worth(Base, u)[k] + f[k][2] * Power(Base)[k]
             = Worth(Base, a)[k] + m * Worth(Base, t)[k]
    BY <2>9, <2>20, <2>21, Zenon
  <2> QED
    BY <2>1, <2>22
<1> HIDE DEF Good
<1>9. \A k \in 0..n : k \in Good
  BY <1>1, <1>7, <1>8, Climb
<1>10. n \in Good /\ n \in 0..n
  BY <1>1, <1>9
<1> QED
  BY <1>2, <1>3, <1>10 DEF Good, t

(***************************************************************************)
(* A negative sum is complemented.                                         *)
(***************************************************************************)
IsAdds(f, u) ==
    f = [k \in 0..Len(u) |-> IF k = 0 THEN 1
                             ELSE IF Base - 1 + f[k - 1] - u[k] < Base THEN 0 ELSE 1]

LEMMA AddsExist ==
    ASSUME NEW u \in Arrays
    PROVE  \E f : IsAdds(f, u) /\ f \in [0..Len(u) -> {0, 1}]
<1> DEFINE n == Len(u)
           S == {0, 1}
           add(k, x) == IF Base - 1 + x - u[k] < Base THEN 0 ELSE 1
           step == [k \in Nat |-> [x \in S |-> add(k + 1, x)]]
<1>1. n \in Nat
  BY ArrayFacts
<1>2. \A k : \A x \in S : add(k, x) \in S
  OBVIOUS
<1> HIDE DEF add
<1>3. \A k \in Nat : \A x \in S : step[k][x] = add(k + 1, x)
  OBVIOUS
<1> HIDE DEF step
<1>4. 1 \in S /\ \A k \in Nat : \A x \in S : step[k][x] \in S
  BY <1>2, <1>3
<1> HIDE DEF S, n
<1>5. PICK f : IsStart(f, n, S, 1, step)
  BY <1>1, <1>4, StartExists
<1>6. f \in [0..n -> S] /\ f[0] = 1
  BY <1>5 DEF IsStart
<1>7. \A k \in 0..n : f[k] = IF k = 0 THEN 1 ELSE add(k, f[k - 1])
  <2> SUFFICES ASSUME NEW k \in 0..n PROVE f[k] = IF k = 0 THEN 1 ELSE add(k, f[k - 1])
    OBVIOUS
  <2>1. CASE k = 0
    BY <1>6, <2>1
  <2>2. CASE k # 0
    <3>1. k \in 1..n /\ k - 1 \in 0..n /\ k - 1 \in Nat /\ (k - 1) + 1 = k
      BY <1>1, <2>2
    <3>2. f[k] = step[k - 1][f[k - 1]]
      BY <1>5, <3>1 DEF IsStart
    <3>3. step[k - 1][f[k - 1]] = add((k - 1) + 1, f[k - 1])
      BY <1>3, <1>6, <3>1
    <3> QED
      BY <2>2, <3>1, <3>2, <3>3
  <2> QED
    BY <2>1, <2>2
<1>8. f = [k \in 0..n |-> f[k]]
  BY <1>6
<1>9. f = [k \in 0..n |-> IF k = 0 THEN 1 ELSE add(k, f[k - 1])]
  BY <1>7, <1>8
<1>10. IsAdds(f, u)
  BY <1>9 DEF IsAdds, add, n
<1> QED
  BY <1>6, <1>10 DEF S, n

LEMMA AddsUnique ==
    ASSUME NEW u \in Arrays, NEW f, IsAdds(f, u), NEW g, IsAdds(g, u)
    PROVE  f = g
<1> DEFINE n == Len(u)
           Good == {k \in 0..n : f[k] = g[k]}
<1>1. n \in Nat
  BY ArrayFacts
<1>2. \A k \in 0..n : f[k] = IF k = 0 THEN 1
                             ELSE IF Base - 1 + f[k - 1] - u[k] < Base THEN 0 ELSE 1
  BY Zenon DEF IsAdds
<1>3. \A k \in 0..n : g[k] = IF k = 0 THEN 1
                             ELSE IF Base - 1 + g[k - 1] - u[k] < Base THEN 0 ELSE 1
  BY Zenon DEF IsAdds
<1>4. f = [k \in 0..n |-> f[k]] /\ g = [k \in 0..n |-> g[k]]
  BY DEF IsAdds
<1> HIDE DEF n
<1>5. 0 \in Good
  BY <1>1, <1>2, <1>3
<1>6. ASSUME NEW k \in 1..n, k - 1 \in Good PROVE k \in Good
  <2>1. k \in 0..n /\ k # 0 /\ f[k - 1] = g[k - 1]
    BY <1>1, <1>6
  <2>2. f[k] = g[k]
    BY <1>2, <1>3, <2>1, Zenon
  <2> QED
    BY <2>1, <2>2
<1> HIDE DEF Good
<1>7. \A k \in 0..n : k \in Good
  BY <1>1, <1>5, <1>6, Climb
<1>8. \A k \in 0..n : f[k] = g[k]
  BY <1>7 DEF Good
<1> QED
  BY <1>4, <1>8

\* what the Units and their complement come to
LEMMA ComplementAdds ==
    ASSUME NEW u \in Int, NEW v \in Int, NEW x \in Int, NEW y \in Int,
           NEW p \in Int, NEW base \in Int, NEW wu \in Int, NEW wv \in Int,
           v + u + y * base = base - 1 + x,
           wv + x * p + wu = p
    PROVE  (wv + v * p) + y * (base * p) + (wu + u * p) = base * p
<1>1. (v + u + y * base) * p = (base - 1 + x) * p
  OBVIOUS
<1>2. (v + u + y * base) * p = v * p + u * p + y * (base * p)
  OBVIOUS
<1>3. (base - 1 + x) * p = base * p - p + x * p
  OBVIOUS
<1>4. /\ v * p \in Int /\ u * p \in Int /\ y * (base * p) \in Int /\ base * p \in Int
      /\ x * p \in Int
  OBVIOUS
<1> QED
  BY <1>1, <1>2, <1>3, <1>4

LEMMA ComplementIs ==
    ASSUME NEW u \in Arrays
    PROVE  /\ Complement(u).units \in Arrays /\ Len(Complement(u).units) = Len(u)
           /\ Complement(u).add \in {0, 1}
           /\ Value(Complement(u).units) + Complement(u).add * powers[DPUN * Len(u)] + Value(u)
                  = powers[DPUN * Len(u)]
<1> DEFINE n == Len(u)
           c == Complement(u)
<1>1. PICK f : IsAdds(f, u) /\ f \in [0..n -> {0, 1}]
  BY AddsExist
<1>2. (CHOOSE g : IsAdds(g, u)) = f
  BY <1>1, AddsUnique
<1> DEFINE unit(k) == Base - 1 + f[k - 1] - u[k]
<1>3. /\ c.units = [k \in 1..n |-> IF unit(k) < Base THEN unit(k) ELSE 0]
      /\ c.add = f[n]
  <2> DEFINE h == CHOOSE g : IsAdds(g, u)
  <2>1. c = [units |-> [k \in 1..n |-> IF Base - 1 + h[k - 1] - u[k] < Base
                                       THEN Base - 1 + h[k - 1] - u[k] ELSE 0],
             add |-> h[n]]
    BY Zenon DEF Complement, IsAdds
  <2>2. h = f
    BY <1>2
  <2> HIDE DEF h, c
  <2>3. c = [units |-> [k \in 1..n |-> IF unit(k) < Base THEN unit(k) ELSE 0], add |-> f[n]]
    BY <2>1, <2>2
  <2> HIDE DEF unit
  <2> QED
    BY <2>3
<1>4. /\ n \in Nat /\ NatItems(u) /\ DOMAIN u = 1..n /\ Value(u) = Worth(Base, u)[n]
      /\ Base \in Nat /\ Base > 1
      /\ \A k \in 1..n : u[k] \in Nat /\ u[k] <= Base - 1
  BY ArrayFacts, UnitBase
<1>5. \A k \in 0..n : f[k] = IF k = 0 THEN 1
                             ELSE IF Base - 1 + f[k - 1] - u[k] < Base THEN 0 ELSE 1
  BY <1>1, Zenon DEF IsAdds
<1> DEFINE v == c.units
<1> HIDE DEF c, n
<1>6. ASSUME NEW k \in 1..n
      PROVE  /\ v[k] \in 0..(Base - 1) /\ f[k] \in Int /\ f[k - 1] \in Int /\ u[k] \in Int
             /\ v[k] + u[k] + f[k] * Base = Base - 1 + f[k - 1]
  <2>1. k \in 0..n /\ k - 1 \in 0..n /\ k # 0
    BY <1>4
  <2>2. f[k - 1] \in {0, 1} /\ u[k] \in Nat /\ u[k] <= Base - 1
    BY <1>1, <1>4, <2>1
  <2>3. v[k] = IF unit(k) < Base THEN unit(k) ELSE 0
    BY <1>3, Zenon
  <2>4. f[k] = IF unit(k) < Base THEN 0 ELSE 1
    BY <1>5, <2>1, Zenon
  <2>5. CASE unit(k) < Base
    <3>1. v[k] = unit(k) /\ f[k] = 0
      BY <2>3, <2>4, <2>5
    <3>2. PICK x \in {0, 1} : x = f[k - 1]
      BY <2>2
    <3>3. PICK y \in Nat : y = u[k]
      BY <2>2
    <3>4. unit(k) = Base - 1 + x - y /\ y <= Base - 1
      BY <2>2, <3>2, <3>3
    <3>5. unit(k) \in 0..(Base - 1) /\ unit(k) + y = Base - 1 + x
      BY <1>4, <2>5, <3>4
    <3> HIDE DEF v, unit
    <3>6. 0 * Base = 0
      BY <1>4
    <3> QED
      BY <1>4, <2>2, <3>1, <3>2, <3>3, <3>5, <3>6
  <2>6. CASE ~(unit(k) < Base)
    <3>1. v[k] = 0 /\ f[k] = 1
      BY <2>3, <2>4, <2>6
    <3> QED
      BY <1>4, <2>2, <2>6, <3>1
  <2> QED
    BY <2>5, <2>6
<1>7. v \in Arrays /\ Len(v) = n /\ DOMAIN v = 1..n
  <2>1. v \in [1..n -> 0..(Base - 1)]
    <3>1. DOMAIN v = 1..n /\ v = [k \in 1..n |-> v[k]]
      BY <1>3
    <3> HIDE DEF v
    <3> QED
      BY <1>6, <3>1
  <2> HIDE DEF v
  <2> QED
    BY <1>4, <2>1, ArrayIs
<1>8. NatItems(v) /\ Value(v) = Worth(Base, v)[n]
  BY <1>7, ArrayFacts
<1> HIDE DEF v, unit
<1> DEFINE Good == {k \in 0..n : Worth(Base, v)[k] + f[k] * Power(Base)[k] + Worth(Base, u)[k]
                                    = Power(Base)[k]}
<1>9. 0 \in Good
  <2>1. /\ Worth(Base, v)[0] = 0 /\ Worth(Base, u)[0] = 0 /\ Power(Base)[0] = 1
        /\ 0 \in 0..n
    BY <1>4, <1>8, WorthZero, PowerFacts
  <2>2. f[0] = 1
    BY <1>5, <2>1
  <2> QED
    BY <2>1, <2>2
<1>10. ASSUME NEW k \in 1..n, k - 1 \in Good PROVE k \in Good
  <2>1. k \in Nat \ {0} /\ k - 1 \in Nat /\ k \in 0..n /\ (k - 1) + 1 = k
    BY <1>4
  <2>2. /\ Worth(Base, v)[k] = Worth(Base, v)[k - 1] + v[k] * Power(Base)[k - 1]
        /\ Worth(Base, u)[k] = Worth(Base, u)[k - 1] + u[k] * Power(Base)[k - 1]
        /\ Worth(Base, v)[k - 1] \in Nat /\ Worth(Base, u)[k - 1] \in Nat
        /\ Power(Base)[k - 1] \in Nat
    <3>1. Item(v, k) = v[k] /\ Item(u, k) = u[k]
      BY <1>4, <1>7 DEF Item
    <3>2. /\ Worth(Base, v)[k] = Worth(Base, v)[k - 1] + Item(v, k) * Power(Base)[k - 1]
          /\ Worth(Base, u)[k] = Worth(Base, u)[k - 1] + Item(u, k) * Power(Base)[k - 1]
          /\ Worth(Base, v)[k - 1] \in Nat /\ Worth(Base, u)[k - 1] \in Nat
          /\ Power(Base)[k - 1] \in Nat
      BY <1>4, <1>8, <2>1, WorthStep
    <3> QED
      BY <3>1, <3>2, Zenon
  <2>3. Power(Base)[k] = Base * Power(Base)[k - 1]
    <3>1. \A j \in Nat : Power(Base)[j + 1] = Base * Power(Base)[j]
      BY <1>4, PowerFacts
    <3> QED
      BY <2>1, <3>1, Zenon
  <2>4. Worth(Base, v)[k - 1] + f[k - 1] * Power(Base)[k - 1] + Worth(Base, u)[k - 1]
            = Power(Base)[k - 1]
    BY <1>10
  <2>5. v[k] \in Int /\ Base \in Int
    BY <1>4, <1>6
  <2>6. PICK vk \in Int : vk = v[k]
    BY <2>5, Zenon
  <2>7. PICK uk \in Int : uk = u[k]
    BY <1>6, Zenon
  <2>8. PICK x \in Int : x = f[k - 1]
    BY <1>6, Zenon
  <2>9. PICK y \in Int : y = f[k]
    BY <1>6, Zenon
  <2>10. Nat \subseteq Int
    OBVIOUS
  <2>11. PICK p \in Int : p = Power(Base)[k - 1]
    BY <2>2, <2>10, Zenon
  <2>12. PICK wv \in Int : wv = Worth(Base, v)[k - 1]
    BY <2>2, <2>10, Zenon
  <2>13. PICK wu \in Int : wu = Worth(Base, u)[k - 1]
    BY <2>2, <2>10, Zenon
  <2>14. vk + uk + y * Base = Base - 1 + x
    BY <1>6, <2>6, <2>7, <2>8, <2>9, Zenon
  <2>15. wv + x * p + wu = p
    BY <2>4, <2>8, <2>11, <2>12, <2>13, Zenon
  <2>16. (wv + vk * p) + y * (Base * p) + (wu + uk * p) = Base * p
    BY <2>5, <2>14, <2>15, ComplementAdds
  <2>17. /\ Worth(Base, v)[k] = wv + vk * p /\ Worth(Base, u)[k] = wu + uk * p
         /\ Power(Base)[k] = Base * p
    BY <2>2, <2>3, <2>6, <2>7, <2>11, <2>12, <2>13, Zenon
  <2>18. Worth(Base, v)[k] + f[k] * Power(Base)[k] + Worth(Base, u)[k] = Power(Base)[k]
    BY <2>9, <2>16, <2>17, Zenon
  <2> QED
    BY <2>1, <2>18
<1> HIDE DEF Good
<1>11. \A k \in 0..n : k \in Good
  BY <1>4, <1>9, <1>10, Climb
<1>12. n \in Good /\ n \in 0..n
  BY <1>4, <1>11
<1>13. Worth(Base, v)[n] + f[n] * Power(Base)[n] + Worth(Base, u)[n] = Power(Base)[n]
  BY <1>12 DEF Good
<1>14. Power(Base)[n] = powers[DPUN * n]
  BY <1>4, PowerOfBase
<1>15. Value(v) + c.add * powers[DPUN * n] + Value(u) = powers[DPUN * n]
  BY <1>3, <1>4, <1>8, <1>13, <1>14, Zenon
<1>16. c.add \in {0, 1}
  BY <1>1, <1>3, <1>12
<1> QED
  BY <1>7, <1>15, <1>16 DEF c, v, n

LEMMA ColumnsAre ==
    ASSUME NEW a \in Arrays, NEW b \in Arrays, b # <<>>, NEW bshift \in Nat,
           NEW m, IsMultiplier(m)
    PROVE  LET sum == Columns(a, b, bshift, m)
               n   == Len(sum.units)
           IN  /\ sum.units \in Arrays /\ n \in Nat
               /\ Len(a) <= n /\ Len(b) + bshift <= n
               /\ sum.carry \in (-(Base - 1))..(Base - 1)
               /\ Value(sum.units) + sum.carry * powers[DPUN * n]
                      = Value(a) + m * (Value(b) * powers[DPUN * bshift])
<1> DEFINE sum == Columns(a, b, bshift, m)
           n   == High(a, b, bshift)
<1>1. PICK f : IsColumns(f, a, b, bshift, m) /\ HoldColumns(f, a, b, bshift, m)
  BY ColumnsExist
<1> DEFINE h == CHOOSE g : IsColumns(g, a, b, bshift, m)
<1>2. h = f
  BY <1>1, ColumnsUnique
<1>3. sum = [units |-> [k \in 1..n |-> h[k][1]], carry |-> h[n][2]]
  BY Zenon DEF Columns, IsColumns, High
<1> DEFINE u == [k \in 1..n |-> f[k][1]]
<1>4. sum.units = u /\ sum.carry = f[n][2]
  <2> HIDE DEF sum, h, n
  <2>1. sum = [units |-> u, carry |-> f[n][2]]
    BY <1>2, <1>3
  <2> HIDE DEF u
  <2> QED
    BY <2>1
<1>5. /\ n \in Nat /\ Len(a) <= n /\ Len(b) + bshift <= n
  BY HighIs
<1> HIDE DEF sum, n, u
<1>6. /\ u \in Arrays /\ Len(u) = n /\ f[n][2] \in (-(Base - 1))..(Base - 1)
      /\ Worth(Base, u)[n] + f[n][2] * Power(Base)[n]
             = Worth(Base, a)[n] + m * Worth(Base, Lifted(b, bshift, n))[n]
  <2>1. n = High(a, b, bshift) /\ u = [k \in 1..n |-> f[k][1]]
    BY DEF n, u
  <2> QED
    BY <1>1, <2>1, ColumnsWorth
<1>7. Worth(Base, Lifted(b, bshift, n))[n] = Value(b) * powers[DPUN * bshift]
  BY <1>5, LiftedIs
<1>8. Worth(Base, a)[n] = Value(a)
  <2>1. /\ NatItems(a) /\ Len(a) \in Nat /\ Value(a) = Worth(Base, a)[Len(a)]
        /\ \A k \in Nat : k > Len(a) => k \notin DOMAIN a
    BY ArrayFacts
  <2> QED
    BY <1>5, <2>1, UnitBase, WorthAbove
<1>9. Worth(Base, u)[n] = Value(u)
  BY <1>6, ArrayFacts
<1>10. Power(Base)[n] = powers[DPUN * n]
  BY <1>5, PowerOfBase
<1>11. Value(u) + f[n][2] * powers[DPUN * n] = Value(a) + m * (Value(b) * powers[DPUN * bshift])
  BY <1>6, <1>7, <1>8, <1>9, <1>10, Zenon
<1> QED
  BY <1>4, <1>5, <1>6, <1>11 DEF sum

\* what a sum with a carry stands for, as a number with a sign
SignedAs(r, x) == x = IF r.neg THEN -Value(r.units) ELSE Value(r.units)

LEMMA SettleIs ==
    ASSUME NEW sum, sum.units \in Arrays,
           sum.carry \in (-(Base - 1))..(Base - 1)
    PROVE  LET r == Settle(sum)
           IN  /\ r.units \in Arrays /\ r.neg \in BOOLEAN
               /\ Len(r.units) >= Len(sum.units)
               /\ r.neg => Value(r.units) > 0
               /\ SignedAs(r, Value(sum.units) + sum.carry * powers[DPUN * Len(sum.units)])
<1> DEFINE u == sum.units
           c == sum.carry
           n == Len(u)
           p == powers[DPUN * n]
           r == Settle(sum)
<1>1. /\ u \in Arrays /\ n \in Nat /\ Value(u) \in Nat /\ Value(u) < p
      /\ Base \in Nat /\ Base > 1
  BY ArrayFacts, UnitBase
<1>2. p \in Nat
  BY <1>1, PowerOfBase, PowersFacts
<1>3. c \in (-(Base - 1))..(Base - 1)
  OBVIOUS
<1> HIDE DEF p, n
<1>4. CASE c = 0
  <2>1. r = [units |-> u, neg |-> FALSE]
    BY <1>4 DEF Settle
  <2>2. Value(u) + c * p = Value(u)
    BY <1>1, <1>2, <1>4
  <2> HIDE DEF r, u, c
  <2>3. r.units = u /\ r.neg = FALSE
    BY <2>1
  <2>4. SignedAs(r, Value(u) + c * p)
    BY <2>2, <2>3 DEF SignedAs
  <2>5. r.units \in Arrays /\ r.neg = FALSE /\ Len(r.units) >= n
    <3>1. Len(r.units) = n
      BY <2>3 DEF n
    <3> QED
      BY <1>1, <2>3, <3>1
  <2> QED
    BY <2>4, <2>5 DEF r, u, c, p, n
<1>5. CASE c > 0
  <2>1. r = [units |-> Append(u, c), neg |-> FALSE]
    BY <1>1, <1>3, <1>5 DEF Settle
  <2>2. c \in 0..(Base - 1)
    BY <1>1, <1>3, <1>5
  <2>3. Append(u, c) \in Arrays /\ Value(Append(u, c)) = Value(u) + p * c
    BY <1>1, <2>2, ValueAppend DEF p, n
  <2>4. Len(Append(u, c)) = n + 1
    BY <1>1 DEF Arrays, n
  <2>5. Value(u) + c * p = Value(u) + p * c
    BY <1>1, <1>2, <1>3
  <2> HIDE DEF r, u, c
  <2>6. r.units = Append(u, c) /\ r.neg = FALSE
    BY <2>1
  <2>7. SignedAs(r, Value(u) + c * p)
    BY <2>3, <2>5, <2>6 DEF SignedAs
  <2>8. Len(r.units) >= n
    BY <1>1, <2>4, <2>6
  <2> QED
    BY <2>3, <2>6, <2>7, <2>8 DEF r, u, c, p, n
<1>6. CASE c < 0
  <2> DEFINE k   == Complement(u)
             top == k.add - c - 1
             v   == k.units
  <2>1. /\ v \in Arrays /\ Len(v) = n /\ k.add \in {0, 1}
        /\ Value(v) + k.add * p + Value(u) = p
    BY <1>1, ComplementIs DEF p, n
  <2>2. r = [units |-> IF top # 0 THEN Append(v, top) ELSE v, neg |-> TRUE]
    BY <1>1, <1>3, <1>6 DEF Settle, Complemented
  <2>3. top \in 0..(Base - 1)
    <3> HIDE DEF k
    <3> QED
      BY <1>1, <1>3, <1>6, <2>1
  <2>4. PICK x \in {0, 1} : x = k.add
    BY <2>1
  <2>5. Value(v) \in Nat
    BY <2>1, ArrayFacts
  <2> HIDE DEF k, v, u, c, r
  <2>6. top = x - c - 1
    BY <2>4
  <2> HIDE DEF top
  <2>7. Value(v) + p * top = -(Value(u) + c * p)
    <3>1. Value(v) + x * p + Value(u) = p
      BY <2>1, <2>4, Zenon
    <3>2. p * top = x * p - c * p - p
      <4>1. p * (x - c - 1) = x * p - c * p - p
        BY <1>2, <1>3
      <4> QED
        BY <2>6, <4>1
    <3>3. x * p \in Int /\ c * p \in Int
      BY <1>2, <1>3
    <3> QED
      BY <1>1, <1>2, <2>5, <3>1, <3>2, <3>3
  <2>8. r.units = (IF top # 0 THEN Append(v, top) ELSE v) /\ r.neg = TRUE
    BY <2>2
  <2>9. /\ r.units \in Arrays /\ Value(r.units) = Value(v) + p * top
        /\ Len(r.units) >= n
    <3>1. CASE top # 0
      <4>1. /\ Append(v, top) \in Arrays
            /\ Value(Append(v, top)) = Value(v) + powers[DPUN * Len(v)] * top
        BY <2>1, <2>3, ValueAppend
      <4>2. Len(Append(v, top)) = n + 1
        BY <2>1 DEF Arrays
      <4>3. r.units = Append(v, top) /\ powers[DPUN * Len(v)] = p
        BY <2>1, <2>8, <3>1 DEF p
      <4>4. Len(r.units) >= n
        BY <1>1, <4>2, <4>3
      <4> QED
        BY <4>1, <4>3, <4>4, Zenon
    <3>2. CASE top = 0
      <4>1. p * top = 0
        BY <1>2, <3>2
      <4>2. r.units = v
        BY <2>8, <3>2
      <4> QED
        BY <1>1, <2>1, <2>5, <4>1, <4>2
    <3> QED
      BY <3>1, <3>2
  <2>10. Value(u) + c * p < 0 /\ Value(u) + c * p \in Int
    <3>1. c * p <= -p /\ c * p \in Int
      <4>1. (-c) * p >= p /\ (-c) * p = -(c * p) /\ c * p \in Int
        <5>1. PICK d \in Nat \ {0} : d = -c
          BY <1>1, <1>3, <1>6
        <5>2. 1 * p <= d * p /\ 1 * p = p
          BY <1>2, <5>1
        <5>3. (-c) * p = -(c * p) /\ c * p \in Int
          BY <1>2, <1>3
        <5>4. (-c) * p = d * p
          BY <5>1
        <5> QED
          BY <5>2, <5>3, <5>4
      <4> QED
        BY <1>2, <4>1
    <3> QED
      BY <1>1, <1>2, <3>1
  <2>11. Value(r.units) = -(Value(u) + c * p) /\ Value(r.units) > 0
    BY <2>7, <2>9, <2>10
  <2>12. SignedAs(r, Value(u) + c * p)
    BY <2>8, <2>10, <2>11 DEF SignedAs
  <2> QED
    BY <2>8, <2>9, <2>11, <2>12 DEF r, u, c, p, n
<1> QED
  BY <1>1, <1>3, <1>4, <1>5, <1>6

\* The sum of two arrays, one of them shifted and multiplied, is exact, with
\* its sign, whatever the length of a Unit (decUnitAddSub).
THEOREM UnitAddSubExact ==
    ASSUME NEW a \in Arrays, NEW b \in Arrays, b # <<>>, NEW bshift \in Nat,
           NEW m, IsMultiplier(m)
    PROVE  LET r == UnitAddSub(a, b, bshift, m)
           IN  /\ r.units \in Arrays /\ r.neg \in BOOLEAN
               /\ Len(r.units) >= Len(a) /\ Len(r.units) >= Len(b) + bshift
               /\ r.neg => Value(r.units) > 0
               /\ SignedAs(r, Value(a) + m * (Value(b) * powers[DPUN * bshift]))
<1> DEFINE sum == Columns(a, b, bshift, m)
           n   == Len(sum.units)
           r   == Settle(sum)
<1>1. /\ sum.units \in Arrays /\ n \in Nat
      /\ Len(a) <= n /\ Len(b) + bshift <= n
      /\ sum.carry \in (-(Base - 1))..(Base - 1)
      /\ Value(sum.units) + sum.carry * powers[DPUN * n]
             = Value(a) + m * (Value(b) * powers[DPUN * bshift])
  BY ColumnsAre
<1> HIDE DEF sum
<1>2. /\ r.units \in Arrays /\ r.neg \in BOOLEAN /\ Len(r.units) >= n
      /\ r.neg => Value(r.units) > 0
      /\ SignedAs(r, Value(sum.units) + sum.carry * powers[DPUN * n])
  BY <1>1, SettleIs
<1>3. UnitAddSub(a, b, bshift, m) = r
  BY DEF UnitAddSub, sum
<1> HIDE DEF r, n
<1>4. Len(r.units) \in Nat /\ Len(a) \in Nat /\ Len(b) \in Nat
  BY <1>2, ArrayFacts
<1>5. SignedAs(r, Value(a) + m * (Value(b) * powers[DPUN * bshift]))
  BY <1>1, <1>2, Zenon
<1>6. Len(r.units) >= Len(a) /\ Len(r.units) >= Len(b) + bshift
  BY <1>1, <1>2, <1>4
<1> QED
  BY <1>2, <1>3, <1>5, <1>6

(***************************************************************************)
(* decUnitCompare is the sign of the exact difference.                     *)
(***************************************************************************)
LEMMA SignIs ==
    ASSUME NEW i \in Int
    PROVE  /\ Sign(i) \in {-1, 0, 1}
           /\ Sign(i) = 1 <=> i > 0
           /\ Sign(i) = 0 <=> i = 0
           /\ Sign(i) = -1 <=> i < 0
BY DEF Sign

LEMMA ArrayIsZero ==
    ASSUME NEW u \in Arrays
    PROVE  Value(u) = 0 <=> \A k \in DOMAIN u : u[k] = 0
<1> USE UnitBase
<1>1. /\ DOMAIN u = 1..Len(u) /\ Len(u) \in Nat /\ NatItems(u)
      /\ Value(u) = Worth(Base, u)[Len(u)] /\ Value(u) \in Nat
      /\ \A k \in 1..Len(u) : u[k] \in Nat
  BY ArrayFacts
<1>2. ASSUME NEW i \in 1..Len(u), u[i] # 0 PROVE Value(u) # 0
  <2>1. Item(u, i) * Power(Base)[i - 1] <= Value(u)
    BY <1>1, ItemBelow
  <2>2. PICK k \in Nat : k = i - 1
    OBVIOUS
  <2>3. Power(Base)[k] = powers[DPUN * k] /\ DPUN * k \in Nat
    BY PowerOfBase
  <2>4. powers[DPUN * k] \in Nat /\ powers[DPUN * k] >= 1
    BY <2>3, PowersFacts
  <2>5. PICK p \in Nat : p = Power(Base)[k] /\ p >= 1
    BY <2>3, <2>4
  <2>6. PICK d \in Nat : d = Item(u, i) /\ d >= 1
    BY <1>1, <1>2 DEF Item
  <2>7. 1 * p <= d * p
    BY <2>5, <2>6, MulGrows
  <2>8. d * p <= Value(u)
    BY <2>1, <2>2, <2>5, <2>6
  <2>9. d * p \in Nat
    BY <2>5, <2>6
  <2> QED
    BY <2>5, <2>7, <2>8, <2>9
<1>3. ASSUME \A k \in DOMAIN u : u[k] = 0 PROVE Value(u) = 0
  <2>1. NatItems(<<>>) /\ \A k \in 1..Len(u) : Item(u, k) = Item(<<>>, k)
    BY <1>1, <1>3 DEF Item, NatItems
  <2>2. Worth(Base, u)[Len(u)] = Worth(Base, <<>>)[Len(u)]
    BY <1>1, <2>1, SameWorth
  <2>3. Worth(Base, <<>>)[Len(u)] = Worth(Base, <<>>)[0]
    BY <1>1, <2>1, WorthAbove
  <2>4. Worth(Base, <<>>)[0] = 0
    BY <2>1, WorthZero
  <2> QED
    BY <1>1, <2>2, <2>3, <2>4
<1> QED
  BY <1>1, <1>2, <1>3

LEMMA SignOfUnitsIs ==
    ASSUME NEW d, d.units \in Arrays, d.neg \in BOOLEAN, d.neg => Value(d.units) > 0,
           NEW i \in Int, SignedAs(d, i)
    PROVE  SignOfUnits(d) = Sign(i)
<1>1. Value(d.units) \in Nat
  BY ArrayFacts
<1>2. Value(d.units) = 0 <=> \A k \in DOMAIN d.units : d.units[k] = 0
  BY ArrayIsZero
<1>3. CASE d.neg
  <2>1. i < 0
    BY <1>1, <1>3 DEF SignedAs
  <2>2. SignOfUnits(d) = -1
    BY <1>3 DEF SignOfUnits
  <2> QED
    BY <2>1, <2>2, SignIs
<1>4. CASE ~d.neg
  <2>1. i = Value(d.units)
    BY <1>4 DEF SignedAs
  <2>2. SignOfUnits(d) = IF \A k \in DOMAIN d.units : d.units[k] = 0 THEN 0 ELSE 1
    BY <1>4 DEF SignOfUnits
  <2>3. SignOfUnits(d) = IF i = 0 THEN 0 ELSE 1
    BY <1>2, <2>1, <2>2
  <2> QED
    BY <1>1, <2>1, <2>3 DEF Sign
<1> QED
  BY <1>3, <1>4

LEMMA UnitMultiplier ==
    ASSUME NEW e \in Nat
    PROVE  /\ e \div DPUN \in Nat /\ IsMultiplier(-powers[e % DPUN])
           /\ powers[e % DPUN] * powers[DPUN * (e \div DPUN)] = powers[e]
           /\ powers[e % DPUN] \in Nat /\ powers[DPUN * (e \div DPUN)] \in Nat
<1> USE UnitBase
<1>1. e \div DPUN \in Nat /\ e % DPUN \in Nat /\ e % DPUN < DPUN
      /\ e = (e \div DPUN) * DPUN + (e % DPUN)
  BY Euclid
<1>2. PICK k \in Nat : k = e \div DPUN
  BY <1>1
<1>3. PICK j \in Nat : j = e % DPUN /\ j < DPUN
  BY <1>1
<1>4. DPUN * k \in Nat /\ e = j + DPUN * k
  BY <1>1, <1>2, <1>3
<1>5. powers[e] = powers[j] * powers[DPUN * k]
  BY <1>4, PowersSum
<1>6. 10 * powers[j] <= powers[DPUN] /\ powers[j] \in Nat /\ powers[DPUN * k] \in Nat
  BY <1>3, <1>4, PowersGrow, PowersFacts
<1>7. powers[j] <= Base - 1
  BY <1>6, PowersFacts DEF Base
<1>8. -powers[j] \in (-(Base - 1))..(Base - 1)
  <2>1. PICK p \in Nat : p = powers[j] /\ p <= Base - 1
    BY <1>6, <1>7
  <2>2. -p \in (-(Base - 1))..(Base - 1)
    BY <2>1
  <2> QED
    BY <2>1, <2>2
<1> QED
  BY <1>1, <1>2, <1>3, <1>5, <1>6, <1>8 DEF IsMultiplier

\* lengths that differ enough decide
LEMMA LengthsTell ==
    ASSUME NEW a \in Nat, NEW b \in Nat, NEW e \in Nat
    PROVE  /\ D2U(Digits(a)) > D2U(Digits(b)) + D2U(e) => a > b * powers[e]
           /\ b # 0 /\ D2U(Digits(a)) + 1 < D2U(Digits(b)) + D2U(e) => a < b * powers[e]
           /\ b * powers[e] \in Nat
<1> USE UnitBase
<1>1. PICK da \in Nat \ {0} : da = Digits(a)
  BY DigitsFacts
<1>2. PICK db \in Nat \ {0} : db = Digits(b)
  BY DigitsFacts
<1>3. PICK ua \in Nat : ua = D2U(da) /\ da <= DPUN * ua /\ DPUN * ua < da + DPUN
  BY UnitsNeeded
<1>4. PICK ub \in Nat : ub = D2U(db) /\ db <= DPUN * ub /\ DPUN * ub < db + DPUN
  BY UnitsNeeded
<1>5. PICK ue \in Nat : ue = D2U(e) /\ e <= DPUN * ue /\ DPUN * ue < e + DPUN
  BY UnitsNeeded
<1>6. PICK pe \in Nat : pe = powers[e] /\ pe >= 1
  BY PowersFacts
<1>7. b * pe \in Nat
  BY <1>6
<1>8. ASSUME ua > ub + ue PROVE a > b * pe
  <2>1. DPUN * ua >= DPUN * ub + DPUN * ue + DPUN
    <3>1. PICK k \in Nat : ua = ub + ue + 1 + k
      <4>1. ua - (ub + ue + 1) \in Nat
        BY <1>8
      <4> QED
        BY <4>1
    <3>2. DPUN * ua = DPUN * ub + DPUN * ue + DPUN + DPUN * k
      BY <3>1
    <3>3. DPUN * k \in Nat /\ DPUN * ub \in Nat /\ DPUN * ue \in Nat
      OBVIOUS
    <3> QED
      BY <3>2, <3>3
  <2>2. db + e <= da - 1 /\ da > 1
    <3>1. PICK t \in Nat : t = DPUN * ua
      OBVIOUS
    <3>2. PICK s \in Nat : s = DPUN * ub
      OBVIOUS
    <3>3. PICK v \in Nat : v = DPUN * ue
      OBVIOUS
    <3> QED
      BY <1>3, <1>4, <1>5, <2>1, <3>1, <3>2, <3>3
  <2>3. a # 0 /\ powers[da - 1] <= a
    BY <1>1, <2>2, DigitsFacts
  <2>4. PICK pb \in Nat : pb = powers[db] /\ b < pb
    BY <1>2, DigitsFacts, PowersFacts
  <2>5. powers[db + e] = pb * pe
    BY <1>6, <2>4, PowersSum
  <2>6. powers[db + e] <= powers[da - 1]
    BY <2>2, PowersGrow
  <2>7. b * pe < pb * pe
    <3>1. (b + 1) * pe <= pb * pe
      BY <1>6, <2>4, MulGrows
    <3>2. (b + 1) * pe = b * pe + pe
      BY <1>6
    <3> QED
      BY <1>6, <1>7, <2>4, <3>1, <3>2, MulGrows
  <2>8. PICK q \in Nat : q = powers[da - 1]
    BY <2>2, PowersFacts
  <2>9. PICK m \in Nat : m = pb * pe
    BY <1>6, <2>4
  <2>10. b * pe < m /\ m <= q /\ q <= a
    BY <2>3, <2>5, <2>6, <2>7, <2>8, <2>9
  <2> QED
    BY <1>7, <2>10
<1>9. ASSUME b # 0, ua + 1 < ub + ue PROVE a < b * pe
  <2>1. DPUN * ua + DPUN + DPUN <= DPUN * ub + DPUN * ue
    <3>1. PICK k \in Nat : ub + ue = ua + 2 + k
      <4>1. ub + ue - (ua + 2) \in Nat
        BY <1>9
      <4> QED
        BY <4>1
    <3>2. DPUN * ub + DPUN * ue = DPUN * ua + DPUN + DPUN + DPUN * k
      <4>1. DPUN * (ub + ue) = DPUN * ub + DPUN * ue
        OBVIOUS
      <4>2. DPUN * (ua + 2 + k) = DPUN * ua + DPUN + DPUN + DPUN * k
        OBVIOUS
      <4> QED
        BY <3>1, <4>1, <4>2
    <3>3. DPUN * k \in Nat /\ DPUN * ua \in Nat
      OBVIOUS
    <3> QED
      BY <3>2, <3>3
  <2>2. da <= db - 1 + e
    <3>1. PICK t \in Nat : t = DPUN * ua
      OBVIOUS
    <3>2. PICK s \in Nat : s = DPUN * ub
      OBVIOUS
    <3>3. PICK v \in Nat : v = DPUN * ue
      OBVIOUS
    <3> QED
      BY <1>3, <1>4, <1>5, <2>1, <3>1, <3>2, <3>3
  <2>3. PICK pb \in Nat : pb = powers[db - 1] /\ pb <= b
    BY <1>2, <1>9, DigitsFacts, PowersFacts
  <2>4. powers[db - 1 + e] = pb * pe
    BY <1>6, <2>3, PowersSum
  <2>5. PICK pa \in Nat : pa = powers[da] /\ a < pa
    BY <1>1, DigitsFacts, PowersFacts
  <2>6. pa <= pb * pe
    BY <2>2, <2>4, <2>5, PowersGrow
  <2>7. pb * pe <= b * pe /\ pb * pe \in Nat
    BY <1>6, <2>3, MulGrows
  <2> QED
    BY <1>7, <2>5, <2>6, <2>7
<1> QED
  BY <1>1, <1>2, <1>3, <1>4, <1>5, <1>6, <1>7, <1>8, <1>9

\* whichever exit is taken
LEMMA UnitCompareSound ==
    ASSUME NEW x, NEW y, x.coef \in Nat, y.coef \in Nat, NEW e \in Nat,
           e # 0 => y.coef # 0
    PROVE  UnitCompare(UnitsOf(x), UnitsOf(y), e)
               = Sign(x.coef - y.coef * powers[e])
<1> USE UnitBase
<1>1. PICK a \in Arrays : /\ a = UnitsOf(x) /\ Value(a) = x.coef
                          /\ Len(a) = D2U(Digits(x.coef)) /\ Len(a) >= 1
  BY UnitsOfIs
<1>2. PICK b \in Arrays : /\ b = UnitsOf(y) /\ Value(b) = y.coef
                          /\ Len(b) = D2U(Digits(y.coef)) /\ Len(b) >= 1
  BY UnitsOfIs
<1>3. PICK c \in Nat : c = x.coef
  OBVIOUS
<1>4. PICK d \in Nat : d = y.coef
  OBVIOUS
<1>5. Len(a) \in Nat /\ Len(b) \in Nat /\ b # <<>>
  BY <1>2, ArrayFacts, ValueEmpty
<1>6. d * powers[e] \in Nat
  BY <1>3, <1>4, LengthsTell
<1>7. D2U(0) = 0
  BY QuotientIs DEF D2U
<1>8. CASE e = 0
  <2>1. d * powers[e] = d
    BY <1>4, <1>8, PowersFacts
  <2>2. Len(a) > Len(b) => c > d
    <3>1. D2U(Digits(c)) > D2U(Digits(d)) + D2U(e) => c > d * powers[e]
      BY LengthsTell
    <3>2. D2U(e) = 0
      BY <1>7, <1>8
    <3>3. Len(a) = D2U(Digits(c)) /\ Len(b) = D2U(Digits(d))
      BY <1>1, <1>2, <1>3, <1>4
    <3> QED
      BY <1>5, <2>1, <3>1, <3>2, <3>3
  <2>3. Len(b) > Len(a) => d > c
    <3>1. c * powers[e] = c
      BY <1>3, <1>8, PowersFacts
    <3>2. D2U(Digits(d)) > D2U(Digits(c)) + D2U(e) => d > c * powers[e]
      BY LengthsTell
    <3>3. D2U(e) = 0
      BY <1>7, <1>8
    <3>4. Len(a) = D2U(Digits(c)) /\ Len(b) = D2U(Digits(d))
      BY <1>1, <1>2, <1>3, <1>4
    <3> QED
      BY <1>5, <3>1, <3>2, <3>3, <3>4
  <2>4. CASE Len(a) # Len(b)
    <3>1. UnitCompare(a, b, e) = Sign(Len(a) - Len(b))
      BY <1>8, <2>4 DEF UnitCompare
    <3>2. Sign(Len(a) - Len(b)) = Sign(c - d)
      BY <1>3, <1>4, <1>5, <2>2, <2>3, <2>4 DEF Sign
    <3> QED
      BY <1>1, <1>2, <1>3, <1>4, <2>1, <3>1, <3>2
  <2>5. CASE Len(a) = Len(b)
    <3>1. UnitCompare(a, b, e) = Sign(Value(a) - Value(b))
      BY <1>8, <2>5 DEF UnitCompare
    <3> QED
      BY <1>1, <1>2, <1>3, <1>4, <2>1, <3>1
  <2> QED
    BY <2>4, <2>5
<1>9. CASE e # 0
  <2>1. D2U(e) \in Nat
    BY UnitsNeeded
  <2>2. Len(a) > Len(b) + D2U(e) => c > d * powers[e]
    BY <1>1, <1>2, <1>3, <1>4, LengthsTell
  <2>3. Len(a) + 1 < Len(b) + D2U(e) => c < d * powers[e]
    BY <1>1, <1>2, <1>3, <1>4, <1>9, LengthsTell
  <2>4. PICK v \in Nat : v = d * powers[e]
    BY <1>6
  <2>5. CASE Len(a) > Len(b) + D2U(e)
    <3>1. UnitCompare(a, b, e) = 1
      BY <1>9, <2>5 DEF UnitCompare
    <3> QED
      BY <1>1, <1>2, <1>3, <1>4, <2>2, <2>4, <2>5, <3>1 DEF Sign
  <2>6. CASE ~(Len(a) > Len(b) + D2U(e)) /\ Len(a) + 1 < Len(b) + D2U(e)
    <3>1. UnitCompare(a, b, e) = -1
      BY <1>9, <2>6 DEF UnitCompare
    <3> QED
      BY <1>1, <1>2, <1>3, <1>4, <2>3, <2>4, <2>6, <3>1 DEF Sign
  <2>7. CASE ~(Len(a) > Len(b) + D2U(e)) /\ ~(Len(a) + 1 < Len(b) + D2U(e))
    <3> DEFINE m == -powers[e % DPUN]
               k == e \div DPUN
               diff == UnitAddSub(a, b, k, m)
    <3>1. UnitCompare(a, b, e) = SignOfUnits(diff)
      BY <1>9, <2>7 DEF UnitCompare
    <3>2. /\ k \in Nat /\ IsMultiplier(m)
          /\ powers[e % DPUN] * powers[DPUN * k] = powers[e]
          /\ powers[e % DPUN] \in Nat /\ powers[DPUN * k] \in Nat
      BY UnitMultiplier
    <3>3. PICK p \in Nat : p = powers[e % DPUN] /\ m = -p
      BY <3>2
    <3>4. PICK q \in Nat : q = powers[DPUN * k]
      BY <3>2
    <3> HIDE DEF m, k
    <3>5. /\ diff.units \in Arrays /\ diff.neg \in BOOLEAN
          /\ diff.neg => Value(diff.units) > 0
          /\ SignedAs(diff, Value(a) + m * (Value(b) * powers[DPUN * k]))
      BY <1>5, <3>2, UnitAddSubExact
    <3>6. Value(a) + m * (Value(b) * powers[DPUN * k]) = c - v
      <4>1. c + (-p) * (d * q) = c - d * (p * q)
        BY <1>3, <1>4, <3>3, <3>4
      <4>2. d * (p * q) = v
        BY <2>4, <3>2, <3>3, <3>4
      <4> QED
        BY <1>1, <1>2, <1>3, <1>4, <3>3, <3>4, <4>1, <4>2
    <3> HIDE DEF diff
    <3>7. SignOfUnits(diff) = Sign(c - v)
      BY <1>3, <2>4, <3>5, <3>6, SignOfUnitsIs
    <3> QED
      BY <1>1, <1>2, <1>3, <1>4, <2>4, <3>1, <3>7
  <2> QED
    BY <2>5, <2>6, <2>7
<1> QED
  BY <1>8, <1>9

(***************************************************************************)
(* Values at a common exponent.                                            *)
(***************************************************************************)
Size(n, e) == n.coef * powers[n.exp - e]

LEMMA NumberFields ==
    ASSUME NEW n \in Numbers
    PROVE  /\ n.kind \in Kinds /\ n.neg \in BOOLEAN /\ n.coef \in Nat /\ n.exp \in Int
           /\ n = [kind |-> n.kind, neg |-> n.neg, coef |-> n.coef, exp |-> n.exp]
BY DEF Numbers

LEMMA SizeIs ==
    ASSUME NEW n, n.coef \in Nat, n.exp \in Int, NEW e \in Int, e <= n.exp
    PROVE  /\ n.exp - e \in Nat /\ Size(n, e) \in Nat /\ (Size(n, e) = 0 <=> n.coef = 0)
           /\ e = n.exp => Size(n, e) = n.coef
<1>1. PICK k \in Nat : k = n.exp - e
  OBVIOUS
<1>2. PICK p \in Nat : p = powers[k] /\ p >= 1
  BY PowersFacts
<1>3. PICK c \in Nat : c = n.coef
  OBVIOUS
<1>4. c * p \in Nat /\ (c * p = 0 <=> c = 0)
  <2>1. CASE c = 0
    BY <2>1, <1>2
  <2>2. CASE c # 0
    <3>1. 1 * p <= c * p
      BY <1>2, <2>2, MulGrows
    <3> QED
      BY <1>2, <2>2, <3>1
  <2> QED
    BY <2>1, <2>2
<1>5. Size(n, e) = c * p
  BY <1>1, <1>2, <1>3 DEF Size
<1>6. e = n.exp => p = 1
  BY <1>1, <1>2, PowersFacts
<1> QED
  BY <1>1, <1>3, <1>4, <1>5, <1>6

(***************************************************************************)
(* Rounding outwards or inwards skips nothing that the context can hold.   *)
(***************************************************************************)
\* c * 10^e as a multiple of 10^q
Weight(c, e, q) == c * powers[e - q]

\* m * 10^q lies in a cell between two neighbours of the context
Cell(m, q, cx, k, lower, rest) ==
    /\ RestAbove(m, q, cx, k, lower, rest)
    /\ Etiny(cx) <= q + k /\ lower < powers[cx.digits]
    /\ Etiny(cx) < q + k => powers[cx.digits - 1] <= lower

LEMMA CellExists ==
    ASSUME NEW cx, Context(cx), NEW m \in Nat \ {0}, NEW q \in Int, q < Etiny(cx)
    PROVE  \E k \in Nat, lower \in Nat, rest \in Nat : Cell(m, q, cx, k, lower, rest)
<1>1. PICK p \in Nat \ {0}, t \in Int : p = cx.digits /\ t = Etiny(cx)
  BY ContextRange
<1>2. PICK d \in Nat \ {0} : d = Digits(m)
  BY DigitsFacts
<1>3. PICK e \in Int : e = IF t <= q + d - p THEN q + d - p ELSE t
  BY <1>1, <1>2
<1>4. PICK k \in Nat : k = e - q
  BY <1>1, <1>3
<1>5. Place(m, q, cx) = q + k
  <2>1. q <= e /\ q + d - p <= e /\ t <= e /\ e \in {q, q + d - p, t}
    BY <1>1, <1>3
  <2>2. Place(m, q, cx) = e
    BY <1>1, <1>2, <2>1, PlaceIs
  <2> QED
    BY <1>4, <2>2
<1>6. PICK u \in Nat \ {0} : u = powers[k]
  BY PowersFacts
<1>7. PICK lower \in Nat, rest \in Nat :
          lower = m \div u /\ rest < u /\ m = lower * u + rest
  BY Euclid
<1>8. RestAbove(m, q, cx, k, lower, rest)
  BY <1>5, <1>6, <1>7 DEF RestAbove
<1>9. CASE k < d
  <2>1. Digits(lower) = d - k /\ lower # 0
    BY <1>2, <1>6, <1>7, <1>9, DigitsCut
  <2>2. d - k <= p /\ d - k \in Nat \ {0} /\ (t < e => d - k = p)
    BY <1>1, <1>3, <1>4, <1>9
  <2>3. lower < powers[p]
    BY <2>1, <2>2, DigitsAtMost
  <2>4. t < e => powers[p - 1] <= lower
    BY <2>1, <2>2, DigitsFacts
  <2> QED
    BY <1>1, <1>3, <1>4, <1>8, <2>3, <2>4 DEF Cell
<1>10. CASE ~(k < d)
  <2>1. lower = 0
    BY <1>2, <1>6, <1>7, <1>10, DigitsCut
  <2>2. ~(t < e)
    BY <1>1, <1>3, <1>4, <1>10
  <2>3. lower < powers[p]
    BY <2>1, PowersFacts
  <2> QED
    BY <1>1, <1>3, <1>4, <1>8, <2>2, <2>3 DEF Cell
<1> QED
  BY <1>9, <1>10

\* nothing that the context can hold is inside the cell
LEMMA CellIsEmpty ==
    ASSUME NEW cx, Context(cx), NEW m, NEW q \in Int, NEW k, NEW lower, NEW rest,
           Cell(m, q, cx, k, lower, rest), q < Etiny(cx),
           NEW c \in Nat, c < powers[cx.digits], NEW e \in Int, Etiny(cx) <= e
    PROVE  /\ Weight(c, e, q) \in Nat
           /\ Weight(c, e, q) <= lower * powers[k] \/ (lower + 1) * powers[k] <= Weight(c, e, q)
<1>1. PICK p \in Nat \ {0}, t \in Int : p = cx.digits /\ t = Etiny(cx)
  BY ContextRange
<1>2. /\ k \in Nat /\ lower \in Nat /\ t <= q + k
      /\ t < q + k => powers[p - 1] <= lower
  BY <1>1 DEF Cell, RestAbove
<1>3. PICK u \in Nat \ {0} : u = powers[k]
  BY <1>2, PowersFacts
<1>4. PICK j \in Nat : j = e - q
  BY <1>1
<1>5. PICK v \in Nat \ {0} : v = powers[j]
  BY PowersFacts
<1>6. Weight(c, e, q) = c * v /\ c * v \in Nat
  BY <1>4, <1>5, MulGrows DEF Weight
<1>7. CASE k <= j
  <2>0. PICK i \in Nat : i = j - k /\ j = i + k
    BY <1>2, <1>7
  <2>1. PICK w \in Nat \ {0} : w = powers[i]
    BY PowersFacts
  <2>2. v = w * u
    BY <1>2, <1>3, <1>5, <2>0, <2>1, PowersSum
  <2>3. PICK x \in Nat : x = c * w
    BY MulGrows
  <2>4. c * v = x * u
    BY <2>2, <2>3
  <2>5. CASE x <= lower
    <3>1. x * u <= lower * u
      BY <1>2, <2>5, MulGrows
    <3> QED
      BY <1>3, <1>6, <2>4, <3>1
  <2>6. CASE ~(x <= lower)
    <3>1. lower + 1 <= x /\ lower + 1 \in Nat
      BY <1>2, <2>6
    <3>2. (lower + 1) * u <= x * u
      BY <3>1, MulGrows
    <3> QED
      BY <1>3, <1>6, <2>4, <3>2
  <2> QED
    BY <2>5, <2>6
<1>8. CASE ~(k <= j)
  <2>1. t < q + k
    BY <1>1, <1>2, <1>4, <1>8
  <2>2. PICK a \in Nat, b \in Nat : a = powers[p - 1] /\ b = powers[p] /\ b = 10 * a
    <3>1. p - 1 \in Nat /\ (p - 1) + 1 = p
      BY <1>1
    <3> QED
      BY <3>1, PowersFacts
  <2>3. a <= lower /\ c < b
    BY <1>1, <1>2, <2>1, <2>2
  <2>4. 10 * v <= u
    BY <1>2, <1>3, <1>5, <1>8, PowersGrow
  <2>5. c * v <= b * v
    BY <2>3, MulGrows
  <2>6. b * v = a * (10 * v)
    BY <2>2
  <2>7. a * (10 * v) <= a * u
    BY <2>4, MulGrows
  <2>8. a * u <= lower * u /\ a * u \in Nat /\ lower * u \in Nat
    BY <1>2, <2>3, MulGrows
  <2> QED
    BY <1>3, <1>6, <2>5, <2>6, <2>7, <2>8
<1> QED
  BY <1>7, <1>8

\* the result is a number of the weight of Finite(neg, c, e), at most folded down
LEMMA FoldKeepsWeight ==
    ASSUME NEW cx, Context(cx), NEW neg, NEW c \in Nat, NEW e \in Int, NEW q \in Int,
           q < Etiny(cx), Etiny(cx) <= e
    PROVE  LET w == Folded(Finite(neg, c, e), cx)
           IN  /\ w.kind = "finite" /\ w.neg = neg /\ w.coef \in Nat /\ w.exp \in Int /\ q <= w.exp
               /\ Size(w, q) = Weight(c, e, q)
<1>1. PICK t \in Int, h \in Int : t = Etiny(cx) /\ h = Etop(cx) /\ t <= h
  BY ContextRange
<1>2. PICK f : f = Finite(neg, c, e)
  OBVIOUS
<1>3. f.kind = "finite" /\ f.neg = neg /\ f.coef = c /\ f.exp = e
  BY <1>2 DEF Finite
<1>4. CASE cx.clamp /\ e > h
  <2>1. PICK i \in Nat, j \in Nat : i = e - h /\ j = h - q
    BY <1>1, <1>4
  <2>2. PICK u \in Nat \ {0} : u = powers[i]
    BY PowersFacts
  <2>0. PICK v \in Nat \ {0} : v = powers[j]
    BY PowersFacts
  <2>3. powers[i + j] = u * v /\ i + j = e - q
    <3>1. i + j = e - q
      BY <1>1, <2>1
    <3>2. powers[i + j] = powers[i] * powers[j]
      BY PowersSum
    <3> QED
      BY <2>0, <2>2, <3>1, <3>2
  <2>4. PICK a \in Nat : a = c * u
    BY MulGrows
  <2>5. Folded(f, cx) = Finite(neg, a, h)
    BY <1>1, <1>3, <1>4, <2>1, <2>2, <2>4 DEF Folded
  <2>6. Size(Finite(neg, a, h), q) = a * v
    BY <2>0, <2>1 DEF Size, Finite
  <2>7. Weight(c, e, q) = c * (u * v)
    BY <2>3 DEF Weight
  <2>8. a * v = c * (u * v)
    BY <2>4
  <2>9. /\ Finite(neg, a, h).kind = "finite" /\ Finite(neg, a, h).neg = neg
        /\ Finite(neg, a, h).coef = a /\ Finite(neg, a, h).exp = h
    BY DEF Finite
  <2> QED
    BY <1>1, <1>2, <2>5, <2>6, <2>7, <2>8, <2>9
<1>5. CASE ~(cx.clamp /\ e > h)
  <2>1. Folded(f, cx) = f
    BY <1>1, <1>3, <1>5 DEF Folded
  <2> QED
    BY <1>1, <1>2, <1>3, <2>1 DEF Size, Weight
<1> QED
  BY <1>4, <1>5

LEMMA NeighbourWeight ==
    ASSUME NEW cx, Context(cx), NEW neg, NEW k \in Nat, NEW q \in Int, q < Etiny(cx),
           Etiny(cx) <= q + k, NEW c \in Nat, c <= powers[cx.digits]
    PROVE  \E a \in Nat, f \in Int :
               /\ Neighbour(neg, c, q + k, cx) = Finite(neg, a, f)
               /\ a < powers[cx.digits] /\ Etiny(cx) <= f /\ Weight(a, f, q) = c * powers[k]
<1>1. PICK p \in Nat \ {0}, t \in Int : p = cx.digits /\ t = Etiny(cx)
  BY ContextRange
<1>2. PICK b \in Nat \ {0} : b = powers[p]
  BY PowersFacts
<1>3. PICK a \in Nat \ {0} : a = powers[p - 1] /\ b = 10 * a
  <2>1. p - 1 \in Nat /\ (p - 1) + 1 = p
    BY <1>1
  <2> QED
    BY <1>2, <2>1, PowersFacts
<1>4. PICK u \in Nat \ {0} : u = powers[k] /\ powers[k + 1] = 10 * u
  BY PowersFacts
<1>5. CASE c = b
  <2>1. PICK f \in Int : f = q + k + 1
    OBVIOUS
  <2>2. Neighbour(neg, c, q + k, cx) = Finite(neg, a, f)
    BY <1>1, <1>2, <1>3, <1>5, <2>1 DEF Neighbour
  <2>3. f - q = k + 1
    BY <2>1
  <2>4. Weight(a, f, q) = a * (10 * u)
    BY <1>4, <2>3 DEF Weight
  <2>5. a * (10 * u) = c * u
    BY <1>3, <1>5
  <2> QED
    BY <1>1, <1>2, <1>3, <1>4, <2>1, <2>2, <2>4, <2>5
<1>6. CASE c # b
  <2>1. PICK f \in Int : f = q + k
    OBVIOUS
  <2>2. Neighbour(neg, c, q + k, cx) = Finite(neg, c, f)
    BY <1>1, <1>2, <1>6, <2>1 DEF Neighbour
  <2>3. f - q = k
    BY <2>1
  <2> QED
    BY <1>1, <1>2, <1>6, <2>1, <2>2, <2>3 DEF Weight
<1> QED
  BY <1>5, <1>6

\* all nines at Etop weigh most, and less than what is too large
LEMMA HeaviestIs ==
    ASSUME NEW cx, Context(cx), NEW q \in Int, q < Etiny(cx)
    PROVE  /\ powers[cx.digits] - 1 \in Nat /\ Weight(powers[cx.digits] - 1, Etop(cx), q) \in Nat
           /\ \A c \in 0..(powers[cx.digits] - 1), e \in Etiny(cx)..Etop(cx) :
                  Weight(c, e, q) <= Weight(powers[cx.digits] - 1, Etop(cx), q)
           /\ \A a \in Nat, f \in Int :
                  Etiny(cx) <= f /\ TooLarge(Finite(TRUE, a, f), cx)
                      => Weight(powers[cx.digits] - 1, Etop(cx), q) < Weight(a, f, q)
<1>1. PICK p \in Nat \ {0}, t \in Int, h \in Int, x \in Int :
          p = cx.digits /\ t = Etiny(cx) /\ h = Etop(cx) /\ t <= h /\ x = cx.emax /\ h = x - (p - 1)
  BY ContextRange
<1>2. PICK b \in Nat \ {0} : b = powers[p]
  BY PowersFacts
<1>3. PICK j \in Nat : j = h - q
  BY <1>1
<1>4. PICK v \in Nat \ {0} : v = powers[j]
  BY PowersFacts
<1>5. PICK y \in Nat : y = b - 1
  BY <1>2
<1>6. Weight(y, h, q) = y * v /\ y * v \in Nat
  BY <1>3, <1>4, MulGrows DEF Weight
<1>7. ASSUME NEW c \in 0..(b - 1), NEW e \in t..h PROVE Weight(c, e, q) <= y * v
  <2>1. PICK i \in Nat : i = e - q /\ i <= j
    BY <1>1, <1>3, <1>7
  <2>2. PICK w \in Nat : w = powers[i] /\ w <= v
    BY <1>4, <2>1, PowersGrow, PowersFacts
  <2>3. c \in Nat /\ c <= y
    BY <1>5
  <2>4. c * w <= y * w /\ y * w <= y * v /\ c * w \in Nat /\ y * w \in Nat
    BY <2>2, <2>3, MulGrows
  <2>5. Weight(c, e, q) = c * w
    BY <2>1, <2>2 DEF Weight
  <2> QED
    BY <1>6, <2>4, <2>5
<1>8. ASSUME NEW a \in Nat, NEW f \in Int, t <= f, TooLarge(Finite(TRUE, a, f), cx)
      PROVE  y * v < Weight(a, f, q)
  <2>1. PICK d \in Nat \ {0} : d = Digits(a)
    BY DigitsFacts
  <2>2. a # 0 /\ f + d - 1 > x
    BY <1>1, <1>8, <2>1 DEF TooLarge, Finite
  <2>3. PICK g \in Nat : g = powers[d - 1] /\ g <= a
    BY <2>1, <2>2, DigitsFacts, PowersFacts
  <2>4. PICK i \in Nat : i = f - q
    BY <1>1, <1>8
  <2>5. PICK w \in Nat \ {0} : w = powers[i]
    BY PowersFacts
  <2>6. Weight(a, f, q) = a * w
    BY <2>4, <2>5 DEF Weight
  <2>7. g * w <= a * w /\ g * w \in Nat /\ a * w \in Nat
    BY <2>3, MulGrows
  <2>8. g * w = powers[(d - 1) + i]
    <3>1. d - 1 \in Nat
      BY <2>1
    <3> QED
      BY <2>3, <2>5, <3>1, PowersSum
  <2>9. b * v = powers[p + j]
    BY <1>2, <1>4, PowersSum
  <2>10. p + j <= (d - 1) + i /\ p + j \in Nat /\ (d - 1) + i \in Nat
    BY <1>1, <1>3, <2>1, <2>2, <2>4
  <2>11. b * v <= g * w
    BY <2>8, <2>9, <2>10, PowersGrow
  <2>12. b * v = y * v + v
    BY <1>5
  <2> QED
    BY <1>6, <2>6, <2>7, <2>11, <2>12
<1> QED
  BY <1>1, <1>2, <1>5, <1>6, <1>7, <1>8

\* away from zero
Outward(neg, cx) == (cx.round = "CEILING" /\ ~neg) \/ (cx.round = "FLOOR" /\ neg)

\* towards zero
Inward(neg, cx) == (cx.round = "CEILING" /\ neg) \/ (cx.round = "FLOOR" /\ ~neg)

\* what a directed mode delivers for Cell
LEMMA DirectedIs ==
    ASSUME NEW cx, Context(cx), NEW neg \in BOOLEAN, NEW m \in Nat \ {0}, NEW q \in Int, q < Etiny(cx),
           NEW k, NEW lower, NEW rest, Cell(m, q, cx, k, lower, rest),
           Outward(neg, cx) \/ Inward(neg, cx)
    PROVE  \E a \in Nat, f \in Int :
               /\ Delivered(neg, m, q, cx) = InRange(Finite(neg, a, f), cx)
               /\ Etiny(cx) <= f
               /\ Weight(a, f, q) = (IF Outward(neg, cx) /\ rest # 0 THEN lower + 1 ELSE lower)
                                        * powers[k]
<1>1. /\ RestAbove(m, q, cx, k, lower, rest) /\ k \in Nat /\ lower \in Nat /\ rest \in Nat
      /\ Etiny(cx) <= q + k /\ lower < powers[cx.digits]
  BY DEF Cell, RestAbove
<1>2. RoundsAway(cx.round, neg, lower, rest, powers[k]) <=> Outward(neg, cx) /\ rest # 0
  <2>1. rest > 0 <=> rest # 0
    BY <1>1
  <2>2. CASE cx.round = "CEILING"
    <3>1. RoundsAway(cx.round, neg, lower, rest, powers[k]) <=> rest > 0 /\ ~neg
      BY <2>2 DEF RoundsAway
    <3> QED
      BY <2>1, <2>2, <3>1 DEF Outward
  <2>3. CASE cx.round = "FLOOR"
    <3>1. RoundsAway(cx.round, neg, lower, rest, powers[k]) <=> rest > 0 /\ neg
      BY <2>3 DEF RoundsAway
    <3> QED
      BY <2>1, <2>3, <3>1 DEF Outward
  <2> QED
    BY <2>2, <2>3 DEF Outward, Inward
<1>3. PICK c \in Nat : c = IF Outward(neg, cx) /\ rest # 0 THEN lower + 1 ELSE lower
  BY <1>1
<1>4. RoundsTo(neg, m, q, cx, k, lower, rest, c)
  BY <1>1, <1>2, <1>3, Zenon DEF RoundsTo
<1>5. Nearest(neg, m, q, cx) = Neighbour(neg, c, q + k, cx)
  BY <1>4, NearestIs
<1>6. c <= powers[cx.digits]
  <2>1. powers[cx.digits] \in Nat
    BY ContextRange, PowersFacts
  <2> QED
    BY <1>1, <1>3, <2>1
<1>7. PICK a \in Nat, f \in Int :
          /\ Neighbour(neg, c, q + k, cx) = Finite(neg, a, f)
          /\ Etiny(cx) <= f /\ Weight(a, f, q) = c * powers[k]
  BY <1>1, <1>6, NeighbourWeight
<1>8. Delivered(neg, m, q, cx) = InRange(Finite(neg, a, f), cx)
  BY <1>5, <1>7, DeliveredIs
<1> QED
  BY <1>3, <1>7, <1>8

LEMMA ZeroIsDelivered ==
    ASSUME NEW cx, Context(cx), NEW neg, NEW q \in Int
    PROVE  \E f \in Int : Delivered(neg, 0, q, cx) = Finite(neg, 0, f) /\ Etiny(cx) <= f
<1>1. PICK t \in Int, h \in Int, x \in Int : t = Etiny(cx) /\ h = Etop(cx) /\ x = cx.emax
  BY ContextRange
<1>2. PICK top \in Int : top = IF cx.clamp THEN h ELSE x
  BY <1>1
<1>3. PICK i \in Int : i = Min({q, top})
  <2>1. Min({q, top}) = IF q <= top THEN q ELSE top
    BY MinOfTwo
  <2> QED
    BY <2>1
<1>4. PICK f \in Int : f = Max({t, i}) /\ t <= f
  <2>1. Max({t, i}) = IF t <= i THEN i ELSE t
    BY MaxOfTwo
  <2> QED
    BY <2>1
<1>5. FitZero(neg, q, cx) = Finite(neg, 0, f)
  BY <1>1, <1>2, <1>3, <1>4 DEF FitZero
<1> QED
  BY <1>1, <1>4, <1>5 DEF Delivered

LEMMA NumberWeighs ==
    ASSUME NEW c \in Nat, NEW q \in Int, NEW e \in Int, q <= e
    PROVE  Weight(c, e, q) \in Nat
<1>1. PICK i \in Nat : i = e - q
  OBVIOUS
<1>2. PICK u \in Nat : u = powers[i]
  BY PowersFacts
<1> QED
  BY <1>1, <1>2, MulGrows DEF Weight

\* rounded away from zero to the next that the context can hold
LEMMA OutwardTight ==
    ASSUME NEW cx, Context(cx), NEW neg \in BOOLEAN, NEW m \in Nat, NEW q \in Int, q < Etiny(cx),
           Outward(neg, cx)
    PROVE  LET w == Delivered(neg, m, q, cx)
           IN  /\ w.kind \in {"finite", "inf"} /\ w.neg = neg
               /\ w.kind = "finite" => /\ w.coef \in Nat /\ w.exp \in Int /\ q <= w.exp
                                       /\ m <= Size(w, q)
               /\ \A c \in 0..(powers[cx.digits] - 1), e \in Etiny(cx)..Etop(cx) :
                      m <= Weight(c, e, q) => w.kind = "finite" /\ Size(w, q) <= Weight(c, e, q)
<1> DEFINE w == Delivered(neg, m, q, cx)
<1>1. CASE m = 0
  <2>1. PICK f \in Int : w = Finite(neg, 0, f) /\ Etiny(cx) <= f
    BY <1>1, ZeroIsDelivered
  <2>2. w.kind = "finite" /\ w.neg = neg /\ w.coef = 0 /\ w.exp = f
    BY <2>1 DEF Finite
  <2> HIDE DEF w
  <2>3. q <= f
    BY <2>1, ContextRange
  <2>4. Size(w, q) = 0
    BY <2>2, <2>3, SizeIs
  <2> QED
    BY <1>1, <2>2, <2>3, <2>4 DEF w
<1>2. CASE m # 0
  <2>1. m \in Nat \ {0}
    BY <1>2
  <2>2. PICK k \in Nat, lower \in Nat, rest \in Nat : Cell(m, q, cx, k, lower, rest)
    BY <2>1, CellExists
  <2>3. PICK u \in Nat \ {0} : u = powers[k] /\ rest < u /\ m = lower * u + rest
    BY <2>2, PowersFacts DEF Cell, RestAbove
  <2>4. PICK c \in Nat : c = IF rest # 0 THEN lower + 1 ELSE lower
    OBVIOUS
  <2>5. PICK a \in Nat, f \in Int : /\ w = InRange(Finite(neg, a, f), cx)
                                    /\ Etiny(cx) <= f /\ Weight(a, f, q) = c * u
    BY <2>1, <2>2, <2>3, <2>4, DirectedIs
  <2>6. m <= c * u /\ c * u \in Nat
    <3>1. CASE rest # 0
      <4>1. (lower + 1) * u = lower * u + u
        OBVIOUS
      <4>2. c * u \in Nat
        BY MulGrows
      <4> QED
        BY <2>3, <2>4, <3>1, <4>1, <4>2
    <3>2. CASE rest = 0
      <4>1. c * u \in Nat
        BY MulGrows
      <4> QED
        BY <2>3, <2>4, <3>2, <4>1
    <3> QED
      BY <3>1, <3>2
  <2>7. ASSUME NEW n \in 0..(powers[cx.digits] - 1), NEW e \in Etiny(cx)..Etop(cx), m <= Weight(n, e, q)
        PROVE  c * u <= Weight(n, e, q)
    <3>1. n \in Nat /\ n < powers[cx.digits] /\ e \in Int /\ Etiny(cx) <= e
      BY ContextRange, PowersFacts
    <3>2. /\ Weight(n, e, q) \in Nat
          /\ Weight(n, e, q) <= lower * u \/ (lower + 1) * u <= Weight(n, e, q)
      BY <2>2, <2>3, <3>1, CellIsEmpty
    <3>3. PICK x \in Nat : x = lower * u /\ (lower + 1) * u = x + u
      BY MulGrows
    <3>4. m = x + rest
      BY <2>3, <3>3
    <3>5. c * u = IF rest # 0 THEN x + u ELSE x
      BY <2>4, <3>3
    <3> QED
      BY <2>7, <3>2, <3>3, <3>4, <3>5
  <2>8. PICK g : g = Finite(neg, a, f)
    OBVIOUS
  <2>9. g.neg = neg /\ g.coef = a /\ g.exp = f
    BY <2>8 DEF Finite
  <2>10. CASE TooLarge(g, cx)
    <3>1. RoundsAway(cx.round, neg, powers[cx.digits] - 1, 1, 1)
      <4>1. CASE cx.round = "CEILING"
        BY <4>1 DEF RoundsAway, Outward
      <4>2. CASE cx.round = "FLOOR"
        BY <4>2 DEF RoundsAway, Outward
      <4> QED
        BY <4>1, <4>2 DEF Outward
    <3>2. w = Special("inf", neg)
      BY <2>5, <2>8, <2>9, <2>10, <3>1 DEF InRange, Overflowed
    <3>3. w.kind = "inf" /\ w.neg = neg
      BY <3>2 DEF Special
    <3>4. ASSUME NEW n \in 0..(powers[cx.digits] - 1), NEW e \in Etiny(cx)..Etop(cx)
          PROVE  ~(m <= Weight(n, e, q))
      <4>1. TooLarge(Finite(TRUE, a, f), cx)
        BY <2>9, <2>10 DEF TooLarge, Finite
      <4>2. PICK h : h = Weight(powers[cx.digits] - 1, Etop(cx), q)
        OBVIOUS
      <4>3. h \in Nat /\ Weight(n, e, q) <= h /\ h < c * u
        BY <2>5, <4>1, <4>2, HeaviestIs
      <4>4. Weight(n, e, q) \in Nat
        <5>1. n \in Nat /\ e \in Int /\ q <= e
          BY ContextRange, HeaviestIs
        <5> QED
          BY <5>1, NumberWeighs
      <4> QED
        BY <2>6, <2>7, <4>3, <4>4
    <3> QED
      BY <3>3, <3>4
  <2>11. CASE ~TooLarge(g, cx)
    <3>1. w = Folded(g, cx)
      BY <2>5, <2>8, <2>11 DEF InRange
    <3>2. /\ w.kind = "finite" /\ w.neg = neg /\ w.coef \in Nat /\ w.exp \in Int /\ q <= w.exp
          /\ Size(w, q) = c * u
      BY <2>5, <2>8, <3>1, FoldKeepsWeight
    <3> HIDE DEF w
    <3> QED
      BY <2>6, <2>7, <3>2 DEF w
  <2> QED
    BY <2>10, <2>11
<1> QED
  BY <1>1, <1>2

\* rounded towards zero to the next that the context can hold
LEMMA InwardTight ==
    ASSUME NEW cx, Context(cx), NEW neg \in BOOLEAN, NEW m \in Nat, NEW q \in Int, q < Etiny(cx),
           Inward(neg, cx)
    PROVE  LET w == Delivered(neg, m, q, cx)
           IN  /\ w.kind = "finite" /\ w.neg = neg
               /\ w.coef \in Nat /\ w.exp \in Int /\ q <= w.exp /\ Size(w, q) <= m
               /\ \A c \in 0..(powers[cx.digits] - 1), e \in Etiny(cx)..Etop(cx) :
                      Weight(c, e, q) <= m => Weight(c, e, q) <= Size(w, q)
<1> DEFINE w == Delivered(neg, m, q, cx)
<1>1. CASE m = 0
  <2>1. PICK f \in Int : w = Finite(neg, 0, f) /\ Etiny(cx) <= f
    BY <1>1, ZeroIsDelivered
  <2>2. w.kind = "finite" /\ w.neg = neg /\ w.coef = 0 /\ w.exp = f
    BY <2>1 DEF Finite
  <2> HIDE DEF w
  <2>3. q <= f
    BY <2>1, ContextRange
  <2>4. Size(w, q) = 0
    BY <2>2, <2>3, SizeIs
  <2> QED
    BY <1>1, <2>2, <2>3, <2>4 DEF w
<1>2. CASE m # 0
  <2>1. m \in Nat \ {0} /\ ~Outward(neg, cx)
    BY <1>2 DEF Inward, Outward
  <2>2. PICK k \in Nat, lower \in Nat, rest \in Nat : Cell(m, q, cx, k, lower, rest)
    BY <2>1, CellExists
  <2>3. PICK u \in Nat \ {0} : u = powers[k] /\ rest < u /\ m = lower * u + rest
    BY <2>2, PowersFacts DEF Cell, RestAbove
  <2>4. PICK x \in Nat : x = lower * u /\ (lower + 1) * u = x + u
    BY MulGrows
  <2>5. PICK a \in Nat, f \in Int : /\ w = InRange(Finite(neg, a, f), cx)
                                    /\ Etiny(cx) <= f /\ Weight(a, f, q) = x
    BY <2>1, <2>2, <2>3, <2>4, DirectedIs
  <2>6. x <= m /\ m < x + u
    BY <2>3, <2>4
  <2>7. ASSUME NEW n \in 0..(powers[cx.digits] - 1), NEW e \in Etiny(cx)..Etop(cx), Weight(n, e, q) <= m
        PROVE  Weight(n, e, q) <= x
    <3>1. n \in Nat /\ n < powers[cx.digits] /\ e \in Int /\ Etiny(cx) <= e
      BY ContextRange, PowersFacts
    <3>2. /\ Weight(n, e, q) \in Nat
          /\ Weight(n, e, q) <= lower * u \/ (lower + 1) * u <= Weight(n, e, q)
      BY <2>2, <2>3, <3>1, CellIsEmpty
    <3> QED
      BY <2>4, <2>6, <2>7, <3>2
  <2>8. PICK g : g = Finite(neg, a, f)
    OBVIOUS
  <2>9. g.neg = neg /\ g.coef = a /\ g.exp = f
    BY <2>8 DEF Finite
  <2>10. CASE TooLarge(g, cx)
    <3>1. ~RoundsAway(cx.round, neg, powers[cx.digits] - 1, 1, 1)
      BY DEF RoundsAway, Inward
    <3>2. cx.round \notin {"HALF_UP", "HALF_DOWN", "HALF_EVEN"}
      BY DEF Inward
    <3>3. w = Finite(neg, powers[cx.digits] - 1, Etop(cx))
      BY <2>5, <2>8, <2>9, <2>10, <3>1, <3>2 DEF InRange, Overflowed
    <3>4. PICK y \in Nat, h \in Int : y = powers[cx.digits] - 1 /\ h = Etop(cx)
      BY HeaviestIs, ContextRange
    <3>5. w.kind = "finite" /\ w.neg = neg /\ w.coef = y /\ w.exp = h
      BY <3>3, <3>4 DEF Finite
    <3>6. TooLarge(Finite(TRUE, a, f), cx)
      BY <2>9, <2>10 DEF TooLarge, Finite
    <3>7. /\ Weight(y, h, q) < x /\ Weight(y, h, q) \in Nat
          /\ \A c \in 0..(powers[cx.digits] - 1), e \in Etiny(cx)..Etop(cx) :
                 Weight(c, e, q) <= Weight(y, h, q)
      BY <2>5, <3>4, <3>6, HeaviestIs
    <3>8. q <= h
      BY <3>4, ContextRange
    <3> HIDE DEF w
    <3>9. Size(w, q) = Weight(y, h, q)
      BY <3>5 DEF Size, Weight
    <3> QED
      BY <2>6, <3>4, <3>5, <3>7, <3>8, <3>9 DEF w
  <2>11. CASE ~TooLarge(g, cx)
    <3>1. w = Folded(g, cx)
      BY <2>5, <2>8, <2>11 DEF InRange
    <3>2. /\ w.kind = "finite" /\ w.neg = neg /\ w.coef \in Nat /\ w.exp \in Int /\ q <= w.exp
          /\ Size(w, q) = x
      BY <2>5, <2>8, <3>1, FoldKeepsWeight
    <3> HIDE DEF w
    <3> QED
      BY <2>6, <2>7, <3>2 DEF w
  <2> QED
    BY <2>10, <2>11
<1> QED
  BY <1>1, <1>2

(***************************************************************************)
(* Rows of digits: digit i of a number and the w - 1 above it, as a number *)
(* of their own.  A Unit of an array and a single digit are such fields.   *)
(***************************************************************************)
Field(c, i, w) == (c \div powers[i]) % powers[w]

LEMMA PowerPick ==
    ASSUME NEW i \in Nat
    PROVE  \E p \in Nat \ {0} : p = powers[i]
BY PowersFacts

LEMMA FieldIs ==
    ASSUME NEW c \in Nat, NEW i \in Nat, NEW w \in Nat
    PROVE  /\ Field(c, i, w) \in Nat /\ Field(c, i, w) < powers[w]
           /\ c \div powers[i] \in Nat /\ c % powers[i] \in Nat /\ c % powers[i] < powers[i]
<1>1. PICK p \in Nat \ {0} : p = powers[i]
  BY PowerPick
<1>2. PICK q \in Nat \ {0} : q = powers[w]
  BY PowerPick
<1>3. c \div p \in Nat /\ c % p \in Nat /\ c % p < p
  BY Euclid
<1>4. (c \div p) % q \in Nat /\ (c \div p) % q < q
  BY <1>3, Euclid
<1> QED
  BY <1>1, <1>2, <1>3, <1>4 DEF Field

\* the two ways to split a power: what stands above i + a
LEMMA TwoCuts ==
    ASSUME NEW c \in Nat, NEW i \in Nat, NEW a \in Nat
    PROVE  /\ c \div powers[i + a] = (c \div powers[i]) \div powers[a]
           /\ c % powers[i + a] = Field(c, i, a) * powers[i] + (c % powers[i])
<1>1. PICK p \in Nat \ {0} : p = powers[i]
  BY PowerPick
<1>2. PICK q \in Nat \ {0} : q = powers[a]
  BY PowerPick
<1>3. powers[i + a] = q * p
  <2>1. powers[a + i] = powers[a] * powers[i] /\ a + i = i + a
    BY PowersSum
  <2> QED
    BY <1>1, <1>2, <2>1
<1>4. /\ q * p \in Nat \ {0}
      /\ c \div (q * p) = (c \div p) \div q
      /\ c % (q * p) = ((c \div p) % q) * p + (c % p)
  BY QuotientTwice
<1> QED
  BY <1>1, <1>2, <1>3, <1>4 DEF Field

\* a field of what is left after the low s digits are dropped
LEMMA FieldDown ==
    ASSUME NEW c \in Nat, NEW s \in Nat, NEW i \in Nat, NEW w \in Nat
    PROVE  Field(c \div powers[s], i, w) = Field(c, i + s, w)
<1>1. c \div powers[s + i] = (c \div powers[s]) \div powers[i]
  BY TwoCuts
<1>2. s + i = i + s
  OBVIOUS
<1> QED
  BY <1>1, <1>2 DEF Field

\* the lower a digits of a field and the rest of it
LEMMA FieldParts ==
    ASSUME NEW c \in Nat, NEW i \in Nat, NEW w \in Nat, NEW a \in 0..w
    PROVE  /\ Field(c, i, w) % powers[a] = Field(c, i, a)
           /\ Field(c, i, w) \div powers[a] = Field(c, i + a, w - a)
           /\ Field(c, i, w) = Field(c, i, a) + Field(c, i + a, w - a) * powers[a]
<1>1. PICK b \in Nat : b = w - a /\ a \in Nat
  OBVIOUS
<1>2. PICK e \in Nat : e = c \div powers[i]
  BY FieldIs
<1>3. /\ e \div powers[a + b] = (e \div powers[a]) \div powers[b]
      /\ e % powers[a + b] = Field(e, a, b) * powers[a] + (e % powers[a])
  BY <1>1, TwoCuts
<1>4. Field(e, a, b) = Field(c, a + i, b) /\ a + i = i + a
  BY <1>2, FieldDown
<1>5. /\ Field(e, a, b) \in Nat /\ Field(e, a, b) < powers[b]
      /\ e \div powers[a] \in Nat /\ e % powers[a] \in Nat /\ e % powers[a] < powers[a]
  BY <1>1, FieldIs
<1>6. e % powers[w] = Field(c, i, w) /\ e % powers[a] = Field(c, i, a) /\ a + b = w
  BY <1>1, <1>2 DEF Field
<1>7. PICK q \in Nat \ {0} : q = powers[a]
  BY PowerPick
<1>8. PICK hi \in Nat : hi = Field(e, a, b)
  BY <1>5
<1>9. PICK lo \in Nat : lo = e % powers[a] /\ lo < q
  BY <1>5, <1>7
<1>10. PICK all \in Nat : all = Field(c, i, w)
  BY FieldIs
<1>11. all = hi * q + lo
  BY <1>3, <1>6, <1>7, <1>8, <1>9, <1>10
<1>12. all \div q = hi /\ all % q = lo
  BY <1>9, <1>11, QuotientIs
<1> QED
  BY <1>1, <1>4, <1>6, <1>7, <1>8, <1>9, <1>10, <1>11, <1>12

\* a number put above the m digits of another
LEMMA Stacked ==
    ASSUME NEW x \in Nat, NEW y \in Nat, NEW m \in Nat, y < powers[m]
    PROVE  /\ x * powers[m] + y \in Nat
           /\ (x * powers[m] + y) \div powers[m] = x /\ (x * powers[m] + y) % powers[m] = y
<1>1. PICK p \in Nat \ {0} : p = powers[m]
  BY PowerPick
<1>2. PICK z \in Nat : z = x * p + y
  OBVIOUS
<1>3. z \div p = x /\ z % p = y
  BY <1>1, <1>2, QuotientIs
<1> QED
  BY <1>1, <1>2, <1>3

LEMMA FieldAbove ==
    ASSUME NEW x \in Nat, NEW y \in Nat, NEW m \in Nat, y < powers[m],
           NEW i \in Nat, NEW w \in Nat
    PROVE  Field(x * powers[m] + y, i + m, w) = Field(x, i, w)
<1>1. PICK z \in Nat : z = x * powers[m] + y /\ z \div powers[m] = x
  BY Stacked
<1>2. Field(z \div powers[m], i, w) = Field(z, i + m, w)
  BY FieldDown
<1> QED
  BY <1>1, <1>2

\* a field within the low m digits
LEMMA FieldOfRest ==
    ASSUME NEW z \in Nat, NEW m \in Nat, NEW i \in Nat, NEW w \in Nat, i + w <= m
    PROVE  Field(z % powers[m], i, w) = Field(z, i, w)
<1>1. PICK a \in Nat : a = m - i /\ i + a = m /\ w \in 0..a
  OBVIOUS
<1>2. /\ z \div powers[i + a] = (z \div powers[i]) \div powers[a]
      /\ z % powers[i + a] = Field(z, i, a) * powers[i] + (z % powers[i])
  BY TwoCuts
<1>3. Field(z, i, a) \in Nat /\ z % powers[i] \in Nat /\ z % powers[i] < powers[i]
  BY <1>1, FieldIs
<1>4. (z % powers[m]) \div powers[i] = Field(z, i, a)
  <2>1. PICK hi \in Nat : hi = Field(z, i, a)
    BY <1>3
  <2>2. PICK lo \in Nat : lo = z % powers[i] /\ lo < powers[i]
    BY <1>3
  <2>3. /\ hi * powers[i] + lo \in Nat
        /\ (hi * powers[i] + lo) \div powers[i] = hi /\ (hi * powers[i] + lo) % powers[i] = lo
    BY <2>2, Stacked
  <2> QED
    BY <1>1, <1>2, <2>1, <2>2, <2>3
<1>5. Field(z, i, a) % powers[w] = Field(z, i, w)
  BY <1>1, FieldParts
<1> QED
  BY <1>4, <1>5 DEF Field

LEMMA FieldBelow ==
    ASSUME NEW x \in Nat, NEW y \in Nat, NEW m \in Nat, y < powers[m],
           NEW i \in Nat, NEW w \in Nat, i + w <= m
    PROVE  Field(x * powers[m] + y, i, w) = Field(y, i, w)
<1>1. PICK z \in Nat : z = x * powers[m] + y /\ z % powers[m] = y
  BY Stacked
<1>2. Field(z % powers[m], i, w) = Field(z, i, w)
  BY FieldOfRest
<1> QED
  BY <1>1, <1>2

\* the fields of a number that has no digits beyond m
LEMMA FieldBeyond ==
    ASSUME NEW c \in Nat, NEW m \in Nat, c < powers[m], NEW i \in Nat, NEW w \in Nat
    PROVE  /\ m <= i => c \div powers[i] = 0 /\ Field(c, i, w) = 0
           /\ m <= i + w => Field(c, i, w) = c \div powers[i]
<1>1. PICK p \in Nat \ {0} : p = powers[i]
  BY PowerPick
<1>2. PICK q \in Nat \ {0} : q = powers[w]
  BY PowerPick
<1>3. c \div p \in Nat /\ c % p \in Nat /\ c % p < p /\ c = (c \div p) * p + (c % p)
  BY Euclid
<1>4. ASSUME m <= i PROVE c \div p = 0
  <2>1. powers[m] <= powers[i] /\ powers[m] \in Nat
    BY <1>4, PowersGrow, PowersFacts
  <2>2. c < p
    BY <1>1, <2>1
  <2>3. c = 0 * p + c
    BY <1>1
  <2> QED
    BY <2>2, <2>3, QuotientIs
<1>5. ASSUME NEW h \in Nat, h < q PROVE h % q = h
  <2>1. h = 0 * q + h
    BY <1>2
  <2> QED
    BY <1>5, <2>1, QuotientIs
<1>6. ASSUME m <= i + w PROVE c \div p < q
  <2>1. powers[m] <= powers[w + i] /\ powers[m] \in Nat /\ powers[w + i] \in Nat
    BY <1>6, PowersGrow, PowersFacts
  <2>2. powers[w + i] = powers[w] * powers[i]
    BY PowersSum
  <2>3. c < q * p
    BY <1>1, <1>2, <2>1, <2>2
  <2>4. PICK h \in Nat : h = c \div p
    BY <1>3
  <2>5. h * p <= c /\ h * p \in Nat
    BY <1>3, <2>4
  <2>6. ASSUME q <= h PROVE FALSE
    <3>1. q * p <= h * p
      BY <2>4, <2>6, MulGrows
    <3>2. q * p \in Nat
      OBVIOUS
    <3> QED
      BY <2>3, <2>5, <3>1, <3>2
  <2> QED
    BY <2>4, <2>6
<1>7. ASSUME m <= i PROVE (c \div p) % q = 0
  BY <1>4, <1>5, <1>7
<1>8. ASSUME m <= i + w PROVE (c \div p) % q = c \div p
  BY <1>3, <1>5, <1>6, <1>8
<1> QED
  BY <1>1, <1>2, <1>4, <1>7, <1>8 DEF Field

\* where Unit k begins
LEMMA UnitPlace ==
    ASSUME NEW k \in Nat \ {0}
    PROVE  /\ DPUN * (k - 1) \in Nat /\ DPUN * k \in Nat
           /\ DPUN * k = DPUN * (k - 1) + DPUN
BY UnitBase

LEMMA UnitsAreFields ==
    ASSUME NEW c \in Nat, NEW n \in Nat
    PROVE  /\ DOMAIN ToUnits(c, n) = 1..n
           /\ \A k \in 1..n : ToUnits(c, n)[k] = Field(c, DPUN * (k - 1), DPUN)
           /\ c < powers[DPUN * n] =>
                  \A k \in Nat \ {0} : UnitAt(ToUnits(c, n), k) = Field(c, DPUN * (k - 1), DPUN)
<1> DEFINE u == ToUnits(c, n)
<1>1. DOMAIN u = 1..n /\ \A k \in 1..n : u[k] = Field(c, DPUN * (k - 1), DPUN)
  BY DEF ToUnits, Field, Base
<1> HIDE DEF u
<1>2. ASSUME c < powers[DPUN * n], NEW k \in Nat \ {0}
      PROVE  UnitAt(u, k) = Field(c, DPUN * (k - 1), DPUN)
  <2>1. CASE k \in 1..n
    BY <1>1, <2>1 DEF UnitAt
  <2>2. CASE k \notin 1..n
    <3>1. PICK i \in Nat : i = DPUN * (k - 1)
      BY UnitPlace
    <3>2. PICK m \in Nat : m = DPUN * n
      BY UnitBase
    <3>3. m <= i
      <4>1. n <= k - 1 /\ k - 1 \in Nat /\ DPUN \in Nat
        BY <2>2, UnitBase
      <4>2. DPUN * n <= DPUN * (k - 1)
        BY <4>1, MulGrows
      <4> QED
        BY <3>1, <3>2, <4>2
    <3>4. c < powers[m] /\ DPUN \in Nat
      BY <1>2, <3>2, UnitBase
    <3>5. /\ m <= i => c \div powers[i] = 0 /\ Field(c, i, DPUN) = 0
          /\ m <= i + DPUN => Field(c, i, DPUN) = c \div powers[i]
      BY <3>4, FieldBeyond
    <3> QED
      BY <1>1, <2>2, <3>1, <3>3, <3>5 DEF UnitAt
  <2> QED
    BY <2>1, <2>2
<1> QED
  BY <1>1, <1>2 DEF u

\* an array is told by its fields
LEMMA FieldsMakeUnits ==
    ASSUME NEW c \in Nat, NEW n \in Nat, NEW S, NEW u \in [1..n -> S],
           \A k \in 1..n : u[k] = Field(c, DPUN * (k - 1), DPUN)
    PROVE  u = ToUnits(c, n)
<1>1. ToUnits(c, n) = [k \in 1..n |-> Field(c, DPUN * (k - 1), DPUN)]
  BY DEF ToUnits, Field, Base
<1>2. u = [k \in 1..n |-> u[k]]
  OBVIOUS
<1> QED
  BY <1>1, <1>2

LEMMA JoinedIsField ==
    ASSUME NEW u, NEW k \in Int, NEW z \in Nat, NEW i \in Nat, NEW cut \in 0..DPUN,
           UnitAt(u, k) = Field(z, i, DPUN), UnitAt(u, k + 1) = Field(z, i + DPUN, DPUN)
    PROVE  Joined(u, k, cut) = Field(z, i + cut, DPUN)
<1>1. PICK w \in Nat : w = DPUN /\ cut \in 0..w /\ cut \in Nat
  BY UnitBase
<1>2. PICK d \in 0..w : d = w - cut /\ d \in Nat /\ cut + d = w
  BY <1>1
<1>3. Field(z, i, w) \div powers[cut] = Field(z, i + cut, w - cut)
  BY <1>1, FieldParts
<1>4. PICK j \in Nat : j = i + w
  BY <1>1
<1>5. Field(z, j, w) % powers[cut] = Field(z, j, cut)
  BY <1>1, FieldParts
<1>6. PICK h \in Nat : h = i + cut
  BY <1>1
<1>7. Field(z, h, w) = Field(z, h, d) + Field(z, h + d, w - d) * powers[d]
  BY <1>1, <1>2, FieldParts
<1>8. h + d = j /\ w - d = cut
  BY <1>1, <1>2, <1>4, <1>6
<1>9. Joined(u, k, cut) = Field(z, h, d) + Field(z, j, cut) * powers[d]
  BY <1>1, <1>2, <1>3, <1>4, <1>5, <1>6 DEF Joined
<1> QED
  BY <1>1, <1>6, <1>7, <1>8, <1>9

(***************************************************************************)
(* How many Units so many digits take, and the digits in the first.        *)
(***************************************************************************)
LEMMA UnitsTaken ==
    ASSUME NEW d \in Nat, NEW n \in Nat, d <= DPUN * n, DPUN * n < d + DPUN
    PROVE  D2U(d) = n
<1>1. PICK w \in Nat \ {0} : w = DPUN
  BY UnitBase
<1>2. PICK t \in Nat : t = n * w /\ t = DPUN * n
  BY <1>1
<1>3. PICK rest \in Nat : rest = d + w - 1 - t /\ rest < w
  BY <1>1, <1>2
<1>4. PICK a \in Nat : a = d + w - 1
  OBVIOUS
<1>5. a = n * w + rest
  BY <1>2, <1>3, <1>4
<1>6. a \div w = n
  BY <1>3, <1>5, QuotientIs
<1> QED
  BY <1>1, <1>4, <1>6 DEF D2U

LEMMA UnitsReach ==
    ASSUME NEW d \in Nat, NEW k \in Nat \ {0}
    PROVE  k <= D2U(d) <=> DPUN * (k - 1) < d
<1>1. PICK n \in Nat : n = D2U(d) /\ d <= DPUN * n /\ DPUN * n < d + DPUN
  BY UnitsNeeded
<1>2. PICK j \in Nat : j = k - 1 /\ k = j + 1
  OBVIOUS
<1>3. DPUN \in Nat /\ DPUN * n \in Nat /\ DPUN * j \in Nat /\ DPUN * k = DPUN * j + DPUN
  BY <1>2, UnitBase
<1>4. ASSUME k <= n PROVE DPUN * j < d
  <2>1. DPUN * k <= DPUN * n
    BY <1>3, <1>4, MulGrows
  <2> QED
    BY <1>1, <1>3, <2>1
<1>5. ASSUME ~(k <= n) PROVE ~(DPUN * j < d)
  <2>1. n <= j
    BY <1>2, <1>5
  <2>2. DPUN * n <= DPUN * j
    BY <1>3, <2>1, MulGrows
  <2> QED
    BY <1>1, <1>3, <2>2
<1> QED
  BY <1>1, <1>2, <1>4, <1>5

LEMMA FirstUnit ==
    ASSUME NEW d \in Nat \ {0}
    PROVE  \E j \in Nat, m \in 1..DPUN :
               D2U(d) = j + 1 /\ MSUDigits(d) = m /\ d = DPUN * j + m
<1>1. PICK n \in Nat : n = D2U(d) /\ d <= DPUN * n /\ DPUN * n < d + DPUN
  BY UnitsNeeded
<1>2. DPUN \in Nat /\ n # 0
  <2>1. DPUN * 0 = 0 /\ DPUN \in Nat
    BY UnitBase
  <2> QED
    BY <1>1, <2>1
<1>3. PICK j \in Nat : j = n - 1 /\ n = j + 1
  BY <1>2
<1>4. PICK t \in Nat : t = DPUN * j /\ (n - 1) * DPUN = t /\ DPUN * n = t + DPUN
  BY <1>2, <1>3
<1>5. PICK m \in 1..DPUN : m = d - t
  BY <1>1, <1>2, <1>4
<1>6. MSUDigits(d) = m
  BY <1>1, <1>4, <1>5 DEF MSUDigits
<1>7. D2U(d) = j + 1 /\ d = DPUN * j + m
  BY <1>1, <1>2, <1>3, <1>4, <1>5
<1> QED
  BY <1>6, <1>7, Zenon

(***************************************************************************)
(* decShiftToLeast and decShiftToMost.                                     *)
(***************************************************************************)
\* the lowest n Units of an array hold c, and these moved down
LowUnitsHold(u, n, c) ==
    /\ u \in Arrays /\ n \in 0..Len(u) /\ c \in Nat /\ c < powers[DPUN * n]
    /\ \A k \in 1..n : u[k] = Field(c, DPUN * (k - 1), DPUN)

Lowered(u, n, c, by) ==
    [k \in 1..Len(u) |-> IF DPUN * (k - 1) < DPUN * n - by
                         THEN Field(c, DPUN * (k - 1) + by, DPUN) ELSE u[k]]

LEMMA ShiftDownIs ==
    ASSUME NEW u, NEW n, NEW c, LowUnitsHold(u, n, c), NEW by \in Nat \ {0}, by < DPUN * n
    PROVE  ShiftToLeast(u, n, by) = Lowered(u, n, c, by)
<1>0. /\ u \in Arrays /\ n \in 0..Len(u) /\ c \in Nat /\ c < powers[DPUN * n]
      /\ \A k \in 1..n : u[k] = Field(c, DPUN * (k - 1), DPUN)
  BY DEF LowUnitsHold
<1> DEFINE used == SubSeq(u, 1, n)
<1>1. PICK j \in Nat, cut \in 1..DPUN :
          D2U(by) = j + 1 /\ MSUDigits(by) = cut /\ by = DPUN * j + cut
  BY FirstUnit
<1>2. DPUN \in Nat \ {0} /\ n \in Nat /\ Len(u) \in Nat /\ cut \in Nat /\ u \in Seq(Nat)
      /\ DOMAIN u = 1..Len(u) /\ DPUN * n \in Nat /\ n * DPUN = DPUN * n
  BY <1>0, ArrayFacts, UnitBase
<1>3. D2U(by - cut) = j
  <2>1. PICK t \in Nat : t = DPUN * j
    BY <1>2
  <2>2. t <= DPUN * j /\ DPUN * j < t + DPUN /\ by - cut = t
    BY <1>1, <1>2, <2>1
  <2> QED
    BY <2>1, <2>2, UnitsTaken
<1>4. used = ToUnits(c, n)
  <2>1. Len(used) = n /\ DOMAIN used = 1..n /\ \A k \in 1..n : used[k] = u[k]
    BY <1>0, <1>2
  <2>2. used \in [1..n -> Nat]
    <3>1. \A k \in 1..n : u[k] \in Nat
      BY <1>0, <1>2, ArrayFacts
    <3>2. used = [k \in 1..n |-> u[k]]
      BY <1>0, <1>2
    <3> QED
      BY <3>1, <3>2
  <2>3. \A k \in 1..n : used[k] = Field(c, DPUN * (k - 1), DPUN)
    BY <1>0, <2>1
  <2> HIDE DEF used
  <2> QED
    BY <1>0, <1>2, <2>2, <2>3, FieldsMakeUnits
<1>5. \A k \in Nat \ {0} : UnitAt(used, k) = Field(c, DPUN * (k - 1), DPUN)
  <2>1. \A k \in Nat \ {0} : UnitAt(ToUnits(c, n), k) = Field(c, DPUN * (k - 1), DPUN)
    BY <1>0, <1>2, UnitsAreFields
  <2> QED
    BY <1>4, <2>1, Zenon
<1>6. \A k \in 1..n : used[k] = Field(c, DPUN * (k - 1), DPUN)
  BY <1>0, <1>2, <1>4, UnitsAreFields
<1> HIDE DEF used
<1>7. ASSUME NEW k \in 1..Len(u)
      PROVE  (IF k > D2U(n * DPUN - by) THEN u[k]
              ELSE IF cut = DPUN THEN used[k + D2U(by)]
              ELSE Joined(used, k + D2U(by - cut), cut))
             = (IF DPUN * (k - 1) < DPUN * n - by
                THEN Field(c, DPUN * (k - 1) + by, DPUN) ELSE u[k])
  <2>1. PICK left \in Nat : left = n * DPUN - by /\ left = DPUN * n - by
    BY <1>2
  <2>2. k \in Nat \ {0} /\ (k <= D2U(left) <=> DPUN * (k - 1) < left) /\ D2U(left) \in Nat
    <3>1. k \in Nat \ {0}
      OBVIOUS
    <3>2. k <= D2U(left) <=> DPUN * (k - 1) < left
      BY <3>1, UnitsReach
    <3> QED
      BY <3>1, <3>2, UnitsNeeded
  <2>3. PICK i \in Nat : i = DPUN * (k - 1)
    BY <2>2, UnitPlace
  <2>4. PICK h \in Nat \ {0} : h = k + j
    BY <2>2
  <2>5. /\ DPUN * (h - 1) = i + DPUN * j /\ DPUN * j \in Nat
        /\ DPUN * ((h + 1) - 1) = i + DPUN * j + DPUN
    BY <1>2, <2>2, <2>3, <2>4
  <2>6. ASSUME i < left, cut = DPUN
        PROVE  used[k + D2U(by)] = Field(c, i + by, DPUN)
    <3>1. PICK g \in Nat \ {0} : g = k + D2U(by) /\ g = h + 1
      BY <1>1, <2>2, <2>4
    <3>2. DPUN * (g - 1) = i + by
      <4>1. g - 1 = h /\ DPUN * h = DPUN * ((h + 1) - 1)
        BY <2>4, <3>1
      <4> QED
        BY <1>1, <1>2, <2>3, <2>5, <2>6, <4>1
    <3>3. g <= n
      <4>1. DPUN * (g - 1) < DPUN * n
        <5>1. i + by < DPUN * n
          BY <1>2, <2>1, <2>3, <2>6
        <5> QED
          BY <3>2, <5>1
      <4>2. ASSUME n <= g - 1 PROVE FALSE
        <5>0. PICK f \in Nat : f = g - 1
          BY <3>1
        <5>1. g - 1 \in Nat /\ DPUN * n <= DPUN * (g - 1)
          BY <1>2, <4>2, <5>0, MulGrows
        <5>2. DPUN * (g - 1) \in Nat
          BY <1>2, <5>1
        <5> QED
          BY <1>2, <4>1, <5>1, <5>2
      <4> QED
        BY <1>2, <3>1, <4>2
    <3>4. used[g] = Field(c, DPUN * (g - 1), DPUN)
      BY <1>2, <1>6, <3>1, <3>3
    <3> QED
      BY <3>1, <3>2, <3>4
  <2>7. Joined(used, k + D2U(by - cut), cut) = Field(c, i + by, DPUN)
    <3>1. PICK z \in Nat : z = i + DPUN * j
      BY <2>5
    <3>2. UnitAt(used, h) = Field(c, z, DPUN)
      BY <1>5, <2>4, <2>5, <3>1
    <3>3. UnitAt(used, h + 1) = Field(c, z + DPUN, DPUN)
      <4>1. h + 1 \in Nat \ {0} /\ DPUN * ((h + 1) - 1) = z + DPUN
        BY <2>5, <3>1
      <4> QED
        BY <1>5, <4>1
    <3>4. h \in Int /\ cut \in 0..DPUN
      BY <1>2, <2>4
    <3>5. Joined(used, h, cut) = Field(c, z + cut, DPUN)
      BY <1>0, <3>2, <3>3, <3>4, JoinedIsField
    <3>6. z + cut = i + by /\ k + D2U(by - cut) = h
      BY <1>1, <1>2, <1>3, <2>4, <2>5, <3>1
    <3> QED
      BY <3>5, <3>6
  <2>8. k > D2U(n * DPUN - by) <=> ~(i < left)
    BY <2>1, <2>2, <2>3
  <2>9. CASE i < left
    BY <2>1, <2>3, <2>6, <2>7, <2>8, <2>9
  <2>10. CASE ~(i < left)
    BY <2>1, <2>3, <2>8, <2>10
  <2> QED
    BY <2>9, <2>10
<1>8. ShiftToLeast(u, n, by)
          = [k \in 1..Len(u) |->
                IF k > D2U(n * DPUN - by) THEN u[k]
                ELSE IF cut = DPUN THEN used[k + D2U(by)]
                ELSE Joined(used, k + D2U(by - cut), cut)]
  <2>1. by # 0 /\ by # n * DPUN
    BY <1>2
  <2> QED
    BY <1>1, <1>2, <2>1, Zenon DEF ShiftToLeast, used
<1> QED
  BY <1>7, <1>8, Zenon DEF Lowered

LEMMA ShiftUpIs ==
    ASSUME NEW d \in Nat \ {0}, NEW c \in Nat, c < powers[d], NEW by \in Nat \ {0}
    PROVE  ShiftToMost(ToUnits(c, D2U(d)), d, by) = ToUnits(c * powers[by], D2U(d + by))
<1>1. PICK j \in Nat, m \in 1..DPUN :
          D2U(by) = j + 1 /\ MSUDigits(by) = m /\ by = DPUN * j + m
  BY FirstUnit
<1>2. PICK n \in Nat : n = D2U(d) /\ d <= DPUN * n
  BY UnitsNeeded
<1>3. DPUN \in Nat \ {0} /\ m \in Nat /\ DPUN * n \in Nat
  BY <1>2, UnitBase
<1>4. c < powers[DPUN * n]
  <2>1. powers[d] <= powers[DPUN * n] /\ powers[d] \in Nat /\ powers[DPUN * n] \in Nat
    BY <1>2, <1>3, PowersGrow, PowersFacts
  <2> QED
    BY <2>1
<1>5. PICK u : u = ToUnits(c, n) /\ u \in Arrays /\ Len(u) = n
  BY ToUnitsIs
<1>6. SubSeq(u, 1, n) = u
  BY <1>5 DEF Arrays
<1>7. \A k \in Nat \ {0} : UnitAt(u, k) = Field(c, DPUN * (k - 1), DPUN)
  BY <1>4, <1>5, UnitsAreFields
<1>8. PICK cut \in 0..DPUN : cut = DPUN - m /\ cut \in Nat
  BY <1>3
<1>9. PICK t \in Nat : t = DPUN * (j + 1) /\ t = by + cut
  BY <1>1, <1>3, <1>8
<1>10. PICK p \in Nat \ {0} : p = powers[by]
  BY PowerPick
<1>11. PICK z \in Nat : z = c * powers[t] + 0
  BY <1>9, PowersFacts
<1>12. z \div powers[cut] = c * p
  <2>1. powers[by + cut] = powers[by] * powers[cut]
    BY <1>8, PowersSum
  <2>2. PICK q \in Nat \ {0} : q = powers[cut]
    BY <1>8, PowerPick
  <2>3. PICK v \in Nat : v = c * p
    OBVIOUS
  <2>4. z = v * powers[cut] + 0
    BY <1>9, <1>10, <1>11, <2>1, <2>2, <2>3
  <2>5. 0 < powers[cut] /\ 0 \in Nat
    BY <2>2
  <2>6. (v * powers[cut] + 0) \div powers[cut] = v
    BY <1>8, <2>5, Stacked
  <2> QED
    BY <2>3, <2>4, <2>6
<1>13. ASSUME NEW k \in Nat \ {0}
       PROVE  UnitAt(u, k - (j + 1)) = Field(z, DPUN * (k - 1), DPUN)
  <2>1. PICK i \in Nat : i = DPUN * (k - 1)
    BY UnitPlace
  <2>2. 0 < powers[t] /\ 0 \in Nat
    BY <1>9, PowersFacts
  <2>3. CASE k > j + 1
    <3>1. PICK h \in Nat \ {0} : h = k - (j + 1)
      BY <2>3
    <3>2. PICK g \in Nat : g = DPUN * (h - 1)
      BY UnitPlace
    <3>3. i = g + t
      BY <1>3, <1>9, <2>1, <3>1, <3>2
    <3>4. Field(c * powers[t] + 0, g + t, DPUN) = Field(c, g, DPUN)
      BY <1>3, <2>2, FieldAbove
    <3> QED
      BY <1>7, <1>11, <2>1, <3>1, <3>2, <3>3, <3>4
  <2>4. CASE ~(k > j + 1)
    <3>1. UnitAt(u, k - (j + 1)) = 0
      <4>1. DOMAIN u = 1..n /\ k - (j + 1) \in Int /\ k - (j + 1) <= 0
        BY <1>5, <2>4, ArrayFacts
      <4> QED
        BY <4>1 DEF UnitAt
    <3>2. i + DPUN <= t
      <4>1. DPUN * k <= DPUN * (j + 1) /\ DPUN * k = i + DPUN
        BY <1>3, <2>1, <2>4, MulGrows, UnitPlace
      <4> QED
        BY <1>9, <4>1
    <3>3. Field(c * powers[t] + 0, i, DPUN) = Field(0, i, DPUN)
      BY <1>3, <2>2, <3>2, FieldBelow
    <3>4. Field(0, i, DPUN) = 0
      <4>1. 0 < powers[0] /\ 0 \in Nat
        BY PowersFacts
      <4>2. /\ 0 <= i => 0 \div powers[i] = 0 /\ Field(0, i, DPUN) = 0
            /\ 0 <= i + DPUN => Field(0, i, DPUN) = 0 \div powers[i]
        BY <1>3, <4>1, FieldBeyond
      <4> QED
        BY <4>2
    <3> QED
      BY <1>11, <2>1, <3>1, <3>3, <3>4
  <2> QED
    BY <2>3, <2>4
<1>14. ASSUME NEW k \in Nat \ {0}
       PROVE  Joined(u, k - D2U(by), cut) = Field(c * powers[by], DPUN * (k - 1), DPUN)
  <2>1. PICK i \in Nat : i = DPUN * (k - 1) /\ DPUN * ((k + 1) - 1) = i + DPUN
    BY UnitPlace
  <2>2. PICK g \in Int : g = k - (j + 1) /\ g + 1 = (k + 1) - (j + 1) /\ g = k - D2U(by)
    BY <1>1
  <2>3. UnitAt(u, g) = Field(z, i, DPUN)
    BY <1>13, <2>1, <2>2
  <2>4. UnitAt(u, g + 1) = Field(z, i + DPUN, DPUN)
    <3>1. k + 1 \in Nat \ {0}
      OBVIOUS
    <3> QED
      BY <1>13, <2>1, <2>2, <3>1
  <2>5. Joined(u, g, cut) = Field(z, i + cut, DPUN)
    BY <2>3, <2>4, JoinedIsField
  <2>6. Field(z \div powers[cut], i, DPUN) = Field(z, i + cut, DPUN)
    BY <1>3, <1>8, FieldDown
  <2> QED
    BY <1>10, <1>12, <2>1, <2>2, <2>5, <2>6
<1>15. ShiftToMost(u, d, by) = [k \in 1..D2U(d + by) |-> Joined(u, k - D2U(by), cut)]
  <2>1. by # 0 /\ DPUN - MSUDigits(by) = cut
    BY <1>1, <1>8
  <2> QED
    BY <1>2, <1>6, <2>1, Zenon DEF ShiftToMost
<1>16. ToUnits(c * powers[by], D2U(d + by))
          = [k \in 1..D2U(d + by) |-> Field(c * powers[by], DPUN * (k - 1), DPUN)]
  BY DEF ToUnits, Field, Base
<1>17. \A k \in 1..D2U(d + by) : k \in Nat \ {0}
  OBVIOUS
<1> QED
  BY <1>2, <1>5, <1>14, <1>15, <1>16, <1>17, Zenon

(***************************************************************************)
(* A number on top of another: a field that the seam of the two runs       *)
(* through, and how many digits the whole has.                             *)
(***************************************************************************)
LEMMA Straddle ==
    ASSUME NEW x \in Nat, NEW y \in Nat, NEW m \in Nat, y < powers[m],
           NEW i \in Nat, NEW w \in Nat, i <= m, m <= i + w
    PROVE  Field(x * powers[m] + y, i, w)
               = Field(y, i, w) + (x % powers[w - (m - i)]) * powers[m - i]
<1>1. PICK a \in 0..w : a = m - i /\ i + a = m /\ a \in Nat
  OBVIOUS
<1>2. PICK b \in Nat : b = w - a
  BY <1>1
<1>3. PICK z \in Nat : z = x * powers[m] + y
  BY Stacked
<1>4. Field(z, i, w) = Field(z, i, a) + Field(z, i + a, w - a) * powers[a]
  BY <1>1, FieldParts
<1>5. Field(z, i, a) = Field(y, i, w)
  <2>1. i + a <= m
    BY <1>1
  <2>2. Field(x * powers[m] + y, i, a) = Field(y, i, a)
    BY <1>1, <2>1, FieldBelow
  <2>3. /\ m <= i => y \div powers[i] = 0 /\ Field(y, i, a) = 0
        /\ m <= i + a => Field(y, i, a) = y \div powers[i]
    BY <1>1, FieldBeyond
  <2>4. /\ m <= i => y \div powers[i] = 0 /\ Field(y, i, w) = 0
        /\ m <= i + w => Field(y, i, w) = y \div powers[i]
    BY FieldBeyond
  <2> QED
    BY <1>1, <1>3, <2>2, <2>3, <2>4
<1>6. Field(z, m, b) = x % powers[b]
  <2>1. Field(x * powers[m] + y, 0 + m, b) = Field(x, 0, b)
    BY <1>2, FieldAbove
  <2>2. Field(x, 0, b) = x % powers[b]
    BY PowersFacts DEF Field
  <2> QED
    BY <1>3, <2>1, <2>2
<1> QED
  BY <1>1, <1>2, <1>3, <1>4, <1>5, <1>6

LEMMA RestOfSmall ==
    ASSUME NEW x \in Nat, NEW b \in Nat, x < powers[b]
    PROVE  x % powers[b] = x
<1>1. 0 * powers[b] + x = x
  BY PowersFacts
<1>2. 0 \in Nat
  OBVIOUS
<1>3. /\ 0 * powers[b] + x \in Nat
      /\ (0 * powers[b] + x) \div powers[b] = 0 /\ (0 * powers[b] + x) % powers[b] = x
  BY <1>2, Stacked
<1> QED
  BY <1>1, <1>3

LEMMA QuotientIn ==
    ASSUME NEW c \in Nat, NEW a \in Nat, NEW b \in Nat, c < powers[a + b]
    PROVE  c \div powers[a] \in Nat /\ c \div powers[a] < powers[b]
<1>1. PICK m \in Nat : m = a + b
  OBVIOUS
<1>2. /\ m <= a => c \div powers[a] = 0 /\ Field(c, a, b) = 0
      /\ m <= a + b => Field(c, a, b) = c \div powers[a]
  BY <1>1, FieldBeyond
<1>3. Field(c, a, b) \in Nat /\ Field(c, a, b) < powers[b]
  BY FieldIs
<1> QED
  BY <1>1, <1>2, <1>3

LEMMA StackedBelow ==
    ASSUME NEW x \in Nat, NEW y \in Nat, NEW m \in Nat, NEW a \in Nat,
           y < powers[m], x < powers[a]
    PROVE  x * powers[m] + y < powers[a + m]
<1>1. PICK p \in Nat \ {0} : p = powers[m]
  BY PowerPick
<1>2. PICK q \in Nat \ {0} : q = powers[a]
  BY PowerPick
<1>3. powers[a + m] = q * p
  BY <1>1, <1>2, PowersSum
<1>4. x + 1 <= q /\ x + 1 \in Nat
  BY <1>2
<1>5. (x + 1) * p <= q * p
  BY <1>4, MulGrows
<1>6. (x + 1) * p = x * p + p
  OBVIOUS
<1> QED
  BY <1>1, <1>3, <1>5, <1>6

=============================================================================
