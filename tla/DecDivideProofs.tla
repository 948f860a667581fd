--------------------------- MODULE DecDivideProofs --------------------------
(***************************************************************************)
(* Proofs about decDivideOp, for every pair of numbers, every context and  *)
(* every length of Unit.                                                   *)
(***************************************************************************)
EXTENDS DecDivideCorrect, DecRoundProofs

(***************************************************************************)
(* Units: BP(k) is the value of the k-th Unit's place.                     *)
(***************************************************************************)
BP(k) == powers[DPUN * k]

LEMMA DPUNRange == DPUN \in Nat \ {0}
  BY DPUNAssumption

LEMMA BaseFacts ==
    /\ Base \in Nat /\ Base >= 10 /\ Base = BP(1) /\ BP(0) = 1
    /\ Base = powers[DPUN]
<1>1. DPUN * 1 = DPUN /\ DPUN * 0 = 0 /\ DPUN >= 1
  BY DPUNRange
<1>2. powers[DPUN] = 10 * powers[DPUN - 1] /\ powers[DPUN - 1] \in Nat \ {0}
  BY DPUNRange, PowersStep
<1>3. powers[0] = 1
  BY PowersFacts
<1>4. BP(1) = powers[DPUN] /\ BP(0) = 1
  BY <1>1, <1>3 DEF BP
<1>5. powers[DPUN] \in Nat /\ powers[DPUN] >= 10
  BY <1>2
<1> QED
  BY <1>4, <1>5 DEF Base

LEMMA BPSum ==
    ASSUME NEW j \in Nat, NEW k \in Nat
    PROVE  /\ BP(j) \in Nat \ {0} /\ BP(j + k) = BP(j) * BP(k)
           /\ DPUN * j \in Nat /\ DPUN * (j + k) = DPUN * j + DPUN * k
<1>1. PICK a \in Nat, b \in Nat : a = DPUN * j /\ b = DPUN * k /\ DPUN * (j + k) = a + b
  BY DPUNRange
<1>2. powers[a] \in Nat \ {0} /\ powers[a + b] = powers[a] * powers[b]
  <2>1. powers[a] \in Nat /\ powers[a] >= 1
    BY <1>1, PowersFacts
  <2>2. powers[a + b] = powers[a] * powers[b]
    BY <1>1, PowersSum
  <2> QED
    BY <2>1, <2>2
<1> QED
  BY <1>1, <1>2 DEF BP

LEMMA BPStep ==
    ASSUME NEW k \in Nat
    PROVE  /\ BP(k) \in Nat \ {0} /\ BP(k + 1) \in Nat \ {0}
           /\ BP(k + 1) = BP(k) * Base /\ BP(k + 1) = Base * BP(k)
           /\ BP(k) < BP(k + 1)
<1>1. BP(k) \in Nat \ {0} /\ BP(k + 1) = BP(k) * Base
  <2>1. 1 \in Nat
    OBVIOUS
  <2>2. BP(k) \in Nat \ {0} /\ BP(k + 1) = BP(k) * BP(1)
    BY <2>1, BPSum
  <2>3. BP(1) = Base
    BY BaseFacts
  <2> QED
    BY <2>2, <2>3
<1>2. PICK x \in Nat \ {0}, b \in Nat : x = BP(k) /\ b = Base /\ b >= 10
  BY <1>1, BaseFacts
<1>3. x * b = b * x /\ x * b >= x * 10 /\ x * b \in Nat
  BY <1>2
<1> QED
  BY <1>1, <1>2, <1>3

LEMMA BPGrow ==
    ASSUME NEW j \in Nat, NEW k \in Nat, j <= k
    PROVE  BP(j) <= BP(k)
<1>1. DPUN * j <= DPUN * k /\ DPUN * j \in Nat /\ DPUN * k \in Nat
  BY DPUNRange
<1> QED
  BY <1>1, PowersGrow DEF BP

LEMMA D2UIs ==
    ASSUME NEW d \in Nat \ {0}
    PROVE  /\ D2U(d) \in Nat \ {0}
           /\ d <= DPUN * D2U(d) /\ DPUN * (D2U(d) - 1) < d
<1>1. d + DPUN - 1 \in Nat /\ DPUN \in Nat \ {0}
  BY DPUNRange
<1>2. PICK u \in Nat, r \in Nat : /\ u = (d + DPUN - 1) \div DPUN /\ r < DPUN
                                  /\ d + DPUN - 1 = u * DPUN + r
  BY <1>1, Euclid
<1>3. u # 0
  BY <1>1, <1>2
<1>4. u * DPUN = DPUN * u /\ DPUN * (u - 1) = DPUN * u - DPUN
  BY <1>1, <1>2
<1>5. PICK m \in Nat : m = DPUN * u
  BY <1>1, <1>2
<1>6. d <= m /\ m - DPUN < d
  BY <1>1, <1>2, <1>4, <1>5
<1> QED
  BY <1>2, <1>3, <1>4, <1>5, <1>6 DEF D2U

LEMMA D2UAtMost ==
    ASSUME NEW d \in Nat \ {0}, NEW k \in Nat
    PROVE  D2U(d) <= k <=> d <= DPUN * k
<1>1. PICK u \in Nat \ {0} : u = D2U(d) /\ d <= DPUN * u /\ DPUN * (u - 1) < d
  BY D2UIs
<1>2. CASE u <= k
  BY <1>1, <1>2, DPUNRange
<1>3. CASE k <= u - 1
  <2>1. DPUN * k <= DPUN * (u - 1) /\ DPUN * k \in Nat /\ DPUN * (u - 1) \in Nat
    BY <1>1, <1>3, DPUNRange
  <2> QED
    BY <1>1, <1>3, <2>1
<1> QED
  BY <1>1, <1>2, <1>3

\* one more Unit is DPUN more digits
LEMMA D2UMore ==
    ASSUME NEW d \in Nat \ {0}
    PROVE  D2U(d + DPUN) = D2U(d) + 1
<1>1. PICK u \in Nat \ {0} : u = D2U(d)
  BY D2UIs
<1>2. PICK v \in Nat \ {0} : v = D2U(d + DPUN)
  BY D2UIs, DPUNRange
<1>3. d + DPUN \in Nat \ {0}
  BY DPUNRange
<1>4. d <= DPUN * u /\ DPUN * (u - 1) < d /\ d + DPUN <= DPUN * v /\ DPUN * (v - 1) < d + DPUN
  BY <1>1, <1>2, <1>3, D2UIs
<1>5. /\ DPUN * (u + 1) = DPUN * u + DPUN /\ DPUN * u \in Nat
      /\ DPUN * (u - 1) = DPUN * u - DPUN /\ DPUN * (v - 1) = DPUN * v - DPUN
      /\ DPUN * v \in Nat
  BY <1>1, <1>2, DPUNRange
<1>6. v <= u + 1
  <2>1. d + DPUN <= DPUN * (u + 1)
    BY <1>4, <1>5, DPUNRange
  <2> QED
    BY <1>1, <1>2, <1>3, <2>1, D2UAtMost
<1>7. u <= v - 1
  <2>1. d <= DPUN * (v - 1)
    BY <1>4, <1>5, DPUNRange
  <2> QED
    BY <1>1, <1>2, <2>1, D2UAtMost
<1> QED
  BY <1>1, <1>2, <1>6, <1>7

LEMMA UnitsAtMost ==
    ASSUME NEW n \in Nat, NEW k \in Nat \ {0}
    PROVE  Units(n) <= k <=> n < BP(k)
<1>1. DPUN * k \in Nat \ {0}
  BY DPUNRange
<1>2. Digits(n) \in Nat \ {0}
  BY DigitsFacts
<1>3. Units(n) <= k <=> Digits(n) <= DPUN * k
  BY <1>2, D2UAtMost DEF Units
<1>4. Digits(n) <= DPUN * k <=> n < powers[DPUN * k]
  BY <1>1, DigitsAtMost
<1> QED
  BY <1>3, <1>4 DEF BP

LEMMA UnitsFacts ==
    ASSUME NEW n \in Nat
    PROVE  /\ Units(n) \in Nat \ {0} /\ n < BP(Units(n))
           /\ n # 0 => BP(Units(n) - 1) <= n
<1>1. PICK u \in Nat \ {0} : u = Units(n)
  BY DigitsFacts, D2UIs DEF Units
<1>2. n < BP(u)
  BY <1>1, UnitsAtMost
<1>3. CASE u = 1
  BY <1>1, <1>2, <1>3, BaseFacts
<1>4. CASE u # 1
  <2>1. u - 1 \in Nat \ {0} /\ ~(u <= u - 1)
    BY <1>4
  <2>2. ~(n < BP(u - 1)) /\ BP(u - 1) \in Nat
    BY <1>1, <2>1, UnitsAtMost, BPStep
  <2> QED
    BY <1>1, <1>2, <2>2
<1> QED
  BY <1>3, <1>4

LEMMA UnitsAre ==
    ASSUME NEW n \in Nat, NEW u \in Nat \ {0}, BP(u - 1) <= n, n < BP(u)
    PROVE  Units(n) = u
<1>1. Units(n) <= u /\ Units(n) \in Nat \ {0}
  BY UnitsAtMost, UnitsFacts
<1>2. CASE u = 1
  BY <1>1, <1>2
<1>3. CASE u # 1
  <2>1. u - 1 \in Nat \ {0} /\ BP(u - 1) \in Nat
    BY <1>3, BPStep
  <2>2. ~(Units(n) <= u - 1)
    BY <2>1, UnitsAtMost
  <2> QED
    BY <1>1, <2>1, <2>2
<1> QED
  BY <1>2, <1>3

(***************************************************************************)
(* The guess is never too large: it divides the top two Units of what is   *)
(* left by the top of the divisor, rounded up.                             *)
(***************************************************************************)
LEMMA TopUnitFacts ==
    ASSUME NEW n \in Nat \ {0}, NEW u, u = Units(n), NEW t, t = TopUnit(n)
    PROVE  /\ u \in Nat \ {0} /\ t \in 1..(Base - 1) /\ t = n \div BP(u - 1)
           /\ t * BP(u - 1) <= n /\ n < (t + 1) * BP(u - 1)
           /\ Digits(n) = Digits(t) + DPUN * (u - 1)
<1>1. u \in Nat \ {0} /\ n < BP(u) /\ BP(u - 1) <= n
  BY UnitsFacts
<1>2. PICK x \in Nat \ {0}, b \in Nat : x = BP(u - 1) /\ b = Base /\ BP(u) = b * x
  <2>1. u - 1 \in Nat /\ (u - 1) + 1 = u
    BY <1>1
  <2>2. BP(u - 1) \in Nat \ {0} /\ BP((u - 1) + 1) = Base * BP(u - 1)
    BY <2>1, BPStep
  <2> QED
    BY <2>1, <2>2, BaseFacts
<1>3. PICK m \in Nat, rest \in Nat : m = n \div x /\ n = m * x + rest /\ rest < x
  BY Euclid
<1>4. m < b
  <2>1. SUFFICES ASSUME b <= m PROVE FALSE
    BY <1>2, <1>3
  <2>2. b * x <= m * x
    BY <1>2, <1>3, <2>1, MulGrows
  <2> QED
    BY <1>1, <1>2, <1>3, <2>2
<1>5. m # 0
  BY <1>1, <1>2, <1>3
<1>6. t = m
  <2>1. t = (n \div powers[DPUN * (u - 1)]) % Base
    BY DEF TopUnit, Unit
  <2>2. t = m % b
    BY <1>2, <1>3, <2>1 DEF BP
  <2> QED
    BY <1>3, <1>4, <2>2
<1>7. (m + 1) * x = m * x + x /\ m * x \in Nat
  BY <1>2, <1>3
<1>8. Digits(n) = Digits(m) + DPUN * (u - 1)
  <2>1. DPUN * (u - 1) \in Nat
    BY <1>1, DPUNRange
  <2>2. x = powers[DPUN * (u - 1)]
    BY <1>2 DEF BP
  <2> QED
    BY <1>3, <1>5, <2>1, <2>2, DigitsAbove
<1> QED
  BY <1>1, <1>2, <1>3, <1>4, <1>5, <1>6, <1>7, <1>8

LEMMA SecondUnitFacts ==
    ASSUME NEW n \in Nat \ {0}, NEW u, u = Units(n), u > 1, NEW t, t = TopUnit(n),
           NEW s, s = Unit(n, u - 2)
    PROVE  /\ s \in 0..(Base - 1) /\ n \div BP(u - 2) = t * Base + s
           /\ (t * Base + s) * BP(u - 2) <= n
           /\ n < (t * Base + s + 1) * BP(u - 2)
<1>1. u \in Nat \ {0} /\ t = n \div BP(u - 1) /\ t \in Nat
  BY TopUnitFacts
<1>2. PICK x \in Nat \ {0}, b \in Nat \ {0} : x = BP(u - 2) /\ b = Base /\ BP(u - 1) = b * x
  <2>1. u - 2 \in Nat /\ (u - 2) + 1 = u - 1
    BY <1>1
  <2>2. BP(u - 2) \in Nat \ {0} /\ BP((u - 2) + 1) = Base * BP(u - 2)
    BY <2>1, BPStep
  <2>3. Base \in Nat \ {0}
    BY BaseFacts
  <2> QED
    BY <2>1, <2>2, <2>3
<1>3. PICK m \in Nat, rest \in Nat : m = n \div x /\ n = m * x + rest /\ rest < x
  BY Euclid
<1>4. t = m \div b
  <2>0. n \in Nat /\ x \in Nat \ {0} /\ b \in Nat \ {0}
    BY <1>2
  <2>1. /\ b * x \in Nat \ {0}
        /\ n \div (b * x) = (n \div x) \div b
        /\ n % (b * x) = ((n \div x) % b) * x + (n % x)
    BY <2>0, QuotientTwice
  <2> QED
    BY <1>1, <1>2, <1>3, <2>1, Zenon
<1>5. s = m % b
  <2>1. s = (n \div powers[DPUN * (u - 2)]) % Base
    BY DEF Unit
  <2> QED
    BY <1>2, <1>3, <2>1 DEF BP
<1>6. m = t * b + s /\ s \in Nat /\ s < b
  <2>1. m % b \in Nat /\ m % b < b /\ m = (m \div b) * b + (m % b)
    BY <1>2, <1>3, Euclid
  <2> QED
    BY <1>4, <1>5, <2>1, Zenon
<1>7. (m + 1) * x = m * x + x /\ m * x \in Nat
  BY <1>2, <1>3
<1> QED
  BY <1>2, <1>3, <1>6, <1>7

LEMMA DivisorTops ==
    ASSUME NEW n \in Nat \ {0}, NEW u, u = Units(n), NEW plus, NEW pair,
           plus = TopUnit(n) + (IF u > 1 THEN 1 ELSE 0),
           pair = TopUnit(n) * Base + (IF u > 1 THEN Unit(n, u - 2) ELSE 0)
                                    + (IF u > 2 THEN 1 ELSE 0)
    PROVE  /\ plus \in Nat \ {0} /\ pair \in Nat \ {0}
           /\ n <= plus * BP(u - 1) /\ n * (Base * Base) <= pair * BP(u)
           /\ u = 1 => plus = n
<1>1. PICK t : t = TopUnit(n)
  OBVIOUS
<1>2. /\ u \in Nat \ {0} /\ t \in 1..(Base - 1)
      /\ t * BP(u - 1) <= n /\ n < (t + 1) * BP(u - 1) /\ t = n \div BP(u - 1)
  BY <1>1, TopUnitFacts
<1>3. PICK b \in Nat \ {0} : b = Base /\ t \in Nat \ {0}
  BY <1>2, BaseFacts
<1>4. PICK x \in Nat \ {0}, y \in Nat \ {0} : x = BP(u - 1) /\ y = BP(u) /\ y = b * x
  <2>1. u - 1 \in Nat /\ (u - 1) + 1 = u
    BY <1>2
  <2>2. BP(u - 1) \in Nat \ {0} /\ BP((u - 1) + 1) = Base * BP(u - 1) /\ BP((u - 1) + 1) \in Nat \ {0}
    BY <2>1, BPStep
  <2> QED
    BY <1>3, <2>1, <2>2
<1>5. CASE u = 1
  <2>1. x = 1
    BY <1>4, <1>5, BaseFacts
  <2>2. n = t
    BY <1>2, <1>3, <1>4, <2>1
  <2>3. plus = t /\ pair = t * b
    BY <1>1, <1>3, <1>5
  <2>4. y = b
    BY <1>4, <2>1
  <2>5. n * (b * b) = (t * b) * b /\ t * b \in Nat \ {0}
    BY <1>3, <2>2
  <2> QED
    BY <1>3, <1>4, <2>1, <2>2, <2>3, <2>4, <2>5
<1>6. CASE u > 1
  <2>1. PICK s : s = Unit(n, u - 2)
    OBVIOUS
  <2>2. /\ s \in 0..(Base - 1) /\ (t * Base + s) * BP(u - 2) <= n
        /\ n < (t * Base + s + 1) * BP(u - 2)
    BY <1>1, <1>2, <1>6, <2>1, SecondUnitFacts
  <2>3. PICK z \in Nat \ {0} : z = BP(u - 2) /\ x = b * z
    <3>1. u - 2 \in Nat /\ (u - 2) + 1 = u - 1
      BY <1>2, <1>6
    <3>2. BP(u - 2) \in Nat \ {0} /\ BP((u - 2) + 1) = Base * BP(u - 2)
      BY <3>1, BPStep
    <3> QED
      BY <1>3, <1>4, <3>1, <3>2
  <2>4. PICK m \in Nat \ {0} : m = t * b + s
    <3>1. s \in Nat /\ t * b \in Nat \ {0}
      BY <1>3, <2>2
    <3> QED
      BY <3>1
  <2>5. m * z <= n /\ n < (m + 1) * z
    BY <1>3, <2>2, <2>3, <2>4
  <2>6. plus = t + 1 /\ n <= (t + 1) * x
    BY <1>1, <1>2, <1>3, <1>4, <1>6
  <2>7. pair \in Nat \ {0} /\ n <= pair * z
    <3>1. CASE u > 2
      <4>1. pair = m + 1
        BY <1>1, <1>3, <1>6, <2>1, <2>4, <3>1
      <4> QED
        BY <2>4, <2>5, <4>1
    <3>2. CASE u = 2
      <4>1. pair = m /\ z = 1
        BY <1>1, <1>3, <1>6, <2>1, <2>3, <2>4, <3>2, BaseFacts
      <4> QED
        BY <2>4, <2>5, <4>1
    <3> QED
      BY <1>2, <1>6, <3>1, <3>2
  <2>8. n * (b * b) <= (pair * z) * (b * b)
    <3>1. pair * z \in Nat /\ b * b \in Nat
      BY <1>3, <2>3, <2>7
    <3> QED
      BY <2>7, <3>1, MulGrows
  <2>9. (pair * z) * (b * b) = pair * y
    BY <1>3, <1>4, <2>3, <2>7
  <2> QED
    BY <1>2, <1>3, <1>4, <1>6, <2>6, <2>7, <2>8, <2>9
<1> QED
  BY <1>2, <1>5, <1>6

LEMMA TopTwoFacts ==
    ASSUME NEW n \in Nat \ {0}, NEW u, u = Units(n)
    PROVE  /\ TopTwo(n) \in Nat
           /\ TopTwo(n) * BP(u) <= n * (Base * Base)
           /\ u > 1 => TopTwo(n) * BP(u - 2) <= n
           /\ u = 2 => TopTwo(n) = n
<1>1. u \in Nat \ {0} /\ Base \in Nat /\ BP(0) = 1 /\ BP(1) = Base
  BY UnitsFacts, BaseFacts
<1>2. CASE u = 1
  <2>1. TopTwo(n) = n * Base /\ BP(u) = Base
    BY <1>1, <1>2 DEF TopTwo
  <2>2. (n * Base) * Base = n * (Base * Base) /\ n * Base \in Nat /\ n * (Base * Base) \in Nat
    BY <1>1
  <2> QED
    BY <1>2, <2>1, <2>2
<1>3. CASE u > 1
  <2>1. PICK z \in Nat \ {0}, b \in Nat : z = BP(u - 2) /\ b = Base /\ BP(u) = z * b * b
    <3>1. u - 2 \in Nat /\ (u - 2) + 1 = u - 1 /\ u - 1 \in Nat /\ (u - 1) + 1 = u
      BY <1>1, <1>3
    <3>2. BP(u - 2) \in Nat \ {0} /\ BP((u - 2) + 1) = BP(u - 2) * Base
      BY <3>1, BPStep
    <3>3. BP((u - 1) + 1) = BP(u - 1) * Base
      BY <3>1, BPStep
    <3> QED
      BY <1>1, <3>1, <3>2, <3>3
  <2>2. PICK m \in Nat, rest \in Nat : m = n \div z /\ n = m * z + rest
    BY Euclid
  <2>3. TopTwo(n) = m
    BY <1>3, <2>1, <2>2 DEF TopTwo, BP
  <2>4. m * z <= n /\ m * z \in Nat
    BY <2>1, <2>2
  <2>5. (m * z) * (b * b) <= n * (b * b)
    <3>1. b * b \in Nat
      BY <2>1
    <3> QED
      BY <2>4, <3>1, MulGrows
  <2>6. (m * z) * (b * b) = m * (z * b * b)
    BY <2>1, <2>2
  <2>7. u = 2 => TopTwo(n) = n
    <3>1. u = 2 => z = 1
      BY <1>1, <2>1
    <3> QED
      BY <2>2, <2>3, <3>1
  <2> QED
    BY <1>3, <2>1, <2>3, <2>4, <2>5, <2>6, <2>7
<1> QED
  BY <1>1, <1>2, <1>3

\* x times the guess fits, if x times the guess's divisor does
LEMMA MulCancels ==
    ASSUME NEW x \in Nat, NEW y \in Nat, NEW z \in Nat \ {0}, x * z <= y * z
    PROVE  x <= y
<1>1. SUFFICES ASSUME y < x PROVE FALSE
  OBVIOUS
<1>2. (y + 1) * z <= x * z
  BY <1>1, MulGrows
<1>3. (y + 1) * z = y * z + z /\ y * z \in Nat /\ x * z \in Nat
  OBVIOUS
<1> QED
  BY <1>2, <1>3

\* what is left, the divisor and its padding, its length when padded
Rest(n, r, v, p) ==
    /\ n \in Nat /\ r \in Nat \ {0} /\ v \in Nat
    /\ Units(r) <= v /\ p = BP(v - Units(r))
    /\ n < Base * r * p

\* n has one Unit more than the padded divisor at most
LEMMA RestUnits ==
    ASSUME NEW n, NEW r, NEW v, NEW p, Rest(n, r, v, p)
    PROVE  /\ v \in Nat \ {0} /\ p \in Nat \ {0} /\ v - Units(r) \in Nat
           /\ r * p \in Nat \ {0} /\ Base * r * p \in Nat \ {0}
           /\ Base * r * p = Base * (r * p)
           /\ Units(n) <= v + 1
           /\ BP(v - 1) <= r * p /\ r * p < BP(v)
           /\ n >= r * p => Units(n) \in {v, v + 1} /\ n # 0
<1>1. /\ n \in Nat /\ r \in Nat \ {0} /\ v \in Nat
      /\ Units(r) <= v /\ p = BP(v - Units(r)) /\ n < Base * r * p
  BY DEF Rest
<1>2. PICK u \in Nat \ {0} : u = Units(r) /\ r < BP(u) /\ BP(u - 1) <= r
  BY <1>1, UnitsFacts
<1>3. PICK j \in Nat : j = v - u /\ v = u + j /\ v - 1 = (u - 1) + j /\ u - 1 \in Nat
  BY <1>1, <1>2
<1>4. PICK x \in Nat \ {0}, y \in Nat \ {0} : x = BP(u - 1) /\ y = BP(u)
  BY <1>2, <1>3, BPStep
<1>5. p \in Nat \ {0} /\ p = BP(j)
  BY <1>1, <1>2, <1>3, BPStep
<1>6. BP(v) = y * p /\ BP(v - 1) = x * p
  BY <1>2, <1>3, <1>4, <1>5, BPSum
<1>7. PICK b \in Nat \ {0} : b = Base
  BY BaseFacts
<1>8. PICK d \in Nat \ {0} : d = r * p
  BY <1>1, <1>5
<1>9. Base * r * p = b * d /\ b * d \in Nat \ {0} /\ Base * (r * p) = b * d
  BY <1>1, <1>5, <1>7, <1>8
<1>10. x * p <= d /\ x * p \in Nat
  BY <1>1, <1>2, <1>4, <1>5, <1>8, MulGrows
<1>11. d < y * p
  <2>1. (r + 1) * p <= y * p /\ (r + 1) * p \in Nat
    BY <1>1, <1>2, <1>4, <1>5, MulGrows
  <2>2. (r + 1) * p = d + p
    BY <1>1, <1>5, <1>8
  <2> QED
    BY <1>4, <1>5, <1>8, <2>1, <2>2
<1>12. PICK w \in Nat \ {0} : w = BP(v) /\ d < w /\ BP(v + 1) = b * w
  BY <1>1, <1>4, <1>5, <1>6, <1>7, <1>11, BPStep
<1>13. n < BP(v + 1)
  <2>1. b * d <= b * w /\ b * w \in Nat
    BY <1>7, <1>8, <1>12, MulGrows
  <2> QED
    BY <1>1, <1>9, <1>12, <2>1
<1>14. Units(n) <= v + 1
  BY <1>1, <1>13, UnitsAtMost
<1>15. ASSUME n >= d PROVE Units(n) \in {v, v + 1} /\ n # 0
  <2>1. BP(v - 1) <= n
    BY <1>1, <1>6, <1>8, <1>10, <1>15
  <2>2. ~(Units(n) <= v - 1)
    <3>1. CASE v = 1
      BY <1>1, <3>1, UnitsFacts
    <3>2. CASE v # 1
      <4>1. v - 1 \in Nat \ {0} /\ BP(v - 1) \in Nat
        BY <1>2, <1>3, <1>4, <1>6, <1>10, <3>2
      <4> QED
        BY <1>1, <2>1, <4>1, UnitsAtMost
    <3> QED
      BY <3>1, <3>2
  <2>3. Units(n) \in Nat
    BY <1>1, UnitsFacts
  <2> QED
    BY <1>1, <1>8, <1>14, <1>15, <2>2, <2>3
<1> QED
  BY <1>2, <1>3, <1>5, <1>6, <1>8, <1>9, <1>10, <1>12, <1>14, <1>15

LEMMA GuessFits ==
    ASSUME NEW n, NEW r, NEW v, NEW p, Rest(n, r, v, p), n >= r * p,
           NEW u, u = Units(r), NEW plus, NEW pair,
           plus = TopUnit(r) + (IF u > 1 THEN 1 ELSE 0),
           pair = TopUnit(r) * Base + (IF u > 1 THEN Unit(r, u - 2) ELSE 0)
                                    + (IF u > 2 THEN 1 ELSE 0),
           NEW top, top = IF Units(n) = v THEN pair ELSE plus,
           NEW mult, mult = TopTwo(n) \div top
    PROVE  /\ mult \in Nat /\ mult * (r * p) <= n
           /\ v = 1 /\ Units(n) # v => n - mult * (r * p) < r
<1>1. /\ n \in Nat \ {0} /\ r \in Nat \ {0} /\ v \in Nat \ {0} /\ p \in Nat \ {0}
      /\ u <= v /\ p = BP(v - u) /\ u \in Nat \ {0} /\ v - u \in Nat
  BY RestUnits, UnitsFacts DEF Rest
<1>2. /\ plus \in Nat \ {0} /\ pair \in Nat \ {0}
      /\ r <= plus * BP(u - 1) /\ r * (Base * Base) <= pair * BP(u)
      /\ u = 1 => plus = r
  BY <1>1, DivisorTops
<1>3. PICK m \in Nat, rest \in Nat : /\ m = mult /\ TopTwo(n) = m * top + rest
                                     /\ rest < top /\ top \in Nat \ {0}
  <2>1. top \in Nat \ {0}
    BY <1>2
  <2>2. PICK s \in Nat : s = TopTwo(n)
    BY <1>1, TopTwoFacts
  <2>t. PICK t \in Nat \ {0} : t = top
    BY <2>1
  <2>3. PICK m \in Nat, rest \in Nat : m = s \div t /\ s = m * t + rest /\ rest < t
    BY Euclid
  <2>4. mult = m
    BY <2>2, <2>t, <2>3, Zenon
  <2> QED
    BY <2>1, <2>2, <2>t, <2>3, <2>4
<1>4. PICK s \in Nat : s = TopTwo(n) /\ m * top <= s /\ m * top \in Nat
  BY <1>3
<1>5. PICK b \in Nat \ {0}, d \in Nat \ {0} : b = Base /\ d = r * p
  BY <1>1, BaseFacts
<1>6. CASE Units(n) = v
  <2>1. PICK y \in Nat \ {0} : y = BP(u) /\ BP(v) = y * p
    <3>1. v = u + (v - u)
      BY <1>1
    <3>2. BP(u + (v - u)) = BP(u) * BP(v - u) /\ BP(u) \in Nat \ {0}
      BY <1>1, BPSum
    <3> QED
      BY <1>1, <3>1, <3>2
  <2>2. s * (y * p) <= n * (b * b)
    BY <1>1, <1>4, <1>5, <1>6, <2>1, TopTwoFacts
  <2>3. r * (b * b) <= pair * y /\ top = pair
    BY <1>2, <1>5, <1>6, <2>1
  <2>4. (m * top) * (y * p) <= s * (y * p)
    BY <1>1, <1>4, <2>1, MulGrows
  <2>5. (r * (b * b)) * (m * p) <= (pair * y) * (m * p)
    BY <1>1, <1>2, <1>3, <1>5, <2>1, <2>3, MulGrows
  <2>6. (pair * y) * (m * p) = (m * top) * (y * p)
    BY <1>1, <1>2, <1>3, <2>1, <2>3
  <2>7. (r * (b * b)) * (m * p) = (m * d) * (b * b)
    BY <1>1, <1>3, <1>5
  <2>8. (m * d) * (b * b) <= n * (b * b)
    <3>1. PICK x1 \in Nat, x2 \in Nat, x3 \in Nat : /\ x1 = (m * top) * (y * p)
                  /\ x2 = s * (y * p) /\ x3 = n * (b * b)
      BY <1>1, <1>4, <1>5, <2>1
    <3> QED
      BY <2>2, <2>4, <2>5, <2>6, <2>7, <3>1
  <2>9. m * d \in Nat /\ b * b \in Nat \ {0}
    BY <1>3, <1>5
  <2>10. m * d <= n
    BY <1>1, <2>8, <2>9, MulCancels
  <2> QED
    BY <1>3, <1>5, <1>6, <2>10
<1>7. CASE Units(n) # v
  <2>1. Units(n) = v + 1 /\ top = plus
    BY <1>7, RestUnits
  <2>2. PICK x \in Nat \ {0} : x = BP(u - 1) /\ BP(v - 1) = x * p
    <3>1. v - 1 = (u - 1) + (v - u) /\ u - 1 \in Nat
      BY <1>1
    <3>2. BP((u - 1) + (v - u)) = BP(u - 1) * BP(v - u) /\ BP(u - 1) \in Nat \ {0}
      BY <1>1, <3>1, BPSum
    <3> QED
      BY <1>1, <3>1, <3>2
  <2>3. s * (x * p) <= n
    <3>1. v + 1 > 1 /\ (v + 1) - 2 = v - 1
      BY <1>1
    <3>2. TopTwo(n) * BP((v + 1) - 2) <= n
      BY <1>1, <2>1, <3>1, TopTwoFacts
    <3> QED
      BY <1>4, <2>2, <3>1, <3>2
  <2>4. (m * top) * (x * p) <= s * (x * p)
    BY <1>1, <1>4, <2>2, MulGrows
  <2>5. r * (m * p) <= (plus * x) * (m * p)
    BY <1>1, <1>2, <1>3, <2>2, MulGrows
  <2>6. (plus * x) * (m * p) = (m * top) * (x * p) /\ r * (m * p) = m * d
    BY <1>1, <1>2, <1>3, <1>5, <2>1, <2>2
  <2>7. m * d <= n
    <3>a. x * p \in Nat /\ m * d \in Nat
      BY <1>1, <1>3, <1>5, <2>2
    <3>1. PICK x1 \in Nat, x2 \in Nat, x3 \in Nat : /\ x1 = (m * top) * (x * p)
                  /\ x2 = s * (x * p) /\ x3 = m * d
      BY <1>4, <3>a
    <3> QED
      BY <1>1, <2>3, <2>4, <2>5, <2>6, <3>1
  <2>8. ASSUME v = 1 PROVE n - mult * (r * p) < r
    <3>1. u = 1 /\ plus = r /\ p = 1
      BY <1>1, <1>2, <2>8, BaseFacts
    <3>2. s = n
      BY <1>1, <1>4, <2>1, <2>8, TopTwoFacts
    <3>3. n = m * r + rest /\ rest < r /\ m * r \in Nat
      BY <1>1, <1>3, <1>4, <2>1, <3>1, <3>2
    <3>4. r * p = r
      BY <1>1, <3>1
    <3> QED
      BY <1>1, <1>3, <3>3, <3>4
  <2> QED
    BY <1>3, <1>5, <2>7, <2>8
<1> QED
  BY <1>6, <1>7

(***************************************************************************)
(* The inductive invariant.                                                *)
(***************************************************************************)
Known ==
    /\ IsContext(set) /\ lhs \in Numbers /\ rhs \in Numbers
    /\ TypeOK /\ accunits <= D2U(reqdigits + DPUN)

\* nothing has been computed yet
AtStart ==
    pc = "start" =>
        /\ var1 = 0 /\ ~stale /\ var2ulen = 0 /\ var1initpad = 0 /\ thisunit = 0
        /\ acc = 0 /\ accunits = 0 /\ exponent = 0
        /\ res = Finite(FALSE, 0, 0) /\ residue = 0 /\ status = {}

\* the digits of padding below the dividend, and the dividend with them
Pad == IF Dividing THEN (var1units - Units(lhs.coef)) * DPUN ELSE var1initpad
Total == lhs.coef * powers[Pad]
Block == rhs.coef * Padding

\* the dividend is so long that the last Unit of the quotient is preceded by
\* as many digits as the precision
Long == powers[reqdigits - 1] * (Base * rhs.coef) <= Total

\* the exponents agree with how far the divisor has been moved, which is never
\* below the least Unit
Underway ==
    /\ BothFiniteNonZero
    /\ bits = sign
    /\ var2units <= var2ulen /\ var2ulen <= var1units
    /\ Pad \in Nat /\ 2 * DPUN <= Pad /\ Total < BP(var1units)
    /\ exponent = maxexponent + DPUN * (var2ulen - var2units) - Pad
    /\ ~Dividing => exponent \in Nat /\ exponent % DPUN = 0
    /\ Long \/ (~Dividing /\ exponent = 0)
    /\ accunits = IF acc = 0 THEN 0 ELSE Units(acc)
    /\ res = Finite(FALSE, 0, 0) /\ residue = 0 /\ status = {}

\* below the ideal exponent there is something left for each Unit
KeepsGoing == Dividing /\ exponent < maxexponent => var1 # 0 \/ thisunit # 0

AtDivide ==
    pc = "divide" =>
        /\ Underway
        /\ (acc * Base + thisunit) * Block + var1 = Total
        /\ thisunit * Block + var1 < Base * Block
        /\ Digits(acc) <= reqdigits
        /\ var2ulen = 1 /\ thisunit # 0 => var1 < rhs.coef
        /\ stale => /\ var1 = 0 /\ thisunit = 0 /\ Long
                    /\ op = "DIVIDEINT" \/ var2ulen > 1
        /\ KeepsGoing

\* the Unit that is counted for a var1 that was equal to the divisor before
Recounted ==
    /\ op = "DIVIDEINT" /\ var1 = 0 /\ thisunit = 1
    /\ acc * Base * Block = Total
    /\ var2ulen = var2units /\ acc >= powers[reqdigits - 1]

AtAccumulate ==
    pc = "accumulate" =>
        /\ Underway
        /\ Digits(acc) <= reqdigits
        /\ stale => var1 = 0
        /\ \/ /\ (acc * Base + thisunit) * Block + var1 = Total
              /\ var1 < Block
              /\ KeepsGoing
           \/ Recounted

\* why the division ends
Ending ==
    \/ Digits(acc) > reqdigits
    \/ var1 = 0 /\ IsRemainder
    \/ var1 = 0 /\ Dividing /\ exponent <= maxexponent
    \/ exponent = 0 /\ ~Dividing

AtComplete ==
    pc = "complete" =>
        /\ Underway
        /\ \/ /\ acc * Block + var1 = Total
              /\ var1 < Block
              /\ Ending
              /\ Dividing /\ exponent < maxexponent => var1 # 0 \/ acc % Base # 0
           \/ /\ op = "DIVIDEINT"
              /\ (acc - 1) * Block = Total /\ acc - 1 >= powers[reqdigits]

\* neither operand is a NaN, and the operation is defined for them
Defined ==
    /\ ~IsNaN(lhs) /\ ~IsNaN(rhs) /\ ~Undefined
    /\ IsZero(rhs) => IsSpecial(lhs)

\* n * 10^q is what is due exactly
Due(neg, n, q) ==
    BothFiniteNonZero =>
        /\ Dividing => neg = sign /\ n = ExactCoef /\ q = ExactExp
        /\ op = "DIVIDEINT" => ~TooLong(Whole) /\ neg = sign /\ n = Whole /\ q = 0
        /\ IsRemainder =>
               LET up == op = "REMNEAR" /\ UpToNear
               IN  /\ ~TooLong(IF up THEN Whole + 1 ELSE Whole)
                   /\ neg = IF up THEN ~lhs.neg ELSE lhs.neg
                   /\ n = IF up THEN Divisor - Left ELSE Left
                   /\ q = Low

\* the quotient of a number and an infinity
Vanished ==
    /\ ~BothFiniteNonZero /\ Dividing
    /\ res = Finite(sign, 0, Etiny(set)) /\ residue = 0 /\ status = {"Clamped"}

AtFinish ==
    pc = "finish" =>
        /\ Defined
        /\ \/ \E neg, n, q : /\ Carries(res, residue, status, neg, n, q, set)
                             /\ residue >= 0 /\ Due(neg, n, q)
           \/ Vanished

\* the result r and the flags s are what they must be
Signalled(r, s) ==
    /\ r.kind = "nan" <=> \/ IsNaN(lhs) \/ IsNaN(rhs) \/ Undefined
                          \/ "Division_impossible" \in s
    /\ r.kind # "snan"
    /\ "Division_by_zero" \in s <=> IsZero(rhs) /\ ~IsSpecial(lhs) /\ ~Undefined
    /\ "Division_by_zero" \in s => r = Special("inf", sign)

Divided(r, s) ==
    BothFiniteNonZero =>
        /\ Dividing => /\ r = Delivered(sign, ExactCoef, ExactExp, set)
                       /\ s = FlagsFor(sign, ExactCoef, ExactExp, set)
        /\ op = "DIVIDEINT" =>
               IF TooLong(Whole)
               THEN s = {"Division_impossible"} /\ r.kind = "nan"
               ELSE /\ r = Delivered(sign, Whole, 0, set)
                    /\ s = FlagsFor(sign, Whole, 0, set)
        /\ IsRemainder =>
               LET up == op = "REMNEAR" /\ UpToNear
                   rem == IF up THEN Divisor - Left ELSE Left
                   neg == IF up THEN ~lhs.neg ELSE lhs.neg
               IN  IF TooLong(IF up THEN Whole + 1 ELSE Whole)
                   THEN s = {"Division_impossible"} /\ r.kind = "nan"
                   ELSE /\ r = Delivered(neg, rem, Low, set)
                        /\ s = FlagsFor(neg, rem, Low, set)

AtReport ==
    pc = "report" => /\ Signalled(AfterStatus(res, status), status \ {"sNaN"})
                     /\ Divided(AfterStatus(res, status), status \ {"sNaN"})

AtDone == pc = "done" => Signalled(res, status) /\ Divided(res, status)

IInv == /\ Known /\ AtStart /\ AtDivide /\ AtAccumulate /\ AtComplete /\ AtFinish
        /\ AtReport /\ AtDone

LEMMA KnownFacts ==
    ASSUME Known
    PROVE  /\ Context(set) /\ reqdigits \in Nat \ {0}
           /\ op \in Ops /\ lhs \in Numbers /\ rhs \in Numbers
           /\ lhs.coef \in Nat /\ rhs.coef \in Nat /\ lhs.exp \in Int /\ rhs.exp \in Int
           /\ lhs.neg \in BOOLEAN /\ rhs.neg \in BOOLEAN
           /\ lhs.kind \in Kinds /\ rhs.kind \in Kinds
           /\ sign \in BOOLEAN /\ maxexponent \in Int
<1>1. IsContext(set) /\ lhs \in Numbers /\ rhs \in Numbers /\ op \in Ops
  BY DEF Known, TypeOK
<1>2. Context(set)
  BY <1>1, ContextHolds
<1>3. set.digits \in Nat \ {0}
  BY <1>2, ContextRange
<1>4. /\ lhs.coef \in Nat /\ rhs.coef \in Nat /\ lhs.exp \in Int /\ rhs.exp \in Int
      /\ lhs.neg \in BOOLEAN /\ rhs.neg \in BOOLEAN
      /\ lhs.kind \in Kinds /\ rhs.kind \in Kinds
  BY <1>1 DEF Numbers
<1>5. sign \in BOOLEAN /\ maxexponent \in Int
  BY <1>4 DEF sign, maxexponent
<1> QED
  BY <1>1, <1>2, <1>3, <1>4, <1>5 DEF reqdigits

LEMMA SameCall ==
    ASSUME call' = call
    PROVE  /\ op' = op /\ lhs' = lhs /\ rhs' = rhs /\ set' = set
           /\ Dividing' = Dividing /\ IsRemainder' = IsRemainder
           /\ reqdigits' = reqdigits /\ var2units' = var2units /\ sign' = sign
           /\ var1units' = var1units /\ maxexponent' = maxexponent
           /\ BothFiniteNonZero' = BothFiniteNonZero
           /\ Undefined' = Undefined /\ Defined' = Defined
<1>1. op' = op /\ lhs' = lhs /\ rhs' = rhs /\ set' = set
  BY DEF call
<1>2. Dividing' = Dividing /\ IsRemainder' = IsRemainder /\ reqdigits' = reqdigits
      /\ var2units' = var2units /\ sign' = sign /\ maxexponent' = maxexponent
      /\ BothFiniteNonZero' = BothFiniteNonZero
  BY <1>1 DEF Dividing, IsRemainder, reqdigits, var2units, sign, maxexponent, BothFiniteNonZero
<1>3. var1units' = var1units
  BY <1>1, <1>2 DEF var1units
<1>4. Undefined' = Undefined
  BY <1>1, <1>2 DEF Undefined
<1>5. Defined' = Defined
  BY <1>1, <1>4 DEF Defined
<1> QED
  BY <1>1, <1>2, <1>3, <1>4, <1>5

LEMMA SameDue ==
    ASSUME call' = call
    PROVE  /\ ExactCoef' = ExactCoef /\ ExactExp' = ExactExp
           /\ Whole' = Whole /\ Left' = Left /\ Divisor' = Divisor /\ Low' = Low
           /\ UpToNear' = UpToNear
<1>1. /\ op' = op /\ lhs' = lhs /\ rhs' = rhs /\ set' = set
      /\ Dividing' = Dividing
  BY SameCall
<1>2. Shift' = Shift
  BY <1>1 DEF Shift
<1>3. Ends' = Ends /\ Quotient' = Quotient
  BY <1>1, <1>2 DEF Ends, Quotient
<1>4. Surplus' = Surplus
  BY <1>2, <1>3 DEF Surplus
<1>5. ExactCoef' = ExactCoef /\ ExactExp' = ExactExp
  BY <1>1, <1>2, <1>3, <1>4 DEF ExactCoef, ExactExp
<1>6. Low' = Low
  BY <1>1 DEF Low
<1>7. Dividend' = Dividend /\ Divisor' = Divisor
  BY <1>1, <1>6 DEF Dividend, Divisor
<1>8. Whole' = Whole /\ Left' = Left
  BY <1>7 DEF Whole, Left
<1>9. UpToNear' = UpToNear
  BY <1>7, <1>8 DEF UpToNear
<1> QED
  BY <1>5, <1>6, <1>7, <1>8, <1>9

LEMMA SameAnswers ==
    ASSUME call' = call
    PROVE  /\ \A neg, n, q : Due(neg, n, q)' <=> Due(neg, n, q)
           /\ \A r, s : /\ Signalled(r, s)' <=> Signalled(r, s)
                        /\ Divided(r, s)' <=> Divided(r, s)
<1>1. /\ op' = op /\ lhs' = lhs /\ rhs' = rhs /\ set' = set
      /\ Dividing' = Dividing /\ IsRemainder' = IsRemainder /\ sign' = sign
      /\ BothFiniteNonZero' = BothFiniteNonZero
      /\ Undefined' = Undefined
  BY SameCall
<1>2. /\ ExactCoef' = ExactCoef /\ ExactExp' = ExactExp
      /\ Whole' = Whole /\ Left' = Left /\ Divisor' = Divisor /\ Low' = Low
      /\ UpToNear' = UpToNear
  BY SameDue
<1>4. ASSUME NEW neg, NEW n, NEW q PROVE Due(neg, n, q)' <=> Due(neg, n, q)
  BY <1>1, <1>2 DEF Due, TooLong
<1>5. ASSUME NEW r, NEW s PROVE Signalled(r, s)' <=> Signalled(r, s)
  BY <1>1 DEF Signalled
<1>6. ASSUME NEW r, NEW s PROVE Divided(r, s)' <=> Divided(r, s)
  BY <1>1, <1>2 DEF Divided, TooLong
<1> QED
  BY <1>4, <1>5, <1>6

(***************************************************************************)
(* How a call ends.                                                        *)
(***************************************************************************)
LEMMA ReportReached ==
    ASSUME call' = call, Known', pc' = "report", NEW r, NEW s,
           r = AfterStatus(res', status'), s = status' \ {"sNaN"},
           Signalled(r, s), Divided(r, s)
    PROVE  IInv'
<1>1. Signalled(r, s)' /\ Divided(r, s)'
  BY SameAnswers
<1>2. AtReport'
  BY <1>1 DEF AtReport
<1> QED
  BY <1>2 DEF IInv, AtStart, AtDivide, AtAccumulate, AtComplete, AtFinish, AtDone

LEMMA FinishReached ==
    ASSUME call' = call, Known', pc' = "finish", Defined, residue' >= 0,
           NEW neg, NEW n, NEW q, Carries(res', residue', status', neg, n, q, set),
           Due(neg, n, q)
    PROVE  IInv'
<1>1. Defined' = Defined /\ set' = set
  BY SameCall
<1>2. Due(neg, n, q)'
  BY SameAnswers
<1>3. Carries(res, residue, status, neg, n, q, set)'
  BY <1>1
<1>4. AtFinish'
  BY <1>1, <1>2, <1>3 DEF AtFinish
<1> QED
  BY <1>4 DEF IInv, AtStart, AtDivide, AtAccumulate, AtComplete, AtReport, AtDone

LEMMA KnownKept ==
    ASSUME Known, UNCHANGED <<call, division>>,
           pc' \in {"finish", "report", "done"},
           res'.kind \in Kinds, res'.coef \in Nat, residue' \in -1..9, status' \subseteq Flags
    PROVE  Known'
<1>1. op' = op /\ lhs' = lhs /\ rhs' = rhs /\ set' = set /\ reqdigits' = reqdigits
  BY SameCall
<1>2. /\ bits' = bits /\ var1' = var1 /\ stale' = stale /\ var2ulen' = var2ulen
      /\ var1initpad' = var1initpad /\ thisunit' = thisunit /\ acc' = acc
      /\ accunits' = accunits /\ exponent' = exponent
  BY DEF division
<1>3. TypeOK'
  BY <1>1, <1>2 DEF Known, TypeOK
<1> QED
  BY <1>1, <1>2, <1>3 DEF Known

LEMMA DeliverReached ==
    ASSUME Known, NEW n, NEW flags, Deliver(n, flags),
           n.kind \in Kinds, n.coef \in Nat, flags \subseteq Flags,
           NEW r, NEW s, r = AfterStatus(n, flags), s = flags \ {"sNaN"},
           Signalled(r, s), Divided(r, s)
    PROVE  IInv'
<1>1. /\ res' = n /\ status' = flags /\ pc' = "report" /\ residue' = residue
      /\ UNCHANGED <<call, division>> /\ call' = call
  BY DEF Deliver
<1>2. Known'
  <2>1. residue' \in -1..9
    BY <1>1 DEF Known, TypeOK
  <2> QED
    BY <1>1, <2>1, KnownKept
<1>3. r = AfterStatus(res', status') /\ s = status' \ {"sNaN"}
  BY <1>1
<1> QED
  BY <1>1, <1>2, <1>3, ReportReached

\* a number is written, with its residue and flags, and then finished
LEMMA FinishDue ==
    ASSUME Known, Defined, NEW w, ToFinish(w), NEW neg, NEW n, NEW q,
           Carries(w.dn, w.residue, w.status, neg, n, q, set), w.residue >= 0,
           Due(neg, n, q)
    PROVE  IInv'
<1>1. /\ res' = w.dn /\ status' = w.status /\ pc' = "finish" /\ residue' = w.residue
      /\ UNCHANGED <<call, division>> /\ call' = call
  BY DEF ToFinish
<1>2. w.dn \in Numbers /\ w.residue \in -1..9 /\ w.status \subseteq Flags
  BY CarriesNumber
<1>3. Known'
  <2>1. w.dn.kind \in Kinds /\ w.dn.coef \in Nat
    BY <1>2 DEF Numbers
  <2> QED
    BY <1>1, <1>2, <2>1, KnownKept
<1>4. Carries(res', residue', status', neg, n, q, set) /\ residue' >= 0
  BY <1>1, Zenon
<1> QED
  BY <1>1, <1>3, <1>4, FinishReached

LEMMA FinishExact ==
    ASSUME Known, Defined, NEW neg \in BOOLEAN, NEW n \in Nat, NEW q \in Int,
           ToFinish(SetCoeff(Work(Finite(neg, n, q), 0, {}), set)), Due(neg, n, q)
    PROVE  IInv'
<1>1. Context(set)
  BY KnownFacts
<1>2. PICK x, r, st : /\ SetCoeff(Work(Finite(neg, n, q), 0, {}), set) = Work(x, r, st)
                      /\ Carries(x, r, st, neg, n, q, set) /\ r >= 0
  BY <1>1, SetCoeffCarries
<1>3. PICK w : w = Work(x, r, st) /\ ToFinish(w)
  BY <1>2
<1>4. w.dn = x /\ w.residue = r /\ w.status = st
  BY <1>3, WorkFields
<1>5. Carries(w.dn, w.residue, w.status, neg, n, q, set) /\ w.residue >= 0
  BY <1>2, <1>4
<1> QED
  BY <1>3, <1>5, FinishDue

LEMMA FinishZero ==
    ASSUME Known, Defined, NEW neg \in BOOLEAN, NEW q \in Int,
           ToFinish(Work(Finite(neg, 0, q), 0, {})), Due(neg, 0, q)
    PROVE  IInv'
<1>1. PICK w : w = Work(Finite(neg, 0, q), 0, {}) /\ ToFinish(w)
  OBVIOUS
<1>2. w.dn = Finite(neg, 0, q) /\ w.residue = 0 /\ w.status = {}
  BY <1>1, WorkFields
<1>3. Carries(w.dn, w.residue, w.status, neg, 0, q, set) /\ w.residue >= 0
  BY <1>2 DEF Carries
<1> QED
  BY <1>1, <1>3, FinishDue

(***************************************************************************)
(* The first state.                                                        *)
(***************************************************************************)
LEMMA InitHolds == Init => IInv
<1> SUFFICES ASSUME Init PROVE IInv
  OBVIOUS
<1>1. PICK f \in Families : /\ op \in f.ops /\ set \in f.contexts
                            /\ lhs \in f.lhs /\ rhs \in f.rhs
  BY DEF Init
<1>2. op \in Ops /\ IsContext(set) /\ lhs \in Numbers /\ rhs \in Numbers
  BY <1>1, FamiliesAssumption
<1>3. /\ pc = "start" /\ bits = FALSE /\ var1 = 0 /\ stale = FALSE /\ var2ulen = 0
      /\ var1initpad = 0 /\ thisunit = 0 /\ acc = 0 /\ accunits = 0 /\ exponent = 0
      /\ res = Finite(FALSE, 0, 0) /\ residue = 0 /\ status = {}
  BY DEF Init
<1>4. res.kind \in Kinds /\ res.coef \in Nat
  <2>1. PICK x : x = Finite(FALSE, 0, 0) /\ res = x
    BY <1>3
  <2>2. x.kind = "finite" /\ x.coef = 0
    BY <2>1 DEF Finite
  <2>3. "finite" \in Kinds /\ 0 \in Nat
    BY DEF Kinds
  <2> QED
    BY <2>1, <2>2, <2>3, Zenon
<1>5. TypeOK
  <2>1. thisunit \in 0..(Base - 1) /\ residue \in -1..9
    BY <1>3, BaseFacts
  <2>2. bits \in BOOLEAN /\ stale \in BOOLEAN /\ status \subseteq Flags
    BY <1>3, Zenon
  <2>3. /\ var1 \in Nat /\ acc \in Nat /\ accunits \in Nat /\ var2ulen \in Nat
        /\ var1initpad \in Nat /\ exponent \in Int
    BY <1>3
  <2>4. pc \in {"start", "divide", "accumulate", "complete", "finish", "report", "done"}
    BY <1>3, Zenon
  <2> QED
    BY <1>2, <1>4, <2>1, <2>2, <2>3, <2>4, Zenon DEF TypeOK
<1>6. accunits <= D2U(reqdigits + DPUN)
  <2>1. reqdigits + DPUN \in Nat \ {0}
    BY <1>2, DPUNRange, ContextHolds, ContextRange DEF reqdigits
  <2> QED
    BY <1>3, <2>1, D2UIs
<1>7. Known
  BY <1>2, <1>5, <1>6 DEF Known
<1> QED
  BY <1>3, <1>7 DEF IInv, AtStart, AtDivide, AtAccumulate, AtComplete, AtFinish, AtReport,
                    AtDone

(***************************************************************************)
(* Special values and zeros.                                               *)
(***************************************************************************)
LEMMA AfterFlags ==
    ASSUME NEW n
    PROVE  /\ AfterStatus(n, {}) = n /\ {} \ {"sNaN"} = {}
           /\ AfterStatus(n, {"Division_by_zero"}) = n
           /\ {"Division_by_zero"} \ {"sNaN"} = {"Division_by_zero"}
           /\ AfterStatus(n, {"Invalid_operation", "sNaN"}) = n
           /\ {"Invalid_operation", "sNaN"} \ {"sNaN"} = {"Invalid_operation"}
           /\ \A f \in NaNFlags : /\ AfterStatus(n, {f}) = Special("nan", FALSE)
                                  /\ {f} \ {"sNaN"} = {f} /\ {f} \subseteq Flags
<1>1. {} \cap NaNFlags = {} /\ {"Division_by_zero"} \cap NaNFlags = {}
  BY DEF NaNFlags
<1>2. "sNaN" \notin NaNFlags
  BY DEF NaNFlags
<1>3. AfterStatus(n, {}) = n /\ AfterStatus(n, {"Division_by_zero"}) = n
  BY <1>1 DEF AfterStatus
<1>4. AfterStatus(n, {"Invalid_operation", "sNaN"}) = n
  BY DEF AfterStatus
<1>5. ASSUME NEW f \in NaNFlags
      PROVE  /\ AfterStatus(n, {f}) = Special("nan", FALSE)
             /\ {f} \ {"sNaN"} = {f} /\ {f} \subseteq Flags
  <2>1. f # "sNaN" /\ f \in Flags
    BY <1>2, <1>5 DEF Flags
  <2>2. {f} \cap NaNFlags # {} /\ "sNaN" \notin {f}
    BY <1>5, <2>1
  <2> QED
    BY <2>1, <2>2 DEF AfterStatus
<1> QED
  BY <1>3, <1>4, <1>5

LEMMA SpecialFields ==
    ASSUME NEW k, NEW neg
    PROVE  Special(k, neg).kind = k /\ Special(k, neg).coef = 0
  BY DEF Special

LEMMA KindsHold == "finite" \in Kinds /\ "inf" \in Kinds /\ "nan" \in Kinds /\ 0 \in Nat
  BY DEF Kinds

LEMMA NaNOperandStep ==
    ASSUME IInv, NaNOperand
    PROVE  IInv'
<1>1. Known /\ Deliver(QuietNaN(lhs, rhs, set), NaNStatus(lhs, rhs)) /\ (IsNaN(lhs) \/ IsNaN(rhs))
  BY DEF IInv, NaNOperand
<1>2. lhs \in Numbers /\ rhs \in Numbers /\ reqdigits \in Nat \ {0} /\ set.digits \in Nat
  BY <1>1, KnownFacts DEF reqdigits
<1>3. PICK m \in Numbers : m = NaNSource(lhs, rhs)
  BY <1>2 DEF NaNSource
<1>4. PICK c \in Nat : c = m.coef % powers[set.digits]
  <2>1. m.coef \in Nat /\ powers[set.digits] \in Nat /\ powers[set.digits] >= 1
    BY <1>2, PowersFacts DEF Numbers
  <2>2. PICK a \in Nat, b \in Nat \ {0} : a = m.coef /\ b = powers[set.digits]
    BY <2>1
  <2> QED
    BY <2>2, Euclid
<1>5. PICK n : n = QuietNaN(lhs, rhs, set) /\ n.kind = "nan" /\ n.coef = c
  <2>1. QuietNaN(lhs, rhs, set) = [kind |-> "nan", neg |-> m.neg, coef |-> c, exp |-> 0]
    BY <1>3, <1>4, Zenon DEF QuietNaN
  <2>2. PICK n : n = [kind |-> "nan", neg |-> m.neg, coef |-> c, exp |-> 0]
    OBVIOUS
  <2>3. n.kind = "nan" /\ n.coef = c
    BY <2>2
  <2> QED
    BY <2>1, <2>2, <2>3
<1>6. PICK flags : flags = NaNStatus(lhs, rhs) /\ flags \in {{}, {"Invalid_operation", "sNaN"}}
  BY DEF NaNStatus
<1>7. AfterStatus(n, flags) = n /\ flags \subseteq Flags
      /\ "Division_by_zero" \notin flags \ {"sNaN"}
  BY <1>6, AfterFlags DEF Flags, NaNFlags
<1>8. ~(IsZero(rhs) /\ ~IsSpecial(lhs)) /\ ~BothFiniteNonZero
  BY <1>1 DEF IsNaN, IsZero, IsSpecial, BothFiniteNonZero
<1>9. Signalled(n, flags \ {"sNaN"}) /\ Divided(n, flags \ {"sNaN"})
  BY <1>1, <1>5, <1>7, <1>8 DEF Signalled, Divided
<1>10. n.kind \in Kinds /\ n.coef \in Nat /\ Deliver(n, flags)
  BY <1>1, <1>5, <1>6 DEF Kinds
<1> QED
  BY <1>1, <1>7, <1>9, <1>10, DeliverReached

\* a flag that makes the result a NaN
LEMMA RefusedReached ==
    ASSUME Known, NEW n, NEW f \in NaNFlags, Deliver(n, {f}), n.kind \in Kinds, n.coef \in Nat,
           Signalled(Special("nan", FALSE), {f}), Divided(Special("nan", FALSE), {f})
    PROVE  IInv'
<1>1. PICK flags : flags = {f}
  OBVIOUS
<1>2. AfterStatus(n, flags) = Special("nan", FALSE) /\ flags \ {"sNaN"} = flags /\ flags \subseteq Flags
  BY <1>1, AfterFlags
<1>3. Signalled(Special("nan", FALSE), flags) /\ Divided(Special("nan", FALSE), flags)
      /\ Deliver(n, flags)
  BY <1>1
<1> QED
  BY <1>2, <1>3, DeliverReached

LEMMA StartFacts ==
    ASSUME IInv, pc = "start"
    PROVE  Known /\ res.kind \in Kinds /\ res.coef \in Nat
  BY DEF IInv, Known, TypeOK

LEMMA InfiniteDividendStep ==
    ASSUME IInv, InfiniteDividend
    PROVE  IInv'
<1>1. /\ pc = "start" /\ lhs.kind = "inf" /\ ~IsNaN(rhs)
      /\ IF rhs.kind = "inf" \/ IsRemainder
         THEN Deliver(res, {"Invalid_operation"})
         ELSE Deliver(Special("inf", sign), {})
  BY DEF InfiniteDividend
<1>2. Known /\ res.kind \in Kinds /\ res.coef \in Nat
  BY <1>1, StartFacts
<1>3. ~BothFiniteNonZero /\ IsSpecial(lhs) /\ ~IsNaN(lhs) /\ ~IsZero(lhs)
  BY <1>1 DEF BothFiniteNonZero, IsSpecial, IsNaN, IsZero
<1>4. Undefined <=> rhs.kind = "inf" \/ IsRemainder
  BY <1>1, <1>3 DEF Undefined
<1>5. CASE rhs.kind = "inf" \/ IsRemainder
  <2>1. PICK f : f = "Invalid_operation" /\ f \in NaNFlags /\ f # "Division_by_zero"
    BY DEF NaNFlags
  <2>2. PICK r : r = Special("nan", FALSE) /\ r.kind = "nan"
    BY SpecialFields
  <2>3. Signalled(r, {f}) /\ Divided(r, {f})
    BY <1>3, <1>4, <1>5, <2>1, <2>2 DEF Signalled, Divided
  <2>4. Deliver(res, {f})
    BY <1>1, <1>5, <2>1
  <2> QED
    BY <1>2, <2>1, <2>2, <2>3, <2>4, RefusedReached
<1>6. CASE ~(rhs.kind = "inf" \/ IsRemainder)
  <2>1. PICK n : n = Special("inf", sign) /\ n.kind = "inf" /\ n.coef = 0
    BY SpecialFields
  <2>2. n.kind \in Kinds /\ n.coef \in Nat /\ Deliver(n, {})
    BY <1>1, <1>6, <2>1 DEF Kinds
  <2>3. Signalled(n, {}) /\ Divided(n, {})
    BY <1>1, <1>3, <1>4, <1>6, <2>1 DEF Signalled, Divided
  <2>4. PICK flags : flags = {}
    OBVIOUS
  <2>5. n = AfterStatus(n, flags) /\ flags = flags \ {"sNaN"} /\ flags \subseteq Flags
    BY <2>4, AfterFlags
  <2> QED
    BY <1>2, <2>2, <2>3, <2>4, <2>5, DeliverReached
<1> QED
  BY <1>5, <1>6

LEMMA InfiniteDivisorStep ==
    ASSUME IInv, InfiniteDivisor
    PROVE  IInv'
<1>1. /\ pc = "start" /\ ~IsSpecial(lhs) /\ rhs.kind = "inf"
      /\ \/ IsRemainder /\ CopyLhs
         \/ op = "DIVIDEINT" /\ ToFinish(Work(Finite(sign, 0, 0), 0, {}))
         \/ Dividing /\ ToFinish(Work(Finite(sign, 0, Etiny(set)), 0, {"Clamped"}))
  BY DEF InfiniteDivisor
<1>2. Known
  BY <1>1, StartFacts
<1>3. /\ lhs \in Numbers /\ sign \in BOOLEAN /\ Context(set)
      /\ lhs.neg \in BOOLEAN /\ lhs.coef \in Nat /\ lhs.exp \in Int
  BY <1>2, KnownFacts
<1>4. Defined /\ ~BothFiniteNonZero
  BY <1>1 DEF Defined, Undefined, BothFiniteNonZero, IsSpecial, IsNaN, IsZero
<1>5. \A neg, n, q : Due(neg, n, q)
  BY <1>4 DEF Due
<1>6. CASE IsRemainder /\ CopyLhs
  <2>1. lhs = Finite(lhs.neg, lhs.coef, lhs.exp)
    BY <1>1, <1>3, NumberIs
  <2>2. ToFinish(SetCoeff(Work(Finite(lhs.neg, lhs.coef, lhs.exp), 0, {}), set))
    BY <1>6, <2>1, Zenon DEF CopyLhs
  <2> QED
    BY <1>2, <1>3, <1>4, <1>5, <2>2, FinishExact
<1>7. CASE op = "DIVIDEINT" /\ ToFinish(Work(Finite(sign, 0, 0), 0, {}))
  <2>1. 0 \in Int
    OBVIOUS
  <2> QED
    BY <1>2, <1>3, <1>4, <1>5, <1>7, <2>1, FinishZero
<1>8. CASE Dividing /\ ToFinish(Work(Finite(sign, 0, Etiny(set)), 0, {"Clamped"}))
  <2>1. /\ res' = Finite(sign, 0, Etiny(set)) /\ residue' = 0 /\ status' = {"Clamped"}
        /\ pc' = "finish" /\ UNCHANGED <<call, division>> /\ call' = call
    BY <1>8, WorkFields DEF ToFinish
  <2>2. res'.kind = "finite" /\ res'.coef = 0
    BY <2>1, FiniteFields
  <2>3. residue' \in -1..9 /\ status' \subseteq Flags
    BY <2>1 DEF Flags
  <2>4. Known'
    <3>1. res'.kind \in Kinds /\ res'.coef \in Nat
      BY <2>2 DEF Kinds
    <3>2. pc' \in {"finish", "report", "done"}
      BY <2>1
    <3> QED
      BY <1>2, <2>1, <2>3, <3>1, <3>2, KnownKept
  <2>5. /\ Defined' = Defined /\ BothFiniteNonZero' = BothFiniteNonZero
        /\ Dividing' = Dividing /\ sign' = sign /\ set' = set
    BY <2>1, SameCall
  <2>6. Vanished'
    BY <1>4, <1>8, <2>1, <2>5 DEF Vanished
  <2>7. AtFinish'
    BY <1>4, <2>5, <2>6 DEF AtFinish
  <2> QED
    BY <2>1, <2>4, <2>7
       DEF IInv, AtStart, AtDivide, AtAccumulate, AtComplete, AtReport, AtDone
<1> QED
  BY <1>1, <1>6, <1>7, <1>8

LEMMA ZeroDivisorStep ==
    ASSUME IInv, ZeroDivisor
    PROVE  IInv'
<1>1. /\ pc = "start" /\ ~IsSpecial(lhs) /\ ~IsSpecial(rhs) /\ IsZero(rhs)
      /\ IF IsZero(lhs) THEN Deliver(Finite(FALSE, 0, 0), {"Division_undefined"})
         ELSE IF IsRemainder
         THEN Deliver(Finite(FALSE, 0, 0), {"Invalid_operation"})
         ELSE Deliver(Special("inf", sign), {"Division_by_zero"})
  BY DEF ZeroDivisor, BothFinite
<1>2. Known
  BY <1>1, StartFacts
<1>3. ~BothFiniteNonZero /\ ~IsNaN(lhs) /\ ~IsNaN(rhs)
  BY <1>1 DEF BothFiniteNonZero, IsSpecial, IsNaN, IsZero
<1>4. Undefined <=> IsZero(lhs) \/ IsRemainder
  BY <1>1 DEF Undefined, IsSpecial
<1>5. ASSUME NEW f \in NaNFlags, f # "Division_by_zero", Undefined,
             Deliver(Finite(FALSE, 0, 0), {f})
      PROVE  IInv'
  <2>1. PICK r : r = Special("nan", FALSE) /\ r.kind = "nan"
    BY SpecialFields
  <2>2. Signalled(r, {f}) /\ Divided(r, {f})
    BY <1>3, <1>5, <2>1 DEF Signalled, Divided
  <2>3. PICK n : n = Finite(FALSE, 0, 0)
    OBVIOUS
  <2>k. n.kind = "finite" /\ n.coef = 0
    BY <2>3 DEF Finite
  <2>4. n.kind \in Kinds /\ n.coef \in Nat /\ Deliver(n, {f})
    BY <1>5, <2>3, <2>k, Zenon, KindsHold
  <2> QED
    BY <1>2, <1>5, <2>1, <2>2, <2>4, RefusedReached
<1>6. /\ "Division_undefined" \in NaNFlags /\ "Invalid_operation" \in NaNFlags
      /\ "Division_undefined" # "Division_by_zero" /\ "Invalid_operation" # "Division_by_zero"
  BY DEF NaNFlags
<1>7. CASE IsZero(lhs) \/ IsRemainder
  BY <1>1, <1>4, <1>5, <1>6, <1>7
<1>8. CASE ~(IsZero(lhs) \/ IsRemainder)
  <2>1. PICK n : n = Special("inf", sign) /\ n.kind = "inf" /\ n.coef = 0
    BY SpecialFields
  <2>2. PICK flags : flags = {"Division_by_zero"}
    OBVIOUS
  <2>k. n.kind \in Kinds /\ n.coef \in Nat
    BY <2>1, KindsHold, Zenon
  <2>3. n.kind \in Kinds /\ n.coef \in Nat /\ Deliver(n, flags)
    BY <1>1, <1>8, <2>1, <2>2, <2>k
  <2>4. n = AfterStatus(n, flags) /\ flags = flags \ {"sNaN"} /\ flags \subseteq Flags
    BY <2>2, AfterFlags DEF Flags
  <2>5. "Division_by_zero" \in flags /\ "Division_impossible" \notin flags
    BY <2>2
  <2>6. Signalled(n, flags) /\ Divided(n, flags)
    BY <1>1, <1>3, <1>4, <1>8, <2>1, <2>5 DEF Signalled, Divided
  <2> QED
    BY <1>2, <2>3, <2>4, <2>6, DeliverReached
<1> QED
  BY <1>7, <1>8

LEMMA ZeroDividendStep ==
    ASSUME IInv, ZeroDividend
    PROVE  IInv'
<1>1. /\ pc = "start" /\ ~IsSpecial(lhs) /\ ~IsSpecial(rhs) /\ IsZero(lhs) /\ ~IsZero(rhs)
      /\ \/ /\ Dividing
            /\ ToFinish(Work(Finite(sign, 0, lhs.exp - rhs.exp), 0, {}))
         \/ op = "DIVIDEINT" /\ Deliver(Finite(sign, 0, 0), {})
         \/ /\ IsRemainder
            /\ Deliver([lhs EXCEPT !.exp = IF rhs.exp < @ THEN rhs.exp ELSE @], {})
  BY DEF ZeroDividend, BothFinite
<1>2. Known
  BY <1>1, StartFacts
<1>3. /\ lhs \in Numbers /\ sign \in BOOLEAN /\ lhs.exp \in Int /\ rhs.exp \in Int
  BY <1>2, KnownFacts
<1>4. /\ ~BothFiniteNonZero /\ ~IsNaN(lhs) /\ ~IsNaN(rhs) /\ ~Undefined /\ Defined
      /\ lhs.kind = "finite" /\ lhs.coef = 0
  BY <1>1 DEF BothFiniteNonZero, IsSpecial, IsNaN, IsZero, Undefined, Defined
<1>5. ASSUME NEW n, n.kind = "finite", n.coef = 0, Deliver(n, {})
      PROVE  IInv'
  <2>1. PICK flags : flags = {}
    OBVIOUS
  <2>2. n.kind \in Kinds /\ n.coef \in Nat /\ Deliver(n, flags)
    BY <1>5, <2>1 DEF Kinds
  <2>3. n = AfterStatus(n, flags) /\ flags = flags \ {"sNaN"} /\ flags \subseteq Flags
    BY <2>1, AfterFlags
  <2>4. Signalled(n, flags) /\ Divided(n, flags)
    BY <1>1, <1>4, <1>5, <2>1 DEF Signalled, Divided
  <2> QED
    BY <1>2, <2>2, <2>3, <2>4, DeliverReached
<1>6. CASE Dividing /\ ToFinish(Work(Finite(sign, 0, lhs.exp - rhs.exp), 0, {}))
  <2>1. \A neg, n, q : Due(neg, n, q)
    BY <1>4 DEF Due
  <2>2. lhs.exp - rhs.exp \in Int
    BY <1>3
  <2> QED
    BY <1>2, <1>3, <1>4, <1>6, <2>1, <2>2, FinishZero
<1>7. CASE op = "DIVIDEINT" /\ Deliver(Finite(sign, 0, 0), {})
  <2>1. PICK n : n = Finite(sign, 0, 0) /\ n.kind = "finite" /\ n.coef = 0
    BY FiniteFields
  <2> QED
    BY <1>5, <1>7, <2>1
<1>8. CASE IsRemainder /\ Deliver([lhs EXCEPT !.exp = IF rhs.exp < @ THEN rhs.exp ELSE @], {})
  <2>1. PICK n : n = [lhs EXCEPT !.exp = IF rhs.exp < @ THEN rhs.exp ELSE @]
    OBVIOUS
  <2>2. n.kind = "finite" /\ n.coef = 0
    BY <1>3, <1>4, <2>1 DEF Numbers
  <2> QED
    BY <1>5, <1>8, <2>1, <2>2
<1> QED
  BY <1>1, <1>6, <1>7, <1>8

(***************************************************************************)
(* The integers an integer division and a remainder are about, and what is *)
(* due when the quotient is known to be below one.                         *)
(***************************************************************************)
LEMMA LowIs ==
    ASSUME Known
    PROVE  \E i \in Nat, j \in Nat :
               /\ i = lhs.exp - Low /\ j = rhs.exp - Low /\ Low \in Int /\ Low = lowexp
               /\ i - j = maxexponent /\ (i = 0 \/ j = 0)
               /\ Dividend = lhs.coef * powers[i] /\ Divisor = rhs.coef * powers[j]
               /\ Dividend \in Nat /\ Divisor \in Nat
<1>1. /\ lhs.coef \in Nat /\ rhs.coef \in Nat /\ lhs.exp \in Int /\ rhs.exp \in Int
  BY KnownFacts
<1>2. Low = (IF lhs.exp <= rhs.exp THEN lhs.exp ELSE rhs.exp)
  BY <1>1, MinOfTwo DEF Low
<1>3. PICK i \in Nat, j \in Nat : i = lhs.exp - Low /\ j = rhs.exp - Low
  BY <1>1, <1>2
<1>4. Low \in Int /\ Low = lowexp /\ (i = 0 \/ j = 0) /\ i - j = maxexponent
  BY <1>1, <1>2, <1>3 DEF lowexp, maxexponent
<1>5. Dividend = lhs.coef * powers[i] /\ Divisor = rhs.coef * powers[j]
  BY <1>3 DEF Dividend, Divisor
<1>6. powers[i] \in Nat /\ powers[j] \in Nat
  BY PowersFacts
<1>7. Dividend \in Nat /\ Divisor \in Nat
  BY <1>1, <1>5, <1>6
<1> QED
  BY <1>3, <1>4, <1>5, <1>7

\* a shorter number is smaller, by much if it is shorter by two digits
LEMMA ShorterIsLess ==
    ASSUME NEW m \in Nat \ {0}, NEW n \in Nat \ {0}
    PROVE  /\ Digits(m) < Digits(n) => m < n
           /\ Digits(m) + 1 < Digits(n) => 2 * m < n
<1>1. PICK d \in Nat \ {0}, e \in Nat \ {0} : d = Digits(m) /\ e = Digits(n)
  BY DigitsFacts
<1>2. m < powers[d] /\ powers[e - 1] <= n
  BY <1>1, DigitsFacts
<1>d. d \in Nat /\ e - 1 \in Nat
  BY <1>1
<1>p. powers[d] \in Nat /\ powers[e - 1] \in Nat
  BY <1>d, PowersFacts
<1>3. PICK x \in Nat, y \in Nat : x = powers[d] /\ y = powers[e - 1]
  BY <1>p
<1>4. d < e => x <= y
  BY <1>1, <1>3, PowersGrow
<1>5. d + 1 < e => 10 * x <= y
  BY <1>1, <1>3, PowersGrow
<1> QED
  BY <1>1, <1>2, <1>3, <1>4, <1>5

LEMMA BelowOne ==
    ASSUME Known, BothFiniteNonZero, adjusted < 0
    PROVE  /\ Whole = 0 /\ Left = Dividend /\ Divisor \in Nat \ {0} /\ Dividend \in Nat
           /\ adjusted < -1 => 2 * Left < Divisor
           /\ ~TooLong(Whole)
<1>1. PICK i \in Nat, j \in Nat :
               /\ i - j = maxexponent
               /\ Dividend = lhs.coef * powers[i] /\ Divisor = rhs.coef * powers[j]
  BY LowIs
<1>2. /\ lhs.coef \in Nat \ {0} /\ rhs.coef \in Nat \ {0} /\ lhs.exp \in Int /\ rhs.exp \in Int
      /\ reqdigits \in Nat \ {0}
  BY KnownFacts DEF BothFiniteNonZero
<1>3. PICK d \in Nat \ {0}, e \in Nat \ {0} : d = Digits(lhs.coef) /\ e = Digits(rhs.coef)
  BY <1>2, DigitsFacts
<1>4. PICK m \in Nat, n \in Nat : m = Dividend /\ n = Divisor
  BY LowIs
<1>5. m # 0 /\ n # 0
  <2>1. PICK x \in Nat \ {0}, y \in Nat \ {0} : x = powers[i] /\ y = powers[j]
    <3>1. powers[i] \in Nat \ {0}
      BY PowersFacts
    <3>2. powers[j] \in Nat \ {0}
      BY PowersFacts
    <3> QED
      BY <3>1, <3>2
  <2>2. lhs.coef * x \in Nat \ {0} /\ rhs.coef * y \in Nat \ {0}
    BY <1>2, <2>1
  <2> QED
    BY <1>1, <1>4, <2>1, <2>2
<1>6. Digits(m) = d + i /\ Digits(n) = e + j
  BY <1>1, <1>2, <1>3, <1>4, DigitsScaled
<1>7. adjusted = (d + i) - (e + j)
  BY <1>1, <1>2, <1>3 DEF adjusted, maxexponent
<1>8. m < n /\ (adjusted < -1 => 2 * m < n)
  <2>1. d + i < e + j /\ (adjusted < -1 => d + i + 1 < e + j)
    BY <1>7
  <2> QED
    BY <1>4, <1>5, <1>6, <2>1, ShorterIsLess
<1>9. m \div n = 0 /\ m % n = m
  <2>1. m = 0 * n + m /\ n \in Nat \ {0}
    BY <1>4, <1>5
  <2>2. 0 \in Nat
    OBVIOUS
  <2> QED
    BY <1>8, <2>1, <2>2, QuotientIs
<1>10. Whole = 0 /\ Left = m
  BY <1>4, <1>9 DEF Whole, Left
<1>11. ~TooLong(Whole)
  <2>1. powers[set.digits] \in Nat /\ powers[set.digits] >= 1
    BY <1>2, PowersFacts DEF reqdigits
  <2> QED
    BY <1>10, <2>1 DEF TooLong
<1> QED
  BY <1>4, <1>5, <1>8, <1>10, <1>11

LEMMA NonZeroDefined ==
    ASSUME BothFiniteNonZero
    PROVE  /\ Defined /\ ~IsNaN(lhs) /\ ~IsNaN(rhs) /\ ~Undefined
           /\ ~IsZero(rhs) /\ ~IsZero(lhs) /\ ~IsSpecial(lhs) /\ ~IsSpecial(rhs)
  BY DEF BothFiniteNonZero, Defined, Undefined, IsSpecial, IsNaN, IsZero

LEMMA QuotientBelowOneStep ==
    ASSUME IInv, QuotientBelowOne
    PROVE  IInv'
<1>1. /\ pc = "start" /\ BothNonZero
      /\ \/ op = "DIVIDEINT" /\ adjusted < 0 /\ Deliver(Finite(sign, 0, 0), {})
         \/ LhsIsRemainder /\ CopyLhs
  BY DEF QuotientBelowOne, BothNonZero, BothFinite
<1>2. Known
  BY <1>1, StartFacts
<1>3. BothFiniteNonZero
  BY <1>1 DEF BothNonZero, BothFinite, BothFiniteNonZero, IsZero, IsSpecial
<1>4. /\ Defined /\ ~IsNaN(lhs) /\ ~IsNaN(rhs) /\ ~Undefined
      /\ ~IsZero(rhs) /\ ~IsSpecial(lhs)
  BY <1>3, NonZeroDefined
<1>5. /\ lhs \in Numbers /\ sign \in BOOLEAN /\ Context(set)
      /\ lhs.neg \in BOOLEAN /\ lhs.coef \in Nat /\ lhs.exp \in Int /\ rhs.exp \in Int
  BY <1>2, KnownFacts
<1>6. CASE op = "DIVIDEINT" /\ adjusted < 0 /\ Deliver(Finite(sign, 0, 0), {})
  <2>1. Whole = 0 /\ ~TooLong(Whole)
    BY <1>2, <1>3, <1>6, BelowOne
  <2>2. PICK n : n = Finite(sign, 0, 0) /\ n.kind = "finite" /\ n.coef = 0
    BY FiniteFields
  <2>3. PICK flags : flags = {}
    OBVIOUS
  <2>4. Delivered(sign, 0, 0, set) = n /\ FlagsFor(sign, 0, 0, set) = flags
    <3>1. ZeroPlace(0, set) = 0
      BY <1>5, ContextRange DEF ZeroPlace
    <3>2. 0 \in Int
      OBVIOUS
    <3>3. /\ Delivered(sign, 0, 0, set) = Finite(sign, 0, ZeroPlace(0, set))
          /\ FlagsFor(sign, 0, 0, set) = IF ZeroPlace(0, set) # 0 THEN {"Clamped"} ELSE {}
      BY <1>5, <3>2, ZeroDelivered
    <3> QED
      BY <2>2, <2>3, <3>1, <3>3
  <2>5. n.kind \in Kinds /\ n.coef \in Nat /\ Deliver(n, flags)
    BY <1>6, <2>2, <2>3, KindsHold, Zenon
  <2>6. n = AfterStatus(n, flags) /\ flags = flags \ {"sNaN"} /\ flags \subseteq Flags
    BY <2>3, AfterFlags
  <2>7. Signalled(n, flags)
    BY <1>4, <2>2, <2>3 DEF Signalled
  <2>8. Divided(n, flags)
    BY <1>6, <2>1, <2>4 DEF Divided, Dividing, IsRemainder
  <2> QED
    BY <1>2, <2>5, <2>6, <2>7, <2>8, DeliverReached
<1>7. CASE LhsIsRemainder /\ CopyLhs
  <2>1. /\ IsRemainder /\ adjusted < 0 /\ lhs.exp <= rhs.exp
        /\ op = "REMAINDER" \/ adjusted < -1
    BY <1>7 DEF LhsIsRemainder
  <2>2. /\ Whole = 0 /\ Left = Dividend /\ Divisor \in Nat \ {0} /\ Dividend \in Nat
        /\ adjusted < -1 => 2 * Left < Divisor
        /\ ~TooLong(Whole)
    BY <1>2, <1>3, <2>1, BelowOne
  <2>3. Low = lhs.exp /\ Dividend = lhs.coef
    <3>1. Low = lhs.exp
      BY <1>5, <2>1, MinOfTwo DEF Low
    <3>2. Dividend = lhs.coef * powers[0]
      BY <1>5, <3>1 DEF Dividend
    <3> QED
      BY <1>5, <3>1, <3>2, PowersFacts
  <2>4. ~(op = "REMNEAR" /\ UpToNear)
    <3>1. ASSUME op = "REMNEAR" PROVE ~UpToNear
      <4>1. 2 * Left < Divisor /\ Left \in Nat /\ Divisor \in Nat
        BY <2>1, <2>2, <3>1
      <4> QED
        BY <4>1 DEF UpToNear
    <3> QED
      BY <3>1
  <2>5. Due(lhs.neg, lhs.coef, lhs.exp)
    <3>1. ~Dividing /\ op # "DIVIDEINT"
      BY <2>1 DEF Dividing, IsRemainder
    <3> QED
      BY <2>2, <2>3, <2>4, <3>1 DEF Due
  <2>6. lhs = Finite(lhs.neg, lhs.coef, lhs.exp)
    BY <1>4, <1>5, NumberIs
  <2>7. ToFinish(SetCoeff(Work(Finite(lhs.neg, lhs.coef, lhs.exp), 0, {}), set))
    BY <1>7, <2>6, Zenon DEF CopyLhs
  <2> QED
    BY <1>2, <1>4, <1>5, <2>5, <2>7, FinishExact
<1> QED
  BY <1>1, <1>6, <1>7

(***************************************************************************)
(* Setting up: the room there is, where the operands meet, and how far an  *)
(* integer division is shifted down.                                       *)
(***************************************************************************)
LEMMA D2UGrows ==
    ASSUME NEW a \in Nat \ {0}, NEW b \in Nat \ {0}, a <= b
    PROVE  D2U(a) <= D2U(b)
<1>1. PICK k \in Nat \ {0} : k = D2U(b) /\ b <= DPUN * k
  BY D2UIs
<1>2. a <= DPUN * k
  <2>1. DPUN * k \in Nat
    BY <1>1, DPUNRange
  <2> QED
    BY <1>1, <2>1
<1> QED
  BY <1>1, <1>2, D2UAtMost

LEMMA NonZeroFacts ==
    ASSUME Known, BothFiniteNonZero
    PROVE  /\ lhs.coef \in Nat \ {0} /\ rhs.coef \in Nat \ {0}
           /\ lhs.exp \in Int /\ rhs.exp \in Int /\ maxexponent \in Int
           /\ reqdigits \in Nat \ {0} /\ Context(set) /\ sign \in BOOLEAN
           /\ Units(lhs.coef) \in Nat \ {0} /\ var2units \in Nat \ {0}
           /\ var2units = Units(rhs.coef)
<1>1. lhs.coef \in Nat \ {0} /\ rhs.coef \in Nat \ {0}
  BY KnownFacts DEF BothFiniteNonZero
<1> QED
  BY <1>1, KnownFacts, UnitsFacts DEF var2units

LEMMA RoomFacts ==
    ASSUME Known, BothFiniteNonZero
    PROVE  \E v \in Nat, w \in Nat :
               /\ v = var1units /\ w + 2 <= v
               /\ Units(lhs.coef) + 2 <= v /\ var2units + 2 <= v
               /\ ~Dividing => w + 3 <= v /\ Units(lhs.coef) + 3 <= v
               /\ powers[reqdigits - 1] * (Base * rhs.coef) <= BP(w + 1)
<1>1. /\ lhs.coef \in Nat \ {0} /\ rhs.coef \in Nat \ {0}
      /\ reqdigits \in Nat \ {0} /\ var2units = Units(rhs.coef)
  BY NonZeroFacts
<1>2. PICK dl \in Nat \ {0}, dr \in Nat \ {0} :
          /\ dl = Digits(lhs.coef) /\ dr = Digits(rhs.coef) /\ rhs.coef < powers[dr]
  BY <1>1, DigitsFacts
<1>3. PICK slide \in Nat \ {0}, maxd \in Nat \ {0} :
          /\ slide = dr + reqdigits - 1
          /\ maxd = IF dl > slide THEN dl ELSE slide
  BY <1>1, <1>2
<1>4. PICK w \in Nat \ {0}, x \in Nat \ {0} : w = D2U(slide) /\ x = D2U(maxd) /\ slide <= DPUN * w
  BY <1>3, D2UIs
<1>5. var1units = x + 2 + (IF Dividing THEN 0 ELSE 1)
  BY <1>2, <1>3, <1>4 DEF var1units
<1>6. w <= x /\ Units(lhs.coef) <= x /\ var2units <= x
  <2>1. slide <= maxd /\ dl <= maxd /\ dr <= maxd
    BY <1>1, <1>2, <1>3
  <2>2. w <= x /\ D2U(dl) <= x /\ D2U(dr) <= x
    BY <1>2, <1>3, <1>4, <2>1, D2UGrows
  <2> QED
    BY <1>1, <1>2, <2>2 DEF Units
<1>7. powers[reqdigits - 1] * (Base * rhs.coef) <= BP(w + 1)
  <2>1. PICK p \in Nat, r \in Nat, b \in Nat, z \in Nat, y \in Nat :
            /\ p = powers[reqdigits - 1] /\ r = rhs.coef /\ b = Base /\ z = powers[dr]
            /\ y = BP(w)
    <3>1. reqdigits - 1 \in Nat
      BY <1>1
    <3>2. powers[reqdigits - 1] \in Nat /\ powers[dr] \in Nat /\ BP(w) \in Nat
      BY <1>4, <3>1, PowersFacts, BPStep
    <3> QED
      BY <1>1, <3>2, BaseFacts
  <2>2. p * z <= y
    <3>1. powers[dr + (reqdigits - 1)] = z * p
      <4>1. reqdigits - 1 \in Nat
        BY <1>1
      <4> QED
        BY <2>1, <4>1, PowersSum
    <3>2. powers[slide] = z * p
      <4>1. slide = dr + (reqdigits - 1)
        BY <1>1, <1>3
      <4> QED
        BY <3>1, <4>1
    <3>3. powers[slide] <= powers[DPUN * w]
      <4>1. DPUN * w \in Nat
        BY <1>4, DPUNRange
      <4> QED
        BY <1>3, <1>4, <4>1, PowersGrow
    <3>4. p * z = z * p
      BY <2>1
    <3> QED
      BY <2>1, <3>2, <3>3, <3>4 DEF BP
  <2>3. p * r <= p * z /\ p * r \in Nat /\ p * z \in Nat
    BY <1>2, <2>1, MulGrows
  <2>4. (p * r) * b <= y * b
    <3>1. p * r <= y
      BY <2>1, <2>2, <2>3
    <3> QED
      BY <2>1, <2>3, <3>1, MulGrows
  <2>5. p * (b * r) = (p * r) * b
    BY <2>1
  <2>6. BP(w + 1) = y * b
    BY <1>4, <2>1, BPStep
  <2> QED
    BY <2>1, <2>4, <2>5, <2>6
<1>8. PICK v \in Nat : v = x + 2 + (IF Dividing THEN 0 ELSE 1)
  BY <1>4
<1>9. /\ w + 2 <= v /\ Units(lhs.coef) + 2 <= v /\ var2units + 2 <= v
      /\ ~Dividing => w + 3 <= v /\ Units(lhs.coef) + 3 <= v
  <2>1. Units(lhs.coef) \in Nat /\ var2units \in Nat
    BY NonZeroFacts
  <2> QED
    BY <1>4, <1>6, <1>8, <2>1
<1>10. v = var1units /\ w \in Nat
  BY <1>4, <1>5, <1>8
<1> QED
  BY <1>7, <1>9, <1>10

LEMMA StartExponentIs ==
    ASSUME Known, BothFiniteNonZero
    PROVE  /\ StartExponent = maxexponent + DPUN * Units(lhs.coef) - DPUN * var2units
           /\ adjusted - (DPUN - 1) <= StartExponent
           /\ StartExponent \in Int /\ adjusted \in Int
<1>1. /\ lhs.coef \in Nat \ {0} /\ rhs.coef \in Nat \ {0} /\ var2units = Units(rhs.coef)
      /\ lhs.exp \in Int /\ rhs.exp \in Int /\ maxexponent \in Int
  BY NonZeroFacts
<1>2. ASSUME NEW n \in Nat \ {0}
      PROVE  \E t \in Nat, u \in Nat \ {0}, du \in Nat \ {0} :
                 /\ t = DPUN * u /\ u = Units(n) /\ du = Digits(TopUnit(n)) /\ du <= DPUN
                 /\ Digits(n) = du + t - DPUN
  <2>1. PICK t, u : t = TopUnit(n) /\ u = Units(n)
    OBVIOUS
  <2>2. /\ u \in Nat \ {0} /\ t \in 1..(Base - 1)
        /\ Digits(n) = Digits(t) + DPUN * (u - 1)
    BY <2>1, TopUnitFacts
  <2>3. t \in Nat /\ t < powers[DPUN] /\ Base \in Nat
    BY <2>2, BaseFacts
  <2>4. Digits(t) \in Nat \ {0} /\ Digits(t) <= DPUN
    BY <2>3, DPUNRange, DigitsFacts, DigitsAtMost
  <2>5. DPUN * (u - 1) = DPUN * u - DPUN /\ DPUN * u \in Nat
    BY <2>2, DPUNRange
  <2> QED
    BY <2>1, <2>2, <2>4, <2>5
<1>3. PICK tl \in Nat, ul \in Nat \ {0}, dl \in Nat \ {0} :
          /\ tl = DPUN * ul /\ ul = Units(lhs.coef) /\ dl = Digits(TopUnit(lhs.coef))
          /\ dl <= DPUN /\ Digits(lhs.coef) = dl + tl - DPUN
  <2>1. PICK n \in Nat \ {0} : n = lhs.coef
    BY <1>1
  <2>2. PICK t \in Nat, u \in Nat \ {0}, du \in Nat \ {0} :
            /\ t = DPUN * u /\ u = Units(n) /\ du = Digits(TopUnit(n)) /\ du <= DPUN
            /\ Digits(n) = du + t - DPUN
    BY <1>2, Zenon
  <2>3. /\ t = DPUN * u /\ u = Units(lhs.coef) /\ du = Digits(TopUnit(lhs.coef))
        /\ du <= DPUN /\ Digits(lhs.coef) = du + t - DPUN
    BY <2>1, <2>2, Zenon
  <2> QED
    BY <2>3, Zenon
<1>4. PICK tr \in Nat, ur \in Nat \ {0}, dr \in Nat \ {0} :
          /\ tr = DPUN * ur /\ ur = Units(rhs.coef) /\ dr = Digits(TopUnit(rhs.coef))
          /\ dr <= DPUN /\ Digits(rhs.coef) = dr + tr - DPUN
  <2>1. PICK n \in Nat \ {0} : n = rhs.coef
    BY <1>1
  <2>2. PICK t \in Nat, u \in Nat \ {0}, du \in Nat \ {0} :
            /\ t = DPUN * u /\ u = Units(n) /\ du = Digits(TopUnit(n)) /\ du <= DPUN
            /\ Digits(n) = du + t - DPUN
    BY <1>2, Zenon
  <2>3. /\ t = DPUN * u /\ u = Units(rhs.coef) /\ du = Digits(TopUnit(rhs.coef))
        /\ du <= DPUN /\ Digits(rhs.coef) = du + t - DPUN
    BY <2>1, <2>2, Zenon
  <2> QED
    BY <2>3, Zenon
<1>5. PICK a \in Int : a = adjusted
  BY <1>1, <1>3, <1>4, DPUNRange DEF adjusted
<1>6. a = maxexponent + (dl + tl - DPUN) - (dr + tr - DPUN)
  BY <1>1, <1>3, <1>4, <1>5, DPUNRange DEF adjusted, maxexponent
<1>7. StartExponent = a - (dl - 1) + (dr - 1)
  BY <1>3, <1>4, <1>5 DEF StartExponent
<1>8. PICK d \in Nat \ {0}, m \in Int : d = DPUN /\ m = maxexponent
  BY <1>1, DPUNRange
<1>9. /\ a - (dl - 1) + (dr - 1) = m + tl - tr
      /\ a - (d - 1) <= a - (dl - 1) + (dr - 1)
  <2>1. a = m + (dl + tl - d) - (dr + tr - d) /\ dl <= d
    BY <1>3, <1>6, <1>8
  <2> QED
    BY <2>1
<1>10. tr = DPUN * var2units /\ tl = DPUN * Units(lhs.coef)
  BY <1>1, <1>3, <1>4
<1> QED
  BY <1>3, <1>4, <1>5, <1>7, <1>8, <1>9, <1>10

\* how far an integer division is shifted down, which is never too far
LEMMA CutFacts ==
    ASSUME Known, BothFiniteNonZero, ~Dividing,
           ~(op = "DIVIDEINT" /\ adjusted < 0), ~LhsIsRemainder,
           NEW cut, cut = ToUnitBoundary(StartExponent),
           NEW pad, pad = (var1units - Units(lhs.coef)) * DPUN
    PROVE  /\ cut \in Nat /\ pad \in Nat /\ cut + 2 * DPUN <= pad
           /\ StartExponent + cut \in Nat /\ (StartExponent + cut) % DPUN = 0
           /\ cut <= DPUN \/ StartExponent + cut = 0
<1>1. PICK s \in Int, a \in Int, m \in Int : s = StartExponent /\ a = adjusted /\ m = maxexponent
  BY StartExponentIs, NonZeroFacts
<1>2. PICK v \in Nat : /\ v = var1units /\ Units(lhs.coef) + 3 <= v /\ var2units + 2 <= v
  BY RoomFacts
<1>3. PICK ul \in Nat, ur \in Nat : ul = Units(lhs.coef) /\ ur = var2units
  BY NonZeroFacts
<1>4. PICK d \in Nat \ {0} : d = DPUN
  BY DPUNRange
<1>5. s = m + d * ul - d * ur /\ a - (d - 1) <= s
  BY <1>1, <1>3, <1>4, StartExponentIs
<1>6. PICK dv \in Nat, dl \in Nat, dr \in Nat : dv = d * v /\ dl = d * ul /\ dr = d * ur
  BY <1>2, <1>3, <1>4
<1>7. dl + 3 * d <= dv /\ dr + 2 * d <= dv
  <2>1. d * (ul + 3) <= d * v /\ d * (ur + 2) <= d * v
    BY <1>2, <1>3, <1>4, MulGrows
  <2>2. d * (ul + 3) = d * ul + 3 * d /\ d * (ur + 2) = d * ur + 2 * d
    BY <1>3, <1>4
  <2> QED
    BY <1>6, <2>1, <2>2
<1>8. pad = dv - dl
  <2>1. (v - ul) * d = d * v - d * ul
    BY <1>2, <1>3, <1>4
  <2> QED
    BY <1>2, <1>3, <1>4, <1>6, <2>1
<1>9. s = m + dl - dr
  BY <1>5, <1>6
<1>10. CASE s < 0
  <2>1. cut = -s
    BY <1>1, <1>10 DEF ToUnitBoundary
  <2>2. a >= -1 \/ m >= 1
    <3>1. SUFFICES ASSUME a < -1 PROVE m >= 1
      BY <1>1
    <3>2. IsRemainder
      BY <1>1, <3>1, KnownFacts DEF Ops, Dividing, IsRemainder
    <3>3. lhs.exp > rhs.exp
      BY <1>1, <3>1, <3>2, NonZeroFacts DEF LhsIsRemainder
    <3> QED
      BY <1>1, <3>3, NonZeroFacts DEF maxexponent
  <2>3. cut + 2 * d <= pad
    BY <1>1, <1>4, <1>5, <1>6, <1>7, <1>8, <1>9, <1>10, <2>1, <2>2
  <2>4. s + cut = 0 /\ 0 % d = 0
    BY <1>4, <1>10, <2>1
  <2>5. cut \in Nat /\ pad \in Nat
    BY <1>4, <1>6, <1>7, <1>8, <1>10, <2>1
  <2> QED
    BY <1>1, <1>4, <2>3, <2>4, <2>5
<1>11. CASE s >= 0
  <2>s. s \in Nat
    BY <1>1, <1>11
  <2>e. s \div d \in Nat /\ s % d \in Nat /\ s % d < d /\ s = (s \div d) * d + (s % d)
    BY <2>s, <1>4, Euclid
  <2>1. PICK q \in Nat, r \in Nat : s % d = r /\ r < d /\ s = q * d + r
    BY <2>e
  <2>2. cut = d - r
    BY <1>1, <1>4, <1>11, <2>1 DEF ToUnitBoundary
  <2>3. s + cut = (q + 1) * d + 0 /\ q + 1 \in Nat /\ s + cut \in Nat
    BY <1>4, <2>1, <2>2
  <2>4. (s + cut) % d = 0
    BY <1>4, <2>3, QuotientIs
  <2>5. cut + 2 * d <= pad /\ cut \in Nat /\ pad \in Nat /\ cut <= d
    BY <1>4, <1>6, <1>7, <1>8, <2>1, <2>2
  <2> QED
    BY <1>1, <1>4, <2>3, <2>4, <2>5
<1> QED
  BY <1>1, <1>10, <1>11

LEMMA PaddedFacts ==
    ASSUME NEW n \in Nat \ {0}, NEW u, u = Units(n), NEW v \in Nat, u <= v,
           NEW p \in Nat, NEW k \in Nat, DPUN * k <= p, p <= DPUN * (v - u)
    PROVE  /\ n * powers[p] \in Nat \ {0} /\ n * powers[p] < BP(v)
           /\ BP(u - 1 + k) <= n * powers[p]
<1>1. u \in Nat \ {0} /\ n < BP(u) /\ BP(u - 1) <= n
  BY UnitsFacts
<1>2. PICK x \in Nat, y \in Nat : x = BP(u - 1) /\ y = BP(u) /\ x <= n /\ n + 1 <= y
  <2>1. u - 1 \in Nat /\ BP(u - 1) \in Nat /\ BP(u) \in Nat
    BY <1>1, BPStep
  <2> QED
    BY <1>1, <2>1
<1>3. PICK q \in Nat \ {0} : q = powers[p]
  BY PowersFacts
<1>4. BP(k) <= q /\ BP(k) \in Nat
  <2>1. DPUN * k \in Nat
    BY DPUNRange
  <2> QED
    BY <1>3, <2>1, PowersGrow, BPStep DEF BP
<1>5. q <= BP(v - u) /\ BP(v - u) \in Nat
  <2>1. v - u \in Nat
    BY <1>1
  <2>2. DPUN * (v - u) \in Nat
    BY <2>1, DPUNRange
  <2> QED
    BY <1>3, <2>1, <2>2, PowersGrow, BPStep DEF BP
<1>6. BP(u - 1 + k) = x * BP(k) /\ BP(v) = y * BP(v - u)
  <2>1. u - 1 \in Nat /\ v - u \in Nat /\ u + (v - u) = v
    BY <1>1
  <2>2. BP((u - 1) + k) = BP(u - 1) * BP(k)
    BY <2>1, BPSum
  <2>3. BP(u + (v - u)) = BP(u) * BP(v - u)
    BY <1>1, <2>1, BPSum
  <2> QED
    BY <1>2, <2>1, <2>2, <2>3
<1>7. x * BP(k) <= n * q
  <2>1. x * BP(k) <= x * q /\ x * BP(k) \in Nat /\ x * q \in Nat
    BY <1>2, <1>3, <1>4, MulGrows
  <2>2. x * q <= n * q /\ n * q \in Nat
    BY <1>2, <1>3, MulGrows
  <2> QED
    BY <2>1, <2>2
<1>8. n * q < y * BP(v - u)
  <2>1. (n + 1) * q <= y * q /\ (n + 1) * q \in Nat /\ y * q \in Nat
    BY <1>2, <1>3, MulGrows
  <2>2. y * q <= y * BP(v - u) /\ y * BP(v - u) \in Nat
    BY <1>2, <1>3, <1>5, MulGrows
  <2>3. (n + 1) * q = n * q + q /\ n * q \in Nat
    BY <1>3
  <2> QED
    BY <1>3, <2>1, <2>2, <2>3
<1>9. n * q \in Nat \ {0}
  BY <1>3
<1> QED
  BY <1>3, <1>6, <1>7, <1>8, <1>9

\* from the start to the first step of the division
LEMMA DivideEntered ==
    ASSUME IInv, SetUp, BothFiniteNonZero, NEW pad \in Nat, NEW x \in Nat, NEW total \in Nat \ {0},
           2 * DPUN <= pad, var2units <= x, x <= var1units,
           var2ulen' = x, var1' = total, total = lhs.coef * powers[pad],
           total < BP(var1units), exponent' \in Int,
           pad = IF Dividing THEN (var1units - Units(lhs.coef)) * DPUN ELSE var1initpad',
           Dividing => var1initpad' = var1initpad,
           exponent' = maxexponent + DPUN * (x - var2units) - pad,
           ~Dividing => exponent' \in Nat /\ exponent' % DPUN = 0,
           \/ powers[reqdigits - 1] * (Base * rhs.coef) <= total
           \/ ~Dividing /\ exponent' = 0,
           total < Base * (rhs.coef * powers[DPUN * (x - var2units)])
    PROVE  IInv'
<1>1. /\ pc = "start" /\ bits' = sign /\ thisunit' = 0 /\ pc' = "divide" /\ call' = call
      /\ stale' = stale /\ acc' = acc /\ accunits' = accunits
      /\ res' = res /\ residue' = residue /\ status' = status
  BY DEF SetUp, BothNonZero, BothFinite, call
<1>2. /\ Known /\ ~stale /\ acc = 0 /\ accunits = 0
      /\ res = Finite(FALSE, 0, 0) /\ residue = 0 /\ status = {} /\ var1initpad = 0
  BY <1>1 DEF IInv, AtStart
<1>3. /\ op' = op /\ lhs' = lhs /\ rhs' = rhs /\ set' = set
      /\ Dividing' = Dividing /\ IsRemainder' = IsRemainder
      /\ reqdigits' = reqdigits /\ var2units' = var2units /\ sign' = sign
      /\ var1units' = var1units /\ maxexponent' = maxexponent
      /\ BothFiniteNonZero' = BothFiniteNonZero
  BY <1>1, SameCall
<1>4. PICK l \in Nat, r \in Nat, d \in Nat : l = lhs.coef /\ r = rhs.coef /\ d = reqdigits /\ d # 0
  BY <1>2, KnownFacts
<1>5. Known'
  <2>1. sign \in BOOLEAN /\ stale \in BOOLEAN
    BY <1>2, KnownFacts DEF Known, TypeOK
  <2>2. bits' \in BOOLEAN /\ stale' \in BOOLEAN
    BY <1>1, <2>1
  <2>3. var1initpad' \in Nat
    BY <1>2
  <2>4. thisunit' \in 0..(Base - 1) /\ var1' \in Nat /\ var2ulen' \in Nat
    BY <1>1, BaseFacts
  <2>5. TypeOK'
    <3>1. /\ op' \in Ops
          /\ pc' \in {"start", "divide", "accumulate", "complete", "finish", "report", "done"}
          /\ acc' \in Nat /\ accunits' \in Nat /\ exponent' \in Int
          /\ res'.kind \in Kinds /\ res'.coef \in Nat
          /\ residue' \in -1..9 /\ status' \subseteq Flags
      BY <1>1, <1>2, <1>3 DEF Known, TypeOK
    <3> QED
      BY <2>2, <2>3, <2>4, <3>1 DEF TypeOK
  <2>6. accunits' <= D2U(reqdigits + DPUN)
    BY <1>1, <1>2 DEF Known
  <2> QED
    BY <1>2, <1>3, <2>5, <2>6 DEF Known
<1>6. Pad' = pad
  BY <1>3 DEF Pad
<1>7. Total' = total
  BY <1>3, <1>6 DEF Total
<1>8. Block' = rhs.coef * powers[DPUN * (x - var2units)]
  BY <1>3 DEF Block, Padding
<1>9. Long' <=> powers[reqdigits - 1] * (Base * rhs.coef) <= total
  BY <1>3, <1>7 DEF Long
<1>10. Underway'
  <2>1. Long' \/ (~Dividing /\ exponent' = 0)
    BY <1>9
  <2>2. accunits' = IF acc' = 0 THEN 0 ELSE Units(acc')
    BY <1>1, <1>2
  <2>3. var2units' <= var2ulen' /\ var2ulen' <= var1units' /\ bits' = sign'
    BY <1>1, <1>3
  <2>4. Pad' \in Nat /\ 2 * DPUN <= Pad' /\ Total' < BP(var1units')
    BY <1>3, <1>6, <1>7
  <2>5. exponent' = maxexponent' + DPUN * (var2ulen' - var2units') - Pad'
    BY <1>3, <1>6
  <2> QED
    BY <1>1, <1>2, <1>3, <2>1, <2>2, <2>3, <2>4, <2>5 DEF Underway
<1>11. AtDivide'
  <2>0. PICK b \in Nat, y \in Nat : b = Base /\ y = Block'
    <3>1. x - var2units \in Nat
      BY <1>2, NonZeroFacts
    <3>2. powers[DPUN * (x - var2units)] \in Nat
      BY <3>1, DPUNRange, PowersFacts
    <3>3. rhs.coef * powers[DPUN * (x - var2units)] \in Nat
      BY <1>4, <3>2
    <3> QED
      BY <1>8, <3>3, BaseFacts
  <2>1. (acc' * Base + thisunit') * Block' + var1' = Total'
    <3>1. (0 * b + 0) * y + total = total
      BY <2>0
    <3> QED
      BY <1>1, <1>2, <1>7, <2>0, <3>1
  <2>2. thisunit' * Block' + var1' < Base * Block'
    <3>1. 0 * y + total = total
      BY <2>0
    <3>2. total < b * y
      BY <1>8, <2>0
    <3> QED
      BY <1>1, <2>0, <3>1, <3>2
  <2>3. Digits(acc') <= reqdigits'
    BY <1>1, <1>2, <1>3, <1>4, DigitsFacts
  <2>4. KeepsGoing'
    BY DEF KeepsGoing
  <2> QED
    BY <1>1, <1>2, <1>10, <2>1, <2>2, <2>3, <2>4 DEF AtDivide
<1> QED
  BY <1>1, <1>5, <1>11
     DEF IInv, AtStart, AtAccumulate, AtComplete, AtFinish, AtReport, AtDone

\* where the top Unit of a padded number stands
LEMMA TopPlaced ==
    ASSUME NEW n \in Nat \ {0}, NEW u, u = Units(n), NEW t, t = TopUnit(n),
           NEW x \in Nat, u <= x
    PROVE  /\ x - 1 \in Nat /\ t \in Nat \ {0}
           /\ t * BP(x - 1) <= n * BP(x - u) /\ n * BP(x - u) < (t + 1) * BP(x - 1)
           /\ BP(x - 1) <= n * BP(x - u) /\ n * BP(x - u) \in Nat \ {0}
<1>1. /\ u \in Nat \ {0} /\ t \in Nat \ {0}
      /\ t * BP(u - 1) <= n /\ n < (t + 1) * BP(u - 1)
  <2>1. t \in 1..(Base - 1) /\ Base \in Nat
    BY TopUnitFacts, BaseFacts
  <2> QED
    BY <2>1, TopUnitFacts
<1>2. PICK y \in Nat \ {0}, z \in Nat \ {0} : y = BP(u - 1) /\ z = BP(x - u) /\ BP(x - 1) = y * z
  <2>1. u - 1 \in Nat /\ x - u \in Nat /\ (u - 1) + (x - u) = x - 1
    BY <1>1
  <2>2. /\ BP((u - 1) + (x - u)) = BP(u - 1) * BP(x - u)
        /\ BP(u - 1) \in Nat \ {0} /\ BP(x - u) \in Nat \ {0}
    BY <2>1, BPSum
  <2> QED
    BY <2>1, <2>2
<1>3. PICK a \in Nat, c \in Nat : a = t * y /\ c = (t + 1) * y /\ a <= n /\ n + 1 <= c
  <2>1. t * y \in Nat /\ (t + 1) * y \in Nat
    BY <1>1, <1>2
  <2> QED
    BY <1>1, <1>2, <2>1
<1>4. a * z <= n * z /\ (n + 1) * z <= c * z /\ a * z \in Nat /\ n * z \in Nat /\ c * z \in Nat
  BY <1>2, <1>3, MulGrows
<1>5. a * z = t * (y * z) /\ c * z = (t + 1) * (y * z) /\ (n + 1) * z = n * z + z
  BY <1>1, <1>2, <1>3
<1>6. PICK f \in Nat \ {0} : f = y * z
  BY <1>2
<1>7. f <= t * f
  <2>1. 1 * f <= t * f
    BY <1>1, <1>6, MulGrows
  <2> QED
    BY <1>6, <2>1
<1>8. n * z \in Nat \ {0}
  BY <1>2
<1>9. t * f <= n * z /\ n * z < (t + 1) * f /\ f <= n * z
  <2>0. t * f \in Nat /\ (t + 1) * f \in Nat
    BY <1>1, <1>6
  <2>1. PICK g \in Nat, h \in Nat, k \in Nat : g = t * f /\ h = n * z /\ k = (t + 1) * f
    BY <2>0, <1>8
  <2>2. g <= h /\ h + z <= k
    BY <1>4, <1>5, <1>6, <2>1
  <2> QED
    BY <1>2, <1>6, <1>7, <2>1, <2>2
<1> QED
  BY <1>1, <1>2, <1>6, <1>8, <1>9

LEMMA SetUpStep ==
    ASSUME IInv, SetUp
    PROVE  IInv'
<1>1. /\ pc = "start" /\ BothNonZero
      /\ ~(op = "DIVIDEINT" /\ adjusted < 0) /\ ~LhsIsRemainder
  BY DEF SetUp, BothNonZero, BothFinite
<1>2. Known /\ BothFiniteNonZero
  BY <1>1, StartFacts
     DEF BothNonZero, BothFinite, BothFiniteNonZero, IsZero, IsSpecial
<1>3. /\ lhs.coef \in Nat \ {0} /\ rhs.coef \in Nat \ {0}
      /\ maxexponent \in Int /\ reqdigits \in Nat \ {0}
      /\ var2units = Units(rhs.coef)
  BY <1>2, NonZeroFacts
<1>4. PICK l \in Nat \ {0}, r \in Nat \ {0}, ul \in Nat \ {0}, ur \in Nat \ {0}, m \in Int :
          /\ l = lhs.coef /\ r = rhs.coef /\ ul = Units(l) /\ ur = Units(r) /\ m = maxexponent
          /\ ur = var2units
  BY <1>3, UnitsFacts
<1>5. PICK v \in Nat, w \in Nat :
               /\ v = var1units /\ w + 2 <= v /\ ul + 2 <= v /\ ur + 2 <= v
               /\ ~Dividing => w + 3 <= v /\ ul + 3 <= v
               /\ powers[reqdigits - 1] * (Base * rhs.coef) <= BP(w + 1)
  <2>1. Units(lhs.coef) = ul /\ var2units = ur
    BY <1>4
  <2> QED
    BY <1>2, <2>1, RoomFacts, Zenon
<1>6. PICK d \in Nat \ {0}, s \in Int : /\ d = DPUN /\ s = StartExponent
                                        /\ s = m + d * ul - d * ur
  <2>1. StartExponent \in Int /\ StartExponent = maxexponent + DPUN * Units(lhs.coef) - DPUN * var2units
    BY <1>2, StartExponentIs
  <2> QED
    BY <1>3, <1>4, <2>1, DPUNRange
<1>b. ul <= v /\ ur <= v
  BY <1>5
<1>7. PICK bl \in Nat \ {0} : bl = r * BP(v - ur) /\ BP(v) <= Base * bl
  <2>1. BP(v - 1) <= r * BP(v - ur) /\ r * BP(v - ur) \in Nat \ {0} /\ v - 1 \in Nat
    BY <1>4, <1>b, TopPlaced
  <2>2. PICK bl \in Nat \ {0}, y \in Nat, b \in Nat : bl = r * BP(v - ur) /\ y = BP(v - 1) /\ b = Base
    BY <2>1, BPStep, BaseFacts
  <2>3. b * y <= b * bl
    BY <2>1, <2>2, MulGrows
  <2>4. BP(v) = b * y
    <3>1. (v - 1) + 1 = v
      BY <2>1
    <3>2. BP((v - 1) + 1) = Base * BP(v - 1)
      BY <2>1, BPStep
    <3> QED
      BY <2>2, <3>1, <3>2
  <2> QED
    BY <2>2, <2>3, <2>4
<1>8. CASE Dividing
  <2>1. PICK pad \in Nat : pad = d * (v - ul) /\ pad = (v - ul) * d /\ 2 * d <= pad /\ pad = d * v - d * ul
    <3>1. PICK k \in Nat : k = v - ul /\ 2 <= k
      BY <1>5
    <3>2. d * 2 <= d * k /\ d * k \in Nat /\ d * k = k * d
      BY <1>6, <3>1, MulGrows
    <3>3. d * (v - ul) = d * v - d * ul
      BY <1>4, <1>5, <1>6
    <3> QED
      BY <1>6, <3>1, <3>2, <3>3
  <2>2. PICK total \in Nat \ {0} : /\ total = l * powers[pad] /\ total < BP(v) /\ BP(v - 1) <= total
                                   /\ total = l * BP(v - ul)
    <3>1. v - ul \in Nat /\ ul - 1 + (v - ul) = v - 1 /\ ul <= v
      BY <1>4, <1>5
    <3>2. DPUN * (v - ul) <= pad /\ pad <= DPUN * (v - ul) /\ pad = DPUN * (v - ul)
      BY <1>6, <2>1
    <3>3. /\ l * powers[pad] \in Nat \ {0} /\ l * powers[pad] < BP(v)
          /\ BP(ul - 1 + (v - ul)) <= l * powers[pad]
      BY <1>4, <1>5, <2>1, <3>1, <3>2, PaddedFacts
    <3>4. BP(v - ul) = powers[pad]
      BY <3>2 DEF BP
    <3> QED
      BY <3>1, <3>3, <3>4
  <2>3. powers[reqdigits - 1] * (Base * rhs.coef) <= total
    <3>1. BP(w + 1) <= BP(v - 1) /\ BP(w + 1) \in Nat /\ BP(v - 1) \in Nat
      <4>1. w + 1 \in Nat /\ v - 1 \in Nat /\ w + 1 <= v - 1
        BY <1>5
      <4> QED
        BY <4>1, BPGrow, BPStep
    <3>2. powers[reqdigits - 1] * (Base * rhs.coef) \in Nat
      <4>1. reqdigits - 1 \in Nat
        BY <1>3
      <4>2. powers[reqdigits - 1] \in Nat /\ Base \in Nat
        BY <4>1, PowersFacts, BaseFacts
      <4> QED
        BY <1>3, <4>2
    <3> QED
      BY <1>5, <2>2, <3>1, <3>2
  <2>4. /\ var1' = total /\ var1initpad' = var1initpad
        /\ var2ulen' = IF TopUnit(lhs.coef) < TopUnit(rhs.coef) THEN v - 1 ELSE v
        /\ exponent' = IF TopUnit(lhs.coef) < TopUnit(rhs.coef) THEN s - d ELSE s
    BY <1>4, <1>5, <1>6, <1>8, <2>1, <2>2 DEF SetUp
  <2>5. pad = (var1units - Units(lhs.coef)) * DPUN
    BY <1>4, <1>5, <1>6, <2>1
  <2>6. ASSUME NEW x \in Nat, ur <= x, x <= v, var2ulen' = x, exponent' = m + d * (x - ur) - pad,
               total < Base * (r * powers[DPUN * (x - ur)])
        PROVE  IInv'
    <3>1. exponent' = maxexponent + DPUN * (x - var2units) - pad
      BY <1>4, <1>6, <2>6
    <3>2. exponent' \in Int
      <4>1. x - ur \in Nat
        BY <2>6
      <4> QED
        BY <1>6, <2>1, <2>6, <4>1
    <3>3. total < Base * (rhs.coef * powers[DPUN * (x - var2units)])
      BY <1>4, <2>6
    <3>4. total = lhs.coef * powers[pad] /\ total < BP(var1units) /\ 2 * DPUN <= pad
      BY <1>4, <1>5, <1>6, <2>1, <2>2
    <3>5. var2units <= x /\ x <= var1units
      BY <1>4, <1>5, <2>6
    <3> QED
      BY <1>2, <1>8, <2>3, <2>4, <2>5, <2>6, <3>1, <3>2, <3>3, <3>4, <3>5, DivideEntered
  <2>7. CASE TopUnit(lhs.coef) < TopUnit(rhs.coef)
    <3>1. PICK x \in Nat : x = v - 1 /\ ur <= x /\ x <= v
      BY <1>5
    <3>2. exponent' = m + d * (x - ur) - pad
      <4>1. d * (x - ur) = d * v - d - d * ur
        BY <1>4, <1>5, <1>6, <3>1
      <4>2. PICK dv \in Int, dl \in Int, dr \in Int : dv = d * v /\ dl = d * ul /\ dr = d * ur
        BY <1>4, <1>5, <1>6
      <4> QED
        BY <1>6, <2>1, <2>4, <2>7, <4>1, <4>2
    <3>3. total < Base * (r * powers[DPUN * (x - ur)])
      <4>1. PICK tl \in Nat, tr \in Nat : tl = TopUnit(l) /\ tr = TopUnit(r) /\ tl + 1 <= tr
        <5>1. TopUnit(l) \in Nat /\ TopUnit(r) \in Nat
          BY <1>4, <1>b, TopPlaced
        <5> QED
          BY <1>4, <2>7, <5>1
      <4>2. PICK y \in Nat : y = BP(v - 1)
        BY <3>1, BPStep
      <4>3. total < (tl + 1) * y /\ tr * y <= bl
        <5>1. l * BP(v - ul) < (tl + 1) * BP(v - 1)
          BY <1>4, <1>b, <4>1, TopPlaced
        <5>2. tr * BP(v - 1) <= r * BP(v - ur)
          BY <1>4, <1>b, <4>1, TopPlaced
        <5> QED
          BY <1>7, <2>2, <4>2, <5>1, <5>2
      <4>4. (tl + 1) * y <= tr * y /\ (tl + 1) * y \in Nat /\ tr * y \in Nat
        BY <4>1, <4>2, MulGrows
      <4>5. Base * (r * powers[DPUN * (x - ur)]) = bl
        <5>1. x - ur \in Nat /\ (x - ur) + 1 = v - ur
          BY <3>1
        <5>2. BP((x - ur) + 1) = Base * BP(x - ur) /\ BP(x - ur) \in Nat
          BY <5>1, BPStep
        <5>3. PICK b \in Nat, z \in Nat : b = Base /\ z = BP(x - ur) /\ BP(v - ur) = b * z
          BY <5>1, <5>2, BaseFacts
        <5>4. r * (b * z) = b * (r * z)
          BY <5>3
        <5>5. z = powers[DPUN * (x - ur)]
          BY <5>3 DEF BP
        <5> QED
          BY <1>7, <5>3, <5>4, <5>5
      <4> QED
        BY <4>3, <4>4, <4>5
    <3> QED
      BY <2>4, <2>6, <2>7, <3>1, <3>2, <3>3
  <2>8. CASE ~(TopUnit(lhs.coef) < TopUnit(rhs.coef))
    <3>1. exponent' = m + d * (v - ur) - pad
      <4>1. d * (v - ur) = d * v - d * ur
        BY <1>4, <1>5, <1>6
      <4>2. PICK dv \in Int, dl \in Int, dr \in Int : dv = d * v /\ dl = d * ul /\ dr = d * ur
        BY <1>4, <1>5, <1>6
      <4> QED
        BY <1>6, <2>1, <2>4, <2>8, <4>1, <4>2
    <3>2. total < Base * (r * powers[DPUN * (v - ur)])
      <4>1. r * powers[DPUN * (v - ur)] = bl
        BY <1>7 DEF BP
      <4>2. Base * bl \in Nat /\ BP(v) \in Nat
        BY <1>5, BaseFacts, BPStep
      <4> QED
        BY <1>7, <2>2, <4>1, <4>2
    <3>3. ur <= v /\ var2ulen' = v
      BY <1>5, <2>4, <2>8
    <3> QED
      BY <2>6, <3>1, <3>2, <3>3
  <2> QED
    BY <2>7, <2>8
<1>9. CASE ~Dividing
  <2>1. PICK full, cut : full = (var1units - Units(lhs.coef)) * DPUN /\ cut = ToUnitBoundary(StartExponent)
    OBVIOUS
  <2>2. /\ cut \in Nat /\ full \in Nat /\ cut + 2 * d <= full
        /\ s + cut \in Nat /\ (s + cut) % d = 0
        /\ cut <= d \/ s + cut = 0
    <3>1. /\ cut \in Nat /\ full \in Nat /\ cut + 2 * DPUN <= full
          /\ StartExponent + cut \in Nat /\ (StartExponent + cut) % DPUN = 0
          /\ cut <= DPUN \/ StartExponent + cut = 0
      BY <1>1, <1>2, <1>9, <2>1, CutFacts
    <3> QED
      BY <1>6, <3>1
  <2>3. full = d * (v - ul) /\ full = d * v - d * ul
    <3>1. full = (v - ul) * d
      BY <1>4, <1>5, <1>6, <2>1
    <3>2. (v - ul) * d = d * (v - ul) /\ d * (v - ul) = d * v - d * ul
      BY <1>4, <1>5, <1>6
    <3> QED
      BY <3>1, <3>2
  <2>4. PICK pad \in Nat : pad = full - cut /\ 2 * d <= pad /\ pad <= full /\ cut <= full
    BY <1>6, <2>2
  <2>5. /\ var1' = l * powers[pad] /\ var1initpad' = pad
        /\ var2ulen' = v /\ exponent' = s + cut
    <3>1. /\ var1' = IF cut <= full THEN lhs.coef * powers[full - cut]
                     ELSE lhs.coef \div powers[cut - full]
          /\ var2ulen' = var1units /\ exponent' = StartExponent + cut
          /\ var1initpad' = full - cut
      BY <1>9, <2>1 DEF SetUp
    <3> QED
      BY <1>4, <1>5, <1>6, <2>4, <3>1
  <2>6. PICK total \in Nat \ {0} : total = l * powers[pad] /\ total < BP(v)
    <3>1. DPUN * 0 <= pad /\ pad <= DPUN * (v - ul) /\ 0 \in Nat /\ ul <= v
      BY <1>5, <1>6, <2>3, <2>4
    <3>2. l * powers[pad] \in Nat \ {0} /\ l * powers[pad] < BP(v)
      BY <1>4, <1>5, <2>4, <3>1, PaddedFacts
    <3> QED
      BY <3>2
  <2>7. \/ powers[reqdigits - 1] * (Base * rhs.coef) <= total
        \/ exponent' = 0
    <3>1. SUFFICES ASSUME cut <= d PROVE powers[reqdigits - 1] * (Base * rhs.coef) <= total
      BY <2>2, <2>5
    <3>2. PICK k \in Nat : k = v - ul - 1 /\ ul - 1 + k = v - 2
      BY <1>4, <1>5, <1>9
    <3>3. DPUN * k <= pad /\ pad <= DPUN * (v - ul) /\ ul <= v
      <4>1. d * k = d * (v - ul) - d
        BY <1>4, <1>5, <1>6, <3>2
      <4> QED
        BY <1>5, <1>6, <2>2, <2>3, <2>4, <3>1, <4>1
    <3>4. BP(ul - 1 + k) <= l * powers[pad]
      BY <1>4, <1>5, <2>4, <3>2, <3>3, PaddedFacts
    <3>5. BP(w + 1) <= BP(v - 2) /\ BP(w + 1) \in Nat /\ BP(v - 2) \in Nat
      <4>1. w + 1 \in Nat /\ v - 2 \in Nat /\ w + 1 <= v - 2
        BY <1>5, <1>9
      <4> QED
        BY <4>1, BPGrow, BPStep
    <3>6. powers[reqdigits - 1] * (Base * rhs.coef) \in Nat
      <4>1. reqdigits - 1 \in Nat
        BY <1>3
      <4>2. powers[reqdigits - 1] \in Nat /\ Base \in Nat
        BY <4>1, PowersFacts, BaseFacts
      <4> QED
        BY <1>3, <4>2
    <3> QED
      BY <1>5, <2>6, <3>2, <3>4, <3>5, <3>6
  <2>8. exponent' = m + d * (v - ur) - pad
    <3>1. d * (v - ur) = d * v - d * ur
      BY <1>4, <1>5, <1>6
    <3>2. PICK dv \in Int, dl \in Int, dr \in Int : dv = d * v /\ dl = d * ul /\ dr = d * ur
      BY <1>4, <1>5, <1>6
    <3> QED
      BY <1>6, <2>2, <2>3, <2>4, <2>5, <3>1, <3>2
  <2>9. total < Base * (r * powers[DPUN * (v - ur)])
    <3>1. r * powers[DPUN * (v - ur)] = bl
      BY <1>7 DEF BP
    <3>2. Base * bl \in Nat /\ BP(v) \in Nat
      BY <1>5, BaseFacts, BPStep
    <3> QED
      BY <1>7, <2>6, <3>1, <3>2
  <2>10. exponent' \in Nat /\ exponent' % DPUN = 0 /\ exponent' \in Int
    BY <1>6, <2>2, <2>5
  <2>11. /\ exponent' = maxexponent + DPUN * (v - var2units) - pad
         /\ total < Base * (rhs.coef * powers[DPUN * (v - var2units)])
         /\ total = lhs.coef * powers[pad] /\ total < BP(var1units) /\ 2 * DPUN <= pad
         /\ var2units <= v /\ v <= var1units
    BY <1>4, <1>5, <1>6, <2>4, <2>6, <2>8, <2>9
  <2> QED
    BY <1>2, <1>9, <2>5, <2>6, <2>7, <2>10, <2>11, DivideEntered
<1> QED
  BY <1>8, <1>9

(***************************************************************************)
(* The inner loop: how var1 compares with the padded divisor, and what a   *)
(* guessed multiple leaves of it.                                          *)
(***************************************************************************)
LEMMA UnderwayFacts ==
    ASSUME Known, Underway
    PROVE  /\ lhs.coef \in Nat \ {0} /\ rhs.coef \in Nat \ {0}
           /\ var2units \in Nat \ {0} /\ var2units = Units(rhs.coef)
           /\ var2ulen \in Nat \ {0} /\ var2ulen - var2units \in Nat /\ var2units <= var2ulen
           /\ Padding \in Nat \ {0} /\ Padding = BP(var2ulen - var2units)
           /\ Block \in Nat \ {0} /\ Block = rhs.coef * Padding
           /\ BP(var2ulen - 1) <= Block /\ BP(var2ulen - 1) \in Nat /\ BP(var2ulen) \in Nat
           /\ Total \in Nat \ {0} /\ Base \in Nat /\ Base >= 10
           /\ var1 \in Nat /\ thisunit \in Nat /\ thisunit < Base /\ acc \in Nat
           /\ reqdigits \in Nat \ {0} /\ exponent \in Int /\ maxexponent \in Int
<1>1. /\ BothFiniteNonZero /\ var2units <= var2ulen /\ Pad \in Nat
  BY DEF Underway
<1>2. /\ lhs.coef \in Nat \ {0} /\ rhs.coef \in Nat \ {0} /\ reqdigits \in Nat \ {0}
      /\ var2units \in Nat \ {0} /\ var2units = Units(rhs.coef) /\ maxexponent \in Int
  BY <1>1, NonZeroFacts
<1>3. /\ var1 \in Nat /\ acc \in Nat /\ var2ulen \in Nat /\ exponent \in Int
      /\ thisunit \in 0..(Base - 1)
  BY DEF Known, TypeOK
<1>4. Base \in Nat /\ Base >= 10
  BY BaseFacts
<1>5. PICK k \in Nat : k = var2ulen - var2units
  BY <1>1, <1>2, <1>3
<1>6. Padding = BP(k) /\ BP(k) \in Nat \ {0}
  BY <1>5, BPStep DEF Padding, BP
<1>7. /\ BP(var2ulen - 1) <= rhs.coef * BP(k) /\ rhs.coef * BP(k) \in Nat \ {0}
      /\ var2ulen - 1 \in Nat
  BY <1>1, <1>2, <1>3, <1>5, TopPlaced
<1>8. Block = rhs.coef * Padding
  BY DEF Block
<1>9. Total \in Nat \ {0}
  <2>0. powers[Pad] \in Nat /\ powers[Pad] >= 1
    BY <1>1, PowersFacts
  <2>1. PICK x \in Nat \ {0}, l \in Nat \ {0} : x = powers[Pad] /\ l = lhs.coef
    BY <1>2, <2>0
  <2>2. l * x \in Nat \ {0}
    BY <2>1
  <2> QED
    BY <2>1, <2>2 DEF Total
<1>10. BP(var2ulen - 1) \in Nat /\ BP(var2ulen) \in Nat
  BY <1>3, <1>7, BPStep
<1>11. thisunit \in Nat /\ thisunit < Base
  BY <1>3, <1>4
<1>12. Block \in Nat \ {0} /\ BP(var2ulen - 1) <= Block
  BY <1>6, <1>7, <1>8
<1>13. var2ulen \in Nat \ {0} /\ var2ulen - var2units \in Nat
  BY <1>3, <1>5, <1>7
<1> QED
  BY <1>1, <1>2, <1>3, <1>4, <1>5, <1>6, <1>8, <1>9, <1>10, <1>11, <1>12, <1>13

LEMMA SameUnderway ==
    ASSUME UNCHANGED <<call, bits, var2ulen, var1initpad, acc, accunits, exponent,
                       res, residue, status>>
    PROVE  /\ Underway' = Underway /\ Block' = Block /\ Total' = Total /\ Long' = Long
           /\ Padding' = Padding
<1>1. call' = call
  OBVIOUS
<1>2. /\ op' = op /\ lhs' = lhs /\ rhs' = rhs /\ set' = set
      /\ Dividing' = Dividing /\ IsRemainder' = IsRemainder
      /\ reqdigits' = reqdigits /\ var2units' = var2units /\ sign' = sign
      /\ var1units' = var1units /\ maxexponent' = maxexponent
      /\ BothFiniteNonZero' = BothFiniteNonZero
  BY <1>1, SameCall
<1>3. Padding' = Padding
  BY <1>2 DEF Padding
<1>4. Pad' = Pad
  BY <1>2 DEF Pad
<1>5. Block' = Block /\ Total' = Total
  BY <1>2, <1>3, <1>4 DEF Block, Total
<1>6. Long' = Long
  BY <1>2, <1>5 DEF Long
<1>7. Underway' = Underway
  BY <1>2, <1>4, <1>5, <1>6 DEF Underway
<1> QED
  BY <1>3, <1>5, <1>6, <1>7

LEMMA CoverIs ==
    ASSUME Known, Underway
    PROVE  /\ IsAligned <=> var1 = Block
           /\ Covers <=> Block < var1
<1>1. /\ var1 \in Nat /\ rhs.coef \in Nat \ {0} /\ Padding \in Nat \ {0}
      /\ Block \in Nat \ {0} /\ Block = rhs.coef * Padding /\ var2ulen \in Nat \ {0}
      /\ BP(var2ulen - 1) <= Block /\ BP(var2ulen - 1) \in Nat
  BY UnderwayFacts
<1>2. PICK n \in Nat, r \in Nat, p \in Nat \ {0}, y \in Nat :
          n = var1 /\ r = rhs.coef /\ p = Padding /\ y = r * p /\ y = Block
  BY <1>1
<1>3. PICK q \in Nat, rest \in Nat : q = n \div p /\ rest = n % p /\ rest < p /\ n = q * p + rest
  <2>1. n \div p \in Nat /\ n % p \in Nat /\ n % p < p /\ n = (n \div p) * p + (n % p)
    BY Euclid
  <2> QED
    BY <2>1
<1>4. ASSUME y <= n PROVE LongEnough
  <2>1. CASE var2ulen = 1
    BY <1>1, <2>1, UnitsFacts DEF LongEnough
  <2>2. CASE var2ulen # 1
    <3>1. PICK k \in Nat \ {0} : k = var2ulen - 1
      BY <1>1, <2>2
    <3>2. ~(n < BP(k))
      BY <1>1, <1>2, <1>4, <3>1
    <3>3. ~(Units(n) <= k) /\ Units(n) \in Nat
      BY <3>2, UnitsAtMost, UnitsFacts
    <3> QED
      BY <1>1, <1>2, <3>1, <3>3 DEF LongEnough
  <2> QED
    BY <2>1, <2>2
<1>5. q >= r <=> y <= n
  <2>1. ASSUME q >= r PROVE y <= n
    <3>1. r * p <= q * p /\ q * p \in Nat
      BY <1>2, <1>3, <2>1, MulGrows
    <3> QED
      BY <1>2, <1>3, <3>1
  <2>2. ASSUME q + 1 <= r PROVE n < y
    <3>1. (q + 1) * p <= r * p /\ (q + 1) * p \in Nat
      BY <1>2, <1>3, <2>2, MulGrows
    <3>2. (q + 1) * p = q * p + p /\ q * p \in Nat
      BY <1>2, <1>3
    <3> QED
      BY <1>2, <1>3, <3>1, <3>2
  <2> QED
    BY <1>2, <1>3, <2>1, <2>2
<1>6. q = r /\ rest = 0 <=> n = y
  <2>1. ASSUME q = r, rest = 0 PROVE n = y
    <3>1. n = r * p + 0 /\ r * p \in Nat
      BY <1>2, <1>3, <2>1
    <3> QED
      BY <1>2, <3>1
  <2>2. ASSUME n = y PROVE q = r /\ rest = 0
    <3>1. n = r * p + 0 /\ 0 < p /\ 0 \in Nat
      BY <1>2, <2>2
    <3>2. n \div p = r /\ n % p = 0
      BY <1>2, <3>1, QuotientIs
    <3> QED
      BY <1>3, <3>2
  <2> QED
    BY <2>1, <2>2
<1>7. IsAligned <=> LongEnough /\ q = r /\ rest = 0
  BY <1>2, <1>3 DEF IsAligned
<1>8. Covers <=> LongEnough /\ q >= r /\ ~IsAligned
  BY <1>2, <1>3 DEF Covers
<1>9. IsAligned <=> n = y
  BY <1>2, <1>4, <1>6, <1>7
<1>10. Covers <=> y < n
  BY <1>2, <1>4, <1>5, <1>8, <1>9
<1> QED
  BY <1>2, <1>9, <1>10

\* what is left below the least Unit is nothing, before anything is subtracted there
LEMMA CoversTwo ==
    ASSUME IInv, pc = "divide", Covers
    PROVE  Units(var1) >= 2
<1>1. /\ Known /\ Underway /\ (acc * Base + thisunit) * Block + var1 = Total
      /\ var2ulen = 1 /\ thisunit # 0 => var1 < rhs.coef
      /\ Pad \in Nat /\ 2 * DPUN <= Pad
  BY DEF IInv, AtDivide, Underway
<1>2. /\ var1 \in Nat /\ rhs.coef \in Nat \ {0} /\ Padding \in Nat \ {0}
      /\ Block \in Nat \ {0} /\ Block = rhs.coef * Padding /\ var2ulen \in Nat \ {0}
      /\ lhs.coef \in Nat \ {0} /\ Base \in Nat /\ acc \in Nat
      /\ var2units \in Nat \ {0} /\ var2units <= var2ulen
  BY <1>1, UnderwayFacts
<1>3. Block < var1
  BY <1>1, CoverIs
<1>4. CASE var2ulen # 1
  <2>1. Units(var1) >= var2ulen
    BY DEF Covers, LongEnough
  <2> QED
    BY <1>2, <1>4, <2>1, UnitsFacts
<1>5. CASE var2ulen = 1
  <2>1. rhs.coef <= Block
    <3>1. PICK r \in Nat, p \in Nat : r = rhs.coef /\ p = Padding /\ 1 <= p
      BY <1>2
    <3>2. r * 1 <= r * p
      BY <3>1, MulGrows
    <3> QED
      BY <1>2, <3>1, <3>2
  <2>2. thisunit = 0
    BY <1>1, <1>2, <1>3, <1>5, <2>1
  <2>3. PICK j \in Nat : j = Pad - DPUN
    BY <1>1, DPUNRange
  <2>4. powers[Pad] = powers[j] * Base
    <3>1. powers[j + DPUN] = powers[j] * powers[DPUN] /\ j + DPUN = Pad
      BY <1>1, <2>3, DPUNRange, PowersSum
    <3> QED
      BY <3>1 DEF Base
  <2>5. PICK n \in Nat, b \in Nat, y \in Nat, a \in Nat, l \in Nat, x \in Nat :
            n = var1 /\ b = Base /\ y = Block /\ a = acc /\ l = lhs.coef /\ x = powers[j]
    BY <1>2, <2>3, PowersFacts
  <2>6. (a * b + 0) * y + n = l * (x * b)
    BY <1>1, <2>2, <2>4, <2>5 DEF Total
  <2>7. n = (l * x - a * y) * b
    <3>1. PICK lx \in Nat, ay \in Nat : lx = l * x /\ ay = a * y
      BY <2>5
    <3>2. (a * b + 0) * y = ay * b /\ l * (x * b) = lx * b
      BY <2>5, <3>1
    <3>3. (lx - ay) * b = lx * b - ay * b /\ lx * b \in Nat /\ ay * b \in Nat
      BY <2>5, <3>1
    <3> QED
      BY <2>5, <2>6, <3>1, <3>2, <3>3
  <2>8. PICK z \in Int : z = l * x - a * y
    BY <2>5
  <2>9. z >= 1
    <3>1. SUFFICES ASSUME z <= 0 PROVE FALSE
      BY <2>8
    <3>2. PICK k \in Nat : k = -z
      BY <2>8, <3>1
    <3>3. z * b = -(k * b) /\ k * b \in Nat
      BY <2>5, <2>8, <3>2
    <3> QED
      BY <1>2, <1>3, <2>5, <2>7, <2>8, <3>3
  <2>10. b <= n
    <3>1. 1 * b <= z * b
      BY <2>5, <2>8, <2>9, MulGrows
    <3> QED
      BY <2>5, <2>7, <2>8, <3>1
  <2>11. ~(Units(n) <= 1) /\ Units(n) \in Nat
    <3>1. ~(n < BP(1))
      BY <2>5, <2>10, BaseFacts
    <3> QED
      BY <3>1, UnitsAtMost, UnitsFacts
  <2> QED
    BY <2>5, <2>11
<1> QED
  BY <1>4, <1>5

LEMMA SubtractStep ==
    ASSUME IInv, Subtract
    PROVE  IInv'
<1>1. /\ pc = "divide" /\ Covers
      /\ var1' = var1 - Guess * rhs.coef * Padding /\ thisunit' = thisunit + Guess
      /\ UNCHANGED <<call, pc, bits, stale, var2ulen, var1initpad, acc, accunits,
                     exponent, res, residue, status>>
  BY DEF Subtract
<1>2. /\ Known /\ Underway /\ (acc * Base + thisunit) * Block + var1 = Total
      /\ thisunit * Block + var1 < Base * Block /\ Digits(acc) <= reqdigits
      /\ stale => var1 = 0
  BY <1>1 DEF IInv, AtDivide
<1>3. /\ var1 \in Nat /\ rhs.coef \in Nat \ {0} /\ Padding \in Nat \ {0}
      /\ Block \in Nat \ {0} /\ Block = rhs.coef * Padding /\ var2ulen \in Nat \ {0}
      /\ Base \in Nat /\ acc \in Nat /\ thisunit \in Nat
      /\ var2units = Units(rhs.coef) /\ var2units <= var2ulen
      /\ Padding = BP(var2ulen - var2units)
  BY <1>2, UnderwayFacts
<1>4. Block < var1
  BY <1>1, <1>2, CoverIs
<1>5. PICK n \in Nat, r \in Nat \ {0}, p \in Nat \ {0}, y \in Nat \ {0}, v \in Nat \ {0},
           b \in Nat, a \in Nat, t \in Nat :
          /\ n = var1 /\ r = rhs.coef /\ p = Padding /\ y = Block /\ y = r * p
          /\ v = var2ulen /\ b = Base /\ a = acc /\ t = thisunit
  BY <1>3
<1>6. t * y + n < b * y /\ y < n
  BY <1>2, <1>4, <1>5
<1>7. Rest(n, r, v, p)
  <2>1. Base * r * p = b * y
    BY <1>5
  <2>2. t * y \in Nat /\ b * y \in Nat
    BY <1>5
  <2>3. n < Base * r * p
    BY <1>6, <2>1, <2>2
  <2>4. Units(r) <= v /\ p = BP(v - Units(r))
    BY <1>3, <1>5
  <2> QED
    BY <1>5, <2>3, <2>4 DEF Rest
<1>8. PICK plus, pair, top, mult :
          /\ plus = TopUnit(r) + (IF Units(r) > 1 THEN 1 ELSE 0)
          /\ pair = TopUnit(r) * Base + (IF Units(r) > 1 THEN Unit(r, Units(r) - 2) ELSE 0)
                                      + (IF Units(r) > 2 THEN 1 ELSE 0)
          /\ top = IF Units(n) = v THEN pair ELSE plus
          /\ mult = TopTwo(n) \div top
  OBVIOUS
<1>9. /\ mult \in Nat /\ mult * (r * p) <= n
      /\ v = 1 /\ Units(n) # v => n - mult * (r * p) < r
  <2>1. n >= r * p
    BY <1>5, <1>6
  <2> QED
    BY <1>7, <1>8, <2>1, GuessFits
<1>10. Guess = IF mult = 0 THEN 1 ELSE mult
  <2>1. msu2plus = plus /\ msu2pair = pair
    BY <1>3, <1>5, <1>8 DEF msu2plus, msu2pair
  <2>2. mult = TopTwo(var1) \div (IF Units(var1) = var2ulen THEN msu2pair ELSE msu2plus)
    BY <1>5, <1>8, <2>1
  <2> QED
    BY <2>2 DEF Guess
<1>11. PICK g \in Nat \ {0} : /\ g = Guess /\ g * y <= n /\ g * y \in Nat
                              /\ v = 1 /\ Units(n) # v => n - g * y < r
  <2>1. CASE mult = 0
    <3>1. 1 * y <= n /\ 1 * y = y /\ mult * (r * p) = 0
      BY <1>5, <1>6, <2>1
    <3>2. v = 1 /\ Units(n) # v => n < r
      BY <1>5, <1>9, <3>1
    <3>3. v = 1 /\ Units(n) # v => n - 1 * y < r
      BY <1>5, <3>1, <3>2
    <3>4. Guess = 1
      BY <1>10, <2>1
    <3> QED
      BY <1>5, <3>1, <3>3, <3>4
  <2>2. CASE mult # 0
    <3>1. mult * y <= n /\ (v = 1 /\ Units(n) # v => n - mult * y < r)
      BY <1>5, <1>9
    <3>2. mult \in Nat \ {0} /\ mult * y \in Nat /\ Guess = mult
      BY <1>5, <1>9, <1>10, <2>2
    <3> QED
      BY <3>1, <3>2
  <2> QED
    BY <2>1, <2>2
<1>12. PICK n1 \in Nat : n1 = n - g * y /\ var1' = n1
  <2>1. Guess * rhs.coef * Padding = g * y
    <3>1. g * r * p = g * (r * p)
      BY <1>5, <1>11
    <3> QED
      BY <1>5, <1>11, <3>1
  <2>2. n - g * y \in Nat
    BY <1>5, <1>11
  <2> QED
    BY <1>1, <1>5, <2>1, <2>2
<1>13. PICK t1 \in Nat \ {0} : t1 = t + g /\ thisunit' = t1
  <2>1. t + g \in Nat \ {0}
    BY <1>5, <1>11
  <2> QED
    BY <1>1, <1>5, <1>11, <2>1
<1>14. t1 * y + n1 = t * y + n /\ (a * b + t1) * y + n1 = (a * b + t) * y + n
  <2>1. t1 * y = t * y + g * y /\ (a * b + t1) * y = (a * b + t) * y + g * y
    BY <1>5, <1>11, <1>13
  <2>2. t * y \in Nat /\ g * y \in Nat /\ (a * b + t) * y \in Nat
    BY <1>5, <1>11
  <2> QED
    BY <1>5, <1>12, <2>1, <2>2
<1>15. t1 < b
  <2>1. SUFFICES ASSUME b <= t1 PROVE FALSE
    BY <1>5, <1>13
  <2>2. b * y <= t1 * y /\ t1 * y \in Nat /\ b * y \in Nat
    BY <1>5, <1>13, <2>1, MulGrows
  <2> QED
    BY <1>6, <1>12, <1>14, <2>2
<1>16. /\ op' = op /\ lhs' = lhs /\ rhs' = rhs /\ set' = set /\ reqdigits' = reqdigits
  BY <1>1, SameCall
<1>17. Known'
  <2>1. var1' \in Nat /\ thisunit' \in 0..(Base - 1)
    BY <1>5, <1>12, <1>13, <1>15
  <2>2. TypeOK'
    BY <1>1, <1>2, <1>16, <2>1 DEF Known, TypeOK
  <2> QED
    BY <1>1, <1>2, <1>16, <2>2 DEF Known
<1>18. Underway' /\ Block' = Block /\ Total' = Total
  BY <1>1, <1>2, SameUnderway
<1>19. AtDivide'
  <2>1. (acc' * Base + thisunit') * Block' + var1' = Total'
    BY <1>1, <1>2, <1>5, <1>12, <1>13, <1>14, <1>18
  <2>2. thisunit' * Block' + var1' < Base * Block'
    BY <1>5, <1>6, <1>12, <1>13, <1>14, <1>18
  <2>3. var2ulen' = 1 /\ thisunit' # 0 => var1' < rhs'.coef
    <3>1. SUFFICES ASSUME v = 1 PROVE n1 < r
      BY <1>1, <1>5, <1>12, <1>16
    <3>2. Units(n) >= 2 /\ Units(n) \in Nat
      BY <1>1, <1>5, CoversTwo, UnitsFacts
    <3> QED
      BY <1>11, <1>12, <3>1, <3>2
  <2>4. KeepsGoing'
    BY <1>13 DEF KeepsGoing
  <2>5. ~stale'
    BY <1>1, <1>2, <1>5, <1>6
  <2>6. Digits(acc') <= reqdigits'
    BY <1>1, <1>2, <1>16
  <2> QED
    BY <1>18, <2>1, <2>2, <2>3, <2>4, <2>5, <2>6 DEF AtDivide
<1>20. pc' = "divide"
  BY <1>1
<1> QED
  BY <1>17, <1>19, <1>20
     DEF IInv, AtStart, AtAccumulate, AtComplete, AtFinish, AtReport, AtDone

\* acc below a power times the divisor, or not
LEMMA LongMeans ==
    ASSUME Known, Underway, Long, var2ulen = var2units
    PROVE  /\ Block = rhs.coef
           /\ \A q \in Nat : Total < (q + 1) * Block => powers[reqdigits] <= q
           /\ \A q \in Nat : Total = q * Block => powers[reqdigits - 1] * Base <= q
<1>1. /\ rhs.coef \in Nat \ {0} /\ Padding = BP(var2ulen - var2units) /\ Block = rhs.coef * Padding
      /\ reqdigits \in Nat \ {0} /\ Base \in Nat /\ Base >= 10 /\ Total \in Nat
      /\ var2units \in Nat
  BY UnderwayFacts
<1>2. Padding = 1
  BY <1>1, BaseFacts
<1>3. PICK r \in Nat \ {0}, b \in Nat, z \in Nat, total \in Nat :
          r = rhs.coef /\ b = Base /\ z = powers[reqdigits - 1] /\ total = Total
  <2>1. powers[reqdigits - 1] \in Nat
    BY <1>1, PowersFacts
  <2> QED
    BY <1>1, <2>1
<1>4. Block = r
  BY <1>1, <1>2, <1>3
<1>5. z * (b * r) <= total /\ z * (b * r) = (z * b) * r /\ z * b \in Nat
  BY <1>3 DEF Long
<1>6. powers[reqdigits] <= z * b
  <2>1. powers[reqdigits] = 10 * z
    BY <1>1, <1>3, PowersStep
  <2>2. z * 10 <= z * b
    BY <1>1, <1>3, MulGrows
  <2> QED
    BY <1>3, <2>1, <2>2
<1>7. ASSUME NEW q \in Nat, Total < (q + 1) * Block PROVE powers[reqdigits] <= q
  <2>1. z * b <= q
    <3>1. SUFFICES ASSUME q + 1 <= z * b PROVE FALSE
      BY <1>5
    <3>2. (q + 1) * r <= (z * b) * r
      BY <1>3, <1>5, <3>1, MulGrows
    <3>3. (q + 1) * r \in Nat /\ (z * b) * r \in Nat
      BY <1>3, <1>5
    <3> QED
      BY <1>3, <1>4, <1>5, <1>7, <3>2, <3>3
  <2>2. powers[reqdigits] \in Nat
    BY <1>1, PowersFacts
  <2> QED
    BY <1>5, <1>6, <2>1, <2>2
<1>8. ASSUME NEW q \in Nat, Total = q * Block PROVE powers[reqdigits - 1] * Base <= q
  <2>1. (z * b) * r <= q * r
    BY <1>3, <1>4, <1>5, <1>8
  <2> QED
    BY <1>3, <1>5, <2>1, MulCancels
<1> QED
  BY <1>3, <1>4, <1>7, <1>8

LEMMA UnitCompleteStep ==
    ASSUME IInv, UnitComplete
    PROVE  IInv'
<1>1. /\ pc = "divide" /\ ~Covers /\ pc' = "accumulate"
      /\ IF TakenForEqual
         THEN /\ thisunit' = thisunit + 1 /\ var1' = 0
              /\ stale' = (stale \/ var2ulen > 1)
         ELSE UNCHANGED <<thisunit, var1, stale>>
      /\ UNCHANGED <<call, bits, var2ulen, var1initpad, acc, accunits, exponent,
                     res, residue, status>>
  BY DEF UnitComplete
<1>2. /\ Known /\ Underway /\ (acc * Base + thisunit) * Block + var1 = Total
      /\ thisunit * Block + var1 < Base * Block /\ Digits(acc) <= reqdigits
      /\ stale => /\ var1 = 0 /\ thisunit = 0 /\ Long
                  /\ op = "DIVIDEINT" \/ var2ulen > 1
      /\ KeepsGoing
  BY <1>1 DEF IInv, AtDivide
<1>3. /\ var1 \in Nat /\ Block \in Nat \ {0} /\ var2ulen \in Nat \ {0}
      /\ Base \in Nat /\ Base >= 10 /\ acc \in Nat /\ thisunit \in Nat /\ thisunit < Base
      /\ var2units \in Nat \ {0} /\ var2units <= var2ulen
  BY <1>2, UnderwayFacts
<1>4. PICK n \in Nat, y \in Nat \ {0}, b \in Nat, a \in Nat, t \in Nat :
          n = var1 /\ y = Block /\ b = Base /\ a = acc /\ t = thisunit
  BY <1>3
<1>5. /\ op' = op /\ lhs' = lhs /\ rhs' = rhs /\ set' = set /\ reqdigits' = reqdigits
      /\ Dividing' = Dividing /\ maxexponent' = maxexponent /\ var2units' = var2units
  BY <1>1, SameCall
<1>6. Underway' /\ Block' = Block /\ Total' = Total
  BY <1>1, <1>2, SameUnderway
<1>7. ASSUME var1' \in Nat, stale' \in BOOLEAN, thisunit' \in 0..(Base - 1)
      PROVE  Known'
  <2>1. TypeOK'
    BY <1>1, <1>2, <1>5, <1>7 DEF Known, TypeOK
  <2> QED
    BY <1>1, <1>2, <1>5, <2>1 DEF Known
<1>8. ASSUME Known', stale' => var1' = 0,
             \/ /\ (acc' * Base + thisunit') * Block' + var1' = Total'
                /\ var1' < Block'
                /\ KeepsGoing'
             \/ Recounted'
      PROVE  IInv'
  <2>1. Digits(acc') <= reqdigits'
    BY <1>1, <1>2, <1>5
  <2>2. AtAccumulate'
    BY <1>6, <1>8, <2>1 DEF AtAccumulate
  <2> QED
    BY <1>1, <1>8, <2>2
       DEF IInv, AtStart, AtDivide, AtComplete, AtFinish, AtReport, AtDone
<1>s. stale \in BOOLEAN
  BY <1>2 DEF Known, TypeOK
<1>9. CASE IsAligned
  <2>1. thisunit' = t + 1 /\ var1' = 0 /\ stale' \in BOOLEAN
    BY <1>1, <1>4, <1>9, <1>s DEF TakenForEqual
  <2>2. n = y
    BY <1>2, <1>4, <1>9, CoverIs
  <2>3. t * y + y = (t + 1) * y /\ (a * b + (t + 1)) * y + 0 = (a * b + t) * y + y
    BY <1>4
  <2>4. t + 1 < b
    <3>1. SUFFICES ASSUME b <= t + 1 PROVE FALSE
      BY <1>4
    <3>2. b * y <= (t + 1) * y /\ b * y \in Nat /\ (t + 1) * y \in Nat
      BY <1>4, <3>1, MulGrows
    <3> QED
      BY <1>2, <1>4, <2>2, <2>3, <3>2
  <2>5. thisunit' \in 0..(Base - 1) /\ var1' \in Nat /\ thisunit' # 0
    BY <1>4, <2>1, <2>4
  <2>6. KeepsGoing'
    BY <2>5 DEF KeepsGoing
  <2>7. (acc' * Base + thisunit') * Block' + var1' = Total'
    BY <1>1, <1>2, <1>4, <1>6, <2>1, <2>2, <2>3
  <2>8. var1' < Block'
    BY <1>4, <1>6, <2>1
  <2>9. Known'
    BY <1>7, <2>1, <2>5
  <2> QED
    BY <1>8, <2>1, <2>6, <2>7, <2>8, <2>9
<1>10. CASE ~IsAligned /\ stale /\ var2ulen = 1
  <2>1. thisunit' = 1 /\ var1' = 0 /\ stale' \in BOOLEAN /\ Long /\ op = "DIVIDEINT"
    BY <1>1, <1>2, <1>10, <1>s DEF TakenForEqual
  <2>2. var2ulen = var2units
    BY <1>3, <1>10
  <2>3. (a * b) * y = Total
    <3>1. (a * b + 0) * y + 0 = Total
      BY <1>2, <1>4, <1>10
    <3>2. (a * b + 0) * y + 0 = (a * b) * y
      BY <1>4
    <3> QED
      BY <3>1, <3>2
  <2>4. powers[reqdigits - 1] <= a
    <3>1. powers[reqdigits - 1] * Base <= a * b
      <4>1. a * b \in Nat /\ Total = (a * b) * Block
        BY <1>4, <2>3
      <4> QED
        BY <1>2, <2>1, <2>2, <4>1, LongMeans
    <3>2. powers[reqdigits - 1] \in Nat
      <4>1. reqdigits \in Nat \ {0}
        BY <1>2, UnderwayFacts
      <4> QED
        BY <4>1, PowersFacts
    <3>3. b \in Nat \ {0} /\ powers[reqdigits - 1] * b <= a * b
      BY <1>3, <1>4, <3>1
    <3> QED
      BY <1>4, <3>2, <3>3, MulCancels
  <2>5. Recounted'
    BY <1>1, <1>4, <1>5, <1>6, <2>1, <2>2, <2>3, <2>4 DEF Recounted
  <2>6. thisunit' \in 0..(Base - 1) /\ var1' \in Nat
    BY <1>3, <2>1
  <2>7. Known'
    BY <1>7, <2>1, <2>6
  <2> QED
    BY <1>8, <2>1, <2>5, <2>7
<1>11. CASE ~TakenForEqual
  <2>1. thisunit' = thisunit /\ var1' = var1 /\ stale' = stale
    BY <1>1, <1>11
  <2>2. var1 < Block
    <3>1. var1 # Block /\ ~(Block < var1)
      BY <1>1, <1>2, <1>11, CoverIs DEF TakenForEqual
    <3> QED
      BY <1>3, <3>1
  <2>3. KeepsGoing'
    BY <1>1, <1>2, <1>5, <2>1 DEF KeepsGoing
  <2>4. Known'
    <3>1. thisunit' \in 0..(Base - 1) /\ var1' \in Nat
      BY <1>3, <2>1
    <3> QED
      BY <1>7, <1>s, <2>1, <3>1
  <2> QED
    BY <1>1, <1>2, <1>6, <1>8, <2>1, <2>2, <2>3, <2>4
<1> QED
  BY <1>9, <1>10, <1>11 DEF TakenForEqual

(***************************************************************************)
(* The outer loop: a Unit more, and the divisor one Unit lower.            *)
(***************************************************************************)
LEMMA UnderwayMoved ==
    ASSUME Underway, UNCHANGED <<call, bits, var1initpad, res, residue, status>>,
           NEW x, var2ulen' = x, var2units <= x, x <= var1units,
           exponent' = maxexponent + DPUN * (x - var2units) - Pad,
           ~Dividing => exponent' \in Nat /\ exponent' % DPUN = 0,
           Long \/ (~Dividing /\ exponent' = 0),
           accunits' = IF acc' = 0 THEN 0 ELSE Units(acc')
    PROVE  /\ Underway' /\ Total' = Total /\ Long' = Long
           /\ Block' = rhs.coef * powers[DPUN * (x - var2units)]
<1>1. call' = call
  OBVIOUS
<1>2. /\ op' = op /\ lhs' = lhs /\ rhs' = rhs /\ set' = set
      /\ Dividing' = Dividing /\ IsRemainder' = IsRemainder
      /\ reqdigits' = reqdigits /\ var2units' = var2units /\ sign' = sign
      /\ var1units' = var1units /\ maxexponent' = maxexponent
      /\ BothFiniteNonZero' = BothFiniteNonZero
  BY <1>1, SameCall
<1>3. Pad' = Pad
  BY <1>2 DEF Pad
<1>4. Total' = Total /\ Block' = rhs.coef * powers[DPUN * (x - var2units)]
  BY <1>2, <1>3 DEF Block, Total, Padding
<1>5. Long' = Long
  BY <1>2, <1>4 DEF Long
<1>6. Underway'
  <2>1. /\ BothFiniteNonZero' /\ bits' = sign' /\ var2units' <= var2ulen'
        /\ var2ulen' <= var1units'
    BY <1>2 DEF Underway
  <2>2. /\ Pad' \in Nat /\ 2 * DPUN <= Pad' /\ Total' < BP(var1units')
        /\ res' = Finite(FALSE, 0, 0) /\ residue' = 0 /\ status' = {}
    BY <1>2, <1>3, <1>4 DEF Underway
  <2>3. exponent' = maxexponent' + DPUN * (var2ulen' - var2units') - Pad'
    BY <1>2, <1>3
  <2>4. ~Dividing' => exponent' \in Nat /\ exponent' % DPUN = 0
    BY <1>2
  <2>5. Long' \/ (~Dividing' /\ exponent' = 0)
    BY <1>2, <1>5
  <2> QED
    BY <2>1, <2>2, <2>3, <2>4, <2>5 DEF Underway
<1> QED
  BY <1>4, <1>5, <1>6

\* what is accumulated, whether or not a leading zero is kept
LEMMA AccumulatedFacts ==
    ASSUME Known, Underway, Digits(acc) <= reqdigits
    PROVE  LET q == acc * Base + thisunit
           IN  /\ q \in Nat /\ Accumulated.acc = q
               /\ Accumulated.units = IF q = 0 THEN 0 ELSE Units(q)
               /\ Accumulated.units \in Nat /\ Accumulated.units <= D2U(reqdigits + DPUN)
               /\ Accumulated.digits > reqdigits <=> Digits(q) > reqdigits
<1>1. /\ Base \in Nat /\ Base >= 10 /\ acc \in Nat /\ thisunit \in Nat /\ thisunit < Base
      /\ reqdigits \in Nat \ {0}
  BY UnderwayFacts
<1>2. PICK a \in Nat, b \in Nat, t \in Nat, p \in Nat \ {0} :
          a = acc /\ b = Base /\ t = thisunit /\ p = reqdigits
  BY <1>1
<1>3. PICK q \in Nat : q = a * b + t /\ q = acc * Base + thisunit
  <2>1. a * b + t \in Nat
    BY <1>2
  <2> QED
    BY <1>2, <2>1
<1>4. accunits = IF a = 0 THEN 0 ELSE Units(a)
  BY <1>2 DEF Underway
<1>5. a = 0 => q = t
  BY <1>2, <1>3
<1>6. a # 0 => Units(a) \in Nat \ {0} /\ BP(Units(a) - 1) <= a /\ a < BP(Units(a))
  BY <1>2, UnitsFacts
<1>7. CASE a = 0 /\ t = 0
  <2>1. PICK acd : acd = [acc |-> 0, units |-> 0, digits |-> 0] /\ acd = Accumulated
    BY <1>2, <1>4, <1>7 DEF Accumulated
  <2>2. acd.acc = 0 /\ acd.units = 0 /\ acd.digits = 0
    BY <2>1
  <2>3. D2U(reqdigits + DPUN) \in Nat
    BY <1>1, DPUNRange, D2UIs
  <2>4. q = 0 /\ Digits(0) = 1
    BY <1>5, <1>7, DigitsFacts
  <2>5. ~(0 > reqdigits) /\ ~(1 > reqdigits)
    BY <1>1
  <2> QED
    BY <1>1, <1>3, <2>1, <2>2, <2>3, <2>4, <2>5
<1>8. CASE ~(a = 0 /\ t = 0)
  <2>1. PICK k \in Nat : k = accunits /\ (k = 0 <=> a = 0)
    BY <1>4, <1>6
  <2>2. PICK acd : /\ acd = [acc |-> acc * Base + thisunit, units |-> accunits + 1,
                             digits |-> Digits(acc * Base + thisunit)]
                   /\ acd = Accumulated
    <3>1. ~(accunits = 0 /\ thisunit = 0)
      BY <1>2, <1>8, <2>1
    <3> QED
      BY <3>1 DEF Accumulated
  <2>3. acd.acc = q /\ acd.units = k + 1 /\ acd.digits = Digits(q)
    BY <1>3, <2>1, <2>2
  <2>4. q # 0 /\ Units(q) = k + 1
    <3>1. CASE a = 0
      <4>1. q = t /\ t # 0 /\ k = 0
        BY <1>5, <1>8, <2>1, <3>1
      <4>2. BP(1 - 1) <= t /\ t < BP(1)
        BY <1>1, <1>2, <4>1, BaseFacts
      <4>3. 1 \in Nat \ {0}
        OBVIOUS
      <4>4. Units(t) = 1
        BY <4>2, <4>3, UnitsAre
      <4> QED
        BY <4>1, <4>4
    <3>2. CASE a # 0
      <4>1. k = Units(a) /\ k \in Nat \ {0} /\ BP(k - 1) <= a /\ a < BP(k)
        BY <1>4, <1>6, <2>1, <3>2
      <4>2. PICK x \in Nat, z \in Nat : x = BP(k - 1) /\ z = BP(k) /\ z = x * b /\ BP(k + 1) = z * b
        <5>1. k - 1 \in Nat /\ (k - 1) + 1 = k /\ k \in Nat
          BY <4>1
        <5>2. BP(k - 1) \in Nat /\ BP((k - 1) + 1) = BP(k - 1) * Base
          BY <5>1, BPStep
        <5>3. BP(k) \in Nat /\ BP(k + 1) = BP(k) * Base
          BY <5>1, BPStep
        <5> QED
          BY <1>2, <5>1, <5>2, <5>3
      <4>3. x * b <= a * b /\ (a + 1) * b <= z * b /\ x * b \in Nat /\ a * b \in Nat /\ z * b \in Nat
        BY <1>2, <4>1, <4>2, MulGrows
      <4>4. (a + 1) * b = a * b + b
        BY <1>2
      <4>5. z <= q /\ q < z * b
        BY <1>1, <1>2, <1>3, <4>2, <4>3, <4>4
      <4>6. k + 1 \in Nat \ {0} /\ BP((k + 1) - 1) <= q /\ q < BP(k + 1)
        <5>1. (k + 1) - 1 = k /\ k + 1 \in Nat \ {0}
          BY <4>1
        <5>2. BP(k) <= q /\ q < BP(k + 1)
          BY <4>2, <4>5
        <5> QED
          BY <5>1, <5>2, Zenon
      <4>7. Units(q) = k + 1
        BY <4>6, UnitsAre
      <4>8. q # 0
        <5>1. b \in Nat \ {0} /\ a \in Nat \ {0}
          BY <1>1, <1>2, <3>2
        <5>2. a * b \in Nat \ {0}
          BY <5>1
        <5> QED
          BY <1>3, <5>2
      <4> QED
        BY <4>7, <4>8
    <3> QED
      BY <3>1, <3>2
  <2>5. k + 1 <= D2U(reqdigits + DPUN)
    <3>1. PICK d \in Nat \ {0} : d = D2U(p) /\ D2U(p + DPUN) = d + 1
      BY D2UMore, D2UIs
    <3>2. k <= d
      <4>1. CASE a = 0
        BY <2>1, <3>1, <4>1
      <4>2. CASE a # 0
        <5>1. Digits(a) <= p /\ Digits(a) \in Nat \ {0}
          BY <1>2, DigitsFacts
        <5>2. D2U(Digits(a)) <= d
          BY <3>1, <5>1, D2UGrows
        <5> QED
          BY <1>4, <2>1, <4>2, <5>2 DEF Units
      <4> QED
        BY <4>1, <4>2
    <3> QED
      BY <1>2, <2>1, <3>1, <3>2
  <2> QED
    BY <1>3, <2>1, <2>2, <2>3, <2>4, <2>5
<1> QED
  BY <1>7, <1>8

\* the division goes on only if there is a Unit to go on with
LEMMA RoomToGoOn ==
    ASSUME Known, Underway, NEW q \in Nat, q * Block + var1 = Total, var1 < Block,
           Digits(q) <= reqdigits, ~(exponent = 0 /\ ~Dividing)
    PROVE  var2units < var2ulen
<1>1. /\ var2units \in Nat \ {0} /\ var2ulen \in Nat \ {0} /\ var2units <= var2ulen
      /\ Block \in Nat \ {0} /\ var1 \in Nat /\ reqdigits \in Nat \ {0}
  BY UnderwayFacts
<1>2. Long
  BY DEF Underway
<1>3. SUFFICES ASSUME var2ulen = var2units PROVE FALSE
  BY <1>1
<1>4. Total < (q + 1) * Block
  <2>1. PICK y \in Nat, n \in Nat : y = Block /\ n = var1
    BY <1>1
  <2>2. (q + 1) * y = q * y + y /\ q * y \in Nat
    BY <2>1
  <2> QED
    BY <2>1, <2>2
<1>5. powers[reqdigits] <= q
  BY <1>2, <1>3, <1>4, LongMeans
<1>6. q < powers[reqdigits] /\ powers[reqdigits] \in Nat
  BY <1>1, DigitsAtMost, PowersFacts
<1> QED
  BY <1>5, <1>6

\* as long as the exponent is above the ideal one, it is so by whole Units
LEMMA AboveIdeal ==
    ASSUME Known, Underway, Dividing, exponent > maxexponent
    PROVE  exponent - DPUN >= maxexponent /\ var2ulen > 2
<1>1. /\ var2units \in Nat \ {0} /\ var2ulen \in Nat \ {0} /\ exponent \in Int /\ maxexponent \in Int
      /\ lhs.coef \in Nat \ {0}
  BY UnderwayFacts
<1>2. PICK d \in Nat \ {0}, e \in Int, m \in Int, k \in Int :
          d = DPUN /\ e = exponent /\ m = maxexponent /\ k = var2ulen - var2units
  BY <1>1, DPUNRange
<1>3. PICK j \in Nat : j = var1units - Units(lhs.coef) /\ 2 <= j
  <2>1. Known /\ BothFiniteNonZero
    BY DEF Underway
  <2>2. PICK v \in Nat : v = var1units /\ Units(lhs.coef) + 2 <= v
    BY <2>1, RoomFacts
  <2>3. Units(lhs.coef) \in Nat
    BY <1>1, UnitsFacts
  <2>4. v - Units(lhs.coef) \in Nat /\ 2 <= v - Units(lhs.coef)
    BY <2>2, <2>3
  <2> QED
    BY <2>2, <2>4
<1>4. Pad = j * d
  BY <1>2, <1>3 DEF Pad
<1>5. e = m + d * k - j * d
  BY <1>2, <1>4 DEF Underway
<1>6. e - m = d * (k - j)
  BY <1>2, <1>3, <1>5
<1>7. PICK i \in Int : i = k - j
  BY <1>2, <1>3
<1>8. i >= 1
  <2>1. SUFFICES ASSUME i <= 0 PROVE FALSE
    BY <1>7
  <2>2. PICK h \in Nat : h = -i
    BY <1>7, <2>1
  <2>3. d * i = -(d * h) /\ d * h \in Nat
    BY <1>2, <1>7, <2>2
  <2> QED
    BY <1>2, <1>6, <1>7, <2>3
<1>9. d <= d * i
  <2>1. d * 1 <= d * i
    BY <1>2, <1>7, <1>8, MulGrows
  <2> QED
    BY <1>2, <2>1
<1>10. e - d >= m
  <2>1. PICK z \in Int : z = d * i
    BY <1>2, <1>7
  <2> QED
    BY <1>2, <1>6, <1>7, <1>9, <2>1
<1> QED
  BY <1>1, <1>2, <1>3, <1>7, <1>8, <1>10

LEMMA AccumulateStep ==
    ASSUME IInv, Accumulate
    PROVE  IInv'
<1>1. /\ pc = "accumulate" /\ acc' = Accumulated.acc /\ accunits' = Accumulated.units
      /\ IF Enough(Accumulated.digits)
         THEN pc' = "complete" /\ UNCHANGED <<var2ulen, exponent>>
         ELSE /\ pc' = "divide" /\ var2ulen' = var2ulen - 1
              /\ exponent' = exponent - DPUN
      /\ thisunit' = 0
      /\ UNCHANGED <<call, bits, var1, stale, var1initpad, res, residue, status>>
  BY DEF Accumulate
<1>2. /\ Known /\ Underway /\ Digits(acc) <= reqdigits /\ (stale => var1 = 0)
      /\ \/ /\ (acc * Base + thisunit) * Block + var1 = Total
            /\ var1 < Block
            /\ KeepsGoing
         \/ Recounted
  BY <1>1 DEF IInv, AtAccumulate
<1>3. /\ var1 \in Nat /\ Block \in Nat \ {0} /\ var2ulen \in Nat \ {0}
      /\ Base \in Nat /\ Base >= 10 /\ acc \in Nat /\ thisunit \in Nat /\ thisunit < Base
      /\ var2units \in Nat \ {0} /\ var2units <= var2ulen /\ reqdigits \in Nat \ {0}
      /\ Total \in Nat /\ exponent \in Int /\ maxexponent \in Int
  BY <1>2, UnderwayFacts
<1>4. PICK n \in Nat, y \in Nat \ {0}, b \in Nat, a \in Nat, t \in Nat, total \in Nat :
          n = var1 /\ y = Block /\ b = Base /\ a = acc /\ t = thisunit /\ total = Total
  BY <1>3
<1>5. PICK q \in Nat : /\ q = a * b + t /\ acc' = q
                       /\ accunits' = IF q = 0 THEN 0 ELSE Units(q)
                       /\ accunits' \in Nat /\ accunits' <= D2U(reqdigits + DPUN)
                       /\ Accumulated.digits > reqdigits <=> Digits(q) > reqdigits
  <2>1. PICK q : q = acc * Base + thisunit
    OBVIOUS
  <2>2. /\ q \in Nat /\ Accumulated.acc = q
        /\ Accumulated.units = IF q = 0 THEN 0 ELSE Units(q)
        /\ Accumulated.units \in Nat /\ Accumulated.units <= D2U(reqdigits + DPUN)
        /\ Accumulated.digits > reqdigits <=> Digits(q) > reqdigits
    BY <1>2, <2>1, AccumulatedFacts, Zenon
  <2> QED
    BY <1>1, <1>4, <2>1, <2>2
<1>6. /\ op' = op /\ lhs' = lhs /\ rhs' = rhs /\ set' = set /\ reqdigits' = reqdigits
      /\ Dividing' = Dividing /\ IsRemainder' = IsRemainder
      /\ maxexponent' = maxexponent /\ var2units' = var2units /\ var1units' = var1units
  BY <1>1, SameCall
<1>7. /\ var2units <= var2ulen /\ var2ulen <= var1units /\ Pad \in Nat
      /\ exponent = maxexponent + DPUN * (var2ulen - var2units) - Pad
      /\ ~Dividing => exponent \in Nat /\ exponent % DPUN = 0
      /\ Long \/ (~Dividing /\ exponent = 0)
  BY <1>2 DEF Underway
<1>8. ASSUME exponent' \in Int, var2ulen' \in Nat, pc' \in {"divide", "complete"}
      PROVE  Known'
  <2>1. thisunit' \in 0..(Base - 1) /\ acc' \in Nat /\ accunits' \in Nat
    BY <1>1, <1>3, <1>5
  <2>2. TypeOK'
    BY <1>1, <1>2, <1>6, <1>8, <2>1 DEF Known, TypeOK
  <2> QED
    BY <1>1, <1>2, <1>5, <1>6, <2>2 DEF Known
<1>9. Enough(Accumulated.digits) <=>
          \/ Digits(q) > reqdigits
          \/ var1 = 0 /\ IsRemainder
          \/ var1 = 0 /\ Dividing /\ exponent <= maxexponent
          \/ exponent = 0 /\ ~Dividing
  BY <1>5, Zenon DEF Enough
<1>10. CASE Enough(Accumulated.digits)
  <2>1. pc' = "complete" /\ var2ulen' = var2ulen /\ exponent' = exponent
    BY <1>1, <1>10
  <2>2. Underway' /\ Total' = Total /\ Block' = Block
    <3>1. PICK x : x = var2ulen
      OBVIOUS
    <3>2. /\ var2ulen' = x /\ var2units <= x /\ x <= var1units
          /\ exponent' = maxexponent + DPUN * (x - var2units) - Pad
          /\ ~Dividing => exponent' \in Nat /\ exponent' % DPUN = 0
          /\ Long \/ (~Dividing /\ exponent' = 0)
      BY <1>7, <2>1, <3>1
    <3>3. accunits' = IF acc' = 0 THEN 0 ELSE Units(acc')
      BY <1>5
    <3>4. /\ Underway' /\ Total' = Total
          /\ Block' = rhs.coef * powers[DPUN * (x - var2units)]
      BY <1>1, <1>2, <3>2, <3>3, UnderwayMoved
    <3> QED
      BY <3>1, <3>4 DEF Block, Padding
  <2>3. Known'
    BY <1>3, <1>8, <2>1
  <2>4. CASE /\ (acc * Base + thisunit) * Block + var1 = Total
             /\ var1 < Block
             /\ KeepsGoing
    <3>1. acc' * Block' + var1' = Total' /\ var1' < Block'
      BY <1>1, <1>4, <1>5, <2>2, <2>4
    <3>2. Ending'
      BY <1>1, <1>5, <1>6, <1>9, <1>10, <2>1 DEF Ending
    <3>3. Dividing' /\ exponent' < maxexponent' => var1' # 0 \/ acc' % Base # 0
      <4>1. q % b = t
        <5>1. b \in Nat \ {0} /\ t < b
          BY <1>3, <1>4
        <5> QED
          BY <1>5, <5>1, QuotientIs
      <4> QED
        BY <1>1, <1>4, <1>5, <1>6, <2>1, <2>4, <4>1 DEF KeepsGoing
    <3>4. AtComplete'
      BY <2>2, <3>1, <3>2, <3>3 DEF AtComplete
    <3> QED
      BY <2>1, <2>3, <3>4
         DEF IInv, AtStart, AtDivide, AtAccumulate, AtFinish, AtReport, AtDone
  <2>5. CASE Recounted
    <3>1. /\ op = "DIVIDEINT" /\ var1 = 0 /\ thisunit = 1
          /\ (acc * Base) * Block = Total /\ acc >= powers[reqdigits - 1]
      BY <2>5 DEF Recounted
    <3>2. acc' - 1 = a * b
      BY <1>4, <1>5, <3>1
    <3>3. (acc' - 1) * Block' = Total'
      BY <1>4, <2>2, <3>1, <3>2
    <3>4. a * b >= powers[reqdigits]
      <4>1. PICK z \in Nat : z = powers[reqdigits - 1] /\ powers[reqdigits] = 10 * z
        BY <1>3, PowersStep
      <4>2. z * 10 <= z * b /\ z * b <= a * b /\ z * b \in Nat /\ a * b \in Nat
        BY <1>3, <1>4, <3>1, <4>1, MulGrows
      <4> QED
        BY <4>1, <4>2
    <3>5. AtComplete'
      BY <1>6, <2>2, <3>1, <3>2, <3>3, <3>4 DEF AtComplete
    <3> QED
      BY <2>1, <2>3, <3>5
         DEF IInv, AtStart, AtDivide, AtAccumulate, AtFinish, AtReport, AtDone
  <2> QED
    BY <1>2, <2>4, <2>5
<1>11. CASE ~Enough(Accumulated.digits)
  <2>1. pc' = "divide" /\ var2ulen' = var2ulen - 1 /\ exponent' = exponent - DPUN
    BY <1>1, <1>11
  <2>2. /\ ~(Digits(q) > reqdigits) /\ ~(var1 = 0 /\ IsRemainder)
        /\ ~(var1 = 0 /\ Dividing /\ exponent <= maxexponent)
        /\ ~(exponent = 0 /\ ~Dividing)
    BY <1>9, <1>11
  <2>3. Digits(q) <= reqdigits
    BY <1>3, <2>2, DigitsFacts
  <2>4. /\ (acc * Base + thisunit) * Block + var1 = Total
        /\ var1 < Block
        /\ KeepsGoing
    <3>1. SUFFICES ASSUME Recounted PROVE FALSE
      BY <1>2
    <3>2. thisunit = 1 /\ acc >= powers[reqdigits - 1]
      BY <3>1 DEF Recounted
    <3>3. q >= powers[reqdigits]
      <4>1. PICK z \in Nat : z = powers[reqdigits - 1] /\ powers[reqdigits] = 10 * z
        BY <1>3, PowersStep
      <4>2. z * 10 <= z * b /\ z * b <= a * b /\ z * b \in Nat /\ a * b \in Nat
        BY <1>3, <1>4, <3>2, <4>1, MulGrows
      <4> QED
        BY <1>5, <4>1, <4>2
    <3>4. q < powers[reqdigits] /\ powers[reqdigits] \in Nat
      BY <1>3, <2>3, DigitsAtMost, PowersFacts
    <3> QED
      BY <3>3, <3>4
  <2>5. q * y + n = total /\ n < y
    BY <1>4, <1>5, <2>4
  <2>6. var2units < var2ulen
    <3>1. q * Block + var1 = Total /\ var1 < Block
      BY <1>4, <2>5
    <3> QED
      BY <1>2, <2>2, <2>3, <3>1, RoomToGoOn
  <2>7. PICK x \in Nat, d \in Nat \ {0}, e \in Int : /\ x = var2ulen - 1 /\ d = DPUN /\ e = exponent
                                 /\ var2units <= x /\ x <= var1units
    <3>1. var1units \in Nat
      <4>1. Known /\ BothFiniteNonZero
        BY <1>2 DEF Underway
      <4> QED
        BY <4>1, RoomFacts
    <3> QED
      BY <1>3, <1>7, <2>6, <3>1, DPUNRange
  <2>8. exponent' = maxexponent + DPUN * (x - var2units) - Pad
    <3>1. PICK k \in Nat : k = x - var2units /\ var2ulen - var2units = k + 1
      BY <1>3, <2>7
    <3>2. d * (k + 1) = d * k + d /\ d * k \in Nat
      BY <2>7, <3>1
    <3>3. exponent = maxexponent + d * (k + 1) - Pad
      BY <1>7, <2>7, <3>1
    <3>4. PICK p \in Nat, m \in Int, dk \in Nat : p = Pad /\ m = maxexponent /\ dk = d * k
      BY <1>3, <1>7, <3>2
    <3>5. e - d = m + dk - p
      BY <2>7, <3>2, <3>3, <3>4
    <3> QED
      BY <2>1, <2>7, <3>1, <3>4, <3>5
  <2>9. ~Dividing => exponent' \in Nat /\ exponent' % DPUN = 0
    <3>1. SUFFICES ASSUME ~Dividing PROVE e - d \in Nat /\ (e - d) % d = 0
      BY <2>1, <2>7
    <3>2. e \in Nat /\ e % d = 0 /\ e # 0
      BY <1>7, <2>2, <2>7, <3>1
    <3>3. PICK i \in Nat : e = i * d
      <4>1. e \div d \in Nat /\ e = (e \div d) * d + (e % d)
        BY <2>7, <3>2, Euclid
      <4>2. PICK i \in Nat : i = e \div d
        BY <4>1
      <4>3. e = i * d + 0
        BY <3>2, <4>1, <4>2, Zenon
      <4>4. i * d + 0 = i * d
        BY <2>7, <4>2
      <4> QED
        BY <4>3, <4>4
    <3>4. i # 0
      BY <2>7, <3>2, <3>3
    <3>5. e - d = (i - 1) * d + 0 /\ i - 1 \in Nat /\ e - d \in Nat
      <4>1. PICK h \in Nat : h = i - 1 /\ i = h + 1
        BY <3>4
      <4>2. (h + 1) * d = h * d + d /\ h * d \in Nat
        BY <2>7, <4>1
      <4> QED
        BY <2>7, <3>3, <4>1, <4>2
    <3>6. (e - d) % d = 0
      <4>1. 0 \in Nat /\ 0 < d
        BY <2>7
      <4> QED
        BY <2>7, <3>5, <4>1, QuotientIs
    <3> QED
      BY <3>5, <3>6
  <2>10. /\ Underway' /\ Total' = Total /\ Long' /\ Long
         /\ Block' = rhs.coef * powers[DPUN * (x - var2units)]
    <3>1. Long
      BY <1>7, <2>2
    <3>3. accunits' = IF acc' = 0 THEN 0 ELSE Units(acc')
      BY <1>5
    <3>4. var2ulen' = x
      BY <2>1, <2>7
    <3>5. /\ Underway' /\ Total' = Total /\ Long' = Long
          /\ Block' = rhs.coef * powers[DPUN * (x - var2units)]
      BY <1>1, <1>2, <2>7, <2>8, <2>9, <3>1, <3>3, <3>4, UnderwayMoved
    <3> QED
      BY <3>1, <3>5
  <2>11. PICK z \in Nat \ {0} : z = Block' /\ y = b * z
    <3>1. PICK k \in Nat : k = x - var2units /\ var2ulen - var2units = k + 1
      BY <1>3, <2>7
    <3>2. BP(k) \in Nat \ {0} /\ BP(k + 1) = Base * BP(k)
      BY <3>1, BPStep
    <3>3. Block = rhs.coef * BP(k + 1) /\ Block' = rhs.coef * BP(k)
      BY <2>10, <3>1 DEF Block, Padding, BP
    <3>4. PICK r \in Nat \ {0}, f \in Nat \ {0} : r = rhs.coef /\ f = BP(k)
      BY <1>2, <3>2, UnderwayFacts
    <3>5. r * (b * f) = b * (r * f) /\ r * f \in Nat \ {0}
      BY <1>4, <3>4
    <3> QED
      BY <1>4, <3>2, <3>3, <3>4, <3>5
  <2>12. Known'
    BY <1>8, <2>1, <2>7
  <2>13. (acc' * Base + thisunit') * Block' + var1' = Total'
    <3>1. (q * b + 0) * z = q * (b * z)
      BY <1>4, <2>11
    <3> QED
      BY <1>1, <1>4, <1>5, <2>5, <2>10, <2>11, <3>1
  <2>14. thisunit' * Block' + var1' < Base * Block'
    <3>0. 0 * z = 0
      <4>1. ASSUME NEW k \in Nat PROVE 0 * k = 0
        OBVIOUS
      <4> QED
        BY <2>11, <4>1, Zenon
    <3>1. 0 * z + n = n
      BY <1>4, <3>0
    <3> QED
      BY <1>1, <1>4, <2>5, <2>11, <3>1
  <2>15. stale' => /\ var1' = 0 /\ thisunit' = 0 /\ Long'
                   /\ op' = "DIVIDEINT" \/ var2ulen' > 1
    <3>1. SUFFICES ASSUME stale PROVE var1 = 0 /\ (op = "DIVIDEINT" \/ x > 1)
      BY <1>1, <1>6, <2>1, <2>7, <2>10
    <3>2. var1 = 0
      BY <1>2, <3>1
    <3>3. op = "DIVIDEINT" \/ Dividing
      BY <1>2, <2>2, <3>2 DEF Known, TypeOK, Ops, IsRemainder, Dividing
    <3>4. ASSUME Dividing PROVE x > 1
      <4>1. exponent > maxexponent
        BY <1>3, <2>2, <3>2, <3>4
      <4>2. var2ulen > 2
        BY <1>2, <3>4, <4>1, AboveIdeal
      <4> QED
        BY <1>3, <2>7, <4>2
    <3> QED
      BY <3>2, <3>3, <3>4
  <2>16. KeepsGoing'
    <3>1. SUFFICES ASSUME Dividing, exponent - DPUN < maxexponent PROVE var1 # 0
      BY <1>1, <1>6, <2>1 DEF KeepsGoing
    <3>2. SUFFICES ASSUME var1 = 0 PROVE FALSE
      OBVIOUS
    <3>3. exponent > maxexponent
      BY <1>3, <2>2, <3>1, <3>2
    <3>4. exponent - DPUN >= maxexponent
      BY <1>2, <3>1, <3>3, AboveIdeal
    <3> QED
      BY <1>3, <2>7, <3>1, <3>4
  <2>17. AtDivide'
    <3>1. Digits(acc') <= reqdigits'
      BY <1>5, <1>6, <2>3
    <3>2. ~(thisunit' # 0)
      BY <1>1
    <3> QED
      BY <2>10, <2>13, <2>14, <2>15, <2>16, <3>1, <3>2 DEF AtDivide
  <2> QED
    BY <2>1, <2>12, <2>17
       DEF IInv, AtStart, AtAccumulate, AtComplete, AtFinish, AtReport, AtDone
<1> QED
  BY <1>10, <1>11

(***************************************************************************)
(* The integers: what has been accumulated, moved to its place, is the     *)
(* whole quotient if nothing is left or the units have been reached, and   *)
(* never more than it.                                                     *)
(***************************************************************************)
LEMMA SameTimes ==
    ASSUME NEW x \in Nat, NEW y \in Nat, NEW z \in Nat \ {0}, x * z = y * z
    PROVE  x = y
<1>1. x * z <= y * z /\ y * z <= x * z
  <2>1. x * z \in Nat /\ y * z \in Nat
    OBVIOUS
  <2> QED
    BY <2>1
<1>2. x <= y /\ y <= x
  BY <1>1, MulCancels
<1> QED
  BY <1>2

\* the equation of the division, with the operands at their lower exponent
Aligned(a, n, l, r, pe, pj, pp, pi, pd) ==
    /\ a \in Nat /\ n \in Nat /\ l \in Nat /\ r \in Nat
    /\ pe \in Nat /\ pj \in Nat /\ pp \in Nat /\ pi \in Nat /\ pd \in Nat
    /\ pe * pj * pp = pd * pi /\ a * (r * pd) + n = l * pp

LEMMA AtTheirPlaces ==
    ASSUME NEW a, NEW n, NEW l, NEW r, NEW pe, NEW pj, NEW pp, NEW pi, NEW pd,
           Aligned(a, n, l, r, pe, pj, pp, pi, pd)
    PROVE  /\ ((a * pe) * (r * pj)) * pp + n * pi = (l * pi) * pp
           /\ (r * pd) * pi = (pe * (r * pj)) * pp
<1>0. /\ a \in Nat /\ n \in Nat /\ l \in Nat /\ r \in Nat
      /\ pe \in Nat /\ pj \in Nat /\ pp \in Nat /\ pi \in Nat /\ pd \in Nat
      /\ pe * pj * pp = pd * pi /\ a * (r * pd) + n = l * pp
  BY DEF Aligned
<1>1. ((a * pe) * (r * pj)) * pp = (a * r) * (pe * pj * pp)
  BY <1>0
<1>2. (a * r) * (pd * pi) = (a * (r * pd)) * pi
  BY <1>0
<1>3. PICK x \in Nat, y \in Nat : x = a * (r * pd) /\ y = l * pp /\ x + n = y
  BY <1>0
<1>4. (x + n) * pi = x * pi + n * pi /\ y * pi = (l * pi) * pp
  BY <1>0, <1>3
<1>5. ((a * pe) * (r * pj)) * pp = x * pi
  BY <1>0, <1>1, <1>2, <1>3, Zenon
<1>6. x * pi + n * pi = y * pi
  BY <1>3, <1>4, Zenon
<1>7. ((a * pe) * (r * pj)) * pp + n * pi = (l * pi) * pp
  BY <1>4, <1>5, <1>6, Zenon
<1>8. (r * pd) * pi = r * (pd * pi) /\ (pe * (r * pj)) * pp = r * (pe * pj * pp)
  BY <1>0
<1>9. (r * pd) * pi = (pe * (r * pj)) * pp
  BY <1>0, <1>8, Zenon
<1> QED
  BY <1>7, <1>9

LEMMA WholeIs ==
    ASSUME Known, Underway, ~Dividing, NEW a \in Nat, NEW n \in Nat,
           a * Block + n = Total, n < Block
    PROVE  /\ a * powers[exponent] \in Nat /\ a * powers[exponent] <= Whole
           /\ n = 0 => Whole = a * powers[exponent] /\ Left = 0
           /\ exponent = 0 => /\ Whole = a /\ postshift \in Nat
                              /\ n = Left * powers[postshift]
           /\ Whole \in Nat /\ Left \in Nat /\ Left < Divisor /\ Divisor \in Nat \ {0}
<1>1. /\ Pad \in Nat /\ exponent \in Nat
      /\ exponent = maxexponent + DPUN * (var2ulen - var2units) - Pad
  BY DEF Underway
<1>2. /\ lhs.coef \in Nat \ {0} /\ rhs.coef \in Nat \ {0} /\ maxexponent \in Int
      /\ var2ulen - var2units \in Nat /\ Padding = BP(var2ulen - var2units)
      /\ Block = rhs.coef * Padding /\ Block \in Nat
  BY UnderwayFacts
<1>3. PICK i \in Nat, j \in Nat :
               /\ i = lhs.exp - Low /\ j = rhs.exp - Low
               /\ i - j = maxexponent /\ (i = 0 \/ j = 0)
               /\ Dividend = lhs.coef * powers[i] /\ Divisor = rhs.coef * powers[j]
               /\ Dividend \in Nat /\ Divisor \in Nat
  BY LowIs
<1>4. PICK dk \in Nat : dk = DPUN * (var2ulen - var2units) /\ powers[dk] = Padding
  <2>1. DPUN * (var2ulen - var2units) \in Nat
    BY <1>2, DPUNRange
  <2> QED
    BY <1>2, <2>1 DEF BP
<1>5. PICK e \in Nat, p \in Nat : /\ e = exponent /\ p = Pad /\ dk + i = e + j + p
  <2>1. PICK e \in Nat, p \in Nat, m \in Int : e = exponent /\ p = Pad /\ m = maxexponent
    BY <1>1, <1>2
  <2>2. e = m + dk - p /\ i - j = m
    BY <1>1, <1>3, <1>4, <2>1
  <2>3. dk + i = e + j + p
    BY <2>2
  <2> QED
    BY <2>1, <2>3
<1>6. PICK pe \in Nat, pj \in Nat \ {0}, pp \in Nat \ {0}, pi \in Nat \ {0}, pd \in Nat :
          /\ pe = powers[e] /\ pj = powers[j] /\ pp = powers[p] /\ pi = powers[i] /\ pd = powers[dk]
  <2>1. ASSUME NEW k \in Nat PROVE powers[k] \in Nat \ {0}
    <3>1. powers[k] \in Nat /\ powers[k] >= 1
      BY PowersFacts
    <3> QED
      BY <3>1
  <2>2. /\ powers[e] \in Nat \ {0} /\ powers[j] \in Nat \ {0} /\ powers[p] \in Nat \ {0}
        /\ powers[i] \in Nat \ {0} /\ powers[dk] \in Nat \ {0}
    BY <2>1
  <2> QED
    BY <2>2
<1>7. pe * pj * pp = pd * pi
  <2>1. powers[dk + i] = pd * pi
    BY <1>6, PowersSum
  <2>2. powers[(e + j) + p] = powers[e + j] * pp /\ powers[e + j] = pe * pj
    <3>1. e + j \in Nat
      OBVIOUS
    <3>2. powers[(e + j) + p] = powers[e + j] * powers[p]
      BY <3>1, PowersSum
    <3>3. powers[e + j] = powers[e] * powers[j]
      BY PowersSum
    <3> QED
      BY <1>6, <3>2, <3>3
  <2> QED
    BY <1>5, <2>1, <2>2
<1>8. PICK l \in Nat \ {0}, r \in Nat \ {0} : l = lhs.coef /\ r = rhs.coef
  BY <1>2
<1>9. PICK y \in Nat, total \in Nat : /\ y = r * pd /\ total = l * pp /\ y = Block /\ total = Total
                                      /\ a * y + n = total /\ n < y
  <2>1. Block = r * pd
    BY <1>2, <1>4, <1>6, <1>8
  <2>2. Total = l * pp
    BY <1>5, <1>6, <1>8 DEF Total
  <2>3. r * pd \in Nat /\ l * pp \in Nat
    BY <1>6, <1>8
  <2> QED
    BY <2>1, <2>2, <2>3
<1>10. PICK dv \in Nat \ {0}, dd \in Nat, g \in Nat :
           dv = r * pj /\ dv = Divisor /\ dd = l * pi /\ dd = Dividend /\ g = a * pe
  <2>1. r * pj \in Nat \ {0} /\ l * pi \in Nat /\ a * pe \in Nat
    BY <1>6, <1>8
  <2> QED
    BY <1>3, <1>6, <1>8, <2>1
<1>11. (g * dv) * pp + n * pi = dd * pp /\ y * pi = (pe * dv) * pp
  <2>1. /\ ((a * pe) * (r * pj)) * pp + n * pi = (l * pi) * pp
        /\ (r * pd) * pi = (pe * (r * pj)) * pp
    <3>1. a * (r * pd) + n = l * pp
      BY <1>9
    <3>2. l \in Nat /\ r \in Nat /\ pj \in Nat /\ pp \in Nat /\ pi \in Nat
      BY <1>6, <1>8
    <3>3. Aligned(a, n, l, r, pe, pj, pp, pi, pd)
      BY <1>6, <1>7, <3>1, <3>2 DEF Aligned
    <3> QED
      BY <3>3, AtTheirPlaces
  <2> QED
    BY <1>9, <1>10, <2>1, Zenon
<1>12. g * dv <= dd /\ g * dv \in Nat
  <2>1. g * dv \in Nat /\ n * pi \in Nat /\ (g * dv) * pp \in Nat /\ dd * pp \in Nat
    BY <1>6, <1>10
  <2>2. (g * dv) * pp <= dd * pp
    BY <1>11, <2>1
  <2> QED
    BY <1>6, <1>10, <2>1, <2>2, MulCancels
<1>13. PICK q \in Nat, f \in Nat : q = Whole /\ f = Left /\ dd = q * dv + f /\ f < dv
  <2>1. /\ dd \div dv \in Nat /\ dd % dv \in Nat /\ dd % dv < dv
        /\ dd = (dd \div dv) * dv + (dd % dv)
    BY Euclid
  <2>2. Whole = dd \div dv /\ Left = dd % dv
    BY <1>10 DEF Whole, Left
  <2> QED
    BY <2>1, <2>2
<1>14. g <= q
  <2>1. SUFFICES ASSUME q + 1 <= g PROVE FALSE
    BY <1>10, <1>13
  <2>2. (q + 1) * dv <= g * dv /\ (q + 1) * dv \in Nat
    BY <1>10, <1>13, <2>1, MulGrows
  <2>3. (q + 1) * dv = q * dv + dv /\ q * dv \in Nat
    BY <1>10, <1>13
  <2> QED
    BY <1>10, <1>12, <1>13, <2>2, <2>3
<1>15. ASSUME n = 0 PROVE q = g /\ f = 0
  <2>1. (g * dv) * pp = dd * pp
    <3>1. n * pi = 0 /\ (g * dv) * pp \in Nat
      BY <1>6, <1>10, <1>15
    <3> QED
      BY <1>11, <3>1
  <2>2. dd = g * dv + 0
    <3>1. dd = g * dv
      BY <1>6, <1>10, <1>12, <2>1, SameTimes
    <3> QED
      BY <1>12, <3>1
  <2>3. 0 \in Nat /\ 0 < dv
    BY <1>10
  <2>4. dd \div dv = g /\ dd % dv = 0
    BY <1>10, <2>2, <2>3, QuotientIs
  <2> QED
    BY <1>10, <1>13, <2>4 DEF Whole, Left
<1>16. ASSUME e = 0 PROVE q = a /\ postshift \in Nat /\ n = f * powers[postshift]
  <2>1. pe = 1 /\ g = a
    <3>1. pe = 1
      BY <1>6, <1>16, PowersFacts
    <3> QED
      BY <1>10, <3>1
  <2>2. PICK rem \in Nat : rem = dd - a * dv /\ dd = a * dv + rem
    <3>1. a * dv \in Nat /\ a * dv <= dd
      BY <1>12, <2>1
    <3> QED
      BY <1>10, <3>1
  <2>3. rem * pp = n * pi
    <3>1. PICK gd \in Nat : gd = g * dv /\ dd = gd + rem
      BY <1>12, <2>1, <2>2
    <3>2. (gd + rem) * pp = gd * pp + rem * pp /\ gd * pp \in Nat /\ rem * pp \in Nat /\ n * pi \in Nat
      BY <1>6, <2>2, <3>1
    <3>3. gd * pp + n * pi = dd * pp
      BY <1>11, <3>1
    <3>4. gd * pp + n * pi = gd * pp + rem * pp
      BY <3>1, <3>2, <3>3
    <3> QED
      BY <3>2, <3>4
  <2>4. rem < dv
    <3>1. SUFFICES ASSUME dv <= rem PROVE FALSE
      BY <1>10, <2>2
    <3>2. dv * pp <= rem * pp /\ dv * pp \in Nat /\ rem * pp \in Nat
      BY <1>6, <1>10, <2>2, <3>1, MulGrows
    <3>3. y * pi = dv * pp
      BY <1>10, <1>11, <2>1
    <3>4. (n + 1) * pi <= y * pi /\ (n + 1) * pi = n * pi + pi /\ n * pi \in Nat /\ y * pi \in Nat
      BY <1>6, <1>9, MulGrows
    <3> QED
      BY <1>6, <2>3, <3>2, <3>3, <3>4
  <2>5. q = a /\ f = rem
    <3>1. dd \div dv = a /\ dd % dv = rem
      <4>1. dd \in Nat /\ dv \in Nat \ {0} /\ rem \in Nat /\ rem < dv /\ dd = a * dv + rem
        BY <1>10, <2>2, <2>4
      <4> QED
        BY <4>1, QuotientIs
    <3> QED
      BY <1>10, <1>13, <3>1 DEF Whole, Left
  <2>6. PICK s \in Nat : s = postshift /\ p = i + s
    <3>1. postshift = IF p < p + (j - i) THEN p ELSE p + (j - i)
      <4>1. var1initpad = p
        BY <1>5 DEF Pad
      <4>2. var1initpad + exponent - lhs.exp + rhs.exp = p + (j - i)
        <5>1. lhs.exp \in Int /\ rhs.exp \in Int /\ Low \in Int
          BY KnownFacts, LowIs
        <5> QED
          BY <1>3, <1>5, <1>16, <4>1, <5>1
      <4> QED
        BY <4>1, <4>2 DEF postshift
    <3>2. p >= i
      BY <1>3, <1>5, <1>16
    <3>3. postshift = p - i
      BY <1>3, <3>1, <3>2
    <3> QED
      BY <3>2, <3>3
  <2>7. n = rem * powers[s]
    <3>1. PICK ps \in Nat : ps = powers[s] /\ pp = pi * ps
      <4>1. powers[s] \in Nat /\ powers[i + s] = powers[i] * powers[s]
        BY PowersFacts, PowersSum
      <4> QED
        BY <1>6, <2>6, <4>1
    <3>2. n * pi = (rem * ps) * pi
      <4>1. rem * (pi * ps) = (rem * ps) * pi
        BY <1>6, <2>2, <3>1
      <4> QED
        BY <2>3, <3>1, <4>1
    <3>3. rem * ps \in Nat
      BY <2>2, <3>1
    <3> QED
      BY <1>6, <3>1, <3>2, <3>3, SameTimes
  <2> QED
    BY <2>5, <2>6, <2>7
<1> QED
  BY <1>5, <1>6, <1>10, <1>13, <1>14, <1>15, <1>16

\* a quotient that needs more digits than there are is too long, and no other
LEMMA ImpossibleIs ==
    ASSUME Known, Underway, ~Dividing, NEW a \in Nat,
           a * Block + var1 = Total, var1 < Block
    PROVE  /\ Digits(a) + exponent > reqdigits /\ (a = 0 => exponent = 0) => TooLong(Whole)
           /\ Digits(a) + exponent <= reqdigits /\ (exponent = 0 \/ var1 = 0)
                  => /\ ~TooLong(Whole) /\ Whole = a * powers[exponent]
                     /\ var1 = 0 => Left = 0
<1>1. /\ var1 \in Nat /\ reqdigits \in Nat \ {0} /\ exponent \in Nat
  BY UnderwayFacts DEF Underway
<1>2. /\ a * powers[exponent] \in Nat /\ a * powers[exponent] <= Whole
      /\ var1 = 0 => Whole = a * powers[exponent] /\ Left = 0
      /\ exponent = 0 => Whole = a
      /\ Whole \in Nat
  BY <1>1, WholeIs
<1>3. PICK g \in Nat, e \in Nat, p \in Nat \ {0}, w \in Nat, n \in Nat :
          /\ g = a * powers[exponent] /\ e = exponent /\ p = reqdigits /\ w = Whole /\ n = var1
          /\ g <= w
  BY <1>1, <1>2
<1>4. TooLong(Whole) <=> powers[p] <= w
  BY <1>1, <1>3, PowersFacts DEF TooLong, reqdigits
<1>5. PICK d \in Nat \ {0} : d = Digits(a)
  BY DigitsFacts
<1>6. CASE a = 0
  <2>1. d = 1 /\ g = 0
    <3>1. PICK x \in Nat : x = powers[e]
      BY PowersFacts
    <3>2. 0 * x = 0
      BY <3>1
    <3> QED
      BY <1>3, <1>5, <1>6, <3>1, <3>2, DigitsFacts
  <2>2. ~(d + e > p /\ e = 0)
    BY <1>3, <2>1
  <2>3. e = 0 \/ n = 0 => w = 0
    BY <1>2, <1>3, <1>6, <2>1
  <2>4. powers[p] >= 1 /\ powers[p] \in Nat
    BY PowersFacts
  <2> QED
    BY <1>2, <1>3, <1>4, <1>5, <1>6, <2>1, <2>2, <2>3, <2>4
<1>7. CASE a # 0
  <2>1. Digits(g) = d + e /\ d + e \in Nat \ {0}
    BY <1>3, <1>5, <1>7, DigitsScaled
  <2>2. d + e <= p <=> g < powers[p]
    BY <1>3, <2>1, DigitsAtMost
  <2>3. powers[p] \in Nat
    BY PowersFacts
  <2>4. ASSUME d + e > p PROVE powers[p] <= w
    BY <1>3, <2>1, <2>2, <2>3, <2>4
  <2>5. ASSUME d + e <= p, e = 0 \/ n = 0 PROVE w < powers[p] /\ w = g
    <3>1. w = g
      <4>1. CASE n = 0
        BY <1>2, <1>3, <4>1
      <4>2. CASE e = 0
        <5>1. a * powers[0] = a
          BY PowersFacts
        <5> QED
          BY <1>2, <1>3, <4>2, <5>1
      <4> QED
        BY <2>5, <4>1, <4>2
    <3> QED
      BY <2>2, <2>5, <3>1
  <2> QED
    BY <1>2, <1>3, <1>4, <1>5, <2>1, <2>3, <2>4, <2>5
<1> QED
  BY <1>6, <1>7

\* a division that is refused, and should be
LEMMA Refuse ==
    ASSUME Known, BothFiniteNonZero, ~Dividing, Deliver(res, {"Division_impossible"}),
           op = "DIVIDEINT" => TooLong(Whole),
           IsRemainder => TooLong(IF op = "REMNEAR" /\ UpToNear THEN Whole + 1 ELSE Whole)
    PROVE  IInv'
<1>1. PICK f : f = "Division_impossible" /\ f \in NaNFlags /\ f # "Division_by_zero"
  BY DEF NaNFlags
<1>2. PICK r : r = Special("nan", FALSE) /\ r.kind = "nan"
  BY SpecialFields
<1>3. /\ ~IsNaN(lhs) /\ ~IsNaN(rhs) /\ ~Undefined /\ ~IsZero(rhs)
  BY NonZeroDefined
<1>4. Signalled(r, {f})
  BY <1>1, <1>2, <1>3 DEF Signalled
<1>5. Divided(r, {f})
  BY <1>1, <1>2 DEF Divided
<1>6. res.kind \in Kinds /\ res.coef \in Nat /\ Deliver(res, {f})
  BY <1>1 DEF Known, TypeOK
<1> QED
  BY <1>1, <1>2, <1>4, <1>5, <1>6, RefusedReached

LEMMA CompleteFacts ==
    ASSUME IInv, pc = "complete"
    PROVE  /\ Known /\ Underway /\ BothFiniteNonZero /\ Defined
           /\ \/ /\ acc * Block + var1 = Total /\ var1 < Block /\ Ending
                 /\ Dividing /\ exponent < maxexponent => var1 # 0 \/ acc % Base # 0
              \/ /\ op = "DIVIDEINT"
                 /\ (acc - 1) * Block = Total /\ acc - 1 >= powers[reqdigits]
           /\ acc \in Nat /\ exponent \in Int /\ reqdigits \in Nat \ {0}
           /\ bits = sign /\ sign \in BOOLEAN
<1>1. /\ Known /\ Underway
      /\ \/ /\ acc * Block + var1 = Total /\ var1 < Block /\ Ending
            /\ Dividing /\ exponent < maxexponent => var1 # 0 \/ acc % Base # 0
         \/ /\ op = "DIVIDEINT"
            /\ (acc - 1) * Block = Total /\ acc - 1 >= powers[reqdigits]
  BY DEF IInv, AtComplete
<1>2. BothFiniteNonZero /\ bits = sign
  BY <1>1 DEF Underway
<1>3. Defined /\ sign \in BOOLEAN
  BY <1>1, <1>2, NonZeroDefined, KnownFacts
<1> QED
  BY <1>1, <1>2, <1>3, UnderwayFacts

\* a division that ends with a quotient of 0 has come down to the units
LEMMA ZeroAtUnits ==
    ASSUME Known, Underway, ~Dividing, acc = 0, acc * Block + var1 = Total, Ending
    PROVE  exponent = 0
<1>1. /\ var1 \in Nat /\ Block \in Nat /\ Total \in Nat \ {0} /\ reqdigits \in Nat \ {0}
  BY UnderwayFacts
<1>2. var1 # 0
  <2>1. PICK y \in Nat : y = Block /\ 0 * y = 0
    BY <1>1
  <2> QED
    BY <1>1, <2>1
<1>3. ~(Digits(acc) > reqdigits)
  BY <1>1, DigitsFacts
<1> QED
  BY <1>2, <1>3 DEF Ending

LEMMA CompleteIntegerStep ==
    ASSUME IInv, CompleteInteger
    PROVE  IInv'
<1>1. /\ pc = "complete" /\ op = "DIVIDEINT"
      /\ IF Impossible THEN Deliver(res, {"Division_impossible"})
         ELSE ToFinish(SetCoeff(Work(Finite(bits, acc, exponent), 0, {}), set))
  BY DEF CompleteInteger
<1>2. /\ Known /\ Underway /\ BothFiniteNonZero /\ Defined
      /\ \/ acc * Block + var1 = Total /\ var1 < Block /\ Ending
         \/ (acc - 1) * Block = Total /\ acc - 1 >= powers[reqdigits]
      /\ acc \in Nat /\ reqdigits \in Nat \ {0} /\ bits = sign /\ sign \in BOOLEAN
  BY <1>1, CompleteFacts
<1>3. ~Dividing /\ ~IsRemainder
  BY <1>1 DEF Dividing, IsRemainder
<1>4. exponent \in Nat /\ Digits(acc) \in Nat \ {0}
  BY <1>2, <1>3, DigitsFacts DEF Underway
<1>5. Impossible <=> Digits(acc) + exponent > reqdigits
  BY DEF Impossible, accdigits
<1>6. CASE acc * Block + var1 = Total /\ var1 < Block /\ Ending
  <2>1. CASE Impossible
    <3>1. TooLong(Whole)
      <4>1. acc = 0 => exponent = 0
        BY <1>2, <1>3, <1>6, ZeroAtUnits
      <4>2. Digits(acc) + exponent > reqdigits
        BY <1>5, <2>1
      <4> QED
        BY <1>2, <1>3, <1>6, <4>1, <4>2, ImpossibleIs
    <3> QED
      BY <1>1, <1>2, <1>3, <2>1, <3>1, Refuse
  <2>2. CASE ~Impossible
    <3>1. Digits(acc) + exponent <= reqdigits
      BY <1>2, <1>4, <1>5, <2>2
    <3>2. exponent = 0
      <4>1. ~(Digits(acc) > reqdigits)
        BY <1>2, <1>4, <3>1
      <4> QED
        BY <1>3, <1>6, <4>1 DEF Ending
    <3>3. ~TooLong(Whole) /\ Whole = acc
      <4>1. ~TooLong(Whole) /\ Whole = acc * powers[exponent]
        BY <1>2, <1>3, <1>6, <3>1, <3>2, ImpossibleIs
      <4>2. acc * powers[0] = acc
        BY <1>2, PowersFacts
      <4> QED
        BY <3>2, <4>1, <4>2
    <3>4. Due(sign, acc, 0)
      BY <1>1, <1>3, <3>3 DEF Due
    <3>5. ToFinish(SetCoeff(Work(Finite(sign, acc, 0), 0, {}), set)) /\ 0 \in Int
      BY <1>1, <1>2, <2>2, <3>2
    <3> QED
      BY <1>2, <3>4, <3>5, FinishExact
  <2> QED
    BY <2>1, <2>2
<1>7. CASE (acc - 1) * Block = Total /\ acc - 1 >= powers[reqdigits]
  <2>1. PICK g \in Nat : g = acc - 1 /\ g >= powers[reqdigits] /\ powers[reqdigits] \in Nat
                         /\ powers[reqdigits] >= 1 /\ acc = g + 1
    <3>1. powers[reqdigits] \in Nat /\ powers[reqdigits] >= 1
      BY <1>2, PowersFacts
    <3> QED
      BY <1>2, <1>7, <3>1
  <2>2. ~(Digits(acc) <= reqdigits) /\ ~(Digits(g) <= reqdigits)
    <3>1. ~(acc < powers[reqdigits]) /\ ~(g < powers[reqdigits])
      BY <2>1
    <3> QED
      BY <1>2, <2>1, <3>1, DigitsAtMost
  <2>3. Impossible
    BY <1>2, <1>4, <1>5, <2>2
  <2>4. TooLong(Whole)
    <3>1. /\ g * powers[exponent] \in Nat /\ g * powers[exponent] <= Whole /\ Whole \in Nat
      <4>1. PICK y \in Nat : y = Block /\ Block # 0 /\ g * y + 0 = g * y /\ 0 < y
        BY <1>2, <2>1, UnderwayFacts
      <4>2. g * Block + 0 = Total /\ 0 < Block /\ 0 \in Nat
        BY <1>7, <2>1, <4>1
      <4> QED
        BY <1>2, <1>3, <2>1, <4>2, WholeIs
    <3>2. g <= g * powers[exponent]
      <4>1. PICK x \in Nat : x = powers[exponent] /\ 1 <= x
        BY <1>4, PowersFacts
      <4>2. g * 1 <= g * x
        BY <2>1, <4>1, MulGrows
      <4> QED
        BY <2>1, <4>1, <4>2
    <3> QED
      BY <2>1, <3>1, <3>2 DEF TooLong, reqdigits
  <2> QED
    BY <1>1, <1>2, <1>3, <2>3, <2>4, Refuse
<1> QED
  BY <1>2, <1>6, <1>7

LEMMA CompleteRemainderStep ==
    ASSUME IInv, CompleteRemainder
    PROVE  IInv'
<1>1. /\ pc = "complete" /\ IsRemainder
      /\ IF Impossible THEN Deliver(res, {"Division_impossible"})
         ELSE IF var1 = 0
         THEN ToFinish(Work(Finite(lhs.neg, 0, lowexp), 0, {}))
         ELSE IF op = "REMAINDER" \/ ~RoundsQuotientUp
         THEN DeliverRemainder(lhs.neg, remainder)
         ELSE IF AllNines THEN Deliver(res, {"Division_impossible"})
         ELSE DeliverRemainder(~lhs.neg, divisor - remainder)
  BY DEF CompleteRemainder
<1>2. ~Dividing /\ op # "DIVIDEINT" /\ op \in {"REMAINDER", "REMNEAR"}
  BY <1>1 DEF Dividing, IsRemainder
<1>3. /\ Known /\ Underway /\ BothFiniteNonZero /\ Defined
      /\ acc * Block + var1 = Total /\ var1 < Block /\ Ending
      /\ acc \in Nat /\ reqdigits \in Nat \ {0}
  BY <1>1, <1>2, CompleteFacts
<1>4. exponent \in Nat /\ Digits(acc) \in Nat \ {0} /\ var1 \in Nat
  BY <1>2, <1>3, DigitsFacts, UnderwayFacts DEF Underway
<1>5. Impossible <=> Digits(acc) + exponent > reqdigits
  BY DEF Impossible, accdigits
<1>6. /\ Whole \in Nat /\ Left \in Nat /\ Left < Divisor /\ Divisor \in Nat \ {0}
      /\ exponent = 0 => /\ Whole = acc /\ postshift \in Nat
                         /\ var1 = Left * powers[postshift]
  BY <1>2, <1>3, <1>4, WholeIs
<1>7. Low = lowexp /\ Low \in Int /\ Divisor = divisor /\ lhs.neg \in BOOLEAN
  <2>1. Low = lowexp /\ Low \in Int /\ lhs.neg \in BOOLEAN
    BY <1>3, LowIs, KnownFacts
  <2> QED
    BY <2>1 DEF divisor, Divisor
<1>8. PICK up \in BOOLEAN : up = (op = "REMNEAR" /\ UpToNear)
  OBVIOUS
<1>9. ASSUME NEW neg, NEW n, ~TooLong(IF up THEN Whole + 1 ELSE Whole),
             neg = (IF up THEN ~lhs.neg ELSE lhs.neg), n = (IF up THEN Divisor - Left ELSE Left)
      PROVE  Due(neg, n, Low)
  BY <1>2, <1>8, <1>9 DEF Due
<1>10. CASE Impossible
  <2>1. TooLong(Whole)
    <3>1. acc = 0 => exponent = 0
      BY <1>2, <1>3, ZeroAtUnits
    <3>2. Digits(acc) + exponent > reqdigits
      BY <1>5, <1>10
    <3> QED
      BY <1>2, <1>3, <3>1, <3>2, ImpossibleIs
  <2>2. TooLong(Whole + 1)
    <3>1. powers[set.digits] \in Nat
      BY <1>3, PowersFacts DEF reqdigits
    <3> QED
      BY <1>6, <2>1, <3>1 DEF TooLong
  <2> QED
    BY <1>1, <1>2, <1>3, <1>10, <2>1, <2>2, Refuse
<1>11. CASE ~Impossible
  <2>1. Digits(acc) + exponent <= reqdigits
    BY <1>3, <1>4, <1>5, <1>11
  <2>2. exponent = 0 \/ var1 = 0
    <3>1. ~(Digits(acc) > reqdigits)
      BY <1>3, <1>4, <2>1
    <3> QED
      BY <1>2, <1>3, <3>1 DEF Ending
  <2>3. ~TooLong(Whole) /\ (var1 = 0 => Left = 0)
    BY <1>2, <1>3, <2>1, <2>2, ImpossibleIs
  <2>4. CASE var1 = 0
    <3>1. Left = 0
      BY <2>3, <2>4
    <3>2. ~up
      <4>1. ~UpToNear
        BY <1>6, <3>1 DEF UpToNear
      <4>2. ~(op = "REMNEAR" /\ UpToNear)
        BY <4>1, Zenon
      <4> QED
        BY <1>8, <4>2, Zenon
    <3>3. Due(lhs.neg, 0, Low)
      BY <1>9, <2>3, <3>1, <3>2
    <3>4. ToFinish(Work(Finite(lhs.neg, 0, Low), 0, {}))
      BY <1>1, <1>7, <1>11, <2>4
    <3> QED
      BY <1>3, <1>7, <3>3, <3>4, FinishZero
  <2>5. CASE var1 # 0
    <3>1. Whole = acc /\ remainder = Left
      <4>1. exponent = 0 /\ Whole = acc /\ postshift \in Nat /\ var1 = Left * powers[postshift]
        BY <1>6, <2>2, <2>5
      <4>2. PICK x \in Nat \ {0}, f \in Nat : x = powers[postshift] /\ f = Left /\ var1 = f * x + 0
        <5>1. powers[postshift] \in Nat /\ powers[postshift] >= 1
          BY <4>1, PowersFacts
        <5>2. PICK x \in Nat \ {0}, f \in Nat : x = powers[postshift] /\ f = Left
          BY <1>6, <5>1
        <5>3. f * x + 0 = f * x
          BY <5>2
        <5> QED
          BY <4>1, <5>2, <5>3
      <4>3. 0 \in Nat /\ 0 < x
        BY <4>2
      <4>4. var1 \div x = f
        BY <1>4, <4>2, <4>3, QuotientIs
      <4> QED
        BY <4>1, <4>2, <4>4 DEF remainder
    <3>2. RoundsQuotientUp <=> UpToNear
      BY <1>7, <3>1 DEF RoundsQuotientUp, UpToNear
    <3>3. ASSUME NEW neg \in BOOLEAN, NEW n \in Nat, Due(neg, n, Low), DeliverRemainder(neg, n)
          PROVE  IInv'
      <4>1. ToFinish(SetCoeff(Work(Finite(neg, n, Low), 0, {}), set))
        BY <1>7, <3>3 DEF DeliverRemainder
      <4> QED
        BY <1>3, <1>7, <3>3, <4>1, FinishExact
    <3>4. CASE ~up
      <4>1. DeliverRemainder(lhs.neg, Left)
        BY <1>1, <1>2, <1>8, <1>11, <2>5, <3>1, <3>2, <3>4
      <4>2. Due(lhs.neg, Left, Low)
        BY <1>9, <2>3, <3>4
      <4> QED
        BY <1>6, <1>7, <3>3, <4>1, <4>2
    <3>5. CASE up
      <4>1. IF AllNines THEN Deliver(res, {"Division_impossible"})
            ELSE DeliverRemainder(~lhs.neg, Divisor - Left)
        BY <1>1, <1>2, <1>7, <1>8, <1>11, <2>5, <3>1, <3>2, <3>5
      <4>2. PICK z \in Nat : z = powers[reqdigits] /\ z >= 1
        BY <1>3, PowersFacts
      <4>3. TooLong(Whole + 1) <=> acc + 1 >= z
        BY <3>1, <4>2 DEF TooLong, reqdigits
      <4>4. acc < z
        BY <1>3, <2>3, <3>1, <4>2 DEF TooLong, reqdigits
      <4>5. AllNines <=> acc = z - 1
        <5>1. Digits(powers[reqdigits] - 1) = reqdigits
          BY <1>3, DigitsOfPower
        <5> QED
          BY <4>2, <5>1 DEF AllNines, accdigits
      <4>6. CASE AllNines
        <5>1. TooLong(Whole + 1)
          BY <1>3, <4>2, <4>3, <4>5, <4>6
        <5>2. IsRemainder => TooLong(IF op = "REMNEAR" /\ UpToNear THEN Whole + 1 ELSE Whole)
          BY <1>8, <3>5, <5>1
        <5> QED
          BY <1>2, <1>3, <4>1, <4>6, <5>2, Refuse
      <4>7. CASE ~AllNines
        <5>1. ~TooLong(Whole + 1)
          BY <1>3, <4>2, <4>3, <4>4, <4>5, <4>7
        <5>2. Due(~lhs.neg, Divisor - Left, Low)
          BY <1>9, <3>5, <5>1
        <5>3. Divisor - Left \in Nat
          BY <1>6
        <5>4. (~lhs.neg) \in BOOLEAN
          OBVIOUS
        <5> QED
          BY <3>3, <4>1, <4>7, <5>2, <5>3, <5>4
      <4> QED
        BY <4>6, <4>7
    <3> QED
      BY <3>4, <3>5
  <2> QED
    BY <2>4, <2>5
<1> QED
  BY <1>10, <1>11

(***************************************************************************)
(* The quotient.  What a residue tells is the same in any unit, so that    *)
(* what decSetCoeff found among the accumulated digits and what is left    *)
(* can be said of the digits of the reference quotient.                    *)
(***************************************************************************)
LEMMA TimesKeepOrder ==
    ASSUME NEW x \in Int, NEW y \in Int, NEW v \in Nat \ {0}
    PROVE  /\ x * v \in Int /\ y * v \in Int
           /\ x * v < y * v <=> x < y
           /\ x * v = y * v <=> x = y
<1>1. ASSUME NEW a \in Int, NEW b \in Int, a < b PROVE a * v < b * v
  <2>1. PICK d \in Nat \ {0} : d = b - a /\ b = a + d
    BY <1>1
  <2>2. d * v \in Nat \ {0} /\ (a + d) * v = a * v + d * v /\ a * v \in Int
    OBVIOUS
  <2> QED
    BY <2>1, <2>2
<1>2. x * v \in Int /\ y * v \in Int
  OBVIOUS
<1>3. CASE x < y
  BY <1>1, <1>2, <1>3
<1>4. CASE y < x
  BY <1>1, <1>2, <1>4
<1>5. CASE x = y
  BY <1>2, <1>5
<1> QED
  BY <1>3, <1>4, <1>5

LEMMA TellsScaled ==
    ASSUME NEW r \in 0..9, NEW a \in Int, NEW b \in Int, NEW v \in Nat \ {0}
    PROVE  Tells(r, a * v, b * v) <=> Tells(r, a, b)
<1>1. /\ 0 * v < a * v <=> 0 < a
      /\ a * v = 0 * v <=> a = 0
      /\ (2 * a) * v < b * v <=> 2 * a < b
      /\ (2 * a) * v = b * v <=> 2 * a = b
      /\ b * v < (2 * a) * v <=> b < 2 * a
      /\ a * v < b * v <=> a < b
  <2>1. 2 * a \in Int /\ 0 \in Int
    OBVIOUS
  <2> QED
    BY <2>1, TimesKeepOrder
<1>2. 0 * v = 0 /\ (2 * a) * v = 2 * (a * v)
  OBVIOUS
<1>3. PICK av \in Int, bv \in Int : av = a * v /\ bv = b * v
  OBVIOUS
<1>4. /\ 0 < av <=> 0 < a
      /\ av = 0 <=> a = 0
      /\ 2 * av < bv <=> 2 * a < b
      /\ 2 * av = bv <=> 2 * a = b
      /\ bv < 2 * av <=> b < 2 * a
      /\ av < bv <=> a < b
  BY <1>1, <1>2, <1>3, Zenon
<1>5. Tells(r, av, bv) <=> Tells(r, a, b)
  BY <1>4 DEF Tells
<1> QED
  BY <1>3, <1>5

\* digits further down than the half do not change what a residue tells
LEMMA TellsFurther ==
    ASSUME NEW r \in 0..9, NEW d \in Int, NEW f \in Nat, NEW v \in Nat \ {0}, f # 0, f < v,
           NEW h \in Nat, Tells(r, d * v + f, (2 * h) * v)
    PROVE  Tells(r, 10 * d + 1, 20 * h)
<1>1. PICK x \in Int, y \in Int, hv \in Int :
          x = d * v /\ y = (d + 1) * v /\ hv = h * v /\ (2 * h) * v = 2 * hv /\ y = x + v
  OBVIOUS
<1>2. /\ 0 * v < y => 0 < d + 1
      /\ x < hv => d < h
      /\ hv < y => h < d + 1
      /\ x < (2 * h) * v => d < 2 * h
  <2>1. d + 1 \in Int /\ 0 \in Int /\ 2 * h \in Int /\ h \in Int
    OBVIOUS
  <2>2. /\ 0 * v < (d + 1) * v <=> 0 < d + 1
        /\ d * v < h * v <=> d < h
        /\ h * v < (d + 1) * v <=> h < d + 1
        /\ d * v < (2 * h) * v <=> d < 2 * h
    BY <2>1, TimesKeepOrder
  <2> QED
    BY <1>1, <2>2, Zenon
<1>3. 0 * v = 0
  OBVIOUS
<1>4. /\ 0 < y => 0 <= d
      /\ x < hv => d < h
      /\ hv < y => h <= d
      /\ x < 2 * hv => d < 2 * h
  BY <1>1, <1>2, <1>3
<1>5. Tells(r, x + f, 2 * hv)
  BY <1>1, Zenon
<1>6. x = hv \/ x + v <= hv \/ hv + v <= x
  <2>1. CASE d = h
    BY <1>1, <2>1
  <2>2. CASE d < h
    <3>1. PICK k \in Nat : h = d + 1 + k
      <4>1. h - d - 1 \in Nat /\ h = d + 1 + (h - d - 1)
        BY <2>2
      <4> QED
        BY <4>1
    <3>2. hv = y + k * v /\ k * v \in Nat
      <4>1. (d + 1 + k) * v = (d + 1) * v + k * v /\ k * v \in Nat
        OBVIOUS
      <4> QED
        BY <1>1, <3>1, <4>1
    <3> QED
      BY <1>1, <3>2
  <2>3. CASE h < d
    <3>1. PICK k \in Nat : d = h + 1 + k
      <4>1. d - h - 1 \in Nat /\ d = h + 1 + (d - h - 1)
        BY <2>3
      <4> QED
        BY <4>1
    <3>2. x = hv + v + k * v /\ k * v \in Nat
      <4>1. (h + 1 + k) * v = h * v + v + k * v /\ k * v \in Nat
        OBVIOUS
      <4> QED
        BY <1>1, <3>1, <4>1
    <3> QED
      BY <1>1, <3>2
  <2> QED
    BY <2>1, <2>2, <2>3
<1>7. r # 0 /\ 0 <= d
  <2>1. x + f # 0
    <3>1. x = 0 \/ x + v <= 0 \/ v <= x
      <4>1. CASE d = 0
        BY <1>1, <4>1
      <4>2. CASE d < 0
        <5>1. PICK k \in Nat : d + 1 = 0 - k
          <6>1. 0 - (d + 1) \in Nat /\ d + 1 = 0 - (0 - (d + 1))
            BY <4>2
          <6> QED
            BY <6>1
        <5>2. (0 - k) * v = 0 - k * v /\ k * v \in Nat
          OBVIOUS
        <5> QED
          BY <1>1, <5>1, <5>2
      <4>3. CASE 0 < d
        <5>1. PICK k \in Nat : d = 1 + k
          <6>1. d - 1 \in Nat /\ d = 1 + (d - 1)
            BY <4>3
          <6> QED
            BY <6>1
        <5>2. (1 + k) * v = v + k * v /\ k * v \in Nat
          OBVIOUS
        <5> QED
          BY <1>1, <5>1, <5>2
      <4> QED
        BY <4>1, <4>2, <4>3
    <3> QED
      BY <3>1
  <2>2. r # 0 /\ 0 < x + f
    BY <1>5, <2>1 DEF Tells
  <2> QED
    BY <1>1, <1>4, <2>2
<1>8. CASE r \in 1..4
  <2>1. 2 * (x + f) < 2 * hv
    BY <1>5, <1>8 DEF Tells
  <2>2. d < h
    BY <1>4, <2>1
  <2>3. 0 < 10 * d + 1 /\ 2 * (10 * d + 1) < 20 * h
    BY <1>7, <2>2
  <2> QED
    BY <1>8, <2>3 DEF Tells
<1>9. CASE r = 5
  <2>1. 2 * (x + f) = 2 * hv
    BY <1>5, <1>9 DEF Tells
  <2> QED
    BY <1>6, <2>1
<1>10. CASE r \in 6..9
  <2>1. 2 * hv < 2 * (x + f) /\ x + f < 2 * hv
    BY <1>5, <1>10 DEF Tells
  <2>2. h <= d /\ d < 2 * h
    BY <1>1, <1>4, <2>1
  <2>3. 20 * h < 2 * (10 * d + 1) /\ 10 * d + 1 < 20 * h
    BY <2>2
  <2> QED
    BY <1>10, <2>3 DEF Tells
<1> QED
  BY <1>7, <1>8, <1>9, <1>10

\* the trailing zeros of a number, as far as s
LEMMA SurplusIs ==
    ASSUME NEW s \in Nat, NEW n \in Nat \ {0}
    PROVE  \E z \in 0..s, m \in Nat \ {0} :
               /\ Max({x \in 0..s : n % powers[x] = 0}) = z
               /\ n \div powers[z] = m /\ n = m * powers[z]
               /\ z = s \/ m % 10 # 0
<1> DEFINE Z == {x \in 0..s : n % powers[x] = 0}
<1> DEFINE T == {t \in Nat : t <= s /\ n % powers[s - t] = 0}
<1>1. s \in T
  <2>1. s - s = 0 /\ powers[0] = 1
    BY PowersFacts
  <2>2. n % 1 = 0
    OBVIOUS
  <2> QED
    BY <2>1, <2>2
<1>2. PICK t \in T : \A y \in T : t <= y
  <2>1. T \subseteq Nat /\ T # {}
    BY <1>1
  <2> HIDE DEF T
  <2> QED
    BY <2>1, Least
<1>3. PICK z \in 0..s : z = s - t /\ t = s - z /\ n % powers[z] = 0
  <2>1. t \in Nat /\ t <= s /\ n % powers[s - t] = 0
    BY <1>2
  <2>2. s - t \in 0..s /\ t = s - (s - t)
    BY <2>1
  <2> QED
    BY <2>1, <2>2
<1>4. z \in Z
  BY <1>3
<1>5. ASSUME NEW y \in Z PROVE y <= z
  <2>1. s - y \in Nat /\ s - y <= s /\ s - (s - y) = y
    OBVIOUS
  <2>2. s - y \in T
    BY <2>1
  <2> QED
    BY <1>2, <1>3, <2>2
<1>6. Max(Z) = z
  <2>1. \A x \in Z : (\A y \in Z : x >= y) => x = z
    BY <1>4, <1>5
  <2>2. \A y \in Z : z >= y
    BY <1>5
  <2> QED
    BY <1>4, <2>1, <2>2 DEF Max
<1>7. PICK u \in Nat \ {0} : u = powers[z] /\ powers[z + 1] = 10 * u
  <2>1. z \in Nat
    OBVIOUS
  <2>2. powers[z] \in Nat /\ powers[z] >= 1 /\ powers[z + 1] = 10 * powers[z]
    BY <2>1, PowersFacts
  <2> QED
    BY <2>2
<1>8. PICK m \in Nat : m = n \div u /\ n = m * u
  <2>1. /\ n \div u \in Nat /\ n % u \in Nat /\ n % u < u
        /\ n = (n \div u) * u + (n % u)
    BY Euclid
  <2>2. (n \div u) * u + 0 = (n \div u) * u
    BY <2>1
  <2> QED
    BY <1>3, <1>7, <2>1, <2>2
<1>9. m # 0
  <2>1. 0 * u = 0
    OBVIOUS
  <2> QED
    BY <1>8, <2>1
<1>11. n \div powers[z] = m /\ n = m * powers[z]
  BY <1>7, <1>8, Zenon
<1>12. m \in Nat \ {0}
  BY <1>9
<1>10. ASSUME z # s, m % 10 = 0 PROVE FALSE
  <2>1. PICK l \in Nat : m = 10 * l
    <3>1. m \div 10 \in Nat /\ m = 10 * (m \div 10)
      BY <1>10
    <3> QED
      BY <3>1
  <2>2. n = l * (10 * u) + 0 /\ 0 < 10 * u /\ 0 \in Nat /\ 10 * u \in Nat \ {0}
    <3>1. (10 * l) * u = l * (10 * u) /\ l * (10 * u) \in Nat
      OBVIOUS
    <3> QED
      BY <1>8, <2>1, <3>1
  <2>3. n % (10 * u) = 0
    BY <2>2, QuotientIs
  <2>4. z + 1 \in Z
    BY <1>7, <1>10, <2>3
  <2>5. z + 1 <= z
    BY <1>5, <2>4
  <2> QED
    BY <2>5
<1>13. z = s \/ m % 10 # 0
  BY <1>10
<1> QED
  BY <1>6, <1>11, <1>12, <1>13, Zenon

\* two digits more than the precision are left before the reference stops
LEMMA ShiftReaches ==
    ASSUME Known, BothFiniteNonZero
    PROVE  /\ Shift \in Nat /\ lhs.coef \in Nat \ {0} /\ rhs.coef \in Nat \ {0}
           /\ reqdigits \in Nat \ {0} /\ maxexponent \in Int
           /\ powers[reqdigits + 1] * rhs.coef <= lhs.coef * powers[Shift]
<1>1. PICK l \in Nat \ {0}, r \in Nat \ {0}, p \in Nat \ {0} :
          l = lhs.coef /\ r = rhs.coef /\ p = reqdigits /\ p = set.digits
  <2>1. lhs.coef \in Nat \ {0} /\ rhs.coef \in Nat \ {0} /\ reqdigits \in Nat \ {0}
    BY KnownFacts DEF BothFiniteNonZero
  <2>2. reqdigits = set.digits
    BY DEF reqdigits
  <2> QED
    BY <2>1, <2>2
<1>2. PICK dl \in Nat, dr \in Nat \ {0} : /\ Digits(l) = dl + 1 /\ powers[dl] <= l
                                          /\ Digits(r) = dr /\ r < powers[dr]
  <2>1. /\ Digits(l) \in Nat \ {0} /\ powers[Digits(l) - 1] <= l
        /\ Digits(r) \in Nat \ {0} /\ r < powers[Digits(r)]
    BY DigitsFacts
  <2>2. Digits(l) - 1 \in Nat /\ Digits(l) = (Digits(l) - 1) + 1
    BY <2>1
  <2> QED
    BY <2>1, <2>2
<1>3. PICK s \in Nat : s = Shift /\ p + 1 + dr <= dl + s
  <2>1. Max({0, dr - (dl + 1)}) = IF 0 <= dr - (dl + 1) THEN dr - (dl + 1) ELSE 0
    <3>1. 0 \in Int /\ dr - (dl + 1) \in Int
      OBVIOUS
    <3> QED
      BY <3>1, MaxOfTwo
  <2>2. Shift = p + 2 + Max({0, dr - (dl + 1)})
    BY <1>1, <1>2 DEF Shift
  <2> QED
    BY <2>1, <2>2
<1>4. powers[p + 1] * r <= powers[p + 1] * powers[dr]
  <2>1. powers[p + 1] \in Nat /\ powers[dr] \in Nat /\ r <= powers[dr]
    BY <1>2, PowersFacts
  <2> QED
    BY <2>1, MulGrows
<1>5. powers[p + 1] * powers[dr] <= powers[dl] * powers[s]
  <2>1. /\ powers[p + 1] * powers[dr] = powers[(p + 1) + dr]
        /\ powers[dl] * powers[s] = powers[dl + s]
    BY PowersSum
  <2>2. (p + 1) + dr <= dl + s /\ (p + 1) + dr \in Nat /\ dl + s \in Nat
    BY <1>3
  <2>3. powers[(p + 1) + dr] <= powers[dl + s]
    BY <2>2, PowersGrow
  <2> QED
    BY <2>1, <2>3
<1>6. powers[dl] * powers[s] <= l * powers[s]
  <2>1. powers[dl] \in Nat /\ powers[s] \in Nat
    BY PowersFacts
  <2> QED
    BY <1>2, <2>1, MulGrows
<1>7. powers[p + 1] * r <= l * powers[s]
  <2>1. /\ powers[p + 1] \in Nat /\ powers[dr] \in Nat /\ powers[dl] \in Nat
        /\ powers[s] \in Nat
    BY PowersFacts
  <2>2. PICK a \in Nat, b \in Nat, c \in Nat, d \in Nat :
            /\ a = powers[p + 1] * r /\ b = powers[p + 1] * powers[dr]
            /\ c = powers[dl] * powers[s] /\ d = l * powers[s]
    <3>1. /\ powers[p + 1] * r \in Nat /\ powers[p + 1] * powers[dr] \in Nat
          /\ powers[dl] * powers[s] \in Nat /\ l * powers[s] \in Nat
      BY <2>1
    <3> QED
      BY <3>1, Zenon
  <2> QED
    BY <1>4, <1>5, <1>6, <2>2
<1> QED
  BY <1>1, <1>3, <1>7, KnownFacts

LEMMA EndsExact ==
    ASSUME Known, BothFiniteNonZero, Ends
    PROVE  \E z \in 0..Shift :
               /\ ExactCoef \in Nat \ {0} /\ ExactExp = maxexponent - Shift + z
               /\ ExactExp \in Int
               /\ (ExactCoef * powers[z]) * rhs.coef = lhs.coef * powers[Shift]
               /\ z = Shift \/ ExactCoef % 10 # 0
<1>1. PICK s \in Nat, l \in Nat \ {0}, r \in Nat \ {0}, n \in Nat \ {0} :
          /\ s = Shift /\ l = lhs.coef /\ r = rhs.coef /\ n = l * powers[s]
          /\ maxexponent \in Int
  <2>1. PICK s \in Nat, l \in Nat \ {0}, r \in Nat \ {0} :
            s = Shift /\ l = lhs.coef /\ r = rhs.coef /\ maxexponent \in Int
    BY ShiftReaches
  <2>2. powers[s] \in Nat \ {0}
    <3>1. powers[s] \in Nat /\ powers[s] >= 1
      BY PowersFacts
    <3> QED
      BY <3>1
  <2>3. l * powers[s] \in Nat \ {0}
    BY <2>2
  <2> QED
    BY <2>1, <2>3
<1>2. PICK q \in Nat \ {0} : n = q * r /\ q = Quotient
  <2>1. PICK q \in Nat, f \in Nat : q = n \div r /\ f = n % r /\ f < r /\ n = q * r + f
    BY Euclid
  <2>2. f = 0 /\ Quotient = q
    BY <1>1, <2>1 DEF Ends, Quotient
  <2>3. q * r + 0 = q * r /\ 0 * r = 0
    OBVIOUS
  <2>4. n = q * r /\ q # 0
    BY <2>1, <2>2, <2>3
  <2> QED
    BY <2>2, <2>4
<1>3. PICK z \in 0..s, m \in Nat \ {0} :
          /\ Max({x \in 0..s : q % powers[x] = 0}) = z
          /\ q \div powers[z] = m /\ q = m * powers[z]
          /\ z = s \/ m % 10 # 0
  BY SurplusIs, Zenon
<1>4. Surplus = z
  BY <1>1, <1>2, <1>3 DEF Surplus
<1>5. ExactCoef = m /\ ExactExp = maxexponent - s + z
  <2>1. ExactCoef = m
    BY <1>2, <1>3, <1>4 DEF ExactCoef
  <2>2. ExactExp = lhs.exp - rhs.exp - s + z
    BY <1>1, <1>4 DEF ExactExp
  <2> QED
    BY <2>1, <2>2 DEF maxexponent
<1> QED
  BY <1>1, <1>2, <1>3, <1>5

LEMMA CutOffExact ==
    ASSUME Known, BothFiniteNonZero, ~Ends
    PROVE  \E q \in Nat, f \in Nat \ {0} :
               /\ ExactCoef = 10 * q + 1 /\ ExactExp = maxexponent - Shift - 1
               /\ ExactExp \in Int
               /\ f < rhs.coef /\ q * rhs.coef + f = lhs.coef * powers[Shift]
<1>1. PICK s \in Nat, l \in Nat \ {0}, r \in Nat \ {0} :
          s = Shift /\ l = lhs.coef /\ r = rhs.coef /\ maxexponent \in Int
  BY ShiftReaches
<1>2. PICK n \in Nat : n = l * powers[s]
  <2>1. powers[s] \in Nat
    BY PowersFacts
  <2>2. l * powers[s] \in Nat
    BY <2>1
  <2> QED
    BY <2>2
<1>3. PICK q \in Nat, f \in Nat : q = n \div r /\ f = n % r /\ f < r /\ n = q * r + f
  BY Euclid
<1>4. f # 0 /\ Quotient = q
  BY <1>1, <1>2, <1>3 DEF Ends, Quotient
<1>5. ExactCoef = 10 * q + 1 /\ ExactExp = maxexponent - s - 1
  <2>1. ExactExp = lhs.exp - rhs.exp - s + (-1)
    BY <1>1 DEF ExactExp
  <2>2. ExactExp = maxexponent - s + (-1)
    BY <2>1 DEF maxexponent
  <2>3. ExactCoef = 10 * q + 1
    BY <1>4 DEF ExactCoef
  <2> QED
    BY <1>1, <2>2, <2>3
<1> QED
  BY <1>1, <1>2, <1>3, <1>4, <1>5

(***************************************************************************)
(* The dividend at the position j is c times the divisor at the position k *)
(* and what the residue tells of: c * 10^e stands for the quotient, with   *)
(* as many digits as the precision.                                        *)
(***************************************************************************)
CutTo(c, s, rest, k, j, e) ==
    /\ c \in Nat \ {0} /\ Digits(c) = reqdigits /\ s \in 0..9 /\ rest \in Nat
    /\ k \in Nat /\ j \in Nat /\ e = maxexponent + k - j
    /\ c * (rhs.coef * powers[k]) + rest = lhs.coef * powers[j]
    /\ Tells(s, rest, rhs.coef * powers[k])

\* the same in numbers
Numbered(c, s, rest, l, r, pk, pj, ps) ==
    /\ c \in Nat \ {0} /\ s \in 0..9 /\ rest \in Nat /\ l \in Nat \ {0} /\ r \in Nat \ {0}
    /\ pk \in Nat \ {0} /\ pj \in Nat \ {0} /\ ps \in Nat \ {0}
    /\ c * (r * pk) + rest = l * pj
    /\ Tells(s, rest, r * pk)

LEMMA PowerNumber == \A k \in Nat : powers[k] \in Nat \ {0}
<1>1. ASSUME NEW k \in Nat PROVE powers[k] \in Nat \ {0}
  <2>1. powers[k] \in Nat /\ powers[k] >= 1
    BY PowersFacts
  <2> QED
    BY <2>1
<1> QED
  BY <1>1

LEMMA CutNumbered ==
    ASSUME Known, BothFiniteNonZero, NEW c, NEW s, NEW rest, NEW k, NEW j, NEW e,
           CutTo(c, s, rest, k, j, e)
    PROVE  /\ k \in Nat /\ j \in Nat /\ e = maxexponent + k - j /\ e \in Int
           /\ maxexponent \in Int /\ Shift \in Nat
           /\ c < powers[reqdigits] /\ Digits(c) = reqdigits
           /\ Numbered(c, s, rest, lhs.coef, rhs.coef, powers[k], powers[j], powers[Shift])
<1>1. /\ c \in Nat \ {0} /\ Digits(c) = reqdigits /\ s \in 0..9 /\ rest \in Nat
      /\ k \in Nat /\ j \in Nat /\ e = maxexponent + k - j
      /\ c * (rhs.coef * powers[k]) + rest = lhs.coef * powers[j]
      /\ Tells(s, rest, rhs.coef * powers[k])
  BY DEF CutTo
<1>2. /\ Shift \in Nat /\ lhs.coef \in Nat \ {0} /\ rhs.coef \in Nat \ {0}
      /\ maxexponent \in Int
  BY ShiftReaches
<1>3. /\ powers[k] \in Nat \ {0} /\ powers[j] \in Nat \ {0} /\ powers[Shift] \in Nat \ {0}
  BY <1>1, <1>2, PowerNumber
<1>4. Numbered(c, s, rest, lhs.coef, rhs.coef, powers[k], powers[j], powers[Shift])
  BY <1>1, <1>2, <1>3, Zenon DEF Numbered
<1>5. c < powers[reqdigits]
  <2>1. c \in Nat
    BY <1>1
  <2>2. c < powers[Digits(c)]
    BY <2>1, DigitsFacts
  <2> QED
    BY <1>1, <2>2
<1>6. e \in Int
  BY <1>1, <1>2
<1> QED
  BY <1>1, <1>2, <1>4, <1>5, <1>6

LEMMA NumberedFacts ==
    ASSUME NEW c, NEW s, NEW rest, NEW l, NEW r, NEW pk, NEW pj, NEW ps,
           Numbered(c, s, rest, l, r, pk, pj, ps)
    PROVE  /\ c \in Nat \ {0} /\ s \in 0..9 /\ rest \in Nat
           /\ l \in Nat \ {0} /\ r \in Nat \ {0}
           /\ pk \in Nat \ {0} /\ pj \in Nat \ {0} /\ ps \in Nat \ {0}
           /\ r * pk \in Nat \ {0} /\ rest < r * pk
           /\ (r * pk) * ps \in Nat \ {0} /\ rest * ps < (r * pk) * ps /\ rest * ps \in Nat
           /\ c * ((r * pk) * ps) + rest * ps = (l * ps) * pj
           /\ Tells(s, rest * ps, (r * pk) * ps)
<1>1. /\ c \in Nat \ {0} /\ s \in 0..9 /\ rest \in Nat
      /\ l \in Nat \ {0} /\ r \in Nat \ {0}
      /\ pk \in Nat \ {0} /\ pj \in Nat \ {0} /\ ps \in Nat \ {0}
  BY DEF Numbered
<1>2. PICK u \in Nat \ {0}, w \in Nat : u = r * pk /\ w = l * pj
  <2>1. r * pk \in Nat \ {0} /\ l * pj \in Nat
    BY <1>1
  <2> QED
    BY <2>1
<1>3. c * u + rest = w /\ Tells(s, rest, u)
  BY <1>2 DEF Numbered
<1>4. rest < u
  BY <1>1, <1>2, <1>3 DEF Tells
<1>5. rest * ps < u * ps /\ rest * ps \in Nat /\ u * ps \in Nat \ {0}
  <2>1. rest * ps < u * ps <=> rest < u
    BY <1>1, TimesKeepOrder
  <2>2. rest * ps \in Nat /\ u * ps \in Nat \ {0}
    BY <1>1
  <2> QED
    BY <1>4, <2>1, <2>2
<1>6. c * (u * ps) + rest * ps = (l * ps) * pj
  <2>1. PICK v \in Nat : v = c * u
    <3>1. c * u \in Nat
      BY <1>1
    <3> QED
      BY <3>1
  <2>2. (v + rest) * ps = v * ps + rest * ps /\ (c * u) * ps = c * (u * ps)
        /\ (l * pj) * ps = (l * ps) * pj
    BY <1>1
  <2>3. v + rest = w
    BY <1>3, <2>1
  <2>4. v * ps + rest * ps = (l * pj) * ps
    BY <1>2, <2>2, <2>3, Zenon
  <2> QED
    BY <2>1, <2>2, <2>4, Zenon
<1>7. Tells(s, rest * ps, u * ps)
  <2>1. rest \in Int /\ u \in Int
    BY <1>1
  <2>2. Tells(s, rest * ps, u * ps) <=> Tells(s, rest, u)
    BY <1>1, <2>1, TellsScaled
  <2> QED
    BY <1>3, <2>2
<1> QED
  BY <1>1, <1>2, <1>4, <1>5, <1>6, <1>7, Zenon

\* the reference goes on for at least one digit below the cut
LEMMA CutAbove ==
    ASSUME Known, BothFiniteNonZero, NEW c, NEW s, NEW rest, NEW k, NEW j, NEW e,
           CutTo(c, s, rest, k, j, e)
    PROVE  \E m \in Nat : k + Shift = j + 1 + m
<1>1. /\ k \in Nat /\ j \in Nat /\ Shift \in Nat /\ c < powers[reqdigits]
      /\ Numbered(c, s, rest, lhs.coef, rhs.coef, powers[k], powers[j], powers[Shift])
  BY CutNumbered
<1>2. PICK l, r, pk, pj, ps :
          /\ l = lhs.coef /\ r = rhs.coef /\ pk = powers[k] /\ pj = powers[j]
          /\ ps = powers[Shift]
          /\ Numbered(c, s, rest, l, r, pk, pj, ps)
  BY <1>1
<1>3. /\ c \in Nat \ {0} /\ rest \in Nat /\ l \in Nat \ {0} /\ r \in Nat \ {0}
      /\ pk \in Nat \ {0} /\ pj \in Nat \ {0} /\ ps \in Nat \ {0}
      /\ r * pk \in Nat \ {0} /\ rest < r * pk
  BY <1>2, NumberedFacts
<1>4. c * (r * pk) + rest = l * pj
  BY <1>2 DEF Numbered
<1>5. PICK pp \in Nat \ {0} : pp = powers[reqdigits] /\ c + 1 <= pp
                              /\ (10 * pp) * r <= l * ps
  <2>1. /\ reqdigits \in Nat \ {0}
        /\ powers[reqdigits + 1] * rhs.coef <= lhs.coef * powers[Shift]
    BY ShiftReaches
  <2>2. powers[reqdigits] \in Nat \ {0} /\ powers[reqdigits + 1] = 10 * powers[reqdigits]
    BY <2>1, PowerNumber, PowersFacts
  <2>3. (10 * powers[reqdigits]) * r <= l * ps
    BY <1>2, <2>1, <2>2
  <2>4. c + 1 <= powers[reqdigits]
    BY <1>1, <1>3, <2>2
  <2> QED
    BY <2>2, <2>3, <2>4
<1>6. SUFFICES ASSUME k + Shift <= j PROVE FALSE
  <2>1. CASE k + Shift <= j
    BY <1>6, <2>1
  <2>2. CASE j + 1 <= k + Shift
    <3>1. k + Shift - (j + 1) \in Nat /\ k + Shift = j + 1 + (k + Shift - (j + 1))
      BY <1>1, <2>2
    <3> QED
      BY <3>1
  <2> QED
    BY <1>1, <2>1, <2>2
<1>7. PICK x \in Nat \ {0} : pj = ps * x /\ pk <= x
  <2>1. PICK t \in Nat : j = Shift + (k + t)
    <3>1. j - k - Shift \in Nat /\ j = Shift + (k + (j - k - Shift))
      BY <1>1, <1>6
    <3> QED
      BY <3>1
  <2>2. k + t \in Nat /\ k <= k + t
    BY <1>1
  <2>3. powers[Shift + (k + t)] = powers[Shift] * powers[k + t]
    BY <1>1, <2>2, PowersSum
  <2>4. powers[k] <= powers[k + t] /\ powers[k + t] \in Nat \ {0}
    BY <1>1, <2>2, PowersGrow, PowerNumber
  <2> QED
    BY <1>2, <2>1, <2>3, <2>4
<1>8. PICK u \in Nat \ {0}, w \in Nat, v \in Nat : u = r * pk /\ w = l * ps /\ v = pp * u
                                                   /\ v # 0
  <2>1. r * pk \in Nat \ {0} /\ l * ps \in Nat
    BY <1>3
  <2>2. ASSUME NEW u \in Nat \ {0} PROVE pp * u \in Nat \ {0}
    OBVIOUS
  <2> QED
    BY <2>1, <2>2
<1>9. c * u + rest < v
  <2>1. (c + 1) * u <= pp * u /\ (c + 1) * u = c * u + u /\ c * u \in Nat
    <3>1. c + 1 \in Nat /\ u \in Nat /\ pp \in Nat
      BY <1>3
    <3>2. (c + 1) * u <= pp * u
      BY <1>5, <3>1, MulGrows
    <3>3. (c + 1) * u = c * u + u /\ c * u \in Nat
      BY <1>3
    <3> QED
      BY <3>2, <3>3
  <2>2. rest < u /\ pp * u = v
    BY <1>3, <1>8
  <2> QED
    BY <1>3, <2>1, <2>2
<1>10. l * pj = w * x
  <2>1. l * (ps * x) = (l * ps) * x
    BY <1>3
  <2> QED
    BY <1>7, <1>8, <2>1
<1>11. 10 * v <= w * x
  <2>1. PICK y \in Nat : y = (10 * pp) * r /\ y <= w
    <3>1. (10 * pp) * r \in Nat
      BY <1>3
    <3> QED
      BY <1>5, <1>8, <3>1
  <2>2. y * pk <= w * pk /\ w * pk <= w * x /\ y * pk \in Nat /\ w * pk \in Nat /\ w * x \in Nat
    <3>1. pk \in Nat /\ x \in Nat
      BY <1>3
    <3> QED
      BY <1>7, <2>1, <3>1, MulGrows
  <2>3. ((10 * pp) * r) * pk = 10 * (pp * (r * pk))
    BY <1>3
  <2>4. y * pk = 10 * v
    BY <1>8, <2>1, <2>3
  <2> QED
    BY <2>2, <2>4
<1>12. c * u + rest = w * x
  BY <1>4, <1>8, <1>10
<1>13. 10 * v < v
  BY <1>9, <1>11, <1>12
<1> QED
  BY <1>8, <1>13

\* a quotient that ends: the residue tells of its last digits
LEMMA CutEnds ==
    ASSUME Known, BothFiniteNonZero, Ends, NEW c, NEW s, NEW rest, NEW k, NEW j, NEW e,
           CutTo(c, s, rest, k, j, e)
    PROVE  /\ rest # 0 => ExactExp < e
           /\ ExactExp <= e => Pending(c, e, s, ExactCoef, ExactExp, set)
<1>1. /\ k \in Nat /\ j \in Nat /\ e = maxexponent + k - j /\ e \in Int
      /\ maxexponent \in Int /\ Shift \in Nat /\ Digits(c) = reqdigits
      /\ Numbered(c, s, rest, lhs.coef, rhs.coef, powers[k], powers[j], powers[Shift])
  BY CutNumbered
<1>2. PICK l, r, pk, pj, ps :
          /\ l = lhs.coef /\ r = rhs.coef /\ pk = powers[k] /\ pj = powers[j]
          /\ ps = powers[Shift]
          /\ Numbered(c, s, rest, l, r, pk, pj, ps)
  BY <1>1
<1>3. /\ c \in Nat \ {0} /\ s \in 0..9 /\ rest \in Nat /\ l \in Nat \ {0} /\ r \in Nat \ {0}
      /\ pk \in Nat \ {0} /\ pj \in Nat \ {0} /\ ps \in Nat \ {0}
      /\ (r * pk) * ps \in Nat \ {0} /\ rest * ps < (r * pk) * ps /\ rest * ps \in Nat
      /\ c * ((r * pk) * ps) + rest * ps = (l * ps) * pj
      /\ Tells(s, rest * ps, (r * pk) * ps)
  BY <1>2, NumberedFacts
<1>4. PICK z \in Nat, n \in Nat \ {0}, q \in Int :
          /\ z <= Shift /\ n = ExactCoef /\ q = ExactExp /\ q = maxexponent - Shift + z
          /\ (n * powers[z]) * r = l * ps
  <2>1. PICK z \in 0..Shift :
               /\ ExactCoef \in Nat \ {0} /\ ExactExp = maxexponent - Shift + z
               /\ ExactExp \in Int
               /\ (ExactCoef * powers[z]) * rhs.coef = lhs.coef * powers[Shift]
    BY EndsExact
  <2>2. z \in Nat /\ z <= Shift
    BY <1>1
  <2> QED
    BY <1>2, <2>1, <2>2
<1>5. PICK pz \in Nat \ {0} : pz = powers[z] /\ (n * pz) * r = l * ps
  BY <1>4, PowerNumber
<1>6. PICK u \in Nat \ {0}, f \in Nat : /\ u = (r * pk) * ps /\ f = rest * ps /\ f < u
                                        /\ c * u + f = (n * pz) * r * pj /\ Tells(s, f, u)
                                        /\ f = 0 <=> rest = 0
  <2>1. rest * ps = 0 * ps <=> rest = 0
    BY <1>3, TimesKeepOrder
  <2>2. 0 * ps = 0
    BY <1>3
  <2> QED
    BY <1>3, <1>5, <2>1, <2>2
<1>7. ASSUME rest # 0, e <= q PROVE FALSE
  <2>1. PICK t \in Nat : z + j = (k + Shift) + t
    <3>1. z + j - (k + Shift) \in Nat /\ z + j = (k + Shift) + (z + j - (k + Shift))
      BY <1>1, <1>4, <1>7
    <3> QED
      BY <3>1
  <2>2. PICK pt \in Nat \ {0} : pz * pj = (pk * ps) * pt
    <3>1. powers[z + j] = pz * pj /\ powers[k + Shift] = pk * ps
      BY <1>1, <1>2, <1>5, PowersSum
    <3>2. k + Shift \in Nat
      BY <1>1
    <3>3. powers[(k + Shift) + t] = powers[k + Shift] * powers[t]
      BY <3>2, PowersSum
    <3> QED
      BY <2>1, <3>1, <3>3, PowerNumber
  <2>3. (n * pz) * r * pj = (n * pt) * u
    <3>1. (n * pz) * r * pj = (n * r) * (pz * pj)
      BY <1>3
    <3>2. (n * r) * ((pk * ps) * pt) = (n * pt) * ((r * pk) * ps)
      BY <1>3
    <3> QED
      BY <1>6, <2>2, <3>1, <3>2, Zenon
  <2>4. PICK g \in Nat : g = n * pt /\ g * u + 0 = g * u
    <3>1. n * pt \in Nat
      OBVIOUS
    <3>2. (n * pt) * u + 0 = (n * pt) * u
      OBVIOUS
    <3> QED
      BY <3>1, <3>2
  <2>5. PICK v \in Nat : v = c * u + f /\ v = g * u + 0
    <3>1. c * u + f \in Nat
      BY <1>3
    <3>2. c * u + f = g * u + 0
      BY <1>6, <2>3, <2>4
    <3> QED
      BY <3>1, <3>2
  <2>6. c \in Nat /\ 0 \in Nat /\ 0 < u
    BY <1>3
  <2>7. v % u = f /\ v % u = 0
    BY <1>6, <2>5, <2>6, QuotientIs
  <2> QED
    BY <1>6, <1>7, <2>7
<1>8. ASSUME q <= e PROVE Pending(c, e, s, n, q, set)
  <2>1. PICK m \in Nat : m = e - q /\ k + Shift = (z + j) + m
    <3>1. e - q \in Nat /\ k + Shift = (z + j) + (e - q)
      BY <1>1, <1>4, <1>8
    <3> QED
      BY <3>1
  <2>2. PICK pm \in Nat \ {0} : pm = powers[m] /\ pk * ps = (pz * pj) * pm
    <3>1. powers[z + j] = pz * pj /\ powers[k + Shift] = pk * ps
      BY <1>1, <1>2, <1>5, PowersSum
    <3>2. z + j \in Nat
      BY <1>1
    <3>3. powers[(z + j) + m] = powers[z + j] * powers[m]
      BY <3>2, PowersSum
    <3> QED
      BY <2>1, <3>1, <3>3, PowerNumber
  <2>3. PICK w \in Nat \ {0} : w = r * (pz * pj)
    <3>1. r * (pz * pj) \in Nat \ {0}
      BY <1>3
    <3> QED
      BY <3>1
  <2>4. u = pm * w
    <3>1. (r * pk) * ps = r * (pk * ps) /\ r * ((pz * pj) * pm) = pm * (r * (pz * pj))
      BY <1>3
    <3> QED
      BY <1>6, <2>2, <2>3, <3>1, Zenon
  <2>5. (n * pz) * r * pj = n * w
    <3>1. (n * pz) * r * pj = n * (r * (pz * pj))
      BY <1>3
    <3> QED
      BY <2>3, <3>1, Zenon
  <2>6. PICK d \in Int : d = n - c * pm /\ f = d * w
    <3>1. c * (pm * w) = (c * pm) * w
      BY <1>3
    <3>2. PICK x \in Nat : x = c * pm
      <4>1. c * pm \in Nat
        BY <1>3
      <4> QED
        BY <4>1
    <3>3. x * w + f = n * w
      BY <1>6, <2>4, <2>5, <3>1, <3>2
    <3>4. (n - x) * w = n * w - x * w /\ n - x \in Int
      OBVIOUS
    <3>5. x * w \in Int /\ n * w \in Int
      OBVIOUS
    <3>6. f = (n - x) * w
      BY <3>3, <3>4, <3>5
    <3> QED
      BY <3>2, <3>4, <3>6
  <2>7. Tells(s, d, pm)
    <3>1. Tells(s, d * w, pm * w)
      BY <1>6, <2>4, <2>6, Zenon
    <3>2. pm \in Int
      OBVIOUS
    <3>3. Tells(s, d * w, pm * w) <=> Tells(s, d, pm)
      BY <1>3, <3>2, TellsScaled
    <3> QED
      BY <3>1, <3>3
  <2>8. Tells(s, n - c * powers[e - q], powers[e - q])
    BY <2>1, <2>2, <2>6, <2>7
  <2>9. Digits(c) = set.digits /\ Digits(c) <= set.digits /\ s \in -1..9
    BY <1>1, <1>3, ShiftReaches DEF reqdigits
  <2> QED
    BY <1>1, <1>3, <2>1, <2>8, <2>9 DEF Pending
<1>9. rest # 0 => q < e
  BY <1>1, <1>7
<1> QED
  BY <1>4, <1>8, <1>9

\* a quotient that does not: the digit 1 it ends in instead comes further down
LEMMA CutOff ==
    ASSUME Known, BothFiniteNonZero, ~Ends, NEW c, NEW s, NEW rest, NEW k, NEW j, NEW e,
           CutTo(c, s, rest, k, j, e)
    PROVE  ExactExp < e /\ Pending(c, e, s, ExactCoef, ExactExp, set)
<1>1. /\ k \in Nat /\ j \in Nat /\ e = maxexponent + k - j /\ e \in Int
      /\ maxexponent \in Int /\ Shift \in Nat /\ Digits(c) = reqdigits
      /\ Numbered(c, s, rest, lhs.coef, rhs.coef, powers[k], powers[j], powers[Shift])
  BY CutNumbered
<1>2. PICK l, r, pk, pj, ps :
          /\ l = lhs.coef /\ r = rhs.coef /\ pk = powers[k] /\ pj = powers[j]
          /\ ps = powers[Shift]
          /\ Numbered(c, s, rest, l, r, pk, pj, ps)
  BY <1>1
<1>3. /\ c \in Nat \ {0} /\ s \in 0..9 /\ rest \in Nat /\ l \in Nat \ {0} /\ r \in Nat \ {0}
      /\ pk \in Nat \ {0} /\ pj \in Nat \ {0} /\ ps \in Nat \ {0}
      /\ (r * pk) * ps \in Nat \ {0} /\ rest * ps < (r * pk) * ps /\ rest * ps \in Nat
      /\ c * ((r * pk) * ps) + rest * ps = (l * ps) * pj
      /\ Tells(s, rest * ps, (r * pk) * ps)
  BY <1>2, NumberedFacts
<1>4. PICK p \in Nat, f \in Nat \ {0} :
          /\ ExactCoef = 10 * p + 1 /\ ExactExp = maxexponent - Shift - 1 /\ ExactExp \in Int
          /\ f < r /\ p * r + f = l * ps
  BY <1>2, CutOffExact
<1>5. PICK m \in Nat : k + Shift = j + 1 + m
  BY CutAbove
<1>6. PICK pm \in Nat \ {0}, h \in Nat : /\ pm = powers[m] /\ h = 5 * pm
                                         /\ pk * ps = pj * (2 * h) /\ powers[m + 2] = 20 * h
  <2>1. /\ powers[k + Shift] = pk * ps /\ powers[j + (m + 1)] = pj * powers[m + 1]
        /\ powers[m + 1] = 10 * powers[m] /\ powers[(m + 1) + 1] = 10 * powers[m + 1]
        /\ powers[m] \in Nat \ {0}
    <3>1. powers[k + Shift] = pk * ps
      BY <1>1, <1>2, PowersSum
    <3>2. powers[j + (m + 1)] = pj * powers[m + 1]
      BY <1>1, <1>2, PowersSum
    <3>3. m + 1 \in Nat
      OBVIOUS
    <3>4. powers[m + 1] = 10 * powers[m] /\ powers[(m + 1) + 1] = 10 * powers[m + 1]
      BY <3>3, PowersFacts
    <3> QED
      BY <3>1, <3>2, <3>4, PowerNumber
  <2>2. k + Shift = j + (m + 1) /\ (m + 1) + 1 = m + 2
    BY <1>1, <1>5
  <2>3. PICK pm \in Nat \ {0}, h \in Nat : pm = powers[m] /\ h = 5 * pm
    BY <2>1
  <2>4. powers[m + 1] = 2 * h /\ powers[m + 2] = 20 * h
    BY <2>1, <2>2, <2>3
  <2> QED
    BY <2>1, <2>2, <2>3, <2>4
<1>7. PICK w \in Nat \ {0}, hr \in Nat : /\ w = r * pj /\ hr = (2 * h) * r
                                         /\ (r * pk) * ps = hr * pj
  <2>1. r * pj \in Nat \ {0} /\ (2 * h) * r \in Nat
    BY <1>3
  <2>2. (r * pk) * ps = r * (pk * ps) /\ r * (pj * (2 * h)) = ((2 * h) * r) * pj
    BY <1>3
  <2> QED
    BY <1>6, <2>1, <2>2, Zenon
<1>8. PICK d \in Int : d = p - c * (2 * h) /\ (d * r + f) * pj = rest * ps
  <2>1. PICK x \in Nat : x = c * (2 * h)
    <3>1. c * (2 * h) \in Nat
      BY <1>3
    <3> QED
      BY <3>1
  <2>2. c * (hr * pj) = (x * r) * pj
    <3>1. c * (((2 * h) * r) * pj) = ((c * (2 * h)) * r) * pj
      BY <1>3
    <3> QED
      BY <1>7, <2>1, <3>1, Zenon
  <2>3. (x * r) * pj + rest * ps = (p * r + f) * pj
    BY <1>3, <1>4, <1>7, <2>2, Zenon
  <2>4. ((p - x) * r + f) * pj = (p * r + f) * pj - (x * r) * pj
    <3>1. PICK a \in Int, b \in Int : a = p * r /\ b = x * r /\ (p - x) * r = a - b
      <4>1. p * r \in Int /\ x * r \in Int /\ (p - x) * r = p * r - x * r
        BY <1>3
      <4> QED
        BY <4>1
    <3>2. (a - b + f) * pj = (a + f) * pj - b * pj
      BY <1>3
    <3> QED
      BY <3>1, <3>2
  <2>5. (x * r) * pj \in Int /\ (p * r + f) * pj \in Int /\ rest * ps \in Int
    BY <1>3
  <2>6. ((p - x) * r + f) * pj = rest * ps
    BY <2>3, <2>4, <2>5
  <2> QED
    BY <2>1, <2>6
<1>9. Tells(s, d * r + f, (2 * h) * r)
  <2>1. PICK y \in Int : y = d * r + f
    <3>1. d * r + f \in Int
      BY <1>3
    <3> QED
      BY <3>1
  <2>2. Tells(s, y * pj, hr * pj)
    BY <1>3, <1>7, <1>8, <2>1, Zenon
  <2>3. hr \in Int
    OBVIOUS
  <2>4. Tells(s, y * pj, hr * pj) <=> Tells(s, y, hr)
    BY <1>3, <2>3, TellsScaled
  <2> QED
    BY <1>7, <2>1, <2>2, <2>4, Zenon
<1>10. Tells(s, 10 * d + 1, 20 * h)
  BY <1>3, <1>4, <1>9, TellsFurther
<1>11. PICK q \in Int : q = ExactExp /\ e - q = m + 2
  BY <1>1, <1>4, <1>5
<1>12. ExactCoef - c * powers[e - q] = 10 * d + 1
  <2>1. PICK y \in Int : y = c * h
    <3>1. c * h \in Int
      BY <1>3
    <3> QED
      BY <3>1
  <2>2. c * (2 * h) = 2 * y /\ c * (20 * h) = 20 * y
    BY <1>3, <2>1
  <2> QED
    BY <1>4, <1>6, <1>8, <1>11, <2>2
<1>13. Tells(s, ExactCoef - c * powers[e - q], powers[e - q])
  BY <1>6, <1>10, <1>11, <1>12, Zenon
<1>14. Digits(c) = set.digits /\ Digits(c) <= set.digits /\ s \in -1..9
       /\ ExactCoef \in Nat \ {0} /\ e - q \in Nat
  BY <1>1, <1>3, <1>4, <1>11, ShiftReaches DEF reqdigits
<1> QED
  BY <1>1, <1>3, <1>11, <1>13, <1>14 DEF Pending

(***************************************************************************)
(* What decSetCoeff makes of the accumulated digits.                       *)
(***************************************************************************)
LEMMA ExactExpAtMost ==
    ASSUME Known, BothFiniteNonZero
    PROVE  /\ ExactCoef \in Nat \ {0} /\ ExactExp \in Int
           /\ maxexponent \in Int /\ ExactExp <= maxexponent
<1>1. Shift \in Nat /\ maxexponent \in Int
  BY ShiftReaches
<1>2. CASE Ends
  <2>1. PICK z \in 0..Shift :
               /\ ExactCoef \in Nat \ {0} /\ ExactExp = maxexponent - Shift + z
               /\ ExactExp \in Int
    BY <1>2, EndsExact
  <2> QED
    BY <1>1, <2>1
<1>3. CASE ~Ends
  <2>1. PICK q \in Nat : /\ ExactCoef = 10 * q + 1 /\ ExactExp = maxexponent - Shift - 1
                         /\ ExactExp \in Int
    BY <1>3, CutOffExact
  <2> QED
    BY <1>1, <2>1
<1> QED
  BY <1>2, <1>3

LEMMA CutDue ==
    ASSUME Known, BothFiniteNonZero, Defined, Dividing,
           NEW c, NEW s, NEW rest, NEW k, NEW j, NEW e, CutTo(c, s, rest, k, j, e),
           rest # 0 \/ ExactExp < e,
           NEW w, w = Work(Finite(sign, c, e), s, CutFlags({}, s)), ToFinish(w)
    PROVE  IInv'
<1>1. PICK n \in Nat \ {0}, q \in Int : n = ExactCoef /\ q = ExactExp
  BY ExactExpAtMost
<1>2. q < e /\ Pending(c, e, s, n, q, set)
  <2>1. CASE Ends
    <3>1. /\ rest # 0 => ExactExp < e
          /\ ExactExp <= e => Pending(c, e, s, ExactCoef, ExactExp, set)
      BY <2>1, CutEnds
    <3>2. e \in Int
      BY CutNumbered
    <3> QED
      BY <1>1, <3>1, <3>2
  <2>2. CASE ~Ends
    <3>1. ExactExp < e /\ Pending(c, e, s, ExactCoef, ExactExp, set)
      BY <2>2, CutOff
    <3> QED
      BY <1>1, <3>1
  <2> QED
    BY <2>1, <2>2
<1>3. CutFlags({}, s) = Lost(e > q, s)
  <2>1. e > q
    <3>1. e \in Int
      BY CutNumbered
    <3> QED
      BY <1>2, <3>1
  <2>2. PICK cut \in BOOLEAN : (cut <=> e > q) /\ cut
    <3>1. PICK cut \in BOOLEAN : cut <=> e > q
      OBVIOUS
    <3> QED
      BY <2>1, <3>1
  <2> QED
    BY <2>2, LostIs
<1>4. s >= 0
  BY DEF CutTo
<1>5. sign \in BOOLEAN
  BY KnownFacts
<1>6. w.dn = Finite(sign, c, e) /\ w.residue = s /\ w.status = Lost(e > q, s)
  BY <1>3, WorkFields
<1>7. Carries(w.dn, w.residue, w.status, sign, n, q, set) /\ w.residue >= 0
  <2>1. Carries(Finite(sign, c, e), s, Lost(e > q, s), sign, n, q, set)
    BY <1>2, <1>5 DEF Carries
  <2> QED
    BY <1>4, <1>6, <2>1
<1>8. Due(sign, n, q)
  <2>1. op # "DIVIDEINT" /\ ~IsRemainder
    BY DEF Dividing, IsRemainder
  <2> QED
    BY <1>1, <2>1 DEF Due
<1> QED
  BY <1>7, <1>8, FinishDue

\* more digits than the precision, and what is left of the dividend
Over(b, r, v, i, j, unit, e) ==
    /\ Digits(b) > reqdigits /\ unit = rhs.coef * powers[i]
    /\ b * unit + v = lhs.coef * powers[j] /\ v < unit /\ (v = 0 <=> r = 0)
    /\ e = maxexponent + i - j

CutDown(neg, b, r, v, j, e) ==
    \E c, s, rest, k : \E discard \in Nat \ {0} :
        /\ SetCoeff(Work(Finite(neg, b, e), r, {}), set)
               = Work(Finite(neg, c, e + discard), s, CutFlags({}, s))
        /\ CutTo(c, s, rest, k, j, e + discard)
        /\ rest = 0 => v = 0 /\ b % 10 = 0

LEMMA CutBelow ==
    ASSUME Known, BothFiniteNonZero, NEW neg \in BOOLEAN, NEW b \in Nat, NEW r \in 0..1,
           NEW v \in Nat, NEW i \in Nat, NEW j \in Nat, NEW unit \in Nat \ {0}, NEW e \in Int,
           Over(b, r, v, i, j, unit, e)
    PROVE  CutDown(neg, b, r, v, j, e)
<1>o. /\ Digits(b) > reqdigits /\ v < unit /\ (v = 0 <=> r = 0)
      /\ e = maxexponent + i - j
  BY DEF Over
<1>u. unit = rhs.coef * powers[i] /\ b * unit + v = lhs.coef * powers[j]
  BY DEF Over
<1>1. PICK p \in Nat \ {0}, d \in Nat \ {0}, discard \in Nat \ {0} :
          /\ p = reqdigits /\ p = set.digits /\ d = Digits(b) /\ discard = d - p /\ d = p + discard
  <2>1. reqdigits \in Nat \ {0} /\ reqdigits = set.digits
    BY ShiftReaches DEF reqdigits
  <2>2. Digits(b) \in Nat \ {0}
    BY DigitsFacts
  <2>3. Digits(b) - reqdigits \in Nat \ {0}
        /\ Digits(b) = reqdigits + (Digits(b) - reqdigits)
    BY <1>o, <2>1, <2>2
  <2> QED
    BY <2>1, <2>2, <2>3, Zenon
<1>2. b # 0
  <2>1. b = 0 => Digits(b) = 1
    BY DigitsFacts
  <2> QED
    BY <1>o, <1>1, <2>1
<1>3. PICK u \in Nat \ {0} : u = powers[discard]
  BY PowerNumber
<1>4. CutBy(b, r, v, unit, discard, set)
  <2>1. Near(r, v, unit, powers[discard] * unit)
    BY <1>o DEF Near
  <2> QED
    BY <1>1, <1>2, <2>1 DEF CutBy
<1>5. PICK s \in -1..9 :
          /\ SetCoeff(Work(Finite(neg, b, e), r, {}), set)
                 = Work(Finite(neg, b \div powers[discard], e + discard), s, CutFlags({}, s))
          /\ Tells(s, (b % powers[discard]) * unit + v, powers[discard] * unit)
  BY <1>4, SetCoeffCuts
<1>6. PICK c \in Nat, low \in Nat : c = b \div u /\ low = b % u /\ b = c * u + low
  <2>1. /\ b \div u \in Nat /\ b % u \in Nat /\ b % u < u
        /\ b = (b \div u) * u + (b % u)
    BY Euclid
  <2> QED
    BY <2>1, Zenon
<1>7. c # 0 /\ Digits(c) = reqdigits
  <2>1. discard < d /\ d - discard = p
    BY <1>1
  <2>2. Digits(b \div powers[discard]) = d - discard /\ b \div powers[discard] # 0
    BY <1>1, <1>2, <2>1, DigitsCut
  <2> QED
    BY <1>1, <1>3, <1>6, <2>1, <2>2
<1>8. PICK rest \in Nat : rest = low * unit + v /\ (rest = 0 => low = 0 /\ v = 0)
  <2>1. PICK y \in Nat : y = low * unit /\ (y = 0 => low = 0)
    <3>1. low * unit \in Nat
      OBVIOUS
    <3>2. low * unit = 0 * unit <=> low = 0
      BY TimesKeepOrder
    <3>3. 0 * unit = 0
      OBVIOUS
    <3> QED
      BY <3>1, <3>2, <3>3
  <2> QED
    BY <2>1
<1>9. c * (u * unit) + rest = lhs.coef * powers[j]
  <2>1. (c * u + low) * unit = c * (u * unit) + low * unit
    OBVIOUS
  <2>2. c * (u * unit) \in Nat /\ low * unit \in Nat
    OBVIOUS
  <2>3. b * unit = c * (u * unit) + low * unit
    BY <1>6, <2>1, Zenon
  <2>4. PICK total : total = lhs.coef * powers[j] /\ b * unit + v = total
    BY <1>u
  <2>5. c * (u * unit) + rest = total
    BY <1>8, <2>2, <2>3, <2>4
  <2> QED
    BY <2>4, <2>5
<1>10. u * unit = rhs.coef * powers[i + discard]
  <2>1. powers[i + discard] = powers[i] * powers[discard]
    BY PowersSum
  <2>2. PICK x \in Nat, y \in Nat : x = rhs.coef /\ y = powers[i] /\ unit = x * y
    <3>1. rhs.coef \in Nat /\ powers[i] \in Nat
      BY ShiftReaches, PowerNumber
    <3> QED
      BY <1>u, <3>1, Zenon
  <2>3. u * (x * y) = x * (y * u)
    OBVIOUS
  <2> QED
    BY <1>3, <2>1, <2>2, <2>3, Zenon
<1>11. Tells(s, rest, u * unit) /\ s \in 0..9
  <2>1. Tells(s, rest, u * unit)
    BY <1>3, <1>5, <1>6, <1>8, Zenon
  <2>2. s # -1
    BY <1>8, <2>1 DEF Tells
  <2>3. s \in 0..9
    BY <1>5, <2>2
  <2> QED
    BY <2>1, <2>3
<1>12. e + discard = maxexponent + (i + discard) - j /\ i + discard \in Nat
  BY <1>o, ShiftReaches
<1>13. CutTo(c, s, rest, i + discard, j, e + discard)
  <2>1. c * (rhs.coef * powers[i + discard]) + rest = lhs.coef * powers[j]
    BY <1>9, <1>10, Zenon
  <2>2. Tells(s, rest, rhs.coef * powers[i + discard])
    BY <1>10, <1>11, Zenon
  <2>3. c \in Nat \ {0}
    BY <1>7
  <2> QED
    BY <1>7, <1>8, <1>11, <1>12, <2>1, <2>2, <2>3, Zenon DEF CutTo
<1>14. rest = 0 => v = 0 /\ b % 10 = 0
  <2>1. ASSUME low = 0 PROVE b % 10 = 0
    <3>1. PICK t \in Nat : u = 10 * t
      <4>1. powers[discard] = 10 * powers[discard - 1] /\ powers[discard - 1] \in Nat
        BY PowersStep
      <4> QED
        BY <1>3, <4>1
    <3>2. b = (c * t) * 10 + 0 /\ c * t \in Nat
      <4>1. c * (10 * t) = (c * t) * 10 /\ c * t \in Nat /\ (c * t) * 10 \in Nat
        OBVIOUS
      <4>2. c * u = (c * t) * 10
        BY <3>1, <4>1
      <4> QED
        BY <1>6, <2>1, <4>1, <4>2
    <3>3. 0 \in Nat /\ 0 < 10 /\ 10 \in Nat \ {0}
      OBVIOUS
    <3> QED
      BY <3>2, <3>3, QuotientIs
  <2> QED
    BY <1>8, <2>1
<1> QED
  <2>1. SetCoeff(Work(Finite(neg, b, e), r, {}), set)
            = Work(Finite(neg, c, e + discard), s, CutFlags({}, s))
    BY <1>3, <1>5, <1>6
  <2> QED
    BY <1>13, <1>14, <2>1 DEF CutDown

\* a quotient that fits, without zeros to spare, is the reference itself
Fitting(b, g) ==
    /\ b * rhs.coef = lhs.coef * powers[g] /\ Digits(b) <= reqdigits
    /\ g = 0 \/ b % 10 # 0

LEMMA FittingExact ==
    ASSUME Known, BothFiniteNonZero, NEW b \in Nat \ {0}, NEW g \in Nat, Fitting(b, g)
    PROVE  ExactCoef = b /\ ExactExp = maxexponent - g
<1>1. PICK s \in Nat, l \in Nat \ {0}, r \in Nat \ {0} :
          s = Shift /\ l = lhs.coef /\ r = rhs.coef /\ maxexponent \in Int
  BY ShiftReaches
<1>2. b * r = l * powers[g] /\ Digits(b) <= reqdigits /\ (g = 0 \/ b % 10 # 0)
  BY <1>1 DEF Fitting
<1>3. PICK ps \in Nat \ {0}, pg \in Nat \ {0}, pp \in Nat \ {0} :
          /\ ps = powers[s] /\ pg = powers[g] /\ pp = powers[reqdigits]
          /\ (10 * pp) * r <= l * ps /\ b < pp
  <2>1. /\ reqdigits \in Nat \ {0}
        /\ powers[reqdigits + 1] * rhs.coef <= lhs.coef * powers[Shift]
    BY ShiftReaches
  <2>2. /\ powers[reqdigits] \in Nat \ {0} /\ powers[s] \in Nat \ {0} /\ powers[g] \in Nat \ {0}
        /\ powers[reqdigits + 1] = 10 * powers[reqdigits]
    BY <2>1, PowerNumber, PowersFacts
  <2>3. (10 * powers[reqdigits]) * r <= l * powers[s]
    BY <1>1, <2>1, <2>2
  <2>4. b < powers[reqdigits]
    BY <1>2, <2>1, DigitsAtMost
  <2> QED
    BY <2>2, <2>3, <2>4
<1>4. PICK br \in Nat, ls \in Nat : br = b * r /\ ls = l * ps
  <2>1. b * r \in Nat /\ l * ps \in Nat
    OBVIOUS
  <2> QED
    BY <2>1
<1>5. g <= s
  <2>1. SUFFICES ASSUME s < g PROVE FALSE
    OBVIOUS
  <2>2. ps <= pg
    BY <1>3, <2>1, PowersGrow
  <2>3. l * ps <= l * pg
    BY <2>2, MulGrows
  <2>4. b * r <= pp * r /\ (10 * pp) * r = 10 * (pp * r) /\ pp * r \in Nat \ {0}
    <3>1. b <= pp /\ b \in Nat /\ pp \in Nat /\ r \in Nat
      BY <1>3
    <3>2. b * r <= pp * r
      BY <3>1, MulGrows
    <3>3. (10 * pp) * r = 10 * (pp * r) /\ pp * r \in Nat \ {0}
      OBVIOUS
    <3> QED
      BY <3>2, <3>3
  <2>5. br = l * pg
    BY <1>2, <1>3, <1>4
  <2>6. PICK pr \in Nat \ {0} : pr = pp * r
    BY <2>4
  <2>7. br <= pr /\ 10 * pr <= ls /\ ls <= br
    BY <1>3, <1>4, <2>3, <2>4, <2>5, <2>6
  <2> QED
    BY <2>7
<1>6. PICK x \in Nat : s = g + x /\ x <= s
  <2>1. s - g \in Nat /\ s = g + (s - g) /\ s - g <= s
    BY <1>5
  <2> QED
    BY <2>1
<1>7. PICK px \in Nat \ {0} : px = powers[x] /\ ps = pg * px
  <2>1. powers[g + x] = powers[g] * powers[x]
    BY PowersSum
  <2> QED
    BY <1>3, <1>6, <2>1, PowerNumber
<1>8. ls = (b * px) * r
  <2>1. (b * r) * px = (b * px) * r /\ (l * pg) * px = l * (pg * px)
    OBVIOUS
  <2>2. b * r = l * pg
    BY <1>2, <1>3
  <2>3. l * (pg * px) = (b * px) * r
    BY <2>1, <2>2, Zenon
  <2> QED
    BY <1>4, <1>7, <2>3, Zenon
<1>9. Ends
  <2>1. PICK y \in Nat : y = b * px
    <3>1. b * px \in Nat
      OBVIOUS
    <3> QED
      BY <3>1
  <2>2. ls = y * r + 0 /\ 0 < r /\ 0 \in Nat
    <3>1. y * r + 0 = y * r
      OBVIOUS
    <3> QED
      BY <1>8, <2>1, <3>1
  <2>3. ls % r = 0
    BY <2>2, QuotientIs
  <2> QED
    BY <1>1, <1>3, <1>4, <2>3 DEF Ends
<1>10. PICK z \in Nat, n \in Nat \ {0} :
           /\ z <= s /\ n = ExactCoef /\ ExactExp = maxexponent - s + z
           /\ (n * powers[z]) * r = ls /\ (z = s \/ n % 10 # 0)
  <2>1. PICK z \in 0..Shift :
               /\ ExactCoef \in Nat \ {0} /\ ExactExp = maxexponent - Shift + z
               /\ (ExactCoef * powers[z]) * rhs.coef = lhs.coef * powers[Shift]
               /\ z = Shift \/ ExactCoef % 10 # 0
    BY <1>9, EndsExact
  <2>2. z \in Nat /\ z <= s
    BY <1>1
  <2>3. (ExactCoef * powers[z]) * r = ls
    BY <1>1, <1>3, <1>4, <2>1
  <2> QED
    BY <1>1, <2>1, <2>2, <2>3
<1>11. n * powers[z] = b * powers[x]
  <2>1. powers[z] \in Nat \ {0}
    BY PowerNumber
  <2>2. n * powers[z] \in Nat /\ b * px \in Nat
    BY <2>1
  <2>3. (n * powers[z]) * r = (b * px) * r
    BY <1>8, <1>10
  <2>4. n * powers[z] = b * px
    BY <2>2, <2>3, SameTimes
  <2> QED
    BY <1>7, <2>4
<1>12. ASSUME NEW a1 \in Nat, NEW a2 \in Nat, NEW z1 \in Nat, NEW z2 \in Nat,
              a1 * powers[z1] = a2 * powers[z2], z1 < z2
       PROVE  a1 % 10 = 0
  <2>1. PICK t \in Nat : z2 = t + 1 + z1
    <3>1. z2 - z1 - 1 \in Nat /\ z2 = (z2 - z1 - 1) + 1 + z1
      BY <1>12
    <3> QED
      BY <3>1
  <2>2. PICK pt \in Nat, p1 \in Nat \ {0} :
            /\ p1 = powers[z1] /\ powers[z2] = (10 * pt) * p1
    <3>1. /\ powers[(t + 1) + z1] = powers[t + 1] * powers[z1]
          /\ powers[t + 1] = 10 * powers[t] /\ powers[t] \in Nat \ {0}
          /\ powers[z1] \in Nat \ {0}
      <4>1. t + 1 \in Nat
        OBVIOUS
      <4> QED
        BY <4>1, PowersSum, PowersFacts, PowerNumber
    <3> QED
      BY <2>1, <3>1
  <2>3. a1 = (a2 * pt) * 10 + 0 /\ a2 * pt \in Nat
    <3>1. a2 * ((10 * pt) * p1) = ((a2 * pt) * 10) * p1
      OBVIOUS
    <3>2. a1 * p1 = ((a2 * pt) * 10) * p1
      BY <1>12, <2>2, <3>1, Zenon
    <3>3. (a2 * pt) * 10 \in Nat /\ a2 * pt \in Nat
      OBVIOUS
    <3>4. a1 = (a2 * pt) * 10
      BY <3>2, <3>3, SameTimes
    <3> QED
      BY <3>3, <3>4
  <2>4. 0 \in Nat /\ 0 < 10 /\ 10 \in Nat \ {0}
    OBVIOUS
  <2> QED
    BY <2>3, <2>4, QuotientIs
<1>13. z = x
  <2>1. CASE z < x
    <3>1. n \in Nat /\ b \in Nat
      OBVIOUS
    <3>2. n % 10 = 0
      BY <1>11, <1>12, <2>1, <3>1
    <3> QED
      BY <1>6, <1>10, <2>1, <3>2
  <2>2. CASE x < z
    <3>1. n \in Nat /\ b \in Nat /\ b * powers[x] = n * powers[z]
      BY <1>11
    <3>2. b % 10 = 0
      BY <1>12, <2>2, <3>1
    <3> QED
      BY <1>2, <1>6, <1>10, <2>2, <3>2
  <2> QED
    BY <2>1, <2>2
<1>14. n = b
  <2>1. n \in Nat /\ b \in Nat /\ powers[x] \in Nat \ {0}
    BY PowerNumber
  <2> QED
    BY <1>11, <1>13, <2>1, SameTimes
<1>15. maxexponent - s + z = maxexponent - g
  BY <1>1, <1>6, <1>13
<1> QED
  BY <1>10, <1>14, <1>15

(***************************************************************************)
(* The zeros that are dropped from the last Unit of an exact quotient.     *)
(***************************************************************************)
Droppable(d, n, room) ==
    /\ d = 0 \/ (d <= room /\ n % powers[d] = 0)
    /\ d >= room \/ n % powers[d + 1] # 0

LEMMA DropExists ==
    ASSUME NEW n \in Nat \ {0}, n < Base, NEW room \in Int
    PROVE  \E d \in 0..DPUN : Droppable(d, n, room)
<1>1. CASE room <= 0
  <2>1. 0 \in 0..DPUN /\ 0 >= room
    BY <1>1, DPUNRange
  <2> QED
    BY <2>1 DEF Droppable
<1>2. CASE room > 0
  <2> DEFINE T == {x \in Nat : n % powers[x + 1] # 0}
  <2>1. DPUN - 1 \in Nat /\ (DPUN - 1) + 1 = DPUN
    BY DPUNRange
  <2>2. DPUN - 1 \in T
    <3>1. PICK b \in Nat \ {0} : b = Base /\ b = powers[DPUN]
      BY BaseFacts
    <3>2. n = 0 * b + n /\ 0 \in Nat /\ n \in Nat /\ n < b
      <4>1. 0 * b = 0
        OBVIOUS
      <4> QED
        BY <3>1, <4>1
    <3>3. n % b = n
      BY <3>2, QuotientIs
    <3> QED
      BY <2>1, <3>1, <3>3
  <2>3. PICK x \in T : \A y \in T : x <= y
    <3>1. T \subseteq Nat /\ T # {}
      BY <2>2
    <3> HIDE DEF T
    <3> QED
      BY <3>1, Least
  <2>4. x \in Nat /\ x <= DPUN - 1 /\ n % powers[x + 1] # 0
    BY <2>2, <2>3
  <2>5. ASSUME NEW d \in Nat, d <= x, d # 0 PROVE n % powers[d] = 0
    <3>1. d - 1 \in Nat /\ (d - 1) + 1 = d
      BY <2>5
    <3>2. d - 1 \notin T
      <4>1. ~(x <= d - 1)
        BY <2>4, <2>5
      <4> QED
        BY <2>3, <4>1
    <3> QED
      BY <3>1, <3>2
  <2>6. CASE x <= room
    <3>1. x = 0 \/ n % powers[x] = 0
      BY <2>4, <2>5
    <3>2. x \in 0..DPUN
      BY <2>4, DPUNRange
    <3> QED
      BY <2>4, <2>6, <3>1, <3>2 DEF Droppable
  <2>7. CASE room < x
    <3>1. room \in Nat /\ room # 0 /\ room <= x /\ room >= room
      BY <1>2, <2>4, <2>7
    <3>2. n % powers[room] = 0
      BY <2>5, <3>1
    <3>3. room \in 0..DPUN
      BY <2>4, <2>7, <3>1, DPUNRange
    <3> QED
      BY <3>1, <3>2, <3>3 DEF Droppable
  <2> QED
    BY <2>4, <2>6, <2>7
<1> QED
  BY <1>1, <1>2

LEMMA DropIs ==
    ASSUME Known, exponent < maxexponent => acc % Base # 0
    PROVE  \E d \in Nat, b \in Nat :
               /\ Drop = d /\ acc \div powers[d] = b /\ acc = b * powers[d]
               /\ d # 0 => exponent + d <= maxexponent
               /\ exponent + d >= maxexponent \/ b % 10 # 0
<1>1. PICK a \in Nat, base \in Nat \ {0}, e \in Int, m \in Int :
          /\ a = acc /\ base = Base /\ base = powers[DPUN] /\ e = exponent /\ m = maxexponent
          /\ (e < m => a % base # 0)
  <2>1. acc \in Nat /\ exponent \in Int /\ maxexponent \in Int
    BY KnownFacts DEF Known, TypeOK
  <2>2. Base \in Nat \ {0}
    BY BaseFacts
  <2> QED
    BY <2>1, <2>2, BaseFacts
<1>2. PICK lsu \in Nat : lsu = a % base /\ lsu < base
  BY Euclid
<1>3. CASE lsu = 0
  <2>1. Drop = 0
    BY <1>1, <1>2, <1>3 DEF Drop
  <2>2. a \div powers[0] = a /\ a = a * powers[0] /\ e + 0 >= m
    <3>1. powers[0] = 1 /\ a \div 1 = a /\ a * 1 = a
      BY PowersFacts
    <3>2. e + 0 >= m
      BY <1>1, <1>2, <1>3
    <3> QED
      BY <3>1, <3>2
  <2> QED
    BY <1>1, <2>1, <2>2
<1>4. CASE lsu # 0
  <2>1. PICK room \in Int : room = m - e
    OBVIOUS
  <2>2. \E d \in 0..DPUN : Droppable(d, lsu, room)
    BY <1>1, <1>2, <1>4, DropExists
  <2>3. Drop = CHOOSE d \in 0..DPUN : Droppable(d, lsu, room)
    BY <1>1, <1>2, <1>4, <2>1, Zenon DEF Drop, Droppable
  <2>4. PICK d \in 0..DPUN : d = Drop /\ Droppable(d, lsu, room)
    BY <2>2, <2>3, Zenon
  <2>5. /\ d = 0 \/ (d <= room /\ lsu % powers[d] = 0)
        /\ d >= room \/ lsu % powers[d + 1] # 0
        /\ d \in Nat /\ d <= DPUN
    BY <2>4, DPUNRange DEF Droppable
  <2>6. ASSUME NEW x \in Nat, x <= DPUN PROVE lsu % powers[x] = a % powers[x]
    <3>1. PICK y \in Nat : DPUN = x + y
      <4>1. DPUN - x \in Nat /\ DPUN = x + (DPUN - x)
        BY <2>6, DPUNRange
      <4> QED
        BY <4>1
    <3>2. PICK px \in Nat \ {0}, py \in Nat \ {0} : px = powers[x] /\ py = powers[y] /\ base = py * px
      <4>1. powers[x + y] = powers[x] * powers[y] /\ powers[x] \in Nat \ {0} /\ powers[y] \in Nat \ {0}
        BY PowersSum, PowerNumber
      <4>2. powers[x] * powers[y] = powers[y] * powers[x]
        BY <4>1
      <4> QED
        BY <1>1, <3>1, <4>1, <4>2
    <3>3. a % (py * px) = ((a \div px) % py) * px + (a % px)
      BY QuotientTwice
    <3>4. a \div px \in Nat /\ a % px \in Nat /\ a % px < px
      BY Euclid
    <3>5. (a \div px) % py \in Nat
      BY <3>4, Euclid
    <3>6. PICK k \in Nat, f \in Nat : k = (a \div px) % py /\ f = a % px /\ f < px
      BY <3>4, <3>5
    <3>7. lsu = k * px + f
      BY <1>2, <3>2, <3>3, <3>6, Zenon
    <3>8. lsu % px = f
      BY <3>6, <3>7, QuotientIs
    <3> QED
      BY <3>2, <3>6, <3>8
  <2>7. PICK pd \in Nat \ {0} : pd = powers[d] /\ powers[d + 1] = 10 * pd
    BY <2>5, PowerNumber, PowersFacts
  <2>8. PICK b \in Nat : b = a \div pd /\ a = b * pd
    <3>1. /\ a \div pd \in Nat /\ a % pd \in Nat /\ a % pd < pd
          /\ a = (a \div pd) * pd + (a % pd)
      BY Euclid
    <3>2. a % pd = 0
      <4>1. CASE d = 0
        <5>1. pd = 1
          BY <2>7, <4>1, PowersFacts
        <5> QED
          BY <3>1, <5>1
      <4>2. CASE d # 0
        <5>1. lsu % powers[d] = a % powers[d]
          BY <2>5, <2>6
        <5> QED
          BY <2>5, <2>7, <4>2, <5>1
      <4> QED
        BY <4>1, <4>2
    <3>3. (a \div pd) * pd + 0 = (a \div pd) * pd
      BY <3>1
    <3>4. a = (a \div pd) * pd
      BY <3>1, <3>2, <3>3, Zenon
    <3> QED
      BY <3>1, <3>4, Zenon
  <2>9. d # 0 => e + d <= m
    BY <2>1, <2>5
  <2>10. e + d >= m \/ b % 10 # 0
    <3>1. SUFFICES ASSUME d < room, b % 10 = 0 PROVE FALSE
      BY <2>1, <2>5
    <3>2. lsu % powers[d + 1] # 0
      BY <2>5, <3>1
    <3>3. d + 1 <= DPUN
      <4>1. SUFFICES ASSUME d = DPUN PROVE FALSE
        BY <2>5, DPUNRange
      <4>2. lsu % base = 0
        BY <1>1, <2>5, <4>1, DPUNRange
      <4>3. lsu = 0 * base + lsu /\ 0 \in Nat
        <5>1. 0 * base = 0
          OBVIOUS
        <5> QED
          BY <5>1
      <4>4. lsu % base = lsu
        BY <1>2, <4>3, QuotientIs
      <4> QED
        BY <1>4, <4>2, <4>4
    <3>4. a % powers[d + 1] = 0
      <4>1. PICK k \in Nat : b = 10 * k
        <5>1. b \div 10 \in Nat /\ b = 10 * (b \div 10)
          BY <3>1
        <5> QED
          BY <5>1
      <4>2. a = k * (10 * pd) + 0
        <5>1. (10 * k) * pd = k * (10 * pd) /\ k * (10 * pd) + 0 = k * (10 * pd)
          OBVIOUS
        <5> QED
          BY <2>8, <4>1, <5>1
      <4>3. 0 < 10 * pd /\ 0 \in Nat /\ 10 * pd \in Nat \ {0}
        OBVIOUS
      <4>4. a % (10 * pd) = 0
        BY <4>2, <4>3, QuotientIs
      <4> QED
        BY <2>7, <4>4
    <3>5. d + 1 \in Nat
      BY <2>5
    <3> QED
      BY <2>6, <3>2, <3>3, <3>4, <3>5
  <2> QED
    BY <1>1, <2>4, <2>5, <2>7, <2>8, <2>9, <2>10
<1> QED
  BY <1>3, <1>4

LEMMA PlacesAre ==
    ASSUME Known, Underway
    PROVE  \E i \in Nat, j \in Nat :
               /\ Block = rhs.coef * powers[i] /\ Total = lhs.coef * powers[j]
               /\ exponent = maxexponent + i - j
<1>1. /\ var2ulen - var2units \in Nat /\ Padding = BP(var2ulen - var2units)
      /\ Block = rhs.coef * Padding
  BY UnderwayFacts
<1>2. PICK i \in Nat : i = DPUN * (var2ulen - var2units)
  <2>1. DPUN * (var2ulen - var2units) \in Nat
    BY <1>1, DPUNRange
  <2> QED
    BY <2>1
<1>3. Padding = powers[i]
  BY <1>1, <1>2 DEF BP
<1>4. PICK j \in Nat : j = Pad
  BY DEF Underway
<1>5. exponent = maxexponent + i - j
  BY <1>2, <1>4 DEF Underway
<1>6. Total = lhs.coef * powers[j]
  BY <1>4 DEF Total
<1> QED
  BY <1>1, <1>3, <1>5, <1>6

LEMMA CompleteDivideStep ==
    ASSUME IInv, CompleteDivide
    PROVE  IInv'
<1>1. /\ pc = "complete" /\ Dividing
      /\ ToFinish(SetCoeff(Work(Finite(bits,
                                       acc \div powers[IF var1 = 0 THEN Drop ELSE 0],
                                       exponent + (IF var1 = 0 THEN Drop ELSE 0)),
                                IF var1 = 0 THEN 0 ELSE 1, {}), set))
  BY DEF CompleteDivide
<1>2. /\ Known /\ Underway /\ BothFiniteNonZero /\ Defined
      /\ acc * Block + var1 = Total /\ var1 < Block /\ Ending
      /\ exponent < maxexponent => var1 # 0 \/ acc % Base # 0
      /\ bits = sign /\ sign \in BOOLEAN
  BY <1>1, CompleteFacts DEF Dividing
<1>3. PICK i \in Nat, j \in Nat :
               /\ Block = rhs.coef * powers[i] /\ Total = lhs.coef * powers[j]
               /\ exponent = maxexponent + i - j
  BY <1>2, PlacesAre
<1>4. PICK a \in Nat, v \in Nat, e \in Int, m \in Int :
               /\ a = acc /\ v = var1 /\ e = exponent /\ m = maxexponent /\ e = m + i - j
  <2>1. acc \in Nat /\ var1 \in Nat /\ exponent \in Int /\ maxexponent \in Int
    BY <1>2, UnderwayFacts
  <2> QED
    BY <1>3, <2>1
<1>5. /\ Block \in Nat \ {0} /\ rhs.coef \in Nat \ {0} /\ lhs.coef \in Nat \ {0}
      /\ reqdigits \in Nat \ {0}
  BY <1>2, UnderwayFacts
<1>6. ASSUME NEW b \in Nat, NEW r \in 0..1, NEW x \in Nat, NEW unit \in Nat \ {0}, NEW k \in Int,
             Over(b, r, v, x, j, unit, k), v # 0 \/ k >= m \/ b % 10 # 0,
             ToFinish(SetCoeff(Work(Finite(sign, b, k), r, {}), set))
      PROVE  IInv'
  <2>1. PICK c, s, rest, z : \E discard \in Nat \ {0} :
               /\ SetCoeff(Work(Finite(sign, b, k), r, {}), set)
                      = Work(Finite(sign, c, k + discard), s, CutFlags({}, s))
               /\ CutTo(c, s, rest, z, j, k + discard)
               /\ rest = 0 => v = 0 /\ b % 10 = 0
    <3>1. Known /\ BothFiniteNonZero /\ Over(b, r, v, x, j, unit, k)
      BY <1>2, <1>6
    <3>2. PICK neg \in BOOLEAN : neg = sign
      BY <1>2
    <3>3. CutDown(neg, b, r, v, j, k)
      BY <3>1, CutBelow
    <3> QED
      BY <3>2, <3>3 DEF CutDown
  <2>2. PICK discard \in Nat \ {0} :
               /\ SetCoeff(Work(Finite(sign, b, k), r, {}), set)
                      = Work(Finite(sign, c, k + discard), s, CutFlags({}, s))
               /\ CutTo(c, s, rest, z, j, k + discard)
               /\ rest = 0 => v = 0 /\ b % 10 = 0
    BY <2>1
  <2>3. PICK w : /\ w = Work(Finite(sign, c, k + discard), s, CutFlags({}, s))
                 /\ ToFinish(w)
    BY <1>6, <2>2
  <2>4. rest # 0 \/ ExactExp < k + discard
    <3>1. ASSUME k >= m PROVE ExactExp < k + discard
      <4>1. ExactExp \in Int /\ ExactExp <= m
        BY <1>2, <1>4, ExactExpAtMost
      <4> QED
        BY <3>1, <4>1
    <3> QED
      BY <1>6, <2>2, <3>1
  <2> QED
    BY <1>1, <1>2, <2>2, <2>3, <2>4, CutDue
<1>7. CASE v # 0
  <2>1. ToFinish(SetCoeff(Work(Finite(sign, a, e), 1, {}), set))
    <3>1. acc \div powers[0] = a /\ exponent + 0 = e
      <4>1. powers[0] = 1 /\ a \div 1 = a /\ e + 0 = e
        BY PowersFacts
      <4> QED
        BY <1>4, <4>1
    <3> QED
      BY <1>1, <1>2, <1>4, <1>7, <3>1
  <2>2. Digits(a) > reqdigits
    BY <1>1, <1>2, <1>4, <1>7 DEF Ending, Dividing, IsRemainder
  <2>3. Over(a, 1, v, i, j, Block, e)
    <3>1. a * Block + v = lhs.coef * powers[j] /\ v < Block
      BY <1>2, <1>3, <1>4
    <3> QED
      BY <1>3, <1>4, <1>7, <2>2, <3>1 DEF Over
  <2>4. 1 \in 0..1
    OBVIOUS
  <2> QED
    BY <1>5, <1>6, <1>7, <2>1, <2>3, <2>4
<1>8. CASE v = 0
  <2>1. PICK d \in Nat, b \in Nat :
               /\ Drop = d /\ acc \div powers[d] = b /\ acc = b * powers[d]
               /\ d # 0 => exponent + d <= maxexponent
               /\ exponent + d >= maxexponent \/ b % 10 # 0
    BY <1>2, <1>4, <1>8, DropIs
  <2>2. PICK k \in Int : k = e + d /\ (k >= m \/ b % 10 # 0) /\ k = m + (i + d) - j
    BY <1>4, <2>1
  <2>3. ToFinish(SetCoeff(Work(Finite(sign, b, k), 0, {}), set))
    BY <1>1, <1>2, <1>4, <1>8, <2>1, <2>2
  <2>4. PICK pd \in Nat \ {0}, pi \in Nat \ {0}, unit \in Nat \ {0}, r \in Nat \ {0} :
               /\ pd = powers[d] /\ pi = powers[i] /\ r = rhs.coef
               /\ unit = r * powers[i + d] /\ unit = pd * (r * pi)
    <3>1. PICK pd \in Nat \ {0}, pi \in Nat \ {0}, r \in Nat \ {0} :
              pd = powers[d] /\ pi = powers[i] /\ r = rhs.coef
      BY <1>5, PowerNumber
    <3>2. powers[i + d] = pi * pd
      BY <3>1, PowersSum
    <3>3. r * (pi * pd) = pd * (r * pi) /\ r * (pi * pd) \in Nat \ {0}
      OBVIOUS
    <3> QED
      BY <3>1, <3>2, <3>3
  <2>5. b * unit = Total
    <3>1. PICK y \in Nat : y = Block /\ y = r * pi
      BY <1>3, <1>5, <2>4
    <3>2. (b * pd) * y = b * (pd * y)
      OBVIOUS
    <3>3. acc * Block + var1 = (b * pd) * y
      <4>1. (b * pd) * y + 0 = (b * pd) * y
        OBVIOUS
      <4>2. acc * Block = (b * pd) * y
        BY <2>1, <2>4, <3>1
      <4> QED
        BY <1>4, <1>8, <4>1, <4>2
    <3> QED
      BY <1>2, <2>4, <3>1, <3>2, <3>3
  <2>6. CASE Digits(b) > reqdigits
    <3>1. Over(b, 0, v, i + d, j, unit, k)
      <4>1. b * unit + v = lhs.coef * powers[j]
        <5>1. b * unit \in Nat
          OBVIOUS
        <5> QED
          BY <1>3, <1>8, <2>5, <5>1
      <4>2. v < unit
        BY <1>8
      <4> QED
        BY <1>4, <1>8, <2>2, <2>4, <2>6, <4>1, <4>2 DEF Over
    <3>2. 0 \in 0..1 /\ i + d \in Nat
      OBVIOUS
    <3> QED
      BY <1>6, <2>2, <2>3, <3>1, <3>2
  <2>7. CASE ~(Digits(b) > reqdigits)
    <3>1. b # 0
      <4>1. b * unit = 0 => Total = 0
        BY <2>5
      <4>2. 0 * unit = 0 /\ Total # 0
        BY <1>2, UnderwayFacts
      <4> QED
        BY <4>1, <4>2
    <3>2. k <= m
      <4>1. CASE d # 0
        BY <1>4, <2>1, <2>2, <4>1
      <4>2. CASE d = 0
        <5>1. a = b
          <6>1. b * powers[0] = b
            BY PowersFacts
          <6> QED
            BY <1>4, <2>1, <4>2, <6>1
        <5>2. exponent <= maxexponent
          BY <1>1, <1>2, <1>4, <2>7, <5>1 DEF Ending, Dividing, IsRemainder
        <5> QED
          BY <1>4, <2>2, <4>2, <5>2
      <4> QED
        BY <4>1, <4>2
    <3>3. PICK g \in Nat : g = m - k /\ j = g + (i + d) /\ (g = 0 \/ b % 10 # 0)
      <4>1. m - k \in Nat /\ j = (m - k) + (i + d) /\ (m - k = 0 \/ b % 10 # 0)
        BY <2>2, <3>2
      <4> QED
        BY <4>1
    <3>4. Fitting(b, g)
      <4>1. PICK l \in Nat \ {0}, pg \in Nat \ {0}, p \in Nat \ {0} :
                /\ l = lhs.coef /\ pg = powers[g] /\ p = powers[i + d]
                /\ powers[j] = pg * p
        <5>1. i + d \in Nat
          OBVIOUS
        <5>2. powers[g + (i + d)] = powers[g] * powers[i + d]
          BY <5>1, PowersSum
        <5> QED
          BY <1>5, <3>3, <5>1, <5>2, PowerNumber
      <4>2. (b * r) * p = (l * pg) * p
        <5>1. (b * r) * p = b * (r * p) /\ (l * pg) * p = l * (pg * p)
          OBVIOUS
        <5>2. b * (r * p) = l * (pg * p)
          BY <1>3, <2>4, <2>5, <4>1
        <5> QED
          BY <5>1, <5>2
      <4>3. b * r \in Nat /\ l * pg \in Nat
        OBVIOUS
      <4>4. b * r = l * pg
        BY <4>2, <4>3, SameTimes
      <4>5. Digits(b) <= reqdigits
        <5>1. Digits(b) \in Nat
          BY DigitsFacts
        <5> QED
          BY <1>5, <2>7, <5>1
      <4> QED
        BY <2>4, <3>3, <4>1, <4>4, <4>5 DEF Fitting
    <3>5. ExactCoef = b /\ ExactExp = maxexponent - g
      <4>1. b \in Nat \ {0}
        BY <3>1
      <4> QED
        BY <1>2, <3>4, <4>1, FittingExact
    <3>6. ExactExp = k
      BY <1>4, <3>3, <3>5
    <3>7. Due(sign, b, k)
      <4>1. op # "DIVIDEINT" /\ ~IsRemainder
        BY <1>1 DEF Dividing, IsRemainder
      <4> QED
        BY <3>5, <3>6, <4>1 DEF Due
    <3> QED
      BY <1>2, <2>3, <3>7, FinishExact
  <2> QED
    BY <2>6, <2>7
<1> QED
  BY <1>7, <1>8

(***************************************************************************)
(* decFinish, decStatus, and standing still.                               *)
(***************************************************************************)
LEMMA DeliveredKind ==
    ASSUME NEW neg, NEW n, NEW q, NEW ctx
    PROVE  Delivered(neg, n, q, ctx).kind \in {"finite", "inf"}
<1>1. \A c, e : Finite(neg, c, e).kind = "finite" /\ Finite(neg, c, e).neg = neg
  BY DEF Finite
<1>2. CASE n = 0
  <2>1. PICK e : FitZero(neg, q, ctx) = Finite(neg, 0, e)
    BY DEF FitZero
  <2> QED
    BY <1>1, <1>2, <2>1 DEF Delivered
<1>3. CASE n # 0
  <2>1. PICK c, e : Nearest(neg, n, q, ctx) = Finite(neg, c, e)
    BY Zenon DEF Nearest
  <2>2. Delivered(neg, n, q, ctx) = InRange(Finite(neg, c, e), ctx)
    BY <1>3, <2>1 DEF Delivered
  <2>3. Overflowed(neg, ctx).kind \in {"finite", "inf"}
    <3>1. Special("inf", neg).kind = "inf"
      BY SpecialFields
    <3>2. \/ Overflowed(neg, ctx) = Special("inf", neg)
          \/ \E c1, e1 : Overflowed(neg, ctx) = Finite(neg, c1, e1)
      BY Zenon DEF Overflowed
    <3> QED
      BY <1>1, <3>1, <3>2
  <2>4. Folded(Finite(neg, c, e), ctx).kind = "finite"
    <3>1. \E c1, e1 : Folded(Finite(neg, c, e), ctx) = Finite(neg, c1, e1)
      <4>1. Finite(neg, c, e).neg = neg
        BY <1>1
      <4> QED
        BY <4>1, Zenon DEF Folded
    <3> QED
      BY <1>1, <3>1
  <2>5. \/ InRange(Finite(neg, c, e), ctx) = Overflowed(neg, ctx)
        \/ InRange(Finite(neg, c, e), ctx) = Folded(Finite(neg, c, e), ctx)
    BY <1>1, Zenon DEF InRange
  <2> QED
    BY <2>2, <2>3, <2>4, <2>5
<1> QED
  BY <1>2, <1>3

\* the number with the least exponent is finished as it is
LEMMA VanishedStays ==
    ASSUME NEW neg \in BOOLEAN, NEW ctx, Context(ctx)
    PROVE  Finalize(Work(Finite(neg, 0, Etiny(ctx)), 0, {"Clamped"}), ctx)
               = Work(Finite(neg, 0, Etiny(ctx)), 0, {"Clamped"})
<1>1. /\ ctx.digits \in Nat \ {0} /\ ctx.emin \in Int /\ ctx.emax \in Int
      /\ ctx.emin <= 0 /\ 0 <= ctx.emax
  BY DEF Context
<1>2. PICK tiny \in Int : /\ tiny = Etiny(ctx) /\ tiny = ctx.emin - (ctx.digits - 1)
                          /\ tiny <= Etop(ctx)
  BY <1>1 DEF Etiny, Etop
<1> DEFINE w == Work(Finite(neg, 0, tiny), 0, {"Clamped"})
<1>3. w.dn.coef = 0 /\ w.dn.exp = tiny /\ w.dn.kind = "finite" /\ w.residue = 0
  BY WorkFields, FiniteFields
<1> HIDE DEF w
<1>4. Digits(0) = 1
  BY DigitsFacts
<1>5. CASE tiny < ctx.emin
  <2>1. Finalize(w, ctx) = SetSubnormal(w, ctx)
    <3>1. w.dn.exp < ctx.emin - Digits(w.dn.coef) + 1
      BY <1>1, <1>3, <1>4, <1>5
    <3> QED
      BY <3>1, Zenon DEF Finalize, BelowNmin
  <2>2. ~(tiny - w.dn.exp > 0)
    BY <1>3
  <2>3. SetSubnormal(w, ctx) = w
    BY <1>2, <1>3, <2>2, Zenon DEF SetSubnormal, IsZero
  <2> QED
    BY <1>2, <2>1, <2>3 DEF w
<1>6. CASE ~(tiny < ctx.emin)
  <2>1. Finalize(w, ctx) = CheckRange(ApplyRound(w, ctx), ctx)
    <3>1. ~(w.dn.exp < ctx.emin - Digits(w.dn.coef) + 1) /\ ~(w.residue < 0)
      BY <1>1, <1>3, <1>4, <1>6
    <3> QED
      BY <3>1, Zenon DEF Finalize, BelowNmin, JustBelowNmin
  <2>2. ApplyRound(w, ctx) = w
    <3>1. ~(w.residue > 0) /\ ~(w.residue > 5) /\ ~(w.residue >= 5) /\ w.residue # 5
          /\ ~(w.residue < 0)
      BY <1>3
    <3>2. ctx.round \in Modes
      BY DEF Context
    <3>3. ~RoundsUp(w, ctx.round)
      BY <3>1, <3>2 DEF RoundsUp, Modes
    <3>4. ~RoundsDown(w, ctx.round)
      BY <3>1, Zenon DEF RoundsDown
    <3> QED
      BY <3>3, <3>4, ApplyRoundIs
  <2>3. CheckRange(w, ctx) = w
    BY <1>2, <1>3, Zenon DEF CheckRange
  <2> QED
    BY <1>2, <2>1, <2>2, <2>3 DEF w
<1> QED
  BY <1>5, <1>6

LEMMA FinishStep ==
    ASSUME IInv, Finish
    PROVE  IInv'
<1>1. PICK w : /\ pc = "finish" /\ w = Finalize(Work(res, residue, status), set)
               /\ res' = w.dn /\ residue' = w.residue /\ status' = w.status
               /\ pc' = "report" /\ UNCHANGED <<call, division>>
  BY DEF Finish
<1>2. Known /\ Defined /\ AtFinish
  BY <1>1 DEF IInv, AtFinish
<1>3. Context(set) /\ sign \in BOOLEAN
  BY <1>2, KnownFacts
<1>4. ASSUME NEW x, NEW fl, w.dn = x, w.status = fl, w.residue \in -1..9,
             x.kind \in {"finite", "inf"}, x.coef \in Nat, fl \subseteq LossFlags, Divided(x, fl)
      PROVE  IInv'
  <2>1. x.kind \in Kinds /\ fl \subseteq Flags
    BY <1>4 DEF Kinds, LossFlags, Flags, NaNFlags
  <2>2. AfterStatus(x, fl) = x /\ fl \ {"sNaN"} = fl
    <3>1. fl \cap NaNFlags = {} /\ "sNaN" \notin fl
      BY <1>4 DEF LossFlags, NaNFlags
    <3> QED
      BY <3>1 DEF AfterStatus
  <2>3. Signalled(x, fl)
    <3>1. "Division_impossible" \notin fl /\ "Division_by_zero" \notin fl
      BY <1>4 DEF LossFlags
    <3>2. ~IsNaN(lhs) /\ ~IsNaN(rhs) /\ ~Undefined /\ ~(IsZero(rhs) /\ ~IsSpecial(lhs))
      BY <1>2 DEF Defined
    <3>3. x.kind # "nan" /\ x.kind # "snan"
      BY <1>4
    <3> QED
      BY <3>1, <3>2, <3>3 DEF Signalled
  <2>4. res' = x /\ status' = fl /\ residue' = w.residue
    BY <1>1, <1>4
  <2>5. Known'
    BY <1>1, <1>2, <1>4, <2>1, <2>4, KnownKept
  <2>6. call' = call /\ pc' = "report"
    BY <1>1
  <2>7. x = AfterStatus(res', status') /\ fl = status' \ {"sNaN"}
    BY <2>2, <2>4
  <2> QED
    BY <1>4, <2>3, <2>5, <2>6, <2>7, ReportReached
<1>5. CASE \E neg, n, q : /\ Carries(res, residue, status, neg, n, q, set)
                          /\ residue >= 0 /\ Due(neg, n, q)
  <2>1. PICK neg, n, q : /\ Carries(res, residue, status, neg, n, q, set)
                         /\ residue >= 0 /\ Due(neg, n, q)
    BY <1>5
  <2>2. /\ Proper(w, set) /\ w.dn = Delivered(neg, n, q, set)
        /\ w.status = FlagsFor(neg, n, q, set)
    <3>1. /\ Proper(w, set)
          /\ set.digits > 1 \/ n = 0 \/ residue >= 0
                  => /\ w.dn = Delivered(neg, n, q, set)
                     /\ w.status = FlagsFor(neg, n, q, set)
      BY <1>1, <1>3, <2>1, FinishCarries
    <3> QED
      BY <2>1, <3>1
  <2>3. w.residue \in -1..9 /\ w.status \subseteq LossFlags /\ w.dn.coef \in Nat
    BY <2>2 DEF Proper, FitsIn, Numbers
  <2>4. w.dn.kind \in {"finite", "inf"}
    BY <2>2, DeliveredKind
  <2>5. Divided(w.dn, w.status)
    BY <2>1, <2>2 DEF Due, Divided
  <2> QED
    BY <1>4, <2>3, <2>4, <2>5
<1>6. CASE Vanished
  <2>1. w = Work(Finite(sign, 0, Etiny(set)), 0, {"Clamped"}) /\ ~BothFiniteNonZero
    <3>1. /\ res = Finite(sign, 0, Etiny(set)) /\ residue = 0 /\ status = {"Clamped"}
          /\ ~BothFiniteNonZero
      BY <1>6 DEF Vanished
    <3>2. PICK neg \in BOOLEAN : neg = sign
      BY <1>3
    <3>3. Finalize(Work(Finite(neg, 0, Etiny(set)), 0, {"Clamped"}), set)
               = Work(Finite(neg, 0, Etiny(set)), 0, {"Clamped"})
      BY <1>3, VanishedStays
    <3> QED
      BY <1>1, <3>1, <3>2, <3>3
  <2>2. /\ w.dn = Finite(sign, 0, Etiny(set)) /\ w.residue = 0 /\ w.status = {"Clamped"}
    BY <2>1, WorkFields
  <2>3. w.dn.kind \in {"finite", "inf"} /\ w.dn.coef \in Nat
    BY <2>2, FiniteFields
  <2>4. w.status \subseteq LossFlags /\ Divided(w.dn, w.status) /\ w.residue \in -1..9
    BY <2>1, <2>2 DEF LossFlags, Divided
  <2> QED
    BY <1>4, <2>3, <2>4
<1> QED
  BY <1>1, <1>2, <1>5, <1>6 DEF AtFinish

LEMMA ReportStep ==
    ASSUME IInv, Report
    PROVE  IInv'
<1>1. /\ pc = "report" /\ res' = AfterStatus(res, status) /\ status' = status \ {"sNaN"}
      /\ pc' = "done" /\ UNCHANGED <<call, division>> /\ residue' = residue /\ call' = call
  BY DEF Report
<1>2. Known /\ Signalled(AfterStatus(res, status), status \ {"sNaN"})
      /\ Divided(AfterStatus(res, status), status \ {"sNaN"})
  BY <1>1 DEF IInv, AtReport
<1>3. PICK r, s : /\ r = res' /\ s = status' /\ Signalled(r, s) /\ Divided(r, s)
  BY <1>1, <1>2
<1>4. Signalled(r, s)' /\ Divided(r, s)'
  BY <1>1, <1>3, SameAnswers
<1>5. AtDone'
  BY <1>3, <1>4 DEF AtDone
<1>6. Known'
  <2>1. residue \in -1..9 /\ status \subseteq Flags /\ res.kind \in Kinds /\ res.coef \in Nat
    BY <1>2 DEF Known, TypeOK
  <2>2. PICK n : n = AfterStatus(res, status) /\ n.kind \in Kinds /\ n.coef \in Nat
    <3>1. AfterStatus(res, status) = Special("nan", FALSE) \/ AfterStatus(res, status) = res
      BY DEF AfterStatus
    <3>2. Special("nan", FALSE).kind = "nan" /\ Special("nan", FALSE).coef = 0
      BY SpecialFields
    <3> QED
      BY <2>1, <3>1, <3>2, KindsHold
  <2>3. res'.kind \in Kinds /\ res'.coef \in Nat
    BY <1>1, <2>2
  <2>4. status' \subseteq Flags /\ residue' \in -1..9
    BY <1>1, <2>1
  <2> QED
    BY <1>1, <1>2, <2>3, <2>4, KnownKept
<1> QED
  BY <1>1, <1>5, <1>6 DEF IInv, AtStart, AtDivide, AtAccumulate, AtComplete, AtFinish, AtReport

LEMMA StutterStep ==
    ASSUME IInv, UNCHANGED vars
    PROVE  IInv'
<1>1. /\ call' = call /\ pc' = pc
      /\ bits' = bits /\ var1' = var1 /\ stale' = stale /\ var2ulen' = var2ulen
      /\ var1initpad' = var1initpad /\ thisunit' = thisunit /\ acc' = acc
      /\ accunits' = accunits /\ exponent' = exponent
      /\ res' = res /\ residue' = residue /\ status' = status
  BY DEF vars, division
<1>2. /\ op' = op /\ lhs' = lhs /\ rhs' = rhs /\ set' = set
      /\ Dividing' = Dividing /\ IsRemainder' = IsRemainder
      /\ reqdigits' = reqdigits /\ var2units' = var2units /\ sign' = sign
      /\ maxexponent' = maxexponent
      /\ BothFiniteNonZero' = BothFiniteNonZero /\ Defined' = Defined
  BY <1>1, SameCall
<1>3. Underway' = Underway /\ Block' = Block /\ Total' = Total /\ Long' = Long
  BY <1>1, SameUnderway
<1>4. /\ \A neg, n, q : Due(neg, n, q)' <=> Due(neg, n, q)
      /\ \A r, s : /\ Signalled(r, s)' <=> Signalled(r, s)
                   /\ Divided(r, s)' <=> Divided(r, s)
  BY <1>1, SameAnswers
<1>5. Known'
  BY <1>1, <1>2 DEF IInv, Known, TypeOK
<1>6. AtStart'
  BY <1>1 DEF IInv, AtStart
<1>7. KeepsGoing' = KeepsGoing /\ Recounted' = Recounted /\ Ending' = Ending
  BY <1>1, <1>2, <1>3 DEF KeepsGoing, Recounted, Ending
<1>8. AtDivide'
  BY <1>1, <1>2, <1>3, <1>7 DEF IInv, AtDivide
<1>9. AtAccumulate'
  BY <1>1, <1>2, <1>3, <1>7 DEF IInv, AtAccumulate
<1>10. AtComplete'
  BY <1>1, <1>2, <1>3, <1>7 DEF IInv, AtComplete
<1>11. AtFinish'
  <2>1. Vanished' = Vanished
    BY <1>1, <1>2 DEF Vanished
  <2>2. AtFinish
    BY DEF IInv
  <2> QED
    BY <1>1, <1>2, <1>4, <2>1, <2>2 DEF AtFinish
<1>12. AtReport'
  <2>1. AtReport
    BY DEF IInv
  <2>2. PICK r, s : r = AfterStatus(res, status) /\ s = status \ {"sNaN"}
                    /\ r = AfterStatus(res', status') /\ s = status' \ {"sNaN"}
    BY <1>1
  <2>3. pc = "report" => Signalled(r, s)' /\ Divided(r, s)'
    BY <1>4, <2>1, <2>2 DEF AtReport
  <2> QED
    BY <1>1, <2>2, <2>3 DEF AtReport
<1>13. AtDone'
  <2>1. AtDone
    BY DEF IInv
  <2>2. PICK r, s : r = res /\ s = status /\ r = res' /\ s = status'
    BY <1>1
  <2>3. pc = "done" => Signalled(r, s)' /\ Divided(r, s)'
    BY <1>4, <2>1, <2>2 DEF AtDone
  <2> QED
    BY <1>1, <2>2, <2>3 DEF AtDone
<1> QED
  BY <1>5, <1>6, <1>8, <1>9, <1>10, <1>11, <1>12, <1>13 DEF IInv

LEMMA QuotientBelow ==
    ASSUME NEW n \in Nat, NEW u \in Nat \ {0}, NEW c \in Nat, n < c * u
    PROVE  n \div u \in Nat /\ n \div u < c
<1>1. /\ n \div u \in Nat /\ n % u \in Nat /\ n % u < u
      /\ n = (n \div u) * u + (n % u)
  BY Euclid
<1>2. PICK q \in Nat, r \in Nat : q = n \div u /\ n = q * u + r
  BY <1>1
<1>3. SUFFICES ASSUME c <= q PROVE FALSE
  BY <1>1, <1>2
<1>4. c * u <= q * u /\ c * u \in Nat /\ q * u \in Nat
  BY <1>2, <1>3, MulGrows
<1> QED
  BY <1>2, <1>4

(***************************************************************************)
(* The theorems.                                                           *)
(***************************************************************************)
\* What is known of the dividend, the Units of the quotient and the exponent
\* at each place of decDivideOp holds in every call: for every operation, pair
\* of numbers and context, and every number of digits to a Unit.
THEOREM DivideInvariant == Spec => []IInv
<1>1. Init => IInv
  BY InitHolds
<1>2. IInv /\ [Next]_vars => IInv'
  <2>1. SUFFICES ASSUME IInv, [Next]_vars PROVE IInv'
    OBVIOUS
  <2>2. CASE NaNOperand
    BY <2>1, <2>2, NaNOperandStep
  <2>3. CASE InfiniteDividend
    BY <2>1, <2>3, InfiniteDividendStep
  <2>4. CASE InfiniteDivisor
    BY <2>1, <2>4, InfiniteDivisorStep
  <2>5. CASE ZeroDivisor
    BY <2>1, <2>5, ZeroDivisorStep
  <2>6. CASE ZeroDividend
    BY <2>1, <2>6, ZeroDividendStep
  <2>7. CASE QuotientBelowOne
    BY <2>1, <2>7, QuotientBelowOneStep
  <2>8. CASE SetUp
    BY <2>1, <2>8, SetUpStep
  <2>9. CASE Subtract
    BY <2>1, <2>9, SubtractStep
  <2>10. CASE UnitComplete
    BY <2>1, <2>10, UnitCompleteStep
  <2>11. CASE Accumulate
    BY <2>1, <2>11, AccumulateStep
  <2>12. CASE CompleteDivide
    BY <2>1, <2>12, CompleteDivideStep
  <2>13. CASE CompleteInteger
    BY <2>1, <2>13, CompleteIntegerStep
  <2>14. CASE CompleteRemainder
    BY <2>1, <2>14, CompleteRemainderStep
  <2>15. CASE Finish
    BY <2>1, <2>15, FinishStep
  <2>16. CASE Report
    BY <2>1, <2>16, ReportStep
  <2>17. CASE UNCHANGED vars
    BY <2>1, <2>17, StutterStep
  <2> QED
    BY <2>1, <2>2, <2>3, <2>4, <2>5, <2>6, <2>7, <2>8, <2>9, <2>10, <2>11, <2>12,
       <2>13, <2>14, <2>15, <2>16, <2>17 DEF Next
<1> QED
  BY <1>1, <1>2, PTL DEF Spec

\* The result is a NaN, an infinity or a number exactly where IEEE division,
\* integer division and the remainders say so, and only a division of a finite
\* number by zero raises Division_by_zero (the special cases at the head of
\* decDivideOp).
THEOREM DivideSignals == Spec => []ExceptionsSignalled
<1>1. IInv => ExceptionsSignalled
  BY DEF IInv, AtDone, Signalled, ExceptionsSignalled, Done
<1> QED
  BY <1>1, DivideInvariant, PTL

\* Every quotient decDivideOp delivers is the exact one, rounded once, with the
\* exponent nearest to the ideal one where it is exact, and with the flags for
\* what was lost: for all operands, precisions and ways to round.
THEOREM DivideRounds == Spec => []QuotientRounded
<1>1. IInv => QuotientRounded
  BY DEF IInv, AtDone, Divided, QuotientRounded, Done
<1> QED
  BY <1>1, DivideInvariant, PTL

\* Integer quotients and remainders are exact, the nearest remainder too, and
\* are refused exactly if the integer has more digits than the precision.
THEOREM DivideWholeAndRest == Spec => []WholeAndRest
<1>1. IInv => WholeAndRest
  BY DEF IInv, AtDone, Divided, WholeAndRest, IntegerQuotient, RemainderExact, Done
<1> QED
  BY <1>1, DivideInvariant, PTL

\* The long division stays inside its arrays: the divisor is never moved below
\* the least Unit, the guess always finds a second Unit in var1, acc is never
\* longer than its array; and the old Units under msu1 are taken for the divisor
\* only where the division is refused in the end (the two loops of decDivideOp).
THEOREM DivideStaysInArrays == Spec => []StaysInArrays
<1>1. IInv => StaysInArrays
  <2>1. SUFFICES ASSUME IInv PROVE StaysInArrays
    OBVIOUS
  <2>2. Known /\ TypeOK /\ accunits <= D2U(reqdigits + DPUN)
    BY <2>1 DEF IInv, Known
  <2>3. ASSUME pc = "divide"
        PROVE  /\ var2ulen >= var2units
               /\ Units(var1) <= var1units
               /\ Covers => Units(var1) >= 2
               /\ stale => var1 = 0
               /\ stale /\ var2ulen = 1
                      => op = "DIVIDEINT" /\ Digits(acc) + DPUN + exponent > reqdigits
    <3>1. /\ Underway /\ (acc * Base + thisunit) * Block + var1 = Total
          /\ stale => /\ var1 = 0 /\ thisunit = 0 /\ Long
                      /\ op = "DIVIDEINT" \/ var2ulen > 1
      BY <2>1, <2>3 DEF IInv, AtDivide
    <3>2. /\ var2ulen \in Nat \ {0} /\ var2units \in Nat \ {0}
          /\ var2units <= var2ulen /\ Block \in Nat \ {0} /\ Total \in Nat
          /\ var1 \in Nat /\ acc \in Nat /\ thisunit \in Nat
          /\ Base \in Nat /\ Base >= 10
          /\ reqdigits \in Nat \ {0} /\ exponent \in Int
      BY <2>2, <3>1, UnderwayFacts
    <3>3. Units(var1) <= var1units
      <4>1. PICK v \in Nat : v = var1units
        BY <2>2, <3>1, RoomFacts DEF Underway
      <4>2. var2ulen <= v /\ Total < BP(v)
        BY <3>1, <4>1 DEF Underway
      <4>3. v \in Nat \ {0}
        BY <3>2, <4>1, <4>2
      <4>4. BP(v) \in Nat
        BY BPStep
      <4>5. PICK n \in Nat, y \in Nat, q \in Nat :
                n = var1 /\ y = Block /\ q = acc * Base + thisunit
        <5>1. acc * Base + thisunit \in Nat
          BY <3>2
        <5> QED
          BY <3>2, <5>1
      <4>6. q * y + n = Total /\ q * y \in Nat
        BY <3>1, <4>5
      <4>7. n < BP(v)
        BY <3>2, <4>2, <4>4, <4>5, <4>6
      <4>8. Units(n) <= v
        BY <4>3, <4>5, <4>7, UnitsAtMost
      <4> QED
        BY <4>1, <4>5, <4>8
    <3>4. Covers => Units(var1) >= 2
      BY <2>1, <2>3, CoversTwo
    <3>5. ASSUME stale, var2ulen = 1
          PROVE  op = "DIVIDEINT" /\ Digits(acc) + DPUN + exponent > reqdigits
      <4>1. op = "DIVIDEINT" /\ Long /\ var1 = 0 /\ thisunit = 0
        BY <3>1, <3>5
      <4>2. var2ulen = var2units
        BY <3>2, <3>5
      <4>3. PICK a \in Nat, b \in Nat \ {0}, y \in Nat, z \in Nat, r \in Nat \ {0} :
                /\ a = acc /\ b = Base /\ y = Block
                /\ z = powers[reqdigits - 1] /\ r = reqdigits
        <5>1. powers[reqdigits - 1] \in Nat
          BY <3>2, PowersFacts
        <5>2. Base \in Nat \ {0} /\ Block \in Nat
          BY <3>2
        <5> QED
          BY <3>2, <5>1, <5>2, Zenon
      <4>4. (a * b) * y = Total /\ a * b \in Nat
        <5>1. (a * b + 0) * y + 0 = Total
          BY <3>1, <4>1, <4>3
        <5>2. (a * b + 0) * y + 0 = (a * b) * y /\ a * b \in Nat
          BY <4>3
        <5> QED
          BY <5>1, <5>2
      <4>5. z * b <= a * b
        <5>1. Total = (a * b) * Block
          BY <4>3, <4>4
        <5>2. powers[reqdigits - 1] * Base <= a * b
          BY <2>2, <3>1, <4>1, <4>2, <4>4, <5>1, LongMeans
        <5> QED
          BY <4>3, <5>2
      <4>6. z <= a
        BY <4>3, <4>5, MulCancels
      <4>7. Digits(a) \in Nat \ {0}
        BY <4>3, DigitsFacts
      <4>8. Digits(a) >= r
        <5>1. SUFFICES ASSUME Digits(a) <= r - 1 PROVE FALSE
          BY <4>3, <4>7
        <5>2. r - 1 \in Nat \ {0}
          BY <4>3, <4>7, <5>1
        <5>3. a < powers[r - 1]
          BY <4>3, <5>1, <5>2, DigitsAtMost
        <5> QED
          BY <4>3, <4>6, <5>3
      <4>9. exponent \in Nat
        BY <3>1, <4>1 DEF Underway, Dividing
      <4>10. DPUN \in Nat \ {0}
        BY DPUNRange
      <4>11. Digits(a) + DPUN + exponent > r
        BY <4>3, <4>7, <4>8, <4>9, <4>10
      <4> QED
        BY <4>1, <4>3, <4>11
    <3> QED
      BY <3>1, <3>2, <3>3, <3>4, <3>5
  <2> QED
    BY <2>2, <2>3 DEF StaysInArrays
<1> QED
  BY <1>1, DivideInvariant, PTL

\* No step of the long division loses anything of the dividend: it is always the
\* quotient so far times the divisor at its present place, plus what is left in
\* var1, which is below one Unit's worth of the divisor (the two loops of
\* decDivideOp).
THEOREM DivideLosesNothing == Spec => []NothingLost
<1>1. IInv => NothingLost
  <2>1. SUFFICES ASSUME IInv, pc = "divide"
        PROVE  /\ IF acc * Base + thisunit = 0 THEN var1 = Total
                  ELSE (acc * Base + thisunit) * rhs.coef * Padding + var1 = Total
               /\ (var1 \div Base) \div Padding < rhs.coef
    BY DEF NothingLost, Total, Pad
  <2>2. /\ Known /\ Underway /\ (acc * Base + thisunit) * Block + var1 = Total
        /\ thisunit * Block + var1 < Base * Block
    BY <2>1 DEF IInv, AtDivide
  <2>3. /\ rhs.coef \in Nat \ {0} /\ Padding \in Nat \ {0} /\ Block = rhs.coef * Padding
        /\ Total \in Nat /\ var1 \in Nat /\ acc \in Nat /\ thisunit \in Nat
        /\ Base \in Nat /\ Base >= 10
    BY <2>2, UnderwayFacts
  <2>4. PICK c \in Nat \ {0}, p \in Nat \ {0}, n \in Nat, b \in Nat \ {0}, q \in Nat,
             t \in Nat, total \in Nat :
            /\ c = rhs.coef /\ p = Padding /\ n = var1 /\ b = Base
            /\ q = acc * Base + thisunit /\ t = thisunit /\ total = Total
    <3>1. acc * Base + thisunit \in Nat
      BY <2>3
    <3> QED
      BY <2>3, <3>1
  <2>5. q * (c * p) + n = total /\ t * (c * p) + n < b * (c * p)
    BY <2>2, <2>3, <2>4
  <2>6. IF q = 0 THEN n = total ELSE q * c * p + n = total
    <3>1. q * (c * p) = q * c * p
      BY <2>4
    <3>2. q = 0 => n = total
      BY <2>4, <2>5
    <3> QED
      BY <2>5, <3>1, <3>2
  <2>7. (n \div b) \div p < c
    <3>1. n < (c * p) * b
      <4>1. t * (c * p) \in Nat /\ b * (c * p) = (c * p) * b /\ (c * p) * b \in Nat
        BY <2>4
      <4> QED
        BY <2>4, <2>5, <4>1
    <3>2. c * p \in Nat
      BY <2>4
    <3>3. n \div b \in Nat /\ n \div b < c * p
      BY <2>4, <3>1, <3>2, QuotientBelow
    <3> QED
      BY <2>4, <3>3, QuotientBelow
  <2> QED
    BY <2>4, <2>6, <2>7
<1> QED
  BY <1>1, DivideInvariant, PTL

=============================================================================
