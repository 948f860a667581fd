----------------------------- MODULE LeastNumber -----------------------------
(***************************************************************************)
(* The least-number principle for sets.  The induction theorems of the     *)
(* library take a predicate as a parameter, which no installed prover can  *)
(* instantiate; applied to the set of counterexamples, this one serves the *)
(* same purpose.  With it, what a row of digits stands for in a base: the  *)
(* function Number, its sums, its parts and its bounds.                    *)
(***************************************************************************)
EXTENDS Integers, WellFoundedInduction, TLAPS

\* A set of natural numbers that is not empty has a least element.
THEOREM Least ==
    ASSUME NEW T, T \subseteq Nat, T # {}
    PROVE  \E x \in T : \A y \in T : x <= y
<1>1. PICK x \in T : \A y \in T : <<y, x>> \notin OpToRel(<, Nat)
  BY NatLessThanWellFounded, WFMin
<1>2. \A y \in T : ~(y < x)
  BY <1>1 DEF OpToRel
<1> QED
  BY <1>2

\* Induction over an interval, for the set of numbers a claim holds for.
THEOREM Climb ==
    ASSUME NEW n \in Nat, NEW Good,
           0 \in Good,
           \A i \in 1..n : i - 1 \in Good => i \in Good
    PROVE  \A i \in 0..n : i \in Good
<1> DEFINE Bad == {i \in 0..n : i \notin Good}
<1> SUFFICES ASSUME Bad # {} PROVE FALSE
  OBVIOUS
<1>1. PICK x \in Bad : \A y \in Bad : x <= y
  <2>1. Bad \subseteq Nat
    OBVIOUS
  <2> HIDE DEF Bad
  <2> QED
    BY <2>1, Least
<1>2. x \in 1..n /\ x - 1 \in 0..n /\ x - 1 \notin Bad
  BY <1>1
<1> QED
  BY <1>2

\* The same when a number may rest on all numbers below it.
THEOREM ClimbFromBelow ==
    ASSUME NEW n \in Nat, NEW Good,
           \A i \in 0..n : (\A j \in 0..n : j < i => j \in Good) => i \in Good
    PROVE  \A i \in 0..n : i \in Good
<1> DEFINE Bad == {i \in 0..n : i \notin Good}
<1> SUFFICES ASSUME Bad # {} PROVE FALSE
  OBVIOUS
<1>1. PICK x \in Bad : \A y \in Bad : x <= y
  <2>1. Bad \subseteq Nat
    OBVIOUS
  <2> HIDE DEF Bad
  <2> QED
    BY <2>1, Least
<1>2. \A j \in 0..n : j < x => j \in Good
  BY <1>1
<1> QED
  BY <1>1, <1>2

(***************************************************************************)
(* Functions on the natural numbers may be defined by recursion.  The step *)
(* is a function too, for the same reason.                                 *)
(***************************************************************************)
IsStart(g, n, S, zero, step) ==
    /\ g \in [0..n -> S] /\ g[0] = zero
    /\ \A k \in 1..n : g[k] = step[k - 1][g[k - 1]]

LEMMA StartExists ==
    ASSUME NEW S, NEW zero \in S, NEW step,
           \A k \in Nat : \A x \in S : step[k][x] \in S, NEW n \in Nat
    PROVE  \E g : IsStart(g, n, S, zero, step)
<1> DEFINE Good == {m \in 0..n : \E g : IsStart(g, m, S, zero, step)}
<1>1. 0 \in Good
  <2>1. IsStart([k \in 0..0 |-> zero], 0, S, zero, step)
    BY DEF IsStart
  <2> QED
    BY <2>1
<1>2. ASSUME NEW i \in 1..n, i - 1 \in Good PROVE i \in Good
  <2>1. PICK g : IsStart(g, i - 1, S, zero, step)
    BY <1>2
  <2> DEFINE h == [k \in 0..i |-> IF k = i THEN step[i - 1][g[i - 1]] ELSE g[k]]
  <2>2. /\ i - 1 \in Nat /\ i - 1 \in 0..(i - 1) /\ 0 \in 0..(i - 1) /\ i # 0
        /\ \A k \in 0..i : k = i \/ k \in 0..(i - 1)
    OBVIOUS
  <2>3. /\ g \in [0..(i - 1) -> S] /\ g[0] = zero
        /\ \A k \in 1..(i - 1) : g[k] = step[k - 1][g[k - 1]]
    BY <2>1 DEF IsStart
  <2>4. g[i - 1] \in S /\ step[i - 1][g[i - 1]] \in S
    BY <2>2, <2>3
  <2>5. h \in [0..i -> S] /\ h[0] = zero
    BY <2>2, <2>3, <2>4
  <2>6. ASSUME NEW k \in 1..i PROVE h[k] = step[k - 1][h[k - 1]]
    <3>1. k \in 0..i /\ k - 1 \in 0..i /\ k - 1 # i
      OBVIOUS
    <3>2. h[k - 1] = g[k - 1]
      BY <3>1
    <3>3. CASE k = i
      BY <3>1, <3>2, <3>3
    <3>4. CASE k # i
      <4>1. k \in 1..(i - 1)
        BY <3>4
      <4> QED
        BY <2>3, <3>1, <3>2, <3>4, <4>1
    <3> QED
      BY <3>3, <3>4
  <2>7. IsStart(h, i, S, zero, step)
    <3> HIDE DEF h
    <3> QED
      BY <2>5, <2>6 DEF IsStart
  <2> QED
    BY <2>7
<1> HIDE DEF Good
<1>3. \A i \in 0..n : i \in Good
  BY <1>1, <1>2, Climb
<1>4. n \in 0..n
  OBVIOUS
<1> QED
  BY <1>3, <1>4 DEF Good

LEMMA StartUnique ==
    ASSUME NEW S, NEW zero, NEW step, NEW n \in Nat, NEW m \in Nat, n <= m,
           NEW g, NEW h,
           IsStart(g, n, S, zero, step), IsStart(h, m, S, zero, step)
    PROVE  g[n] = h[n]
<1> DEFINE Good == {k \in 0..n : g[k] = h[k]}
<1>1. 0 \in Good
  BY DEF IsStart
<1>2. ASSUME NEW k \in 1..n, k - 1 \in Good PROVE k \in Good
  <2>1. k \in 1..m /\ k \in 0..n /\ g[k - 1] = h[k - 1]
    BY <1>2
  <2>2. g[k] = step[k - 1][g[k - 1]] /\ h[k] = step[k - 1][h[k - 1]]
    BY <2>1, Zenon DEF IsStart
  <2> QED
    BY <2>1, <2>2
<1> HIDE DEF Good
<1>3. \A i \in 0..n : i \in Good
  BY <1>1, <1>2, Climb
<1>4. n \in 0..n
  OBVIOUS
<1> QED
  BY <1>3, <1>4 DEF Good

IsRecursive(f, S, zero, step) ==
    /\ f \in [Nat -> S] /\ f[0] = zero
    /\ \A k \in Nat : f[k + 1] = step[k][f[k]]

THEOREM Recursion ==
    ASSUME NEW S, NEW zero \in S, NEW step,
           \A k \in Nat : \A x \in S : step[k][x] \in S
    PROVE  \E f : IsRecursive(f, S, zero, step)
<1> DEFINE g(n) == CHOOSE g : IsStart(g, n, S, zero, step)
           f    == [n \in Nat |-> g(n)[n]]
<1>1. ASSUME NEW n \in Nat PROVE IsStart(g(n), n, S, zero, step)
  BY StartExists
<1> HIDE DEF g
<1>2. ASSUME NEW n \in Nat PROVE f[n] \in S
  BY <1>1 DEF IsStart
<1>3. f[0] = zero
  BY <1>1 DEF IsStart
<1>4. ASSUME NEW k \in Nat PROVE f[k + 1] = step[k][f[k]]
  <2>1. k + 1 \in Nat /\ k <= k + 1 /\ k + 1 \in 1..(k + 1) /\ (k + 1) - 1 = k
    OBVIOUS
  <2>2. g(k + 1)[k + 1] = step[k][g(k + 1)[k]]
    <3>1. \A j \in 1..(k + 1) : g(k + 1)[j] = step[j - 1][g(k + 1)[j - 1]]
      BY <1>1, <2>1, Zenon DEF IsStart
    <3> QED
      BY <2>1, <3>1, Zenon
  <2>3. g(k)[k] = g(k + 1)[k]
    BY <1>1, <2>1, StartUnique
  <2> QED
    BY <2>1, <2>2, <2>3
<1>5. f \in [Nat -> S]
  BY <1>2
<1> QED
  BY <1>3, <1>4, <1>5 DEF IsRecursive

(***************************************************************************)
(* Numbers written in a base, the item of least weight first.              *)
(***************************************************************************)
Power(base) ==
    LET p[k \in Nat] == IF k = 0 THEN 1 ELSE base * p[k - 1]
    IN  p

Item(s, k) == IF k \in DOMAIN s THEN s[k] ELSE 0

\* Worth(base, s)[k] is the number that the items of s up to the k-th stand for
Worth(base, s) ==
    LET w[k \in Nat] == IF k = 0 THEN 0 ELSE w[k - 1] + Item(s, k) * Power(base)[k - 1]
    IN  w

LEMMA PowerFacts ==
    ASSUME NEW base \in Nat, base > 1
    PROVE  /\ Power(base) \in [Nat -> Nat] /\ Power(base)[0] = 1
           /\ \A k \in Nat : Power(base)[k + 1] = base * Power(base)[k]
           /\ \A k \in Nat : Power(base)[k] >= 1
<1> DEFINE step == [k \in Nat |-> [x \in Nat |-> base * x]]
           IsPower(f) == f = [k \in Nat |-> IF k = 0 THEN 1 ELSE base * f[k - 1]]
<1>1. \E f : IsPower(f)
  <2>1. base \in Nat
    OBVIOUS
  <2>2. 1 \in Nat /\ \A k \in Nat : \A x \in Nat : step[k][x] \in Nat
    BY <2>1
  <2>3. \A k, x \in Nat : step[k][x] = base * x
    OBVIOUS
  <2> HIDE DEF step
  <2>4. PICK f : IsRecursive(f, Nat, 1, step)
    BY <2>2, Recursion
  <2>5. ASSUME NEW k \in Nat PROVE f[k] = IF k = 0 THEN 1 ELSE base * f[k - 1]
    <3>1. CASE k = 0
      BY <2>4, <3>1 DEF IsRecursive
    <3>2. CASE k # 0
      <4>1. k - 1 \in Nat /\ (k - 1) + 1 = k
        BY <3>2
      <4>2. f[k - 1] \in Nat /\ f[k] = step[k - 1][f[k - 1]]
        BY <2>4, <4>1 DEF IsRecursive
      <4> QED
        BY <2>3, <3>2, <4>1, <4>2
    <3> QED
      BY <3>1, <3>2
  <2>6. f = [k \in Nat |-> f[k]]
    BY <2>4 DEF IsRecursive
  <2> QED
    BY <2>5, <2>6
<1>2. IsPower(Power(base))
  BY <1>1 DEF Power
<1>3. \A k \in Nat : Power(base)[k] = IF k = 0 THEN 1 ELSE base * Power(base)[k - 1]
  BY <1>2, Zenon
<1>4. Power(base)[0] = 1
  BY <1>3
<1>5. ASSUME NEW k \in Nat PROVE Power(base)[k + 1] = base * Power(base)[k]
  <2>1. k + 1 \in Nat /\ k + 1 # 0 /\ (k + 1) - 1 = k
    OBVIOUS
  <2> QED
    BY <1>3, <2>1, Zenon
<1>6. ASSUME NEW n \in Nat PROVE Power(base)[n] \in Nat /\ Power(base)[n] >= 1
  <2> DEFINE Good == {k \in 0..n : Power(base)[k] \in Nat /\ Power(base)[k] >= 1}
  <2>1. 0 \in Good
    BY <1>4
  <2>2. ASSUME NEW k \in 1..n, k - 1 \in Good PROVE k \in Good
    <3>1. k - 1 \in Nat /\ (k - 1) + 1 = k /\ Power(base)[k - 1] \in Nat /\ Power(base)[k - 1] >= 1
      BY <2>2
    <3>2. Power(base)[k] = base * Power(base)[k - 1]
      BY <1>5, <3>1
    <3> QED
      BY <3>1, <3>2
  <2> HIDE DEF Good
  <2>3. \A k \in 0..n : k \in Good
    BY <2>1, <2>2, Climb
  <2> QED
    BY <2>3 DEF Good
<1>7. Power(base) = [k \in Nat |-> Power(base)[k]]
  <2>1. Power(base) = [k \in Nat |-> IF k = 0 THEN 1 ELSE base * Power(base)[k - 1]]
    BY <1>2
  <2> QED
    BY <2>1
<1>8. Power(base) \in [Nat -> Nat]
  BY <1>6, <1>7
<1> QED
  BY <1>4, <1>5, <1>6, <1>8

\* weights multiply as their places add
LEMMA PowerSum ==
    ASSUME NEW base \in Nat, base > 1,
           NEW j \in Nat, NEW n \in Nat
    PROVE  Power(base)[j + n] = Power(base)[j] * Power(base)[n]
<1> DEFINE Good == {k \in 0..n : Power(base)[j + k] = Power(base)[j] * Power(base)[k]}
<1>1. 0 \in Good
  <2>1. Power(base)[0] = 1 /\ Power(base)[j] \in Nat
    BY PowerFacts
  <2>2. Power(base)[j] * 1 = Power(base)[j] /\ j + 0 = j
    BY <2>1
  <2> QED
    BY <2>1, <2>2
<1>2. ASSUME NEW k \in 1..n, k - 1 \in Good PROVE k \in Good
  <2>1. /\ k - 1 \in Nat /\ (k - 1) + 1 = k
        /\ j + (k - 1) \in Nat /\ (j + (k - 1)) + 1 = j + k
    OBVIOUS
  <2>2. Power(base)[k] = base * Power(base)[k - 1]
        /\ Power(base)[j + k] = base * Power(base)[j + (k - 1)]
    BY <2>1, PowerFacts
  <2>3. Power(base)[j + (k - 1)] = Power(base)[j] * Power(base)[k - 1]
    BY <1>2
  <2>4. Power(base)[j] \in Nat /\ Power(base)[k - 1] \in Nat
    BY <2>1, PowerFacts
  <2>5. base * (Power(base)[j] * Power(base)[k - 1]) = Power(base)[j] * (base * Power(base)[k - 1])
    BY <2>4
  <2> QED
    BY <2>2, <2>3, <2>5
<1> HIDE DEF Good
<1>3. \A k \in 0..n : k \in Good
  BY <1>1, <1>2, Climb
<1>4. n \in 0..n
  OBVIOUS
<1> QED
  BY <1>3, <1>4 DEF Good

LEMMA WorthFacts ==
    ASSUME NEW base \in Nat, base > 1,
           NEW s, \A k \in DOMAIN s : s[k] \in Nat
    PROVE  /\ Worth(base, s) \in [Nat -> Nat] /\ Worth(base, s)[0] = 0
           /\ \A k \in Nat : Worth(base, s)[k + 1] = Worth(base, s)[k] + Item(s, k + 1) * Power(base)[k]
<1> DEFINE add  == [k \in Nat |-> Item(s, k + 1) * Power(base)[k]]
           step == [k \in Nat |-> [x \in Nat |-> x + add[k]]]
           IsWorth(f) == f = [k \in Nat |-> IF k = 0 THEN 0
                                    ELSE f[k - 1] + Item(s, k) * Power(base)[k - 1]]
<1>1. \A k \in Nat : add[k] \in Nat /\ add[k] = Item(s, k + 1) * Power(base)[k]
  <2> SUFFICES ASSUME NEW k \in Nat PROVE Item(s, k + 1) * Power(base)[k] \in Nat
    OBVIOUS
  <2>1. Item(s, k + 1) \in Nat /\ Power(base)[k] \in Nat
    BY PowerFacts DEF Item
  <2> QED
    BY <2>1
<1> HIDE DEF add
<1>2. PICK f \in [Nat -> Nat] : f[0] = 0 /\ \A k \in Nat : f[k + 1] = f[k] + add[k]
  <2>1. 0 \in Nat /\ \A k \in Nat : \A x \in Nat : step[k][x] \in Nat
    BY <1>1
  <2>2. \A k, x \in Nat : step[k][x] = x + add[k]
    OBVIOUS
  <2> HIDE DEF step
  <2>3. PICK f : IsRecursive(f, Nat, 0, step)
    BY <2>1, Recursion
  <2>4. \A k \in Nat : f[k] \in Nat
    BY <2>3 DEF IsRecursive
  <2>5. \A k \in Nat : f[k + 1] = f[k] + add[k]
    BY <2>2, <2>3, <2>4, Zenon DEF IsRecursive
  <2> QED
    BY <2>3, <2>5 DEF IsRecursive
<1>3. IsWorth(f)
  <2>1. ASSUME NEW k \in Nat
        PROVE  f[k] = IF k = 0 THEN 0 ELSE f[k - 1] + Item(s, k) * Power(base)[k - 1]
    <3>1. CASE k = 0
      BY <1>2, <3>1
    <3>2. CASE k # 0
      <4>1. k - 1 \in Nat /\ (k - 1) + 1 = k
        BY <3>2
      <4>2. f[k] = f[k - 1] + add[k - 1]
        BY <1>2, <4>1
      <4>3. add[k - 1] = Item(s, k) * Power(base)[k - 1]
        BY <1>1, <4>1
      <4> QED
        BY <3>2, <4>2, <4>3
    <3> QED
      BY <3>1, <3>2
  <2>2. f = [k \in Nat |-> f[k]]
    BY <1>2
  <2> QED
    BY <2>1, <2>2
<1>4. IsWorth(Worth(base, s))
  BY <1>3 DEF Worth
<1> DEFINE w == Worth(base, s)
<1> HIDE DEF w
<1>5. \A k \in Nat : w[k] = IF k = 0 THEN 0 ELSE w[k - 1] + Item(s, k) * Power(base)[k - 1]
  BY <1>4, Zenon DEF w
<1>6. w[0] = 0
  BY <1>5
<1>7. ASSUME NEW k \in Nat PROVE w[k + 1] = w[k] + Item(s, k + 1) * Power(base)[k]
  <2>1. k + 1 \in Nat /\ k + 1 # 0 /\ (k + 1) - 1 = k
    OBVIOUS
  <2>2. w[k + 1] = w[(k + 1) - 1] + Item(s, k + 1) * Power(base)[(k + 1) - 1]
    BY <1>5, <2>1, Zenon
  <2> QED
    BY <2>1, <2>2, Zenon
<1>8. ASSUME NEW n \in Nat PROVE w[n] \in Nat
  <2> DEFINE Good == {k \in 0..n : w[k] \in Nat}
  <2>1. 0 \in Good
    BY <1>6
  <2>2. ASSUME NEW k \in 1..n, k - 1 \in Good PROVE k \in Good
    <3>1. k - 1 \in Nat /\ (k - 1) + 1 = k /\ w[k - 1] \in Nat
      BY <2>2
    <3>2. w[k] = w[k - 1] + Item(s, k) * Power(base)[k - 1]
      BY <1>7, <3>1, Zenon
    <3>3. Item(s, k) * Power(base)[k - 1] \in Nat
      BY <1>1, <3>1
    <3> QED
      BY <3>1, <3>2, <3>3
  <2> HIDE DEF Good
  <2>3. \A k \in 0..n : k \in Good
    BY <2>1, <2>2, Climb
  <2> QED
    BY <2>3 DEF Good
<1>9. w = [k \in Nat |-> w[k]]
  <2>1. w = [k \in Nat |-> IF k = 0 THEN 0 ELSE w[k - 1] + Item(s, k) * Power(base)[k - 1]]
    BY <1>4 DEF w
  <2> QED
    BY <2>1
<1>10. w \in [Nat -> Nat]
  BY <1>8, <1>9
<1> QED
  BY <1>6, <1>7, <1>10 DEF w

LEMMA PowerGrows ==
    ASSUME NEW base \in Nat, base > 1,
           NEW j \in Nat, NEW k \in Nat, j <= k
    PROVE  Power(base)[j] <= Power(base)[k]
<1>1. k - j \in Nat /\ j + (k - j) = k
  OBVIOUS
<1>2. Power(base)[k] = Power(base)[j] * Power(base)[k - j]
  BY <1>1, PowerSum
<1>3. Power(base)[j] \in Nat /\ Power(base)[k - j] \in Nat /\ Power(base)[k - j] >= 1
  BY <1>1, PowerFacts
<1> QED
  BY <1>2, <1>3

\* the items are numbers
NatItems(s) == \A k \in DOMAIN s : s[k] \in Nat

LEMMA WorthStep ==
    ASSUME NEW base \in Nat, base > 1,
           NEW s, NatItems(s), NEW k \in Nat \ {0}
    PROVE  /\ Worth(base, s)[k] = Worth(base, s)[k - 1] + Item(s, k) * Power(base)[k - 1]
           /\ Worth(base, s)[k] \in Nat /\ Worth(base, s)[k - 1] \in Nat
           /\ Item(s, k) \in Nat /\ Power(base)[k - 1] \in Nat
           /\ Item(s, k) * Power(base)[k - 1] \in Nat
<1>1. k - 1 \in Nat /\ (k - 1) + 1 = k
  OBVIOUS
<1>2. Item(s, k) \in Nat /\ Power(base)[k - 1] \in Nat
  BY <1>1, PowerFacts DEF Item, NatItems
<1>3. /\ Worth(base, s) \in [Nat -> Nat]
      /\ \A i \in Nat : Worth(base, s)[i + 1] = Worth(base, s)[i] + Item(s, i + 1) * Power(base)[i]
  BY WorthFacts DEF NatItems
<1>4. Worth(base, s)[(k - 1) + 1] = Worth(base, s)[k - 1] + Item(s, (k - 1) + 1) * Power(base)[k - 1]
  BY <1>1, <1>3, Zenon
<1>5. Worth(base, s)[k] = Worth(base, s)[k - 1] + Item(s, k) * Power(base)[k - 1]
  BY <1>1, <1>4, Zenon
<1> HIDE DEF Item
<1> QED
  BY <1>1, <1>2, <1>3, <1>5

LEMMA WorthZero ==
    ASSUME NEW base \in Nat, base > 1,
           NEW s, NatItems(s)
    PROVE  Worth(base, s)[0] = 0 /\ \A k \in Nat : Worth(base, s)[k] \in Nat
BY WorthFacts DEF NatItems

\* equal items are worth the same
LEMMA SameWorth ==
    ASSUME NEW base \in Nat, base > 1,
           NEW s, NEW t, NatItems(s), NatItems(t), NEW n \in Nat,
           \A k \in 1..n : Item(s, k) = Item(t, k)
    PROVE  Worth(base, s)[n] = Worth(base, t)[n]
<1> DEFINE Good == {k \in 0..n : Worth(base, s)[k] = Worth(base, t)[k]}
<1>1. 0 \in Good
  BY WorthZero
<1>2. ASSUME NEW k \in 1..n, k - 1 \in Good PROVE k \in Good
  <2>1. k \in Nat \ {0} /\ k \in 0..n /\ Worth(base, s)[k - 1] = Worth(base, t)[k - 1]
    BY <1>2
  <2>2. /\ Worth(base, s)[k] = Worth(base, s)[k - 1] + Item(s, k) * Power(base)[k - 1]
        /\ Worth(base, t)[k] = Worth(base, t)[k - 1] + Item(t, k) * Power(base)[k - 1]
    BY <2>1, WorthStep
  <2> HIDE DEF Item
  <2>3. Worth(base, s)[k] = Worth(base, t)[k]
    BY <2>1, <2>2, Zenon
  <2> QED
    BY <2>1, <2>3
<1> HIDE DEF Good
<1>3. \A k \in 0..n : k \in Good
  BY <1>1, <1>2, Climb
<1>4. n \in 0..n
  OBVIOUS
<1> QED
  BY <1>3, <1>4 DEF Good

\* what is worth above the last item is nothing
LEMMA WorthAbove ==
    ASSUME NEW base \in Nat, base > 1,
           NEW s, NatItems(s), NEW m \in Nat, NEW n \in Nat, m <= n,
           \A k \in Nat : k > m => k \notin DOMAIN s
    PROVE  Worth(base, s)[n] = Worth(base, s)[m]
<1> DEFINE Good == {k \in 0..n : k >= m => Worth(base, s)[k] = Worth(base, s)[m]}
<1>1. 0 \in Good
  OBVIOUS
<1>2. ASSUME NEW k \in 1..n, k - 1 \in Good PROVE k \in Good
  <2>1. k \in Nat \ {0} /\ k \in 0..n
    OBVIOUS
  <2>2. CASE k > m
    <3>1. Worth(base, s)[k - 1] = Worth(base, s)[m]
      BY <1>2, <2>2
    <3>2. Item(s, k) = 0
      BY <2>1, <2>2 DEF Item
    <3>3. /\ Worth(base, s)[k] = Worth(base, s)[k - 1] + Item(s, k) * Power(base)[k - 1]
          /\ Worth(base, s)[k - 1] \in Nat /\ Power(base)[k - 1] \in Nat
      BY <2>1, WorthStep
    <3> QED
      BY <2>1, <3>1, <3>2, <3>3
  <2>3. CASE k <= m
    BY <2>1, <2>3
  <2> QED
    BY <2>1, <2>2, <2>3
<1> HIDE DEF Good
<1>3. \A k \in 0..n : k \in Good
  BY <1>1, <1>2, Climb
<1>4. n \in 0..n /\ n >= m
  OBVIOUS
<1> QED
  BY <1>3, <1>4 DEF Good

\* an item's part in the number
LEMMA ItemBelow ==
    ASSUME NEW base \in Nat, base > 1,
           NEW s, NatItems(s), NEW n \in Nat, NEW i \in 1..n
    PROVE  Item(s, i) * Power(base)[i - 1] <= Worth(base, s)[n]
<1> DEFINE Good == {k \in 0..n : k >= i => Item(s, i) * Power(base)[i - 1] <= Worth(base, s)[k]}
<1>1. 0 \in Good
  OBVIOUS
<1>2. ASSUME NEW k \in 1..n, k - 1 \in Good PROVE k \in Good
  <2>1. k \in Nat \ {0} /\ k \in 0..n /\ i \in Nat \ {0}
    OBVIOUS
  <2>2. /\ Worth(base, s)[k] = Worth(base, s)[k - 1] + Item(s, k) * Power(base)[k - 1]
        /\ Worth(base, s)[k] \in Nat /\ Worth(base, s)[k - 1] \in Nat
        /\ Item(s, k) * Power(base)[k - 1] \in Nat /\ Item(s, i) * Power(base)[i - 1] \in Nat
    BY <2>1, WorthStep
  <2> HIDE DEF Item
  <2>3. CASE k > i
    <3>1. Item(s, i) * Power(base)[i - 1] <= Worth(base, s)[k - 1]
      BY <1>2, <2>3
    <3>2. Item(s, i) * Power(base)[i - 1] <= Worth(base, s)[k]
      <4> DEFINE a == Item(s, i) * Power(base)[i - 1]
                 b == Item(s, k) * Power(base)[k - 1]
      <4>1. a \in Nat /\ b \in Nat /\ Worth(base, s)[k] = Worth(base, s)[k - 1] + b
            /\ a <= Worth(base, s)[k - 1] /\ Worth(base, s)[k - 1] \in Nat
        BY <2>2, <3>1
      <4> HIDE DEF a, b
      <4>2. a <= Worth(base, s)[k]
        BY <4>1
      <4> QED
        BY <4>2 DEF a
    <3> QED
      BY <2>1, <3>2
  <2>4. CASE k = i
    <3> DEFINE b == Item(s, k) * Power(base)[k - 1]
    <3>1. b \in Nat /\ Worth(base, s)[k] = Worth(base, s)[k - 1] + b /\ Worth(base, s)[k - 1] \in Nat
      BY <2>2
    <3> HIDE DEF b
    <3>2. b <= Worth(base, s)[k]
      BY <3>1
    <3> QED
      BY <2>1, <2>4, <3>2 DEF b
  <2>5. CASE k < i
    BY <2>1, <2>5
  <2> QED
    BY <2>1, <2>3, <2>4, <2>5
<1> HIDE DEF Good
<1>3. \A k \in 0..n : k \in Good
  BY <1>1, <1>2, Climb
<1>4. n \in 0..n /\ n >= i
  OBVIOUS
<1> QED
  BY <1>3, <1>4 DEF Good

\* chunks are digits of a number in the base
LEMMA WorthBelow ==
    ASSUME NEW base \in Nat, base > 1,
           NEW s, NatItems(s), \A k \in DOMAIN s : s[k] <= base - 1, NEW n \in Nat
    PROVE  Worth(base, s)[n] < Power(base)[n]
<1> DEFINE Good == {k \in 0..n : Worth(base, s)[k] < Power(base)[k]}
<1>1. 0 \in Good
  <2>1. Power(base)[0] = 1
    BY PowerFacts
  <2>2. Worth(base, s)[0] = 0
    BY WorthZero
  <2> QED
    BY <2>1, <2>2
<1>2. ASSUME NEW k \in 1..n, k - 1 \in Good PROVE k \in Good
  <2>1. k \in Nat \ {0} /\ k \in 0..n /\ k - 1 \in Nat /\ (k - 1) + 1 = k
        /\ Worth(base, s)[k - 1] < Power(base)[k - 1]
    BY <1>2
  <2>2. Power(base)[k] = base * Power(base)[k - 1]
    BY <2>1, PowerFacts
  <2>3. /\ Worth(base, s)[k] = Worth(base, s)[k - 1] + Item(s, k) * Power(base)[k - 1]
        /\ Worth(base, s)[k - 1] \in Nat /\ Power(base)[k - 1] \in Nat /\ Item(s, k) \in Nat
    BY <2>1, WorthStep
  <2>4. Item(s, k) <= base - 1 /\ base - 1 \in Nat
    BY DEF Item
  <2> HIDE DEF Item
  <2>5. ASSUME NEW p \in Nat, NEW x \in Nat, x <= base - 1
        PROVE  x * p <= (base - 1) * p /\ base * p = (base - 1) * p + p
               /\ x * p \in Nat /\ (base - 1) * p \in Nat
    <3>1. PICK y \in Nat : y = base - 1 - x
      BY <2>5
    <3>2. base - 1 = x + y /\ base = x + y + 1
      BY <3>1
    <3>3. (x + y) * p = x * p + y * p /\ (x + y + 1) * p = (x * p + y * p) + p
          /\ x * p \in Nat /\ y * p \in Nat
      OBVIOUS
    <3>4. (base - 1) * p = x * p + y * p /\ base * p = (x * p + y * p) + p
      BY <3>2, <3>3, Zenon
    <3> QED
      BY <3>3, <3>4
  <2>6. Item(s, k) * Power(base)[k - 1] <= (base - 1) * Power(base)[k - 1]
        /\ base * Power(base)[k - 1] = (base - 1) * Power(base)[k - 1] + Power(base)[k - 1]
        /\ Item(s, k) * Power(base)[k - 1] \in Nat /\ (base - 1) * Power(base)[k - 1] \in Nat
    BY <2>3, <2>4, <2>5
  <2>7. Worth(base, s)[k] < Power(base)[k]
    <3> DEFINE a == Item(s, k) * Power(base)[k - 1]
               b == (base - 1) * Power(base)[k - 1]
    <3>1. a \in Nat /\ b \in Nat /\ a <= b /\ Power(base)[k] = b + Power(base)[k - 1]
          /\ Worth(base, s)[k] = Worth(base, s)[k - 1] + a
      BY <2>2, <2>3, <2>6
    <3> HIDE DEF a, b
    <3> QED
      BY <2>1, <2>3, <3>1
  <2> QED
    BY <2>1, <2>7
<1> HIDE DEF Good
<1>3. \A k \in 0..n : k \in Good
  BY <1>1, <1>2, Climb
<1>4. n \in 0..n
  OBVIOUS
<1> QED
  BY <1>3, <1>4 DEF Good

\* products that the next lemmas need
LEMMA Spread ==
    ASSUME NEW a \in Nat, NEW b \in Nat, NEW c \in Nat
    PROVE  /\ (a + b) * c = a * c + b * c
           /\ (a * b) * c = a * (b * c) /\ (a * b) * c = b * (a * c)
           /\ a * b \in Nat /\ a * c \in Nat /\ b * c \in Nat /\ a * (b * c) \in Nat
OBVIOUS

\* t is s but for the i-th item
ElseSame(s, t, i) == \A k \in Nat : k # i => Item(t, k) = Item(s, k)

\* what a number loses and gains with an item of its
LEMMA ItemChanged ==
    ASSUME NEW base \in Nat, base > 1,
           NEW s, NEW t, NatItems(s), NatItems(t), NEW n \in Nat, NEW i \in 1..n,
           ElseSame(s, t, i)
    PROVE  Worth(base, t)[n] + Item(s, i) * Power(base)[i - 1]
               = Worth(base, s)[n] + Item(t, i) * Power(base)[i - 1]
<1>1. i \in Nat \ {0}
  OBVIOUS
<1>2. PICK a \in Nat : a = Item(s, i) * Power(base)[i - 1]
  BY <1>1, WorthStep
<1>3. PICK b \in Nat : b = Item(t, i) * Power(base)[i - 1]
  BY <1>1, WorthStep
<1> DEFINE Good == {k \in 0..n : k >= i => Worth(base, t)[k] + a = Worth(base, s)[k] + b}
<1>4. 0 \in Good
  OBVIOUS
<1>5. ASSUME NEW k \in 1..n, k - 1 \in Good PROVE k \in Good
  <2>1. k \in Nat \ {0} /\ k \in 0..n /\ k \in Nat
    OBVIOUS
  <2>2. Worth(base, s)[k] = Worth(base, s)[k - 1] + Item(s, k) * Power(base)[k - 1]
        /\ Worth(base, s)[k - 1] \in Nat
    BY <2>1, WorthStep
  <2>3. Worth(base, t)[k] = Worth(base, t)[k - 1] + Item(t, k) * Power(base)[k - 1]
        /\ Worth(base, t)[k - 1] \in Nat
    BY <2>1, WorthStep
  <2>4. CASE k > i
    <3>1. Worth(base, t)[k - 1] + a = Worth(base, s)[k - 1] + b
      BY <1>5, <2>4
    <3>2. k # i
      BY <2>4
    <3>3. Item(t, k) = Item(s, k)
      BY <2>1, <3>2, Zenon DEF ElseSame
    <3>4. PICK c \in Nat : c = Item(s, k) * Power(base)[k - 1]
      BY <2>1, WorthStep
    <3>5. Worth(base, s)[k] = Worth(base, s)[k - 1] + c /\ Worth(base, t)[k] = Worth(base, t)[k - 1] + c
      BY <2>2, <2>3, <3>3, <3>4, Zenon
    <3>6. Worth(base, t)[k] + a = Worth(base, s)[k] + b
      BY <2>2, <2>3, <3>1, <3>5
    <3> QED
      BY <2>1, <3>6
  <2>5. CASE k = i
    <3>1. k - 1 \in Nat /\ \A j \in 1..(k - 1) : j \in Nat /\ j # i
      BY <2>5
    <3>2. \A j \in 1..(k - 1) : Item(s, j) = Item(t, j)
      BY <3>1, Zenon DEF ElseSame
    <3>3. Worth(base, s)[k - 1] = Worth(base, t)[k - 1]
      BY <3>1, <3>2, SameWorth
    <3>4. Worth(base, s)[k] = Worth(base, s)[k - 1] + a /\ Worth(base, t)[k] = Worth(base, t)[k - 1] + b
      BY <1>2, <1>3, <2>2, <2>3, <2>5, Zenon
    <3>5. Worth(base, t)[k] + a = Worth(base, s)[k] + b
      BY <2>2, <2>3, <3>3, <3>4
    <3> QED
      BY <2>1, <3>5
  <2>6. CASE k < i
    BY <2>1, <2>6
  <2> QED
    BY <1>1, <2>1, <2>4, <2>5, <2>6
<1> HIDE DEF Good
<1>6. \A k \in 0..n : k \in Good
  BY <1>4, <1>5, Climb
<1>7. n \in 0..n /\ n >= i
  OBVIOUS
<1>8. Worth(base, t)[n] + a = Worth(base, s)[n] + b
  BY <1>6, <1>7 DEF Good
<1> QED
  BY <1>2, <1>3, <1>8, Zenon

\* what moves to the next item is worth base times as much there
LEMMA CarryMoved ==
    ASSUME NEW base \in Nat, base > 1,
           NEW s, NEW u, NEW t, NatItems(s), NatItems(u), NatItems(t),
           NEW n \in Nat, NEW i \in 1..n, i + 1 \in 1..n, NEW c \in Nat,
           ElseSame(s, u, i), ElseSame(u, t, i + 1),
           Item(s, i) = Item(u, i) + base * c,
           Item(t, i + 1) = Item(u, i + 1) + c
    PROVE  Worth(base, t)[n] = Worth(base, s)[n]
<1>1. i \in Nat /\ i - 1 \in Nat /\ (i - 1) + 1 = i /\ (i + 1) - 1 = i
  OBVIOUS
<1>2. PICK p \in Nat : p = Power(base)[i - 1]
  BY <1>1, PowerFacts
<1>3. Power(base)[i] = base * p
  <2>1. Power(base)[(i - 1) + 1] = base * Power(base)[i - 1]
    BY <1>1, PowerFacts
  <2> QED
    BY <1>1, <1>2, <2>1, Zenon
<1>4. PICK x \in Nat : x = Item(u, i)
  BY DEF Item, NatItems
<1>5. PICK y \in Nat : y = Item(u, i + 1)
  BY DEF Item, NatItems
<1>6. Worth(base, u)[n] + (x + base * c) * p = Worth(base, s)[n] + x * p
  <2>1. Worth(base, u)[n] + Item(s, i) * Power(base)[i - 1] = Worth(base, s)[n] + Item(u, i) * Power(base)[i - 1]
    BY ItemChanged
  <2> QED
    BY <1>2, <1>4, <2>1, Zenon
<1>7. Worth(base, t)[n] + y * (base * p) = Worth(base, u)[n] + (y + c) * (base * p)
  <2>1. Worth(base, t)[n] + Item(u, i + 1) * Power(base)[(i + 1) - 1]
            = Worth(base, u)[n] + Item(t, i + 1) * Power(base)[(i + 1) - 1]
    BY ItemChanged
  <2> QED
    BY <1>1, <1>3, <1>5, <2>1, Zenon
<1>8. PICK v, w, z \in Nat : v = Worth(base, s)[n] /\ w = Worth(base, u)[n] /\ z = Worth(base, t)[n]
  BY WorthZero
<1>9. base \in Nat /\ base * c \in Nat /\ base * p \in Nat
  OBVIOUS
<1>10. PICK g \in Nat : g = (base * c) * p
  BY <1>9
<1>11. PICK e \in Nat : e = x * p
  BY <1>9
<1>12. PICK f \in Nat : f = y * (base * p)
  BY <1>9
<1>13. (x + base * c) * p = e + g
  BY <1>9, <1>10, <1>11, Spread
<1>14. (y + c) * (base * p) = f + c * (base * p)
  BY <1>9, <1>12, Spread
<1>15. c * (base * p) = g
  BY <1>9, <1>10, Spread
<1>16. w + (e + g) = v + e
  BY <1>6, <1>8, <1>11, <1>13, Zenon
<1>17. z + f = w + (f + g)
  BY <1>7, <1>8, <1>12, <1>14, <1>15, Zenon
<1>18. z = v
  BY <1>16, <1>17
<1> QED
  BY <1>8, <1>18, Zenon

\* a row adds the multiplicand, times a chunk, at the chunk's place
LEMMA RowWorth ==
    ASSUME NEW base \in Nat, base > 1,
           NEW s, NEW t, NEW l, NatItems(s), NatItems(t), NatItems(l),
           NEW n \in Nat, NEW d \in Nat, NEW r \in 1..n,
           \A k \in 1..n : k < r => Item(t, k) = Item(s, k),
           \A k \in 1..n : k >= r => Item(t, k) = Item(s, k) + Item(l, k - r + 1) * d
    PROVE  Worth(base, t)[n] = Worth(base, s)[n] + Worth(base, l)[n - r + 1] * (d * Power(base)[r - 1])
<1>1. r \in Nat /\ r - 1 \in Nat
  OBVIOUS
<1>2. PICK q \in Nat : q = Power(base)[r - 1]
  BY <1>1, PowerFacts
<1>3. PICK e \in Nat : e = d * q
  OBVIOUS
<1> DEFINE Good == {k \in 0..n :
                       /\ k < r => Worth(base, t)[k] = Worth(base, s)[k]
                       /\ k >= r => Worth(base, t)[k] = Worth(base, s)[k] + Worth(base, l)[k - r + 1] * e}
<1>4. 0 \in Good
  BY WorthZero
<1>5. ASSUME NEW k \in 1..n, k - 1 \in Good PROVE k \in Good
  <2>1. k \in Nat \ {0} /\ k \in 0..n /\ k \in 1..n
    OBVIOUS
  <2>2. Worth(base, s)[k] = Worth(base, s)[k - 1] + Item(s, k) * Power(base)[k - 1]
        /\ Worth(base, s)[k - 1] \in Nat
    BY <2>1, WorthStep
  <2>3. Worth(base, t)[k] = Worth(base, t)[k - 1] + Item(t, k) * Power(base)[k - 1]
        /\ Worth(base, t)[k - 1] \in Nat
    BY <2>1, WorthStep
  <2>4. CASE k < r
    <3>1. Worth(base, t)[k - 1] = Worth(base, s)[k - 1]
      BY <1>5, <2>4
    <3>2. Item(t, k) = Item(s, k)
      BY <2>1, <2>4, Zenon
    <3>3. Worth(base, t)[k] = Worth(base, s)[k]
      BY <2>2, <2>3, <3>1, <3>2, Zenon
    <3> QED
      BY <2>1, <2>4, <3>3
  <2>5. CASE k >= r
    <3>1. PICK j \in Nat : j = k - r
      BY <2>5
    <3>2. /\ k - r + 1 = j + 1 /\ j + 1 \in Nat \ {0} /\ (j + 1) - 1 = j
          /\ j + (r - 1) = k - 1
      BY <3>1
    <3>3. PICK b \in Nat : b = Item(l, j + 1)
      BY <3>2, WorthStep
    <3>4. PICK p \in Nat : p = Power(base)[j]
      BY PowerFacts
    <3>5. PICK a \in Nat : a = Item(s, k)
      BY <2>1, WorthStep
    <3>6. Power(base)[k - 1] = p * q
      <4>1. Power(base)[j + (r - 1)] = Power(base)[j] * Power(base)[r - 1]
        BY <1>1, PowerSum
      <4> QED
        BY <1>2, <3>2, <3>4, <4>1, Zenon
    <3>7. Item(t, k) = a + b * d
      BY <2>1, <2>5, <3>2, <3>3, <3>5, Zenon
    <3>8. PICK w \in Nat : w = Worth(base, l)[j]
      BY WorthZero
    <3>9. Worth(base, l)[j + 1] = w + b * p
      <4>1. Worth(base, l)[j + 1] = Worth(base, l)[(j + 1) - 1] + Item(l, j + 1) * Power(base)[(j + 1) - 1]
        BY <3>2, WorthStep
      <4> QED
        BY <3>2, <3>3, <3>4, <3>8, <4>1, Zenon
    <3>10. Worth(base, t)[k - 1] = Worth(base, s)[k - 1] + w * e
      <4>1. CASE k = r
        <5>1. Worth(base, t)[k - 1] = Worth(base, s)[k - 1]
          BY <1>5, <4>1
        <5>2. j = 0
          BY <3>1, <4>1
        <5>3. w = 0
          BY <3>8, <5>2, WorthZero
        <5>4. w * e = 0
          BY <5>3
        <5> QED
          BY <2>2, <5>1, <5>4
      <4>2. CASE k # r
        <5>1. k - 1 >= r /\ (k - 1) - r + 1 = j
          BY <2>5, <3>1, <4>2
        <5>2. Worth(base, t)[k - 1] = Worth(base, s)[k - 1] + Worth(base, l)[(k - 1) - r + 1] * e
          BY <1>5, <5>1
        <5> QED
          BY <3>8, <5>1, <5>2, Zenon
      <4> QED
        BY <4>1, <4>2
    <3>11. PICK x \in Nat : x = a * (p * q)
      BY Spread
    <3>12. PICK y \in Nat : y = w * e
      BY Spread
    <3>13. PICK z \in Nat : z = (b * p) * e
      BY Spread
    <3>14. (b * d) * (p * q) = z
      <4>1. p * q \in Nat /\ b * p \in Nat
        OBVIOUS
      <4>2. (b * d) * (p * q) = b * (d * (p * q))
        BY <4>1, Spread
      <4>3. d * (p * q) = p * (d * q)
        BY Spread
      <4>4. (b * p) * (d * q) = b * (p * (d * q))
        BY <1>3, Spread
      <4> QED
        BY <1>3, <3>13, <4>2, <4>3, <4>4, Zenon
    <3>15. (a + b * d) * (p * q) = x + z
      <4>1. b * d \in Nat /\ p * q \in Nat
        OBVIOUS
      <4>2. (a + b * d) * (p * q) = a * (p * q) + (b * d) * (p * q)
        BY <4>1, Spread
      <4> QED
        BY <3>11, <3>14, <4>2, Zenon
    <3>16. (w + b * p) * e = y + z
      <4>1. b * p \in Nat
        OBVIOUS
      <4>2. (w + b * p) * e = w * e + (b * p) * e
        BY <4>1, Spread
      <4> QED
        BY <3>12, <3>13, <4>2, Zenon
    <3>17. Worth(base, s)[k] = Worth(base, s)[k - 1] + x
      BY <2>2, <3>5, <3>6, <3>11, Zenon
    <3>18. Worth(base, t)[k] = Worth(base, t)[k - 1] + (x + z)
      BY <2>3, <3>6, <3>7, <3>15, Zenon
    <3>19. Worth(base, t)[k - 1] = Worth(base, s)[k - 1] + y
      BY <3>10, <3>12, Zenon
    <3>20. Worth(base, t)[k] = Worth(base, s)[k] + (y + z)
      BY <2>2, <3>17, <3>18, <3>19
    <3>21. Worth(base, t)[k] = Worth(base, s)[k] + Worth(base, l)[k - r + 1] * e
      BY <3>2, <3>9, <3>16, <3>20, Zenon
    <3> QED
      BY <2>1, <2>5, <3>21
  <2> QED
    BY <1>1, <2>1, <2>4, <2>5
<1> HIDE DEF Good
<1>6. \A k \in 0..n : k \in Good
  BY <1>4, <1>5, Climb
<1>7. n \in 0..n /\ n >= r
  OBVIOUS
<1>8. Worth(base, t)[n] = Worth(base, s)[n] + Worth(base, l)[n - r + 1] * e
  BY <1>6, <1>7 DEF Good
<1> QED
  BY <1>2, <1>3, <1>8, Zenon

\* the items of t, above the first j of s
LEMMA WorthShift ==
    ASSUME NEW base \in Nat, base > 1,
           NEW s, NEW t, NatItems(s), NatItems(t), NEW j \in Nat, NEW n \in Nat,
           \A i \in 1..n : Item(s, j + i) = Item(t, i)
    PROVE  Worth(base, s)[j + n] = Worth(base, s)[j] + Power(base)[j] * Worth(base, t)[n]
<1> DEFINE Good == {i \in 0..n : Worth(base, s)[j + i]
                                    = Worth(base, s)[j] + Power(base)[j] * Worth(base, t)[i]}
<1>1. /\ Worth(base, s)[j] \in Nat /\ Power(base)[j] \in Nat
      /\ Worth(base, t)[0] = 0
  BY WorthZero, PowerFacts
<1>2. 0 \in Good
  <2>1. Power(base)[j] * 0 = 0 /\ j + 0 = j
    BY <1>1
  <2> QED
    BY <1>1, <2>1
<1>3. ASSUME NEW i \in 1..n, i - 1 \in Good PROVE i \in Good
  <2>1. /\ i - 1 \in Nat /\ i \in Nat \ {0} /\ j + i \in Nat \ {0} /\ (j + i) - 1 = j + (i - 1)
        /\ i \in 0..n
    OBVIOUS
  <2>2. Worth(base, s)[j + (i - 1)] = Worth(base, s)[j] + Power(base)[j] * Worth(base, t)[i - 1]
    BY <1>3
  <2>3. Worth(base, s)[j + i] = Worth(base, s)[j + (i - 1)] + Item(t, i) * Power(base)[j + (i - 1)]
    <3>1. \A m \in Nat \ {0} :
              Worth(base, s)[m] = Worth(base, s)[m - 1] + Item(s, m) * Power(base)[m - 1]
      BY WorthStep
    <3>2. Item(s, j + i) = Item(t, i)
      OBVIOUS
    <3> QED
      BY <2>1, <3>1, <3>2, Zenon
  <2>4. /\ Worth(base, t)[i] = Worth(base, t)[i - 1] + Item(t, i) * Power(base)[i - 1]
        /\ Worth(base, t)[i - 1] \in Nat /\ Item(t, i) \in Nat /\ Power(base)[i - 1] \in Nat
    BY <2>1, WorthStep
  <2>5. Power(base)[j + (i - 1)] = Power(base)[j] * Power(base)[i - 1]
    BY <2>1, PowerSum
  <2>6. PICK p \in Nat : p = Power(base)[j]
    BY <1>1
  <2>7. PICK q \in Nat : q = Power(base)[i - 1]
    BY <2>4
  <2>8. PICK w \in Nat : w = Worth(base, t)[i - 1]
    BY <2>4
  <2>9. PICK x \in Nat : x = Item(t, i)
    BY <2>4
  <2>10. PICK v \in Nat : v = Worth(base, s)[j]
    BY <1>1
  <2>11. (v + p * w) + x * (p * q) = v + p * (w + x * q)
    OBVIOUS
  <2>12. Worth(base, s)[j + i] = (v + p * w) + x * (p * q)
    BY <2>2, <2>3, <2>5, <2>6, <2>7, <2>8, <2>9, <2>10, Zenon
  <2>13. Worth(base, t)[i] = w + x * q
    BY <2>4, <2>7, <2>8, <2>9, Zenon
  <2> QED
    BY <2>1, <2>6, <2>10, <2>11, <2>12, <2>13, Zenon
<1> HIDE DEF Good
<1>4. \A i \in 0..n : i \in Good
  BY <1>2, <1>3, Climb
<1>5. n \in Good
  BY <1>4
<1> QED
  BY <1>5 DEF Good

=============================================================================
