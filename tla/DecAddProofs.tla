---------------------------- MODULE DecAddProofs ----------------------------
(***************************************************************************)
(* Proofs about decAddOp, for every pair of numbers, every context and     *)
(* every way the result shares a place with the operands: the sum is       *)
(* correctly rounded, its flags tell what was lost, and it fits.           *)
(***************************************************************************)
EXTENDS DecAddCorrect, DecRoundProofs

\* what is known of n * 10^q is known of it with more zeros
LEMMA PendingScaled ==
    ASSUME NEW c, NEW e, NEW r, NEW n, NEW q, NEW ctx, Pending(c, e, r, n, q, ctx),
           Digits(c) = ctx.digits, NEW j \in Nat, NEW m, m = n * powers[j]
    PROVE  Pending(c, e, r, m, q - j, ctx)
<1>1. /\ c \in Nat \ {0} /\ e \in Int /\ r \in -1..9
      /\ n \in Nat \ {0} /\ q \in Int /\ e - q \in Nat
      /\ Tells(r, n - c * powers[e - q], powers[e - q]) /\ Digits(c) <= ctx.digits
  BY DEF Pending
<1>2. PICK k \in Nat, i \in Nat : k = e - q /\ i = e - (q - j) /\ i = j + k /\ q - j \in Int
  BY <1>1
<1>3. PICK u \in Nat \ {0}, v \in Nat \ {0} : u = powers[k] /\ v = powers[j]
  BY PowersFacts
<1>4. powers[i] = v * u
  BY <1>2, <1>3, PowersSum
<1>5. PICK rest \in Int : rest = n - c * u /\ Tells(r, rest, u)
  BY <1>1, <1>2, <1>3
<1>6. m \in Nat \ {0} /\ m - c * (v * u) = v * rest
  <2>1. m = n * v
    BY <1>3
  <2> QED
    BY <1>1, <1>5, <2>1
<1>7. Tells(r, v * rest, v * u)
  <2>1. v * rest \in Int /\ v * u \in Nat \ {0}
    BY <1>3, <1>5
  <2>2. rest = 0 => v * rest = 0
    BY <1>3
  <2>3. 0 < rest => 0 < v * rest
    BY <1>3, <1>5
  <2>4. rest < 0 => v * rest < 0
    BY <1>3, <1>5
  <2>5. 2 * rest < u => 2 * (v * rest) < v * u
    BY <1>3, <1>5
  <2>6. u < 2 * rest => v * u < 2 * (v * rest)
    BY <1>3, <1>5
  <2>7. 2 * rest = u => 2 * (v * rest) = v * u
    BY <1>3, <1>5
  <2>8. rest < u => v * rest < v * u
    BY <1>3, <1>5
  <2>9. -u < 20 * rest => -(v * u) < 20 * (v * rest)
    BY <1>3, <1>5
  <2> QED
    BY <1>5, <2>1, <2>2, <2>3, <2>4, <2>5, <2>6, <2>7, <2>8, <2>9 DEF Tells
<1>8. Tells(r, m - c * powers[e - (q - j)], powers[e - (q - j)])
  BY <1>2, <1>4, <1>6, <1>7
<1> QED
  BY <1>1, <1>2, <1>6, <1>8 DEF Pending

Shifted(x, k) == [x EXCEPT !.coef = @ * powers[k], !.exp = @ - k]

LEMMA ShiftedIs ==
    ASSUME NEW neg \in BOOLEAN, NEW c \in Nat, NEW e \in Int, NEW k \in Nat
    PROVE  Shifted(Finite(neg, c, e), k) = Finite(neg, c * powers[k], e - k)
<1> DEFINE x == Finite(neg, c, e)
<1>1. PICK a \in Nat, b \in Int : a = c * powers[k] /\ b = e - k
  BY PowersFacts
<1>2. x.coef = c /\ x.exp = e
  BY FiniteFields
<1>3. [x EXCEPT !.coef = a, !.exp = b] = Finite(neg, a, b)
  <2>1. [x EXCEPT !.coef = a] = Finite(neg, a, e)
    BY DEF Finite
  <2>2. [Finite(neg, a, e) EXCEPT !.exp = b] = Finite(neg, a, b)
    BY DEF Finite
  <2>3. [x EXCEPT !.coef = a, !.exp = b] = [[x EXCEPT !.coef = a] EXCEPT !.exp = b]
    OBVIOUS
  <2> QED
    BY <2>1, <2>2, <2>3, Zenon
<1>4. x.coef * powers[k] = a /\ x.exp - k = b
  BY <1>1, <1>2
<1> QED
  BY <1>1, <1>3, <1>4, Zenon DEF Shifted

\* padding the only operand that is not zero down to the exponent of the other
Padded(x, z, room) ==
    IF x.exp - z > 0
    THEN Shifted(x, IF x.exp - z > room THEN room ELSE x.exp - z)
    ELSE x

PaddedFlags(x, z, room, st) ==
    IF x.exp - z > 0 /\ x.exp - z > room THEN st \cup {"Rounded"} ELSE st

LEMMA PadCarries ==
    ASSUME NEW ctx, Context(ctx), NEW x, NEW r, NEW st, NEW neg, NEW n \in Nat \ {0},
           NEW e, Carries(x, r, st, neg, n, e, ctx), NEW z \in Int,
           NEW q, q = IF e <= z THEN e ELSE z, NEW j, j = e - q, NEW m, m = n * powers[j],
           NEW room, room = ctx.digits - Digits(x.coef)
    PROVE  Carries(Padded(x, z, room), r, PaddedFlags(x, z, room, st), neg, m, q, ctx)
<1>1. /\ e \in Int /\ neg \in BOOLEAN /\ q \in Int /\ j \in Nat
  BY DEF Carries
<1>2. PICK c, f : x = Finite(neg, c, f) /\ st = Lost(f > e, r) /\ Pending(c, f, r, n, e, ctx)
  BY DEF Carries
<1>3. c \in Nat \ {0} /\ f \in Int /\ f - e \in Nat /\ Digits(c) <= ctx.digits /\ r \in -1..9
  BY <1>2 DEF Pending
<1>4. x.coef = c /\ x.exp = f
  BY <1>2, FiniteFields
<1>5. PICK P \in Nat \ {0}, d \in Nat \ {0} :
          P = ctx.digits /\ d = Digits(c) /\ room = P - d /\ d <= P
  BY <1>3, <1>4, DigitsFacts, ContextRange
<1>6. PICK want \in Int : want = f - z
  BY <1>3
<1>7. PICK v \in Nat \ {0} : v = powers[j]
  BY <1>1, PowersFacts
<1>8. m \in Nat \ {0}
  BY <1>7
<1>9. CASE want <= 0
  <2>1. Padded(x, z, room) = x /\ PaddedFlags(x, z, room, st) = st
    <3>1. ~(x.exp - z > 0)
      BY <1>4, <1>6, <1>9
    <3> QED
      BY <3>1, Zenon DEF Padded, PaddedFlags
  <2>2. q = e /\ j = 0
    BY <1>1, <1>3, <1>6, <1>9
  <2>3. m = n
    BY <2>2, PowersFacts
  <2> QED
    BY <2>1, <2>2, <2>3
<1>10. CASE want > 0 /\ d = P
  <2>1. room = 0 /\ want > room
    BY <1>5, <1>10
  <2>2. Padded(x, z, room) = Shifted(x, 0) /\ PaddedFlags(x, z, room, st) = st \cup {"Rounded"}
    <3>1. x.exp - z > 0 /\ x.exp - z > room
      BY <1>4, <1>6, <1>10, <2>1
    <3> QED
      BY <2>1, <3>1, Zenon DEF Padded, PaddedFlags
  <2>3. Shifted(x, 0) = x
    <3>1. c * powers[0] = c /\ f - 0 = f
      BY <1>3, PowersFacts
    <3>2. Shifted(Finite(neg, c, f), 0) = Finite(neg, c * powers[0], f - 0)
      BY <1>1, <1>3, ShiftedIs
    <3> QED
      BY <1>2, <3>1, <3>2, Zenon
  <2>4. Pending(c, f, r, m, q, ctx)
    <3>1. Pending(c, f, r, m, e - j, ctx)
      BY <1>1, <1>2, <1>5, <1>10, PendingScaled
    <3>2. e - j = q
      BY <1>1
    <3> QED
      BY <3>1, <3>2
  <2>5. PICK cut \in BOOLEAN : (cut <=> f > q) /\ cut
    <3>1. f > q
      BY <1>1, <1>3, <1>6, <1>10
    <3>2. PICK cut \in BOOLEAN : cut <=> f > q
      OBVIOUS
    <3> QED
      BY <3>1, <3>2
  <2>6. st \cup {"Rounded"} = Lost(f > q, r)
    BY <1>2, <2>5, Zenon DEF Lost
  <2> QED
    BY <1>1, <1>2, <1>8, <2>2, <2>3, <2>4, <2>6 DEF Carries
<1>11. CASE want > 0 /\ d < P
  <2>1. f = e /\ r = 0 /\ n = c
    <3>1. Digits(c) # ctx.digits
      BY <1>5, <1>11
    <3> QED
      BY <1>2, <3>1, PendingUncut
  <2>2. q = z /\ j = want
    BY <1>1, <1>6, <1>11, <2>1
  <2>s. st = {}
    <3>1. ~(f > e)
      BY <1>1, <2>1
    <3> QED
      BY <1>2, <2>1, <3>1, Zenon DEF Lost
  <2>3. CASE want <= room
    <3>1. Padded(x, z, room) = Shifted(x, want) /\ PaddedFlags(x, z, room, st) = st
      <4>1. x.exp - z = want /\ want > 0 /\ ~(want > room)
        BY <1>4, <1>5, <1>6, <1>11, <2>3
      <4> QED
        BY <4>1, Zenon DEF Padded, PaddedFlags
    <3>2. Shifted(x, want) = Finite(neg, m, z)
      <4>1. want \in Nat /\ f - want = z
        BY <1>3, <1>6, <1>11
      <4>2. Shifted(x, want) = Finite(neg, c * powers[want], f - want)
        BY <1>1, <1>2, <1>3, <4>1, ShiftedIs
      <4> QED
        BY <2>1, <2>2, <4>1, <4>2, Zenon
    <3>3. Digits(m) <= ctx.digits
      <4>1. Digits(c * powers[want]) = d + want
        BY <1>3, <1>5, <1>6, <1>11, DigitsScaled
      <4>2. m = c * powers[want]
        BY <2>1, <2>2
      <4> QED
        BY <1>5, <1>6, <2>3, <4>1, <4>2
    <3>4. Pending(m, z, 0, m, z, ctx)
      <4>1. z - z = 0 /\ m = m * powers[0]
        BY <1>8, PowersFacts
      <4> QED
        BY <1>8, <3>3, <4>1, PendingExact
    <3>5. st = Lost(z > z, 0)
      <4>1. ~(z > z)
        OBVIOUS
      <4> QED
        BY <2>s, <4>1, Zenon DEF Lost
    <3> QED
      BY <1>1, <1>8, <2>1, <2>2, <3>1, <3>2, <3>4, <3>5 DEF Carries
  <2>4. CASE want > room
    <3>1. Padded(x, z, room) = Shifted(x, room)
          /\ PaddedFlags(x, z, room, st) = st \cup {"Rounded"}
      <4>1. x.exp - z = want /\ want > 0
        BY <1>4, <1>6, <1>11
      <4> QED
        BY <2>4, <4>1, Zenon DEF Padded, PaddedFlags
    <3>2. PICK a \in Nat \ {0} : a = c * powers[room] /\ Digits(a) = ctx.digits
      <4>1. room \in Nat /\ d + room = P
        BY <1>5, <1>11
      <4>2. PICK p \in Nat \ {0} : p = powers[room]
        BY <4>1, PowersFacts
      <4>3. c * p \in Nat \ {0}
        BY <1>3, <4>2
      <4>4. Digits(c * powers[room]) = d + room
        BY <1>3, <1>5, <4>1, DigitsScaled
      <4> QED
        BY <1>5, <4>1, <4>2, <4>3, <4>4
    <3>3. PICK g \in Int, i \in Nat : g = f - room /\ i = g - z /\ i = want - room /\ g > z
      BY <1>3, <1>5, <1>6, <2>4
    <3>4. Shifted(x, room) = Finite(neg, a, g)
      <4>1. room \in Nat
        BY <1>5
      <4> QED
        BY <1>1, <1>2, <1>3, <3>2, <3>3, <4>1, ShiftedIs
    <3>5. m = a * powers[i]
      <4>1. room \in Nat /\ room + i = want
        BY <1>5, <1>6, <3>3
      <4>2. PICK p \in Nat, t \in Nat : p = powers[room] /\ t = powers[i]
        BY <4>1, PowersFacts
      <4>3. powers[want] = p * t
        BY <4>1, <4>2, PowersSum
      <4>4. m = c * (p * t) /\ a = c * p
        BY <2>1, <2>2, <3>2, <4>2, <4>3
      <4>5. c * (p * t) = (c * p) * t
        BY <1>3, <4>2
      <4> QED
        BY <4>2, <4>4, <4>5
    <3>6. Pending(a, g, 0, m, z, ctx)
      <4>1. Digits(a) <= ctx.digits
        BY <1>5, <3>2
      <4> QED
        BY <3>2, <3>3, <3>5, <4>1, PendingExact
    <3>7. st \cup {"Rounded"} = Lost(g > z, 0)
      BY <2>s, <3>3, Zenon DEF Lost
    <3> QED
      BY <1>1, <1>8, <2>1, <2>2, <3>1, <3>4, <3>6, <3>7 DEF Carries
  <2> QED
    BY <1>5, <1>6, <2>3, <2>4
<1> QED
  BY <1>5, <1>6, <1>9, <1>10, <1>11

(***************************************************************************)
(* The operand that outweighs the other, which is only a residue: a little *)
(* above the larger one if the signs agree, a little below it if not.      *)
(***************************************************************************)
Little(r, rest, unit) ==
    /\ r \in {-1, 1} /\ rest \in Int /\ unit \in Nat \ {0}
    /\ r = 1 => 0 < rest /\ rest < unit
    /\ r = -1 => rest < 0 /\ -unit < rest

\* it is cut to the precision
CutsBig(c, e, k, r, rest, j, u, whole, m, q, ctx) ==
    /\ Context(ctx) /\ c \in Nat \ {0} /\ e \in Int /\ j \in Nat
    /\ k \in Nat \ {0} /\ k = Digits(c) - ctx.digits
    /\ u = powers[j] /\ Little(r, rest, u)
    /\ whole = powers[k] * u /\ (r = -1 => -whole < 20 * rest)
    /\ m = c * u + rest /\ q = e - j

LEMMA BigCuts ==
    ASSUME NEW neg \in BOOLEAN, NEW ctx, NEW c, NEW e, NEW k, NEW r, NEW rest, NEW j,
           NEW u, NEW whole, NEW m, NEW q, CutsBig(c, e, k, r, rest, j, u, whole, m, q, ctx)
    PROVE  \E s, x : /\ SetCoeff(Work(Finite(neg, c, e), r, {}), ctx)
                            = Work(x, s, CutFlags({}, s))
                     /\ Carries(x, s, CutFlags({}, s), neg, m, q, ctx)
<1>0. /\ Context(ctx) /\ c \in Nat \ {0} /\ e \in Int /\ j \in Nat
      /\ k \in Nat \ {0} /\ k = Digits(c) - ctx.digits
      /\ u = powers[j] /\ Little(r, rest, u)
      /\ whole = powers[k] * u /\ (r = -1 => -whole < 20 * rest)
      /\ m = c * u + rest /\ q = e - j
  BY DEF CutsBig
<1>1. /\ r \in {-1, 1} /\ rest \in Int /\ u \in Nat \ {0} /\ q \in Int
      /\ c \in Nat \ {0} /\ e \in Int /\ j \in Nat /\ k \in Nat \ {0}
  BY <1>0 DEF Little
<1>2. PICK P \in Nat \ {0}, d \in Nat \ {0} : P = ctx.digits /\ d = Digits(c) /\ k = d - P
  BY <1>0, ContextRange, DigitsFacts
<1>3. CutBy(c, r, rest, u, k, ctx)
  <2>1. Near(r, rest, u, whole)
    BY <1>0, <1>1 DEF Near, Little
  <2> QED
    BY <1>0, <1>1, <2>1 DEF CutBy
<1>4. PICK s \in -1..9 :
          /\ SetCoeff(Work(Finite(neg, c, e), r, {}), ctx)
                 = Work(Finite(neg, c \div powers[k], e + k), s, CutFlags({}, s))
          /\ Tells(s, (c % powers[k]) * u + rest, powers[k] * u)
  BY <1>0, <1>1, <1>3, SetCoeffCuts
<1>u. PICK v \in Nat \ {0} : v = powers[k]
  BY <1>1, PowersFacts
<1>5. PICK a \in Nat, b \in Nat : a = c \div v /\ b = c % v /\ c = a * v + b
  <2>1. c \in Nat
    BY <1>1
  <2>2. PICK a \in Nat, b \in Nat : a = c \div v /\ b = c % v
    BY <2>1, Euclid
  <2>3. c = (c \div v) * v + (c % v)
    BY <2>1, Euclid
  <2> QED
    BY <2>2, <2>3
<1>6. a # 0 /\ Digits(a) = P
  <2>1. k < d /\ d - k = P
    BY <1>1, <1>2
  <2>2. Digits(c \div powers[k]) = d - k /\ c \div powers[k] # 0
    BY <1>1, <1>2, <2>1, DigitsCut
  <2> QED
    BY <1>u, <1>5, <2>1, <2>2
<1>7. m \in Nat \ {0}
  <2>1. c * u \in Nat /\ c * u >= u
    BY <1>1
  <2>2. rest > -u
    BY <1>0, <1>1 DEF Little
  <2> QED
    BY <1>0, <1>1, <2>1, <2>2
<1>8. powers[k + j] = v * u
  BY <1>0, <1>1, <1>u, PowersSum
<1>9. m - a * (v * u) = b * u + rest
  <2>1. (a * v + b) * u = a * (v * u) + b * u
    <3>1. PICK av \in Nat : av = a * v
      BY <1>5
    <3>2. (av + b) * u = av * u + b * u
      BY <1>1, <1>5
    <3>3. (a * v) * u = a * (v * u)
      <4>1. a \in Int /\ v \in Int /\ u \in Int
        BY <1>1
      <4>2. \A x, y, z \in Int : (x * y) * z = x * (y * z)
        OBVIOUS
      <4> QED
        BY <4>1, <4>2, Zenon
    <3> QED
      BY <3>1, <3>2, <3>3, Zenon
  <2>2. a * (v * u) \in Int /\ b * u \in Int
    BY <1>1, <1>5
  <2>3. m = (a * v + b) * u + rest
    BY <1>0, <1>5, Zenon
  <2> QED
    BY <1>1, <2>1, <2>2, <2>3
<1>10. PICK i \in Nat, f \in Int : i = k + j /\ f = e + k /\ f - q = i /\ f > q
  BY <1>0, <1>1
<1>11. Tells(s, m - a * powers[f - q], powers[f - q])
  <2>1. Tells(s, b * u + rest, v * u)
    BY <1>4, <1>u, <1>5, Zenon
  <2> QED
    BY <1>8, <1>9, <1>10, <2>1, Zenon
<1>12. Pending(a, f, s, m, q, ctx)
  BY <1>1, <1>2, <1>5, <1>6, <1>7, <1>10, <1>11 DEF Pending
<1>13. CutFlags({}, s) = Lost(f > q, s)
  BY <1>10, Zenon DEF CutFlags, Lost
<1>14. Carries(Finite(neg, a, f), s, CutFlags({}, s), neg, m, q, ctx)
  BY <1>1, <1>7, <1>12, <1>13 DEF Carries
<1> QED
  BY <1>4, <1>u, <1>5, <1>10, <1>14

\* or padded to the precision
LEMMA BigKeeps ==
    ASSUME NEW neg \in BOOLEAN, NEW ctx, Context(ctx), NEW c \in Nat \ {0}, NEW e \in Int,
           NEW shift \in Nat, shift = ctx.digits - Digits(c),
           NEW r, NEW rest, NEW j \in Nat, NEW i \in Nat, i = j - shift, i >= 1,
           NEW t, t = powers[i], Little(r, rest, t), r = 1 => 2 * rest < t,
           r = -1 => -t < 20 * rest,
           NEW m, m = c * powers[j] + rest, NEW q, q = e - j
    PROVE  Carries(Shifted(Finite(neg, c, e), shift), r, {"Inexact", "Rounded"},
                   neg, m, q, ctx)
<1>1. r \in {-1, 1} /\ rest \in Int /\ t \in Nat \ {0} /\ q \in Int
  BY DEF Little
<1>2. PICK P \in Nat \ {0}, d \in Nat \ {0} : P = ctx.digits /\ d = Digits(c) /\ shift = P - d
  BY ContextRange, DigitsFacts
<1>3. PICK p \in Nat \ {0}, a \in Nat \ {0} : p = powers[shift] /\ a = c * p
  <2>1. PICK p \in Nat \ {0} : p = powers[shift]
    BY PowersFacts
  <2> QED
    BY <2>1
<1>4. Digits(a) = P
  BY <1>2, <1>3, DigitsScaled
<1>5. PICK g \in Int : g = e - shift /\ g - q = i /\ g > q
  BY <1>1
<1>6. Shifted(Finite(neg, c, e), shift) = Finite(neg, a, g)
  BY <1>3, <1>5, ShiftedIs
<1>7. powers[j] = p * t
  <2>1. j = shift + i
    OBVIOUS
  <2>2. powers[shift + i] = powers[shift] * powers[i]
    BY PowersSum
  <2> QED
    BY <1>3, <2>1, <2>2, Zenon
<1>8. m = a * t + rest /\ a * t \in Nat /\ a * t >= t
  <2>1. c * (p * t) = (c * p) * t
    BY <1>1, <1>3
  <2>2. a * t \in Nat /\ a * t >= t
    BY <1>1, <1>3
  <2> QED
    BY <1>3, <1>7, <2>1, <2>2
<1>9. m \in Nat \ {0} /\ m - a * t = rest
  <2>1. rest > -t
    BY <1>1 DEF Little
  <2> QED
    BY <1>1, <1>8, <2>1
<1>10. Tells(r, m - a * powers[g - q], powers[g - q])
  <2>1. Tells(r, rest, t)
    BY <1>1 DEF Tells, Little
  <2> QED
    BY <1>5, <1>9, <2>1
<1>11. Pending(a, g, r, m, q, ctx)
  BY <1>1, <1>2, <1>3, <1>4, <1>5, <1>9, <1>10 DEF Pending
<1>12. {"Inexact", "Rounded"} = Lost(g > q, r)
  <2>1. r # 0
    BY <1>1
  <2> QED
    BY <1>5, <2>1, Zenon DEF Lost
<1> QED
  BY <1>1, <1>6, <1>9, <1>11, <1>12 DEF Carries

Outweighs(c, e, s, q, p, ctx) ==
    /\ c \in Nat \ {0} /\ e \in Int /\ s \in Nat \ {0} /\ q \in Int /\ p \in Nat \ {0}
    /\ p = e - q /\ Digits(c) + p > Digits(s) + ctx.digits + 1

Fitted(x, shift) == IF shift > 0 THEN Shifted(x, shift) ELSE x

\* either way it carries the sum, unless it is much longer than the precision:
\* then the residue may stand for too much, but still for something
LEMMA BigCarries ==
    ASSUME NEW neg \in BOOLEAN, NEW ctx, Context(ctx), NEW c, NEW e, NEW s, NEW q, NEW p,
           Outweighs(c, e, s, q, p, ctx), NEW r \in {-1, 1}, NEW rest,
           rest = IF r = 1 THEN s ELSE -s, NEW m, m = c * powers[p] + rest,
           NEW shift, shift = ctx.digits - Digits(c)
    PROVE  \E x, t, st : /\ SetCoeff(Work(Finite(neg, c, e), r, {}), ctx) = Work(x, t, st)
                         /\ "Rounded" \in st
                         /\ \E n, l : /\ Carries(Fitted(x, shift), t, st, neg, n, l, ctx)
                                      /\ Digits(c) <= ctx.digits + 2 => n = m /\ l = q
<1>1. /\ c \in Nat \ {0} /\ e \in Int /\ s \in Nat \ {0} /\ q \in Int /\ p \in Nat \ {0}
      /\ p = e - q /\ q = e - p
  BY DEF Outweighs
<1>2. PICK P \in Nat \ {0}, d \in Nat \ {0} : P = ctx.digits /\ d = Digits(c) /\ shift = P - d
  BY <1>1, ContextRange, DigitsFacts
<1>3. PICK ds \in Nat \ {0} : ds = Digits(s) /\ s < powers[ds] /\ d + p > ds + P + 1
  BY <1>1, <1>2, DigitsFacts DEF Outweighs
<1>4. rest \in Int /\ r \in Int /\ (r = 1 => rest = s) /\ (r = -1 => rest = -s)
  BY <1>1
<1>5. PICK z \in Nat \ {0} : z = powers[ds]
  BY PowersFacts
<1>6. CASE d <= P
  <2>1. PICK i \in Nat : i = p - shift /\ i >= ds + 2 /\ i >= 1
    BY <1>1, <1>2, <1>3, <1>6
  <2>2. PICK t \in Nat \ {0} : t = powers[i] /\ t >= 100 * z
    <3>1. PICK t \in Nat \ {0} : t = powers[i]
      BY PowersFacts
    <3>2. PICK a \in Nat : a = powers[ds + 2] /\ a = 100 * z
      <4>1. powers[(ds + 1) + 1] = 10 * powers[ds + 1] /\ powers[ds + 1] = 10 * powers[ds]
        BY PowersFacts
      <4>2. (ds + 1) + 1 = ds + 2
        OBVIOUS
      <4> QED
        BY <1>5, <4>1, <4>2
    <3>3. powers[ds + 2] <= powers[i]
      BY <2>1, PowersGrow
    <3> QED
      BY <3>1, <3>2, <3>3
  <2>3. Little(r, rest, t) /\ (r = 1 => 2 * rest < t) /\ (r = -1 => -t < 20 * rest)
    <3>1. 100 * s < t
      BY <1>1, <1>3, <1>5, <2>2
    <3> QED
      BY <1>1, <1>4, <2>2, <3>1 DEF Little
  <2>4. SetCoeff(Work(Finite(neg, c, e), r, {}), ctx)
            = Work(Finite(neg, c, e), r, {"Inexact", "Rounded"})
    <3>1. Digits(Finite(neg, c, e).coef) - ctx.digits <= 0
      BY <1>2, <1>6, FiniteFields
    <3>2. r # 0 /\ {} \cup {"Inexact", "Rounded"} = {"Inexact", "Rounded"}
      OBVIOUS
    <3> QED
      BY <3>1, <3>2, SetCoeffKeeps
  <2>5. shift \in Nat
    BY <1>2, <1>6
  <2>6. Carries(Shifted(Finite(neg, c, e), shift), r, {"Inexact", "Rounded"}, neg, m, q, ctx)
    BY <1>1, <1>2, <2>1, <2>2, <2>3, <2>5, BigKeeps
  <2>7. Fitted(Finite(neg, c, e), shift) = Shifted(Finite(neg, c, e), shift)
    <3>1. CASE shift = 0
      <4>1. c * powers[0] = c /\ e - 0 = e
        BY <1>1, PowersFacts
      <4>2. Shifted(Finite(neg, c, e), 0) = Finite(neg, c * powers[0], e - 0)
        BY <1>1, ShiftedIs
      <4> QED
        BY <3>1, <4>1, <4>2 DEF Fitted
    <3>2. CASE shift > 0
      BY <3>2 DEF Fitted
    <3> QED
      BY <2>5, <3>1, <3>2
  <2> QED
    BY <2>4, <2>6, <2>7
<1>r. \A t : "Rounded" \in CutFlags({}, t)
  BY Zenon DEF CutFlags
<1>7. CASE d > P
  <2>1. PICK k \in Nat \ {0} : k = d - P
    BY <1>2, <1>7
  <2>k. k = Digits(c) - ctx.digits
    BY <1>2, <2>1
  <2>2. PICK v \in Nat \ {0} : v = powers[k] /\ v >= 10
    <3>1. powers[k] = 10 * powers[k - 1] /\ powers[k - 1] \in Nat \ {0}
      BY PowersStep
    <3> QED
      BY <3>1
  <2>3. \A x : Fitted(x, shift) = x
    <3>1. ~(shift > 0)
      BY <1>2, <1>7
    <3> QED
      BY <3>1 DEF Fitted
  <2>4. CASE d <= P + 2
    <3>1. PICK u \in Nat \ {0} : u = powers[p] /\ u >= z
      <4>1. ds <= p
        BY <1>1, <1>3, <2>4
      <4> QED
        BY <1>1, <1>5, <4>1, PowersGrow, PowersFacts
    <3>2. Little(r, rest, u)
      BY <1>1, <1>3, <1>4, <1>5, <3>1 DEF Little
    <3>3. PICK w \in Nat : w = v * u /\ w = powers[k] * u
      BY <2>2
    <3>4. w >= 100 * z
      <4>1. k + p >= ds + 2
        BY <1>1, <1>3, <2>1
      <4>2. powers[k + p] = v * u
        BY <1>1, <2>2, <3>1, PowersSum
      <4>3. powers[ds + 2] <= powers[k + p]
        <5>1. ds + 2 \in Nat /\ k + p \in Nat
          BY <1>1
        <5> QED
          BY <4>1, <5>1, PowersGrow
      <4>4. powers[ds + 2] = 100 * z
        <5>1. powers[(ds + 1) + 1] = 10 * powers[ds + 1] /\ powers[ds + 1] = 10 * powers[ds]
          BY PowersFacts
        <5>2. (ds + 1) + 1 = ds + 2
          OBVIOUS
        <5> QED
          BY <1>5, <5>1, <5>2
      <4> QED
        BY <3>3, <4>2, <4>3, <4>4
    <3>5. r = -1 => -w < 20 * rest
      BY <1>1, <1>3, <1>4, <1>5, <3>4
    <3>6. m = c * u + rest
      BY <3>1
    <3>7. PICK t, x : /\ SetCoeff(Work(Finite(neg, c, e), r, {}), ctx)
                             = Work(x, t, CutFlags({}, t))
                      /\ Carries(x, t, CutFlags({}, t), neg, m, q, ctx)
      <4>1. CutsBig(c, e, k, r, rest, p, u, w, m, q, ctx)
        BY <1>1, <2>k, <3>1, <3>2, <3>3, <3>5, <3>6 DEF CutsBig
      <4> QED
        BY <4>1, BigCuts
    <3> QED
      BY <1>r, <2>3, <3>7
  <2>5. CASE d > P + 2
    <3>1. PICK one \in Int : one = IF r = 1 THEN 1 ELSE -1
      OBVIOUS
    <3>2. powers[2] = 100
      <4>1. powers[0 + 1] = 10 * powers[0] /\ powers[1 + 1] = 10 * powers[1] /\ powers[0] = 1
        BY PowersFacts
      <4> QED
        BY <4>1
    <3>3. Little(r, one, 100)
      BY <3>1 DEF Little
    <3>4. PICK w \in Nat : w = powers[k] * 100 /\ w >= 1000
      BY <2>2
    <3>5. r = -1 => -w < 20 * one
      BY <3>1, <3>4
    <3>6. PICK n \in Int, l \in Int : n = c * 100 + one /\ l = e - 2
      BY <1>1
    <3>h. PICK h : h = 100
      OBVIOUS
    <3>7. PICK t, x : /\ SetCoeff(Work(Finite(neg, c, e), r, {}), ctx)
                             = Work(x, t, CutFlags({}, t))
                      /\ Carries(x, t, CutFlags({}, t), neg, n, l, ctx)
      <4>1. 2 \in Nat /\ h = powers[2] /\ Little(r, one, h) /\ w = powers[k] * h
            /\ n = c * h + one
        BY <3>2, <3>3, <3>4, <3>6, <3>h
      <4>2. CutsBig(c, e, k, r, one, 2, h, w, n, l, ctx)
        BY <1>1, <2>k, <3>5, <3>6, <4>1 DEF CutsBig
      <4> QED
        BY <4>2, BigCuts
    <3>8. ~(Digits(c) <= ctx.digits + 2)
      BY <1>2, <2>5
    <3> QED
      BY <1>r, <2>3, <3>7, <3>8
  <2> QED
    BY <1>2, <2>4, <2>5
<1> QED
  BY <1>2, <1>6, <1>7

(***************************************************************************)
(* The fast path: the low Unit takes the sum, and the length stays.        *)
(***************************************************************************)
LEMMA UnitSumFits ==
    ASSUME NEW a \in Nat \ {0}, NEW b \in Nat, NEW u, u = powers[DPUN], NEW part, part = a % u,
           part + b <= u - 1,
           Digits(a) >= DPUN \/ part + b < powers[Digits(a)]
    PROVE  Digits(a + b) <= Digits(a)
<1>1. DPUN \in Nat \ {0} /\ u \in Nat \ {0}
  BY DPUNAssumption, PowersFacts
<1>2. PICK d \in Nat \ {0} : d = Digits(a) /\ a < powers[d]
  BY DigitsFacts
<1>3. PICK h \in Nat : part \in Nat /\ part < u /\ a = h * u + part
  BY <1>1, Euclid
<1>4. PICK t \in Nat \ {0} : t = powers[d]
  BY PowersFacts
<1>5. a + b < t
  <2>1. CASE d >= DPUN
    <3>1. PICK k \in Nat, v \in Nat \ {0} : k = d - DPUN /\ v = powers[k]
      <4>1. PICK k \in Nat : k = d - DPUN
        BY <1>1, <2>1
      <4> QED
        BY <4>1, PowersFacts
    <3>2. t = v * u
      <4>1. k + DPUN = d
        BY <1>1, <3>1
      <4>2. powers[k + DPUN] = powers[k] * powers[DPUN]
        BY <1>1, PowersSum
      <4> QED
        BY <1>4, <3>1, <4>1, <4>2, Zenon
    <3>3. h < v
      <4>1. SUFFICES ASSUME h >= v PROVE FALSE
        BY <3>1
      <4>2. v * u <= h * u
        BY <1>1, <3>1, <4>1, MulGrows
      <4>3. h * u \in Nat /\ v * u \in Nat
        BY <1>1, <3>1
      <4> QED
        BY <1>2, <1>3, <1>4, <3>2, <4>2, <4>3
    <3>4. h * u + u <= v * u
      <4>1. (h + 1) * u <= v * u
        BY <1>1, <3>1, <3>3, MulGrows
      <4>2. (h + 1) * u = h * u + u
        <5>1. \A i, j \in Int : (i + 1) * j = i * j + j
          OBVIOUS
        <5>2. h \in Int /\ u \in Int
          BY <1>1
        <5> QED
          BY <5>1, <5>2, Zenon
      <4> QED
        BY <4>1, <4>2
    <3>5. h * u \in Nat /\ v * u \in Nat
      BY <1>1, <3>1
    <3> QED
      BY <1>1, <1>3, <3>2, <3>4, <3>5
  <2>2. CASE d < DPUN
    <3>1. part + b < t
      BY <1>1, <1>2, <1>4, <2>2
    <3>2. t <= u
      BY <1>1, <1>4, <2>2, PowersGrow
    <3>3. part = a
      BY <1>1, <1>2, <1>4, <3>2
    <3> QED
      BY <3>1, <3>3
  <2> QED
    BY <1>1, <2>1, <2>2
<1>6. Digits(a + b) <= d
  BY <1>4, <1>5, DigitsAtMost
<1> QED
  BY <1>2, <1>6

(***************************************************************************)
(* The exact sum of two finite numbers.                                    *)
(***************************************************************************)
SumExp(a, b) == Min({a.exp, b.exp})
Total(a, b) == Signed(a, SumExp(a, b)) + Signed(b, SumExp(a, b))

LEMMA SignedIs ==
    ASSUME NEW a \in Numbers, NEW q \in Int, NEW i \in Nat, i = a.exp - q,
           NEW x, x = a.coef * powers[i]
    PROVE  x \in Nat /\ Signed(a, q) = IF a.neg THEN -x ELSE x
<1>1. a.coef \in Nat /\ a.neg \in BOOLEAN
  BY DEF Numbers
<1>2. PICK c \in Nat, u \in Nat : c = a.coef /\ u = powers[i] /\ x = c * u
  BY <1>1, PowersFacts
<1>3. Signed(a, q) = (IF a.neg THEN -1 ELSE 1) * c * u
  BY <1>2, Zenon DEF Signed
<1>4. c * u \in Nat /\ (-1) * c * u = -(c * u) /\ 1 * c * u = c * u
  OBVIOUS
<1> QED
  BY <1>1, <1>2, <1>3, <1>4

\* a and b are x and y units of 10^q
Aligned(a, b, x, y, q) ==
    /\ q \in Int /\ q = SumExp(a, b) /\ q = (IF a.exp <= b.exp THEN a.exp ELSE b.exp)
    /\ x \in Nat /\ y \in Nat /\ a.exp - q \in Nat /\ b.exp - q \in Nat
    /\ a.neg \in BOOLEAN /\ b.neg \in BOOLEAN
    /\ x = a.coef * powers[a.exp - q] /\ y = b.coef * powers[b.exp - q]
    /\ Total(a, b) = (IF a.neg THEN -x ELSE x) + (IF b.neg THEN -y ELSE y)

LEMMA TotalIs ==
    ASSUME NEW a \in Numbers, NEW b \in Numbers
    PROVE  \E x, y, q : Aligned(a, b, x, y, q)
<1>1. a.exp \in Int /\ b.exp \in Int /\ a.neg \in BOOLEAN /\ b.neg \in BOOLEAN
  BY DEF Numbers
<1>2. PICK q \in Int : q = SumExp(a, b) /\ q = (IF a.exp <= b.exp THEN a.exp ELSE b.exp)
  BY <1>1, MinOfTwo DEF SumExp
<1>3. PICK i \in Nat, j \in Nat : i = a.exp - q /\ j = b.exp - q
  BY <1>1, <1>2
<1>4. PICK x, y : x = a.coef * powers[i] /\ y = b.coef * powers[j]
  OBVIOUS
<1>5. x \in Nat /\ Signed(a, q) = IF a.neg THEN -x ELSE x
  BY <1>3, <1>4, SignedIs
<1>6. y \in Nat /\ Signed(b, q) = IF b.neg THEN -y ELSE y
  BY <1>3, <1>4, SignedIs
<1>7. Total(a, b) = Signed(a, q) + Signed(b, q)
  BY <1>2, Zenon DEF Total
<1>8. Aligned(a, b, x, y, q)
  BY <1>1, <1>2, <1>3, <1>4, <1>5, <1>6, <1>7 DEF Aligned
<1> QED
  BY <1>8

\* n * 10^q is the magnitude of the sum, and neg its sign if it is not zero
IsSum(neg, n, q, a, b) ==
    /\ n \in Nat /\ q \in Int /\ neg \in BOOLEAN /\ q = SumExp(a, b)
    /\ n = (IF Total(a, b) < 0 THEN -Total(a, b) ELSE Total(a, b))
    /\ Total(a, b) \in Int
    /\ n # 0 => (neg <=> Total(a, b) < 0)

LEMMA SumIs ==
    ASSUME NEW a, NEW b, NEW x, NEW y, NEW q, Aligned(a, b, x, y, q)
    PROVE  /\ a.neg = b.neg => IsSum(a.neg, x + y, q, a, b)
           /\ a.neg # b.neg /\ x >= y => IsSum(a.neg, x - y, q, a, b)
           /\ a.neg # b.neg /\ y >= x => IsSum(b.neg, y - x, q, a, b)
<1>1. /\ q \in Int /\ q = SumExp(a, b) /\ x \in Nat /\ y \in Nat
      /\ a.neg \in BOOLEAN /\ b.neg \in BOOLEAN
      /\ Total(a, b) = (IF a.neg THEN -x ELSE x) + (IF b.neg THEN -y ELSE y)
  BY DEF Aligned
<1>2. PICK t \in Int : t = Total(a, b)
                       /\ t = (IF a.neg THEN -x ELSE x) + (IF b.neg THEN -y ELSE y)
  BY <1>1
<1>3. CASE a.neg /\ b.neg
  BY <1>1, <1>2, <1>3 DEF IsSum
<1>4. CASE ~a.neg /\ ~b.neg
  BY <1>1, <1>2, <1>4 DEF IsSum
<1>5. CASE a.neg /\ ~b.neg
  <2>1. t = y - x
    BY <1>1, <1>2, <1>5
  <2>2. x >= y => IsSum(a.neg, x - y, q, a, b)
    BY <1>1, <1>2, <1>5, <2>1 DEF IsSum
  <2>3. y >= x => IsSum(b.neg, y - x, q, a, b)
    BY <1>1, <1>2, <1>5, <2>1 DEF IsSum
  <2> QED
    BY <1>5, <2>2, <2>3
<1>6. CASE ~a.neg /\ b.neg
  <2>1. t = x - y
    BY <1>1, <1>2, <1>6
  <2>2. x >= y => IsSum(a.neg, x - y, q, a, b)
    BY <1>1, <1>2, <1>6, <2>1 DEF IsSum
  <2>3. y >= x => IsSum(b.neg, y - x, q, a, b)
    BY <1>1, <1>2, <1>6, <2>1 DEF IsSum
  <2> QED
    BY <1>6, <2>2, <2>3
<1> QED
  BY <1>1, <1>3, <1>4, <1>5, <1>6

\* one of the two is zero
LEMMA SumWithZero ==
    ASSUME NEW a, NEW b, NEW x, NEW y, NEW q, Aligned(a, b, x, y, q)
    PROVE  /\ a.coef = 0 => IsSum(b.neg, y, q, a, b)
           /\ b.coef = 0 => IsSum(a.neg, x, q, a, b)
<1>1. /\ q \in Int /\ x \in Nat /\ y \in Nat /\ a.exp - q \in Nat /\ b.exp - q \in Nat
      /\ x = a.coef * powers[a.exp - q] /\ y = b.coef * powers[b.exp - q]
      /\ a.neg \in BOOLEAN /\ b.neg \in BOOLEAN
  BY DEF Aligned
<1>2. a.coef = 0 => x = 0
  BY <1>1, PowersFacts
<1>3. b.coef = 0 => y = 0
  BY <1>1, PowersFacts
<1>4. ASSUME x = 0 PROVE IsSum(b.neg, y, q, a, b)
  <2>1. x + y = y /\ y - x = y /\ y >= x
    BY <1>1, <1>4
  <2> QED
    BY <2>1, SumIs
<1>5. ASSUME y = 0 PROVE IsSum(a.neg, x, q, a, b)
  <2>1. x + y = x /\ x - y = x /\ x >= y
    BY <1>1, <1>5
  <2> QED
    BY <2>1, SumIs
<1> QED
  BY <1>2, <1>3, <1>4, <1>5

(***************************************************************************)
(* The inductive invariant: what is known where the routine has got to.    *)
(***************************************************************************)
Known ==
    /\ mem \in [Slots -> Numbers]
    /\ \E f \in Families : call \in f.calls /\ set \in f.contexts
    /\ pc \in {"call", "add", "pad", "finish", "finishSum", "report", "done"}
    /\ negate \in BOOLEAN /\ diffsign \in BOOLEAN
    /\ zexp \in Int /\ residue \in -1..9
    /\ status \subseteq Flags /\ ctxStatus \subseteq Flags \ {"sNaN"}

Taken ==
    pc # "call" => /\ given \in [lhs : Numbers, rhs : Numbers]
                   /\ diffsign <=> A.neg # B.neg

\* nothing has been written yet
AtAdd ==
    /\ pc = "call" => residue = 0
    /\ pc = "add" => lhs = given.lhs /\ rhs = given.rhs /\ status = {} /\ residue = 0

\* the result is the operand that is not known to be zero, as much as fits of it
AtPad ==
    pc = "pad" =>
        /\ FiniteOperands
        /\ \/ /\ A.coef = 0 /\ zexp = A.exp
              /\ Carries(res, residue, status, B.neg, B.coef, B.exp, set)
           \/ /\ A.coef # 0 /\ B.coef = 0 /\ zexp = B.exp
              /\ Carries(res, residue, status, A.neg, A.coef, A.exp, set)

Short == Digits(A.coef) <= set.digits + 2 /\ Digits(B.coef) <= set.digits + 2

ZeroSign == IF A.neg = B.neg THEN A.neg ELSE set.round = "FLOOR"

\* the result and the residue carry the exact sum; if an operand was too long
\* they carry something
AtFinish ==
    pc \in {"finish", "finishSum"} =>
        /\ FiniteOperands
        /\ \E neg, n, q :
               /\ Carries(res, residue, status, neg, n, q, set)
               /\ Short \/ n = 0 \/ pc = "finishSum" => IsSum(neg, n, q, A, B)
               /\ n = 0 => IF pc = "finish" THEN neg = ZeroSign ELSE diffsign

Answer ==
    IF ExactSum # 0 THEN Delivered(ExactSum < 0, Magnitude, ExactExp, set)
    ELSE FitZero(ZeroSign, ExactExp, set)

Losses == FlagsFor(ExactSum < 0, Magnitude, ExactExp, set)

AtEnd ==
    pc \in {"report", "done"} /\ FiniteOperands =>
        /\ FitsIn(res, set) /\ status \subseteq LossFlags
        /\ Supported => res = Answer /\ status = Losses

\* what is due when an operand is special
QuietDue ==
    /\ IsNaN(A) \/ IsNaN(B)
    /\ res.kind = "nan" /\ FitsIn(res, set)
    /\ status \subseteq {"Invalid_operation", "sNaN"}
    /\ "Invalid_operation" \in status <=> "snan" \in {A.kind, B.kind}
    /\ "Invalid_operation" \in status <=> "sNaN" \in status

InvalidDue ==
    /\ ~IsNaN(A) /\ ~IsNaN(B) /\ InfinitiesCancel
    /\ status = {"Invalid_operation"}

InfinityDue ==
    /\ ~IsNaN(A) /\ ~IsNaN(B) /\ ~InfinitiesCancel
    /\ res.kind = "inf" /\ FitsIn(res, set) /\ status = {}

AtSpecial ==
    ~FiniteOperands =>
        /\ pc = "report" => QuietDue \/ InvalidDue \/ InfinityDue
        /\ pc = "done" => /\ FitsIn(res, set)
                          /\ IsNaN(res) <=> IsNaN(A) \/ IsNaN(B) \/ InfinitiesCancel
                          /\ res.kind # "snan"
                          /\ "Invalid_operation" \in status
                                 <=> \/ "snan" \in {A.kind, B.kind}
                                     \/ ~IsNaN(A) /\ ~IsNaN(B) /\ InfinitiesCancel

IInv == /\ Known /\ Taken /\ AtAdd /\ AtPad /\ AtFinish /\ AtEnd /\ AtSpecial

LEMMA KnownFacts ==
    ASSUME Known
    PROVE  /\ call.res \in Slots /\ call.lhs \in Slots /\ call.rhs \in Slots
           /\ call.rhs # "dzero" /\ call.res # "dzero"
           /\ set.digits \in Nat \ {0} /\ Context(set)
           /\ lhs \in Numbers /\ rhs \in Numbers /\ res \in Numbers
<1>1. PICK f \in Families : call \in f.calls /\ set \in f.contexts
  BY DEF Known
<1>2. /\ call \in [routine : Routines, lhs : Slots,
                   res : Slots \ {"dzero"}, rhs : Slots \ {"dzero"}]
      /\ IsContext(set)
  BY <1>1, FamiliesAssumption
<1>3. Context(set)
  BY <1>2, ContextHolds
<1>4. mem \in [Slots -> Numbers]
  BY DEF Known
<1> QED
  BY <1>2, <1>3, <1>4, ContextRange DEF lhs, rhs, res

LEMMA OperandFacts ==
    ASSUME Known, Taken, pc # "call"
    PROVE  /\ A \in Numbers /\ B \in Numbers /\ A = given.lhs
           /\ B.coef = given.rhs.coef /\ B.exp = given.rhs.exp /\ B.kind = given.rhs.kind
           /\ B.neg = Xor(given.rhs.neg, negate)
           /\ diffsign <=> A.neg # B.neg
<1>1. given \in [lhs : Numbers, rhs : Numbers] /\ (diffsign <=> A.neg # B.neg)
      /\ negate \in BOOLEAN
  BY DEF Known, Taken
<1>2. given.lhs \in Numbers /\ given.rhs \in Numbers
  BY <1>1
<1>3. PICK r \in Numbers : r = given.rhs
  BY <1>2
<1>4. r.neg \in BOOLEAN
  BY DEF Numbers
<1>5. PICK s \in BOOLEAN : s = Xor(r.neg, negate)
  BY <1>1, <1>4 DEF Xor
<1>6. [r EXCEPT !.neg = s] \in Numbers
  BY DEF Numbers
<1>7. /\ [r EXCEPT !.neg = s].coef = r.coef /\ [r EXCEPT !.neg = s].exp = r.exp
      /\ [r EXCEPT !.neg = s].kind = r.kind /\ [r EXCEPT !.neg = s].neg = s
  BY DEF Numbers
<1>8. B = [r EXCEPT !.neg = s]
  BY <1>3, <1>5, Zenon DEF B
<1> QED
  BY <1>1, <1>2, <1>3, <1>5, <1>6, <1>7, <1>8 DEF A

LEMMA SameOperands ==
    ASSUME given' = given, negate' = negate, set' = set
    PROVE  /\ A' = A /\ B' = B /\ FiniteOperands' = FiniteOperands
           /\ Supported' = Supported /\ Short' = Short /\ ZeroSign' = ZeroSign
           /\ Answer' = Answer /\ Losses' = Losses
           /\ InfinitiesCancel' = InfinitiesCancel
<1>1. A' = A /\ B' = B
  BY DEF A, B
<1>2. ExactExp' = ExactExp
  BY <1>1 DEF ExactExp
<1>3. ExactSum' = ExactSum /\ Magnitude' = Magnitude
  BY <1>1, <1>2 DEF ExactSum, Magnitude
<1>4. ZeroSign' = ZeroSign
  BY <1>1 DEF ZeroSign
<1> QED
  BY <1>1, <1>2, <1>3, <1>4
     DEF FiniteOperands, Supported, Short, Answer, Losses, InfinitiesCancel

LEMMA InitHolds == Init => IInv
<1> SUFFICES ASSUME Init PROVE IInv
  OBVIOUS
<1>1. PICK f \in Families : /\ call \in f.calls /\ set \in f.contexts
                            /\ \E a \in f.lhs, b \in f.rhs :
                                  mem = [s \in Slots |-> CASE s = "a" -> a
                                                           [] s = "b" -> b
                                                           [] OTHER -> Finite(FALSE, 0, 0)]
                            /\ ctxStatus \in f.earlier
  BY DEF Init
<1>2. PICK a \in f.lhs, b \in f.rhs : mem = [s \in Slots |-> CASE s = "a" -> a
                                                               [] s = "b" -> b
                                                               [] OTHER -> Finite(FALSE, 0, 0)]
  BY <1>1
<1>3. f.lhs \subseteq Numbers /\ f.rhs \subseteq Numbers
      /\ f.earlier \subseteq SUBSET (Flags \ {"sNaN"})
  BY FamiliesAssumption
<1>4. Finite(FALSE, 0, 0) \in Numbers
  BY DEF Finite, Numbers, Kinds
<1>5. mem \in [Slots -> Numbers]
  BY <1>2, <1>3, <1>4
<1>6. pc = "call" /\ negate = FALSE /\ diffsign = FALSE /\ zexp = 0 /\ residue = 0 /\ status = {}
  BY DEF Init
<1>7. Known
  <2>1. ctxStatus \subseteq Flags \ {"sNaN"}
    BY <1>1, <1>3, Zenon
  <2>2. \E g \in Families : call \in g.calls /\ set \in g.contexts
    BY <1>1
  <2>3. status \subseteq Flags
    BY <1>6
  <2>4. zexp \in Int /\ residue \in -1..9
    BY <1>6
  <2>5. pc \in {"call", "add", "pad", "finish", "finishSum", "report", "done"}
    BY <1>6
  <2>6. negate \in BOOLEAN /\ diffsign \in BOOLEAN
    BY <1>6
  <2> QED
    BY <1>5, <2>1, <2>2, <2>3, <2>4, <2>5, <2>6, Zenon DEF Known
<1> QED
  BY <1>6, <1>7 DEF IInv, Taken, AtAdd, AtPad, AtFinish, AtEnd, AtSpecial

(***************************************************************************)
(* The steps.                                                              *)
(***************************************************************************)
LEMMA EnterStep ==
    ASSUME IInv, Enter
    PROVE  IInv'
<1>1. Known /\ pc = "call" /\ residue = 0
  BY DEF IInv, AtAdd, Enter
<1>2. /\ call.res \in Slots /\ call.lhs \in Slots /\ call.rhs \in Slots
      /\ call.rhs # "dzero" /\ rhs \in Numbers /\ lhs \in Numbers
  BY <1>1, KnownFacts
<1>3. mem \in [Slots -> Numbers] /\ rhs.exp \in Int /\ rhs.neg \in BOOLEAN
  BY <1>1, <1>2 DEF Known, Numbers
<1>4. mem' \in [Slots -> Numbers] /\ mem'[call.rhs] = rhs
  <2>1. CASE Unary
    <3>1. Finite(FALSE, 0, rhs.exp) \in Numbers
      BY <1>3 DEF Finite, Numbers, Kinds
    <3>2. mem' = [mem EXCEPT !["dzero"] = Finite(FALSE, 0, rhs.exp)]
      BY <2>1 DEF Enter
    <3> QED
      BY <1>2, <1>3, <3>1, <3>2 DEF rhs
  <2>2. CASE ~Unary
    BY <1>2, <1>3, <2>2 DEF Enter, rhs
  <2> QED
    BY <2>1, <2>2
<1>5. /\ negate' = Negates(mem) /\ diffsign' = SignsDiffer(mem'[call.lhs], rhs, negate')
      /\ status' = {} /\ given' = [lhs |-> mem'[call.lhs], rhs |-> rhs] /\ pc' = "add"
      /\ call' = call /\ set' = set /\ zexp' = zexp /\ residue' = residue
      /\ ctxStatus' = ctxStatus
  BY DEF Enter, FreshStatus
<1>6. negate' \in BOOLEAN
  BY <1>5, Zenon DEF Negates
<1>7. PICK l \in Numbers : l = mem'[call.lhs]
  BY <1>2, <1>4
<1>8. l.neg \in BOOLEAN
  BY DEF Numbers
<1>9. diffsign' \in BOOLEAN
  BY <1>5, <1>7, Zenon DEF SignsDiffer, Xor
<1>10. Known'
  BY <1>1, <1>4, <1>5, <1>6, <1>9 DEF Known
<1>11. given' \in [lhs : Numbers, rhs : Numbers] /\ given'.lhs = l /\ given'.rhs = rhs
  BY <1>2, <1>5, <1>7
<1>12. A' = l /\ B'.neg = Xor(rhs.neg, negate')
  <2>1. A' = l
    BY <1>11 DEF A
  <2>2. PICK s \in BOOLEAN : s = Xor(rhs.neg, negate')
    BY Zenon DEF Xor
  <2>3. B' = [rhs EXCEPT !.neg = s]
    BY <1>11, <2>2, Zenon DEF B
  <2>4. [rhs EXCEPT !.neg = s].neg = s
    BY <1>2 DEF Numbers
  <2> QED
    BY <2>1, <2>2, <2>3, <2>4
<1>13. Taken'
  <2>1. diffsign' <=> A'.neg # B'.neg
    <3>1. diffsign' = Xor(Xor(l.neg, rhs.neg), negate')
      BY <1>5, <1>7, Zenon DEF SignsDiffer
    <3>2. Xor(Xor(l.neg, rhs.neg), negate') <=> Xor(l.neg, Xor(rhs.neg, negate'))
      BY <1>3, <1>6, <1>8 DEF Xor
    <3> QED
      BY <1>12, <3>1, <3>2 DEF Xor
  <2> QED
    BY <1>11, <2>1 DEF Taken
<1>14. AtAdd'
  BY <1>1, <1>5, <1>4, <1>7, <1>11 DEF AtAdd, lhs, rhs
<1>15. AtPad' /\ AtFinish' /\ AtEnd' /\ AtSpecial'
  BY <1>5 DEF AtPad, AtFinish, AtEnd, AtSpecial
<1> QED
  BY <1>10, <1>13, <1>14, <1>15 DEF IInv

\* what a step changes that only writes the result
Writes(n) ==
    /\ mem' = [mem EXCEPT ![call.res] = n] /\ n \in Numbers
    /\ pc # "call" /\ pc' \in {"pad", "finish", "finishSum", "report", "done"}
    /\ residue' \in -1..9 /\ zexp' \in Int
    /\ status' \subseteq Flags /\ ctxStatus' \subseteq Flags \ {"sNaN"}
    /\ UNCHANGED <<call, set, negate, diffsign, given>>

LEMMA WritesFacts ==
    ASSUME Known, Taken, NEW n, Writes(n)
    PROVE  /\ Known' /\ Taken' /\ AtAdd' /\ res' = n
           /\ A' = A /\ B' = B /\ FiniteOperands' = FiniteOperands
           /\ Supported' = Supported /\ Short' = Short /\ ZeroSign' = ZeroSign
           /\ Answer' = Answer /\ Losses' = Losses
           /\ InfinitiesCancel' = InfinitiesCancel
<1>1. call.res \in Slots
  BY KnownFacts
<1>2. mem \in [Slots -> Numbers]
  BY DEF Known
<1>3. mem' \in [Slots -> Numbers] /\ mem'[call.res] = n
  BY <1>1, <1>2 DEF Writes
<1>4. Known'
  BY <1>3 DEF Known, Writes
<1>5. given' = given /\ negate' = negate /\ set' = set /\ diffsign' = diffsign
      /\ call' = call
  BY DEF Writes
<1>6. /\ A' = A /\ B' = B /\ FiniteOperands' = FiniteOperands
      /\ Supported' = Supported /\ Short' = Short /\ ZeroSign' = ZeroSign
      /\ Answer' = Answer /\ Losses' = Losses
      /\ InfinitiesCancel' = InfinitiesCancel
  BY <1>5, SameOperands
<1>7. Taken'
  BY <1>5, <1>6 DEF Taken, Writes
<1>8. AtAdd'
  BY DEF AtAdd, Writes
<1>9. res' = n
  BY <1>3, <1>5 DEF res
<1> QED
  BY <1>4, <1>6, <1>7, <1>8, <1>9

LEMMA StartFacts ==
    ASSUME IInv, pc = "add"
    PROVE  /\ Known /\ Taken /\ status = {} /\ residue = 0
           /\ lhs = A /\ rhs = given.rhs
           /\ A \in Numbers /\ B \in Numbers
           /\ B.coef = rhs.coef /\ B.exp = rhs.exp /\ B.kind = rhs.kind
           /\ B.neg = Xor(rhs.neg, negate)
           /\ diffsign <=> A.neg # B.neg
<1>1. Known /\ Taken /\ AtAdd
  BY DEF IInv
<1>2. lhs = given.lhs /\ rhs = given.rhs /\ status = {} /\ residue = 0
  BY <1>1 DEF AtAdd
<1> QED
  BY <1>1, <1>2, OperandFacts

\* what Deliver leaves for the rest of the invariant to show
LEMMA DeliverFacts ==
    ASSUME Known, Taken, status = {}, pc = "add", NEW n, n \in Numbers, NEW flags,
           flags \subseteq Flags, Deliver(n, flags)
    PROVE  Writes(n) /\ status' = flags /\ pc' = "report"
<1>1. /\ mem' = [mem EXCEPT ![call.res] = n] /\ status' = status \cup flags /\ pc' = "report"
      /\ UNCHANGED <<call, set, negate, diffsign, zexp, residue, ctxStatus, given>>
  BY DEF Deliver
<1>2. residue \in -1..9 /\ zexp \in Int /\ ctxStatus \subseteq Flags \ {"sNaN"}
  BY DEF Known
<1>3. status' = flags
  BY <1>1
<1>4. residue' \in -1..9 /\ zexp' \in Int /\ ctxStatus' \subseteq Flags \ {"sNaN"}
  BY <1>1, <1>2
<1> QED
  BY <1>1, <1>3, <1>4 DEF Writes

LEMMA SpecialReported ==
    ASSUME Known, Taken, NEW n, Writes(n), ~FiniteOperands, pc' = "report",
           QuietDue' \/ InvalidDue' \/ InfinityDue'
    PROVE  IInv'
<1>1. /\ Known' /\ Taken' /\ AtAdd' /\ FiniteOperands' = FiniteOperands
  BY WritesFacts
<1>2. AtPad' /\ AtFinish'
  BY DEF AtPad, AtFinish
<1>3. AtEnd' /\ AtSpecial'
  BY <1>1 DEF AtEnd, AtSpecial
<1> QED
  BY <1>1, <1>2, <1>3 DEF IInv

LEMMA NaNOperandStep ==
    ASSUME IInv, NaNOperand
    PROVE  IInv'
<1>1. pc = "add" /\ (IsNaN(lhs) \/ IsNaN(rhs))
      /\ Deliver(QuietNaN(lhs, rhs, set), NaNStatus(lhs, rhs))
  BY DEF NaNOperand
<1>2. /\ Known /\ Taken /\ status = {} /\ lhs = A /\ A \in Numbers /\ B \in Numbers
      /\ B.kind = rhs.kind
  BY <1>1, StartFacts
<1>3. /\ set.digits \in Nat \ {0} /\ lhs \in Numbers /\ rhs \in Numbers
      /\ call.res \in Slots
  BY <1>2, KnownFacts
<1>4. PICK src \in Numbers : /\ src = NaNSource(lhs, rhs)
                             /\ src.kind = "snan" <=> "snan" \in {A.kind, B.kind}
  <2>1. NaNSource(lhs, rhs) \in Numbers
    BY <1>3, Zenon DEF NaNSource
  <2>2. NaNSource(lhs, rhs).kind = "snan" <=> lhs.kind = "snan" \/ rhs.kind = "snan"
    BY DEF NaNSource
  <2> QED
    BY <1>2, <2>1, <2>2
<1>5. src.neg \in BOOLEAN /\ src.coef \in Nat
  BY DEF Numbers
<1>6. PICK u \in Nat \ {0}, c \in Nat : u = powers[set.digits] /\ c = src.coef % u /\ c < u
  <2>1. PICK u \in Nat \ {0} : u = powers[set.digits]
    BY <1>3, PowersFacts
  <2> QED
    BY <1>5, <2>1, Euclid
<1>7. Digits(c) <= set.digits
  BY <1>3, <1>6, DigitsAtMost
<1>8. PICK n : n = [kind |-> "nan", neg |-> src.neg, coef |-> c, exp |-> 0]
  OBVIOUS
<1>9. n \in Numbers /\ n.kind = "nan" /\ FitsIn(n, set)
  BY <1>5, <1>7, <1>8 DEF Numbers, Kinds, FitsIn, IsSpecial
<1>10. n = QuietNaN(lhs, rhs, set)
  BY <1>4, <1>6, <1>8, Zenon DEF QuietNaN
<1>11. PICK flags : /\ flags = NaNStatus(lhs, rhs)
                    /\ flags = IF src.kind = "snan" THEN {"Invalid_operation", "sNaN"} ELSE {}
  BY <1>4, Zenon DEF NaNStatus
<1>12. flags \subseteq {"Invalid_operation", "sNaN"} /\ flags \subseteq Flags
  BY <1>11, Zenon DEF Flags, NaNFlags
<1>13. Writes(n) /\ status' = flags /\ pc' = "report"
  <2>1. Deliver(n, flags)
    BY <1>1, <1>10, <1>11
  <2> QED
    BY <1>1, <1>2, <1>9, <1>12, <2>1, DeliverFacts
<1>14. res' = n /\ A' = A /\ B' = B
  BY <1>2, <1>13, WritesFacts
<1>15. IsNaN(A) \/ IsNaN(B)
  BY <1>1, <1>2 DEF IsNaN
<1>16. QuietDue'
  <2>1. ("Invalid_operation" \in flags <=> src.kind = "snan")
        /\ ("Invalid_operation" \in flags <=> "sNaN" \in flags)
    BY <1>11
  <2>2. set' = set
    BY <1>13 DEF Writes
  <2> QED
    BY <1>4, <1>9, <1>12, <1>13, <1>14, <1>15, <2>1, <2>2 DEF QuietDue
<1>17. ~FiniteOperands
  BY <1>15 DEF FiniteOperands, IsSpecial, IsNaN
<1> QED
  BY <1>2, <1>13, <1>16, <1>17, SpecialReported

LEMMA InfinitiesStep ==
    ASSUME IInv, Infinities
    PROVE  IInv'
<1>1. /\ pc = "add" /\ ~IsNaN(lhs) /\ ~IsNaN(rhs) /\ (IsSpecial(lhs) \/ IsSpecial(rhs))
  BY DEF Infinities
<1>2. /\ Known /\ Taken /\ status = {} /\ lhs = A /\ A \in Numbers /\ B \in Numbers
      /\ B.kind = rhs.kind /\ B.neg = Xor(rhs.neg, negate) /\ (diffsign <=> A.neg # B.neg)
  BY <1>1, StartFacts
<1>3. Context(set) /\ lhs \in Numbers /\ rhs \in Numbers /\ res \in Numbers
  BY <1>2, KnownFacts
<1>4. ~IsNaN(A) /\ ~IsNaN(B) /\ ~FiniteOperands
  BY <1>1, <1>2 DEF IsNaN, FiniteOperands, IsSpecial
<1>5. CASE lhs.kind = "inf" /\ rhs.kind = "inf" /\ diffsign
  <2>1. Deliver(res, {"Invalid_operation"})
    BY <1>5 DEF Infinities
  <2>2. {"Invalid_operation"} \subseteq Flags
    BY DEF Flags, NaNFlags
  <2>3. Writes(res) /\ status' = {"Invalid_operation"} /\ pc' = "report"
    BY <1>1, <1>2, <1>3, <2>1, <2>2, DeliverFacts
  <2>4. A' = A /\ B' = B
    BY <1>2, <2>3, WritesFacts
  <2>5. InfinitiesCancel
    BY <1>2, <1>5 DEF InfinitiesCancel
  <2>6. InvalidDue'
    BY <1>4, <2>3, <2>4, <2>5 DEF InvalidDue, InfinitiesCancel
  <2> QED
    BY <1>2, <1>4, <2>3, <2>6, SpecialReported
<1>6. CASE ~(lhs.kind = "inf" /\ rhs.kind = "inf" /\ diffsign)
  <2>1. PICK s \in BOOLEAN : s = IF lhs.kind = "inf" THEN lhs.neg ELSE Xor(rhs.neg, negate)
    <3>1. lhs.neg \in BOOLEAN /\ Xor(rhs.neg, negate) \in BOOLEAN
      BY <1>3 DEF Numbers, Xor
    <3> QED
      BY <3>1
  <2>2. PICK n : n = Special("inf", s)
    OBVIOUS
  <2>3. n \in Numbers /\ n.kind = "inf"
    BY <2>2 DEF Special, Numbers, Kinds
  <2>4. FitsIn(n, set)
    BY <1>3, <2>2, InfinityFits
  <2>5. Deliver(n, {})
    BY <1>6, <2>1, <2>2 DEF Infinities
  <2>6. Writes(n) /\ status' = {} /\ pc' = "report"
    BY <1>1, <1>2, <2>3, <2>5, DeliverFacts
  <2>7. A' = A /\ B' = B /\ res' = n
    BY <1>2, <2>6, WritesFacts
  <2>8. ~InfinitiesCancel
    BY <1>2, <1>6 DEF InfinitiesCancel
  <2>9. set' = set
    BY <2>6 DEF Writes
  <2>10. InfinityDue'
    BY <1>4, <2>3, <2>4, <2>6, <2>7, <2>8, <2>9 DEF InfinityDue, InfinitiesCancel
  <2> QED
    BY <1>2, <1>4, <2>6, <2>10, SpecialReported
<1> QED
  BY <1>5, <1>6

LEMMA FlipCarries ==
    ASSUME NEW x, NEW r, NEW st, NEW neg, NEW n, NEW q, NEW ctx,
           Carries(x, r, st, neg, n, q, ctx), NEW flip \in BOOLEAN
    PROVE  Carries([x EXCEPT !.neg = Xor(@, flip)], r, st, Xor(neg, flip), n, q, ctx)
<1>1. n \in Nat /\ q \in Int /\ neg \in BOOLEAN
  BY DEF Carries
<1>2. PICK s \in BOOLEAN : s = Xor(neg, flip)
  BY <1>1 DEF Xor
<1>3. ASSUME NEW c, NEW e, x = Finite(neg, c, e)
      PROVE  [x EXCEPT !.neg = Xor(@, flip)] = Finite(s, c, e)
  <2>1. [Finite(neg, c, e) EXCEPT !.neg = s] = Finite(s, c, e)
    BY DEF Finite
  <2>2. x.neg = neg
    BY <1>3, FiniteFields
  <2> QED
    BY <1>2, <1>3, <2>1, <2>2, Zenon
<1>4. CASE n = 0
  <2>1. x = Finite(neg, 0, q) /\ r = 0 /\ st = {}
    BY <1>4 DEF Carries
  <2>2. [x EXCEPT !.neg = Xor(@, flip)] = Finite(s, 0, q)
    BY <1>3, <2>1
  <2>3. Carries(Finite(s, 0, q), r, st, s, n, q, ctx)
    BY <1>1, <1>4, <2>1 DEF Carries
  <2> QED
    BY <1>2, <2>2, <2>3, Zenon
<1>5. CASE n # 0
  <2>1. PICK c, e : /\ x = Finite(neg, c, e) /\ st = Lost(e > q, r)
                    /\ Pending(c, e, r, n, q, ctx)
    BY <1>5 DEF Carries
  <2>2. [x EXCEPT !.neg = Xor(@, flip)] = Finite(s, c, e)
    BY <1>3, <2>1
  <2>3. Carries(Finite(s, c, e), r, st, s, n, q, ctx)
    BY <1>1, <1>5, <2>1 DEF Carries
  <2> QED
    BY <1>2, <2>2, <2>3, Zenon
<1> QED
  BY <1>4, <1>5

\* a zero operand: the other one is in the result, as much as fits of it
LEMMA CopyCarries ==
    ASSUME IInv, pc = "add", NEW n, n \in Numbers, ~IsSpecial(n), NEW flip \in BOOLEAN,
           NEW e \in Int, Copy(n, flip, e), pc' = "pad"
    PROVE  /\ \E x : Writes(x)
           /\ Carries(res', residue', status', Xor(n.neg, flip), n.coef, n.exp, set)
           /\ zexp' = e /\ set' = set
<1>1. Known /\ Taken /\ status = {}
  BY StartFacts
<1>2. Context(set)
  BY <1>1, KnownFacts
<1>3. n = Finite(n.neg, n.coef, n.exp) /\ n.neg \in BOOLEAN /\ n.coef \in Nat /\ n.exp \in Int
  BY NumberIs
<1>4. PICK x, r, st : /\ SetCoeff(Work(n, 0, {}), set) = Work(x, r, st)
                      /\ Carries(x, r, st, n.neg, n.coef, n.exp, set)
  BY <1>2, <1>3, SetCoeffCarries
<1>5. PICK w : w = CopyFit(n, 0) /\ w.dn = x /\ w.residue = r /\ w.status = st
  <2>1. CopyFit(n, 0) = Work(x, r, st)
    BY <1>1, <1>4 DEF CopyFit
  <2> QED
    BY <2>1, WorkFields
<1>6. PICK y : y = [x EXCEPT !.neg = Xor(@, flip)]
               /\ Carries(y, r, st, Xor(n.neg, flip), n.coef, n.exp, set)
  BY <1>4, FlipCarries
<1>7. y \in Numbers /\ r \in -1..9 /\ st \subseteq Flags
  BY <1>6, CarriesNumber
<1>8. /\ mem' = [mem EXCEPT ![call.res] = y] /\ residue' = r /\ status' = st /\ zexp' = e
      /\ UNCHANGED <<call, set, negate, diffsign, ctxStatus, given>>
  BY <1>5, <1>6, Zenon DEF Copy
<1>9. ctxStatus \subseteq Flags \ {"sNaN"}
  BY <1>1 DEF Known
<1>10. ctxStatus' = ctxStatus
  BY <1>8
<1>11. Writes(y)
  BY <1>7, <1>8, <1>9, <1>10 DEF Writes
<1>12. res' = y
  BY <1>1, <1>11, WritesFacts
<1> QED
  BY <1>6, <1>8, <1>11, <1>12

LEMMA LhsZeroStep ==
    ASSUME IInv, LhsZero
    PROVE  IInv'
<1>1. /\ pc = "add" /\ ~IsSpecial(lhs) /\ ~IsSpecial(rhs) /\ IsZero(lhs)
      /\ Copy(rhs, negate, lhs.exp) /\ pc' = "pad"
  BY DEF LhsZero, BothFinite
<1>2. /\ Known /\ Taken /\ lhs = A /\ A \in Numbers /\ B \in Numbers
      /\ B.coef = rhs.coef /\ B.exp = rhs.exp /\ B.kind = rhs.kind
      /\ B.neg = Xor(rhs.neg, negate)
  BY <1>1, StartFacts
<1>3. rhs \in Numbers /\ lhs.exp \in Int /\ negate \in BOOLEAN
  <2>1. lhs \in Numbers /\ rhs \in Numbers
    BY <1>2, KnownFacts
  <2> QED
    BY <1>2, <2>1 DEF Numbers, Known
<1>4. /\ \E x : Writes(x)
      /\ Carries(res', residue', status', Xor(rhs.neg, negate), rhs.coef, rhs.exp, set)
      /\ zexp' = lhs.exp /\ set' = set
  BY <1>1, <1>3, CopyCarries
<1>5. PICK x : Writes(x)
  BY <1>4
<1>6. /\ Known' /\ Taken' /\ AtAdd' /\ A' = A /\ B' = B /\ FiniteOperands' = FiniteOperands
  BY <1>2, <1>5, WritesFacts
<1>7. FiniteOperands /\ A.coef = 0
  BY <1>1, <1>2 DEF FiniteOperands, IsSpecial, IsZero
<1>8. Carries(res', residue', status', B'.neg, B'.coef, B'.exp, set')
  BY <1>2, <1>4, <1>6
<1>9. AtPad'
  BY <1>2, <1>4, <1>6, <1>7, <1>8 DEF AtPad
<1>10. AtFinish' /\ AtEnd' /\ AtSpecial'
  BY <1>1 DEF AtFinish, AtEnd, AtSpecial
<1> QED
  BY <1>6, <1>9, <1>10 DEF IInv

LEMMA RhsZeroStep ==
    ASSUME IInv, RhsZero
    PROVE  IInv'
<1>1. /\ pc = "add" /\ ~IsSpecial(lhs) /\ ~IsSpecial(rhs) /\ IsZero(rhs) /\ ~IsZero(lhs)
      /\ Copy(lhs, FALSE, rhs.exp) /\ pc' = "pad"
  BY DEF RhsZero, BothFinite
<1>2. /\ Known /\ Taken /\ lhs = A /\ A \in Numbers /\ B \in Numbers
      /\ B.coef = rhs.coef /\ B.exp = rhs.exp /\ B.kind = rhs.kind
  BY <1>1, StartFacts
<1>3. rhs.exp \in Int /\ lhs \in Numbers /\ lhs.neg \in BOOLEAN
  <2>1. lhs \in Numbers /\ rhs \in Numbers
    BY <1>2, KnownFacts
  <2> QED
    BY <2>1 DEF Numbers
<1>4. /\ \E x : Writes(x)
      /\ Carries(res', residue', status', Xor(lhs.neg, FALSE), lhs.coef, lhs.exp, set)
      /\ zexp' = rhs.exp /\ set' = set
  BY <1>1, <1>3, CopyCarries
<1>5. PICK x : Writes(x)
  BY <1>4
<1>6. /\ Known' /\ Taken' /\ AtAdd' /\ A' = A /\ B' = B /\ FiniteOperands' = FiniteOperands
  BY <1>2, <1>5, WritesFacts
<1>7. FiniteOperands /\ A.coef # 0 /\ B.coef = 0
  BY <1>1, <1>2 DEF FiniteOperands, IsSpecial, IsZero
<1>8. Carries(res', residue', status', A'.neg, A'.coef, A'.exp, set')
  <2>1. Xor(lhs.neg, FALSE) = lhs.neg
    BY <1>3 DEF Xor
  <2> QED
    BY <1>2, <1>4, <1>6, <2>1
<1>9. AtPad'
  BY <1>2, <1>4, <1>6, <1>7, <1>8 DEF AtPad
<1>10. AtFinish' /\ AtEnd' /\ AtSpecial'
  BY <1>1 DEF AtFinish, AtEnd, AtSpecial
<1> QED
  BY <1>6, <1>9, <1>10 DEF IInv

LEMMA FinishReached ==
    ASSUME Known, Taken, NEW x, Writes(x), FiniteOperands, pc' \in {"finish", "finishSum"},
           NEW neg, NEW n, NEW q, Carries(x, residue', status', neg, n, q, set),
           Short \/ n = 0 \/ pc' = "finishSum" => IsSum(neg, n, q, A, B),
           n = 0 => IF pc' = "finish" THEN neg = ZeroSign ELSE diffsign
    PROVE  IInv'
<1>1. /\ Known' /\ Taken' /\ AtAdd' /\ res' = x /\ A' = A /\ B' = B
      /\ FiniteOperands' = FiniteOperands /\ Short' = Short /\ ZeroSign' = ZeroSign
  BY WritesFacts
<1>2. set' = set /\ diffsign' = diffsign
  BY DEF Writes
<1>3. AtFinish'
  <2>1. Carries(res', residue', status', neg, n, q, set')
    BY <1>1, <1>2
  <2>2. Short' \/ n = 0 \/ pc' = "finishSum" => IsSum(neg, n, q, A', B')
    BY <1>1
  <2>3. n = 0 => IF pc' = "finish" THEN neg = ZeroSign' ELSE diffsign'
    BY <1>1, <1>2
  <2>4. FiniteOperands'
    BY <1>1
  <2> QED
    BY <2>1, <2>2, <2>3, <2>4 DEF AtFinish
<1>4. AtPad' /\ AtEnd' /\ AtSpecial'
  BY DEF AtPad, AtEnd, AtSpecial
<1> QED
  BY <1>1, <1>3, <1>4 DEF IInv

LEMMA BothZeroStep ==
    ASSUME IInv, BothZero
    PROVE  IInv'
<1>1. /\ pc = "pad" /\ IsZero(res) /\ pc' = "finish"
      /\ mem' = [mem EXCEPT ![call.res].exp = IF zexp < @ THEN zexp ELSE @,
                            ![call.res].neg = IF diffsign THEN set.round = "FLOOR" ELSE @]
      /\ UNCHANGED <<call, set, negate, diffsign, zexp, residue, status, ctxStatus, given>>
  BY DEF BothZero
<1>2. Known /\ Taken /\ AtPad
  BY DEF IInv
<1>3. /\ A \in Numbers /\ B \in Numbers /\ (diffsign <=> A.neg # B.neg)
  BY <1>1, <1>2, OperandFacts
<1>4. FiniteOperands /\ A.coef = 0 /\ zexp = A.exp /\ B.coef = 0
      /\ Carries(res, residue, status, B.neg, B.coef, B.exp, set)
  BY <1>1, <1>2, CarriesNumber DEF AtPad
<1>5. res = Finite(B.neg, 0, B.exp) /\ residue = 0 /\ status = {}
  BY <1>4 DEF Carries
<1>6. /\ A.neg \in BOOLEAN /\ B.neg \in BOOLEAN /\ A.exp \in Int /\ B.exp \in Int
  BY <1>3 DEF Numbers
<1>7. PICK x, y, q : Aligned(A, B, x, y, q)
  BY <1>3, TotalIs
<1>8. q \in Int /\ q = (IF zexp < B.exp THEN zexp ELSE B.exp) /\ y = 0
  <2>1. q \in Int /\ q = (IF A.exp <= B.exp THEN A.exp ELSE B.exp)
        /\ B.exp - q \in Nat /\ y = B.coef * powers[B.exp - q]
    BY <1>7 DEF Aligned
  <2>2. y = 0
    BY <1>4, <2>1, PowersFacts
  <2> QED
    BY <1>4, <1>6, <2>1, <2>2
<1>9. PICK s \in BOOLEAN : s = ZeroSign
  BY <1>6 DEF ZeroSign
<1>10. s = IF diffsign THEN set.round = "FLOOR" ELSE B.neg
  BY <1>3, <1>6, <1>9 DEF ZeroSign
<1>11. PICK z : z = Finite(s, 0, q) /\ z \in Numbers
  <2>1. Finite(s, 0, q) \in Numbers
    BY <1>8 DEF Finite, Numbers, Kinds
  <2> QED
    BY <2>1
<1>12. mem' = [mem EXCEPT ![call.res] = z]
  <2>1. res.exp = B.exp /\ res.neg = B.neg
    BY <1>5, FiniteFields
  <2>2. call.res \in Slots /\ mem \in [Slots -> Numbers] /\ mem[call.res] = res
    BY <1>2, KnownFacts DEF Known, res
  <2>3. PICK f : f = [mem EXCEPT ![call.res].exp = q]
    OBVIOUS
  <2>4. f = [mem EXCEPT ![call.res] = Finite(B.neg, 0, q)] /\ f[call.res] = Finite(B.neg, 0, q)
    <3>1. [res EXCEPT !.exp = q] = Finite(B.neg, 0, q)
      BY <1>5 DEF Finite
    <3>2. f = [mem EXCEPT ![call.res] = [mem[call.res] EXCEPT !.exp = q]]
      BY <2>3
    <3>3. f = [mem EXCEPT ![call.res] = Finite(B.neg, 0, q)]
      BY <2>2, <3>1, <3>2
    <3> QED
      BY <2>2, <3>3
  <2>5. mem' = [f EXCEPT ![call.res].neg = s]
    <3>1. mem' = [[mem EXCEPT ![call.res].exp = IF zexp < @ THEN zexp ELSE @]
                     EXCEPT ![call.res].neg = IF diffsign THEN set.round = "FLOOR" ELSE @]
      BY <1>1
    <3>2. (IF zexp < mem[call.res].exp THEN zexp ELSE mem[call.res].exp) = q
      BY <1>8, <2>1, <2>2
    <3>3. mem' = [f EXCEPT ![call.res].neg = IF diffsign THEN set.round = "FLOOR" ELSE @]
      BY <2>3, <3>1, <3>2, Zenon
    <3>4. (IF diffsign THEN set.round = "FLOOR" ELSE f[call.res].neg) = s
      <4>1. f[call.res].neg = B.neg
        BY <2>4, FiniteFields
      <4> QED
        BY <1>10, <4>1, Zenon
    <3> QED
      BY <3>3, <3>4, Zenon
  <2>6. [Finite(B.neg, 0, q) EXCEPT !.neg = s] = z
    BY <1>11 DEF Finite
  <2>7. mem' = [f EXCEPT ![call.res] = z]
    BY <2>4, <2>5, <2>6
  <2> QED
    BY <2>2, <2>4, <2>7
<1>13. zexp \in Int /\ ctxStatus \subseteq Flags \ {"sNaN"}
  BY <1>2 DEF Known
<1>14. /\ residue' = 0 /\ status' = {} /\ zexp' = zexp /\ ctxStatus' = ctxStatus
       /\ UNCHANGED <<call, set, negate, diffsign, given>>
  BY <1>1, <1>5
<1>15. Writes(z)
  <2>1. residue' \in -1..9 /\ zexp' \in Int /\ status' \subseteq Flags
        /\ ctxStatus' \subseteq Flags \ {"sNaN"}
    BY <1>13, <1>14
  <2> QED
    BY <1>1, <1>11, <1>12, <1>14, <2>1 DEF Writes
<1>16. Carries(z, residue', status', s, 0, q, set)
  BY <1>8, <1>11, <1>14 DEF Carries
<1>17. IsSum(s, 0, q, A, B)
  <2>1. IsSum(B.neg, 0, q, A, B)
    BY <1>4, <1>7, <1>8, SumWithZero
  <2> QED
    BY <2>1 DEF IsSum
<1> QED
  BY <1>1, <1>2, <1>4, <1>9, <1>15, <1>16, <1>17, FinishReached

LEMMA PadToZeroStep ==
    ASSUME IInv, PadToZero
    PROVE  IInv'
<1>1. PICK room, want : /\ room = set.digits - Digits(res.coef) /\ want = res.exp - zexp
  OBVIOUS
<1>2. /\ pc = "pad" /\ ~IsZero(res) /\ pc' = "finish"
      /\ UNCHANGED <<call, set, negate, diffsign, zexp, residue, ctxStatus, given>>
  BY DEF PadToZero
<1>3. Known /\ Taken /\ AtPad
  BY DEF IInv
<1>4. /\ A \in Numbers /\ B \in Numbers /\ Context(set) /\ res \in Numbers
      /\ call.res \in Slots
  BY <1>2, <1>3, OperandFacts, KnownFacts
<1>5. mem \in [Slots -> Numbers] /\ zexp \in Int /\ residue \in -1..9
      /\ ctxStatus \subseteq Flags \ {"sNaN"}
  BY <1>3 DEF Known
<1>6. mem' = [mem EXCEPT ![call.res] = Padded(res, zexp, room)]
      /\ status' = PaddedFlags(res, zexp, room, status)
  <2>1. PICK shift : shift = IF want > room THEN room ELSE want
    OBVIOUS
  <2>2. /\ mem' = IF want > 0
                  THEN [mem EXCEPT ![call.res].coef = @ * powers[shift],
                                   ![call.res].exp = @ - shift]
                  ELSE mem
        /\ status' = IF want > 0 /\ want > room THEN status \cup {"Rounded"} ELSE status
    BY <1>1, <2>1, Zenon DEF PadToZero
  <2>3. status' = PaddedFlags(res, zexp, room, status)
    BY <1>1, <2>2, Zenon DEF PaddedFlags
  <2>4. ASSUME want > 0
        PROVE  mem' = [mem EXCEPT ![call.res] = Padded(res, zexp, room)]
    <3>1. Padded(res, zexp, room) = Shifted(res, shift)
      BY <1>1, <2>1, <2>4, Zenon DEF Padded
    <3>2. mem' = [[mem EXCEPT ![call.res].coef = @ * powers[shift]]
                     EXCEPT ![call.res].exp = @ - shift]
      BY <2>2, <2>4
    <3>3. Shifted(res, shift) = [[res EXCEPT !.coef = @ * powers[shift]] EXCEPT !.exp = @ - shift]
      BY DEF Shifted
    <3>4. PICK y : y = [res EXCEPT !.coef = @ * powers[shift]]
      OBVIOUS
    <3>5. PICK f : f = [mem EXCEPT ![call.res].coef = @ * powers[shift]]
      OBVIOUS
    <3>6. f = [mem EXCEPT ![call.res] = y] /\ f[call.res] = y
      <4>1. f = [mem EXCEPT ![call.res] = y]
        BY <1>5, <3>4, <3>5 DEF res
      <4> QED
        BY <1>4, <1>5, <4>1
    <3>7. mem' = [f EXCEPT ![call.res] = [y EXCEPT !.exp = @ - shift]]
      <4>1. mem' = [f EXCEPT ![call.res].exp = @ - shift]
        BY <3>2, <3>5, Zenon
      <4> QED
        BY <3>6, <4>1
    <3>8. Shifted(res, shift) = [y EXCEPT !.exp = @ - shift]
      BY <3>3, <3>4, Zenon
    <3> QED
      BY <1>4, <1>5, <3>1, <3>6, <3>7, <3>8
  <2>5. ASSUME ~(want > 0)
        PROVE  mem' = [mem EXCEPT ![call.res] = Padded(res, zexp, room)]
    <3>1. Padded(res, zexp, room) = res /\ mem' = mem
      BY <1>1, <2>2, <2>5, Zenon DEF Padded
    <3> QED
      BY <1>4, <1>5, <3>1 DEF res
  <2> QED
    BY <2>3, <2>4, <2>5
<1>7. PICK x, y, q : Aligned(A, B, x, y, q)
  BY <1>4, TotalIs
<1>8. /\ q \in Int /\ q = (IF A.exp <= B.exp THEN A.exp ELSE B.exp)
      /\ x = A.coef * powers[A.exp - q] /\ y = B.coef * powers[B.exp - q]
      /\ A.exp - q \in Nat /\ B.exp - q \in Nat
      /\ A.exp \in Int /\ B.exp \in Int /\ A.coef \in Nat /\ B.coef \in Nat
  BY <1>4, <1>7 DEF Aligned, Numbers
<1>9. PICK neg, m : /\ Carries(Padded(res, zexp, room), residue, status', neg, m, q, set)
                    /\ IsSum(neg, m, q, A, B) /\ m # 0
  <2>1. ASSUME A.coef = 0, zexp = A.exp,
               Carries(res, residue, status, B.neg, B.coef, B.exp, set)
        PROVE  \E neg, m : /\ Carries(Padded(res, zexp, room), residue, status', neg, m, q, set)
                           /\ IsSum(neg, m, q, A, B) /\ m # 0
    <3>1. B.coef # 0
      BY <1>2, <2>1, CarriesNumber
    <3>2. q = IF B.exp <= zexp THEN B.exp ELSE zexp
      BY <1>8, <2>1
    <3>3. PICK j : j = B.exp - q /\ y = B.coef * powers[j] /\ j \in Nat
      BY <1>8
    <3>4. Carries(Padded(res, zexp, room), residue, status', B.neg, y, q, set)
      BY <1>1, <1>4, <1>5, <1>6, <1>8, <2>1, <3>1, <3>2, <3>3, PadCarries
    <3>5. y # 0
      BY <1>8, <3>1, <3>3, PowersFacts
    <3> QED
      BY <1>7, <2>1, <3>4, <3>5, SumWithZero
  <2>2. ASSUME A.coef # 0, B.coef = 0, zexp = B.exp,
               Carries(res, residue, status, A.neg, A.coef, A.exp, set)
        PROVE  \E neg, m : /\ Carries(Padded(res, zexp, room), residue, status', neg, m, q, set)
                           /\ IsSum(neg, m, q, A, B) /\ m # 0
    <3>2. q = IF A.exp <= zexp THEN A.exp ELSE zexp
      BY <1>8, <2>2
    <3>3. PICK j : j = A.exp - q /\ x = A.coef * powers[j] /\ j \in Nat
      BY <1>8
    <3>4. Carries(Padded(res, zexp, room), residue, status', A.neg, x, q, set)
      BY <1>1, <1>4, <1>5, <1>6, <1>8, <2>2, <3>2, <3>3, PadCarries
    <3>5. x # 0
      BY <1>8, <2>2, <3>3, PowersFacts
    <3> QED
      BY <1>7, <2>2, <3>4, <3>5, SumWithZero
  <2> QED
    BY <1>2, <1>3, <2>1, <2>2 DEF AtPad
<1>10. Padded(res, zexp, room) \in Numbers /\ status' \subseteq Flags
  BY <1>9, CarriesNumber
<1>11. /\ residue' = residue /\ zexp' = zexp /\ ctxStatus' = ctxStatus
       /\ UNCHANGED <<call, set, negate, diffsign, given>>
  BY <1>2
<1>12. Writes(Padded(res, zexp, room))
  BY <1>2, <1>5, <1>6, <1>10, <1>11 DEF Writes
<1>13. FiniteOperands
  BY <1>2, <1>3 DEF AtPad
<1>14. Carries(Padded(res, zexp, room), residue', status', neg, m, q, set)
  BY <1>9, <1>11
<1> QED
  BY <1>2, <1>3, <1>9, <1>12, <1>13, <1>14, FinishReached

\* the exact sum is what the reference rounds
LEMMA AnswerIs ==
    ASSUME Context(set), NEW neg, NEW n, NEW q, IsSum(neg, n, q, A, B),
           n = 0 => neg = ZeroSign
    PROVE  Answer = Delivered(neg, n, q, set) /\ Losses = FlagsFor(neg, n, q, set)
<1>1. /\ n \in Nat /\ q \in Int /\ neg \in BOOLEAN /\ q = SumExp(A, B)
      /\ n = (IF Total(A, B) < 0 THEN -Total(A, B) ELSE Total(A, B))
      /\ Total(A, B) \in Int
      /\ n # 0 => (neg <=> Total(A, B) < 0)
  BY DEF IsSum
<1>2. ExactExp = q /\ ExactSum = Total(A, B)
  BY <1>1, Zenon DEF ExactExp, ExactSum, SumExp, Total
<1>3. PICK t \in Int : t = Total(A, B) /\ t = ExactSum
  BY <1>1, <1>2
<1>4. Magnitude = n
  BY <1>1, <1>2, Zenon DEF Magnitude
<1>5. PICK below \in BOOLEAN : below <=> t < 0
  OBVIOUS
<1>6. below = (ExactSum < 0)
  BY <1>3, <1>5
<1>7. CASE n # 0
  <2>1. neg = below /\ t # 0
    BY <1>1, <1>3, <1>5, <1>7
  <2>2. neg = (ExactSum < 0)
    BY <1>6, <2>1, Zenon
  <2>3. Answer = Delivered(ExactSum < 0, Magnitude, ExactExp, set)
    BY <1>3, <2>1 DEF Answer
  <2>4. Answer = Delivered(neg, n, q, set)
    BY <1>2, <1>4, <2>2, <2>3, Zenon
  <2>5. Losses = FlagsFor(neg, n, q, set)
    BY <1>2, <1>4, <2>2, Zenon DEF Losses
  <2> QED
    BY <2>4, <2>5
<1>8. CASE n = 0
  <2>1. t = 0
    BY <1>1, <1>3, <1>8
  <2>2. Answer = FitZero(ZeroSign, q, set)
    BY <1>2, <1>3, <2>1 DEF Answer
  <2>3. Answer = Delivered(neg, n, q, set)
    BY <1>8, <2>2, Zenon DEF Delivered
  <2>4. Losses = FlagsFor(below, 0, q, set)
    BY <1>2, <1>4, <1>6, <1>8, Zenon DEF Losses
  <2>5. PICK p : FlagsFor(below, 0, q, set) = p /\ FlagsFor(neg, 0, q, set) = p
    <3>1. FlagsFor(below, 0, q, set) = IF ZeroPlace(q, set) # q THEN {"Clamped"} ELSE {}
      BY <1>1, ZeroDelivered
    <3>2. FlagsFor(neg, 0, q, set) = IF ZeroPlace(q, set) # q THEN {"Clamped"} ELSE {}
      BY <1>1, ZeroDelivered
    <3> QED
      BY <3>1, <3>2, Zenon
  <2> QED
    BY <1>8, <2>3, <2>4, <2>5
<1> QED
  BY <1>7, <1>8

LEMMA EndReached ==
    ASSUME Known, Taken, NEW x, Writes(x), FiniteOperands, pc' = "report",
           FitsIn(x, set), status' \subseteq LossFlags,
           Supported => x = Answer /\ status' = Losses
    PROVE  IInv'
<1>1. /\ Known' /\ Taken' /\ AtAdd' /\ res' = x
      /\ FiniteOperands' = FiniteOperands /\ Supported' = Supported
      /\ Answer' = Answer /\ Losses' = Losses
  BY WritesFacts
<1>2. set' = set
  BY DEF Writes
<1>3. AtEnd'
  BY <1>1, <1>2 DEF AtEnd
<1>4. AtPad' /\ AtFinish' /\ AtSpecial'
  BY <1>1 DEF AtPad, AtFinish, AtSpecial
<1> QED
  BY <1>1, <1>3, <1>4 DEF IInv

\* two numbers of the same exponent, the sum within what the Unit holds
UnitSum(a, b, diff, u, part) ==
    /\ a \in Nat \ {0} /\ b \in Nat \ {0} /\ u = powers[DPUN] /\ part = a % u
    /\ diff => part - b > 0
    /\ ~diff => /\ part + b <= u - 1
                /\ Digits(a) >= DPUN \/ part + b < powers[Digits(a)]

LEMMA UnitSumIs ==
    ASSUME NEW a, NEW b, NEW diff, NEW u, NEW part, UnitSum(a, b, diff, u, part)
    PROVE  /\ a \in Nat \ {0} /\ b \in Nat \ {0}
           /\ diff => b < a /\ Digits(a - b) <= Digits(a)
           /\ ~diff => Digits(a + b) <= Digits(a)
<1>1. a \in Nat \ {0} /\ b \in Nat \ {0} /\ u = powers[DPUN] /\ part = a % u
  BY DEF UnitSum
<1>2. ASSUME diff PROVE b < a /\ Digits(a - b) <= Digits(a)
  <2>1. u \in Nat \ {0}
    BY <1>1, DPUNAssumption, PowersFacts
  <2>2. PICK h \in Nat : part \in Nat /\ part < u /\ a = h * u + part
    BY <1>1, <2>1, Euclid
  <2>3. part <= a
    <3>1. h * u \in Nat
      BY <2>1
    <3> QED
      BY <2>2, <3>1
  <2>4. part - b > 0
    BY <1>2 DEF UnitSum
  <2>5. b < a /\ a - b \in Nat /\ a - b <= a /\ a \in Nat
    BY <1>1, <2>2, <2>3, <2>4
  <2> QED
    BY <2>5, DigitsGrow
<1>3. ASSUME ~diff PROVE Digits(a + b) <= Digits(a)
  BY <1>1, <1>3, UnitSumFits DEF UnitSum
<1> QED
  BY <1>1, <1>2, <1>3

LEMMA FastPathStep ==
    ASSUME IInv, FastPath
    PROVE  IInv'
<1>1. /\ pc = "add" /\ ~IsSpecial(lhs) /\ ~IsSpecial(rhs) /\ ~IsZero(lhs) /\ ~IsZero(rhs)
      /\ rhs.exp = lhs.exp /\ rhs.exp >= set.emin /\ rhs.exp <= Etop(set)
      /\ Digits(lhs.coef) <= set.digits
      /\ IF diffsign THEN partial - rhs.coef > 0
         ELSE /\ partial + rhs.coef <= powers[DPUN] - 1
              /\ \/ Digits(lhs.coef) >= DPUN
                 \/ partial + rhs.coef < powers[Digits(lhs.coef)]
      /\ Deliver([lhs EXCEPT !.coef = IF diffsign THEN @ - rhs.coef
                                      ELSE @ + rhs.coef], {})
  BY DEF FastPath, BothNonZero, BothFinite, FitsInUnit, reqdigits
<1>2. /\ Known /\ Taken /\ status = {} /\ lhs = A /\ A \in Numbers /\ B \in Numbers
      /\ B.coef = rhs.coef /\ B.exp = rhs.exp /\ B.kind = rhs.kind
      /\ (diffsign <=> A.neg # B.neg)
  BY <1>1, StartFacts
<1>3. Context(set)
  BY <1>2, KnownFacts
<1>4. /\ ~IsSpecial(A) /\ ~IsSpecial(B) /\ A.coef # 0 /\ B.coef # 0 /\ FiniteOperands
  BY <1>1, <1>2 DEF IsSpecial, IsZero, FiniteOperands
<1>5. PICK neg \in BOOLEAN, a \in Nat \ {0}, b \in Nat \ {0}, e \in Int :
          /\ A = Finite(neg, a, e) /\ neg = A.neg /\ a = A.coef /\ e = A.exp
          /\ b = B.coef /\ e = B.exp
  BY <1>1, <1>2, <1>4, NumberIs
<1>6. PICK u, part : u = powers[DPUN] /\ part = a % u /\ part = partial
  BY <1>2, <1>5 DEF partial
<1>7. UnitSum(a, b, diffsign, u, part)
  BY <1>1, <1>2, <1>5, <1>6 DEF UnitSum
<1>8. /\ diffsign => b < a /\ Digits(a - b) <= Digits(a)
      /\ ~diffsign => Digits(a + b) <= Digits(a)
  BY <1>7, UnitSumIs
<1>9. PICK x, y, q : Aligned(A, B, x, y, q)
  BY <1>2, TotalIs
<1>10. q = e /\ x = a /\ y = b
  <2>1. q = (IF A.exp <= B.exp THEN A.exp ELSE B.exp)
        /\ x = A.coef * powers[A.exp - q] /\ y = B.coef * powers[B.exp - q]
    BY <1>9 DEF Aligned
  <2>2. q = e
    BY <1>5, <2>1
  <2>3. A.exp - q = 0 /\ B.exp - q = 0 /\ powers[0] = 1
    BY <1>5, <2>2, PowersFacts
  <2>4. x = a * 1 /\ y = b * 1
    BY <1>5, <2>1, <2>3, Zenon
  <2> QED
    BY <2>2, <2>4
<1>11. PICK n \in Nat \ {0} : /\ n = IF diffsign THEN a - b ELSE a + b
                              /\ Digits(n) <= Digits(a)
  <2>1. CASE diffsign
    <3>1. a - b \in Nat \ {0}
      BY <1>8, <2>1
    <3> QED
      BY <1>8, <2>1, <3>1
  <2>2. CASE ~diffsign
    <3>1. a + b \in Nat \ {0}
      OBVIOUS
    <3> QED
      BY <1>8, <2>2, <3>1
  <2> QED
    BY <2>1, <2>2
<1>12. IsSum(neg, n, e, A, B)
  <2>1. CASE diffsign
    <3>1. a >= b /\ n = a - b
      BY <1>8, <1>11, <2>1
    <3> QED
      BY <1>2, <1>5, <1>9, <1>10, <2>1, <3>1, SumIs
  <2>2. CASE ~diffsign
    <3>1. n = a + b
      BY <1>11, <2>2
    <3> QED
      BY <1>2, <1>5, <1>9, <1>10, <2>2, <3>1, SumIs
  <2> QED
    BY <2>1, <2>2
<1>13. Digits(n) <= set.digits
  <2>1. PICK d \in Nat, f \in Nat, P \in Nat :
            d = Digits(n) /\ f = Digits(a) /\ P = set.digits
    BY <1>3, ContextRange, DigitsFacts
  <2>2. d <= f /\ f <= P
    BY <1>1, <1>2, <1>5, <1>11, <2>1
  <2> QED
    BY <2>1, <2>2
<1>14. PICK z : /\ z = Finite(neg, n, e) /\ z \in Numbers
                /\ Deliver(z, {})
  <2>1. Finite(neg, n, e) \in Numbers
    BY DEF Finite, Numbers, Kinds
  <2>2. [lhs EXCEPT !.coef = IF diffsign THEN @ - rhs.coef ELSE @ + rhs.coef]
            = Finite(neg, n, e)
    <3>1. [Finite(neg, a, e) EXCEPT !.coef = n] = Finite(neg, n, e)
      BY DEF Finite
    <3>2. (IF diffsign THEN lhs.coef - rhs.coef ELSE lhs.coef + rhs.coef) = n
      BY <1>2, <1>5, <1>11
    <3> QED
      BY <1>2, <1>5, <3>1, <3>2, Zenon
  <2> QED
    BY <1>1, <2>1, <2>2
<1>15. set.emin <= e /\ e <= Etop(set)
  BY <1>1, <1>2, <1>5, <1>3, ContextRange
<1>16. Delivered(neg, n, e, set) = z /\ FlagsFor(neg, n, e, set) = {}
  BY <1>3, <1>13, <1>14, <1>15, ExactDelivered
<1>17. FitsIn(z, set)
  BY <1>3, <1>16, DeliveredFits
<1>18. Answer = z /\ Losses = {}
  BY <1>3, <1>12, <1>16, AnswerIs
<1>19. Writes(z) /\ status' = {} /\ pc' = "report"
  <2>1. {} \subseteq Flags
    OBVIOUS
  <2> QED
    BY <1>1, <1>2, <1>14, <2>1, DeliverFacts
<1> QED
  BY <1>2, <1>4, <1>17, <1>18, <1>19, EndReached

(***************************************************************************)
(* Two operands that are not zero: c * 10^e is the one with the larger     *)
(* exponent, s * 10^q the other; v is c in units of 10^q.                  *)
(***************************************************************************)
Roles(bneg, neg, sg, c, e, s, q, p, v) ==
    /\ bneg \in BOOLEAN /\ neg \in BOOLEAN /\ sg \in BOOLEAN
    /\ big = Finite(bneg, c, e) /\ neg = (IF swapped THEN bneg ELSE Xor(bneg, negate))
    /\ sg = (IF swapped THEN Xor(rhs.neg, negate) ELSE lhs.neg)
    /\ small.coef = s /\ small.exp = q /\ padding = p
    /\ c \in Nat \ {0} /\ e \in Int /\ s \in Nat \ {0} /\ q \in Int
    /\ p \in Nat /\ p = e - q /\ v = c * powers[p] /\ v \in Nat
    /\ diffsign <=> sg # neg
    /\ Short => Digits(c) <= set.digits + 2
    /\ ~diffsign => IsSum(neg, v + s, q, A, B)
    /\ diffsign /\ v >= s => IsSum(neg, v - s, q, A, B)
    /\ diffsign /\ s >= v => IsSum(sg, s - v, q, A, B)

LEMMA RolesHold ==
    ASSUME IInv, BothNonZero
    PROVE  \E bneg, neg, sg, c, e, s, q, p, v : Roles(bneg, neg, sg, c, e, s, q, p, v)
<1>1. /\ pc = "add" /\ ~IsSpecial(lhs) /\ ~IsSpecial(rhs) /\ ~IsZero(lhs) /\ ~IsZero(rhs)
  BY DEF BothNonZero, BothFinite
<1>2. /\ Known /\ Taken /\ lhs = A /\ A \in Numbers /\ B \in Numbers
      /\ B.coef = rhs.coef /\ B.exp = rhs.exp /\ B.neg = Xor(rhs.neg, negate)
      /\ (diffsign <=> A.neg # B.neg)
  BY <1>1, StartFacts
<1>3. lhs \in Numbers /\ rhs \in Numbers /\ negate \in BOOLEAN
  BY <1>2, KnownFacts DEF Known
<1>4. /\ lhs = Finite(lhs.neg, lhs.coef, lhs.exp) /\ rhs = Finite(rhs.neg, rhs.coef, rhs.exp)
      /\ lhs.neg \in BOOLEAN /\ lhs.coef \in Nat \ {0} /\ lhs.exp \in Int
      /\ rhs.neg \in BOOLEAN /\ rhs.coef \in Nat \ {0} /\ rhs.exp \in Int
      /\ lhs.coef # 0 /\ rhs.coef # 0
  <2>1. lhs.coef # 0 /\ rhs.coef # 0
    BY <1>1 DEF IsSpecial, IsZero
  <2> QED
    BY <1>1, <1>3, <2>1, NumberIs
<1>5. PICK x, y, q : Aligned(A, B, x, y, q)
  BY <1>2, TotalIs
<1>6. /\ q \in Int /\ x \in Nat /\ y \in Nat
      /\ q = (IF A.exp <= B.exp THEN A.exp ELSE B.exp)
      /\ x = A.coef * powers[A.exp - q] /\ y = B.coef * powers[B.exp - q]
      /\ A.neg \in BOOLEAN /\ B.neg \in BOOLEAN
  BY <1>5 DEF Aligned
<1>7. /\ ~diffsign => IsSum(A.neg, x + y, q, A, B)
      /\ diffsign /\ x >= y => IsSum(A.neg, x - y, q, A, B)
      /\ diffsign /\ y >= x => IsSum(B.neg, y - x, q, A, B)
  BY <1>2, <1>5, SumIs
<1>8. CASE swapped
  <2>1. big = lhs /\ small = rhs /\ rhs.exp < lhs.exp
    BY <1>8 DEF big, small, swapped
  <2>2. q = rhs.exp
    BY <1>2, <1>4, <1>6, <2>1
  <2>3. PICK p \in Nat : p = lhs.exp - q /\ padding = p
    BY <1>4, <2>1, <2>2 DEF padding
  <2>4. x = lhs.coef * powers[p]
    BY <1>2, <1>6, <2>3
  <2>5. y = rhs.coef
    <3>1. B.exp - q = 0 /\ powers[0] = 1
      BY <1>2, <1>4, <2>2, PowersFacts
    <3>2. y = rhs.coef * 1
      BY <1>2, <1>6, <3>1, Zenon
    <3> QED
      BY <1>4, <3>2
  <2>6. Short => Digits(lhs.coef) <= set.digits + 2
    BY <1>2 DEF Short
  <2>7. Roles(lhs.neg, lhs.neg, B.neg, lhs.coef, lhs.exp, rhs.coef, q, p, x)
    BY <1>2, <1>4, <1>6, <1>7, <1>8, <2>1, <2>2, <2>3, <2>4, <2>5, <2>6 DEF Roles
  <2> QED
    BY <2>7
<1>9. CASE ~swapped
  <2>1. big = rhs /\ small = lhs /\ ~(rhs.exp < lhs.exp)
    BY <1>9 DEF big, small, swapped
  <2>2. q = lhs.exp
    BY <1>2, <1>4, <1>6, <2>1
  <2>3. PICK p \in Nat : p = rhs.exp - q /\ padding = p
    BY <1>4, <2>1, <2>2 DEF padding
  <2>4. y = rhs.coef * powers[p]
    BY <1>2, <1>6, <2>3
  <2>5. x = lhs.coef
    <3>1. A.exp - q = 0 /\ powers[0] = 1
      BY <1>2, <1>4, <2>2, PowersFacts
    <3>2. x = lhs.coef * 1
      BY <1>2, <1>6, <3>1, Zenon
    <3> QED
      BY <1>4, <3>2
  <2>6. Short => Digits(rhs.coef) <= set.digits + 2
    BY <1>2 DEF Short
  <2>7. ~diffsign => IsSum(B.neg, y + x, q, A, B)
    <3>1. x + y = y + x
      BY <1>6
    <3> QED
      BY <1>2, <1>6, <1>7, <3>1
  <2>8. Roles(rhs.neg, B.neg, lhs.neg, rhs.coef, rhs.exp, lhs.coef, q, p, y)
    BY <1>2, <1>4, <1>6, <1>7, <1>9, <2>1, <2>2, <2>3, <2>4, <2>5, <2>6, <2>7 DEF Roles
  <2> QED
    BY <2>8
<1> QED
  BY <1>8, <1>9

Turned(x) == [x EXCEPT !.neg = IF swapped THEN @ ELSE Xor(@, negate)]

LEMMA BigSufficesStep ==
    ASSUME IInv, BigSuffices
    PROVE  IInv'
<1>1. /\ BothNonZero /\ Outweighed /\ pc = "add" /\ pc' = "finish"
      /\ ~IsSpecial(lhs) /\ ~IsSpecial(rhs)
      /\ UNCHANGED <<call, set, negate, diffsign, zexp, ctxStatus, given>>
  BY DEF BigSuffices, BothNonZero, BothFinite
<1>2. /\ Known /\ Taken /\ status = {} /\ lhs = A /\ B.kind = rhs.kind
      /\ (diffsign <=> A.neg # B.neg)
  BY <1>1, StartFacts
<1>3. Context(set) /\ set.digits \in Nat \ {0}
  BY <1>2, KnownFacts
<1>4. PICK bneg, neg, sg, c, e, s, q, p, v : Roles(bneg, neg, sg, c, e, s, q, p, v)
  BY <1>1, RolesHold
<1>5. /\ bneg \in BOOLEAN /\ neg \in BOOLEAN
      /\ big = Finite(bneg, c, e) /\ neg = (IF swapped THEN bneg ELSE Xor(bneg, negate))
      /\ small.coef = s /\ padding = p
      /\ c \in Nat \ {0} /\ e \in Int /\ s \in Nat \ {0} /\ q \in Int
      /\ p \in Nat /\ p = e - q /\ v = c * powers[p] /\ v \in Nat
      /\ Short => Digits(c) <= set.digits + 2
      /\ ~diffsign => IsSum(neg, v + s, q, A, B)
      /\ diffsign /\ v >= s => IsSum(neg, v - s, q, A, B)
  BY <1>4 DEF Roles
<1>6. Outweighs(c, e, s, q, p, set)
  <2>1. padding # 0 /\ Digits(big.coef) + padding > Digits(small.coef) + set.digits + 1
    BY <1>1 DEF Outweighed, reqdigits
  <2>2. big.coef = c
    BY <1>5, FiniteFields
  <2> QED
    BY <1>5, <2>1, <2>2 DEF Outweighs
<1>7. v > s
  <2>1. SUFFICES ASSUME v <= s PROVE FALSE
    BY <1>5
  <2>2. Digits(v) <= Digits(s)
    BY <1>5, <2>1, DigitsGrow
  <2>3. Digits(v) = Digits(c) + p
    BY <1>5, DigitsScaled
  <2>4. Digits(c) \in Nat /\ Digits(s) \in Nat /\ Digits(v) \in Nat
    BY <1>5, DigitsFacts
  <2> QED
    BY <1>3, <1>5, <1>6, <2>2, <2>3, <2>4 DEF Outweighs
<1>8. PICK r \in {-1, 1} : r = IF diffsign THEN -1 ELSE 1
  OBVIOUS
<1>9. PICK rest \in Int : rest = IF r = 1 THEN s ELSE -s
  BY <1>5
<1>10. PICK m \in Int : m = c * powers[p] + rest
  BY <1>5, <1>9
<1>11. PICK shift : shift = set.digits - Digits(c)
  OBVIOUS
<1>12. PICK x, t, st : /\ SetCoeff(Work(Finite(bneg, c, e), r, {}), set) = Work(x, t, st)
                       /\ "Rounded" \in st
                       /\ \E n, l : /\ Carries(Fitted(x, shift), t, st, bneg, n, l, set)
                                    /\ Digits(c) <= set.digits + 2 => n = m /\ l = q
  BY <1>3, <1>5, <1>6, <1>9, <1>10, <1>11, BigCarries
<1>13. PICK n, l : /\ Carries(Fitted(x, shift), t, st, bneg, n, l, set)
                   /\ Digits(c) <= set.digits + 2 => n = m /\ l = q
  BY <1>12
<1>14. PICK z : /\ z = [Fitted(x, shift) EXCEPT !.neg = IF swapped THEN @ ELSE Xor(@, negate)]
                /\ Carries(z, t, st, neg, n, l, set)
  <2>1. CASE swapped
    <3>1. Fitted(x, shift) \in Numbers
      BY <1>13, CarriesNumber
    <3>2. [Fitted(x, shift) EXCEPT !.neg = IF swapped THEN @ ELSE Xor(@, negate)]
              = Fitted(x, shift)
      BY <2>1, <3>1 DEF Numbers
    <3>3. neg = bneg
      BY <1>5, <2>1
    <3> QED
      BY <1>13, <3>2, <3>3
  <2>2. CASE ~swapped
    <3>1. negate \in BOOLEAN
      BY <1>2 DEF Known
    <3>2. Carries([Fitted(x, shift) EXCEPT !.neg = Xor(@, negate)], t, st,
                  Xor(bneg, negate), n, l, set)
      BY <1>13, <3>1, FlipCarries
    <3>3. [Fitted(x, shift) EXCEPT !.neg = IF swapped THEN @ ELSE Xor(@, negate)]
              = [Fitted(x, shift) EXCEPT !.neg = Xor(@, negate)]
      BY <2>2, Zenon
    <3>4. neg = Xor(bneg, negate)
      BY <1>5, <2>2
    <3> QED
      BY <3>2, <3>3, <3>4
  <2> QED
    BY <2>1, <2>2
<1>15. mem' = [mem EXCEPT ![call.res] = z] /\ residue' = t /\ status' = st
  <2>1. PICK w : w = CopyFit(big, IF diffsign THEN -1 ELSE 1) /\ w.dn = x /\ w.residue = t
                 /\ w.status = st
    <3>1. CopyFit(big, IF diffsign THEN -1 ELSE 1) = Work(x, t, st)
      BY <1>2, <1>5, <1>8, <1>12, Zenon DEF CopyFit
    <3> QED
      BY <3>1, WorkFields
  <2>2. shift = reqdigits - Digits(big.coef)
    BY <1>5, <1>11, FiniteFields DEF reqdigits
  <2>3. residue' = w.residue /\ status' = w.status
    BY <2>1, Zenon DEF BigSuffices
  <2>4. mem' = [mem EXCEPT ![call.res] =
                    Turned(Fitted(CopyFit(big, IF diffsign THEN -1 ELSE 1).dn,
                                  reqdigits - Digits(big.coef)))]
    BY DEF BigSuffices, Turned, Fitted, Shifted
  <2>5. mem' = [mem EXCEPT ![call.res] = Turned(Fitted(x, shift))]
    BY <2>1, <2>2, <2>4, Zenon
  <2>6. Turned(Fitted(x, shift)) = z
    BY <1>14, Zenon DEF Turned
  <2> QED
    BY <2>1, <2>3, <2>5, <2>6
<1>16. n # 0
  BY <1>12, <1>14 DEF Carries
<1>17. ASSUME Short PROVE IsSum(neg, n, l, A, B)
  <2>1. n = m /\ l = q
    BY <1>5, <1>13, <1>17
  <2>2. CASE diffsign
    <3>1. m = v - s /\ v >= s
      BY <1>5, <1>7, <1>8, <1>9, <1>10, <2>2
    <3> QED
      BY <1>5, <2>1, <2>2, <3>1
  <2>3. CASE ~diffsign
    <3>1. m = v + s
      BY <1>5, <1>8, <1>9, <1>10, <2>3
    <3> QED
      BY <1>5, <2>1, <2>3, <3>1
  <2> QED
    BY <2>2, <2>3
<1>18. Writes(z)
  <2>1. z \in Numbers /\ t \in -1..9 /\ st \subseteq Flags
    BY <1>14, CarriesNumber
  <2>2. zexp' \in Int /\ ctxStatus' \subseteq Flags \ {"sNaN"}
    BY <1>1, <1>2 DEF Known
  <2> QED
    BY <1>1, <1>15, <2>1, <2>2 DEF Writes
<1>19. FiniteOperands
  BY <1>1, <1>2 DEF FiniteOperands, IsSpecial
<1>20. Carries(z, residue', status', neg, n, l, set)
  BY <1>14, <1>15
<1> QED
  BY <1>1, <1>2, <1>16, <1>17, <1>18, <1>19, <1>20, FinishReached

LEMMA AddAlignedStep ==
    ASSUME IInv, AddAligned
    PROVE  IInv'
<1>1. /\ BothNonZero /\ pc = "add" /\ pc' = "finishSum"
      /\ ~IsSpecial(lhs) /\ ~IsSpecial(rhs)
      /\ UNCHANGED <<call, set, negate, diffsign, zexp, ctxStatus, given>>
  BY DEF AddAligned, BothNonZero, BothFinite
<1>2. /\ Known /\ Taken /\ status = {} /\ lhs = A /\ B.kind = rhs.kind
  BY <1>1, StartFacts
<1>3. Context(set) /\ diffsign \in BOOLEAN
  BY <1>2, KnownFacts DEF Known
<1>4. PICK bneg, neg, sg, c, e, s, q, p, v : Roles(bneg, neg, sg, c, e, s, q, p, v)
  BY <1>1, RolesHold
<1>5. /\ neg \in BOOLEAN /\ sg \in BOOLEAN /\ big = Finite(bneg, c, e)
      /\ sg = (IF swapped THEN Xor(rhs.neg, negate) ELSE lhs.neg)
      /\ small.coef = s /\ small.exp = q /\ padding = p
      /\ s \in Nat \ {0} /\ q \in Int /\ v = c * powers[p] /\ v \in Nat
      /\ (diffsign <=> sg # neg)
      /\ ~diffsign => IsSum(neg, v + s, q, A, B)
      /\ diffsign /\ v >= s => IsSum(neg, v - s, q, A, B)
      /\ diffsign /\ s >= v => IsSum(sg, s - v, q, A, B)
  BY <1>4 DEF Roles
<1>6. PICK sum \in Int : sum = IF diffsign THEN s - v ELSE s + v
  BY <1>5
<1>7. PICK below \in BOOLEAN : below <=> sum < 0
  OBVIOUS
<1>8. PICK n \in Nat, ns \in BOOLEAN : n = (IF sum < 0 THEN -sum ELSE sum) /\ ns = Xor(sg, below)
  <2>1. (IF sum < 0 THEN -sum ELSE sum) \in Nat
    OBVIOUS
  <2>2. Xor(sg, below) \in BOOLEAN
    BY DEF Xor
  <2> QED
    BY <2>1, <2>2
<1>9. IsSum(ns, n, q, A, B)
  <2>1. CASE ~diffsign
    <3>1. n = v + s /\ ~below /\ sg = neg
      BY <1>5, <1>6, <1>7, <1>8, <2>1
    <3>2. ns = neg
      BY <1>5, <1>8, <3>1 DEF Xor
    <3> QED
      BY <1>5, <2>1, <3>1, <3>2
  <2>2. CASE diffsign /\ s >= v
    <3>1. n = s - v /\ ~below
      BY <1>5, <1>6, <1>7, <1>8, <2>2
    <3>2. ns = sg
      BY <1>5, <1>8, <3>1 DEF Xor
    <3> QED
      BY <1>5, <2>2, <3>1, <3>2
  <2>3. CASE diffsign /\ s < v
    <3>1. n = v - s /\ below /\ v >= s
      BY <1>5, <1>6, <1>7, <1>8, <2>3
    <3>2. ns = neg
      BY <1>5, <1>8, <2>3, <3>1 DEF Xor
    <3> QED
      BY <1>5, <2>3, <3>1, <3>2
  <2>4. s >= v \/ s < v
    BY <1>5
  <2> QED
    BY <1>3, <2>1, <2>2, <2>3, <2>4
<1>10. n = 0 => diffsign
  <2>1. ~diffsign => sum = s + v
    BY <1>6
  <2> QED
    BY <1>5, <1>8, <2>1
<1>11. PICK x, r, st : /\ SetCoeff(Work(Finite(ns, n, q), 0, {}), set) = Work(x, r, st)
                       /\ Carries(x, r, st, ns, n, q, set)
  BY <1>3, <1>5, SetCoeffCarries
<1>12. mem' = [mem EXCEPT ![call.res] = x] /\ residue' = r /\ status' = st
  <2>1. big.coef * powers[padding] = v
    BY <1>5, FiniteFields
  <2>2. sum = (IF diffsign THEN small.coef - big.coef * powers[padding]
               ELSE small.coef + big.coef * powers[padding])
    BY <1>5, <1>6, <2>1
  <2>3. below = (sum < 0)
    BY <1>7
  <2>4. PICK w : w = SetCoeff(Work(Finite(Xor(sg, sum < 0),
                                         IF sum < 0 THEN -sum ELSE sum,
                                         small.exp), 0, status), set)
    OBVIOUS
  <2>5. w = Work(x, r, st)
    BY <1>2, <1>5, <1>8, <1>11, <2>3, <2>4, Zenon
  <2>6. mem' = [mem EXCEPT ![call.res] = w.dn] /\ residue' = w.residue /\ status' = w.status
    BY <1>5, <2>2, <2>4, Zenon DEF AddAligned
  <2>7. w.dn = x /\ w.residue = r /\ w.status = st
    BY <2>5, WorkFields
  <2> QED
    BY <2>6, <2>7
<1>13. Writes(x)
  <2>1. x \in Numbers /\ r \in -1..9 /\ st \subseteq Flags
    BY <1>11, CarriesNumber
  <2>2. zexp' \in Int /\ ctxStatus' \subseteq Flags \ {"sNaN"}
    BY <1>1, <1>2 DEF Known
  <2> QED
    BY <1>1, <1>12, <2>1, <2>2 DEF Writes
<1>14. FiniteOperands
  BY <1>1, <1>2 DEF FiniteOperands, IsSpecial
<1>15. Carries(x, residue', status', ns, n, q, set)
  BY <1>11, <1>12
<1> QED
  BY <1>1, <1>2, <1>9, <1>10, <1>13, <1>14, <1>15, FinishReached

\* the sign of a number has no part in whether it fits
LEMMA SignFits ==
    ASSUME NEW x, NEW ctx, FitsIn(x, ctx), NEW s \in BOOLEAN
    PROVE  FitsIn([x EXCEPT !.neg = s], ctx)
<1>1. x \in Numbers
  BY DEF FitsIn
<1>2. PICK y : y = [x EXCEPT !.neg = s]
  OBVIOUS
<1>3. y \in Numbers /\ y.kind = x.kind /\ y.coef = x.coef /\ y.exp = x.exp
  BY <1>1, <1>2 DEF Numbers
<1>4. FitsIn(y, ctx)
  BY <1>3 DEF FitsIn, IsSpecial
<1> QED
  BY <1>2, <1>4

LEMMA FinishStep ==
    ASSUME IInv, Finish
    PROVE  IInv'
<1>1. pc \in {"finish", "finishSum"} /\ pc' = "report"
      /\ UNCHANGED <<call, set, negate, diffsign, zexp, ctxStatus, given>>
  BY DEF Finish
<1>2. Known /\ Taken /\ AtFinish
  BY DEF IInv
<1>3. /\ A \in Numbers /\ B \in Numbers /\ (diffsign <=> A.neg # B.neg) /\ Context(set)
      /\ pc # "call" /\ set.digits \in Nat \ {0}
  BY <1>1, <1>2, OperandFacts, KnownFacts
<1>4. PICK neg, n, q : /\ Carries(res, residue, status, neg, n, q, set)
                       /\ Short \/ n = 0 \/ pc = "finishSum" => IsSum(neg, n, q, A, B)
                       /\ n = 0 => IF pc = "finish" THEN neg = ZeroSign ELSE diffsign
  BY <1>1, <1>2 DEF AtFinish
<1>5. FiniteOperands
  BY <1>1, <1>2 DEF AtFinish
<1>6. n \in Nat /\ q \in Int /\ neg \in BOOLEAN
  BY <1>4 DEF Carries
<1>7. PICK f : f = Finished
  OBVIOUS
<1>8. /\ Proper(f, set)
      /\ set.digits > 1 \/ n = 0 => /\ f.dn = Delivered(neg, n, q, set)
                                    /\ f.status = FlagsFor(neg, n, q, set)
  BY <1>3, <1>4, <1>7, FinishCarries DEF Finished
<1>9. Supported => Short /\ set.digits > 1
  BY DEF Supported, Short
<1>10. PICK w : /\ w = (IF pc = "finishSum" THEN SignExactZero(f) ELSE f)
                /\ mem' = [mem EXCEPT ![call.res] = w.dn] /\ status' = w.status
                /\ residue' = w.residue
  <2>1. PICK w : w = (IF pc = "finishSum" THEN SignExactZero(f) ELSE f)
    OBVIOUS
  <2>2. /\ mem' = [mem EXCEPT ![call.res] = w.dn] /\ status' = w.status
        /\ residue' = w.residue
    BY <1>7, <2>1, Zenon DEF Finish
  <2> QED
    BY <2>1, <2>2
<1>11. PICK floor \in BOOLEAN : floor = (set.round = "FLOOR")
  OBVIOUS
<1>12. \/ w = f /\ ~(pc = "finishSum" /\ IsZero(f.dn) /\ diffsign /\ "Inexact" \notin f.status)
       \/ /\ w = [f EXCEPT !.dn.neg = floor]
          /\ pc = "finishSum" /\ IsZero(f.dn) /\ diffsign /\ "Inexact" \notin f.status
  BY <1>10, <1>11, Zenon DEF SignExactZero
<1>13. /\ f = Work(f.dn, f.residue, f.status) /\ FitsIn(f.dn, set)
       /\ f.residue \in -1..9 /\ f.status \subseteq LossFlags
  BY <1>8 DEF Proper
<1>14. ASSUME w = [f EXCEPT !.dn.neg = floor]
       PROVE  /\ w.dn = [f.dn EXCEPT !.neg = floor] /\ w.residue = f.residue
              /\ w.status = f.status
  <2>1. PICK g, r, st : g = f.dn /\ r = f.residue /\ st = f.status /\ f = Work(g, r, st)
    BY <1>13
  <2>2. PICK y : y = [g EXCEPT !.neg = floor]
    OBVIOUS
  <2>3. [f EXCEPT !.dn.neg = floor] = [f EXCEPT !.dn = [f.dn EXCEPT !.neg = floor]]
    OBVIOUS
  <2>4. [f EXCEPT !.dn = y] = Work(y, r, st)
    <3>1. [Work(g, r, st) EXCEPT !.dn = y] = Work(y, r, st)
      BY DEF Work
    <3> QED
      BY <2>1, <3>1, Zenon
  <2>5. w = Work(y, r, st)
    BY <1>14, <2>1, <2>2, <2>3, <2>4, Zenon
  <2> QED
    BY <2>1, <2>2, <2>5, WorkFields
<1>15. FitsIn(w.dn, set) /\ w.residue \in -1..9 /\ w.status \subseteq LossFlags
  BY <1>12, <1>13, <1>14, SignFits
<1>16. w.dn \in Numbers /\ w.status \subseteq Flags
  <2>1. LossFlags \subseteq Flags
    BY DEF LossFlags, Flags
  <2> QED
    BY <1>15, <2>1 DEF FitsIn
<1>17. Writes(w.dn)
  <2>1. zexp' \in Int /\ ctxStatus' \subseteq Flags \ {"sNaN"}
    BY <1>1, <1>2 DEF Known
  <2> QED
    BY <1>1, <1>3, <1>10, <1>15, <1>16, <2>1 DEF Writes
<1>18. ASSUME Supported PROVE w.dn = Answer /\ w.status = Losses
  <2>1. IsSum(neg, n, q, A, B)
    BY <1>4, <1>9, <1>18
  <2>2. f.dn = Delivered(neg, n, q, set) /\ f.status = FlagsFor(neg, n, q, set)
    BY <1>8, <1>9, <1>18
  <2>3. CASE n = 0 /\ pc = "finishSum"
    <3>1. diffsign /\ floor = ZeroSign /\ A.neg # B.neg
      BY <1>3, <1>4, <1>11, <2>3 DEF ZeroSign
    <3>2. PICK z : z = ZeroPlace(q, set)
      OBVIOUS
    <3>3. /\ f.dn = Finite(neg, 0, z) /\ z \in Int
          /\ f.status = IF z # q THEN {"Clamped"} ELSE {}
          /\ Delivered(floor, 0, q, set) = Finite(floor, 0, z)
          /\ FlagsFor(floor, 0, q, set) = IF z # q THEN {"Clamped"} ELSE {}
      <4>1. neg \in BOOLEAN /\ q \in Int
        BY <1>6
      <4>2. /\ z \in Int /\ Delivered(neg, 0, q, set) = Finite(neg, 0, z)
            /\ FlagsFor(neg, 0, q, set) = IF z # q THEN {"Clamped"} ELSE {}
        BY <1>3, <3>2, <4>1, ZeroDelivered
      <4>3. /\ Delivered(floor, 0, q, set) = Finite(floor, 0, z)
            /\ FlagsFor(floor, 0, q, set) = IF z # q THEN {"Clamped"} ELSE {}
        BY <1>3, <3>2, <4>1, ZeroDelivered
      <4> QED
        BY <2>2, <2>3, <4>2, <4>3
    <3>4. IsZero(f.dn) /\ "Inexact" \notin f.status
      BY <3>3, FiniteFields DEF IsZero
    <3>5. w = [f EXCEPT !.dn.neg = floor]
      BY <1>12, <2>3, <3>1, <3>4
    <3>6. w.dn = Finite(floor, 0, z) /\ w.status = FlagsFor(floor, 0, q, set)
      <4>1. [Finite(neg, 0, z) EXCEPT !.neg = floor] = Finite(floor, 0, z)
        BY DEF Finite
      <4> QED
        BY <1>14, <3>3, <3>5, <4>1
    <3>7. IsSum(floor, n, q, A, B)
      BY <2>1, <2>3 DEF IsSum
    <3>8. Answer = Delivered(floor, n, q, set) /\ Losses = FlagsFor(floor, n, q, set)
      BY <1>3, <3>1, <3>7, AnswerIs
    <3> QED
      BY <2>3, <3>3, <3>6, <3>8
  <2>4. CASE ~(n = 0 /\ pc = "finishSum")
    <3>1. w = f
      <4>1. CASE pc = "finishSum"
        <5>1. n \in Nat \ {0}
          BY <1>6, <2>4, <4>1
        <5>2. IsZero(f.dn) => "Inexact" \in f.status
          BY <1>3, <1>6, <2>2, <5>1, ZeroIsInexact
        <5> QED
          BY <1>12, <5>2
      <4>2. CASE pc # "finishSum"
        BY <1>12, <4>2
      <4> QED
        BY <4>1, <4>2
    <3>2. n = 0 => neg = ZeroSign
      BY <1>1, <1>4, <2>4
    <3>3. Answer = Delivered(neg, n, q, set) /\ Losses = FlagsFor(neg, n, q, set)
      BY <1>3, <2>1, <3>2, AnswerIs
    <3> QED
      BY <2>2, <3>1, <3>3
  <2> QED
    BY <2>3, <2>4
<1>19. status' \subseteq LossFlags /\ (Supported => w.dn = Answer /\ status' = Losses)
  BY <1>10, <1>15, <1>18
<1> QED
  BY <1>1, <1>2, <1>5, <1>15, <1>17, <1>19, EndReached

LEMMA ReportStep ==
    ASSUME IInv, Report
    PROVE  IInv'
<1>1. /\ pc = "report" /\ pc' = "done"
      /\ mem' = [mem EXCEPT ![call.res] = AfterStatus(@, status)]
      /\ status' = status \ {"sNaN"} /\ ctxStatus' = ctxStatus \cup status'
      /\ UNCHANGED <<call, set, negate, diffsign, zexp, residue, given>>
  BY DEF Report
<1>2. Known /\ Taken /\ AtEnd /\ AtSpecial
  BY DEF IInv
<1>3. /\ Context(set) /\ res \in Numbers /\ call.res \in Slots
  BY <1>2, KnownFacts
<1>4. /\ mem \in [Slots -> Numbers] /\ zexp \in Int /\ residue \in -1..9
      /\ status \subseteq Flags /\ ctxStatus \subseteq Flags \ {"sNaN"}
  BY <1>2 DEF Known
<1>5. PICK nan : nan = Special("nan", FALSE) /\ nan \in Numbers /\ FitsIn(nan, set)
                 /\ nan.kind = "nan"
  <2>1. PICK nan : nan = Special("nan", FALSE)
    OBVIOUS
  <2>2. nan \in Numbers /\ nan.kind = "nan" /\ nan.coef = 0 /\ nan.exp = 0
    BY <2>1 DEF Special, Numbers, Kinds
  <2>3. Digits(0) = 1 /\ 1 <= set.digits
    BY <1>3, DigitsFacts, ContextRange
  <2>4. FitsIn(nan, set)
    BY <2>2, <2>3 DEF FitsIn, IsSpecial
  <2> QED
    BY <2>1, <2>2, <2>4
<1>6. PICK n : /\ n = AfterStatus(res, status)
               /\ n = IF status \cap NaNFlags # {} /\ "sNaN" \notin status THEN nan ELSE res
  BY <1>5, Zenon DEF AfterStatus
<1>7. mem' = [mem EXCEPT ![call.res] = n]
  BY <1>1, <1>6, Zenon DEF res
<1>8. n \in Numbers
  BY <1>3, <1>5, <1>6
<1>9. status' \subseteq Flags /\ ctxStatus' \subseteq Flags \ {"sNaN"}
  BY <1>1, <1>4, Zenon
<1>10. Writes(n)
  BY <1>1, <1>4, <1>7, <1>8, <1>9 DEF Writes
<1>11. /\ Known' /\ Taken' /\ AtAdd' /\ res' = n /\ A' = A /\ B' = B
       /\ FiniteOperands' = FiniteOperands /\ Supported' = Supported
       /\ Answer' = Answer /\ Losses' = Losses /\ InfinitiesCancel' = InfinitiesCancel
  BY <1>2, <1>10, WritesFacts
<1>12. AtPad' /\ AtFinish'
  BY <1>1 DEF AtPad, AtFinish
<1>13. AtEnd'
  <2>1. SUFFICES ASSUME FiniteOperands
                 PROVE  /\ FitsIn(n, set) /\ status' \subseteq LossFlags
                        /\ Supported => n = Answer /\ status' = Losses
    BY <1>1, <1>11 DEF AtEnd
  <2>2. /\ FitsIn(res, set) /\ status \subseteq LossFlags
        /\ Supported => res = Answer /\ status = Losses
    BY <1>1, <1>2, <2>1 DEF AtEnd
  <2>3. status \cap NaNFlags = {} /\ "sNaN" \notin status
    <3>1. LossFlags \cap NaNFlags = {} /\ "sNaN" \notin LossFlags
      BY DEF LossFlags, NaNFlags
    <3> QED
      BY <2>2, <3>1, Zenon
  <2>4. n = res
    BY <1>6, <2>3
  <2>5. status' = status
    BY <1>1, <2>3
  <2> QED
    BY <2>2, <2>4, <2>5
<1>14. AtSpecial'
  <2>1. SUFFICES ASSUME ~FiniteOperands
                 PROVE  /\ FitsIn(n, set)
                        /\ IsNaN(n) <=> IsNaN(A) \/ IsNaN(B) \/ InfinitiesCancel
                        /\ n.kind # "snan"
                        /\ "Invalid_operation" \in status'
                               <=> \/ "snan" \in {A.kind, B.kind}
                                   \/ ~IsNaN(A) /\ ~IsNaN(B) /\ InfinitiesCancel
    BY <1>1, <1>11 DEF AtSpecial
  <2>2. QuietDue \/ InvalidDue \/ InfinityDue
    BY <1>1, <1>2, <2>1 DEF AtSpecial
  <2>3. "Invalid_operation" \in status' <=> "Invalid_operation" \in status
    BY <1>1
  <2>4. "Invalid_operation" \in NaNFlags /\ "sNaN" \notin NaNFlags
    BY DEF NaNFlags
  <2>5. CASE QuietDue
    <3>1. /\ IsNaN(A) \/ IsNaN(B)
          /\ res.kind = "nan" /\ FitsIn(res, set)
          /\ status \subseteq {"Invalid_operation", "sNaN"}
          /\ "Invalid_operation" \in status <=> "snan" \in {A.kind, B.kind}
          /\ "Invalid_operation" \in status <=> "sNaN" \in status
      BY <2>5 DEF QuietDue
    <3>2. ~(status \cap NaNFlags # {} /\ "sNaN" \notin status)
      BY <3>1, <2>4
    <3>3. n = res
      BY <1>6, <3>2
    <3>4. IsNaN(n) /\ n.kind # "snan"
      BY <3>1, <3>3 DEF IsNaN
    <3>5. ~(~IsNaN(A) /\ ~IsNaN(B))
      BY <3>1
    <3> QED
      BY <2>3, <3>1, <3>3, <3>4, <3>5
  <2>6. CASE InvalidDue
    <3>1. /\ ~IsNaN(A) /\ ~IsNaN(B) /\ InfinitiesCancel
          /\ status = {"Invalid_operation"}
      BY <2>6 DEF InvalidDue
    <3>2. status \cap NaNFlags # {} /\ "sNaN" \notin status
      BY <2>4, <3>1
    <3>3. n = nan
      BY <1>6, <3>2
    <3>4. IsNaN(n) /\ n.kind # "snan"
      BY <1>5, <3>3 DEF IsNaN
    <3> QED
      BY <1>5, <2>3, <3>1, <3>3, <3>4
  <2>7. CASE InfinityDue
    <3>1. /\ ~IsNaN(A) /\ ~IsNaN(B) /\ ~InfinitiesCancel
          /\ res.kind = "inf" /\ FitsIn(res, set) /\ status = {}
      BY <2>7 DEF InfinityDue
    <3>2. n = res
      BY <1>6, <3>1
    <3>3. ~IsNaN(n) /\ n.kind # "snan"
      BY <3>1, <3>2 DEF IsNaN
    <3>4. "snan" \notin {A.kind, B.kind}
      BY <3>1 DEF IsNaN
    <3> QED
      BY <2>3, <3>1, <3>2, <3>3, <3>4
  <2> QED
    BY <2>2, <2>5, <2>6, <2>7
<1> QED
  BY <1>11, <1>12, <1>13, <1>14 DEF IInv

LEMMA StutterStep ==
    ASSUME IInv, UNCHANGED vars
    PROVE  IInv'
<1>1. /\ mem' = mem /\ call' = call /\ set' = set /\ pc' = pc /\ negate' = negate
      /\ diffsign' = diffsign /\ zexp' = zexp /\ residue' = residue /\ status' = status
      /\ ctxStatus' = ctxStatus /\ given' = given
  BY DEF vars
<1>2. /\ lhs' = lhs /\ rhs' = rhs /\ res' = res
  BY <1>1 DEF lhs, rhs, res
<1>3. /\ A' = A /\ B' = B /\ FiniteOperands' = FiniteOperands
      /\ Supported' = Supported /\ Short' = Short /\ ZeroSign' = ZeroSign
      /\ Answer' = Answer /\ Losses' = Losses
      /\ InfinitiesCancel' = InfinitiesCancel
  BY <1>1, SameOperands
<1>4. Known'
  BY <1>1 DEF IInv, Known
<1>5. Taken' /\ AtAdd'
  BY <1>1, <1>2, <1>3 DEF IInv, Taken, AtAdd
<1>6. AtPad'
  BY <1>1, <1>2, <1>3 DEF IInv, AtPad
<1>7. AtFinish'
  BY <1>1, <1>2, <1>3 DEF IInv, AtFinish
<1>8. AtEnd'
  BY <1>1, <1>2, <1>3 DEF IInv, AtEnd
<1>9. AtSpecial'
  BY <1>1, <1>2, <1>3 DEF IInv, AtSpecial, QuietDue, InvalidDue, InfinityDue
<1> QED
  BY <1>4, <1>5, <1>6, <1>7, <1>8, <1>9 DEF IInv

(***************************************************************************)
(* The theorems.                                                           *)
(***************************************************************************)
\* What is known of the operands, the result, the residue and the flags at each
\* place of decAddOp holds in every call, for every pair of numbers, every
\* context and every way the result shares a place with an operand.
THEOREM AddInvariant == Spec => []IInv
<1>1. Init => IInv
  BY InitHolds
<1>2. IInv /\ [Next]_vars => IInv'
  <2>1. SUFFICES ASSUME IInv, [Next]_vars PROVE IInv'
    OBVIOUS
  <2>2. CASE Enter
    BY <2>1, <2>2, EnterStep
  <2>3. CASE NaNOperand
    BY <2>1, <2>3, NaNOperandStep
  <2>4. CASE Infinities
    BY <2>1, <2>4, InfinitiesStep
  <2>5. CASE LhsZero
    BY <2>1, <2>5, LhsZeroStep
  <2>6. CASE RhsZero
    BY <2>1, <2>6, RhsZeroStep
  <2>7. CASE BothZero
    BY <2>1, <2>7, BothZeroStep
  <2>8. CASE PadToZero
    BY <2>1, <2>8, PadToZeroStep
  <2>9. CASE FastPath
    BY <2>1, <2>9, FastPathStep
  <2>10. CASE BigSuffices
    BY <2>1, <2>10, BigSufficesStep
  <2>11. CASE AddAligned
    BY <2>1, <2>11, AddAlignedStep
  <2>12. CASE Finish
    BY <2>1, <2>12, FinishStep
  <2>13. CASE Report
    BY <2>1, <2>13, ReportStep
  <2>14. CASE UNCHANGED vars
    BY <2>1, <2>14, StutterStep
  <2> QED
    BY <2>1, <2>2, <2>3, <2>4, <2>5, <2>6, <2>7, <2>8, <2>9, <2>10, <2>11, <2>12,
       <2>13, <2>14 DEF Next
<1> QED
  BY <1>1, <1>2, PTL DEF Spec

\* A finished sum is one the context can hold, whatever the operands, and every
\* variable keeps its type; also where the sum is not promised to be rounded
\* correctly (decAddOp, decFinalize).
THEOREM AddFits == Spec => []FitsContext
<1>1. IInv => FitsContext
  <2>1. SUFFICES ASSUME IInv PROVE FitsContext
    OBVIOUS
  <2>2. Known /\ AtEnd /\ AtSpecial
    BY <2>1 DEF IInv
  <2>3. TypeOK
    <3>1. mem \in [Slots -> Numbers]
      BY <2>2 DEF Known
    <3>2. ASSUME NEW s \in Slots
          PROVE  /\ mem[s].kind \in Kinds /\ mem[s].neg \in BOOLEAN
                 /\ mem[s].coef \in Nat /\ mem[s].exp \in Int
      <4>1. mem[s] \in Numbers
        BY <3>1
      <4> QED
        BY <4>1 DEF Numbers
    <3> QED
      BY <2>2, <3>2 DEF Known, TypeOK
  <2>4. ASSUME Done PROVE FitsIn(res, set)
    BY <2>2, <2>4 DEF Done, AtEnd, AtSpecial
  <2> QED
    BY <2>3, <2>4 DEF FitsContext, FitsIn, Highest, Done
<1> QED
  BY <1>1, AddInvariant, PTL

\* The sum of two finite numbers is the exact sum, rounded once in the context's
\* mode, on every path through decAddOp, for operands of up to two digits more
\* than a precision above 1; a sum that is exactly zero has the sign and the
\* exponent the arithmetic asks for (decNumber.c:4123).
THEOREM AddIsRounded == Spec => []CorrectlyRounded
<1>1. IInv => CorrectlyRounded
  BY DEF IInv, AtEnd, CorrectlyRounded, Done, Answer, ZeroSign
<1> QED
  BY <1>1, AddInvariant, PTL

\* The flags of a finished sum are those of the digits it lost, of being below
\* Nmin, too large or clamped, and no others; of special operands only a
\* signalling NaN or infinities that cancel are invalid, and the result is a
\* quiet NaN exactly if an operand is a NaN or the infinities cancel (decNaNs,
\* decStatus).
THEOREM AddFlagsTell == Spec => []FlagsTellLoss
<1>1. IInv => FlagsTellLoss
  <2>1. SUFFICES ASSUME IInv, Done PROVE FlagsTellLoss
    BY DEF FlagsTellLoss
  <2>2. AtEnd /\ AtSpecial /\ pc = "done"
    BY <2>1 DEF IInv, Done
  <2>3. CASE FiniteOperands
    BY <2>2, <2>3 DEF AtEnd, FlagsTellLoss, Losses
  <2>4. CASE ~FiniteOperands
    BY <2>2, <2>4 DEF AtSpecial, FlagsTellLoss
  <2> QED
    BY <2>3, <2>4
<1> QED
  BY <1>1, AddInvariant, PTL

=============================================================================
