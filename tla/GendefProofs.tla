----------------------------- MODULE GendefProofs -----------------------------
(***************************************************************************)
(* What gendef writes, for every list of input files, every image, every   *)
(* command line and every set of hint files; and what the scan of one hint *)
(* file finds, for every text and symbol.                                  *)
(***************************************************************************)
EXTENDS Gendef, HintScan, LeastNumber, FiniteSetTheorems

(***************************************************************************)
(* The numbers in a .def file: what fprintf writes after an @,             *)
(* get_uint32_by_str reads back.  Both are recursive functions, so each    *)
(* needs a proof that it exists before anything can be said of its values. *)
(***************************************************************************)
\* f holds the values of the first n digits of s
IsVal(f, s, n) ==
    f = [i \in 0..n |-> IF i = 0 THEN 0 ELSE (f[i - 1] * 10 + s[i]) % Word]

LEMMA ValAt ==
    ASSUME NEW s, NEW n \in Nat, NEW f, IsVal(f, s, n)
    PROVE  /\ f[0] = 0
           /\ \A i \in 1..n : f[i] = (f[i - 1] * 10 + s[i]) % Word
<1>1. \A i \in 0..n :
         f[i] = IF i = 0 THEN 0 ELSE (f[i - 1] * 10 + s[i]) % Word
  BY Zenon DEF IsVal
<1>2. \A i \in 1..n : i \in 0..n /\ i # 0
  OBVIOUS
<1> QED
  BY <1>1, <1>2

LEMMA ValExists ==
    ASSUME NEW s, NEW n \in Nat
    PROVE  \E f : IsVal(f, s, n)
<1> DEFINE Good == {m \in 0..n : \E f : IsVal(f, s, m)}
<1>1. 0 \in Good
  <2>1. IsVal([i \in 0..0 |-> 0], s, 0)
    BY DEF IsVal
  <2> QED
    BY <2>1
<1>2. ASSUME NEW i \in 1..n, i - 1 \in Good PROVE i \in Good
  <2>1. PICK f : IsVal(f, s, i - 1)
    BY <1>2
  <2> DEFINE g == [j \in 0..i |-> IF j = i THEN (f[i - 1] * 10 + s[i]) % Word
                                  ELSE f[j]]
  <2>2. ASSUME NEW j \in 0..i
        PROVE  g[j] = IF j = 0 THEN 0 ELSE (g[j - 1] * 10 + s[j]) % Word
    <3>1. CASE j = i
      BY <3>1
    <3>2. CASE j # i
      <4>1. j \in 0..(i - 1) /\ g[j] = f[j]
        BY <3>2
      <4>2. f[j] = IF j = 0 THEN 0 ELSE (f[j - 1] * 10 + s[j]) % Word
        BY <2>1, <4>1 DEF IsVal
      <4>3. j # 0 => g[j - 1] = f[j - 1]
        BY <4>1
      <4> QED
        BY <4>1, <4>2, <4>3
    <3> QED
      BY <3>1, <3>2
  <2>3. IsVal(g, s, i)
    BY <2>2 DEF IsVal
  <2> QED
    BY <2>3
<1> HIDE DEF Good
<1>3. n \in Good
  BY <1>1, <1>2, Climb
<1> QED
  BY <1>3 DEF Good

LEMMA ValIsNat ==
    ASSUME NEW s \in Seq(Nat), NEW f, IsVal(f, s, Len(s))
    PROVE  \A i \in 0..Len(s) : f[i] \in 0..(Word - 1)
<1> DEFINE Good == {i \in 0..Len(s) : f[i] \in 0..(Word - 1)}
<1>1. 0 \in Good
  BY ValAt, WordAssumption
<1>2. ASSUME NEW i \in 1..Len(s), i - 1 \in Good PROVE i \in Good
  <2>1. f[i] = (f[i - 1] * 10 + s[i]) % Word
    BY ValAt
  <2>2. f[i - 1] * 10 + s[i] \in Int
    BY <1>2, WordAssumption
  <2> QED
    BY <2>1, <2>2, WordAssumption
<1>3. Len(s) \in Nat
  OBVIOUS
<1> HIDE DEF Good
<1>4. \A i \in 0..Len(s) : i \in Good
  BY <1>1, <1>2, <1>3, Climb
<1> QED
  BY <1>4 DEF Good

\* The values do not depend on the digits that follow.
LEMMA ValUnique ==
    ASSUME NEW s \in Seq(Nat), NEW d \in Nat, NEW f, NEW g,
           IsVal(f, s, Len(s)), IsVal(g, Append(s, d), Len(s) + 1)
    PROVE  f[Len(s)] = g[Len(s)]
<1> DEFINE Good == {i \in 0..Len(s) : f[i] = g[i]}
<1>1. Len(s) \in Nat /\ \A i \in 1..Len(s) : Append(s, d)[i] = s[i]
  OBVIOUS
<1>2. f[0] = 0 /\ \A i \in 1..Len(s) : f[i] = (f[i - 1] * 10 + s[i]) % Word
  BY <1>1, ValAt
<1>3. /\ g[0] = 0
      /\ \A i \in 1..(Len(s) + 1) :
            g[i] = (g[i - 1] * 10 + Append(s, d)[i]) % Word
  <2>1. Len(s) + 1 \in Nat
    BY <1>1
  <2> QED
    BY <2>1, ValAt, Zenon
<1>4. 0 \in Good
  BY <1>1, <1>2, <1>3
<1>5. ASSUME NEW i \in 1..Len(s), i - 1 \in Good PROVE i \in Good
  <2>1. i \in 1..(Len(s) + 1) /\ i \in 0..Len(s) /\ f[i - 1] = g[i - 1]
    BY <1>1, <1>5
  <2>2. f[i] = (f[i - 1] * 10 + s[i]) % Word
    BY <1>2
  <2>3. g[i] = (g[i - 1] * 10 + s[i]) % Word
    BY <1>1, <1>3, <2>1, Zenon
  <2> QED
    BY <2>1, <2>2, <2>3
<1> HIDE DEF Good
<1>6. \A i \in 0..Len(s) : i \in Good
  BY <1>1, <1>4, <1>5, Climb
<1> QED
  BY <1>1, <1>6 DEF Good

LEMMA ReadIsVal ==
    ASSUME NEW s \in Seq(Nat)
    PROVE  \E f : IsVal(f, s, Len(s)) /\ GetUint32(s) = f[Len(s)]
<1> DEFINE f == CHOOSE f : IsVal(f, s, Len(s))
<1>1. IsVal(f, s, Len(s))
  <2>1. Len(s) \in Nat
    OBVIOUS
  <2>2. \E e : IsVal(e, s, Len(s))
    BY <2>1, ValExists
  <2> QED
    BY <2>2
<1>2. GetUint32(s) = f[Len(s)]
  BY DEF GetUint32, IsVal
<1> QED
  BY <1>1, <1>2

LEMMA ReadIsUint32 ==
    ASSUME NEW s \in Seq(Nat)
    PROVE  GetUint32(s) \in 0..(Word - 1)
<1>1. PICK f : IsVal(f, s, Len(s)) /\ GetUint32(s) = f[Len(s)]
  BY ReadIsVal
<1> QED
  BY <1>1, ValIsNat

\* One more digit.
LEMMA ReadAppend ==
    ASSUME NEW s \in Seq(Nat), NEW d \in Nat
    PROVE  GetUint32(Append(s, d)) = (GetUint32(s) * 10 + d) % Word
<1>1. Append(s, d) \in Seq(Nat) /\ Len(Append(s, d)) = Len(s) + 1 /\ Len(s) \in Nat
  OBVIOUS
<1>2. PICK f : IsVal(f, s, Len(s)) /\ GetUint32(s) = f[Len(s)]
  BY ReadIsVal
<1>3. PICK g : IsVal(g, Append(s, d), Len(s) + 1)
               /\ GetUint32(Append(s, d)) = g[Len(s) + 1]
  BY <1>1, ReadIsVal
<1>4. g[Len(s) + 1] = (g[Len(s)] * 10 + d) % Word
  <2>1. Len(s) + 1 \in Nat /\ Len(s) + 1 \in 1..(Len(s) + 1)
        /\ (Len(s) + 1) - 1 = Len(s) /\ Append(s, d)[Len(s) + 1] = d
    BY <1>1
  <2>2. \A i \in 1..(Len(s) + 1) :
            g[i] = (g[i - 1] * 10 + Append(s, d)[i]) % Word
    BY <1>3, <2>1, ValAt, Zenon
  <2>3. g[Len(s) + 1] = (g[(Len(s) + 1) - 1] * 10 + Append(s, d)[Len(s) + 1]) % Word
    BY <2>1, <2>2, Zenon
  <2> QED
    BY <2>1, <2>3, Zenon
<1> QED
  BY <1>2, <1>3, <1>4, ValUnique

LEMMA ReadEmpty == GetUint32(<< >>) = 0
<1>1. << >> \in Seq(Nat) /\ Len(<< >>) = 0
  OBVIOUS
<1>2. PICK f : IsVal(f, << >>, 0) /\ GetUint32(<< >>) = f[0]
  BY <1>1, ReadIsVal
<1> QED
  BY <1>2, ValAt
-----------------------------------------------------------------------------
\* p holds the digits of the numbers up to n
IsPrinted(p, n) ==
    p = [k \in 0..n |-> IF k < 10 THEN <<k>> ELSE Append(p[k \div 10], k % 10)]

LEMMA LastDigit ==
    ASSUME NEW k \in Nat
    PROVE  /\ k \div 10 \in Nat /\ k % 10 \in 0..9
           /\ k = 10 * (k \div 10) + (k % 10)
           /\ k >= 10 => k \div 10 < k
  OBVIOUS

LEMMA PrintedAt ==
    ASSUME NEW n \in Nat, NEW p, IsPrinted(p, n)
    PROVE  \A k \in 0..n :
               p[k] = IF k < 10 THEN <<k>> ELSE Append(p[k \div 10], k % 10)
  BY Zenon DEF IsPrinted

LEMMA PrintedExists ==
    ASSUME NEW n \in Nat
    PROVE  \E p : IsPrinted(p, n)
<1> DEFINE Good == {m \in 0..n : \E p : IsPrinted(p, m)}
<1>1. 0 \in Good
  <2>1. IsPrinted([k \in 0..0 |-> <<k>>], 0)
    BY DEF IsPrinted
  <2> QED
    BY <2>1
<1>2. ASSUME NEW i \in 1..n, i - 1 \in Good PROVE i \in Good
  <2>1. PICK p : IsPrinted(p, i - 1)
    BY <1>2
  <2> DEFINE last == IF i < 10 THEN <<i>> ELSE Append(p[i \div 10], i % 10)
  <2> DEFINE q == [k \in 0..i |-> IF k = i THEN last ELSE p[k]]
  <2>2. ASSUME NEW k \in 0..i
        PROVE  q[k] = IF k < 10 THEN <<k>> ELSE Append(q[k \div 10], k % 10)
    <3>1. k >= 10 => k \div 10 \in 0..(i - 1)
      BY LastDigit
    <3>2. k >= 10 => q[k \div 10] = p[k \div 10]
      BY <3>1
    <3>3. CASE k = i
      <4>1. q[k] = last
        BY <3>3
      <4> HIDE DEF q
      <4> QED
        BY <4>1, <3>2, <3>3
    <3>4. CASE k # i
      <4>1. k \in 0..(i - 1) /\ q[k] = p[k] /\ i - 1 \in Nat
        BY <3>4
      <4>2. p[k] = IF k < 10 THEN <<k>> ELSE Append(p[k \div 10], k % 10)
        BY <2>1, <4>1, PrintedAt
      <4> HIDE DEF q
      <4> QED
        BY <4>1, <4>2, <3>2
    <3> QED
      BY <3>3, <3>4
  <2>3. IsPrinted(q, i)
    <3>1. q = [k \in 0..i |-> q[k]]
      OBVIOUS
    <3> HIDE DEF q
    <3> QED
      BY <2>2, <3>1, Zenon DEF IsPrinted
  <2> QED
    BY <2>3
<1> HIDE DEF Good
<1>3. n \in Good
  BY <1>1, <1>2, Climb
<1> QED
  BY <1>3 DEF Good

\* The digits of a number do not depend on the bound.
LEMMA PrintedUnique ==
    ASSUME NEW m \in Nat, NEW n \in Nat, m <= n, NEW p, NEW q,
           IsPrinted(p, m), IsPrinted(q, n)
    PROVE  \A k \in 0..m : p[k] = q[k]
<1> DEFINE Good == {k \in 0..m : p[k] = q[k]}
<1>1. ASSUME NEW k \in 0..m, \A j \in 0..m : j < k => j \in Good
      PROVE  k \in Good
  <2>1. k \in 0..n /\ (k >= 10 => k \div 10 \in 0..m /\ k \div 10 < k)
    BY LastDigit
  <2>2. p[k] = IF k < 10 THEN <<k>> ELSE Append(p[k \div 10], k % 10)
    BY PrintedAt
  <2>3. q[k] = IF k < 10 THEN <<k>> ELSE Append(q[k \div 10], k % 10)
    BY <2>1, PrintedAt
  <2>4. k >= 10 => p[k \div 10] = q[k \div 10]
    BY <1>1, <2>1
  <2> QED
    BY <2>2, <2>3, <2>4
<1> HIDE DEF Good
<1>2. \A k \in 0..m : k \in Good
  BY <1>1, ClimbFromBelow
<1> QED
  BY <1>2 DEF Good

LEMMA PrintIsPrinted ==
    ASSUME NEW n \in Nat
    PROVE  \E p : IsPrinted(p, n) /\ PrintUint32(n) = p[n]
<1> DEFINE p == CHOOSE p : IsPrinted(p, n)
<1>1. IsPrinted(p, n)
  BY PrintedExists
<1>2. PrintUint32(n) = p[n]
  BY DEF PrintUint32, IsPrinted
<1> QED
  BY <1>1, <1>2

LEMMA PrintStep ==
    ASSUME NEW n \in Nat
    PROVE  PrintUint32(n) = IF n < 10 THEN <<n>>
                            ELSE Append(PrintUint32(n \div 10), n % 10)
<1>1. PICK p : IsPrinted(p, n) /\ PrintUint32(n) = p[n]
  BY PrintIsPrinted
<1>2. PICK q : IsPrinted(q, n \div 10) /\ PrintUint32(n \div 10) = q[n \div 10]
  BY LastDigit, PrintIsPrinted
<1>3. n >= 10 => q[n \div 10] = p[n \div 10]
  BY <1>1, <1>2, LastDigit, PrintedUnique
<1>4. p[n] = IF n < 10 THEN <<n>> ELSE Append(p[n \div 10], n % 10)
  BY <1>1, PrintedAt
<1> QED
  BY <1>1, <1>2, <1>3, <1>4

\* What is printed are decimal digits (fprintf in dump_def).
LEMMA PrintType ==
    ASSUME NEW n \in Nat
    PROVE  PrintUint32(n) \in Seq(0..9)
<1> DEFINE Good == {k \in 0..n : PrintUint32(k) \in Seq(0..9)}
<1>1. ASSUME NEW k \in 0..n, \A j \in 0..n : j < k => j \in Good
      PROVE  k \in Good
  <2>1. PrintUint32(k) = IF k < 10 THEN <<k>>
                         ELSE Append(PrintUint32(k \div 10), k % 10)
    BY PrintStep
  <2>2. k >= 10 => PrintUint32(k \div 10) \in Seq(0..9)
    BY <1>1, LastDigit
  <2>3. k % 10 \in 0..9 /\ (k < 10 => k \in 0..9)
    BY LastDigit
  <2>4. PrintUint32(k) \in Seq(0..9)
    <3>1. k < 10 => <<k>> \in Seq(0..9)
      BY <2>3
    <3>2. k >= 10 => Append(PrintUint32(k \div 10), k % 10) \in Seq(0..9)
      BY <2>2, <2>3
    <3>3. k < 10 \/ (k >= 10 /\ ~(k < 10))
      OBVIOUS
    <3> QED
      BY <2>1, <3>1, <3>2, <3>3, Zenon
  <2> QED
    BY <2>4
<1> HIDE DEF Good
<1>2. \A k \in 0..n : k \in Good
  BY <1>1, ClimbFromBelow
<1> QED
  BY <1>2 DEF Good

\* A byte count that dump_def prints is read back as that count by
\* gendef_getsymbol_info, for every width of the number.
THEOREM NumberReadsBack ==
    ASSUME NEW n \in 0..(Word - 1)
    PROVE  GetUint32(PrintUint32(n)) = n
<1> DEFINE Good == {k \in 0..n : GetUint32(PrintUint32(k)) = k}
<1>0. n \in Nat
  BY WordAssumption
<1>1. ASSUME NEW k \in 0..n, \A j \in 0..n : j < k => j \in Good
      PROVE  k \in Good
  <2>1. CASE k < 10
    <3>1. PrintUint32(k) = Append(<< >>, k) /\ << >> \in Seq(Nat) /\ k \in Nat
      BY <2>1, PrintStep
    <3>2. GetUint32(PrintUint32(k)) = (GetUint32(<< >>) * 10 + k) % Word
      BY <3>1, ReadAppend, Zenon
    <3>3. k % Word = k /\ 0 * 10 + k = k
      BY <2>1, WordAssumption
    <3> QED
      BY <3>2, <3>3, ReadEmpty
  <2>2. CASE k >= 10
    <3> DEFINE q == k \div 10
    <3>1. q \in 0..n /\ q < k /\ k % 10 \in Nat /\ k = 10 * q + (k % 10)
      BY <2>2, LastDigit
    <3>2. PrintUint32(k) = Append(PrintUint32(q), k % 10)
      BY <2>2, PrintStep
    <3>3. GetUint32(PrintUint32(q)) = q
      BY <1>1, <3>1
    <3>4. PrintUint32(q) \in Seq(Nat)
      <4>1. q \in Nat
        BY <3>1
      <4>2. PrintUint32(q) \in Seq(0..9)
        BY <4>1, PrintType
      <4> QED
        BY <4>2
    <3> HIDE DEF q
    <3>5. GetUint32(PrintUint32(k)) = (q * 10 + (k % 10)) % Word
      <4>1. GetUint32(PrintUint32(k))
               = (GetUint32(PrintUint32(q)) * 10 + (k % 10)) % Word
        BY <3>1, <3>2, <3>4, ReadAppend, Zenon
      <4> QED
        BY <3>3, <4>1, Zenon
    <3>6. q * 10 + (k % 10) = k
      BY <3>1
    <3>7. k % Word = k
      BY WordAssumption
    <3> QED
      BY <3>5, <3>6, <3>7
  <2> QED
    BY <2>1, <2>2
<1> HIDE DEF Good
<1>2. \A k \in 0..n : k \in Good
  BY <1>0, <1>1, ClimbFromBelow
<1> QED
  BY <1>0, <1>2 DEF Good

(***************************************************************************)
(* The inductive invariant.                                                *)
(***************************************************************************)
Working == {"load", "read", "dump", "lines", "clean"}

\* While options are parsed nothing else has happened, and the next word is no
\* directory.
Parsing ==
    phase = "args" =>
        /\ opt = 1 /\ dumps = <<>> /\ gExp = <<>> /\ tailNull
        /\ fndllname = Null /\ theImpDef = [n \in Names |-> Null]
        /\ argi <= Len(argv) => argv[argi] \notin Dirs

\* A file is being worked on, and its bytes are loaded once it is known to be
\* a DLL.
InFile ==
    /\ phase \in Working => opt <= Len(chain)
    /\ phase = "load" => fndllname = Null
    /\ phase \in {"read", "dump", "lines"} =>
           gDta = cur /\ image[cur].kind \in {"pe", "pep"}
    /\ phase = "read" => fndllname = Null

Exports(f) == image[f].exports

\* The export list is empty between two files; it holds the exports of the
\* current file otherwise.
Empty == gExp = <<>> /\ tailNull
ListIsOwn ==
    /\ phase \in {"args", "load", "read", "clean"} => Empty
    /\ phase = "dump" =>
           IF HasExports(cur)
           THEN /\ fndllname = cur
                /\ gExp = [k \in 1..Len(Exports(cur)) |-> Listed(cur, Exports(cur)[k])]
           ELSE Empty

\* Line r is the one for the k-th export of file f.
LineFact(f, k, r) ==
    /\ r.owner = f /\ r.sym = Exports(f)[k].sym
    /\ r.kind = "imm" => r.retpop = Exports(f)[k].found.pop /\ ~r.data

\* Each line printed so far is the one of the export at its place, and the
\* exports still to print are in the list.
LinesAreOwn ==
    phase = "lines" =>
        /\ HasExports(cur)
        /\ Len(written) + Len(gExp) = Len(Exports(cur))
        /\ \A k \in 1..Len(written) : LineFact(cur, k, written[k])
        /\ \A k \in 1..Len(gExp) :
               gExp[k] = Listed(cur, Exports(cur)[Len(written) + k])

\* Whether the file at pos has been dealt with.
Done(pos) == pos < opt \/ (pos = opt /\ phase \in {"clean", "end", "crash"})

DumpFact(d) ==
    /\ d.pos \in 1..Len(chain)
    /\ Len(d.lines) = Len(Exports(chain[d.pos]))
    /\ \A k \in 1..Len(d.lines) : LineFact(chain[d.pos], k, d.lines[k])

DumpsAreOwn == \A i \in 1..Len(dumps) : DumpFact(dumps[i])

Once ==
    \A pos \in 1..Len(chain) :
        IF Done(pos)
        THEN Cardinality(DumpsOf(pos)) = (IF HasExports(chain[pos]) THEN 1 ELSE 0)
        ELSE DumpsOf(pos) = {}

\* The names whose file on the disk this run may have changed.
Touched == {Base[chain[dumps[i].pos]] : i \in 1..Len(dumps)}
           \union IF phase = "lines" THEN {Base[cur]} ELSE {}

Fresh == \A n \in Names \ Touched : theImpDef[n] # Null => theImpDef[n] \in FopenDef(n)

Own    == ListIsOwn /\ LinesAreOwn /\ DumpsAreOwn /\ Once /\ Fresh
OwnInv == ~failed => Own

IInv == TypeOK /\ Parsing /\ InFile /\ OwnInv

(***************************************************************************)
(* Types of the operators the actions are built from.                      *)
(***************************************************************************)
LEMMA CurFile ==
    ASSUME TypeOK, opt <= Len(chain)
    PROVE  /\ opt \in 1..Len(chain) /\ cur \in Files
           /\ image[cur] \in Image /\ Exports(cur) \in Seq(Export)
<1>1. opt \in 1..Len(chain) /\ chain \in Seq(Files)
  BY DEF TypeOK
<1>2. cur \in Files
  BY <1>1 DEF cur
<1>3. image[cur] \in Image
  BY <1>2, ImagesAssumption DEF TypeOK
<1> QED
  BY <1>1, <1>2, <1>3 DEF Image, Exports

LEMMA WordIsBig == Word \in Nat /\ NoPop \in 0..(Word - 1) /\ 0 \in 0..(Word - 1)
                   /\ 0 # NoPop /\ Pops \subseteq 0..(Word - 1) /\ NoPop \notin Pops
  BY WordAssumption, PopsAssumption DEF NoPop

Answers == [found : BOOLEAN, isData : BOOLEAN, at : 0..(Word - 1)]

LEMMA FirstCandidate ==
    ASSUME NEW S, S \subseteq Nat, S # {}
    PROVE  LET i == CHOOSE i \in S : \A j \in S : i <= j
           IN  i \in S /\ \A j \in S : i <= j
<1>1. \E i \in S : \A j \in S : i <= j
  BY Least
<1> QED
  BY <1>1

LEMMA PlaceType ==
    ASSUME NEW x \in Text, NEW i \in 1..Len(x.lines), NEW sym \in Syms
    PROVE  LET b == Behind(x, i, sym)
           IN  b.line \in Nat \ {0} /\ b.piece \in Nat \ {0}
<1>1. i \in Nat \ {0} /\ Len(sym) \in Nat
  <2>1. x.lines \in Seq(Line) /\ sym \in Seq(Piece)
    BY SymsAssumption DEF Text
  <2> QED
    BY <2>1
<1> QED
  BY <1>1 DEF Behind

LEMMA DigitsType ==
    ASSUME NEW x \in Text, NEW i \in Nat \ {0}, NEW p \in Nat \ {0}
    PROVE  DigitsAt(x, i, p) \in Seq(0..9)
<1>1. x.lines \in Seq(Line) /\ Len(x.lines) \in Nat
  BY DEF Text
<1>2. CASE i > Len(x.lines)
  <2>1. << >> \in Seq(0..9)
    OBVIOUS
  <2> QED
    BY <1>2, <2>1 DEF DigitsAt
<1>3. CASE i <= Len(x.lines)
  <2>1. x.lines[i] \in Line
    BY <1>1, <1>3
  <2> DEFINE l == x.lines[i]
  <2>2. l.name \in Seq(Piece) /\ l.digits \in Seq(0..9)
    BY <2>1 DEF Line
  <2>3. DigitsAt(x, i, p) = IF p <= Len(l.name) THEN l.name[p].digits ELSE l.digits
    BY <1>1, <1>3 DEF DigitsAt
  <2> HIDE DEF l
  <2>4. p <= Len(l.name) => l.name[p] \in Piece
    BY <2>2
  <2>5. p <= Len(l.name) => l.name[p].digits \in Seq(0..9)
    BY <2>4 DEF Piece
  <2> QED
    BY <2>2, <2>3, <2>5
<1> QED
  BY <1>1, <1>2, <1>3

LEMMA DataType ==
    ASSUME NEW x \in Text, NEW i \in Nat \ {0}, NEW p
    PROVE  DataFrom(x, i, p) \in BOOLEAN
<1>1. x.lines \in Seq(Line) /\ Len(x.lines) \in Nat
  BY DEF Text
<1>2. i <= Len(x.lines) => x.lines[i] \in Line
  BY <1>1
<1>3. i <= Len(x.lines) => x.lines[i].data \in BOOLEAN
  BY <1>2 DEF Line
<1> QED
  BY <1>3, Zenon DEF DataFrom

LEMMA DigitsAreNats == Seq(0..9) \subseteq Seq(Nat)
<1> SUFFICES ASSUME NEW s \in Seq(0..9) PROVE s \in Seq(Nat)
  OBVIOUS
<1>1. \A i \in 1..Len(s) : s[i] \in Nat
  OBVIOUS
<1> QED
  BY <1>1

LEMMA ReadAtType ==
    ASSUME NEW x \in Text, NEW i \in 1..Len(x.lines), NEW sym \in Syms
    PROVE  ReadAt(x, i, sym) \in 0..(Word - 1) /\ ReadData(x, i, sym) \in BOOLEAN
<1> DEFINE b == Behind(x, i, sym)
<1>1. b.line \in Nat \ {0} /\ b.piece \in Nat \ {0}
  BY PlaceType
<1>2. ReadAt(x, i, sym) = GetUint32(DigitsAt(x, b.line, b.piece))
  BY DEF ReadAt
<1>3. ReadData(x, i, sym) = DataFrom(x, b.line, b.piece)
  BY DEF ReadData
<1> HIDE DEF b
<1>4. DigitsAt(x, b.line, b.piece) \in Seq(Nat)
  BY <1>1, DigitsType, DigitsAreNats
<1>5. GetUint32(DigitsAt(x, b.line, b.piece)) \in 0..(Word - 1)
  BY <1>4, ReadIsUint32
<1> QED
  BY <1>1, <1>2, <1>3, <1>5, DataType

LEMMA InfoType ==
    ASSUME NEW x \in Text, NEW sym \in Syms
    PROVE  GetSymbolInfo(x, sym) \in Answers
<1>1. CASE Candidates(x, sym) = {}
  BY <1>1, WordIsBig DEF GetSymbolInfo, NotFound, Answers
<1>2. CASE Candidates(x, sym) # {}
  <2> DEFINE i == CHOOSE i \in Candidates(x, sym) :
                      \A j \in Candidates(x, sym) : i <= j
  <2>1. x.lines \in Seq(Line) /\ Len(x.lines) \in Nat
    BY DEF Text
  <2>2. Candidates(x, sym) \subseteq Nat
    BY <2>1 DEF Candidates
  <2>3. i \in Candidates(x, sym)
    BY <1>2, <2>2, FirstCandidate
  <2>4. GetSymbolInfo(x, sym) = [found |-> TRUE, isData |-> ReadData(x, i, sym),
                                 at |-> ReadAt(x, i, sym)]
    BY <1>2 DEF GetSymbolInfo
  <2> HIDE DEF i
  <2>5. i \in 1..Len(x.lines)
    BY <2>1, <2>3 DEF Candidates
  <2> QED
    BY <2>4, <2>5, ReadAtType DEF Answers
<1> QED
  BY <1>1, <1>2

LEMMA PrintedType ==
    ASSUME NEW n \in Nat
    PROVE  Printed(n) \in Piece
  BY PrintType DEF Printed, Piece

LEMMA LineOfType ==
    ASSUME NEW r \in Rec
    PROVE  LineOf(r) \in Line
<1>1. r.sym \in Syms /\ r.data \in BOOLEAN /\ r.retpop \in Nat
  BY WordIsBig DEF Rec
<1>2. r.sym \in Seq(Piece) /\ Printed(r.retpop) \in Piece
  BY <1>1, SymsAssumption, PrintedType
<1>3. LineOf(r).name \in Seq(Piece)
  <2>1. Append(r.sym, Printed(r.retpop)) \in Seq(Piece)
    BY <1>2
  <2> QED
    BY <1>2, <2>1 DEF LineOf
<1>4. LineOf(r).term \in {"ws", "lf"}
  BY DEF LineOf
<1>5. LineOf(r).digits \in Seq(0..9)
  <2>1. << >> \in Seq(0..9)
    OBVIOUS
  <2> QED
    BY <2>1 DEF LineOf
<1>6. LineOf(r).data \in BOOLEAN
  <2>1. LineOf(r).data = (r.data \/ SaysData(r))
    BY DEF LineOf
  <2>2. SaysData(r) \in BOOLEAN
    BY DEF SaysData
  <2> QED
    BY <1>1, <2>1, <2>2
<1> QED
  BY <1>3, <1>4, <1>5, <1>6 DEF LineOf, Line

LEMMA TextOfType ==
    ASSUME NEW recs \in Seq(Rec)
    PROVE  /\ TextOf(recs) \in Text
           /\ TextOf(recs).nl
           /\ Len(TextOf(recs).lines) = Len(recs) + 1
           /\ \A i \in 1..Len(recs) : TextOf(recs).lines[i + 1] = LineOf(recs[i])
<1> DEFINE rest == [i \in 1..Len(recs) |-> LineOf(recs[i])]
<1>1. \A i \in 1..Len(recs) : LineOf(recs[i]) \in Line
  BY LineOfType
<1>2. rest \in Seq(Line) /\ Len(rest) = Len(recs) /\ Len(recs) \in Nat
  BY <1>1
<1>3. Header \in Line
  <2>1. << >> \in Seq(0..9) /\ << >> \in Seq(Piece)
    OBVIOUS
  <2> QED
    BY <2>1 DEF Header, Line
<1>4. TextOf(recs) = [lines |-> <<Header>> \o rest, nl |-> TRUE]
  BY DEF TextOf
<1>5. \A i \in 1..Len(recs) : rest[i] = LineOf(recs[i])
  OBVIOUS
<1> HIDE DEF rest
<1>6. <<Header>> \o rest \in Seq(Line) /\ Len(<<Header>> \o rest) = Len(recs) + 1
  BY <1>2, <1>3
<1>7. \A i \in 1..Len(recs) : (<<Header>> \o rest)[i + 1] = rest[i]
  BY <1>2, <1>3
<1> QED
  BY <1>4, <1>5, <1>6, <1>7 DEF Text

Name == Dirs \union {Cwd}

LEMMA BegunType ==
    ASSUME NEW name \in Seq(Piece)
    PROVE  Begun(name) \in Line
<1>1. << >> \in Seq(0..9)
  OBVIOUS
<1> QED
  BY <1>1 DEF Begun, Line

LEMMA CutPieceType ==
    ASSUME NEW q \in Piece
    PROVE  CutPiece(q) \subseteq Piece
<1>1. q.digits \in Seq(0..9)
  BY DEF Piece
<1>2. \A k \in 0..Len(q.digits) : SubSeq(q.digits, 1, k) \in Seq(0..9)
  BY <1>1
<1> QED
  BY <1>2 DEF CutPiece, Piece

LEMMA CutNameType ==
    ASSUME NEW name \in Seq(Piece)
    PROVE  CutName(name) \subseteq Seq(Piece)
<1> SUFFICES ASSUME NEW cut \in CutName(name) PROVE cut \in Seq(Piece)
  OBVIOUS
<1>0. PICK j \in 1..Len(name) : \E q \in CutPiece(name[j]) :
                                    cut = Append(SubSeq(name, 1, j - 1), q)
  BY Zenon DEF CutName
<1> PICK q \in CutPiece(name[j]) : cut = Append(SubSeq(name, 1, j - 1), q)
  BY <1>0
<1>1. q \in Piece
  BY CutPieceType
<1>2. SubSeq(name, 1, j - 1) \in Seq(Piece)
  OBVIOUS
<1> QED
  BY <1>1, <1>2

LEMMA CutLineType ==
    ASSUME NEW l \in Line
    PROVE  CutLine(l) \subseteq Line
<1>1. l.name \in Seq(Piece) /\ l.data \in BOOLEAN
  BY DEF Line
<1>2. \A name \in CutName(l.name) : Begun(name) \in Line
  BY <1>1, CutNameType, BegunType
<1>3. \A b \in {FALSE, l.data} : [l EXCEPT !.data = b] \in Line
  BY <1>1 DEF Line
<1> QED
  BY <1>2, <1>3, Zenon DEF CutLine

\* What is printed up to the name of the next export.
LEMMA OutputType ==
    ASSUME TypeOK
    PROVE  Output \in Seq(Line) /\ Len(Output) \in Nat
           /\ Len(written) + 1 <= Len(Output)
<1> DEFINE whole == TextOf(written).lines
<1> DEFINE next == IF gExp = << >> THEN << >> ELSE << Begun(Head(gExp).sym) >>
<1>1. whole \in Seq(Line) /\ Len(whole) = Len(written) + 1 /\ Len(written) \in Nat
  BY TextOfType DEF TypeOK, Text
<1>2. next \in Seq(Line)
  <2>1. CASE gExp = << >>
    BY <2>1
  <2>2. CASE gExp # << >>
    <3>1. Head(gExp) \in InList
      BY <2>2 DEF TypeOK
    <3>2. Head(gExp).sym \in Seq(Piece)
      BY <3>1, SymsAssumption DEF InList
    <3>3. Begun(Head(gExp).sym) \in Line
      BY <3>2, BegunType
    <3> QED
      BY <2>2, <3>3
  <2> QED
    BY <2>1, <2>2
<1>3. Output = whole \o next
  BY DEF Output
<1> HIDE DEF whole, next
<1> QED
  BY <1>1, <1>2, <1>3

LEMMA HalfWrittenType ==
    ASSUME TypeOK
    PROVE  HalfWritten \subseteq Text
<1> DEFINE out == Output
<1>1. out \in Seq(Line) /\ Len(out) \in Nat /\ Len(written) + 1 <= Len(out)
      /\ Len(written) \in Nat
  BY OutputType DEF TypeOK
<1>2. ASSUME NEW y \in HalfWritten
      PROVE  \/ y = EmptyText
             \/ \E k \in 1..(Len(written) + 1) : y = [lines |-> SubSeq(out, 1, k), nl |-> TRUE]
             \/ \E k \in 2..Len(out) : \E l \in CutLine(out[k]) :
                    y = [lines |-> Append(SubSeq(out, 1, k - 1), l), nl |-> FALSE]
  BY Zenon DEF HalfWritten
<1> HIDE DEF out
<1>3. EmptyText \in Text
  <2>1. << >> \in Seq(Line)
    OBVIOUS
  <2> QED
    BY <2>1 DEF EmptyText, Text
<1>4. ASSUME NEW k \in 1..(Len(written) + 1)
      PROVE  [lines |-> SubSeq(out, 1, k), nl |-> TRUE] \in Text
  <2>1. SubSeq(out, 1, k) \in Seq(Line)
    BY <1>1
  <2> QED
    BY <2>1 DEF Text
<1>5. ASSUME NEW k \in 2..Len(out), NEW l \in CutLine(out[k])
      PROVE  [lines |-> Append(SubSeq(out, 1, k - 1), l), nl |-> FALSE] \in Text
  <2>1. out[k] \in Line
    BY <1>1
  <2>2. l \in Line
    BY <2>1, CutLineType
  <2>3. SubSeq(out, 1, k - 1) \in Seq(Line)
    BY <1>1
  <2>4. Append(SubSeq(out, 1, k - 1), l) \in Seq(Line)
    BY <2>2, <2>3
  <2> QED
    BY <2>4 DEF Text
<1> QED
  BY <1>2, <1>3, <1>4, <1>5, Zenon

LEMMA VisibleType ==
    ASSUME TypeOK, NEW d \in Name, NEW n \in Names
    PROVE  Visible(d, n) \subseteq Text \union {Null}
<1>1. CASE Writing(d, n)
  BY <1>1, HalfWrittenType DEF Visible
<1>2. CASE ~Writing(d, n)
  BY <1>2 DEF Visible, TypeOK, Name
<1> QED
  BY <1>1, <1>2

LEMMA SearchPathType ==
    ASSUME TypeOK
    PROVE  /\ Len(SearchPath) \in Nat
           /\ \A i \in 1..Len(SearchPath) : SearchPath[i] \in Name
<1>1. thePathDefs \in Seq(Name) /\ <<Cwd>> \in Seq(Name)
  BY DEF TypeOK, Name
<1>2. SearchPath \in Seq(Name)
  BY <1>1 DEF SearchPath
<1> QED
  BY <1>2

LEMMA FopenType ==
    ASSUME TypeOK, NEW n \in Names
    PROVE  FopenDef(n) \subseteq Text \union {Null}
<1> DEFINE has == {i \in 1..Len(SearchPath) : disk[SearchPath[i]][n] # Null}
<1> DEFINE first == CHOOSE i \in has : \A j \in has : i <= j
<1>1. CASE has = {}
  BY <1>1 DEF FopenDef
<1>2. CASE has # {}
  <2>1. has \subseteq Nat
    BY SearchPathType
  <2>2. FopenDef(n) = Visible(SearchPath[first], n)
    BY <1>2 DEF FopenDef
  <2>3. first \in has
    <3> HIDE DEF has
    <3> QED
      BY <1>2, <2>1, FirstCandidate
  <2>4. SearchPath[first] \in Name
    <3> HIDE DEF first
    <3> QED
      BY <2>3, SearchPathType
  <2> QED
    BY <2>2, <2>4, VisibleType
<1> QED
  BY <1>1, <1>2

LEMMA LoadedType ==
    ASSUME TypeOK, NEW target \in Target \union {Null}, NEW def \in Loaded(target)
    PROVE  def \in Text \union {Null} /\ (target = Null => def = Null)
<1>1. CASE target = Null
  BY <1>1 DEF Loaded
<1>2. CASE target # Null
  <2>1. def \in LoadDef(target.dll) /\ target.dll \in Names
    BY <1>2, TargetAssumption DEF Loaded
  <2> QED
    BY <1>2, <2>1, FopenType DEF LoadDef, TypeOK
<1> QED
  BY <1>1, <1>2

LEMMA HintType ==
    ASSUME TypeOK, NEW target \in Target \union {Null}, NEW def \in Loaded(target)
    PROVE  /\ Info(target, def) \in Answers
           /\ Cache(target, def) \in [Names -> Text \union {Null}]
<1>1. CASE def = Null
  BY <1>1, WordIsBig DEF Info, Cache, NotFound, Answers, TypeOK
<1>2. CASE def # Null
  <2>1. def \in Text /\ target \in Target
    BY <1>2, LoadedType
  <2>2. target.dll \in Names /\ target.sym \in Syms
    BY <2>1, TargetAssumption
  <2>3. GetSymbolInfo(def, target.sym) \in Answers
    BY <2>1, <2>2, InfoType
  <2> QED
    BY <1>2, <2>1, <2>2, <2>3 DEF Info, Cache, TypeOK
<1> QED
  BY <1>1, <1>2

\* what is known of a line before a hint is looked up
LEMMA LookedType ==
    ASSUME NEW e \in InList, NEW x \in Looked(e)
    PROVE  /\ x.kind \in {"none", "plain", "imm", "ill", "skip"}
           /\ x.imp \in Target \union {Null}
           /\ x.kind = "imm" => x.pop \in Pops
           /\ RetpopOf(x) \in 0..(Word - 1)
<1>1. x \in Found \/ x = NoCode
  BY DEF Looked, Disassembled, InList
<1>2. CASE x \in Found
  BY <1>2, WordIsBig DEF Found, RetpopOf
<1>3. CASE x = NoCode
  BY <1>3, WordIsBig DEF NoCode, RetpopOf
<1> QED
  BY <1>1, <1>2, <1>3

LEMMA HintTargetType ==
    ASSUME NEW e \in InList, NEW x \in Looked(e)
    PROVE  HintTarget(e, x) \in Target \union {Null}
  BY LookedType DEF HintTarget, InList

LEMMA LineForType ==
    ASSUME TypeOK, NEW e \in InList, NEW x \in Looked(e),
           NEW info \in Answers
    PROVE  LineFor(e, x, info) \in Rec
<1> DEFINE r == LineFor(e, x, info)
<1>1. r.sym \in Syms /\ r.owner \in Files /\ r.be64 \in BOOLEAN
  BY DEF LineFor, InList
<1>2. r.kind \in {"none", "plain", "imm", "ill", "skip"}
  BY LookedType DEF LineFor
<1>3. r.data \in BOOLEAN
  BY DEF LineFor, Answers
<1>4. r.retpop \in 0..(Word - 1)
  <2>1. info.at \in 0..(Word - 1)
    BY DEF Answers
  <2> QED
    BY <2>1, WordIsBig, LookedType DEF LineFor
<1>5. r.decorated \in BOOLEAN
  BY DEF LineFor, InList
<1>6. r.forward \in Target \union {Null}
  BY DEF LineFor, InList
<1>7. r.flagged \in BOOLEAN
  BY DEF LineFor
<1>10. r.check \in Target \union {Null}
  BY LookedType DEF LineFor, InList
<1>8. r = [sym |-> r.sym, owner |-> r.owner, be64 |-> r.be64, kind |-> r.kind,
           retpop |-> r.retpop, decorated |-> r.decorated, forward |-> r.forward,
           data |-> r.data, check |-> r.check, flagged |-> r.flagged]
  BY DEF LineFor
<1> HIDE DEF r
<1>9. r \in Rec
  BY <1>1, <1>2, <1>3, <1>4, <1>5, <1>6, <1>7, <1>8, <1>10, Zenon DEF Rec
<1> QED
  BY <1>9 DEF r

(***************************************************************************)
(* Types, and what is known of the phase, are kept by every step.          *)
(***************************************************************************)
Base0 == TypeOK /\ Parsing /\ InFile

LEMMA InitBase == Init => Base0
<1> SUFFICES ASSUME Init PROVE Base0
  OBVIOUS
<1>1. argv \in Argvs /\ argv \in Seq(Options \union Files \union Dirs)
  BY ArgvsAssumption DEF Init
<1>2. Len(argv) \in Nat
  BY <1>1
<1>3. << >> \in Seq(Dirs) /\ << >> \in Seq(Files) /\ << >> \in Seq(InList)
      /\ << >> \in Seq(Rec) /\ << >> \in Seq([pos : Nat, lines : Seq(Rec)])
      /\ Len(<< >>) = 0
  OBVIOUS
<1>4. disk \in [Dirs \union {Cwd} -> [Names -> Text \union {Null}]]
  BY HintDisksAssumption DEF Init
<1>5. TypeOK
  <2>1. argi \in 1..(Len(argv) + 2) /\ opt \in 1..(Len(chain) + 1)
    BY <1>2, <1>3 DEF Init
  <2>2. theImpDef \in [Names -> Text \union {Null}]
    BY DEF Init
  <2>3. std_output \in BOOLEAN /\ assume_stdcall \in BOOLEAN
        /\ no_forward_output \in BOOLEAN /\ tailNull \in BOOLEAN /\ failed \in BOOLEAN
    BY DEF Init
  <2>4. thePathDefs \in Seq(Dirs) /\ chain \in Seq(Files) /\ gExp \in Seq(InList)
        /\ written \in Seq(Rec) /\ dumps \in Seq([pos : Nat, lines : Seq(Rec)])
    BY <1>3 DEF Init
  <2>5. {gDta, fndllname, theImports} \subseteq Files \union {Null}
    BY DEF Init
  <2> QED
    BY <1>1, <1>4, <2>1, <2>2, <2>3, <2>4, <2>5 DEF Init, TypeOK
<1>6. 1 <= Len(argv) => argv[1] \notin Dirs
  BY <1>1, <1>2, ArgvsAssumption
<1>7. Parsing
  BY <1>6 DEF Init, Parsing
<1> QED
  BY <1>5, <1>7 DEF Base0, InFile, Working, Init

\* options
LEMMA ParseArgBase == Base0 /\ ParseArg => Base0'
<1> SUFFICES ASSUME Base0, ParseArg PROVE Base0'
  OBVIOUS
<1> USE DEF Base0
<1> DEFINE a == argv[argi]
<1> DEFINE paths == a = "-I" /\ argi < Len(argv)
<1>1. /\ argv \in Seq(Options \union Files \union Dirs) /\ Len(argv) \in Nat
      /\ argi \in 1..Len(argv) /\ a \in Options \union Files
  BY ArgvsAssumption DEF TypeOK, Parsing, ParseArg
<1>2. /\ phase = "args" /\ UNCHANGED <<argv, image, phase, opt, gDta, fndllname,
                        gExp, tailNull, theImports, theImpDef, disk, written,
                        dumps, failed>>
      /\ std_output' \in BOOLEAN /\ assume_stdcall' \in BOOLEAN
      /\ no_forward_output' \in BOOLEAN
  BY DEF ParseArg, TypeOK, expvars
<1>3. chain' \in Seq(Files) /\ opt' \in 1..(Len(chain') + 1)
  <2>1. chain' = IF a \in Options THEN chain ELSE Append(chain, a)
    BY DEF ParseArg
  <2>2. chain \in Seq(Files) /\ Len(chain) \in Nat /\ opt = 1
    BY <1>2 DEF TypeOK, Parsing
  <2>3. a \notin Options => Append(chain, a) \in Seq(Files)
                             /\ Len(Append(chain, a)) = Len(chain) + 1
    BY <1>1, <2>2
  <2> QED
    BY <1>2, <2>1, <2>2, <2>3
<1>4. paths => argv[argi + 1] \in Dirs /\ argi' = argi + 2
  BY <1>1, ArgvsAssumption DEF ParseArg, TypeOK
<1>5. ~paths => argi' = argi + 1
  BY DEF ParseArg
<1>6. thePathDefs' \in Seq(Dirs)
  <2>1. CASE paths
    <3>1. thePathDefs' = thePathDefs \/ thePathDefs' = <<argv[argi + 1]>> \o thePathDefs
      BY <2>1 DEF ParseArg
    <3>2. <<argv[argi + 1]>> \in Seq(Dirs) /\ thePathDefs \in Seq(Dirs)
      BY <1>4, <2>1 DEF TypeOK
    <3> QED
      BY <3>1, <3>2
  <2>2. CASE ~paths
    BY <2>2 DEF ParseArg, TypeOK
  <2> QED
    BY <2>1, <2>2
<1>7. argi' \in 1..(Len(argv') + 2)
  BY <1>1, <1>2, <1>4, <1>5
<1>8. TypeOK'
  BY <1>2, <1>3, <1>6, <1>7 DEF TypeOK
<1>9. argi' <= Len(argv) => argv[argi'] \notin Dirs
  <2>1. CASE paths
    <3>1. argv[argi + 1] # "-I"
      BY <1>4, <2>1, ArgvsAssumption DEF Options
    <3>2. argi + 2 <= Len(argv) /\ argv[argi + 2] \in Dirs =>
             argv[(argi + 2) - 1] = "-I"
      BY <1>1, ArgvsAssumption DEF TypeOK
    <3>3. (argi + 2) - 1 = argi + 1
      BY <1>1
    <3> QED
      BY <1>4, <2>1, <3>1, <3>2, <3>3
  <2>2. CASE ~paths
    <3>1. argi + 1 <= Len(argv) /\ argv[argi + 1] \in Dirs =>
             argv[(argi + 1) - 1] = "-I"
      BY <1>1, ArgvsAssumption DEF TypeOK
    <3>2. (argi + 1) - 1 = argi /\ (argi + 1 <= Len(argv) => argi < Len(argv))
      BY <1>1
    <3> QED
      BY <1>5, <2>2, <3>1, <3>2
  <2> QED
    BY <2>1, <2>2
<1>10. Parsing'
  BY <1>2, <1>9 DEF Parsing
<1> QED
  BY <1>2, <1>8, <1>10 DEF InFile, Working

LEMMA ArgsDoneBase == Base0 /\ ArgsDone => Base0'
<1> SUFFICES ASSUME Base0, ArgsDone PROVE Base0'
  OBVIOUS
<1> USE DEF Base0
<1>1. /\ phase = "args" /\ phase' = IF chain = <<>> THEN "end" ELSE "load"
      /\ UNCHANGED <<argv, image, argi, std_output, assume_stdcall,
                     no_forward_output, thePathDefs, chain, opt, gDta, fndllname,
                     gExp, tailNull, theImports, theImpDef, disk, written, dumps,
                     failed>>
  BY DEF ArgsDone, optvars, expvars
<1>2. TypeOK'
  BY <1>1 DEF TypeOK
<1>3. chain # <<>> => 1 <= Len(chain)
  BY DEF TypeOK
<1>4. opt = 1 /\ fndllname = Null
  BY <1>1 DEF Parsing
<1> QED
  BY <1>1, <1>2, <1>3, <1>4 DEF Parsing, InFile, Working

\* one input file
LEMMA LoadPepBase == Base0 /\ LoadPep => Base0'
<1> SUFFICES ASSUME Base0, LoadPep PROVE Base0'
  OBVIOUS
<1> USE DEF Base0
<1>1. /\ phase = "load"
      /\ IF image[cur].kind \in {"pe", "pep"}
         THEN phase' = "read" /\ gDta' = cur
         ELSE phase' = "clean" /\ gDta' = Null
      /\ UNCHANGED <<argv, image, argi, std_output, assume_stdcall,
                     no_forward_output, thePathDefs, chain, opt, fndllname,
                     gExp, tailNull, theImports, theImpDef, disk, written, dumps,
                     failed>>
  BY DEF LoadPep, optvars, expvars
<1>2. opt <= Len(chain) /\ fndllname = Null /\ cur' = cur /\ cur \in Files
  BY <1>1, CurFile DEF InFile, Working, cur
<1>3. TypeOK'
  BY <1>1, <1>2 DEF TypeOK
<1> QED
  BY <1>1, <1>2, <1>3 DEF Parsing, InFile, Working

LEMMA ListedType ==
    ASSUME TypeOK, NEW f \in Files, NEW k \in 1..Len(Exports(f))
    PROVE  Exports(f)[k] \in Export /\ Listed(f, Exports(f)[k]) \in InList
<1>1. image[f] \in Image
  BY ImagesAssumption DEF TypeOK
<1>2. Exports(f) \in Seq(Export)
  BY <1>1 DEF Image, Exports
<1>3. Exports(f)[k] \in Export
  BY <1>2
<1> QED
  BY <1>3 DEF Listed, Export, InList

LEMMA AddExportsType ==
    ASSUME TypeOK, NEW f \in Files, AddExports(f)
    PROVE  gExp' \in Seq(InList) /\ tailNull' \in BOOLEAN
<1> DEFINE new == [i \in 1..Len(image[f].exports) |-> Listed(f, image[f].exports[i])]
<1>1. image[f].exports \in Seq(Export)
  BY ImagesAssumption DEF TypeOK, Image
<1>2. \A i \in 1..Len(image[f].exports) : Listed(f, image[f].exports[i]) \in InList
  BY ListedType DEF Exports
<1>3. new \in Seq(InList) /\ gExp \in Seq(InList) /\ << >> \in Seq(InList)
  BY <1>1, <1>2 DEF TypeOK
<1>4. CASE new = << >>
  BY <1>4 DEF AddExports, expvars, TypeOK
<1>5. CASE new # << >>
  <2>1. /\ gExp' = IF tailNull THEN new
                   ELSE IF gExp = << >> THEN << >> ELSE gExp \o new
        /\ tailNull' = FALSE
    BY <1>5 DEF AddExports
  <2> HIDE DEF new
  <2>2. gExp \o new \in Seq(InList)
    BY <1>3
  <2>3. gExp' = new \/ gExp' = << >> \/ gExp' = gExp \o new
    BY <2>1, Zenon
  <2>4. gExp' \in Seq(InList)
    BY <1>3, <2>2, <2>3, Zenon
  <2> QED
    BY <2>1, <2>4
<1> QED
  BY <1>4, <1>5

LEMMA ReadImageBase == Base0 /\ ReadImage => Base0'
<1> SUFFICES ASSUME Base0, ReadImage PROVE Base0'
  OBVIOUS
<1> USE DEF Base0
<1>1. /\ phase = "read" /\ phase' = "dump"
      /\ theImports' = IF image[cur].kind = "pe" THEN cur ELSE theImports
      /\ UNCHANGED <<argv, image, argi, std_output, assume_stdcall,
                     no_forward_output, thePathDefs, chain, opt, gDta,
                     theImpDef, disk, written, dumps, failed>>
  BY DEF ReadImage, optvars
<1>2. opt <= Len(chain) /\ cur' = cur /\ cur \in Files
  BY <1>1, CurFile DEF InFile, Working, cur
<1>3. gExp' \in Seq(InList) /\ tailNull' \in BOOLEAN /\ fndllname' \in Files \union {Null}
  <2>1. CASE image[cur].hasdir
    BY <1>2, <2>1, AddExportsType DEF ReadImage
  <2>2. CASE ~image[cur].hasdir
    BY <2>2 DEF ReadImage, expvars, TypeOK
  <2> QED
    BY <2>1, <2>2
<1>4. TypeOK'
  BY <1>1, <1>2, <1>3 DEF TypeOK
<1> QED
  BY <1>1, <1>2, <1>4 DEF Parsing, InFile, Working

LEMMA DumpNothingBase == Base0 /\ DumpNothing => Base0'
<1> SUFFICES ASSUME Base0, DumpNothing PROVE Base0'
  OBVIOUS
<1> USE DEF Base0
<1>1. phase = "dump" /\ phase' = "clean"
      /\ UNCHANGED <<argv, image, argi, std_output, assume_stdcall,
                     no_forward_output, thePathDefs, chain, opt, gDta, fndllname,
                     gExp, tailNull, theImports, theImpDef, disk, written, dumps,
                     failed>>
  BY DEF DumpNothing, optvars, expvars
<1>2. TypeOK'
  BY <1>1 DEF TypeOK
<1> QED
  BY <1>1, <1>2 DEF Parsing, InFile, Working

LEMMA DumpFailsBase == Base0 /\ DumpFails => Base0'
<1> SUFFICES ASSUME Base0, DumpFails PROVE Base0'
  OBVIOUS
<1> USE DEF Base0
<1>1. phase = "dump" /\ phase' = "clean" /\ failed' = TRUE
      /\ UNCHANGED <<argv, image, argi, std_output, assume_stdcall,
                     no_forward_output, thePathDefs, chain, opt, gDta, fndllname,
                     gExp, tailNull, theImports, theImpDef, disk, written, dumps>>
  BY DEF DumpFails, optvars, expvars
<1>2. TypeOK'
  BY <1>1 DEF TypeOK
<1> QED
  BY <1>1, <1>2 DEF Parsing, InFile, Working

\* a text put in place of the current output file
LEMMA DiskType ==
    ASSUME TypeOK, opt <= Len(chain), NEW x \in Text
    PROVE  [disk EXCEPT ![Cwd][Base[cur]] = x]
              \in [Dirs \union {Cwd} -> [Names -> Text \union {Null}]]
<1>1. disk[Cwd] \in [Names -> Text \union {Null}]
  BY DEF TypeOK
<1>2. [disk[Cwd] EXCEPT ![Base[cur]] = x] \in [Names -> Text \union {Null}]
  BY <1>1
<1> QED
  BY <1>2 DEF TypeOK

LEMMA DumpOpensBase == Base0 /\ DumpOpens => Base0'
<1> SUFFICES ASSUME Base0, DumpOpens PROVE Base0'
  OBVIOUS
<1> USE DEF Base0
<1>1. /\ phase = "dump" /\ phase' = "lines" /\ written' = <<>>
      /\ UNCHANGED <<argv, image, argi, std_output, assume_stdcall,
                     no_forward_output, thePathDefs, chain, opt, gDta, fndllname,
                     gExp, tailNull, theImports, theImpDef, dumps, failed>>
  BY DEF DumpOpens, optvars, expvars
<1>2. opt <= Len(chain) /\ cur' = cur
  BY <1>1 DEF InFile, Working, cur
<1>3. EmptyText \in Text /\ << >> \in Seq(Rec)
  <2>1. << >> \in Seq(Line) /\ << >> \in Seq(Rec)
    OBVIOUS
  <2> QED
    BY <2>1 DEF EmptyText, Text
<1>4. disk' \in [Dirs \union {Cwd} -> [Names -> Text \union {Null}]]
  BY <1>2, <1>3, DiskType DEF DumpOpens, TypeOK
<1>5. TypeOK'
  BY <1>1, <1>3, <1>4 DEF TypeOK
<1> QED
  BY <1>1, <1>2, <1>5 DEF Parsing, InFile, Working

LEMMA DumpLineBase == Base0 /\ DumpLine => Base0'
<1> SUFFICES ASSUME Base0, DumpLine PROVE Base0'
  OBVIOUS
<1> USE DEF Base0
<1>1. /\ phase = "lines" /\ gExp # <<>> /\ gExp' = Tail(gExp)
      /\ UNCHANGED <<argv, image, phase, argi, std_output, assume_stdcall,
                     no_forward_output, thePathDefs, chain, opt, gDta, fndllname,
                     tailNull, theImports, disk, dumps, failed>>
  BY DEF DumpLine, optvars
<1>2. PICK x \in Looked(Head(gExp)) : \E def \in Loaded(HintTarget(Head(gExp), x)) :
         /\ written' = Append(written, LineFor(Head(gExp), x,
                                     Info(HintTarget(Head(gExp), x), def)))
         /\ theImpDef' = Cache(HintTarget(Head(gExp), x), def)
  BY DEF DumpLine
<1> DEFINE target == HintTarget(Head(gExp), x)
<1>3. PICK def \in Loaded(target) :
         /\ written' = Append(written, LineFor(Head(gExp), x, Info(target, def)))
         /\ theImpDef' = Cache(target, def)
  BY <1>2
<1> HIDE DEF target
<1>4. Head(gExp) \in InList /\ gExp' \in Seq(InList)
  BY <1>1 DEF TypeOK
<1>5. /\ Info(target, def) \in Answers
      /\ Cache(target, def) \in [Names -> Text \union {Null}]
  BY <1>4, HintTargetType, HintType DEF target
<1>6. written' \in Seq(Rec)
  BY <1>3, <1>4, <1>5, LineForType DEF TypeOK
<1>7. TypeOK'
  BY <1>1, <1>3, <1>4, <1>5, <1>6 DEF TypeOK
<1> QED
  BY <1>1, <1>7 DEF Parsing, InFile, Working, cur

LEMMA DumpClosesBase == Base0 /\ DumpCloses => Base0'
<1> SUFFICES ASSUME Base0, DumpCloses PROVE Base0'
  OBVIOUS
<1> USE DEF Base0
<1>1. /\ phase = "lines" /\ phase' = "clean" /\ tailNull' = TRUE
      /\ dumps' = Append(dumps, [pos |-> opt, lines |-> written])
      /\ UNCHANGED <<argv, image, argi, std_output, assume_stdcall,
                     no_forward_output, thePathDefs, chain, opt, gDta, fndllname,
                     gExp, theImports, theImpDef, written, failed>>
  BY DEF DumpCloses, optvars
<1>2. opt <= Len(chain)
  BY <1>1 DEF InFile, Working
<1>3. TextOf(written) \in Text
  BY TextOfType DEF TypeOK
<1>4. disk' \in [Dirs \union {Cwd} -> [Names -> Text \union {Null}]]
  BY <1>2, <1>3, DiskType DEF DumpCloses, TypeOK
<1>5. dumps' \in Seq([pos : Nat, lines : Seq(Rec)])
  <2>1. opt \in Nat /\ written \in Seq(Rec)
    BY CurFile, <1>2 DEF TypeOK
  <2>2. [pos |-> opt, lines |-> written] \in [pos : Nat, lines : Seq(Rec)]
    BY <2>1
  <2> QED
    BY <1>1, <2>2 DEF TypeOK
<1>6. TypeOK'
  BY <1>1, <1>4, <1>5 DEF TypeOK
<1> QED
  BY <1>1, <1>2, <1>6 DEF Parsing, InFile, Working

LEMMA CleanBase == Base0 /\ Clean => Base0'
<1> SUFFICES ASSUME Base0, Clean PROVE Base0'
  OBVIOUS
<1> USE DEF Base0
<1>1. /\ phase = "clean" /\ fndllname' = Null /\ gDta' = Null
      /\ UNCHANGED <<argv, image, argi, std_output, assume_stdcall,
                     no_forward_output, thePathDefs, chain, gExp, tailNull,
                     theImports, theImpDef, disk, written, dumps, failed>>
  BY DEF Clean, optvars, expvars
<1>2. PICK next \in FreedNext :
         /\ phase' = CASE next = "wild" -> "crash"
                       [] next = "null" \/ opt = Len(chain) -> "end"
                       [] OTHER -> "load"
         /\ opt' = IF next = "kept" /\ opt < Len(chain) THEN opt + 1 ELSE opt
  BY DEF Clean
<1>3. opt \in 1..Len(chain) /\ next \in {"kept", "null", "wild"}
  BY <1>1, CurFile, FreedNextAssumption DEF InFile, Working
<1>4. \/ phase' = "load" /\ opt < Len(chain) /\ opt' = opt + 1
      \/ phase' \in {"end", "crash"} /\ opt' = opt
  BY <1>2, <1>3
<1>5. opt' \in 1..(Len(chain') + 1)
  BY <1>1, <1>3, <1>4
<1>6. TypeOK'
  BY <1>1, <1>4, <1>5 DEF TypeOK
<1>7. phase' = "load" => opt' <= Len(chain')
  BY <1>1, <1>3, <1>4
<1> QED
  BY <1>1, <1>4, <1>6, <1>7 DEF Parsing, InFile, Working

LEMMA StepBase == Base0 /\ [Next]_vars => Base0'
<1> SUFFICES ASSUME Base0, [Next]_vars PROVE Base0'
  OBVIOUS
<1>1. CASE UNCHANGED vars
  <2>1. UNCHANGED <<argv, image, phase, argi, std_output, assume_stdcall,
                   no_forward_output, thePathDefs, chain, opt, gDta, fndllname,
                   gExp, tailNull, theImports, theImpDef, disk, written, dumps,
                   failed>>
    BY <1>1 DEF vars, optvars, expvars
  <2> QED
    BY <2>1 DEF Base0, TypeOK, Parsing, InFile, cur
<1>2. CASE Next
  BY <1>2, ParseArgBase, ArgsDoneBase, LoadPepBase, ReadImageBase, DumpNothingBase,
     DumpFailsBase, DumpOpensBase, DumpLineBase, DumpClosesBase, CleanBase DEF Next
<1> QED
  BY <1>1, <1>2

\* Every variable has its type, whatever the inputs (all of main and dump_def).
THEOREM TypeCorrect == Spec => []TypeOK
<1>1. Spec => []Base0
  BY InitBase, StepBase, PTL DEF Spec
<1>2. Base0 => TypeOK
  BY DEF Base0
<1> QED
  BY <1>1, <1>2, PTL

(***************************************************************************)
(* The list of exports and the finished files, as long as every output     *)
(* file could be created.                                                  *)
(***************************************************************************)
\* nothing has been read or written yet
Untouched ==
    /\ TypeOK /\ opt = 1 /\ dumps = <<>> /\ Empty
    /\ theImpDef = [n \in Names |-> Null]
    /\ phase \in {"args", "load"} \/ (phase = "end" /\ chain = <<>>)

LEMMA UntouchedOwn == Untouched => Own
<1> SUFFICES ASSUME Untouched PROVE Own
  OBVIOUS
<1> USE DEF Untouched
<1>1. Len(dumps) = 0 /\ Len(chain) \in Nat /\ (chain = <<>> => Len(chain) = 0)
  BY DEF TypeOK
<1>2. ListIsOwn /\ LinesAreOwn /\ DumpsAreOwn
  BY <1>1 DEF ListIsOwn, LinesAreOwn, DumpsAreOwn
<1>3. \A pos \in 1..Len(chain) : ~Done(pos) /\ DumpsOf(pos) = {}
  BY <1>1 DEF Done, DumpsOf
<1>4. Once
  BY <1>3 DEF Once
<1>5. Fresh
  BY DEF Fresh
<1> QED
  BY <1>2, <1>4, <1>5 DEF Own

LEMMA ParseArgOwn == Base0 /\ ParseArg => OwnInv'
<1> SUFFICES ASSUME Base0, ParseArg PROVE OwnInv'
  OBVIOUS
<1>1. TypeOK' /\ Parsing'
  BY ParseArgBase DEF Base0
<1>2. phase' = "args"
  BY DEF ParseArg
<1>3. Untouched'
  BY <1>1, <1>2 DEF Untouched, Parsing, Empty
<1>4. Own'
  BY <1>3, UntouchedOwn, PTL
<1> QED
  BY <1>4 DEF OwnInv

LEMMA ArgsDoneOwn == Base0 /\ ArgsDone => OwnInv'
<1> SUFFICES ASSUME Base0, ArgsDone PROVE OwnInv'
  OBVIOUS
<1>1. TypeOK'
  BY ArgsDoneBase DEF Base0
<1>2. /\ phase = "args" /\ phase' = IF chain = <<>> THEN "end" ELSE "load"
      /\ UNCHANGED <<chain, opt, gExp, tailNull, theImpDef, dumps>>
  BY DEF ArgsDone, expvars
<1>3. /\ opt = 1 /\ dumps = <<>> /\ gExp = <<>> /\ tailNull
      /\ theImpDef = [n \in Names |-> Null]
  BY <1>2 DEF Base0, Parsing
<1>4. Untouched'
  BY <1>1, <1>2, <1>3 DEF Untouched, Empty
<1>5. Own'
  BY <1>4, UntouchedOwn, PTL
<1> QED
  BY <1>5 DEF OwnInv

\* what a step that leaves the finished files alone keeps
LEMMA DumpsKept ==
    ASSUME UNCHANGED <<dumps, chain, image>>
    PROVE  DumpsAreOwn => DumpsAreOwn'
  BY DEF DumpsAreOwn, DumpFact, LineFact, Exports

LEMMA OnceKept ==
    ASSUME UNCHANGED <<dumps, chain, image, opt>>, Once,
           phase \notin {"clean", "end", "crash"}, phase' \notin {"clean", "end", "crash"}
    PROVE  Once'
  BY DEF Once, Done, DumpsOf, HasExports

\* a file without exports has been dealt with
LEMMA OnceSkips ==
    ASSUME TypeOK, opt <= Len(chain), UNCHANGED <<dumps, chain, image, opt>>, Once,
           phase \notin {"clean", "end", "crash"}, phase' = "clean", ~HasExports(cur)
    PROVE  Once'
<1> SUFFICES ASSUME NEW pos \in 1..Len(chain)
             PROVE  IF Done(pos)'
                    THEN Cardinality(DumpsOf(pos)) = (IF HasExports(chain[pos]) THEN 1 ELSE 0)
                    ELSE DumpsOf(pos) = {}
  BY DEF Once, DumpsOf, HasExports
<1>1. opt \in 1..Len(chain)
  BY CurFile
<1>2. CASE pos = opt
  <2>1. ~Done(pos) /\ Done(pos)'
    BY <1>1, <1>2 DEF Done
  <2>2. DumpsOf(pos) = {}
    BY <2>1 DEF Once
  <2>3. ~HasExports(chain[pos])
    BY <1>2 DEF cur
  <2> QED
    BY <2>1, <2>2, <2>3, FS_EmptySet
<1>3. CASE pos # opt
  <2>1. Done(pos)' <=> Done(pos)
    BY <1>1, <1>3 DEF Done
  <2> QED
    BY <2>1 DEF Once
<1> QED
  BY <1>2, <1>3

LEMMA OtherVisible ==
    ASSUME NEW n, n # Base[cur], cur' = cur,
           \A d \in Name : disk'[d][n] = disk[d][n]
    PROVE  \A d \in Name : Visible(d, n)' = Visible(d, n)
<1>1. \A d : ~Writing(d, n) /\ ~Writing(d, n)'
  BY DEF Writing, cur
<1> QED
  BY <1>1 DEF Visible

\* The search ends at the same file as long as the texts stay what they are.
LEMMA FopenSame ==
    ASSUME TypeOK, NEW n, thePathDefs' = thePathDefs,
           \A d \in Name : disk'[d][n] = disk[d][n],
           \A d \in Name : Visible(d, n)' = Visible(d, n)
    PROVE  FopenDef(n)' = FopenDef(n)
<1> DEFINE has == {i \in 1..Len(SearchPath) : disk[SearchPath[i]][n] # Null}
<1> DEFINE first == CHOOSE i \in has : \A j \in has : i <= j
<1>1. SearchPath' = SearchPath
  BY DEF SearchPath
<1>2. ASSUME NEW i \in 1..Len(SearchPath)
      PROVE  /\ disk'[SearchPath[i]][n] = disk[SearchPath[i]][n]
             /\ Visible(SearchPath[i], n)' = Visible(SearchPath[i], n)
  <2>1. PICK d \in Name : d = SearchPath[i]
    BY SearchPathType
  <2>2. Visible(SearchPath[i], n)' = Visible(d, n)'
    BY <1>1, <2>1 DEF Visible, Writing, HalfWritten
  <2>3. Visible(SearchPath[i], n) = Visible(d, n)
    BY <2>1
  <2> QED
    BY <2>1, <2>2, <2>3
<1>3. has' = has
  BY <1>1, <1>2
<1>4. first' = first
  BY <1>3
<1>5. FopenDef(n) = IF has = {} THEN {Null} ELSE Visible(SearchPath[first], n)
  BY DEF FopenDef
<1>6. FopenDef(n)' = IF has' = {} THEN {Null} ELSE Visible(SearchPath[first], n)'
  BY DEF FopenDef
<1>7. has # {} => first \in 1..Len(SearchPath)
  <2>1. has \subseteq Nat /\ has \subseteq 1..Len(SearchPath)
    BY SearchPathType
  <2> HIDE DEF has
  <2> QED
    BY <2>1, FirstCandidate
<1>8. has # {} => Visible(SearchPath[first], n)' = Visible(SearchPath[first], n)
  <2> SUFFICES ASSUME has # {}
               PROVE  Visible(SearchPath[first], n)' = Visible(SearchPath[first], n)
    OBVIOUS
  <2>1. PICK i \in 1..Len(SearchPath) : i = first
    BY <1>7
  <2>2. Visible(SearchPath[first], n)' = Visible(SearchPath[i], n)'
    <3> HIDE DEF first
    <3> QED
      BY <1>4, <2>1 DEF Visible, Writing, HalfWritten
  <2> HIDE DEF first
  <2> QED
    BY <1>2, <2>1, <2>2
<1> QED
  BY <1>3, <1>5, <1>6, <1>8, Zenon

\* a step that touches no text keeps the cached texts fresh
LEMMA FreshKept ==
    ASSUME TypeOK, UNCHANGED <<dumps, chain, thePathDefs, theImpDef, disk>>,
           phase # "lines", phase' # "lines", Fresh
    PROVE  Fresh'
<1>1. Touched' = Touched
  BY DEF Touched
<1>2. \A d, n : Visible(d, n)' = Visible(d, n)
  BY DEF Visible, Writing
<1>3. \A n : FopenDef(n)' = FopenDef(n)
  BY <1>2, FopenSame
<1> QED
  BY <1>1, <1>3 DEF Fresh

LEMMA LoadPepOwn == Base0 /\ OwnInv /\ LoadPep => OwnInv'
<1> SUFFICES ASSUME Base0, OwnInv, LoadPep, ~failed PROVE Own'
  BY DEF OwnInv, LoadPep
<1> USE DEF Base0
<1>1. /\ phase = "load" /\ phase' \in {"read", "clean"}
      /\ phase' = "clean" => image[cur].kind \notin {"pe", "pep"}
      /\ UNCHANGED <<image, thePathDefs, chain, opt, gExp, tailNull, theImpDef,
                     disk, dumps>>
  BY DEF LoadPep, optvars, expvars
<1>2. opt <= Len(chain) /\ Own
  BY <1>1 DEF InFile, Working, OwnInv
<1>3. ListIsOwn' /\ LinesAreOwn'
  BY <1>1, <1>2 DEF Own, ListIsOwn, LinesAreOwn, Empty
<1>4. DumpsAreOwn' /\ Fresh'
  BY <1>1, <1>2, DumpsKept, FreshKept DEF Own
<1>5. Once'
  <2>1. CASE phase' = "read"
    BY <1>1, <1>2, <2>1, OnceKept DEF Own
  <2>2. CASE phase' = "clean"
    BY <1>1, <1>2, <2>2, OnceSkips DEF Own, HasExports
  <2> QED
    BY <1>1, <2>1, <2>2
<1> QED
  BY <1>3, <1>4, <1>5 DEF Own

LEMMA ReadImageOwn == Base0 /\ OwnInv /\ ReadImage => OwnInv'
<1> SUFFICES ASSUME Base0, OwnInv, ReadImage, ~failed PROVE Own'
  BY DEF OwnInv, ReadImage
<1> USE DEF Base0
<1>1. /\ phase = "read" /\ phase' = "dump"
      /\ UNCHANGED <<image, thePathDefs, chain, opt, theImpDef, disk, dumps>>
  BY DEF ReadImage, optvars
<1>2. /\ opt <= Len(chain) /\ Own /\ cur' = cur /\ fndllname = Null
      /\ image[cur].kind \in {"pe", "pep"} /\ Empty
  BY <1>1 DEF InFile, Working, OwnInv, Own, cur, ListIsOwn
<1>3. Exports(cur) \in Seq(Export) /\ Len(Exports(cur)) \in Nat
  BY <1>2, CurFile
<1>4. ListIsOwn'
  <2> DEFINE new == [k \in 1..Len(Exports(cur)) |-> Listed(cur, Exports(cur)[k])]
  <2>1. CASE ~image[cur].hasdir
    <3>1. ~HasExports(cur)
      BY <2>1 DEF HasExports
    <3>2. Empty'
      BY <1>2, <2>1 DEF ReadImage, Empty, expvars
    <3> QED
      BY <1>1, <1>2, <3>1, <3>2 DEF ListIsOwn, HasExports
  <2>2. CASE image[cur].hasdir /\ Exports(cur) = <<>>
    <3>1. new = <<>>
      BY <2>2
    <3>2. Empty'
      BY <1>2, <2>2, <3>1 DEF ReadImage, AddExports, Empty, expvars, Exports
    <3>3. ~HasExports(cur)
      BY <2>2 DEF HasExports, Exports
    <3> QED
      BY <1>1, <1>2, <3>2, <3>3 DEF ListIsOwn, HasExports
  <2>3. CASE image[cur].hasdir /\ Exports(cur) # <<>>
    <3>1. new # <<>>
      <4>1. Len(new) = Len(Exports(cur)) /\ Len(Exports(cur)) # 0
        BY <1>3, <2>3
      <4> QED
        BY <4>1
    <3>2. HasExports(cur)
      BY <1>2, <2>3 DEF HasExports, Exports
    <3>3. gExp' = new /\ fndllname' = cur
      BY <1>2, <2>3, <3>1 DEF ReadImage, AddExports, Empty, Exports
    <3>4. new' = new /\ (HasExports(cur)' <=> HasExports(cur))
      BY <1>1, <1>2 DEF Exports, Listed, HasExports
    <3> QED
      BY <1>1, <1>2, <3>2, <3>3, <3>4 DEF ListIsOwn
  <2> QED
    BY <2>1, <2>2, <2>3
<1>5. LinesAreOwn'
  BY <1>1 DEF LinesAreOwn
<1>6. DumpsAreOwn' /\ Fresh' /\ Once'
  BY <1>1, <1>2, DumpsKept, FreshKept, OnceKept DEF Own
<1> QED
  BY <1>4, <1>5, <1>6 DEF Own

LEMMA DumpNothingOwn == Base0 /\ OwnInv /\ DumpNothing => OwnInv'
<1> SUFFICES ASSUME Base0, OwnInv, DumpNothing, ~failed PROVE Own'
  BY DEF OwnInv, DumpNothing
<1> USE DEF Base0
<1>1. /\ phase = "dump" /\ phase' = "clean"
      /\ UNCHANGED <<image, thePathDefs, chain, opt, gExp, tailNull, theImpDef, disk,
                     dumps>>
  BY DEF DumpNothing, optvars, expvars
<1>2. opt <= Len(chain) /\ Own /\ cur \in Files
  BY <1>1, CurFile DEF InFile, Working, OwnInv
<1>3. ~HasExports(cur)
  <2> SUFFICES ASSUME HasExports(cur) PROVE FALSE
    OBVIOUS
  <2>1. fndllname = cur
        /\ gExp = [k \in 1..Len(Exports(cur)) |-> Listed(cur, Exports(cur)[k])]
    BY <1>1, <1>2 DEF Own, ListIsOwn
  <2>2. Len(gExp) = Len(Exports(cur)) /\ Len(Exports(cur)) # 0
    BY <1>2, <2>1, CurFile DEF HasExports, Exports
  <2>3. fndllname = Null \/ gExp = <<>>
    BY DEF DumpNothing
  <2> QED
    BY <1>2, <2>1, <2>2, <2>3, NullAssumption
<1>4. Empty
  BY <1>1, <1>2, <1>3 DEF Own, ListIsOwn
<1>5. ListIsOwn' /\ LinesAreOwn'
  BY <1>1, <1>4 DEF ListIsOwn, LinesAreOwn, Empty
<1>6. DumpsAreOwn' /\ Fresh' /\ Once'
  BY <1>1, <1>2, <1>3, DumpsKept, FreshKept, OnceSkips DEF Own
<1> QED
  BY <1>5, <1>6 DEF Own

LEMMA DumpFailsOwn == DumpFails => OwnInv'
  BY DEF DumpFails, OwnInv

\* the text of another name is not touched by the output
LEMMA DumpOpensOwn == Base0 /\ OwnInv /\ DumpOpens => OwnInv'
<1> SUFFICES ASSUME Base0, OwnInv, DumpOpens, ~failed PROVE Own'
  BY DEF OwnInv, DumpOpens
<1> USE DEF Base0
<1>1. /\ phase = "dump" /\ phase' = "lines" /\ gExp # <<>> /\ written' = <<>>
      /\ UNCHANGED <<image, thePathDefs, chain, opt, gExp, tailNull, theImpDef, dumps>>
      /\ disk' = IF std_output THEN disk
                 ELSE [disk EXCEPT ![Cwd][Base[cur]] = EmptyText]
  BY DEF DumpOpens, optvars, expvars
<1>2. opt <= Len(chain) /\ Own /\ cur' = cur /\ cur \in Files
  BY <1>1, CurFile DEF InFile, Working, OwnInv, cur
<1>3. /\ HasExports(cur)
      /\ gExp = [k \in 1..Len(Exports(cur)) |-> Listed(cur, Exports(cur)[k])]
  BY <1>1, <1>2 DEF Own, ListIsOwn, Empty
<1>4. ListIsOwn'
  BY <1>1 DEF ListIsOwn
<1>5. LinesAreOwn'
  <2>1. Len(gExp) = Len(Exports(cur)) /\ Len(Exports(cur)) \in Nat /\ Len(<<>>) = 0
    BY <1>2, <1>3, CurFile
  <2>2. HasExports(cur)' /\ Exports(cur)' = Exports(cur)
    BY <1>1, <1>2, <1>3 DEF HasExports, Exports
  <2>3. ASSUME NEW k \in 1..Len(gExp)
        PROVE  gExp'[k] = Listed(cur, Exports(cur)[0 + k])'
    <3>1. 0 + k = k /\ k \in 1..Len(Exports(cur)) /\ gExp' = gExp
      BY <1>1, <2>1
    <3>2. gExp[k] = Listed(cur, Exports(cur)[k])
      BY <1>3, <3>1
    <3>3. Exports(cur)'[0 + k] = Exports(cur)[k]
      BY <2>2, <3>1
    <3> QED
      BY <1>1, <1>2, <3>1, <3>2, <3>3 DEF Listed
  <2> QED
    BY <1>1, <2>1, <2>2, <2>3 DEF LinesAreOwn
<1>6. DumpsAreOwn' /\ Once'
  BY <1>1, <1>2, DumpsKept, OnceKept DEF Own
<1>7. Fresh'
  <2> SUFFICES ASSUME NEW n \in Names, n \notin Touched', theImpDef[n] # Null
               PROVE  theImpDef[n] \in FopenDef(n)'
    BY <1>1 DEF Fresh
  <2>1. n # Base[cur] /\ n \notin Touched
    BY <1>1, <1>2 DEF Touched
  <2>2. \A d \in Name : disk'[d][n] = disk[d][n]
    BY <1>1, <2>1 DEF TypeOK, Name
  <2>3. FopenDef(n)' = FopenDef(n)
    BY <1>1, <1>2, <2>1, <2>2, OtherVisible, FopenSame
  <2> QED
    BY <1>2, <2>1, <2>3 DEF Own, Fresh
<1> QED
  BY <1>4, <1>5, <1>6, <1>7 DEF Own

\* A line disassembled to "ret n" takes no hint.
LEMMA LineIsOwn ==
    ASSUME NEW f, NEW k, NEW e, NEW x, NEW def,
           e = Listed(f, Exports(f)[k]), e \in InList, f = gDta,
           x \in Looked(e), def \in Loaded(HintTarget(e, x))
    PROVE  LineFact(f, k, LineFor(e, x, Info(HintTarget(e, x), def)))
<1> DEFINE info == Info(HintTarget(e, x), def)
<1> DEFINE r == LineFor(e, x, info)
<1>1. e.owner = f /\ e.sym = Exports(f)[k].sym /\ e.found = Exports(f)[k].found
  BY DEF Listed
<1>2. r.owner = f /\ r.sym = Exports(f)[k].sym /\ r.kind = x.kind
  BY <1>1 DEF LineFor
<1>3. ASSUME r.kind = "imm" PROVE r.retpop = e.found.pop /\ ~r.data
  <2>1. x.kind = "imm" /\ x # NoCode
    <3>1. x.kind = "imm" /\ NoCode.kind = "skip"
      BY <1>2, <1>3 DEF NoCode
    <3> QED
      BY <3>1
  <2>2. e.kind = "code" /\ ~e.be64 /\ x \in Disassembled(e)
    <3>1. (e.kind = "code" /\ ~e.be64) \/ x \in {NoCode}
      BY Zenon DEF Looked
    <3>2. e.kind = "code" /\ ~e.be64
      BY <2>1, <3>1
    <3> QED
      BY <3>2, Zenon DEF Looked
  <2>3. x = e.found
    BY <1>1, <2>2 DEF Disassembled
  <2>4. RetpopOf(x) = x.pop /\ x.pop # NoPop
    BY <2>1, LookedType, WordIsBig DEF RetpopOf
  <2>5. HintTarget(e, x) = Null
    BY <2>2, <2>4 DEF HintTarget
  <2>6. info = NotFound /\ ~info.found
    BY <2>5 DEF Loaded, Info, NotFound
  <2> HIDE DEF info
  <2>7. r.retpop = RetpopOf(x)
    BY <2>2, <2>6, Zenon DEF LineFor
  <2>8. r.data <=> (e.kind = "data" \/ x.kind = "ill")
    BY <2>6, Zenon DEF LineFor
  <2> QED
    BY <2>1, <2>2, <2>3, <2>4, <2>7, <2>8
<1> QED
  BY <1>1, <1>2, <1>3 DEF LineFact

LEMMA DumpLineOwn == Base0 /\ OwnInv /\ DumpLine => OwnInv'
<1> SUFFICES ASSUME Base0, OwnInv, DumpLine, ~failed PROVE Own'
  BY DEF OwnInv, DumpLine
<1> USE DEF Base0
<1>1. /\ phase = "lines" /\ phase' = "lines" /\ gExp # <<>> /\ gExp' = Tail(gExp)
      /\ UNCHANGED <<image, thePathDefs, chain, opt, disk, dumps>>
  BY DEF DumpLine, optvars
<1>2. PICK x \in Looked(Head(gExp)) : \E def \in Loaded(HintTarget(Head(gExp), x)) :
         /\ written' = Append(written, LineFor(Head(gExp), x,
                                     Info(HintTarget(Head(gExp), x), def)))
         /\ theImpDef' = Cache(HintTarget(Head(gExp), x), def)
  BY DEF DumpLine
<1> DEFINE target == HintTarget(Head(gExp), x)
<1>3. PICK def \in Loaded(target) :
         /\ written' = Append(written, LineFor(Head(gExp), x, Info(target, def)))
         /\ theImpDef' = Cache(target, def)
  BY <1>2
<1>4. opt <= Len(chain) /\ Own /\ cur' = cur /\ gDta = cur
  BY <1>1 DEF InFile, Working, OwnInv, cur
<1>5. LinesAreOwn /\ gExp \in Seq(InList) /\ written \in Seq(Rec) /\ Len(gExp) \in Nat \ {0}
      /\ Len(written) \in Nat
  BY <1>1, <1>4 DEF Own, TypeOK
<1> DEFINE m == Len(written) + 1
<1>6. Head(gExp) = Listed(cur, Exports(cur)[m]) /\ Head(gExp) \in InList
  <2>1. Head(gExp) = gExp[1] /\ gExp[1] \in InList /\ 1 \in 1..Len(gExp)
    BY <1>5
  <2> QED
    BY <1>1, <1>5, <2>1 DEF LinesAreOwn
<1>7. LineFact(cur, m, LineFor(Head(gExp), x, Info(target, def)))
  BY <1>4, <1>6, LineIsOwn
<1> HIDE DEF target
<1>8. LinesAreOwn'
  <2>1. HasExports(cur)' /\ Exports(cur)' = Exports(cur)
    BY <1>1, <1>4, <1>5 DEF LinesAreOwn, HasExports, Exports
  <2>2. Len(written') = m /\ Len(gExp') = Len(gExp) - 1
    BY <1>1, <1>3, <1>5
  <2>3. Len(written') + Len(gExp') = Len(Exports(cur))'
    BY <1>1, <1>5, <2>1, <2>2 DEF LinesAreOwn
  <2>4. ASSUME NEW k \in 1..Len(written') PROVE LineFact(cur, k, written'[k])
    <3>1. CASE k = m
      <4>1. written'[k] = LineFor(Head(gExp), x, Info(target, def))
        BY <1>3, <1>5, <3>1
      <4> QED
        BY <1>7, <3>1, <4>1
    <3>2. CASE k # m
      <4>1. k \in 1..Len(written) /\ written'[k] = written[k]
        BY <1>3, <1>5, <2>2, <3>2
      <4> QED
        BY <1>1, <1>5, <4>1 DEF LinesAreOwn
    <3> QED
      BY <3>1, <3>2
  <2>5. ASSUME NEW k \in 1..Len(gExp')
        PROVE  gExp'[k] = Listed(cur, Exports(cur)[Len(written') + k])
    <3>1. k + 1 \in 1..Len(gExp) /\ gExp'[k] = gExp[k + 1]
      BY <1>1, <1>5, <2>2
    <3>2. gExp[k + 1] = Listed(cur, Exports(cur)[Len(written) + (k + 1)])
      BY <1>1, <1>5, <3>1 DEF LinesAreOwn
    <3>3. Len(written) + (k + 1) = Len(written') + k
      BY <1>5, <2>2
    <3> QED
      BY <3>1, <3>2, <3>3
  <2>6. \A k \in 1..Len(written') : LineFact(cur, k, written[k])'
    BY <1>1, <1>4, <2>4 DEF LineFact, Exports
  <2>7. \A k \in 1..Len(gExp') : gExp'[k] = Listed(cur, Exports(cur)[Len(written) + k])'
    BY <1>1, <1>4, <2>5 DEF Listed, Exports
  <2> QED
    BY <2>1, <2>3, <2>6, <2>7 DEF LinesAreOwn
<1>9. ListIsOwn' /\ DumpsAreOwn' /\ Once'
  BY <1>1, <1>4, DumpsKept, OnceKept DEF Own, ListIsOwn
<1>10. Fresh'
  <2> SUFFICES ASSUME NEW n \in Names, n \notin Touched', theImpDef'[n] # Null
               PROVE  theImpDef'[n] \in FopenDef(n)'
    BY DEF Fresh
  <2>1. n # Base[cur] /\ n \notin Touched
    BY <1>1, <1>4 DEF Touched, cur
  <2>2. FopenDef(n)' = FopenDef(n)
    BY <1>1, <1>4, <2>1, OtherVisible, FopenSame
  <2>3. theImpDef[n] # Null => theImpDef[n] \in FopenDef(n)
    BY <1>4, <2>1 DEF Own, Fresh
  <2>4. theImpDef'[n] = theImpDef[n] \/ theImpDef'[n] \in LoadDef(n)
    <3>1. CASE def = Null
      BY <1>3, <3>1 DEF Cache
    <3>2. CASE def # Null
      <4>1. theImpDef' = [theImpDef EXCEPT ![target.dll] = def]
        BY <1>3, <3>2 DEF Cache
      <4>2. def \in LoadDef(target.dll)
        BY <1>3, <3>2 DEF Loaded
      <4> QED
        BY <4>1, <4>2 DEF TypeOK
    <3> QED
      BY <3>1, <3>2
  <2> QED
    BY <2>2, <2>3, <2>4 DEF LoadDef
<1> QED
  BY <1>8, <1>9, <1>10 DEF Own

LEMMA DumpClosesOwn == Base0 /\ OwnInv /\ DumpCloses => OwnInv'
<1> SUFFICES ASSUME Base0, OwnInv, DumpCloses, ~failed PROVE Own'
  BY DEF OwnInv, DumpCloses
<1> USE DEF Base0
<1> DEFINE d == [pos |-> opt, lines |-> written]
<1>1. /\ phase = "lines" /\ phase' = "clean" /\ gExp = <<>> /\ tailNull' = TRUE
      /\ dumps' = Append(dumps, d)
      /\ UNCHANGED <<image, thePathDefs, chain, opt, gExp, theImpDef>>
      /\ disk' = IF std_output THEN disk
                 ELSE [disk EXCEPT ![Cwd][Base[cur]] = TextOf(written)]
  BY DEF DumpCloses, optvars
<1>2. /\ opt \in 1..Len(chain) /\ Own /\ cur' = cur /\ cur = chain[opt]
      /\ LinesAreOwn
  BY <1>1, CurFile DEF InFile, Working, OwnInv, Own, cur
<1>3. /\ dumps \in Seq([pos : Nat, lines : Seq(Rec)]) /\ Len(dumps) \in Nat
      /\ Len(dumps') = Len(dumps) + 1
      /\ dumps'[Len(dumps) + 1] = d
      /\ \A i \in 1..Len(dumps) : dumps'[i] = dumps[i]
  BY <1>1 DEF TypeOK
<1>4. ListIsOwn' /\ LinesAreOwn'
  BY <1>1 DEF ListIsOwn, LinesAreOwn, Empty
<1>5. DumpFact(d)
  <2>1. Len(written) = Len(Exports(cur))
    <3>1. Len(written) \in Nat /\ Len(gExp) = 0
      BY <1>1 DEF TypeOK
    <3> QED
      BY <1>1, <1>2, <3>1 DEF LinesAreOwn
  <2> QED
    BY <1>1, <1>2, <2>1 DEF DumpFact, LinesAreOwn
<1>6. DumpsAreOwn'
  <2>1. ASSUME NEW i \in 1..Len(dumps') PROVE DumpFact(dumps'[i])
    <3>1. CASE i = Len(dumps) + 1
      BY <1>3, <1>5, <3>1
    <3>2. CASE i # Len(dumps) + 1
      <4>1. i \in 1..Len(dumps) /\ dumps'[i] = dumps[i]
        BY <1>3, <3>2
      <4> QED
        BY <1>2, <4>1 DEF Own, DumpsAreOwn
    <3> QED
      BY <3>1, <3>2
  <2>2. ASSUME NEW i \in 1..Len(dumps') PROVE DumpFact(dumps[i])'
    <3>1. DumpFact(dumps'[i])
      BY <2>1
    <3> QED
      BY <1>1, <3>1 DEF DumpFact, LineFact, Exports
  <2> QED
    BY <2>2 DEF DumpsAreOwn
<1>7. Once'
  <2> SUFFICES ASSUME NEW pos \in 1..Len(chain)
               PROVE  IF Done(pos)'
                      THEN Cardinality(DumpsOf(pos)')
                              = (IF HasExports(chain[pos]) THEN 1 ELSE 0)
                      ELSE DumpsOf(pos)' = {}
    BY <1>1 DEF Once, HasExports
  <2>1. CASE pos = opt
    <3>1. ~Done(pos) /\ Done(pos)'
      BY <1>1, <1>2, <2>1 DEF Done
    <3>2. DumpsOf(pos) = {}
      BY <1>2, <3>1 DEF Own, Once
    <3>3. DumpsOf(pos)' = {Len(dumps) + 1}
      <4>1. dumps'[Len(dumps) + 1].pos = pos
        BY <1>3, <2>1
      <4>2. \A i \in 1..Len(dumps) : dumps'[i].pos # pos
        BY <1>3, <3>2 DEF DumpsOf
      <4>3. \A i \in 1..Len(dumps') : i \in 1..Len(dumps) \/ i = Len(dumps) + 1
        BY <1>3
      <4>4. Len(dumps) + 1 \in 1..Len(dumps')
        BY <1>3
      <4> QED
        BY <4>1, <4>2, <4>3, <4>4, Zenon DEF DumpsOf
    <3>4. HasExports(chain[pos])
      BY <1>1, <1>2, <2>1 DEF LinesAreOwn
    <3>5. Cardinality({Len(dumps) + 1}) = 1
      BY FS_Singleton
    <3> QED
      BY <3>1, <3>3, <3>4, <3>5
  <2>2. CASE pos # opt
    <3>1. Done(pos)' <=> Done(pos)
      BY <1>1, <1>2, <2>2 DEF Done
    <3>2. DumpsOf(pos)' = DumpsOf(pos)
      BY <1>3, <2>2, SMTT(30) DEF DumpsOf
    <3> QED
      BY <1>2, <3>1, <3>2 DEF Own, Once
  <2> QED
    BY <2>1, <2>2
<1>8. Fresh'
  <2> SUFFICES ASSUME NEW n \in Names, n \notin Touched', theImpDef[n] # Null
               PROVE  theImpDef[n] \in FopenDef(n)'
    BY <1>1 DEF Fresh
  <2>1. n # Base[cur]
    <3>1. Base[chain[dumps'[Len(dumps) + 1].pos]] \in Touched'
      BY <1>1, <1>3, SMTT(30) DEF Touched
    <3> QED
      BY <1>2, <1>3, <3>1
  <2>2. n \notin Touched
    <3> SUFFICES ASSUME NEW i \in 1..Len(dumps), n = Base[chain[dumps[i].pos]]
                 PROVE  FALSE
      BY <1>1, <2>1 DEF Touched
    <3>1. i \in 1..Len(dumps') /\ dumps'[i] = dumps[i]
      BY <1>3
    <3>2. Base[chain[dumps'[i].pos]] \in Touched'
      BY <1>1, <3>1 DEF Touched
    <3> QED
      BY <3>1, <3>2
  <2>3. \A dir \in Name : disk'[dir][n] = disk[dir][n]
    BY <1>1, <2>1 DEF TypeOK, Name
  <2>4. FopenDef(n)' = FopenDef(n)
    BY <1>1, <1>2, <2>1, <2>3, OtherVisible, FopenSame
  <2> QED
    BY <1>2, <2>2, <2>4 DEF Own, Fresh
<1> QED
  BY <1>4, <1>6, <1>7, <1>8 DEF Own

LEMMA CleanOwn == Base0 /\ OwnInv /\ Clean => OwnInv'
<1> SUFFICES ASSUME Base0, OwnInv, Clean, ~failed PROVE Own'
  BY DEF OwnInv, Clean
<1> USE DEF Base0
<1>1. /\ phase = "clean"
      /\ UNCHANGED <<image, thePathDefs, chain, gExp, tailNull, theImpDef, disk, dumps>>
  BY DEF Clean, optvars, expvars
<1>2. PICK next \in FreedNext :
         /\ phase' = CASE next = "wild" -> "crash"
                       [] next = "null" \/ opt = Len(chain) -> "end"
                       [] OTHER -> "load"
         /\ opt' = IF next = "kept" /\ opt < Len(chain) THEN opt + 1 ELSE opt
  BY DEF Clean
<1>3. opt \in 1..Len(chain) /\ next \in {"kept", "null", "wild"} /\ Own /\ Len(chain) \in Nat
  BY <1>1, CurFile, FreedNextAssumption DEF InFile, Working, OwnInv, TypeOK
<1>4. \/ phase' = "load" /\ opt < Len(chain) /\ opt' = opt + 1
      \/ phase' \in {"end", "crash"} /\ opt' = opt
  BY <1>2, <1>3
<1>5. ListIsOwn' /\ LinesAreOwn'
  BY <1>1, <1>3, <1>4 DEF Own, ListIsOwn, LinesAreOwn, Empty
<1>6. DumpsAreOwn' /\ Fresh'
  BY <1>1, <1>3, <1>4, DumpsKept, FreshKept DEF Own
<1>7. ASSUME NEW pos \in 1..Len(chain) PROVE Done(pos)' <=> Done(pos)
  BY <1>1, <1>3, <1>4 DEF Done
<1>8. Once'
  BY <1>1, <1>3, <1>7 DEF Own, Once, DumpsOf, HasExports
<1> QED
  BY <1>5, <1>6, <1>8 DEF Own

LEMMA StepOwn == Base0 /\ OwnInv /\ [Next]_vars => OwnInv'
<1> SUFFICES ASSUME Base0, OwnInv, [Next]_vars PROVE OwnInv'
  OBVIOUS
<1>1. CASE UNCHANGED vars
  <2>1. UNCHANGED <<image, phase, std_output, thePathDefs, chain, opt, gDta, fndllname,
                   gExp, tailNull, theImpDef, disk, written, dumps, failed>>
    BY <1>1 DEF vars, optvars, expvars
  <2>2. ListIsOwn => ListIsOwn'
    BY <2>1 DEF ListIsOwn, Empty, HasExports, Exports, Listed, cur
  <2>3. LinesAreOwn => LinesAreOwn'
    BY <2>1 DEF LinesAreOwn, LineFact, HasExports, Exports, Listed, cur
  <2>4. DumpsAreOwn => DumpsAreOwn'
    BY <2>1, DumpsKept
  <2>5. Once => Once'
    BY <2>1 DEF Once, Done, DumpsOf, HasExports
  <2>6. Fresh => Fresh'
    <3>1. \A d, n : Visible(d, n)' = Visible(d, n)
      BY <2>1 DEF Visible, Writing, HalfWritten, Output
    <3>2. \A n : FopenDef(n)' = FopenDef(n)
      BY <2>1, <3>1, FopenSame DEF Base0
    <3> QED
      BY <2>1, <3>2 DEF Fresh, Touched, cur
  <2> QED
    BY <2>1, <2>2, <2>3, <2>4, <2>5, <2>6 DEF OwnInv, Own
<1>2. CASE Next
  BY <1>2, ParseArgOwn, ArgsDoneOwn, LoadPepOwn, ReadImageOwn, DumpNothingOwn,
     DumpFailsOwn, DumpOpensOwn, DumpLineOwn, DumpClosesOwn, CleanOwn DEF Next
<1> QED
  BY <1>1, <1>2

LEMMA InitOwn == Init => OwnInv
<1> SUFFICES ASSUME Init PROVE Own
  BY DEF OwnInv
<1>1. Untouched
  BY InitBase DEF Init, Untouched, Base0, Empty
<1> QED
  BY <1>1, UntouchedOwn

\* The whole invariant holds in every state.
THEOREM Invariant == Spec => []IInv
<1>1. Init => IInv
  BY InitBase, InitOwn DEF IInv, Base0
<1>2. IInv /\ [Next]_vars => IInv'
  BY StepBase, StepOwn DEF IInv, Base0
<1> QED
  BY <1>1, <1>2, PTL DEF Spec

(***************************************************************************)
(* The properties.                                                         *)
(***************************************************************************)

\* Each .def lists the exports of its own DLL, once and in order
\* (add_export_list, dump_def).
THEOREM ExportsAreOwn == Spec => []OwnExports
<1>1. IInv => OwnExports
  <2> SUFFICES ASSUME TypeOK, DumpsAreOwn, NEW i \in 1..Len(dumps)
               PROVE  LET f == chain[dumps[i].pos] IN
                      /\ \A k \in 1..Len(dumps[i].lines) : dumps[i].lines[k].owner = f
                      /\ [k \in 1..Len(dumps[i].lines) |-> dumps[i].lines[k].sym]
                            = [k \in 1..Len(image[f].exports) |-> image[f].exports[k].sym]
    BY DEF IInv, OwnInv, Own, OwnExports
  <2>1. DumpFact(dumps[i])
    BY DEF DumpsAreOwn
  <2> QED
    BY <2>1 DEF DumpFact, LineFact, Exports
<1> QED
  BY <1>1, Invariant, PTL

\* Every input file that has exports is dumped once, and no other (the loop of
\* main).
THEOREM DumpedOnce == Spec => []EachDumpedOnce
<1>1. IInv => EachDumpedOnce
  <2> SUFFICES ASSUME TypeOK, Once, NEW pos \in 1..Len(chain)
               PROVE  /\ pos < opt \/ (pos = opt /\ phase \in {"clean", "end", "crash"}) =>
                            Cardinality(DumpsOf(pos))
                               = (IF HasExports(chain[pos]) THEN 1 ELSE 0)
                      /\ pos > opt => DumpsOf(pos) = {}
    BY DEF IInv, OwnInv, Own, EachDumpedOnce
  <2>1. opt \in Nat /\ pos \in Nat
    BY DEF TypeOK
  <2>2. pos > opt => ~Done(pos)
    BY <2>1 DEF Done
  <2> QED
    BY <2>2 DEF Once, Done
<1> QED
  BY <1>1, Invariant, PTL

\* A cached hint file is stale only if this run rewrote it (gendef_loaddef).
THEOREM StaleOnlyRewritten == Spec => []StaleOnlyIfRewritten
<1>1. IInv => StaleOnlyIfRewritten
  <2>1. Touched \subseteq Rewritten
    BY DEF Touched, Rewritten
  <2> QED
    BY <2>1 DEF IInv, OwnInv, Own, Fresh, StaleOnlyIfRewritten
<1> QED
  BY <1>1, Invariant, PTL

\* A hint never overrides a byte count found in the code (the order of the
\* tests in dump_def).
THEOREM CodeWins == Spec => []CodeBeatsHint
<1>1. IInv => CodeBeatsHint
  <2> SUFFICES ASSUME IInv, ~failed, NEW i \in 1..Len(dumps),
                      NEW k \in 1..Len(dumps[i].lines), dumps[i].lines[k].kind = "imm"
               PROVE  LET r == dumps[i].lines[k] IN
                      \E e \in {image[r.owner].exports[m] :
                                   m \in 1..Len(image[r.owner].exports)} :
                         e.sym = r.sym /\ r.retpop = e.found.pop /\ ~r.data
    BY DEF CodeBeatsHint
  <2>1. DumpFact(dumps[i])
    BY DEF IInv, OwnInv, Own, DumpsAreOwn
  <2>2. /\ dumps[i].lines[k].owner = chain[dumps[i].pos]
        /\ k \in 1..Len(Exports(chain[dumps[i].pos]))
        /\ LineFact(chain[dumps[i].pos], k, dumps[i].lines[k])
    BY <2>1 DEF DumpFact, LineFact
  <2> QED
    BY <2>2 DEF LineFact, Exports
<1> QED
  BY <1>1, Invariant, PTL

\* A printed name begins with the symbol; the byte count is the piece behind it.
LEMMA NameOfLine ==
    ASSUME NEW r \in Rec
    PROVE  /\ IsPrefix(r.sym, LineOf(r).name)
           /\ LineOf(r).name \in Seq(Piece) /\ r.sym \in Seq(Piece)
           /\ InName(r) => /\ Len(LineOf(r).name) = Len(r.sym) + 1
                           /\ LineOf(r).name[Len(r.sym) + 1] = Printed(r.retpop)
           /\ ~InName(r) => Len(LineOf(r).name) = Len(r.sym)
<1>1. r.sym \in Seq(Piece)
  <2>1. r.sym \in Syms
    BY DEF Rec
  <2> QED
    BY <2>1, SymsAssumption
<1>2. Printed(r.retpop) \in Piece
  <2>1. r.retpop \in Nat
    BY WordIsBig DEF Rec
  <2> QED
    BY <2>1, PrintedType
<1>3. LineOf(r).name = IF InName(r) THEN Append(r.sym, Printed(r.retpop)) ELSE r.sym
  BY DEF LineOf
<1> QED
  BY <1>1, <1>2, <1>3 DEF IsPrefix

\* The symbol is found in the line that was printed for it.
LEMMA LineIsFound ==
    ASSUME NEW recs \in Seq(Rec), NEW k \in 1..Len(recs),
           \A j \in 1..(k - 1) : ~IsPrefix(recs[k].sym, LineOf(recs[j]).name)
    PROVE  GetSymbolInfo(TextOf(recs), recs[k].sym)
              = [found |-> TRUE, isData |-> ReadData(TextOf(recs), k + 1, recs[k].sym),
                 at |-> ReadAt(TextOf(recs), k + 1, recs[k].sym)]
<1> DEFINE x == TextOf(recs)
<1> DEFINE r == recs[k]
<1> DEFINE S == Candidates(x, r.sym)
<1>1. /\ x.nl /\ Len(x.lines) = Len(recs) + 1 /\ Len(recs) \in Nat
      /\ \A i \in 1..Len(recs) : x.lines[i + 1] = LineOf(recs[i])
  BY TextOfType
<1>2. r \in Rec /\ IsPrefix(r.sym, LineOf(r).name)
  BY NameOfLine
<1> HIDE DEF x
<1>3. k + 1 \in S
  <2>1. k + 1 \in 2..Len(x.lines) /\ k + 1 \in 1..Len(x.lines)
    BY <1>1
  <2>2. x.lines[k + 1] = LineOf(r)
    BY <1>1
  <2> HIDE DEF r
  <2> QED
    BY <1>1, <1>2, <2>1, <2>2 DEF Candidates, Matches, AtNul
<1>4. ASSUME NEW j \in S PROVE k + 1 <= j
  <2>1. j \in 2..Len(x.lines) /\ IsPrefix(r.sym, x.lines[j].name)
    BY DEF Candidates, Matches
  <2> SUFFICES ASSUME j < k + 1 PROVE FALSE
    BY <1>1, <2>1
  <2>2. j - 1 \in 1..(k - 1) /\ j - 1 \in 1..Len(recs) /\ (j - 1) + 1 = j
    BY <1>1, <2>1
  <2>3. x.lines[j] = LineOf(recs[j - 1])
    BY <1>1, <2>2
  <2> QED
    BY <2>1, <2>2, <2>3
<1> HIDE DEF r
<1> DEFINE i == CHOOSE i \in S : \A j \in S : i <= j
<1>5. S \subseteq Nat
  BY <1>1 DEF Candidates
<1>6. GetSymbolInfo(x, r.sym) = [found |-> TRUE, isData |-> ReadData(x, i, r.sym),
                                 at |-> ReadAt(x, i, r.sym)]
  BY <1>3 DEF GetSymbolInfo
<1>7. i = k + 1
  <2>1. i \in S /\ \A j \in S : i <= j
    <3> HIDE DEF S
    <3> QED
      BY <1>3, <1>5, FirstCandidate
  <2> HIDE DEF i, S
  <2>2. i <= k + 1 /\ k + 1 <= i /\ i \in Nat
    BY <1>3, <1>4, <1>5, <2>1
  <2> QED
    BY <2>2
<1> HIDE DEF i
<1>8. GetSymbolInfo(x, r.sym) = [found |-> TRUE, isData |-> ReadData(x, k + 1, r.sym),
                                 at |-> ReadAt(x, k + 1, r.sym)]
  BY <1>6, <1>7
<1> QED
  BY <1>8 DEF x, r

\* What dump_def printed is what gendef_getsymbol_info reads.
LEMMA LineReadsBack ==
    ASSUME Crlf, NEW recs \in Seq(Rec), NEW k \in 1..Len(recs),
           \A j \in 1..(k - 1) : ~IsPrefix(recs[k].sym, LineOf(recs[j]).name)
    PROVE  ReadBack(TextOf(recs), recs[k])
<1> DEFINE x == TextOf(recs)
<1> DEFINE r == recs[k]
<1> DEFINE p == Len(r.sym) + 1
<1>1. Len(x.lines) = Len(recs) + 1 /\ Len(recs) \in Nat /\ x.lines[k + 1] = LineOf(r)
  BY TextOfType
<1>2. r \in Rec /\ r.retpop \in 0..(Word - 1)
  <2>1. r \in Rec
    OBVIOUS
  <2> HIDE DEF r
  <2> QED
    BY <2>1 DEF Rec
<1>3. GetSymbolInfo(x, r.sym) = [found |-> TRUE, isData |-> ReadData(x, k + 1, r.sym),
                                 at |-> ReadAt(x, k + 1, r.sym)]
  BY LineIsFound
<1> HIDE DEF x, r
<1>4. /\ LineOf(r).term = "ws" /\ LineOf(r).digits = << >>
      /\ LineOf(r).data = (r.data \/ SaysData(r))
  BY DEF LineOf
<1>5. p \in Nat /\ k + 1 <= Len(x.lines)
  <2>1. r.sym \in Seq(Piece)
    BY <1>2, NameOfLine
  <2> QED
    BY <1>1, <2>1
<1>6. Behind(x, k + 1, r.sym) = [line |-> k + 1, piece |-> p]
  BY <1>1, <1>4 DEF Behind
<1>7. ReadAt(x, k + 1, r.sym) = IF InName(r) THEN r.retpop ELSE 0
  <2>1. ReadAt(x, k + 1, r.sym) = GetUint32(DigitsAt(x, k + 1, p))
    BY <1>6 DEF ReadAt
  <2>2. CASE InName(r)
    <3>1. DigitsAt(x, k + 1, p) = Printed(r.retpop).digits
      BY <1>1, <1>2, <1>5, <2>2, NameOfLine DEF DigitsAt
    <3>2. Printed(r.retpop).digits = PrintUint32(r.retpop)
      BY DEF Printed
    <3> QED
      BY <1>2, <2>1, <2>2, <3>1, <3>2, NumberReadsBack
  <2>3. CASE ~InName(r)
    <3>1. DigitsAt(x, k + 1, p) = << >>
      BY <1>1, <1>2, <1>4, <1>5, <2>3, NameOfLine DEF DigitsAt
    <3> QED
      BY <2>1, <2>3, <3>1, ReadEmpty
  <2> QED
    BY <2>2, <2>3
<1>8. ReadData(x, k + 1, r.sym) <=> (r.data \/ SaysData(r))
  <2>1. ReadData(x, k + 1, r.sym) <=> DataFrom(x, k + 1, p)
    BY <1>6 DEF ReadData
  <2>2. ASSUME NEW q \in p..Len(LineOf(r).name)
        PROVE  LineOf(r).name[q].tail \notin DataTails
    <3>1. InName(r) /\ q = p
      BY <1>2, <1>5, NameOfLine
    <3>2. LineOf(r).name[q] = Printed(r.retpop)
      BY <1>2, <3>1, NameOfLine
    <3> QED
      BY <3>2, TailsAssumption DEF Printed
  <2>3. DataFrom(x, k + 1, p) <=> LineOf(r).data
    BY <1>1, <1>5, <2>2 DEF DataFrom
  <2> QED
    BY <1>4, <2>1, <2>3
<1>9. ReadBack(x, r)
  <2>1. r.data \in BOOLEAN /\ SaysData(r) \in BOOLEAN
    <3>1. r.data \in BOOLEAN
      BY <1>2 DEF Rec
    <3>2. (r.data \/ SaysData(r)) \in BOOLEAN
      OBVIOUS
    <3> QED
      BY <3>1, Zenon DEF SaysData
  <2>2. ReadData(x, k + 1, r.sym) \in BOOLEAN
    <3>1. TextOf(recs) \in Text /\ r.sym \in Syms
      BY <1>2, TextOfType DEF Rec
    <3> QED
      BY <1>1, <1>5, <3>1, ReadAtType DEF x
  <2> DEFINE d == ReadData(x, k + 1, r.sym)
  <2>3. d = (r.data \/ SaysData(r))
    BY <1>8, <2>1, <2>2
  <2> HIDE DEF d
  <2>4. GetSymbolInfo(x, r.sym) = [found |-> TRUE, isData |-> d,
                                   at |-> IF InName(r) THEN r.retpop ELSE 0]
    BY <1>3, <1>7 DEF d
  <2> QED
    BY <2>3, <2>4 DEF ReadBack
<1> QED
  BY <1>9 DEF x, r

LEMMA DumpType ==
    ASSUME TypeOK, NEW i \in 1..Len(dumps)
    PROVE  dumps[i].lines \in Seq(Rec)
<1> DEFINE Dump == [pos : Nat, lines : Seq(Rec)]
<1>1. dumps \in Seq(Dump)
  BY DEF TypeOK
<1>2. \A d \in Dump : d.lines \in Seq(Rec)
  OBVIOUS
<1> HIDE DEF Dump
<1>3. dumps[i] \in Dump
  BY <1>1
<1> QED
  BY <1>2, <1>3

\* What a finished .def says of a symbol is what dump_def knew of it, but for the
\* byte count of a C++ name and for DATA in other words of the line (dump_def and
\* gendef_getsymbol_info).
THEOREM ReadsBack == Spec => []WrittenReadsBack
<1>1. IInv => WrittenReadsBack
  <2> SUFFICES ASSUME TypeOK, Crlf, NEW i \in 1..Len(dumps),
                      NEW k \in 1..Len(dumps[i].lines),
                      \A j \in 1..(k - 1) :
                          ~IsPrefix(dumps[i].lines[k].sym, LineOf(dumps[i].lines[j]).name)
               PROVE  ReadBack(TextOf(dumps[i].lines), dumps[i].lines[k])
    BY DEF IInv, WrittenReadsBack
  <2>1. dumps[i].lines \in Seq(Rec)
    BY DumpType
  <2> QED
    BY <2>1, LineReadsBack
<1> QED
  BY <1>1, Invariant, PTL

(***************************************************************************)
(* The scan of a hint file, for every set of texts and symbols and every   *)
(* width of the number: it stays inside the text and answers what one look *)
(* at the lines does.                                                      *)
(***************************************************************************)

Lines == 1..Len(text.lines)
FoundAt == Candidates(text, symbol)

\* the line the lookup takes
IsHint(i) == i \in FoundAt /\ \A j \in FoundAt : i <= j

(***************************************************************************)
(* The inductive invariant: while the scan goes on, all candidates are     *)
(* still ahead of the pointer; then the pointer is at, or just behind, the *)
(* first of them.                                                          *)
(***************************************************************************)
NoneBehind ==
    stage = "scan" => IF t = 0 THEN FoundAt = {} ELSE \A j \in FoundAt : t < j

AtHint == stage = "number" => IsHint(t)

BehindHint(i) ==
    /\ IsHint(i)
    /\ at = ReadAt(text, i, symbol)
    /\ t = Behind(text, i, symbol).line /\ piece = Behind(text, i, symbol).piece

NumberRead == stage = "data" => \E i \in Lines : BehindHint(i)

Answered ==
    stage = "done" =>
        IF ret
        THEN \E i \in Lines : IsHint(i) /\ at = ReadAt(text, i, symbol)
                                        /\ isData = ReadData(text, i, symbol)
        ELSE FoundAt = {} /\ at = 0 /\ ~isData

Pending == stage \in {"scan", "number"} => at = 0 /\ ~isData /\ ~ret /\ piece = 1

ScanIInv == InsideText /\ NoneBehind /\ AtHint /\ NumberRead /\ Answered /\ Pending

\* what is known of a candidate
LEMMA CandidateLine ==
    ASSUME ScanTypeOK, NEW i \in FoundAt
    PROVE  /\ i \in Lines /\ i >= 2
           /\ text.lines[i] \in Line /\ IsPrefix(symbol, text.lines[i].name)
           /\ text.lines[i].term = "lf" /\ Len(symbol) = Len(text.lines[i].name) =>
                 i < Len(text.lines) \/ text.nl
<1>1. Len(text.lines) \in Nat /\ text.lines \in Seq(Line)
  BY DEF ScanTypeOK, Text
<1>2. i \in 2..Len(text.lines) /\ Matches(text, i, symbol)
  BY DEF FoundAt, Candidates
<1>3. i \in Lines /\ i >= 2
  BY <1>1, <1>2 DEF Lines
<1>4. text.lines[i] \in Line
  BY <1>1, <1>3 DEF Lines
<1> QED
  BY <1>1, <1>2, <1>3, <1>4 DEF Matches, AtNul, ScanTypeOK, Text, Lines

LEMMA ScanInitIInv == ScanInit => ScanIInv
<1> SUFFICES ASSUME ScanInit PROVE ScanIInv
  OBVIOUS
<1>1. text \in Text /\ Len(text.lines) \in Nat /\ text.lines \in Seq(Line)
  BY TextsAssumption DEF ScanInit, Text
<1>2. ScanTypeOK
  <2>1. piece \in Nat /\ isData \in BOOLEAN /\ ret \in BOOLEAN
    BY DEF ScanInit
  <2>2. symbol \in Syms /\ stage = "scan" /\ t = 1
    BY DEF ScanInit
  <2> QED
    BY <1>1, <2>1, <2>2 DEF ScanTypeOK
<1>3. InsideText
  <2>1. Len(text.lines) = 0 => text.lines = <<>>
    BY <1>1
  <2> QED
    BY <1>1, <1>2, <2>1 DEF ScanInit, InsideText
<1>4. \A j \in FoundAt : t < j
  <2>1. t = 1
    BY DEF ScanInit
  <2> QED
    BY <1>1, <1>2, <2>1, CandidateLine DEF Lines
<1> QED
  BY <1>3, <1>4 DEF ScanInit, ScanIInv, NoneBehind, AtHint, NumberRead, Answered, Pending

\* the inputs are constant, and with them what a lookup finds
LEMMA SameInputs ==
    ASSUME UNCHANGED <<text, symbol>>
    PROVE  /\ FoundAt' = FoundAt /\ Lines' = Lines
           /\ \A i : IsHint(i)' <=> IsHint(i)
           /\ \A i : ReadAt(text, i, symbol)' = ReadAt(text, i, symbol)
           /\ \A i : ReadData(text, i, symbol)' = ReadData(text, i, symbol)
           /\ \A i : Behind(text, i, symbol)' = Behind(text, i, symbol)
BY DEF FoundAt, Lines, IsHint, Candidates, Matches, AtNul, ReadAt, ReadData, Behind,
       DigitsAt, DataFrom

LEMMA NextLineStep == ScanIInv /\ NextLine => ScanIInv'
<1> SUFFICES ASSUME ScanIInv, NextLine PROVE ScanIInv'
  OBVIOUS
<1>1. /\ ScanTypeOK /\ text \in Text /\ Len(text.lines) \in Nat
      /\ t \in 1..Len(text.lines) /\ stage = "scan"
      /\ UNCHANGED <<text, symbol, piece, at, isData, ret>>
  BY DEF ScanIInv, InsideText, ScanTypeOK, NextLine, AtEnd, Text
<1>2. stage' \in {"scan", "number"}
  BY DEF NextLine
<1>3. CASE HasNext(text, t)
  <2>1. t' = t + 1 /\ t' # 0
    BY <1>1, <1>3 DEF NextLine
  <2>2. stage' = "number" <=> Matches(text, t', symbol)
    BY <2>1 DEF NextLine
  <2>3. ScanTypeOK'
    BY <1>1, <1>2, <2>1 DEF ScanTypeOK
  <2>4. InsideText'
    BY <1>1, <1>3, <2>1, <2>3 DEF InsideText, HasNext
  <2>5. \A j \in FoundAt : t' <= j
    BY <1>1, <2>1, CandidateLine DEF ScanIInv, NoneBehind, Lines
  <2>6. stage' = "number" <=> t' \in FoundAt
    BY <1>1, <2>1, <2>2 DEF FoundAt, Candidates, Matches
  <2>7. CASE stage' = "number"
    <3>1. IsHint(t')
      BY <2>5, <2>6, <2>7 DEF IsHint
    <3> QED
      BY <1>1, <2>4, <2>7, <3>1, SameInputs
      DEF ScanIInv, NoneBehind, AtHint, NumberRead, Answered, Pending
  <2>8. CASE stage' = "scan"
    <3>1. \A j \in FoundAt : t' < j
      BY <1>1, <2>1, <2>5, <2>6, <2>8, CandidateLine DEF Lines
    <3> QED
      BY <1>1, <2>1, <2>4, <2>8, <3>1, SameInputs
      DEF ScanIInv, NoneBehind, AtHint, NumberRead, Answered, Pending
  <2> QED
    BY <1>2, <2>7, <2>8
<1>4. CASE ~HasNext(text, t)
  <2>1. t' = 0 /\ stage' = "scan"
    BY <1>4 DEF NextLine
  <2>2. t = Len(text.lines)
    BY <1>1, <1>4 DEF HasNext
  <2>3. FoundAt = {}
    BY <1>1, <2>2, CandidateLine DEF ScanIInv, NoneBehind, Lines
  <2>4. InsideText'
    BY <1>1, <2>1 DEF ScanTypeOK, InsideText
  <2> QED
    BY <1>1, <2>1, <2>3, <2>4, SameInputs
    DEF ScanIInv, NoneBehind, AtHint, NumberRead, Answered, Pending
<1> QED
  BY <1>3, <1>4

LEMMA ExhaustedStep == ScanIInv /\ Exhausted => ScanIInv'
<1> SUFFICES ASSUME ScanIInv, Exhausted PROVE ScanIInv'
  OBVIOUS
<1>1. /\ ScanTypeOK /\ Len(text.lines) \in Nat /\ stage = "scan" /\ stage' = "done"
      /\ UNCHANGED <<text, symbol, t, piece, at, isData, ret>>
  BY DEF ScanIInv, InsideText, ScanTypeOK, Exhausted, Text
<1>2. InsideText'
  BY <1>1 DEF ScanIInv, InsideText, ScanTypeOK
<1>3. FoundAt = {}
  <2>1. CASE t = 0
    BY <1>1, <2>1 DEF ScanIInv, NoneBehind
  <2>2. CASE t > Len(text.lines)
    BY <1>1, <2>2, CandidateLine DEF ScanIInv, NoneBehind, Lines, ScanTypeOK
  <2> QED
    BY <2>1, <2>2 DEF Exhausted, AtEnd
<1> QED
  BY <1>1, <1>2, <1>3, SameInputs
  DEF ScanIInv, NoneBehind, AtHint, NumberRead, Answered, Pending

LEMMA ReadNumberStep == ScanIInv /\ ReadNumber => ScanIInv'
<1> SUFFICES ASSUME ScanIInv, ReadNumber PROVE ScanIInv'
  OBVIOUS
<1>1. /\ ScanTypeOK /\ Len(text.lines) \in Nat /\ stage = "number" /\ stage' = "data"
      /\ UNCHANGED <<text, symbol, isData, ret>>
  BY DEF ScanIInv, InsideText, ScanTypeOK, ReadNumber, Text
<1>2. IsHint(t) /\ t \in FoundAt
  BY <1>1 DEF ScanIInv, AtHint, IsHint
<1>3. /\ t \in Lines
      /\ text.lines[t].term = "lf" /\ Len(symbol) = Len(text.lines[t].name) =>
            t < Len(text.lines) \/ text.nl
  BY <1>1, <1>2, CandidateLine
<1>4. /\ t' = Behind(text, t, symbol).line /\ piece' = Behind(text, t, symbol).piece
      /\ at' = ReadAt(text, t, symbol)
  BY DEF ReadNumber, ReadAt
<1>5. /\ t' = t \/ (t' = t + 1 /\ (t < Len(text.lines) \/ text.nl))
      /\ piece' \in Nat
  <2>1. symbol \in Seq(Piece)
    BY <1>1, SymsAssumption DEF ScanTypeOK
  <2> QED
    BY <1>3, <1>4, <2>1 DEF Behind
<1>6. InsideText'
  BY <1>1, <1>3, <1>5 DEF ScanIInv, InsideText, ScanTypeOK, Lines
<1>7. \E i \in Lines' : BehindHint(i)'
  <2>1. PICK i \in Lines : i = t
    BY <1>3
  <2>2. /\ IsHint(i)' /\ ReadAt(text, i, symbol)' = ReadAt(text, i, symbol)
        /\ Behind(text, i, symbol)' = Behind(text, i, symbol) /\ i \in Lines'
    BY <1>1, <1>2, <2>1, SameInputs
  <2>3. BehindHint(i)'
    BY <1>4, <2>1, <2>2 DEF BehindHint
  <2> QED
    BY <2>2, <2>3
<1> QED
  BY <1>1, <1>6, <1>7
  DEF ScanIInv, NoneBehind, AtHint, NumberRead, Answered, Pending

LEMMA ScanDataStep == ScanIInv /\ ScanData => ScanIInv'
<1> SUFFICES ASSUME ScanIInv, ScanData PROVE ScanIInv'
  OBVIOUS
<1>1. /\ ScanTypeOK /\ Len(text.lines) \in Nat /\ text.lines \in Seq(Line)
      /\ stage = "data" /\ stage' = "done" /\ ret' = TRUE
      /\ UNCHANGED <<text, symbol, t, piece, at>>
  BY DEF ScanIInv, InsideText, ScanTypeOK, ScanData, Text
<1>3. PICK i \in Lines : BehindHint(i)
  BY <1>1 DEF ScanIInv, NumberRead
<1>2. InsideText'
  <2>1. text \in Text /\ symbol \in Syms /\ i \in 1..Len(text.lines)
    BY <1>1 DEF ScanTypeOK, Lines
  <2>2. t \in Nat \ {0}
    BY <1>3, <2>1, PlaceType DEF BehindHint
  <2>3. isData' \in BOOLEAN
    BY <2>1, <2>2, DataType DEF ScanData
  <2> QED
    BY <1>1, <2>3 DEF ScanIInv, InsideText, ScanTypeOK
<1>4. i >= 2 /\ i \in Lines /\ text.lines[i] \in Line
  BY <1>1, <1>3, CandidateLine DEF BehindHint, IsHint
<1>5. isData' = ReadData(text, i, symbol)
  BY <1>3 DEF BehindHint, ScanData, ReadData
<1>6. IsHint(i) /\ at = ReadAt(text, i, symbol)
  BY <1>3 DEF BehindHint
<1>7. Answered'
  BY <1>1, <1>4, <1>5, <1>6, SameInputs DEF Answered
<1> QED
  BY <1>1, <1>2, <1>7
  DEF ScanIInv, NoneBehind, AtHint, NumberRead, Pending

\* While the scan goes on, no line for the symbol has been passed over.
THEOREM ScanInvariant == ScanSpec => []ScanIInv
<1>1. ScanIInv /\ [ScanNext]_scanVars => ScanIInv'
  <2> SUFFICES ASSUME ScanIInv, [ScanNext]_scanVars PROVE ScanIInv'
    OBVIOUS
  <2>1. CASE ScanNext
    BY <2>1, NextLineStep, ExhaustedStep, ReadNumberStep, ScanDataStep DEF ScanNext
  <2>2. CASE UNCHANGED scanVars
    <3>1. UNCHANGED <<text, symbol, stage, t, piece, at, isData, ret>>
      BY <2>2 DEF scanVars
    <3>2. \A i : BehindHint(i)' <=> BehindHint(i)
      BY <3>1, SameInputs DEF BehindHint
    <3> QED
      BY <3>1, <3>2, SameInputs
      DEF ScanIInv, InsideText, ScanTypeOK, NoneBehind, AtHint, NumberRead, Answered, Pending
  <2> QED
    BY <2>1, <2>2
<1> QED
  BY ScanInitIInv, <1>1, PTL DEF ScanSpec

\* For every text, the pointer never passes the final NUL
\* (gendef_getsymbol_info).
THEOREM StaysInside == ScanSpec => []InsideText
BY ScanInvariant, PTL DEF ScanIInv

\* For every text and symbol the pointer loop answers what one look at the
\* lines says (gendef_getsymbol_info).
THEOREM ScanComputesLookup == ScanSpec => []ScanIsLookup
<1>1. ScanIInv => ScanIsLookup
  <2> SUFFICES ASSUME ScanIInv, stage = "done"
               PROVE  [found |-> ret, isData |-> isData, at |-> at]
                          = GetSymbolInfo(text, symbol)
    BY DEF ScanIsLookup
  <2>1. ret \in BOOLEAN /\ isData \in BOOLEAN /\ ScanTypeOK
    BY DEF ScanIInv, InsideText, ScanTypeOK
  <2>2. CASE ret
    <3>1. PICK i \in Lines : IsHint(i) /\ at = ReadAt(text, i, symbol)
                             /\ isData = ReadData(text, i, symbol)
      BY <2>2 DEF ScanIInv, Answered
    <3> DEFINE h == CHOOSE k \in Candidates(text, symbol) :
                        \A j \in Candidates(text, symbol) : k <= j
    <3>2. h \in Candidates(text, symbol)
          /\ \A j \in Candidates(text, symbol) : h <= j
      BY <3>1 DEF IsHint, FoundAt
    <3>3. h \in Nat /\ i \in Nat
      <4>1. h \in FoundAt /\ i \in FoundAt
        BY <3>1, <3>2 DEF IsHint, FoundAt
      <4> HIDE DEF h
      <4>2. h \in Lines /\ i \in Lines
        BY ONLY <2>1, <4>1, CandidateLine
      <4> QED
        BY <4>2 DEF Lines
    <3>4. h = i
      <4>1. h <= i /\ i <= h
        BY <3>1, <3>2 DEF IsHint, FoundAt
      <4> HIDE DEF h
      <4> QED
        BY <3>3, <4>1
    <3>5. Candidates(text, symbol) # {}
      BY <3>2
    <3>6. GetSymbolInfo(text, symbol)
            = [found |-> TRUE, isData |-> ReadData(text, h, symbol),
               at |-> ReadAt(text, h, symbol)]
      BY <3>5 DEF GetSymbolInfo
    <3> HIDE DEF h
    <3> QED
      BY <2>1, <2>2, <3>1, <3>4, <3>6
  <2>3. CASE ~ret
    BY <2>1, <2>3 DEF ScanIInv, Answered, GetSymbolInfo, NotFound, FoundAt
  <2> QED
    BY <2>1, <2>2, <2>3
<1> QED
  BY <1>1, ScanInvariant, PTL

\* For every text without bare line ends behind names, a hint is the first line
\* whose name begins with the symbol and is read from that line alone
\* (gendef_getsymbol_info).
THEOREM HintIsOwnLine == ScanSpec => []HintOfOwnLine
<1>1. ScanIInv => HintOfOwnLine
  <2> SUFFICES ASSUME ScanIInv, stage = "done", ret,
                      \A i \in 1..Len(text.lines) : text.lines[i].term # "lf"
               PROVE  \E i \in 2..Len(text.lines) :
                        /\ IsPrefix(symbol, text.lines[i].name)
                        /\ \A j \in 2..(i - 1) : ~IsPrefix(symbol, text.lines[j].name)
                        /\ isData = DataFrom(text, i, Len(symbol) + 1)
                        /\ at = GetUint32(DigitsAt(text, i, Len(symbol) + 1))
    BY DEF HintOfOwnLine
  <2>1. ScanTypeOK /\ Len(text.lines) \in Nat
    BY DEF ScanIInv, InsideText, ScanTypeOK, Text
  <2>2. PICK i \in Lines : IsHint(i) /\ at = ReadAt(text, i, symbol)
                           /\ isData = ReadData(text, i, symbol)
    BY DEF ScanIInv, Answered
  <2>3. i \in 2..Len(text.lines) /\ IsPrefix(symbol, text.lines[i].name)
    BY <2>1, <2>2, CandidateLine DEF IsHint, Lines
  <2>4. /\ at = GetUint32(DigitsAt(text, i, Len(symbol) + 1))
        /\ isData = DataFrom(text, i, Len(symbol) + 1)
    <3>1. Behind(text, i, symbol) = [line |-> i, piece |-> Len(symbol) + 1]
      BY <2>2 DEF Behind, Lines
    <3> QED
      BY <2>2, <3>1 DEF ReadAt, ReadData
  <2>5. ASSUME NEW j \in 2..(i - 1), IsPrefix(symbol, text.lines[j].name)
        PROVE  FALSE
    <3>1. j \in 2..Len(text.lines) /\ j \in 1..Len(text.lines) /\ j < i
      BY <2>1, <2>3
    <3>2. j \in FoundAt
      BY <2>5, <3>1 DEF FoundAt, Candidates, Matches, AtNul
    <3> QED
      BY <2>2, <2>3, <3>1, <3>2 DEF IsHint
  <2> QED
    BY <2>3, <2>4, <2>5
<1> QED
  BY <1>1, ScanInvariant, PTL

=============================================================================
