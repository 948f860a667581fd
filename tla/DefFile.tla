------------------------------ MODULE DefFile -------------------------------
(***************************************************************************)
(* The text of a .def file as gendef_getsymbol_info (gendef_def.c) reads   *)
(* it and dump_def (gendef.c) writes it.                                   *)
(*                                                                         *)
(* A name is cut at every @ into pieces: what is compared and read begins  *)
(* and ends at an @ or at the end of the name.  Of a piece are kept the    *)
(* decimal digits it begins with and what follows them: a tail, or NoTail  *)
(* for nothing.  DataTails are the tails with the letters DATA in them.    *)
(*                                                                         *)
(* A line begins with a name (<<>> for comments and the LIBRARY and        *)
(* EXPORTS lines; none of these words is a symbol), which reaches up to    *)
(*   term    "ws", a blank, a tab or the CR of a CRLF line end, or "lf",   *)
(*           the end of the line                                           *)
(*   digits  the decimal digits right behind that character                *)
(*   data    whether the letters DATA occur behind it                      *)
(* A text is a sequence of lines; nl says whether the last one ends in LF. *)
(***************************************************************************)
EXTENDS Naturals, Sequences, SequencesExt

CONSTANTS Tails, DataTails, NoTail,
          Syms,           \* the symbols
          Word            \* 2^32: uint32_t values are below it

ASSUME TailsAssumption == DataTails \subseteq Tails /\ NoTail \notin Tails
ASSUME WordAssumption  == Word \in Nat /\ Word > 10

Piece == [digits : Seq(0..9), tail : Tails \union {NoTail}]

ASSUME SymsAssumption == \A sym \in Syms : sym \in Seq(Piece) /\ sym # <<>>

Line == [name : Seq(Piece), term : {"ws", "lf"}, digits : Seq(0..9), data : BOOLEAN]
Text == [lines : Seq(Line), nl : BOOLEAN]

EmptyText == [lines |-> <<>>, nl |-> TRUE]

\* get_uint32_by_str: the value modulo 2^32.
GetUint32(digits) ==
    LET val[i \in 0..Len(digits)] ==
            IF i = 0 THEN 0 ELSE (val[i - 1] * 10 + digits[i]) % Word
    IN  val[Len(digits)]

\* fprintf (fp, "@%u", n): the digits of n.
PrintUint32(n) ==
    LET printed[k \in 0..n] ==
            IF k < 10 THEN <<k>> ELSE Append(printed[k \div 10], k % 10)
    IN  printed[n]

\* Whether the name of line i is followed by the final NUL, and whether another
\* line starts behind line i.
AtNul(x, i)   == /\ i = Len(x.lines) /\ ~x.nl
                 /\ x.lines[i].term = "lf"
HasNext(x, i) == i < Len(x.lines) \/ x.nl

\* Mutant: the character after the symbol may be the NUL.
MatchesAtNul(x, i, sym) == i \in 1..Len(x.lines) /\ IsPrefix(sym, x.lines[i].name)

\* strncmp (t, symbolname, symlen) == 0 and t[symlen] is white space or '@',
\* for t at the start of line i; t may also be at the final NUL.
Matches(x, i, sym) == /\ i \in 1..Len(x.lines)
                      /\ IsPrefix(sym, x.lines[i].name)
                      /\ AtNul(x, i) => Len(sym) < Len(x.lines[i].name)

\* t += symlen + 1, from the start of line i: the line and the piece of its name
\* that t is before then, the piece behind the last one being the text behind
\* the name.  When the symbol ends its line, t is at the start of the next one,
\* or at the NUL.
Behind(x, i, sym) ==
    IF x.lines[i].term = "lf" /\ Len(sym) = Len(x.lines[i].name)
    THEN [line |-> i + 1, piece |-> 1]
    ELSE [line |-> i, piece |-> Len(sym) + 1]

\* The digits at such a place, and whether DATA occurs from there to the LF.
DigitsAt(x, i, p) ==
    IF i > Len(x.lines) THEN <<>>
    ELSE IF p <= Len(x.lines[i].name) THEN x.lines[i].name[p].digits
    ELSE x.lines[i].digits
DataFrom(x, i, p) ==
    /\ i <= Len(x.lines)
    /\ \/ x.lines[i].data
       \/ \E q \in p..Len(x.lines[i].name) : x.lines[i].name[q].tail \in DataTails

\* Mutant: the first digit is skipped.
ReadAtSkips(x, i, sym) ==
    LET b == Behind(x, i, sym)
        d == DigitsAt(x, b.line, b.piece)
    IN  IF d = <<>> THEN 0 ELSE GetUint32(Tail(d))

ReadAt(x, i, sym) == LET b == Behind(x, i, sym)
                     IN  GetUint32(DigitsAt(x, b.line, b.piece))
ReadData(x, i, sym) == LET b == Behind(x, i, sym)
                       IN  DataFrom(x, b.line, b.piece)

NotFound == [found |-> FALSE, isData |-> FALSE, at |-> 0]

\* The first line is never looked at: the search starts behind the first LF.
Candidates(x, sym) == {i \in 2..Len(x.lines) : Matches(x, i, sym)}

\* gendef_getsymbol_info on the text x, in one step.
GetSymbolInfo(x, sym) ==
    IF Candidates(x, sym) = {} THEN NotFound
    ELSE LET i == CHOOSE i \in Candidates(x, sym) :
                      \A j \in Candidates(x, sym) : i <= j
         IN  [found |-> TRUE, isData |-> ReadData(x, i, sym), at |-> ReadAt(x, i, sym)]
=============================================================================
