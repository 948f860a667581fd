------------------------------ MODULE HintScan ------------------------------
(***************************************************************************)
(* The scan of gendef_getsymbol_info through the text of a hint file, one  *)
(* pointer movement per step.  t is the line the pointer is in, piece the  *)
(* part of the line it is before; line Len(lines) + 1 is the NUL behind a  *)
(* final LF.                                                               *)
(***************************************************************************)
EXTENDS DefFile

CONSTANTS Texts       \* the hint files to scan
ASSUME TextsAssumption == Texts \subseteq Text

VARIABLES text, symbol,    \* the inputs (constant)
          stage,           \* "scan", "number", "data", "done"
          t,               \* the line t points into; 0 is the NULL pointer
          piece,           \* the piece of its name t is before (1 at its start)
          at, isData, ret

scanVars == <<text, symbol, stage, t, piece, at, isData, ret>>

ScanInit ==
    /\ text \in Texts
    /\ symbol \in Syms
    /\ stage = "scan"
    /\ t = 1
    /\ piece = 1
    /\ at = 0 /\ isData = FALSE /\ ret = FALSE

AtEnd == t = 0 \/ t > Len(text.lines)

\* Mutant: the pointer does not move over the LF.
NextLineStays ==
    /\ stage = "scan" /\ ~AtEnd
    /\ t' = t
    /\ IF Matches(text, t', symbol) /\ t > 1 THEN stage' = "number" ELSE stage' = "scan"
    /\ UNCHANGED <<text, symbol, piece, at, isData, ret>>

\* while (t != NULL && *t != 0): strchr to the LF and step over it.
NextLine == /\ stage = "scan"
            /\ ~AtEnd
            /\ t' = IF HasNext(text, t) THEN t + 1 ELSE 0
            /\ IF t' # 0 /\ Matches(text, t', symbol)
               THEN stage' = "number"
               ELSE stage' = "scan"
            /\ UNCHANGED <<text, symbol, piece, at, isData, ret>>

Exhausted == /\ stage = "scan"
             /\ AtEnd
             /\ stage' = "done"
             /\ UNCHANGED <<text, symbol, t, piece, at, isData, ret>>

\* t += symlen + 1; *at = get_uint32_by_str (t).
ReadNumber ==
    /\ stage = "number"
    /\ t' = Behind(text, t, symbol).line
    /\ piece' = Behind(text, t, symbol).piece
    /\ at' = GetUint32(DigitsAt(text, t', piece'))
    /\ stage' = "data"
    /\ UNCHANGED <<text, symbol, isData, ret>>

\* Mutant: the attribute is looked for in the line after the symbol's.
ScanDataNextLine ==
    /\ stage = "data"
    /\ isData' = DataFrom(text, t + 1, 1)
    /\ ret' = TRUE
    /\ stage' = "done"
    /\ UNCHANGED <<text, symbol, t, piece, at>>

\* while (*t != 0 && *t != '\n'): look for DATA up to the end of the line.
ScanData ==
    /\ stage = "data"
    /\ isData' = DataFrom(text, t, piece)
    /\ ret' = TRUE
    /\ stage' = "done"
    /\ UNCHANGED <<text, symbol, t, piece, at>>

ScanNext == NextLine \/ Exhausted \/ ReadNumber \/ ScanData

ScanSpec == ScanInit /\ [][ScanNext]_scanVars
ScanFairSpec == ScanSpec /\ WF_scanVars(ScanNext)
-----------------------------------------------------------------------------
\* at is what GetUint32 returns, below Word by its definition
ScanTypeOK ==
    /\ text \in Text /\ symbol \in Syms
    /\ stage \in {"scan", "number", "data", "done"}
    /\ t \in 0..(Len(text.lines) + 1)
    /\ piece \in Nat
    /\ isData \in BOOLEAN /\ ret \in BOOLEAN

\* The pointer never passes the NUL, wherever a symbol was found and skipped
\* with the character behind it: it stands behind the last line only if that
\* line ends in LF, which is where the NUL is then.
InsideText ==
    /\ ScanTypeOK
    /\ t > Len(text.lines) => text.nl \/ text.lines = <<>>

\* The pointer loop computes what one look at the lines says.
ScanIsLookup ==
    stage = "done" =>
        [found |-> ret, isData |-> isData, at |-> at] = GetSymbolInfo(text, symbol)

\* The hint is the first line whose name begins with the symbol, and is read
\* from what follows the symbol in that line alone, provided no line of the file
\* ends right behind its name with a bare LF (the CRLF text mode that dump_def
\* writes in on Windows).
HintOfOwnLine ==
    stage = "done" /\ ret /\ (\A i \in 1..Len(text.lines) : text.lines[i].term # "lf") =>
        \E i \in 2..Len(text.lines) :
            /\ IsPrefix(symbol, text.lines[i].name)
            /\ \A j \in 2..(i - 1) : ~IsPrefix(symbol, text.lines[j].name)
            /\ isData = DataFrom(text, i, Len(symbol) + 1)
            /\ at = GetUint32(DigitsAt(text, i, Len(symbol) + 1))

\* The scan ends for every text.
ScanEnds == <>(stage = "done")
=============================================================================
