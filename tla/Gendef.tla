------------------------------- MODULE Gendef -------------------------------
(***************************************************************************)
(* The gendef program: main, load_pep, the export and import readers,      *)
(* dump_def (gendef.c) and the hint files (gendef_def.c), with the globals *)
(* that live across the input files of one run.  The return search         *)
(* (module DisasmRet) and the text scan (module HintScan) are one step     *)
(* here.                                                                   *)
(*                                                                         *)
(* A .def file is known by its base name: image f is written to the file   *)
(* named Base[f] in the directory ".", and a hint for the DLL n is looked  *)
(* up in a file named n.                                                   *)
(***************************************************************************)
EXTENDS DefFile, FiniteSets

CONSTANTS Files,      \* input files
          Base,       \* the .def base name of every input file
          Names,      \* .def base names, and DLL names of hints
          Images,     \* what an input file may hold
          Argvs,      \* command lines
          Dirs,       \* directories that option -I may name
          HintDisks,  \* what the disk may hold at the start
          Pops,       \* byte counts of "ret imm16"
          Mangled,    \* C++ names, which start with ?
          Target,     \* symbols of other DLLs, as imports and forwarders name them;
                      \* data says whether the letters DATA occur in their text
          Unnamed,    \* ord_n, the name given to an export without one
          Crlf,       \* TRUE when "wt" writes CRLF (Windows)
          FreedNext,  \* outcomes of reading opt->next after free (opt)
          Null

ASSUME BaseAssumption == Base \in [Files -> Names]
ASSUME PopsAssumption == Pops \subseteq 0..(Word - 2) /\ 0 \in Pops
ASSUME FreedNextAssumption == FreedNext \subseteq {"kept", "null", "wild"}
ASSUME NullAssumption == Null \notin Files
ASSUME MangledAssumption == Mangled \subseteq Syms /\ Unnamed \subseteq Syms \ Mangled

Cwd   == "."
Options == {"-", "-a", "-f", "-I"}

\* The only words of a command line that are neither options nor input files are
\* the directories behind -I.
ASSUME ArgvsAssumption ==
    /\ Dirs \intersect (Files \union Options) = {}
    /\ \A a \in Argvs :
          /\ a \in Seq(Options \union Files \union Dirs)
          /\ \A i \in 1..Len(a) :
                /\ a[i] \in Dirs => i > 1 /\ a[i - 1] = "-I"
                /\ a[i] = "-I" /\ i < Len(a) => a[i + 1] \in Dirs

ASSUME HintDisksAssumption ==
    HintDisks \subseteq [Dirs \union {Cwd} -> [Names -> Text \union {Null}]]

NoPop == Word - 1                 \* (uint32_t)-1
ASSUME TargetAssumption == Target \subseteq [dll : Names, sym : Syms, data : BOOLEAN]

\* What disassembleRet finds out: kind is "none" (no return instruction),
\* "plain" (ret), "imm" (ret pop) or "ill" (the first instruction is no code).
Found == [kind : {"none", "plain", "imm", "ill"}, pop : Pops,
          imp : Target \union {Null}]

\* An export is code, data (by its section, a relocation, or a ??_7 name) or a
\* forwarder to another DLL; a ??_7 name may be forwarded too.
Export == [sym : Syms, kind : {"code", "data", "fwd"}, found : Found,
           to : Target \union {Null}]

\* An image is absent (cannot be opened or read), junk (not PE), PE or PE+, and
\* has an export directory or not.
Image == [kind : {"absent", "junk", "pe", "pep"}, hasdir : BOOLEAN,
          exports : Seq(Export)]

ASSUME ImagesAssumption == Images \subseteq Image

VARIABLES argv, image,            \* the inputs (constant)
          phase,
          argi,                   \* i of main
          std_output, assume_stdcall, no_forward_output,
          thePathDefs,            \* directories, the last added first
          chain, opt,             \* the input files and the current one
          gDta,                   \* the file whose bytes are loaded, or Null
          fndllname,
          gExp, tailNull,         \* export list; gExpTail == NULL
          theImports,             \* the file the import list was read from
          theImpDef,              \* loaded hint files
          disk,                   \* .def files by directory and name
          written,                \* lines printed by the running dump_def
          dumps,                  \* history: completed dumps
          failed                  \* history: some output file was not created

optvars == <<std_output, assume_stdcall, no_forward_output, thePathDefs>>
expvars == <<gExp, tailNull>>
vars == <<argv, image, phase, argi, optvars, chain, opt, gDta, fndllname,
          expvars, theImports, theImpDef, disk, written, dumps, failed>>

Init == /\ argv \in Argvs
        /\ image \in [Files -> Images]
        /\ phase = "args"
        /\ argi = 1
        /\ std_output = FALSE /\ assume_stdcall = FALSE
        /\ no_forward_output = FALSE
        /\ thePathDefs = <<>>
        /\ chain = <<>> /\ opt = 1
        /\ gDta = Null /\ fndllname = Null
        /\ gExp = <<>> /\ tailNull = TRUE
        /\ theImports = Null
        /\ theImpDef = [n \in Names |-> Null]
        /\ disk \in HintDisks
        /\ written = <<>> /\ dumps = <<>> /\ failed = FALSE
-----------------------------------------------------------------------------
(* Hint files. *)

\* Texts fopen_def may deliver for the file named n, or Null: the current directory is
\* tried first, then the -I directories, the last one given first.
SearchPath == <<Cwd>> \o thePathDefs

InName(r)    == r.decorated /\ r.sym \notin Mangled
InComment(r) == r.decorated /\ r.sym \in Mangled
Printed(n)   == [digits |-> PrintUint32(n), tail |-> NoTail]

\* Whether DATA occurs in the forwarder or in the comment behind it.
SaysData(r) == (r.forward # Null /\ r.forward.data) \/ (r.check # Null /\ r.check.data)

\* Mutant: the forwarder is printed before the byte count.
LineOfForwardFirst(r) ==
    [name   |-> IF InName(r) /\ r.forward = Null
                THEN Append(r.sym, Printed(r.retpop)) ELSE r.sym,
     term   |-> "ws",
     digits |-> <<>>,
     data   |-> r.data \/ SaysData(r)]

\* A line as dump_def prints it, seen as text: the name, @ and the byte count,
\* which is only told in a comment for a C++ name, then the forwarder, the
\* ordinal, DATA and a comment.
LineOf(r) ==
    [name   |-> IF InName(r) THEN Append(r.sym, Printed(r.retpop)) ELSE r.sym,
     term   |-> IF \/ InComment(r) \/ r.forward # Null \/ r.sym \in Unnamed
                   \/ r.data \/ r.flagged \/ Crlf
                THEN "ws" ELSE "lf",
     digits |-> <<>>,
     data   |-> r.data \/ SaysData(r)]

\* A line of which only the name has been printed.
Begun(sym) == [name |-> sym, term |-> "lf", digits |-> <<>>, data |-> FALSE]

Header == [name |-> <<>>, term |-> "ws", digits |-> <<>>, data |-> FALSE]

TextOf(recs) == [lines |-> <<Header>> \o [i \in 1..Len(recs) |-> LineOf(recs[i])],
                 nl |-> TRUE]

Writing(d, n) == /\ phase = "lines" /\ ~std_output
                 /\ d = Cwd /\ n = Base[chain[opt]]

\* What is left of a piece, and of a line, that is cut off somewhere.
CutPiece(q) == {q} \union {[digits |-> SubSeq(q.digits, 1, k), tail |-> NoTail]
                              : k \in 0..Len(q.digits)}
CutName(name) ==
    UNION {{Append(SubSeq(name, 1, j - 1), q) : q \in CutPiece(name[j])}
              : j \in 1..Len(name)}
CutLine(l) == {Begun(name) : name \in CutName(l.name)}
              \union IF l.term = "lf" THEN {}
                     ELSE {[l EXCEPT !.data = b] : b \in {FALSE, l.data}}

\* The lines dump_def has printed so far, and the name of the next export.
Output == TextOf(written).lines
          \o IF gExp = <<>> THEN <<>> ELSE <<Begun(Head(gExp).sym)>>

\* The file dump_def is writing shows any prefix of that, by stdio buffering:
\* nothing or a part of the heading, whole lines, or some and a part of the line
\* behind them.
HalfWritten ==
    LET out == Output IN
    {EmptyText}
    \union {[lines |-> SubSeq(out, 1, k), nl |-> TRUE] : k \in 1..(Len(written) + 1)}
    \union UNION {{[lines |-> Append(SubSeq(out, 1, k - 1), l), nl |-> FALSE]
                      : l \in CutLine(out[k])} : k \in 2..Len(out)}

Visible(d, n) == IF Writing(d, n) THEN HalfWritten ELSE {disk[d][n]}

FopenDef(n) ==
    LET has == {i \in 1..Len(SearchPath) : disk[SearchPath[i]][n] # Null}
    IN  IF has = {} THEN {Null}
        ELSE Visible(SearchPath[CHOOSE i \in has : \A j \in has : i <= j], n)

\* gendef_loaddef: a file once loaded is never read again; a file that cannot
\* be opened is not remembered.
LoadDef(n) == IF theImpDef[n] # Null THEN {theImpDef[n]} ELSE FopenDef(n)

\* Mutant: a hint file that cannot be opened is remembered as empty.
LoadedNegative(target) ==
    IF target = Null THEN {Null}
    ELSE {IF x = Null THEN EmptyText ELSE x : x \in LoadDef(target.dll)}

\* What gendef_getsymbol_info may find loaded: the text of a hint file or, without
\* a DLL name or without such a file, nothing.
Loaded(target) == IF target = Null THEN {Null} ELSE LoadDef(target.dll)

\* What it reports then, and the list of loaded files it leaves.
Info(target, x)  == IF x = Null THEN NotFound ELSE GetSymbolInfo(x, target.sym)
Cache(target, x) == IF x = Null THEN theImpDef ELSE [theImpDef EXCEPT ![target.dll] = x]
-----------------------------------------------------------------------------
(* main: the options. *)

\* Mutant: options are input files too.
ParseArgKeeps ==
    /\ phase = "args" /\ argi <= Len(argv)
    /\ std_output' = (std_output \/ argv[argi] = "-")
    /\ assume_stdcall' = (assume_stdcall \/ argv[argi] = "-a")
    /\ no_forward_output' = (no_forward_output \/ argv[argi] = "-f")
    /\ argi' = argi + 1
    /\ chain' = Append(chain, argv[argi])
    /\ UNCHANGED <<argv, image, phase, thePathDefs, opt, gDta, fndllname, expvars,
                   theImports, theImpDef, disk, written, dumps, failed>>

ParseArg ==
    /\ phase = "args" /\ argi <= Len(argv)
    /\ LET a == argv[argi] IN
       /\ std_output' = (std_output \/ a = "-")
       /\ assume_stdcall' = (assume_stdcall \/ a = "-a")
       /\ no_forward_output' = (no_forward_output \/ a = "-f")
       /\ IF a = "-I" /\ argi < Len(argv)
          THEN /\ thePathDefs' = IF Contains(thePathDefs, argv[argi + 1])
                                 THEN thePathDefs
                                 ELSE <<argv[argi + 1]>> \o thePathDefs
               /\ argi' = argi + 2
          ELSE thePathDefs' = thePathDefs /\ argi' = argi + 1
       /\ chain' = IF a \in Options THEN chain ELSE Append(chain, a)
    /\ UNCHANGED <<argv, image, phase, opt, gDta, fndllname, expvars, theImports,
                   theImpDef, disk, written, dumps, failed>>

ArgsDone ==
    /\ phase = "args" /\ argi > Len(argv)
    /\ phase' = IF chain = <<>> THEN "end" ELSE "load"
    /\ UNCHANGED <<argv, image, argi, optvars, chain, opt, gDta, fndllname, expvars,
                   theImports, theImpDef, disk, written, dumps, failed>>
-----------------------------------------------------------------------------
(* One input file. *)

cur == chain[opt]

\* Mutant: the first input that is no DLL ends the program.
LoadPepGivesUp ==
    /\ phase = "load"
    /\ IF image[cur].kind \in {"pe", "pep"}
       THEN phase' = "read" /\ gDta' = cur
       ELSE phase' = "end" /\ gDta' = Null
    /\ UNCHANGED <<argv, image, argi, optvars, chain, opt, fndllname, expvars,
                   theImports, theImpDef, disk, written, dumps, failed>>

LoadPep ==
    /\ phase = "load"
    /\ IF image[cur].kind \in {"pe", "pep"}
       THEN phase' = "read" /\ gDta' = cur
       ELSE phase' = "clean" /\ gDta' = Null
    /\ UNCHANGED <<argv, image, argi, optvars, chain, opt, fndllname, expvars,
                   theImports, theImpDef, disk, written, dumps, failed>>

\* The list element for export e of file f.
Listed(f, e) == [sym |-> e.sym, kind |-> e.kind, found |-> e.found, to |-> e.to,
                 owner |-> f, be64 |-> image[f].kind = "pep"]

\* Mutant: exports are linked at the head of the list, as imports are.
AddExportsReversed(f) ==
    LET new == [i \in 1..Len(image[f].exports) |->
                   Listed(f, image[f].exports[Len(image[f].exports) + 1 - i])]
    IN  IF new = <<>> THEN UNCHANGED expvars
        ELSE /\ gExp' = new \o gExp
             /\ tailNull' = FALSE

\* add_export_list: append behind gExpTail, or start the list.  Behind a tail
\* that is not the end of the list gExp the new exports would be lost.
AddExports(f) ==
    LET new == [i \in 1..Len(image[f].exports) |-> Listed(f, image[f].exports[i])]
    IN  IF new = <<>> THEN UNCHANGED expvars
        ELSE /\ gExp' = IF tailNull THEN new
                        ELSE IF gExp = <<>> THEN <<>> ELSE gExp \o new
             /\ tailNull' = FALSE

\* do_pedef and do_pepdef: only the first one refreshes the import list.
ReadImage ==
    /\ phase = "read"
    /\ theImports' = IF image[cur].kind = "pe" THEN cur ELSE theImports
    /\ IF image[cur].hasdir
       THEN fndllname' = cur /\ AddExports(cur)
       ELSE UNCHANGED <<fndllname, expvars>>
    /\ phase' = "dump"
    /\ UNCHANGED <<argv, image, argi, optvars, chain, opt, gDta, theImpDef, disk,
                   written, dumps, failed>>

\* dump_def: nothing to print.
DumpNothing ==
    /\ phase = "dump"
    /\ fndllname = Null \/ gExp = <<>>
    /\ phase' = "clean"
    /\ UNCHANGED <<argv, image, argi, optvars, chain, opt, gDta, fndllname, expvars,
                   theImports, theImpDef, disk, written, dumps, failed>>

\* dump_def: fopen (fnoutput, "wt") fails; the export list stays as it is.
DumpFails ==
    /\ phase = "dump"
    /\ fndllname # Null /\ gExp # <<>> /\ ~std_output
    /\ failed' = TRUE
    /\ phase' = "clean"
    /\ UNCHANGED <<argv, image, argi, optvars, chain, opt, gDta, fndllname, expvars,
                   theImports, theImpDef, disk, written, dumps>>

\* dump_def: the output file is created or truncated.
DumpOpens ==
    /\ phase = "dump"
    /\ fndllname # Null /\ gExp # <<>>
    /\ disk' = IF std_output THEN disk ELSE [disk EXCEPT ![Cwd][Base[cur]] = EmptyText]
    /\ written' = <<>>
    /\ phase' = "lines"
    /\ UNCHANGED <<argv, image, argi, optvars, chain, opt, gDta, fndllname, expvars,
                   theImports, theImpDef, dumps, failed>>

\* What disassembleRet may say: the truth when the image that holds the code is
\* loaded, anything when the export was left over from another image.
Disassembled(e) ==
    IF e.owner = gDta THEN {e.found}
    ELSE {x \in Found : /\ x.kind = "ill" => x.imp = Null
                        /\ x.kind # "imm" => x.pop = 0}

RetpopOf(x) == IF x.kind = "imm" THEN x.pop
               ELSE IF x.kind = "plain" /\ assume_stdcall THEN 0 ELSE NoPop

\* A line with what is known of it before any hint is looked up.
NoCode == [kind |-> "skip", pop |-> 0, imp |-> Null]
Looked(e) == IF e.kind = "code" /\ ~e.be64 THEN Disassembled(e) ELSE {NoCode}

\* Mutant: an import is looked up although the byte count is known.
HintTargetAlways(e, x) ==
    IF ~e.be64 /\ x.imp # Null THEN x.imp
    ELSE IF e.kind = "fwd" THEN e.to ELSE Null

\* Where the hint for export e comes from: the import its code jumps to when no
\* byte count was found, or the DLL it is forwarded to.
HintTarget(e, x) ==
    IF ~e.be64 /\ RetpopOf(x) = NoPop /\ x.imp # Null THEN x.imp
    ELSE IF e.kind = "fwd" THEN e.to ELSE Null

\* check is the symbol a Check!!! comment names; flagged says whether there is
\* such a comment at all.
LineFor(e, x, info) ==
    LET isData == IF info.found THEN info.isData
                  ELSE e.kind = "data" \/ x.kind = "ill"
        retpop == IF e.be64 THEN 0
                  ELSE IF info.found /\ ~isData THEN info.at ELSE RetpopOf(x)
    IN  [sym       |-> e.sym,
         owner     |-> e.owner,
         be64      |-> e.be64,
         kind      |-> x.kind,
         retpop    |-> retpop,
         decorated |-> retpop # NoPop /\ ~e.be64,
         forward   |-> IF e.kind # "code" /\ ~no_forward_output THEN e.to ELSE Null,
         data      |-> isData,
         check     |-> IF retpop # NoPop THEN Null
                       ELSE IF x.imp # Null THEN x.imp
                       ELSE IF e.kind = "fwd" /\ ~isData THEN e.to ELSE Null,
         flagged   |-> /\ retpop = NoPop
                       /\ \/ x.imp # Null
                          \/ e.kind = "fwd" /\ ~isData
                          \/ x.kind = "none" /\ ~isData]

\* dump_def: one export is printed and leaves the list, after the look at a hint
\* (info is bound so that TLC looks once).
DumpLine ==
    /\ phase = "lines" /\ gExp # <<>>
    /\ \E x \in Looked(Head(gExp)) :
         LET target == HintTarget(Head(gExp), x) IN
         \E def \in Loaded(target) : \E info \in {Info(target, def)} :
            /\ theImpDef' = Cache(target, def)
            /\ written' = Append(written, LineFor(Head(gExp), x, info))
    /\ gExp' = Tail(gExp)
    /\ UNCHANGED <<argv, image, phase, argi, optvars, chain, opt, gDta, fndllname,
                   tailNull, theImports, disk, dumps, failed>>

\* Mutant: gExpTail is not reset when the list is used up.
DumpClosesKeepsTail ==
    /\ phase = "lines" /\ gExp = <<>>
    /\ disk' = IF std_output THEN disk
               ELSE [disk EXCEPT ![Cwd][Base[cur]] = TextOf(written)]
    /\ dumps' = Append(dumps, [pos |-> opt, lines |-> written])
    /\ phase' = "clean"
    /\ UNCHANGED <<argv, image, argi, optvars, chain, opt, gDta, fndllname, expvars,
                   theImports, theImpDef, written, failed>>

\* dump_def: gExpTail = NULL, and the file is complete.
DumpCloses ==
    /\ phase = "lines" /\ gExp = <<>>
    /\ tailNull' = TRUE
    /\ disk' = IF std_output THEN disk
               ELSE [disk EXCEPT ![Cwd][Base[cur]] = TextOf(written)]
    /\ dumps' = Append(dumps, [pos |-> opt, lines |-> written])
    /\ phase' = "clean"
    /\ UNCHANGED <<argv, image, argi, optvars, chain, opt, gDta, fndllname, gExp,
                   theImports, theImpDef, written, failed>>

\* The end of the loop body of main: the option record is freed before its next
\* field is read.
Clean ==
    /\ phase = "clean"
    /\ fndllname' = Null
    /\ gDta' = Null
    /\ \E next \in FreedNext :
         /\ phase' = CASE next = "wild" -> "crash"
                       [] next = "null" \/ opt = Len(chain) -> "end"
                       [] OTHER -> "load"
         /\ opt' = IF next = "kept" /\ opt < Len(chain) THEN opt + 1 ELSE opt
    /\ UNCHANGED <<argv, image, argi, optvars, chain, expvars, theImports, theImpDef,
                   disk, written, dumps, failed>>

Next == \/ ParseArg \/ ArgsDone \/ LoadPep \/ ReadImage
        \/ DumpNothing \/ DumpFails \/ DumpOpens \/ DumpLine \/ DumpCloses
        \/ Clean

Spec     == Init /\ [][Next]_vars
\* One process that is never blocked; an output file that can always be
\* created is not assumed.
FairSpec == Spec /\ WF_vars(Next)
-----------------------------------------------------------------------------
Rec == [sym : Syms, owner : Files, be64 : BOOLEAN,
        kind : {"none", "plain", "imm", "ill", "skip"}, retpop : 0..(Word - 1),
        decorated : BOOLEAN, forward : Target \union {Null}, data : BOOLEAN,
        check : Target \union {Null}, flagged : BOOLEAN]

InList == [sym : Syms, kind : {"code", "data", "fwd"}, found : Found,
           to : Target \union {Null}, owner : Files, be64 : BOOLEAN]

\* Every variable has its type.
TypeOK ==
    /\ argv \in Argvs /\ image \in [Files -> Images]
    /\ phase \in {"args", "load", "read", "dump", "lines", "clean", "end", "crash"}
    /\ argi \in 1..(Len(argv) + 2)
    /\ std_output \in BOOLEAN /\ assume_stdcall \in BOOLEAN
    /\ no_forward_output \in BOOLEAN
    /\ thePathDefs \in Seq(Dirs)
    /\ chain \in Seq(Files) /\ opt \in 1..(Len(chain) + 1)
    /\ {gDta, fndllname, theImports} \subseteq Files \union {Null}
    /\ gExp \in Seq(InList) /\ tailNull \in BOOLEAN
    /\ theImpDef \in [Names -> Text \union {Null}]
    /\ disk \in [Dirs \union {Cwd} -> [Names -> Text \union {Null}]]
    /\ written \in Seq(Rec)
    /\ dumps \in Seq([pos : Nat, lines : Seq(Rec)])
    /\ failed \in BOOLEAN

DumpsOf(pos) == {i \in 1..Len(dumps) : dumps[i].pos = pos}

\* As long as every output file could be created, each .def lists the exports
\* of its own DLL, each once and in the order of the export table: the list
\* that lives across the input files carries nothing over (add_export_list,
\* dump_def).
OwnExports ==
    ~failed => \A i \in 1..Len(dumps) :
        LET f == chain[dumps[i].pos] IN
        /\ \A k \in 1..Len(dumps[i].lines) : dumps[i].lines[k].owner = f
        /\ [k \in 1..Len(dumps[i].lines) |-> dumps[i].lines[k].sym]
              = [k \in 1..Len(image[f].exports) |-> image[f].exports[k].sym]

HasExports(f) == /\ image[f].kind \in {"pe", "pep"}
                 /\ image[f].hasdir /\ image[f].exports # <<>>

\* As long as every output file could be created, every input file that has
\* exports is dumped once and no other is; a file that is no DLL does not keep
\* the files after it from being dumped.
EachDumpedOnce ==
    ~failed => \A pos \in 1..Len(chain) :
        /\ pos < opt \/ (pos = opt /\ phase \in {"clean", "end", "crash"}) =>
              Cardinality(DumpsOf(pos)) = (IF HasExports(chain[pos]) THEN 1 ELSE 0)
        /\ pos > opt => DumpsOf(pos) = {}

\* The names whose .def this run has written or begun to write.
Rewritten == {Base[chain[dumps[i].pos]] : i \in 1..Len(dumps)}
             \union IF phase \in {"lines", "clean"} THEN {Base[cur]} ELSE {}

\* A cached hint file differs from what would be read from the disk now only if
\* this run itself rewrote that file (gendef_loaddef never looks again).
StaleOnlyIfRewritten ==
    phase \notin {"end", "crash"} /\ ~failed =>
        \A n \in Names \ Rewritten :
            theImpDef[n] # Null => theImpDef[n] \in FopenDef(n)

\* What gendef_getsymbol_info reads back from a .def that dump_def has completed
\* is what dump_def knew, for every symbol that no earlier line begins with: the
\* byte count where one is printed behind the name - that of a C++ name, printed
\* in a comment, is lost and reads as 0 - and the attribute, for which the letters
\* DATA in the forwarder or the comment of the line are taken too.
\* (In CRLF text mode: a bare LF behind a symbol is misread, see HintScan.)
ReadBack(x, r) == LET info == GetSymbolInfo(x, r.sym) IN
                  /\ info.found
                  /\ info.at = IF InName(r) THEN r.retpop ELSE 0
                  /\ info.isData = (r.data \/ SaysData(r))

WrittenReadsBack ==
    Crlf => \A i \in 1..Len(dumps) :
        \A k \in 1..Len(dumps[i].lines) :
            LET r == dumps[i].lines[k] IN
            (\A j \in 1..(k - 1) : ~IsPrefix(r.sym, LineOf(dumps[i].lines[j]).name)) =>
                ReadBack(TextOf(dumps[i].lines), r)

\* A hint never overrides what the disassembler found, although the code of
\* the same export may jump through an import: a line that was disassembled to
\* "ret n" shows n and is no DATA (the order of the tests in dump_def).
CodeBeatsHint ==
    \A i \in 1..Len(dumps) : \A k \in 1..Len(dumps[i].lines) :
        LET r == dumps[i].lines[k] IN
        r.kind = "imm" /\ ~failed =>
            \E e \in {image[r.owner].exports[m] : m \in 1..Len(image[r.owner].exports)} :
                e.sym = r.sym /\ r.retpop = e.found.pop /\ ~r.data

\* When the freed option record still reads as it was, every input file is
\* looked at before the program ends, and an exportless or unreadable one does
\* not stop it.
AllInputsReached ==
    <>(phase = "end" /\ (chain = <<>> \/ opt = Len(chain)))
-----------------------------------------------------------------------------
(* What the program's texts say and the code does not do. *)

\* show_usage: "gendef [OPTION]... [DLL]...": every DLL that is named is
\* looked at.
EveryDllHandled == phase \in {"end", "crash"} => chain = <<>> \/ (opt = Len(chain) /\ phase = "end")

\* dump_def heads the file with "Definition file of" the DLL: every export in
\* it is an export of that DLL.
DefinitionFileOfItsDll ==
    \A i \in 1..Len(dumps) : \A k \in 1..Len(dumps[i].lines) :
        dumps[i].lines[k].owner = chain[dumps[i].pos]

=============================================================================
