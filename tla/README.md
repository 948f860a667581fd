# Verification of the C programs in i18n-zh

The i18n-zh repository is mostly data: translations, manuals and style sheets.
Three parts of it are programs with logic of their own, and this directory models
them in TLA+:

* `lib/build/gendef`, which reads a DLL and writes the `.def` file of its exports;
* `lib/decNumber`, decimal arithmetic with IEEE 754 contexts: numbers of any precision
  (`decNumber.c`, `decContext.c`) and of fixed-size formats (`decBasic.c`, `decCommon.c`);
* `lib/build/libmangle`, a demangler of MSVC names (not modelled).

Paths below are relative to the repository; `gendef.c` and `gendef_def.c` are in
`lib/build/gendef/src`, the `dec*` files in `lib/decNumber`.
`PROJECT.json` ties every definition to the lines it stands for.

## 1. Inventory

| part | state | operations | what is hard | what makes it correct |
|---|---|---|---|---|
| return search (`disassembleRet`, `gendef.c:738-885`) | two growable address lists (`seen`, the worklist), `pc`, `hasret`, `retpop`, the import met | one iteration of the outer loop, one decoded instruction per class | loops in the code, branches queued and forgotten, undecodable bytes, wrap of `pc`, growth of the lists | finds a return instruction if one is reachable, reports the byte count of one, ends |
| hint files (`gendef_def.c`) | list of loaded files, a pointer into a text | open along the search path, load once, scan for a symbol | the character behind the symbol may be the line end or the final NUL; a cached file may be rewritten | the hint is the one of the first line of that symbol |
| driver and dump (`main`, `load_pep`, `add_export_list`, `dump_def`) | option globals, option chain, export list with its tail, import list, output file | parse options, load, read, dump, clean up, next file | globals survive from one input to the next; the output may not open; the option record is read after `free` | each `.def` lists its own DLL's exports once; every input is handled |
| rounding core (`decSetCoeff`, `decApplyRound`, `decFinalize`, `decSetSubnormal`, `decSetOverflow`) | coefficient, exponent, `residue`, status | cut to the precision, round, fit the exponent range | the dropped digits are only a residue; a number cut twice must not be rounded twice; carries | the exact value rounded once, and exact flags |
| add and subtract (`decAddOp`) | result and operands that may be the same number | seven exits, among them a fast path and one where an operand is only a residue | the result is written while an operand is still read | as above, and the sign of zero |
| divide (`decDivideOp`) | `var1`, `acc`, `thisunit`, `var2ulen`, `exponent` | guess, subtract, next Unit, complete | the guess must never be too large nor zero; array bounds; alignment of integer quotients; nearest remainder | exact quotient rounded once, exact remainder, ends |
| multiply and fused multiply-add (`decMultiplyOp`, `decNumberFMA`) | accumulator of Units, or of chunks in 64 bits; `lazy` | one row, one carry, build the product, add | carries wait for many rows; the exponent wraps; the unrounded product meets special values | exact result rounded once; no item overflows |
| compare, quantize, integral values, neighbours, digit operations | as add | one call each | sums and rows of Units cut at any digit; nines that round to a digit more; status of an inner call | exact orders, one rounding, digits only moved |
| conversions and context (`decNumberFromString`, `decToString`, `decContext*`) | text; status, traps | one call each; save, clear, restore | exponents that wrap while read; traps raised when everything else is done | what is written reads back; flags only gather |
| Unit arrays (`decUnitAddSub`, ..) | arrays of base-10^DECDPUN digits | add, compare, shift, reverse | carry and borrow, in-place results | the numbers they stand for |
| decFloat (`decBasic.c`, `decCommon.c`) | encoded numbers, bcd digits, the caller's `round` and `status` | the same arithmetic again, in one format | operands out of reach become a sticky digit; the caller's context is borrowed | one rounding, exact orders, context kept |
| exp, ln, log10, power, square root | working numbers and contexts | iterations | error bounds | not modelled: real analysis |
| instruction decoder (`getMemonic`) | none | decode at an address | lengths, prefixes, reading across sections | not modelled |
| libmangle memory list (`m_token.c:43-115`) | list with head and tail | allocate, free one, release all | the tail after freeing the last element | each element is freed once (not modelled) |
| libmangle decoder (`m_ms.c`) | back-reference tables, token chains | recursive descent | limits of the tables, chains | not modelled |
| font tools, po4a, xml2po, DTD validator, scripts | files | one pass each | - | not modelled: pure I/O, or vendored |

How they interact: in gendef the driver calls the return search for every export of
a 32-bit image, hands the import it met (if no byte count was found) or the
forwarder to the hint reader, and prints a line; the `.def` files it writes are the
hint files of later inputs. In decNumber every operation ends in `decSetCoeff`,
`decFinalize` and `decStatus`, which adds to the status that the context's owner may
save, clear and restore; `decNumberFMA` hands an unrounded product to `decAddOp`;
`decNumberToIntegralExact` calls `decNumberQuantize` in a copy of the context. The
decFloat routines call one another in the caller's context itself. gendef uses libmangle to print names in comments.
Nothing here is multi-threaded. The hard behaviours are state that survives calls,
the order in which a long function reads and writes shared storage, and numeric
edges.

## 2. Modules

| module | models | state and actions |
|---|---|---|
| `AddrList` | `sAddresses`, `push_addr`, `pop_addr` | operators on records `max`, `cnt`, `idx`, `ptrs` |
| `RetCode` | what decoded code means for the search | instructions, successors, reachability |
| `RetSearch` | **abstract**: what `disassembleRet` promises | one step from no answer to an allowed answer |
| `DisasmRet` | `disassembleRet`, `disassembleRetIntern` | one action per loop decision and per switch arm; implements `RetSearch` |
| `DisasmRetProofs` | - | proofs, section 5 |
| `DefFile` | a `.def` text as read and as written (`get_uint32_by_str`, the `%u` of `dump_def`) | names cut into pieces at every @, the character behind the name, digits, DATA |
| `HintScan` | the pointer loop of `gendef_getsymbol_info` | one action per pointer movement |
| `Gendef` | `main`, options, `load_pep`, export list, `dump_def`, hint cache, search path; uses `DefFile` | one action per option, file, output decision and printed line |
| `GendefProofs` | - | proofs of `HintScan`, `DefFile` and `Gendef`, section 5 |
| `DecNum` | `decNumber`, `decContext`, `decNaNs`, `decStatus` | numbers as sign, coefficient, exponent, kind |
| `DecRound` | the rounding core | pure operators in the order of the code |
| `DecReference` | **abstract**: correctly rounded arithmetic and its flags | no residues: exact value, place, nearest |
| `DecAdd` | the routines around `decAddOp`, and `decAddOp` | one action per exit; numbers live in slots, so operands may overlap the result |
| `DecAddCorrect` | properties of `DecAdd` against `DecReference` | |
| `DecDivide` | `decDivideOp` for its four operations | one action per exit, guessed subtraction, Unit, completion |
| `DecDivideCorrect` | properties of `DecDivide` | |
| `DecUnits` | `decUnitAddSub`, `decUnitCompare`, shifts, reverse | operators on sequences of Units, with the carries of the code |
| `DecCompare`, `DecQuantum`, `DecDigits` | comparisons, exponent operations, digit operations | one operator per routine, returning the result and its flags |
| `DecText` | strings and binary integers | operators in the order of the code's tests |
| `DecOps` | the status of a context, and calls of all of these in it | save and clear, one action per routine, report (which may trap), restore |
| `DecOpsCorrect` | properties of `DecOps` | |
| `DecChunks` | the fast path of `decMultiplyOp` | one action per row and per carry |
| `DecMultiply` | `decNumberMultiply`, `decNumberFMA`; composes `DecChunks` and `DecAdd` | enter, multiply by Units or chunks, build, fuse, add, report |
| `LongProduct` | **abstract**: a long multiplication | a part of the multiplier is taken away, the multiplicand times it added |
| `DecMulCorrect` | properties of `DecMultiply`, and the mapping to `LongProduct` | |
| `DecRoundProofs`, `DecAddProofs`, `DecDivideProofs`, `DecMulProofs`, `DecOpsProofs` | - | proofs, section 5 |
| `LeastNumber` | - | induction over natural numbers, recursive functions and the value of a row of digits in a form the provers can use, section 5 |
| `DecFloat`, `DecFloatArith`, `DecFloatOps` | `decFinalize` and helpers; arithmetic; the other routines of `decBasic.c` and `decCommon.c` | one operator per routine: operands and context to result and context |
| `DecFloatCalls` | a calculation of a caller in one shared context | one action per routine, on operands or on the last result |
| `DecFloatCorrect` | properties of `DecFloatCalls` against `DecReference` | |
| `MC*` | instances for TLC | |

Data is abstracted where the properties do not tell it apart. An instruction is its
class, length, target and byte count. A line of a text is what the scan
distinguishes: the symbol is compared as a prefix that an @ or white space must follow, so a
name is a sequence of pieces cut at every @, of which a decimal beginning and whether DATA
occurs are kept. A `.def` that is still being written may be read as any prefix of its
text (`HalfWritten`), cut inside the heading or a line, as stdio flushes where it likes. An array of Units is the integer it holds, except where the code
works on the array: `decSetCoeff` looks at the Unit the cut falls into, `decDivideOp`
at the top two Units, the lengths and the positions, and comparing, multiplying,
shifting and rotating go through `DecUnits` Unit by Unit. A decFloat is the number its
bits stand for, and whether its encoding is the canonical one; the packed encodings and
their tables are left out, `decFiniteMultiply` is the exact product, and a quotient of
`decDivide` is built in units of `DIVDIGITS` digits. In `decFloatCompareTotal`, bytes of
the buffers nothing was written to have any value.

Left out of the modelled parts: failures of `malloc`, letter case in paths, the
comment line that a build with libmangle prints before a C++ name, blanks in names and symbols called
LIBRARY or EXPORTS, the reading of PE bytes, the wrap of the exponent difference in `decCompare`
(`decNumber.c:6209`, an Int: it takes exponents 2^31 apart, which only a precision above 147 million digits allows), the non-extended subset arithmetic of decNumber
(`DECSUBSET` is off by default), and rounding modes outside the enumeration. A trap
(`raise (SIGFPE)`) is the set of flags it was raised for, in `DecOps`; as it comes
last in every routine, a handler that does not return leaves what one that returns does.

## 3. Runs

| run | instance | shows |
|---|---|---|
| `disasm_ret` | every program over 3 addresses, lengths 1 and 2; lists that grow by 2 | the search decodes only reachable code, misses no return, reports one the fewest taken branches lead to, keeps its lists in bounds, ends, and implements `RetSearch` |
| `hint_scan` | every text of at most 3 lines over four names, one of them a prefix of two others, with and without final LF | the scan stays inside the text, computes what one look at the lines says, and ends; in CRLF files the hint comes from the first line that begins with the symbol |
| `gendef` | two input files, 10 images each (one with `foo@4` before `foo` and with a C++ name), 4 command lines, 3 sets of hint files | what each `.def` lists, when cached hints are stale, what of a written line reads back; with the freed option record still intact, that every input is looked at |
| `dec_add` | precision 2, all modes, clamping on and off, results below, at and above the exponent range; all overlaps; special values | result and flags of add, subtract, plus, minus and abs |
| `dec_divide` | two digits to a Unit; operands of 1 to 5 digits, one to three Units | results and flags of the four divisions, no array overrun, nothing lost on the way, termination |
| `dec_multiply` | one digit to a Unit and a chunk, two rows between carries, items below 200; exponents that wrap at 43 | products, and fused sums but those that are `RoundedByResidue` (which the instance reaches), rounded once; no item overflows, no carry leaves the array, and each row adds its part (`LongProduct`) |
| `dec_ops` | precision 2 (3 to 5 for rotating and shifting), exponents -1 to 2, all modes; strings put together from every mantissa and every tail | orders, one rounding in quantize, exact neighbours, digits only moved, strings that read back, status |
| `dec_float` | three digits, exponents up to 5, quotient units of two digits; alone, and followed by one or two further calls | the same of the decFloat routines, and that the caller's rounding mode and flags are kept |

Why the bounds are enough. Three addresses hold a loop, a branch into it, an
instruction that straddles another and the wrap at the end of the address space, and
lists of three entries cross a growth step at 2. Three lines are one line that is
never compared, one that matches and one the scan could run into. Two input
files are the smallest number with something left over from the first. In
`DecAdd` the coefficients are those at which the code's decisions change: all nines,
ties, just beside ties, powers of ten. A divisor of three Units is the shortest whose
guess is not exact from its top two. The reference
quotient is cut two digits behind the precision, with a digit for all that follows: no
rounding can tell it from the exact one, and it stays in TLC's 32-bit integers. One family of
integers that are too long for the precision brings about the stale pointer of section 4. Powers of ten are the recursive function `powers`; the calls and contexts of
`DecAdd` are families with a named assumption, which asks of a context what `decContext.h` allows
(`IsContext`; that `decContextDefault` asks for clamping only with the IEEE formats is
why a clamping context has `digits <= emax + 1`). `Word` = 64 stands for 2^32 in the value of a hint's byte count, so that two
digits already wrap, and a byte count not found is `Word` - 1, as -1 is in the code. The
inputs of `Gendef` (command lines, images, hint files on disk, the null values) are
constants with named assumptions on their types, which TLC evaluates. In `DecMultiply` `WordSize` = 200 is so tight that waiting one row
more would overflow, and carries of two places occur, as with 2^64 and chunks of eight
digits; `IntRange` = 43 and `DECNUMMAXE` = 20 keep the ratio of 2^32 to the limits of
an exponent, so that the sum of two of the least ones wraps; `DEC_MAX_MATH` = 5 lies
beside the contexts used. In `DecOps` `IntHi` = 12 and `UIntHi` = 25 stand for INT_MAX and
UINT_MAX without their last digits (the least integers are -128 and 0), and `TinyExp` lies
below every Etiny as `DEC_MIN_EMIN - 1` does. In `DecFloat`, `DECPMAX` = 3 has a tie, a
digit above and a digit below it; exponents reach three times as far as digits; `IntMax` =
127, `WORD` = 3 digits compared at a time and `BUFFER` = 5 digits of a string are small
enough for each limit to be crossed. The passing run keeps payloads of NaNs within one
word, for the reason shown below.

Fairness is weak fairness of the whole next-state relation, for the runs with a
liveness property only. Every program here is one thread that never waits; WF says
only that it does not stop between two steps. In `Gendef` nothing is assumed about
whether an output file can be created. All processes end, so deadlock is not checked.

### Disagreements shown

| run | property | what happens |
|---|---|---|
| `gendef_freed` | `EveryDllHandled` | `main` frees the option record and then reads its `next` (`gendef.c:253`): the rest of the inputs may be lost |
| `gendef_leftover` | `DefinitionFileOfItsDll` | when an output file cannot be created, `dump_def` returns with the export list still linked (`gendef.c:644`) and the next DLL's `.def` lists both DLLs' exports |
| `dec_ops_integral` | `IntegralCannotFail` | `decNumberToIntegralExact` copies the context with its status and reports all of the copy's (`decNumber.c:3196`, `:3201`): an old Invalid_operation turns an integral value into a NaN |
| `dec_float_total` | `PayloadsOrdered` | `decFloatCompareTotal` leaves only the inner loop at the first difference of two payloads (`decBasic.c:1769`), so a later word, or bytes never written, decide the order |

Remarks that have no run:

* The scan for a hint never compares the first line of a file; files written by gendef
  begin with a comment, so this does not show there. A hint line without `@n` is stored
  as 0 and printed as `@0` though `-a` is not given (`gendef.c:693`).
* With one digit, "bump 1 down, then up" is not the no-op that `decNumber.c:7084` takes
  it for: the number becomes 9 a place lower, so in precision 1 `ROUND_05UP` gives 1 for
  1 - 0.0001, not 0.9. A difference just below Nmin that rounds to zero in `decFinalize`
  (`:7303`) lacks `Clamped`, against `:7490`. With `clamp` and `emax < digits - 1`,
  infinity after an overflow is folded down and has an exponent (`:7324`).
* An operand longer than the precision and two digits more can be misrounded. When the
  other operand cannot reach its digits, `decAddOp` cuts it first and lets the other one count
  as a residue of one (`decNumber.c:3999`), "cannot affect the answer, except as a residue"; but the
  cut may leave a half exactly, and what the residue then stands for is more than
  the other operand is. With precision 1 and `HALF_UP`, 1495 + 9.9 gives 1E+3; the sum is
  1504.9, which rounds to 2E+3. `Supported` in `DecAddCorrect` leaves these calls out of
  the two properties about rounding; `AddIsRounded` shows that the rest is right. The product
  inside `decNumberFMA` may be that long as well, against "with only one rounding" (`:1079`): with
  a precision of 3, 505 * 199 + 9.9 gives 1.00E+5, and 1.01E+5 is the exact sum rounded.
  `RoundedByResidue` in `DecMulCorrect` names these calls and `RoundedOnce` is about all others;
  of `MCDecMultiply`, 99 * 106 + 9.9 and 9.9 * 1 + 10494 in precision 2 are among them.
* `decNumberSetBCD` takes the top Unit from the old length (`:3481`), so it is right only
  for a number of equal length; `CallBCD` uses it so.
* A coefficient of nines quantized beyond `emax` overflows inside `decApplyRound` and
  gives Overflow and an infinity, not Invalid_operation (`:5953`); `CarriedAway` names these calls and
  `QuantizedOnce` says nothing of them. Quantize, rescale and
  integral values fold the exponent down when `clamp` is set, against `:2279`, `:2368` and `:5826`, which
  guarantee the requested one; where they do (`FoldsAnswer`), `QuantizedOnce` asks for the value and the sign only. Integral
  values raise the traps of flags that were set before; `decNumberToIntegralValue` then
  returns a NaN and no flag when an old flag other than Invalid_operation means one
  (`:3206`), which `FlagsGather` leaves out (`Untold`).
* ScaleB, rotate, shift and NextToward of equal operands copy the left operand without
  shortening it to the precision; in a rotation of a longer one the digits beyond the
  precision that share its top Unit take part in the turn (`:2483`), so `DigitsMoved` asks for
  an operand that fits. The infinitesimal of the neighbours, one below
  `DEC_MIN_EMIN` (`:1665`), is not below Etiny in a context with that `emin` and two or more
  digits, so `NextIsNeighbour` asks that it is (`InfinitesimalServes`); `decNumberGetBCD` reads a Unit past the end if the digits fill all Units.
* The exponent put in place of a wrapped one (`:5125`) is low enough only for products
  of fewer than about 10^9 digits, which is no limit in practice.
* `decFloatFromString` gives an exponent of more digits than EMAX the value 2*EMAX
  (`decCommon.c:854`), though a long coefficient could bring it back (`:770`). A decFloat
  shifted out entirely has exponent 0 (`decBasic.c:3418`), against `:3389`. Reduce without
  trailing zeros and NextToward of equal operands return the operand's encoding as it is.
  An integer out of range after rounding raises both Inexact and Invalid_operation in
  ToInt32Exact. RemainderNear accepts a quotient of all nines that rounds up, which
  decNumber refuses.

## 4. Properties worth a comment

* `NearestReturn` relates the answer to the number of taken branches; it holds because
  `pop_addr` takes from the front. With a stack in its place it fails.
* `WrittenReadsBack` composes the two ends of a `.def` file: what `dump_def` prints
  and what `gendef_getsymbol_info` reads. It needs CRLF text mode; with a bare LF the
  scan steps over the line end (`HintScan`, `ReadNumber`). It is stated of a symbol that no earlier
  line begins with: `foo` is also found at `foo@4`. And two things are lost, which it says: the
  byte count of a C++ name is printed in a comment (`gendef.c:703`) and reads as 0, and the letters
  DATA in a forwarder or a Check!!! comment are taken for the flag (`gendef_def.c:112`).
* `StaleOnlyIfRewritten` bounds the damage of the cache of hint files: a cached text
  differs from the disk only for names this run wrote itself. Those it leaves out: the file
  being written may be cached half-written, and what then holds is `CodeBeatsHint`.
* `CorrectlyRounded`, `FlagsTellLoss`, and in the same way `RoundedOnce`,
  `QuotientRounded`, `QuantizedOnce` and `RoundedInFormat`, compare the residue arithmetic of the code with
  a definition that has no residues. They are about double rounding, sticky digits,
  borrow through a power of ten, and early overwriting of operands.
* `NothingLost` is the loop invariant of the long division: quotient so far times
  divisor plus what is left is the dividend. `StaysInArrays` has the facts the code
  relies on without a test: there is a Unit below `msu1` whenever a guess is made,
  the divisor does not slide below the least Unit, and `acc` is long enough. It also bounds
  the harm of a pointer that is left behind: of a `var1` that was equal to the divisor only the
  lowest Unit and the length are reset (`decNumber.c:4533`), and when it is as long as the divisor
  again it is compared from `msu1`, with its old Units, and counted once more. 10020E+4 divided
  by 20 as an integer, in precision 5 with two digits to a Unit, does that, and so does
  1000200E+k by 200 in precision 7 with the three digits to a Unit of the build; the property says
  that it only happens to an integer quotient that already has too many digits, so that the
  wrong Unit is refused with the rest (Division_impossible).
* `Ended` of the division depends on the guess being at least 1.
* `WholeAndRest` is the identity dividend = quotient * divisor + remainder for the two
  integer divisions together with the parity rule of the nearest remainder.
* `AccumulatorFits` has the two facts the chunked product relies on without a test: an
  item has room for the rows and carries that it may take before its own carry goes on
  (`decNumber.c:5005`), and a carry of one or of two places finds an item to be added to
  (`:5041`, `:5045`), which is so only because the product has no more chunks than both
  operands together.
* `MultipliesInRows` is a refinement: both loops of `decMultiplyOp` implement
  `LongProduct` under a mapping that reads the accumulator, with carries pending or not,
  as one number and the unused chunks or Units as what is left of the multiplier.
* `OrderIsSound` states orders from exact values, and transitivity with a third number (`Thirds`);
  `OrderInFormat` likewise for decFloat.
* `QuantizedOnce` leaves out nines carried beyond `emax` (`CarriedAway`) and asks less where the
  answer is folded (`FoldsAnswer`), `RoundedOnce` leaves out `RoundedByResidue`; the remarks above say why.
* `NextIsNeighbour` asks that no number of the context lies between.
* `DigitsMoved` compares rotation and shift on Unit arrays with a row of digits.
* `ReadsBack` composes `decToString` and `decNumberFromString`, and states what foreign
  strings must mean, with exponents of ten digits and more.
* `FlagsGather` is about the caller: flags are never lost by a call, a trap is raised
  exactly for trapped flags of this call, and restoring gives back what was saved.
* `ContextKept` holds at the end of every decFloat routine, on every way out.

## 5. What is proved

Return search. `DisasmRetProofs` holds for every size of the address space, every program, every
export address, every largest byte count and every growth chunk, from the assumptions
named in `RetCode`, `AddrList` and `DisasmRet` (the sizes are naturals, null values
are not members of the sets they are null for).

| theorem | statement |
|---|---|
| `TypeCorrect` | `Spec => []TypeOK` |
| `ListsStayInBounds` | `Spec => []ListsInBounds` |
| `Soundness` | `Spec => []OnlyReachable` |
| `Completeness` | `Spec => []NoReturnMissed` |
| `RetpopCorrect` | `Spec => []RetpopIsOfARet` |
| `DataCorrect` | `Spec => []DataIffFirstIllegal` |
| `Refinement` | `Spec => Implements`: the search implements `RetSearch` |
| `NearestFound` | `Spec => []NearestReturn` |

The inductive invariant `IInv` adds to type and list bounds: everything decoded, queued
or about to be decoded lies in every closed set that holds the export (`Reached`);
every successor of a decoded instruction is decoded, queued or the current one, and
the queue is empty once the search has given up (`Frontier`); before a return is
found none has been decoded (`RetFound`); what is known of the first
instruction (`First`) and of the import (`ImportFound`). `Completeness` needs
`Frontier`: with an empty queue the decoded addresses are a closed set, so they hold
every reachable address. Reachability is stated with closed sets, not recursion, so
that this argument needs no induction over paths.

`NearestFound` does need one. Its invariant (`InOrder`) says that the work list is in
breadth-first order. For some number of branches k and some place m of the list:
everything that was decoded, is being decoded or stands up to m is reached over at most k
taken branches; the entries behind m need one more; and what fewer than k branches reach
is decoded, holds no return instruction, and has all its branch targets among the entries
up to m. So a return instruction found on the way is one that no fewer branches reach.

Hint files. What `GendefProofs` says of `HintScan` holds for every set of symbols and texts and
every width of the number.

| theorem | statement |
|---|---|
| `ScanInvariant` | `ScanSpec => []ScanIInv` |
| `StaysInside` | `ScanSpec => []InsideText` |
| `ScanComputesLookup` | `ScanSpec => []ScanIsLookup` |
| `HintIsOwnLine` | `ScanSpec => []HintOfOwnLine` |

None of the three properties is inductive: they say nothing while the scan goes on. Its
invariant `ScanIInv` adds that all lines the lookup would consider are still ahead of the pointer
(`NoneBehind`), that the pointer stands at the first of them when one was found
(`AtHint`), and at it or just behind it after the number was read (`NumberRead`). What
the number is does not matter to the argument, so `GetUint32` is never expanded in it.

Numbers in `.def` files. What `GendefProofs` says of them holds for every width of the word above 10.

| theorem | statement |
|---|---|
| `NumberReadsBack` | `GetUint32(PrintUint32(n)) = n` for every n below `Word` |

It is an induction over the number: the digits of n are those of n div 10 and one
more, and what is read of them is no larger than n, so that nothing wraps on the way.

gendef. `GendefProofs` holds for every list of images, command lines and sets of hint
files, every search path, and every failure of an output file.

| theorem | statement |
|---|---|
| `Invariant` | `Spec => []IInv` |
| `TypeCorrect` | `Spec => []TypeOK` |
| `ExportsAreOwn` | `Spec => []OwnExports` |
| `DumpedOnce` | `Spec => []EachDumpedOnce` |
| `StaleOnlyRewritten` | `Spec => []StaleOnlyIfRewritten` |
| `CodeWins` | `Spec => []CodeBeatsHint` |
| `ReadsBack` | `Spec => []WrittenReadsBack` |

The properties speak of finished files; the invariant follows a file on its way. While
options are parsed nothing else has happened (`Parsing`); from opening to cleaning up, the
current file is one of the inputs, loaded and known to be a DLL (`InFile`); the export
list is empty between files and holds the current file's exports otherwise (`ListIsOwn`);
the lines printed so far and the list that is left make up those exports (`LinesAreOwn`);
every finished file holds the lines of its own image (`DumpsAreOwn`), and every input
dealt with has one if it has exports and none if not (`Once`); a cached hint file whose
name this run did not write is one that the disk still holds (`Fresh`). The last
five are under the condition that no output file has failed: the run `gendef_leftover` shows
that they fail with it. `ReadsBack` rests on `NumberReadsBack` and on three lemmas: the name in a line is
the symbol and just the byte count printed behind it (`NameOfLine`), the scan finds the line if none before it begins
with the symbol (`LineIsFound`), and what is read there is what was printed (`LineReadsBack`).

Multiply. `DecMulProofs` holds for every base, every Unit and chunk length, every number of rows
between carries and every width of an item for which `FastAssumption` (the comment on FASTLAZY,
with room for carries on their way) and the assumptions of `DecMulCorrect` hold, operands of
every length, every overlap, and every context that `IsContext` allows.

| theorem | statement |
|---|---|
| `ProductInvariant` | `ChunksSpec => [](ChunksInv /\ Accumulated)` |
| `NoOverflow` | `ChunksSpec => []AccumulatorFits` |
| `ProductExact` | the chunks that are left stand for the product of the operands |
| `MulInvariant` | `MulSpec => []MulInv` |
| `MultiplicationFits` | `MulSpec => []AccumulatorFits` |
| `ProductsExact` | what `decMultiplyOp` has built is the exact product, inside `decNumberFMA` too |
| `MultiplicationRounds` | `MulSpec => [](~Fused => RoundedOnce)` |
| `RowsMultiply` | `MulSpec => MultipliesInRows`: both loops implement `LongProduct` |

The assumptions say that a chunk is a whole number of Units, that the exponents of two operands
are not too large to be added (`Addable`), and that the exponent set for a sum that wrapped is below all
that the context can hold (`Underflows`, which fails only near 10^9 digits).

`ChunksInv` bounds an item by the rows added since the last carries (`RowsBound`),
and, while carries are resolved, by whether its own carry and those of the two items
below it are already done (`CarryBound`): an item may receive two carries more before
its own is taken away. `Accumulated` says that the accumulator, read as one number whatever
its items hold, is the multiplicand times the part of the multiplier that was used. It
is needed for safety too: only because the number is below the power of the base that
belongs to the length of the array does a carry from an item imply that there is an
item above it. `MulInv` follows a call: the factors are as they were given even when the result
overwrites one (`FactorsKept`), chunks and Units stand for the same factors (`InChunks`, `InUnits`),
what is built is their product with an exponent that rounds alike (`ProductBuilt`), and the answer
is what rounding the exact product once gives (`FiniteAnswer`, `SpecialDue`). A row of Units is exact by
`UnitAddSubExact` below.

Rounding. `DecRoundProofs` holds for every Unit length, every context with a precision above 1
and every number, from `DECDPUN \in Nat \ {0}`.

| theorem | statement |
|---|---|
| `FinalizeRounds` | if a coefficient and a residue stand for n * 10^q (`Pending`), `decFinalize` makes of them the number that rounding n * 10^q once gives, with its flags |
| `UnitAddSubExact` | `decUnitAddSub` computes a + b * m * Base^bshift and its sign, with its carries, its division by a reciprocal and its complement |

What a residue stands for is stated by `Near`: of a unit in the last place, residue 0 is none, 5
one half, 1 to 4 less and 6 to 9 more, and -1 is a value just below the coefficient. The
lemmas follow the value through the code. `decSetCoeff` cuts digits from a number that
already has a residue, in three ways: behind all digits, on a Unit boundary or inside a
Unit, where the digits of the Unit are looked at through `resmap`; in each, what is left is near the same
value (`CutResidue`, `SetCoeff`). `decApplyRound` decides by the residue as the mode asks for the
value (`RoundsUp`, `RoundsDown`), and its carries and borrows give the neighbour. `decSetSubnormal`
cuts a second time, so the first cut must not have rounded. Below Nmin, just below Nmin with a
negative residue, in range, folded down and overflowed are then one lemma each. What the proofs
of addition and division share stands at the end of the module: when a number, residue and flags
carry an exact value (`Carries`), that `decSetCoeff` keeps it so, and what `decFinalize` then gives.

Add and subtract. `DecAddProofs` holds for every set of calls, numbers of any length and any
overlap of result and operands, and every context that `IsContext` allows.

| theorem | statement |
|---|---|
| `AddInvariant` | `Spec => []IInv` |
| `AddFits` | `Spec => []FitsContext` |
| `AddIsRounded` | `Spec => []CorrectlyRounded` |
| `AddFlagsTell` | `Spec => []FlagsTellLoss` |

The properties speak of a finished call; `IInv` says what holds at each place on the way.
`Known` has the types;
`Taken`, that the operands were noted as they were given; `AtAdd`, that nothing has been
written yet; `AtPad`, that the result is the operand that is not zero, as much as fits. `AtFinish`
is the one that matters: what was put together, its number, residue and flags, carries the
exact value n * 10^q of the sum (`Carries`), either because nothing was dropped or because what
`Pending` asks holds. That is shown for each exit: a copy, a zero that is padded, the
fast path within one Unit, the big operand alone with the small one as a residue, and the
aligned sum with its shift. `FinalizeRounds` then gives `AtEnd`; `AtSpecial` keeps what
NaNs and infinities owe. The exit with a residue needs the condition `Short` (operands of
at most two digits more than the precision) and nothing else does, which is where the
misrounding of section 3 was found: the induction failed there.

Divide. `DecDivideProofs` holds for every Unit length, every set of calls, numbers of any
length and every context that `IsContext` allows.

| theorem | statement |
|---|---|
| `DivideInvariant` | `Spec => []IInv` |
| `DivideStaysInArrays` | `Spec => []StaysInArrays` |
| `DivideLosesNothing` | `Spec => []NothingLost` |
| `DivideRounds` | `Spec => []QuotientRounded` |
| `DivideWholeAndRest` | `Spec => []WholeAndRest` |
| `DivideSignals` | `Spec => []ExceptionsSignalled` |

`NothingLost` is not inductive: that a guess is never too large needs the bound on a
Unit, and that the exponent is right needs the place of the divisor. `IInv` has both.
While the division goes on (`Underway`, `AtDivide`, `AtAccumulate`),
(acc * Base + thisunit) * Block + var1 = Total, where Block is the divisor at its
present place and Total the dividend with its padding; what is left and this Unit
together are less than Base times Block; the exponent is the ideal one plus DPUN for each place
of the divisor less the padding; and the dividend was padded so far (`Long`) that the last Unit
comes with at least as many digits as the precision asks for, unless an integer is due
whose units end sooner. The argument then goes along the code.

* The guess. `GuessFits`: the top two Units of `var1` divided by the top of the divisor,
  plus one where more follows, is never more than what fits, for any number of Units; a guess of 0 becomes 1, which
  fits because a guess is only made for more than one Block. `CoverIs`: the comparison
  by length and Units compares `var1` with Block.
* The places. `SetUpStep` shows from the lengths in Units where dividend and divisor start,
  and that the skipped first place, where the top Unit is too small, loses nothing;
  `AccumulateStep`, that the divisor still has a place when the loop goes on (`RoomToGoOn`) and that the
  digits counted are those of the quotient.
* The stale pointer. `Recounted` is the state after a Unit was counted once too often. It
  needs `Long`: the quotient then has more digits than the precision, so it is refused.
* The end. `AtComplete` says why the loop ended. An exact quotient loses the zeros of its
  last Unit up to the ideal exponent; that this gives the coefficient and exponent of the
  reference is `FittingExact` with `DropIs`: any number that times the divisor is the dividend,
  is no longer than the precision and has no zeros to spare is the reference itself. One that does not end, or was stopped by the
  precision, is cut to the digits and a residue of 1, and `CutDue` shows that this and the cut
  of the reference, however differently long, stand for the same value to any rounding
  (`TellsScaled`, `TellsFurther`).
* Rounding. `AtFinish` then has what `FinalizeRounds` asks for, for quotients, integers and remainders alike;
  `ZeroDividendStep` and `InfiniteDivisorStep` do it for zeros. `AtReport` and `AtDone` carry the
  answer through `decStatus`.

Compare, quantize, neighbours, digits, status. `DecOpsProofs` holds for every Unit length, every
family of calls with valid operands and contexts that `IsContext` and `InLimits` allow (the limits
of the header), every earlier status, trap and mask.

| theorem | statement |
|---|---|
| `CallInvariant` | `Spec => []CallIs` |
| `TotalIsOrder` | `decNumberCompareTotal` is a total order of the valid numbers |
| `OrdersHold` | `Spec => []OrderIsSound` |
| `StatusInvariant` | `Spec => [](CallIs /\ StatusKept)` |
| `FlagsHold` | `Spec => []FlagsGather` |
| `QuantizeRoundsOnce` | `Spec => []QuantizedOnce` |
| `NextFindsNeighbour` | `Spec => []NextIsNeighbour` |
| `DigitsAreWhereTold` | `Spec => []DigitsMoved` |

The calls are short; what is long is what each routine computes. `CallIs` says that operands and context
are those of the call and that result and status are what one of the routines delivers for them
(`Outcome`), before and after `decStatus`. Each property is then one of the outcomes.

* Orders. `decCompare` aligns by whole Units and compares them, or subtracts; either gives the
  sign of the exact difference (`Ordering`), whatever the exponents (as integers, section 2). The total order is the order
  of a row of keys (`Keys`), sign and kind before value before exponent, from which
  antisymmetry and transitivity follow; the larger of two is one of them, fitted to the context.
* Status. `StatusKept` has what was saved, cleared and raised; `FlagsGather` needs in addition that
  no routine makes a NaN of numbers without a flag that means one (`Told`). Routines that
  only compute are shown to raise no such flag at all (`Tame`), through every path of the rounding core.
* One rounding. A number cut to fewer digits and finished in a roomy context (`Roomy`, as
  `decNumberQuantize` has made sure) is the operand rounded at the requested exponent (`Cut`,
  `Quantized`), a carry into one digit more included, and shifted back when that digit does not fit.
  A clamping context then folds it, which keeps its value (`FoldedIsRequested`).
* Neighbours. The sum with an infinitesimal, rounded outward, is the next number: what the cut
  leaves and that plus one enclose the operand (`Cell`), no number of the context lies strictly between the
  ends of a cell, and a sum rounded to the far end leaves the operand (`Outward`).
* Digits. `Field(c, i, w)` is what w digits of a coefficient from the i-th on make. A row of Units is a row of
  fields; shifting to the least or to the most significant end, and the three reversals of a
  rotation, move fields, whether or not the cut falls on a Unit boundary (`ShiftDownIs`, `ShiftUpIs`,
  `Turned`), and digits are fields of width one.

What these arguments need of numbers and Units alone, whatever the calls are (`Cell`, `Field`,
`ShiftDownIs`, `UnitCompareSound`), stands at the end of `DecRoundProofs`.

Induction. The library's induction theorems take an operator as a parameter, which no
installed prover can instantiate. `LeastNumber` states the least-number principle for a
set (`Least`), two forms of induction for the set of numbers a claim holds for (`Climb`,
`ClimbFromBelow`), and that functions on the naturals may be defined by recursion
(`Recursion`); the last is what makes a recursive function of the model (`GetUint32`, `powers`,
the levels of the search) one the provers may
unfold. On it rests the value of a row of digits in any base (`Worth`): how it changes
with an item, a carry, a row added or a shift, which the proofs about chunks, Units and digits share.
All of it is proved from the well-foundedness of `<` in the library.

Only model-checked: of `DecOps`, that strings read back (`ReadsBack`; a text is a sequence of characters the prover
would have to follow through parsing and layout) and that every result fits its context (`FitsContext`);
the rounding of fused sums that are not `RoundedByResidue` (the proofs about `decAddOp` are for its own
routines, whose operands `Supported` limits; a product is longer); everything about `DecFloat`, whose own rounding would
need the relation to the reference that `DecRoundProofs` has for decNumber; and all
liveness, that a division ends among it (temporal proofs under fairness are out of the prover's reach).

## 6. Not modelled

* exp, ln, log10, power and square root: their results are within an error bound of a
  real function; stating it needs real analysis, and the calls they make of the modelled
  operations are covered by those.
* The encodings of decDouble and decQuad with their tables (`decDPD.h`), `decFloatToString`,
  conversions to BCD and to wider formats, and the queries that change nothing: pure
  functions on bit patterns, best tested over all patterns.
* `getMemonic`: a table-driven function of the bytes at an address; `RetCode` takes its
  answers as given, any that it could give.
* Byte-level reading of PE files, the comment line with a decoded C++ name, the redirection of file names.
* libmangle: the list of its allocator is only appended to and released as a whole by
  what calls it here, so that the interesting case, an element freed in the middle, does
  not arise; the name decoder is a recursive descent whose text is its result.
* Font tools, po4a, scripts, the DTD validator, translations: one pass over files.

What would come next: the tables of back references in `m_ms.c`, whose limits are the one
piece of state there, and prefixes and lengths in `getMemonic`, which would give `RetCode`
its programs; in the proofs, `decFloat` along the lines of `DecRoundProofs`.
