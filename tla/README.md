# A verification of Eater6502

The repository holds a 6502 breadboard computer: ROM programs for it
(`src/roms`), the Arduino sketch that clocks and debugs it
(`src/debug-firmware`), its schematics (`src/6502-schem.png`, `src/PCB`) and a
copy of the assembler that builds the ROMs (`src/vasm`).  This directory models
the parts with behaviour of their own in TLA+, checks them with TLC and proves
what matters most about the programs, the sketch, both together, conditional
assembly, the passes of the assembler and the binary file it writes with TLAPS.

## Inventory

| part | state | operations | interacts with |
|---|---|---|---|
| `roms/prog.s` | A, X, SP, PC, stack page | configure LCD, print string, wait for LCD, reset | 65C22 ports: `sta`/`lda` at $6000-$6003 |
| 65C22 + LCD | ORB, ORA, DDRB, DDRA; busy flag, received bytes | port stores and loads; LCD executes in its own time | pins PA7 = E, PA6 = R/W, PA5 = RS, PB0-7 = data bus |
| `roms/complete/lcd_w_ram.s`, `LCD_simple_text.s` | place in a fixed script | the same without ever polling | the same ports; time |
| `debug-firmware.ino` | two modes, previous bus sample, position in a command | r, c, s, p, f, h; step, fast step, reset | drives CLK and RESB of the target, reads its buses, serial line |
| vasm: sizes and addresses | sections of atoms, label addresses, sizes, todo list and dependencies | parse, resolve passes, assemble | 6502 back end decides sizes from label addresses |
| vasm: symbols | table of names: mentioned, label, expression, equate | mention, define, redefine, copy, fold, evaluate | parser, assembler, output |
| vasm: conditional assembly, source stack | levels and a state for each; texts being read, recursion counts, `__RPTCNT` | if, else, endif; macro, repetition, include, their ends, exitmacro, end | the parser asks the level for every line; texts remember levels |
| vasm: binary output | sections with origin, end and alignment | trim, join, check, sort, write, patch sizes | the sections the resolver left |
| vasm: text syntax, listing, errors, DWARF, other back ends | | | not modelled, see below |

What is hard about them:

* **prog.s and the LCD** run concurrently.  The busy flag is read ten
  instructions before the byte it protects is written; in between, the port is
  turned round and E moves twice.  The reset button clears the 65C22 but not
  the LCD, at any point.  The properties: nobody fights over the data bus, no
  byte is written to a busy LCD, the LCD executes the script and nothing else,
  the stack is balanced, the program arrives in its final loop.
* **The programs that never poll** are right only while their instructions take
  longer than the LCD, after a reset in the middle of a clear too.
* **The sketch** is one thread, but characters arrive at any time, commands
  take up to 44 clock cycles and two modes outlive the command that set them.
  The properties: exact cycle counts, reset lengths, modes that exclude each
  other, reports that are current, dropped characters, responsiveness.  It is
  also the **clock of the program** in the ROM: whatever is typed must neither
  starve the program nor disturb what the LCD sees.
* **The resolver** is a fixpoint iteration whose steps are not monotonic, with
  several escape hatches (fast phase, safe mode, pass limit, dependencies between
  sections).  The properties: what is emitted agrees with what was resolved, each of the
  phases comes to an end, and so does resolving.
* **Symbols** are used before they are defined, some may be defined again, and an
  expression sometimes copies a symbol's tree, sometimes its value and sometimes
  only points at it.  The property: the bytes have the values the text states.
* **Conditional assembly** keeps an array of states of which only the current one is
  looked at, and macros, repetitions and included files may begin and end, or be
  left early, inside any block.  The properties: blocks behave as if each text
  were read on its own, counters belong to the right text.
* **Binary output** computes sizes, gaps and offsets three times over (layout, end of
  section, writing).  The property: every byte is where the labels say.

The full list of hazards, each with its source line and the properties that cover
it, is in `PROJECT.json`.

## Modules

### LcdBus and LcdDriver: prog.s on the board

`LcdBus` owns the 65C22's port registers and the LCD and offers one operator per
access (`StorePORTA`, `StorePORTB`, `StoreDDRB`, `StoreDDRA`, `Bit7OfPORTB`)
plus what the hardware does on its own (`LcdFinish`, `LcdNoise`, `ResetVia`).
A control pin is *high*, *low* or, while its direction bit is 0, *floating*.  The
LCD latches on the falling edge of E of a write cycle; a byte that arrives while it
is busy sets `lost`.  While E floats (after a reset, before line 23) noise may clock
something into the LCD, so it may turn busy on its own and on the first edge.
Chips are not under `src/`: they are modelled as prog.s uses them and the
schematic wires them.

`LcdDriver` extends it with the CPU.  `pc` is a point of prog.s between two
accesses to the 65C22 (or calls, returns and branches); one action runs from one
point to the next, so the LCD and the reset button come between any two
accesses.  The routines keep their names: `reset`/`print`/`loop` (lines 13-51),
`lcd_wait` (55-78), `lcd_instruction` (80-89), `print_char` (91-100).  The
stack page is modelled cell by cell, with return addresses and pushed bytes kept
apart, so a missing `pla` returns "astray".  `Page` is the 256 bytes that `lda message,x`
can reach.  Time is not counted: the LCD may take any time, including none.

`Console` is what such a program promises: the display executes a script entry by
entry, each only when ready, beginning again after a restart.  `LcdDriver` implements
it under `shown <- received, ready <- ~busy`; the script is the four
configuration bytes and then the bytes the loop really walks over, from X = $ff.

### DebugFirmware: the Arduino sketch

`pc` is the place in `setup`/`loop`/`resetTarget`/`stepClock`; one action per
edge of the clock pin, so characters arrive between any two edges.  The
serial buffer drops what does not fit.  The target is reduced to what its pins show:
its buses change on the falling clock edge, and it is "running" after RESB was low for
the two cycles the comment at lines 156-160 requires.  `Modes` and `ReadCommand` follow the
`switch` and the `if` at the end of `loop`.  Case of letters, the LED, help
text and formatting are left out; `h`, white space and garbage are one character `Other`.

### Resolver: how vasm assigns sizes and addresses

A program is a sequence of `.org` sections of labels, data (with alignment),
branches, `jmp` and instructions that have a zero-page form; an operand is
`k + coef * label`.  `ParseAtom` sizes each atom as `internal_add_atom` does, with the
labels seen so far.  `PickSection`/`EndSweep` are the loops of `resolve`; `BeginPass`,
`MoveLabel`, `KeepSize`, `ResizeAtom` and `EndPass` are `resolve_section`;
`AssembleAtom` sizes everything once more as `assemble` does and counts range errors.
`InstSize` is `optimize_instruction`.  The numbers 127/128, 255, 65535, 200 and 1500 are
constants (`Reach`, `PageEnd`, `AddressEnd`, `FastOptPhase`, `MaxPasses`).
Arithmetic is exact: addresses stay far below the width of `taddr`.

### LcdBlind: the programs that never poll

Here time is the point.  `Cost` gives the clock cycles from one port access to the next
(`lda #` 2, `sta` 4, `jsr` and `rts` 6, ...), `Tick` lets one of them pass, for the program
and for what the LCD is executing; a latch gives the LCD a new `work` out of `ClearTimes` or
`OtherTimes` (microseconds).  The script and whether the program has subroutines (`Inline`) are
constants, so both programs are instances.  `Reset` may come at any moment and leaves the
LCD working.  `LcdBlind` shares `LcdBus` with `LcdDriver` and implements the same `Console`.

### Rig: the sketch as clock and reset of the program

`Rig` extends `LcdBlind` and instantiates `DebugFirmware`.  `SketchStep` is one step of the
sketch; when it raises CLK over a running target, a cycle of the length its delays give
passes (`Duration`, from `CLK_DELAY_US`), when it pulls RESB the program restarts, otherwise
nothing happens to the program.  The program has no clock of its own.  Time that passes beyond
the delays (serial output, nobody typing) is left out: it can only help the LCD.

### Symbols: what a name stands for

`symbols` is the table, with `find_symbol`'s "not there" as type `NONE`.  `Set`, `Equ`, `Label`
and `Byte` are the four kinds of statement; `parse_expr` copies the tree of a name that is an
expression by then and folds numbers, as `primary_expr` and `simplify_expr` do; `Resolve`,
`AssembleAtom`, `FixLabels` and `WriteOutput` are what vasm then does with the labels, the data
and the table, errors included.  `Meaning` is the reference definition the bytes are compared
with: it reads the text itself, and knows no table.  An expression names at most one symbol, so both
evaluations are walks from one term to the next: `eval_expr` takes as many steps as there are names,
`Meaning` as many as there are statements, and who has not arrived by then goes round.  That is
what the flag `INEVAL` finds out in the code.

### Blocks and CondAsm: conditional assembly and the source stack

`CondAsm` is `cond.c` together with the texts of `source.c` and `parse.c`: a stack of sources,
each remembering the level it began at, its macro, its repetitions and its `__RPTCNT`.  The
lines are not fixed: any line may come next (`If`, `ElseEnds`, `ElseStarts`, `Endif`, `Call`,
`Rept`, `Include`, `ExitMacro`, `End`), and the text may end after any line.  `Balanced`
restricts the sources to those in which no text has an else or endif for an if it did not open.
`Blocks` is what this promises to the writer: a list of blocks with a status each, and
for every text the blocks when it began.  `CondAsm` implements it under a mapping that turns levels
and the counter of skipped ifs into blocks (`ImplementsBlocks`).

### OutputBin: the binary file

Sections arrive as the resolver leaves them, with a label at every atom.  `Trim`, `Join`,
`Overlap`/`Reject`, `Sort`, `Write` and `Patch` follow `trim_uninitialized`, `join_sections`,
`chk_sec_overlap` and `write_output`.  A byte is named `<<section, atom, place>>`, so the
properties can ask whether each byte of the file is the one the labels promise at that
address.  "raw" and "coalesced" stand for the formats with one load address.  Atari COM, CoCo ML and
Foenix PGZ have a header for each section and are told apart, because their loaders go by
different things: `Extent` is the last address (Atari) or the length, `Patch` appends the trailer of
size zero that ends a PGZ file, and `Ends` says which headers end the file for a loader: in PGZ one of
size zero (comment at `output_bin.c:263-264`), in Atari COM one whose last address is below the
first; in CoCo ML none, since its trailer begins with another byte.  That an Atari loader finds nothing
behind such a header is an assumption about code that is not in the tree; for PGZ vasm's own comment says it.
`SegmentsLoad` is an equivalence: a byte is loaded if and only if no empty section ends the
file before it.

## Runs

| run | shows | bounds |
|---|---|---|
| `LcdDriver` | bus, busy-flag and stack properties of prog.s, lines that hold still while E is high; it implements `Console`, with liveness | the string followed by non-zero bytes (`ErasedPage`), 2 resets |
| `LcdDriver_terminator` | *violated*: the print loop does not end at the terminator | `BuiltPage`, no reset |
| `LcdBlind` | no byte lost without polling; it implements `Console`, with liveness | the script of `lcd_w_ram.s`, cycles of 51 us, clear 1 or 1520 us, other 1 or 37 us, 1 reset |
| `DebugFirmware` | cycle counts, resets, reports, which characters are dropped and which become commands, where `c` leads out of free run | 2 bus values, buffer of 2, 3 characters |
| `Rig` | under the sketch nothing is lost or disturbed, free run arrives; where `r` leaves the program | script of 3 entries, clear 1520 us, other 1 or 37 us, 2 resets, buffer of 2, 2 characters |
| `Resolver` | resolved = assembled, the fast phase ends, safe mode settles, branches reach, one section ends | all 4320 branch, 2500 mixed and 1296 paired programs, one oscillating one |
| `Resolver_hang` | *violated*: two sections resolve for ever | one program |
| `Symbols` | the bytes have the values of the text; only what is wrong is rejected | 3 names, terms 1 and name + 1, 4 statements |
| `CondAsm` | levels, recursion counts, `__RPTCNT`; it implements `Blocks` | 4 levels, 2 macros, recursion and repetition 2, 4 texts deep, 1 ignored level, balanced texts |
| `CondAsm_exit` | *violated*: exitmacro restores the number of the level only | the same, 2 texts deep, any texts |
| `OutputBin` | what can be placed is accepted, every byte is where the labels say, and loaded unless an empty section ends the file first, in every format | 3 sections, origins 1, 2, 4, 5 or none, 5 bodies, joined at 1 |
| `OutputBin_overlap` | *violated*: an overlap is not seen | 2 sections |

Why the bounds are enough.

* `LcdDriver`: a second reset can strike in the middle of the recovery from the first; a third
  meets no new situation because nothing but the count remembers resets (and the theorems
  hold for any number).  `ErasedPage` is used for the passing run because with the built image the
  loop ends before it prints; with it the walk goes from $ff over the wrap to the terminator and
  `print_char` runs.
* `LcdBlind`: 51 us is the shortest whole number of microseconds for which 30 cycles exceed the
  1520 us of a clear; the theorem `BlindIsSafe` gives the general bound.  `Rig` uses the
  sketch's own times (200 and 400 us a cycle).
* `DebugFirmware`: three characters with a buffer of two reach a command, one that arrives
  during it, and an overflow.
* `Resolver`: a reach of 4 bytes and a page end of 7 put five atoms on both sides of every
  boundary; `FastOptPhase` 3 and `MaxPasses` 65 let oscillating programs go through the
  fast phase, its extension, safe mode and the limit.  `Oscillating` has six branches to one label
  that take turns in being too long, pass by pass, for as long as the fast phase lasts; 65 passes
  are just above what `SafeModeSettles` and `NeverFails` (proved, not checked: it follows from the other two) allow such a program.
* `Symbols`: four statements hold a variable used through an equate and set again, a circle of
  three, and every pair of definitions of a name with a use before, between and behind.
* `CondAsm`: four levels are filled and exceeded, macros call each other beyond the recursion
  limit, and a repetition in a macro in a repetition fits in four texts.  The theorems hold for
  any limits.
* `OutputBin`: of three sections, any may come first, be empty (and end a file with bytes behind it), have trailing space or an
  aligned atom, touch, leave a gap, or cover another.

Runs of `Resolver`, `Symbols`, `CondAsm` and `OutputBin` switch the deadlock check off because a
finished assembly stops.

### Fairness

* `LcdDriver`: weak fairness of the CPU (it is clocked by an oscillator or the sketch) and
  of the LCD finishing what it started (its execution times are bounded).  None for
  noise and resets.
* `LcdBlind`: weak fairness of the clock and the CPU; the LCD's time is counted.
* `DebugFirmware`: weak fairness of the sketch's own steps (it never blocks after
  `setup`).  None for arriving characters.
* `Rig`: weak fairness of the sketch and of the program's part of a cycle.
* `Resolver`: weak fairness of the single-threaded assembler.
* `Symbols`, `CondAsm` and `OutputBin` have safety properties only.

## Proofs

**`LcdDriver_proofs`** proves, for every `Page` and every number of resets, the theorems
`TypeCorrect`, `BusNeverContended`, `NoByteLost`, `PollSound`, `StackIsBalanced`,
`EdgesAreClean` and `ExposureIsBrief`.  They rest on one inductive invariant `IInv`, the
conjunction of

* `TypeOK`;
* `Registers`: what ORA, DDRA and DDRB hold at each point of the program;
* `Clear`: at which points the LCD is known not to be busy - from the load that saw a
  clear flag, across the turn of the port and the return, to the falling edge;
* `Frames`: the stack pointer and the return addresses and saved byte on the stack at each point.

None of the stated properties is inductive alone: that no byte is lost needs to know that
the flag seen as 0 in A came from the LCD (`Registers`), that E does not fall in a write
cycle in between, and that `rts` goes back where `jsr` came from (`Frames`), since
otherwise the byte could be written without a wait.  `Clear` holds because only a latch
or floating pins can make the LCD busy.  The proof has one lemma per conjunct of the
invariant (`RegistersStep`, `ClearStep`, `FramesStep`, `TypeStep`) with one step per
group of actions, and PTL closes the theorems.  The assumptions are `PageAssumption`
and `MaxResetsAssumption`.

Its second half proves `Implementation`: prog.s implements `Console`.  `IInv` says
nothing of which byte is on its way, so a second invariant, `Content`, does: between the
load of a byte and its latch, the byte that the script has next is in A, then on the stack,
then in A again, then in ORB, and X and the return address say which entry it is.
`RefineStep` then maps the latch at lines 88 and 99 to `Accept`, `LcdFinish` to `Finish`,
noise before line 23 to `Disturb`, `Reset` to `Restart`, and all else to stuttering.

**`LcdBlind_proofs`** proves `BlindIsSafe`: if every time the LCD may take is less than 30 (without
subroutines 24) times the shortest cycle `m`, no byte is lost, for any script and any number
of resets.  The invariant `IInv(m)` says that the work left is at most `(wait + Beyond(pc)) * m`,
where `Beyond` is the number of cycles from the next access to the next falling edge of E.
`BlindTypes` is type correctness.  `BlindImplementsConsole` proves, under the same hypothesis, that
such a program implements `Console`: `Placed` says what ORB and the stack hold at each point and
`Sent` that the LCD has received exactly the entries of the script before the current one.

**`Rig_proofs`** proves that the rig implements `LcdBlind` (`RigImplementsProgram`), whatever the
sketch does, and hence `RigIsSafe`: on the rig nothing is lost while the LCD takes at most
4.8 ms for anything.  Here the cycle of 200 us replaces the unknown `m`.  `RigImplementsConsole`
carries the refinement of `Console` over, and `RigImplementsFirmware` proves that the rig is still
the sketch (every step is one of its steps or a stutter), so what is proved of `DebugFirmware` holds
here too.  `ResetAlwaysParks` proves where the command `r` leaves a program with subroutines, for any
script and any input: `Pulse` counts the program's cycles against the position in the sketch's reset
pulse, and `OnItsWay` says at which instruction so many cycles after a reset lead.

**`DebugFirmware_proofs`** proves, for any buffer, any number of characters and any buses, all
safety properties of the run and that both lines idle high.  Its invariant has a part for
each concern: `Pins` and `Loops` (levels and counters at each place in the code), `InModes` (the
modes against the place, and the proper reset behind free run), `Counted` (cycles given so far
against the command), `Reported` and `Dropped`.

**`CondAsm_proofs`** proves `TypesHold`, `RecursionsExact`, `RptcntExact` and `LevelsNest`.
`__RPTCNT` needs that each text carries the counter of the innermost repetition at or below it
in the stack (`Counters`); `OuterLevelsAssemble` needs, for balanced sources, that the levels at
which texts began grow along the stack and never exceed the current one (`LevelsKept`).

Its second half proves `Implementation`: balanced sources behave as `Blocks` says.  The
mapping makes a block of every level and of every skipped if; each kind of line has a
lemma (`IfMaps`, `SkipIfMaps`, `ElseMaps`, `EndifMaps`, `BeginMaps`, `LeaveMaps`), and
`BlocksStay` and `CallsStay` cover the steps that stutter.

**`Resolver_proofs`** proves `TypeCorrect`, `LabelsAgreeAlways` and `DoneIsConsistentAlways`, for
any programs that define each label once (`ProgramAssumption`), any reaches and any limits:
whatever path through the fast phase, safe mode and further sweeps `resolve` takes, if it ends, all
sizes and labels agree, and `assemble` emits every label where it was resolved to be.  The
invariant has three parts.  `Seen`: as long as a pass has changed nothing, the atoms it has gone
through fit and their dependencies are recorded.  `Settled`: a section that is not on the todo list
fits, or depends on the section in hand, and that one has changed something, so its last pass
is not its first and will put the dependent section back.  `Emitted`: `assemble` walks along the
same addresses.  A pass that keeps sizes in safe mode (`KeepSize`) is no exception because
it has changed something before.  That the recursive `begin` of `Consistent` is the chain of addresses
in the invariant is shown by a least counterexample (`ChainUnique`).  `BranchesReachAlways` adds
that with `-opt-branch` an error of `assemble` means an operand outside the address space: since
everything has settled, the size a branch had last was chosen for its final distance (`Faults`).

It also proves how long `resolve_section` and a program of one section can take, for any programs and limits:

* `FastPhaseEndsAlways`.  The fast phase is made one pass longer by every pass in which nothing
  grows, and in it even plain branches may oscillate for ever, because the addresses behind an
  instruction are those of the pass before.  It still ends after at most
  `FastOptPhase + (FastOptPhase + 1) * n` passes for a section of n instructions, whatever they compute:
  a pass that changes something and lets nothing grow makes at least one instruction short, and of these
  there are n until one grows; the pass in which it does is not made up for.  `FastPhase` counts both
  (`Chances`, and `Short`, the instructions of size 2).
* `SafeModeSettlesAlways`.  In safe mode a pass changes one instruction, the first that does not fit
  (`Layout`: until something changes, all labels are where the sizes put them, so that a pass that has
  changed nothing measures true distances).  In a section that is `Growing` (no alignment, branches
  to labels of the section, zero-page operands that only rise) larger sizes call for larger sizes
  (`WantedGrows`).  `Settling` is the variant: let M be the rearmost instruction safe mode has changed.
  When it was changed everything in front of it fitted, so that since then the instructions up to M only
  go the way M went, each of them at most once; and before that all changes were in front of M.  Hence at
  most n * n passes.
* `NeverFailsAlways` adds both: no growing section of n instructions ends in error 7 if the limit is above
  `(FastOptPhase + n) * (n + 1) + 1`.  With vasm's 200 and 1500 that is a promise for six instructions; for
  longer sections it is not made, and `-maxpasses` raises it.

* `SectionSpendsAlways`.  A program of one section uses up a natural number, `StepsLeft`, with every step,
  so it cannot go on for ever even if nothing settles (proved only: the run checks `SectionTerminates`); no other section puts it back on the list
  (`OneSection`).  That is all of `SectionTerminates` but the fairness, and it is false of two sections
  (`Resolver_hang`).

These need what an atom's size can be at all (`Shapes`) and where atoms begin with given sizes (`Begins`,
unique by `BeginsAgree`); monotony of addresses is shown by least counterexamples (`Ascent`, `Between`).

**`OutputBin_proofs`** proves `OutputTypes`, `RawImageIsPlaced`, `CoalescedIsSorted` and
`SegmentsAreLoaded`: for any number of sections, any atoms, origins and options, every byte of the
file is where the labels say, and in a file with headers a loader gets to exactly those bytes that
have no empty section before them (CoCo ML: to all).  The assumptions are that atoms have natural sizes and that the
alignments of a section divide its largest (`AlignAssumption`; they are powers of two).  The proof
has three layers.

* *Recursive functions.*  `EndOf`, `SizeSum`, `Before` and `Text` go through the atoms or sections one
  by one.  `Iterates` shows that such a function exists, by the least number up to which it does
  not, so that each of them obeys its equation (`EndOfSteps`, `TextSteps`); facts about all of their
  values are shown by a least counterexample too (`Inherited`).
* *One section.*  `ImageOf`: the text of a section has each byte at the distance from the section's
  origin that its label says, nothing but padding between them, and is as long as `EndOf` says.
  `EndOfShift`: a section moved to an address that suits its largest alignment keeps its
  layout, which is why `join_sections` may just add the new origin to the labels.
* *The file.*  The inductive invariant `Inv` has `Shape` (sections end where their atoms do, except
  for trimmed space that still counts; labels are the places of the atoms), `Order` (what is
  written lies below what is left, and `pc` is the end of a section already written) and
  `FileOK` (what the file holds so far, for each kind of format; `Headers` are the segments without the
  trailer, one for each section written, by ascending address, so that what is before a section in
  the file is what is below it in memory).  None of the four properties is
  inductive: they speak about the finished file.

**`Symbols_proofs`** proves `ValuesAsWrittenAlways` and `LegalAssemblesAlways` for any names, any terms
(a natural number and at most one name, `TermAssumption`), any start address and any length of text:
what vasm writes is what the text says, and it rejects only what is wrong.  The names must be finitely
many (`NameAssumption`).  The argument goes in four steps.

* *Walks.*  A walk through a finite set that has not arrived after as many steps as the set has members
  has been somewhere twice, so it never arrives.  Hence `eval_expr` and `Meaning` obey the equations of
  an evaluation that follows links (`EvalSteps`, `MeaningSteps`), although they are defined with a
  fixed number of steps; and where nothing goes round, each link leads to a smaller rank (`TableRank`,
  `TextRank`).
* *Trees.*  The term the parser keeps for a statement is the term of the text with links already
  followed: copied through equates known by then, variables at the value in force.  `Trees`
  says so of each statement, `Table` and `AtomsOK` that the table and the atoms hold these
  terms.  By induction over the rank the value of such a term is the meaning of the statement,
  wherever it was parsed (`ValueMeant`).
* *Circles.*  A circle in the text that the parser did not reject is one in the table, even if nothing
  refers to it (`CircleFound`), so `FixLabels` finds it at the latest.
* *The invariant.*  `IInv` says that vasm has rejected the text, or there are terms `E` for the statements
  with `Parsed(E)`: trees, table and atoms belong to the text so far, definitions the code refuses are
  not in it (`Table`; only a name that is label and assigned at once gets as far as `Resolve`), the image holds the values of the atoms passed (`ImageOK`) and each phase what it has tested
  (`PhaseOK`).  It is needed because both properties speak of finished texts only: they say
  nothing of the half-made table on which the end depends.

Only model-checked: all liveness (`ImplementsFairConsole`, `Responsive`, `FreeRunCompletes`,
`SectionTerminates`), which is out of the prover's reach.

## What the code does not do as it says

1. `prog.s:42` loads A where X was meant: the loop indexes from $ff and, in the
   built image, ends at once in the zero padding; nothing is printed.
   (`LcdDriver_terminator`)
2. `vasm.c:379-392`: two absolute sections can keep each other unresolved for ever; the pass
   limit counts one call of `resolve_section` only. (`Resolver_hang`)
3. `source.c:248`: exitmacro goes back to the level of the call, but not to its state: after
   "else, endif, exitmacro" in a macro the rest of the caller's block is skipped.
   (`CondAsm_exit`)
4. `supp.c:723`: a section that begins below an earlier one and ends behind it is not seen to
   overlap; the file is silently misplaced. (`OutputBin_overlap`)

Seen while modelling, without a run of its own:

* `debug-firmware.ino:173` and `185` speak of 4 cycles over loops of 20.  As `ResetParks` shows, the
  command `r` therefore stops the program between lines 20 and 23, with port B driven and the LCD's
  control pins floating, for as long as nobody types.
* `cpu.c:522-528` is in the else of a test that every `jmp` passes, so `-opt-branch` never
  turns a `jmp` into a `bra` as `doc/cpu_6502.texi:55` says.
* An equate is not constant when its expression uses a variable before that is first set:
  after `a = n+1`, `n set 1`, `.byte a`, `n set 5`, `.byte a` the bytes are 2 and 6,
  although `syntax_oldstyle.texi:379` gives `a` "the value of <expression>" and the
  comment at `symbol.c:302` says it is "not allowed to change".  `ValuesAsWritten` leaves such
  texts aside (`UsedUnset`).
* `symbol.c:272`: setting a label again is only a warning, but then `resolve_section` stops
  with "internal error 0 in line 303 of vasm.c" (phase "internal" of `Symbols`).
* `vasm.c:604` frees an equate that is based on an undefined name while other expressions still
  point to it; with the raw binary format the text is rejected in any case.
* `output_bin.c:212`: an org directive with nothing behind it is written as a segment of size zero,
  which in PGZ means that no more follow (comment at lines 263-264).  From ".org $1000 / .org $2000 / .byte 1"
  `-foenix-pgz` makes `00 10 00 00 00 00` and only then the segment at $2000, so a loader
  stops before it.  `-atari-com` (line 192) makes a segment `00 10 ff 0f`, its last address below its
  first.  `SegmentsLoad` says which bytes are concerned: those above an empty section.
* `output_bin.c:228`: an empty org section inside the range of another moves what follows, because
  `pc` is set back to its origin.  `join_sections` (`vasm.c:869-877`) reckons without the alignment
  inside sections when it looks for a gap and then reports error 3001 for sections that would fit.
  Headers with sizes count the uninitialized space of sections without any byte, or joined behind
  one (`vasm.c:634`); `-coalesced` with one header writes the span of addresses as the length.
* `vasm.c:296-299` and `446-449`: the end of an rorg block clears `ABSOLUTE` in absolute
  sections too.  `exitmacro` inside a repetition inside a macro is refused (error 36).
  `syntax.c:729` compares before it masks (`flags&(...)!=0`).
* `roms/rom.bin` is the image of `complete/lcd_w_ram.s`, not of `prog.s`; `makerom.py:6` subtracts
  a number from a list; `prevAddr`, `prevData` and `prevRW` of the sketch are written
  and never read.

## Not modelled

* Most of `src/vasm` by size: the back ends for other CPUs, the other syntaxes and the other
  output formats.  They are third-party code of which nothing is compiled into
  `vasm6502_oldstyle` with the formats the ROMs use, and each is a table or a translation
  without state.  This is why the models cover a small share of all lines in the tree.
* Text: parsing of lines and operands, macro arguments, encoding of instruction bytes, listings,
  messages, DWARF, dependency files.
* Of symbols: hashing, local scopes, attributes and bindings, expressions other than sums, relocations.
* Of binary output: magic bytes and execution addresses.  Of sections: `pushsection` and
  `popsection`, which the oldstyle syntax never calls; rorg.
* The LED demo and `makerom.py`; the PCB; the Makefiles, apart from the flags that fix the image.
* Electrical levels of floating pins.  Setup and hold times: an instruction takes at least 2 us at the
  board's 1 MHz, far above the LCD's.

## Plan

Done: LcdBus, Console, LcdDriver with proofs and refinement proof; LcdBlind and Rig with proofs and
refinement proofs; DebugFirmware with proofs; Resolver with proofs; Symbols with proofs; Blocks and CondAsm with
proofs and refinement proof; OutputBin with proofs.  To come, in this order:

1. Symbols: local labels and their scope (macros, the last global label), bindings.
2. rorg blocks in the resolver and their labels in `OutputBin`.
