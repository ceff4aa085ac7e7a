------------------------------ MODULE CondAsm -------------------------------
(***************************************************************************)
(* How vasm reads a source: the stack of texts (source.c, parse.c: macros, *)
(* repetitions, included files) and conditional assembly (cond.c and the   *)
(* directives of syntax/oldstyle/syntax.c).  Both are entangled: a text    *)
(* remembers the level it began at, exitmacro goes back to it, and what    *)
(* comes next in any text depends on whether the level assembles.          *)
(*                                                                         *)
(* The lines of a text are not fixed: any line may come next, and the text *)
(* may end after any line.  Lines that define nothing but code change none *)
(* of this state and are left out, and so are directives with a syntax     *)
(* error.                                                                  *)
(***************************************************************************)
EXTENDS Integers, Sequences, FiniteSets, SequencesExt

CONSTANTS
    Macros,         \* the macros defined
    NoMacro,        \* source->macro of a text that is none, a NULL pointer
    MaxCondLevel,   \* MAXCONDLEV (63)
    MaxRecursions,  \* maxmacrecurs (1000)
    MaxRepeat,      \* bound: the highest count of a repetition
    MaxDepth,       \* bound: texts on the stack
    MaxNesting,     \* bound: nested ifs inside a skipped block
    Balanced        \* only sources in which no text has an else or endif
                    \* for an if it did not open

ASSUME LimitAssumption ==
    /\ MaxCondLevel \in Nat \ {0} /\ MaxRecursions \in Nat
    /\ MaxRepeat \in Nat /\ MaxDepth \in Nat /\ MaxNesting \in Nat
ASSUME MacroAssumption == NoMacro \notin Macros
ASSUME BalancedAssumption == Balanced \in BOOLEAN

VARIABLES
    srcs,        \* cur_src and its parents, cur_src last
    recursions,  \* macro->recursions
    clev, cond,  \* the level of conditional assembly, and each level's state:
                 \* 1 assembles, 0 waits for an else, -1 had its turn
    ifnesting,   \* ifs opened inside a block that is skipped
    rptcnt,      \* the symbol __RPTCNT
    parse_end,   \* an end directive was read
    phase,       \* "reading", "done" or "fatal"
    errors       \* numbers of the errors reported

condVars == <<clev, cond, ifnesting>>
sourceVars == <<srcs, recursions, rptcnt>>
vars == <<condVars, sourceVars, parse_end, phase, errors>>

(* new_source(): what a text remembers; left says that it was cut short.   *)
Source(kind, macro, repeat, reptn) ==
    [kind |-> kind, macro |-> macro, repeat |-> repeat, reptn |-> reptn,
     cond_level |-> clev, left |-> FALSE]
cur_src == Last(srcs)

(* include_main_source(), cond_init() and the reserved symbol __RPTCNT. *)
Init ==
    /\ clev = 0 /\ srcs = <<Source("file", NoMacro, 1, -1)>>
    /\ recursions = [m \in Macros |-> 0]
    /\ cond = [l \in 0 .. MaxCondLevel - 1 |-> IF l = 0 THEN 1 ELSE 0]
    /\ ifnesting = 0 /\ rptcnt = -1 /\ parse_end = FALSE
    /\ phase = "reading" /\ errors = {}

cond_state == cond[clev] > 0

(* A line is read: assembled, or only looked at for if, else and endif.    *)
Reading == phase = "reading" /\ ~cur_src.left /\ ~parse_end
Assembled == Reading /\ cond_state
Skipped == Reading /\ ~cond_state

(* The innermost if, skipped ones included, was opened by this text.       *)
OwnBlock == clev + ifnesting > cur_src.cond_level

Report(e) == errors' = errors \cup {e}
Fatal(e) == phase' = "fatal" /\ Report(e)
-----------------------------------------------------------------------------
(* Mutant: one more level than the limit allows. *)
TooDeepBy1(l) == l > MaxCondLevel
TooDeep(l) == l >= MaxCondLevel

(* cond_if(): ifdef, ifeq, ifblank, ... in text that is assembled.         *)
If(holds) ==
    /\ Assembled
    /\ \/ TooDeep(clev + 1) /\ Fatal(65) /\ UNCHANGED <<clev, cond>>
       \/ /\ ~TooDeep(clev + 1)
          /\ clev' = clev + 1
          /\ cond' = [cond EXCEPT ![clev + 1] = IF holds THEN 1 ELSE 0]
          /\ UNCHANGED <<phase, errors>>
    /\ UNCHANGED <<ifnesting, sourceVars, parse_end>>

(* Mutant: the condition is evaluated although the block is skipped.       *)
SkipIfEvaluates ==
    /\ Skipped /\ clev + 1 < MaxCondLevel
    /\ clev' = clev + 1 /\ cond' = [cond EXCEPT ![clev + 1] = 1]
    /\ UNCHANGED <<ifnesting, sourceVars, parse_end, phase, errors>>

(* cond_skipif() *)
SkipIf ==
    /\ Skipped /\ ifnesting < MaxNesting
    /\ ifnesting' = ifnesting + 1
    /\ UNCHANGED <<clev, cond, sourceVars, parse_end, phase, errors>>

(* cond_skipelse(): an else after a block that was assembled.              *)
ElseEnds ==
    /\ Assembled /\ (Balanced => OwnBlock)
    /\ \/ clev > 0 /\ cond' = [cond EXCEPT ![clev] = -1] /\ UNCHANGED errors
       \/ clev = 0 /\ Report(63) /\ UNCHANGED cond
    /\ UNCHANGED <<clev, ifnesting, sourceVars, parse_end, phase>>

(* cond_else(): an else in text that is skipped.                           *)
ElseStarts ==
    /\ Skipped /\ (Balanced => OwnBlock)
    /\ ifnesting = 0
    /\ cond' = [cond EXCEPT ![clev] = IF @ = 0 THEN 1 ELSE -1]
    /\ UNCHANGED <<clev, ifnesting, sourceVars, parse_end, phase, errors>>

(* cond_endif() *)
Endif ==
    /\ Reading /\ (Balanced => OwnBlock)
    /\ \/ ifnesting > 0 /\ ifnesting' = ifnesting - 1 /\ UNCHANGED <<clev, errors>>
       \/ ifnesting = 0 /\ clev > 0 /\ clev' = clev - 1 /\ UNCHANGED <<ifnesting, errors>>
       \/ ifnesting = 0 /\ clev = 0 /\ Report(64) /\ UNCHANGED <<clev, ifnesting>>
    /\ UNCHANGED <<cond, sourceVars, parse_end, phase>>

-----------------------------------------------------------------------------
(* new_source() and cur_src = src, within the bound on the stack.          *)
Push(src) == Len(srcs) < MaxDepth /\ srcs' = Append(srcs, src)

ChangeTop(src) == srcs' = [srcs EXCEPT ![Len(srcs)] = src]

(* include_source() *)
Include ==
    /\ Assembled
    /\ Push(Source("file", NoMacro, 1, cur_src.reptn))
    /\ UNCHANGED <<condVars, recursions, rptcnt, parse_end, phase, errors>>

(* execute_macro() *)
Call(m) ==
    /\ Assembled
    /\ \/ /\ recursions[m] >= MaxRecursions
          /\ Fatal(56)
          /\ UNCHANGED <<srcs, recursions>>
       \/ /\ recursions[m] < MaxRecursions
          /\ recursions' = [recursions EXCEPT ![m] = @ + 1]
          /\ Push(Source("macro", m, 1, cur_src.reptn))
          /\ UNCHANGED <<phase, errors>>
    /\ UNCHANGED <<condVars, rptcnt, parse_end>>

(* handle_rept(), and start_repeat() when the endr is found: a count of    *)
(* zero, or less, only skips the block.                                    *)
Rept(n) ==
    /\ Assembled /\ n > 0
    /\ Push(Source("repeat", NoMacro, n, 0))
    /\ rptcnt' = 0
    /\ UNCHANGED <<condVars, recursions, parse_end, phase, errors>>

(* Mutant: end_source() forgets the level.                                 *)
ExitKeepsLevel == clev
ExitLevel == cur_src.cond_level

EndOf(src) == [src EXCEPT !.left = TRUE, !.repeat = 1]

(* leave_macro() and end_source().  A repetition is a text of its own and  *)
(* no macro, even inside one.                                              *)
ExitMacro ==
    /\ Assembled
    /\ \/ /\ cur_src.macro # NoMacro
          /\ ChangeTop(EndOf(cur_src))
          /\ clev' = ExitLevel
          /\ UNCHANGED errors
       \/ cur_src.macro = NoMacro /\ Report(36) /\ UNCHANGED <<srcs, clev>>
    /\ UNCHANGED <<cond, ifnesting, recursions, rptcnt, parse_end, phase>>

(* handle_end(): whatever follows, in every text, is read and ignored.     *)
End ==
    /\ Assembled
    /\ parse_end' = TRUE
    /\ UNCHANGED <<condVars, sourceVars, phase, errors>>

-----------------------------------------------------------------------------
(* read_next_line() at the end of a text: once more, back to the parent,   *)
(* or the end of the assembly, with cond_check().                          *)
Iterated(src) == [src EXCEPT !.repeat = src.repeat - 1, !.reptn = src.reptn + 1]

Again ==
    /\ phase = "reading" /\ cur_src.repeat > 1
    /\ ChangeTop(Iterated(cur_src))
    /\ rptcnt' = cur_src.reptn + 1
    /\ UNCHANGED <<condVars, recursions, parse_end, phase, errors>>

(* Mutants: the counter keeps its last value, the macro stays counted.     *)
ParentCounterKept(src) == rptcnt
ParentCounter(src) == src.reptn
ReleaseNothing == recursions
Release ==
    [m \in Macros |-> IF m = cur_src.macro THEN recursions[m] - 1 ELSE recursions[m]]

Return ==
    /\ phase = "reading" /\ cur_src.repeat = 1
    /\ Len(srcs) > 1
    /\ recursions' = Release
    /\ srcs' = Front(srcs)
    /\ rptcnt' = ParentCounter(Last(Front(srcs)))
    /\ UNCHANGED <<condVars, parse_end, phase, errors>>

Finish ==
    /\ phase = "reading" /\ Len(srcs) = 1
    /\ phase' = "done"
    /\ errors' = IF clev > 0 THEN errors \cup {66} ELSE errors
    /\ UNCHANGED <<condVars, sourceVars, parse_end>>

Next ==
    \/ \E holds \in BOOLEAN : If(holds)
    \/ SkipIf \/ ElseEnds \/ ElseStarts \/ Endif
    \/ Include \/ \E m \in Macros : Call(m)
    \/ \E n \in 1 .. MaxRepeat : Rept(n)
    \/ ExitMacro \/ End
    \/ Again \/ Return \/ Finish

Spec == Init /\ [][Next]_vars

-----------------------------------------------------------------------------
(* Types; the level stays inside the array.                                *)
SourceType ==
    [kind : {"file", "macro", "repeat"}, macro : Macros \cup {NoMacro},
     repeat : Nat \ {0}, reptn : Nat \cup {-1},
     cond_level : 0 .. MaxCondLevel - 1, left : BOOLEAN]

TypeOK ==
    /\ srcs \in Seq(SourceType) /\ srcs # <<>>
    /\ recursions \in [Macros -> 0 .. MaxRecursions]
    /\ clev \in 0 .. MaxCondLevel - 1
    /\ cond \in [0 .. MaxCondLevel - 1 -> {-1, 0, 1}]
    /\ ifnesting \in Nat /\ rptcnt \in Nat \cup {-1} /\ parse_end \in BOOLEAN
    /\ phase \in {"reading", "done", "fatal"}
    /\ errors \subseteq {36, 56, 63, 64, 65, 66}

(* cond_state() looks at the current level only: all levels around it      *)
(* assemble, and blocks are counted as skipped only inside one that does   *)
(* not.                                                                    *)
OuterLevelsAssemble ==
    /\ \A l \in 0 .. clev - 1 : cond[l] = 1
    /\ ifnesting > 0 => ~cond_state

(* A macro is counted once for every text of it on the stack, however the  *)
(* texts end (parse.c:1089), so the limit of line 706 is one on the depth. *)
RecursionsCounted ==
    \A m \in Macros :
        recursions[m] = Cardinality({k \in DOMAIN srcs : srcs[k].macro = m})

(* The manual: "__RPTCNT always holds the iteration counter of the inner   *)
(* repeat loop, starting with 0.  __RPTCNT is -1 outside of any repeat     *)
(* block" - also behind an inner loop, in a macro called in one, after an  *)
(* exit.                                                                   *)
Repeats == {k \in DOMAIN srcs : srcs[k].kind = "repeat"}
InnerCounter ==
    IF Repeats = {} THEN -1
    ELSE srcs[CHOOSE k \in Repeats : \A j \in Repeats : j <= k].reptn
RptcntIsInner == rptcnt = InnerCounter

-----------------------------------------------------------------------------
(* The blocks of Blocks: one per level, then those skipped as a whole.     *)
StatusOf(state) ==
    CASE state = 1 -> "open" [] state = 0 -> "waiting" [] state = -1 -> "finished"
Levels(n) == [l \in 1 .. n |-> StatusOf(cond[l])]
BlocksNow ==
    [l \in 1 .. clev + ifnesting |-> IF l <= clev THEN StatusOf(cond[l]) ELSE "ignored"]
CallsNow ==
    [k \in DOMAIN srcs |-> [blocks |-> Levels(srcs[k].cond_level),
                            left   |-> srcs[k].left]]

Promise == INSTANCE Blocks WITH blocks <- BlocksNow, calls <- CallsNow

(* Text is assembled exactly where the blocks around it say so, and leaving*)
(* a macro early restores them.                                            *)
ImplementsBlocks == Promise!Spec

(* The manual says of exitmacro that it "resets the level of conditional   *)
(* assembly to a state before the macro was invoked": the macro was        *)
(* invoked in text that was assembled, so what follows the call is, too.   *)
ExitRestores ==
    [][ExitMacro /\ cur_src.macro # NoMacro => cond_state']_vars
=============================================================================
