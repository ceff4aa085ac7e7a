------------------------------ MODULE Resolver ------------------------------
(***************************************************************************)
(* How vasm gives every instruction its size and every label its address   *)
(* (vasm.c: resolve_section, resolve, assemble; atom.c: internal_add_atom; *)
(* cpus/6502/cpu.c: optimize_instruction), for sources made of absolute    *)
(* .org sections, as roms/prog.s is.                                       *)
(*                                                                         *)
(* A size depends on label addresses and these on the sizes before them,   *)
(* so each section is resolved in passes until one changes nothing, and a  *)
(* section is resolved again when a section it refers to has moved.        *)
(***************************************************************************)
EXTENDS Integers, Sequences, FiniteSets

CONSTANTS
    Programs,      \* the sources to assemble, see IsProgram
    Labels,        \* the label names they use
    BranchOpt,     \* option -opt-branch
    Reach,         \* a short branch reaches -Reach .. Reach-1 (128)
    PageEnd,       \* last address of the zero page (255)
    AddressEnd,    \* last address of the address space (65535)
    FastOptPhase,  \* FASTOPTPHASE (200)
    MaxPasses      \* MAXPASSES or -maxpasses (1500)

ASSUME OptAssumption == BranchOpt \in BOOLEAN
ASSUME ReachAssumption == Reach \in Nat \ {0} /\ PageEnd \in Nat /\ AddressEnd \in Nat
ASSUME PassAssumption == FastOptPhase \in Nat /\ MaxPasses \in Nat \ {0}

(* A program is a sequence of sections, each an origin and its atoms:      *)
(* labels, data of a fixed size (aligned to "align"), and instructions     *)
(* whose operand is k + coef * address of "name".                          *)
Ops == {"abs", "jmp", "bcc", "bra"}
LabelAtom(l) == [kind |-> "label", name |-> l, align |-> 1]
DataAtom(n, al) == [kind |-> "data", size |-> n, align |-> al]
Inst(op, k, coef, l) ==
    [kind |-> "inst", op |-> op, k |-> k, coef |-> coef, name |-> l, align |-> 1]

LabelAtoms == [kind : {"label"}, name : Labels, align : {1}]
DataAtoms == [kind : {"data"}, size : Nat, align : Nat \ {0}]
Insts == [kind : {"inst"}, op : Ops, k : Int, coef : Int, name : Labels, align : {1}]

Defines(at, l) == at.kind = "label" /\ at.name = l

(* No label is defined twice and none an operand names is missing: the      *)
(* parser and the output module reject every other source.                 *)
IsProgram(p) ==
    /\ p \in Seq([org : Nat, code : Seq(LabelAtoms \cup DataAtoms \cup Insts)])
    /\ p # <<>>
    /\ \A s \in DOMAIN p : \A j \in DOMAIN p[s].code :
          /\ p[s].code[j].kind = "label" =>
                \A t \in DOMAIN p : \A n \in DOMAIN p[t].code :
                   Defines(p[t].code[n], p[s].code[j].name) => t = s /\ n = j
          /\ p[s].code[j].kind = "inst" =>
                \E t \in DOMAIN p : \E n \in DOMAIN p[t].code :
                   Defines(p[t].code[n], p[s].code[j].name)
ASSUME ProgramAssumption == \A p \in Programs : IsProgram(p)

VARIABLES
    prog,        \* the program being assembled
    phase,       \* "parse", "sweep", "pass", "atoms", "assemble", "done", "failed"
    sec, i,      \* the section and the atom in hand
    pc,          \* sec->pc
    known,       \* labels defined so far (all of them after parsing)
    label,       \* label->pc of every known label
    lastsize,    \* p->lastsize of every atom
    todo, deps,  \* resolve()'s work set and the sections depending on each
    finished,    \* resolve()'s flag: this sweep found nothing to do
    pass, fast, extra, stable,   \* resolve_section()'s pass, fastphase,
                                 \* extrapass and done
    errors       \* errors found while assembling

vars == <<prog, phase, sec, i, pc, known, label, lastsize, todo, deps, finished,
          pass, fast, extra, stable, errors>>
passVars == <<pass, fast, extra, stable>>

Sections == DOMAIN prog
Code(s) == prog[s].code
Org(s) == prog[s].org
Atom == Code(sec)[i]

-----------------------------------------------------------------------------
Align(p, n) == p + ((n - (p % n)) % n)

(* pcalign(): where the atom in hand begins. *)
Here == Align(pc, Atom.align)

Value(at) == at.k + at.coef * label[at.name]
Resolved(at) == at.name \in known

(* The distance optimize_instruction and eval_instruction measure. *)
Distance(at, p) == Value(at) - (p + 2)
InReach(at, p) == Distance(at, p) \in -Reach .. Reach - 1
InZeroPage(at) == Value(at) \in 0 .. PageEnd

(* Mutant: the long form is chosen one byte too late. *)
InstSizeLate(at, p) ==
    IF at.op \in {"abs", "jmp"} THEN 3
    ELSE IF Resolved(at) /\ Distance(at, p) \notin -Reach .. Reach THEN 5 ELSE 2

(***************************************************************************)
(* optimize_instruction() and get_inst_size().  The translation of JMP to  *)
(* BRA sits in the branch of an "if (IS_ABS(type)) ... else" that a JMP,   *)
(* whose operand type is ABS, never takes, so a JMP keeps its three bytes. *)
(* A symbol not yet defined is an import to the parser: its size is the    *)
(* one a linker could still fill in.                                       *)
(***************************************************************************)
InstSize(at, p) ==
    CASE at.op = "abs" -> IF Resolved(at) /\ InZeroPage(at) THEN 2 ELSE 3
      [] at.op = "jmp" -> 3
      [] at.op = "bcc" ->
            IF BranchOpt /\ Resolved(at) /\ ~InReach(at, p) THEN 5 ELSE 2
      [] at.op = "bra" ->
            IF BranchOpt /\ Resolved(at) /\ ~InReach(at, p) THEN 3 ELSE 2

AtomSize(at, p) ==
    CASE at.kind = "label" -> 0
      [] at.kind = "data"  -> at.size
      [] at.kind = "inst"  -> InstSize(at, p)

HomeOf(l) ==
    CHOOSE s \in Sections : \E j \in DOMAIN Code(s) : Defines(Code(s)[j], l)

-----------------------------------------------------------------------------
Init ==
    /\ prog \in Programs
    /\ phase = "parse"
    /\ sec = 1 /\ i = 1 /\ pc = Org(1)
    /\ known = {} /\ label = [l \in Labels |-> 0]
    /\ lastsize = [s \in Sections |-> [j \in DOMAIN Code(s) |-> 0]]
    /\ todo = Sections /\ deps = [s \in Sections |-> {}]
    /\ finished = FALSE
    /\ pass = 0 /\ fast = 0 /\ extra = FALSE /\ stable = FALSE
    /\ errors = 0

AtAtom == i <= Len(Code(sec))
AtEnd == i > Len(Code(sec))

(* internal_add_atom(): a first size, with the labels defined so far. *)
ParseAtom ==
    /\ phase = "parse" /\ AtAtom
    /\ \/ /\ Atom.kind = "label"
          /\ known' = known \cup {Atom.name}
          /\ label' = [label EXCEPT ![Atom.name] = Here]
       \/ Atom.kind # "label" /\ UNCHANGED <<known, label>>
    /\ lastsize' = [lastsize EXCEPT ![sec][i] = AtomSize(Atom, Here)]
    /\ pc' = Here + AtomSize(Atom, Here)
    /\ i' = i + 1
    /\ UNCHANGED <<prog, phase, sec, todo, deps, finished, passVars, errors>>

(* The next .org opens the next section; after the last, resolve() begins. *)
ParseSection ==
    /\ phase = "parse" /\ AtEnd
    /\ \/ /\ sec + 1 \in Sections
          /\ sec' = sec + 1 /\ i' = 1 /\ pc' = Org(sec + 1)
          /\ UNCHANGED <<phase, finished>>
       \/ /\ sec + 1 \notin Sections
          /\ phase' = "sweep" /\ sec' = 1 /\ finished' = TRUE
          /\ UNCHANGED <<i, pc>>
    /\ UNCHANGED <<prog, known, label, lastsize, todo, deps, passVars, errors>>

-----------------------------------------------------------------------------
(* resolve(): sweep over the sections until none is left to do. *)
PickSection ==
    /\ phase = "sweep" /\ sec \in Sections
    /\ \/ /\ sec \in todo
          /\ phase' = "pass" /\ finished' = FALSE
          /\ pass' = 0 /\ fast' = FastOptPhase
          /\ UNCHANGED sec
       \/ /\ sec \notin todo
          /\ sec' = sec + 1
          /\ UNCHANGED <<phase, finished, pass, fast>>
    /\ UNCHANGED <<prog, i, pc, known, label, lastsize, todo, deps, extra, stable, errors>>

EndSweep ==
    /\ phase = "sweep" /\ sec \notin Sections
    /\ \/ ~finished /\ sec' = 1 /\ finished' = TRUE /\ UNCHANGED <<phase, i, pc>>
       \/ /\ finished
          /\ phase' = "assemble" /\ sec' = 1 /\ i' = 1 /\ pc' = Org(1)
          /\ UNCHANGED finished
    /\ UNCHANGED <<prog, known, label, lastsize, todo, deps, passVars, errors>>

LimitPassedBy1(n) == n > MaxPasses    \* mutant
Limit(n) == n >= MaxPasses

(* resolve_section(): one more pass, or fatal error 7. *)
BeginPass ==
    /\ phase = "pass"
    /\ pass' = pass + 1
    /\ \/ /\ Limit(pass')
          /\ phase' = "failed"
          /\ UNCHANGED <<i, pc, extra, stable>>
       \/ /\ ~Limit(pass')
          /\ phase' = "atoms" /\ i' = 1 /\ pc' = Org(sec)
          /\ stable' = TRUE /\ extra' = (pass' <= fast)
    /\ UNCHANGED <<prog, sec, known, label, lastsize, todo, deps, finished, fast, errors>>

MoveLabel ==
    /\ phase = "atoms" /\ AtAtom /\ Atom.kind = "label"
    /\ label' = [label EXCEPT ![Atom.name] = Here]
    /\ stable' = (stable /\ label[Atom.name] = Here)
    /\ pc' = Here /\ i' = i + 1
    /\ UNCHANGED <<prog, phase, sec, known, lastsize, todo, deps, finished,
                   pass, fast, extra, errors>>

(* Safe mode: after the fast phase an unstable pass changes no other       *)
(* instruction.                                                            *)
SafeNever == FALSE                    \* mutant
Safe == pass > fast

KeepSize ==
    /\ phase = "atoms" /\ AtAtom
    /\ Atom.kind = "inst" /\ Safe /\ ~stable
    /\ pc' = Here + lastsize[sec][i] /\ i' = i + 1
    /\ UNCHANGED <<prog, phase, sec, known, label, lastsize, todo, deps, finished,
                   passVars, errors>>

Record(size) == [lastsize EXCEPT ![sec][i] = size]

(* eval_expr notes that the section depends on the one its label is in.    *)
NoDependency == deps                  \* mutant
Dependency ==
    IF Atom.kind = "inst" /\ HomeOf(Atom.name) # sec
    THEN [deps EXCEPT ![HomeOf(Atom.name)] = @ \cup {sec}] ELSE deps

(* In the fast phase, an atom that grows makes the pass count.             *)
ExtendsAlways(size, old) == TRUE      \* mutant
Extends(size, old) == Safe \/ size <= old

ResizeAtom ==
    /\ phase = "atoms" /\ AtAtom /\ Atom.kind # "label"
    /\ ~(Atom.kind = "inst" /\ Safe /\ ~stable)
    /\ LET size == AtomSize(Atom, Here)
           old  == lastsize[sec][i]
       IN  /\ lastsize' = Record(size)
           /\ stable' = (stable /\ size = old)
           /\ extra' = (extra /\ Extends(size, old))
           /\ pc' = Here + size
    /\ deps' = Dependency
    /\ i' = i + 1
    /\ UNCHANGED <<prog, phase, sec, known, label, todo, finished, pass, fast, errors>>

(* Another pass if anything changed; else the sections that depend on this *)
(* one are to do again, unless the first pass already changed nothing.     *)
Again == ~stable

TodoForgets == todo \ {sec}           \* mutants
TodoKeeps == todo
TodoAfter == (todo \ {sec}) \cup (IF pass > 1 THEN deps[sec] ELSE {})

EndPass ==
    /\ phase = "atoms" /\ AtEnd
    /\ fast' = IF extra THEN fast + 1 ELSE fast
    /\ \/ Again  /\ phase' = "pass" /\ UNCHANGED <<sec, todo>>
       \/ ~Again /\ phase' = "sweep" /\ sec' = sec + 1 /\ todo' = TodoAfter
    /\ UNCHANGED <<prog, i, pc, known, label, lastsize, deps, finished,
                   pass, extra, stable, errors>>

-----------------------------------------------------------------------------
(* assemble(): eval_instruction decides once more and checks the ranges.   *)
RangeOK(at, p) ==
    IF at.op \in {"bcc", "bra"} /\ InstSize(at, p) = 2
    THEN InReach(at, p) ELSE Value(at) \in 0 .. AddressEnd

AssembleAtom ==
    /\ phase = "assemble" /\ AtAtom
    /\ errors' = IF Atom.kind = "inst" /\ ~RangeOK(Atom, Here) THEN errors + 1 ELSE errors
    /\ pc' = Here + AtomSize(Atom, Here)
    /\ i' = i + 1
    /\ UNCHANGED <<prog, phase, sec, known, label, lastsize, todo, deps, finished, passVars>>

AssembleSection ==
    /\ phase = "assemble" /\ AtEnd
    /\ \/ /\ sec + 1 \in Sections
          /\ sec' = sec + 1 /\ i' = 1 /\ pc' = Org(sec + 1)
          /\ UNCHANGED phase
       \/ /\ sec + 1 \notin Sections
          /\ phase' = "done"
          /\ UNCHANGED <<sec, i, pc>>
    /\ UNCHANGED <<prog, known, label, lastsize, todo, deps, finished, passVars, errors>>

Next ==
    \/ ParseAtom \/ ParseSection
    \/ PickSection \/ EndSweep
    \/ BeginPass \/ MoveLabel \/ KeepSize \/ ResizeAtom \/ EndPass
    \/ AssembleAtom \/ AssembleSection

Spec == Init /\ [][Next]_vars
FairSpec == Spec /\ WF_vars(Next)

-----------------------------------------------------------------------------
TypeOK ==
    /\ phase \in {"parse", "sweep", "pass", "atoms", "assemble", "done", "failed"}
    /\ sec \in 1 .. Len(prog) + 1 /\ i \in Nat \ {0} /\ pc \in Int
    /\ known \subseteq Labels /\ label \in [Labels -> Int]
    /\ todo \subseteq Sections /\ deps \in [Sections -> SUBSET Sections]
    /\ finished \in BOOLEAN /\ extra \in BOOLEAN /\ stable \in BOOLEAN
    /\ pass \in 0 .. MaxPasses /\ fast \in Nat /\ errors \in Nat

(* The code is emitted where the labels said it would be: when assemble()  *)
(* reaches a label, the address is the one every reference to the label    *)
(* was resolved with.  vasm never compares the two.                        *)
LabelsAgree ==
    phase = "assemble" /\ AtAtom /\ Atom.kind = "label" => label[Atom.name] = Here

(* Every label of section s is where the sizes before it put it, and every *)
(* size is the one the labels call for.                                    *)
Consistent(s) ==
    LET begin[m \in 1 .. Len(Code(s)) + 1] ==
            IF m = 1 THEN Org(s)
            ELSE Align(begin[m - 1], Code(s)[m - 1].align) + lastsize[s][m - 1]
    IN  \A j \in DOMAIN Code(s) :
            LET at   == Code(s)[j]
                here == Align(begin[j], at.align)
            IN  /\ at.kind = "label" => label[at.name] = here
                /\ lastsize[s][j] = AtomSize(at, here)

(* When resolve() ends, resolving any section once more would change       *)
(* nothing: no section was left behind by a label that moved elsewhere.    *)
DoneIsConsistent ==
    phase = "assemble" => \A s \in Sections : Consistent(s)

(* Sections in which an instruction that grows can only make others grow:  *)
(* nothing is aligned, and no operand comes into reach as labels move away.*)
GrowsWith(s, at) ==
    \/ at.op = "jmp"
    \/ at.op = "abs" /\ (at.coef = 0 \/ (at.coef = 1 /\ at.k >= 0))
    \/ /\ at.op \in {"bcc", "bra"} /\ at.coef = 1 /\ HomeOf(at.name) = s
       /\ at.k \in -Reach .. Reach + 1
Growing(s) ==
    \A j \in DOMAIN Code(s) :
        /\ Code(s)[j].align = 1
        /\ Code(s)[j].kind = "inst" => GrowsWith(s, Code(s)[j])

Instructions(s) == Cardinality({j \in DOMAIN Code(s) : Code(s)[j].kind = "inst"})

(* The fast phase, which is extended after passes in which nothing grows,  *)
(* ends in any section: only what has grown can shrink.                    *)
FastPhaseEnds ==
    phase \in {"pass", "atoms", "failed"} =>
        fast <= FastOptPhase + (FastOptPhase + 1) * Instructions(sec)

(* In the fast phase even branches to labels may oscillate for ever, as the*)
(* addresses behind an instruction are those of the pass before.  Safe mode*)
(* does settle a growing section, so that error 7 comes only if few passes *)
(* are left for it ...                                                     *)
SafeModeSettles ==
    phase = "failed" /\ Growing(sec) =>
        MaxPasses <= fast + Instructions(sec) * Instructions(sec) + 1

(* ... and never with a limit that allows for both.                        *)
PassesNeeded(s) == (FastOptPhase + Instructions(s)) * (Instructions(s) + 1) + 1
NeverFails ==
    phase = "failed" => ~Growing(sec) \/ MaxPasses <= PassesNeeded(sec)

(* With -opt-branch no branch is out of range in the end: the form chosen  *)
(* for it while addresses were still moving also fits the final ones, so   *)
(* that only an operand outside the address space can still be an error.   *)
Outside(s, j) ==
    Code(s)[j].kind = "inst" /\ Value(Code(s)[j]) \notin 0 .. AddressEnd
BranchesReach ==
    phase = "done" /\ BranchOpt /\ errors > 0 =>
        \E s \in Sections : \E j \in DOMAIN Code(s) : Outside(s, j)

(* Resolving ends, with an assembled program or with error 7 ...           *)
Terminates == <>(phase \in {"done", "failed"})
(* ... always so when there is only one section: the pass limit of         *)
(* resolve_section() then bounds resolve() too.                            *)
SectionTerminates == (Len(prog) = 1) ~> (phase \in {"done", "failed"})

(* How many steps it takes at most: one for every atom to parse, for every *)
(* atom of every pass the limit allows, for the two sweeps, and for every  *)
(* atom to assemble.                                                       *)
StepsLeft ==
    LET atoms  == Len(Code(1))
        sweeps == atoms + 5
        passes == sweeps + (MaxPasses - pass) * (atoms + 3)
    IN  CASE phase = "parse"    -> passes + 1 + (atoms + 2 - i)
          [] phase = "sweep"    -> IF todo # {} THEN sweeps + MaxPasses * (atoms + 3) + 1
                                   ELSE atoms + 4 - (IF finished THEN sec ELSE 0)
          [] phase = "pass"     -> passes
          [] phase = "atoms"    -> passes + (atoms + 2 - i)
          [] phase = "assemble" -> atoms + 2 - i
          [] OTHER              -> 0
SectionSpends == [][Len(prog) = 1 => StepsLeft' < StepsLeft]_vars
=============================================================================
