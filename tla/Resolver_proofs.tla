--------------------------- MODULE Resolver_proofs ---------------------------
(***************************************************************************)
(* Proofs about Resolver, for any programs, reaches and pass limits: what  *)
(* resolve() leaves when it ends is consistent, and assemble() then emits  *)
(* every label where it was resolved to be; and how many passes            *)
(* resolve_section() can need.                                             *)
(***************************************************************************)
EXTENDS Resolver, WellFoundedInduction, TLAPS, FiniteSetTheorems

(* b[m] is where the m-th atom begins before its alignment, given sizes.   *)
Chain(b, code, org, sizes, n) ==
    /\ b \in [1 .. n -> Int]
    /\ b[1] = org
    /\ \A m \in 1 .. n - 1 : b[m + 1] = Align(b[m], code[m].align) + sizes[m]

(* An atom at "here" has the size, or the address, the labels call for.    *)
Fits(at, here, size) ==
    /\ at.kind = "label" => label[at.name] = here
    /\ size = AtomSize(at, here)

Good(b, code, sizes, n) ==
    \A m \in 1 .. n - 1 : Fits(code[m], Align(b[m], code[m].align), sizes[m])

(* The first n-1 atoms of section s are as another pass would leave them.  *)
FitTo(s, n, p) ==
    \E b : /\ Chain(b, Code(s), Org(s), lastsize[s], n)
           /\ Good(b, Code(s), lastsize[s], n)
           /\ b[n] = p
Fit(s) == \E p \in Int : FitTo(s, Len(Code(s)) + 1, p)

RecordedTo(s, n) ==
    \A m \in 1 .. n - 1 :
        Code(s)[m].kind = "inst" =>
            HomeOf(Code(s)[m].name) = s \/ s \in deps[HomeOf(Code(s)[m].name)]
Recorded(s) == RecordedTo(s, Len(Code(s)) + 1)

Sizes ==
    /\ lastsize = [s \in Sections |-> lastsize[s]]
    /\ \A s \in Sections :
          /\ lastsize[s] \in [DOMAIN Code(s) -> Nat]
          /\ \A m \in DOMAIN Code(s) : Code(s)[m].kind = "label" => lastsize[s][m] = 0

InProgress == phase \in {"pass", "atoms"}

Places ==
    /\ prog \in Programs
    /\ phase \in {"parse", "atoms", "assemble"} =>
          sec \in Sections /\ i \in 1 .. Len(Code(sec)) + 1
    /\ phase \in {"pass", "atoms"} => pass < MaxPasses
    /\ phase = "atoms" => pass >= 1
    /\ phase = "parse" => todo = Sections
    /\ InProgress => sec \in todo /\ ~finished
    /\ phase = "assemble" => todo = {}
    /\ phase = "sweep" /\ finished => \A s \in todo : s >= sec

(* resolve_section() has changed something since resolve() called it.      *)
Moved == InProgress /\ pass >= 1 /\ (phase = "atoms" => pass > 1 \/ ~stable)

(* A section that is not to do again fits, or depends on the section in    *)
(* hand, which has moved and so will put it back.                          *)
Settled ==
    phase # "failed" =>
        \A s \in Sections \ todo :
            /\ Recorded(s)
            /\ Fit(s) \/ (Moved /\ s \in deps[sec])

(* As long as a pass has changed nothing, what it has seen fits.           *)
Seen ==
    phase = "atoms" /\ stable => FitTo(sec, i, pc) /\ RecordedTo(sec, i)

(* assemble() walks along the addresses resolve() left.                    *)
BeginsAt(s, n, p) ==
    \E b : /\ Chain(b, Code(s), Org(s), lastsize[s], Len(Code(s)) + 1)
           /\ Good(b, Code(s), lastsize[s], Len(Code(s)) + 1)
           /\ b[n] = p
Emitted == phase = "assemble" => BeginsAt(sec, i, pc)

(* TypeOK in two parts, the truth values and the rest. *)
Flags == finished \in BOOLEAN /\ extra \in BOOLEAN /\ stable \in BOOLEAN
Values ==
    /\ phase \in {"parse", "sweep", "pass", "atoms", "assemble", "done", "failed"}
    /\ sec \in 1 .. Len(prog) + 1 /\ i \in Nat \ {0} /\ pc \in Int
    /\ known \subseteq Labels /\ label \in [Labels -> Int]
    /\ todo \subseteq Sections /\ deps \in [Sections -> SUBSET Sections]
    /\ pass \in 0 .. MaxPasses /\ fast \in Nat /\ errors \in Nat

Types == TypeOK /\ Sizes /\ Places
IInv == Types /\ Settled /\ Seen /\ Emitted

-----------------------------------------------------------------------------
(* The atoms of a program. *)
IsAtom(at) ==
    /\ at.kind \in {"label", "data", "inst"} /\ at.align \in Nat \ {0}
    /\ at.kind = "data" => at.size \in Nat
    /\ at.kind = "label" => at.name \in Labels
    /\ at.kind = "inst" => at.op \in Ops /\ at.k \in Int /\ at.coef \in Int
                           /\ at.name \in Labels

LEMMA AtomIsAtom ==
    \A at \in LabelAtoms \cup DataAtoms \cup Insts : IsAtom(at)
  BY DEF LabelAtoms, DataAtoms, Insts, IsAtom

LEMMA ProgramShape ==
    ASSUME prog \in Programs
    PROVE  /\ Len(prog) \in Nat \ {0} /\ Sections = 1 .. Len(prog)
           /\ \A s \in Sections :
                /\ Org(s) \in Nat /\ Len(Code(s)) \in Nat
                /\ DOMAIN Code(s) = 1 .. Len(Code(s))
                /\ \A m \in DOMAIN Code(s) : IsAtom(Code(s)[m])
  <1> DEFINE All == LabelAtoms \cup DataAtoms \cup Insts
             Section == [org : Nat, code : Seq(All)]
  <1>1. prog \in Seq(Section) /\ prog # <<>>
    BY ProgramAssumption DEF IsProgram
  <1> HIDE DEF All, Section
  <1>2. Len(prog) \in Nat \ {0} /\ Sections = 1 .. Len(prog)
    BY <1>1 DEF Sections
  <1>3. ASSUME NEW s \in Sections
        PROVE  /\ Org(s) \in Nat /\ Len(Code(s)) \in Nat
               /\ DOMAIN Code(s) = 1 .. Len(Code(s))
               /\ \A m \in DOMAIN Code(s) : IsAtom(Code(s)[m])
    <2>1. prog[s] \in Section
      BY <1>1, <1>2
    <2>2. Org(s) \in Nat /\ Code(s) \in Seq(All)
      BY <2>1 DEF Org, Code, Section
    <2>3. \A m \in DOMAIN Code(s) : Code(s)[m] \in All
      BY <2>2
    <2> QED  BY <2>2, <2>3, AtomIsAtom DEF All
  <1> QED  BY <1>2, <1>3

(* A label has one definition, and every operand's label has one. *)
LEMMA LabelsDefined ==
    ASSUME prog \in Programs, NEW s \in Sections, NEW m \in DOMAIN Code(s)
    PROVE  /\ Code(s)[m].kind = "label" => HomeOf(Code(s)[m].name) = s
           /\ Code(s)[m].kind = "inst" => HomeOf(Code(s)[m].name) \in Sections
  <1> DEFINE l == Code(s)[m].name
             Defined(t) == \E n \in DOMAIN Code(t) : Defines(Code(t)[n], l)
  <1>1. /\ Code(s)[m].kind = "label" =>
              \A t \in Sections : \A n \in DOMAIN Code(t) :
                 Defines(Code(t)[n], l) => t = s /\ n = m
        /\ Code(s)[m].kind = "inst" => \E t \in Sections : Defined(t)
    <2>1. IsProgram(prog)
      BY ProgramAssumption
    <2>2. s \in DOMAIN prog /\ m \in DOMAIN prog[s].code
      BY DEF Sections, Code
    <2> QED  BY <2>1, <2>2 DEF IsProgram, Sections, Code
  <1>2. HomeOf(l) = CHOOSE t \in Sections : Defined(t)
    BY DEF HomeOf
  <1>3. CASE Code(s)[m].kind = "label"
    <2>1. Defined(s)
      BY <1>3 DEF Defines
    <2>2. \A t \in Sections : Defined(t) => t = s
      BY <1>1, <1>3
    <2> HIDE DEF Defined
    <2> QED  BY <1>2, <1>3, <2>1, <2>2
  <1>4. CASE Code(s)[m].kind = "inst"
    <2>1. \E t \in Sections : Defined(t)
      BY <1>1, <1>4
    <2> HIDE DEF Defined
    <2> QED  BY <1>2, <1>4, <2>1
  <1> QED  BY <1>3, <1>4

(* No label is defined at two places. *)
LEMMA OneDefinition ==
    ASSUME prog \in Programs, NEW s \in Sections, NEW t \in Sections,
           NEW m \in DOMAIN Code(s), NEW n \in DOMAIN Code(t),
           Code(s)[m].kind = "label", Code(t)[n].kind = "label",
           Code(s)[m].name = Code(t)[n].name
    PROVE  s = t
  BY LabelsDefined

LEMMA AlignType ==
    ASSUME NEW p \in Int, NEW n \in Nat \ {0}
    PROVE  Align(p, n) \in Int
  BY DEF Align

LEMMA SizeType ==
    ASSUME NEW at, NEW p, IsAtom(at)
    PROVE  AtomSize(at, p) \in Nat /\ (at.kind = "label" => AtomSize(at, p) = 0)
  <1>1. at.kind = "inst" => InstSize(at, p) \in Nat
    BY DEF InstSize, IsAtom, Ops
  <1> QED  BY <1>1 DEF AtomSize, IsAtom

(* What an atom's size depends on. *)
LEMMA SizeFrame ==
    ASSUME NEW at, NEW p, known' = known,
           at.kind = "inst" => label'[at.name] = label[at.name]
    PROVE  AtomSize(at, p)' = AtomSize(at, p)
  <1>1. at.kind = "inst" => InstSize(at, p)' = InstSize(at, p)
    BY DEF InstSize, Resolved, InZeroPage, InReach, Distance, Value
  <1> QED  BY <1>1 DEF AtomSize

LEMMA GoodFrame ==
    ASSUME NEW b, NEW code, NEW sizes, NEW n \in Nat, Good(b, code, sizes, n),
           known' = known,
           \A m \in 1 .. n - 1 : code[m].kind # "data" =>
               label'[code[m].name] = label[code[m].name],
           \A m \in 1 .. n - 1 : code[m].kind \in {"label", "data", "inst"}
    PROVE  Good(b, code, sizes, n)'
  <1> SUFFICES ASSUME NEW m \in 1 .. n - 1
               PROVE  Fits(code[m], Align(b[m], code[m].align), sizes[m])'
    BY DEF Good
  <1>1. PICK at, here : at = code[m] /\ here = Align(b[m], code[m].align)
    OBVIOUS
  <1>2. Fits(at, here, sizes[m])
    BY <1>1 DEF Good
  <1>3. at.kind # "data" => label'[at.name] = label[at.name]
    BY <1>1
  <1>4. AtomSize(at, here)' = AtomSize(at, here)
    BY <1>3, SizeFrame
  <1>5. Fits(at, here, sizes[m])'
    BY <1>2, <1>3, <1>4 DEF Fits
  <1> QED  BY <1>1, <1>5

(* One atom more. *)
LEMMA Extend ==
    ASSUME NEW b, NEW code, NEW org, NEW sizes, NEW n \in Nat \ {0},
           Chain(b, code, org, sizes, n), Good(b, code, sizes, n),
           Fits(code[n], Align(b[n], code[n].align), sizes[n]),
           sizes[n] \in Int, code[n].align \in Nat \ {0}
    PROVE  \E c : /\ Chain(c, code, org, sizes, n + 1)
                  /\ Good(c, code, sizes, n + 1)
                  /\ c[n + 1] = Align(b[n], code[n].align) + sizes[n]
  <1> DEFINE last == Align(b[n], code[n].align) + sizes[n]
             c == [m \in 1 .. n + 1 |-> IF m = n + 1 THEN last ELSE b[m]]
  <1>1. b[n] \in Int /\ \A m \in 1 .. n : b[m] \in Int
    BY DEF Chain
  <1>2. last \in Int
    BY <1>1, AlignType
  <1> HIDE DEF last
  <1>3. c \in [1 .. n + 1 -> Int] /\ c[n + 1] = last /\ \A m \in 1 .. n : c[m] = b[m]
    BY <1>1, <1>2
  <1> HIDE DEF c
  <1>4. c[1] = org
    BY <1>3 DEF Chain
  <1>5. ASSUME NEW m \in 1 .. n
        PROVE  c[m + 1] = Align(c[m], code[m].align) + sizes[m]
    <2>1. CASE m = n
      BY <1>3, <2>1 DEF last
    <2>2. CASE m \in 1 .. n - 1
      <3>1. c[m] = b[m] /\ c[m + 1] = b[m + 1]
        BY <1>3, <2>2
      <3> QED  BY <3>1, <2>2 DEF Chain
    <2> QED  BY <2>1, <2>2
  <1>6. ASSUME NEW m \in 1 .. n
        PROVE  Fits(code[m], Align(c[m], code[m].align), sizes[m])
    <2>1. c[m] = b[m]
      BY <1>3
    <2>2. m = n \/ m \in 1 .. n - 1
      OBVIOUS
    <2> QED  BY <2>1, <2>2 DEF Good
  <1>7. 1 .. (n + 1) - 1 = 1 .. n
    OBVIOUS
  <1>8. Chain(c, code, org, sizes, n + 1)
    BY <1>3, <1>4, <1>5, <1>7 DEF Chain
  <1>9. Good(c, code, sizes, n + 1)
    BY <1>6, <1>7 DEF Good
  <1> QED  BY <1>3, <1>8, <1>9 DEF last

(* Chain without the type, which is not known of a recursive function.     *)
Steps(b, code, sizes, n) ==
    /\ b = [m \in 1 .. n |-> b[m]]
    /\ \A m \in 1 .. n - 1 : b[m + 1] = Align(b[m], code[m].align) + sizes[m]

(* The begins of a section are determined by its sizes. *)
LEMMA ChainUnique ==
    ASSUME NEW b, NEW c, NEW code, NEW sizes, NEW n \in Nat \ {0},
           Steps(b, code, sizes, n), Steps(c, code, sizes, n), b[1] = c[1]
    PROVE  b = c
  <1> DEFINE T == {m \in 1 .. n : b[m] # c[m]}
  <1>1. SUFFICES ASSUME T # {} PROVE FALSE
    <2>1. \A m \in 1 .. n : b[m] = c[m]
      BY <1>1
    <2> QED  BY <2>1 DEF Steps
  <1>2. T \subseteq Nat
    OBVIOUS
  <1> HIDE DEF T
  <1>3. \E x \in T : \A y \in T : ~ (<<y, x>> \in OpToRel(<, Nat))
    BY <1>1, <1>2, NatLessThanWellFounded, WFMin
  <1>4. PICK x \in T : \A y \in T : ~ (<<y, x>> \in OpToRel(<, Nat))
    BY <1>3
  <1>5. \A y \in T : ~ (y < x)
    BY <1>2, <1>4 DEF OpToRel
  <1>6. x \in 1 .. n /\ b[x] # c[x]
    BY DEF T
  <1>7. CASE x = 1
    BY <1>6, <1>7
  <1>8. CASE x > 1
    <2>1. x - 1 \in 1 .. n - 1 /\ x - 1 \in 1 .. n /\ x - 1 < x /\ (x - 1) + 1 = x
      BY <1>6, <1>8
    <2>2. b[x - 1] = c[x - 1]
      BY <1>5, <2>1 DEF T
    <2>3. /\ b[x] = Align(b[x - 1], code[x - 1].align) + sizes[x - 1]
          /\ c[x] = Align(c[x - 1], code[x - 1].align) + sizes[x - 1]
      BY <2>1 DEF Steps
    <2> QED  BY <1>6, <2>2, <2>3
  <1> QED  BY <1>6, <1>7, <1>8

-----------------------------------------------------------------------------
LEMMA TypeParts == TypeOK <=> Flags /\ Values
  BY DEF TypeOK, Flags, Values

(* Types, sizes and where in the program each phase is.                    *)
THEOREM TypesInit == Init => Types
  <1> SUFFICES ASSUME Init PROVE Types
    OBVIOUS
  <1>1. prog \in Programs
    BY DEF Init
  <1>2. 1 \in Sections /\ 1 \in 1 .. Len(prog) + 1 /\ Org(1) \in Int
        /\ Len(Code(1)) \in Nat
    BY <1>1, ProgramShape
  <1>3. TypeOK
    <2>1. Flags
      BY DEF Init, Flags
    <2>2. Values
      <3>1. label \in [Labels -> Int] /\ deps \in [Sections -> SUBSET Sections]
        BY DEF Init
      <3>2. pass \in 0 .. MaxPasses /\ sec \in 1 .. Len(prog) + 1
        BY <1>2, PassAssumption DEF Init
      <3> QED  BY <1>2, <3>1, <3>2 DEF Init, Values
    <2> QED  BY <2>1, <2>2, TypeParts
  <1>4. Sizes
    BY DEF Init, Sizes
  <1>5. Places
    BY <1>2 DEF Init, Places, InProgress
  <1> QED  BY <1>3, <1>4, <1>5 DEF Types

LEMMA AtomHere ==
    ASSUME Types, phase \in {"parse", "atoms", "assemble"}, AtAtom
    PROVE  /\ sec \in Sections /\ i \in 1 .. Len(Code(sec)) /\ i \in DOMAIN Code(sec)
           /\ i + 1 \in 1 .. Len(Code(sec)) + 1 /\ IsAtom(Atom)
           /\ Here \in Int /\ AtomSize(Atom, Here) \in Nat
           /\ Atom.kind = "label" => AtomSize(Atom, Here) = 0
           /\ lastsize[sec][i] \in Nat
  <1>1. /\ sec \in Sections /\ i \in 1 .. Len(Code(sec)) /\ i \in DOMAIN Code(sec)
        /\ i + 1 \in 1 .. Len(Code(sec)) + 1 /\ IsAtom(Atom)
    BY ProgramShape DEF Types, TypeOK, Places, AtAtom, Atom
  <1>2. Here \in Int
    BY <1>1, AlignType DEF Here, IsAtom, Types, TypeOK
  <1> QED  BY <1>1, <1>2, SizeType DEF Types, Sizes

LEMMA SizeUpdate ==
    ASSUME Sizes, prog' = prog, sec \in Sections, i \in DOMAIN Code(sec),
           NEW v \in Nat, Atom.kind = "label" => v = 0,
           lastsize' = [lastsize EXCEPT ![sec][i] = v]
    PROVE  /\ Sizes' /\ lastsize'[sec][i] = v
           /\ \A s \in Sections \ {sec} : lastsize'[s] = lastsize[s]
  <1>1. \A s \in Sections :
           lastsize'[s] = IF s = sec THEN [lastsize[s] EXCEPT ![i] = v] ELSE lastsize[s]
    BY DEF Sizes
  <1>2. Sections' = Sections /\ \A s \in Sections : Code(s)' = Code(s)
    BY DEF Sections, Code
  <1>3. lastsize' = [s \in Sections |-> lastsize'[s]]
    BY DEF Sizes
  <1>4. ASSUME NEW s \in Sections
        PROVE  /\ lastsize'[s] \in [DOMAIN Code(s) -> Nat]
               /\ \A m \in DOMAIN Code(s) :
                     Code(s)[m].kind = "label" => lastsize'[s][m] = 0
    BY <1>1 DEF Sizes, Atom
  <1>5. lastsize'[sec][i] = v
    BY <1>1 DEF Sizes
  <1>6. Sizes'
    BY <1>2, <1>3, <1>4 DEF Sizes
  <1> QED  BY <1>1, <1>5, <1>6

LEMMA SizesSame ==
    ASSUME Sizes, prog' = prog, lastsize' = lastsize
    PROVE  Sizes'
  BY DEF Sizes, Sections, Code

THEOREM TypesNext == Types /\ [Next]_vars => Types'
  <1> SUFFICES ASSUME Types, [Next]_vars PROVE Types'
    OBVIOUS
  <1>t. TypeOK /\ Sizes /\ Places /\ prog \in Programs /\ MaxPasses \in Nat \ {0}
        /\ FastOptPhase \in Nat
    BY PassAssumption DEF Types, Places
  <1>v. Flags /\ Values
    BY <1>t, TypeParts
  <1>s. /\ Len(prog) \in Nat \ {0} /\ Sections = 1 .. Len(prog)
        /\ \A s \in Sections : Org(s) \in Nat /\ Len(Code(s)) \in Nat
    BY <1>t, ProgramShape
  <1>n. ASSUME prog' = prog
        PROVE  Sections' = Sections /\ \A s : Code(s)' = Code(s) /\ Org(s)' = Org(s)
    BY <1>n DEF Sections, Code, Org
  <1> USE DEF passVars
  <1>1. CASE ParseAtom
    <2> USE <1>1 DEF ParseAtom
    <2>1. /\ sec \in Sections /\ i \in DOMAIN Code(sec)
          /\ i + 1 \in 1 .. Len(Code(sec)) + 1 /\ IsAtom(Atom)
          /\ Here \in Int /\ AtomSize(Atom, Here) \in Nat
          /\ Atom.kind = "label" => AtomSize(Atom, Here) = 0
      BY AtomHere
    <2>2. TypeOK'
      <3>1. known' \subseteq Labels /\ label' \in [Labels -> Int]
        BY <1>t, <2>1 DEF TypeOK, IsAtom
      <3>2. i' \in Nat \ {0} /\ pc' \in Int
        BY <1>t, <2>1 DEF TypeOK
      <3> QED  BY <1>t, <1>n, <3>1, <3>2 DEF TypeOK
    <2>3. Sizes'
      BY <1>t, <2>1, SizeUpdate
    <2>4. Places'
      BY <1>t, <1>n, <2>1 DEF Places, InProgress
    <2> QED  BY <2>2, <2>3, <2>4 DEF Types
  <1>2. CASE ParseSection
    <2> USE <1>2 DEF ParseSection
    <2>1. Sizes'
      BY <1>t, SizesSame
    <2>2. TypeOK'
      <3>1. Flags'
        BY <1>v, Zenon DEF Flags
      <3>2. Values'
        BY <1>v, <1>t, <1>s, <1>n DEF Values
      <3> QED  BY <3>1, <3>2 DEF TypeOK, Flags, Values
    <2>3. Places'
      BY <1>t, <1>s, <1>n DEF Places, InProgress, TypeOK
    <2> QED  BY <2>1, <2>2, <2>3 DEF Types
  <1>3. CASE PickSection
    <2> USE <1>3 DEF PickSection
    <2>1. Sizes'
      BY <1>t, SizesSame
    <2>2. TypeOK'
      <3>1. Flags'
        BY <1>v, Zenon DEF Flags
      <3>2. Values'
        <4>1. /\ sec' \in 1 .. Len(prog) + 1 /\ phase' \in {"pass", "sweep"}
              /\ pass' \in 0 .. MaxPasses /\ fast' \in Nat
          BY <1>v, <1>t, <1>s DEF Values
        <4>2. Sections' = Sections
          BY <1>n
        <4> QED  BY <1>v, <4>1, <4>2 DEF Values
      <3> QED  BY <3>1, <3>2 DEF TypeOK, Flags, Values
    <2>3. Places'
      BY <1>t, <1>s, <1>n DEF Places, InProgress, TypeOK
    <2> QED  BY <2>1, <2>2, <2>3 DEF Types
  <1>4. CASE EndSweep
    <2> USE <1>4 DEF EndSweep
    <2>1. Sizes'
      BY <1>t, SizesSame
    <2>2. TypeOK'
      <3>1. Flags'
        BY <1>v, Zenon DEF Flags
      <3>2. Values'
        BY <1>v, <1>t, <1>s, <1>n DEF Values
      <3> QED  BY <3>1, <3>2 DEF TypeOK, Flags, Values
    <2>3. Places'
      <3>1. CASE finished
        <4>1. \A s \in todo : s \in 1 .. Len(prog) /\ s >= sec
          BY <1>t, <1>s, <3>1 DEF Places, TypeOK
        <4>2. sec > Len(prog)
          BY <1>t, <1>s DEF TypeOK
        <4>3. todo = {}
          BY <1>s, <1>t, <4>1, <4>2 DEF TypeOK
        <4> QED  BY <1>t, <1>s, <1>n, <3>1, <4>3 DEF Places, InProgress
      <3>2. CASE ~finished
        <4>1. \A s \in todo : s >= 1
          BY <1>t, <1>s DEF TypeOK
        <4> QED  BY <1>t, <1>n, <3>2, <4>1 DEF Places, InProgress
      <3> QED  BY <3>1, <3>2
    <2> QED  BY <2>1, <2>2, <2>3 DEF Types
  <1>5. CASE BeginPass
    <2> USE <1>5 DEF BeginPass
    <2>1. Sizes'
      BY <1>t, SizesSame
    <2>2. pass < MaxPasses /\ sec \in todo /\ todo \subseteq Sections
          /\ ~finished /\ pass \in Nat
      BY <1>t DEF Places, InProgress, TypeOK
    <2>3. TypeOK'
      <3>1. Flags'
        <4>1. extra' \in BOOLEAN
          <5>1. (pass' <= fast) \in BOOLEAN
            OBVIOUS
          <5> QED  BY <1>v, <5>1, Zenon DEF Flags
        <4> QED  BY <1>v, <4>1, Zenon DEF Flags
      <3>2. Values'
        BY <1>v, <1>t, <1>s, <1>n, <2>2 DEF Values, Limit
      <3> QED  BY <3>1, <3>2 DEF TypeOK, Flags, Values
    <2>4. Places'
      BY <1>t, <1>s, <1>n, <2>2 DEF Places, InProgress, Limit
    <2> QED  BY <2>1, <2>3, <2>4 DEF Types
  <1>6. CASE MoveLabel
    <2> USE <1>6 DEF MoveLabel
    <2>1. /\ sec \in Sections /\ i + 1 \in 1 .. Len(Code(sec)) + 1
          /\ IsAtom(Atom) /\ Here \in Int
      BY AtomHere
    <2>2. Sizes'
      BY <1>t, SizesSame
    <2>3. TypeOK'
      <3>1. label' \in [Labels -> Int] /\ stable' \in BOOLEAN /\ i' \in Nat \ {0}
        BY <1>t, <2>1 DEF TypeOK, IsAtom
      <3> QED  BY <1>t, <1>n, <2>1, <3>1 DEF TypeOK
    <2>4. Places'
      BY <1>t, <1>n, <2>1 DEF Places, InProgress
    <2> QED  BY <2>2, <2>3, <2>4 DEF Types
  <1>7. CASE KeepSize
    <2> USE <1>7 DEF KeepSize
    <2>1. /\ sec \in Sections /\ i + 1 \in 1 .. Len(Code(sec)) + 1
          /\ Here \in Int /\ lastsize[sec][i] \in Nat
      BY AtomHere
    <2>2. Sizes'
      BY <1>t, SizesSame
    <2>3. TypeOK'
      <3>1. Flags'
        BY <1>v, Zenon DEF Flags
      <3>2. Values'
        <4>1. pc' \in Int /\ i' \in Nat \ {0}
          BY <1>v, <2>1 DEF Values
        <4>2. Sections' = Sections
          BY <1>n
        <4> QED  BY <1>v, <4>1, <4>2 DEF Values
      <3> QED  BY <3>1, <3>2 DEF TypeOK, Flags, Values
    <2>4. Places'
      BY <1>t, <1>n, <2>1 DEF Places, InProgress
    <2> QED  BY <2>2, <2>3, <2>4 DEF Types
  <1>8. CASE ResizeAtom
    <2> USE <1>8 DEF ResizeAtom
    <2>1. /\ sec \in Sections /\ i \in DOMAIN Code(sec)
          /\ i + 1 \in 1 .. Len(Code(sec)) + 1 /\ IsAtom(Atom)
          /\ Here \in Int /\ AtomSize(Atom, Here) \in Nat
          /\ lastsize[sec][i] \in Nat
      BY AtomHere
    <2>2. lastsize' = [lastsize EXCEPT ![sec][i] = AtomSize(Atom, Here)]
      BY DEF Record
    <2>3. Sizes'
      BY <1>t, <2>1, <2>2, SizeUpdate
    <2>4. TypeOK'
      <3>1. deps' \in [Sections -> SUBSET Sections]
        BY <1>t, <2>1 DEF TypeOK, Dependency
      <3>2. stable' \in BOOLEAN /\ extra' \in BOOLEAN
        BY <1>t, Zenon DEF TypeOK
      <3>3. pc' \in Int /\ i' \in Nat \ {0}
        BY <1>t, <2>1 DEF TypeOK
      <3> QED  BY <1>t, <1>n, <3>1, <3>2, <3>3 DEF TypeOK
    <2>5. Places'
      BY <1>t, <1>n, <2>1 DEF Places, InProgress
    <2> QED  BY <2>3, <2>4, <2>5 DEF Types
  <1>9. CASE EndPass
    <2> USE <1>9 DEF EndPass
    <2>1. Sizes'
      BY <1>t, SizesSame
    <2>2. sec \in Sections /\ deps[sec] \subseteq Sections /\ ~finished
      BY <1>t DEF Places, TypeOK, InProgress
    <2>3. TypeOK'
      <3>1. Flags'
        BY <1>v, Zenon DEF Flags
      <3>2. Values'
        <4>1. todo' \subseteq Sections
          BY <1>v, <2>2 DEF Values, TodoAfter
        <4>2. fast' \in Nat /\ sec' \in 1 .. Len(prog) + 1
          BY <1>v, <1>s, <2>2 DEF Values
        <4> QED  BY <1>v, <1>n, <4>1, <4>2 DEF Values
      <3> QED  BY <3>1, <3>2 DEF TypeOK, Flags, Values
    <2>4. Places'
      BY <1>t, <1>s, <1>n, <2>2 DEF Places, InProgress
    <2> QED  BY <2>1, <2>3, <2>4 DEF Types
  <1>10. CASE AssembleAtom
    <2> USE <1>10 DEF AssembleAtom
    <2>1. /\ sec \in Sections /\ i + 1 \in 1 .. Len(Code(sec)) + 1
          /\ Here \in Int /\ AtomSize(Atom, Here) \in Nat
      BY AtomHere
    <2>2. Sizes'
      BY <1>t, SizesSame
    <2>3. TypeOK'
      <3>1. Flags'
        BY <1>v, Zenon DEF Flags
      <3>2. Values'
        <4>1. pc' \in Int /\ errors' \in Nat /\ i' \in Nat \ {0}
          BY <1>v, <2>1 DEF Values
        <4>2. Sections' = Sections
          BY <1>n
        <4> QED  BY <1>v, <4>1, <4>2 DEF Values
      <3> QED  BY <3>1, <3>2 DEF TypeOK, Flags, Values
    <2>4. Places'
      BY <1>t, <1>n, <2>1 DEF Places, InProgress
    <2> QED  BY <2>2, <2>3, <2>4 DEF Types
  <1>11. CASE AssembleSection
    <2> USE <1>11 DEF AssembleSection
    <2>1. Sizes'
      BY <1>t, SizesSame
    <2>2. TypeOK'
      <3>1. Flags'
        BY <1>v, Zenon DEF Flags
      <3>2. Values'
        BY <1>v, <1>t, <1>s, <1>n DEF Values
      <3> QED  BY <3>1, <3>2 DEF TypeOK, Flags, Values
    <2>3. Places'
      BY <1>t, <1>s, <1>n DEF Places, InProgress
    <2> QED  BY <2>1, <2>2, <2>3 DEF Types
  <1>12. CASE UNCHANGED vars
    <2> USE <1>12 DEF vars
    <2>1. Sizes'
      BY <1>t, SizesSame
    <2>2. TypeOK'
      BY <1>t, <1>n DEF TypeOK
    <2>3. Places'
      BY <1>t, <1>n DEF Places, InProgress
    <2> QED  BY <2>1, <2>2, <2>3 DEF Types
  <1> QED
    BY <1>1, <1>2, <1>3, <1>4, <1>5, <1>6, <1>7, <1>8, <1>9, <1>10, <1>11, <1>12 DEF Next

(* Every variable keeps its type, whatever programs are assembled.         *)
THEOREM TypeCorrect == Spec => []TypeOK
  BY TypesInit, TypesNext, PTL DEF Spec, Types

-----------------------------------------------------------------------------
(* What keeps a fitting section fitting.                                   *)
LEMMA ChainKept ==
    ASSUME prog \in Programs, prog' = prog, known' = known, NEW s \in Sections,
           lastsize'[s] = lastsize[s], NEW n \in 1 .. Len(Code(s)) + 1, NEW b,
           \A m \in 1 .. n - 1 : Code(s)[m].kind # "data" =>
               label'[Code(s)[m].name] = label[Code(s)[m].name],
           Chain(b, Code(s), Org(s), lastsize[s], n), Good(b, Code(s), lastsize[s], n)
    PROVE  Chain(b, Code(s), Org(s), lastsize[s], n)' /\ Good(b, Code(s), lastsize[s], n)'
  <1>1. PICK code, org, sizes : code = Code(s) /\ org = Org(s) /\ sizes = lastsize[s]
    OBVIOUS
  <1>2. Code(s)' = code /\ Org(s)' = org /\ lastsize[s]' = sizes
    BY <1>1 DEF Code, Org
  <1>3. n \in Nat /\ \A m \in 1 .. n - 1 : code[m].kind \in {"label", "data", "inst"}
    <2>1. Len(Code(s)) \in Nat /\ DOMAIN Code(s) = 1 .. Len(Code(s))
          /\ \A m \in DOMAIN Code(s) : IsAtom(Code(s)[m])
      BY ProgramShape
    <2>2. n \in Nat /\ \A m \in 1 .. n - 1 : m \in DOMAIN Code(s)
      BY <2>1
    <2> QED  BY <1>1, <2>1, <2>2 DEF IsAtom
  <1>4. Good(b, code, sizes, n) /\ Chain(b, code, org, sizes, n)
    BY <1>1
  <1>5. Good(b, code, sizes, n)'
    BY <1>1, <1>3, <1>4, GoodFrame
  <1>6. Good(b, Code(s), lastsize[s], n)'
    BY <1>2, <1>5 DEF Good
  <1>7. Chain(b, Code(s), Org(s), lastsize[s], n)'
    BY <1>2, <1>4 DEF Chain
  <1> QED  BY <1>6, <1>7

LEMMA FitToKept ==
    ASSUME prog \in Programs, prog' = prog, known' = known, NEW s \in Sections,
           lastsize'[s] = lastsize[s], NEW n \in 1 .. Len(Code(s)) + 1, NEW p,
           \A m \in 1 .. n - 1 : Code(s)[m].kind # "data" =>
               label'[Code(s)[m].name] = label[Code(s)[m].name],
           FitTo(s, n, p)
    PROVE  FitTo(s, n, p)'
  BY ChainKept DEF FitTo

LEMMA FitKept ==
    ASSUME prog \in Programs, prog' = prog, known' = known, NEW s \in Sections,
           lastsize'[s] = lastsize[s], Fit(s),
           \A m \in DOMAIN Code(s) : Code(s)[m].kind # "data" =>
               label'[Code(s)[m].name] = label[Code(s)[m].name]
    PROVE  Fit(s)'
  <1>1. PICK n : n = Len(Code(s)) + 1
    OBVIOUS
  <1>2. Len(Code(s)) \in Nat /\ DOMAIN Code(s) = 1 .. Len(Code(s))
    BY ProgramShape
  <1>3. n \in 1 .. Len(Code(s)) + 1 /\ 1 .. n - 1 = DOMAIN Code(s)
    BY <1>1, <1>2
  <1>4. PICK p \in Int : FitTo(s, n, p)
    BY <1>1 DEF Fit
  <1>5. FitTo(s, n, p)'
    BY <1>3, <1>4, FitToKept
  <1>6. (Len(Code(s)) + 1)' = n
    BY <1>1 DEF Code
  <1> QED  BY <1>5, <1>6 DEF Fit

LEMMA RecordedKept ==
    ASSUME prog \in Programs, prog' = prog, \A x \in Sections : deps[x] \subseteq deps'[x],
           NEW s \in Sections, NEW n \in 1 .. Len(Code(s)) + 1, RecordedTo(s, n)
    PROVE  RecordedTo(s, n)'
  <1>1. \A l : HomeOf(l)' = HomeOf(l)
    BY DEF HomeOf, Sections, Code
  <1>2. Code(s)' = Code(s)
    BY DEF Code
  <1>3. Len(Code(s)) \in Nat /\ DOMAIN Code(s) = 1 .. Len(Code(s))
    BY ProgramShape
  <1>4. ASSUME NEW m \in 1 .. n - 1, Code(s)[m].kind = "inst",
               HomeOf(Code(s)[m].name) # s
        PROVE  s \in deps'[HomeOf(Code(s)[m].name)]
    <2>1. m \in DOMAIN Code(s)
      BY <1>3
    <2>2. HomeOf(Code(s)[m].name) \in Sections
      BY <1>4, <2>1, LabelsDefined
    <2> QED  BY <1>4, <2>2 DEF RecordedTo
  <1> QED  BY <1>1, <1>2, <1>4 DEF RecordedTo

(* A section begins to fit at its first atom, and one atom further when    *)
(* that atom does.                                                         *)
LEMMA FitStart ==
    ASSUME prog \in Programs, NEW s \in Sections
    PROVE  FitTo(s, 1, Org(s))
  <1> DEFINE b == [m \in 1 .. 1 |-> Org(s)]
  <1>1. Org(s) \in Int
    BY ProgramShape
  <1>2. Chain(b, Code(s), Org(s), lastsize[s], 1) /\ Good(b, Code(s), lastsize[s], 1)
    BY <1>1 DEF Chain, Good
  <1> QED  BY <1>2 DEF FitTo

LEMMA FitStep ==
    ASSUME prog \in Programs, NEW s \in Sections, NEW n \in 1 .. Len(Code(s)), NEW p,
           FitTo(s, n, p), lastsize[s][n] \in Nat,
           Fits(Code(s)[n], Align(p, Code(s)[n].align), lastsize[s][n])
    PROVE  FitTo(s, n + 1, Align(p, Code(s)[n].align) + lastsize[s][n])
  <1>1. PICK b : /\ Chain(b, Code(s), Org(s), lastsize[s], n)
                 /\ Good(b, Code(s), lastsize[s], n)
                 /\ b[n] = p
    BY DEF FitTo
  <1>2. n \in Nat \ {0} /\ Code(s)[n].align \in Nat \ {0}
    BY ProgramShape DEF IsAtom
  <1>3. PICK code, org, sizes : code = Code(s) /\ org = Org(s) /\ sizes = lastsize[s]
    OBVIOUS
  <1>4. \E c : /\ Chain(c, code, org, sizes, n + 1)
               /\ Good(c, code, sizes, n + 1)
               /\ c[n + 1] = Align(b[n], code[n].align) + sizes[n]
    <2>1. Fits(code[n], Align(b[n], code[n].align), sizes[n])
      BY <1>1, <1>3
    <2>2. Chain(b, code, org, sizes, n) /\ Good(b, code, sizes, n)
      BY <1>1, <1>3
    <2> QED  BY <1>2, <1>3, <2>1, <2>2, Extend
  <1> QED  BY <1>1, <1>3, <1>4 DEF FitTo

LEMMA FitBegins ==
    ASSUME prog \in Programs, NEW s \in Sections, Fit(s)
    PROVE  BeginsAt(s, 1, Org(s))
  BY DEF Fit, FitTo, BeginsAt, Chain

-----------------------------------------------------------------------------
(* Each part of the invariant is kept.                                     *)
LEMMA SettledKept ==
    ASSUME Types, Settled, prog' = prog, known' = known, label' = label,
           lastsize' = lastsize, deps' = deps, todo' = todo, phase # "failed",
           Moved /\ phase' # "failed" => Moved' /\ sec' = sec
    PROVE  Settled'
  <1> SUFFICES ASSUME phase' # "failed", NEW s \in Sections \ todo
               PROVE  Recorded(s)' /\ (Fit(s)' \/ (Moved' /\ s \in deps'[sec']))
    BY DEF Settled, Sections
  <1>1. prog \in Programs
    BY DEF Types, Places
  <1>2. Recorded(s) /\ (Fit(s) \/ (Moved /\ s \in deps[sec]))
    BY DEF Settled
  <1>3. Recorded(s)'
    <2>1. PICK n : n = Len(Code(s)) + 1
      OBVIOUS
    <2>2. n \in 1 .. Len(Code(s)) + 1
      BY <1>1, <2>1, ProgramShape
    <2>3. RecordedTo(s, n)'
      BY <1>1, <1>2, <2>1, <2>2, RecordedKept DEF Recorded
    <2>4. (Len(Code(s)) + 1)' = n
      BY <2>1 DEF Code
    <2> QED  BY <2>3, <2>4 DEF Recorded
  <1>4. Fit(s) => Fit(s)'
    BY <1>1, FitKept
  <1> QED  BY <1>2, <1>3, <1>4

(* A step of resolve_section() on the section in hand, seen by another:    *)
(* the section in hand has moved if one of its labels has.                 *)
LEMMA OthersSettled ==
    ASSUME Types, Settled, InProgress, InProgress', phase # "failed",
           prog' = prog, known' = known, todo' = todo, sec' = sec,
           \A x \in Sections : deps[x] \subseteq deps'[x],
           \A s \in Sections \ {sec} : lastsize'[s] = lastsize[s],
           Moved => Moved',
           \/ label' = label
           \/ /\ Moved'
              /\ \A l \in Labels : label'[l] # label[l] => HomeOf(l) = sec
    PROVE  Settled'
  <1> SUFFICES ASSUME NEW s \in Sections \ todo
               PROVE  Recorded(s)' /\ (Fit(s)' \/ (Moved' /\ s \in deps'[sec]))
    BY DEF Settled, Sections
  <1>1. prog \in Programs /\ sec \in todo /\ sec \in Sections
    BY DEF Types, Places, TypeOK
  <1>2. Recorded(s) /\ (Fit(s) \/ (Moved /\ s \in deps[sec])) /\ s # sec
    BY <1>1 DEF Settled
  <1>3. Recorded(s)'
    <2>1. PICK n : n = Len(Code(s)) + 1
      OBVIOUS
    <2>2. n \in 1 .. Len(Code(s)) + 1
      BY <1>1, <2>1, ProgramShape
    <2>3. RecordedTo(s, n)'
      BY <1>1, <1>2, <2>1, <2>2, RecordedKept DEF Recorded
    <2>4. (Len(Code(s)) + 1)' = n
      BY <2>1 DEF Code
    <2> QED  BY <2>3, <2>4 DEF Recorded
  <1>4. CASE Moved /\ s \in deps[sec]
    BY <1>1, <1>3, <1>4
  <1>5. CASE Fit(s) /\ \A m \in DOMAIN Code(s) : Code(s)[m].kind # "data" =>
                 label'[Code(s)[m].name] = label[Code(s)[m].name]
    <2>1. Fit(s)'
      BY <1>1, <1>2, <1>5, FitKept
    <2> QED  BY <1>3, <2>1
  <1>6. ASSUME Fit(s), NEW m \in DOMAIN Code(s), Code(s)[m].kind # "data",
               label'[Code(s)[m].name] # label[Code(s)[m].name]
        PROVE  Moved' /\ s \in deps'[sec]
    <2>1. IsAtom(Code(s)[m]) /\ m \in 1 .. (Len(Code(s)) + 1) - 1
      BY <1>1, ProgramShape
    <2>2. Code(s)[m].name \in Labels
      BY <1>6, <2>1 DEF IsAtom
    <2>3. Moved' /\ HomeOf(Code(s)[m].name) = sec
      BY <1>6, <2>2
    <2>4. Code(s)[m].kind = "inst"
      BY <1>1, <1>2, <1>6, <2>1, <2>3, LabelsDefined DEF IsAtom
    <2>5. s \in deps[sec]
      BY <1>2, <2>1, <2>3, <2>4 DEF Recorded, RecordedTo
    <2> QED  BY <1>1, <2>3, <2>5
  <1> QED  BY <1>2, <1>3, <1>4, <1>5, <1>6

(* The atom in hand and the addresses seen so far. *)
LEMMA SeenStep ==
    ASSUME Types, phase = "atoms", AtAtom, FitTo(sec, i, pc),
           prog' = prog, known' = known, label' = label, sec' = sec, i' = i + 1,
           lastsize'[sec] = lastsize[sec],
           Fits(Atom, Here, lastsize[sec][i]), pc' = Here + lastsize[sec][i]
    PROVE  FitTo(sec, i, pc)'
  <1>1. /\ sec \in Sections /\ i \in 1 .. Len(Code(sec))
        /\ i + 1 \in 1 .. Len(Code(sec)) + 1 /\ lastsize[sec][i] \in Nat
        /\ prog \in Programs
    BY AtomHere DEF Types, Places
  <1>2. PICK s, n, p, q : s = sec /\ n = i /\ p = pc /\ q = pc'
    OBVIOUS
  <1>3. FitTo(s, n + 1, q)
    <2>1. q = Align(p, Code(s)[n].align) + lastsize[s][n]
      BY <1>2 DEF Here, Atom
    <2>2. Fits(Code(s)[n], Align(p, Code(s)[n].align), lastsize[s][n])
      BY <1>2 DEF Here, Atom
    <2> QED  BY <1>1, <1>2, <2>1, <2>2, FitStep
  <1>4. FitTo(s, n + 1, q)'
    BY <1>1, <1>2, <1>3, FitToKept
  <1>5. sec' = s /\ i' = n + 1 /\ pc' = q
    BY <1>2
  <1> QED  BY <1>4, <1>5 DEF FitTo

LEMMA SettledNext == IInv /\ [Next]_vars => Settled'
  <1> SUFFICES ASSUME IInv, [Next]_vars PROVE Settled'
    OBVIOUS
  <1>t. Types /\ Settled /\ TypeOK /\ Places /\ prog \in Programs /\ Seen
    BY DEF IInv, Types, Places
  <1> USE DEF passVars
  <1>1. CASE ParseAtom \/ ParseSection
    <2>1. todo' = Sections' /\ phase' # "failed"
      BY <1>t, <1>1 DEF ParseAtom, ParseSection, Places, Sections
    <2> QED  BY <2>1 DEF Settled
  <1>2. CASE PickSection \/ EndSweep
    <2>1. ~Moved
      BY <1>2 DEF PickSection, EndSweep, Moved, InProgress
    <2> QED  BY <1>t, <1>2, <2>1, SettledKept DEF PickSection, EndSweep
  <1>3. CASE BeginPass
    <2>1. Moved /\ phase' # "failed" => Moved'
      <3>1. pass \in Nat
        BY <1>t DEF TypeOK
      <3> QED  BY <1>3, <3>1 DEF BeginPass, Moved, InProgress
    <2> QED  BY <1>t, <1>3, <2>1, SettledKept DEF BeginPass
  <1>4. CASE MoveLabel
    <2> USE <1>4 DEF MoveLabel
    <2>1. /\ sec \in Sections /\ i \in DOMAIN Code(sec) /\ IsAtom(Atom)
      BY <1>t, AtomHere
    <2>2. pass \in Nat /\ pass >= 1 /\ label \in [Labels -> Int]
      BY <1>t DEF TypeOK, Places
    <2>3. InProgress /\ InProgress' /\ (Moved => Moved')
      BY <2>2 DEF InProgress, Moved
    <2>4. CASE label[Atom.name] = Here
      <3>1. label' = label
        BY <2>2, <2>4
      <3> QED  BY <1>t, <2>3, <3>1, OthersSettled
    <2>5. CASE label[Atom.name] # Here
      <3>1. Moved'
        BY <2>2, <2>3, <2>5 DEF Moved
      <3>2. HomeOf(Atom.name) = sec
        BY <1>t, <2>1, LabelsDefined DEF Atom
      <3>3. \A l \in Labels : label'[l] # label[l] => l = Atom.name
        BY <2>2
      <3> QED  BY <1>t, <2>3, <3>1, <3>2, <3>3, OthersSettled
    <2> QED  BY <2>4, <2>5
  <1>5. CASE KeepSize
    <2>1. Moved => Moved'
      BY <1>5 DEF KeepSize, Moved, InProgress
    <2> QED  BY <1>t, <1>5, <2>1, SettledKept DEF KeepSize
  <1>6. CASE ResizeAtom
    <2> USE <1>6 DEF ResizeAtom
    <2>1. /\ sec \in Sections /\ i \in DOMAIN Code(sec) /\ IsAtom(Atom)
          /\ AtomSize(Atom, Here) \in Nat
      BY <1>t, AtomHere
    <2>2. \A s \in Sections \ {sec} : lastsize'[s] = lastsize[s]
      BY <1>t, <2>1, SizeUpdate DEF Types, Record
    <2>3. stable' => stable
      BY Zenon
    <2>4. InProgress /\ InProgress' /\ (Moved => Moved')
      BY <2>3 DEF InProgress, Moved
    <2>5. \A x \in Sections : deps[x] \subseteq deps'[x]
      BY <1>t DEF Dependency, TypeOK
    <2> QED  BY <1>t, <2>2, <2>4, <2>5, OthersSettled
  <1>7. CASE EndPass /\ Again
    <2>1. Moved'
      BY <1>t, <1>7 DEF EndPass, Again, Moved, InProgress, Places
    <2> QED  BY <1>t, <1>7, <2>1, SettledKept DEF EndPass, Again
  <1>8. CASE EndPass /\ ~Again
    <2> USE <1>8 DEF EndPass, Again
    <2>1. sec \in Sections /\ stable /\ phase = "atoms" /\ i = Len(Code(sec)) + 1
      BY <1>t, ProgramShape DEF Places, AtEnd
    <2>2. FitTo(sec, i, pc) /\ RecordedTo(sec, i)
      BY <1>t, <2>1 DEF Seen
    <2>3. Fit(sec) /\ Recorded(sec)
      BY <1>t, <2>1, <2>2 DEF Fit, Recorded, TypeOK
    <2>4. ASSUME NEW s \in Sections \ todo'
          PROVE  Fit(s) /\ Recorded(s)
      <3>1. CASE s = sec
        BY <2>3, <3>1
      <3>2. CASE s # sec
        <4>1. s \notin todo /\ ~(pass > 1 /\ s \in deps[sec])
          BY <2>4, <3>2 DEF TodoAfter
        <4>2. ~(Moved /\ s \in deps[sec])
          BY <2>1, <4>1 DEF Moved
        <4> QED  BY <1>t, <2>1, <4>1, <4>2 DEF Settled
      <3> QED  BY <3>1, <3>2
    <2>5. ASSUME NEW s \in Sections \ todo'
          PROVE  Fit(s)' /\ Recorded(s)'
      <3>1. Fit(s)'
        BY <1>t, <2>4, <2>5, FitKept
      <3>2. Recorded(s)'
        <4>1. PICK n : n = Len(Code(s)) + 1
          OBVIOUS
        <4>2. n \in 1 .. Len(Code(s)) + 1
          BY <1>t, <4>1, ProgramShape
        <4>3. RecordedTo(s, n)'
          BY <1>t, <2>4, <4>1, <4>2, RecordedKept DEF Recorded
        <4>4. (Len(Code(s)) + 1)' = n
          BY <4>1 DEF Code
        <4> QED  BY <4>3, <4>4 DEF Recorded
      <3> QED  BY <3>1, <3>2
    <2> QED  BY <2>5 DEF Settled, Sections
  <1>9. CASE AssembleAtom \/ AssembleSection
    <2>1. ~Moved
      BY <1>9 DEF AssembleAtom, AssembleSection, Moved, InProgress
    <2> QED  BY <1>t, <1>9, <2>1, SettledKept DEF AssembleAtom, AssembleSection
  <1>10. CASE UNCHANGED vars
    <2>1. CASE phase = "failed"
      BY <1>10, <2>1 DEF Settled, vars
    <2>2. CASE phase # "failed"
      <3>1. Moved => Moved'
        BY <1>10 DEF vars, Moved, InProgress
      <3> QED  BY <1>t, <1>10, <2>2, <3>1, SettledKept DEF vars
    <2> QED  BY <2>1, <2>2
  <1> QED
    BY <1>1, <1>2, <1>3, <1>4, <1>5, <1>6, <1>7, <1>8, <1>9, <1>10 DEF Next

LEMMA SeenNext == IInv /\ [Next]_vars => Seen'
  <1> SUFFICES ASSUME IInv, [Next]_vars, phase' = "atoms", stable'
               PROVE  (FitTo(sec, i, pc) /\ RecordedTo(sec, i))'
    BY DEF Seen
  <1>t. Types /\ TypeOK /\ Sizes /\ Places /\ prog \in Programs /\ Seen
    BY DEF IInv, Types, Places
  <1> USE DEF passVars
  <1>1. CASE BeginPass
    <2> USE <1>1 DEF BeginPass
    <2>1. sec \in Sections
      BY <1>t DEF Places, InProgress, TypeOK
    <2>2. PICK s, p : s = sec /\ p = Org(sec)
      OBVIOUS
    <2>3. FitTo(s, 1, p) /\ 1 \in 1 .. Len(Code(s)) + 1
      BY <1>t, <2>1, <2>2, FitStart, ProgramShape
    <2>4. FitTo(s, 1, p)'
      BY <1>t, <2>1, <2>2, <2>3, FitToKept
    <2>5. sec' = s /\ i' = 1 /\ pc' = p
      BY <2>2
    <2>6. RecordedTo(sec, i)'
      BY <2>5 DEF RecordedTo
    <2> QED  BY <2>4, <2>5, <2>6 DEF FitTo
  <1>2. CASE MoveLabel
    <2> USE <1>2 DEF MoveLabel
    <2>1. /\ sec \in Sections /\ i \in DOMAIN Code(sec) /\ i \in 1 .. Len(Code(sec))
          /\ IsAtom(Atom) /\ Here \in Int /\ AtomSize(Atom, Here) = 0
      BY <1>t, AtomHere
    <2>2. stable /\ label[Atom.name] = Here
      BY Zenon
    <2>3. label' = label
      BY <1>t, <2>2 DEF TypeOK
    <2>4. FitTo(sec, i, pc) /\ RecordedTo(sec, i)
      BY <1>t, <2>2 DEF Seen
    <2>5. lastsize[sec][i] = 0
      BY <1>t, <2>1 DEF Sizes, Atom
    <2>6. Fits(Atom, Here, lastsize[sec][i])
      BY <2>1, <2>2, <2>5 DEF Fits
    <2>7. FitTo(sec, i, pc)'
      BY <1>t, <2>1, <2>3, <2>4, <2>5, <2>6, SeenStep
    <2>8. PICK s, n : s = sec /\ n = i
      OBVIOUS
    <2>9. RecordedTo(s, n)'
      BY <1>t, <2>1, <2>4, <2>8, RecordedKept
    <2>10. RecordedTo(sec, i)'
      <3>1. Code(s)[n].kind = "label" /\ Code(s)' = Code(s)
        BY <2>8 DEF Atom, Code
      <3>2. 1 .. (n + 1) - 1 = (1 .. n - 1) \cup {n}
        BY <2>1, <2>8
      <3> QED  BY <2>8, <2>9, <3>1, <3>2 DEF RecordedTo
    <2> QED  BY <2>7, <2>10
  <1>3. CASE ResizeAtom
    <2> USE <1>3 DEF ResizeAtom
    <2>1. /\ sec \in Sections /\ i \in DOMAIN Code(sec) /\ i \in 1 .. Len(Code(sec))
          /\ IsAtom(Atom) /\ Here \in Int /\ AtomSize(Atom, Here) \in Nat
      BY <1>t, AtomHere
    <2>2. stable /\ AtomSize(Atom, Here) = lastsize[sec][i]
      BY Zenon
    <2>3. lastsize'[sec] = lastsize[sec]
      BY <1>t, <2>1, <2>2 DEF Sizes, Record
    <2>4. FitTo(sec, i, pc) /\ RecordedTo(sec, i)
      BY <1>t, <2>2 DEF Seen
    <2>5. Fits(Atom, Here, lastsize[sec][i])
      BY <2>2 DEF Fits
    <2>6. FitTo(sec, i, pc)'
      BY <1>t, <2>1, <2>2, <2>3, <2>4, <2>5, SeenStep
    <2>7. PICK s, n : s = sec /\ n = i
      OBVIOUS
    <2>8. \A x \in Sections : deps[x] \subseteq deps'[x]
      BY <1>t DEF Dependency, TypeOK
    <2>9. RecordedTo(s, n)'
      BY <1>t, <2>1, <2>4, <2>7, <2>8, RecordedKept
    <2>10. /\ Code(s)' = Code(s) /\ \A l : HomeOf(l)' = HomeOf(l)
           /\ 1 .. (n + 1) - 1 = (1 .. n - 1) \cup {n}
      BY <2>1, <2>7 DEF HomeOf, Sections, Code
    <2>11. Code(s)[n].kind = "inst" /\ HomeOf(Code(s)[n].name) # s =>
               s \in deps'[HomeOf(Code(s)[n].name)]
      <3>1. Code(s)[n].kind = "inst" => HomeOf(Code(s)[n].name) \in Sections
        BY <1>t, <2>1, <2>7, LabelsDefined
      <3> QED  BY <1>t, <2>7, <3>1 DEF Dependency, TypeOK, Atom
    <2>12. RecordedTo(sec, i)'
      BY <2>7, <2>9, <2>10, <2>11 DEF RecordedTo
    <2> QED  BY <2>6, <2>12
  <1>4. CASE UNCHANGED vars
    <2> USE <1>4 DEF vars
    <2>1. FitTo(sec, i, pc) /\ RecordedTo(sec, i)
      BY <1>t DEF Seen
    <2>2. PICK s, n, p : s = sec /\ n = i /\ p = pc
      OBVIOUS
    <2>3. s \in Sections /\ n \in 1 .. Len(Code(s)) + 1
      BY <1>t, <2>2 DEF Places
    <2>4. FitTo(s, n, p)'
      BY <1>t, <2>1, <2>2, <2>3, FitToKept
    <2>5. RecordedTo(s, n)'
      BY <1>t, <2>1, <2>2, <2>3, RecordedKept
    <2>6. sec' = s /\ i' = n /\ pc' = p
      BY <2>2
    <2> QED  BY <2>4, <2>5, <2>6 DEF FitTo, RecordedTo
  <1>5. ASSUME \/ ParseAtom \/ ParseSection \/ PickSection \/ EndSweep \/ KeepSize
               \/ EndPass \/ AssembleAtom \/ AssembleSection
        PROVE  FALSE
    BY <1>5 DEF ParseAtom, ParseSection, PickSection, EndSweep, KeepSize, EndPass,
                AssembleAtom, AssembleSection
  <1> QED  BY <1>1, <1>2, <1>3, <1>4, <1>5 DEF Next

(* The addresses of a section, seen after a step that moves nothing.       *)
LEMMA BeginsKept ==
    ASSUME prog \in Programs, prog' = prog, known' = known, label' = label,
           lastsize' = lastsize, NEW s \in Sections, NEW n, NEW p, BeginsAt(s, n, p)
    PROVE  BeginsAt(s, n, p)'
  <1>1. PICK k : k = Len(Code(s)) + 1
    OBVIOUS
  <1>2. k \in 1 .. Len(Code(s)) + 1
    BY <1>1, ProgramShape
  <1>3. PICK b : /\ Chain(b, Code(s), Org(s), lastsize[s], k)
                 /\ Good(b, Code(s), lastsize[s], k)
                 /\ b[n] = p
    BY <1>1 DEF BeginsAt
  <1>4. Chain(b, Code(s), Org(s), lastsize[s], k)' /\ Good(b, Code(s), lastsize[s], k)'
    BY <1>2, <1>3, ChainKept
  <1>5. (Len(Code(s)) + 1)' = k
    BY <1>1 DEF Code
  <1> QED  BY <1>3, <1>4, <1>5 DEF BeginsAt

LEMMA EmittedNext == IInv /\ [Next]_vars => Emitted'
  <1> SUFFICES ASSUME IInv, [Next]_vars, phase' = "assemble"
               PROVE  BeginsAt(sec, i, pc)'
    BY DEF Emitted
  <1>t. Types /\ TypeOK /\ Sizes /\ Places /\ prog \in Programs /\ Settled /\ Emitted
    BY DEF IInv, Types, Places
  <1> USE DEF passVars
  <1>1. CASE EndSweep \/ AssembleSection
    <2>1. /\ sec' \in Sections /\ i' = 1 /\ pc' = Org(sec') /\ phase # "failed"
          /\ prog' = prog /\ known' = known /\ label' = label /\ lastsize' = lastsize
      BY <1>t, <1>1, ProgramShape DEF EndSweep, AssembleSection
    <2>2. ~Moved
      BY <1>1 DEF EndSweep, AssembleSection, Moved, InProgress
    <2>3. todo = {}
      <3>1. Places' /\ todo' = todo
        BY <1>t, <1>1, TypesNext DEF Types, EndSweep, AssembleSection
      <3> QED  BY <3>1 DEF Places
    <2>4. PICK s, p : s = sec' /\ p = Org(sec')
      OBVIOUS
    <2>5. Fit(s)
      BY <1>t, <2>1, <2>2, <2>3, <2>4 DEF Settled
    <2>6. BeginsAt(s, 1, p)
      BY <1>t, <2>1, <2>4, <2>5, FitBegins
    <2>7. BeginsAt(s, 1, p)'
      BY <1>t, <2>1, <2>4, <2>6, BeginsKept
    <2>8. sec' = s /\ i' = 1 /\ pc' = p
      BY <2>1, <2>4
    <2> QED  BY <2>7, <2>8 DEF BeginsAt
  <1>2. CASE AssembleAtom
    <2> USE <1>2 DEF AssembleAtom
    <2>1. sec \in Sections /\ i \in 1 .. Len(Code(sec)) /\ Len(Code(sec)) \in Nat
      BY <1>t, AtomHere, ProgramShape
    <2>2. PICK b : /\ Chain(b, Code(sec), Org(sec), lastsize[sec], Len(Code(sec)) + 1)
                   /\ Good(b, Code(sec), lastsize[sec], Len(Code(sec)) + 1)
                   /\ b[i] = pc
      BY <1>t DEF Emitted, BeginsAt
    <2>3. i \in 1 .. (Len(Code(sec)) + 1) - 1
      BY <2>1
    <2>4. b[i + 1] = Here + lastsize[sec][i]
      BY <2>2, <2>3 DEF Chain, Here, Atom
    <2>5. lastsize[sec][i] = AtomSize(Atom, Here)
      BY <2>2, <2>3 DEF Good, Fits, Here, Atom
    <2>6. PICK s, n, p : s = sec /\ n = i' /\ p = pc'
      OBVIOUS
    <2>7. BeginsAt(s, n, p)
      BY <2>2, <2>4, <2>5, <2>6 DEF BeginsAt
    <2>8. BeginsAt(s, n, p)'
      BY <1>t, <2>1, <2>6, <2>7, BeginsKept
    <2>9. sec' = s /\ i' = n /\ pc' = p
      BY <2>6
    <2> QED  BY <2>8, <2>9 DEF BeginsAt
  <1>3. CASE UNCHANGED vars
    <2> USE <1>3 DEF vars
    <2>1. BeginsAt(sec, i, pc) /\ sec \in Sections
      BY <1>t DEF Emitted, Places
    <2>2. PICK s, n, p : s = sec /\ n = i /\ p = pc
      OBVIOUS
    <2>3. BeginsAt(s, n, p)'
      BY <1>t, <2>1, <2>2, BeginsKept
    <2>4. sec' = s /\ i' = n /\ pc' = p
      BY <2>2
    <2> QED  BY <2>3, <2>4 DEF BeginsAt
  <1>4. ASSUME \/ ParseAtom \/ ParseSection \/ PickSection \/ BeginPass \/ MoveLabel
               \/ KeepSize \/ ResizeAtom \/ EndPass
        PROVE  FALSE
    BY <1>4 DEF ParseAtom, ParseSection, PickSection, BeginPass, MoveLabel, KeepSize,
                ResizeAtom, EndPass
  <1> QED  BY <1>1, <1>2, <1>3, <1>4 DEF Next

THEOREM Invariance == Spec => []IInv
  <1>1. Init => IInv
    <2> SUFFICES ASSUME Init PROVE IInv
      OBVIOUS
    <2>1. Types
      BY TypesInit
    <2>2. Settled
      BY DEF Init, Settled
    <2>3. Seen /\ Emitted
      BY DEF Init, Seen, Emitted
    <2> QED  BY <2>1, <2>2, <2>3 DEF IInv
  <1>2. IInv /\ [Next]_vars => IInv'
    <2> SUFFICES ASSUME IInv, [Next]_vars PROVE IInv'
      OBVIOUS
    <2>1. Types'
      BY TypesNext DEF IInv
    <2>2. Settled' /\ Seen' /\ Emitted'
      BY SettledNext, SeenNext, EmittedNext
    <2> QED  BY <2>1, <2>2 DEF IInv
  <1> QED  BY <1>1, <1>2, PTL DEF Spec

(* The code is emitted where the labels said it would be, whatever the     *)
(* program: at a label, assemble() is at the label's address.              *)
THEOREM LabelsAgreeAlways == Spec => []LabelsAgree
  <1>1. IInv => LabelsAgree
    <2> SUFFICES ASSUME IInv, phase = "assemble", AtAtom, Atom.kind = "label"
                 PROVE  label[Atom.name] = Here
      BY DEF LabelsAgree
    <2>1. Types /\ BeginsAt(sec, i, pc)
      BY DEF IInv, Emitted
    <2>2. i \in 1 .. Len(Code(sec)) /\ Len(Code(sec)) \in Nat
      BY <2>1, AtomHere, ProgramShape DEF Types, Places
    <2>3. i \in 1 .. (Len(Code(sec)) + 1) - 1
      BY <2>2
    <2>4. PICK b : /\ Good(b, Code(sec), lastsize[sec], Len(Code(sec)) + 1)
                   /\ b[i] = pc
      BY <2>1 DEF BeginsAt
    <2> QED  BY <2>3, <2>4 DEF Good, Fits, Here, Atom
  <1> QED  BY <1>1, Invariance, PTL

(* The recursive "begin" of Consistent is the chain of the section.        *)
LEMMA FitIsConsistent ==
    ASSUME prog \in Programs, NEW s \in Sections, Fit(s)
    PROVE  Consistent(s)
  <1> DEFINE n == Len(Code(s)) + 1
             F(g) == [m \in 1 .. n |->
                        IF m = 1 THEN Org(s)
                        ELSE Align(g[m - 1], Code(s)[m - 1].align) + lastsize[s][m - 1]]
             begin == CHOOSE g : g = F(g)
  <1>1. Len(Code(s)) \in Nat /\ DOMAIN Code(s) = 1 .. Len(Code(s)) /\ Org(s) \in Int
        /\ n \in Nat \ {0} /\ 1 .. n - 1 = DOMAIN Code(s)
    BY ProgramShape
  <1>2. PICK b : Chain(b, Code(s), Org(s), lastsize[s], n) /\ Good(b, Code(s), lastsize[s], n)
    BY DEF Fit, FitTo
  <1>3. b = F(b)
    <2>1. b \in [1 .. n -> Int] /\ b[1] = Org(s)
      BY <1>2 DEF Chain
    <2>2. ASSUME NEW m \in 1 .. n
          PROVE  b[m] = IF m = 1 THEN Org(s)
                        ELSE Align(b[m - 1], Code(s)[m - 1].align) + lastsize[s][m - 1]
      <3>1. CASE m = 1
        BY <2>1, <3>1
      <3>2. CASE m # 1
        <4>1. m - 1 \in 1 .. n - 1 /\ (m - 1) + 1 = m
          BY <1>1, <3>2
        <4> QED  BY <1>2, <3>2, <4>1 DEF Chain
      <3> QED  BY <3>1, <3>2
    <2> QED  BY <2>1, <2>2
  <1>4. begin = F(begin)
    BY <1>3
  <1>5. Consistent(s) <=>
           \A j \in DOMAIN Code(s) :
              /\ Code(s)[j].kind = "label" =>
                    label[Code(s)[j].name] = Align(begin[j], Code(s)[j].align)
              /\ lastsize[s][j] = AtomSize(Code(s)[j], Align(begin[j], Code(s)[j].align))
    BY DEF Consistent
  <1> HIDE DEF begin
  <1>6. begin = b
    <2>1. b = [m \in 1 .. n |-> b[m]] /\ begin = [m \in 1 .. n |-> begin[m]]
      BY <1>3, <1>4
    <2>2. b[1] = Org(s) /\ begin[1] = Org(s)
      BY <1>1, <1>3, <1>4
    <2>3. ASSUME NEW m \in 1 .. n - 1
          PROVE  /\ b[m + 1] = Align(b[m], Code(s)[m].align) + lastsize[s][m]
                 /\ begin[m + 1] = Align(begin[m], Code(s)[m].align) + lastsize[s][m]
      <3>1. m + 1 \in 1 .. n /\ m + 1 # 1 /\ (m + 1) - 1 = m
        BY <1>1
      <3>2. /\ F(b)[m + 1] = Align(b[m], Code(s)[m].align) + lastsize[s][m]
            /\ F(begin)[m + 1] = Align(begin[m], Code(s)[m].align) + lastsize[s][m]
        BY <3>1
      <3> QED  BY <1>3, <1>4, <3>2
    <2>4. PICK code, sizes : code = Code(s) /\ sizes = lastsize[s]
      OBVIOUS
    <2>5. n \in Nat \ {0} /\ b[1] = begin[1]
      BY <1>1, <2>2
    <2> HIDE DEF n, F
    <2>6. Steps(b, code, sizes, n) /\ Steps(begin, code, sizes, n)
      BY <2>1, <2>3, <2>4 DEF Steps
    <2> QED  BY <2>5, <2>6, ChainUnique
  <1> QED  BY <1>1, <1>2, <1>5, <1>6 DEF Good, Fits

(* When resolve() ends, whatever the program and the limits, resolving any *)
(* section once more would change nothing.                                 *)
THEOREM DoneIsConsistentAlways == Spec => []DoneIsConsistent
  <1>1. IInv => DoneIsConsistent
    <2> SUFFICES ASSUME IInv, phase = "assemble", NEW s \in Sections
                 PROVE  Consistent(s)
      BY DEF DoneIsConsistent
    <2>1. prog \in Programs /\ todo = {} /\ ~Moved
      BY DEF IInv, Types, Places, Moved, InProgress
    <2>2. Fit(s)
      BY <2>1 DEF IInv, Settled
    <2> QED  BY <2>1, <2>2, FitIsConsistent
  <1> QED  BY <1>1, Invariance, PTL

-----------------------------------------------------------------------------
(* The parser has seen every label that lies before the atom in hand. *)
Parsed ==
    \A s \in Sections : \A j \in DOMAIN Code(s) :
        /\ Code(s)[j].kind = "label"
        /\ phase = "parse" => s < sec \/ (s = sec /\ j < i)
        => Code(s)[j].name \in known

(* assemble() has found nothing wrong but what BranchesReach excuses. *)
Faults ==
    /\ phase \notin {"assemble", "done"} => errors = 0
    /\ BranchOpt /\ errors > 0 =>
           \E s \in Sections : \E j \in DOMAIN Code(s) : Outside(s, j)

LEMMA ParsedInit == Init => Parsed
  <1> SUFFICES ASSUME Init PROVE Parsed
    OBVIOUS
  <1>1. Types
    BY TypesInit
  <1>2. Len(prog) \in Nat /\ Sections = 1 .. Len(prog)
        /\ \A s \in Sections : Len(Code(s)) \in Nat
              /\ DOMAIN Code(s) = 1 .. Len(Code(s))
    BY <1>1, ProgramShape DEF Types, Places
  <1> QED BY <1>2 DEF Init, Parsed

LEMMA ParsedNext == Types /\ Parsed /\ [Next]_vars => Parsed'
  <1> SUFFICES ASSUME Types, Parsed, [Next]_vars,
                      NEW s \in Sections', NEW j \in DOMAIN Code(s)',
                      Code(s)'[j].kind = "label",
                      phase' = "parse" => s < sec' \/ (s = sec' /\ j < i')
               PROVE  Code(s)'[j].name \in known'
    BY DEF Parsed
  <1>t. prog' = prog /\ Sections' = Sections /\ Code(s)' = Code(s)
    BY DEF Next, vars, ParseAtom, ParseSection, PickSection, EndSweep, BeginPass,
       MoveLabel, KeepSize, ResizeAtom, EndPass, AssembleAtom, AssembleSection,
       Sections, Code
  <1>p. /\ s \in Sections /\ j \in DOMAIN Code(s)
        /\ Code(s)[j].kind = "label" /\ Code(s)'[j].name = Code(s)[j].name
    BY <1>t
  <1>s. /\ Len(prog) \in Nat /\ Sections = 1 .. Len(prog)
        /\ Len(Code(s)) \in Nat /\ DOMAIN Code(s) = 1 .. Len(Code(s))
    BY <1>p, ProgramShape DEF Types, Places
  <1>1. CASE ParseAtom
    <2>1. phase = "parse" /\ phase' = "parse" /\ sec' = sec /\ i' = i + 1
          /\ known \subseteq known'
      BY <1>1 DEF ParseAtom
    <2>2. sec \in Sections /\ i \in Nat
      BY <2>1 DEF Types, Places, TypeOK
    <2>3. CASE s < sec \/ (s = sec /\ j < i)
      BY <1>p, <2>1, <2>3 DEF Parsed
    <2>4. CASE s = sec /\ j = i
      <3>1. Atom = Code(s)[j]
        BY <2>4 DEF Atom
      <3> QED BY <1>1, <1>p, <3>1 DEF ParseAtom
    <2>5. s < sec \/ (s = sec /\ j <= i)
      BY <1>p, <1>s, <2>1, <2>2
    <2> QED BY <1>p, <1>s, <2>2, <2>3, <2>4, <2>5
  <1>2. CASE ParseSection
    <2>1. phase = "parse" /\ AtEnd /\ known' = known
      BY <1>2 DEF ParseSection
    <2>2. sec \in Sections /\ i \in Nat
      BY <2>1 DEF Types, Places, TypeOK
    <2>3. s <= sec
      BY <1>2, <1>p, <1>s, <2>1, <2>2 DEF ParseSection
    <2>4. s = sec => j < i
      BY <1>p, <1>s, <2>1, <2>2 DEF AtEnd
    <2>5. s < sec \/ (s = sec /\ j < i)
      BY <1>p, <1>s, <2>2, <2>3, <2>4
    <2> QED BY <1>p, <2>1, <2>5 DEF Parsed
  <1>3. CASE UNCHANGED vars
    BY <1>3, <1>p DEF vars, Parsed
  <1>4. ASSUME \/ PickSection \/ EndSweep \/ BeginPass \/ MoveLabel \/ KeepSize
               \/ ResizeAtom \/ EndPass \/ AssembleAtom \/ AssembleSection
        PROVE  phase # "parse" /\ known' = known
    BY <1>4 DEF PickSection, EndSweep, BeginPass, MoveLabel, KeepSize, ResizeAtom,
       EndPass, AssembleAtom, AssembleSection
  <1> QED BY <1>1, <1>2, <1>3, <1>4, <1>p DEF Next, Parsed

LEMMA AllResolved ==
    ASSUME Types, Parsed, phase # "parse",
           NEW s \in Sections, NEW j \in DOMAIN Code(s), Code(s)[j].kind = "inst"
    PROVE  Resolved(Code(s)[j])
  <1>1. IsProgram(prog)
    BY ProgramAssumption DEF Types, Places
  <1>2. PICK t \in Sections : \E n \in DOMAIN Code(t) :
               Defines(Code(t)[n], Code(s)[j].name)
    BY <1>1 DEF IsProgram, Sections, Code
  <1> QED BY <1>2 DEF Parsed, Defines, Resolved

(* A short branch that assemble() rejects would have been made long. *)
LEMMA OnlyOutside ==
    ASSUME NEW at, NEW p, at.op \in Ops, Resolved(at), BranchOpt, ~RangeOK(at, p)
    PROVE  Value(at) \notin 0 .. AddressEnd
  BY DEF RangeOK, InstSize, Ops

LEMMA FaultsNext == Types /\ Parsed /\ Faults /\ [Next]_vars => Faults'
  <1> SUFFICES ASSUME Types, Parsed, Faults, [Next]_vars PROVE Faults'
    OBVIOUS
  <1>1. CASE AssembleAtom
    <2> USE <1>1 DEF AssembleAtom
    <2>1. sec \in Sections /\ i \in DOMAIN Code(sec) /\ IsAtom(Atom)
      BY AtomHere, ProgramShape DEF Types, Places, Atom
    <2>2. ASSUME BranchOpt, Atom.kind = "inst", ~RangeOK(Atom, Here)
          PROVE  Outside(sec, i)
      <3>1. Resolved(Atom) /\ Atom.op \in Ops
        BY <2>1, <2>2, AllResolved DEF Atom, IsAtom
      <3> QED BY <2>2, <3>1, OnlyOutside DEF Outside, Atom
    <2>3. ASSUME BranchOpt, errors' > 0
          PROVE  \E s \in Sections : \E j \in DOMAIN Code(s) : Outside(s, j)
      <3>1. CASE errors' = errors
        BY <2>3, <3>1 DEF Faults
      <3>2. CASE errors' # errors
        BY <2>1, <2>2, <2>3, <3>2
      <3> QED BY <3>1, <3>2
    <2>4. phase' = "assemble"
      OBVIOUS
    <2> QED BY <2>3, <2>4 DEF Faults, Outside, Value, Sections, Code
  <1>2. CASE AssembleSection \/ UNCHANGED vars
    BY <1>2 DEF AssembleSection, vars, Faults, Outside, Value, Sections, Code
  <1>3. CASE \/ ParseAtom \/ ParseSection \/ PickSection \/ EndSweep \/ BeginPass
             \/ MoveLabel \/ KeepSize \/ ResizeAtom \/ EndPass
    <2>1. phase \notin {"assemble", "done"} /\ errors' = errors
      BY <1>3 DEF ParseAtom, ParseSection, PickSection, EndSweep, BeginPass,
         MoveLabel, KeepSize, ResizeAtom, EndPass
    <2> QED BY <2>1 DEF Faults
  <1> QED BY <1>1, <1>2, <1>3 DEF Next

(* With -opt-branch assemble() finds no branch out of range, whatever the  *)
(* program and however far a branch reaches (cpu.c, eval_instruction):     *)
(* what it rejects is an operand outside the address space.                *)
THEOREM BranchesReachAlways == Spec => []BranchesReach
  <1>1. Init => Parsed /\ Faults
    <2>1. Init => Faults
      BY DEF Init, Faults
    <2> QED BY <2>1, ParsedInit
  <1>2. Types /\ Parsed /\ Faults /\ [Next]_vars => Parsed' /\ Faults'
    BY ParsedNext, FaultsNext
  <1>3. Faults => BranchesReach
    BY DEF Faults, BranchesReach
  <1> QED BY <1>1, <1>2, <1>3, TypesInit, TypesNext, PTL DEF Spec

-----------------------------------------------------------------------------
(* Where the atoms of section s begin when they have the sizes x. *)
Atoms(s) == 1 .. Len(Code(s))
Begins(s, x) == CHOOSE b : Chain(b, Code(s), Org(s), x, Len(Code(s)) + 1)

(* Sizes determine a chain of any length. *)
LEMMA ChainExists ==
    ASSUME NEW code, NEW org \in Int, NEW last \in Nat, NEW x \in [1 .. last -> Nat],
           \A m \in 1 .. last : code[m].align \in Nat \ {0}
    PROVE  \E b : Chain(b, code, org, x, last + 1)
  <1> DEFINE Built(n) == \E b : Chain(b, code, org, x, n)
             T == {n \in 1 .. last + 1 : ~ Built(n)}
  <1>1. SUFFICES ASSUME T # {} PROVE FALSE
    <2>1. Built(last + 1)
      <3>1. last + 1 \in 1 .. last + 1
        OBVIOUS
      <3> HIDE DEF Built
      <3> QED  BY <1>1, <3>1
    <2> QED  BY <2>1
  <1>2. T \subseteq Nat
    OBVIOUS
  <1>3. PICK n \in T : \A k \in T : ~ (<<k, n>> \in OpToRel(<, Nat))
    <2> HIDE DEF T
    <2> QED  BY <1>1, <1>2, NatLessThanWellFounded, WFMin
  <1>4. n \in 1 .. last + 1 /\ ~ Built(n)
    OBVIOUS
  <1>5. CASE n = 1
    <2> DEFINE b == [m \in 1 .. 1 |-> org]
    <2>1. Chain(b, code, org, x, 1)
      BY DEF Chain
    <2> QED  BY <1>4, <1>5, <2>1
  <1>6. CASE n > 1
    <2>1. n - 1 \in 1 .. last /\ n - 1 \in Nat /\ n - 1 < n /\ n \in Nat
      BY <1>4, <1>6
    <2>2. Built(n - 1)
      <3>1. n - 1 \notin T
        <4> HIDE DEF T
        <4> QED  BY <1>2, <1>3, <2>1 DEF OpToRel
      <3>2. n - 1 \in 1 .. last + 1
        BY <2>1
      <3> HIDE DEF Built
      <3> QED  BY <3>1, <3>2
    <2>3. PICK b : Chain(b, code, org, x, n - 1)
      BY <2>2
    <2> DEFINE end == Align(b[n - 1], code[n - 1].align) + x[n - 1]
               c == [m \in 1 .. n |-> IF m = n THEN end ELSE b[m]]
    <2>4. \A m \in 1 .. n - 1 : b[m] \in Int
      BY <2>1, <2>3 DEF Chain
    <2>5. end \in Int
      <3>1. b[n - 1] \in Int /\ x[n - 1] \in Nat /\ code[n - 1].align \in Nat \ {0}
        BY <2>1, <2>4
      <3> QED  BY <3>1, AlignType
    <2> HIDE DEF end
    <2>6. c \in [1 .. n -> Int] /\ c[n] = end /\ \A m \in 1 .. n - 1 : c[m] = b[m]
      BY <2>1, <2>4, <2>5
    <2> HIDE DEF c
    <2>7. c[1] = org
      BY <2>1, <2>3, <2>6 DEF Chain
    <2>8. ASSUME NEW m \in 1 .. n - 1
          PROVE  c[m + 1] = Align(c[m], code[m].align) + x[m]
      <3>1. CASE m = n - 1
        BY <2>1, <2>6, <3>1 DEF end
      <3>2. CASE m \in 1 .. (n - 1) - 1
        <4>1. m + 1 \in 1 .. n - 1 /\ m \in 1 .. n - 1
          BY <2>1, <3>2
        <4>2. b[m + 1] = Align(b[m], code[m].align) + x[m]
          BY <2>3, <3>2 DEF Chain
        <4> QED  BY <2>6, <4>1, <4>2
      <3> QED  BY <2>1, <3>1, <3>2
    <2>9. Chain(c, code, org, x, n)
      BY <2>6, <2>7, <2>8 DEF Chain
    <2> QED  BY <1>4, <2>9
  <1> QED  BY <1>4, <1>5, <1>6

LEMMA BeginsFacts ==
    ASSUME prog \in Programs, NEW s \in Sections, NEW x \in [Atoms(s) -> Nat]
    PROVE  /\ Begins(s, x) \in [1 .. Len(Code(s)) + 1 -> Int]
           /\ Begins(s, x)[1] = Org(s)
           /\ \A m \in Atoms(s) :
                 Begins(s, x)[m + 1] = Align(Begins(s, x)[m], Code(s)[m].align) + x[m]
  <1>1. /\ Org(s) \in Int /\ Len(Code(s)) \in Nat
        /\ \A m \in Atoms(s) : Code(s)[m].align \in Nat \ {0}
    BY ProgramShape DEF Atoms, IsAtom
  <1>2. \E b : Chain(b, Code(s), Org(s), x, Len(Code(s)) + 1)
    BY <1>1, ChainExists DEF Atoms
  <1>3. Chain(Begins(s, x), Code(s), Org(s), x, Len(Code(s)) + 1)
    BY <1>2 DEF Begins
  <1>4. 1 .. (Len(Code(s)) + 1) - 1 = Atoms(s)
    BY <1>1 DEF Atoms
  <1> QED  BY <1>3, <1>4 DEF Chain

(* Atoms do not move unless a size before them changes. *)
LEMMA BeginsPrefix ==
    ASSUME prog \in Programs, NEW s \in Sections, NEW x \in [Atoms(s) -> Nat],
           NEW b, NEW n \in 1 .. Len(Code(s)) + 1, Chain(b, Code(s), Org(s), x, n),
           NEW y \in [Atoms(s) -> Nat], \A m \in 1 .. n - 1 : y[m] = x[m]
    PROVE  \A m \in 1 .. n : Begins(s, y)[m] = b[m]
  <1>1. n \in Nat \ {0} /\ Len(Code(s)) \in Nat /\ \A m \in 1 .. n - 1 : m \in Atoms(s) /\ m + 1 \in 1 .. n /\ m \in 1 .. n
    BY ProgramShape DEF Atoms
  <1> DEFINE c == [m \in 1 .. n |-> Begins(s, y)[m]]
  <1>2. c[1] = Org(s) /\ \A m \in 1 .. n - 1 : c[m + 1] = Align(c[m], Code(s)[m].align) + x[m]
    BY <1>1, BeginsFacts
  <1>3. c = [m \in 1 .. n |-> c[m]] /\ \A m \in 1 .. n : c[m] = Begins(s, y)[m]
    OBVIOUS
  <1> HIDE DEF c
  <1>4. Steps(c, Code(s), x, n)
    BY <1>2, <1>3 DEF Steps
  <1>5. Steps(b, Code(s), x, n) /\ b[1] = Org(s)
    BY <1>1 DEF Steps, Chain
  <1>6. c = b
    BY <1>1, <1>2, <1>4, <1>5, ChainUnique
  <1> QED  BY <1>3, <1>6

LEMMA BeginsAgree ==
    ASSUME prog \in Programs, NEW s \in Sections, NEW x \in [Atoms(s) -> Nat],
           NEW n \in 1 .. Len(Code(s)) + 1,
           NEW y \in [Atoms(s) -> Nat], \A m \in 1 .. n - 1 : y[m] = x[m]
    PROVE  \A m \in 1 .. n : Begins(s, y)[m] = Begins(s, x)[m]
  <1>1. n \in Nat \ {0} /\ Len(Code(s)) \in Nat /\ 1 .. n \subseteq 1 .. Len(Code(s)) + 1
        /\ \A m \in 1 .. n - 1 : m \in Atoms(s) /\ m + 1 \in 1 .. n /\ m \in 1 .. n
    BY ProgramShape DEF Atoms
  <1> DEFINE b == [m \in 1 .. n |-> Begins(s, x)[m]]
  <1>2. Chain(b, Code(s), Org(s), x, n) /\ \A m \in 1 .. n : b[m] = Begins(s, x)[m]
    BY <1>1, BeginsFacts DEF Chain
  <1> HIDE DEF b
  <1>3. \A m \in 1 .. n : Begins(s, y)[m] = b[m]
    BY <1>2, BeginsPrefix
  <1> QED  BY <1>2, <1>3

LEMMA BeginsSame ==
    ASSUME prog' = prog, NEW s, NEW CONSTANT x
    PROVE  Begins(s, x)' = Begins(s, x)
  BY DEF Begins, Chain, Code, Org

-----------------------------------------------------------------------------
(* Labels are where the sizes put them: those of the first n - 1 atoms of s. *)
Laid(s, n) ==
    \A m \in 1 .. n - 1 :
        Code(s)[m].kind = "label" =>
            label[Code(s)[m].name] = Align(Begins(s, lastsize[s])[m], Code(s)[m].align)
AllLaid(s) == Laid(s, Len(Code(s)) + 1)

(* A pass moves labels as it goes, but only behind a size that changed. *)
LaidSections ==
    CASE phase = "parse"             -> 1 .. sec - 1
      [] phase = "atoms" /\ ~stable  -> Sections \ {sec}
      [] OTHER                       -> Sections
Layout ==
    /\ \A s \in LaidSections : AllLaid(s)
    /\ phase \in {"parse", "atoms"} =>
          Laid(sec, i) /\ pc = Begins(sec, lastsize[sec])[i]

LEMMA UniqueLabel ==
    ASSUME prog \in Programs, NEW s \in Sections, NEW t \in Sections,
           NEW m \in Atoms(s), NEW n \in Atoms(t),
           Code(s)[m].kind = "label", Code(t)[n].kind = "label",
           Code(s)[m].name = Code(t)[n].name
    PROVE  s = t /\ m = n
  <1>1. m \in DOMAIN Code(s) /\ n \in DOMAIN Code(t)
    BY ProgramShape DEF Atoms
  <1>2. IsProgram(prog)
    BY ProgramAssumption
  <1>3. Defines(Code(t)[n], Code(s)[m].name)
    BY DEF Defines
  <1> QED  BY <1>1, <1>2, <1>3 DEF IsProgram, Sections, Code

LEMMA LaidKept ==
    ASSUME prog \in Programs, prog' = prog, NEW s \in Sections,
           lastsize[s] \in [Atoms(s) -> Nat], lastsize'[s] \in [Atoms(s) -> Nat],
           NEW n \in 1 .. Len(Code(s)) + 1, Laid(s, n),
           \A m \in 1 .. n - 1 : lastsize'[s][m] = lastsize[s][m],
           \A m \in 1 .. n - 1 : Code(s)[m].kind = "label" =>
               label'[Code(s)[m].name] = label[Code(s)[m].name]
    PROVE  Laid(s, n)'
  <1>1. PICK x, y : x = lastsize[s] /\ y = lastsize'[s]
    OBVIOUS
  <1>2. \A m \in 1 .. n : Begins(s, y)[m] = Begins(s, x)[m]
    BY <1>1, BeginsAgree
  <1>3. Begins(s, y)' = Begins(s, y) /\ Code(s)' = Code(s)
    BY BeginsSame DEF Code
  <1>4. Begins(s, lastsize[s])' = Begins(s, y)'
    BY <1>1
  <1>5. n \in Nat /\ \A m \in 1 .. n - 1 : m \in 1 .. n
    BY ProgramShape
  <1> QED  BY <1>1, <1>2, <1>3, <1>4, <1>5 DEF Laid

(* One atom further. *)
LEMMA LaidStep ==
    ASSUME prog \in Programs, prog' = prog, NEW s \in Sections,
           lastsize[s] \in [Atoms(s) -> Nat], lastsize'[s] \in [Atoms(s) -> Nat],
           NEW n \in Atoms(s), Laid(s, n), NEW p, p = Begins(s, lastsize[s])[n],
           \A m \in 1 .. n - 1 : lastsize'[s][m] = lastsize[s][m],
           \A m \in 1 .. n - 1 : Code(s)[m].kind = "label" =>
               label'[Code(s)[m].name] = label[Code(s)[m].name],
           Code(s)[n].kind = "label" => label'[Code(s)[n].name] = Align(p, Code(s)[n].align)
    PROVE  /\ Laid(s, n + 1)'
           /\ Begins(s, lastsize[s])'[n + 1] = Align(p, Code(s)[n].align) + lastsize'[s][n]
  <1>1. n \in Nat /\ n \in 1 .. Len(Code(s)) + 1 /\ n \in 1 .. n
        /\ 1 .. (n + 1) - 1 = (1 .. n - 1) \cup {n}
    BY ProgramShape DEF Atoms
  <1>2. Laid(s, n)'
    BY <1>1, LaidKept
  <1>3. PICK x, y : x = lastsize[s] /\ y = lastsize'[s]
    OBVIOUS
  <1>4. \A m \in 1 .. n : Begins(s, y)[m] = Begins(s, x)[m]
    BY <1>1, <1>3, BeginsAgree
  <1>5. Begins(s, y)' = Begins(s, y) /\ Code(s)' = Code(s)
    BY BeginsSame DEF Code
  <1>6. Begins(s, lastsize[s])' = Begins(s, y)'
    BY <1>3
  <1>7. Begins(s, y)[n] = p
    BY <1>1, <1>3, <1>4
  <1>8. Begins(s, y)[n + 1] = Align(Begins(s, y)[n], Code(s)[n].align) + y[n]
    BY <1>3, BeginsFacts
  <1>9. Laid(s, n + 1)'
    BY <1>1, <1>2, <1>5, <1>6, <1>7 DEF Laid
  <1> QED  BY <1>3, <1>5, <1>6, <1>7, <1>8, <1>9

LEMMA SizesType ==
    ASSUME Types, NEW s \in Sections
    PROVE  lastsize[s] \in [Atoms(s) -> Nat]
  <1>1. prog \in Programs
    BY DEF Types, Places
  <1>2. DOMAIN Code(s) = Atoms(s)
    BY <1>1, ProgramShape DEF Atoms
  <1> QED  BY <1>2 DEF Types, Sizes

LEMMA LaidSame ==
    ASSUME prog' = prog, label' = label, lastsize' = lastsize, NEW s, NEW n
    PROVE  Laid(s, n)' = Laid(s, n) /\ Begins(s, lastsize[s])' = Begins(s, lastsize[s])
  <1>1. PICK x : x = lastsize[s]
    OBVIOUS
  <1>2. Begins(s, x)' = Begins(s, x)
    BY BeginsSame
  <1>3. lastsize'[s] = x
    BY <1>1
  <1>4. Begins(s, lastsize[s])' = Begins(s, lastsize[s])
    BY <1>1, <1>2, <1>3
  <1> QED  BY <1>4 DEF Laid, Code

(* What a step does to the sections it does not go through. *)
LEMMA OthersLaid ==
    ASSUME Types, Types', prog' = prog, sec \in Sections, i \in Atoms(sec),
           NEW s \in Sections \ {sec}, AllLaid(s), lastsize'[s] = lastsize[s],
           \A l \in Labels : label'[l] # label[l] => Atom.kind = "label" /\ l = Atom.name
    PROVE  AllLaid(s)'
  <1>1. prog \in Programs
    BY DEF Types, Places
  <1>2. lastsize[s] \in [Atoms(s) -> Nat] /\ Len(Code(s)) \in Nat
    BY <1>1, SizesType, ProgramShape
  <1>3. ASSUME NEW m \in Atoms(s), Code(s)[m].kind = "label"
        PROVE  label'[Code(s)[m].name] = label[Code(s)[m].name]
    <2>1. Code(s)[m].name \in Labels
      BY <1>1, <1>3, ProgramShape DEF Atoms, IsAtom
    <2>2. Atom.kind = "label" => Code(s)[m].name # Atom.name
      BY <1>1, <1>3, UniqueLabel DEF Atom
    <2> QED  BY <2>1, <2>2
  <1>4. PICK n : n = Len(Code(s)) + 1
    OBVIOUS
  <1>5. n \in 1 .. Len(Code(s)) + 1 /\ 1 .. n - 1 = Atoms(s)
    BY <1>2, <1>4 DEF Atoms
  <1>6. Laid(s, n)
    BY <1>4 DEF AllLaid
  <1>7. Laid(s, n)'
    BY <1>1, <1>2, <1>3, <1>5, <1>6, LaidKept
  <1>8. (Len(Code(s)) + 1)' = n
    BY <1>4 DEF Code
  <1> QED  BY <1>7, <1>8 DEF AllLaid

(* What a step does to the section it goes through. *)
LEMMA StepLaid ==
    ASSUME Types, Types', prog' = prog, sec \in Sections, i \in Atoms(sec), sec' = sec,
           i' = i + 1, Laid(sec, i), pc = Begins(sec, lastsize[sec])[i],
           \A m \in Atoms(sec) \ {i} : lastsize'[sec][m] = lastsize[sec][m],
           \A l \in Labels : label'[l] # label[l] => Atom.kind = "label" /\ l = Atom.name,
           Atom.kind = "label" => label'[Atom.name] = Here,
           pc' = Here + lastsize'[sec][i]
    PROVE  (Laid(sec, i) /\ pc = Begins(sec, lastsize[sec])[i])'
  <1>1. prog \in Programs /\ Sections' = Sections
    BY DEF Types, Places, Sections
  <1>2. lastsize[sec] \in [Atoms(sec) -> Nat] /\ Len(Code(sec)) \in Nat
    BY <1>1, SizesType, ProgramShape
  <1>3. lastsize'[sec] \in [Atoms(sec) -> Nat]
    <2>1. \A s \in Sections : lastsize'[s] \in [DOMAIN Code(s)' -> Nat]
      BY <1>1 DEF Types, Sizes
    <2>2. DOMAIN Code(sec)' = Atoms(sec)
      BY <1>1, ProgramShape DEF Atoms, Code
    <2> QED  BY <2>1, <2>2
  <1>4. ASSUME NEW m \in 1 .. i - 1
        PROVE  m \in Atoms(sec) \ {i}
    BY <1>2 DEF Atoms
  <1>5. ASSUME NEW m \in 1 .. i - 1, Code(sec)[m].kind = "label"
        PROVE  label'[Code(sec)[m].name] = label[Code(sec)[m].name]
    <2>1. Code(sec)[m].name \in Labels
      BY <1>1, <1>4, <1>5, ProgramShape DEF Atoms, IsAtom
    <2>2. Atom.kind = "label" => Code(sec)[m].name # Atom.name
      BY <1>1, <1>4, <1>5, UniqueLabel DEF Atom
    <2> QED  BY <2>1, <2>2
  <1>6. PICK s, n : s = sec /\ n = i
    OBVIOUS
  <1>7. /\ Laid(s, n + 1)'
        /\ Begins(s, lastsize[s])'[n + 1] = Align(pc, Code(s)[n].align) + lastsize'[s][n]
    <2>1. Code(s)[n].kind = "label" => label'[Code(s)[n].name] = Align(pc, Code(s)[n].align)
      BY <1>6 DEF Here, Atom
    <2>2. PICK p : p = pc
      OBVIOUS
    <2>3. s \in Sections /\ n \in Atoms(s) /\ lastsize[s] \in [Atoms(s) -> Nat]
          /\ lastsize'[s] \in [Atoms(s) -> Nat] /\ p = Begins(s, lastsize[s])[n]
          /\ Laid(s, n)
      BY <1>2, <1>3, <1>6, <2>2
    <2>4. /\ \A m \in 1 .. n - 1 : lastsize'[s][m] = lastsize[s][m]
          /\ \A m \in 1 .. n - 1 : Code(s)[m].kind = "label" =>
                label'[Code(s)[m].name] = label[Code(s)[m].name]
      BY <1>4, <1>5, <1>6
    <2> QED  BY <1>1, <2>1, <2>2, <2>3, <2>4, LaidStep
  <1>8. Laid(sec, i)' <=> Laid(s, n + 1)'
    BY <1>6 DEF Laid
  <1>9. Begins(sec, lastsize[sec])' = Begins(s, lastsize[s])'
    BY <1>6
  <1>10. pc' = Align(pc, Code(s)[n].align) + lastsize'[s][n]
    BY <1>6 DEF Here, Atom
  <1> QED  BY <1>6, <1>7, <1>8, <1>9, <1>10

LEMMA LayoutInit == Init => Layout
  <1> SUFFICES ASSUME Init PROVE Layout
    OBVIOUS
  <1>1. Types /\ prog \in Programs /\ phase = "parse" /\ sec = 1 /\ i = 1 /\ pc = Org(1)
    BY TypesInit DEF Init
  <1>2. 1 \in Sections
    BY <1>1, ProgramShape
  <1>3. lastsize[1] \in [Atoms(1) -> Nat]
    BY <1>1, <1>2, SizesType
  <1>4. pc = Begins(sec, lastsize[sec])[i]
    BY <1>1, <1>2, <1>3, BeginsFacts
  <1>5. Laid(sec, i) /\ LaidSections = {}
    BY <1>1 DEF Laid, LaidSections
  <1> QED  BY <1>4, <1>5 DEF Layout

(* As long as nothing has changed, the labels a pass comes to stand still. *)
LEMMA LabelStands ==
    ASSUME Types, Layout, MoveLabel, stable
    PROVE  label[Atom.name] = Here /\ label' = label /\ stable'
  <1>1. prog \in Programs /\ label \in [Labels -> Int] /\ stable \in BOOLEAN
    BY DEF Types, Places, TypeOK
  <1>2. /\ sec \in Sections /\ i \in 1 .. Len(Code(sec)) /\ i \in DOMAIN Code(sec)
        /\ IsAtom(Atom) /\ Atom.kind = "label"
    BY AtomHere DEF MoveLabel
  <1>3. AllLaid(sec) /\ pc = Begins(sec, lastsize[sec])[i]
    BY <1>2 DEF Layout, LaidSections, MoveLabel
  <1>4. label[Atom.name] = Here
    <2>1. i \in 1 .. (Len(Code(sec)) + 1) - 1
      BY <1>2
    <2> QED  BY <1>2, <1>3, <2>1 DEF AllLaid, Laid, Atom, Here
  <1>5. stable'
    <2>1. stable' = (stable /\ label[Atom.name] = Here)
      BY DEF MoveLabel
    <2> QED  BY <1>4, <2>1, Zenon
  <1> QED  BY <1>1, <1>2, <1>4, <1>5 DEF MoveLabel, IsAtom

LEMMA LayoutNext == Types /\ Layout /\ [Next]_vars => Layout'
  <1> SUFFICES ASSUME Types, Layout, [Next]_vars PROVE Layout'
    OBVIOUS
  <1>t. Types' /\ prog \in Programs /\ label \in [Labels -> Int] /\ Sizes
    BY TypesNext DEF Types, Places, TypeOK
  <1>s. /\ Len(prog) \in Nat \ {0} /\ Sections = 1 .. Len(prog)
        /\ \A s \in Sections : Org(s) \in Nat /\ Len(Code(s)) \in Nat
    BY <1>t, ProgramShape
  <1>n. ASSUME prog' = prog
        PROVE  Sections' = Sections /\ \A s : Code(s)' = Code(s) /\ Org(s)' = Org(s)
               /\ Atoms(s)' = Atoms(s)
    BY <1>n DEF Sections, Code, Org, Atoms
  <1>a. ASSUME prog' = prog, label' = label, lastsize' = lastsize
        PROVE  /\ \A s : AllLaid(s)' = AllLaid(s)
               /\ \A s, n : Laid(s, n)' = Laid(s, n)
               /\ \A s : Begins(s, lastsize[s])' = Begins(s, lastsize[s])
    <2>1. \A s, n : Laid(s, n)' = Laid(s, n)
      BY <1>a, LaidSame
    <2>2. \A s : Begins(s, lastsize[s])' = Begins(s, lastsize[s])
      BY <1>a, LaidSame
    <2> QED  BY <1>a, <1>n, <2>1, <2>2 DEF AllLaid, Laid
  <1>b. \A s \in Sections : lastsize[s] \in [Atoms(s) -> Nat] /\ Begins(s, lastsize[s])[1] = Org(s)
    BY <1>t, SizesType, BeginsFacts
  <1>w. phase \in {"parse", "atoms"} => sec \in Sections /\ i \in 1 .. Len(Code(sec)) + 1
    BY DEF Types, Places
  <1> USE DEF passVars
  <1>1. CASE ParseAtom
    <2> USE <1>1 DEF ParseAtom
    <2>1. /\ sec \in Sections /\ i \in 1 .. Len(Code(sec)) /\ i \in DOMAIN Code(sec)
          /\ IsAtom(Atom) /\ AtomSize(Atom, Here) \in Nat
          /\ Atom.kind = "label" => AtomSize(Atom, Here) = 0
      BY AtomHere
    <2>2. /\ lastsize'[sec][i] = AtomSize(Atom, Here)
          /\ \A s \in Sections \ {sec} : lastsize'[s] = lastsize[s]
      BY <1>t, <2>1, SizeUpdate
    <2>3. \A m \in Atoms(sec) \ {i} : lastsize'[sec][m] = lastsize[sec][m]
      BY <1>t, <2>1 DEF Sizes, Atoms
    <2>4. /\ \A l \in Labels : label'[l] # label[l] => Atom.kind = "label" /\ l = Atom.name
          /\ Atom.kind = "label" => label'[Atom.name] = Here
      BY <1>t, <2>1 DEF IsAtom
    <2>5. (Laid(sec, i) /\ pc = Begins(sec, lastsize[sec])[i])'
      <3>1. i \in Atoms(sec) /\ pc' = Here + lastsize'[sec][i]
        BY <2>1, <2>2 DEF Atoms
      <3> QED  BY <1>t, <2>1, <2>3, <2>4, <3>1, StepLaid DEF Layout
    <2>6. ASSUME NEW s \in 1 .. sec - 1 PROVE AllLaid(s)'
      <3>1. s \in Sections \ {sec} /\ i \in Atoms(sec)
        BY <1>s, <2>1 DEF Atoms
      <3>2. AllLaid(s)
        BY DEF Layout, LaidSections
      <3> QED  BY <1>t, <2>1, <2>2, <2>4, <3>1, <3>2, OthersLaid
    <2>7. LaidSections' = 1 .. sec - 1
      BY DEF LaidSections
    <2> QED  BY <2>5, <2>6, <2>7 DEF Layout
  <1>2. CASE ParseSection
    <2> USE <1>2 DEF ParseSection
    <2>1. sec \in Sections /\ i = Len(Code(sec)) + 1
      BY <1>s, <1>w DEF AtEnd
    <2>2. \A s \in 1 .. sec : AllLaid(s)
      <3>1. 1 .. sec = (1 .. sec - 1) \cup {sec}
        BY <1>s, <2>1
      <3> QED  BY <2>1, <3>1 DEF Layout, LaidSections, AllLaid
    <2>3. CASE sec + 1 \in Sections
      <3>1. LaidSections' = 1 .. sec
        BY <1>s, <2>1, <2>3 DEF LaidSections
      <3>2. Laid(sec, i)'
        BY <2>3 DEF Laid
      <3>3. (pc = Begins(sec, lastsize[sec])[i])'
        BY <1>a, <1>b, <2>3
      <3> QED  BY <1>a, <2>2, <3>1, <3>2, <3>3 DEF Layout
    <2>4. CASE sec + 1 \notin Sections
      <3>1. LaidSections' = 1 .. sec
        BY <1>s, <1>n, <2>1, <2>4 DEF LaidSections
      <3> QED  BY <1>a, <2>2, <2>4, <3>1 DEF Layout
    <2> QED  BY <2>3, <2>4
  <1>3. CASE PickSection \/ EndSweep
    <2>1. /\ LaidSections = Sections /\ LaidSections' = Sections
          /\ phase' \notin {"parse", "atoms"}
          /\ prog' = prog /\ label' = label /\ lastsize' = lastsize
      BY <1>3, <1>n DEF PickSection, EndSweep, LaidSections
    <2> QED  BY <1>a, <2>1 DEF Layout
  <1>5. CASE BeginPass
    <2> USE <1>5 DEF BeginPass
    <2>1. LaidSections = Sections /\ LaidSections' = Sections
      BY <1>n DEF LaidSections
    <2>2. \A s \in Sections : AllLaid(s)'
      BY <1>a, <2>1 DEF Layout
    <2>3. ASSUME phase' = "atoms"
          PROVE  Laid(sec, i)' /\ (pc = Begins(sec, lastsize[sec])[i])'
      <3>1. sec \in Sections
        BY DEF Types, Places, InProgress, TypeOK
      <3>2. i' = 1 /\ pc' = Org(sec)
        BY <2>3
      <3> QED  BY <1>a, <1>b, <3>1, <3>2 DEF Laid
    <2>4. phase' # "parse"
      OBVIOUS
    <2> QED  BY <2>1, <2>2, <2>3, <2>4 DEF Layout
  <1>6. CASE MoveLabel
    <2> USE <1>6 DEF MoveLabel
    <2>1. /\ sec \in Sections /\ i \in 1 .. Len(Code(sec)) /\ i \in DOMAIN Code(sec)
          /\ IsAtom(Atom)
      BY AtomHere
    <2>2. lastsize'[sec][i] = 0
      BY <2>1 DEF Types, Sizes, Atom
    <2>3. /\ \A l \in Labels : label'[l] # label[l] => Atom.kind = "label" /\ l = Atom.name
          /\ label'[Atom.name] = Here
      BY <1>t, <2>1 DEF IsAtom
    <2>4. Here \in Int
      BY AtomHere
    <2>5. (Laid(sec, i) /\ pc = Begins(sec, lastsize[sec])[i])'
      <3>1. i \in Atoms(sec) /\ pc' = Here + lastsize'[sec][i]
        BY <2>1, <2>2, <2>4 DEF Atoms
      <3> QED  BY <1>t, <2>1, <2>3, <3>1, StepLaid DEF Layout
    <2>6. CASE stable
      <3>1. label' = label
        BY <2>6, LabelStands
      <3>2. stable'
        BY <2>6, LabelStands
      <3>3. phase = "atoms" /\ phase' = "atoms" /\ Sections' = Sections
        BY <1>n
      <3>4. LaidSections = Sections /\ LaidSections' = Sections
        BY <2>6, <3>2, <3>3 DEF LaidSections
      <3> QED  BY <1>a, <2>5, <3>1, <3>4 DEF Layout
    <2>7. CASE ~stable
      <3>1. LaidSections = Sections \ {sec} /\ LaidSections' = Sections \ {sec}
        BY <1>n, <2>7 DEF LaidSections
      <3>2. ASSUME NEW s \in Sections \ {sec} PROVE AllLaid(s)'
        <4>1. i \in Atoms(sec) /\ AllLaid(s)
          BY <2>1, <3>1 DEF Atoms, Layout
        <4> QED  BY <1>t, <2>1, <2>3, <4>1, OthersLaid
      <3> QED  BY <2>5, <3>1, <3>2 DEF Layout
    <2> QED  BY <2>6, <2>7
  <1>7. CASE KeepSize
    <2> USE <1>7 DEF KeepSize
    <2>1. /\ sec \in Sections /\ i \in 1 .. Len(Code(sec)) /\ i \in DOMAIN Code(sec)
          /\ IsAtom(Atom)
      BY AtomHere
    <2>2. (Laid(sec, i) /\ pc = Begins(sec, lastsize[sec])[i])'
      <3>1. i \in Atoms(sec) /\ pc' = Here + lastsize'[sec][i]
        BY <2>1 DEF Atoms
      <3> QED  BY <1>t, <2>1, <3>1, StepLaid DEF Layout
    <2>3. LaidSections' = LaidSections
      BY <1>n DEF LaidSections
    <2> QED  BY <1>a, <2>2, <2>3 DEF Layout
  <1>8. CASE ResizeAtom
    <2> USE <1>8 DEF ResizeAtom
    <2>1. /\ sec \in Sections /\ i \in 1 .. Len(Code(sec)) /\ i \in DOMAIN Code(sec)
          /\ IsAtom(Atom) /\ AtomSize(Atom, Here) \in Nat
          /\ Atom.kind # "label" /\ lastsize[sec][i] \in Nat
      BY AtomHere
    <2>2. lastsize' = [lastsize EXCEPT ![sec][i] = AtomSize(Atom, Here)]
      BY DEF Record
    <2>3. /\ lastsize'[sec][i] = AtomSize(Atom, Here)
          /\ \A s \in Sections \ {sec} : lastsize'[s] = lastsize[s]
      BY <1>t, <2>1, <2>2, SizeUpdate
    <2>4. \A m \in Atoms(sec) \ {i} : lastsize'[sec][m] = lastsize[sec][m]
      BY <1>t, <2>1, <2>2 DEF Sizes, Atoms
    <2>5. (Laid(sec, i) /\ pc = Begins(sec, lastsize[sec])[i])'
      <3>1. i \in Atoms(sec) /\ pc' = Here + lastsize'[sec][i]
        BY <2>1, <2>3 DEF Atoms
      <3> QED  BY <1>t, <2>1, <2>4, <3>1, StepLaid DEF Layout
    <2>6. ASSUME NEW s \in Sections \ {sec} PROVE AllLaid(s)'
      <3>1. i \in Atoms(sec) /\ AllLaid(s)
        BY <2>1 DEF Atoms, Layout, LaidSections
      <3> QED  BY <1>t, <2>1, <2>3, <3>1, OthersLaid
    <2>7. CASE stable'
      <3>1. stable /\ AtomSize(Atom, Here) = lastsize[sec][i]
        BY <2>7
      <3>2. lastsize' = lastsize
        <4>1. lastsize' = [lastsize EXCEPT ![sec] = [lastsize[sec] EXCEPT ![i] = lastsize[sec][i]]]
          BY <2>2, <3>1
        <4>2. [lastsize[sec] EXCEPT ![i] = lastsize[sec][i]] = lastsize[sec]
          BY <1>t, <2>1, SizesType
        <4>3. [lastsize EXCEPT ![sec] = lastsize[sec]] = lastsize
          BY <1>t, <2>1 DEF Sizes
        <4> QED  BY <4>1, <4>2, <4>3
      <3>3. LaidSections = Sections /\ LaidSections' = Sections
        BY <1>n, <2>7, <3>1 DEF LaidSections
      <3> QED  BY <1>a, <2>5, <3>2, <3>3 DEF Layout
    <2>8. CASE ~stable'
      <3>1. LaidSections' = Sections \ {sec}
        BY <1>n, <2>8 DEF LaidSections
      <3> QED  BY <2>5, <2>6, <3>1 DEF Layout
    <2> QED  BY <2>7, <2>8
  <1>9. CASE EndPass
    <2> USE <1>9 DEF EndPass
    <2>1. sec \in Sections /\ i = Len(Code(sec)) + 1
      BY <1>s, <1>w DEF AtEnd
    <2>2. AllLaid(sec)
      BY <2>1 DEF Layout, AllLaid
    <2>3. \A s \in Sections : AllLaid(s)
      BY <2>2 DEF Layout, LaidSections
    <2>4. LaidSections' = Sections /\ phase' \notin {"parse", "atoms"}
      BY <1>n DEF LaidSections
    <2> QED  BY <1>a, <2>3, <2>4 DEF Layout
  <1>10. CASE AssembleAtom \/ AssembleSection
    <2>1. /\ LaidSections = Sections /\ LaidSections' = Sections
          /\ phase' \notin {"parse", "atoms"}
          /\ prog' = prog /\ label' = label /\ lastsize' = lastsize
      BY <1>10, <1>n DEF AssembleAtom, AssembleSection, LaidSections
    <2> QED  BY <1>a, <2>1 DEF Layout
  <1>11. CASE UNCHANGED vars
    <2>1. /\ LaidSections' = LaidSections /\ phase' = phase /\ sec' = sec /\ i' = i /\ pc' = pc
          /\ prog' = prog /\ label' = label /\ lastsize' = lastsize
      BY <1>11, <1>n DEF vars, LaidSections
    <2> QED  BY <1>a, <2>1 DEF Layout
  <1> QED
    BY <1>1, <1>2, <1>3, <1>5, <1>6, <1>7, <1>8, <1>9, <1>10, <1>11 DEF Next

-----------------------------------------------------------------------------
(* Every atom the parser has been to has one of the sizes it can have. *)
Longer(at) == IF at.op = "bcc" THEN 5 ELSE 3
Formed(at, n) ==
    /\ at.kind = "label" => n = 0
    /\ at.kind = "data" => n = at.size
    /\ at.kind = "inst" => n \in {2, Longer(at)}
Shapes ==
    \A s \in Sections : \A m \in Atoms(s) :
        (phase = "parse" => s < sec \/ (s = sec /\ m < i)) =>
            Formed(Code(s)[m], lastsize[s][m])

LEMMA SizeFormed ==
    ASSUME NEW at, NEW p, IsAtom(at)
    PROVE  Formed(at, AtomSize(at, p))
  BY DEF IsAtom, Formed, AtomSize, InstSize, Longer, Ops

LEMMA ShapesInit == Init => Shapes
  <1> SUFFICES ASSUME Init PROVE Shapes
    OBVIOUS
  <1>1. prog \in Programs
    BY DEF Init
  <1>2. phase = "parse" /\ sec = 1 /\ i = 1
    BY DEF Init
  <1>3. \A s \in Sections : s \in Nat \ {0} /\ Atoms(s) \subseteq Nat \ {0}
    BY <1>1, ProgramShape DEF Atoms
  <1> QED  BY <1>2, <1>3 DEF Shapes

LEMMA ShapesNext == Types /\ Shapes /\ [Next]_vars => Shapes'
  <1> SUFFICES ASSUME Types, Shapes, [Next]_vars PROVE Shapes'
    OBVIOUS
  <1> SUFFICES ASSUME NEW s \in Sections, NEW m \in Atoms(s),
                      phase' = "parse" => s < sec' \/ (s = sec' /\ m < i')
               PROVE  Formed(Code(s)[m], lastsize'[s][m])
    <2>1. prog' = prog
      BY DEF Next, vars, ParseAtom, ParseSection, PickSection, EndSweep, BeginPass,
         MoveLabel, KeepSize, ResizeAtom, EndPass, AssembleAtom, AssembleSection
    <2>2. /\ Sections' = Sections /\ \A s \in Sections : Code(s)' = Code(s)
          /\ \A s \in Sections : Atoms(s)' = Atoms(s)
      BY <2>1 DEF Sections, Code, Atoms
    <2> QED  BY <2>2 DEF Shapes
  <1>t. /\ prog \in Programs /\ Sizes /\ Len(prog) \in Nat /\ Sections = 1 .. Len(prog)
        /\ Len(Code(s)) \in Nat /\ DOMAIN Code(s) = Atoms(s) /\ Atoms(s) = 1 .. Len(Code(s))
    BY ProgramShape DEF Types, Places, Atoms
  <1>1. ASSUME phase \in {"parse", "atoms"}, AtAtom, prog' = prog, sec' = sec, phase' = phase,
               i' = i + 1, lastsize' = [lastsize EXCEPT ![sec][i] = AtomSize(Atom, Here)]
        PROVE  Formed(Code(s)[m], lastsize'[s][m])
    <2>1. /\ sec \in Sections /\ i \in 1 .. Len(Code(sec)) /\ i \in DOMAIN Code(sec)
          /\ IsAtom(Atom) /\ AtomSize(Atom, Here) \in Nat
          /\ Atom.kind = "label" => AtomSize(Atom, Here) = 0
      BY <1>1, AtomHere
    <2>2. /\ lastsize'[sec][i] = AtomSize(Atom, Here)
          /\ \A t \in Sections \ {sec} : lastsize'[t] = lastsize[t]
      BY <1>1, <1>t, <2>1, SizeUpdate
    <2>3. CASE s = sec /\ m = i
      BY <2>1, <2>2, <2>3, SizeFormed DEF Atom
    <2>4. CASE ~ (s = sec /\ m = i)
      <3>1. lastsize'[s][m] = lastsize[s][m]
        <4>1. \A n \in DOMAIN Code(sec) \ {i} : lastsize'[sec][n] = lastsize[sec][n]
          BY <1>1, <1>t, <2>1 DEF Sizes
        <4> QED  BY <1>t, <2>2, <2>4, <4>1
      <3>2. phase = "parse" => s < sec \/ (s = sec /\ m < i)
        BY <1>1, <1>t, <2>1, <2>4
      <3> QED  BY <3>1, <3>2 DEF Shapes
    <2> QED  BY <2>3, <2>4
  <1>2. CASE ParseAtom
    BY <1>1, <1>2 DEF ParseAtom
  <1>3. CASE ResizeAtom
    BY <1>1, <1>3 DEF ResizeAtom, Record
  <1>4. CASE ParseSection
    <2>1. sec \in Sections /\ i = Len(Code(sec)) + 1 /\ phase = "parse" /\ lastsize' = lastsize
      BY <1>4, <1>t DEF ParseSection, AtEnd, Types, Places
    <2>2. s <= sec
      BY <1>4, <1>t, <2>1 DEF ParseSection
    <2>3. s < sec \/ (s = sec /\ m < i)
      BY <1>t, <2>1, <2>2
    <2> QED  BY <2>1, <2>3 DEF Shapes
  <1>5. CASE UNCHANGED vars
    BY <1>5 DEF vars, Shapes
  <1>6. ASSUME \/ PickSection \/ EndSweep \/ BeginPass \/ MoveLabel \/ KeepSize
               \/ EndPass \/ AssembleAtom \/ AssembleSection
        PROVE  phase # "parse" /\ lastsize' = lastsize
    BY <1>6 DEF PickSection, EndSweep, BeginPass, MoveLabel, KeepSize, EndPass,
       AssembleAtom, AssembleSection
  <1> QED  BY <1>2, <1>3, <1>4, <1>5, <1>6 DEF Next, Shapes

-----------------------------------------------------------------------------
(* The instructions of section s, and those of size 2 among them. *)
Commands(s) == {j \in DOMAIN Code(s) : Code(s)[j].kind = "inst"}
ShortOnes(s, x) == {j \in Commands(s) : x[j] = 2}
Short(s) == Cardinality(ShortOnes(s, lastsize[s]))

(* How often the fast phase can still run out: each pass in which something*)
(* grows uses up one chance, and between two such passes only short        *)
(* instructions appear.                                                    *)
Chances == FastOptPhase - (fast - pass)
Room(n, chances, k, short) == n <= chances * (k + 1) + short
FastPhase ==
    /\ FastPhaseEnds
    /\ phase = "pass" /\ ~Safe =>
          Chances >= 0 /\ Room(pass, Chances, Instructions(sec), Short(sec))
    /\ phase = "atoms" /\ Safe => ~extra
    /\ phase = "atoms" /\ ~Safe =>
          /\ Chances >= 1
          /\ stable => extra /\ Room(pass - 1, Chances - 1, Instructions(sec), Short(sec))
          /\ extra /\ ~stable => Room(pass, Chances - 1, Instructions(sec), Short(sec))
          /\ ~extra => Room(pass, Chances, Instructions(sec), 0)

LEMMA CommandsFinite ==
    ASSUME prog \in Programs, NEW s \in Sections
    PROVE  /\ IsFiniteSet(Commands(s)) /\ Commands(s) \subseteq Atoms(s)
           /\ Instructions(s) = Cardinality(Commands(s)) /\ Instructions(s) \in Nat
           /\ DOMAIN Code(s) = Atoms(s)
  <1>1. Len(Code(s)) \in Nat /\ DOMAIN Code(s) = 1 .. Len(Code(s))
    BY ProgramShape
  <1>2. IsFiniteSet(1 .. Len(Code(s)))
    BY <1>1, FS_Interval
  <1>3. Commands(s) \subseteq 1 .. Len(Code(s))
    BY <1>1 DEF Commands
  <1>4. IsFiniteSet(Commands(s))
    BY <1>2, <1>3, FS_Subset
  <1> QED  BY <1>1, <1>3, <1>4, FS_CardinalityType DEF Atoms, Instructions, Commands

LEMMA ShortType ==
    ASSUME prog \in Programs, NEW s \in Sections
    PROVE  Short(s) \in Nat /\ Short(s) <= Instructions(s)
  <1>1. ShortOnes(s, lastsize[s]) \subseteq Commands(s)
    BY DEF ShortOnes
  <1>2. IsFiniteSet(Commands(s)) /\ Instructions(s) = Cardinality(Commands(s))
    BY CommandsFinite
  <1> QED  BY <1>1, <1>2, FS_Subset, FS_CardinalityType DEF Short

LEMMA ShortSame ==
    ASSUME prog' = prog, sec' = sec, lastsize' = lastsize
    PROVE  Short(sec)' = Short(sec) /\ Instructions(sec)' = Instructions(sec)
  BY DEF Short, ShortOnes, Commands, Instructions, Code

(* What ResizeAtom can do to an atom. *)
LEMMA Resize ==
    ASSUME Types, Shapes, ResizeAtom
    PROVE  LET size == AtomSize(Atom, Here)
               old == lastsize[sec][i]
           IN  /\ sec \in Sections /\ i \in Atoms(sec) /\ size \in Nat /\ old \in Nat
               /\ lastsize'[sec][i] = size
               /\ \A m \in Atoms(sec) \ {i} : lastsize'[sec][m] = lastsize[sec][m]
               /\ size # old => i \in Commands(sec) /\ (size = 2 <=> size < old)
                                /\ (old = 2 <=> old < size)
               /\ size = old => lastsize' = lastsize
  <1> DEFINE size == AtomSize(Atom, Here)
             old == lastsize[sec][i]
  <1> USE DEF ResizeAtom
  <1>t. prog \in Programs /\ Sizes
    BY DEF Types, Places
  <1>1. /\ sec \in Sections /\ i \in 1 .. Len(Code(sec)) /\ i \in DOMAIN Code(sec)
        /\ IsAtom(Atom) /\ size \in Nat
        /\ Atom.kind # "label" /\ lastsize[sec][i] \in Nat
    BY AtomHere
  <1>2. lastsize' = [lastsize EXCEPT ![sec][i] = size]
    BY DEF Record
  <1>3. lastsize'[sec][i] = size
    BY <1>t, <1>1, <1>2, SizeUpdate
  <1>4. \A m \in Atoms(sec) \ {i} : lastsize'[sec][m] = lastsize[sec][m]
    BY <1>t, <1>1, <1>2 DEF Sizes, Atoms
  <1>5. Formed(Atom, size) /\ Formed(Atom, old)
    <2>1. phase # "parse" /\ i \in Atoms(sec)
      BY <1>1 DEF Atoms
    <2>2. Formed(Atom, old)
      BY <1>1, <2>1 DEF Shapes, Atom
    <2> QED  BY <1>1, <2>2, SizeFormed
  <1>6. ASSUME size # old
        PROVE  i \in Commands(sec) /\ (size = 2 <=> size < old) /\ (old = 2 <=> old < size)
    <2>1. Atom.kind = "inst"
      BY <1>1, <1>5, <1>6 DEF Formed, IsAtom
    <2>2. size \in {2, Longer(Atom)} /\ old \in {2, Longer(Atom)} /\ Longer(Atom) \in {3, 5}
      BY <1>5, <2>1 DEF Formed, Longer
    <2> HIDE DEF size, old
    <2>3. (size = 2 <=> size < old) /\ (old = 2 <=> old < size)
      BY <1>6, <2>2
    <2> QED  BY <1>1, <2>1, <2>3 DEF Commands, Atom
  <1>7. ASSUME size = old
        PROVE  lastsize' = lastsize
    <2>1. lastsize' = [lastsize EXCEPT ![sec] = [lastsize[sec] EXCEPT ![i] = lastsize[sec][i]]]
      BY <1>2, <1>7
    <2>2. [lastsize[sec] EXCEPT ![i] = lastsize[sec][i]] = lastsize[sec]
      BY <1>1, SizesType
    <2>3. [lastsize EXCEPT ![sec] = lastsize[sec]] = lastsize
      BY <1>t, <1>1 DEF Sizes
    <2> QED  BY <2>1, <2>2, <2>3
  <1> QED  BY <1>1, <1>3, <1>4, <1>6, <1>7 DEF Atoms

(* What has shrunk is one short instruction more. *)
LEMMA ShortChange ==
    ASSUME Types, Shapes, ResizeAtom
    PROVE  /\ AtomSize(Atom, Here) = lastsize[sec][i] => Short(sec)' = Short(sec)
           /\ AtomSize(Atom, Here) < lastsize[sec][i] => Short(sec)' = Short(sec) + 1
  <1> USE DEF ResizeAtom
  <1>t. prog \in Programs /\ prog' = prog /\ sec' = sec
    BY DEF Types, Places
  <1>1. PICK s, n, x, y : s = sec /\ n = i /\ x = lastsize[sec] /\ y = lastsize'[sec]
    OBVIOUS
  <1>2. /\ s \in Sections /\ n \in Atoms(s) /\ y[n] = AtomSize(Atom, Here)
        /\ x[n] \in Nat /\ y[n] \in Nat
        /\ \A m \in Atoms(s) \ {n} : y[m] = x[m]
        /\ y[n] # x[n] => n \in Commands(s) /\ (y[n] = 2 <=> y[n] < x[n])
      BY <1>1, Resize
  <1>3. Short(sec) = Cardinality(ShortOnes(s, x)) /\ Short(sec)' = Cardinality(ShortOnes(s, y))
    BY <1>t, <1>1 DEF Short, ShortOnes, Commands, Code
  <1>4. IsFiniteSet(Commands(s)) /\ Commands(s) \subseteq Atoms(s)
    BY <1>t, <1>2, CommandsFinite
  <1>5. ASSUME y[n] = x[n] PROVE ShortOnes(s, y) = ShortOnes(s, x)
    BY <1>2, <1>4, <1>5 DEF ShortOnes
  <1>6. ASSUME y[n] < x[n]
        PROVE  Cardinality(ShortOnes(s, y)) = Cardinality(ShortOnes(s, x)) + 1
    <2>1. n \in Commands(s) /\ y[n] = 2 /\ x[n] # 2
      BY <1>2, <1>6
    <2>2. ShortOnes(s, y) = ShortOnes(s, x) \cup {n} /\ n \notin ShortOnes(s, x)
      BY <1>2, <1>4, <2>1 DEF ShortOnes
    <2>3. IsFiniteSet(ShortOnes(s, x))
      <3>1. ShortOnes(s, x) \subseteq Commands(s)
        BY DEF ShortOnes
      <3> QED  BY <1>4, <3>1, FS_Subset
    <2> QED  BY <2>2, <2>3, FS_AddElement
  <1> QED  BY <1>1, <1>2, <1>3, <1>5, <1>6

LEMMA RoomGrows ==
    ASSUME NEW n \in Int, NEW m \in Int, NEW c \in Int, NEW k \in Nat, NEW a \in Int, NEW b \in Int,
           Room(n, c, k, a), m <= n + (b - a)
    PROVE  Room(m, c, k, b)
  <1> DEFINE t == c * (k + 1)
  <1>1. t \in Int
    OBVIOUS
  <1>2. n <= t + a
    BY DEF Room
  <1> HIDE DEF t
  <1>3. m <= t + b
    BY <1>1, <1>2
  <1> QED  BY <1>3 DEF Room, t

(* A chance makes up for all the instructions that could be short. *)
LEMMA RoomChance ==
    ASSUME NEW n \in Int, NEW c \in Int, NEW k \in Nat, NEW a \in Int, a <= k, Room(n, c - 1, k, a)
    PROVE  Room(n + 1, c, k, 0)
  <1> DEFINE t == (c - 1) * (k + 1)
  <1>1. t \in Int /\ c * (k + 1) = t + (k + 1)
    OBVIOUS
  <1>2. n <= t + a
    BY DEF Room
  <1> HIDE DEF t
  <1>3. n + 1 <= t + (k + 1) + 0
    BY <1>1, <1>2
  <1> QED  BY <1>1, <1>3 DEF Room

LEMMA RoomEnds ==
    ASSUME NEW n \in Int, NEW c \in Nat, NEW k \in Nat, NEW a \in Int, a <= k, Room(n, c, k, a),
           NEW f \in Nat, c <= f
    PROVE  f - c + n <= f + (f + 1) * k
  <1> DEFINE d == f - c
  <1>1. d \in Nat /\ c = f - d
    OBVIOUS
  <1>2. n <= (f - d) * (k + 1) + a
    BY <1>1 DEF Room
  <1>3. (f - d) * (k + 1) = f * k + f - d * k - d /\ d * k \in Nat /\ (f + 1) * k = f * k + k
        /\ f * k \in Nat
    BY <1>1
  <1> DEFINE u == f * k
             v == d * k
  <1> HIDE DEF d, u, v
  <1> QED  BY <1>1, <1>2, <1>3 DEF u, v

LEMMA FastPhaseInit == Init => FastPhase
  BY DEF Init, FastPhase, FastPhaseEnds

LEMMA FastPhaseNext ==
    Types /\ Layout /\ Shapes /\ FastPhase /\ [Next]_vars => FastPhase'
  <1> SUFFICES ASSUME Types, Layout, Shapes, FastPhase, [Next]_vars PROVE FastPhase'
    OBVIOUS
  <1>t. /\ prog \in Programs /\ pass \in Nat /\ fast \in Nat /\ FastOptPhase \in Nat
        /\ Chances \in Int /\ Flags
    BY TypeParts, PassAssumption DEF Types, Places, TypeOK, Chances
  <1>k. phase \in {"pass", "atoms"} =>
           /\ sec \in Sections /\ Instructions(sec) \in Nat
           /\ Short(sec) \in Nat /\ Short(sec) <= Instructions(sec)
    BY <1>t, CommandsFinite, ShortType DEF Types, Places, InProgress, TypeOK
  <1>s. ASSUME prog' = prog, sec' = sec, lastsize' = lastsize
        PROVE  Short(sec)' = Short(sec)
    BY <1>s, ShortSame
  <1>i. ASSUME prog' = prog, sec' = sec
        PROVE  Instructions(sec)' = Instructions(sec)
    BY <1>i DEF Instructions, Code
  <1>c. ASSUME pass' = pass, fast' = fast
        PROVE  Chances' = Chances /\ (Safe' <=> Safe)
    BY <1>c DEF Chances, Safe
  <1> USE DEF passVars
  <1>1. CASE PickSection
    <2> USE <1>1 DEF PickSection
    <2>1. CASE phase' = "sweep"
      BY <2>1 DEF FastPhase, FastPhaseEnds
    <2>2. CASE sec \in todo
      <3>1. phase' = "pass" /\ pass' = 0 /\ fast' = FastOptPhase /\ sec' = sec /\ prog' = prog
            /\ sec \in Sections /\ lastsize' = lastsize
        BY <2>2
      <3>2. Instructions(sec)' = Instructions(sec) /\ Short(sec)' = Short(sec)
            /\ Instructions(sec) \in Nat /\ Short(sec) \in Nat
        BY <1>s, <1>i, <1>t, <3>1, CommandsFinite, ShortType
      <3>3. Chances' = 0
        BY <1>t, <3>1 DEF Chances
      <3>4. Room(pass, Chances, Instructions(sec), Short(sec))'
        BY <3>1, <3>2, <3>3 DEF Room
      <3>5. FastPhaseEnds'
        <4>1. (FastOptPhase + 1) * Instructions(sec) \in Nat
          BY <1>t, <3>2
        <4> QED  BY <1>t, <3>1, <3>2, <4>1 DEF FastPhaseEnds
      <3> QED  BY <3>1, <3>3, <3>4, <3>5 DEF FastPhase
    <2>3. CASE sec \notin todo
      BY <2>1, <2>3
    <2> QED  BY <2>2, <2>3
  <1>2. CASE BeginPass
    <2> USE <1>2 DEF BeginPass
    <2>1. FastPhaseEnds'
      BY <1>i DEF FastPhase, FastPhaseEnds
    <2>2. CASE phase' = "failed"
      BY <2>1, <2>2 DEF FastPhase
    <2>3. CASE phase' = "atoms"
      <3>1. /\ stable' /\ (extra' <=> pass' <= fast) /\ pass' = pass + 1 /\ fast' = fast
            /\ (Safe' <=> ~ extra')
        <4>1. ~Limit(pass') /\ stable' = TRUE /\ extra' = (pass' <= fast)
          BY <2>3
        <4>2. stable' /\ (extra' <=> pass' <= fast)
          BY <4>1, Zenon
        <4> QED  BY <1>t, <4>2 DEF Safe
      <3>2. ASSUME ~Safe'
            PROVE  /\ Chances' - 1 = Chances /\ Chances >= 0
                   /\ Room(pass - 1, Chances - 1, Instructions(sec), Short(sec))'
        <4>1. ~Safe
          BY <1>t, <3>1, <3>2 DEF Safe
        <4>2. Chances >= 0 /\ Room(pass, Chances, Instructions(sec), Short(sec))
          BY <4>1 DEF FastPhase
        <4>3. Chances' - 1 = Chances
          BY <1>t, <3>1 DEF Chances
        <4>4. Instructions(sec)' = Instructions(sec) /\ Short(sec)' = Short(sec)
          BY <1>s, <1>i
        <4>5. pass' - 1 = pass
          BY <1>t
        <4> QED  BY <4>2, <4>3, <4>4, <4>5
      <3>3. ~Safe' => Chances' >= 1
        BY <1>t, <3>1, <3>2 DEF Chances
      <3> QED  BY <2>1, <2>3, <3>1, <3>2, <3>3 DEF FastPhase
    <2> QED  BY <2>2, <2>3
  <1>3. CASE MoveLabel
    <2>1. /\ phase = "atoms" /\ phase' = "atoms" /\ sec' = sec /\ prog' = prog
          /\ extra' = extra /\ pass' = pass /\ fast' = fast /\ lastsize' = lastsize
      BY <1>3 DEF MoveLabel
    <2>2. Chances' = Chances /\ (Safe' <=> Safe)
      BY <1>c, <2>1
    <2>3. Instructions(sec)' = Instructions(sec) /\ Short(sec)' = Short(sec)
      BY <1>s, <1>i, <2>1
    <2>4. stable' <=> stable
      <3>1. stable' => stable
        <4>1. stable' = (stable /\ label[Atom.name] = Here)
          BY <1>3 DEF MoveLabel
        <4> QED  BY <4>1, Zenon
      <3> QED  BY <1>3, <3>1, LabelStands
    <2> QED  BY <2>1, <2>2, <2>3, <2>4 DEF FastPhase, FastPhaseEnds
  <1>4. CASE ResizeAtom
    <2> DEFINE size == AtomSize(Atom, Here)
               old == lastsize[sec][i]
    <2>1. /\ phase = "atoms" /\ phase' = "atoms" /\ sec' = sec /\ prog' = prog
          /\ pass' = pass /\ fast' = fast
      BY <1>4 DEF ResizeAtom
    <2>2. Chances' = Chances /\ (Safe' <=> Safe) /\ Instructions(sec)' = Instructions(sec)
      BY <1>c, <1>i, <2>1
    <2>3. /\ size \in Nat /\ old \in Nat
          /\ size = old => Short(sec)' = Short(sec)
          /\ size < old => Short(sec)' = Short(sec) + 1
      BY <1>4, Resize, ShortChange
    <2>4. (stable' <=> stable /\ size = old) /\ (extra' <=> extra /\ Extends(size, old))
      <3>1. stable' = (stable /\ size = old) /\ extra' = (extra /\ Extends(size, old))
        BY <1>4 DEF ResizeAtom
      <3> HIDE DEF size, old
      <3> QED  BY <3>1, Zenon
    <2>5. FastPhaseEnds'
      BY <2>1, <2>2 DEF FastPhase, FastPhaseEnds
    <2>6. CASE Safe
      BY <2>1, <2>2, <2>4, <2>5, <2>6 DEF FastPhase
    <2>7. CASE ~Safe
      <3>0. /\ Chances >= 1
            /\ stable => extra /\ Room(pass - 1, Chances - 1, Instructions(sec), Short(sec))
            /\ extra /\ ~stable => Room(pass, Chances - 1, Instructions(sec), Short(sec))
            /\ ~extra => Room(pass, Chances, Instructions(sec), 0)
        BY <2>1, <2>7 DEF FastPhase
      <3> HIDE DEF size, old
      <3>1. Extends(size, old) <=> size <= old
        BY <2>7 DEF Extends
      <3>2. ASSUME stable'
            PROVE  extra' /\ Room(pass - 1, Chances - 1, Instructions(sec), Short(sec))'
        <4>1. stable /\ size = old
          BY <2>4, <3>2
        <4>2. extra'
          BY <2>3, <2>4, <3>0, <3>1, <4>1
        <4> QED  BY <2>1, <2>2, <2>3, <3>0, <4>1, <4>2
      <3>3. ASSUME extra', ~stable'
            PROVE  Room(pass, Chances - 1, Instructions(sec), Short(sec))'
        <4>1. extra /\ size <= old /\ (~stable \/ size < old)
          BY <2>3, <2>4, <3>1, <3>3
        <4>2. CASE stable
          <5>1. size < old /\ Short(sec)' = Short(sec) + 1
            BY <2>3, <4>1, <4>2
          <5>2. Room(pass, Chances - 1, Instructions(sec), Short(sec) + 1)
            BY <1>t, <1>k, <2>1, <3>0, <4>2, RoomGrows
          <5> QED  BY <2>1, <2>2, <5>1, <5>2
        <4>3. CASE ~stable
          <5>1. Short(sec)' \in Int /\ Short(sec)' >= Short(sec)
            BY <1>k, <2>1, <2>3, <4>1
          <5>2. Room(pass, Chances - 1, Instructions(sec), Short(sec)')
            BY <1>t, <1>k, <2>1, <3>0, <4>1, <4>3, <5>1, RoomGrows
          <5> QED  BY <2>1, <2>2, <5>2
        <4> QED  BY <4>2, <4>3
      <3>4. ASSUME ~extra'
            PROVE  Room(pass, Chances, Instructions(sec), 0)'
        <4>1. CASE ~extra
          BY <2>1, <2>2, <3>0, <4>1
        <4>2. CASE extra /\ stable
          <5>1. Room((pass - 1) + 1, Chances, Instructions(sec), 0)
            BY <1>t, <1>k, <2>1, <3>0, <4>2, RoomChance
          <5>2. (pass - 1) + 1 = pass
            BY <1>t
          <5> QED  BY <2>1, <2>2, <5>1, <5>2
        <4>3. CASE extra /\ ~stable
          <5>1. Room(pass + 1, Chances, Instructions(sec), 0)
            BY <1>t, <1>k, <2>1, <3>0, <4>3, RoomChance
          <5>2. Room(pass, Chances, Instructions(sec), 0)
            BY <1>t, <1>k, <2>1, <5>1, RoomGrows
          <5> QED  BY <2>1, <2>2, <5>2
        <4> QED  BY <4>1, <4>2, <4>3
      <3> QED  BY <2>1, <2>2, <2>5, <2>7, <3>0, <3>2, <3>3, <3>4 DEF FastPhase
    <2> QED  BY <2>6, <2>7
  <1>5. CASE KeepSize
    <2>1. /\ phase = "atoms" /\ phase' = "atoms" /\ sec' = sec /\ prog' = prog /\ Safe
          /\ pass' = pass /\ fast' = fast /\ (extra' <=> extra)
      BY <1>5 DEF KeepSize
    <2>2. (Safe' <=> Safe) /\ Instructions(sec)' = Instructions(sec)
      BY <1>c, <1>i, <2>1
    <2> QED  BY <2>1, <2>2 DEF FastPhase, FastPhaseEnds
  <1>6. CASE EndPass
    <2>1. /\ prog' = prog /\ lastsize' = lastsize /\ pass' = pass /\ phase = "atoms"
          /\ fast' = IF extra THEN fast + 1 ELSE fast
      BY <1>6 DEF EndPass
    <2>2. CASE ~Again
      BY <1>6, <2>2 DEF EndPass, FastPhase, FastPhaseEnds
    <2>3. CASE Again
      <3>1. phase' = "pass" /\ sec' = sec /\ ~stable
        BY <1>6, <2>3 DEF EndPass, Again
      <3>2. Instructions(sec)' = Instructions(sec) /\ Short(sec)' = Short(sec)
        BY <1>s, <1>i, <2>1, <3>1
      <3>3. CASE Safe
        <4>1. fast' = fast /\ Safe'
          BY <2>1, <3>3 DEF FastPhase, Safe
        <4> QED  BY <2>1, <3>1, <3>2, <3>3, <4>1 DEF FastPhase, FastPhaseEnds
      <3>4. CASE ~Safe /\ ~extra
        <4>1. fast' = fast /\ Chances' = Chances
          BY <2>1, <3>4 DEF Chances
        <4>2. Chances >= 1 /\ Room(pass, Chances, Instructions(sec), 0)
          BY <2>1, <3>4 DEF FastPhase
        <4>3. Room(pass, Chances, Instructions(sec), Short(sec))
          BY <1>t, <1>k, <2>1, <4>2, RoomGrows
        <4>4. Chances' >= 0
          BY <1>t, <4>1, <4>2
        <4> QED  BY <2>1, <3>1, <3>2, <4>1, <4>3, <4>4 DEF FastPhase, FastPhaseEnds
      <3>5. CASE ~Safe /\ extra
        <4>1. fast' = fast + 1 /\ Chances' = Chances - 1
          BY <1>t, <2>1, <3>5 DEF Chances
        <4>2. Chances >= 1 /\ Room(pass, Chances - 1, Instructions(sec), Short(sec))
          BY <2>1, <3>1, <3>5 DEF FastPhase
        <4>3. Chances' >= 0 /\ Room(pass, Chances, Instructions(sec), Short(sec))'
          BY <1>t, <2>1, <3>2, <4>1, <4>2
        <4>4. FastPhaseEnds'
          <5> DEFINE c == Chances - 1
          <5>1. c \in Nat /\ c <= FastOptPhase /\ fast + 1 = FastOptPhase - c + pass
            BY <1>t, <3>5, <4>2 DEF Chances, Safe
          <5> HIDE DEF c
          <5>2. Room(pass, c, Instructions(sec), Short(sec))
            BY <4>2 DEF c
          <5>3. FastOptPhase - c + pass <= FastOptPhase + (FastOptPhase + 1) * Instructions(sec)
            BY <1>t, <1>k, <2>1, <5>1, <5>2, RoomEnds
          <5> QED  BY <3>2, <4>1, <5>1, <5>3 DEF FastPhaseEnds
        <4> QED  BY <3>1, <4>3, <4>4 DEF FastPhase
      <3> QED  BY <3>3, <3>4, <3>5
    <2> QED  BY <2>2, <2>3
  <1>7. CASE ParseAtom \/ ParseSection \/ EndSweep \/ AssembleAtom \/ AssembleSection
    <2>1. phase' \notin {"pass", "atoms", "failed"}
      BY <1>7 DEF ParseAtom, ParseSection, EndSweep, AssembleAtom, AssembleSection
    <2> QED  BY <2>1 DEF FastPhase, FastPhaseEnds
  <1>8. CASE UNCHANGED vars
    <2>1. /\ phase' = phase /\ sec' = sec /\ prog' = prog /\ lastsize' = lastsize
          /\ pass' = pass /\ fast' = fast
      BY <1>8 DEF vars
    <2>2. (stable' <=> stable) /\ (extra' <=> extra)
      BY <1>8, Zenon DEF vars
    <2>3. Chances' = Chances /\ (Safe' <=> Safe)
      BY <1>c, <2>1
    <2>4. Instructions(sec)' = Instructions(sec) /\ Short(sec)' = Short(sec)
      BY <1>s, <1>i, <2>1
    <2> QED  BY <2>1, <2>2, <2>3, <2>4 DEF FastPhase, FastPhaseEnds
  <1> QED  BY <1>1, <1>2, <1>3, <1>4, <1>5, <1>6, <1>7, <1>8 DEF Next

-----------------------------------------------------------------------------
(* The sizes the atoms of s can have, and the size an instruction calls for*)
(* when the labels of s are where the sizes x put them.                    *)
Sized(s) == {x \in [Atoms(s) -> Nat] : \A m \in Atoms(s) : Formed(Code(s)[m], x[m])}
Index(s, l) == CHOOSE m \in Atoms(s) : Defines(Code(s)[m], l)
AddressIn(s, x, l) == IF HomeOf(l) = s THEN Begins(s, x)[Index(s, l)] ELSE label[l]
SizeFor(at, value, p) ==
    CASE at.op = "abs" -> IF value \in 0 .. PageEnd THEN 2 ELSE 3
      [] at.op = "jmp" -> 3
      [] at.op \in {"bcc", "bra"} ->
            IF BranchOpt /\ value - (p + 2) \notin -Reach .. Reach - 1
            THEN Longer(at) ELSE 2
Wanted(s, x, j) ==
    SizeFor(Code(s)[j], Code(s)[j].k + Code(s)[j].coef * AddressIn(s, x, Code(s)[j].name),
            Begins(s, x)[j])

(* A sequence that nowhere descends. *)
LEMMA Ascent ==
    ASSUME NEW last \in Nat, NEW f \in [1 .. last + 1 -> Int],
           \A m \in 1 .. last : f[m] <= f[m + 1], NEW u \in 1 .. last + 1
    PROVE  \A v \in u .. last + 1 : f[u] <= f[v]
  <1> DEFINE T == {v \in u .. last + 1 : ~ (f[u] <= f[v])}
  <1>1. SUFFICES ASSUME T # {} PROVE FALSE
    BY <1>1
  <1>2. T \subseteq Nat
    OBVIOUS
  <1>3. PICK v \in T : \A w \in T : ~ (<<w, v>> \in OpToRel(<, Nat))
    <2> HIDE DEF T
    <2> QED  BY <1>1, <1>2, NatLessThanWellFounded, WFMin
  <1>4. v \in u .. last + 1 /\ ~ (f[u] <= f[v])
    OBVIOUS
  <1>9. f[u] \in Int
    OBVIOUS
  <1>5. v > u /\ v - 1 < v /\ v - 1 \in u .. last + 1 /\ v - 1 \in 1 .. last /\ v - 1 \in Nat /\ v \in Nat
        /\ (v - 1) + 1 = v
    BY <1>4, <1>9
  <1>6. v - 1 \notin T
    <2> HIDE DEF T
    <2> QED  BY <1>2, <1>3, <1>5 DEF OpToRel
  <1>7. f[u] <= f[v - 1] /\ f[v - 1] <= f[v]
    BY <1>5, <1>6
  <1>8. f[u] \in Int /\ f[v] \in Int /\ f[v - 1] \in Int
    BY <1>5
  <1> QED  BY <1>4, <1>7, <1>8

LEMMA UnitAlign ==
    ASSUME NEW p \in Int
    PROVE  Align(p, 1) = p
  BY DEF Align

(* Nothing is aligned in a growing section. *)
LEMMA GrowingBegins ==
    ASSUME prog \in Programs, NEW s \in Sections, Growing(s), NEW x \in [Atoms(s) -> Nat]
    PROVE  /\ Len(Code(s)) \in Nat
           /\ Begins(s, x) \in [1 .. Len(Code(s)) + 1 -> Int]
           /\ Begins(s, x)[1] = Org(s) /\ Org(s) \in Nat
           /\ \A m \in Atoms(s) : Begins(s, x)[m + 1] = Begins(s, x)[m] + x[m]
  <1>1. Len(Code(s)) \in Nat /\ Org(s) \in Nat /\ DOMAIN Code(s) = Atoms(s)
        /\ Atoms(s) = 1 .. Len(Code(s))
    BY ProgramShape DEF Atoms
  <1>2. /\ Begins(s, x) \in [1 .. Len(Code(s)) + 1 -> Int]
        /\ Begins(s, x)[1] = Org(s)
        /\ \A m \in Atoms(s) :
               Begins(s, x)[m + 1] = Align(Begins(s, x)[m], Code(s)[m].align) + x[m]
    BY BeginsFacts
  <1>3. ASSUME NEW m \in Atoms(s)
        PROVE  Begins(s, x)[m + 1] = Begins(s, x)[m] + x[m]
    <2>1. Code(s)[m].align = 1
      BY <1>1 DEF Growing
    <2>2. Begins(s, x)[m] \in Int
      BY <1>1, <1>2
    <2> QED  BY <1>2, <2>1, <2>2, UnitAlign
  <1> QED  BY <1>1, <1>2, <1>3

(* Atoms lie at least the sizes between them apart, and growing sizes move*)
(* them away from each other.                                             *)
LEMMA Between ==
    ASSUME prog \in Programs, NEW s \in Sections, Growing(s),
           NEW x \in [Atoms(s) -> Nat], NEW y \in [Atoms(s) -> Nat],
           \A m \in Atoms(s) : x[m] <= y[m],
           NEW u \in 1 .. Len(Code(s)) + 1, NEW v \in u .. Len(Code(s)) + 1
    PROVE  /\ Begins(s, x)[v] - Begins(s, x)[u] <= Begins(s, y)[v] - Begins(s, y)[u]
           /\ Begins(s, x)[u] <= Begins(s, x)[v]
           /\ u < v => Begins(s, x)[u] + x[u] <= Begins(s, x)[v]
  <1> DEFINE last == Len(Code(s))
             b == Begins(s, x)
             c == Begins(s, y)
             f == [m \in 1 .. last + 1 |-> c[m] - b[m]]
  <1>1. /\ last \in Nat /\ Atoms(s) = 1 .. last
        /\ b \in [1 .. last + 1 -> Int] /\ c \in [1 .. last + 1 -> Int]
        /\ \A m \in 1 .. last : b[m + 1] = b[m] + x[m] /\ c[m + 1] = c[m] + y[m]
    BY GrowingBegins DEF Atoms
  <1>2. \A m \in 1 .. last : x[m] \in Nat /\ y[m] \in Nat /\ x[m] <= y[m]
    BY <1>1
  <1>3. u \in 1 .. last + 1 /\ v \in u .. last + 1
    OBVIOUS
  <1> HIDE DEF last, b, c
  <1>4. f \in [1 .. last + 1 -> Int] /\ \A m \in 1 .. last + 1 : f[m] = c[m] - b[m]
    BY <1>1
  <1> HIDE DEF f
  <1>5. ASSUME NEW m \in 1 .. last
        PROVE  f[m] <= f[m + 1] /\ b[m] <= b[m + 1]
    <2>1. m \in 1 .. last + 1 /\ m + 1 \in 1 .. last + 1
      BY <1>1
    <2>2. b[m] \in Int /\ c[m] \in Int
      BY <1>1, <2>1
    <2>3. b[m + 1] = b[m] + x[m] /\ c[m + 1] = c[m] + y[m]
      BY <1>1
    <2>4. f[m] = c[m] - b[m] /\ f[m + 1] = c[m + 1] - b[m + 1]
      BY <1>4, <2>1
    <2>5. x[m] \in Nat /\ y[m] \in Nat /\ x[m] <= y[m]
      BY <1>2
    <2> QED  BY <2>2, <2>3, <2>4, <2>5
  <1>6. f[u] <= f[v] /\ b[u] <= b[v]
    BY <1>1, <1>3, <1>4, <1>5, Ascent
  <1>7. ASSUME u < v PROVE b[u] + x[u] <= b[v]
    <2>1. u + 1 \in 1 .. last + 1 /\ v \in (u + 1) .. last + 1 /\ u \in 1 .. last
      BY <1>1, <1>3, <1>7
    <2>2. b[u + 1] <= b[v]
      BY <1>1, <1>5, <2>1, Ascent
    <2> QED  BY <1>1, <2>1, <2>2
  <1>8. v \in 1 .. last + 1 /\ b[u] \in Int /\ b[v] \in Int /\ c[u] \in Int /\ c[v] \in Int
    BY <1>1, <1>3
  <1>9. b[v] - b[u] <= c[v] - c[u]
    BY <1>3, <1>4, <1>6, <1>8
  <1> QED  BY <1>6, <1>7, <1>9 DEF b, c

LEMMA IndexFacts ==
    ASSUME prog \in Programs, NEW s \in Sections, NEW j \in Commands(s),
           HomeOf(Code(s)[j].name) = s
    PROVE  LET n == Index(s, Code(s)[j].name)
           IN  n \in Atoms(s) /\ Defines(Code(s)[n], Code(s)[j].name) /\ n # j
  <1> DEFINE l == Code(s)[j].name
  <1>1. IsProgram(prog) /\ DOMAIN Code(s) = Atoms(s) /\ j \in Atoms(s)
        /\ Code(s)[j].kind = "inst"
    BY ProgramAssumption, CommandsFinite DEF Commands
  <1>2. \E t \in Sections : \E n \in DOMAIN Code(t) : Defines(Code(t)[n], l)
    BY <1>1 DEF IsProgram, Sections, Code
  <1>3. \E n \in DOMAIN Code(s) : Defines(Code(s)[n], l)
    <2> DEFINE Defined(t) == \E n \in DOMAIN Code(t) : Defines(Code(t)[n], l)
    <2>1. HomeOf(l) = CHOOSE t \in Sections : Defined(t)
      BY DEF HomeOf
    <2>2. \E t \in Sections : Defined(t)
      BY <1>2
    <2> HIDE DEF Defined
    <2>3. Defined(s)
      BY <2>1, <2>2
    <2> QED  BY <2>3 DEF Defined
  <1>4. Index(s, l) \in Atoms(s) /\ Defines(Code(s)[Index(s, l)], l)
    BY <1>1, <1>3 DEF Index
  <1> QED  BY <1>1, <1>4 DEF Defines

LEMMA WantedType ==
    ASSUME prog \in Programs, NEW s \in Sections, NEW x, NEW j \in Commands(s)
    PROVE  Wanted(s, x, j) \in {2, Longer(Code(s)[j])} /\ Longer(Code(s)[j]) \in {3, 5}
  <1>1. Code(s)[j].op \in Ops
    BY ProgramShape DEF Commands, IsAtom
  <1>2. \A v, p : SizeFor(Code(s)[j], v, p) \in {2, Longer(Code(s)[j])}
    BY <1>1 DEF SizeFor, Longer, Ops
  <1>3. Wanted(s, x, j) \in {2, Longer(Code(s)[j])}
    BY <1>2 DEF Wanted
  <1> QED  BY <1>3 DEF Longer

(* In a growing section sizes that grow only call for sizes that grow. *)
LEMMA WantedGrows ==
    ASSUME prog \in Programs, label \in [Labels -> Int], NEW s \in Sections, Growing(s),
           NEW x \in Sized(s), NEW y \in Sized(s), \A m \in Atoms(s) : x[m] <= y[m],
           NEW j \in Commands(s)
    PROVE  Wanted(s, x, j) <= Wanted(s, y, j)
  <1> DEFINE at == Code(s)[j]
             b == Begins(s, x)
             c == Begins(s, y)
             last == Len(Code(s)) + 1
  <1>1. /\ j \in Atoms(s) /\ DOMAIN Code(s) = Atoms(s) /\ Atoms(s) = 1 .. Len(Code(s))
        /\ Len(Code(s)) \in Nat /\ at.kind = "inst" /\ IsAtom(at) /\ GrowsWith(s, at)
    <2>1. DOMAIN Code(s) = Atoms(s) /\ j \in Atoms(s)
      BY CommandsFinite
    <2> QED  BY <2>1, ProgramShape DEF Commands, Growing, Atoms
  <1>2. /\ x \in [Atoms(s) -> Nat] /\ y \in [Atoms(s) -> Nat]
        /\ \A m \in Commands(s) : x[m] \in Nat /\ x[m] >= 2
    <2>1. x \in [Atoms(s) -> Nat] /\ y \in [Atoms(s) -> Nat]
      BY DEF Sized
    <2>2. ASSUME NEW m \in Commands(s)
          PROVE  x[m] \in Nat /\ x[m] >= 2
      <3>1. m \in Atoms(s) /\ Code(s)[m].kind = "inst"
        BY CommandsFinite DEF Commands
      <3>2. x[m] \in {2, Longer(Code(s)[m])}
        BY <3>1 DEF Sized, Formed
      <3> QED  BY <3>2 DEF Longer
    <2> QED  BY <2>1, <2>2
  <1>3. /\ b \in [1 .. last -> Int] /\ c \in [1 .. last -> Int]
        /\ b[1] = c[1] /\ b[1] \in Nat /\ last \in Nat /\ 1 \in 1 .. last
    BY <1>2, GrowingBegins
  <1>4. /\ at.op \in Ops /\ at.k \in Int /\ at.coef \in Int /\ at.name \in Labels
        /\ Longer(at) \in {3, 5}
    BY <1>1 DEF IsAtom, Longer
  <1>5. /\ Wanted(s, x, j) \in {2, Longer(at)} /\ Wanted(s, y, j) \in {2, Longer(at)}
    BY WantedType
  <1>6. ASSUME NEW u \in 1 .. last, NEW v \in u .. last
        PROVE  /\ b[v] - b[u] <= c[v] - c[u]
               /\ b[u] <= b[v] /\ c[u] <= c[v]
               /\ u < v => b[u] + x[u] <= b[v]
    <2>1. \A m \in Atoms(s) : y[m] <= y[m]
      BY <1>2
    <2> QED  BY <1>2, <2>1, Between
  <1> DEFINE n == Index(s, at.name)
  <1>7. HomeOf(at.name) = s => n \in Atoms(s) /\ n # j
    BY IndexFacts
  <1>8. CASE at.op = "jmp"
    BY <1>8 DEF Wanted, SizeFor
  <1>9. CASE at.op = "abs"
    <2> DEFINE a == AddressIn(s, x, at.name)
               d == AddressIn(s, y, at.name)
    <2>1. a \in Int /\ d \in Int /\ a <= d /\ (a \in Nat \/ a = d)
      <3>1. CASE HomeOf(at.name) = s
        <4>1. n \in 1 .. last /\ a = b[n] /\ d = c[n]
          BY <1>1, <1>7, <3>1 DEF AddressIn
        <4>2. b[n] - b[1] <= c[n] - c[1] /\ b[1] <= b[n]
          BY <1>3, <1>6, <4>1
        <4>3. b[n] \in Int /\ c[n] \in Int
          BY <1>3, <4>1
        <4> QED  BY <1>3, <4>1, <4>2, <4>3
      <3>2. CASE HomeOf(at.name) # s
        BY <1>4, <3>2 DEF AddressIn
      <3> QED  BY <3>1, <3>2
    <2>2. at.coef = 0 \/ (at.coef = 1 /\ at.k >= 0)
      BY <1>1, <1>9 DEF GrowsWith
    <2> HIDE DEF a, d
    <2>3. at.k + at.coef * d \in 0 .. PageEnd => at.k + at.coef * a \in 0 .. PageEnd
      <3>1. CASE at.coef = 0
        BY <1>4, <2>1, <3>1
      <3>2. CASE at.coef = 1 /\ at.k >= 0
        BY <1>4, <2>1, <3>2, ReachAssumption
      <3> QED  BY <2>2, <3>1, <3>2
    <2>4. Wanted(s, y, j) = 2 => Wanted(s, x, j) = 2
      BY <1>9, <2>3 DEF Wanted, SizeFor, a, d
    <2> QED  BY <1>4, <1>5, <2>4
  <1>10. CASE at.op \in {"bcc", "bra"}
    <2>1. at.coef = 1 /\ HomeOf(at.name) = s /\ at.k \in -Reach .. Reach + 1 /\ Reach \in Nat
      BY <1>1, <1>10, ReachAssumption DEF GrowsWith
    <2>2. n \in 1 .. last /\ j \in 1 .. last /\ n # j /\ n \in Nat /\ j \in Nat
      BY <1>1, <1>7, <2>1
    <2>3. /\ AddressIn(s, x, at.name) = b[n] /\ AddressIn(s, y, at.name) = c[n]
          /\ b[n] \in Int /\ c[n] \in Int /\ b[j] \in Int /\ c[j] \in Int
      BY <1>3, <2>1, <2>2 DEF AddressIn
    <2>4. x[j] \in Nat /\ x[j] >= 2
      BY <1>2
    <2> DEFINE v == at.k + at.coef * b[n]
               w == at.k + at.coef * c[n]
    <2>5. v = at.k + b[n] /\ w = at.k + c[n]
      BY <1>4, <2>1, <2>3
    <2> HIDE DEF v, w
    <2>6. w - (c[j] + 2) \in -Reach .. Reach - 1 => v - (b[j] + 2) \in -Reach .. Reach - 1
      <3>1. CASE j < n
        <4>1. b[n] - b[j] <= c[n] - c[j] /\ b[j] + x[j] <= b[n]
          <5>1. n \in j .. last
            BY <2>2, <3>1
          <5> QED  BY <1>6, <2>2, <3>1, <5>1
        <4> QED  BY <1>4, <2>1, <2>3, <2>4, <2>5, <4>1
      <3>2. CASE n < j
        <4>1. b[j] - b[n] <= c[j] - c[n] /\ b[n] <= b[j]
          <5>1. j \in n .. last
            BY <2>2, <3>2
          <5> QED  BY <1>6, <2>2, <5>1
        <4> QED  BY <1>4, <2>1, <2>3, <2>5, <4>1
      <3> QED  BY <2>2, <3>1, <3>2
    <2>7. Wanted(s, x, j) = SizeFor(at, v, b[j]) /\ Wanted(s, y, j) = SizeFor(at, w, c[j])
      BY <2>3 DEF Wanted, v, w
    <2>8. Wanted(s, y, j) = 2 => Wanted(s, x, j) = 2
      <3> HIDE DEF at, b, c
      <3>1. \A value, p : SizeFor(at, value, p) =
                IF BranchOpt /\ value - (p + 2) \notin -Reach .. Reach - 1
                THEN Longer(at) ELSE 2
        BY <1>10 DEF SizeFor
      <3> QED  BY <1>4, <2>6, <2>7, <3>1
    <2> QED  BY <1>4, <1>5, <2>8
  <1> QED  BY <1>4, <1>8, <1>9, <1>10 DEF Ops

(* What optimize_instruction() calls for is what the sizes call for, if the*)
(* labels are where the sizes put them.                                    *)
LEMMA SizeIsWanted ==
    ASSUME Types, Parsed, phase # "parse", NEW s \in Sections, Growing(s), AllLaid(s),
           NEW j \in Commands(s)
    PROVE  InstSize(Code(s)[j], Begins(s, lastsize[s])[j]) = Wanted(s, lastsize[s], j)
  <1> DEFINE at == Code(s)[j]
  <1>1. /\ prog \in Programs /\ lastsize[s] \in [Atoms(s) -> Nat] /\ DOMAIN Code(s) = Atoms(s)
        /\ j \in Atoms(s) /\ at.kind = "inst" /\ at.op \in Ops /\ Atoms(s) = 1 .. Len(Code(s))
        /\ Len(Code(s)) \in Nat /\ at.k \in Int /\ at.coef \in Int
    <2>1. prog \in Programs
      BY DEF Types, Places
    <2> QED  BY <2>1, SizesType, CommandsFinite, ProgramShape DEF Commands, IsAtom, Atoms
  <1>2. Resolved(at)
    BY <1>1, AllResolved
  <1>3. AddressIn(s, lastsize[s], at.name) = label[at.name]
    <2>1. CASE HomeOf(at.name) = s
      <3> DEFINE n == Index(s, at.name)
      <3>1. n \in Atoms(s) /\ Code(s)[n].kind = "label" /\ Code(s)[n].name = at.name
        BY <1>1, <2>1, IndexFacts DEF Defines
      <3>2. n \in 1 .. (Len(Code(s)) + 1) - 1 /\ Code(s)[n].align = 1
        BY <1>1, <3>1 DEF Growing
      <3> HIDE DEF n
      <3>3. label[at.name] = Align(Begins(s, lastsize[s])[n], 1)
        BY <3>1, <3>2 DEF AllLaid, Laid
      <3>4. Begins(s, lastsize[s])[n] \in Int
        BY <1>1, <3>2, GrowingBegins
      <3>5. label[at.name] = Begins(s, lastsize[s])[n]
        BY <3>3, <3>4, UnitAlign
      <3> QED  BY <2>1, <3>5 DEF AddressIn, n
    <2>2. CASE HomeOf(at.name) # s
      BY <2>2 DEF AddressIn
    <2> QED  BY <2>1, <2>2
  <1>4. \A p : InstSize(at, p) = SizeFor(at, at.k + at.coef * label[at.name], p)
    BY <1>1, <1>2 DEF InstSize, SizeFor, Longer, Ops, InZeroPage, InReach, Distance, Value
  <1> QED  BY <1>3, <1>4 DEF Wanted

-----------------------------------------------------------------------------
(* What c passes in safe mode have come to: the instructions up to M have *)
(* only gone one way since the first of the passes that changed M, so that*)
(* there were no more of them than instructions that can have gone it, and*)
(* before that all changes were further in front.                         *)
Ahead(s, n) == {j \in Commands(s) : j < n}
Rank(s, n) == Cardinality(Ahead(s, n))
Lies(way, m, n) == IF way = "up" THEN m <= n ELSE n <= m
Done(s, x, n, way) ==
    {j \in Commands(s) : j <= n /\ IF way = "up" THEN x[j] # 2 ELSE x[j] = 2}
Gone(s, x, n, way) == Cardinality(Done(s, x, n, way))
OneWay(s, x, n, way) == \A j \in Commands(s) : j <= n => Lies(way, x[j], Wanted(s, x, j))
Settling(s, x, c) ==
    \/ c = 0
    \/ \E n \in Commands(s), way \in {"up", "down"} :
          /\ OneWay(s, x, n, way)
          /\ c <= Rank(s, n) * Instructions(s) + Gone(s, x, n, way)

LEMMA RankFacts ==
    ASSUME prog \in Programs, NEW s \in Sections, NEW n \in Commands(s)
    PROVE  /\ Rank(s, n) \in Nat /\ Rank(s, n) + 1 <= Instructions(s)
           /\ \A m \in Commands(s) : n < m => Rank(s, n) + 1 <= Rank(s, m)
  <1>1. /\ IsFiniteSet(Commands(s)) /\ Commands(s) \subseteq Nat
        /\ Instructions(s) = Cardinality(Commands(s))
    BY CommandsFinite DEF Atoms
  <1>2. \A m \in Commands(s) : IsFiniteSet(Ahead(s, m)) /\ Rank(s, m) \in Nat
    <2>1. \A m \in Commands(s) : Ahead(s, m) \subseteq Commands(s)
      BY DEF Ahead
    <2> QED  BY <1>1, <2>1, FS_Subset, FS_CardinalityType DEF Rank
  <1> DEFINE T == Ahead(s, n) \cup {n}
  <1>3. IsFiniteSet(T) /\ Cardinality(T) = Rank(s, n) + 1
    <2>1. n \notin Ahead(s, n)
      BY <1>1 DEF Ahead
    <2> QED  BY <1>2, <2>1, FS_AddElement DEF Rank
  <1>4. Rank(s, n) + 1 <= Instructions(s)
    <2>1. T \subseteq Commands(s)
      BY DEF Ahead
    <2> HIDE DEF T
    <2> QED  BY <1>1, <1>3, <2>1, FS_Subset
  <1>5. ASSUME NEW m \in Commands(s), n < m
        PROVE  Rank(s, n) + 1 <= Rank(s, m)
    <2>1. T \subseteq Ahead(s, m)
      BY <1>1, <1>5 DEF Ahead
    <2> HIDE DEF T
    <2> QED  BY <1>2, <1>3, <2>1, FS_Subset DEF Rank
  <1> QED  BY <1>2, <1>4, <1>5

LEMMA GoneFacts ==
    ASSUME prog \in Programs, NEW s \in Sections, NEW x, NEW n, NEW way
    PROVE  /\ IsFiniteSet(Done(s, x, n, way))
           /\ Gone(s, x, n, way) \in Nat /\ Gone(s, x, n, way) <= Instructions(s)
  <1>1. IsFiniteSet(Commands(s)) /\ Instructions(s) = Cardinality(Commands(s))
    BY CommandsFinite
  <1>2. Done(s, x, n, way) \subseteq Commands(s)
    BY DEF Done
  <1> QED  BY <1>1, <1>2, FS_Subset, FS_CardinalityType DEF Gone

(* So there are never more passes than this ... *)
LEMMA SettlingBound ==
    ASSUME prog \in Programs, NEW s \in Sections, NEW x, NEW c \in Nat, Settling(s, x, c)
    PROVE  c <= Instructions(s) * Instructions(s)
  <1>k. Instructions(s) \in Nat /\ Instructions(s) * Instructions(s) \in Nat
    BY CommandsFinite
  <1>1. CASE c = 0
    BY <1>k, <1>1
  <1>2. CASE \E n \in Commands(s), way \in {"up", "down"} :
               c <= Rank(s, n) * Instructions(s) + Gone(s, x, n, way)
    <2>1. PICK n \in Commands(s), way \in {"up", "down"} :
               c <= Rank(s, n) * Instructions(s) + Gone(s, x, n, way)
      BY <1>2
    <2>2. PICK k, r, g : k = Instructions(s) /\ r = Rank(s, n) /\ g = Gone(s, x, n, way)
      OBVIOUS
    <2>3. k \in Nat /\ r \in Nat /\ r + 1 <= k /\ g \in Nat /\ g <= k /\ c <= r * k + g
      BY <1>k, <2>1, <2>2, RankFacts, GoneFacts
    <2>4. (r + 1) * k = r * k + k /\ (r + 1) * k <= k * k /\ r * k \in Nat /\ k * k \in Nat
      BY <2>3
    <2>5. c <= (r + 1) * k
      BY <2>3, <2>4
    <2> QED  BY <2>2, <2>3, <2>4, <2>5
  <1> QED  BY <1>1, <1>2 DEF Settling

(* ... since each of them leads on. *)
LEMMA SettlingStep ==
    ASSUME prog \in Programs, label \in [Labels -> Int], NEW s \in Sections, Growing(s),
           NEW x \in Sized(s), NEW y \in Sized(s), NEW m \in Commands(s),
           \A j \in Atoms(s) \ {m} : y[j] = x[j],
           y[m] = Wanted(s, x, m), y[m] # x[m],
           \A j \in Commands(s) : j < m => x[j] = Wanted(s, x, j),
           NEW c \in Nat, Settling(s, x, c)
    PROVE  Settling(s, y, c + 1)
  <1>1. /\ Commands(s) \subseteq Atoms(s) /\ Commands(s) \subseteq Nat /\ Instructions(s) \in Nat
    BY CommandsFinite DEF Atoms
  <1>2. \A j \in Commands(s) : x[j] \in Nat /\ y[j] \in Nat
        /\ Wanted(s, x, j) \in Nat /\ Wanted(s, y, j) \in Nat
    <2>1. \A j \in Commands(s) : x[j] \in Nat /\ y[j] \in Nat
      BY <1>1 DEF Sized
    <2>2. \A j \in Commands(s) : Wanted(s, x, j) \in Nat /\ Wanted(s, y, j) \in Nat
      BY WantedType
    <2> QED  BY <2>1, <2>2
  <1>3. /\ x[m] \in {2, Longer(Code(s)[m])} /\ y[m] \in {2, Longer(Code(s)[m])}
        /\ Longer(Code(s)[m]) \in {3, 5}
    BY <1>1 DEF Sized, Commands, Formed, Longer
  <1> DEFINE To(way) == Lies(way, x[m], y[m])
  <1>4. ASSUME NEW way \in {"up", "down"}, To(way)
        PROVE  \A j \in Commands(s) : Lies(way, Wanted(s, x, j), Wanted(s, y, j))
    <2>1. \A j \in Atoms(s) : x[j] \in Nat /\ y[j] \in Nat
      BY DEF Sized
    <2>2. CASE way = "up"
      <3>1. \A j \in Atoms(s) : x[j] <= y[j]
        BY <1>4, <2>1, <2>2 DEF Lies
      <3> QED  BY <2>2, <3>1, WantedGrows DEF Lies
    <2>3. CASE way = "down"
      <3>1. \A j \in Atoms(s) : y[j] <= x[j]
        BY <1>4, <2>1, <2>3 DEF Lies
      <3> QED  BY <2>3, <3>1, WantedGrows DEF Lies
    <2> QED  BY <2>2, <2>3
  <1>5. ASSUME NEW way \in {"up", "down"}, To(way), NEW n \in Commands(s), m <= n
        PROVE  Gone(s, y, n, way) = Gone(s, x, n, way) + 1
    <2>1. m \notin Done(s, x, n, way)
      BY <1>3, <1>5 DEF Done, Lies
    <2>2. Done(s, y, n, way) = Done(s, x, n, way) \cup {m}
      <3>1. IF way = "up" THEN y[m] # 2 ELSE y[m] = 2
        BY <1>3, <1>5 DEF Lies
      <3>2. \A j \in Commands(s) : j # m => y[j] = x[j]
        BY <1>1
      <3> QED  BY <1>5, <3>1, <3>2 DEF Done
    <2> QED  BY <2>1, <2>2, GoneFacts, FS_AddElement DEF Gone
  <1>6. ASSUME NEW way \in {"up", "down"}, To(way), NEW n \in Commands(s), m <= n,
               OneWay(s, x, n, way)
        PROVE  OneWay(s, y, n, way)
    <2> SUFFICES ASSUME NEW j \in Commands(s), j <= n
                 PROVE  Lies(way, y[j], Wanted(s, y, j))
      BY DEF OneWay
    <2>1. Lies(way, Wanted(s, x, j), Wanted(s, y, j))
      BY <1>4, <1>6
    <2>2. Lies(way, y[j], Wanted(s, x, j))
      BY <1>1, <1>2, <1>6 DEF OneWay, Lies
    <2> QED  BY <1>2, <2>1, <2>2 DEF Lies
  <1>7. ASSUME NEW way \in {"up", "down"}, To(way), NEW n \in Commands(s), m <= n,
               OneWay(s, x, n, way), c <= Rank(s, n) * Instructions(s) + Gone(s, x, n, way)
        PROVE  Settling(s, y, c + 1)
    <2>1. OneWay(s, y, n, way)
      BY <1>6, <1>7
    <2>2. Gone(s, y, n, way) = Gone(s, x, n, way) + 1 /\ Gone(s, x, n, way) \in Nat
      BY <1>5, <1>7, GoneFacts
    <2>3. Rank(s, n) * Instructions(s) \in Nat
      BY <1>1, RankFacts
    <2>4. c + 1 <= Rank(s, n) * Instructions(s) + Gone(s, y, n, way)
      BY <1>7, <2>2, <2>3
    <2> QED  BY <2>1, <2>4 DEF Settling
  <1>8. ASSUME c <= Rank(s, m) * Instructions(s)
        PROVE  Settling(s, y, c + 1)
    <2>1. PICK way \in {"up", "down"} : To(way)
      BY <1>2 DEF Lies
    <2>2. OneWay(s, x, m, way)
      <3> SUFFICES ASSUME NEW j \in Commands(s), j <= m
                   PROVE  Lies(way, x[j], Wanted(s, x, j))
        BY DEF OneWay
      <3>1. CASE j = m
        BY <2>1, <3>1
      <3>2. CASE j < m
        BY <1>2, <3>2 DEF Lies
      <3> QED  BY <1>1, <3>1, <3>2
    <2>3. Gone(s, x, m, way) \in Nat /\ Rank(s, m) * Instructions(s) \in Nat
      BY <1>1, GoneFacts, RankFacts
    <2>4. c <= Rank(s, m) * Instructions(s) + Gone(s, x, m, way)
      BY <1>8, <2>3
    <2>5. m <= m
      BY <1>1
    <2> HIDE DEF To
    <2> QED  BY <1>7, <2>1, <2>2, <2>4, <2>5
  <1>9. CASE c = 0
    <2>1. Rank(s, m) * Instructions(s) \in Nat
      BY <1>1, RankFacts
    <2> QED  BY <1>8, <1>9, <2>1
  <1>10. CASE \E n \in Commands(s), way \in {"up", "down"} :
                /\ OneWay(s, x, n, way)
                /\ c <= Rank(s, n) * Instructions(s) + Gone(s, x, n, way)
    <2>1. PICK n \in Commands(s), way \in {"up", "down"} :
                /\ OneWay(s, x, n, way)
                /\ c <= Rank(s, n) * Instructions(s) + Gone(s, x, n, way)
      BY <1>10
    <2>2. CASE m <= n
      <3>1. To(way)
        BY <2>1, <2>2 DEF OneWay
      <3> HIDE DEF To
      <3> QED  BY <1>7, <2>1, <2>2, <3>1
    <2>3. CASE n < m
      <3>1. PICK k, r, q, g : /\ k = Instructions(s) /\ r = Rank(s, n) /\ q = Rank(s, m)
                              /\ g = Gone(s, x, n, way)
        OBVIOUS
      <3>2. /\ k \in Nat /\ r \in Nat /\ q \in Nat /\ r + 1 <= q /\ g \in Nat /\ g <= k
            /\ c <= r * k + g
        BY <1>1, <2>1, <2>3, <3>1, RankFacts, GoneFacts
      <3>3. (r + 1) * k = r * k + k /\ (r + 1) * k <= q * k /\ r * k \in Nat /\ q * k \in Nat
        BY <3>2
      <3>4. c <= q * k
        BY <3>2, <3>3
      <3> QED  BY <1>8, <3>1, <3>4
    <2> QED  BY <1>1, <2>2, <2>3
  <1> QED  BY <1>9, <1>10 DEF Settling

(* resolve_section() in safe mode, in a growing section: every pass that *)
(* changes something counts, and while it has changed nothing what it has*)
(* been to is of the size called for.                                    *)
SafePhase ==
    /\ SafeModeSettles /\ (phase = "failed" => sec \in Sections)
    /\ phase = "atoms" /\ stable /\ Growing(sec) =>
          \A j \in Commands(sec) : j < i => lastsize[sec][j] = Wanted(sec, lastsize[sec], j)
    /\ Safe /\ Growing(sec) =>
          /\ phase = "pass" => Settling(sec, lastsize[sec], pass - fast)
          /\ phase = "atoms" /\ stable => Settling(sec, lastsize[sec], pass - fast - 1)
          /\ phase = "atoms" /\ ~stable => Settling(sec, lastsize[sec], pass - fast)

LEMMA GrowingSame ==
    ASSUME prog' = prog, NEW CONSTANT s
    PROVE  (Growing(s)' <=> Growing(s)) /\ Instructions(s)' = Instructions(s)
           /\ Commands(s)' = Commands(s) /\ (s \in Sections' <=> s \in Sections)
  BY DEF Growing, GrowsWith, HomeOf, Sections, Code, Instructions, Commands

(* What an instruction calls for is the business of its own section, but *)
(* for the labels of others.                                             *)
LEMMA WantedSame ==
    ASSUME prog \in Programs, prog' = prog, NEW CONSTANT s, s \in Sections,
           \A l \in Labels : HomeOf(l) # s => label'[l] = label[l],
           NEW CONSTANT x, NEW CONSTANT j, j \in Commands(s)
    PROVE  Wanted(s, x, j)' = Wanted(s, x, j)
  <1>1. Code(s)' = Code(s) /\ Code(s)[j].name \in Labels
    BY ProgramShape DEF Code, Commands, IsAtom
  <1>2. Begins(s, x)' = Begins(s, x)
    BY BeginsSame
  <1>3. \A l : HomeOf(l)' = HomeOf(l) /\ Index(s, l)' = Index(s, l)
    BY DEF HomeOf, Index, Sections, Code, Atoms
  <1>4. AddressIn(s, x, Code(s)[j].name)' = AddressIn(s, x, Code(s)[j].name)
    BY <1>1, <1>2, <1>3 DEF AddressIn
  <1> QED  BY <1>1, <1>2, <1>4 DEF Wanted

LEMMA SettlingSame ==
    ASSUME prog \in Programs, prog' = prog, NEW CONSTANT s, s \in Sections,
           \A l \in Labels : HomeOf(l) # s => label'[l] = label[l],
           NEW CONSTANT x, NEW CONSTANT c
    PROVE  Settling(s, x, c)' <=> Settling(s, x, c)
  <1>1. Commands(s)' = Commands(s) /\ Instructions(s)' = Instructions(s)
    BY GrowingSame
  <1>2. \A n, way : Rank(s, n)' = Rank(s, n) /\ Gone(s, x, n, way)' = Gone(s, x, n, way)
    BY <1>1 DEF Rank, Ahead, Gone, Done
  <1>3. \A j \in Commands(s) : Wanted(s, x, j)' = Wanted(s, x, j)
    BY WantedSame
  <1>4. \A n, way : OneWay(s, x, n, way)' <=> OneWay(s, x, n, way)
    BY <1>1, <1>3 DEF OneWay
  <1> QED  BY <1>1, <1>2, <1>4 DEF Settling

(* A label belongs to the section it is in. *)
LEMMA OwnLabels ==
    ASSUME Types, MoveLabel
    PROVE  \A l \in Labels : HomeOf(l) # sec => label'[l] = label[l]
  <1>1. /\ sec \in Sections /\ i \in DOMAIN Code(sec) /\ Atom.kind = "label"
        /\ prog \in Programs /\ label \in [Labels -> Int]
    BY AtomHere DEF MoveLabel, Types, Places, TypeOK
  <1>2. HomeOf(Atom.name) = sec
    BY <1>1, LabelsDefined DEF Atom
  <1> QED  BY <1>1, <1>2 DEF MoveLabel

LEMMA SizedSizes ==
    Types /\ Shapes /\ phase # "parse" => \A s \in Sections : lastsize[s] \in Sized(s)
  BY SizesType DEF Shapes, Sized

LEMMA SizedNext ==
    (Types /\ Shapes /\ phase # "parse" => \A s \in Sections : lastsize[s] \in Sized(s))'
  BY SizedSizes, PTL

LEMMA SafePhaseNext ==
    Types /\ Types' /\ Parsed /\ Layout /\ Shapes /\ Shapes' /\ FastPhase /\ SafePhase
        /\ [Next]_vars => SafePhase'
  <1> SUFFICES ASSUME Types, Types', Parsed, Layout, Shapes, Shapes', FastPhase, SafePhase,
                      [Next]_vars
               PROVE  SafePhase'
    OBVIOUS
  <1>t. /\ prog \in Programs /\ pass \in Nat /\ fast \in Nat /\ label \in [Labels -> Int]
        /\ MaxPasses \in Nat /\ Flags
    BY TypeParts, PassAssumption DEF Types, Places, TypeOK
  <1>1. PICK s, x, c : s = sec /\ x = lastsize[sec] /\ c = pass - fast
    OBVIOUS
  <1>2. ASSUME phase \in {"pass", "atoms"}
        PROVE  s \in Sections /\ x \in Sized(s)
    BY <1>1, <1>2, SizedSizes DEF Types, Places, InProgress, TypeOK
  <1> USE DEF passVars
  <1>3. CASE BeginPass
    <2> USE <1>3 DEF BeginPass
    <2>1. /\ prog' = prog /\ sec' = s /\ lastsize'[sec'] = x /\ label' = label /\ fast' = fast
          /\ pass' - fast' = c + 1 /\ (Growing(sec)' <=> Growing(s))
          /\ Instructions(sec)' = Instructions(s) /\ s \in Sections
      <3>1. (Growing(s)' <=> Growing(s)) /\ Instructions(s)' = Instructions(s)
        BY GrowingSame
      <3> QED  BY <1>t, <1>1, <1>2, <3>1
    <2>2. CASE phase' = "failed"
      <3>1. MaxPasses <= pass + 1
        BY <1>t, <2>2 DEF Limit
      <3>2. ASSUME Growing(s)
            PROVE  MaxPasses <= fast + Instructions(s) * Instructions(s) + 1
        <4>1. Instructions(s) * Instructions(s) \in Nat
          BY <1>t, <2>1, CommandsFinite
        <4>2. CASE Safe
          <5>1. Settling(s, x, c) /\ c \in Nat
            BY <1>t, <1>1, <3>2, <4>2 DEF SafePhase, Safe
          <5>2. c <= Instructions(s) * Instructions(s)
            BY <1>t, <2>1, <5>1, SettlingBound
          <5> QED  BY <1>t, <1>1, <3>1, <4>1, <5>2
        <4>3. CASE ~Safe
          BY <1>t, <3>1, <4>1, <4>3 DEF Safe
        <4> QED  BY <4>2, <4>3
      <3>3. sec' \in Sections'
        BY <2>1 DEF Sections
      <3> QED  BY <2>1, <2>2, <3>2, <3>3 DEF SafePhase, SafeModeSettles
    <2>3. CASE phase' = "atoms"
      <3>1. i' = 1 /\ Atoms(s) \subseteq Nat \ {0} /\ Commands(sec)' \subseteq Atoms(s)
        <4>1. Commands(s)' = Commands(s)
          BY GrowingSame
        <4>2. Commands(s) \subseteq Atoms(s)
          BY <1>t, <2>1, CommandsFinite
        <4> QED  BY <1>1, <2>1, <2>3, <4>1, <4>2 DEF Atoms
      <3>2. stable'
        <4>1. stable' = TRUE
          BY <2>3
        <4> QED  BY <4>1, Zenon
      <3>3. ASSUME Safe', Growing(s)
            PROVE  Settling(s, x, c)'
        <4>1. CASE Safe
          <5>1. Settling(s, x, c)
            BY <1>1, <3>3, <4>1 DEF SafePhase
          <5> QED  BY <1>t, <2>1, <5>1, SettlingSame
        <4>2. CASE ~Safe
          <5>1. c = 0
            BY <1>t, <1>1, <3>3, <4>2 DEF Safe
          <5> QED  BY <5>1 DEF Settling
        <4> QED  BY <4>1, <4>2
      <3>4. (pass - fast - 1)' = c
        BY <1>t, <1>1
      <3>5. Settling(sec, lastsize[sec], pass - fast - 1)' <=> Settling(s, x, c)'
        BY <2>1, <3>4
      <3> QED  BY <2>1, <2>3, <3>1, <3>2, <3>3, <3>5 DEF SafePhase, SafeModeSettles
    <2> QED  BY <2>2, <2>3
  <1>4. CASE PickSection
    <2>1. phase' \in {"sweep", "pass"} /\ (phase' = "pass" => ~Safe')
      BY <1>t, <1>4, PassAssumption DEF PickSection, Safe
    <2> QED  BY <2>1 DEF SafePhase, SafeModeSettles
  <1>5. ASSUME ParseAtom \/ ParseSection \/ EndSweep \/ AssembleAtom \/ AssembleSection
        PROVE  SafePhase'
    <2>1. phase' \notin {"pass", "atoms", "failed"}
      BY <1>5 DEF ParseAtom, ParseSection, EndSweep, AssembleAtom, AssembleSection
    <2> QED  BY <2>1 DEF SafePhase, SafeModeSettles
  <1>6. ASSUME phase = "atoms", phase' = "atoms", prog' = prog, sec' = s, lastsize'[sec'] = x,
               pass' = pass, fast' = fast, stable' <=> stable,
               \A l \in Labels : HomeOf(l) # s => label'[l] = label[l],
               stable /\ Growing(s) => \A j \in Commands(s) : j < i' => x[j] = Wanted(s, x, j)
        PROVE  SafePhase'
    <2>1. /\ (Growing(sec)' <=> Growing(s)) /\ Commands(sec)' = Commands(s)
          /\ (Safe' <=> Safe) /\ s \in Sections
      <3>1. (Growing(s)' <=> Growing(s)) /\ Commands(s)' = Commands(s)
        BY <1>6, GrowingSame
      <3> QED  BY <1>2, <1>6, <3>1 DEF Safe
    <2>2. ASSUME stable', Growing(s), NEW CONSTANT j \in Commands(s), j < i'
          PROVE  x[j] = Wanted(s, x, j)'
      <3>1. x[j] = Wanted(s, x, j)
        BY <1>6, <2>2
      <3>2. Wanted(s, x, j)' = Wanted(s, x, j)
        BY <1>t, <1>6, <2>1, <2>2, WantedSame
      <3> QED  BY <3>1, <3>2
    <2>3. \A j \in Commands(sec)' : Wanted(sec, lastsize[sec], j)' = Wanted(s, x, j)'
      BY <1>6
    <2>4. Safe' /\ Growing(s) => (stable' => Settling(s, x, c - 1)) /\ (~stable' => Settling(s, x, c))
      BY <1>1, <1>6, <2>1 DEF SafePhase
    <2>5. (Settling(s, x, c)' <=> Settling(s, x, c)) /\ (Settling(s, x, c - 1)' <=> Settling(s, x, c - 1))
      BY <1>t, <1>6, <2>1, SettlingSame
    <2>6. /\ Settling(sec, lastsize[sec], pass - fast)' <=> Settling(s, x, c)'
          /\ Settling(sec, lastsize[sec], pass - fast - 1)' <=> Settling(s, x, c - 1)'
      BY <1>1, <1>6
    <2> QED  BY <1>6, <2>1, <2>2, <2>3, <2>4, <2>5, <2>6 DEF SafePhase, SafeModeSettles
  <1>7. CASE MoveLabel
    <2> USE <1>7 DEF MoveLabel
    <2>1. stable' <=> stable
      <3>1. stable' = (stable /\ label[Atom.name] = Here)
        OBVIOUS
      <3>2. stable' => stable
        BY <3>1, Zenon
      <3> QED  BY <3>2, LabelStands
    <2>2. \A l \in Labels : HomeOf(l) # s => label'[l] = label[l]
      BY <1>1, OwnLabels
    <2>3. ASSUME stable, Growing(s), NEW j \in Commands(s), j < i'
          PROVE  x[j] = Wanted(s, x, j)
      <3>1. j < i
        <4>1. /\ i \in Nat /\ Code(sec)[i].kind = "label"
          BY AtomHere DEF Atom
        <4>2. j \in Nat /\ j # i
          <5>1. s \in Sections
            BY <1>2
          <5>2. j \in Nat
            BY <1>t, <5>1, CommandsFinite DEF Atoms
          <5>3. Code(s)[j].kind = "inst"
            BY DEF Commands
          <5> QED  BY <1>1, <4>1, <5>2, <5>3
        <4> QED  BY <2>3, <4>1, <4>2
      <3> QED  BY <1>1, <2>3, <3>1 DEF SafePhase
    <2> QED  BY <1>1, <1>6, <2>1, <2>2, <2>3
  <1>8. CASE KeepSize
    <2> USE <1>8 DEF KeepSize
    <2>1. (stable' <=> stable) /\ ~stable
      OBVIOUS
    <2> QED  BY <1>1, <1>6, <2>1
  <1>9. CASE ResizeAtom
    <2> DEFINE size == AtomSize(Atom, Here)
               old == lastsize[sec][i]
    <2>1. /\ phase = "atoms" /\ phase' = "atoms" /\ prog' = prog /\ sec' = s /\ pass' = pass
          /\ fast' = fast /\ label' = label /\ i' = i + 1 /\ i \in Nat /\ AtAtom
          /\ Atom.kind # "label" /\ ~(Atom.kind = "inst" /\ Safe /\ ~stable)
          /\ s \in Sections
      BY <1>1, <1>2, <1>9, AtomHere DEF ResizeAtom
    <2>2. /\ i \in Atoms(s) /\ size \in Nat /\ old \in Nat /\ old = x[i]
          /\ lastsize'[s][i] = size
          /\ \A m \in Atoms(s) \ {i} : lastsize'[s][m] = x[m]
          /\ size # old => i \in Commands(s)
          /\ size = old => lastsize' = lastsize
      BY <1>1, <1>9, Resize
    <2>3. stable' <=> stable /\ size = old
      <3>1. stable' = (stable /\ size = old)
        BY <1>9 DEF ResizeAtom
      <3> HIDE DEF size, old
      <3> QED  BY <3>1, Zenon
    <2>4. ASSUME stable, Growing(s), i \in Commands(s)
          PROVE  size = Wanted(s, x, i)
      <3>1. AllLaid(sec) /\ pc = Begins(sec, lastsize[sec])[i]
        BY <1>1, <2>1, <2>4 DEF Layout, LaidSections
      <3>2. Atom = Code(s)[i] /\ Atom.kind = "inst" /\ Atom.align = 1
        BY <1>1, <2>4 DEF Atom, Commands, Growing
      <3>3. Here = pc
        <4>1. pc \in Int
          BY DEF Types, TypeOK
        <4> QED  BY <3>2, <4>1, UnitAlign DEF Here
      <3>4. size = InstSize(Code(s)[i], Begins(s, x)[i])
        BY <1>1, <3>1, <3>2, <3>3 DEF AtomSize
      <3>5. InstSize(Code(s)[i], Begins(s, lastsize[s])[i]) = Wanted(s, lastsize[s], i)
        BY <1>1, <2>1, <2>4, <3>1, SizeIsWanted
      <3> QED  BY <1>1, <3>4, <3>5
    <2>5. ASSUME stable, Growing(s), NEW j \in Commands(s), j < i
          PROVE  x[j] = Wanted(s, x, j)
      BY <1>1, <2>1, <2>5 DEF SafePhase
    <2>6. CASE stable'
      <3>1. stable /\ size = old /\ lastsize' = lastsize
        BY <2>2, <2>3, <2>6
      <3>2. ASSUME Growing(s), NEW j \in Commands(s), j < i'
            PROVE  x[j] = Wanted(s, x, j)
        <4>1. j \in Nat
          BY <1>t, <2>1, CommandsFinite DEF Atoms
        <4>2. CASE j < i
          BY <2>5, <3>1, <3>2, <4>2
        <4>3. CASE j = i
          BY <2>2, <2>4, <3>1, <3>2, <4>3
        <4> HIDE DEF size, old
        <4> QED  BY <2>1, <3>2, <4>1, <4>2, <4>3
      <3>3. lastsize'[sec'] = x
        BY <1>1, <2>1, <3>1
      <3>4. stable' <=> stable
        BY <2>6, <3>1
      <3> HIDE DEF size, old
      <3> QED  BY <1>6, <2>1, <3>2, <3>3, <3>4
    <2>7. CASE ~stable'
      <3>1. PICK y, n : y = lastsize'[s] /\ n = i
        OBVIOUS
      <3>2. (Growing(sec)' <=> Growing(s)) /\ (Safe' <=> Safe)
        <4>1. Growing(s)' <=> Growing(s)
          BY <2>1, GrowingSame
        <4> QED  BY <2>1, <4>1 DEF Safe
      <3>3. ASSUME Safe, Growing(s)
            PROVE  Settling(s, y, c)'
        <4>1. CASE size = old
          <5>1. ~stable /\ y = x
            BY <1>1, <2>2, <2>3, <2>7, <3>1, <4>1
          <5>2. Settling(s, x, c)
            BY <1>1, <2>1, <3>3, <5>1 DEF SafePhase
          <5> QED  BY <1>t, <2>1, <5>1, <5>2, SettlingSame
        <4>2. CASE size # old
          <5>1. n \in Commands(s)
            BY <2>2, <3>1, <4>2
          <5>2. stable
            <6>1. Atom.kind = "inst"
              BY <1>1, <3>1, <5>1 DEF Atom, Commands
            <6> QED  BY <2>1, <3>3, <6>1
          <5>3. Settling(s, x, c - 1) /\ c - 1 \in Nat
            BY <1>1, <1>t, <2>1, <3>3, <5>2 DEF SafePhase, Safe
          <5>4. /\ y[n] = Wanted(s, x, n) /\ y[n] # x[n]
                /\ \A j \in Atoms(s) \ {n} : y[j] = x[j]
                /\ \A j \in Commands(s) : j < n => x[j] = Wanted(s, x, j)
            BY <2>2, <2>4, <2>5, <3>1, <3>3, <4>2, <5>1, <5>2
          <5>5. x \in Sized(s) /\ y \in Sized(s)
            <6>1. s \in Sections' /\ Sized(s)' = Sized(s)
              BY <2>1 DEF Sections, Sized, Atoms, Code
            <6>2. lastsize'[s] \in Sized(s)'
              <7>1. \A t \in Sections : lastsize'[t] \in Sized(t)'
                <8>1. phase' # "parse"
                  BY <2>1
                <8>2. \A t \in Sections' : lastsize'[t] \in Sized(t)'
                  BY <8>1, SizedNext
                <8> QED  BY <2>1, <8>2 DEF Sections
              <7> QED  BY <2>1, <7>1
            <6> QED  BY <1>2, <2>1, <3>1, <6>1, <6>2
          <5>6. Settling(s, y, (c - 1) + 1)
            BY <1>t, <2>1, <3>3, <5>1, <5>3, <5>4, <5>5, SettlingStep
          <5>7. (c - 1) + 1 = c
            BY <1>1, <1>t
          <5> QED  BY <1>t, <2>1, <5>6, <5>7, SettlingSame
        <4> HIDE DEF size, old
        <4> QED  BY <4>1, <4>2
      <3>4. Settling(sec, lastsize[sec], pass - fast)' <=> Settling(s, y, c)'
        BY <1>1, <2>1, <3>1
      <3> QED  BY <2>1, <2>7, <3>2, <3>3, <3>4 DEF SafePhase, SafeModeSettles
    <2> QED  BY <2>6, <2>7
  <1>10. CASE EndPass
    <2>1. /\ prog' = prog /\ lastsize' = lastsize /\ label' = label /\ pass' = pass
          /\ phase = "atoms" /\ (extra => fast' = fast + 1) /\ (~extra => fast' = fast)
      BY <1>10 DEF EndPass
    <2>2. CASE ~Again
      BY <1>10, <2>2 DEF EndPass, SafePhase, SafeModeSettles
    <2>3. CASE Again
      <3>1. phase' = "pass" /\ sec' = s /\ ~stable
        BY <1>1, <1>10, <2>3 DEF EndPass, Again
      <3>2. ASSUME Safe', Growing(s)
            PROVE  Settling(s, x, c)' /\ fast' = fast
        <4>1. Safe
          BY <1>t, <2>1, <3>2 DEF Safe
        <4>2. fast' = fast
          BY <2>1, <4>1 DEF FastPhase
        <4>3. Settling(s, x, c)
          BY <1>1, <2>1, <3>1, <3>2, <4>1 DEF SafePhase
        <4> QED  BY <1>2, <1>t, <2>1, <4>2, <4>3, SettlingSame
      <3>3. Growing(sec)' <=> Growing(s)
        <4>1. Growing(s)' <=> Growing(s)
          BY <2>1, GrowingSame
        <4> QED  BY <3>1, <4>1
      <3>4. fast' = fast => (Settling(sec, lastsize[sec], pass - fast)' <=> Settling(s, x, c)')
        BY <1>1, <2>1, <3>1
      <3> QED  BY <3>1, <3>2, <3>3, <3>4 DEF SafePhase, SafeModeSettles
    <2> QED  BY <2>2, <2>3
  <1>11. CASE UNCHANGED vars
    <2>1. /\ phase' = phase /\ prog' = prog /\ sec' = sec /\ lastsize' = lastsize /\ pass' = pass
          /\ fast' = fast /\ label' = label /\ i' = i /\ (stable' <=> stable)
      BY <1>11 DEF vars
    <2>2. (Growing(s)' <=> Growing(s)) /\ Instructions(s)' = Instructions(s)
      BY <2>1, GrowingSame
    <2>3. CASE phase = "atoms"
      <3>1. stable /\ Growing(s) => \A j \in Commands(s) : j < i' => x[j] = Wanted(s, x, j)
        BY <1>1, <2>1, <2>3 DEF SafePhase
      <3> QED  BY <1>1, <1>6, <2>1, <2>3, <3>1
    <2>4. CASE phase = "pass"
      <3>1. Safe' /\ Growing(s) => Settling(s, x, c)
        BY <1>1, <2>1, <2>4 DEF SafePhase, Safe
      <3>2. Settling(s, x, c)' <=> Settling(s, x, c)
        BY <1>2, <1>t, <2>1, <2>4, SettlingSame
      <3>3. Settling(sec, lastsize[sec], pass - fast)' <=> Settling(s, x, c)'
        BY <1>1, <2>1
      <3>4. Growing(sec)' <=> Growing(s)
        BY <1>1, <2>1, <2>2
      <3> QED  BY <2>1, <2>4, <3>1, <3>2, <3>3, <3>4 DEF SafePhase, SafeModeSettles
    <2>5. CASE phase \notin {"pass", "atoms"}
      <3>1. SafeModeSettles'
        BY <1>1, <2>1, <2>2 DEF SafePhase, SafeModeSettles
      <3>2. phase' = "failed" => sec' \in Sections'
        BY <2>1 DEF SafePhase, Sections
      <3> QED  BY <2>1, <2>5, <3>1, <3>2 DEF SafePhase
    <2> QED  BY <2>3, <2>4, <2>5
  <1> QED  BY <1>3, <1>4, <1>5, <1>7, <1>8, <1>9, <1>10, <1>11 DEF Next

Resolving == Types /\ Parsed /\ Layout /\ Shapes /\ FastPhase /\ SafePhase

LEMMA ResolvingAlways == Spec => []Resolving
  <1>1. Init => SafePhase
    BY DEF Init, SafePhase, SafeModeSettles
  <1>2. Init => Resolving
    BY <1>1, TypesInit, ParsedInit, LayoutInit, ShapesInit, FastPhaseInit DEF Resolving
  <1>3. Resolving /\ [Next]_vars => Resolving'
    <2> SUFFICES ASSUME Resolving, [Next]_vars PROVE Resolving'
      OBVIOUS
    <2>1. Types' /\ Parsed' /\ Layout' /\ Shapes' /\ FastPhase'
      BY TypesNext, ParsedNext, LayoutNext, ShapesNext, FastPhaseNext DEF Resolving
    <2> QED  BY <2>1, SafePhaseNext DEF Resolving
  <1> QED  BY <1>2, <1>3, PTL DEF Spec

(* resolve_section() leaves its fast phase in any section of any program,*)
(* whatever is aligned or computed in it, though it lengthens that phase *)
(* after every pass in which nothing grows (vasm.c): only instructions   *)
(* that have grown can shrink.                                           *)
THEOREM FastPhaseEndsAlways == Spec => []FastPhaseEnds
  <1>1. Resolving => FastPhaseEnds
    BY DEF Resolving, FastPhase
  <1> QED  BY <1>1, ResolvingAlways, PTL

(* Safe mode settles every growing section within as many passes as it has *)
(* pairs of instructions, so that resolve_section() gives up (error 7) only*)
(* when the pass limit leaves it fewer (vasm.c).  Here a program whose     *)
(* branches oscillate for ever in the fast phase comes to rest.            *)
THEOREM SafeModeSettlesAlways == Spec => []SafeModeSettles
  <1>1. Resolving => SafeModeSettles
    BY DEF Resolving, SafePhase
  <1> QED  BY <1>1, ResolvingAlways, PTL

(* So the fixed limits of resolve_section() fail no growing section that is*)
(* small enough for them: fatal error 7 comes only with fewer passes than  *)
(* the fast phase and safe mode can need together (vasm.c).                *)
THEOREM NeverFailsAlways == Spec => []NeverFails
  <1>1. Resolving => NeverFails
    <2> SUFFICES ASSUME Resolving, phase = "failed", Growing(sec)
                 PROVE  MaxPasses <= PassesNeeded(sec)
      BY DEF NeverFails
    <2>1. Instructions(sec) \in Nat
      BY CommandsFinite DEF Resolving, SafePhase, Types, Places
    <2>2. PICK k, f : k = Instructions(sec) /\ f = FastOptPhase
      OBVIOUS
    <2>3. /\ k \in Nat /\ f \in Nat /\ MaxPasses \in Nat /\ fast \in Nat
          /\ fast <= f + (f + 1) * k /\ MaxPasses <= fast + k * k + 1
      BY <2>1, <2>2, PassAssumption
         DEF Resolving, FastPhase, SafePhase, FastPhaseEnds, SafeModeSettles, Types, TypeOK
    <2>4. (f + k) * (k + 1) + 1 = f + (f + 1) * k + k * k + 1
      BY <2>3
    <2>5. (f + 1) * k \in Nat /\ k * k \in Nat
      BY <2>3
    <2> QED  BY <2>2, <2>3, <2>4, <2>5 DEF PassesNeeded
  <1> QED  BY <1>1, ResolvingAlways, PTL

-----------------------------------------------------------------------------
(* Of a single section: no other puts it back on the list. *)
OneSection ==
    /\ phase = "parse" => pass = 0
    /\ Len(prog) = 1 =>
          /\ deps[1] = {}
          /\ phase = "sweep" /\ todo # {} => sec = 1
          /\ phase = "sweep" /\ todo = {} /\ sec = 1 => finished

LEMMA OneSectionInit == Init => OneSection
  <1> SUFFICES ASSUME Init PROVE OneSection
    OBVIOUS
  <1>1. prog \in Programs /\ deps = [s \in Sections |-> {}] /\ phase = "parse" /\ pass = 0
    BY DEF Init
  <1>2. Len(prog) = 1 => 1 \in Sections
    BY <1>1, ProgramShape
  <1> QED  BY <1>1, <1>2 DEF OneSection

LEMMA SingleFacts ==
    ASSUME Types, Len(prog) = 1
    PROVE  /\ Sections = {1} /\ sec \in {1, 2} /\ todo \in {{}, {1}}
           /\ deps \in [{1} -> SUBSET {1}] /\ (InProgress => sec = 1 /\ todo = {1})
           /\ Len(Code(1)) \in Nat /\ MaxPasses \in Nat /\ pass \in 0 .. MaxPasses
           /\ phase \in {"parse", "atoms", "assemble"} => sec = 1 /\ i \in 1 .. Len(Code(1)) + 1
  <1>1. prog \in Programs
    BY DEF Types, Places
  <1>2. Sections = {1} /\ Len(Code(1)) \in Nat
    BY <1>1, ProgramShape
  <1>3. sec \in {1, 2} /\ todo \subseteq {1} /\ deps \in [{1} -> SUBSET {1}]
        /\ pass \in 0 .. MaxPasses /\ MaxPasses \in Nat
    BY <1>2, PassAssumption DEF Types, TypeOK
  <1>4. (InProgress => sec \in todo)
        /\ (phase \in {"parse", "atoms", "assemble"} => sec \in Sections /\ i \in 1 .. Len(Code(sec)) + 1)
    BY DEF Types, Places
  <1> QED  BY <1>2, <1>3, <1>4

LEMMA OneSectionNext == Types /\ OneSection /\ [Next]_vars => OneSection'
  <1> SUFFICES ASSUME Types, OneSection, [Next]_vars PROVE OneSection'
    OBVIOUS
  <1>p. prog' = prog
    BY DEF Next, vars, ParseAtom, ParseSection, PickSection, EndSweep, BeginPass,
       MoveLabel, KeepSize, ResizeAtom, EndPass, AssembleAtom, AssembleSection
  <1>q. phase' = "parse" => pass' = 0
    BY DEF OneSection, Next, vars, passVars, ParseAtom, ParseSection, PickSection, EndSweep,
       BeginPass, MoveLabel, KeepSize, ResizeAtom, EndPass, AssembleAtom, AssembleSection
  <1> SUFFICES ASSUME Len(prog) = 1
               PROVE  /\ deps'[1] = {}
                      /\ phase' = "sweep" /\ todo' # {} => sec' = 1
                      /\ phase' = "sweep" /\ todo' = {} /\ sec' = 1 => finished'
    BY <1>p, <1>q DEF OneSection
  <1>o. /\ deps[1] = {}
        /\ phase = "sweep" /\ todo # {} => sec = 1
        /\ phase = "sweep" /\ todo = {} /\ sec = 1 => finished
    BY DEF OneSection
  <1>s. /\ Sections = {1} /\ sec \in {1, 2} /\ todo \in {{}, {1}}
        /\ InProgress => sec = 1 /\ todo = {1}
        /\ phase = "parse" => todo = {1}
    BY SingleFacts DEF Types, Places
  <1>1. CASE ResizeAtom
    <2>1. /\ sec \in Sections /\ i \in DOMAIN Code(sec) /\ prog \in Programs
      BY <1>1, AtomHere DEF ResizeAtom, Types, Places
    <2>2. Atom.kind = "inst" => HomeOf(Atom.name) = sec
      BY <1>s, <2>1, LabelsDefined DEF Atom
    <2>3. deps' = deps /\ phase' = "atoms"
      BY <1>1, <2>2 DEF ResizeAtom, Dependency
    <2> QED  BY <1>o, <2>3
  <1>2. CASE ParseSection
    <2>1. phase' = "sweep" => sec' = 1
      BY <1>2, <1>s DEF ParseSection
    <2> QED  BY <1>2, <1>o, <1>s, <2>1 DEF ParseSection
  <1>3. CASE PickSection
    BY <1>3, <1>o, <1>s DEF PickSection
  <1>4. CASE EndSweep
    <2>1. deps' = deps /\ todo' = todo /\ (phase' = "sweep" => sec' = 1 /\ finished' = TRUE)
      BY <1>4 DEF EndSweep
    <2> QED  BY <1>o, <2>1
  <1>5. CASE EndPass
    <2>1. deps' = deps
      BY <1>5 DEF EndPass
    <2>2. ASSUME phase' = "sweep"
          PROVE  todo' = {} /\ sec' = 2
      <3>1. sec = 1 /\ todo = {1}
        BY <1>5, <1>s DEF EndPass, InProgress
      <3>2. sec' = sec + 1 /\ todo' = TodoAfter
        BY <1>5, <2>2 DEF EndPass
      <3>3. TodoAfter = {}
        BY <1>o, <3>1 DEF TodoAfter
      <3> QED  BY <3>1, <3>2, <3>3
    <2> QED  BY <1>o, <2>1, <2>2
  <1>6. CASE \/ ParseAtom \/ BeginPass \/ MoveLabel \/ KeepSize
             \/ AssembleAtom \/ AssembleSection
    <2>1. deps' = deps /\ phase' # "sweep"
      BY <1>6 DEF ParseAtom, BeginPass, MoveLabel, KeepSize, AssembleAtom, AssembleSection
    <2> QED  BY <1>o, <2>1
  <1>7. CASE UNCHANGED vars
    <2>1. phase' = phase /\ todo' = todo /\ sec' = sec /\ deps' = deps /\ (finished' <=> finished)
      BY <1>7 DEF vars
    <2> QED  BY <1>o, <2>1
  <1> QED  BY <1>1, <1>2, <1>3, <1>4, <1>5, <1>6, <1>7 DEF Next

LEMMA StepsType ==
    ASSUME Types, OneSection, Len(prog) = 1
    PROVE  StepsLeft \in Nat
  <1> DEFINE n == Len(Code(1))
             t == (MaxPasses - pass) * (n + 3)
             u == MaxPasses * (n + 3)
  <1>1. n \in Nat /\ MaxPasses - pass \in Nat /\ MaxPasses \in Nat /\ sec \in {1, 2}
        /\ (phase \in {"parse", "atoms", "assemble"} => i \in 1 .. n + 1)
    BY SingleFacts
  <1> HIDE DEF n
  <1>2. t \in Nat /\ u \in Nat
    BY <1>1
  <1> HIDE DEF t, u
  <1>3. StepsLeft =
           CASE phase = "parse"    -> n + 5 + t + 1 + (n + 2 - i)
             [] phase = "sweep"    -> IF todo # {} THEN n + 5 + u + 1
                                      ELSE n + 4 - (IF finished THEN sec ELSE 0)
             [] phase = "pass"     -> n + 5 + t
             [] phase = "atoms"    -> n + 5 + t + (n + 2 - i)
             [] phase = "assemble" -> n + 2 - i
             [] OTHER              -> 0
    BY DEF StepsLeft, n, t, u
  <1>4. phase \in {"parse", "sweep", "pass", "atoms", "assemble", "done", "failed"}
    BY DEF Types, TypeOK
  <1> QED  BY <1>1, <1>2, <1>3, <1>4

LEMMA StepsFall ==
    Types /\ Types' /\ OneSection /\ Next /\ Len(prog) = 1 => StepsLeft' < StepsLeft
  <1> SUFFICES ASSUME Types, Types', OneSection, Next, Len(prog) = 1
               PROVE  StepsLeft' < StepsLeft
    OBVIOUS
  <1>p. prog' = prog
    BY DEF Next, ParseAtom, ParseSection, PickSection, EndSweep, BeginPass,
       MoveLabel, KeepSize, ResizeAtom, EndPass, AssembleAtom, AssembleSection
  <1>n. PICK n : n = Len(Code(1))
    OBVIOUS
  <1> DEFINE Passes(p) == (MaxPasses - p) * (n + 3)
  <1>1. /\ n \in Nat /\ MaxPasses \in Nat /\ pass \in 0 .. MaxPasses /\ sec \in {1, 2}
        /\ Sections = {1} /\ todo \in {{}, {1}} /\ Len(Code(1))' = n
        /\ (InProgress => sec = 1 /\ todo = {1})
        /\ (phase \in {"parse", "atoms", "assemble"} => sec = 1 /\ i \in 1 .. n + 1)
        /\ (phase = "parse" => pass = 0 /\ todo = {1})
        /\ deps[1] = {}
        /\ (phase = "sweep" /\ todo # {} => sec = 1)
        /\ (phase = "sweep" /\ todo = {} /\ sec = 1 => finished)
    BY <1>n, <1>p, SingleFacts DEF OneSection, Types, Places, Code
  <1>2. \A p \in 0 .. MaxPasses : Passes(p) \in Nat
    BY <1>1
  <1>3. \A p \in 0 .. MaxPasses - 1 : Passes(p) = Passes(p + 1) + n + 3
    BY <1>1
  <1>a. StepsLeft =
           CASE phase = "parse"    -> n + 5 + Passes(pass) + 1 + (n + 2 - i)
             [] phase = "sweep"    -> IF todo # {} THEN n + 5 + Passes(0) + 1
                                      ELSE n + 4 - (IF finished THEN sec ELSE 0)
             [] phase = "pass"     -> n + 5 + Passes(pass)
             [] phase = "atoms"    -> n + 5 + Passes(pass) + (n + 2 - i)
             [] phase = "assemble" -> n + 2 - i
             [] OTHER              -> 0
    <2>1. MaxPasses - 0 = MaxPasses
      BY <1>1
    <2> QED  BY <1>n, <2>1 DEF StepsLeft
  <1>b. StepsLeft' =
           CASE phase' = "parse"    -> n + 5 + Passes(pass') + 1 + (n + 2 - i')
             [] phase' = "sweep"    -> IF todo' # {} THEN n + 5 + Passes(0) + 1
                                       ELSE n + 4 - (IF finished' THEN sec' ELSE 0)
             [] phase' = "pass"     -> n + 5 + Passes(pass')
             [] phase' = "atoms"    -> n + 5 + Passes(pass') + (n + 2 - i')
             [] phase' = "assemble" -> n + 2 - i'
             [] OTHER              -> 0
    <2>1. MaxPasses - 0 = MaxPasses
      BY <1>1
    <2> QED  BY <1>1, <2>1 DEF StepsLeft
  <1> HIDE DEF Passes
  <1> USE DEF passVars
  <1>4. CASE ParseAtom
    <2>1. phase = "parse" /\ phase' = "parse" /\ i' = i + 1 /\ pass' = pass
      BY <1>4 DEF ParseAtom
    <2>2. /\ StepsLeft = n + 5 + Passes(pass) + 1 + (n + 2 - i)
          /\ StepsLeft' = n + 5 + Passes(pass) + 1 + (n + 2 - (i + 1))
      BY <1>a, <1>b, <2>1
    <2>3. Passes(pass) \in Nat /\ i \in Nat
      BY <1>1, <1>2, <2>1
    <2> QED  BY <1>1, <2>2, <2>3
  <1>5. CASE ParseSection
    <2>1. phase = "parse" /\ phase' = "sweep" /\ todo' = todo
      BY <1>1, <1>5 DEF ParseSection
    <2>2. /\ StepsLeft = n + 5 + Passes(0) + 1 + (n + 2 - i)
          /\ StepsLeft' = n + 5 + Passes(0) + 1
      BY <1>1, <1>a, <1>b, <2>1
    <2>3. Passes(0) \in Nat /\ i \in 1 .. n + 1
      BY <1>1, <1>2, <2>1
    <2> QED  BY <1>1, <2>2, <2>3
  <1>6. CASE PickSection
    <2>1. CASE todo = {1}
      <3>1. phase = "sweep" /\ phase' = "pass" /\ pass' = 0
        BY <1>1, <1>6, <2>1 DEF PickSection
      <3> QED  BY <1>1, <1>2, <1>a, <1>b, <2>1, <3>1
    <2>2. CASE todo = {}
      <3>1. phase = "sweep" /\ phase' = "sweep" /\ todo' = {} /\ sec = 1 /\ sec' = 2 /\ finished
            /\ finished'
        BY <1>1, <1>6, <2>2 DEF PickSection
      <3> QED  BY <1>1, <1>a, <1>b, <2>2, <3>1
    <2> QED  BY <1>1, <2>1, <2>2
  <1>7. CASE EndSweep
    <2>1. phase = "sweep" /\ sec = 2 /\ todo = {} /\ todo' = {}
      BY <1>1, <1>7 DEF EndSweep
    <2>2. CASE finished
      <3>1. phase' = "assemble" /\ i' = 1
        BY <1>7, <2>2 DEF EndSweep
      <3> QED  BY <1>1, <1>a, <1>b, <2>1, <2>2, <3>1
    <2>3. CASE ~finished
      <3>1. phase' = "sweep" /\ sec' = 1 /\ finished' = TRUE
        BY <1>7, <2>1, <2>3 DEF EndSweep
      <3>2. finished'
        BY <3>1, Zenon
      <3> QED  BY <1>1, <1>a, <1>b, <2>1, <2>3, <3>1, <3>2
    <2> QED  BY <2>2, <2>3
  <1>8. CASE BeginPass
    <2>1. phase = "pass" /\ pass' = pass + 1 /\ phase' \in {"failed", "atoms"}
          /\ (phase' = "atoms" => i' = 1 /\ pass \in 0 .. MaxPasses - 1)
      BY <1>1, <1>8 DEF BeginPass, Limit
    <2>2. StepsLeft = n + 5 + Passes(pass) /\ Passes(pass) \in Nat
      BY <1>1, <1>2, <1>a, <2>1
    <2>3. CASE phase' = "failed"
      <3>1. StepsLeft' = 0
        BY <1>b, <2>3
      <3> QED  BY <1>1, <2>2, <3>1
    <2>4. CASE phase' = "atoms"
      <3>1. StepsLeft' = n + 5 + Passes(pass + 1) + (n + 2 - 1)
        BY <1>b, <2>1, <2>4
      <3>2. pass + 1 \in 0 .. MaxPasses /\ pass \in 0 .. MaxPasses - 1
        BY <1>1, <2>1, <2>4
      <3>3. Passes(pass) = Passes(pass + 1) + n + 3 /\ Passes(pass + 1) \in Nat
        BY <1>2, <1>3, <3>2
      <3> QED  BY <1>1, <2>2, <3>1, <3>3
    <2> QED  BY <2>1, <2>3, <2>4
  <1>9. CASE MoveLabel \/ KeepSize \/ ResizeAtom
    <2>1. phase = "atoms" /\ phase' = "atoms" /\ pass' = pass /\ i' = i + 1
      BY <1>9 DEF MoveLabel, KeepSize, ResizeAtom
    <2> QED  BY <1>1, <1>2, <1>a, <1>b, <2>1
  <1>10. CASE EndPass
    <2>1. phase = "atoms" /\ pass' = pass
      BY <1>10 DEF EndPass
    <2>2. CASE phase' = "pass"
      BY <1>1, <1>2, <1>a, <1>b, <2>1, <2>2
    <2>3. CASE phase' = "sweep"
      <3>1. sec = 1 /\ todo = {1}
        BY <1>1, <2>1 DEF InProgress
      <3>2. sec' = 2 /\ todo' = TodoAfter /\ TodoAfter = {}
        BY <1>1, <1>10, <2>3, <3>1 DEF EndPass, TodoAfter
      <3> QED  BY <1>1, <1>2, <1>a, <1>b, <2>1, <2>3, <3>2
    <2> QED  BY <1>10, <2>2, <2>3 DEF EndPass
  <1>11. CASE AssembleAtom
    <2>1. phase = "assemble" /\ phase' = "assemble" /\ i' = i + 1
      BY <1>11 DEF AssembleAtom
    <2> QED  BY <1>1, <1>a, <1>b, <2>1
  <1>12. CASE AssembleSection
    <2>1. phase = "assemble" /\ phase' = "done"
      BY <1>1, <1>12 DEF AssembleSection
    <2> QED  BY <1>1, <1>a, <1>b, <2>1
  <1> QED  BY <1>4, <1>5, <1>6, <1>7, <1>8, <1>9, <1>10, <1>11, <1>12 DEF Next

(* A program of one section takes no more steps than StepsLeft, a natural*)
(* number, says when it begins, and fewer with each: resolve() and the   *)
(* passes of resolve_section() cannot go on for ever (vasm.c).           *)
THEOREM SectionSpendsAlways == Spec => [](Len(prog) = 1 => StepsLeft \in Nat) /\ SectionSpends
  <1>1. Types /\ OneSection => (Len(prog) = 1 => StepsLeft \in Nat)
    BY StepsType
  <1>2. Types /\ Types' /\ OneSection /\ [Next]_vars
            => [Len(prog) = 1 => StepsLeft' < StepsLeft]_vars
    BY StepsFall
  <1> QED  BY <1>1, <1>2, TypesInit, OneSectionInit, TypesNext, OneSectionNext, PTL
              DEF Spec, SectionSpends
=============================================================================
