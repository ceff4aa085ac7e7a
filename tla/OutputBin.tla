----------------------------- MODULE OutputBin -----------------------------
(***************************************************************************)
(* How vasm writes its sections as a binary file (output_bin.c), from the  *)
(* assembled sections on: trailing uninitialized space is trimmed          *)
(* (vasm.c), sections without an address are joined when -join says so,    *)
(* overlaps are looked for (supp.c), and the sections are written in the   *)
(* order of their addresses.                                               *)
(*                                                                         *)
(* A byte is named by the section, the atom and its place in the atom; pad *)
(* is any byte of a gap.  "raw" stands for no header and for those with one *)
(* load address, with a length or a last address or neither.  Atari COM,   *)
(* CoCo ML and Foenix PGZ have a header for each section, and a loader of  *)
(* each of them goes by something else.  Magic bytes, undefined symbols,   *)
(* execution addresses and relocations change nothing of this state and    *)
(* are left out, and a field of a header holds its number exactly.         *)
(***************************************************************************)
EXTENDS Integers, Sequences, FiniteSets, SequencesExt, FiniteSetsExt

CONSTANTS
    Origins,      \* bound: addresses of org directives
    Bodies,       \* bound: the atoms of a section
    JoinOrg,      \* the address given to -join
    MaxSections   \* bound: sections

ASSUME OriginAssumption == Origins \subseteq Nat /\ JoinOrg \in Nat
ASSUME BodyAssumption ==
    \A body \in Bodies : body \in Seq([size : Nat, align : Nat, uninit : BOOLEAN])
ASSUME CountAssumption == MaxSections \in Nat

VARIABLES
    secs,       \* the list of sections: org, pc, flags & ABSOLUTE, align, atoms,
                \* and how many atoms last leaves
    labels,     \* for every section, the value of a label at each atom
    binfmt, joinsecs,    \* the options: the format; -join
    seclist,    \* indices of the sections still to be written
    pc,         \* write_output's address
    file,       \* segments written: load address, extent claimed, bytes
    phase       \* "trim", "join", "check", "write", "done" or "fatal"

vars == <<secs, labels, binfmt, joinsecs, seclist, pc, file, phase>>

(* Formats with one header for each section, and all of them.              *)
Segmented == {"atari", "coco", "pgz"}
Formats == {"raw", "coalesced"} \cup Segmented

balign(addr, a) == IF a = 0 \/ addr % a = 0 THEN 0 ELSE a - (addr % a)
pcalign(atom, addr) == addr + balign(addr, atom.align)

(* The address behind the first k atoms, and that of each atom, from org on.*)
EndOf(atoms, k, org) ==
    LET end[j \in 0 .. Len(atoms)] ==
            IF j = 0 THEN org ELSE pcalign(atoms[j], end[j - 1]) + atoms[j].size
    IN  end[k]
PlaceOf(atoms, k, org) == pcalign(atoms[k], EndOf(atoms, k - 1, org))
Places(atoms, org) == [k \in DOMAIN atoms |-> PlaceOf(atoms, k, org)]

Align(atoms) == Max({1} \cup {atoms[k].align : k \in DOMAIN atoms})

(* Alignments are powers of two (syntax/oldstyle/syntax.c, lines 519-532), *)
(* so the largest of a section serves all of them.                         *)
ASSUME AlignAssumption ==
    \A body \in Bodies : \A k \in DOMAIN body :
        body[k].align = 0 \/ Align(body) % body[k].align = 0

(* new_section() and new_org(), their atoms added and resolved.            *)
NewSection(atoms) ==
    [org |-> 0, pc |-> EndOf(atoms, Len(atoms), 0), absolute |-> FALSE,
     align |-> Align(atoms), atoms |-> atoms, last |-> Len(atoms)]
NewOrg(org, atoms) ==
    [NewSection(atoms) EXCEPT !.org = org, !.pc = EndOf(atoms, Len(atoms), org),
                              !.absolute = TRUE]

Sections ==
    {NewOrg(org, atoms) : org \in Origins, atoms \in Bodies}
    \cup {NewSection(atoms) : atoms \in Bodies}

Init ==
    /\ secs \in UNION {[1 .. n -> Sections] : n \in 0 .. MaxSections}
    /\ labels = [i \in DOMAIN secs |-> Places(secs[i].atoms, secs[i].org)]
    /\ binfmt \in Formats /\ joinsecs \in BOOLEAN
    /\ seclist = <<>> /\ pc = 0 /\ file = <<>> /\ phase = "trim"
-----------------------------------------------------------------------------
(* trim_uninitialized(): a section without initialized atoms keeps its pc. *)
LastOf(atoms) == Max({0} \cup {k \in DOMAIN atoms : ~atoms[k].uninit})
Trimmed(s) ==
    LET last == LastOf(s.atoms)
    IN  [s EXCEPT !.last = last,
                  !.pc = IF last = 0 THEN @ ELSE EndOf(s.atoms, last, s.org)]

Trim ==
    /\ phase = "trim"
    /\ secs' = [i \in DOMAIN secs |-> Trimmed(secs[i])]
    /\ phase' = IF secs = <<>> THEN "done" ELSE "join"
    /\ UNCHANGED <<labels, binfmt, joinsecs, seclist, pc, file>>

(* Mutant: sections are joined without regard to their alignment.          *)
SectionOrgUnaligned(addr, s) == addr
(* join_sections(): the first of its loops leaves out what the atoms'      *)
(* alignment adds to the size of a section; the last one does not.         *)
SectionOrg(addr, s) == addr + balign(addr, s.align)
SizeSum(atoms) ==
    LET sum[j \in 0 .. Len(atoms)] == IF j = 0 THEN 0 ELSE sum[j - 1] + atoms[j].size
    IN  sum[Len(atoms)]
Behind(addr, s) ==
    IF s.absolute THEN addr ELSE SectionOrg(addr, s) + SizeSum(s.atoms)
Before(i) ==
    LET at[j \in 0 .. Len(secs)] == IF j = 0 THEN JoinOrg ELSE Behind(at[j - 1], secs[j])
    IN  at[i - 1]
Joined(i) ==
    IF secs[i].absolute THEN secs[i]
    ELSE LET org == SectionOrg(Before(i), secs[i])
         IN  [secs[i] EXCEPT !.org = org, !.pc = EndOf(secs[i].atoms, Len(secs[i].atoms), org),
                             !.absolute = TRUE]

Join ==
    /\ phase = "join"
    /\ \/ ~joinsecs /\ UNCHANGED <<secs, labels>>
       \/ /\ joinsecs
          /\ secs' = [i \in DOMAIN secs |-> Joined(i)]
          /\ labels' = [i \in DOMAIN secs |->
                 IF secs[i].absolute THEN labels[i]
                 ELSE [k \in DOMAIN labels[i] |-> labels[i][k] + Joined(i).org]]
    /\ phase' = "check"
    /\ UNCHANGED <<binfmt, joinsecs, seclist, pc, file>>

(* chk_sec_overlap() looks at a section and those behind it in the list.   *)
Clash(s, s2) ==
    \/ s2.org >= s.org /\ s2.org < s.pc
    \/ s2.pc > s.org /\ s2.pc < s.pc
Overlap == \E i, j \in DOMAIN secs : i < j /\ Clash(secs[i], secs[j])

(* Mutant: the sections stay in the order of the source.                   *)
AscendingUnsorted(order) == order = [i \in DOMAIN secs |-> i]
(* qsort() with orgcmp(): nothing is said of equal addresses.              *)
Ascending(order) ==
    \A p, q \in DOMAIN order : p < q => secs[order[p]].org <= secs[order[q]].org

Reject ==
    /\ phase = "check" /\ Overlap
    /\ phase' = "fatal"
    /\ UNCHANGED <<secs, labels, binfmt, joinsecs, seclist, pc, file>>

(* The sections are sorted and the header is written.                      *)
Sort ==
    /\ phase = "check" /\ ~Overlap
    /\ \E order \in Bijection(DOMAIN secs, DOMAIN secs) :
          /\ Ascending(order)
          /\ seclist' = order
          /\ file' = IF binfmt \in Segmented THEN <<>>
                     ELSE <<[addr |-> secs[order[1]].org, extent |-> 0, bytes |-> <<>>]>>
    /\ phase' = "write"
    /\ UNCHANGED <<secs, labels, binfmt, joinsecs, pc>>

-----------------------------------------------------------------------------
pad == <<>>
Padding(n) == [p \in 1 .. n |-> pad]
Atom(i, k) == [b \in 1 .. secs[i].atoms[k].size |-> <<i, k, b>>]

(* The first k atoms, each behind the padding of its alignment; those up   *)
(* to last are written.                                                    *)
Text(i, k) ==
    LET s == secs[i]
        PadTo(j) == Padding(balign(EndOf(s.atoms, j - 1, s.org), s.atoms[j].align))
        text[j \in 0 .. s.last] ==
            IF j = 0 THEN <<>> ELSE text[j - 1] \o PadTo(j) \o Atom(i, j)
    IN  text[k]
Contents(i) == Text(i, secs[i].last)

Gap(i) == Padding(Max({0, secs[i].org - pc}))

(* Mutant: Atari's last address is the one behind the section.             *)
ExtentBehind(s) == IF binfmt = "atari" THEN s.pc ELSE s.pc - s.org
(* What a header says of a section: its last address in Atari COM, else    *)
(* its length.                                                             *)
Extent(s) == IF binfmt = "atari" THEN s.pc - 1 ELSE s.pc - s.org

(* One section: header or gap, then contents.                              *)
Write ==
    /\ phase = "write" /\ seclist # <<>>
    /\ LET i == Head(seclist)
           first == Len(seclist) = Len(secs)
           lead == IF binfmt = "raw" /\ ~first THEN Gap(i) ELSE <<>>
       IN  /\ file' = IF binfmt \in Segmented
                      THEN Append(file, [addr |-> secs[i].org, extent |-> Extent(secs[i]),
                                         bytes |-> Contents(i)])
                      ELSE [file EXCEPT ![1].bytes = @ \o lead \o Contents(i)]
           /\ pc' = EndOf(secs[i].atoms, secs[i].last, secs[i].org)
    /\ seclist' = Tail(seclist)
    /\ UNCHANGED <<secs, labels, binfmt, joinsecs, phase>>

(* The length in a header is known only now, and PGZ ends with a header of *)
(* size zero.  (CoCo's trailer differs from a header in its first byte.)   *)
Patch ==
    /\ phase = "write" /\ seclist = <<>>
    /\ file' = CASE binfmt = "pgz" ->
                      Append(file, [addr |-> file[1].addr, extent |-> 0, bytes |-> <<>>])
                 [] binfmt \in {"atari", "coco"} -> file
                 [] OTHER -> [file EXCEPT ![1].extent = pc - file[1].addr]
    /\ phase' = "done"
    /\ UNCHANGED <<secs, labels, binfmt, joinsecs, seclist, pc>>

Next == Trim \/ Join \/ Reject \/ Sort \/ Write \/ Patch

Spec == Init /\ [][Next]_vars

-----------------------------------------------------------------------------
(* The bytes to be written, and the address the labels give to each.       *)
Bytes == UNION {UNION {Range(Atom(i, k)) : k \in 1 .. secs[i].last} : i \in DOMAIN secs}
Address(byte) == labels[byte[1]][byte[2]] + byte[3] - 1

(* How many bytes a loader takes behind a header, ...                      *)
Claimed(s) ==
    IF binfmt = "atari" THEN file[s].extent + 1 - file[s].addr ELSE file[s].extent
(* ... and whether it goes on to the next one: a size of zero says that no *)
(* more segments follow in PGZ (output_bin.c, lines 263-264), and a last   *)
(* address below the first leads an Atari loader nowhere.                  *)
Ends(s) == binfmt \in {"pgz", "atari"} /\ Claimed(s) = 0
Reached(s) ==
    \A t \in 1 .. s - 1 : Claimed(t) = Len(file[t].bytes) /\ ~Ends(t)
Loads(byte, addr) ==
    \E s \in DOMAIN file :
        LET p == addr - file[s].addr + 1
        IN  Reached(s) /\ p \in 1 .. Claimed(s) /\ file[s].bytes[p] = byte

(* Types; no length is negative.                                           *)
TypeOK ==
    /\ \A i \in DOMAIN secs :
          /\ secs[i].org \in Nat /\ secs[i].pc \in Nat /\ secs[i].pc >= secs[i].org
          /\ secs[i].last \in 0 .. Len(secs[i].atoms)
    /\ binfmt \in Formats /\ joinsecs \in BOOLEAN
    /\ seclist \in Seq(DOMAIN secs) /\ pc \in Nat
    /\ \A s \in DOMAIN file : file[s].addr \in Nat /\ Claimed(s) \in Nat
    /\ phase \in {"trim", "join", "check", "write", "done", "fatal"}

(* Two sections, the one wholly below the other.                           *)
Below(s, s2) == s.org < s2.org /\ s.pc <= s2.org
Disjoint ==
    \A i, j \in DOMAIN secs : i # j => Below(secs[i], secs[j]) \/ Below(secs[j], secs[i])
Written == phase = "done" /\ secs # <<>> /\ Disjoint

(* Sections that can be placed are never rejected, adjacent ones neither,  *)
(* and the file is the memory from the load address on: every byte is where*)
(* the labels of the program say it is, and the length covers the file.    *)
ImagePlaced ==
    /\ Disjoint => phase # "fatal"
    /\ Written /\ binfmt = "raw" =>
        LET image == file[1]
            At(addr) == image.bytes[addr - image.addr + 1]
        IN  /\ image.extent = Len(image.bytes)
            /\ \A byte \in Bytes :
                  /\ Address(byte) \in image.addr .. image.addr + image.extent - 1
                  /\ At(Address(byte)) = byte

(* The manual: "Do not pad the space between separate org-blocks, but      *)
(* output all of them in a coalesced manner (sorted by address)"; none of  *)
(* the bytes is lost.                                                      *)
CoalescedSorted ==
    Written /\ binfmt = "coalesced" =>
        LET bytes == file[1].bytes
            Placed == {p \in DOMAIN bytes : bytes[p] # pad}
        IN  /\ {bytes[p] : p \in Placed} = Bytes
            /\ \A p, q \in Placed : p < q => Address(bytes[p]) < Address(bytes[q])

(* The header of a segment leads to the next header, and a loader puts a   *)
(* byte where the labels say it is unless the section of the byte lies     *)
(* behind an empty one: to CoCo that is a header like others, in PGZ and   *)
(* Atari COM the file ends there.  Not so for sections that end in         *)
(* uninitialized space when they are joined, or have nothing else: there   *)
(* the header counts what is not written.                                  *)
Initialized ==
    \A i \in DOMAIN secs :
        secs[i].last < Len(secs[i].atoms) => secs[i].last > 0 /\ ~joinsecs
BehindEmpty(i) ==
    \E j \in DOMAIN secs : secs[j].org < secs[i].org /\ secs[j].pc = secs[j].org
SegmentsLoad ==
    Written /\ binfmt \in Segmented /\ Initialized =>
        /\ \A s \in DOMAIN file : Claimed(s) = Len(file[s].bytes)
        /\ \A byte \in Bytes :
              Loads(byte, Address(byte)) <=> binfmt = "coco" \/ ~BehindEmpty(byte[1])

(* The manual: "When there are multiple sections, they must not overlap",  *)
(* and the comment at chk_sec_overlap(): "fatal error when section address *)
(* ranges overlap".                                                        *)
OverlapsRejected ==
    phase = "done" => \A b, c \in Bytes : b # c => Address(b) # Address(c)
=============================================================================
