----------------------------- MODULE MCResolver -----------------------------
(* Resolver over all small programs of several kinds, with a short branch   *)
(* reaching -4 .. 3 bytes and a zero page that ends at address 7.           *)
EXTENDS Resolver

ProgramLabels == {"a", "b"}

(* Every sequence of n atoms with each of the labels a and b defined once.  *)
WithLabels(n, atoms) ==
    {p \in [1 .. n -> atoms \cup {LabelAtom("a"), LabelAtom("b")}] :
        \A l \in ProgramLabels : Cardinality({j \in 1 .. n : p[j] = LabelAtom(l)}) = 1}

Branches == {Inst("bcc", 0, 1, "a"), Inst("bcc", 0, 1, "b"),
             Inst("bra", 0, 1, "a"), Inst("bra", 1, 1, "b")}
Spaces == {DataAtom(1, 1), DataAtom(3, 1)}

(* One section of branches and data. *)
BranchPrograms == {<<[org |-> 8, code |-> p]>> : p \in WithLabels(5, Branches \cup Spaces)}

(* Zero-page operands around the end of the page, alignment, and operands   *)
(* that shrink as a label grows.                                            *)
Mixed == {Inst("abs", 0, 1, "a"), Inst("abs", 14, -1, "b"), Inst("bcc", 0, 1, "b"),
          Inst("jmp", 0, 1, "a"), DataAtom(2, 4)}
MixedPrograms == {<<[org |-> 4, code |-> p]>> : p \in WithLabels(5, Mixed)}

(* Two sections, each with a label, that may refer to each other. *)
Pairs(atoms) ==
    {<<[org |-> 3, code |-> <<x1, LabelAtom("a"), y1>>],
       [org |-> 4, code |-> <<x2, LabelAtom("b"), y2>>]>> :
         x1 \in atoms, y1 \in atoms, x2 \in atoms, y2 \in atoms}
PairPrograms == Pairs(Mixed \cup {Inst("abs", 2, 1, "a")})

(* Branches that take turns in being too long, pass by pass. *)
Taking(op, k) == Inst(op, k, 1, "a")
Oscillating ==
    {<<[org |-> 8, code |-> <<Taking("bcc", -1), Taking("bcc", -3), Taking("bcc", 3),
                              Taking("bcc", -4), Taking("bra", 0), Taking("bcc", 2),
                              LabelAtom("a")>>]>>}

AllPrograms == BranchPrograms \cup MixedPrograms \cup PairPrograms \cup Oscillating

(* lda lb-k in one .org section and lda k2-la in another, each near the end *)
(* of the zero page.                                                        *)
EachOther ==
    {<<[org |-> 4, code |-> <<Inst("abs", 1, 1, "b"), LabelAtom("a")>>],
       [org |-> 4, code |-> <<Inst("abs", 14, -1, "a"), LabelAtom("b")>>]>>}
=============================================================================
