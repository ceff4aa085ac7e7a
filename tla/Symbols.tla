------------------------------ MODULE Symbols ------------------------------
(***************************************************************************)
(* The symbols of vasm: what a name stands for while a text of labels, equ,*)
(* set and data directives in one absolute section is parsed (symbol.c,    *)
(* expr.c, the directives in syntax.c), and what becomes of the data when  *)
(* it is resolved, assembled and written (vasm.c, output_bin.c).           *)
(*                                                                         *)
(* An expression is add + sym, or the number add when sym is NoName; trees *)
(* of sums of one symbol and constants differ from it in their shape only. *)
(* Every datum is one byte long, so addresses are final when they are      *)
(* parsed; how they move otherwise is the subject of Resolver.             *)
(***************************************************************************)
EXTENDS Integers, Sequences, FiniteSets, FiniteSetsExt

CONSTANTS
    Names,          \* the names a text may use
    NoName,         \* no symbol
    Terms,          \* bound: the expressions a text may use
    Start,          \* the address of the section
    MaxStatements   \* bound: statements in a text

ASSUME NameAssumption == IsFiniteSet(Names) /\ NoName \notin Names
ASSUME TermAssumption == Terms \subseteq [add : Nat, sym : Names \cup {NoName}]
ASSUME SizeAssumption == Start \in Nat /\ MaxStatements \in Nat

VARIABLES
    text,      \* the statements parsed so far, for the properties only
    symbols,   \* the table: type, expr, flags & EQUATE and pc of each name
    atoms,     \* the section: labels and data definitions with their lines
    image,     \* values of the data assembled so far
    at,        \* number of atoms assembled
    phase      \* "parse", "assemble", "fix", "write", "done"; or "failed"
               \* (an error), "fatal" (error 18) or "internal" (ierror)

vars == <<text, symbols, atoms, image, at, phase>>

NoTerm == [add |-> 0, sym |-> NoName]
Unknown == [type |-> "NONE", expr |-> NoTerm, equate |-> FALSE, pc |-> 0]

Init ==
    /\ text = <<>> /\ atoms = <<>> /\ image = <<>> /\ at = 0
    /\ symbols = [n \in Names |-> Unknown] /\ phase = "parse"

IsExpression(n) == n \in Names /\ symbols[n].type = "EXPRESSION"
(* Mutant: a name that was mentioned counts as defined.                    *)
DefinedOrSeen(n) == symbols[n].type # "NONE"
Defined(n) == symbols[n].type \notin {"NONE", "IMPORT"}
-----------------------------------------------------------------------------
(* primary_expr(): a name that is an expression by now stands for a copy   *)
(* of its tree.                                                            *)
primary_expr(t) ==
    IF ~IsExpression(t.sym) THEN t
    ELSE LET tree == symbols[t.sym].expr
         IN  [add |-> t.add + tree.add, sym |-> tree.sym]
(* simplify_expr(): a symbol that has become a number since the tree was   *)
(* made is replaced by it.                                                 *)
simplify_expr(t) ==
    IF IsExpression(t.sym) /\ symbols[t.sym].expr.sym = NoName
    THEN [add |-> t.add + symbols[t.sym].expr.add, sym |-> NoName]
    ELSE t
(* Mutant: the name is kept and looked up only when its value is needed.   *)
parse_expr_late(t) == t
parse_expr(t) == simplify_expr(primary_expr(t))

(* new_import(): an unknown name in an expression enters the table.        *)
Mention(t) ==
    IF t.sym \in Names /\ symbols[t.sym].type = "NONE"
    THEN [symbols EXCEPT ![t.sym].type = "IMPORT"]
    ELSE symbols
-----------------------------------------------------------------------------
Parsing == phase = "parse" /\ Len(text) < MaxStatements
Statement(op, n, t) == text' = Append(text, [op |-> op, name |-> n, term |-> t])

(* general_error() while parsing: the rest of the text is still parsed, but*)
(* nothing is resolved, assembled or written any more.                     *)
Error == phase' = "failed" /\ UNCHANGED <<symbols, atoms, image, at>>

Assigned(n, t, equate) ==
    /\ symbols' = [Mention(t) EXCEPT ![n].type = "EXPRESSION",
                                     ![n].expr = parse_expr(t),
                                     ![n].equate = equate]
    /\ UNCHANGED <<atoms, image, at, phase>>

(* name set term: new_abs().  Only an equate is an error; a label becomes  *)
(* an expression with no more than a warning.                              *)
Set(n, t) ==
    /\ Parsing
    /\ Statement("set", n, t)
    /\ IF ~symbols[n].equate THEN Assigned(n, t, FALSE) ELSE Error

(* name equ term: new_equate(), whose check_symbol() wants an undefined    *)
(* name or one that was only mentioned.                                    *)
Equ(n, t) ==
    /\ Parsing
    /\ Statement("equ", n, t)
    /\ IF ~Defined(n) THEN Assigned(n, t, TRUE) ELSE Error

(* new_label_atom(), new_data_atom() and add_atom(). *)
NewAtom(type, n, t) ==
    atoms' = Append(atoms, [type |-> type, name |-> n, expr |-> t, line |-> Len(text) + 1])

(* name: new_labsym() and the label atom.                                  *)
DataSize == Cardinality({k \in DOMAIN atoms : atoms[k].type = "DATADEF"})
Label(n) ==
    /\ Parsing
    /\ Statement("label", n, NoTerm)
    /\ IF Defined(n) THEN Error
       ELSE /\ symbols' = [symbols EXCEPT ![n].type = "LABSYM",
                                          ![n].pc = Start + DataSize]
            /\ NewAtom("LABEL", n, NoTerm)
            /\ UNCHANGED <<image, at, phase>>

(* .byte term: handle_data().                                              *)
Byte(t) ==
    /\ Parsing
    /\ Statement("byte", NoName, t)
    /\ symbols' = Mention(t)
    /\ NewAtom("DATADEF", NoName, parse_expr(t))
    /\ UNCHANGED <<image, at, phase>>
-----------------------------------------------------------------------------
(* eval_expr(): goes from one expression to the next, adding up.  It meets *)
(* a symbol flagged INEVAL again if and only if one is still left after as *)
(* many steps as there are names.  What is not known counts nothing.       *)
Recursive == -1
eval_expr(t) ==
    LET walk[k \in 0 .. Cardinality(Names)] ==
            IF k = 0 THEN t ELSE primary_expr(walk[k - 1])
        end == walk[Cardinality(Names)]
    IN  IF IsExpression(end.sym) THEN Recursive
        ELSE IF end.sym \in Names /\ symbols[end.sym].type = "LABSYM"
        THEN end.add + symbols[end.sym].pc
        ELSE end.add

(* resolve(): no size changes, so one pass looks at every atom once; it    *)
(* insists that labels are labels.                                         *)
Resolve ==
    /\ phase = "parse"
    /\ phase' = IF \E i \in DOMAIN atoms :
                       atoms[i].type = "LABEL" /\ symbols[atoms[i].name].type # "LABSYM"
                THEN "internal" ELSE "assemble"
    /\ UNCHANGED <<text, symbols, atoms, image, at>>

(* assemble(): the value of a datum is taken with the symbols as they are  *)
(* behind the whole text.                                                  *)
AssembleAtom ==
    /\ phase = "assemble" /\ at < Len(atoms)
    /\ at' = at + 1
    /\ LET atom == atoms[at + 1]
           val == eval_expr(atom.expr)
       IN  IF atom.type = "LABEL" THEN UNCHANGED <<image, phase>>
           ELSE IF val = Recursive THEN phase' = "fatal" /\ UNCHANGED image
           ELSE image' = Append(image, val) /\ UNCHANGED phase
    /\ UNCHANGED <<text, symbols, atoms>>

Assembled ==
    /\ phase = "assemble" /\ at = Len(atoms)
    /\ phase' = "fix"
    /\ UNCHANGED <<text, symbols, atoms, image, at>>

(* fix_labels(): evaluates every symbol that is an expression.  One that   *)
(* depends on an undefined name is freed, others may still point to it;    *)
(* whatever is read there, write_output() or a crash ends the assembly.    *)
FixLabels ==
    /\ phase = "fix"
    /\ phase' = IF \E n \in Names :
                       IsExpression(n) /\ eval_expr(symbols[n].expr) = Recursive
                THEN "fatal" ELSE "write"
    /\ UNCHANGED <<text, symbols, atoms, image, at>>

(* write_output(): a name that is still undefined is an error.             *)
WriteOutput ==
    /\ phase = "write"
    /\ phase' = IF \E n \in Names : symbols[n].type = "IMPORT" THEN "failed" ELSE "done"
    /\ UNCHANGED <<text, symbols, atoms, image, at>>

Parse ==
    \/ \E n \in Names, t \in Terms : Set(n, t) \/ Equ(n, t)
    \/ \E n \in Names : Label(n)
    \/ \E t \in Terms : Byte(t)
Next == Parse \/ Resolve \/ AssembleAtom \/ Assembled \/ FixLabels \/ WriteOutput

Spec == Init /\ [][Next]_vars
-----------------------------------------------------------------------------
(* What a text means, read as it stands: a name set several times is what  *)
(* the last set before says, any other name what its only definition says, *)
(* before or behind.                                                       *)
Definitions(n) == {i \in DOMAIN text : text[i].op # "byte" /\ text[i].name = n}
IsVariable(n) == \E i \in Definitions(n) : text[i].op = "set"
Before(i, n) == {j \in Definitions(n) : j < i}
InForce(i, n) == IF IsVariable(n) THEN Max(Before(i, n)) ELSE CHOOSE j \in Definitions(n) : TRUE
BytesBefore(i) == Cardinality({j \in 1 .. i - 1 : text[j].op = "byte"})

(* What statement i stands for, going from one definition to the next. *)
Refers(i) == text[i].op # "label" /\ text[i].term.sym # NoName
Meaning(i) ==
    LET walk[k \in 0 .. Len(text)] ==
            IF k = 0 THEN [add |-> 0, from |-> i]
            ELSE LET u == walk[k - 1]
                     t == text[u.from].term
                 IN  IF ~Refers(u.from) THEN u
                     ELSE [add |-> u.add + t.add, from |-> InForce(u.from, t.sym)]
        end == walk[Len(text)]
    IN  IF Refers(end.from) THEN Recursive
        ELSE IF text[end.from].op = "label"
        THEN end.add + Start + BytesBefore(end.from)
        ELSE end.add + text[end.from].term.add

(* Texts that use a variable before its first set are left aside: what it  *)
(* means there depends on when vasm looks.                                 *)
UsedUnset ==
    \E i \in DOMAIN text :
        LET n == text[i].term.sym IN n \in Names /\ IsVariable(n) /\ Before(i, n) = {}

Legal ==
    /\ \A n \in Names :
           \/ Cardinality(Definitions(n)) = 1
           \/ \A i \in Definitions(n) : text[i].op = "set"
    /\ \A i \in DOMAIN text : text[i].term.sym # NoName => Definitions(text[i].term.sym) # {}
    /\ \A i \in DOMAIN text : Meaning(i) # Recursive

(* What is written is what the text says: nothing ill-defined, ambiguous or*)
(* circular is accepted, and every byte has the value its expression has at*)
(* its place, whether names were copied, folded or looked up at the end.   *)
ValuesAsWritten ==
    phase = "done" /\ ~UsedUnset =>
        /\ Legal
        /\ Len(image) = BytesBefore(Len(text) + 1)
        /\ \A i \in DOMAIN text : text[i].op = "byte" =>
               image[BytesBefore(i) + 1] = Meaning(i)

(* Only what is wrong is rejected, whatever the order of the definitions.  *)
LegalAssembles ==
    phase \in {"failed", "fatal", "internal"} /\ ~UsedUnset => ~Legal
=============================================================================
