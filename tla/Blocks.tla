------------------------------- MODULE Blocks -------------------------------
(***************************************************************************)
(* What conditional assembly promises to the writer of a source: blocks    *)
(* opened by an if, each assembling, waiting for its else, or finished, and*)
(* a text included, repeated or expanded from a macro that can be left     *)
(* early "to a state before the macro was invoked"                         *)
(* (doc/syntax_oldstyle.texi, exitmacro).                                  *)
(***************************************************************************)
EXTENDS Naturals, Sequences, SequencesExt

VARIABLES
    blocks,   \* the status of each open if, outermost first
    calls     \* for every text being read, the blocks when it began, and
              \* whether it was left early

vars == <<blocks, calls>>

(* A block inside one that does not assemble is ignored as a whole. *)
Status == {"open", "waiting", "finished", "ignored"}

Assembling == \A i \in DOMAIN blocks : blocks[i] = "open"
Reading == ~Last(calls).left

Init == blocks = <<>> /\ calls = <<[blocks |-> <<>>, left |-> FALSE]>>

If(holds) ==
    /\ Reading
    /\ blocks' = Append(blocks, IF ~Assembling THEN "ignored"
                                ELSE IF holds THEN "open" ELSE "waiting")
    /\ UNCHANGED calls

AfterElse(status) ==
    CASE status = "open"    -> "finished"
      [] status = "waiting" -> "open"
      [] OTHER              -> status

Else ==
    /\ Reading /\ blocks # <<>>
    /\ blocks' = Append(Front(blocks), AfterElse(Last(blocks)))
    /\ UNCHANGED calls

Endif == Reading /\ blocks # <<>> /\ blocks' = Front(blocks) /\ UNCHANGED calls

Begin ==
    /\ Reading /\ Assembling
    /\ calls' = Append(calls, [blocks |-> blocks, left |-> FALSE])
    /\ UNCHANGED blocks

(* Leaving early closes what the text has opened; reaching its end does    *)
(* not: an if may be closed by another text.                               *)
Leave ==
    /\ Reading /\ Assembling
    /\ blocks' = Last(calls).blocks
    /\ calls' = [calls EXCEPT ![Len(calls)].left = TRUE]

Return == Len(calls) > 1 /\ calls' = Front(calls) /\ UNCHANGED blocks

Next ==
    \/ \E holds \in BOOLEAN : If(holds)
    \/ Else \/ Endif \/ Begin \/ Leave \/ Return

Spec == Init /\ [][Next]_vars
=============================================================================
