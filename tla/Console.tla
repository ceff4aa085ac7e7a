------------------------------ MODULE Console -------------------------------
(***************************************************************************)
(* What a display program promises: the display executes the entries of    *)
(* Script one at a time, in order, none skipped, repeated or altered, each *)
(* one only when the display is ready for it, up to a length in Stops.     *)
(* A restart begins the script again.                                      *)
(***************************************************************************)
EXTENDS Naturals, Sequences

CONSTANTS
    Script,    \* Script[k] is the k-th entry the display is to execute
    Stops      \* the lengths at which the script is finished

VARIABLES
    shown,     \* the entries executed since the last restart
    ready      \* the display can take an entry

vars == <<shown, ready>>

Init == shown = << >> /\ ready \in BOOLEAN

Finished == Len(shown) \in Stops

Accept ==
    /\ ready /\ ~Finished
    /\ shown' = Append(shown, Script[Len(shown) + 1])
    /\ ready' = FALSE

Finish ==
    /\ ~ready /\ ready' = TRUE
    /\ UNCHANGED shown

(* Before the first entry, and only then, the display may turn busy alone. *)
Disturb ==
    /\ shown = << >> /\ ready
    /\ ready' = FALSE
    /\ UNCHANGED shown

Restart ==
    /\ shown' = << >>
    /\ ready' \in {ready, FALSE}

Next == Accept \/ Finish \/ Disturb \/ Restart

Spec == Init /\ [][Next]_vars
FairSpec == Spec /\ WF_vars(Accept) /\ WF_vars(Finish)
=============================================================================
