----------------------------- MODULE MCCondAsm ------------------------------
(* CondAsm with small limits; two macros, so that one can call another.     *)
EXTENDS CondAsm

CONSTANTS m1, m2
TwoMacros == {m1, m2}
=============================================================================
