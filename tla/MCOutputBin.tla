---------------------------- MODULE MCOutputBin ----------------------------
(* OutputBin with a few origins, and bodies with and without initialized    *)
(* bytes, trailing space and alignment.                                     *)
EXTENDS OutputBin

D(size, align) == [size |-> size, align |-> align, uninit |-> FALSE]
U(size) == [size |-> size, align |-> 1, uninit |-> TRUE]
SomeBodies ==
    {<<>>, <<D(1, 1)>>, <<U(1)>>, <<D(1, 1), U(1)>>, <<D(1, 1), D(1, 2)>>}
=============================================================================
