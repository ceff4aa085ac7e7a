----------------------------- MODULE MCSymbols ------------------------------
(* Symbols with three names, the number 1 and each name plus 1.             *)
EXTENDS Symbols, TLC

CONSTANTS x, y, z
ThreeNames == {x, y, z}
SmallTerms == [add : {1}, sym : ThreeNames \cup {NoName}]
NameSymmetry == Permutations(ThreeNames)
=============================================================================
