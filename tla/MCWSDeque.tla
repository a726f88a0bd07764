------------------------------- MODULE MCWSDeque -------------------------------
(* Instances of WSDeque for TLC: arrays of 2, 4 and 8 cells. *)
EXTENDS WSDeque, TLC

CONSTANTS a0, a1, a2
MCArrays == {a0, a1, a2}
MCInitArray == 0 :> a0

\* Coroutines are interchangeable, and so are the arrays not yet allocated.
MCSymmetry == Permutations(Items) \cup Permutations(MCArrays \ {a0})
================================================================================
