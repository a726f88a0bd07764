--------------------------------- MODULE MCEBR ---------------------------------
(* Instance of EBR for TLC: two workers and the external slot. *)
EXTENDS EBR, TLC

CONSTANTS a0, a1, a2
MCArrays == {a0, a1, a2}
\* One deque, which can grow twice.
MCInitArray == 0 :> a0
================================================================================
