------------------------------- MODULE MCScheduler -----------------------------
(* Instances of Scheduler for TLC: the entry's coroutine and three more that it *)
(* and its children spawn.                                                     *)
EXTENDS Scheduler, TLC

CONSTANTS main, c1, c2, c3
MCCoros == {main, c1, c2, c3}
\* The spawned coroutines are interchangeable.
MCSymmetry == Permutations({c1, c2, c3})

On(n, ops) == [workers |-> n, ops |-> ops]

\* Every operation but I/O on one worker; two workers race through await.
MCStates == {On(1, {"spawn", "yield", "await", "park", "notify", "spin"}),
             On(2, {"spawn", "await"})}
\* Programs that end.
MCDrain == {On(1, {"spawn", "await", "io"}), On(2, {"spawn"})}

MCYield == {On(2, {"yield"})}
MCIo == {On(1, {"io"})}
MCPark == {On(1, {"park"})}
================================================================================
