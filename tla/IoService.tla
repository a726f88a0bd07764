-------------------------------- MODULE IoService ------------------------------
(***************************************************************************)
(* What the I/O driver promises a coroutine (runtime/io_driver.h): every   *)
(* call of ty_io_read or ty_io_write is answered once, with the result of  *)
(* that very call.                                                         *)
(***************************************************************************)
EXTENDS Naturals, Sequences

CONSTANTS
    Coros,      \* coroutines that do I/O
    MaxCalls    \* bound on the calls of each

VARIABLES
    asked,      \* calls each coroutine has begun
    taken       \* the results it has taken, in order

vars == <<asked, taken>>

\* The n-th call of a coroutine; its result is written as the call itself.
Calls == Coros \X (1 .. MaxCalls)
Waiting(c) == Len(taken[c]) < asked[c]

Init ==
    /\ asked = [c \in Coros |-> 0]
    /\ taken = [c \in Coros |-> <<>>]

Ask(c) ==
    /\ ~Waiting(c) /\ asked[c] < MaxCalls
    /\ asked' = [asked EXCEPT ![c] = @ + 1]
    /\ UNCHANGED taken

Answer(c) ==
    /\ Waiting(c)
    /\ taken' = [taken EXCEPT ![c] = Append(@, <<c, asked[c]>>)]
    /\ UNCHANGED asked

Next == \E c \in Coros : Ask(c) \/ Answer(c)

Spec == Init /\ [][Next]_vars
================================================================================
