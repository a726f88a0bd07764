--------------------------------- MODULE WSDeque -------------------------------
(***************************************************************************)
(* The Chase-Lev work-stealing deque of one worker (runtime/scheduler.c:   *)
(* deque_push, deque_pop, deque_steal, deque_grow), each atomic access one *)
(* action, every operation inside the epoch protection of EBR.             *)
(*                                                                         *)
(* The deque modelled is that of worker 0.  The owner pops, every other    *)
(* worker steals, and the threads in Pushers push: the algorithm is meant  *)
(* for {0}, the scheduler also pushes from other threads.                  *)
(***************************************************************************)
EXTENDS EBR, Integers

CONSTANTS
    Items,      \* coroutines
    NoItem,     \* NULL
    Pushers,    \* threads that call deque_push on this deque
    InitCap,    \* DEQUE_INITIAL_CAP (256), a power of two
    MaxBottom   \* bound on the number of positions ever pushed

ASSUME ItemAssumption == NoItem \notin Items
ASSUME PushersAssumption == Pushers \subseteq Slots
ASSUME CapAssumption == InitCap \in Nat \ {0}
ASSUME OneDequeAssumption == Deques = {0}

VARIABLES
    top, bottom,    \* dq->top, dq->bottom
    cap, buf,       \* cap and elements of each DequeArray
    pc,             \* the next access of each thread's operation
    bot, tp, arr,   \* the locals `bot`, `top` and `a`
    item,           \* the item pushed, or the result of pop and steal
    outside         \* coroutines their holder may push: in no deque

dqVars == <<top, bottom, cap, buf>>
locals == <<bot, tp, arr, item>>
vars == <<ebrVars, dqVars, locals, pc, outside>>

Owner == 0
Thieves == 1 .. NumWorkers - 1

\* i & (cap - 1): also for a negative i, in two's complement.
Cell(a, i) == i % cap[a]
At(a, i) == buf[a][Cell(a, i)]

Init ==
    /\ EbrInit
    /\ top = 0 /\ bottom = 0
    /\ cap = [a \in Arrays |-> IF a = InitArray[0] THEN InitCap ELSE 0]
    /\ buf = [a \in Arrays |-> [i \in 0 .. cap[a] - 1 |-> NoItem]]
    /\ pc = [p \in Slots |-> "idle"]
    /\ bot = [p \in Slots |-> 0]
    /\ tp = [p \in Slots |-> 0]
    /\ arr = [p \in Slots |-> NoArray]
    /\ item = [p \in Slots |-> NoItem]
    /\ outside = Items

Step(p, from, to) ==
    /\ pc[p] = from /\ phase[p] = "in"
    /\ pc' = [pc EXCEPT ![p] = to]

\* Mutant: the operation runs without ebr_enter_worker.
BeginUnprotected(p, first) ==
    /\ pc[p] = "idle" /\ phase[p] = "out"
    /\ Goto(p, "in")
    /\ pc' = [pc EXCEPT ![p] = first]
    /\ UNCHANGED <<epoch, announced, active, retired, cur, freed, held, reg,
                   limbo, idx, list, mode, forced, dqVars, bot, tp, arr>>

\* An operation starts with the first access of ebr_enter_worker ...
Begin(p, first) ==
    /\ pc[p] = "idle"
    /\ EnterReadEpoch(p)
    /\ pc' = [pc EXCEPT ![p] = first]
    /\ UNCHANGED <<dqVars, bot, tp, arr>>

\* Mutant: NULL is taken for a coroutine.
TakenOrNull(p) == {item[p]}

\* The coroutine an operation returns to its caller, if any.
Taken(p) == {item[p]} \ {NoItem}

\* ... and ends with ebr_exit_worker, returning the item if it took one.
End(p) ==
    /\ Step(p, "exit", "idle")
    /\ Exit(p)
    /\ outside' = outside \cup Taken(p)
    /\ bot' = [bot EXCEPT ![p] = 0] /\ tp' = [tp EXCEPT ![p] = 0]
    /\ arr' = [arr EXCEPT ![p] = NoArray]
    /\ item' = [item EXCEPT ![p] = NoItem]
    /\ UNCHANGED dqVars

\* Accesses of ebr_enter_worker, ebr_retire_array and the reclaim behind it.
Protect(p) ==
    /\ pc[p] # "idle"
    /\ \/ EnterAnnounce(p) \/ EnterActivate(p) \/ Retire(p) \/ AdvanceEpoch(p)
       \/ MinStart(p) \/ MinSkip(p) \/ MinSeeActive(p) \/ MinReadAnnounced(p)
       \/ Reclaim(p)
    /\ UNCHANGED <<dqVars, locals, pc, outside>>

\* a = dq->array, by any of the operations.
ReadArray(p, from, to) ==
    /\ Step(p, from, to)
    /\ LoadArray(p, 0)
    /\ arr' = [arr EXCEPT ![p] = cur[0]]
    /\ UNCHANGED <<dqVars, bot, tp, item, outside>>

ReadTop(p, from, to) ==
    /\ Step(p, from, to)
    /\ tp' = [tp EXCEPT ![p] = top]
    /\ UNCHANGED <<ebrVars, dqVars, bot, arr, item, outside>>
--------------------------------------------------------------------------------
(* deque_push *)

PushBegin(p) ==
    /\ p \in Pushers /\ bottom < MaxBottom
    /\ \E i \in outside :
        /\ outside' = outside \ {i}
        /\ item' = [item EXCEPT ![p] = i]
    /\ Begin(p, "pushBottom")

PushReadBottom(p) ==
    /\ Step(p, "pushBottom", "pushTop")
    /\ bot' = [bot EXCEPT ![p] = bottom]
    /\ UNCHANGED <<ebrVars, dqVars, tp, arr, item, outside>>

PushReadTop(p) == ReadTop(p, "pushTop", "pushArray")

\* Mutant: the deque grows one element too late.
FullTooLate(p, a) == bot[p] - tp[p] > cap[a]

\* (size_t)(bot - top) >= cap - 1: a negative size is a huge one.
Full(p, a) ==
    LET size == bot[p] - tp[p] IN size < 0 \/ size >= cap[a] - 1

PushReadArray(p) ==
    ReadArray(p, "pushArray", IF Full(p, cur[0]) THEN "pushGrow" ELSE "pushCell")

\* deque_grow: only pushers write cells, so the copy is one step.
PushGrow(p) ==
    LET old == arr[p]
        newCap == 2 * cap[old]
        \* position of [top, bot) that lands in cell c of the new array
        Copied(c) == {i \in tp[p] .. bot[p] - 1 : i % newCap = c}
    IN  /\ Step(p, "pushGrow", "pushReload")
        /\ \E fresh \in Arrays \ Used :
            /\ Publish(p, 0, old, fresh)
            /\ cap' = [cap EXCEPT ![fresh] = newCap]
            /\ buf' = [buf EXCEPT ![fresh] =
                 [c \in 0 .. newCap - 1 |->
                    IF Copied(c) = {} THEN NoItem
                    ELSE At(old, CHOOSE i \in Copied(c) : TRUE)]]
        /\ UNCHANGED <<top, bottom, locals, outside>>

PushReload(p) == ReadArray(p, "pushReload", "pushCell")

PushWriteCell(p) ==
    /\ Step(p, "pushCell", "pushPublish")
    /\ buf' = [buf EXCEPT ![arr[p]][Cell(arr[p], bot[p])] = item[p]]
    /\ UNCHANGED <<ebrVars, top, bottom, cap, locals, outside>>

PushPublish(p) ==
    /\ Step(p, "pushPublish", "exit")
    /\ bottom' = bot[p] + 1
    /\ item' = [item EXCEPT ![p] = NoItem]
    /\ UNCHANGED <<ebrVars, top, cap, buf, bot, tp, arr, outside>>

Push(p) ==
    \/ PushBegin(p) \/ PushReadBottom(p) \/ PushReadTop(p) \/ PushReadArray(p)
    \/ PushGrow(p) \/ PushReload(p) \/ PushWriteCell(p) \/ PushPublish(p)
--------------------------------------------------------------------------------
(* deque_pop, by the owner *)

PopBegin(p) ==
    /\ p = Owner
    /\ Begin(p, "popBottom")
    /\ UNCHANGED <<item, outside>>

PopReadBottom(p) ==
    /\ Step(p, "popBottom", "popArray")
    /\ bot' = [bot EXCEPT ![p] = bottom - 1]
    /\ UNCHANGED <<ebrVars, dqVars, tp, arr, item, outside>>

PopReadArray(p) == ReadArray(p, "popArray", "popStore")

PopStoreBottom(p) ==
    /\ Step(p, "popStore", "popTop")
    /\ bottom' = bot[p]
    /\ UNCHANGED <<ebrVars, top, cap, buf, locals, outside>>

PopReadTop(p) ==
    ReadTop(p, "popTop", IF top > bot[p] THEN "popRestore" ELSE "popCell")

PopReadCell(p) ==
    /\ Step(p, "popCell", IF tp[p] = bot[p] THEN "popCas" ELSE "exit")
    /\ item' = [item EXCEPT ![p] = At(arr[p], bot[p])]
    /\ UNCHANGED <<ebrVars, dqVars, bot, tp, arr, outside>>

\* Mutant: a plain increment for the compare_exchange.
IncrementTop(p) == top' = top + 1 /\ UNCHANGED item

\* compare_exchange on top, by pop and steal: who loses it returns NULL.
CasTop(p) ==
    IF top = tp[p]
    THEN top' = top + 1 /\ UNCHANGED item
    ELSE item' = [item EXCEPT ![p] = NoItem] /\ UNCHANGED top

PopCas(p) ==
    /\ Step(p, "popCas", "popRestore")
    /\ CasTop(p)
    /\ UNCHANGED <<ebrVars, bottom, cap, buf, bot, tp, arr, outside>>

PopRestoreBottom(p) ==
    /\ Step(p, "popRestore", "exit")
    /\ bottom' = bot[p] + 1
    /\ UNCHANGED <<ebrVars, top, cap, buf, locals, outside>>

Pop(p) ==
    \/ PopBegin(p) \/ PopReadBottom(p) \/ PopReadArray(p) \/ PopStoreBottom(p)
    \/ PopReadTop(p) \/ PopReadCell(p) \/ PopCas(p) \/ PopRestoreBottom(p)
--------------------------------------------------------------------------------
(* deque_steal, by another worker *)

StealBegin(p) ==
    /\ p \in Thieves
    /\ Begin(p, "stealTop")
    /\ UNCHANGED <<item, outside>>

StealReadTop(p) == ReadTop(p, "stealTop", "stealBottom")

StealReadBottom(p) ==
    /\ Step(p, "stealBottom", IF tp[p] >= bottom THEN "exit" ELSE "stealArray")
    /\ bot' = [bot EXCEPT ![p] = bottom]
    /\ UNCHANGED <<ebrVars, dqVars, tp, arr, item, outside>>

StealReadArray(p) == ReadArray(p, "stealArray", "stealCell")

StealReadCell(p) ==
    /\ Step(p, "stealCell", "stealCas")
    /\ item' = [item EXCEPT ![p] = At(arr[p], tp[p])]
    /\ UNCHANGED <<ebrVars, dqVars, bot, tp, arr, outside>>

StealCas(p) ==
    /\ Step(p, "stealCas", "exit")
    /\ CasTop(p)
    /\ UNCHANGED <<ebrVars, bottom, cap, buf, bot, tp, arr, outside>>

Steal(p) ==
    \/ StealBegin(p) \/ StealReadTop(p) \/ StealReadBottom(p)
    \/ StealReadArray(p) \/ StealReadCell(p) \/ StealCas(p)
--------------------------------------------------------------------------------
Next == \E p \in Slots : Push(p) \/ Pop(p) \/ Steal(p) \/ Protect(p) \/ End(p)

Spec == Init /\ [][Next]_vars
--------------------------------------------------------------------------------
(* Properties. *)

\* Indices, locals and cells hold values of their types; a cell holds a
\* coroutine or NULL, and every array has its capacity's worth of cells.
TypeOK ==
    /\ top \in Nat /\ bottom \in Int
    /\ cap \in [Arrays -> Nat]
    /\ \A a \in Arrays : buf[a] \in [0 .. cap[a] - 1 -> Items \cup {NoItem}]
    /\ bot \in [Slots -> Int] /\ tp \in [Slots -> Nat]
    /\ arr \in [Slots -> Arrays \cup {NoArray}]
    /\ item \in [Slots -> Items \cup {NoItem}]
    /\ outside \in SUBSET Items

\* The positions whose coroutines nobody has taken.  While the owner has
\* lowered bottom and not yet decided, position bot is still in the deque.
Undecided ==
    \/ pc[Owner] = "popTop"
    \/ pc[Owner] \in {"popCell", "popCas"} /\ tp[Owner] = bot[Owner]
Window == top .. (IF Undecided THEN bottom ELSE bottom - 1)

Pool == {At(cur[0], i) : i \in Window}

\* A pop decides when it reads top, if the item is not the last one.
Got(p) ==
    IF pc[p] = "popCell" /\ tp[p] < bot[p] THEN At(arr[p], bot[p])
    ELSE IF pc[p] \in {"popRestore", "exit"} THEN item[p]
    ELSE NoItem

Abstract == INSTANCE TaskPool WITH
    Takers <- Slots, Nothing <- NoItem, pool <- Pool, got <- [p \in Slots |-> Got(p)]

\* The deque is a pool (TaskPool) under every interleaving of the owner's push
\* and pop with steals and growth: no coroutine is lost, overwritten, or handed
\* to two workers.
IsTaskPool == Abstract!PoolSpec

\* The deque keeps the discipline the reclamation relies on: an array is
\* replaced only while it is still the deque's, and loaded only inside
\* ebr_enter_worker .. ebr_exit_worker.
KeepsReclamationDiscipline == EbrSpec

\* What sched_enqueue_wake's comment (scheduler.c:509-511) promises of a
\* coroutine pushed onto worker 0's deque by whichever thread: worker 0 is
\* guaranteed to see it.  When no operation is under way, every coroutine is
\* with its holder or between top and bottom.
PushedIsSeen ==
    (\A p \in Slots : pc[p] = "idle") =>
        \A i \in Items \ outside : i \in Pool
================================================================================
