---------------------------------- MODULE EBR ----------------------------------
(***************************************************************************)
(* Epoch-based reclamation of the work-stealing deques' backing arrays     *)
(* (runtime/scheduler.c).  Every deque operation runs between              *)
(* ebr_enter_worker and ebr_exit_worker of the calling thread's slot; when *)
(* deque_grow replaces an array, ebr_retire_array puts the old one on the  *)
(* slot's retired list, and a later reclaim frees it once no slot that     *)
(* could still hold a pointer to it is active.                             *)
(*                                                                         *)
(* Each atomic access of the C code is one action; accesses are            *)
(* sequentially consistent.  An array is identified for its whole life (an *)
(* address is never reused), so `freed` only grows.  A local variable that *)
(* the code will not read again is reset to 0.                             *)
(***************************************************************************)
EXTENDS Naturals, FiniteSets

CONSTANTS
    NumWorkers,         \* num_workers, 1 .. MAX_WORKERS
    Deques,             \* the deques whose arrays are reclaimed
    Arrays,             \* identities of DequeArray allocations
    InitArray,          \* deque_init: the first array of each deque
    NoArray,            \* the null DequeArray*
    ReclaimThreshold    \* EBR_RECLAIM_THRESHOLD (64)

ASSUME NumWorkersAssumption == NumWorkers \in Nat \ {0}
ASSUME ThresholdAssumption == ReclaimThreshold \in Nat \ {0}
ASSUME NoArrayAssumption == NoArray \notin Arrays
ASSUME InitArrayAssumption ==
    /\ InitArray \in [Deques -> Arrays]
    /\ \A d, e \in Deques : InitArray[d] = InitArray[e] => d = e

\* The worker slots and, after them, the one all other threads share.
External == NumWorkers
Slots == 0 .. NumWorkers

VARIABLES
    epoch,      \* ebr_global_epoch
    announced,  \* ebr_announced_epoch[]
    active,     \* ebr_active[]
    retired,    \* ebr_retired[]: the list of each slot, as a set of nodes
    cur,        \* dq->array of each deque
    freed,      \* arrays given back with ty_vm_free
    phase,      \* where each thread is in the reclamation code
    held,       \* array pointers loaded since the thread entered
    reg,        \* the epoch a thread read last: `epoch` / `min_epoch`
    limbo,      \* deque_grow's `old`, unlinked and not yet retired
    idx,        \* the slot ebr_min_active_epoch looks at
    list,       \* the slot whose list ebr_try_reclaim_worker walks
    mode,       \* running; drained: active_coros = 0; joined: workers joined
    forced      \* calls of ebr_force_reclaim_all so far

ebrVars == <<epoch, announced, active, retired, cur, freed, phase, held, reg,
             limbo, idx, list, mode, forced>>

\* The phases inside ebr_retire_array: deque_grow is under way.
RetirePhases == {"retire", "advance", "minStart", "minActive", "minAnnounced",
                 "reclaim"}
Phases == RetirePhases \cup {"out", "announce", "activate", "in", "force"}
Node == [array : Arrays, epoch : Nat]

Retired(p) == {n.array : n \in retired[p]}
\* Allocated arrays; the others have not been returned by deque_array_new yet.
Used == {cur[d] : d \in Deques} \cup freed \cup {limbo[p] : p \in Slots}
          \cup UNION {Retired(p) : p \in Slots}

EbrInit ==
    /\ epoch = 1
    /\ announced = [p \in Slots |-> 0]
    /\ active = [p \in Slots |-> FALSE]
    /\ retired = [p \in Slots |-> {}]
    /\ cur = InitArray
    /\ freed = {}
    /\ phase = [p \in Slots |-> "out"]
    /\ held = [p \in Slots |-> {}]
    /\ reg = [p \in Slots |-> 0]
    /\ limbo = [p \in Slots |-> NoArray]
    /\ idx = [p \in Slots |-> 0]
    /\ list = [p \in Slots |-> p]
    /\ mode = "running"
    /\ forced = 0

Goto(p, ph) == phase' = [phase EXCEPT ![p] = ph]
--------------------------------------------------------------------------------
(* ebr_enter_worker: three separate accesses, in this order. *)

\* Once active_coros is 0 nobody pushes and worker 0 has left its loop, so
\* only the other workers' loops still enter; after the join none does.
MayEnter(p) ==
    \/ mode = "running"
    \/ mode = "drained" /\ p \notin {0, External}

EnterReadEpoch(p) ==
    /\ phase[p] = "out"
    /\ MayEnter(p)
    /\ reg' = [reg EXCEPT ![p] = epoch]
    /\ Goto(p, "announce")
    /\ UNCHANGED <<epoch, announced, active, retired, cur, freed, held, limbo,
                   idx, list, mode, forced>>

EnterAnnounce(p) ==
    /\ phase[p] = "announce"
    /\ announced' = [announced EXCEPT ![p] = reg[p]]
    /\ reg' = [reg EXCEPT ![p] = 0]
    /\ Goto(p, "activate")
    /\ UNCHANGED <<epoch, active, retired, cur, freed, held, limbo, idx, list,
                   mode, forced>>

EnterActivate(p) ==
    /\ phase[p] = "activate"
    /\ active' = [active EXCEPT ![p] = TRUE]
    /\ Goto(p, "in")
    /\ UNCHANGED <<epoch, announced, retired, cur, freed, held, reg, limbo, idx,
                   list, mode, forced>>

(* The deque operation loads dq->array, perhaps more than once. *)
LoadArray(p, d) ==
    /\ phase[p] = "in"
    /\ held' = [held EXCEPT ![p] = @ \cup {cur[d]}]
    /\ UNCHANGED <<epoch, announced, active, retired, cur, freed, phase, reg,
                   limbo, idx, list, mode, forced>>

(* ebr_exit_worker; the operation's pointers die with it. *)
Exit(p) ==
    /\ phase[p] = "in"
    /\ active' = [active EXCEPT ![p] = FALSE]
    /\ held' = [held EXCEPT ![p] = {}]
    /\ Goto(p, "out")
    /\ UNCHANGED <<epoch, announced, retired, cur, freed, reg, limbo, idx, list,
                   mode, forced>>
--------------------------------------------------------------------------------
(* deque_grow: the new array is stored in the deque, then the old retired. *)

\* Mutant: the new array is retired in place of the old one.
PublishRetiringNew(p, d, old, fresh) ==
    /\ phase[p] = "in"
    /\ cur' = [cur EXCEPT ![d] = fresh]
    /\ limbo' = [limbo EXCEPT ![p] = fresh]
    /\ Goto(p, "retire")
    /\ UNCHANGED <<epoch, announced, active, retired, freed, held, reg, idx,
                   list, mode, forced>>

Publish(p, d, old, fresh) ==
    /\ phase[p] = "in"
    /\ cur' = [cur EXCEPT ![d] = fresh]
    /\ limbo' = [limbo EXCEPT ![p] = old]
    /\ Goto(p, "retire")
    /\ UNCHANGED <<epoch, announced, active, retired, freed, held, reg, idx,
                   list, mode, forced>>

\* One grower at a time per deque: what it loaded is still what it replaces.
Grow(p, d) ==
    /\ mode = "running"
    /\ cur[d] \in held[p]
    /\ \E fresh \in Arrays \ Used : Publish(p, d, cur[d], fresh)

\* Mutant: the pointer is cleared before the node is filled in.
RetireCleared(p) ==
    LET node == [array |-> NoArray, epoch |-> epoch] IN
    /\ phase[p] = "retire"
    /\ retired' = [retired EXCEPT ![p] = @ \cup {node}]
    /\ limbo' = [limbo EXCEPT ![p] = NoArray]
    /\ Goto(p, "in")
    /\ UNCHANGED <<epoch, announced, active, cur, freed, held, reg, idx, list,
                   mode, forced>>

\* ebr_retire_array; a list that reaches the threshold is walked at once.
Retire(p) ==
    LET node == [array |-> limbo[p], epoch |-> epoch] IN
    /\ phase[p] = "retire"
    /\ retired' = [retired EXCEPT ![p] = @ \cup {node}]
    /\ limbo' = [limbo EXCEPT ![p] = NoArray]
    /\ Goto(p, IF Cardinality(retired'[p]) >= ReclaimThreshold
               THEN "advance" ELSE "in")
    /\ UNCHANGED <<epoch, announced, active, cur, freed, held, reg, idx, list,
                   mode, forced>>

AdvanceEpoch(p) ==
    /\ phase[p] = "advance"
    /\ epoch' = epoch + 1
    /\ Goto(p, "minStart")
    /\ UNCHANGED <<announced, active, retired, cur, freed, held, reg, limbo, idx,
                   list, mode, forced>>

\* ebr_min_active_epoch: the global epoch, then every slot in index order.
MinStart(p) ==
    /\ phase[p] = "minStart"
    /\ reg' = [reg EXCEPT ![p] = epoch]
    /\ idx' = [idx EXCEPT ![p] = 0]
    /\ Goto(p, "minActive")
    /\ UNCHANGED <<epoch, announced, active, retired, cur, freed, held, limbo,
                   list, mode, forced>>

\* The slot scanned by p is done: look at the next one, if any.
NextSlot(p) ==
    /\ idx' = [idx EXCEPT ![p] = @ + 1]
    /\ Goto(p, IF idx[p] = External THEN "reclaim" ELSE "minActive")

MinSkip(p) ==
    /\ phase[p] = "minActive"
    /\ ~active[idx[p]]
    /\ NextSlot(p)
    /\ UNCHANGED <<epoch, announced, active, retired, cur, freed, held, reg,
                   limbo, list, mode, forced>>

MinSeeActive(p) ==
    /\ phase[p] = "minActive"
    /\ active[idx[p]]
    /\ Goto(p, "minAnnounced")
    /\ UNCHANGED <<epoch, announced, active, retired, cur, freed, held, reg,
                   limbo, idx, list, mode, forced>>

MinReadAnnounced(p) ==
    /\ phase[p] = "minAnnounced"
    /\ reg' = [reg EXCEPT ![p] =
                 IF announced[idx[p]] < @ THEN announced[idx[p]] ELSE @]
    /\ NextSlot(p)
    /\ UNCHANGED <<epoch, announced, active, retired, cur, freed, held, limbo,
                   list, mode, forced>>

\* Mutant: `<=` for `<`.
ExpiredTooSoon(p) == {n \in retired[list[p]] : n.epoch <= reg[p]}

\* ebr_try_reclaim_worker frees what was retired before the safe epoch.
Expired(p) == {n \in retired[list[p]] : n.epoch < reg[p]}

\* The list walked is p's own, except that worker 0's forced reclaim goes on
\* with the next slot's list until the external one.
Reclaim(p) ==
    /\ phase[p] = "reclaim"
    /\ freed' = freed \cup {n.array : n \in Expired(p)}
    /\ retired' = [retired EXCEPT ![list[p]] = @ \ Expired(p)]
    /\ \/ /\ mode = "running"
          /\ Goto(p, "in")
          /\ UNCHANGED list
       \/ /\ mode # "running"
          /\ list' = [list EXCEPT ![p] = IF @ = External THEN p ELSE @ + 1]
          /\ Goto(p, IF list[p] = External THEN "out" ELSE "minStart")
    /\ reg' = [reg EXCEPT ![p] = 0]
    /\ idx' = [idx EXCEPT ![p] = 0]
    /\ UNCHANGED <<epoch, announced, active, cur, held, limbo, mode, forced>>
--------------------------------------------------------------------------------
(* Shutdown. *)

\* active_coros reached 0: no coroutine is left to be pushed by anyone, and
\* worker 0 is back at the head of shutdown_sched_loop.
Drained ==
    /\ mode = "running"
    /\ \A p \in Slots : phase[p] \notin RetirePhases
    /\ phase[0] = "out" /\ phase[External] = "out"
    /\ mode' = "drained"
    /\ UNCHANGED <<epoch, announced, active, retired, cur, freed, phase, held,
                   reg, limbo, idx, list, forced>>

\* Mutant: shutdown goes on without joining the workers.
NotJoined ==
    /\ mode = "drained" /\ forced = 1 /\ phase[0] = "out"
    /\ mode' = "joined"
    /\ UNCHANGED <<epoch, announced, active, retired, cur, freed, phase, held,
                   reg, limbo, idx, list, forced>>

\* ty_thread_join of workers 1 .. num_workers - 1.
Joined ==
    /\ mode = "drained" /\ forced = 1
    /\ \A p \in Slots : phase[p] = "out"
    /\ mode' = "joined"
    /\ UNCHANGED <<epoch, announced, active, retired, cur, freed, phase, held,
                   reg, limbo, idx, list, forced>>

\* ebr_force_reclaim_all: by worker 0, when the drain loop ends and again
\* after the join.  It advances the epoch twice, the second time as any
\* reclaim does.
ForceReclaim ==
    /\ phase[0] = "out"
    /\ \/ mode = "drained" /\ forced = 0
       \/ mode = "joined" /\ forced = 1
    /\ forced' = forced + 1
    /\ epoch' = epoch + 1
    /\ Goto(0, "advance")
    /\ list' = [list EXCEPT ![0] = 0]
    /\ UNCHANGED <<announced, active, retired, cur, freed, held, reg, limbo, idx,
                   mode>>

EbrStep(p) ==
    \/ EnterReadEpoch(p) \/ EnterAnnounce(p) \/ EnterActivate(p) \/ Exit(p)
    \/ \E d \in Deques : LoadArray(p, d) \/ Grow(p, d)
    \/ Retire(p) \/ AdvanceEpoch(p)
    \/ MinStart(p) \/ MinSkip(p) \/ MinSeeActive(p) \/ MinReadAnnounced(p)
    \/ Reclaim(p)

EbrNext == (\E p \in Slots : EbrStep(p)) \/ Drained \/ Joined \/ ForceReclaim

EbrSpec == EbrInit /\ [][EbrNext]_ebrVars
--------------------------------------------------------------------------------
(* Properties. *)

\* Values of the right kind in every variable of the reclamation code.
EbrTypeOK ==
    /\ epoch \in Nat
    /\ announced \in [Slots -> Nat]
    /\ active \in [Slots -> BOOLEAN]
    /\ retired \in [Slots -> SUBSET Node]
    /\ cur \in [Deques -> Arrays]
    /\ freed \in SUBSET Arrays
    /\ phase \in [Slots -> Phases]
    /\ held \in [Slots -> SUBSET Arrays]
    /\ reg \in [Slots -> Nat]
    /\ limbo \in [Slots -> Arrays \cup {NoArray}]
    /\ idx \in [Slots -> 0 .. NumWorkers + 1]
    /\ list \in [Slots -> Slots]
    /\ mode \in {"running", "drained", "joined"}
    /\ forced \in 0 .. 2

\* Grace period: an array freed by ebr_try_reclaim_worker is one that no
\* thread still inside a deque operation has a pointer to.
NoUseAfterFree == \A p \in Slots : held[p] \cap freed = {}

\* An array awaits reclamation on one list only, once, unlinked from every
\* deque and not freed yet: no list walk frees an array twice or frees a live
\* one.
RetiredOnce ==
    /\ \A d \in Deques : cur[d] \notin freed
    /\ \A p \in Slots : \A n \in retired[p] :
        /\ n.array \notin freed
        /\ \A d \in Deques : cur[d] # n.array
        /\ \A q \in Slots : \A m \in retired[q] :
            m.array = n.array => p = q /\ m = n

\* The reclaim after the join leaves no retired array behind, in any list.
NothingLeaks ==
    (mode = "joined" /\ forced = 2 /\ phase[0] = "out") =>
        \A p \in Slots : retired[p] = {}
================================================================================
