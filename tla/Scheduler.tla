-------------------------------- MODULE Scheduler ------------------------------
(***************************************************************************)
(* The M:N scheduler (runtime/scheduler.c): workers, the coroutine state   *)
(* machine, spawn, yield, await, parking and waking, I/O wakeups from the  *)
(* poll thread, exit and the shutdown drain, driven as the emitted main()  *)
(* drives it: it calls the user's entry, which spawns a coroutine and      *)
(* returns, then ty_sched_shutdown.                                        *)
(*                                                                         *)
(* A deque is a sequence, its bottom at the end: push and pop work on the  *)
(* end, steal on the head, each in one step (module WSDeque looks inside   *)
(* them).  A coroutine's body is any finite sequence of the operations the *)
(* scenario has.  Once two workers run on one stack, or freed memory is accessed,   *)
(* C defines nothing more, and the model stops.                            *)
(***************************************************************************)
EXTENDS Integers, Sequences, FiniteSets

CONSTANTS
    MaxWorkers,     \* MAX_WORKERS
    Coros,          \* coroutines the program can create
    Main,           \* the coroutine the user's entry spawns
    NoCoro,         \* NULL
    Scenarios,      \* machines and programs: [workers : ..., ops : ...]
    MaxOps,         \* bound on the operations of one body
    LateAwait       \* whether a body awaits a child it has let run before

AllOps == {"spawn", "yield", "await", "park", "notify", "io", "spin"}

ASSUME SchedulerAssumption ==
    /\ MaxWorkers \in Nat \ {0} /\ MaxOps \in Nat
    /\ Main \in Coros /\ NoCoro \notin Coros
    /\ Scenarios \subseteq [workers : 1 .. MaxWorkers, ops : SUBSET AllOps]
    /\ LateAwait \in BOOLEAN

\* A machine with fewer cores has fewer worker threads; the deques of the
\* others are empty for ever.
Workers == 0 .. MaxWorkers - 1

VARIABLES
    scenario,   \* num_workers, and what the program's coroutine bodies do
    flag,       \* sched_shutdown_flag
    active,     \* active_coros
    deque,      \* workers[w].deque
    state,      \* co->state
    life,       \* memory of the coroutine: none, live or freed
    fnNull,     \* co->fn == NULL
    waiters,    \* co->waiters, most recent first
    handles,    \* children a coroutine can still await
    fresh,      \* of these, spawned since it was last resumed
    waitQ,      \* coroutines parked on a channel
    inflight,   \* coroutines with an I/O request under way
    left,       \* operations left in each body
    pc,         \* what each worker executes
    co,         \* the coroutine it executes, or has picked
    todo,       \* coroutines it is about to enqueue
    preempt,    \* w->preempt_flag
    invalid,    \* coro_invalid_logged: forbidden transitions attempted
    fault       \* abort: sched_abort; freed: freed memory was accessed

global == <<flag, active, deque, waitQ, inflight>>
coroVars == <<state, life, fnNull, waiters, handles, fresh, left>>
workerVars == <<pc, co, todo, preempt>>
vars == <<scenario, global, coroVars, workerVars, invalid, fault>>

States == {"runnable", "running", "blocked", "done"}
\* Mutant: the table lacks blocked -> runnable.
AllowedNoWake ==
    {<<"runnable", "runnable">>, <<"runnable", "running">>,
     <<"running", "runnable">>, <<"running", "blocked">>, <<"running", "done">>,
     <<"blocked", "blocked">>, <<"done", "done">>}

\* k_coro_transition_allowed
Allowed ==
    {<<"runnable", "runnable">>, <<"runnable", "running">>,
     <<"running", "runnable">>, <<"running", "blocked">>, <<"running", "done">>,
     <<"blocked", "runnable">>, <<"blocked", "blocked">>, <<"done", "done">>}

\* Worker code in which the coroutine co[w] is on the CPU.
CodePcs == {"code", "spawnPush", "yieldPush", "ioBlock", "wake", "exitTake",
            "exitWake", "swap", "spin"}
SchedPcs == {"loop", "empty", "steal", "drain", "drainSteal", "resume", "post",
             "free", "exited"}
MainPcs == {"init", "spawnMain", "setFlag", "join", "finished"}

Init ==
    /\ scenario \in Scenarios
    /\ flag = FALSE /\ active = 0
    /\ deque = [w \in Workers |-> <<>>]
    /\ state = [c \in Coros |-> "runnable"]
    /\ life = [c \in Coros |-> "none"]
    /\ fnNull = [c \in Coros |-> FALSE]
    /\ waiters = [c \in Coros |-> <<>>]
    /\ handles = [c \in Coros |-> {}]
    /\ fresh = [c \in Coros |-> {}]
    /\ waitQ = {} /\ inflight = {}
    /\ left = [c \in Coros |-> MaxOps]
    /\ pc = [w \in Workers |->
              IF w = 0 THEN "init"
              ELSE IF w < scenario.workers THEN "loop" ELSE "exited"]
    /\ co = [w \in Workers |-> NoCoro]
    /\ todo = [w \in Workers |-> <<>>]
    /\ preempt = [w \in Workers |-> FALSE]
    /\ invalid = {} /\ fault = "none"

\* A coroutine's stack and arena are used by one worker at a time: "Each
\* coroutine owns one SlabArena (task-local); cross-thread allocation never
\* occurs." (scheduler.h:13-14).  Otherwise the behaviour is undefined.
OneRunner ==
    \A v, w \in Workers :
        pc[v] \in CodePcs /\ pc[w] \in CodePcs /\ co[v] = co[w] => v = w
Defined == OneRunner /\ fault = "none"
Running == Defined /\ UNCHANGED scenario

Goto(w, to) == pc' = [pc EXCEPT ![w] = to]
At(w, from) == pc[w] = from
PushTo(w, c) == deque' = [deque EXCEPT ![w] = Append(@, c)]
Front(q) == SubSeq(q, 1, Len(q) - 1)

\* coro_state_store: a forbidden transition is reported, not performed, and
\* leaving `done` aborts.
Store(c, to) ==
    LET from == state[c] IN
    IF life[c] = "freed"
    THEN fault' = "freed" /\ UNCHANGED <<state, invalid>>
    ELSE IF <<from, to>> \in Allowed
    THEN state' = [state EXCEPT ![c] = to] /\ UNCHANGED <<invalid, fault>>
    ELSE /\ invalid' = invalid \cup {<<from, to>>}
         /\ fault' = IF from = "done" THEN "abort" ELSE fault
         /\ UNCHANGED state
--------------------------------------------------------------------------------
(* The emitted main(): ty_sched_init has run; the user's entry, called on   *)
(* the thread of worker 0, spawns one coroutine, which spawns the others.   *)

Create(c) ==
    /\ life[c] = "none"
    /\ life' = [life EXCEPT ![c] = "live"]
    /\ active' = active + 1

MainSpawn ==
    /\ At(0, "init")
    /\ Create(Main)
    /\ Goto(0, "spawnMain")
    /\ UNCHANGED <<flag, deque, waitQ, inflight, state, fnNull, waiters, handles,
                   fresh, left, co, todo, preempt, invalid, fault>>

MainEnqueue ==
    /\ At(0, "spawnMain")
    /\ PushTo(0, Main)
    /\ Goto(0, "setFlag")
    /\ UNCHANGED <<flag, active, waitQ, inflight, coroVars, co, todo, preempt,
                   invalid, fault>>

SetFlag ==
    /\ At(0, "setFlag")
    /\ flag' = TRUE
    /\ Goto(0, "loop")
    /\ UNCHANGED <<active, deque, waitQ, inflight, coroVars, co, todo, preempt,
                   invalid, fault>>

\* Mutant: the drain ends when worker 0 has nothing to do.
DrainUntilIdle ==
    /\ At(0, "loop")
    /\ Goto(0, IF deque[0] # <<>> THEN "drain" ELSE "join")
    /\ UNCHANGED <<global, coroVars, co, todo, preempt, invalid, fault>>

\* shutdown_sched_loop, on worker 0.
DrainCheck ==
    /\ At(0, "loop")
    /\ Goto(0, IF active > 0 THEN "drain" ELSE "join")
    /\ UNCHANGED <<global, coroVars, co, todo, preempt, invalid, fault>>

Pick(w, v, c, q) ==
    /\ deque' = [deque EXCEPT ![v] = q]
    /\ co' = [co EXCEPT ![w] = c]
    /\ Goto(w, "resume")
    /\ UNCHANGED <<flag, active, waitQ, inflight, coroVars, todo, preempt,
                   invalid, fault>>
PopOwn(w) ==
    /\ deque[w] # <<>>
    /\ Pick(w, w, deque[w][Len(deque[w])], Front(deque[w]))

StealFrom(w, v) ==
    /\ deque[v] # <<>>
    /\ Pick(w, v, Head(deque[v]), Tail(deque[v]))
FindsNothing(w, to) ==
    /\ Goto(w, to)
    /\ UNCHANGED <<global, coroVars, co, todo, preempt, invalid, fault>>

Drain ==
    \/ At(0, "drain") /\ PopOwn(0)
    \/ At(0, "drain") /\ deque[0] = <<>> /\ FindsNothing(0, "drainSteal")

\* The lowest-numbered worker with anything to steal.
DrainSteal ==
    /\ At(0, "drainSteal")
    /\ \/ \E v \in Workers \ {0} :
            /\ \A u \in 1 .. v - 1 : deque[u] = <<>>
            /\ StealFrom(0, v)
       \/ /\ \A v \in Workers \ {0} : deque[v] = <<>>
          /\ FindsNothing(0, "loop")

Join ==
    /\ At(0, "join")
    /\ \A w \in Workers \ {0} : pc[w] = "exited"
    /\ FindsNothing(0, "finished")
--------------------------------------------------------------------------------
(* worker_sched_loop, on the other workers. *)

LoopPop(w) ==
    /\ w # 0 /\ At(w, "loop")
    /\ \/ PopOwn(w)
       \/ deque[w] = <<>> /\ FindsNothing(w, "empty")

LoopEmpty(w) ==
    /\ At(w, "empty")
    /\ FindsNothing(w, IF flag THEN "exited" ELSE "steal")

\* STEAL_RETRIES random victims: it may miss the one that has work.
LoopSteal(w) ==
    /\ At(w, "steal")
    /\ \/ \E v \in Workers \ {w} : StealFrom(w, v)
       \/ FindsNothing(w, "loop")
--------------------------------------------------------------------------------
(* worker_resume_coro: before the swap in, and after the swap back. *)

Resume(w) ==
    /\ At(w, "resume")
    /\ Store(co[w], "running")
    /\ fresh' = [fresh EXCEPT ![co[w]] = {}]
    /\ Goto(w, "code")
    /\ UNCHANGED <<global, life, fnNull, waiters, handles, left, co, todo,
                   preempt>>

SwapOut(w) ==
    /\ At(w, "swap")
    /\ Goto(w, "post")
    /\ UNCHANGED <<global, coroVars, co, todo, preempt, invalid, fault>>

\* `if (co->fn == NULL) coro_free(co)`: the coroutine may be elsewhere by now.
Loop(w) == /\ Goto(w, "loop")
           /\ co' = [co EXCEPT ![w] = NoCoro]
           /\ preempt' = [preempt EXCEPT ![w] = FALSE]

CheckFn(w) ==
    /\ At(w, "post")
    /\ fault' = IF life[co[w]] = "freed" THEN "freed" ELSE fault
    /\ IF fnNull[co[w]] THEN Goto(w, "free") /\ UNCHANGED <<co, preempt>>
       ELSE Loop(w)
    /\ UNCHANGED <<global, coroVars, todo, invalid>>

\* coro_free, which unmaps the stack another worker may be on by now.
InUse(c) == \E v \in Workers : co[v] = c /\ pc[v] \in CodePcs

Free(w) ==
    /\ At(w, "free")
    /\ active' = active - 1
    /\ fault' = IF life[co[w]] = "freed" \/ InUse(co[w]) THEN "freed" ELSE fault
    /\ life' = [life EXCEPT ![co[w]] = "freed"]
    /\ Loop(w)
    /\ UNCHANGED <<flag, deque, waitQ, inflight, state, fnNull, waiters, handles,
                   fresh, left, todo, invalid>>
--------------------------------------------------------------------------------
(* Operations of a running coroutine's body. *)

Does(w, op) ==
    /\ At(w, "code") /\ op \in scenario.ops /\ left[co[w]] > 0
    /\ left' = [left EXCEPT ![co[w]] = @ - 1]

\* ty_spawn: coro_new, then sched_enqueue.
Spawn(w) ==
    /\ Does(w, "spawn")
    /\ \E c \in Coros \ {Main} :
        /\ Create(c)
        /\ handles' = [handles EXCEPT ![co[w]] = @ \cup {c}]
        /\ fresh' = [fresh EXCEPT ![co[w]] = @ \cup {c}]
        /\ todo' = [todo EXCEPT ![w] = <<c>>]
    /\ Goto(w, "spawnPush")
    /\ UNCHANGED <<flag, deque, waitQ, inflight, state, fnNull, waiters, co,
                   preempt, invalid, fault>>

\* During shutdown onto worker 0's deque, from whichever worker.
SpawnPush(w) ==
    LET c == Head(todo[w]) IN
    /\ At(w, "spawnPush")
    /\ Store(c, "runnable")
    /\ PushTo(IF flag THEN 0 ELSE w, c)
    /\ todo' = [todo EXCEPT ![w] = <<>>]
    /\ Goto(w, "code")
    /\ UNCHANGED <<flag, active, waitQ, inflight, life, fnNull, waiters, handles,
                   fresh, left, co, preempt>>

\* ty_yield: coro_state_cas; the push comes before the swap.
Yield(w) ==
    LET c == co[w] IN
    /\ Does(w, "yield")
    /\ IF state[c] = "running"
       THEN /\ state' = [state EXCEPT ![c] = "runnable"]
            /\ Goto(w, "yieldPush")
            /\ UNCHANGED <<invalid, fault>>
       ELSE /\ Goto(w, "swap")
            /\ invalid' = invalid \cup ({<<state[c], "runnable">>} \ Allowed)
            /\ fault' = IF state[c] = "done" THEN "abort" ELSE fault
            /\ UNCHANGED state
    /\ UNCHANGED <<global, life, fnNull, waiters, handles, fresh, co, todo,
                   preempt>>

YieldPush(w) ==
    /\ At(w, "yieldPush")
    /\ PushTo(w, co[w])
    /\ Goto(w, "swap")
    /\ UNCHANGED <<flag, active, waitQ, inflight, coroVars, co, todo, preempt,
                   invalid, fault>>

\* Mutant: the child's state is not looked at under its lock.
AwaitUnchecked(w, t) ==
    /\ Does(w, "await")
    /\ t \in handles[co[w]] /\ (LateAwait \/ t \in fresh[co[w]])
    /\ handles' = [handles EXCEPT ![co[w]] = @ \ {t}]
    /\ waiters' = [waiters EXCEPT ![t] = <<co[w]>> \o @]
    /\ Store(co[w], "blocked")
    /\ Goto(w, "swap")
    /\ UNCHANGED <<global, life, fnNull, fresh, co, todo, preempt>>

\* ty_await on a child, under the child's waiters_lock.
Await(w, t) ==
    LET c == co[w] IN
    /\ Does(w, "await")
    /\ t \in handles[c] /\ (LateAwait \/ t \in fresh[c])
    /\ handles' = [handles EXCEPT ![c] = @ \ {t}]
    /\ IF life[t] = "freed"
       THEN fault' = "freed" /\ UNCHANGED <<pc, state, waiters, invalid>>
       ELSE IF state[t] = "done"
       THEN UNCHANGED <<pc, state, waiters, invalid, fault>>
       ELSE /\ waiters' = [waiters EXCEPT ![t] = <<c>> \o @]
            /\ Store(c, "blocked")
            /\ Goto(w, "swap")
    /\ UNCHANGED <<global, life, fnNull, fresh, co, todo, preempt>>

\* chan_park: on a wait list of a channel, under its lock.
Park(w) ==
    /\ Does(w, "park")
    /\ waitQ' = waitQ \cup {co[w]}
    /\ Store(co[w], "blocked")
    /\ Goto(w, "swap")
    /\ UNCHANGED <<flag, active, deque, inflight, life, fnNull, waiters, handles,
                   fresh, co, todo, preempt>>

\* Mutant: the parked coroutine is woken and left on the list.
NotifyKeeping(w) ==
    /\ Does(w, "notify")
    /\ \E r \in waitQ : todo' = [todo EXCEPT ![w] = <<r>>]
    /\ Goto(w, "wake")
    /\ UNCHANGED <<global, state, life, fnNull, waiters, handles, fresh, co,
                   preempt, invalid, fault>>

\* A channel operation that unlinks a parked coroutine and wakes it.
Notify(w) ==
    /\ Does(w, "notify")
    /\ \E r \in waitQ :
        /\ waitQ' = waitQ \ {r}
        /\ todo' = [todo EXCEPT ![w] = <<r>>]
    /\ Goto(w, "wake")
    /\ UNCHANGED <<flag, active, deque, inflight, state, life, fnNull, waiters,
                   handles, fresh, co, preempt, invalid, fault>>

\* Mutant: the coroutine is enqueued as it is.
EnqueueBlocked(w) ==
    /\ PushTo(0, Head(todo[w]))
    /\ todo' = [todo EXCEPT ![w] = Tail(@)]
    /\ UNCHANGED <<state, invalid, fault>>

\* sched_enqueue_wake of the next coroutine to wake.
EnqueueWake(w) ==
    /\ Store(Head(todo[w]), "runnable")
    /\ PushTo(0, Head(todo[w]))
    /\ todo' = [todo EXCEPT ![w] = Tail(@)]

Wake(w) ==
    /\ At(w, "wake")
    /\ EnqueueWake(w)
    /\ Goto(w, "code")
    /\ UNCHANGED <<flag, active, waitQ, inflight, life, fnNull, waiters, handles,
                   fresh, left, co, preempt>>

\* An I/O call: the request is submitted, then ty_coro_block_and_yield.
IoSubmit(w) ==
    /\ Does(w, "io")
    /\ inflight' = inflight \cup {co[w]}
    /\ Goto(w, "ioBlock")
    /\ UNCHANGED <<flag, active, deque, waitQ, state, life, fnNull, waiters,
                   handles, fresh, co, todo, preempt, invalid, fault>>

IoBlock(w) ==
    /\ At(w, "ioBlock")
    /\ Store(co[w], "blocked")
    /\ Goto(w, "swap")
    /\ UNCHANGED <<global, life, fnNull, waiters, handles, fresh, left, co, todo,
                   preempt>>

\* Mutant: a completion is delivered more than once.
IoCompleteAgain(c) ==
    /\ c \in inflight
    /\ PushTo(0, c)
    /\ UNCHANGED <<flag, active, waitQ, inflight, coroVars, workerVars, invalid,
                   fault>>

\* The poll thread: sched_enqueue_from_external leaves co->state alone.
IoComplete(c) ==
    /\ c \in inflight
    /\ inflight' = inflight \ {c}
    /\ PushTo(0, c)
    /\ UNCHANGED <<flag, active, waitQ, coroVars, workerVars, invalid, fault>>

\* A body that computes without end; the SIGPROF tick only sets a flag.
Spin(w) ==
    /\ Does(w, "spin")
    /\ Goto(w, "spin")
    /\ UNCHANGED <<global, state, life, fnNull, waiters, handles, fresh, co,
                   todo, preempt, invalid, fault>>

PreemptTick(w) ==
    /\ At(w, "spin") /\ ~preempt[w]
    /\ preempt' = [preempt EXCEPT ![w] = TRUE]
    /\ UNCHANGED <<global, coroVars, pc, co, todo, invalid, fault>>
--------------------------------------------------------------------------------
(* ty_coro_exit, called by the trampoline when the body returns. *)

\* Mutant: active_coros is decremented at the exit.
ExitUncounted(w) ==
    /\ At(w, "code")
    /\ active' = active - 1
    /\ Store(co[w], "done")
    /\ Goto(w, "exitTake")
    /\ UNCHANGED <<flag, deque, waitQ, inflight, life, fnNull, waiters, handles,
                   fresh, left, co, todo, preempt>>

ExitDone(w) ==
    /\ At(w, "code")
    /\ Store(co[w], "done")
    /\ Goto(w, "exitTake")
    /\ UNCHANGED <<global, life, fnNull, waiters, handles, fresh, left, co, todo,
                   preempt>>

\* Mutant: the waiters are dropped.
ExitAlone(w) ==
    /\ At(w, "exitTake")
    /\ waiters' = [waiters EXCEPT ![co[w]] = <<>>]
    /\ Goto(w, "exitWake")
    /\ UNCHANGED <<global, state, life, fnNull, handles, fresh, left, co, todo,
                   preempt, invalid, fault>>

\* Mutant: the walk over the waiters does not stop at the last.
ExitWalksPast(w) ==
    /\ At(w, "exitTake")
    /\ todo' = [todo EXCEPT ![w] = Append(waiters[co[w]], NoCoro)]
    /\ waiters' = [waiters EXCEPT ![co[w]] = <<>>]
    /\ Goto(w, "exitWake")
    /\ UNCHANGED <<global, state, life, fnNull, handles, fresh, left, co, preempt,
                   invalid, fault>>

ExitTake(w) ==
    /\ At(w, "exitTake")
    /\ todo' = [todo EXCEPT ![w] = waiters[co[w]]]
    /\ waiters' = [waiters EXCEPT ![co[w]] = <<>>]
    /\ Goto(w, "exitWake")
    /\ UNCHANGED <<global, state, life, fnNull, handles, fresh, left, co, preempt,
                   invalid, fault>>

ExitWake(w) ==
    /\ At(w, "exitWake") /\ todo[w] # <<>>
    /\ EnqueueWake(w)
    /\ UNCHANGED <<flag, active, waitQ, inflight, life, fnNull, waiters, handles,
                   fresh, left, pc, co, preempt>>

ExitSwap(w) ==
    /\ At(w, "exitWake") /\ todo[w] = <<>>
    /\ fnNull' = [fnNull EXCEPT ![co[w]] = TRUE]
    /\ Goto(w, "swap")
    /\ UNCHANGED <<global, state, life, waiters, handles, fresh, left, co, todo,
                   preempt, invalid, fault>>
--------------------------------------------------------------------------------
MainStep == MainSpawn \/ MainEnqueue \/ SetFlag \/ DrainCheck \/ Drain
            \/ DrainSteal \/ Join
BodyStep(w) ==
    \/ Spawn(w) \/ Yield(w) \/ (\E t \in Coros : Await(w, t)) \/ Park(w)
    \/ Notify(w) \/ IoSubmit(w) \/ Spin(w) \/ ExitDone(w)
RuntimeStep(w) ==
    \/ LoopPop(w) \/ LoopEmpty(w) \/ LoopSteal(w)
    \/ Resume(w) \/ SwapOut(w) \/ CheckFn(w) \/ Free(w)
    \/ SpawnPush(w) \/ YieldPush(w) \/ Wake(w) \/ IoBlock(w) \/ PreemptTick(w)
    \/ ExitTake(w) \/ ExitWake(w) \/ ExitSwap(w)
WorkerStep(w) == BodyStep(w) \/ RuntimeStep(w) \/ (w = 0 /\ MainStep)

Next ==
    /\ Running
    /\ (\E w \in Workers : WorkerStep(w)) \/ (\E c \in Coros : IoComplete(c))

Spec == Init /\ [][Next]_vars

\* Every OS thread runs, every body is finite (unless it spins), and the
\* kernel completes every request.
FairSpec ==
    /\ Spec
    /\ \A w \in Workers : WF_vars(Running /\ WorkerStep(w))
    /\ \A c \in Coros : WF_vars(Running /\ IoComplete(c))
--------------------------------------------------------------------------------
(* Properties. *)

\* Every variable of the scheduler holds a value of its kind.
TypeOK ==
    /\ scenario \in Scenarios
    /\ flag \in BOOLEAN /\ active \in Int
    /\ deque \in [Workers -> Seq(Coros)]
    /\ state \in [Coros -> States] /\ fnNull \in [Coros -> BOOLEAN]
    /\ life \in [Coros -> {"none", "live", "freed"}]
    /\ waiters \in [Coros -> Seq(Coros)]
    /\ handles \in [Coros -> SUBSET Coros] /\ fresh \in [Coros -> SUBSET Coros]
    /\ waitQ \subseteq Coros /\ inflight \subseteq Coros
    /\ left \in [Coros -> 0 .. MaxOps]
    /\ pc \in [Workers -> CodePcs \cup SchedPcs \cup MainPcs]
    /\ co \in [Workers -> Coros \cup {NoCoro}]
    /\ todo \in [Workers -> Seq(Coros)]
    /\ preempt \in [Workers -> BOOLEAN]
    /\ invalid \subseteq (States \X States) \ Allowed
    /\ fault \in {"none", "abort", "freed"}

Live == {c \in Coros : life[c] = "live"}

\* The drain loop neither gives up early nor leaves work behind: once worker 0
\* goes on to join the others, every coroutine has run to its end and been
\* freed, and no deque holds one (ty_sched_shutdown; race.md, A1 and A2).
DrainWaits ==
    pc[0] \in {"join", "finished"} =>
        Live = {} /\ \A w \in Workers : deque[w] = <<>>

\* active_coros, which decides when the drain loop may end, counts exactly the
\* coroutines not yet freed, parked and blocked ones included (race.md, A5: no
\* accounting drift).
ActiveCounts == active = Cardinality(Live)

Positions(q, c) == {i \in DOMAIN q : q[i] = c}

\* Where a coroutine is: on a CPU, in a deque, about to be enqueued, waiting
\* for a child, for a channel or for an I/O request.  A worker that has handed
\* its coroutine on, and has only to swap away from it, does not count.
Holds(w, c) ==
    /\ co[w] = c
    /\ pc[w] \in {"ioBlock", "swap", "post"} => fnNull[c]
Places(c) ==
    {<<"cpu", w, 0>> : w \in {v \in Workers : Holds(v, c)}}
    \cup (UNION {{<<"deque", w, i>> : i \in Positions(deque[w], c)} : w \in Workers})
    \cup (UNION {{<<"todo", w, i>> : i \in Positions(todo[w], c)} : w \in Workers})
    \cup (UNION {{<<t, 0, i>> : i \in Positions(waiters[t], c)} : t \in Coros})
    \cup {<<"channel", 0, 0>> : d \in waitQ \cap {c}}
    \cup {<<"io", 0, 0>> : d \in inflight \cap {c}}
    \cup {<<"main", 0, 0>> : d \in {Main} \cap {c} \cap
            (IF pc[0] = "spawnMain" THEN {Main} ELSE {})}

\* No coroutine is lost, and none is scheduled twice: at any moment a live one
\* is in exactly one place from which it goes on.  (Two workers that have one
\* coroutine in hand are the subject of OneRunner.)
OnePlace ==
    fault = "none" /\ (\A v, w \in Workers : co[v] = co[w] => v = w \/ co[v] = NoCoro)
        => \A c \in Live : Cardinality(Places(c)) = 1

\* co->state tells the truth about where the coroutine is: runnable in a
\* deque, running in its body, blocked on a wait list.
StateMatchesPlace ==
    /\ \A w \in Workers : \A i \in DOMAIN deque[w] :
        state[deque[w][i]] = "runnable"
    /\ \A w \in Workers : pc[w] = "code" => state[co[w]] = "running"
    /\ \A c \in waitQ : state[c] = "blocked"
    /\ \A t \in Coros : \A i \in DOMAIN waiters[t] :
        state[waiters[t][i]] = "blocked"

\* No lost wakeup in ty_await: once ty_coro_exit has taken the waiters of a
\* coroutine, no other is added to them.
NoLateWaiter ==
    \A t \in Coros :
        /\ state[t] = "done"
        /\ \A w \in Workers : ~(co[w] = t /\ pc[w] = "exitTake")
        => waiters[t] = <<>>

\* What the assertion in coro_report_invalid_transition (scheduler.c:261)
\* claims: nothing attempts a transition the table forbids.
NoInvalidTransition == invalid = {}

\* coro_free unmaps the control block and the stack, and co->ref counts nothing:
\* when it runs, no worker is on the stack, and no wait list, deque or request
\* leads to the coroutine any more, so that nothing accesses it afterwards.
NoFreedAccess == fault # "freed"

\* Every coroutine runs to its end, the drain loop ends, the workers are joined
\* and main() returns: ty_sched_shutdown "Drain runnable work until
\* active_coros==0" (race.md, A1).
Termination == <>(pc[0] = "finished")
================================================================================
