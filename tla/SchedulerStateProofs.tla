-------------------------- MODULE SchedulerStateProofs --------------------------
(***************************************************************************)
(* For any number of workers and coroutines, if no operation hands the     *)
(* running one on early (Separate): co->state tells where a coroutine is   *)
(* and no transition the table forbids is attempted, where there is no I/O *)
(* (its wakeups go past co->state); and no coroutine is lost, where none   *)
(* yields after I/O.                                                       *)
(***************************************************************************)
EXTENDS SchedulerProofs

NoIo == \A s \in Scenarios : "io" \notin s.ops

\* The state a coroutine has, by where it is.
QueueStates ==
    /\ \A w \in Workers : \A c \in Elems(deque[w]) : state[c] = "runnable"
    /\ \A t \in Coros : \A c \in Elems(waiters[t]) : state[c] = "blocked"
    /\ \A c \in waitQ : state[c] = "blocked"
    /\ \A c \in Coros : life[c] = "none" => state[c] = "runnable"
    /\ pc[0] = "spawnMain" => state[Main] = "runnable"
WorkerStates(w) ==
    /\ pc[w] \in {"resume", "yieldPush"} => state[co[w]] = "runnable"
    /\ pc[w] \in {"code", "spawnPush", "wake", "spin"} => state[co[w]] = "running"
    /\ pc[w] \in {"exitTake", "exitWake"} => state[co[w]] = "done"
    /\ pc[w] = "spawnPush" => \A c \in Elems(todo[w]) : state[c] = "runnable"
    /\ pc[w] \in {"wake", "exitWake"} => \A c \in Elems(todo[w]) : state[c] = "blocked"
    /\ pc[w] # "ioBlock"
StateInv ==
    /\ QueueStates
    /\ \A w \in Workers : WorkerStates(w)
    /\ inflight = {}
    /\ NoInvalidTransition
--------------------------------------------------------------------------------
\* The workers other than w, where the state of at most one coroutine changes, and
\* that is on the CPU of w, or about to be enqueued by it, or in no box.
LEMMA OthersStates ==
  ASSUME SchedInv, StateInv, NEW w \in Workers, OthersStay(w),
         \A v \in Workers \ {w} : todo'[v] = todo[v],
         NEW c \in Coros, c \in Box(CpuBox(w)) \cup Box(TodoBox(w)),
         \A d \in Coros \ {c} : state'[d] = state[d]
  PROVE  /\ \A v \in Workers \ {w} : WorkerStates(v)'
         /\ \A v \in Workers : c \notin Elems(deque[v])
         /\ \A t \in Coros : c \notin Elems(waiters[t])
         /\ c \notin waitQ /\ life[c] = "live" /\ ~(pc[0] = "spawnMain" /\ c = Main)
<1>1. PICK k \in {CpuBox(w), TodoBox(w)} : c \in Box(k)
  OBVIOUS
<1>2. k \in Boxes /\ life[c] = "live" /\ \A l \in Boxes : c \in Box(l) => l = k
  BY <1>1, BoxNames DEF SchedInv, Housed, Single
<1>3. /\ \A v \in Workers : c \notin Elems(deque[v])
      /\ \A t \in Coros : c \notin Elems(waiters[t])
      /\ c \notin waitQ /\ ~(pc[0] = "spawnMain" /\ c = Main)
  BY <1>1, <1>2, BoxNames, BoxContents, BoxesApart
<1>4. ASSUME NEW v \in Workers \ {w} PROVE WorkerStates(v)'
  <2>1. /\ pc'[v] = pc[v] /\ co'[v] = co[v] /\ todo'[v] = todo[v] /\ WorkerStates(v)
        /\ todo[v] \in Seq(Coros)
    BY DEF OthersStay, StateInv, SchedInv, TypeInv, TypeOK
  <2>2. c \notin Elems(todo[v]) /\ (OnCpu(v) => c # co[v])
    BY <1>1, <1>2, BoxNames, BoxContents, BoxesApart
  <2>3. Elems(todo[v]) \subseteq Coros /\ (pc[v] \in HandPcs => co[v] \in Coros)
    BY <2>1 DEF Elems, SchedInv, TypeInv, InHand
  <2>4. QED
    BY <2>1, <2>2, <2>3 DEF WorkerStates, OnCpu, HandPcs, CodePcs
<1>5. QED
  BY <1>2, <1>3, <1>4

\* All that is enqueued or waits consists of coroutines.
LEMMA QueuesOfCoros ==
  ASSUME TypeOK
  PROVE  /\ \A w \in Workers : Elems(deque[w]) \subseteq Coros /\ Elems(todo[w]) \subseteq Coros
         /\ \A t \in Coros : Elems(waiters[t]) \subseteq Coros
         /\ waitQ \subseteq Coros
  BY DEF TypeOK, Elems

\* Steps that leave every state and every queue as it is.
LEMMA SameStates ==
  ASSUME SchedInv, StateInv, NEW w \in Workers, OthersStay(w),
         UNCHANGED <<state, deque, waiters, waitQ, inflight, todo, invalid>>,
         \A c \in Coros : life'[c] = "none" => life[c] = "none",
         pc'[0] = "spawnMain" => state[Main] = "runnable",
         WorkerStates(w)'
  PROVE  StateInv'
<1>1. QueueStates'
  BY DEF StateInv, QueueStates
<1>2. \A v \in Workers \ {w} : WorkerStates(v)'
  BY DEF StateInv, WorkerStates, OthersStay
<1>3. QED
  BY <1>1, <1>2 DEF StateInv, NoInvalidTransition

\* The scheduler on its own: what it does between the operations.
LEMMA QuietStates ==
  ASSUME SchedInv, StateInv, NEW w \in Workers,
         \/ SwapOut(w) \/ CheckFn(w) \/ Free(w) \/ Spin(w) \/ PreemptTick(w) \/ ExitSwap(w)
         \/ LoopEmpty(w) \/ FindsNothing(w, "empty") \/ FindsNothing(w, "loop")
         \/ w = 0 /\ (MainSpawn \/ SetFlag \/ DrainCheck \/ Join
                      \/ FindsNothing(0, "drainSteal"))
  PROVE  StateInv'
<1>1. UNCHANGED <<state, deque, waiters, waitQ, inflight, todo, invalid>>
  BY DEF SwapOut, CheckFn, Free, Spin, PreemptTick, ExitSwap, LoopEmpty, FindsNothing,
     MainSpawn,
         SetFlag, DrainCheck, Join, Does, Loop, global, coroVars
<1>2. OthersStay(w)
  BY DEF SwapOut, CheckFn, Free, Spin, PreemptTick, ExitSwap, LoopEmpty, FindsNothing,
     MainSpawn,
         SetFlag, DrainCheck, Join, Loop, Goto, OthersStay, SchedInv, TypeInv, TypeOK
<1>3. \A c \in Coros : life'[c] = "none" => life[c] = "none"
  BY DEF SwapOut, CheckFn, Free, Spin, PreemptTick, ExitSwap, LoopEmpty, FindsNothing,
     MainSpawn,
         SetFlag, DrainCheck, Join, Create, coroVars, SchedInv, TypeInv, TypeOK
<1>4. CASE w = 0 /\ MainSpawn
  <2>1. pc'[0] = "spawnMain" /\ state[Main] = "runnable"
    BY <1>4, SchedulerAssumption
    DEF MainSpawn, Create, Goto, SchedInv, TypeInv, TypeOK, StateInv, QueueStates
  <2>2. WorkerStates(w)'
    BY <1>4, <2>1 DEF WorkerStates
  <2>3. QED
    BY <1>1, <1>2, <1>3, <2>1, <2>2, SameStates
<1>5. CASE Spin(w) \/ PreemptTick(w)
  <2>1. pc[w] \in {"code", "spin"} /\ pc'[w] = "spin" /\ co' = co
    BY <1>5 DEF Spin, PreemptTick, Does, At, Goto, SchedInv, TypeInv, TypeOK
  <2>2. WorkerStates(w)'
    BY <1>1, <2>1 DEF WorkerStates, StateInv
  <2>3. pc'[0] # "spawnMain" \/ pc[0] = "spawnMain"
    BY <1>2, <2>1, SchedulerAssumption DEF OthersStay, Workers
  <2>4. QED
    BY <1>1, <1>2, <1>3, <2>2, <2>3, SameStates DEF StateInv, QueueStates
<1>6. CASE ~(w = 0 /\ MainSpawn) /\ ~Spin(w) /\ ~PreemptTick(w)
  <2>1. pc'[w] \in {"post", "free", "swap", "loop", "exited", "steal", "empty", "drain", "join",
                    "drainSteal", "finished"}
    BY <1>6
    DEF SwapOut, CheckFn, Free, ExitSwap, LoopEmpty, FindsNothing, SetFlag, DrainCheck,
                Join, Loop, Goto, SchedInv, TypeInv, TypeOK
  <2>2. WorkerStates(w)'
    BY <2>1 DEF WorkerStates
  <2>3. pc'[0] # "spawnMain" \/ pc[0] = "spawnMain"
    BY <1>2, <2>1, SchedulerAssumption DEF OthersStay, Workers
  <2>4. QED
    BY <1>1, <1>2, <1>3, <2>2, <2>3, SameStates DEF StateInv, QueueStates
<1>7. QED
  BY <1>4, <1>5, <1>6

\* A step that moves a coroutine and changes its state with it.
LEMMA StoreAllowed ==
  ASSUME TypeOK, NEW c \in Coros, NEW to \in States, life[c] = "live", Store(c, to),
         <<state[c], to>> \in Allowed
  PROVE  /\ state'[c] = to /\ \A d \in Coros \ {c} : state'[d] = state[d]
         /\ invalid' = invalid
  BY DEF Store, TypeOK

\* It is enough to look at the queues that grow and at the worker.
LEMMA MovedStates ==
  ASSUME SchedInv, StateInv, NEW w \in Workers, OthersStay(w), UNCHANGED <<life, inflight>>,
         invalid' = invalid,
         \A v \in Workers \ {w} : todo'[v] = todo[v],
         NEW c \in Coros, c \in Box(CpuBox(w)) \cup Box(TodoBox(w)),
         \A d \in Coros \ {c} : state'[d] = state[d],
         \A v \in Workers : Elems(deque'[v]) \subseteq Elems(deque[v]) \cup {c},
         \A v \in Workers : c \in Elems(deque'[v]) => state'[c] = "runnable",
         \A t \in Coros : Elems(waiters'[t]) \subseteq Elems(waiters[t]) \cup {c},
         \A t \in Coros : c \in Elems(waiters'[t]) => state'[c] = "blocked",
         waitQ' \subseteq waitQ \cup {c}, c \in waitQ' => state'[c] = "blocked",
         pc'[w] # "spawnMain",
         WorkerStates(w)'
  PROVE  StateInv'
<1>1. /\ \A v \in Workers \ {w} : WorkerStates(v)'
      /\ life[c] = "live" /\ ~(pc[0] = "spawnMain" /\ c = Main)
  BY OthersStates
<1>2. 0 \in Workers /\ Main \in Coros /\ (pc'[0] = "spawnMain" => pc[0] = "spawnMain")
  BY SchedulerAssumption DEF OthersStay, Workers
<1>3. QueueStates'
  <2>1. ASSUME NEW v \in Workers, NEW d \in Elems(deque'[v]) PROVE state'[d] = "runnable"
    BY <2>1, QueuesOfCoros DEF StateInv, QueueStates, SchedInv, TypeInv
  <2>2. ASSUME NEW t \in Coros, NEW d \in Elems(waiters'[t]) PROVE state'[d] = "blocked"
    BY <2>2, QueuesOfCoros DEF StateInv, QueueStates, SchedInv, TypeInv
  <2>3. ASSUME NEW d \in waitQ' PROVE state'[d] = "blocked"
    BY <2>3, QueuesOfCoros DEF StateInv, QueueStates, SchedInv, TypeInv
  <2>4. \A d \in Coros : life'[d] = "none" => state'[d] = "runnable"
    BY <1>1 DEF StateInv, QueueStates
  <2>5. pc'[0] = "spawnMain" => state'[Main] = "runnable"
    BY <1>1, <1>2 DEF StateInv, QueueStates
  <2>6. QED
    BY <2>1, <2>2, <2>3, <2>4, <2>5 DEF QueueStates
<1>4. QED
  BY <1>1, <1>3 DEF StateInv, NoInvalidTransition

\* The coroutine in hand, while its worker is in its code.
LEMMA CoroInCode ==
  ASSUME SchedInv, NEW w \in Workers, pc[w] \in (CodePcs \ {"ioBlock", "swap"}) \cup {"resume"}
  PROVE  co[w] \in Coros /\ life[co[w]] = "live" /\ co[w] \in Box(CpuBox(w))
  BY BoxContents DEF SchedInv, TypeInv, InHand, Hands, HandPcs, CodePcs, OnCpu

\* Steps that change the state of the coroutine in hand, and move it on.
LEMMA CpuStates ==
  ASSUME SchedInv, StateInv, NEW w \in Workers,
         Resume(w) \/ ExitDone(w) \/ Park(w) \/ Yield(w) \/ YieldPush(w)
  PROVE  StateInv'
<1> DEFINE c == co[w]
<1>1. pc[w] \in {"resume", "code", "yieldPush"} /\ co' = co /\ UNCHANGED <<todo, waiters>>
  BY DEF Resume, ExitDone, Park, Yield, YieldPush, Does, At, coroVars
<1>2. c \in Coros /\ life[c] = "live" /\ c \in Box(CpuBox(w))
  <2>1. pc[w] \in (CodePcs \ {"ioBlock", "swap"}) \cup {"resume"}
    BY <1>1 DEF CodePcs
  <2>2. QED
    BY <2>1, CoroInCode
<1>3. OthersStay(w) /\ UNCHANGED <<life, inflight>>
  BY DEF Resume, ExitDone, Park, Yield, YieldPush, Goto, OthersStay, global, coroVars,
         SchedInv, TypeInv, TypeOK
<1>4. /\ \A v \in Workers : c \notin Elems(deque[v])
      /\ \A t \in Coros : c \notin Elems(waiters[t])
      /\ c \notin waitQ
  BY <1>2, BoxNames, BoxContents, BoxesApart DEF SchedInv, Housed, Single
<1>5. CASE Resume(w)
  <2>1. /\ state[c] = "runnable" /\ pc'[w] = "code" /\ Store(c, "running")
        /\ UNCHANGED <<deque, waitQ>>
    BY <1>5
    DEF Resume, At, Goto, global, StateInv, WorkerStates, SchedInv, TypeInv, TypeOK
  <2>2. /\ state'[c] = "running" /\ \A d \in Coros \ {c} : state'[d] = state[d]
        /\ invalid' = invalid
    BY <1>2, <2>1, StoreAllowed DEF SchedInv, TypeInv, States, Allowed
  <2>3. WorkerStates(w)'
    BY <1>1, <2>1, <2>2 DEF WorkerStates
  <2>4. QED
    BY <1>1, <1>2, <1>3, <1>4, <2>1, <2>2, <2>3, MovedStates
<1>6. CASE ExitDone(w)
  <2>1. /\ state[c] = "running" /\ pc'[w] = "exitTake" /\ Store(c, "done")
        /\ UNCHANGED <<deque, waitQ>>
    BY <1>6
    DEF ExitDone, At, Goto, global, StateInv, WorkerStates, SchedInv, TypeInv, TypeOK
  <2>2. /\ state'[c] = "done" /\ \A d \in Coros \ {c} : state'[d] = state[d]
        /\ invalid' = invalid
    BY <1>2, <2>1, StoreAllowed DEF SchedInv, TypeInv, States, Allowed
  <2>3. WorkerStates(w)'
    BY <1>1, <2>1, <2>2 DEF WorkerStates
  <2>4. QED
    BY <1>1, <1>2, <1>3, <1>4, <2>1, <2>2, <2>3, MovedStates
<1>7. CASE Park(w)
  <2>1. /\ state[c] = "running" /\ pc'[w] = "swap" /\ Store(c, "blocked")
        /\ deque' = deque /\ waitQ' = waitQ \cup {c}
    BY <1>7 DEF Park, Does, At, Goto, StateInv, WorkerStates, SchedInv, TypeInv, TypeOK
  <2>2. /\ state'[c] = "blocked" /\ \A d \in Coros \ {c} : state'[d] = state[d]
        /\ invalid' = invalid
    BY <1>2, <2>1, StoreAllowed DEF SchedInv, TypeInv, States, Allowed
  <2>3. WorkerStates(w)'
    BY <2>1 DEF WorkerStates
  <2>4. QED
    BY <1>1, <1>2, <1>3, <1>4, <2>1, <2>2, <2>3, MovedStates
<1>8. CASE Yield(w)
  <2>1. /\ state[c] = "running" /\ pc'[w] = "yieldPush"
        /\ state' = [state EXCEPT ![c] = "runnable"] /\ invalid' = invalid
        /\ UNCHANGED <<deque, waitQ>>
    BY <1>8
    DEF Yield, Does, At, Goto, global, StateInv, WorkerStates, SchedInv, TypeInv, TypeOK
  <2>2. state'[c] = "runnable" /\ \A d \in Coros \ {c} : state'[d] = state[d]
    BY <1>2, <2>1 DEF SchedInv, TypeInv, TypeOK
  <2>3. WorkerStates(w)'
    BY <1>1, <2>1, <2>2 DEF WorkerStates
  <2>4. QED
    BY <1>1, <1>2, <1>3, <1>4, <2>1, <2>2, <2>3, MovedStates
<1>9. CASE YieldPush(w)
  <2>1. /\ state[c] = "runnable" /\ pc'[w] = "swap" /\ PushTo(w, c)
        /\ UNCHANGED <<state, waitQ, invalid>>
    BY <1>9
    DEF YieldPush, At, Goto, coroVars, StateInv, WorkerStates, SchedInv, TypeInv, TypeOK
  <2>2. \A v \in Workers : Elems(deque'[v]) \subseteq Elems(deque[v]) \cup {c}
    BY <1>2, <2>1, ElemsAppend DEF PushTo, SchedInv, TypeInv, TypeOK
  <2>3. WorkerStates(w)'
    BY <2>1 DEF WorkerStates
  <2>4. QED
    BY <1>1, <1>2, <1>3, <1>4, <2>1, <2>2, <2>3, MovedStates
<1>10. QED
  BY <1>5, <1>6, <1>7, <1>8, <1>9

\* ty_await, on a child that has not been freed.
LEMMA AwaitStates ==
  ASSUME ~LateAwait, SchedInv, StateInv, NEW w \in Workers, NEW t \in Coros, Await(w, t)
  PROVE  StateInv'
<1> DEFINE c == co[w]
<1>1. /\ pc[w] = "code" /\ co' = co /\ state[c] = "running"
      /\ UNCHANGED <<todo, deque, waitQ, inflight, life>>
  BY DEF Await, Does, At, global, StateInv, WorkerStates
<1>2. c \in Coros /\ life[c] = "live" /\ c \in Box(CpuBox(w))
  BY <1>1, CoroInCode DEF CodePcs
<1>3. life[t] = "live"
  <2>1. "await" \in scenario.ops /\ t \in fresh[c]
    BY DEF Await, Does
  <2>2. w = 0
    BY <2>1, FirstAlone DEF Handover, WorkerStep, BodyStep
  <2>3. QED
    BY <1>1, <2>1, <2>2 DEF SchedInv, FreshLive, Handover, CodePcs
<1>4. CASE state[t] = "done"
  <2>1. UNCHANGED <<pc, state, waiters, invalid>>
    BY <1>3, <1>4 DEF Await
  <2>2. OthersStay(w) /\ WorkerStates(w)'
    BY <1>1, <2>1 DEF OthersStay, StateInv, WorkerStates
  <2>3. QED
    BY <1>1, <2>1, <2>2, SameStates DEF StateInv, QueueStates
<1>5. CASE state[t] # "done"
  <2>1. /\ waiters' = [waiters EXCEPT ![t] = <<c>> \o @] /\ Store(c, "blocked")
        /\ pc'[w] = "swap" /\ OthersStay(w)
    BY <1>1, <1>3, <1>5 DEF Await, Goto, OthersStay, SchedInv, TypeInv, TypeOK
  <2>2. /\ state'[c] = "blocked" /\ \A d \in Coros \ {c} : state'[d] = state[d]
        /\ invalid' = invalid
    BY <1>1, <1>2, <2>1, StoreAllowed DEF SchedInv, TypeInv, States, Allowed
  <2>3. \A u \in Coros : Elems(waiters'[u]) \subseteq Elems(waiters[u]) \cup {c}
    BY <1>2, <2>1, ElemsPrepend DEF SchedInv, TypeInv, TypeOK
  <2>4. /\ \A v \in Workers : c \notin Elems(deque[v])
        /\ c \notin waitQ
    BY <1>2, BoxNames, BoxContents, BoxesApart DEF SchedInv, Housed, Single
  <2>5. WorkerStates(w)'
    BY <2>1 DEF WorkerStates
  <2>6. QED
    BY <1>1, <1>2, <2>1, <2>2, <2>3, <2>4, <2>5, MovedStates
<1>6. QED
  BY <1>4, <1>5

\* A coroutine is enqueued: it is runnable there.
LEMMA WakeStates ==
  ASSUME SchedInv, StateInv, NEW w \in Workers, SpawnPush(w) \/ Wake(w) \/ ExitWake(w)
  PROVE  StateInv'
<1> DEFINE c == Head(todo[w])
<1>1. /\ OthersStay(w) /\ co' = co /\ todo[w] # <<>> /\ todo[w] \in Seq(Coros)
      /\ Distinct(todo[w]) /\ UNCHANGED <<waiters, waitQ, inflight, life>>
      /\ pc[w] \in {"spawnPush", "wake", "exitWake"} /\ Store(c, "runnable")
      /\ \A v \in Workers \ {w} : todo'[v] = todo[v]
  BY DEF SpawnPush, Wake, ExitWake, EnqueueWake, At, Goto, OthersStay, SchedInv, TypeInv,
         TypeOK, InHand, Queues
<1>2. c \in Coros /\ c \in Elems(todo[w]) /\ Elems(Tail(todo[w])) = Elems(todo[w]) \ {c}
  BY <1>1, ElemsTail
<1>3. /\ TodoBox(w) \in Boxes /\ c \in Box(TodoBox(w)) /\ life[c] = "live"
      /\ \A v \in Workers : c \notin Elems(deque[v])
      /\ \A t \in Coros : c \notin Elems(waiters[t])
      /\ c \notin waitQ
  BY <1>2, BoxNames, BoxContents, BoxesApart DEF SchedInv, Housed, Single
<1>4. state[c] \in {"runnable", "blocked"}
  BY <1>1, <1>2 DEF StateInv, WorkerStates
<1>5. /\ state'[c] = "runnable" /\ \A d \in Coros \ {c} : state'[d] = state[d]
      /\ invalid' = invalid
  BY <1>1, <1>2, <1>3, <1>4, StoreAllowed DEF SchedInv, TypeInv, States, Allowed
<1>6. \A v \in Workers : Elems(deque'[v]) \subseteq Elems(deque[v]) \cup {c}
  <2>1. PushTo(0, c) \/ PushTo(w, c)
    BY DEF SpawnPush, Wake, ExitWake, EnqueueWake, PushTo
  <2>2. deque \in [Workers -> Seq(Coros)]
    BY DEF SchedInv, TypeInv, TypeOK
  <2>3. ASSUME NEW v \in Workers
        PROVE  deque'[v] = deque[v] \/ deque'[v] = Append(deque[v], c)
    BY <2>1, <2>2 DEF PushTo
  <2>4. \A v \in Workers : Elems(Append(deque[v], c)) = Elems(deque[v]) \cup {c}
    BY <1>2, <2>2, ElemsAppend
  <2>5. QED
    BY <2>3, <2>4
<1>7. co[w] \in Coros /\ co[w] # c
  <2>1. co[w] \in Coros /\ co[w] \in Box(CpuBox(w)) /\ CpuBox(w) # TodoBox(w)
    BY <1>1, CoroInCode, BoxesApart DEF CodePcs
  <2>2. QED
    BY <1>3, <2>1, BoxNames DEF SchedInv, Housed, Single
<1>8. WorkerStates(w)'
  <2>1. CASE SpawnPush(w) \/ Wake(w)
    <3>1. pc[w] \in {"spawnPush", "wake"} /\ pc'[w] = "code"
      BY <2>1 DEF SpawnPush, Wake, At, Goto, SchedInv, TypeInv, TypeOK
    <3>2. QED
      BY <1>1, <1>5, <1>7, <3>1 DEF WorkerStates, StateInv
  <2>2. CASE ExitWake(w)
    <3>1. pc[w] = "exitWake" /\ pc'[w] = "exitWake" /\ todo'[w] = Tail(todo[w])
      BY <2>2 DEF ExitWake, EnqueueWake, At, SchedInv, TypeInv, TypeOK
    <3>2. \A d \in Elems(todo'[w]) : d \in Coros /\ state'[d] = "blocked"
      BY <1>2, <1>5, <3>1, QueuesOfCoros DEF WorkerStates, StateInv, SchedInv, TypeInv
    <3>3. QED
      BY <1>1, <1>5, <1>7, <3>1, <3>2 DEF WorkerStates, StateInv
  <2>3. QED
    BY <2>1, <2>2
<1>9. pc'[w] # "spawnMain"
  BY DEF SpawnPush, Wake, ExitWake, Goto, At, SchedInv, TypeInv, TypeOK
<1>10. QED
  BY <1>1, <1>2, <1>3, <1>5, <1>6, <1>8, <1>9, MovedStates

\* A worker picks a coroutine that is runnable.
LEMMA PickStates ==
  ASSUME SchedInv, StateInv, NEW w \in Workers, NEW v \in Workers,
         (v = w /\ PopOwn(w)) \/ StealFrom(w, v)
  PROVE  StateInv'
<1>1. /\ deque \in [Workers -> Seq(Coros)] /\ deque[v] # <<>> /\ Distinct(deque[v])
      /\ deque[v] \in Seq(Coros)
  BY DEF PopOwn, StealFrom, SchedInv, TypeInv, TypeOK, Queues
<1>2. PICK c, q : /\ Pick(w, v, c, q) /\ c \in Elems(deque[v])
                  /\ Elems(q) \subseteq Elems(deque[v])
  BY <1>1, ElemsFront, ElemsTail DEF PopOwn, StealFrom
<1>3. /\ pc'[w] = "resume" /\ co'[w] = c /\ OthersStay(w)
      /\ \A u \in Workers : Elems(deque'[u]) \subseteq Elems(deque[u])
      /\ UNCHANGED <<state, life, waiters, waitQ, inflight, todo, invalid>>
  BY <1>1, <1>2 DEF Pick, Goto, OthersStay, coroVars, SchedInv, TypeInv, TypeOK
<1>4. pc'[0] = "spawnMain" => pc[0] = "spawnMain"
  BY <1>3, SchedulerAssumption DEF OthersStay, Workers
<1>5. QueueStates'
  BY <1>3, <1>4 DEF StateInv, QueueStates
<1>6. WorkerStates(w)'
  BY <1>2, <1>3 DEF WorkerStates, StateInv, QueueStates
<1>7. \A u \in Workers \ {w} : WorkerStates(u)'
  BY <1>3 DEF StateInv, WorkerStates, OthersStay
<1>8. QED
  BY <1>3, <1>5, <1>6, <1>7 DEF StateInv, NoInvalidTransition

\* main() enqueues the first coroutine, which is runnable.
LEMMA MainEnqueueStates ==
  ASSUME SchedInv, StateInv, MainEnqueue
  PROVE  StateInv'
<1>1. /\ 0 \in Workers /\ Main \in Coros /\ pc[0] = "spawnMain" /\ pc'[0] = "setFlag"
      /\ OthersStay(0) /\ PushTo(0, Main) /\ deque \in [Workers -> Seq(Coros)]
      /\ UNCHANGED <<state, life, waiters, waitQ, inflight, todo, invalid>>
  BY SchedulerAssumption
  DEF MainEnqueue, At, Goto, OthersStay, Workers, coroVars, SchedInv, TypeInv, TypeOK
<1>2. \A u \in Workers : Elems(deque'[u]) \subseteq Elems(deque[u]) \cup {Main}
  BY <1>1, ElemsAppend DEF PushTo
<1>3. QueueStates'
  BY <1>1, <1>2 DEF StateInv, QueueStates
<1>4. \A u \in Workers : WorkerStates(u)'
  BY <1>1 DEF StateInv, WorkerStates, OthersStay
<1>5. QED
  BY <1>1, <1>3, <1>4 DEF StateInv, NoInvalidTransition

\* Coroutines pass into the hands of a worker that will enqueue them.
LEMMA TodoStates ==
  ASSUME SchedInv, StateInv, NEW w \in Workers, Spawn(w) \/ Notify(w) \/ ExitTake(w)
  PROVE  StateInv'
<1>1. /\ OthersStay(w) /\ co' = co /\ UNCHANGED <<state, deque, inflight, invalid>>
      /\ \A v \in Workers \ {w} : todo'[v] = todo[v]
      /\ \A c \in Coros : life'[c] = "none" => life[c] = "none"
      /\ waitQ' \subseteq waitQ
      /\ pc'[w] \in {"spawnPush", "wake", "exitWake"}
      /\ co[w] \in Coros
  BY DEF Spawn, Notify, ExitTake, Does, Create, At, Goto, OthersStay, global, coroVars,
         SchedInv, TypeInv, TypeOK, InHand, HandPcs, CodePcs
<1>2. \A t \in Coros : Elems(waiters'[t]) \subseteq Elems(waiters[t])
  BY <1>1, ElemsOfNone DEF Spawn, Notify, ExitTake, SchedInv, TypeInv, TypeOK
<1>3. pc'[0] = "spawnMain" => pc[0] = "spawnMain"
  BY <1>1, SchedulerAssumption DEF OthersStay, Workers
<1>4. QueueStates'
  BY <1>1, <1>2, <1>3 DEF StateInv, QueueStates
<1>5. \A u \in Workers \ {w} : WorkerStates(u)'
  BY <1>1 DEF StateInv, WorkerStates, OthersStay
<1>6. WorkerStates(w)'
  <2>1. CASE Spawn(w)
    <3>1. PICK c \in Coros : life[c] = "none" /\ todo'[w] = <<c>>
      BY <2>1 DEF Spawn, Create, SchedInv, TypeInv, TypeOK
    <3>2. pc[w] = "code" /\ pc'[w] = "spawnPush"
      BY <2>1 DEF Spawn, Does, At, Goto, SchedInv, TypeInv, TypeOK
    <3>3. QED
      BY <1>1, <3>1, <3>2, ElemsOfOne DEF StateInv, QueueStates, WorkerStates
  <2>2. CASE Notify(w)
    <3>1. PICK r \in waitQ : r \in Coros /\ todo'[w] = <<r>>
      BY <2>2 DEF Notify, SchedInv, TypeInv, TypeOK
    <3>2. pc[w] = "code" /\ pc'[w] = "wake"
      BY <2>2 DEF Notify, Does, At, Goto, SchedInv, TypeInv, TypeOK
    <3>3. QED
      BY <1>1, <3>1, <3>2, ElemsOfOne DEF StateInv, QueueStates, WorkerStates
  <2>3. CASE ExitTake(w)
    <3>1. todo'[w] = waiters[co[w]] /\ pc[w] = "exitTake" /\ pc'[w] = "exitWake"
      BY <2>3 DEF ExitTake, At, Goto, SchedInv, TypeInv, TypeOK
    <3>2. QED
      BY <1>1, <3>1 DEF StateInv, QueueStates, WorkerStates
  <2>4. QED
    BY <2>1, <2>2, <2>3
<1>7. QED
  BY <1>1, <1>4, <1>5, <1>6 DEF StateInv, NoInvalidTransition
--------------------------------------------------------------------------------
\* Every step of a worker keeps the states true.
LEMMA StepStates ==
  ASSUME ~LateAwait, "io" \notin scenario.ops, SchedInv, StateInv, NEW w \in Workers,
         WorkerStep(w)
  PROVE  StateInv'
<1>1. CASE BodyStep(w)
  <2>1. ~IoSubmit(w)
    BY DEF IoSubmit, Does
  <2>2. QED
    BY <1>1, <2>1, TodoStates, CpuStates, AwaitStates, QuietStates DEF BodyStep
<1>2. CASE RuntimeStep(w)
  <2>1. CASE LoopPop(w)
    BY <2>1, PickStates, QuietStates DEF LoopPop
  <2>2. CASE LoopSteal(w)
    BY <2>2, PickStates, QuietStates DEF LoopSteal
  <2>3. ~IoBlock(w)
    BY DEF IoBlock, At, StateInv, WorkerStates
  <2>4. CASE \/ LoopEmpty(w) \/ SwapOut(w) \/ CheckFn(w) \/ Free(w) \/ PreemptTick(w)
             \/ ExitSwap(w)
    BY <2>4, QuietStates
  <2>5. CASE Resume(w) \/ YieldPush(w)
    BY <2>5, CpuStates
  <2>6. CASE SpawnPush(w) \/ Wake(w) \/ ExitWake(w) \/ ExitTake(w)
    BY <2>6, WakeStates, TodoStates
  <2>7. QED
    BY <1>2, <2>1, <2>2, <2>3, <2>4, <2>5, <2>6 DEF RuntimeStep
<1>3. CASE w = 0 /\ MainStep
  <2>1. CASE MainSpawn \/ SetFlag \/ DrainCheck \/ Join
    BY <1>3, <2>1, QuietStates
  <2>2. CASE MainEnqueue
    BY <2>2, MainEnqueueStates
  <2>3. CASE Drain
    BY <1>3, <2>3, PickStates, QuietStates DEF Drain
  <2>4. CASE DrainSteal
    BY <1>3, <2>4, PickStates, QuietStates DEF DrainSteal
  <2>5. QED
    BY <1>3, <2>1, <2>2, <2>3, <2>4 DEF MainStep
<1>4. QED
  BY <1>1, <1>2, <1>3 DEF WorkerStep

\* At the start nothing is anywhere, and every coroutine is runnable.
LEMMA InitStates ==
  ASSUME Init
  PROVE  StateInv
<1>1. /\ \A w \in Workers : pc[w] \in {"init", "loop", "exited"}
      /\ pc[0] # "spawnMain"
  BY SchedulerAssumption DEF Init, Workers
<1>2. QueueStates
  BY <1>1, ElemsOfNone DEF Init, QueueStates
<1>3. \A w \in Workers : WorkerStates(w)
  BY <1>1 DEF WorkerStates
<1>4. QED
  BY <1>2, <1>3 DEF StateInv, NoInvalidTransition, Init

\* The states are true in every state of a scenario without I/O.
LEMMA StatesAlways ==
  ASSUME ~LateAwait, Separate
  PROVE  Spec => [](SchedInv /\ ("io" \notin scenario.ops => StateInv))
<1>1. Init => StateInv
  BY InitStates
<1>2. SchedInv /\ ("io" \notin scenario.ops => StateInv) /\ [Next]_vars
          => ("io" \notin scenario.ops => StateInv)'
  <2>1. SUFFICES ASSUME SchedInv, "io" \notin scenario.ops => StateInv, [Next]_vars,
                        "io" \notin scenario'.ops
                 PROVE  StateInv'
    OBVIOUS
  <2>2. scenario' = scenario /\ StateInv
    BY <2>1 DEF Next, Running, vars
  <2>3. CASE UNCHANGED vars
    <3>1. QueueStates' /\ \A w \in Workers : WorkerStates(w)'
      BY <2>2, <2>3
      DEF vars, global, coroVars, workerVars, StateInv, QueueStates, WorkerStates
    <3>2. QED
      BY <2>2, <2>3, <3>1 DEF vars, global, StateInv, NoInvalidTransition
  <2>4. ASSUME NEW c \in Coros, IoComplete(c) PROVE FALSE
    BY <2>2, <2>4 DEF IoComplete, StateInv
  <2>5. QED
    BY <2>1, <2>2, <2>3, <2>4, StepStates DEF Next
<1>3. QED
  BY <1>1, <1>2, SchedInvAlways, PTL DEF Spec

\* And so in every state, where no scenario has I/O.
LEMMA StateInvAlways ==
  ASSUME ~LateAwait, Separate, NoIo
  PROVE  Spec => [](SchedInv /\ StateInv)
<1>1. SchedInv /\ ("io" \notin scenario.ops => StateInv) => SchedInv /\ StateInv
  BY DEF NoIo, SchedInv, TypeInv, TypeOK
<1>2. QED
  BY <1>1, StatesAlways, PTL

\* co->state tells the truth about where every coroutine is.
THEOREM StatesTrue ==
  ASSUME ~LateAwait, Separate, NoIo
  PROVE  Spec => []StateMatchesPlace
<1>1. SchedInv /\ StateInv => StateMatchesPlace
  <2>1. SUFFICES ASSUME SchedInv, StateInv PROVE StateMatchesPlace
    OBVIOUS
  <2>2. QED
    BY <2>1 DEF StateMatchesPlace, StateInv, QueueStates, WorkerStates, Elems
<1>2. QED
  BY <1>1, StateInvAlways, PTL

\* Nothing attempts a transition the table of the scheduler forbids.
THEOREM TransitionsAllowed ==
  ASSUME ~LateAwait, Separate, NoIo
  PROVE  Spec => []NoInvalidTransition
<1>1. StateInv => NoInvalidTransition
  BY DEF StateInv
<1>2. QED
  BY <1>1, StateInvAlways, PTL
--------------------------------------------------------------------------------
(* No coroutine is lost. *)

\* Every live coroutine is somewhere.
Placed == \A c \in Live : \E k \in Boxes : c \in Box(k)

\* A worker with no coroutine in hand points at none, and the list of those it is about
\* to enqueue is empty unless it is enqueueing them.
Tidy ==
    \A w \in Workers :
        /\ pc[w] \notin HandPcs => co[w] = NoCoro
        /\ pc[w] \notin {"spawnPush", "wake", "exitWake"} => todo[w] = <<>>
        /\ pc[w] \in {"spawnPush", "wake"} => Tail(todo[w]) = <<>>

\* What is needed of co->state: ty_yield finds the coroutine running.
YieldsRun ==
    "yield" \in scenario.ops => \A w \in Workers : pc[w] = "code" => state[co[w]] = "running"
--------------------------------------------------------------------------------
\* It is enough to say of a step where those it moves are after it, and that it takes no
\* other out of a box.
LEMMA PlacedKept ==
  ASSUME TypeOK, Placed, NEW w \in Workers, OthersStay(w),
         \A d \in Coros : fnNull[d] => fnNull'[d],
         NEW moved \in SUBSET Coros,
         \A d \in Coros : life'[d] = "live" => life[d] = "live" \/ d \in moved,
         \A d \in moved : life'[d] = "live" => \E k \in Boxes : d \in Box(k)',
         OnCpu(w) => (OnCpu(w)' /\ co'[w] = co[w]) \/ co[w] \in moved,
         \A v \in Workers \ {w} : OnCpu(v) => co[v] \in Coros,
         \A v \in Workers : /\ Elems(deque[v]) \subseteq Elems(deque'[v]) \cup moved
                            /\ Elems(todo[v]) \subseteq Elems(todo'[v]) \cup moved,
         \A t \in Coros : Elems(waiters[t]) \subseteq Elems(waiters'[t]) \cup moved,
         waitQ \subseteq waitQ' \cup moved, inflight \subseteq inflight' \cup moved,
         pc[0] = "spawnMain" => pc'[0] = "spawnMain" \/ Main \in moved
  PROVE  Placed'
<1>1. SUFFICES ASSUME NEW d \in Coros, life'[d] = "live", d \notin moved
               PROVE  \E k \in Boxes : d \in Box(k)'
  <2>1. \A d \in Live' : \E k \in Boxes : d \in Box(k)'
    BY DEF Live
  <2>2. QED
    BY <2>1 DEF Placed
<1>2. PICK k \in Boxes : d \in Box(k)
  BY <1>1 DEF Placed, Live
<1>3. ASSUME NEW v \in Workers, k = CpuBox(v) PROVE d \in Box(k)'
  <2>1. OnCpu(v) /\ co[v] = d
    BY <1>2, <1>3, BoxContents
  <2>2. CASE v = w
    <3>1. OnCpu(w)' /\ co'[w] = d
      BY <1>1, <2>1, <2>2
    <3>2. QED
      BY <1>3, <2>2, <3>1, BoxContentsNext
  <2>3. CASE v # w
    <3>1. OnCpu(v)' /\ co'[v] = d
      BY <2>1, <2>3 DEF OthersStay, OnCpu
    <3>2. QED
      BY <1>3, <3>1, BoxContentsNext
  <2>4. QED
    BY <2>2, <2>3
<1>4. ASSUME NEW v \in Workers, k = DequeBox(v) \/ k = TodoBox(v) PROVE d \in Box(k)'
  BY <1>1, <1>2, <1>4, BoxContents, BoxContentsNext
<1>5. ASSUME NEW t \in Coros, k = WaitersBox(t) PROVE d \in Box(k)'
  BY <1>1, <1>2, <1>5, BoxContents, BoxContentsNext
<1>6. CASE k = ChannelBox \/ k = IoBox \/ k = MainBox
  BY <1>1, <1>2, <1>6, BoxContents, BoxContentsNext
<1>7. QED
  BY <1>3, <1>4, <1>5, <1>6, BoxNames

\* Steps that move nobody.
LEMMA QuietPlaced ==
  ASSUME SchedInv, Placed, YieldsRun, NEW w \in Workers,
         \/ Resume(w) \/ SwapOut(w) \/ CheckFn(w) \/ Spin(w) \/ PreemptTick(w) \/ Yield(w)
         \/ IoBlock(w) \/ ExitDone(w) \/ ExitSwap(w) \/ LoopEmpty(w)
         \/ /\ pc[w] \in {"loop", "steal", "drain", "drainSteal"}
            /\ \E to \in {"empty", "loop", "drainSteal"} : FindsNothing(w, to)
         \/ w = 0 /\ (SetFlag \/ DrainCheck \/ Join)
  PROVE  Placed'
<1>1. TypeOK /\ (pc[w] \in HandPcs => co[w] \in Coros)
  BY DEF SchedInv, TypeInv, InHand
<1>2. UNCHANGED <<deque, todo, waiters, waitQ, inflight, life>>
  BY DEF Resume, SwapOut, CheckFn, Spin, PreemptTick, Yield, IoBlock, ExitDone, ExitSwap,
         LoopEmpty, FindsNothing, SetFlag, DrainCheck, Join, Does, global, coroVars
<1>3. \A d \in Coros : fnNull[d] => fnNull'[d]
  BY <1>1
  DEF Resume, SwapOut, CheckFn, Spin, PreemptTick, Yield, IoBlock, ExitDone, ExitSwap,
      LoopEmpty, FindsNothing, SetFlag, DrainCheck, Join, Does, coroVars, TypeOK
<1>4. OthersStay(w)
  BY <1>1
  DEF Resume, SwapOut, CheckFn, Loop, Spin, PreemptTick, Yield, IoBlock, ExitDone,
      ExitSwap,
      LoopEmpty, FindsNothing, SetFlag, DrainCheck, Join, Goto, OthersStay, TypeOK
<1>5. OnCpu(w) => OnCpu(w)' /\ co'[w] = co[w]
  <2>1. CASE Resume(w) \/ SwapOut(w) \/ Spin(w) \/ PreemptTick(w) \/ IoBlock(w) \/ ExitDone(w)
    <3>1. /\ co' = co /\ fnNull' = fnNull
          /\ \/ pc[w] = "resume" /\ pc'[w] = "code"
             \/ pc[w] = "swap" /\ pc'[w] = "post"
             \/ pc[w] = "code" /\ pc'[w] \in {"spin", "exitTake"}
             \/ pc[w] = "spin" /\ pc'[w] = "spin"
             \/ pc[w] = "ioBlock"
      BY <1>1, <2>1
      DEF Resume, SwapOut, Spin, PreemptTick, IoBlock, ExitDone, Does, At, Goto,
          coroVars, TypeOK
    <3>2. QED
      BY <3>1 DEF OnCpu, HandPcs, CodePcs
  <2>2. CASE CheckFn(w)
    <3>1. pc[w] = "post" /\ (fnNull[co[w]] => pc'[w] = "free" /\ co' = co)
      BY <1>1, <2>2 DEF CheckFn, At, Goto, TypeOK
    <3>2. QED
      BY <3>1 DEF OnCpu, HandPcs, CodePcs
  <2>3. CASE Yield(w)
    <3>1. pc[w] = "code" /\ "yield" \in scenario.ops
      BY <2>3 DEF Yield, Does, At
    <3>2. pc'[w] = "yieldPush" /\ co' = co
      BY <1>1, <2>3, <3>1 DEF Yield, Goto, TypeOK, YieldsRun
    <3>3. QED
      BY <3>1, <3>2 DEF OnCpu, HandPcs, CodePcs
  <2>4. CASE ExitSwap(w)
    <3>1. /\ pc[w] = "exitWake" /\ co' = co /\ pc'[w] = "swap"
          /\ fnNull' = [fnNull EXCEPT ![co[w]] = TRUE]
      BY <1>1, <2>4 DEF ExitSwap, At, Goto, TypeOK
    <3>2. fnNull'[co[w]]
      BY <1>1, <3>1 DEF TypeOK, HandPcs, CodePcs
    <3>3. QED
      BY <3>1, <3>2 DEF OnCpu, HandPcs, CodePcs
  <2>5. CASE \/ LoopEmpty(w)
             \/ /\ pc[w] \in {"loop", "steal", "drain", "drainSteal"}
                /\ \E to \in {"empty", "loop", "drainSteal"} : FindsNothing(w, to)
             \/ w = 0 /\ (SetFlag \/ DrainCheck \/ Join)
    BY <2>5 DEF LoopEmpty, SetFlag, DrainCheck, Join, At, OnCpu, HandPcs, CodePcs
  <2>6. QED
    BY <2>1, <2>2, <2>3, <2>4, <2>5
<1>6. pc[0] = "spawnMain" => pc'[0] = "spawnMain"
  <2>1. pc[w] # "spawnMain"
    BY DEF Resume, SwapOut, CheckFn, Spin, PreemptTick, Yield, IoBlock, ExitDone,
       ExitSwap,
           LoopEmpty, SetFlag, DrainCheck, Join, Does, At
  <2>2. QED
    BY <1>4, <2>1, SchedulerAssumption DEF OthersStay, Workers
<1>7. \A v \in Workers \ {w} : OnCpu(v) => co[v] \in Coros
  BY DEF SchedInv, TypeInv, InHand, OnCpu
<1>8. \E moved \in SUBSET Coros : moved = {}
  OBVIOUS
<1>9. QED
  BY <1>1, <1>2, <1>3, <1>4, <1>5, <1>6, <1>7, <1>8, PlacedKept

\* Only one coroutine moves.
LEMMA OneMoves ==
  ASSUME SchedInv, Placed, NEW w \in Workers, OthersStay(w), UNCHANGED <<life, fnNull>>,
         NEW c \in Coros, NEW to \in Boxes, c \in Box(to)',
         OnCpu(w) => (OnCpu(w)' /\ co'[w] = co[w]) \/ co[w] = c,
         \A v \in Workers : Elems(deque[v]) \subseteq Elems(deque'[v]) \cup {c},
         \A v \in Workers : Elems(todo[v]) \subseteq Elems(todo'[v]) \cup {c},
         \A t \in Coros : Elems(waiters[t]) \subseteq Elems(waiters'[t]),
         waitQ \subseteq waitQ', inflight \subseteq inflight' \cup {c},
         pc[0] = "spawnMain" => pc'[0] = "spawnMain" \/ c = Main
  PROVE  Placed'
<1>1. PICK moved \in SUBSET Coros : moved = {c}
  OBVIOUS
<1>2. /\ \A d \in moved : life'[d] = "live" => \E k \in Boxes : d \in Box(k)'
      /\ OnCpu(w) => (OnCpu(w)' /\ co'[w] = co[w]) \/ co[w] \in moved
      /\ pc[0] = "spawnMain" => pc'[0] = "spawnMain" \/ Main \in moved
  BY <1>1
<1>3. /\ \A v \in Workers : /\ Elems(deque[v]) \subseteq Elems(deque'[v]) \cup moved
                            /\ Elems(todo[v]) \subseteq Elems(todo'[v]) \cup moved
      /\ \A t \in Coros : Elems(waiters[t]) \subseteq Elems(waiters'[t]) \cup moved
      /\ waitQ \subseteq waitQ' \cup moved /\ inflight \subseteq inflight' \cup moved
  BY <1>1
<1>4. TypeOK /\ \A v \in Workers \ {w} : OnCpu(v) => co[v] \in Coros
  BY DEF SchedInv, TypeInv, InHand, OnCpu
<1>5. QED
  BY <1>2, <1>3, <1>4, PlacedKept

\* A worker takes a coroutine out of a deque into its hand.
LEMMA PickPlaced ==
  ASSUME SchedInv, Placed, NEW w \in Workers, NEW v \in Workers,
         pc[w] \in {"loop", "steal", "drain", "drainSteal"},
         (v = w /\ PopOwn(w)) \/ StealFrom(w, v)
  PROVE  Placed'
<1>1. /\ TypeOK /\ deque[v] \in Seq(Coros) /\ deque[v] # <<>> /\ Distinct(deque[v])
  BY DEF PopOwn, StealFrom, SchedInv, TypeInv, TypeOK, Queues
<1>2. PICK c \in Coros, q \in Seq(Coros) :
         /\ Pick(w, v, c, q)
         /\ c \in Elems(deque[v]) /\ Elems(q) = Elems(deque[v]) \ {c}
  <2>1. CASE v = w /\ PopOwn(w)
    <3>1. deque[w][Len(deque[w])] \in Coros /\ Front(deque[w]) \in Seq(Coros)
      BY <1>1, <2>1 DEF Front
    <3>2. QED
      BY <1>1, <2>1, <3>1, ElemsFront DEF PopOwn
  <2>2. CASE StealFrom(w, v)
    <3>1. Head(deque[v]) \in Coros /\ Tail(deque[v]) \in Seq(Coros)
      BY <1>1
    <3>2. QED
      BY <1>1, <2>2, <3>1, ElemsTail DEF StealFrom
  <2>3. QED
    BY <2>1, <2>2
<1>3. /\ pc'[w] = "resume" /\ co'[w] = c /\ OthersStay(w) /\ deque'[v] = q
      /\ \A u \in Workers \ {v} : deque'[u] = deque[u]
      /\ UNCHANGED <<todo, waiters, waitQ, inflight, life, fnNull>>
  BY <1>1, <1>2 DEF Pick, Goto, OthersStay, coroVars, TypeOK
<1>4. c \in Box(CpuBox(w))' /\ CpuBox(w) \in Boxes
  BY <1>3, BoxContentsNext, BoxNames DEF OnCpu, HandPcs
<1>5. ~OnCpu(w)
  BY DEF OnCpu, HandPcs, CodePcs
<1>6. \A u \in Workers : Elems(deque[u]) \subseteq Elems(deque'[u]) \cup {c}
  BY <1>2, <1>3
<1>7. pc[0] = "spawnMain" => pc'[0] = "spawnMain"
  BY <1>3, SchedulerAssumption DEF OthersStay, Workers
<1>8. QED
  BY <1>3, <1>4, <1>5, <1>6, <1>7, OneMoves

\* A coroutine is put at the bottom of a deque.
LEMMA DequeGrows ==
  ASSUME TypeOK, NEW v \in Workers, NEW c \in Coros, PushTo(v, c)
  PROVE  /\ c \in Box(DequeBox(v))' /\ DequeBox(v) \in Boxes
         /\ \A u \in Workers : Elems(deque[u]) \subseteq Elems(deque'[u])
<1>1. deque \in [Workers -> Seq(Coros)] /\ deque' = [deque EXCEPT ![v] = Append(@, c)]
  BY DEF TypeOK, PushTo
<1>2. Elems(deque'[v]) = Elems(deque[v]) \cup {c}
  BY <1>1, ElemsAppend
<1>3. \A u \in Workers \ {v} : deque'[u] = deque[u]
  BY <1>1
<1>4. QED
  BY <1>2, <1>3, BoxNames, BoxContentsNext

\* A worker enqueues what it had spawned or taken off a wait list; nothing else was in
\* its list unless it goes on with that.
LEMMA WakePlaced ==
  ASSUME SchedInv, Placed, Tidy, NEW w \in Workers,
         SpawnPush(w) \/ Wake(w) \/ ExitWake(w)
  PROVE  Placed'
<1> DEFINE c == Head(todo[w])
<1>1. /\ TypeOK /\ todo[w] \in Seq(Coros) /\ todo[w] # <<>> /\ Distinct(todo[w])
      /\ pc[w] \in {"spawnPush", "wake", "exitWake"}
  BY DEF SpawnPush, Wake, ExitWake, At, SchedInv, TypeInv, TypeOK, InHand, Queues
<1>2. /\ OthersStay(w) /\ co' = co /\ UNCHANGED <<waiters, waitQ, inflight, life, fnNull>>
      /\ pc'[w] \in {"code", "exitWake"}
      /\ todo'[w] = Tail(todo[w]) /\ \A v \in Workers \ {w} : todo'[v] = todo[v]
  <2>1. CASE SpawnPush(w)
    <3>1. Tail(todo[w]) = <<>>
      BY <1>1, <2>1 DEF Tidy, SpawnPush, At
    <3>2. QED
      BY <1>1, <2>1, <3>1 DEF SpawnPush, Goto, OthersStay, TypeOK
  <2>2. CASE Wake(w) \/ ExitWake(w)
    BY <1>1, <2>2 DEF Wake, ExitWake, EnqueueWake, At, Goto, OthersStay, TypeOK
  <2>3. QED
    BY <2>1, <2>2
<1>3. /\ c \in Coros /\ Elems(Tail(todo[w])) = Elems(todo[w]) \ {c}
  BY <1>1, ElemsTail
<1>4. 0 \in Workers /\ \E v \in Workers : PushTo(v, c)
  BY SchedulerAssumption DEF SpawnPush, Wake, ExitWake, EnqueueWake, Workers
<1>5. PICK v \in Workers : /\ c \in Box(DequeBox(v))' /\ DequeBox(v) \in Boxes
                           /\ \A u \in Workers : Elems(deque[u]) \subseteq Elems(deque'[u])
  BY <1>1, <1>3, <1>4, DequeGrows
<1>6. OnCpu(w)' /\ (pc[0] = "spawnMain" => pc'[0] = "spawnMain")
  BY <1>1, <1>2, <1>4 DEF OnCpu, HandPcs, CodePcs, OthersStay
<1>7. \A u \in Workers : Elems(todo[u]) \subseteq Elems(todo'[u]) \cup {c}
  BY <1>2, <1>3
<1>8. QED
  BY <1>2, <1>3, <1>5, <1>6, <1>7, OneMoves

\* main() enqueues the entry's coroutine, and ty_yield the running one.
LEMMA PushPlaced ==
  ASSUME SchedInv, Placed, NEW w \in Workers, (w = 0 /\ MainEnqueue) \/ YieldPush(w)
  PROVE  Placed'
<1>1. /\ TypeOK /\ OthersStay(w) /\ pc[w] \in {"spawnMain", "yieldPush"} /\ co' = co
      /\ UNCHANGED <<todo, waiters, waitQ, inflight, life, fnNull>>
  BY DEF MainEnqueue, YieldPush, At, Goto, OthersStay, coroVars, SchedInv, TypeInv, TypeOK
<1>2. PICK c \in Coros : /\ PushTo(w, c)
                         /\ pc[w] = "spawnMain" => c = Main
                         /\ pc[w] = "yieldPush" => c = co[w]
  BY SchedulerAssumption
  DEF MainEnqueue, YieldPush, At, SchedInv, TypeInv, InHand, HandPcs, CodePcs
<1>3. /\ c \in Box(DequeBox(w))' /\ DequeBox(w) \in Boxes
      /\ \A u \in Workers : Elems(deque[u]) \subseteq Elems(deque'[u])
  BY <1>1, <1>2, DequeGrows
<1>4. OnCpu(w) => co[w] = c
  BY <1>1, <1>2 DEF OnCpu, HandPcs, CodePcs
<1>5. pc[0] = "spawnMain" => pc'[0] = "spawnMain" \/ c = Main
  BY <1>1, <1>2, SchedulerAssumption DEF OthersStay, Workers
<1>6. QED
  BY <1>1, <1>3, <1>4, <1>5, OneMoves

\* The poll thread enqueues a coroutine whose request is complete.
LEMMA IoCompletePlaced ==
  ASSUME SchedInv, Placed, NEW c \in Coros, IoComplete(c)
  PROVE  Placed'
<1>1. /\ TypeOK /\ 0 \in Workers /\ OthersStay(0) /\ PushTo(0, c) /\ inflight' = inflight \ {c}
      /\ UNCHANGED <<pc, co, todo, waiters, waitQ, life, fnNull>>
  BY SchedulerAssumption
  DEF IoComplete, coroVars, workerVars, OthersStay, Workers, SchedInv, TypeInv
<1>2. /\ c \in Box(DequeBox(0))' /\ DequeBox(0) \in Boxes
      /\ \A u \in Workers : Elems(deque[u]) \subseteq Elems(deque'[u])
  BY <1>1, DequeGrows
<1>3. OnCpu(0) => OnCpu(0)' /\ co'[0] = co[0]
  BY <1>1 DEF OnCpu
<1>4. QED
  BY <1>1, <1>2, <1>3, OneMoves

\* A coroutine is created, unlinked from a channel or taken off the list of those that
\* await an exiting one, and is now in the list of what the worker will enqueue.
LEMMA TakePlaced ==
  ASSUME SchedInv, Placed, Tidy, NEW w \in Workers,
         Spawn(w) \/ Notify(w) \/ ExitTake(w)
  PROVE  Placed'
<1>1. /\ TypeOK /\ OthersStay(w) /\ co' = co /\ UNCHANGED <<deque, inflight, fnNull>>
      /\ \A v \in Workers \ {w} : todo'[v] = todo[v]
      /\ pc[w] \in {"code", "exitTake"} /\ pc'[w] \in {"spawnPush", "wake", "exitWake"}
  BY SMTT(30)
  DEF Spawn, Notify, ExitTake, Does, At, Goto, OthersStay, global, SchedInv, TypeInv, TypeOK
<1>2. Elems(todo[w]) = {} /\ co[w] \in Coros
  BY <1>1, ElemsOfNone DEF Tidy, SchedInv, TypeInv, InHand, HandPcs, CodePcs
<1>3. \E moved \in SUBSET Coros :
        /\ Elems(todo'[w]) = moved
        /\ \A d \in Coros : life'[d] = "live" => life[d] = "live" \/ d \in moved
        /\ \A t \in Coros : Elems(waiters[t]) \subseteq Elems(waiters'[t]) \cup moved
        /\ waitQ \subseteq waitQ' \cup moved
  <2>1. CASE Spawn(w)
    <3>1. PICK c \in Coros : Create(c) /\ todo'[w] = <<c>>
      BY <1>1, <2>1 DEF Spawn, TypeOK
    <3>2. /\ Elems(todo'[w]) = {c} /\ {c} \in SUBSET Coros
          /\ \A d \in Coros : life'[d] = "live" => life[d] = "live" \/ d \in {c}
          /\ UNCHANGED <<waiters, waitQ>>
      BY <1>1, <2>1, <3>1, ElemsOfOne DEF Create, Spawn, TypeOK
    <3>3. QED
      BY <3>2
  <2>2. CASE Notify(w)
    <3>1. PICK c \in Coros : waitQ' = waitQ \ {c} /\ todo'[w] = <<c>>
      BY <1>1, <2>2 DEF Notify, TypeOK
    <3>2. Elems(todo'[w]) = {c} /\ {c} \in SUBSET Coros /\ UNCHANGED <<waiters, life>>
      BY <2>2, <3>1, ElemsOfOne DEF Notify
    <3>3. QED
      BY <3>1, <3>2
  <2>3. CASE ExitTake(w)
    <3>1. /\ todo'[w] = waiters[co[w]] /\ UNCHANGED <<life, waitQ>>
          /\ \A t \in Coros \ {co[w]} : waiters'[t] = waiters[t]
      BY <1>1, <1>2, <2>3 DEF ExitTake, TypeOK, global
    <3>2. Elems(waiters[co[w]]) \in SUBSET Coros
      BY <1>1, <1>2, QueuesOfCoros
    <3>3. QED
      BY <3>1, <3>2
  <2>4. QED
    BY <2>1, <2>2, <2>3
<1>4. \A d \in Elems(todo'[w]) : \E k \in Boxes : d \in Box(k)'
  BY BoxNames, BoxContentsNext
<1>5. /\ OnCpu(w)' /\ \A u \in Workers \ {w} : OnCpu(u) => co[u] \in Coros
  BY <1>1 DEF SchedInv, TypeInv, InHand, OnCpu, HandPcs, CodePcs
<1>6. pc[0] = "spawnMain" => pc'[0] = "spawnMain"
  BY <1>1, SchedulerAssumption DEF OthersStay, Workers
<1>7. \A v \in Workers : Elems(todo[v]) \subseteq Elems(todo'[v])
  BY <1>1, <1>2
<1>8. QED
  BY <1>1, <1>3, <1>4, <1>5, <1>6, <1>7, PlacedKept, SMTT(30)

\* main() creates the entry's coroutine.
LEMMA MainSpawnPlaced ==
  ASSUME SchedInv, Placed, MainSpawn
  PROVE  Placed'
<1>1. /\ TypeOK /\ 0 \in Workers /\ Main \in Coros /\ OthersStay(0) /\ Create(Main)
      /\ pc[0] = "init" /\ pc'[0] = "spawnMain"
      /\ UNCHANGED <<co, deque, todo, waiters, waitQ, inflight, fnNull>>
  BY SchedulerAssumption
  DEF MainSpawn, At, Goto, OthersStay, Workers, SchedInv, TypeInv, TypeOK
<1>2. PICK moved \in SUBSET Coros : moved = {Main}
  BY <1>1
<1>3. \A d \in Coros : life'[d] = "live" => life[d] = "live" \/ d \in moved
  BY <1>1, <1>2 DEF Create, TypeOK
<1>4. \A d \in moved : \E k \in Boxes : d \in Box(k)'
  BY <1>1, <1>2, BoxNames, BoxContentsNext
<1>5. /\ ~OnCpu(0) /\ \A u \in Workers \ {0} : OnCpu(u) => co[u] \in Coros
  BY <1>1 DEF SchedInv, TypeInv, InHand, OnCpu, HandPcs, CodePcs
<1>6. QED
  BY <1>1, <1>3, <1>4, <1>5, PlacedKept

\* The running coroutine goes onto a wait list, or into an I/O request; ty_await on a
\* child that has exited leaves it where it is.
LEMMA BlockPlaced ==
  ASSUME SchedInv, Placed, NEW w \in Workers,
         (\E t \in Coros : Await(w, t)) \/ Park(w) \/ IoSubmit(w)
  PROVE  Placed'
<1> DEFINE c == co[w]
<1>1. /\ TypeOK /\ OthersStay(w) /\ pc[w] = "code" /\ co' = co
      /\ UNCHANGED <<deque, todo, life, fnNull>>
  BY DEF Await, Park, IoSubmit, Does, At, Goto, OthersStay, global, SchedInv, TypeInv,
     TypeOK
<1>2. c \in Coros /\ (pc[0] = "spawnMain" => pc'[0] = "spawnMain")
  BY <1>1, SchedulerAssumption
  DEF OthersStay, Workers, SchedInv, TypeInv, InHand, HandPcs, CodePcs
<1>3. CASE Park(w) \/ IoSubmit(w)
  <2>1. /\ \/ waitQ' = waitQ \cup {c} /\ UNCHANGED inflight
           \/ inflight' = inflight \cup {c} /\ UNCHANGED waitQ
        /\ UNCHANGED waiters
    BY <1>3 DEF Park, IoSubmit
  <2>2. \E to \in {ChannelBox, IoBox} : c \in Box(to)'
    BY <2>1, BoxContentsNext
  <2>3. QED
    BY <1>1, <1>2, <2>1, <2>2, BoxNames, OneMoves
<1>4. ASSUME NEW t \in Coros, Await(w, t) PROVE Placed'
  <2>1. UNCHANGED <<waitQ, inflight>>
    BY <1>4 DEF Await, global
  <2>2. CASE life[t] = "freed" \/ state[t] = "done"
    <3>1. UNCHANGED <<pc, waiters>>
      BY <1>4, <2>2 DEF Await
    <3>2. OnCpu(w) => OnCpu(w)' /\ co'[w] = co[w]
      BY <1>1, <3>1 DEF OnCpu
    <3>3. c \in Box(CpuBox(w))'
      BY <1>1, <3>1, BoxContentsNext DEF OnCpu, HandPcs, CodePcs
    <3>4. QED
      BY <1>1, <1>2, <2>1, <3>1, <3>2, <3>3, BoxNames, OneMoves
  <2>3. CASE life[t] # "freed" /\ state[t] # "done"
    <3>1. waiters' = [waiters EXCEPT ![t] = <<c>> \o @] /\ waiters \in [Coros -> Seq(Coros)]
      BY <1>1, <1>4, <2>3 DEF Await, TypeOK
    <3>2. /\ Elems(waiters'[t]) = Elems(waiters[t]) \cup {c}
          /\ \A u \in Coros \ {t} : waiters'[u] = waiters[u]
      BY <1>2, <3>1, ElemsPrepend
    <3>3. /\ c \in Box(WaitersBox(t))'
          /\ \A u \in Coros : Elems(waiters[u]) \subseteq Elems(waiters'[u])
      BY <3>2, BoxContentsNext
    <3>4. QED
      BY <1>1, <1>2, <2>1, <3>3, BoxNames, OneMoves
  <2>4. QED
    BY <2>2, <2>3
<1>5. QED
  BY <1>3, <1>4

\* The one that leaves for good is freed.
LEMMA FreePlaced ==
  ASSUME SchedInv, Placed, NEW w \in Workers, Free(w)
  PROVE  Placed'
<1>1. /\ TypeOK /\ OthersStay(w) /\ pc[w] = "free" /\ pc'[w] = "loop"
      /\ life' = [life EXCEPT ![co[w]] = "freed"]
      /\ UNCHANGED <<deque, todo, waiters, waitQ, inflight, fnNull>>
  BY DEF Free, Loop, At, Goto, OthersStay, SchedInv, TypeInv, TypeOK
<1>2. co[w] \in Coros /\ (pc[0] = "spawnMain" => pc'[0] = "spawnMain")
  BY <1>1, SchedulerAssumption DEF OthersStay, Workers, SchedInv, TypeInv, InHand, HandPcs
<1>3. PICK moved \in SUBSET Coros : moved = {co[w]}
  BY <1>2
<1>4. /\ \A d \in Coros : life'[d] = "live" => life[d] = "live"
      /\ \A d \in moved : life'[d] # "live"
  BY <1>1, <1>2, <1>3 DEF TypeOK
<1>5. /\ OnCpu(w) => co[w] \in moved
      /\ \A u \in Workers \ {w} : OnCpu(u) => co[u] \in Coros
  BY <1>3 DEF SchedInv, TypeInv, InHand, OnCpu
<1>6. QED
  BY <1>1, <1>2, <1>4, <1>5, PlacedKept

\* What is said of one worker.
TidyHand(w) ==
    /\ pc[w] \notin HandPcs => co[w] = NoCoro
    /\ pc[w] \notin {"spawnPush", "wake", "exitWake"} => todo[w] = <<>>
    /\ pc[w] \in {"spawnPush", "wake"} => Tail(todo[w]) = <<>>

\* A worker leaves its hand and its list tidy.
LEMMA TidyKept ==
  ASSUME TypeInv, Tidy, NEW w \in Workers, WorkerStep(w)
  PROVE  Tidy'
<1>1. OthersStay(w) /\ TypeOK /\ TidyHand(w)
  BY StepChanges DEF TypeInv, Tidy, TidyHand
<1>2. /\ \A v \in Workers \ {w} : todo'[v] = todo[v]
      /\ TidyHand(w)'
  <2> USE DEF TypeOK, At, Goto, TidyHand, HandPcs, CodePcs, global, coroVars
  <2>1. CASE Spawn(w) \/ Notify(w) \/ ExitTake(w)
    <3>1. CASE ExitTake(w)
      BY <1>1, <2>1, <3>1 DEF ExitTake
    <3>2. CASE Spawn(w) \/ Notify(w)
      <4>1. PICK c : todo' = [todo EXCEPT ![w] = <<c>>]
        BY <3>2 DEF Spawn, Notify
      <4>2. pc[w] = "code" /\ pc'[w] \in {"spawnPush", "wake"}
        BY <1>1, <3>2 DEF Spawn, Notify, Does
      <4>3. todo'[w] = <<c>> /\ \A v \in Workers \ {w} : todo'[v] = todo[v]
        BY <1>1, <4>1
      <4>4. QED
        BY <4>2, <4>3
    <3>3. QED
      BY <2>1, <3>1, <3>2
  <2>2. CASE SpawnPush(w) \/ Wake(w) \/ ExitWake(w)
    <3>1. CASE SpawnPush(w)
      BY <1>1, <3>1 DEF SpawnPush
    <3>2. CASE Wake(w)
      BY <1>1, <3>2 DEF Wake, EnqueueWake
    <3>3. CASE ExitWake(w)
      BY <1>1, <3>3 DEF ExitWake, EnqueueWake
    <3>4. QED
      BY <2>2, <3>1, <3>2, <3>3
  <2>3. CASE Spin(w) \/ ExitDone(w) \/ Yield(w) \/ Park(w) \/ IoSubmit(w)
    BY <1>1, <2>3 DEF Spin, ExitDone, Yield, Park, IoSubmit, Does
  <2>4. CASE \E t \in Coros : Await(w, t)
    <3>1. /\ pc[w] = "code" /\ UNCHANGED <<co, todo>>
          /\ pc'[w] \in {"code", "swap"}
      BY <1>1, <2>4 DEF Await, Does
    <3>2. QED
      BY <1>1, <3>1
  <2>5. CASE LoopPop(w) \/ LoopEmpty(w) \/ LoopSteal(w) \/ (w = 0 /\ (Drain \/ DrainSteal))
    <3>1. /\ pc[w] \in {"loop", "empty", "steal", "drain", "drainSteal"} /\ todo' = todo
          /\ \/ pc'[w] = "resume"
             \/ pc'[w] \in {"empty", "loop", "steal", "exited", "drainSteal"} /\ co' = co
      BY <1>1, <2>5
      DEF LoopPop, LoopEmpty, LoopSteal, Drain, DrainSteal, PopOwn, StealFrom, Pick,
          FindsNothing
    <3>2. QED
      BY <1>1, <3>1
  <2>6. CASE Resume(w) \/ SwapOut(w) \/ IoBlock(w) \/ PreemptTick(w) \/ YieldPush(w)
    BY <1>1, <2>6 DEF Resume, SwapOut, IoBlock, PreemptTick, YieldPush
  <2>7. CASE CheckFn(w) \/ Free(w) \/ ExitSwap(w)
    BY <1>1, <2>7 DEF CheckFn, Free, Loop, ExitSwap
  <2>8. CASE w = 0 /\ (MainSpawn \/ MainEnqueue \/ SetFlag \/ DrainCheck \/ Join)
    BY <1>1, <2>8 DEF MainSpawn, MainEnqueue, SetFlag, DrainCheck, Join, FindsNothing
  <2>9. QED
    BY <2>1, <2>2, <2>3, <2>4, <2>5, <2>6, <2>7, <2>8
    DEF WorkerStep, BodyStep, RuntimeStep, MainStep
<1>3. \A v \in Workers \ {w} : TidyHand(v)'
  BY <1>1, <1>2 DEF Tidy, TidyHand, OthersStay
<1>4. QED
  BY <1>2, <1>3 DEF Tidy, TidyHand

\* No step of a worker loses a coroutine.
LEMMA StepPlaced ==
  ASSUME SchedInv, Placed, Tidy, YieldsRun, NEW w \in Workers, WorkerStep(w)
  PROVE  Placed'
<1>1. CASE BodyStep(w)
  BY <1>1, TakePlaced, BlockPlaced, QuietPlaced DEF BodyStep
<1>2. CASE RuntimeStep(w)
  <2>1. CASE LoopPop(w) \/ LoopSteal(w)
    <3>1. pc[w] \in {"loop", "steal", "drain", "drainSteal"}
      BY <2>1 DEF LoopPop, LoopSteal, At
    <3>2. QED
      BY <2>1, <3>1, PickPlaced, QuietPlaced DEF LoopPop, LoopSteal
  <2>2. CASE \/ LoopEmpty(w) \/ Resume(w) \/ SwapOut(w) \/ CheckFn(w) \/ IoBlock(w)
             \/ PreemptTick(w) \/ ExitSwap(w)
    BY <2>2, QuietPlaced
  <2>3. CASE \/ Free(w) \/ YieldPush(w) \/ ExitTake(w) \/ SpawnPush(w) \/ Wake(w)
             \/ ExitWake(w)
    BY <2>3, FreePlaced, PushPlaced, TakePlaced, WakePlaced
  <2>4. QED
    BY <1>2, <2>1, <2>2, <2>3 DEF RuntimeStep
<1>3. CASE w = 0 /\ MainStep
  <2>1. CASE Drain \/ DrainSteal
    <3>1. pc[w] \in {"loop", "steal", "drain", "drainSteal"}
      BY <1>3, <2>1 DEF Drain, DrainSteal, At
    <3>2. QED
      BY <1>3, <2>1, <3>1, PickPlaced, QuietPlaced DEF Drain, DrainSteal
  <2>2. CASE MainSpawn \/ MainEnqueue \/ SetFlag \/ DrainCheck \/ Join
    BY <1>3, <2>2, MainSpawnPlaced, PushPlaced, QuietPlaced
  <2>3. QED
    BY <1>3, <2>1, <2>2 DEF MainStep
<1>4. QED
  BY <1>1, <1>2, <1>3 DEF WorkerStep
--------------------------------------------------------------------------------
(* The invariant, and that the places of a coroutine are one. *)

\* A coroutine whose request completes is still BLOCKED when it is resumed, so a ty_yield
\* after it fails its compare-and-swap and pushes nobody.
NoYieldAfterIo == \A s \in Scenarios : ~({"io", "yield"} \subseteq s.ops)

\* Nobody is anywhere at the start, and nobody is live.
LEMMA InitPlaced ==
  ASSUME Init
  PROVE  Placed /\ Tidy
<1>1. Placed
  BY DEF Init, Placed, Live
<1>2. \A w \in Workers :
        pc[w] \in {"init", "loop", "exited"} /\ co[w] = NoCoro /\ todo[w] = <<>>
  BY DEF Init
<1>3. QED
  BY <1>1, <1>2 DEF Tidy

\* Every live coroutine is somewhere in every state.
LEMMA PlacedAlways ==
  ASSUME ~LateAwait, Separate, NoYieldAfterIo
  PROVE  Spec => [](SchedInv /\ Placed /\ Tidy)
<1>1. Init => Placed /\ Tidy
  BY InitPlaced
<1>2. SchedInv /\ ("io" \notin scenario.ops => StateInv) => YieldsRun
  BY DEF NoYieldAfterIo, YieldsRun, StateInv, WorkerStates, SchedInv, TypeInv, TypeOK
<1>3. SchedInv /\ YieldsRun /\ Placed /\ Tidy /\ [Next]_vars => (Placed /\ Tidy)'
  <2>1. SUFFICES ASSUME SchedInv, YieldsRun, Placed, Tidy, [Next]_vars
                 PROVE  Placed' /\ Tidy'
    OBVIOUS
  <2>2. ASSUME NEW w \in Workers, WorkerStep(w) PROVE Placed' /\ Tidy'
    BY <2>1, <2>2, StepPlaced, TidyKept DEF SchedInv
  <2>3. ASSUME NEW c \in Coros, IoComplete(c) PROVE Placed' /\ Tidy'
    <3>1. Tidy'
      BY <2>1, <2>3 DEF IoComplete, workerVars, Tidy
    <3>2. QED
      BY <2>1, <2>3, <3>1, IoCompletePlaced
  <2>4. CASE UNCHANGED vars
    <3>1. /\ 0 \in Workers /\ TypeOK /\ OthersStay(0)
          /\ \A v \in Workers : OnCpu(v) => co[v] \in Coros
      BY <2>1, <2>4, SchedulerAssumption
      DEF vars, workerVars, OthersStay, Workers, SchedInv, TypeInv, InHand, OnCpu
    <3>2. UNCHANGED <<pc, co, todo, deque, waiters, waitQ, inflight, life, fnNull>>
      BY <2>4 DEF vars, global, coroVars, workerVars
    <3>3. OnCpu(0) => OnCpu(0)' /\ co'[0] = co[0]
      BY <3>2 DEF OnCpu
    <3>4. \E moved \in SUBSET Coros : moved = {}
      OBVIOUS
    <3>5. Placed'
      BY <2>1, <3>1, <3>2, <3>3, <3>4, PlacedKept
    <3>6. Tidy'
      BY <2>1, <3>2 DEF Tidy
    <3>7. QED
      BY <3>5, <3>6
  <2>5. QED
    BY <2>1, <2>2, <2>3, <2>4 DEF Next
<1>4. QED
  BY <1>1, <1>2, <1>3, StatesAlways, PTL DEF Spec

\* A queue without repetition holds a coroutine at one position, if it holds it.
LEMMA OnePosition ==
  ASSUME NEW q \in Seq(Coros), Distinct(q), NEW c \in Coros
  PROVE  /\ c \notin Elems(q) => Positions(q, c) = {}
         /\ c \in Elems(q) => \E i : Positions(q, c) = {i}
  BY DEF Elems, Positions, Distinct

\* A worker holds a coroutine, in the sense of OnePlace, exactly if it is on its CPU.
LEMMA HeldOnCpu ==
  ASSUME SchedInv, Tidy, NEW c \in Coros, NEW w \in Workers
  PROVE  Holds(w, c) <=> c \in Box(CpuBox(w))
<1>1. Box(CpuBox(w)) = IF OnCpu(w) THEN {co[w]} ELSE {}
  BY BoxContents
<1>2. CASE pc[w] \in HandPcs
  BY <1>1, <1>2 DEF Holds, OnCpu, SchedInv, Hands, HandPcs, CodePcs
<1>3. CASE pc[w] \notin HandPcs
  BY <1>1, <1>3, SchedulerAssumption DEF Holds, OnCpu, Tidy, HandPcs
<1>4. QED
  BY <1>2, <1>3

\* A set with one member.
LEMMA OneMember ==
  ASSUME NEW S, NEW p, \A x : x \in S <=> x = p
  PROVE  S = {p}
  OBVIOUS

\* The places of a coroutine, one by one.
LEMMA PlacesListed ==
  ASSUME NEW c, NEW x
  PROVE  x \in Places(c) <=>
           \/ \E w \in Workers : Holds(w, c) /\ x = <<"cpu", w, 0>>
           \/ \E w \in Workers : \E i \in Positions(deque[w], c) : x = <<"deque", w, i>>
           \/ \E w \in Workers : \E i \in Positions(todo[w], c) : x = <<"todo", w, i>>
           \/ \E t \in Coros : \E i \in Positions(waiters[t], c) : x = <<t, 0, i>>
           \/ c \in waitQ /\ x = <<"channel", 0, 0>>
           \/ c \in inflight /\ x = <<"io", 0, 0>>
           \/ c = Main /\ pc[0] = "spawnMain" /\ x = <<"main", 0, 0>>
<1> DEFINE P1 == {<<"cpu", w, 0>> : w \in {v \in Workers : Holds(v, c)}}
           P2 == UNION {{<<"deque", w, i>> : i \in Positions(deque[w], c)} : w \in Workers}
           P3 == UNION {{<<"todo", w, i>> : i \in Positions(todo[w], c)} : w \in Workers}
           P4 == UNION {{<<t, 0, i>> : i \in Positions(waiters[t], c)} : t \in Coros}
           P5 == {<<"channel", 0, 0>> : d \in waitQ \cap {c}}
           P6 == {<<"io", 0, 0>> : d \in inflight \cap {c}}
           P7 == {<<"main", 0, 0>> : d \in {Main} \cap {c} \cap
                    (IF pc[0] = "spawnMain" THEN {Main} ELSE {})}
<1>1. Places(c) = P1 \cup P2 \cup P3 \cup P4 \cup P5 \cup P6 \cup P7
  BY DEF Places
<1>2. x \in P1 <=> \E w \in Workers : Holds(w, c) /\ x = <<"cpu", w, 0>>
  OBVIOUS
<1>3. x \in P2 <=> \E w \in Workers : \E i \in Positions(deque[w], c) : x = <<"deque", w, i>>
  OBVIOUS
<1>4. x \in P3 <=> \E w \in Workers : \E i \in Positions(todo[w], c) : x = <<"todo", w, i>>
  OBVIOUS
<1>5. x \in P4 <=> \E t \in Coros : \E i \in Positions(waiters[t], c) : x = <<t, 0, i>>
  OBVIOUS
<1>6. /\ x \in P5 <=> c \in waitQ /\ x = <<"channel", 0, 0>>
      /\ x \in P6 <=> c \in inflight /\ x = <<"io", 0, 0>>
      /\ x \in P7 <=> c = Main /\ pc[0] = "spawnMain" /\ x = <<"main", 0, 0>>
  OBVIOUS
<1> HIDE DEF P1, P2, P3, P4, P5, P6, P7
<1>7. QED
  BY <1>1, <1>2, <1>3, <1>4, <1>5, <1>6

\* A coroutine that is in one box and no other has one place.
LEMMA OneSpot ==
  ASSUME SchedInv, Tidy, NEW c \in Coros, NEW k \in Boxes, c \in Box(k)
  PROVE  \E p : Places(c) = {p}
<1>1. \A l \in Boxes : c \in Box(l) => l = k
  BY DEF SchedInv, Housed, Single
<1>2. /\ \A w \in Workers : Holds(w, c) <=> k = CpuBox(w)
      /\ \A w \in Workers : c \in Elems(deque[w]) <=> k = DequeBox(w)
      /\ \A w \in Workers : c \in Elems(todo[w]) <=> k = TodoBox(w)
      /\ \A t \in Coros : c \in Elems(waiters[t]) <=> k = WaitersBox(t)
      /\ c \in waitQ <=> k = ChannelBox
      /\ c \in inflight <=> k = IoBox
      /\ c = Main /\ pc[0] = "spawnMain" <=> k = MainBox
  BY <1>1, HeldOnCpu, BoxNames, BoxContents
<1>3. /\ \A w \in Workers : /\ k # DequeBox(w) => Positions(deque[w], c) = {}
                            /\ k = DequeBox(w) => \E i : Positions(deque[w], c) = {i}
      /\ \A w \in Workers : /\ k # TodoBox(w) => Positions(todo[w], c) = {}
                            /\ k = TodoBox(w) => \E i : Positions(todo[w], c) = {i}
      /\ \A t \in Coros : /\ k # WaitersBox(t) => Positions(waiters[t], c) = {}
                          /\ k = WaitersBox(t) => \E i : Positions(waiters[t], c) = {i}
  <2>1. /\ \A w \in Workers : /\ deque[w] \in Seq(Coros) /\ Distinct(deque[w])
                              /\ todo[w] \in Seq(Coros) /\ Distinct(todo[w])
        /\ \A t \in Coros : waiters[t] \in Seq(Coros) /\ Distinct(waiters[t])
    BY DEF SchedInv, TypeInv, TypeOK, Queues
  <2>2. QED
    BY <1>2, <2>1, OnePosition
<1>4. ASSUME NEW w \in Workers, k = CpuBox(w) PROVE \E p : Places(c) = {p}
  <2>1. \A x : x \in Places(c) <=> x = <<"cpu", w, 0>>
    BY <1>2, <1>3, <1>4, BoxesApart, PlacesListed
  <2>2. Places(c) = {<<"cpu", w, 0>>}
    BY <2>1, OneMember
  <2>3. QED
    BY <2>2
<1>5. ASSUME NEW w \in Workers, k = DequeBox(w) PROVE \E p : Places(c) = {p}
  <2>1. PICK i : Positions(deque[w], c) = {i}
    BY <1>3, <1>5
  <2>2. \A x : x \in Places(c) <=> x = <<"deque", w, i>>
    BY <1>2, <1>3, <1>5, <2>1, BoxesApart, PlacesListed
  <2>3. Places(c) = {<<"deque", w, i>>}
    BY <2>2, OneMember
  <2>4. QED
    BY <2>3
<1>6. ASSUME NEW w \in Workers, k = TodoBox(w) PROVE \E p : Places(c) = {p}
  <2>1. PICK i : Positions(todo[w], c) = {i}
    BY <1>3, <1>6
  <2>2. \A x : x \in Places(c) <=> x = <<"todo", w, i>>
    BY <1>2, <1>3, <1>6, <2>1, BoxesApart, PlacesListed, SMTT(30)
  <2>3. Places(c) = {<<"todo", w, i>>}
    BY <2>2, OneMember
  <2>4. QED
    BY <2>3
<1>7. ASSUME NEW t \in Coros, k = WaitersBox(t) PROVE \E p : Places(c) = {p}
  <2>1. PICK i : Positions(waiters[t], c) = {i}
    BY <1>3, <1>7
  <2>2. \A x : x \in Places(c) <=> x = <<t, 0, i>>
    BY <1>2, <1>3, <1>7, <2>1, BoxesApart, PlacesListed
  <2>3. Places(c) = {<<t, 0, i>>}
    BY <2>2, OneMember
  <2>4. QED
    BY <2>3
<1>8. CASE k = ChannelBox
  <2>1. \A x : x \in Places(c) <=> x = <<"channel", 0, 0>>
    BY <1>2, <1>3, <1>8, BoxesApart, PlacesListed
  <2>2. Places(c) = {<<"channel", 0, 0>>}
    BY <2>1, OneMember
  <2>3. QED
    BY <2>2
<1>9. CASE k = IoBox
  <2>1. \A x : x \in Places(c) <=> x = <<"io", 0, 0>>
    BY <1>2, <1>3, <1>9, BoxesApart, PlacesListed
  <2>2. Places(c) = {<<"io", 0, 0>>}
    BY <2>1, OneMember
  <2>3. QED
    BY <2>2
<1>10. CASE k = MainBox
  <2>1. \A x : x \in Places(c) <=> x = <<"main", 0, 0>>
    BY <1>2, <1>3, <1>10, BoxesApart, PlacesListed
  <2>2. Places(c) = {<<"main", 0, 0>>}
    BY <2>1, OneMember
  <2>3. QED
    BY <2>2
<1>11. QED
  BY <1>4, <1>5, <1>6, <1>7, <1>8, <1>9, <1>10, BoxNames

\* No coroutine is lost and none is scheduled twice: a live one is in exactly one place
\* from which it goes on, whatever the number of workers and coroutines.
THEOREM CoroutineInOnePlace ==
  ASSUME ~LateAwait, Separate, NoYieldAfterIo
  PROVE  Spec => []OnePlace
<1>1. SchedInv /\ Placed /\ Tidy => OnePlace
  <2>1. SUFFICES ASSUME SchedInv, Placed, Tidy, NEW c \in Live
                 PROVE  Cardinality(Places(c)) = 1
    BY DEF OnePlace
  <2>2. PICK k \in Boxes : c \in Box(k)
    BY <2>1 DEF Placed
  <2>3. c \in Coros
    BY DEF Live
  <2>4. PICK p : Places(c) = {p}
    BY <2>1, <2>2, <2>3, OneSpot
  <2>5. QED
    BY <2>4, FS_Singleton
<1>2. QED
  BY <1>1, PlacedAlways, PTL
================================================================================
