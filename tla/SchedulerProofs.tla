----------------------------- MODULE SchedulerProofs ----------------------------
(***************************************************************************)
(* For any number of workers and coroutines and every scenario: the types  *)
(* of the scheduler, and that ty_await loses no wakeup.                    *)
(*                                                                         *)
(* Then who is where.  A coroutine is in at most one box: on a CPU, in a   *)
(* deque, in the hands of a worker that will enqueue it, on a wait list,   *)
(* or in an I/O request; what is in a box is live.  So no coroutine is run *)
(* twice, enqueued twice or freed while anything leads to it, and          *)
(* active_coros is exact.                                                  *)
(*                                                                         *)
(* That second part needs Separate: between the moment a coroutine is      *)
(* handed on and the swap away from it, a second worker can pick it up     *)
(* (finding OneRunner), and then two have it in hand.                      *)
(***************************************************************************)
EXTENDS Scheduler, FiniteSetTheorems, TLAPS

\* A worker at one of these has a coroutine in hand.
HandPcs == CodePcs \cup {"resume", "post", "free"}
InHand ==
    /\ \A w \in Workers : pc[w] \in HandPcs => co[w] \in Coros
    /\ \A w \in Workers : pc[w] \in {"spawnPush", "wake"} => todo[w] # <<>>

\* What is inductive of the types.
TypeInv == TypeOK /\ InHand
--------------------------------------------------------------------------------
(* Types. *)

\* What a store into co->state can do.
LEMMA StoreTyped ==
  ASSUME TypeOK, NEW c \in Coros, NEW to \in States, Store(c, to)
  PROVE  /\ state' \in [Coros -> States]
         /\ invalid' \subseteq (States \X States) \ Allowed
         /\ fault' \in {"none", "abort", "freed"}
<1>1. state[c] \in States
  BY DEF TypeOK
<1>2. CASE life[c] = "freed"
  BY <1>2 DEF TypeOK, Store
<1>3. CASE life[c] # "freed" /\ <<state[c], to>> \in Allowed
  <2>1. state' = [state EXCEPT ![c] = to] /\ UNCHANGED <<invalid, fault>>
    BY <1>3 DEF Store
  <2>2. QED
    BY <2>1 DEF TypeOK
<1>4. CASE life[c] # "freed" /\ <<state[c], to>> \notin Allowed
  <2>1. /\ invalid' = invalid \cup {<<state[c], to>>}
        /\ fault' = IF state[c] = "done" THEN "abort" ELSE fault
        /\ state' = state
    BY <1>4 DEF Store
  <2>2. <<state[c], to>> \in (States \X States) \ Allowed
    BY <1>1, <1>4
  <2>3. QED
    BY <2>1, <2>2 DEF TypeOK
<1>5. QED
  BY <1>2, <1>3, <1>4

\* The emitted main(), on the thread of worker 0.
LEMMA MainTyped ==
  ASSUME TypeInv, UNCHANGED scenario,
         MainSpawn \/ MainEnqueue \/ SetFlag \/ DrainCheck \/ Join
  PROVE  TypeInv'
<1>1. 0 \in Workers /\ Main \in Coros
  BY SchedulerAssumption DEF Workers
<1>2. CASE MainSpawn
  BY <1>1, <1>2
  DEF TypeInv, TypeOK, InHand, HandPcs, MainSpawn, Create, Goto, CodePcs, SchedPcs,
      MainPcs
<1>3. CASE MainEnqueue
  BY <1>1, <1>3
  DEF TypeInv, TypeOK, InHand, HandPcs, MainEnqueue, PushTo, Goto, CodePcs, SchedPcs,
      MainPcs, coroVars
<1>4. CASE SetFlag
  BY <1>1, <1>4
  DEF TypeInv, TypeOK, InHand, HandPcs, SetFlag, Goto, CodePcs, SchedPcs, MainPcs,
      coroVars
<1>5. CASE DrainCheck
  BY <1>1, <1>5
  DEF TypeInv, TypeOK, InHand, HandPcs, DrainCheck, FindsNothing, Goto, CodePcs,
      SchedPcs, MainPcs, coroVars, global
<1>6. CASE Join
  BY <1>1, <1>6
  DEF TypeInv, TypeOK, InHand, HandPcs, Join, FindsNothing, Goto, CodePcs,
      SchedPcs, MainPcs, coroVars, global
<1>7. QED
  BY <1>2, <1>3, <1>4, <1>5, <1>6

\* A worker finds a coroutine, or does not.
LEMMA PickTyped ==
  ASSUME TypeInv, UNCHANGED scenario, NEW w \in Workers, NEW v \in Workers,
         PopOwn(w) \/ StealFrom(w, v)
  PROVE  TypeInv'
<1>1. CASE PopOwn(w)
  <2>1. deque[w] \in Seq(Coros) /\ deque[w] # <<>>
    BY <1>1 DEF TypeInv, TypeOK, PopOwn
  <2>2. deque[w][Len(deque[w])] \in Coros /\ Front(deque[w]) \in Seq(Coros)
    BY <2>1 DEF Front
  <2>3. QED
    BY <1>1, <2>2
    DEF PopOwn, Pick, Goto, TypeInv, TypeOK, InHand, HandPcs, CodePcs, SchedPcs, MainPcs,
        coroVars
<1>2. CASE StealFrom(w, v)
  <2>1. deque[v] \in Seq(Coros) /\ deque[v] # <<>>
    BY <1>2 DEF TypeInv, TypeOK, StealFrom
  <2>2. Head(deque[v]) \in Coros /\ Tail(deque[v]) \in Seq(Coros)
    BY <2>1
  <2>3. QED
    BY <1>2, <2>2
    DEF StealFrom, Pick, Goto, TypeInv, TypeOK, InHand, HandPcs, CodePcs, SchedPcs,
        MainPcs, coroVars
<1>3. QED
  BY <1>1, <1>2

\* A worker that finds nothing to run.
LEMMA NothingTyped ==
  ASSUME TypeInv, UNCHANGED scenario, NEW w \in Workers, NEW to \in SchedPcs \ HandPcs,
         FindsNothing(w, to)
  PROVE  TypeInv'
  BY DEF TypeInv, TypeOK, InHand, HandPcs, FindsNothing, Goto, CodePcs, SchedPcs,
     MainPcs, coroVars, global

\* worker_resume_coro.
LEMMA ResumeTyped ==
  ASSUME TypeInv, UNCHANGED scenario, NEW w \in Workers,
         Resume(w) \/ SwapOut(w) \/ CheckFn(w) \/ Free(w)
  PROVE  TypeInv'
<1>1. CASE Resume(w)
  <2>1. co[w] \in Coros /\ Store(co[w], "running")
    BY <1>1 DEF Resume, TypeInv, TypeOK, InHand, HandPcs, CodePcs, At
  <2>2. /\ state' \in [Coros -> States]
        /\ invalid' \subseteq (States \X States) \ Allowed
        /\ fault' \in {"none", "abort", "freed"}
    BY <2>1, StoreTyped DEF TypeInv, States
  <2>3. QED
    BY <1>1, <2>1, <2>2
    DEF Resume, At, global, TypeInv, TypeOK, InHand, HandPcs, Goto, CodePcs, SchedPcs,
        MainPcs
<1>2. CASE SwapOut(w)
  BY <1>2
  DEF SwapOut, At, global, coroVars, TypeInv, TypeOK, InHand, HandPcs, Goto, CodePcs,
      SchedPcs, MainPcs
<1>3. CASE CheckFn(w)
  <2>1. co[w] \in Coros /\ pc[w] = "post"
    BY <1>3 DEF CheckFn, At, TypeInv, InHand, HandPcs
  <2>2. fault' \in {"none", "abort", "freed"}
    BY <1>3 DEF CheckFn, TypeInv, TypeOK
  <2>3. (Goto(w, "free") /\ UNCHANGED <<co, preempt>>) \/ Loop(w)
    BY <1>3 DEF CheckFn
  <2>4. UNCHANGED <<global, coroVars, todo, invalid>>
    BY <1>3 DEF CheckFn
  <2>5. CASE Goto(w, "free") /\ UNCHANGED <<co, preempt>>
    BY <2>1, <2>2, <2>4, <2>5
    DEF global, coroVars, TypeInv, TypeOK, InHand, HandPcs, Goto, CodePcs, SchedPcs,
        MainPcs
  <2>6. CASE Loop(w)
    BY <2>1, <2>2, <2>4, <2>6
    DEF Loop, global, coroVars, TypeInv, TypeOK, InHand, HandPcs, Goto, CodePcs,
        SchedPcs, MainPcs
  <2>7. QED
    BY <2>3, <2>5, <2>6
<1>4. CASE Free(w)
  BY <1>4
  DEF Free, Loop, At, TypeInv, TypeOK, InHand, HandPcs, Goto, CodePcs, SchedPcs, MainPcs
<1>5. QED
  BY <1>1, <1>2, <1>3, <1>4

\* A body spawns, or makes room for others.
LEMMA SpawnTyped ==
  ASSUME TypeInv, UNCHANGED scenario, NEW w \in Workers,
         Spawn(w) \/ SpawnPush(w) \/ Yield(w) \/ YieldPush(w) \/ Spin(w) \/ PreemptTick(w)
  PROVE  TypeInv'
<1>1. CASE Spawn(w)
  <2>1. co[w] \in Coros /\ MaxOps \in Nat
    BY <1>1, SchedulerAssumption DEF Spawn, Does, At, TypeInv, InHand, HandPcs, CodePcs
  <2>2. left' \in [Coros -> 0 .. MaxOps]
    BY <1>1, <2>1 DEF Spawn, Does, TypeInv, TypeOK
  <2>3. PICK c \in Coros : /\ Create(c)
                           /\ handles' = [handles EXCEPT ![co[w]] = @ \cup {c}]
                           /\ fresh' = [fresh EXCEPT ![co[w]] = @ \cup {c}]
                           /\ todo' = [todo EXCEPT ![w] = <<c>>]
    BY <1>1 DEF Spawn
  <2>4. <<c>> \in Seq(Coros) /\ <<c>> # <<>>
    OBVIOUS
  <2>5. /\ life' \in [Coros -> {"none", "live", "freed"}] /\ active' \in Int
        /\ handles' \in [Coros -> SUBSET Coros] /\ fresh' \in [Coros -> SUBSET Coros]
    BY <2>1, <2>3 DEF Create, TypeInv, TypeOK
  <2>6. todo' \in [Workers -> Seq(Coros)] /\ todo'[w] # <<>>
        /\ \A v \in Workers \ {w} : todo'[v] = todo[v]
    BY <2>3, <2>4 DEF TypeInv, TypeOK
  <2>7. /\ pc' \in [Workers -> CodePcs \cup SchedPcs \cup MainPcs]
        /\ pc[w] = "code" /\ pc'[w] = "spawnPush" /\ co' = co
        /\ \A v \in Workers \ {w} : pc'[v] = pc[v]
    BY <1>1 DEF Spawn, Does, At, Goto, TypeInv, TypeOK, CodePcs
  <2>8. InHand'
    BY <2>1, <2>6, <2>7 DEF TypeInv, InHand
  <2>9. TypeOK'
    BY <1>1, <2>2, <2>5, <2>6, <2>7 DEF Spawn, TypeInv, TypeOK
  <2>10. QED
    BY <2>8, <2>9 DEF TypeInv
<1>2. CASE SpawnPush(w)
  <2>1. Head(todo[w]) \in Coros /\ Store(Head(todo[w]), "runnable")
    BY <1>2 DEF SpawnPush, At, TypeInv, TypeOK, InHand
  <2>2. /\ state' \in [Coros -> States]
        /\ invalid' \subseteq (States \X States) \ Allowed
        /\ fault' \in {"none", "abort", "freed"}
    BY <2>1, StoreTyped DEF TypeInv, States
  <2>3. deque' \in [Workers -> Seq(Coros)]
    <3>1. (IF flag THEN 0 ELSE w) \in Workers
      BY SchedulerAssumption DEF Workers
    <3>2. QED
      BY <1>2, <2>1, <3>1 DEF SpawnPush, PushTo, TypeInv, TypeOK
  <2>4. /\ todo' = [todo EXCEPT ![w] = <<>>] /\ Goto(w, "code") /\ pc[w] = "spawnPush"
        /\ UNCHANGED <<flag, active, waitQ, inflight, life, fnNull, waiters, handles,
                       fresh, left, co, preempt>>
    BY <1>2 DEF SpawnPush, At
  <2>5. QED
    BY <2>2, <2>3, <2>4, SMTT(30)
    DEF TypeInv, TypeOK, InHand, HandPcs, Goto, CodePcs, SchedPcs, MainPcs
<1>3. CASE Yield(w)
  <2>1. co[w] \in Coros /\ MaxOps \in Nat /\ state[co[w]] \in States
    BY <1>3, SchedulerAssumption
    DEF Yield, Does, At, TypeInv, TypeOK, InHand, HandPcs, CodePcs
  <2>2. left' \in [Coros -> 0 .. MaxOps]
    BY <1>3, <2>1 DEF Yield, Does, TypeInv, TypeOK
  <2>3. /\ state' \in [Coros -> States]
        /\ invalid' \subseteq (States \X States) \ Allowed
        /\ fault' \in {"none", "abort", "freed"}
    <3>1. <<state[co[w]], "runnable">> \in States \X States
      BY <2>1 DEF States
    <3>2. CASE state[co[w]] = "running"
      BY <1>3, <2>1, <3>2 DEF Yield, TypeInv, TypeOK, States
    <3>3. CASE state[co[w]] # "running"
      BY <1>3, <3>1, <3>3 DEF Yield, TypeInv, TypeOK
    <3>4. QED
      BY <3>2, <3>3
  <2>4. pc' \in [Workers -> CodePcs \cup SchedPcs \cup MainPcs] /\ InHand'
    BY <1>3, <2>1, ZenonT(30)
    DEF Yield, Does, At, TypeInv, TypeOK, InHand, HandPcs, Goto, CodePcs, SchedPcs,
        MainPcs
  <2>5. QED
    BY <1>3, <2>2, <2>3, <2>4 DEF Yield, global, TypeInv, TypeOK
<1>4. CASE YieldPush(w)
  BY <1>4
  DEF YieldPush, PushTo, At, coroVars, TypeInv, TypeOK, InHand, HandPcs, Goto, CodePcs,
      SchedPcs, MainPcs
<1>5. CASE Spin(w)
  <2>1. co[w] \in Coros /\ MaxOps \in Nat
    BY <1>5, SchedulerAssumption DEF Spin, Does, At, TypeInv, InHand, HandPcs, CodePcs
  <2>2. left' \in [Coros -> 0 .. MaxOps]
    BY <1>5, <2>1 DEF Spin, Does, TypeInv, TypeOK
  <2>3. QED
    BY <1>5, <2>1, <2>2
    DEF Spin, Does, At, global, TypeInv, TypeOK, InHand, HandPcs, Goto, CodePcs,
        SchedPcs, MainPcs
<1>6. CASE PreemptTick(w)
  BY <1>6
  DEF PreemptTick, global, coroVars, TypeInv, TypeOK, InHand, HandPcs, Goto, CodePcs,
      SchedPcs, MainPcs
<1>7. QED
  BY <1>1, <1>2, <1>3, <1>4, <1>5, <1>6

\* A body waits for a child, for a channel or for the kernel.
LEMMA BlockTyped ==
  ASSUME TypeInv, UNCHANGED scenario, NEW w \in Workers,
         (\E t \in Coros : Await(w, t)) \/ Park(w) \/ IoSubmit(w) \/ IoBlock(w)
  PROVE  TypeInv'
<1>1. ASSUME NEW t \in Coros, Await(w, t) PROVE TypeInv'
  <2>1. co[w] \in Coros /\ MaxOps \in Nat
    BY <1>1, SchedulerAssumption DEF Await, Does, At, TypeInv, InHand, HandPcs, CodePcs
  <2>2. left' \in [Coros -> 0 .. MaxOps]
    BY <1>1, <2>1 DEF Await, Does, TypeInv, TypeOK
  <2>3. handles' \in [Coros -> SUBSET Coros]
    BY <1>1, <2>1 DEF Await, TypeInv, TypeOK
  <2>4. pc[w] = "code" /\ UNCHANGED <<global, life, fnNull, fresh, co, todo, preempt>>
    BY <1>1 DEF Await, Does, At
  <2>5. CASE fault' = "freed" /\ UNCHANGED <<pc, state, waiters, invalid>>
    BY <2>1, <2>2, <2>3, <2>4, <2>5
    DEF global, TypeInv, TypeOK, InHand, HandPcs, Goto, CodePcs, SchedPcs, MainPcs
  <2>6. CASE UNCHANGED <<pc, state, waiters, invalid, fault>>
    BY <2>1, <2>2, <2>3, <2>4, <2>6
    DEF global, TypeInv, TypeOK, InHand, HandPcs, Goto, CodePcs, SchedPcs, MainPcs
  <2>7. CASE /\ waiters' = [waiters EXCEPT ![t] = <<co[w]>> \o @]
             /\ Store(co[w], "blocked") /\ Goto(w, "swap")
    <3>1. /\ state' \in [Coros -> States]
          /\ invalid' \subseteq (States \X States) \ Allowed
          /\ fault' \in {"none", "abort", "freed"}
      BY <2>1, <2>7, StoreTyped DEF TypeInv, States
    <3>2. waiters' \in [Coros -> Seq(Coros)]
      BY <2>1, <2>7 DEF TypeInv, TypeOK
    <3>3. QED
      BY <2>1, <2>2, <2>3, <2>4, <2>7, <3>1, <3>2
      DEF global, TypeInv, TypeOK, InHand, HandPcs, Goto, CodePcs, SchedPcs, MainPcs
  <2>8. QED
    BY <1>1, <2>5, <2>6, <2>7 DEF Await
<1>2. CASE Park(w)
  <2>1. co[w] \in Coros /\ MaxOps \in Nat
    BY <1>2, SchedulerAssumption DEF Park, Does, At, TypeInv, InHand, HandPcs, CodePcs
  <2>2. left' \in [Coros -> 0 .. MaxOps]
    BY <1>2, <2>1 DEF Park, Does, TypeInv, TypeOK
  <2>3. /\ Store(co[w], "blocked") /\ waitQ' = waitQ \cup {co[w]} /\ Goto(w, "swap")
        /\ UNCHANGED <<flag, active, deque, inflight, life, fnNull, waiters, handles,
                       fresh, co, todo, preempt>>
    BY <1>2 DEF Park
  <2>4. /\ state' \in [Coros -> States]
        /\ invalid' \subseteq (States \X States) \ Allowed
        /\ fault' \in {"none", "abort", "freed"}
    BY <2>1, <2>3, StoreTyped DEF TypeInv, States
  <2>5. QED
    BY <1>2, <2>1, <2>2, <2>3, <2>4
    DEF Park, Does, At, TypeInv, TypeOK, InHand, HandPcs, Goto, CodePcs, SchedPcs, MainPcs
<1>3. CASE IoSubmit(w)
  <2>1. co[w] \in Coros /\ MaxOps \in Nat
    BY <1>3, SchedulerAssumption DEF IoSubmit, Does, At, TypeInv, InHand, HandPcs, CodePcs
  <2>2. left' \in [Coros -> 0 .. MaxOps]
    BY <1>3, <2>1 DEF IoSubmit, Does, TypeInv, TypeOK
  <2>3. QED
    BY <1>3, <2>1, <2>2
    DEF IoSubmit, Does, At, TypeInv, TypeOK, InHand, HandPcs, Goto, CodePcs, SchedPcs,
        MainPcs
<1>4. CASE IoBlock(w)
  <2>1. co[w] \in Coros /\ Store(co[w], "blocked")
    BY <1>4 DEF IoBlock, At, TypeInv, InHand, HandPcs, CodePcs
  <2>2. /\ state' \in [Coros -> States]
        /\ invalid' \subseteq (States \X States) \ Allowed
        /\ fault' \in {"none", "abort", "freed"}
    BY <2>1, StoreTyped DEF TypeInv, States
  <2>3. QED
    BY <1>4, <2>1, <2>2
    DEF IoBlock, At, global, TypeInv, TypeOK, InHand, HandPcs, Goto, CodePcs, SchedPcs,
        MainPcs
<1>5. QED
  BY <1>1, <1>2, <1>3, <1>4

\* Whoever waits is taken off its list and enqueued, or enqueued by the poll thread.
LEMMA WakeTyped ==
  ASSUME TypeInv, UNCHANGED scenario, NEW w \in Workers,
         Notify(w) \/ Wake(w) \/ ExitWake(w)
  PROVE  TypeInv'
<1>1. CASE Notify(w)
  <2>1. co[w] \in Coros /\ MaxOps \in Nat
    BY <1>1, SchedulerAssumption DEF Notify, Does, At, TypeInv, InHand, HandPcs, CodePcs
  <2>2. left' \in [Coros -> 0 .. MaxOps]
    BY <1>1, <2>1 DEF Notify, Does, TypeInv, TypeOK
  <2>3. PICK r \in waitQ : waitQ' = waitQ \ {r} /\ todo' = [todo EXCEPT ![w] = <<r>>]
    BY <1>1 DEF Notify
  <2>4. <<r>> \in Seq(Coros) /\ <<r>> # <<>>
    BY DEF TypeInv, TypeOK
  <2>5. QED
    BY <1>1, <2>1, <2>2, <2>3, <2>4
    DEF Notify, Does, At, TypeInv, TypeOK, InHand, HandPcs, Goto, CodePcs, SchedPcs,
        MainPcs
<1>2. CASE Wake(w) \/ ExitWake(w)
  <2>1. /\ todo[w] # <<>> /\ todo[w] \in Seq(Coros) /\ EnqueueWake(w)
        /\ (pc[w] = "wake" /\ Goto(w, "code")) \/ (pc[w] = "exitWake" /\ UNCHANGED pc)
        /\ UNCHANGED <<flag, active, waitQ, inflight, life, fnNull, waiters, handles,
                       fresh, left, co, preempt>>
    BY <1>2 DEF Wake, ExitWake, At, TypeInv, TypeOK, InHand
  <2>2. Head(todo[w]) \in Coros /\ Tail(todo[w]) \in Seq(Coros) /\ 0 \in Workers
    BY <2>1, SchedulerAssumption DEF Workers
  <2>3. /\ state' \in [Coros -> States]
        /\ invalid' \subseteq (States \X States) \ Allowed
        /\ fault' \in {"none", "abort", "freed"}
    BY <2>1, <2>2, StoreTyped DEF EnqueueWake, TypeInv, States
  <2>4. /\ deque' \in [Workers -> Seq(Coros)]
        /\ todo' = [todo EXCEPT ![w] = Tail(@)]
    BY <2>1, <2>2 DEF EnqueueWake, PushTo, TypeInv, TypeOK
  <2>5. todo' \in [Workers -> Seq(Coros)] /\ \A v \in Workers \ {w} : todo'[v] = todo[v]
    BY <2>2, <2>4 DEF TypeInv, TypeOK
  <2>6. pc' \in [Workers -> CodePcs \cup SchedPcs \cup MainPcs]
    BY <2>1 DEF TypeInv, TypeOK, Goto, CodePcs
  <2>7. pc'[w] \in {"code", "exitWake"} /\ pc[w] \in HandPcs
        /\ \A v \in Workers \ {w} : pc'[v] = pc[v]
    BY <2>1 DEF TypeInv, TypeOK, Goto, HandPcs, CodePcs
  <2>8. InHand'
    BY <2>1, <2>5, <2>7 DEF TypeInv, InHand, HandPcs, CodePcs
  <2>9. QED
    BY <2>1, <2>3, <2>4, <2>5, <2>6, <2>8 DEF TypeInv, TypeOK
<1>3. QED
  BY <1>1, <1>2

\* The poll thread.
LEMMA CompleteTyped ==
  ASSUME TypeInv, UNCHANGED scenario, NEW c \in Coros, IoComplete(c)
  PROVE  TypeInv'
<1>1. 0 \in Workers
  BY SchedulerAssumption DEF Workers
<1>2. QED
  BY <1>1
  DEF IoComplete, PushTo, coroVars, workerVars, TypeInv, TypeOK, InHand, HandPcs, Goto,
      CodePcs, SchedPcs, MainPcs

\* ty_coro_exit.
LEMMA ExitTyped ==
  ASSUME TypeInv, UNCHANGED scenario, NEW w \in Workers,
         ExitDone(w) \/ ExitTake(w) \/ ExitSwap(w)
  PROVE  TypeInv'
<1>1. co[w] \in Coros
  BY DEF ExitDone, ExitTake, ExitSwap, At, TypeInv, InHand, HandPcs, CodePcs
<1>2. CASE ExitDone(w)
  <2>1. Store(co[w], "done")
    BY <1>2 DEF ExitDone
  <2>2. /\ state' \in [Coros -> States]
        /\ invalid' \subseteq (States \X States) \ Allowed
        /\ fault' \in {"none", "abort", "freed"}
    BY <1>1, <2>1, StoreTyped DEF TypeInv, States
  <2>3. QED
    BY <1>1, <1>2, <2>2
    DEF ExitDone, At, global, TypeInv, TypeOK, InHand, HandPcs, Goto, CodePcs, SchedPcs,
        MainPcs
<1>3. CASE ExitTake(w)
  BY <1>1, <1>3
  DEF ExitTake, At, global, TypeInv, TypeOK, InHand, HandPcs, Goto, CodePcs, SchedPcs,
      MainPcs
<1>4. CASE ExitSwap(w)
  BY <1>1, <1>4
  DEF ExitSwap, At, global, TypeInv, TypeOK, InHand, HandPcs, Goto, CodePcs, SchedPcs,
      MainPcs
<1>5. QED
  BY <1>2, <1>3, <1>4
--------------------------------------------------------------------------------
\* The invariant, at the start, through a step, and always.
LEMMA InitTyped == Init => TypeInv
<1> SUFFICES ASSUME Init PROVE TypeInv
  OBVIOUS
<1>1. /\ left \in [Coros -> 0 .. MaxOps]
      /\ deque \in [Workers -> Seq(Coros)] /\ todo \in [Workers -> Seq(Coros)]
      /\ waiters \in [Coros -> Seq(Coros)]
  BY SchedulerAssumption DEF Init
<1>2. \A w \in Workers : pc[w] \in {"init", "loop", "exited"}
  BY DEF Init
<1>3. pc \in [Workers -> CodePcs \cup SchedPcs \cup MainPcs]
  BY DEF Init, CodePcs, SchedPcs, MainPcs
<1>4. InHand
  BY <1>2 DEF InHand, HandPcs, CodePcs
<1>5. /\ state \in [Coros -> States] /\ fnNull \in [Coros -> BOOLEAN]
      /\ life \in [Coros -> {"none", "live", "freed"}]
      /\ handles \in [Coros -> SUBSET Coros] /\ fresh \in [Coros -> SUBSET Coros]
  BY DEF Init, States
<1>6. co \in [Workers -> Coros \cup {NoCoro}] /\ preempt \in [Workers -> BOOLEAN]
  <2>1. co = [w \in Workers |-> NoCoro] /\ preempt = [w \in Workers |-> FALSE]
    BY DEF Init
  <2>2. QED
    BY <2>1
<1>7. flag \in BOOLEAN /\ scenario \in Scenarios
  BY Zenon DEF Init
<1>8. active \in Int /\ fault = "none"
  BY DEF Init
<1>9. waitQ \subseteq Coros /\ inflight \subseteq Coros /\ invalid = {}
  BY DEF Init
<1>10. QED
  BY <1>1, <1>3, <1>4, <1>5, <1>6, <1>7, <1>8, <1>9 DEF TypeInv, TypeOK

\* Every step of a worker and of the poll thread keeps the types.
LEMMA NextTyped ==
  ASSUME TypeInv, [Next]_vars
  PROVE  TypeInv'
<1>1. CASE UNCHANGED vars
  BY <1>1 DEF vars, global, coroVars, workerVars, TypeInv, TypeOK, InHand
<1>2. ASSUME Next PROVE TypeInv'
  <2>1. UNCHANGED scenario
    BY <1>2 DEF Next, Running
  <2>2. 0 \in Workers
    BY SchedulerAssumption DEF Workers
  <2>3. CASE MainStep
    <3>1. CASE MainSpawn \/ MainEnqueue \/ SetFlag \/ DrainCheck \/ Join
      BY <2>1, <3>1, MainTyped
    <3>2. CASE Drain
      BY <2>1, <2>2, <3>2, PickTyped, NothingTyped DEF Drain, SchedPcs, HandPcs, CodePcs
    <3>3. CASE DrainSteal
      BY <2>1, <2>2, <3>3, PickTyped, NothingTyped
      DEF DrainSteal, SchedPcs, HandPcs, CodePcs
    <3>4. QED
      BY <2>3, <3>1, <3>2, <3>3 DEF MainStep
  <2>4. ASSUME NEW w \in Workers, BodyStep(w) PROVE TypeInv'
    BY <2>1, <2>4, SpawnTyped, BlockTyped, WakeTyped, ExitTyped DEF BodyStep
  <2>5. ASSUME NEW w \in Workers, LoopPop(w) \/ LoopEmpty(w) \/ LoopSteal(w) PROVE TypeInv'
    BY <2>1, <2>5, PickTyped, NothingTyped
    DEF LoopPop, LoopEmpty, LoopSteal, SchedPcs, HandPcs, CodePcs
  <2>6. ASSUME NEW w \in Workers, RuntimeStep(w) PROVE TypeInv'
    BY <2>1, <2>5, <2>6, ResumeTyped, SpawnTyped, BlockTyped, WakeTyped, ExitTyped
    DEF RuntimeStep
  <2>7. CASE \E c \in Coros : IoComplete(c)
    BY <2>1, <2>7, CompleteTyped
  <2>8. QED
    BY <1>2, <2>3, <2>4, <2>6, <2>7 DEF Next, WorkerStep
<1>3. QED
  BY <1>1, <1>2

\* And so it holds in every state.
LEMMA TypeInvAlways == Spec => []TypeInv
<1>1. Init => TypeInv
  BY InitTyped
<1>2. TypeInv /\ [Next]_vars => TypeInv'
  BY NextTyped
<1>3. QED
  BY <1>1, <1>2, PTL DEF Spec

\* Whatever the bodies do, and on however many workers, every variable of the scheduler
\* holds a value of its kind.
THEOREM TypeCorrect == Spec => []TypeOK
<1>1. TypeInv => TypeOK
  BY DEF TypeInv
<1>2. QED
  BY <1>1, TypeInvAlways, PTL
--------------------------------------------------------------------------------
\* Only ty_coro_exit ends a coroutine.
LEMMA StoreEndsNone ==
  ASSUME TypeOK, NEW c \in Coros, NEW to \in States \ {"done"}, Store(c, to)
  PROVE  \A t \in Coros : state'[t] = "done" => state[t] = "done"
  BY DEF TypeOK, Store

\* A step that ends nobody, adds no waiter to the dead and takes none.
KeepsLate ==
    /\ \A w \in Workers : pc[w] = "exitTake" => UNCHANGED <<pc[w], co[w]>>
    /\ \A t \in Coros : state'[t] = "done" => state[t] = "done" /\ waiters'[t] = waiters[t]

\* Such a step adds no waiter to a coroutine whose waiters have been taken.
LEMMA KeptLate == ASSUME NoLateWaiter, KeepsLate PROVE NoLateWaiter'
  BY DEF NoLateWaiter, KeepsLate

\* Every step of a worker but the two of the exit is such a step: ty_await looks at
\* the state of the child under its lock.
LEMMA StepKeepsLate ==
  ASSUME TypeInv, NEW w \in Workers, WorkerStep(w), ~ExitDone(w), ~ExitTake(w)
  PROVE  KeepsLate
<1>1. CASE MainStep
  <2>1. UNCHANGED <<state, waiters>> /\ pc[0] # "exitTake" /\ 0 \in Workers
    BY <1>1, SchedulerAssumption
    DEF MainStep, MainSpawn, MainEnqueue, SetFlag, DrainCheck, Drain, DrainSteal, Join,
        FindsNothing, PopOwn, StealFrom, Pick, At, coroVars, Workers
  <2>2. \A v \in Workers \ {0} : UNCHANGED <<pc[v], co[v]>>
    BY <1>1, <2>1 DEF MainStep, MainSpawn, MainEnqueue, SetFlag, DrainCheck, Drain,
        DrainSteal, Join, FindsNothing, PopOwn, StealFrom, Pick, Goto, TypeInv, TypeOK
  <2>3. QED
    BY <2>1, <2>2 DEF KeepsLate
<1>2. ASSUME pc[w] # "exitTake", \A v \in Workers \ {w} : UNCHANGED <<pc[v], co[v]>>,
             UNCHANGED <<state, waiters>>
      PROVE  KeepsLate
  BY <1>2 DEF KeepsLate
<1>3. ASSUME pc[w] # "exitTake", \A v \in Workers \ {w} : UNCHANGED <<pc[v], co[v]>>,
             UNCHANGED waiters, NEW c \in Coros, NEW to \in States \ {"done"}, Store(c, to)
      PROVE  KeepsLate
  BY <1>3, StoreEndsNone DEF KeepsLate, TypeInv
<1>4. /\ pc \in [Workers -> CodePcs \cup SchedPcs \cup MainPcs]
      /\ co \in [Workers -> Coros \cup {NoCoro}]
  BY DEF TypeInv, TypeOK
<1>5. CASE LoopPop(w) \/ LoopEmpty(w) \/ LoopSteal(w)
  BY <1>2, <1>4, <1>5
  DEF LoopPop, LoopEmpty, LoopSteal, FindsNothing, PopOwn, StealFrom, Pick, Goto, At,
      coroVars
<1>6. CASE SwapOut(w) \/ CheckFn(w) \/ Free(w) \/ PreemptTick(w) \/ Spin(w)
  BY <1>2, <1>4, <1>6
  DEF SwapOut, CheckFn, Free, PreemptTick, Spin, Does, Loop, Goto, At, coroVars
<1>7. CASE Spawn(w) \/ YieldPush(w) \/ Notify(w) \/ IoSubmit(w) \/ ExitSwap(w)
  BY <1>2, <1>4, <1>7
  DEF Spawn, YieldPush, Notify, IoSubmit, ExitSwap, Does, Goto, At, coroVars
<1>8. CASE Resume(w) \/ Park(w) \/ IoBlock(w)
  <2>1. co[w] \in Coros /\ pc[w] # "exitTake"
    BY <1>8 DEF Resume, Park, IoBlock, Does, At, TypeInv, InHand, HandPcs, CodePcs
  <2>2. Store(co[w], "running") \/ Store(co[w], "blocked")
    BY <1>8 DEF Resume, Park, IoBlock
  <2>3. UNCHANGED waiters /\ \A v \in Workers \ {w} : UNCHANGED <<pc[v], co[v]>>
    BY <1>4, <1>8 DEF Resume, Park, IoBlock, Goto
  <2>4. QED
    BY <1>3, <2>1, <2>2, <2>3 DEF States
<1>9. CASE SpawnPush(w) \/ Wake(w) \/ ExitWake(w)
  <2>1. Head(todo[w]) \in Coros /\ pc[w] # "exitTake" /\ Store(Head(todo[w]), "runnable")
    BY <1>9 DEF SpawnPush, Wake, ExitWake, EnqueueWake, At, TypeInv, TypeOK, InHand
  <2>2. UNCHANGED waiters /\ \A v \in Workers \ {w} : UNCHANGED <<pc[v], co[v]>>
    BY <1>4, <1>9 DEF SpawnPush, Wake, ExitWake, Goto
  <2>3. QED
    BY <1>3, <2>1, <2>2 DEF States
<1>10. CASE Yield(w)
  <2>1. co[w] \in Coros /\ pc[w] # "exitTake"
    BY <1>10 DEF Yield, Does, At, TypeInv, InHand, HandPcs, CodePcs
  <2>2. UNCHANGED waiters /\ \A v \in Workers \ {w} : UNCHANGED <<pc[v], co[v]>>
    BY <1>4, <1>10 DEF Yield, Goto
  <2>3. UNCHANGED state \/ state' = [state EXCEPT ![co[w]] = "runnable"]
    BY <1>10 DEF Yield
  <2>4. QED
    BY <2>1, <2>2, <2>3 DEF KeepsLate, TypeInv, TypeOK
<1>11. ASSUME NEW t \in Coros, Await(w, t) PROVE KeepsLate
  <2>1. co[w] \in Coros /\ pc[w] # "exitTake" /\ UNCHANGED co
    BY <1>11 DEF Await, Does, At, TypeInv, InHand, HandPcs, CodePcs
  <2>2. CASE UNCHANGED <<pc, state, waiters>>
    BY <2>1, <2>2 DEF KeepsLate
  <2>3. CASE /\ life[t] # "freed" /\ state[t] # "done" /\ Goto(w, "swap")
             /\ waiters' = [waiters EXCEPT ![t] = <<co[w]>> \o @]
             /\ Store(co[w], "blocked")
    <3>1. \A u \in Coros : state'[u] = "done" => state[u] = "done"
      BY <2>1, <2>3, StoreEndsNone DEF TypeInv, States
    <3>2. \A u \in Coros \ {t} : waiters'[u] = waiters[u]
      BY <2>3 DEF TypeInv, TypeOK
    <3>3. \A v \in Workers \ {w} : UNCHANGED <<pc[v], co[v]>>
      BY <1>4, <2>1, <2>3 DEF Goto
    <3>4. QED
      BY <2>1, <2>3, <3>1, <3>2, <3>3 DEF KeepsLate
  <2>4. QED
    BY <1>11, <2>2, <2>3 DEF Await
<1>12. QED
  BY <1>1, <1>5, <1>6, <1>7, <1>8, <1>9, <1>10, <1>11
  DEF WorkerStep, BodyStep, RuntimeStep

\* ExitDone passes on to exitTake with the waiters; ExitTake takes them all.
LEMMA NoLateWaiterKept ==
  ASSUME TypeInv, NoLateWaiter, [Next]_vars
  PROVE  NoLateWaiter'
<1>1. CASE UNCHANGED vars \/ \E c \in Coros : IoComplete(c)
  BY <1>1 DEF vars, IoComplete, coroVars, workerVars, NoLateWaiter
<1>2. ASSUME NEW w \in Workers, ExitDone(w) PROVE NoLateWaiter'
  <2>1. co[w] \in Coros /\ pc[w] = "code" /\ pc'[w] = "exitTake" /\ UNCHANGED <<co, waiters>>
    BY <1>2 DEF ExitDone, At, Goto, TypeInv, TypeOK, InHand, HandPcs, CodePcs
  <2>2. \A v \in Workers \ {w} : pc'[v] = pc[v]
    BY <1>2 DEF ExitDone, Goto, TypeInv, TypeOK
  <2>3. \A t \in Coros \ {co[w]} : state'[t] = state[t]
    BY <1>2, <2>1 DEF ExitDone, Store, TypeInv, TypeOK
  <2>4. QED
    BY <2>1, <2>2, <2>3 DEF NoLateWaiter
<1>3. ASSUME NEW w \in Workers, ExitTake(w) PROVE NoLateWaiter'
  <2>1. co[w] \in Coros /\ pc[w] = "exitTake" /\ UNCHANGED <<co, state>>
    BY <1>3 DEF ExitTake, At, TypeInv, InHand, HandPcs, CodePcs
  <2>2. \A v \in Workers \ {w} : pc'[v] = pc[v]
    BY <1>3 DEF ExitTake, Goto, TypeInv, TypeOK
  <2>3. waiters'[co[w]] = <<>> /\ \A t \in Coros \ {co[w]} : waiters'[t] = waiters[t]
    BY <1>3, <2>1 DEF ExitTake, TypeInv, TypeOK
  <2>4. QED
    BY <2>1, <2>2, <2>3 DEF NoLateWaiter
<1>4. QED
  BY <1>1, <1>2, <1>3, StepKeepsLate, KeptLate DEF Next

\* Once ty_coro_exit has taken the waiters of a coroutine nobody is added to them, on
\* however many workers: a ty_await that comes too late sees that the child is done.
THEOREM AwaitLosesNoWakeup == Spec => []NoLateWaiter
<1>1. Init => NoLateWaiter
  BY DEF Init, NoLateWaiter
<1>2. TypeInv /\ NoLateWaiter /\ [Next]_vars => NoLateWaiter'
  BY NoLateWaiterKept
<1>3. QED
  BY <1>1, <1>2, TypeInvAlways, PTL DEF Spec
--------------------------------------------------------------------------------
(* Who is where. *)

\* Operations that hand the running coroutine to others before its worker has left its
\* stack.
Handover == {"yield", "await", "park", "io"}
Separate == \A s \in Scenarios : s.workers = 1 \/ s.ops \cap Handover = {}

\* What a queue holds, and that it holds nothing twice.
Elems(q) == {q[i] : i \in DOMAIN q}
Distinct(q) == \A i, j \in DOMAIN q : q[i] = q[j] => i = j

\* Where a coroutine can be, and who is there.
Boxes ==
    ({"cpu", "deque", "todo"} \X Workers) \cup ({"waiters"} \X Coros)
        \cup ({"channel", "io", "main"} \X {NoCoro})

\* A worker that has handed its coroutine on, and has only to swap away from it, does not
\* hold it; one that has exited is held until it is freed.
OnCpu(w) ==
    /\ pc[w] \in HandPcs \ {"ioBlock"}
    /\ pc[w] \in {"swap", "post"} => fnNull[co[w]]
Box(k) ==
    CASE k[1] = "cpu" -> IF OnCpu(k[2]) THEN {co[k[2]]} ELSE {}
      [] k[1] = "deque" -> Elems(deque[k[2]])
      [] k[1] = "todo" -> Elems(todo[k[2]])
      [] k[1] = "waiters" -> Elems(waiters[k[2]])
      [] k[1] = "channel" -> waitQ
      [] k[1] = "io" -> inflight
      [] k[1] = "main" -> IF pc[0] = "spawnMain" THEN {Main} ELSE {}

\* No coroutine is in two boxes.
Single == \A k, l \in Boxes : \A c \in Coros : c \in Box(k) /\ c \in Box(l) => k = l

\* No queue holds one twice.
Queues ==
    /\ \A w \in Workers : Distinct(deque[w]) /\ Distinct(todo[w])
    /\ \A t \in Coros : Distinct(waiters[t])

\* The boxes by name.
CpuBox(w) == <<"cpu", w>>
DequeBox(w) == <<"deque", w>>
TodoBox(w) == <<"todo", w>>
WaitersBox(t) == <<"waiters", t>>
ChannelBox == <<"channel", NoCoro>>
IoBox == <<"io", NoCoro>>
MainBox == <<"main", NoCoro>>

\* Every box has one of these names.
LEMMA BoxNames ==
  /\ \A k \in Boxes :
      \/ \E w \in Workers : k = CpuBox(w) \/ k = DequeBox(w) \/ k = TodoBox(w)
      \/ \E t \in Coros : k = WaitersBox(t)
      \/ k = ChannelBox \/ k = IoBox \/ k = MainBox
  /\ \A w \in Workers : CpuBox(w) \in Boxes /\ DequeBox(w) \in Boxes /\ TodoBox(w) \in Boxes
  /\ \A t \in Coros : WaitersBox(t) \in Boxes
  /\ ChannelBox \in Boxes /\ IoBox \in Boxes /\ MainBox \in Boxes
  BY DEF Boxes, CpuBox, DequeBox, TodoBox, WaitersBox, ChannelBox, IoBox, MainBox

\* What is in a box, by its name.
LEMMA BoxContents ==
  /\ \A w \in Workers :
      /\ Box(CpuBox(w)) = IF OnCpu(w) THEN {co[w]} ELSE {}
      /\ Box(DequeBox(w)) = Elems(deque[w]) /\ Box(TodoBox(w)) = Elems(todo[w])
  /\ \A t \in Coros : Box(WaitersBox(t)) = Elems(waiters[t])
  /\ Box(ChannelBox) = waitQ /\ Box(IoBox) = inflight
  /\ Box(MainBox) = IF pc[0] = "spawnMain" THEN {Main} ELSE {}
  BY DEF Box, CpuBox, DequeBox, TodoBox, WaitersBox, ChannelBox, IoBox, MainBox

\* And after the step.
LEMMA BoxContentsNext ==
  /\ \A w \in Workers :
      /\ Box(CpuBox(w))' = IF OnCpu(w)' THEN {co'[w]} ELSE {}
      /\ Box(DequeBox(w))' = Elems(deque'[w]) /\ Box(TodoBox(w))' = Elems(todo'[w])
  /\ \A t \in Coros : Box(WaitersBox(t))' = Elems(waiters'[t])
  /\ Box(ChannelBox)' = waitQ' /\ Box(IoBox)' = inflight'
  /\ Box(MainBox)' = IF pc'[0] = "spawnMain" THEN {Main} ELSE {}
  BY DEF Box, CpuBox, DequeBox, TodoBox, WaitersBox, ChannelBox, IoBox, MainBox

\* Different names are different boxes.
LEMMA BoxesApart ==
  /\ \A v, w \in Workers :
      /\ CpuBox(v) = CpuBox(w) => v = w
      /\ DequeBox(v) = DequeBox(w) => v = w
      /\ TodoBox(v) = TodoBox(w) => v = w
      /\ CpuBox(v) # DequeBox(w) /\ CpuBox(v) # TodoBox(w) /\ DequeBox(v) # TodoBox(w)
  /\ \A t, u \in Coros : WaitersBox(t) = WaitersBox(u) => t = u
  /\ \A w \in Workers, t \in Coros :
      CpuBox(w) # WaitersBox(t) /\ DequeBox(w) # WaitersBox(t) /\ TodoBox(w) # WaitersBox(t)
  /\ \A w \in Workers :
      \A k \in {ChannelBox, IoBox, MainBox} :
          CpuBox(w) # k /\ DequeBox(w) # k /\ TodoBox(w) # k
  /\ \A t \in Coros : \A k \in {ChannelBox, IoBox, MainBox} : WaitersBox(t) # k
  /\ ChannelBox # IoBox /\ ChannelBox # MainBox /\ IoBox # MainBox
  BY DEF CpuBox, DequeBox, TodoBox, WaitersBox, ChannelBox, IoBox, MainBox
--------------------------------------------------------------------------------
(* Sequences without repetition. *)

\* The empty queue.
LEMMA ElemsOfNone == Elems(<<>>) = {} /\ Distinct(<<>>)
  BY DEF Elems, Distinct

\* A queue of one.
LEMMA ElemsOfOne == \A c \in Coros : Elems(<<c>>) = {c} /\ Distinct(<<c>>)
  BY DEF Elems, Distinct

\* A push at the bottom.
LEMMA ElemsAppend ==
  ASSUME NEW q \in Seq(Coros), NEW c \in Coros
  PROVE  /\ Elems(Append(q, c)) = Elems(q) \cup {c}
         /\ Distinct(q) /\ c \notin Elems(q) => Distinct(Append(q, c))
<1>1. /\ DOMAIN Append(q, c) = 1 .. Len(q) + 1 /\ DOMAIN q = 1 .. Len(q) /\ Len(q) \in Nat
      /\ Append(q, c)[Len(q) + 1] = c /\ \A i \in 1 .. Len(q) : Append(q, c)[i] = q[i]
  OBVIOUS
<1>2. Elems(Append(q, c)) = Elems(q) \cup {c}
  BY <1>1 DEF Elems
<1>3. ASSUME Distinct(q), c \notin Elems(q) PROVE Distinct(Append(q, c))
  BY <1>1, <1>3 DEF Elems, Distinct
<1>4. QED
  BY <1>2, <1>3

\* A waiter put first.
LEMMA ElemsPrepend ==
  ASSUME NEW q \in Seq(Coros), NEW c \in Coros
  PROVE  /\ Elems(<<c>> \o q) = Elems(q) \cup {c}
         /\ Distinct(q) /\ c \notin Elems(q) => Distinct(<<c>> \o q)
<1> DEFINE p == <<c>> \o q
<1>1. /\ DOMAIN p = 1 .. Len(q) + 1 /\ DOMAIN q = 1 .. Len(q) /\ Len(q) \in Nat
      /\ p[1] = c /\ \A i \in 1 .. Len(q) : p[i + 1] = q[i]
  OBVIOUS
<1>2. \A j \in 2 .. Len(q) + 1 : j - 1 \in 1 .. Len(q) /\ p[j] = q[j - 1]
  BY <1>1
<1>3. Elems(p) = Elems(q) \cup {c}
  <2>1. \A x : x \in Elems(p) => x \in Elems(q) \cup {c}
    BY <1>1, <1>2 DEF Elems
  <2>2. \A x : x \in Elems(q) \cup {c} => x \in Elems(p)
    <3>1. ASSUME NEW i \in 1 .. Len(q) PROVE q[i] \in Elems(p)
      BY <1>1, i + 1 \in 1 .. Len(q) + 1 DEF Elems
    <3>2. QED
      BY <1>1, <3>1, SMTT(30) DEF Elems
  <2>3. QED
    BY <2>1, <2>2
<1>4. ASSUME Distinct(q), c \notin Elems(q) PROVE Distinct(p)
  BY <1>1, <1>2, <1>4 DEF Elems, Distinct
<1>5. QED
  BY <1>3, <1>4

\* What a steal leaves, or the walk over the waiters.
LEMMA ElemsTail ==
  ASSUME NEW q \in Seq(Coros), q # <<>>, Distinct(q)
  PROVE  /\ Elems(Tail(q)) = Elems(q) \ {Head(q)} /\ Distinct(Tail(q))
         /\ Head(q) \in Elems(q)
<1> DEFINE p == Tail(q)
<1>1. /\ DOMAIN p = 1 .. Len(q) - 1 /\ DOMAIN q = 1 .. Len(q) /\ Len(q) \in Nat \ {0}
      /\ Head(q) = q[1] /\ \A i \in 1 .. Len(q) - 1 : p[i] = q[i + 1]
  OBVIOUS
<1>2. \A j \in 2 .. Len(q) : j - 1 \in 1 .. Len(q) - 1 /\ p[j - 1] = q[j]
  BY <1>1
<1> HIDE DEF p
<1>3. \A x : x \in Elems(p) => x \in Elems(q) /\ x # Head(q)
  BY <1>1 DEF Elems, Distinct
<1>4. \A x : x \in Elems(q) /\ x # Head(q) => x \in Elems(p)
  BY <1>1, <1>2 DEF Elems
<1>5. Distinct(p)
  BY <1>1 DEF Distinct
<1>6. Head(q) \in Elems(q)
  BY <1>1 DEF Elems
<1>7. QED
  BY <1>3, <1>4, <1>5, <1>6 DEF p

\* What a pop at the bottom leaves.
LEMMA ElemsFront ==
  ASSUME NEW q \in Seq(Coros), q # <<>>, Distinct(q)
  PROVE  /\ Elems(Front(q)) = Elems(q) \ {q[Len(q)]} /\ Distinct(Front(q))
         /\ q[Len(q)] \in Elems(q)
<1> DEFINE p == Front(q)
<1>1. /\ DOMAIN p = 1 .. Len(q) - 1 /\ DOMAIN q = 1 .. Len(q) /\ Len(q) \in Nat \ {0}
      /\ \A i \in 1 .. Len(q) - 1 : p[i] = q[i]
  BY DEF Front
<1> HIDE DEF p
<1>2. \A x : x \in Elems(p) => x \in Elems(q) /\ x # q[Len(q)]
  BY <1>1 DEF Elems, Distinct
<1>3. \A x : x \in Elems(q) /\ x # q[Len(q)] => x \in Elems(p)
  BY <1>1 DEF Elems
<1>4. Distinct(p)
  BY <1>1 DEF Distinct
<1>5. q[Len(q)] \in Elems(q)
  BY <1>1 DEF Elems
<1>6. QED
  BY <1>2, <1>3, <1>4, <1>5 DEF p
--------------------------------------------------------------------------------
(* The invariant. *)

\* What is in a box is live, and has not exited unless it is still on the CPU.
Housed ==
    /\ Single
    /\ \A k \in Boxes : \A c \in Coros : c \in Box(k) =>
        /\ life[c] = "live"
        /\ fnNull[c] => \E w \in Workers : k = CpuBox(w)

\* What a worker has in hand is live; it has exited only from the last swap on.
Hands ==
    /\ \A c \in Coros : life[c] = "none" => ~fnNull[c]
    /\ \A w \in Workers :
        /\ pc[w] \in HandPcs => life[co[w]] = "live"
        /\ pc[w] \in HandPcs \ {"swap", "post", "free"} => ~fnNull[co[w]]
        /\ pc[w] = "free" => fnNull[co[w]]

\* No coroutine is in two hands: worker 0 works alone, or none is handed on early.
Alone ==
    \/ \A w \in Workers \ {0} : pc[w] = "exited"
    \/ /\ scenario.ops \cap Handover = {}
       /\ \A w \in Workers :
            /\ pc[w] \notin {"ioBlock", "yieldPush"}
            /\ pc[w] \in {"swap", "post"} => fnNull[co[w]]

\* The children that ty_await may still be called on are not freed.
FreshLive ==
    scenario.ops \cap Handover # {} /\ pc[0] \in CodePcs
        => \A t \in fresh[co[0]] : life[t] = "live"

\* active_coros, and that nothing comes to life after the drain.
Accounts ==
    /\ IsFiniteSet(Live) /\ active = Cardinality(Live)
    /\ pc[0] \in {"join", "finished"} => Live = {}

\* The inductive invariant.
SchedInv ==
    /\ TypeInv
    /\ Housed
    /\ Queues
    /\ Hands
    /\ Alone
    /\ FreshLive
    /\ NoFreedAccess
    /\ Accounts
--------------------------------------------------------------------------------
(* How a step moves coroutines between the boxes. *)

Stayed == \A k \in Boxes : \A d \in Coros : d \in Box(k)' => d \in Box(k)
Moved(from, to, c) ==
    \A k \in Boxes : \A d \in Coros :
        d \in Box(k)' => (k = to /\ d = c) \/ (d \in Box(k) /\ ~(k = from /\ d = c))
Added(to, c) ==
    \A k \in Boxes : \A d \in Coros : d \in Box(k)' => (k = to /\ d = c) \/ d \in Box(k)

\* If no coroutine enters a box, all are still in at most one.
LEMMA StayedKeeps ==
  ASSUME Housed, Stayed, UNCHANGED <<life, fnNull>>
  PROVE  Housed'
  BY DEF Housed, Single, Stayed

\* So they are if one leaves a box for another.
LEMMA MovedKeeps ==
  ASSUME Housed, NEW from \in Boxes, NEW to \in Boxes, NEW c \in Coros, c \in Box(from),
         Moved(from, to, c), UNCHANGED <<life, fnNull>>,
         fnNull[c] => \E w \in Workers : to = CpuBox(w)
  PROVE  Housed'
<1>1. Single'
  BY DEF Housed, Single, Moved
<1>2. QED
  BY <1>1 DEF Housed, Moved

\* So they are if a new one enters a box.
LEMMA AddedKeeps ==
  ASSUME TypeOK, Housed, NEW to \in Boxes, NEW c \in Coros, Added(to, c),
         life[c] = "none", life' = [life EXCEPT ![c] = "live"], ~fnNull[c], UNCHANGED fnNull
  PROVE  Housed'
<1>1. \A k \in Boxes : c \notin Box(k)
  BY DEF Housed
<1>2. Single'
  BY <1>1 DEF Housed, Single, Added
<1>3. QED
  BY <1>1, <1>2 DEF Housed, Added, TypeOK

\* The worker w alone takes a step.
OthersStay(w) == \A v \in Workers \ {w} : UNCHANGED <<pc[v], co[v]>>

\* A step of one worker leaves what the others have in hand.
LEMMA OtherCpus ==
  ASSUME NEW w \in Workers, OthersStay(w), UNCHANGED fnNull
  PROVE  \A v \in Workers \ {w} : Box(CpuBox(v))' = Box(CpuBox(v))
  BY BoxContents, BoxContentsNext, ZenonT(30) DEF OthersStay, OnCpu

\* A channel operation takes a parked coroutine off the wait list, to wake it.
LEMMA NotifyPlaces ==
  ASSUME SchedInv, NEW w \in Workers, Notify(w)
  PROVE  Housed' /\ Queues' /\ Hands'
<1>1. PICK r \in Coros : /\ r \in waitQ /\ waitQ' = waitQ \ {r}
                         /\ todo' = [todo EXCEPT ![w] = <<r>>]
  BY DEF Notify, SchedInv, TypeInv, TypeOK
<1>2. /\ pc[w] = "code" /\ pc'[w] = "wake" /\ OthersStay(w) /\ co' = co
      /\ UNCHANGED <<deque, waiters, inflight, life, fnNull>>
  BY DEF Notify, Does, At, Goto, OthersStay, SchedInv, TypeInv, TypeOK
<1>3. \A v \in Workers : Box(CpuBox(v))' = Box(CpuBox(v))
  BY <1>2, OtherCpus, BoxContents, BoxContentsNext DEF OnCpu, HandPcs, CodePcs
<1>4. \A v \in Workers \ {w} : todo'[v] = todo[v]
  BY <1>1 DEF SchedInv, TypeInv, TypeOK
<1>5. Elems(todo'[w]) = {r} /\ Distinct(todo'[w])
  BY <1>1, ElemsOfOne DEF SchedInv, TypeInv, TypeOK
<1>6. pc'[0] = "spawnMain" => pc[0] = "spawnMain"
  BY <1>2, SchedulerAssumption DEF OthersStay, Workers
<1>7. Moved(ChannelBox, TodoBox(w), r)
  BY <1>1, <1>2, <1>3, <1>4, <1>5, <1>6, BoxNames, BoxContents, BoxContentsNext,
     BoxesApart
  DEF Moved
<1>8. Housed'
  BY <1>1, <1>2, <1>7, MovedKeeps, BoxNames, BoxContents, BoxesApart DEF SchedInv, Housed
<1>9. Queues'
  BY <1>2, <1>4, <1>5 DEF SchedInv, Queues
<1>10. Hands'
  BY <1>2 DEF SchedInv, Hands, OthersStay, HandPcs, CodePcs
<1>11. QED
  BY <1>8, <1>9, <1>10

\* Steps that move nobody.
LEMMA StayedPlaces ==
  ASSUME SchedInv, NEW w \in Workers, OthersStay(w),
         UNCHANGED <<deque, todo, waiters, waitQ, inflight, life, fnNull>>,
         pc'[w] \in HandPcs => pc[w] \in HandPcs /\ co'[w] = co[w],
         pc'[w] \in HandPcs \ {"swap", "post", "free"}
             => pc[w] \in HandPcs \ {"swap", "post", "free"},
         pc'[w] = "free" => fnNull[co[w]],
         OnCpu(w)' => OnCpu(w),
         pc'[w] # "spawnMain"
  PROVE  Housed' /\ Queues' /\ Hands'
<1>1. \A v \in Workers : \A d \in Coros : d \in Box(CpuBox(v))' => d \in Box(CpuBox(v))
  BY OtherCpus, BoxContents, BoxContentsNext DEF OnCpu
<1>2. pc'[0] = "spawnMain" => pc[0] = "spawnMain"
  BY SchedulerAssumption DEF OthersStay, Workers
<1>3. Stayed
  BY <1>1, <1>2, BoxNames, BoxContents, BoxContentsNext DEF Stayed
<1>4. Housed'
  BY <1>3, StayedKeeps DEF SchedInv
<1>5. Queues'
  BY DEF SchedInv, Queues
<1>6. Hands'
  <2>1. \A c \in Coros : life'[c] = "none" => ~fnNull'[c]
    BY DEF SchedInv, Hands
  <2>2. ASSUME NEW v \in Workers
        PROVE  /\ pc'[v] \in HandPcs => life'[co'[v]] = "live"
               /\ pc'[v] \in HandPcs \ {"swap", "post", "free"} => ~fnNull'[co'[v]]
               /\ pc'[v] = "free" => fnNull'[co'[v]]
    <3>1. CASE v = w
      BY <3>1 DEF SchedInv, Hands, HandPcs
    <3>2. CASE v # w
      BY <3>2 DEF SchedInv, Hands, OthersStay
    <3>3. QED
      BY <3>1, <3>2
  <2>3. QED
    BY <2>1, <2>2 DEF Hands
<1>7. QED
  BY <1>4, <1>5, <1>6

\* Steps inside one box: a coroutine that is resumed, swaps out or exits stays in the
\* hands of its worker, and a worker that finds nothing moves nobody.
LEMMA QuietPlaces ==
  ASSUME SchedInv, NEW w \in Workers,
         \/ Resume(w) \/ SwapOut(w) \/ CheckFn(w) \/ Spin(w) \/ PreemptTick(w) \/ Yield(w)
         \/ IoBlock(w) \/ ExitDone(w) \/ LoopEmpty(w)
         \/ FindsNothing(w, "empty") \/ FindsNothing(w, "loop")
         \/ w = 0 /\ (SetFlag \/ DrainCheck \/ Join \/ FindsNothing(0, "drainSteal"))
  PROVE  Housed' /\ Queues' /\ Hands'
<1>1. /\ pc \in [Workers -> CodePcs \cup SchedPcs \cup MainPcs]
      /\ co \in [Workers -> Coros \cup {NoCoro}]
  BY DEF SchedInv, TypeInv, TypeOK
<1>2. UNCHANGED <<deque, todo, waiters, waitQ, inflight, life, fnNull>>
  BY DEF Resume, SwapOut, CheckFn, Spin, PreemptTick, Yield, IoBlock, ExitDone, LoopEmpty,
         FindsNothing, SetFlag, DrainCheck, Join, Does, global, coroVars
<1>3. CASE Resume(w) \/ IoBlock(w) \/ ExitDone(w)
  <2>1. /\ OthersStay(w) /\ co' = co
        /\ \/ pc[w] = "resume" /\ pc'[w] = "code"
           \/ pc[w] = "ioBlock" /\ pc'[w] = "swap"
           \/ pc[w] = "code" /\ pc'[w] = "exitTake"
    BY <1>1, <1>3 DEF Resume, IoBlock, ExitDone, At, Goto, OthersStay
  <2>2. pc[w] = "ioBlock" => ~fnNull[co[w]]
    BY DEF SchedInv, Hands, HandPcs, CodePcs
  <2>3. QED
    BY <1>2, <2>1, <2>2, StayedPlaces DEF HandPcs, CodePcs, OnCpu
<1>4. CASE SwapOut(w) \/ Spin(w) \/ PreemptTick(w)
  <2>1. /\ OthersStay(w) /\ co' = co
        /\ \/ pc[w] = "swap" /\ pc'[w] = "post"
           \/ pc[w] = "code" /\ pc'[w] = "spin"
           \/ pc[w] = "spin" /\ pc'[w] = "spin"
    BY <1>1, <1>4 DEF SwapOut, Spin, PreemptTick, Does, At, Goto, OthersStay
  <2>2. QED
    BY <1>2, <2>1, StayedPlaces DEF HandPcs, CodePcs, OnCpu
<1>5. CASE Yield(w)
  <2>1. /\ OthersStay(w) /\ co' = co /\ pc[w] = "code" /\ pc'[w] \in {"yieldPush", "swap"}
    BY <1>1, <1>5 DEF Yield, Does, At, Goto, OthersStay
  <2>2. QED
    BY <1>2, <2>1, StayedPlaces DEF HandPcs, CodePcs, OnCpu
<1>6. CASE CheckFn(w)
  <2>1. /\ OthersStay(w) /\ pc[w] = "post"
        /\ \/ fnNull[co[w]] /\ pc'[w] = "free" /\ co' = co
           \/ pc'[w] = "loop"
    BY <1>1, <1>6 DEF CheckFn, Loop, At, Goto, OthersStay
  <2>2. QED
    BY <1>2, <2>1, StayedPlaces DEF HandPcs, CodePcs, OnCpu
<1>7. CASE \/ LoopEmpty(w) \/ FindsNothing(w, "empty") \/ FindsNothing(w, "loop")
           \/ w = 0 /\ (SetFlag \/ DrainCheck \/ Join \/ FindsNothing(0, "drainSteal"))
  <2>1. OthersStay(w) /\ pc'[w] \in {"exited", "steal", "empty", "loop", "drain", "join",
                                    "drainSteal", "finished"}
    BY <1>1, <1>7 DEF LoopEmpty, FindsNothing, SetFlag, DrainCheck, Join, Goto, OthersStay
  <2>2. QED
    BY <1>2, <2>1, StayedPlaces DEF HandPcs, CodePcs, OnCpu
<1>8. QED
  BY <1>3, <1>4, <1>5, <1>6, <1>7

\* What the worker has in hand after its step.
LEMMA HandsKept ==
  ASSUME SchedInv, NEW w \in Workers, OthersStay(w), UNCHANGED <<life, fnNull>>,
         pc'[w] \in HandPcs => life[co'[w]] = "live",
         pc'[w] \in HandPcs \ {"swap", "post", "free"} => ~fnNull[co'[w]],
         pc'[w] = "free" => fnNull[co'[w]]
  PROVE  Hands'
<1>1. \A c \in Coros : life'[c] = "none" => ~fnNull'[c]
  BY DEF SchedInv, Hands
<1>2. ASSUME NEW v \in Workers
      PROVE  /\ pc'[v] \in HandPcs => life'[co'[v]] = "live"
             /\ pc'[v] \in HandPcs \ {"swap", "post", "free"} => ~fnNull'[co'[v]]
             /\ pc'[v] = "free" => fnNull'[co'[v]]
  <2>1. CASE v = w
    BY <2>1
  <2>2. CASE v # w
    BY <2>2 DEF SchedInv, Hands, OthersStay
  <2>3. QED
    BY <2>1, <2>2
<1>3. QED
  BY <1>1, <1>2 DEF Hands

\* A worker takes a coroutine from its own deque, or from another's.
LEMMA PickPlaces ==
  ASSUME SchedInv, NEW w \in Workers, NEW v \in Workers,
         pc[w] \in {"loop", "steal", "drain", "drainSteal"},
         (v = w /\ PopOwn(w)) \/ StealFrom(w, v)
  PROVE  Housed' /\ Queues' /\ Hands'
<1>1. /\ deque[v] \in Seq(Coros) /\ deque[v] # <<>> /\ Distinct(deque[v])
      /\ pc \in [Workers -> CodePcs \cup SchedPcs \cup MainPcs]
      /\ co \in [Workers -> Coros \cup {NoCoro}] /\ deque \in [Workers -> Seq(Coros)]
  BY DEF PopOwn, StealFrom, SchedInv, TypeInv, TypeOK, Queues
<1>2. PICK c \in Coros, q \in Seq(Coros) :
         /\ Pick(w, v, c, q)
         /\ c \in Elems(deque[v]) /\ Elems(q) = Elems(deque[v]) \ {c} /\ Distinct(q)
  <2>1. CASE v = w /\ PopOwn(w)
    <3>1. deque[w][Len(deque[w])] \in Coros /\ Front(deque[w]) \in Seq(Coros)
      BY <1>1, <2>1 DEF Front
    <3>2. QED
      BY <1>1, <2>1, <3>1, ElemsFront DEF PopOwn
  <2>2. CASE StealFrom(w, v)
    <3>1. Head(deque[v]) \in Coros /\ Tail(deque[v]) \in Seq(Coros)
      BY <1>1
    <3>2. QED
      BY <1>1, <2>2, <3>1, ElemsTail DEF StealFrom
  <2>3. QED
    BY <2>1, <2>2
<1>3. /\ pc'[w] = "resume" /\ co'[w] = c /\ OthersStay(w) /\ deque'[v] = q
      /\ \A u \in Workers \ {v} : deque'[u] = deque[u]
      /\ UNCHANGED <<todo, waiters, waitQ, inflight, life, fnNull>>
  BY <1>1, <1>2 DEF Pick, Goto, OthersStay, coroVars
<1>4. Box(CpuBox(w))' = {c} /\ \A u \in Workers \ {w} : Box(CpuBox(u))' = Box(CpuBox(u))
  BY <1>3, OtherCpus, BoxContentsNext DEF OnCpu, HandPcs, CodePcs
<1>5. pc'[0] = "spawnMain" => pc[0] = "spawnMain"
  BY <1>3, SchedulerAssumption DEF OthersStay, Workers
<1>6. Moved(DequeBox(v), CpuBox(w), c)
  BY <1>2, <1>3, <1>4, <1>5, BoxNames, BoxContents, BoxContentsNext, BoxesApart DEF Moved
<1>7. c \in Box(DequeBox(v)) /\ DequeBox(v) \in Boxes /\ CpuBox(w) \in Boxes
  BY <1>2, BoxNames, BoxContents
<1>8. Housed'
  BY <1>3, <1>6, <1>7, MovedKeeps DEF SchedInv
<1>9. Queues'
  BY <1>2, <1>3 DEF SchedInv, Queues
<1>10. life[c] = "live" /\ ~fnNull[c]
  BY <1>7, BoxesApart DEF SchedInv, Housed
<1>11. Hands'
  BY <1>3, <1>10, HandsKept
<1>12. QED
  BY <1>8, <1>9, <1>11

\* The coroutine on the CPU goes to a wait list or into a request.
LEMMA BlockPlaces ==
  ASSUME SchedInv, NEW w \in Workers, Park(w) \/ IoSubmit(w)
  PROVE  Housed' /\ Queues' /\ Hands'
<1> DEFINE c == co[w]
<1>1. /\ pc[w] = "code" /\ OthersStay(w) /\ co' = co
      /\ UNCHANGED <<deque, todo, waiters, life, fnNull>>
      /\ pc \in [Workers -> CodePcs \cup SchedPcs \cup MainPcs]
  BY DEF Park, IoSubmit, Does, At, Goto, OthersStay, SchedInv, TypeInv, TypeOK
<1>2. c \in Coros /\ life[c] = "live" /\ ~fnNull[c]
  BY <1>1 DEF SchedInv, TypeInv, InHand, Hands, HandPcs, CodePcs
<1>3. c \in Box(CpuBox(w)) /\ CpuBox(w) \in Boxes /\ ChannelBox \in Boxes /\ IoBox \in Boxes
  BY <1>1, BoxNames, BoxContents DEF OnCpu, HandPcs, CodePcs
<1>4. \A u \in Workers \ {w} : Box(CpuBox(u))' = Box(CpuBox(u))
  BY <1>1, OtherCpus
<1>5. CASE Park(w)
  <2>1. pc'[w] = "swap" /\ waitQ' = waitQ \cup {c} /\ inflight' = inflight
    BY <1>1, <1>5 DEF Park, Goto
  <2>2. Box(CpuBox(w))' = {}
    BY <1>1, <1>2, <2>1, BoxContentsNext DEF OnCpu
  <2>3. pc'[0] = "spawnMain" => pc[0] = "spawnMain"
    BY <1>1, <2>1, SchedulerAssumption DEF OthersStay, Workers
  <2>4. Moved(CpuBox(w), ChannelBox, c)
    BY <1>1, <1>4, <2>1, <2>2, <2>3, BoxNames, BoxContents, BoxContentsNext, BoxesApart
    DEF Moved
  <2>5. Housed'
    BY <1>1, <1>2, <1>3, <2>4, MovedKeeps DEF SchedInv
  <2>6. Hands'
    BY <1>1, <1>2, <2>1, HandsKept
  <2>7. QED
    BY <1>1, <2>5, <2>6 DEF SchedInv, Queues
<1>6. CASE IoSubmit(w)
  <2>1. pc'[w] = "ioBlock" /\ inflight' = inflight \cup {c} /\ waitQ' = waitQ
    BY <1>1, <1>6 DEF IoSubmit, Goto
  <2>2. Box(CpuBox(w))' = {}
    BY <1>1, <1>2, <2>1, BoxContentsNext DEF OnCpu
  <2>3. pc'[0] = "spawnMain" => pc[0] = "spawnMain"
    BY <1>1, <2>1, SchedulerAssumption DEF OthersStay, Workers
  <2>4. Moved(CpuBox(w), IoBox, c)
    BY <1>1, <1>4, <2>1, <2>2, <2>3, BoxNames, BoxContents, BoxContentsNext, BoxesApart
    DEF Moved
  <2>5. Housed'
    BY <1>1, <1>2, <1>3, <2>4, MovedKeeps DEF SchedInv
  <2>6. Hands'
    BY <1>1, <1>2, <2>1, HandsKept
  <2>7. QED
    BY <1>1, <2>5, <2>6 DEF SchedInv, Queues
<1>7. QED
  BY <1>5, <1>6

\* It waits for a child.
LEMMA AwaitPlaces ==
  ASSUME SchedInv, NEW w \in Workers, NEW t \in Coros, Await(w, t)
  PROVE  Housed' /\ Queues' /\ Hands'
<1> DEFINE c == co[w]
<1>1. /\ pc[w] = "code" /\ co' = co
      /\ UNCHANGED <<deque, todo, waitQ, inflight, life, fnNull>>
      /\ pc \in [Workers -> CodePcs \cup SchedPcs \cup MainPcs]
      /\ waiters \in [Coros -> Seq(Coros)]
  BY DEF Await, Does, At, global, SchedInv, TypeInv, TypeOK
<1>2. c \in Coros /\ life[c] = "live" /\ ~fnNull[c]
  BY <1>1 DEF SchedInv, TypeInv, InHand, Hands, HandPcs, CodePcs
<1>3. CASE UNCHANGED <<pc, waiters>>
  <2>1. OthersStay(w) /\ OnCpu(w)' = OnCpu(w)
    BY <1>1, <1>3 DEF OthersStay, OnCpu
  <2>2. QED
    BY <1>1, <1>3, <2>1, StayedPlaces DEF HandPcs, CodePcs
<1>4. CASE waiters' = [waiters EXCEPT ![t] = <<c>> \o @] /\ Goto(w, "swap")
  <2>1. /\ pc'[w] = "swap" /\ OthersStay(w) /\ waiters'[t] = <<c>> \o waiters[t]
        /\ \A u \in Coros \ {t} : waiters'[u] = waiters[u]
    BY <1>1, <1>4 DEF Goto, OthersStay
  <2>2. c \in Box(CpuBox(w)) /\ CpuBox(w) \in Boxes /\ WaitersBox(t) \in Boxes
    BY <1>1, BoxNames, BoxContents DEF OnCpu, HandPcs, CodePcs
  <2>3. c \notin Box(WaitersBox(t))
    BY <1>2, <2>2, BoxesApart DEF SchedInv, Housed, Single
  <2>4. Elems(waiters'[t]) = Elems(waiters[t]) \cup {c} /\ Distinct(waiters'[t])
    BY <1>1, <1>2, <2>1, <2>3, ElemsPrepend, BoxContents DEF SchedInv, Queues
  <2>5. Box(CpuBox(w))' = {} /\ \A u \in Workers \ {w} : Box(CpuBox(u))' = Box(CpuBox(u))
    BY <1>1, <1>2, <2>1, OtherCpus, BoxContentsNext DEF OnCpu
  <2>6. pc'[0] = "spawnMain" => pc[0] = "spawnMain"
    BY <2>1, SchedulerAssumption DEF OthersStay, Workers
  <2>7. Moved(CpuBox(w), WaitersBox(t), c)
    <3>1. SUFFICES ASSUME NEW k \in Boxes, NEW d \in Coros, d \in Box(k)'
                   PROVE  \/ k = WaitersBox(t) /\ d = c
                          \/ d \in Box(k) /\ ~(k = CpuBox(w) /\ d = c)
      BY DEF Moved
    <3>2. CASE \E v \in Workers : k = CpuBox(v)
      BY <2>5, <3>1, <3>2, BoxesApart
    <3>3. CASE \E u \in Coros : k = WaitersBox(u)
      <4>1. PICK u \in Coros : k = WaitersBox(u)
        BY <3>3
      <4>2. d \in Elems(waiters'[u]) /\ Box(k) = Elems(waiters[u]) /\ k # CpuBox(w)
        BY <3>1, <4>1, BoxContents, BoxContentsNext, BoxesApart
      <4>3. CASE u = t
        BY <2>4, <4>1, <4>2, <4>3
      <4>4. CASE u # t
        BY <2>1, <4>2, <4>4
      <4>5. QED
        BY <4>3, <4>4
    <3>4. CASE \E v \in Workers : k = DequeBox(v) \/ k = TodoBox(v)
      <4>1. d \in Box(k)
        BY <1>1, <3>1, <3>4, BoxContents, BoxContentsNext
      <4>2. QED
        BY <3>4, <4>1, BoxesApart
    <3>5. CASE k = ChannelBox \/ k = IoBox \/ k = MainBox
      BY <1>1, <2>6, <3>1, <3>5, BoxContents, BoxContentsNext, BoxesApart
    <3>6. QED
      BY <3>2, <3>3, <3>4, <3>5, BoxNames
  <2>8. Housed'
    BY <1>1, <1>2, <2>2, <2>7, MovedKeeps DEF SchedInv
  <2>9. Hands'
    BY <1>1, <1>2, <2>1, HandsKept
  <2>10. Queues'
    BY <1>1, <2>1, <2>4 DEF SchedInv, Queues
  <2>11. QED
    BY <2>8, <2>9, <2>10
<1>5. UNCHANGED <<pc, waiters>>
      \/ (waiters' = [waiters EXCEPT ![t] = <<c>> \o @] /\ Goto(w, "swap"))
  BY DEF Await
<1>6. QED
  BY <1>3, <1>4, <1>5

\* A push, from wherever the coroutine was.
LEMMA PushPlaces ==
  ASSUME SchedInv, NEW x \in Workers, NEW c \in Coros, NEW from \in Boxes, c \in Box(from),
         ~fnNull[c], PushTo(x, c), UNCHANGED <<life, fnNull>>,
         \A v \in Workers : from # DequeBox(v),
         \A k \in Boxes : (\A v \in Workers : k # DequeBox(v)) =>
             \A d \in Coros : d \in Box(k)' => d \in Box(k) /\ ~(k = from /\ d = c)
  PROVE  Housed' /\ \A v \in Workers : Distinct(deque'[v])
<1>1. /\ deque \in [Workers -> Seq(Coros)] /\ deque'[x] = Append(deque[x], c)
      /\ \A v \in Workers \ {x} : deque'[v] = deque[v]
  BY DEF PushTo, SchedInv, TypeInv, TypeOK
<1>2. c \notin Box(DequeBox(x))
  BY BoxNames DEF SchedInv, Housed, Single
<1>3. Elems(deque'[x]) = Elems(deque[x]) \cup {c} /\ Distinct(deque'[x])
  BY <1>1, <1>2, ElemsAppend, BoxContents DEF SchedInv, Queues
<1>4. Moved(from, DequeBox(x), c)
  <2>1. SUFFICES ASSUME NEW k \in Boxes, NEW d \in Coros, d \in Box(k)'
                 PROVE  \/ k = DequeBox(x) /\ d = c
                        \/ d \in Box(k) /\ ~(k = from /\ d = c)
    BY DEF Moved
  <2>2. CASE \A v \in Workers : k # DequeBox(v)
    BY <2>1, <2>2
  <2>3. ASSUME NEW v \in Workers, k = DequeBox(v)
        PROVE  \/ k = DequeBox(x) /\ d = c
               \/ d \in Box(k) /\ ~(k = from /\ d = c)
    <3>1. d \in Elems(deque'[v]) /\ Box(k) = Elems(deque[v])
      BY <2>1, <2>3, BoxContents, BoxContentsNext
    <3>2. CASE v = x
      BY <1>3, <2>3, <3>1, <3>2
    <3>3. CASE v # x
      BY <1>1, <2>3, <3>1, <3>3
    <3>4. QED
      BY <3>2, <3>3
  <2>4. QED
    BY <2>2, <2>3
<1>5. Housed'
  BY <1>4, MovedKeeps, BoxNames DEF SchedInv
<1>6. QED
  BY <1>1, <1>3, <1>5 DEF SchedInv, Queues

\* main() enqueues the first coroutine.
LEMMA MainEnqueuePlaces ==
  ASSUME SchedInv, MainEnqueue
  PROVE  Housed' /\ Queues' /\ Hands'
<1>1. /\ 0 \in Workers /\ pc[0] = "spawnMain" /\ pc'[0] = "setFlag" /\ OthersStay(0)
      /\ co' = co /\ PushTo(0, Main) /\ Main \in Coros
      /\ UNCHANGED <<todo, waiters, waitQ, inflight, life, fnNull>>
  BY SchedulerAssumption
  DEF MainEnqueue, At, Goto, coroVars, Workers, OthersStay, SchedInv, TypeInv, TypeOK
<1>2. Main \in Box(MainBox) /\ ~fnNull[Main] /\ \A v \in Workers : MainBox # DequeBox(v)
  BY <1>1, BoxNames, BoxContents, BoxesApart DEF SchedInv, Housed
<1>3. \A v \in Workers : Box(CpuBox(v))' = Box(CpuBox(v))
  BY <1>1, OtherCpus, BoxContents, BoxContentsNext DEF OnCpu, HandPcs, CodePcs
<1>4. \A k \in Boxes : (\A v \in Workers : k # DequeBox(v)) =>
         \A d \in Coros : d \in Box(k)' => d \in Box(k) /\ ~(k = MainBox /\ d = Main)
  BY <1>1, <1>3, BoxNames, BoxContents, BoxContentsNext, BoxesApart
<1>5. Housed' /\ \A v \in Workers : Distinct(deque'[v])
  BY <1>1, <1>2, <1>4, PushPlaces, BoxNames
<1>6. Hands'
  BY <1>1, HandsKept DEF HandPcs, CodePcs
<1>7. QED
  BY <1>1, <1>5, <1>6 DEF SchedInv, Queues

\* A yielding coroutine goes from the CPU to the deque of its worker.
LEMMA YieldPushPlaces ==
  ASSUME SchedInv, NEW w \in Workers, YieldPush(w)
  PROVE  Housed' /\ Queues' /\ Hands'
<1>1. /\ pc[w] = "yieldPush" /\ pc'[w] = "swap" /\ OthersStay(w) /\ co' = co
      /\ PushTo(w, co[w]) /\ UNCHANGED <<todo, waiters, waitQ, inflight, life, fnNull>>
  BY DEF YieldPush, At, Goto, coroVars, OthersStay, SchedInv, TypeInv, TypeOK
<1>2. /\ co[w] \in Coros /\ life[co[w]] = "live" /\ ~fnNull[co[w]]
      /\ co[w] \in Box(CpuBox(w)) /\ \A v \in Workers : CpuBox(w) # DequeBox(v)
  BY <1>1, BoxNames, BoxContents, BoxesApart
  DEF SchedInv, TypeInv, InHand, Hands, HandPcs, CodePcs, OnCpu
<1>3. Box(CpuBox(w))' = {} /\ \A v \in Workers \ {w} : Box(CpuBox(v))' = Box(CpuBox(v))
  BY <1>1, <1>2, OtherCpus, BoxContentsNext DEF OnCpu
<1>4. pc'[0] = "spawnMain" => pc[0] = "spawnMain"
  BY <1>1, SchedulerAssumption DEF OthersStay, Workers
<1>5. \A k \in Boxes : (\A v \in Workers : k # DequeBox(v)) =>
         \A d \in Coros : d \in Box(k)' => d \in Box(k) /\ ~(k = CpuBox(w) /\ d = co[w])
  BY <1>1, <1>3, <1>4, BoxNames, BoxContents, BoxContentsNext, BoxesApart
<1>6. Housed' /\ \A v \in Workers : Distinct(deque'[v])
  BY <1>1, <1>2, <1>5, PushPlaces, BoxNames
<1>7. Hands'
  BY <1>1, <1>2, HandsKept
<1>8. QED
  BY <1>1, <1>6, <1>7 DEF SchedInv, Queues

\* The poll thread moves a coroutine from its request to the deque of worker 0.
LEMMA IoCompletePlaces ==
  ASSUME SchedInv, NEW c \in Coros, IoComplete(c)
  PROVE  Housed' /\ Queues' /\ Hands'
<1>1. /\ 0 \in Workers /\ PushTo(0, c) /\ c \in inflight /\ inflight' = inflight \ {c}
      /\ UNCHANGED <<pc, co, todo, waiters, waitQ, life, fnNull>>
  BY SchedulerAssumption DEF IoComplete, coroVars, workerVars, Workers
<1>2. c \in Box(IoBox) /\ ~fnNull[c] /\ \A v \in Workers : IoBox # DequeBox(v)
  BY <1>1, BoxNames, BoxContents, BoxesApart DEF SchedInv, Housed
<1>3. \A v \in Workers : Box(CpuBox(v))' = Box(CpuBox(v))
  BY <1>1, BoxContents, BoxContentsNext DEF OnCpu
<1>4. \A k \in Boxes : (\A v \in Workers : k # DequeBox(v)) =>
         \A d \in Coros : d \in Box(k)' => d \in Box(k) /\ ~(k = IoBox /\ d = c)
  BY <1>1, <1>3, BoxNames, BoxContents, BoxContentsNext, BoxesApart
<1>5. Housed' /\ \A v \in Workers : Distinct(deque'[v])
  BY <1>1, <1>2, <1>4, PushPlaces, BoxNames
<1>6. QED
  BY <1>1, <1>5 DEF SchedInv, Queues, Hands

\* A coroutine a worker was about to enqueue is on a deque.
LEMMA TodoPushPlaces ==
  ASSUME SchedInv, NEW w \in Workers, NEW x \in Workers, OthersStay(w), co' = co,
         todo[w] # <<>>, PushTo(x, Head(todo[w])),
         \/ todo' = [todo EXCEPT ![w] = Tail(@)]
         \/ todo' = [todo EXCEPT ![w] = <<>>],
         UNCHANGED <<waiters, waitQ, inflight, life, fnNull>>,
         \/ pc[w] \in {"wake", "spawnPush"} /\ pc'[w] = "code"
         \/ pc[w] = "exitWake" /\ pc'[w] = "exitWake"
  PROVE  Housed' /\ Queues' /\ Hands'
<1> DEFINE c == Head(todo[w])
<1>1. /\ todo[w] \in Seq(Coros) /\ c \in Coros /\ Distinct(todo[w])
      /\ todo \in [Workers -> Seq(Coros)]
  BY DEF SchedInv, TypeInv, TypeOK, Queues
<1>2. /\ \A v \in Workers \ {w} : todo'[v] = todo[v]
      /\ Elems(todo'[w]) \subseteq Elems(todo[w]) \ {c} /\ Distinct(todo'[w])
      /\ c \in Elems(todo[w])
  BY <1>1, ElemsTail, ElemsOfNone
<1>3. c \in Box(TodoBox(w)) /\ ~fnNull[c] /\ \A v \in Workers : TodoBox(w) # DequeBox(v)
  BY <1>1, <1>2, BoxNames, BoxContents, BoxesApart DEF SchedInv, Housed
<1>4. \A v \in Workers : Box(CpuBox(v))' = Box(CpuBox(v))
  BY OtherCpus, BoxContents, BoxContentsNext DEF OnCpu, HandPcs, CodePcs
<1>5. pc'[0] = "spawnMain" => pc[0] = "spawnMain"
  BY SchedulerAssumption DEF OthersStay, Workers
<1>6. \A k \in Boxes : (\A v \in Workers : k # DequeBox(v)) =>
         \A d \in Coros : d \in Box(k)' => d \in Box(k) /\ ~(k = TodoBox(w) /\ d = c)
  BY <1>2, <1>4, <1>5, BoxNames, BoxContents, BoxContentsNext, BoxesApart
<1>7. Housed' /\ \A v \in Workers : Distinct(deque'[v])
  BY <1>1, <1>3, <1>6, PushPlaces, BoxNames
<1>8. Hands'
  BY HandsKept DEF SchedInv, Hands, HandPcs, CodePcs
<1>9. QED
  BY <1>2, <1>7, <1>8 DEF SchedInv, Queues

\* What is spawned or woken goes from the hands of the worker to a deque.
LEMMA WakePlaces ==
  ASSUME SchedInv, NEW w \in Workers, SpawnPush(w) \/ Wake(w) \/ ExitWake(w)
  PROVE  Housed' /\ Queues' /\ Hands'
<1>1. /\ OthersStay(w) /\ co' = co /\ todo[w] # <<>>
      /\ UNCHANGED <<waiters, waitQ, inflight, life, fnNull>>
      /\ \/ pc[w] \in {"wake", "spawnPush"} /\ pc'[w] = "code"
         \/ pc[w] = "exitWake" /\ pc'[w] = "exitWake"
  BY DEF SpawnPush, Wake, ExitWake, At, Goto, OthersStay, SchedInv, TypeInv, TypeOK,
     InHand
<1>2. \/ todo' = [todo EXCEPT ![w] = Tail(@)]
      \/ todo' = [todo EXCEPT ![w] = <<>>]
  BY DEF SpawnPush, Wake, ExitWake, EnqueueWake
<1>3. PushTo(w, Head(todo[w])) \/ PushTo(0, Head(todo[w]))
  BY DEF SpawnPush, Wake, ExitWake, EnqueueWake, PushTo
<1>4. 0 \in Workers
  BY SchedulerAssumption DEF Workers
<1>5. QED
  BY <1>1, <1>2, <1>3, <1>4, TodoPushPlaces

\* No two workers have one coroutine in hand.
LEMMA SoleHand ==
  ASSUME SchedInv, NEW v \in Workers, NEW w \in Workers,
         pc[v] \in HandPcs, pc[w] \in HandPcs, co[v] = co[w]
  PROVE  v = w
<1>1. CASE \A u \in Workers \ {0} : pc[u] = "exited"
  BY <1>1 DEF HandPcs, CodePcs
<1>2. CASE \A u \in Workers : /\ pc[u] \notin {"ioBlock", "yieldPush"}
                              /\ pc[u] \in {"swap", "post"} => fnNull[co[u]]
  <2>1. OnCpu(v) /\ OnCpu(w)
    BY <1>2 DEF OnCpu
  <2>2. co[v] \in Coros /\ co[v] \in Box(CpuBox(v)) /\ co[v] \in Box(CpuBox(w))
    BY <2>1, BoxContents DEF SchedInv, TypeInv, InHand
  <2>3. CpuBox(v) = CpuBox(w)
    BY <2>2, BoxNames DEF SchedInv, Housed, Single
  <2>4. QED
    BY <2>3, BoxesApart
<1>3. QED
  BY <1>1, <1>2 DEF SchedInv, Alone

\* A new coroutine is nowhere before.
LEMMA CreatePlaces ==
  ASSUME SchedInv, NEW w \in Workers, Spawn(w) \/ (w = 0 /\ MainSpawn)
  PROVE  Housed' /\ Queues' /\ Hands'
<1>1. /\ OthersStay(w) /\ co' = co
      /\ UNCHANGED <<deque, waiters, waitQ, inflight, fnNull>>
      /\ life \in [Coros -> {"none", "live", "freed"}] /\ Main \in Coros
      /\ pc \in [Workers -> CodePcs \cup SchedPcs \cup MainPcs]
      /\ todo \in [Workers -> Seq(Coros)]
  BY SchedulerAssumption
  DEF Spawn, MainSpawn, Does, Goto, OthersStay, SchedInv, TypeInv, TypeOK
<1>2. ASSUME NEW c \in Coros, Create(c)
      PROVE  /\ life[c] = "none" /\ life' = [life EXCEPT ![c] = "live"] /\ ~fnNull[c]
             /\ \A d \in Coros : life[d] = "live" => life'[d] = "live"
             /\ \A d \in Coros : life'[d] = "none" => ~fnNull[d]
  BY <1>1, <1>2 DEF Create, SchedInv, Hands
<1>3. \A v \in Workers \ {w} : Box(CpuBox(v))' = Box(CpuBox(v))
  BY <1>1, OtherCpus
<1>4. ASSUME NEW c \in Coros, Create(c),
             pc'[w] \in HandPcs => pc[w] \in HandPcs \ {"swap", "post", "free"},
             pc'[w] \notin {"swap", "post", "free"}
      PROVE  Hands'
  <2>1. \A d \in Coros : life'[d] = "none" => ~fnNull'[d]
    BY <1>1, <1>2, <1>4
  <2>2. ASSUME NEW v \in Workers
        PROVE  /\ pc'[v] \in HandPcs => life'[co'[v]] = "live"
               /\ pc'[v] \in HandPcs \ {"swap", "post", "free"} => ~fnNull'[co'[v]]
               /\ pc'[v] = "free" => fnNull'[co'[v]]
    <3>1. /\ co'[v] = co[v] /\ fnNull' = fnNull
          /\ v # w => pc'[v] = pc[v]
      BY <1>1 DEF OthersStay
    <3>2. pc'[v] \in HandPcs => co[v] \in Coros /\ life[co[v]] = "live"
      BY <1>4, <3>1 DEF SchedInv, TypeInv, InHand, Hands
    <3>3. QED
      BY <1>2, <1>4, <3>1, <3>2 DEF SchedInv, Hands
  <2>3. QED
    BY <2>1, <2>2 DEF Hands
<1>5. CASE Spawn(w)
  <2>1. PICK c \in Coros : Create(c) /\ todo' = [todo EXCEPT ![w] = <<c>>]
    BY <1>5 DEF Spawn
  <2>2. /\ pc[w] = "code" /\ pc'[w] = "spawnPush"
        /\ Elems(todo'[w]) = {c} /\ Distinct(todo'[w])
        /\ \A v \in Workers \ {w} : todo'[v] = todo[v]
    BY <1>1, <1>5, <2>1, ElemsOfOne DEF Spawn, Does, At, Goto
  <2>3. Box(CpuBox(w))' = Box(CpuBox(w))
    BY <1>1, <2>2, BoxContents, BoxContentsNext DEF OnCpu, HandPcs, CodePcs
  <2>4. pc'[0] = "spawnMain" => pc[0] = "spawnMain"
    BY <1>1, <2>2, SchedulerAssumption DEF OthersStay, Workers
  <2>5. Added(TodoBox(w), c)
    <3>1. SUFFICES ASSUME NEW k \in Boxes, NEW d \in Coros, d \in Box(k)'
                   PROVE  (k = TodoBox(w) /\ d = c) \/ d \in Box(k)
      BY DEF Added
    <3>2. ASSUME NEW v \in Workers, k = CpuBox(v) \/ k = DequeBox(v) \/ k = TodoBox(v)
          PROVE  (k = TodoBox(w) /\ d = c) \/ d \in Box(k)
      BY <1>1, <1>3, <2>2, <2>3, <3>1, <3>2, BoxContents, BoxContentsNext
    <3>3. CASE k \in {ChannelBox, IoBox, MainBox} \/ \E u \in Coros : k = WaitersBox(u)
      BY <1>1, <2>4, <3>1, <3>3, BoxContents, BoxContentsNext
    <3>4. QED
      BY <3>2, <3>3, BoxNames
  <2>6. Housed'
    BY <1>1, <1>2, <2>1, <2>5, AddedKeeps, BoxNames DEF SchedInv, TypeInv
  <2>7. Queues'
    BY <1>1, <2>2 DEF SchedInv, Queues
  <2>8. Hands'
    BY <1>1, <1>2, <1>4, <2>1, <2>2 DEF HandPcs, CodePcs
  <2>9. QED
    BY <2>6, <2>7, <2>8
<1>6. CASE w = 0 /\ MainSpawn
  <2>1. Create(Main) /\ pc[w] = "init" /\ pc'[w] = "spawnMain" /\ todo' = todo
    BY <1>1, <1>6 DEF MainSpawn, At, Goto
  <2>2. Box(CpuBox(w))' = Box(CpuBox(w))
    BY <1>1, <2>1, BoxContents, BoxContentsNext DEF OnCpu, HandPcs, CodePcs
  <2>3. Added(MainBox, Main)
    <3>1. SUFFICES ASSUME NEW k \in Boxes, NEW d \in Coros, d \in Box(k)'
                   PROVE  (k = MainBox /\ d = Main) \/ d \in Box(k)
      BY DEF Added
    <3>2. ASSUME NEW v \in Workers, k = CpuBox(v) \/ k = DequeBox(v) \/ k = TodoBox(v)
          PROVE  d \in Box(k)
      <4>1. Box(CpuBox(v))' = Box(CpuBox(v))
        BY <1>3, <2>2
      <4>2. Box(DequeBox(v))' = Box(DequeBox(v)) /\ Box(TodoBox(v))' = Box(TodoBox(v))
        BY <1>1, <2>1, BoxContents, BoxContentsNext
      <4>3. QED
        BY <3>1, <3>2, <4>1, <4>2
    <3>3. CASE k \in {ChannelBox, IoBox, MainBox} \/ \E u \in Coros : k = WaitersBox(u)
      BY <1>1, <2>1, <3>1, <3>3, BoxContents, BoxContentsNext
    <3>4. QED
      BY <3>2, <3>3, BoxNames
  <2>4. Housed'
    BY <1>1, <1>2, <2>1, <2>3, AddedKeeps, BoxNames DEF SchedInv, TypeInv
  <2>5. Queues'
    BY <1>1, <2>1 DEF SchedInv, Queues
  <2>6. Hands'
    BY <1>1, <1>2, <1>4, <2>1 DEF HandPcs, CodePcs
  <2>7. QED
    BY <2>4, <2>5, <2>6
<1>7. QED
  BY <1>5, <1>6

\* A coroutine that is freed is nowhere else.
LEMMA FreePlaces ==
  ASSUME SchedInv, NEW w \in Workers, Free(w)
  PROVE  Housed' /\ Queues' /\ Hands'
<1> DEFINE c == co[w]
<1>1. /\ pc[w] = "free" /\ pc'[w] = "loop" /\ OthersStay(w)
      /\ life' = [life EXCEPT ![c] = "freed"]
      /\ UNCHANGED <<deque, todo, waiters, waitQ, inflight, fnNull>>
      /\ life \in [Coros -> {"none", "live", "freed"}]
  BY DEF Free, Loop, At, Goto, OthersStay, SchedInv, TypeInv, TypeOK
<1>2. c \in Coros /\ c \in Box(CpuBox(w))
  BY <1>1, BoxContents
  DEF SchedInv, TypeInv, InHand, HandPcs, CodePcs, OnCpu
<1>3. Box(CpuBox(w))' = {} /\ \A v \in Workers \ {w} : Box(CpuBox(v))' = Box(CpuBox(v))
  BY <1>1, OtherCpus, BoxContentsNext DEF OnCpu, HandPcs, CodePcs
<1>4. pc'[0] = "spawnMain" => pc[0] = "spawnMain"
  BY <1>1, SchedulerAssumption DEF OthersStay, Workers
<1>5. Stayed
  BY <1>1, <1>3, <1>4, BoxNames, BoxContents, BoxContentsNext DEF Stayed
<1>6. \A k \in Boxes : c \notin Box(k)'
  <2>1. ASSUME NEW k \in Boxes, c \in Box(k)' PROVE FALSE
    <3>1. c \in Box(k)
      BY <1>2, <1>5, <2>1 DEF Stayed
    <3>2. k = CpuBox(w)
      BY <1>2, <3>1, BoxNames DEF SchedInv, Housed, Single
    <3>3. QED
      BY <1>3, <2>1, <3>2
  <2>2. QED
    BY <2>1
<1>7. Housed'
  <2>1. Single'
    BY <1>5 DEF SchedInv, Housed, Single, Stayed
  <2>2. QED
    BY <1>1, <1>5, <1>6, <2>1 DEF SchedInv, Housed, Stayed
<1>8. Hands'
  <2>1. \A v \in Workers \ {w} : pc[v] \in HandPcs => co[v] # c
    BY <1>1, SoleHand DEF HandPcs
  <2>2. \A d \in Coros : life'[d] = "none" => ~fnNull'[d]
    BY <1>1, <1>2 DEF SchedInv, Hands
  <2>3. ASSUME NEW v \in Workers
        PROVE  /\ pc'[v] \in HandPcs => life'[co'[v]] = "live"
               /\ pc'[v] \in HandPcs \ {"swap", "post", "free"} => ~fnNull'[co'[v]]
               /\ pc'[v] = "free" => fnNull'[co'[v]]
    <3>1. CASE v = w
      BY <1>1, <3>1 DEF HandPcs, CodePcs
    <3>2. CASE v # w
      <4>1. pc'[v] = pc[v] /\ co'[v] = co[v] /\ fnNull' = fnNull
        BY <1>1, <3>2 DEF OthersStay
      <4>2. pc[v] \in HandPcs => life'[co[v]] = life[co[v]]
        BY <1>1, <2>1, <3>2 DEF SchedInv, TypeInv, InHand
      <4>3. QED
        BY <4>1, <4>2 DEF SchedInv, Hands
    <3>3. QED
      BY <3>1, <3>2
  <2>4. QED
    BY <2>2, <2>3 DEF Hands
<1>9. Queues'
  BY <1>1 DEF SchedInv, Queues
<1>10. QED
  BY <1>7, <1>8, <1>9

\* An exiting coroutine takes all its waiters at once.
LEMMA ExitTakePlaces ==
  ASSUME SchedInv, NEW w \in Workers, ExitTake(w)
  PROVE  Housed' /\ Queues' /\ Hands'
<1> DEFINE t == co[w]
<1>1. /\ pc[w] = "exitTake" /\ pc'[w] = "exitWake" /\ OthersStay(w) /\ co' = co
      /\ UNCHANGED <<deque, waitQ, inflight, life, fnNull>> /\ t \in Coros
  BY DEF ExitTake, At, Goto, OthersStay, global, SchedInv, TypeInv, TypeOK, InHand,
     HandPcs, CodePcs
<1>2. /\ todo'[w] = waiters[t] /\ \A v \in Workers \ {w} : todo'[v] = todo[v]
      /\ waiters'[t] = <<>> /\ \A u \in Coros \ {t} : waiters'[u] = waiters[u]
  BY <1>1 DEF ExitTake, SchedInv, TypeInv, TypeOK
<1>3. \A v \in Workers : Box(CpuBox(v))' = Box(CpuBox(v))
  BY <1>1, OtherCpus, BoxContents, BoxContentsNext DEF OnCpu, HandPcs, CodePcs
<1>4. pc'[0] = "spawnMain" => pc[0] = "spawnMain"
  BY <1>1, SchedulerAssumption DEF OthersStay, Workers
<1>5. ASSUME NEW k \in Boxes, NEW d \in Coros, d \in Box(k)'
      PROVE  \/ k = TodoBox(w) /\ d \in Box(WaitersBox(t))
             \/ k # WaitersBox(t) /\ d \in Box(k)
  <2>1. CASE \E v \in Workers : k = CpuBox(v) \/ k = DequeBox(v)
    <3>1. Box(k)' = Box(k)
      BY <1>1, <1>3, <2>1, BoxContents, BoxContentsNext
    <3>2. QED
      BY <1>1, <1>5, <2>1, <3>1, BoxesApart
  <2>2. ASSUME NEW v \in Workers, k = TodoBox(v)
        PROVE  \/ k = TodoBox(w) /\ d \in Box(WaitersBox(t))
               \/ k # WaitersBox(t) /\ d \in Box(k)
    BY <1>1, <1>2, <1>5, <2>2, BoxContents, BoxContentsNext, BoxesApart
  <2>3. ASSUME NEW u \in Coros, k = WaitersBox(u)
        PROVE  k # WaitersBox(t) /\ d \in Box(k)
    BY <1>1, <1>2, <1>5, <2>3, ElemsOfNone, BoxContents, BoxContentsNext, BoxesApart
  <2>4. CASE k = ChannelBox \/ k = IoBox \/ k = MainBox
    BY <1>1, <1>4, <1>5, <2>4, BoxContents, BoxContentsNext, BoxesApart
  <2>5. QED
    BY <2>1, <2>2, <2>3, <2>4, BoxNames
<1>6. /\ TodoBox(w) \in Boxes /\ WaitersBox(t) \in Boxes
      /\ \A v \in Workers : WaitersBox(t) # CpuBox(v)
  BY <1>1, BoxNames, BoxesApart
<1>7. Housed'
  <2>1. Single'
    BY <1>5, <1>6 DEF SchedInv, Housed, Single
  <2>2. QED
    BY <1>1, <1>5, <1>6, <2>1 DEF SchedInv, Housed
<1>8. Queues'
  BY <1>1, <1>2, ElemsOfNone DEF SchedInv, Queues
<1>9. Hands'
  BY <1>1, HandsKept DEF SchedInv, Hands, HandPcs, CodePcs
<1>10. QED
  BY <1>7, <1>8, <1>9

\* Its last worker alone has it in hand when `fn` is cleared.
LEMMA ExitSwapPlaces ==
  ASSUME SchedInv, NEW w \in Workers, ExitSwap(w)
  PROVE  Housed' /\ Queues' /\ Hands'
<1> DEFINE c == co[w]
<1>1. /\ pc[w] = "exitWake" /\ pc'[w] = "swap" /\ OthersStay(w) /\ co' = co
      /\ fnNull' = [fnNull EXCEPT ![c] = TRUE] /\ c \in Coros
      /\ UNCHANGED <<deque, todo, waiters, waitQ, inflight, life>>
      /\ fnNull \in [Coros -> BOOLEAN]
  BY DEF ExitSwap, At, Goto, OthersStay, global, SchedInv, TypeInv, TypeOK, InHand,
     HandPcs, CodePcs
<1>2. \A v \in Workers \ {w} : pc[v] \in HandPcs => co[v] # c /\ co[v] \in Coros
  BY <1>1, SoleHand DEF SchedInv, TypeInv, InHand, HandPcs, CodePcs
<1>3. \A v \in Workers : OnCpu(v)' => OnCpu(v)
  BY <1>1, <1>2 DEF OnCpu, OthersStay, HandPcs, CodePcs
<1>4. pc'[0] = "spawnMain" => pc[0] = "spawnMain"
  BY <1>1, SchedulerAssumption DEF OthersStay, Workers
<1>5. Stayed
  BY <1>1, <1>3, <1>4, BoxNames, BoxContents, BoxContentsNext DEF Stayed
<1>6. c \in Box(CpuBox(w)) /\ CpuBox(w) \in Boxes
  BY <1>1, BoxContents, BoxNames DEF OnCpu, HandPcs, CodePcs
<1>7. Housed'
  <2>1. Single'
    BY <1>5 DEF SchedInv, Housed, Single, Stayed
  <2>2. \A k \in Boxes : c \in Box(k) => k = CpuBox(w)
    BY <1>1, <1>6 DEF SchedInv, Housed, Single
  <2>3. \A d \in Coros \ {c} : fnNull'[d] = fnNull[d]
    BY <1>1
  <2>4. QED
    BY <1>1, <1>5, <2>1, <2>2, <2>3 DEF SchedInv, Housed, Stayed
<1>8. Hands'
  <2>1. \A d \in Coros : life'[d] = "none" => ~fnNull'[d]
    BY <1>1 DEF SchedInv, Hands, HandPcs, CodePcs
  <2>2. ASSUME NEW v \in Workers
        PROVE  /\ pc'[v] \in HandPcs => life'[co'[v]] = "live"
               /\ pc'[v] \in HandPcs \ {"swap", "post", "free"} => ~fnNull'[co'[v]]
               /\ pc'[v] = "free" => fnNull'[co'[v]]
    <3>1. CASE v = w
      BY <1>1, <3>1 DEF SchedInv, Hands, HandPcs, CodePcs
    <3>2. CASE v # w
      BY <1>1, <1>2, <3>2 DEF SchedInv, Hands, OthersStay, HandPcs
    <3>3. QED
      BY <3>1, <3>2
  <2>3. QED
    BY <2>1, <2>2 DEF Hands
<1>9. Queues'
  BY <1>1 DEF SchedInv, Queues
<1>10. QED
  BY <1>7, <1>8, <1>9
--------------------------------------------------------------------------------
(* The other parts of the invariant. *)

\* Every step of a worker leaves the coroutines and the places of the others alone.
LEMMA StepPlaces ==
  ASSUME SchedInv, NEW w \in Workers, WorkerStep(w)
  PROVE  Housed' /\ Queues' /\ Hands'
<1>1. CASE BodyStep(w)
  BY <1>1, CreatePlaces, QuietPlaces, AwaitPlaces, BlockPlaces, NotifyPlaces DEF BodyStep
<1>2. CASE RuntimeStep(w)
  <2>1. CASE LoopPop(w)
    <3>1. CASE PopOwn(w)
      BY <2>1, <3>1, PickPlaces DEF LoopPop, At
    <3>2. CASE FindsNothing(w, "empty")
      BY <3>2, QuietPlaces
    <3>3. QED
      BY <2>1, <3>1, <3>2 DEF LoopPop
  <2>2. CASE LoopSteal(w)
    <3>1. ASSUME NEW v \in Workers \ {w}, StealFrom(w, v) PROVE Housed' /\ Queues' /\ Hands'
      BY <2>2, <3>1, PickPlaces DEF LoopSteal, At
    <3>2. CASE FindsNothing(w, "loop")
      BY <3>2, QuietPlaces
    <3>3. QED
      BY <2>2, <3>1, <3>2 DEF LoopSteal
  <2>3. CASE \/ LoopEmpty(w) \/ Resume(w) \/ SwapOut(w) \/ CheckFn(w) \/ IoBlock(w)
             \/ PreemptTick(w)
    BY <2>3, QuietPlaces
  <2>4. CASE SpawnPush(w) \/ Wake(w) \/ ExitWake(w)
    BY <2>4, WakePlaces
  <2>5. CASE Free(w) \/ YieldPush(w) \/ ExitTake(w) \/ ExitSwap(w)
    BY <2>5, FreePlaces, YieldPushPlaces, ExitTakePlaces, ExitSwapPlaces
  <2>6. QED
    BY <1>2, <2>1, <2>2, <2>3, <2>4, <2>5 DEF RuntimeStep
<1>3. CASE w = 0 /\ MainStep
  <2>1. CASE MainSpawn \/ MainEnqueue
    BY <1>3, <2>1, CreatePlaces, MainEnqueuePlaces
  <2>2. CASE SetFlag \/ DrainCheck \/ Join
    BY <1>3, <2>2, QuietPlaces
  <2>3. CASE Drain
    <3>1. CASE PopOwn(0)
      BY <1>3, <2>3, <3>1, PickPlaces DEF Drain, At
    <3>2. CASE FindsNothing(0, "drainSteal")
      BY <1>3, <3>2, QuietPlaces
    <3>3. QED
      BY <2>3, <3>1, <3>2 DEF Drain
  <2>4. CASE DrainSteal
    <3>1. ASSUME NEW v \in Workers \ {0}, StealFrom(0, v) PROVE Housed' /\ Queues' /\ Hands'
      BY <1>3, <2>4, <3>1, PickPlaces DEF DrainSteal, At
    <3>2. CASE FindsNothing(0, "loop")
      BY <1>3, <3>2, QuietPlaces
    <3>3. QED
      BY <2>4, <3>1, <3>2 DEF DrainSteal
  <2>5. QED
    BY <1>3, <2>1, <2>2, <2>3, <2>4 DEF MainStep
<1>4. QED
  BY <1>1, <1>2, <1>3 DEF WorkerStep

\* What each step of a worker can change of what the rest of the invariant is about.
LEMMA StepChanges ==
  ASSUME TypeInv, NEW w \in Workers, WorkerStep(w)
  PROVE  /\ OthersStay(w) /\ pc[w] # "exited"
         /\ \A c \in Coros : fnNull[c] => fnNull'[c]
         /\ pc'[w] = "swap" =>
              \/ ExitSwap(w) \/ Yield(w) \/ (\E t \in Coros : Await(w, t)) \/ Park(w)
              \/ IoBlock(w) \/ YieldPush(w)
         /\ pc'[w] = "post" => pc[w] = "swap" /\ UNCHANGED <<co, fnNull>>
         /\ pc'[w] = "ioBlock" => IoSubmit(w)
         /\ pc'[w] = "yieldPush" => Yield(w)
         /\ pc'[w] \in CodePcs =>
              \/ Resume(w) \/ Spawn(w)
              \/ pc[w] \in CodePcs /\ UNCHANGED <<co, life, fresh>>
         /\ UNCHANGED <<active, life>> \/ Spawn(w) \/ Free(w) \/ (w = 0 /\ MainSpawn)
         /\ pc'[w] \in {"join", "finished"} => w = 0 /\ (DrainCheck \/ Join)
<1> USE DEF TypeInv, TypeOK, At, Goto, OthersStay, global, coroVars, CodePcs
<1>1. CASE Spawn(w) \/ Notify(w) \/ Spin(w) \/ ExitDone(w)
  BY <1>1 DEF Spawn, Notify, Spin, ExitDone, Does
<1>2. CASE Yield(w) \/ (\E t \in Coros : Await(w, t)) \/ Park(w) \/ IoSubmit(w)
  <2>1. /\ pc[w] = "code" /\ co' = co /\ UNCHANGED <<active, life, fnNull, fresh>>
        /\ pc' = pc \/ \E to \in {"yieldPush", "swap", "ioBlock"} : Goto(w, to)
    BY <1>2 DEF Yield, Await, Park, IoSubmit, Does
  <2>2. /\ pc'[w] = "yieldPush" => Yield(w)
        /\ pc'[w] = "ioBlock" <=> IoSubmit(w)
    BY <1>2, <2>1 DEF Yield, Await, Park, IoSubmit
  <2>3. QED
    BY <1>2, <2>1, <2>2
<1>3. CASE LoopPop(w) \/ LoopEmpty(w) \/ LoopSteal(w)
  BY <1>3, ZenonT(30)
  DEF LoopPop, LoopEmpty, LoopSteal, PopOwn, StealFrom, Pick, FindsNothing
<1>4. CASE Resume(w) \/ SwapOut(w) \/ CheckFn(w) \/ Free(w)
  BY <1>4 DEF Resume, SwapOut, CheckFn, Free, Loop
<1>5. CASE SpawnPush(w) \/ YieldPush(w) \/ Wake(w) \/ IoBlock(w) \/ PreemptTick(w)
  BY <1>5 DEF SpawnPush, YieldPush, Wake, IoBlock, PreemptTick
<1>6. CASE ExitTake(w) \/ ExitWake(w) \/ ExitSwap(w)
  BY <1>6 DEF ExitTake, ExitWake, ExitSwap
<1>7. CASE w = 0 /\ (MainSpawn \/ MainEnqueue \/ SetFlag \/ DrainCheck \/ Join)
  BY <1>7 DEF MainSpawn, MainEnqueue, SetFlag, DrainCheck, Join, FindsNothing
<1>8. CASE w = 0 /\ (Drain \/ DrainSteal)
  BY <1>8, SMTT(30) DEF Drain, DrainSteal, PopOwn, StealFrom, Pick, FindsNothing
<1>9. QED
  BY <1>1, <1>2, <1>3, <1>4, <1>5, <1>6, <1>7, <1>8
  DEF WorkerStep, BodyStep, RuntimeStep, MainStep

\* Either one worker runs, or no worker swaps away from a coroutine it has handed on.
LEMMA AloneKept ==
  ASSUME SchedInv, NEW w \in Workers, WorkerStep(w), scenario' = scenario
  PROVE  Alone'
<1>1. /\ OthersStay(w) /\ pc[w] # "exited"
      /\ \A c \in Coros : fnNull[c] => fnNull'[c]
  BY StepChanges DEF SchedInv
<1>2. CASE \A v \in Workers \ {0} : pc[v] = "exited"
  BY <1>1, <1>2 DEF Alone, OthersStay
<1>3. CASE /\ scenario.ops \cap Handover = {}
           /\ \A v \in Workers :
                /\ pc[v] \notin {"ioBlock", "yieldPush"}
                /\ pc[v] \in {"swap", "post"} => fnNull[co[v]]
  <2>1. /\ ~Yield(w) /\ ~Park(w) /\ ~IoSubmit(w) /\ ~IoBlock(w) /\ ~YieldPush(w)
        /\ \A t \in Coros : ~Await(w, t)
    BY <1>3 DEF Yield, Park, IoSubmit, IoBlock, YieldPush, Await, Does, At, Handover
  <2>2. /\ pc'[w] \notin {"ioBlock", "yieldPush"}
        /\ pc'[w] = "swap" => ExitSwap(w)
        /\ pc'[w] = "post" => pc[w] = "swap" /\ UNCHANGED <<co, fnNull>>
    BY <2>1, StepChanges DEF SchedInv
  <2>3. ExitSwap(w) => fnNull'[co'[w]]
    BY DEF ExitSwap, At, SchedInv, TypeInv, TypeOK, InHand, HandPcs, CodePcs
  <2>4. pc'[w] \in {"swap", "post"} => fnNull'[co'[w]]
    BY <1>3, <2>2, <2>3
  <2>5. ASSUME NEW v \in Workers \ {w}
        PROVE  /\ pc'[v] \notin {"ioBlock", "yieldPush"}
               /\ pc'[v] \in {"swap", "post"} => fnNull'[co'[v]]
    BY <1>1, <1>3 DEF OthersStay, SchedInv, TypeInv, InHand, HandPcs, CodePcs
  <2>6. QED
    BY <1>3, <2>2, <2>4, <2>5 DEF Alone
<1>4. QED
  BY <1>2, <1>3 DEF SchedInv, Alone

\* With an operation of Handover, worker 0 works alone.
LEMMA FirstAlone ==
  ASSUME SchedInv, NEW w \in Workers, WorkerStep(w), scenario.ops \cap Handover # {}
  PROVE  w = 0
  BY StepChanges DEF SchedInv, Alone

\* A child spawned since the parent was last resumed has not run: it is not freed.
LEMMA FreshLiveKept ==
  ASSUME SchedInv, NEW w \in Workers, WorkerStep(w), scenario' = scenario
  PROVE  FreshLive'
<1>1. SUFFICES ASSUME scenario.ops \cap Handover # {}, pc'[0] \in CodePcs,
                      NEW t \in fresh'[co'[0]]
               PROVE  life'[t] = "live"
  BY DEF FreshLive
<1>2. w = 0
  BY <1>1, FirstAlone
<1>3. \/ Resume(w) \/ Spawn(w)
      \/ pc[w] \in CodePcs /\ UNCHANGED <<co, life, fresh>>
  BY <1>1, <1>2, StepChanges DEF SchedInv
<1>4. CASE Resume(w)
  <2>1. co[w] \in Coros
    BY <1>4 DEF Resume, At, SchedInv, TypeInv, InHand, HandPcs
  <2>2. fresh'[co'[w]] = {}
    BY <1>4, <2>1 DEF Resume, SchedInv, TypeInv, TypeOK
  <2>3. QED
    BY <1>1, <1>2, <2>2
<1>5. CASE Spawn(w)
  <2>1. co[w] \in Coros /\ pc[w] = "code" /\ co' = co
    BY <1>5 DEF Spawn, Does, At, SchedInv, TypeInv, InHand, HandPcs, CodePcs
  <2>2. PICK c \in Coros : Create(c) /\ fresh'[co[w]] = fresh[co[w]] \cup {c}
    BY <1>5, <2>1 DEF Spawn, SchedInv, TypeInv, TypeOK
  <2>3. life' = [life EXCEPT ![c] = "live"] /\ life \in [Coros -> {"none", "live", "freed"}]
    BY <2>2 DEF Create, SchedInv, TypeInv, TypeOK
  <2>4. t = c \/ t \in fresh[co[w]]
    BY <1>1, <1>2, <2>1, <2>2
  <2>5. t \in fresh[co[w]] => t \in Coros /\ life[t] = "live"
    BY <1>1, <1>2, <2>1 DEF SchedInv, FreshLive, TypeInv, TypeOK, CodePcs
  <2>6. QED
    BY <2>2, <2>3, <2>4, <2>5
<1>6. CASE pc[w] \in CodePcs /\ UNCHANGED <<co, life, fresh>>
  BY <1>1, <1>2, <1>6 DEF SchedInv, FreshLive
<1>7. QED
  BY <1>3, <1>4, <1>5, <1>6

\* A store into the state of a live coroutine touches no freed memory.
LEMMA StoreSafe ==
  ASSUME NEW c \in Coros, NEW to \in States, life[c] = "live", NoFreedAccess, Store(c, to)
  PROVE  fault' # "freed"
  BY DEF Store, NoFreedAccess

\* No step of a worker touches freed memory: whatever it has in hand, is about to
\* enqueue or awaits is live, and what it frees nobody else has in hand.
LEMMA FreedUntouched ==
  ASSUME ~LateAwait, SchedInv, NEW w \in Workers, WorkerStep(w)
  PROVE  fault' # "freed"
<1>1. NoFreedAccess /\ fault # "freed"
  BY DEF SchedInv, NoFreedAccess
<1>2. pc[w] \in HandPcs => co[w] \in Coros /\ life[co[w]] = "live"
  BY DEF SchedInv, TypeInv, InHand, Hands
<1>3. todo[w] # <<>> => Head(todo[w]) \in Coros /\ life[Head(todo[w])] = "live"
  <2>1. todo[w] \in Seq(Coros) /\ TodoBox(w) \in Boxes
    BY BoxNames DEF SchedInv, TypeInv, TypeOK
  <2>2. todo[w] # <<>> => Head(todo[w]) \in Coros /\ Head(todo[w]) \in Box(TodoBox(w))
    BY <2>1, BoxContents, ElemsTail DEF SchedInv, Queues
  <2>3. QED
    BY <2>1, <2>2 DEF SchedInv, Housed
<1>4. "runnable" \in States /\ "running" \in States /\ "blocked" \in States /\ "done" \in States
  BY DEF States
<1>5. CASE Resume(w) \/ Park(w) \/ IoBlock(w) \/ ExitDone(w)
  <2>1. pc[w] \in HandPcs /\ \E to \in States : Store(co[w], to)
    BY <1>4, <1>5 DEF Resume, Park, IoBlock, ExitDone, Does, At, HandPcs, CodePcs
  <2>2. QED
    BY <1>1, <1>2, <2>1, StoreSafe
<1>6. CASE SpawnPush(w) \/ Wake(w) \/ ExitWake(w)
  <2>1. todo[w] # <<>> /\ Store(Head(todo[w]), "runnable")
    BY <1>6 DEF SpawnPush, Wake, ExitWake, EnqueueWake, At, SchedInv, TypeInv, InHand
  <2>2. QED
    BY <1>1, <1>3, <1>4, <2>1, StoreSafe
<1>7. ASSUME NEW t \in Coros, Await(w, t) PROVE fault' # "freed"
  <2>1. pc[w] = "code" /\ "await" \in scenario.ops /\ t \in fresh[co[w]]
    BY <1>7 DEF Await, Does, At
  <2>2. w = 0
    BY <2>1, FirstAlone DEF Handover
  <2>3. life[t] = "live"
    BY <2>1, <2>2 DEF SchedInv, FreshLive, Handover, CodePcs
  <2>4. fault' = fault \/ Store(co[w], "blocked")
    BY <1>7, <2>3 DEF Await
  <2>5. QED
    BY <1>1, <1>2, <1>4, <2>1, <2>4, StoreSafe DEF HandPcs, CodePcs
<1>8. CASE CheckFn(w)
  BY <1>1, <1>2, <1>8 DEF CheckFn, At, HandPcs
<1>9. CASE Free(w)
  <2>1. pc[w] = "free" /\ life[co[w]] = "live"
    BY <1>2, <1>9 DEF Free, At, HandPcs
  <2>2. ~InUse(co[w])
    BY <2>1, SoleHand DEF InUse, HandPcs, CodePcs
  <2>3. QED
    BY <1>1, <1>9, <2>1, <2>2 DEF Free
<1>10. CASE Yield(w)
  BY <1>1, <1>10 DEF Yield
<1>11. CASE \/ Spawn(w) \/ Notify(w) \/ IoSubmit(w) \/ Spin(w) \/ LoopPop(w) \/ LoopEmpty(w)
            \/ LoopSteal(w) \/ SwapOut(w) \/ YieldPush(w) \/ PreemptTick(w) \/ ExitTake(w)
            \/ ExitSwap(w) \/ MainStep
  BY <1>1, <1>11
  DEF Spawn, Notify, IoSubmit, Spin, LoopPop, LoopEmpty, LoopSteal, SwapOut, YieldPush,
      PreemptTick, ExitTake, ExitSwap, MainStep, MainSpawn, MainEnqueue, SetFlag, DrainCheck,
      Drain, DrainSteal, Join, PopOwn, StealFrom, Pick, FindsNothing
<1>12. QED
  BY <1>5, <1>6, <1>7, <1>8, <1>9, <1>10, <1>11 DEF WorkerStep, BodyStep, RuntimeStep

\* active_coros goes with the live coroutines, and once worker 0 has found it zero no
\* step can make another: none is left to spawn it.
LEMMA AccountsKept ==
  ASSUME SchedInv, NEW w \in Workers, WorkerStep(w)
  PROVE  Accounts'
<1>1. /\ life \in [Coros -> {"none", "live", "freed"}] /\ Main \in Coros /\ 0 \in Workers
      /\ IsFiniteSet(Live) /\ active = Cardinality(Live) /\ active \in Nat
  BY SchedulerAssumption, FS_CardinalityType
  DEF SchedInv, Accounts, TypeInv, TypeOK, Workers
<1>2. pc'[0] \in {"join", "finished"} /\ pc[0] \notin {"join", "finished"} => DrainCheck
  <2>1. CASE w = 0
    <3>1. Join => pc[0] = "join"
      BY DEF Join, At
    <3>2. QED
      BY <2>1, <3>1, StepChanges DEF SchedInv
  <2>2. CASE w # 0
    BY <1>1, <2>2, StepChanges DEF SchedInv, OthersStay
  <2>3. QED
    BY <2>1, <2>2
<1>3. DrainCheck => /\ pc'[0] \in {"join", "finished"} => Live = {}
                    /\ UNCHANGED <<active, life>>
  <2>1. DrainCheck => (pc'[0] \in {"join", "finished"} => ~(active > 0))
    BY <1>1 DEF DrainCheck, At, Goto, SchedInv, TypeInv, TypeOK
  <2>2. ~(active > 0) => Live = {}
    BY <1>1, FS_EmptySet
  <2>3. DrainCheck => UNCHANGED <<active, life>>
    BY DEF DrainCheck, global, coroVars
  <2>4. QED
    BY <2>1, <2>2, <2>3
<1>4. CASE UNCHANGED <<active, life>>
  <2>1. Live' = Live
    BY <1>4 DEF Live
  <2>2. QED
    BY <1>1, <1>2, <1>3, <1>4, <2>1 DEF SchedInv, Accounts
<1>5. CASE Spawn(w) \/ (w = 0 /\ MainSpawn)
  <2>1. PICK c \in Coros : Create(c)
    BY <1>1, <1>5 DEF Spawn, MainSpawn
  <2>2. Live' = Live \cup {c} /\ c \notin Live /\ active' = active + 1
    BY <1>1, <2>1 DEF Create, Live
  <2>3. IsFiniteSet(Live') /\ active' = Cardinality(Live')
    BY <1>1, <2>2, FS_AddElement
  <2>4. pc'[0] \notin {"join", "finished"}
    <3>1. CASE Spawn(w)
      <4>1. pc[w] = "code" /\ pc'[w] = "spawnPush" /\ OthersStay(w)
        BY <3>1, StepChanges DEF Spawn, Does, At, Goto, SchedInv, TypeInv, TypeOK
      <4>2. Live # {}
        BY <4>1 DEF Live, SchedInv, TypeInv, InHand, Hands, HandPcs, CodePcs
      <4>3. QED
        BY <1>1, <4>1, <4>2 DEF OthersStay, SchedInv, Accounts
    <3>2. CASE w = 0 /\ MainSpawn
      BY <3>2 DEF MainSpawn, Goto, SchedInv, TypeInv, TypeOK
    <3>3. QED
      BY <1>5, <3>1, <3>2
  <2>5. QED
    BY <2>3, <2>4 DEF Accounts
<1>6. CASE Free(w)
  <2>1. /\ pc[w] = "free" /\ co[w] \in Coros /\ life[co[w]] = "live"
        /\ life' = [life EXCEPT ![co[w]] = "freed"] /\ active' = active - 1
    BY <1>6 DEF Free, At, SchedInv, TypeInv, InHand, Hands, HandPcs
  <2>2. Live' = Live \ {co[w]} /\ co[w] \in Live
    BY <1>1, <2>1 DEF Live
  <2>3. IsFiniteSet(Live') /\ active' = Cardinality(Live')
    BY <1>1, <2>1, <2>2, FS_RemoveElement
  <2>4. ~DrainCheck
    BY <1>6
    DEF Free, DrainCheck, At, Loop, global, coroVars, Goto, SchedInv, TypeInv, TypeOK
  <2>5. pc'[0] \in {"join", "finished"} => Live = {}
    BY <1>2, <2>2, <2>4 DEF SchedInv, Accounts
  <2>6. QED
    BY <2>2, <2>3, <2>5 DEF Accounts
<1>7. QED
  BY <1>4, <1>5, <1>6, StepChanges DEF SchedInv
--------------------------------------------------------------------------------
(* The invariant, and what follows from it. *)

\* The invariant holds at the start, where every box is empty.
LEMMA InitInv ==
  ASSUME Separate, Init
  PROVE  SchedInv
<1>1. /\ TypeInv /\ 0 \in Workers
      /\ \A w \in Workers : pc[w] \in {"init", "loop", "exited"} /\ (w # 0 => pc[w] # "init")
  BY InitTyped, SchedulerAssumption DEF Init, Workers
<1>2. \A k \in Boxes : Box(k) = {}
  BY <1>1, BoxNames, BoxContents, ElemsOfNone DEF Init, OnCpu, HandPcs, CodePcs
<1>3. Housed /\ Queues
  BY <1>2, ElemsOfNone DEF Housed, Single, Queues, Init
<1>4. Hands /\ FreshLive /\ NoFreedAccess
  BY <1>1 DEF Init, Hands, FreshLive, NoFreedAccess, HandPcs, CodePcs
<1>5. Alone
  <2>1. CASE scenario.workers = 1
    <3>1. \A w \in Workers \ {0} : pc[w] = "exited"
      BY <2>1 DEF Init, Workers
    <3>2. QED
      BY <3>1 DEF Alone
  <2>2. CASE scenario.ops \cap Handover = {}
    BY <1>1, <2>2 DEF Alone
  <2>3. QED
    BY <2>1, <2>2 DEF Init, Separate
<1>6. Accounts
  <2>1. Live = {}
    BY DEF Init, Live
  <2>2. pc[0] \notin {"join", "finished"}
    BY <1>1
  <2>3. QED
    BY <2>1, <2>2, FS_EmptySet DEF Accounts, Init
<1>7. QED
  BY <1>1, <1>3, <1>4, <1>5, <1>6 DEF SchedInv

\* Every step keeps it.
LEMMA NextInv ==
  ASSUME ~LateAwait, SchedInv, [Next]_vars
  PROVE  SchedInv'
<1>1. TypeInv'
  BY NextTyped DEF SchedInv
<1>2. CASE UNCHANGED vars
  <2>1. \A w \in Workers : OnCpu(w)' = OnCpu(w)
    BY <1>2 DEF vars, coroVars, workerVars, OnCpu
  <2>2. \A k \in Boxes : Box(k)' = Box(k)
    <3>1. UNCHANGED <<co, deque, todo, waiters, waitQ, inflight, pc>>
      BY <1>2 DEF vars, global, coroVars, workerVars
    <3>2. ASSUME NEW w \in Workers, NEW k \in {CpuBox(w), DequeBox(w), TodoBox(w)}
          PROVE  Box(k)' = Box(k)
      BY <2>1, <3>1, BoxContents, BoxContentsNext
    <3>3. \A t \in Coros : Box(WaitersBox(t))' = Box(WaitersBox(t))
      BY <3>1, BoxContents, BoxContentsNext
    <3>4. \A k \in {ChannelBox, IoBox, MainBox} : Box(k)' = Box(k)
      BY <3>1, BoxContents, BoxContentsNext
    <3>5. QED
      BY <3>2, <3>3, <3>4, BoxNames
  <2>3. Housed' /\ Queues'
    BY <1>2, <2>2 DEF SchedInv, Housed, Single, Queues, vars, global, coroVars, workerVars
  <2>4. Hands' /\ Alone' /\ FreshLive' /\ NoFreedAccess' /\ Accounts'
    BY <1>2 DEF SchedInv, Hands, Alone, FreshLive, NoFreedAccess, Accounts, Live,
                vars, global, coroVars, workerVars
  <2>5. QED
    BY <1>1, <2>3, <2>4 DEF SchedInv
<1>3. ASSUME NEW w \in Workers, WorkerStep(w), scenario' = scenario
      PROVE  SchedInv'
  <2>1. Housed' /\ Queues' /\ Hands'
    BY <1>3, StepPlaces
  <2>2. Alone' /\ FreshLive' /\ Accounts'
    BY <1>3, AloneKept, FreshLiveKept, AccountsKept
  <2>3. NoFreedAccess'
    BY <1>3, FreedUntouched DEF NoFreedAccess
  <2>4. QED
    BY <1>1, <2>1, <2>2, <2>3 DEF SchedInv
<1>4. ASSUME NEW c \in Coros, IoComplete(c), scenario' = scenario
      PROVE  SchedInv'
  <2>1. Housed' /\ Queues' /\ Hands'
    BY <1>4, IoCompletePlaces
  <2>2. Alone' /\ FreshLive' /\ NoFreedAccess' /\ Accounts'
    BY <1>4
    DEF IoComplete, coroVars, workerVars, SchedInv, Alone, FreshLive, NoFreedAccess,
                Accounts, Live
  <2>3. QED
    BY <1>1, <2>1, <2>2 DEF SchedInv
<1>5. QED
  BY <1>2, <1>3, <1>4 DEF Next, Running

\* And so it holds in every state.
LEMMA SchedInvAlways ==
  ASSUME ~LateAwait, Separate
  PROVE  Spec => []SchedInv
<1>1. Init => SchedInv
  BY InitInv
<1>2. SchedInv /\ [Next]_vars => SchedInv'
  BY NextInv
<1>3. QED
  BY <1>1, <1>2, PTL DEF Spec

\* active_coros counts exactly the coroutines not yet freed, whatever their number and
\* that of the workers.
THEOREM AccountingExact ==
  ASSUME ~LateAwait, Separate
  PROVE  Spec => []ActiveCounts
<1>1. SchedInv => ActiveCounts
  BY DEF SchedInv, Accounts, ActiveCounts
<1>2. QED
  BY <1>1, SchedInvAlways, PTL

\* The drain loop of ty_sched_shutdown ends only when nothing is left: no coroutine is
\* live, and no deque holds one.
THEOREM DrainLeavesNothing ==
  ASSUME ~LateAwait, Separate
  PROVE  Spec => []DrainWaits
<1>1. SchedInv => DrainWaits
  <2>1. SUFFICES ASSUME SchedInv, pc[0] \in {"join", "finished"}
                 PROVE  Live = {} /\ \A w \in Workers : deque[w] = <<>>
    BY DEF DrainWaits
  <2>2. Live = {}
    BY <2>1 DEF SchedInv, Accounts
  <2>3. ASSUME NEW w \in Workers, deque[w] # <<>> PROVE FALSE
    <3>1. deque[w] \in Seq(Coros) /\ DequeBox(w) \in Boxes
      BY <2>1, BoxNames DEF SchedInv, TypeInv, TypeOK
    <3>2. Head(deque[w]) \in Coros /\ Head(deque[w]) \in Box(DequeBox(w))
      BY <2>1, <2>3, <3>1, BoxContents, ElemsTail DEF SchedInv, Queues
    <3>3. QED
      BY <2>1, <2>2, <3>1, <3>2 DEF SchedInv, Housed, Live
  <2>4. QED
    BY <2>2, <2>3
<1>2. QED
  BY <1>1, SchedInvAlways, PTL

\* Nothing accesses a coroutine that coro_free has unmapped, nor is one unmapped while a
\* worker is on its stack.
THEOREM FreedNeverAccessed ==
  ASSUME ~LateAwait, Separate
  PROVE  Spec => []NoFreedAccess
<1>1. SchedInv => NoFreedAccess
  BY DEF SchedInv
<1>2. QED
  BY <1>1, SchedInvAlways, PTL

\* What scheduler.h:13-14 says of stacks and arenas does hold where no operation hands the
\* running coroutine on before its worker has left it, or where one worker runs.
THEOREM StacksNotShared ==
  ASSUME ~LateAwait, Separate
  PROVE  Spec => []OneRunner
<1>1. SchedInv => OneRunner
  BY SoleHand DEF OneRunner, HandPcs
<1>2. QED
  BY <1>1, SchedInvAlways, PTL
================================================================================
