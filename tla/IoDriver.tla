-------------------------------- MODULE IoDriver -------------------------------
(***************************************************************************)
(* The I/O driver on Linux (runtime/io_driver.c): the pool of requests,    *)
(* the map from io_uring tokens to requests, the poll thread, the result   *)
(* slot of a coroutine, and the stop of the poll thread at the end.        *)
(*                                                                         *)
(* Parking is "parked until woken": what the scheduler does with a         *)
(* coroutine that is woken before it has parked is the subject of module   *)
(* Scheduler.  The kernel completes requests in any order; what happens    *)
(* under submit_lock is one action.                                        *)
(***************************************************************************)
EXTENDS Naturals, Sequences, FiniteSets

CONSTANTS
    Coros,      \* coroutines that do I/O
    Cap,        \* PENDING_CAP: requests of the pool, and entries of the map
    MaxCalls,   \* bound on the calls of each coroutine
    Nothing,    \* NULL, and a result slot that was never written
    Timely      \* whether a request is over before Cap later ones are submitted

ASSUME IoAssumption ==
    /\ Cap \in Nat \ {0} /\ MaxCalls \in Nat
    /\ Timely \in BOOLEAN
    /\ Nothing \notin Nat

Slots == 1 .. Cap
Calls == Coros \X (1 .. MaxCalls)
Entry == [token : Nat, call : Calls]

VARIABLES
    running,    \* g_poll_running
    nextToken,  \* d->next_token
    inUse,      \* req->in_use
    reqCoro,    \* req->coro
    map,        \* d->token_map
    kernel,     \* submitted requests the kernel works on
    cq,         \* completions not yet taken out of the completion ring
    poll,       \* what the poll thread is about to do
    batch,      \* completions left of those it has seen
    cqe,        \* the one it works on
    req,        \* the request it has found for it
    pc,         \* what each coroutine is about to do
    at,         \* the slot it looks at, then the one it has
    token,      \* its token
    woken,      \* pushed for a worker to resume
    ioResult,   \* co->io_result
    asked, taken,   \* calls begun, results taken
    main        \* the emitted main(): running, joining the poll thread, done

pool == <<inUse, reqCoro>>
ring == <<kernel, cq>>
pollVars == <<poll, batch, cqe, req>>
coroVars == <<pc, at, token, asked, taken>>
vars == <<running, nextToken, pool, map, ring, pollVars, coroVars, woken,
          ioResult, main>>

\* ty_io_subsystem_init.  Without a ring there is no poll thread; when the thread
\* cannot be created g_poll_running goes back to 0.  Both leave I/O synchronous.
Init ==
    /\ \/ running = TRUE /\ poll \in {"check", "none"}
       \/ running = FALSE /\ poll = "none"
    /\ nextToken = 1
    /\ inUse = [s \in Slots |-> FALSE]
    /\ reqCoro = [s \in Slots |-> Nothing]
    /\ map = [i \in 0 .. Cap - 1 |-> Nothing]
    /\ kernel = {} /\ cq = <<>>
    /\ batch = 0 /\ cqe = Nothing /\ req = Nothing
    /\ pc = [c \in Coros |-> "idle"]
    /\ at = [c \in Coros |-> 1]
    /\ token = [c \in Coros |-> 0]
    /\ woken = [c \in Coros |-> FALSE]
    /\ ioResult = [c \in Coros |-> Nothing]
    /\ asked = [c \in Coros |-> 0]
    /\ taken = [c \in Coros |-> <<>>]
    /\ main = "running"

HasDriver == running /\ poll # "none"
Goto(c, to) == pc' = [pc EXCEPT ![c] = to]
Call(c) == <<c, asked[c]>>
Index(t) == t % Cap

\* Completions the poll thread has not taken out of the ring, or will get.
Completions == kernel \cup {cq[i] : i \in DOMAIN cq}
Working == poll \in {"wake", "free", "clear"}

\* Tokens whose request is not over: taken, in the kernel, or completed and not
\* yet cleared from the map.  Nothing in the code keeps InTime; with Cap = 256 it is
\* an assumption about the program's I/O.
Outstanding ==
    {token[c] : c \in {d \in Coros : pc[d] = "submit"}}
        \cup {k.token : k \in Completions}
        \cup (IF Working THEN {cqe.token} ELSE {})
InTime == \A t \in Outstanding : nextToken < t + Cap
--------------------------------------------------------------------------------
(* do_submit_or_sync, and uring_submit in it *)

Begin(c) ==
    /\ pc[c] = "idle" /\ asked[c] < MaxCalls /\ main = "running"
    /\ asked' = [asked EXCEPT ![c] = @ + 1]
    /\ at' = [at EXCEPT ![c] = 1]
    /\ Goto(c, IF HasDriver THEN "alloc" ELSE "sync")
    /\ UNCHANGED <<running, nextToken, pool, map, ring, pollVars, token,
                   taken, woken, ioResult, main>>

\* pool_alloc: one compare_exchange per slot, from the first to the last.
TakeSlot(c) ==
    /\ pc[c] = "alloc" /\ at[c] \in Slots /\ ~inUse[at[c]]
    /\ inUse' = [inUse EXCEPT ![at[c]] = TRUE]
    /\ reqCoro' = [reqCoro EXCEPT ![at[c]] = c]
    /\ Goto(c, "token")
    /\ UNCHANGED <<running, nextToken, map, ring, pollVars, at, token, asked,
                   taken, woken, ioResult, main>>
SkipSlot(c) ==
    /\ pc[c] = "alloc" /\ at[c] \in Slots /\ inUse[at[c]]
    /\ at' = [at EXCEPT ![c] = @ + 1]
    /\ UNCHANGED <<running, nextToken, pool, map, ring, pollVars, pc, token,
                   asked, taken, woken, ioResult, main>>
PoolExhausted(c) ==
    /\ pc[c] = "alloc" /\ at[c] \notin Slots
    /\ Goto(c, "sync")
    /\ UNCHANGED <<running, nextToken, pool, map, ring, pollVars, at, token,
                   asked, taken, woken, ioResult, main>>

\* The blocking fallback leaves its result where the poll thread would.
Sync(c) ==
    /\ pc[c] = "sync"
    /\ ioResult' = [ioResult EXCEPT ![c] = Call(c)]
    /\ Goto(c, "take")
    /\ UNCHANGED <<running, nextToken, pool, map, ring, pollVars, at, token,
                   asked, taken, woken, main>>

\* next_token is taken before submit_lock.
TakeToken(c) ==
    /\ pc[c] = "token" /\ (Timely => InTime)
    /\ token' = [token EXCEPT ![c] = nextToken]
    /\ nextToken' = nextToken + 1
    /\ Goto(c, "submit")
    /\ UNCHANGED <<running, pool, map, ring, pollVars, at, asked, taken, woken,
                   ioResult, main>>

\* Mutant: the map is indexed by the slot.
SubmitBySlot(c) ==
    /\ pc[c] = "submit"
    /\ kernel' = kernel \cup {[token |-> token[c], call |-> Call(c)]}
    /\ map' = [map EXCEPT ![Index(at[c])] = at[c]]
    /\ Goto(c, "submitted")
    /\ UNCHANGED <<running, nextToken, pool, cq, pollVars, at, token, asked,
                   taken, woken, ioResult, main>>

\* Under submit_lock: the entry of the submission ring, that of the map, and
\* io_uring_enter, which hands the request to the kernel.
Submit(c) ==
    /\ pc[c] = "submit"
    /\ kernel' = kernel \cup {[token |-> token[c], call |-> Call(c)]}
    /\ map' = [map EXCEPT ![Index(token[c])] = at[c]]
    /\ Goto(c, "submitted")
    /\ UNCHANGED <<running, nextToken, pool, cq, pollVars, at, token, asked,
                   taken, woken, ioResult, main>>

Park(c) ==
    /\ pc[c] = "submitted"
    /\ Goto(c, "parked")
    /\ UNCHANGED <<running, nextToken, pool, map, ring, pollVars, at, token,
                   asked, taken, woken, ioResult, main>>

Resume(c) ==
    /\ pc[c] = "parked" /\ woken[c]
    /\ woken' = [woken EXCEPT ![c] = FALSE]
    /\ Goto(c, "take")
    /\ UNCHANGED <<running, nextToken, pool, map, ring, pollVars, at, token,
                   asked, taken, ioResult, main>>

\* ty_io_take_result
Take(c) ==
    /\ pc[c] = "take"
    /\ taken' = [taken EXCEPT ![c] = Append(@, ioResult[c])]
    /\ Goto(c, "idle")
    /\ UNCHANGED <<running, nextToken, pool, map, ring, pollVars, at, token,
                   asked, woken, ioResult, main>>
--------------------------------------------------------------------------------
(* The kernel, and uring_poll *)

Complete(k) ==
    /\ kernel' = kernel \ {k}
    /\ cq' = Append(cq, k)
    /\ UNCHANGED <<running, nextToken, pool, map, pollVars, coroVars, woken,
                   ioResult, main>>

PollCheck ==
    /\ poll = "check"
    /\ poll' = IF running THEN "enter" ELSE "exited"
    /\ UNCHANGED <<running, nextToken, pool, map, ring, batch, cqe, req,
                   coroVars, woken, ioResult, main>>

\* io_uring_enter with min_complete = 1 returns once there is a completion.
PollEnter ==
    /\ poll = "enter" /\ cq # <<>>
    /\ batch' = Len(cq)
    /\ poll' = "next"
    /\ UNCHANGED <<running, nextToken, pool, map, ring, cqe, req, coroVars,
                   woken, ioResult, main>>

\* An entry of the map may be empty; then the completion is passed over.
PollNext ==
    /\ poll = "next" /\ batch > 0
    /\ LET found == map[Index(Head(cq).token)] IN
        /\ req' = found
        /\ cqe' = IF found = Nothing THEN Nothing ELSE Head(cq)
        /\ poll' = IF found = Nothing THEN "next" ELSE "wake"
    /\ cq' = Tail(cq)
    /\ batch' = batch - 1
    /\ UNCHANGED <<running, nextToken, pool, map, kernel, coroVars, woken,
                   ioResult, main>>
PollDone ==
    /\ poll = "next" /\ batch = 0
    /\ poll' = "check"
    /\ UNCHANGED <<running, nextToken, pool, map, ring, batch, cqe, req,
                   coroVars, woken, ioResult, main>>

\* Mutant: the result is stored, and the coroutine not pushed.
PollWakeNobody ==
    /\ poll = "wake"
    /\ ioResult' = [ioResult EXCEPT ![reqCoro[req]] = cqe.call]
    /\ poll' = "free"
    /\ UNCHANGED <<running, nextToken, pool, map, ring, batch, cqe, req,
                   coroVars, woken, main>>

\* ty_io_wake_coro: the result is stored before the coroutine is pushed.
PollWake ==
    /\ poll = "wake"
    /\ ioResult' = [ioResult EXCEPT ![reqCoro[req]] = cqe.call]
    /\ woken' = [woken EXCEPT ![reqCoro[req]] = TRUE]
    /\ poll' = "free"
    /\ UNCHANGED <<running, nextToken, pool, map, ring, batch, cqe, req,
                   coroVars, main>>

\* pool_free
PollFree ==
    /\ poll = "free"
    /\ inUse' = [inUse EXCEPT ![req] = FALSE]
    /\ poll' = "clear"
    /\ UNCHANGED <<running, nextToken, reqCoro, map, ring, batch, cqe, req,
                   coroVars, woken, ioResult, main>>

\* Only now is the entry of the map cleared.
PollClear ==
    /\ poll = "clear"
    /\ map' = [map EXCEPT ![Index(cqe.token)] = Nothing]
    /\ cqe' = Nothing /\ req' = Nothing
    /\ poll' = "next"
    /\ UNCHANGED <<running, nextToken, pool, ring, batch, coroVars, woken,
                   ioResult, main>>
--------------------------------------------------------------------------------
(* The end of the emitted main(): every coroutine has ended. *)

\* ty_io_subsystem_shutdown
Shutdown ==
    /\ main = "running" /\ \A c \in Coros : pc[c] = "idle"
    /\ running' = FALSE
    /\ main' = "joining"
    /\ UNCHANGED <<nextToken, pool, map, ring, pollVars, coroVars, woken,
                   ioResult>>
Join ==
    /\ main = "joining" /\ poll \in {"exited", "none"}
    /\ main' = "done"
    /\ UNCHANGED <<running, nextToken, pool, map, ring, pollVars, coroVars,
                   woken, ioResult>>
--------------------------------------------------------------------------------
Proceed(c) ==
    \/ TakeSlot(c) \/ SkipSlot(c) \/ PoolExhausted(c) \/ Sync(c) \/ TakeToken(c)
    \/ Submit(c) \/ Park(c) \/ Resume(c) \/ Take(c)
Poll ==
    \/ PollCheck \/ PollEnter \/ PollNext \/ PollDone \/ PollWake \/ PollFree
    \/ PollClear

Next ==
    \/ \E c \in Coros : Begin(c) \/ Proceed(c)
    \/ \E k \in kernel : Complete(k)
    \/ Poll \/ Shutdown \/ Join

Spec == Init /\ [][Next]_vars

\* Threads run, workers resume whom they are given, and the kernel completes every
\* request.  Whether a coroutine calls again is up to the program.
FairSpec ==
    /\ Spec
    /\ \A c \in Coros : WF_vars(Proceed(c))
    /\ \A c \in Coros : WF_vars(\E k \in kernel : k.call[1] = c /\ Complete(k))
    /\ WF_vars(Poll) /\ WF_vars(Join)
--------------------------------------------------------------------------------
(* Properties. *)

\* Every variable holds a value of its kind.
TypeOK ==
    /\ running \in BOOLEAN
    /\ nextToken \in Nat \ {0} /\ batch \in Nat
    /\ inUse \in [Slots -> BOOLEAN]
    /\ reqCoro \in [Slots -> Coros \cup {Nothing}]
    /\ map \in [0 .. Cap - 1 -> Slots \cup {Nothing}]
    /\ kernel \subseteq Entry /\ cq \in Seq(Entry)
    /\ poll \in {"none", "check", "enter", "next", "wake", "free", "clear", "exited"}
    /\ cqe \in Entry \cup {Nothing} /\ req \in Slots \cup {Nothing}
    /\ pc \in [Coros -> {"idle", "alloc", "token", "submit", "submitted", "parked",
                         "take", "sync"}]
    /\ at \in [Coros -> 1 .. Cap + 1]
    /\ token \in [Coros -> Nat]
    /\ woken \in [Coros -> BOOLEAN]
    /\ ioResult \in [Coros -> Calls \cup {Nothing}]
    /\ asked \in [Coros -> 0 .. MaxCalls]
    /\ taken \in [Coros -> Seq(Calls \cup {Nothing})]
    /\ main \in {"running", "joining", "done"}

\* A request of the pool belongs to one call at a time, from pool_alloc to
\* pool_free, and to none otherwise: the pool neither leaks nor lends twice.
Holds(c, s) ==
    /\ at[c] = s /\ ~woken[c]
    /\ pc[c] \in {"token", "submit", "submitted", "parked"}
SlotsAccounted ==
    \A s \in Slots :
        /\ inUse[s] <=> (\E c \in Coros : Holds(c, s)) \/ (poll = "free" /\ req = s)
        /\ \A c, d \in Coros : Holds(c, s) /\ Holds(d, s) => c = d

\* Every completion, whenever it is looked at, finds the request it belongs to in
\* the map, and that request is still the caller's.
CompletionFindsRequest ==
    \A k \in Completions :
        LET s == map[Index(k.token)] IN
        /\ s \in Slots
        /\ Holds(k.call[1], s) /\ reqCoro[s] = k.call[1]
        /\ asked[k.call[1]] = k.call[2]

Service == INSTANCE IoService

\* io_driver.h: the coroutine resumes once its own request is completed, and takes
\* the result of that request, whether the poll thread stored it or the fallback.
KeepsIoPromise == Service!Spec

\* Every call returns.
CallsReturn == \A c \in Coros : pc[c] # "idle" ~> pc[c] = "idle"

\* Once the coroutines are done the poll thread ends, and the program with it.  It
\* does not: "Block briefly waiting for at least one event" (io_driver.c:298) blocks
\* until there is one.
PollEnds == main = "joining" ~> main = "done"
================================================================================
