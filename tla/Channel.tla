--------------------------------- MODULE Channel -------------------------------
(***************************************************************************)
(* One channel (runtime/scheduler.c: ty_chan_send, ty_chan_recv,           *)
(* ty_chan_try_recv, ty_chan_close, chan_park) and the threads that use    *)
(* it: coroutines, which park on its wait lists, and the main thread       *)
(* outside any coroutine, which retries in a loop.                         *)
(*                                                                         *)
(* A section between ty_mutex_lock and ty_mutex_unlock is one action; the  *)
(* wakeups a call performs after the unlock are actions of their own.  A   *)
(* woken coroutine returns from its call at once: when the scheduler       *)
(* resumes it is the subject of module Scheduler.                          *)
(***************************************************************************)
EXTENDS Naturals, Sequences, FiniteSets

CONSTANTS
    Coros,      \* coroutines
    Threads,    \* callers without a coroutine (`me` is NULL)
    Caps,       \* capacities of channels; 0 is a rendezvous channel
    Zero,       \* the value memset to 0
    MaxSends,   \* bound on the sends of each client
    MaxRecvs    \* bound on the receives of each client

Clients == Coros \cup Threads
\* The n-th message of a client; its content is not looked at.
Msgs == Clients \X (1 .. MaxSends)
Values == Msgs \cup {Zero}

ASSUME ChannelAssumption ==
    /\ Coros \cap Threads = {}
    /\ Caps \subseteq Nat /\ MaxSends \in Nat /\ MaxRecvs \in Nat
    /\ Zero \notin Msgs

VARIABLES
    cap,        \* ch->cap, set by ty_chan_new for good
    buf, head, tail, len,   \* the ring buffer
    closed,
    sendQ,      \* parked senders and their elements, most recent first
    recvQ,      \* parked receivers, most recent first
    st,         \* what each client is doing
    toWake,     \* coroutines a client has unlinked and not yet enqueued
    sent,       \* sends begun by each client
    recvs,      \* receives begun by each client
    got,        \* values written to each client's `out`, in order
    aborted     \* sched_abort: the process is gone

ring == <<buf, head, tail, len>>
queues == <<sendQ, recvQ>>
vars == <<cap, ring, closed, queues, st, toWake, sent, recvs, got, aborted>>

WaitNode == [coro : Coros, elem : Msgs]

Init ==
    /\ cap \in Caps
    /\ buf = [i \in 0 .. cap - 1 |-> Zero]
    /\ head = 0 /\ tail = 0 /\ len = 0
    /\ closed = FALSE
    /\ sendQ = <<>> /\ recvQ = <<>>
    /\ st = [c \in Clients |-> "idle"]
    /\ toWake = [c \in Clients |-> <<>>]
    /\ sent = [c \in Clients |-> 0]
    /\ recvs = [c \in Clients |-> 0]
    /\ got = [c \in Clients |-> <<>>]
    /\ aborted = FALSE

Goto(c, s) == st' = [st EXCEPT ![c] = s]
Idle(c) == st[c] = "idle" /\ toWake[c] = <<>>
Msg(c) == <<c, sent[c]>>
Give(c, v) == got' = [got EXCEPT ![c] = Append(@, v)]
\* Mutant: nobody is woken.
WakeNobody(c, q) == UNCHANGED toWake

WillWake(c, q) == toWake' = [toWake EXCEPT ![c] = q]

\* Mutant: tail does not wrap around.
PutTailNoWrap(m) ==
    /\ buf' = [buf EXCEPT ![tail] = m]
    /\ tail' = tail + 1

\* memcpy into the slot at tail; memcpy out of the slot at head.
PutTail(m) ==
    /\ buf' = [buf EXCEPT ![tail] = m]
    /\ tail' = (tail + 1) % cap
TakeHead(c) ==
    /\ Give(c, buf[head])
    /\ head' = (head + 1) % cap
--------------------------------------------------------------------------------
(* ty_chan_send *)

CallSend(c) ==
    /\ Idle(c) /\ sent[c] < MaxSends
    /\ sent' = [sent EXCEPT ![c] = @ + 1]
    /\ Goto(c, "sending")
    /\ UNCHANGED <<ring, closed, queues, toWake, recvs, got, aborted>>

SendOnClosed(c) ==
    /\ st[c] = "sending" /\ closed
    /\ aborted' = TRUE
    /\ UNCHANGED <<ring, closed, queues, st, toWake, sent, recvs, got>>

SendToReceiver(c) ==
    /\ st[c] = "sending" /\ ~closed
    /\ recvQ # <<>>
    /\ recvQ' = Tail(recvQ)
    /\ Give(Head(recvQ), Msg(c))
    /\ WillWake(c, <<Head(recvQ)>>)
    /\ Goto(c, "idle")
    /\ UNCHANGED <<ring, closed, sendQ, sent, recvs, aborted>>

SendToBuffer(c) ==
    /\ st[c] = "sending" /\ ~closed
    /\ recvQ = <<>> /\ len < cap
    /\ PutTail(Msg(c))
    /\ len' = len + 1
    /\ Goto(c, "idle")
    /\ UNCHANGED <<head, closed, queues, toWake, sent, recvs, got, aborted>>

\* chan_park on send_q.  A thread without a coroutine unlocks and retries.
SendPark(c) ==
    /\ st[c] = "sending" /\ ~closed
    /\ recvQ = <<>> /\ len = cap
    /\ c \in Coros
    /\ sendQ' = <<[coro |-> c, elem |-> Msg(c)]>> \o sendQ
    /\ Goto(c, "parkedSend")
    /\ UNCHANGED <<ring, closed, recvQ, toWake, sent, recvs, got, aborted>>
--------------------------------------------------------------------------------
(* ty_chan_recv and ty_chan_try_recv *)

CallRecv(c) ==
    /\ Idle(c) /\ recvs[c] < MaxRecvs
    /\ recvs' = [recvs EXCEPT ![c] = @ + 1]
    /\ \E s \in {"receiving", "trying"} : Goto(c, s)
    /\ UNCHANGED <<ring, closed, queues, toWake, sent, got, aborted>>

Receiving(c) == st[c] \in {"receiving", "trying"}

\* Mutant: the freed slot is not given to a parked sender.
RecvNoRefill(c) ==
    /\ Receiving(c) /\ len > 0
    /\ TakeHead(c)
    /\ len' = len - 1
    /\ Goto(c, "idle")
    /\ UNCHANGED <<buf, tail, closed, queues, toWake, sent, recvs, aborted>>

\* The oldest buffered message; a parked sender's message takes its place.
RecvFromBuffer(c) ==
    /\ Receiving(c) /\ len > 0
    /\ TakeHead(c)
    /\ \/ /\ sendQ # <<>>
          /\ PutTail(Head(sendQ).elem)
          /\ sendQ' = Tail(sendQ)
          /\ WillWake(c, <<Head(sendQ).coro>>)
          /\ UNCHANGED len
       \/ /\ sendQ = <<>>
          /\ len' = len - 1
          /\ UNCHANGED <<buf, tail, sendQ, toWake>>
    /\ Goto(c, "idle")
    /\ UNCHANGED <<closed, recvQ, sent, recvs, aborted>>

\* Mutant: parked senders are served before the buffer.
RecvFromSenderFirst(c) ==
    /\ Receiving(c) /\ sendQ # <<>>
    /\ Give(c, Head(sendQ).elem)
    /\ sendQ' = Tail(sendQ)
    /\ WillWake(c, <<Head(sendQ).coro>>)
    /\ Goto(c, "idle")
    /\ UNCHANGED <<ring, closed, recvQ, sent, recvs, aborted>>

RecvFromSender(c) ==
    /\ Receiving(c) /\ len = 0 /\ sendQ # <<>>
    /\ Give(c, Head(sendQ).elem)
    /\ sendQ' = Tail(sendQ)
    /\ WillWake(c, <<Head(sendQ).coro>>)
    /\ Goto(c, "idle")
    /\ UNCHANGED <<ring, closed, recvQ, sent, recvs, aborted>>

\* Mutant: the receiver's element is left as it was.
RecvOnClosedUnwritten(c) ==
    /\ st[c] = "receiving" /\ len = 0 /\ sendQ = <<>> /\ closed
    /\ Goto(c, "idle")
    /\ UNCHANGED <<ring, closed, queues, toWake, sent, recvs, got, aborted>>

RecvOnClosed(c) ==
    /\ st[c] = "receiving" /\ len = 0 /\ sendQ = <<>> /\ closed
    /\ Give(c, Zero)
    /\ Goto(c, "idle")
    /\ UNCHANGED <<ring, closed, queues, toWake, sent, recvs, aborted>>

\* Mutant: also parks where it should return zeroes, or retry.
RecvParkAlways(c) ==
    /\ st[c] = "receiving" /\ len = 0 /\ sendQ = <<>>
    /\ recvQ' = <<c>> \o recvQ
    /\ Goto(c, "parkedRecv")
    /\ UNCHANGED <<ring, closed, sendQ, toWake, sent, recvs, got, aborted>>

RecvPark(c) ==
    /\ st[c] = "receiving" /\ len = 0 /\ sendQ = <<>> /\ ~closed
    /\ c \in Coros
    /\ recvQ' = <<c>> \o recvQ
    /\ Goto(c, "parkedRecv")
    /\ UNCHANGED <<ring, closed, sendQ, toWake, sent, recvs, got, aborted>>

\* ty_chan_try_recv returns 0, also on a closed channel.
TryRecvNothing(c) ==
    /\ st[c] = "trying" /\ len = 0 /\ sendQ = <<>>
    /\ recvs' = [recvs EXCEPT ![c] = @ - 1]
    /\ Goto(c, "idle")
    /\ UNCHANGED <<ring, closed, queues, toWake, sent, got, aborted>>
--------------------------------------------------------------------------------
(* ty_chan_close, and the wakeups after the unlock *)

\* Mutant: the receivers stay on the list.
CloseKeeping(c) ==
    /\ Idle(c)
    /\ closed' = TRUE
    /\ WillWake(c, recvQ)
    /\ Goto(c, IF recvQ = <<>> THEN "idle" ELSE "closing")
    /\ UNCHANGED <<ring, queues, sent, recvs, got, aborted>>

\* Takes the whole receive list; parked senders stay where they are.
Close(c) ==
    /\ Idle(c)
    /\ closed' = TRUE
    /\ recvQ' = <<>>
    /\ WillWake(c, recvQ)
    /\ Goto(c, IF recvQ = <<>> THEN "idle" ELSE "closing")
    /\ UNCHANGED <<ring, sendQ, sent, recvs, got, aborted>>

Unpark(c, r) ==
    st' = [st EXCEPT ![r] = "idle",
                     ![c] = IF Len(toWake[c]) = 1 THEN "idle" ELSE @]

\* sched_enqueue_wake; a closer zeroes the receiver's element just before.
Wake(c) ==
    /\ toWake[c] # <<>>
    /\ LET r == Head(toWake[c]) IN
        /\ IF st[c] = "closing" THEN Give(r, Zero) ELSE UNCHANGED got
        /\ Unpark(c, r)
    /\ WillWake(c, Tail(toWake[c]))
    /\ UNCHANGED <<ring, closed, queues, sent, recvs, aborted>>
--------------------------------------------------------------------------------
Send(c) ==
    \/ CallSend(c) \/ SendOnClosed(c) \/ SendToReceiver(c) \/ SendToBuffer(c)
    \/ SendPark(c)
Recv(c) ==
    \/ CallRecv(c) \/ RecvFromBuffer(c) \/ RecvFromSender(c) \/ RecvOnClosed(c)
    \/ RecvPark(c) \/ TryRecvNothing(c)

\* sched_abort ends the process; nothing ever writes ch->cap.
Running == ~aborted /\ UNCHANGED cap

Next == Running /\ \E c \in Clients : Send(c) \/ Recv(c) \/ Close(c) \/ Wake(c)

Spec == Init /\ [][Next]_vars

\* Every client runs on: what it has begun, it goes on with.  Whether it calls
\* again, or closes the channel, is up to the program.
Progress(c) ==
    \/ SendOnClosed(c) \/ SendToReceiver(c) \/ SendToBuffer(c) \/ SendPark(c)
    \/ RecvFromBuffer(c) \/ RecvFromSender(c) \/ RecvOnClosed(c) \/ RecvPark(c)
    \/ TryRecvNothing(c) \/ Wake(c)
FairSpec == Spec /\ \A c \in Clients : WF_vars(Running /\ Progress(c))
--------------------------------------------------------------------------------
(* Properties. *)

\* Every variable holds a value of its kind; in particular only coroutines, never
\* a thread without one, are on a wait list (chan_park dereferences `me`).
TypeOK ==
    /\ cap \in Caps
    /\ buf \in [0 .. cap - 1 -> Values]
    /\ head \in Nat /\ tail \in Nat /\ len \in Nat
    /\ closed \in BOOLEAN /\ aborted \in BOOLEAN
    /\ sendQ \in Seq(WaitNode) /\ recvQ \in Seq(Coros)
    /\ st \in [Clients -> {"idle", "sending", "receiving", "trying",
                           "parkedSend", "parkedRecv", "closing"}]
    /\ toWake \in [Clients -> Seq(Coros)]
    /\ sent \in [Clients -> 0 .. MaxSends]
    /\ recvs \in [Clients -> 0 .. MaxRecvs]
    /\ got \in [Clients -> Seq(Values)]

\* The ring indices agree with the element count, so that no buffered message
\* is overwritten and no stale slot read.
RingConsistent ==
    /\ len <= cap
    /\ cap = 0 => head = 0 /\ tail = 0
    /\ cap > 0 => /\ head < cap /\ tail < cap
                  /\ tail = (head + len) % cap

\* Nobody waits in vain: receivers are parked only while there is nothing to
\* receive and the channel is open, senders only while the buffer is full.
NoPointlessWait ==
    /\ recvQ # <<>> => len = 0 /\ sendQ = <<>> /\ ~closed
    /\ sendQ # <<>> => len = cap

\* No lost wakeup, no double one: a parked coroutine is in exactly one place
\* from which it will be enqueued, on its wait list or unlinked by one client
\* that is about to wake it; a coroutine that is not parked is in none.
OnSendQ(r) == {i \in DOMAIN sendQ : sendQ[i].coro = r}
OnRecvQ(r) == {i \in DOMAIN recvQ : recvQ[i] = r}
InHands(r) == UNION {{<<c, i>> : i \in {j \in DOMAIN toWake[c] :
                                           toWake[c][j] = r}} : c \in Clients}
WakeupPending ==
    \A r \in Coros :
        /\ OnSendQ(r) # {} => st[r] = "parkedSend"
        /\ OnRecvQ(r) # {} => st[r] = "parkedRecv"
        /\ Cardinality(OnSendQ(r)) + Cardinality(OnRecvQ(r))
             + Cardinality(InHands(r))
           = IF st[r] \in {"parkedSend", "parkedRecv"} THEN 1 ELSE 0

\* A receive that has returned wrote exactly one value, whether it was handed
\* a message, woken by a sender or released by a close.
OneValuePerReceive ==
    \A c \in Clients : st[c] = "idle" => Len(got[c]) = recvs[c]

\* The messages accepted: those in the ring, then those on the send list.
Buffered == [i \in 1 .. len |-> buf[(head + i - 1) % cap]]
Parked == [i \in DOMAIN sendQ |-> sendQ[i].elem]

\* Those of q that s has sent, in their order.
SentBy(s, q) ==
    LET sel[i \in 0 .. Len(q)] ==
            IF i = 0 THEN <<>>
            ELSE IF q[i][1] = s THEN Append(sel[i - 1], q[i]) ELSE sel[i - 1]
    IN  sel[Len(q)]
InFlight(s) == SentBy(s, Buffered \o Parked)

Promise == INSTANCE ChannelSpec WITH inflight <- [s \in Clients |-> InFlight(s)]

\* Buffer, wait lists and direct handover together keep the channel's promise:
\* no message lost, duplicated or, for one sender, reordered, and zeroes only
\* from a closed and empty channel.
KeepsPromise == Promise!Spec

\* ty_chan_close releases every parked receiver.
CloseReleases ==
    \A r \in Coros :
        (closed /\ st[r] = "parkedRecv") ~> (st[r] # "parkedRecv" \/ aborted)
================================================================================
