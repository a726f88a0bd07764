------------------------------- MODULE ChannelSpec -----------------------------
(***************************************************************************)
(* What a channel promises its users, whatever its capacity: each message  *)
(* a client sends is delivered to at most one receiver, the messages of    *)
(* one sender in the order sent, and zeroed values are handed out only     *)
(* when the channel is closed and every accepted message was delivered     *)
(* (scheduler.h: "receivers drain remaining items then get zeroed          *)
(* values").  Nothing is promised between different senders.               *)
(***************************************************************************)
EXTENDS Sequences

CONSTANTS Clients, Msgs, Zero

VARIABLES
    inflight,   \* per sender, the messages accepted and not delivered
    got,        \* per receiver, the values it was given
    closed

specVars == <<inflight, got, closed>>

SpecInit ==
    /\ inflight = [s \in Clients |-> <<>>]
    /\ got = [r \in Clients |-> <<>>]
    /\ closed = FALSE

Give(r, v) == got' = [got EXCEPT ![r] = Append(@, v)]

Drained == \A s \in Clients : inflight[s] = <<>>

Accept(s, m) ==
    /\ ~closed
    /\ inflight' = [inflight EXCEPT ![s] = Append(@, m)]
    /\ UNCHANGED <<got, closed>>

Deliver(s, r) ==
    /\ inflight[s] # <<>>
    /\ Give(r, Head(inflight[s]))
    /\ inflight' = [inflight EXCEPT ![s] = Tail(@)]
    /\ UNCHANGED closed

\* From a sender straight to a receiver that was waiting.
HandOver(r, m) ==
    /\ ~closed /\ Drained
    /\ Give(r, m)
    /\ UNCHANGED <<inflight, closed>>

Zeroed(r) ==
    /\ closed /\ Drained
    /\ Give(r, Zero)
    /\ UNCHANGED <<inflight, closed>>

Close == closed' = TRUE /\ UNCHANGED <<inflight, got>>

SpecNext ==
    \/ Close
    \/ \E r \in Clients :
        \/ Zeroed(r)
        \/ \E m \in Msgs : Accept(r, m) \/ HandOver(r, m)
        \/ \E s \in Clients : Deliver(s, r)

Spec == SpecInit /\ [][SpecNext]_specVars
================================================================================
