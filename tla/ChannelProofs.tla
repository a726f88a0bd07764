------------------------------ MODULE ChannelProofs ------------------------------
(***************************************************************************)
(* For channels of any capacity and any numbers of clients and of calls:   *)
(* types, the consistency of the ring buffer, and that nobody is parked    *)
(* beside a message, a free slot or a closed channel; then that no wakeup  *)
(* is lost or given twice, and that every receive that returns has written *)
(* one value.                                                              *)
(***************************************************************************)
EXTENDS Channel, Integers, SequenceTheorems, FiniteSetTheorems, TLAPS

\* A call under way has been counted.
CallCounted ==
    \A c \in Clients :
        /\ st[c] = "sending" => sent[c] # 0
        /\ st[c] \in {"receiving", "trying"} => recvs[c] # 0

ChanInv ==
    /\ TypeOK
    /\ RingConsistent
    /\ NoPointlessWait
    /\ CallCounted

\* An index that has run past the end of the ring by less than its size wraps
\* around to what is left of it.
LEMMA ModSmall ==
  ASSUME NEW n \in Nat \ {0}, NEW x \in Nat, x < 2 * n
  PROVE  x % n = IF x < n THEN x ELSE x - n
<1>1. CASE x < n
  BY <1>1
<1>2. CASE ~(x < n)
  BY <1>2
<1>3. QED
  BY <1>1, <1>2

\* What the ring's indices are, without a remainder: the place of the next
\* message, in a ring that has any, is `len` slots after the oldest one.
LEMMA RingIndices ==
  ASSUME NEW n \in Nat \ {0}, NEW h \in 0 .. n - 1, NEW l \in 0 .. n
  PROVE  /\ (h + l) % n = IF h + l < n THEN h + l ELSE h + l - n
         /\ (h + 1) % n = IF h + 1 < n THEN h + 1 ELSE 0
<1> DEFINE next == h + l
<1> DEFINE after == h + 1
<1>1. next \in Nat /\ next < 2 * n /\ after \in Nat /\ after < 2 * n
  OBVIOUS
<1> HIDE DEF next, after
<1>2. next % n = IF next < n THEN next ELSE next - n
  BY <1>1, ModSmall
<1>3. after % n = IF after < n THEN after ELSE after - n
  BY <1>1, ModSmall
<1>4. QED
  BY <1>2, <1>3 DEF next, after

\* The head of a list that is not empty, its tail, and a list with one more
\* element at its front are as one expects.
LEMMA ListFacts ==
  ASSUME NEW S, NEW s \in Seq(S), NEW e \in S
  PROVE  /\ s # <<>> => Head(s) \in S /\ Tail(s) \in Seq(S)
         /\ <<e>> \in Seq(S) /\ <<e>> \o s \in Seq(S) /\ <<e>> \o s # <<>>
         /\ Append(s, e) \in Seq(S)
<1>1. s # <<>> => Head(s) \in S /\ Tail(s) \in Seq(S)
  BY HeadTailProperties
<1>2. <<e>> \in Seq(S) /\ Len(<<e>>) = 1
  OBVIOUS
<1>3. <<e>> \o s \in Seq(S) /\ Len(<<e>> \o s) = 1 + Len(s)
  BY <1>2, ConcatProperties
<1>4. <<e>> \o s # <<>>
  BY <1>3, EmptySeq, LenProperties
<1>5. Append(s, e) \in Seq(S)
  BY AppendProperties
<1>6. QED
  BY <1>1, <1>2, <1>3, <1>4, <1>5

\* A message of a call under way is one of the client's messages.
LEMMA MsgTyped ==
  ASSUME ChanInv, NEW c \in Clients, st[c] = "sending"
  PROVE  Msg(c) \in Msgs /\ Msg(c) \in Values
BY ChannelAssumption DEF ChanInv, TypeOK, CallCounted, Msg, Msgs, Values

\* In the state ty_chan_new leaves the invariant holds.
LEMMA InitInv == Init => ChanInv
<1> SUFFICES ASSUME Init PROVE ChanInv
  OBVIOUS
<1>0. cap \in Nat
  BY ChannelAssumption DEF Init
<1>1. TypeOK
  <2>1. buf \in [0 .. cap - 1 -> Values]
    BY DEF Init, Values
  <2>2. sendQ \in Seq(WaitNode) /\ recvQ \in Seq(Coros)
    BY EmptySeq DEF Init
  <2>3. toWake \in [Clients -> Seq(Coros)] /\ got \in [Clients -> Seq(Values)]
    BY EmptySeq DEF Init
  <2>4. sent \in [Clients -> 0 .. MaxSends] /\ recvs \in [Clients -> 0 .. MaxRecvs]
    BY ChannelAssumption DEF Init
  <2>5. QED
    BY <1>0, <2>1, <2>2, <2>3, <2>4 DEF Init, TypeOK
<1>2. RingConsistent
  BY <1>0, ModSmall DEF Init, RingConsistent
<1>3. NoPointlessWait /\ CallCounted
  BY DEF Init, NoPointlessWait, CallCounted
<1>4. QED
  BY <1>1, <1>2, <1>3 DEF ChanInv

\* A new call is counted, and changes nothing else.
LEMMA CallInv ==
  ASSUME ChanInv, UNCHANGED cap, NEW c \in Clients, CallSend(c) \/ CallRecv(c)
  PROVE  ChanInv'
<1>1. TypeOK'
  <2>1. sent' \in [Clients -> 0 .. MaxSends]
    <3>1. CASE CallSend(c)
      <4>1. sent[c] + 1 \in 0 .. MaxSends
        BY <3>1, ChannelAssumption DEF ChanInv, TypeOK, CallSend
      <4>2. QED
        BY <3>1, <4>1 DEF ChanInv, TypeOK, CallSend
    <3>2. CASE CallRecv(c)
      BY <3>2 DEF ChanInv, TypeOK, CallRecv
    <3>3. QED
      BY <3>1, <3>2
  <2>2. recvs' \in [Clients -> 0 .. MaxRecvs]
    <3>1. CASE CallSend(c)
      BY <3>1 DEF ChanInv, TypeOK, CallSend
    <3>2. CASE CallRecv(c)
      <4>1. recvs[c] + 1 \in 0 .. MaxRecvs
        BY <3>2, ChannelAssumption DEF ChanInv, TypeOK, CallRecv
      <4>2. QED
        BY <3>2, <4>1 DEF ChanInv, TypeOK, CallRecv
    <3>3. QED
      BY <3>1, <3>2
  <2>3. st' \in [Clients -> {"idle", "sending", "receiving", "trying",
                             "parkedSend", "parkedRecv", "closing"}]
    BY DEF ChanInv, TypeOK, CallSend, CallRecv, Goto
  <2>4. QED
    BY <2>1, <2>2, <2>3 DEF ChanInv, TypeOK, CallSend, CallRecv, ring, queues
<1>2. RingConsistent' /\ NoPointlessWait'
  BY DEF ChanInv, RingConsistent, NoPointlessWait, CallSend, CallRecv, ring, queues
<1>3. CallCounted'
  BY ChannelAssumption, SMTT(30)
  DEF ChanInv, TypeOK, CallCounted, CallSend, CallRecv, Goto
<1>4. QED
  BY <1>1, <1>2, <1>3 DEF ChanInv

\* A send on a closed channel aborts the process.
LEMMA SendOnClosedInv ==
  ASSUME ChanInv, UNCHANGED cap, NEW c \in Clients, SendOnClosed(c)
  PROVE  ChanInv'
BY DEF ChanInv, TypeOK, RingConsistent, NoPointlessWait, CallCounted, SendOnClosed,
       ring, queues

\* A message handed to a parked receiver goes past the ring, which is empty.
LEMMA SendToReceiverInv ==
  ASSUME ChanInv, UNCHANGED cap, NEW c \in Clients, SendToReceiver(c)
  PROVE  ChanInv'
<1>1. Head(recvQ) \in Coros /\ Tail(recvQ) \in Seq(Coros)
  BY HeadTailProperties DEF ChanInv, TypeOK, SendToReceiver
<1>2. TypeOK'
  <2>1. got' \in [Clients -> Seq(Values)]
    BY <1>1, MsgTyped, AppendProperties
    DEF ChanInv, TypeOK, SendToReceiver, Give, Clients
  <2>2. toWake' \in [Clients -> Seq(Coros)]
    BY <1>1 DEF ChanInv, TypeOK, SendToReceiver, WillWake
  <2>3. st' \in [Clients -> {"idle", "sending", "receiving", "trying",
                             "parkedSend", "parkedRecv", "closing"}]
    BY DEF ChanInv, TypeOK, SendToReceiver, Goto
  <2>4. QED
    BY <1>1, <2>1, <2>2, <2>3 DEF ChanInv, TypeOK, SendToReceiver, ring
<1>3. RingConsistent' /\ NoPointlessWait'
  BY DEF ChanInv, RingConsistent, NoPointlessWait, SendToReceiver, ring
<1>4. CallCounted'
  BY DEF ChanInv, TypeOK, CallCounted, SendToReceiver, Goto
<1>5. QED
  BY <1>2, <1>3, <1>4 DEF ChanInv

\* The ring's arithmetic in the invariant's own terms.
LEMMA RingBounds ==
  ASSUME ChanInv, cap # 0
  PROVE  /\ cap \in Nat \ {0} /\ head \in 0 .. cap - 1 /\ tail \in 0 .. cap - 1
         /\ len \in 0 .. cap
         /\ tail = IF head + len < cap THEN head + len ELSE head + len - cap
         /\ (head + 1) % cap = IF head + 1 < cap THEN head + 1 ELSE 0
         /\ (tail + 1) % cap = IF tail + 1 < cap THEN tail + 1 ELSE 0
<1>1. /\ cap \in Nat \ {0} /\ head \in 0 .. cap - 1 /\ tail \in 0 .. cap - 1
      /\ len \in 0 .. cap /\ tail = (head + len) % cap
  BY ChannelAssumption DEF ChanInv, TypeOK, RingConsistent
<1>2. QED
  BY <1>1, RingIndices

\* A message put into the ring goes to the first free slot.
LEMMA SendToBufferInv ==
  ASSUME ChanInv, UNCHANGED cap, NEW c \in Clients, SendToBuffer(c)
  PROVE  ChanInv'
<1>1. cap # 0 /\ len < cap
  BY DEF ChanInv, TypeOK, SendToBuffer
<1>2. Msg(c) \in Values
  BY MsgTyped DEF SendToBuffer
<1>3. RingConsistent'
  <2>1. (head + (len + 1)) % cap
          = IF head + (len + 1) < cap THEN head + (len + 1)
            ELSE head + (len + 1) - cap
    <3>1. len + 1 \in 0 .. cap
      BY <1>1, RingBounds
    <3>2. QED
      BY <1>1, <3>1, RingBounds, RingIndices
  <2>2. len' = len + 1 /\ tail' = (tail + 1) % cap /\ head' = head
    BY DEF SendToBuffer, PutTail
  <2>3. tail' = (head' + len') % cap
    BY <1>1, <2>1, <2>2, RingBounds
  <2>4. tail' < cap /\ len' <= cap /\ head' < cap
    BY <1>1, <2>2, RingBounds
  <2>5. QED
    BY <1>1, <2>3, <2>4 DEF RingConsistent
<1>4. TypeOK'
  <2>1. buf' \in [0 .. cap - 1 -> Values]
    BY <1>2 DEF ChanInv, TypeOK, SendToBuffer, PutTail
  <2>2. tail' \in Nat /\ len' \in Nat
    BY <1>1, RingBounds, SMTT(30) DEF SendToBuffer, PutTail
  <2>3. st' \in [Clients -> {"idle", "sending", "receiving", "trying",
                             "parkedSend", "parkedRecv", "closing"}]
    BY DEF ChanInv, TypeOK, SendToBuffer, Goto
  <2>4. QED
    BY <2>1, <2>2, <2>3 DEF ChanInv, TypeOK, SendToBuffer, queues
<1>5. NoPointlessWait'
  BY <1>1, RingBounds DEF ChanInv, NoPointlessWait, SendToBuffer, queues
<1>6. CallCounted'
  BY DEF ChanInv, TypeOK, CallCounted, SendToBuffer, Goto
<1>7. QED
  BY <1>3, <1>4, <1>5, <1>6 DEF ChanInv

\* A sender parks only while the ring is full.
LEMMA SendParkInv ==
  ASSUME ChanInv, UNCHANGED cap, NEW c \in Clients, SendPark(c)
  PROVE  ChanInv'
<1>1. TypeOK'
  <2>1. [coro |-> c, elem |-> Msg(c)] \in WaitNode
    BY MsgTyped DEF SendPark, WaitNode
  <2>2. sendQ' \in Seq(WaitNode)
    BY <2>1, ListFacts DEF ChanInv, TypeOK, SendPark
  <2>3. st' \in [Clients -> {"idle", "sending", "receiving", "trying",
                             "parkedSend", "parkedRecv", "closing"}]
    BY DEF ChanInv, TypeOK, SendPark, Goto
  <2>4. QED
    BY <2>2, <2>3 DEF ChanInv, TypeOK, SendPark, ring
<1>2. RingConsistent' /\ NoPointlessWait'
  BY DEF ChanInv, RingConsistent, NoPointlessWait, SendPark, ring
<1>3. CallCounted'
  BY DEF ChanInv, TypeOK, CallCounted, SendPark, Goto
<1>4. QED
  BY <1>1, <1>2, <1>3 DEF ChanInv

\* A receive frees the oldest slot, and a parked sender's message takes it.
LEMMA RecvFromBufferInv ==
  ASSUME ChanInv, UNCHANGED cap, NEW c \in Clients, RecvFromBuffer(c)
  PROVE  ChanInv'
<1>1. cap # 0 /\ len > 0
  BY ChannelAssumption DEF ChanInv, TypeOK, RingConsistent, RecvFromBuffer
<1>2. /\ head' = IF head + 1 < cap THEN head + 1 ELSE 0
      /\ head' \in 0 .. cap - 1
  BY <1>1, RingBounds, SMTT(30) DEF RecvFromBuffer, TakeHead
<1>3. got' \in [Clients -> Seq(Values)]
  <2>1. buf[head] \in Values
    BY <1>1, RingBounds DEF ChanInv, TypeOK
  <2>2. QED
    BY <2>1, AppendProperties DEF ChanInv, TypeOK, RecvFromBuffer, TakeHead, Give
<1>4. st' \in [Clients -> {"idle", "sending", "receiving", "trying",
                           "parkedSend", "parkedRecv", "closing"}]
  BY DEF ChanInv, TypeOK, RecvFromBuffer, Goto
<1>5. CallCounted'
  BY DEF ChanInv, TypeOK, CallCounted, RecvFromBuffer, Goto
<1>6. (head' + len) % cap = IF head' + len < cap THEN head' + len
                            ELSE head' + len - cap
  BY <1>1, <1>2, RingBounds, RingIndices
<1>7. ASSUME sendQ # <<>>, PutTail(Head(sendQ).elem), sendQ' = Tail(sendQ),
             WillWake(c, <<Head(sendQ).coro>>), UNCHANGED len
      PROVE  ChanInv'
  <2>1. Head(sendQ) \in WaitNode /\ Tail(sendQ) \in Seq(WaitNode)
    BY <1>7, HeadTailProperties DEF ChanInv, TypeOK
  <2>2. Head(sendQ).elem \in Values /\ Head(sendQ).coro \in Coros
    BY <2>1 DEF WaitNode, Values
  <2>3. tail' = IF tail + 1 < cap THEN tail + 1 ELSE 0
    BY <1>1, <1>7, RingBounds DEF PutTail
  <2>4. tail' = (head' + len) % cap /\ tail' \in 0 .. cap - 1
    <3>1. len = cap
      BY <1>7 DEF ChanInv, NoPointlessWait
    <3>2. tail = head /\ tail' = head'
      BY <1>1, <1>2, <2>3, <3>1, RingBounds
    <3>3. QED
      BY <1>1, <1>2, <1>6, <3>1, <3>2, RingBounds
  <2>5. RingConsistent'
    BY <1>1, <1>2, <1>7, <2>4, RingBounds DEF RingConsistent
  <2>6. buf' \in [0 .. cap - 1 -> Values]
    BY <1>7, <2>2 DEF ChanInv, TypeOK, PutTail
  <2>7. toWake' \in [Clients -> Seq(Coros)]
    <3>1. <<Head(sendQ).coro>> \in Seq(Coros)
      BY <2>2
    <3>2. QED
      BY <1>7, <3>1 DEF ChanInv, TypeOK, WillWake
  <2>8. TypeOK'
    BY <1>2, <1>3, <1>4, <1>7, <2>1, <2>4, <2>6, <2>7, SMTT(30)
    DEF ChanInv, TypeOK, RecvFromBuffer
  <2>9. NoPointlessWait'
    BY <1>1, <1>7 DEF ChanInv, NoPointlessWait, RecvFromBuffer
  <2>10. QED
    BY <1>5, <2>5, <2>8, <2>9 DEF ChanInv
<1>8. ASSUME sendQ = <<>>, len' = len - 1, UNCHANGED <<buf, tail, sendQ, toWake>>
      PROVE  ChanInv'
  <2>1. len' \in 0 .. cap
    BY <1>1, <1>8, RingBounds, SMTT(30)
  <2>2. (head' + len') % cap = IF head' + len' < cap THEN head' + len'
                               ELSE head' + len' - cap
    BY <1>1, <1>2, <2>1, RingBounds, RingIndices
  <2>3. tail' = (head' + len') % cap
    <3>1. tail' = IF head + len < cap THEN head + len ELSE head + len - cap
      BY <1>1, <1>8, RingBounds
    <3>2. len' = len - 1 /\ len \in 0 .. cap /\ head \in 0 .. cap - 1 /\ cap \in Nat
      BY <1>1, <1>8, RingBounds
    <3>3. QED
      BY <1>1, <1>2, <2>2, <3>1, <3>2
  <2>4. RingConsistent'
    BY <1>1, <1>2, <1>8, <2>1, <2>3, RingBounds DEF RingConsistent
  <2>5. TypeOK'
    BY <1>2, <1>3, <1>4, <1>8, <2>1 DEF ChanInv, TypeOK, RecvFromBuffer
  <2>6. NoPointlessWait'
    BY <1>1, <1>8, RingBounds DEF ChanInv, NoPointlessWait, RecvFromBuffer
  <2>7. QED
    BY <1>5, <2>4, <2>5, <2>6 DEF ChanInv
<1>9. QED
  BY <1>7, <1>8 DEF RecvFromBuffer

\* A message taken from a parked sender goes past the ring.
LEMMA RecvFromSenderInv ==
  ASSUME ChanInv, UNCHANGED cap, NEW c \in Clients, RecvFromSender(c)
  PROVE  ChanInv'
<1>1. TypeOK'
  <2>1. Head(sendQ) \in WaitNode /\ Tail(sendQ) \in Seq(WaitNode)
    BY HeadTailProperties DEF ChanInv, TypeOK, RecvFromSender
  <2>2. Head(sendQ).elem \in Values /\ <<Head(sendQ).coro>> \in Seq(Coros)
    BY <2>1 DEF WaitNode, Values
  <2>3. got' \in [Clients -> Seq(Values)]
    BY <2>2, AppendProperties DEF ChanInv, TypeOK, RecvFromSender, Give
  <2>4. toWake' \in [Clients -> Seq(Coros)]
    BY <2>2 DEF ChanInv, TypeOK, RecvFromSender, WillWake
  <2>5. st' \in [Clients -> {"idle", "sending", "receiving", "trying",
                             "parkedSend", "parkedRecv", "closing"}]
    BY DEF ChanInv, TypeOK, RecvFromSender, Goto
  <2>6. QED
    BY <2>1, <2>3, <2>4, <2>5 DEF ChanInv, TypeOK, RecvFromSender, ring
<1>2. RingConsistent' /\ NoPointlessWait'
  BY DEF ChanInv, RingConsistent, NoPointlessWait, RecvFromSender, ring
<1>3. CallCounted'
  BY DEF ChanInv, TypeOK, CallCounted, RecvFromSender, Goto
<1>4. QED
  BY <1>1, <1>2, <1>3 DEF ChanInv

\* A receive on a closed and empty channel only writes zeroes.
LEMMA RecvOnClosedInv ==
  ASSUME ChanInv, UNCHANGED cap, NEW c \in Clients, RecvOnClosed(c)
  PROVE  ChanInv'
<1>1. TypeOK'
  <2>1. got' \in [Clients -> Seq(Values)]
    BY AppendProperties DEF ChanInv, TypeOK, RecvOnClosed, Give, Values
  <2>2. st' \in [Clients -> {"idle", "sending", "receiving", "trying",
                             "parkedSend", "parkedRecv", "closing"}]
    BY DEF ChanInv, TypeOK, RecvOnClosed, Goto
  <2>3. QED
    BY <2>1, <2>2 DEF ChanInv, TypeOK, RecvOnClosed, ring, queues
<1>2. RingConsistent' /\ NoPointlessWait'
  BY DEF ChanInv, RingConsistent, NoPointlessWait, RecvOnClosed, ring, queues
<1>3. CallCounted'
  BY DEF ChanInv, TypeOK, CallCounted, RecvOnClosed, Goto
<1>4. QED
  BY <1>1, <1>2, <1>3 DEF ChanInv

\* A receiver parks only while there is nothing, and the channel is open.
LEMMA RecvParkInv ==
  ASSUME ChanInv, UNCHANGED cap, NEW c \in Clients, RecvPark(c)
  PROVE  ChanInv'
<1>1. TypeOK'
  <2>1. recvQ' \in Seq(Coros)
    BY ListFacts DEF ChanInv, TypeOK, RecvPark
  <2>2. st' \in [Clients -> {"idle", "sending", "receiving", "trying",
                             "parkedSend", "parkedRecv", "closing"}]
    BY DEF ChanInv, TypeOK, RecvPark, Goto
  <2>3. QED
    BY <2>1, <2>2 DEF ChanInv, TypeOK, RecvPark, ring
<1>2. RingConsistent' /\ NoPointlessWait'
  BY DEF ChanInv, RingConsistent, NoPointlessWait, RecvPark, ring
<1>3. CallCounted'
  BY DEF ChanInv, TypeOK, CallCounted, RecvPark, Goto
<1>4. QED
  BY <1>1, <1>2, <1>3 DEF ChanInv

\* A ty_chan_try_recv that finds nothing does not count.
LEMMA TryRecvNothingInv ==
  ASSUME ChanInv, UNCHANGED cap, NEW c \in Clients, TryRecvNothing(c)
  PROVE  ChanInv'
<1>1. TypeOK'
  <2>1. recvs[c] - 1 \in 0 .. MaxRecvs
    BY ChannelAssumption DEF ChanInv, TypeOK, CallCounted, TryRecvNothing
  <2>2. recvs' \in [Clients -> 0 .. MaxRecvs]
    BY <2>1 DEF ChanInv, TypeOK, TryRecvNothing
  <2>3. st' \in [Clients -> {"idle", "sending", "receiving", "trying",
                             "parkedSend", "parkedRecv", "closing"}]
    BY DEF ChanInv, TypeOK, TryRecvNothing, Goto
  <2>4. QED
    BY <2>2, <2>3 DEF ChanInv, TypeOK, TryRecvNothing, ring, queues
<1>2. RingConsistent' /\ NoPointlessWait'
  BY DEF ChanInv, RingConsistent, NoPointlessWait, TryRecvNothing, ring, queues
<1>3. CallCounted'
  BY DEF ChanInv, TypeOK, CallCounted, TryRecvNothing, Goto
<1>4. QED
  BY <1>1, <1>2, <1>3 DEF ChanInv

\* Closing empties the list of receivers, which must not outlive it.
LEMMA CloseInv ==
  ASSUME ChanInv, UNCHANGED cap, NEW c \in Clients, Close(c)
  PROVE  ChanInv'
<1>1. TypeOK'
  <2>1. toWake' \in [Clients -> Seq(Coros)]
    BY DEF ChanInv, TypeOK, Close, WillWake
  <2>2. st' \in [Clients -> {"idle", "sending", "receiving", "trying",
                             "parkedSend", "parkedRecv", "closing"}]
    BY DEF ChanInv, TypeOK, Close, Goto
  <2>3. recvQ' \in Seq(Coros)
    BY EmptySeq DEF Close
  <2>4. QED
    BY <2>1, <2>2, <2>3 DEF ChanInv, TypeOK, Close, ring
<1>2. RingConsistent' /\ NoPointlessWait'
  BY DEF ChanInv, RingConsistent, NoPointlessWait, Close, ring
<1>3. CallCounted'
  BY DEF ChanInv, TypeOK, CallCounted, Close, Goto
<1>4. QED
  BY <1>1, <1>2, <1>3 DEF ChanInv

\* A wakeup leaves ring and wait lists alone.
LEMMA WakeInv ==
  ASSUME ChanInv, UNCHANGED cap, NEW c \in Clients, Wake(c)
  PROVE  ChanInv'
<1> DEFINE r == Head(toWake[c])
<1>1. r \in Coros /\ r \in Clients /\ Tail(toWake[c]) \in Seq(Coros)
  <2>1. toWake[c] \in Seq(Coros) /\ toWake[c] # <<>>
    BY DEF ChanInv, TypeOK, Wake
  <2>2. QED
    BY <2>1, HeadTailProperties DEF Clients
<1>2. Unpark(c, r)
  BY DEF Wake
<1>3. IF st[c] = "closing" THEN Give(r, Zero) ELSE UNCHANGED got
  BY DEF Wake
<1> HIDE DEF r
<1>4. TypeOK'
  <2>1. got' \in [Clients -> Seq(Values)]
    <3>1. CASE Give(r, Zero)
      <4>1. Append(got[r], Zero) \in Seq(Values)
        BY <1>1, AppendProperties DEF ChanInv, TypeOK, Values
      <4>2. QED
        BY <3>1, <4>1 DEF ChanInv, TypeOK, Give
    <3>2. CASE UNCHANGED got
      BY <3>2 DEF ChanInv, TypeOK
    <3>3. QED
      BY <1>3, <3>1, <3>2
  <2>2. toWake' \in [Clients -> Seq(Coros)]
    BY <1>1 DEF ChanInv, TypeOK, Wake, WillWake
  <2>3. st' \in [Clients -> {"idle", "sending", "receiving", "trying",
                             "parkedSend", "parkedRecv", "closing"}]
    BY <1>1, <1>2 DEF ChanInv, TypeOK, Unpark
  <2>4. QED
    BY <2>1, <2>2, <2>3 DEF ChanInv, TypeOK, Wake, ring, queues
<1>5. RingConsistent' /\ NoPointlessWait'
  BY DEF ChanInv, RingConsistent, NoPointlessWait, Wake, ring, queues
<1>6. CallCounted'
  <2>1. \A d \in Clients : st'[d] = st[d] \/ st'[d] = "idle"
    BY <1>1, <1>2 DEF ChanInv, TypeOK, Unpark
  <2>2. UNCHANGED <<sent, recvs>>
    BY DEF Wake
  <2>3. QED
    BY <2>1, <2>2 DEF ChanInv, CallCounted
<1>7. QED
  BY <1>4, <1>5, <1>6 DEF ChanInv

\* Every step of a client keeps the invariant.
LEMMA StepInv == ChanInv /\ [Next]_vars => ChanInv'
<1> SUFFICES ASSUME ChanInv, [Next]_vars PROVE ChanInv'
  OBVIOUS
<1>1. ASSUME UNCHANGED cap, NEW c \in Clients, Send(c)
      PROVE  ChanInv'
  BY <1>1, CallInv, SendOnClosedInv, SendToReceiverInv, SendToBufferInv, SendParkInv
  DEF Send
<1>2. ASSUME UNCHANGED cap, NEW c \in Clients, Recv(c)
      PROVE  ChanInv'
  BY <1>2, CallInv, RecvFromBufferInv, RecvFromSenderInv, RecvOnClosedInv,
     RecvParkInv, TryRecvNothingInv
  DEF Recv
<1>3. CASE UNCHANGED vars
  BY <1>3 DEF ChanInv, TypeOK, RingConsistent, NoPointlessWait, CallCounted, vars,
              ring, queues
<1>4. QED
  BY <1>1, <1>2, <1>3, CloseInv, WakeInv DEF Next, Running

\* The invariant holds in every reachable state.
LEMMA InvAlways == Spec => []ChanInv
<1>1. Init => ChanInv
  BY InitInv
<1>2. ChanInv /\ [Next]_vars => ChanInv'
  BY StepInv
<1>3. QED
  BY <1>1, <1>2, PTL DEF Spec

\* Every variable keeps a value of its kind: the ring is never indexed beyond
\* its end, and only coroutines are put on a wait list.
THEOREM TypeCorrect == Spec => []TypeOK
<1>1. ChanInv => TypeOK
  BY DEF ChanInv
<1>2. QED
  BY <1>1, InvAlways, PTL

\* The ring buffer of ty_chan_send and ty_chan_recv: head, tail and len always
\* agree, whatever mixture of buffering, handing over and refilling.
THEOREM RingAlwaysConsistent == Spec => []RingConsistent
<1>1. ChanInv => RingConsistent
  BY DEF ChanInv
<1>2. QED
  BY <1>1, InvAlways, PTL

\* chan_park: no receiver is parked while there is a message to receive or the
\* channel is closed, no sender while there is a free slot.
THEOREM NobodyWaitsInVain == Spec => []NoPointlessWait
<1>1. ChanInv => NoPointlessWait
  BY DEF ChanInv
<1>2. QED
  BY <1>1, InvAlways, PTL
--------------------------------------------------------------------------------
(* Wakeups, and the values of receives. *)

\* Nobody is twice on a list or in two hands, nor both on a list and in hands.
Apart ==
    /\ \A i, j \in DOMAIN sendQ : sendQ[i].coro = sendQ[j].coro => i = j
    /\ \A i, j \in DOMAIN recvQ : recvQ[i] = recvQ[j] => i = j
    /\ \A c, d \in Clients : \A i \in DOMAIN toWake[c], j \in DOMAIN toWake[d] :
          toWake[c][i] = toWake[d][j] => c = d /\ i = j
    /\ \A c \in Clients : \A i \in DOMAIN toWake[c] :
          /\ \A j \in DOMAIN sendQ : sendQ[j].coro # toWake[c][i]
          /\ \A j \in DOMAIN recvQ : recvQ[j] # toWake[c][i]

\* Who is on a list or in hands is parked there, and the other way round.
ListedParked ==
    /\ \A i \in DOMAIN sendQ : st[sendQ[i].coro] = "parkedSend"
    /\ \A i \in DOMAIN recvQ : st[recvQ[i]] = "parkedRecv"
    /\ \A c \in Clients : \A i \in DOMAIN toWake[c] :
          /\ st[toWake[c][i]] \in {"parkedSend", "parkedRecv"}
          /\ st[c] = "closing" => st[toWake[c][i]] = "parkedRecv"
ParkedListed ==
    \A r \in Coros : st[r] \in {"parkedSend", "parkedRecv"} =>
        \/ \E i \in DOMAIN sendQ : sendQ[i].coro = r
        \/ \E i \in DOMAIN recvQ : recvQ[i] = r
        \/ \E c \in Clients : \E i \in DOMAIN toWake[c] : toWake[c][i] = r

\* Only who has returned from a call, or is closing, has others to wake.
WakersFree == \A c \in Clients : toWake[c] # <<>> => st[c] \in {"idle", "closing"}

\* A receive that is under way lacks its value; a parked one does until a message
\* is handed to it, or for as long as a closer has not released it.
Lacks(c) == Len(got[c]) + 1 = recvs[c]
Complete(c) == Len(got[c]) = recvs[c]
Owed ==
    /\ \A c \in Clients :
          /\ st[c] \in {"idle", "sending", "parkedSend", "closing"} => Complete(c)
          /\ st[c] \in {"receiving", "trying"} => Lacks(c)
    /\ \A i \in DOMAIN recvQ : Lacks(recvQ[i])
    /\ \A c \in Clients : \A i \in DOMAIN toWake[c] :
          IF st[c] = "closing" THEN Lacks(toWake[c][i]) ELSE Complete(toWake[c][i])

WakeInvariant == Apart /\ ListedParked /\ ParkedListed /\ WakersFree /\ Owed

\* The elements of a list without its first are those of the list, one place on.
LEMMA Shorter ==
  ASSUME NEW S, NEW s \in Seq(S), s # <<>>
  PROVE  /\ 1 \in DOMAIN s /\ s[1] = Head(s)
         /\ DOMAIN s \subseteq Nat /\ DOMAIN Tail(s) \subseteq Nat \ {0}
         /\ \A i \in DOMAIN Tail(s) : i + 1 \in DOMAIN s /\ Tail(s)[i] = s[i + 1]
         /\ \A i \in DOMAIN s \ {1} : i - 1 \in DOMAIN Tail(s) /\ Tail(s)[i - 1] = s[i]
<1>1. Len(s) \in Nat \ {0} /\ DOMAIN s = 1 .. Len(s)
  BY EmptySeq, LenProperties
<1>2. /\ DOMAIN Tail(s) = 1 .. Len(s) - 1
      /\ \A i \in 1 .. Len(s) - 1 : Tail(s)[i] = s[i + 1]
  BY <1>1, HeadTailProperties, LenProperties
<1>3. s[1] = Head(s)
  OBVIOUS
<1>4. QED
  BY <1>1, <1>2, <1>3

\* A list with one more element at its front.
LEMMA Longer ==
  ASSUME NEW S, NEW s \in Seq(S), NEW e \in S
  PROVE  /\ 1 \in DOMAIN (<<e>> \o s) /\ (<<e>> \o s)[1] = e
         /\ DOMAIN s \subseteq Nat \ {0} /\ DOMAIN (<<e>> \o s) \subseteq Nat \ {0}
         /\ \A i \in DOMAIN s : i + 1 \in DOMAIN (<<e>> \o s) /\ (<<e>> \o s)[i + 1] = s[i]
         /\ \A i \in DOMAIN (<<e>> \o s) \ {1} : i - 1 \in DOMAIN s /\ (<<e>> \o s)[i] = s[i - 1]
<1>1. Len(s) \in Nat /\ DOMAIN s = 1 .. Len(s)
  BY LenProperties
<1>2. <<e>> \in Seq(S) /\ Len(<<e>>) = 1 /\ <<e>>[1] = e
  OBVIOUS
<1>3. /\ <<e>> \o s \in Seq(S)
      /\ Len(<<e>> \o s) = 1 + Len(s)
      /\ \A i \in 1 .. 1 + Len(s) : (<<e>> \o s)[i] = IF i <= 1 THEN <<e>>[i] ELSE s[i - 1]
  BY <1>2, ConcatProperties
<1>4. DOMAIN (<<e>> \o s) = 1 .. 1 + Len(s)
  BY <1>3, LenProperties
<1>5. QED
  BY <1>1, <1>2, <1>3, <1>4

\* Only coroutines are on the lists and in hands.
LEMMA Members ==
  ASSUME ChanInv
  PROVE  /\ \A i \in DOMAIN sendQ : sendQ[i].coro \in Coros
         /\ \A i \in DOMAIN recvQ : recvQ[i] \in Coros
         /\ \A c \in Clients : \A i \in DOMAIN toWake[c] : toWake[c][i] \in Coros
         /\ Coros \subseteq Clients
<1>1. ASSUME NEW S, NEW q \in Seq(S), NEW i \in DOMAIN q
      PROVE  q[i] \in S
  BY <1>1, LenProperties
<1>2. \A i \in DOMAIN sendQ : sendQ[i] \in WaitNode
  BY <1>1 DEF ChanInv, TypeOK
<1>3. \A i \in DOMAIN recvQ : recvQ[i] \in Coros
  BY <1>1 DEF ChanInv, TypeOK
<1>4. \A c \in Clients : toWake[c] \in Seq(Coros)
  BY DEF ChanInv, TypeOK
<1>5. \A c \in Clients : \A i \in DOMAIN toWake[c] : toWake[c][i] \in Coros
  BY <1>1, <1>4
<1>6. QED
  BY <1>2, <1>3, <1>5 DEF WaitNode, Clients

\* Nothing is on an empty list.
LEMMA EmptyDomain == DOMAIN <<>> = {}
OBVIOUS

\* A step of one client that parks nobody and wakes nobody.
LEMMA OwnStep ==
  ASSUME ChanInv, WakeInvariant, NEW c \in Clients,
         UNCHANGED <<queues, toWake>>,
         st[c] \in {"idle", "sending", "receiving", "trying"}, toWake[c] = <<>>,
         NEW s \in {"idle", "sending", "receiving", "trying"}, Goto(c, s),
         \A d \in Clients \ {c} : got'[d] = got[d] /\ recvs'[d] = recvs[d],
         s \in {"receiving", "trying"} => Lacks(c)',
         s \in {"idle", "sending"} => Complete(c)'
  PROVE  WakeInvariant'
<1>1. /\ st' \in [Clients -> {"idle", "sending", "receiving", "trying",
                              "parkedSend", "parkedRecv", "closing"}]
      /\ st'[c] = s /\ \A d \in Clients \ {c} : st'[d] = st[d]
      /\ UNCHANGED <<sendQ, recvQ, toWake>>
  BY DEF ChanInv, TypeOK, Goto, queues
<1>2. DOMAIN toWake[c] = {}
  BY EmptyDomain
<1>3. /\ \A i \in DOMAIN recvQ : recvQ[i] \in Coros
      /\ \A d \in Clients : \A i \in DOMAIN toWake[d] : toWake[d][i] \in Coros
      /\ \A i \in DOMAIN sendQ : sendQ[i].coro \in Coros
      /\ Coros \subseteq Clients
  BY Members
<1>4. Apart'
  BY <1>1 DEF WakeInvariant, Apart
<1>5. ListedParked'
  BY <1>1, <1>2, <1>3 DEF WakeInvariant, ListedParked
<1>6. ParkedListed'
  BY <1>1, <1>2, <1>3 DEF WakeInvariant, ParkedListed
<1>7. WakersFree'
  BY <1>1 DEF WakeInvariant, WakersFree
<1>8. Owed'
  <2>1. \A d \in Clients \ {c} : Lacks(d)' = Lacks(d) /\ Complete(d)' = Complete(d)
    BY DEF Lacks, Complete
  <2>2. \A i \in DOMAIN recvQ : recvQ[i] # c
    BY <1>2, <1>3 DEF WakeInvariant, ListedParked
  <2>3. \A d \in Clients : \A i \in DOMAIN toWake[d] : toWake[d][i] # c /\ d # c
    BY <1>2, <1>3 DEF WakeInvariant, ListedParked
  <2>4. QED
    BY <1>1, <1>3, <2>1, <2>2, <2>3 DEF WakeInvariant, Owed
<1>9. QED
  BY <1>4, <1>5, <1>6, <1>7, <1>8 DEF WakeInvariant

\* What a client's own step leaves of the lists and of the other clients.
LEMMA Written ==
  ASSUME ChanInv, NEW c \in Clients, NEW v, Give(c, v)
  PROVE  /\ Len(got'[c]) = Len(got[c]) + 1 /\ Len(got[c]) \in Nat
         /\ \A d \in Clients \ {c} : got'[d] = got[d]
<1>1. got \in [Clients -> Seq(Values)]
  BY DEF ChanInv, TypeOK
<1>2. got'[c] = Append(got[c], v) /\ \A d \in Clients \ {c} : got'[d] = got[d]
  BY <1>1 DEF Give
<1>3. Len(got[c]) \in Nat /\ Len(Append(got[c], v)) = Len(got[c]) + 1
  BY <1>1, LenProperties
<1>4. QED
  BY <1>2, <1>3

\* A client in a call has nobody to wake.
LEMMA InCall ==
  ASSUME WakeInvariant, NEW c \in Clients,
         st[c] \in {"sending", "receiving", "trying", "parkedSend", "parkedRecv"}
  PROVE  toWake[c] = <<>> /\ DOMAIN toWake[c] = {}
<1>1. toWake[c] = <<>>
  BY DEF WakeInvariant, WakersFree
<1>2. QED
  BY <1>1, EmptyDomain

\* The actions that concern nobody but their client.
LEMMA CallWake ==
  ASSUME ChanInv, WakeInvariant, NEW c \in Clients, CallSend(c) \/ CallRecv(c)
  PROVE  WakeInvariant'
<1>1. Complete(c) /\ recvs[c] \in Nat /\ Len(got[c]) \in Nat
  BY LenProperties, ChannelAssumption
  DEF ChanInv, TypeOK, WakeInvariant, Owed, CallSend, CallRecv, Idle
<1>2. CASE CallSend(c)
  BY <1>1, <1>2, OwnStep DEF CallSend, Idle, Complete
<1>3. CASE CallRecv(c)
  <2>1. Lacks(c)' /\ \A d \in Clients \ {c} : got'[d] = got[d] /\ recvs'[d] = recvs[d]
    BY <1>1, <1>3 DEF CallRecv, Lacks, Complete, ChanInv, TypeOK
  <2>2. PICK s \in {"receiving", "trying"} : Goto(c, s)
    BY <1>3 DEF CallRecv
  <2>3. QED
    BY <1>3, <2>1, <2>2, OwnStep DEF CallRecv, Idle
<1>4. QED
  BY <1>2, <1>3

\* A send into the buffer.
LEMMA BufferWake ==
  ASSUME ChanInv, WakeInvariant, NEW c \in Clients, SendToBuffer(c)
  PROVE  WakeInvariant'
<1>1. Complete(c) /\ Complete(c)'
  BY DEF WakeInvariant, Owed, SendToBuffer, Complete
<1>2. QED
  BY <1>1, InCall, OwnStep DEF SendToBuffer

\* A receive that takes a value without waking anyone.
LEMMA TakenWake ==
  ASSUME ChanInv, WakeInvariant, NEW c \in Clients, NEW v,
         Receiving(c), Give(c, v), Goto(c, "idle"), UNCHANGED <<queues, toWake, recvs>>
  PROVE  WakeInvariant'
<1>1. Lacks(c)
  BY DEF WakeInvariant, Owed, Receiving
<1>2. Complete(c)' /\ \A d \in Clients \ {c} : got'[d] = got[d] /\ recvs'[d] = recvs[d]
  BY <1>1, Written DEF Lacks, Complete
<1>3. QED
  BY <1>2, InCall, OwnStep DEF Receiving

\* A ty_chan_try_recv that finds nothing is not counted as a receive.
LEMMA NothingWake ==
  ASSUME ChanInv, WakeInvariant, NEW c \in Clients, TryRecvNothing(c)
  PROVE  WakeInvariant'
<1>1. Lacks(c) /\ recvs[c] \in Nat /\ Len(got[c]) \in Nat
  BY LenProperties, ChannelAssumption
  DEF ChanInv, TypeOK, WakeInvariant, Owed, TryRecvNothing
<1>2. Complete(c)' /\ \A d \in Clients \ {c} : got'[d] = got[d] /\ recvs'[d] = recvs[d]
  BY <1>1 DEF Lacks, Complete, TryRecvNothing, ChanInv, TypeOK
<1>3. QED
  BY <1>2, InCall, OwnStep DEF TryRecvNothing

\* Taking a parked sender off its list, and its value, to wake it after the unlock.
LEMMA UnlinkSender ==
  ASSUME ChanInv, WakeInvariant, NEW c \in Clients, NEW v,
         Receiving(c), sendQ # <<>>, sendQ' = Tail(sendQ),
         WillWake(c, <<Head(sendQ).coro>>), Give(c, v), Goto(c, "idle"),
         UNCHANGED <<recvQ, recvs>>
  PROVE  WakeInvariant'
<1> DEFINE r == Head(sendQ).coro
<1>1. /\ 1 \in DOMAIN sendQ /\ sendQ[1] = Head(sendQ)
      /\ DOMAIN sendQ \subseteq Nat /\ DOMAIN sendQ' \subseteq Nat \ {0}
      /\ \A i \in DOMAIN sendQ' : i + 1 \in DOMAIN sendQ /\ sendQ'[i] = sendQ[i + 1]
      /\ \A i \in DOMAIN sendQ \ {1} : i - 1 \in DOMAIN sendQ' /\ sendQ'[i - 1] = sendQ[i]
  BY Shorter DEF ChanInv, TypeOK
<1>2. r = sendQ[1].coro
  BY <1>1
<1> HIDE DEF r
<1>3. /\ r \in Coros /\ r # c /\ st[r] = "parkedSend"
      /\ toWake[c] = <<>> /\ DOMAIN toWake[c] = {}
  BY <1>1, <1>2, Members, InCall DEF WakeInvariant, ListedParked, Receiving
<1>4. /\ toWake'[c] = <<r>> /\ DOMAIN toWake'[c] = {1} /\ toWake'[c][1] = r
      /\ \A d \in Clients \ {c} : toWake'[d] = toWake[d]
  BY DEF WillWake, ChanInv, TypeOK, r
<1>5. st'[c] = "idle" /\ \A d \in Clients \ {c} : st'[d] = st[d]
  BY DEF Goto, ChanInv, TypeOK
<1>6. \A i \in DOMAIN sendQ' : sendQ'[i].coro # r /\ sendQ'[i].coro \in Coros
  <2>1. \A i \in DOMAIN sendQ' : i + 1 # 1
    BY <1>1
  <2>2. QED
    BY <1>1, <1>2, <2>1, Members DEF WakeInvariant, Apart
<1>7. Apart'
  <2>1. \A i, j \in DOMAIN sendQ' : sendQ'[i].coro = sendQ'[j].coro => i = j
    <3>1. ASSUME NEW i \in DOMAIN sendQ', NEW j \in DOMAIN sendQ',
                 sendQ'[i].coro = sendQ'[j].coro
          PROVE  i = j
      <4>1. i + 1 = j + 1
        BY <1>1, <3>1 DEF WakeInvariant, Apart
      <4>2. i \in Nat /\ j \in Nat
        BY <1>1
      <4>3. QED
        BY <4>1, <4>2
    <3>2. QED
      BY <3>1
  <2>2. \A d \in Clients : \A i \in DOMAIN toWake[d] : toWake[d][i] # r
    BY <1>1, <1>2 DEF WakeInvariant, Apart
  <2>3. \A c1, d \in Clients : \A i \in DOMAIN toWake'[c1], j \in DOMAIN toWake'[d] :
          toWake'[c1][i] = toWake'[d][j] => c1 = d /\ i = j
    BY <1>4, <2>2 DEF WakeInvariant, Apart
  <2>4. \A d \in Clients : \A i \in DOMAIN toWake'[d] : \A j \in DOMAIN sendQ' :
          sendQ'[j].coro # toWake'[d][i]
    BY <1>1, <1>4, <1>6 DEF WakeInvariant, Apart
  <2>5. \A d \in Clients : \A i \in DOMAIN toWake'[d] : \A j \in DOMAIN recvQ :
          recvQ[j] # toWake'[d][i]
    BY <1>3, <1>4 DEF WakeInvariant, Apart, ListedParked
  <2>6. QED
    BY <2>1, <2>3, <2>4, <2>5 DEF WakeInvariant, Apart
<1>8. ListedParked'
  <2>1. \A i \in DOMAIN sendQ' : st'[sendQ'[i].coro] = "parkedSend"
    BY <1>1, <1>5, <1>6, Members DEF WakeInvariant, ListedParked, Receiving
  <2>2. \A i \in DOMAIN recvQ : st'[recvQ[i]] = "parkedRecv"
    BY <1>5, Members DEF WakeInvariant, ListedParked, Receiving
  <2>3. \A d \in Clients : \A i \in DOMAIN toWake'[d] :
          /\ st'[toWake'[d][i]] \in {"parkedSend", "parkedRecv"}
          /\ st'[d] = "closing" => st'[toWake'[d][i]] = "parkedRecv"
    BY <1>3, <1>4, <1>5, Members DEF WakeInvariant, ListedParked, Receiving
  <2>4. QED
    BY <2>1, <2>2, <2>3 DEF ListedParked
<1>9. ParkedListed'
  <2>1. ASSUME NEW d \in Coros, st'[d] \in {"parkedSend", "parkedRecv"}
        PROVE  \/ \E i \in DOMAIN sendQ' : sendQ'[i].coro = d
               \/ \E i \in DOMAIN recvQ : recvQ[i] = d
               \/ \E e \in Clients : \E i \in DOMAIN toWake'[e] : toWake'[e][i] = d
    <3>1. CASE d = r
      BY <1>4, <3>1
    <3>2. CASE d # r
      <4>1. st[d] \in {"parkedSend", "parkedRecv"}
        BY <1>5, <2>1, Members
      <4>2. CASE \E i \in DOMAIN sendQ : sendQ[i].coro = d
        BY <1>1, <1>2, <3>2, <4>2, ZenonT(30)
      <4>3. CASE \E i \in DOMAIN recvQ : recvQ[i] = d
        BY <4>3
      <4>4. CASE \E e \in Clients : \E i \in DOMAIN toWake[e] : toWake[e][i] = d
        BY <1>3, <1>4, <4>4
      <4>5. QED
        BY <4>1, <4>2, <4>3, <4>4 DEF WakeInvariant, ParkedListed
    <3>3. QED
      BY <3>1, <3>2
  <2>2. QED
    BY <2>1 DEF ParkedListed
<1>10. WakersFree'
  BY <1>4, <1>5 DEF WakeInvariant, WakersFree
<1>11. Owed'
  <2>1. /\ Lacks(c) /\ Complete(c)'
        /\ \A d \in Clients \ {c} : Lacks(d)' = Lacks(d) /\ Complete(d)' = Complete(d)
    BY Written DEF Lacks, Complete, WakeInvariant, Owed, Receiving
  <2>2. Complete(r)
    BY <1>3, Members DEF WakeInvariant, Owed
  <2>3. \A i \in DOMAIN recvQ : recvQ[i] # c
    BY DEF WakeInvariant, ListedParked, Receiving
  <2>4. \A d \in Clients \ {c} : \A i \in DOMAIN toWake[d] : toWake[d][i] # c
    BY DEF WakeInvariant, ListedParked, Receiving
  <2>5. \A d \in Clients :
          /\ st'[d] \in {"idle", "sending", "parkedSend", "closing"} => Complete(d)'
          /\ st'[d] \in {"receiving", "trying"} => Lacks(d)'
    BY <1>5, <2>1 DEF WakeInvariant, Owed
  <2>6. (\A i \in DOMAIN recvQ : Lacks(recvQ[i]))'
    <3>1. \A i \in DOMAIN recvQ : Lacks(recvQ[i]) /\ recvQ[i] \in Clients \ {c}
      BY <2>3, Members DEF WakeInvariant, Owed
    <3>2. QED
      BY <3>1, Written DEF Lacks
  <2>7. ASSUME NEW d \in Clients, NEW i \in DOMAIN toWake'[d]
        PROVE  (IF st[d] = "closing" THEN Lacks(toWake[d][i]) ELSE Complete(toWake[d][i]))'
    <3>1. CASE d = c
      BY <1>3, <1>4, <1>5, <2>2, <3>1, Written, Members DEF Complete
    <3>2. CASE d # c
      <4>1. /\ toWake'[d] = toWake[d] /\ st'[d] = st[d]
            /\ toWake[d][i] \in Clients \ {c}
        BY <1>4, <1>5, <2>4, <3>2, Members
      <4>2. IF st[d] = "closing" THEN Lacks(toWake[d][i]) ELSE Complete(toWake[d][i])
        BY <4>1 DEF WakeInvariant, Owed
      <4>3. QED
        BY <4>1, <4>2, Written DEF Lacks, Complete
    <3>3. QED
      BY <3>1, <3>2
  <2>8. QED
    BY <2>5, <2>6, <2>7 DEF Owed
<1>12. QED
  BY <1>7, <1>8, <1>9, <1>10, <1>11 DEF WakeInvariant

\* Handing a message to a parked receiver, and waking it after the unlock.
LEMMA UnlinkReceiver ==
  ASSUME ChanInv, WakeInvariant, NEW c \in Clients, SendToReceiver(c)
  PROVE  WakeInvariant'
<1>1. /\ 1 \in DOMAIN recvQ /\ recvQ[1] = Head(recvQ)
      /\ DOMAIN recvQ \subseteq Nat /\ DOMAIN recvQ' \subseteq Nat \ {0}
      /\ \A i \in DOMAIN recvQ' : i + 1 \in DOMAIN recvQ /\ recvQ'[i] = recvQ[i + 1]
      /\ \A i \in DOMAIN recvQ \ {1} : i - 1 \in DOMAIN recvQ' /\ recvQ'[i - 1] = recvQ[i]
  BY Shorter DEF ChanInv, TypeOK, SendToReceiver
<1>2. PICK r \in Coros : r = recvQ[1]
  BY <1>1, Members
<1>3. Give(r, Msg(c)) /\ UNCHANGED <<sendQ, recvs>>
  BY <1>1, <1>2 DEF SendToReceiver
<1>4. /\ toWake'[c] = <<r>> /\ DOMAIN toWake'[c] = {1} /\ toWake'[c][1] = r
      /\ \A d \in Clients \ {c} : toWake'[d] = toWake[d]
  BY <1>1, <1>2 DEF WillWake, ChanInv, TypeOK, SendToReceiver
<1>5. st[c] = "sending" /\ st'[c] = "idle" /\ \A d \in Clients \ {c} : st'[d] = st[d]
  BY DEF Goto, ChanInv, TypeOK, SendToReceiver
<1>6. /\ r \in Clients /\ r # c /\ st[r] = "parkedRecv"
      /\ toWake[c] = <<>> /\ DOMAIN toWake[c] = {}
  BY <1>1, <1>2, <1>5, Members, InCall DEF WakeInvariant, ListedParked
<1>7. \A i \in DOMAIN recvQ' : recvQ'[i] # r /\ recvQ'[i] \in Coros
  <2>1. \A i \in DOMAIN recvQ' : i + 1 # 1
    BY <1>1
  <2>2. QED
    BY <1>1, <1>2, <2>1, Members DEF WakeInvariant, Apart
<1>8. Apart'
  <2>1. \A i, j \in DOMAIN recvQ' : recvQ'[i] = recvQ'[j] => i = j
    <3>1. ASSUME NEW i \in DOMAIN recvQ', NEW j \in DOMAIN recvQ', recvQ'[i] = recvQ'[j]
          PROVE  i = j
      <4>1. i + 1 = j + 1
        BY <1>1, <3>1 DEF WakeInvariant, Apart
      <4>2. i \in Nat /\ j \in Nat
        BY <1>1
      <4>3. QED
        BY <4>1, <4>2
    <3>2. QED
      BY <3>1
  <2>2. \A d \in Clients : \A i \in DOMAIN toWake[d] : toWake[d][i] # r
    BY <1>1, <1>2 DEF WakeInvariant, Apart
  <2>3. \A c1, d \in Clients : \A i \in DOMAIN toWake'[c1], j \in DOMAIN toWake'[d] :
          toWake'[c1][i] = toWake'[d][j] => c1 = d /\ i = j
    BY <1>4, <2>2 DEF WakeInvariant, Apart
  <2>4. \A d \in Clients : \A i \in DOMAIN toWake'[d] : \A j \in DOMAIN recvQ' :
          recvQ'[j] # toWake'[d][i]
    BY <1>1, <1>4, <1>7 DEF WakeInvariant, Apart
  <2>5. \A d \in Clients : \A i \in DOMAIN toWake'[d] : \A j \in DOMAIN sendQ :
          sendQ[j].coro # toWake'[d][i]
    BY <1>4, <1>6 DEF WakeInvariant, Apart, ListedParked
  <2>6. QED
    BY <1>3, <2>1, <2>3, <2>4, <2>5 DEF WakeInvariant, Apart
<1>9. ListedParked'
  <2>1. \A i \in DOMAIN recvQ' : st'[recvQ'[i]] = "parkedRecv"
    BY <1>1, <1>5, <1>7, Members DEF WakeInvariant, ListedParked
  <2>2. \A i \in DOMAIN sendQ : st'[sendQ[i].coro] = "parkedSend"
    BY <1>5, Members DEF WakeInvariant, ListedParked
  <2>3. \A d \in Clients : \A i \in DOMAIN toWake'[d] :
          /\ st'[toWake'[d][i]] \in {"parkedSend", "parkedRecv"}
          /\ st'[d] = "closing" => st'[toWake'[d][i]] = "parkedRecv"
    BY <1>4, <1>5, <1>6, Members DEF WakeInvariant, ListedParked
  <2>4. QED
    BY <1>3, <2>1, <2>2, <2>3 DEF ListedParked
<1>10. ParkedListed'
  <2>1. ASSUME NEW d \in Coros, st'[d] \in {"parkedSend", "parkedRecv"}
        PROVE  \/ \E i \in DOMAIN sendQ : sendQ[i].coro = d
               \/ \E i \in DOMAIN recvQ' : recvQ'[i] = d
               \/ \E e \in Clients : \E i \in DOMAIN toWake'[e] : toWake'[e][i] = d
    <3>1. CASE d = r
      BY <1>4, <3>1
    <3>2. CASE d # r
      <4>1. st[d] \in {"parkedSend", "parkedRecv"}
        BY <1>5, <2>1, Members
      <4>2. CASE \E i \in DOMAIN sendQ : sendQ[i].coro = d
        BY <4>2
      <4>3. CASE \E i \in DOMAIN recvQ : recvQ[i] = d
        BY <1>1, <1>2, <3>2, <4>3
      <4>4. CASE \E e \in Clients : \E i \in DOMAIN toWake[e] : toWake[e][i] = d
        BY <1>4, <1>6, <4>4
      <4>5. QED
        BY <4>1, <4>2, <4>3, <4>4 DEF WakeInvariant, ParkedListed
    <3>3. QED
      BY <3>1, <3>2
  <2>2. QED
    BY <1>3, <2>1 DEF ParkedListed
<1>11. WakersFree'
  BY <1>4, <1>5 DEF WakeInvariant, WakersFree
<1>12. Owed'
  <2>1. /\ Lacks(r) /\ Complete(r)'
        /\ \A d \in Clients \ {r} : Lacks(d)' = Lacks(d) /\ Complete(d)' = Complete(d)
    <3>1. Lacks(r)
      BY <1>1, <1>2 DEF WakeInvariant, Owed
    <3>2. /\ Len(got'[r]) = Len(got[r]) + 1 /\ recvs' = recvs
          /\ \A d \in Clients \ {r} : got'[d] = got[d]
      BY <1>3, <1>6, Written
    <3>3. QED
      BY <3>1, <3>2 DEF Lacks, Complete
  <2>2. \A d \in Clients :
          /\ st'[d] \in {"idle", "sending", "parkedSend", "closing"} => Complete(d)'
          /\ st'[d] \in {"receiving", "trying"} => Lacks(d)'
    BY <1>5, <1>6, <2>1 DEF WakeInvariant, Owed
  <2>3. (\A i \in DOMAIN recvQ : Lacks(recvQ[i]))'
    <3>1. \A i \in DOMAIN recvQ' : Lacks(recvQ'[i]) /\ recvQ'[i] \in Clients \ {r}
      BY <1>1, <1>7, Members DEF WakeInvariant, Owed
    <3>2. QED
      BY <1>3, <1>6, <3>1, Members, Written DEF Lacks
  <2>4. ASSUME NEW d \in Clients, NEW i \in DOMAIN toWake'[d]
        PROVE  (IF st[d] = "closing" THEN Lacks(toWake[d][i]) ELSE Complete(toWake[d][i]))'
    <3>1. CASE d = c
      BY <1>4, <1>5, <2>1, <3>1 DEF Complete
    <3>2. CASE d # c
      <4>1. /\ toWake'[d] = toWake[d] /\ st'[d] = st[d]
            /\ toWake[d][i] \in Clients \ {r}
        BY <1>1, <1>2, <1>4, <1>5, <3>2, Members DEF WakeInvariant, Apart
      <4>2. IF st[d] = "closing" THEN Lacks(toWake[d][i]) ELSE Complete(toWake[d][i])
        BY <4>1 DEF WakeInvariant, Owed
      <4>3. QED
        BY <1>3, <1>6, <4>1, <4>2, Members, Written DEF Lacks, Complete
    <3>3. QED
      BY <3>1, <3>2
  <2>5. QED
    BY <2>2, <2>3, <2>4 DEF Owed
<1>13. QED
  BY <1>8, <1>9, <1>10, <1>11, <1>12 DEF WakeInvariant

\* A sender that parks was on no list, and is now on one.
LEMMA ParkSender ==
  ASSUME ChanInv, WakeInvariant, NEW c \in Clients, SendPark(c)
  PROVE  WakeInvariant'
<1> DEFINE node == [coro |-> c, elem |-> Msg(c)]
<1>1. node \in WaitNode /\ node.coro = c
  BY MsgTyped DEF SendPark, WaitNode
<1>2. sendQ' = <<node>> \o sendQ /\ sendQ \in Seq(WaitNode)
  BY DEF SendPark, ChanInv, TypeOK
<1> HIDE DEF node
<1>3. /\ 1 \in DOMAIN sendQ' /\ sendQ'[1] = node
      /\ DOMAIN sendQ \subseteq Nat \ {0} /\ DOMAIN sendQ' \subseteq Nat \ {0}
      /\ \A i \in DOMAIN sendQ : i + 1 \in DOMAIN sendQ' /\ sendQ'[i + 1] = sendQ[i]
      /\ \A i \in DOMAIN sendQ' \ {1} : i - 1 \in DOMAIN sendQ /\ sendQ'[i] = sendQ[i - 1]
  BY <1>1, <1>2, Longer
<1>4. /\ st[c] = "sending" /\ c \in Coros /\ UNCHANGED <<recvQ, toWake, got, recvs>>
      /\ st'[c] = "parkedSend" /\ \A d \in Clients \ {c} : st'[d] = st[d]
  BY DEF SendPark, Goto, ChanInv, TypeOK
<1>5. /\ \A i \in DOMAIN sendQ : sendQ[i].coro # c
      /\ \A i \in DOMAIN recvQ : recvQ[i] # c
      /\ \A d \in Clients : \A i \in DOMAIN toWake[d] : toWake[d][i] # c
      /\ toWake[c] = <<>> /\ DOMAIN toWake[c] = {}
  BY <1>4, InCall DEF WakeInvariant, ListedParked
<1>6. Apart'
  <2>1. ASSUME NEW i \in DOMAIN sendQ', NEW j \in DOMAIN sendQ', sendQ'[i].coro = sendQ'[j].coro
        PROVE  i = j
    <3>1. CASE i = 1 \/ j = 1
      BY <1>1, <1>3, <1>5, <2>1, <3>1
    <3>2. CASE i # 1 /\ j # 1
      <4>1. i - 1 = j - 1
        BY <1>3, <2>1, <3>2 DEF WakeInvariant, Apart
      <4>2. i \in Nat /\ j \in Nat
        BY <1>3
      <4>3. QED
        BY <4>1, <4>2
    <3>3. QED
      BY <3>1, <3>2
  <2>2. \A d \in Clients : \A i \in DOMAIN toWake[d] : \A j \in DOMAIN sendQ' :
          sendQ'[j].coro # toWake[d][i]
    BY <1>1, <1>3, <1>5 DEF WakeInvariant, Apart
  <2>3. QED
    BY <1>4, <2>1, <2>2 DEF WakeInvariant, Apart
<1>7. ListedParked'
  <2>1. \A i \in DOMAIN sendQ' : st'[sendQ'[i].coro] = "parkedSend"
    BY <1>1, <1>3, <1>4, <1>5, Members DEF WakeInvariant, ListedParked
  <2>2. QED
    BY <1>4, <1>5, <2>1, Members DEF WakeInvariant, ListedParked
<1>8. ParkedListed'
  <2>1. ASSUME NEW d \in Coros, st'[d] \in {"parkedSend", "parkedRecv"}
        PROVE  \/ \E i \in DOMAIN sendQ' : sendQ'[i].coro = d
               \/ \E i \in DOMAIN recvQ : recvQ[i] = d
               \/ \E e \in Clients : \E i \in DOMAIN toWake[e] : toWake[e][i] = d
    <3>1. CASE d = c
      BY <1>1, <1>3, <3>1
    <3>2. CASE d # c
      BY <1>3, <1>4, <2>1, <3>2, Members DEF WakeInvariant, ParkedListed
    <3>3. QED
      BY <3>1, <3>2
  <2>2. QED
    BY <1>4, <2>1 DEF ParkedListed
<1>9. WakersFree'
  BY <1>4, <1>5 DEF WakeInvariant, WakersFree
<1>10. Owed'
  <2>1. \A d \in Clients : Lacks(d)' = Lacks(d) /\ Complete(d)' = Complete(d)
    BY <1>4 DEF Lacks, Complete
  <2>2. QED
    BY <1>4, <1>5, <2>1, Members DEF WakeInvariant, Owed
<1>11. QED
  BY <1>6, <1>7, <1>8, <1>9, <1>10 DEF WakeInvariant

\* A receiver that parks likewise; its value is still to come.
LEMMA ParkReceiver ==
  ASSUME ChanInv, WakeInvariant, NEW c \in Clients, RecvPark(c)
  PROVE  WakeInvariant'
<1>1. /\ st[c] = "receiving" /\ c \in Coros /\ UNCHANGED <<sendQ, toWake, got, recvs>>
      /\ st'[c] = "parkedRecv" /\ \A d \in Clients \ {c} : st'[d] = st[d]
      /\ recvQ' = <<c>> \o recvQ /\ recvQ \in Seq(Coros)
  BY DEF RecvPark, Goto, ChanInv, TypeOK
<1>2. /\ 1 \in DOMAIN recvQ' /\ recvQ'[1] = c
      /\ DOMAIN recvQ \subseteq Nat \ {0} /\ DOMAIN recvQ' \subseteq Nat \ {0}
      /\ \A i \in DOMAIN recvQ : i + 1 \in DOMAIN recvQ' /\ recvQ'[i + 1] = recvQ[i]
      /\ \A i \in DOMAIN recvQ' \ {1} : i - 1 \in DOMAIN recvQ /\ recvQ'[i] = recvQ[i - 1]
  BY <1>1, Longer
<1>3. /\ \A i \in DOMAIN sendQ : sendQ[i].coro # c
      /\ \A i \in DOMAIN recvQ : recvQ[i] # c
      /\ \A d \in Clients : \A i \in DOMAIN toWake[d] : toWake[d][i] # c
      /\ toWake[c] = <<>> /\ DOMAIN toWake[c] = {}
  BY <1>1, InCall DEF WakeInvariant, ListedParked
<1>4. Apart'
  <2>1. ASSUME NEW i \in DOMAIN recvQ', NEW j \in DOMAIN recvQ', recvQ'[i] = recvQ'[j]
        PROVE  i = j
    <3>1. CASE i = 1 \/ j = 1
      BY <1>2, <1>3, <2>1, <3>1
    <3>2. CASE i # 1 /\ j # 1
      <4>1. i - 1 = j - 1
        BY <1>2, <2>1, <3>2 DEF WakeInvariant, Apart
      <4>2. i \in Nat /\ j \in Nat
        BY <1>2
      <4>3. QED
        BY <4>1, <4>2
    <3>3. QED
      BY <3>1, <3>2
  <2>2. \A d \in Clients : \A i \in DOMAIN toWake[d] : \A j \in DOMAIN recvQ' :
          recvQ'[j] # toWake[d][i]
    BY <1>2, <1>3 DEF WakeInvariant, Apart
  <2>3. QED
    BY <1>1, <2>1, <2>2 DEF WakeInvariant, Apart
<1>5. ListedParked'
  <2>1. \A i \in DOMAIN recvQ' : st'[recvQ'[i]] = "parkedRecv"
    BY <1>1, <1>2, <1>3, Members DEF WakeInvariant, ListedParked
  <2>2. QED
    BY <1>1, <1>3, <2>1, Members DEF WakeInvariant, ListedParked
<1>6. ParkedListed'
  <2>1. ASSUME NEW d \in Coros, st'[d] \in {"parkedSend", "parkedRecv"}
        PROVE  \/ \E i \in DOMAIN sendQ : sendQ[i].coro = d
               \/ \E i \in DOMAIN recvQ' : recvQ'[i] = d
               \/ \E e \in Clients : \E i \in DOMAIN toWake[e] : toWake[e][i] = d
    <3>1. CASE d = c
      BY <1>2, <3>1
    <3>2. CASE d # c
      <4>1. st[d] \in {"parkedSend", "parkedRecv"}
        BY <1>1, <2>1, <3>2, Members
      <4>2. CASE \E i \in DOMAIN recvQ : recvQ[i] = d
        BY <1>2, <4>2
      <4>3. QED
        BY <4>1, <4>2 DEF WakeInvariant, ParkedListed
    <3>3. QED
      BY <3>1, <3>2
  <2>2. QED
    BY <1>1, <2>1 DEF ParkedListed
<1>7. WakersFree'
  BY <1>1, <1>3 DEF WakeInvariant, WakersFree
<1>8. Owed'
  <2>1. \A d \in Clients : Lacks(d)' = Lacks(d) /\ Complete(d)' = Complete(d)
    BY <1>1 DEF Lacks, Complete
  <2>2. \A i \in DOMAIN recvQ' : Lacks(recvQ'[i])
    BY <1>1, <1>2 DEF WakeInvariant, Owed
  <2>3. (\A i \in DOMAIN recvQ : Lacks(recvQ[i]))'
    BY <1>1, <2>2 DEF Lacks
  <2>4. QED
    BY <1>1, <1>3, <2>1, <2>3, Members DEF WakeInvariant, Owed
<1>9. QED
  BY <1>4, <1>5, <1>6, <1>7, <1>8 DEF WakeInvariant

\* Closing takes the whole list of receivers into the closer's hands.
LEMMA CloseWake ==
  ASSUME ChanInv, WakeInvariant, NEW c \in Clients, Close(c)
  PROVE  WakeInvariant'
<1>1. /\ st[c] = "idle" /\ toWake[c] = <<>> /\ DOMAIN toWake[c] = {}
      /\ recvQ' = <<>> /\ DOMAIN recvQ' = {} /\ UNCHANGED <<sendQ, got, recvs>>
  BY EmptyDomain DEF Close, Idle
<1>2. toWake'[c] = recvQ /\ \A d \in Clients \ {c} : toWake'[d] = toWake[d]
  BY DEF Close, WillWake, ChanInv, TypeOK
<1>3. /\ st'[c] = IF recvQ = <<>> THEN "idle" ELSE "closing"
      /\ \A d \in Clients \ {c} : st'[d] = st[d]
  BY DEF Close, Goto, ChanInv, TypeOK
<1>4. /\ \A i \in DOMAIN sendQ : sendQ[i].coro # c
      /\ \A i \in DOMAIN recvQ : recvQ[i] # c
      /\ \A d \in Clients : \A i \in DOMAIN toWake[d] : toWake[d][i] # c
  BY <1>1 DEF WakeInvariant, ListedParked
<1>5. Apart'
  <2>1. \A c1, d \in Clients : \A i \in DOMAIN toWake'[c1], j \in DOMAIN toWake'[d] :
          toWake'[c1][i] = toWake'[d][j] => c1 = d /\ i = j
    BY <1>2 DEF WakeInvariant, Apart
  <2>2. \A d \in Clients : \A i \in DOMAIN toWake'[d] : \A j \in DOMAIN sendQ :
          sendQ[j].coro # toWake'[d][i]
    BY <1>2 DEF WakeInvariant, Apart, ListedParked
  <2>3. QED
    BY <1>1, <2>1, <2>2 DEF WakeInvariant, Apart
<1>6. ListedParked'
  <2>1. \A i \in DOMAIN sendQ : st'[sendQ[i].coro] = "parkedSend"
    BY <1>3, <1>4, Members DEF WakeInvariant, ListedParked
  <2>2. \A i \in DOMAIN recvQ : st'[recvQ[i]] = "parkedRecv"
    BY <1>3, <1>4, Members DEF WakeInvariant, ListedParked
  <2>3. \A d \in Clients : \A i \in DOMAIN toWake'[d] :
          /\ st'[toWake'[d][i]] \in {"parkedSend", "parkedRecv"}
          /\ st'[d] = "closing" => st'[toWake'[d][i]] = "parkedRecv"
    BY <1>2, <1>3, <1>4, <2>2, Members DEF WakeInvariant, ListedParked
  <2>4. QED
    BY <1>1, <2>1, <2>3 DEF ListedParked
<1>7. ParkedListed'
  <2>1. ASSUME NEW d \in Coros, st'[d] \in {"parkedSend", "parkedRecv"}
        PROVE  \/ \E i \in DOMAIN sendQ : sendQ[i].coro = d
               \/ \E e \in Clients : \E i \in DOMAIN toWake'[e] : toWake'[e][i] = d
    <3>1. st[d] \in {"parkedSend", "parkedRecv"}
      BY <1>3, <2>1, Members
    <3>2. CASE \E i \in DOMAIN sendQ : sendQ[i].coro = d
      BY <3>2
    <3>3. CASE \E i \in DOMAIN recvQ : recvQ[i] = d
      BY <1>2, <3>3
    <3>4. CASE \E e \in Clients : \E i \in DOMAIN toWake[e] : toWake[e][i] = d
      BY <1>1, <1>2, <3>4
    <3>5. QED
      BY <3>1, <3>2, <3>3, <3>4 DEF WakeInvariant, ParkedListed
  <2>2. QED
    BY <1>1, <2>1 DEF ParkedListed
<1>8. WakersFree'
  BY <1>2, <1>3 DEF WakeInvariant, WakersFree
<1>9. Owed'
  <2>1. \A d \in Clients : Lacks(d)' = Lacks(d) /\ Complete(d)' = Complete(d)
    BY <1>1 DEF Lacks, Complete
  <2>2. \A d \in Clients :
          /\ st'[d] \in {"idle", "sending", "parkedSend", "closing"} => Complete(d)'
          /\ st'[d] \in {"receiving", "trying"} => Lacks(d)'
    BY <1>1, <1>3, <2>1 DEF WakeInvariant, Owed
  <2>3. ASSUME NEW d \in Clients, NEW i \in DOMAIN toWake'[d]
        PROVE  (IF st[d] = "closing" THEN Lacks(toWake[d][i]) ELSE Complete(toWake[d][i]))'
    <3>1. CASE d = c
      <4>1. recvQ # <<>> /\ toWake'[d][i] = recvQ[i] /\ i \in DOMAIN recvQ /\ st'[d] = "closing"
        BY <1>2, <1>3, <3>1, EmptyDomain
      <4>2. Lacks(recvQ[i])
        BY <4>1 DEF WakeInvariant, Owed
      <4>3. QED
        BY <1>1, <4>1, <4>2 DEF Lacks
    <3>2. CASE d # c
      <4>1. toWake'[d] = toWake[d] /\ st'[d] = st[d]
        BY <1>2, <1>3, <3>2
      <4>2. IF st[d] = "closing" THEN Lacks(toWake[d][i]) ELSE Complete(toWake[d][i])
        BY <4>1 DEF WakeInvariant, Owed
      <4>3. QED
        BY <1>1, <4>1, <4>2 DEF Lacks, Complete
    <3>3. QED
      BY <3>1, <3>2
  <2>4. QED
    BY <1>1, <2>2, <2>3 DEF Owed
<1>10. QED
  BY <1>5, <1>6, <1>7, <1>8, <1>9 DEF WakeInvariant

\* A wakeup frees the first in hand, who was in no other place.
LEMMA WakeWake ==
  ASSUME ChanInv, WakeInvariant, NEW c \in Clients, Wake(c)
  PROVE  WakeInvariant'
<1>1. toWake[c] # <<>> /\ toWake[c] \in Seq(Coros) /\ UNCHANGED <<sendQ, recvQ, recvs>>
  BY DEF Wake, ChanInv, TypeOK, queues
<1>2. toWake'[c] = Tail(toWake[c]) /\ \A d \in Clients \ {c} : toWake'[d] = toWake[d]
  BY DEF Wake, WillWake, ChanInv, TypeOK
<1>3. /\ 1 \in DOMAIN toWake[c] /\ toWake[c][1] = Head(toWake[c])
      /\ DOMAIN toWake[c] \subseteq Nat /\ DOMAIN toWake'[c] \subseteq Nat \ {0}
      /\ \A i \in DOMAIN toWake'[c] : i + 1 \in DOMAIN toWake[c] /\ toWake'[c][i] = toWake[c][i + 1]
      /\ \A i \in DOMAIN toWake[c] \ {1} :
            i - 1 \in DOMAIN toWake'[c] /\ toWake'[c][i - 1] = toWake[c][i]
  BY <1>1, <1>2, Shorter
<1>4. PICK r \in Coros : r = toWake[c][1]
  BY <1>3, Members
<1>5. /\ IF st[c] = "closing" THEN Give(r, Zero) ELSE UNCHANGED got
      /\ st' = [st EXCEPT ![r] = "idle", ![c] = IF Len(toWake[c]) = 1 THEN "idle" ELSE @]
  BY <1>3, <1>4 DEF Wake, Unpark
<1>6. /\ st[c] \in {"idle", "closing"} /\ st[r] \in {"parkedSend", "parkedRecv"}
      /\ r # c /\ r \in Clients /\ toWake[r] = <<>> /\ DOMAIN toWake[r] = {}
  <2>1. st[c] \in {"idle", "closing"} /\ st[r] \in {"parkedSend", "parkedRecv"} /\ r \in Clients
    BY <1>1, <1>3, <1>4, Members DEF WakeInvariant, WakersFree, ListedParked
  <2>2. QED
    BY <2>1, InCall
<1>7. /\ st'[r] = "idle" /\ \A d \in Clients \ {r, c} : st'[d] = st[d]
      /\ st'[c] = IF Len(toWake[c]) = 1 THEN "idle" ELSE st[c]
  BY <1>5, <1>6 DEF ChanInv, TypeOK
<1>8. Len(toWake[c]) = 1 => DOMAIN toWake'[c] = {}
  <2>1. DOMAIN toWake[c] = 1 .. Len(toWake[c])
    BY <1>1, LenProperties
  <2>2. ASSUME Len(toWake[c]) = 1, NEW i \in DOMAIN toWake'[c]
        PROVE  FALSE
    <3>1. i + 1 \in 1 .. 1 /\ i \in Nat \ {0}
      BY <1>3, <2>1, <2>2
    <3>2. QED
      BY <3>1
  <2>3. QED
    BY <2>2
<1>9. /\ \A i \in DOMAIN sendQ : sendQ[i].coro \in Coros \ {r, c}
      /\ \A i \in DOMAIN recvQ : recvQ[i] \in Coros \ {r, c}
      /\ \A d \in Clients : \A i \in DOMAIN toWake[d] : toWake[d][i] \in Coros \ {c}
      /\ \A d \in Clients : \A i \in DOMAIN toWake'[d] : toWake'[d][i] # r
  <2>1. /\ \A i \in DOMAIN sendQ : sendQ[i].coro # r
        /\ \A i \in DOMAIN recvQ : recvQ[i] # r
    BY <1>3, <1>4 DEF WakeInvariant, Apart
  <2>2. /\ \A i \in DOMAIN sendQ : sendQ[i].coro # c
        /\ \A i \in DOMAIN recvQ : recvQ[i] # c
        /\ \A d \in Clients : \A i \in DOMAIN toWake[d] : toWake[d][i] # c
    BY <1>6 DEF WakeInvariant, ListedParked
  <2>3. ASSUME NEW d \in Clients, NEW i \in DOMAIN toWake'[d]
        PROVE  toWake'[d][i] # r
    <3>1. CASE d = c
      <4>1. i + 1 \in DOMAIN toWake[c] /\ toWake'[c][i] = toWake[c][i + 1] /\ i + 1 # 1
        BY <1>3, <3>1
      <4>2. QED
        BY <1>3, <1>4, <3>1, <4>1 DEF WakeInvariant, Apart
    <3>2. CASE d # c
      BY <1>2, <1>3, <1>4, <3>2 DEF WakeInvariant, Apart
    <3>3. QED
      BY <3>1, <3>2
  <2>4. QED
    BY <2>1, <2>2, <2>3, Members
\* Who is still in hands was so before, in the same hands.
<1>10. \A d \in Clients : \A i \in DOMAIN toWake'[d] :
          \E j \in DOMAIN toWake[d] : toWake'[d][i] = toWake[d][j]
  <2>1. \A i \in DOMAIN toWake'[c] : \E j \in DOMAIN toWake[c] : toWake'[c][i] = toWake[c][j]
    BY <1>3
  <2>2. ASSUME NEW d \in Clients, d # c, NEW i \in DOMAIN toWake'[d]
        PROVE  \E j \in DOMAIN toWake[d] : toWake'[d][i] = toWake[d][j]
    BY <1>2, <2>2
  <2>3. QED
    BY <2>1, <2>2
<1>11. Apart'
  <2>1. ASSUME NEW c1 \in Clients, NEW d \in Clients,
               NEW i \in DOMAIN toWake'[c1], NEW j \in DOMAIN toWake'[d],
               toWake'[c1][i] = toWake'[d][j]
        PROVE  c1 = d /\ i = j
    <3>1. c1 = d
      BY <1>10, <2>1 DEF WakeInvariant, Apart
    <3>2. CASE c1 = c
      <4>1. i + 1 = j + 1
        BY <1>3, <2>1, <3>1, <3>2 DEF WakeInvariant, Apart
      <4>2. i \in Nat /\ j \in Nat
        BY <1>3, <3>1, <3>2
      <4>3. QED
        BY <3>1, <4>1, <4>2
    <3>3. CASE c1 # c
      BY <1>2, <2>1, <3>1, <3>3 DEF WakeInvariant, Apart
    <3>4. QED
      BY <3>2, <3>3
  <2>2. \A d \in Clients : \A i \in DOMAIN toWake'[d] :
          /\ \A j \in DOMAIN sendQ : sendQ[j].coro # toWake'[d][i]
          /\ \A j \in DOMAIN recvQ : recvQ[j] # toWake'[d][i]
    BY <1>10 DEF WakeInvariant, Apart
  <2>3. QED
    BY <1>1, <2>1, <2>2 DEF WakeInvariant, Apart
<1>12. ListedParked'
  <2>1. /\ \A i \in DOMAIN sendQ : st'[sendQ[i].coro] = "parkedSend"
        /\ \A i \in DOMAIN recvQ : st'[recvQ[i]] = "parkedRecv"
    BY <1>7, <1>9, Members DEF WakeInvariant, ListedParked
  <2>2. ASSUME NEW d \in Clients, NEW i \in DOMAIN toWake'[d]
        PROVE  /\ st'[toWake'[d][i]] \in {"parkedSend", "parkedRecv"}
               /\ st'[d] = "closing" => st'[toWake'[d][i]] = "parkedRecv"
    <3>1. PICK j \in DOMAIN toWake[d] : toWake'[d][i] = toWake[d][j]
      BY <1>10
    <3>2. st'[toWake'[d][i]] = st[toWake[d][j]]
      BY <1>7, <1>9, <3>1, Members
    <3>3. st'[d] = "closing" => st[d] = "closing"
      BY <1>7
    <3>4. QED
      BY <3>2, <3>3 DEF WakeInvariant, ListedParked
  <2>3. QED
    BY <1>1, <2>1, <2>2 DEF ListedParked
<1>13. ParkedListed'
  <2>1. ASSUME NEW d \in Coros, st'[d] \in {"parkedSend", "parkedRecv"}
        PROVE  \/ \E i \in DOMAIN sendQ : sendQ[i].coro = d
               \/ \E i \in DOMAIN recvQ : recvQ[i] = d
               \/ \E e \in Clients : \E i \in DOMAIN toWake'[e] : toWake'[e][i] = d
    <3>1. d # r /\ st[d] \in {"parkedSend", "parkedRecv"}
      BY <1>6, <1>7, <2>1, Members
    <3>2. CASE \E e \in Clients : \E i \in DOMAIN toWake[e] : toWake[e][i] = d
      <4>1. PICK e \in Clients : \E i \in DOMAIN toWake[e] : toWake[e][i] = d
        BY <3>2
      <4>2. CASE e # c
        BY <1>2, <4>1, <4>2
      <4>3. CASE e = c
        <5>1. PICK i \in DOMAIN toWake[c] : toWake[c][i] = d
          BY <4>1, <4>3
        <5>2. i - 1 \in DOMAIN toWake'[c] /\ toWake'[c][i - 1] = d
          BY <1>3, <1>4, <3>1, <5>1
        <5>3. QED
          BY <5>2
      <4>4. QED
        BY <4>2, <4>3
    <3>3. QED
      BY <1>1, <3>1, <3>2 DEF WakeInvariant, ParkedListed
  <2>2. QED
    BY <1>1, <2>1 DEF ParkedListed
<1>14. WakersFree'
  BY <1>2, <1>6, <1>7 DEF WakeInvariant, WakersFree
<1>15. Owed'
  <2>1. \A d \in Clients \ {r} : Lacks(d)' = Lacks(d) /\ Complete(d)' = Complete(d)
    BY <1>1, <1>5, <1>6, Written DEF Lacks, Complete
  <2>2. Complete(r)'
    <3>1. CASE st[c] = "closing"
      <4>1. Lacks(r)
        BY <1>3, <1>4, <3>1 DEF WakeInvariant, Owed
      <4>2. Len(got'[r]) = Len(got[r]) + 1
        BY <1>5, <1>6, <3>1, Written
      <4>3. QED
        BY <1>1, <4>1, <4>2 DEF Lacks, Complete
    <3>2. CASE st[c] # "closing"
      <4>1. Complete(r)
        BY <1>3, <1>4, <3>2 DEF WakeInvariant, Owed
      <4>2. QED
        BY <1>1, <1>5, <3>2, <4>1 DEF Complete
    <3>3. QED
      BY <3>1, <3>2
  <2>3. \A d \in Clients :
          /\ st'[d] \in {"idle", "sending", "parkedSend", "closing"} => Complete(d)'
          /\ st'[d] \in {"receiving", "trying"} => Lacks(d)'
    BY <1>6, <1>7, <2>1, <2>2 DEF WakeInvariant, Owed
  <2>4. (\A i \in DOMAIN recvQ : Lacks(recvQ[i]))'
    <3>1. \A i \in DOMAIN recvQ : Lacks(recvQ[i])' = Lacks(recvQ[i])
      BY <1>1, <1>5, <1>6, <1>9, Members, Written DEF Lacks
    <3>2. QED
      BY <1>1, <3>1 DEF WakeInvariant, Owed
  <2>5. ASSUME NEW d \in Clients, NEW i \in DOMAIN toWake'[d]
        PROVE  (IF st[d] = "closing" THEN Lacks(toWake[d][i]) ELSE Complete(toWake[d][i]))'
    <3>1. PICK j \in DOMAIN toWake[d] : toWake'[d][i] = toWake[d][j]
      BY <1>10
    <3>2. toWake[d][j] \in Clients \ {r}
      BY <1>9, <3>1, Members
    <3>3. st'[d] = st[d]
      BY <1>6, <1>7, <1>8, <3>1
    <3>4. IF st[d] = "closing" THEN Lacks(toWake[d][j]) ELSE Complete(toWake[d][j])
      BY DEF WakeInvariant, Owed
    <3>5. got'[toWake[d][j]] = got[toWake[d][j]]
      BY <1>5, <1>6, <3>2, Written
    <3>6. QED
      BY <1>1, <3>1, <3>3, <3>4, <3>5 DEF Lacks, Complete
  <2>6. QED
    BY <2>3, <2>4, <2>5 DEF Owed
<1>16. QED
  BY <1>11, <1>12, <1>13, <1>14, <1>15 DEF WakeInvariant

\* A receive from the buffer unlinks a sender or nobody.
LEMMA FromBufferWake ==
  ASSUME ChanInv, WakeInvariant, NEW c \in Clients, RecvFromBuffer(c)
  PROVE  WakeInvariant'
<1>1. CASE sendQ # <<>>
  BY <1>1, UnlinkSender DEF RecvFromBuffer, TakeHead
<1>2. CASE sendQ = <<>>
  BY <1>2, TakenWake DEF RecvFromBuffer, TakeHead, queues
<1>3. QED
  BY <1>1, <1>2

\* ty_chan_new leaves nobody parked and nothing owed.
LEMMA InitWake == Init => WakeInvariant
<1> SUFFICES ASSUME Init PROVE WakeInvariant
  OBVIOUS
<1>1. /\ DOMAIN sendQ = {} /\ DOMAIN recvQ = {}
      /\ \A c \in Clients : st[c] = "idle" /\ toWake[c] = <<>> /\ DOMAIN toWake[c] = {}
  BY EmptyDomain DEF Init
<1>2. \A c \in Clients : Complete(c)
  BY EmptySeq DEF Init, Complete
<1>3. Apart /\ ListedParked /\ WakersFree
  BY <1>1 DEF Apart, ListedParked, WakersFree
<1>4. ParkedListed
  BY <1>1 DEF ParkedListed, Clients
<1>5. Owed
  BY <1>1, <1>2 DEF Owed
<1>6. QED
  BY <1>3, <1>4, <1>5 DEF WakeInvariant

\* Every step of a client keeps the wait lists and the hands in order.
LEMMA StepWake == ChanInv /\ WakeInvariant /\ [Next]_vars => WakeInvariant'
<1> SUFFICES ASSUME ChanInv, WakeInvariant, [Next]_vars PROVE WakeInvariant'
  OBVIOUS
<1>1. ASSUME UNCHANGED <<sendQ, recvQ, st, toWake, recvs, got>>
      PROVE  WakeInvariant'
  BY <1>1 DEF WakeInvariant, Apart, ListedParked, ParkedListed, WakersFree, Owed,
              Lacks, Complete
<1>2. ASSUME NEW c \in Clients, Send(c)
      PROVE  WakeInvariant'
  <2>1. SendOnClosed(c) => WakeInvariant'
    BY <1>1 DEF SendOnClosed, queues
  <2>2. QED
    BY <1>2, <2>1, CallWake, UnlinkReceiver, BufferWake, ParkSender DEF Send
<1>3. ASSUME NEW c \in Clients, Recv(c)
      PROVE  WakeInvariant'
  <2>1. RecvFromSender(c) => WakeInvariant'
    BY UnlinkSender DEF RecvFromSender
  <2>2. RecvOnClosed(c) => WakeInvariant'
    BY TakenWake DEF RecvOnClosed, Receiving
  <2>3. QED
    BY <1>3, <2>1, <2>2, CallWake, FromBufferWake, ParkReceiver, NothingWake DEF Recv
<1>4. CASE UNCHANGED vars
  BY <1>1, <1>4 DEF vars, queues
<1>5. QED
  BY <1>2, <1>3, <1>4, CloseWake, WakeWake DEF Next

\* The invariant holds in every reachable state.
LEMMA WakeAlways == Spec => []WakeInvariant
<1>1. Init => WakeInvariant
  BY InitWake
<1>2. ChanInv /\ WakeInvariant /\ [Next]_vars => WakeInvariant'
  BY StepWake
<1>3. QED
  BY <1>1, <1>2, InvAlways, PTL DEF Spec

\* A set that holds no more than the one element is counted once, or not at all.
LEMMA Counted ==
  ASSUME NEW S
  PROVE  /\ S = {} => Cardinality(S) = 0
         /\ \A x \in S : (\A y \in S : y = x) => Cardinality(S) = 1
<1>1. ASSUME NEW x \in S, \A y \in S : y = x
      PROVE  Cardinality(S) = 1
  <2>1. S = {x}
    BY <1>1
  <2>2. QED
    BY <2>1, FS_Singleton
<1>2. QED
  BY <1>1, FS_EmptySet

\* Who is in whose hands.
LEMMA HandsMember ==
  ASSUME NEW r
  PROVE  /\ \A h \in InHands(r) :
               \E c \in Clients : \E i \in DOMAIN toWake[c] : h = <<c, i>> /\ toWake[c][i] = r
         /\ \A c \in Clients : \A i \in DOMAIN toWake[c] :
               toWake[c][i] = r => <<c, i>> \in InHands(r)
BY DEF InHands

\* Apart, ListedParked and ParkedListed together place each coroutine.
LEMMA Placed ==
  ASSUME WakeInvariant, NEW r \in Coros
  PROVE  /\ OnSendQ(r) # {} => st[r] = "parkedSend"
         /\ OnRecvQ(r) # {} => st[r] = "parkedRecv"
         /\ Cardinality(OnSendQ(r)) + Cardinality(OnRecvQ(r)) + Cardinality(InHands(r))
              = IF st[r] \in {"parkedSend", "parkedRecv"} THEN 1 ELSE 0
<1>1. OnSendQ(r) # {} => st[r] = "parkedSend"
  BY DEF OnSendQ, WakeInvariant, ListedParked
<1>2. OnRecvQ(r) # {} => st[r] = "parkedRecv"
  BY DEF OnRecvQ, WakeInvariant, ListedParked
<1>3. InHands(r) # {} => st[r] \in {"parkedSend", "parkedRecv"}
  BY HandsMember DEF WakeInvariant, ListedParked
<1>4. OnSendQ(r) # {} => /\ OnRecvQ(r) = {} /\ InHands(r) = {}
                         /\ Cardinality(OnSendQ(r)) = 1
  <2>1. ASSUME NEW i \in OnSendQ(r)
        PROVE  InHands(r) = {} /\ Cardinality(OnSendQ(r)) = 1
    <3>1. i \in DOMAIN sendQ /\ sendQ[i].coro = r
      BY DEF OnSendQ
    <3>2. InHands(r) = {}
      BY <3>1, HandsMember DEF WakeInvariant, Apart
    <3>3. \A j \in OnSendQ(r) : j = i
      BY <3>1 DEF OnSendQ, WakeInvariant, Apart
    <3>4. QED
      BY <3>2, <3>3, Counted
  <2>2. QED
    BY <1>1, <1>2, <2>1
<1>5. OnRecvQ(r) # {} => InHands(r) = {} /\ Cardinality(OnRecvQ(r)) = 1
  <2>1. ASSUME NEW i \in OnRecvQ(r)
        PROVE  InHands(r) = {} /\ Cardinality(OnRecvQ(r)) = 1
    <3>1. i \in DOMAIN recvQ /\ recvQ[i] = r
      BY DEF OnRecvQ
    <3>2. InHands(r) = {}
      BY <3>1, HandsMember DEF WakeInvariant, Apart
    <3>3. \A j \in OnRecvQ(r) : j = i
      BY <3>1 DEF OnRecvQ, WakeInvariant, Apart
    <3>4. QED
      BY <3>2, <3>3, Counted
  <2>2. QED
    BY <2>1
<1>6. InHands(r) # {} => Cardinality(InHands(r)) = 1
  <2>1. ASSUME NEW h \in InHands(r), NEW g \in InHands(r)
        PROVE  g = h
    <3>1. PICK c \in Clients : \E i \in DOMAIN toWake[c] : h = <<c, i>> /\ toWake[c][i] = r
      BY HandsMember
    <3>2. PICK i \in DOMAIN toWake[c] : h = <<c, i>> /\ toWake[c][i] = r
      BY <3>1
    <3>3. PICK d \in Clients : \E j \in DOMAIN toWake[d] : g = <<d, j>> /\ toWake[d][j] = r
      BY HandsMember
    <3>4. PICK j \in DOMAIN toWake[d] : g = <<d, j>> /\ toWake[d][j] = r
      BY <3>3
    <3>5. c = d /\ i = j
      BY <3>2, <3>4 DEF WakeInvariant, Apart
    <3>6. QED
      BY <3>2, <3>4, <3>5
  <2>2. QED
    BY <2>1, Counted
<1>7. st[r] \in {"parkedSend", "parkedRecv"} =>
        OnSendQ(r) # {} \/ OnRecvQ(r) # {} \/ InHands(r) # {}
  <2>1. ASSUME st[r] \in {"parkedSend", "parkedRecv"}
        PROVE  \/ \E i \in DOMAIN sendQ : sendQ[i].coro = r
               \/ \E i \in DOMAIN recvQ : recvQ[i] = r
               \/ \E c \in Clients : \E i \in DOMAIN toWake[c] : toWake[c][i] = r
    BY <2>1 DEF WakeInvariant, ParkedListed
  <2>2. (\E i \in DOMAIN sendQ : sendQ[i].coro = r) => OnSendQ(r) # {}
    BY DEF OnSendQ
  <2>3. (\E i \in DOMAIN recvQ : recvQ[i] = r) => OnRecvQ(r) # {}
    BY DEF OnRecvQ
  <2>4. (\E c \in Clients : \E i \in DOMAIN toWake[c] : toWake[c][i] = r) => InHands(r) # {}
    BY HandsMember
  <2>5. QED
    BY <2>1, <2>2, <2>3, <2>4
<1> DEFINE onSend == Cardinality(OnSendQ(r))
           onRecv == Cardinality(OnRecvQ(r))
           hands == Cardinality(InHands(r))
<1>8. /\ OnSendQ(r) = {} => onSend = 0
      /\ OnRecvQ(r) = {} => onRecv = 0
      /\ InHands(r) = {} => hands = 0
  BY Counted
<1>9. CASE st[r] \in {"parkedSend", "parkedRecv"}
  <2>1. \/ onSend = 1 /\ onRecv = 0 /\ hands = 0
        \/ onSend = 0 /\ onRecv = 1 /\ hands = 0
        \/ onSend = 0 /\ onRecv = 0 /\ hands = 1
    BY <1>4, <1>5, <1>6, <1>7, <1>8, <1>9
  <2>2. onSend + onRecv + hands = 1
    BY <2>1
  <2>3. QED
    BY <1>1, <1>2, <1>9, <2>2
<1>10. CASE st[r] \notin {"parkedSend", "parkedRecv"}
  <2>1. onSend = 0 /\ onRecv = 0 /\ hands = 0
    BY <1>1, <1>2, <1>3, <1>8, <1>10
  <2>2. onSend + onRecv + hands = 0
    BY <2>1
  <2>3. QED
    BY <1>1, <1>2, <1>10, <2>2
<1>11. QED
  BY <1>9, <1>10

\* chan_park, and the wakeups after the unlock in ty_chan_send, ty_chan_recv and
\* ty_chan_close: a parked coroutine is always in exactly one place from which it
\* will be enqueued, so that no wakeup is lost and none is given twice.
THEOREM NoWakeupLost == Spec => []WakeupPending
<1>1. WakeInvariant => WakeupPending
  BY Placed DEF WakeupPending
<1>2. QED
  BY <1>1, WakeAlways, PTL

\* ty_chan_recv and ty_chan_try_recv: a receive that has returned with success
\* wrote its element once, whoever wrote it: the receiver, a sender or a closer.
THEOREM EveryReceiveWrites == Spec => []OneValuePerReceive
<1>1. WakeInvariant => OneValuePerReceive
  BY DEF WakeInvariant, Owed, Complete, OneValuePerReceive
<1>2. QED
  BY <1>1, WakeAlways, PTL
================================================================================
