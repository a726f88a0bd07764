----------------------------- MODULE IoDriverProofs -----------------------------
(***************************************************************************)
(* For a pool and a token map of any size and any number of coroutines and *)
(* of calls: if no request outlives Cap later ones, every completion finds *)
(* the request it belongs to, no request is lent twice, and every call is  *)
(* answered once, with its own result.                                     *)
(***************************************************************************)
EXTENDS IoDriver, Integers, SequenceTheorems, TLAPS

\* A coroutine whose token is in use: it is about to submit or waits.
InFlight(c) ==
    pc[c] = "submit" \/ (pc[c] \in {"submitted", "parked"} /\ ~woken[c])

\* The completion is that of the call its coroutine waits for, and the map leads
\* to the request the coroutine holds.
Tracked(k) ==
    LET c == k.call[1] IN
    /\ pc[c] \in {"submitted", "parked"} /\ ~woken[c]
    /\ k.call[2] = asked[c]
    /\ k.token = token[c]
    /\ map[Index(k.token)] = at[c]

\* The tokens under way are too close together for two to share an entry.
InWindow(t) == t < nextToken /\ nextToken <= t + Cap
Window ==
    /\ \A c \in Coros : pc[c] = "submit" => InWindow(token[c])
    /\ \A k \in Completions : InWindow(k.token)
    /\ Working => InWindow(cqe.token)

TokensOwn ==
    /\ \A c \in Coros : InFlight(c) => token[c] < nextToken
    /\ \A c, d \in Coros : InFlight(c) /\ InFlight(d) /\ token[c] = token[d] => c = d
    /\ \A c \in Coros :
          Working /\ InFlight(c) /\ token[c] = cqe.token
              => poll = "wake" /\ c = cqe.call[1]

\* A coroutine waits for one completion, which is in one place.
OneCompletion ==
    /\ \A i, j \in DOMAIN cq : cq[i].call[1] = cq[j].call[1] => i = j
    /\ \A k \in kernel : \A i \in DOMAIN cq : k.call[1] # cq[i].call[1]
    /\ poll = "wake" => \A k \in Completions : k.call[1] # cqe.call[1]

\* What the poll thread has in hand.
InHand ==
    /\ batch <= Len(cq)
    /\ Working => cqe \in Entry /\ req \in Slots
    /\ poll = "wake" => Tracked(cqe) /\ req = at[cqe.call[1]]
    /\ poll = "free" => \A c \in Coros : ~Holds(c, req)

Requests ==
    /\ SlotsAccounted
    /\ \A c \in Coros, s \in Slots : Holds(c, s) => reqCoro[s] = c

\* The states of a coroutine that has a request, and whether it still waits.
HasRequest == {"token", "submit", "submitted", "parked"}
Waits(c) == pc[c] \in HasRequest /\ ~woken[c]

AtRequest ==
    \A c \in Coros :
        /\ pc[c] \in HasRequest => at[c] \in Slots
        /\ woken[c] => pc[c] \in {"submitted", "parked"}

\* Who has been woken, or has done the request itself, finds its own result.
Answers ==
    \A c \in Coros :
        /\ woken[c] \/ pc[c] = "take" => ioResult[c] = Call(c)
        /\ Len(taken[c]) = IF pc[c] = "idle" THEN asked[c] ELSE asked[c] - 1

IoInv ==
    /\ TypeOK
    /\ \A k \in Completions : Tracked(k)
    /\ Window
    /\ TokensOwn
    /\ OneCompletion
    /\ InHand
    /\ Requests
    /\ AtRequest
    /\ Answers
--------------------------------------------------------------------------------
\* Two tokens less than Cap apart have different places in the map.
LEMMA Remainders ==
  ASSUME NEW n \in Nat \ {0}, NEW t \in Nat, NEW u \in Nat, t < u, u < t + n
  PROVE  t % n # u % n
<1> DEFINE q == t \div n
<1> DEFINE r == u \div n
<1>1. q \in Int /\ r \in Int /\ t = n * q + (t % n) /\ u = n * r + (u % n)
  OBVIOUS
<1> HIDE DEF q, r
<1>2. SUFFICES ASSUME t % n = u % n PROVE FALSE
  OBVIOUS
<1>3. n * (r - q) = u - t
  BY <1>1, <1>2
<1>4. CASE r - q <= 0
  BY <1>1, <1>3, <1>4
<1>5. CASE r - q >= 1
  BY <1>1, <1>3, <1>5
<1>6. QED
  BY <1>1, <1>4, <1>5

\* So do two tokens in the window.
LEMMA TokensApart ==
  ASSUME TypeOK, NEW t \in Nat, NEW u \in Nat, t # u, InWindow(t), InWindow(u)
  PROVE  Index(t) # Index(u)
<1>1. Cap \in Nat \ {0} /\ nextToken \in Nat
  BY IoAssumption DEF TypeOK
<1>2. t < u + Cap /\ u < t + Cap
  BY <1>1 DEF InWindow
<1>3. CASE t < u
  BY <1>1, <1>2, <1>3, Remainders DEF Index
<1>4. CASE u < t
  <2>1. u % Cap # t % Cap
    BY <1>1, <1>2, <1>4, Remainders
  <2>2. QED
    BY <2>1 DEF Index
<1>5. QED
  BY <1>3, <1>4

\* An index is one of the map.
LEMMA IndexRange == \A t \in Nat : Index(t) \in 0 .. Cap - 1
  BY IoAssumption DEF Index

\* What completions are made of.
LEMMA EntryParts ==
  ASSUME NEW k \in Entry
  PROVE  /\ k.token \in Nat
         /\ k.call[1] \in Coros /\ k.call[2] \in 1 .. MaxCalls
         /\ k.call = <<k.call[1], k.call[2]>>
  BY DEF Entry, Calls

\* A completion is an entry, wherever it is.
LEMMA CompletionsTyped == TypeOK => Completions \subseteq Entry
  BY DEF TypeOK, Completions
--------------------------------------------------------------------------------
\* A step that leaves the requests, the map and the completions alone, and of the
\* coroutines changes only such as do not wait.
Quiet ==
    /\ UNCHANGED <<nextToken, pool, map, ring, token, cqe, req>>
    /\ poll' = poll \/ (~Working /\ ~Working')
    /\ \A c \in Coros :
          \/ ~Waits(c) /\ ~Waits(c)' /\ pc[c] # "submit" /\ pc'[c] # "submit"
          \/ /\ UNCHANGED <<at[c], woken[c], asked[c]>>
             /\ \/ UNCHANGED pc[c]
                \/ pc[c] = "submitted" /\ pc'[c] = "parked"

\* Such a step disturbs nothing else than what it is asked to keep.
LEMMA QuietStep ==
  ASSUME IoInv, Quiet, TypeOK', (batch <= Len(cq))', AtRequest', Answers'
  PROVE  IoInv'
<1>1. Completions' = Completions /\ Completions \subseteq Entry
  BY CompletionsTyped DEF IoInv, Quiet, Completions, ring
<1>2. \A c \in Coros : InFlight(c)' = InFlight(c)
  BY DEF Quiet, Waits, InFlight, HasRequest
<1>3. \A c \in Coros, s \in Slots : Holds(c, s)' = Holds(c, s)
  BY DEF Quiet, Waits, Holds, HasRequest
<1>4. \A k \in Entry : Tracked(k) => Tracked(k)'
  <2>1. SUFFICES ASSUME NEW k \in Entry, Tracked(k) PROVE Tracked(k)'
    OBVIOUS
  <2>2. k.call[1] \in Coros
    BY EntryParts
  <2>3. Waits(k.call[1])
    BY <2>1 DEF Tracked, Waits, HasRequest
  <2>4. QED
    BY <2>1, <2>2, <2>3 DEF Quiet, Tracked, Index
<1>5. (\A k \in Completions : Tracked(k))'
  BY <1>1, <1>4 DEF IoInv
<1>6. \A c \in Coros : (pc[c] = "submit")' = (pc[c] = "submit")
  BY DEF Quiet, Waits, HasRequest
<1>7. Working' = Working /\ (poll = "wake")' = (poll = "wake")
      /\ (poll = "free")' = (poll = "free")
  BY DEF Quiet, Working
<1>8. Window'
  BY <1>1, <1>6, <1>7 DEF IoInv, Window, InWindow, Quiet
<1>9. TokensOwn'
  BY <1>2, <1>7 DEF IoInv, TokensOwn, Quiet
<1>10. OneCompletion'
  BY <1>1, <1>7 DEF IoInv, OneCompletion, Quiet, ring
<1>11. SlotsAccounted'
  BY <1>3, <1>7 DEF IoInv, Requests, SlotsAccounted, Quiet, pool
<1>12. (\A c \in Coros, s \in Slots : Holds(c, s) => reqCoro[s] = c)'
  BY <1>3 DEF IoInv, Requests, Quiet, pool
<1>13. (Working => cqe \in Entry /\ req \in Slots)'
  BY <1>7 DEF IoInv, InHand, Quiet
<1>14. (poll = "wake" => Tracked(cqe) /\ req = at[cqe.call[1]])'
  <2>1. SUFFICES ASSUME poll = "wake" PROVE (Tracked(cqe) /\ req = at[cqe.call[1]])'
    BY <1>7
  <2>2. cqe \in Entry /\ Tracked(cqe) /\ req = at[cqe.call[1]]
    BY <2>1 DEF IoInv, InHand, Working
  <2>3. cqe' = cqe /\ req' = req
    BY DEF Quiet
  <2>4. Tracked(cqe)' /\ at'[cqe.call[1]] = map'[Index(cqe.token)]
    BY <1>4, <2>2, <2>3 DEF Tracked
  <2>5. map' = map /\ at[cqe.call[1]] = map[Index(cqe.token)]
    BY <2>2 DEF Quiet, Tracked
  <2>6. QED
    BY <2>2, <2>3, <2>4, <2>5
<1>15. (poll = "free" => \A c \in Coros : ~Holds(c, req))'
  <2>1. SUFFICES ASSUME poll = "free" PROVE (\A c \in Coros : ~Holds(c, req))'
    BY <1>7
  <2>2. req \in Slots /\ \A c \in Coros : ~Holds(c, req)
    BY <2>1 DEF IoInv, InHand, Working
  <2>3. QED
    BY <1>3, <2>2 DEF Quiet
<1>16. QED
  BY <1>5, <1>8, <1>9, <1>10, <1>11, <1>12, <1>13, <1>14, <1>15
  DEF IoInv, InHand, Requests
--------------------------------------------------------------------------------
\* A call under way has been counted.
LEMMA CallTyped ==
  ASSUME IoInv, NEW c \in Coros, pc[c] # "idle"
  PROVE  Call(c) \in Calls
<1>1. Len(taken[c]) \in Nat /\ Len(taken[c]) = asked[c] - 1 /\ asked[c] \in 0 .. MaxCalls
  BY DEF IoInv, TypeOK, Answers
<1>2. QED
  BY <1>1, IoAssumption DEF Call, Calls

\* A call begins at the first slot of the pool, or without a request.
LEMMA BeginInv ==
  ASSUME IoInv, NEW c \in Coros, Begin(c)
  PROVE  IoInv'
<1>1. Quiet
  BY DEF IoInv, TypeOK, AtRequest, Begin, Goto, Quiet, Waits, HasRequest, Working,
         pool, ring, pollVars
<1>2. TypeOK'
  <2>1. pc' \in [Coros -> {"idle", "alloc", "token", "submit", "submitted", "parked",
                          "take", "sync"}]
    BY DEF IoInv, TypeOK, Begin, Goto
  <2>2. at' \in [Coros -> 1 .. Cap + 1]
    BY IoAssumption DEF IoInv, TypeOK, Begin
  <2>3. asked' \in [Coros -> 0 .. MaxCalls]
    BY IoAssumption DEF IoInv, TypeOK, Begin
  <2>4. QED
    BY <2>1, <2>2, <2>3 DEF IoInv, TypeOK, Begin, pool, ring, pollVars
<1>3. (batch <= Len(cq))'
  BY DEF IoInv, InHand, Begin, ring, pollVars
<1>4. AtRequest'
  BY DEF IoInv, TypeOK, AtRequest, HasRequest, Begin, Goto
<1>5. Answers'
  <2>1. pc'[c] # "idle" /\ pc'[c] # "take" /\ ~woken[c]
    BY DEF IoInv, TypeOK, AtRequest, Begin, Goto
  <2>2. Len(taken'[c]) = asked'[c] - 1
    BY DEF IoInv, TypeOK, Answers, Begin
  <2>3. \A d \in Coros \ {c} : UNCHANGED <<pc[d], asked[d], woken[d], ioResult[d], taken[d]>>
    BY DEF IoInv, TypeOK, Begin, Goto
  <2>4. QED
    BY <2>1, <2>2, <2>3 DEF IoInv, Answers, Call, Begin
<1>6. QED
  BY <1>1, <1>2, <1>3, <1>4, <1>5, QuietStep

\* The scan of the pool passes a slot that is lent.
LEMMA SkipSlotInv ==
  ASSUME IoInv, NEW c \in Coros, SkipSlot(c)
  PROVE  IoInv'
<1>1. Quiet
  BY DEF IoInv, TypeOK, AtRequest, SkipSlot, Quiet, Waits, HasRequest, Working,
         pool, ring, pollVars
<1>2. TypeOK'
  <2>1. at' \in [Coros -> 1 .. Cap + 1]
    BY IoAssumption DEF IoInv, TypeOK, SkipSlot, Slots
  <2>2. QED
    BY <2>1 DEF IoInv, TypeOK, SkipSlot, pool, ring, pollVars
<1>3. (batch <= Len(cq))'
  BY DEF IoInv, InHand, SkipSlot, ring, pollVars
<1>4. AtRequest'
  BY DEF IoInv, TypeOK, AtRequest, HasRequest, SkipSlot, Slots
<1>5. Answers'
  BY DEF IoInv, TypeOK, AtRequest, Answers, Call, SkipSlot
<1>6. QED
  BY <1>1, <1>2, <1>3, <1>4, <1>5, QuietStep

\* The scan has passed the last slot.
LEMMA PoolExhaustedInv ==
  ASSUME IoInv, NEW c \in Coros, PoolExhausted(c)
  PROVE  IoInv'
<1>1. Quiet
  BY DEF IoInv, TypeOK, AtRequest, PoolExhausted, Goto, Quiet, Waits, HasRequest,
         Working, pool, ring, pollVars
<1>2. TypeOK'
  BY DEF IoInv, TypeOK, PoolExhausted, Goto, pool, ring, pollVars
<1>3. (batch <= Len(cq))'
  BY DEF IoInv, InHand, PoolExhausted, ring, pollVars
<1>4. AtRequest'
  BY DEF IoInv, TypeOK, AtRequest, HasRequest, PoolExhausted, Goto
<1>5. Answers'
  BY DEF IoInv, TypeOK, AtRequest, Answers, Call, PoolExhausted, Goto
<1>6. QED
  BY <1>1, <1>2, <1>3, <1>4, <1>5, QuietStep

\* The fallback leaves the result of the very call.
LEMMA SyncInv ==
  ASSUME IoInv, NEW c \in Coros, Sync(c)
  PROVE  IoInv'
<1>1. Quiet
  BY DEF IoInv, TypeOK, AtRequest, Sync, Goto, Quiet, Waits, HasRequest, Working,
         pool, ring, pollVars
<1>2. TypeOK'
  <2>1. Call(c) \in Calls
    BY CallTyped DEF Sync
  <2>2. QED
    BY <2>1 DEF IoInv, TypeOK, Sync, Goto, pool, ring, pollVars
<1>3. (batch <= Len(cq))'
  BY DEF IoInv, InHand, Sync, ring, pollVars
<1>4. AtRequest'
  BY DEF IoInv, TypeOK, AtRequest, HasRequest, Sync, Goto
<1>5. Answers'
  BY DEF IoInv, TypeOK, AtRequest, Answers, Call, Sync, Goto
<1>6. QED
  BY <1>1, <1>2, <1>3, <1>4, <1>5, QuietStep

\* A coroutine that parks waits as before.
LEMMA ParkInv ==
  ASSUME IoInv, NEW c \in Coros, Park(c)
  PROVE  IoInv'
<1>1. Quiet
  BY DEF IoInv, TypeOK, AtRequest, Park, Goto, Quiet, Waits, HasRequest, Working,
         pool, ring, pollVars
<1>2. TypeOK'
  BY DEF IoInv, TypeOK, Park, Goto, pool, ring, pollVars
<1>3. (batch <= Len(cq))'
  BY DEF IoInv, InHand, Park, ring, pollVars
<1>4. AtRequest'
  BY DEF IoInv, TypeOK, AtRequest, HasRequest, Park, Goto
<1>5. Answers'
  BY DEF IoInv, TypeOK, AtRequest, Answers, Call, Park, Goto
<1>6. QED
  BY <1>1, <1>2, <1>3, <1>4, <1>5, QuietStep

\* Only who has been woken resumes.
LEMMA ResumeInv ==
  ASSUME IoInv, NEW c \in Coros, Resume(c)
  PROVE  IoInv'
<1>1. Quiet
  BY DEF IoInv, TypeOK, AtRequest, Resume, Goto, Quiet, Waits, HasRequest, Working,
         pool, ring, pollVars
<1>2. TypeOK'
  BY DEF IoInv, TypeOK, Resume, Goto, pool, ring, pollVars
<1>3. (batch <= Len(cq))'
  BY DEF IoInv, InHand, Resume, ring, pollVars
<1>4. AtRequest'
  BY DEF IoInv, TypeOK, AtRequest, HasRequest, Resume, Goto
<1>5. Answers'
  BY DEF IoInv, TypeOK, AtRequest, Answers, Call, Resume, Goto
<1>6. QED
  BY <1>1, <1>2, <1>3, <1>4, <1>5, QuietStep

\* The call that is answered is the last one begun.
LEMMA TakeInv ==
  ASSUME IoInv, NEW c \in Coros, Take(c)
  PROVE  IoInv'
<1>1. Quiet
  BY DEF IoInv, TypeOK, AtRequest, Take, Goto, Quiet, Waits, HasRequest, Working,
         pool, ring, pollVars
<1>2. TypeOK'
  BY DEF IoInv, TypeOK, Take, Goto, pool, ring, pollVars
<1>3. (batch <= Len(cq))'
  BY DEF IoInv, InHand, Take, ring, pollVars
<1>4. AtRequest'
  BY DEF IoInv, TypeOK, AtRequest, HasRequest, Take, Goto
<1>5. Answers'
  BY SMTT(30) DEF IoInv, TypeOK, AtRequest, Answers, Call, Take, Goto
<1>6. QED
  BY <1>1, <1>2, <1>3, <1>4, <1>5, QuietStep

\* The steps of the poll thread outside a completion.
LEMMA PollCheckInv ==
  ASSUME IoInv, PollCheck
  PROVE  IoInv'
<1>1. Quiet
  BY DEF PollCheck, Quiet, Waits, Working, pool, ring, coroVars
<1>2. TypeOK'
  BY DEF IoInv, TypeOK, PollCheck, pool, ring, coroVars
<1>3. (batch <= Len(cq))'
  BY DEF IoInv, TypeOK, InHand, PollCheck, ring, pollVars
<1>4. AtRequest' /\ Answers'
  BY DEF IoInv, AtRequest, Answers, Call, PollCheck, coroVars
<1>5. QED
  BY <1>1, <1>2, <1>3, <1>4, QuietStep

\* What it has seen is there.
LEMMA PollEnterInv ==
  ASSUME IoInv, PollEnter
  PROVE  IoInv'
<1>1. Quiet
  BY DEF PollEnter, Quiet, Waits, Working, pool, ring, coroVars
<1>2. TypeOK'
  BY DEF IoInv, TypeOK, PollEnter, pool, ring, coroVars
<1>3. (batch <= Len(cq))'
  BY DEF IoInv, TypeOK, InHand, PollEnter, ring, pollVars
<1>4. AtRequest' /\ Answers'
  BY DEF IoInv, AtRequest, Answers, Call, PollEnter, coroVars
<1>5. QED
  BY <1>1, <1>2, <1>3, <1>4, QuietStep

\* A batch is done.
LEMMA PollDoneInv ==
  ASSUME IoInv, PollDone
  PROVE  IoInv'
<1>1. Quiet
  BY DEF PollDone, Quiet, Waits, Working, pool, ring, coroVars
<1>2. TypeOK'
  BY DEF IoInv, TypeOK, PollDone, pool, ring, coroVars
<1>3. (batch <= Len(cq))'
  BY DEF IoInv, TypeOK, InHand, PollDone, ring, pollVars
<1>4. AtRequest' /\ Answers'
  BY DEF IoInv, AtRequest, Answers, Call, PollDone, coroVars
<1>5. QED
  BY <1>1, <1>2, <1>3, <1>4, QuietStep

\* The end touches the flag only.
LEMMA ShutdownInv ==
  ASSUME IoInv, Shutdown
  PROVE  IoInv'
<1>1. Quiet
  BY DEF Shutdown, Quiet, Waits, Working, pool, ring, pollVars, coroVars
<1>2. TypeOK'
  BY DEF IoInv, TypeOK, Shutdown, pool, ring, pollVars, coroVars
<1>3. (batch <= Len(cq))'
  BY DEF IoInv, TypeOK, InHand, Shutdown, ring, pollVars
<1>4. AtRequest' /\ Answers'
  BY DEF IoInv, AtRequest, Answers, Call, Shutdown, coroVars
<1>5. QED
  BY <1>1, <1>2, <1>3, <1>4, QuietStep

\* And joining touches nothing.
LEMMA JoinInv ==
  ASSUME IoInv, Join
  PROVE  IoInv'
<1>1. Quiet
  BY DEF Join, Quiet, Waits, Working, pool, ring, pollVars, coroVars
<1>2. TypeOK'
  BY DEF IoInv, TypeOK, Join, pool, ring, pollVars, coroVars
<1>3. (batch <= Len(cq))'
  BY DEF IoInv, TypeOK, InHand, Join, ring, pollVars
<1>4. AtRequest' /\ Answers'
  BY DEF IoInv, AtRequest, Answers, Call, Join, coroVars
<1>5. QED
  BY <1>1, <1>2, <1>3, <1>4, QuietStep
--------------------------------------------------------------------------------
\* pool_alloc lends what nobody holds.
LEMMA TakeSlotInv ==
  ASSUME IoInv, NEW c \in Coros, TakeSlot(c)
  PROVE  IoInv'
<1> SUFFICES ASSUME NEW s, s = at[c] PROVE IoInv'
  OBVIOUS
<1>1. /\ s \in Slots /\ pc[c] = "alloc" /\ ~woken[c]
      /\ \A d \in Coros : ~Holds(d, s)
      /\ ~(poll = "free" /\ req = s)
  BY DEF TakeSlot, IoInv, AtRequest, Requests, SlotsAccounted
<1>2. /\ inUse' = [inUse EXCEPT ![s] = TRUE]
      /\ reqCoro' = [reqCoro EXCEPT ![s] = c]
      /\ pc' = [pc EXCEPT ![c] = "token"]
      /\ UNCHANGED <<running, nextToken, map, ring, pollVars, at, token, asked, taken,
                     woken, ioResult, main>>
  BY DEF TakeSlot, Goto
<1>3. TypeOK'
  BY <1>1, <1>2 DEF IoInv, TypeOK, ring, pollVars
<1>4. Completions' = Completions /\ Completions \subseteq Entry
  BY <1>2, CompletionsTyped DEF IoInv, Completions, ring
<1>5. /\ \A d \in Coros : InFlight(d)' = InFlight(d)
      /\ \A d \in Coros : (pc[d] = "submit")' = (pc[d] = "submit")
  BY <1>1, <1>2 DEF InFlight, IoInv, TypeOK
<1>6. \A k \in Entry : Tracked(k)' = Tracked(k)
  BY <1>1, <1>2, EntryParts DEF Tracked, Index, IoInv, TypeOK
<1>7. (\A k \in Completions : Tracked(k))'
  BY <1>4, <1>6 DEF IoInv
<1>8. Window'
  BY <1>2, <1>4, <1>5 DEF IoInv, Window, InWindow, Working, pollVars
<1>9. TokensOwn'
  BY <1>2, <1>5 DEF IoInv, TokensOwn, Working, pollVars
<1>10. OneCompletion'
  BY <1>2, <1>4 DEF IoInv, OneCompletion, ring, pollVars
<1>11. \A d \in Coros, t \in Slots :
         Holds(d, t)' = (Holds(d, t) \/ (d = c /\ t = s))
  BY <1>1, <1>2 DEF Holds, IoInv, TypeOK
<1>12. InHand'
  <2>1. UNCHANGED <<batch, cq, poll, cqe, req, at>>
    BY <1>2 DEF ring, pollVars
  <2>2. poll = "wake" => Tracked(cqe)' /\ req = at[cqe.call[1]]
    BY <1>6, <2>1 DEF IoInv, InHand, Working
  <2>3. poll = "free" => \A d \in Coros : ~Holds(d, req)'
    BY <1>1, <1>11, <2>1 DEF IoInv, InHand, Working
  <2>4. QED
    BY <2>1, <2>2, <2>3 DEF IoInv, InHand, Working
<1>13. Requests'
  <2>1. SlotsAccounted'
    <3>1. UNCHANGED <<poll, req>> /\ SlotsAccounted /\ inUse \in [Slots -> BOOLEAN]
      BY <1>2 DEF pollVars, IoInv, TypeOK, Requests
    <3>2. \A t \in Slots : \A d, e \in Coros : Holds(d, t)' /\ Holds(e, t)' => d = e
      BY <1>1, <1>11, <3>1 DEF SlotsAccounted
    <3>3. inUse'[s] /\ Holds(c, s)'
      BY <1>1, <1>2, <1>11, <3>1
    <3>4. \A t \in Slots \ {s} :
            inUse'[t] <=> (\E d \in Coros : Holds(d, t)') \/ (poll' = "free" /\ req' = t)
      BY <1>2, <1>11, <3>1 DEF SlotsAccounted
    <3>5. QED
      BY <1>1, <3>2, <3>3, <3>4 DEF SlotsAccounted
  <2>2. (\A d \in Coros, t \in Slots : Holds(d, t) => reqCoro[t] = d)'
    BY <1>1, <1>2, <1>11 DEF IoInv, TypeOK, Requests
  <2>3. QED
    BY <2>1, <2>2 DEF Requests
<1>14. AtRequest'
  BY <1>1, <1>2 DEF IoInv, TypeOK, AtRequest, HasRequest
<1>15. Answers'
  BY <1>1, <1>2 DEF IoInv, TypeOK, Answers, Call
<1>16. QED
  BY <1>3, <1>7, <1>8, <1>9, <1>10, <1>12, <1>13, <1>14, <1>15 DEF IoInv

\* A new token is apart from those under way, if none of them is Cap behind.
LEMMA TakeTokenInv ==
  ASSUME Timely, IoInv, NEW c \in Coros, TakeToken(c)
  PROVE  IoInv'
<1> SUFFICES ASSUME NEW n, n = nextToken PROVE IoInv'
  OBVIOUS
<1>1. /\ n \in Nat \ {0} /\ Cap \in Nat \ {0}
      /\ pc[c] = "token" /\ ~woken[c] /\ ~InFlight(c)
      /\ \A t \in Outstanding : n < t + Cap
  BY IoAssumption DEF TakeToken, InTime, IoInv, TypeOK, AtRequest, InFlight
<1>2. /\ token' = [token EXCEPT ![c] = n]
      /\ nextToken' = n + 1
      /\ pc' = [pc EXCEPT ![c] = "submit"]
      /\ UNCHANGED <<running, pool, map, ring, pollVars, at, asked, taken, woken,
                     ioResult, main>>
  BY DEF TakeToken, Goto
<1>3. TypeOK'
  BY <1>1, <1>2, SMTT(30) DEF IoInv, TypeOK, pool, ring, pollVars
<1>4. Completions' = Completions /\ Completions \subseteq Entry
  BY <1>2, CompletionsTyped DEF IoInv, Completions, ring
<1>5. \A d \in Coros : InFlight(d)' <=> (InFlight(d) \/ d = c)
  BY <1>1, <1>2 DEF InFlight, IoInv, TypeOK
<1>6. \A k \in Entry : Tracked(k) => Tracked(k)'
  BY <1>1, <1>2, EntryParts DEF Tracked, Index, IoInv, TypeOK
<1>7. (\A k \in Completions : Tracked(k))'
  BY <1>4, <1>6 DEF IoInv
<1>8. UNCHANGED <<poll, batch, cqe, req, cq>>
  BY <1>2 DEF pollVars, ring
<1>9. Window'
  <2>1. \A d \in Coros : pc'[d] = "submit" => InWindow(token[d])'
    <3>1. \A d \in Coros \ {c} : pc'[d] = "submit" => InWindow(token[d])'
      <4>1. SUFFICES ASSUME NEW d \in Coros \ {c}, pc[d] = "submit"
                     PROVE  InWindow(token[d])'
        BY <1>2 DEF IoInv, TypeOK
      <4>2. token[d] \in Outstanding /\ token[d] \in Nat /\ token[d] < n
        BY <1>1, <4>1 DEF Outstanding, IoInv, TypeOK, Window, InWindow
      <4>3. token'[d] = token[d]
        BY <1>2 DEF IoInv, TypeOK
      <4>4. QED
        BY <1>1, <1>2, <4>2, <4>3 DEF InWindow
    <3>2. token'[c] = n
      BY <1>2 DEF IoInv, TypeOK
    <3>3. QED
      BY <1>1, <1>2, <3>1, <3>2 DEF InWindow
  <2>2. \A k \in Completions : InWindow(k.token)'
    BY <1>1, <1>2, <1>4 DEF Outstanding, IoInv, Window, InWindow, Entry
  <2>3. Working => InWindow(cqe.token)'
    BY <1>1, <1>2, <1>8 DEF Outstanding, IoInv, Window, InWindow, InHand, Entry
  <2>4. QED
    BY <1>4, <1>8, <2>1, <2>2, <2>3 DEF Window, Working
<1>10. TokensOwn'
  <2>1. token'[c] = n /\ \A d \in Coros \ {c} : token'[d] = token[d] /\ token[d] \in Nat
    BY <1>2 DEF IoInv, TypeOK
  <2>2. Working => cqe.token \in Nat /\ cqe.token < n
    BY <1>1 DEF IoInv, InHand, Window, InWindow, Entry
  <2>3. \A d \in Coros : InFlight(d)' => token'[d] < nextToken'
    BY <1>1, <1>2, <1>5, <2>1 DEF IoInv, TokensOwn
  <2>4. \A d, e \in Coros :
          InFlight(d)' /\ InFlight(e)' /\ token'[d] = token'[e] => d = e
    BY <1>1, <1>5, <2>1 DEF IoInv, TokensOwn
  <2>5. \A d \in Coros : Working /\ InFlight(d)' /\ token'[d] = cqe.token
                          => poll = "wake" /\ d = cqe.call[1]
    BY <1>1, <1>5, <2>1, <2>2 DEF IoInv, TokensOwn
  <2>6. QED
    BY <1>8, <2>3, <2>4, <2>5 DEF TokensOwn, Working
<1>11. OneCompletion'
  BY <1>2, <1>4 DEF IoInv, OneCompletion, ring, pollVars
<1>12. \A d \in Coros, t \in Slots : Holds(d, t)' = Holds(d, t)
  BY <1>1, <1>2 DEF Holds, IoInv, TypeOK
<1>13. InHand'
  <2>1. poll = "wake" => Tracked(cqe)' /\ req = at[cqe.call[1]]
    BY <1>6, <1>8 DEF IoInv, InHand, Working
  <2>2. poll = "free" => \A d \in Coros : ~Holds(d, req)'
    BY <1>8, <1>12 DEF IoInv, InHand, Working
  <2>3. QED
    BY <1>2, <1>8, <2>1, <2>2 DEF IoInv, InHand, Working
<1>14. Requests'
  BY <1>2, <1>8, <1>12 DEF IoInv, Requests, SlotsAccounted, pool
<1>15. AtRequest'
  BY <1>1, <1>2 DEF IoInv, TypeOK, AtRequest, HasRequest
<1>16. Answers'
  BY <1>1, <1>2 DEF IoInv, TypeOK, Answers, Call
<1>17. QED
  BY <1>3, <1>7, <1>9, <1>10, <1>11, <1>13, <1>14, <1>15, <1>16 DEF IoInv

\* The entry of a new token is nobody else's.
LEMMA SubmitInv ==
  ASSUME IoInv, NEW c \in Coros, Submit(c)
  PROVE  IoInv'
<1> SUFFICES ASSUME NEW s, s = at[c], NEW t, t = token[c],
                    NEW new, new = [token |-> t, call |-> Call(c)]
             PROVE  IoInv'
  OBVIOUS
<1>1. /\ s \in Slots /\ t \in Nat /\ new \in Entry
      /\ pc[c] = "submit" /\ ~woken[c] /\ InFlight(c) /\ InWindow(t)
  <2>1. pc[c] = "submit" /\ ~woken[c] /\ InFlight(c)
    BY DEF Submit, InFlight, IoInv, AtRequest
  <2>2. s \in Slots /\ InWindow(t)
    BY <2>1 DEF IoInv, AtRequest, HasRequest, Window
  <2>3. t \in Nat /\ Call(c) \in Calls
    BY <2>1, CallTyped DEF IoInv, TypeOK
  <2>4. QED
    BY <2>1, <2>2, <2>3 DEF Entry
<1>2. /\ kernel' = kernel \cup {new}
      /\ map' = [map EXCEPT ![Index(t)] = s]
      /\ pc' = [pc EXCEPT ![c] = "submitted"]
      /\ UNCHANGED <<running, nextToken, pool, cq, pollVars, at, token, asked, taken,
                     woken, ioResult, main>>
  BY DEF Submit, Goto
<1>3. TypeOK'
  BY <1>1, <1>2, IndexRange DEF IoInv, TypeOK, pool, pollVars
<1>4. Completions' = Completions \cup {new} /\ Completions \subseteq Entry
  BY <1>2, CompletionsTyped DEF IoInv, Completions
<1>5. \A d \in Coros : InFlight(d)' = InFlight(d)
  BY <1>1, <1>2 DEF InFlight, IoInv, TypeOK
<1>6. \A k \in Entry : Tracked(k) /\ InWindow(k.token) => Tracked(k)' /\ k.call[1] # c
  <2>1. SUFFICES ASSUME NEW k \in Entry, Tracked(k), InWindow(k.token)
                 PROVE  Tracked(k)' /\ k.call[1] # c
    OBVIOUS
  <2>2. k.call[1] \in Coros /\ k.call[1] # c /\ InFlight(k.call[1])
    BY <1>1, <2>1, EntryParts DEF Tracked, InFlight
  <2>3. k.token # t /\ k.token \in Nat
    BY <1>1, <2>1, <2>2 DEF Tracked, IoInv, TokensOwn, Entry
  <2>4. Index(k.token) # Index(t) /\ Index(k.token) \in 0 .. Cap - 1
    BY <1>1, <2>1, <2>3, TokensApart, IndexRange DEF IoInv
  <2>5. map'[Index(k.token)] = map[Index(k.token)]
    BY <1>2, <2>4 DEF IoInv, TypeOK
  <2>6. pc'[k.call[1]] = pc[k.call[1]]
    BY <1>2, <2>2 DEF IoInv, TypeOK
  <2>7. QED
    BY <1>2, <2>1, <2>2, <2>5, <2>6 DEF Tracked, Index
<1>7. Tracked(new)'
  <2>1. map'[Index(t)] = s
    BY <1>1, <1>2, IndexRange DEF IoInv, TypeOK
  <2>2. pc'[c] = "submitted" /\ new.token = t /\ new.call = <<c, asked[c]>>
    BY <1>2 DEF IoInv, TypeOK, Call
  <2>3. QED
    BY <1>1, <1>2, <2>1, <2>2 DEF Tracked, Index
<1>8. (\A k \in Completions : Tracked(k))'
  BY <1>4, <1>6, <1>7 DEF IoInv, Window
<1>9. UNCHANGED <<poll, batch, cqe, req, cq, nextToken>>
  BY <1>2 DEF pollVars
<1>10. Window'
  <2>1. \A d \in Coros : pc'[d] = "submit" => pc[d] = "submit"
    BY <1>2 DEF IoInv, TypeOK
  <2>2. QED
    BY <1>1, <1>2, <1>4, <1>9, <2>1 DEF IoInv, Window, InWindow, Working
<1>11. TokensOwn'
  BY <1>2, <1>5, <1>9 DEF IoInv, TokensOwn, Working
<1>12. poll = "wake" => Tracked(cqe)' /\ cqe.call[1] # c
  BY <1>6, <1>9 DEF IoInv, InHand, Window, Working
<1>13. OneCompletion'
  <2>1. \A k \in Completions : k.call[1] # c
    BY <1>4, <1>6 DEF IoInv, Window
  <2>2. new.call[1] = c
    BY DEF Call
  <2>3. \A i \in DOMAIN cq : cq[i] \in Completions
    BY DEF Completions
  <2>4. QED
    BY <1>2, <1>4, <1>9, <1>12, <2>1, <2>2, <2>3 DEF IoInv, OneCompletion
<1>14. \A d \in Coros, u \in Slots : Holds(d, u)' = Holds(d, u)
  BY <1>1, <1>2 DEF Holds, IoInv, TypeOK
<1>15. InHand'
  <2>1. poll = "free" => \A d \in Coros : ~Holds(d, req)'
    BY <1>9, <1>14 DEF IoInv, InHand, Working
  <2>2. QED
    BY <1>2, <1>9, <1>12, <2>1 DEF IoInv, InHand, Working
<1>16. Requests'
  BY <1>2, <1>9, <1>14 DEF IoInv, Requests, SlotsAccounted, pool
<1>17. AtRequest'
  BY <1>1, <1>2 DEF IoInv, TypeOK, AtRequest, HasRequest
<1>18. Answers'
  BY <1>1, <1>2 DEF IoInv, TypeOK, Answers, Call
<1>19. QED
  BY <1>3, <1>8, <1>10, <1>11, <1>13, <1>15, <1>16, <1>17, <1>18 DEF IoInv
--------------------------------------------------------------------------------
\* A completion moves from the kernel to the ring.
LEMMA CompleteInv ==
  ASSUME IoInv, NEW k \in kernel, Complete(k)
  PROVE  IoInv'
<1>1. /\ kernel' = kernel \ {k} /\ cq' = Append(cq, k)
      /\ UNCHANGED <<running, nextToken, pool, map, pollVars, coroVars, woken, ioResult,
                     main>>
  BY DEF Complete
<1>2. k \in Entry /\ kernel \subseteq Entry /\ cq \in Seq(Entry)
  BY DEF IoInv, TypeOK
<1>3. /\ cq' \in Seq(Entry) /\ Len(cq') = Len(cq) + 1 /\ cq'[Len(cq) + 1] = k
      /\ \A i \in 1 .. Len(cq) : cq'[i] = cq[i]
      /\ DOMAIN cq = 1 .. Len(cq) /\ DOMAIN cq' = 1 .. Len(cq) + 1 /\ Len(cq) \in Nat
  BY <1>1, <1>2
<1>4. Completions' = Completions /\ Completions \subseteq Entry
  <2>1. \A e : e \in Completions' => e \in Completions
    BY <1>1, <1>3 DEF Completions
  <2>2. \A i \in DOMAIN cq : cq[i] \in Completions'
    BY <1>3 DEF Completions
  <2>3. k \in Completions'
    BY <1>3 DEF Completions
  <2>4. \A e : e \in Completions => e \in Completions'
    BY <1>1, <2>2, <2>3 DEF Completions
  <2>5. QED
    BY <2>1, <2>4, CompletionsTyped DEF IoInv
<1>5. TypeOK'
  BY <1>1, <1>2, <1>3 DEF IoInv, TypeOK, pool, pollVars, coroVars
<1>6. \A e \in kernel \ {k} : e.call[1] # k.call[1]
  <2>1. SUFFICES ASSUME NEW e \in kernel, e.call[1] = k.call[1] PROVE e = k
    OBVIOUS
  <2>2. Tracked(e) /\ Tracked(k) /\ e \in Entry
    BY <1>2 DEF IoInv, Completions
  <2>3. e.token = k.token /\ e.call[2] = k.call[2]
    BY <2>1, <2>2 DEF Tracked
  <2>4. e.call = k.call
    BY <1>2, <2>1, <2>2, <2>3, EntryParts
  <2>5. QED
    BY <1>2, <2>2, <2>3, <2>4 DEF Entry
<1>7. OneCompletion'
  <2>1. \A i \in DOMAIN cq : cq[i].call[1] # k.call[1]
    BY DEF IoInv, OneCompletion
  <2>2. \A i, j \in DOMAIN cq' : cq'[i].call[1] = cq'[j].call[1] => i = j
    BY <1>3, <2>1 DEF IoInv, OneCompletion
  <2>3. \A e \in kernel' : \A i \in DOMAIN cq' : e.call[1] # cq'[i].call[1]
    BY <1>1, <1>3, <1>6 DEF IoInv, OneCompletion
  <2>4. poll' = "wake" => \A e \in Completions' : e.call[1] # cqe'.call[1]
    BY <1>1, <1>4 DEF IoInv, OneCompletion, pollVars
  <2>5. QED
    BY <2>2, <2>3, <2>4 DEF OneCompletion
<1>8. \A e \in Entry : Tracked(e)' = Tracked(e)
  BY <1>1 DEF Tracked, Index, coroVars
<1>9. (\A e \in Completions : Tracked(e))'
  BY <1>4, <1>8 DEF IoInv
<1>10. Window'
  BY <1>1, <1>4 DEF IoInv, Window, InWindow, Working, pollVars, coroVars
<1>11. TokensOwn'
  BY <1>1 DEF IoInv, TokensOwn, InFlight, Working, pollVars, coroVars
<1>12. InHand'
  <2>1. (batch <= Len(cq))'
    BY <1>1, <1>3 DEF IoInv, TypeOK, InHand, pollVars
  <2>2. QED
    BY <1>1, <2>1 DEF IoInv, InHand, Tracked, Index, Holds, Working, pollVars, coroVars
<1>13. Requests'
  BY <1>1 DEF IoInv, Requests, SlotsAccounted, Holds, pool, pollVars, coroVars
<1>14. AtRequest'
  BY <1>1 DEF IoInv, AtRequest, coroVars
<1>15. Answers'
  BY <1>1 DEF IoInv, Answers, Call, coroVars
<1>16. QED
  BY <1>5, <1>7, <1>9, <1>10, <1>11, <1>12, <1>13, <1>14, <1>15 DEF IoInv

\* The poll thread takes the first completion, and finds its request.
LEMMA PollNextInv ==
  ASSUME IoInv, PollNext
  PROVE  IoInv'
<1> SUFFICES ASSUME NEW k, k = Head(cq) PROVE IoInv'
  OBVIOUS
<1>1. /\ cq \in Seq(Entry) /\ cq # <<>> /\ k \in Entry
      /\ cq' = Tail(cq) /\ cq' \in Seq(Entry) /\ Len(cq') = Len(cq) - 1
      /\ cq[1] = k /\ \A i \in 1 .. Len(cq) - 1 : cq'[i] = cq[i + 1]
      /\ DOMAIN cq = 1 .. Len(cq) /\ DOMAIN cq' = 1 .. Len(cq) - 1 /\ Len(cq) \in Nat \ {0}
  <2>1. cq \in Seq(Entry) /\ cq # <<>> /\ cq' = Tail(cq)
    BY DEF PollNext, IoInv, TypeOK, InHand
  <2>2. QED
    BY <2>1, HeadTailProperties
<1>2. k \in Completions /\ Tracked(k)
  BY <1>1 DEF IoInv, Completions
<1>3. /\ map[Index(k.token)] = at[k.call[1]] /\ at[k.call[1]] \in Slots
      /\ at[k.call[1]] # Nothing
  BY <1>1, <1>2, EntryParts, IoAssumption DEF Tracked, IoInv, AtRequest, HasRequest, Slots
<1>4. /\ poll = "next" /\ poll' = "wake"
      /\ req' = at[k.call[1]] /\ cqe' = k /\ batch' = batch - 1 /\ batch > 0
      /\ UNCHANGED <<running, nextToken, pool, map, kernel, coroVars, woken, ioResult,
                     main>>
  BY <1>3 DEF PollNext
<1>5. Completions' \subseteq Completions /\ Completions \subseteq Entry
  <2>1. \A i \in DOMAIN cq' : cq'[i] \in Completions
    BY <1>1 DEF Completions
  <2>2. QED
    BY <1>4, <2>1, CompletionsTyped DEF IoInv, Completions
<1>6. TypeOK'
  BY <1>1, <1>3, <1>4 DEF IoInv, TypeOK, pool, coroVars
<1>7. OneCompletion'
  <2>1. \A i, j \in DOMAIN cq' : cq'[i].call[1] = cq'[j].call[1] => i = j
    BY <1>1 DEF IoInv, OneCompletion
  <2>2. \A e \in kernel' : \A i \in DOMAIN cq' : e.call[1] # cq'[i].call[1]
    BY <1>1, <1>4 DEF IoInv, OneCompletion
  <2>3. \A e \in Completions' : e.call[1] # k.call[1]
    <3>1. \A i \in DOMAIN cq' : cq'[i].call[1] # k.call[1]
      BY <1>1 DEF IoInv, OneCompletion
    <3>2. \A e \in kernel : e.call[1] # k.call[1]
      BY <1>1 DEF IoInv, OneCompletion
    <3>3. QED
      BY <1>4, <3>1, <3>2 DEF Completions
  <2>4. QED
    BY <1>4, <2>1, <2>2, <2>3 DEF OneCompletion
<1>8. \A e \in Entry : Tracked(e)' = Tracked(e)
  BY <1>4 DEF Tracked, Index, coroVars
<1>9. (\A e \in Completions : Tracked(e))'
  BY <1>5, <1>8 DEF IoInv
<1>10. Window'
  BY <1>2, <1>4, <1>5 DEF IoInv, Window, InWindow, Working, coroVars
<1>11. TokensOwn'
  <2>1. InFlight(k.call[1]) /\ token[k.call[1]] = k.token /\ k.call[1] \in Coros
    BY <1>1, <1>2, EntryParts DEF Tracked, InFlight
  <2>2. QED
    BY <1>4, <2>1 DEF IoInv, TokensOwn, InFlight, Working, coroVars
<1>12. InHand'
  <2>1. (batch <= Len(cq))'
    BY <1>1, <1>4 DEF IoInv, TypeOK, InHand
  <2>2. Tracked(cqe)'
    BY <1>2, <1>4 DEF Tracked, Index, coroVars
  <2>3. QED
    BY <1>1, <1>3, <1>4, <2>1, <2>2 DEF InHand, Working, coroVars
<1>13. Requests'
  BY <1>4 DEF IoInv, Requests, SlotsAccounted, Holds, pool, coroVars
<1>14. AtRequest'
  BY <1>4 DEF IoInv, AtRequest, coroVars
<1>15. Answers'
  BY <1>4 DEF IoInv, Answers, Call, coroVars
<1>16. QED
  BY <1>6, <1>7, <1>9, <1>10, <1>11, <1>12, <1>13, <1>14, <1>15 DEF IoInv

\* ty_io_wake_coro wakes the caller of the request, with the result of its call.
LEMMA PollWakeInv ==
  ASSUME IoInv, PollWake
  PROVE  IoInv'
<1> SUFFICES ASSUME NEW c, c = cqe.call[1] PROVE IoInv'
  OBVIOUS
<1>1. /\ cqe \in Entry /\ req \in Slots /\ c \in Coros /\ Tracked(cqe) /\ req = at[c]
      /\ poll = "wake" /\ Working
  BY EntryParts DEF PollWake, IoInv, InHand, Working
<1>2. /\ Holds(c, req) /\ InFlight(c) /\ reqCoro[req] = c
      /\ pc[c] \in {"submitted", "parked"} /\ ~woken[c] /\ token[c] = cqe.token
      /\ cqe.call = Call(c)
  <2>1. /\ pc[c] \in {"submitted", "parked"} /\ ~woken[c] /\ token[c] = cqe.token
        /\ cqe.call[2] = asked[c]
    BY <1>1 DEF Tracked
  <2>2. Holds(c, req) /\ InFlight(c)
    BY <1>1, <2>1 DEF Holds, InFlight
  <2>3. reqCoro[req] = c
    BY <1>1, <2>2 DEF IoInv, Requests
  <2>4. cqe.call = <<c, asked[c]>>
    BY <1>1, <2>1, EntryParts
  <2>5. QED
    BY <2>1, <2>2, <2>3, <2>4 DEF Call
<1>3. /\ ioResult' = [ioResult EXCEPT ![c] = Call(c)]
      /\ woken' = [woken EXCEPT ![c] = TRUE]
      /\ poll' = "free"
      /\ UNCHANGED <<running, nextToken, pool, map, ring, batch, cqe, req, coroVars, main>>
  BY <1>2 DEF PollWake
<1>4. TypeOK'
  BY <1>1, <1>2, <1>3, CallTyped DEF IoInv, TypeOK, pool, ring, coroVars
<1>5. Completions' = Completions /\ Completions \subseteq Entry
  BY <1>3, CompletionsTyped DEF IoInv, Completions, ring
<1>6. \A d \in Coros : InFlight(d)' <=> (InFlight(d) /\ d # c)
  BY <1>2, <1>3 DEF InFlight, IoInv, TypeOK, coroVars
<1>7. (\A k \in Completions : Tracked(k))'
  <2>1. SUFFICES ASSUME NEW k \in Completions PROVE Tracked(k)'
    BY <1>5
  <2>2. k \in Entry /\ Tracked(k) /\ k.call[1] # c /\ k.call[1] \in Coros
    BY <1>1, <1>5, EntryParts DEF IoInv, OneCompletion
  <2>3. woken'[k.call[1]] = woken[k.call[1]]
    BY <1>3, <2>2 DEF IoInv, TypeOK
  <2>4. QED
    BY <1>3, <2>2, <2>3 DEF Tracked, Index, coroVars
<1>8. Window'
  BY <1>1, <1>3, <1>5 DEF IoInv, Window, InWindow, coroVars
<1>9. TokensOwn'
  <2>1. \A d \in Coros : ~(InFlight(d)' /\ token[d] = cqe.token)
    BY <1>1, <1>6 DEF IoInv, TokensOwn
  <2>2. QED
    BY <1>3, <1>6, <2>1 DEF IoInv, TokensOwn, coroVars
<1>10. OneCompletion'
  BY <1>3 DEF IoInv, OneCompletion, ring
<1>11. \A d \in Coros, s \in Slots : Holds(d, s)' <=> (Holds(d, s) /\ d # c)
  BY <1>2, <1>3 DEF Holds, IoInv, TypeOK, coroVars
<1>12. \A d \in Coros, s \in Slots : Holds(d, s) /\ (d = c \/ s = req) => d = c /\ s = req
  BY <1>1, <1>2 DEF Holds, IoInv, Requests, SlotsAccounted
<1>13. InHand'
  <2>1. \A d \in Coros : ~Holds(d, req)'
    BY <1>1, <1>3, <1>11, <1>12
  <2>2. QED
    BY <1>1, <1>3, <2>1 DEF IoInv, InHand, Working, ring
<1>14. Requests'
  <2>1. SlotsAccounted /\ inUse' = inUse /\ reqCoro' = reqCoro /\ req' = req
    BY <1>3 DEF IoInv, Requests, pool
  <2>2. inUse[req]
    BY <1>1, <1>2, <2>1 DEF SlotsAccounted
  <2>3. \A s \in Slots \ {req} :
          inUse[s] <=> (\E d \in Coros : Holds(d, s)') \/ (poll' = "free" /\ req = s)
    BY <1>1, <1>3, <1>11, <1>12, <2>1 DEF SlotsAccounted
  <2>4. \A s \in Slots : \A d, e \in Coros : Holds(d, s)' /\ Holds(e, s)' => d = e
    BY <1>11, <2>1 DEF SlotsAccounted
  <2>5. SlotsAccounted'
    BY <1>1, <1>3, <2>1, <2>2, <2>3, <2>4 DEF SlotsAccounted
  <2>6. QED
    BY <1>11, <2>1, <2>5 DEF IoInv, Requests
<1>15. AtRequest'
  BY <1>2, <1>3 DEF IoInv, TypeOK, AtRequest, HasRequest, coroVars
<1>16. Answers'
  BY <1>2, <1>3 DEF IoInv, TypeOK, Answers, Call, coroVars
<1>17. QED
  BY <1>4, <1>7, <1>8, <1>9, <1>10, <1>13, <1>14, <1>15, <1>16 DEF IoInv

\* pool_free gives back what nobody holds any more.
LEMMA PollFreeInv ==
  ASSUME IoInv, PollFree
  PROVE  IoInv'
<1>1. /\ poll = "free" /\ poll' = "clear" /\ Working
      /\ req \in Slots /\ \A d \in Coros : ~Holds(d, req)
      /\ inUse' = [inUse EXCEPT ![req] = FALSE]
      /\ UNCHANGED <<running, nextToken, reqCoro, map, ring, batch, cqe, req, coroVars,
                     woken, ioResult, main>>
  BY DEF PollFree, IoInv, InHand, Working
<1>2. TypeOK'
  BY <1>1 DEF IoInv, TypeOK, ring, coroVars
<1>3. Completions' = Completions
  BY <1>1 DEF Completions, ring
<1>4. (\A k \in Completions : Tracked(k))'
  BY <1>1, <1>3 DEF IoInv, Tracked, Index, coroVars
<1>5. Window'
  BY <1>1, <1>3 DEF IoInv, Window, InWindow, coroVars
<1>6. TokensOwn'
  BY <1>1 DEF IoInv, TokensOwn, InFlight, coroVars
<1>7. OneCompletion'
  BY <1>1 DEF IoInv, OneCompletion, ring
<1>8. InHand'
  BY <1>1 DEF IoInv, InHand, Working, ring
<1>9. \A d \in Coros, s \in Slots : Holds(d, s)' <=> Holds(d, s)
  BY <1>1 DEF Holds, coroVars
<1>10. Requests'
  <2>1. SlotsAccounted /\ inUse \in [Slots -> BOOLEAN] /\ req' = req
    BY <1>1 DEF IoInv, TypeOK, Requests
  <2>2. ~inUse'[req] /\ \A d \in Coros : ~Holds(d, req)'
    BY <1>1, <1>9, <2>1
  <2>3. \A s \in Slots \ {req} :
          inUse'[s] <=> (\E d \in Coros : Holds(d, s)') \/ (poll' = "free" /\ req' = s)
    BY <1>1, <1>9, <2>1 DEF SlotsAccounted
  <2>4. \A s \in Slots : \A d, e \in Coros : Holds(d, s)' /\ Holds(e, s)' => d = e
    BY <1>9, <2>1 DEF SlotsAccounted
  <2>5. SlotsAccounted'
    BY <1>1, <2>2, <2>3, <2>4 DEF SlotsAccounted
  <2>6. QED
    BY <1>1, <1>9, <2>5 DEF IoInv, Requests
<1>11. AtRequest'
  BY <1>1 DEF IoInv, AtRequest, coroVars
<1>12. Answers'
  BY <1>1 DEF IoInv, Answers, Call, coroVars
<1>13. QED
  BY <1>2, <1>4, <1>5, <1>6, <1>7, <1>8, <1>10, <1>11, <1>12 DEF IoInv

\* The entry that is cleared is not yet another's.
LEMMA PollClearInv ==
  ASSUME IoInv, PollClear
  PROVE  IoInv'
<1> SUFFICES ASSUME NEW t, t = cqe.token PROVE IoInv'
  OBVIOUS
<1>1. /\ poll = "clear" /\ Working /\ cqe \in Entry /\ t \in Nat /\ InWindow(t)
  BY EntryParts DEF PollClear, IoInv, InHand, Window, Working
<1>2. /\ map' = [map EXCEPT ![Index(t)] = Nothing]
      /\ poll' = "next" /\ cqe' = Nothing /\ req' = Nothing
      /\ UNCHANGED <<running, nextToken, pool, ring, batch, coroVars, woken, ioResult,
                     main>>
  BY DEF PollClear
<1>3. TypeOK'
  BY <1>1, <1>2, IndexRange DEF IoInv, TypeOK, pool, ring, coroVars
<1>4. Completions' = Completions /\ Completions \subseteq Entry
  BY <1>2, CompletionsTyped DEF IoInv, Completions, ring
<1>5. (\A k \in Completions : Tracked(k))'
  <2>1. SUFFICES ASSUME NEW k \in Completions PROVE Tracked(k)'
    BY <1>4
  <2>2. k \in Entry /\ k.token \in Nat /\ k.call[1] \in Coros /\ Tracked(k)
        /\ InWindow(k.token)
    BY <1>4, EntryParts DEF IoInv, Window
  <2>3. InFlight(k.call[1]) /\ token[k.call[1]] = k.token
    BY <2>2 DEF Tracked, InFlight
  <2>4. k.token # t
    BY <1>1, <2>2, <2>3 DEF IoInv, TokensOwn
  <2>5. Index(k.token) # Index(t)
    BY <1>1, <2>2, <2>4, TokensApart DEF IoInv
  <2>6. map'[Index(k.token)] = map[Index(k.token)]
    BY <1>2, <2>2, <2>5, IndexRange DEF IoInv, TypeOK
  <2>7. QED
    BY <1>2, <2>2, <2>6 DEF Tracked, Index, coroVars
<1>6. Window'
  BY <1>2, <1>4 DEF IoInv, Window, InWindow, Working, coroVars
<1>7. TokensOwn'
  BY <1>2 DEF IoInv, TokensOwn, InFlight, Working, coroVars
<1>8. OneCompletion'
  BY <1>2 DEF IoInv, OneCompletion, ring
<1>9. InHand'
  BY <1>2 DEF IoInv, InHand, Working, ring
<1>10. Requests'
  <2>1. \A d \in Coros, s \in Slots : Holds(d, s)' <=> Holds(d, s)
    BY <1>2 DEF Holds, coroVars
  <2>2. QED
    BY <1>1, <1>2, <2>1 DEF IoInv, Requests, SlotsAccounted, pool
<1>11. AtRequest'
  BY <1>2 DEF IoInv, AtRequest, coroVars
<1>12. Answers'
  BY <1>2 DEF IoInv, Answers, Call, coroVars
<1>13. QED
  BY <1>3, <1>5, <1>6, <1>7, <1>8, <1>9, <1>10, <1>11, <1>12 DEF IoInv
--------------------------------------------------------------------------------
\* Nothing is under way at first.
LEMMA InitInv == Init => IoInv
<1> SUFFICES ASSUME Init PROVE IoInv
  OBVIOUS
<1>1. /\ kernel = {} /\ cq = <<>> /\ Len(cq) = 0 /\ Completions = {}
      /\ poll \in {"check", "none"} /\ ~Working
      /\ \A c \in Coros : pc[c] = "idle" /\ ~woken[c] /\ asked[c] = 0 /\ taken[c] = <<>>
  BY DEF Init, Completions, Working
<1>2. TypeOK
  <2>1. at \in [Coros -> 1 .. Cap + 1] /\ asked \in [Coros -> 0 .. MaxCalls]
    BY IoAssumption DEF Init
  <2>2. cq \in Seq(Entry) /\ taken \in [Coros -> Seq(Calls \cup {Nothing})]
    BY DEF Init
  <2>3. /\ running \in BOOLEAN
        /\ poll \in {"none", "check", "enter", "next", "wake", "free", "clear", "exited"}
    BY DEF Init
  <2>4. /\ inUse \in [Slots -> BOOLEAN]
        /\ reqCoro \in [Slots -> Coros \cup {Nothing}]
        /\ map \in [0 .. Cap - 1 -> Slots \cup {Nothing}]
        /\ pc \in [Coros -> {"idle", "alloc", "token", "submit", "submitted", "parked",
                             "take", "sync"}]
        /\ token \in [Coros -> Nat] /\ woken \in [Coros -> BOOLEAN]
        /\ ioResult \in [Coros -> Calls \cup {Nothing}]
    BY DEF Init
  <2>5. QED
    BY <2>1, <2>2, <2>3, <2>4 DEF Init, TypeOK
<1>3. Window /\ TokensOwn /\ OneCompletion /\ \A k \in Completions : Tracked(k)
  BY <1>1 DEF Window, TokensOwn, OneCompletion, InFlight
<1>4. InHand /\ AtRequest /\ Answers
  BY <1>1 DEF Init, InHand, AtRequest, HasRequest, Answers
<1>5. Requests
  BY <1>1 DEF Init, Requests, SlotsAccounted, Holds
<1>6. QED
  BY <1>1, <1>2, <1>3, <1>4, <1>5 DEF IoInv

\* Every step keeps the invariant.
LEMMA NextInv ==
  ASSUME Timely, IoInv, [Next]_vars
  PROVE  IoInv'
<1>1. CASE UNCHANGED vars
  <2>1. Quiet /\ UNCHANGED <<TypeOK, batch, cq, AtRequest, Answers>>
    BY <1>1 DEF vars, Quiet, pool, ring, pollVars, coroVars, TypeOK, AtRequest, Answers,
                Call
  <2>2. QED
    BY <2>1, QuietStep DEF IoInv, InHand
<1>2. ASSUME NEW c \in Coros, Begin(c) \/ Proceed(c) PROVE IoInv'
  BY <1>2, BeginInv, TakeSlotInv, SkipSlotInv, PoolExhaustedInv, SyncInv, TakeTokenInv,
     SubmitInv, ParkInv, ResumeInv, TakeInv DEF Proceed
<1>3. CASE \E k \in kernel : Complete(k)
  BY <1>3, CompleteInv
<1>4. CASE Poll
  BY <1>4, PollCheckInv, PollEnterInv, PollNextInv, PollDoneInv, PollWakeInv, PollFreeInv,
     PollClearInv DEF Poll
<1>5. CASE Shutdown \/ Join
  BY <1>5, ShutdownInv, JoinInv
<1>6. QED
  BY <1>1, <1>2, <1>3, <1>4, <1>5 DEF Next

\* So it always holds.
LEMMA IoInvAlways ==
  ASSUME Timely
  PROVE  Spec => []IoInv
<1>1. Init => IoInv
  BY InitInv
<1>2. IoInv /\ [Next]_vars => IoInv'
  BY NextInv
<1>3. QED
  BY <1>1, <1>2, PTL DEF Spec

\* The poll thread and the callers always find values of their kinds; in particular
\* every completion that is looked up leads to a request of the pool.
THEOREM TypeCorrect ==
  ASSUME Timely
  PROVE  Spec => []TypeOK
<1>1. IoInv => TypeOK
  BY DEF IoInv
<1>2. QED
  BY <1>1, IoInvAlways, PTL

\* A request belongs to one call from pool_alloc to pool_free, and to none otherwise.
THEOREM RequestsLentOnce ==
  ASSUME Timely
  PROVE  Spec => []SlotsAccounted
<1>1. IoInv => SlotsAccounted
  BY DEF IoInv, Requests
<1>2. QED
  BY <1>1, IoInvAlways, PTL

\* Every completion leads to the request of the call that submitted it, although the
\* map has fewer entries than there are tokens and is cleared late.
THEOREM CompletionsFindRequests ==
  ASSUME Timely
  PROVE  Spec => []CompletionFindsRequest
<1>1. IoInv => CompletionFindsRequest
  <2>1. SUFFICES ASSUME IoInv, NEW k \in Completions
                 PROVE  LET s == map[Index(k.token)] IN
                        /\ s \in Slots /\ Holds(k.call[1], s)
                        /\ reqCoro[s] = k.call[1] /\ asked[k.call[1]] = k.call[2]
    BY DEF CompletionFindsRequest
  <2>2. Tracked(k) /\ k.call[1] \in Coros
    BY <2>1, CompletionsTyped, EntryParts DEF IoInv
  <2>3. map[Index(k.token)] \in Slots /\ Holds(k.call[1], map[Index(k.token)])
    BY <2>1, <2>2 DEF Tracked, IoInv, AtRequest, HasRequest, Holds
  <2>4. QED
    BY <2>1, <2>2, <2>3 DEF Tracked, IoInv, Requests
<1>2. QED
  BY <1>1, IoInvAlways, PTL

\* Only taking a result changes what has been taken, and the result is the caller's.
LEMMA ServiceStep ==
  ASSUME IoInv, [Next]_vars
  PROVE  [Service!Next]_<<asked, taken>>
<1>1. ASSUME NEW c \in Coros, Begin(c) PROVE Service!Next
  <2>1. Len(taken[c]) = asked[c] /\ asked[c] \in 0 .. MaxCalls
    BY <1>1 DEF Begin, IoInv, TypeOK, Answers
  <2>2. Service!Ask(c)
    BY <1>1, <2>1 DEF Begin, Service!Ask, Service!Waiting
  <2>3. QED
    BY <2>2 DEF Service!Next
<1>2. ASSUME NEW c \in Coros, Take(c) PROVE Service!Next
  <2>1. /\ Len(taken[c]) = asked[c] - 1 /\ asked[c] \in 0 .. MaxCalls
        /\ ioResult[c] = <<c, asked[c]>>
    BY <1>2 DEF Take, IoInv, TypeOK, Answers, Call
  <2>2. Service!Answer(c)
    BY <1>2, <2>1 DEF Take, Service!Answer, Service!Waiting
  <2>3. QED
    BY <2>2 DEF Service!Next
<1>3. ASSUME NEW c \in Coros, Proceed(c), ~Take(c) PROVE UNCHANGED <<asked, taken>>
  BY <1>3 DEF Proceed, TakeSlot, SkipSlot, PoolExhausted, Sync, TakeToken, Submit, Park,
              Resume
<1>4. CASE (\E k \in kernel : Complete(k)) \/ Poll \/ Shutdown \/ Join \/ UNCHANGED vars
  BY <1>4 DEF Complete, Poll, PollCheck, PollEnter, PollNext, PollDone, PollWake, PollFree,
              PollClear, Shutdown, Join, coroVars, vars
<1>5. QED
  BY <1>1, <1>2, <1>3, <1>4 DEF Next

\* Every call is answered once, with its own result.
THEOREM DriverKeepsPromise ==
  ASSUME Timely
  PROVE  Spec => KeepsIoPromise
<1>1. Init => Service!Init
  BY DEF Init, Service!Init
<1>2. IoInv /\ [Next]_vars => [Service!Next]_<<asked, taken>>
  BY ServiceStep
<1>3. QED
  BY <1>1, <1>2, IoInvAlways, PTL DEF Spec, KeepsIoPromise, Service!Spec, Service!vars
================================================================================
