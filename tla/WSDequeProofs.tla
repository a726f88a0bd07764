------------------------------ MODULE WSDequeProofs ------------------------------
(***************************************************************************)
(* For any number of thieves, coroutines and arrays and any capacity: a    *)
(* deque that only its owner pushes to uses the reclamation as EBR assumes *)
(* its clients do, so that the proofs about EBR hold of it, and is the     *)
(* pool of coroutines that TaskPool describes.                             *)
(***************************************************************************)
EXTENDS WSDeque, EBRProofs

\* The accesses of deque_push, which only the owner performs.
PushPcs == {"pushBottom", "pushTop", "pushArray", "pushGrow", "pushReload"}
Pcs == PushPcs \cup
       {"idle", "pushCell", "pushPublish", "popBottom", "popArray", "popStore",
        "popTop", "popCell", "popCas", "popRestore", "stealTop", "stealBottom",
        "stealArray", "stealCell", "stealCas", "exit"}

\* deque_grow replaces the array that its caller loaded and still holds: only
\* the owner grows, so that nobody replaces it in between.
GrowsCurrent ==
    \A p \in Slots :
        /\ pc[p] \in PushPcs => p = Owner
        /\ pc[p] = "pushGrow" => arr[p] = cur[0] /\ cur[0] \in held[p]

DisciplineInv ==
    /\ mode = "running"
    /\ pc \in [Slots -> Pcs]
    /\ arr \in [Slots -> Arrays \cup {NoArray}]
    /\ cur \in [Deques -> Arrays]
    /\ held \in [Slots -> SUBSET Arrays]
    /\ GrowsCurrent

\* The state that deque_init and ty_sched_init leave.
LEMMA DequeInit == Init => EbrInit /\ DisciplineInv
<1> SUFFICES ASSUME Init PROVE EbrInit /\ DisciplineInv
  OBVIOUS
<1>1. EbrInit
  BY DEF Init
<1>2. DisciplineInv
  BY <1>1, InitArrayAssumption
  DEF Init, EbrInit, DisciplineInv, GrowsCurrent, PushPcs, Pcs
<1>3. QED
  BY <1>1, <1>2

\* The owner's push: every access is one of the reclamation's or none of its
\* business, and the growth replaces what is still the deque's array.
LEMMA PushStep ==
  ASSUME Pushers = {Owner}, DisciplineInv, NEW p \in Slots, Push(p)
  PROVE  [EbrNext]_ebrVars /\ DisciplineInv'
<1>0. 0 \in Deques
  BY OneDequeAssumption
<1>1. CASE PushBegin(p)
  <2>1. EnterReadEpoch(p) /\ p = Owner
    BY <1>1 DEF PushBegin, Begin
  <2>2. DisciplineInv'
    BY <1>1, <2>1
    DEF PushBegin, Begin, EnterReadEpoch, DisciplineInv, GrowsCurrent, PushPcs, Pcs
  <2>3. QED
    BY <2>1, <2>2 DEF EbrNext, EbrStep
<1>2. CASE PushReadBottom(p) \/ PushReadTop(p) \/ PushWriteCell(p) \/ PushPublish(p)
  <2>1. UNCHANGED <<ebrVars, arr>>
    BY <1>2 DEF PushReadBottom, PushReadTop, ReadTop, PushWriteCell, PushPublish,
                locals
  <2>2. DisciplineInv'
    BY <1>2, <2>1
    DEF PushReadBottom, PushReadTop, ReadTop, PushWriteCell, PushPublish, Step,
        DisciplineInv, GrowsCurrent, PushPcs, Pcs, ebrVars
  <2>3. QED
    BY <2>1, <2>2
<1>3. CASE PushReadArray(p) \/ PushReload(p)
  <2>1. LoadArray(p, 0)
    BY <1>3 DEF PushReadArray, PushReload, ReadArray
  <2>2. DisciplineInv'
    BY <1>0, <1>3, <2>1
    DEF PushReadArray, PushReload, ReadArray, LoadArray, Step, DisciplineInv,
        GrowsCurrent, PushPcs, Pcs
  <2>3. QED
    BY <1>0, <2>1, <2>2 DEF EbrNext, EbrStep
<1>4. CASE PushGrow(p)
  <2>1. arr[p] = cur[0] /\ cur[0] \in held[p] /\ p = Owner
    BY <1>4 DEF PushGrow, Step, DisciplineInv, GrowsCurrent, PushPcs, Pcs
  <2>2. PICK fresh \in Arrays \ Used : Publish(p, 0, arr[p], fresh)
    BY <1>4 DEF PushGrow
  <2>3. Grow(p, 0)
    BY <2>1, <2>2 DEF Grow, DisciplineInv
  <2>4. DisciplineInv'
    BY <1>0, <1>4, <2>1, <2>2
    DEF PushGrow, Publish, Step, locals, DisciplineInv, GrowsCurrent, PushPcs, Pcs
  <2>5. QED
    BY <1>0, <2>3, <2>4 DEF EbrNext, EbrStep
<1>5. QED
  BY <1>1, <1>2, <1>3, <1>4 DEF Push

\* The owner's pop.
LEMMA PopStep ==
  ASSUME DisciplineInv, NEW p \in Slots, Pop(p)
  PROVE  [EbrNext]_ebrVars /\ DisciplineInv'
<1>0. 0 \in Deques
  BY OneDequeAssumption
<1>1. CASE PopBegin(p)
  <2>1. EnterReadEpoch(p)
    BY <1>1 DEF PopBegin, Begin
  <2>2. DisciplineInv'
    BY <1>1, <2>1
    DEF PopBegin, Begin, EnterReadEpoch, DisciplineInv, GrowsCurrent, PushPcs, Pcs
  <2>3. QED
    BY <2>1, <2>2 DEF EbrNext, EbrStep
<1>2. CASE PopReadArray(p)
  <2>1. LoadArray(p, 0)
    BY <1>2 DEF PopReadArray, ReadArray
  <2>2. DisciplineInv'
    BY <1>0, <1>2, <2>1
    DEF PopReadArray, ReadArray, LoadArray, Step, DisciplineInv, GrowsCurrent,
        PushPcs, Pcs
  <2>3. QED
    BY <1>0, <2>1, <2>2 DEF EbrNext, EbrStep
<1>3. CASE PopReadBottom(p) \/ PopStoreBottom(p) \/ PopReadTop(p) \/ PopReadCell(p)
           \/ PopCas(p) \/ PopRestoreBottom(p)
  <2>1. UNCHANGED <<ebrVars, arr>>
    BY <1>3 DEF PopReadBottom, PopStoreBottom, PopReadTop, ReadTop, PopReadCell,
                PopCas, PopRestoreBottom, locals
  <2>2. \E to \in {"popArray", "popTop", "popRestore", "popCell", "popCas", "exit"} :
            pc' = [pc EXCEPT ![p] = to]
    BY <1>3 DEF PopReadBottom, PopStoreBottom, PopReadTop, ReadTop, PopReadCell,
                PopCas, PopRestoreBottom, Step
  <2>3. DisciplineInv'
    BY <2>1, <2>2 DEF DisciplineInv, GrowsCurrent, PushPcs, Pcs, ebrVars
  <2>4. QED
    BY <2>1, <2>3
<1>4. QED
  BY <1>1, <1>2, <1>3 DEF Pop

\* A thief's steal.
LEMMA StealStep ==
  ASSUME DisciplineInv, NEW p \in Slots, Steal(p)
  PROVE  [EbrNext]_ebrVars /\ DisciplineInv'
<1>0. 0 \in Deques
  BY OneDequeAssumption
<1>1. CASE StealBegin(p)
  <2>1. EnterReadEpoch(p)
    BY <1>1 DEF StealBegin, Begin
  <2>2. DisciplineInv'
    BY <1>1, <2>1
    DEF StealBegin, Begin, EnterReadEpoch, DisciplineInv, GrowsCurrent, PushPcs, Pcs
  <2>3. QED
    BY <2>1, <2>2 DEF EbrNext, EbrStep
<1>2. CASE StealReadArray(p)
  <2>1. LoadArray(p, 0)
    BY <1>2 DEF StealReadArray, ReadArray
  <2>2. DisciplineInv'
    BY <1>0, <1>2, <2>1
    DEF StealReadArray, ReadArray, LoadArray, Step, DisciplineInv, GrowsCurrent,
        PushPcs, Pcs
  <2>3. QED
    BY <1>0, <2>1, <2>2 DEF EbrNext, EbrStep
<1>3. CASE StealReadTop(p) \/ StealReadBottom(p) \/ StealReadCell(p) \/ StealCas(p)
  <2>1. UNCHANGED <<ebrVars, arr>>
    BY <1>3 DEF StealReadTop, ReadTop, StealReadBottom, StealReadCell, StealCas
  <2>2. \E to \in {"stealBottom", "exit", "stealArray", "stealCas"} :
            pc' = [pc EXCEPT ![p] = to]
    BY <1>3 DEF StealReadTop, ReadTop, StealReadBottom, StealReadCell, StealCas, Step
  <2>3. DisciplineInv'
    BY <2>1, <2>2 DEF DisciplineInv, GrowsCurrent, PushPcs, Pcs, ebrVars
  <2>4. QED
    BY <2>1, <2>3
<1>4. QED
  BY <1>1, <1>2, <1>3 DEF Steal

\* Entering, retiring and reclaiming leave the deque and its array alone.
LEMMA ProtectStep ==
  ASSUME DisciplineInv, NEW p \in Slots, Protect(p)
  PROVE  [EbrNext]_ebrVars /\ DisciplineInv'
<1>1. EbrStep(p)
  BY DEF Protect, EbrStep
<1>2. UNCHANGED <<cur, held, mode, pc, arr>>
  BY DEF Protect, EnterAnnounce, EnterActivate, Retire, AdvanceEpoch, MinStart,
         MinSkip, MinSeeActive, MinReadAnnounced, Reclaim, locals
<1>3. DisciplineInv'
  BY <1>2 DEF DisciplineInv, GrowsCurrent
<1>4. QED
  BY <1>1, <1>3 DEF EbrNext

\* An operation that ends drops its pointers, but is no growth any more.
LEMMA EndStep ==
  ASSUME DisciplineInv, NEW p \in Slots, End(p)
  PROVE  [EbrNext]_ebrVars /\ DisciplineInv'
<1>1. Exit(p)
  BY DEF End
<1>2. DisciplineInv'
  BY DEF End, Exit, Step, DisciplineInv, GrowsCurrent, PushPcs, Pcs
<1>3. QED
  BY <1>1, <1>2 DEF EbrNext, EbrStep

\* Every step of the deque is a step of the reclamation or leaves it alone.
LEMMA DequeStep ==
  ASSUME Pushers = {Owner}
  PROVE  DisciplineInv /\ [Next]_vars => [EbrNext]_ebrVars /\ DisciplineInv'
<1> SUFFICES ASSUME DisciplineInv, [Next]_vars
             PROVE  [EbrNext]_ebrVars /\ DisciplineInv'
  OBVIOUS
<1>1. CASE Next
  BY <1>1, PushStep, PopStep, StealStep, ProtectStep, EndStep DEF Next
<1>2. CASE UNCHANGED vars
  BY <1>2 DEF vars, ebrVars, locals, DisciplineInv, GrowsCurrent
<1>3. QED
  BY <1>1, <1>2

\* deque_push, deque_pop and deque_steal follow the reclamation's protocol:
\* pointers are loaded only between ebr_enter_worker and ebr_exit_worker, and
\* deque_grow retires the array it replaced, if only the owner pushes.
THEOREM DequeFollowsProtocol ==
  ASSUME Pushers = {Owner}
  PROVE  Spec => KeepsReclamationDiscipline
<1>1. Init => EbrInit /\ DisciplineInv
  BY DequeInit
<1>2. DisciplineInv /\ [Next]_vars => [EbrNext]_ebrVars /\ DisciplineInv'
  BY DequeStep
<1>3. QED
  BY <1>1, <1>2, PTL DEF Spec, EbrSpec, KeepsReclamationDiscipline

\* No push, pop or steal reads an array that the reclamation has freed.
THEOREM DequeReadsNoFreedArray ==
  ASSUME Pushers = {Owner}
  PROVE  Spec => []NoUseAfterFree
<1>1. Spec => EbrSpec
  BY DequeFollowsProtocol DEF KeepsReclamationDiscipline
<1>2. QED
  BY <1>1, GracePeriod, PTL
--------------------------------------------------------------------------------
(* The deque as a pool of coroutines. *)

\* The accesses of deque_push before the item is in the deque, those of
\* deque_pop, and those of it after it lowered bottom.
Pushing == PushPcs \cup {"pushCell", "pushPublish"}
Lowered == {"popTop", "popCell", "popCas", "popRestore"}
Popping == Lowered \cup {"popBottom", "popArray", "popStore"}
Stealing == {"stealTop", "stealBottom", "stealArray", "stealCell", "stealCas"}
\* Before these, an operation has no coroutine.
Empty == {"idle"} \cup (Popping \ {"popCas", "popRestore"})
                  \cup (Stealing \ {"stealCas"})

\* The owner pushes and pops, thieves steal; a coroutine to push is one.
Roles ==
    \A p \in Slots :
        /\ pc[p] \in Pushing => p = Owner /\ item[p] \in Items
        /\ pc[p] \in Popping => p = Owner
        /\ pc[p] \in Stealing => p # Owner
        /\ pc[p] \in Empty => item[p] = NoItem

\* Arrays that have cells are allocated, and every array an operation works on
\* has some; the owner works on the deque's own.
ArraysInv ==
    /\ \A a \in Arrays : cap[a] > 0 => a \in Used
    /\ cap[cur[0]] > 0 /\ buf = [a \in Arrays |-> buf[a]]
    /\ \A p \in Slots :
        /\ arr[p] # NoArray => cap[arr[p]] > 0
        /\ pc[p] = "stealCell" => arr[p] # NoArray
    /\ pc[Owner] \in {"pushGrow", "pushCell", "pushPublish", "popStore", "popTop",
                      "popCell"} => arr[Owner] = cur[0]

\* What the owner knows of top and bottom at each access: an array is never
\* full, and top passes bottom by one only while a pop has lowered it.
OwnerIndices ==
    /\ bottom - top <= cap[cur[0]] - 1
    /\ pc[Owner] \notin Lowered => top <= bottom
    /\ pc[Owner] \in Pushing \ {"pushBottom"} => bot[Owner] = bottom
    /\ pc[Owner] \in {"pushArray", "pushGrow"} =>
        /\ tp[Owner] <= bot[Owner]
        /\ bot[Owner] - tp[Owner] <= cap[cur[0]] - 1
    /\ pc[Owner] \in {"pushReload", "pushCell", "pushPublish"} =>
        /\ tp[Owner] <= bot[Owner]
        /\ bot[Owner] - tp[Owner] < cap[cur[0]] - 1
    /\ pc[Owner] \in {"popArray", "popStore"} => bot[Owner] = bottom - 1
    /\ pc[Owner] \in Lowered => bot[Owner] = bottom /\ top <= bottom + 1
    /\ pc[Owner] = "popCell" =>
        /\ tp[Owner] <= bot[Owner]
        /\ tp[Owner] < bot[Owner] => top <= bot[Owner]
    /\ pc[Owner] = "popCas" => tp[Owner] = bot[Owner]
    /\ pc[Owner] = "popRestore" => top = bot[Owner] + 1

\* A thief whose copy of top is still right has a coroutine to steal: the
\* owner cannot have decided to take that one without looking at top again.
ThiefIndices ==
    \A p \in Slots :
        /\ tp[p] <= top
        /\ pc[p] \in {"stealArray", "stealCell", "stealCas"} /\ tp[p] = top =>
            top \in Window

\* What a pop or steal read is what the deque holds, if its compare_exchange is
\* going to succeed; what a push wrote is there when it is published.
ViewsInv ==
    /\ \A p \in Slots : tp[p] = top =>
        /\ pc[p] = "stealCell" => At(arr[p], tp[p]) = At(cur[0], top)
        /\ pc[p] \in {"stealCas", "popCas"} => item[p] = At(cur[0], top)
    /\ pc[Owner] = "pushPublish" => At(cur[0], bot[Owner]) = item[Owner]

\* Who has each coroutine: a position of the deque, the thread that took it,
\* the push under way, or its holder outside.
Content == [i \in Window |-> At(cur[0], i)]
Taking == [p \in Slots |-> Got(p)]
Pending == IF pc[Owner] \in Pushing THEN item[Owner] ELSE NoItem

\* No coroutine is in two of these places, or twice in one.
Apart(content, taking, pending, out) ==
    /\ \A i \in DOMAIN content : content[i] \in Items \ out /\ content[i] # pending
    /\ \A i, j \in DOMAIN content : content[i] = content[j] => i = j
    /\ taking \in [Slots -> Items \cup {NoItem}]
    /\ \A p \in Slots : taking[p] # NoItem =>
        /\ taking[p] \notin out /\ taking[p] # pending
        /\ \A i \in DOMAIN content : content[i] # taking[p]
        /\ \A q \in Slots : taking[q] = taking[p] => q = p
    /\ pending # NoItem => pending \in Items \ out
Owned == Apart(Content, Taking, Pending, outside)

\* And each in one of them.
Accounted(content, taking, pending, out) ==
    \A c \in Items :
        \/ c \in out \/ c = pending
        \/ \E i \in DOMAIN content : content[i] = c
        \/ \E p \in Slots : taking[p] = c
NoneLost == Accounted(Content, Taking, Pending, outside)

DequeShape ==
    /\ TypeOK /\ Roles /\ ArraysInv
    /\ OwnerIndices /\ ThiefIndices /\ ViewsInv
DequeInv == EbrInv /\ DisciplineInv /\ DequeShape /\ Owned /\ NoneLost
--------------------------------------------------------------------------------
(* What a step can do to the coroutines. *)

\* A push starts.
Offer(i) ==
    /\ i \in outside /\ Pending = NoItem
    /\ Pending' = i /\ outside' = outside \ {i}
    /\ Content' = Content /\ Taking' = Taking

\* It stores bottom: its coroutine is in the deque.
Insert(k) ==
    /\ Pending \in Items /\ Pending' = NoItem
    /\ k \notin Window
    /\ Content' = [i \in Window \cup {k} |-> IF i = k THEN Pending ELSE Content[i]]
    /\ Taking' = Taking /\ outside' = outside

\* A pop or a steal takes the coroutine at position k.
Remove(p, k) ==
    /\ k \in Window /\ Taking[p] = NoItem
    /\ Content' = [i \in Window \ {k} |-> Content[i]]
    /\ Taking' = [Taking EXCEPT ![p] = Content[k]]
    /\ Pending' = Pending /\ outside' = outside

\* The operation returns it.
HandOver(p) ==
    /\ Taking' = [Taking EXCEPT ![p] = NoItem]
    /\ outside' = outside \cup ({Taking[p]} \ {NoItem})
    /\ Content' = Content /\ Pending' = Pending

Quiet == UNCHANGED <<Content, Taking, Pending, outside>>

Effect ==
    \/ Quiet
    \/ \E i \in Items : Offer(i)
    \/ \E k \in Nat : Insert(k)
    \/ \E p \in Slots : HandOver(p) \/ \E k \in Nat : Remove(p, k)

\* Whatever it does, nobody gets a coroutine that someone else has.
LEMMA EffectOwned ==
  ASSUME Owned, Effect, outside \subseteq Items
  PROVE  Owned'
<1> DEFINE c == Content
           d == Content'
           t == Taking
           u == Taking'
           w == Window
<1>0. DOMAIN c = w
  BY DEF Content
<1> HIDE DEF c, d, t, u, w
<1>1. Apart(c, t, Pending, outside)
  BY DEF Owned, c, t
<1> SUFFICES Apart(d, u, Pending', outside')
  BY DEF Owned, d, u
<1>2. CASE Quiet
  BY <1>1, <1>2 DEF Quiet, c, d, t, u
<1>3. ASSUME NEW i \in Items, Offer(i) PROVE Apart(d, u, Pending', outside')
  <2>1. /\ i \in outside /\ Pending = NoItem
        /\ Pending' = i /\ outside' = outside \ {i}
        /\ d = c /\ u = t
    BY <1>3 DEF Offer, c, d, t, u
  <2>2. QED
    BY <1>1, <2>1, ItemAssumption DEF Apart
<1>4. ASSUME NEW k \in Nat, Insert(k) PROVE Apart(d, u, Pending', outside')
  <2>1. /\ Pending \in Items /\ Pending' = NoItem /\ k \notin w
        /\ d = [i \in w \cup {k} |-> IF i = k THEN Pending ELSE c[i]]
        /\ u = t /\ outside' = outside
    BY <1>4 DEF Insert, c, d, t, u, w
  <2>2. /\ DOMAIN d = w \cup {k}
        /\ d[k] = Pending /\ \A i \in w : d[i] = c[i]
    BY <2>1
  <2>3. Pending # NoItem /\ Pending \notin outside
    BY <1>1, <2>1, ItemAssumption DEF Apart
  <2>4. QED
    BY <1>0, <1>1, <2>1, <2>2, <2>3, ItemAssumption DEF Apart
<1>5. ASSUME NEW p \in Slots, HandOver(p) PROVE Apart(d, u, Pending', outside')
  <2>1. /\ u = [t EXCEPT ![p] = NoItem]
        /\ outside' = outside \cup ({t[p]} \ {NoItem})
        /\ d = c /\ Pending' = Pending
    BY <1>5 DEF HandOver, c, d, t, u
  <2>2. QED
    BY <1>1, <2>1 DEF Apart
<1>6. ASSUME NEW p \in Slots, NEW k \in Nat, Remove(p, k)
      PROVE Apart(d, u, Pending', outside')
  <2>1. /\ k \in w /\ t[p] = NoItem
        /\ d = [i \in w \ {k} |-> c[i]]
        /\ u = [t EXCEPT ![p] = c[k]]
        /\ Pending' = Pending /\ outside' = outside
    BY <1>6 DEF Remove, c, d, t, u, w
  <2>2. DOMAIN d = w \ {k} /\ \A i \in w \ {k} : d[i] = c[i]
    BY <2>1
  <2>3. QED
    BY <1>0, <1>1, <2>1, <2>2, ItemAssumption DEF Apart
<1>7. QED
  BY <1>2, <1>3, <1>4, <1>5, <1>6 DEF Effect

\* Nor is one lost.
LEMMA EffectNoneLost ==
  ASSUME NoneLost, Effect
  PROVE  NoneLost'
<1> DEFINE c == Content
           d == Content'
           t == Taking
           u == Taking'
           w == Window
<1>0. DOMAIN c = w /\ DOMAIN t = Slots
  BY DEF Content, Taking
<1> HIDE DEF c, d, t, u, w
<1>1. Accounted(c, t, Pending, outside)
  BY DEF NoneLost, c, t
<1> SUFFICES ASSUME NEW e \in Items
             PROVE  \/ e \in outside' \/ e = Pending'
                    \/ \E i \in DOMAIN d : d[i] = e
                    \/ \E p \in Slots : u[p] = e
  BY DEF NoneLost, Accounted, d, u
<1>2. \/ e \in outside \/ e = Pending
      \/ \E i \in w : c[i] = e
      \/ \E p \in Slots : t[p] = e
  BY <1>0, <1>1 DEF Accounted
<1>3. e # NoItem
  BY ItemAssumption
<1>4. CASE Quiet \/ \E i \in Items : Offer(i)
  BY <1>0, <1>2, <1>3, <1>4 DEF Quiet, Offer, c, d, t, u
<1>5. ASSUME NEW k \in Nat, Insert(k) PROVE e = Pending \/ e \in outside'
        \/ (\E i \in DOMAIN d : d[i] = e) \/ \E p \in Slots : u[p] = e
  <2>1. /\ k \notin w /\ u = t /\ outside' = outside
        /\ d = [i \in w \cup {k} |-> IF i = k THEN Pending ELSE c[i]]
    BY <1>5 DEF Insert, c, d, t, u, w
  <2>2. DOMAIN d = w \cup {k} /\ \A i \in w : d[i] = c[i]
    BY <2>1
  <2>3. QED
    BY <1>2, <2>1, <2>2
<1>6. ASSUME NEW k \in Nat, Insert(k), e = Pending PROVE \E i \in DOMAIN d : d[i] = e
  BY <1>6 DEF Insert, c, d, t, u, w
<1>7. ASSUME NEW p \in Slots, HandOver(p)
      PROVE  e \in outside' \/ e = Pending' \/ (\E i \in DOMAIN d : d[i] = e)
             \/ \E q \in Slots : u[q] = e
  <2>1. /\ u = [t EXCEPT ![p] = NoItem]
        /\ outside' = outside \cup ({t[p]} \ {NoItem})
        /\ d = c /\ Pending' = Pending
    BY <1>7 DEF HandOver, c, d, t, u
  <2>2. QED
    BY <1>0, <1>2, <1>3, <2>1
<1>8. ASSUME NEW p \in Slots, NEW k \in Nat, Remove(p, k)
      PROVE  e \in outside' \/ e = Pending' \/ (\E i \in DOMAIN d : d[i] = e)
             \/ \E q \in Slots : u[q] = e
  <2>1. /\ t[p] = NoItem /\ d = [i \in w \ {k} |-> c[i]]
        /\ u = [t EXCEPT ![p] = c[k]]
        /\ Pending' = Pending /\ outside' = outside
    BY <1>8 DEF Remove, c, d, t, u, w
  <2>2. DOMAIN d = w \ {k} /\ \A i \in w \ {k} : d[i] = c[i]
    BY <2>1
  <2>3. u[p] = c[k] /\ \A q \in Slots : q # p => u[q] = t[q]
    BY <1>0, <2>1
  <2>4. QED
    BY <1>2, <1>3, <2>1, <2>2, <2>3
<1>9. QED
  BY <1>4, <1>5, <1>6, <1>7, <1>8 DEF Effect

\* And it is a step of the pool, or none.
LEMMA EffectPool ==
  ASSUME Owned, Effect
  PROVE  [Abstract!PoolNext]_(Abstract!poolVars)
<1> DEFINE got == [p \in Slots |-> Got(p)]
<1>0. Pool = {Content[i] : i \in Window} /\ got = Taking /\ DOMAIN Content = Window
  BY DEF Pool, Content, Taking
<1>1. Pool' = {Content'[i] : i \in DOMAIN Content'} /\ got' = Taking'
  BY DEF Pool, Content, Taking
<1> HIDE DEF got
<1>2. Apart(Content, Taking, Pending, outside)
  BY DEF Owned
<1>3. CASE Quiet \/ \E i \in Items : Offer(i)
  <2>1. Content' = Content /\ Taking' = Taking
    BY <1>3 DEF Quiet, Offer
  <2>2. Pool' = Pool /\ got' = got
    BY <1>0, <1>1, <2>1
  <2>3. QED
    BY <2>2 DEF Abstract!poolVars, got
<1>4. ASSUME NEW k \in Nat, Insert(k) PROVE Abstract!PoolNext
  <2>1. /\ Pending \in Items /\ Taking' = Taking /\ k \notin Window
        /\ Content' = [i \in Window \cup {k} |-> IF i = k THEN Pending ELSE Content[i]]
    BY <1>4 DEF Insert
  <2>2. Pool' = Pool \cup {Pending}
    BY <1>0, <1>1, <2>1
  <2>3. Pending \notin Pool /\ \A p \in Slots : got[p] # Pending
    BY <1>0, <1>2, <2>1, ItemAssumption DEF Apart
  <2>4. Abstract!Put(Pending)
    BY <1>0, <1>1, <2>1, <2>2, <2>3 DEF Abstract!Put, got
  <2>5. QED
    BY <2>1, <2>4 DEF Abstract!PoolNext
<1>5. ASSUME NEW p \in Slots, HandOver(p) PROVE Abstract!PoolNext
  <2>1. Taking' = [Taking EXCEPT ![p] = NoItem] /\ Content' = Content
    BY <1>5 DEF HandOver
  <2>2. Abstract!Return(p)
    BY <1>0, <1>1, <2>1 DEF Abstract!Return, got
  <2>3. QED
    BY <2>2 DEF Abstract!PoolNext
<1>6. ASSUME NEW p \in Slots, NEW k \in Nat, Remove(p, k) PROVE Abstract!PoolNext
  <2>1. /\ k \in Window /\ Taking[p] = NoItem
        /\ Content' = [i \in Window \ {k} |-> Content[i]]
        /\ Taking' = [Taking EXCEPT ![p] = Content[k]]
    BY <1>6 DEF Remove
  <2>2. Content[k] \in Items /\ Content[k] \in Pool
    BY <1>0, <1>2, <2>1 DEF Apart
  <2>3. Pool' = Pool \ {Content[k]}
    BY <1>0, <1>1, <1>2, <2>1 DEF Apart
  <2>4. Abstract!Take(p, Content[k])
    BY <1>0, <1>1, <2>1, <2>2, <2>3 DEF Abstract!Take, got
  <2>5. QED
    BY <2>2, <2>4 DEF Abstract!PoolNext
<1>7. QED
  BY <1>3, <1>4, <1>5, <1>6 DEF Effect
--------------------------------------------------------------------------------
(* Frames: what an access leaves as it was. *)

\* No step makes an allocated array look unallocated.
UsedStay == \A a \in Arrays : a \in Used => a \in Used'

LEMMA UsedGrows ==
  ASSUME EbrInv, [EbrNext]_ebrVars
  PROVE  UsedStay
<1> SUFFICES ASSUME NEW a \in Arrays, a \in Used PROVE a \in Used'
  BY DEF UsedStay
<1>1. CASE UNCHANGED <<cur, freed, limbo, retired>>
  BY <1>1 DEF Used, Retired
<1>2. ASSUME NEW p \in Slots, NEW d \in Deques, Grow(p, d) PROVE a \in Used'
  <2>1. PICK fresh \in Arrays : Publish(p, d, cur[d], fresh)
    BY <1>2 DEF Grow
  <2>2. limbo[p] = NoArray /\ limbo \in [Slots -> Arrays \cup {NoArray}]
        /\ cur \in [Deques -> Arrays]
    BY <2>1 DEF EbrInv, LimboOwned, EbrTypeOK, Publish
  <2>3. limbo'[p] = cur[d] /\ \A q \in Slots : limbo[q] = a => limbo'[q] = a
    BY <2>1, <2>2, NoArrayAssumption DEF Publish
  <2>4. \A e \in Deques : e # d => cur'[e] = cur[e]
    BY <2>1, <2>2 DEF Publish
  <2>5. freed' = freed /\ retired' = retired
    BY <2>1 DEF Publish
  <2>6. QED
    BY <2>3, <2>4, <2>5 DEF Used, Retired
<1>3. ASSUME NEW p \in Slots, Retire(p) PROVE a \in Used'
  <2>1. retired \in [Slots -> SUBSET Node] /\ limbo \in [Slots -> Arrays \cup {NoArray}]
    BY DEF EbrInv, EbrTypeOK
  <2>2. /\ retired'[p] = retired[p] \cup {[array |-> limbo[p], epoch |-> epoch]}
        /\ \A q \in Slots : q # p => retired'[q] = retired[q] /\ limbo'[q] = limbo[q]
        /\ cur' = cur /\ freed' = freed
    BY <1>3, <2>1 DEF Retire
  <2>3. limbo[p] \in Retired(p)'
    BY <2>2, ZenonT(30) DEF Retired
  <2>4. \A q \in Slots : Retired(q) \subseteq Retired(q)'
    BY <2>2 DEF Retired
  <2>5. QED
    BY <2>2, <2>3, <2>4 DEF Used
<1>4. ASSUME NEW p \in Slots, Reclaim(p) PROVE a \in Used'
  <2>1. retired \in [Slots -> SUBSET Node] /\ list[p] \in Slots
    BY DEF EbrInv, EbrTypeOK
  <2>2. /\ retired'[list[p]] = retired[list[p]] \ Expired(p)
        /\ \A q \in Slots : q # list[p] => retired'[q] = retired[q]
        /\ cur' = cur /\ limbo' = limbo
        /\ freed' = freed \cup {n.array : n \in Expired(p)}
    BY <1>4, <2>1 DEF Reclaim
  <2>3. \A q \in Slots : a \in Retired(q) => a \in Retired(q)' \cup freed'
    BY <2>2 DEF Retired
  <2>4. QED
    BY <2>2, <2>3 DEF Used
<1>5. ASSUME NEW p \in Slots, EbrStep(p), ~(\E d \in Deques : Grow(p, d)),
             ~Retire(p), ~Reclaim(p)
      PROVE UNCHANGED <<cur, freed, limbo, retired>>
  BY <1>5 DEF EbrStep, EnterReadEpoch, EnterAnnounce, EnterActivate, Exit, LoadArray,
              AdvanceEpoch, MinStart, MinSkip, MinSeeActive, MinReadAnnounced
<1>6. CASE Drained \/ Joined \/ ForceReclaim \/ UNCHANGED ebrVars
  BY <1>1, <1>6 DEF Drained, Joined, ForceReclaim, ebrVars
<1>7. QED
  BY <1>1, <1>2, <1>3, <1>4, <1>5, <1>6 DEF EbrNext

\* An access that writes no cell and leaves the window leaves the content.
LEMMA SameContent ==
  ASSUME UNCHANGED <<cap, buf, cur>>, Window' = Window
  PROVE  Content' = Content
  BY DEF Content, At, Cell

\* Positions of a window no longer than the array have cells of their own.
LEMMA CellsApart ==
  ASSUME NEW n \in Nat \ {0}, NEW t \in Nat, NEW u \in Nat, t < u, u < t + n
  PROVE  t % n # u % n
<1> DEFINE q == t \div n
<1> DEFINE r == u \div n
<1>1. q \in Int /\ r \in Int /\ t = n * q + (t % n) /\ u = n * r + (u % n)
  OBVIOUS
<1> HIDE DEF q, r
<1>2. SUFFICES ASSUME t % n = u % n PROVE FALSE
  OBVIOUS
<1>3. n * (r - q) = u - t
  BY <1>1, <1>2
<1>4. CASE r - q <= 0
  BY <1>1, <1>3, <1>4
<1>5. CASE r - q >= 1
  BY <1>1, <1>3, <1>5
<1>6. QED
  BY <1>1, <1>4, <1>5

\* Every position has a cell, and a cell holds a coroutine or none.
LEMMA CellTyped ==
  ASSUME TypeOK, NEW a \in Arrays, cap[a] > 0, NEW i \in Nat
  PROVE  Cell(a, i) \in 0 .. cap[a] - 1 /\ At(a, i) \in Items \cup {NoItem}
<1>1. cap[a] \in Nat \ {0}
  BY DEF TypeOK
<1>2. Cell(a, i) \in 0 .. cap[a] - 1
  BY <1>1 DEF Cell
<1>3. QED
  BY <1>1, <1>2 DEF TypeOK, At

\* The slots' and the array's constants the proofs below need.
LEMMA DequeFacts ==
  /\ Owner \in Slots /\ 0 \in Deques /\ Owner \notin Thieves /\ Thieves \subseteq Slots
  /\ NoItem \notin Items /\ NoArray \notin Arrays
  BY SlotsFacts, ItemAssumption, NoArrayAssumption, OneDequeAssumption,
     NumWorkersAssumption
  DEF Owner, Thieves, Slots, External
--------------------------------------------------------------------------------
(* The accesses outside the deque, and the ends of the operations. *)

\* Entering, retiring and reclaiming do nothing to the deque.
LEMMA ProtectShape ==
  ASSUME DequeShape, UsedStay, NEW p \in Slots, Protect(p)
  PROVE  DequeShape' /\ Quiet
<1>1. UNCHANGED <<top, bottom, cap, buf, bot, tp, arr, item, pc, outside, cur>>
  BY DEF Protect, EnterAnnounce, EnterActivate, Retire, AdvanceEpoch, MinStart,
         MinSkip, MinSeeActive, MinReadAnnounced, Reclaim, locals, dqVars
<1>2. TypeOK' /\ Roles' /\ ViewsInv'
  BY <1>1 DEF DequeShape, TypeOK, Roles, ViewsInv, At, Cell
<1>3. ArraysInv'
  BY <1>1 DEF DequeShape, TypeOK, ArraysInv, UsedStay
<1>4. Window' = Window
  BY <1>1 DEF Window, Undecided
<1>5. OwnerIndices' /\ ThiefIndices'
  BY <1>1, <1>4 DEF DequeShape, OwnerIndices, ThiefIndices
<1>6. Quiet
  <2>1. Content' = Content
    BY <1>1, <1>4, SameContent
  <2>2. Taking' = Taking /\ Pending' = Pending
    BY <1>1 DEF Taking, Pending, Got, At, Cell
  <2>3. QED
    BY <1>1, <2>1, <2>2 DEF Quiet
<1>7. QED
  BY <1>2, <1>3, <1>5, <1>6 DEF DequeShape

\* The first access of a pop or a steal.
LEMMA BeginShape ==
  ASSUME DequeShape, DisciplineInv, UsedStay, NEW p \in Slots,
         PopBegin(p) \/ StealBegin(p)
  PROVE  DequeShape' /\ Quiet
<1>0. PICK first \in {"popBottom", "stealTop"} :
        /\ pc[p] = "idle" /\ pc' = [pc EXCEPT ![p] = first]
        /\ first = "popBottom" <=> p = Owner
  BY DequeFacts DEF PopBegin, StealBegin, Begin
<1>1. UNCHANGED <<top, bottom, cap, buf, bot, tp, arr, item, outside, cur>>
  BY DEF PopBegin, StealBegin, Begin, EnterReadEpoch, dqVars
<1>2. pc'[p] = first /\ \A q \in Slots : q # p => pc'[q] = pc[q]
  BY <1>0 DEF DisciplineInv
<1>3. TypeOK' /\ Roles'
  BY <1>0, <1>1, <1>2 DEF DequeShape, TypeOK, Roles, Pushing, PushPcs, Popping, Lowered,
                         Stealing, Empty
<1>4. ViewsInv'
  BY <1>0, <1>1, <1>2, DequeFacts DEF DequeShape, ViewsInv, At, Cell
<1>5. ArraysInv'
  BY <1>0, <1>1, <1>2, DequeFacts DEF DequeShape, TypeOK, ArraysInv, UsedStay
<1>6. Window' = Window
  BY <1>0, <1>1, <1>2, DequeFacts DEF Window, Undecided
<1>7. OwnerIndices'
  BY <1>0, <1>1, <1>2, DequeFacts
  DEF DequeShape, OwnerIndices, Pushing, PushPcs, Lowered
<1>8. ThiefIndices'
  BY <1>0, <1>1, <1>2, <1>6 DEF DequeShape, ThiefIndices
<1>9. Quiet
  <2>1. Content' = Content
    BY <1>1, <1>6, SameContent
  <2>2. \A q \in Slots : Got(q)' = Got(q)
    BY <1>0, <1>1, <1>2 DEF Got, At, Cell
  <2>3. Taking' = Taking
    BY <2>2 DEF Taking
  <2>4. Pending' = Pending
    BY <1>0, <1>1, <1>2, DequeFacts DEF Pending, Pushing, PushPcs
  <2>5. QED
    BY <1>1, <2>1, <2>3, <2>4 DEF Quiet
<1>10. QED
  BY <1>3, <1>4, <1>5, <1>7, <1>8, <1>9 DEF DequeShape

\* The first access of a push: its caller had the coroutine.
LEMMA PushBeginShape ==
  ASSUME Pushers = {Owner}, DequeShape, DisciplineInv, UsedStay, NEW p \in Slots,
         PushBegin(p)
  PROVE  DequeShape' /\ \E i \in Items : Offer(i)
<1>0. PICK i \in outside :
        /\ pc[p] = "idle" /\ pc' = [pc EXCEPT ![p] = "pushBottom"]
        /\ p = Owner /\ i \in Items
        /\ outside' = outside \ {i} /\ item' = [item EXCEPT ![p] = i]
  BY DEF PushBegin, Begin, DequeShape, TypeOK
<1>1. UNCHANGED <<top, bottom, cap, buf, bot, tp, arr, cur>>
  BY DEF PushBegin, Begin, EnterReadEpoch, dqVars
<1>2. /\ pc'[p] = "pushBottom" /\ \A q \in Slots : q # p => pc'[q] = pc[q]
      /\ item'[p] = i /\ \A q \in Slots : q # p => item'[q] = item[q]
  BY <1>0 DEF DisciplineInv, DequeShape, TypeOK
<1>3. TypeOK' /\ Roles'
  BY <1>0, <1>1, <1>2
  DEF DequeShape, TypeOK, Roles, Pushing, PushPcs, Popping, Lowered, Stealing, Empty
<1>4. ViewsInv'
  BY <1>0, <1>1, <1>2, DequeFacts DEF DequeShape, ViewsInv, At, Cell
<1>5. ArraysInv'
  BY <1>0, <1>1, <1>2, DequeFacts DEF DequeShape, TypeOK, ArraysInv, UsedStay
<1>6. Window' = Window
  BY <1>0, <1>1, <1>2, DequeFacts DEF Window, Undecided
<1>7. OwnerIndices'
  BY <1>0, <1>1, <1>2, DequeFacts
  DEF DequeShape, OwnerIndices, Pushing, PushPcs, Lowered
<1>8. ThiefIndices'
  BY <1>0, <1>1, <1>2, <1>6 DEF DequeShape, ThiefIndices
<1>9. Offer(i)
  <2>1. Content' = Content
    BY <1>1, <1>6, SameContent
  <2>2. \A q \in Slots : Got(q)' = Got(q)
    BY <1>0, <1>1, <1>2 DEF Got, At, Cell
  <2>3. Taking' = Taking
    BY <2>2 DEF Taking
  <2>4. Pending = NoItem /\ Pending' = i
    BY <1>0, <1>1, <1>2, DequeFacts DEF Pending, Pushing, PushPcs
  <2>5. QED
    BY <1>0, <1>1, <2>1, <2>3, <2>4 DEF Offer
<1>10. QED
  BY <1>0, <1>3, <1>4, <1>5, <1>7, <1>8, <1>9 DEF DequeShape

\* The last access of an operation: what it took is its caller's.
LEMMA EndShape ==
  ASSUME DequeShape, DisciplineInv, UsedStay, NEW p \in Slots, End(p)
  PROVE  DequeShape' /\ HandOver(p)
<1>0. /\ pc[p] = "exit" /\ pc' = [pc EXCEPT ![p] = "idle"]
      /\ outside' = outside \cup ({item[p]} \ {NoItem})
      /\ bot' = [bot EXCEPT ![p] = 0] /\ tp' = [tp EXCEPT ![p] = 0]
      /\ arr' = [arr EXCEPT ![p] = NoArray] /\ item' = [item EXCEPT ![p] = NoItem]
  BY DEF End, Step, Taken
<1>1. UNCHANGED <<top, bottom, cap, buf, cur>>
  BY DEF End, Exit, dqVars
<1>2. \A q \in Slots : q # p =>
        /\ pc'[q] = pc[q] /\ bot'[q] = bot[q] /\ tp'[q] = tp[q]
        /\ arr'[q] = arr[q] /\ item'[q] = item[q]
  BY <1>0 DEF DisciplineInv, DequeShape, TypeOK
<1>3. pc'[p] = "idle" /\ bot'[p] = 0 /\ tp'[p] = 0 /\ arr'[p] = NoArray
      /\ item'[p] = NoItem
  BY <1>0 DEF DisciplineInv, DequeShape, TypeOK
<1>4. TypeOK' /\ Roles'
  BY <1>0, <1>1, <1>2, <1>3
  DEF DequeShape, TypeOK, Roles, Pushing, PushPcs, Popping, Lowered, Stealing, Empty
<1>5. ViewsInv'
  BY <1>0, <1>1, <1>2, <1>3, DequeFacts DEF DequeShape, ViewsInv, At, Cell
<1>6. ArraysInv'
  BY <1>0, <1>1, <1>2, <1>3, DequeFacts DEF DequeShape, TypeOK, ArraysInv, UsedStay
<1>7. Window' = Window
  BY <1>0, <1>1, <1>2, <1>3, DequeFacts DEF Window, Undecided
<1>8. OwnerIndices'
  BY <1>0, <1>1, <1>2, <1>3, DequeFacts
  DEF DequeShape, OwnerIndices, Pushing, PushPcs, Lowered
<1>9. ThiefIndices'
  BY <1>0, <1>1, <1>2, <1>3, <1>7 DEF DequeShape, TypeOK, ThiefIndices
<1>10. HandOver(p)
  <2>1. Content' = Content
    BY <1>1, <1>7, SameContent
  <2>2. Got(p) = item[p] /\ Got(p)' = NoItem
        /\ \A q \in Slots : q # p => Got(q)' = Got(q)
    BY <1>0, <1>1, <1>2, <1>3 DEF Got, At, Cell
  <2>3. Taking' = [Taking EXCEPT ![p] = NoItem] /\ Taking[p] = item[p]
    BY <2>2 DEF Taking
  <2>4. Pending' = Pending
    BY <1>0, <1>2, <1>3, DequeFacts DEF Pending, Pushing, PushPcs
  <2>5. QED
    BY <1>0, <2>1, <2>3, <2>4 DEF HandOver
<1>11. QED
  BY <1>4, <1>5, <1>6, <1>8, <1>9, <1>10 DEF DequeShape
--------------------------------------------------------------------------------
(* The accesses of a thief. *)

\* A step of a thief moves its own locals only.
ThiefMoves(p) ==
    \A q \in Slots : q # p =>
        /\ pc'[q] = pc[q] /\ bot'[q] = bot[q] /\ tp'[q] = tp[q]
        /\ arr'[q] = arr[q] /\ item'[q] = item[q]

\* So it leaves what the owner is doing.
LEMMA ThiefFrame ==
  ASSUME NEW p \in Slots, p # Owner, ThiefMoves(p), bottom' = bottom, cur' = cur,
         cap' = cap, buf' = buf, outside' = outside
  PROVE  /\ Undecided' = Undecided
         /\ top' = top => Window' = Window /\ Content' = Content
         /\ Pending' = Pending
         /\ \A q \in Slots : q # p => Got(q)' = Got(q)
<1>1. Undecided' = Undecided
  BY DequeFacts DEF Undecided, ThiefMoves
<1>2. ASSUME top' = top PROVE Window' = Window /\ Content' = Content
  <2>1. Window' = Window
    BY <1>1, <1>2 DEF Window
  <2>2. QED
    BY <2>1, SameContent
<1>3. Pending' = Pending
  BY DequeFacts DEF Pending, ThiefMoves
<1>4. \A q \in Slots : q # p => Got(q)' = Got(q)
  BY DEF Got, ThiefMoves, At, Cell
<1>5. QED
  BY <1>1, <1>2, <1>3, <1>4

\* The reads of top and bottom.
LEMMA StealIndexShape ==
  ASSUME DequeShape, DisciplineInv, UsedStay, NEW p \in Slots,
         StealReadTop(p) \/ StealReadBottom(p)
  PROVE  DequeShape' /\ Quiet
<1>0. UNCHANGED <<top, bottom, cap, buf, arr, item, outside, cur>>
  BY DEF StealReadTop, StealReadBottom, ReadTop, dqVars, ebrVars
<1>1. /\ pc[p] \in {"stealTop", "stealBottom"} /\ p # Owner
      /\ pc'[p] \in {"stealBottom", "stealArray", "exit"}
      /\ tp'[p] \in {tp[p], top} /\ bot'[p] \in {bot[p], bottom}
      /\ pc'[p] = "stealArray" => tp'[p] = tp[p] /\ tp[p] < bottom
  BY DEF StealReadTop, StealReadBottom, ReadTop, Step, DequeShape, TypeOK,
         DisciplineInv, Roles, Stealing
<1>2. ThiefMoves(p)
  BY DEF StealReadTop, StealReadBottom, ReadTop, Step, DequeShape, TypeOK,
         DisciplineInv, ThiefMoves
<1>3. /\ tp' \in [Slots -> Nat] /\ bot' \in [Slots -> Int]
  BY DEF StealReadTop, StealReadBottom, ReadTop, DequeShape, TypeOK
<1>4. Window' = Window /\ Content' = Content /\ Pending' = Pending
      /\ \A q \in Slots : q # p => Got(q)' = Got(q)
  BY <1>0, <1>1, <1>2, ThiefFrame
<1>5. TypeOK' /\ Roles'
  BY <1>0, <1>1, <1>2, <1>3
  DEF DequeShape, TypeOK, Roles, ThiefMoves, Pushing, PushPcs, Popping, Lowered,
      Stealing, Empty
<1>6. ArraysInv'
  BY <1>0, <1>1, <1>2, DequeFacts
  DEF DequeShape, TypeOK, ArraysInv, UsedStay, ThiefMoves
<1>7. OwnerIndices'
  BY <1>0, <1>1, <1>2, DequeFacts DEF DequeShape, OwnerIndices, ThiefMoves
<1>8. ThiefIndices'
  <2>1. top < bottom => top \in Window
    BY DEF Window, DequeShape, TypeOK
  <2>2. top \in Nat /\ bottom \in Int /\ tp \in [Slots -> Nat]
    BY DEF DequeShape, TypeOK
  <2>3. tp'[p] <= top' /\ (pc'[p] = "stealArray" /\ tp'[p] = top' => top' \in Window')
    BY <1>0, <1>1, <1>4, <2>1, <2>2 DEF DequeShape, ThiefIndices
  <2>4. QED
    BY <1>0, <1>1, <1>2, <1>4, <2>3 DEF DequeShape, ThiefIndices, ThiefMoves
<1>9. ViewsInv'
  BY <1>0, <1>1, <1>2, DequeFacts DEF DequeShape, ViewsInv, ThiefMoves, At, Cell
<1>10. Quiet
  <2>1. Got(p)' = Got(p)
    <3>1. CASE pc'[p] # "exit"
      BY <1>0, <1>1, <3>1 DEF Got
    <3>2. CASE pc'[p] = "exit"
      BY <1>0, <1>1, <3>2 DEF Got, DequeShape, Roles, Empty, Stealing
    <3>3. QED
      BY <3>1, <3>2
  <2>2. Taking' = Taking
    BY <1>4, <2>1 DEF Taking
  <2>3. QED
    BY <1>0, <1>4, <2>2 DEF Quiet
<1>11. QED
  BY <1>5, <1>6, <1>7, <1>8, <1>9, <1>10 DEF DequeShape

\* The read of dq->array: as long as top is what it was, the deque's array
\* holds the coroutine there.
LEMMA StealArrayShape ==
  ASSUME DequeShape, DisciplineInv, UsedStay, NEW p \in Slots, StealReadArray(p)
  PROVE  DequeShape' /\ Quiet
<1>0. UNCHANGED <<top, bottom, cap, buf, bot, tp, item, outside, cur>>
  BY DEF StealReadArray, ReadArray, LoadArray, dqVars, ebrVars
<1>1. pc[p] = "stealArray" /\ p # Owner /\ pc'[p] = "stealCell" /\ arr'[p] = cur[0]
  BY DEF StealReadArray, ReadArray, Step, DequeShape, TypeOK, DisciplineInv, Roles,
         Stealing
<1>2. ThiefMoves(p)
  BY DEF StealReadArray, ReadArray, Step, DequeShape, TypeOK, DisciplineInv, ThiefMoves
<1>3. arr' \in [Slots -> Arrays \cup {NoArray}] /\ cur[0] \in Arrays
  BY DequeFacts DEF StealReadArray, ReadArray, DequeShape, TypeOK, DisciplineInv
<1>4. Window' = Window /\ Content' = Content /\ Pending' = Pending
      /\ \A q \in Slots : q # p => Got(q)' = Got(q)
  BY <1>0, <1>1, <1>2, ThiefFrame
<1>5. TypeOK' /\ Roles'
  BY <1>0, <1>1, <1>2, <1>3
  DEF DequeShape, TypeOK, Roles, ThiefMoves, Pushing, PushPcs, Popping, Lowered,
      Stealing, Empty
<1>6. ArraysInv'
  BY <1>0, <1>1, <1>2, <1>3, DequeFacts, ZenonT(30)
  DEF DequeShape, TypeOK, ArraysInv, UsedStay, ThiefMoves
<1>7. OwnerIndices'
  BY <1>0, <1>1, <1>2, DequeFacts DEF DequeShape, OwnerIndices, ThiefMoves
<1>8. ThiefIndices'
  BY <1>0, <1>1, <1>2, <1>4 DEF DequeShape, TypeOK, ThiefIndices, ThiefMoves
<1>9. ViewsInv'
  BY <1>0, <1>1, <1>2, DequeFacts DEF DequeShape, ViewsInv, ThiefMoves, At, Cell
<1>10. Quiet
  <2>1. Got(p)' = Got(p)
    BY <1>0, <1>1 DEF Got
  <2>2. Taking' = Taking
    BY <1>4, <2>1 DEF Taking
  <2>3. QED
    BY <1>0, <1>4, <2>2 DEF Quiet
<1>11. QED
  BY <1>5, <1>6, <1>7, <1>8, <1>9, <1>10 DEF DequeShape

\* The read of the cell.
LEMMA StealCellShape ==
  ASSUME DequeShape, DisciplineInv, UsedStay, NEW p \in Slots, StealReadCell(p)
  PROVE  DequeShape' /\ Quiet
<1>0. UNCHANGED <<top, bottom, cap, buf, bot, tp, arr, outside, cur>>
  BY DEF StealReadCell, dqVars, ebrVars
<1>1. /\ pc[p] = "stealCell" /\ p # Owner /\ pc'[p] = "stealCas"
      /\ item'[p] = At(arr[p], tp[p])
  BY DEF StealReadCell, Step, DequeShape, TypeOK, DisciplineInv, Roles, Stealing
<1>2. ThiefMoves(p)
  BY DEF StealReadCell, Step, DequeShape, TypeOK, DisciplineInv, ThiefMoves
<1>3. item' \in [Slots -> Items \cup {NoItem}]
  <2>1. arr[p] \in Arrays /\ cap[arr[p]] > 0 /\ tp[p] \in Nat
    BY <1>1 DEF DequeShape, TypeOK, ArraysInv
  <2>2. At(arr[p], tp[p]) \in Items \cup {NoItem}
    BY <2>1, CellTyped DEF DequeShape
  <2>3. QED
    BY <2>2 DEF StealReadCell, DequeShape, TypeOK
<1>4. Window' = Window /\ Content' = Content /\ Pending' = Pending
      /\ \A q \in Slots : q # p => Got(q)' = Got(q)
  BY <1>0, <1>1, <1>2, ThiefFrame
<1>5. TypeOK' /\ Roles'
  BY <1>0, <1>1, <1>2, <1>3
  DEF DequeShape, TypeOK, Roles, ThiefMoves, Pushing, PushPcs, Popping, Lowered,
      Stealing, Empty
<1>6. ArraysInv'
  BY <1>0, <1>1, <1>2, DequeFacts
  DEF DequeShape, TypeOK, ArraysInv, UsedStay, ThiefMoves
<1>7. OwnerIndices'
  BY <1>0, <1>1, <1>2, DequeFacts DEF DequeShape, OwnerIndices, ThiefMoves
<1>8. ThiefIndices'
  BY <1>0, <1>1, <1>2, <1>4 DEF DequeShape, TypeOK, ThiefIndices, ThiefMoves
<1>9. ViewsInv'
  BY <1>0, <1>1, <1>2, DequeFacts DEF DequeShape, ViewsInv, ThiefMoves, At, Cell
<1>10. Quiet
  <2>1. Got(p)' = Got(p)
    BY <1>0, <1>1 DEF Got
  <2>2. Taking' = Taking
    BY <1>4, <2>1 DEF Taking
  <2>3. QED
    BY <1>0, <1>4, <2>2 DEF Quiet
<1>11. QED
  BY <1>5, <1>6, <1>7, <1>8, <1>9, <1>10 DEF DequeShape

\* The compare_exchange: if top is still what the thief read, the coroutine it
\* read is at that end of the deque, and leaves it.
LEMMA StealCasShape ==
  ASSUME DequeShape, DisciplineInv, UsedStay, NEW p \in Slots, StealCas(p)
  PROVE  DequeShape' /\ Effect
<1>0. UNCHANGED <<bottom, cap, buf, bot, tp, arr, outside, cur>>
  BY DEF StealCas, ebrVars
<1>1. pc[p] = "stealCas" /\ p # Owner /\ pc'[p] = "exit"
  BY DEF StealCas, Step, DequeShape, TypeOK, DisciplineInv, Roles, Stealing
<1>2. ThiefMoves(p)
  BY DEF StealCas, CasTop, Step, DequeShape, TypeOK, DisciplineInv, ThiefMoves
<1>3. Undecided' = Undecided /\ Pending' = Pending
      /\ (top' = top => Window' = Window /\ Content' = Content)
      /\ \A q \in Slots : q # p => Got(q)' = Got(q)
  BY <1>0, <1>1, <1>2, ThiefFrame
<1>4. top \in Nat /\ bottom \in Int /\ tp \in [Slots -> Nat]
      /\ item \in [Slots -> Items \cup {NoItem}]
  BY DEF DequeShape, TypeOK
<1>5. top' \in Nat /\ item' \in [Slots -> Items \cup {NoItem}]
  BY <1>4 DEF StealCas, CasTop
<1>6. TypeOK' /\ Roles'
  BY <1>0, <1>1, <1>2, <1>5
  DEF DequeShape, TypeOK, Roles, ThiefMoves, Pushing, PushPcs, Popping, Lowered,
      Stealing, Empty
<1>7. ArraysInv'
  BY <1>0, <1>1, <1>2, DequeFacts
  DEF DequeShape, TypeOK, ArraysInv, UsedStay, ThiefMoves
<1>8. Got(p) = NoItem /\ Got(p)' = item'[p]
  BY <1>1 DEF Got
<1>9. CASE top = tp[p]
  <2>1. top' = top + 1 /\ item' = item
    BY <1>9 DEF StealCas, CasTop
  <2>2. top \in Window /\ item[p] = At(cur[0], top)
    BY <1>1, <1>9 DEF DequeShape, ThiefIndices, ViewsInv
  <2>3. Window' = Window \ {top}
    BY <1>0, <1>3, <1>4, <2>1 DEF Window
  <2>4. OwnerIndices'
    <3>1. cur[0] \in Arrays /\ cap[cur[0]] \in Nat /\ bot[Owner] \in Int
          /\ tp[Owner] \in Nat
      BY DequeFacts DEF DequeShape, TypeOK, DisciplineInv
    <3>2. /\ pc'[Owner] = pc[Owner] /\ bot'[Owner] = bot[Owner]
          /\ tp'[Owner] = tp[Owner]
      BY <1>1, <1>2, DequeFacts DEF ThiefMoves
    <3>3. CASE pc[Owner] \notin Lowered
      <4>1. top < bottom
        BY <1>4, <2>2, <3>3 DEF Window, Undecided, Lowered
      <4>2. QED
        BY <1>0, <1>4, <2>1, <3>1, <3>2, <3>3, <4>1
        DEF DequeShape, OwnerIndices, Lowered
    <3>4. CASE pc[Owner] \in Lowered
      <4>1. /\ pc[Owner] # "popRestore" /\ top <= bottom
            /\ pc[Owner] = "popCell" /\ tp[Owner] < bot[Owner] => top < bottom
        BY <1>4, <2>2, <3>1, <3>4
        DEF Window, Undecided, Lowered, DequeShape, OwnerIndices
      <4>2. QED
        BY <1>0, <1>4, <2>1, <3>1, <3>2, <3>4, <4>1
        DEF DequeShape, OwnerIndices, Lowered, Pushing, PushPcs
    <3>5. QED
      BY <3>3, <3>4
  <2>5. \A q \in Slots : tp'[q] < top'
    BY <1>0, <1>4, <2>1 DEF DequeShape, ThiefIndices
  <2>6. ThiefIndices'
    BY <1>0, <1>4, <2>1, <2>5 DEF ThiefIndices
  <2>7. ViewsInv'
    BY <1>0, <1>1, <1>2, <1>4, <2>1, <2>5, DequeFacts
    DEF DequeShape, ViewsInv, ThiefMoves, At, Cell
  <2>8. Remove(p, top)
    <3>1. Content' = [i \in Window \ {top} |-> Content[i]]
      <4>1. Content' = [i \in Window \ {top} |-> At(cur[0], i)]
        BY <1>0, <2>3 DEF Content, At, Cell
      <4>2. QED
        BY <4>1 DEF Content
    <3>2. Content[top] = item'[p]
      BY <2>1, <2>2 DEF Content
    <3>3. Taking' = [Taking EXCEPT ![p] = Content[top]] /\ Taking[p] = NoItem
      BY <1>3, <1>8, <3>2 DEF Taking
    <3>4. QED
      BY <1>0, <1>3, <2>2, <3>1, <3>3 DEF Remove
  <2>9. QED
    BY <1>4, <1>6, <1>7, <2>4, <2>6, <2>7, <2>8 DEF DequeShape, Effect
<1>10. CASE top # tp[p]
  <2>1. top' = top /\ item'[p] = NoItem
    BY <1>4, <1>10 DEF StealCas, CasTop
  <2>2. OwnerIndices'
    BY <1>0, <1>1, <1>2, <2>1, DequeFacts DEF DequeShape, OwnerIndices, ThiefMoves
  <2>3. ThiefIndices'
    BY <1>0, <1>1, <1>2, <1>3, <2>1 DEF DequeShape, TypeOK, ThiefIndices, ThiefMoves
  <2>4. ViewsInv'
    BY <1>0, <1>1, <1>2, <2>1, DequeFacts DEF DequeShape, ViewsInv, ThiefMoves, At, Cell
  <2>5. Quiet
    <3>1. Taking' = Taking
      BY <1>3, <1>8, <2>1 DEF Taking
    <3>2. QED
      BY <1>0, <1>3, <2>1, <3>1 DEF Quiet
  <2>6. QED
    BY <1>6, <1>7, <2>2, <2>3, <2>4, <2>5 DEF DequeShape, Effect
<1>11. QED
  BY <1>9, <1>10
--------------------------------------------------------------------------------
(* The accesses of the owner. *)

\* A step of the owner moves its own locals only.
OwnerMoves ==
    \A q \in Slots : q # Owner =>
        /\ pc'[q] = pc[q] /\ bot'[q] = bot[q] /\ tp'[q] = tp[q]
        /\ arr'[q] = arr[q] /\ item'[q] = item[q]

\* So it leaves what the thieves took.
LEMMA OwnerFrame ==
  ASSUME DequeShape, OwnerMoves
  PROVE  /\ \A q \in Slots : q # Owner => Got(q)' = Got(q)
         /\ Got(Owner)' = Got(Owner) => Taking' = Taking
<1>1. \A q \in Slots : q # Owner => Got(q)' = Got(q)
  BY DEF OwnerMoves, Got, DequeShape, Roles, Popping, Lowered
<1>2. ASSUME Got(Owner)' = Got(Owner) PROVE Taking' = Taking
  BY <1>1, <1>2 DEF Taking
<1>3. QED
  BY <1>1, <1>2

\* The reads of bottom, of top by a push, and of dq->array.
LEMMA OwnerReadShape ==
  ASSUME DequeShape, DisciplineInv, UsedStay, NEW p \in Slots,
         \/ PushReadBottom(p) \/ PushReadTop(p) \/ PushReadArray(p) \/ PushReload(p)
         \/ PopReadBottom(p) \/ PopReadArray(p)
  PROVE  DequeShape' /\ Quiet
<1>0. UNCHANGED <<top, bottom, cap, buf, item, outside, cur>>
  BY DEF PushReadBottom, PushReadTop, PushReadArray, PushReload, PopReadBottom,
         PopReadArray, ReadTop, ReadArray, LoadArray, dqVars, ebrVars
<1>1. p = Owner
  BY DEF PushReadBottom, PushReadTop, PushReadArray, PushReload, PopReadBottom,
         PopReadArray, ReadTop, ReadArray, Step, DequeShape, Roles, Pushing, PushPcs,
         Popping
<1>2. /\ cur[0] \in Arrays /\ cap[cur[0]] \in Nat /\ bot[Owner] \in Int
      /\ tp[Owner] \in Nat /\ top \in Nat /\ bottom \in Int
  BY DequeFacts DEF DequeShape, TypeOK, DisciplineInv
<1>3. \/ /\ pc[Owner] = "pushBottom" /\ pc'[Owner] = "pushTop"
         /\ bot'[Owner] = bottom /\ tp' = tp /\ arr' = arr
      \/ /\ pc[Owner] = "pushTop" /\ pc'[Owner] = "pushArray"
         /\ bot' = bot /\ tp'[Owner] = top /\ arr' = arr
      \/ /\ pc[Owner] = "pushArray"
         /\ pc'[Owner] = IF Full(Owner, cur[0]) THEN "pushGrow" ELSE "pushCell"
         /\ bot' = bot /\ tp' = tp /\ arr'[Owner] = cur[0]
      \/ /\ pc[Owner] = "pushReload" /\ pc'[Owner] = "pushCell"
         /\ bot' = bot /\ tp' = tp /\ arr'[Owner] = cur[0]
      \/ /\ pc[Owner] = "popBottom" /\ pc'[Owner] = "popArray"
         /\ bot'[Owner] = bottom - 1 /\ tp' = tp /\ arr' = arr
      \/ /\ pc[Owner] = "popArray" /\ pc'[Owner] = "popStore"
         /\ bot' = bot /\ tp' = tp /\ arr'[Owner] = cur[0]
  BY <1>1 DEF PushReadBottom, PushReadTop, PushReadArray, PushReload, PopReadBottom,
         PopReadArray, ReadTop, ReadArray, Step, DequeShape, TypeOK, DisciplineInv
<1>4. /\ OwnerMoves
      /\ bot' \in [Slots -> Int] /\ tp' \in [Slots -> Nat]
      /\ arr' \in [Slots -> Arrays \cup {NoArray}]
  <2>1. /\ \E to : pc' = [pc EXCEPT ![Owner] = to]
        /\ \E i \in Int : bot' = bot \/ bot' = [bot EXCEPT ![Owner] = i]
        /\ tp' = tp \/ tp' = [tp EXCEPT ![Owner] = top]
        /\ arr' = arr \/ arr' = [arr EXCEPT ![Owner] = cur[0]]
    <3>1. CASE PushReadBottom(p) \/ PushReadTop(p) \/ PopReadBottom(p)
      BY <1>1, <1>2, <3>1 DEF PushReadBottom, PushReadTop, PopReadBottom, ReadTop, Step
    <3>2. CASE PushReadArray(p) \/ PushReload(p) \/ PopReadArray(p)
      BY <1>1, <1>2, <3>2 DEF PushReadArray, PushReload, PopReadArray, ReadArray, Step
    <3>3. QED
      BY <3>1, <3>2
  <2>2. /\ pc \in [Slots -> Pcs] /\ bot \in [Slots -> Int] /\ tp \in [Slots -> Nat]
        /\ arr \in [Slots -> Arrays \cup {NoArray}]
    BY DEF DequeShape, TypeOK, DisciplineInv
  <2>3. /\ bot' \in [Slots -> Int] /\ tp' \in [Slots -> Nat]
        /\ arr' \in [Slots -> Arrays \cup {NoArray}]
    BY <1>2, <2>1, <2>2
  <2>4. \A q \in Slots : q # Owner =>
            pc'[q] = pc[q] /\ bot'[q] = bot[q] /\ tp'[q] = tp[q] /\ arr'[q] = arr[q]
    BY <2>1, <2>2
  <2>5. QED
    BY <1>0, <2>3, <2>4 DEF OwnerMoves
<1>5. Window' = Window
  BY <1>0, <1>3 DEF Window, Undecided
<1>6. TypeOK' /\ Roles'
  BY <1>0, <1>3, <1>4, ZenonT(30)
  DEF DequeShape, TypeOK, Roles, OwnerMoves, Pushing, PushPcs, Popping, Lowered,
      Stealing, Empty
<1>7. ArraysInv'
  <2>1. \A q \in Slots : arr'[q] # NoArray => cap'[arr'[q]] > 0
    BY <1>0, <1>3, <1>4 DEF DequeShape, ArraysInv, OwnerMoves
  <2>2. \A q \in Slots : pc'[q] = "stealCell" => arr'[q] # NoArray
    BY <1>0, <1>3, <1>4 DEF DequeShape, ArraysInv, OwnerMoves
  <2>3. QED
    BY <1>0, <1>3, <2>1, <2>2 DEF DequeShape, TypeOK, ArraysInv, UsedStay
<1>8. OwnerIndices'
  BY <1>0, <1>2, <1>3
  DEF DequeShape, OwnerIndices, Full, Lowered, Pushing, PushPcs
<1>9. ThiefIndices'
  BY <1>0, <1>2, <1>3, <1>4, <1>5 DEF DequeShape, ThiefIndices, OwnerMoves
<1>10. ViewsInv'
  BY <1>0, <1>3, <1>4 DEF DequeShape, ViewsInv, OwnerMoves, At, Cell
<1>11. Quiet
  <2>1. Content' = Content
    BY <1>0, <1>5, SameContent
  <2>2. Got(Owner)' = Got(Owner)
    BY <1>0, <1>3 DEF Got
  <2>3. Taking' = Taking
    BY <1>4, <2>2, OwnerFrame
  <2>4. Pending' = Pending
    BY <1>0, <1>3 DEF Pending, Pushing, PushPcs
  <2>5. QED
    BY <1>0, <2>1, <2>3, <2>4 DEF Quiet
<1>12. QED
  BY <1>6, <1>7, <1>8, <1>9, <1>10, <1>11 DEF DequeShape

\* A pop lowers bottom: until it has read top, the position it lowered bottom
\* to is still in the deque.
LEMMA PopStoreShape ==
  ASSUME DequeShape, DisciplineInv, UsedStay, NEW p \in Slots, PopStoreBottom(p)
  PROVE  DequeShape' /\ Quiet
<1>0. UNCHANGED <<top, cap, buf, bot, tp, arr, item, outside, cur>>
  BY DEF PopStoreBottom, locals, ebrVars
<1>1. /\ p = Owner /\ pc[Owner] = "popStore" /\ pc'[Owner] = "popTop"
      /\ bottom' = bot[Owner] /\ OwnerMoves
  BY <1>0 DEF PopStoreBottom, Step, DequeShape, DisciplineInv, Roles, Popping, OwnerMoves
<1>2. /\ cur[0] \in Arrays /\ cap[cur[0]] \in Nat /\ bot[Owner] \in Int
      /\ tp[Owner] \in Nat /\ top \in Nat /\ bottom \in Int
  BY DequeFacts DEF DequeShape, TypeOK, DisciplineInv
<1>3. bot[Owner] = bottom - 1 /\ top <= bottom /\ bottom - top <= cap[cur[0]] - 1
  BY <1>1 DEF DequeShape, OwnerIndices, Lowered
<1>4. Window' = Window
  BY <1>0, <1>1, <1>2, <1>3 DEF Window, Undecided
<1>5. TypeOK' /\ Roles'
  BY <1>0, <1>1, <1>2
  DEF DequeShape, TypeOK, Roles, OwnerMoves, Pushing, PushPcs, Popping, Lowered,
      Stealing, Empty
<1>6. ArraysInv'
  BY <1>0, <1>1 DEF DequeShape, TypeOK, ArraysInv, UsedStay, OwnerMoves
<1>7. OwnerIndices'
  BY <1>0, <1>1, <1>2, <1>3 DEF OwnerIndices, Lowered, Pushing, PushPcs
<1>8. ThiefIndices' /\ ViewsInv'
  BY <1>0, <1>1, <1>4 DEF DequeShape, ThiefIndices, ViewsInv, OwnerMoves, At, Cell
<1>9. Quiet
  <2>1. Content' = Content
    BY <1>0, <1>4, SameContent
  <2>2. Got(Owner)' = Got(Owner)
    BY <1>0, <1>1 DEF Got
  <2>3. Taking' = Taking
    BY <1>1, <2>2, OwnerFrame
  <2>4. Pending' = Pending
    BY <1>0, <1>1 DEF Pending, Pushing, PushPcs
  <2>5. QED
    BY <1>0, <2>1, <2>3, <2>4 DEF Quiet
<1>10. QED
  BY <1>5, <1>6, <1>7, <1>8, <1>9 DEF DequeShape

\* The read of top decides a pop of a deque with more than one coroutine, and
\* one of an empty deque.
LEMMA PopTopShape ==
  ASSUME DequeShape, DisciplineInv, UsedStay, NEW p \in Slots, PopReadTop(p)
  PROVE  DequeShape' /\ Effect
<1>0. UNCHANGED <<top, bottom, cap, buf, bot, arr, item, outside, cur>>
  BY DEF PopReadTop, ReadTop, dqVars, ebrVars
<1>1. /\ p = Owner /\ pc[Owner] = "popTop" /\ tp'[Owner] = top
      /\ pc'[Owner] = IF top > bot[Owner] THEN "popRestore" ELSE "popCell"
  BY DEF PopReadTop, ReadTop, Step, DequeShape, DisciplineInv, TypeOK, Roles,
         Popping, Lowered
<1>2. OwnerMoves
  BY <1>0, <1>1 DEF PopReadTop, ReadTop, Step, DequeShape, DisciplineInv, TypeOK,
         OwnerMoves
<1>3. /\ cur[0] \in Arrays /\ cap[cur[0]] \in Nat /\ bot[Owner] \in Int
      /\ tp[Owner] \in Nat /\ top \in Nat /\ bottom \in Int
      /\ tp' \in [Slots -> Nat]
  BY DequeFacts DEF DequeShape, TypeOK, DisciplineInv, PopReadTop, ReadTop
<1>4. bot[Owner] = bottom /\ top <= bottom + 1 /\ bottom - top <= cap[cur[0]] - 1
      /\ arr[Owner] = cur[0] /\ item[Owner] = NoItem
  BY <1>1, DequeFacts
  DEF DequeShape, OwnerIndices, Lowered, ArraysInv, Roles, Popping, Empty
<1>5. TypeOK' /\ Roles'
  BY <1>0, <1>1, <1>2, <1>3
  DEF DequeShape, TypeOK, Roles, OwnerMoves, Pushing, PushPcs, Popping, Lowered,
      Stealing, Empty
<1>6. ArraysInv'
  BY <1>0, <1>1, <1>2 DEF DequeShape, TypeOK, ArraysInv, UsedStay, OwnerMoves
<1>7. OwnerIndices'
  BY <1>0, <1>1, <1>3, <1>4 DEF OwnerIndices, Lowered, Pushing, PushPcs
<1>8. ViewsInv'
  BY <1>0, <1>1, <1>2 DEF DequeShape, ViewsInv, OwnerMoves, At, Cell
<1>9. Window = top .. bottom
  BY <1>1 DEF Window, Undecided
<1>10. Pending' = Pending
  BY <1>1 DEF Pending, Pushing, PushPcs
<1>11. ASSUME Window' = Window \/ top < bottom PROVE ThiefIndices'
  <2>1. top \in Window => top \in Window'
    BY <1>0, <1>3, <1>11 DEF Window
  <2>2. QED
    BY <1>0, <1>1, <1>2, <1>3, <2>1 DEF DequeShape, ThiefIndices, OwnerMoves
<1>12. CASE ~(top < bottom)
  <2>1. Window' = Window
    BY <1>0, <1>1, <1>3, <1>4, <1>9, <1>12 DEF Window, Undecided
  <2>2. Content' = Content
    BY <1>0, <2>1, SameContent
  <2>3. Got(Owner) = NoItem /\ Got(Owner)' = NoItem
    BY <1>0, <1>1, <1>3, <1>4, <1>12 DEF Got
  <2>4. Taking' = Taking
    BY <1>2, <2>3, OwnerFrame
  <2>5. QED
    BY <1>0, <1>5, <1>6, <1>7, <1>8, <1>10, <1>11, <2>1, <2>2, <2>4
    DEF DequeShape, Effect, Quiet
<1>13. CASE top < bottom
  <2>1. Window' = Window \ {bottom} /\ bottom \in Window /\ bottom \in Nat
    BY <1>0, <1>1, <1>3, <1>4, <1>9, <1>13 DEF Window, Undecided
  <2>2. Content' = [i \in Window \ {bottom} |-> Content[i]]
    <3>1. Content' = [i \in Window \ {bottom} |-> At(cur[0], i)]
      BY <1>0, <2>1 DEF Content, At, Cell
    <3>2. QED
      BY <3>1 DEF Content
  <2>3. Got(Owner) = NoItem /\ Got(Owner)' = At(cur[0], bottom)
    BY <1>0, <1>1, <1>3, <1>4, <1>13 DEF Got, At, Cell
  <2>4. Taking' = [Taking EXCEPT ![Owner] = Content[bottom]] /\ Taking[Owner] = NoItem
    BY <1>2, <2>1, <2>3, OwnerFrame, DequeFacts DEF Taking, Content
  <2>5. Remove(Owner, bottom)
    BY <1>0, <1>10, <2>1, <2>2, <2>4 DEF Remove
  <2>6. Effect
    BY <2>1, <2>5, DequeFacts DEF Effect
  <2>7. QED
    BY <1>5, <1>6, <1>7, <1>8, <1>11, <1>13, <2>6 DEF DequeShape
<1>14. QED
  BY <1>12, <1>13

\* The read of the cell: the owner knows now what it took, or competes for the
\* last coroutine.
LEMMA PopCellShape ==
  ASSUME DequeShape, DisciplineInv, UsedStay, NEW p \in Slots, PopReadCell(p)
  PROVE  DequeShape' /\ Quiet
<1>0. UNCHANGED <<top, bottom, cap, buf, bot, tp, arr, outside, cur>>
  BY DEF PopReadCell, dqVars, ebrVars
<1>1. /\ p = Owner /\ pc[Owner] = "popCell"
      /\ pc'[Owner] = IF tp[Owner] = bot[Owner] THEN "popCas" ELSE "exit"
      /\ item'[Owner] = At(arr[Owner], bot[Owner])
  BY DEF PopReadCell, Step, DequeShape, DisciplineInv, TypeOK, Roles, Popping, Lowered
<1>2. OwnerMoves
  BY <1>0, <1>1 DEF PopReadCell, Step, DequeShape, DisciplineInv, TypeOK, OwnerMoves
<1>3. /\ cur[0] \in Arrays /\ cap[cur[0]] \in Nat /\ bot[Owner] \in Int
      /\ tp[Owner] \in Nat /\ top \in Nat /\ bottom \in Int
  BY DequeFacts DEF DequeShape, TypeOK, DisciplineInv
<1>4. /\ bot[Owner] = bottom /\ top <= bottom + 1 /\ bottom - top <= cap[cur[0]] - 1
      /\ arr[Owner] = cur[0] /\ tp[Owner] <= bot[Owner] /\ tp[Owner] <= top
      /\ tp[Owner] < bot[Owner] => top <= bot[Owner]
  BY <1>1, DequeFacts
  DEF DequeShape, OwnerIndices, ThiefIndices, Lowered, ArraysInv
<1>5. item' \in [Slots -> Items \cup {NoItem}]
  <2>1. cap[arr[Owner]] > 0 /\ bot[Owner] \in Nat
    BY <1>3, <1>4 DEF DequeShape, ArraysInv
  <2>2. At(arr[Owner], bot[Owner]) \in Items \cup {NoItem}
    BY <1>3, <1>4, <2>1, CellTyped DEF DequeShape
  <2>3. QED
    BY <1>1, <2>2 DEF PopReadCell, DequeShape, TypeOK
<1>6. TypeOK' /\ Roles'
  BY <1>0, <1>1, <1>2, <1>5
  DEF DequeShape, TypeOK, Roles, OwnerMoves, Pushing, PushPcs, Popping, Lowered,
      Stealing, Empty
<1>7. ArraysInv'
  BY <1>0, <1>1, <1>2 DEF DequeShape, TypeOK, ArraysInv, UsedStay, OwnerMoves
<1>8. OwnerIndices'
  BY <1>0, <1>1, <1>3, <1>4 DEF OwnerIndices, Lowered, Pushing, PushPcs
<1>9. Window' = Window
  BY <1>0, <1>1, <1>3, <1>4 DEF Window, Undecided
<1>10. ThiefIndices'
  BY <1>0, <1>1, <1>2, <1>9 DEF DequeShape, ThiefIndices, OwnerMoves
<1>11. ViewsInv'
  BY <1>0, <1>1, <1>2, <1>4 DEF DequeShape, ViewsInv, OwnerMoves, At, Cell
<1>12. Quiet
  <2>1. Content' = Content
    BY <1>0, <1>9, SameContent
  <2>2. Got(Owner)' = Got(Owner)
    BY <1>0, <1>1, <1>3, <1>4 DEF Got
  <2>3. Taking' = Taking
    BY <1>2, <2>2, OwnerFrame
  <2>4. Pending' = Pending
    BY <1>1 DEF Pending, Pushing, PushPcs
  <2>5. QED
    BY <1>0, <2>1, <2>3, <2>4 DEF Quiet
<1>13. QED
  BY <1>6, <1>7, <1>8, <1>10, <1>11, <1>12 DEF DequeShape

\* The compare_exchange for the last coroutine: the owner gets it unless a thief
\* moved top first.
LEMMA PopCasShape ==
  ASSUME DequeShape, DisciplineInv, UsedStay, NEW p \in Slots, PopCas(p)
  PROVE  DequeShape' /\ Effect
<1>0. UNCHANGED <<bottom, cap, buf, bot, tp, arr, outside, cur>>
  BY DEF PopCas, ebrVars
<1>1. p = Owner /\ pc[Owner] = "popCas" /\ pc'[Owner] = "popRestore"
  BY DEF PopCas, Step, DequeShape, DisciplineInv, TypeOK, Roles, Popping, Lowered
<1>2. OwnerMoves
  BY <1>0, <1>1 DEF PopCas, CasTop, Step, DequeShape, DisciplineInv, TypeOK, OwnerMoves
<1>3. /\ cur[0] \in Arrays /\ cap[cur[0]] \in Nat /\ bot[Owner] \in Int
      /\ tp[Owner] \in Nat /\ top \in Nat /\ bottom \in Int
      /\ item \in [Slots -> Items \cup {NoItem}]
  BY DequeFacts DEF DequeShape, TypeOK, DisciplineInv
<1>4. /\ bot[Owner] = bottom /\ top <= bottom + 1 /\ bottom - top <= cap[cur[0]] - 1
      /\ tp[Owner] = bottom /\ tp[Owner] <= top
  BY <1>1, DequeFacts DEF DequeShape, OwnerIndices, ThiefIndices, Lowered
<1>5. top' \in Nat /\ item' \in [Slots -> Items \cup {NoItem}]
  BY <1>3 DEF PopCas, CasTop
<1>6. TypeOK' /\ Roles'
  BY <1>0, <1>1, <1>2, <1>5
  DEF DequeShape, TypeOK, Roles, OwnerMoves, Pushing, PushPcs, Popping, Lowered,
      Stealing, Empty
<1>7. ArraysInv'
  BY <1>0, <1>1, <1>2 DEF DequeShape, TypeOK, ArraysInv, UsedStay, OwnerMoves
<1>8. top' = bottom + 1
  BY <1>1, <1>3, <1>4 DEF PopCas, CasTop
<1>9. OwnerIndices'
  BY <1>0, <1>1, <1>3, <1>4, <1>8 DEF OwnerIndices, Lowered, Pushing, PushPcs
<1>10. Window' = {} /\ Window = top .. bottom
  BY <1>0, <1>1, <1>3, <1>4, <1>8 DEF Window, Undecided
<1>11. Got(Owner) = NoItem /\ Got(Owner)' = item'[Owner]
  BY <1>1 DEF Got
<1>12. Pending' = Pending
  BY <1>1 DEF Pending, Pushing, PushPcs
<1>13. CASE top = tp[Owner]
  <2>1. item' = item /\ item[Owner] = At(cur[0], top)
    BY <1>1, <1>13, DequeFacts DEF PopCas, CasTop, DequeShape, ViewsInv
  <2>2. \A q \in Slots : tp'[q] < top'
    BY <1>0, <1>3, <1>4, <1>8, <1>13 DEF DequeShape, TypeOK, ThiefIndices
  <2>3. ThiefIndices'
    BY <1>0, <1>5, <2>2 DEF DequeShape, TypeOK, ThiefIndices
  <2>4. ViewsInv'
    BY <1>0, <1>1, <1>5, <2>2 DEF DequeShape, TypeOK, ViewsInv
  <2>5. Window = {top}
    BY <1>3, <1>4, <1>10, <1>13
  <2>6. Content' = [i \in Window \ {top} |-> Content[i]]
    BY <1>10, <2>5 DEF Content
  <2>7. Taking' = [Taking EXCEPT ![Owner] = Content[top]] /\ Taking[Owner] = NoItem
    BY <1>2, <1>11, <2>1, <2>5, OwnerFrame, DequeFacts DEF Taking, Content
  <2>8. Remove(Owner, top)
    BY <1>0, <1>12, <2>5, <2>6, <2>7 DEF Remove
  <2>9. Effect
    BY <1>3, <2>8, DequeFacts DEF Effect
  <2>10. QED
    BY <1>6, <1>7, <1>9, <2>3, <2>4, <2>9 DEF DequeShape
<1>14. CASE top # tp[Owner]
  <2>1. item'[Owner] = NoItem /\ top' = top
    BY <1>1, <1>3, <1>14, DequeFacts DEF PopCas, CasTop
  <2>2. Window = {} /\ Window' = Window
    BY <1>3, <1>4, <1>10, <1>14
  <2>3. ThiefIndices' /\ ViewsInv'
    BY <1>0, <1>1, <1>2, <2>1, <2>2
    DEF DequeShape, ThiefIndices, ViewsInv, OwnerMoves, At, Cell
  <2>4. Content' = Content
    BY <1>0, <2>2, SameContent
  <2>5. Taking' = Taking
    BY <1>2, <1>11, <2>1, OwnerFrame
  <2>6. QED
    BY <1>0, <1>6, <1>7, <1>9, <1>12, <2>3, <2>4, <2>5 DEF DequeShape, Effect, Quiet
<1>15. QED
  BY <1>13, <1>14

\* A pop that found the deque empty, or competed for its last coroutine, sets
\* bottom back: to top, which has passed it.
LEMMA PopRestoreShape ==
  ASSUME DequeShape, DisciplineInv, UsedStay, NEW p \in Slots, PopRestoreBottom(p)
  PROVE  DequeShape' /\ Quiet
<1>0. UNCHANGED <<top, cap, buf, bot, tp, arr, item, outside, cur>>
  BY DEF PopRestoreBottom, locals, ebrVars
<1>1. /\ p = Owner /\ pc[Owner] = "popRestore" /\ pc'[Owner] = "exit"
      /\ bottom' = bot[Owner] + 1 /\ OwnerMoves
  BY <1>0 DEF PopRestoreBottom, Step, DequeShape, DisciplineInv, Roles, Popping, Lowered,
              OwnerMoves
<1>2. /\ cur[0] \in Arrays /\ cap[cur[0]] \in Nat /\ bot[Owner] \in Int
      /\ tp[Owner] \in Nat /\ top \in Nat /\ bottom \in Int
  BY DequeFacts DEF DequeShape, TypeOK, DisciplineInv
<1>3. bot[Owner] = bottom /\ top = bottom + 1 /\ cap[cur[0]] > 0
  BY <1>1 DEF DequeShape, OwnerIndices, Lowered, ArraysInv
<1>4. Window' = Window
  BY <1>0, <1>1, <1>2, <1>3 DEF Window, Undecided
<1>5. TypeOK' /\ Roles'
  <2>1. TypeOK'
    BY <1>0, <1>1, <1>2 DEF DequeShape, TypeOK
  <2>2. Roles'
    BY <1>0, <1>1
    DEF DequeShape, Roles, OwnerMoves, Pushing, PushPcs, Popping, Lowered, Stealing,
        Empty
  <2>3. QED
    BY <2>1, <2>2
<1>6. ArraysInv'
  BY <1>0, <1>1 DEF DequeShape, TypeOK, ArraysInv, UsedStay, OwnerMoves
<1>7. OwnerIndices'
  BY <1>0, <1>1, <1>2, <1>3 DEF OwnerIndices, Lowered, Pushing, PushPcs
<1>8. ThiefIndices' /\ ViewsInv'
  BY <1>0, <1>1, <1>4 DEF DequeShape, ThiefIndices, ViewsInv, OwnerMoves, At, Cell
<1>9. Quiet
  <2>1. Content' = Content
    BY <1>0, <1>4, SameContent
  <2>2. Got(Owner)' = Got(Owner)
    BY <1>0, <1>1 DEF Got
  <2>3. Taking' = Taking
    BY <1>1, <2>2, OwnerFrame
  <2>4. Pending' = Pending
    BY <1>0, <1>1 DEF Pending, Pushing, PushPcs
  <2>5. QED
    BY <1>0, <2>1, <2>3, <2>4 DEF Quiet
<1>10. QED
  BY <1>5, <1>6, <1>7, <1>8, <1>9 DEF DequeShape

\* A push writes the cell of position bottom, which none of the deque's
\* positions shares: the array is not full.
LEMMA PushCellShape ==
  ASSUME DequeShape, DisciplineInv, UsedStay, NEW p \in Slots, PushWriteCell(p)
  PROVE  DequeShape' /\ Quiet
<1>0. UNCHANGED <<top, bottom, cap, bot, tp, arr, item, outside, cur>>
  BY DEF PushWriteCell, locals, ebrVars
<1>1. /\ p = Owner /\ pc[Owner] = "pushCell" /\ pc'[Owner] = "pushPublish"
      /\ OwnerMoves
  BY <1>0 DEF PushWriteCell, Step, DequeShape, DisciplineInv, Roles, Pushing, OwnerMoves
<1>2. /\ cur[0] \in Arrays /\ cap[cur[0]] \in Nat /\ bot[Owner] \in Int
      /\ tp[Owner] \in Nat /\ top \in Nat /\ bottom \in Int
  BY DequeFacts DEF DequeShape, TypeOK, DisciplineInv
<1>3. /\ bot[Owner] = bottom /\ bottom - tp[Owner] < cap[cur[0]] - 1
      /\ tp[Owner] <= top /\ top <= bottom /\ arr[Owner] = cur[0]
      /\ cap[cur[0]] > 0 /\ item[Owner] \in Items
  BY <1>1, DequeFacts
  DEF DequeShape, OwnerIndices, ThiefIndices, Lowered, Pushing, PushPcs, ArraysInv,
      Roles
<1>4. bottom \in Nat /\ Cell(cur[0], bottom) \in 0 .. cap[cur[0]] - 1
  BY <1>2, <1>3, CellTyped DEF DequeShape
<1>5. buf = [a \in Arrays |-> buf[a]]
      /\ \A a \in Arrays : buf[a] \in [0 .. cap[a] - 1 -> Items \cup {NoItem}]
  BY DEF DequeShape, ArraysInv, TypeOK
<1>6. /\ buf' = [a \in Arrays |-> buf'[a]]
      /\ buf'[cur[0]] = [buf[cur[0]] EXCEPT ![Cell(cur[0], bottom)] = item[Owner]]
      /\ \A a \in Arrays : a # cur[0] => buf'[a] = buf[a]
  BY <1>1, <1>2, <1>3, <1>5 DEF PushWriteCell
<1>7. Window = top .. bottom - 1 /\ Window' = Window
  BY <1>0, <1>1 DEF Window, Undecided
<1>8. \A i \in Window : Cell(cur[0], i) # Cell(cur[0], bottom)
                         /\ Cell(cur[0], i) \in 0 .. cap[cur[0]] - 1
  <2>1. TAKE i \in Window
  <2>2. i \in Nat /\ i < bottom /\ bottom < i + cap[cur[0]] /\ cap[cur[0]] \in Nat \ {0}
    BY <1>2, <1>3, <1>7
  <2>3. i % cap[cur[0]] # bottom % cap[cur[0]]
    BY <1>4, <2>2, CellsApart
  <2>4. QED
    BY <1>2, <1>3, <2>2, <2>3, CellTyped DEF Cell, DequeShape
<1>9. \A i \in Window : At(cur[0], i)' = At(cur[0], i)
  BY <1>0, <1>4, <1>5, <1>6, <1>8 DEF At, Cell
<1>10. At(cur[0], bottom)' = item[Owner]
  BY <1>0, <1>2, <1>4, <1>5, <1>6 DEF At, Cell
<1>11. \A a \in Arrays, i \in Nat : a # cur[0] => At(a, i)' = At(a, i)
  BY <1>0, <1>6 DEF At, Cell
<1>12. TypeOK' /\ Roles'
  <2>1. \A a \in Arrays : buf'[a] \in [0 .. cap'[a] - 1 -> Items \cup {NoItem}]
    <3>1. TAKE a \in Arrays
    <3>2. CASE a = cur[0]
      <4>1. [buf[cur[0]] EXCEPT ![Cell(cur[0], bottom)] = item[Owner]]
              \in [0 .. cap[cur[0]] - 1 -> Items \cup {NoItem}]
        BY <1>2, <1>3, <1>4, <1>5
      <4>2. QED
        BY <1>0, <1>6, <3>2, <4>1
    <3>3. CASE a # cur[0]
      BY <1>0, <1>5, <1>6, <3>3
    <3>4. QED
      BY <3>2, <3>3
  <2>2. QED
    BY <1>0, <1>1, <2>1
    DEF DequeShape, TypeOK, Roles, OwnerMoves, Pushing, PushPcs, Popping, Lowered,
        Stealing, Empty
<1>13. ArraysInv'
  BY <1>0, <1>1, <1>3, <1>6, ZenonT(30)
  DEF DequeShape, TypeOK, ArraysInv, UsedStay, OwnerMoves
<1>14. OwnerIndices'
  BY <1>0, <1>1, <1>3 DEF DequeShape, OwnerIndices, Lowered, Pushing, PushPcs
<1>15. ThiefIndices'
  BY <1>0, <1>1, <1>7 DEF DequeShape, ThiefIndices, OwnerMoves
<1>16. ViewsInv'
  <2>1. ASSUME NEW q \in Slots, tp'[q] = top',
               pc'[q] \in {"stealCell", "stealCas", "popCas"}
        PROVE  /\ q # Owner /\ top \in Window /\ tp[q] = top /\ pc[q] = pc'[q]
               /\ pc[q] = "stealCell" => arr[q] \in Arrays
    BY <1>0, <1>1, <2>1
    DEF OwnerMoves, DequeShape, TypeOK, ThiefIndices, Roles, Popping, Lowered, ArraysInv
  <2>2. ASSUME NEW q \in Slots, tp'[q] = top', pc'[q] = "stealCell"
        PROVE  At(arr[q], tp[q])' = At(cur[0], top)'
    <3>1. At(arr[q], top) = At(cur[0], top) /\ arr[q] \in Arrays /\ top \in Window
      BY <2>1, <2>2 DEF DequeShape, ViewsInv
    <3>2. At(arr[q], top)' = At(arr[q], top)
      BY <1>0, <1>2, <1>9, <1>11, <3>1 DEF At, Cell
    <3>3. QED
      BY <1>0, <1>9, <2>1, <2>2, <3>1, <3>2 DEF At, Cell
  <2>3. ASSUME NEW q \in Slots, tp'[q] = top', pc'[q] \in {"stealCas", "popCas"}
        PROVE  item'[q] = At(cur[0], top)'
    <3>1. item[q] = At(cur[0], top) /\ top \in Window
      BY <2>1, <2>3 DEF DequeShape, ViewsInv
    <3>2. QED
      BY <1>0, <1>9, <3>1 DEF At, Cell
  <2>4. At(cur[0], bot[Owner])' = item'[Owner]
    BY <1>0, <1>3, <1>10 DEF At, Cell
  <2>5. QED
    BY <2>2, <2>3, <2>4 DEF ViewsInv
<1>17. Quiet
  <2>1. Content' = Content
    <3>1. Content' = [i \in Window |-> At(cur[0], i)']
      BY <1>0, <1>7 DEF Content, At, Cell
    <3>2. QED
      BY <1>9, <3>1 DEF Content
  <2>2. Got(Owner)' = Got(Owner)
    BY <1>1 DEF Got
  <2>3. Taking' = Taking
    BY <1>1, <2>2, OwnerFrame
  <2>4. Pending' = Pending
    BY <1>0, <1>1 DEF Pending, Pushing, PushPcs
  <2>5. QED
    BY <1>0, <2>1, <2>3, <2>4 DEF Quiet
<1>18. QED
  BY <1>12, <1>13, <1>14, <1>15, <1>16, <1>17 DEF DequeShape

\* The store of bottom puts the coroutine into the deque.
LEMMA PushPublishShape ==
  ASSUME DequeShape, DisciplineInv, UsedStay, NEW p \in Slots, PushPublish(p)
  PROVE  DequeShape' /\ Effect
<1>0. UNCHANGED <<top, cap, buf, bot, tp, arr, outside, cur>>
  BY DEF PushPublish, ebrVars
<1>1. /\ p = Owner /\ pc[Owner] = "pushPublish" /\ pc'[Owner] = "exit"
      /\ bottom' = bot[Owner] + 1 /\ item'[Owner] = NoItem
  BY DEF PushPublish, Step, DequeShape, DisciplineInv, TypeOK, Roles, Pushing
<1>2. OwnerMoves
  BY <1>0, <1>1 DEF PushPublish, Step, DequeShape, DisciplineInv, TypeOK, OwnerMoves
<1>3. /\ cur[0] \in Arrays /\ cap[cur[0]] \in Nat /\ bot[Owner] \in Int
      /\ tp[Owner] \in Nat /\ top \in Nat /\ bottom \in Int
      /\ item' \in [Slots -> Items \cup {NoItem}]
  BY DequeFacts DEF DequeShape, TypeOK, DisciplineInv, PushPublish
<1>4. /\ bot[Owner] = bottom /\ bottom - tp[Owner] < cap[cur[0]] - 1
      /\ tp[Owner] <= top /\ top <= bottom /\ arr[Owner] = cur[0]
      /\ item[Owner] \in Items /\ At(cur[0], bottom) = item[Owner]
  BY <1>1, DequeFacts
  DEF DequeShape, OwnerIndices, ThiefIndices, Lowered, Pushing, PushPcs, ArraysInv,
      Roles, ViewsInv
<1>5. TypeOK' /\ Roles'
  <2>1. TypeOK'
    BY <1>0, <1>1, <1>3 DEF DequeShape, TypeOK
  <2>2. Roles'
    BY <1>0, <1>1, <1>2
    DEF DequeShape, Roles, OwnerMoves, Pushing, PushPcs, Popping, Lowered, Stealing,
        Empty
  <2>3. QED
    BY <2>1, <2>2
<1>6. ArraysInv'
  BY <1>0, <1>1, <1>2 DEF DequeShape, TypeOK, ArraysInv, UsedStay, OwnerMoves
<1>7. OwnerIndices'
  BY <1>0, <1>1, <1>3, <1>4 DEF OwnerIndices, Lowered, Pushing, PushPcs
<1>8. Window = top .. bottom - 1 /\ Window' = top .. bottom
  BY <1>0, <1>1, <1>3, <1>4 DEF Window, Undecided
<1>9. bottom \in Nat /\ bottom \notin Window /\ Window' = Window \cup {bottom}
  BY <1>3, <1>4, <1>8
<1>10. ThiefIndices' /\ ViewsInv'
  BY <1>0, <1>1, <1>2, <1>9
  DEF DequeShape, ThiefIndices, ViewsInv, OwnerMoves, At, Cell
<1>11. Insert(bottom)
  <2>1. Pending = item[Owner] /\ Pending' = NoItem
    BY <1>1 DEF Pending, Pushing, PushPcs
  <2>2. Content' = [i \in Window \cup {bottom} |-> At(cur[0], i)]
    BY <1>0, <1>9 DEF Content, At, Cell
  <2>3. Content' = [i \in Window \cup {bottom} |->
                      IF i = bottom THEN Pending ELSE Content[i]]
    BY <1>4, <1>9, <2>1, <2>2 DEF Content
  <2>4. Got(Owner)' = Got(Owner)
    BY <1>1 DEF Got
  <2>5. Taking' = Taking
    BY <1>2, <2>4, OwnerFrame
  <2>6. QED
    BY <1>0, <1>4, <1>9, <2>1, <2>3, <2>5 DEF Insert
<1>12. Effect
  BY <1>9, <1>11 DEF Effect
<1>13. QED
  BY <1>5, <1>6, <1>7, <1>10, <1>12 DEF DequeShape

\* deque_grow: the new array has room for one more, and the deque's positions
\* keep their coroutines.
LEMMA PushGrowShape ==
  ASSUME DequeShape, DisciplineInv, UsedStay, NEW p \in Slots, PushGrow(p)
  PROVE  DequeShape' /\ Quiet
<1> DEFINE old == arr[p]
           newCap == 2 * cap[old]
           Copied(c) == {i \in tp[p] .. bot[p] - 1 : i % newCap = c}
           Copy == [c \in 0 .. newCap - 1 |->
                      IF Copied(c) = {} THEN NoItem
                      ELSE At(old, CHOOSE i \in Copied(c) : TRUE)]
<1>0. UNCHANGED <<top, bottom, bot, tp, arr, item, outside>>
  BY DEF PushGrow, locals
<1>1. /\ p = Owner /\ pc[Owner] = "pushGrow" /\ pc'[Owner] = "pushReload"
      /\ OwnerMoves /\ cur[0] = old
  BY <1>0 DEF PushGrow, Step, DequeShape, DisciplineInv, Roles, Pushing, PushPcs,
              OwnerMoves, ArraysInv
<1>2. /\ old \in Arrays /\ cap[old] \in Nat /\ bot[Owner] \in Int
      /\ tp[Owner] \in Nat /\ top \in Nat /\ bottom \in Int
      /\ cap \in [Arrays -> Nat] /\ cap[old] > 0
  BY <1>1, DequeFacts DEF DequeShape, TypeOK, DisciplineInv, ArraysInv
<1>3. /\ bot[Owner] = bottom /\ bottom - tp[Owner] <= cap[old] - 1
      /\ tp[Owner] <= top /\ top <= bottom
  BY <1>1, DequeFacts
  DEF DequeShape, OwnerIndices, ThiefIndices, Lowered, Pushing, PushPcs
<1>4. PICK fresh \in Arrays \ Used :
        /\ Publish(p, 0, old, fresh)
        /\ cap' = [cap EXCEPT ![fresh] = newCap]
        /\ buf' = [buf EXCEPT ![fresh] = Copy]
  BY DEF PushGrow
<1> HIDE DEF Copy
<1>5. cap[fresh] = 0 /\ fresh # old
  BY <1>2, <1>4 DEF DequeShape, ArraysInv
<1>6. cur'[0] = fresh
  BY <1>4, DequeFacts DEF Publish, DisciplineInv
<1>7. /\ cap'[fresh] = newCap /\ \A a \in Arrays : a # fresh => cap'[a] = cap[a]
      /\ cap' \in [Arrays -> Nat]
  BY <1>2, <1>4
<1>8. buf = [a \in Arrays |-> buf[a]]
      /\ \A a \in Arrays : buf[a] \in [0 .. cap[a] - 1 -> Items \cup {NoItem}]
  BY DEF DequeShape, ArraysInv, TypeOK
<1>9. /\ buf' = [a \in Arrays |-> buf'[a]]
      /\ buf'[fresh] = Copy /\ \A a \in Arrays : a # fresh => buf'[a] = buf[a]
  BY <1>4, <1>8
<1>10. Copy \in [0 .. newCap - 1 -> Items \cup {NoItem}]
  <2>1. ASSUME NEW c \in 0 .. newCap - 1, Copied(c) # {}
        PROVE  At(old, CHOOSE i \in Copied(c) : TRUE) \in Items \cup {NoItem}
    <3>1. (CHOOSE i \in Copied(c) : TRUE) \in Copied(c)
      BY <2>1
    <3>2. (CHOOSE i \in Copied(c) : TRUE) \in Nat
      BY <1>1, <1>2, <3>1
    <3>3. QED
      BY <1>2, <3>2, CellTyped DEF DequeShape
  <2>2. QED
    BY <2>1 DEF Copy
<1>11. Window = top .. bottom - 1 /\ Window' = Window
  BY <1>0, <1>1 DEF Window, Undecided
<1>12. \A i \in Window : Copy[i % newCap] = At(old, i)
  <2>1. TAKE i \in Window
  <2>2. i \in Nat /\ tp[p] <= i /\ i <= bot[p] - 1 /\ newCap \in Nat \ {0}
    BY <1>1, <1>2, <1>3, <1>11
  <2>3. i \in Copied(i % newCap) /\ i % newCap \in 0 .. newCap - 1
    BY <1>1, <1>2, <2>2
  <2>4. ASSUME NEW j \in Copied(i % newCap) PROVE j = i
    <3>1. j \in Nat /\ j % newCap = i % newCap /\ tp[p] <= j /\ j <= bot[p] - 1
      BY <1>1, <1>2
    <3>2. j < i + newCap /\ i < j + newCap
      BY <1>1, <1>2, <1>3, <2>2, <3>1
    <3>3. ~(j < i) /\ ~(i < j)
      <4> HIDE DEF newCap
      <4>1. QED
        BY <2>2, <3>1, <3>2, CellsApart
    <3>4. QED
      BY <2>2, <3>1, <3>3
  <2>5. (CHOOSE j \in Copied(i % newCap) : TRUE) = i
    BY <2>3, <2>4
  <2>6. QED
    BY <2>3, <2>5 DEF Copy
<1>13. \A i \in Window : At(cur[0], i)' = At(cur[0], i)
  <2>1. \A i \in Window : buf'[cur'[0]][i % cap'[cur'[0]]] = At(old, i)
    BY <1>6, <1>7, <1>9, <1>12
  <2>2. QED
    BY <1>1, <2>1 DEF At, Cell
<1>14. \A a \in Arrays, i \in Nat : a # fresh => At(a, i)' = At(a, i)
  BY <1>7, <1>9 DEF At, Cell
<1>15. \A q \in Slots : arr[q] # fresh
  BY <1>4, <1>5, NoArrayAssumption DEF DequeShape, ArraysInv
<1>16. TypeOK'
  BY <1>0, <1>2, <1>7, <1>8, <1>9, <1>10 DEF DequeShape, TypeOK
<1>17. Roles'
  BY <1>0, <1>1
  DEF DequeShape, Roles, OwnerMoves, Pushing, PushPcs, Popping, Lowered, Stealing,
      Empty
<1>18. ArraysInv'
  <2>1. fresh \in Used'
    BY <1>6, DequeFacts DEF Used
  <2>2. \A a \in Arrays : cap'[a] > 0 => a \in Used'
    BY <1>7, <2>1 DEF DequeShape, ArraysInv, UsedStay
  <2>3. cap'[cur'[0]] > 0
    BY <1>2, <1>6, <1>7
  <2>4. \A q \in Slots : arr'[q] # NoArray => cap'[arr'[q]] > 0
    BY <1>0, <1>7, <1>15 DEF DequeShape, ArraysInv, TypeOK
  <2>5. \A q \in Slots : pc'[q] = "stealCell" => arr'[q] # NoArray
    BY <1>0, <1>1 DEF DequeShape, ArraysInv, OwnerMoves
  <2>6. QED
    BY <1>1, <1>9, <2>2, <2>3, <2>4, <2>5 DEF ArraysInv
<1>19. OwnerIndices'
  <2>1. bottom - tp[Owner] < newCap - 1 /\ bottom - top <= newCap - 1
    BY <1>2, <1>3
  <2>2. cap'[cur'[0]] = newCap
    BY <1>6, <1>7
  <2>3. cap'[cur'[0]] \in Nat
    BY <1>2, <2>2
  <2> HIDE DEF newCap
  <2>4. QED
    BY <1>0, <1>1, <1>2, <1>3, <2>1, <2>2, <2>3
    DEF OwnerIndices, Lowered, Pushing, PushPcs
<1>20. ThiefIndices'
  BY <1>0, <1>1, <1>11 DEF DequeShape, ThiefIndices, OwnerMoves
<1>21. ViewsInv'
  <2>1. ASSUME NEW q \in Slots, tp'[q] = top',
               pc'[q] \in {"stealCell", "stealCas", "popCas"}
        PROVE  /\ q # Owner /\ top \in Window /\ tp[q] = top /\ pc[q] = pc'[q]
               /\ pc[q] = "stealCell" => arr[q] \in Arrays
    BY <1>0, <1>1, <2>1
    DEF OwnerMoves, DequeShape, TypeOK, ThiefIndices, Roles, Popping, Lowered, ArraysInv
  <2>2. ASSUME NEW q \in Slots, tp'[q] = top', pc'[q] = "stealCell"
        PROVE  At(arr[q], tp[q])' = At(cur[0], top)'
    <3>1. At(arr[q], top) = At(cur[0], top) /\ arr[q] \in Arrays /\ top \in Window
      BY <2>1, <2>2 DEF DequeShape, ViewsInv
    <3>2. At(arr[q], top)' = At(arr[q], top)
      BY <1>0, <1>2, <1>14, <1>15, <3>1 DEF At, Cell
    <3>3. QED
      BY <1>0, <1>13, <2>1, <2>2, <3>1, <3>2 DEF At, Cell
  <2>3. ASSUME NEW q \in Slots, tp'[q] = top', pc'[q] \in {"stealCas", "popCas"}
        PROVE  item'[q] = At(cur[0], top)'
    <3>1. item[q] = At(cur[0], top) /\ top \in Window
      BY <2>1, <2>3 DEF DequeShape, ViewsInv
    <3>2. QED
      BY <1>0, <1>13, <3>1 DEF At, Cell
  <2>4. QED
    BY <1>1, <2>2, <2>3 DEF ViewsInv
<1>22. Quiet
  <2>1. Content' = Content
    <3>1. Content' = [i \in Window |-> At(cur[0], i)']
      BY <1>11 DEF Content, At, Cell
    <3>2. QED
      BY <1>13, <3>1 DEF Content
  <2>2. Got(Owner)' = Got(Owner)
    BY <1>1 DEF Got
  <2>3. Taking' = Taking
    BY <1>1, <2>2, OwnerFrame
  <2>4. Pending' = Pending
    BY <1>0, <1>1 DEF Pending, Pushing, PushPcs
  <2>5. QED
    BY <1>0, <2>1, <2>3, <2>4 DEF Quiet
<1>23. QED
  BY <1>16, <1>17, <1>18, <1>19, <1>20, <1>21, <1>22 DEF DequeShape
--------------------------------------------------------------------------------
(* The deque as a whole. *)

\* The state deque_init leaves.
LEMMA DequeInvInit == Init => DequeInv /\ Abstract!PoolInit
<1> SUFFICES ASSUME Init PROVE DequeInv /\ Abstract!PoolInit
  OBVIOUS
<1>1. EbrInv /\ DisciplineInv
  BY DequeInit, InitInv
<1>2. cur[0] = InitArray[0] /\ cur[0] \in Arrays /\ cur[0] \in Used
  BY DequeFacts, InitArrayAssumption DEF Init, EbrInit, Used
<1>3. cap \in [Arrays -> Nat] /\ cap[cur[0]] = InitCap
      /\ \A a \in Arrays : cap[a] > 0 => a = cur[0]
  BY <1>2, CapAssumption DEF Init
<1>4. TypeOK
  BY <1>3 DEF Init, TypeOK
<1>5. Roles
  BY DEF Init, Roles, Pushing, PushPcs, Popping, Lowered, Stealing, Empty
<1>6. ArraysInv
  BY <1>2, <1>3, CapAssumption, DequeFacts DEF Init, ArraysInv
<1>7. OwnerIndices
  BY <1>3, CapAssumption, DequeFacts
  DEF Init, OwnerIndices, Lowered, Pushing, PushPcs
<1>8. ThiefIndices /\ ViewsInv
  BY DequeFacts DEF Init, ThiefIndices, ViewsInv
<1>9. Window = {}
  BY DequeFacts DEF Init, Window, Undecided
<1>10. Pool = {} /\ [p \in Slots |-> Got(p)] = [p \in Slots |-> NoItem]
  BY <1>9 DEF Init, Pool, Got
<1>11. Owned
  <2>1. DOMAIN Content = {} /\ Taking = [p \in Slots |-> NoItem] /\ Pending = NoItem
    BY <1>9, <1>10, DequeFacts DEF Init, Content, Taking, Pending, Pushing, PushPcs
  <2>2. QED
    BY <2>1 DEF Owned, Apart
<1>12. NoneLost
  BY DEF Init, NoneLost, Accounted
<1>13. QED
  BY <1>1, <1>12, <1>4, <1>5, <1>6, <1>7, <1>8, <1>10, <1>11
  DEF DequeInv, DequeShape, Abstract!PoolInit

\* Every access keeps the deque's shape and does one of the things above to the
\* coroutines.
LEMMA DequeEffect ==
  ASSUME Pushers = {Owner}, DequeInv, [Next]_vars
  PROVE  DequeShape' /\ Effect
<1>1. DequeShape /\ DisciplineInv /\ UsedStay
  BY DequeStep, UsedGrows DEF DequeInv
<1>2. ASSUME NEW p \in Slots, Push(p) PROVE DequeShape' /\ Effect
  <2>1. CASE PushBegin(p)
    BY <1>1, <2>1, PushBeginShape DEF Effect
  <2>2. CASE \/ PushReadBottom(p) \/ PushReadTop(p) \/ PushReadArray(p) \/ PushReload(p)
             \/ PushGrow(p) \/ PushWriteCell(p)
    BY <1>1, <2>2, OwnerReadShape, PushGrowShape, PushCellShape DEF Effect
  <2>3. CASE PushPublish(p)
    BY <1>1, <2>3, PushPublishShape
  <2>4. QED
    BY <1>2, <2>1, <2>2, <2>3 DEF Push
<1>3. ASSUME NEW p \in Slots, Pop(p) PROVE DequeShape' /\ Effect
  <2>1. CASE \/ PopBegin(p) \/ PopReadBottom(p) \/ PopReadArray(p) \/ PopStoreBottom(p)
             \/ PopReadCell(p) \/ PopRestoreBottom(p)
    BY <1>1, <2>1, BeginShape, OwnerReadShape, PopStoreShape, PopCellShape,
       PopRestoreShape
    DEF Effect
  <2>2. CASE PopReadTop(p) \/ PopCas(p)
    BY <1>1, <2>2, PopTopShape, PopCasShape
  <2>3. QED
    BY <1>3, <2>1, <2>2 DEF Pop
<1>4. ASSUME NEW p \in Slots, Steal(p) PROVE DequeShape' /\ Effect
  BY <1>1, <1>4, BeginShape, StealIndexShape, StealArrayShape, StealCellShape,
     StealCasShape
  DEF Steal, Effect
<1>5. ASSUME NEW p \in Slots, Protect(p) \/ End(p) PROVE DequeShape' /\ Effect
  BY <1>1, <1>5, ProtectShape, EndShape DEF Effect
<1>6. CASE UNCHANGED vars
  <2>1. UNCHANGED <<top, bottom, cap, buf, bot, tp, arr, item, pc, outside, cur>>
    BY <1>6 DEF vars, ebrVars, dqVars, locals
  <2>2. Used' = Used
    BY <1>6 DEF vars, ebrVars, Used, Retired
  <2>3. Window' = Window
    BY <2>1 DEF Window, Undecided
  <2>4. DequeShape'
    BY <1>1, <2>1, <2>2, <2>3, ZenonT(30)
    DEF DequeShape, TypeOK, Roles, ArraysInv, OwnerIndices, ThiefIndices, ViewsInv, At,
        Cell
  <2>5. Quiet
    BY <2>1, <2>3, SameContent DEF Quiet, Taking, Pending, Got, At, Cell
  <2>6. QED
    BY <2>4, <2>5 DEF Effect
<1>7. QED
  BY <1>2, <1>3, <1>4, <1>5, <1>6 DEF Next

\* So the invariant is inductive, and every access is a step of the pool or none.
LEMMA DequeInvStep ==
  ASSUME Pushers = {Owner}
  PROVE  DequeInv /\ [Next]_vars =>
           DequeInv' /\ [Abstract!PoolNext]_(Abstract!poolVars)
<1> SUFFICES ASSUME DequeInv, [Next]_vars
             PROVE  DequeInv' /\ [Abstract!PoolNext]_(Abstract!poolVars)
  OBVIOUS
<1>1. [EbrNext]_ebrVars /\ DisciplineInv'
  BY DequeStep DEF DequeInv
<1>2. EbrInv'
  BY <1>1, StepInv DEF DequeInv
<1>3. DequeShape' /\ Effect
  BY DequeEffect
<1>4. Owned' /\ NoneLost' /\ [Abstract!PoolNext]_(Abstract!poolVars)
  BY <1>3, EffectOwned, EffectNoneLost, EffectPool DEF DequeInv, DequeShape, TypeOK
<1>5. QED
  BY <1>1, <1>2, <1>3, <1>4 DEF DequeInv

\* The deque is a pool of coroutines under every interleaving of its owner's
\* pushes and pops with any number of thieves' steals and any growth: deque_push
\* loses and overwrites no coroutine, deque_pop and deque_steal hand none to two
\* threads.
THEOREM DequeIsTaskPool ==
  ASSUME Pushers = {Owner}
  PROVE  Spec => IsTaskPool
<1>1. Init => DequeInv /\ Abstract!PoolInit
  BY DequeInvInit
<1>2. DequeInv /\ [Next]_vars => DequeInv' /\ [Abstract!PoolNext]_(Abstract!poolVars)
  BY DequeInvStep
<1>3. QED
  BY <1>1, <1>2, PTL DEF Spec, IsTaskPool, Abstract!PoolSpec

\* Indices, locals and cells keep their types: no operation of the deque indexes
\* an array outside its cells.
THEOREM DequeTyped ==
  ASSUME Pushers = {Owner}
  PROVE  Spec => []TypeOK
<1>1. Init => DequeInv
  BY DequeInvInit
<1>2. DequeInv /\ [Next]_vars => DequeInv'
  BY DequeInvStep
<1>3. DequeInv => TypeOK
  BY DEF DequeInv, DequeShape
<1>4. QED
  BY <1>1, <1>2, <1>3, PTL DEF Spec

\* With one pusher, what sched_enqueue_wake's comment promises is true: between
\* the operations, a coroutine no caller holds is between top and bottom.
THEOREM OnePusherIsSeen ==
  ASSUME Pushers = {Owner}
  PROVE  Spec => []PushedIsSeen
<1>1. Init => DequeInv
  BY DequeInvInit
<1>2. DequeInv /\ [Next]_vars => DequeInv'
  BY DequeInvStep
<1>3. DequeInv => PushedIsSeen
  <2> SUFFICES ASSUME DequeInv, \A p \in Slots : pc[p] = "idle",
                      NEW i \in Items \ outside
               PROVE  i \in Pool
    BY DEF PushedIsSeen
  <2>1. Pending = NoItem /\ \A p \in Slots : Taking[p] = NoItem
    BY DequeFacts DEF Pending, Pushing, PushPcs, Taking, Got
  <2>2. PICK k \in DOMAIN Content : Content[k] = i
    BY <2>1, DequeFacts DEF DequeInv, NoneLost, Accounted
  <2>3. QED
    BY <2>2 DEF Content, Pool
<1>4. QED
  BY <1>1, <1>2, <1>3, PTL DEF Spec
================================================================================
