------------------------------- MODULE EBRProofs -------------------------------
(***************************************************************************)
(* For any number of workers, deques and arrays and any threshold: the     *)
(* type invariant of EBR, its grace period (NoUseAfterFree), that an array *)
(* is retired once (RetiredOnce) and that shutdown leaves none retired     *)
(* (NothingLeaks).                                                         *)
(***************************************************************************)
EXTENDS EBR, TLAPS

ScanPhases == {"minActive", "minAnnounced", "reclaim"}

\* A thread is active exactly while it may hold pointers.  Worker 0 in
\* ebr_force_reclaim_all, after active_coros reached 0, is not.
ActiveInside ==
    \A p \in Slots :
        /\ phase[p] \in {"out", "announce", "activate"} => ~active[p]
        /\ phase[p] = "in" => active[p]
        /\ phase[p] \in RetirePhases => (active[p] <=> mode = "running")
        /\ phase[p] = "retire" => mode = "running"
        /\ ~active[p] => held[p] = {}

\* No slot announces, and no scan remembers, an epoch from the future.
EpochsBehind == \A p \in Slots : announced[p] <= epoch /\ reg[p] <= epoch

\* The array between deque_grow's store and its retired node belongs to its
\* grower alone.
LimboOwned ==
    \A p \in Slots :
        /\ phase[p] = "retire" <=> limbo[p] # NoArray
        /\ limbo[p] # NoArray =>
            /\ limbo[p] \notin freed
            /\ \A d \in Deques : cur[d] # limbo[p]
            /\ \A q \in Slots : \A n \in retired[q] : n.array # limbo[p]
            /\ \A q \in Slots : limbo[q] = limbo[p] => q = p

CurInjective == \A d, e \in Deques : cur[d] = cur[e] => d = e

\* Who still holds a retired array announced itself before it was retired.
HolderAnnounced ==
    \A p, q \in Slots : \A n \in retired[q] :
        n.array \in held[p] => announced[p] <= n.epoch

\* What a scan has established so far: the slots before idx hold nothing that
\* was retired before the minimum found.
ScanSafe ==
    \A p \in Slots : phase[p] \in ScanPhases =>
        /\ phase[p] = "reclaim" => idx[p] = NumWorkers + 1
        /\ phase[p] # "reclaim" => idx[p] \in Slots
        /\ \A q, r \in Slots : \A n \in retired[r] :
            q < idx[p] /\ n.epoch < reg[p] => n.array \notin held[q]

EbrInv ==
    /\ EbrTypeOK
    /\ ActiveInside
    /\ EpochsBehind
    /\ LimboOwned
    /\ CurInjective
    /\ RetiredOnce
    /\ HolderAnnounced
    /\ ScanSafe
    /\ NoUseAfterFree

\* The slots are the integers up to the external one; a scan walks them all.
LEMMA SlotsFacts ==
    /\ 0 \in Slots /\ External \in Slots
    /\ \A q \in Slots : /\ q \in Nat /\ q < External + 1
                        /\ q + 1 \in 0 .. NumWorkers + 1
                        /\ q # External => q + 1 \in Slots
                        /\ \A r \in Slots : r < q + 1 => r < q \/ r = q
    /\ External + 1 = NumWorkers + 1
    /\ 0 \in 0 .. NumWorkers + 1
    /\ NumWorkers + 1 \in 0 .. NumWorkers + 1
  BY NumWorkersAssumption DEF Slots, External

\* Reading the epoch changes nothing anyone relies on.
LEMMA EnterReadEpochInv ==
    ASSUME EbrInv, NEW p \in Slots, EnterReadEpoch(p)
    PROVE EbrInv'
<1>1. EbrTypeOK'
  BY DEF EbrInv, EnterReadEpoch, Goto, MayEnter, EbrTypeOK, Phases,
    RetirePhases, Node
<1>2. ActiveInside'
  BY DEF EbrInv, EnterReadEpoch, Goto, MayEnter, EbrTypeOK, ActiveInside,
    RetirePhases
<1>3. EpochsBehind'
  BY DEF EbrInv, EnterReadEpoch, Goto, MayEnter, EbrTypeOK, EpochsBehind
<1>4. LimboOwned'
  BY DEF EbrInv, EnterReadEpoch, Goto, MayEnter, EbrTypeOK, LimboOwned,
    RetirePhases
<1>5. ScanSafe'
  BY DEF EbrInv, EnterReadEpoch, Goto, MayEnter, EbrTypeOK, ScanSafe,
    EpochsBehind, ScanPhases, Node
<1>6. CurInjective' /\ RetiredOnce' /\ HolderAnnounced' /\ NoUseAfterFree'
  BY DEF EbrInv, EnterReadEpoch, Goto, MayEnter, CurInjective, RetiredOnce,
    HolderAnnounced, NoUseAfterFree
<1>7. QED
  BY <1>1, <1>2, <1>3, <1>4, <1>5, <1>6 DEF EbrInv

\* The announced epoch may be old, but p holds nothing yet.
LEMMA EnterAnnounceInv ==
    ASSUME EbrInv, NEW p \in Slots, EnterAnnounce(p)
    PROVE EbrInv'
<1>1. EbrTypeOK'
  BY DEF EbrInv, EnterAnnounce, Goto, EbrTypeOK, Phases, RetirePhases, Node
<1>2. ActiveInside'
  BY DEF EbrInv, EnterAnnounce, Goto, EbrTypeOK, ActiveInside, RetirePhases
<1>3. EpochsBehind'
  BY DEF EbrInv, EnterAnnounce, Goto, EbrTypeOK, EpochsBehind
<1>4. LimboOwned'
  BY DEF EbrInv, EnterAnnounce, Goto, EbrTypeOK, LimboOwned, RetirePhases
<1>5. HolderAnnounced'
  BY DEF EbrInv, EnterAnnounce, Goto, EbrTypeOK, HolderAnnounced, Node,
    ActiveInside
<1>6. ScanSafe'
  BY DEF EbrInv, EnterAnnounce, Goto, EbrTypeOK, ScanSafe, EpochsBehind,
    ScanPhases, Node
<1>7. CurInjective' /\ RetiredOnce' /\ NoUseAfterFree'
  BY DEF EbrInv, EnterAnnounce, Goto, CurInjective, RetiredOnce,
    NoUseAfterFree
<1>8. QED
  BY <1>1, <1>2, <1>3, <1>4, <1>5, <1>6, <1>7 DEF EbrInv

\* Activating a slot keeps it: pointers are loaded only afterwards.
LEMMA EnterActivateInv ==
    ASSUME EbrInv, NEW p \in Slots, EnterActivate(p)
    PROVE EbrInv'
<1>1. EbrTypeOK'
  BY DEF EbrInv, EnterActivate, Goto, EbrTypeOK, Phases, RetirePhases, Node
<1>2. ActiveInside'
  BY DEF EbrInv, EnterActivate, Goto, EbrTypeOK, ActiveInside, RetirePhases
<1>3. LimboOwned'
  BY DEF EbrInv, EnterActivate, Goto, EbrTypeOK, LimboOwned, RetirePhases
<1>4. ScanSafe'
  BY DEF EbrInv, EnterActivate, Goto, EbrTypeOK, ScanSafe, EpochsBehind,
    ScanPhases, Node
<1>5. EpochsBehind' /\ CurInjective' /\ RetiredOnce' /\ HolderAnnounced' /\ NoUseAfterFree'
  BY DEF EbrInv, EnterActivate, Goto, EpochsBehind, CurInjective, RetiredOnce,
    HolderAnnounced, NoUseAfterFree
<1>6. QED
  BY <1>1, <1>2, <1>3, <1>4, <1>5 DEF EbrInv

\* Leaving drops every pointer.
LEMMA ExitInv ==
    ASSUME EbrInv, NEW p \in Slots, Exit(p)
    PROVE EbrInv'
<1>1. EbrTypeOK'
  BY DEF EbrInv, Exit, Goto, EbrTypeOK, Phases, RetirePhases, Node
<1>2. ActiveInside'
  BY DEF EbrInv, Exit, Goto, EbrTypeOK, ActiveInside, RetirePhases
<1>3. LimboOwned'
  BY DEF EbrInv, Exit, Goto, EbrTypeOK, LimboOwned, RetirePhases
<1>4. HolderAnnounced'
  BY DEF EbrInv, Exit, Goto, EbrTypeOK, HolderAnnounced, Node
<1>5. ScanSafe'
  BY DEF EbrInv, Exit, Goto, EbrTypeOK, ScanSafe, EpochsBehind, ScanPhases,
    Node
<1>6. NoUseAfterFree'
  BY DEF EbrInv, Exit, Goto, EbrTypeOK, NoUseAfterFree
<1>7. EpochsBehind' /\ CurInjective' /\ RetiredOnce'
  BY DEF EbrInv, Exit, Goto, EpochsBehind, CurInjective, RetiredOnce
<1>8. QED
  BY <1>1, <1>2, <1>3, <1>4, <1>5, <1>6, <1>7 DEF EbrInv

\* A linked array is neither retired nor freed: loading it is safe
\* whatever the epoch announced.
LEMMA LoadArrayInv ==
    ASSUME EbrInv, NEW p \in Slots, NEW d \in Deques, LoadArray(p, d)
    PROVE EbrInv'
<1>1. EbrTypeOK'
  BY DEF EbrInv, LoadArray, EbrTypeOK, Phases, RetirePhases, Node
<1>2. ActiveInside'
  BY DEF EbrInv, LoadArray, EbrTypeOK, ActiveInside, RetirePhases
<1>3. HolderAnnounced'
  BY DEF EbrInv, LoadArray, EbrTypeOK, HolderAnnounced, Node, RetiredOnce
<1>4. ScanSafe'
  BY DEF EbrInv, LoadArray, EbrTypeOK, ScanSafe, EpochsBehind, ScanPhases,
    Node, RetiredOnce
<1>5. NoUseAfterFree'
  BY DEF EbrInv, LoadArray, EbrTypeOK, NoUseAfterFree, RetiredOnce
<1>6. EpochsBehind' /\ LimboOwned' /\ CurInjective' /\ RetiredOnce'
  BY DEF EbrInv, LoadArray, EpochsBehind, LimboOwned, CurInjective,
    RetiredOnce
<1>7. QED
  BY <1>1, <1>2, <1>3, <1>4, <1>5, <1>6 DEF EbrInv

\* The new array is unused, the old one was linked in d only.
LEMMA GrowInv ==
    ASSUME EbrInv, NEW p \in Slots, NEW d \in Deques, Grow(p, d)
    PROVE EbrInv'
<1>1. EbrTypeOK'
  BY NoArrayAssumption DEF EbrInv, Grow, Publish, Goto, EbrTypeOK, Phases,
    RetirePhases, Node
<1>2. ActiveInside'
  BY DEF EbrInv, Grow, Publish, Goto, EbrTypeOK, ActiveInside, RetirePhases
<1>3. LimboOwned'
  BY NoArrayAssumption DEF EbrInv, Grow, Publish, Goto, EbrTypeOK, LimboOwned,
    RetirePhases, Used, Retired, RetiredOnce, CurInjective, Node
<1>4. CurInjective'
  BY DEF EbrInv, Grow, Publish, Goto, EbrTypeOK, CurInjective, Used
<1>5. RetiredOnce'
  BY DEF EbrInv, Grow, Publish, Goto, EbrTypeOK, RetiredOnce, Node, Used,
    Retired, CurInjective, LimboOwned
<1>6. ScanSafe'
  BY DEF EbrInv, Grow, Publish, Goto, EbrTypeOK, ScanSafe, EpochsBehind,
    ScanPhases, Node
<1>7. EpochsBehind' /\ HolderAnnounced' /\ NoUseAfterFree'
  BY DEF EbrInv, Grow, Publish, Goto, EpochsBehind, HolderAnnounced,
    NoUseAfterFree
<1>8. QED
  BY <1>1, <1>2, <1>3, <1>4, <1>5, <1>6, <1>7 DEF EbrInv

\* The node's epoch is the current one: it is not below any announced
\* epoch nor below any minimum found so far.
LEMMA RetireInv ==
    ASSUME EbrInv, NEW p \in Slots, Retire(p)
    PROVE EbrInv'
<1>1. EbrTypeOK'
  BY SlotsFacts, NoArrayAssumption DEF EbrInv, Retire, Goto, EbrTypeOK,
    Phases, RetirePhases, Node, LimboOwned
<1>2. ActiveInside'
  BY SlotsFacts DEF EbrInv, Retire, Goto, EbrTypeOK, ActiveInside,
    RetirePhases
<1>3. LimboOwned'
  BY NoArrayAssumption DEF EbrInv, Retire, Goto, EbrTypeOK, LimboOwned,
    RetirePhases
<1>4. RetiredOnce'
  BY DEF EbrInv, Retire, Goto, EbrTypeOK, RetiredOnce, Node, LimboOwned
<1>5. HolderAnnounced'
  BY DEF EbrInv, Retire, Goto, EbrTypeOK, HolderAnnounced, Node, EpochsBehind
<1>6. ScanSafe'
  BY SlotsFacts DEF EbrInv, Retire, Goto, EbrTypeOK, ScanSafe, EpochsBehind,
    ScanPhases, Node
<1>7. CurInjective' /\ EpochsBehind' /\ NoUseAfterFree'
  BY DEF EbrInv, Retire, Goto, CurInjective, EpochsBehind, NoUseAfterFree
<1>8. QED
  BY <1>1, <1>2, <1>3, <1>4, <1>5, <1>6, <1>7 DEF EbrInv

\* ebr_advance_epoch keeps it: epochs only grow.
LEMMA AdvanceEpochInv ==
    ASSUME EbrInv, NEW p \in Slots, AdvanceEpoch(p)
    PROVE EbrInv'
<1>1. EbrTypeOK'
  BY DEF EbrInv, AdvanceEpoch, Goto, EbrTypeOK, Phases, RetirePhases, Node
<1>2. ActiveInside'
  BY DEF EbrInv, AdvanceEpoch, Goto, EbrTypeOK, ActiveInside, RetirePhases
<1>3. EpochsBehind'
  BY DEF EbrInv, AdvanceEpoch, Goto, EbrTypeOK, EpochsBehind
<1>4. LimboOwned'
  BY DEF EbrInv, AdvanceEpoch, Goto, EbrTypeOK, LimboOwned, RetirePhases
<1>5. ScanSafe'
  BY DEF EbrInv, AdvanceEpoch, Goto, EbrTypeOK, ScanSafe, EpochsBehind,
    ScanPhases, Node
<1>6. CurInjective' /\ RetiredOnce' /\ HolderAnnounced' /\ NoUseAfterFree'
  BY DEF EbrInv, AdvanceEpoch, Goto, CurInjective, RetiredOnce,
    HolderAnnounced, NoUseAfterFree
<1>7. QED
  BY <1>1, <1>2, <1>3, <1>4, <1>5, <1>6 DEF EbrInv

\* The start of ebr_min_active_epoch keeps it: no slot has been passed.
LEMMA MinStartInv ==
    ASSUME EbrInv, NEW p \in Slots, MinStart(p)
    PROVE EbrInv'
<1>1. EbrTypeOK'
  BY SlotsFacts DEF EbrInv, MinStart, Goto, EbrTypeOK, Phases, RetirePhases,
    Node
<1>2. ActiveInside'
  BY SlotsFacts DEF EbrInv, MinStart, Goto, EbrTypeOK, ActiveInside,
    RetirePhases
<1>3. EpochsBehind'
  BY DEF EbrInv, MinStart, Goto, EbrTypeOK, EpochsBehind
<1>4. LimboOwned'
  BY DEF EbrInv, MinStart, Goto, EbrTypeOK, LimboOwned, RetirePhases
<1>5. ScanSafe'
  <2>1. idx'[p] = 0 /\ phase'[p] = "minActive"
    BY DEF EbrInv, MinStart, Goto, EbrTypeOK
  <2>2. \A s \in Slots \ {p} : phase'[s] = phase[s] /\ idx'[s] = idx[s]
                              /\ reg'[s] = reg[s]
    BY DEF EbrInv, MinStart, Goto, EbrTypeOK
  <2>3. \A q \in Slots : ~(q < 0)
    BY NumWorkersAssumption DEF Slots
  <2>4. QED
    BY <2>1, <2>2, <2>3, SlotsFacts DEF EbrInv, MinStart, ScanSafe
<1>6. CurInjective' /\ RetiredOnce' /\ HolderAnnounced' /\ NoUseAfterFree'
  BY DEF EbrInv, MinStart, Goto, CurInjective, RetiredOnce, HolderAnnounced,
    NoUseAfterFree
<1>7. QED
  BY <1>1, <1>2, <1>3, <1>4, <1>5, <1>6 DEF EbrInv

\* An inactive slot holds nothing.
LEMMA MinSkipInv ==
    ASSUME EbrInv, NEW p \in Slots, MinSkip(p)
    PROVE EbrInv'
<1>1. EbrTypeOK'
  BY SlotsFacts DEF EbrInv, MinSkip, Goto, NextSlot, EbrTypeOK, Phases,
    RetirePhases, Node, ScanSafe, ScanPhases
<1>2. ActiveInside'
  BY SlotsFacts DEF EbrInv, MinSkip, Goto, NextSlot, EbrTypeOK, ActiveInside,
    RetirePhases
<1>3. LimboOwned'
  BY DEF EbrInv, MinSkip, Goto, NextSlot, EbrTypeOK, LimboOwned, RetirePhases
<1>4. ScanSafe'
  BY SlotsFacts DEF EbrInv, MinSkip, Goto, NextSlot, EbrTypeOK, ScanSafe,
    EpochsBehind, ScanPhases, Node, ActiveInside
<1>5. EpochsBehind' /\ CurInjective' /\ RetiredOnce' /\ HolderAnnounced' /\ NoUseAfterFree'
  BY DEF EbrInv, MinSkip, Goto, NextSlot, EpochsBehind, CurInjective,
    RetiredOnce, HolderAnnounced, NoUseAfterFree
<1>6. QED
  BY <1>1, <1>2, <1>3, <1>4, <1>5 DEF EbrInv

\* Seeing an active slot keeps it: the scan stays where it is.
LEMMA MinSeeActiveInv ==
    ASSUME EbrInv, NEW p \in Slots, MinSeeActive(p)
    PROVE EbrInv'
<1>1. EbrTypeOK'
  BY DEF EbrInv, MinSeeActive, Goto, EbrTypeOK, Phases, RetirePhases, Node
<1>2. ActiveInside'
  BY DEF EbrInv, MinSeeActive, Goto, EbrTypeOK, ActiveInside, RetirePhases
<1>3. LimboOwned'
  BY DEF EbrInv, MinSeeActive, Goto, EbrTypeOK, LimboOwned, RetirePhases
<1>4. ScanSafe'
  BY DEF EbrInv, MinSeeActive, Goto, EbrTypeOK, ScanSafe, EpochsBehind,
    ScanPhases, Node
<1>5. EpochsBehind' /\ CurInjective' /\ RetiredOnce' /\ HolderAnnounced' /\ NoUseAfterFree'
  BY DEF EbrInv, MinSeeActive, Goto, EpochsBehind, CurInjective, RetiredOnce,
    HolderAnnounced, NoUseAfterFree
<1>6. QED
  BY <1>1, <1>2, <1>3, <1>4, <1>5 DEF EbrInv

\* What the slot holds was retired no earlier than the epoch it announces.
LEMMA MinReadAnnouncedInv ==
    ASSUME EbrInv, NEW p \in Slots, MinReadAnnounced(p)
    PROVE EbrInv'
<1>1. EbrTypeOK'
  BY SlotsFacts DEF EbrInv, MinReadAnnounced, Goto, NextSlot, EbrTypeOK,
    Phases, RetirePhases, Node, ScanSafe, ScanPhases
<1>2. ActiveInside'
  BY SlotsFacts DEF EbrInv, MinReadAnnounced, Goto, NextSlot, EbrTypeOK,
    ActiveInside, RetirePhases
<1>3. EpochsBehind'
  BY DEF EbrInv, MinReadAnnounced, Goto, NextSlot, EbrTypeOK, EpochsBehind,
    ScanSafe, ScanPhases
<1>4. LimboOwned'
  BY DEF EbrInv, MinReadAnnounced, Goto, NextSlot, EbrTypeOK, LimboOwned,
    RetirePhases
<1>5. ScanSafe'
  BY SlotsFacts DEF EbrInv, MinReadAnnounced, Goto, NextSlot, EbrTypeOK,
    ScanSafe, EpochsBehind, ScanPhases, Node, HolderAnnounced
<1>6. CurInjective' /\ RetiredOnce' /\ HolderAnnounced' /\ NoUseAfterFree'
  BY DEF EbrInv, MinReadAnnounced, Goto, NextSlot, CurInjective, RetiredOnce,
    HolderAnnounced, NoUseAfterFree
<1>7. QED
  BY <1>1, <1>2, <1>3, <1>4, <1>5, <1>6 DEF EbrInv

\* The scan is complete: nobody holds what is freed.
LEMMA ReclaimInv ==
    ASSUME EbrInv, NEW p \in Slots, Reclaim(p)
    PROVE EbrInv'
<1>1. EbrTypeOK'
  BY SlotsFacts, NoArrayAssumption DEF EbrInv, Reclaim, Expired, Goto,
    EbrTypeOK, Phases, RetirePhases, Node
<1>2. ActiveInside'
  BY SlotsFacts DEF EbrInv, Reclaim, Expired, Goto, EbrTypeOK, ActiveInside,
    RetirePhases
<1>3. EpochsBehind'
  BY DEF EbrInv, Reclaim, Expired, Goto, EbrTypeOK, EpochsBehind
<1>4. LimboOwned'
  BY NoArrayAssumption DEF EbrInv, Reclaim, Expired, Goto, EbrTypeOK,
    LimboOwned, RetirePhases
<1>5. RetiredOnce'
  BY DEF EbrInv, Reclaim, Expired, Goto, EbrTypeOK, RetiredOnce, Node
<1>6. HolderAnnounced'
  BY DEF EbrInv, Reclaim, Expired, Goto, EbrTypeOK, HolderAnnounced, Node
<1>7. ScanSafe'
  BY SlotsFacts DEF EbrInv, Reclaim, Expired, Goto, EbrTypeOK, ScanSafe,
    EpochsBehind, ScanPhases, Node
<1>8. NoUseAfterFree'
  BY SlotsFacts DEF EbrInv, Reclaim, Expired, Goto, EbrTypeOK, NoUseAfterFree,
    ScanSafe, ScanPhases
<1>9. CurInjective'
  BY DEF EbrInv, Reclaim, Expired, Goto, CurInjective
<1>10. QED
  BY <1>1, <1>2, <1>3, <1>4, <1>5, <1>6, <1>7, <1>8, <1>9 DEF EbrInv

\* The end of the drain loop changes no pointer.
LEMMA DrainedInv ==
    ASSUME EbrInv, Drained
    PROVE EbrInv'
<1>1. EbrTypeOK'
  BY DEF EbrInv, Drained, EbrTypeOK, Phases, RetirePhases, Node
<1>2. ActiveInside'
  BY DEF EbrInv, Drained, EbrTypeOK, ActiveInside, RetirePhases
<1>3. EpochsBehind'
  BY DEF EbrInv, Drained, EbrTypeOK, EpochsBehind
<1>4. LimboOwned'
  BY DEF EbrInv, Drained, EbrTypeOK, LimboOwned, RetirePhases
<1>5. CurInjective'
  BY DEF EbrInv, Drained, EbrTypeOK, CurInjective
<1>6. RetiredOnce'
  BY DEF EbrInv, Drained, EbrTypeOK, RetiredOnce, Node
<1>7. HolderAnnounced'
  BY DEF EbrInv, Drained, EbrTypeOK, HolderAnnounced, Node
<1>8. ScanSafe'
  BY DEF EbrInv, Drained, EbrTypeOK, ScanSafe, EpochsBehind, ScanPhases, Node
<1>9. NoUseAfterFree'
  BY DEF EbrInv, Drained, EbrTypeOK, NoUseAfterFree
<1>10. QED
  BY <1>1, <1>2, <1>3, <1>4, <1>5, <1>6, <1>7, <1>8, <1>9 DEF EbrInv

\* Joining the workers changes no pointer.
LEMMA JoinedInv ==
    ASSUME EbrInv, Joined
    PROVE EbrInv'
<1>1. EbrTypeOK'
  BY DEF EbrInv, Joined, EbrTypeOK, Phases, RetirePhases, Node
<1>2. ActiveInside'
  BY DEF EbrInv, Joined, EbrTypeOK, ActiveInside, RetirePhases
<1>3. EpochsBehind'
  BY DEF EbrInv, Joined, EbrTypeOK, EpochsBehind
<1>4. LimboOwned'
  BY DEF EbrInv, Joined, EbrTypeOK, LimboOwned, RetirePhases
<1>5. CurInjective'
  BY DEF EbrInv, Joined, EbrTypeOK, CurInjective
<1>6. RetiredOnce'
  BY DEF EbrInv, Joined, EbrTypeOK, RetiredOnce, Node
<1>7. HolderAnnounced'
  BY DEF EbrInv, Joined, EbrTypeOK, HolderAnnounced, Node
<1>8. ScanSafe'
  BY DEF EbrInv, Joined, EbrTypeOK, ScanSafe, EpochsBehind, ScanPhases, Node
<1>9. NoUseAfterFree'
  BY DEF EbrInv, Joined, EbrTypeOK, NoUseAfterFree
<1>10. QED
  BY <1>1, <1>2, <1>3, <1>4, <1>5, <1>6, <1>7, <1>8, <1>9 DEF EbrInv

\* The forced reclaim keeps it, although it runs outside the protection.
LEMMA ForceReclaimInv ==
    ASSUME EbrInv, ForceReclaim
    PROVE EbrInv'
<1>1. EbrTypeOK'
  BY SlotsFacts DEF EbrInv, ForceReclaim, Goto, EbrTypeOK, Phases,
    RetirePhases, Node
<1>2. ActiveInside'
  BY SlotsFacts DEF EbrInv, ForceReclaim, Goto, EbrTypeOK, ActiveInside,
    RetirePhases
<1>3. EpochsBehind'
  BY DEF EbrInv, ForceReclaim, Goto, EbrTypeOK, EpochsBehind
<1>4. LimboOwned'
  BY DEF EbrInv, ForceReclaim, Goto, EbrTypeOK, LimboOwned, RetirePhases
<1>5. ScanSafe'
  BY SlotsFacts DEF EbrInv, ForceReclaim, Goto, EbrTypeOK, ScanSafe,
    EpochsBehind, ScanPhases, Node
<1>6. CurInjective' /\ RetiredOnce' /\ HolderAnnounced' /\ NoUseAfterFree'
  BY DEF EbrInv, ForceReclaim, Goto, CurInjective, RetiredOnce,
    HolderAnnounced, NoUseAfterFree
<1>7. QED
  BY <1>1, <1>2, <1>3, <1>4, <1>5, <1>6 DEF EbrInv

\* The first state.
LEMMA InitInv == EbrInit => EbrInv
<1> SUFFICES ASSUME EbrInit PROVE EbrInv
  OBVIOUS
<1>1. EbrTypeOK
  BY InitArrayAssumption, SlotsFacts DEF EbrInit, EbrTypeOK, Phases
<1>2. ActiveInside /\ EpochsBehind /\ LimboOwned
  BY DEF EbrInit, ActiveInside, EpochsBehind, LimboOwned, RetirePhases
<1>3. CurInjective /\ RetiredOnce /\ HolderAnnounced /\ ScanSafe
      /\ NoUseAfterFree
  BY InitArrayAssumption
    DEF EbrInit, CurInjective, RetiredOnce, HolderAnnounced, ScanSafe,
        ScanPhases, NoUseAfterFree
<1>4. QED
  BY <1>1, <1>2, <1>3 DEF EbrInv

\* Steps of other components keep the invariant.
LEMMA StutterInv == EbrInv /\ UNCHANGED ebrVars => EbrInv'
<1> SUFFICES ASSUME EbrInv, UNCHANGED ebrVars PROVE EbrInv'
  OBVIOUS
<1>1. EbrTypeOK' /\ ActiveInside' /\ EpochsBehind' /\ LimboOwned'
  BY DEF EbrInv, ebrVars, EbrTypeOK, ActiveInside, EpochsBehind, LimboOwned
<1>2. CurInjective' /\ RetiredOnce' /\ HolderAnnounced' /\ ScanSafe'
      /\ NoUseAfterFree'
  BY DEF EbrInv, ebrVars, CurInjective, RetiredOnce, HolderAnnounced, ScanSafe,
         NoUseAfterFree
<1>3. QED
  BY <1>1, <1>2 DEF EbrInv

\* Every step, of any thread, preserves the invariant.
LEMMA StepInv == EbrInv /\ [EbrNext]_ebrVars => EbrInv'
<1> SUFFICES ASSUME EbrInv, [EbrNext]_ebrVars PROVE EbrInv'
  OBVIOUS
<1>1. ASSUME NEW p \in Slots, EbrStep(p) PROVE EbrInv'
  <2>1. ASSUME NEW d \in Deques, LoadArray(p, d) \/ Grow(p, d) PROVE EbrInv'
    BY <2>1, LoadArrayInv, GrowInv
  <2>2. CASE EnterReadEpoch(p) \/ EnterAnnounce(p) \/ EnterActivate(p)
             \/ Exit(p)
    BY <2>2, EnterReadEpochInv, EnterAnnounceInv, EnterActivateInv, ExitInv
  <2>3. CASE Retire(p) \/ AdvanceEpoch(p) \/ MinStart(p) \/ MinSkip(p)
    BY <2>3, RetireInv, AdvanceEpochInv, MinStartInv, MinSkipInv
  <2>4. CASE MinSeeActive(p) \/ MinReadAnnounced(p) \/ Reclaim(p)
    BY <2>4, MinSeeActiveInv, MinReadAnnouncedInv, ReclaimInv
  <2>5. QED
    BY <1>1, <2>1, <2>2, <2>3, <2>4 DEF EbrStep
<1>2. CASE Drained \/ Joined \/ ForceReclaim
  BY <1>2, DrainedInv, JoinedInv, ForceReclaimInv
<1>3. QED
  BY <1>1, <1>2, StutterInv DEF EbrNext

\* The invariant holds in every reachable state.
LEMMA InvAlways == EbrSpec => []EbrInv
<1>1. EbrInit => EbrInv
  BY InitInv
<1>2. EbrInv /\ [EbrNext]_ebrVars => EbrInv'
  BY StepInv
<1>3. QED
  BY <1>1, <1>2, PTL DEF EbrSpec

\* Every variable of the reclamation code keeps a value of its type: a scan
\* never indexes past the external slot.
THEOREM TypeCorrect == EbrSpec => []EbrTypeOK
<1>1. EbrInv => EbrTypeOK
  BY DEF EbrInv
<1>2. QED
  BY <1>1, InvAlways, PTL

\* The grace period: ebr_try_reclaim_worker never frees an array that a thread
\* between ebr_enter_worker and ebr_exit_worker has loaded.
THEOREM GracePeriod == EbrSpec => []NoUseAfterFree
<1>1. EbrInv => NoUseAfterFree
  BY DEF EbrInv
<1>2. QED
  BY <1>1, InvAlways, PTL

\* An array is on at most one retired list, once, and is then neither linked
\* nor freed: no walk of a list frees twice, or frees a deque's array.
THEOREM NoDoubleFree == EbrSpec => []RetiredOnce
<1>1. EbrInv => RetiredOnce
  BY DEF EbrInv
<1>2. QED
  BY <1>1, InvAlways, PTL
--------------------------------------------------------------------------------
(* Shutdown. *)

\* No array was retired in an epoch to come.
NodesPast == \A p \in Slots : \A n \in retired[p] : n.epoch <= epoch

\* After the join only worker 0 does anything: its last forced reclaim starts two
\* epochs later, meets no active slot, and empties list after list.
LastReclaim ==
    mode = "joined" =>
        /\ forced # 0
        /\ forced = 1 => phase[0] = "out"
        /\ \A p \in Slots : ~active[p] /\ (p # 0 => phase[p] = "out")
        /\ phase[0] \in {"out", "advance", "minStart", "minActive", "reclaim"}
        /\ forced = 2 /\ phase[0] # "out" =>
            /\ \A p \in Slots : \A n \in retired[p] : n.epoch < epoch
            /\ phase[0] \in ScanPhases => reg[0] = epoch
            /\ \A p \in Slots : p < list[0] => retired[p] = {}
        /\ forced = 2 /\ phase[0] = "out" => \A p \in Slots : retired[p] = {}

LeakInv == EbrInv /\ NodesPast /\ LastReclaim

\* Retired nodes carry an epoch that was current, and the epoch only grows.
LEMMA NodesPastStep == EbrInv /\ NodesPast /\ [EbrNext]_ebrVars => NodesPast'
<1> SUFFICES ASSUME EbrInv, NodesPast, [EbrNext]_ebrVars PROVE NodesPast'
  OBVIOUS
<1>0. epoch \in Nat /\ retired \in [Slots -> SUBSET Node]
  BY DEF EbrInv, EbrTypeOK
<1>1. CASE UNCHANGED <<epoch, retired>>
  BY <1>1 DEF NodesPast
<1>2. CASE epoch' = epoch + 1 /\ retired' = retired
  BY <1>0, <1>2 DEF NodesPast, Node
<1>3. ASSUME NEW p \in Slots, Retire(p) PROVE NodesPast'
  <2>1. epoch' = epoch /\ \A q \in Slots : \A n \in retired'[q] :
            n \in retired[q] \/ n.epoch = epoch
    BY <1>0, <1>3 DEF Retire
  <2>2. QED
    BY <1>0, <2>1 DEF NodesPast
<1>4. ASSUME NEW p \in Slots, Reclaim(p) PROVE NodesPast'
  <2>1. epoch' = epoch /\ \A q \in Slots : retired'[q] \subseteq retired[q]
    BY <1>0, <1>4 DEF Reclaim
  <2>2. QED
    BY <2>1 DEF NodesPast
<1>5. ASSUME NEW p \in Slots, EbrStep(p), ~Retire(p), ~Reclaim(p), ~AdvanceEpoch(p)
      PROVE  UNCHANGED <<epoch, retired>>
  BY <1>5 DEF EbrStep, EnterReadEpoch, EnterAnnounce, EnterActivate, Exit, LoadArray,
              Grow, Publish, MinStart, MinSkip, MinSeeActive, MinReadAnnounced
<1>6. ASSUME NEW p \in Slots, AdvanceEpoch(p) PROVE NodesPast'
  BY <1>2, <1>6 DEF AdvanceEpoch
<1>7. CASE Drained \/ Joined \/ UNCHANGED ebrVars
  BY <1>1, <1>7 DEF Drained, Joined, ebrVars
<1>8. CASE ForceReclaim
  BY <1>2, <1>8 DEF ForceReclaim
<1>9. QED
  BY <1>1, <1>3, <1>4, <1>5, <1>6, <1>7, <1>8 DEF EbrNext

\* After the join the other threads are done for good.
LEMMA JoinedAlone ==
  ASSUME EbrInv, LastReclaim, mode = "joined", NEW p \in Slots, EbrStep(p)
  PROVE  /\ p = 0
         /\ AdvanceEpoch(0) \/ MinStart(0) \/ MinSkip(0) \/ Reclaim(0)
<1>1. /\ p # 0 => phase[p] = "out"
      /\ phase[0] \in {"out", "advance", "minStart", "minActive", "reclaim"}
  BY DEF LastReclaim
<1>2. ~EnterReadEpoch(p)
  BY DEF EnterReadEpoch, MayEnter
<1>3. ~EnterAnnounce(p) /\ ~EnterActivate(p) /\ ~Exit(p) /\ ~Retire(p)
      /\ ~MinReadAnnounced(p) /\ \A d \in Deques : ~LoadArray(p, d) /\ ~Grow(p, d)
  BY <1>1 DEF EnterAnnounce, EnterActivate, Exit, Retire, MinReadAnnounced, LoadArray,
              Grow, Publish
<1>4. ~MinSeeActive(p)
  <2>1. phase[p] = "minActive" => idx[p] \in Slots
    BY DEF EbrInv, ScanSafe, ScanPhases
  <2>2. QED
    BY <2>1 DEF MinSeeActive, LastReclaim
<1>5. AdvanceEpoch(p) \/ MinStart(p) \/ MinSkip(p) \/ Reclaim(p)
  BY <1>2, <1>3, <1>4 DEF EbrStep
<1>6. p = 0
  BY <1>1, <1>5 DEF AdvanceEpoch, MinStart, MinSkip, Reclaim
<1>7. QED
  BY <1>5, <1>6

\* The last forced reclaim of worker 0.
LEMMA LastReclaimStep ==
    EbrInv /\ NodesPast /\ LastReclaim /\ [EbrNext]_ebrVars => LastReclaim'
<1> SUFFICES ASSUME EbrInv, NodesPast, LastReclaim, [EbrNext]_ebrVars, mode' = "joined"
             PROVE  LastReclaim'
  BY DEF LastReclaim
<1>0. /\ epoch \in Nat /\ retired \in [Slots -> SUBSET Node] /\ list \in [Slots -> Slots]
      /\ reg \in [Slots -> Nat] /\ phase \in [Slots -> Phases] /\ idx[0] \in Nat
      /\ forced \in 0 .. 2 /\ 0 \in Slots
  BY SlotsFacts DEF EbrInv, EbrTypeOK
<1>1. CASE mode # "joined"
  <2>1. Joined
    BY <1>1 DEF EbrNext, EbrStep, ebrVars, EnterReadEpoch, EnterAnnounce, EnterActivate,
                Exit, LoadArray, Grow, Publish, Retire, AdvanceEpoch, MinStart, MinSkip,
                MinSeeActive, MinReadAnnounced, Reclaim, Drained, ForceReclaim
  <2>2. /\ forced' = 1 /\ phase' = phase /\ active' = active
        /\ \A p \in Slots : phase[p] = "out"
    BY <2>1 DEF Joined
  <2>3. \A p \in Slots : ~active[p]
    BY <2>2 DEF EbrInv, ActiveInside
  <2>4. QED
    BY <1>0, <2>2, <2>3 DEF LastReclaim
<1>2. CASE mode = "joined"
  <2>0. /\ forced # 0 /\ forced = 1 => phase[0] = "out"
        /\ \A p \in Slots : ~active[p] /\ (p # 0 => phase[p] = "out")
    BY <1>2 DEF LastReclaim
  <2>1. CASE AdvanceEpoch(0)
    <3>1. /\ epoch' = epoch + 1 /\ phase' = [phase EXCEPT ![0] = "minStart"]
          /\ UNCHANGED <<active, retired, list, forced>> /\ phase[0] = "advance"
      BY <2>1 DEF AdvanceEpoch, Goto
    <3>2. \A p \in Slots : \A n \in retired'[p] : n.epoch < epoch'
      BY <1>0, <3>1 DEF NodesPast, Node
    <3>3. QED
      BY <1>0, <1>2, <2>0, <3>1, <3>2 DEF LastReclaim, ScanPhases
  <2>2. CASE MinStart(0)
    <3>1. /\ reg'[0] = epoch /\ phase' = [phase EXCEPT ![0] = "minActive"]
          /\ UNCHANGED <<epoch, active, retired, list, forced>> /\ phase[0] = "minStart"
      BY <1>0, <2>2 DEF MinStart, Goto
    <3>2. QED
      BY <1>0, <1>2, <2>0, <3>1 DEF LastReclaim, ScanPhases
  <2>3. CASE MinSkip(0)
    <3>1. /\ phase[0] = "minActive"
          /\ phase' = [phase EXCEPT ![0] =
                         IF idx[0] = External THEN "reclaim" ELSE "minActive"]
          /\ UNCHANGED <<epoch, reg, active, retired, list, forced>>
      BY <2>3 DEF MinSkip, NextSlot, Goto
    <3>2. QED
      BY <1>0, <1>2, <2>0, <3>1 DEF LastReclaim, ScanPhases
  <2>4. CASE Reclaim(0)
    <3>1. /\ phase[0] = "reclaim"
          /\ retired' = [retired EXCEPT ![list[0]] = @ \ Expired(0)]
          /\ list' = [list EXCEPT ![0] = IF @ = External THEN 0 ELSE @ + 1]
          /\ phase' = [phase EXCEPT ![0] =
                         IF list[0] = External THEN "out" ELSE "minStart"]
          /\ UNCHANGED <<epoch, active, forced>>
      BY <1>2, <2>4 DEF Reclaim, Goto
    <3>2. /\ forced = 2 /\ reg[0] = epoch
          /\ \A p \in Slots : \A n \in retired[p] : n.epoch < epoch
          /\ \A p \in Slots : p < list[0] => retired[p] = {}
      BY <1>0, <1>2, <2>0, <3>1 DEF LastReclaim, ScanPhases
    <3>3. Expired(0) = retired[list[0]]
      BY <1>0, <3>2 DEF Expired
    <3>4. /\ retired'[list[0]] = {}
          /\ \A p \in Slots : retired'[p] \subseteq retired[p]
      BY <1>0, <3>1, <3>3
    <3>5. \A p \in Slots : p < list[0] + 1 => retired'[p] = {}
      BY <1>0, <3>2, <3>4, SlotsFacts DEF Slots, External
    <3>6. CASE list[0] = External
      <4>1. \A p \in Slots : retired'[p] = {}
        BY <3>5, <3>6, SlotsFacts
      <4>2. QED
        BY <1>0, <1>2, <2>0, <3>1, <3>6, <4>1 DEF LastReclaim
    <3>7. CASE list[0] # External
      <4>1. \A p \in Slots : p < list'[0] => retired'[p] = {}
        BY <1>0, <3>1, <3>5, <3>7
      <4>2. \A p \in Slots : \A n \in retired'[p] : n.epoch < epoch'
        BY <3>1, <3>2, <3>4
      <4>3. phase'[0] = "minStart" /\ \A p \in Slots : p # 0 => phase'[p] = "out"
        BY <1>0, <2>0, <3>1, <3>7
      <4>4. QED
        BY <2>0, <3>1, <3>2, <4>1, <4>2, <4>3 DEF LastReclaim, ScanPhases
    <3>8. QED
      BY <3>6, <3>7
  <2>5. CASE ForceReclaim
    <3>1. /\ forced' = 2 /\ epoch' = epoch + 1 /\ phase' = [phase EXCEPT ![0] = "advance"]
          /\ list'[0] = 0 /\ UNCHANGED <<active, retired>>
      BY <1>0, <1>2, <2>0, <2>5 DEF ForceReclaim, Goto
    <3>2. \A p \in Slots : \A n \in retired'[p] : n.epoch < epoch'
      BY <1>0, <3>1 DEF NodesPast, Node
    <3>3. \A p \in Slots : ~(p < list'[0])
      BY <3>1, SlotsFacts
    <3>4. QED
      BY <1>0, <2>0, <3>1, <3>2, <3>3 DEF LastReclaim, ScanPhases
  <2>6. CASE UNCHANGED ebrVars
    BY <2>6 DEF LastReclaim, ebrVars
  <2>7. ~Drained /\ ~Joined
    BY <1>2 DEF Drained, Joined
  <2>8. QED
    BY <1>2, <2>1, <2>2, <2>3, <2>4, <2>5, <2>6, <2>7, JoinedAlone DEF EbrNext
<1>3. QED
  BY <1>1, <1>2

\* ebr_force_reclaim_all, called once more after ty_thread_join, frees every
\* array that any worker retired: shutdown leaks none.
THEOREM NoLeak == EbrSpec => []NothingLeaks
<1>1. EbrInit => LeakInv
  BY InitInv DEF LeakInv, EbrInit, NodesPast, LastReclaim
<1>2. LeakInv /\ [EbrNext]_ebrVars => LeakInv'
  BY StepInv, NodesPastStep, LastReclaimStep DEF LeakInv
<1>3. LeakInv => NothingLeaks
  BY DEF LeakInv, LastReclaim, NothingLeaks
<1>4. QED
  BY <1>1, <1>2, <1>3, PTL DEF EbrSpec
================================================================================
