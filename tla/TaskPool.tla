-------------------------------- MODULE TaskPool -------------------------------
(***************************************************************************)
(* What a work-stealing deque promises the scheduler: a pool of runnable   *)
(* coroutines.  A coroutine that is put stays in the pool until exactly    *)
(* one worker takes it; taking nothing is always possible (deque_pop and   *)
(* deque_steal may return NULL).                                           *)
(***************************************************************************)
CONSTANTS Takers, Items, Nothing

VARIABLES
    pool,   \* coroutines put and not taken
    got     \* the coroutine each worker has taken and not yet resumed

poolVars == <<pool, got>>

PoolInit == pool = {} /\ got = [p \in Takers |-> Nothing]

Put(i) ==
    /\ i \notin pool /\ \A p \in Takers : got[p] # i
    /\ pool' = pool \cup {i}
    /\ UNCHANGED got

Take(p, i) ==
    /\ i \in pool /\ got[p] = Nothing
    /\ pool' = pool \ {i}
    /\ got' = [got EXCEPT ![p] = i]

\* The operation returns: the coroutine is the caller's to resume.
Return(p) == got' = [got EXCEPT ![p] = Nothing] /\ UNCHANGED pool

PoolNext ==
    \/ \E i \in Items : Put(i)
    \/ \E p \in Takers : Return(p) \/ \E i \in Items : Take(p, i)

PoolSpec == PoolInit /\ [][PoolNext]_poolVars
================================================================================
