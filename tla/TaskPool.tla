------------------------------ MODULE TaskPool ------------------------------
(***************************************************************************)
(* What the worker pool promises its users (include/threadpool/            *)
(* thread_pool.h): every task handed to queue() is run, once, by somebody, *)
(* and the destructor returns only when no task is left.  Keyspace uses    *)
(* the pool in this form: a set of pending teardowns, done in any order.   *)
(***************************************************************************)
CONSTANT Tasks

VARIABLES pending,   \* handed to queue() and not run yet
          finished,  \* run
          closed     \* the destructor has returned

pvars == <<pending, finished, closed>>

PoolInit == pending = {} /\ finished = {} /\ closed = FALSE

Submit(t) ==
  /\ ~ closed /\ t \notin pending \cup finished
  /\ pending' = pending \cup {t}
  /\ UNCHANGED <<finished, closed>>

Finish(t) ==
  /\ t \in pending
  /\ pending' = pending \ {t}
  /\ finished' = finished \cup {t}
  /\ UNCHANGED closed

Close ==
  /\ pending = {}
  /\ closed' = TRUE
  /\ UNCHANGED <<pending, finished>>

PoolNext == Close \/ \E t \in Tasks : Submit(t) \/ Finish(t)

PoolSpec == PoolInit /\ [][PoolNext]_pvars

\* Every task that is handed over is run.
FairPoolSpec == PoolSpec /\ \A t \in Tasks : WF_pvars(Finish(t))
=============================================================================
