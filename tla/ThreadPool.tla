----------------------------- MODULE ThreadPool -----------------------------
(***************************************************************************)
(* The worker pool (include/threadpool/thread_pool.h and                   *)
(* src/threadpool/thread_pool.cpp): a deque of tasks under a mutex, a      *)
(* condition variable and a fixed set of workers.                          *)
(*                                                                         *)
(* queue_ and stop_ are only touched under mu_, so the code between a lock *)
(* and the unlock that follows is one step, taken when mu_ is free.  The   *)
(* exception is wait(): between its test of the condition and the moment   *)
(* the worker is on the condition variable's list, the worker holds mu_    *)
(* and other threads run.  notify_one and notify_all are called without    *)
(* mu_ and are steps of their own.                                         *)
(***************************************************************************)
EXTENDS Naturals, Sequences, FiniteSets

CONSTANTS Workers,    \* the threads of the pool
          Producers,  \* the threads that call queue()
          Owner,      \* the thread that destroys the pool
          Tasks,      \* Work items; each is queued at most once
          None        \* no thread; no task

(* The constructor makes at least one thread. *)
ASSUME ThreadsAssumption ==
  /\ Workers # {} /\ Workers \cap Producers = {}
  /\ Owner \notin Workers \cup Producers
  /\ None \notin Workers \cup Producers \cup {Owner} \cup Tasks

VARIABLES queue_,     \* tasks waiting, oldest first
          mu_,        \* the worker that holds the mutex between two steps, or None
          stop_,      \* the destructor has asked the workers to leave
          pc,         \* where each thread is
          task,       \* the task a worker runs or a producer is queueing
          given,      \* tasks handed to queue()
          runs        \* how many times each task was run

vars == <<queue_, mu_, stop_, pc, task, given, runs>>

Threads == Workers \cup Producers \cup {Owner}

Init ==
  /\ queue_ = <<>> /\ mu_ = None /\ stop_ = FALSE
  /\ pc = [t \in Threads |-> IF t \in Workers THEN "lock" ELSE "idle"]
  /\ task = [t \in Workers \cup Producers |-> None]
  /\ given = {}
  /\ runs = [x \in Tasks |-> 0]

Goto(t, label) == pc' = [pc EXCEPT ![t] = label]

-----------------------------------------------------------------------------
(* worker_loop *)

\* Slip: the worker leaves as soon as it sees stop_, whatever is queued.
Leave_early(w) ==
  /\ pc[w] = "lock" /\ mu_ = None
  /\ stop_
  /\ Goto(w, "exit")
  /\ UNCHANGED <<queue_, mu_, stop_, task, given, runs>>

\* stop_ is set and the queue is empty: the thread returns.
Leave(w) ==
  /\ pc[w] = "lock" /\ mu_ = None
  /\ queue_ = <<>> /\ stop_
  /\ Goto(w, "exit")
  /\ UNCHANGED <<queue_, mu_, stop_, task, given, runs>>

\* Slip: no unlock() before the task, so `lock` keeps mu_ to the end of its scope.
Take_locked(w) ==
  /\ pc[w] = "lock" /\ mu_ = None
  /\ queue_ # <<>>
  /\ task' = [task EXCEPT ![w] = Head(queue_)]
  /\ queue_' = Tail(queue_)
  /\ mu_' = w
  /\ Goto(w, "run")
  /\ UNCHANGED <<stop_, given, runs>>
\* Slip: the front task is copied but not popped.
Take_copy(w) ==
  /\ pc[w] = "lock" /\ mu_ = None
  /\ queue_ # <<>>
  /\ task' = [task EXCEPT ![w] = Head(queue_)]
  /\ Goto(w, "run")
  /\ UNCHANGED <<queue_, mu_, stop_, given, runs>>

\* The oldest task is popped under the lock, to be run without it.
Take(w) ==
  /\ pc[w] = "lock" /\ mu_ = None
  /\ queue_ # <<>>
  /\ task' = [task EXCEPT ![w] = Head(queue_)]
  /\ queue_' = Tail(queue_)
  /\ Goto(w, "run")
  /\ UNCHANGED <<mu_, stop_, given, runs>>

\* w.f(w.arg); then `lock` goes out of scope, which frees mu_ if it still holds it.
Run(w) ==
  /\ pc[w] = "run"
  /\ runs' = [runs EXCEPT ![task[w]] = @ + 1]
  /\ task' = [task EXCEPT ![w] = None]
  /\ mu_' = IF mu_ = w THEN None ELSE mu_
  /\ Goto(w, "lock")
  /\ UNCHANGED <<queue_, stop_, given>>

\* The condition is false; the worker keeps mu_ until it is asleep.
Test(w) ==
  /\ pc[w] = "lock" /\ mu_ = None
  /\ queue_ = <<>> /\ ~ stop_
  /\ mu_' = w
  /\ Goto(w, "wait")
  /\ UNCHANGED <<queue_, stop_, task, given, runs>>

Sleep(w) ==
  /\ pc[w] = "wait"
  /\ mu_' = None
  /\ Goto(w, "sleep")
  /\ UNCHANGED <<queue_, stop_, task, given, runs>>

\* A wakeup nobody asked for: the condition is tested again.
SpuriousWakeup(w) ==
  /\ pc[w] = "sleep"
  /\ Goto(w, "lock")
  /\ UNCHANGED <<queue_, mu_, stop_, task, given, runs>>

-----------------------------------------------------------------------------
(* queue *)

\* A producer calls queue().  Nobody may once destruction has begun.
Call(p, x) ==
  /\ pc[p] = "idle" /\ pc[Owner] = "idle"
  /\ x \notin given
  /\ given' = given \cup {x}
  /\ task' = [task EXCEPT ![p] = x]
  /\ Goto(p, "lock")
  /\ UNCHANGED <<queue_, mu_, stop_, runs>>

Push(p) ==
  /\ pc[p] = "lock" /\ mu_ = None
  /\ queue_' = Append(queue_, task[p])
  /\ task' = [task EXCEPT ![p] = None]
  /\ Goto(p, "notify")
  /\ UNCHANGED <<mu_, stop_, given, runs>>

Asleep == {w \in Workers : pc[w] = "sleep"}

\* Slip: no worker is woken.
NotifyOne_nobody(p) ==
  /\ pc[p] = "notify"
  /\ Goto(p, "idle")
  /\ UNCHANGED <<queue_, mu_, stop_, task, given, runs>>

\* notify_one wakes one sleeping worker, if any, and queue() returns.
NotifyOne(p) ==
  /\ pc[p] = "notify"
  /\ \/ Asleep = {} /\ Goto(p, "idle")
     \/ \E w \in Asleep : pc' = [pc EXCEPT ![p] = "idle", ![w] = "lock"]
  /\ UNCHANGED <<queue_, mu_, stop_, task, given, runs>>

-----------------------------------------------------------------------------
(* ~ThreadPool *)

\* The owner destroys the pool when no call of queue() is in progress.
Destroy ==
  /\ pc[Owner] = "idle" /\ \A p \in Producers : pc[p] = "idle"
  /\ Goto(Owner, "lock")
  /\ UNCHANGED <<queue_, mu_, stop_, task, given, runs>>

\* Slip: stop_ is written without the lock.
Stop_unlocked ==
  /\ pc[Owner] = "lock"
  /\ stop_' = TRUE
  /\ Goto(Owner, "notify")
  /\ UNCHANGED <<queue_, mu_, task, given, runs>>

Stop ==
  /\ pc[Owner] = "lock" /\ mu_ = None
  /\ stop_' = TRUE
  /\ Goto(Owner, "notify")
  /\ UNCHANGED <<queue_, mu_, task, given, runs>>

\* Slip: notify_one in place of notify_all.
NotifyAll_one ==
  /\ pc[Owner] = "notify"
  /\ \/ Asleep = {} /\ Goto(Owner, "join")
     \/ \E w \in Asleep : pc' = [pc EXCEPT ![Owner] = "join", ![w] = "lock"]
  /\ UNCHANGED <<queue_, mu_, stop_, task, given, runs>>

NotifyAll ==
  /\ pc[Owner] = "notify"
  /\ pc' = [t \in Threads |-> IF t = Owner THEN "join"
                              ELSE IF t \in Asleep THEN "lock" ELSE pc[t]]
  /\ UNCHANGED <<queue_, mu_, stop_, task, given, runs>>

\* Every thread has been joined; the members are destroyed.
Join ==
  /\ pc[Owner] = "join" /\ \A w \in Workers : pc[w] = "exit"
  /\ Goto(Owner, "gone")
  /\ UNCHANGED <<queue_, mu_, stop_, task, given, runs>>

-----------------------------------------------------------------------------
\* The steps of a worker that has just locked mu_.
Locked(w) == Take(w) \/ Test(w) \/ Leave(w)
worker_loop(w) == Locked(w) \/ Run(w) \/ Sleep(w)

\* The pool is gone: nothing is left to do.
Done == pc[Owner] = "gone" /\ UNCHANGED vars

Next ==
  \/ \E w \in Workers : worker_loop(w) \/ SpuriousWakeup(w)
  \/ \E p \in Producers : Push(p) \/ NotifyOne(p) \/ \E x \in Tasks : Call(p, x)
  \/ Destroy \/ Stop \/ NotifyAll \/ Join \/ Done

Spec == Init /\ [][Next]_vars

(* Every thread is scheduled again and again, every task returns, and a    *)
(* thread that waits for mu_ gets it if mu_ is free again and again (a     *)
(* worker that keeps waking up spuriously frees it each time).  Nothing    *)
(* obliges a producer to call queue() or the owner to destroy the pool.    *)
Fairness ==
  /\ \A w \in Workers :
       SF_vars(Locked(w)) /\ WF_vars(Run(w)) /\ WF_vars(Sleep(w))
  /\ \A p \in Producers : SF_vars(Push(p)) /\ WF_vars(NotifyOne(p))
  /\ SF_vars(Stop) /\ WF_vars(NotifyAll) /\ WF_vars(Join)
FairSpec == Spec /\ Fairness

-----------------------------------------------------------------------------
(* Properties.                                                             *)

Queued == {queue_[i] : i \in DOMAIN queue_}
InHand == {task[t] : t \in Workers \cup Producers} \ {None}

WorkerPC == {"lock", "wait", "sleep", "run", "exit"}
ProducerPC == {"idle", "lock", "notify"}
OwnerPC == {"idle", "lock", "notify", "join", "gone"}

\* Every variable stays in its type.
TypeOK ==
  /\ queue_ \in Seq(Tasks) /\ mu_ \in Workers \cup {None} /\ stop_ \in BOOLEAN
  /\ pc \in [Threads -> WorkerPC \cup ProducerPC \cup OwnerPC]
  /\ \A w \in Workers : pc[w] \in WorkerPC
  /\ \A p \in Producers : pc[p] \in ProducerPC
  /\ pc[Owner] \in OwnerPC
  /\ task \in [Workers \cup Producers -> Tasks \cup {None}]
  /\ given \in SUBSET Tasks
  /\ runs \in [Tasks -> Nat]

(* "every queued task runs exactly once" (tests/threadpool): a task that   *)
(* was given to queue() is in one place only - with a producer, in the     *)
(* queue, with a worker - until it has been run, once, and in none after.  *)
ExactlyOnce ==
  /\ \A i, j \in DOMAIN queue_ : queue_[i] = queue_[j] => i = j
  /\ \A t, u \in Workers \cup Producers :
       task[t] # None /\ task[t] = task[u] => t = u
  /\ Queued \cap InHand = {} /\ Queued \cup InHand \subseteq given
  /\ \A x \in Tasks : runs[x] = IF x \in given \ (Queued \cup InHand) THEN 1 ELSE 0

(* A queued task is never forgotten: some worker is awake and will look at *)
(* the queue, or the producer that pushed it has yet to notify one.        *)
NoForgottenTask ==
  queue_ # <<>> => \/ \E w \in Workers : pc[w] \in {"lock", "run"}
                   \/ \E p \in Producers : pc[p] = "notify"

(* No worker sleeps through the destructor: after notify_all every worker  *)
(* is awake, because stop_ was set under the lock.                         *)
NobodySleepsThroughStop ==
  pc[Owner] \in {"join", "gone"} =>
    \A w \in Workers : pc[w] \in {"lock", "run", "exit"}

(* "workers drain the queue first": when the destructor returns every task *)
(* ever queued has been run and no thread uses the members any more.       *)
DrainedBeforeGone ==
  pc[Owner] = "gone" =>
    /\ queue_ = <<>> /\ mu_ = None
    /\ \A w \in Workers : pc[w] = "exit"
    /\ \A x \in given : runs[x] = 1

(* "never run tasks holding the lock" (thread_pool.cpp:41): a thread that  *)
(* finds mu_ taken waits for a worker that is about to sleep in wait() and *)
(* never for a task, so neither queue(), which the event loop calls, nor   *)
(* another worker nor the destructor is held up by a long teardown.        *)
TasksRunUnlocked == mu_ # None => pc[mu_] = "wait"

\* The destructor returns, also when it starts with tasks still queued.
DestructorReturns == pc[Owner] = "lock" ~> pc[Owner] = "gone"

(* The pool implements TaskPool: what is queued or being run is pending,   *)
(* and under Fairness every pending task is finished.                      *)
Pool == INSTANCE TaskPool WITH
          pending <- Queued \cup InHand,
          finished <- {x \in Tasks : runs[x] > 0},
          closed <- pc[Owner] = "gone"
ImplementsTaskPool == Pool!PoolSpec
ImplementsFairTaskPool == Pool!FairPoolSpec
=============================================================================
