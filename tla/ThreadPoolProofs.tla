-------------------------- MODULE ThreadPoolProofs --------------------------
(***************************************************************************)
(* Proofs about ThreadPool, for any number of workers, producers and       *)
(* tasks.  The inductive invariant IInv adds to the properties what each   *)
(* program counter says about the mutex, the queue and stop_.              *)
(***************************************************************************)
EXTENDS ThreadPool, TLAPS

\* mu_ is held exactly by a worker that found nothing to do.
LockOK ==
  \A w \in Workers : /\ pc[w] = "wait" <=> mu_ = w
                     /\ pc[w] = "wait" => queue_ = <<>> /\ ~ stop_
\* stop_ follows the destructor, which runs alone.
StopOK ==
  /\ stop_ <=> pc[Owner] \in {"notify", "join", "gone"}
  /\ pc[Owner] # "idle" => \A p \in Producers : pc[p] = "idle"
  /\ pc[Owner] = "gone" => \A w \in Workers : pc[w] = "exit"
\* Workers leave only when there is nothing left, for good.
ExitOK == \A w \in Workers : pc[w] = "exit" => stop_ /\ queue_ = <<>>
\* A thread holds a task while it queues or runs it.
HandOK ==
  /\ \A w \in Workers : task[w] # None <=> pc[w] = "run"
  /\ \A p \in Producers : task[p] # None <=> pc[p] = "lock"

Control ==
  /\ TypeOK /\ LockOK /\ StopOK /\ ExitOK /\ HandOK
  /\ NoForgottenTask /\ NobodySleepsThroughStop
IInv == Control /\ ExactlyOnce

-----------------------------------------------------------------------------
(* The tasks in flight.                                                    *)

Holders == Workers \cup Producers

\* Popping the front removes one task from the queue, and only that one.
LEMMA PopQueued ==
  ASSUME TypeOK, ExactlyOnce, queue_ # <<>>, queue_' = Tail(queue_)
  PROVE  /\ Head(queue_) \in Queued
         /\ Queued' = Queued \ {Head(queue_)}
         /\ \A i, j \in DOMAIN queue_' : queue_'[i] = queue_'[j] => i = j
<1>1. /\ Len(queue_) \in Nat \ {0} /\ DOMAIN queue_ = 1 .. Len(queue_)
      /\ Head(queue_) = queue_[1]
      /\ DOMAIN queue_' = 1 .. Len(queue_) - 1
      /\ \A i \in 1 .. Len(queue_) - 1 : queue_'[i] = queue_[i + 1]
  BY DEF TypeOK
<1>2. \A i, j \in 1 .. Len(queue_) : queue_[i] = queue_[j] => i = j
  BY <1>1 DEF ExactlyOnce
<1>3. \A x : x \in Queued' <=> \E i \in 1 .. Len(queue_) - 1 : queue_[i + 1] = x
  BY <1>1, Zenon DEF Queued
<1>4. \A x : x \in Queued <=> \E i \in 1 .. Len(queue_) : queue_[i] = x
  BY <1>1 DEF Queued
<1>5. ASSUME NEW x PROVE x \in Queued' <=> x \in Queued /\ x # queue_[1]
  <2>1. ASSUME x \in Queued' PROVE x \in Queued /\ x # queue_[1]
    <3>1. PICK i \in 1 .. Len(queue_) - 1 : queue_[i + 1] = x
      BY <1>3, <2>1
    <3>2. i + 1 \in 1 .. Len(queue_) /\ 1 \in 1 .. Len(queue_) /\ i + 1 # 1
      BY <1>1
    <3> QED
      BY <1>2, <1>4, <3>1, <3>2
  <2>2. ASSUME x \in Queued, x # queue_[1] PROVE x \in Queued'
    <3>1. PICK i \in 1 .. Len(queue_) : queue_[i] = x
      BY <1>4, <2>2
    <3>2. i - 1 \in 1 .. Len(queue_) - 1 /\ (i - 1) + 1 = i
      BY <1>1, <2>2, <3>1
    <3> QED
      BY <1>3, <3>1, <3>2, Zenon
  <2> QED
    BY <2>1, <2>2
<1>6. Head(queue_) \in Queued
  BY <1>1, <1>4
<1>7. \A i, j \in 1 .. Len(queue_) - 1 : queue_'[i] = queue_'[j] => i = j
  BY <1>1, <1>2
<1> QED
  BY <1>1, <1>5, <1>6, <1>7

\* Pushing a new task adds one task to the queue, and only that one.
LEMMA PushQueued ==
  ASSUME TypeOK, ExactlyOnce, NEW x \in Tasks, x \notin Queued,
         queue_' = Append(queue_, x)
  PROVE  /\ Queued' = Queued \cup {x}
         /\ \A i, j \in DOMAIN queue_' : queue_'[i] = queue_'[j] => i = j
<1>1. /\ Len(queue_) \in Nat /\ DOMAIN queue_ = 1 .. Len(queue_)
      /\ DOMAIN queue_' = 1 .. Len(queue_) + 1
      /\ \A i \in 1 .. Len(queue_) : queue_'[i] = queue_[i]
      /\ queue_'[Len(queue_) + 1] = x
  BY DEF TypeOK
<1>2. \A y : y \in Queued' <=> \E i \in 1 .. Len(queue_) + 1 : queue_'[i] = y
  BY <1>1 DEF Queued
<1>3. \A y : y \in Queued <=> \E i \in 1 .. Len(queue_) : queue_[i] = y
  BY <1>1 DEF Queued
<1>4. \A i \in 1 .. Len(queue_) + 1 : i = Len(queue_) + 1 \/ i \in 1 .. Len(queue_)
  BY <1>1
<1>5. 1 .. Len(queue_) \subseteq 1 .. Len(queue_) + 1
      /\ Len(queue_) + 1 \in 1 .. Len(queue_) + 1
  BY <1>1
<1>6. ASSUME NEW y PROVE y \in Queued' <=> y \in Queued \/ y = x
  BY <1>1, <1>2, <1>3, <1>4, <1>5
<1>7. \A i, j \in 1 .. Len(queue_) : queue_[i] = queue_[j] => i = j
  BY <1>1 DEF ExactlyOnce
<1>8. \A i \in 1 .. Len(queue_) : queue_[i] # x
  BY <1>3
<1> QED
  BY <1>1, <1>4, <1>6, <1>7, <1>8

\* A thread that drops its task drops one task from those in hand.
LEMMA DropInHand ==
  ASSUME TypeOK, ExactlyOnce, NEW t \in Holders, task[t] # None,
         task' = [task EXCEPT ![t] = None]
  PROVE  /\ task[t] \in InHand /\ task[t] \in Tasks
         /\ InHand' = InHand \ {task[t]}
         /\ \A u, v \in Holders : task'[u] # None /\ task'[u] = task'[v] => u = v
<1>1. /\ task \in [Holders -> Tasks \cup {None}]
      /\ \A u, v \in Holders : task[u] # None /\ task[u] = task[v] => u = v
  BY DEF TypeOK, ExactlyOnce, Holders
<1>2. \A u \in Holders : task'[u] = IF u = t THEN None ELSE task[u]
  BY <1>1
<1>3. \A x : x \in InHand <=> x # None /\ \E u \in Holders : task[u] = x
  BY DEF InHand, Holders
<1>4. \A x : x \in InHand' <=> x # None /\ \E u \in Holders : task'[u] = x
  BY DEF InHand, Holders
<1>5. ASSUME NEW x PROVE x \in InHand' <=> x \in InHand /\ x # task[t]
  BY <1>1, <1>2, <1>3, <1>4
<1> QED
  BY <1>1, <1>2, <1>3, <1>5

\* A thread with no task that takes a new one adds it to those in hand.
LEMMA TakeInHand ==
  ASSUME TypeOK, ExactlyOnce, NEW t \in Holders, task[t] = None,
         NEW x \in Tasks, x \notin InHand,
         task' = [task EXCEPT ![t] = x]
  PROVE  /\ InHand' = InHand \cup {x}
         /\ \A u, v \in Holders : task'[u] # None /\ task'[u] = task'[v] => u = v
<1>1. /\ task \in [Holders -> Tasks \cup {None}] /\ x # None
      /\ \A u, v \in Holders : task[u] # None /\ task[u] = task[v] => u = v
  BY ThreadsAssumption DEF TypeOK, ExactlyOnce, Holders
<1>2. \A u \in Holders : task'[u] = IF u = t THEN x ELSE task[u]
  BY <1>1
<1>3. \A y : y \in InHand <=> y # None /\ \E u \in Holders : task[u] = y
  BY DEF InHand, Holders
<1>4. \A y : y \in InHand' <=> y # None /\ \E u \in Holders : task'[u] = y
  BY DEF InHand, Holders
<1>5. ASSUME NEW y PROVE y \in InHand' <=> y \in InHand \/ y = x
  BY <1>1, <1>2, <1>3, <1>4
<1>6. \A u \in Holders : task[u] # x
  BY <1>1, <1>3
<1> QED
  BY <1>1, <1>2, <1>5, <1>6

-----------------------------------------------------------------------------
(* Each step, as TaskPool sees it.                                         *)

InFlight == Queued \cup InHand
Ran == {x \in Tasks : runs[x] > 0}

\* Steps that move no task.
LEMMA FrameFlight ==
  ASSUME ExactlyOnce, UNCHANGED <<queue_, task, given, runs>>
  PROVE  ExactlyOnce' /\ InFlight' = InFlight /\ Ran' = Ran
BY DEF ExactlyOnce, InFlight, Ran, Queued, InHand

\* A call of queue() puts one new task in flight.
LEMMA CallFlight ==
  ASSUME IInv, NEW p \in Producers, NEW x \in Tasks, Call(p, x)
  PROVE  /\ ExactlyOnce' /\ InFlight' = InFlight \cup {x} /\ Ran' = Ran
         /\ x \notin InFlight \cup Ran
<1>1. /\ TypeOK /\ ExactlyOnce /\ p \in Holders /\ task[p] = None
      /\ x \notin given /\ given' = given \cup {x}
      /\ queue_' = queue_ /\ runs' = runs
      /\ task' = [task EXCEPT ![p] = x]
  BY DEF IInv, Control, HandOK, Call, Holders
<1>2. x \notin Queued /\ x \notin InHand /\ Queued' = Queued
  BY <1>1 DEF ExactlyOnce, Queued
<1>3. /\ InHand' = InHand \cup {x}
      /\ \A u, v \in Holders : task'[u] # None /\ task'[u] = task'[v] => u = v
  BY <1>1, <1>2, TakeInHand, Zenon
<1>4. runs[x] = 0
  BY <1>1 DEF ExactlyOnce
<1>5. ExactlyOnce'
  BY <1>1, <1>2, <1>3 DEF ExactlyOnce, Holders
<1> QED
  BY <1>1, <1>2, <1>3, <1>4, <1>5 DEF InFlight, Ran

\* The push moves the task from the producer's hand to the queue.
LEMMA PushFlight ==
  ASSUME IInv, NEW p \in Producers, Push(p)
  PROVE  ExactlyOnce' /\ InFlight' = InFlight /\ Ran' = Ran
<1>1. /\ TypeOK /\ ExactlyOnce /\ p \in Holders /\ task[p] # None
      /\ given' = given /\ runs' = runs
      /\ queue_' = Append(queue_, task[p])
      /\ task' = [task EXCEPT ![p] = None]
  BY DEF IInv, Control, HandOK, Push, Holders
<1>2. /\ task[p] \in InHand /\ task[p] \in Tasks
      /\ InHand' = InHand \ {task[p]}
      /\ \A u, v \in Holders : task'[u] # None /\ task'[u] = task'[v] => u = v
  BY <1>1, DropInHand, Zenon
<1>3. task[p] \notin Queued
  BY <1>1, <1>2 DEF ExactlyOnce
<1>4. /\ Queued' = Queued \cup {task[p]}
      /\ \A i, j \in DOMAIN queue_' : queue_'[i] = queue_'[j] => i = j
  BY <1>1, <1>2, <1>3, PushQueued
<1>5. ExactlyOnce'
  BY <1>1, <1>2, <1>3, <1>4 DEF ExactlyOnce, Holders
<1> QED
  BY <1>1, <1>2, <1>4, <1>5 DEF InFlight, Ran

\* The pop moves the oldest task from the queue to the worker's hand.
LEMMA TakeFlight ==
  ASSUME IInv, NEW w \in Workers, Take(w)
  PROVE  ExactlyOnce' /\ InFlight' = InFlight /\ Ran' = Ran
<1> DEFINE x == Head(queue_)
<1>1. /\ TypeOK /\ ExactlyOnce /\ w \in Holders /\ task[w] = None
      /\ given' = given /\ runs' = runs
      /\ queue_ # <<>> /\ queue_' = Tail(queue_)
      /\ task' = [task EXCEPT ![w] = x]
  BY DEF IInv, Control, HandOK, Take, Holders
<1>2. /\ x \in Queued /\ Queued' = Queued \ {x}
      /\ \A i, j \in DOMAIN queue_' : queue_'[i] = queue_'[j] => i = j
  BY <1>1, PopQueued
<1>3. x \in Tasks /\ x \notin InHand
  BY <1>1, <1>2 DEF ExactlyOnce, TypeOK
<1>4. /\ InHand' = InHand \cup {x}
      /\ \A u, v \in Holders : task'[u] # None /\ task'[u] = task'[v] => u = v
  BY <1>1, <1>3, TakeInHand, Zenon
<1> HIDE DEF x
<1>5. ExactlyOnce'
  BY <1>1, <1>2, <1>3, <1>4 DEF ExactlyOnce, Holders
<1> QED
  BY <1>1, <1>2, <1>4, <1>5 DEF InFlight, Ran

\* A run takes the task out of flight, having run it for the first time.
LEMMA RunFlight ==
  ASSUME IInv, NEW w \in Workers, Run(w)
  PROVE  /\ ExactlyOnce' /\ task[w] \in InFlight /\ task[w] \in Tasks
         /\ InFlight' = InFlight \ {task[w]} /\ Ran' = Ran \cup {task[w]}
<1>1. /\ TypeOK /\ ExactlyOnce /\ w \in Holders /\ task[w] # None
      /\ given' = given /\ queue_' = queue_
      /\ runs' = [runs EXCEPT ![task[w]] = @ + 1]
      /\ task' = [task EXCEPT ![w] = None]
  BY DEF IInv, Control, HandOK, Run, Holders
<1>2. /\ task[w] \in InHand /\ task[w] \in Tasks
      /\ InHand' = InHand \ {task[w]}
      /\ \A u, v \in Holders : task'[u] # None /\ task'[u] = task'[v] => u = v
  BY <1>1, DropInHand, Zenon
<1>3. /\ Queued' = Queued /\ task[w] \notin Queued /\ task[w] \in given
      /\ runs[task[w]] = 0
  BY <1>1, <1>2 DEF ExactlyOnce, Queued
<1>4. \A x \in Tasks : runs'[x] = IF x = task[w] THEN 1 ELSE runs[x]
  BY <1>1, <1>2, <1>3 DEF TypeOK
<1>5. ExactlyOnce'
  BY <1>1, <1>2, <1>3, <1>4 DEF ExactlyOnce, Holders
<1> QED
  BY <1>1, <1>2, <1>3, <1>4, <1>5 DEF InFlight, Ran

-----------------------------------------------------------------------------
(* The inductive invariant.                                                *)

\* The pool starts in its invariant.
LEMMA InitEstablishes == Init => IInv
<1> SUFFICES ASSUME Init PROVE IInv
  OBVIOUS
<1> USE ThreadsAssumption DEF Init, Threads
<1>0. TypeOK
  <2>1. queue_ \in Seq(Tasks) /\ runs \in [Tasks -> Nat]
    OBVIOUS
  <2>2. /\ mu_ \in Workers \cup {None} /\ stop_ \in BOOLEAN
        /\ given \in SUBSET Tasks
    BY Zenon
  <2>3. task \in [Workers \cup Producers -> Tasks \cup {None}]
    OBVIOUS
  <2>4. /\ \A w \in Workers : pc[w] = "lock"
        /\ \A p \in Producers : pc[p] = "idle"
        /\ pc[Owner] = "idle"
    OBVIOUS
  <2>5. pc \in [Threads -> {"lock", "idle"}]
    OBVIOUS
  <2> QED
    BY <2>1, <2>2, <2>3, <2>4, <2>5 DEF TypeOK, WorkerPC, ProducerPC, OwnerPC
<1>1. Control
  <2>1. LockOK /\ ExitOK
    BY DEF LockOK, ExitOK
  <2>2. StopOK /\ NobodySleepsThroughStop
    BY DEF StopOK, NobodySleepsThroughStop
  <2>3. HandOK /\ NoForgottenTask
    BY DEF HandOK, NoForgottenTask
  <2> QED
    BY <1>0, <2>1, <2>2, <2>3 DEF Control
<1>2. Queued = {} /\ InHand = {}
  BY DEF Init, Queued, InHand
<1>3. ExactlyOnce
  BY <1>2 DEF Init, ExactlyOnce
<1> QED
  BY <1>1, <1>3 DEF IInv

\* The steps of a worker keep the control part.
LEMMA WorkerControl ==
  ASSUME Control, NEW w \in Workers, worker_loop(w) \/ SpuriousWakeup(w)
  PROVE  Control'
<1> USE ThreadsAssumption
    DEF Control, TypeOK, LockOK, StopOK, ExitOK, HandOK, NoForgottenTask,
        NobodySleepsThroughStop, Threads, WorkerPC, ProducerPC, OwnerPC, Goto
<1>1. CASE Take(w)
  <2>1. Head(queue_) \in Tasks /\ Tail(queue_) \in Seq(Tasks)
    BY <1>1 DEF Take
  <2> QED
    BY <1>1, <2>1 DEF Take
<1>2. CASE Run(w)
  <2>1. runs' \in [Tasks -> Nat]
    BY <1>2 DEF Run
  <2> QED
    BY <1>2, <2>1 DEF Run
<1>3. CASE Test(w)
  BY <1>3 DEF Test
<1>4. CASE Sleep(w)
  BY <1>4 DEF Sleep
<1>5. CASE Leave(w)
  BY <1>5 DEF Leave
<1>6. CASE SpuriousWakeup(w)
  BY <1>6 DEF SpuriousWakeup
<1> QED
  BY <1>1, <1>2, <1>3, <1>4, <1>5, <1>6, Zenon DEF worker_loop, Locked

\* The steps of a producer keep the control part.
LEMMA ProducerControl ==
  ASSUME Control, NEW p \in Producers,
         Push(p) \/ NotifyOne(p) \/ \E x \in Tasks : Call(p, x)
  PROVE  Control'
<1> USE ThreadsAssumption
    DEF Control, TypeOK, LockOK, StopOK, ExitOK, HandOK, NoForgottenTask,
        NobodySleepsThroughStop, Threads, WorkerPC, ProducerPC, OwnerPC, Goto
<1>1. CASE Push(p)
  <2>1. task[p] \in Tasks /\ ~ stop_ /\ mu_ = None
    BY <1>1 DEF Push
  <2>2. queue_' \in Seq(Tasks)
    BY <1>1, <2>1 DEF Push
  <2> QED
    BY <1>1, <2>1, <2>2 DEF Push
<1>2. CASE NotifyOne(p)
  <2>1. CASE Asleep = {}
    <3>1. pc' = [pc EXCEPT ![p] = "idle"]
          /\ UNCHANGED <<queue_, mu_, stop_, task, given, runs>>
      BY <1>2, <2>1 DEF NotifyOne
    <3>2. queue_ # <<>> => \E w \in Workers : pc[w] \in {"lock", "run"}
      BY <2>1 DEF Asleep
    <3>3. NoForgottenTask'
      BY <3>1, <3>2
    <3>4. TypeOK' /\ StopOK' /\ NobodySleepsThroughStop'
      BY <3>1
    <3>5. LockOK' /\ ExitOK' /\ HandOK'
      BY <1>2, <3>1 DEF NotifyOne
    <3> QED
      BY <3>3, <3>4, <3>5
  <2>2. CASE Asleep # {}
    <3>1. PICK w \in Workers :
             /\ pc[w] = "sleep" /\ pc' = [pc EXCEPT ![p] = "idle", ![w] = "lock"]
             /\ UNCHANGED <<queue_, mu_, stop_, task, given, runs>>
      BY <1>2, <2>2 DEF NotifyOne, Asleep
    <3>2. pc[p] = "notify" /\ p # w /\ ~ stop_
      BY <1>2 DEF NotifyOne
    <3>3. NoForgottenTask' /\ NobodySleepsThroughStop'
      BY <3>1, <3>2
    <3>4. TypeOK' /\ StopOK'
      BY <3>1, <3>2, Zenon
    <3>5. LockOK' /\ ExitOK' /\ HandOK'
      BY <3>1, <3>2
    <3> QED
      BY <3>3, <3>4, <3>5
  <2> QED
    BY <2>1, <2>2, Zenon
<1>3. CASE \E x \in Tasks : Call(p, x)
  BY <1>3 DEF Call
<1> QED
  BY <1>1, <1>2, <1>3, Zenon

\* The steps of the destructor keep the control part.
LEMMA OwnerControl ==
  ASSUME Control, Destroy \/ Stop \/ NotifyAll \/ Join
  PROVE  Control'
<1> USE ThreadsAssumption
    DEF Control, TypeOK, LockOK, StopOK, ExitOK, HandOK, NoForgottenTask,
        NobodySleepsThroughStop, Threads, WorkerPC, ProducerPC, OwnerPC, Goto
<1>1. CASE Destroy
  BY <1>1 DEF Destroy
<1>2. CASE Stop
  BY <1>2 DEF Stop
<1>3. CASE NotifyAll
  BY <1>3 DEF NotifyAll, Asleep
<1>4. CASE Join
  BY <1>4 DEF Join
<1> QED
  BY <1>1, <1>2, <1>3, <1>4, Zenon

(* Every step keeps the invariant and is a step of TaskPool or a stutter   *)
(* under the mapping of ThreadPool.                                        *)
LEMMA StepImplements ==
  ASSUME IInv, [Next]_vars
  PROVE  IInv' /\ [Pool!PoolNext]_(Pool!pvars)
<1> DEFINE Stutter == InFlight' = InFlight /\ Ran' = Ran
           SameGone == (pc[Owner] = "gone")' = (pc[Owner] = "gone")
<1>1. Stutter /\ SameGone => [Pool!PoolNext]_(Pool!pvars)
  BY DEF InFlight, Ran, Pool!pvars
<1>2. ASSUME NEW w \in Workers, worker_loop(w) \/ SpuriousWakeup(w)
      PROVE  IInv' /\ [Pool!PoolNext]_(Pool!pvars)
  <2>1. Control'
    BY <1>2, WorkerControl DEF IInv
  <2>2. SameGone
    BY <1>2, ThreadsAssumption
    DEF IInv, Control, TypeOK, Threads, worker_loop, Locked, Take, Test, Leave,
        Run, Sleep, SpuriousWakeup, Goto
  <2>3. CASE Run(w)
    <3>1. /\ ExactlyOnce' /\ task[w] \in InFlight /\ task[w] \in Tasks
          /\ InFlight' = InFlight \ {task[w]} /\ Ran' = Ran \cup {task[w]}
      BY <2>3, RunFlight
    <3>2. PICK x \in Tasks : x = task[w]
      BY <3>1
    <3>3. Pool!Finish(x)
      BY <2>2, <3>1, <3>2 DEF Pool!Finish, InFlight, Ran
    <3> QED
      BY <2>1, <3>1, <3>3 DEF IInv, Pool!PoolNext
  <2>4. CASE Take(w)
    BY <1>1, <2>1, <2>2, <2>4, TakeFlight DEF IInv
  <2>5. CASE ~ Run(w) /\ ~ Take(w)
    <3>1. UNCHANGED <<queue_, task, given, runs>>
      BY <1>2, <2>5 DEF worker_loop, Locked, Test, Leave, Sleep, SpuriousWakeup
    <3> QED
      BY <1>1, <2>1, <2>2, <3>1, FrameFlight DEF IInv
  <2> QED
    BY <2>3, <2>4, <2>5
<1>3. ASSUME NEW p \in Producers,
             Push(p) \/ NotifyOne(p) \/ \E x \in Tasks : Call(p, x)
      PROVE  IInv' /\ [Pool!PoolNext]_(Pool!pvars)
  <2>1. Control'
    BY <1>3, ProducerControl DEF IInv
  <2>2. SameGone
    BY <1>3, ThreadsAssumption
    DEF IInv, Control, TypeOK, Threads, Push, NotifyOne, Asleep, Call, Goto
  <2>3. CASE Push(p)
    BY <1>1, <2>1, <2>2, <2>3, PushFlight DEF IInv
  <2>4. CASE NotifyOne(p)
    BY <1>1, <2>1, <2>2, <2>4, FrameFlight DEF IInv, NotifyOne
  <2>5. CASE \E x \in Tasks : Call(p, x)
    <3>1. PICK x \in Tasks : Call(p, x)
      BY <2>5
    <3>2. /\ ExactlyOnce' /\ InFlight' = InFlight \cup {x} /\ Ran' = Ran
          /\ x \notin InFlight \cup Ran
      BY <3>1, CallFlight
    <3>3. pc[Owner] # "gone"
      BY <3>1 DEF Call
    <3>4. Pool!Submit(x)
      BY <2>2, <3>2, <3>3 DEF Pool!Submit, InFlight, Ran
    <3> QED
      BY <2>1, <3>2, <3>4 DEF IInv, Pool!PoolNext
  <2> QED
    BY <1>3, <2>3, <2>4, <2>5
<1>4. ASSUME Destroy \/ Stop \/ NotifyAll \/ Join
      PROVE  IInv' /\ [Pool!PoolNext]_(Pool!pvars)
  <2>1. Control'
    BY <1>4, OwnerControl DEF IInv
  <2>2. ExactlyOnce' /\ Stutter
    BY <1>4, FrameFlight DEF IInv, Destroy, Stop, NotifyAll, Join
  <2>3. CASE Join
    <3>1. queue_ = <<>> /\ \A t \in Workers \cup Producers : task[t] = None
      BY <2>3, ThreadsAssumption DEF IInv, Control, ExitOK, HandOK, StopOK, Join
    <3>2. InFlight = {}
      BY <3>1 DEF InFlight, Queued, InHand
    <3>3. (pc[Owner] = "gone")' = TRUE
      BY <2>3 DEF Join, Goto, Threads, IInv, Control, TypeOK
    <3>4. Pool!Close
      BY <2>2, <3>2, <3>3 DEF Pool!Close, InFlight, Ran
    <3> QED
      BY <2>1, <2>2, <3>4 DEF IInv, Pool!PoolNext
  <2>4. CASE ~ Join
    <3>1. SameGone
      BY <1>4, <2>4 DEF Destroy, Stop, NotifyAll, Goto, Threads, IInv, Control, TypeOK
    <3> QED
      BY <1>1, <2>1, <2>2, <3>1 DEF IInv
  <2> QED
    BY <2>3, <2>4
<1>5. CASE UNCHANGED vars
  BY <1>5, SMTT(30)
  DEF vars, IInv, Control, ExactlyOnce, TypeOK, LockOK, StopOK, ExitOK, HandOK,
      NoForgottenTask, NobodySleepsThroughStop, Queued, InHand, Pool!pvars
<1> QED
  BY <1>2, <1>3, <1>4, <1>5 DEF Next, Done

-----------------------------------------------------------------------------
(* The theorems.                                                           *)

(* IInv holds throughout: the mutex protocol, the tasks in flight and the  *)
(* program counters of workers, producers and destructor agree.            *)
THEOREM Invariance == Spec => []IInv
<1>1. IInv /\ [Next]_vars => IInv'
  BY StepImplements
<1> QED
  BY InitEstablishes, <1>1, PTL DEF Spec

(* Every variable of the pool keeps its type: the queue holds tasks and    *)
(* each thread is at a point of its own function.                          *)
THEOREM TypeCorrect == Spec => []TypeOK
<1>1. IInv => TypeOK
  BY DEF IInv, Control
<1> QED
  BY Invariance, <1>1, PTL

(* Every task handed to queue() is in one place until it has been run, and *)
(* it is run once, for any number of workers, producers and tasks.         *)
THEOREM RunOnce == Spec => []ExactlyOnce
<1>1. IInv => ExactlyOnce
  BY DEF IInv
<1> QED
  BY Invariance, <1>1, PTL

(* No task is left in the queue with every worker asleep and no            *)
(* notification under way: queue() loses no wakeup.                        *)
THEOREM NoLostWakeup == Spec => []NoForgottenTask
<1>1. IInv => NoForgottenTask
  BY DEF IInv, Control
<1> QED
  BY Invariance, <1>1, PTL

(* Once the destructor has notified the workers none of them sleeps, so    *)
(* its joins wait only for workers that are on their way out.              *)
THEOREM StopIsSeen == Spec => []NobodySleepsThroughStop
<1>1. IInv => NobodySleepsThroughStop
  BY DEF IInv, Control
<1> QED
  BY Invariance, <1>1, PTL

(* When the destructor returns the queue is empty, the mutex free, every   *)
(* worker has left and every task was run.                                 *)
THEOREM Drained == Spec => []DrainedBeforeGone
<1>1. IInv => DrainedBeforeGone
  <2> SUFFICES ASSUME IInv, pc[Owner] = "gone" PROVE DrainedBeforeGone
    BY DEF DrainedBeforeGone
  <2>1. /\ \A w \in Workers : pc[w] = "exit"
        /\ \A p \in Producers : pc[p] = "idle"
    BY DEF IInv, Control, StopOK
  <2>2. queue_ = <<>> /\ mu_ = None
    BY <2>1, ThreadsAssumption DEF IInv, Control, ExitOK, LockOK, TypeOK
  <2>3. Queued = {} /\ InHand = {}
    BY <2>1, <2>2 DEF IInv, Control, HandOK, Queued, InHand
  <2>4. \A x \in given : runs[x] = 1
    BY <2>3 DEF IInv, Control, TypeOK, ExactlyOnce
  <2> QED
    BY <2>1, <2>2, <2>4 DEF DrainedBeforeGone
<1> QED
  BY Invariance, <1>1, PTL

(* Tasks run without the lock, so a long teardown on a worker never keeps  *)
(* the event loop out of queue().                                          *)
THEOREM RunUnlocked == Spec => []TasksRunUnlocked
<1>1. IInv => TasksRunUnlocked
  BY DEF IInv, Control, LockOK, TypeOK, TasksRunUnlocked
<1> QED
  BY Invariance, <1>1, PTL

(* The pool implements TaskPool (its safety part): queue() submits, a run  *)
(* finishes, and only an empty pool closes.                                *)
THEOREM Refinement == Spec => ImplementsTaskPool
<1>1. Init => Pool!PoolInit
  BY ThreadsAssumption DEF Init, Pool!PoolInit, Queued, InHand, Threads
<1>2. IInv /\ [Next]_vars => [Pool!PoolNext]_(Pool!pvars)
  BY StepImplements
<1> QED
  BY Invariance, <1>1, <1>2, PTL DEF Spec, ImplementsTaskPool, Pool!PoolSpec
=============================================================================
