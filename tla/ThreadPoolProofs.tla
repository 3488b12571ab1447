-------------------------- MODULE ThreadPoolProofs --------------------------
(***************************************************************************)
(* Proofs about the thread pool for any number of producers, workers,      *)
(* tasks and rounds.                                                       *)
(***************************************************************************)
EXTENDS ThreadPool, FiniteSetTheorems, TLAPS

(***************************************************************************)
(* One notify moves one waiter, and only a waiter, to the state it tries   *)
(* again from.                                                             *)
(***************************************************************************)
\* What pthread_cond_signal does to the threads of one condition variable.
LEMMA NotifyEffect ==
    ASSUME NEW D, NEW V, NEW st \in [D -> V], NEW again \in V, again # "wait",
           NEW st2 \in Notify(st, again)
    PROVE  /\ st2 \in [D -> V]
           /\ \/ st2 = st /\ \A x \in D : st[x] # "wait"
              \/ \E x \in D : st[x] = "wait" /\ st2 = [st EXCEPT ![x] = again]
  BY DEF Notify, Waiting

\* What pthread_cond_broadcast does: nobody is left waiting.
LEMMA NotifyAllEffect ==
    ASSUME NEW D, NEW V, NEW st \in [D -> V], NEW again \in V, again # "wait"
    PROVE  /\ NotifyAll(st, again) \in [D -> V]
           /\ \A x \in D : NotifyAll(st, again)[x]
                             = IF st[x] = "wait" THEN again ELSE st[x]
  BY DEF NotifyAll

\* The states the waiters of the two condition variables try again from.
LEMMA AgainStates ==
    /\ "pop" \in WorkerStates /\ "push" \in ProducerStates
    /\ "pop" # "wait" /\ "push" # "wait"
  BY DEF WorkerStates, ProducerStates

\* A push on the second of two concatenated sequences.
LEMMA PushConcat ==
    ASSUME NEW a \in Seq(Tasks), NEW b \in Seq(Tasks), NEW f \in Tasks
    PROVE  a \o Append(b, f) = Append(a \o b, f)
  OBVIOUS

(***************************************************************************)
(* The inductive invariant of the queue and the workers.                   *)
(***************************************************************************)
\* running_ is set exactly between Start and Stop, and only then may a worker
\* sleep on cond_empty_.
RunningInv ==
    /\ running_ <=> ctl \in {"starting", "started"}
    /\ \A w \in Workers : worker[w] = "wait" => running_

\* Everything of the safety argument that needs no counting.
PInv == PoolTypeOK /\ RunningInv /\ PoolFifo /\ NoSleepOverTasks

\* A new pool satisfies it.
LEMMA InitPInv == PoolInit => PInv
<1> SUFFICES ASSUME PoolInit PROVE PInv
  OBVIOUS
<1>1. (CHOOSE f \in Tasks : TRUE) \in Tasks
  BY TasksAssumption
<1>2. PoolTypeOK
  <2>1. index \in 0..NumThreads
    BY PoolAssumption DEF PoolInit
  <2>2. MaxQueueSize > 0 => Len(queue_) <= MaxQueueSize
    BY PoolAssumption DEF PoolInit
  <2>3. running_ \in BOOLEAN /\ sized \in BOOLEAN /\ aborted \in BOOLEAN
    BY Zenon DEF PoolInit
  <2>4. /\ worker \in [Workers -> WorkerStates]
        /\ joined_ \in [Workers -> BOOLEAN]
        /\ producer \in [Producers -> ProducerStates]
        /\ arg \in [Producers -> Tasks]
    BY <1>1 DEF PoolInit, WorkerStates, ProducerStates
  <2> QED
    BY <2>1, <2>2, <2>3, <2>4 DEF PoolInit, PoolTypeOK
<1>3. RunningInv /\ PoolFifo /\ NoSleepOverTasks
  BY DEF PoolInit, RunningInv, PoolFifo, NoSleepOverTasks
<1> QED
  BY <1>2, <1>3 DEF PInv

\* The controller's steps preserve it.
LEMMA ControlPInv ==
    ASSUME PInv, Start \/ StartWorker \/ Stop \/ StopJoin
    PROVE  PInv'
<1> USE DEF PInv, poolHistory, WorkerStates, ProducerStates
<1>1. CASE Start
  <2>1. PoolTypeOK'
    <3>1. index' \in 0..NumThreads /\ rounds' \in Nat
      BY <1>1, PoolAssumption DEF Start, PoolTypeOK
    <3>2. running_' \in BOOLEAN /\ sized' \in BOOLEAN /\ aborted' \in BOOLEAN
      BY <1>1, Zenon DEF Start, PoolTypeOK
    <3>3. ctl' \in {"stopped", "starting", "started", "joining"}
      BY <1>1 DEF Start, PoolTypeOK
    <3> QED
      BY <1>1, <3>1, <3>2, <3>3 DEF Start, PoolTypeOK
  <2>2. RunningInv'
    BY <1>1 DEF Start, RunningInv
  <2>3. (PoolFifo /\ NoSleepOverTasks)'
    BY <1>1 DEF Start, PoolFifo, NoSleepOverTasks, Awake
  <2> QED
    BY <2>1, <2>2, <2>3
<1>2. CASE StartWorker
  <2>1. index + 1 \in Workers
    BY <1>2, PoolAssumption DEF StartWorker, ThreadStart, PoolTypeOK, Workers
  <2>2. PoolTypeOK'
    <3>1. index' \in 0..NumThreads
      BY <1>2, PoolAssumption DEF StartWorker, ThreadStart, PoolTypeOK
    <3> QED
      BY <1>2, <2>1, <3>1 DEF StartWorker, ThreadStart, PoolTypeOK
  <2>3. RunningInv'
    BY <1>2 DEF StartWorker, ThreadStart, RunningInv, PoolTypeOK
  <2>4. PoolFifo'
    BY <1>2 DEF StartWorker, ThreadStart, PoolFifo
  <2>5. NoSleepOverTasks'
    BY <1>2, <2>1 DEF StartWorker, ThreadStart, NoSleepOverTasks, Awake, PoolTypeOK
  <2> QED
    BY <2>2, <2>3, <2>4, <2>5
<1>3. CASE Stop
  <2>1. /\ worker' \in [Workers -> WorkerStates]
        /\ \A w \in Workers : worker'[w] # "wait"
    <3> HIDE DEF WorkerStates
    <3>1. worker \in [Workers -> WorkerStates]
      BY DEF PoolTypeOK
    <3>2. worker' = NotifyAll(worker, "pop")
      BY <1>3 DEF Stop
    <3> QED
      BY <3>1, <3>2, NotifyAllEffect, AgainStates
  <2>2. PoolTypeOK'
    <3>1. index' \in 0..NumThreads
      BY <1>3, PoolAssumption DEF Stop
    <3> QED
      BY <1>3, <2>1, <3>1 DEF Stop, PoolTypeOK
  <2>3. (RunningInv /\ PoolFifo /\ NoSleepOverTasks)'
    BY <1>3, <2>1 DEF Stop, RunningInv, PoolFifo, NoSleepOverTasks
  <2> QED
    BY <2>2, <2>3
<1>4. CASE StopJoin
  <2>1. PoolTypeOK'
    <3>1. CASE ~sized \/ index = NumThreads
      BY <1>4, <3>1 DEF StopJoin, ThreadJoin, PoolTypeOK
    <3>2. CASE ~(~sized \/ index = NumThreads)
      <4>1. index + 1 \in Workers /\ index' \in 0..NumThreads
        BY <1>4, <3>2, PoolAssumption DEF StopJoin, ThreadJoin, PoolTypeOK, Workers
      <4>2. aborted' \in BOOLEAN
        BY <1>4, <3>2, <4>1 DEF StopJoin, ThreadJoin, PoolTypeOK
      <4> QED
        BY <1>4, <3>2, <4>1, <4>2 DEF StopJoin, ThreadJoin, PoolTypeOK
    <3> QED
      BY <3>1, <3>2
  <2>2. RunningInv'
    BY <1>4 DEF StopJoin, ThreadJoin, RunningInv
  <2>3. (PoolFifo /\ NoSleepOverTasks)'
    BY <1>4 DEF StopJoin, ThreadJoin, PoolFifo, NoSleepOverTasks, Awake
  <2> QED
    BY <2>1, <2>2, <2>3
<1> QED
  BY <1>1, <1>2, <1>3, <1>4

\* The producers' steps preserve it.  A push that finds a sleeping worker
\* leaves one awake.
LEMMA ProducerPInv ==
    ASSUME PInv, NEW p \in Producers,
           \/ \E f \in Tasks : PushTask(p, f)
           \/ PushEnter(p) \/ SpuriousProducer(p)
    PROVE  PInv'
<1> USE DEF PInv, poolHistory, WorkerStates, ProducerStates
<1>1. ASSUME NEW f \in Tasks, PushTask(p, f)
      PROVE  PInv'
  <2>1. PoolTypeOK'
    BY <1>1 DEF PushTask, PoolTypeOK
  <2> QED
    BY <1>1, <2>1 DEF PushTask, RunningInv, PoolFifo, NoSleepOverTasks, Awake
<1>2. CASE PushEnter(p) /\ Full
  <2>1. PoolTypeOK'
    BY <1>2 DEF PushEnter, PoolTypeOK
  <2> QED
    BY <1>2, <2>1 DEF PushEnter, RunningInv, PoolFifo, NoSleepOverTasks, Awake
<1>3. CASE PushEnter(p) /\ ~Full
  <2>1. /\ queue_' = Append(queue_, arg[p])
        /\ pushed' = Append(pushed, arg[p])
        /\ arg[p] \in Tasks
    BY <1>3 DEF PushEnter, PoolTypeOK
  <2>2. worker' \in Notify(worker, "pop")
    BY <1>3 DEF PushEnter
  <2>3. /\ worker' \in [Workers -> WorkerStates]
        /\ \/ worker' = worker /\ \A w \in Workers : worker[w] # "wait"
           \/ \E w \in Workers :
                worker[w] = "wait" /\ worker' = [worker EXCEPT ![w] = "pop"]
    <3> HIDE DEF WorkerStates
    <3>1. worker \in [Workers -> WorkerStates]
      BY DEF PoolTypeOK
    <3>2. CASE Waiting(worker) = {}
      BY <2>2, <3>1, <3>2 DEF Notify, Waiting
    <3>3. CASE Waiting(worker) # {}
      <4>1. PICK w \in Waiting(worker) : worker' = [worker EXCEPT ![w] = "pop"]
        BY <2>2, <3>3 DEF Notify
      <4> QED
        BY <3>1, <4>1, AgainStates DEF Waiting
    <3> QED
      BY <3>2, <3>3
  <2>4. PoolTypeOK'
    <3>1. /\ queue_' \in Seq(Tasks) /\ pushed' \in Seq(Tasks)
          /\ MaxQueueSize > 0 => Len(queue_') <= MaxQueueSize
      BY <1>3, <2>1, PoolAssumption DEF Full, PoolTypeOK
    <3>2. aborted' \in BOOLEAN
      BY <1>3, PoolAssumption DEF PushEnter, PoolTypeOK
    <3> QED
      BY <1>3, <2>3, <3>1, <3>2 DEF PushEnter, PoolTypeOK
  <2>5. RunningInv'
    BY <1>3, <2>3 DEF PushEnter, RunningInv, PoolTypeOK
  <2>6. PoolFifo'
    <3>1. taken \o Append(queue_, arg[p]) = Append(taken \o queue_, arg[p])
      BY <2>1, PushConcat DEF PoolTypeOK
    <3> QED
      BY <1>3, <2>1, <3>1 DEF PushEnter, PoolFifo
  <2>7. NoSleepOverTasks'
    BY <2>3 DEF NoSleepOverTasks, Awake, PoolTypeOK
  <2> QED
    BY <2>4, <2>5, <2>6, <2>7
<1>4. CASE SpuriousProducer(p)
  <2>1. PoolTypeOK'
    BY <1>4 DEF SpuriousProducer, PoolTypeOK
  <2> QED
    BY <1>4, <2>1
    DEF SpuriousProducer, RunningInv, PoolFifo, NoSleepOverTasks, Awake
<1> QED
  BY <1>1, <1>2, <1>3, <1>4 DEF PushEnter

\* The workers' steps preserve it: a worker falls asleep only over an empty
\* queue and ends only when no other sleeps.
LEMMA WorkerPInv ==
    ASSUME PInv, NEW w \in Workers, WorkerStep(w) \/ SpuriousWorker(w)
    PROVE  PInv'
<1> USE DEF PInv, poolHistory, WorkerStates, ProducerStates
<1>1. CASE RunTask(w)
  <2>1. PoolTypeOK'
    BY <1>1 DEF RunTask, PoolTypeOK
  <2> QED
    BY <1>1, <2>1
    DEF RunTask, RunningInv, PoolFifo, NoSleepOverTasks, Awake, PoolTypeOK
<1>2. CASE PopWait(w)
  <2>1. PoolTypeOK'
    BY <1>2 DEF PopWait, PoolTypeOK
  <2> QED
    BY <1>2, <2>1
    DEF PopWait, RunningInv, PoolFifo, NoSleepOverTasks, PoolTypeOK
<1>3. CASE PopTask(w)
  <2>1. /\ Head(queue_) \in Tasks /\ Tail(queue_) \in Seq(Tasks)
        /\ Len(Tail(queue_)) = Len(queue_) - 1 /\ Len(queue_) \in Nat
    BY <1>3 DEF PopTask, PoolTypeOK
  <2>2. producer' \in [Producers -> ProducerStates]
    <3>1. CASE MaxQueueSize > 0
      BY <1>3, <3>1, NotifyEffect DEF PopTask, PoolTypeOK
    <3> QED
      BY <1>3, <3>1 DEF PopTask, PoolTypeOK
  <2>3. PoolTypeOK'
    <3>1. MaxQueueSize > 0 => Len(queue_') <= MaxQueueSize
      BY <1>3, <2>1, PoolAssumption DEF PopTask, PoolTypeOK
    <3>2. aborted' \in BOOLEAN
      BY <1>3, Zenon DEF PopTask
    <3> QED
      BY <1>3, <2>1, <2>2, <3>1, <3>2 DEF PopTask, PoolTypeOK
  <2>4. PoolFifo'
    BY <1>3, <2>1, SMTT(30) DEF PopTask, PoolFifo, PoolTypeOK
  <2>5. (RunningInv /\ NoSleepOverTasks)'
    BY <1>3 DEF PopTask, RunningInv, NoSleepOverTasks, Awake, PoolTypeOK
  <2> QED
    BY <2>3, <2>4, <2>5
<1>4. CASE PopNothing(w)
  <2>1. PoolTypeOK'
    BY <1>4 DEF PopNothing, PoolTypeOK
  <2> QED
    BY <1>4, <2>1
    DEF PopNothing, RunningInv, PoolFifo, NoSleepOverTasks, PoolTypeOK
<1>5. CASE TaskReturns(w)
  <2>1. PoolTypeOK'
    BY <1>5 DEF TaskReturns, PoolTypeOK
  <2> QED
    BY <1>5, <2>1
    DEF TaskReturns, RunningInv, PoolFifo, NoSleepOverTasks, Awake, PoolTypeOK
<1>6. CASE SpuriousWorker(w)
  <2>1. PoolTypeOK'
    BY <1>6 DEF SpuriousWorker, PoolTypeOK
  <2> QED
    BY <1>6, <2>1
    DEF SpuriousWorker, RunningInv, PoolFifo, NoSleepOverTasks, Awake, PoolTypeOK
<1> QED
  BY <1>1, <1>2, <1>3, <1>4, <1>5, <1>6 DEF WorkerStep

\* The invariant is inductive.
LEMMA NextPInv == PInv /\ [PoolNext]_poolVars => PInv'
<1> SUFFICES ASSUME PInv, [PoolNext]_poolVars PROVE PInv'
  OBVIOUS
<1>1. CASE PoolNext
  BY <1>1, ControlPInv, ProducerPInv, WorkerPInv DEF PoolNext
<1>2. CASE UNCHANGED poolVars
  BY <1>2 DEF poolVars, poolHistory, PInv, PoolTypeOK, RunningInv, PoolFifo,
              NoSleepOverTasks, Awake
<1> QED
  BY <1>1, <1>2

\* The inductive invariant holds in every reachable state.
THEOREM PInvariant == PoolSpec => []PInv
  BY InitPInv, NextPInv, PTL DEF PoolSpec

\* Type correctness, and the queue never exceeds max_queue_size_.
THEOREM PoolTypeCorrect == PoolSpec => []PoolTypeOK
<1>1. PInv => PoolTypeOK
  BY DEF PInv
<1> QED
  BY PInvariant, <1>1, PTL

\* Tasks are taken in the order they were pushed, none lost or taken twice.
THEOREM PoolKeepsOrder == PoolSpec => []PoolFifo
<1>1. PInv => PoolFifo
  BY DEF PInv
<1> QED
  BY PInvariant, <1>1, PTL

\* The pool never sleeps as a whole over a task: one notify per push is
\* enough for any number of workers.
THEOREM WorkersNeverSleepOverTasks == PoolSpec => []NoSleepOverTasks
<1>1. PInv => NoSleepOverTasks
  BY DEF PInv
<1> QED
  BY PInvariant, <1>1, PTL

(***************************************************************************)
(* Producers and the room in the queue.  A count is needed: when several   *)
(* pops have made room before any of the woken producers has come back,    *)
(* there must be one of them for every free place.                         *)
(***************************************************************************)
\* The producers that are on their way into PushTask's critical section.
Pushers == {p \in Producers : producer[p] = "push"}

\* While a producer sleeps, every free place has a producer on its way.
RoomInv ==
    /\ IsFiniteSet(Pushers)
    /\ (\E p \in Producers : producer[p] = "wait") =>
        /\ MaxQueueSize > 0
        /\ MaxQueueSize <= Len(queue_) + Cardinality(Pushers)

\* One producer more on its way.
LEMMA PusherAdded ==
    ASSUME PoolTypeOK, IsFiniteSet(Pushers), NEW p \in Producers,
           producer[p] # "push", producer' = [producer EXCEPT ![p] = "push"]
    PROVE  /\ IsFiniteSet(Pushers')
           /\ Cardinality(Pushers') = Cardinality(Pushers) + 1
<1>1. Pushers' = Pushers \cup {p}
  BY DEF Pushers, PoolTypeOK
<1>2. p \notin Pushers
  BY DEF Pushers
<1> QED
  BY <1>1, <1>2, FS_AddElement

\* One producer less on its way.
LEMMA PusherGone ==
    ASSUME PoolTypeOK, IsFiniteSet(Pushers), NEW p \in Producers, NEW st,
           producer[p] = "push", st # "push",
           producer' = [producer EXCEPT ![p] = st]
    PROVE  /\ IsFiniteSet(Pushers')
           /\ Cardinality(Pushers') = Cardinality(Pushers) - 1
<1>1. Pushers' = Pushers \ {p}
  BY DEF Pushers, PoolTypeOK
<1>2. p \in Pushers
  BY DEF Pushers
<1> QED
  BY <1>1, <1>2, FS_RemoveElement

\* Nobody is on his way into a new pool.
LEMMA InitRoomInv == PoolInit => RoomInv
<1> SUFFICES ASSUME PoolInit PROVE RoomInv
  OBVIOUS
<1>1. Pushers = {} /\ ~\E p \in Producers : producer[p] = "wait"
  BY DEF PoolInit, Pushers
<1> QED
  BY <1>1, FS_EmptySet DEF RoomInv

\* A pop makes one place free and, when somebody sleeps, wakes one producer;
\* a push takes one place and is one producer less on its way.
LEMMA NextRoomInv == PInv /\ RoomInv /\ [PoolNext]_poolVars => RoomInv'
<1> SUFFICES ASSUME PInv, RoomInv, [PoolNext]_poolVars PROVE RoomInv'
  OBVIOUS
<1>0. /\ PoolTypeOK /\ IsFiniteSet(Pushers) /\ Cardinality(Pushers) \in Nat
      /\ Len(queue_) \in Nat
  BY FS_CardinalityType DEF PInv, RoomInv, PoolTypeOK
<1>1. CASE UNCHANGED <<producer, queue_>>
  BY <1>1 DEF RoomInv, Pushers
<1>2. ASSUME NEW p \in Producers, NEW f \in Tasks, PushTask(p, f), sized
      PROVE  RoomInv'
  <2>1. /\ producer[p] = "idle" /\ producer' = [producer EXCEPT ![p] = "push"]
        /\ queue_' = queue_
    BY <1>2 DEF PushTask
  <2>2. /\ IsFiniteSet(Pushers')
        /\ Cardinality(Pushers') = Cardinality(Pushers) + 1
    BY <1>0, <2>1, PusherAdded
  <2>3. (\E q \in Producers : producer'[q] = "wait")
            => \E q \in Producers : producer[q] = "wait"
    BY <1>0, <2>1 DEF PoolTypeOK
  <2> QED
    BY <1>0, <2>1, <2>2, <2>3, PoolAssumption DEF RoomInv
<1>3. ASSUME NEW p \in Producers, PushEnter(p)
      PROVE  RoomInv'
  <2>0. producer[p] = "push"
    BY <1>3 DEF PushEnter
  <2>1. CASE Full
    <3>1. producer' = [producer EXCEPT ![p] = "wait"] /\ queue_' = queue_
      BY <1>3, <2>1 DEF PushEnter
    <3>2. /\ IsFiniteSet(Pushers')
          /\ Cardinality(Pushers') = Cardinality(Pushers) - 1
      BY <1>0, <2>0, <3>1, PusherGone
    <3>3. Cardinality(Pushers') \in Nat
      BY <3>2, FS_CardinalityType
    <3> QED
      BY <1>0, <2>1, <3>1, <3>2, <3>3, PoolAssumption DEF RoomInv, Full
  <2>2. CASE ~Full
    <3>1. /\ producer' = [producer EXCEPT ![p] = "idle"]
          /\ queue_' = Append(queue_, arg[p]) /\ arg[p] \in Tasks
      BY <1>0, <1>3, <2>2 DEF PushEnter, PoolTypeOK
    <3>2. /\ IsFiniteSet(Pushers')
          /\ Cardinality(Pushers') = Cardinality(Pushers) - 1
      BY <1>0, <2>0, <3>1, PusherGone
    <3>3. Len(queue_') = Len(queue_) + 1
      BY <1>0, <3>1 DEF PoolTypeOK
    <3>4. (\E q \in Producers : producer'[q] = "wait")
              => \E q \in Producers : producer[q] = "wait"
      BY <1>0, <3>1 DEF PoolTypeOK
    <3> QED
      BY <1>0, <3>2, <3>3, <3>4, PoolAssumption DEF RoomInv
  <2> QED
    BY <2>1, <2>2
<1>4. ASSUME NEW p \in Producers, SpuriousProducer(p)
      PROVE  RoomInv'
  <2>1. /\ producer[p] = "wait" /\ producer' = [producer EXCEPT ![p] = "push"]
        /\ queue_' = queue_
    BY <1>4 DEF SpuriousProducer
  <2>2. /\ IsFiniteSet(Pushers')
        /\ Cardinality(Pushers') = Cardinality(Pushers) + 1
    BY <1>0, <2>1, PusherAdded
  <2> QED
    BY <1>0, <2>1, <2>2, PoolAssumption DEF RoomInv
<1>5. ASSUME NEW w \in Workers, PopTask(w)
      PROVE  RoomInv'
  <2>1. Len(queue_') = Len(queue_) - 1
    BY <1>0, <1>5 DEF PopTask, PoolTypeOK
  <2>2. CASE ~(\E q \in Producers : producer[q] = "wait") \/ ~(MaxQueueSize > 0)
    <3>1. producer' = producer
      BY <1>0, <1>5, <2>2 DEF PopTask, PoolTypeOK, Notify, Waiting
    <3> QED
      BY <2>2, <3>1 DEF RoomInv, Pushers
  <2>3. CASE (\E q \in Producers : producer[q] = "wait") /\ MaxQueueSize > 0
    <3>1. PICK q \in Producers : /\ producer[q] = "wait"
                                 /\ producer' = [producer EXCEPT ![q] = "push"]
      <4>1. producer' \in Notify(producer, "push")
        BY <1>5, <2>3 DEF PopTask
      <4>2. DOMAIN producer = Producers
        BY <1>0 DEF PoolTypeOK
      <4> QED
        BY <2>3, <4>1, <4>2 DEF Notify, Waiting
    <3>2. /\ IsFiniteSet(Pushers')
          /\ Cardinality(Pushers') = Cardinality(Pushers) + 1
      BY <1>0, <3>1, PusherAdded
    <3> QED
      BY <1>0, <2>1, <2>3, <3>2, PoolAssumption DEF RoomInv
  <2> QED
    BY <2>2, <2>3
<1>6. CASE PoolNext
  <2>1. CASE Start \/ StartWorker \/ Stop \/ StopJoin
    BY <2>1, <1>1 DEF Start, StartWorker, Stop, StopJoin
  <2>2. CASE \E p \in Producers : \E f \in Tasks : PushTask(p, f) /\ ~sized
    BY <2>2, <1>1 DEF PushTask
  <2>3. CASE \E w \in Workers : \/ RunTask(w) \/ PopWait(w) \/ PopNothing(w)
                                \/ TaskReturns(w) \/ SpuriousWorker(w)
    BY <2>3, <1>1 DEF RunTask, PopWait, PopNothing, TaskReturns, SpuriousWorker
  <2> QED
    BY <1>2, <1>3, <1>4, <1>5, <1>6, <2>1, <2>2, <2>3 DEF PoolNext, WorkerStep
<1> QED
  BY <1>1, <1>6 DEF poolVars

\* No producer sleeps over room in the queue that nobody is coming for: one
\* notify per pop is enough for any number of producers and any limit.
THEOREM ProducersNeverSleepOverRoom == PoolSpec => []NoSleepOverRoom
<1>1. PInv /\ RoomInv => NoSleepOverRoom
  <2> SUFFICES ASSUME PInv, RoomInv, \E p \in Producers : producer[p] = "wait",
                      ~Full
               PROVE  Pushers # {}
    BY DEF NoSleepOverRoom, Pushers
  <2>1. Len(queue_) \in Nat /\ Len(queue_) < MaxQueueSize
    BY PoolAssumption DEF PInv, PoolTypeOK, RoomInv, Full
  <2>2. Cardinality(Pushers) # 0
    BY <2>1, PoolAssumption, FS_CardinalityType DEF RoomInv
  <2> QED
    BY <2>2, FS_EmptySet
<1> QED
  BY <1>1, PInvariant, InitRoomInv, NextRoomInv, PTL DEF PoolSpec

(***************************************************************************)
(* The asserts.                                                            *)
(***************************************************************************)
\* No assert has failed, and the Thread objects that the controller has still
\* to join are not joined yet.
JoinInv ==
    /\ ~aborted
    /\ ctl = "starting" => \A w \in Workers : w <= index => ~joined_[w]
    /\ ctl = "started" => \A w \in Workers : ~joined_[w]
    /\ ctl = "joining" /\ sized => \A w \in Workers : w > index => ~joined_[w]

\* When Stop is not repeated and the queue has a limit, each step keeps it.
LEMMA NextJoinInv ==
    ASSUME ~RepeatedStop, MaxQueueSize > 0
    PROVE  PInv /\ JoinInv /\ [PoolNext]_poolVars => JoinInv'
<1> SUFFICES ASSUME PInv, JoinInv, [PoolNext]_poolVars PROVE JoinInv'
  OBVIOUS
<1>0. /\ PoolTypeOK /\ RunningInv /\ index \in 0..NumThreads /\ NumThreads \in Nat
      /\ MaxQueueSize \in Nat /\ Len(queue_) \in Nat /\ Len(queue_) <= MaxQueueSize
  BY PoolAssumption DEF PInv, PoolTypeOK
<1>1. CASE UNCHANGED <<aborted, ctl, index, joined_, sized>>
  BY <1>1 DEF JoinInv
<1>2. CASE Start
  <2>1. ~running_
    BY <1>0, <1>2 DEF Start, RunningInv
  <2>2. aborted' = aborted /\ ctl' = "starting" /\ index' = 0
    BY <1>2, <2>1 DEF Start
  <2>3. \A w \in Workers : ~(w <= 0)
    BY DEF Workers
  <2> QED
    BY <2>2, <2>3 DEF JoinInv
<1>3. CASE StartWorker
  <2>1. /\ index' = index + 1 /\ index + 1 \in Workers /\ ctl = "starting"
        /\ joined_' = [joined_ EXCEPT ![index + 1] = FALSE]
        /\ ctl' = IF index + 1 = NumThreads THEN "started" ELSE "starting"
        /\ aborted' = aborted
    BY <1>0, <1>3 DEF StartWorker, ThreadStart, Workers
  <2>2. \A w \in Workers : w <= index + 1 => ~joined_'[w]
    <3> SUFFICES ASSUME NEW w \in Workers, w <= index + 1 PROVE ~joined_'[w]
      OBVIOUS
    <3>1. w = index + 1 \/ w <= index
      BY <1>0 DEF Workers
    <3> QED
      BY <1>0, <2>1, <3>1 DEF JoinInv, PoolTypeOK
  <2>3. index + 1 = NumThreads => \A w \in Workers : w <= index + 1
    BY DEF Workers
  <2> QED
    BY <2>1, <2>2, <2>3 DEF JoinInv
<1>4. CASE Stop
  <2>1. /\ ctl' = "joining" /\ index' = 0 /\ aborted' = aborted
        /\ joined_' = joined_ /\ sized' = sized
        /\ ctl = "started" \/ ~sized
    BY <1>4 DEF Stop, MayStop
  <2> QED
    BY <2>1 DEF JoinInv
<1>5. CASE StopJoin
  <2>1. CASE ~sized \/ index = NumThreads
    BY <1>5, <2>1 DEF StopJoin, JoinInv
  <2>2. CASE sized /\ index # NumThreads
    <3>1. /\ index' = index + 1 /\ index + 1 \in Workers /\ index + 1 > index
          /\ joined_' = [joined_ EXCEPT ![index + 1] = TRUE]
          /\ aborted' = joined_[index + 1]
          /\ ctl = "joining" /\ ctl' = ctl /\ sized' = sized
      BY <1>0, <1>5, <2>2 DEF StopJoin, ThreadJoin, Workers
    <3>2. ~aborted'
      BY <2>2, <3>1 DEF JoinInv
    <3>3. \A w \in Workers : w > index + 1 => w > index /\ w # index + 1
      BY <1>0 DEF Workers
    <3>4. \A w \in Workers : w > index' => ~joined_'[w]
      BY <1>0, <2>2, <3>1, <3>3 DEF JoinInv, PoolTypeOK
    <3> QED
      BY <3>1, <3>2, <3>4 DEF JoinInv
  <2> QED
    BY <1>0, <2>1, <2>2
<1>6. ASSUME NEW p \in Producers, PushEnter(p)
      PROVE  JoinInv'
  <2>1. aborted' = aborted \/ aborted' = (Len(queue_) > MaxQueueSize)
    BY <1>6 DEF PushEnter
  <2>2. ~(Len(queue_) > MaxQueueSize)
    BY <1>0
  <2>3. ~aborted'
    BY <2>1, <2>2, Zenon DEF JoinInv
  <2> QED
    BY <1>6, <2>3 DEF PushEnter, JoinInv
<1>7. ASSUME NEW w \in Workers, PopTask(w)
      PROVE  JoinInv'
  <2>1. Len(queue_') = Len(queue_) - 1
    BY <1>0, <1>7 DEF PopTask, PoolTypeOK
  <2>2. Len(queue_') < MaxQueueSize
    BY <1>0, <2>1
  <2>3. ~aborted'
    BY <1>7, <2>2, Zenon DEF PopTask
  <2> QED
    BY <1>7, <2>3 DEF PopTask, JoinInv
<1>8. CASE PoolNext
  <2>1. CASE \E p \in Producers : \/ \E f \in Tasks : PushTask(p, f)
                                  \/ SpuriousProducer(p)
    BY <2>1, <1>1 DEF PushTask, SpuriousProducer
  <2>2. CASE \E w \in Workers : \/ RunTask(w) \/ PopWait(w) \/ PopNothing(w)
                                \/ TaskReturns(w) \/ SpuriousWorker(w)
    BY <2>2, <1>1 DEF RunTask, PopWait, PopNothing, TaskReturns, SpuriousWorker
  <2> QED
    BY <1>2, <1>3, <1>4, <1>5, <1>6, <1>7, <1>8, <2>1, <2>2
    DEF PoolNext, WorkerStep
<1> QED
  BY <1>1, <1>8 DEF poolVars

\* The asserts of Start, PushTask, PopTask and Thread::Join hold in a pool
\* with a limit that is stopped once for every start.  Both conditions are
\* needed: the run on a repeated Stop violates the assert of Thread::Join, and
\* with max_queue_size_ 0 those of PushTask and PopTask read it as a limit.
THEOREM AssertsHold ==
    ASSUME ~RepeatedStop, MaxQueueSize > 0
    PROVE  PoolSpec => []NoAssertFails
<1>1. PoolInit => JoinInv
  BY DEF PoolInit, JoinInv
<1>2. JoinInv => NoAssertFails
  BY DEF JoinInv, NoAssertFails
<1> QED
  BY <1>1, <1>2, PInvariant, NextJoinInv, PTL DEF PoolSpec

(***************************************************************************)
(* Refinement of Mailbox.                                                  *)
(***************************************************************************)
\* The tasks that producers are pushing are in no queue yet, and no two push
\* the same one.
Busy(p) == producer[p] # "idle"

PendingInv ==
    /\ \A p \in Producers : Busy(p) => ~InPool(arg[p]) /\ arg[p] \notin inline
    /\ \A p, q \in Producers : Busy(p) /\ Busy(q) /\ p # q => arg[p] # arg[q]

\* Steps that push nothing keep it.
LEMMA PendingStays ==
    ASSUME PendingInv, UNCHANGED <<arg, pushed, inline>>,
           \A p \in Producers : Busy(p)' => Busy(p)
    PROVE  PendingInv'
<1>1. \A f : InPool(f)' <=> InPool(f)
  BY DEF InPool
<1> QED
  BY <1>1 DEF PendingInv

\* PushTask: a fresh task is nobody else's.
LEMMA PushTaskPending ==
    ASSUME PoolTypeOK, PendingInv, NEW p \in Producers, NEW f \in Tasks, PushTask(p, f)
    PROVE  PendingInv'
<1>0. /\ producer[p] = "idle" /\ ~InPool(f) /\ f \notin inline
      /\ \A q \in Producers : Busy(q) => arg[q] # f
      /\ pushed' = pushed
  BY DEF PushTask, Fresh, Busy
<1>1. \A g : InPool(g)' <=> InPool(g)
  BY <1>0 DEF InPool
<1>2. CASE sized
  <2>1. /\ producer' = [producer EXCEPT ![p] = "push"] /\ arg' = [arg EXCEPT ![p] = f]
        /\ inline' = inline
    BY <1>2 DEF PushTask
  <2>2. \A q \in Producers : q # p => (Busy(q)' <=> Busy(q)) /\ arg'[q] = arg[q]
    BY <2>1 DEF PoolTypeOK, Busy
  <2>3. arg'[p] = f
    BY <2>1 DEF PoolTypeOK
  <2> QED
    BY <1>0, <1>1, <2>1, <2>2, <2>3 DEF PendingInv
<1>3. CASE ~sized
  <2>1. inline' = inline \cup {f} /\ producer' = producer /\ arg' = arg
    BY <1>3 DEF PushTask
  <2>2. \A q : Busy(q)' <=> Busy(q)
    BY <2>1 DEF Busy
  <2> QED
    BY <1>0, <1>1, <2>1, <2>2 DEF PendingInv
<1> QED
  BY <1>2, <1>3

\* The critical section of PushTask: the task enters the queue and its
\* producer is done with it.
LEMMA PushEnterPending ==
    ASSUME PoolTypeOK, PendingInv, NEW p \in Producers, PushEnter(p)
    PROVE  PendingInv'
<1>0. producer[p] = "push" /\ UNCHANGED <<arg, inline>>
  BY DEF PushEnter
<1>1. CASE Full
  <2>1. producer' = [producer EXCEPT ![p] = "wait"] /\ pushed' = pushed
    BY <1>1 DEF PushEnter
  <2>2. \A q \in Producers : Busy(q)' => Busy(q)
    BY <1>0, <2>1 DEF Busy, PoolTypeOK
  <2> QED
    BY <1>0, <2>1, <2>2, PendingStays
<1>2. CASE ~Full
  <2>1. producer' = [producer EXCEPT ![p] = "idle"] /\ pushed' = Append(pushed, arg[p])
    BY <1>2 DEF PushEnter
  <2>2. /\ \A q \in Producers : Busy(q)' => Busy(q) /\ q # p
        /\ Busy(p)
    BY <1>0, <2>1 DEF Busy, PoolTypeOK
  <2>3. \A g : InPool(g)' <=> InPool(g) \/ g = arg[p]
    <3>1. pushed \in Seq(Tasks) /\ arg[p] \in Tasks /\ Len(pushed) \in Nat
      BY DEF PoolTypeOK
    <3>2. /\ DOMAIN pushed = 1..Len(pushed) /\ DOMAIN pushed' = 1..(Len(pushed) + 1)
          /\ pushed'[Len(pushed) + 1] = arg[p]
          /\ \A i \in 1..Len(pushed) : pushed'[i] = pushed[i]
      BY <2>1, <3>1
    <3>3. \A i : i \in 1..(Len(pushed) + 1) <=> i \in 1..Len(pushed) \/ i = Len(pushed) + 1
      BY <3>1
    <3> QED
      BY <3>2, <3>3 DEF InPool
  <2> QED
    BY <1>0, <2>2, <2>3 DEF PendingInv
<1> QED
  BY <1>1, <1>2

\* Nobody pushes at first.
LEMMA InitPending == PoolInit => PendingInv
  BY DEF PoolInit, PendingInv, Busy

\* Every step keeps it.
LEMMA NextPending == PInv /\ PendingInv /\ [PoolNext]_poolVars => PendingInv'
<1> SUFFICES ASSUME PInv, PendingInv, [PoolNext]_poolVars PROVE PendingInv'
  OBVIOUS
<1>0. PoolTypeOK
  BY DEF PInv
<1>1. CASE UNCHANGED <<producer, arg, pushed, inline>>
  BY <1>1, PendingStays DEF Busy
<1>2. ASSUME NEW p \in Producers, NEW f \in Tasks, PushTask(p, f) PROVE PendingInv'
  BY <1>0, <1>2, PushTaskPending
<1>3. ASSUME NEW p \in Producers, PushEnter(p) PROVE PendingInv'
  BY <1>0, <1>3, PushEnterPending
<1>4. ASSUME NEW p \in Producers, SpuriousProducer(p) PROVE PendingInv'
  <2>1. \A q \in Producers : Busy(q)' => Busy(q)
    BY <1>0, <1>4 DEF SpuriousProducer, Busy, PoolTypeOK
  <2> QED
    BY <1>4, <2>1, PendingStays DEF SpuriousProducer, poolHistory
<1>5. ASSUME NEW w \in Workers, PopTask(w) PROVE PendingInv'
  <2>1. producer' = producer \/ producer' \in Notify(producer, "push")
    BY <1>5 DEF PopTask
  <2>2. producer' \in Notify(producer, "push") =>
            \A q \in Producers : producer'[q] = producer[q] \/ producer[q] = "wait"
    BY <1>0 DEF Notify, Waiting, PoolTypeOK
  <2>3. \A q \in Producers : Busy(q)' => Busy(q)
    BY <2>1, <2>2 DEF Busy
  <2> QED
    BY <1>5, <2>3, PendingStays DEF PopTask
<1>6. CASE PoolNext
  <2>1. CASE Start \/ StartWorker \/ Stop \/ StopJoin
    BY <2>1, <1>1 DEF Start, StartWorker, Stop, StopJoin, poolHistory
  <2>2. CASE \E w \in Workers : \/ RunTask(w) \/ PopWait(w) \/ PopNothing(w)
                                \/ TaskReturns(w) \/ SpuriousWorker(w)
    BY <2>2, <1>1
    DEF RunTask, PopWait, PopNothing, TaskReturns, SpuriousWorker, poolHistory
  <2> QED
    BY <1>2, <1>3, <1>4, <1>5, <1>6, <2>1, <2>2 DEF PoolNext, WorkerStep
<1> QED
  BY <1>1, <1>6 DEF poolVars, poolHistory

\* A task that was never pushed nor run is new to the abstract queue.
LEMMA UnseenIsNew ==
    ASSUME PInv, NEW f, ~InPool(f), f \notin inline
    PROVE  PoolMailbox!New(f)
<1>1. pushed = taken \o queue_ /\ taken \in Seq(Tasks) /\ queue_ \in Seq(Tasks)
  BY DEF PInv, PoolFifo, PoolTypeOK
<1>2. /\ \A i \in 1..Len(taken) : i \in DOMAIN (taken \o queue_)
                                  /\ taken[i] = (taken \o queue_)[i]
      /\ \A i \in 1..Len(queue_) : Len(taken) + i \in DOMAIN (taken \o queue_)
                                   /\ queue_[i] = (taken \o queue_)[Len(taken) + i]
  BY <1>1
<1>3. \A i \in DOMAIN (taken \o queue_) : (taken \o queue_)[i] # f
  BY <1>1 DEF InPool
<1>4. \A i \in 1..Len(taken) : taken[i] # f
  BY <1>2, <1>3
<1>5. \A i \in 1..Len(queue_) : queue_[i] # f
  BY <1>2, <1>3
<1> QED
  BY <1>4, <1>5 DEF PoolMailbox!New

\* A step of the pool is a step of the abstract queue or changes nothing it
\* shows.
LEMMA PoolSimulation ==
    PInv /\ PendingInv /\ [PoolNext]_poolVars
        => [PoolMailbox!MailboxNext]_(PoolMailbox!mailboxVars)
<1> SUFFICES ASSUME PInv, PendingInv, [PoolNext]_poolVars
             PROVE  [PoolMailbox!MailboxNext]_(PoolMailbox!mailboxVars)
  OBVIOUS
<1>0. PoolTypeOK
  BY DEF PInv
<1>1. CASE UNCHANGED <<queue_, taken, inline>>
  BY <1>1 DEF PoolMailbox!mailboxVars
<1>2. ASSUME NEW p \in Producers, NEW f \in Tasks, PushTask(p, f), ~sized
      PROVE  PoolMailbox!RunDirect(f)
  <2>1. PoolMailbox!New(f)
    BY <1>2, UnseenIsNew DEF PushTask, Fresh
  <2> QED
    BY <1>2, <2>1 DEF PushTask, PoolMailbox!RunDirect
<1>3. ASSUME NEW p \in Producers, PushEnter(p), ~Full
      PROVE  arg[p] \in Tasks /\ PoolMailbox!Submit(arg[p])
  <2>1. arg[p] \in Tasks /\ Busy(p)
    BY <1>0, <1>3 DEF PoolTypeOK, PushEnter, Busy
  <2>2. PoolMailbox!New(arg[p])
    BY <2>1, UnseenIsNew DEF PendingInv
  <2> QED
    BY <1>3, <2>1, <2>2 DEF PushEnter, PoolMailbox!Submit
<1>4. ASSUME NEW w \in Workers, PopTask(w)
      PROVE  PoolMailbox!Execute
  BY <1>4 DEF PopTask, PoolMailbox!Execute
<1>5. CASE PoolNext
  <2>1. CASE Start \/ StartWorker \/ Stop \/ StopJoin
    BY <2>1, <1>1 DEF Start, StartWorker, Stop, StopJoin, poolHistory
  <2>2. CASE \E p \in Producers : \E f \in Tasks : PushTask(p, f)
    <3>1. PICK p \in Producers, f \in Tasks : PushTask(p, f)
      BY <2>2
    <3>2. CASE sized
      BY <1>1, <3>1, <3>2 DEF PushTask
    <3>3. CASE ~sized
      BY <1>2, <3>1, <3>3 DEF PoolMailbox!MailboxNext
    <3> QED
      BY <3>2, <3>3
  <2>3. CASE \E p \in Producers : PushEnter(p)
    <3>1. PICK p \in Producers : PushEnter(p)
      BY <2>3
    <3>2. CASE Full
      BY <1>1, <3>1, <3>2 DEF PushEnter
    <3>3. CASE ~Full
      BY <1>3, <3>1, <3>3 DEF PoolMailbox!MailboxNext
    <3> QED
      BY <3>2, <3>3
  <2>4. CASE \E p \in Producers : SpuriousProducer(p)
    BY <2>4, <1>1 DEF SpuriousProducer, poolHistory
  <2>5. CASE \E w \in Workers : PopTask(w)
    BY <1>4, <2>5 DEF PoolMailbox!MailboxNext
  <2>6. CASE \E w \in Workers : \/ RunTask(w) \/ PopWait(w) \/ PopNothing(w)
                                \/ TaskReturns(w) \/ SpuriousWorker(w)
    BY <2>6, <1>1
    DEF RunTask, PopWait, PopNothing, TaskReturns, SpuriousWorker, poolHistory
  <2> QED
    BY <1>5, <2>1, <2>2, <2>3, <2>4, <2>5, <2>6 DEF PoolNext, WorkerStep
<1> QED
  BY <1>1, <1>5 DEF poolVars, poolHistory

\* The pool keeps the promise of the abstract queue: every task is run once,
\* at once by its producer or in its turn by a worker, for any number of
\* producers, workers and rounds and any limit of the queue.
THEOREM PoolKeepsPromise == PoolSpec => PoolImplementsMailbox
<1>1. PoolInit => PoolMailbox!MailboxInit
  BY DEF PoolInit, PoolMailbox!MailboxInit
<1> QED
  BY <1>1, PInvariant, InitPending, NextPending, PoolSimulation, PTL
  DEF PoolSpec, PoolImplementsMailbox, PoolMailbox!MailboxSpec
=============================================================================
