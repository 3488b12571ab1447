----------------------------- MODULE ThreadPool -----------------------------
(***************************************************************************)
(* The thread pool (thread/threadpool.cc): producers push tasks on a       *)
(* bounded blocking queue, workers pop and run them, and one controller    *)
(* starts and stops the pool.  A step is one critical section of mutex_, a *)
(* return from one of its two condition variables being a new attempt to   *)
(* enter it, or one access outside of it.                                  *)
(***************************************************************************)
EXTENDS Naturals, Sequences

CONSTANTS
    Producers,      \* threads that call PushTask
    NumThreads,     \* num_threads of Start
    MaxQueueSize,   \* max_queue_size_, where 0 means no limit
    Tasks,
    MaxRounds,      \* bound on the calls of Start
    RepeatedStop    \* may Stop be called again on a stopped pool?

ASSUME PoolAssumption ==
    /\ NumThreads \in Nat \ {0}
    /\ MaxQueueSize \in Nat
    /\ MaxRounds \in Nat
    /\ RepeatedStop \in BOOLEAN

ASSUME TasksAssumption == Tasks # {}

Workers == 1..NumThreads

VARIABLES
    running_,
    queue_,
    sized,      \* worker_threads_ is not empty
    worker,     \* where each worker is in RunTask and PopTask
    joined_,    \* Thread::joined_ of each worker
    producer,   \* where each producer is in PushTask
    arg,        \* the task each producer is pushing
    ctl,        \* where the controller is in Start and Stop
    index,      \* its loop variable: workers created, or joined, so far
    rounds,     \* history: calls of Start
    aborted,    \* an assert has failed
    pushed,     \* history: tasks in the order they entered queue_
    taken,      \* history: tasks in the order workers took them
    inline      \* history: tasks their producer ran itself

poolHistory == <<rounds, pushed, taken, inline>>
poolVars == <<running_, queue_, sized, worker, joined_, producer, arg, ctl,
              index, aborted, poolHistory>>

WorkerStates == {"none", "test", "pop", "wait", "task", "exited"}
ProducerStates == {"idle", "push", "wait"}

\* Types, and the limit of the blocking queue.
PoolTypeOK ==
    /\ running_ \in BOOLEAN
    /\ queue_ \in Seq(Tasks)
    /\ MaxQueueSize > 0 => Len(queue_) <= MaxQueueSize
    /\ sized \in BOOLEAN
    /\ worker \in [Workers -> WorkerStates]
    /\ joined_ \in [Workers -> BOOLEAN]
    /\ producer \in [Producers -> ProducerStates]
    /\ arg \in [Producers -> Tasks]
    /\ ctl \in {"stopped", "starting", "started", "joining"}
    /\ index \in 0..NumThreads
    /\ rounds \in Nat
    /\ aborted \in BOOLEAN
    /\ pushed \in Seq(Tasks)
    /\ taken \in Seq(Tasks)
    /\ inline \subseteq Tasks

PoolInit ==
    /\ running_ = FALSE
    /\ queue_ = <<>>
    /\ sized = FALSE
    /\ worker = [w \in Workers |-> "none"]
    /\ joined_ = [w \in Workers |-> FALSE]
    /\ producer = [p \in Producers |-> "idle"]
    /\ arg = [p \in Producers |-> CHOOSE f \in Tasks : TRUE]
    /\ ctl = "stopped"
    /\ index = 0
    /\ rounds = 0
    /\ aborted = FALSE
    /\ pushed = <<>>
    /\ taken = <<>>
    /\ inline = {}

\* The threads blocked on a condition variable, by the state they wait in.
Waiting(st) == {x \in DOMAIN st : st[x] = "wait"}

\* pthread_cond_signal: one waiter, if there is one, tries again.
Notify(st, again) ==
    IF Waiting(st) = {} THEN {st}
    ELSE {[st EXCEPT ![x] = again] : x \in Waiting(st)}

\* pthread_cond_broadcast.
NotifyAll(st, again) ==
    [x \in DOMAIN st |-> IF st[x] = "wait" THEN again ELSE st[x]]

-----------------------------------------------------------------------------
(***************************************************************************)
(* Start and Stop, by the controller.                                      *)
(***************************************************************************)
\* The assert, running_ = true and the resize of worker_threads_.
Start ==
    /\ ~aborted
    /\ ctl = "stopped"
    /\ rounds < MaxRounds
    /\ rounds' = rounds + 1
    /\ IF running_
       THEN aborted' = TRUE /\ UNCHANGED <<running_, sized, ctl, index>>
       ELSE /\ running_' = TRUE
            /\ sized' = TRUE
            /\ ctl' = "starting"
            /\ index' = 0
            /\ UNCHANGED aborted
    /\ UNCHANGED <<queue_, worker, joined_, producer, arg, pushed, taken, inline>>

\* Thread's constructor and Thread::Start: a thread that enters RunTask.
ThreadStart(w) ==
    /\ worker' = [worker EXCEPT ![w] = "test"]
    /\ joined_' = [joined_ EXCEPT ![w] = FALSE]

\* One turn of the loop: a new Thread object, started.
StartWorker ==
    /\ ~aborted
    /\ ctl = "starting"
    /\ index < NumThreads
    /\ ThreadStart(index + 1)
    /\ index' = index + 1
    /\ ctl' = IF index + 1 = NumThreads THEN "started" ELSE "starting"
    /\ UNCHANGED <<running_, queue_, sized, producer, arg, aborted, poolHistory>>

MayStop ==
    \/ ctl = "started"
    \/ ctl = "stopped" /\ (RepeatedStop \/ ~sized)

\* Faulty variant of Stop: notify in place of notifyAll.
StopNotifyOne ==
    /\ ~aborted
    /\ MayStop
    /\ running_' = FALSE
    /\ worker' \in Notify(worker, "pop")
    /\ ctl' = "joining"
    /\ index' = 0
    /\ UNCHANGED <<queue_, sized, joined_, producer, arg, aborted, poolHistory>>

\* The critical section of Stop.  cond_full_ is not notified.
Stop ==
    /\ ~aborted
    /\ MayStop
    /\ running_' = FALSE
    /\ worker' = NotifyAll(worker, "pop")
    /\ ctl' = "joining"
    /\ index' = 0
    /\ UNCHANGED <<queue_, sized, joined_, producer, arg, aborted, poolHistory>>

\* Thread::Join: the assert that it is the first, and pthread_join.
ThreadJoin(w) ==
    /\ joined_[w] \/ worker[w] = "exited"
    /\ aborted' = joined_[w]
    /\ joined_' = [joined_ EXCEPT ![w] = TRUE]

\* One turn of the loop over worker_threads_.
StopJoin ==
    /\ ~aborted
    /\ ctl = "joining"
    /\ IF ~sized \/ index = NumThreads
       THEN ctl' = "stopped" /\ UNCHANGED <<joined_, index, aborted>>
       ELSE /\ ThreadJoin(index + 1)
            /\ index' = index + 1
            /\ UNCHANGED ctl
    /\ UNCHANGED <<running_, queue_, sized, worker, producer, arg, poolHistory>>

-----------------------------------------------------------------------------
(***************************************************************************)
(* PushTask.                                                               *)
(***************************************************************************)
InPool(f) == \E i \in DOMAIN pushed : pushed[i] = f
Fresh(f) ==
    /\ ~InPool(f)
    /\ f \notin inline
    /\ \A p \in Producers : producer[p] # "idle" => arg[p] # f

\* worker_threads_.empty(), read without the mutex.
PushTask(p, f) ==
    /\ ~aborted
    /\ producer[p] = "idle"
    /\ Fresh(f)
    /\ IF sized
       THEN /\ producer' = [producer EXCEPT ![p] = "push"]
            /\ arg' = [arg EXCEPT ![p] = f]
            /\ UNCHANGED inline
       ELSE inline' = inline \cup {f} /\ UNCHANGED <<producer, arg>>
    /\ UNCHANGED <<running_, queue_, sized, worker, joined_, ctl, index,
                   aborted, rounds, pushed, taken>>

\* Faulty variant of Full: off by one.
FullLate == MaxQueueSize > 0 /\ Len(queue_) > MaxQueueSize

\* The condition of the wait on cond_full_.
Full == MaxQueueSize > 0 /\ Len(queue_) >= MaxQueueSize

\* Faulty variant of PushEnter: the push wakes nobody.
PushEnterSilent(p) ==
    /\ ~aborted
    /\ producer[p] = "push"
    /\ IF Full
       THEN /\ producer' = [producer EXCEPT ![p] = "wait"]
            /\ UNCHANGED <<queue_, pushed, aborted>>
       ELSE /\ aborted' = (Len(queue_) > MaxQueueSize)
            /\ queue_' = Append(queue_, arg[p])
            /\ pushed' = Append(pushed, arg[p])
            /\ producer' = [producer EXCEPT ![p] = "idle"]
    /\ UNCHANGED <<running_, sized, worker, joined_, arg, ctl, index, rounds,
                   taken, inline>>

\* The critical section: wait while full, or push and notify.
PushEnter(p) ==
    /\ ~aborted
    /\ producer[p] = "push"
    /\ IF Full
       THEN /\ producer' = [producer EXCEPT ![p] = "wait"]
            /\ UNCHANGED <<queue_, pushed, worker, aborted>>
       ELSE /\ aborted' = (Len(queue_) > MaxQueueSize)
            /\ queue_' = Append(queue_, arg[p])
            /\ pushed' = Append(pushed, arg[p])
            /\ worker' \in Notify(worker, "pop")
            /\ producer' = [producer EXCEPT ![p] = "idle"]
    /\ UNCHANGED <<running_, sized, joined_, arg, ctl, index, rounds, taken,
                   inline>>

-----------------------------------------------------------------------------
(***************************************************************************)
(* RunTask and PopTask, by each worker.                                    *)
(***************************************************************************)
\* while (running_), read without the mutex.
RunTask(w) ==
    /\ ~aborted
    /\ worker[w] = "test"
    /\ worker' = [worker EXCEPT ![w] = IF running_ THEN "pop" ELSE "exited"]
    /\ UNCHANGED <<running_, queue_, sized, joined_, producer, arg, ctl, index,
                   aborted, poolHistory>>

\* The wait of PopTask.
PopWait(w) ==
    /\ ~aborted
    /\ worker[w] = "pop"
    /\ queue_ = <<>> /\ running_
    /\ worker' = [worker EXCEPT ![w] = "wait"]
    /\ UNCHANGED <<running_, queue_, sized, joined_, producer, arg, ctl, index,
                   aborted, poolHistory>>

\* Faulty variant of PopTask: forgets cond_full_.
PopTaskSilent(w) ==
    /\ ~aborted
    /\ worker[w] = "pop"
    /\ queue_ # <<>>
    /\ taken' = Append(taken, Head(queue_))
    /\ queue_' = Tail(queue_)
    /\ aborted' = ~(Len(queue_') < MaxQueueSize)
    /\ worker' = [worker EXCEPT ![w] = "task"]
    /\ UNCHANGED <<running_, sized, joined_, producer, arg, ctl, index, rounds,
                   pushed, inline>>

\* Faulty variant of PopTask: runs a copy of the front and leaves it.
PopTaskPeek(w) ==
    /\ ~aborted
    /\ worker[w] = "pop"
    /\ queue_ # <<>>
    /\ taken' = Append(taken, Head(queue_))
    /\ worker' = [worker EXCEPT ![w] = "task"]
    /\ UNCHANGED <<running_, queue_, sized, joined_, producer, arg, ctl, index,
                   aborted, rounds, pushed, inline>>

\* The rest of PopTask when there is a task, with its assert.
PopTask(w) ==
    /\ ~aborted
    /\ worker[w] = "pop"
    /\ queue_ # <<>>
    /\ taken' = Append(taken, Head(queue_))
    /\ queue_' = Tail(queue_)
    /\ aborted' = ~(Len(queue_') < MaxQueueSize)
    /\ producer' \in IF MaxQueueSize > 0 THEN Notify(producer, "push")
                     ELSE {producer}
    /\ worker' = [worker EXCEPT ![w] = "task"]
    /\ UNCHANGED <<running_, sized, joined_, arg, ctl, index, rounds, pushed,
                   inline>>

\* PopTask returns an empty function because the pool was stopped.
PopNothing(w) ==
    /\ ~aborted
    /\ worker[w] = "pop"
    /\ queue_ = <<>> /\ ~running_
    /\ worker' = [worker EXCEPT ![w] = "test"]
    /\ UNCHANGED <<running_, queue_, sized, joined_, producer, arg, ctl, index,
                   aborted, poolHistory>>

TaskReturns(w) ==
    /\ ~aborted
    /\ worker[w] = "task"
    /\ worker' = [worker EXCEPT ![w] = "test"]
    /\ UNCHANGED <<running_, queue_, sized, joined_, producer, arg, ctl, index,
                   aborted, poolHistory>>

\* pthread_cond_wait may return for no reason.
SpuriousWorker(w) ==
    /\ ~aborted
    /\ worker[w] = "wait"
    /\ worker' = [worker EXCEPT ![w] = "pop"]
    /\ UNCHANGED <<running_, queue_, sized, joined_, producer, arg, ctl, index,
                   aborted, poolHistory>>

SpuriousProducer(p) ==
    /\ ~aborted
    /\ producer[p] = "wait"
    /\ producer' = [producer EXCEPT ![p] = "push"]
    /\ UNCHANGED <<running_, queue_, sized, worker, joined_, arg, ctl, index,
                   aborted, poolHistory>>

WorkerStep(w) ==
    RunTask(w) \/ PopWait(w) \/ PopTask(w) \/ PopNothing(w) \/ TaskReturns(w)

PoolNext ==
    \/ Start \/ StartWorker \/ Stop \/ StopJoin
    \/ \E p \in Producers : \E f \in Tasks : PushTask(p, f)
    \/ \E p \in Producers : PushEnter(p) \/ SpuriousProducer(p)
    \/ \E w \in Workers : WorkerStep(w) \/ SpuriousWorker(w)

\* Every thread that can run is scheduled, tasks return, and a controller
\* that is inside Start or Stop goes on; nobody has to call anything.
PoolFairness ==
    /\ \A w \in Workers : WF_poolVars(WorkerStep(w))
    /\ \A p \in Producers : WF_poolVars(PushEnter(p))
    /\ WF_poolVars(StartWorker \/ StopJoin)

PoolSpec == PoolInit /\ [][PoolNext]_poolVars
FairPoolSpec == PoolSpec /\ PoolFairness

-----------------------------------------------------------------------------
\* Tasks leave the queue in the order they entered it, each to one worker,
\* over any number of rounds of Start and Stop.
PoolFifo == pushed = taken \o queue_

\* What the producers were promised, without mutex, conditions or threads:
\* every task is run once, by its producer or by a worker, and those on the
\* queue in their order, over any number of rounds of Start and Stop.
PoolMailbox == INSTANCE Mailbox WITH queue <- queue_, done <- taken, direct <- inline
PoolImplementsMailbox == PoolMailbox!MailboxSpec

Awake(w) == worker[w] \in {"test", "pop", "task"}

\* A worker asleep on cond_empty_ while there are tasks means another worker
\* is awake and will come back to PopTask: one notify per push is enough.
NoSleepOverTasks ==
    (\E w \in Workers : worker[w] = "wait") /\ queue_ # <<>>
        => \E w \in Workers : Awake(w)

\* A producer asleep on cond_full_ while there is room means another producer
\* has been woken and will use it: one notify per pop is enough.
NoSleepOverRoom ==
    (\E p \in Producers : producer[p] = "wait") /\ ~Full
        => \E p \in Producers : producer[p] = "push"

\* The asserts of Start, PushTask, PopTask and Thread::Join hold: the queue
\* keeps its limit and no worker is joined twice.  threadpool.cc:43 says that
\* Stop is harmless before Start and when repeated.
NoAssertFails == ~aborted

\* A pushed task is taken by a worker unless the pool is stopped first.
TasksTaken ==
    \A f \in Tasks :
        (InPool(f) /\ running_)
            ~> ((\E i \in DOMAIN taken : taken[i] = f) \/ ~running_)

\* PushTask on a full queue returns unless the pool is stopped first, and Stop
\* returns: every worker, asleep or busy, is woken, ends and is joined.
PoolCallsReturn ==
    /\ \A p \in Producers :
        (producer[p] # "idle" /\ running_) ~> (producer[p] = "idle" \/ ~running_)
    /\ (ctl = "joining") ~> (ctl = "stopped")
=============================================================================
