--------------------------- MODULE DispatchThread ---------------------------
(***************************************************************************)
(* An I/O thread (reactor/dispatchthread.cc): the thread that holds the    *)
(* DispatchThread object starts it, waits until the new thread has         *)
(* published the Dispatcher it built on its own stack, shares the pointer, *)
(* and later destroys the object (Quit, then Join).  The Dispatcher itself *)
(* is the module it extends; what this module adds is its lifetime.        *)
(***************************************************************************)
EXTENDS Dispatcher

CONSTANTS
    Main        \* the thread that holds the DispatchThread object

ASSUME MainAssumption == Main \in Others

VARIABLES
    holder,         \* where Main is in Start() and ~DispatchThread()
    routine,        \* where the new thread is in ThreadFunc()
    dispatcher_,    \* has the pointer been published?
    alive,          \* is the Dispatcher on the I/O thread's stack alive?
    usedDead        \* history: the Dispatcher was used after its destructor

threadVars == <<holder, routine, dispatcher_, alive, usedDead>>
allVars == <<vars, threadVars>>

ThreadInit ==
    /\ Init
    /\ holder = "new"
    /\ routine = "none"
    /\ dispatcher_ = FALSE
    /\ alive = FALSE
    /\ usedDead = FALSE

-----------------------------------------------------------------------------
(***************************************************************************)
(* Start(): pthread_create, then the wait for dispatcher_ under mutex_.    *)
(***************************************************************************)
Start ==
    /\ holder = "new"
    /\ holder' = "check"
    /\ routine' = "created"
    /\ UNCHANGED <<vars, dispatcher_, alive, usedDead>>

\* One turn of the while loop around cond_.wait().
StartWait ==
    /\ holder = "check"
    /\ holder' = IF dispatcher_ THEN "started" ELSE "blocked"
    /\ UNCHANGED <<vars, routine, dispatcher_, alive, usedDead>>

\* pthread_cond_wait may return for no reason.
SpuriousWakeup ==
    /\ holder = "blocked"
    /\ holder' = "check"
    /\ UNCHANGED <<vars, routine, dispatcher_, alive, usedDead>>

-----------------------------------------------------------------------------
(***************************************************************************)
(* ThreadFunc() on the new thread.                                         *)
(***************************************************************************)
\* StartRoutine() and ThreadData::RunInThread(): the thread takes its number,
\* Tid[Owner], before the Dispatcher is built with it.
RunInThread ==
    /\ routine = "created"
    /\ routine' = "enter"
    /\ UNCHANGED <<vars, holder, dispatcher_, alive, usedDead>>

\* Faulty variant of Construct: the pointer is published first.
ConstructLate ==
    /\ routine = "enter"
    /\ routine' = "publish"
    /\ dispatcher_' = TRUE
    /\ UNCHANGED <<vars, holder, alive, usedDead>>

Construct ==
    /\ routine = "enter"
    /\ routine' = "publish"
    /\ alive' = TRUE
    /\ UNCHANGED <<vars, holder, dispatcher_, usedDead>>

\* The critical section: dispatcher_ = &dispatcher; cond_.notify().
Publish ==
    /\ routine = "publish"
    /\ routine' = "loop"
    /\ dispatcher_' = TRUE
    /\ holder' = IF holder = "blocked" THEN "check" ELSE holder
    /\ UNCHANGED <<vars, alive, usedDead>>

\* Loop() has returned: the stack Dispatcher is destroyed.  dispatcher_ is
\* not reset.
DestroyDispatcher ==
    /\ routine = "loop"
    /\ At("returned")
    /\ routine' = "exited"
    /\ alive' = FALSE
    /\ UNCHANGED <<vars, holder, dispatcher_, usedDead>>

-----------------------------------------------------------------------------
(***************************************************************************)
(* ~DispatchThread(): Quit() on dispatcher_, then Join().                  *)
(***************************************************************************)
\* As soon as Start() has returned, so perhaps before Loop() has begun: with
\* EarlyQuit nothing stands in its way, as in the code.  The rest of Quit()
\* follows as the steps of module Dispatcher.
DestructorQuit ==
    /\ holder = "started"
    /\ Quit(Main)
    /\ holder' = "quitting"
    /\ UNCHANGED <<routine, dispatcher_, alive, usedDead>>

\* Faulty variant of Join: does not wait for the thread.
JoinEarly ==
    /\ holder = "quitting"
    /\ InCall(Main, "idle")
    /\ holder' = "joined"
    /\ UNCHANGED <<vars, routine, dispatcher_, alive, usedDead>>

\* pthread_join returns once the thread has ended.
Join ==
    /\ holder = "quitting"
    /\ InCall(Main, "idle")
    /\ routine = "exited"
    /\ holder' = "joined"
    /\ UNCHANGED <<vars, routine, dispatcher_, alive, usedDead>>

-----------------------------------------------------------------------------
(***************************************************************************)
(* The callers.  Start() returned the pointer and its users may share it;  *)
(* they begin no call once the destructor runs, and Quit() is left to the  *)
(* destructor.                                                             *)
(***************************************************************************)
Submission(t) ==
    \/ \E f \in Tasks : QueueInLoop(t, f) \/ RunInLoop(t, f)
    \/ Wakeup(t)

OwnerRuns ==
    /\ routine = "loop"
    /\ LoopStep \/ Submission(Owner) \/ FinishCall(Owner)
    /\ UNCHANGED threadVars

ForeignCall(t) ==
    /\ holder = "started"
    /\ Submission(t)
    /\ UNCHANGED threadVars

ForeignFinish(t) ==
    /\ alive
    /\ FinishCall(t)
    /\ UNCHANGED threadVars

\* The rest of a call that began while the Dispatcher was alive touches its
\* members after the destructor.
UseAfterDestroy(t) ==
    /\ ~alive
    /\ op[t] # "idle"
    /\ usedDead' = TRUE
    /\ op' = [op EXCEPT ![t] = "idle"]
    /\ UNCHANGED <<loopVars, pending, fd, ioReady, aborted, history, holder,
                   routine, dispatcher_, alive>>

PeerSends ==
    /\ \E h \in IoHandlers : IoArrives(h)
    /\ UNCHANGED threadVars

ThreadNext ==
    \/ Start \/ StartWait \/ SpuriousWakeup \/ DestructorQuit \/ Join
    \/ RunInThread \/ Construct \/ Publish \/ DestroyDispatcher
    \/ OwnerRuns
    \/ \E t \in Others : ForeignCall(t) \/ ForeignFinish(t) \/ UseAfterDestroy(t)
    \/ PeerSends

\* The scheduler runs both threads; the callbacks of the loop return and it
\* is not starved by signals, as in module Dispatcher.
ThreadFairness ==
    /\ WF_allVars(StartWait \/ Join)
    /\ WF_allVars(RunInThread \/ Construct \/ Publish \/ DestroyDispatcher)
    /\ WF_allVars(OwnerRuns /\ (LoopStart \/ OwnerStep \/ FinishCall(Owner)))
    /\ SF_allVars(OwnerRuns /\ CallbackReturns)
    /\ SF_allVars(OwnerRuns /\ SelectReady)
    /\ \A t \in Others : WF_allVars(ForeignFinish(t) \/ UseAfterDestroy(t))

ThreadSpec == ThreadInit /\ [][ThreadNext]_allVars /\ ThreadFairness

-----------------------------------------------------------------------------
\* Types, and the order of the two life cycles: the pointer is published only
\* by a thread that has built the Dispatcher, the object exists exactly while
\* that thread is between its construction and its end, and a call can touch
\* it later only when the destructor of the DispatchThread has begun.
ThreadTypeOK ==
    /\ TypeOK
    /\ holder \in {"new", "check", "blocked", "started", "quitting", "joined"}
    /\ routine \in {"none", "created", "enter", "publish", "loop", "exited"}
    /\ usedDead \in BOOLEAN
    /\ usedDead => holder \in {"quitting", "joined"}
    /\ alive <=> routine \in {"publish", "loop"}
    /\ dispatcher_ <=> routine \in {"loop", "exited"}

QuitTooEarly == quit_ /\ ~LoopHasReset

\* Start() returns: the notification of ThreadFunc cannot be lost, because
\* Start() looks at dispatcher_ under the same mutex before it waits.
\* ~DispatchThread() returns from wherever the loop is, its asserts and its
\* start included, because the I/O thread leaves epoll_wait and ends.  The one
\* exception is a behaviour in which quit_ is stored before Loop() has reset
\* it: the assert of dispatcher.cc:97 then ends the process, or line 99 takes
\* the store back and the join waits for ever.
ThreadCallsReturn ==
    /\ (holder = "check") ~> (holder = "started")
    /\ []~QuitTooEarly => ((holder = "quitting") ~> (holder = "joined"))

\* After ~DispatchThread() no task runs and the loop is not running: its
\* owner may free what the tasks used.
QuietAfterJoin ==
    [][holder = "joined" => UNCHANGED <<pc, executed, inline>>]_allVars
=============================================================================
