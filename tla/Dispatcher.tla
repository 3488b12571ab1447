----------------------------- MODULE Dispatcher -----------------------------
(***************************************************************************)
(* One Dispatcher (reactor/dispatcher.cc) with its Selector                *)
(* (reactor/selector.cc): the thread that owns it runs Loop(), any thread  *)
(* may call QueueInLoop, RunInLoop, Wakeup and Quit.  A step is one access *)
(* to state that another thread can see: the push or the swap under        *)
(* mutex_, the write or the read of the eventfd, a load or a store of      *)
(* quit_, one epoll_wait.                                                  *)
(***************************************************************************)
EXTENDS Naturals, Sequences, FiniteSets

CONSTANTS
    Owner,          \* the thread that constructed the Dispatcher
    Others,         \* the other threads that hold a pointer to it
    Tid,            \* CureentThread::tid() as each thread sees it
    Tasks,          \* the functions handed to the Dispatcher
    IoHandlers,     \* EventHandlers registered besides wakeup_handler_
    WakeupHandler,  \* wakeup_handler_
    WakeupValue,    \* the 8 bytes Wakeup() writes, as eventfd reads them
    EventFdMax,     \* largest value the eventfd counter can hold
    EEventsSize,    \* kEEventsSize, the initial size of e_events_
    MaxQuits,       \* bound on the calls of Quit()
    EarlyQuit       \* may Quit() be called before Loop() has reset quit_ ?

Threads == {Owner} \cup Others
Handlers == {WakeupHandler} \cup IoHandlers

ASSUME ThreadAssumption ==
    /\ Owner \notin Others
    /\ \A t \in Others : Tid[t] # Tid[Owner]

ASSUME HandlerAssumption ==
    /\ WakeupHandler \notin IoHandlers
    /\ IsFiniteSet(IoHandlers)

ASSUME EventFdAssumption ==
    /\ EventFdMax \in Nat
    /\ WakeupValue \in 1..EventFdMax

ASSUME BoundAssumption ==
    /\ EEventsSize \in Nat \ {0}
    /\ MaxQuits \in Nat
    /\ EarlyQuit \in BOOLEAN

VARIABLES
    pc,         \* where the owner is in Loop()
    looping_,
    quit_,
    in_calling, \* in_calling_pending_funcs_
    pending,    \* pending_funcs_
    local,      \* what is left of local_pending_funcs
    fd,         \* the eventfd counter behind wakeup_fd_
    ioReady,    \* the I/O handlers whose file descriptor is ready
    batch,      \* handlers reported by epoll_wait, not yet handled
    evSize,     \* e_events_.size()
    op,         \* the rest of the API call each thread is in
    aborted,    \* an assert has failed
    queued,     \* history: tasks in the order they were pushed
    executed,   \* history: tasks run by ExecutePendingFuncs, in order
    inline,     \* history: tasks RunInLoop ran on the owner itself
    prequeued,  \* history: tasks the owner pushed before Loop()
    quitCalls   \* history: calls of Quit() so far

loopVars == <<pc, looping_, quit_, in_calling, local, batch, evSize>>
history == <<queued, executed, inline, prequeued, quitCalls>>
vars == <<pc, looping_, quit_, in_calling, pending, local, fd, ioReady,
          batch, evSize, op, aborted, history>>

PCs == {"constructed", "reset", "check", "select", "dispatch", "iocb",
        "swap", "run", "taskcb", "returned"}

Elems(s) == {s[i] : i \in DOMAIN s}

\* What Loop() leaves behind at each of its places: looping_ is set exactly
\* while it runs, as the assert of ~Dispatcher() needs; the flag that
\* QueueInLoop reads is set exactly while functions run; and when Select()
\* or ExecutePendingFuncs() is left no handler and no function is forgotten.
LoopFlags ==
    /\ looping_ <=> pc \notin {"constructed", "returned"}
    /\ in_calling <=> pc \in {"run", "taskcb"}
    /\ batch # {} => pc \in {"dispatch", "iocb"}
    /\ local # <<>> => pc \in {"run", "taskcb"}

\* Types, the range of the eventfd counter, and the flags of Loop().
TypeOK ==
    /\ pc \in PCs
    /\ looping_ \in BOOLEAN
    /\ quit_ \in BOOLEAN
    /\ in_calling \in BOOLEAN
    /\ pending \in Seq(Tasks)
    /\ local \in Seq(Tasks)
    /\ fd \in 0..EventFdMax
    /\ ioReady \subseteq IoHandlers
    /\ batch \subseteq Handlers
    /\ evSize \in Nat \ {0}
    /\ op \in [Threads -> {"idle", "wake", "quit"}]
    /\ aborted \in BOOLEAN
    /\ queued \in Seq(Tasks)
    /\ executed \in Seq(Tasks)
    /\ inline \subseteq Tasks
    /\ prequeued \subseteq Tasks
    /\ quitCalls \in Nat
    /\ LoopFlags

Init ==
    /\ pc = "constructed"
    /\ looping_ = FALSE
    /\ quit_ = FALSE
    /\ in_calling = FALSE
    /\ pending = <<>>
    /\ local = <<>>
    /\ fd = 0
    /\ ioReady = {}
    /\ batch = {}
    /\ evSize = EEventsSize
    /\ op = [t \in Threads |-> "idle"]
    /\ aborted = FALSE
    /\ queued = <<>>
    /\ executed = <<>>
    /\ inline = {}
    /\ prequeued = {}
    /\ quitCalls = 0

IsSameThread(t) == Tid[t] = Tid[Owner]

\* A failed assert ends the process: nobody takes a step after it.
At(label) == ~aborted /\ pc = label
InCall(t, call) == ~aborted /\ op[t] = call

-----------------------------------------------------------------------------
(***************************************************************************)
(* The calls any thread may make.  The owner is a caller before Loop() and *)
(* inside the callbacks the loop runs; one thread makes one call at a time.*)
(***************************************************************************)
MayCall(t) ==
    /\ InCall(t, "idle")
    /\ t = Owner => pc \in {"constructed", "iocb", "taskcb"}

Fresh(f) == f \notin Elems(queued) \cup inline

\* Faulty variants of NeedsWakeup, kept to show what the properties detect:
\* forgetting in_calling_pending_funcs_, and testing the thread the wrong way.
NeedsWakeupForeignOnly(t) == ~IsSameThread(t)
NeedsWakeupInverted(t) == IsSameThread(t) \/ in_calling

\* The condition of the Wakeup() at the end of QueueInLoop.
NeedsWakeup(t) == ~IsSameThread(t) \/ in_calling

QueueInLoop(t, f) ==
    /\ MayCall(t)
    /\ Fresh(f)
    /\ pending' = Append(pending, f)
    /\ queued' = Append(queued, f)
    /\ prequeued' = IF t = Owner /\ pc = "constructed"
                    THEN prequeued \cup {f} ELSE prequeued
    /\ op' = [op EXCEPT ![t] = IF NeedsWakeup(t) THEN "wake" ELSE "idle"]
    /\ UNCHANGED <<loopVars, fd, ioReady, aborted, executed, inline, quitCalls>>

RunInLoop(t, f) ==
    \/ ~IsSameThread(t) /\ QueueInLoop(t, f)
    \/ /\ IsSameThread(t)
       /\ MayCall(t)
       /\ Fresh(f)
       /\ inline' = inline \cup {f}
       /\ UNCHANGED <<loopVars, pending, fd, ioReady, op, aborted, queued,
                      executed, prequeued, quitCalls>>

\* A call of the public Wakeup(): nothing but the write is left to do.
Wakeup(t) ==
    /\ MayCall(t)
    /\ op' = [op EXCEPT ![t] = "wake"]
    /\ UNCHANGED <<loopVars, pending, fd, ioReady, aborted, history>>

\* The write of Wakeup().  The eventfd is non-blocking: a write that does
\* not fit fails with EAGAIN, which the code only logs.
AfterWrite(n) == IF n + WakeupValue > EventFdMax THEN n ELSE n + WakeupValue

WakeupWrite(t) ==
    /\ InCall(t, "wake")
    /\ fd' = AfterWrite(fd)
    /\ op' = [op EXCEPT ![t] = "idle"]
    /\ UNCHANGED <<loopVars, pending, ioReady, aborted, history>>

LoopHasReset == pc \notin {"constructed", "reset"}

\* assert(!quit_) of Quit().
Quit(t) ==
    /\ MayCall(t)
    /\ quitCalls < MaxQuits
    /\ EarlyQuit \/ LoopHasReset
    /\ quitCalls' = quitCalls + 1
    /\ aborted' = quit_
    /\ op' = [op EXCEPT ![t] = IF quit_ THEN "idle" ELSE "quit"]
    /\ UNCHANGED <<loopVars, pending, fd, ioReady, queued, executed, inline,
                   prequeued>>

\* Faulty variant of QuitStore: no Wakeup() for a loop blocked in epoll_wait.
QuitStoreSilent(t) ==
    /\ InCall(t, "quit")
    /\ quit_' = TRUE
    /\ op' = [op EXCEPT ![t] = "idle"]
    /\ UNCHANGED <<pc, looping_, in_calling, pending, local, fd, ioReady, batch,
                   evSize, aborted, history>>

\* quit_ = true, and Wakeup() when the caller is another thread.
QuitStore(t) ==
    /\ InCall(t, "quit")
    /\ quit_' = TRUE
    /\ op' = [op EXCEPT ![t] = IF IsSameThread(t) THEN "idle" ELSE "wake"]
    /\ UNCHANGED <<pc, looping_, in_calling, pending, local, fd, ioReady, batch,
                   evSize, aborted, history>>

ApiStep(t) ==
    \/ \E f \in Tasks : QueueInLoop(t, f) \/ RunInLoop(t, f)
    \/ Wakeup(t)
    \/ Quit(t)

FinishCall(t) == WakeupWrite(t) \/ QuitStore(t)

-----------------------------------------------------------------------------
(***************************************************************************)
(* Loop().                                                                 *)
(***************************************************************************)
\* The asserts, and looping_ = true.
LoopStart ==
    /\ At("constructed")
    /\ InCall(Owner, "idle")
    /\ IF looping_ \/ quit_
       THEN aborted' = TRUE /\ UNCHANGED <<pc, looping_>>
       ELSE pc' = "reset" /\ looping_' = TRUE /\ UNCHANGED aborted
    /\ UNCHANGED <<quit_, in_calling, pending, local, fd, ioReady, batch,
                   evSize, op, history>>

\* quit_ = false.
LoopReset ==
    /\ At("reset")
    /\ quit_' = FALSE
    /\ pc' = "check"
    /\ UNCHANGED <<looping_, in_calling, pending, local, fd, ioReady, batch,
                   evSize, op, aborted, history>>

\* while (!quit_), and looping_ = false after it.
LoopCheck ==
    /\ At("check")
    /\ pc' = IF quit_ THEN "returned" ELSE "select"
    /\ looping_' = ~quit_
    /\ UNCHANGED <<quit_, in_calling, pending, local, fd, ioReady, batch,
                   evSize, op, aborted, history>>

\* The kernel's ready list: level triggered, so a handler stays on it until
\* its callback has consumed what made it ready.
Ready == ioReady \cup (IF fd > 0 THEN {WakeupHandler} ELSE {})

AtMost(n, S) ==
    {B \in SUBSET S : IF Cardinality(S) <= n THEN B = S ELSE Cardinality(B) = n}

\* Faulty variant of SelectReady: e_events_ keeps its size.
SelectReadyFixedSize ==
    /\ At("select")
    /\ Ready # {}
    /\ batch' \in AtMost(evSize, Ready)
    /\ pc' = "dispatch"
    /\ UNCHANGED <<looping_, quit_, in_calling, pending, local, fd, ioReady,
                   evSize, op, aborted, history>>

\* epoll_wait reports as many ready handlers as fit, and Select doubles
\* e_events_ when it was filled.
SelectReady ==
    /\ At("select")
    /\ Ready # {}
    /\ batch' \in AtMost(evSize, Ready)
    /\ evSize' = IF Cardinality(batch') = evSize THEN 2 * evSize ELSE evSize
    /\ pc' = "dispatch"
    /\ UNCHANGED <<looping_, quit_, in_calling, pending, local, fd, ioReady,
                   op, aborted, history>>

\* kEpollTimeOut has passed with nothing ready, or a signal (EINTR).
SelectNothing ==
    /\ At("select")
    /\ pc' = "dispatch"
    /\ UNCHANGED <<looping_, quit_, in_calling, pending, local, fd, ioReady,
                   batch, evSize, op, aborted, history>>

\* UpdataTriggeredEventHandlers reaches wakeup_handler_: its read callback
\* drains the eventfd.
HandleRead ==
    /\ At("dispatch")
    /\ WakeupHandler \in batch
    /\ batch' = batch \ {WakeupHandler}
    /\ fd' = 0
    /\ UNCHANGED <<pc, looping_, quit_, in_calling, pending, local, ioReady,
                   evSize, op, aborted, history>>

\* It reaches another handler, whose callback consumes the event and may
\* call the Dispatcher before it returns.
HandleIo(h) ==
    /\ At("dispatch")
    /\ h \in batch
    /\ batch' = batch \ {h}
    /\ ioReady' = ioReady \ {h}
    /\ pc' = "iocb"
    /\ UNCHANGED <<looping_, quit_, in_calling, pending, local, fd, evSize,
                   op, aborted, history>>

IoCallbackReturns ==
    /\ At("iocb")
    /\ InCall(Owner, "idle")
    /\ pc' = "dispatch"
    /\ UNCHANGED <<looping_, quit_, in_calling, pending, local, fd, ioReady,
                   batch, evSize, op, aborted, history>>

SelectReturns ==
    /\ At("dispatch")
    /\ batch = {}
    /\ pc' = "swap"
    /\ UNCHANGED <<looping_, quit_, in_calling, pending, local, fd, ioReady,
                   batch, evSize, op, aborted, history>>

\* Faulty variant of SwapPending: copies pending_funcs_ and leaves it.
CopyPending ==
    /\ At("swap")
    /\ in_calling' = TRUE
    /\ local' = pending
    /\ pc' = "run"
    /\ UNCHANGED <<looping_, quit_, pending, fd, ioReady, batch, evSize, op,
                   aborted, history>>

\* ExecutePendingFuncs up to the end of its critical section.
SwapPending ==
    /\ At("swap")
    /\ in_calling' = TRUE
    /\ local' = pending
    /\ pending' = <<>>
    /\ pc' = "run"
    /\ UNCHANGED <<looping_, quit_, fd, ioReady, batch, evSize, op, aborted,
                   history>>

\* Faulty variant of RunFunc: the latest function first.
RunFuncLifo ==
    /\ At("run")
    /\ local # <<>>
    /\ executed' = Append(executed, local[Len(local)])
    /\ local' = SubSeq(local, 1, Len(local) - 1)
    /\ pc' = "taskcb"
    /\ UNCHANGED <<looping_, quit_, in_calling, pending, fd, ioReady, batch,
                   evSize, op, aborted, queued, inline, prequeued, quitCalls>>

RunFunc ==
    /\ At("run")
    /\ local # <<>>
    /\ executed' = Append(executed, Head(local))
    /\ local' = Tail(local)
    /\ pc' = "taskcb"
    /\ UNCHANGED <<looping_, quit_, in_calling, pending, fd, ioReady, batch,
                   evSize, op, aborted, queued, inline, prequeued, quitCalls>>

FuncReturns ==
    /\ At("taskcb")
    /\ InCall(Owner, "idle")
    /\ pc' = "run"
    /\ UNCHANGED <<looping_, quit_, in_calling, pending, local, fd, ioReady,
                   batch, evSize, op, aborted, history>>

\* Faulty variant of ExecuteReturns: in_calling_pending_funcs_ stays set.
ExecuteReturnsBusy ==
    /\ At("run")
    /\ local = <<>>
    /\ pc' = "check"
    /\ UNCHANGED <<looping_, quit_, in_calling, pending, local, fd, ioReady,
                   batch, evSize, op, aborted, history>>

ExecuteReturns ==
    /\ At("run")
    /\ local = <<>>
    /\ in_calling' = FALSE
    /\ pc' = "check"
    /\ UNCHANGED <<looping_, quit_, pending, local, fd, ioReady, batch, evSize,
                   op, aborted, history>>

\* A peer makes a registered file descriptor ready.
IoArrives(h) ==
    /\ h \notin ioReady
    /\ ioReady' = ioReady \cup {h}
    /\ UNCHANGED <<loopVars, pending, fd, op, aborted, history>>

CallbackReturns == IoCallbackReturns \/ FuncReturns

\* The steps of Loop() that need no event from outside.
OwnerStep ==
    \/ LoopReset
    \/ LoopCheck
    \/ HandleRead
    \/ \E h \in IoHandlers : HandleIo(h)
    \/ SelectReturns
    \/ SwapPending
    \/ RunFunc
    \/ ExecuteReturns

LoopStep ==
    \/ LoopStart
    \/ OwnerStep
    \/ CallbackReturns
    \/ SelectReady
    \/ SelectNothing

Next ==
    \/ LoopStep
    \/ \E t \in Threads : ApiStep(t) \/ FinishCall(t)
    \/ \E h \in IoHandlers : IoArrives(h)

(***************************************************************************)
(* Fairness: the owner is scheduled, a callback does not call the          *)
(* Dispatcher for ever but returns, a call that was begun is finished,     *)
(* and epoll_wait is not interrupted for ever when something is ready.     *)
(* SelectNothing has none: no property may rest on the one-second epoll    *)
(* timeout.                                                                *)
(***************************************************************************)
Fairness ==
    /\ WF_vars(OwnerStep)
    /\ SF_vars(CallbackReturns)
    /\ SF_vars(SelectReady)
    /\ \A t \in Threads : WF_vars(FinishCall(t))

Spec == Init /\ [][Next]_vars
FairSpec == Spec /\ Fairness

-----------------------------------------------------------------------------
(***************************************************************************)
(* Properties.                                                             *)
(***************************************************************************)
\* Before the loop blocks in epoll_wait, every task in pending_funcs_ has a
\* wakeup on its way: the eventfd is readable or some thread is about to
\* write it.  Tasks the owner queued before Loop() get no wakeup from
\* QueueInLoop (dispatcher.cc:124) and are the exception.
NoLostWakeup ==
    pc = "select" /\ ~(Elems(pending) \subseteq prequeued)
        => fd > 0 \/ \E t \in Threads : op[t] = "wake"

\* Every task pushed by QueueInLoop is executed at most once, none is lost
\* between the two vectors of ExecutePendingFuncs, and they run in the order
\* of the pushes even when callbacks queue more.
FifoExactlyOnce == queued = executed \o local \o pending

\* A stored quit_ is never taken back: a Quit() that any thread was allowed
\* to make (dispatcher.h:28) ends the loop.
QuitSticks == [][quit_ => quit_']_vars

\* The Dispatcher implements the abstract task queue.
MB == INSTANCE Mailbox WITH queue <- local \o pending, done <- executed,
                            direct <- inline
ImplementsMailbox == MB!MailboxSpec

\* A queued task runs, or the loop is told to quit, and then Loop() returns;
\* both from a loop that is blocked, without help from the epoll timeout.
LoopProgress ==
    /\ \A f \in Tasks :
        (f \in Elems(queued) \ prequeued /\ looping_)
            ~> (f \in Elems(executed) \/ quit_)
    /\ quit_ ~> (pc = "returned")

\* A ready file descriptor is served although epoll_wait may return fewer
\* events than are ready: the doubling of e_events_ ends the starvation.
IoServed ==
    \A h \in IoHandlers :
        (h \in ioReady /\ looping_) ~> (h \notin ioReady \/ quit_)
=============================================================================
