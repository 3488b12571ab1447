-------------------------- MODULE DispatcherProofs --------------------------
(***************************************************************************)
(* Proofs about one Dispatcher for any number of threads, tasks and        *)
(* handlers, any size of the eventfd counter and any callers of Quit(),    *)
(* and about the I/O thread that holds one on its stack.                   *)
(***************************************************************************)
EXTENDS DispatchThread, SequenceTheorems, FiniteSetTheorems, TLAPS

(***************************************************************************)
(* Facts about sequences.                                                  *)
(***************************************************************************)
\* Pushing a task on a vector adds exactly that task to its elements.
LEMMA ElemsAppend ==
    ASSUME NEW s \in Seq(Tasks), NEW f \in Tasks
    PROVE  Elems(Append(s, f)) = Elems(s) \cup {f}
<1> DEFINE t == Append(s, f)
<1>1. /\ DOMAIN s = 1..Len(s)
      /\ DOMAIN t = 1..(Len(s) + 1)
      /\ Len(s) \in Nat
      /\ \A i \in 1..Len(s) : t[i] = s[i]
      /\ t[Len(s) + 1] = f
  OBVIOUS
<1> HIDE DEF t
<1>2. {t[i] : i \in DOMAIN t} = {s[i] : i \in DOMAIN s} \cup {f}
  BY <1>1
<1> QED
  BY <1>2 DEF Elems, t

\* An empty vector has no elements.
LEMMA ElemsEmpty == Elems(<<>>) = {}
  BY DEF Elems

\* A push on the last of three concatenated vectors is a push on the whole.
LEMMA ConcatAppend ==
    ASSUME NEW a \in Seq(Tasks), NEW b \in Seq(Tasks), NEW c \in Seq(Tasks),
           NEW f \in Tasks
    PROVE  a \o b \o Append(c, f) = Append(a \o b \o c, f)
  OBVIOUS

\* Running the head of the second vector moves it to the end of the first.
LEMMA ConcatMove ==
    ASSUME NEW a \in Seq(Tasks), NEW b \in Seq(Tasks), b # <<>>,
           NEW c \in Seq(Tasks)
    PROVE  Append(a, Head(b)) \o Tail(b) \o c = a \o b \o c
  OBVIOUS

\* The empty vector is neutral for concatenation.
LEMMA ConcatNeutral ==
    ASSUME NEW c \in Seq(Tasks)
    PROVE  /\ <<>> \o c = c
           /\ c \o <<>> = c
  OBVIOUS

(***************************************************************************)
(* The inductive invariant.                                                *)
(***************************************************************************)
\* NoLostWakeup at every place from which the loop can reach epoll_wait
\* without draining pending_funcs_ first.
WakeupInv ==
    pc \in {"constructed", "reset", "check", "select", "run", "taskcb"}
    /\ ~(Elems(pending) \subseteq prequeued)
        => fd > 0 \/ \E t \in Threads : op[t] = "wake"

\* Together with the type invariant, whose flags of Loop() say in particular
\* that local_pending_funcs is empty at the swap, and the property to prove.
IInv == TypeOK /\ WakeupInv /\ FifoExactlyOnce

\* A freshly constructed Dispatcher satisfies it.
LEMMA InitIInv == Init => IInv
<1> SUFFICES ASSUME Init PROVE IInv
  OBVIOUS
<1>1. TypeOK
  <2>0. LoopFlags
    BY DEF Init, LoopFlags
  <2>1. fd \in 0..EventFdMax
    BY EventFdAssumption DEF Init
  <2>2. evSize \in Nat \ {0}
    BY BoundAssumption DEF Init
  <2>3. batch \subseteq Handlers /\ ioReady \subseteq IoHandlers
    BY DEF Init
  <2>4. op \in [Threads -> {"idle", "wake", "quit"}]
    BY DEF Init
  <2>5. looping_ \in BOOLEAN /\ quit_ \in BOOLEAN /\ in_calling \in BOOLEAN
        /\ aborted \in BOOLEAN
    BY Zenon DEF Init
  <2> QED
    BY <2>0, <2>1, <2>2, <2>3, <2>4, <2>5 DEF Init, TypeOK, PCs
<1>2. WakeupInv
  BY ElemsEmpty DEF Init, WakeupInv
<1>3. FifoExactlyOnce
  BY DEF Init, FifoExactlyOnce
<1> QED
  BY <1>1, <1>2, <1>3 DEF IInv

\* A push by QueueInLoop, from any thread.
LEMMA QueueInLoopIInv ==
    ASSUME IInv, NEW t \in Threads, NEW f \in Tasks, QueueInLoop(t, f)
    PROVE  IInv'
<1> USE DEF IInv, loopVars
<1>1. LoopFlags /\ LoopFlags'
  BY DEF TypeOK, LoopFlags, QueueInLoop
<1>2. TypeOK'
  BY <1>1 DEF TypeOK, QueueInLoop
<1>3. WakeupInv'
  <2>1. CASE NeedsWakeup(t)
    BY <2>1 DEF WakeupInv, QueueInLoop, TypeOK
  <2>2. CASE ~NeedsWakeup(t)
    <3>1. t = Owner /\ ~in_calling
      BY <2>2, ThreadAssumption DEF NeedsWakeup, IsSameThread, Threads
    <3>2. pc \in {"constructed", "iocb"}
      BY <1>1, <3>1 DEF QueueInLoop, MayCall, LoopFlags
    <3>3. op' = op
      BY <2>2 DEF QueueInLoop, MayCall, InCall, TypeOK
    <3>4. CASE pc = "constructed"
      <4>1. prequeued' = prequeued \cup {f}
        BY <3>1, <3>4 DEF QueueInLoop
      <4>2. Elems(pending') = Elems(pending) \cup {f}
        BY ElemsAppend DEF QueueInLoop, TypeOK
      <4> QED
        BY <3>3, <3>4, <4>1, <4>2 DEF WakeupInv, QueueInLoop
    <3>5. CASE pc = "iocb"
      BY <3>5 DEF WakeupInv, QueueInLoop
    <3> QED
      BY <3>2, <3>4, <3>5
  <2> QED
    BY <2>1, <2>2
<1>4. FifoExactlyOnce'
  <2>1. executed \o local \o Append(pending, f)
          = Append(executed \o local \o pending, f)
    BY ConcatAppend, SMTT(30) DEF TypeOK
  <2> QED
    BY <2>1 DEF FifoExactlyOnce, QueueInLoop
<1> QED
  BY <1>1, <1>2, <1>3, <1>4

\* The write to the eventfd always leaves it readable, even when the counter
\* is full and the write fails.
LEMMA WakeupWriteReadable ==
    ASSUME NEW n \in 0..EventFdMax
    PROVE  AfterWrite(n) \in 1..EventFdMax
  BY EventFdAssumption DEF AfterWrite

\* Every call that is not a push.
LEMMA OtherCallIInv ==
    ASSUME IInv, NEW t \in Threads,
           \/ \E f \in Tasks : RunInLoop(t, f) /\ ~QueueInLoop(t, f)
           \/ Wakeup(t) \/ Quit(t) \/ WakeupWrite(t) \/ QuitStore(t)
    PROVE  IInv'
<1> USE DEF IInv, loopVars, history
<1>0. LoopFlags
  BY DEF TypeOK
<1>1. ASSUME NEW f \in Tasks, RunInLoop(t, f), ~QueueInLoop(t, f)
      PROVE  IInv'
  <2>1. /\ inline' = inline \cup {f}
        /\ UNCHANGED <<loopVars, pending, fd, ioReady, op, aborted, queued,
                       executed, prequeued, quitCalls>>
    BY <1>1 DEF RunInLoop
  <2>2. TypeOK'
    BY <1>0, <2>1 DEF TypeOK, LoopFlags
  <2> QED
    BY <2>1, <2>2 DEF WakeupInv, FifoExactlyOnce
<1>2. CASE Wakeup(t)
  <2>1. TypeOK'
    BY <1>0, <1>2 DEF Wakeup, TypeOK, LoopFlags
  <2>2. WakeupInv'
    BY <1>2 DEF Wakeup, TypeOK, WakeupInv
  <2> QED
    BY <1>2, <2>1, <2>2 DEF Wakeup, FifoExactlyOnce
<1>3. CASE Quit(t)
  <2>1. TypeOK'
    BY <1>0, <1>3, BoundAssumption DEF Quit, TypeOK, LoopFlags
  <2>2. WakeupInv'
    BY <1>3 DEF Quit, MayCall, InCall, TypeOK, WakeupInv
  <2> QED
    BY <1>3, <2>1, <2>2 DEF Quit, FifoExactlyOnce
<1>4. CASE WakeupWrite(t)
  <2>1. fd' \in 1..EventFdMax
    BY <1>4, WakeupWriteReadable DEF WakeupWrite, TypeOK
  <2>2. TypeOK'
    BY <1>0, <1>4, <2>1, EventFdAssumption DEF WakeupWrite, TypeOK, LoopFlags
  <2>3. WakeupInv'
    BY <2>1, EventFdAssumption DEF WakeupInv
  <2> QED
    BY <1>4, <2>2, <2>3 DEF WakeupWrite, FifoExactlyOnce
<1>5. CASE QuitStore(t)
  <2>1. TypeOK'
    BY <1>0, <1>5 DEF QuitStore, TypeOK, LoopFlags
  <2>2. WakeupInv'
    BY <1>5 DEF QuitStore, InCall, TypeOK, WakeupInv
  <2> QED
    BY <1>5, <2>1, <2>2 DEF QuitStore, FifoExactlyOnce
<1> QED
  BY <1>1, <1>2, <1>3, <1>4, <1>5

\* The steps of Loop() outside of Select and ExecutePendingFuncs.
LEMMA LoopControlIInv ==
    ASSUME IInv, LoopStart \/ LoopReset \/ LoopCheck
    PROVE  IInv'
<1> USE DEF IInv, At, history
<1>1. CASE LoopStart
  <2>1. LoopFlags'
    BY <1>1 DEF LoopStart, TypeOK, LoopFlags
  <2> QED
    BY <1>1, <2>1 DEF LoopStart, TypeOK, PCs, WakeupInv, FifoExactlyOnce
<1>2. CASE LoopReset
  <2>1. LoopFlags'
    BY <1>2 DEF LoopReset, TypeOK, LoopFlags
  <2> QED
    BY <1>2, <2>1 DEF LoopReset, TypeOK, PCs, WakeupInv, FifoExactlyOnce
<1>3. CASE LoopCheck
  <2>1. LoopFlags'
    BY <1>3 DEF LoopCheck, TypeOK, LoopFlags
  <2> QED
    BY <1>3, <2>1 DEF LoopCheck, TypeOK, PCs, WakeupInv, FifoExactlyOnce
<1> QED
  BY <1>1, <1>2, <1>3

\* Select and the event handlers it runs.  The eventfd is only drained at a
\* place from which ExecutePendingFuncs comes before the next epoll_wait.
LEMMA SelectIInv ==
    ASSUME IInv,
           \/ SelectReady \/ SelectNothing \/ HandleRead
           \/ (\E h \in IoHandlers : HandleIo(h))
           \/ IoCallbackReturns \/ SelectReturns
    PROVE  IInv'
<1> USE DEF IInv, At, history
<1>1. CASE SelectReady
  <2>1. evSize' \in Nat \ {0}
    BY <1>1 DEF SelectReady, TypeOK
  <2>2. batch' \subseteq Handlers
    BY <1>1 DEF SelectReady, AtMost, Ready, Handlers, TypeOK
  <2>3. LoopFlags'
    BY <1>1 DEF SelectReady, TypeOK, LoopFlags
  <2> QED
    BY <1>1, <2>1, <2>2, <2>3 DEF SelectReady, TypeOK, PCs, WakeupInv, FifoExactlyOnce
<1>2. CASE SelectNothing
  <2>1. LoopFlags'
    BY <1>2 DEF SelectNothing, TypeOK, LoopFlags
  <2> QED
    BY <1>2, <2>1 DEF SelectNothing, TypeOK, PCs, WakeupInv, FifoExactlyOnce
<1>3. CASE HandleRead
  <2>1. LoopFlags'
    BY <1>3 DEF HandleRead, TypeOK, LoopFlags
  <2> QED
    BY <1>3, <2>1, EventFdAssumption DEF HandleRead, TypeOK, WakeupInv, FifoExactlyOnce
<1>4. ASSUME NEW h \in IoHandlers, HandleIo(h)
      PROVE  IInv'
  <2>1. LoopFlags'
    BY <1>4 DEF HandleIo, TypeOK, LoopFlags
  <2> QED
    BY <1>4, <2>1 DEF HandleIo, TypeOK, PCs, WakeupInv, FifoExactlyOnce
<1>5. CASE IoCallbackReturns
  <2>1. LoopFlags'
    BY <1>5 DEF IoCallbackReturns, TypeOK, LoopFlags
  <2> QED
    BY <1>5, <2>1 DEF IoCallbackReturns, TypeOK, PCs, WakeupInv, FifoExactlyOnce
<1>6. CASE SelectReturns
  <2>1. LoopFlags'
    BY <1>6 DEF SelectReturns, TypeOK, LoopFlags
  <2> QED
    BY <1>6, <2>1 DEF SelectReturns, TypeOK, PCs, WakeupInv, FifoExactlyOnce
<1> QED
  BY <1>1, <1>2, <1>3, <1>4, <1>5, <1>6

\* ExecutePendingFuncs preserves the invariant: swap, each function, return.
LEMMA ExecuteIInv ==
    ASSUME IInv, SwapPending \/ RunFunc \/ FuncReturns \/ ExecuteReturns
    PROVE  IInv'
<1> USE DEF IInv, At, history
<1>1. CASE SwapPending
  <2>1. LoopFlags'
    BY <1>1 DEF SwapPending, TypeOK, LoopFlags
  <2>2. TypeOK'
    BY <1>1, <2>1 DEF SwapPending, TypeOK, PCs
  <2>3. WakeupInv'
    BY <1>1, ElemsEmpty DEF SwapPending, WakeupInv
  <2>4. FifoExactlyOnce'
    <3>1. local = <<>>
      BY <1>1 DEF SwapPending, TypeOK, LoopFlags
    <3> QED
      BY <1>1, <3>1 DEF SwapPending, FifoExactlyOnce, TypeOK
  <2> QED
    BY <2>1, <2>2, <2>3, <2>4
<1>2. CASE RunFunc
  <2>0. LoopFlags'
    BY <1>2 DEF RunFunc, TypeOK, LoopFlags
  <2>1. TypeOK'
    BY <1>2, <2>0 DEF RunFunc, TypeOK, PCs
  <2>2. FifoExactlyOnce'
    BY <1>2, ConcatMove DEF RunFunc, FifoExactlyOnce, TypeOK
  <2> QED
    BY <1>2, <2>1, <2>2 DEF RunFunc, WakeupInv
<1>3. CASE FuncReturns
  <2>1. LoopFlags'
    BY <1>3 DEF FuncReturns, TypeOK, LoopFlags
  <2> QED
    BY <1>3, <2>1 DEF FuncReturns, TypeOK, PCs, WakeupInv, FifoExactlyOnce
<1>4. CASE ExecuteReturns
  <2>1. LoopFlags'
    BY <1>4 DEF ExecuteReturns, TypeOK, LoopFlags
  <2> QED
    BY <1>4, <2>1 DEF ExecuteReturns, TypeOK, PCs, WakeupInv, FifoExactlyOnce
<1> QED
  BY <1>1, <1>2, <1>3, <1>4

\* Every step of every thread preserves it.
LEMMA NextIInv == IInv /\ [Next]_vars => IInv'
<1> SUFFICES ASSUME IInv, [Next]_vars PROVE IInv'
  OBVIOUS
<1>1. CASE LoopStep
  BY <1>1, LoopControlIInv, SelectIInv, ExecuteIInv
  DEF LoopStep, OwnerStep, CallbackReturns
<1>2. ASSUME NEW t \in Threads, ApiStep(t) \/ FinishCall(t)
      PROVE  IInv'
  BY <1>2, QueueInLoopIInv, OtherCallIInv DEF ApiStep, FinishCall
<1>3. ASSUME NEW h \in IoHandlers, IoArrives(h)
      PROVE  IInv'
  BY <1>3 DEF IoArrives, IInv, TypeOK, LoopFlags, WakeupInv,
              FifoExactlyOnce, loopVars, history
<1>4. CASE UNCHANGED vars
  BY <1>4 DEF vars, history, IInv, TypeOK, LoopFlags, WakeupInv,
              FifoExactlyOnce
<1> QED
  BY <1>1, <1>2, <1>3, <1>4 DEF Next

\* The inductive invariant holds in every reachable state.
THEOREM IInvariant == Spec => []IInv
  BY InitIInv, NextIInv, PTL DEF Spec

(***************************************************************************)
(* What follows from it.                                                   *)
(***************************************************************************)
\* Type correctness: the eventfd counter never leaves its range, and looping_,
\* in_calling_pending_funcs_ and the work of Select() and ExecutePendingFuncs()
\* agree with the place of the loop, whatever its callbacks and other threads do.
THEOREM TypeCorrect == Spec => []TypeOK
<1>1. IInv => TypeOK
  BY DEF IInv
<1> QED
  BY IInvariant, <1>1, PTL

\* The loop never blocks in epoll_wait over a task nobody will wake it for:
\* the Wakeup() condition of QueueInLoop is strong enough, with any number of
\* threads and even when the eventfd counter saturates.
THEOREM WakeupNeverLost == Spec => []NoLostWakeup
<1>1. IInv => NoLostWakeup
  BY DEF IInv, WakeupInv, NoLostWakeup
<1> QED
  BY IInvariant, <1>1, PTL

\* Tasks handed over by QueueInLoop run in order, none lost or repeated.
THEOREM FifoOrder == Spec => []FifoExactlyOnce
<1>1. IInv => FifoExactlyOnce
  BY DEF IInv
<1> QED
  BY IInvariant, <1>1, PTL

(***************************************************************************)
(* Refinement of Mailbox.                                                  *)
(***************************************************************************)
\* A task that is fresh for the Dispatcher is new to the abstract queue.
LEMMA FreshIsNew ==
    ASSUME IInv, NEW f \in Tasks, Fresh(f)
    PROVE  MB!New(f)
<1> USE DEF IInv
<1>1. f \notin Elems(executed \o (local \o pending)) /\ f \notin inline
  <2>1. queued = executed \o (local \o pending)
    BY DEF FifoExactlyOnce, TypeOK
  <2> QED
    BY <2>1 DEF Fresh
<1> DEFINE q == local \o pending
<1>2. q \in Seq(Tasks) /\ executed \in Seq(Tasks)
  BY DEF TypeOK
<1> HIDE DEF q
<1>3. /\ \A i \in 1..Len(executed) : executed[i] = (executed \o q)[i]
      /\ \A i \in 1..Len(executed) : i \in DOMAIN (executed \o q)
  BY <1>2
<1>4. /\ \A i \in 1..Len(q) : q[i] = (executed \o q)[Len(executed) + i]
      /\ \A i \in 1..Len(q) : Len(executed) + i \in DOMAIN (executed \o q)
  BY <1>2
<1>5. f \notin Elems(executed \o q)
  BY <1>1 DEF q
<1>6. \A i \in 1..Len(executed) : executed[i] # f
  BY <1>3, <1>5 DEF Elems
<1>7. \A i \in 1..Len(q) : q[i] # f
  BY <1>4, <1>5 DEF Elems
<1> QED
  BY <1>1, <1>6, <1>7 DEF MB!New, q

\* A step of the Dispatcher is a step of the abstract queue or changes
\* nothing it shows.
LEMMA StepSimulation ==
    IInv /\ [Next]_vars => [MB!MailboxNext]_(MB!mailboxVars)
<1> SUFFICES ASSUME IInv, [Next]_vars
             PROVE  [MB!MailboxNext]_(MB!mailboxVars)
  OBVIOUS
<1>0. TypeOK /\ LoopFlags
  BY DEF IInv, TypeOK
<1>1. ASSUME NEW t \in Threads, NEW f \in Tasks, QueueInLoop(t, f)
      PROVE  MB!Submit(f)
  <2>1. MB!New(f)
    BY <1>1, FreshIsNew DEF QueueInLoop
  <2>2. local \o Append(pending, f) = Append(local \o pending, f)
    BY <1>0 DEF TypeOK
  <2> QED
    BY <1>1, <2>1, <2>2 DEF QueueInLoop, loopVars, MB!Submit
<1>2. ASSUME NEW t \in Threads, NEW f \in Tasks, RunInLoop(t, f),
             ~QueueInLoop(t, f)
      PROVE  MB!RunDirect(f)
  <2>1. MB!New(f)
    BY <1>2, FreshIsNew DEF RunInLoop
  <2> QED
    BY <1>2, <2>1 DEF RunInLoop, loopVars, MB!RunDirect
<1>3. CASE RunFunc
  <2>1. /\ local \o pending # <<>>
        /\ Head(local \o pending) = Head(local)
        /\ Tail(local \o pending) = Tail(local) \o pending
    BY <1>0, <1>3 DEF RunFunc, TypeOK
  <2>2. MB!Execute
    BY <1>3, <2>1 DEF RunFunc, MB!Execute
  <2> QED
    BY <2>2 DEF MB!MailboxNext
<1>4. CASE SwapPending
  <2>1. local = <<>>
    BY <1>0, <1>4 DEF SwapPending, At, LoopFlags
  <2>2. (local \o pending)' = local \o pending
    BY <1>0, <1>4, <2>1 DEF SwapPending, TypeOK
  <2> QED
    BY <1>4, <2>2 DEF SwapPending, history, MB!mailboxVars
<1>5. CASE UNCHANGED <<pending, local, executed, inline>>
  BY <1>5 DEF MB!mailboxVars
<1>6. CASE LoopStep
  BY <1>3, <1>4, <1>5, <1>6
  DEF LoopStep, OwnerStep, CallbackReturns, LoopStart, LoopReset, LoopCheck,
      SelectReady, SelectNothing, HandleRead, HandleIo, IoCallbackReturns,
      SelectReturns, FuncReturns, ExecuteReturns, history
<1>7. ASSUME NEW t \in Threads, ApiStep(t) \/ FinishCall(t)
      PROVE  [MB!MailboxNext]_(MB!mailboxVars)
  <2>1. CASE \E f \in Tasks : QueueInLoop(t, f) \/ RunInLoop(t, f)
    BY <1>1, <1>2, <2>1 DEF MB!MailboxNext
  <2>2. CASE Wakeup(t) \/ Quit(t) \/ WakeupWrite(t) \/ QuitStore(t)
    BY <1>5, <2>2
    DEF Wakeup, Quit, WakeupWrite, QuitStore, loopVars, history
  <2> QED
    BY <1>7, <2>1, <2>2 DEF ApiStep, FinishCall
<1>8. CASE \E h \in IoHandlers : IoArrives(h)
  BY <1>5, <1>8 DEF IoArrives, loopVars, history
<1>9. CASE UNCHANGED vars
  BY <1>5, <1>9 DEF vars, history
<1> QED
  BY <1>6, <1>7, <1>8, <1>9 DEF Next

\* A Dispatcher implements the abstract task queue: whatever threads and
\* callbacks do, what they see is Submit, Execute and RunDirect.
THEOREM DispatcherImplementsMailbox == Spec => ImplementsMailbox
<1>1. Init => MB!MailboxInit
  BY DEF Init, MB!MailboxInit
<1> QED
  BY <1>1, IInvariant, StepSimulation, PTL
  DEF Spec, ImplementsMailbox, MB!MailboxSpec

(***************************************************************************)
(* Quit().                                                                 *)
(***************************************************************************)
\* Nobody has asked the loop to quit before it has reset quit_.
QuitInv ==
    ~LoopHasReset => /\ quit_ = FALSE
                     /\ \A t \in Threads : op[t] # "quit"

\* It is kept when Quit() may not be called that early.
LEMMA NextQuitInv ==
    ASSUME ~EarlyQuit, TypeOK, QuitInv, [Next]_vars
    PROVE  QuitInv' /\ (quit_ => quit_')
<1> USE DEF loopVars, history, vars, LoopHasReset
<1>1. CASE \E t \in Threads, f \in Tasks : QueueInLoop(t, f) \/ RunInLoop(t, f)
  <2>1. PICK t \in Threads :
            /\ UNCHANGED <<pc, quit_>>
            /\ UNCHANGED op \/ \E v \in {"wake", "idle"} : op' = [op EXCEPT ![t] = v]
    BY <1>1 DEF QueueInLoop, RunInLoop
  <2> QED
    BY <2>1 DEF QuitInv, TypeOK
<1>2. CASE \E t \in Threads : Wakeup(t) \/ WakeupWrite(t)
  BY <1>2 DEF Wakeup, WakeupWrite, QuitInv, TypeOK
<1>3. ASSUME NEW t \in Threads, Quit(t)
      PROVE  QuitInv' /\ (quit_ => quit_')
  BY <1>3 DEF Quit, QuitInv
<1>4. ASSUME NEW t \in Threads, QuitStore(t)
      PROVE  QuitInv' /\ (quit_ => quit_')
  <2>1. LoopHasReset /\ UNCHANGED pc /\ quit_' = TRUE
    BY <1>4 DEF QuitStore, InCall, QuitInv
  <2> QED
    BY <2>1 DEF QuitInv
<1>5. CASE LoopReset
  <2>1. quit_ = FALSE /\ pc' = "check"
    BY <1>5 DEF LoopReset, At, QuitInv
  <2> QED
    BY <2>1 DEF QuitInv
<1>6. CASE LoopStart
  BY <1>6 DEF LoopStart, At, QuitInv
<1>7. CASE \/ LoopCheck \/ HandleRead \/ SelectReturns \/ SwapPending \/ RunFunc
           \/ ExecuteReturns \/ SelectReady \/ SelectNothing \/ CallbackReturns
           \/ \E h \in IoHandlers : HandleIo(h)
  <2>1. LoopHasReset' /\ UNCHANGED quit_
    BY <1>7 DEF LoopCheck, HandleRead, SelectReturns, SwapPending, RunFunc, ExecuteReturns,
                SelectReady, SelectNothing, CallbackReturns, IoCallbackReturns, FuncReturns,
                HandleIo, At
  <2> QED
    BY <2>1 DEF QuitInv
<1>8. CASE (\E h \in IoHandlers : IoArrives(h)) \/ UNCHANGED vars
  BY <1>8 DEF IoArrives, QuitInv
<1> QED
  BY <1>1, <1>2, <1>3, <1>4, <1>5, <1>6, <1>7, <1>8
  DEF Next, LoopStep, OwnerStep, ApiStep, FinishCall

\* A Quit() that comes after Loop() has reset quit_ is never taken back; the
\* run early_quit shows that an earlier one may be.
THEOREM LateQuitSticks ==
    ASSUME ~EarlyQuit PROVE Spec => QuitSticks
<1>1. Init => QuitInv
  BY DEF Init, QuitInv, LoopHasReset
<1>2. TypeOK /\ QuitInv /\ [Next]_vars => QuitInv' /\ [quit_ => quit_']_vars
  BY NextQuitInv
<1> QED
  BY <1>1, <1>2, TypeCorrect, PTL DEF Spec, QuitSticks

-----------------------------------------------------------------------------
(***************************************************************************)
(* The I/O thread: the Dispatcher's lifetime.                              *)
(***************************************************************************)
\* How far the two threads are with respect to each other: Start() returns,
\* and calls are made, only after the pointer was published; the thread ends
\* only after Loop() has returned; and that needs a Quit(), which is left to
\* ~DispatchThread().
LifeInv ==
    /\ holder \in {"new", "check", "blocked", "started", "quitting", "joined"}
    /\ routine \in {"none", "created", "enter", "publish", "loop", "exited"}
    /\ usedDead \in BOOLEAN
    /\ alive <=> routine \in {"publish", "loop"}
    /\ dispatcher_ <=> routine \in {"loop", "exited"}
    /\ holder = "new" <=> routine = "none"
    /\ holder \in {"started", "quitting", "joined"} => routine \in {"loop", "exited"}
    /\ holder = "joined" => routine = "exited"
    /\ routine = "exited" => pc = "returned"
    /\ \A t \in Threads : op[t] # "idle" => routine \in {"loop", "exited"}
    /\ quit_ \/ pc = "returned" => holder \in {"quitting", "joined"}
    /\ \A t \in Threads : op[t] = "quit" => holder \in {"quitting", "joined"}
    /\ usedDead => holder \in {"quitting", "joined"}

TInv == IInv /\ LifeInv

\* Submitting work neither moves the loop nor asks it to quit, and only the
\* owner runs a task inline.
LEMMA SubmissionEffect ==
    ASSUME TypeOK, NEW t \in Threads, Submission(t)
    PROVE  /\ UNCHANGED <<pc, quit_, executed>>
           /\ t \in Others => UNCHANGED inline
           /\ \A s \in Threads : op'[s] = "quit" => op[s] = "quit"
<1>1. CASE Wakeup(t)
  BY <1>1 DEF Wakeup, loopVars, history, TypeOK
<1>2. ASSUME NEW f \in Tasks, QueueInLoop(t, f)
      PROVE  /\ UNCHANGED <<pc, quit_, executed, inline>>
             /\ \A s \in Threads : op'[s] = "quit" => op[s] = "quit"
  BY <1>2 DEF QueueInLoop, loopVars, TypeOK
<1>3. ASSUME NEW f \in Tasks, RunInLoop(t, f), ~QueueInLoop(t, f)
      PROVE  UNCHANGED <<pc, quit_, executed, op>> /\ t \notin Others
  BY <1>3, ThreadAssumption DEF RunInLoop, loopVars, IsSameThread
<1> QED
  BY <1>1, <1>2, <1>3 DEF Submission

\* The rest of a call stores quit_ only when the call was Quit().
LEMMA FinishEffect ==
    ASSUME TypeOK, NEW t \in Threads, FinishCall(t)
    PROVE  /\ UNCHANGED <<pc, executed, inline>>
           /\ op[t] # "idle"
           /\ quit_' => quit_ \/ op[t] = "quit"
           /\ \A s \in Threads : op'[s] # "idle" => op[s] # "idle"
           /\ \A s \in Threads : op'[s] = "quit" => op[s] = "quit"
  BY DEF FinishCall, WakeupWrite, QuitStore, InCall, loopVars, history, TypeOK

\* The loop returns only when it has seen quit_, and stays there.
LEMMA LoopEffect ==
    ASSUME LoopStep
    PROVE  /\ op' = op
           /\ quit_' => quit_
           /\ pc # "returned"
           /\ pc' = "returned" => quit_
  BY DEF LoopStep, LoopStart, OwnerStep, LoopReset, LoopCheck, HandleRead, HandleIo,
         SelectReturns, SwapPending, RunFunc, ExecuteReturns, CallbackReturns,
         IoCallbackReturns, FuncReturns, SelectReady, SelectNothing, At

\* The steps of the two threads that leave the Dispatcher alone.
LEMMA LifeControl ==
    ASSUME TInv,
           \/ Start \/ StartWait \/ SpuriousWakeup \/ Join \/ RunInThread \/ Construct
           \/ Publish \/ DestroyDispatcher
    PROVE  LifeInv' /\ UNCHANGED vars
<1>1. UNCHANGED vars
  BY DEF Start, StartWait, SpuriousWakeup, Join, RunInThread, Construct, Publish,
         DestroyDispatcher
<1>2. UNCHANGED <<pc, quit_, op>>
  BY <1>1 DEF vars
<1>3. CASE Start \/ StartWait \/ SpuriousWakeup \/ Join
  BY <1>2, <1>3 DEF Start, StartWait, SpuriousWakeup, Join, TInv, LifeInv
<1>4. CASE RunInThread \/ Construct \/ Publish
  BY <1>2, <1>4 DEF RunInThread, Construct, Publish, TInv, LifeInv
<1>5. CASE DestroyDispatcher
  BY <1>2, <1>5 DEF DestroyDispatcher, At, TInv, LifeInv
<1> QED
  BY <1>1, <1>3, <1>4, <1>5

\* The steps inside the Dispatcher.
LEMMA LifeInside ==
    ASSUME TInv,
           \/ OwnerRuns \/ PeerSends \/ DestructorQuit
           \/ \E t \in Others : ForeignCall(t) \/ ForeignFinish(t)
    PROVE  LifeInv' /\ Next
<1>0. TypeOK /\ LifeInv
  BY DEF TInv, IInv
<1>1. CASE OwnerRuns
  <2>1. routine = "loop" /\ UNCHANGED threadVars /\ Owner \in Threads
    BY <1>1 DEF OwnerRuns, Threads
  <2>2. CASE LoopStep
    <3>1. LifeInv'
      BY <1>0, <2>1, <2>2, LoopEffect DEF LifeInv, threadVars
    <3> QED
      BY <2>2, <3>1 DEF Next
  <2>3. CASE Submission(Owner)
    <3>1. LifeInv'
      BY <1>0, <2>1, <2>3, SubmissionEffect DEF LifeInv, threadVars
    <3> QED
      BY <2>1, <2>3, <3>1 DEF Next, Submission, ApiStep
  <2>4. CASE FinishCall(Owner)
    <3>1. LifeInv'
      BY <1>0, <2>1, <2>4, FinishEffect DEF LifeInv, threadVars
    <3> QED
      BY <2>1, <2>4, <3>1 DEF Next
  <2> QED
    BY <1>1, <2>2, <2>3, <2>4 DEF OwnerRuns
<1>2. CASE PeerSends
  <2>1. UNCHANGED <<pc, quit_, op>> /\ UNCHANGED threadVars
    BY <1>2 DEF PeerSends, IoArrives, loopVars
  <2>2. LifeInv'
    BY <1>0, <2>1 DEF LifeInv, threadVars
  <2> QED
    BY <1>2, <2>2 DEF PeerSends, Next
<1>3. CASE DestructorQuit
  <2>1. /\ Quit(Main) /\ holder = "started" /\ holder' = "quitting"
        /\ UNCHANGED <<routine, dispatcher_, alive, usedDead>>
    BY <1>3 DEF DestructorQuit
  <2>2. Main \in Threads
    BY MainAssumption DEF Threads
  <2>3. UNCHANGED <<pc, quit_>>
    BY <2>1 DEF Quit, loopVars
  <2>4. LifeInv'
    BY <1>0, <2>1, <2>3 DEF LifeInv
  <2> QED
    BY <2>1, <2>2, <2>4 DEF Next, ApiStep
<1>4. ASSUME NEW t \in Others, ForeignCall(t)
      PROVE  LifeInv' /\ Next
  <2>1. t \in Threads /\ Submission(t) /\ holder = "started" /\ UNCHANGED threadVars
    BY <1>4 DEF ForeignCall, Threads
  <2>2. LifeInv'
    BY <1>0, <2>1, SubmissionEffect DEF LifeInv, threadVars
  <2> QED
    BY <2>1, <2>2 DEF Next, Submission, ApiStep
<1>5. ASSUME NEW t \in Others, ForeignFinish(t)
      PROVE  LifeInv' /\ Next
  <2>1. t \in Threads /\ FinishCall(t) /\ UNCHANGED threadVars
    BY <1>5 DEF ForeignFinish, Threads
  <2>2. LifeInv'
    BY <1>0, <2>1, FinishEffect DEF LifeInv, threadVars
  <2> QED
    BY <2>1, <2>2 DEF Next
<1> QED
  BY <1>1, <1>2, <1>3, <1>4, <1>5

\* A call that is finished on a dead Dispatcher is one that ~DispatchThread()
\* has overtaken: the loop has returned.
LEMMA LifeAfter ==
    ASSUME TInv, NEW t \in Others, UseAfterDestroy(t)
    PROVE  TInv' /\ UNCHANGED <<pc, executed, inline>>
<1>1. /\ UNCHANGED <<pc, quit_, in_calling, pending, local, fd, holder, routine,
                     dispatcher_, alive>>
      /\ UNCHANGED <<loopVars, ioReady, aborted, history>>
      /\ op' = [op EXCEPT ![t] = "idle"] /\ usedDead' = TRUE /\ ~alive /\ op[t] # "idle"
      /\ t \in Threads
  BY DEF UseAfterDestroy, loopVars, Threads
<1>2. pc = "returned" /\ holder \in {"quitting", "joined"}
  BY <1>1 DEF TInv, LifeInv
<1>3. TypeOK' /\ FifoExactlyOnce'
  BY <1>1 DEF TInv, IInv, TypeOK, LoopFlags, FifoExactlyOnce, loopVars, history
<1>4. WakeupInv'
  BY <1>1, <1>2 DEF WakeupInv
<1>5. LifeInv'
  BY <1>1, <1>2 DEF TInv, IInv, TypeOK, LifeInv
<1> QED
  BY <1>1, <1>3, <1>4, <1>5 DEF TInv, IInv, history

\* The invariant of the composed system is kept by every step.
LEMMA NextTInv == TInv /\ [ThreadNext]_allVars => TInv'
<1> SUFFICES ASSUME TInv, [ThreadNext]_allVars PROVE TInv'
  OBVIOUS
<1>0. IInv /\ LifeInv
  BY DEF TInv
<1>1. CASE \/ Start \/ StartWait \/ SpuriousWakeup \/ Join \/ RunInThread \/ Construct
           \/ Publish \/ DestroyDispatcher
  <2>1. LifeInv' /\ UNCHANGED vars
    BY <1>1, LifeControl
  <2>2. IInv'
    BY <1>0, <2>1, NextIInv
  <2> QED
    BY <2>1, <2>2 DEF TInv
<1>2. CASE \/ OwnerRuns \/ PeerSends \/ DestructorQuit
           \/ \E t \in Others : ForeignCall(t) \/ ForeignFinish(t)
  <2>1. LifeInv' /\ Next
    BY <1>2, LifeInside
  <2>2. IInv'
    BY <1>0, <2>1, NextIInv
  <2> QED
    BY <2>1, <2>2 DEF TInv
<1>3. CASE \E t \in Others : UseAfterDestroy(t)
  BY <1>3, LifeAfter
<1>4. CASE UNCHANGED allVars
  <2>1. UNCHANGED vars /\ UNCHANGED threadVars
    BY <1>4 DEF allVars
  <2>2. IInv'
    BY <1>0, <2>1, NextIInv
  <2>3. LifeInv'
    BY <1>0, <2>1 DEF LifeInv, vars, threadVars
  <2> QED
    BY <2>2, <2>3 DEF TInv
<1> QED
  BY <1>1, <1>2, <1>3, <1>4 DEF ThreadNext

\* It holds from the beginning.
LEMMA InitTInv == ThreadInit => TInv
<1> SUFFICES ASSUME ThreadInit PROVE TInv
  OBVIOUS
<1>1. IInv
  BY InitIInv DEF ThreadInit
<1>2. usedDead = FALSE /\ alive = FALSE /\ dispatcher_ = FALSE /\ quit_ = FALSE
  BY DEF ThreadInit, Init
<1>3. LifeInv
  BY <1>2 DEF ThreadInit, Init, LifeInv
<1> QED
  BY <1>1, <1>3 DEF TInv

\* It holds in every state of the I/O thread and its users.
THEOREM TInvariant == ThreadSpec => []TInv
  BY InitTInv, NextTInv, PTL DEF ThreadSpec

\* Type correctness of the I/O thread, and the order of the two life cycles:
\* what Start() publishes was built before, and no call reaches a destroyed
\* Dispatcher before ~DispatchThread() has begun.
THEOREM ThreadTypeCorrect == ThreadSpec => []ThreadTypeOK
<1>1. TInv => ThreadTypeOK
  BY DEF TInv, IInv, LifeInv, ThreadTypeOK
<1> QED
  BY <1>1, TInvariant, PTL

\* The Dispatcher keeps its promises inside the I/O thread too, where calls
\* may be cut off by its destructor: no lost wakeup, and tasks in order.
THEOREM ThreadKeepsPromises == ThreadSpec => [](NoLostWakeup /\ FifoExactlyOnce)
<1>1. TInv => NoLostWakeup /\ FifoExactlyOnce
  BY DEF TInv, IInv, WakeupInv, NoLostWakeup
<1> QED
  BY <1>1, TInvariant, PTL

\* After ~DispatchThread() no task runs any more.
THEOREM QuietAfterDestructor == ThreadSpec => QuietAfterJoin
<1>1. ASSUME TInv, [ThreadNext]_allVars, holder = "joined"
      PROVE  UNCHANGED <<pc, executed, inline>>
  <2>0. routine = "exited" /\ TypeOK
    BY <1>1 DEF TInv, IInv, LifeInv
  <2>1. CASE \/ Start \/ StartWait \/ SpuriousWakeup \/ Join \/ RunInThread \/ Construct
             \/ Publish \/ DestroyDispatcher
    BY <1>1, <2>1, LifeControl DEF vars, history
  <2>2. CASE OwnerRuns \/ DestructorQuit \/ \E t \in Others : ForeignCall(t)
    BY <1>1, <2>0, <2>2 DEF OwnerRuns, DestructorQuit, ForeignCall
  <2>3. CASE PeerSends
    BY <2>3 DEF PeerSends, IoArrives, loopVars, history
  <2>4. CASE \E t \in Others : ForeignFinish(t)
    BY <2>0, <2>4, FinishEffect DEF ForeignFinish, Threads
  <2>5. CASE \E t \in Others : UseAfterDestroy(t)
    BY <1>1, <2>5, LifeAfter
  <2>6. CASE UNCHANGED allVars
    BY <2>6 DEF allVars, vars, history
  <2> QED
    BY <1>1, <2>1, <2>2, <2>3, <2>4, <2>5, <2>6 DEF ThreadNext
<1>2. TInv /\ [ThreadNext]_allVars
        => [holder = "joined" => UNCHANGED <<pc, executed, inline>>]_allVars
  BY <1>1
<1> QED
  BY <1>2, TInvariant, PTL DEF ThreadSpec, QuietAfterJoin
=============================================================================
