---------------------------- MODULE AsyncLogging ----------------------------
(***************************************************************************)
(* The asynchronous log (logger/asynclogging.cc, logger/logging.cc):       *)
(* front-end threads append messages to a shared buffer, a back-end thread *)
(* swaps full and current buffers against spare ones and writes them to    *)
(* the log file.  The back end is started by the first message of the      *)
(* process, under pthread_once.  A message is its number in the order of   *)
(* the calls; a buffer holds BufferCapacity of them.  The log file is a    *)
(* LogFile over stdio (logger/logfile.cc, logger/fileutil.cc): what was    *)
(* appended is on disk once it was flushed.                                *)
(***************************************************************************)
EXTENDS Naturals, Sequences, SequencesExt, FiniteSets

CONSTANTS
    Loggers,        \* the threads that log
    BufferCapacity, \* messages a FixedBuffer<kBigSize> takes
    DropLimit,      \* the 25 of line 73: more buffers than that are dropped
    CheckEveryN,    \* check_every_n_ of the LogFile
    MaxMessages     \* bound on the messages logged

ASSUME LogAssumption ==
    /\ BufferCapacity \in Nat \ {0}
    /\ DropLimit \in Nat /\ DropLimit >= 2
    /\ CheckEveryN \in Nat \ {0}
    /\ MaxMessages \in Nat

\* A shared_ptr to a buffer: empty, or the one buffer with its content.
NullPtr == <<>>
PtrTo(content) == <<content>>
EmptyBuffer == <<>>

VARIABLES
    logger,     \* where each front-end thread is in ~Logger()
    once_,      \* the pthread_once_t
    latch,      \* count_ of latch_
    running_,
    back,       \* where the back end is in ThreadFunc()
    signalled,  \* cond_ was notified since the back end began to wait
    current,    \* content of current_buffer_, never null outside mutex_
    next,       \* next_buffer_, a pointer
    buffers,    \* buffers_
    spare1,     \* new_buffer_1, a pointer
    spare2,     \* new_buffer_2, a pointer
    toWrite,    \* buffers_to_write
    count_,     \* of the LogFile: appends since the last flush it made
    stopper,    \* where the caller of Stop() is
    aborted,    \* an assert of ThreadFunc() has failed
    appended,   \* history: number of messages accepted by Append()
    file,       \* messages given to stdio, in order
    disk,       \* how many of them are flushed
    dropped     \* history: messages in buffers erased on overload

bufferVars == <<current, next, buffers, spare1, spare2, toWrite>>
logHistory == <<appended, file, disk, count_, dropped>>
logVars == <<logger, once_, latch, running_, back, signalled, bufferVars,
             stopper, aborted, logHistory>>

Messages == 1..MaxMessages
IsPointer(p) == p \in Seq(Seq(Messages)) /\ Len(p) <= 1

\* Types, and no buffer takes more than it has room for.
LogTypeOK ==
    /\ logger \in [Loggers -> {"idle", "once", "latch", "append"}]
    /\ once_ \in {"no", "running", "done"}
    /\ latch \in {0, 1}
    /\ running_ \in BOOLEAN
    /\ back \in {"none", "start", "check", "lock", "wait", "write", "recycle",
                 "exited"}
    /\ signalled \in BOOLEAN
    /\ current \in Seq(Messages) /\ Len(current) <= BufferCapacity
    /\ IsPointer(next)
    /\ buffers \in Seq(Seq(Messages))
    /\ IsPointer(spare1)
    /\ IsPointer(spare2)
    /\ toWrite \in Seq(Seq(Messages))
    /\ stopper \in {"idle", "notify", "join", "stopped"}
    /\ aborted \in BOOLEAN
    /\ appended \in 0..MaxMessages
    /\ file \in Seq(Messages) /\ disk \in 0..Len(file)
    /\ count_ \in 0..(CheckEveryN - 1)
    /\ dropped \subseteq Messages

\* The state after the constructor of AsyncLogging; the spares are locals of
\* ThreadFunc() and are built when it starts.
LogInit ==
    /\ logger = [t \in Loggers |-> "idle"]
    /\ once_ = "no"
    /\ latch = 1
    /\ running_ = FALSE
    /\ back = "none"
    /\ signalled = FALSE
    /\ current = EmptyBuffer
    /\ next = PtrTo(EmptyBuffer)
    /\ buffers = <<>>
    /\ spare1 = NullPtr
    /\ spare2 = NullPtr
    /\ toWrite = <<>>
    /\ stopper = "idle"
    /\ aborted = FALSE
    /\ appended = 0
    /\ file = <<>>
    /\ disk = 0
    /\ count_ = 0
    /\ dropped = {}

-----------------------------------------------------------------------------
(***************************************************************************)
(* Front end: ~Logger() is pthread_once(Init_) and then Append().          *)
(***************************************************************************)
Log(t) ==
    /\ logger[t] = "idle"
    /\ logger' = [logger EXCEPT ![t] = "once"]
    /\ UNCHANGED <<once_, latch, running_, back, signalled, bufferVars, stopper,
                   aborted, logHistory>>

\* The first caller runs Init_: AsyncLogging::Start() sets running_ and
\* creates the thread.
OnceInit(t) ==
    /\ logger[t] = "once"
    /\ once_ = "no"
    /\ once_' = "running"
    /\ running_' = TRUE
    /\ back' = "start"
    /\ logger' = [logger EXCEPT ![t] = "latch"]
    /\ UNCHANGED <<latch, signalled, bufferVars, stopper, aborted, logHistory>>

\* latch_.Wait() of Start(), then pthread_once is over.
LatchWait(t) ==
    /\ logger[t] = "latch"
    /\ latch = 0
    /\ once_' = "done"
    /\ logger' = [logger EXCEPT ![t] = "append"]
    /\ UNCHANGED <<latch, running_, back, signalled, bufferVars, stopper,
                   aborted, logHistory>>

\* Later callers find it done; one that comes while it runs is blocked.
OnceDone(t) ==
    /\ logger[t] = "once"
    /\ once_ = "done"
    /\ logger' = [logger EXCEPT ![t] = "append"]
    /\ UNCHANGED <<once_, latch, running_, back, signalled, bufferVars, stopper,
                   aborted, logHistory>>

\* Faulty variant of HasRoom: off by one.
HasRoomLate(content) == Len(content) <= BufferCapacity

\* FixedBuffer::Append takes the message only when available() > len.
HasRoom(content) == Len(content) < BufferCapacity

\* The critical section of AsyncLogging::Append.
AppendLine(t) ==
    /\ logger[t] = "append"
    /\ appended < MaxMessages
    /\ appended' = appended + 1
    /\ IF HasRoom(current)
       THEN /\ current' = Append(current, appended')
            /\ UNCHANGED <<buffers, next, signalled>>
       ELSE /\ buffers' = Append(buffers, current)
            /\ next' = NullPtr
            /\ current' = IF next # NullPtr THEN Append(next[1], appended')
                          ELSE <<appended'>>
            /\ signalled' = (signalled \/ back = "wait")
    /\ logger' = [logger EXCEPT ![t] = "idle"]
    /\ UNCHANGED <<once_, latch, running_, back, spare1, spare2, toWrite,
                   stopper, aborted, file, disk, count_, dropped>>

-----------------------------------------------------------------------------
(***************************************************************************)
(* Stop(), outside of mutex_.                                              *)
(***************************************************************************)
Stop ==
    /\ stopper = "idle"
    /\ once_ = "done"
    /\ running_' = FALSE
    /\ stopper' = "notify"
    /\ UNCHANGED <<logger, once_, latch, back, signalled, bufferVars, aborted,
                   logHistory>>

StopNotify ==
    /\ stopper = "notify"
    /\ signalled' = (signalled \/ back = "wait")
    /\ stopper' = "join"
    /\ UNCHANGED <<logger, once_, latch, running_, back, bufferVars, aborted,
                   logHistory>>

StopJoin ==
    /\ stopper = "join"
    /\ back = "exited"
    /\ stopper' = "stopped"
    /\ UNCHANGED <<logger, once_, latch, running_, back, signalled, bufferVars,
                   aborted, logHistory>>

-----------------------------------------------------------------------------
(***************************************************************************)
(* Back end: ThreadFunc().                                                 *)
(***************************************************************************)
CountDown == latch' = latch - 1

\* latch_.CountDown(), the log file and the two spare buffers.
BackStart ==
    /\ back = "start"
    /\ CountDown
    /\ spare1' = PtrTo(EmptyBuffer)
    /\ spare2' = PtrTo(EmptyBuffer)
    /\ back' = "check"
    /\ UNCHANGED <<logger, once_, running_, signalled, current, next, buffers,
                   toWrite, stopper, aborted, logHistory>>

\* LogFile::Flush
Flush == disk' = Len(file)

\* while (running_), read without mutex_, and the three asserts; behind the
\* loop the file is flushed.
BackCheck ==
    /\ back = "check" /\ ~aborted
    /\ back' = IF running_ THEN "lock" ELSE "exited"
    /\ aborted' = (running_ /\ ~(/\ spare1 = PtrTo(EmptyBuffer)
                                 /\ spare2 = PtrTo(EmptyBuffer)
                                 /\ toWrite = <<>>))
    /\ IF running_ THEN UNCHANGED disk ELSE Flush
    /\ UNCHANGED <<logger, once_, latch, running_, signalled, bufferVars,
                   stopper, appended, file, count_, dropped>>

\* waitForSeconds(flushInterval_), when no buffer is full yet.
BackWait ==
    /\ back = "lock" /\ ~aborted
    /\ buffers = <<>>
    /\ back' = "wait"
    /\ signalled' = FALSE
    /\ UNCHANGED <<logger, once_, latch, running_, bufferVars, stopper, aborted,
                   logHistory>>

\* Faulty variant of SwapBuffers: forgets the buffer in use.
SwapFullOnly ==
    /\ toWrite' = buffers
    /\ buffers' = <<>>
    /\ UNCHANGED <<current, spare1>>
    /\ IF next = NullPtr THEN next' = spare2 /\ spare2' = NullPtr
                         ELSE UNCHANGED <<next, spare2>>

\* Faulty variant of SwapBuffers: leaves buffers_ as it was.
SwapKeepsBuffers ==
    /\ toWrite' = Append(buffers, current)
    /\ current' = spare1[1]
    /\ spare1' = NullPtr
    /\ IF next = NullPtr THEN next' = spare2 /\ spare2' = NullPtr
                         ELSE UNCHANGED <<next, spare2>>
    /\ UNCHANGED buffers

\* The critical section after the wait: lines 63 to 68.
SwapBuffers ==
    /\ toWrite' = Append(buffers, current)
    /\ current' = spare1[1]
    /\ spare1' = NullPtr
    /\ buffers' = <<>>
    /\ IF next = NullPtr THEN next' = spare2 /\ spare2' = NullPtr
                         ELSE UNCHANGED <<next, spare2>>

BackSwap ==
    /\ back = "lock" /\ ~aborted
    /\ buffers # <<>>
    /\ SwapBuffers
    /\ back' = "write"
    /\ UNCHANGED <<logger, once_, latch, running_, signalled, stopper, aborted,
                   logHistory>>

\* Faulty variant of BackWake: wait() in place of waitForSeconds().
BackWakeNotified ==
    /\ back = "wait" /\ ~aborted
    /\ signalled
    /\ SwapBuffers
    /\ back' = "write"
    /\ UNCHANGED <<logger, once_, latch, running_, signalled, stopper, aborted,
                   logHistory>>

\* The wait ends with a notification, or after flushInterval_ seconds, or
\* spuriously; buffers_ is not looked at again.
BackWake ==
    /\ back = "wait" /\ ~aborted
    /\ SwapBuffers
    /\ back' = "write"
    /\ UNCHANGED <<logger, once_, latch, running_, signalled, stopper, aborted,
                   logHistory>>

\* Faulty variant of Kept: keeps one buffer only.
KeptOne == IF Len(toWrite) > DropLimit THEN SubSeq(toWrite, 1, 1) ELSE toWrite

\* Lines 73 to 80: on overload all but the first two buffers are dropped.
Kept == IF Len(toWrite) > DropLimit THEN SubSeq(toWrite, 1, 2) ELSE toWrite

\* The messages of a vector of buffers, in order.
Lines(bs) == FlattenSeq(bs)

\* The lines given to LogFile::Append: on overload a notice comes first.
Appends == IF Len(toWrite) > DropLimit THEN <<EmptyBuffer>> \o Kept ELSE Kept

\* LogFile::Append_ counts its calls and flushes at every check_every_n_-th;
\* stdio takes every line (a full disk is not modelled).
AppendAll(lines) ==
    LET flushes == {i \in DOMAIN lines : (count_ + i) % CheckEveryN = 0}
    IN /\ file' = file \o Lines(lines)
       /\ count_' = (count_ + Len(lines)) % CheckEveryN
       /\ disk' = IF flushes = {} THEN disk
                  ELSE Len(file) + Len(Lines(SubSeq(lines, 1, Max(flushes))))

\* Lines 71 to 84: the buffers that are kept go to the file.
BackWrite ==
    /\ back = "write" /\ ~aborted
    /\ aborted' = (toWrite = <<>>)
    /\ dropped' = dropped \cup (ToSet(Lines(toWrite)) \ ToSet(Lines(Kept)))
    /\ AppendAll(Appends)
    /\ toWrite' = Kept
    /\ back' = "recycle"
    /\ UNCHANGED <<logger, once_, latch, running_, signalled, current, next,
                   buffers, spare1, spare2, stopper, appended>>

\* Faulty variant of BackRecycle: the round ends without output.Flush().
BackRecycleUnflushed ==
    /\ back = "recycle" /\ ~aborted
    /\ spare1' = PtrTo(EmptyBuffer)
    /\ spare2' = PtrTo(EmptyBuffer)
    /\ toWrite' = <<>>
    /\ back' = "check"
    /\ UNCHANGED <<logger, once_, latch, running_, signalled, current, next,
                   buffers, stopper, aborted, logHistory>>

\* Lines 86 to 106: at most two of the written buffers become the spares
\* again, with the asserts that there are enough of them, and the file is
\* flushed.
BackRecycle ==
    /\ back = "recycle" /\ ~aborted
    /\ LET left == IF Len(toWrite) > 2 THEN 2 ELSE Len(toWrite)
           needed == Cardinality({i \in {1, 2} : <<spare1, spare2>>[i] = NullPtr})
       IN aborted' = (left < needed)
    /\ spare1' = PtrTo(EmptyBuffer)
    /\ spare2' = PtrTo(EmptyBuffer)
    /\ toWrite' = <<>>
    /\ Flush
    /\ back' = "check"
    /\ UNCHANGED <<logger, once_, latch, running_, signalled, current, next,
                   buffers, stopper, appended, file, count_, dropped>>

BackStep ==
    \/ BackStart \/ BackCheck \/ BackWait \/ BackSwap \/ BackWake \/ BackWrite
    \/ BackRecycle

LogNext ==
    \/ \E t \in Loggers : \/ Log(t) \/ OnceInit(t) \/ LatchWait(t)
                          \/ OnceDone(t) \/ AppendLine(t)
    \/ Stop \/ StopNotify \/ StopJoin
    \/ BackStep

\* Threads are scheduled, a log call that was begun goes on, and the back
\* end's wait is over after flushInterval_ seconds at the latest.
LogFairness ==
    /\ WF_logVars(BackStep)
    /\ WF_logVars(StopNotify \/ StopJoin)
    /\ \A t \in Loggers :
        WF_logVars(OnceInit(t) \/ LatchWait(t) \/ OnceDone(t) \/ AppendLine(t))

LogSpec == LogInit /\ [][LogNext]_logVars
FairLogSpec == LogSpec /\ LogFairness

-----------------------------------------------------------------------------
\* The asserts of ThreadFunc() never fail: there is always a written buffer
\* for each spare that was given to the front end, even when the front end
\* used up next_buffer_ and when an overload was dropped.
SparesSuffice == ~aborted

\* The messages on their way, in the order they will have in the file: what is
\* written, what the back end has taken and not yet written, the full buffers,
\* and the current one.
Pipeline ==
    file \o (IF back = "recycle" THEN <<>> ELSE Lines(toWrite))
         \o Lines(buffers) \o current

\* The log file is the sequence of the accepted messages without the dropped
\* ones: nothing is written twice, out of order or lost on the way through
\* the buffers.  Messages are their numbers in the order they were accepted.
FileInOrder ==
    /\ \A i, j \in DOMAIN Pipeline : i < j => Pipeline[i] < Pipeline[j]
    /\ ToSet(Pipeline) = (1..appended) \ dropped

\* The back end sleeps over no work: a full buffer does not wait for the flush
\* interval (the back end has been notified), and what was written before is
\* flushed, not left to the next round of check_every_n_ lines.
NoSleepOverWork ==
    back = "wait" => (buffers # <<>> => signalled) /\ disk = Len(file)

\* Every accepted message is flushed to the file or dropped as overload while
\* the back end runs.
MessagesWritten ==
    \A m \in Messages :
        m <= appended
            ~> (m \in ToSet(SubSeq(file, 1, disk)) \/ m \in dropped \/ ~running_)

\* Log calls and Stop() return: the start of the back end inside pthread_once
\* does not depend on itself, and Stop()'s notify may come before the wait.
LogCallsReturn ==
    /\ \A t \in Loggers :
        (logger[t] # "idle") ~> (logger[t] = "idle" \/ appended = MaxMessages)
    /\ (stopper = "notify") ~> (stopper = "stopped")
=============================================================================
