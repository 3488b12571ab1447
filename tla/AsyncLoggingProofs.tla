------------------------- MODULE AsyncLoggingProofs -------------------------
(***************************************************************************)
(* Proofs about the asynchronous log for any number of threads and         *)
(* messages, any capacity of the buffers and any limit on overload.        *)
(***************************************************************************)
EXTENDS AsyncLogging, DataLemmas, SequenceTheorems

\* The back end in the part of its loop where it owns buffers to write.
Writing == back \in {"write", "recycle"}

\* pthread_once, the latch and the start of the back end.
StartInv ==
    /\ once_ = "no" <=> back = "none"
    /\ latch = IF back \in {"none", "start"} THEN 1 ELSE 0

\* Which of the four buffers are where: the front end has lost next_buffer_
\* only when it has filled a buffer, the spares are both there outside of
\* Writing, and for every spare that is gone there is a buffer to write.
SpareInv ==
    /\ next \in {NullPtr, PtrTo(EmptyBuffer)}
    /\ next = NullPtr => buffers # <<>>
    /\ spare1 \in {NullPtr, PtrTo(EmptyBuffer)}
    /\ spare2 \in {NullPtr, PtrTo(EmptyBuffer)}
    /\ back \in {"check", "lock", "wait"} =>
        spare1 = PtrTo(EmptyBuffer) /\ spare2 = PtrTo(EmptyBuffer)
    /\ ~Writing => toWrite = <<>>
    /\ Writing => toWrite # <<>> /\ (spare2 = NullPtr => Len(toWrite) >= 2)
    /\ ~aborted

\* The file is flushed and a full buffer is announced whenever the back end
\* sleeps.
SleepInv ==
    /\ back # "recycle" => disk = Len(file)
    /\ back = "wait" /\ buffers # <<>> => signalled

LInv == LogTypeOK /\ StartInv /\ SpareInv /\ SleepInv

\* The two values of a pointer, and that they differ.
LEMMA Pointers ==
    /\ NullPtr # PtrTo(EmptyBuffer)
    /\ PtrTo(EmptyBuffer)[1] = EmptyBuffer
    /\ IsPointer(NullPtr) /\ IsPointer(PtrTo(EmptyBuffer))
    /\ EmptyBuffer \in Seq(Messages) /\ Len(EmptyBuffer) = 0
  BY DEF NullPtr, PtrTo, EmptyBuffer, IsPointer

\* The state after the constructor satisfies the invariant.
LEMMA InitLInv == LogInit => LInv
<1> SUFFICES ASSUME LogInit PROVE LInv
  OBVIOUS
<1>1. running_ \in BOOLEAN /\ signalled \in BOOLEAN /\ aborted \in BOOLEAN
  BY Zenon DEF LogInit
<1>2. /\ appended \in 0..MaxMessages /\ disk \in 0..Len(file)
      /\ count_ \in 0..(CheckEveryN - 1) /\ Len(current) <= BufferCapacity
  BY LogAssumption DEF LogInit, EmptyBuffer
<1>3. IsPointer(next) /\ IsPointer(spare1) /\ IsPointer(spare2)
  BY Pointers DEF LogInit
<1>4. LogTypeOK
  BY <1>1, <1>2, <1>3 DEF LogInit, LogTypeOK, EmptyBuffer
<1>5. StartInv /\ SpareInv /\ SleepInv
  BY Pointers DEF LogInit, StartInv, SpareInv, SleepInv, Writing
<1> QED
  BY <1>4, <1>5 DEF LInv

\* The steps of ~Logger() before Append(), and Stop().
LEMMA CallLInv ==
    ASSUME LInv,
           \/ \E t \in Loggers : Log(t) \/ OnceInit(t) \/ LatchWait(t) \/ OnceDone(t)
           \/ Stop \/ StopNotify \/ StopJoin
    PROVE  LInv'
<1> USE DEF bufferVars, logHistory
<1>1. ASSUME NEW t \in Loggers, Log(t) \/ OnceDone(t)
      PROVE  LInv'
  <2>1. logger' \in [Loggers -> {"idle", "once", "latch", "append"}]
    BY <1>1 DEF Log, OnceDone, LInv, LogTypeOK
  <2>2. UNCHANGED <<once_, latch, running_, back, signalled, bufferVars, stopper,
                    aborted, logHistory>>
    BY <1>1 DEF Log, OnceDone
  <2>3. LogTypeOK'
    BY <2>1, <2>2 DEF LInv, LogTypeOK
  <2>4. StartInv' /\ SpareInv'
    BY <2>2 DEF LInv, StartInv, SpareInv, Writing
  <2>5. SleepInv'
    BY <2>2 DEF LInv, SleepInv
  <2> QED
    BY <2>3, <2>4, <2>5 DEF LInv
<1>2. ASSUME NEW t \in Loggers, OnceInit(t)
      PROVE  LInv'
  <2>1. back = "none" /\ back' = "start" /\ once_' = "running" /\ running_' = TRUE
    BY <1>2 DEF OnceInit, LInv, StartInv
  <2>2. LogTypeOK'
    BY <1>2, <2>1 DEF OnceInit, LInv, LogTypeOK
  <2> QED
    BY <1>2, <2>1, <2>2 DEF OnceInit, LInv, StartInv, SpareInv, SleepInv, Writing
<1>3. ASSUME NEW t \in Loggers, LatchWait(t)
      PROVE  LInv'
  <2>1. back # "none" /\ once_' = "done"
    BY <1>3 DEF LatchWait, LInv, StartInv
  <2>2. LogTypeOK'
    BY <1>3, <2>1 DEF LatchWait, LInv, LogTypeOK
  <2> QED
    BY <1>3, <2>1, <2>2 DEF LatchWait, LInv, StartInv, SpareInv, SleepInv, Writing
<1>4. CASE Stop \/ StopNotify \/ StopJoin
  <2>1. running_' \in BOOLEAN /\ signalled' \in BOOLEAN
    BY <1>4, Zenon DEF Stop, StopNotify, StopJoin, LInv, LogTypeOK
  <2>2. LogTypeOK'
    BY <1>4, <2>1 DEF Stop, StopNotify, StopJoin, LInv, LogTypeOK
  <2>3. signalled => signalled'
    BY <1>4, Zenon DEF Stop, StopNotify, StopJoin
  <2>4. SleepInv'
    BY <1>4, <2>3 DEF Stop, StopNotify, StopJoin, LInv, SleepInv
  <2>5. UNCHANGED <<once_, latch, back, bufferVars, aborted, logHistory>>
    BY <1>4 DEF Stop, StopNotify, StopJoin
  <2>6. StartInv' /\ SpareInv'
    BY <2>5 DEF LInv, StartInv, SpareInv, Writing
  <2> QED
    BY <2>2, <2>4, <2>6 DEF LInv
<1> QED
  BY <1>1, <1>2, <1>3, <1>4

\* What Append() does when the current buffer is full: the message is the
\* first one of the next buffer, or of a new one.
LEMMA FullAppend ==
    ASSUME LInv, NEW t \in Loggers, AppendLine(t), ~HasRoom(current)
    PROVE  /\ buffers' = Append(buffers, current) /\ next' = NullPtr
           /\ current' = <<appended + 1>>
<1>1. /\ buffers' = Append(buffers, current) /\ next' = NullPtr
      /\ appended' = appended + 1
      /\ current' = IF next # NullPtr THEN Append(next[1], appended')
                    ELSE <<appended'>>
  BY DEF AppendLine
<1>2. CASE next = NullPtr
  BY <1>1, <1>2
<1>3. CASE next = PtrTo(EmptyBuffer)
  <2>1. next # NullPtr /\ next[1] = <<>>
    BY <1>3, Pointers DEF EmptyBuffer
  <2>2. current' = Append(next[1], appended')
    BY <1>1, <2>1
  <2>3. current' = <<appended'>>
    BY ONLY <2>1, <2>2
  <2> QED
    BY <1>1, <2>3
<1> QED
  BY <1>2, <1>3 DEF LInv, SpareInv

\* Append(): the message goes to a buffer with room, and a full buffer is
\* announced to a back end that sleeps.
LEMMA AppendLInv ==
    ASSUME LInv, NEW t \in Loggers, AppendLine(t)
    PROVE  LInv'
<1>0. /\ appended' = appended + 1 /\ appended' \in Messages
      /\ appended' \in 0..MaxMessages
      /\ UNCHANGED <<once_, latch, running_, back, spare1, spare2, toWrite, stopper,
                     aborted, file, disk, count_, dropped>>
      /\ logger' \in [Loggers -> {"idle", "once", "latch", "append"}]
  BY LogAssumption DEF AppendLine, LInv, LogTypeOK, Messages
<1>1. /\ current' \in Seq(Messages) /\ Len(current') <= BufferCapacity
      /\ buffers' \in Seq(Seq(Messages)) /\ next' \in {NullPtr, PtrTo(EmptyBuffer)}
      /\ next' = NullPtr => buffers' # <<>>
  <2>1. CASE HasRoom(current)
    <3>1. current' = Append(current, appended') /\ UNCHANGED <<buffers, next>>
      BY <2>1 DEF AppendLine
    <3> QED
      BY <1>0, <2>1, <3>1, LogAssumption DEF HasRoom, LInv, LogTypeOK, SpareInv
  <2>2. CASE ~HasRoom(current)
    <3>1. /\ buffers' = Append(buffers, current) /\ next' = NullPtr
          /\ current' = <<appended'>>
      BY <1>0, <2>2, FullAppend
    <3>3. buffers' \in Seq(Seq(Messages)) /\ buffers' # <<>>
      <4>1. buffers \in Seq(Seq(Messages)) /\ current \in Seq(Messages)
        BY DEF LInv, LogTypeOK
      <4> QED
        BY ONLY <3>1, <4>1
    <3>4. current' \in Seq(Messages) /\ Len(current') <= BufferCapacity
      BY <1>0, <3>1, LogAssumption
    <3> QED
      BY <3>1, <3>3, <3>4
  <2> QED
    BY <2>1, <2>2
<1>2. signalled' \in BOOLEAN /\ (signalled => signalled')
  BY Zenon DEF AppendLine, LInv, LogTypeOK
<1>3. back = "wait" /\ buffers' # <<>> => signalled'
  <2>1. CASE HasRoom(current)
    BY <1>2, <2>1 DEF AppendLine, LInv, SleepInv
  <2>2. CASE ~HasRoom(current)
    <3>1. signalled' = (signalled \/ back = "wait")
      BY <2>2 DEF AppendLine
    <3> QED
      BY <3>1, Zenon
  <2> QED
    BY <2>1, <2>2
<1>4. LogTypeOK'
  <2>1. IsPointer(next')
    BY <1>1, Pointers
  <2> QED
    BY <1>0, <1>1, <1>2, <2>1 DEF LInv, LogTypeOK
<1>5. StartInv' /\ SpareInv'
  BY <1>0, <1>1 DEF LInv, StartInv, SpareInv, Writing
<1>6. SleepInv'
  BY <1>0, <1>3 DEF LInv, SleepInv
<1> QED
  BY <1>4, <1>5, <1>6 DEF LInv

\* The back end starts, looks at running_, and goes to sleep.
LEMMA CheckLInv ==
    ASSUME LInv, BackStart \/ BackCheck \/ BackWait
    PROVE  LInv'
<1> USE DEF bufferVars, logHistory
<1>1. CASE BackStart
  <2>1. /\ back = "start" /\ back' = "check" /\ latch' = 0
        /\ spare1' = PtrTo(EmptyBuffer) /\ spare2' = PtrTo(EmptyBuffer)
        /\ UNCHANGED <<logger, once_, running_, signalled, current, next, buffers,
                       toWrite, stopper, aborted, logHistory>>
    BY <1>1 DEF BackStart, CountDown, LInv, StartInv
  <2>2. LogTypeOK'
    BY <2>1, Pointers DEF LInv, LogTypeOK
  <2>3. StartInv' /\ SpareInv' /\ SleepInv'
    BY <2>1, Pointers DEF LInv, StartInv, SpareInv, SleepInv, Writing
  <2> QED
    BY <2>2, <2>3 DEF LInv
<1>2. CASE BackCheck
  <2>1. /\ back = "check" /\ back' \in {"lock", "exited"}
        /\ UNCHANGED <<logger, once_, latch, running_, signalled, bufferVars, stopper,
                       appended, file, count_, dropped>>
    BY <1>2 DEF BackCheck
  <2>2. spare1 = PtrTo(EmptyBuffer) /\ spare2 = PtrTo(EmptyBuffer) /\ toWrite = <<>>
    BY <2>1 DEF LInv, SpareInv, Writing
  <2>3. aborted' = FALSE
    BY <1>2, <2>2, Zenon DEF BackCheck
  <2>4. disk' = Len(file) /\ Len(file) \in Nat
    BY <1>2, <2>1 DEF BackCheck, Flush, LInv, SleepInv, LogTypeOK
  <2>5. LogTypeOK'
    <3>1. aborted' \in BOOLEAN
      BY <2>3
    <3>2. disk' \in 0..Len(file')
      BY <2>1, <2>4
    <3> QED
      BY <2>1, <3>1, <3>2 DEF LInv, LogTypeOK
  <2>6. StartInv' /\ SpareInv' /\ SleepInv'
    BY <2>1, <2>2, <2>3, <2>4 DEF LInv, StartInv, SpareInv, SleepInv, Writing
  <2> QED
    BY <2>5, <2>6 DEF LInv
<1>3. CASE BackWait
  <2>1. /\ back = "lock" /\ back' = "wait" /\ buffers = <<>> /\ signalled' = FALSE
        /\ UNCHANGED <<logger, once_, latch, running_, bufferVars, stopper, aborted,
                       logHistory>>
    BY <1>3 DEF BackWait
  <2>2. LogTypeOK'
    BY <2>1 DEF LInv, LogTypeOK
  <2>3. StartInv' /\ SpareInv' /\ SleepInv'
    BY <2>1 DEF LInv, StartInv, SpareInv, SleepInv, Writing
  <2> QED
    BY <2>2, <2>3 DEF LInv
<1> QED
  BY <1>1, <1>2, <1>3

\* What the critical section of the back end does when both spares are there.
LEMMA Swapped ==
    ASSUME LInv, back \in {"lock", "wait"}, SwapBuffers
    PROVE  /\ toWrite' = Append(buffers, current)
           /\ current' = EmptyBuffer /\ buffers' = <<>>
           /\ next' = PtrTo(EmptyBuffer)
           /\ spare1' = NullPtr
           /\ spare2' \in {NullPtr, PtrTo(EmptyBuffer)}
           /\ toWrite' \in Seq(Seq(Messages)) /\ toWrite' # <<>>
           /\ spare2' = NullPtr => Len(toWrite') >= 2
<1>1. spare1 = PtrTo(EmptyBuffer) /\ spare2 = PtrTo(EmptyBuffer)
  BY DEF LInv, SpareInv
<1>2. /\ buffers \in Seq(Seq(Messages)) /\ current \in Seq(Messages)
      /\ next \in {NullPtr, PtrTo(EmptyBuffer)}
      /\ next = NullPtr => buffers # <<>>
  BY DEF LInv, LogTypeOK, SpareInv
<1>3. /\ toWrite' = Append(buffers, current)
      /\ current' = EmptyBuffer /\ buffers' = <<>> /\ spare1' = NullPtr
  BY <1>1, Pointers DEF SwapBuffers
<1>4. /\ toWrite' \in Seq(Seq(Messages)) /\ toWrite' # <<>>
      /\ Len(toWrite') = Len(buffers) + 1
  BY ONLY <1>2, <1>3
<1>5. CASE next = NullPtr
  <2>1. next' = PtrTo(EmptyBuffer) /\ spare2' = NullPtr
    BY <1>1, <1>5 DEF SwapBuffers
  <2>2. Len(toWrite') >= 2
    BY ONLY <1>2, <1>4, <1>5
  <2> QED
    BY <1>3, <1>4, <2>1, <2>2
<1>6. CASE next # NullPtr
  <2>1. next' = PtrTo(EmptyBuffer) /\ spare2' = PtrTo(EmptyBuffer)
    BY <1>1, <1>2, <1>6 DEF SwapBuffers
  <2> QED
    BY <1>3, <1>4, <2>1, Pointers
<1> QED
  BY <1>5, <1>6

\* The swap of the buffers.
LEMMA SwapLInv ==
    ASSUME LInv, BackSwap \/ BackWake
    PROVE  LInv'
<1> USE DEF bufferVars, logHistory
<1>1. /\ back \in {"lock", "wait"} /\ back' = "write" /\ SwapBuffers
      /\ UNCHANGED <<logger, once_, latch, running_, signalled, stopper, aborted,
                     logHistory>>
  BY DEF BackSwap, BackWake
<1>2. /\ toWrite' \in Seq(Seq(Messages)) /\ toWrite' # <<>>
      /\ current' = EmptyBuffer /\ buffers' = <<>>
      /\ next' = PtrTo(EmptyBuffer)
      /\ spare1' = NullPtr
      /\ spare2' \in {NullPtr, PtrTo(EmptyBuffer)}
      /\ spare2' = NullPtr => Len(toWrite') >= 2
  BY <1>1, Swapped
<1>3. LogTypeOK'
  <2>1. current' \in Seq(Messages) /\ Len(current') <= BufferCapacity
    BY <1>2, Pointers, LogAssumption
  <2>2. IsPointer(next') /\ IsPointer(spare1') /\ IsPointer(spare2')
    BY <1>2, Pointers
  <2>3. buffers' \in Seq(Seq(Messages))
    BY <1>2
  <2> QED
    BY <1>1, <1>2, <2>1, <2>2, <2>3 DEF LInv, LogTypeOK
<1>4. StartInv' /\ SleepInv'
  BY <1>1 DEF LInv, StartInv, SleepInv
<1>5. SpareInv'
  BY <1>1, <1>2, Pointers DEF LInv, SpareInv, Writing
<1> QED
  BY <1>3, <1>4, <1>5 DEF LInv

\* What is kept of the buffers to write, and what is dropped on overload.
Lost == IF Len(toWrite) > DropLimit THEN SubSeq(toWrite, 3, Len(toWrite)) ELSE <<>>

\* Together they are the buffers to write, in order; two are kept whenever
\* there were two.
LEMMA KeptAndLost ==
    ASSUME toWrite \in Seq(Seq(Messages)), toWrite # <<>>
    PROVE  /\ Kept \in Seq(Seq(Messages)) /\ Lost \in Seq(Seq(Messages))
           /\ toWrite = Kept \o Lost
           /\ Kept # <<>>
           /\ Len(toWrite) >= 2 => Len(Kept) >= 2
<1> DEFINE S == Seq(Messages)
<1>0. toWrite \in Seq(S)
  OBVIOUS
<1> HIDE DEF S
<1> SUFFICES /\ Kept \in Seq(S) /\ Lost \in Seq(S)
             /\ toWrite = Kept \o Lost
             /\ Kept # <<>>
             /\ Len(toWrite) >= 2 => Len(Kept) >= 2
  BY DEF S
<1>1. CASE Len(toWrite) > DropLimit
  <2>0. Len(toWrite) \in Nat /\ Len(toWrite) > 2
    BY <1>0, <1>1, LogAssumption
  <2>1. Kept = SubSeq(toWrite, 1, 2) /\ Lost = SubSeq(toWrite, 3, Len(toWrite))
    BY <1>1 DEF Kept, Lost
  <2>2. Kept \in Seq(S) /\ Len(Kept) = 2
    BY ONLY <1>0, <2>0, <2>1
  <2>3. Lost \in Seq(S) /\ Len(Lost) = Len(toWrite) - 2
    BY ONLY <1>0, <2>0, <2>1
  <2>4. toWrite = Kept \o Lost
    BY ONLY <1>0, <2>0, <2>1
  <2> QED
    BY ONLY <2>2, <2>3, <2>4
<1>2. CASE ~(Len(toWrite) > DropLimit)
  <2>1. Kept = toWrite /\ Lost = <<>>
    BY <1>2 DEF Kept, Lost
  <2> QED
    BY ONLY <1>0, <2>1, toWrite # <<>>
<1> QED
  BY <1>1, <1>2

\* The notice of an overload is no message: the lines given to the file are
\* those of the buffers that are kept.
LEMMA AppendsLines ==
    ASSUME Kept \in Seq(Seq(Messages))
    PROVE  /\ Appends \in Seq(Seq(Messages))
           /\ Lines(Appends) \in Seq(Messages) /\ Lines(Appends) = Lines(Kept)
<1>1. CASE Appends = Kept
  BY <1>1, FlattenType DEF Lines
<1>2. CASE Appends = <<EmptyBuffer>> \o Kept
  <2> DEFINE notice == Append(<<>>, EmptyBuffer)
             none == <<>>
  <2>1. EmptyBuffer \in Seq(Messages) /\ none \in Seq(Seq(Messages))
    BY DEF EmptyBuffer
  <2>2. notice = <<EmptyBuffer>> /\ notice \in Seq(Seq(Messages))
    BY <2>1
  <2>3. FlattenSeq(Append(none, EmptyBuffer)) = FlattenSeq(none) \o EmptyBuffer
    BY <2>1, FlattenAppend
  <2>4. FlattenSeq(notice) = <<>>
    BY <2>3, FlattenEmpty DEF EmptyBuffer
  <2> HIDE DEF notice
  <2>5. FlattenSeq(notice \o Kept) = FlattenSeq(notice) \o FlattenSeq(Kept)
    BY <2>2, FlattenConcat
  <2>6. FlattenSeq(Kept) \in Seq(Messages)
    BY FlattenType
  <2>7. FlattenSeq(notice \o Kept) = FlattenSeq(Kept)
    BY ONLY <2>4, <2>5, <2>6
  <2>8. Appends \in Seq(Seq(Messages))
    <3> DEFINE S == Seq(Messages)
    <3>1. notice \in Seq(S) /\ Kept \in Seq(S) /\ Appends = notice \o Kept
      BY <1>2, <2>2
    <3> HIDE DEF S
    <3>2. Appends \in Seq(S)
      BY ONLY <3>1
    <3> QED
      BY <3>2 DEF S
  <2> QED
    BY <1>2, <2>2, <2>6, <2>7, <2>8 DEF Lines
<1> QED
  BY <1>1, <1>2 DEF Appends

\* LogFile::Append_ for several lines: its counter stays below check_every_n_
\* and it flushes no more than there is.
LEMMA AppendAllTypes ==
    ASSUME NEW lines \in Seq(Seq(Messages)), AppendAll(lines),
           file \in Seq(Messages), disk \in 0..Len(file),
           count_ \in 0..(CheckEveryN - 1)
    PROVE  /\ file' = file \o Lines(lines) /\ file' \in Seq(Messages)
           /\ disk' \in 0..Len(file')
           /\ count_' \in 0..(CheckEveryN - 1)
<1> DEFINE flushes == {i \in DOMAIN lines : (count_ + i) % CheckEveryN = 0}
           m == Max(flushes)
           head == SubSeq(lines, 1, m)
           tail == SubSeq(lines, m + 1, Len(lines))
<1>1. /\ file' = file \o Lines(lines)
      /\ count_' = (count_ + Len(lines)) % CheckEveryN
      /\ disk' = IF flushes = {} THEN disk ELSE Len(file) + Len(Lines(head))
  BY DEF AppendAll
<1>2. Lines(lines) \in Seq(Messages)
  BY FlattenType DEF Lines
<1>3. file' \in Seq(Messages) /\ Len(file') = Len(file) + Len(Lines(lines))
  BY ONLY <1>1, <1>2, file \in Seq(Messages)
<1>4. count_' \in 0..(CheckEveryN - 1)
  <2>1. Len(lines) \in Nat
    OBVIOUS
  <2> QED
    BY ONLY <1>1, <2>1, LogAssumption, count_ \in 0..(CheckEveryN - 1)
<1>5. CASE flushes = {}
  <2>1. disk' = disk
    BY <1>1, <1>5
  <2>2. Len(file) \in Nat /\ Len(Lines(lines)) \in Nat
    BY <1>2
  <2>3. disk' \in 0..Len(file')
    BY ONLY <1>3, <2>1, <2>2, disk \in 0..Len(file)
  <2> QED
    BY <1>1, <1>3, <1>4, <2>3
<1>6. CASE flushes # {}
  <2>1. flushes \subseteq 0..Len(lines) /\ Len(lines) \in Nat
    OBVIOUS
  <2>2. m \in flushes
    BY <1>6, <2>1, MaxOfNats
  <2>3. m \in 1..Len(lines)
    BY <2>2
  <2>4. disk' = Len(file) + Len(Lines(head))
    BY <1>1, <1>6
  <2> HIDE DEF flushes, m
  <2>5. head \in Seq(Seq(Messages)) /\ tail \in Seq(Seq(Messages))
        /\ lines = head \o tail
    <3> DEFINE S == Seq(Messages)
    <3>1. lines \in Seq(S)
      OBVIOUS
    <3> HIDE DEF S
    <3>2. head \in Seq(S) /\ tail \in Seq(S) /\ lines = head \o tail
      BY ONLY <2>3, <3>1
    <3> QED
      BY <3>2 DEF S
  <2> HIDE DEF head, tail
  <2>6. FlattenSeq(head \o tail) = FlattenSeq(head) \o FlattenSeq(tail)
    BY <2>5, FlattenConcat
  <2>7. FlattenSeq(head) \in Seq(Messages) /\ FlattenSeq(tail) \in Seq(Messages)
    BY <2>5, FlattenType
  <2>8. Lines(lines) = Lines(head) \o FlattenSeq(tail) /\ Lines(head) \in Seq(Messages)
    BY <2>5, <2>6, <2>7 DEF Lines
  <2>9. disk' \in 0..Len(file')
    BY ONLY <1>3, <2>4, <2>7, <2>8, file \in Seq(Messages)
  <2> QED
    BY <1>1, <1>3, <1>4, <2>9
<1> QED
  BY <1>5, <1>6

\* The buffers that are kept go to the file.
LEMMA WriteLInv ==
    ASSUME LInv, BackWrite
    PROVE  LInv'
<1>1. /\ back = "write" /\ back' = "recycle" /\ toWrite' = Kept
      /\ AppendAll(Appends)
      /\ dropped' = dropped \cup (ToSet(Lines(toWrite)) \ ToSet(Lines(Kept)))
      /\ UNCHANGED <<logger, once_, latch, running_, signalled, current, next,
                     buffers, spare1, spare2, stopper, appended>>
  BY DEF BackWrite
<1>2. toWrite \in Seq(Seq(Messages)) /\ toWrite # <<>>
  BY <1>1 DEF LInv, LogTypeOK, SpareInv, Writing
<1>3. aborted' = FALSE
  BY <1>2, Zenon DEF BackWrite
<1>4. /\ Kept \in Seq(Seq(Messages)) /\ Kept # <<>>
      /\ Len(toWrite) >= 2 => Len(Kept) >= 2
  BY <1>2, KeptAndLost
<1>5. Appends \in Seq(Seq(Messages))
  BY <1>4, AppendsLines
<1>6. /\ file' \in Seq(Messages) /\ disk' \in 0..Len(file')
      /\ count_' \in 0..(CheckEveryN - 1)
  BY <1>1, <1>5, AppendAllTypes DEF LInv, LogTypeOK
<1>7. dropped' \subseteq Messages
  <2>1. Lines(toWrite) \in Seq(Messages)
    BY <1>2, FlattenType DEF Lines
  <2>2. ToSet(Lines(toWrite)) \subseteq Messages
    BY <2>1 DEF ToSet
  <2> QED
    BY <1>1, <2>2 DEF LInv, LogTypeOK
<1>8. LogTypeOK'
  <2>1. aborted' \in BOOLEAN
    BY <1>3
  <2>2. toWrite' \in Seq(Seq(Messages))
    BY <1>1, <1>4
  <2> QED
    BY <1>1, <1>6, <1>7, <2>1, <2>2 DEF LInv, LogTypeOK
<1>9. StartInv' /\ SleepInv'
  BY <1>1 DEF LInv, StartInv, SleepInv
<1>10. SpareInv'
  BY <1>1, <1>3, <1>4 DEF LInv, SpareInv, Writing
<1> QED
  BY <1>8, <1>9, <1>10 DEF LInv

\* The written buffers become the spares again: there are enough of them.
LEMMA RecycleLInv ==
    ASSUME LInv, BackRecycle
    PROVE  LInv'
<1>1. /\ back = "recycle" /\ back' = "check" /\ toWrite' = <<>>
      /\ spare1' = PtrTo(EmptyBuffer) /\ spare2' = PtrTo(EmptyBuffer)
      /\ disk' = Len(file)
      /\ UNCHANGED <<logger, once_, latch, running_, signalled, current, next,
                     buffers, stopper, appended, file, count_, dropped>>
  BY DEF BackRecycle, Flush
<1> DEFINE left == IF Len(toWrite) > 2 THEN 2 ELSE Len(toWrite)
           gone == {i \in {1, 2} : <<spare1, spare2>>[i] = NullPtr}
           needed == Cardinality(gone)
<1>2. /\ toWrite \in Seq(Seq(Messages)) /\ toWrite # <<>>
      /\ spare2 = NullPtr => Len(toWrite) >= 2
  BY <1>1 DEF LInv, LogTypeOK, SpareInv, Writing
<1>3. Len(toWrite) \in Nat /\ Len(toWrite) >= 1
  BY ONLY <1>2
<1>4. left \in Nat /\ needed \in Nat /\ ~(left < needed)
  <2>1. CASE spare2 = NullPtr
    <3>1. left = 2
      <4>1. Len(toWrite) >= 2
        BY <1>2, <2>1
      <4> QED
        BY ONLY <1>3, <4>1
    <3>2. IsFiniteSet(1..2) /\ Cardinality(1..2) = 2
      <4>1. 1 \in Int /\ 2 \in Int
        OBVIOUS
      <4>2. /\ IsFiniteSet(1..2)
            /\ Cardinality(1..2) = IF 1 > 2 THEN 0 ELSE 2 - 1 + 1
        BY <4>1, FS_Interval, Zenon
      <4> QED
        BY <4>2
    <3>3. gone \subseteq 1..2
      OBVIOUS
    <3>4. needed \in Nat /\ needed <= 2
      BY <3>2, <3>3, FS_Subset, FS_CardinalityType
    <3> HIDE DEF left, needed
    <3> QED
      BY ONLY <3>1, <3>4
  <2>2. CASE spare2 # NullPtr
    <3>1. left >= 1 /\ left \in Nat
      BY <1>3
    <3>2. IsFiniteSet({1}) /\ Cardinality({1}) = 1
      BY FS_Singleton
    <3>3. gone \subseteq {1}
      BY <2>2
    <3>4. needed \in Nat /\ needed <= 1
      BY <3>2, <3>3, FS_Subset, FS_CardinalityType
    <3> QED
      BY <3>1, <3>4
  <2> QED
    BY <2>1, <2>2
<1>5. aborted' = (left < needed)
  BY DEF BackRecycle
<1>6. aborted' = FALSE
  <2> DEFINE short == left < needed
  <2>1. short = FALSE
    <3> HIDE DEF left, needed
    <3> QED
      BY <1>4
  <2>2. aborted' = short
    BY <1>5
  <2> HIDE DEF short
  <2> QED
    BY ONLY <2>1, <2>2, Zenon
<1>7. LogTypeOK'
  <2>1. aborted' \in BOOLEAN
    BY <1>6
  <2>2. disk' \in 0..Len(file')
    BY <1>1 DEF LInv, LogTypeOK
  <2>3. toWrite' \in Seq(Seq(Messages))
    BY <1>1
  <2>4. IsPointer(spare1') /\ IsPointer(spare2')
    BY <1>1, Pointers
  <2> QED
    BY <1>1, <2>1, <2>2, <2>3, <2>4 DEF LInv, LogTypeOK
<1>8. StartInv' /\ SleepInv'
  BY <1>1 DEF LInv, StartInv, SleepInv
<1>9. SpareInv'
  BY <1>1, <1>6, Pointers DEF LInv, SpareInv, Writing
<1> QED
  BY <1>7, <1>8, <1>9 DEF LInv

\* The invariant is kept by every step.
LEMMA NextLInv == LInv /\ [LogNext]_logVars => LInv'
<1> SUFFICES ASSUME LInv, [LogNext]_logVars PROVE LInv'
  OBVIOUS
<1>1. CASE UNCHANGED logVars
  <2> USE <1>1 DEF logVars, bufferVars, logHistory
  <2>1. LogTypeOK'
    BY DEF LInv, LogTypeOK
  <2>2. StartInv' /\ SpareInv' /\ SleepInv'
    BY DEF LInv, StartInv, SpareInv, SleepInv, Writing
  <2> QED
    BY <2>1, <2>2 DEF LInv
<1> QED
  BY <1>1, CallLInv, AppendLInv, CheckLInv, SwapLInv, WriteLInv, RecycleLInv
  DEF LogNext, BackStep

\* It holds in every state of the log.
THEOREM LInvariant == LogSpec => []LInv
  BY InitLInv, NextLInv, PTL DEF LogSpec

-----------------------------------------------------------------------------
(***************************************************************************)
(* The order of the messages.                                              *)
(***************************************************************************)
Ascending(s) == \A i, j \in DOMAIN s : i < j => s[i] < s[j]

\* Messages are numbers.
LEMMA MessagesAreNumbers == \A q \in Seq(Messages) : q \in Seq(Nat)
<1>1. Messages \subseteq Nat
  BY DEF Messages
<1> QED
  BY <1>1, SeqMonotonic

\* Concatenation of sequences of numbers is associative.
LEMMA Regroup ==
    ASSUME NEW a \in Seq(Nat), NEW b \in Seq(Nat), NEW c \in Seq(Nat)
    PROVE  (a \o b) \o c = a \o (b \o c)
  OBVIOUS

\* The members of a concatenation.
LEMMA ConcatMembers ==
    ASSUME NEW a \in Seq(Nat), NEW b \in Seq(Nat)
    PROVE  /\ a \o b \in Seq(Nat) /\ ToSet(a \o b) = ToSet(a) \cup ToSet(b)
<1>1. a \o b \in Seq(Nat)
  OBVIOUS
<1>2. ASSUME NEW x \in ToSet(a \o b)
      PROVE  x \in ToSet(a) \cup ToSet(b)
  <2>1. PICK i \in 1..(Len(a) + Len(b)) : x = (a \o b)[i]
    BY DEF ToSet
  <2>2. CASE i <= Len(a)
    BY <2>1, <2>2 DEF ToSet
  <2>3. CASE i > Len(a)
    <3>1. i - Len(a) \in 1..Len(b) /\ x = b[i - Len(a)]
      BY <2>1, <2>3
    <3> QED
      BY <3>1 DEF ToSet
  <2> QED
    BY <2>1, <2>2, <2>3
<1>3. ASSUME NEW x \in ToSet(a)
      PROVE  x \in ToSet(a \o b)
  <2>1. PICK i \in 1..Len(a) : x = a[i]
    BY DEF ToSet
  <2>2. i \in 1..Len(a \o b) /\ x = (a \o b)[i]
    BY <2>1
  <2> QED
    BY <2>2 DEF ToSet
<1>4. ASSUME NEW x \in ToSet(b)
      PROVE  x \in ToSet(a \o b)
  <2>1. PICK i \in 1..Len(b) : x = b[i]
    BY DEF ToSet
  <2>2. Len(a) + i \in DOMAIN (a \o b) /\ x = (a \o b)[Len(a) + i]
    BY <2>1
  <2> QED
    BY <2>2, Zenon DEF ToSet
<1> QED
  BY <1>1, <1>2, <1>3, <1>4

\* In an ascending concatenation the members of the first part are smaller.
LEMMA AscendingApart ==
    ASSUME NEW a \in Seq(Nat), NEW b \in Seq(Nat), Ascending(a \o b)
    PROVE  /\ Ascending(a) /\ Ascending(b)
           /\ \A x \in ToSet(a), y \in ToSet(b) : x < y
<1>1. Ascending(a)
  <2> SUFFICES ASSUME NEW i \in 1..Len(a), NEW j \in 1..Len(a), i < j
               PROVE  a[i] < a[j]
    BY SMTT(30) DEF Ascending
  <2>1. /\ i \in DOMAIN (a \o b) /\ j \in DOMAIN (a \o b)
        /\ (a \o b)[i] = a[i] /\ (a \o b)[j] = a[j]
    OBVIOUS
  <2> QED
    BY <2>1 DEF Ascending
<1>2. Ascending(b)
  <2> SUFFICES ASSUME NEW i \in 1..Len(b), NEW j \in 1..Len(b), i < j
               PROVE  b[i] < b[j]
    BY SMTT(30) DEF Ascending
  <2>1. /\ Len(a) + i \in DOMAIN (a \o b) /\ Len(a) + j \in DOMAIN (a \o b)
        /\ (a \o b)[Len(a) + i] = b[i] /\ (a \o b)[Len(a) + j] = b[j]
        /\ Len(a) + i < Len(a) + j
    OBVIOUS
  <2> QED
    BY <2>1 DEF Ascending
<1>3. ASSUME NEW x \in ToSet(a), NEW y \in ToSet(b)
      PROVE  x < y
  <2>1. PICK i \in 1..Len(a), j \in 1..Len(b) : x = a[i] /\ y = b[j]
    BY SMTT(30) DEF ToSet
  <2>2. /\ i \in DOMAIN (a \o b) /\ Len(a) + j \in DOMAIN (a \o b)
        /\ (a \o b)[i] = a[i] /\ (a \o b)[Len(a) + j] = b[j]
        /\ i < Len(a) + j
    OBVIOUS
  <2> QED
    BY <2>1, <2>2 DEF Ascending
<1> QED
  BY <1>1, <1>2, <1>3

\* And conversely.
LEMMA AscendingTogether ==
    ASSUME NEW a \in Seq(Nat), NEW b \in Seq(Nat), Ascending(a), Ascending(b),
           \A x \in ToSet(a), y \in ToSet(b) : x < y
    PROVE  Ascending(a \o b)
<1> SUFFICES ASSUME NEW i \in 1..(Len(a) + Len(b)), NEW j \in 1..(Len(a) + Len(b)),
                    i < j
             PROVE  (a \o b)[i] < (a \o b)[j]
  BY DEF Ascending
<1>1. CASE j <= Len(a)
  <2>1. i \in DOMAIN a /\ j \in DOMAIN a /\ (a \o b)[i] = a[i] /\ (a \o b)[j] = a[j]
    BY <1>1
  <2> QED
    BY <2>1 DEF Ascending
<1>2. CASE i > Len(a)
  <2>1. /\ i - Len(a) \in DOMAIN b /\ j - Len(a) \in DOMAIN b
        /\ (a \o b)[i] = b[i - Len(a)] /\ (a \o b)[j] = b[j - Len(a)]
        /\ i - Len(a) < j - Len(a)
    BY <1>2
  <2> QED
    BY <2>1 DEF Ascending
<1>3. CASE i <= Len(a) /\ j > Len(a)
  <2>1. /\ i \in DOMAIN a /\ j - Len(a) \in DOMAIN b
        /\ (a \o b)[i] = a[i] /\ (a \o b)[j] = b[j - Len(a)]
    BY <1>3
  <2>2. a[i] \in ToSet(a) /\ b[j - Len(a)] \in ToSet(b)
    BY <2>1 DEF ToSet
  <2> QED
    BY <2>1, <2>2
<1> QED
  BY <1>1, <1>2, <1>3

\* Dropping a part from the middle of an ascending sequence takes the members
\* of that part away and leaves the rest in order.
LEMMA AscendingCut ==
    ASSUME NEW a \in Seq(Nat), NEW b \in Seq(Nat), NEW c \in Seq(Nat),
           Ascending((a \o b) \o c)
    PROVE  /\ Ascending(a \o c)
           /\ ToSet(a \o c) = ToSet((a \o b) \o c) \ ToSet(b)
<1>1. a \o b \in Seq(Nat) /\ ToSet(a \o b) = ToSet(a) \cup ToSet(b)
  BY ConcatMembers
<1>2. ToSet((a \o b) \o c) = ToSet(a \o b) \cup ToSet(c)
  BY <1>1, ConcatMembers
<1>3. ToSet(a \o c) = ToSet(a) \cup ToSet(c)
  BY ConcatMembers
<1>4. /\ Ascending(a \o b) /\ Ascending(c)
      /\ \A x \in ToSet(a \o b), y \in ToSet(c) : x < y
  BY <1>1, AscendingApart
<1>5. /\ Ascending(a) /\ \A x \in ToSet(a), y \in ToSet(b) : x < y
  BY <1>4, AscendingApart
<1>6. \A x \in ToSet(a), y \in ToSet(c) : x < y
  BY <1>1, <1>4
<1>7. Ascending(a \o c)
  BY <1>4, <1>5, <1>6, AscendingTogether
<1>8. ToSet(a) \subseteq Nat /\ ToSet(b) \subseteq Nat /\ ToSet(c) \subseteq Nat
  BY DEF ToSet
<1>9. ToSet(a) \cap ToSet(b) = {} /\ ToSet(c) \cap ToSet(b) = {}
  <2>1. \A x \in Nat : ~(x < x)
    OBVIOUS
  <2> QED
    BY <1>1, <1>4, <1>5, <1>8, <2>1
<1> QED
  BY <1>1, <1>2, <1>3, <1>7, <1>9

\* A larger member at the end.
LEMMA AscendingAppend ==
    ASSUME NEW s \in Seq(Nat), NEW x \in Nat, Ascending(s), \A y \in ToSet(s) : y < x
    PROVE  Ascending(Append(s, x)) /\ ToSet(Append(s, x)) = ToSet(s) \cup {x}
<1>1. <<x>> \in Seq(Nat) /\ Append(s, x) = s \o <<x>>
  OBVIOUS
<1>2. Ascending(<<x>>) /\ ToSet(<<x>>) = {x}
  BY DEF Ascending, ToSet
<1> DEFINE t == <<x>>
<1>3. t \in Seq(Nat) /\ Ascending(t) /\ ToSet(t) = {x} /\ Append(s, x) = s \o t
  BY <1>1, <1>2
<1> HIDE DEF t
<1>4. Ascending(s \o t)
  BY <1>3, AscendingTogether
<1>5. ToSet(s \o t) = ToSet(s) \cup ToSet(t)
  BY <1>3, ConcatMembers
<1> QED
  BY <1>3, <1>4, <1>5

-----------------------------------------------------------------------------
\* The order of the messages, and that only accepted ones were dropped.
OrderInv == FileInOrder /\ dropped \subseteq 1..appended

\* What the back end has taken and not yet written.
Taken == IF back = "recycle" THEN <<>> ELSE Lines(toWrite)

\* The parts of the pipeline are sequences of messages.
LEMMA PipelineTypes ==
    ASSUME LogTypeOK
    PROVE  /\ file \in Seq(Nat) /\ Taken \in Seq(Nat)
           /\ Lines(buffers) \in Seq(Nat) /\ current \in Seq(Nat)
           /\ Pipeline \in Seq(Nat)
           /\ Pipeline = ((file \o Taken) \o Lines(buffers)) \o current
<1>1. \A q \in Seq(Messages) : q \in Seq(Nat)
  BY MessagesAreNumbers
<1>2. Lines(toWrite) \in Seq(Messages) /\ Lines(buffers) \in Seq(Messages)
  BY FlattenType DEF LogTypeOK, Lines
<1>3. /\ file \in Seq(Nat) /\ Taken \in Seq(Nat)
      /\ Lines(buffers) \in Seq(Nat) /\ current \in Seq(Nat)
  BY <1>1, <1>2 DEF LogTypeOK, Taken
<1>4. Pipeline = ((file \o Taken) \o Lines(buffers)) \o current
  BY DEF Pipeline, Taken
<1> QED
  BY ONLY <1>3, <1>4

\* Every step but Append() and the write leaves the pipeline as it is: a swap
\* moves the messages from the front end's buffers to the back end's.
LEMMA PipelineKept ==
    ASSUME LInv,
           \/ \E t \in Loggers : Log(t) \/ OnceInit(t) \/ LatchWait(t) \/ OnceDone(t)
           \/ Stop \/ StopNotify \/ StopJoin \/ BackStart \/ BackCheck \/ BackWait
           \/ BackSwap \/ BackWake \/ BackRecycle \/ UNCHANGED logVars
    PROVE  Pipeline' = Pipeline /\ UNCHANGED <<appended, dropped>>
<1>1. CASE BackSwap \/ BackWake
  <2>1. /\ back \in {"lock", "wait"} /\ back' = "write" /\ SwapBuffers
        /\ UNCHANGED <<file, appended, dropped>>
    BY <1>1 DEF BackSwap, BackWake, logHistory
  <2>2. /\ toWrite' = Append(buffers, current) /\ current' = <<>> /\ buffers' = <<>>
    BY <2>1, Swapped DEF EmptyBuffer
  <2>3. toWrite = <<>>
    BY <2>1 DEF LInv, SpareInv, Writing
  <2>4. buffers \in Seq(Seq(Messages)) /\ current \in Seq(Messages)
    BY DEF LInv, LogTypeOK
  <2>5. Lines(toWrite') = Lines(buffers) \o current
    BY <2>2, <2>4, FlattenAppend DEF Lines
  <2>6. Lines(toWrite) = <<>> /\ Lines(buffers') = <<>>
    BY <2>2, <2>3, FlattenEmpty DEF Lines
  <2>7. Pipeline' = ((file \o (Lines(buffers) \o current)) \o <<>>) \o <<>>
    BY <2>1, <2>2, <2>5, <2>6 DEF Pipeline, Lines
  <2>8. Pipeline = ((file \o <<>>) \o Lines(buffers)) \o current
    BY <2>1, <2>6 DEF Pipeline
  <2>9. file \in Seq(Nat) /\ Lines(buffers) \in Seq(Nat) /\ current \in Seq(Nat)
    BY PipelineTypes DEF LInv
  <2>10. Pipeline' = Pipeline
    <3> DEFINE L == Lines(buffers)
    <3>1. /\ L \in Seq(Nat) /\ Pipeline' = ((file \o (L \o current)) \o <<>>) \o <<>>
          /\ Pipeline = ((file \o <<>>) \o L) \o current
      BY <2>7, <2>8, <2>9
    <3> HIDE DEF L
    <3>2. Pipeline' = file \o (L \o current) /\ Pipeline = (file \o L) \o current
      BY ONLY <2>9, <3>1
    <3> QED
      BY ONLY <2>9, <3>1, <3>2, Regroup
  <2> QED
    BY <2>1, <2>10
<1>2. CASE BackRecycle
  <2>1. /\ back = "recycle" /\ back' = "check" /\ toWrite' = <<>>
        /\ UNCHANGED <<file, current, buffers, appended, dropped>>
    BY <1>2 DEF BackRecycle
  <2>2. Lines(toWrite') = <<>>
    BY <2>1, FlattenEmpty DEF Lines
  <2> QED
    BY <2>1, <2>2 DEF Pipeline, Lines
<1>3. CASE ~(BackSwap \/ BackWake \/ BackRecycle)
  <2>1. UNCHANGED <<file, toWrite, current, buffers, appended, dropped>>
    BY <1>3 DEF Log, OnceInit, LatchWait, OnceDone, Stop, StopNotify, StopJoin,
        BackStart, BackCheck, BackWait, logVars, bufferVars, logHistory
  <2>2. (back = "recycle") <=> (back' = "recycle")
    BY <1>3 DEF Log, OnceInit, LatchWait, OnceDone, Stop, StopNotify, StopJoin,
        BackStart, BackCheck, BackWait, logVars, bufferVars, logHistory, LInv, StartInv
  <2> QED
    BY <2>1, <2>2 DEF Pipeline, Lines
<1> QED
  BY <1>1, <1>2, <1>3

\* Append() puts the message at the end of the pipeline.
LEMMA PipelineAppended ==
    ASSUME LInv, NEW t \in Loggers, AppendLine(t)
    PROVE  Pipeline' = Append(Pipeline, appended + 1)
<1>1. /\ appended' = appended + 1 /\ appended + 1 \in Nat
      /\ UNCHANGED <<back, toWrite, file, dropped>>
  BY DEF AppendLine, LInv, LogTypeOK
<1>2. /\ file \in Seq(Nat) /\ Taken \in Seq(Nat)
      /\ Lines(buffers) \in Seq(Nat) /\ current \in Seq(Nat)
      /\ Pipeline \in Seq(Nat)
      /\ Pipeline = ((file \o Taken) \o Lines(buffers)) \o current
  BY PipelineTypes DEF LInv
<1>3. Pipeline' = ((file \o Taken) \o Lines(buffers')) \o current'
  BY <1>1 DEF Pipeline, Taken, Lines
<1> DEFINE head == file \o Taken
           L == Lines(buffers)
<1>4. /\ head \in Seq(Nat) /\ L \in Seq(Nat)
      /\ Pipeline = (head \o L) \o current
      /\ Pipeline' = (head \o Lines(buffers')) \o current'
  BY <1>2, <1>3
<1>5. CASE HasRoom(current)
  <2>1. current' = Append(current, appended + 1) /\ Lines(buffers') = L
    BY <1>1, <1>5 DEF AppendLine, Lines
  <2> HIDE DEF head, L
  <2>2. head \o L \in Seq(Nat)
    BY <1>4
  <2> QED
    BY ONLY <1>1, <1>2, <1>4, <2>1, <2>2, ConcatAppend, SMTT(30)
<1>6. CASE ~HasRoom(current)
  <2>1. buffers' = Append(buffers, current) /\ current' = <<appended + 1>>
    BY <1>1, <1>6, FullAppend
  <2>2. buffers \in Seq(Seq(Messages)) /\ current \in Seq(Messages)
    BY DEF LInv, LogTypeOK
  <2>3. Lines(buffers') = L \o current
    BY <2>1, <2>2, FlattenAppend DEF Lines
  <2> HIDE DEF head, L
  <2>4. head \o (L \o current) = (head \o L) \o current
    <3>1. head \in Seq(Nat) /\ L \in Seq(Nat) /\ current \in Seq(Nat)
      BY <1>2, <1>4
    <3> QED
      BY ONLY <3>1, Regroup
  <2>5. Pipeline' = Pipeline \o <<appended + 1>>
    BY ONLY <1>4, <2>1, <2>3, <2>4
  <2> QED
    BY ONLY <1>1, <1>2, <2>5
<1> QED
  BY <1>5, <1>6

\* The write moves the kept messages to the file and takes the lost ones out.
LEMMA PipelineWritten ==
    ASSUME LInv, BackWrite
    PROVE  \E a \in Seq(Nat), b \in Seq(Nat), c \in Seq(Nat), k \in Seq(Nat), f \in Seq(Nat) :
              /\ Pipeline = (a \o b) \o c /\ Pipeline' = a \o c
              /\ a = f \o k
              /\ dropped' = dropped \cup (ToSet(k \o b) \ ToSet(k))
<1>1. /\ back = "write" /\ back' = "recycle" /\ AppendAll(Appends)
      /\ dropped' = dropped \cup (ToSet(Lines(toWrite)) \ ToSet(Lines(Kept)))
      /\ UNCHANGED <<current, buffers>>
  BY DEF BackWrite
<1>2. toWrite \in Seq(Seq(Messages)) /\ toWrite # <<>>
  BY <1>1 DEF LInv, LogTypeOK, SpareInv, Writing
<1>3. /\ Kept \in Seq(Seq(Messages)) /\ Lost \in Seq(Seq(Messages))
      /\ toWrite = Kept \o Lost
  BY <1>2, KeptAndLost
<1> DEFINE k == Lines(Kept)
           b == Lines(Lost)
           L == Lines(buffers)
           c == L \o current
<1>4. \A q \in Seq(Messages) : q \in Seq(Nat)
  BY MessagesAreNumbers
<1>5. k \in Seq(Nat) /\ b \in Seq(Nat)
  BY <1>3, <1>4, FlattenType DEF Lines
<1>6. Lines(toWrite) = k \o b
  BY <1>3, FlattenConcat DEF Lines
<1>7. file \in Seq(Nat) /\ L \in Seq(Nat) /\ current \in Seq(Nat)
  BY PipelineTypes DEF LInv
<1>8. file' = file \o k
  <2>1. Appends \in Seq(Seq(Messages)) /\ Lines(Appends) = k
    BY <1>3, AppendsLines
  <2>2. file' = file \o Lines(Appends)
    BY <1>1 DEF AppendAll
  <2> QED
    BY <2>1, <2>2
<1>9. Pipeline = ((file \o (k \o b)) \o L) \o current
  BY <1>1, <1>6 DEF Pipeline
<1>10. Pipeline' = (((file \o k) \o <<>>) \o L) \o current
  BY <1>1, <1>8 DEF Pipeline, Lines
<1> HIDE DEF k, b, L
<1>11. c \in Seq(Nat) /\ file \o k \in Seq(Nat) /\ file \o (k \o b) \in Seq(Nat)
  BY <1>5, <1>7
<1>12. file \o (k \o b) = (file \o k) \o b
  BY ONLY <1>5, <1>7, Regroup, ZenonT(30)
<1>0. \A x \in Seq(Nat) : (x \o L) \o current = x \o c
  <2> TAKE x \in Seq(Nat)
  <2> QED
    BY <1>7, Regroup
<1>13. Pipeline = ((file \o k) \o b) \o c
  <2>1. Pipeline = (file \o (k \o b)) \o c
    <3> HIDE DEF c
    <3> QED
      BY ONLY <1>9, <1>11, <1>0
  <2> QED
    BY <1>12, <2>1
<1>14. (file \o k) \o <<>> = file \o k
  BY ONLY <1>11
<1>15. Pipeline' = (file \o k) \o c
  <2>1. Pipeline' = ((file \o k) \o L) \o current
    BY <1>10, <1>14
  <2> HIDE DEF c
  <2> QED
    BY ONLY <2>1, <1>11, <1>0
<1>16. dropped' = dropped \cup (ToSet(k \o b) \ ToSet(k))
  BY <1>1, <1>6 DEF k
<1> HIDE DEF c
<1> QED
  BY ONLY <1>5, <1>7, <1>11, <1>13, <1>15, <1>16

\* The messages stay in order.
LEMMA NextOrderInv ==
    ASSUME LInv, OrderInv, [LogNext]_logVars
    PROVE  OrderInv'
<1>0. /\ Ascending(Pipeline) /\ ToSet(Pipeline) = (1..appended) \ dropped
      /\ dropped \subseteq 1..appended /\ appended \in Nat
      /\ Pipeline \in Seq(Nat)
  BY PipelineTypes DEF OrderInv, FileInOrder, Ascending, LInv, LogTypeOK
<1>1. SUFFICES /\ Ascending(Pipeline') /\ ToSet(Pipeline') = (1..appended') \ dropped'
               /\ dropped' \subseteq 1..appended'
  BY DEF OrderInv, FileInOrder, Ascending
<1>2. CASE \E t \in Loggers : AppendLine(t)
  <2>1. PICK t \in Loggers : AppendLine(t)
    BY <1>2
  <2>2. Pipeline' = Append(Pipeline, appended + 1)
    BY <2>1, PipelineAppended
  <2>3. appended' = appended + 1 /\ dropped' = dropped
    BY <2>1 DEF AppendLine
  <2>4. \A y \in ToSet(Pipeline) : y < appended + 1
    BY <1>0
  <2> DEFINE P == Pipeline
             x == appended + 1
  <2>5. P \in Seq(Nat) /\ x \in Nat /\ Ascending(P) /\ \A y \in ToSet(P) : y < x
    BY <1>0, <2>4
  <2> HIDE DEF P, x
  <2>6. Ascending(Append(P, x)) /\ ToSet(Append(P, x)) = ToSet(P) \cup {x}
    BY ONLY <2>5, AscendingAppend
  <2>7. /\ Ascending(Pipeline')
        /\ ToSet(Pipeline') = ((1..appended) \ dropped) \cup {appended + 1}
    BY <1>0, <2>2, <2>6 DEF P, x
  <2> QED
    BY <1>0, <2>3, <2>7
<1>3. CASE BackWrite
  <2>1. PICK a \in Seq(Nat), b \in Seq(Nat), c \in Seq(Nat), k \in Seq(Nat), f \in Seq(Nat) :
              /\ Pipeline = (a \o b) \o c /\ Pipeline' = a \o c
              /\ a = f \o k
              /\ dropped' = dropped \cup (ToSet(k \o b) \ ToSet(k))
    BY <1>3, PipelineWritten
  <2>2. appended' = appended
    BY <1>3 DEF BackWrite
  <2>3. Ascending((a \o b) \o c)
    BY <1>0, <2>1
  <2>4. Ascending(a \o c) /\ ToSet(a \o c) = ToSet((a \o b) \o c) \ ToSet(b)
    BY <2>3, AscendingCut
  <2>5. /\ ToSet(k \o b) = ToSet(k) \cup ToSet(b)
        /\ ToSet(a) = ToSet(f) \cup ToSet(k)
        /\ ToSet(a \o b) = ToSet(a) \cup ToSet(b)
        /\ a \o b \in Seq(Nat)
    BY <2>1, ConcatMembers
  <2>6. ToSet((a \o b) \o c) = ToSet(a \o b) \cup ToSet(c)
    BY <2>5, ConcatMembers
  <2>7. \A x \in ToSet(a), y \in ToSet(b) : x < y
    <3>1. Ascending(a \o b)
      BY <2>3, <2>5, AscendingApart
    <3> QED
      BY <3>1, AscendingApart
  <2>8. ToSet(k) \cap ToSet(b) = {}
    <3>1. \A x \in ToSet(b) : x \in Nat /\ ~(x < x)
      BY DEF ToSet
    <3> QED
      BY <2>5, <2>7, <3>1
  <2>9. dropped' = dropped \cup ToSet(b)
    BY <2>1, <2>5, <2>8
  <2>10. ToSet(b) \subseteq 1..appended
    BY <1>0, <2>1, <2>5, <2>6
  <2> QED
    BY <1>0, <2>1, <2>2, <2>4, <2>9, <2>10
<1>4. CASE ~((\E t \in Loggers : AppendLine(t)) \/ BackWrite)
  <2>1. \/ \E t \in Loggers : Log(t) \/ OnceInit(t) \/ LatchWait(t) \/ OnceDone(t)
        \/ Stop \/ StopNotify \/ StopJoin \/ BackStart \/ BackCheck \/ BackWait
        \/ BackSwap \/ BackWake \/ BackRecycle \/ UNCHANGED logVars
    BY <1>4 DEF LogNext, BackStep
  <2>2. Pipeline' = Pipeline /\ UNCHANGED <<appended, dropped>>
    BY <2>1, PipelineKept
  <2> QED
    BY <1>0, <2>2
<1> QED
  BY <1>2, <1>3, <1>4

\* Nothing has been accepted yet.
LEMMA InitOrderInv == LogInit => OrderInv
<1> SUFFICES ASSUME LogInit PROVE OrderInv
  OBVIOUS
<1>1. Pipeline = <<>>
  <2>1. Lines(toWrite) = <<>> /\ Lines(buffers) = <<>>
    BY FlattenEmpty DEF LogInit, Lines
  <2> QED
    BY <2>1 DEF LogInit, Pipeline, EmptyBuffer
<1>2. Ascending(<<>>) /\ ToSet(<<>>) = {}
  BY DEF Ascending, ToSet
<1>3. appended = 0 /\ dropped = {} /\ 1..0 = {}
  BY DEF LogInit
<1> QED
  BY <1>1, <1>2, <1>3 DEF OrderInv, FileInOrder, Ascending

-----------------------------------------------------------------------------
\* AsyncLogging keeps its types, and a buffer never takes more than it has room
\* for, whatever the interleaving of Append(), ThreadFunc() and Stop().
THEOREM LogTypeCorrect == LogSpec => []LogTypeOK
<1>1. LInv => LogTypeOK
  BY DEF LInv
<1> QED
  BY <1>1, LInvariant, PTL

\* The asserts of ThreadFunc() hold: whenever buffers are recycled there are
\* as many written ones as spares that are gone.
THEOREM RecyclingSuffices == LogSpec => []SparesSuffice
<1>1. LInv => SparesSuffice
  BY DEF LInv, SpareInv, SparesSuffice
<1> QED
  BY <1>1, LInvariant, PTL

\* ThreadFunc() sleeps over no full buffer that was not announced to it, and
\* over no line that is not flushed.
THEOREM SleepsOverNothing == LogSpec => []NoSleepOverWork
<1>1. LInv => NoSleepOverWork
  BY DEF LInv, SleepInv, NoSleepOverWork
<1> QED
  BY <1>1, LInvariant, PTL

\* The log file is the accepted messages in the order of the Append() calls,
\* without the ones of an overload: none is lost, doubled or overtaken in the
\* exchange of the buffers.
THEOREM LogFileInOrder == LogSpec => []FileInOrder
<1>1. OrderInv => FileInOrder
  BY DEF OrderInv
<1>2. LInv /\ OrderInv /\ [LogNext]_logVars => OrderInv'
  BY NextOrderInv
<1> QED
  BY <1>1, <1>2, InitOrderInv, LInvariant, PTL DEF LogSpec
=============================================================================
