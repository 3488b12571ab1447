------------------------ MODULE TcpConnectionProofs ------------------------
(***************************************************************************)
(* Theorems about the sending side of a connection, for every size of      *)
(* messages, of the kernel's buffer and of the high-water mark, and for    *)
(* any number of users.                                                    *)
(***************************************************************************)
EXTENDS TcpConnection, SequenceTheorems, TLAPS

(***************************************************************************)
(* Sequences.                                                              *)
(***************************************************************************)
\* The two parts a partial write makes of a sequence.
LEMMA SplitParts ==
    ASSUME NEW S, NEW s \in Seq(S), NEW k \in 0..Len(s)
    PROVE  /\ Front(s, k) \in Seq(S) /\ Len(Front(s, k)) = k
           /\ Rest(s, k) \in Seq(S) /\ Len(Rest(s, k)) = Len(s) - k
           /\ Front(s, k) \o Rest(s, k) = s
<1> DEFINE a == Front(s, k)
           b == Rest(s, k)
<1>1. Len(s) \in Nat /\ k \in Nat /\ k <= Len(s)
  OBVIOUS
<1>2. a \in Seq(S) /\ Len(a) = k
  BY <1>1 DEF Front
<1>3. b \in Seq(S) /\ Len(b) = Len(s) - k
  <2>1. CASE k = Len(s)
    BY <1>1, <2>1 DEF Rest
  <2>2. CASE k < Len(s)
    BY <1>1, <2>2 DEF Rest
  <2> QED BY <1>1, <2>1, <2>2
<1>4. \A i \in 1..k : a[i] = s[i]
  BY <1>1 DEF Front
<1>5. \A i \in (k + 1)..Len(s) : b[i - k] = s[i]
  BY <1>1 DEF Rest
<1> HIDE DEF a, b
<1>6. a \o b = s
  <2>1. a \o b \in Seq(S) /\ Len(a \o b) = Len(s)
    <3>1. a \o b \in Seq(S) /\ Len(a \o b) = Len(a) + Len(b)
      BY <1>2, <1>3, ConcatProperties, Zenon
    <3> QED BY <1>1, <1>2, <1>3, <3>1
  <2>2. ASSUME NEW i \in 1..Len(s) PROVE (a \o b)[i] = s[i]
    <3>0. (a \o b)[i] = IF i <= k THEN a[i] ELSE b[i - k]
      BY <1>1, <1>2, <1>3, ConcatProperties
    <3>1. CASE i <= k
      BY <1>1, <1>4, <3>0, <3>1
    <3>2. CASE i > k
      <4>1. (a \o b)[i] = b[i - k]
        BY <1>1, <3>0, <3>2
      <4>2. i \in (k + 1)..Len(s)
        BY <1>1, <3>2
      <4> QED BY <1>5, <4>1, <4>2
    <3>3. i <= k \/ i > k
      BY <1>1
    <3> QED BY <3>1, <3>2, <3>3, Zenon
  <2> QED BY <2>1, <2>2, SeqEqual
<1> QED BY <1>2, <1>3, <1>6 DEF a, b

\* Appending is associative.
LEMMA UnitsAssociative ==
    \A a, b, c \in Seq(Units) : (a \o b) \o c = a \o (b \o c)
<1> TAKE a, b, c \in Seq(Units)
<1> QED OBVIOUS

\* The units of a message are units, and there is at least one.
LEMMA DataUnits ==
    ASSUME NEW m \in Messages
    PROVE  Data(m) \in Seq(Units) /\ Len(Data(m)) = MsgSize /\ Data(m) # <<>>
<1>1. ASSUME NEW i \in 1..MsgSize
      PROVE  (m - 1) * MsgSize + i \in Units
  <2>1. /\ m \in Nat /\ m >= 1 /\ m <= MaxMessages
        /\ MsgSize \in Nat /\ MaxMessages \in Nat
        /\ i \in Nat /\ i >= 1 /\ i <= MsgSize
    BY ConnAssumption DEF Messages
  <2>2. (m - 1) * MsgSize \in Nat
    BY <2>1
  <2>3. (m - 1) * MsgSize + MsgSize = m * MsgSize
    BY <2>1
  <2>4. m * MsgSize <= MaxMessages * MsgSize
    BY <2>1
  <2>5. m * MsgSize \in Nat /\ MaxMessages * MsgSize \in Nat
    BY <2>1
  <2> QED BY <2>1, <2>2, <2>3, <2>4, <2>5 DEF Units
<1>2. MsgSize \in Nat /\ MsgSize >= 1
  BY ConnAssumption
<1> QED BY <1>1, <1>2 DEF Data

(***************************************************************************)
(* The inductive invariant.                                                *)
(***************************************************************************)
\* A functor of Send carries a message.
WellFormed == {f \in Functors : f.kind = "send" => f.msg \in Messages}

QueueInv ==
    /\ pending \in Seq(WellFormed)
    /\ batch \in Seq(WellFormed)
    /\ \A t \in Users : user[t] = "send" => arg[t] \in Messages

\* The kernel holds no more than it has room for.
RoomInv == Len(wire) - read <= KernelRoom

CInv == ConnTypeOK /\ QueueInv /\ RoomInv /\ StreamInOrder

\* An established connection satisfies it.
LEMMA InitCInv == ConnInit => CInv
<1> SUFFICES ASSUME ConnInit PROVE CInv
  OBVIOUS
<1>1. ConnTypeOK
  <2>1. /\ user \in [Users -> {"idle", "send", "store", "queue"}]
        /\ arg \in [Users -> 0..MaxMessages]
        /\ sentBy \in [Users -> SUBSET Messages]
        /\ promised \subseteq Messages
    BY ConnAssumption DEF ConnInit
  <2>2. sends \in 0..MaxMessages /\ read \in 0..Len(wire)
    BY ConnAssumption DEF ConnInit
  <2>3. /\ output_buf_ \in Seq(Units) /\ wire \in Seq(Units)
        /\ handed \in Seq(Units)
        /\ pending \in Seq(Functors) /\ batch \in Seq(Functors)
    BY EmptySeq DEF ConnInit
  <2> QED BY <2>1, <2>2, <2>3, Zenon DEF ConnInit, ConnTypeOK
<1>2. QueueInv /\ RoomInv /\ StreamInOrder
  BY ConnAssumption DEF ConnInit, QueueInv, RoomInv, StreamInOrder
<1> QED BY <1>1, <1>2 DEF CInv

\* write() takes no more than it is given and no more than there is room.
LEMMA TakenRange ==
    ASSUME CInv, NEW n \in Nat
    PROVE  Taken(n) \in 0..n /\ Len(wire) + Taken(n) - read <= KernelRoom
  BY ConnAssumption DEF CInv, ConnTypeOK, RoomInv, Taken

\* The functors SendInLoop and HandleWrite queue are well formed.
LEMMA CallbackFunctors ==
    ASSUME NEW d, NEW n
    PROVE  /\ AfterSend(d, n) \in Seq(WellFormed)
           /\ AfterDrain \in Seq(WellFormed)
<1>1. Functor("complete", 0) \in WellFormed /\ Functor("highwater", 0) \in WellFormed
  BY ConnAssumption DEF Functor, WellFormed, Functors
<1> QED BY <1>1 DEF AfterSend, AfterDrain

\* A well-formed queue is a queue.
LEMMA WellFormedQueues ==
    ASSUME NEW q \in Seq(WellFormed) PROVE q \in Seq(Functors)
<1>1. WellFormed \subseteq Functors
  BY DEF WellFormed
<1> QED BY <1>1, SeqMonotonic

(***************************************************************************)
(* What SendInLoop does to the bytes, whoever calls it.                    *)
(***************************************************************************)
BytesInv ==
    /\ careWrite \in BOOLEAN
    /\ output_buf_ \in Seq(Units)
    /\ wire \in Seq(Units)
    /\ handed \in Seq(Units)
    /\ pending \in Seq(WellFormed)
    /\ read \in 0..Len(wire)
    /\ life = "up" => (careWrite <=> output_buf_ # <<>>)
    /\ RoomInv
    /\ StreamInOrder

LEMMA SendInLoopBytes ==
    ASSUME CInv, NEW d \in Seq(Units), d # <<>>,
           SendInLoop(d, pending), UNCHANGED <<life, read>>
    PROVE  BytesInv'
<1> DEFINE n == IF Direct THEN Taken(Len(d)) ELSE 0
<1>1. n \in 0..Len(d) /\ Len(wire) + n - read <= KernelRoom
  BY TakenRange DEF CInv, RoomInv, ConnTypeOK
<1>2. /\ wire' = wire \o Front(d, n)
      /\ output_buf_' = output_buf_ \o Rest(d, n)
      /\ careWrite' = (careWrite \/ n < Len(d))
      /\ pending' = pending \o AfterSend(d, n)
      /\ handed' = handed \o d
  BY DEF SendInLoop
<1>3. /\ Front(d, n) \in Seq(Units) /\ Len(Front(d, n)) = n
      /\ Rest(d, n) \in Seq(Units) /\ Len(Rest(d, n)) = Len(d) - n
      /\ Front(d, n) \o Rest(d, n) = d
  BY <1>1, SplitParts
<1>4. /\ wire \in Seq(Units) /\ output_buf_ \in Seq(Units)
      /\ handed \in Seq(Units) /\ read \in 0..Len(wire)
      /\ careWrite \in BOOLEAN /\ pending \in Seq(WellFormed)
      /\ life = "up" => (careWrite <=> output_buf_ # <<>>)
      /\ wire \o output_buf_ = handed
  BY DEF CInv, ConnTypeOK, QueueInv, StreamInOrder
<1>5. Direct => output_buf_ = <<>> /\ careWrite = FALSE
  BY <1>4 DEF Direct
<1> HIDE DEF n
<1>6. AfterSend(d, n) \in Seq(WellFormed)
  BY CallbackFunctors
<1>7. /\ wire' \in Seq(Units) /\ Len(wire') = Len(wire) + n
      /\ output_buf_' \in Seq(Units) /\ handed' \in Seq(Units)
      /\ pending' \in Seq(WellFormed) /\ careWrite' \in BOOLEAN
  <2>1. wire' \in Seq(Units) /\ Len(wire') = Len(wire) + n
    BY <1>2, <1>3, <1>4, ConcatProperties
  <2>2. output_buf_' \in Seq(Units) /\ handed' \in Seq(Units)
    BY <1>2, <1>3, <1>4, ConcatProperties
  <2>3. pending' \in Seq(WellFormed)
    BY <1>2, <1>4, <1>6, ConcatProperties
  <2>4. careWrite' \in BOOLEAN
    BY <1>2, <1>4, Zenon
  <2> QED BY <2>1, <2>2, <2>3, <2>4
<1>8. read' \in 0..Len(wire') /\ RoomInv'
  BY <1>1, <1>4, <1>7 DEF RoomInv
<1>9. StreamInOrder'
  <2>1. CASE Direct
    <3>1. output_buf_' = Rest(d, n)
      BY <1>2, <1>3, <1>5, <2>1
    <3>2. handed = wire
      BY <1>4, <1>5, <2>1
    <3>3. (wire \o Front(d, n)) \o Rest(d, n) = wire \o d
      <4>1. \A a, b \in Seq(Units) : (wire \o a) \o b = wire \o (a \o b)
        BY <1>4, UnitsAssociative, Zenon
      <4> QED BY <1>3, <4>1, ZenonT(30)
    <3> QED BY <1>2, <3>1, <3>2, <3>3 DEF StreamInOrder
  <2>2. CASE ~Direct
    <3>1. n = 0
      BY <2>2 DEF n
    <3>2. Front(d, n) = <<>> /\ Rest(d, n) = d
      BY <1>3, <3>1
    <3>3. wire' = wire /\ output_buf_' = output_buf_ \o d
      BY <1>2, <1>4, <3>2
    <3>4. (wire \o output_buf_) \o d = wire \o (output_buf_ \o d)
      BY <1>4, UnitsAssociative, ZenonT(30)
    <3> QED BY <1>2, <1>4, <3>3, <3>4 DEF StreamInOrder
  <2> QED BY <2>1, <2>2
<1>10. (life = "up" => (careWrite <=> output_buf_ # <<>>))'
  <2>1. SUFFICES ASSUME life = "up" PROVE careWrite' <=> output_buf_' # <<>>
    BY DEF SendInLoop
  <2>2. Len(d) \in Nat /\ Len(d) > 0
    OBVIOUS
  <2>3. CASE Direct
    <3>1. output_buf_' = Rest(d, n)
      BY <1>2, <1>3, <1>5, <2>3
    <3>2. Rest(d, n) # <<>> <=> n < Len(d)
      BY <1>1, <1>3, <2>2
    <3> QED BY <1>2, <1>5, <2>3, <3>1, <3>2
  <2>4. CASE ~Direct
    <3>1. n = 0
      BY <2>4 DEF n
    <3>2. Len(output_buf_') = Len(output_buf_) + Len(d)
      <4>1. Len(output_buf_ \o Rest(d, n)) = Len(output_buf_) + Len(Rest(d, n))
        BY <1>3, <1>4, ConcatProperties
      <4> QED BY <1>2, <1>3, <3>1, <4>1
    <3>3. output_buf_' # <<>>
      BY <1>4, <1>7, <2>2, <3>2
    <3>4. careWrite'
      BY <1>2, <2>2, <3>1
    <3> QED BY <3>3, <3>4
  <2> QED BY <2>3, <2>4
<1> QED BY <1>4, <1>7, <1>8, <1>9, <1>10 DEF BytesInv

(***************************************************************************)
(* Every step preserves the invariant.                                     *)
(***************************************************************************)
\* The parts of ConnTypeOK that are not about the bytes.
ControlType ==
    /\ state_ \in {"CONNECTED", "DISCONNECTING", "DISCONNECTED"}
    /\ life \in {"up", "closed", "removed", "gone"}
    /\ user \in [Users -> {"idle", "send", "store", "queue"}]
    /\ arg \in [Users -> 0..MaxMessages]
    /\ sends \in 0..MaxMessages
    /\ peer \in {"open", "eof", "reset"}
    /\ fin \in BOOLEAN
    /\ throttled \in BOOLEAN
    /\ sentBy \in [Users -> SUBSET Messages]
    /\ promised \subseteq Messages

FunctorInv ==
    /\ batch \in Seq(WellFormed)
    /\ \A t \in Users : user[t] = "send" => arg[t] \in Messages

\* The invariant in the three parts the actions disturb separately.
LEMMA CInvParts == CInv <=> BytesInv /\ ControlType /\ FunctorInv
<1>1. ASSUME CInv PROVE BytesInv /\ ControlType /\ FunctorInv
  BY <1>1, Zenon DEF CInv, ConnTypeOK, QueueInv, BytesInv, ControlType, FunctorInv
<1>2. ASSUME BytesInv, ControlType, FunctorInv PROVE CInv
  <2>1. pending \in Seq(Functors) /\ batch \in Seq(Functors)
    BY <1>2, WellFormedQueues DEF BytesInv, FunctorInv
  <2> QED BY <1>2, <2>1, Zenon
          DEF CInv, ConnTypeOK, QueueInv, BytesInv, ControlType, FunctorInv
<1> QED BY <1>1, <1>2

\* The functors at the ends of the two queues.
LEMMA BatchParts ==
    ASSUME FunctorInv, batch # <<>>
    PROVE  Head(batch) \in WellFormed /\ Tail(batch) \in Seq(WellFormed)
  BY HeadTailProperties DEF FunctorInv

LEMMA AppendFunctor ==
    ASSUME BytesInv, NEW f \in WellFormed
    PROVE  Append(pending, f) \in Seq(WellFormed)
  BY AppendProperties DEF BytesInv

\* The functors the actions put into the queue.
LEMMA QueuedFunctors ==
    /\ Functor("destroyed", 0) \in WellFormed
    /\ Functor("shutdown", 0) \in WellFormed
    /\ \A m \in Messages : Functor("send", m) \in WellFormed
  BY ConnAssumption DEF Functor, WellFormed, Functors, Messages

\* A partial or whole write of output_buf_ keeps the bytes in order.
LEMMA HandleWriteBytes ==
    ASSUME CInv, HandleWrite
    PROVE  BytesInv'
<1> DEFINE n == Taken(Len(output_buf_))
<1>1. /\ wire \in Seq(Units) /\ output_buf_ \in Seq(Units)
      /\ handed \in Seq(Units) /\ read \in 0..Len(wire)
      /\ pending \in Seq(WellFormed)
      /\ wire \o output_buf_ = handed
  BY DEF CInv, ConnTypeOK, QueueInv, StreamInOrder
<1>2. n \in 0..Len(output_buf_) /\ Len(wire) + n - read <= KernelRoom
  BY <1>1, TakenRange
<1>3. /\ wire' = wire \o Front(output_buf_, n)
      /\ output_buf_' = Rest(output_buf_, n)
      /\ careWrite' = ~(n = Len(output_buf_))
      /\ pending' = pending \o IF n = Len(output_buf_) THEN AfterDrain ELSE <<>>
      /\ handed' = handed /\ read' = read /\ life' = life
  BY DEF HandleWrite, userVars
<1> HIDE DEF n
<1>4. /\ Front(output_buf_, n) \in Seq(Units) /\ Len(Front(output_buf_, n)) = n
      /\ Rest(output_buf_, n) \in Seq(Units)
      /\ Len(Rest(output_buf_, n)) = Len(output_buf_) - n
      /\ Front(output_buf_, n) \o Rest(output_buf_, n) = output_buf_
  BY <1>1, <1>2, SplitParts
<1>5. wire' \in Seq(Units) /\ Len(wire') = Len(wire) + n
  BY <1>1, <1>3, <1>4, ConcatProperties
<1>6. output_buf_' \in Seq(Units) /\ handed' \in Seq(Units)
  BY <1>1, <1>3, <1>4
<1>7. pending' \in Seq(WellFormed)
  <2>1. AfterDrain \in Seq(WellFormed) /\ <<>> \in Seq(WellFormed)
    BY CallbackFunctors, EmptySeq
  <2> QED BY <1>1, <1>3, <2>1, ConcatProperties
<1>8. careWrite' \in BOOLEAN /\ (careWrite' <=> output_buf_' # <<>>)
  <2>1. output_buf_' = <<>> <=> n = Len(output_buf_)
    BY <1>1, <1>2, <1>3, <1>4
  <2> QED BY <1>3, <2>1, Zenon
<1>9. read' \in 0..Len(wire') /\ RoomInv'
  BY <1>1, <1>2, <1>3, <1>5 DEF RoomInv
<1>10. StreamInOrder'
  <2>1. \A a, b \in Seq(Units) : (wire \o a) \o b = wire \o (a \o b)
    BY <1>1, UnitsAssociative, Zenon
  <2>2. (wire \o Front(output_buf_, n)) \o Rest(output_buf_, n)
          = wire \o output_buf_
    BY <1>4, <2>1, ZenonT(30)
  <2> QED BY <1>1, <1>3, <2>2, Zenon DEF StreamInOrder
<1> QED BY <1>5, <1>6, <1>7, <1>8, <1>9, <1>10, Zenon DEF BytesInv

\* Every step of the connection preserves the invariant.
LEMMA NextCInv == CInv /\ [ConnNext]_connVars => CInv'
<1> SUFFICES ASSUME CInv, [ConnNext]_connVars PROVE CInv'
  OBVIOUS
<1>0. BytesInv /\ ControlType /\ FunctorInv
  BY CInvParts
<1> SUFFICES BytesInv' /\ ControlType' /\ FunctorInv'
  BY CInvParts, PTL
<1>1. CASE PeerReads
  <2>1. BytesInv'
    <3>1. read' \in 0..Len(wire') /\ RoomInv'
      BY <1>0, <1>1, ConnAssumption DEF PeerReads, BytesInv, RoomInv
    <3> QED BY <1>0, <1>1, <3>1, Zenon DEF PeerReads, BytesInv, StreamInOrder
  <2>2. ControlType' /\ FunctorInv'
    BY <1>0, <1>1 DEF PeerReads, userVars, ControlType, FunctorInv
  <2> QED BY <2>1, <2>2
<1>2. CASE PeerEnds
  <2>1. BytesInv'
    BY <1>0, <1>2 DEF PeerEnds, userVars, BytesInv, RoomInv, StreamInOrder
  <2>2. ControlType' /\ FunctorInv'
    BY <1>0, <1>2 DEF PeerEnds, userVars, ControlType, FunctorInv
  <2> QED BY <2>1, <2>2
<1>3. CASE HandleWrite
  <2>1. BytesInv'
    BY <1>3, HandleWriteBytes
  <2>2. ControlType' /\ FunctorInv'
    BY <1>0, <1>3 DEF HandleWrite, userVars, ControlType, FunctorInv
  <2> QED BY <2>1, <2>2
<1>4. CASE HandleClose
  <2>1. BytesInv'
    BY <1>0, <1>4 DEF HandleClose, sockVars, userVars, BytesInv, RoomInv, StreamInOrder
  <2>2. ControlType' /\ FunctorInv'
    BY <1>0, <1>4 DEF HandleClose, sockVars, userVars, ControlType, FunctorInv
  <2> QED BY <2>1, <2>2
<1>5. CASE RemoveConnection
  <2>1. pending' \in Seq(WellFormed)
    BY <1>0, <1>5, AppendFunctor, QueuedFunctors DEF RemoveConnection
  <2>2. BytesInv'
    BY <1>0, <1>5, <2>1
       DEF RemoveConnection, sockVars, userVars, BytesInv, RoomInv, StreamInOrder
  <2>3. ControlType' /\ FunctorInv'
    BY <1>0, <1>5 DEF RemoveConnection, sockVars, userVars, ControlType, FunctorInv
  <2> QED BY <2>2, <2>3
<1>6. CASE LoopSend
  <2>1. sends' \in Messages
    BY <1>0, <1>6, ConnAssumption DEF LoopSend, ControlType, Messages
  <2>2. Data(sends') \in Seq(Units) /\ Data(sends') # <<>>
    BY <2>1, DataUnits
  <2>3. BytesInv'
    <3>1. \A d \in Seq(Units) :
             d # <<>> /\ SendInLoop(d, pending) /\ UNCHANGED <<life, read>>
               => BytesInv'
      BY SendInLoopBytes
    <3> QED BY <1>6, <2>2, <3>1, Zenon DEF LoopSend
  <2>4. ControlType' /\ FunctorInv'
    BY <1>0, <1>6, <2>1 DEF LoopSend, ControlType, FunctorInv, Messages
  <2> QED BY <2>3, <2>4
<1>7. CASE LoopShutDown
  <2>1. BytesInv'
    BY <1>0, <1>7 DEF LoopShutDown, userVars, BytesInv, RoomInv, StreamInOrder
  <2>2. fin' \in BOOLEAN
    BY <1>0, <1>7, Zenon DEF LoopShutDown, ShutDownInLoop, ControlType, BytesInv
  <2>3. ControlType' /\ FunctorInv'
    BY <1>0, <1>7, <2>2 DEF LoopShutDown, userVars, ControlType, FunctorInv
  <2> QED BY <2>1, <2>3
<1>8. CASE SwapPending
  <2>1. BytesInv'
    BY <1>0, <1>8, EmptySeq
       DEF SwapPending, sockVars, userVars, BytesInv, RoomInv, StreamInOrder
  <2>2. ControlType' /\ FunctorInv'
    BY <1>0, <1>8
       DEF SwapPending, sockVars, userVars, ControlType, FunctorInv, BytesInv
  <2> QED BY <2>1, <2>2
<1>9. CASE RunSend
  <2>1. Head(batch) \in WellFormed /\ Tail(batch) \in Seq(WellFormed)
    BY <1>0, <1>9, BatchParts DEF RunSend, Running
  <2>2. Head(batch).msg \in Messages
    BY <1>9, <2>1 DEF RunSend, Running, WellFormed
  <2>3. Data(Head(batch).msg) \in Seq(Units) /\ Data(Head(batch).msg) # <<>>
    BY <2>2, DataUnits
  <2>4. BytesInv'
    <3>1. \A d \in Seq(Units) :
             d # <<>> /\ SendInLoop(d, pending) /\ UNCHANGED <<life, read>>
               => BytesInv'
      BY SendInLoopBytes
    <3> QED BY <1>9, <2>3, <3>1, Zenon DEF RunSend
  <2>5. ControlType' /\ FunctorInv'
    BY <1>0, <1>9, <2>1 DEF RunSend, Running, userVars, ControlType, FunctorInv
  <2> QED BY <2>4, <2>5
<1>10. CASE RunShutDown
  <2>1. Tail(batch) \in Seq(WellFormed)
    BY <1>0, <1>10, BatchParts DEF RunShutDown, Running
  <2>2. BytesInv'
    BY <1>0, <1>10 DEF RunShutDown, userVars, BytesInv, RoomInv, StreamInOrder
  <2>3. fin' \in BOOLEAN
    BY <1>0, <1>10, Zenon DEF RunShutDown, ShutDownInLoop, ControlType, BytesInv
  <2>4. ControlType' /\ FunctorInv'
    BY <1>0, <1>10, <2>1, <2>3
       DEF RunShutDown, Running, userVars, ControlType, FunctorInv
  <2> QED BY <2>2, <2>4
<1>11. CASE RunCallback
  <2>1. Tail(batch) \in Seq(WellFormed)
    BY <1>0, <1>11, BatchParts DEF RunCallback, Running
  <2>2. BytesInv'
    BY <1>0, <1>11
       DEF RunCallback, sockVars, userVars, BytesInv, RoomInv, StreamInOrder
  <2>3. throttled' \in BOOLEAN
    BY <1>11, Zenon DEF RunCallback
  <2>4. ControlType' /\ FunctorInv'
    BY <1>0, <1>11, <2>1, <2>3
       DEF RunCallback, Running, sockVars, userVars, ControlType, FunctorInv
  <2> QED BY <2>2, <2>4
<1>12. CASE RunDestroyed
  <2>1. Tail(batch) \in Seq(WellFormed)
    BY <1>0, <1>12, BatchParts DEF RunDestroyed, Running
  <2>2. BytesInv'
    BY <1>0, <1>12
       DEF RunDestroyed, sockVars, userVars, BytesInv, RoomInv, StreamInOrder
  <2>3. ControlType' /\ FunctorInv'
    BY <1>0, <1>12, <2>1
       DEF RunDestroyed, Running, sockVars, userVars, ControlType, FunctorInv
  <2> QED BY <2>2, <2>3
<1>13. ASSUME NEW t \in Users, UserSend(t) PROVE BytesInv' /\ ControlType' /\ FunctorInv'
  <2>1. BytesInv'
    BY <1>0, <1>13 DEF UserSend, sockVars, BytesInv, RoomInv, StreamInOrder
  <2>2. sends' \in Messages /\ sends' \in 0..MaxMessages
    BY <1>0, <1>13, ConnAssumption DEF UserSend, ControlType, Messages
  <2>3. ControlType'
    BY <1>0, <1>13, <2>2 DEF UserSend, sockVars, ControlType
  <2>4. FunctorInv'
    BY <1>0, <1>13, <2>2 DEF UserSend, FunctorInv, ControlType
  <2> QED BY <2>1, <2>3, <2>4
<1>14. ASSUME NEW t \in Users, UserShutDown(t) PROVE BytesInv' /\ ControlType' /\ FunctorInv'
  <2>1. BytesInv'
    BY <1>0, <1>14 DEF UserShutDown, sockVars, BytesInv, RoomInv, StreamInOrder
  <2>2. ControlType' /\ FunctorInv'
    BY <1>0, <1>14 DEF UserShutDown, sockVars, ControlType, FunctorInv
  <2> QED BY <2>1, <2>2
<1>15. ASSUME NEW t \in Users, UserSendQueue(t) PROVE BytesInv' /\ ControlType' /\ FunctorInv'
  <2>1. arg[t] \in Messages
    BY <1>0, <1>15 DEF UserSendQueue, FunctorInv
  <2>2. pending' \in Seq(WellFormed)
    <3>1. Functor("send", arg[t]) \in WellFormed
      BY <2>1, QueuedFunctors
    <3> QED BY <1>0, <1>15, <3>1, AppendFunctor DEF UserSendQueue
  <2>3. BytesInv'
    BY <1>0, <1>15, <2>2 DEF UserSendQueue, sockVars, BytesInv, RoomInv, StreamInOrder
  <2>4. ControlType' /\ FunctorInv'
    BY <1>0, <1>15, <2>1 DEF UserSendQueue, sockVars, ControlType, FunctorInv
  <2> QED BY <2>3, <2>4
<1>16. ASSUME NEW t \in Users, UserShutDownStore(t)
       PROVE  BytesInv' /\ ControlType' /\ FunctorInv'
  <2>1. BytesInv'
    BY <1>0, <1>16 DEF UserShutDownStore, sockVars, BytesInv, RoomInv, StreamInOrder
  <2>2. ControlType' /\ FunctorInv'
    BY <1>0, <1>16 DEF UserShutDownStore, sockVars, ControlType, FunctorInv
  <2> QED BY <2>1, <2>2
<1>17. ASSUME NEW t \in Users, UserShutDownQueue(t)
       PROVE  BytesInv' /\ ControlType' /\ FunctorInv'
  <2>1. pending' \in Seq(WellFormed)
    BY <1>0, <1>17, AppendFunctor, QueuedFunctors DEF UserShutDownQueue
  <2>2. BytesInv'
    BY <1>0, <1>17, <2>1
       DEF UserShutDownQueue, sockVars, BytesInv, RoomInv, StreamInOrder
  <2>3. ControlType' /\ FunctorInv'
    BY <1>0, <1>17 DEF UserShutDownQueue, sockVars, ControlType, FunctorInv
  <2> QED BY <2>2, <2>3
<1>18. CASE UNCHANGED connVars
  <2>1. BytesInv'
    BY <1>0, <1>18 DEF connVars, sockVars, BytesInv, RoomInv, StreamInOrder
  <2>2. ControlType' /\ FunctorInv'
    BY <1>0, <1>18 DEF connVars, sockVars, userVars, ControlType, FunctorInv
  <2> QED BY <2>1, <2>2
<1> QED BY <1>1, <1>2, <1>3, <1>4, <1>5, <1>6, <1>7, <1>8, <1>9, <1>10, <1>11,
           <1>12, <1>13, <1>14, <1>15, <1>16, <1>17, <1>18
        DEF ConnNext, FuncStep, FinishCall

-----------------------------------------------------------------------------
\* The invariant holds throughout.
THEOREM CInvariant == ConnSpec => []CInv
  BY InitCInv, NextCInv, PTL DEF ConnSpec

\* Types, and EPOLLOUT is watched exactly while output_buf_ holds something.
THEOREM ConnTypeCorrect == ConnSpec => []ConnTypeOK
<1>1. CInv => ConnTypeOK
  BY DEF CInv
<1> QED BY CInvariant, <1>1, PTL

\* Whatever mix of direct writes and writes of output_buf_, from the loop and
\* from any number of threads, the kernel gets what SendInLoop got, in order.
THEOREM StreamKeepsOrder == ConnSpec => []StreamInOrder
<1>1. CInv => StreamInOrder
  BY DEF CInv
<1> QED BY CInvariant, <1>1, PTL

\* The step that shuts the write side down leaves output_buf_ empty.
LEMMA FinDrained ==
    ASSUME CInv, ConnNext, life = "up", ~fin, fin'
    PROVE  output_buf_' = <<>>
<1>1. /\ output_buf_ \in Seq(Units)
      /\ careWrite <=> output_buf_ # <<>>
  BY DEF CInv, ConnTypeOK
<1>2. CASE HandleWrite
  <2>1. Taken(Len(output_buf_)) = Len(output_buf_)
    BY <1>2 DEF HandleWrite
  <2>2. output_buf_' = Rest(output_buf_, Len(output_buf_))
    BY <1>2, <2>1 DEF HandleWrite
  <2>3. Len(output_buf_) \in 0..Len(output_buf_)
    BY <1>1
  <2>4. /\ Rest(output_buf_, Len(output_buf_)) \in Seq(Units)
        /\ Len(Rest(output_buf_, Len(output_buf_)))
             = Len(output_buf_) - Len(output_buf_)
    BY <1>1, <2>3, SplitParts
  <2> QED BY <1>1, <2>2, <2>4
<1>3. CASE LoopShutDown \/ RunShutDown
  <2>1. output_buf_' = output_buf_ /\ ~careWrite
    BY <1>3 DEF LoopShutDown, RunShutDown, ShutDownInLoop
  <2> QED BY <1>1, <2>1
<1>4. CASE fin' = fin
  BY <1>4
<1> QED BY <1>2, <1>3, <1>4
        DEF ConnNext, FuncStep, FinishCall, PeerReads, PeerEnds, HandleClose,
            RemoveConnection, LoopSend, SwapPending, RunSend, RunCallback,
            RunDestroyed, UserSend, UserShutDown, UserSendQueue,
            UserShutDownStore, UserShutDownQueue, sockVars

\* ShutDownInLoop and HandleWrite shut the write side down only with an empty
\* output_buf_.
THEOREM FinWaitsForData == ConnSpec => FinOnlyWhenDrained
<1>1. CInv /\ [ConnNext]_connVars
        => [life = "up" /\ ~fin /\ fin' => output_buf_' = <<>>]_connVars
  BY FinDrained
<1> QED BY CInvariant, <1>1, PTL DEF ConnSpec, FinOnlyWhenDrained

-----------------------------------------------------------------------------
(***************************************************************************)
(* FIN after data.  Send and ShutDown of a user thread go to the loop on   *)
(* two ways, and the run shutdown_overtakes shows a FIN that overtakes the *)
(* data.  It does not when the thread calls ShutDown only after the loop   *)
(* has got what it sent.                                                   *)
(***************************************************************************)
Elems(s) == {s[k] : k \in DOMAIN s}
Jobs == Elems(batch) \cup Elems(pending)

\* A message still waits for the loop; SendInLoop has got all of it; all of
\* it is in the kernel.
Waiting(m) == \E f \in Jobs : f.kind = "send" /\ f.msg = m
Within(m, s) == \A i \in 1..MsgSize : Data(m)[i] \in Elems(s)

\* The discipline: when a user thread stores DISCONNECTING, none of its
\* messages is waiting.
ShutDownSettled ==
    \A t \in Users : user[t] = "store" /\ user'[t] = "queue"
                        => \A m \in sentBy[t] : ~Waiting(m)

\* What a user has sent was handed over or waits.
SentInv == \A t \in Users : \A m \in sentBy[t] : Within(m, handed) \/ Waiting(m)
\* What the first ShutDown promised was handed over.
PromiseInv == \A m \in promised : Within(m, handed)
\* Nothing of a ShutDown is under way while state_ is CONNECTED.
OrderInv ==
    state_ = "CONNECTED" => /\ fin = FALSE
                            /\ \A f \in Jobs : f.kind # "shutdown"
                            /\ \A t \in Users : user[t] # "queue"
\* After the FIN it is in the kernel.
WireInv == fin /\ peer = "open" => \A m \in promised : Within(m, wire)
\* An open connection is up, and nothing is about to destroy it.
OpenInv == peer = "open" => /\ life = "up"
                            /\ \A f \in Jobs : f.kind # "destroyed"

FInv == SentInv /\ PromiseInv /\ OrderInv /\ WireInv /\ OpenInv

(***************************************************************************)
(* Elements of sequences.                                                  *)
(***************************************************************************)
\* Of a concatenation, of a push, and of what a pop leaves.
LEMMA ElemsConcat ==
    ASSUME NEW S, NEW a \in Seq(S), NEW b \in Seq(S)
    PROVE  Elems(a \o b) = Elems(a) \cup Elems(b)
<1> DEFINE c == a \o b
           n == Len(a)
           p == Len(b)
<1>1. /\ n \in Nat /\ p \in Nat /\ DOMAIN a = 1..n /\ DOMAIN b = 1..p /\ DOMAIN c = 1..(n + p)
      /\ \A i \in 1..(n + p) : c[i] = IF i <= n THEN a[i] ELSE b[i - n]
  BY ConcatProperties
<1> HIDE DEF c, n, p
<1>2. \A i \in 1..n : i \in 1..(n + p) /\ i <= n
  BY <1>1
<1>3. \A i \in 1..p : n + i \in 1..(n + p) /\ ~(n + i <= n) /\ (n + i) - n = i
  BY <1>1
<1>4. \A i \in 1..(n + p) : i \in 1..n \/ (i - n \in 1..p /\ ~(i <= n))
  BY <1>1
<1>5. Elems(c) \subseteq Elems(a) \cup Elems(b)
  BY <1>1, <1>2, <1>4 DEF Elems
<1>6. Elems(a) \subseteq Elems(c)
  BY <1>1, <1>2 DEF Elems
<1>7. Elems(b) \subseteq Elems(c)
  <2> SUFFICES ASSUME NEW i \in 1..p PROVE b[i] \in Elems(c)
    BY <1>1 DEF Elems
  <2>1. c[n + i] = b[i]
    BY <1>1, <1>3
  <2> QED
    BY <1>1, <1>3, <2>1 DEF Elems
<1> QED
  BY <1>5, <1>6, <1>7 DEF c

LEMMA ElemsAppend ==
    ASSUME NEW S, NEW s \in Seq(S), NEW x \in S
    PROVE  Elems(Append(s, x)) = Elems(s) \cup {x}
<1> DEFINE c == Append(s, x)
           n == Len(s)
<1>1. /\ n \in Nat /\ DOMAIN s = 1..n /\ DOMAIN c = 1..(n + 1)
      /\ \A i \in 1..n : c[i] = s[i]
      /\ c[n + 1] = x
  BY AppendProperties
<1> HIDE DEF c, n
<1> QED
  BY <1>1 DEF Elems, c

LEMMA ElemsTail ==
    ASSUME NEW S, NEW s \in Seq(S), s # <<>>
    PROVE  Elems(s) = Elems(Tail(s)) \cup {Head(s)}
<1> DEFINE t == Tail(s)
           n == Len(s)
<1>1. /\ n \in Nat /\ n >= 1 /\ DOMAIN s = 1..n /\ DOMAIN t = 1..(n - 1)
      /\ \A i \in 1..(n - 1) : t[i] = s[i + 1]
      /\ Head(s) = s[1]
  OBVIOUS
<1> HIDE DEF t, n
<1>2. \A i \in 1..(n - 1) : i + 1 \in 1..n
  BY <1>1
<1>3. \A i \in 1..n : i = 1 \/ (i - 1 \in 1..(n - 1) /\ (i - 1) + 1 = i)
  BY <1>1
<1>4. \A i \in 1..n : s[i] \in Elems(t) \cup {Head(s)}
  <2> TAKE i \in 1..n
  <2>1. CASE i = 1
    BY <1>1, <2>1
  <2>2. CASE i - 1 \in 1..(n - 1) /\ (i - 1) + 1 = i
    <3>1. t[i - 1] = s[i]
      BY <1>1, <2>2
    <3> QED
      BY <1>1, <2>2, <3>1 DEF Elems
  <2> QED
    BY <1>3, <2>1, <2>2
<1>5. \A i \in 1..(n - 1) : t[i] \in Elems(s)
  BY <1>1, <1>2 DEF Elems
<1>6. Head(s) \in Elems(s)
  BY <1>1 DEF Elems
<1> QED
  BY <1>1, <1>4, <1>5, <1>6 DEF Elems, t

(***************************************************************************)
(* The steps.                                                              *)
(***************************************************************************)
\* SendInLoop hands its data over and queues callbacks.
LEMMA SendEffect ==
    ASSUME CInv, NEW d \in Seq(Units), SendInLoop(d, pending)
    PROVE  /\ Elems(handed') = Elems(handed) \cup Elems(d)
           /\ Elems(wire) \subseteq Elems(wire')
           /\ Elems(pending) \subseteq Elems(pending')
           /\ \A f \in Elems(pending') :
                f \in Elems(pending) \/ f.kind \in {"complete", "highwater"}
<1> DEFINE n == IF Direct THEN Taken(Len(d)) ELSE 0
<1>1. n \in 0..Len(d)
  BY TakenRange DEF CInv, ConnTypeOK
<1>2. /\ wire' = wire \o Front(d, n)
      /\ pending' = pending \o AfterSend(d, n)
      /\ handed' = handed \o d
  BY DEF SendInLoop
<1>3. wire \in Seq(Units) /\ handed \in Seq(Units) /\ pending \in Seq(WellFormed)
  BY DEF CInv, ConnTypeOK, QueueInv
<1>4. Front(d, n) \in Seq(Units)
  BY <1>1, SplitParts
<1> HIDE DEF n
<1>5. Elems(handed') = Elems(handed) \cup Elems(d)
  BY <1>2, <1>3, ElemsConcat
<1>6. Elems(wire') = Elems(wire) \cup Elems(Front(d, n))
  BY <1>2, <1>3, <1>4, ElemsConcat
<1>7. Elems(pending') = Elems(pending) \cup Elems(AfterSend(d, n))
  BY <1>2, <1>3, CallbackFunctors, ElemsConcat
<1>8. \A f \in Elems(AfterSend(d, n)) : f.kind \in {"complete", "highwater"}
  BY DEF Elems, AfterSend, Functor
<1> QED
  BY <1>5, <1>6, <1>7, <1>8

\* A step that takes back no promise and makes no new one.
Calm ==
    /\ Elems(handed) \subseteq Elems(handed')
    /\ Elems(wire) \subseteq Elems(wire')
    /\ \A m \in Messages : Waiting(m) => Waiting(m)' \/ Within(m, handed')
    /\ sentBy' = sentBy /\ promised' = promised
CalmState ==
    state_' = "CONNECTED" => /\ state_ = "CONNECTED" /\ fin' = fin
                             /\ \A f \in Jobs' : f \in Jobs \/ f.kind # "shutdown"
                             /\ \A t \in Users : user'[t] = "queue" => user[t] = "queue"
CalmPeer ==
    peer' = "open" => /\ peer = "open" /\ life' = life
                      /\ \A f \in Jobs' : f \in Jobs \/ f.kind # "destroyed"

\* What was handed over when the FIN goes out is in the kernel.
LEMMA WireKept ==
    ASSUME CInv, CInv', FInv, ConnNext, Elems(wire) \subseteq Elems(wire'),
           fin => promised' = promised, PromiseInv', CalmPeer
    PROVE  WireInv'
<1> SUFFICES ASSUME fin', peer' = "open", NEW m \in promised' PROVE Within(m, wire')
  BY DEF WireInv
<1>1. peer = "open" /\ life = "up"
  BY DEF CalmPeer, FInv, OpenInv
<1>2. CASE fin
  BY <1>1, <1>2 DEF FInv, WireInv, Within
<1>3. CASE ~fin
  <2>1. output_buf_' = <<>>
    BY <1>1, <1>3, FinDrained
  <2>2. wire' = handed'
    <3>1. wire' \in Seq(Units) /\ wire' \o output_buf_' = handed'
      BY DEF CInv, ConnTypeOK, StreamInOrder
    <3> QED
      BY <2>1, <3>1, ConcatEmptySeq
  <2> QED
    BY <2>2 DEF PromiseInv
<1> QED
  BY <1>2, <1>3

\* Such a step keeps the promises.
LEMMA CalmFInv ==
    ASSUME CInv, CInv', FInv, ConnNext, Calm, CalmState, CalmPeer
    PROVE  FInv'
<1>0. SentInv /\ PromiseInv /\ OrderInv /\ WireInv /\ OpenInv
  BY DEF FInv
<1>1. \A t \in Users : sentBy[t] \subseteq Messages
  BY DEF CInv, ConnTypeOK
<1>2. \A m : Within(m, handed) => Within(m, handed')
  BY DEF Calm, Within
<1>3. SentInv'
  BY <1>0, <1>1, <1>2 DEF Calm, SentInv
<1>4. PromiseInv'
  BY <1>0, <1>2 DEF Calm, PromiseInv
<1>5. OrderInv'
  BY <1>0 DEF CalmState, OrderInv
<1>6. OpenInv'
  BY <1>0 DEF CalmPeer, OpenInv
<1>7. WireInv'
  BY <1>4, WireKept DEF Calm
<1> QED
  BY <1>3, <1>4, <1>5, <1>6, <1>7 DEF FInv

\* Steps that leave the queues and the bytes as they are.
LEMMA QuietFInv ==
    ASSUME CInv, CInv', FInv, ConnNext,
           \/ PeerReads \/ PeerEnds \/ HandleClose \/ LoopShutDown
           \/ \E t \in Users : UserSend(t) \/ UserShutDown(t)
    PROVE  FInv'
<1>1. UNCHANGED <<handed, wire, batch, pending, sentBy, promised>>
  BY DEF PeerReads, PeerEnds, HandleClose, LoopShutDown, UserSend, UserShutDown, sockVars, userVars
<1>2. Jobs' = Jobs
  BY <1>1 DEF Jobs
<1>3. Calm
  BY <1>1, <1>2 DEF Calm, Waiting
<1>4. CalmState
  <2>1. ControlType
    BY CInvParts
  <2>2. /\ state_' = "CONNECTED" => state_ = "CONNECTED" /\ fin' = fin
        /\ \A t \in Users : user'[t] = "queue" => user[t] = "queue"
    BY <2>1 DEF PeerReads, PeerEnds, HandleClose, LoopShutDown, UserSend, UserShutDown, sockVars,
                userVars, ControlType
  <2> QED
    BY <1>2, <2>2 DEF CalmState
<1>5. CalmPeer
  <2>1. peer' = "open" => peer = "open" /\ life' = life
    BY DEF PeerReads, PeerEnds, HandleClose, EndOfStream, LoopShutDown, UserSend, UserShutDown,
           sockVars, userVars
  <2> QED
    BY <1>2, <2>1 DEF CalmPeer
<1> QED
  BY <1>3, <1>4, <1>5, CalmFInv

\* Functors come in or out, and no message with them.
LEMMA JobsFInv ==
    ASSUME CInv, CInv', FInv, ConnNext,
           HandleWrite \/ RemoveConnection \/ SwapPending \/ \E t \in Users : UserShutDownQueue(t)
    PROVE  FInv'
<1>0. BytesInv /\ ControlType /\ FunctorInv /\ OrderInv /\ OpenInv
  BY CInvParts DEF FInv
<1>1. UNCHANGED <<handed, sentBy, promised, state_>>
  BY DEF HandleWrite, RemoveConnection, SwapPending, UserShutDownQueue, sockVars, userVars
<1>2. Elems(wire) \subseteq Elems(wire')
  <2>1. CASE HandleWrite
    <3>1. PICK n \in 0..Len(output_buf_) : wire' = wire \o Front(output_buf_, n)
      <4>1. Taken(Len(output_buf_)) \in 0..Len(output_buf_)
        BY <1>0, TakenRange DEF BytesInv
      <4> QED
        BY <2>1, <4>1 DEF HandleWrite
    <3>2. Front(output_buf_, n) \in Seq(Units) /\ wire \in Seq(Units)
      BY <1>0, SplitParts DEF BytesInv
    <3> QED
      BY <3>1, <3>2, ElemsConcat
  <2>2. CASE ~HandleWrite
    BY <2>2 DEF RemoveConnection, SwapPending, UserShutDownQueue, sockVars
  <2> QED
    BY <2>1, <2>2
<1>3. /\ Jobs \subseteq Jobs'
      /\ \A f \in Jobs' : f \in Jobs \/ f.kind \in {"complete", "highwater"}
                          \/ (f.kind = "destroyed" /\ RemoveConnection)
                          \/ (f.kind = "shutdown" /\ \E t \in Users : UserShutDownQueue(t))
  <2>1. CASE HandleWrite
    <3>1. PICK c \in Seq(WellFormed) : c \in {AfterDrain, <<>>} /\ pending' = pending \o c
      BY <2>1, CallbackFunctors, EmptySeq DEF HandleWrite
    <3>2. Elems(pending') = Elems(pending) \cup Elems(c) /\ UNCHANGED batch
      BY <1>0, <2>1, <3>1, ElemsConcat DEF BytesInv, HandleWrite
    <3>3. \A f \in Elems(c) : f.kind = "complete"
      BY <3>1 DEF Elems, AfterDrain, Functor
    <3> QED
      BY <3>2, <3>3 DEF Jobs
  <2>2. CASE RemoveConnection
    <3>1. PICK g \in WellFormed : g = Functor("destroyed", 0)
      BY QueuedFunctors
    <3>2. Elems(pending') = Elems(pending) \cup {g} /\ UNCHANGED batch
      BY <1>0, <2>2, <3>1, ElemsAppend DEF BytesInv, RemoveConnection
    <3>3. g.kind = "destroyed"
      BY <3>1 DEF Functor
    <3> QED
      BY <2>2, <3>2, <3>3 DEF Jobs
  <2>3. CASE \E t \in Users : UserShutDownQueue(t)
    <3>1. PICK g \in WellFormed : g = Functor("shutdown", 0)
      BY QueuedFunctors
    <3>2. Elems(pending') = Elems(pending) \cup {g} /\ UNCHANGED batch
      BY <1>0, <2>3, <3>1, ElemsAppend DEF BytesInv, UserShutDownQueue
    <3>3. g.kind = "shutdown"
      BY <3>1 DEF Functor
    <3> QED
      BY <2>3, <3>2, <3>3 DEF Jobs
  <2>4. CASE SwapPending
    <3>1. batch = <<>> /\ batch' = pending /\ pending' = <<>>
      BY <2>4 DEF SwapPending, InEvents
    <3>2. Elems(<<>>) = {}
      BY DEF Elems
    <3> QED
      BY <3>1, <3>2 DEF Jobs
  <2> QED
    BY <2>1, <2>2, <2>3, <2>4
<1>4. Calm
  BY <1>1, <1>2, <1>3 DEF Calm, Waiting
<1>5. CalmState
  <2>1. /\ state_ = "CONNECTED" => ~\E t \in Users : UserShutDownQueue(t)
        /\ \A t \in Users : user'[t] = "queue" => user[t] = "queue"
    BY <1>0 DEF OrderInv, UserShutDownQueue, HandleWrite, RemoveConnection, SwapPending, userVars,
                ControlType
  <2>2. state_ = "CONNECTED" => fin' = fin
    <3>1. CASE HandleWrite
      BY <1>0, <3>1, Zenon DEF HandleWrite, FinDue, ControlType, OrderInv
    <3>2. CASE ~HandleWrite
      BY <3>2 DEF RemoveConnection, SwapPending, UserShutDownQueue, sockVars
    <3> QED
      BY <3>1, <3>2
  <2> QED
    BY <1>1, <1>3, <2>1, <2>2 DEF CalmState
<1>6. CalmPeer
  <2>1. peer' = peer /\ (peer = "open" => ~RemoveConnection /\ life' = life)
    BY <1>0 DEF OpenInv, HandleWrite, RemoveConnection, SwapPending, UserShutDownQueue, sockVars
  <2> QED
    BY <1>3, <2>1 DEF CalmPeer
<1> QED
  BY <1>4, <1>5, <1>6, CalmFInv

\* A functor is run that sends nothing.
LEMMA RunFInv ==
    ASSUME CInv, CInv', FInv, ConnNext, RunShutDown \/ RunCallback \/ RunDestroyed
    PROVE  FInv'
<1>0. BytesInv /\ ControlType /\ FunctorInv /\ OrderInv /\ OpenInv
  BY CInvParts DEF FInv
<1>1. PICK h : h = Head(batch)
  OBVIOUS
<1>2. /\ batch # <<>> /\ batch' = Tail(batch) /\ h.kind # "send"
      /\ UNCHANGED <<handed, wire, pending, peer, user, sentBy, promised>>
  BY <1>1 DEF RunShutDown, RunCallback, RunDestroyed, Running, sockVars, userVars
<1>3. Jobs = Jobs' \cup {h}
  <2>1. Elems(batch) = Elems(batch') \cup {h}
    BY <1>0, <1>1, <1>2, ElemsTail DEF FunctorInv
  <2> QED
    BY <1>2, <2>1 DEF Jobs
<1>4. Calm
  BY <1>2, <1>3 DEF Calm, Waiting
<1>5. CalmState
  <2>1. state_ = "CONNECTED" => ~RunShutDown
    BY <1>0, <1>1, <1>3 DEF OrderInv, RunShutDown, Running
  <2>2. state_' = "CONNECTED" => state_ = "CONNECTED" /\ fin' = fin
    BY <2>1 DEF RunShutDown, RunCallback, RunDestroyed, sockVars
  <2> QED
    BY <1>2, <1>3, <2>2 DEF CalmState
<1>6. CalmPeer
  <2>1. peer = "open" => ~RunDestroyed
    BY <1>0, <1>1, <1>3 DEF OpenInv, RunDestroyed, Running
  <2>2. peer = "open" => life' = life
    BY <2>1 DEF RunShutDown, RunCallback
  <2> QED
    BY <1>2, <1>3, <2>2 DEF CalmPeer
<1> QED
  BY <1>4, <1>5, <1>6, CalmFInv

\* SendInLoop, called in the loop or by the functor of a user's Send.
LEMMA SendFInv ==
    ASSUME CInv, CInv', FInv, ConnNext, LoopSend \/ RunSend
    PROVE  FInv'
<1>0. BytesInv /\ ControlType /\ FunctorInv
  BY CInvParts
<1>1. PICK m \in Messages :
            /\ SendInLoop(Data(m), pending)
            /\ \/ batch' = batch
               \/ /\ batch # <<>> /\ batch' = Tail(batch)
                  /\ Head(batch).kind = "send" /\ Head(batch).msg = m
  <2>1. CASE LoopSend
    <3>1. sends' \in Messages
      BY <1>0, <2>1, ConnAssumption DEF LoopSend, ControlType, Messages
    <3> QED
      BY <2>1, <3>1, Zenon DEF LoopSend
  <2>2. CASE RunSend
    <3>1. Head(batch) \in WellFormed
      BY <1>0, <2>2, BatchParts DEF RunSend, Running
    <3>2. Head(batch).msg \in Messages
      BY <2>2, <3>1 DEF RunSend, Running, WellFormed
    <3> QED
      BY <2>2, <3>2, Zenon DEF RunSend, Running
  <2> QED
    BY <2>1, <2>2
<1>2. PICK d \in Seq(Units) : d = Data(m)
  BY DataUnits
<1>3. /\ Elems(handed') = Elems(handed) \cup Elems(d)
      /\ Elems(wire) \subseteq Elems(wire')
      /\ Elems(pending) \subseteq Elems(pending')
      /\ \A f \in Elems(pending') :
            f \in Elems(pending) \/ f.kind \in {"complete", "highwater"}
  <2>1. SendInLoop(d, pending)
    BY <1>1, <1>2, Zenon
  <2> QED
    BY <2>1, SendEffect
<1>4. Within(m, handed')
  <2>1. \A i \in 1..MsgSize : Data(m)[i] \in Elems(d)
    BY <1>2, DataUnits DEF Elems
  <2> QED
    BY <1>3, <2>1 DEF Within
<1>5. /\ \A f \in Elems(batch) : f \in Elems(batch') \/ (f.kind = "send" /\ f.msg = m)
      /\ Elems(batch') \subseteq Elems(batch)
  <2>1. CASE batch' = batch
    BY <2>1
  <2>2. CASE /\ batch # <<>> /\ batch' = Tail(batch)
             /\ Head(batch).kind = "send" /\ Head(batch).msg = m
    <3>1. Elems(batch) = Elems(batch') \cup {Head(batch)}
      BY <1>0, <2>2, ElemsTail DEF FunctorInv
    <3> QED
      BY <2>2, <3>1
  <2> QED
    BY <1>1, <2>1, <2>2
<1>6. UNCHANGED <<state_, life, peer, fin, user, sentBy, promised>>
  BY DEF LoopSend, RunSend, userVars
<1>7. /\ \A f \in Jobs : f \in Jobs' \/ (f.kind = "send" /\ f.msg = m)
      /\ \A f \in Jobs' : f \in Jobs \/ f.kind \in {"complete", "highwater"}
  BY <1>3, <1>5 DEF Jobs
<1>8. \A w \in Messages : Waiting(w) => Waiting(w)' \/ Within(w, handed')
  <2> SUFFICES ASSUME NEW w \in Messages, Waiting(w), w # m PROVE Waiting(w)'
    BY <1>4
  <2> QED
    BY <1>7 DEF Waiting
<1>9. Calm
  BY <1>3, <1>6, <1>8 DEF Calm
<1>10. CalmState /\ CalmPeer
  BY <1>6, <1>7 DEF CalmState, CalmPeer
<1> QED
  BY <1>9, <1>10, CalmFInv

\* A user's message comes into the queue.
LEMMA UserSendQueueFInv ==
    ASSUME CInv, CInv', FInv, ConnNext, NEW t \in Users, UserSendQueue(t)
    PROVE  FInv'
<1>0. BytesInv /\ ControlType /\ FunctorInv /\ SentInv /\ PromiseInv /\ OrderInv /\ OpenInv
  BY CInvParts DEF FInv
<1>1. PICK m \in Messages : m = arg[t]
  BY <1>0 DEF UserSendQueue, FunctorInv
<1>2. PICK g \in WellFormed : g = Functor("send", m)
  BY QueuedFunctors
<1>3. g.kind = "send" /\ g.msg = m
  BY <1>2 DEF Functor
<1>4. /\ pending' = Append(pending, g)
      /\ sentBy' = [sentBy EXCEPT ![t] = @ \cup {m}]
      /\ user' = [user EXCEPT ![t] = "idle"]
      /\ UNCHANGED <<state_, life, batch, peer, wire, fin, handed, promised>>
  BY <1>1, <1>2 DEF UserSendQueue, sockVars
<1>5. Jobs' = Jobs \cup {g}
  <2>1. Elems(pending') = Elems(pending) \cup {g}
    BY <1>0, <1>4, ElemsAppend DEF BytesInv
  <2> QED
    BY <1>4, <2>1 DEF Jobs
<1>6. Waiting(m)' /\ \A w : Waiting(w) => Waiting(w)'
  BY <1>3, <1>5 DEF Waiting
<1>7. SentInv'
  <2> SUFFICES ASSUME NEW u \in Users, NEW w \in sentBy'[u]
               PROVE  Within(w, handed') \/ Waiting(w)'
    BY DEF SentInv
  <2>1. w = m \/ w \in sentBy[u]
    BY <1>0, <1>4 DEF ControlType
  <2> QED
    BY <1>0, <1>4, <1>6, <2>1 DEF SentInv
<1>8. PromiseInv'
  BY <1>0, <1>4 DEF PromiseInv
<1>9. CalmPeer
  BY <1>3, <1>4, <1>5 DEF CalmPeer
<1>10. OpenInv'
  BY <1>0, <1>9 DEF CalmPeer, OpenInv
<1>11. OrderInv'
  BY <1>0, <1>3, <1>4, <1>5 DEF OrderInv, ControlType
<1>12. WireInv'
  BY <1>4, <1>8, <1>9, WireKept
<1> QED
  BY <1>7, <1>8, <1>10, <1>11, <1>12 DEF FInv

\* A user's ShutDown stores DISCONNECTING: by the discipline, what it
\* promises was handed over.
LEMMA UserShutDownStoreFInv ==
    ASSUME CInv, CInv', FInv, ConnNext, [ShutDownSettled]_connVars,
           NEW t \in Users, UserShutDownStore(t)
    PROVE  FInv'
<1>0. ControlType /\ SentInv /\ PromiseInv /\ OrderInv /\ OpenInv
  BY CInvParts DEF FInv
<1>1. /\ user[t] = "store" /\ state_' = "DISCONNECTING"
      /\ user' = [user EXCEPT ![t] = "queue"]
      /\ promised' = IF state_ = "CONNECTED" THEN sentBy[t] ELSE promised
      /\ UNCHANGED <<life, pending, batch, peer, wire, fin, handed, sentBy>>
  BY DEF UserShutDownStore, sockVars
<1>2. user'[t] = "queue"
  BY <1>0, <1>1 DEF ControlType
<1>3. ShutDownSettled
  BY <1>1, <1>2 DEF connVars, userVars
<1>4. \A m \in sentBy[t] : Within(m, handed)
  BY <1>0, <1>1, <1>2, <1>3 DEF ShutDownSettled, SentInv
<1>5. PromiseInv'
  BY <1>0, <1>1, <1>4 DEF PromiseInv
<1>6. Jobs' = Jobs
  BY <1>1 DEF Jobs
<1>7. SentInv'
  BY <1>0, <1>1, <1>6 DEF SentInv, Waiting
<1>8. OrderInv'
  BY <1>1 DEF OrderInv
<1>9. CalmPeer
  BY <1>1, <1>6 DEF CalmPeer
<1>10. OpenInv'
  BY <1>0, <1>9 DEF CalmPeer, OpenInv
<1>11. WireInv'
  <2>1. fin => promised' = promised
    BY <1>0, <1>1 DEF OrderInv
  <2> QED
    BY <1>1, <1>5, <1>9, <2>1, WireKept
<1> QED
  BY <1>5, <1>7, <1>8, <1>10, <1>11 DEF FInv

\* Every step of a disciplined user and of the loop keeps the promises.
LEMMA NextFInv ==
    CInv /\ FInv /\ [ConnNext]_connVars /\ [ShutDownSettled]_connVars => FInv'
<1> SUFFICES ASSUME CInv, FInv, [ConnNext]_connVars, [ShutDownSettled]_connVars
             PROVE  FInv'
  OBVIOUS
<1>0. CInv'
  BY NextCInv
<1>1. CASE UNCHANGED connVars
  BY <1>1 DEF connVars, sockVars, userVars, FInv, SentInv, PromiseInv, OrderInv, WireInv, OpenInv,
              Jobs, Waiting
<1>2. CASE ConnNext
  <2>1. CASE \/ PeerReads \/ PeerEnds \/ HandleClose \/ LoopShutDown
             \/ \E t \in Users : UserSend(t) \/ UserShutDown(t)
    BY <1>0, <1>2, <2>1, QuietFInv
  <2>2. CASE \/ HandleWrite \/ RemoveConnection \/ SwapPending
             \/ \E t \in Users : UserShutDownQueue(t)
    BY <1>0, <1>2, <2>2, JobsFInv
  <2>3. CASE RunShutDown \/ RunCallback \/ RunDestroyed
    BY <1>0, <1>2, <2>3, RunFInv
  <2>4. CASE LoopSend \/ RunSend
    BY <1>0, <1>2, <2>4, SendFInv
  <2>5. CASE \E t \in Users : UserSendQueue(t)
    BY <1>0, <1>2, <2>5, UserSendQueueFInv
  <2>6. CASE \E t \in Users : UserShutDownStore(t)
    BY <1>0, <1>2, <2>6, UserShutDownStoreFInv
  <2> QED
    BY <1>2, <2>1, <2>2, <2>3, <2>4, <2>5, <2>6 DEF ConnNext, FuncStep, FinishCall
<1> QED
  BY <1>1, <1>2

\* They hold on a connection that was just established.
LEMMA InitFInv == ConnInit => FInv
  BY DEF ConnInit, FInv, SentInv, PromiseInv, OrderInv, WireInv, OpenInv, Jobs, Elems

\* "After all data is written the write side is closed" (tcpconnection.h:44)
\* is true of a thread that calls ShutDown when the loop has got its messages.
THEOREM SettledFinAfterData ==
    ConnSpec /\ [][ShutDownSettled]_connVars => []FinAfterData
<1>1. FInv => FinAfterData
  BY DEF FInv, WireInv, FinAfterData, Within, Elems
<1> QED
  BY <1>1, InitFInv, NextFInv, CInvariant, PTL DEF ConnSpec
=============================================================================
