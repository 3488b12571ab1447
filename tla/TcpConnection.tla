--------------------------- MODULE TcpConnection ---------------------------
(***************************************************************************)
(* The sending side of one established TcpConnection                       *)
(* (net/tcpconnection.cc): Send and ShutDown from the loop's own thread    *)
(* and from user threads, output_buf_, the socket, and the two callbacks   *)
(* that tell a user to slow down and to go on.  The loop is the one of     *)
(* module Dispatcher, in its two phases: event handlers, then the functors *)
(* swapped out of the queue.  How a connection is born and freed is in     *)
(* module TcpServer.                                                       *)
(*                                                                         *)
(* A message is MsgSize units, numbered through all messages.  A caller    *)
(* keeps the bytes of a message until they were sent: the functor of Send  *)
(* holds a pointer to them and no copy.                                    *)
(***************************************************************************)
EXTENDS Naturals, Sequences

CONSTANTS
    Users,          \* threads other than the loop's that hold the connection
    MsgSize,        \* units of a message
    KernelRoom,     \* units the send buffer of the socket takes
    HighWater,      \* high_water_mark_
    MaxMessages     \* bound on the messages sent

ASSUME ConnAssumption ==
    /\ MsgSize \in Nat \ {0}
    /\ KernelRoom \in Nat \ {0}
    /\ HighWater \in Nat \ {0}
    /\ MaxMessages \in Nat

VARIABLES
    state_,
    careWrite,      \* is_care_write()
    output_buf_,
    life,           \* "up", then HandleClose, RemoveConnection, destroyed
    pending,        \* pending_funcs_ of the loop
    batch,          \* what is left of local_pending_funcs
    user,           \* where each user thread is in Send or ShutDown
    arg,            \* the message each user thread is sending
    sends,          \* messages so far, the number of the last one
    peer,           \* what the peer did: "open", "eof" or "reset"
    wire,           \* every unit the kernel has taken, in order
    read,           \* how many of them the peer has read
    fin,            \* the write side was shut down
    throttled,      \* the last of the two callbacks was the high-water mark
    handed,         \* history: the units given to SendInLoop, in order
    sentBy,         \* history: messages each user has handed to the loop
    promised        \* history: those of the user whose ShutDown was first

sockVars == <<peer, wire, read, fin>>
userVars == <<user, arg, sends, sentBy, promised>>
connVars == <<state_, careWrite, output_buf_, life, pending, batch, throttled,
              handed, sockVars, userVars>>

Messages == 1..MaxMessages
Units == 1..(MaxMessages * MsgSize)
Data(m) == [i \in 1..MsgSize |-> (m - 1) * MsgSize + i]

Functor(kind, m) == [kind |-> kind, msg |-> m]
Functors == [kind : {"send", "shutdown", "complete", "highwater", "destroyed"},
             msg : 0..MaxMessages]

\* Types; and EPOLLOUT is watched exactly while something is left to write:
\* no busy loop without data, no data without an event to write it.
ConnTypeOK ==
    /\ state_ \in {"CONNECTED", "DISCONNECTING", "DISCONNECTED"}
    /\ careWrite \in BOOLEAN
    /\ output_buf_ \in Seq(Units)
    /\ life \in {"up", "closed", "removed", "gone"}
    /\ pending \in Seq(Functors)
    /\ batch \in Seq(Functors)
    /\ user \in [Users -> {"idle", "send", "store", "queue"}]
    /\ arg \in [Users -> 0..MaxMessages]
    /\ sends \in 0..MaxMessages
    /\ peer \in {"open", "eof", "reset"}
    /\ wire \in Seq(Units)
    /\ read \in 0..Len(wire)
    /\ fin \in BOOLEAN
    /\ throttled \in BOOLEAN
    /\ handed \in Seq(Units)
    /\ sentBy \in [Users -> SUBSET Messages]
    /\ promised \subseteq Messages
    /\ life = "up" => (careWrite <=> output_buf_ # <<>>)

\* The state after set_connection_established.
ConnInit ==
    /\ state_ = "CONNECTED"
    /\ careWrite = FALSE
    /\ output_buf_ = <<>>
    /\ life = "up"
    /\ pending = <<>>
    /\ batch = <<>>
    /\ user = [t \in Users |-> "idle"]
    /\ arg = [t \in Users |-> 0]
    /\ sends = 0
    /\ peer = "open"
    /\ wire = <<>>
    /\ read = 0
    /\ fin = FALSE
    /\ throttled = FALSE
    /\ handed = <<>>
    /\ sentBy = [t \in Users |-> {}]
    /\ promised = {}

-----------------------------------------------------------------------------
(***************************************************************************)
(* The socket.                                                             *)
(***************************************************************************)
\* What write() takes of n units.  It fails after the FIN and on a reset
\* connection, and with EAGAIN when there is no room; the callers treat the
\* two alike.
Taken(n) ==
    LET room == KernelRoom - (Len(wire) - read)
    IN IF fin \/ peer = "reset" THEN 0 ELSE IF n < room THEN n ELSE room

\* The first k elements of a sequence, and the others.
Front(s, k) == SubSeq(s, 1, k)
Rest(s, k) == SubSeq(s, k + 1, Len(s))

PeerReads ==
    /\ peer = "open"
    /\ read < Len(wire)
    /\ read' = read + 1
    /\ UNCHANGED <<state_, careWrite, output_buf_, life, pending, batch, peer,
                   wire, fin, throttled, handed, userVars>>

PeerEnds ==
    /\ peer = "open"
    /\ peer' \in {"eof", "reset"}
    /\ UNCHANGED <<state_, careWrite, output_buf_, life, pending, batch, wire,
                   read, fin, throttled, handed, userVars>>

-----------------------------------------------------------------------------
(***************************************************************************)
(* The functions that run on the loop.  Each takes pend, the queue as its  *)
(* caller leaves it, and returns with pending' set.                        *)
(***************************************************************************)
\* Faulty variant of Direct: the data is written past what is buffered.
DirectAlways == TRUE

\* SendInLoop tries write() only when nothing is waiting.
Direct == ~careWrite /\ output_buf_ = <<>>

\* The callbacks SendInLoop queues when n of the data was written: the
\* write-complete callback, or the high-water mark on its rising edge.
AfterSend(d, n) ==
    LET old == Len(output_buf_)
        left == Len(d) - n
    IN IF left = 0 THEN <<Functor("complete", 0)>>
       ELSE IF old + left >= HighWater /\ old < HighWater
            THEN <<Functor("highwater", 0)>> ELSE <<>>

SendInLoop(d, pend) ==
    LET n == IF Direct THEN Taken(Len(d)) ELSE 0
    IN /\ wire' = wire \o Front(d, n)
       /\ output_buf_' = output_buf_ \o Rest(d, n)
       /\ careWrite' = (careWrite \/ n < Len(d))
       /\ pending' = pend \o AfterSend(d, n)
       /\ handed' = handed \o d

\* Faulty variant of ShutDownInLoop: shuts down with data in the buffer.
ShutDownInLoopNow == fin' = TRUE

\* ShutDownInLoop: with data in the buffer the FIN is left to HandleWrite.
ShutDownInLoop == fin' = (fin \/ ~careWrite)

\* Faulty variant of FinDue: HandleWrite never finishes a ShutDown.
FinDueNever == FALSE

\* Line 201: a ShutDown was waiting for the buffer to drain.
FinDue == state_ = "DISCONNECTING"

\* Faulty variant of AfterDrain: nobody is told.
AfterDrainSilent == <<>>

\* Lines 197 to 200.
AfterDrain == <<Functor("complete", 0)>>

InEvents == batch = <<>>

\* Faulty variant of HandleWrite: goes on watching EPOLLOUT.
HandleWriteBusy ==
    /\ InEvents
    /\ life # "gone"
    /\ careWrite
    /\ LET n == Taken(Len(output_buf_))
           drained == n = Len(output_buf_)
       IN /\ n > 0
          /\ wire' = wire \o Front(output_buf_, n)
          /\ output_buf_' = Rest(output_buf_, n)
          /\ pending' = pending \o IF drained THEN AfterDrain ELSE <<>>
          /\ fin' = (fin \/ (drained /\ FinDue))
    /\ UNCHANGED <<state_, careWrite, life, batch, peer, read, throttled, handed,
                   userVars>>

\* HandleWrite; when write() fails it only logs.
HandleWrite ==
    /\ InEvents
    /\ life # "gone"
    /\ careWrite
    /\ LET n == Taken(Len(output_buf_))
           drained == n = Len(output_buf_)
       IN /\ n > 0
          /\ wire' = wire \o Front(output_buf_, n)
          /\ output_buf_' = Rest(output_buf_, n)
          /\ careWrite' = ~drained
          /\ pending' = pending \o IF drained THEN AfterDrain ELSE <<>>
          /\ fin' = (fin \/ (drained /\ FinDue))
    /\ UNCHANGED <<state_, life, batch, peer, read, throttled, handed, userVars>>

\* HandleRead meets the end of the stream; after a reset a first read() fails,
\* which is only logged, and the next one ends it.
EndOfStream == peer # "open"

\* HandleClose stops watching and leaves state_ as it is.
HandleClose ==
    /\ InEvents
    /\ life = "up"
    /\ EndOfStream
    /\ life' = "closed"
    /\ careWrite' = FALSE
    /\ UNCHANGED <<state_, output_buf_, pending, batch, sockVars, throttled,
                   handed, userVars>>

\* TcpServer::RemoveConnectionInLoop, on its own loop, sends the connection
\* back to be destroyed.
RemoveConnection ==
    /\ life = "closed"
    /\ life' = "removed"
    /\ pending' = Append(pending, Functor("destroyed", 0))
    /\ UNCHANGED <<state_, careWrite, output_buf_, batch, sockVars, throttled,
                   handed, userVars>>

-----------------------------------------------------------------------------
(***************************************************************************)
(* Send and ShutDown called by a user callback, on the loop's thread, also *)
(* after HandleClose by a callback that was still queued.                  *)
(***************************************************************************)
LoopSend ==
    /\ state_ = "CONNECTED"
    /\ sends < MaxMessages
    /\ sends' = sends + 1
    /\ SendInLoop(Data(sends'), pending)
    /\ UNCHANGED <<state_, life, batch, peer, read, fin, throttled, user, arg,
                   sentBy, promised>>

LoopShutDown ==
    /\ state_ = "CONNECTED"
    /\ state_' = "DISCONNECTING"
    /\ ShutDownInLoop
    /\ UNCHANGED <<careWrite, output_buf_, life, pending, batch, peer, wire,
                   read, throttled, handed, userVars>>

-----------------------------------------------------------------------------
(***************************************************************************)
(* Send and ShutDown called by a user thread.                              *)
(***************************************************************************)
\* The test of state_ in Send, without a lock.
UserSend(t) ==
    /\ user[t] = "idle"
    /\ state_ = "CONNECTED"
    /\ sends < MaxMessages
    /\ sends' = sends + 1
    /\ arg' = [arg EXCEPT ![t] = sends']
    /\ user' = [user EXCEPT ![t] = "send"]
    /\ UNCHANGED <<state_, careWrite, output_buf_, life, pending, batch, sockVars,
                   throttled, handed, sentBy, promised>>

UserSendQueue(t) ==
    /\ user[t] = "send"
    /\ pending' = Append(pending, Functor("send", arg[t]))
    /\ sentBy' = [sentBy EXCEPT ![t] = @ \cup {arg[t]}]
    /\ user' = [user EXCEPT ![t] = "idle"]
    /\ UNCHANGED <<state_, careWrite, output_buf_, life, batch, sockVars,
                   throttled, handed, arg, sends, promised>>

\* The test of state_ in ShutDown, the store, and RunInLoop.
UserShutDown(t) ==
    /\ user[t] = "idle"
    /\ state_ = "CONNECTED"
    /\ user' = [user EXCEPT ![t] = "store"]
    /\ UNCHANGED <<state_, careWrite, output_buf_, life, pending, batch, sockVars,
                   throttled, handed, arg, sends, sentBy, promised>>

UserShutDownStore(t) ==
    /\ user[t] = "store"
    /\ state_' = "DISCONNECTING"
    /\ user' = [user EXCEPT ![t] = "queue"]
    /\ promised' = IF state_ = "CONNECTED" THEN sentBy[t] ELSE promised
    /\ UNCHANGED <<careWrite, output_buf_, life, pending, batch, sockVars,
                   throttled, handed, arg, sends, sentBy>>

UserShutDownQueue(t) ==
    /\ user[t] = "queue"
    /\ pending' = Append(pending, Functor("shutdown", 0))
    /\ user' = [user EXCEPT ![t] = "idle"]
    /\ UNCHANGED <<state_, careWrite, output_buf_, life, batch, sockVars,
                   throttled, handed, arg, sends, sentBy, promised>>

-----------------------------------------------------------------------------
(***************************************************************************)
(* ExecutePendingFuncs.                                                    *)
(***************************************************************************)
SwapPending ==
    /\ InEvents
    /\ pending # <<>>
    /\ batch' = pending
    /\ pending' = <<>>
    /\ UNCHANGED <<state_, careWrite, output_buf_, life, sockVars, throttled,
                   handed, userVars>>

Running(kind) ==
    /\ batch # <<>>
    /\ Head(batch).kind = kind
    /\ batch' = Tail(batch)

RunSend ==
    /\ Running("send")
    /\ SendInLoop(Data(Head(batch).msg), pending)
    /\ UNCHANGED <<state_, life, peer, read, fin, throttled, userVars>>

RunShutDown ==
    /\ Running("shutdown")
    /\ ShutDownInLoop
    /\ UNCHANGED <<state_, careWrite, output_buf_, life, pending, peer, wire,
                   read, throttled, handed, userVars>>

\* The write-complete callback or the high-water callback.
RunCallback ==
    /\ Running("complete") \/ Running("highwater")
    /\ throttled' = (Head(batch).kind = "highwater")
    /\ UNCHANGED <<state_, careWrite, output_buf_, life, pending, sockVars,
                   handed, userVars>>

\* set_connection_destroyed.
RunDestroyed ==
    /\ Running("destroyed")
    /\ state_' = "DISCONNECTED"
    /\ careWrite' = FALSE
    /\ life' = "gone"
    /\ UNCHANGED <<output_buf_, pending, sockVars, throttled, handed, userVars>>

FuncStep ==
    SwapPending \/ RunSend \/ RunShutDown \/ RunCallback \/ RunDestroyed

FinishCall(t) ==
    UserSendQueue(t) \/ UserShutDownStore(t) \/ UserShutDownQueue(t)

ConnNext ==
    \/ PeerReads \/ PeerEnds
    \/ HandleWrite \/ HandleClose \/ RemoveConnection
    \/ LoopSend \/ LoopShutDown
    \/ FuncStep
    \/ \E t \in Users : UserSend(t) \/ UserShutDown(t) \/ FinishCall(t)

\* The loop runs its functors and serves a socket that stays writable (module
\* Dispatcher), a call that was begun is finished, a peer that keeps the
\* connection open reads.
ConnFairness ==
    /\ WF_connVars(FuncStep)
    /\ SF_connVars(HandleWrite)
    /\ WF_connVars(PeerReads)
    /\ \A t \in Users : WF_connVars(FinishCall(t))

ConnSpec == ConnInit /\ [][ConnNext]_connVars
FairConnSpec == ConnSpec /\ ConnFairness

-----------------------------------------------------------------------------
\* The kernel gets every message whole, once, and in the order SendInLoop
\* got them, however writes to the socket and through output_buf_ mix.
StreamInOrder == wire \o output_buf_ = handed

\* Until the peer ends the connection, the write side is shut down only when
\* all that SendInLoop got is in the kernel.
FinOnlyWhenDrained ==
    [][life = "up" /\ ~fin /\ fin' => output_buf_' = <<>>]_connVars

\* ShutDown ends in a FIN: either ShutDownInLoop finds the buffer empty or
\* HandleWrite sees DISCONNECTING when it has drained it.
ShutDownSendsFin ==
    (state_ = "DISCONNECTING") ~> (fin \/ peer # "open")

\* A user who stops at the high-water callback is told to go on: a
\* write-complete callback follows.
ThrottleReleased == throttled ~> (~throttled \/ fin \/ peer # "open")

\* "After all data is written the write side is closed" (tcpconnection.h:44):
\* the messages a thread had sent before it called ShutDown go out before
\* the FIN.
FinAfterData ==
    fin /\ peer = "open" =>
        \A m \in promised : \A i \in 1..MsgSize :
            \E k \in DOMAIN wire : wire[k] = Data(m)[i]
=============================================================================
