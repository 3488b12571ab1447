----------------------------- MODULE TcpServer -----------------------------
(***************************************************************************)
(* The life of TcpConnection objects (net/tcpserver.cc,                    *)
(* net/tcpconnection.cc) between the base loop, the I/O loops of the       *)
(* DispatcherPool (reactor/dispatcherpool.cc) and user threads.  A loop is *)
(* what module Dispatcher proves it to be: a FIFO of functors, swapped out *)
(* as a vector and run after the event handlers.  A functor bound to a     *)
(* shared_ptr keeps its connection alive until the vector is destroyed; a  *)
(* functor bound to a raw this does not.                                   *)
(***************************************************************************)
EXTENDS Naturals, Sequences, FiniteSets

CONSTANTS
    MaxConns,       \* bound on the connections accepted
    MaxThreads,     \* bound on num_threads_ of the pool
    MaxCalls        \* bound on the cross-thread Send and ShutDown calls

ASSUME ServerAssumption ==
    /\ MaxConns \in Nat
    /\ MaxThreads \in Nat
    /\ MaxCalls \in Nat

Conns == 1..MaxConns
Base == 0                       \* the loop of TcpServer::dispatcher_
Loops == {Base} \cup 1..MaxThreads

VARIABLES
    num_threads_,   \* of the DispatcherPool
    started_,       \* of TcpServer
    next_,          \* of the DispatcherPool
    conn_id_,       \* connections accepted so far, the name of the last one
    connections_,   \* the map of TcpServer: the names in it
    io,             \* the loop of each connection
    state_,         \* of each TcpConnection, "none" before its construction
    caring,         \* connections whose EventHandler cares for reads
    registered,     \* connections whose EventHandler is in the epoll set
    peer,           \* what the next read of each socket gives
    pending,        \* pending_funcs_ of each loop
    batch,          \* local_pending_funcs of each loop
    pos,            \* functors of batch already run
    userRef,        \* connections the user holds a TcpConnectionPtr of
    call,           \* the connection a user thread is in a call of, or 0
    calls,          \* history: cross-thread calls so far
    ups,            \* history: connection callbacks for an established one
    downs,          \* history: connection callbacks for a destroyed one
    usedDead,       \* history: a member function ran on a freed connection
    aborted         \* an assert has failed

poolVars == <<num_threads_, started_, next_>>
connVars == <<connections_, io, state_, caring, registered>>
loopVars == <<pending, batch, pos>>
userVars == <<userRef, call, calls>>
traceVars == <<ups, downs, usedDead>>
serverVars == <<poolVars, conn_id_, connVars, peer, loopVars, userVars,
                traceVars, aborted>>

Kinds == {"established", "remove", "destroyed", "send", "shutdown"}
Functor(kind, c) == [kind |-> kind, conn |-> c]
Functors == [kind : Kinds, conn : Conns]

\* The connections that run on a loop.
Load(l) == Cardinality({c \in 1..conn_id_ : io[c] = l})

\* Types, and connections are spread evenly over the threads of the pool.
ServerTypeOK ==
    /\ num_threads_ \in 0..MaxThreads
    /\ started_ \in BOOLEAN
    /\ next_ \in 0..MaxThreads
    /\ num_threads_ > 0 => next_ < num_threads_
    /\ conn_id_ \in 0..MaxConns
    /\ connections_ \subseteq 1..conn_id_
    /\ io \in [Conns -> 0..num_threads_]
    /\ state_ \in [Conns -> {"none", "CONNECTING", "CONNECTED",
                             "DISCONNECTING", "DISCONNECTED"}]
    /\ caring \subseteq registered
    /\ registered \subseteq 1..conn_id_
    /\ peer \in [Conns -> {"open", "reset", "eof"}]
    /\ pending \in [Loops -> Seq(Functors)]
    /\ batch \in [Loops -> Seq(Functors)]
    /\ \A l \in Loops : pos[l] \in 0..Len(batch[l])
    /\ userRef \subseteq Conns
    /\ call \in [{"send", "shutdown"} -> Conns \cup {0}]
    /\ calls \in 0..MaxCalls
    /\ ups \in [Conns -> Nat]
    /\ downs \in [Conns -> Nat]
    /\ usedDead \in BOOLEAN
    /\ aborted \in BOOLEAN
    /\ \A l1, l2 \in 1..num_threads_ : Load(l1) <= Load(l2) + 1

ServerInit ==
    /\ num_threads_ = 0
    /\ started_ = FALSE
    /\ next_ = 0
    /\ conn_id_ = 0
    /\ connections_ = {}
    /\ io = [c \in Conns |-> Base]
    /\ state_ = [c \in Conns |-> "none"]
    /\ caring = {}
    /\ registered = {}
    /\ peer = [c \in Conns |-> "open"]
    /\ pending = [l \in Loops |-> <<>>]
    /\ batch = [l \in Loops |-> <<>>]
    /\ pos = [l \in Loops |-> 0]
    /\ userRef = {}
    /\ call = [k \in {"send", "shutdown"} |-> 0]
    /\ calls = 0
    /\ ups = [c \in Conns |-> 0]
    /\ downs = [c \in Conns |-> 0]
    /\ usedDead = FALSE
    /\ aborted = FALSE

-----------------------------------------------------------------------------
(***************************************************************************)
(* Ownership.                                                              *)
(***************************************************************************)
\* Faulty variant of Holds: set_connection_destroyed bound to a raw pointer.
HoldsNotDestroyed(f, c) ==
    f.conn = c /\ f.kind \in {"established", "remove"}

\* Does a functor hold a shared_ptr of the connection?  Send and ShutDown
\* bind a raw this.
Holds(f, c) == f.conn = c /\ f.kind \in {"established", "remove", "destroyed"}

InQueues(c) ==
    \E l \in Loops :
        \/ \E i \in DOMAIN pending[l] : Holds(pending[l][i], c)
        \/ \E i \in DOMAIN batch[l] : Holds(batch[l][i], c)

\* The object exists: some shared_ptr to it does.
Alive(c) ==
    /\ state_[c] # "none"
    /\ \/ c \in connections_
       \/ c \in userRef
       \/ InQueues(c)

\* The loop is in Select, where the event handlers run; the other phase is
\* ExecutePendingFuncs.
InSelect(l) == batch[l] = <<>>

\* The epoll set of a connection's loop: Selector::AddEvent, ModifyEvent with or
\* without kRead, and DeleteEvent.  Their errors are only logged.
AddEvent(c) == registered' = registered \cup {c}
CareRead(c) == caring' = caring \cup {c}
CareNothing(c) == caring' = caring \ {c}
DeleteEvent(c) == registered' = registered \ {c}

Queued(q, l, f) == [q EXCEPT ![l] = Append(@, f)]

-----------------------------------------------------------------------------
(***************************************************************************)
(* Start, and the round-robin choice of a loop.                            *)
(***************************************************************************)
\* Called before Start, as every program of the repository does: the code
\* does not check it.
SetThreadNum(n) ==
    /\ ~started_
    /\ num_threads_' = n
    /\ UNCHANGED <<started_, next_, conn_id_, connVars, peer, loopVars, userVars,
                   traceVars, aborted>>

Start ==
    /\ ~started_
    /\ started_' = TRUE
    /\ UNCHANGED <<num_threads_, next_, conn_id_, connVars, peer, loopVars,
                   userVars, traceVars, aborted>>

\* Faulty variant of AdvanceNext: next_ is never advanced.
AdvanceNextStuck == next_

\* next_ after get_next_dispatcher.
AdvanceNext == (next_ + 1) % num_threads_

\* dispatchers_[next_], or the base loop when the pool has no thread.
NextDispatcher == IF num_threads_ = 0 THEN Base ELSE next_ + 1

-----------------------------------------------------------------------------
(***************************************************************************)
(* The member functions that loops run, as the changes they make.          *)
(***************************************************************************)
\* A user callback may keep the pointer it is given.
UserMayKeep(c) == userRef' \in {userRef, userRef \cup {c}}

\* state_[c] is st when a user callback begins; the callback may call
\* ShutDown, which runs on the loop's own thread.
UserMayShutDown(c, st) ==
    \/ state_' = [state_ EXCEPT ![c] = st]
    \/ st = "CONNECTED" /\ state_' = [state_ EXCEPT ![c] = "DISCONNECTING"]

\* set_connection_established after its assert.
Established(c) ==
    /\ UserMayShutDown(c, "CONNECTED")
    /\ CareRead(c)
    /\ ups' = [ups EXCEPT ![c] = @ + 1]
    /\ UserMayKeep(c)

\* Faulty variant of Destroyed: leaves the handler in the epoll set.
DestroyedNoRemove(c) ==
    /\ aborted' = (state_[c] \notin {"CONNECTED", "DISCONNECTING"})
    /\ state_' = [state_ EXCEPT ![c] = "DISCONNECTED"]
    /\ CareNothing(c)
    /\ downs' = [downs EXCEPT ![c] = @ + 1]
    /\ UserMayKeep(c)
    /\ UNCHANGED registered

\* set_connection_destroyed, RemoveEventHandler included.
Destroyed(c) ==
    /\ aborted' = (state_[c] \notin {"CONNECTED", "DISCONNECTING"})
    /\ state_' = [state_ EXCEPT ![c] = "DISCONNECTED"]
    /\ CareNothing(c)
    /\ downs' = [downs EXCEPT ![c] = @ + 1]
    /\ UserMayKeep(c)
    /\ DeleteEvent(c)

\* Faulty variant of RemoveInLoop: looks the name up and does not erase it.
RemoveInLoopFind(c, pend) ==
    /\ aborted' = (c \notin connections_)
    /\ pending' = Queued(pend, io[c], Functor("destroyed", c))
    /\ UNCHANGED connections_

\* RemoveConnectionInLoop, with pend the queues its caller leaves.
RemoveInLoop(c, pend) ==
    /\ aborted' = (c \notin connections_)
    /\ connections_' = connections_ \ {c}
    /\ pending' = Queued(pend, io[c], Functor("destroyed", c))

-----------------------------------------------------------------------------
(***************************************************************************)
(* The base loop accepts: NewConnection.                                   *)
(***************************************************************************)
NewConnection ==
    /\ ~aborted
    /\ started_
    /\ InSelect(Base)
    /\ conn_id_ < MaxConns
    /\ LET c == conn_id_ + 1
           l == NextDispatcher
       IN /\ conn_id_' = c
          /\ next_' = IF num_threads_ = 0 THEN next_ ELSE AdvanceNext
          /\ io' = [io EXCEPT ![c] = l]
          /\ connections_' = connections_ \cup {c}
          /\ AddEvent(c)
          /\ \/ /\ l = Base             \* RunInLoop on the own thread: inline
                /\ Established(c)
                /\ UNCHANGED pending
             \/ /\ l # Base
                /\ state_' = [state_ EXCEPT ![c] = "CONNECTING"]
                /\ pending' = Queued(pending, l, Functor("established", c))
                /\ UNCHANGED <<caring, ups, userRef>>
    /\ UNCHANGED <<num_threads_, started_, peer, batch, pos, call, calls, downs,
                   usedDead, aborted>>

-----------------------------------------------------------------------------
(***************************************************************************)
(* Event handlers of a connection, on its loop.                            *)
(***************************************************************************)
Event(c) == ~aborted /\ c \in registered /\ InSelect(io[c])

\* HandleRead with data: the user's message callback, which may keep the
\* pointer and may call ShutDown on the loop's own thread.
HandleMessage(c) ==
    /\ Event(c)
    /\ c \in caring
    /\ peer[c] = "open"
    /\ UserMayKeep(c)
    /\ UserMayShutDown(c, state_[c])
    /\ UNCHANGED <<poolVars, conn_id_, connections_, io, caring, registered,
                   peer, loopVars, call, calls, traceVars, aborted>>

\* HandleRead with an error: HandleError only logs it; the next read of the
\* reset socket gives 0.
HandleError(c) ==
    /\ Event(c)
    /\ c \in caring
    /\ peer[c] = "reset"
    /\ peer' = [peer EXCEPT ![c] = "eof"]
    /\ UNCHANGED <<poolVars, conn_id_, connVars, loopVars, userVars, traceVars,
                   aborted>>

\* Faulty variant of StopCaring: HandleClose goes on watching the socket.
StopCaringNot(c) == UNCHANGED caring

\* set_stop_care_all in HandleClose.
StopCaring(c) == CareNothing(c)

\* HandleRead with 0: HandleClose, and through close_call_back_
\* TcpServer::RemoveConnection.
HandleClose(c) ==
    /\ Event(c)
    /\ c \in caring
    /\ peer[c] = "eof"
    /\ IF state_[c] \notin {"CONNECTED", "DISCONNECTING"}
       THEN aborted' = TRUE /\ UNCHANGED <<caring, connections_, pending>>
       ELSE /\ StopCaring(c)
            /\ \/ io[c] = Base /\ RemoveInLoop(c, pending)
               \/ /\ io[c] # Base
                  /\ pending' = Queued(pending, Base, Functor("remove", c))
                  /\ UNCHANGED <<connections_, aborted>>
    /\ UNCHANGED <<poolVars, conn_id_, io, state_, registered, peer, batch, pos,
                   userVars, traceVars>>

\* The peer ends the connection, in an orderly way or not.
PeerCloses(c) ==
    /\ state_[c] # "none"
    /\ peer[c] = "open"
    /\ \E how \in {"reset", "eof"} : peer' = [peer EXCEPT ![c] = how]
    /\ UNCHANGED <<poolVars, conn_id_, connVars, loopVars, userVars, traceVars,
                   aborted>>

-----------------------------------------------------------------------------
(***************************************************************************)
(* ExecutePendingFuncs of a loop.                                          *)
(***************************************************************************)
SwapPending(l) ==
    /\ ~aborted
    /\ InSelect(l)
    /\ pending[l] # <<>>
    /\ batch' = [batch EXCEPT ![l] = pending[l]]
    /\ pending' = [pending EXCEPT ![l] = <<>>]
    /\ pos' = [pos EXCEPT ![l] = 0]
    /\ UNCHANGED <<poolVars, conn_id_, connVars, peer, userVars, traceVars,
                   aborted>>

\* The next functor of the vector.
Running(l, kind) ==
    /\ ~aborted
    /\ pos[l] < Len(batch[l])
    /\ batch[l][pos[l] + 1].kind = kind
    /\ pos' = [pos EXCEPT ![l] = @ + 1]

Arg(l) == batch[l][pos[l] + 1].conn

RunEstablished(l) ==
    /\ Running(l, "established")
    /\ aborted' = (state_[Arg(l)] # "CONNECTING")
    /\ Established(Arg(l))
    /\ UNCHANGED <<poolVars, conn_id_, connections_, io, registered, peer,
                   pending, batch, call, calls, downs, usedDead>>

RunRemove(l) ==
    /\ Running(l, "remove")
    /\ RemoveInLoop(Arg(l), pending)
    /\ UNCHANGED <<poolVars, conn_id_, io, state_, caring, registered, peer,
                   batch, userVars, traceVars>>

RunDestroyed(l) ==
    /\ Running(l, "destroyed")
    /\ Destroyed(Arg(l))
    /\ UNCHANGED <<poolVars, conn_id_, connections_, io, peer, pending, batch,
                   call, calls, ups, usedDead>>

\* SendInLoop or ShutDownInLoop through a raw this.
RunRaw(l) ==
    /\ Running(l, "send") \/ Running(l, "shutdown")
    /\ usedDead' = (usedDead \/ ~Alive(Arg(l)))
    /\ UNCHANGED <<poolVars, conn_id_, connVars, peer, pending, batch, userVars,
                   ups, downs, aborted>>

\* local_pending_funcs goes out of scope, and with it the shared_ptrs.
ExecuteReturns(l) ==
    /\ ~aborted
    /\ batch[l] # <<>>
    /\ pos[l] = Len(batch[l])
    /\ batch' = [batch EXCEPT ![l] = <<>>]
    /\ pos' = [pos EXCEPT ![l] = 0]
    /\ UNCHANGED <<poolVars, conn_id_, connVars, peer, pending, userVars,
                   traceVars, aborted>>

-----------------------------------------------------------------------------
(***************************************************************************)
(* User threads: Send and ShutDown on a connection they hold.  state_ is   *)
(* tested, and later set, without any lock.                                *)
(***************************************************************************)
UserCall(kind, c) ==
    /\ ~aborted
    /\ call[kind] = 0
    /\ calls < MaxCalls
    /\ c \in userRef
    /\ state_[c] = "CONNECTED"
    /\ call' = [call EXCEPT ![kind] = c]
    /\ calls' = calls + 1
    /\ UNCHANGED <<poolVars, conn_id_, connVars, peer, loopVars, userRef,
                   traceVars, aborted>>

\* The rest of the call: ShutDown stores state_, both go to the loop.
UserSubmit(kind) ==
    /\ ~aborted
    /\ call[kind] # 0
    /\ LET c == call[kind]
       IN /\ state_' = IF kind = "shutdown"
                       THEN [state_ EXCEPT ![c] = "DISCONNECTING"] ELSE state_
          /\ pending' = Queued(pending, io[c], Functor(kind, c))
    /\ call' = [call EXCEPT ![kind] = 0]
    /\ UNCHANGED <<poolVars, conn_id_, connections_, io, caring, registered,
                   peer, batch, pos, userRef, calls, traceVars, aborted>>

\* The user lets go of a TcpConnectionPtr it is not using.
UserDrops(c) ==
    /\ ~aborted
    /\ c \in userRef
    /\ \A k \in DOMAIN call : call[k] # c
    /\ userRef' = userRef \ {c}
    /\ UNCHANGED <<poolVars, conn_id_, connVars, peer, loopVars, call, calls,
                   traceVars, aborted>>

LoopStep(l) ==
    \/ SwapPending(l)
    \/ RunEstablished(l) \/ RunRemove(l) \/ RunDestroyed(l) \/ RunRaw(l)
    \/ ExecuteReturns(l)

UserStep ==
    \/ \E kind \in DOMAIN call :
         \/ \E c \in Conns : UserCall(kind, c)
         \/ UserSubmit(kind)
    \/ \E c \in Conns : UserDrops(c)

ServerNext ==
    \/ \E n \in 0..MaxThreads : SetThreadNum(n)
    \/ Start
    \/ NewConnection
    \/ \E c \in Conns : \/ HandleMessage(c) \/ HandleError(c) \/ HandleClose(c)
                        \/ PeerCloses(c)
    \/ \E l \in Loops : LoopStep(l)
    \/ UserStep

\* Every loop keeps turning and serves the sockets it watches (module
\* Dispatcher), a call that was begun is finished, and the user does not keep
\* the pointer of a destroyed connection for ever.
ServerFairness ==
    /\ \A l \in Loops : WF_serverVars(LoopStep(l))
    /\ \A c \in Conns : SF_serverVars(HandleError(c) \/ HandleClose(c))
    /\ \A k \in {"send", "shutdown"} : WF_serverVars(UserSubmit(k))
    /\ \A c \in Conns :
        SF_serverVars(downs[c] > 0 /\ UserDrops(c))

ServerSpec == ServerInit /\ [][ServerNext]_serverVars
FairServerSpec == ServerSpec /\ ServerFairness

-----------------------------------------------------------------------------
\* The asserts of the life cycle hold: a connection is established once, from
\* CONNECTING; it is erased from the server's map exactly once although its
\* loop, the base loop and users run concurrently; and it is destroyed only
\* after it was established.
NoAssertFails == ~aborted

\* epoll never holds the EventHandler of a freed connection: the functor of
\* set_connection_destroyed keeps the object until it is out of the epoll set.
RegisteredIsAlive == \A c \in registered : Alive(c)

\* The user's connection callback is called once when the connection comes
\* up and once, afterwards, when it is gone; reads are watched only between
\* the two, and after the second one the loop reports nothing more for it.
CallbacksPaired ==
    \A c \in Conns : /\ downs[c] <= ups[c]
                     /\ ups[c] <= 1
                     /\ c \in caring => ups[c] = 1
                     /\ c \in registered => downs[c] = 0

\* A connection its peer has ended is freed, after hops over its loop, the
\* base loop and its loop again, when the user does not hold on to it.
ConnectionFreed ==
    \A c \in Conns : (peer[c] = "eof") ~> ~Alive(c)

\* Send "is thread safe" (tcpconnection.cc:62): what it hands to the loop
\* does not run on a connection that was freed meanwhile.
NoUseAfterFree == ~usedDead
=============================================================================
