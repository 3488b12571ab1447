------------------------------ MODULE Acceptor ------------------------------
(***************************************************************************)
(* The Acceptor and its listening Socket (net/acceptor.cc, net/socket.cc)  *)
(* over the process's table of descriptors, which other threads and the    *)
(* ends of connections change at any time.  The acceptor keeps a spare     *)
(* descriptor, idle_fd_: when the table is full it gives the spare up to   *)
(* accept a client and close it at once.                                   *)
(***************************************************************************)
EXTENDS Naturals, Sequences, FiniteSetsExt, SequencesExt

CONSTANTS
    Clients,
    MaxFds,    \* RLIMIT_NOFILE: descriptors are 1..MaxFds here, 0 is stdin
    MaxOthers  \* bound on the descriptors other threads hold at a time

ASSUME AcceptorAssumption == MaxFds \in Nat \ {0} /\ MaxOthers \in Nat

\* Who has a descriptor that is not a client's connection, and "free".
Owners == {"free", "server", "spare", "refused", "other"}

ASSUME ClientsAssumption == Clients \cap Owners = {}

Fds == 1..MaxFds
NoFd == 0   \* the -1 of a call that failed

VARIABLES
    table,      \* who opened each descriptor, or "free"
    backlog,    \* clients in the kernel's queue of the listening socket
    outcome,    \* what became of each client
    hasCallback,\* newConnectionCallback_ is set
    idle_fd_,
    listenning_,
    pc,         \* where the acceptor is
    raced       \* history: another thread took a descriptor while the spare was
                \* given up, or there was none left for the spare at the start;
                \* until the spare is open again

acceptorVars == <<table, backlog, outcome, hasCallback, idle_fd_, listenning_,
                  pc, raced>>

Free == {f \in Fds : table[f] = "free"}
FdsOf(owner) == {f \in Fds : table[f] = owner}

AcceptorInit ==
    /\ \E used \in SUBSET Fds :
        /\ Cardinality(used) <= MaxOthers
        /\ table = [f \in Fds |-> IF f \in used THEN "other" ELSE "free"]
    /\ backlog = <<>>
    /\ outcome = [c \in Clients |-> "away"]
    /\ hasCallback \in BOOLEAN
    /\ idle_fd_ = NoFd
    /\ listenning_ = FALSE
    /\ pc = "socket"
    /\ raced = FALSE

-----------------------------------------------------------------------------
(***************************************************************************)
(* The kernel: the lowest free number is given, closing frees it.          *)
(***************************************************************************)
Opened(owner) == IF Free = {} THEN table ELSE [table EXCEPT ![Min(Free)] = owner]
OpenedFd == IF Free = {} THEN NoFd ELSE Min(Free)
Closed(fd) == IF fd = NoFd THEN table ELSE [table EXCEPT ![fd] = "free"]

(***************************************************************************)
(* Constructor and Listen().                                               *)
(***************************************************************************)
\* CreateServerSocket() aborts when there is no descriptor.
CreateServerSocket ==
    /\ pc = "socket"
    /\ table' = Opened("server")
    /\ pc' = IF Free = {} THEN "aborted" ELSE "spare"
    /\ UNCHANGED <<backlog, outcome, hasCallback, idle_fd_, listenning_, raced>>

\* The result of open() is not looked at.
OpenIdleFd ==
    /\ pc = "spare"
    /\ table' = Opened("spare")
    /\ idle_fd_' = OpenedFd
    /\ raced' = (Free = {})
    /\ pc' = "reuse"
    /\ UNCHANGED <<backlog, outcome, hasCallback, listenning_>>

\* A failure of this option aborts; the results of the two set before it are
\* not looked at.
EnableReusePort ==
    /\ pc = "reuse"
    /\ pc' \in {"bind", "aborted"}
    /\ UNCHANGED <<table, backlog, outcome, hasCallback, idle_fd_, listenning_,
                   raced>>

Bind ==
    /\ pc = "bind"
    /\ pc' \in {"built", "aborted"}
    /\ UNCHANGED <<table, backlog, outcome, hasCallback, idle_fd_, listenning_,
                   raced>>

\* Socket::Listen aborts when listen() fails.
SocketListen == pc' \in {"idle", "aborted"}

Listen ==
    /\ pc = "built"
    /\ listenning_' = TRUE
    /\ SocketListen
    /\ UNCHANGED <<table, backlog, outcome, hasCallback, idle_fd_, raced>>

-----------------------------------------------------------------------------
(***************************************************************************)
(* EventHandlerCallBack(), called while the listening socket is readable.  *)
(***************************************************************************)
Readable ==
    /\ pc = "idle" /\ backlog # <<>>
    /\ pc' = "accept"
    /\ UNCHANGED <<table, backlog, outcome, hasCallback, idle_fd_, listenning_,
                   raced>>

\* Socket::Accept returns a descriptor, for NewConnection() to own.
AcceptClient ==
    /\ pc = "accept" /\ Free # {} /\ backlog # <<>>
    /\ backlog' = Tail(backlog)
    /\ IF hasCallback
       THEN /\ table' = Opened(Head(backlog))
            /\ outcome' = [outcome EXCEPT ![Head(backlog)] = "served"]
       ELSE /\ outcome' = [outcome EXCEPT ![Head(backlog)] = "refused"]
            /\ UNCHANGED table
    /\ UNCHANGED <<hasCallback, idle_fd_, listenning_, pc, raced>>

\* EAGAIN: every client was accepted.  The table is looked at before the
\* queue, so it is not full here.
AcceptNone ==
    /\ pc = "accept" /\ Free # {} /\ backlog = <<>>
    /\ pc' = "idle"
    /\ UNCHANGED <<table, backlog, outcome, hasCallback, idle_fd_, listenning_,
                   raced>>

\* EINTR or EPERM; the socket stays readable.
AcceptInterrupted ==
    /\ pc = "accept" /\ Free # {}
    /\ pc' = "idle"
    /\ UNCHANGED <<table, backlog, outcome, hasCallback, idle_fd_, listenning_,
                   raced>>

\* ENFILE, ENOMEM, ECONNABORTED and every other errno: abort().
AcceptFatal ==
    /\ pc = "accept" /\ Free # {}
    /\ pc' = "aborted"
    /\ UNCHANGED <<table, backlog, outcome, hasCallback, idle_fd_, listenning_,
                   raced>>

\* Faulty variant of AcceptEmfile: the callback gives up.
AcceptEmfileIgnored ==
    /\ pc = "accept" /\ Free = {}
    /\ pc' = "idle"
    /\ UNCHANGED <<table, backlog, outcome, hasCallback, idle_fd_, listenning_,
                   raced>>

\* EMFILE: close(idle_fd_).
AcceptEmfile ==
    /\ pc = "accept" /\ Free = {}
    /\ table' = Closed(idle_fd_)
    /\ pc' = "refuse"
    /\ UNCHANGED <<backlog, outcome, hasCallback, idle_fd_, listenning_, raced>>

\* Faulty variant of RefuseClient: the accepted descriptor is not kept in
\* idle_fd_.
RefuseClientUnnamed ==
    /\ pc = "refuse"
    /\ IF Free # {} /\ backlog # <<>>
       THEN /\ table' = Opened("refused")
            /\ backlog' = Tail(backlog)
            /\ outcome' = [outcome EXCEPT ![Head(backlog)] = "refused"]
       ELSE UNCHANGED <<table, backlog, outcome>>
    /\ pc' = "hangup"
    /\ UNCHANGED <<hasCallback, idle_fd_, listenning_, raced>>

\* idle_fd_ = accept(...): it fails when another thread was faster, or when
\* there is no client after all.
RefuseClient ==
    /\ pc = "refuse"
    /\ IF Free # {} /\ backlog # <<>>
       THEN /\ table' = Opened("refused")
            /\ idle_fd_' = OpenedFd
            /\ backlog' = Tail(backlog)
            /\ outcome' = [outcome EXCEPT ![Head(backlog)] = "refused"]
       ELSE /\ idle_fd_' = NoFd
            /\ UNCHANGED <<table, backlog, outcome>>
    /\ pc' = "hangup"
    /\ UNCHANGED <<hasCallback, listenning_, raced>>

\* close(idle_fd_)
HangUp ==
    /\ pc = "hangup"
    /\ table' = Closed(idle_fd_)
    /\ pc' = "reopen"
    /\ UNCHANGED <<backlog, outcome, hasCallback, idle_fd_, listenning_, raced>>

\* Faulty variant of ReopenIdleFd: left out.
ReopenNothing ==
    /\ pc = "reopen"
    /\ pc' = "idle"
    /\ UNCHANGED <<table, backlog, outcome, hasCallback, idle_fd_, listenning_,
                   raced>>

\* idle_fd_ = open("/dev/null", ...)
ReopenIdleFd ==
    /\ pc = "reopen"
    /\ table' = Opened("spare")
    /\ idle_fd_' = OpenedFd
    /\ raced' = (raced /\ OpenedFd = NoFd)
    /\ pc' = "idle"
    /\ UNCHANGED <<backlog, outcome, hasCallback, listenning_>>

\* ~Acceptor(), then ~Socket() of the listening socket; the kernel resets the
\* clients it still holds.
Destroy ==
    /\ pc \in {"built", "idle"}
    /\ table' = [f \in Fds |-> IF f = idle_fd_ \/ table[f] = "server"
                               THEN "free" ELSE table[f]]
    /\ outcome' = [c \in Clients |->
                     IF c \in ToSet(backlog) THEN "refused" ELSE outcome[c]]
    /\ backlog' = <<>>
    /\ listenning_' = FALSE
    /\ pc' = "destroyed"
    /\ UNCHANGED <<hasCallback, idle_fd_, raced>>

-----------------------------------------------------------------------------
(***************************************************************************)
(* The others.                                                             *)
(***************************************************************************)
ClientConnects(c) ==
    /\ listenning_ /\ pc # "aborted"
    /\ outcome[c] = "away" /\ c \notin ToSet(backlog)
    /\ backlog' = Append(backlog, c)
    /\ UNCHANGED <<table, outcome, hasCallback, idle_fd_, listenning_, pc, raced>>

\* ~Socket() of a connection that is over, on the thread that drops it last.
ConnectionEnds(c) ==
    /\ outcome[c] = "served" /\ pc # "aborted"
    /\ outcome' = [outcome EXCEPT ![c] = "ended"]
    /\ table' = [f \in Fds |-> IF table[f] = c THEN "free" ELSE table[f]]
    /\ UNCHANGED <<backlog, hasCallback, idle_fd_, listenning_, pc, raced>>

GivenUp == pc \in {"refuse", "hangup", "reopen"}

\* Another thread opens a file or an epoll set.
OtherOpens ==
    /\ Free # {} /\ pc # "aborted"
    /\ Cardinality(FdsOf("other")) < MaxOthers
    /\ table' = Opened("other")
    /\ raced' = (raced \/ GivenUp)
    /\ UNCHANGED <<backlog, outcome, hasCallback, idle_fd_, listenning_, pc>>

OtherCloses ==
    /\ pc # "aborted"
    /\ \E f \in FdsOf("other") : table' = [table EXCEPT ![f] = "free"]
    /\ UNCHANGED <<backlog, outcome, hasCallback, idle_fd_, listenning_, pc, raced>>

AcceptorStep ==
    \/ CreateServerSocket \/ OpenIdleFd \/ EnableReusePort \/ Bind \/ Listen
    \/ Readable \/ AcceptClient \/ AcceptNone \/ AcceptEmfile \/ RefuseClient
    \/ HangUp \/ ReopenIdleFd

AcceptorNext ==
    \/ AcceptorStep
    \/ AcceptInterrupted \/ AcceptFatal \/ Destroy
    \/ \E c \in Clients : ClientConnects(c) \/ ConnectionEnds(c)
    \/ OtherOpens \/ OtherCloses

\* The loop thread runs, and accept() is not interrupted each time.
AcceptorFairness ==
    /\ WF_acceptorVars(AcceptorStep)
    /\ SF_acceptorVars(AcceptClient) /\ SF_acceptorVars(AcceptEmfile)

AcceptorSpec == AcceptorInit /\ [][AcceptorNext]_acceptorVars /\ AcceptorFairness

-----------------------------------------------------------------------------
\* Types; every client that is served has one descriptor, no other has one.
DescriptorTypes ==
    /\ table \in [Fds -> Owners \cup Clients]
    /\ outcome \in [Clients -> {"away", "served", "ended", "refused"}]
    /\ backlog \in Seq(Clients)
    /\ idle_fd_ \in Fds \cup {NoFd}
    /\ pc \in {"socket", "spare", "reuse", "bind", "built", "idle", "accept", "refuse",
               "hangup", "reopen", "destroyed", "aborted"}
    /\ \A c \in Clients :
        Cardinality(FdsOf(c)) = IF outcome[c] = "served" THEN 1 ELSE 0

\* Between callbacks the acceptor holds its spare descriptor, unless another
\* thread took the number while the spare was given up; and it never leaks
\* one: what it opened is in idle_fd_ or the listening socket.
SpareHeld ==
    /\ pc \in {"reuse", "bind", "built", "idle", "accept"} =>
        /\ FdsOf("spare") = {idle_fd_} \ {NoFd}
        /\ FdsOf("refused") = {}
        /\ Cardinality(FdsOf("server")) = 1
        /\ idle_fd_ = NoFd => raced
    /\ pc = "destroyed" => FdsOf("spare") \cup FdsOf("server") = {}

\* Types, and the acceptor and the connections hold the descriptors they own
\* and no more, also around the refusal of a client on a full table.
AcceptorTypeOK == DescriptorTypes /\ SpareHeld

\* The acceptor never closes a descriptor of someone else: a connection's goes
\* only when the connection ends, another thread's only when that thread
\* closes it, even when numbers are reused between its close() and accept().
OnlyOwnClosed ==
    [][\A f \in Fds :
        table'[f] # table[f] =>
            /\ table[f] \in Clients => outcome'[table[f]] = "ended"
            /\ table[f] = "other" => pc' = pc]_acceptorVars

\* Every client in the queue is accepted, or accepted and closed when the
\* descriptors are used up; only a spare that other threads take can leave it
\* waiting.
ClientsAnswered ==
    \A c \in Clients :
        c \in ToSet(backlog)
            ~> (c \notin ToSet(backlog) \/ raced \/ pc = "aborted")
=============================================================================
