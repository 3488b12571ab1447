--------------------------- MODULE AcceptorProofs ---------------------------
(***************************************************************************)
(* Proofs about the acceptor for any number of clients and descriptors.    *)
(* Which descriptors the acceptor holds depends on where it is in its      *)
(* callback: the inductive invariant says so for every place.              *)
(***************************************************************************)
EXTENDS Acceptor, DataLemmas

\* The types, without the numbers of descriptors.
Types ==
    /\ table \in [Fds -> Owners \cup Clients]
    /\ outcome \in [Clients -> {"away", "served", "ended", "refused"}]
    /\ backlog \in Seq(Clients)
    /\ idle_fd_ \in Fds \cup {NoFd}
    /\ pc \in {"socket", "spare", "reuse", "bind", "built", "idle", "accept", "refuse",
               "hangup", "reopen", "destroyed", "aborted"}

\* Exactly one descriptor belongs to owner.
Single(owner) == \E f \in Fds : FdsOf(owner) = {f}

\* The places where idle_fd_ is the spare descriptor.
Settled == {"reuse", "bind", "built", "idle", "accept"}

\* The spare descriptor, the one of a refused client and the listening
\* socket.  While the spare is given up its number may be anybody's.
HoldInv ==
    /\ pc \in Settled => FdsOf("spare") = {idle_fd_} \ {NoFd}
    /\ pc \notin Settled \cup {"aborted"} => FdsOf("spare") = {}
    /\ pc = "hangup" => FdsOf("refused") = {idle_fd_} \ {NoFd}
    /\ pc \notin {"hangup", "aborted"} => FdsOf("refused") = {}
    /\ pc \in {"socket", "destroyed"} => FdsOf("server") = {}
    /\ pc \notin {"socket", "destroyed", "aborted"} => Single("server")

\* There is a number for the spare to come back to, unless another thread
\* took it.
RacedInv ==
    /\ pc \in Settled /\ idle_fd_ = NoFd => raced
    /\ pc \in {"refuse", "reopen"} /\ Free = {} => raced
    /\ pc = "hangup" /\ Free = {} /\ idle_fd_ = NoFd => raced

\* A client has a descriptor exactly while it is served.
ServedInv ==
    \A c \in Clients : IF outcome[c] = "served" THEN Single(c) ELSE FdsOf(c) = {}

\* The clients in the queue are different, and nothing became of them yet.
QueueInv ==
    /\ \A i \in 1..Len(backlog) : outcome[backlog[i]] = "away"
    /\ \A i, j \in 1..Len(backlog) : backlog[i] = backlog[j] => i = j

AInv == Types /\ HoldInv /\ RacedInv /\ ServedInv /\ QueueInv

-----------------------------------------------------------------------------
(***************************************************************************)
(* The descriptor table.                                                   *)
(***************************************************************************)
\* open(), accept() and socket() take a number that was free and change the
\* descriptors of their caller only.
LEMMA OpenEffect ==
    ASSUME Types, NEW o \in Owners \cup Clients, o # "free", Free # {},
           table' = Opened(o)
    PROVE  /\ OpenedFd \in Fds /\ table[OpenedFd] = "free"
           /\ table' = [table EXCEPT ![OpenedFd] = o]
           /\ table' \in [Fds -> Owners \cup Clients]
           /\ FdsOf(o)' = FdsOf(o) \cup {OpenedFd}
           /\ \A x : x # "free" /\ x # o => FdsOf(x)' = FdsOf(x)
<1>1. Free \subseteq Nat
  BY AcceptorAssumption DEF Free, Fds
<1>2. OpenedFd \in Free /\ table' = [table EXCEPT ![OpenedFd] = o]
  BY <1>1, MinOfNats DEF OpenedFd, Opened
<1>3. OpenedFd \in Fds /\ table[OpenedFd] = "free"
  BY <1>2 DEF Free
<1> HIDE DEF OpenedFd
<1> QED
  BY <1>2, <1>3 DEF Types, FdsOf

\* close() frees the number and takes it from its owner only.
LEMMA CloseEffect ==
    ASSUME Types, NEW fd \in Fds, table' = [table EXCEPT ![fd] = "free"]
    PROVE  /\ table' \in [Fds -> Owners \cup Clients]
           /\ \A x : x # "free" => FdsOf(x)' = FdsOf(x) \ {fd}
           /\ Free' = Free \cup {fd}
  BY DEF Types, FdsOf, Free, Owners

\* A failed open() is NoFd, which is no descriptor.
LEMMA NoFdNotFd == NoFd \notin Fds /\ (Free = {} <=> OpenedFd = NoFd)
<1>1. NoFd \notin Fds
  BY AcceptorAssumption DEF NoFd, Fds
<1>2. Free \subseteq Nat /\ Free \subseteq Fds
  BY AcceptorAssumption DEF Free, Fds
<1>3. Free # {} => OpenedFd \in Fds
  BY <1>2, MinOfNats DEF OpenedFd
<1> QED
  BY <1>1, <1>3 DEF OpenedFd

\* Clients are none of the owners, and the owners differ.
LEMMA OwnersApart == \A c \in Clients : c \notin Owners
  BY ClientsAssumption

-----------------------------------------------------------------------------
\* The state before the constructor satisfies the invariant.
LEMMA InitAInv == AcceptorInit => AInv
<1> SUFFICES ASSUME AcceptorInit PROVE AInv
  OBVIOUS
<1>1. \A f \in Fds : table[f] \in {"other", "free"}
  BY DEF AcceptorInit
<1>2. Types
  BY <1>1 DEF AcceptorInit, Types, Owners
<1>3. FdsOf("spare") = {} /\ FdsOf("refused") = {} /\ FdsOf("server") = {}
  BY <1>1 DEF FdsOf
<1>4. \A c \in Clients : FdsOf(c) = {}
  BY <1>1, OwnersApart DEF FdsOf, Owners
<1>5. HoldInv /\ RacedInv
  BY <1>3 DEF AcceptorInit, HoldInv, RacedInv, Settled
<1>6. ServedInv /\ QueueInv
  BY <1>4 DEF AcceptorInit, ServedInv, QueueInv
<1> QED
  BY <1>2, <1>5, <1>6 DEF AInv

\* Constructor, Listen() and the steps that leave the table alone.
LEMMA ConstructorAInv ==
    ASSUME AInv, CreateServerSocket \/ OpenIdleFd
    PROVE  AInv'
<1> USE DEF AInv
<1>1. CASE CreateServerSocket /\ Free = {}
  <2>1. table' = table /\ pc' = "aborted"
    BY <1>1 DEF CreateServerSocket, Opened
  <2> QED
    BY <1>1, <2>1 DEF CreateServerSocket, Types, HoldInv, RacedInv, ServedInv,
                      QueueInv, Settled, FdsOf, Single
<1>2. CASE CreateServerSocket /\ Free # {}
  <2>1. /\ table' = Opened("server") /\ pc = "socket" /\ pc' = "spare"
        /\ UNCHANGED <<backlog, outcome, idle_fd_, raced>>
    BY <1>2 DEF CreateServerSocket
  <2>2. /\ OpenedFd \in Fds /\ table' \in [Fds -> Owners \cup Clients]
        /\ FdsOf("server")' = FdsOf("server") \cup {OpenedFd}
        /\ \A x : x # "free" /\ x # "server" => FdsOf(x)' = FdsOf(x)
    BY <1>2, <2>1, OpenEffect DEF Owners
  <2>3. HoldInv' /\ RacedInv'
    BY <2>1, <2>2 DEF HoldInv, RacedInv, Settled, Single
  <2>4. ServedInv'
    BY <2>1, <2>2, OwnersApart DEF ServedInv, Owners, Single
  <2> QED
    BY <2>1, <2>2, <2>3, <2>4 DEF Types, QueueInv
<1>3. CASE OpenIdleFd /\ Free = {}
  <2>1. /\ table' = table /\ pc = "spare" /\ pc' = "reuse" /\ idle_fd_' = NoFd
        /\ raced' = TRUE /\ UNCHANGED <<backlog, outcome>>
    BY <1>3 DEF OpenIdleFd, Opened, OpenedFd
  <2>2. FdsOf("spare")' = {idle_fd_'} \ {NoFd}
    BY <2>1 DEF HoldInv, Settled, FdsOf
  <2> QED
    BY <2>1, <2>2 DEF Types, HoldInv, RacedInv, ServedInv, QueueInv, Settled,
                      FdsOf, Single
<1>4. CASE OpenIdleFd /\ Free # {}
  <2>1. /\ table' = Opened("spare") /\ pc = "spare" /\ pc' = "reuse"
        /\ idle_fd_' = OpenedFd /\ UNCHANGED <<backlog, outcome>>
    BY <1>4 DEF OpenIdleFd
  <2>2. /\ OpenedFd \in Fds /\ table' \in [Fds -> Owners \cup Clients]
        /\ FdsOf("spare")' = FdsOf("spare") \cup {OpenedFd}
        /\ \A x : x # "free" /\ x # "spare" => FdsOf(x)' = FdsOf(x)
    BY <1>4, <2>1, OpenEffect DEF Owners
  <2>3. HoldInv' /\ RacedInv'
    BY <1>4, <2>1, <2>2, NoFdNotFd DEF HoldInv, RacedInv, Settled, Single
  <2>4. ServedInv'
    BY <2>1, <2>2, OwnersApart DEF ServedInv, Owners, Single
  <2> QED
    BY <2>1, <2>2, <2>3, <2>4 DEF Types, QueueInv
<1> QED
  BY <1>1, <1>2, <1>3, <1>4

\* The steps that change no descriptor and no client.
LEMMA QuietAInv ==
    ASSUME AInv,
           \/ EnableReusePort \/ Bind \/ Listen \/ Readable \/ AcceptNone
           \/ AcceptInterrupted \/ AcceptFatal
    PROVE  AInv'
<1>1. /\ UNCHANGED <<table, backlog, outcome, idle_fd_, raced>>
      /\ pc \in Settled /\ pc' \in Settled \cup {"aborted"}
  BY DEF EnableReusePort, Bind, Listen, SocketListen, Readable, AcceptNone,
         AcceptInterrupted, AcceptFatal, Settled
<1> QED
  BY <1>1 DEF AInv, Types, HoldInv, RacedInv, ServedInv, QueueInv, Settled, FdsOf,
              Single, Free

\* A client leaves the queue at its head.
LEMMA HeadLeaves ==
    ASSUME AInv, backlog # <<>>, NEW fate \in {"served", "refused"},
           backlog' = Tail(backlog),
           outcome' = [outcome EXCEPT ![Head(backlog)] = fate]
    PROVE  /\ Head(backlog) \in Clients /\ outcome[Head(backlog)] = "away"
           /\ backlog' \in Seq(Clients)
           /\ outcome' \in [Clients -> {"away", "served", "ended", "refused"}]
           /\ QueueInv'
<1> USE DEF AInv, Types
<1>1. /\ Head(backlog) = backlog[1] /\ backlog[1] \in Clients
      /\ Len(backlog') = Len(backlog) - 1 /\ Len(backlog) \in Nat /\ Len(backlog) > 0
      /\ backlog' \in Seq(Clients)
      /\ \A i \in 1..Len(backlog') : backlog'[i] = backlog[i + 1]
  OBVIOUS
<1>2. outcome[backlog[1]] = "away"
  BY <1>1 DEF QueueInv
<1>3. ASSUME NEW i \in 1..Len(backlog')
      PROVE  outcome'[backlog'[i]] = "away"
  <2>1. i + 1 \in 1..Len(backlog) /\ i + 1 # 1 /\ 1 \in 1..Len(backlog)
    BY <1>1
  <2>2. backlog[i + 1] # backlog[1] /\ backlog[i + 1] \in Clients
    BY <2>1 DEF QueueInv
  <2> QED
    BY <1>1, <2>1, <2>2 DEF QueueInv
<1>4. ASSUME NEW i \in 1..Len(backlog'), NEW j \in 1..Len(backlog'),
             backlog'[i] = backlog'[j]
      PROVE  i = j
  <2>1. i + 1 \in 1..Len(backlog) /\ j + 1 \in 1..Len(backlog)
    BY <1>1
  <2>2. i + 1 = j + 1
    BY <1>1, <1>4, <2>1 DEF QueueInv
  <2> QED
    BY <2>2
<1> QED
  BY <1>1, <1>2, <1>3, <1>4 DEF QueueInv

\* accept() while there is a free descriptor.
LEMMA AcceptAInv ==
    ASSUME AInv, AcceptClient
    PROVE  AInv'
<1>1. /\ pc = "accept" /\ pc' = pc /\ Free # {} /\ backlog # <<>>
      /\ backlog' = Tail(backlog) /\ UNCHANGED <<idle_fd_, raced>>
  BY DEF AcceptClient
<1>0. PICK c \in Clients : c = Head(backlog)
  BY <1>1 DEF AInv, Types
<1>2. CASE hasCallback
  <2>1. table' = Opened(c) /\ outcome' = [outcome EXCEPT ![c] = "served"]
    BY <1>0, <1>2 DEF AcceptClient
  <2>2. /\ c \in Clients /\ outcome[c] = "away" /\ backlog' \in Seq(Clients)
        /\ outcome' \in [Clients -> {"away", "served", "ended", "refused"}]
        /\ QueueInv'
    BY <1>0, <1>1, <2>1, HeadLeaves
  <2>3. c \notin Owners /\ c # "free" /\ c \in Owners \cup Clients
    BY <2>2, OwnersApart DEF Owners
  <2>4. /\ OpenedFd \in Fds /\ table' \in [Fds -> Owners \cup Clients]
        /\ FdsOf(c)' = FdsOf(c) \cup {OpenedFd}
        /\ \A x : x # "free" /\ x # c => FdsOf(x)' = FdsOf(x)
    BY <1>1, <2>1, <2>3, OpenEffect DEF AInv
  <2>5. HoldInv'
    BY <1>1, <2>3, <2>4 DEF AInv, HoldInv, Settled, Single, Owners
  <2>6. RacedInv'
    BY <1>1 DEF AInv, RacedInv, Settled
  <2>7. ServedInv'
    <3> SUFFICES ASSUME NEW d \in Clients
                 PROVE  IF outcome'[d] = "served" THEN Single(d)' ELSE FdsOf(d)' = {}
      BY DEF ServedInv
    <3>1. CASE d = c
      <4>1. FdsOf(c) = {}
        BY <2>2 DEF AInv, ServedInv
      <4>2. outcome'[d] = "served"
        BY <2>1, <2>2, <3>1 DEF AInv, Types
      <4>3. FdsOf(c)' = {OpenedFd}
        BY <2>4, <4>1
      <4> QED
        BY <2>4, <3>1, <4>2, <4>3 DEF Single
    <3>2. CASE d # c
      <4>1. outcome'[d] = outcome[d] /\ FdsOf(d)' = FdsOf(d)
        BY <2>1, <2>4, <3>2, OwnersApart DEF AInv, Types, Owners
      <4> QED
        BY <4>1 DEF AInv, ServedInv, Single
    <3> QED
      BY <3>1, <3>2
  <2> QED
    BY <1>1, <2>2, <2>4, <2>5, <2>6, <2>7 DEF AInv, Types
<1>3. CASE ~hasCallback
  <2>1. table' = table /\ outcome' = [outcome EXCEPT ![c] = "refused"]
    BY <1>0, <1>3 DEF AcceptClient
  <2>2. /\ c \in Clients /\ outcome[c] = "away" /\ backlog' \in Seq(Clients)
        /\ outcome' \in [Clients -> {"away", "served", "ended", "refused"}]
        /\ QueueInv'
    BY <1>0, <1>1, <2>1, HeadLeaves
  <2>3. HoldInv' /\ RacedInv'
    BY <1>1, <2>1 DEF AInv, HoldInv, RacedInv, Settled, Single, FdsOf, Free
  <2>4. ServedInv'
    BY <2>1, <2>2 DEF AInv, Types, ServedInv, Single, FdsOf
  <2> QED
    BY <1>1, <2>1, <2>2, <2>3, <2>4 DEF AInv, Types
<1> QED
  BY <1>2, <1>3

\* The refusal of a client on a full table, step by step.
LEMMA RefuseAInv ==
    ASSUME AInv, AcceptEmfile \/ RefuseClient \/ HangUp \/ ReopenIdleFd
    PROVE  AInv'
<1>1. CASE AcceptEmfile
  <2>1. /\ pc = "accept" /\ pc' = "refuse" /\ table' = Closed(idle_fd_)
        /\ UNCHANGED <<backlog, outcome, idle_fd_, raced>>
    BY <1>1 DEF AcceptEmfile
  <2>2. CASE idle_fd_ = NoFd
    BY <2>1, <2>2 DEF Closed, AInv, Types, HoldInv, RacedInv, ServedInv, QueueInv,
                      Settled, Single, FdsOf, Free
  <2>3. CASE idle_fd_ # NoFd
    <3>1. /\ idle_fd_ \in Fds /\ table' = [table EXCEPT ![idle_fd_] = "free"]
          /\ FdsOf("spare") = {idle_fd_}
      BY <2>1, <2>3 DEF Closed, AInv, Types, HoldInv, Settled
    <3>2. /\ table' \in [Fds -> Owners \cup Clients] /\ Free' # {}
          /\ \A x : x # "free" => FdsOf(x)' = FdsOf(x) \ {idle_fd_}
      BY <3>1, CloseEffect DEF AInv
    <3>3. \A x : x # "spare" => idle_fd_ \notin FdsOf(x)
      BY <3>1 DEF FdsOf
    <3>4. /\ FdsOf("spare")' = {}
          /\ \A x : x # "free" /\ x # "spare" => FdsOf(x)' = FdsOf(x)
      BY <3>1, <3>2, <3>3
    <3>5. HoldInv' /\ RacedInv'
      BY <2>1, <3>2, <3>4 DEF AInv, HoldInv, RacedInv, Settled, Single
    <3>6. ServedInv'
      BY <2>1, <3>4, OwnersApart DEF AInv, ServedInv, Owners, Single
    <3> QED
      BY <2>1, <3>2, <3>5, <3>6 DEF AInv, Types, QueueInv
  <2> QED
    BY <2>2, <2>3
<1>2. CASE RefuseClient /\ Free # {} /\ backlog # <<>>
  <2> DEFINE c == Head(backlog)
  <2>1. /\ pc = "refuse" /\ pc' = "hangup" /\ table' = Opened("refused")
        /\ idle_fd_' = OpenedFd /\ backlog' = Tail(backlog)
        /\ outcome' = [outcome EXCEPT ![c] = "refused"] /\ UNCHANGED raced
    BY <1>2 DEF RefuseClient
  <2>2. /\ c \in Clients /\ outcome[c] = "away" /\ backlog' \in Seq(Clients)
        /\ outcome' \in [Clients -> {"away", "served", "ended", "refused"}]
        /\ QueueInv'
    BY <1>2, <2>1, HeadLeaves
  <2> HIDE DEF c
  <2>3. /\ OpenedFd \in Fds /\ table' \in [Fds -> Owners \cup Clients]
        /\ FdsOf("refused")' = FdsOf("refused") \cup {OpenedFd}
        /\ \A x : x # "free" /\ x # "refused" => FdsOf(x)' = FdsOf(x)
    BY <1>2, <2>1, OpenEffect DEF AInv, Owners
  <2>4. HoldInv' /\ RacedInv'
    BY <2>1, <2>3, NoFdNotFd DEF AInv, HoldInv, RacedInv, Settled, Single
  <2>5. ServedInv'
    BY <2>1, <2>2, <2>3, OwnersApart DEF AInv, Types, ServedInv, Owners, Single
  <2> QED
    BY <2>1, <2>2, <2>3, <2>4, <2>5 DEF AInv, Types
<1>3. CASE RefuseClient /\ ~(Free # {} /\ backlog # <<>>)
  <2>1. /\ pc = "refuse" /\ pc' = "hangup" /\ idle_fd_' = NoFd
        /\ UNCHANGED <<table, backlog, outcome, raced>>
    BY <1>3 DEF RefuseClient
  <2> QED
    BY <2>1 DEF AInv, Types, HoldInv, RacedInv, ServedInv, QueueInv, Settled, Single,
                FdsOf, Free
<1>4. CASE HangUp
  <2>1. /\ pc = "hangup" /\ pc' = "reopen" /\ table' = Closed(idle_fd_)
        /\ UNCHANGED <<backlog, outcome, idle_fd_, raced>>
    BY <1>4 DEF HangUp
  <2>2. CASE idle_fd_ = NoFd
    BY <2>1, <2>2 DEF Closed, AInv, Types, HoldInv, RacedInv, ServedInv, QueueInv,
                      Settled, Single, FdsOf, Free
  <2>3. CASE idle_fd_ # NoFd
    <3>1. /\ idle_fd_ \in Fds /\ table' = [table EXCEPT ![idle_fd_] = "free"]
          /\ FdsOf("refused") = {idle_fd_}
      BY <2>1, <2>3 DEF Closed, AInv, Types, HoldInv, Settled
    <3>2. /\ table' \in [Fds -> Owners \cup Clients] /\ Free' # {}
          /\ \A x : x # "free" => FdsOf(x)' = FdsOf(x) \ {idle_fd_}
      BY <3>1, CloseEffect DEF AInv
    <3>3. \A x : x # "refused" => idle_fd_ \notin FdsOf(x)
      BY <3>1 DEF FdsOf
    <3>4. /\ FdsOf("refused")' = {}
          /\ \A x : x # "free" /\ x # "refused" => FdsOf(x)' = FdsOf(x)
      <4>1. FdsOf("refused")' = {}
        BY <3>1, <3>2
      <4>2. ASSUME NEW x, x # "free", x # "refused"
            PROVE  FdsOf(x)' = FdsOf(x)
        BY <3>2, <3>3, <4>2
      <4> QED
        BY <4>1, <4>2
    <3>5. HoldInv' /\ RacedInv'
      BY <2>1, <3>2, <3>4 DEF AInv, HoldInv, RacedInv, Settled, Single
    <3>6. ServedInv'
      BY <2>1, <3>4, OwnersApart DEF AInv, ServedInv, Owners, Single
    <3> QED
      BY <2>1, <3>2, <3>5, <3>6 DEF AInv, Types, QueueInv
  <2> QED
    BY <2>2, <2>3
<1>5. CASE ReopenIdleFd
  <2>1. /\ pc = "reopen" /\ pc' = "idle" /\ table' = Opened("spare")
        /\ idle_fd_' = OpenedFd /\ raced' = (raced /\ OpenedFd = NoFd)
        /\ UNCHANGED <<backlog, outcome>>
    BY <1>5 DEF ReopenIdleFd
  <2>2. CASE Free = {}
    <3>1. OpenedFd = NoFd /\ table' = table /\ idle_fd_' = NoFd /\ raced
      BY <2>1, <2>2, NoFdNotFd DEF Opened, AInv, RacedInv
    <3>2. raced'
      BY <2>1, <3>1, Zenon
    <3>3. FdsOf("spare")' = {idle_fd_'} \ {NoFd}
      BY <2>1, <3>1 DEF AInv, HoldInv, Settled, FdsOf
    <3> QED
      BY <2>1, <3>1, <3>2, <3>3
      DEF AInv, Types, HoldInv, RacedInv, ServedInv, QueueInv, Settled, Single, FdsOf
  <2>3. CASE Free # {}
    <3>1. /\ OpenedFd \in Fds /\ table' \in [Fds -> Owners \cup Clients]
          /\ FdsOf("spare")' = FdsOf("spare") \cup {OpenedFd}
          /\ \A x : x # "free" /\ x # "spare" => FdsOf(x)' = FdsOf(x)
      BY <2>1, <2>3, OpenEffect DEF AInv, Owners
    <3>2. HoldInv' /\ RacedInv'
      BY <2>1, <2>3, <3>1, NoFdNotFd DEF AInv, HoldInv, RacedInv, Settled, Single
    <3>3. ServedInv'
      BY <2>1, <3>1, OwnersApart DEF AInv, ServedInv, Owners, Single
    <3> QED
      BY <2>1, <3>1, <3>2, <3>3 DEF AInv, Types, QueueInv
  <2> QED
    BY <2>2, <2>3
<1> QED
  BY <1>1, <1>2, <1>3, <1>4, <1>5

\* ~Acceptor() gives back the spare and the listening socket.
LEMMA DestroyAInv ==
    ASSUME AInv, Destroy
    PROVE  AInv'
<1>1. /\ pc \in Settled /\ pc' = "destroyed" /\ backlog' = <<>>
      /\ table' = [f \in Fds |-> IF f = idle_fd_ \/ table[f] = "server"
                                 THEN "free" ELSE table[f]]
      /\ outcome' = [c \in Clients |->
                        IF c \in ToSet(backlog) THEN "refused" ELSE outcome[c]]
      /\ UNCHANGED <<idle_fd_, raced>>
  BY DEF Destroy, Settled
<1>2. FdsOf("spare") = {idle_fd_} \ {NoFd} /\ FdsOf("refused") = {}
  BY <1>1 DEF AInv, HoldInv, Settled
<1>3. \A x : x # "spare" => idle_fd_ \notin FdsOf(x)
  BY <1>2, NoFdNotFd DEF FdsOf
<1>4. /\ FdsOf("spare")' = {} /\ FdsOf("server")' = {}
      /\ \A x \in {"refused"} \cup Clients : FdsOf(x)' = FdsOf(x)
  <2>1. FdsOf("spare")' = {} /\ FdsOf("server")' = {}
    BY <1>1, <1>2, NoFdNotFd DEF FdsOf
  <2>2. ASSUME NEW x \in {"refused"} \cup Clients
        PROVE  FdsOf(x)' = FdsOf(x)
    <3>1. x # "free" /\ x # "server" /\ x # "spare"
      BY OwnersApart DEF Owners
    <3> QED
      BY <1>1, <1>3, <3>1 DEF FdsOf
  <2> QED
    BY <2>1, <2>2
<1>5. Types'
  BY <1>1 DEF AInv, Types, Owners
<1>6. HoldInv' /\ RacedInv'
  BY <1>1, <1>2, <1>4 DEF HoldInv, RacedInv, Settled
<1>7. ServedInv'
  <2>1. \A c \in Clients : c \in ToSet(backlog) => outcome[c] = "away"
    BY DEF AInv, Types, QueueInv, ToSet
  <2>2. \A c \in Clients : outcome'[c] = "served" <=> outcome[c] = "served"
    BY <1>1, <2>1
  <2> QED
    BY <1>4, <2>2 DEF AInv, ServedInv, Single
<1>8. QueueInv'
  BY <1>1 DEF QueueInv
<1> QED
  BY <1>5, <1>6, <1>7, <1>8 DEF AInv

\* Clients come, and connections end.
LEMMA ClientAInv ==
    ASSUME AInv, NEW c \in Clients, ClientConnects(c) \/ ConnectionEnds(c)
    PROVE  AInv'
<1>1. CASE ClientConnects(c)
  <2>1. /\ outcome[c] = "away" /\ c \notin ToSet(backlog)
        /\ backlog' = Append(backlog, c)
        /\ UNCHANGED <<table, outcome, idle_fd_, pc, raced>>
    BY <1>1 DEF ClientConnects
  <2>2. /\ backlog' \in Seq(Clients) /\ Len(backlog') = Len(backlog) + 1
        /\ Len(backlog) \in Nat /\ backlog'[Len(backlog) + 1] = c
        /\ \A i \in 1..Len(backlog) : backlog'[i] = backlog[i] /\ backlog[i] # c
    BY <2>1 DEF AInv, Types, ToSet
  <2>3. \A i \in 1..Len(backlog') : i = Len(backlog) + 1 \/ i \in 1..Len(backlog)
    BY <2>2
  <2>4. QueueInv'
    BY <2>1, <2>2, <2>3 DEF AInv, QueueInv
  <2> QED
    BY <2>1, <2>2, <2>4
    DEF AInv, Types, HoldInv, RacedInv, ServedInv, Single, FdsOf, Free
<1>2. CASE ConnectionEnds(c)
  <2>1. /\ outcome[c] = "served" /\ outcome' = [outcome EXCEPT ![c] = "ended"]
        /\ table' = [f \in Fds |-> IF table[f] = c THEN "free" ELSE table[f]]
        /\ UNCHANGED <<backlog, idle_fd_, pc, raced>>
    BY <1>2 DEF ConnectionEnds
  <2>2. c # "free" /\ c \notin Owners
    BY OwnersApart DEF Owners
  <2>3. /\ FdsOf(c)' = {} /\ Free \subseteq Free'
        /\ \A x : x # "free" /\ x # c => FdsOf(x)' = FdsOf(x)
    BY <2>1, <2>2 DEF FdsOf, Free
  <2>4. Types'
    BY <2>1 DEF AInv, Types, Owners
  <2>5. HoldInv'
    BY <2>1, <2>2, <2>3 DEF AInv, HoldInv, Settled, Single, Owners
  <2>6. RacedInv'
    BY <2>1, <2>3 DEF AInv, RacedInv
  <2>7. ServedInv'
    <3> SUFFICES ASSUME NEW d \in Clients
                 PROVE  IF outcome'[d] = "served" THEN Single(d)' ELSE FdsOf(d)' = {}
      BY DEF ServedInv
    <3>1. CASE d = c
      BY <2>1, <2>3, <3>1 DEF AInv, Types
    <3>2. CASE d # c
      BY <2>1, <2>3, <3>2, OwnersApart DEF AInv, Types, ServedInv, Single, Owners
    <3> QED
      BY <3>1, <3>2
  <2>8. QueueInv'
    <3>1. ASSUME NEW i \in 1..Len(backlog)
          PROVE  backlog[i] # c /\ backlog[i] \in Clients
      BY <2>1 DEF AInv, Types, QueueInv
    <3> QED
      BY <2>1, <3>1 DEF AInv, Types, QueueInv
  <2> QED
    BY <2>4, <2>5, <2>6, <2>7, <2>8 DEF AInv
<1> QED
  BY <1>1, <1>2

\* Other threads open and close descriptors at any time.
LEMMA OthersAInv ==
    ASSUME AInv, OtherOpens \/ OtherCloses
    PROVE  AInv'
<1>1. CASE OtherOpens
  <2>1. /\ Free # {} /\ table' = Opened("other") /\ raced' = (raced \/ GivenUp)
        /\ UNCHANGED <<backlog, outcome, idle_fd_, pc>>
    BY <1>1 DEF OtherOpens
  <2>2. /\ table' \in [Fds -> Owners \cup Clients]
        /\ \A x : x # "free" /\ x # "other" => FdsOf(x)' = FdsOf(x)
    BY <2>1, OpenEffect DEF AInv, Owners
  <2>3. HoldInv'
    BY <2>1, <2>2 DEF AInv, HoldInv, Settled, Single
  <2>4. RacedInv'
    <3>1. raced \/ GivenUp => raced'
      BY <2>1, Zenon
    <3> QED
      BY <2>1, <3>1 DEF AInv, RacedInv, GivenUp
  <2>5. ServedInv'
    BY <2>1, <2>2, OwnersApart DEF AInv, ServedInv, Owners, Single
  <2> QED
    BY <2>1, <2>2, <2>3, <2>4, <2>5 DEF AInv, Types, QueueInv
<1>2. CASE OtherCloses
  <2>1. UNCHANGED <<backlog, outcome, idle_fd_, pc, raced>>
    BY <1>2 DEF OtherCloses
  <2>2. PICK f \in FdsOf("other") : table' = [table EXCEPT ![f] = "free"]
    BY <1>2 DEF OtherCloses
  <2>3. f \in Fds /\ table[f] = "other"
    BY DEF FdsOf
  <2>4. /\ table' \in [Fds -> Owners \cup Clients] /\ Free' # {}
        /\ \A x : x # "free" => FdsOf(x)' = FdsOf(x) \ {f}
    BY <2>2, <2>3, CloseEffect DEF AInv
  <2>5. ASSUME NEW x, x # "free", x # "other"
        PROVE  FdsOf(x)' = FdsOf(x)
    <3>1. f \notin FdsOf(x)
      BY <2>3, <2>5 DEF FdsOf
    <3> QED
      BY <2>4, <2>5, <3>1
  <2>6. HoldInv' /\ RacedInv'
    BY <2>1, <2>4, <2>5 DEF AInv, HoldInv, RacedInv, Settled, Single
  <2>7. ServedInv'
    BY <2>1, <2>5, OwnersApart DEF AInv, ServedInv, Owners, Single
  <2> QED
    BY <2>1, <2>4, <2>6, <2>7 DEF AInv, Types, QueueInv
<1> QED
  BY <1>1, <1>2

\* The invariant is inductive.
LEMMA NextAInv == AInv /\ [AcceptorNext]_acceptorVars => AInv'
<1> SUFFICES ASSUME AInv, [AcceptorNext]_acceptorVars PROVE AInv'
  OBVIOUS
<1>1. CASE AcceptorNext
  BY <1>1, ConstructorAInv, QuietAInv, AcceptAInv, RefuseAInv, DestroyAInv,
     ClientAInv, OthersAInv
  DEF AcceptorNext, AcceptorStep
<1>2. CASE UNCHANGED acceptorVars
  BY <1>2 DEF acceptorVars, AInv, Types, HoldInv, RacedInv, ServedInv, QueueInv,
              Single, FdsOf, Free
<1> QED
  BY <1>1, <1>2

\* The inductive invariant holds in every reachable state.
THEOREM AInvariant == AcceptorSpec => []AInv
  BY InitAInv, NextAInv, PTL DEF AcceptorSpec

\* Types; a served client has one descriptor and no other has one; between
\* callbacks idle_fd_ is the acceptor's spare, unless another thread took the
\* number while it was given up, and nothing the acceptor opened is leaked.
THEOREM AcceptorTypeCorrect == AcceptorSpec => []AcceptorTypeOK
<1>1. AInv => AcceptorTypeOK
  <2> SUFFICES ASSUME AInv PROVE DescriptorTypes /\ SpareHeld
    BY DEF AcceptorTypeOK
  <2>1. \A x : Single(x) => Cardinality(FdsOf(x)) = 1
    BY FS_Singleton DEF Single
  <2>2. \A x : FdsOf(x) = {} => Cardinality(FdsOf(x)) = 0
    BY FS_EmptySet
  <2>3. DescriptorTypes
    <3>1. \A c \in Clients :
            Cardinality(FdsOf(c)) = IF outcome[c] = "served" THEN 1 ELSE 0
      BY <2>1, <2>2 DEF AInv, ServedInv
    <3> QED
      BY <3>1 DEF AInv, Types, DescriptorTypes
  <2>4. SpareHeld
    BY <2>1 DEF AInv, HoldInv, RacedInv, SpareHeld, Settled
  <2> QED
    BY <2>3, <2>4
<1> QED
  BY <1>1, AInvariant, PTL

\* The acceptor closes no descriptor of a connection and none of another
\* thread, although the numbers it closes were given up and reused in between.
THEOREM ClosesOnlyItsOwn == AcceptorSpec => OnlyOwnClosed
<1> DEFINE Own == \A f \in Fds :
        table'[f] # table[f] =>
            /\ table[f] \in Clients => outcome'[table[f]] = "ended"
            /\ table[f] = "other" => pc' = pc
<1>1. ASSUME AInv, [AcceptorNext]_acceptorVars
      PROVE  Own
  <2> SUFFICES ASSUME NEW f \in Fds, table'[f] # table[f]
               PROVE  /\ table[f] \in Clients => outcome'[table[f]] = "ended"
                      /\ table[f] = "other" => pc' = pc
    OBVIOUS
  <2>0. Types /\ table \in [Fds -> Owners \cup Clients]
    BY <1>1 DEF AInv, Types
  <2>1. ASSUME NEW o \in Owners \cup Clients, o # "free", table' = Opened(o)
        PROVE  table[f] = "free"
    <3>1. Free # {}
      BY <2>1 DEF Opened
    <3>2. /\ OpenedFd \in Fds /\ table[OpenedFd] = "free"
          /\ table' = [table EXCEPT ![OpenedFd] = o]
      BY <2>0, <2>1, <3>1, OpenEffect
    <3> QED
      BY <2>0, <3>2
  <2>2. \A c \in Clients : c \notin {"free", "server", "spare", "refused", "other"}
    BY OwnersApart DEF Owners
  <2>3. CASE table[f] \in {"free", "server", "spare", "refused"}
    BY <2>2, <2>3
  <2>4. CASE \/ CreateServerSocket \/ OpenIdleFd \/ ReopenIdleFd \/ OtherOpens
    <3>1. PICK o \in {"server", "spare", "other"} : table' = Opened(o)
      BY <2>4 DEF CreateServerSocket, OpenIdleFd, ReopenIdleFd, OtherOpens
    <3> QED
      BY <2>1, <2>3, <3>1 DEF Owners
  <2>5. CASE RefuseClient
    <3>1. table' = Opened("refused")
      BY <2>5 DEF RefuseClient
    <3> QED
      BY <2>1, <2>3, <3>1 DEF Owners
  <2>6. CASE AcceptClient
    <3>1. table' = Opened(Head(backlog)) /\ Head(backlog) \in Clients
      BY <1>1, <2>6 DEF AcceptClient, AInv, Types
    <3> QED
      BY <2>1, <2>2, <2>3, <3>1
  <2>7. CASE AcceptEmfile \/ HangUp
    <3>1. f = idle_fd_ /\ idle_fd_ # NoFd
      BY <2>0, <2>7 DEF AcceptEmfile, HangUp, Closed
    <3>2. f \in FdsOf("spare") \cup FdsOf("refused")
      BY <1>1, <2>7, <3>1 DEF AcceptEmfile, HangUp, AInv, HoldInv, Settled
    <3> QED
      BY <2>3, <3>2 DEF FdsOf
  <2>8. CASE Destroy
    <3>1. f = idle_fd_ \/ table[f] = "server"
      BY <2>8 DEF Destroy
    <3>2. f = idle_fd_ => f \in FdsOf("spare")
      BY <1>1, <2>8, NoFdNotFd DEF Destroy, AInv, HoldInv, Settled
    <3> QED
      BY <2>3, <3>1, <3>2 DEF FdsOf
  <2>9. ASSUME NEW c \in Clients, ClientConnects(c) \/ ConnectionEnds(c)
        PROVE  /\ table[f] = c /\ outcome'[c] = "ended"
    BY <1>1, <2>9 DEF ClientConnects, ConnectionEnds, AInv, Types
  <2>10. CASE OtherCloses
    <3>1. table[f] = "other" /\ pc' = pc
      BY <2>0, <2>10 DEF OtherCloses, FdsOf
    <3> QED
      BY <2>2, <3>1
  <2>11. ~(\/ EnableReusePort \/ Bind \/ Listen \/ Readable \/ AcceptNone
           \/ AcceptInterrupted \/ AcceptFatal \/ UNCHANGED acceptorVars)
    BY DEF EnableReusePort, Bind, Listen, Readable, AcceptNone, AcceptInterrupted,
           AcceptFatal, acceptorVars
  <2> QED
    BY <1>1, <2>2, <2>4, <2>5, <2>6, <2>7, <2>8, <2>9, <2>10, <2>11
    DEF AcceptorNext, AcceptorStep
<1> QED
  BY <1>1, AInvariant, PTL DEF AcceptorSpec, OnlyOwnClosed
=============================================================================
