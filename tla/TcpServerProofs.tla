--------------------------- MODULE TcpServerProofs ---------------------------
(***************************************************************************)
(* Proofs about the life of connections for any number of connections, of  *)
(* loops in the pool and of calls by user threads.                         *)
(***************************************************************************)
EXTENDS TcpServer, SequenceTheorems, FiniteSetTheorems, TLAPS

\* The functors a loop has still to run: the rest of local_pending_funcs and
\* then pending_funcs_, as a vector and as a set.
Rest(b, p, q) == SubSeq(b, p + 1, Len(b)) \o q
Todo(l) == Rest(batch[l], pos[l], pending[l])
Elems(s) == {s[i] : i \in DOMAIN s}
Jobs(l) == Elems(Todo(l))

\* The functors that move a connection on in its life.
Life(f) == f.kind \in {"established", "remove", "destroyed"}

\* None of them is twice in a vector.
Distinct(s) == \A i, j \in DOMAIN s : Life(s[i]) /\ s[i] = s[j] => i = j

(***************************************************************************)
(* The phases of a connection's life.                                      *)
(***************************************************************************)
Open(c) == state_[c] \in {"CONNECTED", "DISCONNECTING"}
Absent(c) ==
    /\ state_[c] = "none"
    /\ c \notin connections_ /\ c \notin registered /\ c \notin caring
    /\ ups[c] = 0 /\ downs[c] = 0
Connecting(c) ==
    /\ state_[c] = "CONNECTING" /\ io[c] # Base
    /\ c \in connections_ /\ c \in registered /\ c \notin caring
    /\ ups[c] = 0 /\ downs[c] = 0
Up(c) ==
    /\ Open(c)
    /\ c \in connections_ /\ c \in registered /\ c \in caring
    /\ ups[c] = 1 /\ downs[c] = 0
Closing(c) ==
    /\ Open(c) /\ io[c] # Base
    /\ c \in connections_ /\ c \in registered /\ c \notin caring
    /\ ups[c] = 1 /\ downs[c] = 0
Closed(c) ==
    /\ Open(c)
    /\ c \notin connections_ /\ c \in registered /\ c \notin caring
    /\ ups[c] = 1 /\ downs[c] = 0
Gone(c) ==
    /\ state_[c] \in {"DISCONNECTED", "DISCONNECTING"}
    /\ c \notin connections_ /\ c \notin registered /\ c \notin caring
    /\ ups[c] = 1 /\ downs[c] = 1

Phase(c) == Connecting(c) \/ Up(c) \/ Closing(c) \/ Closed(c) \/ Gone(c)

PhaseInv == \A c \in Conns : IF c > conn_id_ THEN Absent(c) ELSE Phase(c)

\* What a functor says of its connection, and the loop it is for.
Fits(f, l) ==
    /\ f \in Functors
    /\ f.conn <= conn_id_
    /\ f.kind = "established" => Connecting(f.conn) /\ l = io[f.conn]
    /\ f.kind = "remove" => Closing(f.conn) /\ l = Base
    /\ f.kind = "destroyed" => Closed(f.conn) /\ l = io[f.conn]

QueueInv == \A l \in Loops : \A f \in Jobs(l) : Fits(f, l)

\* No such functor is waiting twice on a loop.
OnceInv == \A l \in Loops : Distinct(Todo(l))

\* A connection that left the map is kept by its last functor.
KeptInv ==
    \A c \in Conns : Closed(c) =>
        \E l \in Loops : Functor("destroyed", c) \in Jobs(l)

\* The user has pointers only of established connections.
UserInv ==
    /\ \A c \in userRef : ups[c] = 1
    /\ \A k \in {"send", "shutdown"} : call[k] # 0 => ups[call[k]] = 1

(***************************************************************************)
(* The types of the variables.                                             *)
(***************************************************************************)
PoolTypes ==
    /\ num_threads_ \in 0..MaxThreads
    /\ started_ \in BOOLEAN
    /\ next_ \in 0..MaxThreads
    /\ num_threads_ > 0 => next_ < num_threads_
    /\ ~started_ => next_ = 0 /\ conn_id_ = 0 /\ \A c \in Conns : io[c] = Base
    /\ conn_id_ \in 0..MaxConns
    /\ io \in [Conns -> 0..num_threads_]

ConnTypes ==
    /\ state_ \in [Conns -> {"none", "CONNECTING", "CONNECTED",
                             "DISCONNECTING", "DISCONNECTED"}]
    /\ connections_ \subseteq Conns
    /\ registered \subseteq Conns
    /\ caring \subseteq Conns
    /\ peer \in [Conns -> {"open", "reset", "eof"}]
    /\ ups \in [Conns -> Nat]
    /\ downs \in [Conns -> Nat]

QueueTypes ==
    /\ pending \in [Loops -> Seq(Functors)]
    /\ batch \in [Loops -> Seq(Functors)]
    /\ pos \in [Loops -> Nat]
    /\ \A l \in Loops : pos[l] \in 0..Len(batch[l])

UserTypes ==
    /\ userRef \subseteq Conns
    /\ call \in [{"send", "shutdown"} -> Conns \cup {0}]
    /\ calls \in 0..MaxCalls
    /\ usedDead \in BOOLEAN

Types == PoolTypes /\ ConnTypes /\ QueueTypes /\ UserTypes

\* The loops of the pool are filled in turn: the ones before next_ have one
\* connection more.
EvenInv ==
    num_threads_ > 0 =>
        \E q \in Nat : \A l \in 1..num_threads_ :
            Load(l) = IF l <= next_ THEN q + 1 ELSE q

SInv ==
    /\ Types /\ PhaseInv /\ QueueInv /\ OnceInv /\ KeptInv /\ UserInv
    /\ aborted = FALSE

-----------------------------------------------------------------------------
(***************************************************************************)
(* Vectors of functors.                                                    *)
(***************************************************************************)
\* A push adds the functor.
LEMMA Push ==
    ASSUME NEW s \in Seq(Functors), NEW f \in Functors
    PROVE  /\ Elems(Append(s, f)) = Elems(s) \cup {f}
           /\ Distinct(s) /\ (Life(f) => f \notin Elems(s)) => Distinct(Append(s, f))
<1> DEFINE t == Append(s, f)
           n == Len(s)
<1>1. /\ n \in Nat /\ DOMAIN s = 1..n /\ DOMAIN t = 1..(n + 1)
      /\ \A i \in 1..n : t[i] = s[i]
      /\ t[n + 1] = f
  OBVIOUS
<1> HIDE DEF t, n
<1>2. Elems(t) = Elems(s) \cup {f}
  BY <1>1 DEF Elems
<1>3. ASSUME Distinct(s), Life(f) => f \notin Elems(s)
      PROVE  Distinct(t)
  <2> SUFFICES ASSUME NEW i \in 1..(n + 1), NEW j \in 1..(n + 1), Life(t[i]), t[i] = t[j]
               PROVE  i = j
    BY <1>1 DEF Distinct
  <2>1. CASE i \in 1..n /\ j \in 1..n
    BY <1>1, <1>3, <2>1 DEF Distinct
  <2>2. CASE i = n + 1 /\ j \in 1..n
    BY <1>1, <1>3, <2>2 DEF Elems
  <2>3. CASE i \in 1..n /\ j = n + 1
    BY <1>1, <1>3, <2>3 DEF Elems
  <2> QED
    BY <1>1, <2>1, <2>2, <2>3
<1> QED
  BY <1>2, <1>3 DEF t

\* Running the first functor takes it out.
LEMMA Pop ==
    ASSUME NEW s \in Seq(Functors), s # <<>>
    PROVE  /\ Elems(s) = Elems(Tail(s)) \cup {Head(s)}
           /\ Distinct(s) => /\ Distinct(Tail(s))
                             /\ Life(Head(s)) => Head(s) \notin Elems(Tail(s))
<1> DEFINE t == Tail(s)
           n == Len(s)
           f == Head(s)
<1>1. /\ n \in Nat /\ n >= 1 /\ DOMAIN s = 1..n /\ DOMAIN t = 1..(n - 1)
      /\ \A i \in 1..(n - 1) : t[i] = s[i + 1]
      /\ f = s[1]
  OBVIOUS
<1> HIDE DEF t, n, f
<1>2. \A i \in 1..(n - 1) : i + 1 \in 1..n
  BY <1>1
<1>3. \A i \in 1..n : i = 1 \/ (i - 1 \in 1..(n - 1) /\ (i - 1) + 1 = i)
  BY <1>1
<1>4. Elems(s) = Elems(t) \cup {f}
  <2>1. \A i \in 1..n : s[i] \in Elems(t) \cup {f}
    <3> TAKE i \in 1..n
    <3>1. CASE i = 1
      BY <1>1, <3>1
    <3>2. CASE i - 1 \in 1..(n - 1) /\ (i - 1) + 1 = i
      <4>1. t[i - 1] = s[i]
        BY <1>1, <3>2
      <4> QED
        BY <1>1, <3>2, <4>1 DEF Elems
    <3> QED
      BY <1>3, <3>1, <3>2
  <2>2. \A i \in 1..(n - 1) : t[i] \in Elems(s)
    BY <1>1, <1>2 DEF Elems
  <2>3. f \in Elems(s)
    BY <1>1 DEF Elems
  <2> QED
    BY <1>1, <2>1, <2>2, <2>3 DEF Elems
<1>5. ASSUME Distinct(s)
      PROVE  Distinct(t)
  <2> SUFFICES ASSUME NEW i \in 1..(n - 1), NEW j \in 1..(n - 1), Life(t[i]), t[i] = t[j]
               PROVE  i = j
    BY <1>1 DEF Distinct
  <2>1. i + 1 = j + 1
    BY <1>1, <1>2, <1>5 DEF Distinct
  <2> QED
    BY <2>1
<1>6. ASSUME Distinct(s), Life(f)
      PROVE  f \notin Elems(t)
  <2> SUFFICES ASSUME NEW i \in 1..(n - 1), t[i] = f PROVE FALSE
    BY <1>1 DEF Elems
  <2>1. i + 1 = 1
    BY <1>1, <1>2, <1>6 DEF Distinct
  <2> QED
    BY <2>1
<1> QED
  BY <1>4, <1>5, <1>6 DEF t, f

\* The rest of a loop's work, as one vector.
LEMMA RestIs ==
    ASSUME NEW b \in Seq(Functors), NEW p \in 0..Len(b), NEW q \in Seq(Functors)
    PROVE  /\ Rest(b, p, q) \in Seq(Functors)
           /\ \A f \in Functors : Rest(b, p, Append(q, f)) = Append(Rest(b, p, q), f)
           /\ p < Len(b) => /\ Rest(b, p, q) # <<>>
                            /\ Head(Rest(b, p, q)) = b[p + 1]
                            /\ Tail(Rest(b, p, q)) = Rest(b, p + 1, q)
           /\ p = Len(b) => Rest(b, p, q) = q
           /\ Rest(<<>>, 0, q) = q /\ Rest(q, 0, <<>>) = q
<1> DEFINE F == Functors
<1>0. b \in Seq(F) /\ q \in Seq(F)
  OBVIOUS
<1> HIDE DEF F
<1>1. SubSeq(b, p + 1, Len(b)) \in Seq(F) /\ Len(SubSeq(b, p + 1, Len(b))) = Len(b) - p
  BY ONLY <1>0, p \in 0..Len(b)
<1> DEFINE r == SubSeq(b, p + 1, Len(b))
<1>2. r \o q \in Seq(F) /\ \A f \in F : r \o Append(q, f) = Append(r \o q, f)
  <2> HIDE DEF r
  <2>1. r \in Seq(F)
    BY <1>1 DEF r
  <2> QED
    BY ONLY <1>0, <2>1
<1>3. ASSUME p < Len(b)
      PROVE  /\ r \o q # <<>> /\ Head(r \o q) = b[p + 1]
             /\ Tail(r \o q) = SubSeq(b, p + 2, Len(b)) \o q
  <2>1. r # <<>> /\ Head(r) = b[p + 1] /\ Tail(r) = SubSeq(b, p + 2, Len(b))
    <3>1. /\ p + 1 \in 1..(Len(b) + 1) /\ Len(b) \in p..Len(b) /\ Len(b) \in Nat
          /\ p + 1 \in Int /\ (p + 1) + 1 = p + 2 /\ p + 1 <= Len(b)
      BY ONLY <1>0, <1>3, p \in 0..Len(b)
    <3>2. r # <<>>
      <4>1. Len(r) >= 1
        BY ONLY <1>1, <3>1, <1>3
      <4> HIDE DEF r
      <4> QED
        BY ONLY <4>1
    <3>4. Head(r) = b[p + 1]
      <4>1. p + 1 \in 1..Len(b) /\ Len(b) \in (p + 1)..Len(b)
        BY ONLY <3>1, <1>3
      <4> QED
        BY ONLY <1>0, <4>1, HeadTailOfSubSeq
    <3>3. Tail(r) = SubSeq(b, p + 2, Len(b))
      BY ONLY <1>0, <1>1, <3>1
    <3> QED
      BY <3>2, <3>3, <3>4
  <2> HIDE DEF r
  <2>2. r \in Seq(F)
    BY <1>1 DEF r
  <2>3. r \o q # <<>> /\ Head(r \o q) = Head(r) /\ Tail(r \o q) = Tail(r) \o q
    BY ONLY <1>0, <2>1, <2>2
  <2> QED
    BY <2>1, <2>3
<1>4. ASSUME p = Len(b)
      PROVE  r \o q = q
  BY ONLY <1>0, <1>4
<1>5. SubSeq(<<>>, 0 + 1, Len(<<>>)) \o q = q /\ SubSeq(q, 0 + 1, Len(q)) \o <<>> = q
  BY ONLY <1>0
<1>6. (p + 1) + 1 = p + 2
  OBVIOUS
<1> QED
  BY <1>2, <1>3, <1>4, <1>5, <1>6 DEF Rest, F

\* A functor is pushed behind it.
LEMMA RestPush ==
    ASSUME NEW b \in Seq(Functors), NEW p \in 0..Len(b), NEW q \in Seq(Functors),
           NEW f \in Functors
    PROVE  Rest(b, p, Append(q, f)) = Append(Rest(b, p, q), f)
  BY RestIs

\* The first functor of it is the next one of the vector being run.
LEMMA RestPop ==
    ASSUME NEW b \in Seq(Functors), NEW p \in 0..Len(b), NEW q \in Seq(Functors),
           p < Len(b)
    PROVE  /\ Rest(b, p, q) # <<>>
           /\ Head(Rest(b, p, q)) = b[p + 1]
           /\ Tail(Rest(b, p, q)) = Rest(b, p + 1, q)
  BY RestIs

\* With no vector being run it is pending_funcs_.
LEMMA RestDone ==
    ASSUME NEW b \in Seq(Functors), NEW q \in Seq(Functors)
    PROVE  /\ Rest(b, Len(b), q) = q /\ Rest(<<>>, 0, q) = q /\ Rest(q, 0, <<>>) = q
<1>1. Len(b) \in 0..Len(b)
  OBVIOUS
<1> QED
  BY <1>1, RestIs

(***************************************************************************)
(* The queues of the loops.                                                *)
(***************************************************************************)
\* What a loop has to run is a vector of functors.
LEMMA TodoType ==
    ASSUME QueueTypes, NEW l \in Loops
    PROVE  Todo(l) \in Seq(Functors) /\ \A f \in Jobs(l) : f \in Functors
<1>1. batch[l] \in Seq(Functors) /\ pos[l] \in 0..Len(batch[l]) /\ pending[l] \in Seq(Functors)
  BY DEF QueueTypes
<1>2. Todo(l) \in Seq(Functors)
  BY <1>1, RestIs DEF Todo
<1> QED
  BY <1>2 DEF Jobs, Elems

\* The work of the loops after a push, and after the first functor was run.
Pushed(l, f) ==
    \A m \in Loops : Jobs(m)' = IF m = l THEN Jobs(m) \cup {f} ELSE Jobs(m)
Popped(l, f) ==
    /\ Jobs(l) = Jobs(l)' \cup {f}
    /\ Life(f) => f \notin Jobs(l)'
    /\ \A m \in Loops : m # l => Jobs(m)' = Jobs(m)

\* QueueInLoop.
LEMMA QueuePush ==
    ASSUME QueueTypes, OnceInv, NEW l \in Loops, NEW f \in Functors,
           pending' = Queued(pending, l, f), UNCHANGED <<batch, pos>>,
           Life(f) => f \notin Jobs(l)
    PROVE  QueueTypes' /\ OnceInv' /\ Pushed(l, f)
<1>1. QueueTypes'
  BY DEF QueueTypes, Queued
<1>2. Todo(l) \in Seq(Functors) /\ Distinct(Todo(l))
  BY TodoType DEF OnceInv
<1>3. Todo(l)' = Append(Todo(l), f)
  <2>1. batch[l] \in Seq(Functors) /\ pos[l] \in 0..Len(batch[l]) /\ pending[l] \in Seq(Functors)
    BY DEF QueueTypes
  <2>2. Rest(batch[l], pos[l], Append(pending[l], f)) = Append(Rest(batch[l], pos[l], pending[l]), f)
    BY <2>1, RestPush
  <2>3. pending'[l] = Append(pending[l], f)
    BY DEF QueueTypes, Queued
  <2> QED
    BY <2>2, <2>3 DEF Todo
<1>4. \A m \in Loops : m # l => Todo(m)' = Todo(m)
  BY DEF Todo, QueueTypes, Queued
<1>5. Jobs(l)' = Jobs(l) \cup {f} /\ Distinct(Todo(l)')
  BY <1>2, <1>3, Push DEF Jobs
<1>6. OnceInv'
  BY <1>4, <1>5 DEF OnceInv
<1>7. Pushed(l, f)
  BY <1>4, <1>5 DEF Pushed, Jobs
<1> QED
  BY <1>1, <1>6, <1>7

\* ExecutePendingFuncs runs a functor.
LEMMA QueuePop ==
    ASSUME QueueTypes, OnceInv, NEW l \in Loops, pos[l] < Len(batch[l]),
           NEW f, f = batch[l][pos[l] + 1],
           pos' = [pos EXCEPT ![l] = @ + 1], UNCHANGED <<batch, pending>>
    PROVE  f \in Functors /\ f \in Jobs(l) /\ QueueTypes' /\ OnceInv' /\ Popped(l, f)
<1>0. /\ batch[l] \in Seq(Functors) /\ pos[l] \in 0..Len(batch[l]) /\ pending[l] \in Seq(Functors)
      /\ pos'[l] = pos[l] + 1 /\ pos[l] \in Nat /\ Len(batch[l]) \in Nat
      /\ \A m \in Loops : m # l => pos'[m] = pos[m]
      /\ pos' \in [Loops -> Nat]
  BY DEF QueueTypes
<1>1. QueueTypes'
  BY <1>0 DEF QueueTypes
<1>2. Todo(l) \in Seq(Functors) /\ Distinct(Todo(l))
  BY TodoType DEF OnceInv
<1>3. Todo(l) # <<>> /\ Head(Todo(l)) = f /\ Todo(l)' = Tail(Todo(l))
  <2>1. Todo(l) = Rest(batch[l], pos[l], pending[l]) /\ Todo(l)' = Rest(batch[l], pos[l] + 1, pending[l])
    BY <1>0 DEF Todo
  <2> QED
    BY <1>0, <2>1, RestPop
<1>4. \A m \in Loops : m # l => Todo(m)' = Todo(m)
  BY <1>0 DEF Todo
<1>5. /\ Jobs(l) = Jobs(l)' \cup {f} /\ Distinct(Todo(l)')
      /\ Life(f) => f \notin Jobs(l)'
  BY <1>2, <1>3, Pop DEF Jobs
<1>6. OnceInv'
  BY <1>4, <1>5 DEF OnceInv
<1>7. Popped(l, f)
  BY <1>4, <1>5 DEF Popped, Jobs
<1>8. f \in Jobs(l) /\ f \in Functors
  BY <1>5, TodoType
<1> QED
  BY <1>1, <1>6, <1>7, <1>8

\* It runs one that queues another functor on another loop.
RunsAndQueues(l, f, k, g) ==
    /\ pos[l] < Len(batch[l]) /\ f = batch[l][pos[l] + 1]
    /\ pos' = [pos EXCEPT ![l] = @ + 1] /\ batch' = batch
    /\ k # l /\ pending' = Queued(pending, k, g)
    /\ Life(g) => g \notin Jobs(k)

\* Then it is gone from the one and the other one is new.
LEMMA QueuePopPush ==
    ASSUME QueueTypes, OnceInv, NEW l \in Loops, NEW f, NEW k \in Loops, NEW g \in Functors,
           RunsAndQueues(l, f, k, g)
    PROVE  /\ QueueTypes' /\ OnceInv'
           /\ Jobs(l) = Jobs(l)' \cup {f}
           /\ Life(f) => f \notin Jobs(l)'
           /\ Jobs(k)' = Jobs(k) \cup {g}
           /\ \A m \in Loops : m # l /\ m # k => Jobs(m)' = Jobs(m)
<1> USE DEF RunsAndQueues
<1>0. /\ batch[l] \in Seq(Functors) /\ pos[l] \in 0..Len(batch[l]) /\ pending[l] \in Seq(Functors)
      /\ batch[k] \in Seq(Functors) /\ pos[k] \in 0..Len(batch[k]) /\ pending[k] \in Seq(Functors)
      /\ pos'[l] = pos[l] + 1 /\ pos[l] \in Nat /\ Len(batch[l]) \in Nat
      /\ \A m \in Loops : m # l => pos'[m] = pos[m]
      /\ pos' \in [Loops -> Nat]
  BY DEF QueueTypes
<1>9. /\ pending' \in [Loops -> Seq(Functors)] /\ pending'[k] = Append(pending[k], g)
      /\ \A m \in Loops : m # k => pending'[m] = pending[m]
  BY DEF QueueTypes, Queued
<1>1. QueueTypes'
  BY <1>0, <1>9 DEF QueueTypes
<1>2. Todo(l) \in Seq(Functors) /\ Distinct(Todo(l)) /\ Todo(k) \in Seq(Functors) /\ Distinct(Todo(k))
  BY TodoType DEF OnceInv
<1>3. Todo(l) # <<>> /\ Head(Todo(l)) = f /\ Todo(l)' = Tail(Todo(l))
  <2>1. Todo(l) = Rest(batch[l], pos[l], pending[l]) /\ Todo(l)' = Rest(batch[l], pos[l] + 1, pending[l])
    BY <1>0, <1>9 DEF Todo
  <2> QED
    BY <1>0, <2>1, RestPop, SMTT(30)
<1>4. \A m \in Loops : m # l /\ m # k => Todo(m)' = Todo(m)
  BY <1>0, <1>9 DEF Todo
<1>5. Todo(k)' = Append(Todo(k), g)
  <2>1. Rest(batch[k], pos[k], Append(pending[k], g)) = Append(Rest(batch[k], pos[k], pending[k]), g)
    <3>1. batch[k] \in Seq(Functors) /\ pos[k] \in 0..Len(batch[k]) /\ pending[k] \in Seq(Functors)
      BY DEF QueueTypes
    <3> QED
      BY <3>1, RestPush
  <2> QED
    BY <1>0, <1>9, <2>1 DEF Todo
<1>6. /\ Jobs(l) = Jobs(l)' \cup {f} /\ Distinct(Todo(l)')
      /\ Life(f) => f \notin Jobs(l)'
  BY <1>2, <1>3, Pop DEF Jobs
<1>7. Jobs(k)' = Jobs(k) \cup {g} /\ Distinct(Todo(k)')
  BY <1>2, <1>5, Push DEF Jobs
<1>8. OnceInv'
  BY <1>4, <1>6, <1>7 DEF OnceInv
<1> QED
  BY <1>1, <1>4, <1>6, <1>7, <1>8 DEF Jobs

\* The swap of the vectors and their end leave the work of a loop as it is.
LEMMA QueueKept ==
    ASSUME QueueTypes, OnceInv, NEW l \in Loops, SwapPending(l) \/ ExecuteReturns(l)
    PROVE  QueueTypes' /\ OnceInv' /\ \A m \in Loops : Jobs(m)' = Jobs(m)
<1>0. /\ batch[l] \in Seq(Functors) /\ pos[l] \in 0..Len(batch[l]) /\ pending[l] \in Seq(Functors)
  BY DEF QueueTypes
<1>1. CASE SwapPending(l)
  <2>1. /\ batch[l] = <<>> /\ batch' = [batch EXCEPT ![l] = pending[l]]
        /\ pending' = [pending EXCEPT ![l] = <<>>] /\ pos' = [pos EXCEPT ![l] = 0]
    BY <1>1 DEF SwapPending, InSelect
  <2>2. /\ batch'[l] = pending[l] /\ pending'[l] = <<>> /\ pos'[l] = 0
        /\ \A m \in Loops : m # l => batch'[m] = batch[m] /\ pending'[m] = pending[m] /\ pos'[m] = pos[m]
    BY <2>1 DEF QueueTypes
  <2>3. pos[l] = 0
    BY <1>0, <2>1
  <2>4. Todo(l)' = Todo(l)
    <3>1. Todo(l) = Rest(<<>>, 0, pending[l]) /\ Todo(l)' = Rest(pending[l], 0, <<>>)
      BY <2>1, <2>2, <2>3 DEF Todo
    <3> QED
      BY <1>0, <3>1, RestDone
  <2>5. \A m \in Loops : Todo(m)' = Todo(m)
    BY <2>2, <2>4 DEF Todo
  <2>6. QueueTypes'
    <3>1. batch' \in [Loops -> Seq(Functors)] /\ pending' \in [Loops -> Seq(Functors)] /\ pos' \in [Loops -> Nat]
      BY <1>0, <2>1 DEF QueueTypes
    <3>2. \A m \in Loops : pos'[m] \in 0..Len(batch'[m])
      BY <1>0, <2>2 DEF QueueTypes
    <3> QED
      BY <3>1, <3>2 DEF QueueTypes
  <2> QED
    BY <2>5, <2>6 DEF OnceInv, Jobs
<1>2. CASE ExecuteReturns(l)
  <2>1. /\ pos[l] = Len(batch[l]) /\ batch' = [batch EXCEPT ![l] = <<>>]
        /\ pending' = pending /\ pos' = [pos EXCEPT ![l] = 0]
    BY <1>2 DEF ExecuteReturns
  <2>2. /\ batch'[l] = <<>> /\ pos'[l] = 0
        /\ \A m \in Loops : m # l => batch'[m] = batch[m] /\ pos'[m] = pos[m]
    BY <2>1 DEF QueueTypes
  <2>4. Todo(l)' = Todo(l)
    <3>1. Todo(l) = Rest(batch[l], Len(batch[l]), pending[l]) /\ Todo(l)' = Rest(<<>>, 0, pending[l])
      BY <2>1, <2>2 DEF Todo
    <3> QED
      BY <1>0, <3>1, RestDone
  <2>5. \A m \in Loops : Todo(m)' = Todo(m)
    BY <2>1, <2>2, <2>4 DEF Todo
  <2>6. QueueTypes'
    <3>1. batch' \in [Loops -> Seq(Functors)] /\ pos' \in [Loops -> Nat]
      BY <2>1 DEF QueueTypes
    <3>2. \A m \in Loops : pos'[m] \in 0..Len(batch'[m])
      BY <2>2 DEF QueueTypes
    <3> QED
      BY <2>1, <3>1, <3>2 DEF QueueTypes
  <2> QED
    BY <2>5, <2>6 DEF OnceInv, Jobs
<1> QED
  BY <1>1, <1>2

(***************************************************************************)
(* Phases.                                                                 *)
(***************************************************************************)
\* A step does not touch the connection.
Still(c) ==
    /\ state_'[c] = state_[c] /\ io'[c] = io[c]
    /\ ups'[c] = ups[c] /\ downs'[c] = downs[c]
    /\ c \in connections_' <=> c \in connections_
    /\ c \in registered' <=> c \in registered
    /\ c \in caring' <=> c \in caring

\* Then it stays in its phase.
LEMMA StillSame ==
    ASSUME NEW c \in Conns, Still(c)
    PROVE  /\ Absent(c)' <=> Absent(c)
           /\ Connecting(c)' <=> Connecting(c)
           /\ Up(c)' <=> Up(c)
           /\ Closing(c)' <=> Closing(c)
           /\ Closed(c)' <=> Closed(c)
           /\ Gone(c)' <=> Gone(c)
  BY DEF Still, Absent, Connecting, Up, Closing, Closed, Gone, Open

\* A connection has at most one functor that moves it on, on one loop.
LEMMA OneFunctor ==
    ASSUME QueueInv, NEW l \in Loops, NEW m \in Loops, NEW f \in Jobs(l), NEW g \in Jobs(m),
           Life(f), Life(g), f.conn = g.conn
    PROVE  l = m /\ f = g
<1>1. Fits(f, l) /\ Fits(g, m)
  BY DEF QueueInv
<1>2. f.kind = g.kind /\ l = m
  BY <1>1 DEF Fits, Life, Connecting, Closing, Closed
<1> QED
  BY <1>1, <1>2 DEF Fits, Functors

\* The functors a connection can have in each phase.
LEMMA NoFunctor ==
    ASSUME QueueInv, NEW l \in Loops, NEW f \in Jobs(l), Life(f)
    PROVE  /\ f.conn <= conn_id_ /\ f.conn \in Conns
           /\ ~Up(f.conn) /\ ~Gone(f.conn)
           /\ Closing(f.conn) => f.kind = "remove"
           /\ Connecting(f.conn) => f.kind = "established"
<1>1. Fits(f, l)
  BY DEF QueueInv
<1> QED
  BY <1>1 DEF Fits, Life, Connecting, Closing, Closed, Up, Gone, Functors

\* When such a functor was run, its connection has none left.
LEMMA NoneLeft ==
    ASSUME QueueInv, NEW l \in Loops, NEW f \in Jobs(l), Life(f), Popped(l, f),
           NEW m \in Loops, NEW g, g \in Jobs(m)', g.conn = f.conn
    PROVE  ~Life(g)
<1> SUFFICES ASSUME Life(g) PROVE FALSE
  OBVIOUS
<1>1. g \in Jobs(m)
  BY DEF Popped
<1>2. l = m /\ f = g
  BY <1>1, OneFunctor
<1> QED
  BY <1>2 DEF Popped

\* A step that moves one connection to another phase, with what it has to
\* show: new functors are for that connection and fit its new phase, and no
\* functor of another connection is lost.
Move(c) ==
    /\ \A d \in Conns : d # c => Still(d) /\ (d > conn_id_' <=> d > conn_id_)
    /\ conn_id_' \in Nat /\ conn_id_ <= conn_id_' /\ c <= conn_id_'
    /\ Phase(c)'
    /\ \A l \in Loops : \A f \in Jobs(l)' :
        (f \in Jobs(l) \/ f.conn = c) /\ (f.conn = c => Fits(f, l)')
    /\ \A l \in Loops : \A f \in Jobs(l) : f.conn # c => f \in Jobs(l)'
    /\ Closed(c)' => \E l \in Loops : Functor("destroyed", c) \in Jobs(l)'

\* Such a step keeps the invariants about phases and functors.
LEMMA MoveInv ==
    ASSUME PoolTypes, PhaseInv, QueueInv, KeptInv, NEW c \in Conns, Move(c)
    PROVE  PhaseInv' /\ QueueInv' /\ KeptInv'
<1>0. conn_id_ \in Nat
  BY DEF PoolTypes
<1>1. PhaseInv'
  <2> SUFFICES ASSUME NEW d \in Conns
               PROVE  IF d > conn_id_' THEN Absent(d)' ELSE Phase(d)'
    BY DEF PhaseInv
  <2>1. CASE d = c
    <3>1. ~(d > conn_id_')
      BY <2>1 DEF Move, Conns
    <3> QED
      BY <2>1, <3>1 DEF Move
  <2>2. CASE d # c
    <3>1. Still(d) /\ (d > conn_id_' <=> d > conn_id_)
      BY <2>2 DEF Move
    <3> QED
      BY <3>1, StillSame DEF PhaseInv, Phase
  <2> QED
    BY <2>1, <2>2
<1>2. QueueInv'
  <2> SUFFICES ASSUME NEW l \in Loops, NEW f \in Jobs(l)'
               PROVE  Fits(f, l)'
    BY DEF QueueInv
  <2>1. CASE f.conn = c
    BY <2>1 DEF Move
  <2>2. CASE f.conn # c
    <3>1. f \in Jobs(l)
      BY <2>2 DEF Move
    <3>2. Fits(f, l)
      BY <3>1 DEF QueueInv
    <3>3. f.conn \in Conns /\ f \in Functors
      BY <3>2 DEF Fits, Functors
    <3>4. Still(f.conn) /\ conn_id_ <= conn_id_' /\ conn_id_' \in Nat
      BY <2>2, <3>3 DEF Move
    <3>5. /\ Connecting(f.conn)' <=> Connecting(f.conn)
          /\ Closing(f.conn)' <=> Closing(f.conn)
          /\ Closed(f.conn)' <=> Closed(f.conn)
          /\ io'[f.conn] = io[f.conn]
      BY <3>3, <3>4, StillSame DEF Still
    <3>6. f.conn <= conn_id_'
      BY <1>0, <3>2, <3>3, <3>4 DEF Fits, Conns
    <3> QED
      BY <3>2, <3>3, <3>5, <3>6 DEF Fits
  <2> QED
    BY <2>1, <2>2
<1>3. KeptInv'
  <2> SUFFICES ASSUME NEW d \in Conns, Closed(d)'
               PROVE  \E l \in Loops : Functor("destroyed", d) \in Jobs(l)'
    BY DEF KeptInv
  <2>1. CASE d = c
    BY <2>1 DEF Move
  <2>2. CASE d # c
    <3>1. Closed(d)
      BY <2>2, StillSame DEF Move
    <3>2. PICK l \in Loops : Functor("destroyed", d) \in Jobs(l)
      BY <3>1 DEF KeptInv
    <3>3. Functor("destroyed", d).conn # c
      BY <2>2 DEF Functor
    <3> QED
      BY <3>2, <3>3 DEF Move
  <2> QED
    BY <2>1, <2>2
<1> QED
  BY <1>1, <1>2, <1>3

\* A step that touches no connection and queues nothing.
LEMMA StayInv ==
    ASSUME PhaseInv, QueueInv, KeptInv, UNCHANGED conn_id_,
           \A d \in Conns : Still(d), \A l \in Loops : Jobs(l)' = Jobs(l)
    PROVE  PhaseInv' /\ QueueInv' /\ KeptInv'
<1>1. PhaseInv'
  BY StillSame DEF PhaseInv, Phase
<1>2. QueueInv'
  <2> SUFFICES ASSUME NEW l \in Loops, NEW f \in Jobs(l)'
               PROVE  Fits(f, l)'
    BY DEF QueueInv
  <2>1. Fits(f, l)
    BY DEF QueueInv
  <2>2. f.conn \in Conns
    BY <2>1 DEF Fits, Functors
  <2> QED
    BY <2>1, <2>2, StillSame DEF Fits, Still
<1>3. KeptInv'
  BY StillSame DEF KeptInv
<1> QED
  BY <1>1, <1>2, <1>3

-----------------------------------------------------------------------------
(***************************************************************************)
(* The steps of a loop in ExecutePendingFuncs.                             *)
(***************************************************************************)
\* What it means to run a functor that queues nothing.
LEMMA RunStep ==
    ASSUME SInv, NEW l \in Loops, NEW kind, Running(l, kind), UNCHANGED <<batch, pending>>
    PROVE  \E f \in Functors :
                /\ f \in Jobs(l) /\ f.kind = kind /\ f.conn = Arg(l) /\ f.conn \in Conns
                /\ Fits(f, l) /\ Popped(l, f) /\ QueueTypes' /\ OnceInv'
<1> DEFINE f == batch[l][pos[l] + 1]
<1>1. QueueTypes /\ OnceInv /\ QueueInv
  BY DEF SInv, Types
<1>2. /\ pos[l] < Len(batch[l]) /\ pos' = [pos EXCEPT ![l] = @ + 1]
      /\ f.kind = kind /\ f.conn = Arg(l)
  BY DEF Running, Arg
<1>3. f \in Functors /\ f \in Jobs(l) /\ QueueTypes' /\ OnceInv' /\ Popped(l, f)
  <2> SUFFICES ASSUME NEW g, g = f
               PROVE  g \in Functors /\ g \in Jobs(l) /\ QueueTypes' /\ OnceInv' /\ Popped(l, g)
    OBVIOUS
  <2> QED
    BY <1>1, <1>2, QueuePop
<1>4. Fits(f, l) /\ f.conn \in Conns
  BY <1>1, <1>3 DEF QueueInv, Functors
<1> QED
  BY <1>2, <1>3, <1>4

\* set_connection_established.
LEMMA RunEstablishedSInv ==
    ASSUME SInv, NEW l \in Loops, RunEstablished(l)
    PROVE  SInv'
<1>0. Types /\ PoolTypes /\ ConnTypes /\ UserTypes /\ PhaseInv /\ QueueInv /\ KeptInv /\ UserInv
  BY DEF SInv, Types
<1>1. PICK f \in Functors :
        /\ f \in Jobs(l) /\ f.kind = "established" /\ f.conn = Arg(l) /\ f.conn \in Conns
        /\ Fits(f, l) /\ Popped(l, f) /\ QueueTypes' /\ OnceInv'
  BY RunStep DEF RunEstablished
<1>2. PICK c \in Conns : c = f.conn
  BY <1>1
<1>3. Connecting(c) /\ c <= conn_id_ /\ Life(f)
  BY <1>1, <1>2 DEF Fits, Life
<1>4. /\ UserMayShutDown(c, "CONNECTED")
      /\ caring' = caring \cup {c}
      /\ ups' = [ups EXCEPT ![c] = @ + 1]
      /\ userRef' \in {userRef, userRef \cup {c}}
      /\ UNCHANGED <<num_threads_, started_, next_, conn_id_, connections_, io, registered,
                     peer, call, calls, downs, usedDead>>
  BY <1>1, <1>2 DEF RunEstablished, Established, CareRead, UserMayKeep, poolVars
<1>5. aborted' = FALSE
  <2>1. state_[Arg(l)] = "CONNECTING"
    BY <1>1, <1>2, <1>3 DEF Connecting
  <2> QED
    BY <2>1, Zenon DEF RunEstablished
<1>6. /\ state_' \in [Conns -> {"none", "CONNECTING", "CONNECTED", "DISCONNECTING", "DISCONNECTED"}]
      /\ state_'[c] \in {"CONNECTED", "DISCONNECTING"}
      /\ \A d \in Conns : d # c => state_'[d] = state_[d]
  BY <1>0, <1>4 DEF UserMayShutDown, ConnTypes
<1>7. ups' \in [Conns -> Nat] /\ ups'[c] = 1 /\ \A d \in Conns : d # c => ups'[d] = ups[d]
  BY <1>0, <1>3, <1>4 DEF ConnTypes, Connecting
<1>8. Types'
  <2>1. PoolTypes'
    BY <1>0, <1>4 DEF PoolTypes
  <2>2. ConnTypes'
    BY <1>0, <1>4, <1>6, <1>7 DEF ConnTypes
  <2>3. UserTypes'
    BY <1>0, <1>4 DEF UserTypes
  <2> QED
    BY <1>1, <2>1, <2>2, <2>3 DEF Types
<1>9. UserInv'
  BY <1>0, <1>4, <1>7 DEF UserInv, UserTypes
<1>10. Move(c)
  <2>1. \A d \in Conns : d # c => Still(d) /\ (d > conn_id_' <=> d > conn_id_)
    BY <1>4, <1>6, <1>7 DEF Still
  <2>2. Up(c)'
    BY <1>3, <1>4, <1>6, <1>7 DEF Up, Open, Connecting
  <2>3. conn_id_' \in Nat /\ conn_id_ <= conn_id_' /\ c <= conn_id_'
    BY <1>0, <1>3, <1>4 DEF PoolTypes
  <2>4. ASSUME NEW m \in Loops, NEW g \in Jobs(m)'
        PROVE  g \in Jobs(m) /\ (g.conn = c => Fits(g, m)')
    <3>1. g \in Jobs(m)
      BY <1>1 DEF Popped
    <3>2. ASSUME g.conn = c PROVE Fits(g, m)'
      <4>1. ~Life(g)
        BY <1>0, <1>1, <1>2, <1>3, <3>2, NoneLeft
      <4>2. Fits(g, m)
        BY <1>0, <3>1 DEF QueueInv
      <4> QED
        BY <1>4, <4>1, <4>2 DEF Fits, Life
    <3> QED
      BY <3>1, <3>2
  <2>5. \A m \in Loops : \A g \in Jobs(m) : g.conn # c => g \in Jobs(m)'
    BY <1>1, <1>2 DEF Popped
  <2>6. ~Closed(c)'
    BY <2>2 DEF Up, Closed
  <2> QED
    BY <2>1, <2>2, <2>3, <2>4, <2>5, <2>6 DEF Move, Phase
<1> QED
  BY <1>0, <1>1, <1>5, <1>8, <1>9, <1>10, MoveInv DEF SInv

\* set_connection_destroyed.
LEMMA RunDestroyedSInv ==
    ASSUME SInv, NEW l \in Loops, RunDestroyed(l)
    PROVE  SInv'
<1>0. Types /\ PoolTypes /\ ConnTypes /\ UserTypes /\ PhaseInv /\ QueueInv /\ KeptInv /\ UserInv
  BY DEF SInv, Types
<1>1. PICK f \in Functors :
        /\ f \in Jobs(l) /\ f.kind = "destroyed" /\ f.conn = Arg(l) /\ f.conn \in Conns
        /\ Fits(f, l) /\ Popped(l, f) /\ QueueTypes' /\ OnceInv'
  BY RunStep DEF RunDestroyed
<1>2. PICK c \in Conns : c = f.conn
  BY <1>1
<1>3. Closed(c) /\ c <= conn_id_ /\ Life(f)
  BY <1>1, <1>2 DEF Fits, Life
<1>4. /\ state_' = [state_ EXCEPT ![c] = "DISCONNECTED"]
      /\ caring' = caring \ {c} /\ registered' = registered \ {c}
      /\ downs' = [downs EXCEPT ![c] = @ + 1]
      /\ userRef' \in {userRef, userRef \cup {c}}
      /\ UNCHANGED <<num_threads_, started_, next_, conn_id_, connections_, io,
                     peer, call, calls, ups, usedDead>>
  BY <1>1, <1>2 DEF RunDestroyed, Destroyed, CareNothing, DeleteEvent, UserMayKeep, poolVars
<1>5. aborted' = FALSE
  <2>1. state_[Arg(l)] \in {"CONNECTED", "DISCONNECTING"}
    BY <1>1, <1>2, <1>3 DEF Closed, Open
  <2> QED
    BY <2>1, Zenon DEF RunDestroyed, Destroyed
<1>6. /\ state_' \in [Conns -> {"none", "CONNECTING", "CONNECTED", "DISCONNECTING", "DISCONNECTED"}]
      /\ state_'[c] = "DISCONNECTED"
      /\ \A d \in Conns : d # c => state_'[d] = state_[d]
  BY <1>0, <1>4 DEF ConnTypes
<1>7. downs' \in [Conns -> Nat] /\ downs'[c] = 1 /\ \A d \in Conns : d # c => downs'[d] = downs[d]
  BY <1>0, <1>3, <1>4 DEF ConnTypes, Closed
<1>8. Types'
  <2>1. PoolTypes'
    BY <1>0, <1>4 DEF PoolTypes
  <2>2. ConnTypes'
    BY <1>0, <1>4, <1>6, <1>7 DEF ConnTypes
  <2>3. UserTypes'
    BY <1>0, <1>4 DEF UserTypes
  <2> QED
    BY <1>1, <2>1, <2>2, <2>3 DEF Types
<1>9. UserInv'
  BY <1>0, <1>3, <1>4 DEF UserInv, UserTypes, Closed
<1>10. Move(c)
  <2>1. \A d \in Conns : d # c => Still(d) /\ (d > conn_id_' <=> d > conn_id_)
    BY <1>4, <1>6, <1>7 DEF Still
  <2>2. Gone(c)'
    BY <1>3, <1>4, <1>6, <1>7 DEF Gone, Closed
  <2>3. conn_id_' \in Nat /\ conn_id_ <= conn_id_' /\ c <= conn_id_'
    BY <1>0, <1>3, <1>4 DEF PoolTypes
  <2>4. ASSUME NEW m \in Loops, NEW g \in Jobs(m)'
        PROVE  g \in Jobs(m) /\ (g.conn = c => Fits(g, m)')
    <3>1. g \in Jobs(m)
      BY <1>1 DEF Popped
    <3>2. ASSUME g.conn = c PROVE Fits(g, m)'
      <4>1. ~Life(g)
        BY <1>0, <1>1, <1>2, <1>3, <3>2, NoneLeft
      <4>2. Fits(g, m)
        BY <1>0, <3>1 DEF QueueInv
      <4> QED
        BY <1>4, <4>1, <4>2 DEF Fits, Life
    <3> QED
      BY <3>1, <3>2
  <2>5. \A m \in Loops : \A g \in Jobs(m) : g.conn # c => g \in Jobs(m)'
    BY <1>1, <1>2 DEF Popped
  <2>6. ~Closed(c)'
    BY <2>2 DEF Gone, Closed
  <2> QED
    BY <2>1, <2>2, <2>3, <2>4, <2>5, <2>6 DEF Move, Phase
<1> QED
  BY <1>0, <1>1, <1>5, <1>8, <1>9, <1>10, MoveInv DEF SInv

\* SendInLoop and ShutDownInLoop: the connection stays in its phase, whether
\* it still exists or not.
LEMMA RunRawSInv ==
    ASSUME SInv, NEW l \in Loops, RunRaw(l)
    PROVE  SInv'
<1>0. Types /\ PoolTypes /\ ConnTypes /\ UserTypes /\ PhaseInv /\ QueueInv /\ KeptInv /\ UserInv
  BY DEF SInv, Types
<1>1. PICK f \in Functors :
        /\ f \in Jobs(l) /\ f.kind \in {"send", "shutdown"} /\ f.conn \in Conns
        /\ Fits(f, l) /\ Popped(l, f) /\ QueueTypes' /\ OnceInv'
  BY RunStep DEF RunRaw
<1>2. PICK c \in Conns : c = f.conn
  BY <1>1
<1>3. c <= conn_id_ /\ ~Life(f)
  BY <1>1, <1>2 DEF Fits, Life
<1>4. UNCHANGED <<num_threads_, started_, next_, conn_id_, connections_, io, state_, caring,
                  registered, peer, userRef, call, calls, ups, downs, aborted>>
  BY DEF RunRaw, poolVars, connVars, userVars
<1>5. usedDead' \in BOOLEAN
  BY <1>0, Zenon DEF RunRaw, UserTypes
<1>6. Types'
  <2>1. PoolTypes' /\ ConnTypes'
    BY <1>0, <1>4 DEF PoolTypes, ConnTypes
  <2>2. UserTypes'
    BY <1>0, <1>4, <1>5 DEF UserTypes
  <2> QED
    BY <1>1, <2>1, <2>2 DEF Types
<1>7. UserInv'
  BY <1>0, <1>4 DEF UserInv
<1>8. \A d \in Conns : Still(d)
  BY <1>4 DEF Still
<1>9. Move(c)
  <2>1. \A d \in Conns : d # c => Still(d) /\ (d > conn_id_' <=> d > conn_id_)
    BY <1>4, <1>8
  <2>2. Phase(c)
    BY <1>0, <1>3 DEF PhaseInv, PoolTypes, Conns
  <2>3. Phase(c)' /\ (Closed(c)' => Closed(c))
    BY <1>8, <2>2, StillSame DEF Phase
  <2>4. conn_id_' \in Nat /\ conn_id_ <= conn_id_' /\ c <= conn_id_'
    BY <1>0, <1>3, <1>4 DEF PoolTypes
  <2>5. ASSUME NEW m \in Loops, NEW g \in Jobs(m)'
        PROVE  g \in Jobs(m) /\ (g.conn = c => Fits(g, m)')
    <3>1. g \in Jobs(m)
      BY <1>1 DEF Popped
    <3>2. Fits(g, m) /\ g.conn \in Conns
      BY <1>0, <3>1 DEF QueueInv, Fits, Functors
    <3>3. Fits(g, m)'
      BY <1>4, <1>8, <3>2, StillSame DEF Fits
    <3> QED
      BY <3>1, <3>3
  <2>6. \A m \in Loops : \A g \in Jobs(m) : g # f => g \in Jobs(m)'
    BY <1>1 DEF Popped
  <2>7. ASSUME Closed(c) PROVE \E m \in Loops : Functor("destroyed", c) \in Jobs(m)'
    <3>1. PICK m \in Loops : Functor("destroyed", c) \in Jobs(m)
      BY <1>0, <2>7 DEF KeptInv
    <3>2. Functor("destroyed", c) # f
      BY <1>3 DEF Functor, Life
    <3> QED
      BY <2>6, <3>1, <3>2
  <2> QED
    BY <1>2, <2>1, <2>3, <2>4, <2>5, <2>6, <2>7 DEF Move
<1> QED
  BY <1>0, <1>1, <1>4, <1>6, <1>7, <1>9, MoveInv DEF SInv

\* RemoveConnectionInLoop on the base loop, for a connection of another loop.
LEMMA RunRemoveSInv ==
    ASSUME SInv, NEW l \in Loops, RunRemove(l)
    PROVE  SInv'
<1>0. Types /\ PoolTypes /\ ConnTypes /\ QueueTypes /\ UserTypes /\ PhaseInv /\ QueueInv /\ OnceInv
      /\ KeptInv /\ UserInv
  BY DEF SInv, Types
<1>1. PICK f : f = batch[l][pos[l] + 1]
  OBVIOUS
<1>2. /\ pos[l] < Len(batch[l]) /\ pos' = [pos EXCEPT ![l] = @ + 1]
      /\ f.kind = "remove" /\ f.conn = Arg(l)
  BY <1>1 DEF RunRemove, Running, Arg
<1>3. f \in Functors /\ f \in Jobs(l)
  <2>1. batch[l] \in Seq(Functors) /\ pos[l] \in 0..Len(batch[l]) /\ pending[l] \in Seq(Functors)
    BY <1>0 DEF QueueTypes
  <2>2. Todo(l) # <<>> /\ Head(Todo(l)) = f /\ Todo(l) \in Seq(Functors)
    BY <1>0, <1>1, <1>2, <2>1, RestPop, TodoType DEF Todo
  <2> QED
    BY <1>0, <2>2, Pop, TodoType DEF Jobs
<1>4. PICK c \in Conns : c = f.conn
  BY <1>3 DEF Functors
<1>5. Closing(c) /\ l = Base /\ c <= conn_id_ /\ Life(f) /\ Fits(f, l)
  BY <1>0, <1>2, <1>3, <1>4 DEF QueueInv, Fits, Life
<1>6. PICK k \in Loops : k = io[c] /\ k # l
  BY <1>0, <1>5, ServerAssumption DEF Closing, PoolTypes, Loops, Base
<1>7. PICK g \in Functors : g = Functor("destroyed", c)
  BY DEF Functors, Functor, Kinds
<1>8. g.kind = "destroyed" /\ g.conn = c /\ Life(g)
  BY <1>7 DEF Functor, Life
<1>9. g \notin Jobs(k)
  BY <1>0, <1>5, <1>8, NoFunctor
<1>10. /\ connections_' = connections_ \ {c}
       /\ pending' = Queued(pending, k, g)
       /\ UNCHANGED <<num_threads_, started_, next_, conn_id_, io, state_, caring, registered,
                      peer, batch, userRef, call, calls, ups, downs, usedDead>>
  BY <1>2, <1>4, <1>6, <1>7 DEF RunRemove, RemoveInLoop, poolVars, userVars, traceVars
<1>11. aborted' = FALSE
  <2>1. Arg(l) \in connections_
    BY <1>2, <1>4, <1>5 DEF Closing
  <2> QED
    BY <2>1, Zenon DEF RunRemove, RemoveInLoop
<1>12. /\ QueueTypes' /\ OnceInv'
       /\ Jobs(l) = Jobs(l)' \cup {f}
       /\ f \notin Jobs(l)'
       /\ Jobs(k)' = Jobs(k) \cup {g}
       /\ \A m \in Loops : m # l /\ m # k => Jobs(m)' = Jobs(m)
  <2>1. RunsAndQueues(l, f, k, g)
    BY <1>1, <1>2, <1>6, <1>9, <1>10 DEF RunsAndQueues
  <2> QED
    BY <1>0, <1>5, <2>1, QueuePopPush
<1>13. Types'
  <2>1. PoolTypes' /\ ConnTypes' /\ UserTypes'
    BY <1>0, <1>10 DEF PoolTypes, ConnTypes, UserTypes
  <2> QED
    BY <1>12, <2>1 DEF Types
<1>14. UserInv'
  BY <1>0, <1>10 DEF UserInv
<1>15. Move(c)
  <2>1. \A d \in Conns : d # c => Still(d) /\ (d > conn_id_' <=> d > conn_id_)
    BY <1>10 DEF Still
  <2>2. Closed(c)'
    BY <1>5, <1>10 DEF Closed, Closing, Open
  <2>3. conn_id_' \in Nat /\ conn_id_ <= conn_id_' /\ c <= conn_id_'
    BY <1>0, <1>5, <1>10 DEF PoolTypes
  <2>4. ASSUME NEW m \in Loops, NEW h \in Jobs(m)'
        PROVE  (h \in Jobs(m) \/ h.conn = c) /\ (h.conn = c => Fits(h, m)')
    <3>1. CASE m = k /\ h = g
      <4>1. Fits(g, k)'
        BY <1>4, <1>5, <1>6, <1>8, <1>10, <2>2 DEF Fits
      <4> QED
        BY <1>8, <3>1, <4>1
    <3>2. CASE ~(m = k /\ h = g)
      <4>1. h \in Jobs(m)
        BY <1>12, <3>2
      <4>2. ASSUME h.conn = c PROVE ~Life(h)
        <5> SUFFICES ASSUME Life(h) PROVE FALSE
          OBVIOUS
        <5>1. m = l /\ h = f
          BY <1>0, <1>3, <1>4, <1>5, <4>1, <4>2, OneFunctor
        <5> QED
          BY <1>12, <5>1
      <4>3. Fits(h, m)
        BY <1>0, <4>1 DEF QueueInv
      <4> QED
        BY <1>10, <4>1, <4>2, <4>3 DEF Fits, Life
    <3> QED
      BY <3>1, <3>2
  <2>5. \A m \in Loops : \A h \in Jobs(m) : h.conn # c => h \in Jobs(m)'
    BY <1>4, <1>12
  <2>6. Functor("destroyed", c) \in Jobs(k)'
    BY <1>7, <1>12
  <2> QED
    BY <2>1, <2>2, <2>3, <2>4, <2>5, <2>6 DEF Move, Phase
<1> QED
  BY <1>0, <1>11, <1>12, <1>13, <1>14, <1>15, MoveInv DEF SInv

-----------------------------------------------------------------------------
(***************************************************************************)
(* The event handlers of a connection.                                     *)
(***************************************************************************)
\* A message callback may shut the connection down; it stays up.
LEMMA HandleMessageSInv ==
    ASSUME SInv, NEW c \in Conns, HandleMessage(c)
    PROVE  SInv'
<1>0. Types /\ PoolTypes /\ ConnTypes /\ QueueTypes /\ UserTypes /\ PhaseInv /\ QueueInv /\ OnceInv
      /\ KeptInv /\ UserInv
  BY DEF SInv, Types
<1>1. /\ c \in caring
      /\ userRef' \in {userRef, userRef \cup {c}}
      /\ UserMayShutDown(c, state_[c])
      /\ UNCHANGED <<num_threads_, started_, next_, conn_id_, connections_, io, caring,
                     registered, peer, pending, batch, pos, call, calls, ups, downs,
                     usedDead, aborted>>
  BY DEF HandleMessage, UserMayKeep, poolVars, loopVars, traceVars
<1>2. Up(c) /\ c <= conn_id_
  BY <1>0, <1>1 DEF PhaseInv, Phase, Absent, Connecting, Closing, Closed, Gone, PoolTypes, Conns
<1>3. /\ state_' \in [Conns -> {"none", "CONNECTING", "CONNECTED", "DISCONNECTING", "DISCONNECTED"}]
      /\ state_'[c] \in {"CONNECTED", "DISCONNECTING"}
      /\ \A d \in Conns : d # c => state_'[d] = state_[d]
  BY <1>0, <1>1, <1>2 DEF UserMayShutDown, ConnTypes, Up, Open
<1>4. Types'
  <2>1. PoolTypes' /\ QueueTypes'
    BY <1>0, <1>1 DEF PoolTypes, QueueTypes
  <2>2. ConnTypes'
    BY <1>0, <1>1, <1>3 DEF ConnTypes
  <2>3. UserTypes'
    BY <1>0, <1>1 DEF UserTypes
  <2> QED
    BY <2>1, <2>2, <2>3 DEF Types
<1>5. \A m \in Loops : Todo(m)' = Todo(m) /\ Jobs(m)' = Jobs(m)
  BY <1>1 DEF Todo, Jobs
<1>6. OnceInv' /\ UserInv'
  BY <1>0, <1>1, <1>2, <1>5 DEF OnceInv, UserInv, Up
<1>7. Move(c)
  <2>1. \A d \in Conns : d # c => Still(d) /\ (d > conn_id_' <=> d > conn_id_)
    BY <1>1, <1>3 DEF Still
  <2>2. Up(c)' /\ ~Closed(c)'
    BY <1>1, <1>2, <1>3 DEF Up, Open, Closed
  <2>3. conn_id_' \in Nat /\ conn_id_ <= conn_id_' /\ c <= conn_id_'
    BY <1>0, <1>1, <1>2 DEF PoolTypes
  <2>4. ASSUME NEW m \in Loops, NEW g \in Jobs(m)'
        PROVE  g \in Jobs(m) /\ (g.conn = c => Fits(g, m)')
    <3>1. g \in Jobs(m)
      BY <1>5
    <3>2. Fits(g, m) /\ (g.conn = c => ~Life(g))
      BY <1>0, <1>2, <3>1, NoFunctor DEF QueueInv
    <3> QED
      BY <1>1, <3>1, <3>2 DEF Fits, Life
  <2> QED
    BY <1>5, <2>1, <2>2, <2>3, <2>4 DEF Move, Phase
<1>8. aborted' = FALSE
  BY <1>1 DEF SInv
<1> QED
  BY <1>0, <1>4, <1>6, <1>7, <1>8, MoveInv DEF SInv

\* HandleClose: the functor that goes on with the close is queued once,
\* because the socket is no longer watched.
LEMMA HandleCloseSInv ==
    ASSUME SInv, NEW c \in Conns, HandleClose(c)
    PROVE  SInv'
<1>0. Types /\ PoolTypes /\ ConnTypes /\ QueueTypes /\ UserTypes /\ PhaseInv /\ QueueInv /\ OnceInv
      /\ KeptInv /\ UserInv
  BY DEF SInv, Types
<1>1. /\ c \in caring
      /\ UNCHANGED <<num_threads_, started_, next_, conn_id_, io, state_,
                     registered, peer, batch, pos, userRef, call, calls, ups, downs, usedDead>>
  BY DEF HandleClose, poolVars, userVars, traceVars
<1>2. Up(c) /\ c <= conn_id_
  BY <1>0, <1>1 DEF PhaseInv, Phase, Absent, Connecting, Closing, Closed, Gone, PoolTypes, Conns
<1>3. PICK g \in Functors, k \in Loops :
         /\ g.conn = c /\ Life(g)
         /\ pending' = Queued(pending, k, g)
         /\ caring' = caring \ {c}
         /\ aborted' = FALSE
         /\ \/ io[c] = Base /\ k = Base /\ g = Functor("destroyed", c)
               /\ connections_' = connections_ \ {c}
            \/ io[c] # Base /\ k = Base /\ g = Functor("remove", c)
               /\ connections_' = connections_
  <2>0. state_[c] \in {"CONNECTED", "DISCONNECTING"} /\ c \in connections_
    BY <1>2 DEF Up, Open
  <2>1. CASE io[c] = Base
    <3>1. /\ caring' = caring \ {c} /\ aborted' = (c \notin connections_)
          /\ connections_' = connections_ \ {c}
          /\ pending' = Queued(pending, io[c], Functor("destroyed", c))
      BY <2>0, <2>1 DEF HandleClose, StopCaring, CareNothing, RemoveInLoop
    <3>2. aborted' = FALSE
      BY <2>0, <3>1, Zenon
    <3>3. Functor("destroyed", c) \in Functors /\ Functor("destroyed", c).conn = c
          /\ Life(Functor("destroyed", c)) /\ Base \in Loops
      BY DEF Functor, Functors, Kinds, Life, Loops
    <3> QED
      BY <2>1, <3>1, <3>2, <3>3
  <2>2. CASE io[c] # Base
    <3>1. /\ caring' = caring \ {c} /\ aborted' = aborted
          /\ connections_' = connections_
          /\ pending' = Queued(pending, Base, Functor("remove", c))
      BY <2>0, <2>2 DEF HandleClose, StopCaring, CareNothing
    <3>2. aborted' = FALSE
      BY <3>1 DEF SInv
    <3>3. Functor("remove", c) \in Functors /\ Functor("remove", c).conn = c
          /\ Life(Functor("remove", c)) /\ Base \in Loops
      BY DEF Functor, Functors, Kinds, Life, Loops
    <3> QED
      BY <2>2, <3>1, <3>2, <3>3
  <2> QED
    BY <2>1, <2>2
<1>4. g \notin Jobs(k)
  BY <1>0, <1>2, <1>3, NoFunctor
<1>5. QueueTypes' /\ OnceInv' /\ Pushed(k, g)
  BY <1>0, <1>1, <1>3, <1>4, QueuePush
<1>6. Types'
  <2>1. PoolTypes' /\ UserTypes'
    BY <1>0, <1>1 DEF PoolTypes, UserTypes
  <2>2. ConnTypes'
    BY <1>0, <1>1, <1>3 DEF ConnTypes
  <2> QED
    BY <1>5, <2>1, <2>2 DEF Types
<1>7. UserInv'
  BY <1>0, <1>1 DEF UserInv
<1>8. Move(c)
  <2>1. \A d \in Conns : d # c => Still(d) /\ (d > conn_id_' <=> d > conn_id_)
    BY <1>1, <1>3 DEF Still
  <2>2. \/ Closed(c)' /\ k = io[c] /\ g = Functor("destroyed", c)
        \/ Closing(c)' /\ ~Closed(c)' /\ k = Base /\ g = Functor("remove", c)
    BY <1>1, <1>2, <1>3 DEF Up, Open, Closed, Closing
  <2>3. conn_id_' \in Nat /\ conn_id_ <= conn_id_' /\ c <= conn_id_'
    BY <1>0, <1>1, <1>2 DEF PoolTypes
  <2>4. ASSUME NEW m \in Loops, NEW h \in Jobs(m)'
        PROVE  (h \in Jobs(m) \/ h.conn = c) /\ (h.conn = c => Fits(h, m)')
    <3>1. CASE m = k /\ h = g
      <4>1. Fits(g, k)'
        BY <1>1, <1>2, <1>3, <2>2 DEF Fits, Functor
      <4> QED
        BY <1>3, <3>1, <4>1
    <3>2. CASE ~(m = k /\ h = g)
      <4>1. h \in Jobs(m)
        BY <1>5, <3>2 DEF Pushed
      <4>2. Fits(h, m) /\ (h.conn = c => ~Life(h))
        BY <1>0, <1>2, <4>1, NoFunctor DEF QueueInv
      <4> QED
        BY <1>1, <4>1, <4>2 DEF Fits, Life
    <3> QED
      BY <3>1, <3>2
  <2>5. \A m \in Loops : \A h \in Jobs(m) : h \in Jobs(m)'
    BY <1>5 DEF Pushed
  <2>6. Closed(c)' => Functor("destroyed", c) \in Jobs(k)'
    BY <1>5, <2>2 DEF Pushed
  <2> QED
    BY <2>1, <2>2, <2>3, <2>4, <2>5, <2>6 DEF Move, Phase
<1> QED
  BY <1>0, <1>3, <1>5, <1>6, <1>7, <1>8, MoveInv DEF SInv

-----------------------------------------------------------------------------
(***************************************************************************)
(* A user thread hands its call to the loop, and the server accepts.       *)
(***************************************************************************)
\* The connection was established when the call began: whatever has happened
\* to it since, the late store of kDisconnecting leaves it in its phase.
LEMMA UserSubmitSInv ==
    ASSUME SInv, NEW kind \in {"send", "shutdown"}, UserSubmit(kind)
    PROVE  SInv'
<1>0. Types /\ PoolTypes /\ ConnTypes /\ QueueTypes /\ UserTypes /\ PhaseInv /\ QueueInv /\ OnceInv
      /\ KeptInv /\ UserInv
  BY DEF SInv, Types
<1>1. PICK c \in Conns : c = call[kind] /\ ups[c] = 1
  BY <1>0 DEF UserSubmit, UserTypes, UserInv
<1>2. PICK g \in Functors : g = Functor(kind, c)
  BY DEF Functors, Functor, Kinds
<1>3. g.kind = kind /\ g.conn = c /\ ~Life(g)
  BY <1>2 DEF Functor, Life
<1>4. PICK k \in Loops : k = io[c]
  BY <1>0, ServerAssumption DEF PoolTypes, Loops, Base
<1>5. /\ state_' = IF kind = "shutdown" THEN [state_ EXCEPT ![c] = "DISCONNECTING"] ELSE state_
      /\ pending' = Queued(pending, k, g)
      /\ call' = [call EXCEPT ![kind] = 0]
      /\ UNCHANGED <<num_threads_, started_, next_, conn_id_, connections_, io, caring,
                     registered, peer, batch, pos, userRef, calls, ups, downs, usedDead, aborted>>
  BY <1>1, <1>2, <1>4 DEF UserSubmit, poolVars, traceVars
<1>6. QueueTypes' /\ OnceInv' /\ Pushed(k, g)
  BY <1>0, <1>3, <1>5, QueuePush
<1>7. c <= conn_id_ /\ (Up(c) \/ Closing(c) \/ Closed(c) \/ Gone(c))
  BY <1>0, <1>1 DEF PhaseInv, Phase, Absent, Connecting, PoolTypes, Conns
<1>8. /\ state_' \in [Conns -> {"none", "CONNECTING", "CONNECTED", "DISCONNECTING", "DISCONNECTED"}]
      /\ state_'[c] \in {state_[c], "DISCONNECTING"}
      /\ \A d \in Conns : d # c => state_'[d] = state_[d]
  BY <1>0, <1>5 DEF ConnTypes
<1>9. Types'
  <2>1. PoolTypes'
    BY <1>0, <1>5 DEF PoolTypes
  <2>2. ConnTypes'
    BY <1>0, <1>5, <1>8 DEF ConnTypes
  <2>3. UserTypes'
    BY <1>0, <1>5 DEF UserTypes
  <2> QED
    BY <1>6, <2>1, <2>2, <2>3 DEF Types
<1>10. UserInv'
  BY <1>0, <1>5 DEF UserInv, UserTypes
<1>11. /\ Up(c) => Up(c)'
       /\ Closing(c) => Closing(c)'
       /\ Closed(c) => Closed(c)'
       /\ Gone(c) => Gone(c)'
       /\ Closed(c)' => Closed(c)
  BY <1>5, <1>7, <1>8 DEF Up, Closing, Closed, Gone, Open
<1>12. Move(c)
  <2>1. \A d \in Conns : d # c => Still(d) /\ (d > conn_id_' <=> d > conn_id_)
    BY <1>5, <1>8 DEF Still
  <2>2. Phase(c)'
    BY <1>7, <1>11 DEF Phase
  <2>3. conn_id_' \in Nat /\ conn_id_ <= conn_id_' /\ c <= conn_id_'
    BY <1>0, <1>5, <1>7 DEF PoolTypes
  <2>4. ASSUME NEW m \in Loops, NEW h \in Jobs(m)'
        PROVE  (h \in Jobs(m) \/ h.conn = c) /\ (h.conn = c => Fits(h, m)')
    <3>1. CASE m = k /\ h = g
      BY <1>3, <1>5, <1>7, <3>1 DEF Fits, Life
    <3>2. CASE ~(m = k /\ h = g)
      <4>1. h \in Jobs(m)
        BY <1>6, <3>2 DEF Pushed
      <4>2. Fits(h, m)
        BY <1>0, <4>1 DEF QueueInv
      <4>3. ASSUME h.conn = c PROVE ~Connecting(c)
        BY <1>1 DEF Connecting
      <4> QED
        BY <1>5, <1>11, <4>1, <4>2, <4>3 DEF Fits
    <3> QED
      BY <3>1, <3>2
  <2>5. \A m \in Loops : \A h \in Jobs(m) : h \in Jobs(m)'
    BY <1>6 DEF Pushed
  <2>6. Closed(c)' => \E m \in Loops : Functor("destroyed", c) \in Jobs(m)'
    BY <1>0, <1>11, <2>5 DEF KeptInv
  <2> QED
    BY <2>1, <2>2, <2>3, <2>4, <2>5, <2>6 DEF Move
<1>13. aborted' = FALSE
  BY <1>5 DEF SInv
<1> QED
  BY <1>0, <1>6, <1>9, <1>10, <1>12, <1>13, MoveInv DEF SInv

\* NewConnection on the base loop, for either kind of pool.
LEMMA NewConnectionSInv ==
    ASSUME SInv, NewConnection
    PROVE  SInv'
<1>0. Types /\ PoolTypes /\ ConnTypes /\ QueueTypes /\ UserTypes /\ PhaseInv /\ QueueInv /\ OnceInv
      /\ KeptInv /\ UserInv
  BY DEF SInv, Types
<1>1. PICK c \in Conns : c = conn_id_ + 1
  BY <1>0, ServerAssumption DEF NewConnection, PoolTypes, Conns
<1>2. PICK k \in Loops : k = NextDispatcher /\ k \in 0..num_threads_
  BY <1>0, ServerAssumption DEF NextDispatcher, PoolTypes, Loops, Base
<1>3. /\ conn_id_' = c /\ conn_id_ \in Nat
      /\ next_' = IF num_threads_ = 0 THEN next_ ELSE AdvanceNext
      /\ io' = [io EXCEPT ![c] = k]
      /\ connections_' = connections_ \cup {c}
      /\ registered' = registered \cup {c}
      /\ started_
      /\ UNCHANGED <<num_threads_, started_, peer, batch, pos, call, calls, downs, usedDead,
                     aborted>>
  BY <1>0, <1>1, <1>2 DEF NewConnection, AddEvent, PoolTypes
<1>4. \/ /\ k = Base /\ UserMayShutDown(c, "CONNECTED")
         /\ caring' = caring \cup {c}
         /\ ups' = [ups EXCEPT ![c] = @ + 1]
         /\ userRef' \in {userRef, userRef \cup {c}}
         /\ pending' = pending
      \/ /\ k # Base
         /\ state_' = [state_ EXCEPT ![c] = "CONNECTING"]
         /\ pending' = Queued(pending, k, Functor("established", c))
         /\ UNCHANGED <<caring, ups, userRef>>
  BY <1>1, <1>2 DEF NewConnection, Established, CareRead, UserMayKeep
<1>5. Absent(c)
  BY <1>0, <1>1 DEF PhaseInv, PoolTypes
<1>6. /\ io' \in [Conns -> 0..num_threads_] /\ io'[c] = k
      /\ \A d \in Conns : d # c => io'[d] = io[d]
  BY <1>0, <1>2, <1>3 DEF PoolTypes
<1>7. PoolTypes'
  <2>1. next_' \in 0..MaxThreads /\ (num_threads_ > 0 => next_' < num_threads_)
    <3>1. CASE num_threads_ = 0
      BY <1>0, <1>3, <3>1 DEF PoolTypes
    <3>2. CASE num_threads_ # 0
      <4>1. /\ num_threads_ \in Nat /\ num_threads_ > 0 /\ next_ + 1 \in Nat
            /\ num_threads_ <= MaxThreads
        BY <1>0, <3>2, ServerAssumption DEF PoolTypes
      <4>2. next_' = (next_ + 1) % num_threads_
        BY <1>3, <3>2 DEF AdvanceNext
      <4> QED
        BY ONLY <4>1, <4>2, ServerAssumption
    <3> QED
      BY <3>1, <3>2
  <2>2. conn_id_' \in 0..MaxConns
    BY <1>0, <1>3, ServerAssumption DEF Conns
  <2> QED
    BY <1>0, <1>3, <1>6, <2>1, <2>2 DEF PoolTypes
<1>8. \A d \in Conns : d # c => (d > conn_id_' <=> d > conn_id_)
  BY <1>0, <1>1, <1>3 DEF Conns, PoolTypes
<1>9. CASE k = Base
  <2>1. /\ UserMayShutDown(c, "CONNECTED")
        /\ caring' = caring \cup {c}
        /\ ups' = [ups EXCEPT ![c] = @ + 1]
        /\ userRef' \in {userRef, userRef \cup {c}}
        /\ pending' = pending
    BY <1>4, <1>9
  <2>2. /\ state_' \in [Conns -> {"none", "CONNECTING", "CONNECTED", "DISCONNECTING", "DISCONNECTED"}]
        /\ state_'[c] \in {"CONNECTED", "DISCONNECTING"}
        /\ \A d \in Conns : d # c => state_'[d] = state_[d]
    BY <1>0, <2>1 DEF UserMayShutDown, ConnTypes
  <2>3. ups' \in [Conns -> Nat] /\ ups'[c] = 1 /\ \A d \in Conns : d # c => ups'[d] = ups[d]
    BY <1>0, <1>5, <2>1 DEF ConnTypes, Absent
  <2>4. Types'
    <3>1. ConnTypes'
      BY <1>0, <1>3, <2>1, <2>2, <2>3 DEF ConnTypes
    <3>2. QueueTypes' /\ UserTypes'
      BY <1>0, <1>3, <2>1 DEF QueueTypes, UserTypes
    <3> QED
      BY <1>7, <3>1, <3>2 DEF Types
  <2>5. \A m \in Loops : Todo(m)' = Todo(m) /\ Jobs(m)' = Jobs(m)
    BY <1>3, <2>1 DEF Todo, Jobs
  <2>6. OnceInv' /\ UserInv'
    BY <1>0, <1>3, <2>1, <2>3, <2>5 DEF OnceInv, UserInv, UserTypes
  <2>7. Move(c)
    <3>1. \A d \in Conns : d # c => Still(d)
      BY <1>3, <1>6, <2>1, <2>2, <2>3 DEF Still
    <3>2. Up(c)' /\ ~Closed(c)'
      BY <1>3, <1>5, <2>1, <2>2, <2>3 DEF Up, Open, Closed, Absent
    <3>3. conn_id_' \in Nat /\ conn_id_ <= conn_id_' /\ c <= conn_id_'
      BY <1>1, <1>3 DEF Conns
    <3>4. ASSUME NEW m \in Loops, NEW g \in Jobs(m)'
          PROVE  g \in Jobs(m) /\ g.conn # c
      <4>1. g \in Jobs(m) /\ Fits(g, m)
        BY <1>0, <2>5 DEF QueueInv
      <4> QED
        BY <1>1, <1>3, <4>1 DEF Fits
    <3> QED
      BY <1>8, <2>5, <3>1, <3>2, <3>3, <3>4 DEF Move, Phase
  <2>8. aborted' = FALSE
    BY <1>3 DEF SInv
  <2> QED
    BY <1>0, <2>4, <2>6, <2>7, <2>8, MoveInv DEF SInv
<1>10. CASE k # Base
  <2>1. /\ state_' = [state_ EXCEPT ![c] = "CONNECTING"]
        /\ pending' = Queued(pending, k, Functor("established", c))
        /\ UNCHANGED <<caring, ups, userRef>>
    BY <1>4, <1>10
  <2>2. /\ state_' \in [Conns -> {"none", "CONNECTING", "CONNECTED", "DISCONNECTING", "DISCONNECTED"}]
        /\ state_'[c] = "CONNECTING"
        /\ \A d \in Conns : d # c => state_'[d] = state_[d]
    BY <1>0, <2>1 DEF ConnTypes
  <2>3. PICK g \in Functors : g = Functor("established", c)
    BY DEF Functors, Functor, Kinds
  <2>4. g.kind = "established" /\ g.conn = c
    BY <2>3 DEF Functor
  <2>5. \A m \in Loops : \A h \in Jobs(m) : h.conn # c /\ Fits(h, m)
    BY <1>0, <1>1, <1>3 DEF QueueInv, Fits
  <2>6. QueueTypes' /\ OnceInv' /\ Pushed(k, g)
    <3>1. g \notin Jobs(k)
      BY <2>4, <2>5
    <3> QED
      BY <1>0, <1>3, <2>1, <2>3, <3>1, QueuePush
  <2>7. Types'
    <3>1. ConnTypes' /\ UserTypes'
      BY <1>0, <1>3, <2>1, <2>2 DEF ConnTypes, UserTypes
    <3> QED
      BY <1>7, <2>6, <3>1 DEF Types
  <2>8. UserInv'
    BY <1>0, <1>3, <2>1 DEF UserInv
  <2>9. Move(c)
    <3>1. \A d \in Conns : d # c => Still(d)
      BY <1>3, <1>6, <2>1, <2>2 DEF Still
    <3>2. Connecting(c)' /\ ~Closed(c)'
      BY <1>3, <1>5, <1>6, <1>10, <2>1, <2>2 DEF Connecting, Open, Closed, Absent
    <3>3. conn_id_' \in Nat /\ conn_id_ <= conn_id_' /\ c <= conn_id_'
      BY <1>1, <1>3 DEF Conns
    <3>4. ASSUME NEW m \in Loops, NEW h \in Jobs(m)'
          PROVE  (h \in Jobs(m) \/ h.conn = c) /\ (h.conn = c => Fits(h, m)')
      <4>1. CASE m = k /\ h = g
        BY <1>6, <2>4, <3>2, <3>3, <4>1 DEF Fits
      <4>2. CASE ~(m = k /\ h = g)
        BY <2>5, <2>6, <4>2 DEF Pushed
      <4> QED
        BY <4>1, <4>2
    <3>5. \A m \in Loops : \A h \in Jobs(m) : h \in Jobs(m)'
      BY <2>6 DEF Pushed
    <3> QED
      BY <1>8, <3>1, <3>2, <3>3, <3>4, <3>5 DEF Move, Phase
  <2>10. aborted' = FALSE
    BY <1>3 DEF SInv
  <2> QED
    BY <1>0, <2>6, <2>7, <2>8, <2>9, <2>10, MoveInv DEF SInv
<1> QED
  BY <1>9, <1>10

\* The steps that touch neither a connection nor the order of the functors.
LEMMA QuietSInv ==
    ASSUME SInv,
           \/ \E n \in 0..MaxThreads : SetThreadNum(n)
           \/ Start
           \/ \E c \in Conns : HandleError(c) \/ PeerCloses(c) \/ UserDrops(c)
           \/ \E kind \in {"send", "shutdown"}, c \in Conns : UserCall(kind, c)
           \/ \E l \in Loops : SwapPending(l) \/ ExecuteReturns(l)
           \/ UNCHANGED serverVars
    PROVE  SInv'
<1>0. Types /\ PoolTypes /\ ConnTypes /\ QueueTypes /\ UserTypes /\ PhaseInv /\ QueueInv /\ OnceInv
      /\ KeptInv /\ UserInv
  BY DEF SInv, Types
<1> USE DEF poolVars, connVars, loopVars, userVars, traceVars, serverVars
<1>1. UNCHANGED <<conn_id_, connections_, io, state_, caring, registered, ups, downs, usedDead,
                  aborted>>
  BY DEF SetThreadNum, Start, HandleError, PeerCloses, UserDrops, UserCall, SwapPending,
         ExecuteReturns
<1>2. \A d \in Conns : Still(d)
  BY <1>1 DEF Still
<1>3. QueueTypes' /\ OnceInv' /\ \A m \in Loops : Jobs(m)' = Jobs(m)
  <2>1. CASE \E l \in Loops : SwapPending(l) \/ ExecuteReturns(l)
    BY <1>0, <2>1, QueueKept
  <2>2. CASE ~\E l \in Loops : SwapPending(l) \/ ExecuteReturns(l)
    <3>1. UNCHANGED <<pending, batch, pos>>
      BY <2>2 DEF SetThreadNum, Start, HandleError, PeerCloses, UserDrops, UserCall
    <3> QED
      BY <1>0, <3>1 DEF QueueTypes, OnceInv, Jobs, Todo
  <2> QED
    BY <2>1, <2>2
<1>4. PoolTypes'
  <2>1. CASE \E n \in 0..MaxThreads : SetThreadNum(n)
    <3>1. PICK n \in 0..MaxThreads : ~started_ /\ num_threads_' = n /\ UNCHANGED <<started_, next_>>
      BY <2>1 DEF SetThreadNum
    <3>2. io \in [Conns -> 0..n]
      BY <1>0, <3>1, ServerAssumption DEF PoolTypes, Base
    <3> QED
      BY <1>0, <1>1, <3>1, <3>2 DEF PoolTypes
  <2>2. CASE Start
    <3>1. started_' = TRUE /\ UNCHANGED <<num_threads_, next_>>
      BY <2>2 DEF Start
    <3> QED
      BY <1>0, <1>1, <3>1 DEF PoolTypes
  <2>3. CASE ~((\E n \in 0..MaxThreads : SetThreadNum(n)) \/ Start)
    <3>1. UNCHANGED <<num_threads_, started_, next_>>
      BY <2>3 DEF HandleError, PeerCloses, UserDrops, UserCall, SwapPending, ExecuteReturns
    <3> QED
      BY <1>0, <1>1, <3>1 DEF PoolTypes
  <2> QED
    BY <2>1, <2>2, <2>3
<1>5. ConnTypes'
  <2>1. peer' \in [Conns -> {"open", "reset", "eof"}]
    BY <1>0 DEF ConnTypes, SetThreadNum, Start, HandleError, PeerCloses, UserDrops, UserCall,
                SwapPending, ExecuteReturns
  <2> QED
    BY <1>0, <1>1, <2>1 DEF ConnTypes
<1>6. UserTypes' /\ UserInv'
  <2>1. ASSUME NEW kind \in {"send", "shutdown"}, NEW c \in Conns, UserCall(kind, c)
        PROVE  UserTypes' /\ UserInv'
    <3>1. /\ call' = [call EXCEPT ![kind] = c] /\ calls' = calls + 1 /\ calls < MaxCalls
          /\ c \in userRef /\ UNCHANGED userRef
      BY <2>1 DEF UserCall
    <3>2. UserTypes'
      BY <1>0, <1>1, <3>1, ServerAssumption DEF UserTypes
    <3>3. UserInv'
      BY <1>0, <1>1, <3>1 DEF UserTypes, UserInv
    <3> QED
      BY <3>2, <3>3
  <2>2. ASSUME NEW c \in Conns, UserDrops(c)
        PROVE  UserTypes' /\ UserInv'
    BY <1>0, <1>1, <2>2 DEF UserDrops, UserTypes, UserInv
  <2>3. ASSUME UNCHANGED <<userRef, call, calls>>
        PROVE  UserTypes' /\ UserInv'
    BY <1>0, <1>1, <2>3 DEF UserTypes, UserInv
  <2> QED
    BY <2>1, <2>2, <2>3 DEF SetThreadNum, Start, HandleError, PeerCloses, SwapPending,
                            ExecuteReturns
<1>7. PhaseInv' /\ QueueInv' /\ KeptInv'
  BY <1>0, <1>1, <1>2, <1>3, StayInv
<1>8. aborted' = FALSE
  BY <1>1 DEF SInv
<1> QED
  BY <1>3, <1>4, <1>5, <1>6, <1>7, <1>8 DEF SInv, Types

-----------------------------------------------------------------------------
(***************************************************************************)
(* The invariant, and the even load.                                       *)
(***************************************************************************)
\* A server that was just constructed.
LEMMA InitSInv == ServerInit => SInv /\ EvenInv
<1> SUFFICES ASSUME ServerInit PROVE SInv /\ EvenInv
  OBVIOUS
<1>1. PoolTypes
  <2>1. /\ num_threads_ = 0 /\ next_ = 0 /\ conn_id_ = 0
        /\ io = [c \in Conns |-> Base]
    BY DEF ServerInit
  <2>2. started_ \in BOOLEAN
    BY Zenon DEF ServerInit
  <2>3. io \in [Conns -> 0..num_threads_] /\ \A c \in Conns : io[c] = Base
    BY <2>1 DEF Base
  <2>4. /\ num_threads_ \in 0..MaxThreads /\ next_ \in 0..MaxThreads
        /\ conn_id_ \in 0..MaxConns /\ ~(num_threads_ > 0)
    BY <2>1, ServerAssumption
  <2> QED
    BY <2>1, <2>2, <2>3, <2>4 DEF PoolTypes
<1>2. ConnTypes
  BY DEF ServerInit, ConnTypes
<1>3. QueueTypes
  <2>1. pending \in [Loops -> Seq(Functors)] /\ batch \in [Loops -> Seq(Functors)]
    BY DEF ServerInit
  <2>2. pos \in [Loops -> Nat] /\ \A l \in Loops : pos[l] = 0 /\ batch[l] = <<>>
    BY DEF ServerInit
  <2> QED
    BY <2>1, <2>2 DEF QueueTypes
<1>4. UserTypes
  <2>1. userRef = {} /\ call = [k \in {"send", "shutdown"} |-> 0] /\ calls = 0
    BY DEF ServerInit
  <2>2. usedDead \in BOOLEAN
    BY Zenon DEF ServerInit
  <2>3. call \in [{"send", "shutdown"} -> Conns \cup {0}]
    BY <2>1
  <2>4. calls \in 0..MaxCalls
    BY <2>1, ServerAssumption
  <2> QED
    BY <2>1, <2>2, <2>3, <2>4 DEF UserTypes
<1>5. \A l \in Loops : Todo(l) = <<>> /\ Jobs(l) = {}
  <2> TAKE l \in Loops
  <2>1. batch[l] = <<>> /\ pos[l] = 0 /\ pending[l] = <<>>
    BY DEF ServerInit
  <2>2. <<>> \in Seq(Functors)
    OBVIOUS
  <2>3. Todo(l) = <<>>
    BY <2>1, <2>2, RestDone DEF Todo
  <2> QED
    BY <2>3 DEF Jobs, Elems
<1>6. QueueInv /\ OnceInv
  BY <1>5 DEF QueueInv, OnceInv, Distinct
<1>7. PhaseInv /\ KeptInv
  BY ServerAssumption DEF ServerInit, PhaseInv, KeptInv, Absent, Closed, Conns
<1>8. UserInv
  BY DEF ServerInit, UserInv
<1>9. EvenInv
  BY DEF ServerInit, EvenInv
<1>10. aborted = FALSE
  BY DEF ServerInit
<1> QED
  BY <1>1, <1>2, <1>3, <1>4, <1>6, <1>7, <1>8, <1>9, <1>10 DEF SInv, Types

\* The invariant is kept by every step.
LEMMA NextSInv == SInv /\ [ServerNext]_serverVars => SInv'
<1> SUFFICES ASSUME SInv, [ServerNext]_serverVars PROVE SInv'
  OBVIOUS
<1>0. DOMAIN call = {"send", "shutdown"}
  BY DEF SInv, Types, UserTypes
<1>1. CASE NewConnection
  BY <1>1, NewConnectionSInv
<1>2. CASE \E c \in Conns : HandleMessage(c) \/ HandleClose(c)
  BY <1>2, HandleMessageSInv, HandleCloseSInv
<1>3. CASE \E l \in Loops : RunEstablished(l) \/ RunRemove(l) \/ RunDestroyed(l) \/ RunRaw(l)
  BY <1>3, RunEstablishedSInv, RunRemoveSInv, RunDestroyedSInv, RunRawSInv
<1>4. CASE \E kind \in {"send", "shutdown"} : UserSubmit(kind)
  BY <1>4, UserSubmitSInv
<1>5. CASE \/ \E n \in 0..MaxThreads : SetThreadNum(n)
           \/ Start
           \/ \E c \in Conns : HandleError(c) \/ PeerCloses(c) \/ UserDrops(c)
           \/ \E kind \in {"send", "shutdown"}, c \in Conns : UserCall(kind, c)
           \/ \E l \in Loops : SwapPending(l) \/ ExecuteReturns(l)
           \/ UNCHANGED serverVars
  BY <1>5, QuietSInv
<1> QED
  BY <1>0, <1>1, <1>2, <1>3, <1>4, <1>5 DEF ServerNext, LoopStep, UserStep

\* The assignment new extends old by the connection n + 1, given to loop k.
Extends(new, old, n, k) ==
    (\A d \in 1..n : new[d] = old[d]) /\ new[n + 1] = k

\* How many of the first n connections an assignment gives to loop l.
Given(f, n, l) == Cardinality({d \in 1..n : f[d] = l})

\* A new connection counts for the loop it was given to.
LEMMA LoadAdd ==
    ASSUME NEW n \in Nat, NEW old, NEW new, NEW k, NEW l, Extends(new, old, n, k)
    PROVE  Given(new, n + 1, l) = IF l = k THEN Given(old, n, l) + 1 ELSE Given(old, n, l)
<1> DEFINE S == {d \in 1..n : old[d] = l}
           T == {d \in 1..(n + 1) : new[d] = l}
<1>0. (\A d \in 1..n : new[d] = old[d]) /\ new[n + 1] = k
  BY DEF Extends
<1>1. IsFiniteSet(1..n)
  <2>1. 1 \in Int /\ n \in Int
    OBVIOUS
  <2> QED
    BY <2>1, FS_Interval
<1>2. S \subseteq 1..n
  OBVIOUS
<1>3. IsFiniteSet(S) /\ Cardinality(S) \in Nat
  BY <1>1, <1>2, FS_Subset, FS_CardinalityType
<1>4. n + 1 \notin S
  OBVIOUS
<1>5. CASE l = k
  <2>1. T = S \cup {n + 1}
    BY <1>0, <1>5
  <2> HIDE DEF S, T
  <2>2. Cardinality(S \cup {n + 1}) = Cardinality(S) + 1
    BY <1>3, <1>4, FS_AddElement
  <2> QED
    BY <1>3, <1>5, <2>1, <2>2 DEF S, T, Given
<1>6. CASE l # k
  <2>1. T = S
    BY <1>0, <1>6
  <2> HIDE DEF S, T
  <2> QED
    BY <1>3, <1>6, <2>1 DEF S, T, Given
<1> QED
  BY <1>5, <1>6

\* The round robin keeps the load even.
LEMMA NextEvenInv ==
    ASSUME SInv, EvenInv, [ServerNext]_serverVars
    PROVE  EvenInv'
<1>0. PoolTypes
  BY DEF SInv, Types
<1>1. CASE NewConnection
  <2>1. /\ conn_id_' = conn_id_ + 1 /\ num_threads_' = num_threads_
        /\ next_' = IF num_threads_ = 0 THEN next_ ELSE (next_ + 1) % num_threads_
        /\ io' = [io EXCEPT ![conn_id_ + 1] = NextDispatcher]
        /\ conn_id_ + 1 \in Conns
    BY <1>0, <1>1, ServerAssumption DEF NewConnection, PoolTypes, Conns, AdvanceNext
  <2> SUFFICES ASSUME num_threads_ > 0
               PROVE  \E q \in Nat : \A l \in 1..num_threads_ :
                            Load(l)' = IF l <= next_' THEN q + 1 ELSE q
    BY <2>1 DEF EvenInv
  <2>2. /\ num_threads_ \in Nat /\ next_ \in Nat /\ next_ < num_threads_ /\ conn_id_ \in Nat
        /\ conn_id_ <= MaxConns
    BY <1>0 DEF PoolTypes
  <2>3. NextDispatcher = next_ + 1
    BY <2>2 DEF NextDispatcher
  <2>4. /\ \A d \in 1..conn_id_ : io'[d] = io[d]
        /\ io'[conn_id_ + 1] = next_ + 1
    BY <1>0, <2>1, <2>2, <2>3 DEF PoolTypes, Conns
  <2>5. \A l \in 1..num_threads_ :
            Load(l)' = IF l = next_ + 1 THEN Load(l) + 1 ELSE Load(l)
    <3> TAKE l \in 1..num_threads_
    <3>1. Extends(io', io, conn_id_, next_ + 1)
      BY <2>4 DEF Extends
    <3>2. Given(io', conn_id_ + 1, l)
            = IF l = next_ + 1 THEN Given(io, conn_id_, l) + 1 ELSE Given(io, conn_id_, l)
      BY <2>2, <3>1, LoadAdd
    <3>3. Load(l) = Given(io, conn_id_, l) /\ Load(l)' = Given(io', conn_id_ + 1, l)
      BY <2>1 DEF Load, Given
    <3> QED
      BY <3>2, <3>3
  <2>6. PICK q \in Nat : \A l \in 1..num_threads_ : Load(l) = IF l <= next_ THEN q + 1 ELSE q
    BY DEF EvenInv
  <2>7. CASE next_ + 1 < num_threads_
    <3>1. next_' = next_ + 1
      BY <2>1, <2>2, <2>7
    <3> QED
      BY <2>2, <2>5, <2>6, <3>1
  <2>8. CASE next_ + 1 = num_threads_
    <3>1. next_' = 0
      BY <2>1, <2>2, <2>8
    <3>2. \A l \in 1..num_threads_ : Load(l)' = q + 1
      BY <2>2, <2>5, <2>6, <2>8
    <3>3. \A l \in 1..num_threads_ : Load(l)' = IF l <= next_' THEN (q + 1) + 1 ELSE q + 1
      BY <2>2, <3>1, <3>2
    <3> QED
      BY <3>3
  <2> QED
    BY <2>2, <2>7, <2>8
<1>2. CASE \E n \in 0..MaxThreads : SetThreadNum(n)
  <2>1. next_' = 0 /\ conn_id_' = 0
    BY <1>0, <1>2 DEF SetThreadNum, PoolTypes
  <2>2. \A l : Load(l)' = 0
    <3>1. \A l : {d \in 1..conn_id_' : io'[d] = l} = {}
      BY <2>1
    <3> QED
      BY <3>1, FS_EmptySet DEF Load
  <2>3. num_threads_' \in Nat
    BY <1>2 DEF SetThreadNum
  <2>4. \A l \in 1..num_threads_' : Load(l)' = IF l <= next_' THEN 0 + 1 ELSE 0
    BY <2>1, <2>2, <2>3
  <2> QED
    BY <2>4 DEF EvenInv
<1>3. CASE ~(NewConnection \/ \E n \in 0..MaxThreads : SetThreadNum(n))
  <2>1. UNCHANGED <<num_threads_, next_, conn_id_, io>>
    BY <1>3 DEF ServerNext, Start, HandleMessage, HandleError, HandleClose, PeerCloses, LoopStep,
        UserStep, SwapPending, RunEstablished, RunRemove, RunDestroyed, RunRaw, ExecuteReturns,
        UserCall, UserSubmit, UserDrops, serverVars, poolVars, connVars
  <2> QED
    BY <2>1 DEF EvenInv, Load
<1> QED
  BY <1>1, <1>2, <1>3

\* Both hold in every state of the server.
THEOREM SInvariant == ServerSpec => [](SInv /\ EvenInv)
<1>1. SInv /\ EvenInv /\ [ServerNext]_serverVars => (SInv /\ EvenInv)'
  BY NextSInv, NextEvenInv
<1> QED
  BY <1>1, InitSInv, PTL DEF ServerSpec

-----------------------------------------------------------------------------
(***************************************************************************)
(* What follows.                                                           *)
(***************************************************************************)
\* A functor that is still to be run is in one of the two vectors.
LEMMA JobInQueues ==
    ASSUME QueueTypes, NEW l \in Loops, NEW f \in Jobs(l), NEW c, Holds(f, c)
    PROVE  InQueues(c)
<1> DEFINE b == batch[l]
           p == pos[l]
           q == pending[l]
<1>1. b \in Seq(Functors) /\ p \in 0..Len(b) /\ q \in Seq(Functors) /\ Len(b) \in Nat
  BY DEF QueueTypes
<1>2. PICK i \in DOMAIN (SubSeq(b, p + 1, Len(b)) \o q) : (SubSeq(b, p + 1, Len(b)) \o q)[i] = f
  BY DEF Jobs, Elems, Todo, Rest
<1> HIDE DEF b, p, q
<1>3. /\ Len(SubSeq(b, p + 1, Len(b))) = Len(b) - p
      /\ \A j \in 1..(Len(b) - p) : SubSeq(b, p + 1, Len(b))[j] = b[p + j]
      /\ SubSeq(b, p + 1, Len(b)) \in Seq(Functors)
  BY <1>1
<1>4. CASE i <= Len(b) - p
  <2>1. p + i \in DOMAIN b /\ b[p + i] = f
    BY <1>1, <1>2, <1>3, <1>4
  <2> QED
    BY <2>1 DEF InQueues, b
<1>5. CASE i > Len(b) - p
  <2>1. i - (Len(b) - p) \in DOMAIN q /\ q[i - (Len(b) - p)] = f
    BY <1>1, <1>2, <1>3, <1>5
  <2> QED
    BY <2>1 DEF InQueues, q
<1>6. i \in Int /\ Len(b) - p \in Int
  BY <1>1, <1>2, <1>3
<1> QED
  BY <1>4, <1>5, <1>6

\* TcpServer and DispatcherPool keep their types, and the connections are
\* spread evenly over the loops of the pool.
THEOREM ServerTypeCorrect == ServerSpec => []ServerTypeOK
<1>1. ASSUME SInv, EvenInv PROVE ServerTypeOK
  <2>0. PoolTypes /\ ConnTypes /\ QueueTypes /\ UserTypes /\ PhaseInv /\ aborted = FALSE
    BY <1>1 DEF SInv, Types
  <2>1. connections_ \subseteq 1..conn_id_ /\ registered \subseteq 1..conn_id_
    BY <2>0 DEF PhaseInv, Absent, PoolTypes, ConnTypes, Conns
  <2>2. caring \subseteq registered
    BY <2>0 DEF PhaseInv, Phase, Absent, Connecting, Up, Closing, Closed, Gone, ConnTypes
  <2>3. \A l1, l2 \in 1..num_threads_ : Load(l1) <= Load(l2) + 1
    <3> SUFFICES ASSUME NEW l1 \in 1..num_threads_, NEW l2 \in 1..num_threads_
                 PROVE  Load(l1) <= Load(l2) + 1
      OBVIOUS
    <3>1. num_threads_ \in Nat /\ num_threads_ > 0
      BY <2>0 DEF PoolTypes
    <3>2. PICK q \in Nat : \A l \in 1..num_threads_ : Load(l) = IF l <= next_ THEN q + 1 ELSE q
      BY <1>1, <3>1 DEF EvenInv
    <3> QED
      BY <3>2
  <2>4. aborted \in BOOLEAN
    BY <2>0
  <2> QED
    BY <2>0, <2>1, <2>2, <2>3, <2>4 DEF ServerTypeOK, PoolTypes, ConnTypes, QueueTypes, UserTypes
<1> QED
  BY <1>1, SInvariant, PTL

\* The asserts of the life cycle hold in every interleaving of the base loop,
\* the I/O loops and the user threads.
THEOREM LifeCycleAssertsHold == ServerSpec => []NoAssertFails
<1>1. SInv => NoAssertFails
  BY DEF SInv, NoAssertFails
<1> QED
  BY <1>1, SInvariant, PTL

\* No EventHandler of a freed connection is in an epoll set.
THEOREM EpollHoldsNoDead == ServerSpec => []RegisteredIsAlive
<1>1. ASSUME SInv, NEW c \in registered PROVE Alive(c)
  <2>1. c \in Conns /\ QueueTypes
    BY <1>1 DEF SInv, Types, ConnTypes
  <2>2. Connecting(c) \/ Up(c) \/ Closing(c) \/ Closed(c)
    BY <1>1, <2>1 DEF SInv, PhaseInv, Phase, Absent, Gone
  <2>3. state_[c] # "none" /\ (c \in connections_ \/ Closed(c))
    BY <2>2 DEF Connecting, Up, Closing, Closed, Open
  <2>4. ASSUME Closed(c) PROVE InQueues(c)
    <3>1. PICK l \in Loops : Functor("destroyed", c) \in Jobs(l)
      BY <1>1, <2>1, <2>4 DEF SInv, KeptInv
    <3>2. Holds(Functor("destroyed", c), c)
      BY DEF Holds, Functor
    <3> QED
      BY <2>1, <3>1, <3>2, JobInQueues
  <2> QED
    BY <2>3, <2>4 DEF Alive
<1>2. SInv => RegisteredIsAlive
  BY <1>1 DEF RegisteredIsAlive
<1> QED
  BY <1>2, SInvariant, PTL

\* The connection callback comes once when the connection is up and once when
\* it is gone, and in between the socket is watched.
THEOREM CallbacksComeInPairs == ServerSpec => []CallbacksPaired
<1>1. SInv => CallbacksPaired
  BY DEF SInv, PhaseInv, Phase, Absent, Connecting, Up, Closing, Closed, Gone, CallbacksPaired
<1> QED
  BY <1>1, SInvariant, PTL

-----------------------------------------------------------------------------
(***************************************************************************)
(* Raw pointers.  Send and ShutDown of a user thread bind a raw this, and  *)
(* ServerSpec lets such a functor run on a freed connection.  It does not  *)
(* when users keep a TcpConnectionPtr until the loop has run what they     *)
(* asked for.                                                              *)
(***************************************************************************)
\* The discipline: a step in which the user lets go of a connection finds no
\* functor of its Send or ShutDown waiting on a loop.
DropsSettled ==
    \A c \in userRef \ userRef' :
        \A l \in Loops : \A f \in Jobs(l) : f.conn = c => Life(f)

\* Then a raw functor, waiting or about to be queued, has a pointer of the
\* user behind it.
HeldInv ==
    /\ \A l \in Loops : \A f \in Jobs(l) : ~Life(f) => f.conn \in userRef
    /\ \A k \in {"send", "shutdown"} : call[k] # 0 => call[k] \in userRef
    /\ usedDead = FALSE

\* No raw functor comes to the loops by this step, and the user keeps its
\* pointers and its calls.
NoNewRaw ==
    /\ \A m \in Loops : \A f \in Jobs(m)' : f \in Jobs(m) \/ Life(f)
    /\ userRef \subseteq userRef'
    /\ call' = call /\ usedDead' = usedDead

\* Such a step keeps what is held.
LEMMA HeldStays ==
    ASSUME HeldInv, NoNewRaw PROVE HeldInv'
  BY DEF HeldInv, NoNewRaw

\* QueueInLoop as a change of the sets.
LEMMA PushedJobs ==
    ASSUME QueueTypes, NEW l \in Loops, NEW f \in Functors,
           pending' = Queued(pending, l, f), UNCHANGED <<batch, pos>>
    PROVE  Pushed(l, f)
<1>1. Todo(l)' = Append(Todo(l), f)
  <2>1. batch[l] \in Seq(Functors) /\ pos[l] \in 0..Len(batch[l]) /\ pending[l] \in Seq(Functors)
    BY DEF QueueTypes
  <2>2. Rest(batch[l], pos[l], Append(pending[l], f)) = Append(Rest(batch[l], pos[l], pending[l]), f)
    BY <2>1, RestPush
  <2>3. pending'[l] = Append(pending[l], f)
    BY DEF QueueTypes, Queued
  <2> QED
    BY <2>2, <2>3 DEF Todo
<1>2. \A m \in Loops : m # l => Todo(m)' = Todo(m)
  BY DEF Todo, QueueTypes, Queued
<1>3. Jobs(l)' = Jobs(l) \cup {f}
  BY <1>1, Push, TodoType DEF Jobs
<1> QED
  BY <1>2, <1>3 DEF Pushed, Jobs

\* The steps of the server itself bind shared_ptrs only.
LEMMA ServerStepHeld ==
    ASSUME SInv, HeldInv, NewConnection \/ \E c \in Conns : HandleMessage(c) \/ HandleClose(c)
    PROVE  HeldInv'
<1>0. QueueTypes /\ PoolTypes
  BY DEF SInv, Types
<1> DEFINE Bound == \E k \in Loops, c \in Conns, kind \in {"established", "remove", "destroyed"} :
                        pending' = Queued(pending, k, Functor(kind, c))
<1>1. /\ UNCHANGED <<batch, pos, call, usedDead>> /\ userRef \subseteq userRef'
      /\ pending' = pending \/ Bound
  <2>1. CASE NewConnection
    <3>1. conn_id_ + 1 \in Conns /\ NextDispatcher \in Loops
      BY <1>0, <2>1, ServerAssumption
      DEF NewConnection, PoolTypes, Conns, NextDispatcher, Loops, Base
    <3>2. UNCHANGED <<batch, pos, call, usedDead>>
      BY <2>1 DEF NewConnection
    <3>3. /\ userRef \subseteq userRef'
          /\ \/ pending' = pending
             \/ pending' = Queued(pending, NextDispatcher, Functor("established", conn_id_ + 1))
      BY <2>1 DEF NewConnection, Established, UserMayKeep
    <3> QED
      BY <3>1, <3>2, <3>3
  <2>2. CASE \E c \in Conns : HandleMessage(c)
    BY <2>2 DEF HandleMessage, UserMayKeep, loopVars, traceVars
  <2>3. ASSUME NEW c \in Conns, HandleClose(c)
        PROVE  /\ UNCHANGED <<batch, pos, call, usedDead>> /\ userRef \subseteq userRef'
               /\ pending' = pending \/ Bound
    <3>1. io[c] \in Loops /\ Base \in Loops
      BY <1>0, ServerAssumption DEF PoolTypes, Loops, Base
    <3>2. UNCHANGED <<batch, pos, call, usedDead, userRef>>
      BY <2>3 DEF HandleClose, userVars, traceVars
    <3>3. \/ pending' = pending
          \/ pending' = Queued(pending, io[c], Functor("destroyed", c))
          \/ pending' = Queued(pending, Base, Functor("remove", c))
      BY <2>3 DEF HandleClose, RemoveInLoop
    <3> QED
      BY <3>1, <3>2, <3>3
  <2> QED
    <3> HIDE DEF Bound
    <3> QED
      BY <2>1, <2>2, <2>3
<1>2. \A m \in Loops : \A f \in Jobs(m)' : f \in Jobs(m) \/ Life(f)
  <2>1. CASE pending' = pending
    BY <1>1, <2>1 DEF Jobs, Todo
  <2>2. ASSUME NEW k \in Loops, NEW c \in Conns,
               NEW kind \in {"established", "remove", "destroyed"},
               pending' = Queued(pending, k, Functor(kind, c))
        PROVE  \A m \in Loops : \A f \in Jobs(m)' : f \in Jobs(m) \/ Life(f)
    <3>1. PICK g \in Functors : g = Functor(kind, c)
      BY DEF Functors, Functor, Kinds
    <3>2. Life(g)
      BY <3>1 DEF Functor, Life
    <3>3. Pushed(k, g)
      BY <1>0, <1>1, <2>2, <3>1, PushedJobs
    <3> QED
      BY <3>2, <3>3 DEF Pushed
  <2> QED
    BY <1>1, <2>1, <2>2
<1> QED
  BY <1>1, <1>2, HeldStays DEF NoNewRaw

\* RemoveConnectionInLoop queues set_connection_destroyed, with a shared_ptr.
LEMMA RunRemoveJobs ==
    ASSUME SInv, NEW l \in Loops, RunRemove(l)
    PROVE  \A m \in Loops : \A h \in Jobs(m)' : h \in Jobs(m) \/ Life(h)
<1>0. QueueTypes /\ PoolTypes /\ OnceInv /\ QueueInv
  BY DEF SInv, Types
<1>1. PICK f : f = batch[l][pos[l] + 1]
  OBVIOUS
<1>2. /\ pos[l] < Len(batch[l]) /\ pos' = [pos EXCEPT ![l] = @ + 1]
      /\ f.kind = "remove" /\ f.conn = Arg(l)
  BY <1>1 DEF RunRemove, Running, Arg
<1>3. f \in Functors /\ f \in Jobs(l)
  <2>1. batch[l] \in Seq(Functors) /\ pos[l] \in 0..Len(batch[l]) /\ pending[l] \in Seq(Functors)
    BY <1>0 DEF QueueTypes
  <2>2. Todo(l) # <<>> /\ Head(Todo(l)) = f /\ Todo(l) \in Seq(Functors)
    BY <1>0, <1>1, <1>2, <2>1, RestPop, TodoType DEF Todo
  <2> QED
    BY <1>0, <2>2, Pop, TodoType DEF Jobs
<1>4. PICK c \in Conns : c = f.conn
  BY <1>3 DEF Functors
<1>5. Closing(c) /\ l = Base /\ Life(f)
  BY <1>0, <1>2, <1>3, <1>4 DEF QueueInv, Fits, Life
<1>6. PICK k \in Loops : k = io[c] /\ k # l
  BY <1>0, <1>5, ServerAssumption DEF Closing, PoolTypes, Loops, Base
<1>7. PICK g \in Functors : g = Functor("destroyed", c)
  BY DEF Functors, Functor, Kinds
<1>8. g.kind = "destroyed" /\ g.conn = c /\ Life(g) /\ g \notin Jobs(k)
  <2>1. g.kind = "destroyed" /\ g.conn = c /\ Life(g)
    BY <1>7 DEF Functor, Life
  <2> QED
    BY <1>0, <1>5, <2>1, NoFunctor
<1>9. pending' = Queued(pending, k, g) /\ batch' = batch
  BY <1>2, <1>4, <1>6, <1>7 DEF RunRemove, RemoveInLoop
<1>10. RunsAndQueues(l, f, k, g)
  BY <1>1, <1>2, <1>6, <1>8, <1>9 DEF RunsAndQueues
<1>11. /\ QueueTypes' /\ OnceInv'
       /\ Jobs(l) = Jobs(l)' \cup {f}
       /\ Life(f) => f \notin Jobs(l)'
       /\ Jobs(k)' = Jobs(k) \cup {g}
       /\ \A m \in Loops : m # l /\ m # k => Jobs(m)' = Jobs(m)
  BY <1>0, <1>5, <1>10, QueuePopPush
<1>12. \A m \in Loops : \A h \in Jobs(m)' : h \in Jobs(m) \/ Life(h)
  BY <1>8, <1>11
<1> QED
  BY <1>12

\* So do the functors with a shared_ptr.
LEMMA LifeFunctorHeld ==
    ASSUME SInv, HeldInv, NEW l \in Loops,
           RunEstablished(l) \/ RunDestroyed(l) \/ RunRemove(l)
    PROVE  HeldInv'
<1>1. userRef \subseteq userRef' /\ call' = call /\ usedDead' = usedDead
  BY DEF RunEstablished, RunDestroyed, RunRemove, Established, Destroyed, UserMayKeep, userVars,
         traceVars
<1>2. CASE RunEstablished(l) \/ RunDestroyed(l)
  <2>1. PICK f \in Functors : Popped(l, f)
    BY <1>2, RunStep DEF RunEstablished, RunDestroyed
  <2> QED
    BY <1>1, <2>1, HeldStays DEF NoNewRaw, Popped
<1>3. CASE RunRemove(l)
  BY <1>1, <1>3, RunRemoveJobs, HeldStays DEF NoNewRaw
<1> QED
  BY <1>2, <1>3

\* A raw functor finds its connection alive: the user holds it.
LEMMA RunRawHeld ==
    ASSUME SInv, HeldInv, NEW l \in Loops, RunRaw(l)
    PROVE  HeldInv'
<1>0. ConnTypes /\ UserTypes /\ PhaseInv /\ UserInv
  BY DEF SInv, Types
<1>1. PICK f \in Functors :
        /\ f \in Jobs(l) /\ f.kind \in {"send", "shutdown"} /\ f.conn = Arg(l)
        /\ Popped(l, f)
  BY RunStep DEF RunRaw
<1>2. PICK c \in Conns : c = f.conn /\ c \in userRef
  BY <1>0, <1>1 DEF HeldInv, Life, UserTypes
<1>3. state_[c] # "none"
  BY <1>0, <1>2 DEF UserInv, PhaseInv, Phase, Absent, Connecting, Up, Closing, Closed, Gone, Open
<1>4. Alive(Arg(l))
  BY <1>1, <1>2, <1>3 DEF Alive
<1>5. usedDead' = usedDead
  BY <1>4, Zenon DEF RunRaw, HeldInv
<1>6. UNCHANGED <<userRef, call>>
  BY DEF RunRaw, userVars
<1>7. \A m \in Loops : \A g \in Jobs(m)' : g \in Jobs(m)
  BY <1>1 DEF Popped
<1> QED
  BY <1>5, <1>6, <1>7, HeldStays DEF NoNewRaw

\* A user thread hands its functor to the loop: it holds the pointer.
LEMMA UserSubmitHeld ==
    ASSUME SInv, HeldInv, NEW kind \in {"send", "shutdown"}, UserSubmit(kind)
    PROVE  HeldInv'
<1>0. QueueTypes /\ PoolTypes /\ UserTypes
  BY DEF SInv, Types
<1>1. PICK c \in Conns : c = call[kind] /\ c \in userRef
  BY <1>0 DEF UserSubmit, UserTypes, HeldInv
<1>2. PICK g \in Functors : g = Functor(kind, c)
  BY DEF Functors, Functor, Kinds
<1>8. g.conn = c
  BY <1>2 DEF Functor
<1>3. PICK k \in Loops : k = io[c]
  BY <1>0, ServerAssumption DEF PoolTypes, Loops, Base
<1>4. /\ pending' = Queued(pending, k, g) /\ call' = [call EXCEPT ![kind] = 0]
      /\ UNCHANGED <<batch, pos, userRef, usedDead>>
  BY <1>1, <1>2, <1>3 DEF UserSubmit, traceVars
<1>5. Pushed(k, g)
  BY <1>0, <1>4, PushedJobs
<1>6. \A m \in Loops : \A f \in Jobs(m)' : ~Life(f) => f.conn \in userRef'
  BY <1>1, <1>4, <1>5, <1>8 DEF HeldInv, Pushed
<1>7. \A j \in {"send", "shutdown"} : call'[j] # 0 => call'[j] \in userRef'
  BY <1>0, <1>4 DEF HeldInv, UserTypes
<1> QED
  BY <1>4, <1>6, <1>7 DEF HeldInv

\* The other steps queue nothing; a pointer is dropped by the discipline.
LEMMA QuietHeld ==
    ASSUME SInv, HeldInv, [DropsSettled]_serverVars,
           \/ \E n \in 0..MaxThreads : SetThreadNum(n)
           \/ Start
           \/ \E c \in Conns : HandleError(c) \/ PeerCloses(c) \/ UserDrops(c)
           \/ \E kind \in {"send", "shutdown"}, c \in Conns : UserCall(kind, c)
           \/ \E l \in Loops : SwapPending(l) \/ ExecuteReturns(l)
           \/ UNCHANGED serverVars
    PROVE  HeldInv'
<1>0. QueueTypes /\ OnceInv /\ UserTypes
  BY DEF SInv, Types
<1> USE DEF poolVars, connVars, loopVars, userVars, traceVars, serverVars
<1>1. usedDead' = usedDead
  BY DEF SetThreadNum, Start, HandleError, PeerCloses, UserDrops, UserCall, SwapPending,
         ExecuteReturns
<1>2. \A m \in Loops : Jobs(m)' = Jobs(m)
  <2>1. CASE \E l \in Loops : SwapPending(l) \/ ExecuteReturns(l)
    BY <1>0, <2>1, QueueKept
  <2>2. CASE ~\E l \in Loops : SwapPending(l) \/ ExecuteReturns(l)
    <3>1. UNCHANGED <<pending, batch, pos>>
      BY <2>2 DEF SetThreadNum, Start, HandleError, PeerCloses, UserDrops, UserCall
    <3> QED
      BY <3>1 DEF Jobs, Todo
  <2> QED
    BY <2>1, <2>2
<1>3. ASSUME NEW kind \in {"send", "shutdown"}, NEW c \in Conns, UserCall(kind, c)
      PROVE  HeldInv'
  <2>1. call' = [call EXCEPT ![kind] = c] /\ c \in userRef /\ UNCHANGED userRef
    BY <1>3 DEF UserCall
  <2>2. \A j \in {"send", "shutdown"} : call'[j] # 0 => call'[j] \in userRef'
    BY <1>0, <2>1 DEF HeldInv, UserTypes
  <2> QED
    BY <1>1, <1>2, <2>1, <2>2 DEF HeldInv
<1>4. ASSUME NEW c \in Conns, UserDrops(c)
      PROVE  HeldInv'
  <2>1. /\ c \in userRef /\ userRef' = userRef \ {c} /\ UNCHANGED call
        /\ \A j \in {"send", "shutdown"} : call[j] # c
    BY <1>0, <1>4 DEF UserDrops, UserTypes
  <2>2. DropsSettled
    BY <2>1
  <2>3. \A m \in Loops : \A f \in Jobs(m) : f.conn = c => Life(f)
    BY <2>1, <2>2 DEF DropsSettled
  <2>4. \A m \in Loops : \A f \in Jobs(m)' : ~Life(f) => f.conn \in userRef'
    BY <1>2, <2>1, <2>3 DEF HeldInv
  <2>5. \A j \in {"send", "shutdown"} : call'[j] # 0 => call'[j] \in userRef'
    BY <2>1 DEF HeldInv
  <2> QED
    BY <1>1, <2>4, <2>5 DEF HeldInv
<1>5. ASSUME UNCHANGED <<userRef, call>>
      PROVE  HeldInv'
  BY <1>1, <1>2, <1>5 DEF HeldInv
<1> QED
  BY <1>3, <1>4, <1>5 DEF SetThreadNum, Start, HandleError, PeerCloses, SwapPending, ExecuteReturns

\* Every step of the server and of disciplined users keeps it.
LEMMA NextHeld ==
    SInv /\ HeldInv /\ [ServerNext]_serverVars /\ [DropsSettled]_serverVars => HeldInv'
<1> SUFFICES ASSUME SInv, HeldInv, [ServerNext]_serverVars, [DropsSettled]_serverVars
             PROVE  HeldInv'
  OBVIOUS
<1>0. DOMAIN call = {"send", "shutdown"}
  BY DEF SInv, Types, UserTypes
<1>1. CASE NewConnection \/ \E c \in Conns : HandleMessage(c) \/ HandleClose(c)
  BY <1>1, ServerStepHeld
<1>2. CASE \E l \in Loops : RunEstablished(l) \/ RunDestroyed(l) \/ RunRemove(l)
  BY <1>2, LifeFunctorHeld
<1>3. CASE \E l \in Loops : RunRaw(l)
  BY <1>3, RunRawHeld
<1>4. CASE \E kind \in {"send", "shutdown"} : UserSubmit(kind)
  BY <1>4, UserSubmitHeld
<1>5. CASE \/ \E n \in 0..MaxThreads : SetThreadNum(n)
           \/ Start
           \/ \E c \in Conns : HandleError(c) \/ PeerCloses(c) \/ UserDrops(c)
           \/ \E kind \in {"send", "shutdown"}, c \in Conns : UserCall(kind, c)
           \/ \E l \in Loops : SwapPending(l) \/ ExecuteReturns(l)
           \/ UNCHANGED serverVars
  BY <1>5, QuietHeld
<1> QED
  BY <1>0, <1>1, <1>2, <1>3, <1>4, <1>5 DEF ServerNext, LoopStep, UserStep

\* At first no loop has anything to run.
LEMMA InitHeld == ServerInit => HeldInv
<1> SUFFICES ASSUME ServerInit PROVE HeldInv
  OBVIOUS
<1>1. ASSUME NEW l \in Loops, NEW f \in Jobs(l) PROVE FALSE
  <2>1. Todo(l) = <<>>
    <3>1. batch[l] = <<>> /\ pos[l] = 0 /\ pending[l] = <<>> /\ <<>> \in Seq(Functors)
      BY DEF ServerInit
    <3>2. Todo(l) = Rest(<<>>, 0, <<>>)
      BY <3>1 DEF Todo
    <3> QED
      BY <3>1, <3>2, RestDone
  <2> QED
    BY <1>1, <2>1 DEF Jobs, Elems
<1> QED
  BY <1>1 DEF ServerInit, HeldInv

\* What Send and ShutDown hand to the loop runs on a living connection when
\* the user keeps its pointer until then; the run send_raw_this shows that
\* it may be freed otherwise.
THEOREM HeldIsNeverFreed == ServerSpec /\ [][DropsSettled]_serverVars => []NoUseAfterFree
<1>1. ServerInit => HeldInv
  BY InitHeld
<1>2. HeldInv => NoUseAfterFree
  BY DEF HeldInv, NoUseAfterFree
<1> QED
  BY <1>1, <1>2, NextHeld, SInvariant, PTL DEF ServerSpec
=============================================================================
