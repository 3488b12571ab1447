----------------------------- MODULE DataLemmas -----------------------------
(***************************************************************************)
(* Lemmas about numbers and sequences that the proofs of several           *)
(* components share.  Induction over the naturals is stated with a set in  *)
(* place of a predicate, and follows from the well-foundedness of <.       *)
(***************************************************************************)
EXTENDS Naturals, Sequences, SequencesExt, SequenceTheorems, FiniteSetTheorems,
        TLAPS

\* A set of naturals that is not empty has a smallest element.
LEMMA NatSetMin ==
    ASSUME NEW T, T \subseteq Nat, T # {}
    PROVE  \E x \in T : \A y \in T : x <= y
<1>1. PICK x \in T : \A y \in T : ~(<<y, x>> \in OpToRel(<, Nat))
  BY NatLessThanWellFounded, WFMin, Zenon
<1>2. \A y \in T : ~(y < x)
  BY <1>1 DEF OpToRel
<1> QED
  BY <1>2

\* Min is that element: the kernel's choice of a descriptor, the first CRLF.
LEMMA MinOfNats ==
    ASSUME NEW T, T \subseteq Nat, T # {}
    PROVE  Min(T) \in T /\ \A y \in T : Min(T) <= y
  BY NatSetMin DEF Min

\* A bounded set of naturals that is not empty has a largest element, which is
\* what Max gives: the last line that a flush comes after.
LEMMA MaxOfNats ==
    ASSUME NEW T, T # {}, NEW n \in Nat, T \subseteq 0..n
    PROVE  Max(T) \in T /\ \A y \in T : Max(T) >= y
<1> DEFINE D == {n - y : y \in T}
<1>1. D \subseteq Nat /\ D # {}
  <2>1. \A y \in T : n - y \in Nat
    OBVIOUS
  <2> QED
    BY <2>1
<1>2. PICK d \in D : \A e \in D : d <= e
  BY <1>1, NatSetMin
<1>3. PICK x \in T : d = n - x
  BY <1>2
<1>4. ASSUME NEW y \in T
      PROVE  x >= y
  <2>1. n - x <= n - y
    BY <1>2, <1>3
  <2> QED
    BY <2>1
<1> QED
  BY <1>4 DEF Max

\* Induction: a set that has 0 and with every number the next one has them all.
LEMMA NatSetInduction ==
    ASSUME NEW S, 0 \in S, \A n \in Nat : n \in S => n + 1 \in S
    PROVE  Nat \subseteq S
<1> SUFFICES ASSUME Nat \ S # {} PROVE FALSE
  OBVIOUS
<1>1. PICK x \in Nat \ S : \A y \in Nat \ S : x <= y
  BY NatSetMin
<1>2. x # 0 /\ x - 1 \in Nat /\ x - 1 \notin Nat \ S /\ (x - 1) + 1 = x
  BY <1>1
<1> QED
  BY <1>1, <1>2

-----------------------------------------------------------------------------
\* Concatenation is associative.
LEMMA ConcatAssoc ==
    ASSUME NEW S, NEW a \in Seq(S), NEW b \in Seq(S), NEW c \in Seq(S)
    PROVE  (a \o b) \o c = a \o (b \o c)
  OBVIOUS

\* An element at the end of the second of two concatenated sequences.
LEMMA ConcatAppend ==
    ASSUME NEW S, NEW a \in Seq(S), NEW b \in Seq(S), NEW x \in S
    PROVE  a \o Append(b, x) = Append(a \o b, x)
  OBVIOUS

(***************************************************************************)
(* FlattenSeq, which concatenates the members of a sequence of sequences.  *)
(* Its definition is a recursive function: it has to be shown to exist.    *)
(***************************************************************************)
\* What the recursive function of FlattenSeq(seqs) satisfies: it gives the
\* concatenation of the first i members.
Flattens(g, seqs) ==
    g = [i \in 1..Len(seqs) |-> IF i = 1 THEN seqs[i] ELSE g[i - 1] \o seqs[i]]

\* There is such a function, and its values are sequences.
LEMMA FlattensExists ==
    ASSUME NEW S, NEW seqs \in Seq(Seq(S))
    PROVE  \E g \in [1..Len(seqs) -> Seq(S)] : Flattens(g, seqs)
<1> DEFINE Upto(n, g) ==
        \A i \in 1..n : g[i] = IF i = 1 THEN seqs[i] ELSE g[i - 1] \o seqs[i]
           P(n) == n <= Len(seqs) => \E g \in [1..n -> Seq(S)] : Upto(n, g)
           N == {n \in Nat : P(n)}
<1>1. P(0)
  <2>1. [i \in 1..0 |-> <<>>] \in [1..0 -> Seq(S)]
    OBVIOUS
  <2>2. \A g : Upto(0, g)
    OBVIOUS
  <2> HIDE DEF Upto
  <2> QED
    BY <2>1, <2>2
<1>2. ASSUME NEW n \in Nat, P(n)
      PROVE  P(n + 1)
  <2> HIDE DEF Upto
  <2> SUFFICES ASSUME n + 1 <= Len(seqs)
               PROVE  \E g \in [1..(n + 1) -> Seq(S)] : Upto(n + 1, g)
    OBVIOUS
  <2>1. PICK g \in [1..n -> Seq(S)] : Upto(n, g)
    <3>1. n <= Len(seqs)
      OBVIOUS
    <3> QED
      BY <1>2, <3>1
  <2> DEFINE last == IF n + 1 = 1 THEN seqs[n + 1] ELSE g[n] \o seqs[n + 1]
             h == [i \in 1..(n + 1) |-> IF i = n + 1 THEN last ELSE g[i]]
  <2>2. seqs[n + 1] \in Seq(S)
    OBVIOUS
  <2>3. last \in Seq(S)
    BY <2>2
  <2>4. h \in [1..(n + 1) -> Seq(S)]
    <3> HIDE DEF last
    <3> QED
      BY <2>3
  <2>5. ASSUME NEW i \in 1..(n + 1)
        PROVE  h[i] = IF i = 1 THEN seqs[i] ELSE h[i - 1] \o seqs[i]
    <3>1. CASE i = n + 1
      <4>1. i # 1 => h[i - 1] = g[n]
        BY <3>1
      <4> QED
        BY <3>1, <4>1
    <3>2. CASE i # n + 1
      <4>1. i \in 1..n /\ h[i] = g[i]
        BY <3>2
      <4>2. i # 1 => h[i - 1] = g[i - 1]
        BY <3>2
      <4> QED
        BY <2>1, <4>1, <4>2 DEF Upto
    <3> QED
      BY <3>1, <3>2
  <2> HIDE DEF h
  <2>6. Upto(n + 1, h)
    BY <2>5 DEF Upto
  <2> QED
    BY <2>4, <2>6
<1> HIDE DEF P
<1>3. 0 \in N /\ \A n \in Nat : n \in N => n + 1 \in N
  BY <1>1, <1>2
<1> HIDE DEF N
<1>4. Nat \subseteq N
  BY <1>3, NatSetInduction
<1>5. Len(seqs) \in Nat /\ P(Len(seqs))
  BY <1>4 DEF N
<1> HIDE DEF Upto
<1>6. PICK g \in [1..Len(seqs) -> Seq(S)] : Upto(Len(seqs), g)
  BY <1>5 DEF P
<1> QED
  BY <1>6 DEF Upto, Flattens

\* It satisfies the recursion at every place.
LEMMA FlattensAt ==
    ASSUME NEW seqs, NEW g, Flattens(g, seqs), NEW i \in 1..Len(seqs)
    PROVE  g[i] = IF i = 1 THEN seqs[i] ELSE g[i - 1] \o seqs[i]
<1> DEFINE f == [j \in 1..Len(seqs) |->
                    IF j = 1 THEN seqs[j] ELSE g[j - 1] \o seqs[j]]
<1>1. g = f
  BY DEF Flattens
<1>2. f[i] = IF i = 1 THEN seqs[i] ELSE g[i - 1] \o seqs[i]
  OBVIOUS
<1> HIDE DEF f
<1> QED
  BY <1>1, <1>2

\* The elements of the one are the first elements of the other.
Begins(a, b) == Len(a) <= Len(b) /\ \A i \in 1..Len(a) : a[i] = b[i]

\* The two functions give the same for the members of the one.
Agree(g, h, a) == \A i \in 1..Len(a) : g[i] = h[i]

\* On a common beginning of two sequences it gives the same.
LEMMA FlattensPrefix ==
    ASSUME NEW S, NEW a \in Seq(Seq(S)), NEW b \in Seq(Seq(S)),
           NEW g, NEW h, Flattens(g, a), Flattens(h, b), Begins(a, b)
    PROVE  Agree(g, h, a)
<1> USE DEF Begins, Agree
<1> DEFINE N == {n \in Nat : n \in 1..Len(a) => g[n] = h[n]}
<1>1. 0 \in N
  OBVIOUS
<1>2. ASSUME NEW n \in Nat, n \in N
      PROVE  n + 1 \in N
  <2> SUFFICES ASSUME n + 1 \in 1..Len(a) PROVE g[n + 1] = h[n + 1]
    OBVIOUS
  <2>1. g[n + 1] = IF n + 1 = 1 THEN a[n + 1] ELSE g[n] \o a[n + 1]
    BY FlattensAt
  <2>2. h[n + 1] = IF n + 1 = 1 THEN b[n + 1] ELSE h[n] \o b[n + 1]
    <3>1. n + 1 \in 1..Len(b)
      OBVIOUS
    <3> QED
      BY <3>1, FlattensAt
  <2>3. n + 1 # 1 => g[n] = h[n]
    BY <1>2
  <2> QED
    BY <2>1, <2>2, <2>3
<1> HIDE DEF N
<1>3. Nat \subseteq N
  BY <1>1, <1>2, NatSetInduction
<1> QED
  BY <1>3 DEF N

\* FlattenSeq gives the last value of that function.
LEMMA FlattenByFunction ==
    ASSUME NEW S, NEW seqs \in Seq(Seq(S)), seqs # <<>>
    PROVE  \E g : Flattens(g, seqs) /\ FlattenSeq(seqs) = g[Len(seqs)]
<1> DEFINE f == CHOOSE g : Flattens(g, seqs)
<1>1. Flattens(f, seqs)
  BY FlattensExists
<1>2. Len(seqs) # 0
  OBVIOUS
<1>3. FlattenSeq(seqs) = f[Len(seqs)]
  BY <1>2 DEF FlattenSeq, Flattens
<1> HIDE DEF f
<1> QED
  BY <1>1, <1>3

\* A sequence of sequences over S is flattened to a sequence over S.
LEMMA FlattenType ==
    ASSUME NEW S, NEW seqs \in Seq(Seq(S))
    PROVE  FlattenSeq(seqs) \in Seq(S)
<1>1. CASE seqs = <<>>
  BY <1>1 DEF FlattenSeq
<1>2. CASE seqs # <<>>
  <2>1. PICK f : Flattens(f, seqs) /\ FlattenSeq(seqs) = f[Len(seqs)]
    BY <1>2, FlattenByFunction
  <2>2. PICK g \in [1..Len(seqs) -> Seq(S)] : Flattens(g, seqs)
    BY FlattensExists
  <2>3. Len(seqs) \in 1..Len(seqs) /\ Begins(seqs, seqs)
    BY <1>2 DEF Begins
  <2>4. Agree(g, f, seqs)
    BY <2>1, <2>2, <2>3, FlattensPrefix
  <2> QED
    BY <2>1, <2>2, <2>3, <2>4 DEF Agree
<1> QED
  BY <1>1, <1>2

\* Of nothing, nothing.
LEMMA FlattenEmpty == FlattenSeq(<<>>) = <<>>
  BY DEF FlattenSeq

\* One more member at the end is one more piece at the end.
LEMMA FlattenAppend ==
    ASSUME NEW S, NEW seqs \in Seq(Seq(S)), NEW x \in Seq(S)
    PROVE  FlattenSeq(Append(seqs, x)) = FlattenSeq(seqs) \o x
<1> SUFFICES ASSUME NEW more, more = Append(seqs, x)
             PROVE  FlattenSeq(more) = FlattenSeq(seqs) \o x
  OBVIOUS
<1>1. /\ more \in Seq(Seq(S)) /\ more # <<>> /\ Len(more) = Len(seqs) + 1
      /\ more[Len(seqs) + 1] = x /\ Len(seqs) \in Nat /\ Len(more) \in Nat
      /\ Begins(seqs, more) /\ Len(seqs) + 1 \in 1..Len(more)
  BY DEF Begins
<1>2. PICK h : Flattens(h, more) /\ FlattenSeq(more) = h[Len(more)]
  BY <1>1, FlattenByFunction
<1>3. h[Len(seqs) + 1] = IF Len(seqs) + 1 = 1 THEN more[Len(seqs) + 1]
                         ELSE h[Len(seqs) + 1 - 1] \o more[Len(seqs) + 1]
  <2>1. \A i \in 1..Len(more) :
            h[i] = IF i = 1 THEN more[i] ELSE h[i - 1] \o more[i]
    BY <1>2, FlattensAt
  <2> QED
    BY <1>1, <2>1
<1>4. CASE seqs = <<>>
  <2>1. FlattenSeq(more) = x
    BY <1>1, <1>2, <1>3, <1>4
  <2>2. FlattenSeq(seqs) \o x = x
    BY <1>4, FlattenEmpty
  <2> QED
    BY <2>1, <2>2
<1>5. CASE seqs # <<>>
  <2>1. PICK g : Flattens(g, seqs) /\ FlattenSeq(seqs) = g[Len(seqs)]
    BY <1>5, FlattenByFunction
  <2>2. Len(seqs) \in 1..Len(seqs)
    BY <1>5
  <2>3. Agree(g, h, seqs)
    BY <1>1, <1>2, <2>1, FlattensPrefix
  <2>4. Len(seqs) + 1 # 1 /\ Len(seqs) + 1 - 1 = Len(seqs)
    BY <2>2
  <2>5. h[Len(seqs) + 1] = h[Len(seqs)] \o x
    BY <1>1, <1>3, <2>4
  <2>6. h[Len(seqs)] = FlattenSeq(seqs)
    BY <2>1, <2>2, <2>3 DEF Agree
  <2> QED
    BY <1>1, <1>2, <2>5, <2>6
<1> QED
  BY <1>4, <1>5

\* The two halves of a vector of buffers are flattened one after the other.
LEMMA FlattenConcat ==
    ASSUME NEW S, NEW a \in Seq(Seq(S))
    PROVE  \A b \in Seq(Seq(S)) :
                FlattenSeq(a \o b) = FlattenSeq(a) \o FlattenSeq(b)
<1> DEFINE P(n) == \A b \in Seq(Seq(S)) : Len(b) = n =>
                        FlattenSeq(a \o b) = FlattenSeq(a) \o FlattenSeq(b)
           N == {n \in Nat : P(n)}
<1>1. P(0)
  <2> SUFFICES ASSUME NEW b \in Seq(Seq(S)), Len(b) = 0
               PROVE  FlattenSeq(a \o b) = FlattenSeq(a) \o FlattenSeq(b)
    OBVIOUS
  <2>1. b = <<>> /\ a \o b = a
    OBVIOUS
  <2>2. FlattenSeq(a) \in Seq(S)
    BY FlattenType
  <2>3. FlattenSeq(a) \o <<>> = FlattenSeq(a)
    BY <2>2
  <2> QED
    BY <2>1, <2>3, FlattenEmpty
<1>2. ASSUME NEW n \in Nat, P(n)
      PROVE  P(n + 1)
  <2> SUFFICES ASSUME NEW b \in Seq(Seq(S)), Len(b) = n + 1
               PROVE  FlattenSeq(a \o b) = FlattenSeq(a) \o FlattenSeq(b)
    OBVIOUS
  <2> DEFINE front == SubSeq(b, 1, n)
             last == b[n + 1]
  <2>1. /\ front \in Seq(Seq(S)) /\ Len(front) = n /\ last \in Seq(S)
        /\ b = Append(front, last) /\ a \o b = Append(a \o front, last)
        /\ a \o front \in Seq(Seq(S))
    <3>1. front \in Seq(Seq(S)) /\ Len(front) = n /\ last \in Seq(S)
      OBVIOUS
    <3>2. b = Append(front, last)
      OBVIOUS
    <3> HIDE DEF front, last
    <3>3. a \o Append(front, last) = Append(a \o front, last)
      BY <3>1, ConcatAppend, SMTT(30)
    <3> QED
      BY <3>1, <3>2, <3>3
  <2> HIDE DEF front, last
  <2>2. FlattenSeq(a \o front) = FlattenSeq(a) \o FlattenSeq(front)
    BY <1>2, <2>1
  <2>3. FlattenSeq(b) = FlattenSeq(front) \o last
    BY <2>1, FlattenAppend
  <2>4. FlattenSeq(a \o b) = FlattenSeq(a \o front) \o last
    BY <2>1, FlattenAppend
  <2>5. FlattenSeq(a) \in Seq(S) /\ FlattenSeq(front) \in Seq(S)
    BY <2>1, FlattenType
  <2>6. (FlattenSeq(a) \o FlattenSeq(front)) \o last
            = FlattenSeq(a) \o (FlattenSeq(front) \o last)
    <3>1. FlattenSeq(a) \in Seq(S) /\ FlattenSeq(front) \in Seq(S) /\ last \in Seq(S)
      BY <2>1, <2>5
    <3> QED
      BY ONLY <3>1, ConcatAssoc
  <2> QED
    BY <2>2, <2>3, <2>4, <2>6
<1> HIDE DEF P
<1>3. 0 \in N /\ \A n \in Nat : n \in N => n + 1 \in N
  BY <1>1, <1>2
<1> HIDE DEF N
<1>4. Nat \subseteq N
  BY <1>3, NatSetInduction
<1>5. \A b \in Seq(Seq(S)) : Len(b) \in Nat /\ P(Len(b))
  BY <1>4 DEF N
<1> QED
  BY <1>5 DEF P

\* One member alone.
LEMMA FlattenOne ==
    ASSUME NEW S, NEW x \in Seq(S)
    PROVE  FlattenSeq(<<x>>) = x
<1>1. <<>> \in Seq(Seq(S)) /\ Append(<<>>, x) = <<x>>
  OBVIOUS
<1>2. FlattenSeq(Append(<<>>, x)) = FlattenSeq(<<>>) \o x
  BY <1>1, FlattenAppend
<1>3. <<>> \o x = x
  OBVIOUS
<1> QED
  BY <1>1, <1>2, <1>3, FlattenEmpty

\* What the members after the first j are flattened to.
FlattenFrom(seqs, j) == FlattenSeq(SubSeq(seqs, j + 1, Len(seqs)))

\* It begins with the next member.
LEMMA FlattenFromIs ==
    ASSUME NEW S, NEW seqs \in Seq(Seq(S))
    PROVE  /\ \A j \in 0..Len(seqs) : FlattenFrom(seqs, j) \in Seq(S)
           /\ FlattenFrom(seqs, 0) = FlattenSeq(seqs)
           /\ FlattenFrom(seqs, Len(seqs)) = <<>>
           /\ \A j \in 0..(Len(seqs) - 1) :
                FlattenFrom(seqs, j) = seqs[j + 1] \o FlattenFrom(seqs, j + 1)
<1>0. Len(seqs) \in Nat
  OBVIOUS
<1>1. ASSUME NEW j \in 0..Len(seqs)
      PROVE  FlattenFrom(seqs, j) \in Seq(S)
  <2>1. SubSeq(seqs, j + 1, Len(seqs)) \in Seq(Seq(S))
    BY <1>0
  <2> QED
    BY <2>1, FlattenType DEF FlattenFrom
<1>2. FlattenFrom(seqs, 0) = FlattenSeq(seqs)
  <2>1. SubSeq(seqs, 0 + 1, Len(seqs)) = seqs
    OBVIOUS
  <2> QED
    BY <2>1 DEF FlattenFrom
<1>3. FlattenFrom(seqs, Len(seqs)) = <<>>
  <2>1. SubSeq(seqs, Len(seqs) + 1, Len(seqs)) = <<>>
    BY <1>0
  <2> QED
    BY <2>1, FlattenEmpty DEF FlattenFrom
<1>4. ASSUME NEW j \in 0..(Len(seqs) - 1)
      PROVE  FlattenFrom(seqs, j) = seqs[j + 1] \o FlattenFrom(seqs, j + 1)
  <2> DEFINE a == SubSeq(seqs, j + 1, Len(seqs))
             b == SubSeq(seqs, (j + 1) + 1, Len(seqs))
             x == seqs[j + 1]
  <2>0. j \in Nat /\ j + 1 <= Len(seqs)
    BY <1>0
  <2>1. a \in Seq(Seq(S)) /\ Len(a) = Len(seqs) - j
        /\ \A i \in 1..(Len(seqs) - j) : a[i] = seqs[j + i]
    BY <1>0, <2>0
  <2>2. b \in Seq(Seq(S)) /\ Len(b) = Len(seqs) - j - 1
        /\ \A i \in 1..(Len(seqs) - j - 1) : b[i] = seqs[j + 1 + i]
    BY <1>0, <2>0
  <2>3. x \in Seq(S) /\ <<x>> \in Seq(Seq(S)) /\ Len(<<x>>) = 1 /\ <<x>>[1] = x
    BY <2>0
  <2> HIDE DEF a, b
  <2>4. a = <<x>> \o b
    <3>1. /\ <<x>> \o b \in Seq(Seq(S)) /\ Len(<<x>> \o b) = 1 + Len(b)
          /\ \A i \in 1..(1 + Len(b)) :
                (<<x>> \o b)[i] = IF i <= 1 THEN <<x>>[i] ELSE b[i - 1]
      <4> HIDE DEF x
      <4> QED
        BY <2>2, <2>3
    <3>2. 1 + Len(b) = Len(seqs) - j
      BY <1>0, <2>0, <2>2
    <3>3. ASSUME NEW i \in 1..(Len(seqs) - j)
          PROVE  a[i] = (<<x>> \o b)[i]
      <4>1. CASE i = 1
        <5>1. a[1] = seqs[j + 1] /\ (<<x>> \o b)[1] = <<x>>[1]
          BY <1>0, <2>0, <2>1, <3>1, <3>2, <4>1
        <5> QED
          BY <2>3, <4>1, <5>1
      <4>2. CASE i # 1
        <5>1. i - 1 \in 1..(Len(seqs) - j - 1) /\ j + 1 + (i - 1) = j + i
          BY <1>0, <2>0, <4>2
        <5>2. b[i - 1] = seqs[j + 1 + (i - 1)]
          BY <2>2, <5>1
        <5>3. (<<x>> \o b)[i] = b[i - 1]
          <6>1. i \in 1..(1 + Len(b)) /\ ~(i <= 1)
            BY <1>0, <2>0, <3>2, <4>2
          <6> HIDE DEF x
          <6> QED
            BY <3>1, <6>1
        <5> QED
          BY <2>1, <5>1, <5>2, <5>3
      <4> QED
        BY <4>1, <4>2
    <3> HIDE DEF x
    <3> QED
      BY <2>1, <3>1, <3>2, <3>3, SeqEqual
  <2>5. FlattenSeq(<<x>> \o b) = FlattenSeq(<<x>>) \o FlattenSeq(b)
    BY <2>2, <2>3, FlattenConcat
  <2>6. FlattenSeq(<<x>>) = x
    BY <2>3, FlattenOne
  <2> QED
    BY <2>4, <2>5, <2>6 DEF FlattenFrom, a, b
<1> QED
  BY <1>1, <1>2, <1>3, <1>4

-----------------------------------------------------------------------------
\* A concatenation, element by element: s is a, of length n, and then b.
Joins(s, a, b, n) ==
    /\ n \in Nat /\ Len(b) \in Nat /\ Len(s) = n + Len(b)
    /\ \A i \in 1..n : s[i] = a[i]
    /\ \A i \in 1..Len(b) : s[n + i] = b[i]

\* So is every concatenation.
LEMMA ConcatAt ==
    ASSUME NEW S, NEW a \in Seq(S), NEW b \in Seq(S)
    PROVE  a \o b \in Seq(S) /\ Joins(a \o b, a, b, Len(a))
<1> DEFINE n == Len(a)
<1>0. n \in Nat /\ Len(b) \in Nat
  OBVIOUS
<1>1. a \o b \in Seq(S) /\ Len(a \o b) = n + Len(b)
  OBVIOUS
<1>2. \A i \in 1..n : (a \o b)[i] = a[i]
  BY <1>0
<1>3. ASSUME NEW i \in 1..Len(b) PROVE (a \o b)[n + i] = b[i]
  <2>1. n + i \in 1..(n + Len(b)) /\ ~(n + i <= n) /\ (n + i) - n = i
    BY <1>0
  <2>2. (a \o b)[n + i] = b[(n + i) - n]
    BY <1>0, <2>1
  <2> QED
    BY <2>1, <2>2
<1> QED
  BY <1>0, <1>1, <1>2, <1>3 DEF Joins

\* The first j + 1 of a sequence.
LEMMA SubSeqGrow ==
    ASSUME NEW U, NEW g \in Seq(U), NEW j \in Nat, j + 1 <= Len(g)
    PROVE  SubSeq(g, 1, j + 1) = Append(SubSeq(g, 1, j), g[j + 1])
<1> DEFINE a == SubSeq(g, 1, j + 1)
           b == SubSeq(g, 1, j)
           c == Append(b, g[j + 1])
<1>1. g[j + 1] \in U
  OBVIOUS
<1>2. b \in Seq(U) /\ Len(b) = j /\ \A i \in 1..j : b[i] = g[i]
  OBVIOUS
<1>3. a \in Seq(U) /\ Len(a) = j + 1 /\ \A i \in 1..(j + 1) : a[i] = g[i]
  OBVIOUS
<1> HIDE DEF a, b
<1>4. c \in Seq(U) /\ Len(c) = j + 1 /\ c[j + 1] = g[j + 1] /\ \A i \in 1..j : c[i] = b[i]
  BY <1>1, <1>2
<1> HIDE DEF c
<1>5. \A i \in 1..(j + 1) : a[i] = c[i]
  <2>1. \A i \in 1..(j + 1) : i \in 1..j \/ i = j + 1
    OBVIOUS
  <2> QED
    BY <1>2, <1>3, <1>4, <2>1
<1> QED
  BY <1>3, <1>4, <1>5, SeqEqual DEF a, b, c

\* Concatenation as an operator of its own, which the provers do not look into.
Cat(a, b) == a \o b

\* A concatenation of six, regrouped.
LEMMA RegroupSix ==
    ASSUME NEW U, NEW a \in Seq(U), NEW c \in Seq(U), NEW f \in Seq(U), NEW d \in Seq(U),
           NEW t \in Seq(U)
    PROVE  Cat(Cat(Cat(Cat(Cat(a, c), f), c), d), t) = Cat(Cat(a, c), Cat(f, Cat(c, Cat(d, t))))
<1>1. \A p, q, r \in Seq(U) : Cat(p, q) \in Seq(U) /\ Cat(Cat(p, q), r) = Cat(p, Cat(q, r))
  <2> TAKE p, q, r \in Seq(U)
  <2>1. p \o q \in Seq(U)
    BY ONLY p \in Seq(U), q \in Seq(U)
  <2>2. (p \o q) \o r = p \o (q \o r)
    BY ONLY p \in Seq(U), q \in Seq(U), r \in Seq(U), SMTT(30)
  <2> QED
    BY <2>1, <2>2, Zenon DEF Cat
<1>2. PICK x \in Seq(U) : x = Cat(a, c)
  BY <1>1
<1>3. PICK y \in Seq(U) : y = Cat(x, f)
  BY <1>1
<1>4. PICK v \in Seq(U) : v = Cat(d, t)
  BY <1>1
<1>5. PICK w \in Seq(U) : w = Cat(c, v)
  BY <1>1
<1>6. Cat(Cat(Cat(y, c), d), t) = Cat(Cat(y, c), v)
  BY <1>1, <1>4
<1>7. Cat(Cat(y, c), v) = Cat(y, w)
  BY <1>1, <1>5
<1>8. Cat(y, w) = Cat(x, Cat(f, w))
  BY <1>1, <1>3
<1>9. Cat(Cat(Cat(y, c), d), t) = Cat(x, Cat(f, w))
  BY <1>6, <1>7, <1>8, Zenon
<1> QED
  BY ONLY <1>2, <1>3, <1>4, <1>5, <1>9, Zenon
=============================================================================
