-------------------------- MODULE HttpServerProofs --------------------------
(***************************************************************************)
(* Proofs about the byte buffer and the HTTP connection over it.           *)
(***************************************************************************)
EXTENDS HttpServer, DataLemmas

(***************************************************************************)
(* The buffer: what its operations do to the payload, whatever the room in *)
(* the vector.                                                             *)
(***************************************************************************)
Buffers(U) == [buffer_ : Seq(U), read_index_ : Nat, write_index_ : Nat]

\* The payload is the part of the vector between the indices.
LEMMA PayloadIs ==
    ASSUME NEW U, NEW b \in Buffers(U), IsBuffer(b)
    PROVE  /\ Payload(b) \in Seq(U)
           /\ Len(Payload(b)) = b.write_index_ - b.read_index_
           /\ \A i \in 1..(b.write_index_ - b.read_index_) :
                    Payload(b)[i] = b.buffer_[b.read_index_ + i]
<1>1. /\ b.buffer_ \in Seq(U) /\ b.read_index_ \in Nat /\ b.write_index_ \in Nat
      /\ b.read_index_ <= b.write_index_ /\ b.write_index_ <= Len(b.buffer_)
  BY DEF Buffers, IsBuffer
<1> QED
  BY <1>1, SMTT(30) DEF Payload

\* The vector m is vec with the data at its place, as far as it fits.
Copied(m, vec, at, data) ==
    /\ Len(m) = Len(vec)
    /\ \A i \in 1..Len(vec) :
            m[i] = IF at < i /\ i <= at + Len(data) THEN data[i - at] ELSE vec[i]

\* std::copy writes the data at its place and leaves the rest of the vector;
\* what does not fit is not written.
LEMMA CopyToIs ==
    ASSUME NEW U, NEW vec \in Seq(U), NEW at \in 0..Len(vec), NEW data \in Seq(U)
    PROVE  /\ CopyTo(vec, at, data) \in Seq(U)
           /\ Copied(CopyTo(vec, at, data), vec, at, data)
<1> DEFINE front == SubSeq(vec, 1, at)
           back == SubSeq(vec, at + Len(data) + 1, Len(vec))
           head == front \o data
           all == head \o back
<1>0. Len(vec) \in Nat /\ Len(data) \in Nat /\ at \in Nat /\ at <= Len(vec)
  OBVIOUS
<1>1. front \in Seq(U) /\ Len(front) = at /\ \A i \in 1..at : front[i] = vec[i]
  OBVIOUS
<1>2. /\ back \in Seq(U)
      /\ Len(back) = IF at + Len(data) <= Len(vec) THEN Len(vec) - (at + Len(data)) ELSE 0
      /\ \A i \in 1..Len(back) : back[i] = vec[at + Len(data) + i]
  OBVIOUS
<1> HIDE DEF front, back
<1>8. /\ head \in Seq(U) /\ Len(head) = at + Len(data)
      /\ \A i \in 1..(at + Len(data)) : head[i] = IF i <= at THEN front[i] ELSE data[i - at]
  <2>1. /\ front \o data \in Seq(U) /\ Len(front \o data) = Len(front) + Len(data)
        /\ \A i \in 1..(Len(front) + Len(data)) : (front \o data)[i] =
                IF i <= Len(front) THEN front[i] ELSE data[i - Len(front)]
    BY <1>1, ConcatProperties
  <2> QED
    BY <1>1, <2>1
<1> HIDE DEF head
<1>9. /\ all \in Seq(U) /\ Len(all) = Len(head) + Len(back)
      /\ \A i \in 1..(Len(head) + Len(back)) : all[i] =
            IF i <= Len(head) THEN head[i] ELSE back[i - Len(head)]
  BY <1>2, <1>8, ConcatProperties
<1> HIDE DEF all
<1>3. /\ all \in Seq(U) /\ Len(all) = at + Len(data) + Len(back)
      /\ \A i \in 1..Len(all) : all[i] =
            IF i <= at THEN front[i]
            ELSE IF i <= at + Len(data) THEN data[i - at]
            ELSE back[i - (at + Len(data))]
  <2>1. Len(all) = at + Len(data) + Len(back)
    BY <1>8, <1>9
  <2>2. ASSUME NEW i \in 1..Len(all)
        PROVE  all[i] = IF i <= at THEN front[i]
                        ELSE IF i <= at + Len(data) THEN data[i - at]
                        ELSE back[i - (at + Len(data))]
    <3>1. all[i] = IF i <= at + Len(data) THEN head[i] ELSE back[i - (at + Len(data))]
      BY <1>8, <1>9
    <3>2. i <= at + Len(data) => head[i] = IF i <= at THEN front[i] ELSE data[i - at]
      BY <1>8
    <3>3. i <= at => i <= at + Len(data)
      BY <1>0
    <3> QED
      BY <3>1, <3>2, <3>3
  <2> QED
    BY <1>9, <2>1, <2>2
<1>4. Len(all) >= Len(vec)
  <2>1. Len(all) = at + Len(data) + Len(back)
    BY <1>3
  <2>2. Len(back) >= Len(vec) - (at + Len(data)) /\ Len(back) \in Nat
    BY <1>0, <1>2
  <2> QED
    BY <1>0, <2>1, <2>2
<1>5. CopyTo(vec, at, data) = SubSeq(all, 1, Len(vec))
  BY DEF CopyTo, all, head, front, back
<1>6. /\ SubSeq(all, 1, Len(vec)) \in Seq(U)
      /\ Len(SubSeq(all, 1, Len(vec))) = Len(vec)
      /\ \A i \in 1..Len(vec) : SubSeq(all, 1, Len(vec))[i] = all[i]
  BY <1>3, <1>4
<1>7. ASSUME NEW i \in 1..Len(vec)
      PROVE  all[i] = IF at < i /\ i <= at + Len(data) THEN data[i - at] ELSE vec[i]
  <2>1. i \in 1..Len(all)
    BY <1>3, <1>4
  <2>2. CASE i <= at
    BY <1>1, <1>3, <2>1, <2>2
  <2>3. CASE at < i /\ i <= at + Len(data)
    BY <1>3, <2>1, <2>3
  <2>4. CASE i > at + Len(data)
    <3>1. /\ i - (at + Len(data)) \in 1..Len(back)
          /\ at + Len(data) + (i - (at + Len(data))) = i
      BY <1>2, <2>4
    <3>2. back[i - (at + Len(data))] = vec[i]
      BY <1>2, <3>1
    <3> QED
      BY <1>3, <2>1, <2>4, <3>2
  <2> QED
    BY <1>0, <2>2, <2>3, <2>4
<1> QED
  BY <1>5, <1>6, <1>7 DEF Copied

\* The zeros a vector grows by.
LEMMA ZerosIs ==
    ASSUME NEW U, Zero \in U, NEW n \in Nat
    PROVE  Zeros(n) \in Seq(U) /\ Len(Zeros(n)) = n
  BY DEF Zeros

\* Two buffers that hold the same bytes between their indices.
LEMMA SamePayload ==
    ASSUME NEW U, NEW b \in Buffers(U), NEW c \in Buffers(U), IsBuffer(b), IsBuffer(c),
           c.write_index_ - c.read_index_ = b.write_index_ - b.read_index_,
           \A i \in 1..(b.write_index_ - b.read_index_) :
                c.buffer_[c.read_index_ + i] = b.buffer_[b.read_index_ + i]
    PROVE  Payload(c) = Payload(b)
<1>1. /\ Payload(b) \in Seq(U) /\ Len(Payload(b)) = b.write_index_ - b.read_index_
      /\ \A i \in 1..(b.write_index_ - b.read_index_) :
                Payload(b)[i] = b.buffer_[b.read_index_ + i]
  BY PayloadIs
<1>2. /\ Payload(c) \in Seq(U) /\ Len(Payload(c)) = c.write_index_ - c.read_index_
      /\ \A i \in 1..(c.write_index_ - c.read_index_) :
                Payload(c)[i] = c.buffer_[c.read_index_ + i]
  BY PayloadIs
<1> QED
  BY <1>1, <1>2, SeqEqual

\* Resize makes the room that was asked for and keeps the payload, whether the
\* vector grows or the payload moves to its front.
LEMMA ResizeIs ==
    ASSUME NEW U, Zero \in U, NEW b \in Buffers(U), IsBuffer(b), NEW len \in Nat,
           remain_size(b) < len
    PROVE  /\ Resize(b, len) \in Buffers(U)
           /\ IsBuffer(Resize(b, len))
           /\ remain_size(Resize(b, len)) >= len
           /\ Payload(Resize(b, len)) = Payload(b)
<1> DEFINE v == b.buffer_
           r == b.read_index_
           w == b.write_index_
<1>1. /\ v \in Seq(U) /\ r \in Nat /\ w \in Nat /\ kBufBegin \in Nat /\ Len(v) \in Nat
      /\ kBufBegin <= r /\ r <= w /\ w <= Len(v) /\ Len(v) - w < len
  BY BufferAssumption DEF Buffers, IsBuffer, remain_size
<1>2. CASE r - kBufBegin + remain_size(b) < len
  <2> DEFINE z == Zeros(w + len - Len(v))
             c == [b EXCEPT !.buffer_ = v \o z]
  <2>1. w + len - Len(v) \in Nat
    BY <1>1
  <2>2. z \in Seq(U) /\ Len(z) = w + len - Len(v)
    BY <2>1, ZerosIs
  <2> HIDE DEF z
  <2>3. /\ v \o z \in Seq(U) /\ Len(v \o z) = w + len
        /\ \A i \in 1..Len(v) : (v \o z)[i] = v[i]
    BY <1>1, <2>2, SMTT(30)
  <2>4. /\ c \in Buffers(U) /\ c.buffer_ = v \o z /\ c.read_index_ = r
        /\ c.write_index_ = w
    BY <2>3 DEF Buffers
  <2>5. Resize(b, len) = c
    BY <1>2 DEF Resize, z
  <2> HIDE DEF c
  <2>6. IsBuffer(c) /\ remain_size(c) >= len
    BY <1>1, <2>3, <2>4 DEF IsBuffer, remain_size
  <2>7. \A i \in 1..(w - r) : c.buffer_[r + i] = v[r + i]
    <3> TAKE i \in 1..(w - r)
    <3>1. r + i \in 1..Len(v)
      BY <1>1
    <3> QED
      BY <2>3, <2>4, <3>1
  <2>8. Payload(c) = Payload(b)
    BY <2>4, <2>6, <2>7, SamePayload
  <2> QED
    BY <2>4, <2>5, <2>6, <2>8
<1>3. CASE ~(r - kBufBegin + remain_size(b) < len)
  <2> DEFINE m == CopyTo(v, kBufBegin, Payload(b))
             c == [buffer_      |-> m,
                   read_index_  |-> kBufBegin,
                   write_index_ |-> kBufBegin + payload_size(b)]
  <2>1. /\ Payload(b) \in Seq(U) /\ Len(Payload(b)) = w - r
        /\ \A i \in 1..(w - r) : Payload(b)[i] = v[r + i]
    BY PayloadIs
  <2>2. kBufBegin \in 0..Len(v)
    BY <1>1
  <2>3. /\ m \in Seq(U) /\ Len(m) = Len(v)
        /\ \A i \in 1..Len(v) : m[i] =
                IF kBufBegin < i /\ i <= kBufBegin + Len(Payload(b))
                THEN Payload(b)[i - kBufBegin] ELSE v[i]
    <3>1. m \in Seq(U) /\ Copied(m, v, kBufBegin, Payload(b))
      BY <1>1, <2>1, <2>2, CopyToIs
    <3> QED
      BY <3>1 DEF Copied
  <2> HIDE DEF m
  <2>4. payload_size(b) = w - r /\ w - r \in Nat
    BY <1>1 DEF payload_size
  <2>5. /\ c \in Buffers(U) /\ c.buffer_ = m /\ c.read_index_ = kBufBegin
        /\ c.write_index_ = kBufBegin + (w - r)
    BY <1>1, <2>3, <2>4 DEF Buffers
  <2>6. Resize(b, len) = c
    BY <1>3 DEF Resize, m
  <2> HIDE DEF c
  <2>7. IsBuffer(c) /\ remain_size(c) >= len
    BY <1>1, <1>3, <2>3, <2>5, SMTT(30) DEF IsBuffer, remain_size
  <2>8. \A i \in 1..(w - r) : c.buffer_[kBufBegin + i] = v[r + i]
    <3> TAKE i \in 1..(w - r)
    <3>1. kBufBegin + i \in 1..Len(v) /\ kBufBegin \in Nat /\ i \in Nat
      BY <1>1
    <3>2. kBufBegin < kBufBegin + i /\ kBufBegin + i <= kBufBegin + Len(Payload(b))
      BY <1>1, <2>1
    <3>3. Payload(b)[i] = v[r + i] /\ c.buffer_ = m
      BY <2>1, <2>5
    <3> HIDE DEF v, r, w
    <3>4. PICK j \in 1..Len(v) : j = kBufBegin + i
      BY <3>1
    <3>5. m[j] = Payload(b)[j - kBufBegin]
      BY <2>3, <3>2, <3>4
    <3>6. j - kBufBegin = i
      BY <3>1, <3>4
    <3> QED
      BY <3>3, <3>4, <3>5, <3>6, Zenon
  <2>9. c.write_index_ - c.read_index_ = w - r
    BY <1>1, <2>5
  <2>10. Payload(c) = Payload(b)
    BY <2>5, <2>7, <2>8, <2>9, SamePayload
  <2> QED
    BY <2>5, <2>6, <2>7, <2>10
<1> QED
  BY <1>2, <1>3

Written(b, data) ==
    [b EXCEPT !.buffer_ = CopyTo(b.buffer_, b.write_index_, data),
              !.write_index_ = b.write_index_ + Len(data)]

\* Data written into the room behind the payload is added to it.
LEMMA WriteIs ==
    ASSUME NEW U, NEW b \in Buffers(U), IsBuffer(b), NEW data \in Seq(U),
           Len(data) <= remain_size(b)
    PROVE  /\ Written(b, data) \in Buffers(U) /\ IsBuffer(Written(b, data))
           /\ Payload(Written(b, data)) = Payload(b) \o data
<1> DEFINE c == Written(b, data)
           v == b.buffer_
           r == b.read_index_
           w == b.write_index_
           m == CopyTo(v, w, data)
<1>1. /\ v \in Seq(U) /\ r \in Nat /\ w \in Nat /\ Len(v) \in Nat /\ Len(data) \in Nat
      /\ kBufBegin <= r /\ r <= w /\ w <= Len(v) /\ w + Len(data) <= Len(v)
  BY DEF Buffers, IsBuffer, remain_size
<1>2. w \in 0..Len(v)
  BY <1>1
<1>3. /\ m \in Seq(U) /\ Len(m) = Len(v)
      /\ \A i \in 1..Len(v) : m[i] =
            IF w < i /\ i <= w + Len(data) THEN data[i - w] ELSE v[i]
  <2>1. m \in Seq(U) /\ Copied(m, v, w, data)
    BY <1>1, <1>2, CopyToIs
  <2> QED
    BY <2>1 DEF Copied
<1> HIDE DEF m
<1>4. /\ c \in Buffers(U) /\ c.buffer_ = m /\ c.read_index_ = r
      /\ c.write_index_ = w + Len(data)
  <2>1. c = [b EXCEPT !.buffer_ = m, !.write_index_ = w + Len(data)]
    BY DEF m, Written
  <2>2. w + Len(data) \in Nat
    BY <1>1
  <2> QED
    BY <1>3, <2>1, <2>2 DEF Buffers
<1> HIDE DEF c
<1>5. IsBuffer(c)
  BY <1>1, <1>3, <1>4, BufferAssumption DEF IsBuffer
<1>6. /\ Payload(b) \in Seq(U) /\ Len(Payload(b)) = w - r
      /\ \A i \in 1..(w - r) : Payload(b)[i] = v[r + i]
  BY PayloadIs
<1>7. /\ Payload(c) \in Seq(U) /\ Len(Payload(c)) = w + Len(data) - r
      /\ \A i \in 1..(w + Len(data) - r) : Payload(c)[i] = m[r + i]
  <2>1. /\ Payload(c) \in Seq(U) /\ Len(Payload(c)) = c.write_index_ - c.read_index_
        /\ \A i \in 1..(c.write_index_ - c.read_index_) :
                Payload(c)[i] = c.buffer_[c.read_index_ + i]
    BY <1>4, <1>5, PayloadIs
  <2>2. c.buffer_ = m /\ c.read_index_ = r /\ c.write_index_ = w + Len(data)
    BY <1>4
  <2>3. c.write_index_ - c.read_index_ = w + Len(data) - r
    BY <1>1, <2>2
  <2>4. ASSUME NEW i \in 1..(w + Len(data) - r)
        PROVE  Payload(c)[i] = m[r + i]
    <3>1. i \in 1..(c.write_index_ - c.read_index_)
      BY <2>3
    <3>2. Payload(c)[i] = c.buffer_[c.read_index_ + i]
      BY <2>1, <3>1
    <3> QED
      BY <2>2, <3>2
  <2> QED
    BY <2>1, <2>3, <2>4
<1>8. /\ Payload(b) \o data \in Seq(U) /\ Len(Payload(b) \o data) = w - r + Len(data)
      /\ \A i \in 1..(w - r + Len(data)) : (Payload(b) \o data)[i] =
            IF i <= w - r THEN Payload(b)[i] ELSE data[i - (w - r)]
  <2> DEFINE p == Payload(b)
             n == w - r
  <2>1. p \in Seq(U) /\ Len(p) = n /\ n \in Nat
    BY <1>1, <1>6
  <2> HIDE DEF p, n
  <2>2. /\ p \o data \in Seq(U) /\ Len(p \o data) = n + Len(data)
        /\ \A i \in 1..(n + Len(data)) : (p \o data)[i] =
                IF i <= n THEN p[i] ELSE data[i - n]
    BY <2>1
  <2> QED
    BY <2>2 DEF p, n
<1>9. Len(Payload(c)) = Len(Payload(b) \o data)
  BY <1>1, <1>7, <1>8
<1>10. ASSUME NEW i \in 1..Len(Payload(c))
       PROVE  Payload(c)[i] = (Payload(b) \o data)[i]
  <2>1. /\ i \in 1..(w + Len(data) - r) /\ i \in 1..(w - r + Len(data)) /\ i \in Nat
        /\ r + i \in 1..Len(v) /\ r + i - w = i - (w - r)
    <3>1. i \in 1..(w + Len(data) - r)
      BY <1>7
    <3> QED
      BY <1>1, <3>1, SMTT(30)
  <2>2. CASE i <= w - r
    <3>1. i \in 1..(w - r) /\ ~(w < r + i)
      BY <1>1, <2>1, <2>2
    <3>2. Payload(c)[i] = v[r + i]
      BY <1>3, <1>7, <2>1, <3>1
    <3> QED
      BY <1>6, <1>8, <2>1, <2>2, <3>1, <3>2
  <2>3. CASE ~(i <= w - r)
    <3>1. w < r + i /\ r + i <= w + Len(data)
      BY <1>1, <2>1, <2>3, SMTT(30)
    <3>2. m[r + i] = data[r + i - w]
      <4>1. PICK j \in 1..Len(v) : j = r + i
        BY <2>1
      <4>2. w < j /\ j <= w + Len(data)
        BY <3>1, <4>1
      <4>3. m[j] = data[j - w]
        BY <1>3, <4>2
      <4>4. j - w = r + i - w
        BY <1>1, <2>1, <4>1
      <4> QED
        BY <4>1, <4>3, <4>4
    <3>3. Payload(c)[i] = m[r + i]
      BY <1>7, <2>1
    <3>4. (Payload(b) \o data)[i] = data[i - (w - r)]
      BY <1>8, <2>1, <2>3
    <3> QED
      BY <2>1, <3>2, <3>3, <3>4
  <2> QED
    BY <2>2, <2>3
<1>11. Payload(c) = Payload(b) \o data
  BY <1>7, <1>8, <1>9, <1>10, SeqEqual
<1> QED
  BY <1>4, <1>5, <1>11 DEF c

\* Append adds the data to the payload, whatever Resize had to do before.
LEMMA BufferAppendIs ==
    ASSUME NEW U, Zero \in U, NEW b \in Buffers(U), IsBuffer(b), NEW data \in Seq(U)
    PROVE  /\ BufferAppend(b, data) \in Buffers(U)
           /\ IsBuffer(BufferAppend(b, data))
           /\ Payload(BufferAppend(b, data)) = Payload(b) \o data
<1> DEFINE r == IF remain_size(b) < Len(data) THEN Resize(b, Len(data)) ELSE b
           c == Written(r, data)
<1>0. Len(data) \in Nat /\ remain_size(b) \in Int
  BY DEF Buffers, remain_size
<1>1. /\ r \in Buffers(U) /\ IsBuffer(r) /\ Len(data) <= remain_size(r)
      /\ Payload(r) = Payload(b)
  <2>1. CASE remain_size(b) < Len(data)
    <3>1. r = Resize(b, Len(data))
      BY <2>1
    <3>2. /\ r \in Buffers(U) /\ IsBuffer(r) /\ remain_size(r) >= Len(data)
          /\ Payload(r) = Payload(b)
      BY <1>0, <2>1, <3>1, ResizeIs
    <3> HIDE DEF r
    <3>3. remain_size(r) \in Int
      BY <3>2 DEF Buffers, remain_size
    <3> QED
      BY <1>0, <3>2, <3>3
  <2>2. CASE ~(remain_size(b) < Len(data))
    BY <1>0, <2>2
  <2> QED
    BY <2>1, <2>2
<1>2. BufferAppend(b, data) = c
  BY DEF BufferAppend, Written
<1> HIDE DEF r
<1>3. c \in Buffers(U) /\ IsBuffer(c) /\ Payload(c) = Payload(r) \o data
  BY <1>1, WriteIs
<1> QED
  BY <1>1, <1>2, <1>3

\* What does not fit into the vector is not copied to it.
LEMMA CopyToFits ==
    ASSUME NEW U, NEW vec \in Seq(U), NEW at \in 0..Len(vec), NEW data \in Seq(U),
           NEW n \in Nat, n = Len(vec) - at, n < Len(data)
    PROVE  CopyTo(vec, at, data) = CopyTo(vec, at, SubSeq(data, 1, n))
<1> DEFINE d == SubSeq(data, 1, n)
           x == CopyTo(vec, at, data)
           y == CopyTo(vec, at, d)
<1>1. d \in Seq(U) /\ Len(d) = n /\ \A i \in 1..n : d[i] = data[i]
  OBVIOUS
<1> HIDE DEF d
<1>2. x \in Seq(U) /\ Copied(x, vec, at, data)
  BY CopyToIs
<1>3. y \in Seq(U) /\ Copied(y, vec, at, d)
  BY <1>1, CopyToIs
<1> HIDE DEF x, y
<1>4. ASSUME NEW i \in 1..Len(vec)
      PROVE  x[i] = y[i]
  <2>1. x[i] = IF at < i /\ i <= at + Len(data) THEN data[i - at] ELSE vec[i]
    BY <1>2 DEF Copied
  <2>2. y[i] = IF at < i /\ i <= at + n THEN d[i - at] ELSE vec[i]
    BY <1>1, <1>3 DEF Copied
  <2>3. i <= at + n /\ i <= at + Len(data)
    OBVIOUS
  <2>4. at < i => i - at \in 1..n
    BY <2>3
  <2> QED
    BY <1>1, <2>1, <2>2, <2>3, <2>4
<1>5. Len(x) = Len(vec) /\ Len(y) = Len(vec)
  BY <1>2, <1>3 DEF Copied
<1>6. x = y
  BY <1>2, <1>3, <1>4, <1>5, SeqEqual
<1> QED
  BY <1>6 DEF x, y, d

\* readFd adds to the payload what readv() returned, also when a part of it
\* went by way of extrabuf.
LEMMA readFdIs ==
    ASSUME NEW U, Zero \in U, NEW b \in Buffers(U), IsBuffer(b), NEW data \in Seq(U)
    PROVE  /\ readFd(b, data) \in Buffers(U)
           /\ IsBuffer(readFd(b, data))
           /\ Payload(readFd(b, data)) = Payload(b) \o data
<1> DEFINE v == b.buffer_
           w == b.write_index_
           n == remain_size(b)
           filled == [b EXCEPT !.buffer_ = CopyTo(v, w, data)]
<1>1. /\ v \in Seq(U) /\ w \in Nat /\ Len(v) \in Nat /\ w <= Len(v) /\ n = Len(v) - w
      /\ n \in Nat /\ Len(data) \in Nat /\ b.read_index_ \in Nat
  BY DEF Buffers, IsBuffer, remain_size
<1>2. CASE Len(data) <= n
  <2>1. readFd(b, data) = Written(b, data)
    BY <1>2 DEF readFd, Written, Buffers
  <2> QED
    BY <1>2, <2>1, WriteIs
<1>3. CASE ~(Len(data) <= n)
  <2> DEFINE front == SubSeq(data, 1, n)
             back == SubSeq(data, n + 1, Len(data))
             c == [filled EXCEPT !.write_index_ = Len(v)]
  <2>1. front \in Seq(U) /\ Len(front) = n /\ back \in Seq(U)
    BY <1>1, <1>3
  <2>2. front \o back = data
    <3>1. n \in 0..Len(data) /\ 1 \in 1..(Len(data) + 1) /\ n \in (1 - 1)..Len(data)
          /\ Len(data) \in n..Len(data)
      BY <1>1, <1>3
    <3>2. front \o back = SubSeq(data, 1, Len(data))
      BY ONLY <3>1, data \in Seq(U), ConcatAdjacentSubSeq
    <3> QED
      BY <3>2, SubSeqFull
  <2>3. w \in 0..Len(v) /\ n < Len(data)
    BY <1>1, <1>3
  <2>4. CopyTo(v, w, data) = CopyTo(v, w, front)
    BY <1>1, <2>3, CopyToFits
  <2>5. c = Written(b, front)
    <3>1. Len(v) = w + Len(front)
      BY <1>1, <2>1
    <3> QED
      BY <2>4, <3>1 DEF Written, Buffers
  <2>6. readFd(b, data) = BufferAppend(c, back)
    BY <1>3 DEF readFd
  <2> HIDE DEF front, back, c
  <2>7. /\ Written(b, front) \in Buffers(U) /\ IsBuffer(Written(b, front))
        /\ Payload(Written(b, front)) = Payload(b) \o front
    <3>1. Len(front) <= remain_size(b)
      BY <1>1, <2>1
    <3> QED
      BY <2>1, <3>1, WriteIs
  <2>8. /\ BufferAppend(c, back) \in Buffers(U) /\ IsBuffer(BufferAppend(c, back))
        /\ Payload(BufferAppend(c, back)) = Payload(c) \o back
    BY <2>1, <2>5, <2>7, BufferAppendIs
  <2>9. (Payload(b) \o front) \o back = Payload(b) \o (front \o back)
    <3>1. Payload(b) \in Seq(U) /\ front \in Seq(U) /\ back \in Seq(U)
      BY <2>1, PayloadIs
    <3> QED
      BY ONLY <3>1, ConcatAssociative
  <2> QED
    BY <2>2, <2>5, <2>6, <2>7, <2>8, <2>9
<1> QED
  BY <1>2, <1>3

\* A new buffer has no payload.
LEMMA NewBufferIs ==
    ASSUME NEW U, Zero \in U
    PROVE  NewBuffer \in Buffers(U) /\ IsBuffer(NewBuffer) /\ Payload(NewBuffer) = <<>>
<1>1. kBufBegin + kDefaultSize \in Nat /\ kBufBegin \in Nat /\ kDefaultSize \in Nat
  BY BufferAssumption
<1>2. /\ Zeros(kBufBegin + kDefaultSize) \in Seq(U)
      /\ Len(Zeros(kBufBegin + kDefaultSize)) = kBufBegin + kDefaultSize
  BY <1>1, ZerosIs
<1>3. NewBuffer \in Buffers(U)
  BY <1>1, <1>2 DEF NewBuffer, Buffers
<1>4. IsBuffer(NewBuffer)
  BY <1>1, <1>2 DEF NewBuffer, IsBuffer
<1>5. Payload(NewBuffer) \in Seq(U) /\ Len(Payload(NewBuffer)) = 0
  <2>1. NewBuffer.write_index_ - NewBuffer.read_index_ = 0
    BY <1>1 DEF NewBuffer
  <2> QED
    BY <1>3, <1>4, <2>1, PayloadIs
<1> QED
  BY <1>3, <1>4, <1>5

\* A sequence of two elements.
LEMMA SeqOfTwo ==
    ASSUME NEW U, NEW t \in Seq(U), Len(t) = 2
    PROVE  t = <<t[1], t[2]>>
<1>1. t[1] \in U /\ t[2] \in U
  OBVIOUS
<1>2. <<t[1], t[2]>> \in Seq(U) /\ Len(<<t[1], t[2]>>) = 2
  BY <1>1
<1>3. \A i \in 1..Len(t) : t[i] = <<t[1], t[2]>>[i]
  <2>1. \A i \in 1..Len(t) : i = 1 \/ i = 2
    OBVIOUS
  <2> QED
    BY <2>1
<1> QED
  BY <1>2, <1>3, SeqEqual

\* A payload has a line end after its first k characters.
EndsAt(p, k) == k + 2 <= Len(p) /\ p[k + 1] = CRLF[1] /\ p[k + 2] = CRLF[2]

\* A line end of the buffer is one of its payload.
LEMMA CRLFsAre ==
    ASSUME NEW U, NEW b \in Buffers(U), IsBuffer(b), NEW k \in Nat
    PROVE  b.read_index_ + k \in CRLFs(b) <=> EndsAt(Payload(b), k)
<1> DEFINE v == b.buffer_
           r == b.read_index_
           w == b.write_index_
           p == Payload(b)
<1>1. /\ v \in Seq(U) /\ r \in Nat /\ w \in Nat /\ Len(v) \in Nat
      /\ r <= w /\ w <= Len(v)
  BY DEF Buffers, IsBuffer
<1>2. p \in Seq(U) /\ Len(p) = w - r /\ \A i \in 1..(w - r) : p[i] = v[r + i]
  BY PayloadIs
<1> HIDE DEF p
<1>3. CASE k + 2 <= w - r
  <2>1. k + 1 \in 1..(w - r) /\ k + 2 \in 1..(w - r)
    BY <1>1, <1>3
  <2>2. p[k + 1] = v[r + k + 1] /\ p[k + 2] = v[r + k + 2]
    <3>1. p[k + 1] = v[r + (k + 1)] /\ p[k + 2] = v[r + (k + 2)]
      BY <1>2, <2>1
    <3>2. r + (k + 1) = r + k + 1 /\ r + (k + 2) = r + k + 2
      BY <1>1
    <3> QED
      BY <3>1, <3>2
  <2> DEFINE s == SubSeq(v, r + k + 1, r + k + 2)
  <2>3. s = <<v[r + k + 1], v[r + k + 2]>>
    <3>1. /\ r + k + 1 \in 1..Len(v) /\ r + k + 2 \in 1..Len(v)
          /\ r + k + 2 = (r + k + 1) + 1
      BY <1>1, <1>3, SMTT(30)
    <3>2. PICK m \in 1..Len(v) : m = r + k + 1 /\ m + 1 \in 1..Len(v) /\ m + 1 = r + k + 2
      BY <3>1
    <3> DEFINE t == SubSeq(v, m, m + 1)
    <3>4. t \in Seq(U) /\ Len(t) = 2 /\ t[1] = v[m] /\ t[2] = v[m + 1]
      <4>1. \A i \in m..(m + 1) : v[i] \in U
        BY <1>1, <3>2
      <4>2. m \in Int /\ m + 1 \in Int
        BY <3>2
      <4> HIDE DEF v
      <4>3. /\ SubSeq(v, m, m + 1) \in Seq(U)
            /\ Len(SubSeq(v, m, m + 1)) = IF m <= m + 1 THEN (m + 1) - m + 1 ELSE 0
            /\ \A i \in 1..((m + 1) - m + 1) : SubSeq(v, m, m + 1)[i] = v[m + i - 1]
        BY ONLY <4>1, <4>2, SubSeqProperties
      <4>4. (m + 1) - m + 1 = 2 /\ m + 1 - 1 = m /\ m + 2 - 1 = m + 1 /\ m <= m + 1
        BY <4>2
      <4>5. 1 \in 1..((m + 1) - m + 1) /\ 2 \in 1..((m + 1) - m + 1)
        BY <4>4
      <4> QED
        BY <4>3, <4>4, <4>5
    <3> HIDE DEF t
    <3>5. t = <<t[1], t[2]>>
      BY <3>4, SeqOfTwo
    <3>3. SubSeq(v, m, m + 1) = <<v[m], v[m + 1]>>
      BY <3>4, <3>5 DEF t
    <3> QED
      BY <3>2, <3>3
  <2>4. s = CRLF <=> v[r + k + 1] = CRLF[1] /\ v[r + k + 2] = CRLF[2]
    BY <2>3 DEF CRLF
  <2>5. r + k \in CRLFs(b) <=> s = CRLF
    <3>1. r + k \in r..w /\ r + k + 2 <= w
      BY <1>1, <1>3
    <3> QED
      BY <3>1 DEF CRLFs
  <2> HIDE DEF s
  <2> QED
    BY <1>2, <1>3, <2>2, <2>4, <2>5 DEF EndsAt, p
<1>4. CASE ~(k + 2 <= w - r)
  <2>1. ~(r + k + 2 <= w)
    BY <1>1, <1>4
  <2> QED
    BY <1>2, <1>4, <2>1 DEF EndsAt, CRLFs, p
<1> QED
  BY <1>3, <1>4

\* The first line of a payload has k characters.
FirstEnd(p, k) == EndsAt(p, k) /\ \A j \in 0..(k - 1) : ~EndsAt(p, j)

\* findCRLF and Line give the first line of the payload.
LEMMA LineIs ==
    ASSUME NEW U, NEW b \in Buffers(U), IsBuffer(b), HasCRLF(b)
    PROVE  \E k \in Nat : /\ FirstEnd(Payload(b), k) /\ k + 2 <= Len(Payload(b))
                          /\ findCRLF(b) = b.read_index_ + k
                          /\ Line(b) = SubSeq(Payload(b), 1, k)
<1> DEFINE v == b.buffer_
           r == b.read_index_
           w == b.write_index_
           f == findCRLF(b)
           p == Payload(b)
           k == f - r
<1>1. /\ v \in Seq(U) /\ r \in Nat /\ w \in Nat /\ Len(v) \in Nat
      /\ r <= w /\ w <= Len(v)
  BY DEF Buffers, IsBuffer
<1>2. CRLFs(b) \subseteq Nat /\ CRLFs(b) # {}
  BY <1>1 DEF CRLFs, HasCRLF
<1>3. f \in CRLFs(b) /\ \A i \in CRLFs(b) : f <= i
  BY <1>2, MinOfNats DEF findCRLF
<1>4. f \in r..w /\ f + 2 <= w
  BY <1>3 DEF CRLFs
<1> HIDE DEF f
<1>5. k \in Nat /\ f = r + k
  BY <1>1, <1>4
<1>6. p \in Seq(U) /\ Len(p) = w - r /\ \A i \in 1..(w - r) : p[i] = v[r + i]
  BY PayloadIs
<1> HIDE DEF p, k
<1>7. EndsAt(p, k) /\ k + 2 <= Len(p)
  <2>1. EndsAt(p, k)
    BY <1>3, <1>5, CRLFsAre DEF p
  <2> QED
    BY <2>1 DEF EndsAt
<1>8. ASSUME NEW j \in 0..(k - 1), EndsAt(p, j)
      PROVE  FALSE
  <2>1. j \in Nat /\ r + j < f
    BY <1>1, <1>5
  <2>2. r + j \in CRLFs(b)
    BY <1>8, <2>1, CRLFsAre DEF p
  <2>3. f <= r + j
    BY <1>3, <2>2
  <2> QED
    BY <1>1, <1>4, <2>1, <2>3
<1>9. SubSeq(v, r + 1, f) = SubSeq(p, 1, k)
  <2>1. /\ SubSeq(v, r + 1, f) \in Seq(U) /\ Len(SubSeq(v, r + 1, f)) = k
        /\ \A i \in 1..k : SubSeq(v, r + 1, f)[i] = v[r + i]
    <3>1. /\ SubSeq(v, r + 1, r + k) \in Seq(U) /\ Len(SubSeq(v, r + 1, r + k)) = k
          /\ \A i \in 1..k : SubSeq(v, r + 1, r + k)[i] = v[r + i]
      <4>1. r + k <= Len(v)
        BY <1>1, <1>4, <1>5
      <4> HIDE DEF v, r
      <4>2. \A i \in (r + 1)..(r + k) : v[i] \in U
        BY <1>1, <1>5, <4>1
      <4>3. r + 1 \in Int /\ r + k \in Int /\ r \in Nat /\ k \in Nat
        BY <1>1, <1>5
      <4>4. /\ SubSeq(v, r + 1, r + k) \in Seq(U)
            /\ Len(SubSeq(v, r + 1, r + k)) = IF r + 1 <= r + k THEN (r + k) - (r + 1) + 1 ELSE 0
            /\ \A i \in 1..((r + k) - (r + 1) + 1) :
                    SubSeq(v, r + 1, r + k)[i] = v[(r + 1) + i - 1]
        BY ONLY <4>2, <4>3, SubSeqProperties
      <4>5. \A i \in 1..k : (r + 1) + i - 1 = r + i
        BY <4>3
      <4> QED
        BY <4>3, <4>4, <4>5
    <3> QED
      BY <1>5, <3>1
  <2>2. /\ SubSeq(p, 1, k) \in Seq(U) /\ Len(SubSeq(p, 1, k)) = k
        /\ \A i \in 1..k : SubSeq(p, 1, k)[i] = p[i]
    BY <1>5, <1>6, <1>7
  <2>3. \A i \in 1..k : p[i] = v[r + i]
    BY <1>1, <1>4, <1>5, <1>6, SMTT(30)
  <2> HIDE DEF v, r
  <2> QED
    BY <2>1, <2>2, <2>3, SeqEqual
<1>10. Line(b) = SubSeq(p, 1, k)
  BY <1>9 DEF Line, f
<1>11. FirstEnd(p, k)
  BY <1>7, <1>8 DEF FirstEnd
<1> QED
  BY <1>5, <1>7, <1>10, <1>11 DEF p, f

\* move_read_index takes the payload's first characters away.
LEMMA MoveReadIs ==
    ASSUME NEW U, NEW b \in Buffers(U), IsBuffer(b), NEW n \in 0..Len(Payload(b))
    PROVE  /\ move_read_index(b, n) \in Buffers(U) /\ IsBuffer(move_read_index(b, n))
           /\ Payload(move_read_index(b, n)) = SubSeq(Payload(b), n + 1, Len(Payload(b)))
<1> DEFINE c == move_read_index(b, n)
           v == b.buffer_
           r == b.read_index_
           w == b.write_index_
           p == Payload(b)
<1>1. /\ v \in Seq(U) /\ r \in Nat /\ w \in Nat /\ Len(v) \in Nat /\ kBufBegin \in Nat
      /\ kBufBegin <= r /\ r <= w /\ w <= Len(v)
  BY BufferAssumption DEF Buffers, IsBuffer
<1>2. p \in Seq(U) /\ Len(p) = w - r /\ \A i \in 1..(w - r) : p[i] = v[r + i]
  BY PayloadIs
<1> HIDE DEF p
<1>3. n \in Nat /\ n <= w - r
  BY <1>1, <1>2 DEF p
<1>4. /\ c \in Buffers(U) /\ c.buffer_ = v /\ c.read_index_ = r + n
      /\ c.write_index_ = w
  BY <1>1, <1>3 DEF move_read_index, Buffers
<1> HIDE DEF c
<1>5. IsBuffer(c)
  BY <1>1, <1>3, <1>4 DEF IsBuffer
<1>6. /\ Payload(c) \in Seq(U) /\ Len(Payload(c)) = w - (r + n)
      /\ \A i \in 1..(w - (r + n)) : Payload(c)[i] = v[(r + n) + i]
  <2>1. /\ Payload(c) \in Seq(U) /\ Len(Payload(c)) = c.write_index_ - c.read_index_
        /\ \A i \in 1..(c.write_index_ - c.read_index_) :
                Payload(c)[i] = c.buffer_[c.read_index_ + i]
    BY <1>4, <1>5, PayloadIs
  <2> QED
    BY <1>4, <2>1
<1>7. /\ SubSeq(p, n + 1, Len(p)) \in Seq(U) /\ Len(SubSeq(p, n + 1, Len(p))) = Len(p) - n
      /\ \A i \in 1..(Len(p) - n) : SubSeq(p, n + 1, Len(p))[i] = p[n + i]
  BY <1>1, <1>2, <1>3
<1>8. w - (r + n) = Len(p) - n
  BY <1>1, <1>2, <1>3
<1>9. ASSUME NEW i \in 1..(Len(p) - n)
      PROVE  Payload(c)[i] = SubSeq(p, n + 1, Len(p))[i]
  <2>1. n + i \in 1..(w - r) /\ r + (n + i) = (r + n) + i
    BY <1>1, <1>2, <1>3
  <2>2. p[n + i] = v[r + (n + i)]
    BY <1>2, <2>1
  <2>3. Payload(c)[i] = v[(r + n) + i]
    BY <1>6, <1>8
  <2> QED
    BY <1>7, <2>1, <2>2, <2>3
<1>10. Payload(c) = SubSeq(p, n + 1, Len(p))
  BY <1>6, <1>7, <1>8, <1>9, SeqEqual
<1> QED
  BY <1>4, <1>5, <1>10 DEF c, p

-----------------------------------------------------------------------------
(***************************************************************************)
(* What the client sends.                                                  *)
(***************************************************************************)
Requests == UNION {ToSet(s) : s \in Scripts}
HeaderUnits == UNION {ToSet(r.headers) : r \in Requests}
BodyUnits == UNION {ToSet(r.body) : r \in Requests}
Units == {Zero, CRLF[1], CRLF[2]} \cup {RequestUnit(r) : r \in Requests}
         \cup HeaderUnits \cup BodyUnits

\* A request is sent as a sequence of units.
LEMMA EncodeType ==
    ASSUME NEW r \in Requests
    PROVE  Encode(r) \in Seq(Units)
<1>1. PICK s \in Scripts : r \in ToSet(s)
  BY DEF Requests
<1>2. PICK i \in DOMAIN s : r = s[i]
  BY <1>1 DEF ToSet
<1>3. r.headers \in Seq(ToSet(r.headers)) /\ r.body \in Seq(ToSet(r.body))
  BY <1>1, <1>2, ScriptsAssumption DEF IsSequence
<1>4. ToSet(r.headers) \subseteq Units /\ ToSet(r.body) \subseteq Units
  <2>1. ToSet(r.headers) \subseteq HeaderUnits /\ ToSet(r.body) \subseteq BodyUnits
    BY Zenon DEF HeaderUnits, BodyUnits
  <2> QED
    BY <2>1 DEF Units
<1>5. r.headers \in Seq(Units) /\ r.body \in Seq(Units)
  BY <1>3, <1>4, SeqMonotonic
<1>6. CRLF \in Seq(Units) /\ <<RequestUnit(r)>> \in Seq(Units)
  <2>1. CRLF[1] \in Units /\ CRLF[2] \in Units /\ RequestUnit(r) \in Units
    BY DEF Units
  <2>2. CRLF[1] = Unit("cr") /\ CRLF[2] = Unit("lf")
    BY DEF CRLF
  <2>3. <<Unit("cr"), Unit("lf")>> \in Seq(Units)
    BY <2>1, <2>2
  <2> QED
    BY <2>1, <2>3 DEF CRLF
<1> DEFINE hs == [j \in DOMAIN r.headers |-> <<r.headers[j]>> \o CRLF]
<1>7. hs \in Seq(Seq(Units))
  <2>1. DOMAIN r.headers = 1..Len(r.headers) /\ Len(r.headers) \in Nat
    BY <1>5
  <2>2. \A j \in DOMAIN r.headers : <<r.headers[j]>> \o CRLF \in Seq(Units)
    <3> TAKE j \in DOMAIN r.headers
    <3>1. r.headers[j] \in Units
      BY <1>5, <2>1
    <3>2. <<r.headers[j]>> \in Seq(Units)
      BY <3>1
    <3> QED
      BY <1>6, <3>2, ConcatProperties
  <2> QED
    BY <2>1, <2>2
<1> HIDE DEF hs
<1>8. FlattenSeq(hs) \in Seq(Units)
  BY <1>7, FlattenType
<1>9. <<RequestUnit(r)>> \o CRLF \o FlattenSeq(hs) \o CRLF \o r.body \in Seq(Units)
  <2> DEFINE a == <<RequestUnit(r)>>
             f == FlattenSeq(hs)
             d == r.body
             c == CRLF
  <2>1. a \in Seq(Units) /\ c \in Seq(Units) /\ f \in Seq(Units) /\ d \in Seq(Units)
    BY <1>5, <1>6, <1>8
  <2> HIDE DEF a, c, f, d
  <2>2. a \o c \o f \o c \o d \in Seq(Units)
    BY ONLY <2>1
  <2> QED
    BY <2>2 DEF a, c, f, d
<1> QED
  BY <1>9 DEF Encode, hs

\* So is a script.
LEMMA StreamType ==
    ASSUME NEW s \in Scripts
    PROVE  Stream(s) \in Seq(Units)
<1>1. s \in Seq(Requests)
  <2>1. s \in Seq(ToSet(s)) /\ ToSet(s) \subseteq Requests
    BY ScriptsAssumption DEF IsSequence, Requests
  <2> QED
    BY <2>1, SeqMonotonic
<1> DEFINE es == [i \in DOMAIN s |-> Encode(s[i])]
<1>2. es \in Seq(Seq(Units))
  <2>1. DOMAIN s = 1..Len(s) /\ Len(s) \in Nat
    BY <1>1
  <2>2. \A i \in DOMAIN s : Encode(s[i]) \in Seq(Units)
    BY <1>1, <2>1, EncodeType
  <2> QED
    BY <2>1, <2>2
<1> HIDE DEF es
<1>3. FlattenSeq(es) \in Seq(Units)
  BY <1>2, FlattenType
<1> QED
  BY <1>3 DEF Stream, es

-----------------------------------------------------------------------------
(***************************************************************************)
(* The buffer of the connection and the state of its parser.               *)
(***************************************************************************)
ReadTypes ==
    /\ script \in Scripts /\ stream = Stream(script) /\ stream \in Seq(Units)
    /\ input_buf_ \in Buffers(Units)
    /\ received \in Nat /\ consumed \in Nat
    /\ consumed <= received /\ received <= Len(stream)

\* The parser's state belongs to the place where OnMessage() is.
ContextInv ==
    /\ state \in {"CONNECTING", "CONNECTED", "DISCONNECTING", "DISCONNECTED"}
    /\ pc \in {"idle", "parse", "done"}
    /\ state = "CONNECTING" => context = NoContext /\ pc = "idle"
    /\ state # "CONNECTING" =>
        /\ DOMAIN context = {"state_", "request_"}
        /\ context.state_ \in CASE pc = "idle" -> {"ExpectRequestLine"}
                                [] pc = "parse" -> {"ExpectRequestLine", "ExpectHeaders"}
                                [] pc = "done" -> {"Done"}

ReadInv == ReadTypes /\ PayloadKept /\ ContextInv

\* A connection that was just constructed has received nothing.
LEMMA InitReadInv == HttpInit => ReadInv
<1> SUFFICES ASSUME HttpInit PROVE ReadInv
  OBVIOUS
<1>1. stream \in Seq(Units)
  BY StreamType DEF HttpInit
<1>2. Zero \in Units
  BY DEF Units
<1>3. /\ input_buf_ \in Buffers(Units) /\ IsBuffer(input_buf_)
      /\ Payload(input_buf_) = <<>>
  BY <1>2, NewBufferIs DEF HttpInit
<1>4. ReadTypes
  BY <1>1, <1>3 DEF ReadTypes, HttpInit
<1>5. SubSeq(stream, consumed + 1, received) = <<>>
  <2>1. consumed = 0 /\ received = 0
    BY DEF HttpInit
  <2> QED
    BY <2>1, SubSeqEmpty
<1>6. PayloadKept
  BY <1>3, <1>5 DEF PayloadKept
<1>7. ContextInv
  BY DEF HttpInit, ContextInv
<1> QED
  BY <1>4, <1>6, <1>7 DEF ReadInv

\* Every read adds to the buffer the next units of the stream.
LEMMA HandleReadKeeps ==
    ASSUME ReadInv, NEW n \in 1..(Len(stream) - received), HandleRead(n)
    PROVE  ReadTypes' /\ PayloadKept'
<1> DEFINE data == SubSeq(stream, received + 1, received + n)
<1>1. /\ stream \in Seq(Units) /\ received \in Nat /\ consumed \in Nat
      /\ consumed <= received /\ received <= Len(stream) /\ Len(stream) \in Nat
      /\ input_buf_ \in Buffers(Units) /\ IsBuffer(input_buf_)
      /\ Payload(input_buf_) = SubSeq(stream, consumed + 1, received)
  BY DEF ReadInv, ReadTypes, PayloadKept
<1>2. n \in Nat /\ received + n <= Len(stream)
  BY <1>1
<1>3. data \in Seq(Units)
  BY <1>1, <1>2
<1>4. /\ input_buf_' = readFd(input_buf_, data) /\ received' = received + n
      /\ UNCHANGED <<script, stream, consumed>>
  BY DEF HandleRead
<1> HIDE DEF data
<1>5. /\ input_buf_' \in Buffers(Units) /\ IsBuffer(input_buf_')
      /\ Payload(input_buf_') = Payload(input_buf_) \o data
  <2>1. Zero \in Units
    BY DEF Units
  <2> QED
    BY <1>1, <1>3, <1>4, <2>1, readFdIs
<1>6. SubSeq(stream, consumed + 1, received) \o SubSeq(stream, received + 1, received + n)
        = SubSeq(stream, consumed + 1, received + n)
  <2>1. /\ consumed + 1 \in 1..(Len(stream) + 1)
        /\ received \in ((consumed + 1) - 1)..Len(stream)
        /\ received + n \in received..Len(stream)
    BY <1>1, <1>2
  <2> QED
    BY <1>1, <2>1, ConcatAdjacentSubSeq
<1>7. ReadTypes'
  BY <1>1, <1>2, <1>4, <1>5 DEF ReadInv, ReadTypes
<1>8. PayloadKept'
  BY <1>1, <1>4, <1>5, <1>6 DEF PayloadKept, data
<1> QED
  BY <1>7, <1>8

\* The units after the first k of a part of a sequence.
LEMMA DropOfSubSeq ==
    ASSUME NEW U, NEW s \in Seq(U), NEW a \in Nat, NEW b \in Nat, NEW k \in Nat,
           a + k <= b, b <= Len(s)
    PROVE  SubSeq(SubSeq(s, a + 1, b), k + 1, b - a) = SubSeq(s, (a + k) + 1, b)
<1> DEFINE p == SubSeq(s, a + 1, b)
           x == SubSeq(p, k + 1, b - a)
           y == SubSeq(s, (a + k) + 1, b)
<1>1. p \in Seq(U) /\ Len(p) = b - a /\ \A i \in 1..(b - a) : p[i] = s[a + i]
  OBVIOUS
<1> HIDE DEF p
<1>2. x \in Seq(U) /\ Len(x) = b - a - k /\ \A i \in 1..(b - a - k) : x[i] = p[k + i]
  BY <1>1
<1>3. y \in Seq(U) /\ Len(y) = b - a - k /\ \A i \in 1..(b - a - k) : y[i] = s[a + k + i]
  OBVIOUS
<1> HIDE DEF x, y
<1>4. ASSUME NEW i \in 1..(b - a - k)
      PROVE  x[i] = y[i]
  <2>1. k + i \in 1..(b - a) /\ a + (k + i) = a + k + i
    OBVIOUS
  <2> QED
    BY <1>1, <1>2, <1>3, <2>1
<1>5. x = y
  BY <1>2, <1>3, <1>4, SeqEqual
<1> QED
  BY <1>5 DEF x, y, p

\* A line that the parser has passed is gone from the buffer, with its CRLF,
\* and nothing else is.
LEMMA PassLineKeeps ==
    ASSUME ReadInv, HasCRLF(input_buf_), PassLine,
           UNCHANGED <<script, stream, received>>
    PROVE  ReadTypes' /\ PayloadKept'
<1> DEFINE b == input_buf_
           p == Payload(input_buf_)
<1>1. /\ stream \in Seq(Units) /\ received \in Nat /\ consumed \in Nat
      /\ consumed <= received /\ received <= Len(stream) /\ Len(stream) \in Nat
      /\ b \in Buffers(Units) /\ IsBuffer(b)
      /\ p = SubSeq(stream, consumed + 1, received)
  BY DEF ReadInv, ReadTypes, PayloadKept
<1>2. PICK k \in Nat : /\ k + 2 <= Len(p) /\ findCRLF(b) = b.read_index_ + k
                       /\ Line(b) = SubSeq(p, 1, k)
  BY <1>1, LineIs
<1>3. p \in Seq(Units) /\ Len(p) = received - consumed
  BY <1>1
<1>4. b.read_index_ \in Nat
  BY <1>1 DEF Buffers
<1> HIDE DEF p
<1>5. Len(Line(b)) = k
  BY <1>2, <1>3
<1>6. findCRLF(b) + 2 - b.read_index_ = k + 2
  BY <1>2, <1>4
<1>7. input_buf_' = move_read_index(b, k + 2) /\ consumed' = consumed + (k + 2)
  <2>1. consumed + Len(Line(b)) + 2 = consumed + (k + 2)
    BY <1>1, <1>5
  <2> QED
    BY <1>6, <2>1 DEF PassLine
<1>8. k + 2 \in 0..Len(p)
  BY <1>2, <1>3
<1>9. /\ input_buf_' \in Buffers(Units) /\ IsBuffer(input_buf_')
      /\ Payload(input_buf_') = SubSeq(p, (k + 2) + 1, Len(p))
  BY <1>1, <1>7, <1>8, MoveReadIs DEF p
<1>10. SubSeq(p, (k + 2) + 1, Len(p)) = SubSeq(stream, (consumed + (k + 2)) + 1, received)
  <2>1. consumed + (k + 2) <= received /\ k + 2 \in Nat
    BY <1>1, <1>2, <1>3
  <2>2. SubSeq(SubSeq(stream, consumed + 1, received), (k + 2) + 1, received - consumed)
            = SubSeq(stream, (consumed + (k + 2)) + 1, received)
    BY <1>1, <2>1, DropOfSubSeq
  <2> QED
    BY <1>1, <1>3, <2>2
<1>11. consumed + (k + 2) \in Nat /\ consumed + (k + 2) <= received
  BY <1>1, <1>2, <1>3
<1>12. ReadTypes'
  BY <1>1, <1>7, <1>9, <1>11 DEF ReadInv, ReadTypes
<1>13. PayloadKept'
  BY <1>7, <1>9, <1>10 DEF PayloadKept
<1> QED
  BY <1>12, <1>13

\* The invariant is kept by every step.
LEMMA NextReadInv == ReadInv /\ [HttpNext]_httpVars => ReadInv'
<1> SUFFICES ASSUME ReadInv, [HttpNext]_httpVars PROVE ReadInv'
  OBVIOUS
<1> USE DEF ReadInv
<1>1. ASSUME UNCHANGED <<script, stream, input_buf_, received, consumed>>
      PROVE  ReadTypes' /\ PayloadKept'
  BY <1>1 DEF ReadTypes, PayloadKept
<1>2. CASE OnConnection
  <2>1. ContextInv'
    BY <1>2 DEF OnConnection, ContextInv, NewContext
  <2> QED
    BY <1>1, <1>2, <2>1 DEF OnConnection
<1>3. ASSUME NEW n \in 1..(Len(stream) - received), HandleRead(n) PROVE ReadInv'
  <2>1. ContextInv'
    BY <1>3 DEF HandleRead, ContextInv
  <2> QED
    BY <1>3, <2>1, HandleReadKeeps
<1>4. CASE HandleClose
  <2>1. ContextInv'
    BY <1>4 DEF HandleClose, ContextInv
  <2> QED
    BY <1>1, <1>4, <2>1 DEF HandleClose
<1>5. CASE RequestLine
  <2>1. ContextInv'
    BY <1>5 DEF RequestLine, Turn, ContextInv
  <2> QED
    BY <1>5, <2>1, PassLineKeeps DEF RequestLine
<1>6. CASE HeaderLine
  <2>1. ContextInv'
    BY <1>6 DEF HeaderLine, Turn, ContextInv
  <2> QED
    BY <1>6, <2>1, PassLineKeeps DEF HeaderLine
<1>7. CASE LastLine
  <2>1. ContextInv'
    BY <1>7 DEF LastLine, Turn, ContextInv
  <2> QED
    BY <1>7, <2>1, PassLineKeeps DEF LastLine
<1>8. CASE NoRequestLine
  <2>1. ContextInv'
    BY <1>8 DEF NoRequestLine, Turn, ContextInv
  <2> QED
    BY <1>1, <1>8, <2>1 DEF NoRequestLine
<1>9. CASE BadRequestLine
  <2>1. state' \in {state, "DISCONNECTING"} /\ (state = "CONNECTING" => state' = state)
    BY <1>9 DEF BadRequestLine, SendAndShutDown
  <2>2. ContextInv'
    BY <1>9, <2>1 DEF BadRequestLine, Turn, ContextInv
  <2> QED
    BY <1>1, <1>9, <2>2 DEF BadRequestLine
<1>10. CASE OnRequest
  <2>1. state' \in {state, "DISCONNECTING"} /\ (state = "CONNECTING" => state' = state)
    BY <1>10 DEF OnRequest, SendAndShutDown
  <2>2. ContextInv'
    BY <1>10, <2>1 DEF OnRequest, Reset, ContextInv
  <2> QED
    BY <1>1, <1>10, <2>2 DEF OnRequest
<1>11. CASE UNCHANGED httpVars
  <2>1. ContextInv'
    BY <1>11 DEF httpVars, ContextInv
  <2> QED
    BY <1>1, <1>11, <2>1 DEF httpVars
<1> QED
  BY <1>2, <1>3, <1>4, <1>5, <1>6, <1>7, <1>8, <1>9, <1>10, <1>11 DEF HttpNext, ParseStep

\* ReadInv holds always.
THEOREM ReadInvariant == HttpSpec => []ReadInv
  BY InitReadInv, NextReadInv, PTL DEF HttpSpec

\* The types of the connection, and: between messages the parser stands before
\* a request line.
THEOREM HttpTypeCorrect == HttpSpec => []HttpTypeOK
<1>1. ASSUME ReadInv PROVE HttpTypeOK
  <2>1. received \in 0..Len(stream)
    BY <1>1 DEF ReadInv, ReadTypes
  <2> QED
    BY <1>1, <2>1 DEF ReadInv, ContextInv, HttpTypeOK
<1> QED
  BY <1>1, ReadInvariant, PTL

\* However reads, growth and moves inside the vector alternate, the buffer
\* holds what was received and not yet parsed.
THEOREM BufferKeepsPayload == HttpSpec => []PayloadKept
<1>1. ReadInv => PayloadKept
  BY DEF ReadInv
<1> QED
  BY <1>1, ReadInvariant, PTL

-----------------------------------------------------------------------------
(***************************************************************************)
(* The answers.                                                            *)
(***************************************************************************)
\* The words of an answer, and the units it is made of.
Words == {"zero", "cr", "lf", "HTTP/1.1", "HTTP/1.1 400 Bad Request", "200 OK",
          "404 Not Found", "Connection: close", "Connection: Keep-Alive", ": ", "Server",
          "Yxalp", "Content-Type", "text/html", "image/png", "text/plain", "page", "icon",
          "hello", "world"}
LengthUnit(n) == [kind |-> "Content-Length", size |-> n]
OutUnits == {Unit(k) : k \in Words} \cup {LengthUnit(n) : n \in Nat}
Responses == [status_code_ : Words, close_connection_ : BOOLEAN,
              headers_ : Seq(Words \X Words), body_ : Seq(OutUnits)]

\* The units of the words, and of a number.
LEMMA OutUnitsAre ==
    (\A k \in Words : Unit(k) \in OutUnits) /\ \A n \in Nat : LengthUnit(n) \in OutUnits
  BY DEF OutUnits

\* Short sequences.
LEMMA TuplesAreSeqs ==
    ASSUME NEW S, NEW a \in S, NEW b \in S, NEW c \in S, NEW d \in S
    PROVE  /\ <<a>> \in Seq(S) /\ <<a, b>> \in Seq(S) /\ <<a, b, c>> \in Seq(S)
           /\ <<a, b, c, d>> \in Seq(S) /\ Len(<<a>>) = 1 /\ Len(<<a, b>>) = 2
  OBVIOUS

\* The buffers that AppendToBuffer goes through, one for every piece.
Chain(h, n, b, pieces) ==
    h[0] = b /\ \A i \in 1..n : h[i] = BufferAppend(h[i - 1], pieces[i])

\* Each of them holds the pieces so far.
Holding(h, n, pieces) ==
    \A i \in 0..n : IsBuffer(h[i]) /\ Payload(h[i]) = FlattenSeq(SubSeq(pieces, 1, i))

\* There is such a chain of buffers.
LEMMA ChainExists ==
    ASSUME NEW U, Zero \in U, NEW pieces \in Seq(Seq(U))
    PROVE  \E h \in [0..Len(pieces) -> Buffers(U)] :
                Chain(h, Len(pieces), NewBuffer, pieces) /\ Holding(h, Len(pieces), pieces)
<1> DEFINE Q(n, h) == Chain(h, n, NewBuffer, pieces) /\ Holding(h, n, pieces)
           P(n) == n <= Len(pieces) => \E h \in [0..n -> Buffers(U)] : Q(n, h)
           N == {n \in Nat : P(n)}
<1>0. Len(pieces) \in Nat
  OBVIOUS
<1>1. P(0)
  <2> DEFINE h == [i \in 0..0 |-> NewBuffer]
  <2>1. NewBuffer \in Buffers(U) /\ IsBuffer(NewBuffer) /\ Payload(NewBuffer) = <<>>
    BY NewBufferIs
  <2>2. h \in [0..0 -> Buffers(U)] /\ h[0] = NewBuffer
    BY <2>1
  <2> HIDE DEF h
  <2>3. FlattenSeq(SubSeq(pieces, 1, 0)) = <<>>
    <3>1. SubSeq(pieces, 1, 0) = <<>>
      BY SubSeqEmpty
    <3> QED
      BY <3>1, FlattenEmpty
  <2>4. Chain(h, 0, NewBuffer, pieces)
    BY <2>2 DEF Chain
  <2>5. Holding(h, 0, pieces)
    <3>1. \A i \in 0..0 : i = 0
      OBVIOUS
    <3> QED
      BY <2>1, <2>2, <2>3, <3>1 DEF Holding
  <2> QED
    BY <2>2, <2>4, <2>5
<1>2. ASSUME NEW n \in Nat, P(n)
      PROVE  P(n + 1)
  <2> HIDE DEF Q
  <2> SUFFICES ASSUME n + 1 <= Len(pieces)
               PROVE  \E h \in [0..(n + 1) -> Buffers(U)] : Q(n + 1, h)
    OBVIOUS
  <2>1. PICK h \in [0..n -> Buffers(U)] : Q(n, h)
    <3>1. n <= Len(pieces)
      BY <1>0
    <3> QED
      BY <1>2, <3>1
  <2>2. Chain(h, n, NewBuffer, pieces) /\ Holding(h, n, pieces)
    BY <2>1 DEF Q
  <2>3. /\ pieces[n + 1] \in Seq(U) /\ h[n] \in Buffers(U) /\ IsBuffer(h[n])
        /\ Payload(h[n]) = FlattenSeq(SubSeq(pieces, 1, n))
    BY <1>0, <2>2 DEF Holding
  <2> DEFINE last == BufferAppend(h[n], pieces[n + 1])
             g == [i \in 0..(n + 1) |-> IF i = n + 1 THEN last ELSE h[i]]
  <2>4. /\ last \in Buffers(U) /\ IsBuffer(last)
        /\ Payload(last) = Payload(h[n]) \o pieces[n + 1]
    BY <2>3, BufferAppendIs
  <2>5. Payload(last) = FlattenSeq(SubSeq(pieces, 1, n + 1))
    <3>1. /\ SubSeq(pieces, 1, n) \in Seq(Seq(U))
          /\ SubSeq(pieces, 1, n + 1) = Append(SubSeq(pieces, 1, n), pieces[n + 1])
      BY <1>0
    <3>2. FlattenSeq(Append(SubSeq(pieces, 1, n), pieces[n + 1]))
            = FlattenSeq(SubSeq(pieces, 1, n)) \o pieces[n + 1]
      BY <2>3, <3>1, FlattenAppend
    <3> QED
      BY <2>3, <2>4, <3>1, <3>2
  <2>6. last = BufferAppend(h[n], pieces[n + 1])
    OBVIOUS
  <2> HIDE DEF last
  <2>7. /\ g \in [0..(n + 1) -> Buffers(U)] /\ g[n + 1] = last
        /\ \A i \in 0..n : g[i] = h[i]
    BY <2>4
  <2> HIDE DEF g
  <2>8. Chain(g, n + 1, NewBuffer, pieces)
    <3>1. g[0] = NewBuffer
      BY <2>2, <2>7 DEF Chain
    <3>2. ASSUME NEW i \in 1..(n + 1)
          PROVE  g[i] = BufferAppend(g[i - 1], pieces[i])
      <4>1. CASE i = n + 1
        <5>1. g[i - 1] = h[n]
          BY <2>7, <4>1
        <5> QED
          BY <2>6, <2>7, <4>1, <5>1
      <4>2. CASE i # n + 1
        <5>1. i \in 1..n /\ i \in 0..n /\ i - 1 \in 0..n
          BY <4>2
        <5>2. h[i] = BufferAppend(h[i - 1], pieces[i])
          BY <2>2, <5>1 DEF Chain
        <5> QED
          BY <2>7, <5>1, <5>2
      <4> QED
        BY <4>1, <4>2
    <3> QED
      BY <3>1, <3>2 DEF Chain
  <2>9. Holding(g, n + 1, pieces)
    <3>1. ASSUME NEW i \in 0..(n + 1)
          PROVE  IsBuffer(g[i]) /\ Payload(g[i]) = FlattenSeq(SubSeq(pieces, 1, i))
      <4>1. CASE i = n + 1
        BY <2>4, <2>5, <2>7, <4>1
      <4>2. CASE i # n + 1
        <5>1. i \in 0..n
          BY <4>2
        <5> QED
          BY <2>2, <2>7, <5>1 DEF Holding
      <4> QED
        BY <4>1, <4>2
    <3> QED
      BY <3>1 DEF Holding
  <2>10. Q(n + 1, g)
    BY <2>8, <2>9 DEF Q
  <2> QED
    BY <2>7, <2>10
<1> HIDE DEF P
<1>3. 0 \in N /\ \A n \in Nat : n \in N => n + 1 \in N
  BY <1>1, <1>2
<1> HIDE DEF N
<1>4. Nat \subseteq N
  BY <1>3, NatSetInduction
<1>5. P(Len(pieces))
  BY <1>0, <1>4 DEF N
<1> QED
  BY <1>0, <1>5 DEF P

\* The recursive function of AppendToBuffer.
Appends(g, pieces, b) ==
    g = [i \in 0..Len(pieces) |->
            IF i = 0 THEN {b} ELSE {BufferAppend(p, pieces[i]) : p \in g[i - 1]}]

\* AppendToBuffer by that function.
LEMMA AppendsIs ==
    ASSUME NEW resp, NEW b
    PROVE  LET g == CHOOSE g : Appends(g, Pieces(resp), b)
           IN  AppendToBuffer(resp, b) = CHOOSE p \in g[Len(Pieces(resp))] : TRUE
  BY DEF AppendToBuffer, Appends

\* One of its turns.
OneMore(bs, piece) == {BufferAppend(p, piece) : p \in bs}

\* It satisfies the recursion at every place.
LEMMA AppendsAt ==
    ASSUME NEW pieces, NEW g, NEW b, Appends(g, pieces, b), NEW i \in 0..Len(pieces)
    PROVE  g[i] = IF i = 0 THEN {b} ELSE OneMore(g[i - 1], pieces[i])
<1> DEFINE f == [j \in 0..Len(pieces) |->
                    IF j = 0 THEN {b} ELSE {BufferAppend(p, pieces[j]) : p \in g[j - 1]}]
<1>1. g = f
  BY DEF Appends
<1>2. f[i] = IF i = 0 THEN {b} ELSE {BufferAppend(p, pieces[i]) : p \in g[i - 1]}
  OBVIOUS
<1> HIDE DEF f
<1> QED
  BY <1>1, <1>2 DEF OneMore

\* It gives the buffers of the chain.
LEMMA AppendsChain ==
    ASSUME NEW U, NEW pieces \in Seq(Seq(U)), NEW g, NEW h, NEW b,
           Appends(g, pieces, b), Chain(h, Len(pieces), b, pieces)
    PROVE  g[Len(pieces)] = {h[Len(pieces)]}
<1> DEFINE P(n) == n <= Len(pieces) => g[n] = {h[n]}
           N == {n \in Nat : P(n)}
<1>0. Len(pieces) \in Nat
  OBVIOUS
<1>1. P(0)
  <2>1. 0 \in 0..Len(pieces)
    BY <1>0
  <2>2. g[0] = {b}
    BY <2>1, AppendsAt
  <2> QED
    BY <2>2 DEF Chain
<1>2. ASSUME NEW n \in Nat, P(n)
      PROVE  P(n + 1)
  <2> SUFFICES ASSUME n + 1 <= Len(pieces)
               PROVE  g[n + 1] = {h[n + 1]}
    OBVIOUS
  <2>1. n + 1 \in 0..Len(pieces) /\ n + 1 \in 1..Len(pieces) /\ n <= Len(pieces)
        /\ n + 1 # 0 /\ (n + 1) - 1 = n
    BY <1>0
  <2>2. g[n + 1] = IF n + 1 = 0 THEN {b} ELSE OneMore(g[(n + 1) - 1], pieces[n + 1])
    <3>1. PICK i \in 0..Len(pieces) : i = n + 1
      BY <2>1
    <3>2. g[i] = IF i = 0 THEN {b} ELSE OneMore(g[i - 1], pieces[i])
      BY AppendsAt
    <3> QED
      BY <3>1, <3>2
  <2>3. g[n + 1] = {BufferAppend(p, pieces[n + 1]) : p \in g[n]}
    BY <2>1, <2>2 DEF OneMore
  <2>4. g[n] = {h[n]}
    BY <1>2, <2>1
  <2>5. h[n + 1] = BufferAppend(h[n], pieces[n + 1])
    BY <2>1 DEF Chain
  <2> QED
    BY <2>3, <2>4, <2>5
<1> HIDE DEF P
<1>3. 0 \in N /\ \A n \in Nat : n \in N => n + 1 \in N
  BY <1>1, <1>2
<1> HIDE DEF N
<1>4. Nat \subseteq N
  BY <1>3, NatSetInduction
<1> QED
  BY <1>0, <1>4 DEF N, P

\* An answer that is appended to a buffer piece by piece is what the buffer
\* then holds, whatever the vector's growth was.
LEMMA AppendToBufferIs ==
    ASSUME NEW U, Zero \in U, NEW resp, Pieces(resp) \in Seq(Seq(U))
    PROVE  Payload(AppendToBuffer(resp, NewBuffer)) = FlattenSeq(Pieces(resp))
<1> DEFINE pieces == Pieces(resp)
           n == Len(Pieces(resp))
           g == CHOOSE g : Appends(g, Pieces(resp), NewBuffer)
<1>0. pieces \in Seq(Seq(U)) /\ n \in Nat
  OBVIOUS
<1>1. PICK h \in [0..n -> Buffers(U)] :
            Chain(h, n, NewBuffer, pieces) /\ Holding(h, n, pieces)
  BY ChainExists
<1>2. AppendToBuffer(resp, NewBuffer) = CHOOSE p \in g[n] : TRUE
  BY AppendsIs
<1> HIDE DEF pieces
<1>3. \E f : Appends(f, pieces, NewBuffer)
  <2> DEFINE f == [i \in 0..n |-> {h[i]}]
  <2>1. ASSUME NEW i \in 0..n
        PROVE  f[i] = IF i = 0 THEN {NewBuffer}
                      ELSE {BufferAppend(p, pieces[i]) : p \in f[i - 1]}
    <3>1. CASE i = 0
      BY <1>1, <3>1 DEF Chain
    <3>2. CASE i # 0
      <4>1. i \in 1..n /\ i - 1 \in 0..n
        BY <1>0, <3>2
      <4>2. h[i] = BufferAppend(h[i - 1], pieces[i])
        BY <1>1, <4>1 DEF Chain
      <4>3. f[i] = {h[i]} /\ f[i - 1] = {h[i - 1]}
        BY <4>1
      <4> HIDE DEF f
      <4> QED
        BY <3>2, <4>2, <4>3
    <3> QED
      BY <3>1, <3>2
  <2>2. f = [i \in 0..n |-> f[i]]
    OBVIOUS
  <2> HIDE DEF f
  <2>3. [i \in 0..n |-> f[i]] = [i \in 0..n |-> IF i = 0 THEN {NewBuffer}
                      ELSE {BufferAppend(p, pieces[i]) : p \in f[i - 1]}]
    BY <2>1
  <2>4. Appends(f, pieces, NewBuffer)
    BY <2>2, <2>3 DEF Appends, pieces
  <2> QED
    BY <2>4
<1>4. Appends(g, pieces, NewBuffer)
  BY <1>3 DEF pieces
<1> HIDE DEF g
<1>5. g[n] = {h[n]}
  BY <1>0, <1>1, <1>4, AppendsChain DEF pieces
<1>6. AppendToBuffer(resp, NewBuffer) = h[n]
  BY <1>2, <1>5
<1>7. Payload(h[n]) = FlattenSeq(SubSeq(pieces, 1, n))
  BY <1>0, <1>1 DEF Holding
<1>8. SubSeq(pieces, 1, n) = pieces
  BY <1>0, SubSeqFull DEF pieces
<1> QED
  BY <1>6, <1>7, <1>8 DEF pieces

\* The callbacks fill in a response.
LEMMA CallBackType ==
    ASSUME NEW req, NEW close \in BOOLEAN
    PROVE  CallBack(req, close) \in Responses
<1>1. ASSUME NEW code \in Words, NEW c \in BOOLEAN,
             NEW hs \in Seq(Words \X Words), NEW body \in Seq(OutUnits)
      PROVE  Response(code, c, hs, body) \in Responses
  BY DEF Response, Responses
<1>2. "200 OK" \in Words /\ "404 Not Found" \in Words /\ TRUE \in BOOLEAN
  BY DEF Words
<1>3. NotFound \in Responses
  <2>1. <<>> \in Seq(Words \X Words) /\ <<>> \in Seq(OutUnits)
    OBVIOUS
  <2> QED
    BY <1>1, <1>2, <2>1 DEF NotFound
<1>4. /\ <<ContentType("text/html"), Server>> \in Seq(Words \X Words)
      /\ <<ContentType("text/plain"), Server>> \in Seq(Words \X Words)
      /\ <<ContentType("image/png")>> \in Seq(Words \X Words)
  <2>1. /\ ContentType("text/html") \in Words \X Words
        /\ ContentType("text/plain") \in Words \X Words
        /\ ContentType("image/png") \in Words \X Words
        /\ Server \in Words \X Words
    BY DEF ContentType, Server, Words
  <2> QED
    BY <2>1
<1>5. /\ <<Unit("page")>> \in Seq(OutUnits)
      /\ <<Unit("hello"), Unit("world")>> \in Seq(OutUnits)
      /\ Unit("icon") \in OutUnits
  <2>1. "page" \in Words /\ "hello" \in Words /\ "world" \in Words /\ "icon" \in Words
    BY DEF Words
  <2>2. /\ Unit("page") \in OutUnits /\ Unit("hello") \in OutUnits
        /\ Unit("world") \in OutUnits /\ Unit("icon") \in OutUnits
    BY <2>1, OutUnitsAre
  <2> QED
    BY <2>2
<1>6. [i \in 1..(2 * kDefaultSize) |-> Unit("icon")] \in Seq(OutUnits)
  <2>1. 2 * kDefaultSize \in Nat
    BY BufferAssumption
  <2> QED
    BY <1>5, <2>1
<1>7. CASE http_call_back_ = "DefaultHttpCallBack"
  BY <1>3, <1>7 DEF CallBack
<1>8. CASE http_call_back_ # "DefaultHttpCallBack"
  <2>1. CASE req.path = "/"
    <3>1. CallBack(req, close) = Response("200 OK", close,
                <<ContentType("text/html"), Server>>, <<Unit("page")>>)
      BY <1>8, <2>1 DEF CallBack
    <3> QED
      BY <1>1, <1>2, <1>4, <1>5, <3>1
  <2>2. CASE req.path = "/favicon.ico"
    <3>1. CallBack(req, close) = Response("200 OK", close, <<ContentType("image/png")>>,
                [i \in 1..(2 * kDefaultSize) |-> Unit("icon")])
      BY <1>8, <2>2 DEF CallBack
    <3> QED
      BY <1>1, <1>2, <1>4, <1>6, <3>1
  <2>3. CASE req.path = "/hello"
    <3>1. CallBack(req, close) = Response("200 OK", close,
                <<ContentType("text/plain"), Server>>, <<Unit("hello"), Unit("world")>>)
      BY <1>8, <2>3 DEF CallBack
    <3> QED
      BY <1>1, <1>2, <1>4, <1>5, <3>1
  <2>4. CASE req.path \notin {"/", "/favicon.ico", "/hello"}
    BY <1>3, <1>8, <2>4 DEF CallBack
  <2> QED
    BY <2>1, <2>2, <2>3, <2>4
<1> QED
  BY <1>7, <1>8

\* The pieces of a response.
LEMMA PiecesType ==
    ASSUME NEW resp \in Responses
    PROVE  Pieces(resp) \in Seq(Seq(OutUnits))
<1> DEFINE T == Seq(OutUnits)
<1>1. \A k \in Words : <<Unit(k)>> \in T
  BY OutUnitsAre
<1>2. CRLF \in T
  <2>1. "cr" \in Words /\ "lf" \in Words
    BY DEF Words
  <2>2. Unit("cr") \in OutUnits /\ Unit("lf") \in OutUnits
    BY <2>1, OutUnitsAre
  <2> QED
    BY <2>2 DEF CRLF
<1>3. /\ resp.status_code_ \in Words /\ resp.headers_ \in Seq(Words \X Words)
      /\ resp.body_ \in T
  BY DEF Responses
<1>4. <<LengthUnit(Len(resp.body_))>> \in T
  <2>1. Len(resp.body_) \in Nat
    BY <1>3
  <2> QED
    BY <2>1, OutUnitsAre
<1>5. \A x, y \in T : x \o y \in T
  BY ConcatProperties
<1> HIDE DEF T
<1> DEFINE line == << <<Unit("HTTP/1.1")>>, <<Unit(resp.status_code_)>>, CRLF >>
           close == << <<Unit("Connection: close")>> \o CRLF >>
           keep == << <<LengthUnit(Len(resp.body_))>> \o CRLF,
                      <<Unit("Connection: Keep-Alive")>> \o CRLF >>
           header(i) == << <<Unit(resp.headers_[i][1])>>, <<Unit(": ")>>,
                           <<Unit(resp.headers_[i][2])>>, CRLF >>
           hs == [i \in DOMAIN resp.headers_ |-> header(i)]
           end == << CRLF, resp.body_ >>
<1>6. line \in Seq(T)
  <2>1. "HTTP/1.1" \in Words
    BY DEF Words
  <2>2. <<Unit("HTTP/1.1")>> \in T /\ <<Unit(resp.status_code_)>> \in T
    BY <1>1, <1>3, <2>1
  <2> QED
    BY <1>2, <2>2, TuplesAreSeqs
<1>7. close \in Seq(T) /\ keep \in Seq(T)
  <2>1. "Connection: close" \in Words /\ "Connection: Keep-Alive" \in Words
    BY DEF Words
  <2>2. <<Unit("Connection: close")>> \in T /\ <<Unit("Connection: Keep-Alive")>> \in T
    BY <1>1, <2>1
  <2>3. /\ <<Unit("Connection: close")>> \o CRLF \in T
        /\ <<LengthUnit(Len(resp.body_))>> \o CRLF \in T
        /\ <<Unit("Connection: Keep-Alive")>> \o CRLF \in T
    BY <1>2, <1>4, <1>5, <2>2
  <2> QED
    BY <2>3, TuplesAreSeqs
<1>8. hs \in Seq(Seq(T))
  <2>1. DOMAIN resp.headers_ = 1..Len(resp.headers_) /\ Len(resp.headers_) \in Nat
    BY <1>3
  <2>2. ASSUME NEW i \in DOMAIN resp.headers_
        PROVE  header(i) \in Seq(T)
    <3>1. resp.headers_[i] \in Words \X Words
      BY <1>3, <2>1
    <3>2. resp.headers_[i][1] \in Words /\ resp.headers_[i][2] \in Words /\ ": " \in Words
      BY <3>1 DEF Words
    <3>3. /\ <<Unit(resp.headers_[i][1])>> \in T /\ <<Unit(": ")>> \in T
          /\ <<Unit(resp.headers_[i][2])>> \in T
      BY <1>1, <3>2
    <3> QED
      BY <1>2, <3>3, TuplesAreSeqs
  <2> HIDE DEF header
  <2> QED
    BY <2>1, <2>2
<1>9. end \in Seq(T)
  BY <1>2, <1>3, TuplesAreSeqs
<1> HIDE DEF hs
<1>10. FlattenSeq(hs) \in Seq(T)
  BY <1>8, FlattenType
<1> HIDE DEF line, close, keep, end
<1>11. line \o (IF resp.close_connection_ THEN close ELSE keep) \o FlattenSeq(hs) \o end
            \in Seq(T)
  <2> DEFINE m == IF resp.close_connection_ THEN close ELSE keep
             f == FlattenSeq(hs)
  <2>1. m \in Seq(T) /\ f \in Seq(T)
    BY <1>7, <1>10
  <2> HIDE DEF m, f
  <2>2. line \o m \o f \o end \in Seq(T)
    BY ONLY <1>6, <1>9, <2>1
  <2> QED
    BY <2>2 DEF m, f
<1> QED
  BY <1>11 DEF Pieces, LengthUnit, line, close, keep, hs, end, T

\* What is sent for a request.
Resp(h) == CallBack(h, AsksClose(h))
Answer(h) == FlattenSeq(Pieces(Resp(h)))

\* It is text, it is what the buffer of OnRequest() holds, and it closes the
\* connection or not.
LEMMA AnswerIs ==
    ASSUME NEW h
    PROVE  /\ Answer(h) \in Seq(OutUnits)
           /\ Payload(AppendToBuffer(Resp(h), NewBuffer)) = Answer(h)
           /\ Resp(h).close_connection_ \in BOOLEAN
<1>1. AsksClose(h) \in BOOLEAN
  BY Zenon DEF AsksClose
<1>2. Resp(h) \in Responses
  BY <1>1, CallBackType DEF Resp
<1>3. Pieces(Resp(h)) \in Seq(Seq(OutUnits))
  BY <1>2, PiecesType
<1>4. Zero \in OutUnits
  <2>1. "zero" \in Words
    BY DEF Words
  <2> QED
    BY <2>1, OutUnitsAre DEF Zero
<1>5. Answer(h) \in Seq(OutUnits)
  BY <1>3, FlattenType DEF Answer
<1>6. Payload(AppendToBuffer(Resp(h), NewBuffer)) = Answer(h)
  BY <1>3, <1>4, AppendToBufferIs DEF Answer
<1>7. Resp(h).close_connection_ \in BOOLEAN
  BY <1>2 DEF Responses
<1> QED
  BY <1>5, <1>6, <1>7

-----------------------------------------------------------------------------
(***************************************************************************)
(* The bytes on the wire.                                                  *)
(***************************************************************************)
Closing == {i \in DOMAIN handled : Resp(handled[i]).close_connection_}
Answers(n) == FlattenSeq([i \in 1..n |-> Answer(handled[i])])

\* The parser stands before a line that it refuses, and there it stays.
Refused ==
    /\ HasCRLF(input_buf_) /\ ~ParseRequestLine(Line(input_buf_))
    /\ context.state_ = "ExpectRequestLine"

\* Nothing that closes the connection was sent yet; or an answer that closes it
\* was, and is the last; or the 400 was, and the parser is stuck.
NoneClosed ==
    Closing = {} /\ wire = Answers(Len(handled)) /\ fin = FALSE /\ state # "DISCONNECTING"
AnswerClosed ==
    Closing # {} /\ wire = Answers(Min(Closing)) /\ fin = TRUE
BadClosed ==
    Closing = {} /\ wire = Answers(Len(handled)) \o BadRequest /\ fin = TRUE /\ Refused

WireInv ==
    /\ IsSequence(handled)
    /\ state = "DISCONNECTED" => pc = "idle"
    /\ NoneClosed \/ (state \in {"DISCONNECTING", "DISCONNECTED"}
                      /\ (AnswerClosed \/ BadClosed))

\* A sequence with one more element.
LEMMA AppendIsSequence ==
    ASSUME NEW s, NEW x, IsSequence(s)
    PROVE  /\ IsSequence(Append(s, x)) /\ Len(s) \in Nat /\ DOMAIN s = 1..Len(s)
           /\ Len(Append(s, x)) = Len(s) + 1 /\ DOMAIN Append(s, x) = 1..(Len(s) + 1)
           /\ Append(s, x)[Len(s) + 1] = x
           /\ \A i \in 1..Len(s) : Append(s, x)[i] = s[i]
<1> DEFINE T == ToSet(s)
           t == Append(s, x)
<1>1. s \in Seq(T)
  BY DEF IsSequence
<1> HIDE DEF T
<1>2. s \in Seq(T \cup {x}) /\ x \in T \cup {x}
  <2>1. T \subseteq T \cup {x}
    OBVIOUS
  <2> QED
    BY <1>1, <2>1, SeqMonotonic
<1>3. /\ t \in Seq(T \cup {x}) /\ Len(t) = Len(s) + 1 /\ Len(s) \in Nat
      /\ DOMAIN s = 1..Len(s) /\ DOMAIN t = 1..Len(t)
      /\ t[Len(s) + 1] = x /\ \A i \in 1..Len(s) : t[i] = s[i]
  BY <1>2
<1> HIDE DEF t
<1>4. \A i \in 1..Len(t) : t[i] \in ToSet(t)
  BY <1>3 DEF ToSet
<1>5. t \in Seq(ToSet(t))
  BY <1>3, <1>4
<1> QED
  BY <1>3, <1>5 DEF IsSequence, t

\* The function g is f with one more place.
Grows(g, f, n, x) ==
    /\ f = [i \in 1..n |-> f[i]] /\ g = [i \in 1..(n + 1) |-> g[i]]
    /\ g[n + 1] = x /\ \A i \in 1..n : g[i] = f[i]

\* One more answer is one more piece at the end.
LEMMA FlattenGrow ==
    ASSUME NEW U, NEW n \in Nat, NEW f, NEW g, NEW x \in Seq(U),
           \A i \in 1..n : f[i] \in Seq(U), Grows(g, f, n, x)
    PROVE  FlattenSeq(g) = FlattenSeq(f) \o x
<1>1. f \in [1..n -> Seq(U)]
  <2>1. [i \in 1..n |-> f[i]] \in [1..n -> Seq(U)]
    OBVIOUS
  <2> QED
    BY <2>1, Zenon DEF Grows
<1>2. f \in Seq(Seq(U)) /\ Len(f) = n
  BY <1>1
<1>3. g \in [1..(n + 1) -> Seq(U)]
  <2>1. \A i \in 1..(n + 1) : g[i] \in Seq(U)
    <3> TAKE i \in 1..(n + 1)
    <3>1. i = n + 1 \/ i \in 1..n
      OBVIOUS
    <3> QED
      BY <1>1, <3>1 DEF Grows
  <2>2. [i \in 1..(n + 1) |-> g[i]] \in [1..(n + 1) -> Seq(U)]
    BY <2>1
  <2> QED
    BY <2>2, Zenon DEF Grows
<1>4. g \in Seq(Seq(U)) /\ Len(g) = n + 1
  BY <1>3
<1>5. g = Append(f, x)
  <2>1. /\ Append(f, x) \in Seq(Seq(U)) /\ Len(Append(f, x)) = n + 1
        /\ Append(f, x)[n + 1] = x /\ \A i \in 1..n : Append(f, x)[i] = f[i]
    BY <1>2
  <2>2. \A i \in 1..(n + 1) : g[i] = Append(f, x)[i]
    <3> TAKE i \in 1..(n + 1)
    <3>1. i = n + 1 \/ i \in 1..n
      OBVIOUS
    <3> QED
      BY <2>1, <3>1 DEF Grows
  <2> QED
    BY <1>4, <2>1, <2>2, SeqEqual
<1> QED
  BY <1>2, <1>5, FlattenAppend

\* The answers are text.
LEMMA AnswersType ==
    ASSUME NEW n \in Nat
    PROVE  Answers(n) \in Seq(OutUnits)
<1> DEFINE f == [i \in 1..n |-> Answer(handled[i])]
<1>1. f \in Seq(Seq(OutUnits))
  BY AnswerIs
<1> HIDE DEF f
<1>2. FlattenSeq(f) \in Seq(OutUnits)
  BY <1>1, FlattenType
<1> QED
  BY <1>2 DEF Answers, f

\* The callback that is installed gives the same answers after a step.
LEMMA AnswersStay ==
    ASSUME UNCHANGED http_call_back_, NEW h
    PROVE  Resp(h)' = Resp(h) /\ Answer(h)' = Answer(h)
  BY DEF Answer, Resp, CallBack

\* What was handled and sent stays when neither is touched.
LEMMA WireStays ==
    ASSUME UNCHANGED <<http_call_back_, handled, wire, fin>>
    PROVE  /\ Closing' = Closing /\ \A n \in Nat : Answers(n)' = Answers(n)
  BY AnswersStay DEF Closing, Answers

\* The effect of a request that is handled on the answers and on those that
\* close the connection.
LEMMA HandledGrows ==
    ASSUME IsSequence(handled), UNCHANGED http_call_back_, NEW req,
           handled' = Append(handled, req), NEW n, n = Len(handled)
    PROVE  /\ IsSequence(handled') /\ n \in Nat /\ Len(handled') = n + 1
           /\ \A k \in 0..n : Answers(k)' = Answers(k)
           /\ Answers(n + 1)' = Answers(n) \o Answer(req)
           /\ Closing \subseteq 1..n
           /\ Closing' = IF Resp(req).close_connection_ THEN Closing \cup {n + 1} ELSE Closing
<1>1. /\ IsSequence(handled') /\ n \in Nat /\ DOMAIN handled = 1..n
      /\ Len(handled') = n + 1 /\ DOMAIN handled' = 1..(n + 1)
      /\ handled'[n + 1] = req /\ \A i \in 1..n : handled'[i] = handled[i]
  BY AppendIsSequence
<1>3. ASSUME NEW k \in 0..n
      PROVE  Answers(k)' = Answers(k)
  <2>1. \A i \in 1..k : Answer(handled[i])' = Answer(handled[i])
    <3> TAKE i \in 1..k
    <3>1. i \in 1..n
      BY <1>1
    <3>2. handled'[i] = handled[i]
      BY <1>1, <3>1
    <3> QED
      BY <3>2 DEF Answer, Resp, CallBack
  <2> QED
    BY <2>1 DEF Answers
<1>4. Answers(n + 1)' = Answers(n) \o Answer(req)
  <2> DEFINE f == [i \in 1..n |-> Answer(handled[i])]
             g == [i \in 1..(n + 1) |-> Answer(handled[i])']
  <2>1. \A i \in 1..n : f[i] \in Seq(OutUnits)
    BY AnswerIs
  <2>2. Grows(g, f, n, Answer(req))
    <3>1. ASSUME NEW i \in 1..n PROVE g[i] = f[i]
      <4>1. i \in 1..(n + 1) /\ handled'[i] = handled[i]
        BY <1>1
      <4>2. Answer(handled[i])' = Answer(handled[i])
        BY <4>1 DEF Answer, Resp, CallBack
      <4> QED
        BY <4>1, <4>2
    <3>2. g[n + 1] = Answer(req)
      <4>1. n + 1 \in 1..(n + 1)
        BY <1>1
      <4>2. Answer(handled[n + 1])' = Answer(req)
        BY <1>1 DEF Answer, Resp, CallBack
      <4> QED
        BY <4>1, <4>2
    <3> QED
      BY <3>1, <3>2 DEF Grows
  <2>3. Answers(n + 1)' = FlattenSeq(g) /\ Answers(n) = FlattenSeq(f)
    BY DEF Answers
  <2>4. Answer(req) \in Seq(OutUnits)
    BY AnswerIs
  <2> HIDE DEF f, g
  <2>5. FlattenSeq(g) = FlattenSeq(f) \o Answer(req)
    BY <1>1, <2>1, <2>2, <2>4, FlattenGrow
  <2> QED
    BY <2>3, <2>5
<1>5. Closing \subseteq 1..n
  BY <1>1 DEF Closing
<1>6. Closing' = IF Resp(req).close_connection_ THEN Closing \cup {n + 1} ELSE Closing
  <2>1. Closing' = {i \in 1..(n + 1) : (Resp(handled[i])').close_connection_}
    BY <1>1 DEF Closing
  <2>2. Closing = {i \in 1..n : Resp(handled[i]).close_connection_}
    BY <1>1 DEF Closing
  <2>3. \A i \in 1..n : Resp(handled[i])' = Resp(handled[i])
    BY <1>1 DEF Resp, CallBack
  <2>4. Resp(handled[n + 1])' = Resp(req)
    BY <1>1 DEF Resp, CallBack
  <2>5. \A i : i \in 1..(n + 1) <=> i \in 1..n \/ i = n + 1
    BY <1>1
  <2> QED
    BY <2>1, <2>2, <2>3, <2>4, <2>5
<1> QED
  BY <1>1, <1>3, <1>4, <1>5, <1>6

\* More data behind a line does not change it.
LEMMA LineStays ==
    ASSUME NEW U, NEW b \in Buffers(U), IsBuffer(b), NEW c \in Buffers(U), IsBuffer(c),
           NEW data \in Seq(U), Payload(c) = Payload(b) \o data, HasCRLF(b)
    PROVE  HasCRLF(c) /\ Line(c) = Line(b)
<1> DEFINE p == Payload(b)
           q == Payload(c)
<1>1. p \in Seq(U) /\ q \in Seq(U)
  BY PayloadIs
<1>2. q = p \o data
  OBVIOUS
<1>3. PICK k \in Nat : FirstEnd(p, k) /\ k + 2 <= Len(p) /\ Line(b) = SubSeq(p, 1, k)
  BY LineIs
<1>4. \A j \in Nat : EndsAt(q, j) => c.read_index_ + j \in CRLFs(c)
  BY CRLFsAre
<1>5. HasCRLF(c) => \E m \in Nat : FirstEnd(q, m) /\ Line(c) = SubSeq(q, 1, m)
  BY LineIs
<1> HIDE DEF p, q
<1>6. /\ Len(p) \in Nat /\ Len(q) \in Nat /\ Len(p) <= Len(q)
      /\ \A i \in 1..Len(p) : q[i] = p[i]
  BY <1>1, <1>2
<1>7. ASSUME NEW j \in Nat, j + 2 <= Len(p)
      PROVE  EndsAt(q, j) <=> EndsAt(p, j)
  <2>1. j + 1 \in 1..Len(p) /\ j + 2 \in 1..Len(p) /\ j + 2 <= Len(q)
    BY <1>6, <1>7
  <2>2. q[j + 1] = p[j + 1] /\ q[j + 2] = p[j + 2]
    BY <1>6, <2>1
  <2> QED
    BY <1>7, <2>1, <2>2 DEF EndsAt
<1>8. EndsAt(p, k) /\ EndsAt(q, k)
  BY <1>3, <1>7 DEF FirstEnd
<1>9. HasCRLF(c)
  BY <1>4, <1>8 DEF HasCRLF
<1>10. PICK m \in Nat : FirstEnd(q, m) /\ Line(c) = SubSeq(q, 1, m)
  BY <1>5, <1>9
<1>11. ~(m < k)
  <2> SUFFICES ASSUME m < k PROVE FALSE
    OBVIOUS
  <2>1. m + 2 <= Len(p) /\ m \in 0..(k - 1)
    BY <1>3, <1>6
  <2>2. EndsAt(p, m)
    BY <1>7, <1>10, <2>1 DEF FirstEnd
  <2> QED
    BY <1>3, <2>1, <2>2 DEF FirstEnd
<1>12. ~(k < m)
  <2> SUFFICES ASSUME k < m PROVE FALSE
    OBVIOUS
  <2>1. k \in 0..(m - 1)
    OBVIOUS
  <2> QED
    BY <1>8, <1>10, <2>1 DEF FirstEnd
<1>13. m = k
  BY <1>11, <1>12
<1>14. SubSeq(q, 1, k) = SubSeq(p, 1, k)
  <2>1. /\ SubSeq(q, 1, k) \in Seq(U) /\ Len(SubSeq(q, 1, k)) = k
        /\ \A i \in 1..k : SubSeq(q, 1, k)[i] = q[i]
    BY <1>1, <1>3, <1>6
  <2>2. /\ SubSeq(p, 1, k) \in Seq(U) /\ Len(SubSeq(p, 1, k)) = k
        /\ \A i \in 1..k : SubSeq(p, 1, k)[i] = p[i]
    BY <1>1, <1>3, <1>6
  <2>3. \A i \in 1..k : q[i] = p[i]
    BY <1>3, <1>6
  <2> QED
    BY <2>1, <2>2, <2>3, SeqEqual
<1> QED
  BY <1>3, <1>9, <1>10, <1>13, <1>14

\* A refused line stays refused when more is read.
LEMMA RefusedStays ==
    ASSUME ReadInv, NEW n \in 1..(Len(stream) - received), HandleRead(n), Refused
    PROVE  Refused'
<1> DEFINE data == SubSeq(stream, received + 1, received + n)
<1>1. /\ input_buf_ \in Buffers(Units) /\ IsBuffer(input_buf_) /\ stream \in Seq(Units)
      /\ received \in Nat /\ received <= Len(stream)
  BY DEF ReadInv, ReadTypes, PayloadKept
<1>2. data \in Seq(Units) /\ Zero \in Units
  <2>1. data \in Seq(Units)
    BY <1>1
  <2> QED
    BY <2>1 DEF Units
<1>3. input_buf_' = readFd(input_buf_, data) /\ context' = context
  BY DEF HandleRead
<1> HIDE DEF data
<1>4. /\ input_buf_' \in Buffers(Units) /\ IsBuffer(input_buf_')
      /\ Payload(input_buf_') = Payload(input_buf_) \o data
  BY <1>1, <1>2, <1>3, readFdIs
<1>5. HasCRLF(input_buf_') /\ Line(input_buf_') = Line(input_buf_)
  <2>1. HasCRLF(input_buf_)
    BY DEF Refused
  <2> QED
    BY <1>1, <1>2, <1>4, <2>1, LineStays
<1> QED
  BY <1>3, <1>5 DEF Refused

\* The 400 is text, and not nothing.
LEMMA BadRequestIs == BadRequest \in Seq(OutUnits) /\ Len(BadRequest) = 5
<1>1. /\ Unit("HTTP/1.1 400 Bad Request") \in OutUnits
      /\ Unit("cr") \in OutUnits /\ Unit("lf") \in OutUnits
  <2>1. "HTTP/1.1 400 Bad Request" \in Words /\ "cr" \in Words /\ "lf" \in Words
    BY DEF Words
  <2> QED
    BY <2>1, OutUnitsAre
<1>2. CRLF \in Seq(OutUnits) /\ Len(CRLF) = 2
  BY <1>1, TuplesAreSeqs DEF CRLF
<1> DEFINE a == <<Unit("HTTP/1.1 400 Bad Request")>>
<1>3. a \in Seq(OutUnits) /\ Len(a) = 1
  BY <1>1, TuplesAreSeqs
<1> HIDE DEF a
<1>4. a \o CRLF \in Seq(OutUnits) /\ Len(a \o CRLF) = 3
  <2>1. a \o CRLF \in Seq(OutUnits) /\ Len(a \o CRLF) = Len(a) + Len(CRLF)
    BY <1>2, <1>3, ConcatProperties
  <2> QED
    BY <1>2, <1>3, <2>1
<1>5. (a \o CRLF) \o CRLF \in Seq(OutUnits) /\ Len((a \o CRLF) \o CRLF) = 5
  BY <1>2, <1>4, ConcatProperties
<1> QED
  BY <1>5 DEF BadRequest, a

\* Nothing was sent yet.
LEMMA InitWireInv == HttpInit => WireInv
<1> SUFFICES ASSUME HttpInit PROVE WireInv
  OBVIOUS
<1>1. handled = <<>> /\ wire = <<>> /\ fin = FALSE /\ state = "CONNECTING"
  BY DEF HttpInit
<1>2. IsSequence(handled)
  BY <1>1 DEF IsSequence
<1>3. Closing = {}
  BY <1>1 DEF Closing
<1>4. Answers(Len(handled)) = <<>>
  <2>1. [i \in 1..0 |-> Answer(handled[i])] = <<>>
    OBVIOUS
  <2>2. Len(handled) = 0
    BY <1>1
  <2> QED
    BY <2>1, <2>2, FlattenEmpty DEF Answers
<1> QED
  BY <1>1, <1>2, <1>3, <1>4 DEF WireInv, NoneClosed

\* A request that is handled is answered, unless an answer before it closed the
\* connection.
LEMMA OnRequestWire ==
    ASSUME ReadInv, WireInv, OnRequest
    PROVE  WireInv'
<1>1. PICK req, n : req = context.request_ /\ n = Len(handled)
  OBVIOUS
<1>2. /\ pc = "done" /\ pc' = "idle" /\ handled' = Append(handled, req)
      /\ SendAndShutDown(Payload(AppendToBuffer(Resp(req), NewBuffer)),
                         Resp(req).close_connection_)
      /\ UNCHANGED http_call_back_
  BY <1>1 DEF OnRequest, Resp
<1>3. SendAndShutDown(Answer(req), Resp(req).close_connection_)
  BY <1>2, AnswerIs
<1>4. Resp(req).close_connection_ \in BOOLEAN
  BY AnswerIs
<1>5. IsSequence(handled)
  BY DEF WireInv
<1>6. /\ IsSequence(handled') /\ n \in Nat /\ Len(handled') = n + 1
      /\ \A k \in 0..n : Answers(k)' = Answers(k)
      /\ Answers(n + 1)' = Answers(n) \o Answer(req)
      /\ Closing \subseteq 1..n
      /\ Closing' = IF Resp(req).close_connection_ THEN Closing \cup {n + 1} ELSE Closing
  BY <1>1, <1>2, <1>5, HandledGrows
<1>7. ~Refused
  BY <1>2 DEF ReadInv, ContextInv, Refused
<1>8. state # "DISCONNECTED" /\ state # "CONNECTING"
  BY <1>2 DEF WireInv, ReadInv, ContextInv
<1>9. CASE NoneClosed
  <2>1. /\ state = "CONNECTED" /\ Closing = {} /\ wire = Answers(n) /\ fin = FALSE
    BY <1>1, <1>8, <1>9 DEF NoneClosed, ReadInv, ContextInv
  <2>2. /\ wire' = Answers(n + 1)'
        /\ state' = IF Resp(req).close_connection_ THEN "DISCONNECTING" ELSE state
        /\ fin' = Resp(req).close_connection_
    BY <1>3, <1>6, <2>1 DEF SendAndShutDown
  <2>3. CASE Resp(req).close_connection_
    <3>1. Closing' = {n + 1} /\ fin' = TRUE /\ state' = "DISCONNECTING"
      BY <1>4, <1>6, <2>1, <2>2, <2>3
    <3>2. Min(Closing') = n + 1
      <4>1. {n + 1} \subseteq Nat /\ {n + 1} # {}
        BY <1>6
      <4>2. Min({n + 1}) \in {n + 1}
        BY <4>1, MinOfNats
      <4> QED
        BY <3>1, <4>2
    <3>3. Answers(Min(Closing))' = Answers(n + 1)'
      BY <3>2 DEF Answers
    <3>4. AnswerClosed'
      BY <2>2, <3>1, <3>3 DEF AnswerClosed
    <3> QED
      BY <1>2, <1>6, <3>1, <3>4 DEF WireInv
  <2>4. CASE ~Resp(req).close_connection_
    <3>1. Closing' = {} /\ fin' = FALSE /\ state' = "CONNECTED"
      BY <1>4, <1>6, <2>1, <2>2, <2>4
    <3>2. Answers(Len(handled))' = Answers(n + 1)'
      BY <1>6 DEF Answers
    <3>3. NoneClosed'
      BY <2>2, <3>1, <3>2 DEF NoneClosed
    <3> QED
      BY <1>2, <1>6, <3>1, <3>3 DEF WireInv
  <2> QED
    BY <2>3, <2>4
<1>10. CASE ~NoneClosed
  <2>1. AnswerClosed /\ state = "DISCONNECTING"
    BY <1>7, <1>8, <1>10 DEF WireInv, BadClosed
  <2>2. UNCHANGED <<wire, state, fin>>
    BY <1>3, <2>1 DEF SendAndShutDown
  <2>3. Closing # {} /\ wire = Answers(Min(Closing)) /\ fin = TRUE
    BY <2>1 DEF AnswerClosed
  <2>4. Closing \subseteq Nat /\ Closing' \subseteq Nat /\ Closing' # {}
    BY <1>6, <2>3
  <2>5. Min(Closing) \in Closing /\ \A y \in Closing : Min(Closing) <= y
    BY <2>3, <2>4, MinOfNats
  <2>6. Min(Closing') \in Closing' /\ \A y \in Closing' : Min(Closing') <= y
    BY <2>4, MinOfNats
  <2>7. PICK m \in 1..n : m = Min(Closing)
    BY <1>6, <2>5
  <2>8. Min(Closing') = m
    <3>1. PICK x \in Closing' : x = Min(Closing')
      BY <2>6
    <3>2. m \in Closing' /\ x <= m
      BY <1>6, <2>5, <2>6, <2>7, <3>1
    <3>3. x \in Closing \/ x = n + 1
      BY <1>6, <3>1
    <3>4. x \in Closing
      BY <1>6, <3>2, <3>3
    <3>5. m <= x
      BY <2>5, <2>7, <3>4
    <3>6. m \in Nat /\ x \in Nat
      BY <2>4, <3>1
    <3> QED
      BY <3>1, <3>2, <3>5, <3>6
  <2>9. Answers(Min(Closing))' = Answers(m)'
    BY <2>8 DEF Answers
  <2>10. Answers(m)' = Answers(m) /\ Answers(m) = Answers(Min(Closing))
    BY <1>6, <2>7
  <2>11. AnswerClosed'
    BY <2>2, <2>3, <2>4, <2>9, <2>10 DEF AnswerClosed
  <2> QED
    BY <1>2, <1>6, <2>1, <2>2, <2>11 DEF WireInv
<1> QED
  BY <1>9, <1>10

\* A refused line is answered by one 400, the last that is sent.
LEMMA BadRequestLineWire ==
    ASSUME ReadInv, WireInv, BadRequestLine
    PROVE  WireInv'
<1>1. /\ pc = "parse" /\ pc' = "idle" /\ SendAndShutDown(BadRequest, TRUE)
      /\ HasCRLF(input_buf_) /\ ~ParseRequestLine(Line(input_buf_))
      /\ context.state_ = "ExpectRequestLine" /\ input_buf_' = input_buf_
      /\ UNCHANGED <<http_call_back_, handled>>
  BY DEF BadRequestLine, Turn
<1>2. state # "DISCONNECTED" /\ state # "CONNECTING"
  BY <1>1 DEF WireInv, ReadInv, ContextInv
<1>3. context'.state_ = "ExpectRequestLine"
  BY <1>1, <1>2 DEF BadRequestLine, ReadInv, ContextInv
<1>4. Refused'
  BY <1>1, <1>3 DEF Refused
<1>5. Closing' = Closing /\ \A n \in Nat : Answers(n)' = Answers(n)
  BY <1>1, AnswersStay DEF Closing, Answers
<1>6. IsSequence(handled) /\ Len(handled) \in Nat
  <2>1. IsSequence(handled)
    BY DEF WireInv
  <2> QED
    BY <2>1 DEF IsSequence
<1>7. IsSequence(handled)'
  BY <1>1, <1>6
<1>8. PICK n \in Nat : n = Len(handled)
  BY <1>6
<1>9. Answers(Len(handled))' = Answers(n)' /\ Answers(n)' = Answers(n)
  BY <1>1, <1>5, <1>8 DEF Answers
<1>10. CASE NoneClosed
  <2>1. state = "CONNECTED" /\ Closing = {} /\ wire = Answers(n)
    BY <1>2, <1>8, <1>10 DEF NoneClosed, ReadInv, ContextInv
  <2>2. wire' = wire \o BadRequest /\ state' = "DISCONNECTING" /\ fin' = TRUE
    BY <1>1, <2>1 DEF SendAndShutDown
  <2>3. BadClosed'
    BY <1>4, <1>5, <1>9, <2>1, <2>2 DEF BadClosed
  <2> QED
    BY <1>7, <2>2, <2>3 DEF WireInv
<1>11. CASE ~NoneClosed
  <2>1. state = "DISCONNECTING" /\ (AnswerClosed \/ BadClosed)
    BY <1>2, <1>11 DEF WireInv
  <2>2. UNCHANGED <<wire, state, fin>>
    BY <1>1, <2>1 DEF SendAndShutDown
  <2>3. CASE AnswerClosed
    <3>1. PICK m : m = Min(Closing)
      OBVIOUS
    <3>2. Closing # {} /\ wire = Answers(m) /\ fin = TRUE
      BY <2>3, <3>1 DEF AnswerClosed
    <3>3. Answers(Min(Closing))' = Answers(m)' /\ Answers(m)' = Answers(m)
      BY <1>1, <1>5, <3>1, AnswersStay DEF Answers
    <3>4. AnswerClosed'
      BY <1>5, <2>2, <3>2, <3>3 DEF AnswerClosed
    <3> QED
      BY <1>7, <2>1, <2>2, <3>4 DEF WireInv
  <2>4. CASE BadClosed
    <3>1. Closing = {} /\ wire = Answers(n) \o BadRequest /\ fin = TRUE
      BY <1>8, <2>4 DEF BadClosed
    <3>2. BadClosed'
      BY <1>4, <1>5, <1>9, <2>2, <3>1 DEF BadClosed
    <3> QED
      BY <1>7, <2>1, <2>2, <3>2 DEF WireInv
  <2> QED
    BY <2>1, <2>3, <2>4
<1> QED
  BY <1>10, <1>11

\* A step that handles and sends nothing keeps the invariant, when it keeps a
\* refused line.
LEMMA QuietWire ==
    ASSUME WireInv, UNCHANGED <<http_call_back_, handled, wire, fin>>,
           state' = "DISCONNECTED" => pc' = "idle",
           state' \in {state, "CONNECTED", "DISCONNECTED"},
           state \in {"DISCONNECTING", "DISCONNECTED"} =>
                state' \in {"DISCONNECTING", "DISCONNECTED"} /\ (Refused => Refused')
    PROVE  WireInv'
<1>1. Closing' = Closing
  BY AnswersStay DEF Closing
<1>3. Answers(Len(handled))' = Answers(Len(handled))
  BY AnswersStay DEF Answers
<1>4. Answers(Min(Closing))' = Answers(Min(Closing))
  BY <1>1, AnswersStay DEF Answers
<1>5. IsSequence(handled)'
  BY DEF WireInv
<1>6. NoneClosed => NoneClosed'
  BY <1>1, <1>3 DEF NoneClosed
<1>7. AnswerClosed => AnswerClosed'
  BY <1>1, <1>4 DEF AnswerClosed
<1>8. BadClosed /\ state \in {"DISCONNECTING", "DISCONNECTED"} => BadClosed'
  BY <1>1, <1>3 DEF BadClosed
<1> QED
  BY <1>5, <1>6, <1>7, <1>8 DEF WireInv

\* The invariant is kept by every step.
LEMMA NextWireInv == ReadInv /\ WireInv /\ [HttpNext]_httpVars => WireInv'
<1> SUFFICES ASSUME ReadInv, WireInv, [HttpNext]_httpVars PROVE WireInv'
  OBVIOUS
<1>0. /\ state = "DISCONNECTED" => pc = "idle"
      /\ state = "CONNECTING" => pc = "idle"
  BY DEF WireInv, ReadInv, ContextInv
<1>1. CASE OnConnection
  BY <1>1, QuietWire DEF OnConnection
<1>2. ASSUME NEW n \in 1..(Len(stream) - received), HandleRead(n) PROVE WireInv'
  <2>1. Refused => Refused'
    BY <1>2, RefusedStays
  <2> QED
    BY <1>2, <2>1, QuietWire DEF HandleRead
<1>3. CASE HandleClose
  <2>1. Refused => Refused'
    BY <1>3 DEF HandleClose, Refused
  <2> QED
    BY <1>3, <2>1, QuietWire DEF HandleClose
<1>4. CASE RequestLine \/ HeaderLine \/ LastLine \/ NoRequestLine
  <2>1. ~Refused
    BY <1>4 DEF RequestLine, HeaderLine, LastLine, NoRequestLine, Turn, Refused
  <2>2. pc = "parse" /\ UNCHANGED <<http_call_back_, handled, wire, fin, state>>
    BY <1>4 DEF RequestLine, HeaderLine, LastLine, NoRequestLine, Turn
  <2> QED
    BY <1>0, <2>1, <2>2, QuietWire
<1>5. CASE BadRequestLine
  BY <1>5, BadRequestLineWire
<1>6. CASE OnRequest
  BY <1>6, OnRequestWire
<1>7. CASE UNCHANGED httpVars
  <2>1. Refused => Refused'
    BY <1>7 DEF httpVars, Refused
  <2> QED
    BY <1>0, <1>7, <2>1, QuietWire DEF httpVars
<1> QED
  BY <1>1, <1>2, <1>3, <1>4, <1>5, <1>6, <1>7 DEF HttpNext, ParseStep

\* WireInv holds always.
THEOREM WireInvariant == HttpSpec => []WireInv
<1>1. HttpInit => ReadInv /\ WireInv
  BY InitReadInv, InitWireInv
<1>2. (ReadInv /\ WireInv) /\ [HttpNext]_httpVars => (ReadInv /\ WireInv)'
  BY NextReadInv, NextWireInv
<1> QED
  BY <1>1, <1>2, PTL DEF HttpSpec

\* The client gets the answers of its requests, whole and in order, nothing
\* after the one that closes the connection, and at most one 400.
THEOREM AnswersInOrder == HttpSpec => []WireIsAnswers
<1>1. ASSUME WireInv PROVE WireIsAnswers
  <2> DEFINE resp(i) == CallBack(handled[i], AsksClose(handled[i]))
             closing == {i \in DOMAIN handled : resp(i).close_connection_}
             last == IF closing = {} THEN Len(handled) ELSE Min(closing)
             answers == FlattenSeq([i \in 1..last |-> FlattenSeq(Pieces(resp(i)))])
  <2>1. closing = Closing
    BY DEF Closing, Resp
  <2>2. answers = Answers(last)
    BY DEF Answers, Answer, Resp
  <2>3. last = IF Closing = {} THEN Len(handled) ELSE Min(Closing)
    BY <2>1
  <2>4. Len(handled) \in Nat
    BY <1>1 DEF WireInv, IsSequence
  <2>5. closing = {} => answers \in Seq(OutUnits)
    <3>1. closing = {} => answers = Answers(Len(handled))
      BY <2>2
    <3>2. Answers(Len(handled)) \in Seq(OutUnits)
      BY <2>4, AnswersType
    <3> QED
      BY <3>1, <3>2
  <2> HIDE DEF closing, last, answers
  <2>6. closing = {} => answers \o BadRequest # answers
    <3>1. ASSUME closing = {} PROVE Len(answers \o BadRequest) # Len(answers)
      BY <2>5, <3>1, BadRequestIs, SMTT(30)
    <3> QED
      BY <3>1
  <2>7. CASE NoneClosed
    <3>1. closing = {} /\ wire = answers /\ fin = FALSE
      BY <2>1, <2>2, <2>3, <2>7 DEF NoneClosed
    <3> QED
      BY <3>1 DEF WireIsAnswers, closing, last, answers
  <2>8. CASE AnswerClosed
    <3>1. closing # {} /\ wire = answers /\ fin = TRUE
      BY <2>1, <2>2, <2>3, <2>8 DEF AnswerClosed
    <3> QED
      BY <3>1 DEF WireIsAnswers, closing, last, answers
  <2>9. CASE BadClosed
    <3>1. closing = {} /\ wire = answers \o BadRequest /\ fin = TRUE /\ wire # answers
      BY <2>1, <2>2, <2>3, <2>6, <2>9 DEF BadClosed
    <3> QED
      BY <3>1 DEF WireIsAnswers, closing, last, answers
  <2> QED
    BY <1>1, <2>7, <2>8, <2>9 DEF WireInv
<1> QED
  BY <1>1, WireInvariant, PTL

-----------------------------------------------------------------------------
(***************************************************************************)
(* The client's bytes as the parser meets them: lines of one unit, and the *)
(* empty line that ends a head.                                            *)
(***************************************************************************)
\* What the parser has not passed yet, received or not.
Rest == SubSeq(stream, consumed + 1, Len(stream))

\* A line end of a part received is one of all that is to come.
LEMMA FirstEndOfPrefix ==
    ASSUME NEW U, NEW s \in Seq(U), NEW a \in Nat, NEW b \in Nat, a <= b, b <= Len(s),
           NEW k \in Nat, FirstEnd(SubSeq(s, a + 1, b), k)
    PROVE  /\ FirstEnd(SubSeq(s, a + 1, Len(s)), k)
           /\ SubSeq(SubSeq(s, a + 1, b), 1, k) = SubSeq(SubSeq(s, a + 1, Len(s)), 1, k)
<1> DEFINE p == SubSeq(s, a + 1, b)
           q == SubSeq(s, a + 1, Len(s))
<1>0. Len(s) \in Nat
  OBVIOUS
<1>1. p \in Seq(U) /\ Len(p) = b - a /\ \A i \in 1..(b - a) : p[i] = s[a + i]
  BY <1>0
<1>2. q \in Seq(U) /\ Len(q) = Len(s) - a /\ \A i \in 1..(Len(s) - a) : q[i] = s[a + i]
  BY <1>0
<1>3. FirstEnd(p, k)
  OBVIOUS
<1> HIDE DEF p, q
<1>4. /\ Len(p) \in Nat /\ Len(q) \in Nat /\ Len(p) <= Len(q)
      /\ \A i \in 1..Len(p) : q[i] = p[i]
  BY <1>0, <1>1, <1>2
<1>5. k + 2 <= Len(p)
  BY <1>3 DEF FirstEnd, EndsAt
<1>6. ASSUME NEW j \in 0..k
      PROVE  EndsAt(q, j) <=> EndsAt(p, j)
  <2>1. j + 1 \in 1..Len(p) /\ j + 2 \in 1..Len(p) /\ j + 2 <= Len(q) /\ j + 2 <= Len(p)
    BY <1>4, <1>5
  <2>2. q[j + 1] = p[j + 1] /\ q[j + 2] = p[j + 2]
    BY <1>4, <2>1
  <2> QED
    BY <2>1, <2>2 DEF EndsAt
<1>7. FirstEnd(q, k)
  <2>1. k \in 0..k /\ \A j \in 0..(k - 1) : j \in 0..k
    OBVIOUS
  <2> QED
    BY <1>3, <1>6, <2>1 DEF FirstEnd
<1>8. SubSeq(p, 1, k) = SubSeq(q, 1, k)
  <2>1. /\ SubSeq(p, 1, k) \in Seq(U) /\ Len(SubSeq(p, 1, k)) = k
        /\ \A i \in 1..k : SubSeq(p, 1, k)[i] = p[i]
    BY <1>1, <1>4, <1>5
  <2>2. /\ SubSeq(q, 1, k) \in Seq(U) /\ Len(SubSeq(q, 1, k)) = k
        /\ \A i \in 1..k : SubSeq(q, 1, k)[i] = q[i]
    BY <1>2, <1>4, <1>5
  <2>3. \A i \in 1..k : p[i] = q[i]
    BY <1>4, <1>5
  <2> QED
    BY <2>1, <2>2, <2>3, SeqEqual
<1> QED
  BY <1>7, <1>8 DEF p, q

\* The types of what is to come.
LEMMA RestType ==
    ASSUME ReadInv
    PROVE  Rest \in Seq(Units)
<1>1. stream \in Seq(Units) /\ consumed \in Nat /\ consumed <= Len(stream) /\ Len(stream) \in Nat
  BY DEF ReadInv, ReadTypes
<1> QED
  BY <1>1 DEF Rest

\* The line that the parser looks at is the first of what is to come, however
\* much of the rest was received.
LEMMA LineOfRest ==
    ASSUME ReadInv, HasCRLF(input_buf_)
    PROVE  \E k \in Nat : /\ FirstEnd(Rest, k) /\ Line(input_buf_) = SubSeq(Rest, 1, k)
                          /\ Len(Line(input_buf_)) = k
<1> DEFINE b == input_buf_
           p == Payload(input_buf_)
<1>1. /\ stream \in Seq(Units) /\ received \in Nat /\ consumed \in Nat
      /\ consumed <= received /\ received <= Len(stream) /\ Len(stream) \in Nat
      /\ b \in Buffers(Units) /\ IsBuffer(b)
      /\ p = SubSeq(stream, consumed + 1, received)
  BY DEF ReadInv, ReadTypes, PayloadKept
<1>2. PICK k \in Nat : /\ FirstEnd(p, k) /\ k + 2 <= Len(p)
                       /\ Line(b) = SubSeq(p, 1, k)
  BY <1>1, LineIs
<1>3. p \in Seq(Units) /\ Len(p) \in Nat
  BY <1>1
<1> HIDE DEF p
<1>4. Len(SubSeq(p, 1, k)) = k
  BY <1>2, <1>3
<1>5. FirstEnd(Rest, k) /\ SubSeq(p, 1, k) = SubSeq(Rest, 1, k)
  <2>1. FirstEnd(SubSeq(stream, consumed + 1, received), k)
    BY <1>1, <1>2
  <2>2. /\ FirstEnd(SubSeq(stream, consumed + 1, Len(stream)), k)
        /\ SubSeq(SubSeq(stream, consumed + 1, received), 1, k)
             = SubSeq(SubSeq(stream, consumed + 1, Len(stream)), 1, k)
    BY <1>1, <2>1, FirstEndOfPrefix
  <2> QED
    BY <1>1, <2>2 DEF Rest
<1> QED
  BY <1>2, <1>4, <1>5

\* Passing it leaves what follows its CRLF.
LEMMA RestAfterLine ==
    ASSUME ReadInv, PassLine, UNCHANGED stream, NEW k \in Nat, FirstEnd(Rest, k),
           Len(Line(input_buf_)) = k
    PROVE  Rest' = SubSeq(Rest, k + 3, Len(Rest))
<1>1. /\ stream \in Seq(Units) /\ consumed \in Nat /\ consumed <= Len(stream)
      /\ Len(stream) \in Nat
  BY DEF ReadInv, ReadTypes
<1>2. Rest \in Seq(Units) /\ Len(Rest) = Len(stream) - consumed
  BY <1>1 DEF Rest
<1>3. k + 2 <= Len(Rest)
  BY DEF FirstEnd, EndsAt
<1>4. consumed' = consumed + (k + 2)
  <2>1. consumed' = consumed + Len(Line(input_buf_)) + 2
    BY DEF PassLine
  <2> QED
    BY <1>1, <2>1
<1>5. Rest' = SubSeq(stream, (consumed + (k + 2)) + 1, Len(stream))
  BY <1>4 DEF Rest
<1>6. SubSeq(SubSeq(stream, consumed + 1, Len(stream)), (k + 2) + 1, Len(stream) - consumed)
        = SubSeq(stream, (consumed + (k + 2)) + 1, Len(stream))
  <2>1. consumed + (k + 2) <= Len(stream) /\ k + 2 \in Nat
    BY <1>1, <1>2, <1>3
  <2> QED
    BY <1>1, <2>1, DropOfSubSeq
<1>7. (k + 2) + 1 = k + 3
  OBVIOUS
<1> QED
  BY <1>2, <1>5, <1>6, <1>7 DEF Rest

\* The two characters of a line end.
LEMMA CRLFIs ==
    ASSUME NEW U, Unit("cr") \in U, Unit("lf") \in U
    PROVE  /\ CRLF \in Seq(U) /\ Len(CRLF) = 2 /\ CRLF[1] = Unit("cr") /\ CRLF[2] = Unit("lf")
  BY DEF CRLF

\* One unit, a line end c and what follows, element by element.
LEMMA UnitThenEnd ==
    ASSUME NEW U, NEW u \in U, NEW c \in Seq(U), Len(c) = 2, NEW t \in Seq(U)
    PROVE  LET s == (<<u>> \o c) \o t
           IN  /\ s \in Seq(U) /\ Len(s) = 3 + Len(t)
               /\ s[1] = u /\ s[2] = c[1] /\ s[3] = c[2]
               /\ \A i \in 1..Len(t) : s[3 + i] = t[i]
<1> DEFINE h == <<u>> \o c
           s == h \o t
<1>1. <<u>> \in Seq(U) /\ Len(<<u>>) = 1 /\ <<u>>[1] = u
  OBVIOUS
<1>2. /\ h \in Seq(U) /\ Len(h) = 1 + 2
      /\ \A i \in 1..3 : h[i] = IF i <= 1 THEN <<u>>[i] ELSE c[i - 1]
  <2>1. /\ h \in Seq(U) /\ Len(h) = Len(<<u>>) + Len(c)
        /\ \A i \in 1..(Len(<<u>>) + Len(c)) :
             h[i] = IF i <= Len(<<u>>) THEN <<u>>[i] ELSE c[i - Len(<<u>>)]
    BY <1>1, ConcatProperties
  <2> QED
    BY <1>1, <2>1
<1>3. h[1] = u /\ h[2] = c[1] /\ h[3] = c[2]
  BY <1>1, <1>2
<1>4. Len(h) = 3
  BY <1>2
<1> HIDE DEF h
<1>5. /\ s \in Seq(U) /\ Len(s) = 3 + Len(t)
      /\ \A i \in 1..3 : s[i] = h[i]
      /\ \A i \in 1..Len(t) : s[3 + i] = t[i]
  <2>1. s \in Seq(U) /\ Joins(s, h, t, 3)
    BY <1>2, <1>4, ConcatAt
  <2> QED
    BY <2>1 DEF Joins
<1>6. s[1] = h[1] /\ s[2] = h[2] /\ s[3] = h[3]
  BY <1>5
<1> HIDE DEF s
<1> QED
  BY <1>3, <1>5, <1>6 DEF s, h

\* A line of one unit, or an empty one, and what follows it.
LineThen(u, t) == (<<u>> \o CRLF) \o t
EmptyThen(t) == CRLF \o t

\* What the parser sees of a line of one unit.
LEMMA UnitLine ==
    ASSUME NEW U, Unit("cr") \in U, Unit("lf") \in U, NEW u \in U, u # Unit("cr"),
           NEW t \in Seq(U), NEW s, s = LineThen(u, t), NEW k \in Nat, FirstEnd(s, k)
    PROVE  k = 1 /\ SubSeq(s, 1, k) = <<u>> /\ SubSeq(s, k + 3, Len(s)) = t
<1>1. CRLF \in Seq(U) /\ Len(CRLF) = 2 /\ CRLF[1] = Unit("cr") /\ CRLF[2] = Unit("lf")
  BY CRLFIs
<1>3. /\ s \in Seq(U) /\ Len(s) = 3 + Len(t) /\ Len(t) \in Nat
      /\ s[1] = u /\ s[2] = CRLF[1] /\ s[3] = CRLF[2]
      /\ \A i \in 1..Len(t) : s[3 + i] = t[i]
  BY <1>1, UnitThenEnd DEF LineThen
<1>4. EndsAt(s, 1)
  BY <1>3 DEF EndsAt
<1>5. ~EndsAt(s, 0)
  <2>1. s[0 + 1] = u
    BY <1>3
  <2> QED
    BY <1>1, <2>1 DEF EndsAt
<1>6. k = 1
  <2>1. k # 0
    BY <1>5 DEF FirstEnd
  <2>2. ~(1 \in 0..(k - 1))
    BY <1>4 DEF FirstEnd
  <2> QED
    BY <2>1, <2>2
<1>7. SubSeq(s, 1, 1) = <<u>>
  <2>1. SubSeq(s, 1, 1) \in Seq(U) /\ Len(SubSeq(s, 1, 1)) = 1 /\ SubSeq(s, 1, 1)[1] = s[1]
    BY <1>3
  <2>2. <<u>> \in Seq(U) /\ Len(<<u>>) = 1 /\ <<u>>[1] = u
    OBVIOUS
  <2>3. \A i \in 1..1 : i = 1
    OBVIOUS
  <2>4. \A i \in 1..Len(SubSeq(s, 1, 1)) : SubSeq(s, 1, 1)[i] = <<u>>[i]
    BY <1>3, <2>1, <2>2, <2>3
  <2> QED
    BY <2>1, <2>2, <2>4, SeqEqual
<1>8. SubSeq(s, 4, Len(s)) = t
  <2>1. /\ SubSeq(s, 4, Len(s)) \in Seq(U) /\ Len(SubSeq(s, 4, Len(s))) = Len(t)
        /\ \A i \in 1..Len(t) : SubSeq(s, 4, Len(s))[i] = s[3 + i]
    BY <1>3
  <2> QED
    BY <1>3, <2>1, SeqEqual
<1> QED
  BY <1>6, <1>7, <1>8

\* And of an empty line.
LEMMA EmptyLine ==
    ASSUME NEW U, Unit("cr") \in U, Unit("lf") \in U,
           NEW t \in Seq(U), NEW s, s = EmptyThen(t), NEW k \in Nat, FirstEnd(s, k)
    PROVE  k = 0 /\ SubSeq(s, 1, k) = <<>> /\ SubSeq(s, k + 3, Len(s)) = t
<1>1. CRLF \in Seq(U) /\ Len(CRLF) = 2
  BY CRLFIs
<1>2. Len(t) \in Nat
  OBVIOUS
<1>3. /\ s \in Seq(U) /\ Len(s) = 2 + Len(t)
      /\ s[1] = CRLF[1] /\ s[2] = CRLF[2]
      /\ \A i \in 1..Len(t) : s[2 + i] = t[i]
  <2>1. s \in Seq(U) /\ Joins(s, CRLF, t, 2)
    BY <1>1, ConcatAt DEF EmptyThen
  <2> QED
    BY <2>1 DEF Joins
<1>4. EndsAt(s, 0)
  BY <1>3 DEF EndsAt
<1>5. k = 0
  <2>1. ~(0 \in 0..(k - 1))
    BY <1>4 DEF FirstEnd
  <2> QED
    BY <2>1
<1>6. SubSeq(s, 1, 0) = <<>>
  BY SubSeqEmpty
<1>8. SubSeq(s, 3, Len(s)) = t
  <2>1. /\ SubSeq(s, 3, Len(s)) \in Seq(U) /\ Len(SubSeq(s, 3, Len(s))) = Len(t)
        /\ \A i \in 1..Len(t) : SubSeq(s, 3, Len(s))[i] = s[2 + i]
    BY <1>3
  <2> QED
    BY <1>3, <2>1, SeqEqual
<1> QED
  BY <1>5, <1>6, <1>8

\* What a request of a script is made of.
LEMMA RequestIs ==
    ASSUME NEW s \in Scripts, NEW i \in 1..Len(s)
    PROVE  /\ s \in Seq(Requests) /\ s[i] \in Requests
           /\ s[i].headers \in Seq(Units) /\ s[i].body \in Seq(Units)
           /\ RequestUnit(s[i]) \in Units
           /\ \A m \in 1..Len(s[i].headers) :
                s[i].headers[m] \in Units /\ s[i].headers[m].kind \in {"header", "text"}
           /\ s[i].body # <<>> => s[i].body[1].kind # "request"
<1>1. s \in Seq(Requests)
  <2>1. s \in Seq(ToSet(s)) /\ ToSet(s) \subseteq Requests
    BY ScriptsAssumption DEF IsSequence, Requests
  <2> QED
    BY <2>1, SeqMonotonic
<1>2. i \in DOMAIN s /\ s[i] \in Requests
  BY <1>1
<1> DEFINE r == s[i]
<1>3. r.headers \in Seq(ToSet(r.headers)) /\ r.body \in Seq(ToSet(r.body))
  BY <1>2, ScriptsAssumption DEF IsSequence
<1>4. /\ \A h \in ToSet(r.headers) : h.kind \in {"header", "text"}
      /\ r.body # <<>> => r.body[1].kind # "request"
  BY <1>2, UnitsAssumption
<1> HIDE DEF r
<1>5. ToSet(r.headers) \subseteq Units /\ ToSet(r.body) \subseteq Units
  <2>1. r \in Requests
    BY <1>2 DEF r
  <2>2. ToSet(r.headers) \subseteq HeaderUnits /\ ToSet(r.body) \subseteq BodyUnits
    BY <2>1, Zenon DEF HeaderUnits, BodyUnits
  <2> QED
    BY <2>2 DEF Units
<1>6. r.headers \in Seq(Units) /\ r.body \in Seq(Units)
  BY <1>3, <1>5, SeqMonotonic
<1>7. RequestUnit(r) \in Units
  BY <1>2 DEF Units, r
<1>8. ASSUME NEW m \in 1..Len(r.headers)
      PROVE  r.headers[m] \in Units /\ r.headers[m].kind \in {"header", "text"}
  <2>1. r.headers[m] \in ToSet(r.headers)
    BY <1>3
  <2> QED
    BY <1>4, <1>5, <2>1
<1> QED
  BY <1>1, <1>2, <1>4, <1>6, <1>7, <1>8 DEF r

\* Requests from the i-th on, the header lines of r after the first j, and what
\* is to come after the j-th header line of the i-th request.
Coming(i) == FlattenFrom([m \in DOMAIN script |-> Encode(script[m])], i)
HeadersLeft(r, j) == FlattenFrom([m \in DOMAIN r.headers |-> <<r.headers[m]>> \o CRLF], j)
AfterHead(i, j) == HeadersLeft(script[i], j) \o (CRLF \o (script[i].body \o Coming(i)))

\* Header lines one by one.
LEMMA HeadersLeftIs ==
    ASSUME NEW s \in Scripts, NEW i \in 1..Len(s), NEW r, r = s[i]
    PROVE  /\ \A j \in 0..Len(r.headers) : HeadersLeft(r, j) \in Seq(Units)
           /\ HeadersLeft(r, 0) = FlattenSeq([m \in DOMAIN r.headers |-> <<r.headers[m]>> \o CRLF])
           /\ HeadersLeft(r, Len(r.headers)) = <<>>
           /\ \A j \in 0..(Len(r.headers) - 1) :
                HeadersLeft(r, j) = (<<r.headers[j + 1]>> \o CRLF) \o HeadersLeft(r, j + 1)
<1>1. r.headers \in Seq(Units)
  BY RequestIs
<1> DEFINE hs == [m \in DOMAIN r.headers |-> <<r.headers[m]>> \o CRLF]
           n == Len(r.headers)
<1>2. DOMAIN r.headers = 1..n /\ n \in Nat
  BY <1>1
<1>3. Unit("cr") \in Units /\ Unit("lf") \in Units
  BY DEF Units, CRLF
<1>4. CRLF \in Seq(Units)
  BY <1>3, CRLFIs
<1>5. hs \in Seq(Seq(Units)) /\ Len(hs) = n
      /\ \A m \in 1..n : hs[m] = <<r.headers[m]>> \o CRLF
  <2>1. \A m \in 1..n : <<r.headers[m]>> \o CRLF \in Seq(Units)
    <3> TAKE m \in 1..n
    <3>1. r.headers[m] \in Units
      BY <1>1, <1>2
    <3>2. <<r.headers[m]>> \in Seq(Units)
      BY <3>1
    <3> QED
      BY <1>4, <3>2, ConcatProperties
  <2>2. hs = [m \in 1..n |-> <<r.headers[m]>> \o CRLF]
    BY <1>2
  <2> QED
    BY <1>2, <2>1, <2>2
<1>6. \A j : HeadersLeft(r, j) = FlattenFrom(hs, j)
  BY DEF HeadersLeft
<1> HIDE DEF hs
<1>7. /\ \A j \in 0..Len(hs) : FlattenFrom(hs, j) \in Seq(Units)
      /\ FlattenFrom(hs, 0) = FlattenSeq(hs)
      /\ FlattenFrom(hs, Len(hs)) = <<>>
      /\ \A j \in 0..(Len(hs) - 1) :
            FlattenFrom(hs, j) = hs[j + 1] \o FlattenFrom(hs, j + 1)
  BY <1>5, FlattenFromIs
<1>8. \A j \in 0..(n - 1) : hs[j + 1] = <<r.headers[j + 1]>> \o CRLF
  BY <1>2, <1>5
<1>9. FlattenFrom(hs, 0) = FlattenSeq([m \in DOMAIN r.headers |-> <<r.headers[m]>> \o CRLF])
  BY <1>7 DEF hs
<1> HIDE DEF n
<1>10. \A j \in 0..(n - 1) :
         HeadersLeft(r, j) = (<<r.headers[j + 1]>> \o CRLF) \o HeadersLeft(r, j + 1)
  BY <1>5, <1>6, <1>7, <1>8
<1>11. /\ \A j \in 0..n : HeadersLeft(r, j) \in Seq(Units)
       /\ HeadersLeft(r, n) = <<>>
  BY <1>5, <1>6, <1>7
<1> QED
  BY <1>6, <1>9, <1>10, <1>11 DEF n

\* Requests one by one: the request line, and then its head.
LEMMA ComingIs ==
    ASSUME ReadInv
    PROVE  /\ Len(script) \in Nat
           /\ \A i \in 0..Len(script) : Coming(i) \in Seq(Units)
           /\ Coming(0) = stream
           /\ Coming(Len(script)) = <<>>
           /\ \A i \in 0..(Len(script) - 1) :
                Coming(i) = (<<RequestUnit(script[i + 1])>> \o CRLF) \o AfterHead(i + 1, 0)
<1>1. script \in Scripts /\ stream = Stream(script)
  BY DEF ReadInv, ReadTypes
<1> DEFINE es == [m \in DOMAIN script |-> Encode(script[m])]
           n == Len(script)
<1>2. script \in Seq(Requests)
  <2>1. script \in Seq(ToSet(script)) /\ ToSet(script) \subseteq Requests
    BY <1>1, ScriptsAssumption DEF IsSequence, Requests
  <2> QED
    BY <2>1, SeqMonotonic
<1>3. DOMAIN script = 1..n /\ n \in Nat
  BY <1>2
<1>4. es \in Seq(Seq(Units)) /\ Len(es) = n /\ \A m \in 1..n : es[m] = Encode(script[m])
  <2>1. \A m \in DOMAIN script : Encode(script[m]) \in Seq(Units)
    BY <1>2, <1>3, EncodeType
  <2> QED
    BY <1>3, <2>1
<1>5. \A i : Coming(i) = FlattenFrom(es, i)
  BY DEF Coming
<1>6. FlattenSeq(es) = stream
  BY <1>1 DEF Stream
<1> HIDE DEF es
<1>7. /\ \A i \in 0..n : Coming(i) \in Seq(Units)
      /\ Coming(0) = stream /\ Coming(n) = <<>>
      /\ \A i \in 0..(n - 1) : Coming(i) = es[i + 1] \o Coming(i + 1)
  BY <1>4, <1>5, <1>6, FlattenFromIs
<1>8. ASSUME NEW i \in 0..(n - 1)
      PROVE  Coming(i) = (<<RequestUnit(script[i + 1])>> \o CRLF) \o AfterHead(i + 1, 0)
  <2> DEFINE r == script[i + 1]
             a == <<RequestUnit(r)>>
             c == CRLF
             f == HeadersLeft(r, 0)
             d == r.body
             t == Coming(i + 1)
  <2>1. i + 1 \in 1..n /\ i + 1 \in 0..n
    BY <1>3
  <2>2. r.headers \in Seq(Units) /\ d \in Seq(Units) /\ RequestUnit(r) \in Units
    BY <1>1, <2>1, RequestIs
  <2>3. a \in Seq(Units) /\ t \in Seq(Units)
    BY <1>7, <2>1, <2>2
  <2>4. c \in Seq(Units)
    <3>1. Unit("cr") \in Units /\ Unit("lf") \in Units
      BY DEF Units, CRLF
    <3> QED
      BY <3>1, CRLFIs
  <2>5. f \in Seq(Units)
        /\ f = FlattenSeq([m \in DOMAIN r.headers |-> <<r.headers[m]>> \o CRLF])
    <3>1. 0 \in 0..Len(r.headers)
      BY <2>2
    <3> QED
      BY <1>1, <2>1, <3>1, HeadersLeftIs
  <2>6. es[i + 1] = (((a \o c) \o f) \o c) \o d
    BY <1>4, <2>1, <2>5 DEF Encode
  <2>7. Coming(i) = es[i + 1] \o t
    BY <1>7
  <2>8. AfterHead(i + 1, 0) = f \o (c \o (d \o t))
    BY DEF AfterHead
  <2> HIDE DEF a, c, f, d, t
  <2>9. Cat(Cat(Cat(Cat(Cat(a, c), f), c), d), t) = Cat(Cat(a, c), Cat(f, Cat(c, Cat(d, t))))
    <3>1. a \in Seq(Units) /\ c \in Seq(Units) /\ f \in Seq(Units) /\ d \in Seq(Units)
          /\ t \in Seq(Units)
      BY <2>2, <2>3, <2>4, <2>5
    <3> QED
      BY ONLY <3>1, RegroupSix
  <2>10. Coming(i) = (a \o c) \o (f \o (c \o (d \o t)))
    BY ONLY <2>6, <2>7, <2>9 DEF Cat
  <2> QED
    BY <2>8, <2>10 DEF a, c
<1> QED
  BY <1>3, <1>7, <1>8

\* What follows the j-th header line: the next one, or the empty line and the
\* body; nothing in it can be taken for a request line.
LEMMA AfterHeadIs ==
    ASSUME ReadInv, NEW i \in 1..Len(script), NEW r, r = script[i]
    PROVE  /\ \A j \in 0..Len(r.headers) : AfterHead(i, j) \in Seq(Units)
           /\ \A j \in 0..(Len(r.headers) - 1) :
                AfterHead(i, j) = (<<r.headers[j + 1]>> \o CRLF) \o AfterHead(i, j + 1)
           /\ AfterHead(i, Len(r.headers)) = CRLF \o (r.body \o Coming(i))
           /\ \A j \in 0..Len(r.headers) : AfterHead(i, j)[1].kind # "request"
           /\ r.body \o Coming(i) \in Seq(Units)
           /\ r.body # <<>> => (r.body \o Coming(i))[1].kind # "request"
           /\ r.body = <<>> => r.body \o Coming(i) = Coming(i)
<1>1. script \in Scripts
  BY DEF ReadInv, ReadTypes
<1>2. /\ r.headers \in Seq(Units) /\ r.body \in Seq(Units)
      /\ r.body # <<>> => r.body[1].kind # "request"
  BY <1>1, RequestIs
<1>3. \A m \in 1..Len(r.headers) :
         r.headers[m] \in Units /\ r.headers[m].kind \in {"header", "text"}
  BY <1>1, RequestIs
<1>4. Coming(i) \in Seq(Units)
  <2>1. i \in 0..Len(script)
    OBVIOUS
  <2> QED
    BY <2>1, ComingIs
<1>5. CRLF \in Seq(Units) /\ Len(CRLF) = 2 /\ CRLF[1] = Unit("cr")
  <2>1. Unit("cr") \in Units /\ Unit("lf") \in Units
    BY DEF Units, CRLF
  <2> QED
    BY <2>1, CRLFIs
<1>6. PICK c : c = CRLF
  OBVIOUS
<1>7. PICK b : b = r.body \o Coming(i)
  OBVIOUS
<1>8. /\ b \in Seq(Units)
      /\ r.body # <<>> => b[1].kind # "request"
      /\ r.body = <<>> => b = Coming(i)
  <2> DEFINE d == r.body
             t == Coming(i)
  <2> HIDE DEF d, t
  <2>1. d \in Seq(Units) /\ t \in Seq(Units) /\ b = d \o t
    BY <1>2, <1>4, <1>7 DEF d, t
  <2>2. b \in Seq(Units) /\ Joins(b, d, t, Len(d))
    BY <2>1, ConcatAt
  <2>3. d # <<>> => b[1] = d[1]
    <3>1. d # <<>> => 1 \in 1..Len(d)
      BY <2>1
    <3> QED
      BY <2>2, <3>1 DEF Joins
  <2>4. d = <<>> => b = t
    BY <2>1
  <2> QED
    BY <1>2, <2>2, <2>3, <2>4 DEF d, t
<1>9. PICK e : e = c \o b
  OBVIOUS
<1>10. e \in Seq(Units) /\ Len(e) \in Nat /\ Len(e) > 0 /\ e[1] = Unit("cr")
  <2>1. c \in Seq(Units) /\ Len(c) = 2 /\ c[1] = Unit("cr")
    BY <1>5, <1>6
  <2>2. e \in Seq(Units) /\ Joins(e, c, b, 2)
    BY <1>8, <1>9, <2>1, ConcatAt
  <2> QED
    BY <2>1, <2>2 DEF Joins
<1>11. \A j : AfterHead(i, j) = HeadersLeft(r, j) \o e
  BY <1>6, <1>7, <1>9 DEF AfterHead
<1> DEFINE n == Len(r.headers)
<1>12. n \in Nat
  BY <1>2
<1>13. /\ \A j \in 0..n : HeadersLeft(r, j) \in Seq(Units)
       /\ HeadersLeft(r, n) = <<>>
       /\ \A j \in 0..(n - 1) :
            HeadersLeft(r, j) = (<<r.headers[j + 1]>> \o c) \o HeadersLeft(r, j + 1)
  BY <1>1, <1>6, HeadersLeftIs
<1> HIDE DEF n
<1>14. \A j \in 0..n : AfterHead(i, j) \in Seq(Units)
  BY <1>10, <1>11, <1>13, ConcatProperties
<1>15. AfterHead(i, n) = e
  <2>1. <<>> \o e = e
    BY <1>10
  <2> QED
    BY <1>11, <1>13, <2>1
<1>16. ASSUME NEW j \in 0..(n - 1)
       PROVE  AfterHead(i, j) = (<<r.headers[j + 1]>> \o c) \o AfterHead(i, j + 1)
  <2> DEFINE h == r.headers[j + 1]
             a == <<h>> \o c
             q == HeadersLeft(r, j + 1)
  <2>1. j + 1 \in 1..n /\ j + 1 \in 0..n
    BY <1>12
  <2>2. h \in Units
    BY <1>3, <2>1 DEF n
  <2>3. a \in Seq(Units)
    <3>1. <<h>> \in Seq(Units) /\ c \in Seq(Units)
      BY <1>5, <1>6, <2>2
    <3> QED
      BY <3>1, ConcatProperties
  <2>4. q \in Seq(Units)
    BY <1>13, <2>1
  <2>5. AfterHead(i, j) = (a \o q) \o e /\ AfterHead(i, j + 1) = q \o e
    BY <1>11, <1>13
  <2> HIDE DEF a, q
  <2>6. (a \o q) \o e = a \o (q \o e)
    BY ONLY <1>10, <2>3, <2>4, ConcatAssociative
  <2> QED
    BY <2>5, <2>6 DEF a
<1>17. ASSUME NEW j \in 0..n PROVE AfterHead(i, j)[1].kind # "request"
  <2>1. CASE j = n
    <3>1. Unit("cr").kind # "request"
      BY DEF Unit
    <3> QED
      BY <1>10, <1>15, <2>1, <3>1
  <2>2. CASE j # n
    <3>1. j \in 0..(n - 1) /\ j + 1 \in 1..n /\ j + 1 \in 0..n
      BY <1>12, <2>2
    <3>2. PICK h \in Units : h = r.headers[j + 1] /\ h.kind \in {"header", "text"}
      BY <1>3, <3>1 DEF n
    <3>3. PICK t \in Seq(Units) : t = AfterHead(i, j + 1)
      BY <1>14, <3>1
    <3>4. AfterHead(i, j) = (<<h>> \o c) \o t
      BY <1>16, <3>1, <3>2, <3>3
    <3>5. c \in Seq(Units) /\ Len(c) = 2
      BY <1>5, <1>6
    <3>6. AfterHead(i, j)[1] = h
      BY <3>4, <3>5, UnitThenEnd
    <3> QED
      BY <3>2, <3>6
  <2> QED
    BY <2>1, <2>2
<1>18. AfterHead(i, n) = c \o b
  BY <1>9, <1>15
<1> QED
  BY <1>6, <1>7, <1>8, <1>14, <1>16, <1>17, <1>18 DEF n

\* The lines that belong to a request: those before the first without a colon.
LEMMA OwnHeadersIs ==
    ASSUME NEW r, r.headers \in Seq(Units), NEW j \in 0..Len(r.headers),
           \A m \in 1..j : r.headers[m].kind = "header"
    PROVE  /\ OwnHeaders(r) \in Seq(Units)
           /\ j = Len(r.headers) => OwnHeaders(r) = SubSeq(r.headers, 1, j)
                                    /\ OwnHeaders(r) = r.headers
           /\ j < Len(r.headers) /\ r.headers[j + 1].kind # "header" =>
                OwnHeaders(r) = SubSeq(r.headers, 1, j)
<1> DEFINE h == r.headers
           n == Len(h)
           ends == {m \in DOMAIN h : h[m].kind # "header"}
<1>1. DOMAIN h = 1..n /\ n \in Nat /\ h \in Seq(Units)
  OBVIOUS
<1>2. OwnHeaders(r) = IF ends = {} THEN h ELSE SubSeq(h, 1, Min(ends) - 1)
  BY DEF OwnHeaders
<1>3. ends \subseteq Nat /\ ends \subseteq 1..n
  BY <1>1
<1>4. ends # {} => Min(ends) \in ends /\ \A y \in ends : Min(ends) <= y
  BY <1>3, MinOfNats
<1>5. OwnHeaders(r) \in Seq(Units)
  <2>1. CASE ends = {}
    BY <1>1, <1>2, <2>1
  <2>2. CASE ends # {}
    <3> HIDE DEF ends
    <3>1. PICK m \in 1..n : m = Min(ends)
      BY <1>3, <1>4, <2>2
    <3>2. m - 1 \in 0..n
      BY <1>1
    <3>3. SubSeq(h, 1, m - 1) \in Seq(Units)
      BY <1>1, <3>2
    <3> QED
      BY <1>2, <2>2, <3>1, <3>3
  <2> QED
    BY <2>1, <2>2
<1>6. CASE j = n
  <2>1. ends = {}
    BY <1>1, <1>6
  <2>2. SubSeq(h, 1, n) = h
    BY <1>1
  <2>3. OwnHeaders(r) = h
    BY <1>2, <2>1
  <2> QED
    BY <1>5, <1>6, <2>2, <2>3
<1>7. CASE j < n /\ h[j + 1].kind # "header"
  <2>1. j + 1 \in ends
    BY <1>1, <1>7
  <2>2. \A m \in ends : j + 1 <= m
    BY <1>1
  <2> HIDE DEF ends
  <2>3. Min(ends) \in Nat /\ Min(ends) <= j + 1 /\ j + 1 <= Min(ends)
    BY <1>3, <1>4, <2>1, <2>2
  <2>4. Min(ends) - 1 = j
    BY <2>3
  <2>5. OwnHeaders(r) = SubSeq(h, 1, j)
    BY <1>2, <2>1, <2>4
  <2> QED
    BY <1>5, <1>7, <2>5
<1> QED
  BY <1>5, <1>6, <1>7

-----------------------------------------------------------------------------
(***************************************************************************)
(* The headers that a request shows: the last line of each field.          *)
(***************************************************************************)
\* No lines, no headers.
LEMMA HeaderMapEmpty == HeaderMap(<<>>) = <<>>
<1>1. {h.field : h \in ToSet(<<>>)} = {}
  BY DEF ToSet
<1>2. {h.field : h \in ToSet(<<>>)} = 1..0
  BY <1>1
<1> DEFINE v(f) == <<>>[Max({k \in DOMAIN <<>> : <<>>[k].field = f})].value
<1>3. HeaderMap(<<>>) = [f \in 1..0 |-> v(f)]
  BY <1>2 DEF HeaderMap
<1> HIDE DEF v
<1> QED
  BY <1>3

\* The last of the lines hs that names the field f.
LastAt(hs, f) == Max({k \in DOMAIN hs : hs[k].field = f})
Fields(hs) == {h.field : h \in ToSet(hs)}

\* gs is the n lines hs and one more.
OneMoreLine(gs, hs, h, n) ==
    /\ n \in Nat /\ DOMAIN hs = 1..n /\ DOMAIN gs = 1..(n + 1) /\ gs[n + 1] = h
    /\ \A k \in 1..n : gs[k] = hs[k]

\* One more line takes the place of those with its field.
LEMMA LastAtGrows ==
    ASSUME NEW hs, NEW h, NEW f, NEW gs, NEW n, OneMoreLine(gs, hs, h, n)
    PROVE  /\ f = h.field => gs[LastAt(gs, f)] = h
           /\ f # h.field /\ f \in Fields(hs) => gs[LastAt(gs, f)] = hs[LastAt(hs, f)]
<1> DEFINE A == {k \in DOMAIN hs : hs[k].field = f}
           B == {k \in DOMAIN gs : gs[k].field = f}
<1>1. n \in Nat /\ DOMAIN hs = 1..n /\ DOMAIN gs = 1..(n + 1) /\ gs[n + 1] = h
      /\ \A k \in 1..n : gs[k] = hs[k]
  BY DEF OneMoreLine
<1>2. B \subseteq 0..(n + 1) /\ A \subseteq 0..n
  BY <1>1
<1>3. LastAt(gs, f) = Max(B) /\ LastAt(hs, f) = Max(A)
  BY DEF LastAt
<1>4. CASE f = h.field
  <2>1. n + 1 \in B
    BY <1>1, <1>4
  <2> HIDE DEF B
  <2>2. Max(B) \in 0..(n + 1) /\ Max(B) >= n + 1
    <3>1. n + 1 \in Nat
      BY <1>1
    <3>2. Max(B) \in B /\ \A y \in B : Max(B) >= y
      BY <1>2, <2>1, <3>1, MaxOfNats
    <3> QED
      BY <1>2, <2>1, <3>2
  <2>3. Max(B) = n + 1
    BY <1>1, <2>2
  <2> QED
    BY <1>1, <1>3, <1>4, <2>3
<1>5. CASE f # h.field /\ f \in Fields(hs)
  <2>1. A = B
    <3>1. \A k : k \in 1..(n + 1) <=> k \in 1..n \/ k = n + 1
      BY <1>1
    <3> QED
      BY <1>1, <1>5, <3>1
  <2>2. A # {}
    BY <1>5 DEF Fields, ToSet
  <2> HIDE DEF A, B
  <2>3. Max(A) \in A
    BY <1>1, <1>2, <2>2, MaxOfNats
  <2>4. Max(A) \in 1..n
    BY <1>1, <2>3 DEF A
  <2> QED
    BY <1>1, <1>3, <1>5, <2>1, <2>4
<1> QED
  BY <1>4, <1>5

\* Storing one more header in headers_ is seeing one more line.
LEMMA AddHeaderIs ==
    ASSUME NEW H, NEW hs \in Seq(H), NEW h \in H
    PROVE  AddHeader(HeaderMap(hs), h) = HeaderMap(Append(hs, h))
<1>1. PICK gs : gs = Append(hs, h)
  OBVIOUS
<1>a. OneMoreLine(gs, hs, h, Len(hs))
  BY <1>1 DEF OneMoreLine
<1>2. Fields(gs) = Fields(hs) \cup {h.field}
  <2>1. ToSet(gs) = ToSet(hs) \cup {h}
    <3>1. Len(hs) \in Nat /\ DOMAIN hs = 1..Len(hs) /\ DOMAIN gs = 1..(Len(hs) + 1)
          /\ gs[Len(hs) + 1] = h /\ \A k \in 1..Len(hs) : gs[k] = hs[k]
      BY <1>1
    <3>2. \A k : k \in 1..(Len(hs) + 1) <=> k \in 1..Len(hs) \/ k = Len(hs) + 1
      BY <3>1
    <3> QED
      BY <3>1, <3>2 DEF ToSet
  <2> QED
    BY <2>1 DEF Fields
<1>3. /\ HeaderMap(hs) = [f \in Fields(hs) |-> hs[LastAt(hs, f)].value]
      /\ HeaderMap(gs) = [f \in Fields(gs) |-> gs[LastAt(gs, f)].value]
  BY DEF HeaderMap, Fields, LastAt
<1>4. AddHeader(HeaderMap(hs), h)
        = [f \in {h.field} \cup Fields(hs) |->
             IF f = h.field THEN h.value ELSE hs[LastAt(hs, f)].value]
  <2> DEFINE m == HeaderMap(hs)
  <2>1. DOMAIN m = Fields(hs) /\ \A f \in Fields(hs) : m[f] = hs[LastAt(hs, f)].value
    BY <1>3
  <2>2. AddHeader(m, h) = [f \in {h.field} \cup DOMAIN m |->
                              IF f = h.field THEN h.value ELSE m[f]]
    BY DEF AddHeader
  <2> HIDE DEF m
  <2> QED
    BY <2>1, <2>2 DEF m
<1>5. \A f \in Fields(gs) :
         gs[LastAt(gs, f)].value
           = IF f = h.field THEN h.value ELSE hs[LastAt(hs, f)].value
  <2> TAKE f \in Fields(gs)
  <2>1. CASE f = h.field
    <3>1. gs[LastAt(gs, f)] = h
      BY <1>a, <2>1, LastAtGrows
    <3> QED
      BY <2>1, <3>1
  <2>2. CASE f # h.field
    <3>1. f \in Fields(hs)
      BY <1>2, <2>2
    <3>2. gs[LastAt(gs, f)] = hs[LastAt(hs, f)]
      BY <1>a, <2>2, <3>1, LastAtGrows
    <3> QED
      BY <2>2, <3>2
  <2> QED
    BY <2>1, <2>2
<1>6. HeaderMap(gs) = [f \in {h.field} \cup Fields(hs) |->
             IF f = h.field THEN h.value ELSE hs[LastAt(hs, f)].value]
  <2>1. Fields(gs) = {h.field} \cup Fields(hs)
    BY <1>2
  <2> QED
    BY <1>3, <1>5, <2>1
<1> QED
  BY <1>1, <1>4, <1>6

\* The lines of one more request.
LEMMA OwnLinesIs ==
    ASSUME ReadInv
    PROVE  /\ OwnLines(0) = <<>>
           /\ \A i \in 0..Len(script) : OwnLines(i) \in Seq(Units)
           /\ \A i \in 0..(Len(script) - 1) :
                OwnLines(i + 1) = OwnLines(i) \o OwnHeaders(script[i + 1])
           /\ \A j \in 1..Len(script) : OwnHeaders(script[j]) \in Seq(Units)
<1>1. script \in Scripts /\ Len(script) \in Nat
  BY ComingIs DEF ReadInv, ReadTypes
<1>2. \A j \in 1..Len(script) : OwnHeaders(script[j]) \in Seq(Units)
  <2> TAKE j \in 1..Len(script)
  <2>1. script[j].headers \in Seq(Units)
    BY <1>1, RequestIs
  <2>2. 0 \in 0..Len(script[j].headers)
    BY <2>1
  <2> QED
    BY <2>1, <2>2, OwnHeadersIs
<1>3. ASSUME NEW i \in 0..Len(script)
      PROVE  OwnLines(i) \in Seq(Units)
  <2> DEFINE f == [j \in 1..i |-> OwnHeaders(script[j])]
  <2>1. \A j \in 1..i : OwnHeaders(script[j]) \in Seq(Units)
    BY <1>1, <1>2
  <2>2. f \in Seq(Seq(Units))
    BY <2>1
  <2> HIDE DEF f
  <2>3. FlattenSeq(f) \in Seq(Units)
    BY <2>2, FlattenType
  <2> QED
    BY <2>3 DEF OwnLines, f
<1>4. ASSUME NEW i \in 0..(Len(script) - 1)
      PROVE  OwnLines(i + 1) = OwnLines(i) \o OwnHeaders(script[i + 1])
  <2> DEFINE f == [j \in 1..i |-> OwnHeaders(script[j])]
             g == [j \in 1..(i + 1) |-> OwnHeaders(script[j])]
             x == OwnHeaders(script[i + 1])
  <2>1. i \in Nat /\ i + 1 \in 1..Len(script) /\ i + 1 \in 1..(i + 1)
    BY <1>1
  <2>2. x \in Seq(Units)
    BY <1>2, <2>1
  <2>3. \A j \in 1..i : f[j] \in Seq(Units)
    BY <1>1, <1>2
  <2>4. Grows(g, f, i, x)
    <3>1. \A j \in 1..i : j \in 1..(i + 1)
      BY <2>1
    <3> QED
      BY <2>1, <3>1 DEF Grows
  <2> HIDE DEF f, g, x
  <2>5. FlattenSeq(g) = FlattenSeq(f) \o x
    BY <2>1, <2>2, <2>3, <2>4, FlattenGrow
  <2> QED
    BY <2>5 DEF OwnLines, f, g, x
<1>5. OwnLines(0) = <<>>
  <2>1. [j \in 1..0 |-> OwnHeaders(script[j])] = <<>>
    OBVIOUS
  <2> QED
    BY <2>1, FlattenEmpty DEF OwnLines
<1> QED
  BY <1>2, <1>3, <1>4, <1>5

-----------------------------------------------------------------------------
(***************************************************************************)
(* Where the parser stands in the client's requests.                       *)
(***************************************************************************)
\* The i-th request as it is handed over when the lines hs were seen, and what
\* a request_ is.
Parsed(i, hs) ==
    [method |-> set_method(script[i].method), version |-> ParseVersion(script[i].version),
     path |-> script[i].path, headers |-> HeaderMap(hs)]
IsRequest(q) ==
    q = [method |-> q.method, version |-> q.version, path |-> q.path, headers |-> q.headers]

\* The first n request lines are accepted.
Accepted(n) ==
    /\ n \in 0..Len(script)
    /\ \A i \in 1..n : GoodLine(script[i]) /\ (i < n => Proper(script[i]))

\* What is to come does not begin with a request line: the parser refuses it.
Stuck == Rest # <<>> => Rest[1].kind # "request"

\* Where the parser stands in the client's requests when n of them were handled:
\* before a request line, among the headers of the n-th, after its last line.
AtLine(n) ==
    \/ Stuck
    \/ /\ \A i \in 1..n : Proper(script[i])
       /\ Rest = Coming(n)
       /\ state # "CONNECTING" => context.request_.headers = HeaderMap(OwnLines(n))

InHeaders(n) ==
    /\ Accepted(n)
    /\ \E j \in 0..Len(script[n].headers) :
        /\ \A m \in 1..j : script[n].headers[m].kind = "header"
        /\ Rest = AfterHead(n, j)
        /\ context.request_ = Parsed(n, OwnLines(n - 1) \o SubSeq(script[n].headers, 1, j))

AtEnd(n) ==
    /\ Accepted(n)
    /\ context.request_ = Parsed(n, OwnLines(n))
    /\ Stuck \/ (Proper(script[n]) /\ Rest = Coming(n))

HandledIs(n) == \A i \in 1..n : handled[i] = Parsed(i, OwnLines(i))

ParseAt(n) ==
    /\ Accepted(n)
    /\ HandledIs(n)
    /\ state = "CONNECTING" => n = 0 /\ AtLine(n)
    /\ state # "CONNECTING" =>
        /\ IsRequest(context.request_)
        /\ context.state_ = "ExpectRequestLine" => AtLine(n)
        /\ context.state_ = "ExpectHeaders" => InHeaders(n + 1)
        /\ context.state_ = "Done" => AtEnd(n + 1)

ParseInv == ParseAt(Len(handled))

\* request_ with all but its headers set.
With(q, m, p, w) == [q EXCEPT !.method = m, !.path = p, !.version = w]

\* The fields of a request_ after an assignment to all but its headers.
LEMMA FieldsSet ==
    ASSUME NEW q, IsRequest(q), NEW m, NEW p, NEW w
    PROVE  With(q, m, p, w)
             = [method |-> m, version |-> w, path |-> p, headers |-> q.headers]
<1>1. PICK q1, q2, q3, q4 :
        q = [method |-> q1, version |-> q2, path |-> q3, headers |-> q4]
  BY DEF IsRequest
<1> DEFINE a == [method |-> m, version |-> q2, path |-> q3, headers |-> q4]
           b == [method |-> m, version |-> q2, path |-> p, headers |-> q4]
<1>2. [q EXCEPT !.method = m] = a
  BY <1>1
<1>3. [a EXCEPT !.path = p] = b
  OBVIOUS
<1>4. [b EXCEPT !.version = w] = [method |-> m, version |-> w, path |-> p, headers |-> q4]
  OBVIOUS
<1>5. With(q, m, p, w) = [[[q EXCEPT !.method = m] EXCEPT !.path = p] EXCEPT !.version = w]
  BY <1>1 DEF With
<1> HIDE DEF a, b
<1>6. With(q, m, p, w) = [b EXCEPT !.version = w]
  BY <1>2, <1>3, <1>5, Zenon
<1>7. q.headers = q4
  BY <1>1
<1> QED
  BY <1>4, <1>6, <1>7

\* A request line fills request_ as far as it goes and leaves the headers.
LEMMA ParsedRequestIs ==
    ASSUME NEW q, IsRequest(q), NEW line
    PROVE  IsRequest(ParsedRequest(q, line)) /\ ParsedRequest(q, line).headers = q.headers
<1> DEFINE none == {u \in ToSet(line) : u.kind # "text"} = {}
           other == Len(line) > 1 \/ line[1].kind # "request"
           m == set_method(line[1].method)
           p == line[1].path
           w == IF line[1].version.size = 8 THEN ParseVersion(line[1].version) ELSE q.version
           a == [q EXCEPT !.method = "INVALID"]
           b == [q EXCEPT !.method = m]
           c == With(q, m, p, w)
<1>1. ParsedRequest(q, line) \in {q, a, b, c}
  <2>1. ParsedRequest(q, line)
          = CASE none -> q [] other -> a [] OTHER -> IF m = "INVALID" THEN b ELSE c
    BY DEF ParsedRequest, With
  <2> HIDE DEF none, other, a, b, c, m
  <2> QED
    BY <2>1
<1> HIDE DEF m, p, w
<1>2. IsRequest(a) /\ a.headers = q.headers
  BY DEF IsRequest
<1>3. IsRequest(b) /\ b.headers = q.headers
  BY DEF IsRequest
<1>4. IsRequest(c) /\ c.headers = q.headers
  <2>1. c = [method |-> m, version |-> w, path |-> p, headers |-> q.headers]
    BY FieldsSet
  <2> HIDE DEF c
  <2> QED
    BY <2>1 DEF IsRequest
<1> QED
  BY <1>1, <1>2, <1>3, <1>4

\* An accepted line sets the method, the path and the version.
LEMMA GoodLineParsed ==
    ASSUME NEW r, GoodLine(r), NEW q, IsRequest(q)
    PROVE  ParsedRequest(q, <<RequestUnit(r)>>)
             = [method |-> set_method(r.method), version |-> ParseVersion(r.version),
                path |-> r.path, headers |-> q.headers]
<1> DEFINE u == RequestUnit(r)
           line == <<u>>
           m == set_method(r.method)
           w == ParseVersion(r.version)
<1>1. /\ u.kind = "request" /\ u.method = r.method /\ u.path = r.path
      /\ u.version = r.version
  BY DEF RequestUnit
<1> HIDE DEF u
<1>2. Len(line) = 1 /\ line[1] = u
  OBVIOUS
<1>3. m # "INVALID" /\ w # "UNKNOWN"
  <2>1. ParseRequestLine(line)
    BY DEF GoodLine, u
  <2> QED
    BY <1>1, <1>2, <2>1 DEF ParseRequestLine
<1>4. r.version.size = 8
  BY <1>3 DEF ParseVersion
<1>5. {x \in ToSet(line) : x.kind # "text"} # {}
  <2>1. line[1] \in ToSet(line)
    BY <1>2 DEF ToSet
  <2> QED
    BY <1>1, <1>2, <2>1
<1> DEFINE p == r.path
           c == With(q, m, p, w)
<1>6. ParsedRequest(q, line) = c
  <2> DEFINE none == {x \in ToSet(line) : x.kind # "text"} = {}
             other == Len(line) > 1 \/ line[1].kind # "request"
             a == [q EXCEPT !.method = "INVALID"]
             b == [q EXCEPT !.method = m]
  <2>1. ParsedRequest(q, line)
          = CASE none -> q
              [] other -> a
              [] OTHER -> IF set_method(line[1].method) = "INVALID"
                          THEN [q EXCEPT !.method = set_method(line[1].method)]
                          ELSE [q EXCEPT !.method = set_method(line[1].method),
                                  !.path = line[1].path,
                                  !.version = IF line[1].version.size = 8
                                              THEN ParseVersion(line[1].version)
                                              ELSE @]
    BY DEF ParsedRequest
  <2>2. ~none /\ ~other
    BY <1>1, <1>2, <1>5
  <2>3. /\ set_method(line[1].method) = m /\ line[1].path = p
        /\ line[1].version.size = 8 /\ ParseVersion(line[1].version) = w
    BY <1>1, <1>2, <1>4
  <2> HIDE DEF none, other, m, w, p, a, b, line
  <2> QED
    BY <1>3, <2>1, <2>2, <2>3 DEF With
<1> HIDE DEF m, w, p
<1>7. c = [method |-> m, version |-> w, path |-> p, headers |-> q.headers]
  BY FieldsSet
<1> QED
  BY <1>6, <1>7 DEF m, w, p, line, u

\* What the script says does not change.
LEMMA ScriptStays ==
    ASSUME UNCHANGED script
    PROVE  /\ \A i : Coming(i)' = Coming(i) /\ OwnLines(i)' = OwnLines(i)
                     /\ (Accepted(i)' <=> Accepted(i))
           /\ \A i, j : AfterHead(i, j)' = AfterHead(i, j)
           /\ \A i, hs : Parsed(i, hs)' = Parsed(i, hs)
<1>1. \A i : Coming(i)' = Coming(i)
  BY DEF Coming
<1>2. \A i : OwnLines(i)' = OwnLines(i)
  BY DEF OwnLines
<1>3. \A i : Accepted(i)' <=> Accepted(i)
  BY DEF Accepted
<1>4. \A i, j : AfterHead(i, j)' = AfterHead(i, j)
  BY <1>1 DEF AfterHead
<1>5. \A i, hs : Parsed(i, hs)' = Parsed(i, hs)
  BY DEF Parsed
<1> QED
  BY <1>1, <1>2, <1>3, <1>4, <1>5

\* What a step that handles no request leaves to be shown.
LEMMA HandledStay ==
    ASSUME ParseInv, UNCHANGED <<script, handled>>, NEW n, n = Len(handled),
           (state # "CONNECTING" =>
              /\ IsRequest(context.request_)
              /\ context.state_ = "ExpectRequestLine" => AtLine(n)
              /\ context.state_ = "ExpectHeaders" => InHeaders(n + 1)
              /\ context.state_ = "Done" => AtEnd(n + 1))',
           (state = "CONNECTING" => n = 0 /\ AtLine(n))'
    PROVE  ParseInv'
<1>1. ParseAt(n)
  BY DEF ParseInv
<1>2. Accepted(n)'
  BY <1>1, ScriptStays DEF ParseAt
<1>3. HandledIs(n)'
  <2>1. HandledIs(n)
    BY <1>1 DEF ParseAt
  <2> QED
    BY <2>1 DEF HandledIs, Parsed, OwnLines
<1>4. ParseAt(n)'
  BY <1>2, <1>3 DEF ParseAt
<1>5. n = Len(handled')
  OBVIOUS
<1> QED
  BY <1>4, <1>5 DEF ParseInv

\* A step of the parser is one of a connection that was made.
LEMMA Parsing ==
    ASSUME ReadInv, pc # "idle"
    PROVE  state # "CONNECTING" /\ DOMAIN context = {"state_", "request_"}
  BY DEF ReadInv, ContextInv

\* The parts of the context after a step.
LEMMA ContextSet ==
    ASSUME DOMAIN context = {"state_", "request_"}, NEW a, NEW q
    PROVE  /\ [context EXCEPT !.state_ = a].state_ = a
           /\ [context EXCEPT !.state_ = a].request_ = context.request_
           /\ [context EXCEPT !.request_ = q].state_ = context.state_
           /\ [context EXCEPT !.request_ = q].request_ = q
           /\ [context EXCEPT !.state_ = a, !.request_ = q].state_ = a
           /\ [context EXCEPT !.state_ = a, !.request_ = q].request_ = q
  OBVIOUS

\* What is to come changes with the line that is passed only.
LEMMA RestStays ==
    ASSUME UNCHANGED <<stream, consumed>>
    PROVE  Rest' = Rest /\ (Stuck' <=> Stuck)
  BY DEF Rest, Stuck

\* A step that parses nothing.
LEMMA QuietParse ==
    ASSUME ParseInv, UNCHANGED <<script, stream, consumed, handled, context>>,
           state # "CONNECTING", state' # "CONNECTING"
    PROVE  ParseInv'
<1>1. PICK n : n = Len(handled)
  OBVIOUS
<1>2. ParseAt(n)
  BY <1>1 DEF ParseInv
<1>3. AtLine(n) => AtLine(n)'
  <2>1. Rest' = Rest /\ (Stuck' <=> Stuck) /\ Coming(n)' = Coming(n)
        /\ OwnLines(n)' = OwnLines(n)
    BY RestStays, ScriptStays
  <2> QED
    BY <2>1 DEF AtLine
<1>4. InHeaders(n + 1) => InHeaders(n + 1)'
  BY DEF InHeaders, Accepted, Rest, AfterHead, Coming, Parsed, OwnLines
<1>5. AtEnd(n + 1) => AtEnd(n + 1)'
  BY DEF AtEnd, Accepted, Stuck, Rest, Coming, Parsed, OwnLines
<1> QED
  BY <1>1, <1>2, <1>3, <1>4, <1>5, HandledStay DEF ParseAt

\* The line the parser refuses, when what is to come begins with no request line.
LEMMA StuckRefuses ==
    ASSUME ReadInv, HasCRLF(input_buf_), Stuck
    PROVE  ~ParseRequestLine(Line(input_buf_))
<1>1. PICK k \in Nat : /\ FirstEnd(Rest, k) /\ Line(input_buf_) = SubSeq(Rest, 1, k)
                       /\ Len(Line(input_buf_)) = k
  BY LineOfRest
<1>2. Rest \in Seq(Units) /\ Len(Rest) \in Nat
  BY RestType
<1>3. k + 2 <= Len(Rest)
  BY <1>1 DEF FirstEnd, EndsAt
<1>4. SUFFICES ASSUME ParseRequestLine(Line(input_buf_)) PROVE FALSE
  OBVIOUS
<1>5. k = 1 /\ Line(input_buf_)[1].kind = "request"
  BY <1>1, <1>4 DEF ParseRequestLine
<1>6. SubSeq(Rest, 1, 1)[1] = Rest[1]
  BY <1>2, <1>3, <1>5
<1>7. Rest # <<>>
  BY <1>2, <1>3
<1> QED
  BY <1>1, <1>5, <1>6, <1>7 DEF Stuck

\* Passing a line of one unit.
LEMMA PassUnit ==
    ASSUME ReadInv, HasCRLF(input_buf_), PassLine, UNCHANGED stream,
           NEW u \in Units, u # Unit("cr"), NEW t \in Seq(Units), Rest = LineThen(u, t)
    PROVE  Line(input_buf_) = <<u>> /\ Rest' = t
<1>1. PICK k \in Nat : /\ FirstEnd(Rest, k) /\ Line(input_buf_) = SubSeq(Rest, 1, k)
                       /\ Len(Line(input_buf_)) = k
  BY LineOfRest
<1>2. Unit("cr") \in Units /\ Unit("lf") \in Units
  BY DEF Units, CRLF
<1>3. PICK s : s = Rest
  OBVIOUS
<1>4. s = LineThen(u, t) /\ FirstEnd(s, k)
  BY <1>1, <1>3
<1>5. k = 1 /\ SubSeq(s, 1, k) = <<u>> /\ SubSeq(s, k + 3, Len(s)) = t
  BY <1>2, <1>4, UnitLine
<1>6. Rest' = SubSeq(Rest, k + 3, Len(Rest))
  BY <1>1, RestAfterLine
<1> QED
  BY <1>1, <1>3, <1>5, <1>6

\* Passing an empty line.
LEMMA PassEmpty ==
    ASSUME ReadInv, HasCRLF(input_buf_), PassLine, UNCHANGED stream,
           NEW t \in Seq(Units), Rest = EmptyThen(t)
    PROVE  Line(input_buf_) = <<>> /\ Rest' = t
<1>1. PICK k \in Nat : /\ FirstEnd(Rest, k) /\ Line(input_buf_) = SubSeq(Rest, 1, k)
                       /\ Len(Line(input_buf_)) = k
  BY LineOfRest
<1>2. Unit("cr") \in Units /\ Unit("lf") \in Units
  BY DEF Units, CRLF
<1>3. PICK s : s = Rest
  OBVIOUS
<1>4. s = EmptyThen(t) /\ FirstEnd(s, k)
  BY <1>1, <1>3
<1>5. k = 0 /\ SubSeq(s, 1, k) = <<>> /\ SubSeq(s, k + 3, Len(s)) = t
  BY <1>2, <1>4, EmptyLine
<1>6. Rest' = SubSeq(Rest, k + 3, Len(Rest))
  BY <1>1, RestAfterLine
<1> QED
  BY <1>1, <1>3, <1>5, <1>6

\* A request line that is accepted is the next request's.
LEMMA RequestLineParse ==
    ASSUME ReadInv, ParseInv, RequestLine
    PROVE  ParseInv'
<1>1. PICK n : n = Len(handled)
  OBVIOUS
<1>2. ParseAt(n)
  BY <1>1 DEF ParseInv
<1>3. /\ pc = "parse" /\ context.state_ = "ExpectRequestLine" /\ HasCRLF(input_buf_)
      /\ ParseRequestLine(Line(input_buf_)) /\ PassLine
      /\ UNCHANGED <<script, stream, state, handled>>
  BY DEF RequestLine, Turn
<1>4. state # "CONNECTING" /\ DOMAIN context = {"state_", "request_"}
  BY <1>3, Parsing
<1>5. IsRequest(context.request_) /\ AtLine(n) /\ Accepted(n)
  BY <1>2, <1>3, <1>4 DEF ParseAt
<1>6. ~Stuck
  BY <1>3, StuckRefuses
<1>7. /\ \A i \in 1..n : Proper(script[i])
      /\ Rest = Coming(n) /\ context.request_.headers = HeaderMap(OwnLines(n))
  BY <1>4, <1>5, <1>6 DEF AtLine
<1>9. n \in Nat /\ n + 1 \in 1..Len(script) /\ n \in 0..(Len(script) - 1)
  <2>1. n \in 0..Len(script) /\ Len(script) \in Nat /\ Coming(Len(script)) = <<>>
    BY <1>5, ComingIs DEF Accepted
  <2>2. Rest # <<>>
    BY <1>6 DEF Stuck
  <2> QED
    BY <1>7, <2>1, <2>2
<1> DEFINE r == script[n + 1]
           u == RequestUnit(r)
           t == AfterHead(n + 1, 0)
<1>10. script \in Scripts
  BY DEF ReadInv, ReadTypes
<1>11. u \in Units /\ r.headers \in Seq(Units) /\ u # Unit("cr") /\ t \in Seq(Units)
  <2>1. u \in Units /\ r.headers \in Seq(Units)
    BY <1>9, <1>10, RequestIs
  <2>2. 0 \in 0..Len(r.headers)
    BY <2>1
  <2>3. t \in Seq(Units)
    BY <1>9, <2>2, AfterHeadIs
  <2>4. u.kind = "request" /\ Unit("cr").kind = "cr"
    BY DEF RequestUnit, Unit
  <2> QED
    BY <2>1, <2>3, <2>4
<1>12. Line(input_buf_) = <<u>> /\ Rest' = t
  <2>1. PICK x : x = t
    OBVIOUS
  <2>2. Rest = LineThen(u, x)
    BY <1>7, <1>9, <2>1, ComingIs DEF LineThen
  <2>3. PICK y : y = u
    OBVIOUS
  <2>4. Line(input_buf_) = <<y>> /\ Rest' = x
    BY <1>3, <1>11, <2>1, <2>2, <2>3, PassUnit
  <2> QED
    BY <2>1, <2>3, <2>4
<1>13. GoodLine(r)
  BY <1>3, <1>12 DEF GoodLine
<1>14. Accepted(n + 1)
  <2>1. \A i \in 1..(n + 1) : i \in 1..n \/ i = n + 1
    BY <1>9
  <2>2. n + 1 \in 0..Len(script) /\ ~(n + 1 < n + 1)
    BY <1>9
  <2> QED
    BY <1>5, <1>7, <1>13, <2>1, <2>2 DEF Accepted
<1>15. /\ context'.state_ = "ExpectHeaders"
       /\ context'.request_ = ParsedRequest(context.request_, <<u>>)
  BY <1>4, <1>12 DEF RequestLine
<1>16. context'.request_ = Parsed(n + 1, OwnLines(n))
  BY <1>5, <1>7, <1>13, <1>15, GoodLineParsed DEF Parsed
<1>17. IsRequest(context'.request_)
  BY <1>16 DEF IsRequest, Parsed
<1>18. InHeaders(n + 1)'
  <2>1. OwnLines((n + 1) - 1) \o SubSeq(r.headers, 1, 0) = OwnLines(n)
    <3>1. SubSeq(r.headers, 1, 0) = <<>>
      BY SubSeqEmpty
    <3>2. OwnLines(n) \in Seq(Units)
      BY <1>9, OwnLinesIs
    <3>3. (n + 1) - 1 = n
      BY <1>9
    <3> QED
      BY <3>1, <3>2, <3>3
  <2>2. 0 \in 0..Len(r.headers) /\ 1..0 = {}
    BY <1>11
  <2>3. Rest' = AfterHead(n + 1, 0)'
    BY <1>3, <1>12, ScriptStays
  <2>4. Accepted(n + 1)'
    BY <1>3, <1>14, ScriptStays
  <2>5. (context.request_ = Parsed(n + 1, OwnLines((n + 1) - 1)
                                       \o SubSeq(script[n + 1].headers, 1, 0)))'
    BY <1>3, <1>16, <2>1 DEF Parsed, OwnLines
  <2> QED
    BY <1>3, <2>2, <2>3, <2>4, <2>5 DEF InHeaders
<1> QED
  BY <1>1, <1>3, <1>4, <1>15, <1>17, <1>18, HandledStay
\* A header line is the next of its request.
LEMMA HeaderLineParse ==
    ASSUME ReadInv, ParseInv, HeaderLine
    PROVE  ParseInv'
<1>1. PICK n : n = Len(handled) + 1
  OBVIOUS
<1>2. /\ pc = "parse" /\ context.state_ = "ExpectHeaders" /\ HasCRLF(input_buf_)
      /\ IsHeader(Line(input_buf_)) /\ PassLine
      /\ UNCHANGED <<script, stream, state, handled>>
  BY DEF HeaderLine, Turn
<1>3. state # "CONNECTING" /\ DOMAIN context = {"state_", "request_"}
  BY <1>2, Parsing
<1>4. IsRequest(context.request_) /\ InHeaders(n)
  BY <1>1, <1>2, <1>3 DEF ParseInv, ParseAt
<1>5. Accepted(n)
  BY <1>4 DEF InHeaders
<1>6. n \in 1..Len(script) /\ n - 1 \in 0..Len(script)
  <2>1. Len(handled) \in 0..Len(script) /\ n \in 0..Len(script) /\ Len(script) \in Nat
    BY <1>5, ComingIs DEF Accepted, ParseInv, ParseAt
  <2> QED
    BY <1>1, <2>1
<1>7. PICK r : r = script[n]
  OBVIOUS
<1>8. PICK j \in 0..Len(r.headers) :
        /\ \A m \in 1..j : r.headers[m].kind = "header"
        /\ Rest = AfterHead(n, j)
        /\ context.request_ = Parsed(n, OwnLines(n - 1) \o SubSeq(r.headers, 1, j))
  BY <1>4, <1>7 DEF InHeaders
<1>9. script \in Scripts
  BY DEF ReadInv, ReadTypes
<1>10. r.headers \in Seq(Units) /\ Len(r.headers) \in Nat
  BY <1>6, <1>7, <1>9, RequestIs
<1>11. CASE j = Len(r.headers)
  <2>1. PICK x \in Seq(Units) : x = r.body \o Coming(n)
    BY <1>6, <1>7, AfterHeadIs
  <2>2. Rest = EmptyThen(x)
    BY <1>6, <1>7, <1>8, <1>11, <2>1, AfterHeadIs DEF EmptyThen
  <2>3. Line(input_buf_) = <<>>
    BY <1>2, <2>2, PassEmpty
  <2> QED
    BY <1>2, <2>3 DEF IsHeader
<1>12. CASE j # Len(r.headers)
  <2>1. j \in 0..(Len(r.headers) - 1) /\ j + 1 \in 1..Len(r.headers)
        /\ j + 1 \in 0..Len(r.headers) /\ j \in Nat
    BY <1>10, <1>12
  <2>2. PICK h \in Units : h = r.headers[j + 1] /\ h.kind \in {"header", "text"}
    BY <1>6, <1>7, <1>9, <2>1, RequestIs
  <2>3. PICK x \in Seq(Units) : x = AfterHead(n, j + 1)
    BY <1>6, <1>7, <2>1, AfterHeadIs
  <2>4. Rest = LineThen(h, x)
    BY <1>6, <1>7, <1>8, <2>1, <2>2, <2>3, AfterHeadIs DEF LineThen
  <2>5. h # Unit("cr")
    BY <2>2 DEF Unit
  <2>6. Line(input_buf_) = <<h>> /\ Rest' = x
    BY <1>2, <2>4, <2>5, PassUnit
  <2>7. h.kind = "header"
    BY <1>2, <2>6 DEF IsHeader
  <2>8. \A m \in 1..(j + 1) : r.headers[m].kind = "header"
    <3>1. \A m \in 1..(j + 1) : m \in 1..j \/ m = j + 1
      BY <2>1
    <3> QED
      BY <1>8, <2>2, <2>7, <3>1
  <2>9. PICK os \in Seq(Units) : os = OwnLines(n - 1)
    BY <1>6, OwnLinesIs
  <2>10. PICK hs \in Seq(Units) : hs = SubSeq(r.headers, 1, j)
    <3>1. PICK g \in Seq(Units) : g = r.headers
      BY <1>10
    <3>2. SubSeq(g, 1, j) \in Seq(Units)
      BY <1>10, <2>1, <3>1
    <3> QED
      BY <3>1, <3>2
  <2>11. SubSeq(r.headers, 1, j + 1) = Append(hs, h)
    <3>1. PICK g \in Seq(Units) : g = r.headers
      BY <1>10
    <3>2. SubSeq(g, 1, j + 1) = Append(SubSeq(g, 1, j), g[j + 1])
      BY <2>1, <3>1, SubSeqGrow
    <3> QED
      BY <2>2, <2>10, <3>1, <3>2
  <2>12. Append(os \o hs, h) = os \o Append(hs, h) /\ os \o hs \in Seq(Units)
    <3>1. os \o hs \in Seq(Units)
      BY ConcatProperties
    <3>2. os \o Append(hs, h) = Append(os \o hs, h)
      BY ONLY os \in Seq(Units), hs \in Seq(Units), h \in Units, ConcatAppend
    <3> QED
      BY <3>1, <3>2
  <2>13. AddHeader(HeaderMap(os \o hs), h) = HeaderMap(Append(os \o hs, h))
    BY <2>12, AddHeaderIs
  <2>14. context.request_ = Parsed(n, os \o hs)
    BY <1>8, <2>9, <2>10
  <2>15. Line(input_buf_)[1] = h
    BY <2>6
  <2>16. /\ context'.state_ = "ExpectHeaders"
         /\ context'.request_ = [context.request_ EXCEPT !.headers = AddHeader(@, h)]
    BY <1>2, <1>3, <2>15 DEF HeaderLine
  <2>17. context'.request_ = Parsed(n, Append(os \o hs, h))
    <3> DEFINE m == HeaderMap(os \o hs)
               a == set_method(script[n].method)
               b == ParseVersion(script[n].version)
               c == script[n].path
    <3>1. context.request_ = [method |-> a, version |-> b, path |-> c, headers |-> m]
      BY <2>14 DEF Parsed
    <3> HIDE DEF m, a, b, c
    <3>2. context'.request_ = [method |-> a, version |-> b, path |-> c,
                               headers |-> AddHeader(m, h)]
      BY <2>16, <3>1
    <3> QED
      BY <2>13, <3>2 DEF Parsed, m, a, b, c
  <2>18. IsRequest(context'.request_)
    BY <2>17 DEF IsRequest, Parsed
  <2>19. InHeaders(n)'
    <3>1. Rest' = AfterHead(n, j + 1)'
      BY <1>2, <2>3, <2>6, ScriptStays
    <3>2. Accepted(n)'
      BY <1>2, <1>5, ScriptStays
    <3>3. OwnLines(n - 1) \o SubSeq(r.headers, 1, j + 1) = Append(os \o hs, h)
      BY <2>9, <2>11, <2>12
    <3>4. (context.request_ = Parsed(n, OwnLines(n - 1)
                                     \o SubSeq(script[n].headers, 1, j + 1)))'
      BY <1>2, <1>7, <2>17, <3>3 DEF Parsed, OwnLines
    <3> QED
      BY <1>2, <1>7, <2>1, <2>8, <3>1, <3>2, <3>4 DEF InHeaders
  <2>20. PICK p : p = Len(handled)
    OBVIOUS
  <2>21. n = p + 1
    BY <1>1, <2>20
  <2> QED
    BY <1>2, <1>3, <2>16, <2>18, <2>19, <2>20, <2>21, HandledStay
<1> QED
  BY <1>11, <1>12

\* The line that ends the headers is the first without a colon, or the empty
\* one after all of them.
LEMMA LastLineParse ==
    ASSUME ReadInv, ParseInv, LastLine
    PROVE  ParseInv'
<1>1. PICK n : n = Len(handled) + 1
  OBVIOUS
<1>2. /\ pc = "parse" /\ context.state_ = "ExpectHeaders" /\ HasCRLF(input_buf_)
      /\ ~IsHeader(Line(input_buf_)) /\ PassLine
      /\ UNCHANGED <<script, stream, state, handled>>
  BY DEF LastLine, Turn
<1>3. state # "CONNECTING" /\ DOMAIN context = {"state_", "request_"}
  BY <1>2, Parsing
<1>4. IsRequest(context.request_) /\ InHeaders(n)
  BY <1>1, <1>2, <1>3 DEF ParseInv, ParseAt
<1>5. Accepted(n)
  BY <1>4 DEF InHeaders
<1>6. n \in 1..Len(script) /\ n - 1 \in 0..(Len(script) - 1) /\ (n - 1) + 1 = n
  <2>1. Len(handled) \in 0..Len(script) /\ n \in 0..Len(script) /\ Len(script) \in Nat
    BY <1>5, ComingIs DEF Accepted, ParseInv, ParseAt
  <2> QED
    BY <1>1, <2>1
<1>7. PICK r : r = script[n]
  OBVIOUS
<1>8. PICK j \in 0..Len(r.headers) :
        /\ \A m \in 1..j : r.headers[m].kind = "header"
        /\ Rest = AfterHead(n, j)
        /\ context.request_ = Parsed(n, OwnLines(n - 1) \o SubSeq(r.headers, 1, j))
  BY <1>4, <1>7 DEF InHeaders
<1>9. script \in Scripts
  BY DEF ReadInv, ReadTypes
<1>10. r.headers \in Seq(Units) /\ Len(r.headers) \in Nat
  BY <1>6, <1>7, <1>9, RequestIs
<1>11. /\ context'.state_ = "Done" /\ context'.request_ = context.request_
  BY <1>2, <1>3 DEF LastLine
<1>12. /\ OwnHeaders(r) = SubSeq(r.headers, 1, j)
       /\ Stuck' \/ (Proper(r) /\ Rest' = Coming(n))
  <2>1. CASE j = Len(r.headers)
    <3>1. PICK x \in Seq(Units) : x = r.body \o Coming(n)
      BY <1>6, <1>7, AfterHeadIs
    <3>2. Rest = EmptyThen(x)
      BY <1>6, <1>7, <1>8, <2>1, <3>1, AfterHeadIs DEF EmptyThen
    <3>3. Rest' = x
      BY <1>2, <3>2, PassEmpty
    <3>4. OwnHeaders(r) = SubSeq(r.headers, 1, j) /\ OwnHeaders(r) = r.headers
      BY <1>8, <1>10, <2>1, OwnHeadersIs
    <3>5. CASE r.body = <<>>
      <4>1. x = Coming(n)
        BY <1>6, <1>7, <3>1, <3>5, AfterHeadIs
      <4> QED
        BY <3>3, <3>4, <3>5, <4>1 DEF Proper
    <3>6. CASE r.body # <<>>
      <4>1. x[1].kind # "request"
        BY <1>6, <1>7, <3>1, <3>6, AfterHeadIs
      <4> QED
        BY <3>3, <3>4, <4>1 DEF Stuck
    <3> QED
      BY <3>5, <3>6
  <2>2. CASE j # Len(r.headers)
    <3>1. j \in 0..(Len(r.headers) - 1) /\ j + 1 \in 1..Len(r.headers)
          /\ j + 1 \in 0..Len(r.headers) /\ j < Len(r.headers)
      BY <1>10, <2>2
    <3>2. PICK h \in Units : h = r.headers[j + 1] /\ h.kind \in {"header", "text"}
      BY <1>6, <1>7, <1>9, <3>1, RequestIs
    <3>3. PICK x \in Seq(Units) : x = AfterHead(n, j + 1)
      BY <1>6, <1>7, <3>1, AfterHeadIs
    <3>4. Rest = LineThen(h, x)
      BY <1>6, <1>7, <1>8, <3>1, <3>2, <3>3, AfterHeadIs DEF LineThen
    <3>5. h # Unit("cr")
      BY <3>2 DEF Unit
    <3>6. Line(input_buf_) = <<h>> /\ Rest' = x
      BY <1>2, <3>4, <3>5, PassUnit
    <3>7. h.kind # "header"
      BY <1>2, <3>6 DEF IsHeader
    <3>8. OwnHeaders(r) = SubSeq(r.headers, 1, j)
      BY <1>8, <1>10, <3>1, <3>2, <3>7, OwnHeadersIs
    <3>9. x[1].kind # "request"
      BY <1>6, <1>7, <3>1, <3>3, AfterHeadIs
    <3> QED
      BY <3>6, <3>8, <3>9 DEF Stuck
  <2> QED
    BY <2>1, <2>2
<1>13. context.request_ = Parsed(n, OwnLines(n))
  <2>1. OwnLines((n - 1) + 1) = OwnLines(n - 1) \o OwnHeaders(script[(n - 1) + 1])
    BY <1>6, OwnLinesIs
  <2>2. OwnLines(n) = OwnLines(n - 1) \o SubSeq(r.headers, 1, j)
    BY <1>6, <1>7, <1>12, <2>1
  <2> QED
    BY <1>8, <2>2
<1>14. AtEnd(n)'
  <2>1. Accepted(n)'
    BY <1>2, <1>5, ScriptStays
  <2>2. (context.request_ = Parsed(n, OwnLines(n)))'
    BY <1>2, <1>11, <1>13 DEF Parsed, OwnLines
  <2>3. (Stuck \/ (Proper(script[n]) /\ Rest = Coming(n)))'
    <3>1. Coming(n)' = Coming(n)
      BY <1>2, ScriptStays
    <3> QED
      BY <1>2, <1>7, <1>12, <3>1
  <2> QED
    BY <2>1, <2>2, <2>3 DEF AtEnd
<1>15. PICK p : p = Len(handled)
  OBVIOUS
<1>16. n = p + 1
  BY <1>1, <1>15
<1> QED
  BY <1>2, <1>3, <1>4, <1>11, <1>14, <1>15, <1>16, HandledStay

\* A line that is refused stays where it is and leaves the headers.
LEMMA BadRequestLineParse ==
    ASSUME ReadInv, ParseInv, BadRequestLine
    PROVE  ParseInv'
<1>1. PICK n : n = Len(handled)
  OBVIOUS
<1>2. /\ pc = "parse" /\ context.state_ = "ExpectRequestLine"
      /\ UNCHANGED <<script, stream, consumed, handled>>
      /\ context' = [context EXCEPT !.request_ = ParsedRequest(@, Line(input_buf_))]
  BY DEF BadRequestLine, Turn
<1>3. state # "CONNECTING" /\ DOMAIN context = {"state_", "request_"}
  BY <1>2, Parsing
<1>4. state' # "CONNECTING"
  BY <1>3 DEF BadRequestLine, SendAndShutDown
<1>5. IsRequest(context.request_) /\ AtLine(n)
  BY <1>1, <1>2, <1>3 DEF ParseInv, ParseAt
<1>6. PICK q : q = context.request_
  OBVIOUS
<1>7. /\ context'.state_ = "ExpectRequestLine"
      /\ context'.request_ = ParsedRequest(q, Line(input_buf_))
  BY <1>2, <1>3, <1>6
<1>8. IsRequest(context'.request_) /\ context'.request_.headers = q.headers
  BY <1>5, <1>6, <1>7, ParsedRequestIs
<1>9. AtLine(n)'
  <2>1. Rest' = Rest /\ (Stuck' <=> Stuck) /\ Coming(n)' = Coming(n)
        /\ OwnLines(n)' = OwnLines(n)
    BY <1>2, RestStays, ScriptStays
  <2> QED
    BY <1>2, <1>3, <1>5, <1>6, <1>8, <2>1 DEF AtLine
<1> QED
  BY <1>1, <1>2, <1>4, <1>7, <1>8, <1>9, HandledStay

\* The request handed over is the next of the client's.
LEMMA OnRequestParse ==
    ASSUME ReadInv, ParseInv, IsSequence(handled), OnRequest
    PROVE  ParseInv'
<1>1. PICK n : n = Len(handled)
  OBVIOUS
<1>2. /\ pc = "done" /\ UNCHANGED <<script, stream, consumed>>
      /\ handled' = Append(handled, context.request_)
      /\ context' = [context EXCEPT !.state_ = "ExpectRequestLine"]
  BY DEF OnRequest, Reset
<1>3. /\ state # "CONNECTING" /\ DOMAIN context = {"state_", "request_"}
      /\ context.state_ = "Done"
  BY <1>2 DEF ReadInv, ContextInv
<1>4. state' # "CONNECTING"
  BY <1>3 DEF OnRequest, SendAndShutDown
<1>5. IsRequest(context.request_) /\ AtEnd(n + 1) /\ HandledIs(n) /\ Accepted(n)
  BY <1>1, <1>3 DEF ParseInv, ParseAt
<1>6. context'.state_ = "ExpectRequestLine" /\ context'.request_ = context.request_
  BY <1>2, <1>3
<1>7. Accepted(n + 1) /\ context.request_ = Parsed(n + 1, OwnLines(n + 1))
      /\ (Stuck \/ (Proper(script[n + 1]) /\ Rest = Coming(n + 1)))
  BY <1>5 DEF AtEnd
<1>8. PICK q : q = context.request_
  OBVIOUS
<1>9. /\ n \in Nat /\ Len(handled') = n + 1 /\ handled'[n + 1] = q
      /\ \A i \in 1..n : handled'[i] = handled[i]
  BY <1>1, <1>2, <1>8, AppendIsSequence
<1>10. Accepted(n + 1)'
  BY <1>2, <1>7, ScriptStays
<1>11. HandledIs(n + 1)'
  <2>1. \A i \in 1..(n + 1) : i \in 1..n \/ i = n + 1
    BY <1>9
  <2>2. \A i \in 1..(n + 1) : handled'[i] = Parsed(i, OwnLines(i))
    BY <1>5, <1>7, <1>8, <1>9, <2>1 DEF HandledIs
  <2> QED
    BY <1>2, <2>2 DEF HandledIs, Parsed, OwnLines
<1>12. AtLine(n + 1)'
  <2>1. Rest' = Rest /\ (Stuck' <=> Stuck) /\ Coming(n + 1)' = Coming(n + 1)
        /\ OwnLines(n + 1)' = OwnLines(n + 1)
    BY <1>2, RestStays, ScriptStays
  <2>2. CASE Stuck
    BY <2>1, <2>2 DEF AtLine
  <2>3. CASE Proper(script[n + 1]) /\ Rest = Coming(n + 1)
    <3>1. \A i \in 1..(n + 1) : Proper(script[i])
      <4>1. \A i \in 1..(n + 1) : i < n + 1 \/ i = n + 1
        BY <1>9
      <4> QED
        BY <1>7, <2>3, <4>1 DEF Accepted
    <3>2. context.request_.headers = HeaderMap(OwnLines(n + 1))
      BY <1>7 DEF Parsed
    <3> QED
      BY <1>2, <1>6, <2>1, <2>3, <3>1, <3>2 DEF AtLine
  <2> QED
    BY <1>7, <2>2, <2>3
<1>13. ParseAt(n + 1)'
  BY <1>4, <1>5, <1>6, <1>10, <1>11, <1>12 DEF ParseAt
<1> QED
  BY <1>9, <1>13 DEF ParseInv

\* A new connection has a request_ without headers.
LEMMA OnConnectionParse ==
    ASSUME ReadInv, ParseInv, OnConnection
    PROVE  ParseInv'
<1>1. PICK n : n = Len(handled)
  OBVIOUS
<1>2. /\ state = "CONNECTING" /\ state' = "CONNECTED"
      /\ context' = NewContext /\ UNCHANGED <<script, stream, consumed, handled>>
  BY DEF OnConnection
<1>3. n = 0 /\ AtLine(n)
  BY <1>1, <1>2 DEF ParseInv, ParseAt
<1>4. /\ context'.state_ = "ExpectRequestLine" /\ context'.request_ = NewRequest
  BY <1>2 DEF NewContext
<1>5. IsRequest(NewRequest) /\ NewRequest.headers = <<>>
  BY DEF IsRequest, NewRequest
<1>6. HeaderMap(OwnLines(n)) = <<>>
  BY <1>3, OwnLinesIs, HeaderMapEmpty
<1>7. AtLine(n)'
  <2>1. Rest' = Rest /\ (Stuck' <=> Stuck) /\ Coming(n)' = Coming(n)
        /\ OwnLines(n)' = OwnLines(n)
    BY <1>2, RestStays, ScriptStays
  <2> QED
    BY <1>2, <1>3, <1>4, <1>5, <1>6, <2>1 DEF AtLine
<1> QED
  BY <1>1, <1>2, <1>4, <1>5, <1>7, HandledStay

\* At first nothing was parsed.
LEMMA InitParseInv == HttpInit => ParseInv
<1> SUFFICES ASSUME HttpInit PROVE ParseInv
  OBVIOUS
<1>1. ReadInv
  BY InitReadInv
<1>2. handled = <<>> /\ Len(handled) = 0 /\ state = "CONNECTING" /\ consumed = 0
  BY DEF HttpInit
<1>3. Accepted(0)
  BY <1>1, ComingIs DEF Accepted
<1>4. HandledIs(0)
  BY DEF HandledIs
<1>5. AtLine(0)
  <2>1. Rest = stream
    <3>1. stream \in Seq(Units)
      BY <1>1 DEF ReadInv, ReadTypes
    <3>2. SubSeq(stream, 0 + 1, Len(stream)) = stream
      BY <3>1
    <3> QED
      BY <1>2, <3>2 DEF Rest
  <2>2. Coming(0) = stream
    BY <1>1, ComingIs
  <2> QED
    BY <1>2, <2>1, <2>2 DEF AtLine
<1> QED
  BY <1>2, <1>3, <1>4, <1>5 DEF ParseInv, ParseAt

\* Every step keeps ParseInv.
LEMMA NextParseInv ==
    ReadInv /\ WireInv /\ ParseInv /\ [HttpNext]_httpVars => ParseInv'
<1> SUFFICES ASSUME ReadInv, WireInv, ParseInv, [HttpNext]_httpVars PROVE ParseInv'
  OBVIOUS
<1>1. CASE OnConnection
  BY <1>1, OnConnectionParse
<1>2. ASSUME NEW n \in 1..(Len(stream) - received), HandleRead(n) PROVE ParseInv'
  BY <1>2, QuietParse DEF HandleRead
<1>3. CASE HandleClose
  BY <1>3, QuietParse DEF HandleClose
<1>4. CASE RequestLine
  BY <1>4, RequestLineParse
<1>5. CASE BadRequestLine
  BY <1>5, BadRequestLineParse
<1>6. CASE NoRequestLine
  <2>1. state # "CONNECTING"
    BY <1>6, Parsing DEF NoRequestLine, Turn
  <2> QED
    BY <1>6, <2>1, QuietParse DEF NoRequestLine
<1>7. CASE HeaderLine
  BY <1>7, HeaderLineParse
<1>8. CASE LastLine
  BY <1>8, LastLineParse
<1>9. CASE OnRequest
  BY <1>9, OnRequestParse DEF WireInv
<1>10. CASE UNCHANGED httpVars
  <2>1. CASE state = "CONNECTING"
    <3>1. PICK n : n = Len(handled)
      OBVIOUS
    <3>2. n = 0 /\ AtLine(n)
      BY <2>1, <3>1 DEF ParseInv, ParseAt
    <3>3. UNCHANGED <<script, stream, consumed, handled, context, state>>
      BY <1>10 DEF httpVars
    <3>4. AtLine(n)'
      BY <3>2, <3>3 DEF AtLine, Stuck, Rest, Coming, OwnLines
    <3> QED
      BY <2>1, <3>1, <3>2, <3>3, <3>4, HandledStay
  <2>2. CASE state # "CONNECTING"
    BY <1>10, <2>2, QuietParse DEF httpVars
  <2> QED
    BY <2>1, <2>2
<1> QED
  BY <1>1, <1>2, <1>3, <1>4, <1>5, <1>6, <1>7, <1>8, <1>9, <1>10 DEF HttpNext, ParseStep

\* ParseInv holds always.
THEOREM ParseInvariant == HttpSpec => []ParseInv
<1>1. HttpInit => ReadInv /\ WireInv /\ ParseInv
  BY InitReadInv, InitWireInv, InitParseInv
<1>2. (ReadInv /\ WireInv /\ ParseInv) /\ [HttpNext]_httpVars
        => (ReadInv /\ WireInv /\ ParseInv)'
  BY NextReadInv, NextWireInv, NextParseInv
<1> QED
  BY <1>1, <1>2, PTL DEF HttpSpec

\* Accepted requests are among those that are answerable.
LEMMA AcceptedIsAnswerable ==
    ASSUME NEW n, Accepted(n), Len(script) \in Nat
    PROVE  n <= Answerable
<1> DEFINE T == {k \in 0..Len(script) :
                    \A i \in 1..k : GoodLine(script[i]) /\ (i < k => Proper(script[i]))}
<1>1. n \in T /\ T \subseteq 0..Len(script)
  BY DEF Accepted
<1>2. Answerable = Max(T)
  BY DEF Answerable
<1> HIDE DEF T
<1>3. Max(T) \in T /\ \A y \in T : Max(T) >= y
  BY <1>1, MaxOfNats
<1>4. PICK m \in 0..Len(script) : m = Max(T)
  BY <1>1, <1>3
<1>5. n \in 0..Len(script) /\ m >= n
  BY <1>1, <1>3, <1>4
<1> QED
  BY <1>2, <1>4, <1>5

\* Of two runs of header lines the later one decides on its own fields.
LEMMA HeaderMapConcat ==
    ASSUME NEW H, NEW a \in Seq(H), NEW b \in Seq(H)
    PROVE  LET m == HeaderMap(a \o b)
           IN /\ \A f \in DOMAIN HeaderMap(b) : f \in DOMAIN m /\ m[f] = HeaderMap(b)[f]
              /\ DOMAIN m \subseteq DOMAIN HeaderMap(b) \cup DOMAIN HeaderMap(a)
<1>1. PICK n, l, c : n = Len(a) /\ l = Len(b) /\ c = a \o b
  OBVIOUS
<1>2. /\ n \in Nat /\ DOMAIN a = 1..n /\ l \in Nat /\ DOMAIN b = 1..l
      /\ DOMAIN c = 1..(n + l)
      /\ \A k \in 1..n : c[k] = a[k]
      /\ \A k \in 1..l : c[n + k] = b[k]
  BY <1>1
<1>3. \A k \in 1..(n + l) : k \in 1..n \/ (k - n \in 1..l /\ k = n + (k - n))
  BY <1>2
<1>4. \A k \in 1..l : n + k \in 1..(n + l)
  BY <1>2
<1>5. Fields(c) \subseteq Fields(b) \cup Fields(a) /\ Fields(b) \subseteq Fields(c)
  <2>1. ASSUME NEW k \in 1..(n + l) PROVE c[k] \in ToSet(a) \cup ToSet(b)
    <3>1. CASE k \in 1..n
      BY <1>2, <3>1 DEF ToSet
    <3>2. CASE k \notin 1..n
      <4>1. PICK j \in 1..l : k = n + j
        BY <1>3, <3>2
      <4> QED
        BY <1>2, <4>1 DEF ToSet
    <3> QED
      BY <3>1, <3>2
  <2>2. \A k \in 1..l : b[k] \in ToSet(c)
    BY <1>2, <1>4 DEF ToSet
  <2>3. ToSet(c) \subseteq ToSet(a) \cup ToSet(b) /\ ToSet(b) \subseteq ToSet(c)
    BY <1>2, <2>1, <2>2 DEF ToSet
  <2> QED
    BY <2>3 DEF Fields
<1>6. \A f \in Fields(b) : c[LastAt(c, f)] = b[LastAt(b, f)]
  <2> TAKE f \in Fields(b)
  <2> DEFINE A == {k \in DOMAIN c : c[k].field = f}
             B == {k \in DOMAIN b : b[k].field = f}
  <2>1. A \subseteq 0..(n + l) /\ B \subseteq 0..l /\ B # {}
    BY <1>2 DEF Fields, ToSet
  <2>2. LastAt(c, f) = Max(A) /\ LastAt(b, f) = Max(B)
    BY DEF LastAt
  <2>3. \A k \in B : k \in 1..l /\ n + k \in A
    BY <1>2, <1>4
  <2>4. \A k \in A : k \in 1..(n + l) /\ (k \in 1..n \/ (k - n \in B /\ k = n + (k - n)))
    <3> SUFFICES ASSUME NEW k \in A, k \notin 1..n
                 PROVE  k - n \in B /\ k = n + (k - n)
      BY <1>2
    <3>1. k \in 1..(n + l) /\ c[k].field = f
      BY <1>2
    <3>2. PICK j \in 1..l : j = k - n /\ k = n + j
      BY <1>3, <3>1
    <3>3. c[k] = b[j]
      BY <1>2, <3>2
    <3> QED
      BY <1>2, <3>1, <3>2, <3>3
  <2> HIDE DEF A, B
  <2>5. PICK q : q = Max(B)
    OBVIOUS
  <2>6. q \in B /\ \A y \in B : q >= y
    BY <1>2, <2>1, <2>5, MaxOfNats
  <2>7. q \in 1..l /\ n + q \in A
    BY <2>3, <2>6
  <2>8. n + l \in Nat
    BY <1>2
  <2>9. PICK p : p = Max(A)
    OBVIOUS
  <2>10. p \in A /\ \A y \in A : p >= y
    BY <2>1, <2>7, <2>8, <2>9, MaxOfNats
  <2>11. p >= n + q /\ p \in 1..(n + l)
    BY <2>4, <2>7, <2>10
  <2>12. p - n \in B
    BY <1>2, <2>4, <2>7, <2>10, <2>11
  <2>13. p = n + q
    BY <1>2, <2>6, <2>7, <2>11, <2>12
  <2> QED
    BY <1>2, <2>2, <2>5, <2>7, <2>9, <2>13
<1>7. \A hs : HeaderMap(hs) = [f \in Fields(hs) |-> hs[LastAt(hs, f)].value]
  BY DEF HeaderMap, Fields, LastAt
<1>8. PICK m, mb, ma : m = HeaderMap(c) /\ mb = HeaderMap(b) /\ ma = HeaderMap(a)
  OBVIOUS
<1>9. /\ DOMAIN m = Fields(c) /\ \A f \in Fields(c) : m[f] = c[LastAt(c, f)].value
      /\ DOMAIN mb = Fields(b) /\ \A f \in Fields(b) : mb[f] = b[LastAt(b, f)].value
      /\ DOMAIN ma = Fields(a)
  BY <1>7, <1>8
<1>10. /\ \A f \in DOMAIN mb : f \in DOMAIN m /\ m[f] = mb[f]
       /\ DOMAIN m \subseteq DOMAIN mb \cup DOMAIN ma
  <2>1. DOMAIN m \subseteq DOMAIN mb \cup DOMAIN ma
    BY <1>5, <1>9
  <2>2. ASSUME NEW f \in DOMAIN mb PROVE f \in DOMAIN m /\ m[f] = mb[f]
    <3>1. f \in Fields(b) /\ f \in Fields(c)
      BY <1>5, <1>9
    <3> QED
      BY <1>6, <1>9, <3>1
  <2> QED
    BY <2>1, <2>2
<1> QED
  BY <1>1, <1>8, <1>10

\* However the client's bytes are cut, the callback sees its requests in order,
\* none skipped, repeated or made up, each with its method, version, path and
\* the headers that were sent for it; any other header it sees was sent by an
\* earlier request of the same connection.
THEOREM CallbackSeesRequests == HttpSpec => []RequestsInOrder
<1>1. ASSUME ReadInv, WireInv, ParseInv PROVE RequestsInOrder
  <2>1. PICK n : n = Len(handled)
    OBVIOUS
  <2>2. Accepted(n) /\ HandledIs(n)
    BY <1>1, <2>1 DEF ParseInv, ParseAt
  <2>3. n <= Answerable
    BY <1>1, <2>2, ComingIs, AcceptedIsAnswerable
  <2>4. DOMAIN handled = 1..n
    BY <1>1, <2>1, AppendIsSequence DEF WireInv
  <2>5. ASSUME NEW i \in 1..n
        PROVE  LET own == HeaderMap(OwnHeaders(script[i]))
                   seen == handled[i].headers
               IN /\ handled[i].method = set_method(script[i].method)
                  /\ handled[i].version = ParseVersion(script[i].version)
                  /\ handled[i].path = script[i].path
                  /\ \A f \in DOMAIN own : f \in DOMAIN seen /\ seen[f] = own[f]
                  /\ DOMAIN seen \subseteq DOMAIN own \cup DOMAIN HeaderMap(OwnLines(i - 1))
    <3>1. handled[i] = Parsed(i, OwnLines(i))
      BY <2>2 DEF HandledIs
    <3>2. /\ handled[i].method = set_method(script[i].method)
          /\ handled[i].version = ParseVersion(script[i].version)
          /\ handled[i].path = script[i].path
          /\ handled[i].headers = HeaderMap(OwnLines(i))
      BY <3>1 DEF Parsed
    <3>3. PICK k : k = i - 1 /\ i = k + 1 /\ k \in 0..(Len(script) - 1)
      BY <1>1, <2>2, ComingIs DEF Accepted
    <3>4. /\ OwnLines(k) \in Seq(Units) /\ OwnHeaders(script[k + 1]) \in Seq(Units)
          /\ OwnLines(k + 1) = OwnLines(k) \o OwnHeaders(script[k + 1])
      <4>1. k \in 0..Len(script) /\ k + 1 \in 1..Len(script)
        BY <1>1, <3>3, ComingIs
      <4> QED
        BY <1>1, <3>3, <4>1, OwnLinesIs
    <3>5. PICK a \in Seq(Units), b \in Seq(Units) :
            a = OwnLines(k) /\ b = OwnHeaders(script[k + 1])
      BY <3>4
    <3>6. OwnLines(i) = a \o b /\ OwnHeaders(script[i]) = b /\ OwnLines(i - 1) = a
      BY <3>3, <3>4, <3>5
    <3>7. PICK m, mb, ma : m = HeaderMap(a \o b) /\ mb = HeaderMap(b) /\ ma = HeaderMap(a)
      OBVIOUS
    <3>8. /\ \A f \in DOMAIN mb : f \in DOMAIN m /\ m[f] = mb[f]
          /\ DOMAIN m \subseteq DOMAIN mb \cup DOMAIN ma
      BY <3>5, <3>7, HeaderMapConcat
    <3> QED
      BY <3>2, <3>6, <3>7, <3>8
  <2> QED
    BY <2>1, <2>3, <2>4, <2>5 DEF RequestsInOrder
<1> QED
  BY <1>1, ReadInvariant, WireInvariant, ParseInvariant, PTL
=============================================================================
