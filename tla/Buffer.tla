------------------------------- MODULE Buffer -------------------------------
(***************************************************************************)
(* The byte buffer of connections and responses (utility/buffer.h and      *)
(* buffer.cc): a vector whose bytes from read_index_ to write_index_ are   *)
(* the payload.  Indices count from 0 as in the code; the byte at index i  *)
(* is element i + 1 of the sequence buffer_.                               *)
(***************************************************************************)
EXTENDS Naturals, Sequences, FiniteSetsExt

CONSTANTS
    kBufBegin,    \* where the payload begins in an empty buffer
    kDefaultSize, \* room of a new buffer
    kExtraSize    \* size of extrabuf, on the stack of readFd()

ASSUME BufferAssumption ==
    kBufBegin \in Nat /\ kDefaultSize \in Nat /\ kExtraSize \in Nat \ {0}

\* A character as the models of the callers see it, and the two they look for.
Unit(k) == [kind |-> k]
Zero == Unit("zero")
CRLF == <<Unit("cr"), Unit("lf")>>
Zeros(n) == [i \in 1..n |-> Zero]

NewBuffer == [buffer_      |-> Zeros(kBufBegin + kDefaultSize),
              read_index_  |-> kBufBegin,
              write_index_ |-> kBufBegin]

\* The indices are in order and inside the vector: what the asserts of
\* move_read_index_until() and every copy rely on.
IsBuffer(b) ==
    /\ kBufBegin <= b.read_index_
    /\ b.read_index_ <= b.write_index_
    /\ b.write_index_ <= Len(b.buffer_)

payload_size(b) == b.write_index_ - b.read_index_
remain_size(b) == Len(b.buffer_) - b.write_index_

\* The bytes from peek() to begin_write().
Payload(b) == SubSeq(b.buffer_, b.read_index_ + 1, b.write_index_)

move_read_index(b, len) == [b EXCEPT !.read_index_ = @ + len]
move_read_index_all(b) ==
    [b EXCEPT !.read_index_ = kBufBegin, !.write_index_ = kBufBegin]

\* std::copy(data, data + Len(data), raw_begin() + at), inside the vector.
CopyTo(vec, at, data) ==
    SubSeq(SubSeq(vec, 1, at) \o data \o SubSeq(vec, at + Len(data) + 1, Len(vec)),
           1, Len(vec))

\* Faulty variant of Resize: forgets that kBufBegin bytes stay in front.
ResizeGreedy(b, len) ==
    IF b.read_index_ + remain_size(b) < len
    THEN [b EXCEPT !.buffer_ = @ \o Zeros(b.write_index_ + len - Len(@))]
    ELSE [buffer_      |-> CopyTo(b.buffer_, kBufBegin, Payload(b)),
          read_index_  |-> kBufBegin,
          write_index_ |-> kBufBegin + payload_size(b)]

\* Grows the vector to just what is needed, or moves the payload to the front
\* when the room there and at the end is enough together.
Resize(b, len) ==
    IF b.read_index_ - kBufBegin + remain_size(b) < len
    THEN [b EXCEPT !.buffer_ = @ \o Zeros(b.write_index_ + len - Len(@))]
    ELSE [buffer_      |-> CopyTo(b.buffer_, kBufBegin, Payload(b)),
          read_index_  |-> kBufBegin,
          write_index_ |-> kBufBegin + payload_size(b)]

\* Buffer::Append
BufferAppend(b, data) ==
    LET r == IF remain_size(b) < Len(data) THEN Resize(b, Len(data)) ELSE b
    IN [r EXCEPT !.buffer_ = CopyTo(@, r.write_index_, data),
                 !.write_index_ = @ + Len(data)]

\* What one readv() can take: extrabuf is offered only to a small vector.
ReadRoom(b) ==
    remain_size(b) + IF remain_size(b) < kExtraSize THEN kExtraSize ELSE 0

\* readFd() when readv() returns data: first into the vector, the rest by way
\* of extrabuf.
readFd(b, data) ==
    LET writable == remain_size(b)
        filled == [b EXCEPT !.buffer_ = CopyTo(@, b.write_index_, data)]
    IN IF Len(data) <= writable
       THEN [filled EXCEPT !.write_index_ = @ + Len(data)]
       ELSE BufferAppend([filled EXCEPT !.write_index_ = Len(b.buffer_)],
                         SubSeq(data, writable + 1, Len(data)))

\* findCRLF(): the lines that begin in the payload and end in it.
CRLFs(b) ==
    {i \in b.read_index_ .. b.write_index_ :
        /\ i + 2 <= b.write_index_
        /\ SubSeq(b.buffer_, i + 1, i + 2) = CRLF}
HasCRLF(b) == CRLFs(b) # {}
findCRLF(b) == Min(CRLFs(b))

\* The characters from peek() to findCRLF().
Line(b) == SubSeq(b.buffer_, b.read_index_ + 1, findCRLF(b))
=============================================================================
