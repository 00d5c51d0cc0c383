------------------------------- MODULE Buffer -------------------------------
(***************************************************************************)
(* muduo-mgkl, include/Buffer.hpp and src/Buffer.cpp: the byte buffer of a *)
(* TcpConnection.                                                          *)
(*                                                                         *)
(*    | prependable bytes | readable bytes | writable bytes |              *)
(*    0            readerIndex_      writerIndex_      buffer_.size()      *)
(*                                                                         *)
(* A buffer belongs to one connection and is used by one thread: every     *)
(* member function is one action.  The bytes are kept where the code keeps *)
(* them, so that moving them (makeSpace) and reading past the end of the   *)
(* vector into a second area (readFd) are what they are in the code.       *)
(***************************************************************************)
EXTENDS Naturals, Sequences

CONSTANTS
    Byte,            \* the values of a char
    kCheapPrepend,   \* 8 in the code
    initialSize,     \* kInitialSize, 1024 in the code
    ExtraBuf,        \* sizeof(extrabuf), 65536 in the code
    MaxIo,           \* bound: most bytes one call appends or reads
    MaxSize          \* bound: largest buffer_.size()

ASSUME BufferAssumption ==
    /\ kCheapPrepend \in Nat /\ initialSize \in Nat
    /\ ExtraBuf \in Nat /\ MaxIo \in Nat /\ MaxSize \in Nat
    /\ 0 \in Byte

VARIABLES
    buffer_,        \* the vector: a function from 0 .. size - 1
    size,           \* buffer_.size()
    readerIndex_,
    writerIndex_,
    content         \* history: what a queue of bytes given the same calls holds

vars == <<buffer_, size, readerIndex_, writerIndex_, content>>

Init ==
    /\ size = kCheapPrepend + initialSize
    /\ buffer_ = [i \in 0..(size - 1) |-> 0]
    /\ readerIndex_ = kCheapPrepend
    /\ writerIndex_ = kCheapPrepend
    /\ content = <<>>

readableBytes == writerIndex_ - readerIndex_
writableBytes == size - writerIndex_
prependableBytes == readerIndex_

\* The readable bytes, from peek() on.
Readable == [i \in 1..readableBytes |-> buffer_[readerIndex_ + i - 1]]

\* Data of at most MaxIo bytes.
Data == UNION {[1..n -> Byte] : n \in 0..MaxIo}

-----------------------------------------------------------------------------
\* std::copy of data to position at of b.
CopyTo(b, at, data) ==
    [i \in DOMAIN b |-> IF i \in at..(at + Len(data) - 1)
                        THEN data[i - at + 1] ELSE b[i]]

\* buffer_.resize(n) keeps the old bytes and adds zeros.
Resize(b, n) == [i \in 0..(n - 1) |-> IF i \in DOMAIN b THEN b[i] ELSE 0]

\* Each Bug... operator is a variant of the definition after it that some run
\* must refute; none is part of the specification.

\* append() of data when the bytes up to w of b are in use, w being
\* writerIndex_: ensureWritableBytes(), makeSpace() and the copy.
AppendFits(w, data) == size - w >= Len(data)
MustGrow(w, data) == (size - w) + prependableBytes < Len(data) + kCheapPrepend

AppendInPlace(b, w, data) ==
    /\ AppendFits(w, data)
    /\ buffer_' = CopyTo(b, w, data)
    /\ writerIndex_' = w + Len(data)
    /\ UNCHANGED <<size, readerIndex_>>

AppendGrowing(b, w, data) ==
    /\ ~AppendFits(w, data) /\ MustGrow(w, data)
    /\ w + Len(data) <= MaxSize
    /\ size' = w + Len(data)
    /\ buffer_' = CopyTo(Resize(b, w + Len(data)), w, data)
    /\ writerIndex_' = w + Len(data)
    /\ UNCHANGED readerIndex_

\* The readable bytes are moved down to kCheapPrepend first.
AppendMoving(b, w, data) ==
    /\ ~AppendFits(w, data) /\ ~MustGrow(w, data)
    /\ LET readable == w - readerIndex_
           moved == CopyTo(b, kCheapPrepend,
                           [i \in 1..readable |-> b[readerIndex_ + i - 1]])
       IN /\ buffer_' = CopyTo(moved, kCheapPrepend + readable, data)
          /\ readerIndex_' = kCheapPrepend
          /\ writerIndex_' = kCheapPrepend + readable + Len(data)
    /\ UNCHANGED size

AppendTo(b, w, data) ==
    AppendInPlace(b, w, data) \/ AppendGrowing(b, w, data) \/ AppendMoving(b, w, data)

-----------------------------------------------------------------------------
append(data) ==
    /\ AppendTo(buffer_, writerIndex_, data)
    /\ content' = content \o data

retrieveAll ==
    /\ readerIndex_' = kCheapPrepend
    /\ writerIndex_' = kCheapPrepend
    /\ content' = <<>>
    /\ UNCHANGED <<buffer_, size>>

\* retrieve(len), also the state change of retrieveAsString(len) and, with the
\* bytes ::write took, of handleWrite().
retrieve(len) ==
    \/ /\ len < readableBytes
       /\ readerIndex_' = readerIndex_ + len
       /\ content' = SubSeq(content, len + 1, Len(content))
       /\ UNCHANGED <<buffer_, size, writerIndex_>>
    \/ /\ len >= readableBytes
       /\ retrieveAll

\* Bug: writerIndex_ is not moved to the end before the extra bytes.
BugReadFdForgetsFirst(data) ==
    LET first == SubSeq(data, 1, writableBytes)
        rest == SubSeq(data, writableBytes + 1, Len(data))
    IN /\ Len(data) > writableBytes
       /\ AppendTo(CopyTo(buffer_, writerIndex_, first), writerIndex_, rest)
       /\ content' = content \o data

\* readFd(): readv fills the writable bytes first and then, if they are fewer
\* than sizeof(extrabuf), the array extrabuf, which is appended.
readFd(data) ==
    LET extra == IF writableBytes < ExtraBuf THEN ExtraBuf ELSE 0
        first == SubSeq(data, 1, writableBytes)
        rest == SubSeq(data, writableBytes + 1, Len(data))
    IN /\ Len(data) <= writableBytes + extra
       /\ \/ /\ Len(data) <= writableBytes
             /\ buffer_' = CopyTo(buffer_, writerIndex_, data)
             /\ writerIndex_' = writerIndex_ + Len(data)
             /\ UNCHANGED <<size, readerIndex_>>
          \/ /\ Len(data) > writableBytes
             /\ AppendTo(CopyTo(buffer_, writerIndex_, first), size, rest)
       /\ content' = content \o data

Next ==
    \/ \E data \in Data : append(data) \/ readFd(data)
    \/ \E len \in 0..(readableBytes + 1) : retrieve(len)
    \/ retrieveAll

Spec == Init /\ [][Next]_vars

-----------------------------------------------------------------------------
\* The indices are ordered as in the picture and every byte is a char.
TypeOK ==
    /\ size \in Nat /\ readerIndex_ \in Nat /\ writerIndex_ \in Nat
    /\ buffer_ \in [0..(size - 1) -> Byte]
    /\ kCheapPrepend <= readerIndex_
    /\ readerIndex_ <= writerIndex_
    /\ writerIndex_ <= size

\* Whatever the appends, reads, moves and growths, the readable bytes are the
\* bytes put in and not taken out, in their order.
BytesKept == Readable = content
=============================================================================
