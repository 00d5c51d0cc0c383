---------------------------- MODULE ProgramsProofs ----------------------------
(***************************************************************************)
(* Proofs about the small programs of MCPrograms: Buffer, SharedPtr,       *)
(* BankTransfer and Counters, each for any values of its constants, and    *)
(* that the specification in which they are together implements each, and  *)
(* Lists, of which ListsProofs has the rest.                               *)
(***************************************************************************)
EXTENDS MCPrograms, ListsProofs, Integers, SequenceTheorems, FiniteSetTheorems, TLAPS

-----------------------------------------------------------------------------
(* Buffer: the bytes and the indices stay in order.                        *)

\* The area of b between the read index and w.
Area(b, w) == [i \in 1..(w - readerIndex_) |-> b[readerIndex_ + i - 1]]

\* What append() starts from: b is the vector and w the write index.
Ready(b, w) ==
    /\ size \in Nat /\ readerIndex_ \in Nat /\ w \in Nat
    /\ kCheapPrepend <= readerIndex_ /\ readerIndex_ <= w /\ w <= size
    /\ b \in [0..(size - 1) -> Byte]

\* makeSpace(): the bytes are only moved down, never onto themselves, which is
\* what std::copy of overlapping ranges requires.
THEOREM MoveIsDownward ==
  ASSUME NEW b, NEW w, Ready(b, w), NEW data \in Seq(Byte),
         ~AppendFits(w, data), ~MustGrow(w, data)
  PROVE  readerIndex_ > kCheapPrepend
  BY BufferAssumption
     DEF BufferAssumption, Ready, AppendFits, MustGrow, prependableBytes

LEMMA CopyToType ==
  ASSUME NEW n \in Nat, NEW b \in [0..(n - 1) -> Byte], NEW at \in Nat,
         NEW data \in Seq(Byte)
  PROVE  CopyTo(b, at, data) \in [0..(n - 1) -> Byte]
  BY DEF CopyTo

LEMMA AppendInPlaceCorrect ==
  ASSUME NEW b, NEW w, Ready(b, w), NEW data \in Seq(Byte),
         AppendInPlace(b, w, data)
  PROVE  TypeOK' /\ Readable' = Area(b, w) \o data
<1> USE BufferAssumption DEF BufferAssumption, Ready, AppendInPlace, AppendFits
<1>1. TypeOK'
  BY CopyToType DEF TypeOK
<1>2. Readable' = Area(b, w) \o data
  BY DEF Readable, readableBytes, Area, CopyTo
<1> QED
  BY <1>1, <1>2

LEMMA AppendGrowingCorrect ==
  ASSUME NEW b, NEW w, Ready(b, w), NEW data \in Seq(Byte),
         AppendGrowing(b, w, data)
  PROVE  TypeOK' /\ Readable' = Area(b, w) \o data
<1> USE BufferAssumption DEF BufferAssumption, Ready, AppendGrowing, AppendFits
<1>1. TypeOK'
  <2>1. CopyTo(Resize(b, w + Len(data)), w, data)
          \in [0..(w + Len(data) - 1) -> Byte]
    BY DEF Resize, CopyTo
  <2>2. /\ buffer_' \in [0..(size' - 1) -> Byte]
        /\ size' \in Nat /\ size' = w + Len(data)
        /\ writerIndex_' = w + Len(data) /\ readerIndex_' = readerIndex_
    BY <2>1
  <2> QED
    BY <2>2 DEF TypeOK
<1>2. Readable' = Area(b, w) \o data
  BY DEF Readable, readableBytes, Area, CopyTo, Resize
<1> QED
  BY <1>1, <1>2

LEMMA AppendMovingCorrect ==
  ASSUME NEW b, NEW w, Ready(b, w), NEW data \in Seq(Byte),
         AppendMoving(b, w, data)
  PROVE  TypeOK' /\ Readable' = Area(b, w) \o data
<1> USE BufferAssumption DEF BufferAssumption, Ready
<1> DEFINE readable == w - readerIndex_
           old == [i \in 1..readable |-> b[readerIndex_ + i - 1]]
           moved == CopyTo(b, kCheapPrepend, old)
<1>1. old \in Seq(Byte) /\ Len(old) = readable
  OBVIOUS
<1>2. moved \in [0..(size - 1) -> Byte]
  BY <1>1, CopyToType
<1>3. /\ buffer_' = CopyTo(moved, kCheapPrepend + readable, data)
      /\ readerIndex_' = kCheapPrepend
      /\ writerIndex_' = kCheapPrepend + readable + Len(data)
      /\ size' = size
      /\ kCheapPrepend + readable + Len(data) <= size
  BY DEF AppendMoving, AppendFits, MustGrow, prependableBytes
<1>4. TypeOK'
  <2> HIDE DEF moved
  <2>1. CopyTo(moved, kCheapPrepend + readable, data) \in [0..(size - 1) -> Byte]
    BY <1>2, CopyToType
  <2>2. /\ buffer_' \in [0..(size' - 1) -> Byte] /\ size' \in Nat
        /\ readerIndex_' \in Nat /\ writerIndex_' \in Nat
    BY <1>3, <2>1
  <2> QED
    BY <1>3, <2>2 DEF TypeOK
<1>5. \A i \in 1..readable : moved[kCheapPrepend + i - 1] = old[i]
  BY <1>1, <1>3 DEF CopyTo
<1>6. Readable' = Area(b, w) \o data
  <2>1. Readable' = [i \in 1..(readable + Len(data)) |->
                       CopyTo(moved, kCheapPrepend + readable, data)
                         [kCheapPrepend + i - 1]]
    BY <1>3 DEF Readable, readableBytes
  <2> HIDE DEF moved
  <2>2. \A i \in 1..(readable + Len(data)) :
          CopyTo(moved, kCheapPrepend + readable, data)[kCheapPrepend + i - 1]
            = IF i <= readable THEN old[i] ELSE data[i - readable]
    BY <1>2, <1>3, <1>5 DEF CopyTo
  <2>3. Area(b, w) = old
    BY DEF Area
  <2>4. [i \in 1..(readable + Len(data)) |->
           IF i <= readable THEN old[i] ELSE data[i - readable]] = old \o data
    OBVIOUS
  <2> QED
    BY <2>1, <2>2, <2>3, <2>4
<1> QED
  BY <1>4, <1>6

\* append() of data puts exactly the data behind what was readable.
LEMMA AppendCorrect ==
  ASSUME NEW b, NEW w, Ready(b, w), NEW data \in Seq(Byte), AppendTo(b, w, data)
  PROVE  TypeOK' /\ Readable' = Area(b, w) \o data
  BY AppendInPlaceCorrect, AppendGrowingCorrect, AppendMovingCorrect DEF AppendTo

-----------------------------------------------------------------------------
BufferInv == TypeOK /\ BytesKept

LEMMA Associative ==
  ASSUME NEW s \in Seq(Byte), NEW t \in Seq(Byte), NEW u \in Seq(Byte)
  PROVE  (s \o t) \o u = s \o (t \o u)
  OBVIOUS

LEMMA BufferInit == Init => BufferInv
<1> SUFFICES ASSUME Init PROVE BufferInv
  OBVIOUS
<1> USE BufferAssumption DEF BufferAssumption, Init
<1>1. buffer_ \in [0..(size - 1) -> Byte]
  OBVIOUS
<1>2. TypeOK
  BY <1>1 DEF TypeOK
<1>3. BytesKept
  BY DEF BytesKept, Readable, readableBytes
<1> QED
  BY <1>2, <1>3 DEF BufferInv

LEMMA AppendKeeps ==
  ASSUME BufferInv, NEW data \in Seq(Byte), append(data)
  PROVE  BufferInv'
<1>1. Ready(buffer_, writerIndex_) /\ Area(buffer_, writerIndex_) = content
  BY DEF BufferInv, TypeOK, Ready, Area, BytesKept, Readable, readableBytes
<1>2. TypeOK' /\ Readable' = Area(buffer_, writerIndex_) \o data
  BY <1>1, AppendCorrect DEF append
<1> QED
  BY <1>1, <1>2 DEF BufferInv, BytesKept, append

LEMMA RetrieveAllKeeps == BufferInv /\ retrieveAll => BufferInv'
  BY BufferAssumption
     DEF BufferAssumption, BufferInv, TypeOK, BytesKept, Readable, readableBytes,
         retrieveAll

LEMMA RetrieveKeeps ==
  ASSUME BufferInv, NEW len \in Nat, retrieve(len)
  PROVE  BufferInv'
<1>1. CASE len < readableBytes /\ readerIndex_' = readerIndex_ + len
           /\ content' = SubSeq(content, len + 1, Len(content))
           /\ UNCHANGED <<buffer_, size, writerIndex_>>
  <2>1. TypeOK'
    <3>1. /\ readerIndex_' = readerIndex_ + len /\ writerIndex_' = writerIndex_
          /\ size' = size /\ buffer_' = buffer_
      BY <1>1
    <3>2. readerIndex_ + len < writerIndex_
      BY <1>1 DEF BufferInv, TypeOK, readableBytes
    <3>3. buffer_' \in [0..(size' - 1) -> Byte]
      BY <3>1 DEF BufferInv, TypeOK
    <3>4. /\ size' \in Nat /\ readerIndex_' \in Nat /\ writerIndex_' \in Nat
          /\ kCheapPrepend <= readerIndex_' /\ readerIndex_' <= writerIndex_'
          /\ writerIndex_' <= size'
      <4>1. /\ size \in Nat /\ readerIndex_ \in Nat /\ writerIndex_ \in Nat
            /\ kCheapPrepend <= readerIndex_ /\ writerIndex_ <= size
        BY DEF BufferInv, TypeOK
      <4> QED
        BY ONLY <3>1, <3>2, <4>1, len \in Nat, BufferAssumption
           DEF BufferAssumption
    <3> QED
      BY <3>3, <3>4 DEF TypeOK
  <2>2. content = [i \in 1..readableBytes |-> buffer_[readerIndex_ + i - 1]]
        /\ readableBytes \in Nat
    BY DEF BufferInv, TypeOK, BytesKept, Readable, readableBytes
  <2>3. content' = [i \in 1..(readableBytes - len) |-> content[len + i]]
    BY <1>1, <2>2
  <2>4. Readable' = [i \in 1..(readableBytes - len) |->
                       buffer_[readerIndex_ + len + i - 1]]
    BY <1>1 DEF BufferInv, TypeOK, Readable, readableBytes
  <2>5. \A i \in 1..(readableBytes - len) :
          content[len + i] = buffer_[readerIndex_ + len + i - 1]
    BY <2>2 DEF BufferInv, TypeOK
  <2> QED
    BY <2>1, <2>3, <2>4, <2>5 DEF BufferInv, BytesKept
<1>2. CASE retrieveAll
  BY <1>2, RetrieveAllKeeps
<1> QED
  BY <1>1, <1>2 DEF retrieve

LEMMA ReadFdKeeps ==
  ASSUME BufferInv, NEW data \in Seq(Byte), readFd(data)
  PROVE  BufferInv'
<1> DEFINE first == SubSeq(data, 1, writableBytes)
           rest == SubSeq(data, writableBytes + 1, Len(data))
           b == CopyTo(buffer_, writerIndex_, first)
<1> USE BufferAssumption DEF BufferAssumption
<1>1. CASE /\ Len(data) <= writableBytes
           /\ buffer_' = CopyTo(buffer_, writerIndex_, data)
           /\ writerIndex_' = writerIndex_ + Len(data)
           /\ UNCHANGED <<size, readerIndex_>>
  <2>1. append(data)
    BY <1>1 DEF append, AppendTo, AppendInPlace, AppendFits, writableBytes,
                readFd, BufferInv, TypeOK
  <2> QED
    BY <2>1, AppendKeeps
<1>2. CASE Len(data) > writableBytes /\ AppendTo(b, size, rest)
  <2>1. /\ first \in Seq(Byte) /\ Len(first) = writableBytes
        /\ rest \in Seq(Byte) /\ writableBytes \in Nat
        /\ \A i \in 1..writableBytes : first[i] = data[i]
    BY <1>2 DEF BufferInv, TypeOK, writableBytes
  <2>2. b \in [0..(size - 1) -> Byte]
    BY <2>1, CopyToType DEF BufferInv, TypeOK
  <2>3. Ready(b, size)
    BY <2>2 DEF Ready, BufferInv, TypeOK
  <2>4. Area(b, size) = content \o first
    <3>1. first = [i \in 1..writableBytes |-> data[i]]
      BY <1>2, <2>1
    <3>2. content = [i \in 1..readableBytes |-> buffer_[readerIndex_ + i - 1]]
      BY DEF BufferInv, BytesKept, Readable
    <3>3. Area(b, size) = [i \in 1..(readableBytes + writableBytes) |->
                             IF i <= readableBytes
                             THEN buffer_[readerIndex_ + i - 1]
                             ELSE data[i - readableBytes]]
      BY <2>1 DEF Area, CopyTo, BufferInv, TypeOK, readableBytes, writableBytes
    <3>4. readableBytes \in Nat /\ writableBytes \in Nat
      BY DEF BufferInv, TypeOK, readableBytes, writableBytes
    <3>5. content \o [i \in 1..writableBytes |-> data[i]]
            = [i \in 1..(readableBytes + writableBytes) |->
                 IF i <= readableBytes THEN buffer_[readerIndex_ + i - 1]
                                       ELSE data[i - readableBytes]]
      BY ONLY <3>2, <3>4
    <3> HIDE DEF first, b
    <3> QED
      BY ONLY <3>1, <3>3, <3>5
  <2>5. first \o rest = data
    <3>1. SubSeq(data, 1, Len(data)) = data
      OBVIOUS
    <3>2. /\ 1 \in 1..(Len(data) + 1) /\ Len(data) \in writableBytes..Len(data)
          /\ writableBytes \in (1 - 1)..Len(data)
      BY <1>2, <2>1
    <3>3. first \o rest = SubSeq(data, 1, Len(data))
      BY ONLY <3>2, data \in Seq(Byte), ConcatAdjacentSubSeq, Zenon
    <3> QED
      BY <3>1, <3>3
  <2>6. TypeOK' /\ Readable' = Area(b, size) \o rest
    BY <1>2, <2>1, <2>3, AppendCorrect
  <2>7. content \o first \o rest = content \o data
    <3>1. content \in Seq(Byte)
      BY DEF BufferInv, TypeOK, BytesKept, Readable, readableBytes
    <3> HIDE DEF first, rest
    <3>2. (content \o first) \o rest = content \o (first \o rest)
      BY ONLY <2>1, <3>1, Associative, Zenon
    <3> QED
      BY <2>5, <3>2
  <2>8. content' = content \o data
    BY DEF readFd
  <2> QED
    BY <2>4, <2>6, <2>7, <2>8 DEF BufferInv, BytesKept
<1> QED
  BY <1>1, <1>2 DEF readFd

\* The bytes that can be read are the bytes appended or read from the socket
\* and not retrieved, in their order, and the indices stay in order: for every
\* size of the buffer, of extrabuf and of the calls.
THEOREM BufferCorrect == Spec => [](TypeOK /\ BytesKept)
<1>1. ASSUME BufferInv, [Next]_vars PROVE BufferInv'
  <2> USE <1>1, BufferAssumption DEF BufferAssumption
  <2>1. \A data \in Data : data \in Seq(Byte)
    BY DEF Data
  <2>2. ASSUME NEW data \in Data, append(data) \/ readFd(data) PROVE BufferInv'
    BY <2>1, <2>2, AppendKeeps, ReadFdKeeps
  <2>3. ASSUME NEW len \in 0..(readableBytes + 1), retrieve(len) PROVE BufferInv'
    BY <2>3, RetrieveKeeps DEF BufferInv, TypeOK, readableBytes
  <2>4. CASE retrieveAll
    BY <2>4, RetrieveAllKeeps
  <2>5. CASE UNCHANGED vars
    BY <2>5 DEF vars, BufferInv, TypeOK, BytesKept, Readable, readableBytes
  <2> QED
    BY <2>2, <2>3, <2>4, <2>5 DEF Next
<1> QED
  BY <1>1, BufferInit, PTL DEF Spec, BufferInv

-----------------------------------------------------------------------------
(* SharedPtr: an object is deleted only when its last pointer lets it go.  *)

PtrConstants ==
    /\ IsFiniteSet(Pointers)
    /\ Null \notin Objects /\ Unborn \notin Objects /\ Null # Unborn

-----------------------------------------------------------------------------
(* How many pointers there are to an object.                               *)

PtrValues == Objects \union {Null, Unborn}

Number(f, o) == Cardinality({q \in Pointers : f[q] = o})

Is(x, y) == IF x = y THEN 1 ELSE 0

\* An instance has operators of its own, Cardinality among them.
LEMMA PtrCardinality == \A S : Ptr!Cardinality(S) = Cardinality(S)
BY DEF Ptr!Cardinality, Cardinality

LEMMA NumberType ==
    ASSUME IsFiniteSet(Pointers), NEW f, NEW o
    PROVE  IsFiniteSet({q \in Pointers : f[q] = o}) /\ Number(f, o) \in Nat
<1>1. IsFiniteSet({q \in Pointers : f[q] = o})
  BY FS_Subset
<1> QED BY <1>1, FS_CardinalityType DEF Number

\* g is f but for the pointer p, which has become v.
Changed(f, g, p, v) ==
    f \in [Pointers -> PtrValues] /\ p \in Pointers /\ g = [f EXCEPT ![p] = v]

\* A pointer that changes is taken from the old object and added to the new one.
LEMMA NumberUpdate ==
    ASSUME IsFiniteSet(Pointers), NEW f, NEW g, NEW p, NEW v, Changed(f, g, p, v), NEW o
    PROVE  Number(g, o) = Number(f, o) - Is(f[p], o) + Is(v, o)
<1> DEFINE old == {q \in Pointers : f[q] = o}
           new == {q \in Pointers : g[q] = o}
<1> USE DEF Changed
<1>1. IsFiniteSet(old) /\ Cardinality(old) \in Nat
  BY NumberType DEF Number
<1>2. p \in old <=> f[p] = o
  OBVIOUS
<1>3. CASE v = o
  <2>1. new = old \union {p}
    BY <1>3
  <2>2. Cardinality(new) = Cardinality(old) - Is(f[p], o) + 1
    <3>1. CASE f[p] = o
      <4>1. new = old
        BY <1>2, <2>1, <3>1
      <4>2. Is(f[p], o) = 1 /\ Cardinality(old) - 1 + 1 = Cardinality(old)
        BY <1>1, <3>1 DEF Is
      <4> QED BY <4>1, <4>2
    <3>2. CASE f[p] # o
      <4>1. p \notin old
        BY <3>2
      <4>2. Cardinality(new) = Cardinality(old) + 1
        BY <1>1, <2>1, <4>1, FS_AddElement
      <4> QED BY <1>1, <3>2, <4>2 DEF Is
    <3> QED BY <3>1, <3>2
  <2> QED BY <1>3, <2>2 DEF Number, Is
<1>4. CASE v # o
  <2>1. new = old \ {p}
    <3>1. \A q \in Pointers : g[q] = IF q = p THEN v ELSE f[q]
      OBVIOUS
    <3> QED BY <1>4, <3>1
  <2>2. Cardinality(new) = Cardinality(old) - Is(f[p], o)
    <3>1. CASE f[p] = o
      <4>1. p \in old
        BY <3>1
      <4>2. Cardinality(old \ {p}) = Cardinality(old) - 1
        <5> HIDE DEF old
        <5> QED BY <1>1, <4>1, FS_RemoveElement
      <4> QED BY <2>1, <3>1, <4>2 DEF Is
    <3>2. CASE f[p] # o
      <4>1. new = old
        BY <1>2, <2>1, <3>2
      <4>2. Is(f[p], o) = 0 /\ Cardinality(old) - 0 = Cardinality(old)
        <5> HIDE DEF old
        <5> QED BY <1>1, <3>2 DEF Is
      <4> QED BY <4>1, <4>2
    <3> QED BY <3>1, <3>2
  <2>3. Cardinality(new) \in Int
    <3>1. IsFiniteSet(new)
      BY FS_Subset
    <3> QED BY <3>1, FS_CardinalityType
  <2> QED BY <1>4, <2>2, <2>3 DEF Number, Is
<1> QED BY <1>3, <1>4

LEMMA NumberOfOne ==
    ASSUME IsFiniteSet(Pointers), NEW f, NEW p \in Pointers
    PROVE  Number(f, f[p]) >= 1
<1> DEFINE owners == {q \in Pointers : f[q] = f[p]}
<1>1. IsFiniteSet(owners) /\ Cardinality(owners) \in Nat
  BY NumberType DEF Number
<1>2. owners # {}
  OBVIOUS
<1>3. Cardinality(owners) # 0
  BY <1>1, <1>2, FS_EmptySet
<1> QED BY <1>1, <1>3 DEF Number

LEMMA NumberOfTwo ==
    ASSUME PtrConstants, NEW f \in [Pointers -> PtrValues], NEW p \in Pointers,
           NEW q \in Pointers, p # q, NEW o \in Objects, f[p] = o, f[q] = o
    PROVE  Number(f, o) >= 2
<1> DEFINE g == [f EXCEPT ![p] = Unborn]
<1>1. Number(g, o) = Number(f, o) - Is(f[p], o) + Is(Unborn, o)
  <2>1. Changed(f, g, p, Unborn)
    BY DEF Changed
  <2> QED BY <2>1, NumberUpdate DEF PtrConstants
<1>2. Is(f[p], o) = 1 /\ Is(Unborn, o) = 0
  BY DEF Is, PtrConstants
<1>3. Number(g, g[q]) >= 1
  BY NumberOfOne DEF PtrConstants
<1>4. g[q] = o
  OBVIOUS
<1>5. Number(g, o) >= 1
  BY <1>3, <1>4
<1>6. Number(f, o) \in Nat
  BY NumberType DEF PtrConstants
<1> HIDE DEF g
<1> QED BY <1>1, <1>2, <1>5, <1>6

-----------------------------------------------------------------------------
(* The invariant.                                                          *)

\* OwnersCounted of one object, and nothing points to an object before it is owned.
Counted(o) ==
    /\ m_ref_count[o] = Number(m_ptr, o) + ended[o]
    /\ object[o] = "deleted" <=> m_ref_count[o] = 0 /\ object[o] # "raw"
    /\ object[o] = "raw" => m_ref_count[o] = 0

PtrInv == Ptr!TypeOK /\ \A o \in Objects : Counted(o)

LEMMA PtrInit == ASSUME PtrConstants PROVE Ptr!Init => PtrInv
<1> SUFFICES ASSUME Ptr!Init PROVE PtrInv
  OBVIOUS
<1>1. Ptr!TypeOK
  BY DEF Ptr!Init, Ptr!TypeOK
<1>2. ASSUME NEW o \in Objects PROVE Number(m_ptr, o) = 0
  <2>1. {q \in Pointers : m_ptr[q] = o} = {}
    BY DEF Ptr!Init, PtrConstants
  <2> QED BY <2>1, FS_EmptySet DEF Number
<1> QED BY <1>1, <1>2 DEF Ptr!Init, PtrInv, Counted

\* A pointer's object has been counted, and twice if another pointer has it too.
LEMMA PointedTo ==
    ASSUME PtrConstants, PtrInv, NEW p \in Pointers, m_ptr[p] \in Objects
    PROVE  /\ m_ref_count[m_ptr[p]] >= 1
           /\ object[m_ptr[p]] = "owned"
           /\ \A q \in Pointers : q # p /\ m_ptr[q] = m_ptr[p] => m_ref_count[m_ptr[p]] >= 2
<1> DEFINE o == m_ptr[p]
<1>1. Number(m_ptr, o) \in Nat /\ Number(m_ptr, o) >= 1 /\ ended[o] \in Nat
  BY NumberType, NumberOfOne DEF PtrConstants, PtrInv, Ptr!TypeOK
<1>2. m_ref_count[o] = Number(m_ptr, o) + ended[o]
  BY DEF PtrInv, Counted
<1>3. object[o] = "owned"
  BY <1>1, <1>2 DEF PtrInv, Counted, Ptr!TypeOK
<1>4. ASSUME NEW q \in Pointers, q # p, m_ptr[q] = o PROVE Number(m_ptr, o) >= 2
  BY <1>4, NumberOfTwo DEF PtrInv, Ptr!TypeOK, PtrValues
<1> QED BY <1>1, <1>2, <1>3, <1>4

LEMMA PtrTypeStep ==
    ASSUME PtrConstants, PtrInv, [Ptr!Next]_(Ptr!vars)
    PROVE  Ptr!TypeOK'
<1> USE DEF Ptr!TypeOK, Ptr!Alive
<1>t. Ptr!TypeOK
  BY DEF PtrInv
<1>i. \A f \in [Objects -> Nat] : \A o : Ptr!Incremented(f, o) \in [Objects -> Nat]
  BY DEF Ptr!Incremented
<1>1. ASSUME NEW p \in Pointers, Ptr!Empty(p) \/ Ptr!End(p) PROVE Ptr!TypeOK'
  BY <1>t, <1>1, <1>i DEF Ptr!Empty, Ptr!End
<1>2. ASSUME NEW p \in Pointers, NEW o \in Objects, Ptr!FromRaw(p, o) PROVE Ptr!TypeOK'
  BY <1>t, <1>2 DEF Ptr!FromRaw
<1>3. ASSUME NEW p \in Pointers, NEW q \in Pointers, Ptr!Copy(p, q) PROVE Ptr!TypeOK'
  BY <1>t, <1>3, <1>i DEF Ptr!Copy
<1>4. ASSUME NEW p \in Pointers, NEW q \in Pointers, Ptr!Move(p, q) \/ Ptr!MoveAssign(p, q)
      PROVE  Ptr!TypeOK'
  BY <1>t, <1>4, <1>i DEF Ptr!Move, Ptr!MoveAssign
<1>5. ASSUME NEW p \in Pointers, NEW q \in Pointers, Ptr!Assign(p, q) PROVE Ptr!TypeOK'
  <2>1. m_ptr[p] \in Objects => m_ref_count[m_ptr[p]] - 1 \in Nat
    BY <1>t, PointedTo
  <2>2. (IF m_ptr[p] \in Objects THEN [m_ref_count EXCEPT ![m_ptr[p]] = @ - 1]
         ELSE m_ref_count) \in [Objects -> Nat]
    BY <1>t, <2>1
  <2>3. m_ref_count' \in [Objects -> Nat]
    BY <1>5, <1>i, <2>2 DEF Ptr!Assign
  <2> QED BY <1>t, <1>5, <2>3 DEF Ptr!Assign
<1>6. CASE UNCHANGED Ptr!vars
  BY <1>t, <1>6 DEF Ptr!vars
<1> QED
  BY <1>1, <1>2, <1>3, <1>4, <1>5, <1>6 DEF Ptr!Next

LEMMA CountedStep ==
    ASSUME PtrConstants, PtrInv, [Ptr!Next]_(Ptr!vars), NEW o \in Objects
    PROVE  Counted(o)'
<1> USE DEF PtrConstants
<1>t. Ptr!TypeOK /\ Counted(o)
  BY DEF PtrInv
<1>n. Number(m_ptr, o) \in Nat /\ m_ref_count[o] \in Nat /\ ended[o] \in Nat
  BY <1>t, NumberType DEF Ptr!TypeOK
<1>f. m_ptr \in [Pointers -> PtrValues]
  BY <1>t DEF Ptr!TypeOK, PtrValues
<1>1. ASSUME NEW p \in Pointers, Ptr!Empty(p) PROVE Counted(o)'
  <2>1. Number(m_ptr', o) = Number(m_ptr, o)
    <3>1. m_ptr[p] = Unborn /\ Changed(m_ptr, m_ptr', p, Null)
      BY <1>1, <1>f DEF Ptr!Empty, Ptr!Alive, Changed
    <3>2. Number(m_ptr', o) = Number(m_ptr, o) - Is(m_ptr[p], o) + Is(Null, o)
      BY <3>1, NumberUpdate
    <3> QED BY <1>n, <3>1, <3>2 DEF Is
  <2> QED BY <1>t, <1>1, <2>1 DEF Ptr!Empty, Counted
<1>2. ASSUME NEW p \in Pointers, Ptr!End(p) PROVE Counted(o)'
  <2>1. Number(m_ptr', o) = Number(m_ptr, o) - Is(m_ptr[p], o)
    <3>1. Changed(m_ptr, m_ptr', p, Unborn)
      BY <1>2, <1>f DEF Ptr!End, Changed
    <3>2. Number(m_ptr', o) = Number(m_ptr, o) - Is(m_ptr[p], o) + Is(Unborn, o)
      BY <3>1, NumberUpdate
    <3> QED BY <1>n, <3>2 DEF Is
  <2>2. ended'[o] = ended[o] + Is(m_ptr[p], o)
    BY <1>t, <1>2, <1>n DEF Ptr!End, Ptr!Incremented, Is, Ptr!TypeOK
  <2>3. UNCHANGED <<m_ref_count, object>>
    BY <1>2 DEF Ptr!End
  <2> QED BY <1>t, <1>n, <2>1, <2>2, <2>3 DEF Counted, Is
<1>3. ASSUME NEW p \in Pointers, NEW x \in Objects, Ptr!FromRaw(p, x) PROVE Counted(o)'
  <2>1. Number(m_ptr', o) = Number(m_ptr, o) + Is(x, o)
    <3>1. m_ptr[p] = Unborn /\ Changed(m_ptr, m_ptr', p, x)
      BY <1>3, <1>f DEF Ptr!FromRaw, Ptr!Alive, Changed
    <3>2. Number(m_ptr', o) = Number(m_ptr, o) - Is(m_ptr[p], o) + Is(x, o)
      BY <3>1, NumberUpdate
    <3> QED BY <1>n, <3>1, <3>2 DEF Is
  <2>2. CASE x = o
    BY <1>t, <1>3, <1>n, <2>1, <2>2 DEF Ptr!FromRaw, Counted, Is, Ptr!TypeOK
  <2>3. CASE x # o
    BY <1>t, <1>3, <1>n, <2>1, <2>3 DEF Ptr!FromRaw, Counted, Is, Ptr!TypeOK
  <2> QED BY <2>2, <2>3
<1>4. ASSUME NEW p \in Pointers, NEW q \in Pointers, Ptr!Copy(p, q) PROVE Counted(o)'
  <2>1. Number(m_ptr', o) = Number(m_ptr, o) + Is(m_ptr[q], o)
    <3>1. m_ptr[p] = Unborn /\ Changed(m_ptr, m_ptr', p, m_ptr[q])
      BY <1>4, <1>f DEF Ptr!Copy, Ptr!Alive, Changed
    <3>2. Number(m_ptr', o) = Number(m_ptr, o) - Is(m_ptr[p], o) + Is(m_ptr[q], o)
      BY <3>1, NumberUpdate
    <3> QED BY <1>n, <3>1, <3>2 DEF Is
  <2>2. m_ref_count'[o] = m_ref_count[o] + Is(m_ptr[q], o)
    BY <1>t, <1>4, <1>n DEF Ptr!Copy, Ptr!Incremented, Is, Ptr!TypeOK
  <2>3. m_ptr[q] = o => m_ref_count[o] >= 1 /\ object[o] = "owned"
    BY PointedTo
  <2>4. UNCHANGED <<object, ended>>
    BY <1>4 DEF Ptr!Copy
  <2>5. m_ref_count'[o] = Number(m_ptr', o) + ended'[o]
    BY <1>t, <1>n, <2>1, <2>2, <2>4 DEF Counted, Is
  <2> QED BY <1>t, <1>n, <2>2, <2>3, <2>4, <2>5 DEF Counted, Is
<1>5. ASSUME NEW p \in Pointers, NEW q \in Pointers, Ptr!Move(p, q) PROVE Counted(o)'
  <2> DEFINE g == [m_ptr EXCEPT ![p] = m_ptr[q]]
  <2>1. p # q /\ m_ptr' = [g EXCEPT ![q] = Null]
    BY <1>5 DEF Ptr!Move, Ptr!Alive
  <2>2. Number(g, o) = Number(m_ptr, o) + Is(m_ptr[q], o)
    <3>1. m_ptr[p] = Unborn /\ Changed(m_ptr, g, p, m_ptr[q])
      BY <1>5, <1>f DEF Ptr!Move, Ptr!Alive, Changed
    <3>2. Number(g, o) = Number(m_ptr, o) - Is(m_ptr[p], o) + Is(m_ptr[q], o)
      BY <3>1, NumberUpdate
    <3> QED BY <1>n, <3>1, <3>2 DEF Is
  <2>3. g[q] = m_ptr[q] /\ Changed(g, m_ptr', q, Null)
    BY <1>f, <2>1 DEF PtrValues, Changed
  <2> HIDE DEF g
  <2>4. Number(m_ptr', o) = Number(g, o) - Is(g[q], o) + Is(Null, o)
    BY <2>3, NumberUpdate
  <2>5. Number(m_ptr', o) = Number(m_ptr, o)
    BY <1>n, <2>1, <2>2, <2>3, <2>4 DEF Is
  <2> QED BY <1>t, <1>5, <2>5 DEF Ptr!Move, Counted
<1>6. ASSUME NEW p \in Pointers, NEW q \in Pointers, Ptr!MoveAssign(p, q) PROVE Counted(o)'
  <2> DEFINE g == [m_ptr EXCEPT ![p] = m_ptr[q]]
  <2>1. p # q /\ m_ptr' = [g EXCEPT ![q] = Null]
    BY <1>6 DEF Ptr!MoveAssign
  <2>2. Number(g, o) = Number(m_ptr, o) - Is(m_ptr[p], o) + Is(m_ptr[q], o)
    <3>1. Changed(m_ptr, g, p, m_ptr[q])
      BY <1>f DEF Changed
    <3> QED BY <3>1, NumberUpdate
  <2>3. g[q] = m_ptr[q] /\ Changed(g, m_ptr', q, Null)
    BY <1>f, <2>1 DEF PtrValues, Changed
  <2> HIDE DEF g
  <2>4. Number(m_ptr', o) = Number(g, o) - Is(g[q], o) + Is(Null, o)
    BY <2>3, NumberUpdate
  <2>5. Number(m_ptr', o) = Number(m_ptr, o) - Is(m_ptr[p], o)
    BY <1>n, <2>1, <2>2, <2>3, <2>4 DEF Is
  <2>6. ended'[o] = ended[o] + Is(m_ptr[p], o)
    BY <1>t, <1>6, <1>n DEF Ptr!MoveAssign, Ptr!Incremented, Is, Ptr!TypeOK
  <2>7. UNCHANGED <<m_ref_count, object>>
    BY <1>6 DEF Ptr!MoveAssign
  <2> QED BY <1>t, <1>n, <2>5, <2>6, <2>7 DEF Counted, Is
<1>7. ASSUME NEW p \in Pointers, NEW q \in Pointers, Ptr!Assign(p, q) PROVE Counted(o)'
  <2>1. Number(m_ptr', o) = Number(m_ptr, o) - Is(m_ptr[p], o) + Is(m_ptr[q], o)
    <3>1. Changed(m_ptr, m_ptr', p, m_ptr[q])
      BY <1>7, <1>f DEF Ptr!Assign, Changed
    <3> QED BY <3>1, NumberUpdate
  <2>2. m_ref_count'[o] = m_ref_count[o] - Is(m_ptr[p], o) + Is(m_ptr[q], o)
    BY <1>t, <1>7, <1>n DEF Ptr!Assign, Ptr!Incremented, Is, Ptr!TypeOK
  <2>3. ended' = ended
    BY <1>7 DEF Ptr!Assign
  <2>4. object'[o] = IF m_ptr[p] = o /\ m_ref_count[o] = 1 THEN "deleted" ELSE object[o]
    BY <1>t, <1>7 DEF Ptr!Assign, Ptr!TypeOK
  <2>5. m_ptr[p] = o => m_ref_count[o] >= 1 /\ object[o] = "owned"
    BY PointedTo
  <2>6. m_ptr[q] = o => m_ref_count[o] >= 1 /\ object[o] = "owned"
    BY PointedTo
  <2>7. m_ptr[p] = o /\ m_ptr[q] = o => m_ref_count[o] >= 2
    BY <1>7, PointedTo DEF Ptr!Assign
  <2>8. m_ref_count'[o] = Number(m_ptr', o) + ended'[o]
    BY <1>t, <1>n, <2>1, <2>2, <2>3 DEF Counted, Is
  <2>9. CASE m_ptr[p] = o /\ m_ref_count[o] = 1
    BY <1>n, <2>2, <2>4, <2>7, <2>8, <2>9 DEF Counted, Is
  <2>10. CASE ~(m_ptr[p] = o /\ m_ref_count[o] = 1)
    <3>1. object'[o] = object[o]
      BY <2>4, <2>10
    <3>2. CASE m_ptr[p] = o \/ m_ptr[q] = o
      <4>1. object[o] = "owned" /\ m_ref_count'[o] # 0
        BY <1>n, <2>2, <2>5, <2>6, <2>7, <2>10, <3>2 DEF Is
      <4> QED BY <2>8, <3>1, <4>1 DEF Counted
    <3>3. CASE m_ptr[p] # o /\ m_ptr[q] # o
      <4>1. m_ref_count'[o] = m_ref_count[o]
        BY <1>n, <2>2, <3>3 DEF Is
      <4> QED BY <1>t, <2>8, <3>1, <4>1 DEF Counted
    <3> QED BY <3>2, <3>3
  <2> QED BY <2>9, <2>10
<1>8. CASE UNCHANGED Ptr!vars
  BY <1>t, <1>8 DEF Ptr!vars, Counted
<1> QED
  BY <1>1, <1>2, <1>3, <1>4, <1>5, <1>6, <1>7, <1>8 DEF Ptr!Next

LEMMA PtrInvariant == ASSUME PtrConstants PROVE Ptr!Spec => []PtrInv
<1>1. PtrInv /\ [Ptr!Next]_(Ptr!vars) => PtrInv'
  BY PtrTypeStep, CountedStep DEF PtrInv
<1> QED BY PtrInit, <1>1, PTL DEF Ptr!Spec

\* Type correctness for any pointers and objects: no count goes below zero.
LEMMA PtrTypeCorrect ==
    ASSUME PtrConstants
    PROVE  Ptr!Spec => []Ptr!TypeOK
<1>1. PtrInv => Ptr!TypeOK
  BY DEF PtrInv
<1> QED BY PtrInvariant, <1>1, PTL

\* The count of an object is the number of its pointers and of those that ended
\* uncounted, and it is deleted exactly when the count has come back to zero.
LEMMA PtrOwnersCounted ==
    ASSUME PtrConstants
    PROVE  Ptr!Spec => []Ptr!OwnersCounted
<1>1. PtrInv => Ptr!OwnersCounted
  BY PtrCardinality DEF PtrInv, Ptr!OwnersCounted, Counted, Number
<1> QED BY PtrInvariant, <1>1, PTL

-----------------------------------------------------------------------------
(* BankTransfer: the money is kept, and the threads block only as is known.*)

BankConstants == Start \in Nat /\ Nobody \notin Bank!Accounts

\* Where a thread holds both locks.
HoldsBoth == {"test", "read", "write", "read2", "write2", "unlock"}

-----------------------------------------------------------------------------
(* Types, and where the threads of each program can be.                    *)

Phases ==
    \A t \in Bank!Accounts :
        /\ bank = "11" => pc[t] \in {"draw", "take", "takeWait", "give", "giveWait"}
        /\ bank # "11" => pc[t] \in {"draw", "lock", "lock2"} \union HoldsBoth
        /\ bank = "10" => pc[t] # "lock2"

LEMMA BankTypeInit == ASSUME BankConstants PROVE Bank!Init => Bank!TypeOK /\ Phases
BY DEF Bank!Init, Bank!TypeOK, Phases, BankConstants

LEMMA BankTypeStep ==
    ASSUME BankConstants, Bank!TypeOK, Phases, [Bank!Next]_(Bank!vars)
    PROVE  Bank!TypeOK' /\ Phases'
<1> USE DEF Bank!TypeOK, Phases, HoldsBoth, Bank!Goto
<1>o. \A t \in Bank!Accounts : Bank!Other(t) \in Bank!Accounts
  BY DEF Bank!Other, Bank!Accounts
<1>1. ASSUME NEW t \in Bank!Accounts, Bank!Draw(t) PROVE Bank!TypeOK' /\ Phases'
  BY <1>1 DEF Bank!Draw
<1>2. ASSUME NEW t \in Bank!Accounts, Bank!LockGiver(t) \/ Bank!LockReceiver(t)
      PROVE  Bank!TypeOK' /\ Phases'
  BY <1>2, <1>o DEF Bank!LockGiver, Bank!LockReceiver
<1>3. ASSUME NEW t \in Bank!Accounts, Bank!LockBoth(t) \/ Bank!Unlock(t)
      PROVE  Bank!TypeOK' /\ Phases'
  BY <1>3 DEF Bank!LockBoth, Bank!Unlock
<1>4. ASSUME NEW t \in Bank!Accounts, Bank!Test(t) \/ Bank!Sleep(t)
      PROVE  Bank!TypeOK' /\ Phases'
  BY <1>4 DEF Bank!Test, Bank!Sleep
<1>5. ASSUME NEW t \in Bank!Accounts, Bank!Withdraw(t) PROVE Bank!TypeOK' /\ Phases'
  BY <1>5, <1>o DEF Bank!Withdraw, Bank!Read, Bank!Write
<1>6. ASSUME NEW t \in Bank!Accounts, Bank!Deposit(t) PROVE Bank!TypeOK' /\ Phases'
  BY <1>6, <1>o DEF Bank!Deposit, Bank!Read, Bank!Write
<1>7. ASSUME NEW t \in Bank!Accounts, Bank!ChangeMoney(t) PROVE Bank!TypeOK' /\ Phases'
  <2>1. Bank!Account(t) \in Bank!Accounts /\ Bank!Change(t) \in Int
    BY <1>o, BankConstants DEF Bank!Account, Bank!Change, BankConstants
  <2>2. money' \in [Bank!Accounts -> Int]
    BY <1>7, <2>1 DEF Bank!ChangeMoney
  <2> QED BY <1>7, <2>2 DEF Bank!ChangeMoney
<1>8. CASE UNCHANGED Bank!vars
  BY <1>8 DEF Bank!vars
<1> QED
  BY <1>1, <1>2, <1>3, <1>4, <1>5, <1>6, <1>7, <1>8 DEF Bank!Next, Bank!Step

\* Type correctness, and each thread stays in the program it runs.
LEMMA BankTypeCorrect ==
    ASSUME BankConstants
    PROVE  Bank!Spec => [](Bank!TypeOK /\ Phases)
BY BankTypeInit, BankTypeStep, PTL DEF Bank!Spec

-----------------------------------------------------------------------------
(* The locks.                                                              *)

\* A thread holds exactly the locks its place says.
Locking ==
    \A t, a \in Bank!Accounts :
        lock[a] = t <=> pc[t] \in HoldsBoth \/ (pc[t] = "lock2" /\ a = t)

LEMMA LockingStep ==
    ASSUME BankConstants, Bank!TypeOK, Phases, Locking, [Bank!Next]_(Bank!vars)
    PROVE  Locking'
<1> USE DEF Bank!TypeOK, Phases, HoldsBoth, Bank!Goto, Locking, Bank!Accounts, BankConstants
<1>1. ASSUME NEW t \in Bank!Accounts, Bank!Draw(t) PROVE Locking'
  BY <1>1 DEF Bank!Draw
<1>2. ASSUME NEW t \in Bank!Accounts, Bank!LockGiver(t) PROVE Locking'
  BY <1>2 DEF Bank!LockGiver
<1>3. ASSUME NEW t \in Bank!Accounts, Bank!LockReceiver(t) PROVE Locking'
  BY <1>3 DEF Bank!LockReceiver, Bank!Other
<1>4. ASSUME NEW t \in Bank!Accounts, Bank!LockBoth(t) PROVE Locking'
  BY <1>4 DEF Bank!LockBoth
<1>5. ASSUME NEW t \in Bank!Accounts, Bank!Unlock(t) PROVE Locking'
  BY <1>5 DEF Bank!Unlock
<1>6. ASSUME NEW t \in Bank!Accounts, Bank!Test(t) \/ Bank!Sleep(t) PROVE Locking'
  BY <1>6 DEF Bank!Test, Bank!Sleep
<1>7. ASSUME NEW t \in Bank!Accounts, Bank!Withdraw(t) \/ Bank!Deposit(t) PROVE Locking'
  BY <1>7 DEF Bank!Withdraw, Bank!Deposit, Bank!Read, Bank!Write
<1>8. ASSUME NEW t \in Bank!Accounts, Bank!ChangeMoney(t) PROVE Locking'
  <2>1. \A u \in Bank!Accounts : pc[u] \notin HoldsBoth \union {"lock2"}
    BY <1>8 DEF Bank!ChangeMoney
  <2>2. \A u \in Bank!Accounts : pc'[u] \notin HoldsBoth \union {"lock2"}
    BY <1>8 DEF Bank!ChangeMoney
  <2> QED BY <1>8, <2>1, <2>2 DEF Bank!ChangeMoney
<1>9. CASE UNCHANGED Bank!vars
  BY <1>9 DEF Bank!vars
<1> QED
  BY <1>1, <1>2, <1>3, <1>4, <1>5, <1>6, <1>7, <1>8, <1>9 DEF Bank!Next, Bank!Step

-----------------------------------------------------------------------------
(* The money.                                                              *)

\* A thread's test of the balance and its reading of it are still true when it writes.
Reading ==
    \A t \in Bank!Accounts :
        /\ pc[t] \in {"read", "write"} => amount[t] <= money[t]
        /\ pc[t] = "write" => reg[t] = money[t]
        /\ pc[t] = "write2" => reg[t] = money[Bank!Other(t)]

\* In 11 a thread that sleeps still has reason to, and only a withdrawal makes it sleep.
Waiting ==
    bank = "11" =>
        \A t \in Bank!Accounts :
            /\ pc[t] = "takeWait" => money[t] <= amount[t]
            /\ pc[t] # "giveWait"
            /\ pc[t] = "give" => Start > 0
            /\ (money[t] > 0 /\ Start > 0) \/ (money[t] = 0 /\ Start = 0)

BankInv == Locking /\ Reading /\ Waiting /\ Bank!MoneyKept

LEMMA BankInit == ASSUME BankConstants PROVE Bank!Init => BankInv
BY DEF Bank!Init, BankInv, Locking, Reading, Waiting, Bank!MoneyKept, Bank!InFlight,
       BankConstants,
       Bank!Accounts, HoldsBoth

LEMMA ReadingStep ==
    ASSUME BankConstants, Bank!TypeOK, Phases, Locking, Reading, [Bank!Next]_(Bank!vars)
    PROVE  Reading'
<1> USE DEF Bank!TypeOK, Phases, HoldsBoth, Bank!Goto, Locking, Reading, Bank!Accounts,
            BankConstants, Bank!Other
<1>1. ASSUME NEW t \in Bank!Accounts, Bank!Draw(t) PROVE Reading'
  BY <1>1 DEF Bank!Draw
<1>2. ASSUME NEW t \in Bank!Accounts, Bank!LockGiver(t) \/ Bank!LockReceiver(t)
                               \/ Bank!LockBoth(t) \/ Bank!Unlock(t)
      PROVE  Reading'
  BY <1>2 DEF Bank!LockGiver, Bank!LockReceiver, Bank!LockBoth, Bank!Unlock
<1>3. ASSUME NEW t \in Bank!Accounts, Bank!Test(t) \/ Bank!Sleep(t) PROVE Reading'
  BY <1>3 DEF Bank!Test, Bank!Sleep
<1>4. ASSUME NEW t \in Bank!Accounts, Bank!Withdraw(t) PROVE Reading'
  <2>1. pc[Bank!Other(t)] \notin HoldsBoth
    BY <1>4 DEF Bank!Withdraw, Bank!Read, Bank!Write
  <2> QED BY <1>4, <2>1 DEF Bank!Withdraw, Bank!Read, Bank!Write
<1>5. ASSUME NEW t \in Bank!Accounts, Bank!Deposit(t) PROVE Reading'
  <2>1. pc[Bank!Other(t)] \notin HoldsBoth
    BY <1>5 DEF Bank!Deposit, Bank!Read, Bank!Write
  <2> QED BY <1>5, <2>1 DEF Bank!Deposit, Bank!Read, Bank!Write
<1>6. ASSUME NEW t \in Bank!Accounts, Bank!ChangeMoney(t) PROVE Reading'
  <2>1. \A u \in Bank!Accounts : pc'[u] \notin HoldsBoth
    BY <1>6 DEF Bank!ChangeMoney
  <2> QED BY <2>1
<1>7. CASE UNCHANGED Bank!vars
  BY <1>7 DEF Bank!vars
<1> QED
  BY <1>1, <1>2, <1>3, <1>4, <1>5, <1>6, <1>7 DEF Bank!Next, Bank!Step

LEMMA WaitingStep ==
    ASSUME BankConstants, Bank!TypeOK, Phases, Waiting, [Bank!Next]_(Bank!vars)
    PROVE  Waiting'
<1> SUFFICES ASSUME bank = "11" PROVE Waiting'
  <2>1. ASSUME NEW t \in Bank!Accounts, Bank!Step(t) PROVE bank' = bank
    <3> QED BY <2>1 DEF Bank!Step, Bank!Draw, Bank!LockGiver, Bank!LockReceiver,
                        Bank!LockBoth, Bank!Test, Bank!Withdraw, Bank!Deposit,
                        Bank!Read, Bank!Write, Bank!Unlock, Bank!ChangeMoney, Bank!Sleep
  <2>2. bank' = bank
    BY <2>1 DEF Bank!Next, Bank!vars
  <2> QED BY <2>2 DEF Waiting
<1> USE DEF Bank!TypeOK, Phases, HoldsBoth, Bank!Goto, Waiting, Bank!Accounts, BankConstants
<1>1. ASSUME NEW t \in Bank!Accounts, Bank!Draw(t) PROVE Waiting'
  BY <1>1 DEF Bank!Draw
<1>2. ASSUME NEW t \in Bank!Accounts, Bank!Sleep(t) PROVE Waiting'
  BY <1>2 DEF Bank!Sleep, Bank!CanChange, Bank!Account, Bank!Change, Bank!Other
<1>3. ASSUME NEW t \in Bank!Accounts, Bank!ChangeMoney(t) PROVE Waiting'
  <2> DEFINE u == Bank!Other(t)
  <2>1. u \in Bank!Accounts /\ u # t /\ Bank!Accounts = {t, u} /\ Bank!Other(u) = t
    BY DEF Bank!Other
  <2>2. amount[t] \in Nat /\ money[t] \in Int /\ money[u] \in Int
    BY <2>1
  <2>3. CASE pc[t] = "take"
    <3>1. money[t] > amount[t] /\ money' = [money EXCEPT ![t] = @ - amount[t]]
      <4>1. Bank!Account(t) = t /\ Bank!Change(t) = -amount[t]
        BY <2>3 DEF Bank!Account, Bank!Change
      <4>2. money[t] + (-amount[t]) > 0 /\ money' = [money EXCEPT ![t] = @ + (-amount[t])]
        BY <1>3, <4>1 DEF Bank!ChangeMoney, Bank!CanChange
      <4>3. money[t] + (-amount[t]) = money[t] - amount[t]
        BY <2>2
      <4>4. money[t] > amount[t]
        BY <2>2, <4>2
      <4> QED BY <4>2, <4>3, <4>4
    <3>2. pc'[t] = "give" /\ (pc'[u] = pc[u] \/ (pc[u] = "giveWait" /\ pc'[u] = "give"))
      BY <1>3, <2>1, <2>3 DEF Bank!ChangeMoney, Bank!Account
    <3>3. money'[t] > 0 /\ money'[u] = money[u] /\ Start > 0
      BY <2>1, <2>2, <3>1 DEF Waiting
    <3>4. UNCHANGED <<bank, amount>> /\ pc'[u] = pc[u]
      BY <1>3, <2>1, <3>2 DEF Bank!ChangeMoney
    <3> QED BY <2>1, <3>2, <3>3, <3>4
  <2>4. CASE pc[t] = "give"
    <3>1. money' = [money EXCEPT ![u] = @ + amount[t]]
      BY <1>3, <2>4 DEF Bank!ChangeMoney, Bank!Account, Bank!Change
    <3>2. pc'[t] = "draw" /\ pc'[u] = IF pc[u] = "takeWait" THEN "take" ELSE pc[u]
      BY <1>3, <2>1, <2>4 DEF Bank!ChangeMoney, Bank!Account
    <3> QED BY <1>3, <2>1, <2>2, <3>1, <3>2 DEF Bank!ChangeMoney
  <2> QED BY <1>3, <2>3, <2>4 DEF Bank!ChangeMoney
<1>4. ASSUME NEW t \in Bank!Accounts,
             \/ Bank!LockGiver(t) \/ Bank!LockReceiver(t) \/ Bank!LockBoth(t) \/ Bank!Test(t)
             \/ Bank!Withdraw(t) \/ Bank!Deposit(t) \/ Bank!Unlock(t)
      PROVE  Waiting'
  BY <1>4 DEF Bank!LockGiver, Bank!LockReceiver, Bank!LockBoth, Bank!Test, Bank!Withdraw,
              Bank!Deposit, Bank!Read, Bank!Write, Bank!Unlock
<1>5. CASE UNCHANGED Bank!vars
  BY <1>5 DEF Bank!vars
<1> QED
  BY <1>1, <1>2, <1>3, <1>4, <1>5 DEF Bank!Next, Bank!Step

LEMMA MoneyStep ==
    ASSUME BankConstants, Bank!TypeOK, Phases, Reading, Bank!MoneyKept,
           [Bank!Next]_(Bank!vars)
    PROVE  Bank!MoneyKept'
<1> USE DEF Bank!TypeOK, Phases, HoldsBoth, Bank!Goto, Reading, Bank!MoneyKept, Bank!InFlight,
            Bank!Accounts,
            BankConstants, Bank!Other
<1>1. ASSUME NEW t \in Bank!Accounts, Bank!Draw(t) PROVE Bank!MoneyKept'
  BY <1>1 DEF Bank!Draw
<1>2. ASSUME NEW t \in Bank!Accounts, Bank!LockGiver(t) \/ Bank!LockReceiver(t)
                               \/ Bank!LockBoth(t) \/ Bank!Unlock(t)
      PROVE  Bank!MoneyKept'
  BY <1>2 DEF Bank!LockGiver, Bank!LockReceiver, Bank!LockBoth, Bank!Unlock
<1>3. ASSUME NEW t \in Bank!Accounts, Bank!Test(t) \/ Bank!Sleep(t) PROVE Bank!MoneyKept'
  BY <1>3 DEF Bank!Test, Bank!Sleep
<1>4. ASSUME NEW t \in Bank!Accounts, Bank!Withdraw(t) PROVE Bank!MoneyKept'
  BY <1>4 DEF Bank!Withdraw, Bank!Read, Bank!Write
<1>5. ASSUME NEW t \in Bank!Accounts, Bank!Deposit(t) PROVE Bank!MoneyKept'
  BY <1>5 DEF Bank!Deposit, Bank!Read, Bank!Write
<1>6. ASSUME NEW t \in Bank!Accounts, Bank!ChangeMoney(t) PROVE Bank!MoneyKept'
  <2>1. CASE pc[t] = "take"
    BY <1>6, <2>1 DEF Bank!ChangeMoney, Bank!CanChange, Bank!Account, Bank!Change
  <2>2. CASE pc[t] = "give"
    BY <1>6, <2>2 DEF Bank!ChangeMoney, Bank!CanChange, Bank!Account, Bank!Change
  <2> QED BY <1>6, <2>1, <2>2 DEF Bank!ChangeMoney
<1>7. CASE UNCHANGED Bank!vars
  BY <1>7 DEF Bank!vars
<1> QED
  BY <1>1, <1>2, <1>3, <1>4, <1>5, <1>6, <1>7 DEF Bank!Next, Bank!Step

LEMMA BankCorrect ==
    ASSUME BankConstants
    PROVE  Bank!Spec => []BankInv
<1>1. Bank!TypeOK /\ Phases /\ BankInv /\ [Bank!Next]_(Bank!vars) => BankInv'
  BY LockingStep, ReadingStep, WaitingStep, MoneyStep DEF BankInv
<1> QED BY BankInit, BankTypeCorrect, <1>1, PTL DEF Bank!Spec

\* Transfers that overlap neither make nor lose money, and overdraw no account, in each
\* of the three programs and for any starting amount.
LEMMA BankMoneyKept ==
    ASSUME BankConstants
    PROVE  Bank!Spec => []Bank!MoneyKept
<1>1. BankInv => Bank!MoneyKept
  BY DEF BankInv
<1> QED BY BankCorrect, <1>1, PTL

\* The threads wait for each other only with one lock each in 09 and with the full
\* amount each in 11.
LEMMA BankStuckAsKnown ==
    ASSUME BankConstants
    PROVE  Bank!Spec => []Bank!StuckOnlyAsKnown
<1>1. Bank!TypeOK /\ Phases /\ BankInv => Bank!StuckOnlyAsKnown
  <2> SUFFICES ASSUME Bank!TypeOK, Phases, BankInv, \A t \in Bank!Accounts : Bank!Blocked(t)
               PROVE  \/ bank = "09" /\ \A t \in Bank!Accounts : lock[t] = t
                      \/ /\ bank = "11"
                         /\ \A t \in Bank!Accounts : money[t] = Start /\ amount[t] = Start
    BY DEF Bank!StuckOnlyAsKnown
  <2>1. CASE bank \in {"09", "10"}
    BY <2>1 DEF Bank!TypeOK, Phases, BankInv, Locking, Bank!Blocked, Bank!Accounts,
                Bank!Other, HoldsBoth,
                BankConstants
  <2>2. CASE bank = "11"
    <3>1. \A t \in Bank!Accounts : pc[t] = "takeWait"
      BY <2>2 DEF BankInv, Waiting, Bank!Blocked, Phases
    <3>2. \A t \in Bank!Accounts : money[t] <= amount[t] /\ amount[t] <= Start
      BY <2>2, <3>1 DEF BankInv, Waiting, Bank!TypeOK, BankConstants
    <3>3. money["alice"] + money["bob"] = 2 * Start
      BY <3>1 DEF BankInv, Bank!MoneyKept, Bank!InFlight, Bank!Accounts, Bank!TypeOK
    <3> QED BY <2>2, <3>2, <3>3 DEF Bank!Accounts, Bank!TypeOK, BankConstants
  <2> QED BY <2>1, <2>2 DEF Bank!TypeOK
<1> QED BY BankCorrect, BankTypeCorrect, <1>1, PTL

-----------------------------------------------------------------------------
(* Counters: the ranges of the threads and the sum of their terms.         *)

CountConstants ==
    /\ MAX \in Nat /\ concurrent_count \in Nat \ {0}
    /\ Nobody \notin Count!Threads

-----------------------------------------------------------------------------
(* The ranges.                                                             *)

LEMMA TimesMonotone ==
    ASSUME NEW q \in Nat, NEW a \in Nat, NEW b \in Nat, a <= b
    PROVE  q * a <= q * b
<1>1. b - a \in Nat /\ b = a + (b - a)
  OBVIOUS
<1>2. q * (b - a) \in Nat /\ q * (a + (b - a)) = q * a + q * (b - a)
  BY <1>1
<1> QED BY <1>1, <1>2

LEMMA Quotient ==
    ASSUME NEW a \in Nat, NEW b \in Nat \ {0}
    PROVE  /\ a \div b \in Nat
           /\ b * (a \div b) <= a
           /\ a < b * ((a \div b) + 1)
OBVIOUS

\* The ends of the ranges are in order, up to MAX.
LEMMA Ends ==
    ASSUME CountConstants
    PROVE  /\ \A t \in Count!Threads : Count!range(t) \in Nat /\ Count!min(t) \in Nat
           /\ \A t, u \in Count!Threads : t <= u => Count!range(t) <= Count!range(u)
           /\ \A t, u \in Count!Threads : t < u => Count!range(t) < Count!min(u)
           /\ \A t \in Count!Threads : Count!range(t) <= MAX
<1> DEFINE q == MAX \div concurrent_count
<1> USE DEF CountConstants, Count!Threads
<1>1. q \in Nat /\ concurrent_count * q <= MAX
  BY Quotient
<1>2. \A t \in Nat : Count!range(t) = q * (t + 1)
  BY DEF Count!range
<1> HIDE DEF q
<1>3. \A a, b \in Nat : a <= b => q * a <= q * b
  BY <1>1, TimesMonotone
<1>4. \A t \in Nat : q * t \in Nat
  BY <1>1
<1>5. \A t \in Count!Threads : t \in Nat /\ t + 1 \in Nat /\ t + 1 <= concurrent_count
  OBVIOUS
<1>6. \A t \in Count!Threads : Count!range(t) \in Nat
  BY <1>2, <1>4, <1>5
<1>7. \A t, u \in Count!Threads : t <= u => Count!range(t) <= Count!range(u)
  BY <1>2, <1>3, <1>5
<1>8. \A u \in Count!Threads : u # 0 => u - 1 \in Count!Threads
  OBVIOUS
<1>9. \A t \in Count!Threads : Count!min(t) \in Nat
  BY <1>6, <1>8 DEF Count!min
<1>10. \A t, u \in Count!Threads : t < u => Count!range(t) < Count!min(u)
  <2> SUFFICES ASSUME NEW t \in Count!Threads, NEW u \in Count!Threads, t < u
               PROVE  Count!range(t) < Count!min(u)
    OBVIOUS
  <2>1. u # 0 /\ u - 1 \in Count!Threads /\ t <= u - 1
    OBVIOUS
  <2>2. Count!min(u) = Count!range(u - 1) + 1 /\ Count!range(t) <= Count!range(u - 1)
    BY <1>7, <2>1 DEF Count!min
  <2> QED BY <1>6, <2>1, <2>2
<1>11. \A t \in Count!Threads : Count!range(t) <= MAX
  <2> SUFFICES ASSUME NEW t \in Count!Threads PROVE Count!range(t) <= MAX
    OBVIOUS
  <2>1. q * (t + 1) <= q * concurrent_count
    BY <1>3, <1>5
  <2>2. q * concurrent_count = concurrent_count * q
    BY <1>1
  <2> QED BY <1>1, <1>2, <1>4, <1>5, <2>1, <2>2
<1> QED BY <1>6, <1>7, <1>9, <1>10, <1>11

\* The terms a thread is given at first.
Given(t) == Count!Range(counter, t)

LEMMA Ranges ==
    ASSUME CountConstants
    PROVE  /\ \A t \in Count!Threads : Given(t) \subseteq Count!Terms
           /\ \A t, u \in Count!Threads : t # u => Given(t) \cap Given(u) = {}
<1> USE DEF Given, Count!Range, Count!Terms
<1>1. \A t \in Count!Threads : Given(t) \subseteq Count!Terms
  BY Ends DEF CountConstants
<1>2. ASSUME NEW t \in Count!Threads, NEW u \in Count!Threads, t < u
      PROVE  Given(t) \cap Given(u) = {}
  <2>1. /\ Count!range(t) < Count!min(u) /\ Count!range(t) \in Nat /\ Count!min(u) \in Nat
        /\ Count!range(u) \in Nat /\ Count!min(t) \in Nat
    BY <1>2, Ends
  <2> QED BY <2>1
<1>3. \A t \in Count!Threads : t \in Nat
  BY DEF Count!Threads
<1>4. \A t, u \in Count!Threads : t # u => t < u \/ u < t
  BY <1>3
<1> QED BY <1>1, <1>2, <1>4

\* A term is missed exactly if no thread is given it.
LEMMA MissedIsNotGiven ==
    ASSUME CountConstants, NEW i \in Count!Terms
    PROVE  i \in Count!Missed <=> \A t \in Count!Threads : i \notin Given(t)
<1> USE DEF Given, Count!Range
<1> DEFINE last == concurrent_count - 1
<1>0. last \in Count!Threads /\ i \in Nat /\ \A t \in Count!Threads : t \in Nat /\ t <= last
  BY DEF CountConstants, Count!Threads, Count!Terms
<1>1. ASSUME NEW t \in Count!Threads, i \in Given(t) PROVE i \notin Count!Missed
  <2>1. /\ Count!min(t) <= i /\ i <= Count!range(t) /\ (counter = "13" => i < Count!range(t))
        /\ Count!range(t) \in Nat /\ Count!range(last) \in Nat
        /\ Count!range(t) <= Count!range(last) /\ Count!min(t) \in Nat
    BY <1>0, <1>1, Ends
  <2>2. ~(i > Count!range(last))
    BY <1>0, <2>1
  <2>3. ASSUME counter = "13", NEW u \in Count!Threads, i = Count!range(u) PROVE FALSE
    <3>1. CASE t <= u
      BY <2>1, <2>3, <3>1, Ends
    <3>2. CASE u < t
      BY <2>1, <2>3, <3>2, Ends
    <3> QED BY <1>0, <3>1, <3>2
  <2> QED BY <2>2, <2>3 DEF Count!Missed
<1>2. ASSUME i \notin Count!Missed PROVE \E t \in Count!Threads : i \in Given(t)
  <2> DEFINE q == MAX \div concurrent_count
  <2>1. ~(i > Count!range(last)) /\ (counter = "13" => \A u \in Count!Threads : i # Count!range(u))
    BY <1>2 DEF Count!Missed
  <2>2. i <= Count!range(last)
    BY <1>0, <2>1, Ends
  <2>3. ASSUME NEW t \in Count!Threads, Count!min(t) <= i, i <= Count!range(t)
        PROVE  i \in Given(t)
    <3>1. Count!min(t) \in Nat /\ Count!range(t) \in Nat
      BY Ends
    <3>2. counter = "13" => i < Count!range(t)
      BY <1>0, <2>1, <2>3, <3>1
    <3> QED BY <1>0, <2>3, <3>1, <3>2
  <2>4. CASE i = 0
    <3>1. 0 \in Count!Threads
      BY DEF CountConstants, Count!Threads
    <3>2. Count!min(0) = 0 /\ Count!range(0) \in Nat
      BY <3>1, Ends DEF Count!min
    <3> QED BY <2>3, <2>4, <3>1, <3>2
  <2>5. CASE i # 0
    <3>1. q \in Nat /\ concurrent_count \in Nat
      BY Quotient DEF CountConstants
    <3>2. \A t \in Nat : Count!range(t) = q * (t + 1)
      BY DEF Count!range
    <3>3. i <= q * concurrent_count
      <4>1. last \in Nat /\ last + 1 = concurrent_count
        BY <3>1, <1>0
      <4>2. Count!range(last) = q * (last + 1)
        BY <3>2, <4>1
      <4> QED BY <2>2, <4>1, <4>2
    <3> HIDE DEF q
    <3>4. q # 0
      <4>1. ASSUME q = 0 PROVE FALSE
        <5>1. q * concurrent_count = 0
          BY <3>1, <4>1
        <5> QED BY <1>0, <2>5, <3>3, <5>1
      <4> QED BY <4>1
    <3> DEFINE t == (i - 1) \div q
    <3>5. i - 1 \in Nat /\ q \in Nat \ {0}
      BY <1>0, <2>5, <3>1, <3>4
    <3>6. t \in Nat /\ q * t <= i - 1 /\ i - 1 < q * (t + 1)
      BY <3>5, Quotient
    <3> HIDE DEF t
    <3>7. t < concurrent_count
      <4>1. ASSUME concurrent_count <= t PROVE FALSE
        <5>1. q * concurrent_count <= q * t
          BY <3>1, <3>6, <4>1, TimesMonotone
        <5>2. q * concurrent_count \in Nat /\ q * t \in Nat
          BY <3>1, <3>6
        <5> QED BY <1>0, <3>3, <3>6, <5>1, <5>2
      <4> QED BY <3>1, <3>6, <4>1
    <3>8. t \in Count!Threads
      BY <3>1, <3>6, <3>7 DEF Count!Threads
    <3>9. i <= Count!range(t)
      <4>1. q * (t + 1) \in Nat
        BY <3>1, <3>6
      <4> QED BY <1>0, <3>2, <3>6, <4>1
    <3>10. Count!min(t) <= i
      <4>1. CASE t = 0
        BY <1>0, <4>1 DEF Count!min
      <4>2. CASE t # 0
        <5>1. t - 1 \in Nat /\ (t - 1) + 1 = t
          BY <3>6, <4>2
        <5>2. Count!min(t) = q * t + 1
          BY <3>2, <4>2, <5>1 DEF Count!min
        <5>3. q * t \in Nat
          BY <3>1, <3>6
        <5> QED BY <1>0, <3>6, <5>2, <5>3
      <4> QED BY <4>1, <4>2
    <3> QED BY <2>3, <3>8, <3>9, <3>10
  <2> QED BY <2>4, <2>5
<1> QED BY <1>1, <1>2

-----------------------------------------------------------------------------
(* The sums.                                                               *)

CountTypes ==
    /\ counter \in {"06", "07", "08", "13", "14"}
    /\ sum \in [Count!Terms -> {0, 1}]
    /\ exclusive \in Count!Threads \union {Nobody}
    /\ todo \in [Count!Threads -> SUBSET Count!Terms]
    /\ counterReg \in [Count!Threads -> [Count!Terms -> {0, 1}]]
    /\ counterPc \in [Count!Threads -> {"loop", "write", "ready"}]

\* A thread has added the term i to a sum, which in 06 may since have been overwritten.
Added(i) == \E t \in Count!Threads : i \in Given(t) \ todo[t]

\* What is in the sum has been added, and but for 06 the other way round.
SumIsAdded ==
    /\ \A t \in Count!Threads : todo[t] \subseteq Given(t)
    /\ \A i \in Count!Terms : sum[i] = 1 => Added(i)
    /\ counter # "06" => \A i \in Count!Terms : Added(i) => sum[i] = 1

\* The sum a thread has read is as right, and but for 06 it is the sum that it writes.
ReadIsAdded ==
    \A t \in Count!Threads :
        /\ counterPc[t] = "ready" => counter \in {"13", "14"}
        /\ counterPc[t] = "write" =>
               /\ counter \in {"06", "07", "08"}
               /\ \A i \in Count!Terms : counterReg[t][i] = 1 => Added(i)
               /\ counter # "06" => exclusive = t /\ counterReg[t] = sum

CountInv == CountTypes /\ SumIsAdded /\ ReadIsAdded

LEMMA CountInit == ASSUME CountConstants PROVE Count!Init => CountInv
<1> SUFFICES ASSUME Count!Init PROVE CountInv
  OBVIOUS
<1>1. todo = [t \in Count!Threads |-> Given(t)]
  BY DEF Count!Init, Given
<1>2. todo \in [Count!Threads -> SUBSET Count!Terms]
  BY <1>1, Ranges
<1>3. Count!Zero \in [Count!Terms -> {0, 1}] /\ \A i \in Count!Terms : Count!Zero[i] = 0
  BY DEF Count!Zero
<1>4. CountTypes
  BY <1>2, <1>3 DEF Count!Init, CountTypes
<1>5. \A i : ~Added(i)
  BY <1>1 DEF Added
<1>6. SumIsAdded
  BY <1>1, <1>3, <1>5 DEF Count!Init, SumIsAdded
<1>7. ReadIsAdded
  BY DEF Count!Init, ReadIsAdded
<1> QED BY <1>4, <1>6, <1>7 DEF CountInv

\* Terms that are still to be added are not in a sum that has only what was added.
LEMMA PlusTodo ==
    ASSUME CountConstants, NEW t \in Count!Threads, NEW S \in SUBSET todo[t],
           NEW s \in [Count!Terms -> {0, 1}], todo[t] \subseteq Given(t),
           \A i \in Count!Terms : s[i] = 1 => Added(i)
    PROVE  /\ Count!Plus(s, S) \in [Count!Terms -> {0, 1}]
           /\ \A i \in Count!Terms : Count!Plus(s, S)[i] = 1 <=> s[i] = 1 \/ i \in S
<1>1. \A i \in Count!Terms : Count!Plus(s, S)[i] = s[i] + (IF i \in S THEN 1 ELSE 0)
  BY DEF Count!Plus
<1>2. ASSUME NEW i \in Count!Terms, i \in S PROVE s[i] = 0
  <2>1. i \in todo[t] /\ i \in Given(t)
    BY <1>2
  <2>2. ~Added(i)
    BY <2>1, Ranges DEF Added
  <2> QED BY <2>2
<1>3. ASSUME NEW i \in Count!Terms
      PROVE  /\ s[i] + (IF i \in S THEN 1 ELSE 0) \in {0, 1}
             /\ s[i] + (IF i \in S THEN 1 ELSE 0) = 1 <=> s[i] = 1 \/ i \in S
  <2>1. s[i] \in {0, 1}
    OBVIOUS
  <2> QED BY <1>2, <2>1
<1>4. Count!Plus(s, S) \in [Count!Terms -> {0, 1}]
  BY <1>3 DEF Count!Plus
<1> QED BY <1>1, <1>3, <1>4

\* What is added when t leaves out S of what it has to do.
LEMMA AddedLess ==
    ASSUME CountTypes, SumIsAdded, UNCHANGED counter, NEW t \in Count!Threads,
           NEW S \in SUBSET todo[t], todo' = [todo EXCEPT ![t] = @ \ S]
    PROVE  /\ todo' \in [Count!Threads -> SUBSET Count!Terms]
           /\ \A u \in Count!Threads : todo'[u] \subseteq Given(u)'
           /\ \A i \in Count!Terms : Added(i)' <=> Added(i) \/ i \in S
<1>1. \A u : Given(u)' = Given(u)
  BY DEF Given, Count!Range, Count!range, Count!min
<1>2. /\ todo'[t] = todo[t] \ S
      /\ \A u \in Count!Threads : u # t => todo'[u] = todo[u]
  BY DEF CountTypes
<1>3. todo' \in [Count!Threads -> SUBSET Count!Terms]
  BY <1>2 DEF CountTypes
<1>4. \A u \in Count!Threads : todo[u] \subseteq Given(u)
  BY DEF SumIsAdded
<1>5. ASSUME NEW i \in Count!Terms PROVE Added(i)' <=> Added(i) \/ i \in S
  <2>1. ASSUME NEW u \in Count!Threads, i \in Given(u)' \ todo'[u] PROVE Added(i) \/ i \in S
    BY <1>1, <1>2, <2>1 DEF Added
  <2>2. ASSUME NEW u \in Count!Threads, i \in Given(u) \ todo[u] PROVE Added(i)'
    BY <1>1, <1>2, <2>2 DEF Added
  <2>3. ASSUME i \in S PROVE Added(i)'
    BY <1>1, <1>2, <1>4, <2>3 DEF Added
  <2> QED BY <2>1, <2>2, <2>3 DEF Added
<1> QED BY <1>1, <1>2, <1>3, <1>4, <1>5

LEMMA CountStep ==
    ASSUME CountConstants, CountInv, [Count!Next]_(Count!vars)
    PROVE  CountInv'
<1> USE DEF CountInv
<1>g. ASSUME UNCHANGED <<counter, todo>>
      PROVE  (\A u : Given(u)' = Given(u)) /\ (\A i : Added(i)' <=> Added(i))
  BY <1>g DEF Given, Added, Count!Range, Count!range, Count!min
<1>1. ASSUME NEW t \in Count!Threads, Count!ReadSum(t) PROVE CountInv'
  <2>1. /\ UNCHANGED <<counter, sum, todo>> /\ counter \in {"06", "07", "08"}
        /\ (counter # "06" => exclusive = Nobody /\ exclusive' = t)
        /\ exclusive' \in {exclusive, t}
        /\ counterReg' = [counterReg EXCEPT ![t] = sum]
        /\ counterPc' = [counterPc EXCEPT ![t] = "write"]
    BY <1>1 DEF Count!ReadSum
  <2>2. CountTypes'
    BY <2>1 DEF CountTypes
  <2>3. SumIsAdded'
    BY <1>g, <2>1 DEF SumIsAdded
  <2>4. ReadIsAdded'
    <3> SUFFICES ASSUME NEW u \in Count!Threads
                 PROVE  /\ counterPc'[u] = "ready" => counter' \in {"13", "14"}
                        /\ counterPc'[u] = "write" =>
                             /\ counter' \in {"06", "07", "08"}
                             /\ \A i \in Count!Terms : counterReg'[u][i] = 1 => Added(i)'
                             /\ counter' # "06" => exclusive' = u /\ counterReg'[u] = sum'
      BY DEF ReadIsAdded
    <3>1. CASE u = t
      BY <1>g, <2>1, <3>1 DEF CountTypes, SumIsAdded
    <3>2. CASE u # t
      <4>1. counterPc'[u] = counterPc[u] /\ counterReg'[u] = counterReg[u]
        BY <2>1, <3>2 DEF CountTypes
      <4>2. counterPc[u] = "write" => counter = "06"
        BY <2>1 DEF ReadIsAdded, CountConstants
      <4> QED BY <1>g, <2>1, <4>1, <4>2 DEF ReadIsAdded
    <3> QED BY <3>1, <3>2
  <2> QED BY <2>2, <2>3, <2>4
<1>2. ASSUME NEW t \in Count!Threads, Count!WriteSum(t) PROVE CountInv'
  <2> DEFINE S == Count!Batch(t)
  <2>1. /\ UNCHANGED counter /\ counterPc[t] = "write"
        /\ sum' = Count!Plus(counterReg[t], S)
        /\ todo' = [todo EXCEPT ![t] = @ \ S]
        /\ counterReg' = [counterReg EXCEPT ![t] = Count!Zero]
        /\ counterPc' = [counterPc EXCEPT ![t] = "loop"]
        /\ exclusive' \in {exclusive, Nobody}
    BY <1>2 DEF Count!WriteSum
  <2>2. S \in SUBSET todo[t]
    BY DEF Count!Batch
  <2> HIDE DEF S
  <2>3. /\ counterReg[t] \in [Count!Terms -> {0, 1}] /\ todo[t] \subseteq Given(t)
        /\ \A i \in Count!Terms : counterReg[t][i] = 1 => Added(i)
    BY <2>1 DEF CountTypes, SumIsAdded, ReadIsAdded
  <2>4. /\ sum' \in [Count!Terms -> {0, 1}]
        /\ \A i \in Count!Terms : sum'[i] = 1 <=> counterReg[t][i] = 1 \/ i \in S
    BY <2>1, <2>2, <2>3, PlusTodo
  <2>5. /\ todo' \in [Count!Threads -> SUBSET Count!Terms]
        /\ \A u \in Count!Threads : todo'[u] \subseteq Given(u)'
        /\ \A i \in Count!Terms : Added(i)' <=> Added(i) \/ i \in S
    BY <2>1, <2>2, AddedLess
  <2>6. CountTypes'
    <3>1. Count!Zero \in [Count!Terms -> {0, 1}]
      BY DEF Count!Zero
    <3> QED BY <2>1, <2>4, <2>5, <3>1 DEF CountTypes
  <2>7. SumIsAdded'
    <3>1. ASSUME counter # "06" PROVE counterReg[t] = sum
      BY <2>1, <3>1 DEF ReadIsAdded
    <3>2. ASSUME counter # "06", NEW i \in Count!Terms, Added(i)' PROVE sum'[i] = 1
      BY <2>4, <2>5, <3>1, <3>2 DEF SumIsAdded
    <3>3. \A i \in Count!Terms : sum'[i] = 1 => Added(i)'
      BY <2>3, <2>4, <2>5
    <3> QED BY <2>1, <2>5, <3>2, <3>3 DEF SumIsAdded
  <2>8. ReadIsAdded'
    <3> SUFFICES ASSUME NEW u \in Count!Threads
                 PROVE  /\ counterPc'[u] = "ready" => counter' \in {"13", "14"}
                        /\ counterPc'[u] = "write" =>
                             /\ counter' \in {"06", "07", "08"}
                             /\ \A i \in Count!Terms : counterReg'[u][i] = 1 => Added(i)'
                             /\ counter' # "06" => exclusive' = u /\ counterReg'[u] = sum'
      BY DEF ReadIsAdded
    <3>1. CASE u = t
      BY <2>1, <3>1 DEF CountTypes
    <3>2. CASE u # t
      <4>1. counterPc'[u] = counterPc[u] /\ counterReg'[u] = counterReg[u]
        BY <2>1, <3>2 DEF CountTypes
      <4>2. counterPc[u] = "write" => counter = "06"
        BY <2>1, <3>2 DEF ReadIsAdded
      <4> QED BY <2>1, <2>5, <4>1, <4>2 DEF ReadIsAdded
    <3> QED BY <3>1, <3>2
  <2> QED BY <2>6, <2>7, <2>8
<1>3. ASSUME NEW t \in Count!Threads, Count!SetResult(t) PROVE CountInv'
  <2>1. /\ UNCHANGED <<counter, sum, exclusive, todo, counterReg>> /\ counter \in {"13", "14"}
        /\ counterPc' = [counterPc EXCEPT ![t] = "ready"]
    BY <1>3 DEF Count!SetResult
  <2>2. CountTypes'
    BY <2>1 DEF CountTypes
  <2>3. SumIsAdded'
    BY <1>g, <2>1 DEF SumIsAdded
  <2>4. \A u \in Count!Threads : counterPc'[u] = counterPc[u] \/ counterPc'[u] = "ready"
    BY <2>1 DEF CountTypes
  <2> QED BY <1>g, <2>1, <2>2, <2>3, <2>4 DEF ReadIsAdded
<1>4. ASSUME NEW t \in Count!Threads, Count!GetResult(t) PROVE CountInv'
  <2>1. /\ UNCHANGED <<counter, exclusive, counterReg, counterPc>> /\ counterPc[t] = "ready"
        /\ sum' = Count!Plus(sum, todo[t])
        /\ todo' = [todo EXCEPT ![t] = @ \ todo[t]]
    BY <1>4 DEF Count!GetResult
  <2>2. counter \in {"13", "14"}
    BY <2>1 DEF ReadIsAdded
  <2>3. /\ sum' \in [Count!Terms -> {0, 1}]
        /\ \A i \in Count!Terms : sum'[i] = 1 <=> sum[i] = 1 \/ i \in todo[t]
    <3>1. /\ sum \in [Count!Terms -> {0, 1}] /\ todo[t] \in SUBSET todo[t]
          /\ todo[t] \subseteq Given(t) /\ \A i \in Count!Terms : sum[i] = 1 => Added(i)
      BY DEF CountTypes, SumIsAdded
    <3> QED BY <2>1, <3>1, PlusTodo
  <2>4. /\ todo' \in [Count!Threads -> SUBSET Count!Terms]
        /\ \A u \in Count!Threads : todo'[u] \subseteq Given(u)'
        /\ \A i \in Count!Terms : Added(i)' <=> Added(i) \/ i \in todo[t]
    BY <2>1, AddedLess
  <2>5. CountTypes'
    BY <2>1, <2>3, <2>4 DEF CountTypes
  <2>6. SumIsAdded'
    BY <2>1, <2>3, <2>4 DEF SumIsAdded
  <2>7. ReadIsAdded'
    BY <2>1, <2>2 DEF ReadIsAdded
  <2> QED BY <2>5, <2>6, <2>7
<1>5. CASE UNCHANGED Count!vars
  <2>1. UNCHANGED <<counter, sum, exclusive, todo, counterReg, counterPc>>
    BY <1>5 DEF Count!vars
  <2> QED BY <1>g, <2>1 DEF CountTypes, SumIsAdded, ReadIsAdded
<1> QED BY <1>1, <1>2, <1>3, <1>4, <1>5 DEF Count!Next

\* Whatever the number of threads and terms, the result has each term of the ranges once.
LEMMA CountCorrect ==
    ASSUME CountConstants
    PROVE  Count!Spec => []Count!SumOfRanges
<1>1. CountInv => Count!SumOfRanges
  <2> SUFFICES ASSUME CountInv PROVE Count!SumOfRanges
    OBVIOUS
  <2> USE DEF CountInv
  <2>1. \A i \in Count!Terms : sum[i] \in {0, 1} /\ sum[i] <= 1
    BY DEF CountTypes
  <2>2. ASSUME Count!Finished, counter # "06", NEW i \in Count!Terms
        PROVE  sum[i] = IF i \in Count!Missed THEN 0 ELSE 1
    <3>1. sum[i] = 1 <=> Added(i)
      BY <2>2 DEF SumIsAdded
    <3>2. Added(i) <=> \E t \in Count!Threads : i \in Given(t)
      BY <2>2 DEF Added, Count!Finished
    <3>3. i \in Count!Missed <=> \A t \in Count!Threads : i \notin Given(t)
      BY MissedIsNotGiven
    <3> QED BY <2>1, <3>1, <3>2, <3>3
  <2>3. sum = [i \in Count!Terms |-> sum[i]]
    BY DEF CountTypes
  <2> QED BY <2>1, <2>2, <2>3 DEF Count!SumOfRanges
<1> QED BY <1>1, CountInit, CountStep, PTL DEF Count!Spec

-----------------------------------------------------------------------------
(* The programs together.                                                  *)

\* The specification in which the programs are together has each of them as an
\* abstraction: the steps of the other parts are stuttering steps of this one.
THEOREM ProgramsImplementEach ==
    ProgramsSpec => Spec /\ ListsSpec /\ Ptr!Spec /\ Bank!Spec /\ Count!Spec
<1>1. ProgramsInit => Init /\ ListsInit /\ Ptr!Init /\ Bank!Init /\ Count!Init
  BY DEF ProgramsInit
<1>2. [ProgramsNext]_programVars => [Next]_vars
  BY DEF ProgramsNext, programVars, bufferVars
<1>3. [ProgramsNext]_programVars => [ListsNext]_listsVars
  BY DEF ProgramsNext, programVars, listsVars
<1>4. [ProgramsNext]_programVars => [Ptr!Next]_(Ptr!vars)
  BY DEF ProgramsNext, programVars, ptrVars, Ptr!vars
<1>5. [ProgramsNext]_programVars => [Bank!Next]_(Bank!vars)
  BY DEF ProgramsNext, programVars, bankVars, Bank!vars
<1>6. [ProgramsNext]_programVars => [Count!Next]_(Count!vars)
  BY DEF ProgramsNext, programVars, countVars, Count!vars
<1> QED
  BY <1>1, <1>2, <1>3, <1>4, <1>5, <1>6, PTL
     DEF ProgramsSpec, Spec, ListsSpec, Ptr!Spec, Bank!Spec, Count!Spec

\* Type correctness of the pointers and of the transfers, for any pointers and objects
\* and any starting amount: no count goes below zero.
THEOREM ProgramsTyped ==
    ASSUME PtrConstants, BankConstants
    PROVE  ProgramsSpec => []Ptr!TypeOK /\ []Bank!TypeOK
<1>1. Ptr!Spec => []Ptr!TypeOK
  BY PtrTypeCorrect
<1>2. Bank!Spec => []Bank!TypeOK
  BY BankTypeCorrect, PTL
<1> QED BY <1>1, <1>2, ProgramsImplementEach, PTL

\* The count of an object is the number of its pointers and of those that ended
\* uncounted, and it is deleted exactly when the count has come back to zero.
THEOREM OwnersAreCounted ==
    ASSUME PtrConstants
    PROVE  ProgramsSpec => []OwnersCounted
<1>1. Ptr!OwnersCounted => OwnersCounted
  BY DEF OwnersCounted
<1> QED BY <1>1, PtrOwnersCounted, ProgramsImplementEach, PTL

\* Transfers that overlap neither make nor lose money, and overdraw no account, in each
\* of the three programs and for any starting amount.
THEOREM MoneyIsKept ==
    ASSUME BankConstants
    PROVE  ProgramsSpec => []MoneyKept
<1>1. Bank!MoneyKept => MoneyKept
  BY DEF MoneyKept
<1> QED BY <1>1, BankMoneyKept, ProgramsImplementEach, PTL

\* The threads wait for each other only with one lock each in 09 and with the full
\* amount each in 11.
THEOREM StuckAsKnown ==
    ASSUME BankConstants
    PROVE  ProgramsSpec => []StuckOnlyAsKnown
<1>1. Bank!StuckOnlyAsKnown => StuckOnlyAsKnown
  BY DEF StuckOnlyAsKnown
<1> QED BY <1>1, BankStuckAsKnown, ProgramsImplementEach, PTL

\* However the threads of the five counters overlap, the result has each term of the
\* ranges exactly once, for any number of terms and threads; 06 counts none twice.
THEOREM SumsAreOfRanges ==
    ASSUME CountConstants
    PROVE  ProgramsSpec => []SumOfRanges
<1>1. Count!SumOfRanges => SumOfRanges
  BY DEF SumOfRanges
<1> QED BY <1>1, CountCorrect, ProgramsImplementEach, PTL

\* Each function on arrays and lists returns what it is asked for, after turns that are
\* linear (quadratic for quick_sort) in the size of its input, for inputs of any length;
\* merge() goes on for ever exactly when something of list2 comes before the end of list1.
THEOREM ListsAreRight == ProgramsSpec => []ListsRight
BY ListsCorrect, ProgramsImplementEach, PTL
=============================================================================
