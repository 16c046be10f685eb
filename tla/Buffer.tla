------------------------------- MODULE Buffer -------------------------------
(***************************************************************************)
(* The memory of a Buffer (include/Buffer.h, src/Buffer.cpp): a vector of  *)
(* bytes, the two indices into it, and every way in which bytes enter and  *)
(* leave.  A buffer is a record and each operation an operator from such a *)
(* record to the next; the state machine calls them in any order.          *)
(*                                                                         *)
(*      0 <= CheapPrepend <= reader <= writer <= Size(b)                   *)
(***************************************************************************)
EXTENDS Integers, Sequences

CONSTANTS
    Byte, Zero,      \* the bytes; the one resize() fills new space with
    CheapPrepend,    \* kCheapPrepend
    InitialSize,     \* kInitialSize, or the constructor's argument
    ExtraSize,       \* sizeof extrabuf
    MaxChunk,        \* bound: bytes of one append() or readv()
    MaxContent       \* bound: bytes held when more are put in

ASSUME ByteAssumption == Zero \in Byte
ASSUME SizeAssumption ==
    /\ CheapPrepend \in Nat /\ InitialSize \in Nat /\ ExtraSize \in Nat
    /\ MaxChunk \in Nat /\ MaxContent \in Nat

VARIABLES buf, io

vars == <<buf, io>>

Size(b)        == Len(b.bytes)
Readable(b)    == b.writer - b.reader       \* readableBytes
Writable(b)    == Size(b) - b.writer        \* writableBytes
Prependable(b) == b.reader                  \* prependableBytes

\* Address i of the vector is index i + 1 of the sequence.
At(b, i) == b.bytes[i + 1]

\* The n bytes from peek() on.
Peek(b, n) == [i \in 1 .. n |-> At(b, b.reader + i - 1)]

Content(b) == Peek(b, Readable(b))

NewBuffer ==
    [bytes  |-> [i \in 1 .. (CheapPrepend + InitialSize) |-> Zero],
     reader |-> CheapPrepend,
     writer |-> CheapPrepend]

-----------------------------------------------------------------------------
RetrieveAll(b) == [b EXCEPT !.reader = CheapPrepend, !.writer = CheapPrepend]

\* Mutant: everything goes as soon as the last byte but one is asked for.
RetrieveTooMuch(b, len) ==
    IF len < Readable(b) - 1 THEN [b EXCEPT !.reader = @ + len] ELSE RetrieveAll(b)

Retrieve(b, len) ==
    IF len < Readable(b) THEN [b EXCEPT !.reader = @ + len] ELSE RetrieveAll(b)

\* vector::resize to n bytes, n no less than there are.
Resize(b, n) ==
    [bytes  |-> [i \in 1 .. n |-> IF i <= Size(b) THEN b.bytes[i] ELSE Zero],
     reader |-> b.reader,
     writer |-> b.writer]

\* makeSpace moves the content to the front.  std::copy goes from low addresses
\* to high ones, and the destination does not lie behind the source.
MoveToFront(b) ==
    [bytes  |-> [i \in 1 .. Size(b) |->
                    IF i \in (CheapPrepend + 1) .. (CheapPrepend + Readable(b))
                    THEN At(b, b.reader + i - 1 - CheapPrepend)
                    ELSE b.bytes[i]],
     reader |-> CheapPrepend,
     writer |-> CheapPrepend + Readable(b)]

\* Mutants: the room in front is not counted; kCheapPrepend is not kept free.
MakeSpaceGreedy(b, len) ==
    IF Writable(b) < len THEN Resize(b, b.writer + len) ELSE MoveToFront(b)
MakeSpaceShort(b, len) ==
    IF Writable(b) + Prependable(b) < len
    THEN Resize(b, b.writer + len) ELSE MoveToFront(b)

MakeSpace(b, len) ==
    IF Writable(b) + Prependable(b) - CheapPrepend < len
    THEN Resize(b, b.writer + len) ELSE MoveToFront(b)

EnsureWriteableBytes(b, len) == IF Writable(b) < len THEN MakeSpace(b, len) ELSE b

\* The bytes of data stored from beginWrite() on, as far as the vector reaches,
\* and the writer moved behind them.
Store(b, data) ==
    [bytes  |-> [i \in 1 .. Size(b) |->
                    IF i \in (b.writer + 1) .. (b.writer + Len(data))
                    THEN data[i - b.writer] ELSE b.bytes[i]],
     reader |-> b.reader,
     writer |-> b.writer + Len(data)]

AppendBytes(b, data) == Store(EnsureWriteableBytes(b, Len(data)), data)

\* What one readv() can bring: the writable space and, if that is smaller, extrabuf.
Reach(b) == Writable(b) + (IF Writable(b) < ExtraSize THEN ExtraSize ELSE 0)

\* readFd when readv() brings data.  What overflows the vector is in extrabuf and
\* is appended once the vector is full.
ReadFd(b, data) ==
    LET n == Len(data)
        w == Writable(b)
    IN  IF n <= w
        THEN Store(b, data)
        ELSE AppendBytes(Store(b, SubSeq(data, 1, w)), SubSeq(data, w + 1, n))

-----------------------------------------------------------------------------
Chunk == UNION {[1 .. n -> Byte] : n \in 0 .. MaxChunk}

HasRoom(data) == Readable(buf) + Len(data) <= MaxContent

Init ==
    /\ buf = NewBuffer
    /\ io = <<"take", <<>>>>

DoAppend(data) ==
    /\ HasRoom(data)
    /\ buf' = AppendBytes(buf, data)
    /\ io' = <<"put", data>>

\* A readv() that fails leaves the buffer alone; one without data is the end of the
\* stream.
DoReadFd(data) ==
    /\ HasRoom(data)
    /\ Len(data) <= Reach(buf)
    /\ buf' = ReadFd(buf, data)
    /\ io' = <<"put", data>>

\* retrieve, which handleWrite calls with what write() took of what writeFd showed
\* it.  Asked for more than there is, it drops what there is.
DoRetrieve(len) ==
    /\ buf' = Retrieve(buf, len)
    /\ io' = <<"take", IF len < Readable(buf) THEN Peek(buf, len) ELSE Content(buf)>>

\* retrieveAsString, which is fatal when it is asked for more than there is.
DoRetrieveAsString(len) ==
    /\ len <= Readable(buf)
    /\ buf' = Retrieve(buf, len)
    /\ io' = <<"take", Peek(buf, len)>>

Next ==
    \/ \E data \in Chunk : DoAppend(data) \/ DoReadFd(data)
    \/ \E n \in 0 .. MaxContent + 1 : DoRetrieve(n) \/ DoRetrieveAsString(n)

Spec == Init /\ [][Next]_vars

-----------------------------------------------------------------------------
(***************************************************************************)
(* Properties.                                                             *)
(***************************************************************************)
\* The indices stay in order and inside the vector (the drawing at Buffer.h:8-14),
\* so that neither the unsigned differences wrap around nor a copy leaves the
\* vector.
WellFormed(b) ==
    /\ b \in [bytes : Seq(Byte), reader : Nat, writer : Nat]
    /\ CheapPrepend <= b.reader /\ b.reader <= b.writer /\ b.writer <= Size(b)

InBounds == WellFormed(buf)

\* Whatever is moved, grown or kept in two pieces, bytes leave in the order in which
\* they entered (Buffer.h:49-107,139-155, Buffer.cpp:12-60).
Queue == INSTANCE ByteQueue WITH content <- Content(buf)

ImplementsQueue == Queue!Spec

\* The vector grows only when the content does not fit it: the space that was read
\* is used again first (Buffer.h:134-138).
GrowsOnlyIfNeeded ==
    [][Size(buf') > Size(buf) => Readable(buf') > Size(buf) - CheapPrepend]_buf

=============================================================================
