---------------------------- MODULE BufferProofs ----------------------------
(***************************************************************************)
(* What the operations of a Buffer do to its memory and to its content,    *)
(* for vectors of any size and chunks of any length, and from that: the    *)
(* buffer stays in bounds, and it is a byte queue.                         *)
(***************************************************************************)
EXTENDS Buffer, TLAPS

\* A function on 1 .. n whose values are bytes is a sequence of n bytes.
LEMMA BytesFromFunction ==
  ASSUME NEW n \in Nat, NEW f, f = [i \in 1 .. n |-> f[i]], \A i \in 1 .. n : f[i] \in Byte
  PROVE  f \in Seq(Byte) /\ Len(f) = n
<1>1. f \in [1 .. n -> Byte]
  OBVIOUS
<1>2. QED
  BY <1>1

\* A record with ordered indices is a buffer in bounds.
LEMMA BuildWellFormed ==
  ASSUME NEW v \in Seq(Byte), NEW r \in Nat, NEW w \in Nat,
         CheapPrepend <= r, r <= w, w <= Len(v)
  PROVE  WellFormed([bytes |-> v, reader |-> r, writer |-> w])
BY DEF WellFormed, Size

\* Sequences of bytes that agree everywhere are equal.
LEMMA SameBytes ==
  ASSUME NEW u \in Seq(Byte), NEW v \in Seq(Byte), Len(u) = Len(v),
         \A i \in 1 .. Len(u) : u[i] = v[i]
  PROVE  u = v
OBVIOUS

\* The parts of a concatenation.
LEMMA ConcatParts ==
  ASSUME NEW s \in Seq(Byte), NEW t \in Seq(Byte)
  PROVE  /\ s \o t \in Seq(Byte) /\ Len(s \o t) = Len(s) + Len(t)
         /\ \A i \in 1 .. Len(s) : (s \o t)[i] = s[i]
         /\ \A i \in (Len(s) + 1) .. (Len(s) + Len(t)) : (s \o t)[i] = t[i - Len(s)]
OBVIOUS

\* A sequence whose first part is s and whose rest is t is their concatenation.
LEMMA ConcatFromParts ==
  ASSUME NEW s \in Seq(Byte), NEW t \in Seq(Byte), NEW u \in Seq(Byte),
         NEW r \in Nat, NEW n \in Nat, Len(s) = r, Len(t) = n, Len(u) = r + n,
         \A i \in 1 .. r : u[i] = s[i],
         \A i \in (r + 1) .. (r + n) : u[i] = t[i - r]
  PROVE  u = s \o t
<1>1. s \o t \in Seq(Byte) /\ Len(s \o t) = r + n
  BY SMTT(60), ConcatParts
<1>2. \A i \in 1 .. (r + n) : u[i] = (s \o t)[i]
  <2>1. TAKE i \in 1 .. (r + n)
  <2>2. CASE i <= r
    BY <2>2
  <2>3. CASE i > r
    BY <2>3
  <2>4. QED
    BY <2>2, <2>3
<1>3. QED
  BY <1>1, <1>2, SameBytes

\* A fresh buffer is in bounds and empty.
LEMMA FreshIsEmpty == WellFormed(NewBuffer) /\ Content(NewBuffer) = <<>>
<1>1. WellFormed(NewBuffer)
  BY SizeAssumption, ByteAssumption DEF WellFormed, NewBuffer, Size
<1>2. Readable(NewBuffer) = 0
  BY SizeAssumption DEF Readable, NewBuffer
<1>3. Content(NewBuffer) = [i \in 1 .. 0 |-> At(NewBuffer, NewBuffer.reader + i - 1)]
  BY <1>2 DEF Content, Peek
<1>4. QED
  BY <1>1, <1>3

\* What is shown of the content is a sequence of bytes.
LEMMA PeekIsBytes ==
  ASSUME NEW b, WellFormed(b), NEW n \in 0 .. Readable(b)
  PROVE  /\ Peek(b, n) \in Seq(Byte)
         /\ Len(Peek(b, n)) = n
         /\ \A i \in 1 .. n : Peek(b, n)[i] = b.bytes[b.reader + i]
<1>1. b.reader \in Nat /\ b.writer \in Nat /\ b.reader + n <= b.writer /\ b.writer <= Len(b.bytes)
      /\ n \in Nat /\ b.bytes \in Seq(Byte)
  BY DEF WellFormed, Readable, Size
<1>2. \A i \in 1 .. n : b.reader + i - 1 + 1 = b.reader + i /\ b.reader + i \in 1 .. Len(b.bytes)
  BY <1>1
<1>3. \A i \in 1 .. n : b.bytes[b.reader + i] \in Byte
  BY <1>1, <1>2, SMTT(60)
<1>4. Peek(b, n) = [i \in 1 .. n |-> b.bytes[b.reader + i]]
  BY <1>2 DEF Peek, At
<1>5. QED
  BY <1>1, <1>3, <1>4

\* Two buffers that hold as many bytes, each the same, have the same content.
LEMMA SameContent ==
  ASSUME NEW b, NEW c, WellFormed(b), WellFormed(c), Readable(c) = Readable(b),
         \A i \in 1 .. Readable(b) : c.bytes[c.reader + i] = b.bytes[b.reader + i]
  PROVE  Content(c) = Content(b)
<1>1. Readable(b) \in Nat /\ Readable(b) \in 0 .. Readable(b) /\ Readable(c) \in 0 .. Readable(c)
  BY DEF WellFormed, Readable
<1>2. Content(b) \in Seq(Byte) /\ Content(c) \in Seq(Byte)
      /\ Len(Content(b)) = Readable(b) /\ Len(Content(c)) = Readable(b)
  BY <1>1, PeekIsBytes DEF Content
<1>3. \A i \in 1 .. Readable(b) : Content(c)[i] = Content(b)[i]
  BY <1>1, PeekIsBytes DEF Content
<1>4. QED
  BY <1>2, <1>3

\* resize() and moving to the front keep the content.
LEMMA ResizeKeeps ==
  ASSUME NEW b, WellFormed(b), NEW n \in Nat, n >= Size(b)
  PROVE  /\ WellFormed(Resize(b, n))
         /\ Content(Resize(b, n)) = Content(b)
         /\ Size(Resize(b, n)) = n
         /\ Resize(b, n).writer = b.writer
<1> DEFINE c == Resize(b, n)
<1>0. b.bytes \in Seq(Byte) /\ b.reader \in Nat /\ b.writer \in Nat /\ Size(b) = Len(b.bytes)
      /\ CheapPrepend <= b.reader /\ b.reader <= b.writer /\ b.writer <= Len(b.bytes)
      /\ b \in [bytes : Seq(Byte), reader : Nat, writer : Nat]
  BY DEF WellFormed, Size
<1>1. /\ c.bytes = [i \in 1 .. n |-> IF i <= Len(b.bytes) THEN b.bytes[i] ELSE Zero]
      /\ c.reader = b.reader /\ c.writer = b.writer
      /\ c = [bytes |-> c.bytes, reader |-> c.reader, writer |-> c.writer]
  BY <1>0 DEF Resize, Size
<1>2. \A i \in 1 .. n : (IF i <= Len(b.bytes) THEN b.bytes[i] ELSE Zero) \in Byte
  BY <1>0, ByteAssumption
<1>3. c.bytes \in Seq(Byte) /\ Len(c.bytes) = n
  BY <1>1, <1>2
<1>4. WellFormed(c)
  BY SMTT(60), <1>0, <1>1, <1>3, SizeAssumption DEF WellFormed, Size
<1>5. \A i \in 1 .. Readable(b) : c.bytes[c.reader + i] = b.bytes[b.reader + i]
  BY <1>0, <1>1, SizeAssumption DEF Readable
<1>6. Readable(c) = Readable(b)
  BY <1>1 DEF Readable
<1>7. Content(c) = Content(b)
  BY <1>4, <1>5, <1>6, SameContent
<1>8. QED
  BY <1>1, <1>3, <1>4, <1>7 DEF Size

LEMMA MoveKeeps ==
  ASSUME NEW b, WellFormed(b)
  PROVE  /\ WellFormed(MoveToFront(b))
         /\ Content(MoveToFront(b)) = Content(b)
         /\ Writable(MoveToFront(b)) = Writable(b) + Prependable(b) - CheapPrepend
<1> DEFINE c == MoveToFront(b)
           r == Readable(b)
<1>0. b.bytes \in Seq(Byte) /\ b.reader \in Nat /\ b.writer \in Nat /\ Size(b) = Len(b.bytes)
      /\ CheapPrepend <= b.reader /\ b.reader <= b.writer /\ b.writer <= Len(b.bytes)
      /\ CheapPrepend \in Nat /\ r = b.writer - b.reader /\ r \in Nat
  BY SizeAssumption DEF WellFormed, Size, Readable
<1>1. /\ c.bytes = [i \in 1 .. Len(b.bytes) |->
                      IF i \in (CheapPrepend + 1) .. (CheapPrepend + r)
                      THEN b.bytes[b.reader + i - 1 - CheapPrepend + 1]
                      ELSE b.bytes[i]]
      /\ c.reader = CheapPrepend /\ c.writer = CheapPrepend + r
      /\ c = [bytes |-> c.bytes, reader |-> c.reader, writer |-> c.writer]
  BY DEF MoveToFront, Size, At
<1>2. \A i \in (CheapPrepend + 1) .. (CheapPrepend + r) :
         b.reader + i - 1 - CheapPrepend + 1 \in 1 .. Len(b.bytes)
  BY <1>0, SMTT(60)
<1> HIDE DEF c
<1>3. \A i \in 1 .. Len(b.bytes) : c.bytes[i] \in Byte
  BY <1>0, <1>1, <1>2
<1>4. c.bytes \in Seq(Byte) /\ Len(c.bytes) = Len(b.bytes)
  <2>1. c.bytes = [i \in 1 .. Len(b.bytes) |-> c.bytes[i]]
    BY <1>1
  <2>2. Len(b.bytes) \in Nat
    BY <1>0
  <2>3. QED
    BY <1>3, <2>1, <2>2, BytesFromFunction
<1>5. WellFormed(c)
  <2>1. CheapPrepend <= c.reader /\ c.reader <= c.writer /\ c.writer <= Len(c.bytes)
        /\ c.reader \in Nat /\ c.writer \in Nat
    BY <1>0, <1>1, <1>4
  <2>2. QED
    BY <1>1, <1>4, <2>1, BuildWellFormed
<1>6. \A i \in 1 .. r : c.bytes[c.reader + i] = b.bytes[b.reader + i]
  <2>1. TAKE i \in 1 .. r
  <2>2. CheapPrepend + i \in 1 .. Len(b.bytes)
        /\ CheapPrepend + i \in (CheapPrepend + 1) .. (CheapPrepend + r)
        /\ b.reader + (CheapPrepend + i) - 1 - CheapPrepend + 1 = b.reader + i
    BY <1>0, SMTT(60)
  <2>3. QED
    BY <1>1, <2>2
<1>7. Readable(c) = r
  BY <1>0, <1>1 DEF Readable
<1>8. Content(c) = Content(b)
  BY <1>5, <1>6, <1>7, SameContent
<1>9. Writable(c) = Writable(b) + Prependable(b) - CheapPrepend
  <2>1. QED
    BY <1>0, <1>1, <1>4 DEF Writable, Prependable, Size
<1>10. QED
  BY <1>5, <1>8, <1>9 DEF c

\* ensureWriteableBytes makes the space it was asked for and keeps the content.
LEMMA EnsureMakesRoom ==
  ASSUME NEW b, WellFormed(b), NEW len \in Nat
  PROVE  LET c == EnsureWriteableBytes(b, len)
         IN  WellFormed(c) /\ Content(c) = Content(b) /\ Writable(c) >= len
<1>0. b.writer \in Nat /\ b.reader \in Nat /\ Size(b) \in Nat /\ CheapPrepend \in Nat
      /\ b.writer <= Size(b) /\ b.writer + len \in Nat
  BY SizeAssumption DEF WellFormed, Size
<1>1. CASE Writable(b) >= len
  BY <1>0, <1>1 DEF EnsureWriteableBytes, Writable
<1>2. CASE Writable(b) < len /\ Writable(b) + Prependable(b) - CheapPrepend < len
  <2>1. b.writer + len >= Size(b)
    BY <1>0, <1>2 DEF Writable
  <2>2. EnsureWriteableBytes(b, len) = Resize(b, b.writer + len)
    BY <1>2 DEF EnsureWriteableBytes, MakeSpace
  <2> DEFINE c == Resize(b, b.writer + len)
  <2>3. WellFormed(c) /\ Content(c) = Content(b) /\ Size(c) = b.writer + len /\ c.writer = b.writer
    BY <1>0, <2>1, ResizeKeeps
  <2>4. Writable(c) = len
    BY <1>0, <2>3 DEF Writable
  <2>5. QED
    BY <2>2, <2>3, <2>4
<1>3. CASE Writable(b) < len /\ ~(Writable(b) + Prependable(b) - CheapPrepend < len)
  <2>1. EnsureWriteableBytes(b, len) = MoveToFront(b)
    BY <1>3 DEF EnsureWriteableBytes, MakeSpace
  <2>2. QED
    BY <1>0, <1>3, <2>1, MoveKeeps DEF Writable, Prependable
<1>4. QED
  BY <1>0, <1>1, <1>2, <1>3 DEF Writable

\* Storing bytes for which there is space appends them to the content.
LEMMA StoreAppends ==
  ASSUME NEW b, WellFormed(b), NEW data \in Seq(Byte), Len(data) <= Writable(b)
  PROVE  LET c == Store(b, data)
         IN  /\ WellFormed(c)
             /\ Content(c) = Content(b) \o data
             /\ Writable(c) = Writable(b) - Len(data)
<1> DEFINE c == Store(b, data)
           n == Len(data)
           r == Readable(b)
<1>0. b.bytes \in Seq(Byte) /\ b.reader \in Nat /\ b.writer \in Nat /\ Size(b) = Len(b.bytes)
      /\ CheapPrepend <= b.reader /\ b.reader <= b.writer /\ b.writer + n <= Len(b.bytes)
      /\ n \in Nat /\ r = b.writer - b.reader /\ r \in Nat /\ r \in 0 .. Readable(b)
      /\ b \in [bytes : Seq(Byte), reader : Nat, writer : Nat] /\ CheapPrepend \in Nat
  BY SizeAssumption DEF WellFormed, Size, Readable, Writable
<1>1. /\ c.bytes = [i \in 1 .. Len(b.bytes) |->
                      IF i \in (b.writer + 1) .. (b.writer + n) THEN data[i - b.writer]
                      ELSE b.bytes[i]]
      /\ c.reader = b.reader /\ c.writer = b.writer + n
      /\ c = [bytes |-> c.bytes, reader |-> c.reader, writer |-> c.writer]
  BY <1>0 DEF Store, Size
<1>2. \A i \in (b.writer + 1) .. (b.writer + n) : i - b.writer \in 1 .. n
  BY <1>0
<1> HIDE DEF c
<1>3. \A i \in 1 .. Len(b.bytes) : c.bytes[i] \in Byte
  BY <1>0, <1>1, <1>2
<1>4. c.bytes \in Seq(Byte) /\ Len(c.bytes) = Len(b.bytes)
  <2>1. c.bytes = [i \in 1 .. Len(b.bytes) |-> c.bytes[i]]
    BY <1>1
  <2>2. Len(b.bytes) \in Nat
    BY <1>0
  <2>3. QED
    BY <1>3, <2>1, <2>2, BytesFromFunction
<1>5. WellFormed(c)
  <2>1. CheapPrepend <= c.reader /\ c.reader <= c.writer /\ c.writer <= Len(c.bytes)
        /\ c.reader \in Nat /\ c.writer \in Nat
    BY <1>0, <1>1, <1>4
  <2>2. QED
    BY <1>1, <1>4, <2>1, BuildWellFormed
<1>6. Readable(c) = r + n /\ Readable(c) \in 0 .. Readable(c)
  BY <1>0, <1>1 DEF Readable
<1>7. /\ Content(c) \in Seq(Byte) /\ Len(Content(c)) = r + n
      /\ \A i \in 1 .. (r + n) : Content(c)[i] = c.bytes[c.reader + i]
  BY <1>5, <1>6, PeekIsBytes DEF Content
<1>8. /\ Content(b) \in Seq(Byte) /\ Len(Content(b)) = r
      /\ \A i \in 1 .. r : Content(b)[i] = b.bytes[b.reader + i]
  BY <1>0, PeekIsBytes DEF Content
<1>9. \A i \in 1 .. r : Content(c)[i] = Content(b)[i]
  <2>1. TAKE i \in 1 .. r
  <2>2. i \in 1 .. (r + n) /\ b.reader + i \in 1 .. Len(b.bytes)
        /\ b.reader + i \notin (b.writer + 1) .. (b.writer + n)
    BY <1>0
  <2>3. c.bytes[b.reader + i] = b.bytes[b.reader + i]
    BY <1>1, <2>2
  <2>4. Content(c)[i] = c.bytes[b.reader + i]
    BY <1>1, <1>7, <2>2
  <2>5. QED
    BY <1>8, <2>3, <2>4
<1>10. \A i \in (r + 1) .. (r + n) : Content(c)[i] = data[i - r]
  <2>1. TAKE i \in (r + 1) .. (r + n)
  <2>2. i \in 1 .. (r + n) /\ b.reader + i \in 1 .. Len(b.bytes)
        /\ b.reader + i \in (b.writer + 1) .. (b.writer + n)
        /\ b.reader + i - b.writer = i - r
    BY <1>0, SMTT(60)
  <2>3. \A j \in 1 .. Len(b.bytes) :
           j \in (b.writer + 1) .. (b.writer + n) => c.bytes[j] = data[j - b.writer]
    BY <1>1
  <2>4. Content(c)[i] = c.bytes[b.reader + i]
    BY <1>1, <1>7, <2>2
  <2> HIDE DEF n, r
  <2>5. c.bytes[b.reader + i] = data[b.reader + i - b.writer]
    <3>1. PICK j \in 1 .. Len(b.bytes) :
             j = b.reader + i /\ j \in (b.writer + 1) .. (b.writer + n)
      BY <2>2
    <3>2. c.bytes[j] = data[j - b.writer]
      BY <2>3, <3>1
    <3>3. j - b.writer = b.reader + i - b.writer
      BY <1>0, <2>1, <3>1
    <3>4. QED
      BY <3>1, <3>2, <3>3
  <2>6. data[b.reader + i - b.writer] = data[i - r]
    BY <2>2
  <2>7. QED
    BY <2>4, <2>5, <2>6
<1>11. Content(c) = Content(b) \o data
  <2>1. n \in Nat /\ r \in Nat /\ Len(data) = n
    BY <1>0
  <2> HIDE DEF r, n
  <2>2. QED
    BY <1>7, <1>8, <1>9, <1>10, <2>1, ConcatFromParts, ZenonT(90)
<1>12. Writable(c) = Writable(b) - n
  BY <1>0, <1>1, <1>4 DEF Writable, Size
<1>13. QED
  BY <1>5, <1>11, <1>12 DEF c

\* append.
LEMMA AppendAppends ==
  ASSUME NEW b, WellFormed(b), NEW data \in Seq(Byte)
  PROVE  WellFormed(AppendBytes(b, data)) /\ Content(AppendBytes(b, data)) = Content(b) \o data
<1> DEFINE c == EnsureWriteableBytes(b, Len(data))
<1>1. WellFormed(c) /\ Content(c) = Content(b) /\ Len(data) <= Writable(c)
  <2>1. Len(data) \in Nat
    OBVIOUS
  <2>2. WellFormed(c) /\ Content(c) = Content(b) /\ Writable(c) >= Len(data)
    BY <2>1, EnsureMakesRoom
  <2>3. Writable(c) \in Int
    BY <2>2 DEF WellFormed, Writable, Size
  <2>4. QED
    BY <2>1, <2>2, <2>3
<1> HIDE DEF c
<1>2. WellFormed(Store(c, data)) /\ Content(Store(c, data)) = Content(c) \o data
  BY <1>1, StoreAppends
<1>3. QED
  BY <1>1, <1>2 DEF AppendBytes, c

\* A sequence is what one cuts it into.
LEMMA CutAnywhere ==
  ASSUME NEW s \in Seq(Byte), NEW t \in Seq(Byte), NEW w \in 0 .. Len(t)
  PROVE  /\ SubSeq(t, 1, w) \in Seq(Byte) /\ Len(SubSeq(t, 1, w)) = w
         /\ SubSeq(t, w + 1, Len(t)) \in Seq(Byte)
         /\ (s \o SubSeq(t, 1, w)) \o SubSeq(t, w + 1, Len(t)) = s \o t
<1> DEFINE x == SubSeq(t, 1, w)
           y == SubSeq(t, w + 1, Len(t))
<1>1. /\ x \in Seq(Byte) /\ Len(x) = w
      /\ y \in Seq(Byte) /\ Len(y) = Len(t) - w
      /\ \A i \in 1 .. w : x[i] = t[i]
      /\ \A i \in 1 .. (Len(t) - w) : y[i] = t[w + i]
  BY SMTT(60)
<1> HIDE DEF x, y
<1>2. Len(s) \in Nat /\ Len(t) \in Nat /\ w \in Nat
  OBVIOUS
<1> DEFINE z == s \o x
<1>3. /\ z \in Seq(Byte) /\ Len(z) = Len(s) + w
      /\ \A i \in 1 .. Len(s) : z[i] = s[i]
      /\ \A i \in (Len(s) + 1) .. (Len(s) + w) : z[i] = x[i - Len(s)]
  BY <1>1, ConcatParts
<1> HIDE DEF z
<1>4. /\ z \o y \in Seq(Byte) /\ Len(z \o y) = Len(s) + Len(t)
      /\ \A i \in 1 .. (Len(s) + w) : (z \o y)[i] = z[i]
      /\ \A i \in (Len(s) + w + 1) .. (Len(s) + Len(t)) : (z \o y)[i] = y[i - (Len(s) + w)]
  <2>1. /\ z \o y \in Seq(Byte) /\ Len(z \o y) = Len(z) + Len(y)
        /\ \A i \in 1 .. Len(z) : (z \o y)[i] = z[i]
        /\ \A i \in (Len(z) + 1) .. (Len(z) + Len(y)) : (z \o y)[i] = y[i - Len(z)]
    BY <1>1, <1>3, ConcatParts
  <2>2. Len(z) = Len(s) + w /\ Len(z) + Len(y) = Len(s) + Len(t)
    BY <1>1, <1>2, <1>3
  <2>3. QED
    BY <2>1, <2>2
<1>5. \A i \in 1 .. Len(s) : (z \o y)[i] = s[i]
  BY <1>2, <1>3, <1>4
<1>6. \A i \in (Len(s) + 1) .. (Len(s) + Len(t)) : (z \o y)[i] = t[i - Len(s)]
  <2>1. TAKE i \in (Len(s) + 1) .. (Len(s) + Len(t))
  <2>2. CASE i <= Len(s) + w
    <3>1. i \in (Len(s) + 1) .. (Len(s) + w) /\ i \in 1 .. (Len(s) + w) /\ i - Len(s) \in 1 .. w
      BY <1>2, <2>2
    <3>2. (z \o y)[i] = x[i - Len(s)]
      BY <1>3, <1>4, <3>1
    <3>3. QED
      BY <1>1, <3>1, <3>2
  <2>3. CASE i > Len(s) + w
    <3>1. i \in (Len(s) + w + 1) .. (Len(s) + Len(t))
          /\ i - (Len(s) + w) \in 1 .. (Len(t) - w)
          /\ w + (i - (Len(s) + w)) = i - Len(s)
      BY <1>2, <2>3
    <3>2. (z \o y)[i] = y[i - (Len(s) + w)]
      BY <1>4, <3>1
    <3>3. y[i - (Len(s) + w)] = t[w + (i - (Len(s) + w))]
      BY <1>1, <3>1
    <3>4. QED
      BY <3>1, <3>2, <3>3
  <2>4. i <= Len(s) + w \/ i > Len(s) + w
    BY <1>2
  <2>5. QED
    BY <2>2, <2>3, <2>4
<1>7. z \o y = s \o t
  <2> DEFINE u == z \o y
  <2> HIDE DEF u
  <2>1. /\ u \in Seq(Byte) /\ Len(u) = Len(s) + Len(t)
        /\ \A i \in 1 .. Len(s) : u[i] = s[i]
        /\ \A i \in (Len(s) + 1) .. (Len(s) + Len(t)) : u[i] = t[i - Len(s)]
    BY <1>4, <1>5, <1>6 DEF u
  <2>2. u = s \o t
    <3>1. Len(s) \in Nat /\ Len(t) \in Nat
      BY <1>2
    <3>2. QED
      BY <3>1, <2>1, ConcatFromParts, ZenonT(90)
  <2>3. QED
    BY <2>2 DEF u
<1>8. QED
  BY <1>1, <1>7 DEF x, y, z

\* readFd, whether extrabuf is used or not.
LEMMA ReadFdAppends ==
  ASSUME NEW b, WellFormed(b), NEW data \in Seq(Byte)
  PROVE  WellFormed(ReadFd(b, data)) /\ Content(ReadFd(b, data)) = Content(b) \o data
<1>1. CASE Len(data) <= Writable(b)
  <2>1. ReadFd(b, data) = Store(b, data)
    BY <1>1 DEF ReadFd
  <2>2. QED
    BY <1>1, <2>1, StoreAppends
<1>2. CASE ~(Len(data) <= Writable(b))
  <2> DEFINE w == Writable(b)
             x == SubSeq(data, 1, w)
             y == SubSeq(data, w + 1, Len(data))
  <2>1. w \in 0 .. Len(data)
    BY <1>2 DEF WellFormed, Writable, Size
  <2>2. ReadFd(b, data) = AppendBytes(Store(b, x), y)
    BY <1>2 DEF ReadFd
  <2>3. Content(b) \in Seq(Byte)
    <3>1. Readable(b) \in 0 .. Readable(b)
      BY DEF WellFormed, Readable
    <3>2. QED
      BY <3>1, PeekIsBytes DEF Content
  <2>4. x \in Seq(Byte) /\ Len(x) = w /\ y \in Seq(Byte)
        /\ (Content(b) \o x) \o y = Content(b) \o data
    BY <2>1, <2>3, CutAnywhere
  <2>5. Len(x) <= Writable(b)
    BY <2>1, <2>4
  <2> HIDE DEF x, y
  <2>6. WellFormed(Store(b, x)) /\ Content(Store(b, x)) = Content(b) \o x
    BY <2>4, <2>5, StoreAppends
  <2>7. WellFormed(AppendBytes(Store(b, x), y))
        /\ Content(AppendBytes(Store(b, x), y)) = Content(Store(b, x)) \o y
    BY <2>4, <2>6, AppendAppends
  <2>8. QED
    BY <2>2, <2>4, <2>6, <2>7
<1>3. QED
  BY <1>1, <1>2

\* retrieve of what is there drops the first bytes.
LEMMA RetrieveDrops ==
  ASSUME NEW b, WellFormed(b), NEW n \in 0 .. Readable(b)
  PROVE  WellFormed(Retrieve(b, n)) /\ Content(b) = Peek(b, n) \o Content(Retrieve(b, n))
<1> DEFINE c == Retrieve(b, n)
           r == Readable(b)
<1>0. /\ b \in [bytes : Seq(Byte), reader : Nat, writer : Nat]
      /\ b.bytes \in Seq(Byte) /\ b.reader \in Nat /\ b.writer \in Nat
      /\ CheapPrepend <= b.reader /\ b.reader <= b.writer /\ b.writer <= Len(b.bytes)
      /\ CheapPrepend \in Nat /\ n \in Nat /\ n <= r /\ r = b.writer - b.reader
      /\ r \in Nat /\ r \in 0 .. Readable(b)
  BY SizeAssumption DEF WellFormed, Size, Readable
<1>1. c.bytes = b.bytes /\ WellFormed(c) /\ Readable(c) = r - n
      /\ (n < r => c.reader = b.reader + n)
  <2>1. CASE n < r
    <3>1. c = [b EXCEPT !.reader = b.reader + n]
      BY <2>1 DEF Retrieve
    <3>2. c.bytes = b.bytes /\ c.reader = b.reader + n /\ c.writer = b.writer
          /\ c = [bytes |-> b.bytes, reader |-> b.reader + n, writer |-> b.writer]
      BY <1>0, <3>1
    <3>3. WellFormed([bytes |-> b.bytes, reader |-> b.reader + n, writer |-> b.writer])
      <4>1. b.reader + n \in Nat /\ CheapPrepend <= b.reader + n /\ b.reader + n <= b.writer
        BY <1>0, <2>1
      <4>2. QED
        BY <1>0, <4>1, BuildWellFormed
    <3>4. Readable(c) = r - n
      BY <1>0, <3>2 DEF Readable
    <3> HIDE DEF c
    <3>5. QED
      BY <3>2, <3>3, <3>4
  <2>2. CASE ~(n < r)
    <3>1. c = [b EXCEPT !.reader = CheapPrepend, !.writer = CheapPrepend]
      BY <2>2 DEF Retrieve, RetrieveAll
    <3>2. c.bytes = b.bytes /\ c.reader = CheapPrepend /\ c.writer = CheapPrepend
          /\ c = [bytes |-> b.bytes, reader |-> CheapPrepend, writer |-> CheapPrepend]
      BY <1>0, <3>1
    <3>3. WellFormed([bytes |-> b.bytes, reader |-> CheapPrepend, writer |-> CheapPrepend])
      <4>1. CheapPrepend <= Len(b.bytes) /\ CheapPrepend <= CheapPrepend
        BY <1>0
      <4>2. QED
        BY <1>0, <4>1, BuildWellFormed
    <3>4. Readable(c) = r - n
      BY <1>0, <2>2, <3>2 DEF Readable
    <3> HIDE DEF c
    <3>5. QED
      BY <2>2, <3>2, <3>3, <3>4
  <2>3. QED
    BY <2>1, <2>2
<1> HIDE DEF c
<1>2. Readable(c) \in 0 .. Readable(c)
  BY <1>0, <1>1
<1>3. /\ Content(b) \in Seq(Byte) /\ Len(Content(b)) = r
      /\ \A i \in 1 .. r : Content(b)[i] = b.bytes[b.reader + i]
  BY <1>0, PeekIsBytes DEF Content
<1>4. /\ Content(c) \in Seq(Byte) /\ Len(Content(c)) = r - n
      /\ \A i \in 1 .. (r - n) : Content(c)[i] = b.bytes[c.reader + i]
  BY <1>1, <1>2, PeekIsBytes DEF Content
<1>5. /\ Peek(b, n) \in Seq(Byte) /\ Len(Peek(b, n)) = n
      /\ \A i \in 1 .. n : Peek(b, n)[i] = b.bytes[b.reader + i]
  BY PeekIsBytes
<1>6. \A i \in 1 .. n : Content(b)[i] = Peek(b, n)[i]
  BY <1>0, <1>3, <1>5, SMTT(60)
<1>7. \A i \in (n + 1) .. (n + (r - n)) : Content(b)[i] = Content(c)[i - n]
  <2>1. TAKE i \in (n + 1) .. (n + (r - n))
  <2>2. /\ i \in 1 .. r /\ i - n \in 1 .. (r - n) /\ n < r
        /\ b.reader + n + (i - n) = b.reader + i
    BY <1>0, <2>1
  <2>3. Content(b)[i] = b.bytes[b.reader + i]
    BY <1>3, <2>2
  <2>4. Content(c)[i - n] = b.bytes[c.reader + (i - n)]
    BY <1>4, <2>2
  <2>5. c.reader + (i - n) = b.reader + i
    BY <1>1, <2>2
  <2>6. QED
    BY <2>3, <2>4, <2>5
<1>8. Content(b) = Peek(b, n) \o Content(c)
  <2>1. n + (r - n) = r /\ r - n \in Nat /\ n \in Nat
    BY <1>0
  <2> HIDE DEF r
  <2>2. QED
    BY <1>3, <1>4, <1>5, <1>6, <1>7, <2>1, ConcatFromParts, SMTT(60)
<1>9. QED
  BY <1>1, <1>8 DEF c

-----------------------------------------------------------------------------
\* The chunks that operations put in are sequences of bytes.
LEMMA ChunksAreBytes == Chunk \subseteq Seq(Byte)
BY DEF Chunk

\* What an operation does to the buffer and to the queue it implements.
LEMMA StepIsQueueStep ==
  ASSUME InBounds, Next
  PROVE  InBounds' /\ Queue!Next
<1>1. ASSUME NEW data \in Chunk, DoAppend(data) PROVE InBounds' /\ Queue!Put
  <2>1. data \in Seq(Byte)
    BY <1>1, ChunksAreBytes
  <2>2. buf' = AppendBytes(buf, data) /\ io' = <<"put", data>>
    BY <1>1 DEF DoAppend
  <2>3. WellFormed(AppendBytes(buf, data))
        /\ Content(AppendBytes(buf, data)) = Content(buf) \o data
    BY <2>1, AppendAppends DEF InBounds
  <2>4. QED
    BY <2>2, <2>3 DEF InBounds, Queue!Put
<1>2. ASSUME NEW data \in Chunk, DoReadFd(data) PROVE InBounds' /\ Queue!Put
  <2>1. data \in Seq(Byte)
    BY <1>2, ChunksAreBytes
  <2>2. buf' = ReadFd(buf, data) /\ io' = <<"put", data>>
    BY <1>2 DEF DoReadFd
  <2>3. WellFormed(ReadFd(buf, data)) /\ Content(ReadFd(buf, data)) = Content(buf) \o data
    BY <2>1, ReadFdAppends DEF InBounds
  <2>4. QED
    BY <2>2, <2>3 DEF InBounds, Queue!Put
<1>3. ASSUME NEW n \in 0 .. Readable(buf), buf' = Retrieve(buf, n), io' = <<"take", Peek(buf, n)>>
      PROVE  InBounds' /\ Queue!Take
  <2>1. WellFormed(Retrieve(buf, n)) /\ Content(buf) = Peek(buf, n) \o Content(Retrieve(buf, n))
    BY <1>3, RetrieveDrops DEF InBounds
  <2>2. QED
    BY <1>3, <2>1 DEF InBounds, Queue!Take
<1>4. Readable(buf) \in Nat /\ Readable(buf) \in 0 .. Readable(buf)
  BY DEF InBounds, WellFormed, Readable
<1>5. ASSUME NEW n \in 0 .. MaxContent + 1, DoRetrieveAsString(n) PROVE InBounds' /\ Queue!Take
  <2>1. n \in 0 .. Readable(buf)
    BY <1>4, <1>5, SizeAssumption DEF DoRetrieveAsString
  <2>2. QED
    BY <1>3, <1>5, <2>1 DEF DoRetrieveAsString
<1>6. ASSUME NEW n \in 0 .. MaxContent + 1, DoRetrieve(n) PROVE InBounds' /\ Queue!Take
  <2>1. CASE n < Readable(buf)
    <3>1. n \in 0 .. Readable(buf)
      BY <1>4, <1>6, <2>1, SizeAssumption
    <3>2. buf' = Retrieve(buf, n) /\ io' = <<"take", Peek(buf, n)>>
      BY <1>6, <2>1 DEF DoRetrieve
    <3>3. QED
      BY <1>3, <3>1, <3>2
  <2>2. CASE ~(n < Readable(buf))
    <3>1. buf' = Retrieve(buf, n) /\ io' = <<"take", Content(buf)>>
      BY <1>6, <2>2 DEF DoRetrieve
    <3>2. Retrieve(buf, n) = Retrieve(buf, Readable(buf))
      BY <1>4, <2>2 DEF Retrieve
    <3>3. QED
      BY <1>3, <1>4, <3>1, <3>2 DEF Content
  <2>3. QED
    BY <2>1, <2>2
<1>7. QED
  BY <1>1, <1>2, <1>5, <1>6 DEF Next, Queue!Next

\* However bytes are put in and taken out, the indices stay in order and inside the
\* vector: no unsigned difference wraps around and no copy leaves the vector.
THEOREM StaysInBounds == Spec => []InBounds
<1>1. Init => InBounds
  BY FreshIsEmpty DEF Init, InBounds
<1>2. InBounds /\ [Next]_vars => InBounds'
  <2>1. CASE Next
    BY <2>1, StepIsQueueStep
  <2>2. CASE UNCHANGED vars
    BY <2>2 DEF vars, InBounds
  <2>3. QED
    BY <2>1, <2>2
<1>3. QED
  BY <1>1, <1>2, PTL DEF Spec

\* Bytes leave a Buffer in the order in which they entered it, none missing and none
\* twice, whether they were moved, kept in two pieces by readFd, or copied to a
\* larger vector.
THEOREM BufferIsQueue == Spec => ImplementsQueue
<1>1. Init => Queue!Init
  BY FreshIsEmpty DEF Init, Queue!Init
<1>2. InBounds /\ [Next]_vars => [Queue!Next]_<<Content(buf), io>>
  <2>1. CASE Next
    BY <2>1, StepIsQueueStep
  <2>2. CASE UNCHANGED vars
    BY <2>2 DEF vars
  <2>3. QED
    BY <2>1, <2>2
<1>3. QED
  BY <1>1, <1>2, StaysInBounds, PTL DEF Spec, ImplementsQueue, Queue!Spec

-----------------------------------------------------------------------------
\* Storing bytes leaves the vector as large as it was.
LEMMA StoreSizes ==
  ASSUME NEW b, WellFormed(b), NEW data \in Seq(Byte)
  PROVE  Size(Store(b, data)) = Size(b) /\ Readable(Store(b, data)) = Readable(b) + Len(data)
<1> DEFINE c == Store(b, data)
           F(i) == IF i \in (b.writer + 1) .. (b.writer + Len(data))
                   THEN data[i - b.writer] ELSE b.bytes[i]
<1>1. c.bytes = [i \in 1 .. Size(b) |-> F(i)] /\ c.reader = b.reader
      /\ c.writer = b.writer + Len(data)
  BY DEF Store
<1>2. Size(b) \in Nat /\ b.reader \in Nat /\ b.writer \in Nat /\ Len(data) \in Nat
  BY DEF WellFormed, Size
<1> HIDE DEF c, F
<1>3. Len(c.bytes) = Size(b)
  BY <1>1, <1>2
<1>4. Readable(c) = Readable(b) + Len(data)
  BY <1>1, <1>2 DEF Readable
<1>5. QED
  BY <1>3, <1>4 DEF Size, c

\* append and readFd enlarge the vector only for content that does not fit it, where
\* the gap in front counts as room but for its first CheapPrepend bytes.
LEMMA AppendGrowth ==
  ASSUME NEW b, WellFormed(b), NEW data \in Seq(Byte)
  PROVE  LET c == AppendBytes(b, data)
         IN  Size(c) > Size(b) => Readable(c) > Size(b) - CheapPrepend
<1> DEFINE n == Len(data)
           d == EnsureWriteableBytes(b, n)
<1>0. /\ Size(b) \in Nat /\ b.reader \in Nat /\ b.writer \in Nat /\ n \in Nat
      /\ CheapPrepend \in Nat /\ b.writer <= Size(b)
      /\ Readable(b) = b.writer - b.reader
  BY SizeAssumption DEF WellFormed, Size, Readable
<1>1. WellFormed(d)
  BY <1>0, EnsureMakesRoom
<1>2. Size(d) > Size(b) => Readable(b) + n > Size(b) - CheapPrepend
  <2>1. CASE Writable(b) >= n
    <3>1. d = b
      BY <1>0, <2>1 DEF EnsureWriteableBytes, Writable
    <3>2. QED
      BY <1>0, <3>1
  <2>2. CASE Writable(b) < n /\ Writable(b) + Prependable(b) - CheapPrepend < n
    BY <1>0, <2>2 DEF Writable, Prependable
  <2>3. CASE Writable(b) < n /\ ~(Writable(b) + Prependable(b) - CheapPrepend < n)
    <3>1. d = MoveToFront(b)
      BY <2>3 DEF EnsureWriteableBytes, MakeSpace
    <3>2. Size(d) = Size(b)
      <4> DEFINE F(i) == IF i \in (CheapPrepend + 1) .. (CheapPrepend + Readable(b))
                         THEN At(b, b.reader + i - 1 - CheapPrepend) ELSE b.bytes[i]
      <4>1. d.bytes = [i \in 1 .. Size(b) |-> F(i)]
        BY <3>1 DEF MoveToFront
      <4> HIDE DEF F, d
      <4>2. Len(d.bytes) = Size(b)
        BY <1>0, <4>1
      <4>3. QED
        BY <4>2 DEF Size
    <3>3. QED
      BY <1>0, <3>2
  <2>4. QED
    BY <1>0, <2>1, <2>2, <2>3 DEF Writable
<1>3. Readable(d) = Readable(b)
  <2>1. Content(d) = Content(b)
    BY <1>0, EnsureMakesRoom
  <2>2. Readable(d) \in 0 .. Readable(d) /\ Readable(b) \in 0 .. Readable(b)
    BY <1>1 DEF WellFormed, Readable
  <2>3. Len(Content(d)) = Readable(d) /\ Len(Content(b)) = Readable(b)
    BY <1>1, <2>2, PeekIsBytes DEF Content
  <2>4. QED
    BY <2>1, <2>3
<1> HIDE DEF d
<1>4. Size(Store(d, data)) = Size(d) /\ Readable(Store(d, data)) = Readable(b) + n
  BY <1>1, <1>3, StoreSizes
<1> HIDE DEF n
<1>5. AppendBytes(b, data) = Store(d, data)
  BY DEF AppendBytes, d, n
<1>6. QED
  BY <1>2, <1>4, <1>5

LEMMA ReadFdGrowth ==
  ASSUME NEW b, WellFormed(b), NEW data \in Seq(Byte)
  PROVE  LET c == ReadFd(b, data)
         IN  Size(c) > Size(b) => Readable(c) > Size(b) - CheapPrepend
<1>0. Size(b) \in Nat
  BY DEF WellFormed, Size
<1>1. CASE Len(data) <= Writable(b)
  <2>1. ReadFd(b, data) = Store(b, data)
    BY <1>1 DEF ReadFd
  <2>2. Size(ReadFd(b, data)) = Size(b)
    BY <2>1, StoreSizes
  <2>3. QED
    BY <1>0, <2>2
<1>2. CASE ~(Len(data) <= Writable(b))
  <2> DEFINE w == Writable(b)
             x == SubSeq(data, 1, w)
             y == SubSeq(data, w + 1, Len(data))
  <2>1. w \in 0 .. Len(data)
    BY <1>2 DEF WellFormed, Writable, Size
  <2>2. ReadFd(b, data) = AppendBytes(Store(b, x), y)
    BY <1>2 DEF ReadFd
  <2>3. x \in Seq(Byte) /\ Len(x) = w /\ y \in Seq(Byte)
    BY <2>1, SMTT(30)
  <2>4. Len(x) <= Writable(b)
    BY <2>1, <2>3
  <2> HIDE DEF x, y
  <2>5. WellFormed(Store(b, x)) /\ Size(Store(b, x)) = Size(b)
    BY <2>3, <2>4, StoreAppends, StoreSizes
  <2>6. QED
    BY <2>2, <2>3, <2>5, AppendGrowth
<1>3. QED
  BY <1>1, <1>2

\* The memory of a buffer grows in a step only if the content after it could not
\* have been held by the vector as it was: makeSpace uses what was read first.
THEOREM GrowthIsNeeded == Spec => GrowsOnlyIfNeeded
<1> DEFINE Grows == Size(buf') > Size(buf) => Readable(buf') > Size(buf) - CheapPrepend
<1>1. InBounds /\ [Next]_vars => [Grows]_buf
  <2> SUFFICES ASSUME InBounds, Next PROVE Grows
    BY DEF vars
  <2>1. Size(buf) \in Nat
    BY DEF InBounds, WellFormed, Size
  <2>2. ASSUME NEW data \in Chunk, DoAppend(data) PROVE Grows
    BY <2>2, AppendGrowth, ChunksAreBytes DEF DoAppend, InBounds
  <2>3. ASSUME NEW data \in Chunk, DoReadFd(data) PROVE Grows
    BY <2>3, ReadFdGrowth, ChunksAreBytes DEF DoReadFd, InBounds
  <2>4. ASSUME NEW n, buf' = Retrieve(buf, n) PROVE Grows
    <3>1. Size(buf') = Size(buf)
      BY <2>4 DEF Retrieve, RetrieveAll, Size, InBounds, WellFormed
    <3>2. QED
      BY <2>1, <3>1
  <2>5. QED
    BY <2>2, <2>3, <2>4 DEF Next, DoRetrieve, DoRetrieveAsString
<1>2. QED
  BY <1>1, StaysInBounds, PTL DEF Spec, GrowsOnlyIfNeeded

=============================================================================
