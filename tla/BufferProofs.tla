---------------------------- MODULE BufferProofs ----------------------------
(***************************************************************************)
(* No index of buffer.go is ever out of range, and the readable bytes are  *)
(* a queue, for every length of the buffer, of the extra buffer and of the *)
(* data.                                                                   *)
(***************************************************************************)
EXTENDS Buffer, SequenceTheorems, TLAPS

\* The fields of a buffer that is in order.
Sound(x) ==
    /\ x.buf \in Seq(Nat)
    /\ x.r \in Nat /\ x.w \in Nat
    /\ x.r <= x.w /\ x.w <= Len(x.buf)

\* A function on 1..n is a sequence of length n.
LEMMA FunctionIsSeq ==
  ASSUME NEW n \in Nat, NEW f, f \in [1..n -> Nat]
  PROVE  f \in Seq(Nat) /\ Len(f) = n
<1>1. f \in Seq(Nat) /\ DOMAIN f = 1..n
  OBVIOUS
<1>2. Len(f) \in Nat /\ 1..Len(f) = 1..n
  BY <1>1
<1> QED
  BY <1>1, <1>2

\* make([]byte, n).
LEMMA ZerosLen ==
  ASSUME NEW n \in Nat
  PROVE  Zeros(n) \in Seq(Nat) /\ Len(Zeros(n)) = n
<1>1. Zeros(n) \in [1..n -> Nat]
  BY DEF Zeros
<1> QED
  BY <1>1, FunctionIsSeq

\* The data of the n bytes of the stream after the first m.
LEMMA StreamLen ==
  ASSUME NEW m \in Nat, NEW n \in Nat
  PROVE  Stream(m, n) \in Seq(Nat) /\ Len(Stream(m, n)) = n
<1>1. Stream(m, n) \in [1..n -> Nat]
  BY DEF Stream
<1> QED
  BY <1>1, FunctionIsSeq

\* copy never changes the length of what it copies into.
LEMMA CopyLen ==
  ASSUME NEW b \in Seq(Nat), NEW at \in Nat, NEW src \in Seq(Nat)
  PROVE  Copy(b, at, src) \in Seq(Nat) /\ Len(Copy(b, at, src)) = Len(b)
<1>1. ASSUME NEW i \in 1..Len(b)
      PROVE  (IF at < i /\ i <= at + Len(src) THEN src[i - at] ELSE b[i]) \in Nat
  <2>1. CASE at < i /\ i <= at + Len(src)
    <3>1. i - at \in 1..Len(src)
      BY <2>1
    <3> QED
      BY <3>1, <2>1
  <2>2. CASE ~(at < i /\ i <= at + Len(src))
    BY <2>2
  <2> QED
    BY <2>1, <2>2
<1>2. Copy(b, at, src) \in [1..Len(b) -> Nat]
  BY <1>1 DEF Copy
<1>3. Len(b) \in Nat
  OBVIOUS
<1> QED
  BY <1>2, <1>3, FunctionIsSeq

\* Growing or moving keeps the indexes within the buffer.
LEMMA makeSpaceSound ==
  ASSUME NEW x, Sound(x), NEW n \in Nat
  PROVE  /\ Sound(makeSpace(x, n))
         /\ makeSpace(x, n).w - makeSpace(x, n).r = x.w - x.r
<1>1. CASE (Len(x.buf) - x.w) + (x.w - x.r) < n
  <2>a. x.buf \in Seq(Nat) /\ Zeros(n) \in Seq(Nat) /\ Len(Zeros(n)) = n
    BY ZerosLen DEF Sound
  <2>1. /\ x.buf \o Zeros(n) \in Seq(Nat)
        /\ Len(x.buf \o Zeros(n)) = Len(x.buf) + n
    BY <2>a
  <2> QED
    BY <1>1, <2>1 DEF makeSpace, Fields, Sound
<1>2. CASE ~((Len(x.buf) - x.w) + (x.w - x.r) < n)
  <2>1. SubSeq(x.buf, x.r + 1, x.w) \in Seq(Nat)
    BY DEF Sound
  <2>2. /\ Copy(x.buf, 0, SubSeq(x.buf, x.r + 1, x.w)) \in Seq(Nat)
        /\ Len(Copy(x.buf, 0, SubSeq(x.buf, x.r + 1, x.w))) = Len(x.buf)
    BY <2>1, CopyLen DEF Sound
  <2> QED
    BY <1>2, <2>2 DEF makeSpace, Fields, Sound
<1> QED
  BY <1>1, <1>2

\* So does making room only when there is too little.
LEMMA ensureSound ==
  ASSUME NEW x, Sound(x), NEW n \in Nat
  PROVE  LET y == ensureWritableBytes(x, n) IN Sound(y) /\ y.w - y.r = x.w - x.r
  BY makeSpaceSound DEF ensureWritableBytes

\* Write advances writeIndex by what was copied, so it stays in the buffer
\* even when makeSpace has made too little room.
LEMMA WrittenSound ==
  ASSUME NEW x, Sound(x), NEW src \in Seq(Nat)
  PROVE  LET z == Written(x, src) IN
         Sound(z) /\ (z.w - z.r) - (x.w - x.r) \in 0..Len(src)
<1> DEFINE y == ensureWritableBytes(x, Len(src))
<1>1. Sound(y) /\ y.w - y.r = x.w - x.r
  BY ensureSound
<1>2. /\ Copy(y.buf, y.w, src) \in Seq(Nat)
      /\ Len(Copy(y.buf, y.w, src)) = Len(y.buf)
  BY <1>1, CopyLen DEF Sound
<1>3. /\ Least(Len(src), Len(y.buf) - y.w) \in Nat
      /\ Least(Len(src), Len(y.buf) - y.w) <= Len(y.buf) - y.w
      /\ Least(Len(src), Len(y.buf) - y.w) <= Len(src)
  BY <1>1 DEF Sound, Least
<1>4. Written(x, src) = Fields(Copy(y.buf, y.w, src), y.r,
                               y.w + Least(Len(src), Len(y.buf) - y.w))
  BY DEF Written
<1> HIDE DEF y
<1>5. /\ Sound(Written(x, src))
      /\ Written(x, src).r = y.r
      /\ Written(x, src).w = y.w + Least(Len(src), Len(y.buf) - y.w)
  BY <1>1, <1>2, <1>3, <1>4 DEF Fields, Sound
<1>6. Len(src) \in Nat /\ x.w \in Nat /\ x.r \in Nat /\ y.w \in Nat /\ y.r \in Nat
  BY <1>1 DEF Sound
<1> QED
  BY <1>1, <1>3, <1>5, <1>6

\* The fields of a buffer in order satisfy the invariant.
LEMMA BecomeSound ==
  ASSUME NEW x, Sound(x), Become(x), offered' \in Nat, unreported' \in Nat
  PROVE  BufferInv'
  BY DEF Sound, Become, BufferInv, TypeOK, Bounds

-----------------------------------------------------------------------------

\* Init establishes the invariant.
LEMMA BufferInit == Init => BufferInv
  BY BufferAssumption, ZerosLen DEF Init, BufferInv, TypeOK, Bounds

\* Write keeps the invariant.
LEMMA WriteSound ==
  ASSUME BufferInv, NEW n \in Nat, Write(n)
  PROVE  BufferInv'
<1> DEFINE x == Fields(buf, readIndex, writeIndex)
           z == Written(x, Stream(offered, n))
<1>1. Sound(x)
  BY DEF BufferInv, TypeOK, Bounds, Sound, Fields
<1>2. Stream(offered, n) \in Seq(Nat)
  BY StreamLen DEF BufferInv, TypeOK
<1>3. Sound(z)
  BY <1>1, <1>2, WrittenSound
<1>4. Become(z) /\ offered' \in Nat /\ unreported' \in Nat
  BY DEF Write, BufferInv, TypeOK
<1> QED
  BY <1>3, <1>4, BecomeSound

\* ReadFd keeps the invariant, and what it does not keep is no less than 0.
LEMMA ReadFdSound ==
  ASSUME BufferInv, NEW n \in Nat, ReadFd(n)
  PROVE  BufferInv'
<1> DEFINE direct == Least(n, WritableBytes)
           filled == Fields(Copy(buf, writeIndex, Stream(offered, direct)),
                            readIndex, writeIndex + direct)
           z == IF n <= WritableBytes THEN filled
                ELSE Written(filled, Stream(offered + direct, n - direct))
<1>1. /\ direct \in Nat /\ direct <= n /\ direct <= Len(buf) - writeIndex
      /\ n <= WritableBytes => direct = n
      /\ buf \in Seq(Nat) /\ offered \in Nat
      /\ readIndex \in Nat /\ writeIndex \in Nat /\ readIndex <= writeIndex
      /\ ReadableBytes = writeIndex - readIndex
  BY DEF Least, WritableBytes, ReadableBytes, BufferInv, TypeOK, Bounds
<1> HIDE DEF direct
<1>2. /\ Stream(offered, direct) \in Seq(Nat)
      /\ Stream(offered + direct, n - direct) \in Seq(Nat)
      /\ Len(Stream(offered + direct, n - direct)) = n - direct
  <2>1. offered + direct \in Nat /\ n - direct \in Nat
    BY <1>1
  <2> QED
    BY <2>1, <1>1, StreamLen
<1>3. /\ Copy(buf, writeIndex, Stream(offered, direct)) \in Seq(Nat)
      /\ Len(Copy(buf, writeIndex, Stream(offered, direct))) = Len(buf)
  BY <1>1, <1>2, CopyLen
<1>4. Sound(filled) /\ filled.w - filled.r = ReadableBytes + direct
  BY <1>1, <1>3 DEF Sound, Fields
<1>5. Sound(z) /\ (z.w - z.r) - ReadableBytes \in 0..n
  <2>1. CASE n <= WritableBytes
    BY <2>1, <1>1, <1>4
  <2>2. CASE ~(n <= WritableBytes)
    <3> DEFINE v == Written(filled, Stream(offered + direct, n - direct))
    <3>1. Sound(v) /\ (v.w - v.r) - (filled.w - filled.r) \in 0..(n - direct)
      <4> HIDE DEF filled
      <4> QED
        BY <1>2, <1>4, WrittenSound
    <3>2. v.w \in Nat /\ v.r \in Nat
      BY <3>1 DEF Sound
    <3>3. z = v
      BY <2>2
    <3> HIDE DEF v, z, filled
    <3> QED
      BY <3>1, <3>2, <3>3, <1>1, <1>4
  <2> QED
    BY <2>1, <2>2
<1>6. /\ Become(z)
      /\ offered' = offered + n
      /\ unreported' = unreported + (n - ((z.w - z.r) - ReadableBytes))
  BY DEF ReadFd, direct
<1>7. offered' \in Nat /\ unreported' \in Nat
  <2> HIDE DEF z
  <2>1. unreported \in Nat
    BY DEF BufferInv, TypeOK
  <2> QED
    BY <2>1, <1>1, <1>5, <1>6
<1> HIDE DEF z
<1> QED
  BY <1>5, <1>6, <1>7, BecomeSound

\* Read, Advance, Next and Reset keep the invariant.
LEMMA ConsumeSound ==
  ASSUME BufferInv,
         \/ \E n \in Nat : Read(n) \/ Advance(n)
         \/ \E n \in Int : Next_(n)
         \/ Reset
  PROVE  BufferInv'
  BY DEF BufferInv, TypeOK, Bounds, Read, Advance, Next_, Reset, Least,
         ReadableBytes

\* Shrink keeps the invariant: the new slice holds all that is readable.
LEMMA ShrinkSound ==
  ASSUME BufferInv, NEW n \in Nat, Shrink(n)
  PROVE  BufferInv'
<1>1. /\ ReadableBytes \in Nat /\ ReadableBytes + n \in Nat
      /\ Peek \in Seq(Nat)
  BY DEF ReadableBytes, Peek, BufferInv, TypeOK, Bounds
<1>2. /\ Zeros(ReadableBytes + n) \in Seq(Nat)
      /\ Len(Zeros(ReadableBytes + n)) = ReadableBytes + n
  BY <1>1, ZerosLen
<1>3. /\ Copy(Zeros(ReadableBytes + n), 0, Peek) \in Seq(Nat)
      /\ Len(Copy(Zeros(ReadableBytes + n), 0, Peek)) = ReadableBytes + n
  BY <1>1, <1>2, CopyLen
<1> QED
  BY <1>1, <1>3 DEF Shrink, BufferInv, TypeOK, Bounds

\* Every operation of Buffer leaves readIndex <= writeIndex <= len(buf), and
\* ReadFd never keeps more than it received: no slice expression of buffer.go
\* panics, for any lengths.
THEOREM BufferInBounds == Spec => []BufferInv
<1>1. ASSUME BufferInv, [Next]_vars PROVE BufferInv'
  <2>1. CASE \E n \in 0..MaxOp : Write(n)
    BY <1>1, <2>1, BufferAssumption, WriteSound
  <2>2. CASE \E n \in 0..MaxOp : ReadFd(n)
    BY <1>1, <2>2, BufferAssumption, ReadFdSound
  <2>3. CASE \E n \in 0..MaxOp : Read(n) \/ Advance(n)
    BY <1>1, <2>3, BufferAssumption, ConsumeSound
  <2>4. CASE \E n \in 0..MaxOp : Shrink(n)
    BY <1>1, <2>4, BufferAssumption, ShrinkSound
  <2>5. CASE (\E n \in -1..MaxOp : Next_(n)) \/ Reset
    BY <1>1, <2>5, BufferAssumption, ConsumeSound
  <2>6. CASE UNCHANGED vars
    BY <1>1, <2>6 DEF vars, BufferInv, TypeOK, Bounds
  <2> QED
    BY <1>1, <2>1, <2>2, <2>3, <2>4, <2>5, <2>6 DEF Next
<1> QED
  BY <1>1, BufferInit, PTL DEF Spec

-----------------------------------------------------------------------------
(* The readable bytes are a queue.                                          *)

\* Peek, of the fields x.
Data(x) == SubSeq(x.buf, x.r + 1, x.w)

\* The readable bytes, one by one.
LEMMA DataElements ==
  ASSUME NEW x, Sound(x)
  PROVE  /\ Data(x) \in Seq(Nat) /\ Len(Data(x)) = x.w - x.r /\ x.w - x.r \in Nat
         /\ \A i \in 1..(x.w - x.r) : Data(x)[i] = x.buf[x.r + i]
<1>1. /\ x.buf \in Seq(Nat) /\ x.r \in Nat /\ x.w \in Nat
      /\ x.r <= x.w /\ x.w <= Len(x.buf) /\ Len(x.buf) \in Nat
  BY DEF Sound
<1>2. \A i \in (x.r + 1)..x.w : x.buf[i] \in Nat
  BY <1>1
<1>3. x.r + 1 \in Int /\ x.w \in Int
  BY <1>1
<1>4. /\ Data(x) \in Seq(Nat)
      /\ Len(Data(x)) = IF x.r + 1 <= x.w THEN x.w - (x.r + 1) + 1 ELSE 0
      /\ \A i \in 1..(x.w - (x.r + 1) + 1) : Data(x)[i] = x.buf[(x.r + 1) + i - 1]
  BY <1>2, <1>3, SubSeqProperties DEF Data
<1>5. x.w - (x.r + 1) + 1 = x.w - x.r /\ x.w - x.r \in Nat
  BY <1>1
<1>6. Len(Data(x)) = x.w - x.r
  BY <1>1, <1>4
<1>7. ASSUME NEW i \in 1..(x.w - x.r) PROVE Data(x)[i] = x.buf[x.r + i]
  <2>1. i \in 1..(x.w - (x.r + 1) + 1) /\ (x.r + 1) + i - 1 = x.r + i
    BY <1>1, <1>5
  <2>2. Data(x)[i] = x.buf[(x.r + 1) + i - 1]
    BY <1>4, <2>1
  <2> QED BY <2>1, <2>2
<1> QED BY <1>4, <1>5, <1>6, <1>7

\* Two buffers show the same bytes.
LEMMA SameData ==
  ASSUME NEW x, Sound(x), NEW y, Sound(y), y.w - y.r = x.w - x.r,
         \A i \in 1..(x.w - x.r) : y.buf[y.r + i] = x.buf[x.r + i]
  PROVE  Data(y) = Data(x)
<1>1. /\ Data(x) \in Seq(Nat) /\ Len(Data(x)) = x.w - x.r
      /\ \A i \in 1..(x.w - x.r) : Data(x)[i] = x.buf[x.r + i]
  BY DataElements
<1>2. /\ Data(y) \in Seq(Nat) /\ Len(Data(y)) = x.w - x.r
      /\ \A i \in 1..(x.w - x.r) : Data(y)[i] = y.buf[y.r + i]
  BY DataElements
<1>3. Len(Data(y)) = Len(Data(x)) /\ \A i \in 1..Len(Data(y)) : Data(y)[i] = Data(x)[i]
  BY <1>1, <1>2
<1> QED BY <1>1, <1>2, <1>3, SeqEqual

\* Growing appends to the slice, moving brings the readable bytes to its front:
\* the same bytes are readable.
LEMMA makeSpaceData ==
  ASSUME NEW x, Sound(x), NEW n \in Nat
  PROVE  Data(makeSpace(x, n)) = Data(x)
<1> DEFINE y == makeSpace(x, n)
<1>1. Sound(y) /\ y.w - y.r = x.w - x.r
  BY makeSpaceSound
<1>2. /\ x.buf \in Seq(Nat) /\ x.r \in Nat /\ x.w \in Nat
      /\ x.r <= x.w /\ x.w <= Len(x.buf) /\ Len(x.buf) \in Nat
  BY DEF Sound
<1>3. ASSUME NEW i \in 1..(x.w - x.r) PROVE y.buf[y.r + i] = x.buf[x.r + i]
  <2>1. CASE (Len(x.buf) - x.w) + (x.w - x.r) < n
    <3>1. y.buf = x.buf \o Zeros(n) /\ y.r = x.r
      BY <2>1 DEF makeSpace, Fields
    <3>2. x.r + i \in 1..Len(x.buf)
      BY <1>2
    <3>3. Zeros(n) \in Seq(Nat)
      BY ZerosLen
    <3>4. (x.buf \o Zeros(n))[x.r + i] = x.buf[x.r + i]
      BY <1>2, <3>2, <3>3
    <3> HIDE DEF y
    <3> QED BY <3>1, <3>4
  <2>2. CASE ~((Len(x.buf) - x.w) + (x.w - x.r) < n)
    <3>1. y.buf = Copy(x.buf, 0, Data(x)) /\ y.r = 0
      BY <2>2 DEF makeSpace, Fields, Data
    <3>2. /\ Len(Data(x)) = x.w - x.r /\ Data(x)[i] = x.buf[x.r + i]
      BY DataElements
    <3>3. i \in 1..Len(x.buf) /\ 0 < i /\ i <= 0 + Len(Data(x)) /\ i - 0 = i /\ 0 + i = i
      BY <1>2, <3>2
    <3>4. Copy(x.buf, 0, Data(x))[i] = Data(x)[i]
      BY <3>3 DEF Copy
    <3> HIDE DEF y
    <3> QED BY <3>1, <3>2, <3>3, <3>4
  <2> QED BY <2>1, <2>2
<1> HIDE DEF y
<1>4. Data(y) = Data(x)
  BY <1>1, <1>3, SameData
<1> QED BY <1>4 DEF y

\* u is s, of length a, and t, of length b, behind it.
Joined(u, s, t, a, b) ==
    /\ u \in Seq(Nat) /\ Len(u) = a + b
    /\ \A i \in 1..(a + b) : u[i] = IF i <= a THEN s[i] ELSE t[i - a]

\* Concatenation is associative.
LEMMA Associative ==
  ASSUME NEW s \in Seq(Nat), NEW t \in Seq(Nat), NEW u \in Seq(Nat)
  PROVE  (s \o t) \o u = s \o (t \o u)
BY ConcatAssociative

\* A sequence behind another one.
LEMMA Concatenated ==
  ASSUME NEW s \in Seq(Nat), NEW t \in Seq(Nat), NEW a, a = Len(s), NEW b, b = Len(t)
  PROVE  Joined(s \o t, s, t, a, b)
BY ConcatProperties DEF Joined

\* z is y after the n bytes of the stream behind the first m were copied to
\* writeIndex, which has advanced by k.
Filled(y, z, m, n, k) ==
    /\ k <= n /\ y.w + k <= Len(y.buf)
    /\ z = Fields(Copy(y.buf, y.w, Stream(m, n)), y.r, y.w + k)

\* z shows what y does, and then the k bytes of the stream behind the first m.
Appended(y, z, m, k) == Sound(z) /\ Data(z) = Data(y) \o Stream(m, k)

\* copy behind the readable bytes makes the first k of what is copied readable.
LEMMA CopyData ==
  ASSUME NEW y, Sound(y), NEW m \in Nat, NEW n \in Nat, NEW k \in Nat, NEW z,
         Filled(y, z, m, n, k)
  PROVE  Appended(y, z, m, k)
<1>0. /\ k <= n /\ y.w + k <= Len(y.buf)
      /\ z = Fields(Copy(y.buf, y.w, Stream(m, n)), y.r, y.w + k)
  BY DEF Filled
<1>1. /\ y.buf \in Seq(Nat) /\ y.r \in Nat /\ y.w \in Nat
      /\ y.r <= y.w /\ y.w <= Len(y.buf) /\ Len(y.buf) \in Nat
  BY DEF Sound
<1>2. Stream(m, n) \in Seq(Nat) /\ Len(Stream(m, n)) = n
  BY StreamLen
<1>3. Stream(m, k) \in Seq(Nat) /\ Len(Stream(m, k)) = k
  BY StreamLen
<1>4. /\ z.buf = Copy(y.buf, y.w, Stream(m, n)) /\ z.r = y.r /\ z.w = y.w + k
      /\ z.buf \in Seq(Nat) /\ Len(z.buf) = Len(y.buf)
  BY <1>0, <1>1, <1>2, CopyLen DEF Fields
<1>5. Sound(z)
  BY <1>0, <1>1, <1>4 DEF Sound
<1>6. /\ Data(y) \in Seq(Nat) /\ Len(Data(y)) = y.w - y.r
      /\ \A i \in 1..(y.w - y.r) : Data(y)[i] = y.buf[y.r + i]
  BY DataElements
<1>7. /\ Data(z) \in Seq(Nat) /\ Len(Data(z)) = (y.w - y.r) + k
      /\ \A i \in 1..((y.w - y.r) + k) : Data(z)[i] = z.buf[y.r + i]
  <2>1. z.w - z.r = (y.w - y.r) + k
    BY <1>1, <1>4
  <2> QED BY <1>4, <1>5, <2>1, DataElements
<1> DEFINE s == Data(y) \o Stream(m, k)
<1>8. /\ s \in Seq(Nat) /\ Len(s) = (y.w - y.r) + k
      /\ \A i \in 1..((y.w - y.r) + k) :
            s[i] = IF i <= y.w - y.r THEN Data(y)[i] ELSE Stream(m, k)[i - (y.w - y.r)]
  <2>1. Joined(s, Data(y), Stream(m, k), y.w - y.r, k)
    BY <1>3, <1>6, Concatenated
  <2> HIDE DEF s
  <2> QED BY <2>1 DEF Joined
<1> HIDE DEF s
<1>9. ASSUME NEW i \in 1..((y.w - y.r) + k) PROVE Data(z)[i] = s[i]
  <2>1. y.r + i \in 1..Len(y.buf)
    BY <1>0, <1>1
  <2>2. z.buf[y.r + i] = IF y.w < y.r + i /\ y.r + i <= y.w + n
                         THEN Stream(m, n)[(y.r + i) - y.w] ELSE y.buf[y.r + i]
    BY <1>2, <1>4, <2>1 DEF Copy
  <2>3. CASE i <= y.w - y.r
    <3>1. ~(y.w < y.r + i) /\ i \in 1..(y.w - y.r)
      BY <1>1, <2>3
    <3> QED BY <1>6, <1>7, <1>8, <2>2, <2>3, <3>1
  <2>4. CASE ~(i <= y.w - y.r)
    <3>0. i \in Nat /\ i <= (y.w - y.r) + k
      BY <1>1
    <3>a. y.w < y.r + i /\ y.r + i <= y.w + n
      BY <1>0, <1>1, <2>4, <3>0
    <3>b. (y.r + i) - y.w = i - (y.w - y.r)
      BY <1>1, <3>0
    <3>c. i - (y.w - y.r) \in 1..k /\ i - (y.w - y.r) \in 1..n
      BY <1>0, <1>1, <2>4, <3>0
    <3>1. /\ y.w < y.r + i /\ y.r + i <= y.w + n
          /\ (y.r + i) - y.w = i - (y.w - y.r)
          /\ i - (y.w - y.r) \in 1..k /\ i - (y.w - y.r) \in 1..n
      BY <3>a, <3>b, <3>c
    <3>2. Stream(m, n)[i - (y.w - y.r)] = Stream(m, k)[i - (y.w - y.r)]
      BY <3>1 DEF Stream
    <3> QED BY <1>7, <1>8, <2>2, <2>4, <3>1, <3>2
  <2> QED BY <2>3, <2>4
<1>10. Data(z) = s
  <2>1. Len(Data(z)) = Len(s) /\ \A i \in 1..Len(Data(z)) : Data(z)[i] = s[i]
    BY <1>7, <1>8, <1>9
  <2> QED BY <1>7, <1>8, <2>1, SeqEqual
<1> QED BY <1>5, <1>10 DEF s, Appended

\* Write keeps what was readable and makes the first bytes it is given readable
\* behind it.
LEMMA WrittenData ==
  ASSUME NEW x, Sound(x), NEW m \in Nat, NEW n \in Nat
  PROVE  \E k \in 0..n : Appended(x, Written(x, Stream(m, n)), m, k)
<1>1. Stream(m, n) \in Seq(Nat) /\ Len(Stream(m, n)) = n
  BY StreamLen
<1> DEFINE y == ensureWritableBytes(x, n)
           k == Least(n, Len(y.buf) - y.w)
<1>2. Sound(y) /\ Data(y) = Data(x)
  BY ensureSound, makeSpaceData DEF ensureWritableBytes
<1>3. Written(x, Stream(m, n)) = Fields(Copy(y.buf, y.w, Stream(m, n)), y.r, y.w + k)
  BY <1>1 DEF Written
<1> HIDE DEF y
<1>4. k \in Nat /\ k <= n /\ y.w + k <= Len(y.buf)
  BY <1>2 DEF Sound, Least
<1> HIDE DEF k
<1>5. Appended(y, Written(x, Stream(m, n)), m, k)
  <2>1. Filled(y, Written(x, Stream(m, n)), m, n, k)
    BY <1>3, <1>4 DEF Filled
  <2>2. Sound(y) /\ k \in Nat
    BY <1>2, <1>4
  <2> QED BY <2>1, <2>2, CopyData
<1>6. k \in 0..n
  BY <1>4
<1> QED BY <1>2, <1>5, <1>6 DEF Appended

\* Two pieces of the stream, one after the other.
LEMMA StreamJoined ==
  ASSUME NEW m \in Nat, NEW a \in Nat, NEW b \in Nat
  PROVE  Stream(m, a) \o Stream(m + a, b) = Stream(m, a + b)
<1> DEFINE s == Stream(m, a) \o Stream(m + a, b)
<1>1. /\ Stream(m, a) \in Seq(Nat) /\ Len(Stream(m, a)) = a
      /\ Stream(m + a, b) \in Seq(Nat) /\ Len(Stream(m + a, b)) = b
      /\ Stream(m, a + b) \in Seq(Nat) /\ Len(Stream(m, a + b)) = a + b
  <2>1. m + a \in Nat /\ a + b \in Nat
    OBVIOUS
  <2> QED BY <2>1, StreamLen
<1>2. /\ s \in Seq(Nat) /\ Len(s) = a + b
      /\ \A i \in 1..(a + b) :
            s[i] = IF i <= a THEN Stream(m, a)[i] ELSE Stream(m + a, b)[i - a]
  <2>1. Joined(s, Stream(m, a), Stream(m + a, b), a, b)
    BY <1>1, Concatenated
  <2> HIDE DEF s
  <2> QED BY <2>1 DEF Joined
<1> HIDE DEF s
<1>3. ASSUME NEW i \in 1..(a + b) PROVE s[i] = Stream(m, a + b)[i]
  <2>1. CASE i <= a
    <3>1. Stream(m, a)[i] = m + i /\ Stream(m, a + b)[i] = m + i
      BY <2>1 DEF Stream
    <3> QED BY <1>2, <2>1, <3>1
  <2>2. CASE ~(i <= a)
    <3>1. i - a \in 1..b /\ (m + a) + (i - a) = m + i
      BY <2>2
    <3>2. Stream(m + a, b)[i - a] = m + i /\ Stream(m, a + b)[i] = m + i
      BY <3>1 DEF Stream
    <3> QED BY <1>2, <2>2, <3>2
  <2> QED BY <2>1, <2>2
<1>4. s = Stream(m, a + b)
  <2>1. Len(s) = Len(Stream(m, a + b)) /\ \A i \in 1..Len(s) : s[i] = Stream(m, a + b)[i]
    BY <1>1, <1>2, <1>3
  <2> QED BY <1>1, <1>2, <2>1, SeqEqual
<1> QED BY <1>4 DEF s

\* Peek is the data of the buffer's own fields.
LEMMA PeekIsData ==
  ASSUME BufferInv
  PROVE  LET x == Fields(buf, readIndex, writeIndex) IN
         /\ Sound(x) /\ Data(x) = Peek /\ Peek \in Seq(Nat) /\ Len(Peek) = ReadableBytes
         /\ ReadableBytes \in Nat /\ offered \in Nat
<1> DEFINE x == Fields(buf, readIndex, writeIndex)
<1>1. Sound(x) /\ x.w - x.r = ReadableBytes /\ offered \in Nat
  BY DEF BufferInv, TypeOK, Bounds, Sound, Fields, ReadableBytes
<1>2. Data(x) = Peek
  BY DEF Data, Peek, Fields
<1>3. Data(x) \in Seq(Nat) /\ Len(Data(x)) = x.w - x.r /\ x.w - x.r \in Nat
  <2> HIDE DEF x
  <2> QED BY <1>1, DataElements
<1> QED BY <1>1, <1>2, <1>3

\* The fields after a step, as Peek shows them.
LEMMA PeekBecomes ==
  ASSUME NEW z, Become(z)
  PROVE  Peek' = Data(z)
BY DEF Become, Peek, Data

\* A step of the queue, or none.
QStep == [Q!Next]_<<Peek, offered>>

\* Bytes of the stream come in, of which the first k are kept.
LEMMA PutStep ==
  ASSUME BufferInv, NEW n \in Nat, NEW k \in 0..n, offered' = offered + n,
         Peek' = Peek \o Stream(offered, k)
  PROVE  QStep
<1>1. Peek \in Seq(Nat) /\ offered \in Nat /\ Len(Peek) \in Nat
  BY PeekIsData
<1>2. Stream(offered, k) \in Seq(Nat) /\ Len(Stream(offered, k)) = k
  BY <1>1, StreamLen
<1>3. Len(Peek') = Len(Peek) + k
  <2>1. Joined(Peek \o Stream(offered, k), Peek, Stream(offered, k), Len(Peek), k)
    BY <1>1, <1>2, Concatenated
  <2> QED BY <2>1 DEF Joined
<1>4. CASE n = 0
  <2>1. Len(Peek') = Len(Peek) /\ k = 0
    BY <1>1, <1>3, <1>4
  <2>2. Stream(offered, k) = <<>>
    BY <1>2, <2>1
  <2>3. Peek' = Peek
    BY <1>1, <2>2
  <2>4. offered' = offered
    BY <1>1, <1>4
  <2> QED BY <2>3, <2>4 DEF QStep
<1>5. CASE n # 0
  <2>1. /\ offered' > offered /\ offered' - offered = n /\ Len(Peek') - Len(Peek) = k
        /\ offered' = offered + (offered' - offered)
    BY <1>1, <1>3, <1>5
  <2>2. Q!Put(n, k)
    BY <2>1 DEF Q!Put, Stream
  <2>3. Q!Next
    BY <2>1, <2>2 DEF Q!Next
  <2> QED BY <2>3 DEF QStep
<1> QED BY <1>4, <1>5

\* The first k bytes are taken, perhaps none.
LEMMA TakeStep ==
  ASSUME BufferInv, NEW k \in 0..Len(Peek), UNCHANGED offered,
         Peek' = SubSeq(Peek, k + 1, Len(Peek))
  PROVE  QStep
<1>1. Peek \in Seq(Nat) /\ Len(Peek) \in Nat
  BY PeekIsData
<1>2. CASE k = 0
  <2>1. Peek' = Peek
    BY <1>1, <1>2
  <2> QED BY <2>1 DEF QStep
<1>3. CASE k # 0
  <2>1. Len(Peek') = Len(Peek) - k
    BY <1>1
  <2>2. Len(Peek) - Len(Peek') = k /\ k \in 1..Len(Peek)
    BY <1>1, <1>3, <2>1
  <2>3. Q!Take(k)
    BY DEF Q!Take
  <2> QED BY <2>2, <2>3 DEF QStep, Q!Next
<1> QED BY <1>2, <1>3

\* Write.
LEMMA WriteQueues ==
  ASSUME BufferInv, NEW n \in Nat, Write(n)
  PROVE  QStep
<1> DEFINE x == Fields(buf, readIndex, writeIndex)
           z == Written(x, Stream(offered, n))
<1>1. Sound(x) /\ Data(x) = Peek /\ offered \in Nat
  BY PeekIsData
<1>2. Become(z) /\ offered' = offered + n
  BY DEF Write
<1> HIDE DEF x
<1>3. PICK k \in 0..n : Appended(x, z, offered, k)
  BY <1>1, WrittenData
<1> HIDE DEF z
<1>4. Peek' = Peek \o Stream(offered, k)
  BY <1>1, <1>2, <1>3, PeekBecomes DEF Appended
<1> QED BY <1>2, <1>4, PutStep

\* ReadFd: what fits is read to its place, and the rest, as much as is kept of
\* it, is written behind it.
LEMMA ReadFdQueues ==
  ASSUME BufferInv, NEW n \in Nat, ReadFd(n)
  PROVE  QStep
<1> DEFINE x == Fields(buf, readIndex, writeIndex)
           direct == Least(n, WritableBytes)
           filled == Fields(Copy(buf, writeIndex, Stream(offered, direct)),
                            readIndex, writeIndex + direct)
           rest == n - direct
           z == IF n <= WritableBytes THEN filled
                ELSE Written(filled, Stream(offered + direct, rest))
<1>1. Sound(x) /\ Data(x) = Peek /\ offered \in Nat /\ Peek \in Seq(Nat)
  BY PeekIsData
<1>2. Become(z) /\ offered' = offered + n
  BY DEF ReadFd
<1>3. /\ direct \in Nat /\ direct <= n /\ rest \in Nat /\ writeIndex + direct <= Len(buf)
      /\ direct + rest = n /\ offered + direct \in Nat
      /\ n <= WritableBytes => rest = 0 /\ direct \in 0..n
  BY DEF Least, WritableBytes, BufferInv, TypeOK, Bounds
<1> HIDE DEF direct, rest
<1>4. Filled(x, filled, offered, direct, direct)
  BY <1>3 DEF Filled, Fields
<1> HIDE DEF x, filled
<1>5. Appended(x, filled, offered, direct)
  BY <1>1, <1>3, <1>4, CopyData
<1>6. CASE n <= WritableBytes
  <2>1. z = filled
    BY <1>6
  <2>2. Peek' = Peek \o Stream(offered, direct)
    BY <1>1, <1>2, <1>5, <2>1, PeekBecomes DEF Appended
  <2> QED BY <1>2, <1>3, <1>6, <2>2, PutStep
<1>7. CASE ~(n <= WritableBytes)
  <2>1. z = Written(filled, Stream(offered + direct, rest))
    BY <1>7
  <2>2. Sound(filled)
    BY <1>5 DEF Appended
  <2>a. offered + direct \in Nat /\ rest \in Nat
    BY <1>3
  <2> DEFINE m == offered + direct
  <2>b. m \in Nat
    BY <2>a
  <2> HIDE DEF m
  <2>c. \E k \in 0..rest : Appended(filled, Written(filled, Stream(m, rest)), m, k)
    BY <2>a, <2>b, <2>2, WrittenData
  <2>3. PICK k \in 0..rest : Appended(filled, z, offered + direct, k)
    BY <2>1, <2>c DEF m
  <2> HIDE DEF z
  <2>4. k \in Nat /\ direct + k \in 0..n
    BY <1>3
  <2>5. Peek' = (Peek \o Stream(offered, direct)) \o Stream(offered + direct, k)
    BY <1>1, <1>2, <1>5, <2>3, PeekBecomes DEF Appended
  <2>6. Stream(offered, direct) \in Seq(Nat) /\ Stream(offered + direct, k) \in Seq(Nat)
    BY <1>1, <1>3, <2>4, StreamLen
  <2>7. Peek' = Peek \o (Stream(offered, direct) \o Stream(offered + direct, k))
    BY <1>1, <2>5, <2>6, Associative
  <2>8. Peek' = Peek \o Stream(offered, direct + k)
    BY <1>1, <1>3, <2>4, <2>7, StreamJoined
  <2> QED BY <1>2, <2>4, <2>8, PutStep
<1> QED BY <1>6, <1>7

\* t is s, of length n, without its first k elements.
Rear(t, s, k, n) ==
    /\ t \in Seq(Nat) /\ Len(t) = n - k
    /\ \A i \in 1..(n - k) : t[i] = s[k + i]

\* SubSeq to the end.
LEMMA SuffixElements ==
  ASSUME NEW s \in Seq(Nat), NEW n \in Nat, n = Len(s), NEW k \in Nat, k <= n
  PROVE  Rear(SubSeq(s, k + 1, n), s, k, n)
<1> DEFINE t == SubSeq(s, k + 1, n)
<1>1. t = [i \in 1..(n - k) |-> s[k + i]]
  <2>1. t = [i \in 1..(n - (k + 1) + 1) |-> s[i + (k + 1) - 1]]
    BY DEF t
  <2>2. n - (k + 1) + 1 = n - k /\ \A i \in 1..(n - k) : i + (k + 1) - 1 = k + i
    OBVIOUS
  <2> QED BY <2>1, <2>2
<1>2. \A i \in 1..(n - k) : s[k + i] \in Nat
  OBVIOUS
<1> HIDE DEF t
<1>3. n - k \in Nat
  OBVIOUS
<1>4. t \in Seq(Nat) /\ Len(t) = n - k
  BY <1>1, <1>2, <1>3
<1> QED BY <1>1, <1>4 DEF t, Rear

\* The front of the readable bytes is passed over.
LEMMA Passed ==
  ASSUME BufferInv, NEW k \in 0..ReadableBytes, readIndex' = readIndex + k,
         UNCHANGED <<buf, writeIndex, offered>>
  PROVE  QStep
<1> DEFINE x == Fields(buf, readIndex, writeIndex)
           z == Fields(buf, readIndex + k, writeIndex)
           t == SubSeq(Peek, k + 1, Len(Peek))
<1>1. /\ Sound(x) /\ Data(x) = Peek /\ Peek \in Seq(Nat) /\ Len(Peek) = ReadableBytes
      /\ ReadableBytes \in Nat
  BY PeekIsData
<1>2. /\ x.buf = buf /\ x.r = readIndex /\ x.w = writeIndex
      /\ z.buf = buf /\ z.r = readIndex + k /\ z.w = writeIndex
      /\ ReadableBytes = writeIndex - readIndex /\ k \in Nat /\ k <= writeIndex - readIndex
      /\ buf \in Seq(Nat) /\ readIndex \in Nat /\ writeIndex \in Nat
      /\ writeIndex <= Len(buf)
  BY <1>1 DEF Fields, ReadableBytes, BufferInv, TypeOK, Bounds
<1>3. Become(z)
  BY <1>2 DEF Become
<1>4. Sound(z)
  BY <1>2 DEF Sound
<1> HIDE DEF x, z
<1>5. Peek' = Data(z)
  BY <1>3, PeekBecomes
<1>6. /\ Data(z) \in Seq(Nat) /\ Len(Data(z)) = ReadableBytes - k
      /\ \A i \in 1..(ReadableBytes - k) : Data(z)[i] = buf[(readIndex + k) + i]
  <2>1. z.w - z.r = ReadableBytes - k
    BY <1>2
  <2>2. /\ Data(z) \in Seq(Nat) /\ Len(Data(z)) = z.w - z.r
        /\ \A i \in 1..(z.w - z.r) : Data(z)[i] = z.buf[z.r + i]
    BY <1>4, DataElements
  <2> QED BY <1>2, <2>1, <2>2
<1>7. /\ t \in Seq(Nat) /\ Len(t) = ReadableBytes - k
      /\ \A i \in 1..(ReadableBytes - k) : t[i] = Peek[k + i]
  <2> DEFINE n == Len(Peek)
  <2>1. n \in Nat /\ k \in Nat /\ k <= n /\ n = ReadableBytes
    BY <1>1, <1>2
  <2> HIDE DEF n
  <2>2. Rear(SubSeq(Peek, k + 1, n), Peek, k, n)
    BY <1>1, <2>1, SuffixElements DEF n
  <2>3. t = SubSeq(Peek, k + 1, n)
    BY DEF n
  <2> HIDE DEF t
  <2> QED BY <2>1, <2>2, <2>3 DEF Rear
<1> HIDE DEF t
<1>8. ASSUME NEW i \in 1..(ReadableBytes - k) PROVE Data(z)[i] = t[i]
  <2>1. k + i \in 1..(x.w - x.r) /\ x.r + (k + i) = (readIndex + k) + i
    <3>1. i \in Nat /\ 1 <= i /\ i <= (writeIndex - readIndex) - k
      BY <1>1, <1>2
    <3>2. k + i \in 1..(writeIndex - readIndex)
      BY <1>2, <3>1
    <3>3. readIndex + (k + i) = (readIndex + k) + i
      BY <1>2, <3>1
    <3> QED BY <1>2, <3>2, <3>3
  <2>2. Data(x)[k + i] = x.buf[x.r + (k + i)]
    BY <1>1, <2>1, DataElements
  <2> QED BY <1>1, <1>2, <1>6, <1>7, <2>1, <2>2
<1>9. Data(z) = t
  <2>1. Len(Data(z)) = Len(t) /\ \A i \in 1..Len(Data(z)) : Data(z)[i] = t[i]
    BY <1>6, <1>7, <1>8
  <2> QED BY <1>6, <1>7, <2>1, SeqEqual
<1>10. Peek' = SubSeq(Peek, k + 1, Len(Peek)) /\ k \in 0..Len(Peek)
  BY <1>1, <1>5, <1>9 DEF t
<1> QED BY <1>10, TakeStep

\* The buffer starts over.
LEMMA StartsOver ==
  ASSUME BufferInv, readIndex' = 0, writeIndex' = 0, UNCHANGED <<buf, offered>>
  PROVE  QStep
<1>1. Peek \in Seq(Nat) /\ Len(Peek) \in Nat
  BY PeekIsData
<1>2. SubSeq(Peek, Len(Peek) + 1, Len(Peek)) = <<>>
  BY <1>1
<1>3. buf \in Seq(Nat)
  BY DEF BufferInv, TypeOK
<1>4. Peek' = <<>>
  BY <1>3 DEF Peek
<1> QED BY <1>1, <1>2, <1>4, TakeStep

\* Read, Advance, Next and Reset.
LEMMA ConsumeQueues ==
  ASSUME BufferInv,
         \/ \E n \in Nat : Read(n) \/ Advance(n)
         \/ \E n \in Int : Next_(n)
         \/ Reset
  PROVE  QStep
<1>1. ReadableBytes \in Nat
  BY PeekIsData
<1>2. ASSUME NEW n \in Nat, Read(n) PROVE QStep
  <2>1. Least(n, ReadableBytes) \in 0..ReadableBytes
    BY <1>1 DEF Least
  <2> QED BY <1>2, <2>1, Passed DEF Read
<1>3. ASSUME NEW n \in Nat, Advance(n) PROVE QStep
  <2>1. n \in 0..ReadableBytes
    BY <1>1, <1>3 DEF Advance
  <2> QED BY <1>3, <2>1, Passed DEF Advance
<1>4. ASSUME NEW n \in Int, Next_(n) PROVE QStep
  <2>1. CASE n < 0 \/ n >= ReadableBytes
    BY <1>4, <2>1, StartsOver DEF Next_
  <2>2. CASE ~(n < 0 \/ n >= ReadableBytes)
    <3>1. n \in 0..ReadableBytes
      BY <1>1, <2>2
    <3> QED BY <1>4, <2>2, <3>1, Passed DEF Next_
  <2> QED BY <2>1, <2>2
<1>5. CASE Reset
  BY <1>5, StartsOver DEF Reset
<1> QED BY <1>2, <1>3, <1>4, <1>5

\* Shrink copies the readable bytes to a new slice: nothing happens to the queue.
LEMMA ShrinkQueues ==
  ASSUME BufferInv, NEW n \in Nat, Shrink(n)
  PROVE  QStep
<1> DEFINE x == Fields(buf, readIndex, writeIndex)
           b == Zeros(ReadableBytes + n)
           z == Fields(Copy(b, 0, Peek), 0, ReadableBytes)
<1>1. /\ Sound(x) /\ Data(x) = Peek /\ Peek \in Seq(Nat) /\ Len(Peek) = ReadableBytes
      /\ ReadableBytes \in Nat
  BY PeekIsData
<1>2. Become(z) /\ offered' = offered
  BY DEF Shrink, Become, Fields
<1>3. b \in Seq(Nat) /\ Len(b) = ReadableBytes + n
  BY <1>1, ZerosLen
<1> HIDE DEF b
<1>4. Copy(b, 0, Peek) \in Seq(Nat) /\ Len(Copy(b, 0, Peek)) = ReadableBytes + n
  BY <1>1, <1>3, CopyLen
<1>5. /\ z.buf = Copy(b, 0, Peek) /\ z.r = 0 /\ z.w = ReadableBytes /\ z.w - z.r = ReadableBytes
      /\ x.w - x.r = ReadableBytes
  BY <1>1 DEF Fields, ReadableBytes
<1>6. Sound(z)
  BY <1>1, <1>4, <1>5 DEF Sound
<1> HIDE DEF x, z
<1>7. ASSUME NEW i \in 1..(x.w - x.r) PROVE z.buf[z.r + i] = x.buf[x.r + i]
  <2>1. i \in 1..Len(b) /\ 0 < i /\ i <= 0 + Len(Peek) /\ i - 0 = i /\ 0 + i = i
    BY <1>1, <1>3, <1>5
  <2>2. Copy(b, 0, Peek)[i] = Peek[i]
    BY <2>1 DEF Copy
  <2>3. Data(x)[i] = x.buf[x.r + i]
    BY <1>1, DataElements
  <2> QED BY <1>1, <1>5, <2>1, <2>2, <2>3
<1>8. Data(z) = Data(x)
  BY <1>1, <1>5, <1>6, <1>7, SameData
<1>9. Peek' = Peek
  BY <1>1, <1>2, <1>8, PeekBecomes
<1> QED BY <1>2, <1>9 DEF QStep

\* What Buffer shows is a queue of bytes: every operation takes from its front
\* or keeps the first bytes of what is offered, in order, whether the data
\* moves, grows or shrinks, for all lengths.
THEOREM BufferIsByteQueue == Spec => IsByteQueue
<1>1. Init => Q!Init
  <2> SUFFICES ASSUME Init PROVE Q!Init
    OBVIOUS
  <2>1. Zeros(InitLen) \in Seq(Nat)
    BY BufferAssumption, ZerosLen
  <2>2. Peek = <<>>
    BY <2>1 DEF Init, Peek
  <2> QED BY <2>2 DEF Init, Q!Init
<1>2. BufferInv /\ [Next]_vars => [Q!Next]_<<Peek, offered>>
  <2> SUFFICES ASSUME BufferInv, [Next]_vars PROVE QStep
    BY DEF QStep
  <2>1. CASE \E n \in 0..MaxOp : Write(n) \/ ReadFd(n)
    BY <2>1, BufferAssumption, WriteQueues, ReadFdQueues
  <2>2. CASE \E n \in 0..MaxOp : Read(n) \/ Advance(n)
    BY <2>2, BufferAssumption, ConsumeQueues
  <2>3. CASE \E n \in 0..MaxOp : Shrink(n)
    BY <2>3, BufferAssumption, ShrinkQueues
  <2>4. CASE (\E n \in -1..MaxOp : Next_(n)) \/ Reset
    BY <2>4, BufferAssumption, ConsumeQueues
  <2>5. CASE UNCHANGED vars
    BY <2>5 DEF vars, Peek, QStep
  <2> QED BY <2>1, <2>2, <2>3, <2>4, <2>5 DEF Next
<1> QED BY <1>1, <1>2, BufferInBounds, PTL DEF Spec, IsByteQueue, Q!Spec

=============================================================================
