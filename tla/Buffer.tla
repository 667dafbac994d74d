------------------------------- MODULE Buffer -------------------------------
(***************************************************************************)
(* buffer.go: the byte buffer of a connection.  A byte is the number of    *)
(* its place in the stream that is offered to the buffer by Write and      *)
(* ReadFd; 0 is a byte that was never written.                             *)
(***************************************************************************)
EXTENDS Integers, Sequences

CONSTANTS
    InitLen,   \* length of a new buffer (1024 in the code)
    ExtraLen,  \* length of the extra buffer of ReadFd (65536)
    MaxOp,     \* bound: bytes given to or asked of one operation
    MaxLen,    \* bound: length the buffer may have when it is written to
    MaxBytes   \* bound: bytes offered altogether

ASSUME BufferAssumption ==
    /\ InitLen \in Nat /\ ExtraLen \in Nat
    /\ MaxOp \in Nat /\ MaxLen \in Nat /\ MaxBytes \in Nat

VARIABLES
    buf,         \* b.buf, from index 1
    readIndex,
    writeIndex,
    offered,     \* bytes given to Write or received by ReadFd so far
    unreported   \* bytes ReadFd has counted in its result and not kept

vars == <<buf, readIndex, writeIndex, offered, unreported>>

TypeOK ==
    /\ buf \in Seq(Nat)
    /\ readIndex \in Nat /\ writeIndex \in Nat
    /\ offered \in Nat /\ unreported \in Nat

Zeros(n) == [i \in 1..n |-> 0]

\* NewBuffer.
Init ==
    /\ buf = Zeros(InitLen)
    /\ readIndex = 0 /\ writeIndex = 0
    /\ offered = 0 /\ unreported = 0

ReadableBytes == writeIndex - readIndex
WritableBytes == Len(buf) - writeIndex
Peek == SubSeq(buf, readIndex + 1, writeIndex)

Least(m, n) == IF m < n THEN m ELSE n

\* The fields after an operation that writes.
Fields(b, r, w) == [buf |-> b, r |-> r, w |-> w]

\* copy(b[at:], src): as much of src as fits.
Copy(b, at, src) ==
    [i \in 1..Len(b) |-> IF at < i /\ i <= at + Len(src) THEN src[i - at] ELSE b[i]]

\* Mutation: the data moves and readIndex stays.
makeSpace_KeepsReadIndex(x, n) ==
    IF (Len(x.buf) - x.w) + (x.w - x.r) < n
    THEN Fields(x.buf \o Zeros(n), x.r, x.w)
    ELSE Fields(Copy(x.buf, 0, SubSeq(x.buf, x.r + 1, x.w)), x.r, x.w - x.r)

\* makeSpace.  The free bytes it counts are those from readIndex on, the ones
\* that hold data included.
makeSpace(x, n) ==
    IF (Len(x.buf) - x.w) + (x.w - x.r) < n
    THEN Fields(x.buf \o Zeros(n), x.r, x.w)
    ELSE Fields(Copy(x.buf, 0, SubSeq(x.buf, x.r + 1, x.w)), 0, x.w - x.r)

ensureWritableBytes(x, n) ==
    IF Len(x.buf) - x.w < n THEN makeSpace(x, n) ELSE x

\* Mutation: writeIndex advances by what was given, not by what was copied.
Written_Blindly(x, src) ==
    LET y == ensureWritableBytes(x, Len(src)) IN
    Fields(Copy(y.buf, y.w, src), y.r, y.w + Len(src))

\* Write of src to the buffer x.
Written(x, src) ==
    LET y == ensureWritableBytes(x, Len(src)) IN
    Fields(Copy(y.buf, y.w, src), y.r,
           y.w + Least(Len(src), Len(y.buf) - y.w))

Become(x) == buf' = x.buf /\ readIndex' = x.r /\ writeIndex' = x.w

\* The n bytes of the stream after the first m.
Stream(m, n) == [i \in 1..n |-> m + i]

Write(n) ==
    /\ Len(buf) <= MaxLen /\ offered + n <= MaxBytes
    /\ Become(Written(Fields(buf, readIndex, writeIndex), Stream(offered, n)))
    /\ offered' = offered + n
    /\ UNCHANGED unreported

\* ReadFd, when readv(2) returns n bytes: what does not fit goes through the
\* extra buffer and Write, whose result is dropped.
ReadFd(n) ==
    LET direct == Least(n, WritableBytes)
        filled == Fields(Copy(buf, writeIndex, Stream(offered, direct)),
                         readIndex, writeIndex + direct)
        x == IF n <= WritableBytes THEN filled
             ELSE Written(filled, Stream(offered + direct, n - direct))
    IN  /\ Len(buf) <= MaxLen /\ offered + n <= MaxBytes
        /\ n <= WritableBytes + ExtraLen
        /\ Become(x)
        /\ offered' = offered + n
        /\ unreported' = unreported + (n - ((x.w - x.r) - ReadableBytes))

\* Next: all that is readable, and the buffer starts over, or the first n.
Next_(n) ==
    /\ IF n < 0 \/ n >= ReadableBytes
       THEN readIndex' = 0 /\ writeIndex' = 0
       ELSE readIndex' = readIndex + n /\ UNCHANGED writeIndex
    /\ UNCHANGED <<buf, offered, unreported>>

\* Read into a slice of length n.
Read(n) ==
    /\ readIndex' = readIndex + Least(n, ReadableBytes)
    /\ UNCHANGED <<buf, writeIndex, offered, unreported>>

\* Advance by no more than is readable, as its callers see to.
Advance(n) ==
    /\ n <= ReadableBytes
    /\ readIndex' = readIndex + n
    /\ UNCHANGED <<buf, writeIndex, offered, unreported>>

\* Reset(0), the only way it is called.
Reset ==
    /\ readIndex' = 0 /\ writeIndex' = 0
    /\ UNCHANGED <<buf, offered, unreported>>

Shrink(reserve) ==
    /\ buf' = Copy(Zeros(ReadableBytes + reserve), 0, Peek)
    /\ readIndex' = 0
    /\ writeIndex' = ReadableBytes
    /\ UNCHANGED <<offered, unreported>>

Next ==
    \/ \E n \in 0..MaxOp :
          Write(n) \/ ReadFd(n) \/ Read(n) \/ Advance(n) \/ Shrink(n)
    \/ \E n \in -1..MaxOp : Next_(n)
    \/ Reset

Spec == Init /\ [][Next]_vars

-----------------------------------------------------------------------------
(* Properties.                                                              *)

\* Every slice expression of buffer.go is within bounds: readIndex never
\* passes writeIndex, nor writeIndex the length of the buffer, through
\* growing, moving and shrinking.
Bounds == readIndex <= writeIndex /\ writeIndex <= Len(buf)

\* The inductive invariant of the proofs.
BufferInv == TypeOK /\ Bounds

\* The readable bytes are a queue: nothing is duplicated, reordered, shown
\* twice or overwritten while it waits, although data moves to the front and
\* to new slices.
Q == INSTANCE ByteQueue WITH q <- Peek
IsByteQueue == Q!Spec

\* buffer.go, in ReadFd: "usually all data can be read in one readv() syscall.
\* Even if it is not read all data in one time, muduo use level-triggered
\* epoll, so it will be called again": no byte that has left the socket is
\* missing from the buffer.
ReadFdKeepsAll == unreported = 0

=============================================================================
