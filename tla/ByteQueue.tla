----------------------------- MODULE ByteQueue ------------------------------
(***************************************************************************)
(* What Buffer promises: a queue of bytes.  Bytes are numbered in the      *)
(* order they are offered.  An offer may be kept only up to some byte, but *)
(* what is kept stays in order and is taken from the front, once.          *)
(***************************************************************************)
EXTENDS Integers, Sequences

VARIABLES
    q,        \* the bytes in the queue
    offered   \* how many bytes have been offered so far

Init == q = <<>> /\ offered = 0

\* m bytes are offered and the first k of them kept.
Put(m, k) ==
    /\ k <= m
    /\ q' = q \o [i \in 1..k |-> offered + i]
    /\ offered' = offered + m

\* The first k bytes are consumed.
Take(k) ==
    /\ q' = SubSeq(q, k + 1, Len(q))
    /\ UNCHANGED offered

\* One of the two, with the numbers read off the states before and after.
Next ==
    \/ /\ offered' > offered
       /\ Len(q') - Len(q) \in 0..(offered' - offered)
       /\ Put(offered' - offered, Len(q') - Len(q))
    \/ Len(q) - Len(q') \in 1..Len(q) /\ Take(Len(q) - Len(q'))

Spec == Init /\ [][Next]_<<q, offered>>

=============================================================================
