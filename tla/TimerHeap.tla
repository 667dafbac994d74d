----------------------------- MODULE TimerHeap ------------------------------
(***************************************************************************)
(* timerTaskHeap of timer.go on container/heap: an array of timers, each   *)
(* of which keeps its own position in index, which cancel trusts.          *)
(* TimerQueue sees this heap as a set with an earliest timer on top.       *)
(*                                                                         *)
(* One iteration of a loop of up, down and getAndRemoveExpired is a step.  *)
(* All of it runs in the loop's goroutine: no call begins before the last  *)
(* one has returned.                                                       *)
(***************************************************************************)
EXTENDS Integers, Sequences, TLC

CONSTANTS
    Timers,   \* the TimerTasks
    Nil,      \* no TimerTask
    MaxTime   \* bound: instants are 0..MaxTime

ASSUME HeapAssumption == Nil \notin Timers /\ MaxTime \in Nat

VARIABLES
    tasks,    \* h.tasks
    index,    \* the fields index and expire of each TimerTask
    expire,
    pc,       \* where the call is; "idle" between calls
    call,     \* which call it is
    at,       \* position of the timer that up or down moves
    from,     \* position at which down began
    now,      \* argument of getAndRemoveExpired, and its locals
    pop,
    ret,
    changed,  \* result of the last insert
    popped,   \* argument and result of the last getExpired
    ok        \* its util.Assert has held so far

heap == <<tasks, index>>
sift == <<at, from>>
locals == <<now, pop, ret>>
results == <<changed, popped>>
vars == <<heap, expire, pc, call, sift, locals, results, ok>>

Instants == 0..MaxTime
NonePopped == [at |-> 0, timers |-> <<>>]

\* newTimerTask gives index -1.
Init ==
    /\ tasks = <<>>
    /\ index = [t \in Timers |-> -1]
    /\ expire = [t \in Timers |-> 0]
    /\ pc = "idle" /\ call = "none"
    /\ at = 0 /\ from = 0
    /\ now = 0 /\ pop = Nil /\ ret = <<>>
    /\ changed = FALSE /\ popped = NonePopped
    /\ ok = TRUE

-----------------------------------------------------------------------------
(* timerTaskHeap, the heap.Interface.  Positions count from 0 as in the     *)
(* code.                                                                    *)

size == Len(tasks)
At(i) == tasks[i + 1]
Top == At(0)

\* Before, with ties going to the lower position.
Less(i, j) ==
    LET ei == expire[At(i)]
        ej == expire[At(j)]
    IN  ei < ej \/ (ei = ej /\ i < j)

\* Mutation: the timers change places and their index does not.
Swap_NotIndex(i, j) ==
    /\ tasks' = [tasks EXCEPT ![i + 1] = At(j), ![j + 1] = At(i)]
    /\ UNCHANGED index

Swap(i, j) ==
    /\ tasks' = [tasks EXCEPT ![i + 1] = At(j), ![j + 1] = At(i)]
    /\ index' = [index EXCEPT ![At(j)] = i, ![At(i)] = j]

Push(t) ==
    /\ tasks' = Append(tasks, t)
    /\ index' = [index EXCEPT ![t] = size]

Pop ==
    /\ tasks' = SubSeq(tasks, 1, size - 1)
    /\ index' = [index EXCEPT ![At(size - 1)] = -1]

-----------------------------------------------------------------------------
(* container/heap.                                                          *)

\* up, while the timer is before its parent.
Parent(i) == (i - 1) \div 2
UpGoesOn == at # 0 /\ Less(at, Parent(at))

up ==
    /\ pc = "up" /\ UpGoesOn
    /\ Swap(Parent(at), at)
    /\ at' = Parent(at)
    /\ UNCHANGED <<expire, pc, call, from, locals, results, ok>>

\* up ends Push, and in Remove it comes before Pop.
upReturns ==
    /\ pc = "up" /\ ~UpGoesOn
    /\ \/ call = "insert" /\ pc' = "idle" /\ call' = "none"
       \/ call = "cancel" /\ pc' = "pop" /\ UNCHANGED call
    /\ at' = 0 /\ from' = 0
    /\ UNCHANGED <<heap, expire, locals, results, ok>>

\* down, among all timers but the last, while a child is before the timer.
Left(i) == 2 * i + 1
LessChild(i) ==
    IF Left(i) + 1 < size - 1 /\ Less(Left(i) + 1, Left(i)) THEN Left(i) + 1 ELSE Left(i)
DownGoesOn == Left(at) < size - 1 /\ Less(LessChild(at), at)

down ==
    /\ pc = "down" /\ DownGoesOn
    /\ Swap(at, LessChild(at))
    /\ at' = LessChild(at)
    /\ UNCHANGED <<expire, pc, call, from, locals, results, ok>>

\* In Remove, up follows when down has moved nothing.
downReturns ==
    /\ pc = "down" /\ ~DownGoesOn
    /\ IF call = "cancel" /\ at = from
       THEN pc' = "up" /\ UNCHANGED sift
       ELSE pc' = "pop" /\ at' = 0 /\ from' = 0
    /\ UNCHANGED <<heap, expire, call, locals, results, ok>>

\* heap.Push, heap.Pop and heap.Remove up to their first loop.
HeapPush(t) ==
    /\ Push(t)
    /\ pc' = "up" /\ at' = size /\ UNCHANGED from

HeapPop ==
    /\ Swap(0, size - 1)
    /\ pc' = "down" /\ at' = 0 /\ from' = 0

HeapRemove(i) ==
    IF i # size - 1
    THEN Swap(i, size - 1) /\ pc' = "down" /\ at' = i /\ from' = i
    ELSE pc' = "pop" /\ UNCHANGED <<heap, sift>>

-----------------------------------------------------------------------------
(* The heap as timerQueue uses it.                                          *)

\* insert of a timer that is not in the heap: newTimerTask has just made it,
\* or restart has given it a new instant.
insert(t, e) ==
    /\ pc = "idle" /\ index[t] = -1
    /\ changed' = (size = 0 \/ e < expire[Top])
    /\ expire' = [expire EXCEPT ![t] = e]
    /\ HeapPush(t)
    /\ call' = "insert"
    /\ popped' = NonePopped
    /\ UNCHANGED <<locals, ok>>

\* What cancel does to the heap, of a timer wherever it is.
cancel(t) ==
    /\ pc = "idle"
    /\ IF index[t] > 0
       THEN HeapRemove(index[t]) /\ call' = "cancel"
       ELSE UNCHANGED <<heap, pc, call, sift>>
    /\ changed' = FALSE /\ popped' = NonePopped
    /\ UNCHANGED <<expire, locals, ok>>

getExpired(t) ==
    /\ pc = "idle"
    /\ pc' = "check" /\ call' = "getExpired" /\ now' = t
    /\ UNCHANGED <<heap, expire, sift, pop, ret, results, ok>>

\* Mutation: timers due at this very instant are left.
TopIsDue_Strict == size > 0 /\ expire[Top] < now

TopIsDue == size > 0 /\ expire[Top] <= now

\* The loop of getAndRemoveExpired.
getAndRemoveExpired ==
    /\ pc = "check" /\ TopIsDue
    /\ pop' = Top
    /\ HeapPop
    /\ UNCHANGED <<expire, call, now, ret, results, ok>>

expiredReturns ==
    /\ pc = "check" /\ ~TopIsDue
    /\ popped' = [at |-> now, timers |-> ret] /\ changed' = FALSE
    /\ now' = 0 /\ ret' = <<>>
    /\ pc' = "idle" /\ call' = "none"
    /\ UNCHANGED <<heap, expire, sift, pop, ok>>

\* The timer leaves the array; getAndRemoveExpired compares it with the top
\* it has seen, and keeps that.
PopReturns ==
    /\ pc = "pop"
    /\ Pop
    /\ \/ /\ call = "cancel" /\ pc' = "idle" /\ call' = "none"
          /\ UNCHANGED <<pop, ret, ok>>
       \/ /\ call = "getExpired" /\ pc' = "check" /\ UNCHANGED call
          /\ ok' = (ok /\ At(size - 1) = pop)
          /\ ret' = Append(ret, pop) /\ pop' = Nil
    /\ UNCHANGED <<expire, sift, now, results>>

Next ==
    \/ \E t \in Timers : cancel(t) \/ \E e \in Instants : insert(t, e)
    \/ \E t \in Instants : getExpired(t)
    \/ up \/ upReturns \/ down \/ downReturns
    \/ getAndRemoveExpired \/ expiredReturns \/ PopReturns

Spec == Init /\ [][Next]_vars

\* Timers are told apart by their position and fields only.
Symmetry == Permutations(Timers)

-----------------------------------------------------------------------------
(* Properties.                                                              *)

TypeOK ==
    /\ tasks \in Seq(Timers)
    /\ index \in [Timers -> Int] /\ expire \in [Timers -> Instants]
    /\ pc \in {"idle", "up", "down", "pop", "check"}
    /\ call \in {"none", "insert", "cancel", "getExpired"}
    /\ at \in Nat /\ from \in Nat
    /\ now \in Instants /\ pop \in Timers \cup {Nil} /\ ret \in Seq(Timers)

\* The index that cancel hands to heap.Remove is the timer's position, and
\* -1 of a timer that is not in the heap.
IndexExact ==
    /\ \A i \in 0..(size - 1) : index[At(i)] = i
    /\ \A t \in Timers :
          index[t] # -1 => index[t] \in 0..(size - 1) /\ At(index[t]) = t

\* The last timer of the array is on its way out.
Removing == call = "cancel" \/ pc \in {"down", "pop"}

\* How many timers stay.
Staying == IF Removing THEN size - 1 ELSE size

Keys == [i \in 0..(size - 1) |-> expire[At(i)]]
Child(c, p) == c = 2 * p + 1 \/ c = 2 * p + 2

\* No key of the first n is less than its parent's.
HeapOrdered(d, n) == \A p, c \in 0..(n - 1) : Child(c, p) => d[p] <= d[c]

\* The same but for position k: its key may be too small or too large, and
\* its parent's is no larger than its children's.
OrderedBut(d, k, n) ==
    \A p, c \in 0..(n - 1) :
        /\ Child(c, p) /\ p # k /\ c # k => d[p] <= d[c]
        /\ Child(k, p) /\ Child(c, k) => d[p] <= d[c]

BelowParent(d, k, n) == \A p \in 0..(n - 1) : Child(k, p) => d[p] <= d[k]
AboveChildren(d, k, n) == \A c \in 0..(n - 1) : Child(c, k) => d[k] <= d[c]

\* Between the loops the heap is a heap, although Less breaks ties by position
\* and is therefore no order of the timers themselves; in a loop, all but the
\* timer that moves is in order, and one that has gone down is not earlier
\* than its new parent, so that up need not follow.
OrderInv ==
    /\ pc = "up" =>
          OrderedBut(Keys, at, Staying) /\ AboveChildren(Keys, at, Staying)
    /\ pc = "down" =>
          OrderedBut(Keys, at, Staying) /\ (at # from => BelowParent(Keys, at, Staying))
    /\ pc \in {"idle", "pop", "check"} => HeapOrdered(Keys, Staying)

\* Where the timer that moves may be, and which call is in which loop.
ControlInv ==
    /\ pc = "idle" <=> call = "none"
    /\ pc = "check" => call = "getExpired"
    /\ call = "insert" => pc = "up"
    /\ pc = "up" => call # "getExpired" /\ at < Staying
    /\ pc \in {"down", "pop"} => size > 0
    /\ pc = "down" => at < size /\ (call = "cancel" => at < Staying)
    /\ pc \notin {"up", "down"} => at = 0 /\ from = 0
    /\ call # "cancel" => from = 0

\* What getAndRemoveExpired is about to take is due, at the end of the array
\* and no later than any other timer.
PopInv ==
    /\ pop # Nil <=> call = "getExpired" /\ pc \in {"down", "pop"}
    /\ pop # Nil =>
          /\ At(size - 1) = pop /\ expire[pop] <= now
          /\ \A i \in 0..(size - 1) : expire[pop] <= Keys[i]

\* What it has taken is due, each timer once and in order, and no later than
\* what is left.
RetInv ==
    /\ call # "getExpired" => ret = <<>>
    /\ \A i \in DOMAIN ret :
          /\ index[ret[i]] = -1 /\ expire[ret[i]] <= now
          /\ \A j \in 0..(size - 1) : expire[ret[i]] <= Keys[j]
    /\ \A i, j \in DOMAIN ret :
          i < j => ret[i] # ret[j] /\ expire[ret[i]] <= expire[ret[j]]

\* The heap stays a heap, its positions stay right through every swap of
\* push, pop and removal in the middle, and the assertion "t == pop" of
\* getAndRemoveExpired holds.
HeapInv ==
    TypeOK /\ IndexExact /\ ControlInv /\ OrderInv /\ PopInv /\ RetInv /\ ok

\* The array is the set of timers that TimerQueue takes it for: insert tells
\* a new earliest timer, getExpired returns the due timers, each once and in
\* order, and cancel spares nothing but the top.  A call that removes one
\* timer takes effect when it begins, and getExpired when it returns.
Held ==
    IF call = "cancel" THEN {tasks[i] : i \in 1..(size - 1)}
    ELSE {tasks[i] : i \in DOMAIN tasks} \cup {ret[i] : i \in DOMAIN ret}
TS == INSTANCE TimerSet WITH tasks <- Held
IsTimerSet == TS!Spec

=============================================================================
