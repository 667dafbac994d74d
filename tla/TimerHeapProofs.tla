--------------------------- MODULE TimerHeapProofs --------------------------
(***************************************************************************)
(* Proofs about TimerHeap for any number of timers and any instants: the   *)
(* array is a heap between calls, cancel finds its timer where index says, *)
(* and the heap is the set of timers that TimerQueue works with.           *)
(***************************************************************************)
EXTENDS TimerHeap, SequenceTheorems, WellFoundedInduction, TLAPS

-----------------------------------------------------------------------------
(* The order of the keys.                                                   *)

\* d is an array of s keys.
KeyArray(d, s) == d \in [0..(s - 1) -> Int]

\* e is d with the keys at i and j exchanged.
Exchanged(d, e, s, i, j) ==
    \A x \in 0..(s - 1) : e[x] = IF x = i THEN d[j] ELSE IF x = j THEN d[i] ELSE d[x]

\* Every position but 0 is the child of its Parent.
LEMMA ParentIsParent ==
  ASSUME NEW k \in Nat, k # 0
  PROVE  Parent(k) \in Nat /\ Parent(k) < k /\ Child(k, Parent(k))
BY DEF Parent, Child

\* A position has one parent, which comes before it.
LEMMA OneParent ==
  ASSUME NEW k \in Nat, NEW p \in Nat, NEW q \in Nat, Child(k, p), Child(k, q)
  PROVE  p = q /\ p < k
BY DEF Child

\* One iteration of up.
LEMMA UpKeepsOrder ==
  ASSUME NEW s \in Nat, NEW n \in 0..s, NEW d, NEW e, KeyArray(d, s), KeyArray(e, s),
         NEW k \in 0..(n - 1), NEW p \in Nat, Child(k, p), d[k] < d[p],
         Exchanged(d, e, s, p, k),
         OrderedBut(d, k, n), AboveChildren(d, k, n)
  PROVE  OrderedBut(e, p, n) /\ AboveChildren(e, p, n)
<1>1. p \in 0..(n - 1) /\ p < k
  BY DEF Child
<1>2. \A x \in 0..(n - 1) : x \in 0..(s - 1) /\ d[x] \in Int
  BY DEF KeyArray
<1>3. \A x \in 0..(n - 1) : e[x] = IF x = p THEN d[k] ELSE IF x = k THEN d[p] ELSE d[x]
  BY <1>2 DEF Exchanged
<1>4. AboveChildren(e, p, n)
  BY <1>1, <1>2, <1>3 DEF AboveChildren, OrderedBut, Child
<1>5. ASSUME NEW q \in 0..(n - 1), NEW c \in 0..(n - 1), Child(c, q), q # p, c # p
      PROVE  e[q] <= e[c]
  <2>1. c # k
    BY <1>1, <1>5 DEF Child
  <2>2. CASE q = k
    BY <1>1, <1>2, <1>3, <1>5, <2>1, <2>2 DEF OrderedBut
  <2>3. CASE q # k
    BY <1>1, <1>2, <1>3, <1>5, <2>1, <2>3 DEF OrderedBut
  <2> QED BY <2>2, <2>3
<1>6. ASSUME NEW q \in 0..(n - 1), NEW c \in 0..(n - 1), Child(p, q), Child(c, p)
      PROVE  e[q] <= e[c]
  <2>1. q < p /\ d[q] <= d[p]
    BY <1>1, <1>6 DEF OrderedBut, Child
  <2>2. c # k => d[p] <= d[c]
    BY <1>1, <1>6 DEF OrderedBut, Child
  <2>3. c # p
    BY <1>6 DEF Child
  <2> QED BY <1>1, <1>2, <1>3, <2>1, <2>2, <2>3
<1> QED BY <1>4, <1>5, <1>6 DEF OrderedBut

\* up ends.
LEMMA UpEnds ==
  ASSUME NEW n \in Nat, NEW d, NEW k \in Nat, OrderedBut(d, k, n),
         AboveChildren(d, k, n), BelowParent(d, k, n)
  PROVE  HeapOrdered(d, n)
BY DEF OrderedBut, AboveChildren, BelowParent, HeapOrdered

\* One iteration of down: j is the child with the smaller key.
LEMMA DownKeepsOrder ==
  ASSUME NEW s \in Nat, NEW n \in 0..s, NEW d, NEW e, KeyArray(d, s), KeyArray(e, s),
         NEW k \in 0..(n - 1), NEW j \in 0..(n - 1), Child(j, k), d[j] < d[k],
         \A c \in 0..(n - 1) : Child(c, k) => d[j] <= d[c],
         Exchanged(d, e, s, k, j), OrderedBut(d, k, n)
  PROVE  OrderedBut(e, j, n) /\ BelowParent(e, j, n)
<1>1. k < j
  BY DEF Child
<1>2. \A x \in 0..(n - 1) : x \in 0..(s - 1) /\ d[x] \in Int
  BY DEF KeyArray
<1>3. \A x \in 0..(n - 1) : e[x] = IF x = k THEN d[j] ELSE IF x = j THEN d[k] ELSE d[x]
  BY <1>2 DEF Exchanged
<1>4. BelowParent(e, j, n)
  <2> SUFFICES ASSUME NEW p \in 0..(n - 1), Child(j, p) PROVE e[p] <= e[j]
    BY DEF BelowParent
  <2>1. p = k
    BY OneParent
  <2> QED BY <1>1, <1>2, <1>3, <2>1
<1>5. ASSUME NEW q \in 0..(n - 1), NEW c \in 0..(n - 1), Child(c, q), q # j, c # j
      PROVE  e[q] <= e[c]
  <2>1. CASE q = k
    <3>1. c # k
      BY <1>5, <2>1 DEF Child
    <3> QED BY <1>2, <1>3, <1>5, <2>1, <3>1
  <2>2. CASE c = k
    <3>1. q # k
      BY <1>5, <2>2 DEF Child
    <3>2. d[q] <= d[j]
      BY <1>5, <2>2 DEF OrderedBut
    <3> QED BY <1>1, <1>2, <1>3, <1>5, <2>2, <3>1, <3>2
  <2>3. CASE q # k /\ c # k
    BY <1>2, <1>3, <1>5, <2>3 DEF OrderedBut
  <2> QED BY <2>1, <2>2, <2>3
<1>6. ASSUME NEW q \in 0..(n - 1), NEW c \in 0..(n - 1), Child(j, q), Child(c, j)
      PROVE  e[q] <= e[c]
  <2>1. q = k /\ c # k /\ c # j
    BY <1>1, <1>6, OneParent DEF Child
  <2>2. d[j] <= d[c]
    BY <1>1, <1>6, <2>1 DEF OrderedBut
  <2> QED BY <1>1, <1>2, <1>3, <2>1, <2>2
<1> QED BY <1>4, <1>5, <1>6 DEF OrderedBut

\* down ends where no child has a smaller key.
LEMMA DownEnds ==
  ASSUME NEW n \in Nat, NEW d, NEW k \in Nat, OrderedBut(d, k, n),
         AboveChildren(d, k, n), BelowParent(d, k, n) \/ k = 0
  PROVE  HeapOrdered(d, n)
<1>1. BelowParent(d, k, n)
  BY DEF BelowParent, Child
<1> QED BY <1>1, UpEnds

\* Only key k differs: the array is in order but for k.
LEMMA OneReplaced ==
  ASSUME NEW s \in Nat, NEW n \in 0..s, NEW d, NEW e, KeyArray(d, s), KeyArray(e, s),
         NEW k \in Nat, \A x \in 0..(n - 1) : x # k => e[x] = d[x],
         HeapOrdered(d, n)
  PROVE  OrderedBut(e, k, n)
<1>1. ASSUME NEW p \in 0..(n - 1), NEW c \in 0..(n - 1), Child(c, p), p # k, c # k
      PROVE  e[p] <= e[c]
  BY <1>1 DEF HeapOrdered
<1>2. ASSUME NEW p \in 0..(n - 1), NEW c \in 0..(n - 1), Child(k, p), Child(c, k)
      PROVE  e[p] <= e[c]
  <2>1. k \in 0..(n - 1) /\ p < k /\ k < c
    BY <1>2 DEF Child
  <2>2. d[p] <= d[k] /\ d[k] <= d[c]
    BY <1>2, <2>1 DEF HeapOrdered
  <2>3. d[p] \in Int /\ d[k] \in Int /\ d[c] \in Int
    BY <2>1 DEF KeyArray
  <2> QED BY <2>1, <2>2, <2>3
<1> QED BY <1>1, <1>2 DEF OrderedBut

\* A set of numbers that is not empty has a least one.
LEMMA LeastNumber ==
  ASSUME NEW T, T \subseteq Nat, T # {}
  PROVE  \E m \in T : \A y \in T : m <= y
<1> DEFINE R == {ss \in Nat \X Nat : ss[1] < ss[2]}
<1>1. IsWellFoundedOn(R, Nat)
  BY NatLessThanWellFounded DEF OpToRel
<1>2. PICK m \in T : \A y \in T : ~(<<y, m>> \in R)
  <2> HIDE DEF R
  <2> QED BY <1>1, WFMin
<1>3. ASSUME NEW y \in T PROVE m <= y
  <2>1. m \in Nat /\ y \in Nat
    OBVIOUS
  <2>2. ~(<<y, m>>[1] < <<y, m>>[2])
    BY <1>2, <2>1
  <2> QED BY <2>1, <2>2
<1> QED BY <1>3

\* The first key of a heap is the least one.
LEMMA RootIsLeast ==
  ASSUME NEW s \in Nat, NEW n \in 0..s, NEW d, KeyArray(d, s), HeapOrdered(d, n),
         NEW i \in 0..(n - 1)
  PROVE  d[0] <= d[i]
<1> DEFINE T == {x \in 0..(n - 1) : ~(d[0] <= d[x])}
<1> SUFFICES ASSUME T # {} PROVE FALSE
  OBVIOUS
<1>1. PICK m \in T : \A y \in T : m <= y
  <2>1. T \subseteq Nat
    OBVIOUS
  <2> HIDE DEF T
  <2> QED BY <2>1, LeastNumber
<1>2. \A x \in 0..(n - 1) : d[x] \in Int
  BY DEF KeyArray
<1>3. m \in 0..(n - 1) /\ ~(d[0] <= d[m]) /\ m # 0
  BY <1>2
<1>4. Parent(m) \in 0..(n - 1) /\ Parent(m) < m /\ Child(m, Parent(m))
  BY <1>3, ParentIsParent
<1>5. d[Parent(m)] <= d[m]
  BY <1>3, <1>4 DEF HeapOrdered
<1>6. Parent(m) \notin T
  BY <1>1, <1>3, <1>4
<1>7. d[0] <= d[Parent(m)]
  BY <1>4, <1>6
<1>8. d[0] \in Int /\ d[m] \in Int /\ d[Parent(m)] \in Int
  BY <1>2, <1>3, <1>4
<1> QED BY <1>3, <1>5, <1>7, <1>8

-----------------------------------------------------------------------------
(* The array.                                                               *)

\* The positions of the array hold timers, and their instants are its keys.
LEMMA ArrayOK ==
  ASSUME TypeOK
  PROVE  /\ size \in Nat /\ KeyArray(Keys, size)
         /\ \A x \in 0..(size - 1) :
               /\ x + 1 \in 1..size /\ At(x) \in Timers
               /\ Keys[x] = expire[At(x)] /\ Keys[x] \in Int
<1>1. size \in Nat
  BY DEF TypeOK, size
<1>2. ASSUME NEW x \in 0..(size - 1)
      PROVE  x + 1 \in 1..size /\ At(x) \in Timers /\ expire[At(x)] \in Int
  <2>1. x + 1 \in 1..size
    BY <1>1
  <2>2. At(x) \in Timers
    BY <2>1 DEF TypeOK, At, size
  <2> QED BY <2>1, <2>2, HeapAssumption DEF TypeOK, Instants
<1>3. KeyArray(Keys, size) /\ \A x \in 0..(size - 1) : Keys[x] = expire[At(x)]
  BY <1>2 DEF Keys, KeyArray
<1> QED BY <1>1, <1>2, <1>3

\* No timer is at two positions.
LEMMA OnePosition ==
  ASSUME IndexExact, NEW x \in 0..(size - 1), NEW y \in 0..(size - 1), At(x) = At(y)
  PROVE  x = y
BY DEF IndexExact

\* The array after the timers at i and j have changed places.
Swapped(i, j) ==
    /\ tasks' \in Seq(Timers) /\ size' = size /\ index' \in [Timers -> Int]
    /\ \A x \in 0..(size - 1) :
          At(x)' = IF x = i THEN At(j) ELSE IF x = j THEN At(i) ELSE At(x)
    /\ IndexExact'
    /\ \A t \in Timers : index[t] = -1 <=> index'[t] = -1
    /\ KeyArray(Keys', size)
    /\ Exchanged(Keys, Keys', size, i, j)

\* Swap moves the timers, their index and their keys.
LEMMA SwapSwaps ==
  ASSUME TypeOK, IndexExact, NEW i \in 0..(size - 1), NEW j \in 0..(size - 1),
         Swap(i, j), UNCHANGED expire
  PROVE  Swapped(i, j)
<1> DEFINE a == At(i)
           b == At(j)
<1>1. /\ size \in Nat /\ a \in Timers /\ b \in Timers
      /\ i + 1 \in 1..size /\ j + 1 \in 1..size
  BY ArrayOK
<1>2. tasks' = [tasks EXCEPT ![i + 1] = b, ![j + 1] = a]
  BY DEF Swap
<1>3. index' = [index EXCEPT ![b] = i, ![a] = j]
  BY DEF Swap
<1>4. tasks' \in Seq(Timers) /\ Len(tasks') = size
  <2>1. tasks \in Seq(Timers) /\ Len(tasks) = size
    BY DEF TypeOK, size
  <2> DEFINE u == [tasks EXCEPT ![i + 1] = b]
  <2> HIDE DEF a, b
  <2>2. u \in Seq(Timers) /\ Len(u) = size
    BY <1>1, <2>1, ExceptSeq
  <2>3. tasks' = [u EXCEPT ![j + 1] = a]
    BY <1>2
  <2> HIDE DEF u
  <2> QED BY <1>1, <2>2, <2>3, ExceptSeq
<1>5. ASSUME NEW x \in 0..(size - 1)
      PROVE  At(x)' = IF x = i THEN At(j) ELSE IF x = j THEN At(i) ELSE At(x)
  <2>1. x + 1 \in 1..size /\ DOMAIN tasks = 1..size
    BY <1>1 DEF TypeOK, size
  <2>2. tasks'[x + 1] = IF x + 1 = j + 1 THEN a
                        ELSE IF x + 1 = i + 1 THEN b ELSE tasks[x + 1]
    BY <1>1, <1>2, <2>1
  <2>3. (x + 1 = j + 1 <=> x = j) /\ (x + 1 = i + 1 <=> x = i)
    OBVIOUS
  <2> QED BY <2>2, <2>3 DEF At
<1>6. index' \in [Timers -> Int]
  BY <1>1, <1>3 DEF TypeOK
<1>7. \A t \in Timers : index'[t] = IF t = a THEN j ELSE IF t = b THEN i ELSE index[t]
  BY <1>1, <1>3 DEF TypeOK
<1>8. size' = size
  BY <1>4 DEF size
<1>9. IndexExact'
  <2>1. ASSUME NEW x \in 0..(size - 1) PROVE index'[At(x)'] = x
    <3>1. At(x) \in Timers /\ index[At(x)] = x /\ index[a] = i /\ index[b] = j
      BY ArrayOK DEF IndexExact
    <3> QED BY <1>1, <1>5, <1>7, <3>1
  <2>2. ASSUME NEW t \in Timers, index'[t] # -1
        PROVE  index'[t] \in 0..(size - 1) /\ tasks'[index'[t] + 1] = t
    <3>1. CASE t = a
      <4>1. index'[t] = j
        BY <1>7, <3>1
      <4>2. At(j)' = a
        BY <1>5
      <4> QED BY <3>1, <4>1, <4>2 DEF At
    <3>2. CASE t = b /\ t # a
      <4>1. index'[t] = i
        BY <1>7, <3>2
      <4>2. At(i)' = b
        BY <1>5
      <4> QED BY <3>2, <4>1, <4>2 DEF At
    <3>3. CASE t # a /\ t # b
      <4>1. index'[t] = index[t] /\ index[t] \in 0..(size - 1) /\ At(index[t]) = t
        BY <1>7, <2>2, <3>3 DEF IndexExact
      <4>2. PICK x \in 0..(size - 1) : x = index[t]
        BY <4>1
      <4>3. At(x)' = t
        BY <1>5, <3>3, <4>1, <4>2
      <4> QED BY <4>1, <4>2, <4>3 DEF At
    <3> QED BY <3>1, <3>2, <3>3
  <2> QED BY <1>8, <2>1, <2>2 DEF IndexExact, At
<1>10. \A t \in Timers : index[t] = -1 <=> index'[t] = -1
  <2>1. index[a] = i /\ index[b] = j
    BY DEF IndexExact
  <2> QED BY <1>7, <2>1
<1>11. KeyArray(Keys', size) /\ Exchanged(Keys, Keys', size, i, j)
  <2>1. Keys' = [x \in 0..(size - 1) |-> expire[At(x)']]
    BY <1>8 DEF Keys
  <2>2. \A x \in 0..(size - 1) : At(x)' \in Timers
    BY <1>5, ArrayOK
  <2>3. \A x \in 0..(size - 1) : expire[At(x)'] \in Int
    BY <2>2, HeapAssumption DEF TypeOK, Instants
  <2>4. KeyArray(Keys', size)
    BY <2>1, <2>3 DEF KeyArray
  <2>5. \A x \in 0..(size - 1) : Keys[x] = expire[At(x)]
    BY ArrayOK
  <2> QED BY <1>5, <2>1, <2>4, <2>5 DEF Exchanged
<1> QED BY <1>4, <1>5, <1>6, <1>8, <1>9, <1>10, <1>11 DEF Swapped

\* What Less says of a position and one before it, and of any two.
LEMMA LessIsOfKeys ==
  ASSUME TypeOK, NEW i \in 0..(size - 1), NEW j \in 0..(size - 1)
  PROVE  /\ j < i => (Less(i, j) <=> Keys[i] < Keys[j])
         /\ Less(i, j) => Keys[i] <= Keys[j]
         /\ ~Less(i, j) => Keys[j] <= Keys[i]
<1>1. /\ Keys[i] = expire[At(i)] /\ Keys[i] \in Int
      /\ Keys[j] = expire[At(j)] /\ Keys[j] \in Int
  BY ArrayOK
<1>2. Less(i, j) <=> Keys[i] < Keys[j] \/ (Keys[i] = Keys[j] /\ i < j)
  BY <1>1 DEF Less
<1> QED BY <1>1, <1>2

\* How many timers stay is a number, and the moving timer is among them.
LEMMA StayingOK ==
  ASSUME HeapInv
  PROVE  Staying \in 0..size /\ size \in Nat /\ (pc = "up" => at \in 0..(Staying - 1))
<1>1. size \in Nat
  BY ArrayOK DEF HeapInv
<1>2. call = "cancel" \/ pc \in {"down", "pop"} => size > 0
  BY <1>1 DEF HeapInv, TypeOK, ControlInv, Staying, Removing
<1>3. Staying \in 0..size
  BY <1>1, <1>2 DEF Staying, Removing
<1>4. pc = "up" => at \in 0..(Staying - 1)
  BY <1>3 DEF HeapInv, ControlInv, TypeOK
<1> QED BY <1>1, <1>3, <1>4

\* Swapping leaves what getAndRemoveExpired has taken as it was.
LEMMA SwapKeepsRet ==
  ASSUME HeapInv, NEW i \in 0..(size - 1), NEW j \in 0..(size - 1), Swapped(i, j),
         UNCHANGED <<expire, call, now, ret>>
  PROVE  RetInv'
<1>1. size' = size
  BY DEF Swapped
<1>2. (call # "getExpired" => ret = <<>>)'
  BY DEF HeapInv, RetInv
<1>3. ASSUME NEW k \in DOMAIN ret
      PROVE  /\ index'[ret[k]] = -1 /\ expire[ret[k]] <= now
             /\ \A x \in 0..(size - 1) : expire[ret[k]] <= Keys'[x]
  <2>1. ret[k] \in Timers
    BY DEF HeapInv, TypeOK
  <2>2. index'[ret[k]] = -1 /\ expire[ret[k]] <= now
    BY <2>1 DEF HeapInv, RetInv, Swapped
  <2>3. \A x \in 0..(size - 1) : expire[ret[k]] <= Keys[x]
    BY DEF HeapInv, RetInv
  <2> QED BY <2>2, <2>3 DEF Swapped, Exchanged
<1>4. ASSUME NEW k \in DOMAIN ret, NEW m \in DOMAIN ret, k < m
      PROVE  ret[k] # ret[m] /\ expire[ret[k]] <= expire[ret[m]]
  BY <1>4 DEF HeapInv, RetInv
<1> QED BY <1>1, <1>2, <1>3, <1>4 DEF RetInv

-----------------------------------------------------------------------------
(* The steps keep the invariant.                                            *)

\* Init.
LEMMA InitOK == Init => HeapInv
<1> SUFFICES ASSUME Init PROVE HeapInv
  OBVIOUS
<1>1. size = 0
  BY DEF Init, size
<1>2. TypeOK
  BY HeapAssumption DEF Init, TypeOK, Instants
<1>3. IndexExact
  BY <1>1 DEF Init, IndexExact
<1>4. ControlInv /\ PopInv /\ RetInv /\ ok
  BY DEF Init, ControlInv, PopInv, RetInv
<1>5. Staying = 0
  BY <1>1 DEF Init, Staying, Removing
<1>6. OrderInv
  BY <1>5 DEF Init, OrderInv, HeapOrdered
<1> QED BY <1>2, <1>3, <1>4, <1>6 DEF HeapInv

\* An iteration of up.
LEMMA UpOK ==
  ASSUME HeapInv, up
  PROVE  HeapInv'
<1>1. PICK k \in Nat : k = at
  BY DEF HeapInv, TypeOK
<1>2. PICK p \in Nat : p = Parent(at)
  BY <1>1, ParentIsParent DEF up, UpGoesOn
<1>3. PICK n \in 0..size : n = Staying
  BY StayingOK
<1>4. /\ size \in Nat /\ k \in 0..(n - 1) /\ k # 0 /\ p < k /\ Child(k, p)
      /\ p \in 0..(size - 1) /\ k \in 0..(size - 1)
  BY <1>1, <1>2, <1>3, StayingOK, ParentIsParent DEF up, UpGoesOn
<1>5. Swapped(p, k)
  BY <1>1, <1>2, <1>4, SwapSwaps DEF up, HeapInv
<1>6. Keys[k] < Keys[p]
  BY <1>1, <1>2, <1>4, LessIsOfKeys DEF up, UpGoesOn, HeapInv
<1>7. OrderedBut(Keys', p, n) /\ AboveChildren(Keys', p, n)
  <2>1. OrderedBut(Keys, k, n) /\ AboveChildren(Keys, k, n)
    BY <1>1, <1>3 DEF up, HeapInv, OrderInv
  <2>2. KeyArray(Keys, size) /\ KeyArray(Keys', size) /\ Exchanged(Keys, Keys', size, p, k)
    BY <1>5, ArrayOK DEF Swapped, HeapInv
  <2> QED BY <1>4, <1>6, <2>1, <2>2, UpKeepsOrder
<1>8. /\ size' = size /\ Staying' = n /\ at' = p /\ pc = "up" /\ pc' = "up"
      /\ UNCHANGED <<expire, pc, call, from, now, pop, ret, ok>>
  BY <1>2, <1>3, <1>5 DEF up, Staying, Removing, Swapped, locals
<1>9. TypeOK'
  BY <1>5, <1>8 DEF HeapInv, TypeOK, Swapped
<1>10. ControlInv'
  BY <1>3, <1>4, <1>8 DEF HeapInv, ControlInv
<1>11. OrderInv'
  BY <1>7, <1>8 DEF OrderInv
<1>12. PopInv'
  BY <1>8 DEF HeapInv, PopInv, ControlInv
<1>13. RetInv'
  BY <1>4, <1>5, <1>8, SwapKeepsRet
<1>14. IndexExact' /\ ok'
  BY <1>5, <1>8 DEF HeapInv, Swapped
<1> QED BY <1>9, <1>10, <1>11, <1>12, <1>13, <1>14 DEF HeapInv

\* up returns.
LEMMA UpReturnsOK ==
  ASSUME HeapInv, upReturns
  PROVE  HeapInv'
<1>1. PICK k \in Nat : k = at
  BY DEF HeapInv, TypeOK
<1>2. PICK n \in 0..size : n = Staying
  BY StayingOK
<1>3. size \in Nat /\ k \in 0..(n - 1) /\ k \in 0..(size - 1)
  BY <1>1, <1>2, StayingOK DEF upReturns
<1>4. BelowParent(Keys, k, n)
  <2> SUFFICES ASSUME NEW p \in 0..(n - 1), Child(k, p) PROVE Keys[p] <= Keys[k]
    BY DEF BelowParent
  <2>1. k # 0
    BY DEF Child
  <2>2. Parent(k) \in Nat /\ Child(k, Parent(k))
    BY <2>1, ParentIsParent
  <2>3. p = Parent(k) /\ p \in 0..(size - 1)
    BY <1>2, <1>3, <2>2, OneParent
  <2>4. ~Less(k, p)
    BY <1>1, <2>1, <2>3 DEF upReturns, UpGoesOn
  <2> QED BY <1>3, <2>3, <2>4, LessIsOfKeys DEF HeapInv
<1>5. HeapOrdered(Keys, n)
  <2>1. OrderedBut(Keys, k, n) /\ AboveChildren(Keys, k, n) /\ n \in Nat
    BY <1>1, <1>2, <1>3 DEF upReturns, HeapInv, OrderInv
  <2> QED BY <1>4, <2>1, UpEnds
<1>6. /\ UNCHANGED <<tasks, index, expire, now, pop, ret, ok>> /\ at' = 0 /\ from' = 0
      /\ pc = "up" /\ size' = size /\ Keys' = Keys
      /\ \/ call = "insert" /\ pc' = "idle" /\ call' = "none"
         \/ call = "cancel" /\ pc' = "pop" /\ call' = "cancel"
  BY DEF upReturns, heap, locals, size, Keys, At
<1>7. TypeOK'
  BY <1>6 DEF HeapInv, TypeOK
<1>8. Staying' = n /\ (call = "cancel" => size > 0)
  BY <1>2, <1>3, <1>6 DEF Staying, Removing
<1>9. ControlInv'
  BY <1>6, <1>8 DEF HeapInv, ControlInv
<1>10. OrderInv'
  BY <1>5, <1>6, <1>8 DEF OrderInv
<1>11. PopInv' /\ RetInv'
  BY <1>6 DEF HeapInv, PopInv, RetInv
<1>12. IndexExact' /\ ok'
  BY <1>6 DEF HeapInv, IndexExact, At
<1> QED BY <1>7, <1>9, <1>10, <1>11, <1>12 DEF HeapInv

\* The child that down compares with has the least key of the children.
LEMMA LessChildIsLeast ==
  ASSUME HeapInv, NEW k \in Nat, Left(k) < size - 1
  PROVE  LET j == LessChild(k) IN
         /\ j \in 0..(size - 2) /\ Child(j, k) /\ k < j
         /\ \A c \in 0..(size - 2) : Child(c, k) => Keys[j] <= Keys[c]
<1> DEFINE l == Left(k)
           j == LessChild(k)
<1>1. size \in Nat /\ TypeOK
  BY ArrayOK DEF HeapInv
<1>2. l = 2 * k + 1 /\ l \in 0..(size - 1) /\ l < size - 1
  BY <1>1 DEF Left
<1>3. j = IF l + 1 < size - 1 /\ Less(l + 1, l) THEN l + 1 ELSE l
  BY DEF LessChild
<1> HIDE DEF j, l
<1>4. j \in 0..(size - 2) /\ Child(j, k) /\ k < j
  BY <1>1, <1>2, <1>3 DEF Child
<1>5. ASSUME NEW c \in 0..(size - 2), Child(c, k) PROVE Keys[j] <= Keys[c]
  <2>1. c = l \/ c = l + 1
    BY <1>2, <1>5 DEF Child
  <2>2. Keys[c] \in Int /\ c \in 0..(size - 1)
    BY <1>1, ArrayOK
  <2>3. CASE l + 1 < size - 1 /\ Less(l + 1, l)
    <3>1. l + 1 \in 0..(size - 1)
      BY <1>1, <1>2, <2>3
    <3>2. Keys[l + 1] <= Keys[l]
      BY <1>1, <1>2, <2>3, <3>1, LessIsOfKeys
    <3> QED BY <1>3, <2>1, <2>2, <2>3, <3>2
  <2>4. CASE ~(l + 1 < size - 1 /\ Less(l + 1, l))
    <3>1. j = l
      BY <1>3, <2>4
    <3>2. c = l + 1 => Keys[l] <= Keys[l + 1]
      <4> SUFFICES ASSUME c = l + 1 PROVE Keys[l] <= Keys[l + 1]
        OBVIOUS
      <4>1. l + 1 \in 0..(size - 1) /\ ~Less(l + 1, l)
        BY <1>1, <1>2, <2>2, <2>4
      <4> QED BY <1>1, <1>2, <4>1, LessIsOfKeys
    <3> QED BY <2>1, <2>2, <3>1, <3>2
  <2> QED BY <2>3, <2>4
<1> QED BY <1>4, <1>5 DEF j

\* An iteration of down.
LEMMA DownOK ==
  ASSUME HeapInv, down
  PROVE  HeapInv'
<1>1. PICK k \in Nat : k = at
  BY DEF HeapInv, TypeOK
<1>2. /\ size \in Nat /\ size > 0 /\ Staying = size - 1 /\ pc = "down"
      /\ Left(k) < size - 1 /\ Less(LessChild(k), k)
  BY <1>1, StayingOK DEF HeapInv, ControlInv, down, DownGoesOn, Staying, Removing
<1>3. PICK j \in 0..(size - 2) :
        /\ j = LessChild(k) /\ Child(j, k) /\ k < j
        /\ \A c \in 0..(size - 2) : Child(c, k) => Keys[j] <= Keys[c]
  BY <1>2, LessChildIsLeast
<1>4. /\ k \in 0..(size - 1) /\ j \in 0..(size - 1) /\ size - 1 \in 0..size
      /\ k \in 0..((size - 1) - 1) /\ j \in 0..((size - 1) - 1)
      /\ (size - 1) - 1 = size - 2
  BY <1>2, <1>3
<1>5. Swapped(k, j)
  BY <1>1, <1>3, <1>4, SwapSwaps DEF down, HeapInv
<1>6. Keys[j] < Keys[k]
  BY <1>2, <1>3, <1>4, LessIsOfKeys DEF HeapInv
<1>7. OrderedBut(Keys', j, size - 1) /\ BelowParent(Keys', j, size - 1)
  <2>1. OrderedBut(Keys, k, size - 1)
    BY <1>1, <1>2 DEF HeapInv, OrderInv
  <2>2. KeyArray(Keys, size) /\ KeyArray(Keys', size) /\ Exchanged(Keys, Keys', size, k, j)
    BY <1>5, ArrayOK DEF Swapped, HeapInv
  <2>3. \A c \in 0..((size - 1) - 1) : Child(c, k) => Keys[j] <= Keys[c]
    BY <1>3, <1>4
  <2> QED BY <1>2, <1>3, <1>4, <1>6, <2>1, <2>2, <2>3, DownKeepsOrder
<1>8. /\ size' = size /\ Staying' = size - 1 /\ at' = j /\ pc' = "down"
      /\ UNCHANGED <<expire, pc, call, from, now, pop, ret, ok>>
  BY <1>1, <1>2, <1>3, <1>5 DEF down, Staying, Removing, Swapped, locals
<1>9. TypeOK'
  BY <1>3, <1>5, <1>8 DEF HeapInv, TypeOK, Swapped
<1>10. ControlInv'
  BY <1>2, <1>3, <1>4, <1>8 DEF HeapInv, ControlInv
<1>11. OrderInv'
  BY <1>7, <1>8 DEF OrderInv
<1>12. PopInv'
  <2>1. (pop # Nil <=> call = "getExpired" /\ pc \in {"down", "pop"})'
    BY <1>8 DEF HeapInv, PopInv
  <2>2. ASSUME pop # Nil
        PROVE  /\ At(size - 1)' = pop /\ expire[pop] <= now
               /\ \A i \in 0..(size - 1) : expire[pop] <= Keys'[i]
    <3>1. /\ At(size - 1) = pop /\ expire[pop] <= now
          /\ \A i \in 0..(size - 1) : expire[pop] <= Keys[i]
      BY <2>2 DEF HeapInv, PopInv
    <3>2. PICK l \in 0..(size - 1) : l = size - 1 /\ l # k /\ l # j
      BY <1>2, <1>3, <1>4
    <3>3. At(l)' = At(l)
      BY <1>5, <3>2 DEF Swapped
    <3>4. At(size - 1)' = pop
      BY <1>8, <3>1, <3>2, <3>3 DEF At
    <3>5. \A i \in 0..(size - 1) : expire[pop] <= Keys'[i]
      BY <1>4, <1>5, <3>1 DEF Swapped, Exchanged
    <3> QED BY <3>1, <3>4, <3>5
  <2> QED BY <1>8, <2>1, <2>2 DEF PopInv
<1>13. RetInv'
  BY <1>4, <1>5, <1>8, SwapKeepsRet
<1>14. IndexExact' /\ ok'
  BY <1>5, <1>8 DEF HeapInv, Swapped
<1> QED BY <1>9, <1>10, <1>11, <1>12, <1>13, <1>14 DEF HeapInv

\* down returns.
LEMMA DownReturnsOK ==
  ASSUME HeapInv, downReturns
  PROVE  HeapInv'
<1>1. PICK k \in Nat : k = at
  BY DEF HeapInv, TypeOK
<1>2. PICK n \in Nat : n = size - 1 /\ n = Staying
  BY StayingOK DEF HeapInv, ControlInv, downReturns, Staying, Removing
<1>3. size \in Nat /\ k \in 0..(size - 1) /\ n - 1 = size - 2 /\ TypeOK
  BY <1>1, <1>2, StayingOK DEF HeapInv, ControlInv, downReturns
<1>4. AboveChildren(Keys, k, n)
  <2> SUFFICES ASSUME NEW c \in 0..(n - 1), Child(c, k) PROVE Keys[k] <= Keys[c]
    BY DEF AboveChildren
  <2>1. Left(k) < size - 1
    BY <1>2, <1>3 DEF Child, Left
  <2>2. PICK j \in 0..(size - 2) :
          j = LessChild(k) /\ k < j /\ \A x \in 0..(size - 2) : Child(x, k) => Keys[j] <= Keys[x]
    BY <2>1, LessChildIsLeast
  <2>3. ~Less(j, k) /\ j \in 0..(size - 1)
    BY <1>1, <1>3, <2>1, <2>2 DEF downReturns, DownGoesOn
  <2>4. Keys[k] <= Keys[j]
    BY <1>3, <2>3, LessIsOfKeys
  <2>5. Keys[j] <= Keys[c] /\ c \in 0..(size - 1)
    BY <1>2, <1>3, <2>2
  <2>6. Keys[k] \in Int /\ Keys[j] \in Int /\ Keys[c] \in Int
    BY <1>3, <2>3, <2>5, ArrayOK
  <2> QED BY <2>4, <2>5, <2>6
<1>5. OrderedBut(Keys, k, n) /\ (k # from => BelowParent(Keys, k, n))
  BY <1>1, <1>2 DEF downReturns, HeapInv, OrderInv
<1>6. ~(call = "cancel" /\ at = from) => HeapOrdered(Keys, n)
  <2> SUFFICES ASSUME ~(call = "cancel" /\ at = from) PROVE HeapOrdered(Keys, n)
    OBVIOUS
  <2>1. BelowParent(Keys, k, n) \/ k = 0
    BY <1>1, <1>5 DEF HeapInv, TypeOK, ControlInv, downReturns
  <2> QED BY <1>4, <1>5, <2>1, DownEnds
<1>7. /\ UNCHANGED <<tasks, index, expire, call, now, pop, ret, ok>>
      /\ pc = "down" /\ size' = size /\ Keys' = Keys
      /\ \/ call = "cancel" /\ at = from /\ pc' = "up" /\ at' = at /\ from' = from
         \/ ~(call = "cancel" /\ at = from) /\ pc' = "pop" /\ at' = 0 /\ from' = 0
  BY DEF downReturns, heap, sift, locals, size, Keys, At
<1>8. TypeOK'
  BY <1>7 DEF HeapInv, TypeOK
<1>9. Staying' = n /\ size > 0
  BY <1>2, <1>3, <1>7 DEF Staying, Removing
<1>10. ControlInv'
  BY <1>2, <1>7, <1>9 DEF HeapInv, ControlInv
<1>11. OrderInv'
  BY <1>1, <1>4, <1>5, <1>6, <1>7, <1>9 DEF OrderInv
<1>12. PopInv'
  BY <1>7 DEF HeapInv, PopInv, At
<1>13. RetInv'
  BY <1>7 DEF HeapInv, RetInv
<1>14. IndexExact' /\ ok'
  BY <1>7 DEF HeapInv, IndexExact, At
<1> QED BY <1>8, <1>10, <1>11, <1>12, <1>13, <1>14 DEF HeapInv

\* The order of more timers is that of fewer.
LEMMA FewerOrdered ==
  ASSUME NEW d, NEW n \in Nat, NEW m \in 0..n, HeapOrdered(d, n)
  PROVE  HeapOrdered(d, m)
BY DEF HeapOrdered

\* Between calls nothing is being removed or taken.
LEMMA Idle ==
  ASSUME HeapInv, pc = "idle"
  PROVE  /\ call = "none" /\ pop = Nil /\ ret = <<>> /\ size \in Nat
         /\ TypeOK /\ IndexExact /\ Staying = size /\ HeapOrdered(Keys, size) /\ ok
BY ArrayOK DEF HeapInv, ControlInv, PopInv, RetInv, OrderInv, Staying, Removing

\* The array before and after insert.
LEMMA Pushed ==
  ASSUME HeapInv, NEW t \in Timers, NEW e \in Instants, insert(t, e)
  PROVE  /\ tasks' \in Seq(Timers) /\ size' = size + 1 /\ tasks'[size + 1] = t
         /\ \A x \in 0..(size - 1) : At(x)' = At(x) /\ At(x) # t /\ Keys'[x] = Keys[x]
         /\ KeyArray(Keys', size + 1)
<1>1. pc = "idle" /\ index[t] = -1 /\ tasks' = Append(tasks, t)
      /\ expire' = [expire EXCEPT ![t] = e]
  BY DEF insert, HeapPush, Push
<1>2. size \in Nat /\ TypeOK /\ IndexExact
  BY <1>1, Idle
<1>3. tasks \in Seq(Timers) /\ Len(tasks) = size
  BY <1>2 DEF TypeOK, size
<1>4. tasks' \in Seq(Timers) /\ Len(tasks') = size + 1
  BY <1>1, <1>3
<1>5. tasks'[size + 1] = t /\ \A x \in 1..size : tasks'[x] = tasks[x]
  BY <1>1, <1>2, <1>3
<1>6. size' = size + 1
  BY <1>4 DEF size
<1>7. PICK s \in Nat : s = size
  BY <1>2
<1>8. At(s)' = t
  BY <1>5, <1>7 DEF At
<1>9. ASSUME NEW x \in 0..(size - 1) PROVE At(x)' = At(x) /\ At(x) # t /\ At(x) \in Timers
  <2>1. x + 1 \in 1..size /\ At(x) \in Timers
    BY <1>2, ArrayOK
  <2>2. index[At(x)] = x
    BY <1>2 DEF IndexExact
  <2>3. At(x) # t
    BY <1>1, <1>2, <2>2
  <2>4. At(x)' = At(x)
    BY <1>5, <2>1 DEF At
  <2> QED BY <2>1, <2>3, <2>4
<1>10. Keys' = [x \in 0..s |-> expire'[At(x)']]
  <2>1. (s + 1) - 1 = s
    OBVIOUS
  <2> QED BY <1>6, <1>7, <2>1 DEF Keys
<1>11. \A x \in 0..(size - 1) : Keys'[x] = Keys[x]
  <2> SUFFICES ASSUME NEW x \in 0..(size - 1) PROVE Keys'[x] = Keys[x]
    OBVIOUS
  <2>1. x \in 0..s /\ Keys[x] = expire[At(x)]
    BY <1>2, <1>7, ArrayOK
  <2>2. expire'[At(x)] = expire[At(x)]
    BY <1>1, <1>2, <1>9 DEF TypeOK
  <2> QED BY <1>9, <1>10, <2>1, <2>2
<1>12. ASSUME NEW x \in 0..s PROVE expire'[At(x)'] \in Int
  <2>1. expire' \in [Timers -> Int]
    BY <1>1, <1>2, HeapAssumption DEF TypeOK, Instants
  <2>2. At(x)' \in Timers
    BY <1>7, <1>8, <1>9
  <2> QED BY <2>1, <2>2
<1>13. KeyArray(Keys', size + 1)
  <2>1. (s + 1) - 1 = s
    OBVIOUS
  <2> QED BY <1>7, <1>10, <1>12, <2>1 DEF KeyArray
<1> QED BY <1>4, <1>5, <1>6, <1>9, <1>11, <1>13

\* insert.
LEMMA InsertOK ==
  ASSUME HeapInv, NEW t \in Timers, NEW e \in Instants, insert(t, e)
  PROVE  HeapInv'
<1>1. /\ pc = "idle" /\ index[t] = -1 /\ index' = [index EXCEPT ![t] = size]
      /\ expire' = [expire EXCEPT ![t] = e] /\ pc' = "up" /\ call' = "insert"
      /\ at' = size /\ UNCHANGED <<from, now, pop, ret, ok>>
  BY DEF insert, HeapPush, Push, locals
<1>2. call = "none" /\ pop = Nil /\ ret = <<>> /\ TypeOK /\ IndexExact /\ ok
  BY <1>1, Idle
<1>3. PICK s \in Nat : s = size
  BY <1>1, Idle
<1>4. /\ tasks' \in Seq(Timers) /\ size' = s + 1 /\ tasks'[s + 1] = t
      /\ \A x \in 0..(s - 1) : At(x)' = At(x) /\ At(x) # t /\ Keys'[x] = Keys[x]
      /\ KeyArray(Keys', s + 1)
  BY <1>3, Pushed
<1>5. TypeOK'
  BY <1>1, <1>2, <1>3, <1>4 DEF TypeOK
<1>6. IndexExact'
  <2>1. \A u \in Timers : index'[u] = IF u = t THEN s ELSE index[u]
    BY <1>1, <1>2, <1>3 DEF TypeOK
  <2>2. ASSUME NEW x \in 0..s PROVE index'[At(x)'] = x
    <3>1. CASE x = s
      BY <1>4, <2>1, <3>1 DEF At
    <3>2. CASE x # s
      <4>1. x \in 0..(s - 1) /\ At(x) \in Timers /\ index[At(x)] = x
        BY <1>2, <1>3, <3>2, ArrayOK DEF IndexExact
      <4> QED BY <1>4, <2>1, <4>1
    <3> QED BY <3>1, <3>2
  <2>3. ASSUME NEW u \in Timers, index'[u] # -1
        PROVE  index'[u] \in 0..s /\ tasks'[index'[u] + 1] = u
    <3>1. CASE u = t
      BY <1>4, <2>1, <3>1
    <3>2. CASE u # t
      <4>1. index'[u] = index[u] /\ index[u] \in 0..(s - 1) /\ At(index[u]) = u
        BY <1>2, <1>3, <2>1, <2>3, <3>2 DEF IndexExact
      <4>2. PICK x \in 0..(s - 1) : x = index[u]
        BY <4>1
      <4>3. At(x)' = u
        BY <1>4, <4>1, <4>2
      <4> QED BY <4>1, <4>2, <4>3 DEF At
    <3> QED BY <3>1, <3>2
  <2>4. (s + 1) - 1 = s
    OBVIOUS
  <2> QED BY <1>4, <2>2, <2>3, <2>4 DEF IndexExact, At
<1>7. Staying' = s + 1 /\ at' = s
  BY <1>1, <1>3, <1>4 DEF Staying, Removing
<1>8. ControlInv'
  BY <1>1, <1>7 DEF HeapInv, ControlInv
<1>9. OrderedBut(Keys', s, s + 1) /\ AboveChildren(Keys', s, s + 1)
  <2>1. HeapOrdered(Keys, s)
    BY <1>1, <1>3, Idle
  <2>2. AboveChildren(Keys', s, s + 1)
    BY DEF AboveChildren, Child
  <2>3. ASSUME NEW p \in 0..s, NEW c \in 0..s, Child(c, p), p # s, c # s
        PROVE  Keys'[p] <= Keys'[c]
    BY <1>4, <2>1, <2>3 DEF HeapOrdered
  <2>4. ASSUME NEW c \in 0..s, Child(c, s) PROVE FALSE
    BY <2>4 DEF Child
  <2>5. (s + 1) - 1 = s
    OBVIOUS
  <2> QED BY <2>2, <2>3, <2>4, <2>5 DEF OrderedBut
<1>10. OrderInv'
  BY <1>1, <1>7, <1>9 DEF OrderInv
<1>11. PopInv' /\ RetInv'
  BY <1>1, <1>2 DEF PopInv, RetInv
<1> QED BY <1>1, <1>2, <1>5, <1>6, <1>8, <1>10, <1>11 DEF HeapInv

\* cancel.
LEMMA CancelOK ==
  ASSUME HeapInv, NEW t \in Timers, cancel(t)
  PROVE  HeapInv'
<1>1. /\ call = "none" /\ pc = "idle" /\ pop = Nil /\ ret = <<>> /\ size \in Nat
      /\ TypeOK /\ IndexExact /\ Staying = size /\ HeapOrdered(Keys, size) /\ ok
  BY Idle DEF cancel
<1>2. CASE ~(index[t] > 0)
  <2>1. UNCHANGED <<tasks, index, expire, pc, call, at, from, now, pop, ret, ok>>
    BY <1>2 DEF cancel, heap, sift, locals
  <2>2. size' = size /\ Keys' = Keys /\ Staying' = Staying
    BY <2>1 DEF size, Keys, At, Staying, Removing
  <2> QED BY <2>1, <2>2 DEF HeapInv, TypeOK, IndexExact, ControlInv, OrderInv, PopInv,
                            RetInv, At
<1>3. CASE index[t] > 0
  <2>1. PICK i \in 0..(size - 1) : i = index[t] /\ i > 0
    BY <1>1, <1>3 DEF IndexExact, TypeOK
  <2>2. /\ call' = "cancel" /\ UNCHANGED <<expire, now, pop, ret, ok>>
        /\ \/ /\ i # size - 1 /\ Swap(i, size - 1)
              /\ pc' = "down" /\ at' = i /\ from' = i
           \/ /\ i = size - 1 /\ pc' = "pop" /\ UNCHANGED <<tasks, index, at, from>>
    BY <1>3, <2>1 DEF cancel, HeapRemove, heap, sift, locals
  <2>3. PopInv' /\ RetInv'
    BY <1>1, <2>2 DEF PopInv, RetInv
  <2>4. CASE i # size - 1
    <3>1. PICK l \in 0..(size - 1) : l = size - 1 /\ l # i
      BY <1>1, <2>4
    <3>2. Swap(i, l) /\ pc' = "down" /\ at' = i /\ from' = i
      BY <2>2, <2>4, <3>1
    <3>3. Swapped(i, l)
      BY <1>1, <2>2, <3>2, SwapSwaps
    <3>4. size' = size /\ Staying' = l /\ i \in 0..(l - 1) /\ l \in 0..size
      <4>1. size' = size
        BY <3>3 DEF Swapped
      <4>2. Staying' = l
        BY <2>2, <3>1, <4>1 DEF Staying, Removing
      <4>3. i \in 0..(l - 1) /\ l \in 0..size
        BY <1>1, <3>1
      <4> QED BY <4>1, <4>2, <4>3
    <3>5. OrderedBut(Keys', i, l)
      <4>1. KeyArray(Keys, size) /\ KeyArray(Keys', size) /\ Exchanged(Keys, Keys', size, i, l)
        BY <1>1, <3>3, ArrayOK DEF Swapped
      <4>2. \A x \in 0..(l - 1) : x # i => Keys'[x] = Keys[x]
        BY <3>1, <3>4, <4>1 DEF Exchanged
      <4>3. HeapOrdered(Keys, l)
        BY <1>1, <3>4, FewerOrdered
      <4> QED BY <1>1, <3>4, <4>1, <4>2, <4>3, OneReplaced
    <3>6. TypeOK'
      BY <1>1, <2>2, <3>2, <3>3 DEF TypeOK, Swapped
    <3>7. ControlInv'
      BY <1>1, <2>2, <3>1, <3>2, <3>4 DEF ControlInv
    <3>8. OrderInv'
      BY <3>2, <3>4, <3>5 DEF OrderInv
    <3> QED BY <1>1, <2>2, <2>3, <3>3, <3>6, <3>7, <3>8 DEF HeapInv, Swapped
  <2>5. CASE i = size - 1
    <3>1. pc' = "pop" /\ UNCHANGED <<tasks, index, at, from>>
      BY <2>2, <2>5
    <3>2. size' = size /\ Keys' = Keys /\ Staying' = size - 1
      BY <2>2, <3>1 DEF size, Keys, At, Staying, Removing
    <3>3. TypeOK' /\ IndexExact'
      BY <1>1, <2>2, <3>1 DEF TypeOK, IndexExact, size, At
    <3>4. ControlInv'
      BY <1>1, <2>1, <2>2, <3>1, <3>2 DEF HeapInv, ControlInv
    <3>5. HeapOrdered(Keys, size - 1)
      <4>1. size - 1 \in 0..size
        BY <1>1, <2>1
      <4> QED BY <1>1, <4>1, FewerOrdered
    <3>6. OrderInv'
      BY <3>1, <3>2, <3>5 DEF OrderInv
    <3> QED BY <1>1, <2>2, <2>3, <3>3, <3>4, <3>6 DEF HeapInv
  <2> QED BY <2>4, <2>5
<1> QED BY <1>2, <1>3

\* getExpired begins.
LEMMA GetExpiredOK ==
  ASSUME HeapInv, NEW t \in Instants, getExpired(t)
  PROVE  HeapInv'
<1>1. /\ pc = "idle" /\ pc' = "check" /\ call' = "getExpired" /\ now' = t
      /\ UNCHANGED <<tasks, index, expire, at, from, pop, ret, ok>>
  BY DEF getExpired, heap, sift
<1>2. /\ call = "none" /\ pop = Nil /\ ret = <<>> /\ size \in Nat
      /\ TypeOK /\ IndexExact /\ Staying = size /\ HeapOrdered(Keys, size) /\ ok
  BY <1>1, Idle
<1>3. size' = size /\ Keys' = Keys /\ Staying' = size
  BY <1>1 DEF size, Keys, At, Staying, Removing
<1>4. TypeOK' /\ IndexExact'
  BY <1>1, <1>2 DEF TypeOK, IndexExact, size, At
<1>5. ControlInv'
  BY <1>1, <1>2 DEF HeapInv, ControlInv
<1>6. OrderInv' /\ PopInv' /\ RetInv'
  BY <1>1, <1>2, <1>3 DEF OrderInv, PopInv, RetInv
<1> QED BY <1>1, <1>2, <1>4, <1>5, <1>6 DEF HeapInv

\* An iteration of getAndRemoveExpired begins: the top goes to the end.
LEMMA TakeTopOK ==
  ASSUME HeapInv, getAndRemoveExpired
  PROVE  HeapInv'
<1>1. /\ pc = "check" /\ size > 0 /\ expire[Top] <= now /\ pop' = Top /\ Swap(0, size - 1)
      /\ pc' = "down" /\ at' = 0 /\ from' = 0 /\ UNCHANGED <<expire, call, now, ret, ok>>
  BY DEF getAndRemoveExpired, TopIsDue, HeapPop
<1>2. call = "getExpired" /\ TypeOK /\ IndexExact /\ ok /\ size \in Nat /\ Staying = size
  BY <1>1, ArrayOK DEF HeapInv, ControlInv, Staying, Removing
<1>3. HeapOrdered(Keys, size)
  BY <1>1, <1>2 DEF HeapInv, OrderInv
<1>4. PICK l \in 0..(size - 1) : l = size - 1
  BY <1>1, <1>2
<1>5. 0 \in 0..(size - 1) /\ l \in 0..size
  BY <1>1, <1>2
<1>6. Swapped(0, l)
  BY <1>1, <1>2, <1>4, <1>5, SwapSwaps
<1>7. size' = size
  BY <1>6 DEF Swapped
<1>8. Staying' = l
  BY <1>1, <1>4, <1>7 DEF Staying, Removing
<1>9. KeyArray(Keys, size) /\ KeyArray(Keys', size) /\ Exchanged(Keys, Keys', size, 0, l)
  BY <1>2, <1>6, ArrayOK DEF Swapped
<1>10. OrderedBut(Keys', 0, l)
  <2>1. \A x \in 0..(l - 1) : x # 0 => Keys'[x] = Keys[x]
    BY <1>4, <1>9 DEF Exchanged
  <2>2. HeapOrdered(Keys, l)
    BY <1>2, <1>3, <1>5, FewerOrdered
  <2> QED BY <1>2, <1>5, <1>9, <2>1, <2>2, OneReplaced
<1>11. TypeOK'
  <2>1. Top \in Timers
    BY <1>2, <1>5, ArrayOK DEF Top
  <2> QED BY <1>1, <1>2, <1>6, <2>1 DEF TypeOK, Swapped
<1>12. ControlInv'
  BY <1>1, <1>2, <1>7 DEF ControlInv
<1>13. OrderInv'
  BY <1>1, <1>8, <1>10 DEF OrderInv
<1>14. PopInv'
  <2>1. At(l)' = Top
    BY <1>5, <1>6 DEF Swapped, Top
  <2>2. At(size - 1)' = pop'
    BY <1>1, <1>4, <1>7, <2>1 DEF At
  <2>3. expire[Top] = Keys[0]
    BY <1>2, <1>5, ArrayOK DEF Top
  <2>4. \A x \in 0..(size - 1) : Keys[0] <= Keys[x]
    <3>1. size \in 0..size
      BY <1>2
    <3> QED BY <1>2, <1>3, <1>9, <3>1, RootIsLeast
  <2>5. \A x \in 0..(size - 1) : Keys[0] <= Keys'[x]
    BY <1>4, <1>5, <1>9, <2>4 DEF Exchanged
  <2>6. pop' # Nil
    BY <1>1, <1>2, <1>5, ArrayOK, HeapAssumption DEF Top
  <2> QED BY <1>1, <1>2, <1>7, <2>2, <2>3, <2>5, <2>6 DEF PopInv
<1>15. RetInv'
  BY <1>1, <1>4, <1>5, <1>6, SwapKeepsRet
<1> QED BY <1>1, <1>2, <1>6, <1>11, <1>12, <1>13, <1>14, <1>15 DEF HeapInv, Swapped

\* getAndRemoveExpired returns.
LEMMA ExpiredReturnsOK ==
  ASSUME HeapInv, expiredReturns
  PROVE  HeapInv'
<1>1. /\ pc = "check" /\ pc' = "idle" /\ call' = "none" /\ now' = 0 /\ ret' = <<>>
      /\ UNCHANGED <<tasks, index, expire, at, from, pop, ok>>
  BY DEF expiredReturns, heap, sift
<1>2. call = "getExpired" /\ pop = Nil /\ Staying = size /\ HeapOrdered(Keys, size)
  BY <1>1 DEF HeapInv, ControlInv, PopInv, OrderInv, Staying, Removing
<1>3. size' = size /\ Keys' = Keys /\ Staying' = size
  BY <1>1 DEF size, Keys, At, Staying, Removing
<1>4. TypeOK' /\ IndexExact'
  BY <1>1, HeapAssumption DEF HeapInv, TypeOK, Instants, IndexExact, size, At
<1>5. ControlInv'
  BY <1>1, <1>2 DEF HeapInv, ControlInv
<1>6. OrderInv' /\ PopInv' /\ RetInv'
  BY <1>1, <1>2, <1>3 DEF OrderInv, PopInv, RetInv
<1> QED BY <1>1, <1>4, <1>5, <1>6 DEF HeapInv

\* The array before and after Pop.
LEMMA PoppedLast ==
  ASSUME HeapInv, PopReturns
  PROVE  /\ tasks' \in Seq(Timers) /\ size' = size - 1 /\ size - 1 \in Nat
         /\ \A x \in 0..(size - 2) : At(x)' = At(x) /\ Keys'[x] = Keys[x]
         /\ KeyArray(Keys', size - 1) /\ At(size - 1) \in Timers
         /\ index' \in [Timers -> Int]
         /\ \A t \in Timers : index'[t] = IF t = At(size - 1) THEN -1 ELSE index[t]
<1>1. /\ pc = "pop" /\ tasks' = SubSeq(tasks, 1, size - 1) /\ UNCHANGED expire
      /\ index' = [index EXCEPT ![At(size - 1)] = -1]
  BY DEF PopReturns, Pop
<1>2. size \in Nat /\ size > 0 /\ TypeOK
  BY <1>1, ArrayOK DEF HeapInv, ControlInv
<1>3. PICK n \in Nat : n = size - 1
  BY <1>2
<1>4. tasks \in Seq(Timers) /\ Len(tasks) = n + 1 /\ tasks' = SubSeq(tasks, 1, n)
  BY <1>1, <1>2, <1>3 DEF TypeOK, size
<1>5. tasks' \in Seq(Timers) /\ Len(tasks') = n /\ \A x \in 1..n : tasks'[x] = tasks[x]
  BY <1>4
<1>6. size' = n
  BY <1>5 DEF size
<1>7. ASSUME NEW x \in 0..(n - 1) PROVE At(x)' = At(x)
  BY <1>5 DEF At
<1>8. Keys' = [x \in 0..(n - 1) |-> expire[At(x)']]
  BY <1>1, <1>6 DEF Keys
<1>9. ASSUME NEW x \in 0..(n - 1) PROVE Keys'[x] = Keys[x] /\ Keys[x] \in Int
  <2>1. x \in 0..(size - 1)
    BY <1>2, <1>3
  <2>2. Keys[x] = expire[At(x)] /\ Keys[x] \in Int
    BY <1>2, <2>1, ArrayOK
  <2> QED BY <1>7, <1>8, <2>2
<1>10. KeyArray(Keys', n)
  BY <1>8, <1>9 DEF KeyArray
<1>11. At(size - 1) \in Timers
  <2>1. size - 1 \in 0..(size - 1)
    BY <1>2
  <2> QED BY <1>2, <2>1, ArrayOK
<1>12. /\ index' \in [Timers -> Int]
       /\ \A t \in Timers : index'[t] = IF t = At(size - 1) THEN -1 ELSE index[t]
  BY <1>1, <1>2, <1>11 DEF TypeOK
<1>13. size - 2 = n - 1
  BY <1>2, <1>3
<1> QED BY <1>3, <1>5, <1>6, <1>7, <1>9, <1>10, <1>11, <1>12, <1>13

\* Pop: of cancel, or of an iteration of getAndRemoveExpired.
LEMMA PopReturnsOK ==
  ASSUME HeapInv, PopReturns
  PROVE  HeapInv'
<1>1. PICK n \in Nat : n = size - 1
  BY PoppedLast
<1>2. PICK t \in Timers : t = At(size - 1)
  BY PoppedLast
<1>3. /\ tasks' \in Seq(Timers) /\ size' = n /\ index' \in [Timers -> Int]
      /\ \A x \in 0..(n - 1) : At(x)' = At(x) /\ Keys'[x] = Keys[x]
      /\ \A u \in Timers : index'[u] = IF u = t THEN -1 ELSE index[u]
  <2>1. n - 1 = size - 2
    BY <1>1, StayingOK
  <2> QED BY <1>1, <1>2, <2>1, PoppedLast
<1>4. /\ pc = "pop" /\ UNCHANGED <<expire, at, from, now>>
      /\ \/ /\ call = "cancel" /\ pc' = "idle" /\ call' = "none"
            /\ UNCHANGED <<pop, ret, ok>>
         \/ /\ call = "getExpired" /\ pc' = "check" /\ call' = "getExpired"
            /\ ok' = (ok /\ t = pop) /\ ret' = Append(ret, pop) /\ pop' = Nil
  BY <1>2 DEF PopReturns, sift
<1>5. size = n + 1 /\ n \in 0..(size - 1) /\ At(n) = t /\ index[t] = n
  BY <1>1, <1>2, StayingOK DEF HeapInv, IndexExact
<1>6. \A x \in 0..(n - 1) : /\ x \in 0..(size - 1) /\ At(x) \in Timers
                            /\ index[At(x)] = x /\ At(x) # t
  BY <1>5, ArrayOK, OnePosition DEF HeapInv, IndexExact
<1>7. IndexExact'
  <2>1. ASSUME NEW x \in 0..(n - 1) PROVE index'[At(x)'] = x
    BY <1>3, <1>6
  <2>2. ASSUME NEW u \in Timers, index'[u] # -1
        PROVE  index'[u] \in 0..(n - 1) /\ tasks'[index'[u] + 1] = u
    <3>1. u # t /\ index'[u] = index[u]
      BY <1>3, <2>2
    <3>2. index[u] \in 0..(size - 1) /\ At(index[u]) = u
      BY <2>2, <3>1 DEF HeapInv, IndexExact
    <3>3. index[u] # n
      BY <1>5, <3>1, <3>2
    <3>4. PICK x \in 0..(n - 1) : x = index[u]
      BY <1>5, <3>2, <3>3
    <3>5. At(x)' = u
      BY <1>3, <3>2, <3>4
    <3> QED BY <3>1, <3>4, <3>5 DEF At
  <2> QED BY <1>3, <2>1, <2>2 DEF IndexExact, At
<1>8. Staying = n /\ Staying' = n
  BY <1>1, <1>3, <1>4 DEF Staying, Removing
<1>9. ControlInv'
  BY <1>4 DEF HeapInv, ControlInv
<1>10. OrderInv'
  <2>1. HeapOrdered(Keys, n)
    BY <1>4, <1>8 DEF HeapInv, OrderInv
  <2>2. HeapOrdered(Keys', n)
    BY <1>3, <2>1 DEF HeapOrdered
  <2> QED BY <1>4, <1>8, <2>2 DEF OrderInv
<1>11. CASE call = "cancel"
  <2>1. pop = Nil /\ ret = <<>>
    BY <1>11 DEF HeapInv, PopInv, RetInv
  <2>2. TypeOK'
    BY <1>3, <1>4, <1>11 DEF HeapInv, TypeOK
  <2>3. PopInv' /\ RetInv' /\ ok'
    BY <1>4, <1>11, <2>1 DEF HeapInv, PopInv, RetInv
  <2> QED BY <1>7, <1>9, <1>10, <2>2, <2>3 DEF HeapInv
<1>12. CASE call = "getExpired"
  <2>1. /\ pop # Nil /\ pop = t /\ expire[t] <= now
        /\ \A x \in 0..(size - 1) : expire[t] <= Keys[x]
    BY <1>2, <1>4, <1>12 DEF HeapInv, PopInv
  <2>2. ret' = Append(ret, t) /\ pop' = Nil /\ ok' /\ pc' = "check" /\ call' = "getExpired"
    BY <1>4, <1>12, <2>1 DEF HeapInv
  <2>3. PICK m \in Nat : m = Len(ret) /\ ret \in Seq(Timers)
    BY DEF HeapInv, TypeOK
  <2>4. /\ ret' \in Seq(Timers) /\ DOMAIN ret' = 1..(m + 1) /\ ret'[m + 1] = t
        /\ \A k \in 1..m : ret'[k] = ret[k] /\ ret[k] \in Timers /\ k \in DOMAIN ret
    <3>1. ret' \in Seq(Timers) /\ Len(ret') = m + 1 /\ DOMAIN ret' = 1..(m + 1)
      BY <2>2, <2>3
    <3>2. ret'[m + 1] = t
      BY <2>2, <2>3
    <3>3. ASSUME NEW k \in 1..m PROVE ret'[k] = ret[k] /\ ret[k] \in Timers /\ k \in DOMAIN ret
      BY <2>2, <2>3
    <3> QED BY <3>1, <3>2, <3>3
  <2>5. TypeOK'
    BY <1>3, <1>4, <2>2, <2>4 DEF HeapInv, TypeOK
  <2>6. PopInv'
    BY <2>2 DEF PopInv
  <2>7. Keys[n] = expire[t]
    BY <1>5, ArrayOK DEF HeapInv
  <2>8. ASSUME NEW k \in 1..m
        PROVE  /\ index[ret[k]] = -1 /\ expire[ret[k]] <= now
               /\ \A x \in 0..(size - 1) : expire[ret[k]] <= Keys[x]
    BY <2>4 DEF HeapInv, RetInv
  <2>9. ASSUME NEW k \in 1..(m + 1)
        PROVE  /\ index'[ret'[k]] = -1 /\ expire'[ret'[k]] <= now'
               /\ \A x \in 0..(n - 1) : expire'[ret'[k]] <= Keys'[x]
    <3>1. CASE k = m + 1
      BY <1>3, <1>4, <1>6, <2>1, <2>4, <3>1
    <3>2. CASE k # m + 1
      <4>1. k \in 1..m
        BY <3>2
      <4> QED BY <1>3, <1>4, <1>6, <2>4, <2>8, <4>1
    <3> QED BY <3>1, <3>2
  <2>10. ASSUME NEW k \in 1..(m + 1), NEW j \in 1..(m + 1), k < j
         PROVE  ret'[k] # ret'[j] /\ expire'[ret'[k]] <= expire'[ret'[j]]
    <3>1. k \in 1..m
      BY <2>10
    <3>2. CASE j = m + 1
      <4>1. ret'[j] = t /\ ret'[k] = ret[k]
        BY <2>4, <3>1, <3>2
      <4>2. ret[k] # t /\ expire[ret[k]] <= expire[t]
        BY <1>5, <2>7, <2>8, <3>1
      <4> QED BY <1>4, <4>1, <4>2
    <3>3. CASE j # m + 1
      <4>1. j \in 1..m /\ ret'[j] = ret[j] /\ ret'[k] = ret[k]
        BY <2>4, <3>1, <3>3
      <4>2. ret[k] # ret[j] /\ expire[ret[k]] <= expire[ret[j]]
        BY <2>4, <2>10, <3>1, <4>1 DEF HeapInv, RetInv
      <4> QED BY <1>4, <4>1, <4>2
    <3> QED BY <3>2, <3>3
  <2>11. RetInv'
    BY <1>3, <2>2, <2>4, <2>9, <2>10 DEF RetInv
  <2> QED BY <1>7, <1>9, <1>10, <2>2, <2>5, <2>6, <2>11 DEF HeapInv
<1> QED BY <1>4, <1>11, <1>12

\* Stuttering.
LEMMA StutterOK ==
  ASSUME HeapInv, UNCHANGED vars
  PROVE  HeapInv'
<1>1. UNCHANGED <<tasks, index, expire, pc, call, at, from, now, pop, ret, ok>>
  BY DEF vars, heap, sift, locals
<1>2. size' = size /\ Keys' = Keys /\ Staying' = Staying
  BY <1>1 DEF size, Keys, At, Staying, Removing
<1> QED BY <1>1, <1>2 DEF HeapInv, TypeOK, IndexExact, ControlInv, OrderInv, PopInv,
                          RetInv, At

\* Between calls and between the loops of container/heap the array is a heap
\* and every index is exact, through every swap, for any number of timers; the
\* assertion of getAndRemoveExpired holds.
THEOREM HeapInvariant == Spec => []HeapInv
<1>1. HeapInv /\ [Next]_vars => HeapInv'
  <2> SUFFICES ASSUME HeapInv, [Next]_vars PROVE HeapInv'
    OBVIOUS
  <2>1. ASSUME NEW t \in Timers, cancel(t) PROVE HeapInv'
    BY <2>1, CancelOK
  <2>2. ASSUME NEW t \in Timers, NEW e \in Instants, insert(t, e) PROVE HeapInv'
    BY <2>2, InsertOK
  <2>3. ASSUME NEW t \in Instants, getExpired(t) PROVE HeapInv'
    BY <2>3, GetExpiredOK
  <2>4. CASE up
    BY <2>4, UpOK
  <2>5. CASE upReturns
    BY <2>5, UpReturnsOK
  <2>6. CASE down
    BY <2>6, DownOK
  <2>7. CASE downReturns
    BY <2>7, DownReturnsOK
  <2>8. CASE getAndRemoveExpired
    BY <2>8, TakeTopOK
  <2>9. CASE expiredReturns
    BY <2>9, ExpiredReturnsOK
  <2>10. CASE PopReturns
    BY <2>10, PopReturnsOK
  <2>11. CASE UNCHANGED vars
    BY <2>11, StutterOK
  <2> QED BY <2>1, <2>2, <2>3, <2>4, <2>5, <2>6, <2>7, <2>8, <2>9, <2>10, <2>11 DEF Next
<1> QED BY <1>1, InitOK, PTL DEF Spec

-----------------------------------------------------------------------------
(* The heap is a set of timers.                                             *)

InHeap == {t \in Timers : index[t] # -1}
Taken == {ret[i] : i \in DOMAIN ret}

\* Held in terms of index.
HeldOK ==
    /\ call = "cancel" => Held = InHeap \ {At(size - 1)}
    /\ call # "cancel" => Held = InHeap \cup Taken

\* A timer is in the array when its index says so.
LEMMA HeldIs == HeapInv => HeldOK
<1> SUFFICES ASSUME HeapInv PROVE HeldOK
  OBVIOUS
<1>1. size \in Nat /\ DOMAIN tasks = 1..size
  BY ArrayOK DEF HeapInv, TypeOK, size
<1>2. ASSUME NEW i \in 1..size
      PROVE  tasks[i] \in Timers /\ index[tasks[i]] = i - 1
  <2>1. PICK x \in 0..(size - 1) : x = i - 1
    BY <1>1
  <2>2. At(x) \in Timers /\ index[At(x)] = x
    BY <2>1, ArrayOK DEF HeapInv, IndexExact
  <2>3. At(x) = tasks[i]
    <3>1. x + 1 = i
      BY <1>1, <2>1
    <3> QED BY <3>1 DEF At
  <2> QED BY <2>1, <2>2, <2>3
<1>3. ASSUME NEW t \in InHeap
      PROVE  /\ index[t] + 1 \in 1..size /\ tasks[index[t] + 1] = t
             /\ t # At(size - 1) => index[t] + 1 \in 1..(size - 1)
  <2>1. index[t] \in 0..(size - 1) /\ At(index[t]) = t
    BY DEF InHeap, HeapInv, IndexExact
  <2>2. t # At(size - 1) => index[t] # size - 1
    BY <2>1
  <2> QED BY <1>1, <2>1, <2>2 DEF At
<1>4. ASSUME call = "cancel" PROVE Held = InHeap \ {At(size - 1)}
  <2>1. Held = {tasks[i] : i \in 1..(size - 1)} /\ size > 0
    BY <1>1, <1>4 DEF Held, HeapInv, ControlInv, TypeOK, Staying, Removing
  <2>2. ASSUME NEW i \in 1..(size - 1) PROVE tasks[i] \in InHeap \ {At(size - 1)}
    <3>1. i \in 1..size /\ size \in 1..size /\ i # size
      BY <1>1, <2>1
    <3>2. /\ tasks[i] \in Timers /\ index[tasks[i]] = i - 1
          /\ index[tasks[size]] = size - 1
      BY <1>2, <3>1
    <3>3. At(size - 1) = tasks[size]
      <4>1. (size - 1) + 1 = size
        BY <1>1
      <4> QED BY <4>1 DEF At
    <3>4. tasks[i] # tasks[size]
      BY <1>1, <3>1, <3>2
    <3>5. i - 1 # -1
      BY <1>1
    <3> QED BY <3>2, <3>3, <3>4, <3>5 DEF InHeap
  <2>3. ASSUME NEW t \in InHeap, t # At(size - 1) PROVE \E i \in 1..(size - 1) : t = tasks[i]
    BY <1>3, <2>3
  <2> QED BY <2>1, <2>2, <2>3
<1>5. ASSUME call # "cancel" PROVE Held = InHeap \cup Taken
  <2>1. Held = {tasks[i] : i \in 1..size} \cup Taken
    BY <1>1, <1>5 DEF Held, Taken
  <2>2. ASSUME NEW i \in 1..size PROVE tasks[i] \in InHeap
    <3>1. i - 1 # -1
      BY <1>1
    <3> QED BY <1>2, <3>1 DEF InHeap
  <2>3. ASSUME NEW t \in InHeap PROVE \E i \in 1..size : t = tasks[i]
    BY <1>3
  <2>4. {tasks[i] : i \in 1..size} = InHeap
    BY <2>2, <2>3
  <2> QED BY <2>1, <2>4
<1> QED BY <1>4, <1>5 DEF HeldOK

\* The same after a step.
LEMMA HeldAfter == HeapInv' => HeldOK'
BY HeldIs, PTL

\* Nothing happens to the set.
NoStep == UNCHANGED <<Held, expire, changed, popped>>

\* An iteration of up or down.
LEMMA SwapIsNoStep ==
  ASSUME HeapInv, HeapInv', NEW i \in 0..(size - 1), NEW j \in 0..(size - 1), Swapped(i, j),
         UNCHANGED <<expire, call, ret, changed, popped>>,
         call = "cancel" => i # size - 1 /\ j # size - 1
  PROVE  NoStep
<1>1. InHeap' = InHeap /\ Taken' = Taken
  BY DEF Swapped, InHeap, Taken
<1>2. HeldOK /\ HeldOK'
  BY HeldIs, HeldAfter
<1>3. CASE call = "cancel"
  <2>1. PICK l \in 0..(size - 1) : l = size - 1
    <3>1. size \in Nat /\ size > 0
      BY StayingOK
    <3> QED BY <3>1
  <2>2. At(l)' = At(l)
    BY <1>3, <2>1 DEF Swapped
  <2>3. At(size - 1)' = At(size - 1)
    BY <2>1, <2>2 DEF At, Swapped
  <2> QED BY <1>1, <1>2, <1>3, <2>3 DEF HeldOK, NoStep
<1>4. CASE call # "cancel"
  BY <1>1, <1>2, <1>4 DEF HeldOK, NoStep
<1> QED BY <1>3, <1>4

\* up.
LEMMA UpIsNoStep ==
  ASSUME HeapInv, HeapInv', up
  PROVE  NoStep
<1>1. PICK k \in Nat : k = at
  BY DEF HeapInv, TypeOK
<1>2. PICK p \in Nat : p = Parent(at)
  BY <1>1, ParentIsParent DEF up, UpGoesOn
<1>3. k \in 0..(Staying - 1) /\ p < k /\ Staying \in 0..size /\ size \in Nat
  BY <1>1, <1>2, StayingOK, ParentIsParent DEF up, UpGoesOn
<1>4. p \in 0..(size - 1) /\ k \in 0..(size - 1)
  BY <1>3
<1>5. call = "cancel" => p # size - 1 /\ k # size - 1
  BY <1>3 DEF Staying, Removing
<1>6. Swapped(p, k)
  BY <1>1, <1>2, <1>4, SwapSwaps DEF up, HeapInv
<1> QED BY <1>4, <1>5, <1>6, SwapIsNoStep DEF up, locals, results

\* down.
LEMMA DownIsNoStep ==
  ASSUME HeapInv, HeapInv', down
  PROVE  NoStep
<1>1. PICK k \in Nat : k = at
  BY DEF HeapInv, TypeOK
<1>2. size \in Nat /\ Left(k) < size - 1
  BY <1>1, StayingOK DEF down, DownGoesOn
<1>3. PICK j \in 0..(size - 2) : j = LessChild(k) /\ k < j
  BY <1>2, LessChildIsLeast
<1>4. /\ k \in 0..(size - 1) /\ j \in 0..(size - 1)
      /\ k # size - 1 /\ j # size - 1
  BY <1>2, <1>3
<1>5. Swapped(k, j)
  BY <1>1, <1>3, <1>4, SwapSwaps DEF down, HeapInv
<1> QED BY <1>4, <1>5, SwapIsNoStep DEF down, locals, results

\* The steps between the loops.
LEMMA ReturnIsNoStep ==
  ASSUME upReturns \/ downReturns \/ UNCHANGED vars \/ \E t \in Instants : getExpired(t), HeapInv
  PROVE  NoStep
<1>1. /\ UNCHANGED <<tasks, ret, expire, changed, popped>>
      /\ call' = "cancel" <=> call = "cancel"
  BY Idle DEF upReturns, downReturns, getExpired, vars, heap, locals, results
<1> QED BY <1>1 DEF NoStep, Held, size

\* getAndRemoveExpired moves the top to the end.
LEMMA TakeTopIsNoStep ==
  ASSUME HeapInv, HeapInv', getAndRemoveExpired
  PROVE  NoStep
<1>1. /\ pc = "check" /\ size > 0 /\ Swap(0, size - 1)
      /\ UNCHANGED <<expire, call, ret, changed, popped>>
  BY DEF getAndRemoveExpired, TopIsDue, HeapPop, results
<1>2. call # "cancel" /\ size \in Nat
  BY <1>1, StayingOK DEF HeapInv, ControlInv
<1>3. PICK l \in 0..(size - 1) : l = size - 1 /\ 0 \in 0..(size - 1)
  BY <1>1, <1>2
<1>4. Swapped(0, l)
  BY <1>1, <1>3, SwapSwaps DEF HeapInv
<1> QED BY <1>1, <1>2, <1>3, <1>4, SwapIsNoStep

\* Pop takes a timer out of the array that cancel has already taken out of the
\* set, or that getAndRemoveExpired keeps.
LEMMA PopIsNoStep ==
  ASSUME HeapInv, HeapInv', PopReturns
  PROVE  NoStep
<1>1. PICK t \in Timers : t = At(size - 1)
  BY PoppedLast
<1>2. /\ pc = "pop" /\ UNCHANGED <<expire, changed, popped>>
      /\ \/ call = "cancel" /\ call' = "none" /\ UNCHANGED ret
         \/ call = "getExpired" /\ call' = "getExpired" /\ ret' = Append(ret, pop)
  BY DEF PopReturns, results
<1>3. InHeap' = InHeap \ {t} /\ t \in InHeap
  <2>1. \A u \in Timers : index'[u] = IF u = t THEN -1 ELSE index[u]
    BY <1>1, PoppedLast
  <2>2. index[t] # -1
    <3>1. size - 1 \in 0..(size - 1)
      BY PoppedLast, StayingOK
    <3> QED BY <1>1, <3>1 DEF HeapInv, IndexExact
  <2> QED BY <2>1, <2>2 DEF InHeap
<1>4. HeldOK /\ HeldOK'
  BY HeldIs, HeldAfter
<1>5. CASE call = "cancel"
  <2>1. Taken' = {}
    BY <1>2, <1>5 DEF HeapInv, RetInv, Taken
  <2>2. Held = InHeap \ {t} /\ Held' = InHeap' \cup Taken'
    BY <1>1, <1>2, <1>4, <1>5 DEF HeldOK
  <2> QED BY <1>2, <1>3, <2>1, <2>2 DEF NoStep
<1>6. CASE call = "getExpired"
  <2>1. pop = t
    BY <1>1, <1>2, <1>6 DEF HeapInv, PopInv
  <2>2. PICK m \in Nat : m = Len(ret) /\ ret \in Seq(Timers)
    BY DEF HeapInv, TypeOK
  <2>3. /\ DOMAIN ret = 1..m /\ DOMAIN ret' = 1..(m + 1) /\ ret'[m + 1] = t
        /\ \A k \in 1..m : ret'[k] = ret[k]
    BY <1>2, <1>6, <2>1, <2>2
  <2>4. Taken' = Taken \cup {t}
    <3>1. ASSUME NEW k \in 1..(m + 1) PROVE ret'[k] \in Taken \cup {t}
      <4>1. k \in 1..m \/ k = m + 1
        OBVIOUS
      <4> QED BY <2>3, <4>1 DEF Taken
    <3>2. \A k \in 1..m : ret[k] \in Taken'
      BY <2>3 DEF Taken
    <3>3. t \in Taken'
      BY <2>3 DEF Taken
    <3> QED BY <2>3, <3>1, <3>2, <3>3 DEF Taken
  <2>5. Held = InHeap \cup Taken /\ Held' = InHeap' \cup Taken'
    BY <1>2, <1>4, <1>6 DEF HeldOK
  <2> QED BY <1>2, <1>3, <2>4, <2>5 DEF NoStep
<1> QED BY <1>2, <1>5, <1>6

\* A step of the set, or none.
SetStep == [TS!Next]_<<Held, expire, changed, popped>>

\* Every timer of the array is at some position, with the key there.
LEMMA KeyOf ==
  ASSUME HeapInv, NEW t \in InHeap
  PROVE  \E x \in 0..(size - 1) : At(x) = t /\ index[t] = x /\ expire[t] = Keys[x]
<1>1. index[t] \in 0..(size - 1) /\ At(index[t]) = t
  BY DEF InHeap, HeapInv, IndexExact
<1>2. Keys[index[t]] = expire[t]
  BY <1>1, ArrayOK DEF HeapInv
<1> QED BY <1>1, <1>2

\* No timer of the array is earlier than the top when the array is a heap.
LEMMA TopIsEarliest ==
  ASSUME HeapInv, HeapOrdered(Keys, size), size > 0
  PROVE  /\ Top \in InHeap /\ index[Top] = 0 /\ expire[Top] \in Int
         /\ \A t \in InHeap : expire[t] \in Int /\ expire[Top] <= expire[t]
<1>1. size \in Nat /\ size \in 0..size /\ KeyArray(Keys, size) /\ 0 \in 0..(size - 1)
  BY ArrayOK DEF HeapInv
<1>2. /\ Top \in Timers /\ index[Top] = 0 /\ Keys[0] = expire[Top] /\ Keys[0] \in Int
  BY <1>1, ArrayOK DEF Top, HeapInv, IndexExact
<1>3. ASSUME NEW t \in InHeap PROVE expire[t] \in Int /\ expire[Top] <= expire[t]
  <2>1. PICK x \in 0..(size - 1) : expire[t] = Keys[x]
    BY KeyOf
  <2>2. Keys[0] <= Keys[x]
    BY <1>1, RootIsLeast
  <2>3. Keys[x] \in Int
    BY ArrayOK DEF HeapInv
  <2> QED BY <1>2, <2>1, <2>2, <2>3
<1> QED BY <1>2, <1>3 DEF InHeap

\* insert adds a timer and tells whether it is the earliest.
LEMMA InsertInserts ==
  ASSUME HeapInv, HeapInv', NEW t \in Timers, NEW e \in Instants, insert(t, e)
  PROVE  SetStep
<1>1. /\ pc = "idle" /\ index[t] = -1 /\ index' = [index EXCEPT ![t] = size]
      /\ changed' = (size = 0 \/ e < expire[Top]) /\ expire' = [expire EXCEPT ![t] = e]
      /\ call' = "insert" /\ popped' = NonePopped /\ UNCHANGED ret
  BY DEF insert, HeapPush, Push, locals
<1>2. /\ call = "none" /\ ret = <<>> /\ size \in Nat /\ TypeOK /\ HeapOrdered(Keys, size)
  BY <1>1, Idle
<1>3. Taken = {} /\ Taken' = {}
  BY <1>1, <1>2 DEF Taken
<1>4. Held = InHeap /\ Held' = InHeap'
  BY <1>1, <1>2, <1>3, HeldIs, HeldAfter DEF HeldOK
<1>5. InHeap' = InHeap \cup {t} /\ t \notin InHeap
  <2>1. \A u \in Timers : index'[u] = IF u = t THEN size ELSE index[u]
    BY <1>1, <1>2 DEF TypeOK
  <2>2. size # -1
    BY <1>2
  <2> QED BY <1>1, <2>1, <2>2 DEF InHeap
<1>6. changed' = \A u \in InHeap : e < expire[u]
  <2>1. CASE size = 0
    <3>1. InHeap = {}
      BY <2>1, KeyOf
    <3> QED BY <1>1, <2>1, <3>1
  <2>2. CASE size # 0
    <3>1. /\ Top \in InHeap /\ expire[Top] \in Int
          /\ \A u \in InHeap : expire[u] \in Int /\ expire[Top] <= expire[u]
      BY <1>2, <2>2, TopIsEarliest
    <3>2. e \in Int
      BY HeapAssumption DEF Instants
    <3>3. e < expire[Top] <=> \A u \in InHeap : e < expire[u]
      BY <3>1, <3>2
    <3> QED BY <1>1, <2>2, <3>3
  <2> QED BY <2>1, <2>2
<1>7. TS!Insert(t, e)
  BY <1>1, <1>4, <1>5, <1>6 DEF TS!Insert, TS!NonePopped, NonePopped
<1> QED BY <1>7 DEF SetStep, TS!Next, Instants

\* cancel removes a timer that is not on top, and nothing otherwise.
LEMMA CancelRemoves ==
  ASSUME HeapInv, HeapInv', NEW t \in Timers, cancel(t)
  PROVE  SetStep
<1>1. pc = "idle" /\ changed' = FALSE /\ popped' = NonePopped /\ UNCHANGED <<expire, ret>>
  BY DEF cancel, locals
<1>2. /\ call = "none" /\ ret = <<>> /\ size \in Nat /\ TypeOK /\ HeapOrdered(Keys, size)
      /\ IndexExact
  BY <1>1, Idle
<1>3. Held = InHeap
  <2>1. Taken = {}
    BY <1>2 DEF Taken
  <2> QED BY <1>2, <2>1, HeldIs DEF HeldOK
<1>4. CASE ~(index[t] > 0)
  <2>1. UNCHANGED <<tasks, call>>
    BY <1>4 DEF cancel, heap
  <2>2. Held' = Held
    BY <1>1, <2>1 DEF Held, size
  <2>3. TS!RemoveNothing
    BY <1>1, <2>2 DEF TS!RemoveNothing, TS!NonePopped, NonePopped
  <2> QED BY <2>3 DEF SetStep, TS!Next
<1>5. CASE index[t] > 0
  <2>1. PICK i \in 0..(size - 1) : i = index[t] /\ i > 0 /\ At(i) = t
    BY <1>2, <1>5 DEF IndexExact, TypeOK
  <2>2. PICK l \in 0..(size - 1) : l = size - 1
    BY <1>2, <2>1
  <2>3. /\ call' = "cancel"
        /\ \/ i # l /\ Swap(i, l)
           \/ i = l /\ UNCHANGED <<tasks, index>>
    BY <1>5, <2>1, <2>2 DEF cancel, HeapRemove, heap
  <2>4. InHeap' = InHeap /\ size' = size /\ At(l)' = t
    <3>1. CASE i # l /\ Swap(i, l)
      <4>1. Swapped(i, l)
        BY <1>1, <1>2, <3>1, SwapSwaps
      <4> QED BY <2>1, <4>1 DEF Swapped, InHeap
    <3>2. CASE i = l /\ UNCHANGED <<tasks, index>>
      BY <2>1, <3>2 DEF InHeap, size, At
    <3> QED BY <2>3, <3>1, <3>2
  <2>5. At(size - 1)' = t
    BY <2>2, <2>4 DEF At
  <2>6. Held' = InHeap \ {t}
    BY <2>3, <2>4, <2>5, HeldAfter DEF HeldOK
  <2>7. t \in InHeap
    BY <2>1 DEF InHeap
  <2>8. /\ Top \in InHeap /\ index[Top] = 0 /\ expire[Top] <= expire[t]
    BY <1>2, <2>1, <2>7, TopIsEarliest
  <2>9. Top # t
    BY <2>1, <2>8
  <2>10. TS!Remove(t)
    BY <1>1, <1>3, <2>6, <2>7, <2>8, <2>9 DEF TS!Remove, TS!NonePopped, NonePopped
  <2> QED BY <2>10 DEF SetStep, TS!Next
<1> QED BY <1>4, <1>5

\* getAndRemoveExpired returns all that is due, once and in order.
LEMMA ExpiredAreTaken ==
  ASSUME HeapInv, HeapInv', expiredReturns
  PROVE  SetStep
<1>1. /\ pc = "check" /\ ~(size > 0 /\ expire[Top] <= now)
      /\ popped' = [at |-> now, timers |-> ret] /\ changed' = FALSE
      /\ ret' = <<>> /\ call' = "none" /\ UNCHANGED <<tasks, index, expire>>
  BY DEF expiredReturns, TopIsDue, heap
<1>2. /\ call = "getExpired" /\ HeapOrdered(Keys, size) /\ size \in Nat
  BY <1>1, StayingOK DEF HeapInv, ControlInv, OrderInv, Staying, Removing
<1>3. Held = InHeap \cup Taken /\ Held' = InHeap
  <2>1. Taken' = {} /\ InHeap' = InHeap
    BY <1>1 DEF Taken, InHeap
  <2> QED BY <1>1, <1>2, <2>1, HeldIs, HeldAfter DEF HeldOK
<1>4. ASSUME NEW t \in InHeap PROVE expire[t] > now
  <2>1. size > 0
    BY <1>2, KeyOf
  <2>2. /\ expire[Top] \in Int /\ expire[t] \in Int /\ expire[Top] <= expire[t]
    BY <1>2, <2>1, TopIsEarliest
  <2>3. now \in Int
    BY HeapAssumption DEF HeapInv, TypeOK, Instants
  <2> QED BY <1>1, <2>1, <2>2, <2>3
<1>5. ASSUME NEW t \in Taken PROVE ~(expire[t] > now) /\ t \notin InHeap
  <2>1. PICK k \in DOMAIN ret : t = ret[k]
    BY DEF Taken
  <2>2. index[t] = -1 /\ expire[t] <= now
    BY <2>1 DEF HeapInv, RetInv
  <2>3. t \in Timers
    BY <2>1 DEF HeapInv, TypeOK
  <2>4. now \in Int /\ expire[t] \in Int
    BY <2>3, HeapAssumption DEF HeapInv, TypeOK, Instants
  <2> QED BY <2>2, <2>4 DEF InHeap
<1>6. Held' = {t \in Held : expire[t] > now} /\ Taken = Held \ Held'
  BY <1>3, <1>4, <1>5
<1>7. \A i, j \in DOMAIN ret : i < j => ret[i] # ret[j] /\ expire[ret[i]] <= expire[ret[j]]
  BY DEF HeapInv, RetInv
<1>8. popped'.at = now /\ popped'.timers = ret
  BY <1>1
<1>9. PICK n \in 0..MaxTime : n = now
  BY DEF HeapInv, TypeOK, Instants
<1>10. TS!getExpired(n)
  BY <1>1, <1>6, <1>7, <1>8, <1>9 DEF TS!getExpired, Taken
<1> QED BY <1>9, <1>10 DEF SetStep, TS!Next

\* timerTaskHeap is the set of timers TimerQueue takes it for: insert tells a
\* new earliest timer, getAndRemoveExpired returns exactly the timers that are
\* due, each once and in the order of their instants, and cancel removes its
\* timer and no other, unless it is on top.
THEOREM HeapIsTimerSet == Spec => IsTimerSet
<1>1. Init => TS!Init
  BY DEF Init, TS!Init, Held, TS!NonePopped, NonePopped, size
<1>2. HeapInv /\ HeapInv' /\ [Next]_vars => [TS!Next]_TS!vars
  <2> SUFFICES ASSUME HeapInv, HeapInv', [Next]_vars PROVE SetStep
    BY DEF SetStep, TS!vars
  <2>1. ASSUME NEW t \in Timers, cancel(t) PROVE SetStep
    BY <2>1, CancelRemoves
  <2>2. ASSUME NEW t \in Timers, NEW e \in Instants, insert(t, e) PROVE SetStep
    BY <2>2, InsertInserts
  <2>3. CASE upReturns \/ downReturns \/ UNCHANGED vars \/ \E t \in Instants : getExpired(t)
    <3>1. NoStep
      BY <2>3, ReturnIsNoStep
    <3> QED BY <3>1 DEF NoStep, SetStep
  <2>4. CASE up
    BY <2>4, UpIsNoStep DEF NoStep, SetStep
  <2>5. CASE down
    BY <2>5, DownIsNoStep DEF NoStep, SetStep
  <2>6. CASE getAndRemoveExpired
    BY <2>6, TakeTopIsNoStep DEF NoStep, SetStep
  <2>7. CASE PopReturns
    BY <2>7, PopIsNoStep DEF NoStep, SetStep
  <2>8. CASE expiredReturns
    BY <2>8, ExpiredAreTaken
  <2> QED BY <2>1, <2>2, <2>3, <2>4, <2>5, <2>6, <2>7, <2>8 DEF Next
<1> QED BY <1>1, <1>2, HeapInvariant, PTL DEF Spec, IsTimerSet, TS!Spec

-----------------------------------------------------------------------------
(* The loops end.                                                           *)

\* How far a call is from its next Pop or its end: the loops it has before it,
\* and in a loop the positions it can still move.
Stage == [idle |-> 0, pop |-> 1, up |-> 2, down |-> 3, check |-> 4][pc]
Distance == IF pc = "up" THEN at ELSE size - at

\* A Pop has made the array shorter, or the call is nearer to the next one.
Nearer ==
    \/ size' < size
    \/ size' = size /\ Stage' < Stage
    \/ size' = size /\ Stage' = Stage /\ Distance' < Distance

\* No loop of container/heap or of getAndRemoveExpired runs forever: the size
\* of the array, the stage of the call and the distance are numbers that go
\* down lexicographically in every step until the call returns.
THEOREM CallsEnd ==
  Spec => /\ [](size \in Nat /\ Stage \in Nat /\ Distance \in Nat)
          /\ [][pc # "idle" => pc' = "idle" \/ Nearer]_vars
<1>1. HeapInv => size \in Nat /\ Stage \in Nat /\ Distance \in Nat
  <2> SUFFICES ASSUME HeapInv PROVE size \in Nat /\ Stage \in Nat /\ Distance \in Nat
    OBVIOUS
  <2>1. size \in Nat /\ at \in Nat
    BY StayingOK DEF HeapInv, TypeOK
  <2>2. Stage \in Nat
    BY DEF Stage, HeapInv, TypeOK
  <2>3. pc # "up" => at <= size
    BY <2>1 DEF HeapInv, ControlInv, TypeOK
  <2>4. Distance \in Nat
    BY <2>1, <2>3 DEF Distance
  <2> QED BY <2>1, <2>2, <2>4
<1>2. ASSUME HeapInv, [Next]_vars
      PROVE  [pc # "idle" => pc' = "idle" \/ Nearer]_vars
  <2> SUFFICES ASSUME Next, pc # "idle", pc' # "idle" PROVE Nearer
    BY <1>2
  <2>1. size \in Nat /\ at \in Nat
    BY <1>2, StayingOK DEF HeapInv, TypeOK
  <2>2. CASE up
    <3>1. PICK p \in Nat : p = Parent(at) /\ p < at
      BY <2>1, <2>2, ParentIsParent DEF up, UpGoesOn
    <3>2. PICK k \in Nat : k = at
      BY <2>1
    <3>3. p \in 0..(size - 1) /\ k \in 0..(size - 1)
      BY <1>2, <2>2, <3>1, <3>2, StayingOK DEF up
    <3>4. Swapped(p, k)
      BY <1>2, <2>2, <3>1, <3>2, <3>3, SwapSwaps DEF up, HeapInv
    <3>5. size' = size /\ pc = "up" /\ pc' = "up" /\ at' = p
      BY <2>2, <3>1, <3>4 DEF up, Swapped
    <3> QED BY <3>1, <3>5 DEF Nearer, Stage, Distance
  <2>3. CASE down
    <3>1. PICK k \in Nat : k = at
      BY <2>1
    <3>2. Left(k) < size - 1
      BY <2>3, <3>1 DEF down, DownGoesOn
    <3>3. PICK j \in 0..(size - 2) : j = LessChild(k) /\ k < j
      BY <1>2, <3>2, LessChildIsLeast
    <3>4. k \in 0..(size - 1) /\ j \in 0..(size - 1)
      BY <2>1, <3>3
    <3>5. Swapped(k, j)
      BY <1>2, <2>3, <3>1, <3>3, <3>4, SwapSwaps DEF down, HeapInv
    <3>6. size' = size /\ pc = "down" /\ pc' = "down" /\ at' = j
      BY <2>3, <3>1, <3>3, <3>5 DEF down, Swapped
    <3>7. Distance' < Distance
      BY <2>1, <3>1, <3>3, <3>6 DEF Distance
    <3> QED BY <3>6, <3>7 DEF Nearer, Stage
  <2>4. CASE getAndRemoveExpired
    <3>1. PICK l \in 0..(size - 1) : l = size - 1 /\ 0 \in 0..(size - 1)
      BY <2>1, <2>4 DEF getAndRemoveExpired, TopIsDue
    <3>2. Swapped(0, l)
      BY <1>2, <2>4, <3>1, SwapSwaps DEF getAndRemoveExpired, HeapPop, HeapInv
    <3>3. size' = size /\ pc = "check" /\ pc' = "down"
      BY <2>4, <3>2 DEF getAndRemoveExpired, HeapPop, Swapped
    <3> QED BY <3>3 DEF Nearer, Stage
  <2>5. CASE PopReturns
    <3>1. size' = size - 1
      BY <1>2, <2>5, PoppedLast
    <3> QED BY <2>1, <3>1 DEF Nearer
  <2>6. CASE upReturns \/ downReturns
    <3>1. /\ size' = size /\ pc' \in {"up", "pop"}
          /\ pc = "up" => pc' = "pop"
          /\ pc \in {"up", "down"}
      BY <2>6 DEF upReturns, downReturns, heap, size
    <3>2. CASE pc = "up"
      BY <3>1, <3>2 DEF Nearer, Stage
    <3>3. CASE pc = "down" /\ pc' = "up"
      BY <3>1, <3>3 DEF Nearer, Stage
    <3>4. CASE pc = "down" /\ pc' = "pop"
      BY <3>1, <3>4 DEF Nearer, Stage
    <3> QED BY <3>1, <3>2, <3>3, <3>4
  <2>7. CASE expiredReturns \/ \E t \in Timers : cancel(t) \/ \E e \in Instants : insert(t, e)
    BY <2>7 DEF expiredReturns, cancel, insert
  <2>8. CASE \E t \in Instants : getExpired(t)
    BY <2>8 DEF getExpired
  <2> QED BY <2>2, <2>3, <2>4, <2>5, <2>6, <2>7, <2>8 DEF Next
<1> QED BY <1>1, <1>2, HeapInvariant, PTL DEF Spec

=============================================================================
