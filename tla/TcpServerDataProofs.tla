------------------------- MODULE TcpServerDataProofs -------------------------
(***************************************************************************)
(* Proofs about the data of the connections of TcpServer: what the kernel  *)
(* gets is what was written, in order, and the half-close of ShutdownWrite *)
(* comes after all of it.                                                  *)
(***************************************************************************)
EXTENDS TcpServerProofs

-----------------------------------------------------------------------------
(* Write does not overtake the data that is buffered.                       *)

\* Data is accepted, buffered and sent by Write, and by nothing else.
LEMMA DataSteps ==
  ASSUME CoreInv, [Next]_vars
  PROVE  UNCHANGED dataVars \/ \E c \in Conns, n \in WriteSizes : \E i : WriteConnected(c, n, i)
<1>1. ASSUME NEW c \in Conns, NEW st, NEW i, Write(c, st, i)
      PROVE  UNCHANGED dataVars \/ \E d \in Conns, n \in WriteSizes : \E j : WriteConnected(d, n, j)
  BY <1>1 DEF Write
<1>2. ASSUME NEW c \in Conns, NEW mayShut, UserCallback(c, mayShut)
      PROVE  UNCHANGED dataVars \/ \E d \in Conns, n \in WriteSizes : \E j : WriteConnected(d, n, j)
  <2>1. \/ UNCHANGED dataVars
        \/ Write(c, state[c], io)
    BY <1>2 DEF UserCallback, DoNothing, ShutdownWrite
  <2> QED BY <1>1, <2>1
<1>3. ASSUME NEW l \in Loops, NEW e \in active[l], HandleEvent(l, e)
      PROVE  UNCHANGED dataVars \/ \E d \in Conns, n \in WriteSizes : \E j : WriteConnected(d, n, j)
  <2>1. e.ch \in Conns
    BY <1>3 DEF HandleEvent
  <2>2. UNCHANGED dataVars \/ UserCallback(e.ch, TRUE)
    BY <1>3 DEF HandleEvent, handleRead, handleClose, DoNothing
  <2> QED BY <1>2, <2>1, <2>2
<1>4. ASSUME NEW l \in Loops,
             connectEstablished(l) \/ RunWrite(l) \/ RunWriteComplete(l)
      PROVE  UNCHANGED dataVars \/ \E d \in Conns, n \in WriteSizes : \E j : WriteConnected(d, n, j)
  <2>1. batch[l] # <<>> /\ Head(batch[l]).op # "listen"
    BY <1>4 DEF connectEstablished, RunWrite, RunWriteComplete, TaskIs
  <2>2. Head(batch[l]).conn \in Conns
    BY <2>1, Parts, HeadTask
  <2>3. \/ UNCHANGED dataVars
        \/ \E st, i : Write(Head(batch[l]).conn, st, i)
        \/ UserCallback(Head(batch[l]).conn, AnyShutdown)
    BY <1>4 DEF connectEstablished, RunWrite, RunWriteComplete
  <2> QED BY <1>1, <1>2, <2>2, <2>3
<1>5. ASSUME NEW l \in Loops, ConnStep(l)
      PROVE  UNCHANGED dataVars \/ \E d \in Conns, n \in WriteSizes : \E j : WriteConnected(d, n, j)
  BY <1>3, <1>4, <1>5 DEF ConnStep, shutdownWrite, connectDestroyed, CloseConn
<1>6. ASSUME NEW l \in Loops, LoopStep(l)
      PROVE  UNCHANGED dataVars \/ \E d \in Conns, n \in WriteSizes : \E j : WriteConnected(d, n, j)
  BY <1>5, <1>6 DEF LoopStep, Poll, TakePending, TasksDone, BossStep, Listen,
                    removeConnInLoop, Accept, AcceptFails
<1>7. Environment => UNCHANGED dataVars
  BY DEF Environment, Start, StartQueues, ClientConnects, connVars, AsyncWrite, ShutdownWriteCheck,
         ShutdownWriteStore, PeerSends, PeerCloses
<1>8. UNCHANGED vars => UNCHANGED dataVars
  BY DEF vars, connVars
<1> QED BY <1>6, <1>7, <1>8 DEF Next

\* The kernel gets the next k units.
LEMMA NumbersAppended ==
  ASSUME NEW g \in Seq(Nat), \A i \in DOMAIN g : g[i] = i,
         NEW n \in Nat, n = Len(g), NEW k \in Nat
  PROVE  LET h == g \o [i \in 1..k |-> n + i]
         IN  h \in Seq(Nat) /\ Len(h) = n + k /\ \A i \in DOMAIN h : h[i] = i
<1> DEFINE u == [i \in 1..k |-> n + i]
           h == g \o u
<1>1. u \in Seq(Nat) /\ Len(u) = k /\ \A i \in 1..k : u[i] = n + i
  OBVIOUS
<1> HIDE DEF u
<1>2. /\ h \in Seq(Nat) /\ Len(h) = n + k
      /\ \A i \in 1..(n + k) : h[i] = IF i <= n THEN g[i] ELSE u[i - n]
  BY <1>1, ConcatProperties
<1> HIDE DEF h
<1>3. DOMAIN h = 1..(n + k) /\ DOMAIN g = 1..n
  BY <1>2
<1>4. ASSUME NEW i \in 1..(n + k) PROVE h[i] = i
  <2>1. CASE i <= n
    BY <1>2, <1>3, <2>1
  <2>2. CASE ~(i <= n)
    <3>1. i - n \in 1..k /\ n + (i - n) = i
      BY <2>2
    <3> QED BY <1>1, <1>2, <2>2, <3>1
  <2> QED BY <2>1, <2>2
<1> QED BY <1>2, <1>3, <1>4 DEF h, u

\* What SentInOrder says of one connection, in terms of its data.
OrderOK(h, o, w, room) ==
    /\ \A k \in DOMAIN h : h[k] = k
    /\ Len(h) + o <= w
    /\ o < room => Len(h) + o = w

\* A Write on a connection that is not closed, in each of its outcomes.
LEMMA WriteConnectedData ==
  ASSUME CoreInv, SentInOrder, NEW c \in Conns, NEW n \in WriteSizes, NEW i,
         WriteConnected(c, n, i)
  PROVE  SentInOrder'
<1>0. n \in Nat \ {0} /\ DataType
  BY ConnAssumption, Parts
<1>1. /\ wrote \in [Conns -> Nat] /\ got \in [Conns -> Seq(Nat)]
      /\ out[c] \in Nat /\ capacity[c] \in Nat \ {0} /\ out[c] <= capacity[c]
  BY <1>0 DEF DataType
<1> DEFINE g == got[c]
           m == Len(g)
<1>2. /\ g \in Seq(Nat) /\ m \in Nat /\ wrote[c] \in Nat
      /\ \A k \in DOMAIN g : g[k] = k
      /\ m + out[c] <= wrote[c]
      /\ out[c] < capacity[c] => m + out[c] = wrote[c]
  BY <1>1 DEF SentInOrder
<1>3. ASSUME OrderOK(got'[c], out'[c], wrote'[c], capacity'[c]),
             \A d \in Conns \ {c} : /\ got'[d] = got[d] /\ out'[d] = out[d]
                                    /\ wrote'[d] = wrote[d] /\ capacity'[d] = capacity[d]
      PROVE  SentInOrder'
  <2>1. ASSUME NEW d \in Conns
        PROVE  /\ \A k \in DOMAIN got'[d] : got'[d][k] = k
               /\ Len(got'[d]) + out'[d] <= wrote'[d]
               /\ out'[d] < capacity'[d] => Len(got'[d]) + out'[d] = wrote'[d]
    <3>1. CASE d = c
      BY <1>3, <3>1 DEF OrderOK
    <3>2. CASE d # c
      BY <1>3, <3>2 DEF SentInOrder
    <3> QED BY <3>1, <3>2
  <2> QED BY <2>1 DEF SentInOrder
<1>4. DirectWrite(c, i) => out[c] = 0 /\ wrote[c] = m
  BY <1>1, <1>2 DEF DirectWrite
<1>5. Accepts(c, n) => /\ wrote'[c] = wrote[c] + n
                       /\ \A d \in Conns \ {c} : wrote'[d] = wrote[d]
  BY <1>1 DEF Accepts
<1>6. ASSUME NEW k \in Nat, Sends(c, k), wrote[c] = m
      PROVE  /\ Len(got'[c]) = m + k /\ \A j \in DOMAIN got'[c] : got'[c][j] = j
             /\ \A d \in Conns \ {c} : got'[d] = got[d]
  <2>1. /\ got'[c] = g \o [j \in 1..k |-> m + j]
        /\ \A d \in Conns \ {c} : got'[d] = got[d]
    BY <1>1, <1>6 DEF Sends
  <2> HIDE DEF g
  <2> QED BY <1>2, <2>1, NumbersAppended
<1> HIDE DEF m
<1>7. CASE Accepts(c, n) /\ OutboundWrite(c, n) /\ UNCHANGED got
  <2>1. /\ out'[c] \in Nat /\ capacity'[c] \in Nat \ {0}
        /\ out'[c] = out[c] + n \/ (out'[c] = capacity'[c] /\ out'[c] < out[c] + n)
        /\ \A d \in Conns \ {c} : out'[d] = out[d] /\ capacity'[d] = capacity[d]
    BY <1>0, <1>7, OutboundType
  <2>2. out'[c] < capacity'[c] => out[c] < capacity[c]
    <3>1. CASE capacity'[c] = capacity[c]
      BY <1>0, <1>1, <2>1, <3>1
    <3>2. CASE capacity'[c] # capacity[c]
      <4>1. capacity'[c] = capacity[c] + n /\ n <= capacity'[c] - out[c]
        BY <1>0, <1>1, <1>7, <3>2 DEF OutboundWrite, Grown, DataType
      <4>2. out'[c] = out[c] + n
        BY <1>0, <1>1, <2>1, <4>1
      <4> QED BY <1>0, <1>1, <4>1, <4>2
    <3> QED BY <3>1, <3>2
  <2>3. OrderOK(got'[c], out'[c], wrote'[c], capacity'[c])
    <3>1. got'[c] = g /\ Len(g) = m /\ wrote'[c] = wrote[c] + n
      BY <1>5, <1>7 DEF m
    <3>2. m + out'[c] <= wrote[c] + n
      BY <1>0, <1>1, <1>2, <2>1
    <3>3. out'[c] < capacity'[c] => m + out'[c] = wrote[c] + n
      BY <1>0, <1>1, <1>2, <2>1, <2>2
    <3> QED BY <1>2, <3>1, <3>2, <3>3 DEF OrderOK
  <2> QED BY <1>3, <1>5, <1>7, <2>1, <2>3
<1>8. CASE UNCHANGED dataVars
  BY <1>8 DEF SentInOrder, dataVars
<1>9. CASE DirectWrite(c, i) /\ Accepts(c, n) /\ Sends(c, n) /\ UNCHANGED <<out, capacity>>
  <2>1. OrderOK(got'[c], out'[c], wrote'[c], capacity'[c])
    BY <1>0, <1>1, <1>2, <1>4, <1>5, <1>6, <1>9 DEF OrderOK
  <2> QED BY <1>0, <1>3, <1>4, <1>5, <1>6, <1>9, <2>1
<1>10. ASSUME NEW k \in 1..(n - 1), DirectWrite(c, i), Sends(c, k), OutboundWrite(c, n - k),
              Accepts(c, n)
       PROVE  SentInOrder'
  <2>0. k \in Nat /\ n - k \in Nat \ {0}
    BY <1>0
  <2>1. /\ out'[c] \in Nat /\ capacity'[c] \in Nat \ {0}
        /\ out'[c] = out[c] + (n - k) \/ (out'[c] = capacity'[c] /\ out'[c] < out[c] + (n - k))
        /\ \A d \in Conns \ {c} : out'[d] = out[d] /\ capacity'[d] = capacity[d]
    BY <1>0, <1>10, <2>0, OutboundType
  <2>2. /\ Len(got'[c]) = m + k /\ \A j \in DOMAIN got'[c] : got'[c][j] = j
        /\ \A d \in Conns \ {c} : got'[d] = got[d]
    BY <1>4, <1>6, <1>10, <2>0
  <2>3. /\ (m + k) + out'[c] <= wrote[c] + n
        /\ out'[c] < capacity'[c] => (m + k) + out'[c] = wrote[c] + n
    <3>1. out[c] = 0 /\ wrote[c] = m /\ m \in Nat
      BY <1>2, <1>4, <1>10
    <3>2. \/ out'[c] = n - k
          \/ out'[c] = capacity'[c] /\ out'[c] < n - k
      BY <2>0, <2>1, <3>1
    <3> QED BY <1>0, <2>0, <2>1, <3>1, <3>2
  <2>4. OrderOK(got'[c], out'[c], wrote'[c], capacity'[c])
    BY <1>5, <1>10, <2>2, <2>3 DEF OrderOK
  <2> QED BY <1>3, <1>5, <1>10, <2>1, <2>2, <2>4
<1> QED BY <1>7, <1>8, <1>9, <1>10 DEF WriteConnected

\* Write, for any number of calls of any length with any outcomes: what the
\* peer receives is what was written, from the start and without a gap; and
\* outbound.Write, whose count Write drops, has lost something only when the
\* outbound buffer is full: up to then every unit accepted is with the kernel or
\* in the buffer.
THEOREM DataInOrder == Spec => []SentInOrder
<1>1. Init => SentInOrder
  <2>1. \A s \in {<<>>} : DOMAIN s = {} /\ Len(s) = 0
    OBVIOUS
  <2> QED BY <2>1 DEF Init, ConnInit, SentInOrder
<1>2. CoreInv /\ SentInOrder /\ [Next]_vars => SentInOrder'
  <2> SUFFICES ASSUME CoreInv, SentInOrder, [Next]_vars PROVE SentInOrder'
    OBVIOUS
  <2>1. CASE UNCHANGED dataVars
    BY <2>1 DEF SentInOrder, dataVars
  <2> QED BY <2>1, DataSteps, WriteConnectedData
<1> QED BY <1>1, <1>2, CoreInvariant, PTL DEF Spec

-----------------------------------------------------------------------------
(* The half-close comes last: the queues.                                   *)

\* A push keeps the order of two tasks, if it does not put the first behind
\* the second; and so does the taking of a task.
LEMMA BeforePushed ==
  ASSUME NEW S, NEW s \in Seq(S), NEW x \in S, NEW t, NEW u, t # u,
         Before(s, t, u), x = t => ~Has(s, u)
  PROVE  Before(Append(s, x), t, u)
<1>1. /\ DOMAIN s = 1..Len(s) /\ Len(s) \in Nat
      /\ DOMAIN Append(s, x) = 1..(Len(s) + 1)
      /\ \A i \in DOMAIN s : Append(s, x)[i] = s[i]
      /\ Append(s, x)[Len(s) + 1] = x
  BY AppendProperties
<1>2. \A i \in DOMAIN Append(s, x) : i \in DOMAIN s \/ i = Len(s) + 1
  BY <1>1
<1>3. \A i \in DOMAIN s : i < Len(s) + 1
  BY <1>1
<1> QED BY <1>1, <1>2, <1>3 DEF Before, Has

\* Order in a queue survives taking its head.
LEMMA BeforeTaken ==
  ASSUME NEW S, NEW s \in Seq(S), s # <<>>, NEW t, NEW u, Before(s, t, u)
  PROVE  /\ Before(Tail(s), t, u)
         /\ Head(s) = u => ~Has(s, t)
         /\ Has(Tail(s), t) => Has(s, t)
<1>1. /\ DOMAIN s = 1..Len(s) /\ Len(s) \in Nat \ {0}
      /\ Head(s) = s[1]
      /\ DOMAIN Tail(s) = 1..(Len(s) - 1)
      /\ \A i \in 1..(Len(s) - 1) : Tail(s)[i] = s[i + 1]
  BY HeadTailProperties
<1>2. \A i \in DOMAIN Tail(s) : i + 1 \in DOMAIN s /\ Tail(s)[i] = s[i + 1]
  BY <1>1
<1>3. Before(Tail(s), t, u)
  <2> SUFFICES ASSUME NEW i \in DOMAIN Tail(s), NEW j \in DOMAIN Tail(s),
                      Tail(s)[i] = t, Tail(s)[j] = u
               PROVE  i < j
    BY DEF Before
  <2>1. i + 1 < j + 1
    BY <1>2 DEF Before
  <2> QED BY <1>1, <2>1
<1>4. Head(s) = u => ~Has(s, t)
  <2>1. 1 \in DOMAIN s /\ \A i \in DOMAIN s : ~(i < 1)
    BY <1>1
  <2> QED BY <1>1, <2>1 DEF Before, Has
<1>5. Has(Tail(s), t) => Has(s, t)
  BY <1>2 DEF Has
<1> QED BY <1>3, <1>4, <1>5

\* The two closures whose order matters.
Fin(c)     == Task("shutdownWrite", c)
Destroy(c) == Task("connectDestroyed", c)

\* No half-close of c is pushed, and the order of the two stays.
FinTasksKept(c) ==
    \A m \in Loops : /\ Has(Todo(m)', Fin(c)) => Has(Todo(m), Fin(c))
                     /\ Before(Todo(m), Fin(c), Destroy(c)) => Before(Todo(m)', Fin(c), Destroy(c))

\* Nothing is pushed, or a task that is not the half-close of c.
NoFinPush(c) == UNCHANGED queue \/ \E k \in Loops, t \in Tasks : t # Fin(c) /\ Pushed(k, t)

\* The half-close and the destruction are two tasks.
LEMMA DifferentTasks ==
  ASSUME NEW c
  PROVE  Fin(c) # Destroy(c)
BY DEF Fin, Destroy, Task

\* Queues that other tasks pass through.
LEMMA NoFinPushed ==
  ASSUME TasksType, MayTake, NEW c \in Conns, NoFinPush(c)
  PROVE  FinTasksKept(c)
<1> SUFFICES ASSUME NEW m \in Loops
             PROVE  /\ Has(Todo(m)', Fin(c)) => Has(Todo(m), Fin(c))
                    /\ Before(Todo(m), Fin(c), Destroy(c)) => Before(Todo(m)', Fin(c), Destroy(c))
  BY DEF FinTasksKept
<1>1. CASE UNCHANGED batch /\ UNCHANGED queue
  BY <1>1 DEF Todo
<1>2. ASSUME UNCHANGED batch, NEW k \in Loops, NEW t \in Tasks, t # Fin(c), Pushed(k, t)
      PROVE  /\ Has(Todo(m)', Fin(c)) => Has(Todo(m), Fin(c))
             /\ Before(Todo(m), Fin(c), Destroy(c)) => Before(Todo(m)', Fin(c), Destroy(c))
  <2>1. Todo(m) \in Seq(Tasks) /\ Todo(m)' = IF m = k THEN Append(Todo(m), t) ELSE Todo(m)
    BY <1>2, PushTodo
  <2> QED BY <1>2, <2>1, HasAppend, BeforePushed, DifferentTasks
<1>3. ASSUME UNCHANGED queue, NEW l \in Loops, batch[l] # <<>>, TaskDone(l)
      PROVE  /\ Has(Todo(m)', Fin(c)) => Has(Todo(m), Fin(c))
             /\ Before(Todo(m), Fin(c), Destroy(c)) => Before(Todo(m)', Fin(c), Destroy(c))
  <2>1. /\ Todo(m) \in Seq(Tasks) /\ Todo(m)' = IF m = l THEN Tail(Todo(m)) ELSE Todo(m)
        /\ m = l => Todo(m) # <<>>
    BY <1>3, DoneTodo
  <2>2. m = l => (Has(Tail(Todo(m)), Fin(c)) => Has(Todo(m), Fin(c)))
    BY <2>1, HasTail
  <2> QED BY <2>1, <2>2, BeforeTaken
<1>4. ASSUME NEW k \in Loops, NEW t \in Tasks, t # Fin(c), Pushed(k, t),
             NEW l \in Loops, batch[l] # <<>>, TaskDone(l)
      PROVE  /\ Has(Todo(m)', Fin(c)) => Has(Todo(m), Fin(c))
             /\ Before(Todo(m), Fin(c), Destroy(c)) => Before(Todo(m)', Fin(c), Destroy(c))
  <2> DEFINE rest == IF m = l THEN Tail(Todo(m)) ELSE Todo(m)
  <2>1. /\ Todo(m) \in Seq(Tasks) /\ Todo(m)' = IF m = k THEN Append(rest, t) ELSE rest
        /\ m = l => Todo(m) # <<>>
    BY <1>4, DonePushTodo
  <2>2. /\ rest \in Seq(Tasks)
        /\ Has(rest, Fin(c)) => Has(Todo(m), Fin(c))
        /\ Before(Todo(m), Fin(c), Destroy(c)) => Before(rest, Fin(c), Destroy(c))
    BY <2>1, HasTail, BeforeTaken, HeadTailProperties
  <2> HIDE DEF rest
  <2> QED BY <1>4, <2>1, <2>2, HasAppend, BeforePushed, DifferentTasks
<1> QED BY <1>1, <1>2, <1>3, <1>4 DEF MayTake, NoFinPush

\* The half-close of c is pushed on a loop that has not to destroy c.
LEMMA FinPushed ==
  ASSUME TasksType, MayTake, NEW c \in Conns, NEW k \in Loops, Pushed(k, Fin(c)),
         ~Has(Todo(k), Destroy(c))
  PROVE  \A m \in Loops :
            /\ Has(Todo(m)', Fin(c)) => Has(Todo(m), Fin(c)) \/ m = k
            /\ Before(Todo(m), Fin(c), Destroy(c)) => Before(Todo(m)', Fin(c), Destroy(c))
<1> SUFFICES ASSUME NEW m \in Loops
             PROVE  /\ Has(Todo(m)', Fin(c)) => Has(Todo(m), Fin(c)) \/ m = k
                    /\ Before(Todo(m), Fin(c), Destroy(c)) => Before(Todo(m)', Fin(c), Destroy(c))
  OBVIOUS
<1>0. PICK t \in Tasks : t = Fin(c)
  BY OtherTask DEF Fin
<1>1. CASE UNCHANGED batch
  <2>1. Todo(m) \in Seq(Tasks) /\ Todo(m)' = IF m = k THEN Append(Todo(m), t) ELSE Todo(m)
    BY <1>0, <1>1, PushTodo
  <2> QED BY <1>0, <2>1, HasAppend, BeforePushed, DifferentTasks
<1>2. ASSUME NEW l \in Loops, batch[l] # <<>>, TaskDone(l)
      PROVE  /\ Has(Todo(m)', Fin(c)) => Has(Todo(m), Fin(c)) \/ m = k
             /\ Before(Todo(m), Fin(c), Destroy(c)) => Before(Todo(m)', Fin(c), Destroy(c))
  <2> DEFINE rest == IF m = l THEN Tail(Todo(m)) ELSE Todo(m)
  <2>1. /\ Todo(m) \in Seq(Tasks) /\ Todo(m)' = IF m = k THEN Append(rest, t) ELSE rest
        /\ m = l => Todo(m) # <<>>
    BY <1>0, <1>2, DonePushTodo
  <2>2. m = l => \A u : Has(Tail(Todo(m)), u) => Has(Todo(m), u)
    BY <2>1, HasTail
  <2>3. /\ rest \in Seq(Tasks)
        /\ \A u : Has(rest, u) => Has(Todo(m), u)
        /\ Before(Todo(m), Fin(c), Destroy(c)) => Before(rest, Fin(c), Destroy(c))
    BY <2>1, <2>2, BeforeTaken, HeadTailProperties
  <2> HIDE DEF rest
  <2> QED BY <1>0, <2>1, <2>3, HasAppend, BeforePushed, DifferentTasks
<1> QED BY <1>1, <1>2 DEF MayTake

-----------------------------------------------------------------------------
(* The half-close comes last: the connections.                              *)

\* The part of FinOK that is not about tasks.
FinCore(cl, st, x, ev, o, sh) ==
    /\ cl = "idle"
    /\ st \in {"none", "Connecting"} => o = 0
    /\ st = "Disconnecting" => x # "new"
    /\ EventRead \in ev /\ o > 0 => EventWrite \in ev
    /\ sh => st \in {"Disconnecting", "Disconnected"} /\ (EventRead \in ev => o = 0)

\* FinOK, in terms of its parts.
LEMMA FinFrom ==
  ASSUME NEW c \in Conns, FinOK(c)
  PROVE  /\ FinCore(caller[c], state[c], io.chan[c].index, io.chan[c].events, out[c], shutWr[c])
         /\ \A m \in Loops : Has(Todo(m), Fin(c)) => m = loopOf[c] /\ state[c] = "Disconnecting"
         /\ Before(Todo(loopOf[c]), Fin(c), Destroy(c))
BY DEF FinOK, FinCore, Fin, Destroy, isWriting

\* FinOK after a step, from its parts.
LEMMA FinTo ==
  ASSUME NEW c \in Conns, NEW k \in Loops, k = loopOf'[c],
         FinCore(caller'[c], state'[c], io'.chan[c].index, io'.chan[c].events, out'[c], shutWr'[c]),
         \A m \in Loops : Has(Todo(m)', Fin(c)) => m = k /\ state'[c] = "Disconnecting",
         Before(Todo(k)', Fin(c), Destroy(c))
  PROVE  FinOK(c)'
<1>1. /\ \A m \in Loops : Has(Todo(m), Fin(c))' => m = loopOf'[c] /\ state'[c] = "Disconnecting"
      /\ Before(Todo(loopOf[c]), Fin(c), Destroy(c))'
  BY DEF Has, Before, Todo, Fin, Destroy, Task
<1>2. /\ caller'[c] = "idle"
      /\ state'[c] \in {"none", "Connecting"} => out'[c] = 0
      /\ state'[c] = "Disconnecting" => io'.chan[c].index # "new"
      /\ EventRead \in io'.chan[c].events /\ out'[c] > 0 => EventWrite \in io'.chan[c].events
      /\ shutWr'[c] => /\ state'[c] \in {"Disconnecting", "Disconnected"}
                       /\ EventRead \in io'.chan[c].events => out'[c] = 0
  BY DEF FinCore
<1> QED BY <1>1, <1>2 DEF FinOK, Fin, Destroy, isWriting

\* What FinOK(c) is about is as before.
SameFin(c) ==
    /\ caller'[c] = caller[c] /\ state'[c] = state[c] /\ loopOf'[c] = loopOf[c]
    /\ io'.chan[c] = io.chan[c] /\ out'[c] = out[c] /\ shutWr'[c] = shutWr[c]

\* A connection that a step does not touch keeps FinOK.
LEMMA FinFrame ==
  ASSUME NEW c \in Conns, FinOK(c), loopOf[c] \in Loops, SameFin(c), FinTasksKept(c)
  PROVE  FinOK(c)'
<1>1. PICK k \in Loops : k = loopOf[c]
  OBVIOUS
<1>2. /\ FinCore(caller[c], state[c], io.chan[c].index, io.chan[c].events, out[c], shutWr[c])
      /\ \A m \in Loops : Has(Todo(m), Fin(c)) => m = k /\ state[c] = "Disconnecting"
      /\ Before(Todo(k), Fin(c), Destroy(c))
  BY <1>1, FinFrom
<1>3. FinCore(caller'[c], state'[c], io'.chan[c].index, io'.chan[c].events, out'[c], shutWr'[c])
  BY <1>2 DEF SameFin
<1>4. /\ \A m \in Loops : Has(Todo(m)', Fin(c)) => m = k /\ state'[c] = "Disconnecting"
      /\ Before(Todo(k)', Fin(c), Destroy(c))
  BY <1>2 DEF SameFin, FinTasksKept
<1> QED BY <1>1, <1>3, <1>4, FinTo DEF SameFin

\* Write on a connection that is registered: the data that does not go to the
\* kernel is buffered, and then the channel listens for writing.
WriteFinEffect(c, i, j) ==
    /\ \A d \in Conns \ {c} : j.chan[d] = i.chan[d] /\ out'[d] = out[d]
    /\ j.chan[c].index = "new" <=> i.chan[c].index = "new"
    /\ EventRead \in j.chan[c].events <=> EventRead \in i.chan[c].events
    /\ \/ out'[c] = out[c] /\ j.chan[c] = i.chan[c]
       \/ EventWrite \in j.chan[c].events

\* Data is buffered: the channel listens for writing then.
LEMMA BufferedFin ==
  ASSUME OwnersType, NEW i \in IoType, PollerOK(i), AcceptorOK(i),
         NEW c \in Conns, file[fdOf[c]] = c, fdOf[c] # 0,
         i.chan[c].index # "new", Buffered(c, i)
  PROVE  /\ \A d \in Conns \ {c} : io'.chan[d] = i.chan[d]
         /\ EventWrite \in io'.chan[c].events
<1>1. CASE isWriting(i, c)
  BY <1>1 DEF Buffered, isWriting
<1>2. CASE ~isWriting(i, c)
  <2> DEFINE ev == i.chan[c].events \cup {EventWrite}
  <2>1. io' = setEvents(i, loopOf[c], fdOf[c], c, ev)
    BY <1>2 DEF Buffered, enableWriting
  <2>2. ev \in SUBSET {EventRead, EventWrite} /\ ev # {} /\ EventWrite \in ev
    BY Numbers DEF IoType
  <2> HIDE DEF ev
  <2>3. PollerBecomes(i, io', c, ev, "add")
    BY <2>1, <2>2, WatchKeepsPoller
  <2>4. \A d \in Conns : io'.chan[d] = IF d = c THEN [events |-> ev, index |-> "add"]
                                       ELSE i.chan[d]
    BY <2>3, Numbers DEF PollerBecomes, IoType
  <2> QED BY <2>2, <2>4
<1> QED BY <1>1, <1>2

\* What a Write does to the fields FinOK is about.
LEMMA WriteFin ==
  ASSUME OwnersType, TasksType, DataType, NEW i \in IoType, PollerOK(i), AcceptorOK(i),
         NEW c \in Conns, file[fdOf[c]] = c, fdOf[c] # 0, i.chan[c].index # "new",
         NEW n \in WriteSizes, WriteConnected(c, n, i)
  PROVE  WriteFinEffect(c, i, io') /\ \A d \in Conns : NoFinPush(d)
<1>1. KeepsChannels(i, io')
  <2>1. PICK st : st = "Connected"
    OBVIOUS
  <2>2. Write(c, st, i)
    BY <2>1 DEF Write
  <2> QED BY <2>2, WriteEffect
<1>2. n \in Nat \ {0} /\ \A k \in 1..(n - 1) : n - k \in Nat \ {0}
  BY ConnAssumption
<1>3. /\ \A d \in Conns \ {c} : io'.chan[d] = i.chan[d] /\ out'[d] = out[d]
      /\ \/ out'[c] = out[c] /\ io'.chan[c] = i.chan[c]
         \/ EventWrite \in io'.chan[c].events
  <2>1. CASE OutboundWrite(c, n) /\ Buffered(c, i)
    BY <1>2, <2>1, OutboundType, BufferedFin
  <2>2. ASSUME NEW k \in 1..(n - 1), OutboundWrite(c, n - k), Buffered(c, i)
        PROVE  (\A d \in Conns \ {c} : io'.chan[d] = i.chan[d] /\ out'[d] = out[d])
               /\ EventWrite \in io'.chan[c].events
    BY <1>2, <2>2, OutboundType, BufferedFin
  <2>3. CASE io' = i /\ UNCHANGED out
    BY <2>3
  <2>4. CASE io' = Assert(i, FALSE) /\ UNCHANGED out
    <3>1. io'.chan = i.chan
      BY <2>4 DEF Assert, IoType
    <3> QED BY <2>4, <3>1
  <2> QED BY <2>1, <2>2, <2>3, <2>4 DEF WriteConnected, dataVars
<1>4. ASSUME NEW d \in Conns PROVE NoFinPush(d)
  <2>1. UNCHANGED queue \/ Pushed(loopOf[c], Task("onWriteComplete", c))
    BY DEF WriteConnected, Pushed
  <2>2. /\ Task("onWriteComplete", c) \in Tasks /\ loopOf[c] \in Loops
        /\ Task("onWriteComplete", c) # Fin(d)
    BY OtherTask DEF OwnersType, Fin, Task
  <2> QED BY <2>1, <2>2 DEF NoFinPush
<1> QED BY <1>1, <1>3, <1>4 DEF WriteFinEffect, KeepsChannels

\* Steps that touch no connection.
LEMMA FinQuiet ==
  ASSUME CoreInv, FinInv,
         UNCHANGED <<caller, state, loopOf, out, shutWr>>,
         \A c \in Conns : io'.chan[c] = io.chan[c],
         \A c \in Conns : FinTasksKept(c)
  PROVE  FinInv'
<1>1. ASSUME NEW c \in Conns PROVE FinOK(c)'
  <2>1. FinOK(c) /\ loopOf[c] \in Loops
    BY Parts DEF FinInv
  <2>2. SameFin(c)
    BY DEF SameFin
  <2> QED BY <2>1, <2>2, FinFrame
<1> QED BY <1>1 DEF FinInv

\* Steps of one connection.
LEMMA FinStep ==
  ASSUME CoreInv, FinInv, NEW c \in Conns, FinOK(c)',
         \A d \in Conns \ {c} : SameFin(d) /\ FinTasksKept(d)
  PROVE  FinInv'
<1>1. ASSUME NEW d \in Conns \ {c} PROVE FinOK(d)'
  <2>1. FinOK(d) /\ loopOf[d] \in Loops /\ SameFin(d) /\ FinTasksKept(d)
    BY Parts DEF FinInv
  <2> QED BY <2>1, FinFrame
<1> QED BY <1>1 DEF FinInv

\* The steps of FinQuiet, from what they push.
LEMMA FinOther ==
  ASSUME CoreInv, FinInv, MayTake,
         UNCHANGED <<caller, state, loopOf, out, shutWr>>,
         \A c \in Conns : io'.chan[c] = io.chan[c],
         \/ UNCHANGED queue
         \/ \E k \in Loops, t \in Tasks : t.op # "shutdownWrite" /\ Pushed(k, t)
  PROVE  FinInv'
<1>1. ASSUME NEW c \in Conns PROVE FinTasksKept(c)
  <2>1. NoFinPush(c)
    BY DEF NoFinPush, Fin, Task
  <2> QED BY <2>1, Parts, NoFinPushed
<1> QED BY <1>1, FinQuiet

\* The steps of users and peers.
LEMMA EnvironmentFin ==
  ASSUME CoreInv, FinInv, AnyShutdown = FALSE, Environment
  PROVE  FinInv'
<1>1. CASE StartQueues
  <2>1. UNCHANGED <<caller, state, loopOf, out, shutWr, io, batch>>
    BY <1>1 DEF StartQueues, idVars, dataVars
  <2>2. Task("listen", 0) \in Tasks /\ Task("listen", 0).op # "shutdownWrite" /\ Boss \in Loops
    BY Numbers DEF Task, Tasks, Ops
  <2>3. Pushed(Boss, Task("listen", 0))
    BY <1>1 DEF StartQueues, Pushed
  <2> QED BY <2>1, <2>2, <2>3, FinOther DEF MayTake
<1>2. CASE Start \/ ClientConnects
  BY <1>2, FinOther DEF Start, ClientConnects, connVars, taskVars, idVars, dataVars, MayTake
<1>3. ASSUME NEW c \in Conns, AsyncWrite(c) PROVE FinInv'
  <2>1. UNCHANGED <<caller, state, loopOf, out, shutWr, io, batch>>
    BY <1>3 DEF AsyncWrite, idVars, dataVars
  <2>2. /\ Task("write", c) \in Tasks /\ Task("write", c).op # "shutdownWrite"
        /\ loopOf[c] \in Loops
    BY OtherTask, Parts DEF Task
  <2>3. Pushed(loopOf[c], Task("write", c))
    BY <1>3 DEF AsyncWrite, Pushed
  <2> QED BY <2>1, <2>2, <2>3, FinOther DEF MayTake
<1>4. ASSUME NEW c \in Conns, ShutdownWriteCheck(c) \/ ShutdownWriteStore(c) PROVE FALSE
  BY <1>4 DEF ShutdownWriteCheck, ShutdownWriteStore, FinInv, FinOK
<1>5. ASSUME NEW c \in Conns, PeerSends(c) \/ PeerCloses(c) PROVE FinInv'
  <2>1. UNCHANGED <<caller, state, loopOf, out, shutWr, io, batch, queue>>
    BY <1>5 DEF PeerSends, PeerCloses, idVars, dataVars, taskVars
  <2> QED BY <2>1, FinOther DEF MayTake
<1> QED BY <1>1, <1>2, <1>3, <1>4, <1>5 DEF Environment

\* The rounds of a loop.
LEMMA RoundFin ==
  ASSUME CoreInv, FinInv, NEW l \in Loops, Poll(l) \/ TakePending(l) \/ TasksDone(l)
  PROVE  FinInv'
<1>1. UNCHANGED <<caller, state, loopOf, out, shutWr, io>>
  BY DEF Poll, TakePending, TasksDone, idVars, dataVars
<1>2. \A m \in Loops : Todo(m)' = Todo(m)
  <2>1. CASE UNCHANGED taskVars
    BY <2>1 DEF taskVars, Todo
  <2> QED BY <2>1, TakePendingTodo DEF Poll, TasksDone
<1>3. \A c \in Conns : FinTasksKept(c)
  BY <1>2 DEF FinTasksKept
<1> QED BY <1>1, <1>3, FinQuiet

\* acceptor.listen, acceptor.handleRead when accept fails, and the boss's part
\* in the closing of a connection.
LEMMA BossFin ==
  ASSUME CoreInv, FinInv,
         Listen \/ removeConnInLoop \/ \E e \in active[Boss] : AcceptFails(e)
  PROVE  FinInv'
<1>0. Boss \in Loops
  BY Numbers
<1>1. CASE Listen
  <2>1. UNCHANGED <<caller, state, loopOf, out, shutWr, queue>> /\ MayTake
    BY <1>0, <1>1 DEF Listen, idVars, dataVars, TaskIs, MayTake
  <2>2. \A c \in Conns : io'.chan[c] = io.chan[c]
    <3>1. CASE file[0] = 0
      BY <1>1, <3>1, Parts, ListenEffect DEF Listen
    <3>2. CASE file[0] # 0
      BY <1>1, <3>2, Parts DEF Listen, Assert, IoType
    <3> QED BY <3>1, <3>2
  <2> QED BY <2>1, <2>2, FinOther
<1>2. CASE removeConnInLoop
  <2>1. TaskIs(Boss, "removeConn") /\ TaskDone(Boss)
    BY <1>2 DEF removeConnInLoop
  <2>2. PICK c \in Conns : c = Head(batch[Boss]).conn
    BY <1>0, <2>1, Parts, HeadTask DEF TaskIs
  <2>3. /\ UNCHANGED <<caller, state, loopOf, out, shutWr, io>> /\ MayTake
        /\ Pushed(loopOf[c], Task("connectDestroyed", c))
    BY <1>0, <1>2, <2>1, <2>2 DEF removeConnInLoop, idVars, dataVars, TaskIs, MayTake, Pushed
  <2>4. /\ Task("connectDestroyed", c) \in Tasks /\ loopOf[c] \in Loops
        /\ Task("connectDestroyed", c).op # "shutdownWrite"
    BY KeyTask, Parts DEF KeyOps
  <2> QED BY <2>3, <2>4, FinOther
<1>3. ASSUME NEW e \in active[Boss], AcceptFails(e) PROVE FinInv'
  <2>1. UNCHANGED <<caller, state, loopOf, out, shutWr, queue, batch>>
    BY <1>3 DEF AcceptFails, taskVars, idVars, dataVars
  <2>2. io'.chan = io.chan
    BY <1>3, Parts DEF AcceptFails, closed, IoType
  <2> QED BY <2>1, <2>2, FinOther DEF MayTake
<1> QED BY <1>1, <1>2, <1>3

\* acceptor.handleRead, when accept succeeds.
LEMMA AcceptFin ==
  ASSUME CoreInv, FinInv, NEW e \in active[Boss], Accept(e)
  PROVE  FinInv'
<1>1. PICK f \in Fds : newConn(f)
  BY DEF Accept
<1>2. UNCHANGED <<batch, io, out, shutWr, caller>>
  BY DEF Accept, dataVars
<1>3. PICK c \in Conns : c = nextConnId
  <2>1. e.ch = 0 /\ LoopOK(Boss)
    BY Numbers, Parts DEF Accept
  <2>2. nextConnId \in Nat \ {0} /\ clients \in 0..MaxConns /\ backlog \in Nat
        /\ nextConnId + backlog <= clients + 1 /\ backlog > 0
    BY <2>1, ConnAssumption DEF CoreInv, TypeOK, FilesOK, LoopOK
  <2> QED BY <2>2, ConnAssumption DEF Conns
<1>4. PICK k \in Loops : k = NextLoop
  BY NextLoopType
<1>5. /\ loopOf' = [loopOf EXCEPT ![c] = k]
      /\ state' = [state EXCEPT ![c] = "Connecting"]
      /\ Pushed(k, Task("connectEstablished", c))
  BY <1>1, <1>3, <1>4 DEF newConn, Pushed
<1>6. state[c] = "none" /\ ConnOK(c) /\ loopOf[c] \in Loops /\ FinOK(c)
  BY <1>3, Parts DEF FilesOK, FinInv, Conns
<1>7. /\ state'[c] = "Connecting" /\ loopOf'[c] = k
      /\ \A d \in Conns \ {c} : state'[d] = state[d] /\ loopOf'[d] = loopOf[d]
  BY <1>5, Parts, OtherTypes DEF OwnersType
<1>8. ASSUME NEW d \in Conns PROVE FinTasksKept(d)
  <2>1. Task("connectEstablished", c) \in Tasks /\ Task("connectEstablished", c) # Fin(d)
    BY KeyTask DEF KeyOps, Fin, Task
  <2>2. NoFinPush(d) /\ MayTake
    BY <1>2, <1>5, <2>1 DEF NoFinPush, MayTake
  <2> QED BY <2>2, Parts, NoFinPushed
<1>9. FinOK(c)'
  <2>1. /\ FinCore(caller[c], state[c], io.chan[c].index, io.chan[c].events, out[c], shutWr[c])
        /\ \A m \in Loops : ~Has(Todo(m), Fin(c))
    BY <1>6, FinFrom
  <2>2. FinCore(caller'[c], state'[c], io'.chan[c].index, io'.chan[c].events, out'[c], shutWr'[c])
    BY <1>2, <1>6, <1>7, <2>1 DEF FinCore
  <2>3. \A m \in Loops : ~Has(Todo(m)', Fin(c))
    BY <1>8, <2>1 DEF FinTasksKept
  <2>4. Before(Todo(k)', Fin(c), Destroy(c))
    BY <2>3 DEF Before, Has
  <2> QED BY <1>7, <2>2, <2>3, <2>4, FinTo
<1>10. \A d \in Conns \ {c} : SameFin(d) /\ FinTasksKept(d)
  BY <1>2, <1>7, <1>8 DEF SameFin
<1> QED BY <1>9, <1>10, FinStep

\* Write, on a connection that is Connected afterwards, with the pollers at i.
LEMMA WriteKeepsFin ==
  ASSUME CoreInv, FinInv, NEW c \in Conns, NEW i \in IoType, PollerOK(i), AcceptorOK(i),
         file[fdOf[c]] = c, fdOf[c] # 0, i.chan[c].index # "new",
         NEW n \in WriteSizes, WriteConnected(c, n, i), MayTake,
         state[c] \in {"Connecting", "Connected"}, state'[c] = "Connected",
         out[c] = 0 \/ i.chan[c] = io.chan[c],
         \A d \in Conns \ {c} : state'[d] = state[d] /\ i.chan[d] = io.chan[d],
         UNCHANGED <<caller, loopOf, shutWr>>
  PROVE  FinInv'
<1>1. WriteFinEffect(c, i, io') /\ \A d \in Conns : NoFinPush(d)
  BY Parts, WriteFin
<1>2. \A d \in Conns : FinTasksKept(d)
  BY <1>1, Parts, NoFinPushed
<1>3. \A d \in Conns \ {c} : SameFin(d)
  BY <1>1 DEF WriteFinEffect, SameFin
<1>4. PICK k \in Loops : k = loopOf[c]
  BY Parts
<1>5. /\ FinCore(caller[c], state[c], io.chan[c].index, io.chan[c].events, out[c], shutWr[c])
      /\ \A m \in Loops : ~Has(Todo(m), Fin(c))
  BY FinFrom DEF FinInv
<1>6. FinCore(caller'[c], state'[c], io'.chan[c].index, io'.chan[c].events, out'[c], shutWr'[c])
  <2>1. EventRead \in io'.chan[c].events /\ out'[c] > 0 => EventWrite \in io'.chan[c].events
    <3>1. CASE EventWrite \in io'.chan[c].events
      BY <3>1
    <3>2. CASE out'[c] = out[c] /\ io'.chan[c] = i.chan[c]
      BY <1>5, <3>2 DEF FinCore
    <3> QED BY <1>1, <3>1, <3>2 DEF WriteFinEffect
  <2> QED BY <1>5, <2>1 DEF FinCore
<1>7. /\ \A m \in Loops : ~Has(Todo(m)', Fin(c))
      /\ Before(Todo(k)', Fin(c), Destroy(c))
  BY <1>2, <1>5 DEF FinTasksKept, Before, Has
<1>8. FinOK(c)'
  BY <1>4, <1>6, <1>7, FinTo
<1> QED BY <1>2, <1>3, <1>8, FinStep

\* The half-close is asked for, on a connection that is open.
LEMMA ShutdownKeepsFin ==
  ASSUME CoreInv, FinInv, NEW c \in Conns, NEW k \in Loops, k = loopOf[c],
         Pushed(k, Fin(c)), MayTake, ~Has(Todo(k), Destroy(c)),
         state[c] \in {"Connecting", "Connected"}, state'[c] = "Disconnecting",
         io'.chan[c].index # "new",
         out[c] = 0 \/ io'.chan[c] = io.chan[c],
         \A d \in Conns \ {c} : state'[d] = state[d] /\ io'.chan[d] = io.chan[d],
         UNCHANGED <<caller, loopOf, out, shutWr>>
  PROVE  FinInv'
<1>1. ASSUME NEW d \in Conns \ {c} PROVE SameFin(d) /\ FinTasksKept(d)
  <2>1. NoFinPush(d)
    <3>1. Fin(c) # Fin(d) /\ Fin(c) \in Tasks
      BY OtherTask DEF Fin, Task
    <3> QED BY <3>1 DEF NoFinPush
  <2>2. FinTasksKept(d)
    BY <2>1, Parts, NoFinPushed
  <2> QED BY <2>2 DEF SameFin
<1>2. /\ FinCore(caller[c], state[c], io.chan[c].index, io.chan[c].events, out[c], shutWr[c])
      /\ \A m \in Loops : ~Has(Todo(m), Fin(c))
  BY FinFrom DEF FinInv
<1>3. FinCore(caller'[c], state'[c], io'.chan[c].index, io'.chan[c].events, out'[c], shutWr'[c])
  BY <1>2 DEF FinCore
<1>4. \A m \in Loops :
         /\ Has(Todo(m)', Fin(c)) => Has(Todo(m), Fin(c)) \/ m = k
         /\ Before(Todo(m), Fin(c), Destroy(c)) => Before(Todo(m)', Fin(c), Destroy(c))
  BY Parts, FinPushed
<1>5. Before(Todo(k), Fin(c), Destroy(c))
  BY <1>2 DEF Before, Has
<1>6. FinOK(c)'
  BY <1>2, <1>3, <1>4, <1>5, FinTo
<1> QED BY <1>1, <1>6, FinStep

\* A connection that listens for reading, or has still to be established, is
\* not about to be destroyed.
LEMMA NotDestroyed ==
  ASSUME CoreInv, NEW c \in Conns,
         state[c] = "Connecting" \/ EventRead \in io.chan[c].events
  PROVE  ~Has(Todo(loopOf[c]), Destroy(c))
<1>1. PhaseOK(c) /\ ChannelOK(io, c)
  BY Parts DEF ConnOK, PollerOK
<1>2. EventRead \in io.chan[c].events => io.chan[c].index # "new"
  BY <1>1 DEF ChannelOK
<1> QED BY <1>1, <1>2 DEF PhaseOK, Phase, Destroy

\* A callback of the user.
LEMMA CallbackFin ==
  ASSUME CoreInv, FinInv, NEW c \in Conns, NEW mayShut, UserCallback(c, mayShut), MayTake,
         mayShut => EventRead \in io.chan[c].events,
         UNCHANGED <<caller, loopOf, shutWr>>
  PROVE  FinInv'
<1>1. CASE DoNothing(io) \/ (state[c] # "Connected" /\ Write(c, state[c], io) /\ UNCHANGED state)
  <2>1. io' = io /\ UNCHANGED <<queue, state, out>>
    BY <1>1 DEF DoNothing, Write, dataVars
  <2> QED BY <2>1, FinOther
<1>2. CASE state[c] = "Connected" /\ Write(c, state[c], io) /\ UNCHANGED state
  <2>1. PICK n \in WriteSizes : WriteConnected(c, n, io)
    BY <1>2 DEF Write
  <2>2. file[fdOf[c]] = c /\ fdOf[c] # 0 /\ io.chan[c].index # "new"
    BY <1>2, Owns DEF ConnectedOwns
  <2>3. io \in IoType /\ PollerOK(io) /\ AcceptorOK(io)
    BY Parts
  <2> QED BY <1>2, <2>1, <2>2, <2>3, WriteKeepsFin
<1>3. CASE mayShut /\ ShutdownWrite(c)
  <2>1. /\ state[c] = "Connected" /\ state' = [state EXCEPT ![c] = "Disconnecting"]
        /\ Pushed(loopOf[c], Fin(c)) /\ io' = io /\ UNCHANGED out
    BY <1>3 DEF ShutdownWrite, Pushed, Fin, dataVars
  <2>2. state'[c] = "Disconnecting" /\ \A d \in Conns \ {c} : state'[d] = state[d]
    BY <2>1, OtherTypes
  <2>3. io.chan[c].index # "new"
    BY <2>1, Owns DEF ConnectedOwns
  <2>4. PICK k \in Loops : k = loopOf[c]
    BY Parts
  <2>5. ~Has(Todo(k), Destroy(c))
    BY <1>3, <2>4, NotDestroyed
  <2> QED BY <2>1, <2>2, <2>3, <2>4, <2>5, ShutdownKeepsFin
<1> QED BY <1>1, <1>2, <1>3 DEF UserCallback

\* handleClose: the channel stops to listen.
LEMMA handleCloseFin ==
  ASSUME CoreInv, FinInv, NEW c \in Conns, handleClose(c), EventRead \in io.chan[c].events,
         UNCHANGED <<batch, caller, loopOf, shutWr>>
  PROVE  FinInv'
<1>1. /\ io' = disableAll(io, loopOf[c], fdOf[c], c) /\ Pushed(Boss, Task("removeConn", c))
      /\ Boss \in Loops /\ UNCHANGED <<state, out>>
  BY Numbers DEF handleClose, Pushed, dataVars
<1>2. io.chan[c].index = "add" /\ PhaseOK(c) /\ FinOK(c) /\ loopOf[c] \in Loops
  BY Parts DEF PollerOK, ChannelOK, ConnOK, FinInv
<1>3. file[fdOf[c]] = c /\ fdOf[c] # 0
  BY <1>2, Owns DEF PhaseOK, Phase
<1>4. PollerBecomes(io, io', c, {}, "del")
  BY <1>1, <1>2, <1>3, Parts, DisableKeepsPoller
<1>5. \A d \in Conns : io'.chan[d] = IF d = c THEN [events |-> {}, index |-> "del"] ELSE io.chan[d]
  BY <1>4, Parts, Numbers DEF PollerBecomes, IoType
<1>6. ASSUME NEW d \in Conns PROVE FinTasksKept(d)
  <2>1. Task("removeConn", c) \in Tasks /\ Task("removeConn", c) # Fin(d)
    BY KeyTask DEF KeyOps, Fin, Task
  <2>2. NoFinPush(d) /\ MayTake
    BY <1>1, <2>1 DEF NoFinPush, MayTake
  <2> QED BY <2>2, Parts, NoFinPushed
<1>7. \A d \in Conns \ {c} : SameFin(d)
  BY <1>1, <1>5 DEF SameFin
<1>8. FinOK(c)'
  <2>1. PICK k \in Loops : k = loopOf[c]
    BY <1>2
  <2>2. /\ FinCore(caller[c], state[c], io.chan[c].index, io.chan[c].events, out[c], shutWr[c])
        /\ \A m \in Loops : Has(Todo(m), Fin(c)) => m = k /\ state[c] = "Disconnecting"
        /\ Before(Todo(k), Fin(c), Destroy(c))
    BY <1>2, <2>1, FinFrom
  <2>3. io'.chan[c].events = {} /\ io'.chan[c].index = "del"
    BY <1>5
  <2>4. FinCore(caller'[c], state'[c], io'.chan[c].index, io'.chan[c].events, out'[c], shutWr'[c])
    BY <1>1, <2>2, <2>3 DEF FinCore
  <2>5. /\ \A m \in Loops : Has(Todo(m)', Fin(c)) => m = k /\ state'[c] = "Disconnecting"
        /\ Before(Todo(k)', Fin(c), Destroy(c))
    BY <1>1, <1>6, <2>2 DEF FinTasksKept
  <2> QED BY <2>1, <2>4, <2>5, FinTo
<1> QED BY <1>6, <1>7, <1>8, FinStep

\* An event of a connection.
LEMMA HandleEventFin ==
  ASSUME CoreInv, FinInv, NEW l \in Loops, NEW e \in active[l], HandleEvent(l, e)
  PROVE  FinInv'
<1>1. PICK c \in Conns : c = e.ch
  BY DEF HandleEvent
<1>2. UNCHANGED <<batch, caller, loopOf, shutWr>> /\ MayTake
  BY DEF HandleEvent, idVars, MayTake
<1>3. ASSUME DoNothing(io) PROVE FinInv'
  <2>1. UserCallback(c, FALSE)
    BY <1>3 DEF UserCallback
  <2> QED BY <1>2, <2>1, CallbackFin
<1>4. EventRead \in e.revents => EventRead \in io.chan[c].events
  BY <1>1, Parts DEF LoopOK
<1> QED BY <1>1, <1>2, <1>3, <1>4, CallbackFin, handleCloseFin DEF HandleEvent, handleRead

\* connectEstablished, with what onConn does.
LEMMA connectEstablishedFin ==
  ASSUME CoreInv, FinInv, NEW l \in Loops, connectEstablished(l)
  PROVE  FinInv'
<1>1. TaskIs(l, "connectEstablished") /\ TaskDone(l) /\ batch[l] # <<>>
  BY DEF connectEstablished, TaskIs
<1>2. PICK c \in Conns : c = Head(batch[l]).conn /\ Head(batch[l]) = Task("connectEstablished", c)
  BY <1>1, Parts, HeadTask DEF TaskIs
<1>3. UNCHANGED <<loopOf, shutWr, caller>> /\ MayTake
  BY <1>1 DEF connectEstablished, idVars, MayTake
<1>4. /\ Pending(l, "connectEstablished", c) /\ ConnOK(c) /\ loopOf[c] \in Loops
  BY <1>1, <1>2, HeadPending, Parts
<1>5. loopOf[c] = l /\ state[c] = "Connecting" /\ file[fdOf[c]] = c /\ fdOf[c] # 0
  <2>1. loopOf[c] = l
    BY <1>4, PhaseOf
  <2>2. state[c] = "Connecting" /\ file[fdOf[c]] = c
    BY <1>4, <2>1, PhaseOf DEF Phase
  <2> QED BY <2>1, <2>2, Owns
<1>6. Assert(io, state[c] = "Connecting") = io
  BY <1>5, Parts DEF Assert, IoType
<1>7. PICK i : i = enableReading(io, loopOf[c], fdOf[c], c)
  OBVIOUS
<1>8. /\ i \in IoType /\ PollerOK(i) /\ AcceptorOK(i) /\ i.chan[c].index # "new"
  BY <1>5, <1>7, EstablishedEffect
<1>9. \A d \in Conns \ {c} : i.chan[d] = io.chan[d]
  <2> DEFINE ev == io.chan[c].events \cup {EventRead}
  <2>1. i = setEvents(io, loopOf[c], fdOf[c], c, ev)
    BY <1>7 DEF enableReading
  <2>2. ev \in SUBSET {EventRead, EventWrite} /\ ev # {}
    BY Numbers, Parts DEF IoType
  <2> HIDE DEF ev
  <2>3. PollerBecomes(io, i, c, ev, "add")
    BY <1>5, <2>1, <2>2, Parts, WatchKeepsPoller
  <2> QED BY <2>3, Numbers, Parts DEF PollerBecomes, IoType
<1>10. out[c] = 0 /\ \A m \in Loops : ~Has(Todo(m), Fin(c))
  BY <1>5, FinFrom DEF FinInv, FinCore
<1>11. \/ /\ io' = i /\ state' = [state EXCEPT ![c] = "Connected"]
          /\ UNCHANGED <<queue, dataVars>>
       \/ /\ Write(c, "Connected", i)
          /\ state' = [state EXCEPT ![c] = "Connected"]
       \/ /\ io' = i /\ state' = [state EXCEPT ![c] = "Disconnecting"]
          /\ Pushed(l, Fin(c)) /\ UNCHANGED dataVars
  BY <1>2, <1>5, <1>6, <1>7 DEF connectEstablished, Pushed, Fin
<1>12. CASE io' = i /\ state' = [state EXCEPT ![c] = "Connected"] /\ UNCHANGED <<queue, dataVars>>
  <2>1. state'[c] = "Connected" /\ \A d \in Conns \ {c} : state'[d] = state[d]
    BY <1>12, OtherTypes
  <2>2. ASSUME NEW d \in Conns PROVE FinTasksKept(d)
    <3>1. NoFinPush(d)
      BY <1>12 DEF NoFinPush
    <3> QED BY <1>3, <3>1, Parts, NoFinPushed
  <2>3. \A d \in Conns \ {c} : SameFin(d)
    BY <1>3, <1>9, <1>12, <2>1 DEF SameFin, dataVars
  <2>4. FinOK(c)'
    <3>1. FinCore(caller[c], state[c], io.chan[c].index, io.chan[c].events, out[c], shutWr[c])
      BY FinFrom DEF FinInv
    <3>2. FinCore(caller'[c], state'[c], io'.chan[c].index, io'.chan[c].events, out'[c], shutWr'[c])
      BY <1>3, <1>5, <1>10, <1>12, <2>1, <3>1 DEF FinCore, dataVars
    <3>3. (\A m \in Loops : ~Has(Todo(m)', Fin(c))) /\ Before(Todo(l)', Fin(c), Destroy(c))
      BY <1>10, <2>2 DEF FinTasksKept, Before, Has
    <3> QED BY <1>3, <1>5, <3>2, <3>3, FinTo
  <2> QED BY <2>2, <2>3, <2>4, FinStep
<1>13. CASE Write(c, "Connected", i) /\ state' = [state EXCEPT ![c] = "Connected"]
  <2>1. state'[c] = "Connected" /\ \A d \in Conns \ {c} : state'[d] = state[d]
    BY <1>13, OtherTypes
  <2>2. PICK n \in WriteSizes : WriteConnected(c, n, i)
    BY <1>13 DEF Write
  <2> QED BY <1>3, <1>5, <1>8, <1>9, <1>10, <2>1, <2>2, WriteKeepsFin
<1>14. CASE /\ io' = i /\ state' = [state EXCEPT ![c] = "Disconnecting"]
            /\ Pushed(l, Fin(c)) /\ UNCHANGED dataVars
  <2>1. state'[c] = "Disconnecting" /\ \A d \in Conns \ {c} : state'[d] = state[d]
    BY <1>14, OtherTypes
  <2>2. ~Has(Todo(l), Destroy(c))
    BY <1>5, NotDestroyed
  <2> QED BY <1>3, <1>5, <1>8, <1>9, <1>10, <1>14, <2>1, <2>2, ShutdownKeepsFin DEF dataVars
<1> QED BY <1>11, <1>12, <1>13, <1>14

\* The closures of AsyncWrite and of onWriteComplete.
LEMMA RunWriteFin ==
  ASSUME CoreInv, FinInv, AnyShutdown = FALSE, NEW l \in Loops,
         RunWrite(l) \/ RunWriteComplete(l)
  PROVE  FinInv'
<1>1. batch[l] # <<>> /\ Head(batch[l]).op # "listen" /\ TaskDone(l)
  BY DEF RunWrite, RunWriteComplete, TaskIs
<1>2. PICK c \in Conns : c = Head(batch[l]).conn
  BY <1>1, Parts, HeadTask
<1>3. UNCHANGED <<loopOf, shutWr, caller>> /\ MayTake
  BY <1>1 DEF RunWrite, RunWriteComplete, idVars, MayTake
<1>4. CASE RunWriteComplete(l)
  <2>1. UserCallback(c, AnyShutdown)
    BY <1>2, <1>4 DEF RunWriteComplete
  <2> QED BY <1>3, <2>1, CallbackFin
<1>5. CASE RunWrite(l)
  <2>1. Write(c, state[c], io) /\ UNCHANGED state
    BY <1>2, <1>5 DEF RunWrite
  <2>2. CASE state[c] # "Connected"
    <3>1. io' = io /\ UNCHANGED <<queue, out>>
      BY <2>1, <2>2 DEF Write, dataVars
    <3> QED BY <1>3, <2>1, <3>1, FinOther
  <2>3. CASE state[c] = "Connected"
    <3>1. PICK n \in WriteSizes : WriteConnected(c, n, io)
      BY <2>1, <2>3 DEF Write
    <3>2. file[fdOf[c]] = c /\ fdOf[c] # 0 /\ io.chan[c].index # "new"
      BY <2>3, Owns DEF ConnectedOwns
    <3>3. io \in IoType /\ PollerOK(io) /\ AcceptorOK(io)
      BY Parts
    <3> QED BY <1>3, <2>1, <2>3, <3>1, <3>2, <3>3, WriteKeepsFin
  <2> QED BY <2>2, <2>3
<1> QED BY <1>4, <1>5

\* The half-close: the number is still that of the connection, and all that
\* was buffered is sent, if the connection is still read.
LEMMA shutdownWriteFin ==
  ASSUME CoreInv, FinInv, NEW l \in Loops, shutdownWrite(l)
  PROVE  FinInv'
<1>1. TaskIs(l, "shutdownWrite") /\ TaskDone(l) /\ batch[l] # <<>>
  BY DEF shutdownWrite, TaskIs
<1>2. PICK c \in Conns : c = Head(batch[l]).conn /\ Head(batch[l]) = Fin(c)
  BY <1>1, Parts, HeadTask DEF TaskIs, Fin
<1>3. UNCHANGED <<io, state, loopOf, out, caller, queue>> /\ MayTake
  BY <1>1 DEF shutdownWrite, idVars, dataVars, MayTake
<1>4. PICK k \in Loops : k = loopOf[c]
  BY Parts
<1>5. /\ FinCore(caller[c], state[c], io.chan[c].index, io.chan[c].events, out[c], shutWr[c])
      /\ \A m \in Loops : Has(Todo(m), Fin(c)) => m = k /\ state[c] = "Disconnecting"
      /\ Before(Todo(k), Fin(c), Destroy(c))
  BY <1>4, FinFrom DEF FinInv
<1>6. Has(Todo(l), Fin(c))
  BY <1>1, <1>2, HeadPending DEF Pending, Fin
<1>7. state[c] = "Disconnecting" /\ io.chan[c].index # "new"
  BY <1>5, <1>6 DEF FinCore
<1>8. file[fdOf[c]] = c
  BY <1>7, Parts DEF ConnOK, PhaseOK, Phase
<1>9. shutWr' = IF ~isWriting(io, c) THEN [shutWr EXCEPT ![c] = TRUE] ELSE shutWr
  BY <1>2, <1>8 DEF shutdownWrite
<1>10. ASSUME NEW d \in Conns PROVE FinTasksKept(d)
  <2>1. NoFinPush(d)
    BY <1>3 DEF NoFinPush
  <2> QED BY <1>3, <2>1, Parts, NoFinPushed
<1>11. \A d \in Conns \ {c} : SameFin(d)
  BY <1>3, <1>9, OtherTypes DEF SameFin
<1>12. FinOK(c)'
  <2>0. out[c] \in Nat
    BY Parts DEF DataType
  <2>1. shutWr'[c] => shutWr[c] \/ EventWrite \notin io.chan[c].events
    BY <1>9, OtherTypes DEF isWriting
  <2>2. FinCore(caller'[c], state'[c], io'.chan[c].index, io'.chan[c].events, out'[c], shutWr'[c])
    BY <1>3, <1>5, <1>7, <2>0, <2>1 DEF FinCore
  <2>3. /\ \A m \in Loops : Has(Todo(m)', Fin(c)) => m = k /\ state'[c] = "Disconnecting"
        /\ Before(Todo(k)', Fin(c), Destroy(c))
    BY <1>3, <1>5, <1>10 DEF FinTasksKept
  <2> QED BY <1>3, <1>4, <2>2, <2>3, FinTo
<1> QED BY <1>10, <1>11, <1>12, FinStep

\* connectDestroyed: the half-close, if it was asked for, has run.
LEMMA connectDestroyedFin ==
  ASSUME CoreInv, FinInv, NEW l \in Loops, connectDestroyed(l)
  PROVE  FinInv'
<1>1. TaskIs(l, "connectDestroyed") /\ batch[l] # <<>> /\ lpc[l] = "tasks"
  BY DEF connectDestroyed, TaskIs
<1>2. PICK c \in Conns : c = Head(batch[l]).conn /\ Head(batch[l]) = Destroy(c)
  BY <1>1, Parts, HeadTask DEF TaskIs, Destroy
<1>3. /\ UNCHANGED <<queue, batch, loopOf, out, shutWr, caller>>
      /\ state' = [state EXCEPT ![c] = "Disconnected"]
  BY <1>2 DEF connectDestroyed, taskVars, idVars, dataVars
<1>4. Pending(l, "connectDestroyed", c) /\ ConnOK(c) /\ loopOf[c] \in Loops
  BY <1>1, <1>2, HeadPending, Parts DEF Destroy
<1>5. loopOf[c] = l
  BY <1>4, PhaseOf
<1>6. ~ClosingNow(c)
  BY <1>1, <1>5 DEF ClosingNow
<1>7. /\ state[c] \in {"Connected", "Disconnecting"} /\ file[fdOf[c]] = c
      /\ io.chan[c].index # "new" /\ fdOf[c] # 0
  <2>1. /\ state[c] \in {"Connected", "Disconnecting"} /\ file[fdOf[c]] = c
        /\ io.chan[c].index # "new"
    BY <1>4, <1>5, <1>6, PhaseOf DEF Phase
  <2> QED BY <2>1, Owns
<1>8. Assert(io, state[c] \in {"Connected", "Disconnecting"}) = io
  BY <1>7, Parts DEF Assert, IoType
<1>9. io' = removeChannel(disableAll(io, loopOf[c], fdOf[c], c), loopOf[c], fdOf[c], c)
  BY <1>2, <1>5, <1>8 DEF connectDestroyed
<1>10. PollerBecomes(io, io', c, {}, "new")
  BY <1>7, <1>9, Parts, RemoveKeepsPoller
<1>11. \A d \in Conns : io'.chan[d] = IF d = c THEN [events |-> {}, index |-> "new"] ELSE io.chan[d]
  BY <1>10, Parts, Numbers DEF PollerBecomes, IoType
<1>12. ASSUME NEW d \in Conns PROVE FinTasksKept(d)
  <2>1. NoFinPush(d) /\ MayTake
    BY <1>3 DEF NoFinPush, MayTake
  <2> QED BY <2>1, Parts, NoFinPushed
<1>13. state'[c] = "Disconnected" /\ \A d \in Conns \ {c} : state'[d] = state[d]
  BY <1>3, OtherTypes
<1>14. \A d \in Conns \ {c} : SameFin(d)
  BY <1>3, <1>11, <1>13 DEF SameFin
<1>15. FinOK(c)'
  <2>1. /\ FinCore(caller[c], state[c], io.chan[c].index, io.chan[c].events, out[c], shutWr[c])
        /\ \A m \in Loops : Has(Todo(m), Fin(c)) => m = l
        /\ Before(Todo(l), Fin(c), Destroy(c))
    BY <1>5, FinFrom DEF FinInv
  <2>2. Todo(l) \in Seq(Tasks) /\ Todo(l) # <<>> /\ Head(Todo(l)) = Destroy(c)
    <3>1. batch[l] \in Seq(Tasks) /\ queue[l] \in Seq(Tasks)
      BY Parts DEF TasksType
    <3>2. \A b, q \in Seq(Tasks) :
            b # <<>> => b \o q \in Seq(Tasks) /\ b \o q # <<>> /\ Head(b \o q) = Head(b)
      BY ConcatTake
    <3> QED BY <1>1, <1>2, <3>1, <3>2 DEF Todo
  <2>3. ~Has(Todo(l), Fin(c))
    BY <2>1, <2>2, BeforeTaken
  <2>4. (\A m \in Loops : ~Has(Todo(m)', Fin(c))) /\ Before(Todo(l)', Fin(c), Destroy(c))
    BY <1>12, <2>1, <2>3 DEF FinTasksKept
  <2>5. io'.chan[c].events = {} /\ io'.chan[c].index = "new"
    BY <1>11
  <2>6. FinCore(caller'[c], state'[c], io'.chan[c].index, io'.chan[c].events, out'[c], shutWr'[c])
    BY <1>3, <1>13, <2>1, <2>5 DEF FinCore
  <2> QED BY <1>3, <1>5, <2>4, <2>6, FinTo
<1> QED BY <1>12, <1>14, <1>15, FinStep

\* so.close().
LEMMA CloseConnFin ==
  ASSUME CoreInv, FinInv, NEW l \in Loops, CloseConn(l)
  PROVE  FinInv'
<1>1. lpc[l] = "close" /\ TaskDone(l) /\ batch[l] # <<>>
  BY Parts DEF CloseConn, LoopOK
<1>2. UNCHANGED <<queue, state, loopOf, out, shutWr, caller>> /\ MayTake
  BY <1>1 DEF CloseConn, idVars, dataVars, MayTake
<1>3. io'.chan = io.chan
  BY Parts DEF CloseConn, closed, IoType
<1> QED BY <1>2, <1>3, FinOther

\* FinInv is inductive, when ShutdownWrite is only called in onConn and onMsg.
LEMMA NextFinInv ==
  ASSUME AnyShutdown = FALSE, CoreInv, FinInv, [Next]_vars
  PROVE  FinInv'
<1>1. ASSUME NEW l \in Loops, ConnStep(l) PROVE FinInv'
  BY <1>1, HandleEventFin, connectEstablishedFin, RunWriteFin, shutdownWriteFin,
     connectDestroyedFin, CloseConnFin DEF ConnStep
<1>2. ASSUME BossStep PROVE FinInv'
  BY <1>2, BossFin, AcceptFin DEF BossStep
<1>3. ASSUME NEW l \in Loops, LoopStep(l) PROVE FinInv'
  BY <1>1, <1>2, <1>3, RoundFin DEF LoopStep
<1>4. CASE UNCHANGED vars
  BY <1>4, FinOther DEF vars, connVars, taskVars, idVars, dataVars, MayTake
<1> QED BY <1>3, <1>4, EnvironmentFin DEF Next

\* The initial states satisfy FinInv.
LEMMA InitFinInv == Init => FinInv
<1> SUFFICES ASSUME Init, NEW c \in Conns PROVE FinOK(c)
  BY DEF FinInv
<1>1. \A s \in {<<>>} : s \o <<>> = <<>> /\ DOMAIN s = {}
  OBVIOUS
<1>2. \A m \in Loops : Todo(m) = <<>>
  BY <1>1 DEF Init, ConnInit, Todo
<1>3. \A t, u : ~Has(<<>>, t) /\ Before(<<>>, t, u)
  BY <1>1 DEF Has, Before
<1>4. io.chan[c] = [events |-> {}, index |-> "new"] /\ loopOf[c] \in Loops
  BY Numbers DEF Init, ConnInit, NewIo
<1> QED BY <1>2, <1>3, <1>4 DEF Init, ConnInit, FinOK, isWriting

\* FinInv holds in every state, when ShutdownWrite is only called in onConn and
\* onMsg.
THEOREM FinInvariant == AnyShutdown = FALSE => (Spec => []FinInv)
<1> SUFFICES ASSUME AnyShutdown = FALSE PROVE Spec => []FinInv
  OBVIOUS
<1>1. CoreInv /\ FinInv /\ [Next]_vars => FinInv'
  BY NextFinInv
<1> QED BY <1>1, InitFinInv, CoreInvariant, PTL DEF Spec

\* The half-close goes to the connection's own socket and comes after all the
\* data, when ShutdownWrite is only called in onConn and onMsg: nothing is
\* buffered any more, and Write lets nothing more through.
THEOREM HalfCloseIsLast == AnyShutdown = FALSE => (Spec => []FinComesLast)
<1> SUFFICES ASSUME AnyShutdown = FALSE PROVE Spec => []FinComesLast
  OBVIOUS
<1>1. FinInv => FinComesLast
  BY DEF FinInv, FinOK, FinComesLast
<1> QED BY <1>1, FinInvariant, PTL

=============================================================================
