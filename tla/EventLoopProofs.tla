-------------------------- MODULE EventLoopProofs --------------------------
(***************************************************************************)
(* Proofs about EventLoop for any number of goroutines, tasks and          *)
(* channels: its inductive invariant LoopInv, the absence of lost wakeups, *)
(* and that it implements the FIFO log of TaskLog.                         *)
(***************************************************************************)
EXTENDS EventLoop, SequenceTheorems, FiniteSetTheorems, TLAPS

\* LoopInv holds of a new Eventloop.
LEMMA InitInv == Init => LoopInv
<1> SUFFICES ASSUME Init PROVE LoopInv
  OBVIOUS
<1> USE LoopAssumption DEF Init
<1>1. TypeOK
  BY EmptySeq DEF TypeOK, LoopPCs, Callers
<1>2. PushInv
  BY DEF PushInv, Callers
<1>3. ListInv /\ WakeupInv
  BY DEF ListInv, WakeupInv
<1>4. LogInv
  BY EmptySeq DEF LogInv
<1> QED BY <1>1, <1>2, <1>3, <1>4 DEF LoopInv

\* TypeOK is kept by every step of the loop.
LEMMA LoopType ==
  ASSUME TypeOK, Loop
  PROVE  TypeOK'
<1> USE DEF TypeOK, LoopPCs, queueVars, pollVars
<1>1. CASE LoopStart \/ LoopContinue \/ LoopBreak
  BY <1>1 DEF LoopStart, LoopContinue, LoopBreak
<1>2. ASSUME NEW S \in SUBSET Readable, PollEvents(S) PROVE TypeOK'
  <2>1. S \subseteq Channels \cup {WakeupChannel}
    BY <1>2 DEF Readable
  <2>2. eventLen' \in Nat \ {0}
    BY <1>2 DEF PollEvents
  <2> QED BY <1>2, <2>1, <2>2 DEF PollEvents
<1>3. CASE PollNothing
  BY <1>3 DEF PollNothing
<1>4. CASE HandleWakeup
  BY <1>4 DEF HandleWakeup
<1>5. ASSUME NEW ch \in Channels, HandleChannel(ch) PROVE TypeOK'
  BY <1>5 DEF HandleChannel
<1>6. CASE HandlerReturn \/ EventsDone
  BY <1>6 DEF HandlerReturn, EventsDone
<1>7. CASE TakePending
  BY <1>7 DEF TakePending
<1>8. CASE SwapPending
  <2>1. 1 - cur \in {0, 1}
    OBVIOUS
  <2>2. lists' \in [{0, 1} -> Seq(Tasks)]
    BY <1>8, <2>1, EmptySeq DEF SwapPending
  <2> QED BY <1>8, <2>1, <2>2 DEF SwapPending
<1>9. CASE RunTask
  <2>1. Head(lists[pt]) \in Tasks /\ Tail(lists[pt]) \in Seq(Tasks)
    BY <1>9, HeadTailProperties DEF RunTask
  <2>2. ran' \in Seq(Tasks)
    BY <1>9, <2>1, AppendProperties DEF RunTask
  <2>3. lists' \in [{0, 1} -> Seq(Tasks)]
    BY <1>9, <2>1 DEF RunTask
  <2> QED BY <1>9, <2>2, <2>3 DEF RunTask
<1>10. CASE TaskReturn \/ TasksDone
  BY <1>10 DEF TaskReturn, TasksDone
<1> QED
  BY <1>1, <1>2, <1>3, <1>4, <1>5, <1>6, <1>7, <1>8, <1>9, <1>10 DEF Loop

\* TypeOK is kept by every step of a call.
LEMMA CallType ==
  ASSUME TypeOK, PushInv, NEW c \in Callers, Call(c)
  PROVE  TypeOK'
<1> USE DEF TypeOK, LoopPCs, queueVars, pollVars
<1>1. ASSUME NEW t \in Tasks, AsyncExecute(c, t) PROVE TypeOK'
  BY <1>1 DEF AsyncExecute
<1>2. CASE PushBack(c)
  <2>1. arg[c] \in Tasks /\ dst[c] \in {0, 1}
    BY <1>2 DEF PushBack, PushInv
  <2>2. Append(lists[dst[c]], arg[c]) \in Seq(Tasks)
    BY <2>1, AppendProperties
  <2>3. lists' \in [{0, 1} -> Seq(Tasks)]
    BY <1>2, <2>1, <2>2 DEF PushBack
  <2> QED BY <1>2, <2>3 DEF PushBack
<1>3. CASE Wakeup(c)
  BY <1>3 DEF Wakeup, Signalled
<1>4. CASE Stop(c) \/ AsyncStop(c)
  BY <1>4 DEF Stop, AsyncStop
<1> QED BY <1>1, <1>2, <1>3, <1>4 DEF Call

\* The mutex keeps PushInv: nobody replaces el.pendingTasks while a
\* goroutine is between Lock and Unlock.
LEMMA NextPush ==
  ASSUME LoopInv, Next
  PROVE  PushInv'
<1> USE LoopAssumption DEF LoopInv, TypeOK, PushInv, queueVars, pollVars, Callers
<1>1. CASE Loop
  <2>1. CASE SwapPending
    BY <2>1 DEF SwapPending
  <2>2. CASE ~SwapPending
    <3>1. UNCHANGED <<call, taskMutex, arg, submitted, dst, cur>>
      BY <1>1, <2>2 DEF Loop, LoopStart, LoopContinue, LoopBreak, PollEvents,
         PollNothing, HandleWakeup, HandleChannel, HandlerReturn, EventsDone,
         TakePending, RunTask, TaskReturn, TasksDone
    <3> QED BY <3>1
  <2> QED BY <2>1, <2>2
<1>2. ASSUME NEW c \in Callers, Call(c) PROVE PushInv'
  <2>1. ASSUME NEW t \in Tasks, AsyncExecute(c, t) PROVE PushInv'
    BY <2>1 DEF AsyncExecute, CanCall
  <2>2. CASE PushBack(c)
    BY <2>2 DEF PushBack
  <2>3. CASE Wakeup(c)
    BY <2>3 DEF Wakeup
  <2>4. CASE Stop(c) \/ AsyncStop(c)
    BY <2>4 DEF Stop, AsyncStop, CanCall
  <2> QED BY <1>2, <2>1, <2>2, <2>3, <2>4 DEF Call
<1>3. ASSUME NEW ch \in Channels, BecomeReady(ch) PROVE PushInv'
  BY <1>3 DEF BecomeReady
<1> QED BY <1>1, <1>2, <1>3 DEF Next

\* pt points to the list the loop believes it points to.
LEMMA NextList ==
  ASSUME LoopInv, Next
  PROVE  ListInv'
<1> USE LoopAssumption DEF LoopInv, TypeOK, ListInv, queueVars, pollVars, Callers
<1>1. CASE Loop
  <2>1. CASE SwapPending
    BY <2>1 DEF SwapPending
  <2>2. CASE RunTask
    BY <2>2 DEF RunTask
  <2>3. CASE TakePending
    BY <2>3 DEF TakePending
  <2>4. CASE TasksDone
    BY <2>4 DEF TasksDone
  <2>5. CASE LoopStart \/ LoopContinue \/ LoopBreak
             \/ (\E S \in SUBSET Readable : PollEvents(S)) \/ PollNothing
             \/ HandleWakeup \/ (\E ch \in Channels : HandleChannel(ch))
             \/ HandlerReturn \/ EventsDone \/ TaskReturn
    BY <2>5 DEF LoopStart, LoopContinue, LoopBreak, PollEvents, PollNothing,
       HandleWakeup, HandleChannel, HandlerReturn, EventsDone, TaskReturn
  <2> QED BY <1>1, <2>1, <2>2, <2>3, <2>4, <2>5 DEF Loop
<1>2. ASSUME NEW c \in Callers, Call(c) PROVE ListInv'
  <2>1. ASSUME NEW t \in Tasks, AsyncExecute(c, t) PROVE ListInv'
    BY <2>1 DEF AsyncExecute
  <2>2. CASE PushBack(c)
    <3>1. dst[c] = cur
      BY <2>2 DEF PushBack, PushInv
    <3>2. lists'[1 - cur] = lists[1 - cur] /\ UNCHANGED <<pc, cur, pt>>
      BY <2>2, <3>1 DEF PushBack
    <3> QED BY <3>2
  <2>3. CASE Wakeup(c) \/ Stop(c) \/ AsyncStop(c)
    BY <2>3 DEF Wakeup, Stop, AsyncStop
  <2> QED BY <1>2, <2>1, <2>2, <2>3 DEF Call
<1>3. ASSUME NEW ch \in Channels, BecomeReady(ch) PROVE ListInv'
  BY <1>3 DEF BecomeReady
<1> QED BY <1>1, <1>2, <1>3 DEF Next

\* A task is in the lists or called only after its push.
LEMMA NextLog ==
  ASSUME LoopInv, Next
  PROVE  LogInv'
<1> USE LoopAssumption DEF LoopInv, TypeOK, LogInv, queueVars, pollVars
<1>1. CASE Loop
  <2>1. UNCHANGED <<submitted, arg>>
    BY <1>1 DEF Loop, LoopStart, LoopContinue, LoopBreak, PollEvents,
       PollNothing, HandleWakeup, HandleChannel, HandlerReturn, EventsDone,
       TakePending, SwapPending, RunTask, TaskReturn, TasksDone
  <2>2. Pushed' = Pushed
    BY <2>1 DEF Pushed
  <2>3. CASE SwapPending
    <3>1. lists' \in [{0, 1} -> Seq(Pushed)]
      BY <2>3, EmptySeq DEF SwapPending
    <3> QED BY <2>2, <2>3, <3>1 DEF SwapPending
  <2>4. CASE RunTask
    <3>1. Head(lists[pt]) \in Pushed /\ Tail(lists[pt]) \in Seq(Pushed)
      BY <2>4, HeadTailProperties DEF RunTask
    <3>2. ran' \in Seq(Pushed)
      BY <2>4, <3>1, AppendProperties DEF RunTask
    <3>3. lists' \in [{0, 1} -> Seq(Pushed)]
      BY <2>4, <3>1 DEF RunTask
    <3> QED BY <2>2, <3>2, <3>3
  <2>5. CASE ~SwapPending /\ ~RunTask
    <3>1. UNCHANGED <<lists, ran>>
      BY <1>1, <2>5 DEF Loop, LoopStart, LoopContinue, LoopBreak, PollEvents,
         PollNothing, HandleWakeup, HandleChannel, HandlerReturn, EventsDone,
         TakePending, TaskReturn, TasksDone
    <3> QED BY <2>2, <3>1
  <2> QED BY <2>3, <2>4, <2>5
<1>2. ASSUME NEW c \in Callers, Call(c) PROVE LogInv'
  <2>1. ASSUME NEW t \in Tasks, AsyncExecute(c, t) PROVE LogInv'
    <3>1. arg[c] = None /\ t \notin submitted
      BY <2>1 DEF AsyncExecute, CanCall, PushInv
    <3>2. None \notin submitted
      OBVIOUS
    <3>3. \A d \in Callers : d # c => arg'[d] = arg[d]
      BY <2>1 DEF AsyncExecute
    <3>4. arg'[c] = t /\ submitted' = submitted \cup {t}
      BY <2>1 DEF AsyncExecute
    <3>5. ASSUME NEW x PROVE x \in Pushed' <=> x \in Pushed
      <4>1. x \in Pushed <=> x \in submitted /\ \A d \in Callers : arg[d] # x
        BY DEF Pushed
      <4>2. x \in Pushed' <=> x \in submitted' /\ \A d \in Callers : arg'[d] # x
        BY DEF Pushed
      <4>3. CASE x = t
        BY <3>1, <3>4, <4>1, <4>2, <4>3
      <4>4. CASE x # t
        BY <3>1, <3>2, <3>3, <3>4, <4>1, <4>2, <4>4
      <4> QED BY <4>3, <4>4
    <3>6. Pushed' = Pushed
      BY <3>5
    <3> QED BY <2>1, <3>6 DEF AsyncExecute
  <2>2. CASE PushBack(c)
    <3>1. \A d \in Callers : d # c => arg[d] = None /\ arg'[d] = None
      BY <2>2 DEF PushBack, PushInv
    <3>2. arg[c] \in submitted /\ arg'[c] = None /\ submitted' = submitted
      BY <2>2 DEF PushBack, PushInv
    <3>3. Pushed \subseteq Pushed' /\ arg[c] \in Pushed'
      BY <3>1, <3>2 DEF Pushed
    <3>4. ran \in Seq(Pushed') /\ \A l \in {0, 1} : lists[l] \in Seq(Pushed')
      BY <3>3, SeqMonotonic
    <3>5. Append(lists[dst[c]], arg[c]) \in Seq(Pushed')
      BY <3>3, <3>4, AppendProperties
    <3>6. lists' \in [{0, 1} -> Seq(Pushed')]
      BY <2>2, <3>4, <3>5 DEF PushBack
    <3>7. ran' = ran
      BY <2>2 DEF PushBack
    <3> QED BY <3>4, <3>6, <3>7
  <2>3. CASE Wakeup(c) \/ Stop(c) \/ AsyncStop(c)
    <3>1. UNCHANGED queueVars
      BY <2>3 DEF Wakeup, Stop, AsyncStop
    <3> QED BY <3>1 DEF Pushed
  <2> QED BY <1>2, <2>1, <2>2, <2>3 DEF Call
<1>3. ASSUME NEW ch \in Channels, BecomeReady(ch) PROVE LogInv'
  BY <1>3 DEF BecomeReady, Pushed
<1> QED BY <1>1, <1>2, <1>3 DEF Next

\* Every pending task keeps a wakeup on its way.
LEMMA NextWakeup ==
  ASSUME LoopInv, Next
  PROVE  WakeupInv'
<1> USE LoopAssumption DEF LoopInv, TypeOK, WakeupInv, queueVars, pollVars
<1>1. CASE Loop
  <2>1. CASE LoopStart \/ LoopContinue \/ LoopBreak
    BY <2>1 DEF LoopStart, LoopContinue, LoopBreak
  <2>2. CASE (\E S \in SUBSET Readable : PollEvents(S)) \/ PollNothing
             \/ (\E ch \in Channels : HandleChannel(ch))
             \/ HandlerReturn \/ EventsDone
    BY <2>2 DEF PollEvents, PollNothing, HandleChannel, HandlerReturn, EventsDone
  <2>3. CASE HandleWakeup
    BY <2>3 DEF HandleWakeup
  <2>4. CASE TakePending
    BY <2>4 DEF TakePending
  <2>5. CASE SwapPending
    BY <2>5 DEF SwapPending
  <2>6. CASE RunTask
    <3>1. lists'[cur] = lists[cur] /\ cur' = cur
      BY <2>6 DEF RunTask, ListInv
    <3> QED BY <2>6, <3>1 DEF RunTask
  <2>7. CASE TaskReturn \/ TasksDone
    BY <2>7 DEF TaskReturn, TasksDone
  <2> QED BY <1>1, <2>1, <2>2, <2>3, <2>4, <2>5, <2>6, <2>7 DEF Loop
<1>2. ASSUME NEW c \in Callers, Call(c) PROVE WakeupInv'
  <2>1. ASSUME NEW t \in Tasks, AsyncExecute(c, t) PROVE WakeupInv'
    BY <2>1 DEF AsyncExecute, CanCall
  <2>2. CASE PushBack(c)
    BY <2>2 DEF PushBack
  <2>3. CASE Wakeup(c)
    BY <2>3 DEF Wakeup, Signalled
  <2>4. CASE Stop(c) \/ AsyncStop(c)
    BY <2>4 DEF Stop, AsyncStop
  <2> QED BY <1>2, <2>1, <2>2, <2>3, <2>4 DEF Call
<1>3. ASSUME NEW ch \in Channels, BecomeReady(ch) PROVE WakeupInv'
  BY <1>3 DEF BecomeReady
<1> QED BY <1>1, <1>2, <1>3 DEF Next

\* LoopInv is inductive.
LEMMA NextInv == LoopInv /\ [Next]_vars => LoopInv'
<1> SUFFICES ASSUME LoopInv, [Next]_vars PROVE LoopInv'
  OBVIOUS
<1>1. CASE Next
  <2>1. TypeOK'
    <3>1. ASSUME NEW ch \in Channels, BecomeReady(ch) PROVE TypeOK'
      BY <3>1 DEF LoopInv, TypeOK, BecomeReady, queueVars
    <3> QED BY <1>1, <3>1, LoopType, CallType DEF Next, LoopInv
  <2> QED BY <1>1, <2>1, NextPush, NextList, NextLog, NextWakeup DEF LoopInv
<1>2. CASE UNCHANGED vars
  BY <1>2 DEF vars, queueVars, pollVars, LoopInv, TypeOK, PushInv, ListInv,
     LogInv, Pushed, WakeupInv
<1> QED BY <1>1, <1>2

\* The inductive invariant holds in every reachable state of every instance:
\* the locking discipline of AsyncExecute and runPendingTasks is right.
THEOREM LoopInvariant == Spec => []LoopInv
BY InitInv, NextInv, PTL DEF Spec

\* Every variable of the loop keeps its type.
THEOREM LoopTypeCorrect == Spec => []TypeOK
<1>1. LoopInv => TypeOK
  BY DEF LoopInv
<1> QED BY <1>1, LoopInvariant, PTL

\* No wakeup is lost, however many goroutines call AsyncExecute while the
\* loop reads the eventfd, takes the list and goes back to epoll_wait.
THEOREM WakeupNeverLost == Spec => []NoLostWakeup
<1>1. LoopInv => NoLostWakeup
  BY DEF LoopInv, WakeupInv, NoLostWakeup
<1> QED BY <1>1, LoopInvariant, PTL

\* A non-empty sequence is its first element and the rest.
LEMMA HeadAndTail ==
  ASSUME NEW S, NEW s \in Seq(S), s # <<>>
  PROVE  s = <<Head(s)>> \o Tail(s)
<1>1. Head(s) \in S /\ Tail(s) \in Seq(S) /\ Len(Tail(s)) = Len(s) - 1
      /\ \A i \in 1..Len(Tail(s)) : Tail(s)[i] = s[i + 1]
  BY HeadTailProperties
<1>2. <<Head(s)>> \in Seq(S) /\ Len(<<Head(s)>>) = 1 /\ <<Head(s)>>[1] = s[1]
  BY <1>1
<1> DEFINE c == <<Head(s)>> \o Tail(s)
<1>3. c \in Seq(S) /\ Len(c) = Len(s) /\ Len(s) \in Nat
  BY <1>1, <1>2, ConcatProperties
<1>4. \A i \in 1..Len(s) : c[i] = s[i]
  BY <1>1, <1>2, <1>3, ConcatProperties
<1> QED BY <1>3, <1>4

\* Every step of the loop and of its callers appends one new task to the
\* log, or calls the next one, or changes neither.
LEMMA StepImplements ==
  ASSUME LoopInv, [Next]_vars
  PROVE  [TL!Next]_<<Log, Len(ran)>>
<1> USE LoopAssumption DEF LoopInv
<1>1. cur \in {0, 1} /\ pt \in {0, 1} /\ 1 - cur \in {0, 1}
  BY DEF TypeOK
<1>2. ran \in Seq(Pushed) /\ lists[0] \in Seq(Pushed) /\ lists[1] \in Seq(Pushed)
  BY DEF LogInv
<1>3. ran \in Seq(Tasks) /\ lists \in [{0, 1} -> Seq(Tasks)]
  BY DEF TypeOK
<1>4. CASE SwapPending
  <2>1. lists[1 - cur] = <<>> /\ lists'[1 - cur'] = lists[cur]
        /\ lists'[cur'] = <<>>
    BY <1>1, <1>3, <1>4 DEF SwapPending, ListInv
  <2>2. Log' = Log /\ ran' = ran
    BY <1>1, <1>3, <1>4, <2>1, ConcatEmptySeq DEF SwapPending, Log
  <2> QED BY <2>2
<1>5. CASE RunTask
  <2> DEFINE l == lists[1 - cur]
             m == lists[cur]
  <2>1. pt = 1 - cur /\ l # <<>>
    BY <1>5 DEF RunTask, ListInv
  <2>2. l \in Seq(Tasks) /\ m \in Seq(Tasks) /\ Head(l) \in Tasks
        /\ Tail(l) \in Seq(Tasks)
    BY <1>1, <1>3, <2>1, HeadTailProperties
  <2>3. ran' = Append(ran, Head(l)) /\ lists'[1 - cur'] = Tail(l)
        /\ lists'[cur'] = m
    BY <1>1, <1>3, <1>5, <2>1 DEF RunTask
  <2> HIDE DEF l, m
  <2>4. ran' = ran \o <<Head(l)>> /\ <<Head(l)>> \in Seq(Tasks)
    BY <1>3, <2>2, <2>3, AppendIsConcat
  <2>5. Tail(l) \o m \in Seq(Tasks) /\ l \o m \in Seq(Tasks)
    BY <2>2, ConcatProperties
  <2>6. l = <<Head(l)>> \o Tail(l)
    BY <2>1, <2>2, HeadAndTail
  <2>7. (<<Head(l)>> \o Tail(l)) \o m = <<Head(l)>> \o (Tail(l) \o m)
    BY <2>2, <2>4, ConcatAssociative
  <2>8. (ran \o <<Head(l)>>) \o (Tail(l) \o m)
        = ran \o (<<Head(l)>> \o (Tail(l) \o m))
    <3> DEFINE h == <<Head(l)>>
               r == Tail(l) \o m
    <3>1. h \in Seq(Tasks) /\ r \in Seq(Tasks)
      BY <2>4, <2>5
    <3> HIDE DEF h, r
    <3>2. (ran \o h) \o r = ran \o (h \o r)
      BY <1>3, <3>1, ConcatAssociative
    <3> QED BY <3>2 DEF h, r
  <2>9. Log' = (ran \o <<Head(l)>>) \o (Tail(l) \o m)
    BY <2>3, <2>4 DEF Log
  <2>10. Log = ran \o (l \o m)
    BY DEF Log, l, m
  <2>11. Log' = Log
    BY <2>6, <2>7, <2>8, <2>9, <2>10
  <2>12. Len(ran') = Len(ran) + 1
    BY <1>3, <2>2, <2>3, AppendProperties
  <2>13. Len(l) \in Nat \ {0} /\ Len(m) \in Nat /\ Len(ran) \in Nat
    BY <1>3, <2>1, <2>2, EmptySeq, LenProperties
  <2>14. Len(Log) = Len(ran) + (Len(l) + Len(m))
    BY <1>3, <2>2, <2>5, <2>10, ConcatProperties
  <2>15. Len(ran) < Len(Log)
    BY <2>13, <2>14
  <2> QED BY <2>11, <2>12, <2>15 DEF TL!Next, TL!Run
<1>6. ASSUME NEW c \in Callers, PushBack(c) PROVE TL!Next
  <2> DEFINE l == lists[1 - cur]
             m == lists[cur]
             t == arg[c]
  <2>1. dst[c] = cur /\ t \in Tasks
    BY <1>6 DEF PushBack, PushInv, TypeOK
  <2>2. t \notin Pushed
    BY DEF Pushed
  <2>3. l \in Seq(Pushed) /\ m \in Seq(Pushed)
    BY <1>1, <1>2
  <2>4. l \in Seq(Tasks) /\ m \in Seq(Tasks)
    BY <1>1, <1>3
  <2>5. ran' = ran /\ lists'[1 - cur'] = l /\ lists'[cur'] = Append(m, t)
    BY <1>1, <1>3, <1>6, <2>1 DEF PushBack
  <2>6. Log = ran \o (l \o m)
    BY DEF Log
  <2> HIDE DEF l, m, t
  <2>7. Append(m, t) = m \o <<t>> /\ <<t>> \in Seq(Tasks)
    BY <2>1, <2>4, AppendIsConcat
  <2>8. l \o m \in Seq(Tasks) /\ ran \o (l \o m) \in Seq(Tasks)
    BY <1>3, <2>4, ConcatProperties
  <2>9. l \o (m \o <<t>>) = (l \o m) \o <<t>>
    BY <2>4, <2>7, ConcatAssociative
  <2>10. ran \o ((l \o m) \o <<t>>) = (ran \o (l \o m)) \o <<t>>
    BY <1>3, <2>7, <2>8, ConcatAssociative
  <2>11. Append(Log, t) = Log \o <<t>>
    BY <2>1, <2>6, <2>8, AppendIsConcat
  <2>12. Log' = ran \o (l \o Append(m, t))
    BY <2>5 DEF Log
  <2>13. Log' = Append(Log, t)
    BY <2>6, <2>7, <2>9, <2>10, <2>11, <2>12
  <2>14. l \o m \in Seq(Pushed) /\ Log \in Seq(Pushed)
    BY <1>2, <2>3, <2>6, ConcatProperties
  <2>15. \A i \in 1..Len(Log) : Log[i] # t
    BY <2>2, <2>14, ElementOfSeq
  <2>16. TL!Accept(t)
    BY <2>5, <2>13, <2>15 DEF TL!Accept
  <2> QED BY <2>1, <2>16 DEF TL!Next
<1>7. CASE UNCHANGED <<ran, lists, cur>>
  BY <1>7 DEF Log
<1>8. \/ SwapPending \/ RunTask \/ (\E c \in Callers : PushBack(c))
      \/ UNCHANGED <<ran, lists, cur>>
  BY DEF Next, Loop, Call, LoopStart, LoopContinue, LoopBreak, PollEvents,
     PollNothing, HandleWakeup, HandleChannel, HandlerReturn, EventsDone,
     TakePending, TaskReturn, TasksDone, AsyncExecute, Wakeup, Stop, AsyncStop,
     BecomeReady, vars, queueVars, pollVars
<1> QED BY <1>4, <1>5, <1>6, <1>7, <1>8

\* For any number of goroutines AsyncExecute and runPendingTasks implement
\* the FIFO log: no task lost, duplicated, reordered or called before its push.
THEOREM LoopImplementsTaskLog == Spec => TaskLogSpec
<1>1. Init => TL!Init
  BY DEF Init, TL!Init, Log
<1>2. LoopInv /\ [Next]_vars => [TL!Next]_<<Log, Len(ran)>>
  BY StepImplements
<1> QED BY <1>1, <1>2, LoopInvariant, PTL DEF Spec, TL!Spec, TaskLogSpec

=============================================================================
