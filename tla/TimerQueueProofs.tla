-------------------------- MODULE TimerQueueProofs --------------------------
(***************************************************************************)
(* Proofs about TimerQueue for any number of timers, any interval and any  *)
(* horizon of the clock: the timerfd is armed whenever a timer waits, no   *)
(* callback runs before its instant, a timer is in one place, and one that *)
(* has left the heap for good does not come back.                          *)
(***************************************************************************)
EXTENDS TimerQueue, SequenceTheorems, TLAPS

\* The instant a timerfd armed now expires, and that it grows with the
\* requested instant and with the clock.
LEMMA ArmedForIsInstant ==
  ASSUME NEW e \in Instants, now \in Instants
  PROVE  ArmedFor(e) \in Instants \ {0} /\ Cap(now + 1) \in Instants \ {0}
BY TimerAssumption DEF ArmedFor, Later, Cap, Instants

\* An earlier instant is not armed for later.
LEMMA ArmedForMonotonic ==
  ASSUME NEW e \in Instants, NEW f \in Instants, e <= f, now \in Instants
  PROVE  ArmedFor(e) <= ArmedFor(f)
BY TimerAssumption DEF ArmedFor, Later, Cap, Instants

\* Putting a timer into the heap keeps the timerfd armed for the timers it
\* was armed for, and arms it for the new one if it was armed for them all.
LEMMA InsertArmed ==
  ASSUME TypeOK, NEW t \in Timers, NEW e \in Instants, InsertTask(t, e),
         now' = now
  PROVE  /\ \A u \in tasks : Armed(expire[u]) =>
              readable' \/ (deadline' # 0 /\ deadline' <= ArmedFor(expire[u]))
         /\ (\A u \in tasks : Armed(expire[u])) =>
              readable' \/ (deadline' # 0 /\ deadline' <= ArmedFor(e))
<1> USE DEF TypeOK
<1>0. now \in Instants /\ \A u \in tasks : expire[u] \in Instants
  BY DEF Instants
<1>1. ArmedFor(e) \in Instants \ {0}
      /\ \A u \in tasks : ArmedFor(expire[u]) \in Instants \ {0}
  BY <1>0, ArmedForIsInstant
<1>2. CASE EarliestChanged(e)
  <2>1. deadline' = ArmedFor(e)
    BY <1>2 DEF InsertTask, resetTimerFd
  <2>2. \A u \in tasks : e <= expire[u]
    BY <1>0, <1>2 DEF EarliestChanged, Instants
  <2>3. \A u \in tasks : ArmedFor(e) <= ArmedFor(expire[u])
    BY <1>0, <2>2, ArmedForMonotonic
  <2> QED BY <1>1, <2>1, <2>3 DEF Instants
<1>3. CASE ~EarliestChanged(e)
  <2>1. UNCHANGED <<deadline, readable>>
    BY <1>3 DEF InsertTask, fdVars
  <2>2. PICK u \in tasks : expire[u] <= e
    BY <1>0, <1>3 DEF EarliestChanged, Instants
  <2>3. ArmedFor(expire[u]) <= ArmedFor(e)
    BY <1>0, <2>2, ArmedForMonotonic
  <2> QED BY <1>0, <1>1, <2>1, <2>3 DEF Armed, Instants
<1> QED BY <1>2, <1>3

\* The same while handleRead runs, where only timers with invalidTime are
\* known to have armed the timerfd.
LEMMA InsertArmedZero ==
  ASSUME TypeOK, NEW t \in Timers, NEW e \in Instants, InsertTask(t, e),
         now' = now, \A u \in tasks : expire[u] = 0 => Armed(0)
  PROVE  (e = 0 \/ \E u \in tasks : expire[u] = 0) =>
              readable' \/ (deadline' # 0 /\ deadline' <= ArmedFor(0))
<1> USE DEF TypeOK
<1>1. now \in Instants /\ 0 \in Instants /\ \A u \in tasks : expire[u] \in Instants
  BY TimerAssumption DEF Instants
<1>2. CASE EarliestChanged(e)
  <2>1. deadline' = ArmedFor(e) /\ ArmedFor(e) \in Instants \ {0}
    BY <1>1, <1>2, ArmedForIsInstant DEF InsertTask, resetTimerFd
  <2>2. \A u \in tasks : expire[u] # 0
    BY <1>1, <1>2 DEF EarliestChanged, Instants
  <2> QED BY <2>1, <2>2 DEF Instants
<1>3. CASE ~EarliestChanged(e)
  <2>1. UNCHANGED <<deadline, readable>>
    BY <1>3 DEF InsertTask, fdVars
  <2>2. PICK u \in tasks : expire[u] <= e
    BY <1>1, <1>3 DEF EarliestChanged, Instants
  <2>3. e = 0 => expire[u] = 0
    BY <1>1, <2>2 DEF Instants
  <2> QED BY <2>1, <2>3 DEF Armed
<1> QED BY <1>2, <1>3

\* TimerInv holds of a new timer queue.
LEMMA TimerInit == Init => TimerInv
<1> SUFFICES ASSUME Init PROVE TimerInv
  OBVIOUS
<1> USE TimerAssumption DEF Init
<1>1. TypeOK
  <2>1. pend \in Seq(Closures) /\ batch \in Seq(Closures)
    BY EmptySeq
  <2>2. 0 \in Instants /\ 1 \in Instants
    BY DEF Instants
  <2>3. expire \in [Timers -> Instants] /\ repeat \in [Timers -> BOOLEAN]
        /\ canceled \in [Timers -> BOOLEAN] /\ now \in Instants \ {0}
    BY <2>2
  <2>4. /\ pc \in {"created", "poll", "events", "read", "fire", "callback", "tasks"}
        /\ readable \in BOOLEAN /\ timerActive \in BOOLEAN
        /\ running \in Timers \cup {NoTimer}
    OBVIOUS
  <2>5. created \subseteq Timers /\ tasks \subseteq created
        /\ expired \subseteq created /\ firing \subseteq expired
    OBVIOUS
  <2> QED BY <2>1, <2>2, <2>3, <2>4, <2>5 DEF TypeOK
<1>2. TimerArmed /\ HandlerInv
  BY DEF TimerArmed, HandlerInv
<1> QED BY <1>1, <1>2 DEF TimerInv

\* Creating a timer keeps the types of what refers to timers.
LEMMA CreateType ==
  ASSUME TypeOK, NEW t \in Timers, NEW e \in Instants, NEW rep \in BOOLEAN,
         newTimerTask(t, e, rep)
  PROVE  /\ created' \subseteq Timers /\ created \subseteq created' /\ t \in created'
         /\ expire' \in [Timers -> Instants]
         /\ repeat' \in [Timers -> BOOLEAN] /\ canceled' \in [Timers -> BOOLEAN]
         /\ pend \in Seq(Closures') /\ batch \in Seq(Closures')
         /\ \A u \in created : expire'[u] = expire[u]
         /\ expire'[t] = e
<1> USE DEF TypeOK, newTimerTask
<1>1. created \subseteq created' /\ t \in created' /\ created' \subseteq Timers
  OBVIOUS
<1>2. Closures \subseteq Closures'
  BY <1>1 DEF Closures
<1>3. pend \in Seq(Closures') /\ batch \in Seq(Closures')
  BY <1>2, SeqMonotonic
<1> QED BY <1>1, <1>3

\* TypeOK is kept by every call of the user.
LEMMA UserType ==
  ASSUME TypeOK, NEW t \in Timers, User(t)
  PROVE  TypeOK'
<1> USE TimerAssumption DEF fdVars, readVars, queueVars, taskVars
<1>0. Cap(now + Interval) \in Instants
  BY DEF TypeOK, Cap, Instants
<1>1. ASSUME NEW e \in Instants, NEW rep \in BOOLEAN, ScheduleNow(t, e, rep)
      PROVE  TypeOK'
  <2>1. newTimerTask(t, e, rep) /\ InsertTask(t, e)
        /\ UNCHANGED <<pc, now, timerActive, batchNow, expired, firing, running,
                       pend, batch>>
    BY <1>1 DEF ScheduleNow
  <2>2. /\ created' \subseteq Timers /\ created \subseteq created' /\ t \in created'
        /\ expire' \in [Timers -> Instants]
        /\ repeat' \in [Timers -> BOOLEAN] /\ canceled' \in [Timers -> BOOLEAN]
        /\ pend \in Seq(Closures') /\ batch \in Seq(Closures')
    BY <2>1, CreateType
  <2>3. tasks' \subseteq created'
    BY <2>1, <2>2 DEF InsertTask, TypeOK
  <2>4. deadline' \in Instants /\ readable' \in BOOLEAN
    BY <2>1, ArmedForIsInstant DEF InsertTask, resetTimerFd, TypeOK
  <2> QED BY <2>1, <2>2, <2>3, <2>4 DEF TypeOK
<1>2. ASSUME NEW e \in Instants, NEW rep \in BOOLEAN, ScheduleLater(t, e, rep)
      PROVE  TypeOK'
  <2>1. newTimerTask(t, e, rep)
        /\ pend' = Append(pend, [op |-> "add", timer |-> t, inCallback |-> FALSE])
        /\ UNCHANGED <<pc, now, timerActive, deadline, readable, tasks, batchNow,
                       expired, firing, running, batch>>
    BY <1>2 DEF ScheduleLater, AsyncExecute
  <2>2. /\ created' \subseteq Timers /\ created \subseteq created' /\ t \in created'
        /\ expire' \in [Timers -> Instants]
        /\ repeat' \in [Timers -> BOOLEAN] /\ canceled' \in [Timers -> BOOLEAN]
        /\ pend \in Seq(Closures') /\ batch \in Seq(Closures')
    BY <2>1, CreateType
  <2>3. [op |-> "add", timer |-> t, inCallback |-> FALSE] \in Closures'
    BY <2>2 DEF Closures
  <2>4. pend' \in Seq(Closures')
    BY <2>1, <2>2, <2>3, AppendProperties
  <2> QED BY <2>1, <2>2, <2>4 DEF TypeOK
<1>3. ASSUME NEW cb \in BOOLEAN, Cancel(t, cb) PROVE TypeOK'
  <2>1. [op |-> "cancel", timer |-> t, inCallback |-> cb] \in Closures
    BY <1>3 DEF Cancel, Closures
  <2>2. pend' \in Seq(Closures)
    BY <1>3, <2>1, AppendProperties DEF Cancel, AsyncExecute, TypeOK
  <2>3. Closures' = Closures
    BY <1>3 DEF Cancel, Closures
  <2> QED BY <1>3, <2>2, <2>3 DEF Cancel, TypeOK
<1> QED
  BY <1>0, <1>1, <1>2, <1>3 DEF User, Schedule, ScheduleAtFixRate, AsyncSchedule,
     AsyncScheduleAtFixRate

\* TypeOK is kept by every step of the loop and of the clock.
LEMMA LoopTimerType ==
  ASSUME TypeOK, Loop \/ Tick
  PROVE  TypeOK'
<1> USE TimerAssumption DEF fdVars, readVars, queueVars, taskVars
<1>1. CASE LoopStart \/ PollTimer \/ PollOther \/ ReadTimerFd
  BY <1>1 DEF LoopStart, PollTimer, PollOther, ReadTimerFd, TypeOK, Closures
<1>2. CASE getExpired
  BY <1>2 DEF getExpired, PopAll, TypeOK, Closures, Instants
<1>3. ASSUME NEW t \in Timers, RunTimer(t) PROVE TypeOK'
  BY <1>3 DEF RunTimer, TypeOK, Closures
<1>4. CASE CallbackReturn
  BY <1>4 DEF CallbackReturn, TypeOK, Closures
<1>5. CASE reset
  <2>1. expire' \in [Timers -> Instants]
    BY <1>5 DEF reset, TypeOK, Cap, Instants
  <2>2. deadline' \in Instants /\ readable' \in BOOLEAN
    <3>1. CASE UNCHANGED fdVars
      BY <3>1 DEF TypeOK
    <3>2. ASSUME NEW top \in tasks', resetTimerFd(expire'[top])
          PROVE  deadline' \in Instants /\ readable' \in BOOLEAN
      <4>1. expire'[top] \in Instants /\ now \in Instants
        BY <1>5, <2>1, <3>2 DEF reset, Restarted, TypeOK
      <4> QED BY <3>2, <4>1, ArmedForIsInstant DEF resetTimerFd
    <3> QED BY <1>5, <3>1, <3>2 DEF reset
  <2>3. tasks' \subseteq created /\ created' = created
    BY <1>5 DEF reset, Restarted, TypeOK
  <2> QED BY <1>5, <2>1, <2>2, <2>3 DEF reset, TypeOK, Closures
<1>6. CASE TakePending
  BY <1>6, EmptySeq DEF TakePending, TypeOK, Closures
<1>7. CASE RunAdd
  <2>1. Head(batch) \in Closures /\ Tail(batch) \in Seq(Closures)
    BY <1>7, HeadTailProperties DEF RunAdd, TypeOK
  <2>2. Head(batch).timer \in created
    BY <2>1 DEF Closures
  <2>3. expire[Head(batch).timer] \in Instants /\ now \in Instants
    BY <2>2 DEF TypeOK
  <2>4. deadline' \in Instants /\ readable' \in BOOLEAN
    BY <1>7, <2>3, ArmedForIsInstant DEF RunAdd, InsertTask, resetTimerFd, TypeOK
  <2>5. tasks' \subseteq created /\ created' = created
    BY <1>7, <2>2 DEF RunAdd, InsertTask, TypeOK
  <2> QED BY <1>7, <2>1, <2>4, <2>5 DEF RunAdd, TypeOK, Closures
<1>8. CASE RunCancel
  <2>1. Tail(batch) \in Seq(Closures)
    BY <1>8, HeadTailProperties DEF RunCancel, TypeOK
  <2>2. tasks' \subseteq tasks
    BY <1>8 DEF RunCancel
  <2> QED BY <1>8, <2>1, <2>2 DEF RunCancel, TypeOK, Closures
<1>9. CASE TasksDone
  BY <1>9 DEF TasksDone, TypeOK, Closures
<1>10. CASE Tick
  <2>1. now' \in Instants \ {0}
    BY <1>10 DEF Tick, TypeOK, Cap, Instants
  <2>2. 0 \in Instants
    BY DEF Instants
  <2>3. deadline' \in Instants
    BY <1>10, <2>2 DEF Tick, TypeOK
  <2>4. readable' \in BOOLEAN
    BY <1>10 DEF Tick, TypeOK
  <2> QED BY <1>10, <2>1, <2>3, <2>4 DEF Tick, TypeOK, Closures
<1> QED BY <1>1, <1>2, <1>3, <1>4, <1>5, <1>6, <1>7, <1>8, <1>9, <1>10 DEF Loop

\* reset leaves the timerfd armed for the top of the heap, or as it was when
\* the top has invalidTime.
LEMMA ResetArmed ==
  ASSUME TimerInv, reset, TypeOK'
  PROVE  TimerArmed'
<1> USE TimerAssumption DEF fdVars
<1>1. TypeOK /\ HandlerInv /\ pc = "fire" /\ now' = now
  BY DEF TimerInv, reset
<1>2. now \in Instants /\ \A t \in tasks' : expire'[t] \in Instants
  BY <1>1 DEF TypeOK
<1>3. CASE tasks' = {}
  BY <1>3 DEF TimerArmed
<1>4. ASSUME NEW z \in tasks', expire'[z] = 0 PROVE TimerArmed'
  <2>1. z \in tasks /\ expire[z] = 0
    BY <1>1, <1>4 DEF reset, Restarted, Cap, TypeOK, Instants
  <2>2. Armed(0) /\ UNCHANGED <<deadline, readable>>
    BY <1>1, <1>4, <2>1 DEF HandlerInv, reset
  <2>3. \A t \in tasks' : ArmedFor(0) <= ArmedFor(expire'[t])
    <3>1. 0 \in Instants /\ \A t \in tasks' : 0 <= expire'[t]
      BY <1>2 DEF Instants
    <3> QED BY <1>2, <3>1, ArmedForMonotonic
  <2>4. \A t \in tasks' : ArmedFor(0) \in Nat /\ ArmedFor(expire'[t]) \in Nat
                          /\ deadline \in Nat
    <3>1. 0 \in Instants /\ deadline \in Instants
      BY <1>1 DEF TypeOK, Instants
    <3>2. ArmedFor(0) \in Instants
          /\ \A t \in tasks' : ArmedFor(expire'[t]) \in Instants
      BY <1>2, <3>1, ArmedForIsInstant
    <3> QED BY <3>1, <3>2 DEF Instants
  <2>5. \A t \in tasks' :
          readable' \/ (deadline' # 0 /\ deadline' <= ArmedFor(expire'[t]))
    BY <2>2, <2>3, <2>4 DEF Armed
  <2> QED BY <1>1, <2>5 DEF TimerArmed, Armed, ArmedFor
<1>5. ASSUME NEW top \in tasks', \A t \in tasks' : expire'[top] <= expire'[t],
             resetTimerFd(expire'[top])
      PROVE  TimerArmed'
  <2>1. \A t \in tasks' : ArmedFor(expire'[top]) <= ArmedFor(expire'[t])
    BY <1>2, <1>5, ArmedForMonotonic
  <2>2. deadline' = ArmedFor(expire'[top]) /\ deadline' # 0
    BY <1>2, <1>5, ArmedForIsInstant DEF resetTimerFd
  <2>3. \A t \in tasks' : deadline' # 0 /\ deadline' <= ArmedFor(expire'[t])
    BY <2>1, <2>2
  <2> QED BY <1>1, <2>3 DEF TimerArmed, Armed, ArmedFor
<1> QED BY <1>3, <1>4, <1>5 DEF reset

\* A heap with a timer in it keeps the timerfd armed.
LEMMA NextArmed ==
  ASSUME TimerInv, Next, TypeOK'
  PROVE  TimerArmed'
<1> USE TimerAssumption DEF fdVars, readVars, queueVars, taskVars
<1>a. TypeOK /\ TimerArmed /\ HandlerInv
  BY DEF TimerInv
<1>b. now \in Instants
  BY <1>a DEF TypeOK
<1>1. CASE LoopStart \/ PollTimer \/ PollOther \/ ReadTimerFd \/ getExpired
           \/ CallbackReturn \/ TakePending \/ TasksDone
  BY <1>a, <1>1 DEF LoopStart, PollTimer, PollOther, ReadTimerFd, getExpired, PopAll,
     CallbackReturn, TakePending, TasksDone, TimerArmed, Armed, ArmedFor
<1>2. ASSUME NEW t \in Timers, RunTimer(t) PROVE TimerArmed'
  BY <1>2 DEF RunTimer, TimerArmed
<1>3. CASE reset
  BY <1>3, ResetArmed
<1>4. CASE RunAdd
  <2> DEFINE t == Head(batch).timer
  <2>1. t \in created /\ t \in Timers
    <3>1. Head(batch) \in Closures
      BY <1>a, <1>4, HeadTailProperties DEF RunAdd, TypeOK
    <3> QED BY <1>a, <3>1 DEF Closures, TypeOK
  <2>2. pc = "tasks" /\ now' = now /\ expire' = expire /\ tasks' = tasks \cup {t}
        /\ InsertTask(t, expire[t])
    BY <1>4 DEF RunAdd, InsertTask
  <2>3. expire[t] \in Instants
    BY <1>a, <2>1 DEF TypeOK
  <2>4. \A u \in tasks : Armed(expire[u])
    BY <1>a, <2>2 DEF TimerArmed
  <2>5. \A u \in tasks' :
          readable' \/ (deadline' # 0 /\ deadline' <= ArmedFor(expire[u]))
    BY <1>a, <2>1, <2>2, <2>3, <2>4, InsertArmed
  <2> QED BY <2>2, <2>5 DEF TimerArmed, Armed, ArmedFor
<1>5. CASE RunCancel
  <2>1. tasks' \subseteq tasks
        /\ UNCHANGED <<pc, expire, deadline, readable, now>>
    BY <1>5 DEF RunCancel
  <2> QED BY <1>a, <2>1 DEF TimerArmed, Armed, ArmedFor
<1>6. CASE Tick
  <2>1. UNCHANGED <<pc, tasks, expire>> /\ now' = Cap(now + 1)
    BY <1>6 DEF Tick
  <2>2. ASSUME NEW e \in Instants, Armed(e) PROVE Armed(e)'
    BY <1>a, <1>6, <2>2 DEF Tick, TypeOK, Armed, ArmedFor, Later, Cap, Instants
  <2>3. \A t \in tasks : expire[t] \in Instants
    BY <1>a DEF TypeOK
  <2>4. ASSUME pc \notin {"read", "fire", "callback"}, NEW t \in tasks
        PROVE  readable' \/ (deadline' # 0 /\ deadline' <= Later(expire[t], Cap(now' + 1)))
    <3>1. Armed(expire[t])
      BY <1>a, <2>4 DEF TimerArmed
    <3> QED BY <2>2, <2>3, <2>4, <3>1 DEF Armed, ArmedFor
  <2> QED BY <2>1, <2>4 DEF TimerArmed, Armed, ArmedFor
<1>7. ASSUME NEW t \in Timers, NEW e \in Instants, NEW rep \in BOOLEAN,
             ScheduleNow(t, e, rep)
      PROVE  TimerArmed'
  <2>1. newTimerTask(t, e, rep) /\ InsertTask(t, e) /\ pc' = pc /\ now' = now
    BY <1>7 DEF ScheduleNow
  <2>2. expire'[t] = e /\ \A u \in tasks : expire'[u] = expire[u]
    BY <1>a, <2>1, CreateType DEF TypeOK
  <2>3. tasks' = tasks \cup {t}
    BY <2>1 DEF InsertTask
  <2>4. ASSUME pc \notin {"read", "fire", "callback"}
        PROVE  \A u \in tasks' :
                 readable' \/ (deadline' # 0 /\ deadline' <= ArmedFor(expire'[u]))
    <3>1. \A u \in tasks : Armed(expire[u])
      BY <1>a, <2>4 DEF TimerArmed
    <3> QED BY <1>a, <2>1, <2>2, <2>3, <3>1, InsertArmed
  <2> QED BY <2>1, <2>4 DEF TimerArmed, Armed, ArmedFor
<1>8. ASSUME NEW t \in Timers, NEW e \in Instants, NEW rep \in BOOLEAN,
             ScheduleLater(t, e, rep)
      PROVE  TimerArmed'
  <2>1. newTimerTask(t, e, rep)
        /\ UNCHANGED <<pc, now, tasks, deadline, readable>>
    BY <1>8 DEF ScheduleLater
  <2>2. \A u \in tasks : expire'[u] = expire[u]
    BY <1>a, <2>1, CreateType DEF TypeOK
  <2> QED BY <1>a, <2>1, <2>2 DEF TimerArmed, Armed, ArmedFor
<1>9. ASSUME NEW t \in Timers, NEW cb \in BOOLEAN, Cancel(t, cb) PROVE TimerArmed'
  BY <1>a, <1>9 DEF Cancel, TimerArmed, Armed, ArmedFor
<1>10. Cap(now + Interval) \in Instants
  BY <1>a DEF TypeOK, Cap, Instants
<1> QED
  BY <1>1, <1>2, <1>3, <1>4, <1>5, <1>6, <1>7, <1>8, <1>9, <1>10
     DEF Next, Loop, User, Schedule, ScheduleAtFixRate, AsyncSchedule,
         AsyncScheduleAtFixRate

\* What handleRead relies on is kept.
LEMMA NextHandler ==
  ASSUME TimerInv, Next, TypeOK'
  PROVE  HandlerInv'
<1> USE TimerAssumption DEF fdVars, readVars, queueVars, taskVars
<1>a. TypeOK /\ TimerArmed /\ HandlerInv
  BY DEF TimerInv
<1>1. CASE LoopStart \/ PollTimer \/ PollOther \/ ReadTimerFd
           \/ CallbackReturn \/ TakePending \/ TasksDone
  BY <1>a, <1>1 DEF LoopStart, PollTimer, PollOther, ReadTimerFd,
     CallbackReturn, TakePending, TasksDone, HandlerInv, Armed, ArmedFor
<1>2. CASE getExpired
  <2>1. now \in Nat /\ now' = now /\ batchNow' = now /\ expire' = expire
        /\ pc' = "fire"
    BY <1>a, <1>2 DEF getExpired, PopAll, TypeOK, Instants
  <2>2. \A t \in firing' : expire[t] <= now
    BY <1>2 DEF getExpired, PopAll
  <2>3. \A t \in tasks' : expire[t] # 0
    BY <1>a, <1>2 DEF getExpired, PopAll, TypeOK, Instants
  <2> QED BY <2>1, <2>2, <2>3 DEF HandlerInv
<1>3. ASSUME NEW t \in Timers, RunTimer(t) PROVE HandlerInv'
  BY <1>a, <1>3 DEF RunTimer, HandlerInv, Armed, ArmedFor
<1>4. CASE reset
  BY <1>a, <1>4 DEF reset, HandlerInv
<1>5. CASE RunAdd \/ RunCancel
  <2>1. pc = "tasks" /\ UNCHANGED <<pc, firing, expire, now, batchNow>>
    BY <1>5 DEF RunAdd, RunCancel
  <2> QED BY <1>a, <2>1 DEF HandlerInv
<1>6. CASE Tick
  <2>1. UNCHANGED <<pc, tasks, expire, firing, batchNow>> /\ now' = Cap(now + 1)
    BY <1>6 DEF Tick
  <2>2. now \in Nat /\ batchNow \in Nat /\ now' \in Nat /\ now <= now'
    BY <1>a, <2>1 DEF TypeOK, Cap, Instants
  <2>3. \A t \in firing : expire[t] \in Nat
    BY <1>a DEF TypeOK, Instants
  <2>4. (\A t \in firing : expire[t] <= now') /\ batchNow <= now'
    BY <1>a, <2>2, <2>3 DEF HandlerInv
  <2>5. Armed(0) => Armed(0)'
    BY <1>a, <1>6 DEF Tick, TypeOK, Armed, ArmedFor, Later, Cap, Instants
  <2> QED BY <1>a, <2>1, <2>4, <2>5 DEF HandlerInv
<1>7. ASSUME NEW t \in Timers, NEW e \in Instants, NEW rep \in BOOLEAN,
             ScheduleNow(t, e, rep)
      PROVE  HandlerInv'
  <2>1. newTimerTask(t, e, rep) /\ InsertTask(t, e) /\ pc \notin {"read", "fire"}
        /\ UNCHANGED <<pc, now, firing, batchNow>>
    BY <1>7 DEF ScheduleNow, InUserCode
  <2>2. expire'[t] = e
        /\ \A u \in tasks \cup firing : expire'[u] = expire[u]
    BY <1>a, <2>1, CreateType DEF TypeOK
  <2>3. tasks' = tasks \cup {t}
    BY <2>1 DEF InsertTask
  <2>4. ASSUME pc = "callback", NEW u \in tasks', expire'[u] = 0
        PROVE  readable' \/ (deadline' # 0 /\ deadline' <= ArmedFor(0))
    <3>1. \A v \in tasks : expire[v] = 0 => Armed(0)
      BY <1>a, <2>4 DEF HandlerInv
    <3>2. e = 0 \/ \E v \in tasks : expire[v] = 0
      BY <2>2, <2>3, <2>4
    <3> QED BY <1>a, <2>1, <3>1, <3>2, InsertArmedZero
  <2> QED BY <1>a, <2>1, <2>2, <2>4 DEF HandlerInv, Armed, ArmedFor
<1>8. ASSUME NEW t \in Timers, NEW e \in Instants, NEW rep \in BOOLEAN,
             ScheduleLater(t, e, rep)
      PROVE  HandlerInv'
  <2>1. newTimerTask(t, e, rep)
        /\ UNCHANGED <<pc, now, tasks, deadline, readable, firing, batchNow>>
    BY <1>8 DEF ScheduleLater
  <2>2. \A u \in tasks \cup firing : expire'[u] = expire[u]
    BY <1>a, <2>1, CreateType DEF TypeOK
  <2> QED BY <1>a, <2>1, <2>2 DEF HandlerInv, Armed, ArmedFor
<1>9. ASSUME NEW t \in Timers, NEW cb \in BOOLEAN, Cancel(t, cb) PROVE HandlerInv'
  BY <1>a, <1>9 DEF Cancel, HandlerInv, Armed, ArmedFor
<1>10. Cap(now + Interval) \in Instants
  BY <1>a DEF TypeOK, Cap, Instants
<1> QED
  BY <1>1, <1>2, <1>3, <1>4, <1>5, <1>6, <1>7, <1>8, <1>9, <1>10
     DEF Next, Loop, User, Schedule, ScheduleAtFixRate, AsyncSchedule,
         AsyncScheduleAtFixRate

\* TimerInv is inductive.
LEMMA TimerNextInv == TimerInv /\ [Next]_vars => TimerInv'
<1> SUFFICES ASSUME TimerInv, [Next]_vars PROVE TimerInv'
  OBVIOUS
<1>1. CASE Next
  <2>1. TypeOK'
    BY <1>1, UserType, LoopTimerType DEF TimerInv, Next
  <2> QED BY <1>1, <2>1, NextArmed, NextHandler DEF TimerInv
<1>2. CASE UNCHANGED vars
  BY <1>2 DEF vars, fdVars, readVars, queueVars, taskVars, TimerInv, TypeOK,
     Closures, TimerArmed, HandlerInv, Armed, ArmedFor
<1> QED BY <1>1, <1>2

\* The inductive invariant holds in every reachable state of every instance.
THEOREM TimerInvariant == Spec => []TimerInv
BY TimerInit, TimerNextInv, PTL DEF Spec

\* Whatever is scheduled, canceled or restarted, from the loop or from other
\* goroutines, a timer in the heap has the timerfd armed for it.
THEOREM TimerAlwaysArmed == Spec => []TimerArmed
<1>1. TimerInv => TimerArmed
  BY DEF TimerInv
<1> QED BY <1>1, TimerInvariant, PTL

\* No callback runs before the instant its timer was scheduled for.
THEOREM NoEarlyCallback == Spec => NeverEarly
<1>1. ASSUME TimerInv, [Next]_vars
      PROVE  [running' # running /\ running' # NoTimer =>
                expire[running'] <= now]_vars
  <2>1. ASSUME NEW t \in Timers, RunTimer(t), running' # running
        PROVE  expire[running'] <= now
    BY <1>1, <2>1 DEF RunTimer, TimerInv, HandlerInv
  <2>2. CASE CallbackReturn
    BY <2>2 DEF CallbackReturn
  <2>3. CASE ~CallbackReturn /\ ~\E t \in Timers : RunTimer(t)
    <3>1. running' = running
      BY <1>1, <2>3 DEF Next, Loop, Tick, User, Schedule, ScheduleAtFixRate,
         AsyncSchedule, AsyncScheduleAtFixRate, ScheduleNow, ScheduleLater,
         Cancel, LoopStart, PollTimer, PollOther, ReadTimerFd, getExpired, PopAll, reset,
         TakePending, RunAdd, RunCancel, TasksDone, vars, readVars
    <3> QED BY <3>1
  <2> QED BY <2>1, <2>2, <2>3
<1> QED BY <1>1, TimerInvariant, PTL DEF Spec, NeverEarly

-----------------------------------------------------------------------------
(* A timer is in one place.                                                 *)

\* What pushing a closure does to the positions of the closures that add a timer.
LEMMA AppendAdds ==
  ASSUME NEW S, NEW q \in Seq(S), NEW x \in S, NEW t
  PROVE  /\ ~(x.op = "add" /\ x.timer = t) => AddsOf(Append(q, x), t) = AddsOf(q, t)
         /\ AddsOf(Append(q, x), t) \subseteq AddsOf(q, t) \cup {Len(q) + 1}
<1>1. /\ DOMAIN q = 1..Len(q) /\ Len(q) \in Nat
      /\ DOMAIN Append(q, x) = 1..(Len(q) + 1)
      /\ \A i \in 1..Len(q) : Append(q, x)[i] = q[i]
      /\ Append(q, x)[Len(q) + 1] = x
  OBVIOUS
<1>2. DOMAIN Append(q, x) = DOMAIN q \cup {Len(q) + 1}
  BY <1>1
<1> QED BY <1>1, <1>2 DEF AddsOf

\* The closures that add u after the first has been taken are those of before,
\* one place down.
LEMMA TailAdds ==
  ASSUME NEW S, NEW q \in Seq(S), q # <<>>, NEW t
  PROVE  \A i \in AddsOf(Tail(q), t) : i \in Nat \ {0} /\ i + 1 \in AddsOf(q, t)
<1>1. /\ DOMAIN q = 1..Len(q) /\ Len(q) \in Nat \ {0}
      /\ DOMAIN Tail(q) = 1..(Len(q) - 1)
      /\ \A i \in 1..(Len(q) - 1) : Tail(q)[i] = q[i + 1]
  BY HeadTailProperties
<1> QED BY <1>1 DEF AddsOf

\* No closure refers to a timer that is not created.
LEMMA NotCreatedNotPending ==
  ASSUME TypeOK, NEW t, t \notin created
  PROVE  AddsOf(pend, t) = {} /\ AddsOf(batch, t) = {} /\ t \notin tasks
         /\ t \notin expired
<1>1. /\ \A i \in DOMAIN pend : pend[i] \in Closures
      /\ \A i \in DOMAIN batch : batch[i] \in Closures
  BY DEF TypeOK
<1> QED BY <1>1 DEF AddsOf, Closures, TypeOK

\* A step of the user keeps every timer in one place.
LEMMA UserOnePlace ==
  ASSUME TypeOK, OnePlace, NEW t \in Timers, User(t)
  PROVE  OnePlace'
<1> USE DEF fdVars, readVars, queueVars, taskVars
<1>1. ASSUME NEW e, NEW rep, ScheduleNow(t, e, rep) PROVE OnePlace'
  <2>1. t \notin created /\ tasks' = tasks \cup {t} /\ UNCHANGED <<expired, pend, batch>>
    BY <1>1 DEF ScheduleNow, newTimerTask, InsertTask
  <2>2. AddsOf(pend, t) = {} /\ AddsOf(batch, t) = {} /\ t \notin expired
    BY <2>1, NotCreatedNotPending
  <2> QED BY <2>1, <2>2 DEF OnePlace, PendingAdd
<1>2. ASSUME NEW e, NEW rep, ScheduleLater(t, e, rep) PROVE OnePlace'
  <2> DEFINE x == [op |-> "add", timer |-> t, inCallback |-> FALSE]
  <2>1. t \notin created /\ pend' = Append(pend, x) /\ UNCHANGED <<tasks, expired, batch>>
    BY <1>2 DEF ScheduleLater, newTimerTask, AsyncExecute
  <2>2. AddsOf(pend, t) = {} /\ AddsOf(batch, t) = {} /\ t \notin expired
        /\ t \notin tasks
    BY <2>1, NotCreatedNotPending
  <2>3. pend \in Seq(Closures \cup {x}) /\ x \in Closures \cup {x}
    BY SeqMonotonic DEF TypeOK
  <2>4. AddsOf(pend', t) \subseteq {Len(pend) + 1}
    BY <2>1, <2>2, <2>3, AppendAdds
  <2>5. \A u \in Timers : u # t => AddsOf(pend', u) = AddsOf(pend, u)
    BY <2>1, <2>3, AppendAdds
  <2>6. \A u \in Timers : AddsOf(pend, u)' = AddsOf(pend', u)
                          /\ AddsOf(batch, u)' = AddsOf(batch, u)
    BY <2>1 DEF AddsOf
  <2>7. ASSUME NEW u \in Timers
        PROVE  /\ u \in tasks => u \notin expired /\ AddsOf(pend', u) = {}
                                                  /\ AddsOf(batch, u) = {}
               /\ u \in expired => AddsOf(pend', u) = {} /\ AddsOf(batch, u) = {}
               /\ AddsOf(pend', u) = {} \/ AddsOf(batch, u) = {}
               /\ \A q \in {pend', batch} : \A i, j \in AddsOf(q, u) : i = j
    BY <2>2, <2>4, <2>5 DEF OnePlace, PendingAdd
  <2> QED BY <2>1, <2>7 DEF OnePlace, PendingAdd
<1>3. ASSUME NEW cb \in BOOLEAN, Cancel(t, cb) PROVE OnePlace'
  <2> DEFINE x == [op |-> "cancel", timer |-> t, inCallback |-> cb]
  <2>1. pend' = Append(pend, x) /\ UNCHANGED <<tasks, expired, batch>>
    BY <1>3 DEF Cancel, AsyncExecute
  <2>2. pend \in Seq(Closures \cup {x}) /\ x \in Closures \cup {x}
    BY SeqMonotonic DEF TypeOK
  <2>3. \A u \in Timers : AddsOf(pend', u) = AddsOf(pend, u)
    BY <2>1, <2>2, AppendAdds
  <2> QED BY <2>1, <2>3 DEF OnePlace, PendingAdd
<1> QED
  BY <1>1, <1>2, <1>3 DEF User, Schedule, ScheduleAtFixRate, AsyncSchedule,
     AsyncScheduleAtFixRate

\* So does a step of the loop or of the clock.
LEMMA LoopOnePlace ==
  ASSUME TypeOK, OnePlace, Loop \/ Tick
  PROVE  OnePlace'
<1> USE DEF fdVars, readVars, queueVars, taskVars
<1>0. tasks \subseteq Timers /\ expired \subseteq Timers
  BY DEF TypeOK
<1>1. CASE LoopStart \/ PollTimer \/ PollOther \/ ReadTimerFd \/ CallbackReturn
           \/ TasksDone \/ Tick \/ \E t \in Timers : RunTimer(t)
  <2>1. UNCHANGED <<tasks, expired, pend, batch>>
    BY <1>1 DEF LoopStart, PollTimer, PollOther, ReadTimerFd, CallbackReturn, TasksDone,
       Tick, RunTimer
  <2> QED BY <2>1 DEF OnePlace, PendingAdd
<1>2. CASE getExpired
  <2>1. /\ expired' \subseteq tasks /\ tasks' = tasks \ expired'
        /\ UNCHANGED <<pend, batch>>
    BY <1>2 DEF getExpired, PopAll
  <2> QED BY <2>1 DEF OnePlace, PendingAdd
<1>3. CASE reset
  <2>1. /\ tasks' \subseteq tasks \cup expired /\ expired' = {}
        /\ UNCHANGED <<pend, batch>>
    BY <1>3 DEF reset, Restarted
  <2> QED BY <2>1 DEF OnePlace, PendingAdd
<1>4. CASE TakePending
  <2>1. batch' = pend /\ pend' = <<>> /\ UNCHANGED <<tasks, expired>>
    BY <1>4 DEF TakePending
  <2>2. \A u \in Timers : AddsOf(<<>>, u) = {}
    BY DEF AddsOf
  <2>3. ASSUME NEW u \in Timers
        PROVE  /\ u \in tasks => u \notin expired /\ AddsOf(pend', u) = {}
                                                  /\ AddsOf(batch', u) = {}
               /\ u \in expired => AddsOf(pend', u) = {} /\ AddsOf(batch', u) = {}
               /\ AddsOf(pend', u) = {} \/ AddsOf(batch', u) = {}
               /\ \A q \in {pend', batch'} : \A i, j \in AddsOf(q, u) : i = j
    BY <2>1, <2>2 DEF OnePlace, PendingAdd
  <2> QED BY <2>1, <2>3 DEF OnePlace, PendingAdd
<1>5. CASE RunAdd \/ RunCancel
  <2> DEFINE t == Head(batch).timer
  <2>1. batch # <<>> /\ batch' = Tail(batch) /\ UNCHANGED <<pend, expired>>
    BY <1>5 DEF RunAdd, RunCancel
  <2>2. batch \in Seq(Closures)
    BY DEF TypeOK
  <2>3. \A u \in Timers : \A i \in AddsOf(batch', u) :
           i \in Nat \ {0} /\ i + 1 \in AddsOf(batch, u)
    BY <2>1, <2>2, TailAdds
  <2>4. \A u \in Timers : AddsOf(batch, u) = {} => AddsOf(batch', u) = {}
    BY <2>3
  <2>5. \A u \in Timers : \A i, j \in AddsOf(batch', u) : i = j
    BY <2>3 DEF OnePlace
  <2>6. CASE RunCancel
    <3>1. tasks' \subseteq tasks
      BY <2>6 DEF RunCancel
    <3> QED BY <2>1, <2>4, <2>5, <3>1 DEF OnePlace, PendingAdd
  <2>7. CASE RunAdd
    <3>1. tasks' = tasks \cup {t} /\ Head(batch).op = "add"
      BY <2>7 DEF RunAdd, InsertTask
    <3>2. t \in Timers /\ 1 \in AddsOf(batch, t)
      <4>1. Head(batch) \in Closures /\ Head(batch) = batch[1] /\ 1 \in DOMAIN batch
        BY <2>1, <2>2, HeadTailProperties
      <4> QED BY <3>1, <4>1 DEF AddsOf, Closures, TypeOK
    <3>3. t \notin expired /\ AddsOf(pend, t) = {}
      BY <3>2 DEF OnePlace, PendingAdd
    <3>4. AddsOf(batch', t) = {}
      <4>1. \A i \in AddsOf(batch, t) : i = 1
        BY <3>2 DEF OnePlace
      <4> QED BY <2>3, <3>2, <4>1
    <3> QED BY <2>1, <2>4, <2>5, <3>1, <3>3, <3>4 DEF OnePlace, PendingAdd
  <2> QED BY <1>5, <2>6, <2>7
<1> QED BY <1>1, <1>2, <1>3, <1>4, <1>5 DEF Loop

\* Every timer is in one place at a time, however it is scheduled, run,
\* restarted and canceled, and by whichever goroutine: addTask0, handleRead
\* and reset never meet it twice.
THEOREM TimerInOnePlace == Spec => []OnePlace
<1>1. Init => OnePlace
  <2> SUFFICES ASSUME Init PROVE OnePlace
    OBVIOUS
  <2>1. pend = <<>> /\ batch = <<>> /\ tasks = {} /\ expired = {}
    BY DEF Init
  <2>2. \A u \in Timers : AddsOf(<<>>, u) = {}
    BY DEF AddsOf
  <2> QED BY <2>1, <2>2 DEF OnePlace, PendingAdd
<1>2. TimerInv /\ OnePlace /\ [Next]_vars => OnePlace'
  <2> SUFFICES ASSUME TimerInv, OnePlace, [Next]_vars PROVE OnePlace'
    OBVIOUS
  <2>1. CASE UNCHANGED vars
    BY <2>1 DEF vars, taskVars, readVars, queueVars, OnePlace, PendingAdd
  <2> QED BY <2>1, UserOnePlace, LoopOnePlace DEF Next, TimerInv
<1> QED BY <1>1, <1>2, TimerInvariant, PTL DEF Spec

-----------------------------------------------------------------------------
(* A timer that is gone.                                                    *)

\* A timer that is out of the heap, does not repeat and has no closure that
\* adds it never comes back: not by reset, not by addTask0, not by a call of
\* the user, who always makes a new timer.
THEOREM GoneStaysGone == Spec => GoneIsGone
<1>1. ASSUME TimerInv, [Next]_vars
      PROVE  [\A t \in created :
                t \notin tasks /\ ~repeat[t] /\ ~PendingAdd(t) => t \notin tasks']_vars
  <2> SUFFICES ASSUME Next, NEW t \in created, t \notin tasks, ~repeat[t], ~PendingAdd(t)
               PROVE  t \notin tasks'
    BY <1>1
  <2>1. ASSUME NEW u \in Timers, User(u) PROVE t \notin tasks'
    BY <2>1 DEF User, Schedule, ScheduleAtFixRate, ScheduleNow, newTimerTask, InsertTask,
                AsyncSchedule, AsyncScheduleAtFixRate, ScheduleLater, Cancel, taskVars
  <2>2. CASE reset
    BY <2>2 DEF reset, Restarted
  <2>3. CASE RunAdd
    <3>1. 1 \in DOMAIN batch /\ Head(batch) = batch[1]
      BY <1>1, <2>3 DEF RunAdd, TimerInv, TypeOK
    <3>2. Head(batch).timer # t
      BY <2>3, <3>1 DEF RunAdd, PendingAdd, AddsOf
    <3> QED BY <2>3, <3>2 DEF RunAdd, InsertTask
  <2>4. CASE Loop /\ ~reset /\ ~RunAdd
    BY <2>4 DEF Loop, LoopStart, PollTimer, PollOther, ReadTimerFd, getExpired, PopAll,
                RunTimer, CallbackReturn, TakePending, RunCancel, TasksDone, taskVars
  <2>5. CASE Tick
    BY <2>5 DEF Tick, taskVars
  <2> QED BY <2>1, <2>2, <2>3, <2>4, <2>5 DEF Next
<1> QED BY <1>1, TimerInvariant, PTL DEF Spec, GoneIsGone

=============================================================================
