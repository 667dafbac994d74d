----------------------------- MODULE TimerQueue -----------------------------
(***************************************************************************)
(* The timers of one event loop: timer.go and the Schedule / AsyncSchedule *)
(* family of eventloop.go.                                                 *)
(*                                                                         *)
(* The loop is reduced to the rounds of EventLoop: poll, the active        *)
(* channels, the tasks that were pending when the round took them.         *)
(* AsyncExecute is one atomic push on a FIFO that wakes the loop, which is *)
(* what EventLoop is shown to implement.  The heap is the set of timers in *)
(* it; TimerHeap shows that container/heap keeps an earliest one on top.   *)
(*                                                                         *)
(* Time is in ticks of the 100 microseconds below which resetTimerFd does  *)
(* not go.  Instant 0 is invalidTime; the clock starts after it.  Instants *)
(* from MaxTime on are not told apart.                                     *)
(***************************************************************************)
EXTENDS Naturals, Sequences

CONSTANTS
    Timers,      \* one member per *TimerTask ever created
    NoTimer,     \* no timer
    Interval,    \* interval of the timers of ScheduleAtFixRate
    MaxTime,     \* bound: the last instant of the clock
    MaxPending   \* bound: pending tasks at any time

ASSUME TimerAssumption ==
    /\ NoTimer \notin Timers
    /\ Interval \in Nat \ {0}
    /\ MaxTime \in Nat \ {0}
    /\ MaxPending \in Nat

VARIABLES
    pc,          \* where the loop's goroutine is
    now,         \* time.Now()
    deadline,    \* when the timerfd expires, 0 when it is disarmed
    readable,    \* the timerfd has expired and was not read
    timerActive, \* timerFdChannel is in el.activeChannels, not yet handled
    created,     \* timers made by newTimerTask
    expire, repeat, canceled,  \* fields of TimerTask
    tasks,       \* tq.tasks: the timers in the heap
    batchNow,    \* local now of handleRead
    expired,     \* local expiredTask of handleRead
    firing,      \* those of expired the loop over them has not reached
    running,     \* the timer whose callback runs
    pend,        \* el.pendingTasks: the closures of addTask0 and cancel
    batch        \* the tasks runPendingTasks has taken and not yet called

fdVars    == <<deadline, readable>>
taskVars  == <<created, expire, repeat, canceled, tasks>>
readVars  == <<batchNow, expired, firing, running>>
queueVars == <<pend, batch>>
vars == <<pc, now, timerActive, fdVars, taskVars, readVars, queueVars>>

Instants == 0..MaxTime
Closures == [op : {"add", "cancel"}, timer : created, inCallback : BOOLEAN]

TypeOK ==
    /\ pc \in {"created", "poll", "events", "read", "fire", "callback", "tasks"}
    /\ now \in Instants \ {0}
    /\ deadline \in Instants
    /\ readable \in BOOLEAN
    /\ timerActive \in BOOLEAN
    /\ created \subseteq Timers
    /\ expire \in [Timers -> Instants]
    /\ repeat \in [Timers -> BOOLEAN]
    /\ canceled \in [Timers -> BOOLEAN]
    /\ tasks \subseteq created
    /\ batchNow \in Instants
    /\ expired \subseteq created
    /\ firing \subseteq expired
    /\ running \in Timers \cup {NoTimer}
    /\ pend \in Seq(Closures)
    /\ batch \in Seq(Closures)

Init ==
    /\ pc = "created"
    /\ now = 1
    /\ deadline = 0
    /\ readable = FALSE
    /\ timerActive = FALSE
    /\ created = {}
    /\ expire = [t \in Timers |-> 0]
    /\ repeat = [t \in Timers |-> FALSE]
    /\ canceled = [t \in Timers |-> FALSE]
    /\ tasks = {}
    /\ batchNow = 0
    /\ expired = {}
    /\ firing = {}
    /\ running = NoTimer
    /\ pend = <<>>
    /\ batch = <<>>

-----------------------------------------------------------------------------
(* Helpers.                                                                 *)

Cap(i) == IF i > MaxTime THEN MaxTime ELSE i

Later(i, j) == IF i > j THEN i ELSE j

\* When a timerfd armed now for instant e expires: one tick from now at the
\* earliest.
ArmedFor(e) == Later(e, Cap(now + 1))

\* Mutation: without the minimum, an instant in the past is a duration of
\* zero, which disarms the timerfd.
resetTimerFd_NoMinimum(e) ==
    /\ deadline' = IF e > now THEN e ELSE 0
    /\ readable' = FALSE

\* timerfd_settime: the new deadline replaces the old one and what had
\* expired and was not read is forgotten.
resetTimerFd(e) ==
    /\ deadline' = ArmedFor(e)
    /\ readable' = FALSE

\* insert's result: the new timer is earlier than all in the heap.
EarliestChanged(e) == \A t \in tasks : e < expire[t]

\* newTimerTask.
newTimerTask(t, e, rep) ==
    /\ t \notin created
    /\ created' = created \cup {t}
    /\ expire' = [expire EXCEPT ![t] = e]
    /\ repeat' = [repeat EXCEPT ![t] = rep]
    /\ UNCHANGED canceled

\* Mutation: the timerfd is armed only when the heap was empty.
InsertTask_OnlyWhenEmpty(t, e) ==
    /\ tasks' = tasks \cup {t}
    /\ IF tasks = {} THEN resetTimerFd(e) ELSE UNCHANGED fdVars

\* addTask and addTask0 on a timer that expires at e.
InsertTask(t, e) ==
    /\ tasks' = tasks \cup {t}
    /\ IF EarliestChanged(e) THEN resetTimerFd(e) ELSE UNCHANGED fdVars

AsyncExecute(op, t, cb) ==
    /\ Len(pend) < MaxPending
    /\ pend' = Append(pend, [op |-> op, timer |-> t, inCallback |-> cb])

-----------------------------------------------------------------------------
(* The user's calls.                                                        *)

\* Where the loop's goroutine executes the user's code: before Loop(), in
\* the callback of another channel, in a timer's callback, in a task.
InUserCode == pc \in {"created", "events", "callback", "tasks"}

\* Schedule, ScheduleDelay, ScheduleAtFixRate: in the loop's goroutine.
ScheduleNow(t, e, rep) ==
    /\ InUserCode
    /\ newTimerTask(t, e, rep)
    /\ InsertTask(t, e)
    /\ UNCHANGED <<pc, now, timerActive, readVars, queueVars>>

Schedule(t, e) == ScheduleNow(t, e, FALSE)
ScheduleAtFixRate(t) == ScheduleNow(t, Cap(now + Interval), TRUE)

\* AsyncSchedule, AsyncScheduleDelay, AsyncScheduleAtFixRate: in any goroutine.
ScheduleLater(t, e, rep) ==
    /\ newTimerTask(t, e, rep)
    /\ AsyncExecute("add", t, FALSE)
    /\ UNCHANGED <<pc, now, timerActive, fdVars, tasks, readVars, batch>>

AsyncSchedule(t, e) == ScheduleLater(t, e, FALSE)
AsyncScheduleAtFixRate(t) == ScheduleLater(t, Cap(now + Interval), TRUE)

\* TimerTask.Cancel, in any goroutine; cb tells a call that is made in the
\* callback of another timer.
Cancel(t, cb) ==
    /\ t \in created
    /\ cb => pc = "callback" /\ running # t
    /\ AsyncExecute("cancel", t, cb)
    /\ UNCHANGED <<pc, now, timerActive, fdVars, taskVars, readVars, batch>>

-----------------------------------------------------------------------------
(* The loop.                                                                *)

LoopStart ==
    /\ pc = "created"
    /\ pc' = "poll"
    /\ UNCHANGED <<now, timerActive, fdVars, taskVars, readVars, queueVars>>

\* poll reports the timerfd.
PollTimer ==
    /\ pc = "poll"
    /\ readable
    /\ timerActive' = TRUE
    /\ pc' = "events"
    /\ UNCHANGED <<now, fdVars, taskVars, readVars, queueVars>>

\* poll returns without it: other channels, the wakeup, the timeout.
PollOther ==
    /\ pc = "poll"
    /\ timerActive' = FALSE
    /\ pc' = "events"
    /\ UNCHANGED <<now, fdVars, taskVars, readVars, queueVars>>

\* handleRead up to the read, which fails with EAGAIN when a handler before
\* it has armed the timerfd anew; the error is logged and ignored.
ReadTimerFd ==
    /\ pc = "events"
    /\ timerActive
    /\ timerActive' = FALSE
    /\ readable' = FALSE
    /\ pc' = "read"
    /\ UNCHANGED <<now, deadline, taskVars, readVars, queueVars>>

\* handleRead up to the loop over the timers that getExpired has returned,
\* which have left the heap.
PopAll(due) ==
    /\ pc = "read"
    /\ batchNow' = now
    /\ expired' = due
    /\ firing' = due
    /\ tasks' = tasks \ due
    /\ pc' = "fire"
    /\ UNCHANGED <<now, timerActive, fdVars, created, expire, repeat, canceled,
                   running, queueVars>>

\* Mutation: timers due within the next tick are taken along.
getExpired_Early == PopAll({t \in tasks : expire[t] <= now + 1})

\* Mutation: canceled timers are not popped.
getExpired_NotCanceled == PopAll({t \in tasks : expire[t] <= now /\ ~canceled[t]})

\* Mutation: the due timers are returned and stay in the heap.
getExpired_Keeps ==
    /\ pc = "read"
    /\ batchNow' = now
    /\ expired' = {t \in tasks : expire[t] <= now}
    /\ firing' = expired'
    /\ pc' = "fire"
    /\ UNCHANGED <<now, timerActive, fdVars, taskVars, running, queueVars>>

\* getExpired: every timer that is due leaves the heap.
getExpired == PopAll({t \in tasks : expire[t] <= now})

\* The loop over the expired timers, in the order they were popped: one that
\* is canceled is passed over, the callback of another is entered.
RunTimer(t) ==
    /\ pc = "fire"
    /\ t \in firing
    /\ \A u \in firing : expire[t] <= expire[u]
    /\ firing' = firing \ {t}
    /\ IF canceled[t]
       THEN UNCHANGED <<pc, running>>
       ELSE pc' = "callback" /\ running' = t
    /\ UNCHANGED <<now, timerActive, fdVars, taskVars, batchNow, expired,
                   queueVars>>

CallbackReturn ==
    /\ pc = "callback"
    /\ pc' = "fire"
    /\ running' = NoTimer
    /\ UNCHANGED <<now, timerActive, fdVars, taskVars, batchNow, expired, firing,
                   queueVars>>

\* Mutation: every expired timer starts over.
Restarted_All == expired

\* The timers that start over.
Restarted == {t \in expired : repeat[t] /\ ~canceled[t]}

\* reset: repeating timers go back to the heap, counted from the instant of
\* getExpired; then the timerfd is armed for the top unless that has
\* invalidTime, in which case what addTask armed is left.
reset ==
    /\ pc = "fire"
    /\ firing = {}
    /\ expire' = [t \in Timers |->
                    IF t \in Restarted THEN Cap(batchNow + Interval) ELSE expire[t]]
    /\ tasks' = tasks \cup Restarted
    /\ IF tasks' = {} \/ \E t \in tasks' : expire'[t] = 0
       THEN UNCHANGED fdVars
       ELSE \E top \in tasks' :
               /\ \A t \in tasks' : expire'[top] <= expire'[t]
               /\ resetTimerFd(expire'[top])
    /\ expired' = {}
    /\ pc' = "events"
    /\ UNCHANGED <<now, timerActive, created, repeat, canceled, batchNow, firing,
                   running, queueVars>>

\* All active channels handled; runPendingTasks takes the pending tasks.
TakePending ==
    /\ pc = "events"
    /\ ~timerActive
    /\ batch' = pend
    /\ pend' = <<>>
    /\ pc' = "tasks"
    /\ UNCHANGED <<now, timerActive, fdVars, taskVars, readVars>>

\* A task is the closure of addTask0.
RunAdd ==
    /\ pc = "tasks"
    /\ batch # <<>>
    /\ Head(batch).op = "add"
    /\ InsertTask(Head(batch).timer, expire[Head(batch).timer])
    /\ batch' = Tail(batch)
    /\ UNCHANGED <<pc, now, timerActive, created, expire, repeat, canceled,
                   readVars, pend>>

\* A task is the closure of cancel: the timer is taken out of the heap
\* unless it is not in it (index -1) or on top of it (index 0); which of the
\* earliest timers is on top is the heap's choice.
RunCancel ==
    /\ pc = "tasks"
    /\ batch # <<>>
    /\ Head(batch).op = "cancel"
    /\ LET t == Head(batch).timer IN
         /\ repeat' = [repeat EXCEPT ![t] = FALSE]
         /\ canceled' = [canceled EXCEPT ![t] = TRUE]
         /\ \/ /\ t \in tasks
               /\ \E u \in tasks \ {t} : expire[u] <= expire[t]
               /\ tasks' = tasks \ {t}
            \/ /\ t \notin tasks \/ \A u \in tasks : expire[t] <= expire[u]
               /\ UNCHANGED tasks
    /\ batch' = Tail(batch)
    /\ UNCHANGED <<pc, now, timerActive, fdVars, created, expire, readVars, pend>>

TasksDone ==
    /\ pc = "tasks"
    /\ batch = <<>>
    /\ pc' = "poll"
    /\ UNCHANGED <<now, timerActive, fdVars, taskVars, readVars, queueVars>>

\* The clock, and the timerfd with it.
Tick ==
    /\ now' = Cap(now + 1)
    /\ IF deadline # 0 /\ deadline <= now'
       THEN readable' = TRUE /\ deadline' = 0
       ELSE UNCHANGED fdVars
    /\ UNCHANGED <<pc, timerActive, taskVars, readVars, queueVars>>

User(t) ==
    \/ \E e \in Instants : Schedule(t, e) \/ AsyncSchedule(t, e)
    \/ ScheduleAtFixRate(t) \/ AsyncScheduleAtFixRate(t)
    \/ \E cb \in BOOLEAN : Cancel(t, cb)

Loop ==
    \/ LoopStart \/ PollTimer \/ PollOther
    \/ ReadTimerFd \/ getExpired
    \/ \E t \in Timers : RunTimer(t)
    \/ CallbackReturn \/ reset
    \/ TakePending \/ RunAdd \/ RunCancel \/ TasksDone

Next == Loop \/ Tick \/ \E t \in Timers : User(t)

Spec == Init /\ [][Next]_vars

\* The loop runs, callbacks return, and the clock advances.  Strong fairness
\* of PollTimer and weak fairness of PollOther are what EventLoop establishes
\* of a ready channel (ReadyChannelIsServed) and of a pending task
\* (EveryTaskRuns).
Fairness ==
    /\ WF_vars(LoopStart) /\ SF_vars(PollTimer) /\ WF_vars(PollOther)
    /\ WF_vars(ReadTimerFd) /\ WF_vars(getExpired)
    /\ WF_vars(\E t \in Timers : RunTimer(t)) /\ WF_vars(CallbackReturn)
    /\ WF_vars(reset) /\ WF_vars(TakePending) /\ WF_vars(RunAdd)
    /\ WF_vars(RunCancel) /\ WF_vars(TasksDone) /\ WF_vars(Tick)

FairSpec == Spec /\ Fairness

-----------------------------------------------------------------------------
(* Properties.                                                              *)

\* The closures in q that add t, by their position.
AddsOf(q, t) == {i \in DOMAIN q : q[i].op = "add" /\ q[i].timer = t}

PendingAdd(t) == AddsOf(pend, t) # {} \/ AddsOf(batch, t) # {}

\* The timerfd has expired, or will by the time it could have for instant e.
Armed(e) == readable \/ (deadline # 0 /\ deadline <= ArmedFor(e))

\* A heap with a timer in it never waits for nothing: outside handleRead the
\* timerfd has expired, or it is armed for no later than the earliest timer,
\* canceled timers that were left on top included.
TimerArmed ==
    pc \notin {"read", "fire", "callback"} =>
        \A t \in tasks : Armed(expire[t])

\* What handleRead may rely on: the timers it has popped were due, and a
\* timer with invalidTime that a callback adds has armed the timerfd, since
\* reset will not.
HandlerInv ==
    /\ pc # "fire" => pc = "callback" \/ firing = {}
    /\ \A t \in firing : expire[t] <= now
    /\ batchNow <= now
    /\ pc \in {"fire", "callback"} =>
          \A t \in tasks : expire[t] = 0 => Armed(0)

\* The inductive invariant of the proofs.
TimerInv == TypeOK /\ TimerArmed /\ HandlerInv

\* A timer is in one place: the heap, the expired timers of the round, or on
\* its way to the heap, with one closure; and reset finds no expired timer in
\* the heap again.
OnePlace ==
    \A t \in Timers :
        /\ t \in tasks => t \notin expired /\ ~PendingAdd(t)
        /\ t \in expired => ~PendingAdd(t)
        /\ AddsOf(pend, t) = {} \/ AddsOf(batch, t) = {}
        /\ \A q \in {pend, batch} : \A i, j \in AddsOf(q, t) : i = j

\* A callback is never run before its instant, however late or often the
\* timerfd was armed and whatever became of the timer in between.
NeverEarly ==
    [][running' # running /\ running' # NoTimer => expire[running'] <= now]_vars

\* A timer that will not repeat, because it is one-shot or because it was
\* canceled, does not come back to the heap once it has left it.
GoneIsGone ==
    [][\A t \in created :
          t \notin tasks /\ ~repeat[t] /\ ~PendingAdd(t) => t \notin tasks']_vars

\* Every timer that is scheduled, in the loop or from another goroutine, is
\* run or canceled.
EveryTimerRuns ==
    \A t \in Timers :
        t \in tasks \/ PendingAdd(t) ~> (running = t \/ canceled[t])

\* A canceled timer leaves the queue for good, also one that was left on top
\* of the heap and one that was canceled in its own callback.
CanceledLeaves ==
    \A t \in Timers : canceled[t] ~> [](t \notin tasks \cup expired)

\* timer.go, in cancel: "if you cancel the timer in another timer's callback,
\* the timer will still run, so we need to set canceled to true and don't run
\* timer's callback if it is canceled".
CancelInCallbackIsSeen ==
    [][running' # running /\ running' # NoTimer =>
          ~\E i \in DOMAIN pend : pend[i] = [op |-> "cancel", timer |-> running',
                                             inCallback |-> TRUE]]_vars

=============================================================================
