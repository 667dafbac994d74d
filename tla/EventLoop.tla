----------------------------- MODULE EventLoop -----------------------------
(***************************************************************************)
(* The reactor of muduo-go: eventloop.go with Poller.poll of poller.go.    *)
(*                                                                         *)
(* One goroutine, LoopThread, executes Loop(); it and every other          *)
(* goroutine that holds the *Eventloop may call AsyncExecute, Stop and     *)
(* AsyncStop.  The shared state is the list of pending tasks (guarded by   *)
(* taskMutex where it is pushed and swapped, read without it where it is   *)
(* taken), the quit flag and the eventfd that wakes epoll_wait.            *)
(*                                                                         *)
(* Not represented, because nothing in the code reads them: the looping    *)
(* and runningPendingTasks flags, Channel.evtHandling, Channel.ele.        *)
(***************************************************************************)
EXTENDS Naturals, Sequences, FiniteSets

CONSTANTS
    Threads,        \* goroutines other than the one that runs Loop()
    LoopThread,     \* the goroutine that runs Loop()
    Tasks,          \* one member per call of AsyncExecute: its closure
    Channels,       \* channels registered with the poller, wakeupChannel apart
    WakeupChannel,  \* el.wakeupChannel, whose fd is el.evtFd
    EventListLen,   \* length of poller.eventList when it is made (16 in the code)
    None            \* no task, no goroutine

ASSUME LoopAssumption ==
    /\ LoopThread \notin Threads
    /\ WakeupChannel \notin Channels
    /\ None \notin Tasks \cup Threads \cup {LoopThread}
    /\ IsFiniteSet(Channels)
    /\ EventListLen \in Nat \ {0}

Callers == Threads \cup {LoopThread}

VARIABLES
    pc,         \* where Loop() is
    quit,       \* el.quit
    evtFd,      \* the eventfd: counter zero, counter positive, or closed
    lists,      \* the two *list.List in use: the elements not yet visited
    cur,        \* which of the two el.pendingTasks points to
    pt,         \* which of the two the local pt of runPendingTasks points to
    taskMutex,  \* the goroutine that holds el.taskMutex
    call,       \* per goroutine, where it is in AsyncExecute / AsyncStop
    dst,        \* per goroutine, the list AsyncExecute pushes to
    arg,        \* per goroutine, the task AsyncExecute pushes
    active,     \* el.activeChannels, those not handled yet
    eventLen,   \* len(poller.eventList)
    ready,      \* Channels whose fd is ready (level triggered)
    submitted,  \* tasks given to AsyncExecute so far
    ran         \* tasks called so far, in order

queueVars == <<lists, cur, pt, taskMutex, dst, arg, submitted, ran>>
pollVars  == <<active, eventLen, ready>>
vars      == <<pc, quit, evtFd, call, queueVars, pollVars>>

LoopPCs == {"created", "cond", "poll", "events", "handler", "take", "swap",
            "tasks", "task", "done"}

TypeOK ==
    /\ pc \in LoopPCs
    /\ quit \in BOOLEAN
    /\ evtFd \in {"zero", "ready", "closed"}
    /\ lists \in [{0, 1} -> Seq(Tasks)]
    /\ cur \in {0, 1}
    /\ pt \in {0, 1}
    /\ taskMutex \in Callers \cup {None}
    /\ call \in [Callers -> {"idle", "push", "wakeup", "stopWakeup"}]
    /\ dst \in [Callers -> {0, 1}]
    /\ arg \in [Callers -> Tasks \cup {None}]
    /\ active \subseteq Channels \cup {WakeupChannel}
    /\ eventLen \in Nat \ {0}
    /\ ready \subseteq Channels
    /\ submitted \subseteq Tasks
    /\ ran \in Seq(Tasks)

\* NewEventloop has returned and Loop() has not been called.
Init ==
    /\ pc = "created"
    /\ quit = FALSE
    /\ evtFd = "zero"
    /\ lists = [l \in {0, 1} |-> <<>>]
    /\ cur = 0
    /\ pt = 1
    /\ taskMutex = None
    /\ call = [c \in Callers |-> "idle"]
    /\ dst = [c \in Callers |-> 0]
    /\ arg = [c \in Callers |-> None]
    /\ active = {}
    /\ eventLen = EventListLen
    /\ ready = {}
    /\ submitted = {}
    /\ ran = <<>>

-----------------------------------------------------------------------------
(* Calls from any goroutine.  The loop's own goroutine calls from inside a  *)
(* channel callback or a task, or before it enters Loop().                  *)

CanCall(c) ==
    /\ call[c] = "idle"
    /\ c = LoopThread => pc \in {"created", "handler", "task"}

\* AsyncExecute up to the receiver of PushBack: the mutex is taken and
\* el.pendingTasks is read under it.
AsyncExecute(c, t) ==
    /\ CanCall(c)
    /\ t \notin submitted
    /\ taskMutex = None
    /\ taskMutex' = c
    /\ dst' = [dst EXCEPT ![c] = cur]
    /\ arg' = [arg EXCEPT ![c] = t]
    /\ submitted' = submitted \cup {t}
    /\ call' = [call EXCEPT ![c] = "push"]
    /\ UNCHANGED <<pc, quit, evtFd, lists, cur, pt, ran, pollVars>>

\* PushBack and Unlock.
PushBack(c) ==
    /\ call[c] = "push"
    /\ lists' = [lists EXCEPT ![dst[c]] = Append(@, arg[c])]
    /\ taskMutex' = None
    /\ arg' = [arg EXCEPT ![c] = None]
    /\ call' = [call EXCEPT ![c] = "wakeup"]
    /\ UNCHANGED <<pc, quit, evtFd, cur, pt, dst, submitted, ran, pollVars>>

\* The eventfd after a write of 1.  On a closed descriptor the write changes
\* nothing of this loop.
Signalled == IF evtFd = "closed" THEN "closed" ELSE "ready"

\* Mutation: the loop's own goroutine does not wake itself.
Wakeup_NotFromLoop(c) ==
    /\ call[c] \in {"wakeup", "stopWakeup"}
    /\ evtFd' = IF c = LoopThread THEN evtFd ELSE Signalled
    /\ call' = [call EXCEPT ![c] = "idle"]
    /\ UNCHANGED <<pc, quit, queueVars, pollVars>>

\* Mutation: the write is saved when no task is pending.
Wakeup_OnlyForTasks(c) ==
    /\ call[c] \in {"wakeup", "stopWakeup"}
    /\ evtFd' = IF lists[cur] = <<>> THEN evtFd ELSE Signalled
    /\ call' = [call EXCEPT ![c] = "idle"]
    /\ UNCHANGED <<pc, quit, queueVars, pollVars>>

\* Wakeup, the end of AsyncExecute and of AsyncStop: one write of 1 to the
\* eventfd, whose result is ignored.
Wakeup(c) ==
    /\ call[c] \in {"wakeup", "stopWakeup"}
    /\ evtFd' = Signalled
    /\ call' = [call EXCEPT ![c] = "idle"]
    /\ UNCHANGED <<pc, quit, queueVars, pollVars>>

\* Stop stores the flag and wakes nobody.
Stop(c) ==
    /\ CanCall(c)
    /\ quit' = TRUE
    /\ UNCHANGED <<pc, evtFd, call, queueVars, pollVars>>

\* AsyncStop stores the flag, then calls Wakeup.
AsyncStop(c) ==
    /\ CanCall(c)
    /\ quit' = TRUE
    /\ call' = [call EXCEPT ![c] = "stopWakeup"]
    /\ UNCHANGED <<pc, evtFd, queueVars, pollVars>>

-----------------------------------------------------------------------------
(* Loop().                                                                  *)

\* Entry: both flags are stored, so an earlier quit is overwritten.
LoopStart ==
    /\ pc = "created"
    /\ call[LoopThread] = "idle"
    /\ pc' = "cond"
    /\ quit' = FALSE
    /\ UNCHANGED <<evtFd, call, queueVars, pollVars>>

\* Mutation: quit is not looked at.
LoopContinue_NoQuitCheck ==
    /\ pc = "cond"
    /\ pc' = "poll"
    /\ active' = {}
    /\ UNCHANGED <<quit, evtFd, call, queueVars, eventLen, ready>>

\* Top of the for loop, quit not seen.
LoopContinue ==
    /\ pc = "cond"
    /\ ~quit
    /\ pc' = "poll"
    /\ active' = {}
    /\ UNCHANGED <<quit, evtFd, call, queueVars, eventLen, ready>>

\* Top of the for loop, quit seen: break, then destroy() closes the fds.
LoopBreak ==
    /\ pc = "cond"
    /\ quit
    /\ pc' = "done"
    /\ evtFd' = "closed"
    /\ UNCHANGED <<quit, call, queueVars, pollVars>>

\* What epoll_wait would report now.
Readable == ready \cup (IF evtFd = "ready" THEN {WakeupChannel} ELSE {})

\* Mutation: the eventList keeps its length.
PollEvents_NoGrowth(S) ==
    /\ pc = "poll"
    /\ S # {}
    /\ Cardinality(S) = IF Cardinality(Readable) < eventLen
                        THEN Cardinality(Readable) ELSE eventLen
    /\ active' = S
    /\ pc' = "events"
    /\ UNCHANGED <<quit, evtFd, call, ready, eventLen, queueVars>>

\* poll returns with the channels S, as many as are ready and fit eventList,
\* which of them and in which order being the kernel's choice; a full
\* eventList is doubled.
PollEvents(S) ==
    /\ pc = "poll"
    /\ S # {}
    /\ Cardinality(S) = IF Cardinality(Readable) < eventLen
                        THEN Cardinality(Readable) ELSE eventLen
    /\ active' = S
    /\ eventLen' = IF Cardinality(S) = eventLen THEN 2 * eventLen ELSE eventLen
    /\ pc' = "events"
    /\ UNCHANGED <<quit, evtFd, call, ready, queueVars>>

\* poll returns without events, on the timeout or on EINTR; epoll_wait does
\* neither while a channel is ready.
PollNothing ==
    /\ pc = "poll"
    /\ Readable = {}
    /\ pc' = "events"
    /\ UNCHANGED <<quit, evtFd, call, queueVars, pollVars>>

\* handleEvent of the wakeup channel: handleRead empties the counter.
HandleWakeup ==
    /\ pc = "events"
    /\ WakeupChannel \in active
    /\ active' = active \ {WakeupChannel}
    /\ evtFd' = "zero"
    /\ UNCHANGED <<pc, quit, call, queueVars, eventLen, ready>>

\* handleEvent of another channel enters its callback, which consumes all
\* or only part of what made the fd ready.
HandleChannel(ch) ==
    /\ pc = "events"
    /\ ch \in active
    /\ active' = active \ {ch}
    /\ ready' \in {ready, ready \ {ch}}
    /\ pc' = "handler"
    /\ UNCHANGED <<quit, evtFd, call, queueVars, eventLen>>

HandlerReturn ==
    /\ pc = "handler"
    /\ call[LoopThread] = "idle"
    /\ pc' = "events"
    /\ UNCHANGED <<quit, evtFd, call, queueVars, pollVars>>

EventsDone ==
    /\ pc = "events"
    /\ active = {}
    /\ pc' = "take"
    /\ UNCHANGED <<quit, evtFd, call, queueVars, pollVars>>

\* runPendingTasks reads el.pendingTasks before it has the mutex.
TakePending ==
    /\ pc = "take"
    /\ pt' = cur
    /\ pc' = "swap"
    /\ UNCHANGED <<quit, evtFd, call, lists, cur, taskMutex, dst, arg,
                   submitted, ran, pollVars>>

\* Mutation: the list is replaced without the mutex.
SwapPending_NoLock ==
    /\ pc = "swap"
    /\ cur' = 1 - cur
    /\ lists' = [lists EXCEPT ![1 - cur] = <<>>]
    /\ pc' = "tasks"
    /\ UNCHANGED <<quit, evtFd, call, pt, taskMutex, dst, arg, submitted, ran,
                   pollVars>>

\* Lock, el.pendingTasks = list.New(), Unlock.  The other of the two lists
\* was visited to its end in the previous round, so it stands for the new one.
SwapPending ==
    /\ pc = "swap"
    /\ taskMutex = None
    /\ cur' = 1 - cur
    /\ lists' = [lists EXCEPT ![1 - cur] = <<>>]
    /\ pc' = "tasks"
    /\ UNCHANGED <<quit, evtFd, call, pt, taskMutex, dst, arg, submitted, ran,
                   pollVars>>

\* The next element of pt is called.
RunTask ==
    /\ pc = "tasks"
    /\ lists[pt] # <<>>
    /\ ran' = Append(ran, Head(lists[pt]))
    /\ lists' = [lists EXCEPT ![pt] = Tail(@)]
    /\ pc' = "task"
    /\ UNCHANGED <<quit, evtFd, call, cur, pt, taskMutex, dst, arg, submitted,
                   pollVars>>

TaskReturn ==
    /\ pc = "task"
    /\ call[LoopThread] = "idle"
    /\ pc' = "tasks"
    /\ UNCHANGED <<quit, evtFd, call, queueVars, pollVars>>

TasksDone ==
    /\ pc = "tasks"
    /\ lists[pt] = <<>>
    /\ pc' = "cond"
    /\ UNCHANGED <<quit, evtFd, call, queueVars, pollVars>>

\* The kernel: the fd of a channel becomes ready.
BecomeReady(ch) ==
    /\ ch \notin ready
    /\ ready' = ready \cup {ch}
    /\ UNCHANGED <<pc, quit, evtFd, call, queueVars, active, eventLen>>

Loop ==
    \/ LoopStart \/ LoopContinue \/ LoopBreak
    \/ \E S \in SUBSET Readable : PollEvents(S)
    \/ PollNothing
    \/ HandleWakeup
    \/ \E ch \in Channels : HandleChannel(ch)
    \/ HandlerReturn \/ EventsDone
    \/ TakePending \/ SwapPending \/ RunTask \/ TaskReturn \/ TasksDone

Call(c) ==
    \/ \E t \in Tasks : AsyncExecute(c, t)
    \/ PushBack(c) \/ Wakeup(c)
    \/ Stop(c) \/ AsyncStop(c)

Next ==
    \/ Loop
    \/ \E c \in Callers : Call(c)
    \/ \E ch \in Channels : BecomeReady(ch)

Spec == Init /\ [][Next]_vars

\* What Go and the kernel guarantee: a goroutine inside AsyncExecute,
\* AsyncStop or Loop goes on, epoll_wait returns when a channel is ready,
\* and (assumptions on the user's code) Loop() is entered and callbacks and
\* tasks return.
\* Nothing is assumed of the poll timeout, of who calls what, or of the fds.
Fairness ==
    /\ \A c \in Callers : WF_vars(PushBack(c)) /\ WF_vars(Wakeup(c))
    /\ SF_vars(LoopStart) /\ WF_vars(LoopContinue) /\ WF_vars(LoopBreak)
    /\ WF_vars(\E S \in SUBSET Readable : PollEvents(S))
    /\ WF_vars(HandleWakeup)
    /\ WF_vars(\E ch \in Channels : HandleChannel(ch))
    /\ SF_vars(HandlerReturn) /\ WF_vars(EventsDone)
    /\ WF_vars(TakePending) /\ WF_vars(SwapPending) /\ WF_vars(RunTask)
    /\ SF_vars(TaskReturn) /\ WF_vars(TasksDone)

FairSpec == Spec /\ Fairness

-----------------------------------------------------------------------------
(* Properties.                                                              *)

\* No lost wakeup.  When the loop is about to block or blocked in epoll_wait
\* and a task is in el.pendingTasks, the eventfd is readable or some
\* goroutine is still on its way to write it: AsyncExecute pushes first and
\* wakes after, handleRead empties the counter before the list is taken.
NoLostWakeup ==
    pc \in {"cond", "poll"} /\ lists[cur] # <<>> =>
        \/ evtFd = "ready"
        \/ \E c \in Callers : call[c] \in {"wakeup", "stopWakeup"}

\* Every task pushed so far, in order: those called, what is left of the list
\* being visited, the list being filled.
Log == ran \o (lists[1 - cur] \o lists[cur])

\* runPendingTasks and AsyncExecute implement one FIFO log of tasks, each
\* called at most once, although the list is read outside the mutex and
\* tasks push while the loop visits the list they came from.
TL == INSTANCE TaskLog WITH log <- Log, n <- Len(ran)
TaskLogSpec == TL!Spec

\* Tasks whose PushBack is done.
Pushed == submitted \ {arg[c] : c \in Callers}

\* The mutex protects the push: a goroutine between Lock and Unlock holds it,
\* has a task of its own to push, and its list is still el.pendingTasks.
PushInv ==
    \A c \in Callers :
        IF call[c] = "push"
        THEN taskMutex = c /\ arg[c] \in submitted /\ dst[c] = cur
        ELSE taskMutex # c /\ arg[c] = None

\* Only while its elements are being visited is the list that is not
\* el.pendingTasks of any use, and then pt points to it.
ListInv ==
    /\ pc = "swap" => pt = cur
    /\ pc \in {"tasks", "task"} => pt = 1 - cur
    /\ pc \notin {"tasks", "task"} => lists[1 - cur] = <<>>

\* What was pushed was submitted, and is not being pushed again.
LogInv == ran \in Seq(Pushed) /\ lists \in [{0, 1} -> Seq(Pushed)]

\* NoLostWakeup with the program points that lead to it: the list is empty
\* when it is new, the eventfd is emptied only before the list is replaced,
\* and it stays open until the loop is left.
WakeupInv ==
    /\ evtFd = "closed" => pc = "done"
    /\ pc \in {"created", "cond", "poll", "tasks", "task"} =>
          \/ lists[cur] = <<>>
          \/ evtFd = "ready"
          \/ \E c \in Callers : call[c] \in {"wakeup", "stopWakeup"}

\* The inductive invariant of the proofs: who holds the mutex, which list pt
\* aliases, where each task is, and why a pending task has a wakeup.
LoopInv == TypeOK /\ PushInv /\ ListInv /\ LogInv /\ WakeupInv

\* Every task given to AsyncExecute is called unless the loop is told to
\* quit, and without the help of the poll timeout.
EveryTaskRuns ==
    \A t \in Tasks :
        t \in submitted ~> (quit \/ \E i \in DOMAIN ran : ran[i] = t)

\* AsyncStop whose store of quit comes after the one of Loop() ends the loop,
\* without the help of the poll timeout.
AsyncStopEndsLoop ==
    \A c \in Callers :
        (pc # "created" /\ quit /\ call[c] = "stopWakeup") ~> (pc = "done")

\* A ready channel is handled or stops being ready or the loop ends, although
\* epoll_wait may report others first: a full eventList grows until all fit.
ReadyChannelIsServed ==
    \A ch \in Channels :
        ch \in ready ~> (ch \in active \/ ch \notin ready \/ quit)

\* Stop from any goroutine ends a loop that has been entered; from another
\* goroutine than the loop's this takes the 10 s timeout of poll.
StopEndsLoop ==
    WF_vars(PollNothing) => ((pc # "created" /\ quit) ~> (pc = "done"))

=============================================================================
