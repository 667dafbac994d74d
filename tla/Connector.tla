----------------------------- MODULE Connector ------------------------------
(***************************************************************************)
(* connector.go: the state machine that opens a connection to a server and *)
(* tries again after a delay, on the one event loop it belongs to.         *)
(*                                                                         *)
(* The loop is reduced to its rounds (see EventLoop); between two accesses *)
(* to fields that other goroutines use, the loop stops and doing says what *)
(* it does next.  Delays are not measured: a timer in the heap may expire  *)
(* at any poll, and one that cancel's closure has reached never runs (see  *)
(* TimerQueue).  A channel is named by the descriptor it is made for: the  *)
(* Connector's and the connection's are two channels.                      *)
(***************************************************************************)
EXTENDS Naturals, Sequences

CONSTANTS
    NumFds,     \* descriptors the process may have open
    MaxTimers,  \* bound: timers referred to at a time
    None        \* nil

ASSUME ConnectorAssumption ==
    /\ NumFds \in Nat /\ MaxTimers \in Nat
    /\ None \notin 1..MaxTimers
    /\ None \notin {"connector", "conn"} \X (1..NumFds)

Fds      == 1..NumFds
Timers   == 1..MaxTimers
Channels == {"connector", "conn"} \X Fds
L        == 0

INSTANCE Poller WITH Loops <- {L}

VARIABLES
    lpc,     \* where the loop is: off, poll, events, tasks
    active,  \* el.activeChannels and expired timers, not handled yet
    queue,   \* el.pendingTasks
    batch,   \* the tasks taken and not yet called
    doing,   \* the rest of the handler or task that has been entered
    io,      \* the poller and its channels, see Poller
    sock,    \* per descriptor, the state of its socket in the kernel
    c,       \* fields connect, state, ch, tt of the Connector
    armed,   \* timers in the heap
    gaveUp   \* the last attempt ended with an error that is not retried

taskVars == <<queue, batch>>
connectorVars == <<lpc, active, taskVars, doing, io, sock, c, armed, gaveUp>>

Task(op, arg) == [op |-> op, arg |-> arg]
Nothing       == Task("nothing", 0)
Panic         == Task("panic", 0)
Push(task)    == queue' = Append(queue, task)

\* What is queued or has been entered, with the argument it needs.
Tasks ==
    {Task(op, 0) : op \in {"nothing", "panic", "start", "schedule", "restart", "chNil"}} \cup
    {Task(op, f) : op \in {"retry", "newConn", "establish", "connectDestroyed",
                           "shutdownWrite", "setOnClose"}, f \in Fds} \cup
    {Task(op, t) : op \in {"addTask", "cancel"}, t \in Timers}

ConnectorTypeOK ==
    /\ lpc \in {"off", "poll", "events", "tasks"}
    /\ active \subseteq [ch : Channels \cup {None}, timer : Timers \cup {0},
                         revents : SUBSET {"IN", "OUT", "ERR"}]
    /\ queue \in Seq(Tasks) /\ batch \in Seq(Tasks) /\ doing \in Tasks
    /\ io \in IoType
    /\ sock \in [Fds -> {"free", "connecting", "open", "refused", "closed"}]
    /\ c \in [connect : BOOLEAN, ch : Channels \cup {None},
              state : {"Disconnected", "Connecting", "Connected"},
              tt : Timers \cup {None}]
    /\ armed \subseteq Timers
    /\ gaveUp \in BOOLEAN

\* NewConnector.
ConnectorInit ==
    /\ lpc = "off" /\ active = {} /\ queue = <<>> /\ batch = <<>>
    /\ doing = Nothing
    /\ io = NewIo
    /\ sock = [f \in Fds |-> "free"]
    /\ c = [connect |-> FALSE, state |-> "Disconnected", ch |-> None, tt |-> None]
    /\ armed = {}
    /\ gaveUp = FALSE

-----------------------------------------------------------------------------
(* The rest of a handler or a task, step by step.                           *)

Entered(op) == doing.op = op

\* close(2).
Close(f, io0) == io' = closed(io0, f) /\ sock' = [sock EXCEPT ![f] = "free"]

\* start and connect0.  connect(2) is under way (or done: it is reported by
\* epoll all the same), or fails in a way that is retried, or in another way.
\* Without a descriptor sysSocket fails and connect0 panics.
start ==
    /\ Entered("start")
    /\ \/ /\ ~c.connect
          /\ doing' = Nothing
          /\ UNCHANGED <<io, sock, c, gaveUp>>
       \/ /\ c.connect /\ \A f \in Fds : sock[f] # "free"
          /\ doing' = Panic
          /\ UNCHANGED <<io, sock, c, gaveUp>>
       \/ /\ c.connect
          /\ \E f \in Fds :
                /\ sock[f] = "free" /\ \A g \in 1..(f - 1) : sock[g] # "free"
                /\ \/ /\ doing' = Nothing
                      /\ sock' = [sock EXCEPT ![f] = "connecting"]
                      /\ c' = [c EXCEPT !.state = "Connecting", !.ch = <<"connector", f>>]
                      /\ io' = enableWriting(io, L, f, <<"connector", f>>)
                      /\ gaveUp' = FALSE
                   \/ /\ doing' = Task("retry", f)
                      /\ sock' = [sock EXCEPT ![f] = "refused"]
                      /\ gaveUp' = FALSE
                      /\ UNCHANGED <<io, c>>
                   \/ /\ doing' = Nothing
                      /\ gaveUp' = TRUE
                      /\ UNCHANGED <<io, sock, c>>
    /\ UNCHANGED <<lpc, active, taskVars, armed>>

\* Mutation: retry leaves the socket open.
retry_KeepsSocket ==
    /\ Entered("retry")
    /\ c' = [c EXCEPT !.state = "Disconnected"]
    /\ doing' = IF c.connect THEN Task("schedule", 0) ELSE Nothing
    /\ UNCHANGED <<lpc, active, taskVars, io, sock, armed, gaveUp>>

\* retry, up to its look at connect.
retry ==
    /\ Entered("retry")
    /\ Close(doing.arg, io)
    /\ c' = [c EXCEPT !.state = "Disconnected"]
    /\ doing' = IF c.connect THEN Task("schedule", 0) ELSE Nothing
    /\ UNCHANGED <<lpc, active, taskVars, armed, gaveUp>>

\* A timer nothing refers to any more stands for a new one.
Unused(t) ==
    /\ t \notin armed /\ t # c.tt
    /\ \A s \in {queue, batch} : \A i \in DOMAIN s :
          s[i].op \in {"addTask", "cancel"} => s[i].arg # t

\* Mutation: the new timer is not kept, so that Stop cannot cancel it, and
\* the heap never sees it.
schedule_Lost ==
    /\ Entered("schedule")
    /\ doing' = Nothing
    /\ UNCHANGED <<lpc, active, taskVars, io, sock, c, armed, gaveUp>>

\* retry, when connect was set: c.tt = AsyncScheduleDelay(c.start, ...).
schedule ==
    /\ Entered("schedule")
    /\ doing' = Nothing
    /\ \E t \in Timers :
          /\ Unused(t) /\ \A s \in 1..(t - 1) : ~Unused(s)
          /\ Push(Task("addTask", t))
          /\ c' = [c EXCEPT !.tt = t]
    /\ UNCHANGED <<lpc, active, batch, io, sock, armed, gaveUp>>

\* Mutation: Restart leaves it to others to start.
restart_NotStarted ==
    /\ Entered("restart")
    /\ c' = [c EXCEPT !.connect = TRUE, !.state = "Disconnected"]
    /\ doing' = Nothing
    /\ UNCHANGED <<lpc, active, taskVars, io, sock, armed, gaveUp>>

\* Restart, which goes on with start.
restart ==
    /\ Entered("restart")
    /\ c' = [c EXCEPT !.connect = TRUE, !.state = "Disconnected"]
    /\ doing' = Task("start", 0)
    /\ UNCHANGED <<lpc, active, taskVars, io, sock, armed, gaveUp>>

-----------------------------------------------------------------------------
(* Handlers.                                                                *)

Handles(e) ==
    /\ lpc = "events" /\ Entered("nothing")
    /\ e \in active
    /\ active' = active \ {e}

\* Mutation: the channel is forgotten and not removed.
Removed_Not == io

\* Mutation: the channel is disabled and stays in channelMap.
Removed_OnlyDisabled == disableAll(io, L, c.ch[2], c.ch)

\* removeAndResetChannel acts on c.ch, whichever channel has the event; on nil
\* it panics.  Its last act is to queue c.ch = nil.
Removed == removeChannel(disableAll(io, L, c.ch[2], c.ch), L, c.ch[2], c.ch)

\* Channel.handleEvent with handleError and handleWrite.  The error callback
\* comes first; after it retry has set the state to Disconnected, and the
\* write callback of the same event does nothing.  SO_ERROR is read and its
\* value ignored.
HandleConnector(e) ==
    /\ Handles(e) /\ e.ch \in {"connector"} \X Fds
    /\ \/ /\ c.state # "Connecting"
          /\ UNCHANGED <<queue, doing, io, sock, c>>
       \/ /\ c.state = "Connecting" /\ c.ch = None
          /\ io' = Assert(io, FALSE)
          /\ UNCHANGED <<queue, doing, sock, c>>
       \/ /\ c.state = "Connecting" /\ c.ch # None
          /\ Push(Task("chNil", 0))
          /\ \/ /\ "ERR" \in e.revents
                /\ doing' = Task("retry", c.ch[2])
                /\ io' = Removed
                /\ UNCHANGED <<c, sock>>
             \/ /\ "ERR" \notin e.revents
                /\ c' = [c EXCEPT !.state = "Connected"]
                /\ \/ /\ c.connect
                      /\ doing' = Task("newConn", c.ch[2])
                      /\ io' = Removed
                      /\ UNCHANGED sock
                   \/ /\ ~c.connect
                      /\ Close(c.ch[2], Removed)
                      /\ UNCHANGED doing
    /\ UNCHANGED <<lpc, batch, armed, gaveUp>>

\* The timer of retry runs start.
HandleTimer(e) ==
    /\ Handles(e) /\ e.timer # 0
    /\ doing' = Task("start", 0)
    /\ UNCHANGED <<lpc, taskVars, io, sock, c, armed, gaveUp>>

-----------------------------------------------------------------------------
(* Tasks.                                                                   *)

Runs(op) ==
    /\ lpc = "tasks" /\ Entered("nothing")
    /\ batch # <<>> /\ Head(batch).op = op
    /\ batch' = Tail(batch)

RunStart ==
    /\ Runs("start")
    /\ doing' = Task("start", 0)
    /\ UNCHANGED <<lpc, active, queue, io, sock, c, armed, gaveUp>>

RunChNil ==
    /\ Runs("chNil")
    /\ c' = [c EXCEPT !.ch = None]
    /\ UNCHANGED <<lpc, active, queue, doing, io, sock, armed, gaveUp>>

RunTimerTask ==
    /\ \/ Runs("addTask") /\ armed' = armed \cup {Head(batch).arg}
       \/ Runs("cancel") /\ armed' = armed \ {Head(batch).arg}
    /\ UNCHANGED <<lpc, active, queue, doing, io, sock, c, gaveUp>>

-----------------------------------------------------------------------------
(* A round of the loop.                                                     *)

\* What epoll_wait reports of channel ch, level triggered.
Reported(ch, events) ==
    LET f == ch[2] IN
    (IF sock[f] # "connecting" THEN events \cap {EventWrite} ELSE {})
    \cup (IF sock[f] = "closed" THEN events \cap {EventRead} ELSE {})
    \cup (IF sock[f] = "refused" THEN {"ERR"} ELSE {})

Poll ==
    /\ lpc = "poll" /\ Entered("nothing")
    /\ lpc' = "events"
    /\ \E due \in SUBSET armed :
          /\ armed' = armed \ due
          /\ active' =
               {[ch |-> None, timer |-> t, revents |-> {}] : t \in due} \cup
               {e \in {[ch |-> io.reg[L][f].ch, timer |-> 0,
                        revents |-> Reported(io.reg[L][f].ch, io.reg[L][f].events)]
                         : f \in {g \in Fds : io.reg[L][g] # NoReg}} : e.revents # {}}
    /\ UNCHANGED <<taskVars, doing, io, sock, c, gaveUp>>

TakePending ==
    /\ lpc = "events" /\ Entered("nothing") /\ active = {}
    /\ lpc' = "tasks"
    /\ batch' = queue /\ queue' = <<>>
    /\ UNCHANGED <<active, doing, io, sock, c, armed, gaveUp>>

TasksDone ==
    /\ lpc = "tasks" /\ Entered("nothing") /\ batch = <<>>
    /\ lpc' = "poll"
    /\ UNCHANGED <<active, taskVars, doing, io, sock, c, armed, gaveUp>>

Round == Poll \/ TakePending \/ TasksDone

ConnectorStep ==
    \/ start \/ retry \/ schedule \/ restart
    \/ \E e \in active : HandleConnector(e) \/ HandleTimer(e)
    \/ RunStart \/ RunChNil \/ RunTimerTask

\* The kernel decides about a connection that was started.
AttemptEnds(f) ==
    /\ sock[f] = "connecting"
    /\ sock' \in {[sock EXCEPT ![f] = s] : s \in {"open", "refused"}}
    /\ UNCHANGED <<lpc, active, taskVars, doing, io, c, armed, gaveUp>>

=============================================================================
