------------------------------ MODULE TcpClient ------------------------------
(***************************************************************************)
(* tcp_client.go on top of Connector, with the connections it makes, on a  *)
(* loop that an EventloopEngine has started.                               *)
(*                                                                         *)
(* One goroutine of the user calls Connect, Disconnect, Stop and Destroy,  *)
(* each a sequence of steps that interleave with the loop's.  A call made  *)
(* in a callback is one that comes when the callback does.  c.mu is held   *)
(* for one step at a time, except by Disconnect: see Unlocked.  A          *)
(* connection is named by its descriptor, which nothing ever closes;       *)
(* TcpConn has its data.                                                   *)
(***************************************************************************)
EXTENDS Connector, EventloopEngine

CONSTANTS
    MaxCalls,  \* bound: calls of the user
    Careless   \* Connect may be called while an attempt or a retry is under way

ASSUME ClientAssumption ==
    MaxCalls \in Nat /\ Careless \in BOOLEAN /\ None \notin Fds

VARIABLES
    cli,        \* fields _connect, conn, retry of the client
    conns,      \* per descriptor, state and onClose of its TcpConn
    user,       \* where the user's goroutine is
    calls,      \* calls made so far
    given,      \* descriptors that Connector has handed to newConn
    stopped,    \* Stop has returned and Connect was not called since
    afterStop   \* connections made while stopped

clientVars == <<cli, conns, given, afterStop>>
userVars   == <<user, calls, stopped>>
vars       == <<connectorVars, engineVars, clientVars, userVars>>

ConnStates == {"none", "Connecting", "Connected", "Disconnecting", "Disconnected"}

TypeOK ==
    /\ ConnectorTypeOK /\ EngineTypeOK
    /\ cli \in [connect : BOOLEAN, conn : Fds \cup {None}, retry : BOOLEAN]
    /\ conns \in [Fds -> [state : ConnStates, onClose : {"removeConn", "destroyed"}]]
    /\ user \in {"idle", "connect", "start", "disconnect", "shutdown", "stop",
                 "cancel", "stopD", "cancelD", "destroy"}
    /\ calls \in 0..MaxCalls
    /\ given \subseteq Fds
    /\ stopped \in BOOLEAN
    /\ afterStop \in Nat

\* NewTcpClient, then perhaps SetRetry(true).
Init ==
    /\ ConnectorInit /\ EngineInit
    /\ cli \in {[connect |-> TRUE, conn |-> None, retry |-> r] : r \in BOOLEAN}
    /\ conns = [f \in Fds |-> [state |-> "none", onClose |-> "removeConn"]]
    /\ user = "idle" /\ calls = 0
    /\ given = {} /\ stopped = FALSE /\ afterStop = 0

-----------------------------------------------------------------------------
(* The loop: newConn, and what happens to a connection.                     *)

\* Disconnect is not inside ShutdownWrite, which it calls with c.mu held.
Unlocked == user # "shutdown"

\* newConn, the callback of Connector, until the connection is published; or
\* getsockname fails and the descriptor is forgotten.
newConn ==
    /\ Entered("newConn")
    /\ given' = given \cup {doing.arg}
    /\ \/ /\ doing' = Task("establish", doing.arg)
          /\ Unlocked /\ cli' = [cli EXCEPT !.conn = doing.arg]
          /\ conns' = [conns EXCEPT ![doing.arg].state = "Connecting"]
          /\ afterStop' = IF stopped THEN afterStop + 1 ELSE afterStop
       \/ /\ doing' = Nothing
          /\ UNCHANGED <<cli, conns, afterStop>>
    /\ UNCHANGED <<lpc, active, taskVars, io, sock, c, armed, gaveUp>>

connectEstablished ==
    LET f == doing.arg IN
    /\ Entered("establish")
    /\ doing' = Nothing
    /\ io' = enableReading(Assert(io, conns[f].state = "Connecting"), L, f, <<"conn", f>>)
    /\ conns' = [conns EXCEPT ![f].state = "Connected"]
    /\ UNCHANGED <<lpc, active, taskVars, sock, c, armed, gaveUp, cli, given, afterStop>>

\* Mutation: _connect is not looked at.
MayRestart_Always == cli.retry

\* removeConn's condition for Restart.
MayRestart == cli.retry /\ cli.connect

\* Mutation: c.conn keeps pointing to the connection.
removeConn_KeepsConn ==
    /\ Unlocked /\ UNCHANGED cli
    /\ doing' = IF MayRestart THEN Task("restart", 0) ELSE Nothing

\* removeConn, after connectDestroyed was queued; Restart is another step.
removeConn ==
    /\ Unlocked /\ cli' = [cli EXCEPT !.conn = None]
    /\ doing' = IF MayRestart THEN Task("restart", 0) ELSE Nothing

\* The end of the stream: handleClose and the connection's onClose.
HandleConn(e) ==
    LET f == e.ch[2] IN
    /\ Handles(e) /\ e.ch \in {"conn"} \X Fds
    /\ io' = disableAll(io, L, f, e.ch)
    /\ Push(Task("connectDestroyed", f))
    /\ IF conns[f].onClose = "removeConn" THEN removeConn
       ELSE UNCHANGED <<cli, doing>>
    /\ UNCHANGED <<lpc, batch, sock, c, armed, gaveUp, conns, given, afterStop>>

\* connectDestroyed; the socket stays open.
connectDestroyed ==
    LET f  == Head(batch).arg
        ch == <<"conn", f>>
        alive == conns[f].state \in {"Connected", "Disconnecting"}
    IN  /\ Runs("connectDestroyed")
        /\ io' = removeChannel(disableAll(Assert(io, alive), L, f, ch), L, f, ch)
        /\ conns' = [conns EXCEPT ![f].state = "Disconnected"]
        /\ UNCHANGED <<lpc, active, queue, doing, sock, c, armed, gaveUp, cli, given,
                       afterStop>>

\* The closure of Destroy; shutdownWrite does what TcpConn says of it.
RunClientTask ==
    /\ \/ /\ Runs("setOnClose")
          /\ conns' = [conns EXCEPT ![Head(batch).arg].onClose = "destroyed"]
       \/ Runs("shutdownWrite") /\ UNCHANGED conns
    /\ UNCHANGED <<lpc, active, queue, doing, io, sock, c, armed, gaveUp, cli, given,
                   afterStop>>

-----------------------------------------------------------------------------
(* The user's goroutine, once StartLoop has given it the loop.              *)

\* No attempt, retry or connection: what the user of a client that is not
\* careless waits for before the next Connect.
Quiet ==
    /\ queue = <<>> /\ batch = <<>> /\ active = {} /\ Entered("nothing")
    /\ armed = {} /\ c.state # "Connecting" /\ cli.conn = None

\* The user calls one of the client's methods: its first assignment.
Call(at, connect) ==
    /\ spc = "returned" /\ user = "idle" /\ calls < MaxCalls
    /\ calls' = calls + 1
    /\ user' = at
    /\ cli' = [cli EXCEPT !.connect = connect]
    /\ UNCHANGED <<connectorVars, conns, given>>

Connect ==
    /\ Careless \/ Quiet
    /\ Call("connect", TRUE)
    /\ stopped' = FALSE /\ afterStop' = 0
Disconnect == Call("disconnect", FALSE) /\ UNCHANGED <<stopped, afterStop>>
Stop       == Call("stop", FALSE) /\ UNCHANGED <<stopped, afterStop>>
Destroy    == Call("stopD", FALSE) /\ UNCHANGED <<stopped, afterStop>>

\* Connector.Start: connect = true, then the closure.
SetConnect ==
    /\ user = "connect" /\ user' = "start"
    /\ c' = [c EXCEPT !.connect = TRUE]
    /\ UNCHANGED <<lpc, active, taskVars, doing, io, sock, armed, gaveUp, clientVars,
                   calls, stopped>>
PushStart ==
    /\ user = "start" /\ user' = "idle"
    /\ Push(Task("start", 0))
    /\ UNCHANGED <<lpc, active, batch, doing, io, sock, c, armed, gaveUp, clientVars,
                   calls, stopped>>

\* Connector.Stop: connect = false, then the timer, if there is one.
ClearConnect ==
    /\ \/ user = "stop" /\ user' = "cancel"
       \/ user = "stopD" /\ user' = "cancelD"
    /\ c' = [c EXCEPT !.connect = FALSE]
    /\ UNCHANGED <<lpc, active, taskVars, doing, io, sock, armed, gaveUp, clientVars,
                   calls, stopped>>

\* Mutation: Stop does not ask whether there is a timer.
CancelTimer_NoCheck ==
    /\ \/ user = "cancel" /\ user' = "idle"
       \/ user = "cancelD" /\ user' = "destroy"
    /\ Push(Task("cancel", c.tt))
    /\ stopped' = TRUE
    /\ UNCHANGED <<lpc, active, batch, doing, io, sock, c, armed, gaveUp, clientVars,
                   calls>>

CancelTimer ==
    /\ \/ user = "cancel" /\ user' = "idle"
       \/ user = "cancelD" /\ user' = "destroy"
    /\ IF c.tt = None THEN UNCHANGED queue ELSE Push(Task("cancel", c.tt))
    /\ stopped' = TRUE
    /\ UNCHANGED <<lpc, active, batch, doing, io, sock, c, armed, gaveUp, clientVars,
                   calls>>

\* Disconnect, under c.mu: ShutdownWrite looks at the state, then stores.
ShutdownCheck ==
    /\ user = "disconnect"
    /\ user' = IF cli.conn \in {f \in Fds : conns[f].state = "Connected"}
               THEN "shutdown" ELSE "idle"
    /\ UNCHANGED <<connectorVars, clientVars, calls, stopped>>
ShutdownStore ==
    /\ user = "shutdown" /\ user' = "idle"
    /\ conns' = [conns EXCEPT ![cli.conn].state = "Disconnecting"]
    /\ Push(Task("shutdownWrite", cli.conn))
    /\ UNCHANGED <<lpc, active, batch, doing, io, sock, c, armed, gaveUp, cli, given,
                   afterStop, calls, stopped>>

\* The rest of Destroy; the timer it makes without a connection does nothing.
DestroyConn ==
    /\ user = "destroy"
    /\ \/ /\ cli.conn # None
          /\ Push(Task("setOnClose", cli.conn))
          /\ user' = "idle"
       \/ /\ cli.conn = None
          /\ user' = "stop"
          /\ UNCHANGED queue
    /\ UNCHANGED <<lpc, active, batch, doing, io, sock, c, armed, gaveUp, clientVars,
                   calls, stopped>>

-----------------------------------------------------------------------------

\* The server closes its end.
ServerCloses(f) ==
    /\ sock[f] = "open"
    /\ sock' = [sock EXCEPT ![f] = "closed"]
    /\ UNCHANGED <<lpc, active, taskVars, doing, io, c, armed, gaveUp>>

\* A panic ends the process.
Alive == io.ok /\ doing # Panic

\* run has called Loop().
LoopEntered ==
    /\ lpc = "off" /\ rpc = "loop"
    /\ lpc' = "poll"
    /\ UNCHANGED <<active, taskVars, doing, io, sock, c, armed, gaveUp>>

LoopStep ==
    /\ Alive
    /\ \/ (LoopEntered \/ Round \/ ConnectorStep) /\ UNCHANGED clientVars
       \/ newConn \/ connectEstablished \/ connectDestroyed \/ RunClientTask
       \/ \E e \in active : HandleConn(e)
    /\ UNCHANGED <<engineVars, userVars>>

UserCalls == (Connect \/ Disconnect \/ Stop \/ Destroy) /\ UNCHANGED engineVars
UserStep  ==
    /\ Alive
    /\ SetConnect \/ PushStart \/ ClearConnect \/ CancelTimer
       \/ ShutdownCheck \/ ShutdownStore \/ DestroyConn
    /\ UNCHANGED engineVars
CallerStep == StartLoop /\ UNCHANGED <<connectorVars, clientVars, userVars>>
RunStep    == run /\ UNCHANGED <<connectorVars, clientVars, userVars>>
Kernel ==
    /\ Alive
    /\ \E f \in Fds : AttemptEnds(f) \/ ServerCloses(f)
    /\ UNCHANGED <<engineVars, clientVars, userVars>>

Next == LoopStep \/ (Alive /\ UserCalls) \/ UserStep \/ CallerStep \/ RunStep \/ Kernel

\* The loop and the goroutines inside a call go on, and a timer in the heap
\* expires; nothing is assumed of the user and the server.
Expires ==
    /\ Alive /\ Poll /\ armed # {} /\ armed' = {}
    /\ UNCHANGED <<engineVars, clientVars, userVars>>
Spec ==
    /\ Init /\ [][Next]_vars
    /\ WF_vars(LoopStep) /\ SF_vars(Expires) /\ WF_vars(UserStep)
    /\ WF_vars(CallerStep) /\ WF_vars(RunStep)

-----------------------------------------------------------------------------
(* Properties.                                                              *)

\* No assertion of the poller or the connection fails, and no nil channel is
\* used: the queued c.ch = nil is over before the next attempt has a channel.
NoAssertFails == io.ok

\* A connector channel that epoll watches is the one c.ch points to, and the
\* state says so: there is one attempt at a time, whatever the order of the
\* retry timer, the queued c.ch = nil, Stop, Restart and a Connect that waited
\* for quiet.
OneAttempt ==
    \A f \in Fds :
        io.reg[L][f].ch = <<"connector", f>> =>
            c.state = "Connecting" /\ c.ch = <<"connector", f>>

\* Connector leaks no socket: one that is open is the attempt's, is in the
\* hands of the handler that runs, or was given to the client.
SocketsAccounted ==
    \A f \in Fds :
        sock[f] # "free" =>
            \/ f \in given
            \/ doing \in {Task("retry", f), Task("newConn", f)}
            \/ c.state = "Connecting" /\ c.ch = <<"connector", f>>

\* A client that is stopped makes at most one more connection: Stop may come
\* between removeConn's look at _connect and Restart, which sets connect
\* again, or between handleWrite's look at connect and newConn, but the next
\* removeConn sees it.
AtMostOneAfterStop == afterStop <= 1

\* GetConn returns no dead connection, unless Destroy has taken it over.
ConnIsAlive ==
    cli.conn # None /\ conns[cli.conn].onClose = "removeConn" =>
        conns[cli.conn].state # "Disconnected"

\* A Connector that wants a connection and has none tries again, until it is
\* stopped, meets an error that is not retried or runs out of descriptors.
KeepsTrying ==
    (c.connect /\ c.state = "Disconnected") ~>
        (Entered("start") \/ ~c.connect \/ stopped \/ gaveUp \/ ~Alive)

\* A client with retry whose connection is closed by the server is connecting
\* again in the end, unless the user has stopped it in the meantime.
Reconnects ==
    \A f \in Fds :
        (cli.conn = f /\ sock[f] = "closed" /\ cli.retry) ~>
            (Entered("start") \/ ~cli.connect \/ conns[f].onClose = "destroyed" \/ ~Alive)

-----------------------------------------------------------------------------
(* The inductive invariant of the proofs, for a user that is not careless.  *)

\* The tasks the loop has still to call, in order.
Todo == batch \o queue

Has(s, S)       == \E i \in DOMAIN s : s[i] \in S
Once(s, S)      == \A i, j \in DOMAIN s : s[i] \in S /\ s[j] \in S => i = j
Before(s, S, T) == \A i, j \in DOMAIN s : s[i] \in S /\ s[j] \in T => i < j

Starts == {Task("start", 0)}
Adds   == {Task("addTask", t) : t \in Timers}
Nils   == {Task("chNil", 0)}
Destroys(f) == {Task("connectDestroyed", f)}
Queued(S)   == Has(Todo, S)

\* No two starts are queued, no two timers on their way to the heap, and a
\* connection is destroyed once.  c.ch = nil, queued behind the attempt that
\* is over, comes before the timer that begins the next one.
QueueOK ==
    /\ Once(Todo, Starts) /\ Once(Todo, Adds)
    /\ \A f \in Fds : Once(Todo, Destroys(f))
    /\ Before(Todo, Nils, Adds)

\* Where the loop is, and what it has left to do there.  The one event it
\* holds is still true when it comes to be handled.
LoopOK ==
    /\ lpc # "tasks" => batch = <<>>
    /\ lpc # "events" => active = {} /\ ~Has(queue, Nils)
    /\ doing # Nothing => active = {}
    /\ \A d, e \in active : d = e
    /\ \A e \in active :
          IF e.timer # 0 THEN e.ch = None
          ELSE \E f \in Fds :
                  \/ e.ch = <<"connector", f>> /\ c.state = "Connecting" /\ c.ch = e.ch
                  \/ e.ch = <<"conn", f>> /\ io.chan[e.ch].index = "add"

\* There is one attempt at most: it is in the hands of the user, in a queued
\* start, a timer on its way to the heap, in the heap or due, a socket that
\* connects, a connection, or the handler or task that the loop is in.
Attempt(calling, queued, adding, heap, due, connecting, conn, op) ==
    /\ calling    => ~queued /\ ~adding /\ ~heap /\ ~due /\ ~connecting /\ ~conn
    /\ queued     => ~adding /\ ~heap /\ ~due /\ ~connecting /\ ~conn
    /\ adding     => ~heap /\ ~due /\ ~connecting /\ ~conn
    /\ heap       => ~due /\ ~connecting /\ ~conn
    /\ due        => ~connecting /\ ~conn
    /\ connecting => ~conn
    /\ op \notin {"nothing", "panic"} => ~calling /\ ~queued /\ ~adding /\ ~heap /\ ~due
    /\ connecting => op \in {"nothing", "panic", "retry"}
    /\ conn       => op \in {"nothing", "panic", "establish"}

Due == \E e \in active : e.timer # 0
AttemptOK ==
    /\ Attempt(user \in {"connect", "start"}, Queued(Starts), Queued(Adds),
               armed # {}, Due, c.state = "Connecting", cli.conn # None, doing.op)
    /\ \A s, t \in armed : s = t

\* While c.ch = nil is queued nothing has begun the next attempt.
NilOK ==
    Queued(Nils) =>
        /\ active = {} /\ user \notin {"connect", "start"}
        /\ ~Queued(Starts) /\ armed = {}
        /\ c.state = "Connecting" => Entered("retry")
        /\ doing.op \notin {"start", "restart"}

\* The channels of descriptor f and the poller agree with the attempt and the
\* connection.
Trying(f) == c.state = "Connecting" /\ ~Entered("retry") /\ c.ch = <<"connector", f>>
FdOK(f) ==
    LET conn == io.chan[<<"conn", f>>] IN
    /\ io.chan[<<"connector", f>>] =
          IF Trying(f) THEN [events |-> {EventWrite}, index |-> "add"]
          ELSE [events |-> {}, index |-> "new"]
    /\ conn.events = IF conn.index = "add" THEN {EventRead} ELSE {}
    /\ Trying(f) => conn.index = "new"
    /\ io.map[L][f] = IF Trying(f) THEN <<"connector", f>>
                      ELSE IF conn.index = "new" THEN None ELSE <<"conn", f>>
    /\ io.reg[L][f] =
          IF Trying(f) THEN [ch |-> <<"connector", f>>, events |-> {EventWrite}]
          ELSE IF conn.index = "add" THEN [ch |-> <<"conn", f>>, events |-> {EventRead}]
          ELSE NoReg

\* The life of a connection.
ConnOK(f) ==
    LET st      == conns[f].state
        index   == io.chan[<<"conn", f>>].index
        closing == Queued(Destroys(f))
        current == cli.conn = f
        theirs  == conns[f].onClose = "destroyed"
    IN  /\ \/ st = "none" /\ index = "new" /\ ~closing /\ ~current
           \/ /\ st = "Connecting" /\ index = "new" /\ ~closing /\ current
              /\ doing = Task("establish", f)
           \/ /\ st \in {"Connected", "Disconnecting"} /\ index = "add" /\ ~closing /\ current
              /\ ~Entered("establish")
           \/ /\ st \in {"Connected", "Disconnecting"} /\ index = "del" /\ closing
              /\ current => theirs
           \/ /\ st \in {"Disconnecting", "Disconnected"} /\ index = "new" /\ ~closing
              /\ current => theirs
        /\ doing = Task("establish", f) => st = "Connecting"
        /\ st # "none" => f \in given

\* Whose a socket is.
Trier(f) == c.state = "Connecting" /\ c.ch = <<"connector", f>>
Holds(f) == doing \in {Task("retry", f), Task("newConn", f)}
SocksOK ==
    /\ c.state = "Connecting" => \E f \in Fds : c.ch = <<"connector", f>>
    /\ \A f \in Fds :
          /\ sock[f] # "free" <=> f \in given \/ Holds(f) \/ Trier(f)
          /\ f \in given => ~Holds(f) /\ ~Trier(f)
          /\ Entered("retry") /\ Trier(f) => doing.arg = f

\* Stop and the connections that come after it.
StopOK ==
    /\ stopped \/ user \notin {"idle", "connect", "start"} => ~cli.connect
    /\ afterStop \in {0, 1}
    /\ afterStop = 1 =>
          /\ stopped /\ user \notin {"connect", "start"}
          /\ ~Queued(Starts) /\ ~Queued(Adds) /\ armed = {} /\ ~Due
          /\ c.state # "Connecting"
          /\ doing.op \in {"nothing", "panic", "establish"}
    /\ user = "shutdown" =>
          \E f \in Fds : /\ cli.conn = f
                         /\ conns[f].state \notin {"none", "Connecting"}

ClientInv ==
    /\ TypeOK /\ LoopOK /\ QueueOK /\ AttemptOK /\ NilOK /\ SocksOK /\ StopOK
    /\ \A f \in Fds : FdOK(f) /\ ConnOK(f)
    /\ io.ok

=============================================================================
