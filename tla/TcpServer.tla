----------------------------- MODULE TcpServer ------------------------------
(***************************************************************************)
(* tcp_server.go with acceptor.go and eventloop_engine_group.go, composed  *)
(* with the connections of TcpConn and the pollers of Poller: a boss loop  *)
(* that accepts, and worker loops that the connections are spread over.    *)
(***************************************************************************)
EXTENDS TcpConn

CONSTANTS
    AcceptErrors,  \* accept(2) may fail
    MaxStarts      \* bound: calls of Start

ASSUME ServerAssumption == AcceptErrors \in BOOLEAN /\ MaxStarts \in Nat

VARIABLES
    started,     \* s.started
    starts,      \* calls of Start so far
    starting,    \* Start has found listening FALSE and not yet queued listen
    works,       \* len(group.works)
    next,        \* group.next
    listening,   \* acceptor.listening
    nextConnId,  \* s.nextConnId
    connMap,     \* s.connMap
    backlog,     \* connections in the listen queue of the kernel
    clients      \* clients that have connected so far

startVars  == <<started, starts, starting, works>>
serverVars == <<startVars, next, listening, nextConnId, connMap, backlog, clients>>
vars       == <<connVars, serverVars>>

TypeOK ==
    /\ ConnTypeOK
    /\ started \in BOOLEAN /\ starts \in 0..MaxStarts /\ starting \in BOOLEAN
    /\ works \in {0, EngineCnt} /\ next \in 0..EngineCnt
    /\ listening \in BOOLEAN
    /\ nextConnId \in 1..(MaxConns + 1)
    /\ connMap \subseteq Conns
    /\ backlog \in 0..MaxConns /\ clients \in 0..MaxConns

\* NewTcpServer has returned: the acceptor's socket is bound, not listening.
Init ==
    /\ ConnInit
    /\ started = FALSE /\ starts = 0 /\ starting = FALSE
    /\ works = 0 /\ next = 0
    /\ listening = FALSE
    /\ nextConnId = 1
    /\ connMap = {}
    /\ backlog = 0 /\ clients = 0

-----------------------------------------------------------------------------

\* TcpServer.Start, in the user's goroutine: the engines are started once; it
\* looks at listening without synchronization with the boss, and then queues
\* listen.
Start ==
    /\ starts < MaxStarts /\ ~starting
    /\ starts' = starts + 1
    /\ started' = TRUE
    /\ works' = IF started THEN works ELSE EngineCnt
    /\ starting' = ~listening
    /\ UNCHANGED <<connVars, next, listening, nextConnId, connMap, backlog, clients>>

StartQueues ==
    /\ starting
    /\ starting' = FALSE
    /\ queue' = [queue EXCEPT ![Boss] = Append(@, Task("listen", 0))]
    /\ UNCHANGED <<loopVars, batch, io, file, state, idVars, dataVars, shutWr,
                   caller, peerVars, started, starts, works, next, listening,
                   nextConnId, connMap, backlog, clients>>

\* acceptor.listen, a task of the boss.  socket.listen panics when the
\* acceptor's socket is closed.
Listen ==
    /\ TaskIs(Boss, "listen")
    /\ listening' = TRUE
    /\ io' = IF file[0] = 0 THEN enableReading(io, Boss, 0, 0) ELSE Assert(io, FALSE)
    /\ TaskDone(Boss)
    /\ UNCHANGED <<loopVars, queue, file, state, idVars, dataVars, shutWr, caller,
                   peerVars, startVars, next, nextConnId, connMap, backlog,
                   clients>>

\* The kernel completes a client's handshake.
ClientConnects ==
    /\ listening /\ file[0] = 0
    /\ clients < MaxConns
    /\ clients' = clients + 1
    /\ backlog' = backlog + 1
    /\ UNCHANGED <<connVars, startVars, next, listening, nextConnId, connMap>>

\* EventloopEngineGroup.GetNextLoop: the loop, and group.next after it.
NextIndex == IF next >= works THEN 0 ELSE next
NextLoop  == IF works = 0 THEN Boss ELSE NextIndex + 1
AfterNext == IF works = 0 THEN next ELSE NextIndex + 1

\* The number accept(2) returns: the lowest that is free.
LowestFree(f) == file[f] = None /\ \A g \in 0..(f - 1) : file[g] # None

\* Mutation: the connection is never established.
newConn_NotEstablished(f) ==
    LET c == nextConnId IN
    /\ nextConnId' = c + 1
    /\ next' = AfterNext
    /\ loopOf' = [loopOf EXCEPT ![c] = NextLoop]
    /\ fdOf' = [fdOf EXCEPT ![c] = f]
    /\ file' = [file EXCEPT ![f] = c]
    /\ state' = [state EXCEPT ![c] = "Connecting"]
    /\ peer' = [peer EXCEPT ![c] = "open"]
    /\ connMap' = connMap \cup {c}
    /\ UNCHANGED queue

\* TcpServer.newConn, on the socket that accept has put at f.
newConn(f) ==
    LET c == nextConnId IN
    /\ nextConnId' = c + 1
    /\ next' = AfterNext
    /\ loopOf' = [loopOf EXCEPT ![c] = NextLoop]
    /\ fdOf' = [fdOf EXCEPT ![c] = f]
    /\ file' = [file EXCEPT ![f] = c]
    /\ state' = [state EXCEPT ![c] = "Connecting"]
    /\ peer' = [peer EXCEPT ![c] = "open"]
    /\ connMap' = connMap \cup {c}
    /\ queue' = [queue EXCEPT ![NextLoop] = Append(@, Task("connectEstablished", c))]

\* acceptor.handleRead: accept(2) succeeds.
Accept(e) ==
    /\ lpc[Boss] = "events"
    /\ e \in active[Boss] /\ e.ch = 0
    /\ active' = [active EXCEPT ![Boss] = @ \ {e}]
    /\ backlog' = backlog - 1
    /\ \E f \in Fds : LowestFree(f) /\ newConn(f)
    /\ UNCHANGED <<lpc, batch, io, dataVars, shutWr, caller, unread, msgs,
                   startVars, listening, clients>>

\* acceptor.handleRead: accept(2) fails, with whatever error; the client is
\* gone and the listening socket is closed.
AcceptFails(e) ==
    /\ AcceptErrors
    /\ lpc[Boss] = "events"
    /\ e \in active[Boss] /\ e.ch = 0
    /\ active' = [active EXCEPT ![Boss] = @ \ {e}]
    /\ backlog' = backlog - 1
    /\ file' = [file EXCEPT ![0] = None]
    /\ io' = closed(io, 0)
    /\ UNCHANGED <<lpc, taskVars, state, idVars, dataVars, shutWr, caller,
                   peerVars, startVars, next, listening, nextConnId, connMap,
                   clients>>

\* Mutation: connectDestroyed is queued on the boss, which runs this.
removeConnInLoop_OnBoss ==
    LET c == Head(batch[Boss]).conn IN
    /\ TaskIs(Boss, "removeConn")
    /\ connMap' = connMap \ {c}
    /\ queue' = [queue EXCEPT ![Boss] = Append(@, Task("connectDestroyed", c))]
    /\ TaskDone(Boss)
    /\ UNCHANGED <<loopVars, io, file, state, idVars, dataVars, shutWr, caller,
                   peerVars, startVars, next, listening, nextConnId, backlog,
                   clients>>

\* Mutation: the connection is forgotten and not destroyed.
removeConnInLoop_Forgets ==
    LET c == Head(batch[Boss]).conn IN
    /\ TaskIs(Boss, "removeConn")
    /\ connMap' = connMap \ {c}
    /\ TaskDone(Boss)
    /\ UNCHANGED <<loopVars, queue, io, file, state, idVars, dataVars, shutWr,
                   caller, peerVars, startVars, next, listening, nextConnId,
                   backlog, clients>>

\* removeConnInLoop, a task of the boss.
removeConnInLoop ==
    LET c == Head(batch[Boss]).conn IN
    /\ TaskIs(Boss, "removeConn")
    /\ connMap' = connMap \ {c}
    /\ queue' = [queue EXCEPT ![loopOf[c]] = Append(@, Task("connectDestroyed", c))]
    /\ TaskDone(Boss)
    /\ UNCHANGED <<loopVars, io, file, state, idVars, dataVars, shutWr, caller,
                   peerVars, startVars, next, listening, nextConnId, backlog,
                   clients>>

-----------------------------------------------------------------------------
(* A round of loop l.                                                       *)

\* The events epoll_wait reports of channel ch, when its descriptor is watched
\* for events.
Reported(ch, events) ==
    LET in == IF ch = 0 THEN backlog > 0
              ELSE unread[ch] > 0 \/ peer[ch] \in {"closed", "reset"}
    IN  {ev \in events : ev = EventRead => in}

Poll(l) ==
    /\ lpc[l] = "poll"
    /\ lpc' = [lpc EXCEPT ![l] = "events"]
    /\ active' = [active EXCEPT ![l] =
                    {e \in {[ch |-> io.reg[l][f].ch,
                             revents |-> Reported(io.reg[l][f].ch, io.reg[l][f].events)]
                              : f \in {g \in Fds : io.reg[l][g] # NoReg}} :
                        e.revents # {}}]
    /\ UNCHANGED <<taskVars, io, file, state, idVars, dataVars, shutWr, caller,
                   peerVars, serverVars>>

\* runPendingTasks takes the pending tasks once all events are handled.
TakePending(l) ==
    /\ lpc[l] = "events"
    /\ active[l] = {}
    /\ lpc' = [lpc EXCEPT ![l] = "tasks"]
    /\ batch' = [batch EXCEPT ![l] = queue[l]]
    /\ queue' = [queue EXCEPT ![l] = <<>>]
    /\ UNCHANGED <<active, io, file, state, idVars, dataVars, shutWr, caller,
                   peerVars, serverVars>>

TasksDone(l) ==
    /\ lpc[l] = "tasks"
    /\ batch[l] = <<>>
    /\ lpc' = [lpc EXCEPT ![l] = "poll"]
    /\ UNCHANGED <<active, taskVars, io, file, state, idVars, dataVars, shutWr,
                   caller, peerVars, serverVars>>

ConnStep(l) ==
    /\ \/ \E e \in active[l] : HandleEvent(l, e)
       \/ connectEstablished(l) \/ RunWrite(l) \/ RunWriteComplete(l)
       \/ shutdownWrite(l) \/ connectDestroyed(l) \/ CloseConn(l)
    /\ UNCHANGED serverVars

BossStep ==
    \/ Listen \/ removeConnInLoop
    \/ \E e \in active[Boss] : Accept(e) \/ AcceptFails(e)

\* A panic in any loop ends the process.
LoopStep(l) ==
    /\ io.ok
    /\ \/ Poll(l) \/ TakePending(l) \/ TasksDone(l)
       \/ ConnStep(l)
       \/ l = Boss /\ BossStep

Environment ==
    /\ io.ok
    /\ \/ Start \/ StartQueues \/ ClientConnects
       \/ /\ \E c \in Conns : \/ AsyncWrite(c)
                              \/ ShutdownWriteCheck(c) \/ ShutdownWriteStore(c)
                              \/ PeerSends(c) \/ PeerCloses(c)
          /\ UNCHANGED serverVars

Next == (\E l \in Loops : LoopStep(l)) \/ Environment

Spec == Init /\ [][Next]_vars

\* The loops run; nothing is assumed of users and peers.
FairSpec == Spec /\ \A l \in Loops : WF_vars(LoopStep(l))

-----------------------------------------------------------------------------
(* Properties.                                                              *)

\* No util.Assert of connectEstablished, connectDestroyed, updateChannel and
\* removeChannel fails: a connection is established once and destroyed once,
\* on its own loop, and the number of a closed connection is out of
\* channelMap before a new connection with the same number is registered.
NoPanic == io.ok

\* A number that a poller watches, or has in its channelMap, is open and is
\* the socket of that channel's connection, although numbers are reused by a
\* loop other than the one that closes them; and the channel that epoll hands
\* back as a raw pointer is one that channelMap keeps alive.
RegisteredIsOwn ==
    \A l \in Loops, f \in Fds \ {0} :
        /\ io.map[l][f] # None =>
              file[f] = io.map[l][f] /\ loopOf[file[f]] = l /\ fdOf[file[f]] = f
        /\ io.reg[l][f] # NoReg => io.reg[l][f].ch = io.map[l][f]

\* Write goes to the connection's own socket: as long as the state lets it
\* through, the number has not been closed, let alone reused.
WriteHasOwnSocket ==
    \A c \in Conns :
        state[c] \in {"Connecting", "Connected"} => file[fdOf[c]] = c

\* connMap accounts for the sockets: an entry has its socket, and a socket
\* that has lost its entry is about to be closed by its loop.
ConnsAccounted ==
    \A c \in Conns :
        /\ c \in connMap => file[fdOf[c]] = c
        /\ state[c] # "none" /\ c \notin connMap =>
              (file[fdOf[c]] = c <=> Queued("connectDestroyed", c))

\* What the peer receives is what was written, from the start and without a
\* gap: Write does not overtake the data in the outbound buffer, also after
\* handleClose has cleared the events that say there is some.  And what is
\* neither sent nor buffered was lost to an outbound buffer that was full, and
\* is full for ever: while there is room in it, every unit that Write has
\* accepted is with the kernel or in the buffer.
SentInOrder ==
    \A c \in Conns :
        /\ \A i \in DOMAIN got[c] : got[c][i] = i
        /\ Len(got[c]) + out[c] <= wrote[c]
        /\ out[c] < capacity[c] => Len(got[c]) + out[c] = wrote[c]

\* The half-close of ShutdownWrite comes after all the data: nothing is
\* buffered then, and Write lets nothing through any more, unless the peer
\* has closed already.
FinComesLast ==
    \A c \in Conns :
        shutWr[c] /\ EventRead \in io.chan[c].events =>
            out[c] = 0 /\ state[c] # "Connected"

\* A connection whose peer has closed or reset it is destroyed and its
\* descriptor closed, through the queues of two loops.
PeerCloseIsServed ==
    \A c \in Conns :
        peer[c] \in {"closed", "reset"} ~> \A f \in Fds : file[f] # c

\* Every client that reaches the backlog becomes a connection that onConn
\* sees, unless accepting has failed.
ClientIsServed ==
    \A c \in Conns :
        clients >= c ~> (state[c] \notin {"none", "Connecting"} \/ file[0] = None)

\* Data that Write has buffered is sent and the write completed, as the test
\* of SetOnWriteComplete expects of every Write, while the peer stays.
WriteIsCompleted ==
    \A c \in Conns : out[c] > 0 ~> (out[c] = 0 \/ peer[c] # "open")

-----------------------------------------------------------------------------
(* The inductive invariant of the proofs.                                   *)

\* The tasks loop l has still to call, in order.
Todo(l) == batch[l] \o queue[l]

Has(s, t)  == \E i \in DOMAIN s : s[i] = t
Once(s, t) == \A i, j \in DOMAIN s : s[i] = t /\ s[j] = t => i = j

\* Where a loop is, what it has left to do there, and which of the events it
\* holds are still true: the read event of a connection is one that the
\* channel listens for, and there is one event per channel.
LoopOK(l) ==
    /\ lpc[l] # "events" => active[l] = {}
    /\ lpc[l] \in {"poll", "events"} => batch[l] = <<>>
    /\ lpc[l] = "close" => /\ batch[l] # <<>>
                           /\ Head(batch[l]).op = "connectDestroyed"
    /\ \A e \in active[l] :
          /\ e.ch \in Conns /\ EventRead \in e.revents =>
                loopOf[e.ch] = l /\ EventRead \in io.chan[e.ch].events
          /\ e.ch = 0 /\ l = Boss =>
                file[0] = 0 /\ backlog > 0 /\ io.chan[0].index = "add"
          /\ \A d \in active[l] : d.ch = e.ch => d = e

\* The pollers i agree with the kernel's descriptors: only a channel that is
\* in channelMap can be watched, and it owns its number.
NumberOK(i, l, f) ==
    LET c == i.map[l][f] IN
    IF c = None THEN i.reg[l][f] = NoReg
    ELSE /\ c \in Conns /\ file[f] = c /\ loopOf[c] = l /\ fdOf[c] = f
         /\ i.chan[c].index # "new"
         /\ i.reg[l][f] = IF i.chan[c].index = "add"
                          THEN [ch |-> c, events |-> i.chan[c].events] ELSE NoReg
ChannelOK(i, c) ==
    /\ i.chan[c].index = "add" <=> i.chan[c].events # {}
    /\ i.chan[c].index # "new" => fdOf[c] # 0 /\ i.map[loopOf[c]][fdOf[c]] = c
PollerOK(i) ==
    /\ \A l \in Loops, f \in Fds \ {0} : NumberOK(i, l, f)
    /\ \A c \in Conns : ChannelOK(i, c)

\* The same of the acceptor, whose descriptor may be closed under its channel.
AcceptorOK(i) ==
    /\ i.chan[0] \in {[events |-> {}, index |-> "new"],
                      [events |-> {EventRead}, index |-> "add"]}
    /\ i.chan[0].index = "new" => file[0] = 0
    /\ \A l \in Loops :
          /\ i.map[l][0] = IF l = Boss /\ i.chan[0].index = "add" THEN 0 ELSE None
          /\ i.reg[l][0] # NoReg =>
                /\ l = Boss /\ i.chan[0].index = "add" /\ file[0] = 0
                /\ i.reg[l][0] = [ch |-> 0, events |-> {EventRead}]

\* A descriptor and its connection know each other; accept has a connection
\* left to make for every client in the backlog.
FilesOK ==
    /\ file[0] \in {0, None}
    /\ \A f \in Fds \ {0} :
          file[f] # None => file[f] \in Conns /\ fdOf[file[f]] = f
    /\ \A c \in Conns : state[c] = "none" <=> c >= nextConnId
    /\ nextConnId + backlog <= clients + 1

\* The life of a connection: its state, its socket, whether its channel is
\* registered and listens for reading, its entry in connMap, and which of the
\* closures that establish, remove and destroy it are still to run.
Phase(st, owns, index, reading, mapped, est, rem, des, closing) ==
    \/ /\ st = "none" /\ ~owns /\ index = "new" /\ ~mapped
       /\ ~est /\ ~rem /\ ~des
    \/ /\ st = "Connecting" /\ owns /\ index = "new" /\ mapped
       /\ est /\ ~rem /\ ~des
    \/ /\ st \in {"Connected", "Disconnecting"} /\ owns /\ index # "new"
       /\ reading /\ mapped /\ ~est /\ ~rem /\ ~des
    \/ /\ st \in {"Connected", "Disconnecting"} /\ owns /\ index # "new"
       /\ ~reading /\ ~est /\ ~closing
       /\ (mapped <=> rem) /\ (des <=> ~rem)
    \/ /\ st \in {"Disconnecting", "Disconnected"} /\ owns /\ index = "new"
       /\ ~mapped /\ ~est /\ ~rem /\ des /\ closing
    \/ /\ st \in {"Disconnecting", "Disconnected"} /\ ~owns /\ index = "new"
       /\ ~mapped /\ ~est /\ ~rem /\ ~des

PhaseOK(c) ==
    LET l == loopOf[c] IN
    Phase(state[c], file[fdOf[c]] = c, io.chan[c].index,
          EventRead \in io.chan[c].events, c \in connMap,
          Has(Todo(l), Task("connectEstablished", c)),
          Has(Todo(Boss), Task("removeConn", c)),
          Has(Todo(l), Task("connectDestroyed", c)),
          lpc[l] = "close" /\ Head(batch[l]).conn = c)

\* These closures are pending once at most, and on the right loop.
TasksOK(c) ==
    \A m \in Loops :
        /\ \A op \in {"connectEstablished", "removeConn", "connectDestroyed"} :
              Once(Todo(m), Task(op, c))
        /\ Has(Todo(m), Task("connectEstablished", c)) => m = loopOf[c]
        /\ Has(Todo(m), Task("connectDestroyed", c)) => m = loopOf[c]
        /\ Has(Todo(m), Task("removeConn", c)) => m = Boss

ConnOK(c) ==
    /\ PhaseOK(c) /\ TasksOK(c)
    /\ caller[c] = "checked" => state[c] \notin {"none", "Connecting"}

\* The server does not meet the two panics that the environment can bring
\* about: the slice expression of Write after EWOULDBLOCK, and socket.listen
\* once more, after a second Start, when a failed accept has closed the socket.
Benign == "again" \notin WriteOutcomes /\ (AcceptErrors => MaxStarts <= 1)

CoreInv ==
    /\ TypeOK
    /\ \A l \in Loops : LoopOK(l)
    /\ PollerOK(io) /\ AcceptorOK(io) /\ FilesOK
    /\ \A c \in Conns : ConnOK(c)
    /\ Benign => io.ok

\* The listening socket is closed after a failed accept only, and then Start,
\* if it is called once, has no listen under way.
ListenOK ==
    LET queued == Has(Todo(Boss), Task("listen", 0)) IN
    /\ backlog > 0 => listening
    /\ ~listening \/ ~AcceptErrors => file[0] = 0
    /\ MaxStarts <= 1 =>
          /\ starts = 0 => ~starting /\ ~queued
          /\ starting => ~listening /\ ~queued
          /\ queued => ~listening
          /\ Once(Todo(Boss), Task("listen", 0))

\* All of it.
ServerInv == CoreInv /\ ListenOK

-----------------------------------------------------------------------------
(* What the proof about the half-close needs besides.                       *)

Before(s, t, u) == \A i, j \in DOMAIN s : s[i] = t /\ s[j] = u => i < j

\* Where a connection is on its way to the half-close, when ShutdownWrite is
\* only called in onConn and onMsg: it is called once, on a connection that
\* listens for reading, and its closure runs before the one that destroys
\* the connection; data is buffered only while the channel listens for writing.
FinOK(c) ==
    /\ caller[c] = "idle"
    /\ state[c] \in {"none", "Connecting"} => out[c] = 0
    /\ state[c] = "Disconnecting" => io.chan[c].index # "new"
    /\ EventRead \in io.chan[c].events /\ out[c] > 0 => isWriting(io, c)
    /\ shutWr[c] => /\ state[c] \in {"Disconnecting", "Disconnected"}
                    /\ EventRead \in io.chan[c].events => out[c] = 0
    /\ \A m \in Loops : Has(Todo(m), Task("shutdownWrite", c)) =>
                           m = loopOf[c] /\ state[c] = "Disconnecting"
    /\ Before(Todo(loopOf[c]), Task("shutdownWrite", c), Task("connectDestroyed", c))
FinInv == \A c \in Conns : FinOK(c)

=============================================================================
