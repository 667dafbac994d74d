------------------------------ MODULE TcpConn -------------------------------
(***************************************************************************)
(* tcp_conn.go: the connections of one process, each owned by one event    *)
(* loop, and the part of the loops that runs their handlers and closures.  *)
(*                                                                         *)
(* A loop is reduced to its rounds (see EventLoop): poll, the callbacks of *)
(* the active channels, the tasks that were pending when they were taken.  *)
(* AsyncExecute is an atomic push on the FIFO of the loop.                 *)
(*                                                                         *)
(* Channel 0 and descriptor 0 belong to the acceptor, which TcpServer      *)
(* adds; connection c is the c-th that the process creates.                *)
(***************************************************************************)
EXTENDS Naturals, Sequences

CONSTANTS
    EngineCnt,     \* worker loops 1..EngineCnt; loop 0 is the boss
    MaxConns,      \* bound: connections ever created
    MaxMsgs,       \* bound: messages a peer sends
    MaxUnits,      \* bound: Write is called while fewer units were accepted, per connection
    WriteSizes,    \* lengths of the argument of Write, in units
    BufferLen,     \* length of a new Buffer, in units
    WriteOutcomes, \* what write(2) may do: "all", "partial", "again", "error"
    AnyShutdown,   \* ShutdownWrite is called from anywhere, not only in onConn, onMsg
    None           \* no channel

ASSUME ConnAssumption ==
    /\ EngineCnt \in Nat /\ MaxConns \in Nat /\ MaxMsgs \in Nat
    /\ MaxUnits \in Nat /\ WriteSizes \subseteq Nat \ {0} /\ BufferLen \in Nat \ {0}
    /\ WriteOutcomes \subseteq {"all", "partial", "again", "error"}
    /\ AnyShutdown \in BOOLEAN
    /\ None \notin 0..MaxConns

Loops    == 0..EngineCnt
Boss     == 0
Fds      == 0..MaxConns
Channels == 0..MaxConns
Conns    == 1..MaxConns

INSTANCE Poller

VARIABLES
    lpc,      \* per loop, where it is in Loop()
    active,   \* per loop, el.activeChannels not handled yet, with revents
    queue,    \* per loop, el.pendingTasks
    batch,    \* per loop, the tasks taken and not yet called
    io,       \* the pollers and channels, see Poller
    file,     \* per descriptor, the socket it refers to, None when it is free
    state,    \* per connection, TcpConn.state; "none" before it exists
    fdOf,     \* per connection, the descriptor number it was created with
    loopOf,   \* per connection, TcpConn.el
    wrote,    \* per connection, units of data Write has accepted
    out,      \* per connection, units in outbound
    capacity, \* per connection, len(outbound.buf)
    got,      \* per connection, the units handed to the kernel, in order
    shutWr,   \* per socket, shutdown(SHUT_WR) was done
    caller,   \* per connection, a goroutine inside ShutdownWrite
    peer,     \* per connection, what the other end has done
    unread,   \* per connection, messages received and not read
    msgs      \* per connection, messages sent by the peer so far

loopVars == <<lpc, active>>
taskVars == <<queue, batch>>
dataVars == <<wrote, out, capacity, got>>
peerVars == <<peer, unread, msgs>>
idVars   == <<fdOf, loopOf>>
connVars == <<loopVars, taskVars, io, file, state, idVars, dataVars, shutWr,
              caller, peerVars>>

States == {"none", "Connecting", "Connected", "Disconnecting", "Disconnected"}
Ops    == {"listen", "connectEstablished", "removeConn", "connectDestroyed",
           "write", "onWriteComplete", "shutdownWrite"}
Task(op, c) == [op |-> op, conn |-> c]
Tasks == {t \in [op : Ops, conn : Channels] : t.conn = 0 <=> t.op = "listen"}

ConnTypeOK ==
    /\ lpc \in [Loops -> {"poll", "events", "tasks", "close"}]
    /\ active \in [Loops -> SUBSET [ch : Channels, revents : SUBSET {EventRead, EventWrite}]]
    /\ queue \in [Loops -> Seq(Tasks)]
    /\ batch \in [Loops -> Seq(Tasks)]
    /\ io \in IoType
    /\ file \in [Fds -> Channels \cup {None}]
    /\ state \in [Conns -> States]
    /\ fdOf \in [Conns -> Fds]
    /\ loopOf \in [Conns -> Loops]
    /\ wrote \in [Conns -> Nat]
    /\ out \in [Conns -> Nat] /\ capacity \in [Conns -> Nat \ {0}]
    /\ \A c \in Conns : out[c] <= capacity[c]
    /\ got \in [Conns -> Seq(Nat)]
    /\ shutWr \in [Conns -> BOOLEAN]
    /\ caller \in [Conns -> {"idle", "checked"}]
    /\ peer \in [Conns -> {"none", "open", "closed", "reset"}]
    /\ unread \in [Conns -> Nat]
    /\ msgs \in [Conns -> Nat]

ConnInit ==
    /\ lpc = [l \in Loops |-> "poll"]
    /\ active = [l \in Loops |-> {}]
    /\ queue = [l \in Loops |-> <<>>]
    /\ batch = [l \in Loops |-> <<>>]
    /\ io = NewIo
    /\ file = [f \in Fds |-> IF f = 0 THEN 0 ELSE None]
    /\ state = [c \in Conns |-> "none"]
    /\ fdOf = [c \in Conns |-> 0]
    /\ loopOf = [c \in Conns |-> Boss]
    /\ wrote = [c \in Conns |-> 0]
    /\ out = [c \in Conns |-> 0]
    /\ capacity = [c \in Conns |-> BufferLen]
    /\ got = [c \in Conns |-> <<>>]
    /\ shutWr = [c \in Conns |-> FALSE]
    /\ caller = [c \in Conns |-> "idle"]
    /\ peer = [c \in Conns |-> "none"]
    /\ unread = [c \in Conns |-> 0]
    /\ msgs = [c \in Conns |-> 0]

-----------------------------------------------------------------------------
(* Operations that run inside a handler or a task of the connection's loop. *)
(* They say how io, state, queue, dataVars change; the handler says the rest.*)

\* Mutation: the outbound buffer is not looked at before the direct write.
DirectWrite_NotBuffered(c, io0) == ~isWriting(io0, c)

\* Write tries the socket itself when nothing is buffered.
DirectWrite(c, io0) == ~isWriting(io0, c) /\ out[c] = 0

\* len(outbound.buf) when Buffer.Write has made room for n units.  makeSpace
\* counts the units that hold data as room, and grows the buffer only for more
\* than all of it.  Nothing is ever taken from outbound, which therefore
\* begins at readIndex 0.
Grown(c, n) ==
    IF capacity[c] - out[c] < n /\ capacity[c] < n THEN capacity[c] + n
    ELSE capacity[c]

\* outbound.Write of n units: it keeps as many as there is room for, and
\* TcpConn.Write drops the count that it returns.
OutboundWrite(c, n) ==
    LET room == Grown(c, n) - out[c]
    IN  /\ capacity' = [capacity EXCEPT ![c] = Grown(c, n)]
        /\ out' = [out EXCEPT ![c] = @ + IF n <= room THEN n ELSE room]

\* The channel listens for writability.
Buffered(c, io0) ==
    io' = IF isWriting(io0, c) THEN io0
          ELSE enableWriting(io0, loopOf[c], fdOf[c], c)

\* The next n units of the stream are accepted; the kernel gets k of them.
Accepts(c, n) == wrote' = [wrote EXCEPT ![c] = @ + n]
Sends(c, k)   == got' = [got EXCEPT ![c] = @ \o [i \in 1..k |-> wrote[c] + i]]

\* Write of n units on a connection that is Connected, with the pollers at
\* io0.  After EWOULDBLOCK n is -1 and the slice buf[-1:] panics.
WriteConnected(c, n, io0) ==
    \/ /\ ~DirectWrite(c, io0)
       /\ Accepts(c, n) /\ OutboundWrite(c, n)
       /\ Buffered(c, io0)
       /\ UNCHANGED <<got, queue>>
    \/ /\ DirectWrite(c, io0)
       /\ "error" \in WriteOutcomes
       /\ io' = io0
       /\ UNCHANGED <<dataVars, queue>>
    \/ /\ DirectWrite(c, io0)
       /\ "again" \in WriteOutcomes
       /\ io' = Assert(io0, FALSE)
       /\ UNCHANGED <<dataVars, queue>>
    \/ /\ DirectWrite(c, io0)
       /\ "all" \in WriteOutcomes
       /\ Accepts(c, n) /\ Sends(c, n)
       /\ queue' = [queue EXCEPT ![loopOf[c]] =
                      Append(@, Task("onWriteComplete", c))]
       /\ io' = io0
       /\ UNCHANGED <<out, capacity>>
    \/ /\ DirectWrite(c, io0)
       /\ "partial" \in WriteOutcomes
       /\ \E k \in 1..(n - 1) : Sends(c, k) /\ OutboundWrite(c, n - k)
       /\ Accepts(c, n)
       /\ Buffered(c, io0)
       /\ UNCHANGED queue

\* The bound on the user's writes.
MayWrite(c) == wrote[c] < MaxUnits

\* Write, with the state at st; on a connection that is not open it returns
\* ErrConnNotOpened.
Write(c, st, io0) ==
    IF st = "Connected" THEN \E n \in WriteSizes : WriteConnected(c, n, io0)
    ELSE io' = io0 /\ UNCHANGED <<queue, dataVars>>

\* ShutdownWrite, called in the connection's own loop.
ShutdownWrite(c) ==
    /\ state[c] = "Connected"
    /\ state' = [state EXCEPT ![c] = "Disconnecting"]
    /\ queue' = [queue EXCEPT ![loopOf[c]] = Append(@, Task("shutdownWrite", c))]
    /\ UNCHANGED <<io, dataVars>>

DoNothing(io0) == io' = io0 /\ UNCHANGED <<state, queue, dataVars>>

\* What a user's callback does with the connection: nothing, one Write, or,
\* where mayShut, ShutdownWrite.
UserCallback(c, mayShut) ==
    \/ DoNothing(io)
    \/ MayWrite(c) /\ Write(c, state[c], io) /\ UNCHANGED state
    \/ mayShut /\ ShutdownWrite(c)

-----------------------------------------------------------------------------
(* Handlers of channel events.                                              *)

\* handleClose, with onClose = TcpServer.removeConn.
handleClose(c) ==
    /\ io' = disableAll(io, loopOf[c], fdOf[c], c)
    /\ queue' = [queue EXCEPT ![Boss] = Append(@, Task("removeConn", c))]
    /\ UNCHANGED <<state, dataVars>>

\* handleRead: all that has arrived is read and onMsg called; an error is
\* logged and nothing is done, the next read finds the end of the stream.
handleRead(c) ==
    \/ /\ unread[c] > 0
       /\ unread' = [unread EXCEPT ![c] = 0]
       /\ UserCallback(c, TRUE)
       /\ UNCHANGED peer
    \/ /\ unread[c] = 0
       /\ peer[c] = "reset"
       /\ peer' = [peer EXCEPT ![c] = "closed"]
       /\ DoNothing(io)
       /\ UNCHANGED unread
    \/ /\ unread[c] = 0
       /\ peer[c] = "closed"
       /\ handleClose(c)
       /\ UNCHANGED <<peer, unread>>

\* Channel.handleEvent on the channel of a connection: readCallback is the
\* only callback that NewTcpConn sets.
HandleEvent(l, e) ==
    /\ lpc[l] = "events"
    /\ e \in active[l]
    /\ e.ch \in Conns
    /\ active' = [active EXCEPT ![l] = @ \ {e}]
    /\ IF EventRead \in e.revents
       THEN handleRead(e.ch)
       ELSE DoNothing(io) /\ UNCHANGED <<peer, unread>>
    /\ UNCHANGED <<lpc, batch, file, idVars, shutWr, caller, msgs>>

-----------------------------------------------------------------------------
(* Tasks of a connection.                                                   *)

\* The next task of loop l is op; what it changes besides is in the caller.
TaskIs(l, op) ==
    /\ lpc[l] = "tasks"
    /\ batch[l] # <<>>
    /\ Head(batch[l]).op = op

TaskDone(l) == batch' = [batch EXCEPT ![l] = Tail(@)]

\* connectEstablished, with onConn as the last thing it calls: it does
\* nothing, writes, or shuts down.
connectEstablished(l) ==
    LET c   == Head(batch[l]).conn
        io1 == enableReading(Assert(io, state[c] = "Connecting"), l, fdOf[c], c)
    IN  /\ TaskIs(l, "connectEstablished")
        /\ \/ /\ io' = io1
              /\ state' = [state EXCEPT ![c] = "Connected"]
              /\ UNCHANGED <<queue, dataVars>>
           \/ /\ MayWrite(c)
              /\ Write(c, "Connected", io1)
              /\ state' = [state EXCEPT ![c] = "Connected"]
           \/ /\ io' = io1
              /\ state' = [state EXCEPT ![c] = "Disconnecting"]
              /\ queue' = [queue EXCEPT ![l] = Append(@, Task("shutdownWrite", c))]
              /\ UNCHANGED dataVars
        /\ TaskDone(l)
        /\ UNCHANGED <<loopVars, file, idVars, shutWr, caller, peerVars>>

\* The closure of AsyncWrite.
RunWrite(l) ==
    LET c == Head(batch[l]).conn IN
    /\ TaskIs(l, "write")
    /\ Write(c, state[c], io)
    /\ TaskDone(l)
    /\ UNCHANGED <<loopVars, file, state, idVars, shutWr, caller, peerVars>>

\* The closure that calls onWriteComplete.
RunWriteComplete(l) ==
    LET c == Head(batch[l]).conn IN
    /\ TaskIs(l, "onWriteComplete")
    /\ UserCallback(c, AnyShutdown)
    /\ TaskDone(l)
    /\ UNCHANGED <<loopVars, file, idVars, shutWr, caller, peerVars>>

\* Mutation: the half-close does not wait for the buffered data.
shutdownWrite_Always(l) ==
    LET s == file[fdOf[Head(batch[l]).conn]] IN
    /\ TaskIs(l, "shutdownWrite")
    /\ shutWr' = IF s \in Conns THEN [shutWr EXCEPT ![s] = TRUE] ELSE shutWr
    /\ TaskDone(l)
    /\ UNCHANGED <<loopVars, queue, io, file, state, idVars, dataVars, caller,
                   peerVars>>

\* shutdownWrite: shutdown(2) goes to whatever socket the number refers to.
shutdownWrite(l) ==
    LET c == Head(batch[l]).conn
        s == file[fdOf[c]]
    IN  /\ TaskIs(l, "shutdownWrite")
        /\ shutWr' = IF ~isWriting(io, c) /\ s \in Conns
                     THEN [shutWr EXCEPT ![s] = TRUE] ELSE shutWr
        /\ TaskDone(l)
        /\ UNCHANGED <<loopVars, queue, io, file, state, idVars, dataVars, caller,
                       peerVars>>

\* Mutation: the connection stays in the state it was in.
connectDestroyed_KeepsState(l) ==
    LET c == Head(batch[l]).conn
        f == fdOf[c]
        asserted == Assert(io, state[c] \in {"Connected", "Disconnecting"})
    IN  /\ TaskIs(l, "connectDestroyed")
        /\ io' = removeChannel(disableAll(asserted, l, f, c), l, f, c)
        /\ lpc' = [lpc EXCEPT ![l] = "close"]
        /\ UNCHANGED <<active, taskVars, file, state, idVars, dataVars, shutWr,
                       caller, peerVars>>

\* connectDestroyed; onConn finds the connection Disconnected, on which
\* Write and ShutdownWrite do nothing.
connectDestroyed(l) ==
    LET c == Head(batch[l]).conn
        f == fdOf[c]
        asserted == Assert(io, state[c] \in {"Connected", "Disconnecting"})
    IN  /\ TaskIs(l, "connectDestroyed")
        /\ state' = [state EXCEPT ![c] = "Disconnected"]
        /\ io' = removeChannel(disableAll(asserted, l, f, c), l, f, c)
        /\ lpc' = [lpc EXCEPT ![l] = "close"]
        /\ UNCHANGED <<active, taskVars, file, idVars, dataVars, shutWr, caller,
                       peerVars>>

\* The rest of the same closure: so.close(), which frees the number.
CloseConn(l) ==
    LET f == fdOf[Head(batch[l]).conn] IN
    /\ lpc[l] = "close"
    /\ file' = [file EXCEPT ![f] = None]
    /\ io' = closed(io, f)
    /\ lpc' = [lpc EXCEPT ![l] = "tasks"]
    /\ TaskDone(l)
    /\ UNCHANGED <<active, queue, state, idVars, dataVars, shutWr, caller,
                   peerVars>>

-----------------------------------------------------------------------------
(* Calls from goroutines that are not the connection's loop.  They have the *)
(* connection once onConn has seen it.                                      *)

Queued(op, c) ==
    \E l \in Loops : \/ \E i \in DOMAIN queue[l] : queue[l][i] = Task(op, c)
                     \/ \E i \in DOMAIN batch[l] : batch[l][i] = Task(op, c)

\* AsyncWrite: the state is read without synchronization.  Bound: one at a
\* time.
AsyncWrite(c) ==
    /\ state[c] = "Connected"
    /\ MayWrite(c)
    /\ ~Queued("write", c)
    /\ queue' = [queue EXCEPT ![loopOf[c]] = Append(@, Task("write", c))]
    /\ UNCHANGED <<loopVars, batch, io, file, state, idVars, dataVars, shutWr,
                   caller, peerVars>>

\* ShutdownWrite: the state is read, and only later written, without
\* synchronization with the loop.
ShutdownWriteCheck(c) ==
    /\ AnyShutdown
    /\ caller[c] = "idle"
    /\ state[c] = "Connected"
    /\ caller' = [caller EXCEPT ![c] = "checked"]
    /\ UNCHANGED <<loopVars, taskVars, io, file, state, idVars, dataVars, shutWr,
                   peerVars>>

ShutdownWriteStore(c) ==
    /\ caller[c] = "checked"
    /\ caller' = [caller EXCEPT ![c] = "idle"]
    /\ state' = [state EXCEPT ![c] = "Disconnecting"]
    /\ queue' = [queue EXCEPT ![loopOf[c]] = Append(@, Task("shutdownWrite", c))]
    /\ UNCHANGED <<loopVars, batch, io, file, idVars, dataVars, shutWr, peerVars>>

-----------------------------------------------------------------------------
(* The other end of a connection.                                           *)

PeerSends(c) ==
    /\ peer[c] = "open"
    /\ msgs[c] < MaxMsgs
    /\ msgs' = [msgs EXCEPT ![c] = @ + 1]
    /\ unread' = [unread EXCEPT ![c] = @ + 1]
    /\ UNCHANGED <<loopVars, taskVars, io, file, state, idVars, dataVars, shutWr,
                   caller, peer>>

\* It closes, or the connection is reset: what was not read is lost.
PeerCloses(c) ==
    /\ peer[c] = "open"
    /\ \/ peer' = [peer EXCEPT ![c] = "closed"] /\ UNCHANGED unread
       \/ /\ peer' = [peer EXCEPT ![c] = "reset"]
          /\ unread' = [unread EXCEPT ![c] = 0]
    /\ UNCHANGED <<loopVars, taskVars, io, file, state, idVars, dataVars, shutWr,
                   caller, msgs>>

=============================================================================
