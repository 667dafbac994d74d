# A TLA+ model of muduo-go

muduo-go is a reactor network library for Linux: event loops on epoll, timers
on a timerfd, buffered TCP connections, a server that spreads connections over
several loops, a client that reconnects, and a memcached server as an example.
This directory models them in TLA+, checks them with TLC on small instances, and
proves the invariants that matter most with TLAPS for every instance.

## 1. The system

| component | state | operations | who calls them |
|---|---|---|---|
| `Eventloop` (eventloop.go) | `quit`, `pendingTasks`, `taskMutex`, `evtFd`, `activeChannels` | `Loop`, `AsyncExecute`, `Wakeup`, `Stop`, `AsyncStop`, the `Schedule` family | one goroutine runs `Loop`, any goroutine the rest |
| `Poller`, `Channel` (poller.go, channel.go, epoll.go) | `channelMap`, `eventList`, per channel `events` and `index` | `poll`, `updateChannel`, `removeChannel`, `enableReading` ... | the loop's goroutine |
| `timerQueue` (timer.go) | heap of timers, timerfd, per timer `expire`, `repeat`, `canceled`, `index` | `addTask`, `addTask0`, `cancel`, `handleRead`, `reset` | the loop's goroutine; `Cancel` and `AsyncSchedule` from any |
| `Buffer` (buffer.go) | `buf`, `readIndex`, `writeIndex` | `Write`, `ReadFd`, `Next`, `Read`, `Advance`, `Reset`, `Shrink` | its connection |
| `TcpConn` (tcp_conn.go) | `state`, `inbound`, `outbound`, its channel | `Write`, `AsyncWrite`, `ShutdownWrite`, `connectEstablished`, `connectDestroyed`, the handlers | its loop; `AsyncWrite`, `ShutdownWrite` from any goroutine |
| `TcpServer`, `acceptor` (tcp_server.go, acceptor.go) | `connMap`, `nextConnId`, `started`, `listening` | `Start`, `newConn`, `removeConn`, `listen`, `handleRead` | the boss loop |
| `EventloopEngine(Group)` | `el` under `mu` and `cond`; `works`, `next` | `StartLoop`, `run`, `Start`, `GetNextLoop` | the server, or the user |
| `Connector` (connector.go) | `connect`, `state`, `ch`, `tt`, `retryDelay` | `Start`, `Stop`, `Restart`, `start`, `retry`, `handleWrite`, `handleError` | the loop; `Start` and `Stop` from any goroutine, without a lock |
| `TcpClient` (tcp_client.go) | `_connect`, `retry`, `conn` under `mu` | `Connect`, `Disconnect`, `Stop`, `Destroy`, `newConn`, `removeConn` | any goroutine; the last two the loop |
| memcached example | per session `state`, `policy`, `currItem`, `bytesToDiscard`; slots of items, each with a mutex; `_g_cas` | `OnMsg` with the commands; `Store`, `Get`, `Delete` | the loops of the connections |

Components meet in four ways: closures queued on another loop's
`pendingTasks`; the eventfd that wakes epoll_wait; callbacks of channels; and
descriptor numbers, which the kernel reuses as soon as they are closed.

What is hard: `pendingTasks` is read outside its mutex; a wakeup is a counter
that the loop empties; timers are added and canceled while the expired ones
are out of the heap; a connection dies through the queues of two loops while
its number may already be another connection's; writes are partial; the
fields of Connector and TcpClient are read in one goroutine and written in
another, and `c.ch = nil` is done by a closure that runs later. Section
"hazards" of PROJECT.json lists each one at its line, with the property that
covers it or the reason why none does.

What makes each component correct:

* Eventloop: accepted tasks run once, in order, on the loop; no wakeup is
  lost; a stop stops; a ready channel is served.
* timerQueue: the timerfd is armed whenever it must be; no timer is early,
  lost, duplicated or back from the dead.
* Poller, TcpConn, TcpServer: no assertion fails; a number is watched and
  written by its owner only; nothing leaks; data leaves in order and the
  half-close last.
* Buffer: indexes in range, bytes a queue.
* EventloopEngine: StartLoop returns the loop.
* Connector, TcpClient: one attempt at a time, no attempt forgotten, no socket
  of a failed attempt leaked; a stopped client stops; `GetConn` returns a live
  connection.
* memcached: nothing of a request is left for the next one; a cas identifies a
  version of a key.

## 2. Modules

| module | models | notes |
|---|---|---|
| `EventLoop` | `Loop`, `poll`, `AsyncExecute`, `Wakeup`, `runPendingTasks`, `Stop`, `AsyncStop` | any goroutines, tasks, channels; every shared access is a step of its own |
| `TaskLog` | what `AsyncExecute` promises | abstract: one log, called in order |
| `TimerQueue` | timer.go and the `Schedule` family | rounds of the loop; heap as a set |
| `TimerHeap` | `timerTaskHeap` on container/heap | array with indexes; one iteration of a loop is a step |
| `TimerSet` | what the queue needs of the heap | abstract |
| `Poller` | `updateChannel`, `removeChannel`, `update`, the Channel operations | operators on one record, no variables |
| `TcpConn` | connections and their handlers and closures | instantiates Poller |
| `TcpServer` | server, acceptor, engine group, composed with TcpConn | boss is loop 0, workers 1..EngineCnt |
| `Buffer`, `ByteQueue` | buffer.go, and the queue it promises to be | bytes are numbered by their place in the stream |
| `EventloopEngine` | `StartLoop` and `run` | every access under the mutex is a step |
| `Connector` | connector.go, and the loop it runs on | instantiates Poller |
| `TcpClient` | tcp_client.go, composed with Connector and EventloopEngine | the user's goroutine and the loop interleave |
| `Memcached`, `MCMemcached` | session.go, memcached_server.go, item.go; an instance for TLC | |
| `EventLoopProofs`, `TimerQueueProofs`, `TimerHeapProofs`, `BufferProofs`, `MemcachedProofs`, `TcpServerProofs`, `TcpServerDataProofs`, `TcpClientProofs` | theorems | each about the module it is named after; those of `TcpServerDataProofs` use the invariant of `TcpServerProofs` |

Operators whose name ends in an underscore and a word (`Wakeup_NotFromLoop`)
are deliberate mutations of the definition of the same name. No specification
uses them; PROJECT.json pairs each with the property it must break.

### How state and actions correspond to the code

*EventLoop.* `pc` is the place in `Loop()`; `call[c]` the place of goroutine
`c` in `AsyncExecute` or `AsyncStop`. `runPendingTasks` is three kinds of
steps: `TakePending` (the unguarded read), `SwapPending` (under the mutex) and
`RunTask` for each element. Only two lists are alive at a time, the one being
filled and the one being visited, so `lists` has two slots and `cur`, `pt` say
which is which. The loop's own goroutine calls too, from callbacks and tasks.
`HandleChannel` enters a callback of which only its calls are known.

*TimerQueue.* An atomic FIFO stands for `AsyncExecute`: that is `TaskLog`,
which `EventLoop` is proved to implement. Time is in ticks of the 100
microseconds that `resetTimerFd` uses as a minimum; instant 0 is the zero
`time.Time`. `handleRead` is split where user code or the clock may come in
between: `ReadTimerFd`, `getExpired`, `RunTimer` for each timer, `reset`. Which
of several earliest timers is on top, hence not removed by `cancel`, is left
open; `TimerHeap` is proved to be one of the possibilities.

*TimerHeap.* `tasks` is the array, `index` the field of each timer. The loops
`up` and `down` of container/heap and the loop of `getAndRemoveExpired` are
taken one iteration at a time: `pc` says which loop is running, `call` which
method it serves, `at` the position of the element being moved and `from` the
one where `down` began. `now`, `pop` and `ret` are the locals of `getExpired`.
All calls are made on the loop's goroutine, so none begins before the last one
has returned. `ok` is FALSE once the assertion of `getAndRemoveExpired`, that
`heap.Pop` returns the timer seen on top, has failed.

*TcpConn, TcpServer.* A loop is `poll`, `events`, `tasks`, with an extra stop
between `connectDestroyed` and the `close` of the same closure, since another
loop may accept in between. `file` is the kernel's table of descriptors; accept
returns the lowest free number. `io` is the record of Poller; `io.ok` is FALSE
after a panic, and the process then stops. A callback of the user makes at most
one call on its connection: nothing, a `Write`, or `ShutdownWrite`. Data are
counted in units: `WriteSizes` are the lengths of the argument of `Write`, of
which write(2) takes all, some, or none. The rest goes to `outbound.Write`
(`OutboundWrite`), which is `Buffer.Write` reduced to two numbers, `out` units
in a buffer of `capacity`: it grows the buffer only for more than its whole
length (`Grown`), keeps what there is room for, and `Write` drops its count.
`got` is history: the units the kernel was given, each by its place in the
stream of all that `Write` accepted. `handleWrite` is absent because nothing
registers it as a callback, and so outbound is never read. `Start` is two steps:
`listening` is read in the user's goroutine and `listen` queued later
(`StartQueues`), so that two calls may both queue it; `Listen` panics when the
socket is closed.

*Buffer.* `Written` is `Write` as a function on the three fields, so that
`ReadFd` can use it. `Advance` is called with no more than is readable, as its
callers in the repository do; `Reset` with 0.

*EventloopEngine.* `spc` is the place of the caller of `StartLoop`, `rpc` that of
the goroutine of `run`; `Wait` releases the mutex and sleeps in one step, as
`sync.Cond` does. The caller then is the user of TcpClient.

*Connector.* A handler or a task that reads or writes `connect`, `state` or `tt`
more than once is cut between the accesses: `doing` is what is left of it, and
the loop does nothing else until it is `Nothing`. `start` is `start`, `connect0`
and `connecting`; `retry` and `schedule` are the two halves of `retry`, around
the moment where Stop may come. Delays are not measured: a timer in the heap
may expire at any poll. A timer that nothing refers to any more is used again
for the next one, so that `MaxTimers` bounds the timers that are alive and not
the number of retries. `sock` is the kernel's view of a descriptor. An event
with an error calls handleError and then handleWrite (channel.go:105-119); the
second finds the state that `retry` has left, Disconnected, and does nothing, so
the event is the first one's steps only.

*TcpClient.* `user` is the place in the call of the user's goroutine; `Call` is
the first assignment of each of the four methods. `c.mu` protects single steps,
except that Disconnect holds it through `ShutdownWrite` (`Unlocked`). `given`,
`stopped` and `afterStop` are history. A connection is reduced to its state and
its `onClose`: TcpConn has the rest.

*Memcached.* `pc` says which command a session is in the middle of, so that
other sessions reach the store between its keys; every access to the store is
one step under the mutex of its slot. What a client sends is chosen freely:
the command, whether the line is well formed, the length it announces, the
size of each piece, whether the value ends with CRLF, and which key its first
bytes are (the code reads the key of an item from the bytes of the value, while
its slot comes from the command line; the model has both). `ver` and `seen` are
history. `panic` records what has ended the process.

## 3. Runs

| run | bounds | result |
|---|---|---|
| `loop` | 1 goroutine + loop, 2 tasks, 2 channels, eventList of 1 | NoLostWakeup, LoopInv, TaskLogSpec hold; EveryTaskRuns, AsyncStopEndsLoop, ReadyChannelIsServed hold without the poll timeout, StopEndsLoop with it |
| `timer` | 2 timers, instants 0 to 3, 2 pending closures | TimerArmed, OnePlace, TimerInv, NeverEarly, GoneIsGone, EveryTimerRuns, CanceledLeaves hold |
| `timer_heap` | 6 timers, 3 instants, symmetric | HeapInv, IsTimerSet hold |
| `server_fds` | boss + 2 workers, 2 connections, 1 partial write each, ShutdownWrite from anywhere, accept may fail, Start once | ServerInv, NoPanic, RegisteredIsOwn, WriteHasOwnSocket, ConnsAccounted hold |
| `server_data` | no workers, 2 connections, 1 message each, 2 writes of 3 units each, outbound of 1 unit, every outcome of write(2) | SentInOrder, FinInv, FinComesLast hold |
| `server_live` | boss + 1 worker, 2 clients, 1 message each, Start twice, accept does not fail | ClientIsServed, PeerCloseIsServed hold |
| `buffer_queue` | length 2, extra 4, operations up to 4 bytes, 8 bytes in all | BufferInv, IsByteQueue hold |
| `client` | 3 descriptors, 3 timers alive, 3 calls of the user, any outcome of connect(2) | ClientInv, NoAssertFails, OneAttempt, SocketsAccounted, AtMostOneAfterStop, ConnIsAlive, StartLoopReturns, KeepsTrying, Reconnects hold |
| `memcached` | 2 sessions, 3 keys in 2 slots, 2 requests each, values of 0 and 2 bytes and negative lengths, pieces of up to 2 bytes, symmetric | MemcachedInv, NoSessionAssert, CasIdentifies hold |

Why the bounds are enough: two callers (the loop's own goroutine is one) and
two tasks give a push before, during and after the swap, and the proofs cover
the rest; an eventList of 1 doubles at once; two timers give
an earlier arrival, a canceled top and a canceled other, and the instants 0
(zero time), past, now and later; six timers is the first size at which a
removal in the middle moves an element up; two connections reuse one number;
two writes of 3 units over an outbound buffer of 1 are one that is sent in part
and makes the buffer grow or fit, and one that grows it, fits or is lost in part;
a buffer of 2 with an extra buffer of 4 fills, moves, grows and overflows;
three descriptors are a failed attempt, a connection that is never closed and
its successor, three calls are a Connect with a Stop and a second one, or with
a Disconnect and a Destroy; two sessions and two keys of one slot give a store
between the gets and the cas of another session.
Accept fails in one run and Start is called twice in another: both together end
in the panic of `listen` below, after which nothing is promised.
`server_data` allows deadlock because a write that would block panics, after
which the process is gone; `client` because a panic without descriptors ends the
process; `memcached` because the number of requests is bounded.

The user of `client` waits for quiet before another Connect. With `Careless =
TRUE` TLC shows why: a second Connect during an attempt overwrites `c.ch`, the
channel and the socket of the first attempt stay behind (OneAttempt and
SocketsAccounted fail after 21 steps), and a later event finds `c.ch` nil
(NoAssertFails, 32 steps). AtMostOneAfterStop cannot be made 0: Stop between
removeConn's look at `_connect` and Restart, which sets `connect` again, lets
one more connection through, possibly after several attempts: it is connections
that the property counts, and retries go on until one is made.

Three runs show a disagreement between what the repository says and does; the
findings of PROJECT.json quote both sides.

| run | what TLC finds |
|---|---|
| `timer_cancel_in_callback` | a timer canceled in another timer's callback runs in the same round |
| `server_write_complete` | data left by a partial write is never sent |
| `buffer_readfd` | ReadFd loses bytes: a new buffer of 1024 that receives 1025 to 2048 bytes keeps 1024 of them |

More of the kind is in the models and needs no run of its own:

* acceptor.go:59 closes the listening socket on every error of accept, also on
  ECONNABORTED, of which socket.go:40-42 says "try again"; ClientIsServed
  excepts it. A second Start whose `listen` runs after that panics in
  socket.go:57-62. `Listen` has it; `Benign`, the hypothesis of
  `AssertionsHold`, excludes it.
* tcp_conn.go:144 drops the result of `outbound.Write`, which by buffer.go:115
  (see `buffer_readfd`) keeps less than it is given when outbound already holds
  data: with 600 of 1024 bytes buffered, a Write of 500 keeps 424 and the other
  76 are lost. SentInOrder says what is left: no gap before the loss, and no
  loss as long as outbound is not full.
* tcp_conn.go:132: a write that would block returns -1, and `buf[sent:]`
  panics. The outcome "again" of `server_data` has it; NoPanic fails there.
* tcp_client.go:125: nothing closes the socket of a connection of TcpClient.
* session.go:276-278: bytesToDiscard is reset before it is used; the bytes of a
  value that is too large are read as commands. MemcachedInv says so.
* session.go:240-248 and 294, item.go:44 and 63, memcached_server.go:126: lines
  without enough tokens, negative lengths, and append or prepend to a key that
  exists end the process ("tokens", "length" and "append" in Memcached).

### Fairness

Goroutines that are inside a call of the library go on (Go's scheduler), and
epoll_wait returns while a descriptor is ready (level triggered). Strong
fairness is used where a step can be interrupted by calls of the same
goroutine: `LoopStart`, `HandlerReturn` and `TaskReturn` say that user code
eventually calls `Loop()` and that callbacks and tasks return. Nothing is
assumed of who calls what, of peers, or of clients. The 10 s timeout of `poll`
is an assumption of StopEndsLoop only, so that the other liveness results do
not lean on it. A stop that comes after an engine has published its loop and
before `Loop()` stores `quit = 0` is overwritten; AsyncStopEndsLoop and
StopEndsLoop therefore speak of a loop that has been entered. `TimerQueue` assumes strong fairness of `PollTimer` and weak
fairness of `PollOther`: what `EventLoop` shows of a ready channel and of a
pending task. `TcpClient` assumes that the loop and the goroutines inside a call
go on, and strong fairness of `Expires`, the poll at which all timers in the
heap are due: that is EveryTimerRuns of TimerQueue. Nothing is assumed of the
server: KeepsTrying and Reconnects promise another attempt, not a connection.

## 4. Proofs

All are checked by TLAPS for every value of the constants that satisfies the
named assumptions (`LoopAssumption`, `TimerAssumption`, `BufferAssumption`,
`MemcachedAssumption`, `ConnAssumption`, `ServerAssumption`, `ConnectorAssumption`,
`ClientAssumption`, `HeapAssumption`: distinct names, natural numbers, finite sets of channels,
keys that are not empty, a nil that is no descriptor, timer or channel). A
further hypothesis is part of the theorem that needs it. The invariants that
the proofs use (`LoopInv`, `TimerInv`, `MemcachedInv`, `BufferInv`, `ServerInv`,
`FinInv`, `ClientInv`, `HeapInv`) are each checked by a run too.

* `LoopInvariant`, `LoopTypeCorrect`, `WakeupNeverLost`. `NoLostWakeup` is not
  inductive: why the eventfd is readable when the loop is about to block has
  its reason earlier in the round. `LoopInv` adds `PushInv` (who holds the
  mutex and that its list is still the pending one), `ListInv` (which list
  `pt` aliases, that the other one is empty outside the visit), `LogInv`
  (where each task is) and `WakeupInv` (the wakeup at the program points that
  lead to epoll_wait). One lemma per conjunct, one step per action.
* `LoopImplementsTaskLog`. The refinement maps the log to
  `ran \o lists[1 - cur] \o lists[cur]` and the counter to `Len(ran)`. A push
  appends because its list is still the pending one (`PushInv`), the swap
  changes nothing because the other list is empty (`ListInv`), and a task is
  never accepted twice (`LogInv`).
* `TimerInvariant`, `TimerAlwaysArmed`, `NoEarlyCallback`. `TimerArmed` says
  nothing while handleRead is under way; `HandlerInv` says what must hold then
  so that it is true again after `reset`: in particular that a timer with the
  zero time, for which `reset` does not arm the timerfd, has been armed for
  when it was added.
* `TimerInOnePlace`. `OnePlace` is inductive beside the types: it counts the
  closures that add a timer, at most one over both queues, so that running one
  leaves none. The lemmas say what `Append` and `Tail` do to those closures.
* `GoneStaysGone`. A step puts a timer into the heap in three ways: `User` makes
  a timer that was not there, `reset` restarts one that repeats, and `RunAdd`
  runs a pending closure, which the property excludes. `TimerInv` gives the
  type of the batch whose head `RunAdd` runs.
* `HeapInvariant`. That the array is ordered holds between calls and not inside
  them. While an element is moved, `OrderInv` says that every pair of positions
  is in order but those it is part of, that its parent is not behind its
  children, and on which side it may still be wrong: in `up` it is not behind its
  children, and once `down` has moved it, not before its parent. The last is why `Remove` calls `up` only
  when `down` has moved nothing. The order lemmas (`UpKeepsOrder`,
  `DownKeepsOrder`, `OneReplaced`) speak of arrays of keys; `IndexExact`, that
  the field `index` is the position, is what makes `Remove` remove the right
  timer. The proof fails when `Swap` forgets the field.
* `HeapIsTimerSet`. That the root is least (`RootIsLeast`) is an induction over
  positions, by the least counterexample. `PopInv` and `RetInv` then say that
  what `getExpired` has collected is due, in order and without repetition, and
  that it stops only when nothing due is left. The refinement maps the set to
  `Held`: a `cancel` takes effect when it begins, `getExpired` when it returns.
* `CallsEnd`. Every step inside a call decreases a lexicographic measure: timers
  in the array, stage of the call, distance the loop has to go. No loop goes on
  for ever; that a next step is possible is TLC's check for deadlock.
* `BufferInBounds`. `BufferInv` is inductive; the lemmas say that making room,
  copying and writing keep the indexes in order and that a write adds at most
  what it is given, also where `makeSpace` makes too little room.
* `BufferIsByteQueue`. The refinement maps the queue to `Peek`. `makeSpaceData`
  says that growing and moving to the front show the same bytes, `CopyData` and
  `WrittenData` that a write shows the old bytes and then the first of the new
  ones, `StreamJoined` that what ReadFd reads in place and what it writes behind
  are one piece of the stream, `Passed` and `ShrinkQueues` the rest. It says
  nothing of the bytes that are not kept, which section 3 is about.
* `MemcachedInvariant`, `SessionAssertsHold`, `CasIdentifiesVersion`. An
  assertion of processRequest speaks of what the previous request has left, so
  the invariant says for each place of a session what its fields are
  (`SessionOK`), and that an item never gets more bytes than it has room for,
  without which its counters would not keep their types. `CasIdentifies` needs
  that no number in the store or in a client's hands is ahead of the counter
  (`CasInv`): a number that is given out is then new. One lemma per handler;
  `StoreStep` sums up what any of them does to the store.
* `ServerInvariant`, `TypeCorrect`, `AssertionsHold`, `RegistrationsAreOwn`,
  `WritesHaveOwnSocket`, `ConnMapAccounts`. None of the properties is inductive:
  whether an assertion of `connectDestroyed` holds is decided several closures
  earlier, on another loop. `ServerInv` therefore says in which of six phases a
  connection is (not made; made and waiting for `connectEstablished`; up; closed
  by `handleClose`, with `removeConnInLoop` or `connectDestroyed` queued;
  destroyed and about to be closed by the same closure; gone)
  and what that means for its state, its descriptor, its channel, `connMap` and
  the closures pending for it: each pending at most once, and on the right
  loop. `PollerOK` says the same of every number and every poller, `LoopOK` of
  where a loop is. Each action moves one connection from one phase to another;
  frame lemmas take care of all the others. That is `CoreInv`; `ListenOK`, the
  other half of `ServerInv`, is about the listening socket: only a failed accept closes it, and if Start is called once no `listen`
  is then queued or about to be. `AssertionsHold` has the hypothesis `Benign`:
  "again" is not an outcome of write(2), since `Write` panics on it, and not
  both does accept fail and Start come twice, since `listen` then panics
  (section 3). `CoreInv`, which says that no panic has happened then, needs
  `ListenOK` for the second, in the step `Listen`, and is inductive only with it.
* `DataInOrder`, `FinInvariant`, `HalfCloseIsLast`. `SentInOrder` has parts that
  need each other. The peer's data are a prefix of what was written because
  `Write` tries the socket only when outbound is empty; outbound, which has room
  for at least one unit, is then not full, so nothing was lost before
  (received plus buffered is written) and the next unit that is sent is the next
  one of the stream. A write that outbound cannot hold leaves it full, and it is
  full from then on: a later write that makes it grow fills exactly what it adds.
  `FinComesLast` needs `FinInv`: a connection
  with buffered data listens for writing, and the queued half-close stands
  before the closure that destroys the connection. The second fact is true only
  when ShutdownWrite is called in onConn and onMsg (`AnyShutdown = FALSE`, a
  hypothesis of the two theorems): otherwise the half-close may run after the
  destruction, on a number that is another connection's.
* `ClientInvariant`, `ClientTypeCorrect`, `ClientAssertionsHold`,
  `OneAttemptAtATime`, `NoSocketLeaks`, `OneConnAfterStop`, `ConnStaysAlive`.
  `OneAttempt` looks at epoll only; that no second attempt can come is decided
  wherever one may come from. `ClientInv` has one token (`AttemptOK`): the call
  of the user, a queued start, a timer on its way to the heap, in the heap or
  due, a connecting socket, a connection, or the handler the loop is in has the
  attempt, and nothing else does. `NilOK` and the order in `QueueOK` say that
  the queued `c.ch = nil` runs before anything begins the next attempt, `LoopOK`
  that the one event the loop holds is still true when it is handled, `FdOK`,
  `ConnOK` and `SocksOK` that channels, poller, connection and sockets agree with
  the token, and `StopOK` that after Stop the token can be spent once. The
  hypothesis `Careless = FALSE` is the user who waits for quiet before another
  Connect; without it the statements are false (section 3).

Only model-checked: liveness (fairness is out of the prover's reach), that is
every leads-to property of the runs, and the absence of deadlock where a run
checks it (`ENABLED` is out of reach too).

## 5. Not modelled

* The values of `retryDelay`; a failure of getsockopt in `handleWrite`, which a
  socket does not give; the timer of `Destroy` that does nothing.
* Of the memcached example: the texts and the order of replies (`get` writes at
  once, other replies are queued), flags and expiry times, which the code stores
  and never looks at, keys of different lengths, the binary protocol, which is
  never selected. Its main does not register the callbacks; the model calls
  them as TcpServer would.
* `TcpConn.handleWrite`, `Channel.disableWriting`: unreachable.
* Descriptor numbers of eventfds and timerfds after `destroy`; slices that
  alias a Buffer after `Next`; socket options, addresses, logging.
* Nil callbacks: `connectDestroyed` calls onConn without the check that
  `connectEstablished` makes (tcp_conn.go:207); the models have a callback set.
* Two calls that the code accepts and that then have no effect are in the
  models, and no property forbids them: data of `AsyncWrite` is dropped when
  `ShutdownWrite` comes before its closure (tcp_conn.go:156), and a `Disconnect`
  between the publication of the connection and `connectEstablished` finds a
  connection that is not Connected (tcp_client.go:115).
* The callback of `AsyncWrite` (tcp_conn.go:160-162) gets the error of `Write`
  and returns one that is logged. The map `m.sessions` of the memcached example
  and the assertion on it (memcached_server.go:177): names of connections are
  unique, and nothing reads the map.
* `ShutdownWrite` outside onConn and onMsg may do its shutdown(2) on a number
  that is closed or reused. The model has it (`AnyShutdown`), and the
  properties of `server_fds` hold in its presence; `FinComesLast` is checked
  without it.

## 6. Plan

1. Done: EventLoop and its proofs; TimerQueue, its heap and proofs; Poller,
   TcpConn, TcpServer and their proofs; Buffer and its proofs;
   EventloopEngine, Connector and TcpClient and their proofs; Memcached and its
   proofs.
2. Every invariant, action property and refinement of a passing run is a
   theorem. Liveness stays with TLC.
