--------------------------- MODULE TcpClientProofs ---------------------------
(***************************************************************************)
(* Proofs about TcpClient, for every number of descriptors, timers and     *)
(* calls: a client whose user waits for quiet before the next Connect has  *)
(* one attempt at a time, whatever the order of the retry timer, the       *)
(* queued c.ch = nil, Stop, Destroy, Restart and the server's close.       *)
(***************************************************************************)
EXTENDS TcpClient, SequenceTheorems, TLAPS

-----------------------------------------------------------------------------
(* Queues.                                                                  *)

\* What is in a queue after a push.
LEMMA AppendHas ==
  ASSUME NEW A, NEW s \in Seq(A), NEW x \in A, NEW S, NEW T
  PROVE  /\ Has(Append(s, x), S) <=> Has(s, S) \/ x \in S
         /\ Once(s, S) /\ (x \in S => ~Has(s, S)) => Once(Append(s, x), S)
         /\ Before(s, S, T) /\ (x \in S => ~Has(s, T) /\ x \notin T) =>
               Before(Append(s, x), S, T)
<1>1. /\ DOMAIN s = 1..Len(s) /\ Len(s) \in Nat
      /\ DOMAIN Append(s, x) = 1..(Len(s) + 1)
      /\ \A i \in DOMAIN s : Append(s, x)[i] = s[i]
      /\ Append(s, x)[Len(s) + 1] = x
  BY AppendProperties
<1>2. DOMAIN Append(s, x) = DOMAIN s \cup {Len(s) + 1}
  BY <1>1
<1>3. \A i \in DOMAIN s : i < Len(s) + 1
  BY <1>1
<1>4. Has(Append(s, x), S) <=> Has(s, S) \/ x \in S
  BY <1>1, <1>2 DEF Has
<1>5. Once(s, S) /\ (x \in S => ~Has(s, S)) => Once(Append(s, x), S)
  BY <1>1, <1>2 DEF Has, Once
<1>6. Before(s, S, T) /\ (x \in S => ~Has(s, T) /\ x \notin T) => Before(Append(s, x), S, T)
  BY <1>1, <1>2, <1>3 DEF Has, Before
<1> QED BY <1>4, <1>5, <1>6

\* What is in a queue after its first task was taken.
LEMMA TailHas ==
  ASSUME NEW A, NEW s \in Seq(A), s # <<>>, NEW S, NEW T
  PROVE  /\ Head(s) \in S => Has(s, S)
         /\ Head(s) \notin S => (Has(Tail(s), S) <=> Has(s, S))
         /\ Has(Tail(s), S) => Has(s, S)
         /\ Once(s, S) => Once(Tail(s), S)
         /\ Once(s, S) /\ Head(s) \in S => ~Has(Tail(s), S)
         /\ Before(s, S, T) => Before(Tail(s), S, T)
         /\ Before(s, S, T) /\ Head(s) \in T => ~Has(s, S)
<1>1. /\ DOMAIN s = 1..Len(s) /\ Len(s) \in Nat \ {0}
      /\ Head(s) = s[1]
      /\ DOMAIN Tail(s) = 1..(Len(s) - 1)
      /\ \A i \in 1..(Len(s) - 1) : Tail(s)[i] = s[i + 1]
  BY HeadTailProperties
<1>2. 1 \in DOMAIN s /\ \A i \in DOMAIN s : ~(i < 1)
  BY <1>1
<1>3. \A i \in DOMAIN s : i = 1 \/ (i - 1 \in DOMAIN Tail(s) /\ Tail(s)[i - 1] = s[i])
  BY <1>1
<1>4. \A i \in DOMAIN Tail(s) : i + 1 \in DOMAIN s /\ i + 1 # 1 /\ Tail(s)[i] = s[i + 1]
  BY <1>1
<1>5. ASSUME Once(s, S) PROVE Once(Tail(s), S)
  <2> SUFFICES ASSUME NEW i \in DOMAIN Tail(s), NEW j \in DOMAIN Tail(s),
                      Tail(s)[i] \in S, Tail(s)[j] \in S
               PROVE  i = j
    BY DEF Once
  <2>1. i + 1 = j + 1
    BY <1>4, <1>5 DEF Once
  <2> QED BY <1>1, <2>1
<1>6. Once(s, S) /\ Head(s) \in S => ~Has(Tail(s), S)
  BY <1>1, <1>2, <1>4 DEF Once, Has
<1>7. Head(s) \notin S => (Has(Tail(s), S) <=> Has(s, S))
  BY <1>1, <1>3, <1>4 DEF Has
<1>8. Has(Tail(s), S) => Has(s, S)
  BY <1>4 DEF Has
<1>9. ASSUME Before(s, S, T) PROVE Before(Tail(s), S, T)
  <2> SUFFICES ASSUME NEW i \in DOMAIN Tail(s), NEW j \in DOMAIN Tail(s),
                      Tail(s)[i] \in S, Tail(s)[j] \in T
               PROVE  i < j
    BY DEF Before
  <2>1. i + 1 < j + 1
    BY <1>4, <1>9 DEF Before
  <2> QED BY <1>1, <2>1
<1>10. Before(s, S, T) /\ Head(s) \in T => ~Has(s, S)
  BY <1>1, <1>2 DEF Before, Has
<1> QED BY <1>1, <1>2, <1>5, <1>6, <1>7, <1>8, <1>9, <1>10 DEF Has

\* What is in a queue behind a batch.
LEMMA ConcatHas ==
  ASSUME NEW A, NEW b \in Seq(A), NEW q \in Seq(A), NEW S
  PROVE  Has(b \o q, S) <=> Has(b, S) \/ Has(q, S)
<1>1. /\ DOMAIN b = 1..Len(b) /\ DOMAIN q = 1..Len(q) /\ Len(b) \in Nat /\ Len(q) \in Nat
      /\ b \o q \in Seq(A) /\ DOMAIN (b \o q) = 1..(Len(b) + Len(q))
      /\ \A i \in 1..(Len(b) + Len(q)) :
            (b \o q)[i] = IF i <= Len(b) THEN b[i] ELSE q[i - Len(b)]
  OBVIOUS
<1>2. ASSUME Has(b, S) PROVE Has(b \o q, S)
  <2>1. PICK i \in 1..Len(b) : b[i] \in S
    BY <1>1, <1>2 DEF Has
  <2>2. i \in 1..(Len(b) + Len(q)) /\ (b \o q)[i] \in S
    BY <1>1, <2>1
  <2> QED BY <1>1, <2>2 DEF Has
<1>3. ASSUME Has(q, S) PROVE Has(b \o q, S)
  <2>1. PICK i \in 1..Len(q) : q[i] \in S
    BY <1>1, <1>3 DEF Has
  <2>2. Len(b) + i \in 1..(Len(b) + Len(q)) /\ (b \o q)[Len(b) + i] \in S
    BY <1>1, <2>1
  <2> QED BY <1>1, <2>2 DEF Has
<1>4. ASSUME Has(b \o q, S) PROVE Has(b, S) \/ Has(q, S)
  <2>1. PICK i \in 1..(Len(b) + Len(q)) : (b \o q)[i] \in S
    BY <1>1, <1>4 DEF Has
  <2>2. CASE i <= Len(b)
    <3>1. i \in 1..Len(b) /\ b[i] \in S
      BY <1>1, <2>1, <2>2
    <3> QED BY <1>1, <3>1 DEF Has
  <2>3. CASE ~(i <= Len(b))
    <3>1. i - Len(b) \in 1..Len(q) /\ q[i - Len(b)] \in S
      BY <1>1, <2>1, <2>3
    <3> QED BY <1>1, <3>1 DEF Has
  <2> QED BY <2>2, <2>3
<1> QED BY <1>2, <1>3, <1>4

\* Todo, when a task is queued.
LEMMA TodoPushed ==
  ASSUME batch \in Seq(Tasks), queue \in Seq(Tasks), NEW x \in Tasks,
         Push(x), UNCHANGED batch
  PROVE  /\ Todo \in Seq(Tasks) /\ Todo' = Append(Todo, x)
         /\ queue' \in Seq(Tasks) /\ batch' \in Seq(Tasks)
BY DEF Push, Todo

\* Todo, when the first task of the batch is called.
LEMMA TodoTaken ==
  ASSUME batch \in Seq(Tasks), queue \in Seq(Tasks), batch # <<>>,
         batch' = Tail(batch), UNCHANGED queue
  PROVE  /\ Todo \in Seq(Tasks) /\ Todo # <<>> /\ Head(Todo) = Head(batch)
         /\ Head(batch) \in Tasks /\ Todo' = Tail(Todo)
         /\ queue' \in Seq(Tasks) /\ batch' \in Seq(Tasks)
<1>1. \A b, q \in Seq(Tasks) : b # <<>> =>
        /\ b \o q \in Seq(Tasks) /\ b \o q # <<>> /\ Head(b \o q) = Head(b)
        /\ Head(b) \in Tasks /\ Tail(b \o q) = Tail(b) \o q /\ Tail(b) \in Seq(Tasks)
  BY HeadTailProperties, ConcatProperties
<1> QED BY <1>1 DEF Todo

-----------------------------------------------------------------------------
(* The poller.                                                              *)

\* The channel is in channelMap under its number, and epoll watches it when
\* its index says so.
Registered(i, l, f, ch) ==
    /\ i.map[l][f] = ch
    /\ i.chan[ch].index \in {"add", "del"}
    /\ i.reg[l][f] # NoReg <=> i.chan[ch].index = "add"

\* Nothing is registered under the number, and the channel is new.
Unregistered(i, l, f, ch) ==
    i.map[l][f] = None /\ i.chan[ch].index = "new" /\ i.reg[l][f] = NoReg

\* The record of the pollers, from its fields.
IoRec(m, r, h, k) == [map |-> m, reg |-> r, chan |-> h, ok |-> k]

\* Channel.events is assigned.
LEMMA EventsSet ==
  ASSUME NEW i \in IoType, NEW ch, NEW ev
  PROVE  [i EXCEPT !.chan[ch].events = ev] =
           IoRec(i.map, i.reg, [i.chan EXCEPT ![ch].events = ev], i.ok)
<1>1. i = IoRec(i.map, i.reg, i.chan, i.ok)
  BY DEF IoType, IoRec
<1>2. [i EXCEPT !.chan[ch].events = ev] = [i EXCEPT !.chan = [i.chan EXCEPT ![ch].events = ev]]
  BY DEF IoType
<1>3. DOMAIN i = {"map", "reg", "chan", "ok"}
  BY DEF IoType
<1> QED BY <1>1, <1>2, <1>3 DEF IoRec

\* The fields of a channel, one after the other.
LEMMA ChanSet ==
  ASSUME NEW C, NEW h \in [C -> [events : SUBSET {EventRead, EventWrite}, index : {"new","add","del"}]],
         NEW ch \in C, NEW ev, NEW x, NEW y
  PROVE  /\ [h EXCEPT ![ch].events = ev] = [h EXCEPT ![ch] = [events |-> ev, index |-> h[ch].index]]
         /\ [[h EXCEPT ![ch] = [events |-> ev, index |-> x]] EXCEPT ![ch].index = y] = [h EXCEPT ![ch] = [events |-> ev, index |-> y]]
         /\ [h EXCEPT ![ch] = [events |-> ev, index |-> x]][ch] = [events |-> ev, index |-> x]
<1>1. [h[ch] EXCEPT !.events = ev] = [events |-> ev, index |-> h[ch].index]
  <2>1. h[ch] \in [events : SUBSET {EventRead, EventWrite}, index : {"new","add","del"}]
    OBVIOUS
  <2> QED BY <2>1
<1>2. [[events |-> ev, index |-> x] EXCEPT !.index = y] = [events |-> ev, index |-> y]
  OBVIOUS
<1>3. [h EXCEPT ![ch] = [events |-> ev, index |-> x]][ch] = [events |-> ev, index |-> x]
  OBVIOUS
<1>4. [h EXCEPT ![ch].events = ev] = [h EXCEPT ![ch] = [events |-> ev, index |-> h[ch].index]]
  BY <1>1
<1>5. [[h EXCEPT ![ch] = [events |-> ev, index |-> x]] EXCEPT ![ch].index = y] = [h EXCEPT ![ch] = [events |-> ev, index |-> y]]
  <2> DEFINE g == [h EXCEPT ![ch] = [events |-> ev, index |-> x]]
  <2>1. DOMAIN g = C /\ g[ch] = [events |-> ev, index |-> x] /\ \A d \in C \ {ch} : g[d] = h[d]
     OBVIOUS
  <2> HIDE DEF g
  <2>2. [g EXCEPT ![ch].index = y] = [d \in C |-> IF d = ch THEN [events |-> ev, index |-> y] ELSE h[d]]
     BY <2>1, <1>2
  <2> QED BY <2>2 DEF g
<1> QED BY <1>3, <1>4, <1>5

\* Channel.update with some events: the channel is watched for them.
LEMMA SetEvents ==
  ASSUME NEW i \in IoType, NEW l \in {L}, NEW f \in Fds, NEW ch \in Channels,
         NEW ev \in SUBSET {EventRead, EventWrite}, ev # {},
         Registered(i, l, f, ch) \/ Unregistered(i, l, f, ch)
  PROVE  setEvents(i, l, f, ch, ev) =
           IoRec([i.map EXCEPT ![l][f] = ch],
                 [i.reg EXCEPT ![l][f] = [ch |-> ch, events |-> ev]],
                 [i.chan EXCEPT ![ch] = [events |-> ev, index |-> "add"]],
                 i.ok)
<1> DEFINE h1 == [i.chan EXCEPT ![ch].events = ev]
           h2 == [i.chan EXCEPT ![ch] = [events |-> ev, index |-> "add"]]
           m2 == [i.map EXCEPT ![l][f] = ch]
           r2 == [i.reg EXCEPT ![l][f] = [ch |-> ch, events |-> ev]]
<1>1. setEvents(i, l, f, ch, ev) = updateChannel(IoRec(i.map, i.reg, h1, i.ok), l, f, ch)
  BY EventsSet DEF setEvents
<1>2. /\ h1 = [i.chan EXCEPT ![ch] = [events |-> ev, index |-> i.chan[ch].index]]
      /\ h1[ch] = [events |-> ev, index |-> i.chan[ch].index]
      /\ [h1 EXCEPT ![ch].index = "add"] = h2 /\ h2[ch].events = ev
      /\ i.chan[ch].index = "add" => h1 = h2
  <2>1. i.chan \in [Channels -> [events : SUBSET {EventRead, EventWrite},
                                 index : {"new", "add", "del"}]]
    BY DEF IoType
  <2>2. h1 = [i.chan EXCEPT ![ch] = [events |-> ev, index |-> i.chan[ch].index]]
    BY <2>1, ChanSet
  <2> HIDE DEF h1
  <2>3. h1[ch] = [events |-> ev, index |-> i.chan[ch].index]
    BY <2>1, <2>2
  <2>4. [h1 EXCEPT ![ch].index = "add"] = h2
    BY <2>1, <2>2, ChanSet
  <2>5. h2[ch].events = ev
    BY <2>1
  <2> QED BY <2>2, <2>3, <2>4, <2>5
<1>3. Registered(i, l, f, ch) => m2 = i.map
  BY DEF IoType, Registered
<1>0. SUFFICES updateChannel(IoRec(i.map, i.reg, h1, i.ok), l, f, ch) = IoRec(m2, r2, h2, i.ok)
  BY <1>1
<1> HIDE DEF h1, h2, m2
<1>4. CASE Unregistered(i, l, f, ch)
  <2>1. updateChannel(IoRec(i.map, i.reg, h1, i.ok), l, f, ch) =
        update(IoRec(m2, i.reg, h2, i.ok), "ADD", l, f, ch)
    BY <1>2, <1>4 DEF updateChannel, IoType, IoRec, Unregistered, Assert
  <2>2. update(IoRec(m2, i.reg, h2, i.ok), "ADD", l, f, ch) = IoRec(m2, r2, h2, i.ok)
    BY <1>2, <1>4 DEF update, IoRec, Unregistered
  <2> QED BY <1>1, <2>1, <2>2
<1>5. CASE Registered(i, l, f, ch) /\ i.chan[ch].index = "del"
  <2>1. updateChannel(IoRec(i.map, i.reg, h1, i.ok), l, f, ch) =
        update(IoRec(m2, i.reg, h2, i.ok), "ADD", l, f, ch)
    BY <1>2, <1>3, <1>5 DEF updateChannel, IoType, IoRec, Registered, Assert
  <2>2. update(IoRec(m2, i.reg, h2, i.ok), "ADD", l, f, ch) = IoRec(m2, r2, h2, i.ok)
    BY <1>2, <1>5 DEF update, IoRec, Registered
  <2> QED BY <1>1, <2>1, <2>2
<1>6. CASE Registered(i, l, f, ch) /\ i.chan[ch].index = "add"
  <2>1. updateChannel(IoRec(i.map, i.reg, h1, i.ok), l, f, ch) =
        update(IoRec(m2, i.reg, h2, i.ok), "MOD", l, f, ch)
    <3>1. h1[ch].index = "add" /\ h1[ch].events # {} /\ h1 = h2 /\ m2 = i.map
      BY <1>2, <1>3, <1>6
    <3> QED BY <3>1, <1>6 DEF updateChannel, IoType, IoRec, Registered, Assert
  <2>2. update(IoRec(m2, i.reg, h2, i.ok), "MOD", l, f, ch) = IoRec(m2, r2, h2, i.ok)
    BY <1>2, <1>6 DEF update, IoRec, Registered
  <2> QED BY <1>1, <2>1, <2>2
<1> QED BY <1>4, <1>5, <1>6 DEF Registered

\* disableAll on a channel that is watched: epoll forgets it, channelMap not.
LEMMA DisableAll ==
  ASSUME NEW i \in IoType, NEW l \in {L}, NEW f \in Fds, NEW ch \in Channels,
         Registered(i, l, f, ch), i.chan[ch].index = "add"
  PROVE  disableAll(i, l, f, ch) =
           IoRec(i.map,
                 [i.reg EXCEPT ![l][f] = NoReg],
                 [i.chan EXCEPT ![ch] = [events |-> {}, index |-> "del"]],
                 i.ok)
<1> DEFINE h1 == [i.chan EXCEPT ![ch].events = {}]
           h2 == [i.chan EXCEPT ![ch] = [events |-> {}, index |-> "del"]]
<1>1. disableAll(i, l, f, ch) = updateChannel(IoRec(i.map, i.reg, h1, i.ok), l, f, ch)
  BY EventsSet DEF disableAll, setEvents
<1>2. h1[ch] = [events |-> {}, index |-> "add"] /\ [h1 EXCEPT ![ch].index = "del"] = h2
  BY DEF IoType
<1>3. updateChannel(IoRec(i.map, i.reg, h1, i.ok), l, f, ch) =
      [update(IoRec(i.map, i.reg, h1, i.ok), "DEL", l, f, ch) EXCEPT !.chan[ch].index = "del"]
  BY <1>2 DEF updateChannel, IoType, IoRec, Registered, Assert
<1>4. update(IoRec(i.map, i.reg, h1, i.ok), "DEL", l, f, ch) =
      IoRec(i.map, [i.reg EXCEPT ![l][f] = NoReg], h1, i.ok)
  BY DEF update, IoRec, Registered
<1> QED BY <1>1, <1>2, <1>3, <1>4 DEF IoRec

\* disableAll and removeChannel, as connectDestroyed calls them: no trace of the
\* channel is left, whether it was watched or not.
LEMMA RemoveChannel ==
  ASSUME NEW i \in IoType, NEW l \in {L}, NEW f \in Fds, NEW ch \in Channels,
         Registered(i, l, f, ch)
  PROVE  removeChannel(disableAll(i, l, f, ch), l, f, ch) =
           IoRec([i.map EXCEPT ![l][f] = None],
                 [i.reg EXCEPT ![l][f] = NoReg],
                 [i.chan EXCEPT ![ch] = [events |-> {}, index |-> "new"]],
                 i.ok)
<1> DEFINE h1 == [i.chan EXCEPT ![ch].events = {}]
           h2 == [i.chan EXCEPT ![ch] = [events |-> {}, index |-> "new"]]
           h3 == [i.chan EXCEPT ![ch] = [events |-> {}, index |-> "add"]]
           h4 == [i.chan EXCEPT ![ch] = [events |-> {}, index |-> "del"]]
           m2 == [i.map EXCEPT ![l][f] = None]
           r2 == [i.reg EXCEPT ![l][f] = NoReg]
           r3 == [i.reg EXCEPT ![l][f] = [ch |-> ch, events |-> {}]]
<1>0. /\ h3[ch] = [events |-> {}, index |-> "add"] /\ [h3 EXCEPT ![ch].index = "new"] = h2
      /\ h4[ch] = [events |-> {}, index |-> "del"] /\ [h4 EXCEPT ![ch].index = "new"] = h2
      /\ h1[ch] = [events |-> {}, index |-> i.chan[ch].index]
      /\ [h1 EXCEPT ![ch].index = "add"] = h3
  BY DEF IoType
<1>1. CASE i.chan[ch].index = "add"
  <2>1. disableAll(i, l, f, ch) = IoRec(i.map, r2, h4, i.ok)
    BY <1>1, DisableAll
  <2> QED BY <1>0, <2>1 DEF removeChannel, IoRec, Assert, Registered, IoType
<1>2. CASE i.chan[ch].index = "del"
  <2>1. disableAll(i, l, f, ch) = updateChannel(IoRec(i.map, i.reg, h1, i.ok), l, f, ch)
    BY EventsSet DEF disableAll, setEvents
  <2>2. updateChannel(IoRec(i.map, i.reg, h1, i.ok), l, f, ch) =
        update(IoRec(i.map, i.reg, h3, i.ok), "ADD", l, f, ch)
    BY <1>0, <1>2 DEF updateChannel, IoType, IoRec, Registered, Assert
  <2>3. update(IoRec(i.map, i.reg, h3, i.ok), "ADD", l, f, ch) = IoRec(i.map, r3, h3, i.ok)
    BY <1>0, <1>2 DEF update, IoRec, Registered
  <2>4. r3[l][f] # NoReg /\ [r3 EXCEPT ![l][f] = NoReg] = r2
    BY ConnectorAssumption DEF NoReg, IoType, Channels, Fds
  <2>5. update(IoRec(m2, r3, h3, i.ok), "DEL", l, f, ch) = IoRec(m2, r2, h3, i.ok)
    BY <2>4 DEF update, IoRec
  <2>6. removeChannel(IoRec(i.map, r3, h3, i.ok), l, f, ch) =
        [update(IoRec(m2, r3, h3, i.ok), "DEL", l, f, ch) EXCEPT !.chan[ch].index = "new"]
    BY <1>0 DEF removeChannel, IoRec, Assert, Registered, IoType
  <2> QED BY <1>0, <2>1, <2>2, <2>3, <2>5, <2>6 DEF IoRec
<1> QED BY <1>1, <1>2 DEF Registered

-----------------------------------------------------------------------------
(* Tasks, and what the steps do to the queued ones.                         *)

\* A task is known by its operation and its argument.
LEMMA Kinds ==
  ASSUME NEW x \in Tasks
  PROVE  /\ x \in Starts <=> x.op = "start"
         /\ x \in Adds <=> x.op = "addTask"
         /\ x \in Nils <=> x.op = "chNil"
         /\ \A f : x \in Destroys(f) <=> x.op = "connectDestroyed" /\ x.arg = f
         /\ x.op = "nothing" <=> x = Nothing
         /\ x.op = "panic" <=> x = Panic
         /\ x = Task(x.op, x.arg)
         /\ x.op \in {"retry", "newConn", "establish", "connectDestroyed",
                      "shutdownWrite", "setOnClose"} => x.arg \in Fds
         /\ x.op \in {"addTask", "cancel"} => x.arg \in Timers
BY DEF Tasks, Task, Starts, Adds, Nils, Destroys, Nothing, Panic

\* The tasks that are used.
LEMMA TaskTypes ==
  /\ \A op \in {"nothing", "panic", "start", "schedule", "restart", "chNil"} :
        Task(op, 0) \in Tasks /\ Task(op, 0).op = op
  /\ \A op \in {"retry", "newConn", "establish", "connectDestroyed",
                "shutdownWrite", "setOnClose"}, f \in Fds :
        Task(op, f) \in Tasks /\ Task(op, f).op = op /\ Task(op, f).arg = f
  /\ \A op \in {"addTask", "cancel"}, t \in Timers :
        Task(op, t) \in Tasks /\ Task(op, t).op = op /\ Task(op, t).arg = t
  /\ Nothing \in Tasks /\ Nothing.op = "nothing"
  /\ Panic \in Tasks /\ Panic.op = "panic"
<1>1. ASSUME NEW op \in {"nothing", "panic", "start", "schedule", "restart", "chNil"}
      PROVE  Task(op, 0) \in Tasks /\ Task(op, 0).op = op
  BY DEF Tasks, Task
<1>2. ASSUME NEW op \in {"retry", "newConn", "establish", "connectDestroyed",
                         "shutdownWrite", "setOnClose"}, NEW f \in Fds
      PROVE  Task(op, f) \in Tasks /\ Task(op, f).op = op /\ Task(op, f).arg = f
  BY DEF Tasks, Task
<1>3. ASSUME NEW op \in {"addTask", "cancel"}, NEW t \in Timers
      PROVE  Task(op, t) \in Tasks /\ Task(op, t).op = op /\ Task(op, t).arg = t
  BY DEF Tasks, Task
<1> QED BY <1>1, <1>2, <1>3 DEF Nothing, Panic

\* The variables of the queues.
QueueType == batch \in Seq(Tasks) /\ queue \in Seq(Tasks)

\* No task that matters is queued or called.
KeysKept ==
    /\ Queued(Starts)' <=> Queued(Starts)
    /\ Queued(Adds)' <=> Queued(Adds)
    /\ Queued(Nils)' <=> Queued(Nils)
    /\ \A f \in Fds : Queued(Destroys(f))' <=> Queued(Destroys(f))

KeyOps == {"start", "addTask", "chNil", "connectDestroyed"}

\* A task is queued: what is queued then.
LEMMA Pushed ==
  ASSUME QueueType, NEW x \in Tasks, Push(x), UNCHANGED batch
  PROVE  /\ QueueType'
         /\ Queued(Starts)' <=> Queued(Starts) \/ x.op = "start"
         /\ Queued(Adds)' <=> Queued(Adds) \/ x.op = "addTask"
         /\ Queued(Nils)' <=> Queued(Nils) \/ x.op = "chNil"
         /\ \A f \in Fds : Queued(Destroys(f))' <=>
                Queued(Destroys(f)) \/ (x.op = "connectDestroyed" /\ x.arg = f)
         /\ Has(queue, Nils)' <=> Has(queue, Nils) \/ x.op = "chNil"
<1>1. Todo \in Seq(Tasks) /\ Todo' = Append(Todo, x) /\ QueueType'
  BY TodoPushed DEF QueueType
<1>2. ASSUME NEW S PROVE Queued(S)' <=> Queued(S) \/ x \in S
  BY <1>1, AppendHas DEF Queued
<1>3. Has(queue', Nils) <=> Has(queue, Nils) \/ x \in Nils
  BY AppendHas DEF QueueType, Push
<1> QED BY <1>1, <1>2, <1>3, Kinds

\* A task is queued: the order and the counts.
LEMMA PushedOK ==
  ASSUME QueueType, QueueOK, NEW x \in Tasks, Push(x), UNCHANGED batch,
         x.op = "start" => ~Queued(Starts),
         x.op \in {"addTask", "chNil"} => ~Queued(Adds),
         \A f \in Fds : x.op = "connectDestroyed" /\ x.arg = f => ~Queued(Destroys(f))
  PROVE  QueueOK'
<1>1. Todo \in Seq(Tasks) /\ Todo' = Append(Todo, x)
  BY TodoPushed DEF QueueType
<1>2. /\ x \in Starts => ~Has(Todo, Starts)
      /\ x \in Adds => ~Has(Todo, Adds)
      /\ x \in Nils => ~Has(Todo, Adds) /\ x \notin Adds
      /\ \A f \in Fds : x \in Destroys(f) => ~Has(Todo, Destroys(f))
  BY Kinds DEF Queued
<1>3. Once(Append(Todo, x), Starts) /\ Once(Append(Todo, x), Adds)
  BY <1>1, <1>2, AppendHas DEF QueueOK
<1>4. ASSUME NEW f \in Fds PROVE Once(Append(Todo, x), Destroys(f))
  <2>1. Once(Todo, Destroys(f)) /\ (x \in Destroys(f) => ~Has(Todo, Destroys(f)))
    BY <1>2 DEF QueueOK
  <2> QED BY <1>1, <2>1, AppendHas
<1>5. Before(Append(Todo, x), Nils, Adds)
  BY <1>1, <1>2, AppendHas DEF QueueOK
<1> QED BY <1>1, <1>3, <1>4, <1>5 DEF QueueOK

\* A task is called: what is queued then.
LEMMA TaskTaken ==
  ASSUME QueueType, QueueOK, NEW op, Runs(op), UNCHANGED queue
  PROVE  /\ QueueType' /\ QueueOK' /\ Head(batch) \in Tasks /\ Head(batch).op = op
         /\ batch # <<>> /\ lpc = "tasks" /\ doing.op = "nothing"
         /\ Queued(Starts)' <=> Queued(Starts) /\ op # "start"
         /\ Queued(Adds)' <=> Queued(Adds) /\ op # "addTask"
         /\ Queued(Nils)' => Queued(Nils)
         /\ op # "chNil" => (Queued(Nils)' <=> Queued(Nils))
         /\ op = "addTask" => ~Queued(Nils)'
         /\ \A f \in Fds : Queued(Destroys(f))' <=>
                Queued(Destroys(f)) /\ ~(op = "connectDestroyed" /\ Head(batch).arg = f)
         /\ op = "start" => Queued(Starts)
         /\ op = "addTask" => Queued(Adds)
         /\ op = "chNil" => Queued(Nils)
         /\ \A f \in Fds : op = "connectDestroyed" /\ Head(batch).arg = f => Queued(Destroys(f))
<1> DEFINE x == Head(batch)
<1>1. batch # <<>> /\ batch' = Tail(batch) /\ x.op = op /\ lpc = "tasks" /\ doing.op = "nothing"
  BY DEF Runs, Entered
<1>2. /\ Todo \in Seq(Tasks) /\ Todo # <<>> /\ Head(Todo) = x
      /\ x \in Tasks /\ Todo' = Tail(Todo) /\ QueueType'
  BY <1>1, TodoTaken DEF QueueType
<1> HIDE DEF x
<1>3. ASSUME NEW S
      PROVE  /\ x \in S => Queued(S)
             /\ x \notin S => (Queued(S)' <=> Queued(S))
             /\ Queued(S)' => Queued(S)
             /\ Once(Todo, S) => Once(Todo, S)'
             /\ Once(Todo, S) /\ x \in S => ~Queued(S)'
  BY <1>2, TailHas DEF Queued
<1>4. Before(Todo, Nils, Adds)' /\ (x \in Adds => ~Queued(Nils))
  BY <1>2, TailHas DEF Queued, QueueOK
<1>5. QueueOK'
  BY <1>3, <1>4 DEF QueueOK
<1>6. \A f \in Fds : Once(Todo, Destroys(f)) /\ Once(Todo, Starts) /\ Once(Todo, Adds)
  BY DEF QueueOK
<1>7. Once(Todo, Starts) /\ Once(Todo, Adds)
  BY DEF QueueOK
<1>8. /\ x \in Starts <=> op = "start"
      /\ x \in Adds <=> op = "addTask"
      /\ x \in Nils <=> op = "chNil"
      /\ \A f : x \in Destroys(f) <=> op = "connectDestroyed" /\ x.arg = f
  BY <1>1, <1>2, Kinds
<1>9. ASSUME NEW f \in Fds
      PROVE  /\ Queued(Destroys(f))' <=>
                   Queued(Destroys(f)) /\ ~(op = "connectDestroyed" /\ x.arg = f)
             /\ op = "connectDestroyed" /\ x.arg = f => Queued(Destroys(f))
  <2>1. x \in Destroys(f) <=> op = "connectDestroyed" /\ x.arg = f
    BY <1>8
  <2> QED BY <1>3, <1>6, <2>1
<1>10. /\ Queued(Starts)' <=> Queued(Starts) /\ op # "start"
       /\ op = "start" => Queued(Starts)
  BY <1>3, <1>7, <1>8
<1>11. /\ Queued(Adds)' <=> Queued(Adds) /\ op # "addTask"
       /\ op = "addTask" => Queued(Adds) /\ ~Queued(Nils)'
  BY <1>3, <1>4, <1>7, <1>8
<1>12. /\ Queued(Nils)' => Queued(Nils)
       /\ op # "chNil" => (Queued(Nils)' <=> Queued(Nils))
       /\ op = "chNil" => Queued(Nils)
  BY <1>3, <1>8
<1> QED BY <1>1, <1>2, <1>5, <1>9, <1>10, <1>11, <1>12 DEF x

\* The queues stay as they are.
LEMMA TasksSame ==
  ASSUME UNCHANGED <<queue, batch>>
  PROVE  KeysKept /\ (QueueOK => QueueOK') /\ Has(queue, Nils)' = Has(queue, Nils)
BY DEF KeysKept, QueueOK, Queued, Todo

-----------------------------------------------------------------------------
(* What the operations on a channel do to the poller.                       *)

\* Names, as the prover needs them.
LEMMA Names ==
  /\ L \in {L} /\ None \notin Channels
  /\ \A f \in Fds :
        /\ <<"connector", f>> \in Channels /\ <<"conn", f>> \in Channels
        /\ <<"connector", f>> # <<"conn", f>>
  /\ \A f, g : <<"connector", f>> # <<"conn", g>>
  /\ \A f, g : <<"connector", f>> = <<"connector", g>> => f = g
  /\ \A f, g : <<"conn", f>> = <<"conn", g>> => f = g
  /\ \A ev : \A x \in Channels : [ch |-> x, events |-> ev] # NoReg
BY ConnectorAssumption DEF Channels, Fds, NoReg

\* One channel of descriptor f and its entries have changed.
Effect(i, j, f, ch, m, r, h) ==
    /\ j \in IoType /\ j.ok = i.ok
    /\ j.map[L][f] = m /\ j.reg[L][f] = r /\ j.chan[ch] = h
    /\ \A g \in Fds \ {f} : j.map[L][g] = i.map[L][g] /\ j.reg[L][g] = i.reg[L][g]
    /\ \A d \in Channels \ {ch} : j.chan[d] = i.chan[d]

IoSet(i, j, f, ch, m, r, h) ==
    j = IoRec([i.map EXCEPT ![L][f] = m], [i.reg EXCEPT ![L][f] = r],
              [i.chan EXCEPT ![ch] = h], i.ok)

\* The fields of the record that were written.
LEMMA EffectOf ==
  ASSUME NEW i \in IoType, NEW j, NEW f \in Fds, NEW ch \in Channels,
         NEW m \in Channels \cup {None},
         NEW r \in [ch : Channels \cup {None}, events : SUBSET {EventRead, EventWrite}],
         NEW h \in [events : SUBSET {EventRead, EventWrite}, index : {"new", "add", "del"}],
         IoSet(i, j, f, ch, m, r, h)
  PROVE  Effect(i, j, f, ch, m, r, h)
<1>1. /\ j.map = [i.map EXCEPT ![L][f] = m]
      /\ j.reg = [i.reg EXCEPT ![L][f] = r]
      /\ j.chan = [i.chan EXCEPT ![ch] = h]
      /\ j.ok = i.ok
      /\ j = [map |-> j.map, reg |-> j.reg, chan |-> j.chan, ok |-> j.ok]
  BY DEF IoRec, IoSet
<1>2. /\ j.map \in [{L} -> [Fds -> Channels \cup {None}]]
      /\ j.map[L][f] = m /\ \A g \in Fds \ {f} : j.map[L][g] = i.map[L][g]
  BY <1>1 DEF IoType
<1>3. /\ j.reg \in [{L} -> [Fds -> [ch : Channels \cup {None},
                                    events : SUBSET {EventRead, EventWrite}]]]
      /\ j.reg[L][f] = r /\ \A g \in Fds \ {f} : j.reg[L][g] = i.reg[L][g]
  BY <1>1 DEF IoType
<1>4. /\ j.chan \in [Channels -> [events : SUBSET {EventRead, EventWrite},
                                  index : {"new", "add", "del"}]]
      /\ j.chan[ch] = h /\ \A d \in Channels \ {ch} : j.chan[d] = i.chan[d]
  BY <1>1 DEF IoType
<1>5. j.ok \in BOOLEAN
  BY <1>1 DEF IoType
<1>6. j \in IoType
  BY <1>1, <1>2, <1>3, <1>4, <1>5 DEF IoType
<1> QED BY <1>1, <1>2, <1>3, <1>4, <1>6 DEF Effect

\* enableWriting or enableReading of a channel nobody has registered.
LEMMA Watched ==
  ASSUME NEW i \in IoType, NEW f \in Fds, NEW ch \in Channels,
         i.map[L][f] = None, i.reg[L][f] = NoReg,
         i.chan[ch] = [events |-> {}, index |-> "new"],
         NEW ev \in {{EventRead}, {EventWrite}}, NEW j, j = setEvents(i, L, f, ch, ev)
  PROVE  Effect(i, j, f, ch, ch, [ch |-> ch, events |-> ev], [events |-> ev, index |-> "add"])
<1>1. Unregistered(i, L, f, ch) /\ L \in {L}
  BY DEF Unregistered
<1>2. ev \in SUBSET {EventRead, EventWrite} /\ ev # {}
  OBVIOUS
<1> DEFINE r == [ch |-> ch, events |-> ev]
           h == [events |-> ev, index |-> "add"]
<1>3. j = IoRec([i.map EXCEPT ![L][f] = ch], [i.reg EXCEPT ![L][f] = r],
                [i.chan EXCEPT ![ch] = h], i.ok)
  BY <1>1, <1>2, SetEvents
<1>4. /\ ch \in Channels \cup {None}
      /\ r \in [ch : Channels \cup {None}, events : SUBSET {EventRead, EventWrite}]
      /\ h \in [events : SUBSET {EventRead, EventWrite}, index : {"new", "add", "del"}]
  BY <1>2
<1> HIDE DEF r, h
<1>5. Effect(i, j, f, ch, ch, r, h)
  BY <1>3, <1>4, EffectOf DEF IoSet
<1> QED BY <1>5 DEF r, h

\* disableAll of a channel that is watched.
LEMMA Unwatched ==
  ASSUME NEW i \in IoType, NEW f \in Fds, NEW ch \in Channels,
         i.map[L][f] = ch, i.reg[L][f] # NoReg, i.chan[ch].index = "add",
         NEW j, j = disableAll(i, L, f, ch)
  PROVE  Effect(i, j, f, ch, ch, NoReg, [events |-> {}, index |-> "del"])
<1>1. Registered(i, L, f, ch) /\ L \in {L}
  BY DEF Registered
<1> DEFINE h == [events |-> {}, index |-> "del"]
<1>2. j = IoRec(i.map, [i.reg EXCEPT ![L][f] = NoReg], [i.chan EXCEPT ![ch] = h], i.ok)
  BY <1>1, DisableAll
<1>3. [i.map EXCEPT ![L][f] = ch] = i.map
  BY DEF IoType
<1>4. /\ ch \in Channels \cup {None}
      /\ NoReg \in [ch : Channels \cup {None}, events : SUBSET {EventRead, EventWrite}]
      /\ h \in [events : SUBSET {EventRead, EventWrite}, index : {"new", "add", "del"}]
  BY DEF NoReg
<1> HIDE DEF h
<1>5. Effect(i, j, f, ch, ch, NoReg, h)
  BY <1>2, <1>3, <1>4, EffectOf DEF IoSet
<1> QED BY <1>5 DEF h

\* disableAll and removeChannel.
LEMMA Forgotten ==
  ASSUME NEW i \in IoType, NEW f \in Fds, NEW ch \in Channels,
         i.map[L][f] = ch, i.chan[ch].index \in {"add", "del"},
         i.reg[L][f] # NoReg <=> i.chan[ch].index = "add",
         NEW j, j = removeChannel(disableAll(i, L, f, ch), L, f, ch)
  PROVE  Effect(i, j, f, ch, None, NoReg, [events |-> {}, index |-> "new"])
<1>1. Registered(i, L, f, ch) /\ L \in {L}
  BY DEF Registered
<1> DEFINE h == [events |-> {}, index |-> "new"]
<1>2. j = IoRec([i.map EXCEPT ![L][f] = None], [i.reg EXCEPT ![L][f] = NoReg],
                [i.chan EXCEPT ![ch] = h], i.ok)
  BY <1>1, RemoveChannel
<1>4. /\ None \in Channels \cup {None}
      /\ NoReg \in [ch : Channels \cup {None}, events : SUBSET {EventRead, EventWrite}]
      /\ h \in [events : SUBSET {EventRead, EventWrite}, index : {"new", "add", "del"}]
  BY DEF NoReg
<1> HIDE DEF h
<1>5. Effect(i, j, f, ch, None, NoReg, h)
  BY <1>2, <1>4, EffectOf DEF IoSet
<1> QED BY <1>5 DEF h

\* close(2) of a descriptor that is not watched.
LEMMA ClosedSame ==
  ASSUME NEW i \in IoType, NEW f \in Fds, i.reg[L][f] = NoReg
  PROVE  closed(i, f) = i
<1>1. [l \in {L} |-> [i.reg[l] EXCEPT ![f] = NoReg]] = i.reg
  <2>1. i.reg \in [{L} -> [Fds -> [ch : Channels \cup {None},
                                  events : SUBSET {EventRead, EventWrite}]]]
    BY DEF IoType
  <2>2. ASSUME NEW l \in {L} PROVE [i.reg[l] EXCEPT ![f] = NoReg] = i.reg[l]
    BY <2>1
  <2> QED BY <2>1, <2>2
<1>2. closed(i, f) = [i EXCEPT !.reg = i.reg]
  BY <1>1 DEF closed
<1> QED BY <1>2 DEF IoType

-----------------------------------------------------------------------------
(* What a step leaves alone.                                                *)

\* The parts of the invariant.
LEMMA Parts ==
  ASSUME ClientInv
  PROVE  /\ TypeOK /\ LoopOK /\ QueueOK /\ AttemptOK /\ NilOK /\ SocksOK /\ StopOK
         /\ \A f \in Fds : FdOK(f) /\ ConnOK(f)
         /\ io.ok /\ QueueType /\ doing \in Tasks /\ io \in IoType
BY DEF ClientInv, TypeOK, ConnectorTypeOK, QueueType

\* The channels of a descriptor.
SameFd(f) ==
    /\ io'.chan[<<"connector", f>>] = io.chan[<<"connector", f>>]
    /\ io'.chan[<<"conn", f>>] = io.chan[<<"conn", f>>]
    /\ io'.map[L][f] = io.map[L][f] /\ io'.reg[L][f] = io.reg[L][f]
    /\ Trying(f)' <=> Trying(f)

\* A descriptor whose channels a step leaves alone.
LEMMA FdFrame ==
  ASSUME NEW f \in Fds, FdOK(f), SameFd(f)
  PROVE  FdOK(f)'
BY DEF FdOK, SameFd

\* A connection on the loop.
SameConn(f) ==
    /\ conns'[f] = conns[f]
    /\ io'.chan[<<"conn", f>>].index = io.chan[<<"conn", f>>].index
    /\ Queued(Destroys(f))' <=> Queued(Destroys(f))
    /\ cli'.conn = f <=> cli.conn = f
    /\ doing' = Task("establish", f) <=> doing = Task("establish", f)
    /\ cli.conn = f => (Entered("establish")' <=> Entered("establish"))
    /\ f \in given => f \in given'

\* A connection that a step leaves alone.
LEMMA ConnFrame ==
  ASSUME NEW f \in Fds, ConnOK(f), SameConn(f)
  PROVE  ConnOK(f)'
BY DEF ConnOK, SameConn

\* A step that moves no attempt and no connection.
Calm ==
    /\ UNCHANGED <<io, doing, given, active, afterStop>>
    /\ c'.state = c.state /\ c'.ch = c.ch /\ cli'.conn = cli.conn
    /\ armed' \subseteq armed
    /\ lpc' # "tasks" => batch' = <<>>
    /\ lpc' # "events" => active = {} /\ ~Has(queue, Nils)'
    /\ \A f \in Fds : sock'[f] = "free" <=> sock[f] = "free"
    /\ \A f \in Fds :
          /\ \/ conns'[f].state = conns[f].state
             \/ /\ conns[f].state \notin {"none", "Connecting"}
                /\ conns'[f].state = "Disconnecting"
          /\ conns[f].onClose = "destroyed" => conns'[f].onClose = "destroyed"
    /\ user' \in {"connect", "start"} => user \in {"connect", "start"}
    /\ stopped' \/ user' \notin {"idle", "connect", "start"} => ~cli'.connect
    /\ stopped => stopped'
    /\ user' = "shutdown" =>
          \E f \in Fds : cli.conn = f /\ conns[f].state \notin {"none", "Connecting"}

\* Such a step keeps the invariant.
LEMMA CalmStep ==
  ASSUME ClientInv, TypeOK', QueueOK', KeysKept, Calm
  PROVE  ClientInv'
<1>1. LoopOK'
  BY Parts DEF LoopOK, Calm
<1>2. Due' <=> Due
  BY DEF Due, Calm
<1>3. AttemptOK'
  <2>1. armed' # {} => armed # {}
    BY DEF Calm
  <2> QED BY <1>2, <2>1, Parts DEF AttemptOK, Attempt, Calm, KeysKept
<1>4. NilOK'
  BY Parts DEF NilOK, Calm, KeysKept, Entered
<1>5. \A f \in Fds : (Trying(f)' <=> Trying(f)) /\ (Trier(f)' <=> Trier(f)) /\ (Holds(f)' <=> Holds(f))
  BY DEF Trying, Trier, Holds, Calm, Entered
<1>6. SocksOK'
  BY <1>5, Parts DEF SocksOK, Calm, Entered
<1>7. StopOK'
  <2>1. armed = {} => armed' = {}
    BY DEF Calm
  <2>2. /\ stopped' \/ user' \notin {"idle", "connect", "start"} => ~cli'.connect
        /\ user' = "shutdown" =>
             \E f \in Fds : /\ cli'.conn = f /\ conns'[f].state \notin {"none", "Connecting"}
    BY DEF Calm
  <2>3. /\ afterStop' \in {0, 1}
        /\ afterStop' = 1 =>
          /\ stopped' /\ user' \notin {"connect", "start"}
          /\ ~Queued(Starts)' /\ ~Queued(Adds)' /\ armed' = {} /\ ~Due'
          /\ c'.state # "Connecting"
          /\ doing'.op \in {"nothing", "panic", "establish"}
    BY <1>2, <2>1, Parts DEF StopOK, Calm, KeysKept
  <2> QED BY <2>2, <2>3 DEF StopOK
<1>8. ASSUME NEW f \in Fds PROVE FdOK(f)'
  <2>1. SameFd(f)
    BY <1>5 DEF SameFd, Calm
  <2> QED BY <2>1, Parts, FdFrame
<1>9. ASSUME NEW f \in Fds PROVE ConnOK(f)'
  <2>1. ConnOK(f)
    BY Parts
  <2> QED BY <2>1 DEF ConnOK, Calm, KeysKept, Entered
<1>10. io'.ok
  BY Parts DEF Calm
<1> QED BY <1>1, <1>3, <1>4, <1>6, <1>7, <1>8, <1>9, <1>10 DEF ClientInv

-----------------------------------------------------------------------------
(* The calm steps.                                                          *)

\* A task that does not matter is queued.
LEMMA OtherPushed ==
  ASSUME ClientInv, NEW x \in Tasks, x.op \notin KeyOps, Push(x), UNCHANGED batch
  PROVE  KeysKept /\ QueueOK' /\ QueueType' /\ (Has(queue, Nils)' => Has(queue, Nils))
BY Parts, Pushed, PushedOK DEF KeysKept, KeyOps

\* A task that does not matter is called.
LEMMA OtherTaken ==
  ASSUME ClientInv, NEW op, op \notin KeyOps, Runs(op), UNCHANGED <<queue, lpc>>
  PROVE  /\ KeysKept /\ QueueOK' /\ QueueType' /\ Head(batch) \in Tasks
         /\ Head(batch).op = op /\ lpc' = "tasks" /\ ~Has(queue, Nils)' /\ active = {}
<1>1. lpc = "tasks" /\ ~Has(queue, Nils) /\ active = {}
  BY Parts DEF Runs, LoopOK
<1> QED BY <1>1, Parts, TaskTaken DEF KeysKept, KeyOps

\* The loop stays where it is.
LEMMA LoopStays ==
  ASSUME ClientInv, UNCHANGED <<lpc, batch, active>>, Has(queue, Nils)' => Has(queue, Nils)
  PROVE  /\ lpc' # "tasks" => batch' = <<>>
         /\ lpc' # "events" => active = {} /\ ~Has(queue, Nils)'
BY Parts DEF LoopOK

\* The user's goroutine stays where it is.
LEMMA UserStays ==
  ASSUME ClientInv, UNCHANGED <<user, stopped>>, cli'.connect = cli.connect
  PROVE  /\ user' \in {"connect", "start"} => user \in {"connect", "start"}
         /\ stopped' \/ user' \notin {"idle", "connect", "start"} => ~cli'.connect
         /\ stopped => stopped'
         /\ user' = "shutdown" =>
              \E f \in Fds : cli.conn = f /\ conns[f].state \notin {"none", "Connecting"}
BY Parts DEF StopOK

\* Loop() is entered, and the end of a round.
LEMMA LoopMovesKeep ==
  ASSUME ClientInv, LoopEntered \/ TasksDone, UNCHANGED <<clientVars, engineVars, userVars>>
  PROVE  ClientInv'
<1> USE DEF clientVars, engineVars, userVars, taskVars
<1>1. UNCHANGED <<queue, batch, active, doing, io, sock, c, armed, gaveUp>> /\ lpc' = "poll"
  BY DEF LoopEntered, TasksDone
<1>2. TypeOK'
  BY <1>1, Parts DEF TypeOK, ConnectorTypeOK, EngineTypeOK
<1>3. batch = <<>> /\ active = {} /\ ~Has(queue, Nils)
  BY Parts DEF LoopEntered, TasksDone, LoopOK
<1>4. KeysKept /\ QueueOK' /\ ~Has(queue, Nils)'
  BY <1>1, <1>3, TasksSame, Parts
<1>5. Calm
  BY <1>1, <1>3, <1>4, UserStays DEF Calm
<1> QED BY <1>2, <1>4, <1>5, CalmStep

\* doPendingTasks takes the queue.
LEMMA TakePendingKeeps ==
  ASSUME ClientInv, TakePending, UNCHANGED <<clientVars, engineVars, userVars>>
  PROVE  ClientInv'
<1> USE DEF clientVars, engineVars, userVars
<1>1. /\ UNCHANGED <<active, doing, io, sock, c, armed, gaveUp>> /\ lpc' = "tasks"
      /\ lpc = "events" /\ batch' = queue /\ queue' = <<>> /\ active = {}
  BY DEF TakePending
<1>2. batch = <<>> /\ queue \in Seq(Tasks)
  BY <1>1, Parts DEF LoopOK, QueueType
<1>3. Todo' = Todo /\ ~Has(queue, Nils)' /\ queue' \in Seq(Tasks)
  <2>1. \A q \in Seq(Tasks) : q \o <<>> = <<>> \o q
    OBVIOUS
  <2>2. ~Has(<<>>, Nils)
    BY DEF Has
  <2> QED BY <1>1, <1>2, <2>1, <2>2 DEF Todo
<1>4. TypeOK'
  BY <1>1, <1>2, <1>3, Parts DEF TypeOK, ConnectorTypeOK, EngineTypeOK
<1>5. KeysKept /\ QueueOK'
  BY <1>3, Parts DEF KeysKept, QueueOK, Queued
<1>6. Calm
  BY <1>1, <1>3, UserStays DEF Calm
<1> QED BY <1>4, <1>5, <1>6, CalmStep

\* The goroutines of StartLoop and run.
LEMMA EngineKeeps ==
  ASSUME ClientInv, StartLoop \/ run, UNCHANGED <<connectorVars, clientVars, userVars>>
  PROVE  ClientInv'
<1> USE DEF connectorVars, clientVars, userVars, taskVars
<1>1. EngineTypeOK'
  BY Parts DEF TypeOK, EngineTypeOK, StartLoop, run, GoRun, CallerLocks, CheckLoop, Wait,
               CallerUnlocks, RunLocks, Publish, Broadcast
<1>2. TypeOK'
  BY <1>1, Parts DEF TypeOK, ConnectorTypeOK
<1>3. KeysKept /\ QueueOK' /\ (Has(queue, Nils)' => Has(queue, Nils))
  BY TasksSame, Parts
<1>4. Calm
  BY <1>3, UserStays, LoopStays DEF Calm
<1> QED BY <1>2, <1>3, <1>4, CalmStep

\* The kernel decides about an attempt; the server closes.
LEMMA KernelKeeps ==
  ASSUME ClientInv, Kernel
  PROVE  ClientInv'
<1> USE DEF clientVars, engineVars, userVars, taskVars
<1>1. PICK f \in Fds : AttemptEnds(f) \/ ServerCloses(f)
  BY DEF Kernel
<1>2. /\ UNCHANGED <<lpc, active, queue, batch, doing, io, c, armed, gaveUp>>
      /\ UNCHANGED <<clientVars, engineVars, userVars>>
      /\ sock[f] # "free"
      /\ \E s \in {"open", "refused", "closed"} : sock' = [sock EXCEPT ![f] = s]
  BY <1>1 DEF Kernel, AttemptEnds, ServerCloses
<1>3. sock \in [Fds -> {"free", "connecting", "open", "refused", "closed"}]
  BY Parts DEF TypeOK, ConnectorTypeOK
<1>4. /\ sock' \in [Fds -> {"free", "connecting", "open", "refused", "closed"}]
      /\ \A g \in Fds : sock'[g] = "free" <=> sock[g] = "free"
  BY <1>2, <1>3
<1>5. TypeOK'
  BY <1>2, <1>4, Parts DEF TypeOK, ConnectorTypeOK, EngineTypeOK
<1>6. KeysKept /\ QueueOK' /\ (Has(queue, Nils)' => Has(queue, Nils))
  BY <1>2, TasksSame, Parts
<1>7. Calm
  BY <1>2, <1>4, <1>6, UserStays, LoopStays DEF Calm
<1> QED BY <1>5, <1>6, <1>7, CalmStep

\* Disconnect, Stop and Destroy are called.
LEMMA CallsKeep ==
  ASSUME ClientInv, Disconnect \/ Stop \/ Destroy, UNCHANGED engineVars
  PROVE  ClientInv'
<1> USE DEF connectorVars, engineVars, taskVars
<1>1. PICK at \in {"disconnect", "stop", "stopD"} : Call(at, FALSE) /\ UNCHANGED <<stopped, afterStop>>
  BY DEF Disconnect, Stop, Destroy
<1>2. /\ UNCHANGED <<connectorVars, conns, given, stopped, afterStop>> /\ user' = at
      /\ cli' = [cli EXCEPT !.connect = FALSE] /\ calls' = calls + 1 /\ calls < MaxCalls
  BY <1>1 DEF Call
<1>3. /\ cli' \in [connect : BOOLEAN, conn : Fds \cup {None}, retry : BOOLEAN]
      /\ cli'.conn = cli.conn /\ ~cli'.connect
  BY <1>2, Parts DEF TypeOK
<1>4. calls' \in 0..MaxCalls
  BY <1>2, Parts, ClientAssumption DEF TypeOK
<1>5. TypeOK'
  BY <1>2, <1>3, <1>4, Parts DEF TypeOK, ConnectorTypeOK, EngineTypeOK
<1>6. KeysKept /\ QueueOK' /\ (Has(queue, Nils)' => Has(queue, Nils))
  BY <1>2, TasksSame, Parts
<1>7. Calm
  BY <1>2, <1>3, <1>6, LoopStays DEF Calm
<1> QED BY <1>5, <1>6, <1>7, CalmStep

\* Connector.connect is assigned by Start and Stop.
LEMMA SetConnectKeeps ==
  ASSUME ClientInv, SetConnect \/ ClearConnect, UNCHANGED engineVars
  PROVE  ClientInv'
<1> USE DEF clientVars, engineVars, taskVars
<1>1. /\ UNCHANGED <<lpc, active, queue, batch, doing, io, sock, armed, gaveUp, cli, conns,
                     given, afterStop, calls, stopped>>
      /\ \E b \in BOOLEAN : c' = [c EXCEPT !.connect = b]
      /\ \/ user = "connect" /\ user' = "start"
         \/ user \in {"stop", "stopD"} /\ user' \in {"cancel", "cancelD"}
  BY DEF SetConnect, ClearConnect
<1>2. /\ c' \in [connect : BOOLEAN, ch : Channels \cup {None},
                 state : {"Disconnected", "Connecting", "Connected"},
                 tt : Timers \cup {None}]
      /\ c'.state = c.state /\ c'.ch = c.ch
  BY <1>1, Parts DEF TypeOK, ConnectorTypeOK
<1>3. TypeOK'
  BY <1>1, <1>2, Parts DEF TypeOK, ConnectorTypeOK, EngineTypeOK
<1>4. KeysKept /\ QueueOK' /\ (Has(queue, Nils)' => Has(queue, Nils))
  BY <1>1, TasksSame, Parts
<1>5. stopped' \/ user' \notin {"idle", "connect", "start"} => ~cli'.connect
  BY <1>1, Parts DEF StopOK
<1>6. Calm
  BY <1>1, <1>2, <1>4, <1>5, LoopStays DEF Calm
<1> QED BY <1>3, <1>4, <1>6, CalmStep

\* The rest of Connector.Stop.
LEMMA CancelTimerKeeps ==
  ASSUME ClientInv, CancelTimer, UNCHANGED engineVars
  PROVE  ClientInv'
<1> USE DEF clientVars, engineVars, taskVars
<1>1. /\ UNCHANGED <<lpc, active, batch, doing, io, sock, c, armed, gaveUp, cli, conns,
                     given, afterStop, calls>>
      /\ user \in {"cancel", "cancelD"} /\ user' \in {"idle", "destroy"} /\ stopped' = TRUE
      /\ UNCHANGED queue \/ \E t \in Timers : Push(Task("cancel", t))
  BY Parts DEF CancelTimer, TypeOK, ConnectorTypeOK
<1>2. KeysKept /\ QueueOK' /\ QueueType' /\ (Has(queue, Nils)' => Has(queue, Nils))
  <2>1. CASE UNCHANGED queue
    BY <1>1, <2>1, TasksSame, Parts DEF QueueType
  <2>2. CASE \E t \in Timers : Push(Task("cancel", t))
    <3>1. PICK t \in Timers : Push(Task("cancel", t))
      BY <2>2
    <3>2. Task("cancel", t) \in Tasks /\ Task("cancel", t).op \notin KeyOps
      BY TaskTypes DEF KeyOps
    <3> QED BY <1>1, <3>1, <3>2, OtherPushed
  <2> QED BY <1>1, <2>1, <2>2
<1>3. TypeOK'
  BY <1>1, <1>2, Parts DEF TypeOK, ConnectorTypeOK, EngineTypeOK, QueueType
<1>4. ~cli'.connect
  BY <1>1, Parts DEF StopOK
<1>5. Calm
  BY <1>1, <1>2, <1>4, LoopStays DEF Calm
<1> QED BY <1>2, <1>3, <1>5, CalmStep

\* Disconnect looks at the state of the connection.
LEMMA ShutdownCheckKeeps ==
  ASSUME ClientInv, ShutdownCheck, UNCHANGED engineVars
  PROVE  ClientInv'
<1> USE DEF connectorVars, clientVars, engineVars, taskVars
<1>1. /\ UNCHANGED <<lpc, active, queue, batch, doing, io, sock, c, armed, gaveUp, cli, conns,
                     given, afterStop, calls, stopped>>
      /\ user = "disconnect" /\ user' \in {"shutdown", "idle"}
      /\ user' = "shutdown" => cli.conn \in {f \in Fds : conns[f].state = "Connected"}
  BY DEF ShutdownCheck
<1>2. TypeOK'
  BY <1>1, Parts DEF TypeOK, ConnectorTypeOK, EngineTypeOK
<1>3. KeysKept /\ QueueOK' /\ (Has(queue, Nils)' => Has(queue, Nils))
  BY <1>1, TasksSame, Parts
<1>4. ~cli'.connect
  BY <1>1, Parts DEF StopOK
<1>5. Calm
  BY <1>1, <1>3, <1>4, LoopStays DEF Calm
<1> QED BY <1>2, <1>3, <1>5, CalmStep

\* Disconnect stores the state and queues the half-close.
LEMMA ShutdownStoreKeeps ==
  ASSUME ClientInv, ShutdownStore, UNCHANGED engineVars
  PROVE  ClientInv'
<1> USE DEF connectorVars, clientVars, engineVars, taskVars
<1>1. PICK f \in Fds : cli.conn = f /\ conns[f].state \notin {"none", "Connecting"}
  BY Parts DEF StopOK, ShutdownStore
<1>2. /\ UNCHANGED <<lpc, active, batch, doing, io, sock, c, armed, gaveUp, cli,
                     given, afterStop, calls, stopped>>
      /\ user = "shutdown" /\ user' = "idle"
      /\ conns' = [conns EXCEPT ![f].state = "Disconnecting"]
      /\ Push(Task("shutdownWrite", f))
  BY <1>1 DEF ShutdownStore
<1>3. Task("shutdownWrite", f) \in Tasks /\ Task("shutdownWrite", f).op \notin KeyOps
  BY TaskTypes DEF KeyOps
<1>4. KeysKept /\ QueueOK' /\ QueueType' /\ (Has(queue, Nils)' => Has(queue, Nils))
  BY <1>2, <1>3, OtherPushed
<1>5. conns \in [Fds -> [state : ConnStates, onClose : {"removeConn", "destroyed"}]]
  BY Parts DEF TypeOK
<1>6. /\ conns' \in [Fds -> [state : ConnStates, onClose : {"removeConn", "destroyed"}]]
      /\ \A g \in Fds :
           /\ \/ conns'[g].state = conns[g].state
              \/ /\ conns[g].state \notin {"none", "Connecting"}
                 /\ conns'[g].state = "Disconnecting"
           /\ conns[g].onClose = "destroyed" => conns'[g].onClose = "destroyed"
  BY <1>1, <1>2, <1>5 DEF ConnStates
<1>7. TypeOK'
  BY <1>2, <1>4, <1>6, Parts DEF TypeOK, ConnectorTypeOK, EngineTypeOK, QueueType
<1>8. ~cli'.connect
  BY <1>2, Parts DEF StopOK
<1>9. Calm
  BY <1>2, <1>4, <1>6, <1>8, LoopStays DEF Calm
<1> QED BY <1>4, <1>7, <1>9, CalmStep

\* The rest of Destroy.
LEMMA DestroyConnKeeps ==
  ASSUME ClientInv, DestroyConn, UNCHANGED engineVars
  PROVE  ClientInv'
<1> USE DEF clientVars, engineVars, taskVars
<1>1. /\ UNCHANGED <<lpc, active, batch, doing, io, sock, c, armed, gaveUp, cli, conns,
                     given, afterStop, calls, stopped>>
      /\ user = "destroy" /\ user' \in {"idle", "stop"}
      /\ UNCHANGED queue \/ \E f \in Fds : Push(Task("setOnClose", f))
  BY Parts DEF DestroyConn, TypeOK
<1>2. KeysKept /\ QueueOK' /\ QueueType' /\ (Has(queue, Nils)' => Has(queue, Nils))
  <2>1. CASE UNCHANGED queue
    BY <1>1, <2>1, TasksSame, Parts DEF QueueType
  <2>2. CASE \E f \in Fds : Push(Task("setOnClose", f))
    <3>1. PICK f \in Fds : Push(Task("setOnClose", f))
      BY <2>2
    <3>2. Task("setOnClose", f) \in Tasks /\ Task("setOnClose", f).op \notin KeyOps
      BY TaskTypes DEF KeyOps
    <3> QED BY <1>1, <3>1, <3>2, OtherPushed
  <2> QED BY <1>1, <2>1, <2>2
<1>3. TypeOK'
  BY <1>1, <1>2, Parts DEF TypeOK, ConnectorTypeOK, EngineTypeOK, QueueType
<1>4. ~cli'.connect
  BY <1>1, Parts DEF StopOK
<1>5. Calm
  BY <1>1, <1>2, <1>4, LoopStays DEF Calm
<1> QED BY <1>2, <1>3, <1>5, CalmStep

\* The closures of Destroy and ShutdownWrite.
LEMMA RunClientTaskKeeps ==
  ASSUME ClientInv, RunClientTask, UNCHANGED <<engineVars, userVars>>
  PROVE  ClientInv'
<1> USE DEF engineVars, userVars
<1>1. PICK op \in {"setOnClose", "shutdownWrite"} : Runs(op)
  BY DEF RunClientTask
<1>2. UNCHANGED <<lpc, active, queue, doing, io, sock, c, armed, gaveUp, cli, given, afterStop>>
  BY DEF RunClientTask
<1>3. op \notin KeyOps
  BY DEF KeyOps
<1>4. /\ KeysKept /\ QueueOK' /\ QueueType' /\ Head(batch) \in Tasks
      /\ Head(batch).op = op /\ lpc' = "tasks" /\ ~Has(queue, Nils)' /\ active = {}
  BY <1>1, <1>2, <1>3, OtherTaken
<1>5. Head(batch).arg \in Fds
  BY <1>4, Kinds
<1>6. conns' = conns \/ \E f \in Fds : conns' = [conns EXCEPT ![f].onClose = "destroyed"]
  BY <1>5 DEF RunClientTask
<1>7. conns \in [Fds -> [state : ConnStates, onClose : {"removeConn", "destroyed"}]]
  BY Parts DEF TypeOK
<1>8. /\ conns' \in [Fds -> [state : ConnStates, onClose : {"removeConn", "destroyed"}]]
      /\ \A g \in Fds :
           /\ conns'[g].state = conns[g].state
           /\ conns[g].onClose = "destroyed" => conns'[g].onClose = "destroyed"
  BY <1>6, <1>7
<1>9. TypeOK'
  BY <1>2, <1>4, <1>8, Parts DEF TypeOK, ConnectorTypeOK, EngineTypeOK, QueueType
<1>10. Calm
  BY <1>2, <1>4, <1>8, UserStays DEF Calm
<1> QED BY <1>4, <1>9, <1>10, CalmStep

\* The closure of Cancel.
LEMMA RunCancelKeeps ==
  ASSUME ClientInv, Runs("cancel"), armed' = armed \ {Head(batch).arg},
         UNCHANGED <<lpc, active, queue, doing, io, sock, c, gaveUp>>,
         UNCHANGED <<clientVars, engineVars, userVars>>
  PROVE  ClientInv'
<1> USE DEF clientVars, engineVars, userVars
<1>3. "cancel" \notin KeyOps
  BY DEF KeyOps
<1>4. /\ KeysKept /\ QueueOK' /\ QueueType'
      /\ lpc' = "tasks" /\ ~Has(queue, Nils)' /\ active = {}
  BY <1>3, OtherTaken
<1>9. TypeOK'
  BY <1>4, Parts DEF TypeOK, ConnectorTypeOK, EngineTypeOK, QueueType
<1>10. Calm
  BY <1>4, UserStays DEF Calm
<1> QED BY <1>4, <1>9, <1>10, CalmStep

-----------------------------------------------------------------------------
(* The attempt moves, and the descriptors stay as they are.                 *)

\* No attempt has a socket, before or after the step.
NoSocket ==
    /\ c.state # "Connecting" /\ c'.state # "Connecting"
    /\ doing.op \notin {"retry", "newConn", "establish"}
    /\ doing'.op \notin {"retry", "newConn", "establish"}

\* The descriptors, when an attempt without a socket moves.
LEMMA FdsKept ==
  ASSUME ClientInv, NoSocket, UNCHANGED <<io, conns, given, sock>>, cli'.conn = cli.conn,
         \A f \in Fds : Queued(Destroys(f))' <=> Queued(Destroys(f))
  PROVE  SocksOK' /\ io'.ok /\ \A f \in Fds : FdOK(f)' /\ ConnOK(f)'
<1>1. \A f \in Fds :
        /\ doing # Task("establish", f) /\ doing' # Task("establish", f)
        /\ doing \notin {Task("retry", f), Task("newConn", f)}
        /\ doing' \notin {Task("retry", f), Task("newConn", f)}
  BY TaskTypes DEF NoSocket
<1>2. \A f \in Fds : ~Trying(f) /\ ~Trying(f)' /\ ~Trier(f) /\ ~Trier(f)' /\ ~Holds(f) /\ ~Holds(f)'
  BY <1>1 DEF Trying, Trier, Holds, NoSocket
<1>3. SocksOK'
  BY <1>2, Parts DEF SocksOK, NoSocket
<1>4. ASSUME NEW f \in Fds PROVE FdOK(f)' /\ ConnOK(f)'
  <2>1. SameFd(f)
    BY <1>2 DEF SameFd
  <2>2. SameConn(f)
    BY <1>1 DEF SameConn, NoSocket, Entered
  <2> QED BY <2>1, <2>2, Parts, FdFrame, ConnFrame
<1> QED BY <1>3, <1>4, Parts

\* The user's goroutine stays where it is, and no attempt comes after Stop.
LEMMA StopKept ==
  ASSUME ClientInv, UNCHANGED <<user, stopped, afterStop, cli>>, afterStop = 0,
         \A f \in Fds : conns[f].state \notin {"none", "Connecting"} =>
                           conns'[f].state \notin {"none", "Connecting"}
  PROVE  StopOK'
BY Parts DEF StopOK

\* afterStop counts the last connection.
LEMMA NothingAfterStop ==
  ASSUME ClientInv,
         \/ Queued(Starts) \/ Queued(Adds) \/ armed # {} \/ Due \/ c.state = "Connecting"
         \/ doing.op \notin {"nothing", "panic", "establish"}
         \/ user \in {"connect", "start"}
  PROVE  afterStop = 0
BY Parts DEF StopOK

\* Connect, by a user that waits for quiet.
LEMMA ConnectKeeps ==
  ASSUME ClientInv, ~Careless, Connect, UNCHANGED engineVars
  PROVE  ClientInv'
<1> USE DEF connectorVars, engineVars, taskVars
<1>1. /\ UNCHANGED <<connectorVars, conns, given>> /\ user' = "connect"
      /\ cli' = [cli EXCEPT !.connect = TRUE] /\ calls' = calls + 1 /\ calls < MaxCalls
      /\ stopped' = FALSE /\ afterStop' = 0
  BY DEF Connect, Call
<1>2. /\ queue = <<>> /\ batch = <<>> /\ active = {} /\ doing.op = "nothing"
      /\ armed = {} /\ c.state # "Connecting" /\ cli.conn = None
  BY DEF Connect, Quiet, Entered
<1>3. cli' \in [connect : BOOLEAN, conn : Fds \cup {None}, retry : BOOLEAN] /\ cli'.conn = cli.conn
  BY <1>1, Parts DEF TypeOK
<1>4. calls' \in 0..MaxCalls
  BY <1>1, Parts, ClientAssumption DEF TypeOK
<1>5. TypeOK'
  <2>1. stopped' \in BOOLEAN /\ afterStop' \in Nat /\ user' = "connect"
        /\ UNCHANGED <<connectorVars, engineVars, conns, given>>
    BY <1>1
  <2> QED BY <1>3, <1>4, <2>1, Parts DEF TypeOK, ConnectorTypeOK, EngineTypeOK
<1>6. KeysKept /\ QueueOK' /\ Has(queue, Nils)' = Has(queue, Nils)
  BY <1>1, TasksSame, Parts
<1>7. ~Queued(Starts) /\ ~Queued(Adds) /\ ~Queued(Nils)
  <2>1. \A S : ~Has(<<>> \o <<>>, S)
    BY DEF Has
  <2> QED BY <1>2, <2>1 DEF Queued, Todo
<1>8. NoSocket
  BY <1>1, <1>2 DEF NoSocket
<1>9. SocksOK' /\ io'.ok /\ \A f \in Fds : FdOK(f)' /\ ConnOK(f)'
  BY <1>1, <1>3, <1>6, <1>8, FdsKept DEF KeysKept
<1>10. LoopOK'
  BY <1>1, <1>6, Parts DEF LoopOK
<1>11. ~Due'
  BY <1>1, <1>2 DEF Due
<1>12. AttemptOK'
  BY <1>1, <1>2, <1>3, <1>6, <1>7, <1>11, Parts DEF AttemptOK, Attempt, KeysKept
<1>13. NilOK'
  BY <1>6, <1>7 DEF NilOK, KeysKept
<1>14. StopOK'
  BY <1>1 DEF StopOK
<1> QED BY <1>5, <1>6, <1>9, <1>10, <1>12, <1>13, <1>14 DEF ClientInv

\* Connector.Start queues its closure.
LEMMA PushStartKeeps ==
  ASSUME ClientInv, PushStart, UNCHANGED engineVars
  PROVE  ClientInv'
<1> USE DEF clientVars, engineVars, taskVars
<1> DEFINE x == Task("start", 0)
<1>1. /\ UNCHANGED <<lpc, active, batch, doing, io, sock, c, armed, gaveUp, cli, conns,
                     given, afterStop, calls, stopped>>
      /\ user = "start" /\ user' = "idle" /\ Push(x)
  BY DEF PushStart
<1>2. x \in Tasks /\ x.op = "start"
  BY TaskTypes
<1> HIDE DEF x
<1>3. /\ ~Queued(Starts) /\ ~Queued(Adds) /\ armed = {} /\ ~Due /\ c.state # "Connecting"
      /\ cli.conn = None /\ doing.op \in {"nothing", "panic"} /\ ~Queued(Nils)
  BY <1>1, Parts DEF AttemptOK, Attempt, NilOK
<1>4. /\ QueueType' /\ Queued(Starts)' /\ ~Queued(Adds)' /\ ~Queued(Nils)'
      /\ \A f \in Fds : Queued(Destroys(f))' <=> Queued(Destroys(f))
      /\ Has(queue, Nils)' <=> Has(queue, Nils)
  BY <1>1, <1>2, <1>3, Parts, Pushed
<1>5. QueueOK'
  BY <1>1, <1>2, <1>3, Parts, PushedOK
<1>6. TypeOK'
  BY <1>1, <1>4, Parts DEF TypeOK, ConnectorTypeOK, EngineTypeOK, QueueType
<1>7. NoSocket
  BY <1>1, <1>3 DEF NoSocket
<1>8. SocksOK' /\ io'.ok /\ \A f \in Fds : FdOK(f)' /\ ConnOK(f)'
  BY <1>1, <1>4, <1>7, FdsKept
<1>9. LoopOK'
  BY <1>1, <1>4, Parts DEF LoopOK
<1>10. ~Due'
  BY <1>1, <1>3 DEF Due
<1>11. AttemptOK'
  BY <1>1, <1>3, <1>4, <1>10, Parts DEF AttemptOK, Attempt
<1>12. NilOK'
  BY <1>4 DEF NilOK
<1>13. StopOK'
  <2>1. afterStop = 0
    BY <1>1, NothingAfterStop
  <2> QED BY <1>1, <2>1, Parts DEF StopOK
<1> QED BY <1>5, <1>6, <1>8, <1>9, <1>11, <1>12, <1>13 DEF ClientInv

\* The closure of Start is called, or the timer of retry expires.
LEMMA StartEntered ==
  ASSUME ClientInv, doing' = Task("start", 0), doing.op = "nothing",
         ~Queued(Nils)', QueueOK', TypeOK',
         Queued(Starts) \/ Due,
         ~Queued(Starts)' /\ active' = {} /\ (Queued(Adds)' <=> Queued(Adds)),
         \A f \in Fds : Queued(Destroys(f))' <=> Queued(Destroys(f)),
         lpc' # "tasks" => batch' = <<>>,
         lpc' # "events" => ~Has(queue, Nils)',
         UNCHANGED <<io, sock, c, armed>>, UNCHANGED <<clientVars, userVars>>
  PROVE  ClientInv'
<1> USE DEF clientVars, userVars
<1>1. doing'.op = "start"
  BY TaskTypes
<1>2. /\ ~Queued(Adds) /\ armed = {} /\ c.state # "Connecting"
      /\ cli.conn = None /\ user \notin {"connect", "start"}
  BY Parts DEF AttemptOK, Attempt
<1>3. NoSocket
  BY <1>1, <1>2 DEF NoSocket
<1>4. SocksOK' /\ io'.ok /\ \A f \in Fds : FdOK(f)' /\ ConnOK(f)'
  BY <1>3, FdsKept
<1>5. LoopOK'
  BY DEF LoopOK
<1>6. ~Due'
  BY DEF Due
<1>7. AttemptOK'
  BY <1>1, <1>2, <1>6 DEF AttemptOK, Attempt
<1>8. NilOK'
  BY DEF NilOK
<1>9. StopOK'
  BY NothingAfterStop, StopKept
<1> QED BY <1>4, <1>5, <1>7, <1>8, <1>9 DEF ClientInv

\* Connector.start as a task.
LEMMA RunStartKeeps ==
  ASSUME ClientInv, RunStart, UNCHANGED <<clientVars, engineVars, userVars>>
  PROVE  ClientInv'
<1> USE DEF clientVars, engineVars, userVars
<1>1. /\ UNCHANGED <<lpc, active, queue, io, sock, c, armed, gaveUp>>
      /\ doing' = Task("start", 0) /\ Runs("start")
  BY DEF RunStart
<1>2. /\ QueueType' /\ QueueOK' /\ lpc = "tasks" /\ doing.op = "nothing" /\ Queued(Starts)
      /\ ~Queued(Starts)' /\ (Queued(Adds)' <=> Queued(Adds)) /\ (Queued(Nils)' <=> Queued(Nils))
      /\ \A f \in Fds : Queued(Destroys(f))' <=> Queued(Destroys(f))
  BY <1>1, Parts, TaskTaken
<1>3. ~Queued(Nils)' /\ active = {} /\ ~Has(queue, Nils)
  BY <1>2, Parts DEF NilOK, LoopOK
<1>4. TypeOK'
  BY <1>1, <1>2, TaskTypes, Parts DEF TypeOK, ConnectorTypeOK, EngineTypeOK, QueueType
<1>5. lpc' = "tasks" /\ ~Has(queue, Nils)' /\ active' = {}
  BY <1>1, <1>2, <1>3
<1> QED BY <1>1, <1>2, <1>3, <1>4, <1>5, StartEntered

\* Connector.start as the callback of a timer.
LEMMA HandleTimerKeeps ==
  ASSUME ClientInv, NEW e \in active, HandleTimer(e),
         UNCHANGED <<clientVars, engineVars, userVars>>
  PROVE  ClientInv'
<1> USE DEF clientVars, engineVars, userVars, taskVars
<1>1. /\ UNCHANGED <<lpc, queue, batch, io, sock, c, armed, gaveUp>>
      /\ doing' = Task("start", 0) /\ doing.op = "nothing" /\ lpc = "events"
      /\ active' = active \ {e} /\ e.timer # 0
  BY DEF HandleTimer, Handles, Entered
<1>2. Due
  BY <1>1 DEF Due
<1>3. active' = {}
  BY <1>1, Parts DEF LoopOK
<1>4. KeysKept /\ QueueOK' /\ Has(queue, Nils)' = Has(queue, Nils)
  BY <1>1, TasksSame, Parts
<1>5. ~Queued(Starts)
  BY <1>2, Parts DEF AttemptOK, Attempt
<1>6. ~Queued(Nils)'
  BY <1>4, Parts DEF KeysKept, NilOK
<1>7. TypeOK'
  BY <1>1, TaskTypes, Parts DEF TypeOK, ConnectorTypeOK, EngineTypeOK
<1>8. batch' = <<>> /\ lpc' = "events"
  BY <1>1, Parts DEF LoopOK
<1> QED BY <1>1, <1>2, <1>3, <1>4, <1>5, <1>6, <1>7, <1>8, StartEntered DEF KeysKept

\* The timer of retry enters the heap.
LEMMA RunAddTaskKeeps ==
  ASSUME ClientInv, Runs("addTask"), armed' = armed \cup {Head(batch).arg},
         UNCHANGED <<lpc, active, queue, doing, io, sock, c, gaveUp>>,
         UNCHANGED <<clientVars, engineVars, userVars>>
  PROVE  ClientInv'
<1> USE DEF clientVars, engineVars, userVars
<1>1. /\ QueueType' /\ QueueOK' /\ lpc = "tasks" /\ doing.op = "nothing" /\ Queued(Adds)
      /\ ~Queued(Adds)' /\ (Queued(Starts)' <=> Queued(Starts)) /\ ~Queued(Nils)'
      /\ \A f \in Fds : Queued(Destroys(f))' <=> Queued(Destroys(f))
      /\ Head(batch) \in Tasks /\ Head(batch).op = "addTask"
  BY Parts, TaskTaken
<1>2. PICK t \in Timers : t = Head(batch).arg
  BY <1>1, Kinds
<1>3. /\ ~Queued(Starts) /\ armed = {} /\ ~Due /\ c.state # "Connecting"
      /\ cli.conn = None /\ user \notin {"connect", "start"}
  BY <1>1, Parts DEF AttemptOK, Attempt
<1>4. armed' = {t}
  BY <1>2, <1>3
<1>5. TypeOK'
  BY <1>1, <1>4, Parts DEF TypeOK, ConnectorTypeOK, EngineTypeOK, QueueType
<1>6. NoSocket
  BY <1>1, <1>3 DEF NoSocket
<1>7. SocksOK' /\ io'.ok /\ \A f \in Fds : FdOK(f)' /\ ConnOK(f)'
  BY <1>1, <1>6, FdsKept
<1>8. LoopOK'
  BY <1>1, Parts DEF LoopOK
<1>9. ~Due'
  BY <1>3 DEF Due
<1>10. AttemptOK'
  BY <1>1, <1>3, <1>4, <1>9 DEF AttemptOK, Attempt
<1>11. NilOK'
  BY <1>1 DEF NilOK
<1>12. StopOK'
  BY <1>1, NothingAfterStop, StopKept
<1> QED BY <1>1, <1>5, <1>7, <1>8, <1>10, <1>11, <1>12 DEF ClientInv

\* The queued c.ch = nil.
LEMMA RunChNilKeeps ==
  ASSUME ClientInv, RunChNil, UNCHANGED <<clientVars, engineVars, userVars>>
  PROVE  ClientInv'
<1> USE DEF clientVars, engineVars, userVars
<1>1. /\ UNCHANGED <<lpc, active, queue, doing, io, sock, armed, gaveUp>>
      /\ c' = [c EXCEPT !.ch = None] /\ Runs("chNil")
  BY DEF RunChNil
<1>2. /\ QueueType' /\ QueueOK' /\ lpc = "tasks" /\ doing.op = "nothing" /\ Queued(Nils)
      /\ (Queued(Starts)' <=> Queued(Starts)) /\ (Queued(Adds)' <=> Queued(Adds))
      /\ \A f \in Fds : Queued(Destroys(f))' <=> Queued(Destroys(f))
  BY <1>1, Parts, TaskTaken
<1>3. /\ c' \in [connect : BOOLEAN, ch : Channels \cup {None},
                 state : {"Disconnected", "Connecting", "Connected"},
                 tt : Timers \cup {None}]
      /\ c'.state = c.state
  BY <1>1, Parts DEF TypeOK, ConnectorTypeOK
<1>4. c.state # "Connecting"
  BY <1>2, Parts DEF NilOK, Entered
<1>5. TypeOK'
  BY <1>1, <1>2, <1>3, Parts DEF TypeOK, ConnectorTypeOK, EngineTypeOK, QueueType
<1>6. NoSocket
  BY <1>1, <1>2, <1>3, <1>4 DEF NoSocket
<1>7. SocksOK' /\ io'.ok /\ \A f \in Fds : FdOK(f)' /\ ConnOK(f)'
  BY <1>1, <1>2, <1>6, FdsKept
<1>8. LoopOK'
  BY <1>1, <1>2, Parts DEF LoopOK
<1>9. Due' <=> Due
  BY <1>1 DEF Due
<1>10. AttemptOK'
  BY <1>1, <1>2, <1>3, <1>9, Parts DEF AttemptOK, Attempt
<1>11. NilOK'
  BY <1>1, <1>2, <1>3, Parts DEF NilOK, Entered
<1>12. StopOK'
  BY <1>1, <1>2, <1>3, <1>9, Parts DEF StopOK
<1> QED BY <1>2, <1>5, <1>7, <1>8, <1>10, <1>11, <1>12 DEF ClientInv

\* retry schedules the next attempt.
LEMMA ScheduleKeeps ==
  ASSUME ClientInv, schedule, UNCHANGED <<clientVars, engineVars, userVars>>
  PROVE  ClientInv'
<1> USE DEF clientVars, engineVars, userVars
<1>1. PICK t \in Timers : Push(Task("addTask", t)) /\ c' = [c EXCEPT !.tt = t]
  BY DEF schedule
<1>2. /\ UNCHANGED <<lpc, active, batch, io, sock, armed, gaveUp>>
      /\ doing.op = "schedule" /\ doing' = Nothing
  BY DEF schedule, Entered
<1> DEFINE x == Task("addTask", t)
<1>3. x \in Tasks /\ x.op = "addTask" /\ Nothing \in Tasks /\ Nothing.op = "nothing"
  BY TaskTypes
<1> HIDE DEF x
<1>4. /\ ~Queued(Starts) /\ ~Queued(Adds) /\ armed = {} /\ ~Due /\ c.state # "Connecting"
      /\ cli.conn = None /\ user \notin {"connect", "start"}
  BY <1>2, Parts DEF AttemptOK, Attempt
<1>5. /\ QueueType' /\ ~Queued(Starts)' /\ Queued(Adds)' /\ (Queued(Nils)' <=> Queued(Nils))
      /\ \A f \in Fds : Queued(Destroys(f))' <=> Queued(Destroys(f))
      /\ Has(queue, Nils)' <=> Has(queue, Nils)
  BY <1>1, <1>2, <1>3, <1>4, Parts, Pushed DEF x
<1>6. QueueOK'
  BY <1>1, <1>2, <1>3, <1>4, Parts, PushedOK DEF x
<1>7. /\ c' \in [connect : BOOLEAN, ch : Channels \cup {None},
                 state : {"Disconnected", "Connecting", "Connected"},
                 tt : Timers \cup {None}]
      /\ c'.state = c.state
  BY <1>1, Parts DEF TypeOK, ConnectorTypeOK
<1>8. TypeOK'
  BY <1>2, <1>3, <1>5, <1>7, Parts DEF TypeOK, ConnectorTypeOK, EngineTypeOK, QueueType
<1>9. NoSocket
  BY <1>2, <1>3, <1>4, <1>7 DEF NoSocket
<1>10. SocksOK' /\ io'.ok /\ \A f \in Fds : FdOK(f)' /\ ConnOK(f)'
  BY <1>2, <1>5, <1>9, FdsKept
<1>11. active = {}
  BY <1>2, <1>3, Parts DEF LoopOK
<1>12. LoopOK'
  BY <1>2, <1>5, <1>11, Parts DEF LoopOK
<1>13. ~Due'
  BY <1>2, <1>4 DEF Due
<1>14. AttemptOK'
  BY <1>2, <1>3, <1>4, <1>5, <1>7, <1>13 DEF AttemptOK, Attempt
<1>15. NilOK'
  BY <1>2, <1>3, <1>4, <1>5, <1>7, <1>11 DEF NilOK
<1>16. StopOK'
  BY <1>2, NothingAfterStop, StopKept
<1> QED BY <1>6, <1>8, <1>10, <1>12, <1>14, <1>15, <1>16 DEF ClientInv

\* A handler goes from one step to the next, and only c.connect, c.state and
\* doing change.
LEMMA DoingMoves ==
  ASSUME ClientInv, TypeOK', NoSocket,
         doing.op \in {"start", "restart"}, doing'.op \in {"nothing", "panic", "start"},
         UNCHANGED <<lpc, active, queue, batch, io, sock, armed>>,
         UNCHANGED <<clientVars, userVars>>
  PROVE  ClientInv'
<1> USE DEF clientVars, userVars
<1>1. /\ ~Queued(Starts) /\ ~Queued(Adds) /\ armed = {} /\ ~Due
      /\ cli.conn = None /\ user \notin {"connect", "start"} /\ ~Queued(Nils)
  BY Parts DEF AttemptOK, Attempt, NilOK
<1>2. KeysKept /\ QueueOK' /\ Has(queue, Nils)' = Has(queue, Nils)
  BY TasksSame, Parts
<1>3. SocksOK' /\ io'.ok /\ \A f \in Fds : FdOK(f)' /\ ConnOK(f)'
  BY <1>2, FdsKept DEF KeysKept
<1>4. doing # Nothing
  BY TaskTypes
<1>5. active = {}
  BY <1>4, Parts DEF LoopOK
<1>6. LoopOK'
  BY <1>2, <1>5, Parts DEF LoopOK
<1>7. ~Due'
  BY <1>1 DEF Due
<1>8. AttemptOK'
  BY <1>1, <1>2, <1>7 DEF AttemptOK, Attempt, KeysKept, NoSocket
<1>9. NilOK'
  BY <1>1, <1>2 DEF NilOK, KeysKept
<1>10. StopOK'
  BY NothingAfterStop, StopKept
<1> QED BY <1>2, <1>3, <1>6, <1>8, <1>9, <1>10 DEF ClientInv

\* Restart.
LEMMA RestartKeeps ==
  ASSUME ClientInv, restart, UNCHANGED <<clientVars, engineVars, userVars>>
  PROVE  ClientInv'
<1> USE DEF clientVars, engineVars, userVars, taskVars
<1>1. /\ UNCHANGED <<lpc, active, queue, batch, io, sock, armed, gaveUp>>
      /\ doing.op = "restart" /\ doing' = Task("start", 0)
      /\ c' = [c EXCEPT !.connect = TRUE, !.state = "Disconnected"]
  BY DEF restart, Entered
<1>2. /\ c' \in [connect : BOOLEAN, ch : Channels \cup {None},
                 state : {"Disconnected", "Connecting", "Connected"},
                 tt : Timers \cup {None}]
      /\ c'.state = "Disconnected"
  BY <1>1, Parts DEF TypeOK, ConnectorTypeOK
<1>3. doing'.op = "start" /\ doing' \in Tasks
  BY <1>1, TaskTypes
<1>4. TypeOK'
  BY <1>1, <1>2, <1>3, Parts DEF TypeOK, ConnectorTypeOK, EngineTypeOK
<1>5. NoSocket /\ active = {}
  <2>1. c.state # "Connecting"
    BY <1>1, Parts DEF AttemptOK, Attempt
  <2>2. active = {}
    BY <1>1, TaskTypes, Parts DEF LoopOK
  <2> QED BY <1>1, <1>2, <1>3, <2>1, <2>2 DEF NoSocket
<1> QED BY <1>1, <1>3, <1>4, <1>5, DoingMoves

-----------------------------------------------------------------------------
(* The steps of an attempt with a socket.                                   *)

CType == [connect : BOOLEAN, ch : Channels \cup {None},
          state : {"Disconnected", "Connecting", "Connected"}, tt : Timers \cup {None}]
SockStates == {"free", "connecting", "open", "refused", "closed"}

\* Types, one by one.
LEMMA Types ==
  ASSUME ClientInv
  PROVE  /\ c \in CType /\ sock \in [Fds -> SockStates]
         /\ conns \in [Fds -> [state : ConnStates, onClose : {"removeConn", "destroyed"}]]
         /\ cli \in [connect : BOOLEAN, conn : Fds \cup {None}, retry : BOOLEAN]
         /\ None \notin Fds
BY Parts, ClientAssumption DEF TypeOK, ConnectorTypeOK, CType, SockStates

\* A step of the loop and its types.
LEMMA TypesTo ==
  ASSUME ClientInv, QueueType', doing' \in Tasks, io' \in IoType, c' \in CType,
         lpc' \in {"off", "poll", "events", "tasks"}, active' \subseteq active,
         sock' \in [Fds -> SockStates],
         conns' \in [Fds -> [state : ConnStates, onClose : {"removeConn", "destroyed"}]],
         cli' \in [connect : BOOLEAN, conn : Fds \cup {None}, retry : BOOLEAN],
         given' \subseteq Fds, afterStop' \in Nat, gaveUp' \in BOOLEAN,
         armed' \subseteq Timers, UNCHANGED <<engineVars, userVars>>
  PROVE  TypeOK'
BY Parts DEF TypeOK, ConnectorTypeOK, EngineTypeOK, CType, SockStates, QueueType,
             engineVars, userVars

\* The channels of the other descriptors.
IoOthers(f) ==
    \A g \in Fds \ {f} :
        /\ io'.chan[<<"connector", g>>] = io.chan[<<"connector", g>>]
        /\ io'.chan[<<"conn", g>>] = io.chan[<<"conn", g>>]
        /\ io'.map[L][g] = io.map[L][g] /\ io'.reg[L][g] = io.reg[L][g]

\* They are left alone when a channel of f changes.
LEMMA EffectOthers ==
  ASSUME NEW f \in Fds, NEW kind \in {"connector", "conn"}, NEW m, NEW r, NEW h,
         Effect(io, io', f, <<kind, f>>, m, r, h)
  PROVE  /\ IoOthers(f)
         /\ \A k \in {"connector", "conn"} : k # kind => io'.chan[<<k, f>>] = io.chan[<<k, f>>]
<1>1. \A k \in {"connector", "conn"}, g \in Fds :
         k # kind \/ g # f => <<k, g>> \in Channels \ {<<kind, f>>}
  BY DEF Channels
<1> QED BY <1>1 DEF Effect, IoOthers

\* A descriptor that an attempt holds has no connection yet.
LEMMA NotGiven ==
  ASSUME ClientInv, NEW f \in Fds, f \notin given
  PROVE  /\ conns[f].state = "none" /\ io.chan[<<"conn", f>>].index = "new"
         /\ ~Queued(Destroys(f)) /\ cli.conn # f
         /\ ~Trying(f) => io.map[L][f] = None /\ io.reg[L][f] = NoReg
BY Parts DEF ConnOK, FdOK

\* start, when it ends at once.
LEMMA StartEndsKeeps ==
  ASSUME ClientInv, Entered("start"), doing' \in {Nothing, Panic},
         UNCHANGED <<lpc, active, queue, batch, io, sock, c, armed>>, gaveUp' \in BOOLEAN,
         UNCHANGED <<clientVars, engineVars, userVars>>
  PROVE  ClientInv'
<1> USE DEF clientVars, engineVars, userVars
<1>1. doing' \in Tasks /\ doing'.op \in {"nothing", "panic"} /\ doing.op = "start"
  BY TaskTypes DEF Entered
<1>2. TypeOK'
  BY <1>1, Parts DEF TypeOK, ConnectorTypeOK, EngineTypeOK
<1>3. NoSocket
  <2>1. c.state # "Connecting"
    BY <1>1, Parts DEF AttemptOK, Attempt
  <2> QED BY <1>1, <2>1 DEF NoSocket
<1> QED BY <1>1, <1>2, <1>3, DoingMoves

\* connect(2) fails in a way that is retried.
LEMMA StartFailsKeeps ==
  ASSUME ClientInv, Entered("start"), NEW f \in Fds, sock[f] = "free",
         doing' = Task("retry", f), sock' = [sock EXCEPT ![f] = "refused"], gaveUp' = FALSE,
         UNCHANGED <<lpc, active, queue, batch, io, c, armed>>,
         UNCHANGED <<clientVars, engineVars, userVars>>
  PROVE  ClientInv'
<1> USE DEF clientVars, userVars
<1>1. doing' \in Tasks /\ doing'.op = "retry" /\ doing'.arg = f /\ doing.op = "start"
  BY TaskTypes DEF Entered
<1>2. /\ ~Queued(Starts) /\ ~Queued(Adds) /\ armed = {} /\ ~Due /\ c.state # "Connecting"
      /\ cli.conn = None /\ user \notin {"connect", "start"} /\ ~Queued(Nils)
  BY <1>1, Parts DEF AttemptOK, Attempt, NilOK
<1>3. KeysKept /\ QueueOK' /\ QueueType' /\ Has(queue, Nils)' = Has(queue, Nils)
  BY TasksSame, Parts DEF QueueType
<1>4. /\ sock' \in [Fds -> SockStates] /\ sock'[f] = "refused"
      /\ \A g \in Fds \ {f} : sock'[g] = sock[g]
  BY Types DEF SockStates
<1>5. TypeOK'
  BY <1>1, <1>3, <1>4, Types, TypesTo, Parts DEF TypeOK, ConnectorTypeOK
<1>6. active = {}
  BY <1>1, TaskTypes, Parts DEF LoopOK
<1>7. LoopOK'
  BY <1>3, <1>6, Parts DEF LoopOK
<1>8. ~Due'
  BY <1>2 DEF Due
<1>9. AttemptOK'
  BY <1>1, <1>2, <1>3, <1>8 DEF AttemptOK, Attempt, KeysKept
<1>10. NilOK'
  BY <1>2, <1>3 DEF NilOK, KeysKept
<1>11. StopOK'
  BY <1>1, NothingAfterStop, StopKept
<1>12. \A g \in Fds :
        /\ ~Trying(g) /\ ~Trying(g)' /\ ~Trier(g) /\ ~Trier(g)' /\ ~Holds(g)
        /\ Holds(g)' <=> g = f
        /\ doing # Task("establish", g) /\ doing' # Task("establish", g)
  BY <1>1, <1>2, TaskTypes DEF Trying, Trier, Holds
<1>13. SocksOK'
  BY <1>2, <1>4, <1>12, Parts DEF SocksOK
<1>14. ASSUME NEW g \in Fds PROVE FdOK(g)' /\ ConnOK(g)'
  <2>1. SameFd(g)
    BY <1>12 DEF SameFd
  <2>2. SameConn(g)
    BY <1>1, <1>2, <1>3, <1>12 DEF SameConn, Entered, KeysKept
  <2> QED BY <2>1, <2>2, Parts, FdFrame, ConnFrame
<1> QED BY <1>3, <1>5, <1>7, <1>9, <1>10, <1>11, <1>13, <1>14, Parts DEF ClientInv

\* connect(2) is under way: connecting.
LEMMA StartConnectsKeeps ==
  ASSUME ClientInv, Entered("start"), NEW f \in Fds, sock[f] = "free",
         doing' = Nothing, sock' = [sock EXCEPT ![f] = "connecting"], gaveUp' = FALSE,
         c' = [c EXCEPT !.state = "Connecting", !.ch = <<"connector", f>>],
         io' = enableWriting(io, L, f, <<"connector", f>>),
         UNCHANGED <<lpc, active, queue, batch, armed>>,
         UNCHANGED <<clientVars, engineVars, userVars>>
  PROVE  ClientInv'
<1> USE DEF clientVars, userVars
<1> DEFINE ch == <<"connector", f>>
           r  == [ch |-> ch, events |-> {EventWrite}]
           h  == [events |-> {EventWrite}, index |-> "add"]
<1>1. doing' \in Tasks /\ doing'.op = "nothing" /\ doing.op = "start"
  BY TaskTypes DEF Entered
<1>2. /\ ~Queued(Starts) /\ ~Queued(Adds) /\ armed = {} /\ ~Due /\ c.state # "Connecting"
      /\ cli.conn = None /\ user \notin {"connect", "start"} /\ ~Queued(Nils)
  BY <1>1, Parts DEF AttemptOK, Attempt, NilOK
<1>3. KeysKept /\ QueueOK' /\ QueueType' /\ Has(queue, Nils)' = Has(queue, Nils)
  BY TasksSame, Parts DEF QueueType
<1>4. /\ sock' \in [Fds -> SockStates] /\ sock'[f] = "connecting"
      /\ \A g \in Fds \ {f} : sock'[g] = sock[g]
  BY Types DEF SockStates
<1>5. c' \in CType /\ c'.state = "Connecting" /\ c'.ch = ch
  BY Types, Names DEF CType
<1>6. f \notin given /\ ~Trying(f)
  BY <1>2, Parts DEF SocksOK, Trying
<1>7. Effect(io, io', f, ch, ch, r, h)
  <2>1. /\ io.map[L][f] = None /\ io.reg[L][f] = NoReg
        /\ io.chan[ch] = [events |-> {}, index |-> "new"]
    BY <1>6, NotGiven, Parts DEF FdOK
  <2>2. io' = setEvents(io, L, f, ch, {EventWrite})
    BY <2>1 DEF enableWriting
  <2>3. ch \in Channels /\ {EventWrite} \in {{EventRead}, {EventWrite}}
    BY Names
  <2> HIDE DEF ch
  <2> QED BY <2>1, <2>2, <2>3, Parts, Watched
<1>8. TypeOK'
  <2>1. io' \in IoType
    BY <1>7 DEF Effect
  <2> QED BY <1>1, <1>3, <1>4, <1>5, <2>1, Types, TypesTo, Parts DEF TypeOK, ConnectorTypeOK
<1>9. active = {}
  BY <1>1, TaskTypes, Parts DEF LoopOK
<1>10. LoopOK'
  BY <1>3, <1>9, Parts DEF LoopOK
<1>11. ~Due'
  BY <1>2 DEF Due
<1>12. AttemptOK'
  BY <1>1, <1>2, <1>3, <1>11 DEF AttemptOK, Attempt, KeysKept
<1>13. NilOK'
  BY <1>2, <1>3 DEF NilOK, KeysKept
<1>14. StopOK'
  BY <1>1, NothingAfterStop, StopKept
<1>15. \A g \in Fds :
        /\ ~Trying(g) /\ (Trying(g)' <=> g = f) /\ ~Trier(g) /\ (Trier(g)' <=> g = f)
        /\ ~Holds(g) /\ ~Holds(g)'
        /\ doing # Task("establish", g) /\ doing' # Task("establish", g)
  BY <1>1, <1>2, <1>5, TaskTypes, Names DEF Trying, Trier, Holds, Entered
<1>16. SocksOK'
  BY <1>1, <1>4, <1>5, <1>6, <1>15, Parts DEF SocksOK, Entered
<1>17. IoOthers(f) /\ io'.chan[<<"conn", f>>] = io.chan[<<"conn", f>>]
  BY <1>7, EffectOthers
<1>18. ASSUME NEW g \in Fds PROVE FdOK(g)' /\ ConnOK(g)'
  <2>1. CASE g # f
    <3>1. SameFd(g)
      BY <1>15, <1>17, <2>1 DEF SameFd, IoOthers
    <3>2. SameConn(g)
      BY <1>1, <1>2, <1>3, <1>15, <1>17, <2>1 DEF SameConn, Entered, KeysKept, IoOthers
    <3> QED BY <3>1, <3>2, Parts, FdFrame, ConnFrame
  <2>2. CASE g = f
    <3>1. io'.chan[<<"conn", f>>] = io.chan[<<"conn", f>>] /\ io.chan[<<"conn", f>>].index = "new"
      BY <1>6, <1>17, NotGiven
    <3>2. io'.chan[ch] = h /\ io'.map[L][f] = ch /\ io'.reg[L][f] = r
      BY <1>7 DEF Effect
    <3>3. FdOK(f)
      BY Parts
    <3>4. FdOK(f)'
      BY <1>15, <3>1, <3>2, <3>3 DEF FdOK
    <3>5. SameConn(f)
      BY <1>1, <1>2, <1>3, <1>15, <1>17 DEF SameConn, Entered, KeysKept
    <3> QED BY <2>2, <3>4, <3>5, Parts, ConnFrame
  <2> QED BY <2>1, <2>2
<1>19. io'.ok
  BY <1>7, Parts DEF Effect
<1> QED BY <1>3, <1>8, <1>10, <1>12, <1>13, <1>14, <1>16, <1>18, <1>19 DEF ClientInv

\* start and connect0.
LEMMA StartKeeps ==
  ASSUME ClientInv, start, UNCHANGED <<clientVars, engineVars, userVars>>
  PROVE  ClientInv'
<1> USE DEF taskVars
<1>1. CASE doing' \in {Nothing, Panic} /\ UNCHANGED <<io, sock, c>> /\ gaveUp' \in BOOLEAN
  BY <1>1, StartEndsKeeps DEF start
<1>2. ASSUME NEW f \in Fds, sock[f] = "free",
             doing' = Task("retry", f), sock' = [sock EXCEPT ![f] = "refused"], gaveUp' = FALSE,
             UNCHANGED <<io, c>>
      PROVE  ClientInv'
  BY <1>2, StartFailsKeeps DEF start
<1>3. ASSUME NEW f \in Fds, sock[f] = "free",
             doing' = Nothing, sock' = [sock EXCEPT ![f] = "connecting"], gaveUp' = FALSE,
             c' = [c EXCEPT !.state = "Connecting", !.ch = <<"connector", f>>],
             io' = enableWriting(io, L, f, <<"connector", f>>)
      PROVE  ClientInv'
  BY <1>3, StartConnectsKeeps DEF start
<1>4. gaveUp \in BOOLEAN
  BY Parts DEF TypeOK, ConnectorTypeOK
<1> QED BY <1>1, <1>2, <1>3, <1>4 DEF start

\* retry, up to its look at connect.
LEMMA RetryKeeps ==
  ASSUME ClientInv, retry, UNCHANGED <<clientVars, engineVars, userVars>>
  PROVE  ClientInv'
<1> USE DEF clientVars, userVars, taskVars
<1>1. doing.op = "retry" /\ doing \in Tasks /\ doing = Task("retry", doing.arg) /\ doing.arg \in Fds
  BY Parts, Kinds DEF retry, Entered
<1>2. PICK f \in Fds : f = doing.arg
  BY <1>1
<1>3. /\ UNCHANGED <<lpc, active, queue, batch, armed, gaveUp>>
      /\ c' = [c EXCEPT !.state = "Disconnected"]
      /\ io' = closed(io, f) /\ sock' = [sock EXCEPT ![f] = "free"]
      /\ doing' \in {Task("schedule", 0), Nothing}
  BY <1>2 DEF retry, Close
<1>4. doing' \in Tasks /\ doing'.op \in {"schedule", "nothing"}
  BY <1>3, TaskTypes
<1>5. /\ ~Queued(Starts) /\ ~Queued(Adds) /\ armed = {} /\ ~Due
      /\ cli.conn = None /\ user \notin {"connect", "start"}
  BY <1>1, Parts DEF AttemptOK, Attempt
<1>6. KeysKept /\ QueueOK' /\ QueueType' /\ Has(queue, Nils)' = Has(queue, Nils)
  BY <1>3, TasksSame, Parts DEF QueueType
<1>7. /\ sock' \in [Fds -> SockStates] /\ sock'[f] = "free"
      /\ \A g \in Fds \ {f} : sock'[g] = sock[g]
  BY <1>3, Types DEF SockStates
<1>8. c' \in CType /\ c'.state = "Disconnected"
  BY <1>3, Types DEF CType
<1>9. \A g \in Fds :
        /\ Holds(g) <=> g = f
        /\ ~Trying(g) /\ ~Trying(g)' /\ ~Trier(g)' /\ ~Holds(g)'
        /\ Trier(g) => g = f
        /\ doing # Task("establish", g) /\ doing' # Task("establish", g)
  <2>1. \A g \in Fds : Holds(g) <=> g = f
    BY <1>1, <1>2, TaskTypes DEF Holds
  <2>2. \A g \in Fds : ~Trying(g) /\ ~Trying(g)' /\ ~Trier(g)'
    BY <1>1, <1>8 DEF Trying, Trier, Entered
  <2>3. \A g \in Fds : Trier(g) => g = f
    BY <1>1, <1>2, Parts DEF SocksOK, Entered
  <2>4. \A g \in Fds : /\ ~Holds(g)' /\ doing # Task("establish", g)
                       /\ doing' # Task("establish", g)
    BY <1>1, <1>4, TaskTypes DEF Holds
  <2> QED BY <2>1, <2>2, <2>3, <2>4
<1>10. f \notin given
  BY <1>9, Parts DEF SocksOK
<1>11. io' = io
  <2>1. io.reg[L][f] = NoReg
    BY <1>9, <1>10, NotGiven
  <2> QED BY <1>3, <2>1, Parts, ClosedSame
<1>12. TypeOK'
  BY <1>3, <1>4, <1>6, <1>7, <1>8, <1>11, Types, TypesTo, Parts DEF TypeOK, ConnectorTypeOK
<1>13. active = {}
  BY <1>1, TaskTypes, Parts DEF LoopOK
<1>14. LoopOK'
  BY <1>3, <1>6, <1>13, Parts DEF LoopOK
<1>15. ~Due'
  BY <1>3, <1>5 DEF Due
<1>16. AttemptOK'
  BY <1>3, <1>4, <1>5, <1>6, <1>8, <1>15 DEF AttemptOK, Attempt, KeysKept
<1>17. NilOK'
  BY <1>3, <1>4, <1>5, <1>6, <1>8, <1>13 DEF NilOK, KeysKept
<1>18. StopOK'
  BY <1>1, NothingAfterStop, StopKept
<1>19. SocksOK'
  BY <1>4, <1>7, <1>8, <1>9, <1>10, Parts DEF SocksOK, Entered
<1>20. ASSUME NEW g \in Fds PROVE FdOK(g)' /\ ConnOK(g)'
  <2>1. SameFd(g)
    BY <1>9, <1>11 DEF SameFd
  <2>2. SameConn(g)
    BY <1>1, <1>4, <1>5, <1>6, <1>9, <1>11, Types DEF SameConn, Entered, KeysKept
  <2> QED BY <2>1, <2>2, Parts, FdFrame, ConnFrame
<1> QED BY <1>6, <1>11, <1>12, <1>14, <1>16, <1>17, <1>18, <1>19, <1>20, Parts DEF ClientInv

\* removeAndResetChannel: the poller forgets the channel of the attempt.
LEMMA RemovedEffect ==
  ASSUME ClientInv, NEW f \in Fds, Trying(f), NEW j, j = Removed
  PROVE  Effect(io, j, f, <<"connector", f>>, None, NoReg, [events |-> {}, index |-> "new"])
<1> DEFINE ch == <<"connector", f>>
<1>1. c.ch = ch /\ c.ch[2] = f /\ ch \in Channels
  <2>1. c.ch = ch
    BY DEF Trying
  <2>2. ch[2] = f
    OBVIOUS
  <2> QED BY <2>1, <2>2, Names
<1>2. /\ io.map[L][f] = ch /\ io.chan[ch] = [events |-> {EventWrite}, index |-> "add"]
      /\ io.reg[L][f] = [ch |-> ch, events |-> {EventWrite}]
  BY Parts DEF FdOK
<1>3. io.reg[L][f] # NoReg /\ io.chan[ch].index = "add"
  BY <1>1, <1>2, Names
<1>4. j = removeChannel(disableAll(io, L, f, ch), L, f, ch)
  BY <1>1 DEF Removed
<1> HIDE DEF ch
<1>5. Effect(io, j, f, ch, None, NoReg, [events |-> {}, index |-> "new"])
  BY <1>1, <1>2, <1>3, <1>4, Parts, Forgotten
<1> QED BY <1>5 DEF ch

\* What handleError and handleWrite of the connector have in common: the
\* channel is removed and c.ch = nil queued; the socket goes to retry or
\* newConn, or is closed.
AttemptOver(f) ==
    /\ Effect(io, io', f, <<"connector", f>>, None, NoReg, [events |-> {}, index |-> "new"])
    /\ Push(Task("chNil", 0))
    /\ c' \in CType
    /\ \/ doing' = Task("retry", f) /\ UNCHANGED <<c, sock>>
       \/ doing' = Task("newConn", f) /\ c'.state = "Connected" /\ UNCHANGED sock
       \/ /\ doing' = doing /\ c'.state = "Connected"
          /\ sock' = [sock EXCEPT ![f] = "free"]

\* The end of an attempt keeps the invariant.
LEMMA AttemptOverKeeps ==
  ASSUME ClientInv, NEW f \in Fds, Trying(f), AttemptOver(f), doing.op = "nothing",
         lpc = "events", active' = {}, UNCHANGED <<lpc, batch, armed, gaveUp>>,
         UNCHANGED <<clientVars, engineVars, userVars>>
  PROVE  ClientInv'
<1> USE DEF clientVars, userVars
<1> DEFINE x == Task("chNil", 0)
<1>1. x \in Tasks /\ x.op = "chNil"
  BY TaskTypes
<1>2. Push(x) /\ c' \in CType /\ c.state = "Connecting" /\ c.ch = <<"connector", f>>
  BY DEF AttemptOver, Trying
<1> HIDE DEF x
<1>3. /\ ~Queued(Starts) /\ ~Queued(Adds) /\ armed = {} /\ ~Due
      /\ cli.conn = None /\ user \notin {"connect", "start"}
  BY <1>2, Parts DEF AttemptOK, Attempt
<1>4. /\ QueueType' /\ ~Queued(Starts)' /\ ~Queued(Adds)' /\ Queued(Nils)'
      /\ \A g \in Fds : Queued(Destroys(g))' <=> Queued(Destroys(g))
  BY <1>1, <1>2, <1>3, Parts, Pushed
<1>5. QueueOK'
  BY <1>1, <1>2, <1>3, Parts, PushedOK
<1>6. /\ doing' \in Tasks /\ doing'.op \in {"retry", "newConn", "nothing"}
      /\ doing'.op = "retry" => c' = c /\ doing'.arg = f
      /\ doing'.op # "retry" => c'.state = "Connected"
      /\ doing'.op # "nothing" => UNCHANGED sock
      /\ \A g \in Fds : (Holds(g)' <=> g = f /\ doing'.op # "nothing")
      /\ \A g \in Fds : doing' # Task("establish", g)
  BY TaskTypes, Parts DEF AttemptOver, Holds
<1>7. /\ sock' \in [Fds -> SockStates] /\ \A g \in Fds \ {f} : sock'[g] = sock[g]
      /\ doing'.op = "nothing" => sock'[f] = "free"
      /\ doing'.op # "nothing" => sock'[f] = sock[f]
  <2>1. \/ UNCHANGED sock \/ sock' = [sock EXCEPT ![f] = "free"]
    BY DEF AttemptOver
  <2>2. doing'.op = "nothing" => sock' = [sock EXCEPT ![f] = "free"]
    BY TaskTypes DEF AttemptOver
  <2> QED BY <1>6, <2>1, <2>2, Types DEF SockStates
<1>8. Effect(io, io', f, <<"connector", f>>, None, NoReg, [events |-> {}, index |-> "new"])
  BY DEF AttemptOver
<1>9. IoOthers(f) /\ io'.chan[<<"conn", f>>] = io.chan[<<"conn", f>>] /\ io' \in IoType /\ io'.ok
  BY <1>8, EffectOthers, Parts DEF Effect
<1>10. TypeOK'
  BY <1>2, <1>4, <1>6, <1>7, <1>9, Types, TypesTo, Parts DEF TypeOK, ConnectorTypeOK
<1>11. LoopOK'
  BY Parts DEF LoopOK
<1>12. ~Due'
  BY DEF Due
<1>13. AttemptOK'
  BY <1>2, <1>3, <1>4, <1>6, <1>12 DEF AttemptOK, Attempt
<1>14. NilOK'
  BY <1>3, <1>4, <1>6 DEF NilOK, Entered
<1>15. StopOK'
  BY <1>2, NothingAfterStop, StopKept
<1>16. \A g \in Fds :
        /\ Trier(g) <=> g = f
        /\ Trying(g) => g = f
        /\ ~Trying(g)'
        /\ Trier(g)' <=> g = f /\ doing'.op = "retry"
        /\ ~Holds(g)
        /\ doing # Task("establish", g)
  <2>1. \A g \in Fds : /\ ~Holds(g) /\ doing # Task("establish", g)
    BY TaskTypes DEF Holds
  <2>2. \A g \in Fds : (Trier(g) <=> g = f) /\ (Trying(g) => g = f)
    BY <1>2, Names DEF Trier, Trying
  <2>3. \A g \in Fds : ~Trying(g)' /\ (Trier(g)' <=> g = f /\ doing'.op = "retry")
    BY <1>2, <1>6, Names DEF Trier, Trying, Entered
  <2> QED BY <2>1, <2>2, <2>3
<1>17. f \notin given
  BY <1>16, Parts DEF SocksOK
<1>18. SocksOK'
  <2>1. c'.state = "Connecting" => \E g \in Fds : c'.ch = <<"connector", g>>
    BY <1>2, <1>6
  <2>2. ASSUME NEW g \in Fds
        PROVE  /\ sock'[g] # "free" <=> g \in given' \/ Holds(g)' \/ Trier(g)'
               /\ g \in given' => ~Holds(g)' /\ ~Trier(g)'
               /\ Entered("retry")' /\ Trier(g)' => doing'.arg = g
    BY <1>6, <1>7, <1>16, <1>17, Parts DEF SocksOK, Entered
  <2> QED BY <2>1, <2>2 DEF SocksOK
<1>19. ASSUME NEW g \in Fds PROVE FdOK(g)' /\ ConnOK(g)'
  <2>1. SameConn(g)
    <3>1. io'.chan[<<"conn", g>>] = io.chan[<<"conn", g>>]
      BY <1>9 DEF IoOthers
    <3> QED BY <1>3, <1>4, <1>6, <1>16, <3>1, Types DEF SameConn, Entered
  <2>2. CASE g # f
    <3>1. SameFd(g)
      BY <1>9, <1>16, <2>2 DEF SameFd, IoOthers
    <3> QED BY <2>1, <3>1, Parts, FdFrame, ConnFrame
  <2>3. CASE g = f
    <3>1. io.chan[<<"conn", f>>].index = "new"
      BY <1>17, NotGiven
    <3>2. /\ io'.chan[<<"connector", f>>] = [events |-> {}, index |-> "new"]
          /\ io'.map[L][f] = None /\ io'.reg[L][f] = NoReg
      BY <1>8 DEF Effect
    <3>3. FdOK(f)
      BY Parts
    <3>4. FdOK(f)'
      BY <1>9, <1>16, <3>1, <3>2, <3>3 DEF FdOK
    <3> QED BY <2>1, <2>3, <3>4, Parts, ConnFrame
  <2> QED BY <2>2, <2>3
<1> QED BY <1>5, <1>9, <1>10, <1>11, <1>13, <1>14, <1>15, <1>18, <1>19 DEF ClientInv

\* Channel.handleEvent of the connector's channel.
LEMMA HandleConnectorKeeps ==
  ASSUME ClientInv, NEW e \in active, HandleConnector(e),
         UNCHANGED <<clientVars, engineVars, userVars>>
  PROVE  ClientInv'
<1>1. /\ lpc = "events" /\ doing.op = "nothing" /\ active' = active \ {e}
      /\ e.ch \in {"connector"} \X Fds
      /\ UNCHANGED <<lpc, batch, armed, gaveUp>>
  BY DEF HandleConnector, Handles, Entered
<1>2. active' = {}
  BY <1>1, Parts DEF LoopOK
<1>3. PICK f \in Fds : e.ch = <<"connector", f>>
  BY <1>1
<1>4. c.state = "Connecting" /\ c.ch = <<"connector", f>>
  <2>1. e.ch # None
    BY <1>3, Names
  <2>2. e.timer = 0
    BY <2>1, Parts DEF LoopOK
  <2>3. PICK g \in Fds :
           \/ e.ch = <<"connector", g>> /\ c.state = "Connecting" /\ c.ch = e.ch
           \/ e.ch = <<"conn", g>> /\ io.chan[e.ch].index = "add"
    BY <2>2, Parts DEF LoopOK
  <2> QED BY <1>3, <2>3, Names
<1>5. Trying(f) /\ c.ch # None /\ c.ch[2] = f
  <2>1. Trying(f) /\ c.ch # None
    BY <1>1, <1>4, Names DEF Trying, Entered
  <2>2. <<"connector", f>>[2] = f
    OBVIOUS
  <2> QED BY <1>4, <2>1, <2>2
<1>6. Effect(io, Removed, f, <<"connector", f>>, None, NoReg, [events |-> {}, index |-> "new"])
  BY <1>5, RemovedEffect
<1>7. closed(Removed, f) = Removed
  BY <1>6, ClosedSame DEF Effect
<1>8. /\ Push(Task("chNil", 0))
      /\ \/ doing' = Task("retry", f) /\ io' = Removed /\ UNCHANGED <<c, sock>>
         \/ /\ c' = [c EXCEPT !.state = "Connected"]
            /\ \/ doing' = Task("newConn", f) /\ io' = Removed /\ UNCHANGED sock
               \/ /\ doing' = doing /\ io' = closed(Removed, f)
                  /\ sock' = [sock EXCEPT ![f] = "free"]
  BY <1>4, <1>5 DEF HandleConnector, Close
<1>9. c' \in CType /\ (c' = [c EXCEPT !.state = "Connected"] => c'.state = "Connected")
  BY <1>8, Types DEF CType
<1>10. io' = Removed
  BY <1>7, <1>8
<1>11. AttemptOver(f)
  BY <1>6, <1>8, <1>9, <1>10 DEF AttemptOver
<1> QED BY <1>1, <1>2, <1>5, <1>11, AttemptOverKeeps

-----------------------------------------------------------------------------
(* The steps of a connection.                                               *)

ConnType == [state : ConnStates, onClose : {"removeConn", "destroyed"}]
CliType  == [connect : BOOLEAN, conn : Fds \cup {None}, retry : BOOLEAN]

\* An assertion that holds leaves the poller alone.
LEMMA AssertHolds ==
  ASSUME NEW i \in IoType, NEW cond, cond
  PROVE  Assert(i, cond) = i
<1>1. [i EXCEPT !.ok = i.ok] = i
  BY DEF IoType
<1>2. (i.ok /\ cond) = i.ok
  BY DEF IoType
<1> QED BY <1>1, <1>2 DEF Assert

\* newConn, when it publishes the connection and when it fails.
LEMMA NewConnKeeps ==
  ASSUME ClientInv, newConn, UNCHANGED <<engineVars, userVars>>
  PROVE  ClientInv'
<1> USE DEF userVars, taskVars
<1>1. doing.op = "newConn" /\ doing \in Tasks /\ doing = Task("newConn", doing.arg) /\ doing.arg \in Fds
  BY Parts, Kinds DEF newConn, Entered
<1>2. PICK f \in Fds : f = doing.arg
  BY <1>1
<1>3. /\ UNCHANGED <<lpc, active, queue, batch, io, sock, c, armed, gaveUp>>
      /\ given' = given \cup {f}
      /\ \/ /\ doing' = Task("establish", f) /\ user # "shutdown"
            /\ cli' = [cli EXCEPT !.conn = f]
            /\ conns' = [conns EXCEPT ![f].state = "Connecting"]
            /\ afterStop' = IF stopped THEN afterStop + 1 ELSE afterStop
         \/ doing' = Nothing /\ UNCHANGED <<cli, conns, afterStop>>
  BY <1>2 DEF newConn, Unlocked
<1>4. /\ ~Queued(Starts) /\ ~Queued(Adds) /\ armed = {} /\ ~Due /\ c.state # "Connecting"
      /\ cli.conn = None /\ user \notin {"connect", "start"} /\ afterStop = 0
  BY <1>1, Parts, NothingAfterStop DEF AttemptOK, Attempt
<1>5. KeysKept /\ QueueOK' /\ QueueType' /\ Has(queue, Nils)' = Has(queue, Nils)
  BY <1>3, TasksSame, Parts DEF QueueType
<1>6. \A g \in Fds :
        /\ Holds(g) <=> g = f
        /\ ~Trying(g) /\ ~Trying(g)' /\ ~Trier(g) /\ ~Trier(g)'
        /\ doing # Task("establish", g)
  BY <1>1, <1>2, <1>3, <1>4, TaskTypes DEF Holds, Trying, Trier
<1>7. f \notin given /\ sock[f] # "free"
  BY <1>6, Parts DEF SocksOK
<1>8. active = {}
  BY <1>1, TaskTypes, Parts DEF LoopOK
<1>9. LoopOK'
  BY <1>3, <1>5, <1>8, Parts DEF LoopOK
<1>10. ~Due'
  BY <1>3, <1>4 DEF Due
<1>11. /\ doing' \in Tasks /\ doing'.op \in {"establish", "nothing"}
       /\ doing'.op = "establish" => doing' = Task("establish", f)
       /\ \A g \in Fds : ~Holds(g)' /\ (doing' = Task("establish", g) => g = f)
  BY <1>3, TaskTypes DEF Holds
<1>12. cli' \in CliType /\ cli'.conn \in {f, None} /\ cli'.connect = cli.connect
       /\ (doing'.op = "establish" => cli'.conn = f) /\ (doing'.op # "establish" => cli' = cli)
  BY <1>3, <1>4, <1>11, Types, TaskTypes DEF CliType
<1>13. /\ conns' \in [Fds -> ConnType]
       /\ \A g \in Fds \ {f} : conns'[g] = conns[g]
       /\ doing'.op = "establish" => conns'[f].state = "Connecting"
       /\ doing'.op # "establish" => conns'[f] = conns[f]
  <2>1. conns \in [Fds -> ConnType]
    BY Parts DEF TypeOK, ConnType
  <2>2. CASE conns' = conns /\ doing' = Nothing
    BY <2>1, <2>2, TaskTypes
  <2>3. CASE conns' = [conns EXCEPT ![f].state = "Connecting"] /\ doing' = Task("establish", f)
    BY <2>1, <2>3, TaskTypes DEF ConnType, ConnStates
  <2> QED BY <1>3, <2>2, <2>3
<1>14. TypeOK'
  <2>1. afterStop' \in Nat
    BY <1>3, <1>4
  <2>2. given' \subseteq Fds
    BY <1>3, Parts DEF TypeOK
  <2> QED BY <1>3, <1>5, <1>11, <1>12, <1>13, <2>1, <2>2, Types, TypesTo, Parts
             DEF TypeOK, ConnectorTypeOK, ConnType, CliType
<1>15. AttemptOK'
  BY <1>3, <1>4, <1>5, <1>10, <1>11, <1>12 DEF AttemptOK, Attempt, KeysKept
<1>16. NilOK'
  BY <1>3, <1>4, <1>5, <1>8, <1>11 DEF NilOK, KeysKept
<1>17. StopOK'
  <2>1. stopped' \/ user' \notin {"idle", "connect", "start"} => ~cli'.connect
    BY <1>12, Parts DEF StopOK
  <2>2. afterStop' \in {0, 1} /\ (afterStop' = 1 => stopped')
    BY <1>3, <1>4
  <2>3. user' # "shutdown"
    BY <1>3, <1>4, Types, Parts DEF StopOK
  <2> QED BY <1>3, <1>4, <1>5, <1>10, <1>11, <2>1, <2>2, <2>3 DEF StopOK, KeysKept
<1>18. SocksOK'
  BY <1>3, <1>4, <1>6, <1>7, <1>11, Parts DEF SocksOK
<1>19. ASSUME NEW g \in Fds PROVE FdOK(g)'
  <2>1. SameFd(g)
    BY <1>3, <1>6 DEF SameFd
  <2> QED BY <2>1, Parts, FdFrame
<1>20. ASSUME NEW g \in Fds PROVE ConnOK(g)'
  <2>1. CASE g # f \/ doing'.op # "establish"
    <3>1. conns'[g] = conns[g] /\ cli.conn # g /\ cli'.conn # g
      BY <1>4, <1>12, <1>13, <2>1, Types
    <3>2. doing' # Task("establish", g)
      BY <1>11, <2>1, TaskTypes
    <3>3. SameConn(g)
      BY <1>3, <1>5, <1>6, <3>1, <3>2 DEF SameConn, KeysKept
    <3> QED BY <3>3, Parts, ConnFrame
  <2>2. CASE g = f /\ doing'.op = "establish"
    <3>1. io.chan[<<"conn", f>>].index = "new" /\ ~Queued(Destroys(f))
      BY <1>7, NotGiven
    <3> QED BY <1>3, <1>5, <1>11, <1>12, <1>13, <2>2, <3>1 DEF ConnOK, KeysKept
  <2> QED BY <2>1, <2>2
<1> QED BY <1>3, <1>5, <1>9, <1>14, <1>15, <1>16, <1>17, <1>18, <1>19, <1>20, Parts DEF ClientInv

\* connectEstablished.
LEMMA EstablishedKeeps ==
  ASSUME ClientInv, connectEstablished, UNCHANGED <<engineVars, userVars>>
  PROVE  ClientInv'
<1> USE DEF userVars, taskVars
<1>1. /\ doing.op = "establish" /\ doing \in Tasks /\ doing = Task("establish", doing.arg)
      /\ doing.arg \in Fds
  BY Parts, Kinds DEF connectEstablished, Entered
<1>2. PICK f \in Fds : f = doing.arg
  BY <1>1
<1> DEFINE ch == <<"conn", f>>
           r  == [ch |-> ch, events |-> {EventRead}]
           h  == [events |-> {EventRead}, index |-> "add"]
<1>3. /\ UNCHANGED <<lpc, active, queue, batch, sock, c, armed, gaveUp, cli, given, afterStop>>
      /\ doing' = Nothing
      /\ io' = enableReading(Assert(io, conns[f].state = "Connecting"), L, f, ch)
      /\ conns' = [conns EXCEPT ![f].state = "Connected"]
  BY <1>2 DEF connectEstablished
<1>4. /\ conns[f].state = "Connecting" /\ io.chan[ch].index = "new" /\ ~Queued(Destroys(f))
      /\ cli.conn = f /\ f \in given
  BY <1>1, <1>2, Parts DEF ConnOK
<1>5. /\ ~Queued(Starts) /\ ~Queued(Adds) /\ armed = {} /\ ~Due /\ c.state # "Connecting"
      /\ user \notin {"connect", "start"}
  BY <1>1, <1>4, Types, Parts DEF AttemptOK, Attempt
<1>6. KeysKept /\ QueueOK' /\ QueueType' /\ Has(queue, Nils)' = Has(queue, Nils)
  BY <1>3, TasksSame, Parts DEF QueueType
<1>7. Effect(io, io', f, ch, ch, r, h)
  <2>1. Assert(io, conns[f].state = "Connecting") = io
    BY <1>4, Parts, AssertHolds
  <2>2. ~Trying(f)
    BY <1>5 DEF Trying
  <2>3. /\ io.map[L][f] = None /\ io.reg[L][f] = NoReg /\ io.chan[ch].events = {}
    BY <1>4, <2>2, Parts DEF FdOK
  <2>4. io.chan[ch] = [events |-> {}, index |-> "new"] /\ ch \in Channels
    <3>1. io.chan[ch] \in [events : SUBSET {EventRead, EventWrite}, index : {"new", "add", "del"}]
      BY Names, Parts DEF IoType
    <3> QED BY <1>4, <2>3, <3>1, Names
  <2>5. io' = setEvents(io, L, f, ch, {EventRead})
    BY <1>3, <2>1, <2>3 DEF enableReading
  <2>6. {EventRead} \in {{EventRead}, {EventWrite}}
    OBVIOUS
  <2> HIDE DEF ch
  <2> QED BY <2>3, <2>4, <2>5, <2>6, Parts, Watched
<1>8. IoOthers(f) /\ io'.chan[<<"connector", f>>] = io.chan[<<"connector", f>>]
      /\ io' \in IoType /\ io'.ok
  BY <1>7, EffectOthers, Parts DEF Effect
<1>9. doing' \in Tasks /\ doing'.op = "nothing"
  BY <1>3, TaskTypes
<1>10. /\ conns' \in [Fds -> ConnType] /\ conns'[f].state = "Connected"
       /\ \A g \in Fds \ {f} : conns'[g] = conns[g]
  BY <1>3, Types DEF ConnType, ConnStates
<1>11. TypeOK'
  BY <1>3, <1>6, <1>8, <1>9, <1>10, Types, TypesTo, Parts DEF TypeOK, ConnectorTypeOK, ConnType
<1>12. active = {}
  BY <1>1, TaskTypes, Parts DEF LoopOK
<1>13. LoopOK'
  BY <1>3, <1>6, <1>12, Parts DEF LoopOK
<1>14. ~Due'
  BY <1>3, <1>5 DEF Due
<1>15. AttemptOK'
  BY <1>3, <1>5, <1>6, <1>9, <1>14 DEF AttemptOK, Attempt, KeysKept
<1>16. NilOK'
  BY <1>3, <1>5, <1>6, <1>9, <1>12 DEF NilOK, KeysKept
<1>17. StopOK'
  <2>1. user' # "shutdown"
    BY <1>4, Parts DEF StopOK
  <2> QED BY <1>3, <1>5, <1>6, <1>9, <1>14, <2>1, Parts DEF StopOK, KeysKept
<1>18. \A g \in Fds :
        /\ ~Trying(g) /\ ~Trying(g)' /\ ~Trier(g) /\ ~Trier(g)' /\ ~Holds(g) /\ ~Holds(g)'
        /\ doing = Task("establish", g) <=> g = f
        /\ doing' # Task("establish", g)
  BY <1>1, <1>2, <1>3, <1>5, <1>9, TaskTypes DEF Trying, Trier, Holds
<1>19. SocksOK'
  BY <1>3, <1>5, <1>18, Parts DEF SocksOK
<1>20. ASSUME NEW g \in Fds PROVE FdOK(g)' /\ ConnOK(g)'
  <2>1. CASE g # f
    <3>1. SameFd(g)
      BY <1>8, <1>18, <2>1 DEF SameFd, IoOthers
    <3>2. SameConn(g)
      BY <1>3, <1>4, <1>6, <1>8, <1>10, <1>18, <2>1 DEF SameConn, KeysKept, IoOthers
    <3> QED BY <3>1, <3>2, Parts, FdFrame, ConnFrame
  <2>2. CASE g = f
    <3>1. io'.chan[ch] = h /\ io'.map[L][f] = ch /\ io'.reg[L][f] = r
      BY <1>7 DEF Effect
    <3>2. FdOK(f)
      BY Parts
    <3>3. FdOK(f)'
      BY <1>8, <1>18, <3>1, <3>2 DEF FdOK
    <3>4. ConnOK(f)'
      BY <1>3, <1>4, <1>6, <1>9, <1>10, <1>18, <3>1 DEF ConnOK, KeysKept, Entered
    <3> QED BY <2>2, <3>3, <3>4
  <2> QED BY <2>1, <2>2
<1> QED BY <1>6, <1>8, <1>11, <1>13, <1>15, <1>16, <1>17, <1>19, <1>20 DEF ClientInv

\* The connection whose event the loop holds.
LEMMA ConnWatched ==
  ASSUME ClientInv, NEW e \in active, NEW f \in Fds, e.ch = <<"conn", f>>
  PROVE  /\ io.chan[<<"conn", f>>].index = "add" /\ cli.conn = f /\ ~Queued(Destroys(f))
         /\ conns[f].state \in {"Connected", "Disconnecting"} /\ f \in given
         /\ io.map[L][f] = <<"conn", f>> /\ io.reg[L][f] # NoReg
         /\ ~Queued(Nils) /\ ~Queued(Starts) /\ ~Queued(Adds) /\ armed = {} /\ ~Due
         /\ c.state # "Connecting" /\ user \notin {"connect", "start"}
<1>1. e.ch # None
  BY Names
<1>2. e.timer = 0
  BY <1>1, Parts DEF LoopOK
<1>3. io.chan[<<"conn", f>>].index = "add"
  <2>1. PICK g \in Fds :
           \/ e.ch = <<"connector", g>> /\ c.state = "Connecting" /\ c.ch = e.ch
           \/ e.ch = <<"conn", g>> /\ io.chan[e.ch].index = "add"
    BY <1>2, Parts DEF LoopOK
  <2> QED BY <2>1, Names
<1>4. /\ cli.conn = f /\ ~Queued(Destroys(f)) /\ f \in given
      /\ conns[f].state \in {"Connected", "Disconnecting"}
  BY <1>3, Parts DEF ConnOK
<1>5. cli.conn # None
  BY <1>4, ClientAssumption
<1>6. /\ ~Queued(Starts) /\ ~Queued(Adds) /\ armed = {} /\ ~Due
      /\ c.state # "Connecting" /\ user \notin {"connect", "start"}
  BY <1>5, Parts DEF AttemptOK, Attempt
<1>7. ~Trying(f)
  BY <1>6 DEF Trying
<1>8. io.map[L][f] = <<"conn", f>> /\ io.reg[L][f] = [ch |-> <<"conn", f>>, events |-> {EventRead}]
  BY <1>3, <1>7, Parts DEF FdOK
<1>9. io.reg[L][f] # NoReg
  BY <1>8, Names
<1>10. ~Queued(Nils)
  BY Parts DEF NilOK
<1> QED BY <1>3, <1>4, <1>6, <1>8, <1>9, <1>10

\* handleClose with onClose: removeConn, or the callback Destroy has left.
LEMMA HandleConnKeeps ==
  ASSUME ClientInv, NEW e \in active, HandleConn(e), UNCHANGED <<engineVars, userVars>>
  PROVE  ClientInv'
<1> USE DEF userVars, taskVars
<1>1. /\ lpc = "events" /\ doing.op = "nothing" /\ active' = active \ {e}
      /\ e.ch \in {"conn"} \X Fds
  BY DEF HandleConn, Handles, Entered
<1>2. active' = {}
  BY <1>1, Parts DEF LoopOK
<1>3. PICK f \in Fds : e.ch = <<"conn", f>>
  BY <1>1
<1>4. <<"conn", f>>[2] = f
  OBVIOUS
<1> DEFINE ch == <<"conn", f>>
           h  == [events |-> {}, index |-> "del"]
           x  == Task("connectDestroyed", f)
<1>5. /\ io.chan[ch].index = "add" /\ cli.conn = f /\ ~Queued(Destroys(f))
      /\ conns[f].state \in {"Connected", "Disconnecting"} /\ f \in given
      /\ io.map[L][f] = ch /\ io.reg[L][f] # NoReg
      /\ ~Queued(Nils) /\ ~Queued(Starts) /\ ~Queued(Adds) /\ armed = {} /\ ~Due
      /\ c.state # "Connecting" /\ user \notin {"connect", "start"}
  BY <1>3, ConnWatched
<1>6. /\ UNCHANGED <<lpc, batch, sock, c, armed, gaveUp, conns, given, afterStop>>
      /\ io' = disableAll(io, L, f, ch) /\ Push(x)
      /\ \/ /\ conns[f].onClose = "removeConn" /\ user # "shutdown"
            /\ cli' = [cli EXCEPT !.conn = None]
            /\ (doing' = Task("restart", 0) /\ cli.connect) \/ doing' = Nothing
         \/ conns[f].onClose # "removeConn" /\ cli' = cli /\ doing' = doing
  BY <1>3, <1>4 DEF HandleConn, removeConn, Unlocked, MayRestart
<1>7. Effect(io, io', f, ch, ch, NoReg, h)
  <2>1. ch \in Channels
    BY Names
  <2> HIDE DEF ch
  <2> QED BY <1>5, <1>6, <2>1, Parts, Unwatched
<1>8. IoOthers(f) /\ io'.chan[<<"connector", f>>] = io.chan[<<"connector", f>>]
      /\ io' \in IoType /\ io'.ok
  BY <1>7, EffectOthers, Parts DEF Effect
<1>9. x \in Tasks /\ x.op = "connectDestroyed" /\ x.arg = f
  BY TaskTypes
<1>10. /\ QueueType' /\ QueueOK'
       /\ ~Queued(Starts)' /\ ~Queued(Adds)' /\ ~Queued(Nils)' /\ Queued(Destroys(f))'
       /\ \A g \in Fds \ {f} : Queued(Destroys(g))' <=> Queued(Destroys(g))
  <2> HIDE DEF x
  <2> QED BY <1>5, <1>6, <1>9, Parts, Pushed, PushedOK
<1>11. /\ doing' \in Tasks /\ doing'.op \in {"nothing", "restart"}
       /\ doing'.op = "restart" => cli.connect /\ cli'.conn = None
       /\ \A g \in Fds : doing # Task("establish", g) /\ doing' # Task("establish", g)
  <2>1. cli' = [cli EXCEPT !.conn = None] => cli'.conn = None
    BY Types
  <2>2. doing \in Tasks
    BY Parts
  <2> QED BY <1>1, <1>6, <2>1, <2>2, TaskTypes
<1>12. /\ cli' \in CliType /\ cli'.connect = cli.connect
       /\ \/ cli'.conn = None /\ user # "shutdown"
          \/ cli'.conn = f /\ cli' = cli /\ conns[f].onClose = "destroyed"
  <2>1. conns[f].onClose \in {"removeConn", "destroyed"}
    BY Types
  <2>2. cli \in CliType
    BY Types DEF CliType
  <2>3. CASE cli' = cli /\ conns[f].onClose # "removeConn"
    BY <1>5, <2>1, <2>2, <2>3
  <2>4. CASE cli' = [cli EXCEPT !.conn = None] /\ user # "shutdown"
    <3>1. [cli EXCEPT !.conn = None] \in CliType
      BY <2>2 DEF CliType
    <3>2. [cli EXCEPT !.conn = None].conn = None /\ [cli EXCEPT !.conn = None].connect = cli.connect
      BY <2>2 DEF CliType
    <3> QED BY <2>4, <3>1, <3>2
  <2> QED BY <1>6, <2>3, <2>4
<1>13. TypeOK'
  BY <1>2, <1>6, <1>8, <1>10, <1>11, <1>12, Types, TypesTo, Parts
     DEF TypeOK, ConnectorTypeOK, CliType
<1>14. LoopOK'
  BY <1>1, <1>2, <1>6, Parts DEF LoopOK
<1>15. ~Due'
  BY <1>2 DEF Due
<1>16. AttemptOK'
  BY <1>5, <1>6, <1>10, <1>11, <1>15 DEF AttemptOK, Attempt
<1>17. NilOK'
  BY <1>10 DEF NilOK
<1>18. StopOK'
  <2>1. stopped' \/ user' \notin {"idle", "connect", "start"} => ~cli'.connect
    BY <1>12, Parts DEF StopOK
  <2>2. afterStop' \in {0, 1} /\ (afterStop' = 1 => stopped' /\ doing'.op = "nothing")
    BY <1>6, <1>11, Parts DEF StopOK
  <2>3. user' = "shutdown" => cli'.conn = f /\ conns'[f].state \notin {"none", "Connecting"}
    BY <1>5, <1>6, <1>12
  <2> QED BY <1>5, <1>6, <1>10, <1>15, <2>1, <2>2, <2>3 DEF StopOK
<1>19. \A g \in Fds : ~Trying(g) /\ ~Trying(g)' /\ ~Trier(g) /\ ~Trier(g)' /\ ~Holds(g) /\ ~Holds(g)'
  BY <1>1, <1>5, <1>6, <1>11, TaskTypes DEF Trying, Trier, Holds
<1>20. SocksOK'
  BY <1>5, <1>6, <1>19, Parts DEF SocksOK
<1>21. ASSUME NEW g \in Fds PROVE FdOK(g)' /\ ConnOK(g)'
  <2>1. CASE g # f
    <3>1. SameFd(g)
      BY <1>8, <1>19, <2>1 DEF SameFd, IoOthers
    <3>2. cli.conn # g /\ cli'.conn # g
      BY <1>5, <1>12, <2>1, ClientAssumption
    <3>3. SameConn(g)
      BY <1>6, <1>8, <1>10, <1>11, <2>1, <3>2 DEF SameConn, IoOthers
    <3> QED BY <3>1, <3>3, Parts, FdFrame, ConnFrame
  <2>2. CASE g = f
    <3>1. io'.chan[ch] = h /\ io'.map[L][f] = ch /\ io'.reg[L][f] = NoReg
      BY <1>7 DEF Effect
    <3>2. FdOK(f)
      BY Parts
    <3>3. FdOK(f)'
      BY <1>8, <1>19, <3>1, <3>2 DEF FdOK
    <3>4. cli'.conn = f => conns'[f].onClose = "destroyed"
      BY <1>6, <1>12, ClientAssumption
    <3>5. ConnOK(f)'
      BY <1>5, <1>6, <1>10, <1>11, <3>1, <3>4 DEF ConnOK
    <3> QED BY <2>2, <3>3, <3>5
  <2> QED BY <2>1, <2>2
<1> QED BY <1>8, <1>10, <1>13, <1>14, <1>16, <1>17, <1>18, <1>20, <1>21 DEF ClientInv

\* connectDestroyed.
LEMMA DestroyedKeeps ==
  ASSUME ClientInv, connectDestroyed, UNCHANGED <<engineVars, userVars>>
  PROVE  ClientInv'
<1> USE DEF userVars, taskVars
<1>1. /\ Runs("connectDestroyed")
      /\ UNCHANGED <<lpc, active, queue, doing, sock, c, armed, gaveUp, cli, given, afterStop>>
  BY DEF connectDestroyed
<1>2. /\ QueueType' /\ QueueOK' /\ Head(batch) \in Tasks /\ Head(batch).op = "connectDestroyed"
      /\ lpc = "tasks" /\ doing.op = "nothing"
      /\ Queued(Starts)' <=> Queued(Starts)
      /\ Queued(Adds)' <=> Queued(Adds)
      /\ Queued(Nils)' <=> Queued(Nils)
      /\ \A g \in Fds : Queued(Destroys(g))' <=> Queued(Destroys(g)) /\ Head(batch).arg # g
      /\ \A g \in Fds : Head(batch).arg = g => Queued(Destroys(g))
  BY <1>1, Parts, TaskTaken
<1>3. PICK f \in Fds : f = Head(batch).arg
  BY <1>2, Kinds
<1> DEFINE ch == <<"conn", f>>
           h  == [events |-> {}, index |-> "new"]
<1>4. /\ io.chan[ch].index = "del" /\ conns[f].state \in {"Connected", "Disconnecting"}
      /\ cli.conn = f => conns[f].onClose = "destroyed"
      /\ f \in given /\ Queued(Destroys(f)) /\ ~Queued(Destroys(f))'
  BY <1>2, <1>3, Parts DEF ConnOK
<1>5. ~Trying(f)
  BY <1>4, Parts DEF FdOK
<1>6. /\ io' = removeChannel(disableAll(io, L, f, ch), L, f, ch)
      /\ conns' = [conns EXCEPT ![f].state = "Disconnected"]
  <2>1. Assert(io, conns[f].state \in {"Connected", "Disconnecting"}) = io
    BY <1>4, Parts, AssertHolds
  <2> QED BY <1>3, <2>1 DEF connectDestroyed
<1>7. Effect(io, io', f, ch, None, NoReg, h)
  <2>1. ch \in Channels /\ io.map[L][f] = ch /\ io.reg[L][f] = NoReg
    BY <1>4, <1>5, Names, Parts DEF FdOK
  <2> HIDE DEF ch
  <2> QED BY <1>4, <1>6, <2>1, Parts, Forgotten
<1>8. IoOthers(f) /\ io'.chan[<<"connector", f>>] = io.chan[<<"connector", f>>]
      /\ io' \in IoType /\ io'.ok
  BY <1>7, EffectOthers, Parts DEF Effect
<1>9. /\ conns' \in [Fds -> ConnType] /\ conns'[f].state = "Disconnected"
      /\ conns'[f].onClose = conns[f].onClose
      /\ \A g \in Fds \ {f} : conns'[g] = conns[g]
  BY <1>6, Types DEF ConnType, ConnStates
<1>10. TypeOK'
  BY <1>1, <1>2, <1>8, <1>9, Types, TypesTo, Parts DEF TypeOK, ConnectorTypeOK, ConnType
<1>11. active = {} /\ ~Has(queue, Nils)
  BY <1>2, Parts DEF LoopOK
<1>12. LoopOK'
  BY <1>1, <1>2, <1>11 DEF LoopOK
<1>13. Due' <=> Due
  BY <1>1 DEF Due
<1>14. AttemptOK'
  BY <1>1, <1>2, <1>13, Parts DEF AttemptOK, Attempt
<1>15. NilOK'
  BY <1>1, <1>2, Parts DEF NilOK, Entered
<1>16. StopOK'
  <2>1. user' = "shutdown" =>
          \E g \in Fds : cli'.conn = g /\ conns'[g].state \notin {"none", "Connecting"}
    BY <1>1, <1>9, Parts DEF StopOK
  <2> QED BY <1>1, <1>2, <1>13, <2>1, Parts DEF StopOK
<1>17. \A g \in Fds : (Trying(g)' <=> Trying(g)) /\ (Trier(g)' <=> Trier(g)) /\ (Holds(g)' <=> Holds(g))
  BY <1>1 DEF Trying, Trier, Holds, Entered
<1>18. SocksOK'
  BY <1>1, <1>17, Parts DEF SocksOK, Entered
<1>19. ASSUME NEW g \in Fds PROVE FdOK(g)' /\ ConnOK(g)'
  <2>1. CASE g # f
    <3>1. SameFd(g)
      BY <1>8, <1>17, <2>1 DEF SameFd, IoOthers
    <3>2. SameConn(g)
      BY <1>1, <1>2, <1>3, <1>8, <1>9, <2>1 DEF SameConn, IoOthers, Entered
    <3> QED BY <3>1, <3>2, Parts, FdFrame, ConnFrame
  <2>2. CASE g = f
    <3>1. io'.chan[ch] = h /\ io'.map[L][f] = None /\ io'.reg[L][f] = NoReg
      BY <1>7 DEF Effect
    <3>2. FdOK(f)
      BY Parts
    <3>3. FdOK(f)'
      BY <1>5, <1>8, <1>17, <3>1, <3>2 DEF FdOK
    <3>4. doing' # Task("establish", f)
      BY <1>1, <1>2, TaskTypes
    <3>5. ConnOK(f)'
      BY <1>1, <1>4, <1>9, <3>1, <3>4 DEF ConnOK
    <3> QED BY <2>2, <3>3, <3>5
  <2> QED BY <2>1, <2>2
<1> QED BY <1>2, <1>8, <1>10, <1>12, <1>14, <1>15, <1>16, <1>18, <1>19 DEF ClientInv

-----------------------------------------------------------------------------
(* epoll_wait returns.                                                      *)

\* The event of a timer that has expired, and of a descriptor.
Expired(t)    == [ch |-> None, timer |-> t, revents |-> {}]
ReadyEvent(f) == [ch |-> io.reg[L][f].ch, timer |-> 0,
                  revents |-> Reported(io.reg[L][f].ch, io.reg[L][f].events)]

\* A descriptor that epoll watches is the attempt's or the connection's, so
\* there is one at most, and none while a timer waits.
LEMMA OneWatched ==
  ASSUME ClientInv, NEW f \in Fds, io.reg[L][f] # NoReg
  PROVE  /\ \/ io.reg[L][f].ch = <<"connector", f>> /\ c.state = "Connecting"
               /\ c.ch = <<"connector", f>>
            \/ io.reg[L][f].ch = <<"conn", f>> /\ io.chan[<<"conn", f>>].index = "add"
         /\ armed = {}
         /\ \A g \in Fds : io.reg[L][g] # NoReg => g = f
<1>1. ASSUME NEW g \in Fds, io.reg[L][g] # NoReg
      PROVE  \/ /\ io.reg[L][g].ch = <<"connector", g>> /\ c.state = "Connecting"
                /\ c.ch = <<"connector", g>>
             \/ /\ io.reg[L][g].ch = <<"conn", g>> /\ io.chan[<<"conn", g>>].index = "add"
                /\ cli.conn = g
  <2>1. CASE Trying(g)
    <3>1. io.reg[L][g] = [ch |-> <<"connector", g>>, events |-> {EventWrite}]
      BY <2>1, Parts DEF FdOK
    <3> QED BY <2>1, <3>1 DEF Trying
  <2>2. CASE ~Trying(g)
    <3>1. io.chan[<<"conn", g>>].index = "add"
      BY <1>1, <2>2, Parts DEF FdOK
    <3>2. io.reg[L][g] = [ch |-> <<"conn", g>>, events |-> {EventRead}]
      BY <2>2, <3>1, Parts DEF FdOK
    <3>3. cli.conn = g
      BY <3>1, Parts DEF ConnOK
    <3> QED BY <3>1, <3>2, <3>3
  <2> QED BY <2>1, <2>2
<1>2. c.state = "Connecting" => cli.conn = None /\ armed = {}
  BY Parts DEF AttemptOK, Attempt
<1>3. cli.conn # None => armed = {}
  BY Parts DEF AttemptOK, Attempt
<1>4. \A g \in Fds : g # None
  BY ClientAssumption
<1>5. armed = {}
  BY <1>1, <1>2, <1>3, <1>4
<1>6. ASSUME NEW g \in Fds, io.reg[L][g] # NoReg PROVE g = f
  BY <1>1, <1>2, <1>4, <1>6, Names
<1> QED BY <1>1, <1>5, <1>6

\* What epoll_wait may report.
LEMMA ReportedType ==
  ASSUME ClientInv, NEW f \in Fds, io.reg[L][f] # NoReg
  PROVE  ReadyEvent(f) \in [ch : Channels \cup {None}, timer : Timers \cup {0},
                            revents : SUBSET {"IN", "OUT", "ERR"}]
<1>1. io.reg[L][f] \in [ch : Channels \cup {None}, events : SUBSET {EventRead, EventWrite}]
  BY Parts DEF IoType
<1>2. Reported(io.reg[L][f].ch, io.reg[L][f].events) \in SUBSET {"IN", "OUT", "ERR"}
  BY <1>1 DEF Reported, EventRead, EventWrite
<1> QED BY <1>1, <1>2 DEF ReadyEvent

\* Poll.
LEMMA PollKeeps ==
  ASSUME ClientInv, Poll, UNCHANGED <<clientVars, engineVars, userVars>>
  PROVE  ClientInv'
<1> USE DEF clientVars, engineVars, userVars, taskVars
<1>1. PICK due \in SUBSET armed :
        /\ armed' = armed \ due
        /\ active' = {Expired(t) : t \in due} \cup
                     {e \in {ReadyEvent(f) : f \in {g \in Fds : io.reg[L][g] # NoReg}} :
                        e.revents # {}}
  BY DEF Poll, Expired, ReadyEvent
<1>2. /\ lpc = "poll" /\ doing.op = "nothing" /\ lpc' = "events"
      /\ UNCHANGED <<queue, batch, doing, io, sock, c, gaveUp>>
  BY DEF Poll, Entered
<1>3. ASSUME NEW e \in active'
      PROVE  \/ \E t \in due : e = Expired(t)
             \/ \E f \in Fds : io.reg[L][f] # NoReg /\ e = ReadyEvent(f)
  BY <1>1
<1>4. due \subseteq Timers /\ armed' \subseteq Timers
  BY <1>1, Parts DEF TypeOK, ConnectorTypeOK
<1>5. \A t \in Timers : /\ Expired(t).timer = t /\ t # 0 /\ Expired(t).ch = None
                        /\ Expired(t) \in [ch : Channels \cup {None}, timer : Timers \cup {0},
                                           revents : SUBSET {"IN", "OUT", "ERR"}]
  BY DEF Expired, Timers
<1>6. \A f : ReadyEvent(f).timer = 0 /\ ReadyEvent(f).ch = io.reg[L][f].ch
  BY DEF ReadyEvent
<1>7. KeysKept /\ QueueOK' /\ QueueType'
  BY <1>2, TasksSame, Parts DEF QueueType
<1>8. ~Queued(Nils)
  <2>1. batch = <<>> /\ ~Has(queue, Nils)
    BY <1>2, Parts DEF LoopOK
  <2>2. Todo = queue
    BY <2>1, Parts DEF Todo, QueueType
  <2> QED BY <2>1, <2>2 DEF Queued
<1>9. active' \subseteq [ch : Channels \cup {None}, timer : Timers \cup {0},
                         revents : SUBSET {"IN", "OUT", "ERR"}]
  BY <1>3, <1>4, <1>5, ReportedType
<1>10. TypeOK'
  BY <1>2, <1>4, <1>7, <1>9, Parts DEF TypeOK, ConnectorTypeOK, EngineTypeOK, QueueType
<1>11. Due' => due # {}
  BY <1>3, <1>6 DEF Due
<1>12. armed' # {} => armed # {} /\ due = {}
  BY <1>1, Parts DEF AttemptOK
<1>13. due # {} => armed # {}
  BY <1>1
<1>14. \A d, e \in active' : d = e
  <2> SUFFICES ASSUME NEW d \in active', NEW e \in active' PROVE d = e
    OBVIOUS
  <2>1. CASE armed = {}
    <3>1. due = {}
      BY <2>1
    <3>2. PICK f \in Fds : io.reg[L][f] # NoReg /\ d = ReadyEvent(f)
      BY <1>3, <3>1
    <3>3. PICK g \in Fds : io.reg[L][g] # NoReg /\ e = ReadyEvent(g)
      BY <1>3, <3>1
    <3>4. f = g
      BY <3>2, <3>3, OneWatched
    <3> QED BY <3>2, <3>3, <3>4
  <2>2. CASE armed # {}
    <3>1. \A f \in Fds : io.reg[L][f] = NoReg
      BY <2>2, OneWatched
    <3>2. PICK s \in due : d = Expired(s)
      BY <1>3, <3>1
    <3>3. PICK t \in due : e = Expired(t)
      BY <1>3, <3>1
    <3>4. s = t
      BY <3>2, <3>3, Parts DEF AttemptOK
    <3> QED BY <3>2, <3>3, <3>4
  <2> QED BY <2>1, <2>2
<1>15. LoopOK'
  <2>1. ASSUME NEW e \in active', e.timer # 0 PROVE e.ch = None
    BY <1>3, <1>4, <1>5, <1>6, <2>1
  <2>2. ASSUME NEW e \in active', e.timer = 0
        PROVE  \E f \in Fds :
                  \/ e.ch = <<"connector", f>> /\ c'.state = "Connecting" /\ c'.ch = e.ch
                  \/ e.ch = <<"conn", f>> /\ io'.chan[e.ch].index = "add"
    <3>1. PICK f \in Fds : io.reg[L][f] # NoReg /\ e = ReadyEvent(f)
      BY <1>3, <1>4, <1>5, <2>2
    <3>2. e.ch = io.reg[L][f].ch
      BY <1>6, <3>1
    <3> QED BY <1>2, <3>1, <3>2, OneWatched
  <2>3. batch' = <<>> /\ doing' = Nothing
    BY <1>2, Parts, Kinds DEF LoopOK
  <2> QED BY <1>2, <1>14, <2>1, <2>2, <2>3 DEF LoopOK
<1>16. AttemptOK'
  <2>1. \A s, t \in armed' : s = t
    BY <1>1, Parts DEF AttemptOK
  <2> QED BY <1>2, <1>7, <1>11, <1>12, <1>13, <2>1, Parts DEF AttemptOK, Attempt, KeysKept
<1>17. NilOK'
  BY <1>7, <1>8 DEF NilOK, KeysKept
<1>18. \A g \in Fds : (Trying(g)' <=> Trying(g)) /\ (Trier(g)' <=> Trier(g)) /\ (Holds(g)' <=> Holds(g))
  BY <1>2 DEF Trying, Trier, Holds, Entered
<1>19. SocksOK'
  BY <1>2, <1>18, Parts DEF SocksOK, Entered
<1>20. StopOK'
  BY <1>2, <1>7, <1>11, <1>12, <1>13, Parts DEF StopOK, KeysKept
<1>21. ASSUME NEW g \in Fds PROVE FdOK(g)' /\ ConnOK(g)'
  <2>1. SameFd(g)
    BY <1>2, <1>18 DEF SameFd
  <2>2. SameConn(g)
    BY <1>2, <1>7 DEF SameConn, KeysKept, Entered
  <2> QED BY <2>1, <2>2, Parts, FdFrame, ConnFrame
<1> QED BY <1>2, <1>7, <1>10, <1>15, <1>16, <1>17, <1>19, <1>20, <1>21, Parts DEF ClientInv

-----------------------------------------------------------------------------
(* The invariant and the theorems.                                          *)

\* The engine has just been made, and nobody has called the client.
LEMMA InitClientInv ==
  ASSUME Init
  PROVE  ClientInv
<1> USE DEF Init, ConnectorInit, EngineInit
<1>1. io = NewIo /\ io \in IoType /\ io.ok
  BY Names DEF NewIo, IoType, NoReg
<1>2. TypeOK
  <2>1. queue \in Seq(Tasks) /\ batch \in Seq(Tasks) /\ doing \in Tasks
    BY TaskTypes
  <2>2. calls \in 0..MaxCalls
    BY ClientAssumption
  <2>3. /\ c \in CType /\ sock \in [Fds -> SockStates]
        /\ cli \in CliType /\ conns \in [Fds -> ConnType]
    <3>1. c \in CType
      BY DEF CType
    <3>2. sock \in [Fds -> SockStates]
      BY DEF SockStates
    <3>3. PICK r \in BOOLEAN : cli = [connect |-> TRUE, conn |-> None, retry |-> r]
      OBVIOUS
    <3>4. cli \in CliType
      BY <3>3 DEF CliType
    <3>5. conns \in [Fds -> ConnType]
      BY DEF ConnType, ConnStates
    <3> QED BY <3>1, <3>2, <3>4, <3>5
  <2> QED BY <1>1, <2>1, <2>2, <2>3
          DEF TypeOK, ConnectorTypeOK, EngineTypeOK, CType, SockStates, CliType, ConnType
<1>3. \A S : ~Has(queue, S) /\ ~Queued(S)
  BY DEF Has, Queued, Todo
<1>4. doing.op = "nothing" /\ c.state = "Disconnected" /\ cli.conn = None
  BY TaskTypes
<1>5. LoopOK
  BY <1>3 DEF LoopOK
<1>6. QueueOK
  BY DEF QueueOK, Once, Before, Todo
<1>7. ~Due
  BY DEF Due
<1>8. AttemptOK /\ NilOK /\ StopOK
  BY <1>3, <1>4, <1>7 DEF AttemptOK, Attempt, NilOK, StopOK
<1>9. SocksOK
  BY <1>4, TaskTypes DEF SocksOK, Holds, Trier, Entered
<1>10. ASSUME NEW f \in Fds PROVE FdOK(f) /\ ConnOK(f)
  <2>1. /\ io.chan[<<"connector", f>>] = [events |-> {}, index |-> "new"]
        /\ io.chan[<<"conn", f>>] = [events |-> {}, index |-> "new"]
        /\ io.map[L][f] = None /\ io.reg[L][f] = NoReg
    BY <1>1, Names DEF NewIo
  <2>2. ~Trying(f)
    BY <1>4 DEF Trying
  <2>3. conns[f].state = "none" /\ cli.conn # f /\ doing # Task("establish", f)
    BY <1>4, TaskTypes, ClientAssumption
  <2> QED BY <1>3, <2>1, <2>2, <2>3 DEF FdOK, ConnOK
<1> QED BY <1>1, <1>2, <1>5, <1>6, <1>8, <1>9, <1>10 DEF ClientInv

\* A step of the loop.
LEMMA LoopStepKeeps ==
  ASSUME ClientInv, LoopStep
  PROVE  ClientInv'
<1>1. UNCHANGED <<engineVars, userVars>>
  BY DEF LoopStep
<1>2. CASE UNCHANGED clientVars /\ (LoopEntered \/ Round)
  BY <1>1, <1>2, LoopMovesKeep, TakePendingKeeps, PollKeeps DEF Round
<1>3. CASE UNCHANGED clientVars /\ (start \/ retry \/ schedule \/ restart)
  BY <1>1, <1>3, StartKeeps, RetryKeeps, ScheduleKeeps, RestartKeeps
<1>4. CASE UNCHANGED clientVars /\ \E e \in active : HandleConnector(e) \/ HandleTimer(e)
  BY <1>1, <1>4, HandleConnectorKeeps, HandleTimerKeeps
<1>5. CASE UNCHANGED clientVars /\ (RunStart \/ RunChNil \/ RunTimerTask)
  BY <1>1, <1>5, RunStartKeeps, RunChNilKeeps, RunAddTaskKeeps, RunCancelKeeps DEF RunTimerTask
<1>6. CASE newConn \/ connectEstablished \/ connectDestroyed \/ RunClientTask
  BY <1>1, <1>6, NewConnKeeps, EstablishedKeeps, DestroyedKeeps, RunClientTaskKeeps
<1>7. CASE \E e \in active : HandleConn(e)
  BY <1>1, <1>7, HandleConnKeeps
<1> QED BY <1>2, <1>3, <1>4, <1>5, <1>6, <1>7 DEF LoopStep, ConnectorStep

\* A step of the user's goroutine.
LEMMA UserStepKeeps ==
  ASSUME ClientInv, ~Careless, UserCalls \/ UserStep
  PROVE  ClientInv'
<1>1. CASE UserCalls
  BY <1>1, ConnectKeeps, CallsKeep DEF UserCalls
<1>2. CASE UserStep
  BY <1>2, SetConnectKeeps, PushStartKeeps, CancelTimerKeeps, ShutdownCheckKeeps,
     ShutdownStoreKeeps, DestroyConnKeeps DEF UserStep
<1> QED BY <1>1, <1>2

\* Nothing happens.
LEMMA StutterKeeps ==
  ASSUME ClientInv, UNCHANGED vars
  PROVE  ClientInv'
<1>1. UNCHANGED <<connectorVars, clientVars, userVars, engineVars>>
  BY DEF vars
<1>2. TypeOK'
  BY <1>1, Parts DEF TypeOK, ConnectorTypeOK, EngineTypeOK, connectorVars, taskVars,
                     clientVars, userVars, engineVars
<1>3. KeysKept /\ QueueOK' /\ (Has(queue, Nils)' => Has(queue, Nils))
  BY <1>1, TasksSame, Parts DEF connectorVars, taskVars
<1>4. Calm
  BY <1>1, <1>3, UserStays, LoopStays DEF Calm, connectorVars, taskVars, clientVars, userVars
<1> QED BY <1>2, <1>3, <1>4, CalmStep

\* Every step keeps the invariant.
LEMMA NextClientInv ==
  ASSUME ClientInv, ~Careless, [Next]_vars
  PROVE  ClientInv'
BY LoopStepKeeps, UserStepKeeps, EngineKeeps, KernelKeeps, StutterKeeps
   DEF Next, CallerStep, RunStep

\* A client whose user waits for quiet before it calls Connect again has one
\* attempt at a time, its channels and sockets are where the attempt and the
\* connection say, and c.ch = nil is over before the next attempt begins.
THEOREM ClientInvariant ==
  ASSUME ~Careless
  PROVE  Spec => []ClientInv
<1>1. Init => ClientInv
  BY InitClientInv
<1>2. ClientInv /\ [Next]_vars => ClientInv'
  BY NextClientInv
<1> QED BY <1>1, <1>2, PTL DEF Spec

\* The variables of Connector, TcpClient, its connections, the engine and the
\* user have their types.
THEOREM ClientTypeCorrect ==
  ASSUME ~Careless
  PROVE  Spec => []TypeOK
<1>1. ClientInv => TypeOK
  BY DEF ClientInv
<1> QED BY <1>1, ClientInvariant, PTL

\* No util.Assert of the poller or the connection fails and no nil c.ch is used.
THEOREM ClientAssertionsHold ==
  ASSUME ~Careless
  PROVE  Spec => []NoAssertFails
<1>1. ClientInv => NoAssertFails
  BY DEF ClientInv, NoAssertFails
<1> QED BY <1>1, ClientInvariant, PTL

\* A connector channel that epoll watches is the one of the attempt.
THEOREM OneAttemptAtATime ==
  ASSUME ~Careless
  PROVE  Spec => []OneAttempt
<1>1. ClientInv => OneAttempt
  <2> SUFFICES ASSUME ClientInv, NEW f \in Fds, io.reg[L][f].ch = <<"connector", f>>
               PROVE  c.state = "Connecting" /\ c.ch = <<"connector", f>>
    BY DEF OneAttempt
  <2>1. io.reg[L][f] # NoReg
    BY Names DEF NoReg
  <2> QED BY <2>1, OneWatched, Names
<1> QED BY <1>1, ClientInvariant, PTL

\* Connector leaks no socket.
THEOREM NoSocketLeaks ==
  ASSUME ~Careless
  PROVE  Spec => []SocketsAccounted
<1>1. ClientInv => SocketsAccounted
  BY Parts DEF SocketsAccounted, SocksOK, Holds, Trier
<1> QED BY <1>1, ClientInvariant, PTL

\* A client that is stopped makes one more connection at most.
THEOREM OneConnAfterStop ==
  ASSUME ~Careless
  PROVE  Spec => []AtMostOneAfterStop
<1>1. ClientInv => AtMostOneAfterStop
  BY Parts DEF AtMostOneAfterStop, StopOK
<1> QED BY <1>1, ClientInvariant, PTL

\* GetConn returns no connection that connectDestroyed is through with, unless
\* Destroy has replaced its onClose.
THEOREM ConnStaysAlive ==
  ASSUME ~Careless
  PROVE  Spec => []ConnIsAlive
<1>1. ClientInv => ConnIsAlive
  <2> SUFFICES ASSUME ClientInv, cli.conn # None, conns[cli.conn].onClose = "removeConn"
               PROVE  conns[cli.conn].state # "Disconnected"
    BY DEF ConnIsAlive
  <2>1. PICK f \in Fds : cli.conn = f
    BY Types
  <2>2. ConnOK(f)
    BY Parts
  <2> QED BY <2>1, <2>2 DEF ConnOK
<1> QED BY <1>1, ClientInvariant, PTL

=============================================================================
