--------------------------- MODULE TcpServerProofs ---------------------------
(***************************************************************************)
(* Proofs about TcpServer, for every number of loops, connections and      *)
(* calls: a connection is established, removed and destroyed once each, on *)
(* the right loops, whatever the loops, the users and the peers do in      *)
(* between, and its number is never mistaken for another's.                *)
(***************************************************************************)
EXTENDS TcpServer, SequenceTheorems, TLAPS

-----------------------------------------------------------------------------
(* Queues.                                                                  *)

\* What is in a queue after a push.
LEMMA HasAppend ==
  ASSUME NEW S, NEW s \in Seq(S), NEW x \in S, NEW t
  PROVE  /\ Has(Append(s, x), t) <=> Has(s, t) \/ x = t
         /\ Once(s, t) /\ (x = t => ~Has(s, t)) => Once(Append(s, x), t)
<1>1. /\ DOMAIN s = 1..Len(s) /\ Len(s) \in Nat
      /\ DOMAIN Append(s, x) = 1..(Len(s) + 1)
      /\ \A i \in DOMAIN s : Append(s, x)[i] = s[i]
      /\ Append(s, x)[Len(s) + 1] = x
  BY AppendProperties
<1>2. DOMAIN Append(s, x) = DOMAIN s \cup {Len(s) + 1}
  BY <1>1
<1> QED BY <1>1, <1>2 DEF Has, Once

\* What is in a queue after its first task was taken.
LEMMA HasTail ==
  ASSUME NEW S, NEW s \in Seq(S), s # <<>>, NEW t
  PROVE  /\ Head(s) = t => Has(s, t)
         /\ Head(s) # t => (Has(Tail(s), t) <=> Has(s, t))
         /\ Once(s, t) => Once(Tail(s), t)
         /\ Once(s, t) /\ Head(s) = t => ~Has(Tail(s), t)
<1>1. /\ DOMAIN s = 1..Len(s) /\ Len(s) \in Nat \ {0}
      /\ Head(s) = s[1]
      /\ DOMAIN Tail(s) = 1..(Len(s) - 1)
      /\ \A i \in 1..(Len(s) - 1) : Tail(s)[i] = s[i + 1]
  BY HeadTailProperties
<1>2. 1 \in DOMAIN s
  BY <1>1
<1>3. \A i \in DOMAIN s : i = 1 \/ (i - 1 \in DOMAIN Tail(s) /\ Tail(s)[i - 1] = s[i])
  BY <1>1
<1>4. \A i \in DOMAIN Tail(s) : i + 1 \in DOMAIN s /\ i + 1 # 1 /\ Tail(s)[i] = s[i + 1]
  BY <1>1
<1>5. ASSUME Once(s, t) PROVE Once(Tail(s), t)
  <2> SUFFICES ASSUME NEW i \in DOMAIN Tail(s), NEW j \in DOMAIN Tail(s),
                      Tail(s)[i] = t, Tail(s)[j] = t
               PROVE  i = j
    BY DEF Once
  <2>1. i + 1 = j + 1
    BY <1>4, <1>5 DEF Once
  <2> QED BY <1>1, <2>1
<1>6. Once(s, t) /\ Head(s) = t => ~Has(Tail(s), t)
  BY <1>1, <1>2, <1>4 DEF Once, Has
<1>7. Head(s) # t => (Has(Tail(s), t) <=> Has(s, t))
  BY <1>1, <1>3, <1>4 DEF Has
<1> QED BY <1>1, <1>2, <1>5, <1>6, <1>7 DEF Has

\* Todo(l), when a task is pushed on queue[l].
LEMMA ConcatPush ==
  ASSUME NEW S, NEW b \in Seq(S), NEW q \in Seq(S), NEW x \in S
  PROVE  b \o q \in Seq(S) /\ b \o Append(q, x) = Append(b \o q, x)
OBVIOUS

\* Todo(l), when the first task of batch[l] is taken.
LEMMA ConcatTake ==
  ASSUME NEW S, NEW b \in Seq(S), NEW q \in Seq(S), b # <<>>
  PROVE  /\ b \o q \in Seq(S) /\ b \o q # <<>>
         /\ Head(b \o q) = Head(b) /\ Head(b) \in S
         /\ Tail(b) \in Seq(S) /\ Tail(b \o q) = Tail(b) \o q
BY HeadTailProperties, ConcatProperties

\* What is in a queue behind a batch.
LEMMA HasConcat ==
  ASSUME NEW S, NEW b \in Seq(S), NEW q \in Seq(S), NEW t
  PROVE  Has(b \o q, t) <=> Has(b, t) \/ Has(q, t)
<1>1. /\ DOMAIN b = 1..Len(b) /\ DOMAIN q = 1..Len(q) /\ Len(b) \in Nat /\ Len(q) \in Nat
      /\ b \o q \in Seq(S) /\ DOMAIN (b \o q) = 1..(Len(b) + Len(q))
      /\ \A i \in 1..(Len(b) + Len(q)) :
            (b \o q)[i] = IF i <= Len(b) THEN b[i] ELSE q[i - Len(b)]
  OBVIOUS
<1>2. ASSUME Has(b, t) PROVE Has(b \o q, t)
  <2>1. PICK i \in 1..Len(b) : b[i] = t
    BY <1>1, <1>2 DEF Has
  <2>2. i \in 1..(Len(b) + Len(q)) /\ (b \o q)[i] = t
    BY <1>1, <2>1
  <2> QED BY <1>1, <2>2 DEF Has
<1>3. ASSUME Has(q, t) PROVE Has(b \o q, t)
  <2>1. PICK i \in 1..Len(q) : q[i] = t
    BY <1>1, <1>3 DEF Has
  <2>2. Len(b) + i \in 1..(Len(b) + Len(q)) /\ (b \o q)[Len(b) + i] = t
    BY <1>1, <2>1
  <2> QED BY <1>1, <2>2 DEF Has
<1>4. ASSUME Has(b \o q, t) PROVE Has(b, t) \/ Has(q, t)
  <2>1. PICK i \in 1..(Len(b) + Len(q)) : (b \o q)[i] = t
    BY <1>1, <1>4 DEF Has
  <2>2. CASE i <= Len(b)
    <3>1. i \in 1..Len(b) /\ b[i] = t
      BY <1>1, <2>1, <2>2
    <3> QED BY <1>1, <3>1 DEF Has
  <2>3. CASE ~(i <= Len(b))
    <3>1. i - Len(b) \in 1..Len(q) /\ q[i - Len(b)] = t
      BY <1>1, <2>1, <2>3
    <3> QED BY <1>1, <3>1 DEF Has
  <2> QED BY <2>2, <2>3
<1> QED BY <1>2, <1>3, <1>4

-----------------------------------------------------------------------------
(* The pollers.                                                             *)

\* The channel is in channelMap under its number, and epoll watches it when
\* its index says so.
Registered(i, l, f, ch) ==
    /\ i.map[l][f] = ch
    /\ i.chan[ch].index \in {"add", "del"}
    /\ i.reg[l][f] # NoReg <=> i.chan[ch].index = "add"

\* Nothing is registered under the number, and the channel is new.
Unregistered(i, l, f, ch) ==
    i.map[l][f] = None /\ i.chan[ch].index = "new" /\ i.reg[l][f] = NoReg

\* The record of the pollers, from its fields.
IoRec(m, r, h, k) == [map |-> m, reg |-> r, chan |-> h, ok |-> k]

\* Channel.events is assigned.
LEMMA EventsSet ==
  ASSUME NEW i \in IoType, NEW ch, NEW ev
  PROVE  [i EXCEPT !.chan[ch].events = ev] =
           IoRec(i.map, i.reg, [i.chan EXCEPT ![ch].events = ev], i.ok)
<1>1. i = IoRec(i.map, i.reg, i.chan, i.ok)
  BY DEF IoType, IoRec
<1>2. [i EXCEPT !.chan[ch].events = ev] = [i EXCEPT !.chan = [i.chan EXCEPT ![ch].events = ev]]
  BY DEF IoType
<1>3. DOMAIN i = {"map", "reg", "chan", "ok"}
  BY DEF IoType
<1> QED BY <1>1, <1>2, <1>3 DEF IoRec

\* The fields of a channel, one after the other.
LEMMA ChanSet ==
  ASSUME NEW C, NEW h \in [C -> [events : SUBSET {EventRead, EventWrite}, index : {"new","add","del"}]],
         NEW ch \in C, NEW ev, NEW x, NEW y
  PROVE  /\ [h EXCEPT ![ch].events = ev] = [h EXCEPT ![ch] = [events |-> ev, index |-> h[ch].index]]
         /\ [[h EXCEPT ![ch] = [events |-> ev, index |-> x]] EXCEPT ![ch].index = y] = [h EXCEPT ![ch] = [events |-> ev, index |-> y]]
         /\ [h EXCEPT ![ch] = [events |-> ev, index |-> x]][ch] = [events |-> ev, index |-> x]
<1>1. [h[ch] EXCEPT !.events = ev] = [events |-> ev, index |-> h[ch].index]
  <2>1. h[ch] \in [events : SUBSET {EventRead, EventWrite}, index : {"new","add","del"}]
    OBVIOUS
  <2> QED BY <2>1
<1>2. [[events |-> ev, index |-> x] EXCEPT !.index = y] = [events |-> ev, index |-> y]
  OBVIOUS
<1>3. [h EXCEPT ![ch] = [events |-> ev, index |-> x]][ch] = [events |-> ev, index |-> x]
  OBVIOUS
<1>4. [h EXCEPT ![ch].events = ev] = [h EXCEPT ![ch] = [events |-> ev, index |-> h[ch].index]]
  BY <1>1
<1>5. [[h EXCEPT ![ch] = [events |-> ev, index |-> x]] EXCEPT ![ch].index = y] = [h EXCEPT ![ch] = [events |-> ev, index |-> y]]
  <2> DEFINE g == [h EXCEPT ![ch] = [events |-> ev, index |-> x]]
  <2>1. DOMAIN g = C /\ g[ch] = [events |-> ev, index |-> x] /\ \A d \in C \ {ch} : g[d] = h[d]
     OBVIOUS
  <2> HIDE DEF g
  <2>2. [g EXCEPT ![ch].index = y] = [d \in C |-> IF d = ch THEN [events |-> ev, index |-> y] ELSE h[d]]
     BY <2>1, <1>2
  <2> QED BY <2>2 DEF g
<1> QED BY <1>3, <1>4, <1>5

\* Channel.update with some events: the channel is watched for them.
LEMMA SetEvents ==
  ASSUME NEW i \in IoType, NEW l \in Loops, NEW f \in Fds, NEW ch \in Channels,
         NEW ev \in SUBSET {EventRead, EventWrite}, ev # {},
         Registered(i, l, f, ch) \/ Unregistered(i, l, f, ch)
  PROVE  setEvents(i, l, f, ch, ev) =
           IoRec([i.map EXCEPT ![l][f] = ch],
                 [i.reg EXCEPT ![l][f] = [ch |-> ch, events |-> ev]],
                 [i.chan EXCEPT ![ch] = [events |-> ev, index |-> "add"]],
                 i.ok)
<1> DEFINE h1 == [i.chan EXCEPT ![ch].events = ev]
           h2 == [i.chan EXCEPT ![ch] = [events |-> ev, index |-> "add"]]
           m2 == [i.map EXCEPT ![l][f] = ch]
           r2 == [i.reg EXCEPT ![l][f] = [ch |-> ch, events |-> ev]]
<1>1. setEvents(i, l, f, ch, ev) = updateChannel(IoRec(i.map, i.reg, h1, i.ok), l, f, ch)
  BY EventsSet DEF setEvents
<1>2. /\ h1 = [i.chan EXCEPT ![ch] = [events |-> ev, index |-> i.chan[ch].index]]
      /\ h1[ch] = [events |-> ev, index |-> i.chan[ch].index]
      /\ [h1 EXCEPT ![ch].index = "add"] = h2 /\ h2[ch].events = ev
      /\ i.chan[ch].index = "add" => h1 = h2
  <2>1. i.chan \in [Channels -> [events : SUBSET {EventRead, EventWrite},
                                 index : {"new", "add", "del"}]]
    BY DEF IoType
  <2>2. h1 = [i.chan EXCEPT ![ch] = [events |-> ev, index |-> i.chan[ch].index]]
    BY <2>1, ChanSet
  <2> HIDE DEF h1
  <2>3. h1[ch] = [events |-> ev, index |-> i.chan[ch].index]
    BY <2>1, <2>2
  <2>4. [h1 EXCEPT ![ch].index = "add"] = h2
    BY <2>1, <2>2, ChanSet
  <2>5. h2[ch].events = ev
    BY <2>1
  <2> QED BY <2>2, <2>3, <2>4, <2>5
<1>3. Registered(i, l, f, ch) => m2 = i.map
  BY DEF IoType, Registered
<1>0. SUFFICES updateChannel(IoRec(i.map, i.reg, h1, i.ok), l, f, ch) = IoRec(m2, r2, h2, i.ok)
  BY <1>1
<1> HIDE DEF h1, h2, m2
<1>4. CASE Unregistered(i, l, f, ch)
  <2>1. updateChannel(IoRec(i.map, i.reg, h1, i.ok), l, f, ch) =
        update(IoRec(m2, i.reg, h2, i.ok), "ADD", l, f, ch)
    BY <1>2, <1>4 DEF updateChannel, IoType, IoRec, Unregistered, Assert
  <2>2. update(IoRec(m2, i.reg, h2, i.ok), "ADD", l, f, ch) = IoRec(m2, r2, h2, i.ok)
    BY <1>2, <1>4 DEF update, IoRec, Unregistered
  <2> QED BY <1>1, <2>1, <2>2
<1>5. CASE Registered(i, l, f, ch) /\ i.chan[ch].index = "del"
  <2>1. updateChannel(IoRec(i.map, i.reg, h1, i.ok), l, f, ch) =
        update(IoRec(m2, i.reg, h2, i.ok), "ADD", l, f, ch)
    BY <1>2, <1>3, <1>5 DEF updateChannel, IoType, IoRec, Registered, Assert
  <2>2. update(IoRec(m2, i.reg, h2, i.ok), "ADD", l, f, ch) = IoRec(m2, r2, h2, i.ok)
    BY <1>2, <1>5 DEF update, IoRec, Registered
  <2> QED BY <1>1, <2>1, <2>2
<1>6. CASE Registered(i, l, f, ch) /\ i.chan[ch].index = "add"
  <2>1. updateChannel(IoRec(i.map, i.reg, h1, i.ok), l, f, ch) =
        update(IoRec(m2, i.reg, h2, i.ok), "MOD", l, f, ch)
    <3>1. h1[ch].index = "add" /\ h1[ch].events # {} /\ h1 = h2 /\ m2 = i.map
      BY <1>2, <1>3, <1>6
    <3> QED BY <3>1, <1>6 DEF updateChannel, IoType, IoRec, Registered, Assert
  <2>2. update(IoRec(m2, i.reg, h2, i.ok), "MOD", l, f, ch) = IoRec(m2, r2, h2, i.ok)
    BY <1>2, <1>6 DEF update, IoRec, Registered
  <2> QED BY <1>1, <2>1, <2>2
<1> QED BY <1>4, <1>5, <1>6 DEF Registered

\* disableAll on a channel that is watched: epoll forgets it, channelMap not.
LEMMA DisableAll ==
  ASSUME NEW i \in IoType, NEW l \in Loops, NEW f \in Fds, NEW ch \in Channels,
         Registered(i, l, f, ch), i.chan[ch].index = "add"
  PROVE  disableAll(i, l, f, ch) =
           IoRec(i.map,
                 [i.reg EXCEPT ![l][f] = NoReg],
                 [i.chan EXCEPT ![ch] = [events |-> {}, index |-> "del"]],
                 i.ok)
<1> DEFINE h1 == [i.chan EXCEPT ![ch].events = {}]
           h2 == [i.chan EXCEPT ![ch] = [events |-> {}, index |-> "del"]]
<1>1. disableAll(i, l, f, ch) = updateChannel(IoRec(i.map, i.reg, h1, i.ok), l, f, ch)
  BY EventsSet DEF disableAll, setEvents
<1>2. h1[ch] = [events |-> {}, index |-> "add"] /\ [h1 EXCEPT ![ch].index = "del"] = h2
  BY DEF IoType
<1>3. updateChannel(IoRec(i.map, i.reg, h1, i.ok), l, f, ch) =
      [update(IoRec(i.map, i.reg, h1, i.ok), "DEL", l, f, ch) EXCEPT !.chan[ch].index = "del"]
  BY <1>2 DEF updateChannel, IoType, IoRec, Registered, Assert
<1>4. update(IoRec(i.map, i.reg, h1, i.ok), "DEL", l, f, ch) =
      IoRec(i.map, [i.reg EXCEPT ![l][f] = NoReg], h1, i.ok)
  BY DEF update, IoRec, Registered
<1> QED BY <1>1, <1>2, <1>3, <1>4 DEF IoRec

\* disableAll and removeChannel, as connectDestroyed calls them: no trace of the
\* channel is left, whether it was watched or not.
LEMMA RemoveChannel ==
  ASSUME NEW i \in IoType, NEW l \in Loops, NEW f \in Fds, NEW ch \in Channels,
         Registered(i, l, f, ch)
  PROVE  removeChannel(disableAll(i, l, f, ch), l, f, ch) =
           IoRec([i.map EXCEPT ![l][f] = None],
                 [i.reg EXCEPT ![l][f] = NoReg],
                 [i.chan EXCEPT ![ch] = [events |-> {}, index |-> "new"]],
                 i.ok)
<1> DEFINE h1 == [i.chan EXCEPT ![ch].events = {}]
           h2 == [i.chan EXCEPT ![ch] = [events |-> {}, index |-> "new"]]
           h3 == [i.chan EXCEPT ![ch] = [events |-> {}, index |-> "add"]]
           h4 == [i.chan EXCEPT ![ch] = [events |-> {}, index |-> "del"]]
           m2 == [i.map EXCEPT ![l][f] = None]
           r2 == [i.reg EXCEPT ![l][f] = NoReg]
           r3 == [i.reg EXCEPT ![l][f] = [ch |-> ch, events |-> {}]]
<1>0. /\ h3[ch] = [events |-> {}, index |-> "add"] /\ [h3 EXCEPT ![ch].index = "new"] = h2
      /\ h4[ch] = [events |-> {}, index |-> "del"] /\ [h4 EXCEPT ![ch].index = "new"] = h2
      /\ h1[ch] = [events |-> {}, index |-> i.chan[ch].index]
      /\ [h1 EXCEPT ![ch].index = "add"] = h3
  BY DEF IoType
<1>1. CASE i.chan[ch].index = "add"
  <2>1. disableAll(i, l, f, ch) = IoRec(i.map, r2, h4, i.ok)
    BY <1>1, DisableAll
  <2> QED BY <1>0, <2>1 DEF removeChannel, IoRec, Assert, Registered, IoType
<1>2. CASE i.chan[ch].index = "del"
  <2>1. disableAll(i, l, f, ch) = updateChannel(IoRec(i.map, i.reg, h1, i.ok), l, f, ch)
    BY EventsSet DEF disableAll, setEvents
  <2>2. updateChannel(IoRec(i.map, i.reg, h1, i.ok), l, f, ch) =
        update(IoRec(i.map, i.reg, h3, i.ok), "ADD", l, f, ch)
    BY <1>0, <1>2 DEF updateChannel, IoType, IoRec, Registered, Assert
  <2>3. update(IoRec(i.map, i.reg, h3, i.ok), "ADD", l, f, ch) = IoRec(i.map, r3, h3, i.ok)
    BY <1>0, <1>2 DEF update, IoRec, Registered
  <2>4. r3[l][f] # NoReg /\ [r3 EXCEPT ![l][f] = NoReg] = r2
    BY ConnAssumption DEF NoReg, IoType, Channels
  <2>5. update(IoRec(m2, r3, h3, i.ok), "DEL", l, f, ch) = IoRec(m2, r2, h3, i.ok)
    BY <2>4 DEF update, IoRec
  <2>6. removeChannel(IoRec(i.map, r3, h3, i.ok), l, f, ch) =
        [update(IoRec(m2, r3, h3, i.ok), "DEL", l, f, ch) EXCEPT !.chan[ch].index = "new"]
    BY <1>0 DEF removeChannel, IoRec, Assert, Registered, IoType
  <2> QED BY <1>0, <2>1, <2>2, <2>3, <2>5, <2>6 DEF IoRec
<1> QED BY <1>1, <1>2 DEF Registered

-----------------------------------------------------------------------------
(* What the operations on a connection's channel do to the pollers.         *)

\* Numbers, as the prover needs them.
LEMMA Numbers ==
  /\ Conns \subseteq Channels /\ 0 \in Channels /\ 0 \in Fds /\ Boss \in Loops
  /\ 0 \notin Conns /\ None \notin Channels /\ None \notin Conns
  /\ \A c \in Channels : c # 0 => c \in Conns
  /\ \A ev : \A x \in Channels : [ch |-> x, events |-> ev] # NoReg
BY ConnAssumption DEF Conns, Channels, Fds, Loops, Boss, NoReg

\* The variables that say whose a number is.
OwnersType ==
    /\ file \in [Fds -> Channels \cup {None}]
    /\ fdOf \in [Conns -> Fds] /\ loopOf \in [Conns -> Loops]

\* The channel of a connection that owns its number is registered under it, or
\* nothing is.
LEMMA OwnRegistration ==
  ASSUME OwnersType, NEW i \in IoType, PollerOK(i),
         NEW c \in Conns, file[fdOf[c]] = c, fdOf[c] # 0
  PROVE  /\ i.chan[c].index = "new" => Unregistered(i, loopOf[c], fdOf[c], c)
         /\ i.chan[c].index # "new" => Registered(i, loopOf[c], fdOf[c], c)
<1> DEFINE l == loopOf[c]
           f == fdOf[c]
<1>1. /\ l \in Loops /\ f \in Fds \ {0}
      /\ i.chan[c].index \in {"new", "add", "del"}
  BY Numbers DEF OwnersType, IoType
<1>2. NumberOK(i, l, f) /\ ChannelOK(i, c)
  BY <1>1 DEF PollerOK
<1>3. ASSUME i.chan[c].index = "new" PROVE i.map[l][f] = None /\ i.reg[l][f] = NoReg
  BY <1>2, <1>3 DEF NumberOK
<1>4. ASSUME i.chan[c].index # "new"
      PROVE  /\ i.map[l][f] = c
             /\ i.reg[l][f] # NoReg <=> i.chan[c].index = "add"
  BY <1>2, <1>4, Numbers DEF NumberOK, ChannelOK
<1> QED BY <1>1, <1>3, <1>4 DEF Registered, Unregistered

\* What every operation on the channel of such a connection comes down to: new
\* entries for its number and new fields for its channel, that fit together.
ChannelBecomes(i, j, c, ev, x) ==
    LET m == IF x = "new" THEN None ELSE c
        r == IF x = "add" THEN [ch |-> c, events |-> ev] ELSE NoReg
    IN  j = IoRec([i.map EXCEPT ![loopOf[c]][fdOf[c]] = m],
                  [i.reg EXCEPT ![loopOf[c]][fdOf[c]] = r],
                  [i.chan EXCEPT ![c] = [events |-> ev, index |-> x]], i.ok)

\* Then the pollers still agree with the descriptors.
PollerBecomes(i, j, c, ev, x) ==
    /\ j \in IoType /\ PollerOK(j) /\ AcceptorOK(j) /\ j.ok = i.ok
    /\ j.chan = [i.chan EXCEPT ![c] = [events |-> ev, index |-> x]]

\* A change of one channel, and its effect on the pollers.
LEMMA PollerAfter ==
  ASSUME OwnersType, NEW i \in IoType, PollerOK(i), AcceptorOK(i),
         NEW c \in Conns, file[fdOf[c]] = c, fdOf[c] # 0,
         NEW ev \in SUBSET {EventRead, EventWrite},
         NEW x \in {"new", "add", "del"}, x = "add" <=> ev # {},
         NEW j, ChannelBecomes(i, j, c, ev, x)
  PROVE  PollerBecomes(i, j, c, ev, x)
<1> DEFINE l == loopOf[c]
           f == fdOf[c]
           m == IF x = "new" THEN None ELSE c
           r == IF x = "add" THEN [ch |-> c, events |-> ev] ELSE NoReg
<1>1. /\ l \in Loops /\ f \in Fds \ {0} /\ f \in Fds
      /\ c \in Channels /\ c # 0 /\ c # None
      /\ file[f] = c /\ loopOf[c] = l /\ fdOf[c] = f
  BY Numbers DEF OwnersType
<1>2. m \in Channels \cup {None} /\ (m = None <=> x = "new") /\ (m # None => m = c)
  BY <1>1
<1>3. /\ r \in [ch : Channels \cup {None}, events : SUBSET {EventRead, EventWrite}]
      /\ r = IF x = "add" THEN [ch |-> c, events |-> ev] ELSE NoReg
  BY <1>1 DEF NoReg
<1>4. /\ j.map = [i.map EXCEPT ![l][f] = m]
      /\ j.reg = [i.reg EXCEPT ![l][f] = r]
      /\ j.chan = [i.chan EXCEPT ![c] = [events |-> ev, index |-> x]]
      /\ j.ok = i.ok
      /\ j = [map |-> j.map, reg |-> j.reg, chan |-> j.chan, ok |-> j.ok]
  BY DEF IoRec, ChannelBecomes
<1> HIDE DEF l, f, m, r
<1>5. j \in IoType
  <2>1. j.map \in [Loops -> [Fds -> Channels \cup {None}]]
    BY <1>1, <1>2, <1>4 DEF IoType
  <2>2. j.reg \in [Loops -> [Fds -> [ch : Channels \cup {None},
                                  events : SUBSET {EventRead, EventWrite}]]]
    BY <1>1, <1>3, <1>4 DEF IoType
  <2>3. j.chan \in [Channels -> [events : SUBSET {EventRead, EventWrite},
                                 index : {"new", "add", "del"}]]
    BY <1>1, <1>4 DEF IoType
  <2>4. j.ok \in BOOLEAN
    BY <1>4 DEF IoType
  <2> QED BY <1>4, <2>1, <2>2, <2>3, <2>4 DEF IoType
<1>6. PollerOK(j)
  <2>1. ASSUME NEW n \in Loops, NEW g \in Fds \ {0}
        PROVE  NumberOK(j, n, g)
    <3>0. NumberOK(i, n, g)
      BY DEF PollerOK
    <3>1. CASE n = l /\ g = f
      <4>1. j.map[n][g] = m /\ j.reg[n][g] = r
        BY <1>1, <1>4, <3>1 DEF IoType
      <4>2. j.chan[c] = [events |-> ev, index |-> x]
        BY <1>1, <1>4 DEF IoType
      <4> QED BY <1>1, <1>2, <1>3, <3>1, <4>1, <4>2 DEF NumberOK
    <3>2. CASE n # l \/ g # f
      <4>1. j.map[n][g] = i.map[n][g] /\ j.reg[n][g] = i.reg[n][g]
        BY <1>1, <1>4, <3>2 DEF IoType
      <4>2. i.map[n][g] # c
        BY <1>1, <3>0, <3>2 DEF NumberOK
      <4>3. i.map[n][g] # None => i.map[n][g] \in Channels /\ j.chan[i.map[n][g]] = i.chan[i.map[n][g]]
        BY <1>1, <1>4, <3>0, <4>2, Numbers DEF NumberOK, IoType
      <4> QED BY <3>0, <4>1, <4>3 DEF NumberOK
    <3> QED BY <3>1, <3>2
  <2>2. ASSUME NEW d \in Conns
        PROVE  ChannelOK(j, d)
    <3>0. ChannelOK(i, d) /\ d \in Channels /\ loopOf[d] \in Loops /\ fdOf[d] \in Fds
      BY Numbers DEF PollerOK, OwnersType
    <3>1. CASE d = c
      <4>1. j.map[l][f] = m
        BY <1>1, <1>4 DEF IoType
      <4>2. j.chan[c] = [events |-> ev, index |-> x]
        BY <1>1, <1>4 DEF IoType
      <4> QED BY <1>1, <1>2, <3>1, <4>1, <4>2 DEF ChannelOK
    <3>2. CASE d # c
      <4>1. j.chan[d] = i.chan[d]
        BY <1>1, <1>4, <3>0, <3>2 DEF IoType
      <4>2. ASSUME i.chan[d].index # "new"
            PROVE  ~(loopOf[d] = l /\ fdOf[d] = f)
        <5>1. fdOf[d] # 0 /\ i.map[loopOf[d]][fdOf[d]] = d
          BY <3>0, <4>2 DEF ChannelOK
        <5>2. NumberOK(i, loopOf[d], fdOf[d])
          BY <3>0, <5>1 DEF PollerOK
        <5> QED BY <1>1, <3>0, <3>2, <5>1, <5>2, Numbers DEF NumberOK
      <4>3. ASSUME i.chan[d].index # "new"
            PROVE  j.map[loopOf[d]][fdOf[d]] = i.map[loopOf[d]][fdOf[d]]
        <5>1. loopOf[d] # l \/ fdOf[d] # f
          BY <4>2, <4>3
        <5> QED BY <1>1, <1>4, <3>0, <5>1 DEF IoType
      <4> QED BY <3>0, <4>1, <4>3 DEF ChannelOK
    <3> QED BY <3>1, <3>2
  <2> QED BY <2>1, <2>2 DEF PollerOK
<1>7. AcceptorOK(j)
  <2>1. j.chan[0] = i.chan[0]
    BY <1>1, <1>4, Numbers DEF IoType
  <2>2. \A n \in Loops : j.map[n][0] = i.map[n][0] /\ j.reg[n][0] = i.reg[n][0]
    BY <1>1, <1>4, Numbers DEF IoType
  <2> QED BY <2>1, <2>2 DEF AcceptorOK
<1> QED BY <1>4, <1>5, <1>6, <1>7 DEF PollerBecomes

\* enableReading and enableWriting.
LEMMA WatchKeepsPoller ==
  ASSUME OwnersType, NEW i \in IoType, PollerOK(i), AcceptorOK(i),
         NEW c \in Conns, file[fdOf[c]] = c, fdOf[c] # 0,
         NEW ev \in SUBSET {EventRead, EventWrite}, ev # {},
         NEW j, j = setEvents(i, loopOf[c], fdOf[c], c, ev)
  PROVE  PollerBecomes(i, j, c, ev, "add")
<1> DEFINE l == loopOf[c]
           f == fdOf[c]
<1>1. l \in Loops /\ f \in Fds /\ c \in Channels
  BY Numbers DEF OwnersType
<1>2. Registered(i, l, f, c) \/ Unregistered(i, l, f, c)
  BY OwnRegistration
<1>3. j = IoRec([i.map EXCEPT ![l][f] = c],
                [i.reg EXCEPT ![l][f] = [ch |-> c, events |-> ev]],
                [i.chan EXCEPT ![c] = [events |-> ev, index |-> "add"]], i.ok)
  <2> HIDE DEF l, f
  <2>1. setEvents(i, l, f, c, ev) =
          IoRec([i.map EXCEPT ![l][f] = c],
                [i.reg EXCEPT ![l][f] = [ch |-> c, events |-> ev]],
                [i.chan EXCEPT ![c] = [events |-> ev, index |-> "add"]], i.ok)
    BY <1>1, <1>2, SetEvents
  <2> QED BY <2>1 DEF l, f
<1>5. ChannelBecomes(i, j, c, ev, "add")
  BY <1>3 DEF ChannelBecomes
<1>6. /\ ev \in SUBSET {EventRead, EventWrite} /\ "add" \in {"new", "add", "del"}
      /\ "add" = "add" <=> ev # {}
  OBVIOUS
<1> QED BY <1>5, <1>6, PollerAfter

\* disableAll in handleClose.
LEMMA DisableKeepsPoller ==
  ASSUME OwnersType, NEW i \in IoType, PollerOK(i), AcceptorOK(i),
         NEW c \in Conns, file[fdOf[c]] = c, fdOf[c] # 0,
         i.chan[c].index = "add",
         NEW j, j = disableAll(i, loopOf[c], fdOf[c], c)
  PROVE  PollerBecomes(i, j, c, {}, "del")
<1> DEFINE l == loopOf[c]
           f == fdOf[c]
<1>1. l \in Loops /\ f \in Fds /\ c \in Channels
  BY Numbers DEF OwnersType
<1>2. Registered(i, l, f, c)
  BY OwnRegistration
<1>3. i.map = [i.map EXCEPT ![l][f] = c]
  BY <1>1, <1>2 DEF Registered, IoType
<1>4. j = IoRec(i.map, [i.reg EXCEPT ![l][f] = NoReg],
                [i.chan EXCEPT ![c] = [events |-> {}, index |-> "del"]], i.ok)
  <2> HIDE DEF l, f
  <2>1. disableAll(i, l, f, c) =
          IoRec(i.map, [i.reg EXCEPT ![l][f] = NoReg],
                [i.chan EXCEPT ![c] = [events |-> {}, index |-> "del"]], i.ok)
    BY <1>1, <1>2, DisableAll
  <2> QED BY <2>1 DEF l, f
<1>5. ChannelBecomes(i, j, c, {}, "del")
  BY <1>3, <1>4 DEF ChannelBecomes
<1>6. /\ {} \in SUBSET {EventRead, EventWrite} /\ "del" \in {"new", "add", "del"}
      /\ "del" = "add" <=> {} # {}
  OBVIOUS
<1> QED BY <1>5, <1>6, PollerAfter

\* disableAll and removeChannel in connectDestroyed.
LEMMA RemoveKeepsPoller ==
  ASSUME OwnersType, NEW i \in IoType, PollerOK(i), AcceptorOK(i),
         NEW c \in Conns, file[fdOf[c]] = c, fdOf[c] # 0,
         i.chan[c].index # "new",
         NEW j, j = removeChannel(disableAll(i, loopOf[c], fdOf[c], c),
                                  loopOf[c], fdOf[c], c)
  PROVE  PollerBecomes(i, j, c, {}, "new")
<1> DEFINE l == loopOf[c]
           f == fdOf[c]
<1>1. l \in Loops /\ f \in Fds /\ c \in Channels
  BY Numbers DEF OwnersType
<1>2. Registered(i, l, f, c)
  BY OwnRegistration
<1>3. j = IoRec([i.map EXCEPT ![l][f] = None], [i.reg EXCEPT ![l][f] = NoReg],
                [i.chan EXCEPT ![c] = [events |-> {}, index |-> "new"]], i.ok)
  <2> HIDE DEF l, f
  <2>1. removeChannel(disableAll(i, l, f, c), l, f, c) =
          IoRec([i.map EXCEPT ![l][f] = None], [i.reg EXCEPT ![l][f] = NoReg],
                [i.chan EXCEPT ![c] = [events |-> {}, index |-> "new"]], i.ok)
    BY <1>1, <1>2, RemoveChannel
  <2> QED BY <2>1 DEF l, f
<1>5. ChannelBecomes(i, j, c, {}, "new")
  BY <1>3 DEF ChannelBecomes
<1>6. /\ {} \in SUBSET {EventRead, EventWrite} /\ "new" \in {"new", "add", "del"}
      /\ "new" = "add" <=> {} # {}
  OBVIOUS
<1> QED BY <1>5, <1>6, PollerAfter

-----------------------------------------------------------------------------
(* Tasks that are pushed and taken.                                         *)

\* The closures that carry a connection from one phase to the next.
KeyOps == {"connectEstablished", "removeConn", "connectDestroyed"}

\* The queues after a push of t on loop l.
Pushed(l, t) == queue' = [queue EXCEPT ![l] = Append(@, t)]

TasksType == queue \in [Loops -> Seq(Tasks)] /\ batch \in [Loops -> Seq(Tasks)]

\* No key task is pushed or taken.
SameKeyTasks ==
    \A m \in Loops, c \in Conns, op \in KeyOps :
        /\ Has(Todo(m), Task(op, c))' <=> Has(Todo(m), Task(op, c))
        /\ Once(Todo(m), Task(op, c)) => Once(Todo(m), Task(op, c))'

\* A push.
LEMMA PushTodo ==
  ASSUME TasksType, NEW l \in Loops, NEW t \in Tasks, Pushed(l, t), UNCHANGED batch
  PROVE  /\ TasksType'
         /\ \A m \in Loops : /\ Todo(m) \in Seq(Tasks)
                             /\ Todo(m)' = IF m = l THEN Append(Todo(l), t) ELSE Todo(m)
<1>1. queue' \in [Loops -> Seq(Tasks)]
  BY DEF TasksType, Pushed
<1>2. ASSUME NEW m \in Loops
      PROVE  /\ Todo(m) \in Seq(Tasks)
             /\ Todo(m)' = IF m = l THEN Append(Todo(l), t) ELSE Todo(m)
  <2>1. queue[m] \in Seq(Tasks) /\ batch[m] \in Seq(Tasks)
    BY DEF TasksType
  <2>2. queue'[m] = IF m = l THEN Append(queue[l], t) ELSE queue[m]
    BY DEF TasksType, Pushed
  <2>3. batch'[m] = batch[m]
    OBVIOUS
  <2>4. /\ batch[m] \o queue[m] \in Seq(Tasks)
        /\ batch[m] \o Append(queue[m], t) = Append(batch[m] \o queue[m], t)
    <3>1. \A b, q \in Seq(Tasks) :
             b \o q \in Seq(Tasks) /\ b \o Append(q, t) = Append(b \o q, t)
      BY ConcatPush
    <3> QED BY <2>1, <3>1
  <2> QED BY <2>2, <2>3, <2>4 DEF Todo
<1> QED BY <1>1, <1>2 DEF TasksType

\* The first task of the batch of l is taken.
LEMMA DoneTodo ==
  ASSUME TasksType, NEW l \in Loops, batch[l] # <<>>, TaskDone(l), UNCHANGED queue
  PROVE  /\ TasksType'
         /\ Head(batch[l]) = Head(Todo(l)) /\ Todo(l) # <<>> /\ Head(batch[l]) \in Tasks
         /\ \A m \in Loops : /\ Todo(m) \in Seq(Tasks)
                             /\ Todo(m)' = IF m = l THEN Tail(Todo(l)) ELSE Todo(m)
<1>1. batch' = [batch EXCEPT ![l] = Tail(batch[l])]
  BY DEF TaskDone
<1>2. \A m \in Loops : queue[m] \in Seq(Tasks) /\ batch[m] \in Seq(Tasks)
  BY DEF TasksType
<1>3. /\ batch[l] \o queue[l] \in Seq(Tasks)
      /\ batch[l] \o queue[l] # <<>> /\ Head(batch[l] \o queue[l]) = Head(batch[l])
      /\ Head(batch[l]) \in Tasks
      /\ Tail(batch[l]) \in Seq(Tasks)
      /\ Tail(batch[l] \o queue[l]) = Tail(batch[l]) \o queue[l]
  BY <1>2, ConcatTake
<1>4. batch' \in [Loops -> Seq(Tasks)]
  BY <1>1, <1>3 DEF TasksType
<1>5. ASSUME NEW m \in Loops
      PROVE  /\ Todo(m) \in Seq(Tasks)
             /\ Todo(m)' = IF m = l THEN Tail(Todo(l)) ELSE Todo(m)
  <2>1. batch'[m] = IF m = l THEN Tail(batch[l]) ELSE batch[m]
    BY <1>1 DEF TasksType
  <2>2. batch[m] \o queue[m] \in Seq(Tasks)
    BY <1>2, ConcatProperties
  <2> QED BY <1>3, <2>1, <2>2 DEF Todo
<1> QED BY <1>3, <1>4, <1>5 DEF Todo, TasksType

\* The first task of the batch of l is taken, and a task pushed on k.
LEMMA DonePushTodo ==
  ASSUME TasksType, NEW l \in Loops, batch[l] # <<>>, TaskDone(l),
         NEW k \in Loops, NEW t \in Tasks, Pushed(k, t)
  PROVE  /\ TasksType'
         /\ Head(batch[l]) = Head(Todo(l)) /\ Todo(l) # <<>> /\ Head(batch[l]) \in Tasks
         /\ \A m \in Loops :
              /\ Todo(m) \in Seq(Tasks)
              /\ LET rest == IF m = l THEN Tail(Todo(l)) ELSE Todo(m)
                 IN  Todo(m)' = IF m = k THEN Append(rest, t) ELSE rest
<1>1. batch' = [batch EXCEPT ![l] = Tail(batch[l])]
  BY DEF TaskDone
<1>2. \A m \in Loops : queue[m] \in Seq(Tasks) /\ batch[m] \in Seq(Tasks)
  BY DEF TasksType
<1>3. /\ batch[l] \o queue[l] # <<>> /\ Head(batch[l] \o queue[l]) = Head(batch[l])
      /\ Head(batch[l]) \in Tasks
      /\ Tail(batch[l]) \in Seq(Tasks)
      /\ Tail(batch[l] \o queue[l]) = Tail(batch[l]) \o queue[l]
  BY <1>2, ConcatTake
<1>4. batch' \in [Loops -> Seq(Tasks)] /\ queue' \in [Loops -> Seq(Tasks)]
  BY <1>1, <1>3 DEF TasksType, Pushed
<1>5. ASSUME NEW m \in Loops
      PROVE  /\ Todo(m) \in Seq(Tasks)
             /\ LET rest == IF m = l THEN Tail(Todo(l)) ELSE Todo(m)
                IN  Todo(m)' = IF m = k THEN Append(rest, t) ELSE rest
  <2> DEFINE b == IF m = l THEN Tail(batch[l]) ELSE batch[m]
  <2>1. batch'[m] = b /\ b \in Seq(Tasks)
    BY <1>1, <1>2, <1>3 DEF TasksType
  <2>2. queue'[m] = IF m = k THEN Append(queue[m], t) ELSE queue[m]
    BY DEF TasksType, Pushed
  <2>3. batch[m] \o queue[m] \in Seq(Tasks)
    BY <1>2, ConcatProperties
  <2>4. b \o Append(queue[m], t) = Append(b \o queue[m], t)
    <3>1. \A a, q \in Seq(Tasks) : a \o Append(q, t) = Append(a \o q, t)
      BY ConcatPush
    <3> HIDE DEF b
    <3> QED BY <1>2, <2>1, <3>1
  <2>5. b \o queue[m] = IF m = l THEN Tail(Todo(l)) ELSE Todo(m)
    BY <1>3 DEF Todo
  <2> HIDE DEF b
  <2> QED BY <2>1, <2>2, <2>3, <2>4, <2>5 DEF Todo
<1> QED BY <1>3, <1>4, <1>5 DEF Todo, TasksType

\* Tasks of other kinds come and go without an effect on the key ones.
LEMMA OtherPush ==
  ASSUME TasksType, NEW l \in Loops, NEW t \in Tasks, t.op \notin KeyOps,
         Pushed(l, t), UNCHANGED batch
  PROVE  TasksType' /\ SameKeyTasks
<1> SUFFICES ASSUME NEW m \in Loops, NEW c \in Conns, NEW op \in KeyOps
             PROVE  /\ Has(Todo(m), Task(op, c))' <=> Has(Todo(m), Task(op, c))
                    /\ Once(Todo(m), Task(op, c)) => Once(Todo(m), Task(op, c))'
  BY PushTodo DEF SameKeyTasks
<1>1. t # Task(op, c)
  BY DEF Task
<1>2. /\ Todo(m) \in Seq(Tasks)
      /\ Todo(m)' = IF m = l THEN Append(Todo(l), t) ELSE Todo(m)
  BY PushTodo
<1>3. /\ Has(Todo(m)', Task(op, c)) <=> Has(Todo(m), Task(op, c))
      /\ Once(Todo(m), Task(op, c)) => Once(Todo(m)', Task(op, c))
  BY <1>1, <1>2, HasAppend
<1> QED BY <1>3 DEF Has, Once, Task

\* A task that is not a key task is taken from the batch: no key task moves.
LEMMA OtherDone ==
  ASSUME TasksType, NEW l \in Loops, batch[l] # <<>>, TaskDone(l),
         Head(batch[l]).op \notin KeyOps,
         \/ UNCHANGED queue
         \/ \E k \in Loops, t \in Tasks : t.op \notin KeyOps /\ Pushed(k, t)
  PROVE  TasksType' /\ SameKeyTasks
<1>1. ASSUME NEW c \in Conns, NEW op \in KeyOps PROVE Head(batch[l]) # Task(op, c)
  BY <1>1 DEF Task
<1>2. CASE UNCHANGED queue
  <2> SUFFICES ASSUME NEW m \in Loops, NEW c \in Conns, NEW op \in KeyOps
               PROVE  /\ Has(Todo(m), Task(op, c))' <=> Has(Todo(m), Task(op, c))
                      /\ Once(Todo(m), Task(op, c)) => Once(Todo(m), Task(op, c))'
    BY <1>2, DoneTodo DEF SameKeyTasks
  <2>1. /\ Todo(m) \in Seq(Tasks)
        /\ Todo(m)' = IF m = l THEN Tail(Todo(l)) ELSE Todo(m)
        /\ m = l => Todo(m) # <<>> /\ Head(Todo(m)) # Task(op, c)
    BY <1>1, <1>2, DoneTodo
  <2>2. /\ Has(Todo(m)', Task(op, c)) <=> Has(Todo(m), Task(op, c))
        /\ Once(Todo(m), Task(op, c)) => Once(Todo(m)', Task(op, c))
    BY <2>1, HasTail
  <2> QED BY <2>2 DEF Has, Once, Task
<1>3. ASSUME NEW k \in Loops, NEW t \in Tasks, t.op \notin KeyOps, Pushed(k, t)
      PROVE  TasksType' /\ SameKeyTasks
  <2> SUFFICES ASSUME NEW m \in Loops, NEW c \in Conns, NEW op \in KeyOps
               PROVE  /\ Has(Todo(m), Task(op, c))' <=> Has(Todo(m), Task(op, c))
                      /\ Once(Todo(m), Task(op, c)) => Once(Todo(m), Task(op, c))'
    BY <1>3, DonePushTodo DEF SameKeyTasks
  <2> DEFINE rest == IF m = l THEN Tail(Todo(l)) ELSE Todo(m)
  <2>1. /\ Todo(m) \in Seq(Tasks)
        /\ Todo(m)' = IF m = k THEN Append(rest, t) ELSE rest
        /\ m = l => Todo(m) # <<>> /\ Head(Todo(m)) # Task(op, c)
    BY <1>1, <1>3, DonePushTodo
  <2>2. /\ rest \in Seq(Tasks)
        /\ Has(rest, Task(op, c)) <=> Has(Todo(m), Task(op, c))
        /\ Once(Todo(m), Task(op, c)) => Once(rest, Task(op, c))
    BY <2>1, HasTail, HeadTailProperties
  <2>3. t # Task(op, c)
    BY <1>3 DEF Task
  <2> HIDE DEF rest
  <2>4. /\ Has(Todo(m)', Task(op, c)) <=> Has(Todo(m), Task(op, c))
        /\ Once(Todo(m), Task(op, c)) => Once(Todo(m)', Task(op, c))
    BY <1>3, <2>1, <2>2, <2>3, HasAppend
  <2> QED BY <2>4 DEF Has, Once, Task
<1> QED BY <1>2, <1>3

-----------------------------------------------------------------------------
(* What callbacks of the user do.                                           *)

\* From i to j, channels may start to listen, nothing else; the only panics are
\* those that Benign excludes.
KeepsChannels(i, j) ==
    /\ j \in IoType /\ PollerOK(j) /\ AcceptorOK(j)
    /\ Benign => j.ok = i.ok
    /\ i.chan[0].index = "add" => j.chan[0].index = "add"
    /\ \A c \in Conns :
          /\ j.chan[c].index = "new" <=> i.chan[c].index = "new"
          /\ EventRead \in j.chan[c].events <=> EventRead \in i.chan[c].events

DataType ==
    /\ wrote \in [Conns -> Nat] /\ got \in [Conns -> Seq(Nat)]
    /\ out \in [Conns -> Nat] /\ capacity \in [Conns -> Nat \ {0}]
    /\ \A c \in Conns : out[c] <= capacity[c]

\* Nothing is pushed but tasks that are not key tasks.
OtherTasks ==
    \/ UNCHANGED queue
    \/ \E k \in Loops, t \in Tasks : t.op \notin KeyOps /\ Pushed(k, t)

\* A connection that onConn has seen may become Disconnecting.
StateMoves ==
    /\ state' \in [Conns -> States]
    /\ \A c \in Conns :
          \/ state'[c] = state[c]
          \/ /\ state[c] \in {"Connected", "Disconnecting", "Disconnected"}
             /\ state'[c] = "Disconnecting"

\* Tasks that are not key tasks.
LEMMA OtherTask ==
  ASSUME NEW c \in Conns, NEW op \in {"write", "onWriteComplete", "shutdownWrite"}
  PROVE  Task(op, c) \in Tasks /\ Task(op, c).op \notin KeyOps
BY Numbers DEF Task, Tasks, Ops, KeyOps

\* A key task of a connection.
LEMMA KeyTask ==
  ASSUME NEW c \in Conns, NEW op \in KeyOps
  PROVE  Task(op, c) \in Tasks /\ Task(op, c).op = op /\ Task(op, c).conn = c
BY Numbers DEF Task, Tasks, Ops, KeyOps

\* Nothing changes.
LEMMA SamePoller ==
  ASSUME NEW i \in IoType, PollerOK(i), AcceptorOK(i)
  PROVE  KeepsChannels(i, i)
BY DEF KeepsChannels

\* The pollers do not depend on ok.
LEMMA SameFields ==
  ASSUME NEW i, NEW j, PollerOK(i), AcceptorOK(i),
         j.map = i.map, j.reg = i.reg, j.chan = i.chan
  PROVE  PollerOK(j) /\ AcceptorOK(j)
<1>1. ASSUME NEW l \in Loops, NEW f \in Fds \ {0} PROVE NumberOK(j, l, f)
  <2>1. NumberOK(i, l, f)
    BY DEF PollerOK
  <2> QED BY <2>1 DEF NumberOK
<1>2. ASSUME NEW c \in Conns PROVE ChannelOK(j, c)
  <2>1. ChannelOK(i, c)
    BY DEF PollerOK
  <2> QED BY <2>1 DEF ChannelOK
<1>3. AcceptorOK(j)
  BY DEF AcceptorOK
<1> QED BY <1>1, <1>2, <1>3 DEF PollerOK

\* The channel of a connection that is registered starts to listen for writing.
LEMMA BufferedEffect ==
  ASSUME OwnersType, NEW i \in IoType, PollerOK(i), AcceptorOK(i),
         NEW c \in Conns, file[fdOf[c]] = c, fdOf[c] # 0,
         i.chan[c].index # "new", Buffered(c, i)
  PROVE  KeepsChannels(i, io')
<1>1. CASE isWriting(i, c)
  BY <1>1, SamePoller DEF Buffered
<1>2. CASE ~isWriting(i, c)
  <2> DEFINE ev == i.chan[c].events \cup {EventWrite}
  <2>1. io' = setEvents(i, loopOf[c], fdOf[c], c, ev)
    BY <1>2 DEF Buffered, enableWriting
  <2>2. ev \in SUBSET {EventRead, EventWrite} /\ ev # {}
    BY Numbers DEF IoType
  <2>3. EventRead \in ev <=> EventRead \in i.chan[c].events
    BY DEF EventRead, EventWrite
  <2> HIDE DEF ev
  <2>4. PollerBecomes(i, io', c, ev, "add")
    BY <2>1, <2>2, WatchKeepsPoller
  <2>5. \A d \in Conns : io'.chan[d] = IF d = c THEN [events |-> ev, index |-> "add"]
                                       ELSE i.chan[d]
    BY <2>4, Numbers DEF PollerBecomes, IoType
  <2>6. io'.chan[0] = i.chan[0]
    BY <2>4, Numbers DEF PollerBecomes, IoType
  <2> QED BY <2>3, <2>4, <2>5, <2>6 DEF PollerBecomes, KeepsChannels
<1> QED BY <1>1, <1>2

\* outbound.Write: the buffer holds what it has room for.
LEMMA OutboundType ==
  ASSUME DataType, NEW c \in Conns, NEW n \in Nat \ {0}, OutboundWrite(c, n)
  PROVE  /\ out' \in [Conns -> Nat] /\ capacity' \in [Conns -> Nat \ {0}]
         /\ \A d \in Conns : out'[d] <= capacity'[d]
         /\ \A d \in Conns \ {c} : out'[d] = out[d] /\ capacity'[d] = capacity[d]
         /\ \/ out'[c] = out[c] + n
            \/ out'[c] = capacity'[c] /\ out'[c] < out[c] + n
<1> DEFINE g == Grown(c, n)
           o == out[c] + IF n <= g - out[c] THEN n ELSE g - out[c]
<1>1. out[c] \in Nat /\ capacity[c] \in Nat \ {0} /\ out[c] <= capacity[c]
  BY DEF DataType
<1>2. g \in Nat \ {0} /\ g >= capacity[c]
  BY <1>1 DEF Grown
<1>3. out' = [out EXCEPT ![c] = o] /\ capacity' = [capacity EXCEPT ![c] = g]
  BY DEF OutboundWrite
<1> HIDE DEF g
<1>4. /\ o \in Nat /\ o <= g
      /\ o = out[c] + n \/ (o = g /\ o < out[c] + n)
  BY <1>1, <1>2
<1> HIDE DEF o
<1>5. out' \in [Conns -> Nat] /\ capacity' \in [Conns -> Nat \ {0}]
  BY <1>2, <1>3, <1>4 DEF DataType
<1>6. /\ out'[c] = o /\ capacity'[c] = g
      /\ \A d \in Conns \ {c} : out'[d] = out[d] /\ capacity'[d] = capacity[d]
  BY <1>3 DEF DataType
<1>7. \A d \in Conns : out'[d] <= capacity'[d]
  BY <1>4, <1>6 DEF DataType
<1> QED BY <1>4, <1>5, <1>6, <1>7

\* The next k units go to the kernel.
LEMMA SendsType ==
  ASSUME DataType, NEW c \in Conns, NEW n \in Nat, NEW k \in Nat, Sends(c, k), Accepts(c, n)
  PROVE  got' \in [Conns -> Seq(Nat)] /\ wrote' \in [Conns -> Nat]
<1>1. wrote[c] \in Nat /\ got[c] \in Seq(Nat)
  BY DEF DataType
<1>2. [i \in 1..k |-> wrote[c] + i] \in Seq(Nat)
  BY <1>1
<1>3. got[c] \o [i \in 1..k |-> wrote[c] + i] \in Seq(Nat)
  BY <1>1, <1>2, ConcatProperties
<1> QED BY <1>1, <1>3 DEF DataType, Sends, Accepts

\* Write on a connection whose channel is registered.
LEMMA WriteEffect ==
  ASSUME OwnersType, TasksType, DataType, NEW i \in IoType, PollerOK(i), AcceptorOK(i),
         NEW c \in Conns, NEW st,
         st = "Connected" =>
             file[fdOf[c]] = c /\ fdOf[c] # 0 /\ i.chan[c].index # "new",
         Write(c, st, i)
  PROVE  KeepsChannels(i, io') /\ OtherTasks /\ DataType'
<1>1. CASE st # "Connected"
  BY <1>1, SamePoller DEF Write, OtherTasks, DataType, dataVars
<1>2. CASE st = "Connected"
  <2>1. PICK n \in WriteSizes : WriteConnected(c, n, i)
    BY <1>2 DEF Write
  <2>0. n \in Nat \ {0}
    BY ConnAssumption
  <2>2. CASE /\ Accepts(c, n) /\ OutboundWrite(c, n)
             /\ Buffered(c, i) /\ UNCHANGED <<got, queue>>
    <3>1. wrote' \in [Conns -> Nat]
      BY <2>0, <2>2 DEF DataType, Accepts
    <3>2. DataType'
      BY <2>0, <2>2, <3>1, OutboundType DEF DataType
    <3> QED BY <1>2, <2>2, <3>2, BufferedEffect DEF OtherTasks
  <2>3. CASE io' = i /\ UNCHANGED <<dataVars, queue>>
    BY <2>3, SamePoller DEF OtherTasks, DataType, dataVars
  <2>4. CASE io' = Assert(i, FALSE) /\ "again" \in WriteOutcomes /\ UNCHANGED <<dataVars, queue>>
    <3>1. /\ io'.map = i.map /\ io'.reg = i.reg /\ io'.chan = i.chan
          /\ io' \in IoType
      BY <2>4 DEF Assert, IoType
    <3>2. PollerOK(io') /\ AcceptorOK(io')
      BY <3>1, SameFields
    <3> QED BY <2>4, <3>1, <3>2 DEF KeepsChannels, Benign, OtherTasks, DataType, dataVars
  <2>5. CASE /\ Accepts(c, n) /\ Sends(c, n)
             /\ Pushed(loopOf[c], Task("onWriteComplete", c))
             /\ io' = i /\ UNCHANGED <<out, capacity>>
    <3>1. DataType'
      BY <2>0, <2>5, SendsType DEF DataType
    <3>2. OtherTasks
      BY <2>5, OtherTask DEF OtherTasks, OwnersType
    <3> QED BY <2>5, <3>1, <3>2, SamePoller
  <2>6. ASSUME NEW k \in 1..(n - 1), Sends(c, k), OutboundWrite(c, n - k), Accepts(c, n),
               Buffered(c, i), UNCHANGED queue
        PROVE  KeepsChannels(i, io') /\ OtherTasks /\ DataType'
    <3>1. k \in Nat /\ n - k \in Nat \ {0}
      BY <2>0
    <3>2. DataType'
      BY <2>0, <2>6, <3>1, SendsType, OutboundType DEF DataType
    <3> QED BY <1>2, <2>6, <3>2, BufferedEffect DEF OtherTasks
  <2> QED BY <2>1, <2>2, <2>3, <2>4, <2>5, <2>6 DEF WriteConnected, Pushed
<1> QED BY <1>1, <1>2

\* A connection that is Connected owns its number and is registered.
ConnectedOwns(c) ==
    state[c] = "Connected" =>
        file[fdOf[c]] = c /\ fdOf[c] # 0 /\ io.chan[c].index # "new"

\* A callback of the user.
LEMMA CallbackEffect ==
  ASSUME OwnersType, TasksType, DataType, state \in [Conns -> States],
         io \in IoType, PollerOK(io), AcceptorOK(io),
         NEW c \in Conns, ConnectedOwns(c), NEW mayShut, UserCallback(c, mayShut)
  PROVE  KeepsChannels(io, io') /\ OtherTasks /\ DataType' /\ StateMoves
<1>1. CASE DoNothing(io)
  BY <1>1, SamePoller DEF DoNothing, OtherTasks, DataType, dataVars, StateMoves
<1>2. CASE Write(c, state[c], io) /\ UNCHANGED state
  <2> DEFINE st == state[c]
  <2>1. st = "Connected" =>
           file[fdOf[c]] = c /\ fdOf[c] # 0 /\ io.chan[c].index # "new"
    BY DEF ConnectedOwns
  <2>2. Write(c, st, io)
    BY <1>2
  <2> HIDE DEF st
  <2>3. KeepsChannels(io, io') /\ OtherTasks /\ DataType'
    BY <2>1, <2>2, WriteEffect
  <2> QED BY <1>2, <2>3 DEF StateMoves
<1>3. CASE ShutdownWrite(c)
  <2>1. OtherTasks
    BY <1>3, OtherTask DEF ShutdownWrite, OtherTasks, Pushed, OwnersType
  <2>2. StateMoves
    BY <1>3 DEF ShutdownWrite, StateMoves, States
  <2>3. KeepsChannels(io, io')
    BY <1>3, SamePoller DEF ShutdownWrite
  <2>4. DataType'
    BY <1>3 DEF ShutdownWrite, DataType, dataVars
  <2> QED BY <2>1, <2>2, <2>3, <2>4
<1> QED BY <1>1, <1>2, <1>3 DEF UserCallback

-----------------------------------------------------------------------------
(* Steps that leave every connection in its phase.                          *)

\* The pollers after a step that changes no owner of a number.
LEMMA PollerPrimed ==
  ASSUME UNCHANGED <<file, idVars>>, PollerOK(io'), AcceptorOK(io')
  PROVE  PollerOK(io)' /\ AcceptorOK(io)'
<1>1. file' = file /\ fdOf' = fdOf /\ loopOf' = loopOf
  BY DEF idVars
<1>2. ASSUME NEW l \in Loops, NEW f \in Fds \ {0} PROVE NumberOK(io, l, f)'
  <2>1. NumberOK(io', l, f)
    BY DEF PollerOK
  <2> QED BY <1>1, <2>1 DEF NumberOK
<1>3. ASSUME NEW c \in Conns PROVE ChannelOK(io, c)'
  <2>1. ChannelOK(io', c)
    BY DEF PollerOK
  <2> QED BY <1>1, <2>1 DEF ChannelOK
<1>4. AcceptorOK(io)'
  BY <1>1 DEF AcceptorOK
<1> QED BY <1>2, <1>3, <1>4 DEF PollerOK

\* Loop l is closing the descriptor of c.
ClosingNow(c) == lpc[loopOf[c]] = "close" /\ Head(batch[loopOf[c]]).conn = c

\* What ConnOK says of c does not change, but for its state.
SameConn(c) ==
    /\ loopOf'[c] = loopOf[c] /\ fdOf'[c] = fdOf[c]
    /\ file'[fdOf[c]] = c <=> file[fdOf[c]] = c
    /\ io'.chan[c].index = "new" <=> io.chan[c].index = "new"
    /\ EventRead \in io'.chan[c].events <=> EventRead \in io.chan[c].events
    /\ c \in connMap' <=> c \in connMap
    /\ ClosingNow(c)' <=> ClosingNow(c)
    /\ caller'[c] = "checked" => state'[c] \notin {"none", "Connecting"}

SameTasksOf(c) ==
    \A m \in Loops, op \in KeyOps :
        /\ Has(Todo(m), Task(op, c))' <=> Has(Todo(m), Task(op, c))
        /\ Once(Todo(m), Task(op, c)) => Once(Todo(m), Task(op, c))'

\* Such a connection stays in its phase.
LEMMA ConnFrame ==
  ASSUME NEW c \in Conns, ConnOK(c), loopOf[c] \in Loops, SameConn(c), SameTasksOf(c),
         \/ state'[c] = state[c]
         \/ /\ state[c] \in {"Connected", "Disconnecting", "Disconnected"}
            /\ state'[c] = "Disconnecting"
  PROVE  ConnOK(c)'
<1> DEFINE l == loopOf[c]
<1>1. /\ l \in Loops /\ Boss \in Loops
      /\ (loopOf[c])' = l
  BY Numbers DEF SameConn
<1>2. \A m \in Loops :
        /\ Has(Todo(m), Task("connectEstablished", c))' <=> Has(Todo(m), Task("connectEstablished", c))
        /\ Has(Todo(m), Task("removeConn", c))' <=> Has(Todo(m), Task("removeConn", c))
        /\ Has(Todo(m), Task("connectDestroyed", c))' <=> Has(Todo(m), Task("connectDestroyed", c))
        /\ \A op \in KeyOps : Once(Todo(m), Task(op, c)) => Once(Todo(m), Task(op, c))'
  BY DEF SameTasksOf, KeyOps
<1>3. TasksOK(c)'
  BY <1>1, <1>2 DEF ConnOK, TasksOK, KeyOps
<1> DEFINE est == Has(Todo(l), Task("connectEstablished", c))
           rem == Has(Todo(Boss), Task("removeConn", c))
           des == Has(Todo(l), Task("connectDestroyed", c))
<1>4. /\ Has(Todo(loopOf[c]), Task("connectEstablished", c))' <=> est
      /\ Has(Todo(Boss), Task("removeConn", c))' <=> rem
      /\ Has(Todo(loopOf[c]), Task("connectDestroyed", c))' <=> des
  BY <1>1, <1>2 DEF SameConn, Has, Todo, Task
<1> DEFINE owns == file[fdOf[c]] = c
           ind == io.chan[c].index
           reading == EventRead \in io.chan[c].events
           mapped == c \in connMap
           closing == ClosingNow(c)
<1>5. Phase(state[c], owns, ind, reading, mapped, est, rem, des, closing)
  BY DEF ConnOK, PhaseOK, ClosingNow
<1>6. /\ (file[fdOf[c]] = c)' <=> owns
      /\ io'.chan[c].index = "new" <=> ind = "new"
      /\ EventRead \in io'.chan[c].events <=> reading
      /\ c \in connMap' <=> mapped
      /\ (lpc[loopOf[c]] = "close" /\ Head(batch[loopOf[c]]).conn = c)' <=> closing
  BY DEF SameConn, ClosingNow
<1> HIDE DEF est, rem, des, owns, ind, reading, mapped, closing
<1>7. PhaseOK(c)'
  BY <1>4, <1>5, <1>6 DEF Phase, PhaseOK
<1>8. (caller[c] = "checked" => state[c] \notin {"none", "Connecting"})'
  BY DEF SameConn
<1> QED BY <1>3, <1>7, <1>8 DEF ConnOK

\* A loop that stays where it is, and whose events stay true.
LEMMA LoopFrame ==
  ASSUME NEW l \in Loops, LoopOK(l), lpc'[l] = lpc[l], active'[l] \subseteq active[l],
         batch'[l] = batch[l] \/ lpc[l] = "tasks",
         \A e \in active'[l] :
            /\ e.ch \in Conns /\ EventRead \in e.revents =>
                  /\ loopOf'[e.ch] = loopOf[e.ch]
                  /\ EventRead \in io.chan[e.ch].events => EventRead \in io'.chan[e.ch].events
            /\ e.ch = 0 /\ l = Boss =>
                  /\ file'[0] = file[0] /\ (backlog > 0 => backlog' > 0)
                  /\ io.chan[0].index = "add" => io'.chan[0].index = "add"
  PROVE  LoopOK(l)'
<1>1. /\ lpc'[l] # "events" => active'[l] = {}
      /\ lpc'[l] \in {"poll", "events"} => batch'[l] = <<>>
      /\ lpc'[l] = "close" => batch'[l] # <<>> /\ Head(batch'[l]).op = "connectDestroyed"
  BY DEF LoopOK
<1>2. ASSUME NEW e \in active'[l]
      PROVE  /\ e.ch \in Conns /\ EventRead \in e.revents =>
                   loopOf'[e.ch] = l /\ EventRead \in io'.chan[e.ch].events
             /\ e.ch = 0 /\ l = Boss =>
                   file'[0] = 0 /\ backlog' > 0 /\ io'.chan[0].index = "add"
             /\ \A d \in active'[l] : d.ch = e.ch => d = e
  BY DEF LoopOK
<1> QED BY <1>1, <1>2 DEF LoopOK

\* A step that takes no connection from one phase to another.
Quiet ==
    /\ KeepsChannels(io, io') /\ SameKeyTasks /\ StateMoves
    /\ UNCHANGED <<lpc, file, idVars, connMap, nextConnId>>
    /\ \A l \in Loops : /\ active'[l] \subseteq active[l]
                        /\ batch'[l] = batch[l] \/ lpc[l] = "tasks"
    /\ backlog' >= backlog /\ nextConnId + backlog' <= clients' + 1
    /\ \A c \in Conns : caller'[c] = "checked" => state'[c] \notin {"none", "Connecting"}

\* The parts of the invariant that are about one loop or one connection.
LEMMA Parts ==
  ASSUME CoreInv
  PROVE  /\ OwnersType /\ TasksType /\ DataType /\ io \in IoType
         /\ PollerOK(io) /\ AcceptorOK(io) /\ FilesOK
         /\ \A l \in Loops : LoopOK(l)
         /\ \A c \in Conns : ConnOK(c) /\ loopOf[c] \in Loops /\ fdOf[c] \in Fds
BY DEF CoreInv, TypeOK, ConnTypeOK, OwnersType, TasksType, DataType

\* A step that leaves connections, descriptors and key tasks alone.
LEMMA QuietStep ==
  ASSUME CoreInv, TypeOK', Quiet
  PROVE  CoreInv'
<1>1. ASSUME NEW l \in Loops PROVE LoopOK(l)'
  <2>1. LoopOK(l)
    BY Parts
  <2>2. /\ lpc'[l] = lpc[l] /\ active'[l] \subseteq active[l]
        /\ batch'[l] = batch[l] \/ lpc[l] = "tasks"
    BY DEF Quiet
  <2>3. \A e \in active'[l] :
          /\ e.ch \in Conns /\ EventRead \in e.revents =>
                /\ loopOf'[e.ch] = loopOf[e.ch]
                /\ EventRead \in io.chan[e.ch].events => EventRead \in io'.chan[e.ch].events
          /\ e.ch = 0 /\ l = Boss =>
                /\ file'[0] = file[0] /\ (backlog > 0 => backlog' > 0)
                /\ io.chan[0].index = "add" => io'.chan[0].index = "add"
    <3>1. backlog \in Nat /\ backlog' \in Nat /\ backlog' >= backlog
      BY ConnAssumption DEF CoreInv, TypeOK, Quiet
    <3> QED BY <3>1 DEF Quiet, KeepsChannels, idVars
  <2> QED BY <2>1, <2>2, <2>3, LoopFrame
<1>2. PollerOK(io)' /\ AcceptorOK(io)'
  BY PollerPrimed DEF Quiet, KeepsChannels
<1>3. FilesOK'
  <2>1. FilesOK
    BY Parts
  <2>2. /\ file' = file /\ fdOf' = fdOf /\ nextConnId' = nextConnId
        /\ nextConnId' + backlog' <= clients' + 1
    BY DEF Quiet, idVars
  <2>3. \A c \in Conns : state'[c] = "none" <=> state[c] = "none"
    BY DEF Quiet, StateMoves
  <2> QED BY <2>1, <2>2, <2>3 DEF FilesOK
<1>4. ASSUME NEW c \in Conns PROVE ConnOK(c)'
  <2>1. ConnOK(c) /\ loopOf[c] \in Loops
    BY Parts
  <2>2. SameConn(c)
    <3>1. /\ loopOf' = loopOf /\ fdOf' = fdOf /\ file' = file /\ connMap' = connMap
          /\ lpc' = lpc
      BY DEF Quiet, idVars
    <3>2. ClosingNow(c)' <=> ClosingNow(c)
      BY <2>1, <3>1 DEF ClosingNow, Quiet
    <3> QED BY <3>1, <3>2 DEF SameConn, Quiet, KeepsChannels
  <2>3. SameTasksOf(c)
    BY DEF Quiet, SameKeyTasks, SameTasksOf
  <2>4. \/ state'[c] = state[c]
        \/ /\ state[c] \in {"Connected", "Disconnecting", "Disconnected"}
           /\ state'[c] = "Disconnecting"
    BY DEF Quiet, StateMoves
  <2> QED BY <2>1, <2>2, <2>3, <2>4, ConnFrame
<1>5. (Benign => io.ok)'
  BY DEF Quiet, KeepsChannels, CoreInv
<1> QED BY <1>1, <1>2, <1>3, <1>4, <1>5 DEF CoreInv

\* The task a loop is about to call.
LEMMA HeadTask ==
  ASSUME TasksType, NEW l \in Loops, batch[l] # <<>>
  PROVE  /\ Head(batch[l]) \in Tasks
         /\ Head(batch[l]) = Task(Head(batch[l]).op, Head(batch[l]).conn)
         /\ Head(batch[l]).op # "listen" => Head(batch[l]).conn \in Conns
<1>1. batch[l] \in Seq(Tasks)
  BY DEF TasksType
<1>2. Head(batch[l]) \in Tasks
  BY <1>1, HeadTailProperties
<1> QED BY <1>2, Numbers DEF Tasks, Task

\* Nothing but tasks that are not key tasks is pushed, and none else is taken.
LEMMA OtherTasksOnly ==
  ASSUME TasksType, OtherTasks,
         \/ UNCHANGED batch
         \/ \E l \in Loops : batch[l] # <<>> /\ TaskDone(l) /\ Head(batch[l]).op \notin KeyOps
  PROVE  TasksType' /\ SameKeyTasks
<1>1. CASE UNCHANGED batch /\ UNCHANGED queue
  <2>1. \A m \in Loops : Todo(m)' = Todo(m)
    BY <1>1 DEF Todo
  <2> QED BY <1>1 DEF TasksType, SameKeyTasks, Has, Once, Todo, Task
<1>2. ASSUME UNCHANGED batch, NEW k \in Loops, NEW t \in Tasks, t.op \notin KeyOps, Pushed(k, t)
      PROVE  TasksType' /\ SameKeyTasks
  BY <1>2, OtherPush
<1>3. ASSUME NEW l \in Loops, batch[l] # <<>>, TaskDone(l), Head(batch[l]).op \notin KeyOps
      PROVE  TasksType' /\ SameKeyTasks
  BY <1>3, OtherDone DEF OtherTasks
<1> QED BY <1>1, <1>2, <1>3 DEF OtherTasks

\* A connection never has the number of the acceptor; one that is Connected
\* owns its number and is registered.
LEMMA Owns ==
  ASSUME CoreInv, NEW c \in Conns
  PROVE  (file[fdOf[c]] = c => fdOf[c] # 0) /\ ConnectedOwns(c)
<1>1. FilesOK /\ PhaseOK(c)
  BY Parts DEF ConnOK
<1>2. file[fdOf[c]] = c => fdOf[c] # 0
  BY <1>1, Numbers DEF FilesOK
<1>3. state[c] = "Connected" => file[fdOf[c]] = c /\ io.chan[c].index # "new"
  BY <1>1 DEF PhaseOK, Phase
<1> QED BY <1>2, <1>3 DEF ConnectedOwns

\* One number and one channel of the pollers change.
IoSet(i, j, l, f, ch, m, r, h) ==
    j = IoRec([i.map EXCEPT ![l][f] = m], [i.reg EXCEPT ![l][f] = r],
              [i.chan EXCEPT ![ch] = h], i.ok)

\* The fields of a poller after one channel was written, one by one.
LEMMA IoFields ==
  ASSUME NEW i \in IoType, NEW j, NEW l \in Loops, NEW f \in Fds, NEW ch \in Channels,
         NEW m \in Channels \cup {None},
         NEW r \in [ch : Channels \cup {None}, events : SUBSET {EventRead, EventWrite}],
         NEW h \in [events : SUBSET {EventRead, EventWrite}, index : {"new", "add", "del"}],
         IoSet(i, j, l, f, ch, m, r, h)
  PROVE  /\ j \in IoType /\ j.ok = i.ok
         /\ \A n \in Loops, g \in Fds :
              /\ j.map[n][g] = IF n = l /\ g = f THEN m ELSE i.map[n][g]
              /\ j.reg[n][g] = IF n = l /\ g = f THEN r ELSE i.reg[n][g]
         /\ \A d \in Channels : j.chan[d] = IF d = ch THEN h ELSE i.chan[d]
<1>1. /\ j.map = [i.map EXCEPT ![l][f] = m]
      /\ j.reg = [i.reg EXCEPT ![l][f] = r]
      /\ j.chan = [i.chan EXCEPT ![ch] = h]
      /\ j.ok = i.ok
      /\ j = [map |-> j.map, reg |-> j.reg, chan |-> j.chan, ok |-> j.ok]
  BY DEF IoRec, IoSet
<1>2. /\ j.map \in [Loops -> [Fds -> Channels \cup {None}]]
      /\ \A n \in Loops, g \in Fds : j.map[n][g] = IF n = l /\ g = f THEN m ELSE i.map[n][g]
  BY <1>1 DEF IoType
<1>3. /\ j.reg \in [Loops -> [Fds -> [ch : Channels \cup {None},
                                      events : SUBSET {EventRead, EventWrite}]]]
      /\ \A n \in Loops, g \in Fds : j.reg[n][g] = IF n = l /\ g = f THEN r ELSE i.reg[n][g]
  BY <1>1 DEF IoType
<1>4. /\ j.chan \in [Channels -> [events : SUBSET {EventRead, EventWrite},
                                  index : {"new", "add", "del"}]]
      /\ \A d \in Channels : j.chan[d] = IF d = ch THEN h ELSE i.chan[d]
  BY <1>1 DEF IoType
<1>5. j.ok \in BOOLEAN
  BY <1>1 DEF IoType
<1>6. j \in IoType
  BY <1>1, <1>2, <1>3, <1>4, <1>5 DEF IoType
<1> QED BY <1>1, <1>2, <1>3, <1>4, <1>6

\* acceptor.listen: the listening socket is watched, once.
LEMMA ListenEffect ==
  ASSUME OwnersType, io \in IoType, PollerOK(io), AcceptorOK(io),
         NEW j, j = enableReading(io, Boss, 0, 0)
  PROVE  KeepsChannels(io, j) /\ \A c \in Conns : j.chan[c] = io.chan[c]
<1>1. /\ 0 \in Fds /\ 0 \in Channels /\ Boss \in Loops /\ 0 # None
      /\ {EventRead} \in SUBSET {EventRead, EventWrite} /\ {EventRead} # {}
  BY Numbers
<1>2. CASE io.chan[0] = [events |-> {}, index |-> "new"]
  <2> DEFINE r == [ch |-> 0, events |-> {EventRead}]
             h == [events |-> {EventRead}, index |-> "add"]
  <2>1. j = setEvents(io, Boss, 0, 0, {EventRead})
    BY <1>2 DEF enableReading
  <2>2. Unregistered(io, Boss, 0, 0) /\ file[0] = 0
    BY <1>1, <1>2 DEF AcceptorOK, Unregistered
  <2>3. j = IoRec([io.map EXCEPT ![Boss][0] = 0],
                  [io.reg EXCEPT ![Boss][0] = r], [io.chan EXCEPT ![0] = h], io.ok)
    BY <1>1, <2>1, <2>2, SetEvents
  <2>4. IoSet(io, j, Boss, 0, 0, 0, r, h)
    BY <2>3 DEF IoSet
  <2>5. /\ r \in [ch : Channels \cup {None}, events : SUBSET {EventRead, EventWrite}]
        /\ h \in [events : SUBSET {EventRead, EventWrite}, index : {"new", "add", "del"}]
        /\ 0 \in Channels \cup {None}
    BY <1>1
  <2> HIDE DEF r, h
  <2>6. /\ j \in IoType /\ j.ok = io.ok
        /\ \A l \in Loops, f \in Fds :
             /\ j.map[l][f] = IF l = Boss /\ f = 0 THEN 0 ELSE io.map[l][f]
             /\ j.reg[l][f] = IF l = Boss /\ f = 0 THEN r ELSE io.reg[l][f]
        /\ \A d \in Channels : j.chan[d] = IF d = 0 THEN h ELSE io.chan[d]
    BY <1>1, <2>4, <2>5, IoFields
  <2>7. \A c \in Conns : j.chan[c] = io.chan[c]
    BY <2>6, Numbers
  <2>8. ASSUME NEW l \in Loops, NEW f \in Fds \ {0} PROVE NumberOK(j, l, f)
    <3>1. NumberOK(io, l, f)
      BY DEF PollerOK
    <3>2. j.map[l][f] = io.map[l][f] /\ j.reg[l][f] = io.reg[l][f]
      BY <2>6
    <3> QED BY <2>7, <3>1, <3>2 DEF NumberOK
  <2>9. ASSUME NEW c \in Conns PROVE ChannelOK(j, c)
    <3>1. ChannelOK(io, c) /\ j.chan[c] = io.chan[c] /\ loopOf[c] \in Loops /\ fdOf[c] \in Fds
      BY <2>7 DEF PollerOK, OwnersType
    <3>2. ASSUME io.chan[c].index # "new"
          PROVE  j.map[loopOf[c]][fdOf[c]] = io.map[loopOf[c]][fdOf[c]]
      BY <2>6, <3>1, <3>2 DEF ChannelOK
    <3> QED BY <3>1, <3>2 DEF ChannelOK
  <2>10. AcceptorOK(j)
    <3>1. j.chan[0] = h
      BY <1>1, <2>6
    <3>2. \A l \in Loops :
             /\ j.map[l][0] = IF l = Boss THEN 0 ELSE io.map[l][0]
             /\ j.reg[l][0] = IF l = Boss THEN r ELSE io.reg[l][0]
      BY <1>1, <2>6
    <3>3. h.index = "add" /\ h = [events |-> {EventRead}, index |-> "add"]
      BY DEF h
    <3>4. \A l \in Loops : l # Boss => io.map[l][0] = None /\ io.reg[l][0] = NoReg
      BY <1>2 DEF AcceptorOK
    <3>5. r = [ch |-> 0, events |-> {EventRead}]
      BY DEF r
    <3> QED BY <2>2, <3>1, <3>2, <3>3, <3>4, <3>5 DEF AcceptorOK
  <2> QED BY <1>2, <2>6, <2>7, <2>8, <2>9, <2>10 DEF KeepsChannels, PollerOK
<1>3. CASE io.chan[0] = [events |-> {EventRead}, index |-> "add"]
  <2>1. io.map[Boss][0] = 0
    BY <1>1, <1>3 DEF AcceptorOK
  <2>2. \/ io.reg[Boss][0] = NoReg
        \/ io.reg[Boss][0] = [ch |-> 0, events |-> {EventRead}]
    BY <1>1 DEF AcceptorOK
  <2>3. /\ [io.chan EXCEPT ![0].events = {EventRead}] = io.chan
        /\ io = IoRec(io.map, io.reg, io.chan, io.ok)
    BY <1>1, <1>3 DEF IoType, IoRec
  <2>4. j = updateChannel(io, Boss, 0, 0)
    <3>1. j = setEvents(io, Boss, 0, 0, {EventRead})
      BY <1>3 DEF enableReading
    <3>2. [io EXCEPT !.chan[0].events = {EventRead}] =
            IoRec(io.map, io.reg, [io.chan EXCEPT ![0].events = {EventRead}], io.ok)
      BY EventsSet
    <3>3. [io EXCEPT !.chan[0].events = {EventRead}] = io
      BY <2>3, <3>2
    <3> QED BY <3>1, <3>3 DEF setEvents
  <2>5. j = update(Assert(io, io.map[Boss][0] = 0), "MOD", Boss, 0, 0)
    BY <1>3, <2>4 DEF updateChannel
  <2>6. Assert(io, io.map[Boss][0] = 0) = io
    BY <2>1 DEF Assert, IoType
  <2>7. update(io, "MOD", Boss, 0, 0) = io
    <3>1. CASE io.reg[Boss][0] = NoReg
      BY <3>1 DEF update
    <3>2. CASE io.reg[Boss][0] = [ch |-> 0, events |-> {EventRead}]
      <4>1. io.reg[Boss][0] # NoReg
        BY <1>1, <3>2 DEF NoReg
      <4>2. update(io, "MOD", Boss, 0, 0) =
            [io EXCEPT !.reg[Boss][0] = [ch |-> 0, events |-> {EventRead}]]
        BY <1>3, <4>1 DEF update
      <4>3. [io EXCEPT !.reg[Boss][0] = [ch |-> 0, events |-> {EventRead}]] = io
        BY <1>1, <3>2 DEF IoType
      <4> QED BY <4>2, <4>3
    <3> QED BY <2>2, <3>1, <3>2
  <2> QED BY <2>5, <2>6, <2>7, SamePoller
<1> QED BY <1>2, <1>3 DEF AcceptorOK

-----------------------------------------------------------------------------
(* The steps that are quiet.                                                *)

\* Parts of Quiet that most steps have for the same reason.
LEMMA CountsKept ==
  ASSUME CoreInv, UNCHANGED <<nextConnId, backlog, clients>>
  PROVE  backlog' >= backlog /\ nextConnId + backlog' <= clients' + 1
<1>1. nextConnId + backlog <= clients + 1 /\ backlog \in Nat
  BY ConnAssumption DEF CoreInv, FilesOK, TypeOK
<1> QED BY <1>1

\* A goroutine inside ShutdownWrite still has a connection past Connecting.
LEMMA CallersKept ==
  ASSUME CoreInv, StateMoves, UNCHANGED caller
  PROVE  \A c \in Conns : caller'[c] = "checked" => state'[c] \notin {"none", "Connecting"}
<1>1. \A c \in Conns : caller[c] = "checked" => state[c] \notin {"none", "Connecting"}
  BY Parts DEF ConnOK
<1> QED BY <1>1 DEF StateMoves

\* No state moves when none is assigned.
LEMMA StatesKept ==
  ASSUME CoreInv, UNCHANGED state
  PROVE  StateMoves
BY DEF CoreInv, TypeOK, ConnTypeOK, StateMoves

\* TcpServer.Start, up to the look at listening.
LEMMA StartKeeps ==
  ASSUME CoreInv, Start
  PROVE  CoreInv'
<1>1. UNCHANGED connVars
  BY DEF Start
<1>2. TasksType' /\ SameKeyTasks
  BY <1>1, Parts, OtherTasksOnly DEF OtherTasks, connVars, taskVars
<1>3. TypeOK'
  <2>1. ConnTypeOK'
    BY <1>1 DEF CoreInv, TypeOK, ConnTypeOK, connVars, loopVars, taskVars, idVars, dataVars, peerVars
  <2>2. starts' \in 0..MaxStarts
    BY ServerAssumption DEF Start, CoreInv, TypeOK
  <2>3. works' \in {0, EngineCnt} /\ started' \in BOOLEAN /\ starting' \in BOOLEAN
    BY DEF Start, CoreInv, TypeOK
  <2> QED BY <2>1, <2>2, <2>3 DEF Start, CoreInv, TypeOK
<1>4. StateMoves /\ UNCHANGED caller
  BY <1>1, StatesKept DEF connVars
<1>5. KeepsChannels(io, io')
  BY <1>1, Parts, SamePoller DEF connVars
<1>6. Quiet
  BY <1>1, <1>2, <1>4, <1>5, CountsKept, CallersKept DEF Start, Quiet, connVars, loopVars, taskVars
<1> QED BY <1>3, <1>6, QuietStep

\* The rest of TcpServer.Start.
LEMMA StartQueuesKeeps ==
  ASSUME CoreInv, StartQueues
  PROVE  CoreInv'
<1>1. OtherTasks /\ UNCHANGED batch
  <2>1. Task("listen", 0) \in Tasks /\ Task("listen", 0).op \notin KeyOps
    BY Numbers DEF Task, Tasks, Ops, KeyOps
  <2> QED BY <2>1, Numbers DEF StartQueues, OtherTasks, Pushed
<1>2. TasksType' /\ SameKeyTasks
  BY <1>1, Parts, OtherTasksOnly
<1>3. TypeOK'
  <2>1. ConnTypeOK'
    BY <1>2 DEF StartQueues, CoreInv, TypeOK, ConnTypeOK, TasksType, loopVars, idVars, dataVars, peerVars
  <2> QED BY <2>1 DEF StartQueues, CoreInv, TypeOK
<1>4. StateMoves
  BY StatesKept DEF StartQueues
<1>5. KeepsChannels(io, io')
  BY Parts, SamePoller DEF StartQueues
<1>6. Quiet
  BY <1>1, <1>2, <1>4, <1>5, CountsKept, CallersKept DEF StartQueues, Quiet, loopVars
<1> QED BY <1>3, <1>6, QuietStep

\* The task at the head of the boss's batch.
LEMMA ListenIsHead ==
  ASSUME TasksType, TaskIs(Boss, "listen")
  PROVE  /\ Head(batch[Boss]) = Task("listen", 0)
         /\ Has(Todo(Boss), Task("listen", 0))
<1>1. Boss \in Loops /\ batch[Boss] # <<>> /\ Head(batch[Boss]).op = "listen"
  BY Numbers DEF TaskIs
<1>2. batch[Boss] \in Seq(Tasks) /\ queue[Boss] \in Seq(Tasks)
  BY <1>1 DEF TasksType
<1>3. Head(batch[Boss]) = Task("listen", 0)
  BY <1>1, HeadTask DEF Tasks, Task
<1>4. /\ Todo(Boss) \in Seq(Tasks) /\ Todo(Boss) # <<>>
      /\ Head(Todo(Boss)) = Head(batch[Boss])
  <2>1. \A b, q \in Seq(Tasks) :
          b # <<>> => b \o q \in Seq(Tasks) /\ b \o q # <<>> /\ Head(b \o q) = Head(b)
    BY ConcatTake
  <2> QED BY <1>1, <1>2, <2>1 DEF Todo
<1> QED BY <1>3, <1>4, HasTail

\* acceptor.listen, on the boss.
LEMMA ListenKeeps ==
  ASSUME CoreInv, ListenOK, Listen
  PROVE  CoreInv'
<1>0. Boss \in Loops /\ "listen" \notin KeyOps
  BY Numbers DEF KeyOps
<1>1. /\ OtherTasks /\ batch[Boss] # <<>> /\ TaskDone(Boss)
      /\ Head(batch[Boss]).op \notin KeyOps /\ lpc[Boss] = "tasks"
  BY <1>0 DEF Listen, OtherTasks, TaskIs
<1>2. TasksType' /\ SameKeyTasks
  BY <1>0, <1>1, Parts, OtherTasksOnly
<1>3. KeepsChannels(io, io')
  <2>1. CASE file[0] = 0
    BY <2>1, Parts, ListenEffect DEF Listen
  <2>2. CASE file[0] # 0
    <3>1. Has(Todo(Boss), Task("listen", 0))
      BY Parts, ListenIsHead DEF Listen
    <3>2. ~Benign
      BY <2>2, <3>1 DEF Benign, ListenOK
    <3>3. /\ io'.map = io.map /\ io'.reg = io.reg /\ io'.chan = io.chan
          /\ io' \in IoType
      BY <2>2, Parts DEF Listen, Assert, IoType
    <3>4. PollerOK(io') /\ AcceptorOK(io')
      BY <3>3, Parts, SameFields
    <3> QED BY <3>2, <3>3, <3>4 DEF KeepsChannels
  <2> QED BY <2>1, <2>2
<1>4. TypeOK'
  BY <1>2, <1>3 DEF Listen, CoreInv, TypeOK, ConnTypeOK, TasksType, KeepsChannels,
                    loopVars, idVars, dataVars, peerVars, startVars
<1>5. StateMoves
  BY StatesKept DEF Listen
<1>6. \A l \in Loops : batch'[l] = batch[l] \/ lpc[l] = "tasks"
  BY <1>1 DEF TaskDone, CoreInv, TypeOK, ConnTypeOK
<1>7. Quiet
  BY <1>2, <1>3, <1>5, <1>6, CountsKept, CallersKept DEF Listen, Quiet, loopVars
<1> QED BY <1>4, <1>7, QuietStep

\* A client enters the backlog.
LEMMA ClientConnectsKeeps ==
  ASSUME CoreInv, ClientConnects
  PROVE  CoreInv'
<1>1. UNCHANGED connVars
  BY DEF ClientConnects
<1>2. TasksType' /\ SameKeyTasks
  BY <1>1, Parts, OtherTasksOnly DEF OtherTasks, connVars, taskVars
<1>3. nextConnId \in Nat \ {0} /\ backlog \in Nat /\ clients \in Nat /\ nextConnId + backlog <= clients + 1
  BY ConnAssumption DEF CoreInv, FilesOK, TypeOK
<1>4. backlog' \in 0..MaxConns /\ clients' \in 0..MaxConns
  BY <1>3, ConnAssumption DEF ClientConnects, CoreInv, TypeOK
<1>5. TypeOK'
  <2>1. ConnTypeOK'
    BY <1>1 DEF CoreInv, TypeOK, ConnTypeOK, connVars, loopVars, taskVars, idVars, dataVars, peerVars
  <2> QED BY <1>4, <2>1 DEF ClientConnects, CoreInv, TypeOK, startVars
<1>6. StateMoves /\ UNCHANGED caller
  BY <1>1, StatesKept DEF connVars
<1>7. KeepsChannels(io, io')
  BY <1>1, Parts, SamePoller DEF connVars
<1>8. backlog' >= backlog /\ nextConnId + backlog' <= clients' + 1
  BY <1>3 DEF ClientConnects
<1>9. Quiet
  BY <1>1, <1>2, <1>6, <1>7, <1>8, CallersKept DEF ClientConnects, Quiet, connVars, loopVars, taskVars
<1> QED BY <1>5, <1>9, QuietStep

\* AsyncWrite and the closures and callbacks of a connection: the rest of Quiet.
LEMMA ConnQuiet ==
  ASSUME CoreInv, KeepsChannels(io, io'), SameKeyTasks, StateMoves,
         UNCHANGED <<lpc, file, idVars, serverVars, caller>>,
         \A l \in Loops : /\ active'[l] \subseteq active[l]
                          /\ batch'[l] = batch[l] \/ lpc[l] = "tasks"
  PROVE  Quiet
<1>1. UNCHANGED <<nextConnId, backlog, clients, connMap, caller, lpc, file, idVars>>
  BY DEF serverVars
<1> QED BY <1>1, CountsKept, CallersKept DEF Quiet

ActiveType == [Loops -> SUBSET [ch : Channels, revents : SUBSET {EventRead, EventWrite}]]

\* The types after such a step.
LEMMA ConnTypes ==
  ASSUME CoreInv, io' \in IoType, TasksType', DataType', state' \in [Conns -> States],
         UNCHANGED <<lpc, file, idVars, serverVars>>, msgs' \in [Conns -> Nat],
         active' \in ActiveType,
         shutWr' \in [Conns -> BOOLEAN], caller' \in [Conns -> {"idle", "checked"}],
         peer' \in [Conns -> {"none", "open", "closed", "reset"}], unread' \in [Conns -> Nat]
  PROVE  TypeOK'
<1>1. ConnTypeOK'
  BY DEF CoreInv, TypeOK, ConnTypeOK, TasksType, DataType, ActiveType, idVars
<1> QED BY <1>1 DEF CoreInv, TypeOK, serverVars, startVars

\* The variables of the peers and the callers have their types.
LEMMA OtherTypes ==
  ASSUME CoreInv
  PROVE  /\ shutWr \in [Conns -> BOOLEAN] /\ caller \in [Conns -> {"idle", "checked"}]
         /\ peer \in [Conns -> {"none", "open", "closed", "reset"}]
         /\ unread \in [Conns -> Nat] /\ msgs \in [Conns -> Nat]
         /\ state \in [Conns -> States] /\ lpc \in [Loops -> {"poll", "events", "tasks", "close"}]
         /\ active \in ActiveType
BY DEF CoreInv, TypeOK, ConnTypeOK, ActiveType

\* Write from another goroutine queues its closure.
LEMMA AsyncWriteKeeps ==
  ASSUME CoreInv, NEW c \in Conns, AsyncWrite(c), UNCHANGED serverVars
  PROVE  CoreInv'
<1>1. OtherTasks
  BY OtherTask, Parts DEF AsyncWrite, OtherTasks, Pushed
<1>2. TasksType' /\ SameKeyTasks
  BY <1>1, Parts, OtherTasksOnly DEF AsyncWrite
<1>3. StateMoves /\ KeepsChannels(io, io')
  BY StatesKept, Parts, SamePoller DEF AsyncWrite
<1>4. UNCHANGED <<lpc, active, batch, file, idVars, dataVars, shutWr, caller, peer, unread, msgs>>
  BY DEF AsyncWrite, loopVars, peerVars
<1>5. DataType'
  BY <1>4, Parts DEF DataType, dataVars
<1>6. Quiet
  BY <1>2, <1>3, <1>4, ConnQuiet
<1>7. TypeOK'
  BY <1>2, <1>3, <1>4, <1>5, OtherTypes, ConnTypes DEF KeepsChannels, StateMoves
<1> QED BY <1>6, <1>7, QuietStep

\* ShutdownWrite from another goroutine looks at the state.
LEMMA ShutdownWriteCheckKeeps ==
  ASSUME CoreInv, NEW c \in Conns, ShutdownWriteCheck(c), UNCHANGED serverVars
  PROVE  CoreInv'
<1>1. OtherTasks /\ UNCHANGED batch
  BY DEF ShutdownWriteCheck, OtherTasks, taskVars
<1>2. TasksType' /\ SameKeyTasks
  BY <1>1, Parts, OtherTasksOnly
<1>3. StateMoves /\ KeepsChannels(io, io')
  BY StatesKept, Parts, SamePoller DEF ShutdownWriteCheck
<1>4. UNCHANGED <<lpc, active, batch, file, idVars, dataVars, shutWr, peer, unread, msgs>>
  BY DEF ShutdownWriteCheck, loopVars, peerVars, taskVars
<1>5. DataType'
  BY <1>4, Parts DEF DataType, dataVars
<1>6. /\ caller' \in [Conns -> {"idle", "checked"}]
      /\ \A d \in Conns : caller'[d] = "checked" => state'[d] \notin {"none", "Connecting"}
  <2>1. \A d \in Conns : caller[d] = "checked" => state[d] \notin {"none", "Connecting"}
    BY Parts DEF ConnOK
  <2> QED BY <2>1, OtherTypes DEF ShutdownWriteCheck
<1>7. Quiet
  <2>1. UNCHANGED <<nextConnId, backlog, clients, connMap>>
    BY DEF serverVars
  <2> QED BY <1>2, <1>3, <1>4, <1>6, <2>1, CountsKept DEF Quiet
<1>8. TypeOK'
  BY <1>2, <1>3, <1>4, <1>5, <1>6, OtherTypes, ConnTypes DEF KeepsChannels, StateMoves
<1> QED BY <1>7, <1>8, QuietStep

\* ShutdownWrite stores the state and queues its closure.
LEMMA ShutdownWriteStoreKeeps ==
  ASSUME CoreInv, NEW c \in Conns, ShutdownWriteStore(c), UNCHANGED serverVars
  PROVE  CoreInv'
<1>1. OtherTasks /\ UNCHANGED batch
  BY OtherTask, Parts DEF ShutdownWriteStore, OtherTasks, Pushed
<1>2. TasksType' /\ SameKeyTasks
  BY <1>1, Parts, OtherTasksOnly
<1>3. StateMoves
  <2>1. state[c] \in {"Connected", "Disconnecting", "Disconnected"}
    BY OtherTypes, Parts DEF ShutdownWriteStore, ConnOK, States
  <2> QED BY <2>1, OtherTypes DEF ShutdownWriteStore, StateMoves, States
<1>4. KeepsChannels(io, io')
  BY Parts, SamePoller DEF ShutdownWriteStore
<1>5. UNCHANGED <<lpc, active, batch, file, idVars, dataVars, shutWr, peer, unread, msgs>>
  BY DEF ShutdownWriteStore, loopVars, peerVars
<1>6. DataType'
  BY <1>5, Parts DEF DataType, dataVars
<1>7. /\ caller' \in [Conns -> {"idle", "checked"}]
      /\ \A d \in Conns : caller'[d] = "checked" => state'[d] \notin {"none", "Connecting"}
  <2>1. \A d \in Conns : caller[d] = "checked" => state[d] \notin {"none", "Connecting"}
    BY Parts DEF ConnOK
  <2> QED BY <1>3, <2>1, OtherTypes DEF ShutdownWriteStore, StateMoves
<1>8. Quiet
  <2>1. UNCHANGED <<nextConnId, backlog, clients, connMap>>
    BY DEF serverVars
  <2> QED BY <1>2, <1>3, <1>4, <1>5, <1>7, <2>1, CountsKept DEF Quiet
<1>9. TypeOK'
  BY <1>2, <1>3, <1>4, <1>5, <1>6, <1>7, OtherTypes, ConnTypes DEF KeepsChannels, StateMoves
<1> QED BY <1>8, <1>9, QuietStep

\* The peer sends or closes.
LEMMA PeerKeeps ==
  ASSUME CoreInv, NEW c \in Conns, PeerSends(c) \/ PeerCloses(c), UNCHANGED serverVars
  PROVE  CoreInv'
<1>1. UNCHANGED <<lpc, active, queue, batch, io, file, state, idVars, dataVars, shutWr, caller>>
  BY DEF PeerSends, PeerCloses, loopVars, taskVars
<1>2. TasksType' /\ SameKeyTasks
  BY <1>1, Parts, OtherTasksOnly DEF OtherTasks
<1>3. StateMoves /\ KeepsChannels(io, io')
  BY <1>1, StatesKept, Parts, SamePoller
<1>4. DataType'
  BY <1>1, Parts DEF DataType, dataVars
<1>5. /\ peer' \in [Conns -> {"none", "open", "closed", "reset"}]
      /\ unread' \in [Conns -> Nat] /\ msgs' \in [Conns -> Nat]
  BY OtherTypes DEF PeerSends, PeerCloses
<1>6. Quiet
  BY <1>1, <1>2, <1>3, ConnQuiet
<1>7. TypeOK'
  BY <1>1, <1>2, <1>3, <1>4, <1>5, OtherTypes, ConnTypes DEF KeepsChannels, StateMoves
<1> QED BY <1>6, <1>7, QuietStep

\* What a task that is not a key task leaves of the batches.
LEMMA BatchMoves ==
  ASSUME CoreInv, NEW l \in Loops, NEW op, TaskIs(l, op), TaskDone(l)
  PROVE  /\ \A m \in Loops : batch'[m] = batch[m] \/ lpc[m] = "tasks"
         /\ op \notin KeyOps =>
              \E m \in Loops : batch[m] # <<>> /\ TaskDone(m) /\ Head(batch[m]).op \notin KeyOps
<1>1. batch \in [Loops -> Seq(Tasks)]
  BY Parts DEF TasksType
<1> QED BY <1>1 DEF TaskIs, TaskDone

\* The closure of a queued Write.
LEMMA RunWriteKeeps ==
  ASSUME CoreInv, NEW l \in Loops, RunWrite(l), UNCHANGED serverVars
  PROVE  CoreInv'
<1> DEFINE c == Head(batch[l]).conn
           st == state[c]
<1>1. TaskIs(l, "write") /\ TaskDone(l) /\ Write(c, st, io)
  BY DEF RunWrite
<1>2. c \in Conns
  BY <1>1, Parts, HeadTask DEF TaskIs
<1>3. UNCHANGED <<lpc, active, file, state, idVars, shutWr, caller, peer, unread, msgs>>
  BY DEF RunWrite, loopVars, peerVars
<1>4. st = "Connected" => file[fdOf[c]] = c /\ fdOf[c] # 0 /\ io.chan[c].index # "new"
  BY <1>2, Owns DEF ConnectedOwns
<1>5. KeepsChannels(io, io') /\ OtherTasks /\ DataType'
  <2> HIDE DEF c, st
  <2> QED BY <1>1, <1>2, <1>4, Parts, WriteEffect
<1>6. /\ \A m \in Loops : batch'[m] = batch[m] \/ lpc[m] = "tasks"
      /\ \E m \in Loops : batch[m] # <<>> /\ TaskDone(m) /\ Head(batch[m]).op \notin KeyOps
  BY <1>1, BatchMoves DEF KeyOps
<1>7. TasksType' /\ SameKeyTasks
  BY <1>5, <1>6, Parts, OtherTasksOnly
<1>8. StateMoves
  BY <1>3, StatesKept
<1>9. Quiet
  BY <1>3, <1>5, <1>6, <1>7, <1>8, ConnQuiet
<1>10. TypeOK'
  BY <1>3, <1>5, <1>7, <1>8, OtherTypes, ConnTypes DEF KeepsChannels, StateMoves
<1> QED BY <1>9, <1>10, QuietStep

\* The closure of the write-complete callback.
LEMMA RunWriteCompleteKeeps ==
  ASSUME CoreInv, NEW l \in Loops, RunWriteComplete(l), UNCHANGED serverVars
  PROVE  CoreInv'
<1> DEFINE c == Head(batch[l]).conn
<1>1. TaskIs(l, "onWriteComplete") /\ TaskDone(l) /\ UserCallback(c, AnyShutdown)
  BY DEF RunWriteComplete
<1>2. c \in Conns
  BY <1>1, Parts, HeadTask DEF TaskIs
<1>3. UNCHANGED <<lpc, active, file, idVars, shutWr, caller, peer, unread, msgs>>
  BY DEF RunWriteComplete, loopVars, peerVars
<1>4. KeepsChannels(io, io') /\ OtherTasks /\ DataType' /\ StateMoves
  <2> HIDE DEF c
  <2> QED BY <1>1, <1>2, Owns, Parts, OtherTypes, CallbackEffect
<1>5. /\ \A m \in Loops : batch'[m] = batch[m] \/ lpc[m] = "tasks"
      /\ \E m \in Loops : batch[m] # <<>> /\ TaskDone(m) /\ Head(batch[m]).op \notin KeyOps
  BY <1>1, BatchMoves DEF KeyOps
<1>6. TasksType' /\ SameKeyTasks
  BY <1>4, <1>5, Parts, OtherTasksOnly
<1>7. Quiet
  BY <1>3, <1>4, <1>5, <1>6, ConnQuiet
<1>8. TypeOK'
  BY <1>3, <1>4, <1>6, OtherTypes, ConnTypes DEF KeepsChannels, StateMoves
<1> QED BY <1>7, <1>8, QuietStep

\* The closure of ShutdownWrite.
LEMMA shutdownWriteKeeps ==
  ASSUME CoreInv, NEW l \in Loops, shutdownWrite(l), UNCHANGED serverVars
  PROVE  CoreInv'
<1>1. TaskIs(l, "shutdownWrite") /\ TaskDone(l)
  BY DEF shutdownWrite
<1>2. UNCHANGED <<lpc, active, queue, io, file, state, idVars, dataVars, caller, peer, unread, msgs>>
  BY DEF shutdownWrite, loopVars, peerVars
<1>3. /\ \A m \in Loops : batch'[m] = batch[m] \/ lpc[m] = "tasks"
      /\ \E m \in Loops : batch[m] # <<>> /\ TaskDone(m) /\ Head(batch[m]).op \notin KeyOps
  BY <1>1, BatchMoves DEF KeyOps
<1>4. TasksType' /\ SameKeyTasks
  BY <1>2, <1>3, Parts, OtherTasksOnly DEF OtherTasks
<1>5. StateMoves /\ KeepsChannels(io, io')
  BY <1>2, StatesKept, Parts, SamePoller
<1>6. DataType'
  BY <1>2, Parts DEF DataType, dataVars
<1>7. shutWr' \in [Conns -> BOOLEAN]
  BY OtherTypes DEF shutdownWrite
<1>8. Quiet
  BY <1>2, <1>3, <1>4, <1>5, ConnQuiet
<1>9. TypeOK'
  BY <1>2, <1>4, <1>5, <1>6, <1>7, OtherTypes, ConnTypes DEF KeepsChannels, StateMoves
<1> QED BY <1>8, <1>9, QuietStep

-----------------------------------------------------------------------------
(* The rounds of a loop.                                                    *)

\* Steps that only move a loop.
LEMMA RoundStep ==
  ASSUME CoreInv, TypeOK', SameKeyTasks,
         UNCHANGED <<io, file, state, idVars, caller, serverVars>>,
         \A c \in Conns : ClosingNow(c)' <=> ClosingNow(c),
         \A l \in Loops : LoopOK(l)'
  PROVE  CoreInv'
<1>1. UNCHANGED <<io, file, state, fdOf, loopOf, caller, nextConnId, connMap, backlog, clients>>
  BY DEF serverVars, idVars
<1>2. PollerOK(io)' /\ AcceptorOK(io)'
  BY <1>1, Parts, PollerPrimed DEF idVars
<1>3. FilesOK'
  BY <1>1, Parts DEF FilesOK
<1>4. ASSUME NEW c \in Conns PROVE ConnOK(c)'
  <2>1. ConnOK(c) /\ loopOf[c] \in Loops
    BY Parts
  <2>2. SameConn(c)
    BY <1>1, <2>1 DEF SameConn, ConnOK
  <2>3. SameTasksOf(c)
    BY DEF SameKeyTasks, SameTasksOf
  <2> QED BY <1>1, <2>1, <2>2, <2>3, ConnFrame
<1> QED BY <1>1, <1>2, <1>3, <1>4 DEF CoreInv

\* What epoll_wait reports of a descriptor that is watched.
LEMMA PollReports ==
  ASSUME CoreInv, NEW l \in Loops, NEW f \in Fds, io.reg[l][f] # NoReg
  PROVE  LET ch == io.reg[l][f].ch
             ev == io.reg[l][f].events
         IN  /\ ch \in Channels /\ ev \subseteq {EventRead, EventWrite}
             /\ ch \in Conns => loopOf[ch] = l /\ fdOf[ch] = f /\ ev = io.chan[ch].events
             /\ ch = 0 => f = 0
             /\ ch = 0 => l = Boss /\ file[0] = 0 /\ io.chan[0].index = "add" /\ ev = {EventRead}
<1>1. CASE f = 0
  <2>1. /\ l = Boss /\ file[0] = 0 /\ io.chan[0].index = "add"
        /\ io.reg[l][f] = [ch |-> 0, events |-> {EventRead}]
    BY <1>1, Parts DEF AcceptorOK
  <2> QED BY <1>1, <2>1, Numbers
<1>2. CASE f # 0
  <2>1. NumberOK(io, l, f) /\ f \in Fds \ {0}
    BY <1>2, Parts DEF PollerOK
  <2> DEFINE c == io.map[l][f]
  <2>2. /\ c \in Conns /\ loopOf[c] = l /\ fdOf[c] = f
        /\ io.reg[l][f] = [ch |-> c, events |-> io.chan[c].events]
    BY <2>1 DEF NumberOK
  <2>3. io.chan[c].events \subseteq {EventRead, EventWrite} /\ c # 0 /\ c \in Channels
    BY <2>2, Numbers, Parts DEF IoType
  <2> QED BY <2>2, <2>3
<1> QED BY <1>1, <1>2

\* epoll_wait returns: the events are those of registered channels.
LEMMA PollKeeps ==
  ASSUME CoreInv, NEW l \in Loops, Poll(l)
  PROVE  CoreInv'
<1> DEFINE Ev(f) == [ch |-> io.reg[l][f].ch,
                     revents |-> Reported(io.reg[l][f].ch, io.reg[l][f].events)]
<1>1. /\ lpc[l] = "poll" /\ lpc' = [lpc EXCEPT ![l] = "events"]
      /\ UNCHANGED <<queue, batch, io, file, state, idVars, dataVars, shutWr, caller, peer, unread, msgs>>
      /\ UNCHANGED serverVars
  BY DEF Poll, taskVars, peerVars
<1>2. \A e \in active'[l] :
        \E f \in Fds : io.reg[l][f] # NoReg /\ e = Ev(f) /\ e.revents # {}
  <2>1. active' = [active EXCEPT ![l] =
                    {e \in {Ev(f) : f \in {g \in Fds : io.reg[l][g] # NoReg}} : e.revents # {}}]
    BY DEF Poll
  <2>2. l \in DOMAIN active
    BY OtherTypes DEF ActiveType
  <2> QED BY <2>1, <2>2
<1>3. ASSUME NEW e \in active'[l]
      PROVE  /\ e \in [ch : Channels, revents : SUBSET {EventRead, EventWrite}]
             /\ e.ch \in Conns /\ EventRead \in e.revents =>
                   loopOf[e.ch] = l /\ EventRead \in io.chan[e.ch].events
             /\ e.ch = 0 /\ l = Boss =>
                   file[0] = 0 /\ backlog > 0 /\ io.chan[0].index = "add"
             /\ \A d \in active'[l] : d.ch = e.ch => d = e
  <2>1. PICK f \in Fds : io.reg[l][f] # NoReg /\ e = Ev(f) /\ e.revents # {}
    BY <1>2, <1>3
  <2> DEFINE ch == io.reg[l][f].ch
             ev == io.reg[l][f].events
  <2>2. /\ ch \in Channels /\ ev \subseteq {EventRead, EventWrite}
        /\ ch \in Conns => loopOf[ch] = l /\ fdOf[ch] = f /\ ev = io.chan[ch].events
        /\ ch = 0 => f = 0
        /\ ch = 0 => l = Boss /\ file[0] = 0 /\ io.chan[0].index = "add" /\ ev = {EventRead}
    BY <2>1, PollReports
  <2>3. e.ch = ch /\ e.revents = Reported(ch, ev) /\ e = [ch |-> ch, revents |-> Reported(ch, ev)]
    BY <2>1
  <2>4. Reported(ch, ev) \subseteq ev
    BY DEF Reported
  <2>5. ch = 0 => backlog > 0
    BY <2>1, <2>2, <2>3 DEF Reported
  <2>6. ASSUME NEW d \in active'[l], d.ch = e.ch PROVE d = e
    <3>1. PICK g \in Fds : io.reg[l][g] # NoReg /\ d = Ev(g)
      BY <1>2
    <3>2. d.ch = io.reg[l][g].ch
      BY <3>1
    <3>3. /\ io.reg[l][g].ch \in Conns => fdOf[io.reg[l][g].ch] = g
          /\ io.reg[l][g].ch = 0 => g = 0
      BY <3>1, PollReports
    <3>4. ch \in Conns \/ ch = 0
      BY <2>2, Numbers
    <3>5. g = f
      <4>1. io.reg[l][g].ch = ch
        BY <2>3, <2>6, <3>2
      <4> HIDE DEF ch, ev
      <4> QED BY <2>2, <3>3, <3>4, <4>1
    <3> QED BY <2>1, <3>1, <3>5
  <2> HIDE DEF ch, ev
  <2>7. e \in [ch : Channels, revents : SUBSET {EventRead, EventWrite}]
    BY <2>2, <2>3, <2>4
  <2> QED BY <2>2, <2>3, <2>4, <2>5, <2>6, <2>7
<1> HIDE DEF Ev
<1>4. \A m \in Loops : m # l => active'[m] = active[m] /\ lpc'[m] = lpc[m]
  BY <1>1, OtherTypes DEF Poll, ActiveType
<1>5. active' \in ActiveType
  <2>1. active'[l] \subseteq [ch : Channels, revents : SUBSET {EventRead, EventWrite}]
    BY <1>3
  <2>2. \E S : active' = [active EXCEPT ![l] = S]
    BY DEF Poll
  <2> QED BY <2>1, <2>2, OtherTypes DEF ActiveType
<1>6. TypeOK'
  <2>1. ConnTypeOK'
    BY <1>1, <1>5, OtherTypes DEF CoreInv, TypeOK, ConnTypeOK, ActiveType, idVars, dataVars
  <2> QED BY <1>1, <2>1 DEF CoreInv, TypeOK, serverVars, startVars
<1>7. SameKeyTasks
  BY <1>1, Parts, OtherTasksOnly DEF OtherTasks
<1>8. ASSUME NEW m \in Loops PROVE LoopOK(m)'
  <2>1. LoopOK(m)
    BY Parts
  <2>2. CASE m = l
    <3>1. lpc'[l] = "events" /\ batch'[l] = <<>>
      BY <1>1, <2>1, <2>2, OtherTypes DEF LoopOK
    <3>2. \A e \in active'[l] :
             /\ e.ch \in Conns /\ EventRead \in e.revents =>
                   loopOf'[e.ch] = l /\ EventRead \in io'.chan[e.ch].events
             /\ e.ch = 0 /\ l = Boss =>
                   file'[0] = 0 /\ backlog' > 0 /\ io'.chan[0].index = "add"
             /\ \A d \in active'[l] : d.ch = e.ch => d = e
      <4>1. UNCHANGED <<loopOf, io, file, backlog>>
        BY <1>1 DEF idVars, serverVars
      <4> QED BY <1>3, <4>1
    <3> QED BY <2>2, <3>1, <3>2 DEF LoopOK
  <2>3. CASE m # l
    <3>1. UNCHANGED <<loopOf, io, file, backlog, batch>>
      BY <1>1 DEF idVars, serverVars
    <3> QED BY <1>4, <2>1, <2>3, <3>1, LoopFrame
  <2> QED BY <2>2, <2>3
<1>9. \A c \in Conns : ClosingNow(c)' <=> ClosingNow(c)
  BY <1>1, Parts, OtherTypes DEF ClosingNow, idVars
<1> QED BY <1>1, <1>6, <1>7, <1>8, <1>9, RoundStep

\* doPendingTasks takes the queue: the tasks still to call are the same.
LEMMA TakePendingKeeps ==
  ASSUME CoreInv, NEW l \in Loops, TakePending(l)
  PROVE  CoreInv'
<1>1. /\ lpc[l] = "events" /\ active[l] = {} /\ lpc' = [lpc EXCEPT ![l] = "tasks"]
      /\ UNCHANGED <<active, io, file, state, idVars, dataVars, shutWr, caller, peer, unread, msgs>>
      /\ UNCHANGED serverVars
      /\ batch' = [batch EXCEPT ![l] = queue[l]] /\ queue' = [queue EXCEPT ![l] = <<>>]
  BY DEF TakePending, peerVars
<1>2. batch[l] = <<>>
  BY <1>1, Parts DEF LoopOK
<1>3. /\ TasksType'
      /\ \A m \in Loops : /\ queue[m] \in Seq(Tasks) /\ batch[m] \in Seq(Tasks)
                          /\ batch'[m] = IF m = l THEN queue[l] ELSE batch[m]
                          /\ queue'[m] = IF m = l THEN <<>> ELSE queue[m]
  BY <1>1, Parts DEF TasksType
<1>4. SameKeyTasks
  <2>1. \A s \in Seq(Tasks) : <<>> \o s = s /\ s \o <<>> = s
    OBVIOUS
  <2>2. ASSUME NEW m \in Loops PROVE Todo(m)' = Todo(m)
    BY <1>2, <1>3, <2>1 DEF Todo
  <2>3. ASSUME NEW m \in Loops, NEW c \in Conns, NEW op \in KeyOps
        PROVE  /\ Has(Todo(m), Task(op, c))' <=> Has(Todo(m), Task(op, c))
               /\ Once(Todo(m), Task(op, c)) => Once(Todo(m), Task(op, c))'
    BY <2>2 DEF Has, Once, Task
  <2> QED BY <2>3 DEF SameKeyTasks
<1>5. TypeOK'
  <2>1. ConnTypeOK'
    BY <1>1, <1>3, OtherTypes DEF CoreInv, TypeOK, ConnTypeOK, TasksType, idVars, dataVars
  <2> QED BY <1>1, <2>1 DEF CoreInv, TypeOK, serverVars, startVars
<1>6. ASSUME NEW m \in Loops PROVE LoopOK(m)'
  <2>1. LoopOK(m)
    BY Parts
  <2>2. CASE m = l
    <3>1. lpc'[l] = "tasks" /\ active'[l] = {}
      BY <1>1, OtherTypes
    <3> QED BY <2>2, <3>1 DEF LoopOK
  <2>3. CASE m # l
    <3>1. UNCHANGED <<loopOf, io, file, backlog, active>>
      BY <1>1 DEF idVars, serverVars
    <3>2. batch'[m] = batch[m] /\ lpc'[m] = lpc[m]
      BY <1>1, <1>3, <2>3, OtherTypes
    <3> QED BY <2>1, <3>1, <3>2, LoopFrame
  <2> QED BY <2>2, <2>3
<1>7. \A c \in Conns : ClosingNow(c)' <=> ClosingNow(c)
  BY <1>1, <1>3, Parts, OtherTypes DEF ClosingNow, idVars
<1> QED BY <1>1, <1>4, <1>5, <1>6, <1>7, RoundStep

\* The end of a round.
LEMMA TasksDoneKeeps ==
  ASSUME CoreInv, NEW l \in Loops, TasksDone(l)
  PROVE  CoreInv'
<1>1. /\ lpc[l] = "tasks" /\ batch[l] = <<>> /\ lpc' = [lpc EXCEPT ![l] = "poll"]
      /\ UNCHANGED <<active, queue, batch, io, file, state, idVars, dataVars, shutWr,
                     caller, peer, unread, msgs>>
      /\ UNCHANGED serverVars
  BY DEF TasksDone, taskVars, peerVars
<1>2. SameKeyTasks
  BY <1>1, Parts, OtherTasksOnly DEF OtherTasks
<1>3. TypeOK'
  <2>1. ConnTypeOK'
    BY <1>1, OtherTypes DEF CoreInv, TypeOK, ConnTypeOK, idVars, dataVars
  <2> QED BY <1>1, <2>1 DEF CoreInv, TypeOK, serverVars, startVars
<1>4. ASSUME NEW m \in Loops PROVE LoopOK(m)'
  <2>1. LoopOK(m)
    BY Parts
  <2>2. CASE m = l
    <3>1. lpc'[l] = "poll" /\ active'[l] = {} /\ batch'[l] = <<>>
      BY <1>1, <2>1, <2>2, OtherTypes DEF LoopOK
    <3> QED BY <2>2, <3>1 DEF LoopOK
  <2>3. CASE m # l
    <3>1. UNCHANGED <<loopOf, io, file, backlog, active, batch>>
      BY <1>1 DEF idVars, serverVars
    <3>2. lpc'[m] = lpc[m]
      BY <1>1, <2>3, OtherTypes
    <3> QED BY <2>1, <3>1, <3>2, LoopFrame
  <2> QED BY <2>2, <2>3
<1>5. \A c \in Conns : ClosingNow(c)' <=> ClosingNow(c)
  BY <1>1, Parts, OtherTypes DEF ClosingNow, idVars
<1> QED BY <1>1, <1>2, <1>3, <1>4, <1>5, RoundStep

-----------------------------------------------------------------------------
(* The steps that take one connection to its next phase.                    *)

\* One task is taken from loop l, maybe one pushed on k: what is then pending.
LEMMA Taken ==
  ASSUME TasksType, NEW l \in Loops, batch[l] # <<>>, TaskDone(l), UNCHANGED queue,
         NEW m \in Loops, NEW u
  PROVE  /\ m # l \/ Head(batch[l]) # u => (Has(Todo(m)', u) <=> Has(Todo(m), u))
         /\ m = l /\ Head(batch[l]) = u => Has(Todo(m), u)
         /\ m = l /\ Head(batch[l]) = u /\ Once(Todo(m), u) => ~Has(Todo(m)', u)
         /\ Once(Todo(m), u) => Once(Todo(m)', u)
<1>1. /\ Todo(m) \in Seq(Tasks)
      /\ Todo(m)' = IF m = l THEN Tail(Todo(l)) ELSE Todo(m)
      /\ m = l => Todo(m) # <<>> /\ Head(Todo(m)) = Head(batch[l])
  BY DoneTodo
<1> QED BY <1>1, HasTail

\* A task is taken from the batch of l while another is queued on k.
LEMMA TakenPushed ==
  ASSUME TasksType, NEW l \in Loops, batch[l] # <<>>, TaskDone(l),
         NEW k \in Loops, NEW t \in Tasks, Pushed(k, t), NEW m \in Loops, NEW u
  PROVE  /\ m # l \/ Head(batch[l]) # u =>
               (Has(Todo(m)', u) <=> Has(Todo(m), u) \/ (m = k /\ t = u))
         /\ m = l /\ Head(batch[l]) = u => Has(Todo(m), u)
         /\ m = l /\ Head(batch[l]) = u /\ Once(Todo(m), u) =>
               (Has(Todo(m)', u) <=> m = k /\ t = u)
         /\ Once(Todo(m), u) /\ (m = k /\ t = u => ~Has(Todo(m), u)) => Once(Todo(m)', u)
<1> DEFINE rest == IF m = l THEN Tail(Todo(l)) ELSE Todo(m)
<1>1. /\ Todo(m) \in Seq(Tasks)
      /\ Todo(m)' = IF m = k THEN Append(rest, t) ELSE rest
      /\ m = l => Todo(m) # <<>> /\ Head(Todo(m)) = Head(batch[l])
  BY DonePushTodo
<1>2. /\ rest \in Seq(Tasks)
      /\ m # l \/ Head(batch[l]) # u => (Has(rest, u) <=> Has(Todo(m), u))
      /\ m = l /\ Head(batch[l]) = u => Has(Todo(m), u)
      /\ m = l /\ Head(batch[l]) = u /\ Once(Todo(m), u) => ~Has(rest, u)
      /\ Once(Todo(m), u) => Once(rest, u)
  BY <1>1, HasTail, HeadTailProperties
<1> HIDE DEF rest
<1>3. /\ Has(Todo(m)', u) <=> Has(rest, u) \/ (m = k /\ t = u)
      /\ Once(rest, u) /\ (m = k /\ t = u => ~Has(rest, u)) => Once(Todo(m)', u)
  BY <1>1, <1>2, HasAppend
<1> QED BY <1>2, <1>3

\* The key tasks of c that are pending after a step.
Pending(m, op, c) == Has(Todo(m), Task(op, c))
Single(m, op, c) == Once(Todo(m), Task(op, c))

\* A step pushes the key task op of c on k, takes none, or takes one.
LEMMA KeyPushed ==
  ASSUME TasksType, NEW k \in Loops, NEW c \in Conns, NEW op \in KeyOps,
         Pushed(k, Task(op, c)), UNCHANGED batch
  PROVE  /\ TasksType' /\ \A d \in Conns \ {c} : SameTasksOf(d)
         /\ \A m \in Loops, o \in KeyOps :
              /\ Pending(m, o, c)' <=> Pending(m, o, c) \/ (m = k /\ o = op)
              /\ Single(m, o, c) /\ (m = k /\ o = op => ~Pending(m, o, c)) => Single(m, o, c)'
<1>1. Task(op, c) \in Tasks /\ Task(op, c).op = op /\ Task(op, c).conn = c
  BY KeyTask
<1>2. ASSUME NEW m \in Loops, NEW d \in Conns, NEW o \in KeyOps
      PROVE  /\ Pending(m, o, d)' <=> Pending(m, o, d) \/ (m = k /\ o = op /\ d = c)
             /\ Single(m, o, d) /\ (m = k /\ o = op /\ d = c => ~Pending(m, o, d)) => Single(m, o, d)'
  <2>1. Task(o, d) = Task(op, c) <=> o = op /\ d = c
    BY DEF Task
  <2>2. /\ Todo(m) \in Seq(Tasks)
        /\ Todo(m)' = IF m = k THEN Append(Todo(k), Task(op, c)) ELSE Todo(m)
    BY <1>1, PushTodo
  <2>3. /\ Has(Todo(m)', Task(o, d)) <=> Has(Todo(m), Task(o, d)) \/ (m = k /\ o = op /\ d = c)
        /\ Once(Todo(m), Task(o, d)) /\ (m = k /\ o = op /\ d = c => ~Has(Todo(m), Task(o, d)))
              => Once(Todo(m)', Task(o, d))
    BY <1>1, <2>1, <2>2, HasAppend
  <2> QED BY <2>3 DEF Pending, Single, Has, Once, Task
<1>3. TasksType'
  BY <1>1, PushTodo
<1>4. ASSUME NEW d \in Conns \ {c} PROVE SameTasksOf(d)
  BY <1>2 DEF SameTasksOf, Pending, Single
<1> QED BY <1>2, <1>3, <1>4

\* A key task is taken and no other one queued: only its own entry is gone.
LEMMA KeyTaken ==
  ASSUME TasksType, NEW l \in Loops, batch[l] # <<>>, TaskDone(l), OtherTasks,
         NEW c \in Conns, NEW op \in KeyOps, Head(batch[l]) = Task(op, c)
  PROVE  /\ TasksType' /\ \A d \in Conns \ {c} : SameTasksOf(d)
         /\ \A m \in Loops, o \in KeyOps :
              /\ m # l \/ o # op => (Pending(m, o, c)' <=> Pending(m, o, c))
              /\ Single(m, o, c) => Single(m, o, c)'
         /\ Pending(l, op, c) /\ (Single(l, op, c) => ~Pending(l, op, c)')
<1>1. Task(op, c) \in Tasks /\ Task(op, c).op = op /\ Task(op, c).conn = c
  BY KeyTask
<1>2. ASSUME NEW m \in Loops, NEW d \in Conns, NEW o \in KeyOps
      PROVE  /\ m # l \/ o # op \/ d # c => (Pending(m, o, d)' <=> Pending(m, o, d))
             /\ m = l /\ o = op /\ d = c => Pending(m, o, d)
             /\ m = l /\ o = op /\ d = c /\ Single(m, o, d) => ~Pending(m, o, d)'
             /\ Single(m, o, d) => Single(m, o, d)'
  <2> DEFINE u == Task(o, d)
  <2>1. Head(batch[l]) = u <=> o = op /\ d = c
    BY DEF Task
  <2>2. /\ m # l \/ Head(batch[l]) # u => (Has(Todo(m)', u) <=> Has(Todo(m), u))
        /\ m = l /\ Head(batch[l]) = u => Has(Todo(m), u)
        /\ m = l /\ Head(batch[l]) = u /\ Once(Todo(m), u) => ~Has(Todo(m)', u)
        /\ Once(Todo(m), u) => Once(Todo(m)', u)
    <3> HIDE DEF u
    <3>1. CASE UNCHANGED queue
      BY <3>1, Taken
    <3>2. ASSUME NEW k \in Loops, NEW t \in Tasks, t.op \notin KeyOps, Pushed(k, t)
          PROVE  /\ m # l \/ Head(batch[l]) # u => (Has(Todo(m)', u) <=> Has(Todo(m), u))
                 /\ m = l /\ Head(batch[l]) = u => Has(Todo(m), u)
                 /\ m = l /\ Head(batch[l]) = u /\ Once(Todo(m), u) => ~Has(Todo(m)', u)
                 /\ Once(Todo(m), u) => Once(Todo(m)', u)
      <4>1. t # u
        BY <3>2 DEF u, Task
      <4> QED BY <3>2, <4>1, TakenPushed
    <3> QED BY <3>1, <3>2 DEF OtherTasks
  <2> QED BY <2>1, <2>2 DEF Pending, Single, Has, Once, Task
<1>3. TasksType'
  <2>1. CASE UNCHANGED queue
    BY <2>1, DoneTodo
  <2>2. ASSUME NEW k \in Loops, NEW t \in Tasks, Pushed(k, t) PROVE TasksType'
    BY <2>2, DonePushTodo
  <2> QED BY <2>1, <2>2 DEF OtherTasks
<1>4. ASSUME NEW d \in Conns \ {c} PROVE SameTasksOf(d)
  BY <1>2 DEF SameTasksOf, Pending, Single
<1> QED BY <1>2, <1>3, <1>4

\* A key task is taken and the next one of the same connection queued.
LEMMA KeyTakenPushed ==
  ASSUME TasksType, NEW l \in Loops, batch[l] # <<>>, TaskDone(l),
         NEW c \in Conns, NEW op \in KeyOps, Head(batch[l]) = Task(op, c),
         NEW k \in Loops, NEW op2 \in KeyOps, op2 # op, Pushed(k, Task(op2, c))
  PROVE  /\ TasksType' /\ \A d \in Conns \ {c} : SameTasksOf(d)
         /\ \A m \in Loops, o \in KeyOps :
              /\ m # l \/ o # op =>
                    (Pending(m, o, c)' <=> Pending(m, o, c) \/ (m = k /\ o = op2))
              /\ Single(m, o, c) /\ (m = k /\ o = op2 => ~Pending(m, o, c)) => Single(m, o, c)'
         /\ Pending(l, op, c) /\ (Single(l, op, c) => ~Pending(l, op, c)')
<1>1. Task(op2, c) \in Tasks
  BY KeyTask
<1>2. ASSUME NEW m \in Loops, NEW d \in Conns, NEW o \in KeyOps
      PROVE  /\ m # l \/ o # op \/ d # c =>
                   (Pending(m, o, d)' <=> Pending(m, o, d) \/ (m = k /\ o = op2 /\ d = c))
             /\ m = l /\ o = op /\ d = c => Pending(m, o, d)
             /\ m = l /\ o = op /\ d = c /\ Single(m, o, d) => ~Pending(m, o, d)'
             /\ Single(m, o, d) /\ (m = k /\ o = op2 /\ d = c => ~Pending(m, o, d)) => Single(m, o, d)'
  <2> DEFINE u == Task(o, d)
             t == Task(op2, c)
  <2>1. (Head(batch[l]) = u <=> o = op /\ d = c) /\ (t = u <=> o = op2 /\ d = c)
    BY DEF Task
  <2>2. /\ m # l \/ Head(batch[l]) # u =>
               (Has(Todo(m)', u) <=> Has(Todo(m), u) \/ (m = k /\ t = u))
        /\ m = l /\ Head(batch[l]) = u => Has(Todo(m), u)
        /\ m = l /\ Head(batch[l]) = u /\ Once(Todo(m), u) =>
               (Has(Todo(m)', u) <=> m = k /\ t = u)
        /\ Once(Todo(m), u) /\ (m = k /\ t = u => ~Has(Todo(m), u)) => Once(Todo(m)', u)
    <3> HIDE DEF u, t
    <3> QED BY <1>1, TakenPushed DEF t
  <2> QED BY <2>1, <2>2 DEF Pending, Single, Has, Once, Task
<1>3. TasksType'
  BY <1>1, DonePushTodo
<1>4. ASSUME NEW d \in Conns \ {c} PROVE SameTasksOf(d)
  BY <1>2 DEF SameTasksOf, Pending, Single
<1> QED BY <1>2, <1>3, <1>4

\* PhaseOK and TasksOK, in terms of the tasks that are pending.
LEMMA PhaseOf ==
  ASSUME NEW c \in Conns, ConnOK(c), loopOf[c] \in Loops
  PROVE  /\ Phase(state[c], file[fdOf[c]] = c, io.chan[c].index,
                  EventRead \in io.chan[c].events, c \in connMap,
                  Pending(loopOf[c], "connectEstablished", c), Pending(Boss, "removeConn", c),
                  Pending(loopOf[c], "connectDestroyed", c), ClosingNow(c))
         /\ \A m \in Loops :
              /\ \A op \in KeyOps : Single(m, op, c)
              /\ Pending(m, "connectEstablished", c) => m = loopOf[c]
              /\ Pending(m, "connectDestroyed", c) => m = loopOf[c]
              /\ Pending(m, "removeConn", c) => m = Boss
BY DEF ConnOK, PhaseOK, TasksOK, Pending, Single, ClosingNow, KeyOps

\* The phase of a connection after a step, from its parts.
LEMMA PhaseTo ==
  ASSUME NEW c \in Conns, NEW l, l = loopOf'[c], NEW f, f = fdOf'[c],
         Phase(state'[c], file'[f] = c, io'.chan[c].index,
               EventRead \in io'.chan[c].events, c \in connMap',
               Pending(l, "connectEstablished", c)', Pending(Boss, "removeConn", c)',
               Pending(l, "connectDestroyed", c)', ClosingNow(c)'),
         \A m \in Loops :
            /\ \A op \in KeyOps : Single(m, op, c)'
            /\ Pending(m, "connectEstablished", c)' => m = l
            /\ Pending(m, "connectDestroyed", c)' => m = l
            /\ Pending(m, "removeConn", c)' => m = Boss,
         caller'[c] = "checked" => state'[c] \notin {"none", "Connecting"}
  PROVE  ConnOK(c)'
<1>1. Phase(state[c], file[fdOf[c]] = c, io.chan[c].index,
            EventRead \in io.chan[c].events, c \in connMap,
            Has(Todo(loopOf[c]), Task("connectEstablished", c)),
            Has(Todo(Boss), Task("removeConn", c)),
            Has(Todo(loopOf[c]), Task("connectDestroyed", c)),
            lpc[loopOf[c]] = "close" /\ Head(batch[loopOf[c]]).conn = c)'
  BY DEF Pending, ClosingNow, Has, Todo, Task
<1>2. PhaseOK(c)'
  BY <1>1 DEF PhaseOK
<1>3. TasksOK(c)'
  BY DEF TasksOK, Pending, Single, KeyOps
<1> QED BY <1>2, <1>3 DEF ConnOK

\* The invariant, when one connection moves and the others stay as they are.
LEMMA MoveStep ==
  ASSUME CoreInv, TypeOK', NEW c \in Conns, ConnOK(c)',
         \A d \in Conns \ {c} : SameConn(d) /\ SameTasksOf(d) /\ state'[d] = state[d],
         \A l \in Loops : LoopOK(l)',
         PollerOK(io)', AcceptorOK(io)', FilesOK',
         Benign => (io.ok => io'.ok)
  PROVE  CoreInv'
<1>1. ASSUME NEW d \in Conns PROVE ConnOK(d)'
  <2>1. CASE d = c
    BY <2>1
  <2>2. CASE d # c
    <3>1. ConnOK(d) /\ loopOf[d] \in Loops
      BY Parts
    <3>2. SameConn(d) /\ SameTasksOf(d) /\ state'[d] = state[d]
      BY <2>2
    <3> QED BY <3>1, <3>2, ConnFrame
  <2> QED BY <2>1, <2>2
<1>2. (Benign => io.ok)'
  BY DEF CoreInv
<1> QED BY <1>1, <1>2 DEF CoreInv

\* removeConnInLoop: from waiting to be removed to waiting to be destroyed.
LEMMA removeConnInLoopKeeps ==
  ASSUME CoreInv, removeConnInLoop
  PROVE  CoreInv'
<1>1. TaskIs(Boss, "removeConn") /\ TaskDone(Boss) /\ Boss \in Loops
  BY Numbers DEF removeConnInLoop
<1>2. PICK c \in Conns : c = Head(batch[Boss]).conn /\ Head(batch[Boss]) = Task("removeConn", c)
  BY <1>1, Parts, HeadTask DEF TaskIs
<1>3. PICK k \in Loops : k = loopOf[c] /\ ConnOK(c)
  BY Parts
<1>0. /\ lpc[Boss] = "tasks" /\ batch[Boss] # <<>>
      /\ connMap' = connMap \ {c} /\ Pushed(k, Task("connectDestroyed", c))
      /\ UNCHANGED <<lpc, active, io, file, state, fdOf, loopOf, dataVars, shutWr, caller,
                     peer, unread, msgs, startVars, next, listening, nextConnId, backlog, clients>>
  BY <1>1, <1>2, <1>3 DEF removeConnInLoop, TaskIs, Pushed, loopVars, peerVars, idVars
<1>4. "removeConn" \in KeyOps /\ "connectDestroyed" \in KeyOps /\ "connectEstablished" \in KeyOps
  BY DEF KeyOps
<1>5. /\ TasksType' /\ \A d \in Conns \ {c} : SameTasksOf(d)
      /\ \A m \in Loops, o \in KeyOps :
           /\ m # Boss \/ o # "removeConn" =>
                 (Pending(m, o, c)' <=> Pending(m, o, c) \/ (m = k /\ o = "connectDestroyed"))
           /\ Single(m, o, c) /\ (m = k /\ o = "connectDestroyed" => ~Pending(m, o, c)) => Single(m, o, c)'
      /\ Pending(Boss, "removeConn", c)
      /\ Single(Boss, "removeConn", c) => ~Pending(Boss, "removeConn", c)'
  BY <1>0, <1>1, <1>2, <1>3, <1>4, Parts, KeyTakenPushed
<1>6. /\ Phase(state[c], file[fdOf[c]] = c, io.chan[c].index,
               EventRead \in io.chan[c].events, c \in connMap,
               Pending(k, "connectEstablished", c), Pending(Boss, "removeConn", c),
               Pending(k, "connectDestroyed", c), ClosingNow(c))
      /\ \A m \in Loops :
           /\ \A op \in KeyOps : Single(m, op, c)
           /\ Pending(m, "connectEstablished", c) => m = k
           /\ Pending(m, "connectDestroyed", c) => m = k
           /\ Pending(m, "removeConn", c) => m = Boss
  BY <1>2, <1>3, PhaseOf
<1>7. /\ state[c] \in {"Connected", "Disconnecting"} /\ file[fdOf[c]] = c
      /\ io.chan[c].index # "new" /\ EventRead \notin io.chan[c].events
      /\ ~Pending(k, "connectEstablished", c) /\ ~Pending(k, "connectDestroyed", c)
      /\ ~ClosingNow(c)
  BY <1>5, <1>6 DEF Phase
<1>8. \A d \in Conns : ClosingNow(d)' <=> ClosingNow(d)
  <2>1. \A m \in Loops : m # Boss => batch'[m] = batch[m]
    BY <1>0, <1>1, Parts DEF TaskDone, TasksType
  <2> QED BY <1>0, <1>1, <1>2, <2>1, Parts DEF ClosingNow
<1>9. ConnOK(c)'
  <2>1. Phase(state'[c], file'[fdOf[c]] = c, io'.chan[c].index,
               EventRead \in io'.chan[c].events, c \in connMap',
               Pending(k, "connectEstablished", c)', Pending(Boss, "removeConn", c)',
               Pending(k, "connectDestroyed", c)', ClosingNow(c)')
    <3>1. /\ ~Pending(k, "connectEstablished", c)' /\ ~Pending(Boss, "removeConn", c)'
          /\ Pending(k, "connectDestroyed", c)'
      BY <1>1, <1>2, <1>3, <1>4, <1>5, <1>6, <1>7
    <3>2. ~ClosingNow(c)' /\ c \notin connMap'
      BY <1>0, <1>1, <1>2, <1>7, <1>8
    <3> QED BY <1>0, <1>1, <1>7, <3>1, <3>2 DEF Phase
  <2>2. \A m \in Loops :
          /\ \A op \in KeyOps : Single(m, op, c)'
          /\ Pending(m, "connectEstablished", c)' => m = k
          /\ Pending(m, "connectDestroyed", c)' => m = k
          /\ Pending(m, "removeConn", c)' => m = Boss
    BY <1>4, <1>5, <1>6, <1>7
  <2>3. caller'[c] = "checked" => state'[c] \notin {"none", "Connecting"}
    BY <1>0, <1>1, <1>7
  <2> QED BY <1>0, <1>1, <1>2, <1>3, <2>1, <2>2, <2>3, PhaseTo
<1>10. \A d \in Conns \ {c} : SameConn(d) /\ SameTasksOf(d) /\ state'[d] = state[d]
  BY <1>0, <1>1, <1>5, <1>8, Parts DEF SameConn, ConnOK
<1>11. ASSUME NEW m \in Loops PROVE LoopOK(m)'
  <2>1. LoopOK(m) /\ (batch'[m] = batch[m] \/ lpc[m] = "tasks")
    BY <1>0, <1>1, <1>2, Parts DEF TaskDone, TasksType
  <2> QED BY <1>0, <1>1, <2>1, LoopFrame
<1>12. PollerOK(io)' /\ AcceptorOK(io)'
  BY <1>0, <1>1, Parts, PollerPrimed DEF idVars
<1>13. FilesOK'
  BY <1>0, <1>1, Parts DEF FilesOK
<1>14. TypeOK'
  <2>1. ConnTypeOK'
    BY <1>0, <1>1, <1>5 DEF CoreInv, TypeOK, ConnTypeOK, TasksType, dataVars
  <2> QED BY <1>0, <1>1, <2>1 DEF CoreInv, TypeOK, startVars
<1> QED BY <1>0, <1>1, <1>2, <1>9, <1>10, <1>11, <1>12, <1>13, <1>14, MoveStep

\* Which events are left, after e was handled, to the other connections.
LEMMA EventHandled ==
  ASSUME CoreInv, NEW l \in Loops, NEW e \in active[l],
         active' = [active EXCEPT ![l] = @ \ {e}]
  PROVE  /\ active' \in ActiveType
         /\ \A m \in Loops : active'[m] \subseteq active[m]
         /\ \A m \in Loops : \A d \in active'[m] :
               d.ch = e.ch /\ d.ch \in Conns /\ EventRead \in d.revents => loopOf[d.ch] # l
         /\ \A d \in active'[l] : d.ch # e.ch
<1>1. active \in ActiveType /\ LoopOK(l)
  BY OtherTypes, Parts
<1>2. active' \in ActiveType /\ active'[l] = active[l] \ {e} /\ \A m \in Loops \ {l} : active'[m] = active[m]
  BY <1>1 DEF ActiveType
<1>3. \A d \in active'[l] : d.ch # e.ch
  BY <1>1, <1>2 DEF LoopOK
<1>4. ASSUME NEW m \in Loops, NEW d \in active'[m],
             d.ch = e.ch, d.ch \in Conns, EventRead \in d.revents
      PROVE  loopOf[d.ch] # l
  <2>1. m # l
    BY <1>3, <1>4
  <2>2. LoopOK(m) /\ d \in active[m]
    BY <1>2, <2>1, Parts
  <2> QED BY <1>4, <2>1, <2>2 DEF LoopOK
<1> QED BY <1>2, <1>3, <1>4

\* handleClose: from open to waiting to be removed.
LEMMA handleCloseKeeps ==
  ASSUME CoreInv, NEW l \in Loops, NEW e \in active[l], NEW c \in Conns, c = e.ch,
         lpc[l] = "events", EventRead \in e.revents, handleClose(c),
         active' = [active EXCEPT ![l] = @ \ {e}],
         UNCHANGED <<peer, unread, lpc, batch, file, idVars, shutWr, caller, msgs, serverVars>>
  PROVE  CoreInv'
<1>1. /\ io' = disableAll(io, loopOf[c], fdOf[c], c)
      /\ Pushed(Boss, Task("removeConn", c)) /\ Boss \in Loops
      /\ UNCHANGED <<state, dataVars, fdOf, loopOf, nextConnId, connMap, backlog, clients>>
  BY Numbers DEF handleClose, Pushed, idVars, serverVars
<1>2. /\ loopOf[c] = l /\ EventRead \in io.chan[c].events /\ ConnOK(c) /\ fdOf[c] \in Fds
  BY Parts DEF LoopOK
<1>3. io.chan[c].index = "add"
  BY <1>2, Parts DEF PollerOK, ChannelOK
<1>4. /\ Phase(state[c], file[fdOf[c]] = c, io.chan[c].index,
               EventRead \in io.chan[c].events, c \in connMap,
               Pending(l, "connectEstablished", c), Pending(Boss, "removeConn", c),
               Pending(l, "connectDestroyed", c), ClosingNow(c))
      /\ \A m \in Loops :
           /\ \A op \in KeyOps : Single(m, op, c)
           /\ Pending(m, "connectEstablished", c) => m = l
           /\ Pending(m, "connectDestroyed", c) => m = l
           /\ Pending(m, "removeConn", c) => m = Boss
  BY <1>2, PhaseOf
<1>5. /\ state[c] \in {"Connected", "Disconnecting"} /\ file[fdOf[c]] = c /\ c \in connMap
      /\ ~Pending(l, "connectEstablished", c) /\ ~Pending(Boss, "removeConn", c)
      /\ ~Pending(l, "connectDestroyed", c)
  BY <1>2, <1>3, <1>4 DEF Phase
<1>6. fdOf[c] # 0
  BY <1>5, Owns
<1>7. PollerBecomes(io, io', c, {}, "del")
  BY <1>1, <1>3, <1>5, <1>6, Parts, DisableKeepsPoller
<1>8. \A d \in Channels : io'.chan[d] = IF d = c THEN [events |-> {}, index |-> "del"] ELSE io.chan[d]
  BY <1>7, Parts DEF PollerBecomes, IoType
<1>9. "removeConn" \in KeyOps /\ "connectDestroyed" \in KeyOps /\ "connectEstablished" \in KeyOps
  BY DEF KeyOps
<1>10. /\ TasksType' /\ \A d \in Conns \ {c} : SameTasksOf(d)
       /\ \A m \in Loops, o \in KeyOps :
            /\ Pending(m, o, c)' <=> Pending(m, o, c) \/ (m = Boss /\ o = "removeConn")
            /\ Single(m, o, c) /\ (m = Boss /\ o = "removeConn" => ~Pending(m, o, c)) => Single(m, o, c)'
  BY <1>1, <1>9, Parts, KeyPushed
<1>11. \A d \in Conns : ClosingNow(d)' <=> ClosingNow(d)
  BY <1>1, Parts DEF ClosingNow
<1>12. ConnOK(c)'
  <2>1. io'.chan[c] = [events |-> {}, index |-> "del"]
    BY <1>8, Numbers
  <2>2. ~ClosingNow(c)
    BY <1>2 DEF ClosingNow
  <2>3. /\ ~Pending(l, "connectEstablished", c)' /\ Pending(Boss, "removeConn", c)'
        /\ ~Pending(l, "connectDestroyed", c)' /\ ~ClosingNow(c)'
    BY <1>1, <1>5, <1>9, <1>10, <1>11, <2>2
  <2>4. Phase(state'[c], file'[fdOf[c]] = c, io'.chan[c].index,
              EventRead \in io'.chan[c].events, c \in connMap',
              Pending(l, "connectEstablished", c)', Pending(Boss, "removeConn", c)',
              Pending(l, "connectDestroyed", c)', ClosingNow(c)')
    BY <1>1, <1>5, <2>1, <2>3 DEF Phase
  <2>5. \A m \in Loops :
          /\ \A op \in KeyOps : Single(m, op, c)'
          /\ Pending(m, "connectEstablished", c)' => m = l
          /\ Pending(m, "connectDestroyed", c)' => m = l
          /\ Pending(m, "removeConn", c)' => m = Boss
    BY <1>4, <1>5, <1>9, <1>10
  <2>6. caller'[c] = "checked" => state'[c] \notin {"none", "Connecting"}
    BY <1>1, <1>5
  <2>7. l = loopOf'[c] /\ fdOf[c] = fdOf'[c]
    BY <1>1, <1>2
  <2> QED BY <2>4, <2>5, <2>6, <2>7, PhaseTo
<1>13. ASSUME NEW d \in Conns \ {c} PROVE SameConn(d) /\ SameTasksOf(d) /\ state'[d] = state[d]
  <2>1. io'.chan[d] = io.chan[d]
    BY <1>8, Numbers
  <2> QED BY <1>1, <1>10, <1>11, <2>1, Parts DEF SameConn, ConnOK
<1>14. ASSUME NEW m \in Loops PROVE LoopOK(m)'
  <2>1. LoopOK(m) /\ active'[m] \subseteq active[m] /\ batch'[m] = batch[m] /\ lpc'[m] = lpc[m]
    BY Parts, EventHandled
  <2>2. ASSUME NEW d \in active'[m], d.ch \in Conns, EventRead \in d.revents
        PROVE  io'.chan[d.ch] = io.chan[d.ch]
    <3>1. d.ch = e.ch => loopOf[d.ch] # l
      BY <2>2, EventHandled
    <3>2. d.ch # c /\ d.ch \in Channels
      BY <1>2, <2>2, <3>1, Numbers
    <3> QED BY <1>8, <3>2
  <2>3. io'.chan[0] = io.chan[0]
    BY <1>8, Numbers
  <2> QED BY <1>1, <2>1, <2>2, <2>3, LoopFrame
<1>15. PollerOK(io)' /\ AcceptorOK(io)'
  BY <1>7, PollerPrimed DEF PollerBecomes
<1>16. FilesOK'
  BY <1>1, Parts DEF FilesOK
<1>17. TypeOK'
  <2>1. DataType'
    BY <1>1, Parts DEF DataType, dataVars
  <2> QED BY <1>1, <1>7, <1>10, <2>1, EventHandled, OtherTypes, ConnTypes DEF PollerBecomes
<1>18. io'.ok = io.ok
  BY <1>7 DEF PollerBecomes
<1> QED BY <1>12, <1>13, <1>14, <1>15, <1>16, <1>17, <1>18, MoveStep

\* Channel.handleEvent of a connection, all its outcomes.
LEMMA HandleEventKeeps ==
  ASSUME CoreInv, NEW l \in Loops, NEW e \in active[l], HandleEvent(l, e), UNCHANGED serverVars
  PROVE  CoreInv'
<1> DEFINE c == e.ch
<1>1. /\ lpc[l] = "events" /\ c \in Conns
      /\ active' = [active EXCEPT ![l] = @ \ {e}]
      /\ UNCHANGED <<lpc, batch, file, idVars, shutWr, caller, msgs>>
  BY DEF HandleEvent
<1>2. ASSUME KeepsChannels(io, io'), OtherTasks, DataType', StateMoves,
             peer' \in [Conns -> {"none", "open", "closed", "reset"}], unread' \in [Conns -> Nat]
      PROVE  CoreInv'
  <2>1. TasksType' /\ SameKeyTasks
    BY <1>1, <1>2, Parts, OtherTasksOnly
  <2>2. active' \in ActiveType /\ \A m \in Loops : active'[m] \subseteq active[m]
    BY <1>1, EventHandled
  <2>3. Quiet
    BY <1>1, <1>2, <2>1, <2>2, ConnQuiet
  <2>4. TypeOK'
    BY <1>1, <1>2, <2>1, <2>2, OtherTypes, ConnTypes DEF KeepsChannels, StateMoves
  <2> QED BY <2>3, <2>4, QuietStep
<1>3. ASSUME DoNothing(io),
             peer' \in [Conns -> {"none", "open", "closed", "reset"}], unread' \in [Conns -> Nat]
      PROVE  CoreInv'
  <2>1. KeepsChannels(io, io') /\ StateMoves
    BY <1>3, Parts, SamePoller, StatesKept DEF DoNothing
  <2>2. OtherTasks /\ DataType'
    BY <1>3, Parts DEF DoNothing, OtherTasks, DataType, dataVars
  <2> QED BY <1>2, <1>3, <2>1, <2>2
<1>4. CASE EventRead \notin e.revents
  <2>1. DoNothing(io) /\ UNCHANGED <<peer, unread>>
    BY <1>4 DEF HandleEvent
  <2> QED BY <1>3, <2>1, OtherTypes
<1>5. CASE EventRead \in e.revents
  <2>0. handleRead(c)
    BY <1>5 DEF HandleEvent
  <2>1. CASE UserCallback(c, TRUE) /\ unread' = [unread EXCEPT ![c] = 0] /\ UNCHANGED peer
    <3>1. KeepsChannels(io, io') /\ OtherTasks /\ DataType' /\ StateMoves
      <4> HIDE DEF c
      <4> QED BY <1>1, <2>1, Owns, Parts, OtherTypes, CallbackEffect
    <3> QED BY <1>2, <2>1, <3>1, OtherTypes
  <2>2. CASE DoNothing(io) /\ peer' = [peer EXCEPT ![c] = "closed"] /\ UNCHANGED unread
    BY <1>3, <2>2, OtherTypes
  <2>3. CASE handleClose(c) /\ UNCHANGED <<peer, unread>>
    <3>1. UNCHANGED <<peer, unread, lpc, batch, file, idVars, shutWr, caller, msgs, serverVars>>
      BY <1>1, <2>3
    <3> QED BY <1>1, <1>5, <2>3, <3>1, handleCloseKeeps
  <2> QED BY <2>0, <2>1, <2>2, <2>3 DEF handleRead
<1> QED BY <1>4, <1>5

\* The task a loop is about to call is pending there.
LEMMA HeadPending ==
  ASSUME CoreInv, NEW l \in Loops, batch[l] # <<>>, NEW op, NEW c,
         Head(batch[l]) = Task(op, c)
  PROVE  Pending(l, op, c)
<1>1. batch[l] \in Seq(Tasks) /\ queue[l] \in Seq(Tasks)
  BY Parts DEF TasksType
<1>2. \A b, q \in Seq(Tasks) :
        b # <<>> => b \o q \in Seq(Tasks) /\ b \o q # <<>> /\ Head(b \o q) = Head(b)
  BY ConcatTake
<1>3. Todo(l) \in Seq(Tasks) /\ Todo(l) # <<>> /\ Head(Todo(l)) = Task(op, c)
  BY <1>1, <1>2 DEF Todo
<1> QED BY <1>3, HasTail DEF Pending

\* The pollers after connectEstablished: its channel is registered and listens
\* for reading, maybe for writing too.
Established(i, j, c) ==
    /\ j \in IoType /\ PollerOK(j) /\ AcceptorOK(j)
    /\ Benign => j.ok = i.ok
    /\ j.chan[c].index # "new" /\ EventRead \in j.chan[c].events
    /\ i.chan[0].index = "add" => j.chan[0].index = "add"
    /\ \A d \in Conns \ {c} :
          /\ j.chan[d].index = "new" <=> i.chan[d].index = "new"
          /\ EventRead \in j.chan[d].events <=> EventRead \in i.chan[d].events

\* connectEstablished: enableReading on a channel that owns its descriptor.
LEMMA EstablishedEffect ==
  ASSUME CoreInv, NEW c \in Conns, file[fdOf[c]] = c, fdOf[c] # 0,
         NEW j, j = enableReading(io, loopOf[c], fdOf[c], c)
  PROVE  /\ j \in IoType /\ PollerOK(j) /\ AcceptorOK(j)
         /\ j.chan[c].index = "add"
         /\ \A i : KeepsChannels(j, i) => Established(io, i, c)
<1> DEFINE ev == io.chan[c].events \cup {EventRead}
<1>1. j = setEvents(io, loopOf[c], fdOf[c], c, ev)
  BY DEF enableReading
<1>2. ev \in SUBSET {EventRead, EventWrite} /\ ev # {} /\ EventRead \in ev
  BY Numbers, Parts DEF IoType
<1> HIDE DEF ev
<1>3. PollerBecomes(io, j, c, ev, "add")
  BY <1>1, <1>2, Parts, WatchKeepsPoller
<1>4. \A d \in Channels : j.chan[d] = IF d = c THEN [events |-> ev, index |-> "add"] ELSE io.chan[d]
  BY <1>3, Parts DEF PollerBecomes, IoType
<1>5. j.chan[c] = [events |-> ev, index |-> "add"] /\ j.chan[0] = io.chan[0]
  BY <1>4, Numbers
<1>6. \A d \in Conns \ {c} : j.chan[d] = io.chan[d]
  BY <1>4, Numbers
<1>7. ASSUME NEW i, KeepsChannels(j, i) PROVE Established(io, i, c)
  <2>1. i.chan[c].index # "new" /\ EventRead \in i.chan[c].events
    BY <1>2, <1>5, <1>7 DEF KeepsChannels
  <2>2. io.chan[0].index = "add" => i.chan[0].index = "add"
    BY <1>5, <1>7 DEF KeepsChannels
  <2>3. \A d \in Conns \ {c} :
          /\ i.chan[d].index = "new" <=> io.chan[d].index = "new"
          /\ EventRead \in i.chan[d].events <=> EventRead \in io.chan[d].events
    BY <1>6, <1>7 DEF KeepsChannels
  <2>4. Benign => i.ok = io.ok
    BY <1>3, <1>7 DEF KeepsChannels, PollerBecomes
  <2> QED BY <1>7, <2>1, <2>2, <2>3, <2>4 DEF KeepsChannels, Established
<1> QED BY <1>3, <1>5, <1>7 DEF PollerBecomes

\* connectEstablished: from waiting to be established to open.
LEMMA connectEstablishedKeeps ==
  ASSUME CoreInv, NEW l \in Loops, connectEstablished(l), UNCHANGED serverVars
  PROVE  CoreInv'
<1>1. TaskIs(l, "connectEstablished") /\ TaskDone(l) /\ batch[l] # <<>> /\ lpc[l] = "tasks"
  BY DEF connectEstablished, TaskIs
<1>2. PICK c \in Conns : c = Head(batch[l]).conn /\ Head(batch[l]) = Task("connectEstablished", c)
  BY <1>1, Parts, HeadTask DEF TaskIs
<1>3. /\ UNCHANGED <<lpc, active, file, fdOf, loopOf, shutWr, caller, peer, unread, msgs>>
      /\ UNCHANGED <<nextConnId, connMap, backlog, clients>>
  BY DEF connectEstablished, loopVars, idVars, peerVars, serverVars
<1>4. "removeConn" \in KeyOps /\ "connectDestroyed" \in KeyOps /\ "connectEstablished" \in KeyOps
  BY DEF KeyOps
<1>5. Pending(l, "connectEstablished", c)
  BY <1>1, <1>2, HeadPending
<1>6. loopOf[c] = l /\ ConnOK(c) /\ fdOf[c] \in Fds
  BY <1>5, Parts, PhaseOf
<1>7. /\ Phase(state[c], file[fdOf[c]] = c, io.chan[c].index,
               EventRead \in io.chan[c].events, c \in connMap,
               Pending(l, "connectEstablished", c), Pending(Boss, "removeConn", c),
               Pending(l, "connectDestroyed", c), ClosingNow(c))
      /\ \A m \in Loops :
           /\ \A op \in KeyOps : Single(m, op, c)
           /\ Pending(m, "connectEstablished", c) => m = l
           /\ Pending(m, "connectDestroyed", c) => m = l
           /\ Pending(m, "removeConn", c) => m = Boss
  BY <1>6, PhaseOf
<1>8. /\ state[c] = "Connecting" /\ file[fdOf[c]] = c /\ c \in connMap
      /\ ~Pending(Boss, "removeConn", c) /\ ~Pending(l, "connectDestroyed", c)
      /\ caller[c] # "checked"
  BY <1>5, <1>6, <1>7 DEF Phase, ConnOK
<1>9. fdOf[c] # 0
  BY <1>8, Owns
<1>10. PICK io1 : io1 = enableReading(io, loopOf[c], fdOf[c], c)
  OBVIOUS
<1>11. Assert(io, state[c] = "Connecting") = io
  BY <1>8, Parts DEF Assert, IoType
<1>12. /\ io1 \in IoType /\ PollerOK(io1) /\ AcceptorOK(io1) /\ io1.chan[c].index # "new"
       /\ \A i : KeepsChannels(io1, i) => Established(io, i, c)
  BY <1>8, <1>9, <1>10, EstablishedEffect
<1>13. /\ Established(io, io', c) /\ OtherTasks /\ DataType'
       /\ \/ state' = [state EXCEPT ![c] = "Connected"]
          \/ state' = [state EXCEPT ![c] = "Disconnecting"]
  <2>0. \/ /\ io' = io1 /\ state' = [state EXCEPT ![c] = "Connected"]
           /\ UNCHANGED <<queue, dataVars>>
        \/ /\ Write(c, "Connected", io1)
           /\ state' = [state EXCEPT ![c] = "Connected"]
        \/ /\ io' = io1 /\ state' = [state EXCEPT ![c] = "Disconnecting"]
           /\ Pushed(l, Task("shutdownWrite", c)) /\ UNCHANGED dataVars
    BY <1>2, <1>6, <1>10, <1>11 DEF connectEstablished, Pushed
  <2>1. KeepsChannels(io1, io1)
    BY <1>12, SamePoller
  <2>2. ASSUME io' = io1, UNCHANGED <<queue, dataVars>>
        PROVE  Established(io, io', c) /\ OtherTasks /\ DataType'
    <3>1. Established(io, io', c)
      BY <1>12, <2>1, <2>2
    <3>2. OtherTasks
      BY <2>2 DEF OtherTasks
    <3>3. DataType'
      BY <2>2, Parts DEF DataType, dataVars
    <3> QED BY <3>1, <3>2, <3>3
  <2>3. ASSUME Write(c, "Connected", io1)
        PROVE  Established(io, io', c) /\ OtherTasks /\ DataType'
    <3>1. PICK st : st = "Connected"
      OBVIOUS
    <3>3. /\ st = "Connected" => file[fdOf[c]] = c /\ fdOf[c] # 0 /\ io1.chan[c].index # "new"
          /\ Write(c, st, io1)
      BY <1>8, <1>9, <1>12, <2>3, <3>1
    <3>2. KeepsChannels(io1, io') /\ OtherTasks /\ DataType'
      BY <1>12, <3>3, Parts, WriteEffect
    <3> QED BY <1>12, <3>2
  <2>4. ASSUME io' = io1, Pushed(l, Task("shutdownWrite", c)), UNCHANGED dataVars
        PROVE  Established(io, io', c) /\ OtherTasks /\ DataType'
    <3>1. Established(io, io', c)
      BY <1>12, <2>1, <2>4
    <3>2. OtherTasks
      BY <2>4, OtherTask DEF OtherTasks
    <3>3. DataType'
      BY <2>4, Parts DEF DataType, dataVars
    <3> QED BY <3>1, <3>2, <3>3
  <2>5. Established(io, io', c) /\ OtherTasks /\ DataType'
    BY <2>0, <2>2, <2>3, <2>4
  <2> QED BY <2>0, <2>5
<1>14. /\ TasksType' /\ \A d \in Conns \ {c} : SameTasksOf(d)
       /\ \A m \in Loops, o \in KeyOps :
            /\ m # l \/ o # "connectEstablished" => (Pending(m, o, c)' <=> Pending(m, o, c))
            /\ Single(m, o, c) => Single(m, o, c)'
       /\ Single(l, "connectEstablished", c) => ~Pending(l, "connectEstablished", c)'
  BY <1>1, <1>2, <1>4, <1>13, Parts, KeyTaken
<1>15. \A d \in Conns : ClosingNow(d)' <=> ClosingNow(d)
  <2>1. \A m \in Loops : m # l => batch'[m] = batch[m]
    BY <1>1, Parts DEF TaskDone, TasksType
  <2> QED BY <1>1, <1>3, <2>1, Parts DEF ClosingNow
<1>16. state' \in [Conns -> States] /\ state'[c] \in {"Connected", "Disconnecting"}
  BY <1>13, OtherTypes DEF States
<1>17. ConnOK(c)'
  <2>1. /\ ~Pending(l, "connectEstablished", c)' /\ ~Pending(Boss, "removeConn", c)'
        /\ ~Pending(l, "connectDestroyed", c)'
    BY <1>4, <1>7, <1>8, <1>14, Numbers
  <2>2. io'.chan[c].index # "new" /\ EventRead \in io'.chan[c].events
    BY <1>13 DEF Established
  <2>3. Phase(state'[c], file'[fdOf[c]] = c, io'.chan[c].index,
              EventRead \in io'.chan[c].events, c \in connMap',
              Pending(l, "connectEstablished", c)', Pending(Boss, "removeConn", c)',
              Pending(l, "connectDestroyed", c)', ClosingNow(c)')
    BY <1>3, <1>8, <1>16, <2>1, <2>2 DEF Phase
  <2>4. \A m \in Loops :
          /\ \A op \in KeyOps : Single(m, op, c)'
          /\ Pending(m, "connectEstablished", c)' => m = l
          /\ Pending(m, "connectDestroyed", c)' => m = l
          /\ Pending(m, "removeConn", c)' => m = Boss
    BY <1>4, <1>7, <1>14
  <2>5. caller'[c] = "checked" => state'[c] \notin {"none", "Connecting"}
    BY <1>16
  <2>6. l = loopOf'[c] /\ fdOf[c] = fdOf'[c]
    BY <1>3, <1>6
  <2> QED BY <2>3, <2>4, <2>5, <2>6, PhaseTo
<1>18. ASSUME NEW d \in Conns \ {c} PROVE SameConn(d) /\ SameTasksOf(d) /\ state'[d] = state[d]
  <2>1. /\ io'.chan[d].index = "new" <=> io.chan[d].index = "new"
        /\ EventRead \in io'.chan[d].events <=> EventRead \in io.chan[d].events
    BY <1>13 DEF Established
  <2>2. state'[d] = state[d]
    BY <1>13, OtherTypes
  <2>3. ConnOK(d)
    BY Parts
  <2> QED BY <1>3, <1>14, <1>15, <2>1, <2>2, <2>3 DEF SameConn, ConnOK
<1>19. ASSUME NEW m \in Loops PROVE LoopOK(m)'
  <2>1. LoopOK(m) /\ (batch'[m] = batch[m] \/ lpc[m] = "tasks")
    BY <1>1, Parts DEF TaskDone, TasksType
  <2>2. \A e \in active'[m] : e.ch \in Conns =>
           (EventRead \in io.chan[e.ch].events => EventRead \in io'.chan[e.ch].events)
    BY <1>13 DEF Established
  <2>3. io.chan[0].index = "add" => io'.chan[0].index = "add"
    BY <1>13 DEF Established
  <2> QED BY <1>3, <2>1, <2>2, <2>3, LoopFrame
<1>20. PollerOK(io)' /\ AcceptorOK(io)'
  BY <1>3, <1>13, PollerPrimed DEF Established, idVars
<1>21. FilesOK'
  <2>1. \A d \in Conns : state'[d] = "none" <=> state[d] = "none"
    BY <1>8, <1>16, <1>18
  <2> QED BY <1>3, <2>1, Parts DEF FilesOK
<1>22. TypeOK'
  BY <1>3, <1>13, <1>14, <1>16, OtherTypes, ConnTypes DEF Established, idVars
<1>23. Benign => (io.ok => io'.ok)
  BY <1>13 DEF Established
<1> QED BY <1>17, <1>18, <1>19, <1>20, <1>21, <1>22, <1>23, MoveStep

\* connectDestroyed: the channel is taken out of the poller, the descriptor is
\* still open.
LEMMA connectDestroyedKeeps ==
  ASSUME CoreInv, NEW l \in Loops, connectDestroyed(l), UNCHANGED serverVars
  PROVE  CoreInv'
<1>1. TaskIs(l, "connectDestroyed") /\ batch[l] # <<>> /\ lpc[l] = "tasks"
  BY DEF connectDestroyed, TaskIs
<1>2. PICK c \in Conns : c = Head(batch[l]).conn /\ Head(batch[l]) = Task("connectDestroyed", c)
  BY <1>1, Parts, HeadTask DEF TaskIs
<1>3. /\ UNCHANGED <<active, queue, batch, file, fdOf, loopOf, dataVars, shutWr, caller,
                     peer, unread, msgs>>
      /\ UNCHANGED <<nextConnId, connMap, backlog, clients>>
      /\ state' = [state EXCEPT ![c] = "Disconnected"]
      /\ lpc' = [lpc EXCEPT ![l] = "close"]
  BY <1>2 DEF connectDestroyed, taskVars, idVars, peerVars, serverVars
<1>4. Pending(l, "connectDestroyed", c)
  BY <1>1, <1>2, HeadPending
<1>5. loopOf[c] = l /\ ConnOK(c) /\ fdOf[c] \in Fds
  BY <1>4, Parts, PhaseOf
<1>6. /\ Phase(state[c], file[fdOf[c]] = c, io.chan[c].index,
               EventRead \in io.chan[c].events, c \in connMap,
               Pending(l, "connectEstablished", c), Pending(Boss, "removeConn", c),
               Pending(l, "connectDestroyed", c), ClosingNow(c))
      /\ \A m \in Loops :
           /\ \A op \in KeyOps : Single(m, op, c)
           /\ Pending(m, "connectEstablished", c) => m = l
           /\ Pending(m, "connectDestroyed", c) => m = l
           /\ Pending(m, "removeConn", c) => m = Boss
  BY <1>5, PhaseOf
<1>7. ~ClosingNow(c)
  BY <1>1, <1>5 DEF ClosingNow
<1>8. /\ state[c] \in {"Connected", "Disconnecting"} /\ file[fdOf[c]] = c /\ c \notin connMap
      /\ io.chan[c].index # "new"
      /\ ~Pending(l, "connectEstablished", c) /\ ~Pending(Boss, "removeConn", c)
  BY <1>4, <1>6, <1>7 DEF Phase
<1>9. fdOf[c] # 0
  BY <1>8, Owns
<1>10. Assert(io, state[c] \in {"Connected", "Disconnecting"}) = io
  BY <1>8, Parts DEF Assert, IoType
<1>11. io' = removeChannel(disableAll(io, loopOf[c], fdOf[c], c), loopOf[c], fdOf[c], c)
  BY <1>2, <1>5, <1>10 DEF connectDestroyed
<1>12. PollerBecomes(io, io', c, {}, "new")
  BY <1>8, <1>9, <1>11, Parts, RemoveKeepsPoller
<1>13. \A d \in Channels : io'.chan[d] = IF d = c THEN [events |-> {}, index |-> "new"] ELSE io.chan[d]
  BY <1>12, Parts DEF PollerBecomes, IoType
<1>14. TasksType' /\ SameKeyTasks
  BY <1>3, Parts, OtherTasksOnly DEF OtherTasks
<1>15. \A d \in Conns : SameTasksOf(d)
  BY <1>14 DEF SameKeyTasks, SameTasksOf
<1>16. ClosingNow(c)' /\ \A d \in Conns \ {c} : ClosingNow(d)' <=> ClosingNow(d)
  BY <1>1, <1>2, <1>3, <1>5, Parts, OtherTypes DEF ClosingNow
<1>17. state' \in [Conns -> States] /\ state'[c] = "Disconnected"
       /\ \A d \in Conns \ {c} : state'[d] = state[d]
  BY <1>3, OtherTypes DEF States
<1>18. ConnOK(c)'
  <2>1. \A m \in Loops, op \in KeyOps :
          /\ Pending(m, op, c)' <=> Pending(m, op, c)
          /\ Single(m, op, c) => Single(m, op, c)'
    BY <1>15 DEF SameTasksOf, Pending, Single
  <2>2. /\ ~Pending(l, "connectEstablished", c)' /\ ~Pending(Boss, "removeConn", c)'
        /\ Pending(l, "connectDestroyed", c)'
    BY <1>4, <1>8, <2>1, Numbers DEF KeyOps
  <2>3. io'.chan[c] = [events |-> {}, index |-> "new"]
    BY <1>13, Numbers
  <2>4. Phase(state'[c], file'[fdOf[c]] = c, io'.chan[c].index,
              EventRead \in io'.chan[c].events, c \in connMap',
              Pending(l, "connectEstablished", c)', Pending(Boss, "removeConn", c)',
              Pending(l, "connectDestroyed", c)', ClosingNow(c)')
    BY <1>3, <1>8, <1>16, <1>17, <2>2, <2>3 DEF Phase
  <2>5. \A m \in Loops :
          /\ \A op \in KeyOps : Single(m, op, c)'
          /\ Pending(m, "connectEstablished", c)' => m = l
          /\ Pending(m, "connectDestroyed", c)' => m = l
          /\ Pending(m, "removeConn", c)' => m = Boss
    BY <1>6, <2>1 DEF KeyOps
  <2>6. caller'[c] = "checked" => state'[c] \notin {"none", "Connecting"}
    BY <1>17
  <2>7. l = loopOf'[c] /\ fdOf[c] = fdOf'[c]
    BY <1>3, <1>5
  <2> QED BY <2>4, <2>5, <2>6, <2>7, PhaseTo
<1>19. ASSUME NEW d \in Conns \ {c} PROVE SameConn(d) /\ SameTasksOf(d) /\ state'[d] = state[d]
  <2>1. io'.chan[d] = io.chan[d]
    BY <1>13, Numbers
  <2>2. ConnOK(d)
    BY Parts
  <2> QED BY <1>3, <1>15, <1>16, <1>17, <2>1, <2>2 DEF SameConn, ConnOK
<1>20. ASSUME NEW m \in Loops PROVE LoopOK(m)'
  <2>1. LoopOK(m)
    BY Parts
  <2>2. CASE m = l
    <3>1. lpc'[l] = "close" /\ active'[l] = {} /\ batch'[l] = batch[l]
      BY <1>1, <1>3, <2>1, <2>2, OtherTypes DEF LoopOK
    <3>2. Head(batch[l]).op = "connectDestroyed"
      BY <1>1 DEF TaskIs
    <3> QED BY <1>1, <2>2, <3>1, <3>2 DEF LoopOK
  <2>3. CASE m # l
    <3>1. lpc'[m] = lpc[m]
      BY <1>3, <2>3, OtherTypes
    <3>2. ASSUME NEW e \in active[m], e.ch \in Conns, EventRead \in e.revents
          PROVE  io'.chan[e.ch] = io.chan[e.ch]
      <4>1. e.ch # c /\ e.ch \in Channels
        BY <1>5, <2>1, <2>3, <3>2, Numbers DEF LoopOK
      <4> QED BY <1>13, <4>1
    <3>3. io'.chan[0] = io.chan[0]
      BY <1>13, Numbers
    <3> QED BY <1>3, <2>1, <3>1, <3>2, <3>3, LoopFrame
  <2> QED BY <2>2, <2>3
<1>21. PollerOK(io)' /\ AcceptorOK(io)'
  BY <1>3, <1>12, PollerPrimed DEF PollerBecomes, idVars
<1>22. FilesOK'
  <2>1. \A d \in Conns : state'[d] = "none" <=> state[d] = "none"
    BY <1>8, <1>17
  <2> QED BY <1>3, <2>1, Parts DEF FilesOK
<1>23. TypeOK'
  <2>1. io' \in IoType
    BY <1>12 DEF PollerBecomes
  <2>2. ConnTypeOK'
    BY <1>3, <1>17, <2>1, OtherTypes DEF CoreInv, TypeOK, ConnTypeOK, dataVars
  <2> QED BY <2>2 DEF CoreInv, TypeOK, serverVars, startVars
<1>24. io'.ok = io.ok
  BY <1>12 DEF PollerBecomes
<1> QED BY <1>18, <1>19, <1>20, <1>21, <1>22, <1>23, <1>24, MoveStep

\* so.close() at the end of the same closure: the number is free again, and
\* nothing refers to it.
LEMMA CloseConnKeeps ==
  ASSUME CoreInv, NEW l \in Loops, CloseConn(l), UNCHANGED serverVars
  PROVE  CoreInv'
<1>1. /\ lpc[l] = "close" /\ TaskDone(l) /\ batch[l] # <<>>
      /\ Head(batch[l]).op = "connectDestroyed"
  BY Parts DEF CloseConn, LoopOK
<1>2. PICK c \in Conns : c = Head(batch[l]).conn /\ Head(batch[l]) = Task("connectDestroyed", c)
  BY <1>1, Parts, HeadTask
<1>4. Pending(l, "connectDestroyed", c)
  BY <1>1, <1>2, HeadPending
<1>5. loopOf[c] = l /\ ConnOK(c)
  BY <1>4, Parts, PhaseOf
<1>0. PICK f \in Fds : f = fdOf[c]
  BY Parts
<1>3. /\ UNCHANGED <<active, queue, state, fdOf, loopOf, dataVars, shutWr, caller,
                     peer, unread, msgs>>
      /\ UNCHANGED <<nextConnId, connMap, backlog, clients>>
      /\ file' = [file EXCEPT ![f] = None] /\ io' = closed(io, f)
      /\ lpc' = [lpc EXCEPT ![l] = "tasks"]
  BY <1>0, <1>2 DEF CloseConn, idVars, peerVars, serverVars
<1>6. /\ Phase(state[c], file[f] = c, io.chan[c].index,
               EventRead \in io.chan[c].events, c \in connMap,
               Pending(l, "connectEstablished", c), Pending(Boss, "removeConn", c),
               Pending(l, "connectDestroyed", c), ClosingNow(c))
      /\ \A m \in Loops :
           /\ \A op \in KeyOps : Single(m, op, c)
           /\ Pending(m, "connectEstablished", c) => m = l
           /\ Pending(m, "connectDestroyed", c) => m = l
           /\ Pending(m, "removeConn", c) => m = Boss
  BY <1>0, <1>5, PhaseOf
<1>7. ClosingNow(c)
  BY <1>1, <1>2, <1>5 DEF ClosingNow
<1>8. /\ state[c] \in {"Disconnecting", "Disconnected"} /\ file[f] = c /\ c \notin connMap
      /\ io.chan[c].index = "new"
      /\ ~Pending(l, "connectEstablished", c) /\ ~Pending(Boss, "removeConn", c)
  BY <1>4, <1>6, <1>7 DEF Phase
<1>9. f # 0
  BY <1>0, <1>8, Owns
<1>10. \A m \in Loops : io.map[m][f] = None /\ io.reg[m][f] = NoReg
  <2>1. ASSUME NEW m \in Loops PROVE io.map[m][f] = None /\ io.reg[m][f] = NoReg
    <3>1. NumberOK(io, m, f)
      BY <1>9, Parts DEF PollerOK
    <3> QED BY <1>8, <3>1 DEF NumberOK
  <2> QED BY <2>1
<1>11. io' = io
  <2>1. io.reg = [m \in Loops |-> [io.reg[m] EXCEPT ![f] = NoReg]]
    BY <1>10, Parts DEF IoType
  <2>2. io' = [io EXCEPT !.reg = io.reg]
    BY <1>3, <2>1 DEF closed
  <2>3. [io EXCEPT !.reg = io.reg] = io
    BY Parts DEF IoType
  <2> QED BY <2>2, <2>3
<1>12. /\ TasksType' /\ \A d \in Conns \ {c} : SameTasksOf(d)
       /\ \A m \in Loops, o \in KeyOps :
            /\ m # l \/ o # "connectDestroyed" => (Pending(m, o, c)' <=> Pending(m, o, c))
            /\ Single(m, o, c) => Single(m, o, c)'
       /\ Single(l, "connectDestroyed", c) => ~Pending(l, "connectDestroyed", c)'
  <2>1. OtherTasks /\ "connectDestroyed" \in KeyOps
    BY <1>3 DEF OtherTasks, KeyOps
  <2> QED BY <1>1, <1>2, <2>1, Parts, KeyTaken
<1>13. file' \in [Fds -> Channels \cup {None}] /\ file'[f] = None /\ \A g \in Fds \ {f} : file'[g] = file[g]
  BY <1>3, Parts DEF OwnersType
<1>14. ~ClosingNow(c)' /\ \A d \in Conns \ {c} : ClosingNow(d)' <=> ClosingNow(d)
  <2>1. \A m \in Loops : m # l => batch'[m] = batch[m] /\ lpc'[m] = lpc[m]
    BY <1>1, <1>3, Parts, OtherTypes DEF TaskDone, TasksType
  <2>2. lpc'[l] = "tasks"
    BY <1>3, OtherTypes
  <2> QED BY <1>2, <1>3, <1>5, <2>1, <2>2, Parts DEF ClosingNow
<1>15. ConnOK(c)'
  <2>1. /\ ~Pending(l, "connectEstablished", c)' /\ ~Pending(Boss, "removeConn", c)'
        /\ ~Pending(l, "connectDestroyed", c)'
    BY <1>6, <1>8, <1>12, Numbers DEF KeyOps
  <2>2. file'[f] # c
    BY <1>13, Numbers
  <2>3. Phase(state'[c], file'[f] = c, io'.chan[c].index,
              EventRead \in io'.chan[c].events, c \in connMap',
              Pending(l, "connectEstablished", c)', Pending(Boss, "removeConn", c)',
              Pending(l, "connectDestroyed", c)', ClosingNow(c)')
    BY <1>3, <1>8, <1>11, <2>1, <2>2 DEF Phase
  <2>4. \A m \in Loops :
          /\ \A op \in KeyOps : Single(m, op, c)'
          /\ Pending(m, "connectEstablished", c)' => m = l
          /\ Pending(m, "connectDestroyed", c)' => m = l
          /\ Pending(m, "removeConn", c)' => m = Boss
    BY <1>6, <1>12 DEF KeyOps
  <2>5. caller'[c] = "checked" => state'[c] \notin {"none", "Connecting"}
    BY <1>3, <1>8
  <2>6. l = loopOf'[c] /\ f = fdOf'[c]
    BY <1>0, <1>3, <1>5
  <2> QED BY <2>3, <2>4, <2>5, <2>6, PhaseTo
<1>16. ASSUME NEW d \in Conns \ {c} PROVE SameConn(d) /\ SameTasksOf(d) /\ state'[d] = state[d]
  <2>1. ConnOK(d) /\ fdOf[d] \in Fds
    BY Parts
  <2>2. file'[fdOf[d]] = d <=> file[fdOf[d]] = d
    BY <1>8, <1>13, <2>1, Numbers
  <2> QED BY <1>3, <1>11, <1>12, <1>14, <2>1, <2>2 DEF SameConn, ConnOK
<1>17. ASSUME NEW m \in Loops PROVE LoopOK(m)'
  <2>1. LoopOK(m)
    BY Parts
  <2>2. CASE m = l
    <3>1. lpc'[l] = "tasks" /\ active'[l] = {}
      BY <1>1, <1>3, <2>1, <2>2, OtherTypes DEF LoopOK
    <3> QED BY <2>2, <3>1 DEF LoopOK
  <2>3. CASE m # l
    <3>1. lpc'[m] = lpc[m] /\ batch'[m] = batch[m]
      BY <1>1, <1>3, <2>3, Parts, OtherTypes DEF TaskDone, TasksType
    <3>2. file'[0] = file[0]
      BY <1>9, <1>13, Numbers
    <3> QED BY <1>3, <1>11, <2>1, <3>1, <3>2, LoopFrame
  <2> QED BY <2>2, <2>3
<1>18. PollerOK(io)'
  <2>1. ASSUME NEW m \in Loops, NEW g \in Fds \ {0} PROVE NumberOK(io, m, g)'
    <3>1. NumberOK(io, m, g)
      BY Parts DEF PollerOK
    <3>2. g = f => io.map[m][g] = None
      BY <1>10
    <3> QED BY <1>3, <1>11, <1>13, <3>1, <3>2 DEF NumberOK
  <2>2. ASSUME NEW d \in Conns PROVE ChannelOK(io, d)'
    <3>1. ChannelOK(io, d)
      BY Parts DEF PollerOK
    <3> QED BY <1>3, <1>11, <3>1 DEF ChannelOK
  <2> QED BY <2>1, <2>2 DEF PollerOK
<1>19. AcceptorOK(io)'
  <2>1. file'[0] = file[0]
    BY <1>9, <1>13, Numbers
  <2> QED BY <1>11, <2>1, Parts DEF AcceptorOK
<1>20. FilesOK'
  BY <1>3, <1>9, <1>13, Parts, Numbers DEF FilesOK
<1>21. TypeOK'
  <2>1. ConnTypeOK'
    BY <1>3, <1>11, <1>12, <1>13, OtherTypes DEF CoreInv, TypeOK, ConnTypeOK, TasksType, dataVars
  <2> QED BY <2>1 DEF CoreInv, TypeOK, serverVars, startVars
<1> QED BY <1>11, <1>15, <1>16, <1>17, <1>18, <1>19, <1>20, <1>21, MoveStep

\* GetNextLoop returns a loop that exists.
LEMMA NextLoopType ==
  ASSUME CoreInv
  PROVE  NextLoop \in Loops /\ AfterNext \in 0..EngineCnt
BY ConnAssumption DEF CoreInv, TypeOK, NextLoop, AfterNext, NextIndex, Loops, Boss

\* newConn: a number that was free has a connection, which waits to be
\* established on its loop.
LEMMA AcceptKeeps ==
  ASSUME CoreInv, NEW e \in active[Boss], Accept(e)
  PROVE  CoreInv'
<1>1. /\ lpc[Boss] = "events" /\ e.ch = 0 /\ Boss \in Loops
      /\ active' = [active EXCEPT ![Boss] = @ \ {e}] /\ backlog' = backlog - 1
      /\ UNCHANGED <<lpc, batch, io, dataVars, shutWr, caller, unread, msgs,
                     startVars, listening, clients>>
  BY Numbers DEF Accept
<1>2. PICK f \in Fds : LowestFree(f) /\ newConn(f)
  BY DEF Accept
<1>3. file[0] = 0 /\ backlog > 0 /\ io.chan[0].index = "add"
  BY <1>1, Parts DEF LoopOK
<1>4. nextConnId \in Nat \ {0} /\ clients \in 0..MaxConns /\ backlog \in Nat
      /\ nextConnId + backlog <= clients + 1
  BY ConnAssumption DEF CoreInv, TypeOK, FilesOK
<1>5. PICK c \in Conns : c = nextConnId
  BY <1>3, <1>4, ConnAssumption DEF Conns
<1>6. PICK k \in Loops : k = NextLoop
  BY NextLoopType
<1>7. /\ nextConnId' = c + 1 /\ next' = AfterNext
      /\ loopOf' = [loopOf EXCEPT ![c] = k] /\ fdOf' = [fdOf EXCEPT ![c] = f]
      /\ file' = [file EXCEPT ![f] = c]
      /\ state' = [state EXCEPT ![c] = "Connecting"]
      /\ peer' = [peer EXCEPT ![c] = "open"]
      /\ connMap' = connMap \cup {c}
      /\ Pushed(k, Task("connectEstablished", c))
  BY <1>2, <1>5, <1>6 DEF newConn, Pushed
<1>8. f # 0 /\ file[f] = None
  BY <1>2, <1>3, Numbers DEF LowestFree
<1>9. state[c] = "none" /\ ConnOK(c) /\ loopOf[c] \in Loops /\ fdOf[c] \in Fds
  BY <1>4, <1>5, Parts DEF FilesOK
<1>10. /\ Phase(state[c], file[fdOf[c]] = c, io.chan[c].index,
                EventRead \in io.chan[c].events, c \in connMap,
                Pending(loopOf[c], "connectEstablished", c), Pending(Boss, "removeConn", c),
                Pending(loopOf[c], "connectDestroyed", c), ClosingNow(c))
       /\ \A m \in Loops :
            /\ \A op \in KeyOps : Single(m, op, c)
            /\ Pending(m, "connectEstablished", c) => m = loopOf[c]
            /\ Pending(m, "connectDestroyed", c) => m = loopOf[c]
            /\ Pending(m, "removeConn", c) => m = Boss
  BY <1>9, PhaseOf
<1>11. /\ file[fdOf[c]] # c /\ io.chan[c].index = "new" /\ caller[c] # "checked"
       /\ \A m \in Loops, op \in KeyOps : ~Pending(m, op, c)
  <2>1. /\ file[fdOf[c]] # c /\ io.chan[c].index = "new"
        /\ ~Pending(loopOf[c], "connectEstablished", c) /\ ~Pending(Boss, "removeConn", c)
        /\ ~Pending(loopOf[c], "connectDestroyed", c)
    BY <1>9, <1>10 DEF Phase
  <2> QED BY <1>9, <1>10, <2>1 DEF KeyOps, ConnOK
<1>12. io.chan[c].events = {}
  BY <1>11, Parts DEF PollerOK, ChannelOK
<1>13. /\ TasksType' /\ \A d \in Conns \ {c} : SameTasksOf(d)
       /\ \A m \in Loops, o \in KeyOps :
            /\ Pending(m, o, c)' <=> Pending(m, o, c) \/ (m = k /\ o = "connectEstablished")
            /\ Single(m, o, c) /\ (m = k /\ o = "connectEstablished" => ~Pending(m, o, c)) => Single(m, o, c)'
  <2>1. "connectEstablished" \in KeyOps
    BY DEF KeyOps
  <2> QED BY <1>1, <1>7, <2>1, Parts, KeyPushed
<1>14. /\ loopOf'[c] = k /\ fdOf'[c] = f /\ file'[f] = c /\ state'[c] = "Connecting"
       /\ \A d \in Conns \ {c} : loopOf'[d] = loopOf[d] /\ fdOf'[d] = fdOf[d] /\ state'[d] = state[d]
       /\ \A g \in Fds \ {f} : file'[g] = file[g]
       /\ loopOf' \in [Conns -> Loops] /\ fdOf' \in [Conns -> Fds]
       /\ file' \in [Fds -> Channels \cup {None}] /\ state' \in [Conns -> States]
       /\ peer' \in [Conns -> {"none", "open", "closed", "reset"}]
  BY <1>7, Parts, OtherTypes, Numbers DEF OwnersType, States
<1>15. ConnOK(c)'
  <2>1. /\ Pending(k, "connectEstablished", c)' /\ ~Pending(Boss, "removeConn", c)'
        /\ ~Pending(k, "connectDestroyed", c)'
    BY <1>11, <1>13, Numbers DEF KeyOps
  <2>2. Phase(state'[c], file'[f] = c, io'.chan[c].index,
              EventRead \in io'.chan[c].events, c \in connMap',
              Pending(k, "connectEstablished", c)', Pending(Boss, "removeConn", c)',
              Pending(k, "connectDestroyed", c)', ClosingNow(c)')
    BY <1>1, <1>7, <1>11, <1>14, <2>1 DEF Phase
  <2>3. \A m \in Loops :
          /\ \A op \in KeyOps : Single(m, op, c)'
          /\ Pending(m, "connectEstablished", c)' => m = k
          /\ Pending(m, "connectDestroyed", c)' => m = k
          /\ Pending(m, "removeConn", c)' => m = Boss
    BY <1>10, <1>11, <1>13 DEF KeyOps
  <2>4. caller'[c] = "checked" => state'[c] \notin {"none", "Connecting"}
    BY <1>1, <1>11
  <2> QED BY <1>14, <2>2, <2>3, <2>4, PhaseTo
<1>16. ASSUME NEW d \in Conns \ {c} PROVE SameConn(d) /\ SameTasksOf(d) /\ state'[d] = state[d]
  <2>1. ConnOK(d) /\ fdOf[d] \in Fds
    BY Parts
  <2>2. file'[fdOf[d]] = d <=> file[fdOf[d]] = d
    BY <1>8, <1>14, <2>1, Numbers
  <2>3. ClosingNow(d)' <=> ClosingNow(d)
    BY <1>1, <1>14 DEF ClosingNow
  <2>4. d \in connMap' <=> d \in connMap
    BY <1>7
  <2> QED BY <1>1, <1>13, <1>14, <2>1, <2>2, <2>3, <2>4 DEF SameConn, ConnOK
<1>17. ASSUME NEW m \in Loops PROVE LoopOK(m)'
  <2>1. LoopOK(m) /\ active'[m] \subseteq active[m]
    BY <1>1, Parts, EventHandled
  <2>2. ASSUME NEW d \in active'[m], d.ch \in Conns, EventRead \in d.revents
        PROVE  loopOf'[d.ch] = loopOf[d.ch]
    <3>1. d.ch # c
      BY <1>12, <2>1, <2>2 DEF LoopOK
    <3> QED BY <1>14, <2>2, <3>1
  <2>3. ASSUME NEW d \in active'[m], m = Boss PROVE d.ch # 0
    BY <1>1, <2>3, EventHandled
  <2> QED BY <1>1, <2>1, <2>2, <2>3, LoopFrame
<1>18. PollerOK(io)'
  <2>1. ASSUME NEW m \in Loops, NEW g \in Fds \ {0} PROVE NumberOK(io, m, g)'
    <3>1. NumberOK(io, m, g)
      BY Parts DEF PollerOK
    <3>2. CASE io.map[m][g] = None
      BY <1>1, <3>1, <3>2 DEF NumberOK
    <3>3. CASE io.map[m][g] # None
      <4>1. /\ io.map[m][g] \in Conns /\ io.chan[io.map[m][g]].index # "new"
            /\ file[g] = io.map[m][g]
        BY <3>1, <3>3 DEF NumberOK
      <4>2. io.map[m][g] # c /\ g # f
        BY <1>8, <1>11, <3>3, <4>1
      <4> QED BY <1>1, <1>14, <3>1, <3>3, <4>1, <4>2 DEF NumberOK
    <3> QED BY <3>2, <3>3
  <2>2. ASSUME NEW d \in Conns PROVE ChannelOK(io, d)'
    <3>1. ChannelOK(io, d)
      BY Parts DEF PollerOK
    <3> QED BY <1>1, <1>11, <1>14, <3>1 DEF ChannelOK
  <2> QED BY <2>1, <2>2 DEF PollerOK
<1>19. AcceptorOK(io)'
  <2>1. file'[0] = file[0]
    BY <1>8, <1>14, Numbers
  <2> QED BY <1>1, <2>1, Parts DEF AcceptorOK
<1>20. FilesOK'
  <2>1. file'[0] \in {0, None}
    BY <1>3, <1>8, <1>14, Numbers
  <2>2. ASSUME NEW g \in Fds \ {0}, file'[g] # None
        PROVE  file'[g] \in Conns /\ fdOf'[file'[g]] = g
    <3>1. CASE g = f
      BY <1>14, <3>1
    <3>2. CASE g # f
      <4>1. file'[g] = file[g] /\ file[g] \in Conns /\ fdOf[file[g]] = g
        BY <1>14, <2>2, <3>2, Parts DEF FilesOK
      <4>2. file[g] # c
        BY <1>11, <4>1
      <4> QED BY <1>14, <4>1, <4>2
    <3> QED BY <3>1, <3>2
  <2>3. ASSUME NEW d \in Conns PROVE state'[d] = "none" <=> d >= nextConnId'
    <3>1. state[d] = "none" <=> d >= c
      BY <1>5, Parts DEF FilesOK
    <3>2. d \in Nat /\ c \in Nat
      BY ConnAssumption DEF Conns
    <3> QED BY <1>7, <1>14, <3>1, <3>2
  <2>4. nextConnId' + backlog' <= clients' + 1
    BY <1>1, <1>4, <1>5, <1>7
  <2> QED BY <2>1, <2>2, <2>3, <2>4 DEF FilesOK
<1>21. TypeOK'
  <2>1. active' \in ActiveType
    BY <1>1, EventHandled
  <2>2. ConnTypeOK'
    BY <1>1, <1>13, <1>14, <2>1, OtherTypes
       DEF CoreInv, TypeOK, ConnTypeOK, TasksType, ActiveType, dataVars
  <2>3. nextConnId' \in 1..(MaxConns + 1) /\ backlog' \in 0..MaxConns
    BY <1>1, <1>3, <1>5, <1>7, ConnAssumption DEF Conns, CoreInv, TypeOK
  <2>4. connMap' \subseteq Conns /\ next' \in 0..EngineCnt
    BY <1>7, NextLoopType DEF CoreInv, TypeOK
  <2> QED BY <1>1, <2>2, <2>3, <2>4 DEF CoreInv, TypeOK, startVars
<1> QED BY <1>1, <1>15, <1>16, <1>17, <1>18, <1>19, <1>20, <1>21, MoveStep

\* handleRead of the acceptor when accept fails: its descriptor is closed.
LEMMA AcceptFailsKeeps ==
  ASSUME CoreInv, NEW e \in active[Boss], AcceptFails(e)
  PROVE  CoreInv'
<1>1. /\ lpc[Boss] = "events" /\ e.ch = 0 /\ Boss \in Loops
      /\ active' = [active EXCEPT ![Boss] = @ \ {e}] /\ backlog' = backlog - 1
      /\ file' = [file EXCEPT ![0] = None] /\ io' = closed(io, 0)
      /\ UNCHANGED <<lpc, queue, batch, state, fdOf, loopOf, dataVars, shutWr, caller, peer,
                     unread, msgs, startVars, next, listening, nextConnId, connMap, clients>>
  BY Numbers DEF AcceptFails, taskVars, idVars, peerVars
<1>2. backlog > 0 /\ io.chan[0].index = "add" /\ 0 \in Fds /\ backlog \in 0..MaxConns
  BY <1>1, Parts, Numbers DEF LoopOK, CoreInv, TypeOK
<1>3. /\ io' \in IoType /\ io'.map = io.map /\ io'.chan = io.chan /\ io'.ok = io.ok
      /\ \A m \in Loops : io'.reg[m][0] = NoReg
      /\ \A m \in Loops, g \in Fds \ {0} : io'.reg[m][g] = io.reg[m][g]
  <2> DEFINE r == [m \in Loops |-> [io.reg[m] EXCEPT ![0] = NoReg]]
  <2>1. io' = [io EXCEPT !.reg = r]
    BY <1>1 DEF closed
  <2>2. r \in [Loops -> [Fds -> [ch : Channels \cup {None}, events : SUBSET {EventRead, EventWrite}]]]
    BY <1>2, Parts DEF IoType, NoReg
  <2>3. /\ \A m \in Loops : r[m][0] = NoReg
        /\ \A m \in Loops, g \in Fds \ {0} : r[m][g] = io.reg[m][g]
    BY <1>2, Parts DEF IoType
  <2> HIDE DEF r
  <2>4. io' \in IoType /\ io'.map = io.map /\ io'.chan = io.chan /\ io'.ok = io.ok /\ io'.reg = r
    BY <2>1, <2>2, Parts DEF IoType
  <2> QED BY <2>3, <2>4
<1>4. file' \in [Fds -> Channels \cup {None}] /\ file'[0] = None /\ \A g \in Fds \ {0} : file'[g] = file[g]
  BY <1>1, <1>2, Parts DEF OwnersType
<1>5. TasksType' /\ SameKeyTasks
  BY <1>1, Parts, OtherTasksOnly DEF OtherTasks
<1>6. ASSUME NEW d \in Conns PROVE ConnOK(d)'
  <2>1. ConnOK(d) /\ fdOf[d] \in Fds /\ loopOf[d] \in Loops /\ file[0] \in {0, None}
    BY Parts DEF FilesOK
  <2>2. file'[fdOf[d]] = d <=> file[fdOf[d]] = d
    BY <1>4, <2>1, Numbers
  <2>3. ClosingNow(d)' <=> ClosingNow(d)
    BY <1>1 DEF ClosingNow
  <2>4. SameConn(d)
    BY <1>1, <1>3, <2>1, <2>2, <2>3 DEF SameConn, ConnOK
  <2>5. SameTasksOf(d)
    BY <1>5 DEF SameKeyTasks, SameTasksOf
  <2> QED BY <1>1, <2>1, <2>4, <2>5, ConnFrame
<1>7. ASSUME NEW m \in Loops PROVE LoopOK(m)'
  <2>1. LoopOK(m) /\ active'[m] \subseteq active[m]
    BY <1>1, Parts, EventHandled
  <2>2. ASSUME NEW d \in active'[m], m = Boss PROVE d.ch # 0
    BY <1>1, <2>2, EventHandled
  <2> QED BY <1>1, <1>3, <2>1, <2>2, LoopFrame
<1>8. PollerOK(io)'
  <2>1. ASSUME NEW m \in Loops, NEW g \in Fds \ {0} PROVE NumberOK(io, m, g)'
    <3>1. NumberOK(io, m, g)
      BY Parts DEF PollerOK
    <3> QED BY <1>1, <1>3, <1>4, <3>1 DEF NumberOK
  <2>2. ASSUME NEW d \in Conns PROVE ChannelOK(io, d)'
    <3>1. ChannelOK(io, d)
      BY Parts DEF PollerOK
    <3> QED BY <1>1, <1>3, <3>1 DEF ChannelOK
  <2> QED BY <2>1, <2>2 DEF PollerOK
<1>9. AcceptorOK(io)'
  BY <1>2, <1>3, Parts DEF AcceptorOK
<1>10. FilesOK'
  <2>1. nextConnId \in Nat /\ clients \in Nat /\ nextConnId + backlog <= clients + 1 /\ backlog \in Nat
    BY ConnAssumption DEF CoreInv, TypeOK, FilesOK
  <2>2. nextConnId' + backlog' <= clients' + 1
    BY <1>1, <2>1
  <2> QED BY <1>1, <1>4, <2>2, Parts DEF FilesOK
<1>11. TypeOK'
  <2>1. active' \in ActiveType
    BY <1>1, EventHandled
  <2>2. ConnTypeOK'
    BY <1>1, <1>3, <1>4, <2>1, OtherTypes DEF CoreInv, TypeOK, ConnTypeOK, ActiveType, dataVars
  <2>3. backlog' \in 0..MaxConns
    BY <1>1, <1>2, ConnAssumption
  <2> QED BY <1>1, <2>2, <2>3 DEF CoreInv, TypeOK, startVars
<1> QED BY <1>3, <1>6, <1>7, <1>8, <1>9, <1>10, <1>11 DEF CoreInv

-----------------------------------------------------------------------------
(* All steps.                                                               *)

\* The initial states satisfy the inductive invariant.
LEMMA InitCoreInv == Init => CoreInv
<1> SUFFICES ASSUME Init PROVE CoreInv
  OBVIOUS
<1> USE DEF Init, ConnInit
<1>0. \A s \in {<<>>} : s \o <<>> = <<>> /\ DOMAIN s = {} /\ s \in Seq(Tasks) /\ s \in Seq(Nat)
  OBVIOUS
<1>1. io = NewIo /\ io \in IoType
  BY Numbers DEF NewIo, IoType, NoReg
<1>2. /\ \A l \in Loops, f \in Fds : io.map[l][f] = None /\ io.reg[l][f] = NoReg
      /\ \A c \in Channels : io.chan[c] = [events |-> {}, index |-> "new"]
      /\ io.ok = TRUE
  BY DEF NewIo
<1>3. TypeOK
  <2>1. /\ lpc \in [Loops -> {"poll", "events", "tasks", "close"}]
        /\ active \in [Loops -> SUBSET [ch : Channels, revents : SUBSET {EventRead, EventWrite}]]
    OBVIOUS
  <2>2. queue \in [Loops -> Seq(Tasks)] /\ batch \in [Loops -> Seq(Tasks)] /\ got \in [Conns -> Seq(Nat)]
    BY <1>0
  <2>3. /\ file \in [Fds -> Channels \cup {None}] /\ fdOf \in [Conns -> Fds] /\ loopOf \in [Conns -> Loops]
        /\ state \in [Conns -> States]
    BY Numbers DEF States
  <2>4. ConnTypeOK
    <3>1. BufferLen \in Nat \ {0} /\ 0 <= BufferLen
      BY ConnAssumption
    <3> QED BY <1>1, <2>1, <2>2, <2>3, <3>1 DEF ConnTypeOK
  <2>5. /\ starts \in 0..MaxStarts /\ next \in 0..EngineCnt /\ nextConnId \in 1..(MaxConns + 1)
        /\ backlog \in 0..MaxConns /\ clients \in 0..MaxConns
    <3>1. 0 \in 0..MaxStarts /\ 0 \in 0..EngineCnt /\ 1 \in 1..(MaxConns + 1) /\ 0 \in 0..MaxConns
      BY ConnAssumption, ServerAssumption
    <3> QED BY <3>1
  <2> QED BY <2>4, <2>5 DEF TypeOK
<1>4. \A l \in Loops : LoopOK(l)
  BY DEF LoopOK
<1>5. PollerOK(io)
  <2>1. \A l \in Loops, f \in Fds \ {0} : NumberOK(io, l, f)
    BY <1>2 DEF NumberOK
  <2>2. \A c \in Conns : ChannelOK(io, c)
    BY <1>2, Numbers DEF ChannelOK
  <2> QED BY <2>1, <2>2 DEF PollerOK
<1>6. AcceptorOK(io)
  BY <1>2, Numbers DEF AcceptorOK
<1>7. FilesOK
  BY Numbers, ConnAssumption DEF FilesOK, Conns, Fds
<1>8. ASSUME NEW c \in Conns PROVE ConnOK(c)
  <2>1. \A m \in Loops : Todo(m) = <<>>
    BY <1>0 DEF Todo
  <2>2. \A u : \A m \in Loops : ~Has(Todo(m), u) /\ Once(Todo(m), u)
    BY <1>0, <2>1 DEF Has, Once
  <2>3. TasksOK(c)
    BY <2>2 DEF TasksOK
  <2>4. /\ state[c] = "none" /\ file[fdOf[c]] # c /\ io.chan[c].index = "new" /\ c \notin connMap
        /\ loopOf[c] \in Loops /\ Boss \in Loops
    BY <1>2, Numbers
  <2>5. PhaseOK(c)
    BY <2>2, <2>4 DEF PhaseOK, Phase
  <2> QED BY <2>3, <2>5 DEF ConnOK
<1> QED BY <1>2, <1>3, <1>4, <1>5, <1>6, <1>7, <1>8 DEF CoreInv

\* Every step preserves the inductive invariant.
LEMMA NextCoreInv == CoreInv /\ ListenOK /\ [Next]_vars => CoreInv'
<1> SUFFICES ASSUME CoreInv, ListenOK, [Next]_vars PROVE CoreInv'
  OBVIOUS
<1>1. ASSUME NEW l \in Loops, ConnStep(l) PROVE CoreInv'
  <2>1. UNCHANGED serverVars
    BY <1>1 DEF ConnStep
  <2>2. ASSUME NEW e \in active[l], HandleEvent(l, e) PROVE CoreInv'
    BY <2>1, <2>2, HandleEventKeeps
  <2> QED BY <1>1, <2>1, <2>2, connectEstablishedKeeps, RunWriteKeeps, RunWriteCompleteKeeps,
             shutdownWriteKeeps, connectDestroyedKeeps, CloseConnKeeps DEF ConnStep
<1>2. ASSUME BossStep PROVE CoreInv'
  <2>1. ASSUME NEW e \in active[Boss], Accept(e) \/ AcceptFails(e) PROVE CoreInv'
    BY <2>1, AcceptKeeps, AcceptFailsKeeps
  <2> QED BY <1>2, <2>1, ListenKeeps, removeConnInLoopKeeps DEF BossStep
<1>3. ASSUME NEW l \in Loops, LoopStep(l) PROVE CoreInv'
  BY <1>1, <1>2, <1>3, PollKeeps, TakePendingKeeps, TasksDoneKeeps DEF LoopStep
<1>4. ASSUME Environment PROVE CoreInv'
  <2>1. ASSUME NEW c \in Conns, UNCHANGED serverVars,
               \/ AsyncWrite(c)
               \/ ShutdownWriteCheck(c) \/ ShutdownWriteStore(c)
               \/ PeerSends(c) \/ PeerCloses(c)
        PROVE  CoreInv'
    BY <2>1, AsyncWriteKeeps, ShutdownWriteCheckKeeps, ShutdownWriteStoreKeeps, PeerKeeps
  <2> QED BY <1>4, <2>1, StartKeeps, StartQueuesKeeps, ClientConnectsKeeps DEF Environment
<1>5. CASE UNCHANGED vars
  <2>1. UNCHANGED <<lpc, active, queue, batch, io, file, state, fdOf, loopOf, wrote, out, capacity,
                    got, shutWr, caller, peer, unread, msgs, serverVars>>
    BY <1>5 DEF vars, connVars, loopVars, taskVars, idVars, dataVars, peerVars
  <2>2. SameKeyTasks /\ TasksType'
    BY <2>1, Parts, OtherTasksOnly DEF OtherTasks
  <2>3. StateMoves /\ KeepsChannels(io, io') /\ DataType'
    BY <2>1, Parts, SamePoller, StatesKept DEF DataType
  <2>4. Quiet
    BY <2>1, <2>2, <2>3, ConnQuiet DEF idVars
  <2>5. TypeOK'
    BY <2>1, <2>2, <2>3, OtherTypes, ConnTypes DEF KeepsChannels, StateMoves, idVars
  <2> QED BY <2>4, <2>5, QuietStep
<1> QED BY <1>3, <1>4, <1>5 DEF Next

-----------------------------------------------------------------------------
(* When the listening socket is closed.                                     *)

\* A task is taken from the batch of a loop, or none.
MayTake == UNCHANGED batch \/ \E l \in Loops : batch[l] # <<>> /\ TaskDone(l)

\* Nothing is pushed, or a task other than listen.
NoListenPush ==
    UNCHANGED queue \/ \E k \in Loops, t \in Tasks : t.op # "listen" /\ Pushed(k, t)

\* The pending tasks are taken over as a batch.
LEMMA TakePendingTodo ==
  ASSUME CoreInv, NEW l \in Loops, TakePending(l)
  PROVE  \A m \in Loops : Todo(m)' = Todo(m)
<1>1. /\ batch[l] = <<>> /\ batch' = [batch EXCEPT ![l] = queue[l]]
      /\ queue' = [queue EXCEPT ![l] = <<>>]
  BY Parts DEF TakePending, LoopOK
<1>2. \A q \in Seq(Tasks) : q \o <<>> = q /\ <<>> \o q = q
  OBVIOUS
<1> QED BY <1>1, <1>2, Parts DEF Todo, TasksType

\* No listen is added.
LEMMA ListenTasks ==
  ASSUME TasksType, MayTake, NoListenPush
  PROVE  /\ Has(Todo(Boss)', Task("listen", 0)) => Has(Todo(Boss), Task("listen", 0))
         /\ Once(Todo(Boss), Task("listen", 0)) => Once(Todo(Boss)', Task("listen", 0))
<1> DEFINE u == Task("listen", 0)
<1>0. Boss \in Loops /\ \A t \in Tasks : t.op # "listen" => t # u
  BY Numbers DEF Task
<1> HIDE DEF u
<1> SUFFICES /\ Has(Todo(Boss)', u) => Has(Todo(Boss), u)
             /\ Once(Todo(Boss), u) => Once(Todo(Boss)', u)
  BY DEF u
<1>1. CASE UNCHANGED batch /\ UNCHANGED queue
  BY <1>1 DEF Todo
<1>2. ASSUME UNCHANGED batch, NEW k \in Loops, NEW t \in Tasks, t # u, Pushed(k, t)
      PROVE  /\ Has(Todo(Boss)', u) => Has(Todo(Boss), u)
             /\ Once(Todo(Boss), u) => Once(Todo(Boss)', u)
  <2>1. /\ Todo(Boss) \in Seq(Tasks)
        /\ Todo(Boss)' = IF Boss = k THEN Append(Todo(Boss), t) ELSE Todo(Boss)
    BY <1>0, <1>2, PushTodo
  <2> QED BY <1>2, <2>1, HasAppend
<1>3. ASSUME UNCHANGED queue, NEW l \in Loops, batch[l] # <<>>, TaskDone(l)
      PROVE  /\ Has(Todo(Boss)', u) => Has(Todo(Boss), u)
             /\ Once(Todo(Boss), u) => Once(Todo(Boss)', u)
  <2>1. /\ Todo(Boss) \in Seq(Tasks)
        /\ Todo(Boss)' = IF Boss = l THEN Tail(Todo(Boss)) ELSE Todo(Boss)
        /\ Boss = l => Todo(Boss) # <<>>
    BY <1>0, <1>3, DoneTodo
  <2> QED BY <2>1, HasTail
<1>4. ASSUME NEW k \in Loops, NEW t \in Tasks, t # u, Pushed(k, t),
             NEW l \in Loops, batch[l] # <<>>, TaskDone(l)
      PROVE  /\ Has(Todo(Boss)', u) => Has(Todo(Boss), u)
             /\ Once(Todo(Boss), u) => Once(Todo(Boss)', u)
  <2> DEFINE rest == IF Boss = l THEN Tail(Todo(Boss)) ELSE Todo(Boss)
  <2>1. /\ Todo(Boss) \in Seq(Tasks)
        /\ Todo(Boss)' = IF Boss = k THEN Append(rest, t) ELSE rest
        /\ Boss = l => Todo(Boss) # <<>>
    BY <1>0, <1>4, DonePushTodo
  <2>2. /\ rest \in Seq(Tasks)
        /\ Has(rest, u) => Has(Todo(Boss), u)
        /\ Once(Todo(Boss), u) => Once(rest, u)
    BY <2>1, HasTail, HeadTailProperties
  <2> HIDE DEF rest
  <2> QED BY <1>4, <2>1, <2>2, HasAppend
<1> QED BY <1>0, <1>1, <1>2, <1>3, <1>4 DEF MayTake, NoListenPush

\* ListenOK after a step, from what the step does to its variables.
LEMMA ListenTo ==
  ASSUME backlog' > 0 => listening',
         ~listening' \/ ~AcceptErrors => file'[0] = 0,
         MaxStarts <= 1 =>
            /\ starts' = 0 => ~starting' /\ ~Has(Todo(Boss)', Task("listen", 0))
            /\ starting' => ~listening' /\ ~Has(Todo(Boss)', Task("listen", 0))
            /\ Has(Todo(Boss)', Task("listen", 0)) => ~listening'
            /\ Once(Todo(Boss)', Task("listen", 0))
  PROVE  ListenOK'
<1>1. /\ Has(Todo(Boss), Task("listen", 0))' <=> Has(Todo(Boss)', Task("listen", 0))
      /\ Once(Todo(Boss), Task("listen", 0))' <=> Once(Todo(Boss)', Task("listen", 0))
  BY DEF Has, Once, Task, Todo, Boss
<1> QED BY <1>1 DEF ListenOK

\* The steps that have nothing to do with the acceptor.
LEMMA ListenFrame ==
  ASSUME CoreInv, ListenOK, MayTake, NoListenPush,
         UNCHANGED <<listening, starts, starting>>, backlog' > 0 => backlog > 0,
         file[0] = 0 /\ (~listening \/ ~AcceptErrors) => file'[0] = 0
  PROVE  ListenOK'
<1>1. /\ Has(Todo(Boss)', Task("listen", 0)) => Has(Todo(Boss), Task("listen", 0))
      /\ Once(Todo(Boss), Task("listen", 0)) => Once(Todo(Boss)', Task("listen", 0))
  BY Parts, ListenTasks
<1> QED BY <1>1, ListenTo DEF ListenOK

\* What a Write queues.
LEMMA WriteNoListen ==
  ASSUME CoreInv, NEW c \in Conns, NEW st, NEW i, Write(c, st, i)
  PROVE  NoListenPush
<1>1. UNCHANGED queue \/ Pushed(loopOf[c], Task("onWriteComplete", c))
  BY DEF Write, WriteConnected, Pushed
<1>2. /\ Task("onWriteComplete", c) \in Tasks /\ loopOf[c] \in Loops
      /\ Task("onWriteComplete", c).op # "listen"
  BY OtherTask, Parts DEF Task
<1> QED BY <1>1, <1>2 DEF NoListenPush

\* What a callback of the user queues.
LEMMA CallbackNoListen ==
  ASSUME CoreInv, NEW c \in Conns, NEW mayShut, UserCallback(c, mayShut)
  PROVE  NoListenPush
<1>1. CASE DoNothing(io)
  BY <1>1 DEF DoNothing, NoListenPush
<1>2. CASE Write(c, state[c], io)
  BY <1>2, WriteNoListen
<1>3. CASE ShutdownWrite(c)
  <2>1. Pushed(loopOf[c], Task("shutdownWrite", c))
    BY <1>3 DEF ShutdownWrite, Pushed
  <2>2. /\ Task("shutdownWrite", c) \in Tasks /\ loopOf[c] \in Loops
        /\ Task("shutdownWrite", c).op # "listen"
    BY OtherTask, Parts DEF Task
  <2> QED BY <2>1, <2>2 DEF NoListenPush
<1> QED BY <1>1, <1>2, <1>3 DEF UserCallback

\* A connection's handlers and closures do not listen.
LEMMA ConnStepListen ==
  ASSUME CoreInv, ListenOK, NEW l \in Loops, ConnStep(l)
  PROVE  ListenOK'
<1>0. UNCHANGED <<listening, starts, starting, backlog>>
  BY DEF ConnStep, serverVars, startVars
<1>1. ASSUME NEW e \in active[l], HandleEvent(l, e) PROVE ListenOK'
  <2>1. PICK c \in Conns : c = e.ch
    BY <1>1 DEF HandleEvent
  <2>2. UNCHANGED <<batch, file>>
    BY <1>1 DEF HandleEvent
  <2>3. \/ UNCHANGED queue \/ UserCallback(c, TRUE)
        \/ Pushed(Boss, Task("removeConn", c))
    BY <1>1, <2>1 DEF HandleEvent, handleRead, handleClose, DoNothing, Pushed
  <2>4. /\ Boss \in Loops /\ Task("removeConn", c) \in Tasks
        /\ Task("removeConn", c).op # "listen"
    BY Numbers, KeyTask DEF KeyOps
  <2>5. NoListenPush
    BY <2>3, <2>4, CallbackNoListen DEF NoListenPush
  <2> QED BY <1>0, <2>2, <2>5, ListenFrame DEF MayTake
<1>2. ASSUME connectEstablished(l) \/ RunWrite(l) \/ RunWriteComplete(l) \/ shutdownWrite(l)
      PROVE  ListenOK'
  <2>1. batch[l] # <<>> /\ Head(batch[l]).op # "listen" /\ TaskDone(l) /\ UNCHANGED file
    BY <1>2 DEF connectEstablished, RunWrite, RunWriteComplete, shutdownWrite, TaskIs
  <2>2. PICK c \in Conns : c = Head(batch[l]).conn
    BY <2>1, Parts, HeadTask
  <2>3. \/ UNCHANGED queue
        \/ Pushed(l, Task("shutdownWrite", c))
        \/ \E st, i : Write(c, st, i)
        \/ UserCallback(c, AnyShutdown)
    BY <1>2, <2>2 DEF connectEstablished, RunWrite, RunWriteComplete, shutdownWrite, Pushed
  <2>4. Task("shutdownWrite", c) \in Tasks /\ Task("shutdownWrite", c).op # "listen"
    BY OtherTask DEF Task
  <2>5. NoListenPush
    BY <2>3, <2>4, WriteNoListen, CallbackNoListen DEF NoListenPush
  <2> QED BY <1>0, <2>1, <2>5, ListenFrame DEF MayTake
<1>3. ASSUME connectDestroyed(l) PROVE ListenOK'
  BY <1>0, <1>3, ListenFrame DEF connectDestroyed, taskVars, MayTake, NoListenPush
<1>4. ASSUME CloseConn(l) PROVE ListenOK'
  <2>1. /\ lpc[l] = "close" /\ batch[l] # <<>> /\ Head(batch[l]).op = "connectDestroyed"
        /\ TaskDone(l) /\ UNCHANGED queue
    BY <1>4, Parts DEF CloseConn, LoopOK
  <2>2. PICK c \in Conns : /\ c = Head(batch[l]).conn
                           /\ Head(batch[l]) = Task("connectDestroyed", c)
    BY <2>1, Parts, HeadTask
  <2>3. Pending(l, "connectDestroyed", c) /\ ConnOK(c) /\ loopOf[c] \in Loops
    BY <2>1, <2>2, HeadPending, Parts
  <2>4. loopOf[c] = l
    BY <2>3, PhaseOf
  <2>5. file[fdOf[c]] = c
    BY <2>3, <2>4, PhaseOf DEF Phase
  <2>6. fdOf[c] # 0
    BY <2>5, Owns
  <2>7. file' = [file EXCEPT ![fdOf[c]] = None]
    BY <1>4, <2>2 DEF CloseConn
  <2>8. file'[0] = file[0]
    BY <2>6, <2>7, Parts, Numbers DEF OwnersType
  <2> QED BY <1>0, <2>1, <2>8, ListenFrame DEF MayTake, NoListenPush
<1> QED BY <1>1, <1>2, <1>3, <1>4 DEF ConnStep

\* The boss listens, accepts and removes connections.
LEMMA BossListen ==
  ASSUME CoreInv, ListenOK, BossStep
  PROVE  ListenOK'
<1>0. Boss \in Loops /\ 0 \in Fds
  BY Numbers
<1>1. CASE Listen
  <2>1. /\ listening' = TRUE /\ batch[Boss] # <<>> /\ TaskDone(Boss)
        /\ UNCHANGED <<queue, file, starts, starting, backlog>>
    BY <1>1 DEF Listen, startVars, TaskIs
  <2>2. Head(batch[Boss]) = Task("listen", 0) /\ Has(Todo(Boss), Task("listen", 0))
    BY <1>1, Parts, ListenIsHead DEF Listen
  <2>3. /\ Todo(Boss) \in Seq(Tasks) /\ Todo(Boss) # <<>>
        /\ Head(Todo(Boss)) = Task("listen", 0) /\ Todo(Boss)' = Tail(Todo(Boss))
    BY <1>0, <2>1, <2>2, Parts, DoneTodo
  <2>4. Once(Todo(Boss), Task("listen", 0)) =>
           /\ ~Has(Todo(Boss)', Task("listen", 0))
           /\ Once(Todo(Boss)', Task("listen", 0))
    BY <2>3, HasTail
  <2> QED BY <2>1, <2>2, <2>4, ListenTo DEF ListenOK
<1>2. CASE removeConnInLoop
  <2>1. /\ TaskIs(Boss, "removeConn") /\ TaskDone(Boss)
        /\ UNCHANGED <<file, listening, starts, starting, backlog>>
    BY <1>2 DEF removeConnInLoop, startVars
  <2>2. PICK c \in Conns : c = Head(batch[Boss]).conn
    BY <1>0, <2>1, Parts, HeadTask DEF TaskIs
  <2>3. Pushed(loopOf[c], Task("connectDestroyed", c))
    BY <1>2, <2>2 DEF removeConnInLoop, Pushed
  <2>4. /\ Task("connectDestroyed", c) \in Tasks /\ loopOf[c] \in Loops
        /\ Task("connectDestroyed", c).op # "listen"
    BY KeyTask, Parts DEF KeyOps
  <2> QED BY <1>0, <2>1, <2>3, <2>4, ListenFrame DEF MayTake, NoListenPush, TaskIs
<1>3. ASSUME NEW e \in active[Boss], Accept(e) \/ AcceptFails(e) PROVE ListenOK'
  <2>1. /\ LoopOK(Boss) /\ e.ch = 0 /\ UNCHANGED <<listening, starts, starting, batch>>
        /\ backlog' = backlog - 1
    BY <1>0, <1>3, Parts DEF Accept, AcceptFails, startVars, taskVars
  <2>2. file[0] = 0 /\ backlog > 0 /\ backlog \in Nat
    BY <2>1, ConnAssumption DEF LoopOK, CoreInv, TypeOK
  <2>3. listening
    BY <2>2 DEF ListenOK
  <2>4. CASE AcceptFails(e)
    BY <2>1, <2>2, <2>3, <2>4, ListenFrame DEF AcceptFails, taskVars, MayTake, NoListenPush
  <2>5. CASE Accept(e)
    <3>1. PICK f \in Fds : LowestFree(f) /\ newConn(f)
      BY <2>5 DEF Accept
    <3>2. f # 0 /\ file'[0] = file[0]
      BY <1>0, <2>2, <3>1, Parts, Numbers DEF LowestFree, newConn, OwnersType
    <3>3. nextConnId \in Conns
      <4>1. nextConnId \in Nat \ {0} /\ clients \in 0..MaxConns
            /\ nextConnId + backlog <= clients + 1
        BY ConnAssumption DEF CoreInv, TypeOK, FilesOK
      <4> QED BY <2>2, <4>1, ConnAssumption DEF Conns
    <3>4. /\ Pushed(NextLoop, Task("connectEstablished", nextConnId)) /\ NextLoop \in Loops
          /\ Task("connectEstablished", nextConnId) \in Tasks
          /\ Task("connectEstablished", nextConnId).op # "listen"
      BY <3>1, <3>3, NextLoopType, KeyTask DEF newConn, Pushed, KeyOps
    <3> QED BY <2>1, <2>2, <3>2, <3>4, ListenFrame DEF MayTake, NoListenPush
  <2> QED BY <1>3, <2>4, <2>5
<1> QED BY <1>1, <1>2, <1>3 DEF BossStep

\* Start, and the other steps of users and peers.
LEMMA EnvironmentListen ==
  ASSUME CoreInv, ListenOK, Environment
  PROVE  ListenOK'
<1>1. CASE Start
  <2>1. /\ UNCHANGED <<listening, backlog, file, queue, batch>> /\ ~starting
        /\ starts' = starts + 1 /\ starts < MaxStarts /\ starting' = ~listening
    BY <1>1 DEF Start, connVars, taskVars
  <2>2. Todo(Boss)' = Todo(Boss)
    BY <2>1 DEF Todo
  <2>3. /\ starts \in Nat /\ MaxStarts \in Nat /\ starts' # 0
        /\ MaxStarts <= 1 => starts = 0
    BY <2>1, ServerAssumption DEF CoreInv, TypeOK
  <2>4. MaxStarts <= 1 =>
           /\ ~Has(Todo(Boss)', Task("listen", 0))
           /\ Once(Todo(Boss)', Task("listen", 0))
    BY <2>2, <2>3 DEF ListenOK
  <2> QED BY <2>1, <2>3, <2>4, ListenTo DEF ListenOK
<1>2. CASE StartQueues
  <2>1. /\ UNCHANGED <<listening, backlog, file, batch, starts>> /\ starting /\ ~starting'
        /\ Pushed(Boss, Task("listen", 0)) /\ Boss \in Loops
        /\ Task("listen", 0) \in Tasks
    BY <1>2, Numbers DEF StartQueues, Pushed, Task, Tasks, Ops
  <2>2. Todo(Boss) \in Seq(Tasks) /\ Todo(Boss)' = Append(Todo(Boss), Task("listen", 0))
    BY <2>1, Parts, PushTodo
  <2>3. MaxStarts <= 1 =>
           /\ starts # 0 /\ ~listening
           /\ Once(Todo(Boss)', Task("listen", 0))
    BY <2>1, <2>2, HasAppend DEF ListenOK
  <2> QED BY <2>1, <2>3, ListenTo DEF ListenOK
<1>3. CASE ClientConnects
  <2>1. /\ listening /\ UNCHANGED <<listening, starts, starting, file, queue, batch>>
    BY <1>3 DEF ClientConnects, connVars, taskVars, startVars
  <2>2. Todo(Boss)' = Todo(Boss)
    BY <2>1 DEF Todo
  <2> QED BY <2>1, <2>2, ListenTo DEF ListenOK
<1>4. ASSUME NEW c \in Conns, UNCHANGED serverVars,
             \/ AsyncWrite(c)
             \/ ShutdownWriteCheck(c) \/ ShutdownWriteStore(c)
             \/ PeerSends(c) \/ PeerCloses(c)
      PROVE  ListenOK'
  <2>1. UNCHANGED <<listening, starts, starting, backlog, file, batch>>
    BY <1>4 DEF serverVars, startVars, AsyncWrite, ShutdownWriteCheck, ShutdownWriteStore,
                PeerSends, PeerCloses, taskVars
  <2>2. \/ UNCHANGED queue
        \/ Pushed(loopOf[c], Task("write", c)) \/ Pushed(loopOf[c], Task("shutdownWrite", c))
    BY <1>4 DEF AsyncWrite, ShutdownWriteCheck, ShutdownWriteStore, PeerSends, PeerCloses,
                taskVars, Pushed
  <2>3. /\ Task("write", c) \in Tasks /\ Task("write", c).op # "listen"
        /\ Task("shutdownWrite", c) \in Tasks /\ Task("shutdownWrite", c).op # "listen"
        /\ loopOf[c] \in Loops
    BY OtherTask, Parts DEF Task
  <2>4. NoListenPush
    BY <2>2, <2>3 DEF NoListenPush
  <2> QED BY <2>1, <2>4, ListenFrame DEF MayTake
<1> QED BY <1>1, <1>2, <1>3, <1>4 DEF Environment

\* Every step preserves ListenOK.
LEMMA NextListenOK == CoreInv /\ ListenOK /\ [Next]_vars => ListenOK'
<1> SUFFICES ASSUME CoreInv, ListenOK, [Next]_vars PROVE ListenOK'
  OBVIOUS
<1>1. ASSUME NEW l \in Loops, Poll(l) \/ TakePending(l) \/ TasksDone(l) PROVE ListenOK'
  <2>1. UNCHANGED <<listening, starts, starting, backlog, file>>
    BY <1>1 DEF Poll, TakePending, TasksDone, serverVars, startVars
  <2>2. Todo(Boss)' = Todo(Boss)
    <3>1. CASE UNCHANGED taskVars
      BY <3>1 DEF taskVars, Todo
    <3> QED BY <1>1, <3>1, TakePendingTodo, Numbers DEF Poll, TasksDone
  <2> QED BY <2>1, <2>2, ListenTo DEF ListenOK
<1>2. ASSUME NEW l \in Loops, LoopStep(l) PROVE ListenOK'
  BY <1>1, <1>2, ConnStepListen, BossListen DEF LoopStep
<1>3. CASE UNCHANGED vars
  BY <1>3, ListenFrame DEF vars, connVars, taskVars, serverVars, startVars, MayTake, NoListenPush
<1> QED BY <1>2, <1>3, EnvironmentListen DEF Next

-----------------------------------------------------------------------------
(* The theorems.                                                            *)

\* ServerInv holds in every state of every server, whatever the number of
\* loops, connections and calls: the phases of a connection, the pollers, the
\* descriptors and the queues of all loops fit together.
THEOREM ServerInvariant == Spec => []ServerInv
<1>1. Init => ListenOK
  <2> SUFFICES ASSUME Init PROVE ListenOK
    OBVIOUS
  <2>1. \A s \in {<<>>} : s \o <<>> = <<>> /\ DOMAIN s = {}
    OBVIOUS
  <2>2. Todo(Boss) = <<>>
    BY <2>1, Numbers DEF Init, ConnInit, Todo
  <2>3. \A t : ~Has(<<>>, t) /\ Once(<<>>, t)
    BY <2>1 DEF Has, Once
  <2>4. file[0] = 0 /\ backlog = 0 /\ ~starting
    BY Numbers DEF Init, ConnInit
  <2> QED BY <2>2, <2>3, <2>4 DEF ListenOK
<1>2. Init => ServerInv
  BY <1>1, InitCoreInv DEF ServerInv
<1>3. ServerInv /\ [Next]_vars => ServerInv'
  BY NextCoreInv, NextListenOK DEF ServerInv
<1> QED BY <1>2, <1>3, PTL DEF Spec

\* The part of it that most proofs need.
LEMMA CoreInvariant == Spec => []CoreInv
<1>1. ServerInv => CoreInv
  BY DEF ServerInv
<1> QED BY <1>1, ServerInvariant, PTL

\* Every variable of the server has its type.
THEOREM TypeCorrect == Spec => []TypeOK
<1>1. CoreInv => TypeOK
  BY DEF CoreInv
<1> QED BY <1>1, CoreInvariant, PTL

\* The process does not panic, for any number of loops, connections and calls
\* and whatever peers do, unless write(2) returns EWOULDBLOCK, after which the
\* slice expression of Write panics, or Start is called twice and accept(2)
\* fails, after which socket.listen may find its socket closed.
THEOREM AssertionsHold == Benign => (Spec => []NoPanic)
<1> SUFFICES ASSUME Benign PROVE Spec => []NoPanic
  OBVIOUS
<1>1. CoreInv => NoPanic
  BY DEF CoreInv, NoPanic
<1> QED BY <1>1, CoreInvariant, PTL

\* A number that is watched or in a channelMap is open and its channel's own,
\* although another loop may have reused it.
THEOREM RegistrationsAreOwn == Spec => []RegisteredIsOwn
<1>1. CoreInv => RegisteredIsOwn
  <2> SUFFICES ASSUME CoreInv, NEW l \in Loops, NEW f \in Fds \ {0}
               PROVE  /\ io.map[l][f] # None =>
                            file[f] = io.map[l][f] /\ loopOf[file[f]] = l /\ fdOf[file[f]] = f
                      /\ io.reg[l][f] # NoReg => io.reg[l][f].ch = io.map[l][f]
    BY DEF RegisteredIsOwn
  <2>1. NumberOK(io, l, f)
    BY Parts DEF PollerOK
  <2> QED BY <2>1 DEF NumberOK
<1> QED BY <1>1, CoreInvariant, PTL

\* As long as Write is let through, the connection's number is its own.
THEOREM WritesHaveOwnSocket == Spec => []WriteHasOwnSocket
<1>1. CoreInv => WriteHasOwnSocket
  <2> SUFFICES ASSUME CoreInv, NEW c \in Conns, state[c] \in {"Connecting", "Connected"}
               PROVE  file[fdOf[c]] = c
    BY DEF WriteHasOwnSocket
  <2>1. PhaseOK(c)
    BY Parts DEF ConnOK
  <2> QED BY <2>1 DEF PhaseOK, Phase
<1> QED BY <1>1, CoreInvariant, PTL

\* An entry of connMap has its socket, and a socket without an entry is about
\* to be closed.
THEOREM ConnMapAccounts == Spec => []ConnsAccounted
<1>1. CoreInv => ConnsAccounted
  <2> SUFFICES ASSUME CoreInv, NEW c \in Conns
               PROVE  /\ c \in connMap => file[fdOf[c]] = c
                      /\ state[c] # "none" /\ c \notin connMap =>
                            (file[fdOf[c]] = c <=> Queued("connectDestroyed", c))
    BY DEF ConnsAccounted
  <2>1. ConnOK(c) /\ loopOf[c] \in Loops /\ TasksType
    BY Parts
  <2>2. Queued("connectDestroyed", c) <=> \E l \in Loops : Pending(l, "connectDestroyed", c)
    <3>1. \A t : \A b, q \in Seq(Tasks) : Has(b \o q, t) <=> Has(b, t) \/ Has(q, t)
      BY HasConcat
    <3>2. \A l \in Loops : batch[l] \in Seq(Tasks) /\ queue[l] \in Seq(Tasks)
      BY <2>1 DEF TasksType
    <3>3. \A l \in Loops : Pending(l, "connectDestroyed", c) <=>
             Has(batch[l], Task("connectDestroyed", c)) \/ Has(queue[l], Task("connectDestroyed", c))
      BY <3>1, <3>2 DEF Pending, Todo
    <3> QED BY <3>3 DEF Queued, Has
  <2>3. Queued("connectDestroyed", c) <=> Pending(loopOf[c], "connectDestroyed", c)
    BY <2>1, <2>2, PhaseOf
  <2>4. Phase(state[c], file[fdOf[c]] = c, io.chan[c].index,
              EventRead \in io.chan[c].events, c \in connMap,
              Pending(loopOf[c], "connectEstablished", c), Pending(Boss, "removeConn", c),
              Pending(loopOf[c], "connectDestroyed", c), ClosingNow(c))
    BY <2>1, PhaseOf
  <2> QED BY <2>3, <2>4 DEF Phase
<1> QED BY <1>1, CoreInvariant, PTL

=============================================================================
