------------------------------- MODULE Poller -------------------------------
(***************************************************************************)
(* The bookkeeping of poller.go and channel.go: which channel is           *)
(* registered with which epoll instance, for which events, and what        *)
(* channelMap and channel.index say about it.  These are operators on the  *)
(* record io of all pollers and channels, which the modules that use       *)
(* channels keep as a variable; io.ok turns FALSE when a util.Assert fails.*)
(***************************************************************************)
CONSTANTS
    Loops,    \* the event loops, each with its poller
    Fds,      \* descriptor numbers
    Channels, \* the channels
    None      \* no channel

EventRead  == "IN"
EventWrite == "OUT"

\* A descriptor that an epoll instance does not watch.
NoReg == [ch |-> None, events |-> {}]

\* NewChannel and newPoller.
NewIo ==
    [map  |-> [l \in Loops |-> [f \in Fds |-> None]],
     reg  |-> [l \in Loops |-> [f \in Fds |-> NoReg]],
     chan |-> [ch \in Channels |-> [events |-> {}, index |-> "new"]],
     ok   |-> TRUE]

IoType ==
    [map  : [Loops -> [Fds -> Channels \cup {None}]],
     reg  : [Loops -> [Fds -> [ch : Channels \cup {None},
                               events : SUBSET {EventRead, EventWrite}]]],
     chan : [Channels -> [events : SUBSET {EventRead, EventWrite},
                          index  : {"new", "add", "del"}]],
     ok   : BOOLEAN]

Assert(io, cond) == [io EXCEPT !.ok = @ /\ cond]

\* Poller.update: epoll_ctl.  ADD fails on a watched descriptor, MOD and DEL
\* on one that is not; the failure is logged and nothing else happens.
update(io, op, l, f, ch) ==
    LET watched == io.reg[l][f] # NoReg
        entry   == [ch |-> ch, events |-> io.chan[ch].events]
    IN  IF watched = (op = "ADD") THEN io
        ELSE [io EXCEPT !.reg[l][f] = IF op = "DEL" THEN NoReg ELSE entry]

\* Poller.updateChannel, after Channel.events has been set.
updateChannel(io, l, f, ch) ==
    LET idx == io.chan[ch].index IN
    CASE idx = "new" ->
           update([Assert(io, io.map[l][f] = None) EXCEPT
                     !.map[l][f] = ch, !.chan[ch].index = "add"], "ADD", l, f, ch)
      [] idx = "del" ->
           update([Assert(io, io.map[l][f] = ch) EXCEPT
                     !.chan[ch].index = "add"], "ADD", l, f, ch)
      [] idx = "add" /\ io.chan[ch].events = {} ->
           [update(Assert(io, io.map[l][f] = ch), "DEL", l, f, ch) EXCEPT
              !.chan[ch].index = "del"]
      [] OTHER ->
           update(Assert(io, io.map[l][f] = ch), "MOD", l, f, ch)

\* Mutation: the channel stays in channelMap.
removeChannel_KeepsMap(io, l, f, ch) ==
    LET asserted == Assert(io, /\ io.map[l][f] = ch
                               /\ io.chan[ch].index \in {"add", "del"})
        deleted  == IF io.chan[ch].index = "add"
                    THEN update(asserted, "DEL", l, f, ch) ELSE asserted
    IN  [deleted EXCEPT !.chan[ch].index = "new"]

\* Poller.removeChannel.
removeChannel(io, l, f, ch) ==
    LET asserted == Assert(io, /\ io.map[l][f] = ch
                               /\ io.chan[ch].index \in {"add", "del"})
        unmapped == [asserted EXCEPT !.map[l][f] = None]
        deleted  == IF io.chan[ch].index = "add"
                    THEN update(unmapped, "DEL", l, f, ch) ELSE unmapped
    IN  [deleted EXCEPT !.chan[ch].index = "new"]

\* Channel.enableReading, enableWriting, disableAll.
setEvents(io, l, f, ch, events) ==
    updateChannel([io EXCEPT !.chan[ch].events = events], l, f, ch)
enableReading(io, l, f, ch) ==
    setEvents(io, l, f, ch, io.chan[ch].events \cup {EventRead})
enableWriting(io, l, f, ch) ==
    setEvents(io, l, f, ch, io.chan[ch].events \cup {EventWrite})
disableAll(io, l, f, ch) == setEvents(io, l, f, ch, {})

isWriting(io, ch) == EventWrite \in io.chan[ch].events

\* The kernel at close(f): no epoll instance watches f any more.
closed(io, f) ==
    [io EXCEPT !.reg = [l \in Loops |-> [io.reg[l] EXCEPT ![f] = NoReg]]]

=============================================================================
