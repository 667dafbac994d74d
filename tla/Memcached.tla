----------------------------- MODULE Memcached -------------------------------
(***************************************************************************)
(* The memcached example: the sessions of session.go on the store of       *)
(* memcached_server.go and item.go.  Sessions belong to connections on     *)
(* different loops and meet in the slots, each under its mutex, and in the *)
(* counter _g_cas.                                                         *)
(*                                                                         *)
(* What a client sends is arbitrary: which command a line holds, how many  *)
(* bytes come in a piece, what the bytes of a value are.  An iteration of  *)
(* the loop in OnMsg is one or more steps, so that other sessions reach    *)
(* the store in between.  Replies and expiry times are left out.           *)
(***************************************************************************)
EXTENDS Integers

CONSTANTS
    Sessions,  \* one member per connection
    Keys,      \* keys, all of KeyLen bytes
    KeyLen,
    Slots,     \* the slots of the store
    hash,      \* the slot of each key
    Lengths,   \* lengths of values that clients announce
    MaxValue,  \* the 1024*1024 of DoUpdate
    MaxPiece,  \* bound: bytes that arrive at a time
    MaxReqs,   \* bound: requests of a session
    None       \* nil, or no key

ASSUME MemcachedAssumption ==
    /\ KeyLen \in Nat \ {0}
    /\ hash \in [Keys -> Slots]
    /\ Lengths \subseteq Int
    /\ MaxValue \in Nat /\ MaxPiece \in Nat /\ MaxReqs \in Nat
    /\ None \notin Keys \cup Slots

VARIABLES
    life,   \* per session: its connection is new, open or gone
    pc,     \* per session, where OnMsg is
    sess,   \* per session, its fields
    reqs,   \* per session, reqProcessed
    slots,  \* per slot and key, the item or NoItem
    gcas,   \* _g_cas
    panic,  \* what has ended the process, if anything
    ver,    \* per key, how often the item that Get finds has changed
    seen    \* per session, what its last gets has returned

storeVars == <<slots, gcas, ver>>
vars == <<life, pc, sess, reqs, storeVars, panic, seen>>

NoItem   == [slot |-> None, valuelen |-> 0, recvBytes |-> 0, cas |-> 0]
Item     == [slot : Slots, valuelen : Int, recvBytes : Nat, cas : Nat]
Policies == {"Set", "Add", "Replace", "Append", "Prepend", "Cas"}
Seen     == [key : Keys \cup {None}, cas : Nat, ver : Nat]

TypeOK ==
    /\ life \in [Sessions -> {"new", "open", "gone"}]
    /\ pc \in [Sessions -> {"idle", "update", "get", "gets", "delete"}]
    /\ sess \in [Sessions ->
                   [state : {"NewCommand", "RecvValue", "DiscardValue"},
                    busy : BOOLEAN, policy : Policies \cup {"Invalid"},
                    item : Item \cup {NoItem}, bytesToDiscard : Nat]]
    /\ reqs \in [Sessions -> Nat]
    /\ slots \in [Slots -> [Keys -> Item \cup {NoItem}]]
    /\ gcas \in Nat
    /\ panic \in {"none", "assert", "tokens", "length", "append"}
    /\ ver \in [Keys -> Nat]
    /\ seen \in [Sessions -> Seen]

\* NewSession; busy stands for command and noreply not being empty and false.
NewSession ==
    [state |-> "NewCommand", busy |-> FALSE, policy |-> "Invalid", item |-> NoItem,
     bytesToDiscard |-> 0]

\* NewMemcached.
Init ==
    /\ life = [s \in Sessions |-> "new"]
    /\ pc = [s \in Sessions |-> "idle"]
    /\ sess = [s \in Sessions |-> NewSession]
    /\ reqs = [s \in Sessions |-> 0]
    /\ slots = [i \in Slots |-> [k \in Keys |-> NoItem]]
    /\ gcas = 0
    /\ panic = "none"
    /\ ver = [k \in Keys |-> 0]
    /\ seen = [s \in Sessions |-> [key |-> None, cas |-> 0, ver |-> 0]]

\* onConn.
onConn(s) ==
    /\ panic = "none" /\ pc[s] = "idle"
    /\ \/ life[s] = "new" /\ life' = [life EXCEPT ![s] = "open"]
       \/ life[s] = "open" /\ life' = [life EXCEPT ![s] = "gone"]
    /\ UNCHANGED <<pc, sess, reqs, storeVars, panic, seen>>

\* util.Assert.
Asserted(cond) == panic' = IF cond THEN panic ELSE "assert"

-----------------------------------------------------------------------------
(* Item and store.                                                          *)

\* The key is not copied into data, yet its length counts.
NewItem(k, b, cas) ==
    [slot |-> hash[k], valuelen |-> b + 2, recvBytes |-> 0, cas |-> cas]

NeedBytes(it) == KeyLen + it.valuelen - it.recvBytes

\* Item.Append of n bytes.
Appended(it, n) == [it EXCEPT !.recvBytes = @ + n]

\* EndWithCRLF finds two bytes, and Key as many as the key has.
HasEnd(it) == it.recvBytes >= 2
HasKey(it) == it.valuelen >= 0

\* Get, under the mutex of the key's slot.
Get(k) == slots[hash[k]][k]

\* Cell k of slot i becomes it; ver follows what Get(k) finds.
Put(i, k, it) ==
    /\ slots' = [slots EXCEPT ![i][k] = it]
    /\ ver' = IF hash[k] = i THEN [ver EXCEPT ![k] = @ + 1] ELSE ver

\* Mutation: an item that replaces another keeps its cas.
Stored_KeepsCas(it, k) ==
    LET n == IF slots[it.slot][k] = NoItem THEN gcas + 1 ELSE it.cas IN
    Put(it.slot, k, [it EXCEPT !.cas = n]) /\ gcas' = gcas + 1 /\ UNCHANGED panic

\* The item gets the next cas and takes its place.
Stored(it, k) ==
    Put(it.slot, k, [it EXCEPT !.cas = gcas + 1]) /\ gcas' = gcas + 1 /\ UNCHANGED panic

\* Store, under the mutex of the slot that was computed from the command's
\* key; k are the first bytes received, which Key() returns.  The item that
\* Append and Prepend build lacks KeyLen bytes, so that an assertion fails.
Store(it, k, policy) ==
    LET old   == slots[it.slot][k]
        exist == old # NoItem
        stores == \/ policy = "Set"
                  \/ policy = "Add" /\ ~exist
                  \/ policy = "Replace" /\ exist
                  \/ policy = "Cas" /\ exist /\ old.cas = it.cas
    IN  \/ stores /\ Stored(it, k)
        \/ /\ policy \in {"Append", "Prepend"} /\ exist
           /\ panic' = "append" /\ gcas' = gcas + 1
           /\ UNCHANGED <<slots, ver>>
        \/ /\ ~stores /\ ~(policy \in {"Append", "Prepend"} /\ exist)
           /\ Asserted(policy # "Invalid")
           /\ UNCHANGED storeVars

\* Delete, under the mutex of the key's slot.
Delete(k) ==
    IF Get(k) # NoItem THEN Put(hash[k], k, NoItem)
    ELSE UNCHANGED <<slots, ver>>

-----------------------------------------------------------------------------
(* The session.                                                             *)

\* OnMsg of session s is at pc[s] and in this state of the session.
At(s, at, state) ==
    /\ panic = "none" /\ life[s] = "open"
    /\ pc[s] = at /\ sess[s].state = state

Goto(s, at) == pc' = [pc EXCEPT ![s] = at]

\* Mutation: resetRequest forgets the policy.
resetRequest_KeepsPolicy(x) == [NewSession EXCEPT !.state = x.state, !.policy = x.policy]

resetRequest(x) == [NewSession EXCEPT !.state = x.state]

\* The request is over.
Finish(s) == Goto(s, "idle") /\ sess' = [sess EXCEPT ![s] = resetRequest(@)]

\* What processRequest asserts of the session before it starts.
Clean(x) == x = [NewSession EXCEPT !.state = x.state]

\* processRequest, for a line with a command; a command that is none of the
\* store's (version, quit, shutdown, unknown, blank) is over at once.
processRequest(s) ==
    /\ At(s, "idle", "NewCommand") /\ reqs[s] < MaxReqs
    /\ reqs' = [reqs EXCEPT ![s] = @ + 1]
    /\ Asserted(Clean(sess[s]))
    /\ \/ \E at \in {"update", "get", "gets", "delete"} :
             Goto(s, at) /\ sess' = [sess EXCEPT ![s].busy = TRUE]
       \/ Finish(s)
    /\ UNCHANGED <<life, storeVars, seen>>

\* DoUpdate: the line lacks tokens, or is not well formed, or announces a
\* value that is too large or one to wait for.  bytesToDiscard is set and, as
\* DoUpdate returns true, reset at once.
DoUpdate(s) ==
    /\ At(s, "update", "NewCommand")
    /\ \/ /\ panic' = "tokens"
          /\ UNCHANGED <<pc, sess, storeVars>>
       \/ Finish(s) /\ UNCHANGED <<storeVars, panic>>
       \/ \E k \in Keys, b \in Lengths :
             /\ b > MaxValue
             /\ Delete(k)
             /\ Goto(s, "idle")
             /\ sess' = [sess EXCEPT ![s] =
                           [resetRequest(@) EXCEPT !.state = "DiscardValue"]]
             /\ UNCHANGED <<gcas, panic>>
       \/ \E k \in Keys, b \in Lengths, p \in Policies, cas \in 0..gcas :
             /\ b <= MaxValue /\ (p # "Cas" => cas = 0)
             /\ UNCHANGED storeVars
             /\ IF KeyLen + b + 2 < 0
                THEN panic' = "length" /\ UNCHANGED <<pc, sess>>
                ELSE /\ Goto(s, "idle")
                     /\ sess' = [sess EXCEPT ![s].state = "RecvValue", ![s].policy = p,
                                             ![s].item = NewItem(k, b, cas)]
                     /\ UNCHANGED panic
    /\ UNCHANGED <<life, reqs, seen>>

\* An iteration of get or gets: a key that is well formed, under the mutex.
GetKey(s) ==
    /\ panic = "none" /\ life[s] = "open" /\ pc[s] \in {"get", "gets"}
    /\ \E k \in Keys :
          LET it == Get(k) IN
          seen' = IF pc[s] = "gets" /\ it # NoItem
                  THEN [seen EXCEPT ![s] = [key |-> k, cas |-> it.cas, ver |-> ver[k]]]
                  ELSE seen
    /\ UNCHANGED <<life, pc, sess, reqs, storeVars, panic>>

\* The line of get or gets is over, or has a key that is too long.
GetEnd(s) ==
    /\ panic = "none" /\ life[s] = "open" /\ pc[s] \in {"get", "gets"}
    /\ Finish(s)
    /\ UNCHANGED <<life, reqs, storeVars, panic, seen>>

\* DoDelete: without a token after the key the index is out of range, else
\* the key is deleted, if it is not too long.
DoDelete(s) ==
    /\ At(s, "delete", "NewCommand")
    /\ \/ /\ panic' = "tokens"
          /\ UNCHANGED <<pc, sess, storeVars>>
       \/ /\ Finish(s)
          /\ (\E k \in Keys : Delete(k)) \/ UNCHANGED <<slots, ver>>
          /\ UNCHANGED <<gcas, panic>>
    /\ UNCHANGED <<life, reqs, seen>>

\* Mutation: the session still waits for a value.
Received_KeepsState(s) == sess' = [sess EXCEPT ![s] = resetRequest(@)]

\* The session waits for a command again.
Received(s) == sess' = [sess EXCEPT ![s] = [resetRequest(@) EXCEPT !.state = "NewCommand"]]

\* recvValue of a piece of n bytes.  Once the item is complete its last two
\* bytes are read, which panics when there are not two; they are a CRLF or
\* not; and its first bytes are read as its key k, which panics when there are
\* fewer than KeyLen.
recvValue(s) ==
    /\ At(s, "idle", "RecvValue")
    /\ \E n \in 1..MaxPiece :
          LET x    == sess[s]
              need == NeedBytes(x.item)
              item == Appended(x.item, IF need <= n THEN need ELSE n)
          IN  \/ /\ NeedBytes(item) # 0
                 /\ Asserted(x.item # NoItem)
                 /\ sess' = [sess EXCEPT ![s].item = item]
                 /\ UNCHANGED storeVars
              \/ /\ NeedBytes(item) = 0
                 /\ ~HasEnd(item) \/ ~HasKey(item)
                 /\ panic' = "length"
                 /\ UNCHANGED <<sess, storeVars>>
              \/ /\ NeedBytes(item) = 0 /\ HasEnd(item)
                 /\ \/ HasKey(item) /\ \E k \in Keys : Store(item, k, x.policy)
                    \/ UNCHANGED <<storeVars, panic>>
                 /\ Received(s)
    /\ UNCHANGED <<life, pc, reqs, seen>>

\* discardValue of a piece of n bytes.
discardValue(s) ==
    /\ At(s, "idle", "DiscardValue")
    /\ Asserted(sess[s].item = NoItem)
    /\ \E n \in 1..MaxPiece :
          IF n < sess[s].bytesToDiscard
          THEN sess' = [sess EXCEPT ![s].bytesToDiscard = @ - n]
          ELSE Received(s)
    /\ UNCHANGED <<life, pc, reqs, storeVars, seen>>

OnMsg(s) ==
    \/ processRequest(s) \/ DoUpdate(s) \/ GetKey(s) \/ GetEnd(s) \/ DoDelete(s)
    \/ recvValue(s) \/ discardValue(s)

Next == \E s \in Sessions : onConn(s) \/ OnMsg(s)

Spec == Init /\ [][Next]_vars

-----------------------------------------------------------------------------
(* Properties.                                                              *)

\* The assertions of processRequest, recvValue, discardValue and of Store's
\* policy hold for whatever clients send: nothing of a request is left when
\* the next one starts, and no value is received without an item.  What can
\* end the process are missing tokens, negative lengths and Append or Prepend
\* to an item that exists.
NoSessionAssert == panic # "assert"

\* What holds of a session between two steps, whatever its client sends:
\* outside a request nothing of one is left, also in DiscardValue; a value is
\* received into an item that does not get more bytes than it has room for,
\* with a policy; and the request that fills an item is not processed at the
\* same time as another one.
SessionOK(s) ==
    LET x == sess[s] IN
    /\ pc[s] # "idle" => x.state = "NewCommand" /\ x.item = NoItem
                            /\ x.policy = "Invalid" /\ x.bytesToDiscard = 0
    /\ pc[s] = "idle" /\ x.state # "RecvValue" => Clean(x)
    /\ x.state = "RecvValue" => /\ x.item # NoItem /\ x.policy # "Invalid"
                                /\ x.bytesToDiscard = 0 /\ NeedBytes(x.item) >= 0

SessionInv == TypeOK /\ \A s \in Sessions : SessionOK(s)

\* A cas identifies a version: when the item that a gets returned is still
\* there with that cas, the key was not stored or deleted since, by any
\* session, so that a cas command never overwrites what its client has not
\* seen.
CasIdentifies ==
    \A s \in Sessions :
        LET k == seen[s].key IN
        k # None /\ slots[hash[k]][k] # NoItem /\ slots[hash[k]][k].cas = seen[s].cas
            => ver[k] = seen[s].ver

\* The reason: no cas is ahead of the counter the next one comes from.
CasInv ==
    /\ \A i \in Slots, k \in Keys : slots[i][k].cas <= gcas
    /\ \A s \in Sessions : seen[s].cas <= gcas
    /\ CasIdentifies

\* The inductive invariant.
MemcachedInv == SessionInv /\ NoSessionAssert /\ CasInv

=============================================================================
