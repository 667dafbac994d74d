-------------------------- MODULE MemcachedProofs ---------------------------
(***************************************************************************)
(* Proofs about Memcached for any number of sessions, keys and slots and   *)
(* any lengths: the assertions of a session hold whatever clients send,    *)
(* and a cas identifies one version of a key.                              *)
(***************************************************************************)
EXTENDS Memcached, TLAPS

\* The types of the store's variables, and of the fields of a session.
StoreType ==
    /\ slots \in [Slots -> [Keys -> Item \cup {NoItem}]]
    /\ gcas \in Nat
    /\ ver \in [Keys -> Nat]

SessType == [state : {"NewCommand", "RecvValue", "DiscardValue"},
             busy : BOOLEAN, policy : Policies \cup {"Invalid"},
             item : Item \cup {NoItem}, bytesToDiscard : Nat]

\* What a step may do to the store: nothing; take a number of the counter
\* only; store an item with the next number; delete an item.
StoreStep ==
    \/ UNCHANGED storeVars
    \/ gcas' = gcas + 1 /\ UNCHANGED <<slots, ver>>
    \/ \E i \in Slots, k \in Keys, it \in Item :
          it.cas = gcas + 1 /\ Put(i, k, it) /\ gcas' = gcas + 1
    \/ \E k \in Keys : Put(hash[k], k, NoItem) /\ gcas' = gcas

\* NoItem is not an item, and its number is 0.
LEMMA NoItemFacts ==
  /\ NoItem \notin Item /\ NoItem.cas = 0
  /\ \A it \in Item \cup {NoItem} : it.cas \in Nat
BY MemcachedAssumption DEF NoItem, Item

\* Put changes one cell, and the version of a key only with its own cell.
LEMMA PutCell ==
  ASSUME StoreType, NEW i \in Slots, NEW k \in Keys, NEW it \in Item \cup {NoItem},
         Put(i, k, it)
  PROVE  /\ slots' \in [Slots -> [Keys -> Item \cup {NoItem}]]
         /\ ver' \in [Keys -> Nat]
         /\ \A j \in Slots, l \in Keys :
               slots'[j][l] = IF j = i /\ l = k THEN it ELSE slots[j][l]
         /\ \A l \in Keys : ver'[l] = IF l = k /\ hash[k] = i THEN ver[l] + 1 ELSE ver[l]
<1>1. slots' = [slots EXCEPT ![i][k] = it]
  BY DEF Put
<1>2. slots \in [Slots -> [Keys -> Item \cup {NoItem}]] /\ ver \in [Keys -> Nat]
  BY DEF StoreType
<1>3. slots' \in [Slots -> [Keys -> Item \cup {NoItem}]]
      /\ \A j \in Slots, l \in Keys :
            slots'[j][l] = IF j = i /\ l = k THEN it ELSE slots[j][l]
  BY <1>1, <1>2
<1>4. ver' \in [Keys -> Nat]
      /\ \A l \in Keys : ver'[l] = IF l = k /\ hash[k] = i THEN ver[l] + 1 ELSE ver[l]
  BY <1>2 DEF Put
<1> QED BY <1>3, <1>4

\* A step of the store keeps its types, and that a cas identifies a version.
LEMMA StoreStepKeeps ==
  ASSUME StoreType, StoreStep, CasInv, seen' = seen,
         seen \in [Sessions -> Seen]
  PROVE  StoreType' /\ CasInv'
<1>h. hash \in [Keys -> Slots] /\ None \notin Keys
  BY MemcachedAssumption
<1>s. \A s \in Sessions : seen[s].key \in Keys \cup {None} /\ seen[s].cas \in Nat
  BY DEF Seen
<1>c. \A j \in Slots, l \in Keys : slots[j][l].cas \in Nat
  BY NoItemFacts DEF StoreType
<1>1. CASE UNCHANGED storeVars
  BY <1>1 DEF storeVars, StoreType, CasInv, CasIdentifies
<1>2. CASE gcas' = gcas + 1 /\ UNCHANGED <<slots, ver>>
  <2>1. StoreType' /\ CasIdentifies'
    BY <1>2 DEF StoreType, CasInv, CasIdentifies
  <2>2. /\ \A i \in Slots, k \in Keys : slots[i][k].cas <= gcas + 1
        /\ \A s \in Sessions : seen[s].cas <= gcas + 1
    BY <1>s, <1>c DEF StoreType, CasInv
  <2> QED BY <1>2, <2>1, <2>2 DEF CasInv
<1>3. CASE \E i \in Slots, k \in Keys, it \in Item :
              it.cas = gcas + 1 /\ Put(i, k, it) /\ gcas' = gcas + 1
  <2> PICK i \in Slots, k \in Keys, it \in Item :
             it.cas = gcas + 1 /\ Put(i, k, it) /\ gcas' = gcas + 1
    BY <1>3
  <2>1. /\ StoreType'
        /\ \A j \in Slots, l \in Keys :
              slots'[j][l] = IF j = i /\ l = k THEN it ELSE slots[j][l]
        /\ \A l \in Keys : ver'[l] = IF l = k /\ hash[k] = i THEN ver[l] + 1 ELSE ver[l]
    BY PutCell DEF StoreType
  <2>2. /\ \A j \in Slots, l \in Keys : slots'[j][l].cas <= gcas'
        /\ \A s \in Sessions : seen'[s].cas <= gcas'
    <3>1. \A j \in Slots, l \in Keys : slots[j][l].cas <= gcas + 1
      BY <1>c DEF StoreType, CasInv
    <3>2. \A j \in Slots, l \in Keys : slots'[j][l].cas <= gcas + 1
      <4> TAKE j \in Slots, l \in Keys
      <4>1. CASE j = i /\ l = k
        BY <2>1, <4>1 DEF StoreType
      <4>2. CASE ~(j = i /\ l = k)
        BY <2>1, <3>1, <4>2
      <4> QED BY <4>1, <4>2
    <3>3. \A s \in Sessions : seen[s].cas <= gcas + 1
      BY <1>s DEF StoreType, CasInv
    <3> QED BY <3>2, <3>3
  <2>3. CasIdentifies'
    <3> SUFFICES ASSUME NEW s \in Sessions, NEW l, l = seen[s].key,
                        l # None, slots'[hash[l]][l] # NoItem,
                        slots'[hash[l]][l].cas = seen[s].cas
                 PROVE  ver'[l] = seen[s].ver
      BY DEF CasIdentifies
    <3>1. l \in Keys /\ hash[l] \in Slots
      BY <1>s, <1>h
    <3>2. ~(hash[l] = i /\ l = k)
      BY <1>s, <2>1, <3>1 DEF StoreType, CasInv
    <3>3. slots'[hash[l]][l] = slots[hash[l]][l] /\ ver'[l] = ver[l]
      BY <2>1, <3>1, <3>2
    <3> QED BY <3>1, <3>3 DEF CasInv, CasIdentifies
  <2> QED BY <2>1, <2>2, <2>3 DEF CasInv
<1>4. CASE \E k \in Keys : Put(hash[k], k, NoItem) /\ gcas' = gcas
  <2> PICK k \in Keys : Put(hash[k], k, NoItem) /\ gcas' = gcas
    BY <1>4
  <2>1. /\ StoreType'
        /\ \A j \in Slots, l \in Keys :
              slots'[j][l] = IF j = hash[k] /\ l = k THEN NoItem ELSE slots[j][l]
        /\ \A l \in Keys : ver'[l] = IF l = k THEN ver[l] + 1 ELSE ver[l]
    BY <1>h, PutCell DEF StoreType
  <2>2. /\ \A j \in Slots, l \in Keys : slots'[j][l].cas <= gcas'
        /\ \A s \in Sessions : seen'[s].cas <= gcas'
    BY <2>1, NoItemFacts DEF StoreType, CasInv
  <2>3. CasIdentifies'
    <3> SUFFICES ASSUME NEW s \in Sessions, NEW l, l = seen[s].key,
                        l # None, slots'[hash[l]][l] # NoItem,
                        slots'[hash[l]][l].cas = seen[s].cas
                 PROVE  ver'[l] = seen[s].ver
      BY DEF CasIdentifies
    <3>1. l \in Keys /\ hash[l] \in Slots
      BY <1>s, <1>h
    <3>2. l # k
      BY <2>1, <3>1
    <3>3. slots'[hash[l]][l] = slots[hash[l]][l] /\ ver'[l] = ver[l]
      BY <2>1, <3>1, <3>2
    <3> QED BY <3>1, <3>3 DEF CasInv, CasIdentifies
  <2> QED BY <2>1, <2>2, <2>3 DEF CasInv
<1> QED BY <1>1, <1>2, <1>3, <1>4 DEF StoreStep

\* Delete is a step of the store.
LEMMA DeleteStep ==
  ASSUME NEW k \in Keys, Delete(k), gcas' = gcas
  PROVE  StoreStep
BY DEF Delete, StoreStep, storeVars, Get

\* So is Store, of an item, and the policy it is given is one.
LEMMA StoreIsStep ==
  ASSUME NEW it \in Item, NEW k \in Keys, NEW p \in Policies, Store(it, k, p),
         gcas \in Nat
  PROVE  StoreStep /\ panic' \in {panic, "append"}
<1>1. CASE Stored(it, k)
  <2> DEFINE new == [it EXCEPT !.cas = gcas + 1]
  <2>1. new \in Item /\ new.cas = gcas + 1 /\ it.slot \in Slots
    BY DEF Item
  <2>2. Put(it.slot, k, new) /\ gcas' = gcas + 1 /\ panic' = panic
    BY <1>1 DEF Stored
  <2> QED BY <2>1, <2>2 DEF StoreStep
<1>2. CASE ~Stored(it, k)
  <2>1. p # "Invalid"
    BY DEF Policies
  <2>2. \/ panic' = "append" /\ gcas' = gcas + 1 /\ UNCHANGED <<slots, ver>>
        \/ Asserted(p # "Invalid") /\ UNCHANGED storeVars
    BY <1>2 DEF Store
  <2> QED BY <2>1, <2>2 DEF StoreStep, Asserted
<1> QED BY <1>1, <1>2

-----------------------------------------------------------------------------
(* The session.                                                             *)

\* What the handlers of a session leave it with, and that it is sound there.
LEMMA ResetIsClean ==
  ASSUME NEW x \in SessType
  PROVE  resetRequest(x) \in SessType /\ Clean(resetRequest(x))
         /\ resetRequest(x).state = x.state
BY DEF resetRequest, Clean, NewSession, SessType, Policies

\* A step that changes one session only keeps the others sound.
LEMMA OneSession ==
  ASSUME SessionInv, NEW s \in Sessions, NEW x \in SessType, NEW at,
         at \in {"idle", "update", "get", "gets", "delete"},
         sess' = [sess EXCEPT ![s] = x], pc' = [pc EXCEPT ![s] = at],
         at # "idle" => x.state = "NewCommand" /\ x.item = NoItem
                          /\ x.policy = "Invalid" /\ x.bytesToDiscard = 0,
         at = "idle" /\ x.state # "RecvValue" => Clean(x),
         x.state = "RecvValue" => /\ x.item # NoItem /\ x.policy # "Invalid"
                                  /\ x.bytesToDiscard = 0 /\ NeedBytes(x.item) >= 0
  PROVE  /\ \A r \in Sessions : SessionOK(r)'
         /\ sess' \in [Sessions -> SessType]
         /\ pc' \in [Sessions -> {"idle", "update", "get", "gets", "delete"}]
<1>1. sess \in [Sessions -> SessType]
      /\ pc \in [Sessions -> {"idle", "update", "get", "gets", "delete"}]
  BY DEF SessionInv, TypeOK, SessType
<1>2. /\ sess' \in [Sessions -> SessType]
      /\ pc' \in [Sessions -> {"idle", "update", "get", "gets", "delete"}]
      /\ sess'[s] = x /\ pc'[s] = at
      /\ \A r \in Sessions : r # s => sess'[r] = sess[r] /\ pc'[r] = pc[r]
  BY <1>1
<1>3. ASSUME NEW r \in Sessions PROVE SessionOK(r)'
  <2>1. CASE r = s
    BY <1>2, <2>1 DEF SessionOK
  <2>2. CASE r # s
    BY <1>2, <2>2 DEF SessionInv, SessionOK
  <2> QED BY <2>1, <2>2
<1> QED BY <1>2, <1>3

\* A step of session s that leaves it as x at place at, that moves the store
\* as it may and ends in no assertion, keeps the invariant.
LEMMA StepKeeps ==
  ASSUME MemcachedInv, NEW s \in Sessions, NEW x \in SessType, NEW at,
         at \in {"idle", "update", "get", "gets", "delete"},
         sess' = [sess EXCEPT ![s] = x], pc' = [pc EXCEPT ![s] = at],
         at # "idle" => x.state = "NewCommand" /\ x.item = NoItem
                          /\ x.policy = "Invalid" /\ x.bytesToDiscard = 0,
         at = "idle" /\ x.state # "RecvValue" => Clean(x),
         x.state = "RecvValue" => /\ x.item # NoItem /\ x.policy # "Invalid"
                                  /\ x.bytesToDiscard = 0 /\ NeedBytes(x.item) >= 0,
         StoreStep, panic' \in {panic, "tokens", "length", "append"},
         reqs' \in [Sessions -> Nat], life' = life, seen' = seen
  PROVE  MemcachedInv'
<1>1. SessionInv /\ CasInv /\ NoSessionAssert /\ StoreType
      /\ seen \in [Sessions -> Seen]
  BY DEF MemcachedInv, SessionInv, TypeOK, StoreType
<1>2. StoreType' /\ CasInv'
  BY <1>1, StoreStepKeeps
<1>3. /\ \A r \in Sessions : SessionOK(r)'
      /\ sess' \in [Sessions -> SessType]
      /\ pc' \in [Sessions -> {"idle", "update", "get", "gets", "delete"}]
  BY <1>1, OneSession
<1>4. panic' \in {"none", "tokens", "length", "append"} /\ NoSessionAssert'
  BY <1>1 DEF SessionInv, TypeOK, NoSessionAssert
<1>5. life' \in [Sessions -> {"new", "open", "gone"}] /\ seen' \in [Sessions -> Seen]
  BY <1>1 DEF SessionInv, TypeOK
<1>6. TypeOK'
  BY <1>2, <1>3, <1>4, <1>5 DEF TypeOK, StoreType, SessType
<1> QED BY <1>2, <1>3, <1>4, <1>6 DEF MemcachedInv, SessionInv

\* The same when the session has finished its request.
LEMMA FinishKeeps ==
  ASSUME MemcachedInv, NEW s \in Sessions, sess[s].state = "NewCommand", Finish(s),
         StoreStep, panic' \in {panic, "tokens", "length", "append"},
         reqs' \in [Sessions -> Nat], life' = life, seen' = seen
  PROVE  MemcachedInv'
<1>1. sess[s] \in SessType
  BY DEF MemcachedInv, SessionInv, TypeOK, SessType
<1>2. /\ resetRequest(sess[s]) \in SessType /\ Clean(resetRequest(sess[s]))
      /\ resetRequest(sess[s]).state = "NewCommand"
  BY <1>1, ResetIsClean
<1>3. sess' = [sess EXCEPT ![s] = resetRequest(sess[s])] /\ pc' = [pc EXCEPT ![s] = "idle"]
  BY DEF Finish, Goto
<1> QED BY <1>2, <1>3, StepKeeps

\* The same when the process has ended in the middle of a step, or nothing of
\* the session has changed.
LEMMA StopKeeps ==
  ASSUME MemcachedInv, NEW s \in Sessions, UNCHANGED <<life, pc, sess, reqs, seen>>,
         StoreStep, panic' \in {panic, "tokens", "length", "append"}
  PROVE  MemcachedInv'
<1>1. SessionInv /\ SessionOK(s) /\ sess[s] \in SessType
      /\ pc[s] \in {"idle", "update", "get", "gets", "delete"}
      /\ reqs' \in [Sessions -> Nat]
  BY DEF MemcachedInv, SessionInv, TypeOK, SessType
<1>2. sess' = [sess EXCEPT ![s] = sess[s]] /\ pc' = [pc EXCEPT ![s] = pc[s]]
  BY DEF MemcachedInv, SessionInv, TypeOK
<1> QED BY <1>1, <1>2, StepKeeps DEF SessionOK

\* Back to waiting for a command.
LEMMA ReceivedKeeps ==
  ASSUME MemcachedInv, NEW s \in Sessions, pc[s] = "idle", Received(s),
         StoreStep, panic' \in {panic, "tokens", "length", "append"},
         UNCHANGED <<life, pc, reqs, seen>>
  PROVE  MemcachedInv'
<1> DEFINE x == [resetRequest(sess[s]) EXCEPT !.state = "NewCommand"]
<1>1. sess[s] \in SessType /\ reqs' \in [Sessions -> Nat]
  BY DEF MemcachedInv, SessionInv, TypeOK, SessType
<1>2. resetRequest(sess[s]) \in SessType /\ Clean(resetRequest(sess[s]))
  BY <1>1, ResetIsClean
<1>3. x \in SessType /\ x.state = "NewCommand" /\ Clean(x)
  BY <1>2 DEF SessType, Clean, NewSession
<1>4. sess' = [sess EXCEPT ![s] = x] /\ pc' = [pc EXCEPT ![s] = "idle"]
  BY DEF Received, MemcachedInv, SessionInv, TypeOK
<1> HIDE DEF x
<1> QED BY <1>1, <1>3, <1>4, StepKeeps

\* One lemma per handler: processRequest starts from a clean session.
LEMMA ProcessRequestKeeps ==
  ASSUME MemcachedInv, NEW s \in Sessions, processRequest(s)
  PROVE  MemcachedInv'
<1>1. sess[s] \in SessType /\ reqs' \in [Sessions -> Nat] /\ SessionOK(s)
  BY DEF MemcachedInv, SessionInv, TypeOK, SessType, processRequest
<1>2. pc[s] = "idle" /\ sess[s].state = "NewCommand" /\ Clean(sess[s])
  BY <1>1 DEF SessionOK, processRequest, At
<1>3. panic' = panic /\ StoreStep /\ life' = life /\ seen' = seen
  BY <1>2 DEF processRequest, Asserted, StoreStep
<1>4. CASE Finish(s)
  BY <1>1, <1>2, <1>3, <1>4, FinishKeeps
<1>5. CASE \E at \in {"update", "get", "gets", "delete"} :
              Goto(s, at) /\ sess' = [sess EXCEPT ![s].busy = TRUE]
  <2> PICK at \in {"update", "get", "gets", "delete"} :
             Goto(s, at) /\ sess' = [sess EXCEPT ![s].busy = TRUE]
    BY <1>5
  <2> DEFINE x == [sess[s] EXCEPT !.busy = TRUE]
  <2>1. x \in SessType /\ x.state = "NewCommand" /\ x.item = NoItem
        /\ x.policy = "Invalid" /\ x.bytesToDiscard = 0
    BY <1>1, <1>2 DEF SessType, Clean, NewSession
  <2>2. sess' = [sess EXCEPT ![s] = x] /\ pc' = [pc EXCEPT ![s] = at]
    BY DEF Goto
  <2> HIDE DEF x
  <2> QED BY <1>1, <1>3, <2>1, <2>2, StepKeeps
<1> QED BY <1>4, <1>5 DEF processRequest

\* DoUpdate leaves a clean session in DiscardValue, or an item with room.
LEMMA DoUpdateKeeps ==
  ASSUME MemcachedInv, NEW s \in Sessions, DoUpdate(s)
  PROVE  MemcachedInv'
<1>1. sess[s] \in SessType /\ reqs' \in [Sessions -> Nat] /\ SessionOK(s)
      /\ UNCHANGED <<life, reqs, seen>> /\ gcas \in Nat
  BY DEF MemcachedInv, SessionInv, TypeOK, SessType, DoUpdate
<1>2. sess[s].state = "NewCommand" /\ sess[s].item = NoItem
      /\ sess[s].policy = "Invalid" /\ sess[s].bytesToDiscard = 0
  BY <1>1 DEF SessionOK, DoUpdate, At
<1>3. CASE panic' = "tokens" /\ UNCHANGED <<pc, sess, storeVars>>
  BY <1>1, <1>3, StopKeeps DEF StoreStep
<1>4. CASE Finish(s) /\ UNCHANGED <<storeVars, panic>>
  BY <1>1, <1>2, <1>4, FinishKeeps DEF StoreStep
<1>5. ASSUME NEW k \in Keys, Delete(k), Goto(s, "idle"),
             sess' = [sess EXCEPT ![s] = [resetRequest(@) EXCEPT !.state = "DiscardValue"]],
             UNCHANGED <<gcas, panic>>
      PROVE  MemcachedInv'
  <2> DEFINE x == [resetRequest(sess[s]) EXCEPT !.state = "DiscardValue"]
  <2>1. resetRequest(sess[s]) \in SessType /\ Clean(resetRequest(sess[s]))
    BY <1>1, ResetIsClean
  <2>2. x \in SessType /\ x.state = "DiscardValue" /\ Clean(x)
    BY <2>1 DEF SessType, Clean, NewSession
  <2>3. sess' = [sess EXCEPT ![s] = x] /\ pc' = [pc EXCEPT ![s] = "idle"]
    BY <1>5 DEF Goto
  <2>4. StoreStep
    BY <1>5, DeleteStep
  <2> HIDE DEF x
  <2> QED BY <1>1, <1>5, <2>2, <2>3, <2>4, StepKeeps
<1>6. ASSUME NEW k \in Keys, NEW b \in Lengths, NEW p \in Policies, NEW cas \in 0..gcas,
             UNCHANGED storeVars,
             IF KeyLen + b + 2 < 0
             THEN panic' = "length" /\ UNCHANGED <<pc, sess>>
             ELSE /\ Goto(s, "idle")
                  /\ sess' = [sess EXCEPT ![s].state = "RecvValue", ![s].policy = p,
                                          ![s].item = NewItem(k, b, cas)]
                  /\ UNCHANGED panic
      PROVE  MemcachedInv'
  <2>1. CASE KeyLen + b + 2 < 0
    BY <1>1, <1>6, <2>1, StopKeeps DEF StoreStep
  <2>2. CASE ~(KeyLen + b + 2 < 0)
    <3> DEFINE i == NewItem(k, b, cas)
               x == [sess[s] EXCEPT !.state = "RecvValue", !.policy = p, !.item = i]
    <3>1. b \in Int /\ KeyLen \in Nat /\ hash[k] \in Slots /\ cas \in Nat
      BY <1>1, MemcachedAssumption
    <3>2. i \in Item /\ i.valuelen = b + 2 /\ i.recvBytes = 0
      BY <3>1 DEF NewItem, Item
    <3>3. NeedBytes(i) >= 0
      BY <2>2, <3>1, <3>2 DEF NeedBytes
    <3>4. p # "Invalid" /\ i # NoItem
      BY <3>2, NoItemFacts DEF Policies
    <3>5. /\ x \in SessType /\ x.state = "RecvValue" /\ x.item = i /\ x.policy = p
          /\ x.bytesToDiscard = 0
      <4> HIDE DEF i
      <4> QED BY <1>1, <1>2, <3>2 DEF SessType
    <3>6. sess' = [sess EXCEPT ![s] = x] /\ pc' = [pc EXCEPT ![s] = "idle"]
          /\ panic' = panic
      BY <1>6, <2>2 DEF Goto, MemcachedInv, SessionInv, TypeOK
    <3>7. StoreStep
      BY <1>6 DEF StoreStep
    <3> HIDE DEF x, i
    <3> QED BY <1>1, <3>3, <3>4, <3>5, <3>6, <3>7, StepKeeps
  <2> QED BY <2>1, <2>2
<1> QED BY <1>3, <1>4, <1>5, <1>6 DEF DoUpdate

\* DoDelete finishes the request or ends the process.
LEMMA DoDeleteKeeps ==
  ASSUME MemcachedInv, NEW s \in Sessions, DoDelete(s)
  PROVE  MemcachedInv'
<1>1. sess[s].state = "NewCommand" /\ UNCHANGED <<life, reqs, seen>>
      /\ reqs' \in [Sessions -> Nat]
  BY DEF DoDelete, At, MemcachedInv, SessionInv, TypeOK
<1>2. CASE panic' = "tokens" /\ UNCHANGED <<pc, sess, storeVars>>
  BY <1>1, <1>2, StopKeeps DEF StoreStep
<1>3. CASE /\ Finish(s)
           /\ (\E k \in Keys : Delete(k)) \/ UNCHANGED <<slots, ver>>
           /\ UNCHANGED <<gcas, panic>>
  <2>1. StoreStep
    BY <1>3, DeleteStep DEF StoreStep, storeVars
  <2> QED BY <1>1, <1>3, <2>1, FinishKeeps
<1> QED BY <1>2, <1>3 DEF DoDelete

\* A gets learns the number and the version that go together now.
LEMMA GetKeyKeeps ==
  ASSUME MemcachedInv, NEW s \in Sessions, GetKey(s)
  PROVE  MemcachedInv'
<1>1. PICK k \in Keys :
        \/ seen' = seen
        \/ seen' = [seen EXCEPT ![s] = [key |-> k, cas |-> slots[hash[k]][k].cas,
                                        ver |-> ver[k]]]
  BY DEF GetKey, Get
<1>2. UNCHANGED <<life, pc, sess, reqs, storeVars, panic>>
  BY DEF GetKey
<1>3. hash[k] \in Slots /\ slots[hash[k]][k] \in Item \cup {NoItem} /\ ver[k] \in Nat
  BY MemcachedAssumption DEF MemcachedInv, SessionInv, TypeOK
<1>4. slots[hash[k]][k].cas \in Nat
  BY <1>3, NoItemFacts
<1>5. seen' \in [Sessions -> Seen]
  BY <1>1, <1>3, <1>4 DEF MemcachedInv, SessionInv, TypeOK, Seen
<1>6. TypeOK'
  BY <1>2, <1>5 DEF MemcachedInv, SessionInv, TypeOK, storeVars
<1>7. \A r \in Sessions : SessionOK(r)'
  BY <1>2 DEF MemcachedInv, SessionInv, SessionOK
<1>8. NoSessionAssert'
  BY <1>2 DEF MemcachedInv, NoSessionAssert
<1>9. CasInv'
  <2>1. seen \in [Sessions -> Seen] /\ UNCHANGED <<slots, gcas, ver>> /\ CasInv
    BY <1>2 DEF MemcachedInv, SessionInv, TypeOK, storeVars
  <2>2. CASE seen' = seen
    BY <2>1, <2>2 DEF CasInv, CasIdentifies
  <2>3. CASE seen' = [seen EXCEPT ![s] = [key |-> k, cas |-> slots[hash[k]][k].cas,
                                          ver |-> ver[k]]]
    <3>1. /\ seen'[s].key = k /\ seen'[s].cas = slots[hash[k]][k].cas
          /\ seen'[s].ver = ver[k]
          /\ \A r \in Sessions : r # s => seen'[r] = seen[r]
      BY <2>1, <2>3
    <3>2. CasIdentifies'
      BY <2>1, <3>1 DEF CasInv, CasIdentifies
    <3>3. /\ \A i \in Slots, l \in Keys : slots'[i][l].cas <= gcas'
          /\ \A r \in Sessions : seen'[r].cas <= gcas'
      BY <1>3, <2>1, <3>1 DEF CasInv
    <3> QED BY <3>2, <3>3 DEF CasInv
  <2> QED BY <1>1, <2>2, <2>3
<1> QED BY <1>6, <1>7, <1>8, <1>9 DEF MemcachedInv, SessionInv

\* The end of get and gets finishes the request.
LEMMA GetEndKeeps ==
  ASSUME MemcachedInv, NEW s \in Sessions, GetEnd(s)
  PROVE  MemcachedInv'
<1>1. SessionOK(s) /\ reqs' \in [Sessions -> Nat]
  BY DEF GetEnd, MemcachedInv, SessionInv, TypeOK
<1>2. sess[s].state = "NewCommand"
  BY <1>1 DEF SessionOK, GetEnd
<1> QED BY <1>1, <1>2, FinishKeeps DEF GetEnd, StoreStep

\* A piece fills the item by no more than it needs.
LEMMA RecvValueKeeps ==
  ASSUME MemcachedInv, NEW s \in Sessions, recvValue(s)
  PROVE  MemcachedInv'
<1> DEFINE x    == sess[s]
           need == NeedBytes(x.item)
           item(n) == Appended(x.item, IF need <= n THEN need ELSE n)
<1>1. x \in SessType /\ SessionOK(s) /\ reqs' \in [Sessions -> Nat]
      /\ UNCHANGED <<life, pc, reqs, seen>> /\ gcas \in Nat
  BY DEF recvValue, MemcachedInv, SessionInv, TypeOK, SessType
<1>2. x.state = "RecvValue" /\ pc[s] = "idle"
  BY DEF recvValue, At
<1>3. x.item \in Item /\ x.item # NoItem /\ x.policy \in Policies
      /\ x.bytesToDiscard = 0 /\ NeedBytes(x.item) >= 0
  BY <1>1, <1>2 DEF SessionOK, SessType
<1>4. KeyLen \in Nat /\ MaxPiece \in Nat
  BY MemcachedAssumption
<1>5. x.item.recvBytes \in Nat /\ x.item.valuelen \in Int
  BY <1>3 DEF Item
<1>6. need \in Nat
  BY <1>3, <1>4, <1>5 DEF NeedBytes
<1>7. ASSUME NEW n \in 1..MaxPiece
      PROVE  item(n) \in Item /\ NeedBytes(item(n)) >= 0
  <2> DEFINE m == IF need <= n THEN need ELSE n
  <2>1. m \in Nat /\ m <= need /\ n \in Nat
    BY <1>4, <1>6
  <2>2. item(n) = [x.item EXCEPT !.recvBytes = x.item.recvBytes + m]
    BY DEF Appended
  <2>3. item(n) \in Item /\ item(n).recvBytes = x.item.recvBytes + m
        /\ item(n).valuelen = x.item.valuelen
    <3> HIDE DEF m
    <3> QED BY <1>3, <1>5, <2>1, <2>2 DEF Item
  <2>4. NeedBytes(x.item) = KeyLen + x.item.valuelen - x.item.recvBytes
        /\ NeedBytes(item(n)) = KeyLen + x.item.valuelen - (x.item.recvBytes + m)
    BY <2>3 DEF NeedBytes
  <2> HIDE DEF m
  <2> QED BY <1>4, <1>5, <2>1, <2>3, <2>4
<1>8. PICK n \in 1..MaxPiece :
        \/ /\ Asserted(x.item # NoItem)
           /\ sess' = [sess EXCEPT ![s].item = item(n)]
           /\ UNCHANGED storeVars
        \/ panic' = "length" /\ UNCHANGED <<sess, storeVars>>
        \/ /\ \/ \E k \in Keys : Store(item(n), k, x.policy)
              \/ UNCHANGED <<storeVars, panic>>
           /\ Received(s)
  BY DEF recvValue
<1>9. item(n) \in Item /\ NeedBytes(item(n)) >= 0
  BY <1>7
<1> HIDE DEF item
<1>10. CASE /\ Asserted(x.item # NoItem)
            /\ sess' = [sess EXCEPT ![s].item = item(n)]
            /\ UNCHANGED storeVars
  <2> DEFINE y == [x EXCEPT !.item = item(n)]
  <2>1. /\ y \in SessType /\ y.state = "RecvValue" /\ y.item = item(n)
        /\ y.policy = x.policy /\ y.bytesToDiscard = 0
    BY <1>1, <1>2, <1>3, <1>9 DEF SessType
  <2>2. x.policy # "Invalid" /\ item(n) # NoItem
    BY <1>3, <1>9, NoItemFacts DEF Policies
  <2>3. sess' = [sess EXCEPT ![s] = y] /\ pc' = [pc EXCEPT ![s] = "idle"]
        /\ panic' = panic /\ StoreStep
    BY <1>1, <1>2, <1>3, <1>10 DEF Asserted, StoreStep, MemcachedInv, SessionInv, TypeOK
  <2> HIDE DEF y
  <2> QED BY <1>1, <1>9, <2>1, <2>2, <2>3, StepKeeps
<1>11. CASE panic' = "length" /\ UNCHANGED <<sess, storeVars>>
  BY <1>1, <1>11, StopKeeps DEF StoreStep
<1>12. CASE /\ \/ \E k \in Keys : Store(item(n), k, x.policy)
               \/ UNCHANGED <<storeVars, panic>>
            /\ Received(s)
  <2>1. StoreStep /\ panic' \in {panic, "append"}
    BY <1>1, <1>3, <1>9, <1>12, StoreIsStep DEF StoreStep
  <2> QED BY <1>1, <1>2, <1>12, <2>1, ReceivedKeeps
<1> QED BY <1>8, <1>10, <1>11, <1>12

\* bytesToDiscard is 0, so that the session leaves DiscardValue at once.
LEMMA DiscardValueKeeps ==
  ASSUME MemcachedInv, NEW s \in Sessions, discardValue(s)
  PROVE  MemcachedInv'
<1>1. SessionOK(s) /\ pc[s] = "idle" /\ sess[s].state = "DiscardValue"
      /\ MaxPiece \in Nat
  BY MemcachedAssumption DEF discardValue, At, MemcachedInv, SessionInv
<1>2. sess[s].item = NoItem /\ sess[s].bytesToDiscard = 0
  BY <1>1 DEF SessionOK, Clean, NewSession
<1>3. Received(s) /\ panic' = panic
  BY <1>1, <1>2 DEF discardValue, Asserted
<1> QED BY <1>1, <1>3, ReceivedKeeps DEF discardValue, StoreStep

\* onConn changes no session's fields.
LEMMA OnConnKeeps ==
  ASSUME MemcachedInv, NEW s \in Sessions, onConn(s)
  PROVE  MemcachedInv'
<1>1. life' \in [Sessions -> {"new", "open", "gone"}]
      /\ UNCHANGED <<pc, sess, reqs, slots, gcas, ver, panic, seen>>
  BY DEF onConn, storeVars, MemcachedInv, SessionInv, TypeOK
<1>2. TypeOK'
  BY <1>1 DEF MemcachedInv, SessionInv, TypeOK
<1> QED BY <1>1, <1>2 DEF MemcachedInv, SessionInv, SessionOK, NoSessionAssert,
                          CasInv, CasIdentifies

\* The invariant of the sessions and the store holds in every state, for any
\* number of sessions, keys and slots and whatever the clients send to
\* Session.OnMsg.
THEOREM MemcachedInvariant == Spec => []MemcachedInv
<1>1. Init => MemcachedInv
  <2> SUFFICES ASSUME Init PROVE MemcachedInv
    OBVIOUS
  <2>1. NewSession \in SessType /\ Clean(NewSession) /\ NewSession.state = "NewCommand"
    BY DEF NewSession, SessType, Clean
  <2>2. sess \in [Sessions -> SessType] /\ seen \in [Sessions -> Seen]
        /\ \A s \in Sessions : seen[s].key = None /\ seen[s].cas = 0
    BY <2>1 DEF Init, Seen
  <2>3. TypeOK
    BY <2>2 DEF Init, TypeOK, SessType
  <2>4. \A s \in Sessions : SessionOK(s)
    BY <2>1 DEF Init, SessionOK
  <2>5. CasInv
    BY <2>2, NoItemFacts DEF Init, CasInv, CasIdentifies
  <2> QED BY <2>3, <2>4, <2>5 DEF Init, MemcachedInv, SessionInv, NoSessionAssert
<1>2. MemcachedInv /\ [Next]_vars => MemcachedInv'
  <2> SUFFICES ASSUME MemcachedInv, [Next]_vars PROVE MemcachedInv'
    OBVIOUS
  <2>1. CASE UNCHANGED vars
    BY <2>1 DEF vars, storeVars, MemcachedInv, SessionInv, TypeOK, SessionOK,
                NoSessionAssert, CasInv, CasIdentifies
  <2>2. ASSUME NEW s \in Sessions, onConn(s) \/ OnMsg(s) PROVE MemcachedInv'
    BY <2>2, OnConnKeeps, ProcessRequestKeeps, DoUpdateKeeps, GetKeyKeeps, GetEndKeeps,
       DoDeleteKeeps, RecvValueKeeps, DiscardValueKeeps DEF OnMsg
  <2> QED BY <2>1, <2>2 DEF Next
<1> QED BY <1>1, <1>2, PTL DEF Spec

\* No assertion of Session or of Store's policy fails.
THEOREM SessionAssertsHold == Spec => []NoSessionAssert
<1>1. MemcachedInv => NoSessionAssert
  BY DEF MemcachedInv
<1> QED BY <1>1, MemcachedInvariant, PTL

\* A cas that gets has returned is never found again on another version of
\* its key, so that the cas command overwrites only what its client has seen.
THEOREM CasIdentifiesVersion == Spec => []CasIdentifies
<1>1. MemcachedInv => CasIdentifies
  BY DEF MemcachedInv, CasInv
<1> QED BY <1>1, MemcachedInvariant, PTL

=============================================================================
