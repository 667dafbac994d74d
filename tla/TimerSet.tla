------------------------------ MODULE TimerSet ------------------------------
(***************************************************************************)
(* What timerQueue needs of its heap, as TimerQueue models it: a set of    *)
(* timers that tells whether a new one is earlier than all others, from    *)
(* which the due ones are taken in the order of their instants, and from   *)
(* which any one but the top, an earliest one, can be taken out.           *)
(***************************************************************************)
EXTENDS Integers, Sequences

CONSTANTS Timers, MaxTime

VARIABLES
    tasks,    \* the timers in the set
    expire,   \* their instants
    changed,  \* result of the last insert
    popped    \* instant and result of the last getExpired

vars == <<tasks, expire, changed, popped>>

NonePopped == [at |-> 0, timers |-> <<>>]

Init ==
    /\ tasks = {}
    /\ expire = [t \in Timers |-> 0]
    /\ changed = FALSE
    /\ popped = NonePopped

Insert(t, e) ==
    /\ t \notin tasks
    /\ tasks' = tasks \cup {t}
    /\ expire' = [expire EXCEPT ![t] = e]
    /\ changed' = \A u \in tasks : e < expire[u]
    /\ popped' = NonePopped

Remove(t) ==
    /\ t \in tasks
    /\ \E u \in tasks \ {t} : expire[u] <= expire[t]
    /\ tasks' = tasks \ {t}
    /\ changed' = FALSE
    /\ popped' = NonePopped
    /\ UNCHANGED expire

\* Nothing is removed: the timer is on top, or not in the set.
RemoveNothing ==
    /\ changed' = FALSE
    /\ popped' = NonePopped
    /\ UNCHANGED <<tasks, expire>>

getExpired(now) ==
    LET ts == popped'.timers IN
    /\ popped'.at = now
    /\ tasks' = {t \in tasks : expire[t] > now}
    /\ {ts[i] : i \in DOMAIN ts} = tasks \ tasks'
    /\ \A i, j \in DOMAIN ts : i < j => ts[i] # ts[j] /\ expire[ts[i]] <= expire[ts[j]]
    /\ changed' = FALSE
    /\ UNCHANGED expire

Next ==
    \/ \E t \in Timers : Remove(t) \/ \E e \in 0..MaxTime : Insert(t, e)
    \/ RemoveNothing
    \/ \E now \in 0..MaxTime : getExpired(now)

Spec == Init /\ [][Next]_vars

=============================================================================
