------------------------------ MODULE TaskLog ------------------------------
(***************************************************************************)
(* What AsyncExecute promises, free of lists, locks and wakeups: there is  *)
(* one global order of the accepted tasks (log), and the loop calls them   *)
(* one after another in that order, each once (n of them so far).          *)
(***************************************************************************)
EXTENDS Naturals, Sequences

CONSTANT Tasks

VARIABLES
    log,  \* every accepted task, in order of acceptance
    n     \* how many of them have been called

Init == log = <<>> /\ n = 0

\* AsyncExecute takes effect.
Accept(t) ==
    /\ \A i \in 1..Len(log) : log[i] # t
    /\ log' = Append(log, t)
    /\ UNCHANGED n

\* The loop calls the oldest accepted task it has not called.
Run ==
    /\ n < Len(log)
    /\ n' = n + 1
    /\ UNCHANGED log

Next == (\E t \in Tasks : Accept(t)) \/ Run

Spec == Init /\ [][Next]_<<log, n>>

=============================================================================
