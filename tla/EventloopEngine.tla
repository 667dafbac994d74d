--------------------------- MODULE EventloopEngine ---------------------------
(***************************************************************************)
(* eventloop_engine.go: StartLoop starts a goroutine that makes an event   *)
(* loop and runs it, and waits on a condition variable for the loop to be  *)
(* published.  TcpClient continues from here: its loop is this one.        *)
(***************************************************************************)
VARIABLES
    spc,  \* where the caller of StartLoop is
    rpc,  \* where the goroutine of run is
    mu,   \* who holds eng.mu
    el    \* eng.el is set

engineVars == <<spc, rpc, mu, el>>

EngineTypeOK ==
    /\ spc \in {"go", "lock", "check", "wait", "waiting", "unlock", "returned"}
    /\ rpc \in {"none", "lock", "publish", "broadcast", "loop"}
    /\ mu \in {"free", "caller", "run"}
    /\ el \in BOOLEAN

\* NewEventloopEngine.
EngineInit == spc = "go" /\ rpc = "none" /\ mu = "free" /\ el = FALSE

GoRun ==
    /\ spc = "go" /\ spc' = "lock"
    /\ rpc' = "lock"
    /\ UNCHANGED <<mu, el>>

\* eng.mu.Lock(), for the first time or when Wait returns.
CallerLocks ==
    /\ spc = "lock" /\ spc' = "check"
    /\ mu = "free" /\ mu' = "caller"
    /\ UNCHANGED <<rpc, el>>

CheckLoop ==
    /\ spc = "check" /\ spc' = IF el THEN "unlock" ELSE "wait"
    /\ UNCHANGED <<rpc, mu, el>>

\* cond.Wait releases the mutex and goes to sleep in one step.
Wait ==
    /\ spc = "wait" /\ spc' = "waiting"
    /\ mu' = "free"
    /\ UNCHANGED <<rpc, el>>

CallerUnlocks ==
    /\ spc = "unlock" /\ spc' = "returned"
    /\ mu' = "free"
    /\ UNCHANGED <<rpc, el>>

\* Mutation: eng.el is set without the mutex.
RunLocks_Not ==
    /\ rpc = "lock" /\ rpc' = "publish"
    /\ UNCHANGED <<spc, mu, el>>

RunLocks ==
    /\ rpc = "lock" /\ rpc' = "publish"
    /\ mu = "free" /\ mu' = "run"
    /\ UNCHANGED <<spc, el>>

Publish ==
    /\ rpc = "publish" /\ rpc' = "broadcast"
    /\ el' = TRUE
    /\ UNCHANGED <<spc, mu>>

\* Broadcast wakes a caller that sleeps; then Unlock, and Loop() is entered.
Broadcast ==
    /\ rpc = "broadcast" /\ rpc' = "loop"
    /\ spc' = IF spc = "waiting" THEN "lock" ELSE spc
    /\ mu' = "free"
    /\ UNCHANGED el

StartLoop == GoRun \/ CallerLocks \/ CheckLoop \/ Wait \/ CallerUnlocks
run == RunLocks \/ Publish \/ Broadcast

\* StartLoop returns: a loop that is published before, while or after the
\* caller looks at eng.el is always seen, whichever comes first.
StartLoopReturns == <>(spc = "returned" /\ el)

=============================================================================
