-------------------------- MODULE CommandLifecycle --------------------------
(***************************************************************************)
(* What the command queue of a session promises, without its passes, locks *)
(* and goroutines: a command is wanted, run and over, over and over again; *)
(* a caller that waits gets one answer, the outcome of the run it asked    *)
(* for.  RuntimeQueueLifecycle shows that RuntimeQueue implements it.      *)
(***************************************************************************)

CONSTANTS
    Commands,   \* the commands of the scroll
    Needs,      \* the commands each of them depends on
    Once,       \* commands that run once unless somebody forces them
    Restarting, \* commands that are wanted again after every run
    Persistent, \* commands that go on after their goroutine has ended
    Callers,    \* the calls clients make
    None        \* no call

VARIABLES
    phase,      \* "none", "wanted", "running", "done" or "failed"
    holder,     \* the call that waits for the last wish for a command
    forced,     \* the calls that forced a command
    finished,   \* commands that were done at some time
    own,        \* the outcome of the run a call asked for
    told        \* what the call was told

vars == <<phase, holder, forced, finished, own, told>>

Init ==
    /\ finished \in SUBSET Once
    /\ phase = [c \in Commands |-> IF c \in finished THEN "done" ELSE "none"]
    /\ holder = [c \in Commands |-> None]
    /\ forced = {}
    /\ own = [r \in Callers |-> "none"]
    /\ told = [r \in Callers |-> "none"]

\* A command is wanted when it is neither wanted nor running, by a need, by a
\* call or by a call that waits; one that runs once and is done is only
\* wanted again by a call that forces it.
Want(c) ==
    /\ phase[c] \in {"none", "done", "failed"}
    /\ phase' = [phase EXCEPT ![c] = "wanted"]
    /\ \E wait, force \in Callers \cup {None} :
          /\ wait # None => own[wait] = "none" /\ force \in {wait, None}
          /\ c \in Once /\ phase[c] = "done" => force # None
          /\ force \notin forced
          /\ holder' = [holder EXCEPT ![c] = wait]
          /\ own' = [r \in Callers |-> IF r = wait THEN "pending" ELSE own[r]]
          /\ forced' = forced \cup ({force} \ {None})
    /\ UNCHANGED <<finished, told>>

\* It runs after each of its needs was done at some time, once at a time.
Run(c) ==
    /\ phase[c] = "wanted"
    /\ Needs[c] \subseteq finished
    /\ phase' = [phase EXCEPT ![c] = "running"]
    /\ UNCHANGED <<holder, forced, finished, own, told>>

\* The call that asked for this run, and no other, has its outcome.
Settle(c, outcome) ==
    own' = [r \in Callers |-> IF r = holder[c] /\ own[r] = "pending" THEN outcome ELSE own[r]]

Succeed(c) ==
    /\ phase[c] = "running"
    /\ c \notin Persistent \cup Restarting
    /\ phase' = [phase EXCEPT ![c] = "done"]
    /\ finished' = finished \cup {c}
    /\ Settle(c, "ok")
    /\ UNCHANGED <<holder, forced, told>>

Fail(c) ==
    /\ phase[c] = "running"
    /\ phase' = [phase EXCEPT ![c] = "failed"]
    /\ Settle(c, "failed")
    /\ UNCHANGED <<holder, forced, finished, told>>

\* A command that restarts is wanted again, whether it failed or not.
RunAgain(c, outcome) ==
    /\ phase[c] = "running"
    /\ c \in Restarting
    /\ phase' = [phase EXCEPT ![c] = "wanted"]
    /\ Settle(c, outcome)
    /\ UNCHANGED <<holder, forced, finished, told>>

\* A persistent command stays running; its caller is answered.
Detach(c) ==
    /\ phase[c] = "running"
    /\ c \in Persistent
    /\ Settle(c, "ok")
    /\ UNCHANGED <<phase, holder, forced, finished, told>>

\* A call is told the outcome of its own run, unless the command has been
\* wanted again by somebody else since.
Tell(r, outcome) ==
    /\ own[r] \in {"ok", "failed"}
    /\ told[r] = "none"
    /\ outcome = own[r] \/ \A c \in Commands : holder[c] # r
    /\ told' = [told EXCEPT ![r] = outcome]
    /\ UNCHANGED <<phase, holder, forced, finished, own>>

Next ==
    \/ \E c \in Commands :
          \/ Want(c) \/ Run(c) \/ Succeed(c) \/ Fail(c) \/ Detach(c)
          \/ \E outcome \in {"ok", "failed"} : RunAgain(c, outcome)
    \/ \E r \in Callers, outcome \in {"ok", "failed"} : Tell(r, outcome)

Spec == Init /\ [][Next]_vars
=============================================================================
