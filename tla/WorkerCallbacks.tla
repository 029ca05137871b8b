---------------------------- MODULE WorkerCallbacks ----------------------------
(***************************************************************************)
(* Materializing the root of one scroll (services/worker_callbacks.go,     *)
(* services/runtime_materialization.go).  A call registers an action under *)
(* the id of the runtime, has the backend run a pull worker, and waits for *)
(* the report the worker sends to the daemon over HTTP.  The report names  *)
(* the runtime, not the action: Complete takes whatever action is pending, *)
(* and Cancel removes whatever is pending.                                 *)
(***************************************************************************)
EXTENDS Naturals, FiniteSets

CONSTANTS
    Calls,     \* the calls of runPullWorker, each with the worker it spawns
    Versions,  \* what an artifact contains
    None       \* no call, no version

ASSUME CallsAssumption == None \notin Calls \cup Versions

VARIABLES
    pending,  \* the call whose action is registered for the runtime
    call,     \* the progress of each call
    chan,     \* the result in the channel of each call's action
    worker,   \* the pull worker of each call
    root      \* what the root contains

workerVars == <<pending, call, chan, worker, root>>
-----------------------------------------------------------------------------
CallState == [pc : {"idle", "spawn", "running", "wait", "cancel", "done"},
              artifact : Versions \cup {None},
              result : {"none", "ok", "failed"}]

\* A worker pulls, reports what it did, and exits with code 0 or 1.
WorkerState == {"none", "pulling", "pulled", "error", "exit0", "exit1", "gone"}

\* A result names the worker it is from.
Result == [from : Calls, ok : BOOLEAN]
NoResult == [from |-> None, ok |-> FALSE]

\* A root that was cleared, or merged halfway, and not filled.
Torn == "torn"
Contents == Versions \cup {None, Torn}

\* The worker of c has outlived its call.
AtLarge(c) == call[c].pc = "done" /\ worker[c] \notin {"none", "gone"}

Ended(c, result) == [pc |-> "done", artifact |-> call[c].artifact, result |-> result]

ReturnCall(c, result) == call' = [call EXCEPT ![c] = Ended(c, result)]
CallTo(c, pc) == call' = [call EXCEPT ![c].pc = pc]

\* Register: one action per runtime; a call that finds one pending fails.
Register(c, a) ==
    /\ call[c].pc = "idle"
    /\ IF pending = None
       THEN /\ pending' = c
            /\ call' = [call EXCEPT ![c] =
                          [pc |-> "spawn", artifact |-> a, result |-> "none"]]
       ELSE /\ call' = [call EXCEPT ![c] =
                          [pc |-> "done", artifact |-> a, result |-> "failed"]]
            /\ UNCHANGED pending
    /\ UNCHANGED <<chan, worker, root>>

\* SpawnPullWorker prepares image, root and job; each of them may fail.
SpawnFails(c) ==
    /\ call[c].pc = "spawn"
    /\ CallTo(c, "cancel")
    /\ UNCHANGED <<pending, chan, worker, root>>

StartWorker(c) ==
    /\ call[c].pc = "spawn"
    /\ CallTo(c, "running")
    /\ worker' = [worker EXCEPT ![c] = "pulling"]
    /\ UNCHANGED <<pending, chan, root>>

\* The worker replaces or merges the root.
Pull(c) ==
    /\ worker[c] = "pulling"
    /\ worker' = [worker EXCEPT ![c] = "pulled"]
    /\ root' = call[c].artifact
    /\ UNCHANGED <<pending, call, chan>>

\* It fails before it touches the root, in the middle, or at the end, when
\* the scroll file it pulled is not valid.
PullFails(c) ==
    /\ worker[c] = "pulling"
    /\ worker' = [worker EXCEPT ![c] = "error"]
    /\ root' \in {root, Torn, call[c].artifact}
    /\ UNCHANGED <<pending, call, chan>>

\* Mutant: a worker that misses the reply reports again.
Report_Retried(c) ==
    /\ worker[c] \in {"pulled", "error"}
    /\ pending # None
    /\ chan' = [chan EXCEPT ![pending] = [from |-> c, ok |-> worker[c] = "pulled"]]
    /\ pending' = None
    /\ worker' \in {worker, [worker EXCEPT ![c] = "exit0"]}
    /\ UNCHANGED <<call, root>>

\* The callback: Complete removes the pending action and sends the result
\* into its channel.  A worker that has failed exits with 1, and so does one
\* whose callback is refused, or whose reply is lost.
Report(c) ==
    /\ worker[c] \in {"pulled", "error"}
    /\ pending # None
    /\ chan' = [chan EXCEPT ![pending] = [from |-> c, ok |-> worker[c] = "pulled"]]
    /\ pending' = None
    /\ \E exit \in {"exit1"} \cup (IF worker[c] = "pulled" THEN {"exit0"} ELSE {}) :
          worker' = [worker EXCEPT ![c] = exit]
    /\ UNCHANGED <<call, root>>

\* No action is pending (409), or the callback does not reach the daemon.
ReportRefused(c) ==
    /\ worker[c] \in {"pulled", "error"}
    /\ worker' = [worker EXCEPT ![c] = "exit1"]
    /\ UNCHANGED <<pending, call, chan, root>>

\* SpawnPullWorker returns when the worker has exited.
SpawnReturns(c) ==
    /\ call[c].pc = "running"
    /\ worker[c] \in {"exit0", "exit1"}
    /\ CallTo(c, IF worker[c] = "exit0" THEN "wait" ELSE "cancel")
    /\ worker' = [worker EXCEPT ![c] = "gone"]
    /\ UNCHANGED <<pending, chan, root>>

\* The timeout ends the wait for the worker, whose container is removed; but
\* a job of Kubernetes, or a container Docker fails to remove, may go on.
SpawnTimesOut(c) ==
    /\ call[c].pc = "running"
    /\ CallTo(c, "cancel")
    /\ \/ /\ worker' = [worker EXCEPT ![c] = "gone"]
          /\ root' \in IF worker[c] = "pulling" THEN {root, Torn} ELSE {root}
       \/ UNCHANGED <<worker, root>>
    /\ UNCHANGED <<pending, chan>>

\* The call receives a result, its own or not.
Receive(c) ==
    /\ call[c].pc = "wait"
    /\ chan[c] # NoResult
    /\ ReturnCall(c, IF chan[c].ok THEN "ok" ELSE "failed")
    /\ UNCHANGED <<pending, chan, worker, root>>

WaitTimesOut(c) ==
    /\ call[c].pc = "wait"
    /\ CallTo(c, "cancel")
    /\ UNCHANGED <<pending, chan, worker, root>>

\* Cancel removes the action of the runtime, whoever registered it.
Cancel(c) ==
    /\ call[c].pc = "cancel"
    /\ pending' = None
    /\ ReturnCall(c, "failed")
    /\ UNCHANGED <<chan, worker, root>>

CallInit ==
    /\ pending = None
    /\ call = [c \in Calls |-> [pc |-> "idle", artifact |-> None, result |-> "none"]]
    /\ chan = [c \in Calls |-> NoResult]
    /\ worker = [c \in Calls |-> "none"]

Worker(c) == Pull(c) \/ PullFails(c) \/ Report(c) \/ ReportRefused(c)

PullCall(c) ==
    \/ SpawnFails(c) \/ StartWorker(c) \/ SpawnReturns(c) \/ SpawnTimesOut(c)
    \/ Receive(c) \/ WaitTimesOut(c) \/ Cancel(c)

-----------------------------------------------------------------------------
CallTypeOK ==
    /\ pending \in Calls \cup {None}
    /\ call \in [Calls -> CallState]
    /\ chan \in [Calls -> Result \cup {NoResult}]
    /\ worker \in [Calls -> WorkerState]
    /\ root \in Contents

\* The channel of a pending action is empty: it has room for one result, and
\* Complete sends without a lock, so a second result would block the handler.
ChannelFree == pending # None => chan[pending] = NoResult

\* No report is delivered twice: two calls that return never return what the
\* same worker did, however reports, cancels and timeouts interleave.
ReportDeliveredOnce ==
    \A c, d \in Calls : chan[c] # NoResult /\ chan[c].from = chan[d].from => c = d
=============================================================================
