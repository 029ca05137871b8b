----------------------------- MODULE DevServer -----------------------------
(***************************************************************************)
(* The watch mode of druid-dev (apps/druid-dev/adapters/cli/root.go): HTTP *)
(* calls enable and disable a build process, the child, together with the  *)
(* file watcher of HotReload.  A goroutine per child waits for its exit.   *)
(* Between two sections under the server's mutex everything may happen.    *)
(* A child is named by the watchID of the call that started it; 0 is none. *)
(***************************************************************************)
EXTENDS HotReload

CONSTANTS Callers,   \* HTTP calls in progress at the same time
          Configs,   \* watch paths, working directory and build command
          MaxCalls   \* bound: calls in all

ASSUME DevAssumption == MaxCalls \in Nat

VARIABLES status, config, cancel, watchID,
          calls,      \* the calls in progress
          children,   \* the build processes and the goroutines that wait for them
          served,     \* calls begun
          overlapped  \* history: two calls were in progress at the same time

serverVars == <<status, config, cancel, watchID>>
devVars == <<reloadVars, serverVars, calls, children, served, overlapped>>

WatchIDs == 1 .. 2 * MaxCalls
NoConfig == "none"
IdleCall == [at |-> "idle", op |-> "none", config |-> NoConfig, taken |-> 0, id |-> 0]
NoChild == [at |-> "none", ok |-> TRUE, cancelled |-> FALSE]

ServerInit ==
    /\ status = "disabled" /\ config = NoConfig /\ cancel = 0 /\ watchID = 0
    /\ calls = [c \in Callers |-> IdleCall]
    /\ children = [i \in WatchIDs |-> NoChild]
    /\ served = 0 /\ overlapped = FALSE

Goto(c, at) == calls' = [calls EXCEPT ![c].at = at]
Return(c) == calls' = [calls EXCEPT ![c] = IdleCall]
Quiescent == \A c \in Callers : calls[c].at = "idle"

-----------------------------------------------------------------------------
(* EnableWatch, DisableWatch and the stopWatch of the shutdown             *)

Call(c, op, conf) ==
    /\ calls[c].at = "idle" /\ served < MaxCalls
    /\ served' = served + 1
    /\ overlapped' = (overlapped \/ ~Quiescent)
    /\ calls' = [calls EXCEPT ![c] = [IdleCall EXCEPT
                    !.at = IF op = "enable" THEN "check" ELSE "stop", !.op = op, !.config = conf]]
    /\ UNCHANGED <<reloadVars, serverVars, children>>

\* The same configuration is already running: nothing to do.
CheckSame(c) ==
    /\ calls[c].at = "check"
    /\ IF status = "ready" /\ config = calls[c].config THEN Return(c) ELSE Goto(c, "stop")
    /\ UNCHANGED <<reloadVars, serverVars, children, served, overlapped>>

\* stopWatch takes the cancel function, cancels and stops the watcher.
TakeCancel(c) ==
    /\ calls[c].at = "stop"
    /\ calls' = [calls EXCEPT ![c].at = "cancel", ![c].taken = cancel]
    /\ cancel' = 0 /\ watchID' = watchID + 1 /\ status' = "disabled"
    /\ UNCHANGED <<reloadVars, config, children, served, overlapped>>

CancelChild(c) ==
    /\ calls[c].at = "cancel"
    /\ Goto(c, "unwatch")
    /\ IF calls[c].taken = 0 THEN UNCHANGED children
       ELSE children' = [children EXCEPT ![calls[c].taken].cancelled = TRUE]
    /\ UNCHANGED <<reloadVars, serverVars, served, overlapped>>

StopWatcher == StopWatching \/ StopFails \/ StopIdle

\* The error of StopWatching is dropped.
Unwatch(c) ==
    /\ calls[c].at = "unwatch"
    /\ StopWatcher
    /\ IF calls[c].op = "enable" THEN Goto(c, "set") ELSE Return(c)
    /\ UNCHANGED <<serverVars, children, served, overlapped>>

SetStarting(c) ==
    /\ calls[c].at = "set"
    /\ status' = "starting" /\ config' = calls[c].config /\ watchID' = watchID + 1
    /\ calls' = [calls EXCEPT ![c].at = "watch", ![c].id = watchID']
    /\ UNCHANGED <<reloadVars, cancel, children, served, overlapped>>

Watch(c) ==
    /\ calls[c].at = "watch"
    /\ \/ (StartWatching \/ StartAgain) /\ Goto(c, "spawn")
       \/ StartFails /\ Goto(c, "failed")
    /\ UNCHANGED <<serverVars, children, served, overlapped>>

SpawnChild(c) ==
    /\ calls[c].at = "spawn"
    /\ Goto(c, "ready")
    /\ children' = [children EXCEPT ![calls[c].id].at = "running"]
    /\ UNCHANGED <<reloadVars, serverVars, served, overlapped>>

\* The command cannot be started.
SpawnFails(c) ==
    /\ calls[c].at = "spawn"
    /\ StopWatcher
    /\ Goto(c, "failed")
    /\ UNCHANGED <<serverVars, children, served, overlapped>>

SetWatchError(c) ==
    /\ calls[c].at = "failed"
    /\ status' = "error"
    /\ Return(c)
    /\ UNCHANGED <<reloadVars, config, cancel, watchID, children, served, overlapped>>

\* Whatever happened since SetStarting, the call reports ready; only now does
\* the goroutine start to wait for the child.
SetReady(c) ==
    /\ calls[c].at = "ready"
    /\ cancel' = calls[c].id /\ status' = "ready"
    /\ Return(c)
    /\ UNCHANGED <<reloadVars, config, watchID, children, served, overlapped>>

-----------------------------------------------------------------------------
(* The build process and the goroutine in child.Wait                       *)

Awaited(i) == \A c \in Callers : calls[c].id # i

\* By itself, well or badly, or killed because its context was cancelled.
ChildEnds(i, ok) ==
    /\ children[i].at = "running"
    /\ children[i].cancelled => ~ok
    /\ children' = [children EXCEPT ![i].at = "ended", ![i].ok = ok]
    /\ UNCHANGED <<reloadVars, serverVars, calls, served, overlapped>>

\* Mutant: the exit of a child changes the status only when it failed.
ReapFailed(i) ==
    /\ children[i].at = "ended" /\ Awaited(i)
    /\ children' = [children EXCEPT ![i].at = "reaped"]
    /\ IF watchID = i /\ ~children[i].ok /\ ~children[i].cancelled
       THEN cancel' = 0 /\ status' = "error"
       ELSE UNCHANGED <<cancel, status>>
    /\ UNCHANGED <<reloadVars, config, watchID, calls, served, overlapped>>

Reap(i) ==
    /\ children[i].at = "ended" /\ Awaited(i)
    /\ children' = [children EXCEPT ![i].at = "reaped"]
    /\ IF watchID = i
       THEN /\ cancel' = 0
            /\ status' = IF ~children[i].ok /\ ~children[i].cancelled THEN "error" ELSE "disabled"
       ELSE UNCHANGED <<cancel, status>>
    /\ UNCHANGED <<reloadVars, config, watchID, calls, served, overlapped>>

\* The watcher is stopped unless the child was cancelled, whoever's session it
\* is by now.
ReapUnwatch(i) ==
    /\ children[i].at = "reaped"
    /\ children' = [children EXCEPT ![i].at = "gone"]
    /\ IF children[i].cancelled THEN UNCHANGED reloadVars ELSE StopWatcher
    /\ UNCHANGED <<serverVars, calls, served, overlapped>>

ServerNext ==
    \/ \E c \in Callers :
        \/ \E conf \in Configs : Call(c, "enable", conf)
        \/ Call(c, "disable", NoConfig)
        \/ CheckSame(c) \/ TakeCancel(c) \/ CancelChild(c) \/ Unwatch(c) \/ SetStarting(c)
        \/ Watch(c) \/ SpawnChild(c) \/ SpawnFails(c) \/ SetWatchError(c) \/ SetReady(c)
    \/ \E i \in WatchIDs : \/ \E ok \in BOOLEAN : ChildEnds(i, ok)
                           \/ Reap(i) \/ ReapUnwatch(i)

\* Callers that use the watch service without the server.
ReloadClient ==
    /\ \/ StartWatching \/ StartFails \/ StartAgain
       \/ StopWatching \/ StopFails \/ StopIdle
       \/ \E commands \in {<<>>, Builds} : SetHotReloadCommands(commands)
       \/ \E g \in Goroutines : Trigger(g)
    /\ UNCHANGED <<serverVars, calls, children, served, overlapped>>

ReloadStep == ReloadInternal /\ UNCHANGED <<serverVars, calls, children, served, overlapped>>

DevInit == ReloadInit /\ ServerInit

-----------------------------------------------------------------------------
DevTypeOK ==
    /\ ReloadTypeOK
    /\ status \in {"disabled", "starting", "ready", "error"}
    /\ config \in Configs \cup {NoConfig}
    /\ cancel \in 0 .. 2 * MaxCalls /\ watchID \in 0 .. 2 * MaxCalls
    /\ \A i \in WatchIDs : children[i].at \in {"none", "running", "ended", "reaped", "gone"}

\* Calls that do not overlap leave no build process behind: between calls at
\* most the process the server can cancel runs, only while it is reported
\* ready, and it is not reported ready once the exit of the process was seen
\* (root.go:253-319, 353-368).
StatusOfChild ==
    (~overlapped /\ Quiescent) =>
        /\ \A i \in WatchIDs : (children[i].at = "running" /\ ~children[i].cancelled) =>
                                   status = "ready" /\ cancel = i
        /\ status = "ready" => children[cancel].at \in {"running", "ended"}
=============================================================================
