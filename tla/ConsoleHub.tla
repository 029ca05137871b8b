----------------------------- MODULE ConsoleHub -----------------------------
(***************************************************************************)
(* The output of one procedure on its way to the viewers and to the log:   *)
(* internal/core/domain/broadcast_channel.go, internal/core/services/      *)
(* console_manager.go and log_manager.go, and the attach loop of the       *)
(* websocket handler.  The hub of the file watcher is the same hub; only   *)
(* that one is ever closed from outside.                                   *)
(*                                                                         *)
(* The hub's lock is Go's RWMutex: a goroutine that waits for the write    *)
(* lock keeps new readers out.  The sections under the write lock do not   *)
(* block and are one step; those under the read lock may.                  *)
(***************************************************************************)
EXTENDS Naturals, Sequences

CONSTANTS Viewers,
          Lines,           \* bound: lines of output
          HubCapacity,     \* 100 in the code
          ClientCapacity,  \* 25
          WriteCapacity,   \* 1024
          LogCapacity      \* 100

ASSUME HubAssumption ==
    /\ Lines \in Nat
    /\ {HubCapacity, ClientCapacity, WriteCapacity, LogCapacity} \subseteq Nat \ {0}

VARIABLES readers, waiting,          \* of the hub's lock
          clients, channel, closedChannels,
          queue, hubClosed,
          pump, line,                \* the goroutine of AddConsoleWithChannel
          runner, data, todo,        \* the goroutine of Run, its line, clients still to send to
          viewers,                   \* attach, in the websocket handler
          closer,                    \* a call of Close from outside
          write, list,               \* the log of the stream
          panicked                   \* a send on or a close of a closed channel

lockVars == <<readers, waiting>>
clientVars == <<clients, channel, closedChannels>>
queueVars == <<queue, hubClosed>>
pumpVars == <<pump, line>>
runVars == <<runner, data, todo>>
logVars == <<write, list>>
hubVars == <<lockVars, clientVars, queueVars, pumpVars, runVars, viewers, closer, logVars, panicked>>

HubInit ==
    /\ readers = {} /\ waiting = {}
    /\ clients = {} /\ closedChannels = {} /\ channel = [v \in Viewers |-> <<>>]
    /\ queue = <<>> /\ hubClosed = FALSE
    /\ pump = "reading" /\ line = 0
    /\ runner = "range" /\ data = 0 /\ todo = {}
    /\ viewers = [v \in Viewers |-> "none"] /\ closer = "none"
    /\ write = <<>> /\ list = <<>>
    /\ panicked = FALSE

RLock(g) == waiting = {} /\ readers' = readers \cup {g} /\ UNCHANGED waiting
RUnlock(g) == readers' = readers \ {g} /\ UNCHANGED waiting
Want(g) == waiting' = waiting \cup {g} /\ UNCHANGED readers
\* The write lock, taken and given back in the same step.
Locked(g) == readers = {} /\ waiting' = waiting \ {g} /\ UNCHANGED readers

-----------------------------------------------------------------------------
(* The pump: a line goes to the hub, which may drop it, and then to the log *)

ReadLine ==
    /\ pump = "reading" /\ line < Lines
    /\ pump' = "broadcast" /\ line' = line + 1
    /\ UNCHANGED <<lockVars, clientVars, queueVars, runVars, viewers, closer, logVars, panicked>>

\* Mutant: Broadcast looks at closed before it takes the lock, and sends without.
BroadcastUnlocked ==
    /\ pump = "broadcast" /\ ~hubClosed
    /\ pump' = "sending"
    /\ UNCHANGED <<lockVars, clientVars, queueVars, line, runVars, viewers, closer, logVars, panicked>>

BroadcastLock ==
    /\ pump = "broadcast"
    /\ IF hubClosed THEN pump' = "log" /\ waiting = {} /\ UNCHANGED lockVars
                    ELSE pump' = "sending" /\ RLock("pump")
    /\ UNCHANGED <<clientVars, queueVars, line, runVars, viewers, closer, logVars, panicked>>

BroadcastSend ==
    /\ pump = "sending" /\ Len(queue) < HubCapacity
    /\ queue' = Append(queue, line) /\ panicked' = (panicked \/ hubClosed)
    /\ pump' = "log" /\ RUnlock("pump")
    /\ UNCHANGED <<clientVars, hubClosed, line, runVars, viewers, closer, logVars>>

\* After 50 ms with the lock held and no room.
BroadcastTimeout ==
    /\ pump = "sending" /\ Len(queue) = HubCapacity
    /\ pump' = "log" /\ RUnlock("pump")
    /\ UNCHANGED <<clientVars, queueVars, line, runVars, viewers, closer, logVars, panicked>>

AddLine ==
    /\ pump = "log" /\ Len(write) < WriteCapacity
    /\ write' = Append(write, line) /\ pump' = "reading"
    /\ UNCHANGED <<lockVars, clientVars, queueVars, line, runVars, viewers, closer, list, panicked>>

\* The output ends: the backend's <-doneChan returns.
CloseDone ==
    /\ pump = "reading" /\ pump' = "done"
    /\ UNCHANGED <<lockVars, clientVars, queueVars, line, runVars, viewers, closer, logVars, panicked>>

-----------------------------------------------------------------------------
(* The log: a bounded list, filled from a channel by a goroutine           *)

\* Mutant: the list holds one line too many.
LogOneMore ==
    /\ write # <<>>
    /\ list' = Append(IF Len(list) > LogCapacity THEN Tail(list) ELSE list, Head(write))
    /\ write' = Tail(write)
    /\ UNCHANGED <<lockVars, clientVars, queueVars, pumpVars, runVars, viewers, closer, panicked>>

LogWrite ==
    /\ write # <<>>
    /\ list' = Append(IF Len(list) >= LogCapacity THEN Tail(list) ELSE list, Head(write))
    /\ write' = Tail(write)
    /\ UNCHANGED <<lockVars, clientVars, queueVars, pumpVars, runVars, viewers, closer, panicked>>

-----------------------------------------------------------------------------
(* Run: each line to every client that has room                            *)

RunTake ==
    /\ runner = "range" /\ queue # <<>>
    /\ runner' = "holding" /\ data' = Head(queue) /\ queue' = Tail(queue)
    /\ UNCHANGED <<lockVars, clientVars, hubClosed, todo, pumpVars, viewers, closer, logVars, panicked>>

RunLock ==
    /\ runner = "holding"
    /\ runner' = "sending" /\ todo' = clients /\ RLock("run")
    /\ UNCHANGED <<data, clientVars, queueVars, pumpVars, viewers, closer, logVars, panicked>>

RunSend(v) ==
    /\ runner = "sending" /\ v \in todo
    /\ todo' = todo \ {v}
    /\ panicked' = (panicked \/ v \in closedChannels)
    /\ channel' = IF Len(channel[v]) < ClientCapacity
                  THEN [channel EXCEPT ![v] = Append(@, data)] ELSE channel
    /\ UNCHANGED <<lockVars, clients, closedChannels, queueVars, pumpVars, runner, data, viewers,
                   closer, logVars>>

RunUnlock ==
    /\ runner = "sending" /\ todo = {}
    /\ runner' = "range" /\ RUnlock("run")
    /\ UNCHANGED <<clientVars, queueVars, data, todo, pumpVars, viewers, closer, logVars, panicked>>

\* The range ends when the channel is closed and empty; the deferred Close
\* then finds the hub closed.
RunEnds ==
    /\ runner = "range" /\ queue = <<>> /\ hubClosed
    /\ runner' = "ended"
    /\ UNCHANGED <<lockVars, clientVars, queueVars, data, todo, pumpVars, viewers, closer, logVars,
                   panicked>>

-----------------------------------------------------------------------------
(* Subscribe and Unsubscribe, in attach; Close                             *)

Attach(v) ==
    /\ viewers[v] = "none" /\ viewers' = [viewers EXCEPT ![v] = "subscribing"]
    /\ Want(v)
    /\ UNCHANGED <<clientVars, queueVars, pumpVars, runVars, closer, logVars, panicked>>

\* A closed hub gives no channel; the viewer is attached to nothing.
Subscribe(v) ==
    /\ viewers[v] = "subscribing" /\ Locked(v)
    /\ viewers' = [viewers EXCEPT ![v] = "attached"]
    /\ clients' = IF hubClosed THEN clients ELSE clients \cup {v}
    /\ UNCHANGED <<channel, closedChannels, queueVars, pumpVars, runVars, closer, logVars, panicked>>

Deliver(v) ==
    /\ viewers[v] = "attached" /\ channel[v] # <<>>
    /\ channel' = [channel EXCEPT ![v] = Tail(@)]
    /\ UNCHANGED <<lockVars, clients, closedChannels, queueVars, pumpVars, runVars, viewers, closer,
                   logVars, panicked>>

\* The channel was closed and is empty, the client went away or a write failed.
Detach(v) ==
    /\ viewers[v] = "attached"
    /\ viewers' = [viewers EXCEPT ![v] = "leaving"]
    /\ Want(v)
    /\ UNCHANGED <<clientVars, queueVars, pumpVars, runVars, closer, logVars, panicked>>

CloseChannels(vs) == /\ closedChannels' = closedChannels \cup vs
                     /\ panicked' = (panicked \/ vs \cap closedChannels # {})

Unsubscribe(v) ==
    /\ viewers[v] = "leaving" /\ Locked(v)
    /\ viewers' = [viewers EXCEPT ![v] = "gone"]
    /\ clients' = clients \ {v}
    /\ CloseChannels(clients \cap {v})
    /\ UNCHANGED <<channel, queueVars, pumpVars, runVars, closer, logVars>>

WantClose ==
    /\ closer = "none" /\ closer' = "closing" /\ Want("closer")
    /\ UNCHANGED <<clientVars, queueVars, pumpVars, runVars, viewers, logVars, panicked>>

Close ==
    /\ closer = "closing" /\ closer' = "closed" /\ Locked("closer")
    /\ hubClosed' = TRUE /\ clients' = {}
    /\ CloseChannels(clients)
    /\ UNCHANGED <<channel, queue, pumpVars, runVars, viewers, logVars>>

HubNext ==
    \/ ReadLine \/ BroadcastLock \/ BroadcastSend \/ BroadcastTimeout \/ AddLine \/ CloseDone
    \/ LogWrite
    \/ RunTake \/ RunLock \/ RunUnlock \/ RunEnds \/ \E v \in todo : RunSend(v)
    \/ \E v \in Viewers : Attach(v) \/ Subscribe(v) \/ Deliver(v) \/ Detach(v) \/ Unsubscribe(v)
    \/ WantClose \/ Close

-----------------------------------------------------------------------------
HubTypeOK ==
    /\ readers \subseteq {"pump", "run"} /\ waiting \subseteq Viewers \cup {"closer"}
    /\ clients \subseteq Viewers /\ Len(queue) <= HubCapacity
    /\ \A v \in Viewers : Len(channel[v]) <= ClientCapacity
    /\ Len(write) <= WriteCapacity /\ Len(list) <= LogCapacity

\* Whatever viewers and Close do, the output goes on.  No goroutine sends on a
\* closed channel or closes one twice, either of which ends the process
\* (broadcast_channel.go:22-98); the log ends with the last line the procedure
\* wrote, in order and without gaps whatever the hub dropped, and a finished
\* procedure has handed over all of it (console_manager.go:42-49,
\* log_manager.go:18-53).
OutputUndisturbed ==
    LET logged == list \o write IN
    /\ ~panicked
    /\ \A i \in 1 .. Len(logged) - 1 : logged[i + 1] = logged[i] + 1
    /\ pump \in {"reading", "done"} /\ line > 0 => logged # <<>> /\ logged[Len(logged)] = line
=============================================================================
