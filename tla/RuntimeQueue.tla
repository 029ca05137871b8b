----------------------------- MODULE RuntimeQueue -----------------------------
(***************************************************************************)
(* The command queue of one RuntimeSession                                 *)
(* (apps/druid/core/services/runtime_session_queue.go).  Clients put       *)
(* commands into the queue; passes of RunQueue, one at a time under runMu, *)
(* look at every item, add missing needs, and start a goroutine for each   *)
(* command whose needs are done; the goroutine runs the procedures on the  *)
(* backend, settles the item and triggers the next pass.  Clients wait for *)
(* one command (doneChan) or for an empty queue (notifiers).               *)
(*                                                                         *)
(* One action is one critical section of queueMu (with the sections of mu  *)
(* nested in it) or one step of a goroutine between two of them.  The set  *)
(* of commands of the scroll is fixed.                                     *)
(***************************************************************************)
EXTENDS CommandStatus, Naturals

CONSTANTS
    Commands,    \* the commands of the scroll file
    Procedures,  \* all procedures of all commands
    CommandOf,   \* the command each procedure belongs to
    Needs,       \* the commands each command depends on
    Mode,        \* the run mode of each command
    MayFail,     \* the commands whose procedures may fail on the backend
    Requests,    \* the calls clients make, each made at most once
    Calls,       \* the calls clients may make: <<kind, command>>
    Workers,     \* goroutines executing commands (a pool that bounds them)
    MaxPasses,   \* bound on RunQueue goroutines that wait for runMu or notify
    None         \* no command, no request

RunModes == {"always", "once", "restart", "persistent"}

\* AddTempItem, AddForcedItem, AddTempItemWithWait, AddTempItemWithWaitEnv
\* and WaitUntilEmptyContext.
CallKinds == {"temp", "forced", "wait", "waitEnv", "empty"}

ASSUME CommandsAssumption ==
    /\ CommandOf \in [Procedures -> Commands]
    /\ Needs \in [Commands -> SUBSET Commands]
    /\ Mode \in [Commands -> RunModes]
    /\ MayFail \subseteq Commands

ASSUME ClientsAssumption ==
    /\ Calls \subseteq CallKinds \X (Commands \cup {None})
    /\ \A call \in Calls : call[1] = "empty" <=> call[2] = None
    /\ MaxPasses \in Nat \ {0}
    /\ None \notin Commands \cup Requests

VARIABLES
    queued,    \* the keys of s.queue
    item,      \* the values of s.queue (Blank where there is no key)
    record,    \* s.runtimeScroll: procedure statuses and scroll status
    stored,    \* the same record as the store has it
    started,   \* s.started
    pending,   \* RunQueue goroutines that have not taken runMu yet
    pass,      \* the RunQueue call that holds runMu
    notifying, \* RunQueue goroutines that have yet to call notify
    worker,    \* the goroutines RunQueue started
    req,       \* the progress of each client call
    doneChan,  \* the channel a waiting call made, with the outcome it was closed on
    woken,     \* calls whose notifier holds an empty list
    completed  \* history: commands that were done at some time

queueVars == <<queued, item, completed>>
recordVars == <<record, stored>>
passVars == <<pending, pass, notifying>>
clientVars == <<req, doneChan, woken>>
vars == <<queueVars, recordVars, started, passVars, worker, clientVars>>
-----------------------------------------------------------------------------
(* Queue items and their status                                            *)

Item == [err : BOOLEAN, inFlight : BOOLEAN, rememberDone : BOOLEAN,
         runRequested : BOOLEAN, chan : Requests \cup {None}]

Blank == [err |-> FALSE, inFlight |-> FALSE, rememberDone |-> FALSE,
          runRequested |-> FALSE, chan |-> None]

\* Mutants: a launched item keeps its run request; a failed item is queued
\* again under the same channel.
AsRunning_KeepsRequest(i) == [i EXCEPT !.inFlight = TRUE, !.err = FALSE]
AsError_Requeued(i) == [i EXCEPT !.inFlight = FALSE, !.runRequested = TRUE]

\* setQueueStatusLocked for the three statuses the queue sets, and
\* setQueueError, which leaves runRequested alone.
AsWaiting(i) == [i EXCEPT !.inFlight = FALSE, !.err = FALSE,
                          !.rememberDone = FALSE, !.runRequested = TRUE]
AsRunning(i) == [i EXCEPT !.inFlight = TRUE, !.err = FALSE, !.runRequested = FALSE]
AsDone(i) == [i EXCEPT !.inFlight = FALSE, !.err = FALSE,
                       !.rememberDone = TRUE, !.runRequested = FALSE]
AsError(i) == [i EXCEPT !.inFlight = FALSE, !.err = TRUE]

ProceduresOf == [c \in Commands |-> {p \in Procedures : CommandOf[p] = c}]

\* What the procedure statuses alone say of a command ("none" when nothing).
DerivedStatus(c) == DeriveCommandStatus({record.procs[p] : p \in ProceduresOf[c]})

\* The flags of an item go before the procedure statuses.
ScheduledStatus(c) ==
    CASE c \notin queued -> DerivedStatus(c)
      [] c \in queued /\ item[c].err -> "error"
      [] c \in queued /\ ~item[c].err /\ item[c].inFlight -> "running"
      [] c \in queued /\ ~item[c].err /\ ~item[c].inFlight /\ item[c].rememberDone -> "done"
      [] OTHER -> IF DerivedStatus(c) = "none" THEN "waiting" ELSE DerivedStatus(c)

\* An item that is neither done nor in error keeps WaitUntilEmpty waiting.
Active(c) == c \in queued /\ ScheduledStatus(c) \notin {"done", "error"}

QueueEmpty == \A c \in Commands : ~Active(c)
-----------------------------------------------------------------------------
(* The persisted record                                                    *)

Record == [procs : [Procedures -> ProcedureStatuses], status : ScrollStatuses]

\* The record with these procedure statuses: its scroll status is derived.
RecordOf(procs) ==
    [procs |-> procs,
     status |-> DeriveScrollStatus(
                  {DeriveCommandStatus({procs[p] : p \in ProceduresOf[c]}) : c \in Commands})]

\* Every change of a procedure status is written to the store under mu.
Persist(procs) ==
    /\ record' = RecordOf(procs)
    /\ stored' = RecordOf(procs)

\* All procedures of c get status s.
WithCommandStatus(c, s) ==
    [p \in Procedures |-> IF CommandOf[p] = c THEN s ELSE record.procs[p]]
-----------------------------------------------------------------------------
(* Passes and goroutines                                                   *)

\* A pass holds the commands it has yet to look at; cmd is the one it is
\* looking at, deps its needs not yet checked, ready whether all were done.
PassState == [pc : {"idle", "scan", "deps"}, todo : SUBSET Commands,
              cmd : Commands \cup {None}, deps : SUBSET Commands, ready : BOOLEAN]

NoPass == [pc |-> "idle", todo |-> {}, cmd |-> None, deps |-> {}, ready |-> FALSE]

WorkerState == [pc : {"idle", "run", "failed", "retry", "backoff", "exit"},
                cmd : Commands \cup {None}, chan : Requests \cup {None},
                left : SUBSET Procedures, ok : BOOLEAN]

IdleWorker == [pc |-> "idle", cmd |-> None, chan |-> None, left |-> {}, ok |-> FALSE]

\* A worker that has not yet reported its result to the queue.
Busy(w) == worker[w].pc \in {"run", "failed", "retry"}

\* startRunQueue: a new RunQueue goroutine.  A goroutine beyond the bound is
\* merged with the ones that wait for runMu.
OneMorePass == IF pending < MaxPasses THEN pending + 1 ELSE pending

\* Mutant: no new pass is triggered while one is under way.
TriggerRunQueue_OnlyWhenIdle ==
    pending' = IF started /\ pass.pc = "idle" THEN OneMorePass ELSE pending

\* triggerRunQueue reads started, then starts a goroutine.  One step for a
\* pass and for the goroutine of an item: workWg counts the caller, so no
\* drain ends between the two.  A client is not counted (Trigger).
TriggerRunQueue == pending' = IF started THEN OneMorePass ELSE pending
-----------------------------------------------------------------------------
(* Clients                                                                 *)

\* A "dropped" call waits for a notifier that resetQueueState took off the
\* list; only RuntimeSession resets the queue.
RequestState == [pc : {"idle", "trigger", "start", "await", "read", "empty", "dropped", "done"},
                 kind : CallKinds, cmd : Commands \cup {None},
                 result : {"none", "ok", "alreadyQueued", "doneOnce", "failed", "canceled"}]

NoCall == [pc |-> "idle", kind |-> "temp", cmd |-> None, result |-> "none"]

Waits(kind) == kind \in {"wait", "waitEnv"}
Forces(kind) == kind \in {"forced", "waitEnv"}

Finish(r, result) == req' = [req EXCEPT ![r].pc = "done", ![r].result = result]

\* Mutants: only a running command counts as queued; a run-once command is
\* only known to be done by its item.
AlreadyQueued_OnlyRunning(c) == c \in queued /\ ScheduledStatus(c) = "running"
DoneOnce_ByItem(c, force) ==
    c \in queued /\ item[c].rememberDone /\ Mode[c] = "once" /\ ~force

AlreadyQueued(c) == c \in queued /\ ScheduledStatus(c) \notin {"done", "error"}
DoneOnce(c, force) == ScheduledStatus(c) = "done" /\ Mode[c] = "once" /\ ~force

\* Mutant: the procedures of the new item are not set to waiting.
Enqueue_NotPersisted(c, chan) ==
    /\ ~AlreadyQueued(c)
    /\ queued' = queued \cup {c}
    /\ item' = [item EXCEPT ![c] = AsWaiting([Blank EXCEPT !.chan = chan])]
    /\ UNCHANGED recordVars

\* The accepting half of addQueueItemWithEnv: a new item replaces the old.
Enqueue(c, chan) ==
    /\ ~AlreadyQueued(c)
    /\ queued' = queued \cup {c}
    /\ item' = [item EXCEPT ![c] = AsWaiting([Blank EXCEPT !.chan = chan])]
    /\ Persist(WithCommandStatus(c, "waiting"))

\* A call is accepted: the item is in the queue, the pass not yet triggered.
Accept(r, c, kind) ==
    /\ ~DoneOnce(c, Forces(kind))
    /\ Enqueue(c, IF Waits(kind) THEN r ELSE None)
    /\ doneChan' = [doneChan EXCEPT ![r] = IF Waits(kind) THEN "open" ELSE @]
    /\ req' = [req EXCEPT ![r] = [pc |-> "trigger", kind |-> kind, cmd |-> c,
                                  result |-> "none"]]

\* A call is refused with ErrAlreadyInQueue or ErrCommandDoneOnce.
Refuse(r, c, kind) ==
    /\ AlreadyQueued(c) \/ DoneOnce(c, Forces(kind))
    /\ req' = [req EXCEPT ![r] =
                 [pc |-> "done", kind |-> kind, cmd |-> c,
                  result |-> IF AlreadyQueued(c) THEN "alreadyQueued" ELSE "doneOnce"]]
    /\ UNCHANGED <<queued, item, recordVars, doneChan>>

AddQueueItem(r) ==
    /\ req[r].pc = "idle"
    /\ \E c \in Commands, kind \in CallKinds :
          /\ <<kind, c>> \in Calls
          /\ Accept(r, c, kind) \/ Refuse(r, c, kind)
    /\ UNCHANGED <<completed, started, passVars, worker, woken>>

\* A waiting call waits for its channel, any other returns.
WaitOrReturn(r) ==
    IF Waits(req[r].kind) THEN req' = [req EXCEPT ![r].pc = "await"] ELSE Finish(r, "ok")

\* After the lock is released, triggerRunQueue reads started under mu ...
Trigger(r) ==
    /\ req[r].pc = "trigger"
    /\ IF started THEN req' = [req EXCEPT ![r].pc = "start"] ELSE WaitOrReturn(r)
    /\ UNCHANGED <<queueVars, recordVars, started, passVars, worker, doneChan, woken>>

\* ... and has released it when it starts the goroutine, whatever started is
\* by then.
StartRunQueue(r) ==
    /\ req[r].pc = "start"
    /\ pending' = OneMorePass
    /\ WaitOrReturn(r)
    /\ UNCHANGED <<queueVars, recordVars, started, pass, notifying, worker, doneChan, woken>>

\* The receive on doneChan returns once the channel is closed.
Await(r) ==
    /\ req[r].pc = "await"
    /\ doneChan[r] # "open"
    /\ req' = [req EXCEPT ![r].pc = "read"]
    /\ UNCHANGED <<queueVars, recordVars, started, passVars, worker, doneChan, woken>>

\* The error returned is that of the item the queue holds NOW.
ReadResult(r) ==
    /\ req[r].pc = "read"
    /\ Finish(r, IF req[r].cmd \in queued /\ item[req[r].cmd].err THEN "failed" ELSE "ok")
    /\ UNCHANGED <<queueVars, recordVars, started, passVars, worker, doneChan, woken>>

\* WaitUntilEmptyContext registers its notifier, or returns at once.
WaitUntilEmpty(r) ==
    /\ req' = [req EXCEPT ![r] = [pc |-> IF QueueEmpty THEN "done" ELSE "empty",
                                  kind |-> "empty", cmd |-> None,
                                  result |-> IF QueueEmpty THEN "ok" ELSE "none"]]
    /\ UNCHANGED <<queueVars, recordVars, started, passVars, worker, doneChan, woken>>

RegisterNotifier(r) ==
    /\ req[r].pc = "idle"
    /\ <<"empty", None>> \in Calls
    /\ WaitUntilEmpty(r)

\* It returns when it receives an empty list; its notifier is removed.
ReceiveEmpty(r) ==
    /\ req[r].pc = "empty"
    /\ r \in woken
    /\ Finish(r, "ok")
    /\ woken' = woken \ {r}
    /\ UNCHANGED <<queueVars, recordVars, started, passVars, worker, doneChan>>

\* The caller's context ends first.
CancelWait(r) ==
    /\ req[r].pc = "empty"
    /\ Finish(r, "canceled")
    /\ woken' = woken \ {r}
    /\ UNCHANGED <<queueVars, recordVars, started, passVars, worker, doneChan>>
-----------------------------------------------------------------------------
(* RunQueue                                                                *)

\* Start: the session begins to schedule.
Start ==
    /\ ~started
    /\ started' = TRUE
    /\ pending' = OneMorePass
    /\ UNCHANGED <<queueVars, recordVars, pass, notifying, worker, clientVars>>

\* The items a pass does not skip, by what the snapshot says of them.
Eligible(c) ==
    /\ c \in queued
    /\ \/ item[c].runRequested
       \/ ScheduledStatus(c) = "waiting"
       \/ ScheduledStatus(c) = "done" /\ Mode[c] = "restart"

\* Mutant: a pass runs that no trigger accounted for.
StartPass_Uncounted ==
    /\ pass.pc = "idle"
    /\ pending' = pending - 1
    /\ pass' = [NoPass EXCEPT !.pc = "scan", !.todo = {c \in Commands : Eligible(c)}]
    /\ UNCHANGED <<queueVars, recordVars, started, notifying, worker, clientVars>>

\* A RunQueue goroutine takes runMu and the snapshot of the queue.
StartPass ==
    /\ pending > 0
    /\ pass.pc = "idle"
    /\ pending' = pending - 1
    /\ pass' = [NoPass EXCEPT !.pc = "scan", !.todo = {c \in Commands : Eligible(c)}]
    /\ UNCHANGED <<queueVars, recordVars, started, notifying, worker, clientVars>>

\* The next command in the order of Go's map iteration, which is any order.
PickCommand(c) ==
    /\ pass.pc = "scan"
    /\ c \in pass.todo
    /\ pass' = [pass EXCEPT !.pc = "deps", !.todo = @ \ {c}, !.cmd = c,
                            !.deps = Needs[c], !.ready = TRUE]
    /\ UNCHANGED <<queueVars, recordVars, started, pending, notifying, worker, clientVars>>

\* Mutant: a failed need counts as done.
NeedDone_OrFailed(d) == ScheduledStatus(d) \in {"done", "error"}

\* A need is done when its item says so or, without one, its procedures do.
NeedDone(d) == ScheduledStatus(d) = "done"

\* A need that is not scheduled is added (AddTempItem) and triggers a pass;
\* one that is scheduled and not done just makes the command wait.
CheckNeed(d) ==
    /\ pass.pc = "deps"
    /\ d \in pass.deps
    /\ pass' = [pass EXCEPT !.deps = @ \ {d}, !.ready = @ /\ NeedDone(d)]
    /\ IF d \notin queued /\ ~NeedDone(d)
       THEN Enqueue(d, None) /\ TriggerRunQueue
       ELSE UNCHANGED <<queued, item, recordVars, pending>>
    /\ UNCHANGED <<completed, started, notifying, worker, clientVars>>

NextCommand == pass' = [pass EXCEPT !.pc = "scan", !.cmd = None, !.ready = FALSE]

\* All needs were done: the item is marked running and a goroutine starts.
Launch(w) ==
    /\ pass.pc = "deps"
    /\ pass.deps = {}
    /\ pass.ready
    /\ pass.cmd \in queued
    /\ worker[w].pc = "idle"
    /\ item' = [item EXCEPT ![pass.cmd] = AsRunning(@)]
    /\ worker' = [worker EXCEPT ![w] =
                    [pc |-> "run", cmd |-> pass.cmd, chan |-> item[pass.cmd].chan,
                     left |-> ProceduresOf[pass.cmd], ok |-> FALSE]]
    /\ NextCommand
    /\ UNCHANGED <<queued, completed, recordVars, started, pending, notifying, clientVars>>

\* A need was not done, or the item has gone from the queue.
SkipCommand ==
    /\ pass.pc = "deps"
    /\ pass.deps = {}
    /\ ~pass.ready \/ pass.cmd \notin queued
    /\ NextCommand
    /\ UNCHANGED <<queueVars, recordVars, started, pending, notifying, worker, clientVars>>

\* Mutant: a pass that ends notifies nobody.
EndPass_NoNotify ==
    /\ pass.pc = "scan"
    /\ pass.todo = {}
    /\ pass' = NoPass
    /\ UNCHANGED <<queueVars, recordVars, started, pending, notifying, worker, clientVars>>

\* runMu is released; notify is still to come.
EndPass ==
    /\ pass.pc = "scan"
    /\ pass.todo = {}
    /\ notifying < MaxPasses
    /\ pass' = NoPass
    /\ notifying' = notifying + 1
    /\ UNCHANGED <<queueVars, recordVars, started, pending, worker, clientVars>>

\* notify sends the list of active commands to every registered notifier.
\* Only an empty list ends a wait, so only empty lists are kept.
Notify ==
    /\ notifying > 0
    /\ notifying' = notifying - 1
    /\ woken' = IF QueueEmpty THEN woken \cup {r \in Requests : req[r].pc = "empty"}
                              ELSE woken
    /\ UNCHANGED <<queueVars, recordVars, started, pending, pass, worker, req, doneChan>>
-----------------------------------------------------------------------------
(* The goroutine of one item                                               *)

\* The backend reports a procedure as running; procedures run one by one.
ReportRunning(w, p) ==
    /\ worker[w].pc = "run"
    /\ p \in worker[w].left
    /\ \A q \in worker[w].left : record.procs[q] # "running"
    /\ Persist([record.procs EXCEPT ![p] = "running"])
    /\ UNCHANGED <<queueVars, started, passVars, worker, clientVars>>

\* The backend is through with a procedure.  A persistent one stays
\* running, unless it only sends a signal.
ReportFinished(w, p) ==
    /\ worker[w].pc = "run"
    /\ p \in worker[w].left
    /\ record.procs[p] = "running"
    /\ \E s \in IF Mode[worker[w].cmd] = "persistent" THEN {"running", "done"} ELSE {"done"} :
          Persist([record.procs EXCEPT ![p] = s])
    /\ worker' = [worker EXCEPT ![w].left = @ \ {p}]
    /\ UNCHANGED <<queueVars, started, passVars, clientVars>>

\* runCommand fails and marks all procedures of the command.  In restart
\* mode the failure is retried unless it is not retryable.
Fail(w) ==
    /\ worker[w].pc = "run"
    /\ worker[w].cmd \in MayFail
    /\ worker[w].left # {}
    /\ Persist(WithCommandStatus(worker[w].cmd, "error"))
    /\ \E pc \in {"failed"} \cup (IF Mode[worker[w].cmd] = "restart" THEN {"retry"} ELSE {}) :
          worker' = [worker EXCEPT ![w].pc = pc]
    /\ UNCHANGED <<queueVars, started, passVars, clientVars>>

\* setQueueError marks whatever item the queue now has for the command.
SettleError(w) ==
    LET c == worker[w].cmd IN
    /\ worker[w].pc = "failed"
    /\ item' = IF c \in queued THEN [item EXCEPT ![c] = AsError(@)] ELSE item
    /\ Persist(WithCommandStatus(c, "error"))
    /\ worker' = [worker EXCEPT ![w].pc = "exit"]
    /\ UNCHANGED <<queued, completed, started, passVars, clientVars>>

Succeeded(w) == worker[w].pc = "run" /\ worker[w].left = {}

\* A finite command is done.
SettleDone(w) ==
    LET c == worker[w].cmd IN
    /\ Succeeded(w)
    /\ Mode[c] \in {"always", "once"}
    /\ IF c \in queued
       THEN /\ item' = [item EXCEPT ![c] = AsDone(@)]
            /\ Persist(WithCommandStatus(c, "done"))
       ELSE UNCHANGED <<item, recordVars>>
    /\ completed' = completed \cup {c}
    /\ worker' = [worker EXCEPT ![w].pc = "exit", ![w].ok = TRUE]
    /\ UNCHANGED <<queued, started, passVars, clientVars>>

\* A persistent command keeps running without its goroutine: the item
\* stays in flight.
SettlePersistent(w) ==
    /\ Succeeded(w)
    /\ Mode[worker[w].cmd] = "persistent"
    /\ worker' = [worker EXCEPT ![w].pc = "exit", ![w].ok = TRUE]
    /\ UNCHANGED <<queueVars, recordVars, started, passVars, clientVars>>

\* A restart command waits again, then its goroutine sleeps for the backoff.
SettleRestart(w) ==
    LET c == worker[w].cmd IN
    /\ Succeeded(w) \/ worker[w].pc = "retry"
    /\ Mode[c] = "restart"
    /\ IF c \in queued
       THEN /\ item' = [item EXCEPT ![c] = AsWaiting(@)]
            /\ Persist(WithCommandStatus(c, "waiting"))
       ELSE UNCHANGED <<item, recordVars>>
    /\ worker' = [worker EXCEPT ![w].pc = "backoff", ![w].ok = worker[w].pc = "run"]
    /\ UNCHANGED <<queued, completed, started, passVars, clientVars>>

EndBackoff(w) ==
    /\ worker[w].pc = "backoff"
    /\ worker' = [worker EXCEPT ![w].pc = "exit"]
    /\ UNCHANGED <<queueVars, recordVars, started, passVars, clientVars>>

\* close(i.doneChan): closing it a second time panics.
CloseDoneChan(r, ok) ==
    IF doneChan[r] = "open" THEN (IF ok THEN "ok" ELSE "failed") ELSE "panic"

\* Mutant: a goroutine that ends triggers no pass.
Exit_NoTrigger(w) ==
    /\ worker[w].pc = "exit"
    /\ doneChan' = IF worker[w].chan = None THEN doneChan
                   ELSE [doneChan EXCEPT ![worker[w].chan] =
                           CloseDoneChan(worker[w].chan, worker[w].ok)]
    /\ worker' = [worker EXCEPT ![w] = IdleWorker]
    /\ UNCHANGED <<queueVars, recordVars, started, passVars, req, woken>>

\* The deferred function: close the channel of the item, trigger a pass.
Exit(w) ==
    /\ worker[w].pc = "exit"
    /\ doneChan' = IF worker[w].chan = None THEN doneChan
                   ELSE [doneChan EXCEPT ![worker[w].chan] =
                           CloseDoneChan(worker[w].chan, worker[w].ok)]
    /\ TriggerRunQueue
    /\ worker' = [worker EXCEPT ![w] = IdleWorker]
    /\ UNCHANGED <<queueVars, recordVars, started, pass, notifying, req, woken>>
-----------------------------------------------------------------------------
(* Initially the session has just been created.  Its record is that of a   *)
(* new scroll or the one StopRuntime leaves: only run-once commands that    *)
(* are done have procedure statuses.                                        *)
Init ==
    /\ completed \in SUBSET {c \in Commands : Mode[c] = "once" /\ ProceduresOf[c] # {}}
    /\ record = RecordOf([p \in Procedures |-> IF CommandOf[p] \in completed
                                               THEN "done" ELSE "unset"])
    /\ stored = record
    /\ queued = {}
    /\ item = [c \in Commands |-> Blank]
    /\ started = FALSE
    /\ pending = 0
    /\ pass = NoPass
    /\ notifying = 0
    /\ worker = [w \in Workers |-> IdleWorker]
    /\ req = [r \in Requests |-> NoCall]
    /\ doneChan = [r \in Requests |-> "none"]
    /\ woken = {}

Client(r) ==
    \/ AddQueueItem(r) \/ Trigger(r) \/ StartRunQueue(r) \/ Await(r) \/ ReadResult(r)
    \/ RegisterNotifier(r) \/ ReceiveEmpty(r) \/ CancelWait(r)

RunQueue ==
    \/ StartPass
    \/ \E c \in Commands : PickCommand(c) \/ CheckNeed(c)
    \/ \E w \in Workers : Launch(w)
    \/ SkipCommand
    \/ EndPass
    \/ Notify

Goroutine(w) ==
    \/ \E p \in Procedures : ReportRunning(w, p) \/ ReportFinished(w, p)
    \/ Fail(w) \/ SettleError(w)
    \/ SettleDone(w) \/ SettlePersistent(w) \/ SettleRestart(w)
    \/ EndBackoff(w) \/ Exit(w)

\* A panic in a goroutine ends the daemon.
Alive == \A r \in Requests : doneChan[r] # "panic"

Next ==
    /\ Alive
    /\ \/ \E r \in Requests : Client(r)
       \/ Start
       \/ RunQueue
       \/ \E w \in Workers : Goroutine(w)

Spec == Init /\ [][Next]_vars
-----------------------------------------------------------------------------
(* Properties                                                              *)

TypeOK ==
    /\ queued \subseteq Commands
    /\ item \in [Commands -> Item]
    /\ record \in Record
    /\ stored \in Record
    /\ started \in BOOLEAN
    /\ pending \in Nat
    /\ pass \in PassState
    /\ notifying \in Nat
    /\ worker \in [Workers -> WorkerState]
    /\ req \in [Requests -> RequestState]
    /\ doneChan \in [Requests -> {"none", "open", "ok", "failed", "panic"}]
    /\ woken \subseteq Requests
    /\ completed \subseteq Commands

\* Single flight: no two goroutines run the same command at the same time.
\* The check against ErrAlreadyInQueue, the snapshot of RunQueue and runMu
\* together have to guarantee it; no single one of them does.
SingleFlight ==
    \A v, w \in Workers : Busy(v) /\ Busy(w) /\ worker[v].cmd = worker[w].cmd => v = w

\* A command the queue could start now: it waits and all its needs are done.
Runnable(c) ==
    c \in queued /\ ScheduledStatus(c) = "waiting" /\ \A d \in Needs[c] : NeedDone(d)

\* No lost wakeup: when a command could start, the pass that starts it is
\* under way: the current pass still has to look at it or looks at it with
\* all needs done so far, another pass is pending, or someone is on its
\* way to triggerRunQueue.  (Triggers are sent after the locks are
\* released, and a pass decides on a snapshot.)
NoLostWakeup ==
    started => \A c \in Commands : Runnable(c) =>
        \/ pending > 0
        \/ c \in pass.todo
        \/ pass.cmd = c /\ pass.ready
        \/ \E r \in Requests : req[r].pc \in {"trigger", "start"}
        \/ \E w \in Workers : worker[w].pc \in {"backoff", "exit"}

\* Every caller that still waits on its doneChan will be released: its
\* channel is held by an item that waits to run or by a live goroutine.
\* Replacing or restarting an item must never drop the channel.
WaiterHeld ==
    \A r \in Requests : doneChan[r] = "open" =>
        \/ \E c \in queued : item[c].chan = r /\ item[c].runRequested
        \/ \E w \in Workers : worker[w].pc # "idle" /\ worker[w].chan = r

\* A doneChan is closed at most once: the second close would panic and end
\* the daemon.  RunAndWait accepts commands of every run mode.
ClosedOnce == \A r \in Requests : doneChan[r] # "panic"

\* A command runs only after each of its needs was done at some time (in
\* this session or, for run-once commands, in an earlier one).
NeedsCompleted == \A w \in Workers : Busy(w) => Needs[worker[w].cmd] \subseteq completed

\* The status an item has by its flags alone.
Flag(i) ==
    CASE i.err -> "error"
      [] ~i.err /\ i.inFlight -> "running"
      [] ~i.err /\ ~i.inFlight /\ i.rememberDone -> "done"
      [] OTHER -> "waiting"

StoredStatus(c) == DeriveCommandStatus({stored.procs[p] : p \in ProceduresOf[c]})

\* What the store holds is what the queue decided: once no goroutine works
\* on a command, its stored procedure statuses say the same as its item
\* (a persistent command stays in flight however its procedures end), so a
\* restart of the daemon resumes from what really happened.
StoreMatchesQueue ==
    \A c \in queued : ProceduresOf[c] # {} /\ (\A w \in Workers : Busy(w) => worker[w].cmd # c) =>
        \/ StoredStatus(c) = Flag(item[c])
        \/ /\ Mode[c] = "persistent"
           /\ item[c].inFlight
           /\ StoredStatus(c) = "done"
-----------------------------------------------------------------------------
(* Liveness                                                                *)

\* Every goroutine keeps running: the Go scheduler is fair and the mutexes
\* do not starve a waiter, the backend ends every procedure, and a client
\* whose call has begun goes on with it.  Nobody has to make a call.
Fairness ==
    /\ WF_vars(Alive /\ Start)
    /\ WF_vars(Alive /\ RunQueue)
    /\ WF_vars(Alive /\ Notify)
    /\ \A r \in Requests :
          WF_vars(Alive /\ (Trigger(r) \/ StartRunQueue(r) \/ Await(r) \/ ReadResult(r) \/ ReceiveEmpty(r)))
    /\ \A w \in Workers : WF_vars(Alive /\ Goroutine(w))

FairSpec == Spec /\ Fairness

\* A command that waits for something that will not happen: a need that
\* failed, or one whose mode never lets its item be done.
Stuck(c) == \E d \in Needs[c] : ScheduledStatus(d) = "error" \/ Mode[d] \in {"restart", "persistent"}

\* A caller of a finite command returns once the needs and the command have
\* been run, however other calls, restarts and failures interleave.
WaiterReleased ==
    \A r \in Requests :
        req[r].pc \in {"trigger", "start", "await", "read"} ~>
            req[r].pc = "done" \/ (\E c \in Commands : req[r].cmd = c /\ Stuck(c))
=============================================================================
