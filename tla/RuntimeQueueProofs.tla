-------------------------- MODULE RuntimeQueueProofs --------------------------
(***************************************************************************)
(* Safety of the command queue for every scroll file, every set of calls   *)
(* and every number of goroutines: nothing runs twice at a time; the queue *)
(* forgets nobody, neither a command that could start nor a caller that    *)
(* waits; needs come before the commands that need them; the store says    *)
(* what the queue does; and no channel is closed twice.                    *)
(***************************************************************************)
EXTENDS RuntimeQueue, TLAPS

USE DEF RunModes, CallKinds
-----------------------------------------------------------------------------
(* Types                                                                   *)

\* The derivation of a command's status is total.
LEMMA CommandStatusType ==
    ASSUME NEW seen
    PROVE  DeriveCommandStatus(seen) \in CommandStatuses
BY DEF DeriveCommandStatus, CommandStatuses

\* The derivation of a scroll's status is total on command statuses.
LEMMA ScrollStatusType ==
    ASSUME NEW statuses \in SUBSET CommandStatuses
    PROVE  DeriveScrollStatus(statuses) \in ScrollStatuses
<1> DEFINE derived == statuses \ {"none"}
<1>1. derived \subseteq {"waiting", "running", "done", "error"}
  BY DEF CommandStatuses
<1>2. CASE derived = {} \/ "error" \in derived \/ "running" \in derived \/ "waiting" \in derived
  BY <1>2 DEF DeriveScrollStatus, ScrollStatuses
<1>3. CASE derived # {} /\ derived \cap {"error", "running", "waiting"} = {}
  <2>1. derived = {"done"}
    BY <1>1, <1>3
  <2> QED
    BY <2>1 DEF DeriveScrollStatus, ScrollStatuses
<1> QED
  BY <1>2, <1>3

\* A record made from procedure statuses is well formed.
LEMMA RecordType ==
    ASSUME NEW procs \in [Procedures -> ProcedureStatuses]
    PROVE  RecordOf(procs) \in Record /\ RecordOf(procs).procs = procs
<1>1. {DeriveCommandStatus({procs[p] : p \in ProceduresOf[c]}) : c \in Commands}
         \subseteq CommandStatuses
  BY CommandStatusType
<1>2. DeriveScrollStatus({DeriveCommandStatus({procs[p] : p \in ProceduresOf[c]}) :
                            c \in Commands}) \in ScrollStatuses
  BY <1>1, ScrollStatusType
<1> QED
  BY <1>2 DEF RecordOf, Record

LEMMA CommandStatusesType ==
    ASSUME TypeOK, NEW c, NEW s \in ProcedureStatuses
    PROVE  WithCommandStatus(c, s) \in [Procedures -> ProcedureStatuses]
BY DEF TypeOK, Record, WithCommandStatus

\* Persisting well-formed statuses keeps memory and store well formed.
LEMMA PersistType ==
    ASSUME NEW procs \in [Procedures -> ProcedureStatuses], Persist(procs)
    PROVE  record' \in Record /\ stored' \in Record /\ record'.procs = procs
BY RecordType DEF Persist

\* The changes of an item's flags stay within its type.
LEMMA ItemType ==
    /\ Blank \in Item
    /\ \A r \in Requests \cup {None} : [Blank EXCEPT !.chan = r] \in Item
    /\ \A i \in Item : /\ AsWaiting(i) \in Item
                       /\ AsRunning(i) \in Item
                       /\ AsDone(i) \in Item
                       /\ AsError(i) \in Item
BY DEF Item, Blank, AsWaiting, AsRunning, AsDone, AsError

\* A new item replaces the old one, whatever it was.
LEMMA EnqueueType ==
    ASSUME TypeOK, NEW c \in Commands, NEW chan \in Requests \cup {None}, Enqueue(c, chan)
    PROVE  /\ queued' \subseteq Commands
           /\ item' \in [Commands -> Item]
           /\ record' \in Record /\ stored' \in Record
<1>1. AsWaiting([Blank EXCEPT !.chan = chan]) \in Item
  BY ItemType
<1>2. WithCommandStatus(c, "waiting") \in [Procedures -> ProcedureStatuses]
  BY CommandStatusesType DEF ProcedureStatuses
<1>3. record' \in Record /\ stored' \in Record
  BY <1>2, PersistType DEF Enqueue
<1> QED
  BY <1>1, <1>3 DEF Enqueue, TypeOK

\* A pass can always be counted.
LEMMA PendingType ==
    ASSUME TypeOK
    PROVE  OneMorePass \in Nat \ {0}
BY ClientsAssumption DEF TypeOK, OneMorePass

\* What a client does keeps the types.
LEMMA ClientType ==
    ASSUME TypeOK, NEW r \in Requests, Client(r)
    PROVE  TypeOK'
<1> USE DEF queueVars, recordVars, passVars, clientVars
<1>1. CASE AddQueueItem(r)
  <2>1. PICK c \in Commands, kind \in CallKinds : Accept(r, c, kind) \/ Refuse(r, c, kind)
    BY <1>1 DEF AddQueueItem
  <2>2. UNCHANGED <<completed, started, passVars, worker, woken>>
    BY <1>1 DEF AddQueueItem
  <2>3. CASE Accept(r, c, kind)
    <3>1. /\ queued' \subseteq Commands
          /\ item' \in [Commands -> Item]
          /\ record' \in Record /\ stored' \in Record
      BY <2>3, EnqueueType DEF Accept
    <3> QED
      BY <2>2, <2>3, <3>1 DEF TypeOK, Accept, RequestState
  <2>4. CASE Refuse(r, c, kind)
    BY <2>2, <2>4 DEF TypeOK, Refuse, RequestState
  <2> QED
    BY <2>1, <2>3, <2>4
<1>2. CASE Trigger(r) \/ StartRunQueue(r)
  <2>1. req' \in [Requests -> RequestState]
    BY <1>2 DEF TypeOK, Trigger, StartRunQueue, WaitOrReturn, Finish, RequestState
  <2>2. pending' \in Nat
    BY <1>2, PendingType DEF TypeOK, Trigger, StartRunQueue
  <2> QED
    BY <1>2, <2>1, <2>2 DEF TypeOK, Trigger, StartRunQueue
<1>3. CASE Await(r) \/ ReadResult(r) \/ ReceiveEmpty(r) \/ CancelWait(r)
  BY <1>3 DEF TypeOK, Await, ReadResult, ReceiveEmpty, CancelWait, RequestState, Finish
<1>4. CASE RegisterNotifier(r)
  BY <1>4 DEF TypeOK, RegisterNotifier, WaitUntilEmpty, RequestState
<1> QED
  BY <1>1, <1>2, <1>3, <1>4 DEF Client

\* What a pass does keeps the types.
LEMMA RunQueueType ==
    ASSUME TypeOK, RunQueue
    PROVE  TypeOK'
<1> USE DEF queueVars, recordVars, passVars, clientVars
<1>1. CASE StartPass
  <2>1. {c \in Commands : Eligible(c)} \subseteq Commands
    OBVIOUS
  <2>2. pass' \in PassState
    BY <1>1, <2>1 DEF StartPass, PassState, NoPass
  <2>3. pending' \in Nat
    BY <1>1 DEF TypeOK, StartPass
  <2> QED
    BY <1>1, <2>2, <2>3 DEF TypeOK, StartPass
<1>2. ASSUME NEW c \in Commands, PickCommand(c) PROVE TypeOK'
  BY <1>2, CommandsAssumption DEF TypeOK, PickCommand, PassState
<1>3. ASSUME NEW d \in Commands, CheckNeed(d) PROVE TypeOK'
  <2>1. pass' \in PassState
    BY <1>3 DEF TypeOK, CheckNeed, PassState, NeedDone
  <2>2. /\ queued' \subseteq Commands
        /\ item' \in [Commands -> Item]
        /\ record' \in Record /\ stored' \in Record
        /\ pending' \in Nat
    <3>1. CASE Enqueue(d, None) /\ TriggerRunQueue
      BY <3>1, EnqueueType, PendingType DEF TriggerRunQueue, TypeOK
    <3>2. CASE UNCHANGED <<queued, item, recordVars, pending>>
      BY <3>2 DEF TypeOK
    <3> QED
      BY <1>3, <3>1, <3>2 DEF CheckNeed
  <2> QED
    BY <1>3, <2>1, <2>2 DEF TypeOK, CheckNeed
<1>4. ASSUME NEW w \in Workers, Launch(w) PROVE TypeOK'
  <2>1. pass.cmd \in Commands
    BY <1>4 DEF Launch, TypeOK
  <2>2. AsRunning(item[pass.cmd]) \in Item
    BY <2>1, ItemType DEF TypeOK
  <2>3. item' \in [Commands -> Item]
    BY <1>4, <2>1, <2>2 DEF TypeOK, Launch
  <2>4. worker' \in [Workers -> WorkerState]
    BY <1>4, <2>1 DEF TypeOK, Launch, WorkerState, Item, ProceduresOf
  <2>5. pass' \in PassState
    BY <1>4 DEF TypeOK, Launch, NextCommand, PassState
  <2> QED
    BY <1>4, <2>3, <2>4, <2>5 DEF TypeOK, Launch
<1>5. CASE SkipCommand
  BY <1>5 DEF TypeOK, SkipCommand, NextCommand, PassState
<1>6. CASE EndPass
  BY <1>6 DEF TypeOK, EndPass, PassState, NoPass
<1>7. CASE Notify
  BY <1>7 DEF TypeOK, Notify
<1> QED
  BY <1>1, <1>2, <1>3, <1>4, <1>5, <1>6, <1>7 DEF RunQueue

\* A goroutine always has a command.
HasCommand == \A w \in Workers : worker[w].pc # "idle" => worker[w].cmd \in Commands

\* What a goroutine does keeps the types.
LEMMA GoroutineType ==
    ASSUME TypeOK, HasCommand, NEW w \in Workers, Goroutine(w)
    PROVE  TypeOK'
<1> USE DEF queueVars, recordVars, passVars, clientVars
<1>1. ASSUME NEW p \in Procedures, ReportRunning(w, p) PROVE TypeOK'
  <2>1. [record.procs EXCEPT ![p] = "running"] \in [Procedures -> ProcedureStatuses]
    BY DEF TypeOK, Record, ProcedureStatuses
  <2>2. record' \in Record /\ stored' \in Record
    BY <1>1, <2>1, PersistType DEF ReportRunning
  <2> QED
    BY <1>1, <2>2 DEF TypeOK, ReportRunning
<1>2. ASSUME NEW p \in Procedures, ReportFinished(w, p) PROVE TypeOK'
  <2>1. PICK s \in {"running", "done"} : Persist([record.procs EXCEPT ![p] = s])
    BY <1>2 DEF ReportFinished
  <2>2. [record.procs EXCEPT ![p] = s] \in [Procedures -> ProcedureStatuses]
    BY DEF TypeOK, Record, ProcedureStatuses
  <2>3. record' \in Record /\ stored' \in Record
    BY <2>1, <2>2, PersistType
  <2>4. worker' \in [Workers -> WorkerState]
    BY <1>2 DEF TypeOK, ReportFinished, WorkerState
  <2> QED
    BY <1>2, <2>3, <2>4 DEF TypeOK, ReportFinished
<1>3. ASSUME NEW c, NEW s \in {"waiting", "done", "error"}, Persist(WithCommandStatus(c, s))
      PROVE  record' \in Record /\ stored' \in Record
  <2>1. s \in ProcedureStatuses
    BY DEF ProcedureStatuses
  <2> QED
    BY <1>3, <2>1, CommandStatusesType, PersistType
<1>4. CASE Fail(w)
  <2>1. record' \in Record /\ stored' \in Record
    BY <1>3, <1>4 DEF Fail
  <2>2. worker' \in [Workers -> WorkerState]
    BY <1>4 DEF TypeOK, Fail, WorkerState
  <2> QED
    BY <1>4, <2>1, <2>2 DEF TypeOK, Fail
<1>5. CASE SettleError(w)
  <2>1. record' \in Record /\ stored' \in Record
    BY <1>3, <1>5 DEF SettleError
  <2>2. item' \in [Commands -> Item]
    BY <1>5, ItemType DEF TypeOK, SettleError
  <2>3. worker' \in [Workers -> WorkerState]
    BY <1>5 DEF TypeOK, SettleError, WorkerState
  <2> QED
    BY <1>5, <2>1, <2>2, <2>3 DEF TypeOK, SettleError
<1>6. CASE SettleDone(w)
  <2>1. record' \in Record /\ stored' \in Record
    BY <1>3, <1>6 DEF SettleDone, TypeOK
  <2>2. item' \in [Commands -> Item]
    BY <1>6, ItemType DEF TypeOK, SettleDone
  <2>3. worker' \in [Workers -> WorkerState]
    <3>1. [worker[w] EXCEPT !.pc = "exit", !.ok = TRUE] \in WorkerState
      BY DEF TypeOK, WorkerState
    <3> QED
      BY <1>6, <3>1 DEF TypeOK, SettleDone
  <2>4. completed' \subseteq Commands
    BY <1>6 DEF TypeOK, HasCommand, SettleDone, Succeeded
  <2> QED
    BY <1>6, <2>1, <2>2, <2>3, <2>4 DEF TypeOK, SettleDone
<1>7. CASE SettleRestart(w)
  <2>1. record' \in Record /\ stored' \in Record
    BY <1>3, <1>7 DEF SettleRestart, TypeOK
  <2>2. item' \in [Commands -> Item]
    BY <1>7, ItemType DEF TypeOK, SettleRestart
  <2>3. worker' \in [Workers -> WorkerState]
    <3>1. ASSUME NEW ok \in BOOLEAN
          PROVE  [worker[w] EXCEPT !.pc = "backoff", !.ok = ok] \in WorkerState
      BY DEF TypeOK, WorkerState
    <3>2. (worker[w].pc = "run") \in BOOLEAN
      OBVIOUS
    <3> QED
      BY <1>7, <3>1, <3>2 DEF TypeOK, SettleRestart
  <2> QED
    BY <1>7, <2>1, <2>2, <2>3 DEF TypeOK, SettleRestart
<1>8. CASE SettlePersistent(w) \/ EndBackoff(w)
  <2>1. /\ [worker[w] EXCEPT !.pc = "exit", !.ok = TRUE] \in WorkerState
        /\ [worker[w] EXCEPT !.pc = "exit"] \in WorkerState
    BY DEF TypeOK, WorkerState
  <2>2. worker' \in [Workers -> WorkerState]
    BY <1>8, <2>1 DEF TypeOK, SettlePersistent, EndBackoff
  <2> QED
    BY <1>8, <2>2 DEF TypeOK, SettlePersistent, EndBackoff
<1>9. CASE Exit(w)
  <2>1. worker' \in [Workers -> WorkerState]
    BY <1>9 DEF TypeOK, Exit, WorkerState, IdleWorker
  <2>2. doneChan' \in [Requests -> {"none", "open", "ok", "failed", "panic"}]
    BY <1>9 DEF TypeOK, Exit, WorkerState, CloseDoneChan
  <2>3. pending' \in Nat
    BY <1>9, PendingType DEF TypeOK, Exit, TriggerRunQueue
  <2> QED
    BY <1>9, <2>1, <2>2, <2>3 DEF TypeOK, Exit
<1> QED
  BY <1>1, <1>2, <1>4, <1>5, <1>6, <1>7, <1>8, <1>9 DEF Goroutine

\* The session starts with well-formed state.
LEMMA InitType ==
    ASSUME Init
    PROVE  TypeOK
<1>1. PICK done \in SUBSET Commands :
         record = RecordOf([p \in Procedures |-> IF CommandOf[p] \in done
                                                 THEN "done" ELSE "unset"])
  BY DEF Init
<1>2. record \in Record /\ stored \in Record
  BY <1>1, RecordType DEF Init, ProcedureStatuses
<1>3. item \in [Commands -> Item]
  BY ItemType DEF Init
<1> QED
  BY <1>2, <1>3 DEF Init, TypeOK, NoPass, PassState, IdleWorker, WorkerState,
                    NoCall, RequestState

\* Every step keeps the types.
LEMMA TypeStep ==
    ASSUME TypeOK, HasCommand, [Next]_vars
    PROVE  TypeOK'
<1>1. CASE Start
  BY <1>1, PendingType DEF Start, TypeOK, queueVars, recordVars, clientVars
<1>2. CASE UNCHANGED vars
  BY <1>2 DEF TypeOK, vars, queueVars, recordVars, passVars, clientVars
<1> QED
  BY <1>1, <1>2, ClientType, RunQueueType, GoroutineType DEF Next

\* Only Launch gives a goroutine a command, and it has one to give.
LEMMA HasCommandStep ==
    ASSUME TypeOK, HasCommand, [Next]_vars
    PROVE  HasCommand'
<1> USE DEF queueVars, recordVars, passVars, clientVars
<1>1. ASSUME UNCHANGED worker PROVE HasCommand'
  BY <1>1 DEF HasCommand
<1>2. ASSUME NEW r \in Requests, Client(r) PROVE UNCHANGED worker
  BY <1>2 DEF Client, AddQueueItem, Trigger, StartRunQueue, WaitOrReturn, Await, ReadResult,
              RegisterNotifier, WaitUntilEmpty, ReceiveEmpty, CancelWait
<1>3. ASSUME NEW w \in Workers, Launch(w) PROVE HasCommand'
  BY <1>3 DEF HasCommand, Launch, TypeOK
<1>4. ASSUME RunQueue PROVE UNCHANGED worker \/ \E w \in Workers : Launch(w)
  BY <1>4 DEF RunQueue, StartPass, PickCommand, CheckNeed, SkipCommand, EndPass, Notify
<1>5. ASSUME NEW w \in Workers, Goroutine(w) PROVE HasCommand'
  <2>1. worker[w].pc # "idle"
    BY <1>5 DEF Goroutine, ReportRunning, ReportFinished, Fail, SettleError, SettleDone,
                SettlePersistent, SettleRestart, EndBackoff, Exit, Succeeded
  <2>2. worker'[w].pc = "idle" \/ worker'[w].cmd = worker[w].cmd
    <3>1. CASE \E p \in Procedures : ReportRunning(w, p) \/ ReportFinished(w, p)
      BY <3>1 DEF TypeOK, WorkerState, ReportRunning, ReportFinished
    <3>2. CASE Fail(w) \/ SettleError(w) \/ EndBackoff(w)
      BY <3>2 DEF TypeOK, WorkerState, Fail, SettleError, EndBackoff
    <3>3. CASE SettleDone(w) \/ SettlePersistent(w) \/ SettleRestart(w)
      BY <3>3 DEF TypeOK, WorkerState, SettleDone, SettlePersistent, SettleRestart
    <3>4. CASE Exit(w)
      BY <3>4 DEF TypeOK, Exit, IdleWorker
    <3> QED
      BY <1>5, <3>1, <3>2, <3>3, <3>4 DEF Goroutine
  <2>3. \A v \in Workers \ {w} : worker'[v] = worker[v]
    BY <1>5 DEF TypeOK, Goroutine, ReportRunning, ReportFinished, Fail, SettleError,
                SettleDone, SettlePersistent, SettleRestart, EndBackoff, Exit
  <2> QED
    BY <2>1, <2>2, <2>3 DEF HasCommand
<1>6. CASE \E r \in Requests : Client(r)
  BY <1>1, <1>2, <1>6
<1>7. CASE RunQueue
  BY <1>1, <1>3, <1>4, <1>7
<1>8. CASE Start \/ UNCHANGED vars
  BY <1>1, <1>8 DEF Start, vars
<1> QED
  BY <1>5, <1>6, <1>7, <1>8 DEF Next

\* Every state of the queue is well formed: in particular the derivations
\* of statuses are total and no counter of goroutines becomes negative.
THEOREM TypeCorrect == Spec => []TypeOK
<1>1. Init => TypeOK /\ HasCommand
  <2>1. Init => HasCommand
    BY DEF Init, HasCommand, IdleWorker
  <2> QED
    BY <2>1, InitType
<1>2. TypeOK /\ HasCommand /\ [Next]_vars => TypeOK' /\ HasCommand'
  BY TypeStep, HasCommandStep
<1> QED
  BY <1>1, <1>2, PTL DEF Spec
-----------------------------------------------------------------------------
(* The inductive invariant.  The code has no state machine for an item: its *)
(* status is what four flags and the procedure statuses add up to.  The     *)
(* invariant says which of these combinations occur, that a pass only holds *)
(* items that ask to be run, and that a goroutine owns the item it runs.    *)

\* An item always has a flag set; one that asks to be run has no other; one
\* in flight has no error.
FlagsOK(c) ==
    /\ item[c].runRequested \/ item[c].inFlight \/ item[c].err \/ item[c].rememberDone
    /\ item[c].runRequested => ~item[c].inFlight /\ ~item[c].err /\ ~item[c].rememberDone
    /\ item[c].inFlight => ~item[c].err
    /\ item[c].rememberDone => Mode[c] # "restart"

FlagItems == \A c \in queued : FlagsOK(c)

\* The procedures of an item that asks to be run wait.
WaitsOK(c) == item[c].runRequested => \A p \in ProceduresOf[c] : record.procs[p] = "waiting"

ItemOK(c) == FlagsOK(c) /\ WaitsOK(c)

ItemInv == \A c \in queued : ItemOK(c)

\* The items of a pass ask to be run until the pass launches them.
PassInv ==
    /\ pass.pc # "deps" => pass.cmd = None
    /\ pass.pc = "deps" => /\ pass.cmd \in Commands \ pass.todo
                           /\ pass.deps \subseteq Needs[pass.cmd]
    /\ \A c \in pass.todo : c \in queued /\ item[c].runRequested
    /\ pass.cmd # None => pass.cmd \in queued /\ item[pass.cmd].runRequested

\* A goroutine that works has its item in flight, with the item's channel.
WorkerInv ==
    \A w \in Workers : Busy(w) =>
        /\ worker[w].cmd \in queued
        /\ item[worker[w].cmd].inFlight
        /\ item[worker[w].cmd].chan = worker[w].chan
        /\ worker[w].left \subseteq ProceduresOf[worker[w].cmd]

\* What the flags alone guarantee, and what the queue does: what a crash
\* leaves in the store need not wait when it is queued again, but the flags
\* of its items are as ever.
FlagInv == TypeOK /\ HasCommand /\ FlagItems /\ PassInv /\ WorkerInv /\ SingleFlight

QueueInv == TypeOK /\ HasCommand /\ ItemInv /\ PassInv /\ WorkerInv /\ SingleFlight

LEMMA QueueFlags ==
    /\ QueueInv => FlagInv
    /\ FlagInv /\ (\A c \in queued : WaitsOK(c)) => QueueInv
BY DEF QueueInv, FlagInv, ItemInv, ItemOK, FlagItems

\* An item that asks to be run shows as waiting.
LEMMA RequestedWaits ==
    ASSUME QueueInv, NEW c \in queued, item[c].runRequested
    PROVE  ScheduledStatus(c) = "waiting"
<1>1. {record.procs[p] : p \in ProceduresOf[c]} \subseteq {"waiting"}
  BY DEF QueueInv, ItemInv, ItemOK, WaitsOK, FlagsOK
<1>2. DerivedStatus(c) \in {"none", "waiting"}
  BY <1>1 DEF DerivedStatus, DeriveCommandStatus
<1>3. ~item[c].inFlight /\ ~item[c].err /\ ~item[c].rememberDone
  BY DEF QueueInv, ItemInv, ItemOK, WaitsOK, FlagsOK
<1> QED
  BY <1>2, <1>3 DEF ScheduledStatus

\* An item in flight shows as running, whatever its procedures say.
LEMMA InFlightRuns ==
    ASSUME FlagInv, NEW c \in queued, item[c].inFlight
    PROVE  ScheduledStatus(c) = "running"
BY DEF FlagInv, FlagItems, FlagsOK, ScheduledStatus

\* A new item never replaces one that asks to be run or is in flight.
LEMMA Replaceable ==
    ASSUME QueueInv, NEW c \in queued, ~AlreadyQueued(c)
    PROVE  ~item[c].runRequested /\ ~item[c].inFlight
BY RequestedWaits, InFlightRuns, QueueFlags DEF AlreadyQueued

\* A pass only takes up items that ask to be run.
LEMMA EligibleRequested ==
    ASSUME FlagInv, NEW c \in Commands, Eligible(c)
    PROVE  c \in queued /\ item[c].runRequested
<1>1. c \in queued
  BY DEF Eligible
<1>2. CASE item[c].inFlight
  BY <1>1, <1>2, InFlightRuns DEF Eligible
<1>3. CASE item[c].err
  BY <1>1, <1>3 DEF Eligible, ScheduledStatus, FlagInv, FlagItems, FlagsOK
<1>4. CASE ~item[c].inFlight /\ ~item[c].err /\ item[c].rememberDone
  <2>1. ScheduledStatus(c) = "done"
    BY <1>1, <1>4 DEF ScheduledStatus
  <2> QED
    BY <1>1, <1>4, <2>1 DEF Eligible, FlagInv, FlagItems, FlagsOK
<1> QED
  BY <1>1, <1>2, <1>3, <1>4 DEF FlagInv, FlagItems, FlagsOK

\* A step that only touches the item of command c keeps the flags of all if it
\* keeps those of c.
LEMMA FlagFrame ==
    ASSUME FlagInv, NEW c \in Commands,
           queued' \subseteq queued \cup {c},
           \A d \in queued \ {c} : item'[d] = item[d],
           c \in queued' => FlagsOK(c)'
    PROVE  FlagItems'
BY DEF FlagInv, FlagItems, FlagsOK

\* A step that only touches the item and the procedures of command c: the same
\* for the procedures of what asks to be run.
LEMMA WaitsFrame ==
    ASSUME QueueInv, NEW c \in Commands,
           queued' \subseteq queued \cup {c},
           \A d \in queued \ {c} : item'[d] = item[d],
           \A p \in Procedures : CommandOf[p] # c => record'.procs[p] = record.procs[p],
           c \in queued' => WaitsOK(c)'
    PROVE  \A d \in queued' : WaitsOK(d)'
<1>1. ASSUME NEW d \in queued', d # c PROVE WaitsOK(d)'
  <2>1. d \in queued /\ WaitsOK(d)
    BY <1>1 DEF QueueInv, ItemInv, ItemOK
  <2>2. item'[d] = item[d]
    BY <1>1, <2>1
  <2>3. \A p \in ProceduresOf[d] : record'.procs[p] = record.procs[p]
    BY <1>1, <2>1 DEF ProceduresOf, QueueInv, TypeOK
  <2> QED
    BY <2>1, <2>2, <2>3 DEF WaitsOK
<1> QED
  BY <1>1

\* Setting the status of all procedures of c leaves the others alone.
LEMMA StatusFrame ==
    ASSUME TypeOK, NEW c, NEW s \in {"waiting", "done", "error"},
           Persist(WithCommandStatus(c, s))
    PROVE  /\ \A p \in Procedures : CommandOf[p] # c => record'.procs[p] = record.procs[p]
           /\ \A p \in Procedures : CommandOf[p] = c => record'.procs[p] = s
<1>1. record'.procs = WithCommandStatus(c, s)
  BY CommandStatusesType, PersistType DEF ProcedureStatuses
<1> QED
  BY <1>1 DEF WithCommandStatus

\* A new item asks to be run, disturbs no goroutine and no pass.
LEMMA EnqueueFlags ==
    ASSUME FlagInv, NEW c \in Commands, NEW chan \in Requests \cup {None},
           Enqueue(c, chan), UNCHANGED worker
    PROVE  /\ FlagItems' /\ WorkerInv'
           /\ \A d \in queued : item[d].runRequested => d \in queued' /\ item'[d].runRequested
           /\ item'[c].runRequested /\ item'[c].chan = chan
           /\ \A d \in Commands \ {c} : item'[d] = item[d]
           /\ queued' = queued \cup {c}
<1>1. /\ queued' = queued \cup {c}
      /\ item'[c] = AsWaiting([Blank EXCEPT !.chan = chan])
      /\ \A d \in Commands \ {c} : item'[d] = item[d]
  BY DEF Enqueue, FlagInv, TypeOK
<1>2. /\ item'[c].runRequested /\ item'[c].chan = chan
      /\ ~item'[c].inFlight /\ ~item'[c].err /\ ~item'[c].rememberDone
  BY <1>1 DEF AsWaiting, Blank
<1>3. FlagsOK(c)'
  BY <1>2 DEF FlagsOK
<1>4. c \in queued => ~item[c].inFlight
  BY InFlightRuns DEF Enqueue, AlreadyQueued
<1>5. FlagItems'
  <2>1. \A d \in queued \ {c} : item'[d] = item[d]
    BY <1>1 DEF FlagInv, TypeOK
  <2> QED
    BY <1>1, <1>3, <2>1, FlagFrame
<1>6. WorkerInv'
  BY <1>1, <1>4 DEF WorkerInv, FlagInv, HasCommand, Busy
<1>7. \A d \in queued : item[d].runRequested => d \in queued' /\ item'[d].runRequested
  BY <1>1, <1>2 DEF FlagInv, TypeOK
<1> QED
  BY <1>1, <1>2, <1>5, <1>6, <1>7

\* While all that asks to be run waits, it does not even replace such an item.
LEMMA EnqueueInv ==
    ASSUME QueueInv, NEW c \in Commands, NEW chan \in Requests \cup {None},
           Enqueue(c, chan), UNCHANGED worker
    PROVE  /\ ItemInv' /\ WorkerInv'
           /\ \A d \in queued : item[d].runRequested => d \in queued' /\ item'[d] = item[d]
           /\ item'[c].runRequested /\ item'[c].chan = chan
           /\ \A d \in Commands \ {c} : item'[d] = item[d]
           /\ queued' = queued \cup {c}
<1>1. /\ FlagItems' /\ WorkerInv'
      /\ item'[c].runRequested /\ item'[c].chan = chan
      /\ \A d \in Commands \ {c} : item'[d] = item[d]
      /\ queued' = queued \cup {c}
  BY QueueFlags, EnqueueFlags
<1>2. /\ \A p \in Procedures : CommandOf[p] # c => record'.procs[p] = record.procs[p]
      /\ \A p \in Procedures : CommandOf[p] = c => record'.procs[p] = "waiting"
  BY StatusFrame DEF Enqueue, QueueInv
<1>3. WaitsOK(c)'
  BY <1>2 DEF WaitsOK, ProceduresOf
<1>4. c \in queued => ~item[c].runRequested
  BY Replaceable DEF Enqueue
<1>5. \A d \in queued : item[d].runRequested => d \in queued' /\ item'[d] = item[d]
  BY <1>1, <1>4 DEF QueueInv, TypeOK
<1>6. \A d \in queued' : WaitsOK(d)'
  <2>1. \A d \in queued \ {c} : item'[d] = item[d]
    BY <1>1 DEF QueueInv, TypeOK
  <2> QED
    BY <1>1, <1>2, <1>3, <2>1, WaitsFrame
<1>7. ItemInv'
  BY <1>1, <1>6 DEF ItemInv, ItemOK, FlagItems
<1> QED
  BY <1>1, <1>5, <1>7

\* The rest of the invariant is about variables a client does not change.
LEMMA ClientFlags ==
    ASSUME FlagInv, NEW r \in Requests, Client(r)
    PROVE  FlagItems' /\ PassInv' /\ WorkerInv' /\ SingleFlight'
<1> USE DEF queueVars, recordVars, passVars, clientVars
<1>1. UNCHANGED <<pass, worker>>
  BY DEF Client, AddQueueItem, Trigger, StartRunQueue, WaitOrReturn, Await, ReadResult,
         RegisterNotifier, WaitUntilEmpty, ReceiveEmpty, CancelWait
<1>2. CASE UNCHANGED <<queued, item, record>>
  BY <1>1, <1>2 DEF FlagInv, FlagItems, FlagsOK, PassInv, WorkerInv, SingleFlight, Busy
<1>3. ASSUME NEW c \in Commands, NEW kind \in CallKinds, Accept(r, c, kind)
      PROVE  FlagItems' /\ PassInv' /\ WorkerInv' /\ SingleFlight'
  <2>1. PICK chan \in Requests \cup {None} : Enqueue(c, chan)
    BY <1>3 DEF Accept
  <2>2. /\ FlagItems' /\ WorkerInv'
        /\ \A d \in queued : item[d].runRequested => d \in queued' /\ item'[d].runRequested
    BY <1>1, <2>1, EnqueueFlags
  <2>3. PassInv' /\ SingleFlight'
    BY <1>1, <2>2 DEF FlagInv, PassInv, SingleFlight, Busy
  <2> QED
    BY <2>2, <2>3
<1>4. CASE AddQueueItem(r)
  BY <1>2, <1>3, <1>4 DEF AddQueueItem, Refuse
<1> QED
  BY <1>2, <1>4 DEF Client, Trigger, StartRunQueue, WaitOrReturn, Await, ReadResult, RegisterNotifier,
                    WaitUntilEmpty, ReceiveEmpty, CancelWait

\* A pass: needs are added, requested items are launched one by one.
LEMMA RunQueueFlags ==
    ASSUME FlagInv, RunQueue
    PROVE  FlagItems' /\ PassInv' /\ WorkerInv' /\ SingleFlight'
<1> USE DEF queueVars, recordVars, passVars, clientVars
<1>1. ASSUME UNCHANGED <<queued, item, record, worker>>
      PROVE  FlagItems' /\ WorkerInv' /\ SingleFlight'
  BY <1>1 DEF FlagInv, FlagItems, FlagsOK, WorkerInv, SingleFlight, Busy
<1>2. CASE StartPass
  <2>1. \A c \in Commands : Eligible(c) => c \in queued /\ item[c].runRequested
    BY EligibleRequested
  <2>2. /\ pass'.pc = "scan" /\ pass'.cmd = None
        /\ pass'.todo = {c \in Commands : Eligible(c)}
    BY <1>2 DEF StartPass, NoPass
  <2>3. PassInv'
    BY <1>2, <2>1, <2>2 DEF StartPass, PassInv
  <2> QED
    BY <1>1, <1>2, <2>3 DEF StartPass
<1>3. ASSUME NEW c \in Commands, PickCommand(c)
      PROVE  FlagItems' /\ PassInv' /\ WorkerInv' /\ SingleFlight'
  <2>1. /\ pass'.pc = "deps" /\ pass'.cmd = c /\ pass'.todo = pass.todo \ {c}
        /\ pass'.deps = Needs[c] /\ c \in pass.todo
    BY <1>3 DEF PickCommand, FlagInv, TypeOK, PassState
  <2>2. PassInv'
    BY <1>3, <2>1 DEF PickCommand, PassInv, FlagInv
  <2> QED
    BY <1>1, <1>3, <2>2 DEF PickCommand
<1>4. ASSUME NEW d \in Commands, CheckNeed(d)
      PROVE  FlagItems' /\ PassInv' /\ WorkerInv' /\ SingleFlight'
  <2>1. /\ pass.pc = "deps" /\ pass'.pc = "deps" /\ pass'.cmd = pass.cmd
        /\ pass'.todo = pass.todo /\ pass'.deps = pass.deps \ {d}
        /\ UNCHANGED worker
    <3>1. /\ pass.pc = "deps" /\ UNCHANGED worker
          /\ pass' = [pass EXCEPT !.deps = @ \ {d}, !.ready = @ /\ NeedDone(d)]
      BY <1>4 DEF CheckNeed
    <3> QED
      BY <3>1 DEF FlagInv, TypeOK, PassState
  <2>2. FlagItems' /\ WorkerInv' /\ SingleFlight'
        /\ \A c \in queued : item[c].runRequested => c \in queued' /\ item'[c].runRequested
    <3>1. CASE Enqueue(d, None)
      <4>1. FlagItems' /\ WorkerInv'
            /\ \A c \in queued : item[c].runRequested => c \in queued' /\ item'[c].runRequested
        <5>1. None \in Requests \cup {None}
          OBVIOUS
        <5> QED
          BY <2>1, <3>1, <5>1, EnqueueFlags
      <4> QED
        BY <2>1, <4>1 DEF FlagInv, SingleFlight, Busy
    <3>2. CASE UNCHANGED <<queued, item, record>>
      BY <1>1, <2>1, <3>2
    <3> QED
      BY <1>4, <3>1, <3>2 DEF CheckNeed
  <2>3. PassInv'
    BY <2>1, <2>2 DEF FlagInv, PassInv
  <2> QED
    BY <2>2, <2>3
<1>5. ASSUME NEW w \in Workers, Launch(w)
      PROVE  FlagItems' /\ PassInv' /\ WorkerInv' /\ SingleFlight'
  <2>1. PICK c \in Commands : /\ c = pass.cmd /\ c \in queued /\ item[c].runRequested
                              /\ c \notin pass.todo
    BY <1>5, ClientsAssumption DEF Launch, FlagInv, PassInv
  <2>2. /\ ~item[c].inFlight /\ ~item[c].err /\ ~item[c].rememberDone
    BY <2>1 DEF FlagInv, FlagItems, FlagsOK
  <2>3. /\ item'[c] = AsRunning(item[c])
        /\ \A d \in Commands \ {c} : item'[d] = item[d]
        /\ queued' = queued /\ record' = record
    BY <1>5, <2>1 DEF Launch, FlagInv, TypeOK
  <2>4. /\ item'[c].inFlight /\ ~item'[c].runRequested /\ ~item'[c].err
        /\ ~item'[c].rememberDone /\ item'[c].chan = item[c].chan
    BY <2>1, <2>2, <2>3 DEF AsRunning, FlagInv, TypeOK, Item
  <2>5. FlagItems'
    <3>1. FlagsOK(c)'
      BY <2>4 DEF FlagsOK
    <3>2. \A d \in queued \ {c} : item'[d] = item[d]
      BY <2>3 DEF FlagInv, TypeOK
    <3> QED
      BY <2>1, <2>3, <3>1, <3>2, FlagFrame
  <2>6. /\ worker'[w].pc = "run" /\ worker'[w].cmd = c
        /\ worker'[w].chan = item[c].chan /\ worker'[w].left = ProceduresOf[c]
        /\ \A v \in Workers \ {w} : worker'[v] = worker[v]
    BY <1>5, <2>1 DEF Launch, FlagInv, TypeOK
  <2>7. \A v \in Workers : Busy(v) => worker[v].cmd # c /\ worker[v].cmd \in Commands
    BY <2>2 DEF FlagInv, WorkerInv, TypeOK
  <2>8. WorkerInv'
    BY <2>1, <2>3, <2>4, <2>6, <2>7 DEF WorkerInv, Busy, FlagInv
  <2>9. SingleFlight'
    BY <2>6, <2>7 DEF SingleFlight, Busy, FlagInv
  <2>10. /\ pass'.pc = "scan" /\ pass'.cmd = None /\ pass'.todo = pass.todo
    BY <1>5 DEF Launch, NextCommand, FlagInv, TypeOK, PassState
  <2>11. PassInv'
    BY <2>1, <2>3, <2>10 DEF PassInv, FlagInv, TypeOK
  <2> QED
    BY <2>5, <2>8, <2>9, <2>11
<1>6. CASE SkipCommand
  <2>1. /\ pass'.pc = "scan" /\ pass'.cmd = None /\ pass'.todo = pass.todo
    BY <1>6 DEF SkipCommand, NextCommand, FlagInv, TypeOK, PassState
  <2>2. PassInv'
    BY <1>6, <2>1 DEF SkipCommand, PassInv, FlagInv
  <2> QED
    BY <1>1, <1>6, <2>2 DEF SkipCommand
<1>7. CASE EndPass
  <2>1. PassInv'
    BY <1>7 DEF EndPass, PassInv, NoPass
  <2> QED
    BY <1>1, <1>7, <2>1 DEF EndPass
<1>8. CASE Notify
  <2>1. PassInv'
    BY <1>8 DEF Notify, PassInv, FlagInv
  <2> QED
    BY <1>1, <1>8, <2>1 DEF Notify
<1> QED
  BY <1>2, <1>3, <1>4, <1>5, <1>6, <1>7, <1>8 DEF RunQueue

\* A working goroutine touches its own item and procedures only, which no
\* pass holds and no other goroutine works on; when it changes the item it
\* stops working.
LEMMA OwnerFlags ==
    ASSUME FlagInv, NEW w \in Workers, Busy(w),
           NEW c \in Commands, c = worker[w].cmd,
           UNCHANGED <<queued, pass>>,
           \A d \in Commands \ {c} : item'[d] = item[d],
           FlagsOK(c)',
           \A v \in Workers \ {w} : worker'[v] = worker[v],
           Busy(w)' => /\ worker'[w].cmd = c /\ worker'[w].chan = worker[w].chan
                       /\ worker'[w].left \subseteq worker[w].left
                       /\ item'[c] = item[c]
    PROVE  FlagItems' /\ PassInv' /\ WorkerInv' /\ SingleFlight'
<1>1. c \in queued /\ item[c].inFlight /\ ~item[c].runRequested
  BY DEF FlagInv, WorkerInv, FlagItems, FlagsOK
<1>2. FlagItems'
  <2>1. \A d \in queued \ {c} : item'[d] = item[d]
    BY DEF FlagInv, TypeOK
  <2> QED
    BY <1>1, <2>1, FlagFrame
<1>3. PassInv'
  BY <1>1 DEF FlagInv, PassInv, TypeOK
<1>4. \A v \in Workers \ {w} : Busy(v) => worker[v].cmd \in Commands \ {c}
  BY DEF FlagInv, SingleFlight, WorkerInv, TypeOK
<1>5. WorkerInv'
  BY <1>4 DEF FlagInv, WorkerInv, Busy
<1>6. SingleFlight'
  BY <1>4 DEF FlagInv, SingleFlight, Busy
<1> QED
  BY <1>2, <1>3, <1>5, <1>6

\* A goroutine touches its own item and the procedures of its own command, and
\* those only while it works.
LEMMA GoroutineOwn ==
    ASSUME TypeOK, HasCommand, WorkerInv, NEW w \in Workers, Goroutine(w)
    PROVE  /\ UNCHANGED <<queued, pass, started>>
           /\ \A d \in Commands \ {worker[w].cmd} : item'[d] = item[d]
           /\ \A p \in Procedures : CommandOf[p] # worker[w].cmd => record'.procs[p] = record.procs[p]
           /\ Busy(w) \/ UNCHANGED <<item, record, stored>>
           /\ \A v \in Workers \ {w} : worker'[v] = worker[v]
<1> USE DEF queueVars, recordVars, passVars, clientVars
<1>1. /\ UNCHANGED <<queued, pass, started>>
      /\ \A v \in Workers \ {w} : worker'[v] = worker[v]
  BY DEF Goroutine, ReportRunning, ReportFinished, Fail, SettleError, SettleDone, SettlePersistent,
         SettleRestart, EndBackoff, Exit, TypeOK
<1>2. ASSUME NEW p \in Procedures, ReportRunning(w, p) \/ ReportFinished(w, p)
      PROVE  /\ UNCHANGED item /\ Busy(w) /\ CommandOf[p] = worker[w].cmd
             /\ \A q \in Procedures \ {p} : record'.procs[q] = record.procs[q]
  <2>1. Busy(w) /\ p \in worker[w].left /\ UNCHANGED item
    BY <1>2 DEF ReportRunning, ReportFinished, Busy
  <2>2. CommandOf[p] = worker[w].cmd
    BY <2>1 DEF WorkerInv, TypeOK, ProceduresOf
  <2>3. PICK s \in {"running", "done"} : Persist([record.procs EXCEPT ![p] = s])
    BY <1>2 DEF ReportRunning, ReportFinished
  <2>4. record'.procs = [record.procs EXCEPT ![p] = s]
    <3>1. [record.procs EXCEPT ![p] = s] \in [Procedures -> ProcedureStatuses]
      BY DEF TypeOK, Record, ProcedureStatuses
    <3> QED
      BY <2>3, <3>1, PersistType
  <2>5. \A q \in Procedures \ {p} : record'.procs[q] = record.procs[q]
    BY <2>4 DEF TypeOK, Record
  <2> QED
    BY <2>1, <2>2, <2>5
<1>3. CASE \E p \in Procedures : ReportRunning(w, p) \/ ReportFinished(w, p)
  BY <1>1, <1>2, <1>3
<1>4. CASE SettlePersistent(w) \/ EndBackoff(w) \/ Exit(w)
  BY <1>1, <1>4 DEF SettlePersistent, EndBackoff, Exit
<1>5. CASE Fail(w) \/ SettleError(w) \/ SettleDone(w) \/ SettleRestart(w)
  <2>1. Busy(w) /\ \A d \in Commands \ {worker[w].cmd} : item'[d] = item[d]
    BY <1>5 DEF Fail, SettleError, SettleDone, SettleRestart, Succeeded, Busy, TypeOK
  <2>2. \/ UNCHANGED record
        \/ \E s \in {"waiting", "done", "error"} : Persist(WithCommandStatus(worker[w].cmd, s))
    BY <1>5 DEF Fail, SettleError, SettleDone, SettleRestart
  <2>3. \A p \in Procedures : CommandOf[p] # worker[w].cmd => record'.procs[p] = record.procs[p]
    BY <2>2, StatusFrame
  <2> QED
    BY <1>1, <2>1, <2>3
<1> QED
  BY <1>3, <1>4, <1>5 DEF Goroutine

\* What it does to its item and to itself.
LEMMA GoroutineItem ==
    ASSUME FlagInv, NEW w \in Workers, Goroutine(w), Busy(w), NEW c \in Commands, c = worker[w].cmd
    PROVE  \/ /\ Busy(w)' /\ worker'[w].cmd = c /\ worker'[w].chan = worker[w].chan
              /\ worker'[w].left \subseteq worker[w].left
              /\ item'[c] = item[c]
           \/ /\ ~Busy(w)'
              /\ \/ SettlePersistent(w) /\ item'[c] = item[c]
                 \/ SettleError(w) /\ item'[c] = AsError(item[c])
                 \/ SettleDone(w) /\ item'[c] = AsDone(item[c])
                 \/ SettleRestart(w) /\ item'[c] = AsWaiting(item[c])
<1> USE DEF queueVars, recordVars, passVars, clientVars
<1>1. TypeOK /\ c \in queued
  BY DEF FlagInv, WorkerInv
<1>2. ASSUME NEW p \in Procedures, ReportRunning(w, p)
      PROVE  UNCHANGED <<worker, item>>
  BY <1>2 DEF ReportRunning
<1>3. ASSUME NEW p \in Procedures, ReportFinished(w, p)
      PROVE  /\ worker'[w].pc = worker[w].pc /\ worker'[w].cmd = c /\ worker'[w].chan = worker[w].chan
             /\ worker'[w].left \subseteq worker[w].left
             /\ UNCHANGED item
  BY <1>1, <1>3 DEF ReportFinished, TypeOK, WorkerState
<1>4. CASE Fail(w)
  <2>1. PICK pc \in {"failed", "retry"} : worker' = [worker EXCEPT ![w].pc = pc]
    BY <1>4 DEF Fail
  <2>2. /\ worker'[w].pc = pc /\ worker'[w].cmd = c /\ worker'[w].chan = worker[w].chan
        /\ worker'[w].left = worker[w].left
    BY <1>1, <2>1 DEF TypeOK, WorkerState
  <2> QED
    BY <1>4, <2>2 DEF Fail, Busy
<1>5. CASE SettlePersistent(w)
  BY <1>1, <1>5 DEF SettlePersistent, Busy, TypeOK, WorkerState
<1>6. CASE SettleError(w)
  BY <1>1, <1>6 DEF SettleError, Busy, TypeOK, WorkerState
<1>7. CASE SettleDone(w)
  BY <1>1, <1>7 DEF SettleDone, Busy, TypeOK, WorkerState
<1>8. CASE SettleRestart(w)
  BY <1>1, <1>8 DEF SettleRestart, Busy, TypeOK, WorkerState
<1>9. ~EndBackoff(w) /\ ~Exit(w)
  BY DEF EndBackoff, Exit, Busy
<1> QED
  BY <1>2, <1>3, <1>4, <1>5, <1>6, <1>7, <1>8, <1>9 DEF Goroutine, Busy

\* Goroutines keep the flags.
LEMMA GoroutineFlags ==
    ASSUME FlagInv, NEW w \in Workers, Goroutine(w)
    PROVE  FlagItems' /\ PassInv' /\ WorkerInv' /\ SingleFlight'
<1>1. PICK c : c = worker[w].cmd
  OBVIOUS
<1>2. /\ UNCHANGED <<queued, pass>>
      /\ \A d \in Commands \ {c} : item'[d] = item[d]
      /\ Busy(w) \/ UNCHANGED item
      /\ \A v \in Workers \ {w} : worker'[v] = worker[v]
  BY <1>1, GoroutineOwn DEF FlagInv
<1>3. CASE Busy(w)
  <2>1. /\ c \in Commands /\ FlagsOK(c) /\ item[c] \in Item
        /\ item[c].inFlight /\ ~item[c].runRequested /\ ~item[c].err
    BY <1>1, <1>3 DEF FlagInv, WorkerInv, FlagItems, FlagsOK, TypeOK
  <2>2. FlagsOK(c)' /\ (Busy(w)' => /\ worker'[w].cmd = c /\ worker'[w].chan = worker[w].chan
                                    /\ worker'[w].left \subseteq worker[w].left
                                    /\ item'[c] = item[c])
    <3>1. CASE item'[c] = item[c]
      <4>1. FlagsOK(c)'
        BY <2>1, <3>1 DEF FlagsOK
      <4> QED
        BY <1>1, <1>3, <2>1, <3>1, <4>1, GoroutineItem
    <3>2. CASE SettleError(w) /\ item'[c] = AsError(item[c]) /\ ~Busy(w)'
      BY <2>1, <3>2 DEF FlagsOK, AsError, Item
    <3>3. CASE SettleDone(w) /\ item'[c] = AsDone(item[c]) /\ ~Busy(w)'
      <4>1. Mode[c] # "restart"
        BY <1>1, <3>3 DEF SettleDone
      <4> QED
        BY <2>1, <3>3, <4>1 DEF FlagsOK, AsDone, Item
    <3>4. CASE SettleRestart(w) /\ item'[c] = AsWaiting(item[c]) /\ ~Busy(w)'
      BY <2>1, <3>4 DEF FlagsOK, AsWaiting, Item
    <3> QED
      BY <1>1, <1>3, <2>1, <3>1, <3>2, <3>3, <3>4, GoroutineItem
  <2> QED
    BY <1>1, <1>2, <1>3, <2>1, <2>2, OwnerFlags
<1>4. CASE ~Busy(w)
  <2>1. ~Busy(w)'
    <3>1. EndBackoff(w) \/ Exit(w)
      BY <1>4 DEF Goroutine, ReportRunning, ReportFinished, Fail, SettleError, SettleDone, Succeeded,
                  SettlePersistent, SettleRestart, Busy
    <3> QED
      BY <3>1 DEF EndBackoff, Exit, Busy, IdleWorker, FlagInv, TypeOK, WorkerState
  <2> QED
    BY <1>2, <1>4, <2>1 DEF FlagInv, FlagItems, FlagsOK, PassInv, WorkerInv, SingleFlight, Busy
<1> QED
  BY <1>3, <1>4

\* Every step of the queue keeps the flags.
LEMMA FlagStep ==
    ASSUME FlagInv, [Next]_vars
    PROVE  FlagInv'
<1>1. TypeOK' /\ HasCommand'
  BY TypeStep, HasCommandStep DEF FlagInv
<1>2. CASE Start \/ UNCHANGED vars
  <2>1. UNCHANGED <<queued, item, pass, worker>>
    BY <1>2 DEF Start, vars, queueVars, passVars
  <2> QED
    BY <1>1, <2>1 DEF FlagInv, FlagItems, FlagsOK, PassInv, WorkerInv, SingleFlight, Busy
<1>3. ASSUME FlagItems' /\ PassInv' /\ WorkerInv' /\ SingleFlight' PROVE FlagInv'
  BY <1>1, <1>3 DEF FlagInv
<1> QED
  BY <1>2, <1>3, ClientFlags, RunQueueFlags, GoroutineFlags DEF Next

\* What asks to be run has its procedures waiting: it is set so when it is
\* queued, and only a goroutine changes it, that of a command in flight.
LEMMA WaitsStep ==
    ASSUME QueueInv, [Next]_vars
    PROVE  \A c \in queued' : WaitsOK(c)'
<1> USE DEF queueVars, recordVars, passVars, clientVars
<1>1. ASSUME UNCHANGED <<queued, item, record>> PROVE \A c \in queued' : WaitsOK(c)'
  BY <1>1 DEF QueueInv, ItemInv, ItemOK, WaitsOK
<1>2. ASSUME NEW c \in Commands, NEW chan \in Requests \cup {None}, Enqueue(c, chan), UNCHANGED worker
      PROVE  \A d \in queued' : WaitsOK(d)'
  BY <1>2, EnqueueInv DEF ItemInv, ItemOK
<1>3. ASSUME NEW r \in Requests, Client(r) PROVE \A c \in queued' : WaitsOK(c)'
  <2>1. CASE AddQueueItem(r)
    <3>1. PICK c \in Commands, kind \in CallKinds : Accept(r, c, kind) \/ Refuse(r, c, kind)
      BY <2>1 DEF AddQueueItem
    <3>2. CASE Accept(r, c, kind)
      <4>1. PICK chan \in Requests \cup {None} : Enqueue(c, chan)
        BY <3>2 DEF Accept
      <4> QED
        BY <1>2, <2>1, <4>1 DEF AddQueueItem
    <3> QED
      BY <1>1, <3>1, <3>2 DEF Refuse
  <2> QED
    BY <1>1, <1>3, <2>1 DEF Client, Trigger, StartRunQueue, WaitOrReturn, Await, ReadResult,
                            RegisterNotifier, WaitUntilEmpty, ReceiveEmpty, CancelWait
<1>4. CASE RunQueue
  <2>1. ASSUME NEW d \in Commands, CheckNeed(d) PROVE \A c \in queued' : WaitsOK(c)'
    <3>1. None \in Requests \cup {None}
      OBVIOUS
    <3> QED
      BY <1>1, <1>2, <2>1, <3>1 DEF CheckNeed
  <2>2. ASSUME NEW w \in Workers, Launch(w) PROVE \A c \in queued' : WaitsOK(c)'
    <3>1. PICK c \in Commands : c = pass.cmd
      BY <2>2 DEF Launch, QueueInv, TypeOK
    <3>2. UNCHANGED <<queued, record>> /\ item' = [item EXCEPT ![c] = AsRunning(item[c])]
      BY <2>2, <3>1 DEF Launch
    <3>3. ~item'[c].runRequested
      BY <3>1, <3>2 DEF AsRunning, QueueInv, TypeOK, Item
    <3>4. WaitsOK(c)'
      BY <3>3 DEF WaitsOK
    <3>5. \A d \in queued \ {c} : item'[d] = item[d]
      BY <3>2 DEF QueueInv, TypeOK
    <3> QED
      BY <3>1, <3>2, <3>4, <3>5, WaitsFrame
  <2> QED
    BY <1>1, <1>4, <2>1, <2>2 DEF RunQueue, StartPass, PickCommand, SkipCommand, EndPass, Notify
<1>5. ASSUME NEW w \in Workers, Goroutine(w) PROVE \A c \in queued' : WaitsOK(c)'
  <2>1. PICK c : c = worker[w].cmd
    OBVIOUS
  <2>2. /\ UNCHANGED queued
        /\ \A d \in Commands \ {c} : item'[d] = item[d]
        /\ \A p \in Procedures : CommandOf[p] # c => record'.procs[p] = record.procs[p]
        /\ Busy(w) \/ UNCHANGED <<item, record>>
    BY <1>5, <2>1, GoroutineOwn DEF QueueInv
  <2>3. CASE Busy(w)
    <3>1. c \in Commands /\ item[c] \in Item /\ ~item[c].runRequested
      BY <2>1, <2>3 DEF QueueInv, WorkerInv, ItemInv, ItemOK, FlagsOK, TypeOK
    <3>2. item'[c].runRequested => SettleRestart(w) /\ c \in queued
      BY <1>5, <2>1, <2>3, <3>1, QueueFlags, GoroutineItem
         DEF AsError, AsDone, Item, QueueInv, WorkerInv
    <3>3. SettleRestart(w) /\ c \in queued => \A p \in Procedures : CommandOf[p] = c => record'.procs[p] = "waiting"
      BY <2>1, StatusFrame DEF SettleRestart, QueueInv
    <3>4. WaitsOK(c)'
      BY <3>1, <3>2, <3>3 DEF WaitsOK, ProceduresOf
    <3>5. \A d \in queued \ {c} : item'[d] = item[d]
      BY <2>2 DEF QueueInv, TypeOK
    <3> QED
      BY <2>2, <3>1, <3>4, <3>5, WaitsFrame
  <2> QED
    BY <1>1, <2>2, <2>3
<1>6. CASE Start \/ UNCHANGED vars
  BY <1>1, <1>6 DEF Start, vars
<1> QED
  BY <1>3, <1>4, <1>5, <1>6 DEF Next

\* The invariant holds at the start and every step keeps it.
LEMMA QueueInvInductive == (Init => QueueInv) /\ (QueueInv /\ [Next]_vars => QueueInv')
<1>1. Init => QueueInv
  <2>1. Init => HasCommand /\ ItemInv /\ PassInv /\ WorkerInv /\ SingleFlight
    BY DEF Init, HasCommand, IdleWorker, ItemInv, PassInv, NoPass, WorkerInv, SingleFlight, Busy
  <2> QED
    BY <2>1, InitType DEF QueueInv
<1>2. ASSUME QueueInv, [Next]_vars PROVE QueueInv'
  <2>1. FlagInv'
    BY <1>2, QueueFlags, FlagStep
  <2>2. \A c \in queued' : WaitsOK(c)'
    BY <1>2, WaitsStep
  <2> QED
    BY <2>1, <2>2 DEF QueueInv, FlagInv, ItemInv, ItemOK, FlagItems
<1> QED
  BY <1>1, <1>2

\* No two goroutines run the same command at the same time, in every queue.
THEOREM SingleFlightSafe == Spec => []SingleFlight
<1>1. QueueInv => SingleFlight
  BY DEF QueueInv
<1> QED
  BY <1>1, QueueInvInductive, PTL DEF Spec
-----------------------------------------------------------------------------
(* No lost wakeup                                                          *)

\* Somebody will look at c: the right-hand side of NoLostWakeup.
Attended(c) ==
    \/ pending > 0
    \/ c \in pass.todo
    \/ pass.cmd = c /\ pass.ready
    \/ \E r \in Requests : req[r].pc \in {"trigger", "start"}
    \/ \E w \in Workers : worker[w].pc \in {"backoff", "exit"}

\* A trigger of a started session leaves a pass pending.
LEMMA TriggerPends ==
    ASSUME TypeOK, started, TriggerRunQueue
    PROVE  pending' > 0
BY PendingType DEF TriggerRunQueue

\* A step that changes neither the queue nor the record changes no status.
LEMMA StatusUnchanged ==
    ASSUME UNCHANGED <<queued, item, record>>
    PROVE  /\ \A c : ScheduledStatus(c)' = ScheduledStatus(c)
           /\ \A c : Runnable(c)' = Runnable(c)
BY DEF ScheduledStatus, DerivedStatus, Runnable, NeedDone

\* The procedures of a command in flight do not show: reports from the
\* backend change no status in the queue.
LEMMA ReportsHidden ==
    ASSUME FlagInv, NEW c \in queued, item[c].inFlight, UNCHANGED <<queued, item>>,
           \A p \in Procedures : CommandOf[p] # c => record'.procs[p] = record.procs[p]
    PROVE  \A d \in Commands : ScheduledStatus(d)' = ScheduledStatus(d)
<1>1. ~item[c].err /\ c \in Commands
  BY DEF FlagInv, FlagItems, FlagsOK, TypeOK
<1>2. ScheduledStatus(c) = "running" /\ ScheduledStatus(c)' = "running"
  BY <1>1 DEF ScheduledStatus
<1>3. ASSUME NEW d \in Commands, d # c PROVE ScheduledStatus(d)' = ScheduledStatus(d)
  <2>1. \A p \in ProceduresOf[d] : record'.procs[p] = record.procs[p]
    BY <1>3 DEF ProceduresOf
  <2>2. {record'.procs[p] : p \in ProceduresOf[d]} = {record.procs[p] : p \in ProceduresOf[d]}
    BY <2>1
  <2>3. DerivedStatus(d)' = DerivedStatus(d)
    BY <2>2 DEF DerivedStatus
  <2> QED
    BY <2>3 DEF ScheduledStatus
<1> QED
  BY <1>2, <1>3

\* Clients attend to what they queue.
LEMMA ClientAttends ==
    ASSUME FlagInv, NoLostWakeup, NEW r \in Requests, Client(r)
    PROVE  NoLostWakeup'
<1> USE DEF queueVars, recordVars, passVars, clientVars
<1>1. CASE Trigger(r)
  <2>1. CASE started
    <3>1. req' = [req EXCEPT ![r].pc = "start"]
      BY <1>1, <2>1 DEF Trigger
    <3>2. req'[r].pc = "start"
      BY <3>1 DEF FlagInv, TypeOK
    <3> QED
      BY <3>2 DEF NoLostWakeup
  <2>2. CASE ~started
    BY <1>1, <2>2 DEF Trigger, NoLostWakeup
  <2> QED
    BY <2>1, <2>2
<1>6. CASE StartRunQueue(r)
  <2>1. pending' > 0
    BY <1>6, PendingType DEF StartRunQueue, FlagInv
  <2> QED
    BY <2>1 DEF NoLostWakeup
<1>2. ASSUME NEW c \in Commands, NEW kind \in CallKinds, Accept(r, c, kind) PROVE NoLostWakeup'
  <2>1. req'[r].pc = "trigger"
    BY <1>2 DEF Accept, FlagInv, TypeOK
  <2> QED
    BY <2>1 DEF NoLostWakeup
<1>3. ASSUME UNCHANGED <<queued, item, record, started, pending, pass, worker>>,
             \A x \in Requests : req[x].pc \in {"trigger", "start"} => req'[x].pc = req[x].pc
      PROVE  NoLostWakeup'
  BY <1>3, StatusUnchanged DEF NoLostWakeup
<1>4. CASE AddQueueItem(r)
  <2>1. PICK c \in Commands, kind \in CallKinds : Accept(r, c, kind) \/ Refuse(r, c, kind)
    BY <1>4 DEF AddQueueItem
  <2>2. CASE Refuse(r, c, kind)
    BY <1>3, <1>4, <2>2 DEF AddQueueItem, Refuse, FlagInv, TypeOK
  <2> QED
    BY <1>2, <2>1, <2>2
<1>5. CASE Await(r) \/ ReadResult(r) \/ ReceiveEmpty(r) \/ CancelWait(r) \/ RegisterNotifier(r)
  BY <1>3, <1>5 DEF Await, ReadResult, ReceiveEmpty, CancelWait, RegisterNotifier, WaitUntilEmpty, Finish,
                    FlagInv, TypeOK
<1> QED
  BY <1>1, <1>4, <1>5, <1>6 DEF Client

\* A pass looks at what it took up, and lets go of a command only when it
\* runs or has a need that is not done.
LEMMA RunQueueAttends ==
    ASSUME FlagInv, NoLostWakeup, RunQueue
    PROVE  NoLostWakeup'
<1> USE DEF queueVars, recordVars, passVars, clientVars
<1>1. CASE StartPass
  <2>1. \A c \in Commands : Runnable(c) => Eligible(c)
    BY DEF Runnable, Eligible
  <2>2. pass'.todo = {c \in Commands : Eligible(c)}
    BY <1>1 DEF StartPass, NoPass
  <2>3. \A c \in Commands : Runnable(c)' = Runnable(c)
    BY <1>1, StatusUnchanged DEF StartPass
  <2> QED
    BY <2>1, <2>2, <2>3 DEF NoLostWakeup
<1>2. ASSUME NEW d \in Commands, PickCommand(d) PROVE NoLostWakeup'
  <2>1. /\ pass'.cmd = d /\ pass'.ready /\ pass'.todo = pass.todo \ {d} /\ pass.cmd = None
    BY <1>2 DEF PickCommand, FlagInv, TypeOK, PassState, PassInv
  <2>2. \A c \in Commands : Runnable(c)' = Runnable(c)
    BY <1>2, StatusUnchanged DEF PickCommand
  <2> QED
    BY <1>2, <2>1, <2>2, ClientsAssumption DEF PickCommand, NoLostWakeup
<1>3. ASSUME NEW d \in Commands, CheckNeed(d) PROVE NoLostWakeup'
  <2>1. CASE TriggerRunQueue
    BY <1>3, <2>1, TriggerPends DEF CheckNeed, NoLostWakeup, FlagInv
  <2>2. CASE UNCHANGED <<queued, item, recordVars, pending>>
    <3>1. \A c \in Commands : Runnable(c)' = Runnable(c)
      BY <2>2, StatusUnchanged
    <3>2. /\ pass'.cmd = pass.cmd /\ pass'.todo = pass.todo
          /\ pass'.ready = (pass.ready /\ NeedDone(d))
          /\ d \in Needs[pass.cmd]
      BY <1>3 DEF CheckNeed, FlagInv, TypeOK, PassState, PassInv
    <3>3. \A c \in Commands : pass.cmd = c /\ pass.ready /\ Runnable(c) => pass'.cmd = c /\ pass'.ready
      BY <3>2 DEF Runnable
    <3> QED
      BY <1>3, <2>2, <3>1, <3>2, <3>3 DEF CheckNeed, NoLostWakeup
  <2> QED
    BY <1>3, <2>1, <2>2 DEF CheckNeed
<1>4. ASSUME NEW w \in Workers, Launch(w) PROVE NoLostWakeup'
  <2>1. PICK c \in Commands : c = pass.cmd /\ c \in queued /\ item[c].runRequested
    BY <1>4, ClientsAssumption DEF Launch, FlagInv, PassInv
  <2>2. /\ item' = [item EXCEPT ![c] = AsRunning(item[c])]
        /\ queued' = queued /\ record' = record
    BY <1>4, <2>1 DEF Launch
  <2>3. item'[c].inFlight /\ ~item'[c].err
    BY <2>2 DEF AsRunning, FlagInv, TypeOK, Item
  <2>4. ScheduledStatus(c)' = "running"
    BY <2>1, <2>2, <2>3 DEF ScheduledStatus
  <2>5. \A d \in Commands \ {c} : ScheduledStatus(d)' = ScheduledStatus(d)
    BY <2>2 DEF ScheduledStatus, DerivedStatus, FlagInv, TypeOK
  <2>6. \A d \in Commands : Runnable(d)' => d # c /\ Runnable(d)
    <3>1. \A d \in Commands : NeedDone(d)' => NeedDone(d)
      BY <2>4, <2>5 DEF NeedDone
    <3> QED
      BY <2>2, <2>4, <2>5, <3>1, CommandsAssumption DEF Runnable
  <2>7. pass'.todo = pass.todo
    BY <1>4 DEF Launch, NextCommand, FlagInv, TypeOK, PassState
  <2>8. \A v \in Workers : worker[v].pc \in {"backoff", "exit"} => worker'[v] = worker[v]
    BY <1>4 DEF Launch, FlagInv, TypeOK
  <2> QED
    BY <1>4, <2>1, <2>6, <2>7, <2>8 DEF Launch, NoLostWakeup
<1>5. CASE SkipCommand
  <2>1. pass'.todo = pass.todo
    BY <1>5 DEF SkipCommand, NextCommand, FlagInv, TypeOK, PassState
  <2>2. \A c \in Commands : Runnable(c)' = Runnable(c)
    BY <1>5, StatusUnchanged DEF SkipCommand
  <2>3. \A c \in Commands : Runnable(c) => ~(pass.cmd = c /\ pass.ready)
    BY <1>5 DEF SkipCommand, Runnable
  <2> QED
    BY <1>5, <2>1, <2>2, <2>3 DEF SkipCommand, NoLostWakeup
<1>6. CASE EndPass
  <2>1. pass.todo = {} /\ pass.cmd = None
    BY <1>6 DEF EndPass, FlagInv, PassInv
  <2>2. \A c \in Commands : Runnable(c)' = Runnable(c)
    BY <1>6, StatusUnchanged DEF EndPass
  <2> QED
    BY <1>6, <2>1, <2>2, ClientsAssumption DEF EndPass, NoLostWakeup
<1>7. CASE Notify
  BY <1>7, StatusUnchanged DEF Notify, NoLostWakeup
<1> QED
  BY <1>1, <1>2, <1>3, <1>4, <1>5, <1>6, <1>7 DEF RunQueue

\* A goroutine that settles its item still has a trigger to send.
LEMMA GoroutineAttends ==
    ASSUME FlagInv, NoLostWakeup, NEW w \in Workers, Goroutine(w)
    PROVE  NoLostWakeup'
<1> USE DEF queueVars, recordVars, passVars, clientVars
<1>1. CASE SettleError(w) \/ SettleDone(w) \/ SettlePersistent(w) \/ SettleRestart(w) \/ EndBackoff(w)
  <2>1. worker'[w].pc \in {"backoff", "exit"}
    BY <1>1 DEF SettleError, SettleDone, SettlePersistent, SettleRestart, EndBackoff,
                FlagInv, TypeOK, WorkerState
  <2> QED
    BY <2>1 DEF NoLostWakeup
<1>2. CASE Exit(w)
  <2>1. started => pending' > 0
    BY <1>2, TriggerPends DEF Exit, FlagInv
  <2> QED
    BY <1>2, <2>1 DEF Exit, NoLostWakeup
<1>3. CASE Fail(w) \/ \E p \in Procedures : ReportRunning(w, p) \/ ReportFinished(w, p)
  <2>1. Busy(w) /\ UNCHANGED <<queued, item, pass, pending, started, req>>
    BY <1>3 DEF Fail, ReportRunning, ReportFinished, Busy
  <2>2. /\ \A p \in Procedures : CommandOf[p] # worker[w].cmd => record'.procs[p] = record.procs[p]
        /\ \A v \in Workers \ {w} : worker'[v] = worker[v]
    BY GoroutineOwn DEF FlagInv
  <2>3. \A d \in Commands : ScheduledStatus(d)' = ScheduledStatus(d)
    BY <2>1, <2>2, ReportsHidden DEF FlagInv, WorkerInv
  <2>4. \A d \in Commands : Runnable(d)' = Runnable(d)
    BY <2>1, <2>3, CommandsAssumption DEF Runnable, NeedDone
  <2> QED
    BY <2>1, <2>2, <2>4 DEF NoLostWakeup, Busy
<1> QED
  BY <1>1, <1>2, <1>3 DEF Goroutine

\* No step of the queue loses a wakeup.
LEMMA WakeStep ==
    ASSUME FlagInv, NoLostWakeup, [Next]_vars
    PROVE  NoLostWakeup'
<1>1. CASE Start
  BY <1>1, PendingType DEF Start, NoLostWakeup, FlagInv
<1>2. CASE UNCHANGED vars
  BY <1>2, StatusUnchanged
     DEF vars, queueVars, recordVars, passVars, clientVars, NoLostWakeup
<1> QED
  BY <1>1, <1>2, ClientAttends, RunQueueAttends, GoroutineAttends DEF Next

\* No lost wakeup: whenever a command of a started session could start, a
\* pass is on its way to it.  Triggers are sent outside the locks and a pass
\* decides on a snapshot, so this needs every one of the triggers.
THEOREM NoLostWakeupSafe == Spec => []NoLostWakeup
<1>1. Init => NoLostWakeup
  BY DEF Init, NoLostWakeup
<1>2. QueueInv /\ NoLostWakeup /\ [Next]_vars => NoLostWakeup'
  BY QueueFlags, WakeStep
<1> QED
  BY <1>1, <1>2, QueueInvInductive, PTL DEF Spec
-----------------------------------------------------------------------------
(* Waiting callers                                                         *)

\* The channel of r is with an item that asks to be run or a goroutine.
Held(r) ==
    \/ \E c \in queued : item[c].chan = r /\ item[c].runRequested
    \/ \E w \in Workers : worker[w].pc # "idle" /\ worker[w].chan = r

\* Nothing a client does takes a channel away.
LEMMA ClientHolds ==
    ASSUME QueueInv, WaiterHeld, NEW r \in Requests, Client(r)
    PROVE  WaiterHeld'
<1> USE DEF queueVars, recordVars, passVars, clientVars
<1>1. ASSUME NEW c \in Commands, NEW kind \in CallKinds, Accept(r, c, kind), UNCHANGED worker
      PROVE  WaiterHeld'
  <2>1. PICK chan \in Requests \cup {None} :
           Enqueue(c, chan) /\ chan = (IF Waits(kind) THEN r ELSE None)
    BY <1>1 DEF Accept
  <2>2. /\ \A d \in queued : item[d].runRequested => d \in queued' /\ item'[d] = item[d]
        /\ item'[c].runRequested /\ item'[c].chan = chan /\ c \in queued'
    BY <1>1, <2>1, EnqueueInv
  <2>3. \A x \in Requests : Held(x) => Held(x)'
    BY <1>1, <2>2 DEF Held
  <2>4. \A x \in Requests : doneChan'[x] = "open" => doneChan[x] = "open" \/ (x = r /\ Waits(kind))
    BY <1>1 DEF Accept, QueueInv, TypeOK
  <2>5. Waits(kind) => Held(r)'
    BY <2>1, <2>2 DEF Held
  <2> QED
    BY <2>3, <2>4, <2>5 DEF WaiterHeld, Held
<1>2. CASE UNCHANGED <<queued, item, worker, doneChan>>
  BY <1>2 DEF WaiterHeld
<1>3. CASE AddQueueItem(r)
  BY <1>1, <1>2, <1>3 DEF AddQueueItem, Refuse
<1> QED
  BY <1>2, <1>3 DEF Client, Trigger, StartRunQueue, WaitOrReturn, Await, ReadResult, RegisterNotifier,
                    WaitUntilEmpty, ReceiveEmpty, CancelWait

\* Launching an item hands its channel to the goroutine.
LEMMA RunQueueHolds ==
    ASSUME QueueInv, WaiterHeld, RunQueue
    PROVE  WaiterHeld'
<1> USE DEF queueVars, recordVars, passVars, clientVars
<1>1. CASE UNCHANGED <<queued, item, worker, doneChan>>
  BY <1>1 DEF WaiterHeld
<1>2. ASSUME NEW d \in Commands, Enqueue(d, None), UNCHANGED <<worker, doneChan>>
      PROVE  WaiterHeld'
  <2>1. None \in Requests \cup {None}
    OBVIOUS
  <2>2. \A c \in queued : item[c].runRequested => c \in queued' /\ item'[c] = item[c]
    BY <1>2, <2>1, EnqueueInv
  <2> QED
    BY <1>2, <2>2 DEF WaiterHeld
<1>3. ASSUME NEW d \in Commands, CheckNeed(d) PROVE WaiterHeld'
  BY <1>1, <1>2, <1>3 DEF CheckNeed
<1>4. ASSUME NEW w \in Workers, Launch(w) PROVE WaiterHeld'
  <2>1. PICK c \in Commands : c = pass.cmd
    BY <1>4, ClientsAssumption DEF Launch, QueueInv, PassInv
  <2>2. /\ queued' = queued /\ doneChan' = doneChan
        /\ \A d \in Commands \ {c} : item'[d] = item[d]
        /\ worker[w].pc = "idle" /\ worker'[w].pc = "run" /\ worker'[w].chan = item[c].chan
        /\ \A v \in Workers \ {w} : worker'[v] = worker[v]
    BY <1>4, <2>1 DEF Launch, QueueInv, TypeOK
  <2>3. \A r \in Requests : Held(r) => Held(r)'
    BY <2>2 DEF Held, QueueInv, TypeOK
  <2> QED
    BY <2>2, <2>3 DEF WaiterHeld, Held
<1> QED
  BY <1>1, <1>3, <1>4 DEF RunQueue, StartPass, PickCommand, SkipCommand, EndPass, Notify

\* A goroutine keeps its channel until it closes it.
LEMMA GoroutineHolds ==
    ASSUME QueueInv, WaiterHeld, NEW w \in Workers, Goroutine(w)
    PROVE  WaiterHeld'
<1> USE DEF queueVars, recordVars, passVars, clientVars
<1>1. ASSUME Busy(w) \/ worker[w].pc = "backoff",
             UNCHANGED <<queued, doneChan>>,
             \A v \in Workers \ {w} : worker'[v] = worker[v],
             worker'[w].pc # "idle" /\ worker'[w].chan = worker[w].chan,
             \A c \in queued : item[c].runRequested => item'[c] = item[c]
      PROVE  WaiterHeld'
  <2>1. \A r \in Requests : Held(r) => Held(r)'
    BY <1>1 DEF Held
  <2> QED
    BY <1>1, <2>1 DEF WaiterHeld, Held
<1>2. CASE SettleError(w) \/ SettleDone(w) \/ SettlePersistent(w) \/ SettleRestart(w) \/ EndBackoff(w)
  <2>1. /\ Busy(w) \/ worker[w].pc = "backoff"
        /\ UNCHANGED <<queued, doneChan>>
    BY <1>2 DEF SettleError, SettleDone, SettlePersistent, SettleRestart, EndBackoff, Busy, Succeeded
  <2>2. /\ \A v \in Workers \ {w} : worker'[v] = worker[v]
        /\ worker'[w].pc # "idle" /\ worker'[w].chan = worker[w].chan
    BY <1>2 DEF SettleError, SettleDone, SettlePersistent, SettleRestart, EndBackoff,
                QueueInv, TypeOK, WorkerState
  <2>3. item' = item \/ \E i \in {AsError(item[worker[w].cmd]), AsDone(item[worker[w].cmd]),
                                  AsWaiting(item[worker[w].cmd])} :
                           Busy(w) /\ item' = [item EXCEPT ![worker[w].cmd] = i]
    BY <1>2 DEF SettleError, SettleDone, SettlePersistent, SettleRestart, EndBackoff, Busy, Succeeded
  <2>4. Busy(w) => \A c \in queued : item[c].runRequested => c # worker[w].cmd
    BY DEF QueueInv, WorkerInv, ItemInv, ItemOK, WaitsOK, FlagsOK
  <2>5. \A c \in queued : item[c].runRequested => item'[c] = item[c]
    BY <2>3, <2>4 DEF QueueInv, TypeOK
  <2> QED
    BY <1>1, <2>1, <2>2, <2>5
<1>3. CASE (\E p \in Procedures : ReportRunning(w, p) \/ ReportFinished(w, p)) \/ Fail(w)
  <2>1. /\ UNCHANGED <<queued, item, doneChan>> /\ Busy(w)
        /\ \A v \in Workers \ {w} : worker'[v] = worker[v]
    BY <1>3 DEF ReportRunning, ReportFinished, Fail, Busy, QueueInv, TypeOK
  <2>2. worker'[w].pc # "idle" /\ worker'[w].chan = worker[w].chan
    <3>1. CASE Fail(w)
      BY <3>1 DEF Fail, QueueInv, TypeOK, WorkerState
    <3>2. CASE \E p \in Procedures : ReportRunning(w, p) \/ ReportFinished(w, p)
      BY <3>2 DEF ReportRunning, ReportFinished, QueueInv, TypeOK, WorkerState
    <3> QED
      BY <1>3, <3>1, <3>2
  <2> QED
    BY <1>1, <2>1, <2>2
<1>4. CASE Exit(w)
  <2>1. /\ UNCHANGED <<queued, item>>
        /\ \A v \in Workers \ {w} : worker'[v] = worker[v]
    BY <1>4 DEF Exit, QueueInv, TypeOK
  <2>2. \A r \in Requests : doneChan'[r] = "open" => doneChan[r] = "open" /\ worker[w].chan # r
    BY <1>4, ClientsAssumption DEF Exit, CloseDoneChan, QueueInv, TypeOK
  <2> QED
    BY <2>1, <2>2 DEF WaiterHeld
<1> QED
  BY <1>2, <1>3, <1>4 DEF Goroutine

\* No caller waits on a channel that nobody will close.
THEOREM WaiterHeldSafe == Spec => []WaiterHeld
<1>1. Init => WaiterHeld
  BY DEF Init, WaiterHeld
<1>2. ASSUME QueueInv, WaiterHeld, [Next]_vars PROVE WaiterHeld'
  <2>1. CASE Start \/ UNCHANGED vars
    BY <1>2, <2>1 DEF Start, vars, queueVars, recordVars, passVars, clientVars, WaiterHeld
  <2> QED
    BY <1>2, <2>1, ClientHolds, RunQueueHolds, GoroutineHolds DEF Next
<1> QED
  BY <1>1, <1>2, QueueInvInductive, PTL DEF Spec
-----------------------------------------------------------------------------
(* Needs before the commands that need them                                *)

\* What the queue takes for done was done: by its item, or, without one, by
\* procedure statuses that nobody has touched since an earlier session.
HistoryInv ==
    /\ \A c \in Commands : c \notin queued =>
          c \in completed \/ \A p \in ProceduresOf[c] : record.procs[p] = "unset"
    /\ \A c \in queued : item[c].rememberDone => c \in completed
    /\ pass.pc = "deps" /\ pass.ready => Needs[pass.cmd] \ pass.deps \subseteq completed

NeedsInv == HistoryInv /\ NeedsCompleted

\* A need that counts as done has been done.
LEMMA DoneCompleted ==
    ASSUME QueueInv, HistoryInv, NEW d \in Commands, NeedDone(d)
    PROVE  d \in completed
<1>1. ScheduledStatus(d) = "done"
  BY DEF NeedDone
<1>2. CASE d \notin queued
  <2>1. DerivedStatus(d) = "done"
    BY <1>1, <1>2 DEF ScheduledStatus
  <2>2. ~({record.procs[p] : p \in ProceduresOf[d]} \subseteq {"unset"})
    BY <2>1 DEF DerivedStatus, DeriveCommandStatus
  <2> QED
    BY <1>2, <2>2 DEF HistoryInv
<1>3. CASE d \in queued
  <2>1. ~item[d].runRequested
    BY <1>1, <1>3, RequestedWaits
  <2>2. ~item[d].inFlight
    BY <1>1, <1>3, QueueFlags, InFlightRuns
  <2>3. ~item[d].err
    BY <1>1, <1>3 DEF ScheduledStatus
  <2> QED
    BY <1>3, <2>1, <2>2, <2>3 DEF QueueInv, ItemInv, ItemOK, WaitsOK, FlagsOK, HistoryInv
<1> QED
  BY <1>2, <1>3

\* Adding an item keeps the history: it is not done, and it is an item.
LEMMA EnqueueHistory ==
    ASSUME QueueInv, HistoryInv, NEW c \in Commands, NEW chan \in Requests \cup {None},
           Enqueue(c, chan), UNCHANGED completed
    PROVE  /\ \A d \in Commands : d \notin queued' =>
                 d \in completed' \/ \A p \in ProceduresOf[d] : record'.procs[p] = "unset"
           /\ \A d \in queued' : item'[d].rememberDone => d \in completed'
<1>1. \A p \in Procedures : CommandOf[p] # c => record'.procs[p] = record.procs[p]
  BY StatusFrame DEF Enqueue, QueueInv
<1>2. /\ queued' = queued \cup {c}
      /\ item'[c] = AsWaiting([Blank EXCEPT !.chan = chan])
      /\ \A d \in Commands \ {c} : item'[d] = item[d]
  BY DEF Enqueue, QueueInv, TypeOK
<1>3. ~item'[c].rememberDone
  BY <1>2 DEF AsWaiting, Blank
<1>4. \A d \in Commands \ {c} : \A p \in ProceduresOf[d] : record'.procs[p] = record.procs[p]
  BY <1>1 DEF ProceduresOf
<1> QED
  BY <1>2, <1>3, <1>4 DEF HistoryInv, QueueInv, TypeOK

\* Clients start nothing and finish nothing.
LEMMA ClientNeeds ==
    ASSUME QueueInv, NeedsInv, NEW r \in Requests, Client(r)
    PROVE  NeedsInv'
<1> USE DEF queueVars, recordVars, passVars, clientVars
<1>1. UNCHANGED <<completed, pass, worker>>
  BY DEF Client, AddQueueItem, Trigger, StartRunQueue, WaitOrReturn, Await, ReadResult,
         RegisterNotifier, WaitUntilEmpty, ReceiveEmpty, CancelWait
<1>2. CASE UNCHANGED <<queued, item, record>>
  BY <1>1, <1>2 DEF NeedsInv, HistoryInv, NeedsCompleted, Busy
<1>3. ASSUME NEW c \in Commands, NEW chan \in Requests \cup {None}, Enqueue(c, chan)
      PROVE  NeedsInv'
  BY <1>1, <1>3, EnqueueHistory DEF NeedsInv, HistoryInv, NeedsCompleted, Busy
<1>4. CASE AddQueueItem(r)
  BY <1>2, <1>3, <1>4 DEF AddQueueItem, Accept, Refuse
<1> QED
  BY <1>2, <1>4 DEF Client, Trigger, StartRunQueue, WaitOrReturn, Await, ReadResult, RegisterNotifier,
                    WaitUntilEmpty, ReceiveEmpty, CancelWait

\* A pass launches a command only after it has seen every need done.
LEMMA RunQueueNeeds ==
    ASSUME QueueInv, NeedsInv, RunQueue
    PROVE  NeedsInv'
<1> USE DEF queueVars, recordVars, passVars, clientVars
<1>1. ASSUME UNCHANGED <<queued, item, record, completed, worker>>,
             ~(pass'.pc = "deps" /\ pass'.ready) \/ pass' = pass
      PROVE  NeedsInv'
  BY <1>1 DEF NeedsInv, HistoryInv, NeedsCompleted, Busy
<1>2. CASE StartPass \/ SkipCommand \/ EndPass \/ Notify
  <2>1. pass'.pc # "deps" \/ pass' = pass
    <3>1. StartPass => pass'.pc = "scan"
      BY DEF StartPass, NoPass
    <3>2. SkipCommand => pass'.pc = "scan"
      BY DEF SkipCommand, NextCommand, QueueInv, TypeOK, PassState
    <3>3. EndPass => pass'.pc = "idle"
      BY DEF EndPass, NoPass
    <3>4. Notify => pass' = pass
      BY DEF Notify
    <3> QED
      BY <1>2, <3>1, <3>2, <3>3, <3>4
  <2> QED
    BY <1>1, <1>2, <2>1 DEF StartPass, SkipCommand, EndPass, Notify
<1>3. ASSUME NEW c \in Commands, PickCommand(c) PROVE NeedsInv'
  <2>1. pass'.cmd = c /\ pass'.deps = Needs[c]
    BY <1>3 DEF PickCommand, QueueInv, TypeOK, PassState
  <2> QED
    BY <1>3, <2>1 DEF PickCommand, NeedsInv, HistoryInv, NeedsCompleted, Busy
<1>4. ASSUME NEW d \in Commands, CheckNeed(d) PROVE NeedsInv'
  <2>1. /\ pass'.cmd = pass.cmd /\ pass'.deps = pass.deps \ {d}
        /\ pass'.ready = (pass.ready /\ NeedDone(d)) /\ pass.pc = "deps"
        /\ UNCHANGED <<completed, worker>>
    <3>1. /\ pass' = [pass EXCEPT !.deps = @ \ {d}, !.ready = @ /\ NeedDone(d)]
          /\ pass.pc = "deps" /\ UNCHANGED <<completed, worker>>
      BY <1>4 DEF CheckNeed
    <3> QED
      BY <3>1 DEF QueueInv, TypeOK, PassState
  <2>2. pass'.ready => Needs[pass'.cmd] \ pass'.deps \subseteq completed'
    BY <2>1, DoneCompleted DEF NeedsInv, HistoryInv
  <2>3. CASE UNCHANGED <<queued, item, record>>
    BY <2>1, <2>2, <2>3 DEF NeedsInv, HistoryInv, NeedsCompleted, Busy
  <2>4. CASE Enqueue(d, None)
    <3>1. None \in Requests \cup {None}
      OBVIOUS
    <3>2. /\ \A c \in Commands : c \notin queued' =>
                c \in completed' \/ \A p \in ProceduresOf[c] : record'.procs[p] = "unset"
          /\ \A c \in queued' : item'[c].rememberDone => c \in completed'
      BY <2>1, <2>4, <3>1, EnqueueHistory DEF NeedsInv
    <3> QED
      BY <2>1, <2>2, <3>2 DEF NeedsInv, HistoryInv, NeedsCompleted, Busy
  <2> QED
    BY <1>4, <2>3, <2>4 DEF CheckNeed
<1>5. ASSUME NEW w \in Workers, Launch(w) PROVE NeedsInv'
  <2>1. PICK c \in Commands : c = pass.cmd /\ c \in queued
    BY <1>5, ClientsAssumption DEF Launch, QueueInv, PassInv
  <2>2. Needs[c] \subseteq completed
    BY <1>5, <2>1 DEF Launch, NeedsInv, HistoryInv
  <2>3. /\ \A d \in Commands \ {c} : item'[d] = item[d]
        /\ item'[c] = AsRunning(item[c])
        /\ worker'[w].cmd = c
        /\ \A v \in Workers \ {w} : worker'[v] = worker[v]
        /\ UNCHANGED <<queued, record, completed>>
    BY <1>5, <2>1 DEF Launch, QueueInv, TypeOK
  <2>4. item'[c].rememberDone = item[c].rememberDone
    BY <2>3 DEF AsRunning, QueueInv, TypeOK, Item
  <2>5. pass'.pc = "scan"
    BY <1>5 DEF Launch, NextCommand, QueueInv, TypeOK, PassState
  <2>6. HistoryInv'
    BY <2>1, <2>3, <2>4, <2>5 DEF NeedsInv, HistoryInv, QueueInv, TypeOK
  <2>7. NeedsCompleted'
    BY <2>2, <2>3 DEF NeedsInv, NeedsCompleted, Busy
  <2> QED
    BY <2>6, <2>7 DEF NeedsInv
<1> QED
  BY <1>2, <1>3, <1>4, <1>5 DEF RunQueue

\* A goroutine only adds to what was done.
LEMMA GoroutineNeeds ==
    ASSUME QueueInv, NeedsInv, NEW w \in Workers, Goroutine(w)
    PROVE  NeedsInv'
<1> USE DEF queueVars, recordVars, passVars, clientVars
<1>1. PICK c : c = worker[w].cmd
  OBVIOUS
<1>2. Busy(w) => c \in Commands /\ c \in queued
  BY <1>1 DEF QueueInv, WorkerInv, TypeOK
<1>3. UNCHANGED <<queued, pass>> /\ completed \subseteq completed'
  BY DEF Goroutine, ReportRunning, ReportFinished, Fail, SettleError, SettleDone,
         SettlePersistent, SettleRestart, EndBackoff, Exit
<1>4. ASSUME \A d \in Commands : d \notin queued => \A p \in ProceduresOf[d] :
                record'.procs[p] = record.procs[p],
             \A d \in queued : item'[d].rememberDone => item[d].rememberDone \/ d \in completed'
      PROVE  HistoryInv'
  BY <1>3, <1>4 DEF NeedsInv, HistoryInv
<1>5. NeedsCompleted'
  <2>1. \A v \in Workers : Busy(v)' => Busy(v) /\ worker'[v].cmd = worker[v].cmd
    <3>1. CASE \E p \in Procedures : ReportRunning(w, p) \/ ReportFinished(w, p)
      BY <3>1 DEF ReportRunning, ReportFinished, Busy, QueueInv, TypeOK, WorkerState
    <3>2. CASE Fail(w)
      BY <3>2 DEF Fail, Busy, QueueInv, TypeOK, WorkerState
    <3>3. CASE SettleError(w) \/ SettleDone(w) \/ SettlePersistent(w) \/ SettleRestart(w)
               \/ EndBackoff(w) \/ Exit(w)
      BY <3>3 DEF SettleError, SettleDone, SettlePersistent, SettleRestart, EndBackoff, Exit,
                  IdleWorker, Busy, QueueInv, TypeOK, WorkerState
    <3> QED
      BY <3>1, <3>2, <3>3 DEF Goroutine
  <2> QED
    BY <1>3, <2>1 DEF NeedsInv, NeedsCompleted
<1>6. ASSUME Busy(w), NEW s \in {"waiting", "done", "error"}, Persist(WithCommandStatus(c, s))
      PROVE  \A d \in Commands : d \notin queued => \A p \in ProceduresOf[d] :
                record'.procs[p] = record.procs[p]
  BY <1>2, <1>6, StatusFrame DEF QueueInv, ProceduresOf
<1>7. CASE \E p \in Procedures : ReportRunning(w, p) \/ ReportFinished(w, p)
  <2>1. PICK p \in Procedures : ReportRunning(w, p) \/ ReportFinished(w, p)
    BY <1>7
  <2>2. Busy(w) /\ p \in worker[w].left /\ UNCHANGED item
    BY <2>1 DEF ReportRunning, ReportFinished, Busy
  <2>3. p \in ProceduresOf[c]
    BY <1>1, <2>2 DEF QueueInv, WorkerInv
  <2>4. PICK s \in {"running", "done"} : Persist([record.procs EXCEPT ![p] = s])
    BY <2>1 DEF ReportRunning, ReportFinished
  <2>5. record'.procs = [record.procs EXCEPT ![p] = s]
    <3>1. [record.procs EXCEPT ![p] = s] \in [Procedures -> ProcedureStatuses]
      BY DEF QueueInv, TypeOK, Record, ProcedureStatuses
    <3> QED
      BY <2>4, <3>1, PersistType
  <2>6. \A d \in Commands : d \notin queued => \A q \in ProceduresOf[d] :
           record'.procs[q] = record.procs[q]
    BY <1>2, <2>2, <2>3, <2>5 DEF QueueInv, TypeOK, Record, ProceduresOf
  <2>7. \A d \in queued : item'[d].rememberDone => item[d].rememberDone \/ d \in completed'
    BY <2>2
  <2> QED
    BY <1>4, <1>5, <2>6, <2>7 DEF NeedsInv
<1>8. CASE Fail(w)
  <2>1. Busy(w) /\ UNCHANGED item
    BY <1>8 DEF Fail, Busy
  <2> QED
    BY <1>1, <1>4, <1>5, <1>6, <1>8, <2>1 DEF Fail, NeedsInv
<1>9. CASE SettleError(w) \/ SettleDone(w) \/ SettleRestart(w)
  <2>1. Busy(w)
    BY <1>9 DEF SettleError, SettleDone, SettleRestart, Succeeded, Busy
  <2>2. \E s \in {"waiting", "done", "error"} : Persist(WithCommandStatus(c, s))
    BY <1>1, <1>2, <1>9, <2>1 DEF SettleError, SettleDone, SettleRestart
  <2>3. \A d \in queued : item'[d].rememberDone => item[d].rememberDone \/ d \in completed'
    <3>1. CASE SettleError(w)
      BY <1>1, <1>2, <2>1, <3>1 DEF SettleError, AsError, QueueInv, TypeOK, Item
    <3>2. CASE SettleDone(w)
      BY <1>1, <1>2, <2>1, <3>2 DEF SettleDone, QueueInv, TypeOK
    <3>3. CASE SettleRestart(w)
      BY <1>1, <1>2, <2>1, <3>3 DEF SettleRestart, AsWaiting, QueueInv, TypeOK, Item
    <3> QED
      BY <1>9, <3>1, <3>2, <3>3
  <2>4. \A d \in Commands : d \notin queued => \A p \in ProceduresOf[d] :
           record'.procs[p] = record.procs[p]
    BY <1>6, <2>1, <2>2
  <2> QED
    BY <1>4, <1>5, <2>3, <2>4 DEF NeedsInv
<1>10. CASE SettlePersistent(w) \/ EndBackoff(w) \/ Exit(w)
  <2>1. UNCHANGED <<item, record>>
    BY <1>10 DEF SettlePersistent, EndBackoff, Exit
  <2> QED
    BY <1>4, <1>5, <2>1 DEF NeedsInv
<1> QED
  BY <1>7, <1>8, <1>9, <1>10 DEF Goroutine

\* The history holds at the start and after every step.
LEMMA NeedsInvInductive ==
    (Init => NeedsInv) /\ (QueueInv /\ NeedsInv /\ [Next]_vars => NeedsInv')
<1>1. Init => NeedsInv
  <2>1. Init => NeedsCompleted
    BY DEF Init, NeedsCompleted, Busy, IdleWorker
  <2>2. ASSUME Init PROVE HistoryInv
    <3>1. record.procs = [p \in Procedures |-> IF CommandOf[p] \in completed
                                               THEN "done" ELSE "unset"]
      BY <2>2, RecordType DEF Init, ProcedureStatuses
    <3> QED
      BY <2>2, <3>1 DEF Init, HistoryInv, ProceduresOf, NoPass
  <2> QED
    BY <2>1, <2>2 DEF NeedsInv
<1>2. ASSUME QueueInv, NeedsInv, [Next]_vars PROVE NeedsInv'
  <2>1. CASE Start \/ UNCHANGED vars
    <3>1. UNCHANGED <<queued, item, record, completed, pass, worker>>
      BY <2>1 DEF Start, vars, queueVars, recordVars, passVars
    <3> QED
      BY <1>2, <3>1 DEF NeedsInv, HistoryInv, NeedsCompleted, Busy
  <2> QED
    BY <1>2, <2>1, ClientNeeds, RunQueueNeeds, GoroutineNeeds DEF Next
<1> QED
  BY <1>1, <1>2

\* Every need of a running command was done at some time before.
THEOREM NeedsCompletedSafe == Spec => []NeedsCompleted
<1>1. NeedsInv => NeedsCompleted
  BY DEF NeedsInv
<1> QED
  BY <1>1, NeedsInvInductive, QueueInvInductive, PTL DEF Spec
-----------------------------------------------------------------------------
(* The store                                                               *)

\* Some goroutine works on c.
Working(c) == \E w \in Workers : Busy(w) /\ worker[w].cmd = c

\* What the procedures of a command say once its item is settled, and while
\* it is in flight without a goroutine: then it is persistent.
StoreOK(c) ==
    /\ item[c].err => \A p \in ProceduresOf[c] : record.procs[p] = "error"
    /\ ~item[c].err /\ ~item[c].inFlight /\ item[c].rememberDone =>
         \A p \in ProceduresOf[c] : record.procs[p] = "done"
    /\ item[c].inFlight /\ ~Working(c) =>
         /\ Mode[c] = "persistent"
         /\ \A p \in ProceduresOf[c] : record.procs[p] \in {"running", "done"}

\* The procedures a goroutine is through with have been running.
Through(w) ==
    worker[w].pc = "run" =>
        \A p \in ProceduresOf[worker[w].cmd] \ worker[w].left :
            record.procs[p] \in {"running", "done"}

StoreInv ==
    /\ stored = record
    /\ \A c \in queued : StoreOK(c)
    /\ \A w \in Workers : Through(w)

\* A step about command c leaves what is stored of the others as it is.
LEMMA StoreFrame ==
    ASSUME QueueInv, StoreInv, NEW c \in Commands,
           stored' = record',
           queued' \subseteq queued \cup {c},
           \A d \in queued \ {c} : item'[d] = item[d],
           \A p \in Procedures : CommandOf[p] # c => record'.procs[p] = record.procs[p],
           \A v \in Workers : (Busy(v)' /\ worker'[v].cmd # c) \/ (Busy(v) /\ worker[v].cmd # c)
                                 => worker'[v] = worker[v],
           c \in queued' => StoreOK(c)',
           \A v \in Workers : worker'[v].pc = "run" /\ worker'[v].cmd = c => Through(v)'
    PROVE  StoreInv'
<1>1. \A d \in Commands \ {c} : \A p \in ProceduresOf[d] : record'.procs[p] = record.procs[p]
  BY DEF ProceduresOf
<1>2. \A d \in Commands \ {c} : Working(d) => Working(d)'
  BY DEF Working, Busy
<1>3. ASSUME NEW d \in queued', d # c PROVE StoreOK(d)'
  <2>1. d \in queued /\ d \in Commands \ {c} /\ StoreOK(d)
    BY <1>3 DEF QueueInv, TypeOK, StoreInv
  <2>2. item'[d] = item[d]
    BY <1>3, <2>1
  <2> QED
    BY <1>1, <1>2, <2>1, <2>2 DEF StoreOK
<1>4. ASSUME NEW v \in Workers, worker'[v].pc = "run", worker'[v].cmd # c PROVE Through(v)'
  <2>1. worker'[v] = worker[v] /\ Busy(v)
    BY <1>4 DEF Busy
  <2>2. worker[v].cmd \in Commands \ {c} /\ Through(v)
    BY <1>4, <2>1 DEF QueueInv, WorkerInv, TypeOK, StoreInv
  <2> QED
    BY <1>1, <2>1, <2>2 DEF Through
<1> QED
  BY <1>3, <1>4 DEF StoreInv, Through

\* A step that touches no item, no procedure and no goroutine.
LEMMA StoreUnchanged ==
    ASSUME StoreInv, UNCHANGED <<queued, item, record, stored, worker>>
    PROVE  StoreInv'
BY DEF StoreInv, StoreOK, Through, Working, Busy

\* A new item asks to be run: nothing is claimed of it yet.
LEMMA EnqueueStore ==
    ASSUME QueueInv, StoreInv, NEW c \in Commands, NEW chan \in Requests \cup {None},
           Enqueue(c, chan), UNCHANGED worker
    PROVE  StoreInv'
<1>1. \A p \in Procedures : CommandOf[p] # c => record'.procs[p] = record.procs[p]
  BY StatusFrame DEF Enqueue, QueueInv
<1>2. /\ queued' = queued \cup {c}
      /\ item'[c] = AsWaiting([Blank EXCEPT !.chan = chan])
      /\ \A d \in Commands \ {c} : item'[d] = item[d]
      /\ stored' = record'
  BY DEF Enqueue, Persist, QueueInv, TypeOK
<1>3. StoreOK(c)'
  BY <1>2 DEF StoreOK, AsWaiting, Blank
<1>4. \A v \in Workers : worker[v].pc = "run" => worker[v].cmd # c
  <2>1. c \in queued => ~item[c].inFlight
    BY Replaceable DEF Enqueue
  <2> QED
    BY <2>1 DEF QueueInv, WorkerInv, Busy
<1>5. \A d \in queued \ {c} : item'[d] = item[d]
  BY <1>2 DEF QueueInv, TypeOK
<1> QED
  BY <1>1, <1>2, <1>3, <1>4, <1>5, StoreFrame

\* Clients only add items.
LEMMA ClientStore ==
    ASSUME QueueInv, StoreInv, NEW r \in Requests, Client(r)
    PROVE  StoreInv'
<1> USE DEF queueVars, recordVars, passVars, clientVars
<1>1. UNCHANGED worker
  BY DEF Client, AddQueueItem, Trigger, StartRunQueue, WaitOrReturn, Await, ReadResult,
         RegisterNotifier, WaitUntilEmpty, ReceiveEmpty, CancelWait
<1>2. CASE UNCHANGED <<queued, item, record, stored>>
  BY <1>1, <1>2, StoreUnchanged
<1>3. ASSUME NEW c \in Commands, NEW kind \in CallKinds, Accept(r, c, kind) PROVE StoreInv'
  <2>1. PICK chan \in Requests \cup {None} : Enqueue(c, chan)
    BY <1>3 DEF Accept
  <2> QED
    BY <1>1, <2>1, EnqueueStore
<1>4. CASE AddQueueItem(r)
  BY <1>2, <1>3, <1>4 DEF AddQueueItem, Refuse
<1> QED
  BY <1>2, <1>4 DEF Client, Trigger, StartRunQueue, WaitOrReturn, Await, ReadResult, RegisterNotifier,
                    WaitUntilEmpty, ReceiveEmpty, CancelWait

\* A pass adds needs and starts goroutines.
LEMMA RunQueueStore ==
    ASSUME QueueInv, StoreInv, RunQueue
    PROVE  StoreInv'
<1> USE DEF queueVars, recordVars, passVars, clientVars
<1>1. CASE UNCHANGED <<queued, item, record, stored, worker>>
  BY <1>1, StoreUnchanged
<1>2. ASSUME NEW d \in Commands, CheckNeed(d) PROVE StoreInv'
  <2>1. CASE Enqueue(d, None)
    <3>1. None \in Requests \cup {None} /\ UNCHANGED worker
      BY <1>2 DEF CheckNeed
    <3> QED
      BY <2>1, <3>1, EnqueueStore
  <2> QED
    BY <1>1, <1>2, <2>1 DEF CheckNeed
<1>3. ASSUME NEW w \in Workers, Launch(w) PROVE StoreInv'
  <2>1. PICK c \in Commands : c = pass.cmd /\ c \in queued /\ item[c].runRequested
    BY <1>3, ClientsAssumption DEF Launch, QueueInv, PassInv
  <2>2. /\ item'[c] = AsRunning(item[c])
        /\ \A d \in Commands \ {c} : item'[d] = item[d]
        /\ queued' = queued /\ record' = record /\ stored' = record'
    BY <1>3, <2>1 DEF Launch, QueueInv, TypeOK, StoreInv
  <2>3. /\ worker[w].pc = "idle" /\ worker'[w].pc = "run" /\ worker'[w].cmd = c
        /\ worker'[w].left = ProceduresOf[c]
        /\ \A v \in Workers \ {w} : worker'[v] = worker[v]
    BY <1>3, <2>1 DEF Launch, QueueInv, TypeOK
  <2>4. Working(c)' /\ ~item'[c].err /\ item'[c].inFlight
    BY <2>1, <2>2, <2>3 DEF Working, Busy, AsRunning, QueueInv, TypeOK, Item
  <2>5. StoreOK(c)'
    BY <2>4 DEF StoreOK
  <2>6. \A v \in Workers : worker[v].pc = "run" => worker[v].cmd # c
    <3>1. ~item[c].inFlight
      BY <2>1 DEF QueueInv, ItemInv, ItemOK, WaitsOK, FlagsOK
    <3> QED
      BY <3>1 DEF QueueInv, WorkerInv, Busy
  <2>7. \A v \in Workers : worker'[v].pc = "run" /\ worker'[v].cmd = c => Through(v)'
    BY <2>3, <2>6 DEF Through
  <2>8. \A v \in Workers : (Busy(v)' /\ worker'[v].cmd # c) \/ (Busy(v) /\ worker[v].cmd # c)
                              => worker'[v] = worker[v]
    BY <2>3 DEF Busy
  <2>9. \A d \in queued \ {c} : item'[d] = item[d]
    BY <2>2 DEF QueueInv, TypeOK
  <2> QED
    BY <2>2, <2>5, <2>7, <2>8, <2>9, StoreFrame
<1> QED
  BY <1>1, <1>2, <1>3 DEF RunQueue, StartPass, PickCommand, SkipCommand, EndPass, Notify

\* A step of the goroutine that owns c.
LEMMA StoreOwn ==
    ASSUME QueueInv, StoreInv, NEW w \in Workers, Busy(w),
           NEW c \in Commands, c = worker[w].cmd,
           queued' = queued, stored' = record',
           \A d \in Commands \ {c} : item'[d] = item[d],
           \A p \in Procedures : CommandOf[p] # c => record'.procs[p] = record.procs[p],
           \A v \in Workers \ {w} : worker'[v] = worker[v],
           worker'[w].cmd = c,
           StoreOK(c)', Through(w)'
    PROVE  StoreInv'
<1>1. \A v \in Workers \ {w} : Busy(v) => worker[v].cmd # c
  BY DEF QueueInv, SingleFlight
<1>2. \A v \in Workers : (Busy(v)' /\ worker'[v].cmd # c) \/ (Busy(v) /\ worker[v].cmd # c)
                            => worker'[v] = worker[v]
  OBVIOUS
<1>3. \A v \in Workers : worker'[v].pc = "run" /\ worker'[v].cmd = c => Through(v)'
  BY <1>1 DEF Busy
<1>4. \A d \in queued \ {c} : item'[d] = item[d]
  BY DEF QueueInv, TypeOK
<1> QED
  BY <1>2, <1>3, <1>4, StoreFrame

\* Goroutines store what they report and what they settle.
LEMMA GoroutineStore ==
    ASSUME QueueInv, StoreInv, NEW w \in Workers, Goroutine(w)
    PROVE  StoreInv'
<1> USE DEF queueVars, recordVars, passVars, clientVars
<1>1. PICK c : c = worker[w].cmd
  OBVIOUS
<1>2. Busy(w) => /\ c \in Commands /\ c \in queued
                 /\ item[c].inFlight /\ ~item[c].runRequested /\ ~item[c].err
  BY <1>1 DEF QueueInv, WorkerInv, ItemInv, ItemOK, WaitsOK, FlagsOK, TypeOK
<1>3. ASSUME NEW p \in Procedures, ReportRunning(w, p) \/ ReportFinished(w, p) PROVE StoreInv'
  <2>1. Busy(w) /\ p \in worker[w].left
    BY <1>3 DEF ReportRunning, ReportFinished, Busy
  <2>2. p \in ProceduresOf[c] /\ CommandOf[p] = c /\ c \in Commands
    BY <1>1, <1>2, <2>1 DEF QueueInv, WorkerInv, ProceduresOf
  <2>3. PICK s \in {"running", "done"} : Persist([record.procs EXCEPT ![p] = s])
    BY <1>3 DEF ReportRunning, ReportFinished
  <2>4. record'.procs = [record.procs EXCEPT ![p] = s] /\ stored' = record'
    <3>1. [record.procs EXCEPT ![p] = s] \in [Procedures -> ProcedureStatuses]
      BY DEF QueueInv, TypeOK, Record, ProcedureStatuses
    <3> QED
      BY <2>3, <3>1, PersistType DEF Persist
  <2>5. /\ \A q \in Procedures : CommandOf[q] # c => record'.procs[q] = record.procs[q]
        /\ record'.procs[p] \in {"running", "done"}
        /\ \A q \in Procedures \ {p} : record'.procs[q] = record.procs[q]
    BY <2>2, <2>4 DEF QueueInv, TypeOK, Record
  <2>6. UNCHANGED <<queued, item>> /\ worker[w].pc = "run"
    BY <1>3 DEF ReportRunning, ReportFinished
  <2>7. worker' = worker \/ worker' = [worker EXCEPT ![w].left = @ \ {p}]
    BY <1>3 DEF ReportRunning, ReportFinished
  <2>8. /\ \A v \in Workers \ {w} : worker'[v] = worker[v]
        /\ worker'[w].cmd = c /\ worker'[w].pc = "run"
        /\ worker'[w].left \in {worker[w].left, worker[w].left \ {p}}
    BY <1>1, <2>6, <2>7 DEF QueueInv, TypeOK, WorkerState
  <2>9. Through(w)'
    <3>1. \A q \in ProceduresOf[c] \ worker[w].left : record.procs[q] \in {"running", "done"}
      BY <1>1, <2>6 DEF StoreInv, Through
    <3>2. ASSUME NEW q \in ProceduresOf[c] \ worker'[w].left
          PROVE  record'.procs[q] \in {"running", "done"}
      <4>1. q \in Procedures /\ (q # p => q \notin worker[w].left)
        BY <2>2, <2>8 DEF ProceduresOf
      <4> QED
        BY <2>5, <3>1, <4>1
    <3> QED
      BY <2>8, <3>2 DEF Through
  <2>10. StoreOK(c)'
    BY <1>2, <2>1, <2>6, <2>8 DEF StoreOK, Working, Busy
  <2> QED
    BY <1>1, <2>1, <2>2, <2>4, <2>5, <2>6, <2>8, <2>9, <2>10, StoreOwn
<1>4. CASE Fail(w)
  <2>1. Busy(w) /\ UNCHANGED <<queued, item>> /\ c \in Commands
    BY <1>2, <1>4 DEF Fail, Busy
  <2>2. \A p \in Procedures : CommandOf[p] # c => record'.procs[p] = record.procs[p]
    BY <1>1, <1>4, StatusFrame DEF Fail, QueueInv
  <2>3. stored' = record'
    BY <1>4 DEF Fail, Persist
  <2>4. /\ \A v \in Workers \ {w} : worker'[v] = worker[v]
        /\ worker'[w].cmd = c /\ worker'[w].pc \in {"failed", "retry"}
    BY <1>1, <1>4 DEF Fail, QueueInv, TypeOK, WorkerState
  <2>5. StoreOK(c)'
    BY <1>2, <2>1, <2>4 DEF StoreOK, Working, Busy
  <2>6. Through(w)'
    BY <2>4 DEF Through
  <2> QED
    BY <1>1, <2>1, <2>2, <2>3, <2>4, <2>5, <2>6, StoreOwn
<1>5. CASE SettleError(w)
  <2>1. Busy(w) /\ queued' = queued /\ c \in Commands /\ c \in queued
    BY <1>2, <1>5 DEF SettleError, Busy
  <2>2. /\ \A p \in Procedures : CommandOf[p] # c => record'.procs[p] = record.procs[p]
        /\ \A p \in Procedures : CommandOf[p] = c => record'.procs[p] = "error"
    BY <1>1, <1>5, StatusFrame DEF SettleError, QueueInv
  <2>3. /\ item'[c] = AsError(item[c])
        /\ \A d \in Commands \ {c} : item'[d] = item[d]
        /\ stored' = record'
    BY <1>1, <1>5, <2>1 DEF SettleError, Persist, QueueInv, TypeOK
  <2>4. /\ \A v \in Workers \ {w} : worker'[v] = worker[v]
        /\ worker'[w].cmd = c /\ worker'[w].pc = "exit"
    BY <1>1, <1>5 DEF SettleError, QueueInv, TypeOK, WorkerState
  <2>5. item'[c].err /\ ~item'[c].inFlight
    BY <2>1, <2>3 DEF AsError, QueueInv, TypeOK, Item
  <2>6. StoreOK(c)'
    BY <2>1, <2>2, <2>5 DEF StoreOK, ProceduresOf
  <2>7. Through(w)'
    BY <2>4 DEF Through
  <2> QED
    BY <1>1, <2>1, <2>2, <2>3, <2>4, <2>6, <2>7, StoreOwn
<1>6. CASE SettleDone(w)
  <2>1. Busy(w) /\ queued' = queued /\ c \in Commands /\ c \in queued
    BY <1>2, <1>6 DEF SettleDone, Succeeded, Busy
  <2>2. /\ \A p \in Procedures : CommandOf[p] # c => record'.procs[p] = record.procs[p]
        /\ \A p \in Procedures : CommandOf[p] = c => record'.procs[p] = "done"
    BY <1>1, <1>6, <2>1, StatusFrame DEF SettleDone, QueueInv
  <2>3. /\ item'[c] = AsDone(item[c])
        /\ \A d \in Commands \ {c} : item'[d] = item[d]
        /\ stored' = record'
    BY <1>1, <1>6, <2>1 DEF SettleDone, Persist, QueueInv, TypeOK
  <2>4. /\ \A v \in Workers \ {w} : worker'[v] = worker[v]
        /\ worker'[w].cmd = c /\ worker'[w].pc = "exit"
    BY <1>1, <1>6 DEF SettleDone, QueueInv, TypeOK, WorkerState
  <2>5. ~item'[c].err /\ ~item'[c].inFlight
    BY <2>1, <2>3 DEF AsDone, QueueInv, TypeOK, Item
  <2>6. StoreOK(c)'
    BY <2>1, <2>2, <2>5 DEF StoreOK, ProceduresOf
  <2>7. Through(w)'
    BY <2>4 DEF Through
  <2> QED
    BY <1>1, <2>1, <2>2, <2>3, <2>4, <2>6, <2>7, StoreOwn
<1>7. CASE SettlePersistent(w)
  <2>1. /\ Busy(w) /\ UNCHANGED <<queued, item, record, stored>>
        /\ c \in Commands /\ c \in queued
        /\ Mode[c] = "persistent"
        /\ worker[w].pc = "run" /\ worker[w].left = {}
    BY <1>1, <1>2, <1>7 DEF SettlePersistent, Succeeded, Busy
  <2>2. /\ \A v \in Workers \ {w} : worker'[v] = worker[v]
        /\ worker'[w].cmd = c /\ worker'[w].pc = "exit"
    BY <1>1, <1>7 DEF SettlePersistent, QueueInv, TypeOK, WorkerState
  <2>3. \A p \in ProceduresOf[c] : record.procs[p] \in {"running", "done"}
    BY <1>1, <2>1 DEF StoreInv, Through
  <2>4. StoreOK(c)'
    BY <1>2, <2>1, <2>3 DEF StoreOK
  <2>5. Through(w)'
    BY <2>2 DEF Through
  <2> QED
    BY <1>1, <2>1, <2>2, <2>4, <2>5, StoreOwn DEF StoreInv
<1>8. CASE SettleRestart(w)
  <2>1. Busy(w) /\ queued' = queued /\ c \in Commands /\ c \in queued
    BY <1>2, <1>8 DEF SettleRestart, Succeeded, Busy
  <2>2. \A p \in Procedures : CommandOf[p] # c => record'.procs[p] = record.procs[p]
    BY <1>1, <1>8, <2>1, StatusFrame DEF SettleRestart, QueueInv
  <2>3. /\ item'[c] = AsWaiting(item[c])
        /\ \A d \in Commands \ {c} : item'[d] = item[d]
        /\ stored' = record'
    BY <1>1, <1>8, <2>1 DEF SettleRestart, Persist, QueueInv, TypeOK
  <2>4. /\ \A v \in Workers \ {w} : worker'[v] = worker[v]
        /\ worker'[w].cmd = c /\ worker'[w].pc = "backoff"
    BY <1>1, <1>8 DEF SettleRestart, QueueInv, TypeOK, WorkerState
  <2>5. ~item'[c].err /\ ~item'[c].inFlight /\ ~item'[c].rememberDone
    BY <2>1, <2>3 DEF AsWaiting, QueueInv, TypeOK, Item
  <2>6. StoreOK(c)' /\ Through(w)'
    BY <2>4, <2>5 DEF StoreOK, Through
  <2> QED
    BY <1>1, <2>1, <2>2, <2>3, <2>4, <2>6, StoreOwn
<1>9. CASE EndBackoff(w) \/ Exit(w)
  <2>1. UNCHANGED <<queued, item, record, stored>> /\ ~Busy(w)
    BY <1>9 DEF EndBackoff, Exit, Busy
  <2>2. /\ \A v \in Workers \ {w} : worker'[v] = worker[v]
        /\ worker'[w].pc \in {"exit", "idle"}
    BY <1>9 DEF EndBackoff, Exit, IdleWorker, QueueInv, TypeOK, WorkerState
  <2>3. \A d : Working(d)' <=> Working(d)
    BY <2>1, <2>2 DEF Working, Busy
  <2> QED
    BY <2>1, <2>2, <2>3 DEF StoreInv, StoreOK, Through
<1> QED
  BY <1>3, <1>4, <1>5, <1>6, <1>7, <1>8, <1>9 DEF Goroutine

\* The store never disagrees with the queue about a command nobody works
\* on: after any crash the record a new daemon finds is what was decided.
\* That the procedures follow the flags is no assignment of the code: an
\* item and its procedures are written under two different locks.
THEOREM StoreMatchesQueueSafe == Spec => []StoreMatchesQueue
<1>1. Init => StoreInv
  BY DEF Init, StoreInv, Through, IdleWorker
<1>2. ASSUME QueueInv, StoreInv, [Next]_vars PROVE StoreInv'
  <2>1. CASE Start \/ UNCHANGED vars
    BY <1>2, <2>1, StoreUnchanged
       DEF Start, vars, queueVars, recordVars, passVars, clientVars
  <2> QED
    BY <1>2, <2>1, ClientStore, RunQueueStore, GoroutineStore DEF Next
<1>3. ASSUME QueueInv, StoreInv PROVE StoreMatchesQueue
  <2> SUFFICES ASSUME NEW c \in queued, ProceduresOf[c] # {},
                      \A w \in Workers : Busy(w) => worker[w].cmd # c
               PROVE  \/ StoredStatus(c) = Flag(item[c])
                      \/ /\ Mode[c] = "persistent"
                         /\ item[c].inFlight
                         /\ StoredStatus(c) = "done"
    BY DEF StoreMatchesQueue
  <2> DEFINE seen == {stored.procs[p] : p \in ProceduresOf[c]}
  <2>1. seen # {} /\ ItemOK(c) /\ StoreOK(c) /\ stored = record /\ ~Working(c)
    BY <1>3 DEF QueueInv, ItemInv, StoreInv, Working
  <2>2. StoredStatus(c) = DeriveCommandStatus(seen)
    BY DEF StoredStatus
  <2>3. CASE item[c].err
    <3>1. seen = {"error"} /\ Flag(item[c]) = "error"
      BY <2>1, <2>3 DEF StoreOK, Flag
    <3> QED
      BY <2>2, <3>1 DEF DeriveCommandStatus
  <2>4. CASE item[c].inFlight
    <3>1. /\ Mode[c] = "persistent" /\ seen \subseteq {"running", "done"}
          /\ Flag(item[c]) = "running"
      BY <2>1, <2>4 DEF StoreOK, ItemOK, FlagsOK, WaitsOK, Flag
    <3>2. CASE "running" \in seen
      BY <2>2, <3>1, <3>2 DEF DeriveCommandStatus
    <3>3. CASE "running" \notin seen
      <4>1. seen = {"done"}
        BY <2>1, <3>1, <3>3
      <4> QED
        BY <2>2, <2>4, <3>1, <4>1 DEF DeriveCommandStatus
    <3> QED
      BY <3>2, <3>3
  <2>5. CASE item[c].runRequested
    <3>1. seen = {"waiting"} /\ Flag(item[c]) = "waiting"
      BY <2>1, <2>5 DEF ItemOK, FlagsOK, WaitsOK, Flag
    <3> QED
      BY <2>2, <3>1 DEF DeriveCommandStatus
  <2>6. CASE ~item[c].err /\ ~item[c].inFlight /\ item[c].rememberDone
    <3>1. seen = {"done"} /\ Flag(item[c]) = "done"
      BY <2>1, <2>6 DEF StoreOK, Flag
    <3> QED
      BY <2>2, <3>1 DEF DeriveCommandStatus
  <2> QED
    BY <2>1, <2>3, <2>4, <2>5, <2>6 DEF ItemOK, FlagsOK, WaitsOK
<1> QED
  BY <1>1, <1>2, <1>3, QueueInvInductive, PTL DEF Spec

-----------------------------------------------------------------------------
(* That no doneChan is closed twice as long as nobody waits for a command  *)
(* in restart mode.  A channel travels from the item that a call creates   *)
(* to the goroutine that runs it; the proof is that it has one owner.      *)

\* Nobody waits for a restart command.  The code does not enforce it.
NoRestartWait ==
    \A kind \in CallKinds, c \in Commands :
        <<kind, c>> \in Calls /\ Waits(kind) => Mode[c] # "restart"

\* The holders of channel r: items that ask to be run, and goroutines.
ItemHolds(c, r) == c \in queued /\ item[c].runRequested /\ item[c].chan = r
WorkerHolds(w, r) == worker[w].pc # "idle" /\ worker[w].chan = r

\* A channel has one holder and is open while it has one; items and
\* goroutines of restart commands have no channel; a call that has not
\* begun has not made its channel yet.
ChannelInv ==
    /\ \A c \in queued : item[c].chan # None => Mode[c] # "restart"
    /\ \A w \in Workers : WorkerHolds(w, worker[w].chan) /\ worker[w].chan # None =>
          Mode[worker[w].cmd] # "restart"
    /\ \A r \in Requests :
          /\ req[r].pc = "idle" => doneChan[r] = "none"
          /\ \A c \in Commands : ItemHolds(c, r) => doneChan[r] = "open"
          /\ \A w \in Workers : WorkerHolds(w, r) => doneChan[r] = "open"
          /\ \A c, d \in Commands : ItemHolds(c, r) /\ ItemHolds(d, r) => c = d
          /\ \A v, w \in Workers : WorkerHolds(v, r) /\ WorkerHolds(w, r) => v = w
          /\ \A c \in Commands, w \in Workers : ~(ItemHolds(c, r) /\ WorkerHolds(w, r))
    /\ ClosedOnce

\* Steps that leave the queue's requested items, the goroutines' channels
\* and the calls' channels alone keep the channel invariant.
LEMMA ChannelFrame ==
    ASSUME QueueInv, ChannelInv,
           UNCHANGED <<queued, doneChan>>,
           \A c \in queued : item'[c].chan = item[c].chan,
           \A c \in queued : item'[c].chan # None /\ item'[c].runRequested => item[c].runRequested,
           \A w \in Workers : worker'[w].pc = "idle" \/
              (worker[w].pc # "idle" /\ worker'[w].chan = worker[w].chan /\ worker'[w].cmd = worker[w].cmd),
           \A r \in Requests : req'[r].pc = "idle" => req[r].pc = "idle"
    PROVE  ChannelInv'
<1>1. ASSUME NEW r \in Requests
      PROVE  /\ \A c \in Commands : ItemHolds(c, r)' => ItemHolds(c, r)
             /\ \A w \in Workers : WorkerHolds(w, r)' => WorkerHolds(w, r)
  BY <1>1, ClientsAssumption DEF ItemHolds, WorkerHolds
<1>2. /\ \A c \in queued' : item'[c].chan # None => Mode[c] # "restart"
      /\ \A w \in Workers : WorkerHolds(w, worker[w].chan)' /\ worker'[w].chan # None =>
            Mode[worker'[w].cmd] # "restart"
  BY DEF ChannelInv, WorkerHolds
<1>3. ASSUME NEW r \in Requests
      PROVE  /\ req'[r].pc = "idle" => doneChan'[r] = "none"
             /\ \A c \in Commands : ItemHolds(c, r)' => doneChan'[r] = "open"
             /\ \A w \in Workers : WorkerHolds(w, r)' => doneChan'[r] = "open"
             /\ \A c, d \in Commands : ItemHolds(c, r)' /\ ItemHolds(d, r)' => c = d
             /\ \A v, w \in Workers : WorkerHolds(v, r)' /\ WorkerHolds(w, r)' => v = w
             /\ \A c \in Commands, w \in Workers : ~(ItemHolds(c, r)' /\ WorkerHolds(w, r)')
  BY <1>1, <1>3 DEF ChannelInv
<1>4. ClosedOnce'
  BY DEF ChannelInv, ClosedOnce
<1>5. \A w \in Workers : worker'[w].pc # "idle" /\ worker'[w].chan # None =>
            Mode[worker'[w].cmd] # "restart"
  BY <1>2 DEF ChannelInv, WorkerHolds
<1> QED
  BY <1>2, <1>3, <1>4, <1>5 DEF ChannelInv, ItemHolds, WorkerHolds

\* The types of the variables the channel invariant speaks of.
LEMMA ChannelTypes ==
    ASSUME QueueInv
    PROVE  /\ queued \subseteq Commands
           /\ item \in [Commands -> Item]
           /\ worker \in [Workers -> WorkerState]
           /\ req \in [Requests -> RequestState]
           /\ doneChan \in [Requests -> {"none", "open", "ok", "failed", "panic"}]
BY DEF QueueInv, TypeOK

\* A new item takes a channel nobody holds, or none.
LEMMA EnqueueChannel ==
    ASSUME QueueInv, ChannelInv, NEW c \in Commands, NEW chan \in Requests \cup {None},
           Enqueue(c, chan), UNCHANGED worker,
           chan # None => Mode[c] # "restart" /\ doneChan[chan] = "none",
           doneChan' = [r \in Requests |-> IF r = chan THEN "open" ELSE doneChan[r]],
           \A r \in Requests : req'[r].pc = "idle" => req[r].pc = "idle" /\ r # chan
    PROVE  ChannelInv'
<1>1. /\ item'[c].runRequested /\ item'[c].chan = chan
      /\ \A d \in Commands \ {c} : item'[d] = item[d]
      /\ queued' = queued \cup {c}
  BY EnqueueInv
<1>2. \A r \in Requests : ~ItemHolds(c, r)
  BY Replaceable DEF Enqueue, ItemHolds
<1>3. \A d \in Commands \ {c}, r \in Requests : ItemHolds(d, r)' => ItemHolds(d, r)
  BY <1>1 DEF ItemHolds
<1>4. \A r \in Requests : ItemHolds(c, r)' => r = chan
  BY <1>1 DEF ItemHolds
<1>5. \A w \in Workers, r \in Requests : WorkerHolds(w, r)' <=> WorkerHolds(w, r)
  BY DEF WorkerHolds
<1>6. chan \in Requests => /\ \A d \in Commands : ~ItemHolds(d, chan)
                           /\ \A w \in Workers : ~WorkerHolds(w, chan)
  BY ClientsAssumption DEF ChannelInv
<1>7. \A d \in queued' : item'[d].chan # None => Mode[d] # "restart"
  BY <1>1, ChannelTypes DEF ChannelInv
<1>8. \A w \in Workers : WorkerHolds(w, worker[w].chan)' /\ worker'[w].chan # None =>
          Mode[worker'[w].cmd] # "restart"
  BY DEF ChannelInv, WorkerHolds
<1>9. ASSUME NEW r \in Requests
      PROVE  /\ req'[r].pc = "idle" => doneChan'[r] = "none"
             /\ \A d \in Commands : ItemHolds(d, r)' => doneChan'[r] = "open"
             /\ \A w \in Workers : WorkerHolds(w, r)' => doneChan'[r] = "open"
             /\ \A d, e \in Commands : ItemHolds(d, r)' /\ ItemHolds(e, r)' => d = e
             /\ \A v, w \in Workers : WorkerHolds(v, r)' /\ WorkerHolds(w, r)' => v = w
             /\ \A d \in Commands, w \in Workers : ~(ItemHolds(d, r)' /\ WorkerHolds(w, r)')
  BY <1>2, <1>3, <1>4, <1>5, <1>6, <1>9 DEF ChannelInv
<1>10. ClosedOnce'
  BY DEF ChannelInv, ClosedOnce
<1> QED
  BY <1>7, <1>8, <1>9, <1>10 DEF ChannelInv, ItemHolds, WorkerHolds

\* A goroutine takes the channel over from the item it runs.
LEMMA LaunchChannel ==
    ASSUME QueueInv, ChannelInv, NEW w \in Workers, Launch(w)
    PROVE  ChannelInv'
<1> USE DEF queueVars, recordVars, passVars, clientVars
<1> PICK c \in Commands : c = pass.cmd
  BY DEF QueueInv, PassInv, Launch
<1>1. /\ c \in queued /\ item[c].runRequested /\ c # None
      /\ worker[w].pc = "idle"
      /\ UNCHANGED <<queued, doneChan, req>>
  BY ClientsAssumption DEF Launch, QueueInv, PassInv
<1>2. /\ ~item'[c].runRequested /\ item'[c].chan = item[c].chan
      /\ \A d \in Commands \ {c} : item'[d] = item[d]
  BY ChannelTypes DEF Launch, AsRunning, Item
<1>3. /\ worker'[w].pc = "run" /\ worker'[w].chan = item[c].chan /\ worker'[w].cmd = c
      /\ \A v \in Workers \ {w} : worker'[v] = worker[v]
  BY ChannelTypes DEF Launch
<1>4. \A r \in Requests : /\ ~ItemHolds(c, r)'
                          /\ \A d \in Commands \ {c} : ItemHolds(d, r)' <=> ItemHolds(d, r)
  BY <1>1, <1>2 DEF ItemHolds
<1>5. \A r \in Requests : /\ WorkerHolds(w, r)' <=> ItemHolds(c, r)
                          /\ ~WorkerHolds(w, r)
                          /\ \A v \in Workers \ {w} : WorkerHolds(v, r)' <=> WorkerHolds(v, r)
  BY <1>1, <1>3 DEF ItemHolds, WorkerHolds
<1>6. \A d \in queued' : item'[d].chan # None => Mode[d] # "restart"
  BY <1>1, <1>2, ChannelTypes DEF ChannelInv
<1>7. \A v \in Workers : worker'[v].pc # "idle" /\ worker'[v].chan # None =>
          Mode[worker'[v].cmd] # "restart"
  BY <1>1, <1>3 DEF ChannelInv, WorkerHolds
<1>8. ASSUME NEW r \in Requests
      PROVE  /\ req'[r].pc = "idle" => doneChan'[r] = "none"
             /\ \A d \in Commands : ItemHolds(d, r)' => doneChan'[r] = "open"
             /\ \A v \in Workers : WorkerHolds(v, r)' => doneChan'[r] = "open"
             /\ \A d, e \in Commands : ItemHolds(d, r)' /\ ItemHolds(e, r)' => d = e
             /\ \A u, v \in Workers : WorkerHolds(u, r)' /\ WorkerHolds(v, r)' => u = v
             /\ \A d \in Commands, v \in Workers : ~(ItemHolds(d, r)' /\ WorkerHolds(v, r)')
  BY <1>1, <1>4, <1>5, <1>8 DEF ChannelInv
<1>9. ClosedOnce'
  BY <1>1 DEF ChannelInv, ClosedOnce
<1> QED
  BY <1>6, <1>7, <1>8, <1>9 DEF ChannelInv, ItemHolds, WorkerHolds

\* A goroutine that ends closes its channel, which was open, and gives it up.
LEMMA ExitChannel ==
    ASSUME QueueInv, ChannelInv, NEW w \in Workers, Exit(w)
    PROVE  ChannelInv'
<1> USE DEF queueVars, recordVars, passVars, clientVars
<1>1. UNCHANGED <<queued, item, req>> /\ worker[w].pc = "exit"
  BY DEF Exit
<1>2. worker'[w].pc = "idle" /\ \A v \in Workers \ {w} : worker'[v] = worker[v]
  BY ChannelTypes DEF Exit, IdleWorker
<1>3. CASE worker[w].chan = None
  <2>1. UNCHANGED doneChan
    BY <1>3 DEF Exit
  <2> QED
    BY <1>1, <1>2, <2>1, ChannelFrame
<1>4. CASE worker[w].chan # None
  <2> PICK r \in Requests : r = worker[w].chan
    BY <1>4, ChannelTypes DEF WorkerState
  <2>1. WorkerHolds(w, r) /\ doneChan[r] = "open" /\ req[r].pc # "idle"
    BY <1>1 DEF WorkerHolds, ChannelInv
  <2>2. doneChan'[r] \in {"ok", "failed"} /\ \A q \in Requests \ {r} : doneChan'[q] = doneChan[q]
    BY <1>4, <2>1, ChannelTypes DEF Exit, CloseDoneChan
  <2>3. ASSUME NEW q \in Requests
        PROVE  /\ \A c \in Commands : ItemHolds(c, q)' <=> ItemHolds(c, q)
               /\ ~WorkerHolds(w, q)'
               /\ \A v \in Workers \ {w} : WorkerHolds(v, q)' <=> WorkerHolds(v, q)
    BY <1>1, <1>2 DEF ItemHolds, WorkerHolds
  <2>4. \A d \in queued' : item'[d].chan # None => Mode[d] # "restart"
    BY <1>1 DEF ChannelInv
  <2>5. \A v \in Workers : worker'[v].pc # "idle" /\ worker'[v].chan # None =>
            Mode[worker'[v].cmd] # "restart"
    BY <1>2 DEF ChannelInv, WorkerHolds
  <2>6. ASSUME NEW q \in Requests
        PROVE  /\ req'[q].pc = "idle" => doneChan'[q] = "none"
               /\ \A d \in Commands : ItemHolds(d, q)' => doneChan'[q] = "open"
               /\ \A v \in Workers : WorkerHolds(v, q)' => doneChan'[q] = "open"
               /\ \A d, e \in Commands : ItemHolds(d, q)' /\ ItemHolds(e, q)' => d = e
               /\ \A u, v \in Workers : WorkerHolds(u, q)' /\ WorkerHolds(v, q)' => u = v
               /\ \A d \in Commands, v \in Workers : ~(ItemHolds(d, q)' /\ WorkerHolds(v, q)')
    BY <1>1, <2>1, <2>2, <2>3, <2>6 DEF ChannelInv
  <2>7. ClosedOnce'
    BY <2>2 DEF ChannelInv, ClosedOnce
  <2> QED
    BY <2>4, <2>5, <2>6, <2>7 DEF ChannelInv, ItemHolds, WorkerHolds
<1> QED
  BY <1>3, <1>4

\* What a goroutine does before it ends moves no channel.
LEMMA GoroutineChannel ==
    ASSUME QueueInv, ChannelInv, NEW w \in Workers, Goroutine(w)
    PROVE  ChannelInv'
<1> USE DEF queueVars, recordVars, passVars, clientVars
<1>1. CASE Exit(w)
  BY <1>1, ExitChannel
<1>2. CASE ~Exit(w)
  <2>1. UNCHANGED <<queued, doneChan, req>>
    BY <1>2 DEF Goroutine, ReportRunning, ReportFinished, Fail, SettleError, SettleDone,
                SettlePersistent, SettleRestart, EndBackoff
  <2>2. ASSUME NEW v \in Workers
        PROVE  worker'[v].pc = "idle" \/
                 (worker[v].pc # "idle" /\ worker'[v].chan = worker[v].chan
                                        /\ worker'[v].cmd = worker[v].cmd)
    <3>1. \/ worker' = worker
          \/ \E p \in Procedures : worker' = [worker EXCEPT ![w].left = @ \ {p}]
          \/ \E pc \in {"failed", "retry", "exit", "backoff"} : worker' = [worker EXCEPT ![w].pc = pc]
          \/ \E pc \in {"exit", "backoff"}, ok \in BOOLEAN :
                worker' = [worker EXCEPT ![w].pc = pc, ![w].ok = ok]
      BY <1>2 DEF Goroutine, ReportRunning, ReportFinished, Fail, SettleError, SettleDone,
                  SettlePersistent, SettleRestart, EndBackoff
    <3>2. worker[w].pc # "idle"
      BY DEF Goroutine, ReportRunning, ReportFinished, Fail, SettleError, SettleDone,
             SettlePersistent, SettleRestart, EndBackoff, Exit, Succeeded
    <3> QED
      BY <3>1, <3>2, ChannelTypes DEF WorkerState
  <2>3. ASSUME NEW c \in queued
        PROVE  /\ item'[c].chan = item[c].chan
               /\ item'[c].chan # None /\ item'[c].runRequested => item[c].runRequested
    <3>1. \/ item' = item
          \/ item' = [item EXCEPT ![worker[w].cmd] = AsError(@)]
          \/ item' = [item EXCEPT ![worker[w].cmd] = AsDone(@)]
          \/ /\ item' = [item EXCEPT ![worker[w].cmd] = AsWaiting(@)]
             /\ Mode[worker[w].cmd] = "restart"
      BY <1>2 DEF Goroutine, ReportRunning, ReportFinished, Fail, SettleError, SettleDone,
                  SettlePersistent, SettleRestart, EndBackoff
    <3>2. item[c] \in Item /\ c \in Commands
      BY ChannelTypes
    <3>3. CASE c # worker[w].cmd
      <4>1. item'[c] = item[c]
        BY <3>1, <3>2, <3>3, ChannelTypes
      <4> QED
        BY <4>1
    <3>4. CASE c = worker[w].cmd
      <4>1. \/ item'[c] = item[c]
            \/ item'[c] = AsError(item[c])
            \/ item'[c] = AsDone(item[c])
            \/ item'[c] = AsWaiting(item[c]) /\ item[c].chan = None
        BY <3>1, <3>2, <3>4, ChannelTypes DEF ChannelInv
      <4>2. /\ AsError(item[c]).chan = item[c].chan
            /\ AsError(item[c]).runRequested = item[c].runRequested
            /\ AsDone(item[c]).chan = item[c].chan
            /\ ~AsDone(item[c]).runRequested
            /\ AsWaiting(item[c]).chan = item[c].chan
        BY <3>2 DEF AsError, AsDone, AsWaiting, Item
      <4> QED
        BY <4>1, <4>2
    <3> QED
      BY <3>3, <3>4
  <2> QED
    BY <2>1, <2>2, <2>3, ChannelFrame
<1> QED
  BY <1>1, <1>2

\* Only an accepted call that waits makes a channel; it makes a new one.
LEMMA ClientChannel ==
    ASSUME NoRestartWait, QueueInv, ChannelInv, NEW r \in Requests, Client(r)
    PROVE  ChannelInv'
<1> USE DEF queueVars, recordVars, passVars, clientVars
<1>1. CASE AddQueueItem(r)
  <2> PICK c \in Commands, kind \in CallKinds :
           <<kind, c>> \in Calls /\ (Accept(r, c, kind) \/ Refuse(r, c, kind))
    BY <1>1 DEF AddQueueItem
  <2>1. req[r].pc = "idle" /\ UNCHANGED worker /\ doneChan[r] = "none"
    BY <1>1 DEF AddQueueItem, ChannelInv
  <2>2. CASE Refuse(r, c, kind)
    <3>1. UNCHANGED <<queued, item, doneChan, worker>>
      BY <2>1, <2>2 DEF Refuse
    <3>2. \A q \in Requests : req'[q].pc = "idle" => req[q].pc = "idle"
      BY <2>2, ChannelTypes DEF Refuse
    <3> QED
      BY <3>1, <3>2, ChannelFrame
  <2>3. CASE Accept(r, c, kind) /\ Waits(kind)
    <3>1. Enqueue(c, r) /\ doneChan' = [doneChan EXCEPT ![r] = "open"]
      BY <2>3 DEF Accept
    <3>2. doneChan' = [q \in Requests |-> IF q = r THEN "open" ELSE doneChan[q]]
      BY <3>1, ChannelTypes
    <3>3. \A q \in Requests : req'[q].pc = "idle" => req[q].pc = "idle" /\ q # r
      BY <2>3, ChannelTypes DEF Accept
    <3>4. Mode[c] # "restart"
      BY <2>3 DEF NoRestartWait
    <3> QED
      BY <2>1, <3>1, <3>2, <3>3, <3>4, EnqueueChannel
  <2>4. CASE Accept(r, c, kind) /\ ~Waits(kind)
    <3>1. Enqueue(c, None) /\ doneChan' = doneChan
      BY <2>4, ChannelTypes DEF Accept
    <3>2. doneChan' = [q \in Requests |-> IF q = None THEN "open" ELSE doneChan[q]]
      BY <3>1, ChannelTypes, ClientsAssumption
    <3>3. \A q \in Requests : req'[q].pc = "idle" => req[q].pc = "idle" /\ q # None
      BY <2>4, ChannelTypes, ClientsAssumption DEF Accept
    <3> QED
      BY <2>1, <3>1, <3>2, <3>3, EnqueueChannel
  <2> QED
    BY <2>2, <2>3, <2>4
<1>2. CASE ~AddQueueItem(r)
  <2>1. UNCHANGED <<queued, item, worker, doneChan>>
    BY <1>2 DEF Client, Trigger, StartRunQueue, WaitOrReturn, Await, ReadResult, RegisterNotifier,
                WaitUntilEmpty, ReceiveEmpty, CancelWait
  <2>2. \E pc \in {"start", "await", "read", "done", "empty"} : req'[r].pc = pc
    BY <1>2, ChannelTypes DEF Client, Trigger, StartRunQueue, WaitOrReturn, Await, ReadResult,
                              RegisterNotifier, WaitUntilEmpty, ReceiveEmpty, CancelWait, Finish,
                              RequestState
  <2>3. \A q \in Requests \ {r} : req'[q] = req[q]
    BY <1>2, ChannelTypes DEF Client, Trigger, StartRunQueue, WaitOrReturn, Await, ReadResult,
                              RegisterNotifier, WaitUntilEmpty, ReceiveEmpty, CancelWait, Finish
  <2> QED
    BY <2>1, <2>2, <2>3, ChannelFrame
<1> QED
  BY <1>1, <1>2

\* A pass makes items without a channel and hands channels to goroutines.
LEMMA RunQueueChannel ==
    ASSUME QueueInv, ChannelInv, RunQueue
    PROVE  ChannelInv'
<1> USE DEF queueVars, recordVars, passVars, clientVars
<1>1. CASE UNCHANGED <<queued, item, worker, doneChan, req>>
  BY <1>1, ChannelFrame
<1>2. ASSUME NEW d \in Commands, CheckNeed(d) PROVE ChannelInv'
  <2>1. CASE Enqueue(d, None)
    <3>1. UNCHANGED <<worker, doneChan, req>>
      BY <1>2 DEF CheckNeed
    <3>2. doneChan' = [q \in Requests |-> IF q = None THEN "open" ELSE doneChan[q]]
      BY <3>1, ChannelTypes, ClientsAssumption
    <3>3. \A q \in Requests : req'[q].pc = "idle" => req[q].pc = "idle" /\ q # None
      BY <3>1, ClientsAssumption
    <3> QED
      BY <2>1, <3>1, <3>2, <3>3, EnqueueChannel
  <2>2. CASE ~Enqueue(d, None)
    BY <1>1, <1>2, <2>2 DEF CheckNeed
  <2> QED
    BY <2>1, <2>2
<1>3. CASE StartPass \/ SkipCommand \/ EndPass \/ Notify \/ \E c \in Commands : PickCommand(c)
  BY <1>1, <1>3 DEF StartPass, SkipCommand, EndPass, Notify, PickCommand
<1> QED
  BY <1>2, <1>3, LaunchChannel DEF RunQueue

\* Channels have one owner at the start and after every step.
LEMMA ChannelInvInductive ==
    ASSUME NoRestartWait
    PROVE  (Init => ChannelInv) /\ (QueueInv /\ ChannelInv /\ [Next]_vars => ChannelInv')
<1>1. Init => ChannelInv
  BY DEF Init, NoCall, Blank, IdleWorker, ChannelInv, ItemHolds, WorkerHolds, ClosedOnce
<1>2. ASSUME QueueInv, ChannelInv, [Next]_vars PROVE ChannelInv'
  <2>1. CASE Start \/ UNCHANGED vars
    <3>1. UNCHANGED <<queued, item, worker, doneChan, req>>
      BY <2>1 DEF Start, vars, queueVars, passVars, clientVars
    <3> QED
      BY <1>2, <3>1, ChannelFrame
  <2> QED
    BY <1>2, <2>1, ClientChannel, RunQueueChannel, GoroutineChannel DEF Next
<1> QED
  BY <1>1, <1>2

\* A channel is closed at most once in every queue in which nobody waits
\* for a restart command: the daemon cannot panic on it.
THEOREM ClosedOnceSafe ==
    ASSUME NoRestartWait
    PROVE  Spec => []ClosedOnce
<1>1. ChannelInv => ClosedOnce
  BY DEF ChannelInv
<1> QED
  BY <1>1, ChannelInvInductive, QueueInvInductive, PTL DEF Spec
=============================================================================
