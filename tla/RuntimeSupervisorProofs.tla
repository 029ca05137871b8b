------------------------ MODULE RuntimeSupervisorProofs ------------------------
(***************************************************************************)
(* The supervisor under every interleaving of operations, workers,         *)
(* sessions and crashes: an action's channel gets at most one result and a *)
(* report reaches at most one call; every step finds the session and the   *)
(* record it works on; and a published package stays in the store.         *)
(***************************************************************************)
EXTENDS RuntimeSupervisor, TLAPS

\* The variables of the callbacks are functions on the calls; what the fields
\* of a call hold does not matter here.
CallShape ==
    /\ call = [c \in Calls |-> [pc |-> call[c].pc, artifact |-> call[c].artifact,
                                result |-> call[c].result]]
    /\ chan = [c \in Calls |-> chan[c]]
    /\ worker = [c \in Calls |-> worker[c]]
    /\ pending \in Calls \cup {None}

\* The worker of c has done its report.
Reported(c) == worker[c] \notin {"none", "pulling", "pulled", "error"}

\* A call that has not registered has no result, and no worker before it has
\* spawned one; a pending action is that of a call that has registered; and
\* what is in a channel comes from a call whose worker has reported.
CallHistory ==
    /\ \A c \in Calls : call[c].pc = "idle" => chan[c] = NoResult
    /\ \A c \in Calls : call[c].pc \in {"idle", "spawn"} => worker[c] = "none"
    /\ pending # None => call[pending].pc # "idle"
    /\ \A c \in Calls : chan[c] # NoResult => chan[c].from \in Calls /\ Reported(chan[c].from)

CallInv == CallShape /\ CallHistory /\ ChannelFree /\ ReportDeliveredOnce
-----------------------------------------------------------------------------
\* A call with its program counter moved.
LEMMA CallMoved ==
    ASSUME CallShape, NEW c \in Calls, NEW pc, CallTo(c, pc)
    PROVE  /\ call' = [d \in Calls |-> [pc |-> call'[d].pc, artifact |-> call'[d].artifact,
                                        result |-> call'[d].result]]
           /\ call'[c].pc = pc
           /\ \A d \in Calls \ {c} : call'[d].pc = call[d].pc
  BY DEF CallShape, CallTo

LEMMA CallReturned ==
    ASSUME CallShape, NEW c \in Calls, NEW result, ReturnCall(c, result)
    PROVE  /\ call' = [d \in Calls |-> [pc |-> call'[d].pc, artifact |-> call'[d].artifact,
                                        result |-> call'[d].result]]
           /\ call'[c].pc = "done"
           /\ \A d \in Calls \ {c} : call'[d].pc = call[d].pc
  BY DEF CallShape, ReturnCall, Ended

\* A step that leaves the callbacks alone.
LEMMA CallsUnchanged == CallInv /\ UNCHANGED <<pending, call, chan, worker>> => CallInv'
  BY DEF CallInv, CallShape, CallHistory, Reported, ChannelFree, ReportDeliveredOnce, NoResult

LEMMA CallInitial == SupervisorInit => CallInv
  <1>1. SUFFICES ASSUME SupervisorInit PROVE CallInv
    OBVIOUS
  <1>2. CallShape
    BY <1>1 DEF SupervisorInit, CallInit, CallShape
  <1>3. CallHistory /\ ChannelFree /\ ReportDeliveredOnce
    BY <1>1 DEF SupervisorInit, CallInit, CallHistory, ChannelFree, ReportDeliveredOnce
  <1>4. QED
    BY <1>2, <1>3 DEF CallInv

LEMMA RegisterKeeps ==
    ASSUME CallsAssumption, CallInv, NEW c \in Calls, NEW a, Register(c, a)
    PROVE  CallInv'
  <1>1. /\ call[c].pc = "idle" /\ call'[c].pc \in {"spawn", "done"}
        /\ \A d \in Calls \ {c} : call'[d] = call[d]
        /\ call' = [d \in Calls |-> [pc |-> call'[d].pc, artifact |-> call'[d].artifact,
                                     result |-> call'[d].result]]
    BY DEF Register, CallInv, CallShape
  <1>2. UNCHANGED <<chan, worker>> /\ pending' \in {pending, c}
    BY DEF Register
  <1>3. CallShape'
    BY <1>1, <1>2 DEF CallInv, CallShape
  <1>4. CallHistory'
    BY <1>1, <1>2 DEF CallInv, CallShape, CallHistory, Reported, NoResult
  <1>5. ChannelFree' /\ ReportDeliveredOnce'
    BY <1>1, <1>2 DEF CallInv, CallHistory, ChannelFree, ReportDeliveredOnce, NoResult
  <1>6. QED
    BY <1>3, <1>4, <1>5 DEF CallInv

\* Steps of a call after it has registered: none gives it a result, and what
\* it does to its worker does not take back a report.
LEMMA CallStepKeeps ==
    ASSUME CallsAssumption, CallInv, NEW c \in Calls, PullCall(c)
    PROVE  CallInv'
  <1>1. /\ call[c].pc \notin {"idle"} /\ call'[c].pc \notin {"idle", "spawn"}
        /\ \A d \in Calls \ {c} : call'[d].pc = call[d].pc
        /\ call' = [d \in Calls |-> [pc |-> call'[d].pc, artifact |-> call'[d].artifact,
                                     result |-> call'[d].result]]
    BY CallMoved, CallReturned
    DEF PullCall, SpawnFails, StartWorker, SpawnReturns, SpawnTimesOut, Receive, WaitTimesOut,
        Cancel, CallInv
  <1>2. UNCHANGED chan /\ pending' \in {pending, None}
    BY DEF PullCall, SpawnFails, StartWorker, SpawnReturns, SpawnTimesOut, Receive, WaitTimesOut,
        Cancel
  <1>3. /\ worker' = [d \in Calls |-> worker'[d]]
        /\ \A d \in Calls \ {c} : worker'[d] = worker[d]
        /\ Reported(c) => Reported(c)'
    BY DEF PullCall, SpawnFails, StartWorker, SpawnReturns, SpawnTimesOut, Receive, WaitTimesOut,
        Cancel, CallInv, CallShape, CallHistory, Reported
  <1>4. CallShape'
    BY <1>1, <1>2, <1>3 DEF CallInv, CallShape
  <1>5. CallHistory'
    BY <1>1, <1>2, <1>3 DEF CallInv, CallHistory, Reported, NoResult, CallShape
  <1>6. ChannelFree' /\ ReportDeliveredOnce'
    BY <1>1, <1>2 DEF CallInv, ChannelFree, ReportDeliveredOnce, NoResult
  <1>7. QED
    BY <1>4, <1>5, <1>6 DEF CallInv

\* A worker that has not reported is in nobody's channel, so its report is new
\* and goes to a channel that is empty.
LEMMA WorkerStepKeeps ==
    ASSUME CallsAssumption, CallInv, NEW c \in Calls, Worker(c)
    PROVE  CallInv'
  <1>1. UNCHANGED call
    BY DEF Worker, Pull, PullFails, Report, ReportRefused
  <1>2. /\ worker[c] \in {"pulling", "pulled", "error"}
        /\ worker'[c] # "none"
        /\ worker' = [d \in Calls |-> worker'[d]]
        /\ \A d \in Calls \ {c} : worker'[d] = worker[d]
    BY DEF Worker, Pull, PullFails, Report, ReportRefused, CallInv, CallShape
  <1>3. CASE Report(c)
    <2> DEFINE result == [from |-> c, ok |-> worker[c] = "pulled"]
    <2>1. /\ pending \in Calls /\ pending' = None
          /\ chan' = [chan EXCEPT ![pending] = result]
          /\ Reported(c)'
      BY <1>3, <1>2 DEF Report, CallInv, CallShape, Reported
    <2>2. result # NoResult /\ result.from = c
      BY CallsAssumption DEF NoResult
    <2>3. /\ chan' = [d \in Calls |-> chan'[d]]
          /\ chan'[pending] = result
          /\ \A d \in Calls \ {pending} : chan'[d] = chan[d]
      BY <2>1 DEF CallInv, CallShape
    <2>4. \A d \in Calls : chan[d] # NoResult => chan[d].from # c
      BY <1>2 DEF CallInv, CallHistory, Reported
    <2>5. CallShape'
      BY <1>1, <1>2, <2>1, <2>3 DEF CallInv, CallShape
    <2>6. CallHistory'
      <3>1. \A d \in Calls : call[d].pc = "idle" => d # pending /\ chan'[d] = NoResult
        BY <2>1, <2>3 DEF CallInv, CallHistory
      <3>2. \A d \in Calls : call[d].pc \in {"idle", "spawn"} => worker'[d] = "none"
        BY <1>2 DEF CallInv, CallHistory
      <3>3. \A d \in Calls : Reported(d) => Reported(d)'
        BY <1>2, <2>1 DEF Reported
      <3>4. \A d \in Calls : chan'[d] # NoResult =>
                chan'[d].from \in Calls /\ (chan'[d].from = c \/ Reported(chan'[d].from))
        BY <2>2, <2>3 DEF CallInv, CallHistory
      <3>5. \A d \in Calls : chan'[d] # NoResult =>
                chan'[d].from \in Calls /\ worker'[chan'[d].from] \notin {"none", "pulling", "pulled", "error"}
        BY <2>1, <3>3, <3>4 DEF Reported
      <3>6. QED
        BY <1>1, <2>1, <3>1, <3>2, <3>5 DEF CallHistory, Reported, NoResult
    <2>7. ChannelFree' /\ ReportDeliveredOnce'
      BY <2>1, <2>2, <2>3, <2>4 DEF CallInv, ChannelFree, ReportDeliveredOnce, NoResult
    <2>8. QED
      BY <2>5, <2>6, <2>7 DEF CallInv
  <1>4. CASE ~Report(c)
    <2>1. UNCHANGED <<pending, chan>>
      BY <1>4 DEF Worker, Pull, PullFails, ReportRefused
    <2>2. CallShape'
      BY <1>1, <1>2, <2>1 DEF CallInv, CallShape
    <2>3. CallHistory'
      BY <1>1, <1>2, <2>1 DEF CallInv, CallHistory, Reported, NoResult
    <2>4. ChannelFree' /\ ReportDeliveredOnce'
      BY <2>1 DEF CallInv, ChannelFree, ReportDeliveredOnce, NoResult
    <2>5. QED
      BY <2>2, <2>3, <2>4 DEF CallInv
  <1>5. QED
    BY <1>3, <1>4

\* After a crash no action is pending; reports that were delivered stay so.
LEMMA CrashKeeps == CallInv /\ Crash => CallInv'
  <1>1. SUFFICES ASSUME CallInv, Crash PROVE CallInv'
    OBVIOUS
  <1>2. UNCHANGED <<chan, worker>> /\ pending' = None
    BY <1>1 DEF Crash
  <1>3. /\ \A c \in Calls : call'[c].pc \in {call[c].pc, "done"}
        /\ call' = [d \in Calls |-> [pc |-> call'[d].pc, artifact |-> call'[d].artifact,
                                     result |-> call'[d].result]]
    BY <1>1 DEF Crash, Ended, CallInv, CallShape
  <1>4. CallShape'
    BY <1>1, <1>2, <1>3 DEF CallInv, CallShape
  <1>5. CallHistory'
    BY <1>1, <1>2, <1>3 DEF CallInv, CallHistory, Reported, NoResult
  <1>6. ChannelFree' /\ ReportDeliveredOnce'
    BY <1>1, <1>2 DEF CallInv, ChannelFree, ReportDeliveredOnce, NoResult
  <1>7. QED
    BY <1>4, <1>5, <1>6 DEF CallInv

\* The steps of an operation outside its pull do not touch the callbacks.
LEMMA OperationKeeps ==
    ASSUME CallsAssumption, CallInv, NEW o \in Calls, Operation(o)
    PROVE  CallInv'
  <1>1. CASE PullBegin(o)
    BY <1>1, RegisterKeeps DEF PullBegin
  <1>2. CASE ~PullBegin(o)
    <2>1. CASE Begin(o) \/ Find(o) \/ Make(o) \/ Cache(o) \/ Uncache(o)
      BY <2>1, CallsUnchanged DEF Begin, Find, Make, Cache, Uncache, workerVars
    <2>2. CASE Lookup(o) \/ Insert(o) \/ Detach(o) \/ Drain(o) \/ BackendStop(o)
      BY <2>2, CallsUnchanged DEF Lookup, Insert, Detach, Drain, BackendStop, workerVars
    <2>3. CASE PullFailed(o) \/ Apply(o) \/ Remove(o) \/ Forget(o)
      BY <2>3, CallsUnchanged DEF PullFailed, Apply, Remove, Forget, workerVars
    <2>4. CASE \/ StopBegin(o) \/ StopDrain(o) \/ StopBackend(o) \/ StopStore(o) \/ Quiesce(o)
               \/ RestoreBegin(o) \/ ApplyRestore(o)
      BY <2>4, CallsUnchanged
      DEF StopBegin, StopDrain, StopBackend, StopStore, Quiesce, RestoreBegin, ApplyRestore,
          workerVars
    <2>5. CASE Serve(o) \/ FinishStart(o) \/ Run(o) \/ Await(o)
      BY <2>5, CallsUnchanged DEF Serve, FinishStart, Run, Await, workerVars
    <2>6. CASE \/ UILookup(o) \/ UIAdd(o) \/ UIQueue(o) \/ UIAwait(o) \/ UIRead(o)
               \/ UIStore(o) \/ UIRemove(o) \/ UIRemoved(o)
      BY <2>6, CallsUnchanged
      DEF UILookup, UIAdd, UIQueue, UIAwait, UIRead, UIStore, UIRemove, UIRemoved, workerVars
    <2>7. QED
      BY <1>2, <2>1, <2>2, <2>3, <2>4, <2>5, <2>6 DEF Operation
  <1>3. QED
    BY <1>1, <1>2

\* CallInv is inductive.
LEMMA CallInvariance == SupervisorSpec => []CallInv
  <1>1. CallInv /\ [SupervisorNext]_allVars => CallInv'
    <2> SUFFICES ASSUME CallInv, [SupervisorNext]_allVars PROVE CallInv'
      OBVIOUS
    <2> USE CallsAssumption
    <2>1. CASE \E o \in Calls : Operation(o)
      BY <2>1, OperationKeeps
    <2>2. CASE \E o \in Calls : (PullCall(o) \/ Worker(o)) /\ UNCHANGED supervisorVars
      BY <2>2, CallStepKeeps, WorkerStepKeeps
    <2>3. CASE \E s \in Sessions, c \in Commands : SessionRun(s, c) \/ SessionEnd(s, c)
      BY <2>3, CallsUnchanged DEF SessionRun, SessionEnd, workerVars
    <2>4. CASE Crash
      BY <2>4, CrashKeeps
    <2>5. CASE Boot
      BY <2>5, CallsUnchanged DEF Boot, workerVars
    <2>6. CASE UNCHANGED allVars
      BY <2>6, CallsUnchanged DEF allVars, workerVars
    <2>7. QED
      BY <2>1, <2>2, <2>3, <2>4, <2>5, <2>6 DEF SupervisorNext
  <1>2. QED
    BY <1>1, CallInitial, PTL DEF SupervisorSpec

\* The channel of a pending action is empty: the send in Complete, which runs
\* outside the lock of the registry, never blocks its handler.
THEOREM ChannelFreeSafe == SupervisorSpec => []ChannelFree
  <1>1. CallInv => ChannelFree
    BY DEF CallInv
  <1>2. QED
    BY <1>1, CallInvariance, PTL

\* A report reaches at most one call of runPullWorker, in any interleaving of
\* calls, late workers, cancels and crashes of the daemon.
THEOREM ReportDeliveredOnceSafe == SupervisorSpec => []ReportDeliveredOnce
  <1>1. CallInv => ReportDeliveredOnce
    BY DEF CallInv
  <1>2. QED
    BY <1>1, CallInvariance, PTL

-----------------------------------------------------------------------------
(* Records                                                                 *)

\* Any set of procedure statuses gives a command status.
LEMMA CommandStatusOf ==
    ASSUME NEW seen
    PROVE  DeriveCommandStatus(seen) \in CommandStatuses
<1>1. CASE "error" \in seen \/ "running" \in seen \/ "waiting" \in seen
  BY <1>1 DEF DeriveCommandStatus, CommandStatuses
<1>2. CASE ~("error" \in seen \/ "running" \in seen \/ "waiting" \in seen)
  BY <1>2 DEF DeriveCommandStatus, CommandStatuses
<1> QED
  BY <1>1, <1>2

\* Any command statuses give a scroll status.
LEMMA ScrollStatusOf ==
    ASSUME NEW S, S \subseteq CommandStatuses
    PROVE  DeriveScrollStatus(S) \in ScrollStatuses
<1> DEFINE derived == S \ {"none"}
<1>1. derived \subseteq {"waiting", "running", "done", "error"}
  BY DEF CommandStatuses
<1>2. CASE derived = {} \/ "error" \in derived \/ "running" \in derived \/ "waiting" \in derived
  BY <1>2 DEF DeriveScrollStatus, ScrollStatuses
<1>3. CASE ~(derived = {} \/ "error" \in derived \/ "running" \in derived \/ "waiting" \in derived)
  <2>1. derived = {"done"}
    BY <1>1, <1>3
  <2> QED
    BY <2>1 DEF DeriveScrollStatus, ScrollStatuses
<1> QED
  BY <1>2, <1>3

LEMMA DerivedType ==
    ASSUME NEW r
    PROVE  Derived(r) \in ScrollStatuses
<1>1. {DeriveCommandStatus({r.procs[c]}) : c \in {"serve"} \cup r.ui} \subseteq CommandStatuses
  BY CommandStatusOf
<1> QED
  BY <1>1, ScrollStatusOf DEF Derived

\* What the steps do to a record leaves a record.
LEMMA WithStatusType ==
    ASSUME NEW r \in Record, NEW status \in ScrollStatuses
    PROVE  WithStatus(r, status) \in Record
BY DEF WithStatus, Record

LEMMA WithProcType ==
    ASSUME NEW r \in Record, NEW c \in Commands, NEW s \in ProcedureStatuses
    PROVE  WithProc(r, c, s) \in Record
<1> DEFINE changed == [r EXCEPT !.procs[c] = s]
<1>1. changed \in Record
  BY DEF Record
<1>2. WithProc(r, c, s) = WithStatus(changed, Derived(changed))
  BY DEF WithProc
<1> HIDE DEF changed
<1> QED
  BY <1>1, <1>2, DerivedType, WithStatusType

LEMMA MergedType ==
    ASSUME store \in Record \cup {Absent}, NEW r \in Record
    PROVE  Merged(r) \in Record
<1>1. CASE MergesUI /\ store # Absent
  <2>1. store \in Record /\ Merged(r) = [r EXCEPT !.published = r.published \/ store.published]
    BY <1>1 DEF Merged
  <2>2. r.published \/ store.published \in BOOLEAN
    BY <2>1 DEF Record
  <2> QED
    BY <2>1, <2>2 DEF Record
<1>2. CASE ~(MergesUI /\ store # Absent)
  BY <1>2 DEF Merged
<1> QED
  BY <1>1, <1>2

LEMMA StoppedType ==
    ASSUME NEW r \in Record
    PROVE  Stopped(r) \in Record
<1>1. WithStatus(r, "stopped") \in Record
  BY WithStatusType DEF ScrollStatuses
<1>2. [c \in Commands |-> IF c \in r.ui /\ r.procs[c] = "done" THEN "done" ELSE "unset"]
         \in [Commands -> ProcedureStatuses]
  BY DEF ProcedureStatuses
<1> QED
  BY <1>1, <1>2 DEF Stopped, Record

\* A record is there.
LEMMA RecordThere == Absent \notin Record
  BY DEF Absent, Record

-----------------------------------------------------------------------------
(* Which steps an operation goes through, and what it has in hand          *)

\* The steps of an operation fit its kind.
FlowOK(o) ==
    /\ op[o].pc \in {"lookup", "insert", "detach", "drain", "backend"} =>
          op[o].kind \in {"create", "ensure", "update", "delete"}
    /\ op[o].pc \in {"insert", "backend"} => op[o].kind # "delete"
    /\ op[o].pc \in {"find", "make", "cache"} =>
          /\ op[o].then # "none"
          /\ op[o].then = "uncache" <=> op[o].kind = "stop"
          /\ op[o].then = "stop" => op[o].kind = "restore"
    /\ op[o].pc \in {"stop", "stopDrain", "stopBackend", "stopStore"} =>
          op[o].kind \in {"stop", "restore"}
    /\ op[o].kind = "stop" =>
          op[o].pc \in {"find", "make", "cache", "uncache", "stop", "stopDrain", "stopBackend",
                        "stopStore", "quiesce", "done"}
    /\ op[o].pc \in {"uncache", "quiesce"} => op[o].kind = "stop"

\* The steps that work on a session.
Holds(o) ==
    \/ op[o].pc \in {"cache", "uncache", "drain", "stop", "stopDrain", "stopBackend", "stopStore",
                     "quiesce", "restored", "serve", "finish", "run", "await", "uiAdd", "uiQueue",
                     "uiAwait", "uiRead", "uiStore", "uiRemove"}
    \/ op[o].pc = "pull" /\ op[o].kind = "restore"

\* The steps that work on a record of the operation.
HasRecord(o) ==
    \/ op[o].pc \in {"detach", "drain"} /\ op[o].kind # "delete"
    \/ op[o].pc = "backend"
    \/ op[o].pc = "pull" /\ op[o].kind # "restore"

HandOK(o) ==
    /\ Holds(o) => op[o].s \in Sessions
    /\ ~Running(o) => op[o].s = None
    /\ HasRecord(o) => op[o].rec \in Record
    /\ op[o].pc = "uiStore" => op[o].fresh \in Record

\* The session of o has been taken from the map.
Detached(o) ==
    /\ op[o].pc \in {"drain", "stop", "stopDrain", "stopBackend", "stopStore", "quiesce"}
    /\ op[o].kind # "restore"

\* A session somebody can reach or that runs something has a record.  One
\* that is about to go into the map is nobody else's; one that was taken from
\* it does not come back.
SessionOK ==
    /\ \A o \in Calls : op[o].s # None => session[op[o].s].rec \in Record
    /\ cached # None => session[cached].rec \in Record
    /\ \A s \in Sessions : session[s].on \/ session[s].busy # {} => session[s].rec \in Record
    /\ \A o \in Calls : op[o].pc = "cache" =>
          op[o].s # cached /\ \A p \in Calls \ {o} : op[p].s # op[o].s
    /\ \A o \in Calls : Detached(o) => op[o].s # cached

\* A call that has begun pulls some version, and one that succeeded has a
\* result.
CallVersions ==
    /\ \A c \in Calls : call[c].pc # "idle" => call[c].artifact \in Versions
    /\ \A c \in Calls : call[c].result = "ok" => chan[c] # NoResult

OperationInv ==
    /\ SupervisorTypeOK
    /\ \A o \in Calls : FlowOK(o) /\ HandOK(o)
    /\ SessionOK

\* A restore that applies what it pulled has pulled it.
RestorePulled ==
    \A o \in Calls : op[o].pc = "restored" => call[o].pc = "done" /\ call[o].result = "ok"

SupervisorInv == CallInv /\ CallVersions /\ OperationInv /\ RestorePulled
-----------------------------------------------------------------------------
\* The artifact of a pull that succeeded is a version.
LEMMA PulledType ==
    ASSUME CallInv, CallVersions, NEW o \in Calls, call[o].result = "ok"
    PROVE  Pulled(o) \in Versions
<1>1. chan[o] # NoResult
  BY DEF CallVersions
<1>2. chan[o].from \in Calls /\ Reported(chan[o].from)
  BY <1>1 DEF CallInv, CallHistory
<1>3. call[chan[o].from].pc # "idle"
  BY <1>2 DEF CallInv, CallHistory, Reported
<1> QED
  BY <1>2, <1>3 DEF CallVersions, Pulled

LEMMA MaterializedType ==
    ASSUME SupervisorInv, NEW o \in Calls, call[o].result = "ok", NEW r \in Record
    PROVE  Materialized(o, r) \in Record
<1>1. Pulled(o) \in Versions
  BY PulledType DEF SupervisorInv
<1>2. op[o].artifact \in Versions
  BY DEF SupervisorInv, OperationInv, SupervisorTypeOK, OperationState
<1>3. NoProcs \in [Commands -> ProcedureStatuses]
  BY DEF NoProcs, ProcedureStatuses
<1> DEFINE status == IF r.status \in {"running", "stopped"} THEN "stopped" ELSE "created"
<1>4. status \in ScrollStatuses
  BY DEF ScrollStatuses
<1>5. Materialized(o, r) = [r EXCEPT !.artifact = op[o].artifact, !.yaml = Pulled(o),
                                     !.procs = NoProcs, !.ui = {}, !.status = status]
  BY DEF Materialized
<1> HIDE DEF status
<1> QED
  BY <1>1, <1>2, <1>3, <1>4, <1>5 DEF Record

\* What the store holds after UpdateScroll.
LEMMA UpdateScrollType ==
    ASSUME store \in Record \cup {Absent}, NEW r \in Record, UpdateScroll(r)
    PROVE  store' \in Record \cup {Absent}
BY MergedType DEF UpdateScroll

\* A write of a session changes that session only, and not whether it is on.
LEMMA WriteType ==
    ASSUME SupervisorTypeOK, NEW s \in Sessions, NEW r \in Record,
           NEW W \in SUBSET Commands, NEW B \in SUBSET Commands, Write(s, r, W, B)
    PROVE  /\ store' \in Record \cup {Absent}
           /\ session' \in [Sessions -> SessionState]
           /\ session'[s] = [session[s] EXCEPT !.rec = Merged(r), !.waiting = W, !.busy = B]
           /\ session'[s].rec \in Record
           /\ \A t \in Sessions \ {s} : session'[t] = session[t]
<1>1. store \in Record \cup {Absent} /\ session \in [Sessions -> SessionState]
  BY DEF SupervisorTypeOK
<1>2. Merged(r) \in Record
  BY <1>1, MergedType
<1>3. store' \in Record \cup {Absent}
  BY <1>1, UpdateScrollType DEF Write
<1>4. session' = [session EXCEPT ![s] = [session[s] EXCEPT !.rec = Merged(r), !.waiting = W,
                                                           !.busy = B]]
  BY <1>1 DEF Write
<1>5. [session[s] EXCEPT !.rec = Merged(r), !.waiting = W, !.busy = B] \in SessionState
  BY <1>1, <1>2 DEF SessionState
<1> QED
  BY <1>1, <1>2, <1>3, <1>4, <1>5 DEF SessionState

LEMMA WriteRecordType ==
    ASSUME SupervisorTypeOK, NEW s \in Sessions, NEW r \in Record, WriteRecord(s, r)
    PROVE  /\ store' \in Record \cup {Absent}
           /\ session' \in [Sessions -> SessionState]
           /\ session'[s] = [session[s] EXCEPT !.rec = Merged(r)]
           /\ session'[s].rec \in Record
           /\ \A t \in Sessions \ {s} : session'[t] = session[t]
<1>1. session[s] \in SessionState
  BY DEF SupervisorTypeOK
<1>2. session[s].waiting \in SUBSET Commands /\ session[s].busy \in SUBSET Commands
  BY <1>1 DEF SessionState
<1>3. Write(s, r, session[s].waiting, session[s].busy)
  BY DEF WriteRecord
<1>4. [session[s] EXCEPT !.rec = Merged(r), !.waiting = session[s].waiting,
                         !.busy = session[s].busy] = [session[s] EXCEPT !.rec = Merged(r)]
  BY <1>1 DEF SessionState
<1>5. PICK W \in SUBSET Commands, B \in SUBSET Commands :
        W = session[s].waiting /\ B = session[s].busy
  BY <1>2
<1>6. Write(s, r, W, B)
  BY <1>3, <1>5
<1>7. /\ store' \in Record \cup {Absent}
      /\ session' \in [Sessions -> SessionState]
      /\ session'[s] = [session[s] EXCEPT !.rec = Merged(r), !.waiting = W, !.busy = B]
      /\ session'[s].rec \in Record
      /\ \A t \in Sessions \ {s} : session'[t] = session[t]
  BY <1>6, WriteType
<1> QED
  BY <1>4, <1>5, <1>7
-----------------------------------------------------------------------------
(* What a step of an operation has to keep                                 *)

HistoryType ==
    up \in BOOLEAN /\ last \in Calls \cup {None} /\ overlap \in BOOLEAN /\ crashes \in 0..MaxCrashes

\* No session loses its record.
SessionsKept ==
    /\ session' \in [Sessions -> SessionState]
    /\ \A s \in Sessions : session[s].rec \in Record => session'[s].rec \in Record
    /\ \A s \in Sessions : session'[s].on \/ session'[s].busy # {} => session'[s].rec \in Record

\* The step of an operation that makes no session and stops none for good.
LEMMA OperationStep ==
    ASSUME OperationInv, NEW o \in Calls, CallTypeOK', HistoryType',
           op' \in [Calls -> OperationState], \A p \in Calls \ {o} : op'[p] = op[p],
           FlowOK(o)', HandOK(o)', store' \in Record \cup {Absent}, SessionsKept,
           cached' \in {cached, None}, op'[o].s \in {op[o].s, cached, None},
           op'[o].pc # "cache", Detached(o)' => op'[o].s # cached'
    PROVE  OperationInv'
<1> USE SupervisorAssumption
<1>1. cached \in Sessions \cup {None} /\ op \in [Calls -> OperationState]
  BY DEF OperationInv, SupervisorTypeOK
<1>2. SupervisorTypeOK'
  BY <1>1 DEF SupervisorTypeOK, HistoryType, SessionsKept
<1>3. ASSUME NEW p \in Calls PROVE FlowOK(p)' /\ HandOK(p)'
  <2>1. CASE p = o
    BY <2>1
  <2>2. CASE p # o
    <3>1. op'[p] = op[p]
      BY <2>2
    <3> QED
      BY <3>1 DEF OperationInv, FlowOK, HandOK, Running, Holds, HasRecord
  <2> QED
    BY <2>1, <2>2
<1>4. \A p \in Calls : op[p].s \in Sessions \cup {None}
  BY <1>1 DEF OperationState
<1>5. \A p \in Calls : op'[p].s # None => session'[op'[p].s].rec \in Record
  <2>1. \A p \in Calls : op'[p].s \in {op[p].s, cached, None}
    OBVIOUS
  <2> QED
    BY <1>1, <1>4, <2>1 DEF OperationInv, SessionOK, SessionsKept
<1>6. cached' # None => session'[cached'].rec \in Record
  BY <1>1 DEF OperationInv, SessionOK, SessionsKept
<1>7. ASSUME NEW p \in Calls, op'[p].pc = "cache"
      PROVE  op'[p].s # cached' /\ \A q \in Calls \ {p} : op'[q].s # op'[p].s
  <2>1. p # o /\ op'[p] = op[p]
    BY <1>7
  <2>2. op[p].s \in Sessions
    BY <1>7, <2>1 DEF OperationInv, HandOK, Running, Holds
  <2>3. op[p].s # cached /\ \A q \in Calls \ {p} : op[q].s # op[p].s
    BY <1>7, <2>1 DEF OperationInv, SessionOK
  <2> QED
    BY <2>1, <2>2, <2>3
<1>8. ASSUME NEW p \in Calls, Detached(p)' PROVE op'[p].s # cached'
  <2>1. CASE p = o
    BY <1>8, <2>1
  <2>2. CASE p # o
    <3>1. op'[p] = op[p] /\ Detached(p)
      BY <1>8, <2>2 DEF Detached
    <3>2. op[p].s \in Sessions
      BY <3>1 DEF OperationInv, HandOK, Running, Holds, Detached
    <3> QED
      BY <3>1, <3>2 DEF OperationInv, SessionOK
  <2> QED
    BY <2>1, <2>2
<1> QED
  BY <1>2, <1>3, <1>5, <1>6, <1>7, <1>8 DEF OperationInv, SessionOK, SessionsKept

\* An operation that returns has nothing in hand.
LEMMA ReturnType ==
    ASSUME OperationInv, NEW o \in Calls, NEW ok \in BOOLEAN, Return(o, ok)
    PROVE  /\ op'[o].pc = "done" /\ op'[o].s = None /\ op'[o].kind = op[o].kind /\ op'[o].ok = ok
           /\ \A p \in Calls \ {o} : op'[p] = op[p]
           /\ op' \in [Calls -> OperationState]
<1> DEFINE x == [op[o] EXCEPT !.pc = "done", !.ok = ok, !.rec = Absent, !.fresh = Absent,
                              !.s = None, !.then = "none", !.started = FALSE, !.restart = FALSE]
<1>1. op \in [Calls -> OperationState] /\ op[o] \in OperationState
  BY DEF OperationInv, SupervisorTypeOK
<1>2. op' = [op EXCEPT ![o] = x]
  BY DEF Return
<1>3. x \in OperationState
  <2>1. op[o] \in OperationState
    BY <1>1
  <2> QED
    BY <2>1 DEF OperationState
<1>4. x.pc = "done" /\ x.s = None /\ x.kind = op[o].kind /\ x.ok = ok
  BY <1>1 DEF OperationState
<1> HIDE DEF x
<1> QED
  BY <1>1, <1>2, <1>3, <1>4

LEMMA ReturnStep ==
    ASSUME OperationInv, NEW o \in Calls, CallTypeOK', Histories, NEW ok \in BOOLEAN,
           Return(o, ok), store' \in Record \cup {Absent}, SessionsKept,
           cached' \in {cached, None}
    PROVE  OperationInv'
<1>1. HistoryType'
  BY DEF OperationInv, SupervisorTypeOK, HistoryType, Histories
<1>2. /\ op'[o].pc = "done" /\ op'[o].s = None /\ op'[o].kind = op[o].kind
      /\ \A p \in Calls \ {o} : op'[p] = op[p]
      /\ op' \in [Calls -> OperationState]
  BY ReturnType
<1>3. FlowOK(o)' /\ HandOK(o)' /\ ~Detached(o)'
  BY <1>2 DEF FlowOK, HandOK, Running, Holds, HasRecord, Detached
<1> QED
  BY <1>1, <1>2, <1>3, OperationStep

\* Sessions that keep their records.
LEMMA SessionsUnchanged ==
    ASSUME OperationInv, UNCHANGED session
    PROVE  SessionsKept
BY DEF OperationInv, SupervisorTypeOK, SessionOK, SessionsKept

LEMMA SessionsWritten ==
    ASSUME OperationInv, NEW s \in Sessions, session' \in [Sessions -> SessionState],
           \A t \in Sessions \ {s} : session'[t] = session[t],
           session'[s].rec \in Record \/ session'[s].rec = session[s].rec,
           session[s].rec \in Record
    PROVE  SessionsKept
BY DEF OperationInv, SupervisorTypeOK, SessionOK, SessionsKept

\* A failure marks the record in hand.
LEMMA FailStep ==
    ASSUME OperationInv, NEW o \in Calls, CallTypeOK', Histories, Fail(o), UNCHANGED session,
           cached' \in {cached, None}
    PROVE  OperationInv'
<1>1. store \in Record \cup {Absent} /\ op[o].rec \in Record \cup {Absent}
  BY DEF OperationInv, SupervisorTypeOK, OperationState
<1>2. store' \in Record \cup {Absent}
  <2>1. CASE op[o].rec = Absent
    BY <1>1, <2>1 DEF Fail
  <2>2. CASE op[o].rec # Absent
    <3>1. WithStatus(op[o].rec, "error") \in Record
      BY <1>1, <2>2, WithStatusType DEF ScrollStatuses
    <3> QED
      BY <1>1, <2>2, <3>1, UpdateScrollType DEF Fail
  <2> QED
    BY <2>1, <2>2
<1> QED
  BY <1>2, ReturnStep, SessionsUnchanged DEF Fail

\* Any step of an operation whose effect on sessions is known.
LEMMA OperationFrame ==
    ASSUME OperationInv, NEW o \in Calls, CallTypeOK', Histories,
           op' \in [Calls -> OperationState], \A p \in Calls \ {o} : op'[p] = op[p],
           FlowOK(o)', HandOK(o)', store' \in Record \cup {Absent},
           session' \in [Sessions -> SessionState], cached' \in Sessions \cup {None}, SessionOK'
    PROVE  OperationInv'
<1>1. SupervisorTypeOK'
  BY DEF OperationInv, SupervisorTypeOK, Histories
<1>2. ASSUME NEW p \in Calls \ {o} PROVE FlowOK(p)' /\ HandOK(p)'
  <2>1. op'[p] = op[p]
    OBVIOUS
  <2> QED
    BY <2>1 DEF OperationInv, FlowOK, HandOK, Running, Holds, HasRecord
<1> QED
  BY <1>1, <1>2 DEF OperationInv

\* An operation that changes is well typed when its new state is.
LEMMA OperationChanged ==
    ASSUME OperationInv, NEW o \in Calls, NEW x \in OperationState, op' = [op EXCEPT ![o] = x]
    PROVE  /\ op' \in [Calls -> OperationState] /\ op'[o] = x
           /\ \A p \in Calls \ {o} : op'[p] = op[p]
BY DEF OperationInv, SupervisorTypeOK

StepNames ==
    {"idle", "lookup", "insert", "detach", "drain", "backend", "pull", "find", "make", "cache",
     "uncache", "stop", "stopDrain", "stopBackend", "stopStore", "quiesce", "restored", "serve",
     "finish", "run", "await", "uiLookup", "uiAdd", "uiQueue", "uiAwait", "uiRead", "uiStore",
     "uiRemove", "uiRemoved", "remove", "forget", "done"}

LEMMA OperationMoved ==
    ASSUME OperationInv, NEW o \in Calls, NEW pc \in StepNames, To(o, pc)
    PROVE  /\ op' \in [Calls -> OperationState] /\ op'[o] = [op[o] EXCEPT !.pc = pc]
           /\ op'[o].pc = pc /\ op'[o].s = op[o].s /\ op'[o].kind = op[o].kind
           /\ op'[o].then = op[o].then /\ op'[o].rec = op[o].rec /\ op'[o].fresh = op[o].fresh
           /\ op'[o].ok = op[o].ok /\ op'[o].started = op[o].started
           /\ \A p \in Calls \ {o} : op'[p] = op[p]
<1>1. op[o] \in OperationState
  BY DEF OperationInv, SupervisorTypeOK
<1>2. [op[o] EXCEPT !.pc = pc] \in OperationState
  BY <1>1 DEF OperationState, StepNames
<1>3. op' = [op EXCEPT ![o] = [op[o] EXCEPT !.pc = pc]]
  BY DEF To
<1>4. op'[o] = [op[o] EXCEPT !.pc = pc]
  BY <1>2, <1>3, OperationChanged
<1>5. /\ op'[o].pc = pc /\ op'[o].s = op[o].s /\ op'[o].kind = op[o].kind
      /\ op'[o].then = op[o].then /\ op'[o].rec = op[o].rec /\ op'[o].fresh = op[o].fresh
      /\ op'[o].ok = op[o].ok /\ op'[o].started = op[o].started
  BY <1>1, <1>4 DEF OperationState
<1> QED
  BY <1>2, <1>3, <1>4, <1>5, OperationChanged

\* An operation that only moves on.
LEMMA MoveStep ==
    ASSUME OperationInv, NEW o \in Calls, NEW pc \in StepNames, To(o, pc), CallTypeOK', Histories,
           FlowOK(o)', HandOK(o)', store' \in Record \cup {Absent}, SessionsKept,
           cached' \in {cached, None}, pc # "cache",
           Detached(o)' => Detached(o) \/ (cached' = None /\ op'[o].s # None)
    PROVE  OperationInv'
<1>1. /\ op' \in [Calls -> OperationState] /\ op'[o].pc = pc /\ op'[o].s = op[o].s
      /\ \A p \in Calls \ {o} : op'[p] = op[p]
  BY OperationMoved
<1>2. HistoryType'
  BY DEF OperationInv, SupervisorTypeOK, HistoryType, Histories
<1>3. Detached(o)' => op'[o].s # cached'
  <2>1. Detached(o) => op[o].s # cached /\ op[o].s # None
    BY SupervisorAssumption DEF OperationInv, SessionOK, HandOK, Running, Holds, Detached
  <2> QED
    BY <1>1, <2>1
<1> QED
  BY <1>1, <1>2, <1>3, OperationStep

-----------------------------------------------------------------------------
(* The operations, step by step                                            *)

LEMMA BeginKeeps ==
    ASSUME OperationInv, NEW o \in Calls, Begin(o)
    PROVE  OperationInv'
<1>1. CallTypeOK' /\ UNCHANGED <<store, cached, session, up, crashes>>
  BY DEF Begin, OperationInv, SupervisorTypeOK, CallTypeOK, workerVars
<1>2. PICK kind \in Kinds, a \in Versions, restart \in BOOLEAN :
          op' = [op EXCEPT ![o].kind = kind, ![o].artifact = a, ![o].restart = restart,
                           ![o].pc = FirstStep(kind), ![o].then = AfterSession(kind)]
  BY DEF Begin
<1> DEFINE x == [op[o] EXCEPT !.kind = kind, !.artifact = a, !.restart = restart,
                              !.pc = FirstStep(kind), !.then = AfterSession(kind)]
<1>3. kind \in OperationKinds
  BY SupervisorAssumption
<1>4. op[o] \in OperationState
  BY DEF OperationInv, SupervisorTypeOK
<1>5. /\ FirstStep(kind) \in {"lookup", "detach", "uiLookup", "find"}
      /\ FirstStep(kind) = "lookup" => kind \in {"create", "ensure", "update"}
      /\ FirstStep(kind) = "detach" => kind = "delete"
      /\ FirstStep(kind) = "find" => kind \in {"stop", "start", "restore", "run"}
      /\ FirstStep(kind) = "uiLookup" => kind = "publish"
  BY <1>3 DEF FirstStep, OperationKinds
<1>6. /\ AfterSession(kind) \in {"uncache", "stop", "serve", "run", "none"}
      /\ AfterSession(kind) = "uncache" <=> kind = "stop"
      /\ AfterSession(kind) = "stop" => kind = "restore"
      /\ kind \in {"stop", "start", "restore", "run"} => AfterSession(kind) # "none"
  BY <1>3 DEF AfterSession, OperationKinds
<1>7. x \in OperationState
  BY <1>3, <1>4, <1>5, <1>6 DEF OperationState
<1>8. /\ x.pc = FirstStep(kind) /\ x.kind = kind /\ x.then = AfterSession(kind) /\ x.s = op[o].s
  BY <1>4 DEF OperationState
<1>9. op' = [op EXCEPT ![o] = x]
  BY <1>2
<1> HIDE DEF x
<1>10. op' \in [Calls -> OperationState] /\ op'[o] = x /\ \A p \in Calls \ {o} : op'[p] = op[p]
  BY <1>7, <1>9, OperationChanged
<1>11. FlowOK(o)' /\ HandOK(o)' /\ ~Detached(o)' /\ op'[o].pc # "cache"
  BY <1>5, <1>6, <1>8, <1>10 DEF FlowOK, HandOK, Running, Holds, HasRecord, Detached
<1>12. HistoryType'
  BY <1>1 DEF Begin, OperationInv, SupervisorTypeOK, HistoryType, Idle, Running
<1> QED
  BY <1>1, <1>8, <1>10, <1>11, <1>12, SessionsUnchanged, OperationStep
  DEF OperationInv, SupervisorTypeOK

LEMMA CallsStayTyped == OperationInv /\ UNCHANGED workerVars => CallTypeOK'
BY DEF OperationInv, SupervisorTypeOK, CallTypeOK, workerVars

LEMMA FindKeeps ==
    ASSUME OperationInv, NEW o \in Calls, Find(o)
    PROVE  OperationInv'
<1>1. CallTypeOK' /\ SessionsKept /\ store' \in Record \cup {Absent} /\ Histories
  BY CallsStayTyped, SessionsUnchanged DEF Find, OperationInv, SupervisorTypeOK
<1>2. op[o] \in OperationState /\ cached \in Sessions \cup {None} /\ HistoryType'
  BY <1>1 DEF OperationInv, SupervisorTypeOK, HistoryType, Histories
<1>3. FlowOK(o) /\ op[o].pc = "find"
  BY DEF Find, OperationInv
<1>4. CASE To(o, "make") /\ UNCHANGED cached
  <2>1. /\ op'[o].pc = "make" /\ op'[o].kind = op[o].kind /\ op'[o].then = op[o].then
    BY <1>4, OperationMoved DEF StepNames
  <2>2. FlowOK(o)' /\ HandOK(o)' /\ ~Detached(o)'
    BY <1>3, <2>1 DEF FlowOK, HandOK, Running, Holds, HasRecord, Detached
  <2> QED
    BY <1>1, <1>4, <2>2, MoveStep DEF StepNames
<1>5. ASSUME NEW pc \in {"stop", "serve", "run", "uiAdd"}, cached # None,
             op' = [op EXCEPT ![o].pc = pc, ![o].s = cached], cached' \in {cached, None},
             pc = "stop" => op[o].kind \in {"stop", "restore"},
             pc # "stop" => op[o].kind # "stop",
             cached' = cached => op[o].kind # "stop"
      PROVE  OperationInv'
  <2> DEFINE x == [op[o] EXCEPT !.pc = pc, !.s = cached]
  <2>1. x \in OperationState /\ x.pc = pc /\ x.s = cached /\ x.kind = op[o].kind
    BY <1>2, <1>5 DEF OperationState
  <2>2. op' = [op EXCEPT ![o] = x]
    BY <1>5
  <2> HIDE DEF x
  <2>3. op' \in [Calls -> OperationState] /\ op'[o] = x /\ \A p \in Calls \ {o} : op'[p] = op[p]
    BY <2>1, <2>2, OperationChanged
  <2>4. FlowOK(o)' /\ HandOK(o)' /\ op'[o].pc # "cache"
    BY <1>2, <1>5, <2>1, <2>3 DEF FlowOK, HandOK, Running, Holds, HasRecord
  <2>5. Detached(o)' => op'[o].s # cached'
    BY <1>2, <1>5, <2>1, <2>3 DEF Detached
  <2> QED
    BY <1>1, <1>2, <1>5, <2>1, <2>3, <2>4, <2>5, OperationStep
<1>6. CASE /\ cached # None /\ op[o].then # "uncache"
           /\ op' = [op EXCEPT ![o].pc = op[o].then, ![o].s = cached]
           /\ UNCHANGED cached
  <2>1. PICK pc : pc = op[o].then
    OBVIOUS
  <2>2. pc \in {"stop", "serve", "run", "uiAdd"}
    BY <1>2, <1>3, <1>6, <2>1 DEF OperationState, FlowOK
  <2>3. op[o].kind # "stop" /\ (pc = "stop" => op[o].kind = "restore")
    BY <1>3, <1>6, <2>1 DEF FlowOK
  <2> QED
    BY <1>5, <1>6, <2>1, <2>2, <2>3
<1>7. CASE /\ cached # None /\ op[o].then = "uncache"
           /\ op' = [op EXCEPT ![o].pc = "stop", ![o].s = cached]
           /\ cached' = None
  <2>1. op[o].kind = "stop"
    BY <1>3, <1>7 DEF FlowOK
  <2> QED
    BY <1>5, <1>7, <2>1
<1> QED
  BY <1>4, <1>6, <1>7 DEF Find

LEMMA MakeKeeps ==
    ASSUME OperationInv, NEW o \in Calls, Make(o)
    PROVE  OperationInv'
<1>1. CallTypeOK' /\ Histories /\ UNCHANGED cached /\ FlowOK(o) /\ op[o].pc = "make"
  BY CallsStayTyped DEF Make, OperationInv
<1>2. CASE Fail(o) /\ UNCHANGED session
  BY <1>1, <1>2, FailStep
<1>3. ASSUME HasFile, NEW s \in Sessions, Free(s),
             session' = [session EXCEPT ![s] = [NoSession EXCEPT !.on = TRUE, !.rec = store]],
             op' = [op EXCEPT ![o].pc = "cache", ![o].s = s], UNCHANGED store
      PROVE  OperationInv'
  <2> DEFINE x == [op[o] EXCEPT !.pc = "cache", !.s = s]
             made == [NoSession EXCEPT !.on = TRUE, !.rec = store]
  <2>1. op[o] \in OperationState /\ store \in Record /\ session \in [Sessions -> SessionState]
    BY <1>3 DEF OperationInv, SupervisorTypeOK, HasFile
  <2>2. x \in OperationState /\ x.pc = "cache" /\ x.s = s /\ x.kind = op[o].kind
        /\ x.then = op[o].then
    BY <2>1, <1>3 DEF OperationState
  <2>3. made \in SessionState /\ made.rec = store
    BY <2>1 DEF NoSession, SessionState
  <2>4. op' = [op EXCEPT ![o] = x] /\ session' = [session EXCEPT ![s] = made]
    BY <1>3
  <2> HIDE DEF x, made
  <2>5. op' \in [Calls -> OperationState] /\ op'[o] = x /\ \A p \in Calls \ {o} : op'[p] = op[p]
    BY <2>2, <2>4, OperationChanged
  <2>6. /\ session' \in [Sessions -> SessionState] /\ session'[s].rec \in Record
        /\ \A t \in Sessions \ {s} : session'[t] = session[t]
    BY <2>1, <2>3, <2>4
  <2>7. FlowOK(o)' /\ HandOK(o)'
    BY <1>1, <1>3, <2>2, <2>5 DEF FlowOK, HandOK, Running, Holds, HasRecord
  <2>8. s # cached /\ \A p \in Calls : op[p].s # s
    BY <1>3 DEF Free
  <2>9. SessionOK'
    <3>1. \A p \in Calls : op'[p].s = IF p = o THEN s ELSE op[p].s
      BY <2>2, <2>5
    <3>2. \A p \in Calls : op[p].s \in Sessions \cup {None}
      BY DEF OperationInv, SupervisorTypeOK, OperationState
    <3>3. \A p \in Calls : op'[p].s # None => session'[op'[p].s].rec \in Record
      BY <2>6, <2>8, <3>1, <3>2 DEF OperationInv, SessionOK
    <3>4. cached' # None => session'[cached'].rec \in Record
      BY <1>1, <2>6, <2>8 DEF OperationInv, SessionOK, SupervisorTypeOK
    <3>5. \A t \in Sessions : session'[t].on \/ session'[t].busy # {} => session'[t].rec \in Record
      BY <2>6 DEF OperationInv, SessionOK
    <3>6. \A p \in Calls : op'[p].pc = "cache" =>
              op'[p].s # cached' /\ \A q \in Calls \ {p} : op'[q].s # op'[p].s
      BY <1>1, <2>5, <2>8, <3>1 DEF OperationInv, SessionOK
    <3>7. \A p \in Calls : Detached(p)' => op'[p].s # cached'
      BY <1>1, <2>2, <2>5 DEF OperationInv, SessionOK, Detached
    <3> QED
      BY <3>3, <3>4, <3>5, <3>6, <3>7 DEF SessionOK
  <2> QED
    BY <1>1, <1>3, <2>1, <2>5, <2>6, <2>7, <2>9, OperationFrame DEF OperationInv, SupervisorTypeOK
<1> QED
  BY <1>2, <1>3 DEF Make

LEMMA CacheKeeps ==
    ASSUME OperationInv, NEW o \in Calls, Cache(o)
    PROVE  OperationInv'
<1> DEFINE s == op[o].s
           pc == op[o].then
<1>1. CallTypeOK' /\ Histories /\ UNCHANGED store /\ FlowOK(o) /\ op[o].pc = "cache"
  BY CallsStayTyped DEF Cache, OperationInv
<1>2. /\ op[o] \in OperationState /\ session \in [Sessions -> SessionState] /\ SessionOK
      /\ cached \in Sessions \cup {None} /\ store' \in Record \cup {Absent}
  BY <1>1 DEF OperationInv, SupervisorTypeOK
<1>3. s \in Sessions /\ s # None /\ s # cached /\ \A p \in Calls \ {o} : op[p].s # s
  BY <1>1, SupervisorAssumption DEF OperationInv, HandOK, Running, Holds, SessionOK
<1>4. /\ pc \in {"uncache", "stop", "serve", "run", "uiAdd"}
      /\ pc = "stop" => op[o].kind = "restore"
      /\ pc = "uncache" <=> op[o].kind = "stop"
  BY <1>1, <1>2 DEF OperationState, FlowOK
<1>5. \A p \in Calls : op[p].s \in Sessions \cup {None}
  BY DEF OperationInv, SupervisorTypeOK, OperationState
<1>6. CASE cached = None
  <2>1. cached' = s /\ To(o, pc) /\ UNCHANGED session
    BY <1>6 DEF Cache
  <2>2. /\ op' \in [Calls -> OperationState] /\ op'[o].pc = pc /\ op'[o].s = s
        /\ op'[o].kind = op[o].kind /\ \A p \in Calls \ {o} : op'[p] = op[p]
    BY <1>4, <2>1, OperationMoved DEF StepNames
  <2>3. FlowOK(o)' /\ HandOK(o)' /\ op'[o].pc # "cache" /\ ~Detached(o)'
    BY <1>3, <1>4, <2>2 DEF FlowOK, HandOK, Running, Holds, HasRecord, Detached
  <2>4. SessionOK'
    <3>1. \A p \in Calls : op'[p].s = op[p].s
      BY <2>2
    <3>2. \A p \in Calls : op'[p].pc = "cache" => p # o /\ op[p].pc = "cache"
      BY <2>2, <2>3
    <3>3. \A p \in Calls : Detached(p)' => p # o
      BY <2>3
    <3> QED
      BY <1>2, <1>3, <2>1, <3>1, <3>2, <3>3 DEF SessionOK
  <2> QED
    BY <1>1, <1>2, <1>3, <2>1, <2>2, <2>3, <2>4, OperationFrame
<1>7. CASE cached # None
  <2> DEFINE x == [op[o] EXCEPT !.pc = pc, !.s = cached]
  <2>1. op' = [op EXCEPT ![o] = x] /\ session' = [session EXCEPT ![s] = NoSession] /\ cached' = cached
    BY <1>7 DEF Cache
  <2>2. x \in OperationState /\ x.pc = pc /\ x.s = cached /\ x.kind = op[o].kind
    BY <1>2, <1>4, <1>7 DEF OperationState
  <2>3. NoSession \in SessionState /\ ~NoSession.on /\ NoSession.busy = {}
    BY DEF NoSession, SessionState
  <2> HIDE DEF x
  <2>4. op' \in [Calls -> OperationState] /\ op'[o] = x /\ \A p \in Calls \ {o} : op'[p] = op[p]
    BY <2>1, <2>2, OperationChanged
  <2>5. /\ session' \in [Sessions -> SessionState] /\ session'[s] = NoSession
        /\ \A t \in Sessions \ {s} : session'[t] = session[t]
    BY <1>2, <1>3, <2>1, <2>3
  <2>6. FlowOK(o)' /\ HandOK(o)' /\ op'[o].pc # "cache" /\ ~Detached(o)'
    BY <1>2, <1>4, <1>7, <2>2, <2>4 DEF FlowOK, HandOK, Running, Holds, HasRecord, Detached
  <2>7. SessionOK'
    <3>1. \A p \in Calls : op'[p].s = IF p = o THEN cached ELSE op[p].s
      BY <2>2, <2>4
    <3>2. \A p \in Calls : op'[p].s # None => session'[op'[p].s].rec \in Record
      BY <1>2, <1>3, <1>5, <1>7, <2>5, <3>1 DEF SessionOK
    <3>3. cached' # None => session'[cached'].rec \in Record
      BY <1>2, <1>3, <2>1, <2>5 DEF SessionOK
    <3>4. \A t \in Sessions : session'[t].on \/ session'[t].busy # {} => session'[t].rec \in Record
      BY <1>2, <2>3, <2>5 DEF SessionOK
    <3>5. \A p \in Calls : op'[p].pc = "cache" =>
              op'[p].s # cached' /\ \A q \in Calls \ {p} : op'[q].s # op'[p].s
      BY <1>2, <2>1, <2>4, <2>6, <3>1 DEF SessionOK
    <3>6. \A p \in Calls : Detached(p)' => op'[p].s # cached'
      BY <1>2, <2>1, <2>4, <2>6 DEF SessionOK, Detached
    <3> QED
      BY <3>2, <3>3, <3>4, <3>5, <3>6 DEF SessionOK
  <2> QED
    BY <1>1, <1>2, <2>1, <2>4, <2>5, <2>6, <2>7, OperationFrame
<1> QED
  BY <1>6, <1>7

LEMMA UncacheKeeps ==
    ASSUME OperationInv, NEW o \in Calls, Uncache(o)
    PROVE  OperationInv'
<1>1. /\ CallTypeOK' /\ Histories /\ To(o, "stop") /\ cached' = None /\ SessionsKept
      /\ store' \in Record \cup {Absent} /\ op[o].pc = "uncache" /\ FlowOK(o) /\ HandOK(o)
  BY CallsStayTyped, SessionsUnchanged DEF Uncache, OperationInv, SupervisorTypeOK
<1>2. op'[o].pc = "stop" /\ op'[o].s = op[o].s /\ op'[o].kind = op[o].kind
  BY <1>1, OperationMoved DEF StepNames
<1>3. FlowOK(o)' /\ HandOK(o)' /\ op'[o].s # None
  BY <1>1, <1>2, SupervisorAssumption DEF FlowOK, HandOK, Running, Holds, HasRecord
<1> QED
  BY <1>1, <1>3, MoveStep DEF StepNames

LEMMA LookupKeeps ==
    ASSUME OperationInv, NEW o \in Calls, Lookup(o)
    PROVE  OperationInv'
<1>1. /\ CallTypeOK' /\ Histories /\ UNCHANGED <<cached, session>> /\ SessionsKept
      /\ op[o].pc = "lookup" /\ FlowOK(o)
  BY CallsStayTyped, SessionsUnchanged DEF Lookup, OperationInv
<1>2. /\ store \in Record \cup {Absent} /\ op[o] \in OperationState /\ HistoryType'
  BY <1>1 DEF OperationInv, SupervisorTypeOK, HistoryType, Histories
<1>3. CASE store = Absent /\ op[o].kind \in {"create", "ensure"} /\ To(o, "insert") /\ UNCHANGED store
  <2>1. op'[o].pc = "insert" /\ op'[o].kind = op[o].kind
    BY <1>3, OperationMoved DEF StepNames
  <2>2. FlowOK(o)' /\ HandOK(o)' /\ ~Detached(o)'
    BY <1>3, <2>1 DEF FlowOK, HandOK, Running, Holds, HasRecord, Detached
  <2> QED
    BY <1>1, <1>2, <1>3, <2>2, MoveStep DEF StepNames
<1>4. CASE Fail(o)
  BY <1>1, <1>4, FailStep
<1>5. CASE Succeed(o)
  BY <1>1, <1>2, <1>5, ReturnStep DEF Succeed
<1>6. ASSUME store # Absent, NEW pc \in {"pull", "detach"}, UNCHANGED store,
             op[o].kind \in {"ensure", "update"},
             op' = [op EXCEPT ![o].pc = pc, ![o].rec = store]
      PROVE  OperationInv'
  <2> DEFINE x == [op[o] EXCEPT !.pc = pc, !.rec = store]
  <2>1. x \in OperationState /\ x.pc = pc /\ x.rec = store /\ x.s = op[o].s /\ x.kind = op[o].kind
    BY <1>2, <1>6 DEF OperationState
  <2>2. op' = [op EXCEPT ![o] = x]
    BY <1>6
  <2> HIDE DEF x
  <2>3. op' \in [Calls -> OperationState] /\ op'[o] = x /\ \A p \in Calls \ {o} : op'[p] = op[p]
    BY <2>1, <2>2, OperationChanged
  <2>4. FlowOK(o)' /\ HandOK(o)' /\ ~Detached(o)' /\ op'[o].pc # "cache"
    BY <1>2, <1>6, <2>1, <2>3 DEF FlowOK, HandOK, Running, Holds, HasRecord, Detached
  <2> QED
    BY <1>1, <1>2, <1>6, <2>1, <2>3, <2>4, OperationStep
<1> QED
  BY <1>3, <1>4, <1>5, <1>6 DEF Lookup

LEMMA InsertKeeps ==
    ASSUME OperationInv, NEW o \in Calls, Insert(o)
    PROVE  OperationInv'
<1>1. /\ CallTypeOK' /\ Histories /\ UNCHANGED <<cached, session>> /\ SessionsKept
      /\ op[o].pc = "insert" /\ FlowOK(o)
  BY CallsStayTyped, SessionsUnchanged DEF Insert, OperationInv
<1>2. op[o] \in OperationState /\ HistoryType'
  BY <1>1 DEF OperationInv, SupervisorTypeOK, HistoryType, Histories
<1>3. CASE Fail(o)
  BY <1>1, <1>3, FailStep
<1>4. CASE /\ store' = Placeholder(op[o].artifact)
           /\ op' = [op EXCEPT ![o].pc = "pull", ![o].rec = Placeholder(op[o].artifact)]
  <2> DEFINE r == Placeholder(op[o].artifact)
             x == [op[o] EXCEPT !.pc = "pull", !.rec = r]
  <2>1. r \in Record
    BY <1>2 DEF Placeholder, Record, NoProcs, OperationState, ProcedureStatuses, ScrollStatuses
  <2> HIDE DEF r
  <2>2. x \in OperationState /\ x.pc = "pull" /\ x.rec = r /\ x.s = op[o].s /\ x.kind = op[o].kind
    BY <1>2, <2>1 DEF OperationState
  <2>3. op' = [op EXCEPT ![o] = x] /\ store' = r
    BY <1>4 DEF r
  <2> HIDE DEF x
  <2>4. op' \in [Calls -> OperationState] /\ op'[o] = x /\ \A p \in Calls \ {o} : op'[p] = op[p]
    BY <2>2, <2>3, OperationChanged
  <2>5. FlowOK(o)' /\ HandOK(o)' /\ ~Detached(o)' /\ op'[o].pc # "cache"
    BY <1>1, <2>1, <2>2, <2>4 DEF FlowOK, HandOK, Running, Holds, HasRecord, Detached
  <2> QED
    BY <1>1, <1>2, <2>1, <2>2, <2>3, <2>4, <2>5, OperationStep
<1> QED
  BY <1>3, <1>4 DEF Insert

\* A session that is switched off keeps its record.
LEMMA OffType ==
    ASSUME OperationInv, NEW s \in Sessions, session' = [session EXCEPT ![s].on = FALSE]
    PROVE  SessionsKept
<1>1. session \in [Sessions -> SessionState] /\ SessionOK
  BY DEF OperationInv, SupervisorTypeOK
<1>2. [session[s] EXCEPT !.on = FALSE] \in SessionState
  BY <1>1 DEF SessionState
<1>3. session' = [session EXCEPT ![s] = [session[s] EXCEPT !.on = FALSE]]
  OBVIOUS
<1>4. /\ session' \in [Sessions -> SessionState]
      /\ session'[s] = [session[s] EXCEPT !.on = FALSE]
      /\ \A t \in Sessions \ {s} : session'[t] = session[t]
  BY <1>1, <1>2, <1>3
<1>5. ~session'[s].on /\ session'[s].rec = session[s].rec /\ session'[s].busy = session[s].busy
  BY <1>1, <1>4 DEF SessionState
<1> QED
  BY <1>1, <1>4, <1>5 DEF SessionOK, SessionsKept

LEMMA DetachKeeps ==
    ASSUME OperationInv, NEW o \in Calls, Detach(o)
    PROVE  OperationInv'
<1>1. /\ CallTypeOK' /\ Histories /\ cached' = None /\ UNCHANGED store
      /\ op[o].pc = "detach" /\ FlowOK(o) /\ HandOK(o)
  BY CallsStayTyped DEF Detach, OperationInv
<1>2. /\ store' \in Record \cup {Absent} /\ op[o] \in OperationState /\ HistoryType'
      /\ cached \in Sessions \cup {None}
  BY <1>1 DEF OperationInv, SupervisorTypeOK, HistoryType, Histories
<1>3. AfterDetach(o) \in {"remove", "backend"} /\ (AfterDetach(o) = "backend" => op[o].kind # "delete")
  BY DEF AfterDetach
<1>4. CASE cached = None
  <2>1. To(o, AfterDetach(o)) /\ UNCHANGED session
    BY <1>4 DEF Detach
  <2>2. op'[o].pc = AfterDetach(o) /\ op'[o].kind = op[o].kind /\ op'[o].rec = op[o].rec
    BY <1>3, <2>1, OperationMoved DEF StepNames
  <2>3. FlowOK(o)' /\ HandOK(o)' /\ ~Detached(o)'
    BY <1>1, <1>3, <2>2 DEF FlowOK, HandOK, Running, Holds, HasRecord, Detached
  <2> QED
    BY <1>1, <1>2, <1>3, <2>1, <2>3, MoveStep, SessionsUnchanged DEF StepNames
<1>5. CASE cached # None
  <2> DEFINE x == [op[o] EXCEPT !.pc = "drain", !.s = cached]
  <2>1. /\ op' = [op EXCEPT ![o] = x] /\ session' = [session EXCEPT ![cached].on = FALSE]
    BY <1>5 DEF Detach
  <2>2. x \in OperationState /\ x.pc = "drain" /\ x.s = cached /\ x.kind = op[o].kind
        /\ x.rec = op[o].rec
    BY <1>2, <1>5 DEF OperationState
  <2> HIDE DEF x
  <2>3. op' \in [Calls -> OperationState] /\ op'[o] = x /\ \A p \in Calls \ {o} : op'[p] = op[p]
    BY <2>1, <2>2, OperationChanged
  <2>4. FlowOK(o)' /\ HandOK(o)' /\ op'[o].pc # "cache"
    BY <1>1, <1>2, <1>5, <2>2, <2>3 DEF FlowOK, HandOK, Running, Holds, HasRecord
  <2>5. SessionsKept
    BY <1>2, <1>5, <2>1, OffType
  <2> QED
    BY <1>1, <1>2, <1>5, <2>2, <2>3, <2>4, <2>5, OperationStep
<1> QED
  BY <1>4, <1>5

\* A session that is switched off for good is nobody's when it loses its
\* record.
LEMMA SwitchedOffStep ==
    ASSUME OperationInv, NEW o \in Calls, SwitchedOff(o), Detached(o), UNCHANGED cached,
           \A p \in Calls \ {o} : op'[p] = op[p], op'[o].s = None, op'[o].pc # "cache",
           ~Detached(o)'
    PROVE  session' \in [Sessions -> SessionState] /\ SessionOK'
<1> DEFINE s == op[o].s
           off == [session[s] EXCEPT !.on = FALSE, !.waiting = {}]
<1>1. /\ session \in [Sessions -> SessionState] /\ SessionOK /\ s \in Sessions /\ s # cached
      /\ cached \in Sessions \cup {None} /\ None \notin Sessions
  BY SupervisorAssumption
  DEF OperationInv, SupervisorTypeOK, HandOK, Running, Holds, Detached, SessionOK
<1>2. /\ off \in SessionState /\ off.rec = session[s].rec /\ ~off.on
      /\ NoSession \in SessionState /\ ~NoSession.on /\ NoSession.busy = {}
  BY <1>1 DEF SessionState, NoSession
<1> DEFINE gone == session[s].busy = {} /\ \A p \in Calls \ {o} : op[p].s # s
<1>3. session' = [session EXCEPT ![s] = IF gone THEN NoSession ELSE off]
  BY DEF SwitchedOff
<1> HIDE DEF off
<1>4. /\ session' \in [Sessions -> SessionState]
      /\ session'[s] = IF gone THEN NoSession ELSE off
      /\ \A t \in Sessions \ {s} : session'[t] = session[t]
  BY <1>1, <1>2, <1>3
<1>5. \A p \in Calls : op[p].s \in Sessions \cup {None}
  BY DEF OperationInv, SupervisorTypeOK, OperationState
<1>6. session[s].rec \in Record
  BY <1>1 DEF SessionOK
<1>7. \A p \in Calls : op'[p].s # None => session'[op'[p].s].rec \in Record
  <2>1. \A p \in Calls : op'[p].s # None => p # o /\ op'[p].s = op[p].s /\ op[p].s \in Sessions
    BY <1>5
  <2> QED
    BY <1>1, <1>2, <1>4, <1>6, <2>1 DEF SessionOK
<1>8. cached' # None => session'[cached'].rec \in Record
  BY <1>1, <1>4 DEF SessionOK
<1>9. \A t \in Sessions : session'[t].on \/ session'[t].busy # {} => session'[t].rec \in Record
  BY <1>1, <1>2, <1>4, <1>6 DEF SessionOK
<1>10. \A p \in Calls : op'[p].pc = "cache" =>
          op'[p].s # cached' /\ \A q \in Calls \ {p} : op'[q].s # op'[p].s
  <2>1. \A p \in Calls : op'[p].pc = "cache" => p # o /\ op[p].pc = "cache" /\ op'[p].s = op[p].s
                                               /\ op[p].s # None
    BY <1>1 DEF OperationInv, HandOK, Running, Holds
  <2> QED
    BY <1>1, <2>1 DEF SessionOK
<1>11. \A p \in Calls : Detached(p)' => op'[p].s # cached'
  BY <1>1 DEF SessionOK, Detached
<1> QED
  BY <1>4, <1>7, <1>8, <1>9, <1>10, <1>11 DEF SessionOK

LEMMA DrainKeeps ==
    ASSUME OperationInv, NEW o \in Calls, Drain(o)
    PROVE  OperationInv'
<1>1. /\ CallTypeOK' /\ Histories /\ UNCHANGED <<cached, store>> /\ SwitchedOff(o)
      /\ op[o].pc = "drain" /\ FlowOK(o) /\ HandOK(o)
  BY CallsStayTyped DEF Drain, OperationInv
<1>2. /\ store' \in Record \cup {Absent} /\ op[o] \in OperationState
      /\ cached' \in Sessions \cup {None}
  BY <1>1 DEF OperationInv, SupervisorTypeOK
<1>3. AfterDetach(o) \in {"remove", "backend"} /\ (AfterDetach(o) = "backend" => op[o].kind # "delete")
  BY DEF AfterDetach
<1> DEFINE x == [op[o] EXCEPT !.pc = AfterDetach(o), !.s = None]
<1>4. op' = [op EXCEPT ![o] = x]
  BY DEF Drain
<1>5. x \in OperationState /\ x.pc = AfterDetach(o) /\ x.s = None /\ x.kind = op[o].kind
      /\ x.rec = op[o].rec
  BY <1>2, <1>3 DEF OperationState
<1> HIDE DEF x
<1>6. op' \in [Calls -> OperationState] /\ op'[o] = x /\ \A p \in Calls \ {o} : op'[p] = op[p]
  BY <1>4, <1>5, OperationChanged
<1>7. FlowOK(o)' /\ HandOK(o)' /\ op'[o].pc # "cache" /\ ~Detached(o)'
  BY <1>1, <1>3, <1>5, <1>6 DEF FlowOK, HandOK, Running, Holds, HasRecord, Detached
<1>8. Detached(o)
  BY <1>1 DEF Detached, FlowOK
<1>9. session' \in [Sessions -> SessionState] /\ SessionOK'
  BY <1>1, <1>5, <1>6, <1>7, <1>8, SwitchedOffStep
<1> QED
  BY <1>1, <1>2, <1>6, <1>7, <1>9, OperationFrame

LEMMA QuiesceKeeps ==
    ASSUME OperationInv, NEW o \in Calls, Quiesce(o)
    PROVE  OperationInv'
<1>1. /\ CallTypeOK' /\ Histories /\ UNCHANGED <<cached, store>> /\ SwitchedOff(o)
      /\ op[o].pc = "quiesce" /\ FlowOK(o) /\ Return(o, TRUE)
  BY CallsStayTyped DEF Quiesce, OperationInv, Succeed
<1>2. /\ store' \in Record \cup {Absent} /\ op \in [Calls -> OperationState]
      /\ cached' \in Sessions \cup {None}
  BY <1>1 DEF OperationInv, SupervisorTypeOK
<1>3. /\ op'[o].pc = "done" /\ op'[o].s = None /\ op'[o].kind = op[o].kind
      /\ \A p \in Calls \ {o} : op'[p] = op[p]
      /\ op' \in [Calls -> OperationState]
  BY <1>1, ReturnType
<1>4. FlowOK(o)' /\ HandOK(o)' /\ ~Detached(o)'
  BY <1>3 DEF FlowOK, HandOK, Running, Holds, HasRecord, Detached
<1>5. Detached(o)
  BY <1>1 DEF Detached, FlowOK
<1>6. session' \in [Sessions -> SessionState] /\ SessionOK'
  BY <1>1, <1>3, <1>4, <1>5, SwitchedOffStep
<1> QED
  BY <1>1, <1>2, <1>3, <1>4, <1>6, OperationFrame

LEMMA BackendStopKeeps ==
    ASSUME OperationInv, NEW o \in Calls, BackendStop(o)
    PROVE  OperationInv'
<1>1. /\ CallTypeOK' /\ Histories /\ UNCHANGED <<cached, session>> /\ SessionsKept
      /\ op[o].pc = "backend" /\ FlowOK(o) /\ HandOK(o)
  BY CallsStayTyped, SessionsUnchanged DEF BackendStop, OperationInv
<1>2. CASE To(o, "pull") /\ UNCHANGED store
  <2>1. op'[o].pc = "pull" /\ op'[o].kind = op[o].kind /\ op'[o].rec = op[o].rec
    BY <1>2, OperationMoved DEF StepNames
  <2>2. FlowOK(o)' /\ HandOK(o)' /\ ~Detached(o)'
    BY <1>1, <2>1 DEF FlowOK, HandOK, Running, Holds, HasRecord, Detached
  <2>3. store' \in Record \cup {Absent}
    BY <1>2 DEF OperationInv, SupervisorTypeOK
  <2> QED
    BY <1>1, <1>2, <2>2, <2>3, MoveStep DEF StepNames
<1>3. CASE Fail(o)
  BY <1>1, <1>3, FailStep
<1> QED
  BY <1>2, <1>3 DEF BackendStop

\* A session writes its record.
LEMMA RecordWritten ==
    ASSUME OperationInv, NEW s \in Sessions, NEW r \in Record, WriteRecord(s, r),
           session[s].rec \in Record
    PROVE  SessionsKept /\ store' \in Record \cup {Absent}
BY WriteRecordType, SessionsWritten DEF OperationInv

\* The session of an operation has a record.
LEMMA HeldRecord ==
    ASSUME OperationInv, NEW o \in Calls, Holds(o)
    PROVE  op[o].s \in Sessions /\ op[o].s # None /\ session[op[o].s].rec \in Record
           /\ session[op[o].s] \in SessionState
BY SupervisorAssumption DEF OperationInv, HandOK, SessionOK, SupervisorTypeOK

\* An operation marks the record of its session and returns.
LEMMA MarkStep ==
    ASSUME OperationInv, NEW o \in Calls, Holds(o), CallTypeOK', Histories, UNCHANGED cached,
           NEW r \in Record, WriteRecord(op[o].s, r), NEW ok \in BOOLEAN, Return(o, ok)
    PROVE  OperationInv'
<1>1. op[o].s \in Sessions /\ session[op[o].s].rec \in Record
  BY HeldRecord
<1>2. SessionsKept /\ store' \in Record \cup {Absent}
  BY <1>1, RecordWritten
<1> QED
  BY <1>2, ReturnStep

LEMMA PullFailedKeeps ==
    ASSUME OperationInv, NEW o \in Calls, PullFailed(o)
    PROVE  OperationInv'
<1>1. /\ CallTypeOK' /\ Histories /\ UNCHANGED cached /\ op[o].pc = "pull"
  BY CallsStayTyped DEF PullFailed, PullEnded, OperationInv
<1>2. CASE op[o].kind = "restore"
  <2>1. Holds(o)
    BY <1>1, <1>2 DEF Holds
  <2>2. WithStatus(session[op[o].s].rec, "error") \in Record
    BY <2>1, HeldRecord, WithStatusType DEF ScrollStatuses
  <2> QED
    BY <1>1, <1>2, <2>1, <2>2, MarkStep DEF PullFailed
<1>3. CASE op[o].kind # "restore"
  BY <1>1, <1>3, FailStep DEF PullFailed
<1> QED
  BY <1>2, <1>3

LEMMA ApplyKeeps ==
    ASSUME SupervisorInv, NEW o \in Calls, Apply(o)
    PROVE  OperationInv'
<1> DEFINE restart == op[o].kind = "update" /\ op[o].rec.status = "running"
           r == Materialized(o, op[o].rec)
<1>1. /\ OperationInv /\ CallTypeOK' /\ Histories /\ UNCHANGED <<cached, session>> /\ SessionsKept
      /\ op[o].pc = "pull" /\ op[o].kind # "restore" /\ FlowOK(o) /\ HandOK(o)
  BY CallsStayTyped, SessionsUnchanged DEF Apply, PullEnded, SupervisorInv, OperationInv
<1>2. /\ store \in Record \cup {Absent} /\ op[o] \in OperationState /\ HistoryType'
  BY <1>1 DEF OperationInv, SupervisorTypeOK, HistoryType, Histories
<1>3. r \in Record
  BY <1>1, MaterializedType DEF HandOK, HasRecord, Apply, PullEnded
<1>4. CASE Fail(o)
  BY <1>1, <1>4, FailStep
<1>5. CASE Return(o, FALSE) /\ UNCHANGED store
  BY <1>1, <1>2, <1>5, ReturnStep
<1>6. CASE /\ store # Absent /\ UpdateScroll(r)
           /\ \/ op' = [op EXCEPT ![o].pc = "uiLookup", ![o].restart = restart,
                                  ![o].rec = Merged(r)]
              \/ op' = [op EXCEPT ![o].pc = "find", ![o].then = "serve", ![o].rec = Absent]
              \/ Return(o, TRUE)
  <2>1. store' \in Record \cup {Absent} /\ Merged(r) \in Record
    BY <1>2, <1>3, <1>6, UpdateScrollType, MergedType
  <2>2. CASE op' = [op EXCEPT ![o].pc = "uiLookup", ![o].restart = restart, ![o].rec = Merged(r)]
    <3> DEFINE x == [op[o] EXCEPT !.pc = "uiLookup", !.restart = restart, !.rec = Merged(r)]
    <3>1. restart \in BOOLEAN
      OBVIOUS
    <3>2. op' = [op EXCEPT ![o] = x]
      BY <2>2
    <3> HIDE DEF restart, r
    <3>3. x \in OperationState /\ x.pc = "uiLookup" /\ x.s = op[o].s /\ x.kind = op[o].kind
      BY <1>2, <2>1, <3>1 DEF OperationState
    <3> HIDE DEF x
    <3>4. op' \in [Calls -> OperationState] /\ op'[o] = x /\ \A p \in Calls \ {o} : op'[p] = op[p]
      BY <1>1, <3>2, <3>3, OperationChanged
    <3>5. FlowOK(o)' /\ HandOK(o)' /\ ~Detached(o)' /\ op'[o].pc # "cache"
      BY <1>1, <3>3, <3>4 DEF FlowOK, HandOK, Running, Holds, HasRecord, Detached
    <3> QED
      BY <1>1, <1>2, <2>1, <3>3, <3>4, <3>5, OperationStep
  <2>3. CASE op' = [op EXCEPT ![o].pc = "find", ![o].then = "serve", ![o].rec = Absent]
    <3> DEFINE x == [op[o] EXCEPT !.pc = "find", !.then = "serve", !.rec = Absent]
    <3>1. op' = [op EXCEPT ![o] = x]
      BY <2>3
    <3>2. /\ x \in OperationState /\ x.pc = "find" /\ x.s = op[o].s /\ x.kind = op[o].kind
          /\ x.then = "serve"
      BY <1>2 DEF OperationState
    <3> HIDE DEF x
    <3>3. op' \in [Calls -> OperationState] /\ op'[o] = x /\ \A p \in Calls \ {o} : op'[p] = op[p]
      BY <1>1, <3>1, <3>2, OperationChanged
    <3>4. FlowOK(o)' /\ HandOK(o)' /\ ~Detached(o)' /\ op'[o].pc # "cache"
      BY <1>1, <3>2, <3>3 DEF FlowOK, HandOK, Running, Holds, HasRecord, Detached
    <3> QED
      BY <1>1, <1>2, <2>1, <3>2, <3>3, <3>4, OperationStep
  <2>4. CASE Return(o, TRUE)
    BY <1>1, <2>1, <2>4, ReturnStep
  <2> QED
    BY <1>6, <2>2, <2>3, <2>4
<1> QED
  BY <1>4, <1>5, <1>6 DEF Apply

LEMMA RemoveKeeps ==
    ASSUME OperationInv, NEW o \in Calls, Remove(o)
    PROVE  OperationInv'
<1>1. /\ Histories /\ UNCHANGED <<cached, session, store>> /\ SessionsKept
      /\ op[o].pc = "remove" /\ FlowOK(o) /\ store' \in Record \cup {Absent}
  BY SessionsUnchanged DEF Remove, OperationInv, SupervisorTypeOK
<1>2. CallTypeOK'
  BY DEF Remove, OperationInv, SupervisorTypeOK, CallTypeOK, Contents
<1>3. CASE To(o, "forget")
  <2>1. op'[o].pc = "forget" /\ op'[o].kind = op[o].kind
    BY <1>3, OperationMoved DEF StepNames
  <2>2. FlowOK(o)' /\ HandOK(o)' /\ ~Detached(o)'
    BY <1>1, <2>1 DEF FlowOK, HandOK, Running, Holds, HasRecord, Detached
  <2> QED
    BY <1>1, <1>2, <1>3, <2>2, MoveStep DEF StepNames
<1>4. CASE Return(o, FALSE)
  BY <1>1, <1>2, <1>4, ReturnStep
<1> QED
  BY <1>3, <1>4 DEF Remove

LEMMA ForgetKeeps ==
    ASSUME OperationInv, NEW o \in Calls, Forget(o)
    PROVE  OperationInv'
BY CallsStayTyped, SessionsUnchanged, ReturnStep DEF Forget
\* A session that changes and keeps its record, or gets another.
LEMMA SessionChanged ==
    ASSUME OperationInv, NEW s \in Sessions, NEW x \in SessionState,
           session' = [session EXCEPT ![s] = x], session[s].rec \in Record, x.rec \in Record
    PROVE  SessionsKept
<1>1. session \in [Sessions -> SessionState]
  BY DEF OperationInv, SupervisorTypeOK
<1>2. /\ session' \in [Sessions -> SessionState] /\ session'[s] = x
      /\ \A t \in Sessions \ {s} : session'[t] = session[t]
  BY <1>1
<1> QED
  BY <1>2, SessionsWritten

\* An operation that goes on with its session.
LEMMA HoldStep ==
    ASSUME OperationInv, NEW o \in Calls, Holds(o), op[o].kind # "stop",
           NEW pc \in {"serve", "finish", "await", "uiQueue", "uiAwait", "uiRead", "uiRemove",
                       "uiRemoved"}, To(o, pc), CallTypeOK', Histories, UNCHANGED cached,
           SessionsKept, store' \in Record \cup {Absent}
    PROVE  OperationInv'
<1>1. op'[o].pc = pc /\ op'[o].s = op[o].s /\ op'[o].kind = op[o].kind
  BY OperationMoved DEF StepNames
<1>2. FlowOK(o)' /\ HandOK(o)' /\ ~Detached(o)'
  BY <1>1 DEF OperationInv, FlowOK, HandOK, Running, Holds, HasRecord, Detached
<1> QED
  BY <1>2, MoveStep DEF StepNames

\* A session puts a command into its queue.
LEMMA Enqueued ==
    ASSUME OperationInv, NEW s \in Sessions, session[s].rec \in Record, NEW c \in Commands,
           Enqueue(s, c)
    PROVE  SessionsKept /\ store' \in Record \cup {Absent}
<1>1. session[s] \in SessionState
  BY DEF OperationInv, SupervisorTypeOK
<1>2. PICK r \in Record, W \in SUBSET Commands, B \in SUBSET Commands :
         /\ r = WithProc(session[s].rec, c, "waiting")
         /\ W = session[s].waiting \cup {c} /\ B = session[s].busy
  BY <1>1, WithProcType DEF SessionState, ProcedureStatuses
<1>3. Write(s, r, W, B)
  BY <1>2 DEF Enqueue
<1> QED
  BY <1>3, WriteType, SessionsWritten DEF OperationInv

LEMMA StopBeginKeeps ==
    ASSUME OperationInv, NEW o \in Calls, StopBegin(o)
    PROVE  OperationInv'
<1>1. /\ CallTypeOK' /\ Histories /\ UNCHANGED <<store, cached>> /\ op[o].pc = "stop"
      /\ FlowOK(o) /\ Holds(o)
      /\ session' = [session EXCEPT ![op[o].s].on = FALSE]
  BY CallsStayTyped DEF StopBegin, SwitchOff, OperationInv, Holds
<1>2. /\ store' \in Record \cup {Absent} /\ op[o] \in OperationState /\ HistoryType'
      /\ op[o].s \in Sessions /\ session[op[o].s].on \in BOOLEAN
  BY <1>1, HeldRecord DEF OperationInv, SupervisorTypeOK, HistoryType, Histories, SessionState
<1> DEFINE x == [op[o] EXCEPT !.pc = "stopDrain", !.started = session[op[o].s].on]
<1>3. op' = [op EXCEPT ![o] = x]
  BY DEF StopBegin, SwitchOff
<1>4. x \in OperationState /\ x.pc = "stopDrain" /\ x.s = op[o].s /\ x.kind = op[o].kind
  BY <1>2 DEF OperationState
<1> HIDE DEF x
<1>5. op' \in [Calls -> OperationState] /\ op'[o] = x /\ \A p \in Calls \ {o} : op'[p] = op[p]
  BY <1>3, <1>4, OperationChanged
<1>6. FlowOK(o)' /\ HandOK(o)' /\ op'[o].pc # "cache"
  BY <1>1, <1>2, <1>4, <1>5 DEF FlowOK, HandOK, Running, Holds, HasRecord
<1>7. Detached(o)' => op'[o].s # cached'
  BY <1>1, <1>4, <1>5 DEF OperationInv, SessionOK, Detached
<1> QED
  BY <1>1, <1>2, <1>4, <1>5, <1>6, <1>7, OffType, OperationStep

LEMMA StopDrainKeeps ==
    ASSUME OperationInv, NEW o \in Calls, StopDrain(o)
    PROVE  OperationInv'
<1>1. /\ CallTypeOK' /\ Histories /\ UNCHANGED <<store, cached>> /\ op[o].pc = "stopDrain"
      /\ FlowOK(o) /\ Holds(o) /\ To(o, "stopBackend")
      /\ session' = [session EXCEPT ![op[o].s].waiting = {}]
  BY CallsStayTyped DEF StopDrain, OperationInv, Holds
<1>2. /\ op[o].s \in Sessions /\ session[op[o].s].rec \in Record
      /\ session[op[o].s] \in SessionState
  BY <1>1, HeldRecord
<1>3. PICK x \in SessionState : x = [session[op[o].s] EXCEPT !.waiting = {}]
  BY <1>2 DEF SessionState
<1>4. session' = [session EXCEPT ![op[o].s] = x] /\ x.rec = session[op[o].s].rec
  BY <1>1, <1>2, <1>3 DEF SessionState
<1>5. SessionsKept
  BY <1>2, <1>4, SessionChanged
<1>6. op'[o].pc = "stopBackend" /\ op'[o].s = op[o].s /\ op'[o].kind = op[o].kind
  BY <1>1, OperationMoved DEF StepNames
<1>7. FlowOK(o)' /\ HandOK(o)' /\ (Detached(o)' => Detached(o)) /\ op'[o].s # None
  BY <1>1, <1>2, <1>6, SupervisorAssumption DEF FlowOK, HandOK, Running, Holds, HasRecord, Detached
<1>8. store' \in Record \cup {Absent}
  BY <1>1 DEF OperationInv, SupervisorTypeOK
<1> QED
  BY <1>1, <1>5, <1>7, <1>8, MoveStep DEF StepNames

LEMMA StopBackendKeeps ==
    ASSUME OperationInv, NEW o \in Calls, StopBackend(o)
    PROVE  OperationInv'
<1> DEFINE s == op[o].s
           marked == WithStatus(session[s].rec, "error")
<1>1. /\ CallTypeOK' /\ Histories /\ UNCHANGED cached /\ op[o].pc = "stopBackend"
      /\ FlowOK(o) /\ Holds(o)
  BY CallsStayTyped DEF StopBackend, OperationInv, Holds
<1>2. /\ s \in Sessions /\ session[s].rec \in Record /\ session[s] \in SessionState
      /\ store \in Record \cup {Absent} /\ op[o] \in OperationState
      /\ session \in [Sessions -> SessionState]
  BY <1>1, HeldRecord DEF OperationInv, SupervisorTypeOK
<1>3. CASE To(o, "stopStore") /\ UNCHANGED <<store, session>>
  <2>1. op'[o].pc = "stopStore" /\ op'[o].s = op[o].s /\ op'[o].kind = op[o].kind
    BY <1>3, OperationMoved DEF StepNames
  <2>2. FlowOK(o)' /\ HandOK(o)' /\ (Detached(o)' => Detached(o)) /\ op'[o].s # None
    BY <1>1, <1>2, <2>1, SupervisorAssumption DEF FlowOK, HandOK, Running, Holds, HasRecord, Detached
  <2> QED
    BY <1>1, <1>2, <1>3, <2>2, MoveStep, SessionsUnchanged DEF StepNames
<1>4. CASE /\ session' = [session EXCEPT ![s].on = @ \/ op[o].started, ![s].rec = Merged(marked)]
           /\ UpdateScroll(marked) /\ Return(o, FALSE)
  <2>1. marked \in Record
    BY <1>2, WithStatusType DEF ScrollStatuses
  <2>2. store' \in Record \cup {Absent} /\ Merged(marked) \in Record
    BY <1>2, <1>4, <2>1, UpdateScrollType, MergedType
  <2> HIDE DEF marked
  <2>3. PICK on \in BOOLEAN : on = (session[s].on \/ op[o].started)
    BY <1>2 DEF SessionState, OperationState
  <2>4. PICK x \in SessionState : x = [session[s] EXCEPT !.on = on, !.rec = Merged(marked)]
    BY <1>2, <2>2 DEF SessionState
  <2>5. x.rec = Merged(marked)
    BY <1>2, <2>4 DEF SessionState
  <2>6. session' = [session EXCEPT ![s] = x]
    BY <1>2, <1>4, <2>3, <2>4
  <2>7. SessionsKept
    BY <1>2, <2>2, <2>5, <2>6, SessionChanged
  <2> QED
    BY <1>1, <1>4, <2>2, <2>7, ReturnStep
<1> QED
  BY <1>3, <1>4 DEF StopBackend

LEMMA StopStoreKeeps ==
    ASSUME OperationInv, NEW o \in Calls, StopStore(o)
    PROVE  OperationInv'
<1> DEFINE s == op[o].s
           stopped == Stopped(session[s].rec)
           pc == IF op[o].kind = "stop" THEN "quiesce" ELSE "pull"
<1>1. /\ CallTypeOK' /\ Histories /\ UNCHANGED cached /\ op[o].pc = "stopStore"
      /\ FlowOK(o) /\ Holds(o)
  BY CallsStayTyped DEF StopStore, OperationInv, Holds
<1>2. /\ s \in Sessions /\ session[s].rec \in Record /\ session[s] \in SessionState
      /\ store \in Record \cup {Absent} /\ op[o] \in OperationState
      /\ session \in [Sessions -> SessionState]
  BY <1>1, HeldRecord DEF OperationInv, SupervisorTypeOK
<1>3. stopped \in Record
  BY <1>2, StoppedType
<1>4. WithStatus(stopped, "error") \in Record /\ Merged(stopped) \in Record
  BY <1>2, <1>3, WithStatusType, MergedType DEF ScrollStatuses
<1> HIDE DEF stopped
<1>5. CASE /\ UpdateScroll(stopped)
           /\ session' = [session EXCEPT ![s].rec = Merged(stopped), ![s].on = @ \/ op[o].started]
           /\ To(o, pc)
  <2>1. store' \in Record \cup {Absent}
    BY <1>2, <1>3, <1>5, UpdateScrollType
  <2>2. PICK on \in BOOLEAN : on = (session[s].on \/ op[o].started)
    BY <1>2 DEF SessionState, OperationState
  <2>3. PICK x \in SessionState : x = [session[s] EXCEPT !.rec = Merged(stopped), !.on = on]
    BY <1>2, <1>4, <2>2 DEF SessionState
  <2>4. x.rec = Merged(stopped)
    BY <1>2, <2>3 DEF SessionState
  <2>5. session' = [session EXCEPT ![s] = x]
    BY <1>2, <1>5, <2>2, <2>3
  <2>6. SessionsKept
    BY <1>2, <1>4, <2>4, <2>5, SessionChanged
  <2>7. op'[o].pc = pc /\ op'[o].s = op[o].s /\ op'[o].kind = op[o].kind
    BY <1>5, OperationMoved DEF StepNames
  <2>8. FlowOK(o)' /\ HandOK(o)' /\ (Detached(o)' => Detached(o)) /\ op'[o].s # None
    BY <1>1, <1>2, <2>7, SupervisorAssumption DEF FlowOK, HandOK, Running, Holds, HasRecord, Detached
  <2> QED
    BY <1>1, <1>5, <2>1, <2>6, <2>8, MoveStep DEF StepNames
<1>6. CASE WriteRecord(s, WithStatus(stopped, "error")) /\ Return(o, FALSE)
  BY <1>1, <1>4, <1>6, MarkStep
<1> QED
  BY <1>5, <1>6 DEF StopStore, stopped

LEMMA RestoreBeginKeeps ==
    ASSUME OperationInv, NEW o \in Calls, RestoreBegin(o)
    PROVE  OperationInv'
<1>1. /\ CallTypeOK' /\ Histories /\ UNCHANGED cached /\ op[o].pc = "pull"
      /\ op[o].kind = "restore" /\ FlowOK(o) /\ Holds(o)
  BY CallsStayTyped DEF RestoreBegin, PullEnded, OperationInv, Holds
<1>2. /\ op[o] \in OperationState /\ HistoryType' /\ op[o].s \in Sessions
      /\ session[op[o].s].on \in BOOLEAN /\ session[op[o].s].rec \in Record
      /\ store \in Record \cup {Absent}
  BY <1>1, HeldRecord DEF OperationInv, SupervisorTypeOK, HistoryType, Histories, SessionState
<1>3. CASE SwitchOff(o, "restored") /\ UNCHANGED store
  <2> DEFINE x == [op[o] EXCEPT !.pc = "restored", !.started = session[op[o].s].on]
  <2>1. op' = [op EXCEPT ![o] = x] /\ session' = [session EXCEPT ![op[o].s].on = FALSE]
    BY <1>3 DEF SwitchOff
  <2>2. x \in OperationState /\ x.pc = "restored" /\ x.s = op[o].s /\ x.kind = op[o].kind
    BY <1>2 DEF OperationState
  <2> HIDE DEF x
  <2>3. op' \in [Calls -> OperationState] /\ op'[o] = x /\ \A p \in Calls \ {o} : op'[p] = op[p]
    BY <2>1, <2>2, OperationChanged
  <2>4. FlowOK(o)' /\ HandOK(o)' /\ op'[o].pc # "cache" /\ ~Detached(o)'
    BY <1>1, <1>2, <2>2, <2>3 DEF FlowOK, HandOK, Running, Holds, HasRecord, Detached
  <2> QED
    BY <1>1, <1>2, <1>3, <2>1, <2>2, <2>3, <2>4, OffType, OperationStep
<1>4. CASE WriteRecord(op[o].s, WithStatus(session[op[o].s].rec, "error")) /\ Return(o, FALSE)
  <2>1. WithStatus(session[op[o].s].rec, "error") \in Record
    BY <1>2, WithStatusType DEF ScrollStatuses
  <2> QED
    BY <1>1, <1>4, <2>1, MarkStep
<1> QED
  BY <1>3, <1>4 DEF RestoreBegin

\* The scroll starts again, with nothing in hand, or the operation is done.
LEMMA StartOrReturnStep ==
    ASSUME OperationInv, NEW o \in Calls, StartOrReturn(o), op[o].kind # "stop", CallTypeOK',
           Histories, UNCHANGED cached, SessionsKept, store' \in Record \cup {Absent}
    PROVE  OperationInv'
<1>1. op[o] \in OperationState /\ HistoryType'
  BY DEF OperationInv, SupervisorTypeOK, HistoryType, Histories
<1>2. CASE op[o].restart
  <2> DEFINE x == [op[o] EXCEPT !.pc = "find", !.then = "serve", !.restart = FALSE,
                                !.rec = Absent, !.fresh = Absent, !.s = None]
  <2>1. op' = [op EXCEPT ![o] = x]
    BY <1>2 DEF StartOrReturn
  <2>2. /\ x \in OperationState /\ x.pc = "find" /\ x.s = None /\ x.kind = op[o].kind
        /\ x.then = "serve"
    BY <1>1 DEF OperationState
  <2> HIDE DEF x
  <2>3. op' \in [Calls -> OperationState] /\ op'[o] = x /\ \A p \in Calls \ {o} : op'[p] = op[p]
    BY <2>1, <2>2, OperationChanged
  <2>4. FlowOK(o)' /\ HandOK(o)' /\ ~Detached(o)' /\ op'[o].pc # "cache"
    BY <2>2, <2>3 DEF FlowOK, HandOK, Running, Holds, HasRecord, Detached
  <2> QED
    BY <1>1, <2>2, <2>3, <2>4, OperationStep
<1>3. CASE ~op[o].restart
  BY <1>3, ReturnStep DEF StartOrReturn
<1> QED
  BY <1>2, <1>3

\* Get a session: uiLookup.
LEMMA GetSessionStep ==
    ASSUME OperationInv, NEW o \in Calls, GetSession(o, "uiAdd"), op[o].kind # "stop",
           CallTypeOK', Histories, UNCHANGED <<store, cached, session>>
    PROVE  OperationInv'
<1>1. op[o] \in OperationState /\ HistoryType' /\ store' \in Record \cup {Absent}
  BY DEF OperationInv, SupervisorTypeOK, HistoryType, Histories
<1> DEFINE x == [op[o] EXCEPT !.pc = "find", !.then = "uiAdd", !.s = None]
<1>2. op' = [op EXCEPT ![o] = x]
  BY DEF GetSession
<1>3. x \in OperationState /\ x.pc = "find" /\ x.s = None /\ x.kind = op[o].kind /\ x.then = "uiAdd"
  BY <1>1 DEF OperationState
<1> HIDE DEF x
<1>4. op' \in [Calls -> OperationState] /\ op'[o] = x /\ \A p \in Calls \ {o} : op'[p] = op[p]
  BY <1>2, <1>3, OperationChanged
<1>5. FlowOK(o)' /\ HandOK(o)' /\ ~Detached(o)' /\ op'[o].pc # "cache"
  BY <1>3, <1>4 DEF FlowOK, HandOK, Running, Holds, HasRecord, Detached
<1> QED
  BY <1>1, <1>3, <1>4, <1>5, SessionsUnchanged, OperationStep

LEMMA ServeKeeps ==
    ASSUME OperationInv, NEW o \in Calls, Serve(o)
    PROVE  OperationInv'
<1>1. /\ CallTypeOK' /\ Histories /\ UNCHANGED cached /\ To(o, "finish") /\ Holds(o)
      /\ op[o].kind # "stop" /\ "serve" \in Commands
  BY CallsStayTyped DEF Serve, OperationInv, FlowOK, Holds, Commands
<1>2. SessionsKept /\ store' \in Record \cup {Absent}
  <2>1. CASE UNCHANGED <<store, session>>
    BY <2>1, SessionsUnchanged DEF OperationInv, SupervisorTypeOK
  <2>2. CASE Enqueue(op[o].s, "serve")
    BY <1>1, <2>2, HeldRecord, Enqueued
  <2> QED
    BY <2>1, <2>2 DEF Serve
<1> QED
  BY <1>1, <1>2, HoldStep

LEMMA FinishStartKeeps ==
    ASSUME OperationInv, NEW o \in Calls, FinishStart(o)
    PROVE  OperationInv'
<1> DEFINE r == session[op[o].s].rec
           new == WithStatus(r, IF Derived(r) = "created" THEN "running" ELSE Derived(r))
<1>1. /\ CallTypeOK' /\ Histories /\ UNCHANGED cached /\ Holds(o) /\ WriteRecord(op[o].s, new)
      /\ Return(o, store # Absent)
  BY CallsStayTyped DEF FinishStart, OperationInv, Holds
<1>2. r \in Record
  BY <1>1, HeldRecord
<1>3. new \in Record
  BY <1>2, DerivedType, WithStatusType DEF ScrollStatuses
<1> HIDE DEF new
<1>4. PICK ok \in BOOLEAN : ok = (store # Absent)
  OBVIOUS
<1> QED
  BY <1>1, <1>3, <1>4, MarkStep

LEMMA RunKeeps ==
    ASSUME OperationInv, NEW o \in Calls, Run(o)
    PROVE  OperationInv'
<1>1. /\ CallTypeOK' /\ Histories /\ UNCHANGED cached /\ Holds(o)
      /\ op[o].kind # "stop" /\ "serve" \in Commands /\ store \in Record \cup {Absent}
  BY CallsStayTyped DEF Run, OperationInv, FlowOK, Holds, Commands, SupervisorTypeOK
<1>2. CASE Return(o, FALSE) /\ UNCHANGED <<store, session>>
  BY <1>1, <1>2, SessionsUnchanged, ReturnStep
<1>3. CASE Enqueue(op[o].s, "serve") /\ To(o, "await")
  BY <1>1, <1>3, HeldRecord, Enqueued, HoldStep
<1> QED
  BY <1>2, <1>3 DEF Run

LEMMA AwaitKeeps ==
    ASSUME OperationInv, NEW o \in Calls, Await(o)
    PROVE  OperationInv'
<1>1. /\ CallTypeOK' /\ Histories /\ UNCHANGED <<cached, session>> /\ store' \in Record \cup {Absent}
  BY CallsStayTyped DEF Await, OperationInv, SupervisorTypeOK
<1>2. PICK ok \in BOOLEAN : ok = (session[op[o].s].rec.procs["serve"] = "done")
  OBVIOUS
<1> QED
  BY <1>1, <1>2, SessionsUnchanged, ReturnStep DEF Await

\* The record a restore writes, once its pull has succeeded.
LEMMA RestoredType ==
    ASSUME SupervisorInv, NEW o \in Calls, Holds(o), call[o].result = "ok"
    PROVE  [Materialized(o, session[op[o].s].rec) EXCEPT
               !.procs["serve"] = session[op[o].s].rec.procs["serve"], !.status = "stopped"] \in Record
<1>1. session[op[o].s].rec \in Record
  BY HeldRecord DEF SupervisorInv
<1>2. PICK old \in Record : old = session[op[o].s].rec
  BY <1>1
<1>3. Materialized(o, old) \in Record
  BY MaterializedType
<1>4. PICK new \in Record : new = Materialized(o, old)
  BY <1>3
<1>5. old.procs["serve"] \in ProcedureStatuses /\ "stopped" \in ScrollStatuses
  BY DEF Record, Commands, ScrollStatuses
<1>6. [new EXCEPT !.procs["serve"] = old.procs["serve"], !.status = "stopped"] \in Record
  BY <1>5 DEF Record
<1> QED
  BY <1>2, <1>4, <1>6

LEMMA ApplyRestoreKeeps ==
    ASSUME SupervisorInv, NEW o \in Calls, ApplyRestore(o)
    PROVE  OperationInv'
<1> DEFINE s == op[o].s
           r == [Materialized(o, session[s].rec) EXCEPT
                    !.procs["serve"] = session[s].rec.procs["serve"], !.status = "stopped"]
<1>1. /\ OperationInv /\ CallTypeOK' /\ Histories /\ UNCHANGED cached /\ Holds(o)
      /\ op[o].kind # "stop"
  BY CallsStayTyped DEF ApplyRestore, SupervisorInv, OperationInv, Holds, FlowOK
<1>2. /\ s \in Sessions /\ session[s].rec \in Record /\ session[s] \in SessionState
      /\ store \in Record \cup {Absent} /\ op[o] \in OperationState
      /\ session \in [Sessions -> SessionState]
  BY <1>1, HeldRecord DEF OperationInv, SupervisorTypeOK
<1>3. r \in Record
  BY <1>1, RestoredType DEF SupervisorInv, RestorePulled, ApplyRestore
<1> HIDE DEF r
<1>4. WithStatus(r, "error") \in Record /\ Merged(r) \in Record
  BY <1>2, <1>3, WithStatusType, MergedType DEF ScrollStatuses
<1>5. CASE /\ UpdateScroll(r)
           /\ session' = [session EXCEPT ![s].rec = Merged(r),
                 ![s].waiting = IF op[o].started THEN {} ELSE @, ![s].on = @ \/ op[o].started]
           /\ StartOrReturn(o)
  <2>1. store' \in Record \cup {Absent}
    BY <1>2, <1>3, <1>5, UpdateScrollType
  <2>2. PICK on \in BOOLEAN : on = (session[s].on \/ op[o].started)
    BY <1>2 DEF SessionState, OperationState
  <2>3. PICK W \in SUBSET Commands : W = IF op[o].started THEN {} ELSE session[s].waiting
    BY <1>2 DEF SessionState
  <2>4. PICK x \in SessionState :
            x = [session[s] EXCEPT !.rec = Merged(r), !.waiting = W, !.on = on]
    BY <1>2, <1>4 DEF SessionState
  <2>5. x.rec = Merged(r)
    BY <1>2, <2>4 DEF SessionState
  <2>6. session' = [session EXCEPT ![s] = x]
    BY <1>2, <1>5, <2>2, <2>3, <2>4
  <2>7. SessionsKept
    BY <1>1, <1>2, <1>4, <2>5, <2>6, SessionChanged
  <2> QED
    BY <1>1, <1>5, <2>1, <2>7, StartOrReturnStep
<1>6. CASE WriteRecord(s, WithStatus(r, "error")) /\ Return(o, FALSE)
  BY <1>1, <1>4, <1>6, MarkStep
<1> QED
  BY <1>5, <1>6 DEF ApplyRestore, r

LEMMA UILookupKeeps ==
    ASSUME OperationInv, NEW o \in Calls, UILookup(o)
    PROVE  OperationInv'
<1>1. /\ CallTypeOK' /\ Histories /\ UNCHANGED <<cached, session>> /\ op[o].kind # "stop"
  BY CallsStayTyped DEF UILookup, OperationInv, FlowOK
<1> QED
  BY <1>1, GetSessionStep, FailStep DEF UILookup

LEMMA UIAddKeeps ==
    ASSUME OperationInv, NEW o \in Calls, UIAdd(o)
    PROVE  OperationInv'
<1> DEFINE r == [session[op[o].s].rec EXCEPT !.ui = @ \cup {o}]
<1>1. /\ CallTypeOK' /\ Histories /\ UNCHANGED cached /\ op[o].kind # "stop" /\ Holds(o)
  BY CallsStayTyped DEF UIAdd, OperationInv, FlowOK, Holds
<1>2. op[o].s \in Sessions /\ session[op[o].s].rec \in Record
  BY <1>1, HeldRecord
<1>3. r \in Record
  BY <1>2 DEF Record
<1> HIDE DEF r
<1>4. CASE WriteRecord(op[o].s, r) /\ To(o, "uiQueue")
  BY <1>1, <1>2, <1>3, <1>4, RecordWritten, HoldStep
<1>5. CASE Fail(o) /\ UNCHANGED session
  BY <1>1, <1>5, FailStep
<1> QED
  BY <1>4, <1>5 DEF UIAdd, r

LEMMA UIQueueKeeps ==
    ASSUME OperationInv, NEW o \in Calls, UIQueue(o)
    PROVE  OperationInv'
<1>1. /\ CallTypeOK' /\ Histories /\ UNCHANGED cached /\ op[o].kind # "stop" /\ Holds(o)
      /\ o \in Commands /\ store \in Record \cup {Absent}
  BY CallsStayTyped DEF UIQueue, OperationInv, FlowOK, Holds, Commands, SupervisorTypeOK
<1>2. CASE Enqueue(op[o].s, o) /\ To(o, "uiAwait")
  BY <1>1, <1>2, HeldRecord, Enqueued, HoldStep
<1>3. CASE To(o, "uiRemove") /\ UNCHANGED <<store, session>>
  BY <1>1, <1>3, SessionsUnchanged, HoldStep
<1> QED
  BY <1>2, <1>3 DEF UIQueue

LEMMA UIAwaitKeeps ==
    ASSUME OperationInv, NEW o \in Calls, UIAwait(o)
    PROVE  OperationInv'
<1>1. /\ CallTypeOK' /\ Histories /\ UNCHANGED <<cached, store, session>> /\ op[o].kind # "stop"
      /\ Holds(o) /\ store' \in Record \cup {Absent} /\ SessionsKept
  BY CallsStayTyped, SessionsUnchanged DEF UIAwait, OperationInv, FlowOK, Holds, SupervisorTypeOK
<1>2. PICK pc \in {"uiRead", "uiRemove"} :
        pc = IF session[op[o].s].rec.procs[o] = "done" THEN "uiRead" ELSE "uiRemove"
  OBVIOUS
<1>3. To(o, pc)
  BY <1>2 DEF UIAwait, To
<1> QED
  BY <1>1, <1>3, HoldStep

LEMMA UIReadKeeps ==
    ASSUME OperationInv, NEW o \in Calls, UIRead(o)
    PROVE  OperationInv'
<1>1. /\ CallTypeOK' /\ Histories /\ UNCHANGED <<cached, session, store>> /\ op[o].pc = "uiRead"
      /\ FlowOK(o) /\ HandOK(o) /\ SessionsKept
  BY CallsStayTyped, SessionsUnchanged DEF UIRead, OperationInv
<1>2. /\ store \in Record \cup {Absent} /\ op[o] \in OperationState /\ HistoryType'
  BY <1>1 DEF OperationInv, SupervisorTypeOK, HistoryType, Histories
<1>3. PICK pc \in {"uiRemove", "uiStore"} : pc = IF store = Absent THEN "uiRemove" ELSE "uiStore"
  OBVIOUS
<1> DEFINE x == [op[o] EXCEPT !.pc = pc, !.fresh = store]
<1>4. op' = [op EXCEPT ![o] = x]
  BY <1>3 DEF UIRead
<1>5. /\ x \in OperationState /\ x.pc = pc /\ x.s = op[o].s /\ x.kind = op[o].kind
      /\ x.fresh = store
  BY <1>2 DEF OperationState
<1> HIDE DEF x
<1>6. op' \in [Calls -> OperationState] /\ op'[o] = x /\ \A p \in Calls \ {o} : op'[p] = op[p]
  BY <1>4, <1>5, OperationChanged
<1>7. FlowOK(o)' /\ HandOK(o)' /\ ~Detached(o)' /\ op'[o].pc # "cache"
  BY <1>1, <1>2, <1>3, <1>5, <1>6 DEF FlowOK, HandOK, Running, Holds, HasRecord, Detached
<1> QED
  BY <1>1, <1>2, <1>5, <1>6, <1>7, OperationStep

LEMMA UIStoreKeeps ==
    ASSUME OperationInv, NEW o \in Calls, UIStore(o)
    PROVE  OperationInv'
<1>1. /\ CallTypeOK' /\ Histories /\ UNCHANGED <<cached, session>> /\ op[o].pc = "uiStore"
      /\ FlowOK(o) /\ HandOK(o) /\ SessionsKept
  BY CallsStayTyped, SessionsUnchanged DEF UIStore, OperationInv
<1>2. /\ store \in Record \cup {Absent} /\ op[o] \in OperationState /\ HistoryType'
  BY <1>1 DEF OperationInv, SupervisorTypeOK, HistoryType, Histories
<1>3. [op[o].fresh EXCEPT !.published = TRUE] \in Record
  BY <1>1 DEF HandOK, Record
<1>4. store' \in Record \cup {Absent}
  BY <1>2, <1>3, UpdateScrollType DEF UIStore
<1>5. PICK ok \in BOOLEAN : ok = (store # Absent)
  OBVIOUS
<1> DEFINE x == [op[o] EXCEPT !.pc = "uiRemove", !.ok = ok, !.fresh = Absent]
<1>6. op' = [op EXCEPT ![o] = x]
  BY <1>5 DEF UIStore
<1>7. /\ x \in OperationState /\ x.pc = "uiRemove" /\ x.s = op[o].s /\ x.kind = op[o].kind
  BY <1>2 DEF OperationState
<1> HIDE DEF x
<1>8. op' \in [Calls -> OperationState] /\ op'[o] = x /\ \A p \in Calls \ {o} : op'[p] = op[p]
  BY <1>6, <1>7, OperationChanged
<1>9. FlowOK(o)' /\ HandOK(o)' /\ ~Detached(o)' /\ op'[o].pc # "cache"
  BY <1>1, <1>7, <1>8 DEF FlowOK, HandOK, Running, Holds, HasRecord, Detached
<1> QED
  BY <1>1, <1>2, <1>4, <1>7, <1>8, <1>9, OperationStep

LEMMA UIRemoveKeeps ==
    ASSUME OperationInv, NEW o \in Calls, UIRemove(o)
    PROVE  OperationInv'
<1> DEFINE s == op[o].s
           r == [session[s].rec EXCEPT !.ui = @ \ {o}, !.procs[o] = "unset"]
<1>1. /\ CallTypeOK' /\ Histories /\ UNCHANGED cached /\ op[o].kind # "stop" /\ Holds(o)
      /\ op[o] \in OperationState
  BY CallsStayTyped DEF UIRemove, OperationInv, FlowOK, Holds, SupervisorTypeOK
<1>2. s \in Sessions /\ session[s].rec \in Record /\ session[s] \in SessionState
  BY <1>1, HeldRecord
<1>3. PICK n \in Record : n = r
  BY <1>2 DEF Record, Commands, ProcedureStatuses
<1>4. PICK W \in SUBSET Commands, B \in SUBSET Commands :
        W = session[s].waiting \ {o} /\ B = session[s].busy
  BY <1>2 DEF SessionState
<1>5. Write(s, n, W, B)
  BY <1>3, <1>4 DEF UIRemove
<1>6. SessionsKept /\ store' \in Record \cup {Absent}
  BY <1>2, <1>5, WriteType, SessionsWritten DEF OperationInv
<1>7. CASE Return(o, op[o].ok)
  <2>1. op[o].ok \in BOOLEAN
    BY <1>1 DEF OperationState
  <2> QED
    BY <1>1, <1>6, <1>7, <2>1, ReturnStep
<1>8. CASE op' = [op EXCEPT ![o].pc = "uiRemoved"]
  BY <1>1, <1>6, <1>8, HoldStep DEF To
<1> QED
  BY <1>7, <1>8 DEF UIRemove

LEMMA UIRemovedKeeps ==
    ASSUME OperationInv, NEW o \in Calls, UIRemoved(o)
    PROVE  OperationInv'
<1>1. /\ CallTypeOK' /\ Histories /\ UNCHANGED <<cached, session>> /\ op[o].kind # "stop"
      /\ SessionsKept /\ store \in Record \cup {Absent}
  BY CallsStayTyped, SessionsUnchanged DEF UIRemoved, OperationInv, FlowOK, SupervisorTypeOK
<1> QED
  BY <1>1, StartOrReturnStep, FailStep DEF UIRemoved

-----------------------------------------------------------------------------
(* The callbacks, the sessions, crashes                                    *)

LEMMA PullBeginKeeps ==
    ASSUME SupervisorInv, NEW o \in Calls, PullBegin(o)
    PROVE  CallTypeOK' /\ CallVersions' /\ RestorePulled'
<1>1. /\ op[o].artifact \in Versions /\ op[o].pc = "pull" /\ CallTypeOK
  BY DEF PullBegin, SupervisorInv, OperationInv, SupervisorTypeOK, OperationState
<1>2. /\ call[o].pc = "idle" /\ UNCHANGED <<chan, worker, root, op>> /\ pending' \in {pending, o}
      /\ \E n \in {[pc |-> "spawn", artifact |-> op[o].artifact, result |-> "none"],
                   [pc |-> "done", artifact |-> op[o].artifact, result |-> "failed"]} :
            call' = [call EXCEPT ![o] = n]
  BY DEF PullBegin, Register, supervisorVars
<1>3. PICK n \in CallState : /\ call' = [call EXCEPT ![o] = n] /\ n.artifact \in Versions
                             /\ n.result # "ok"
  <2>1. \A n \in {[pc |-> "spawn", artifact |-> op[o].artifact, result |-> "none"],
                   [pc |-> "done", artifact |-> op[o].artifact, result |-> "failed"]} :
            n \in CallState /\ n.artifact \in Versions /\ n.result # "ok"
    BY <1>1 DEF CallState
  <2> QED
    BY <1>2, <2>1
<1>4. CallTypeOK'
  BY <1>1, <1>2, <1>3 DEF CallTypeOK
<1>5. call'[o] = n /\ \A c \in Calls \ {o} : call'[c] = call[c]
  BY <1>1, <1>3 DEF CallTypeOK
<1> QED
  BY <1>1, <1>2, <1>3, <1>4, <1>5 DEF SupervisorInv, CallVersions, RestorePulled, NoResult

LEMMA CallStepTyped ==
    ASSUME SupervisorInv, NEW c \in Calls, PullCall(c), UNCHANGED supervisorVars
    PROVE  CallTypeOK' /\ CallVersions' /\ RestorePulled'
<1>1. CallTypeOK /\ call[c] \in CallState
  BY DEF SupervisorInv, OperationInv, SupervisorTypeOK, CallTypeOK
<1>2. /\ UNCHANGED <<chan, op>> /\ pending' \in {pending, None} /\ call[c].pc \notin {"idle", "done"}
      /\ worker' \in {worker, [worker EXCEPT ![c] = "pulling"], [worker EXCEPT ![c] = "gone"]}
      /\ root' \in {root, Torn}
  BY DEF supervisorVars, PullCall, SpawnFails, StartWorker, SpawnReturns, SpawnTimesOut, Receive,
         WaitTimesOut, Cancel
<1>3. \/ \E pc \in {"cancel", "running", "wait"} : CallTo(c, pc)
      \/ ReturnCall(c, "failed")
      \/ ReturnCall(c, "ok") /\ chan[c] # NoResult
  BY DEF PullCall, SpawnFails, StartWorker, SpawnReturns, SpawnTimesOut, Receive, WaitTimesOut,
         Cancel
<1>4. PICK n \in CallState :
         /\ call' = [call EXCEPT ![c] = n] /\ n.artifact = call[c].artifact
         /\ n.result = "ok" => chan[c] # NoResult
  <2>1. CASE \E pc \in {"cancel", "running", "wait"} : CallTo(c, pc)
    <3>1. PICK pc \in {"cancel", "running", "wait"} : CallTo(c, pc)
      BY <2>1
    <3>2. PICK n \in CallState : n = [call[c] EXCEPT !.pc = pc]
      BY <1>1 DEF CallState
    <3>3. n.artifact = call[c].artifact /\ n.result = call[c].result
      BY <1>1, <3>2 DEF CallState
    <3>4. call' = [call EXCEPT ![c] = n]
      BY <3>1, <3>2 DEF CallTo
    <3> QED
      BY <3>3, <3>4 DEF SupervisorInv, CallVersions
  <2>2. ASSUME NEW result \in {"ok", "failed"}, ReturnCall(c, result),
               result = "ok" => chan[c] # NoResult
        PROVE  \E n \in CallState :
                  /\ call' = [call EXCEPT ![c] = n] /\ n.artifact = call[c].artifact
                  /\ n.result = "ok" => chan[c] # NoResult
    <3>1. PICK n \in CallState : n = Ended(c, result)
      BY <1>1 DEF CallState, Ended
    <3>2. n.artifact = call[c].artifact /\ n.result = result
      BY <3>1 DEF Ended
    <3> QED
      BY <2>2, <3>1, <3>2 DEF ReturnCall
  <2> QED
    BY <1>3, <2>1, <2>2
<1>5. call'[c] = n /\ \A d \in Calls \ {c} : call'[d] = call[d]
  BY <1>1, <1>4 DEF CallTypeOK
<1>6. CallTypeOK'
  BY <1>1, <1>2, <1>4 DEF CallTypeOK, WorkerState, Contents
<1> QED
  BY <1>2, <1>4, <1>5, <1>6 DEF SupervisorInv, CallVersions, RestorePulled, NoResult

LEMMA WorkerStepTyped ==
    ASSUME SupervisorInv, NEW c \in Calls, Worker(c), UNCHANGED supervisorVars
    PROVE  CallTypeOK' /\ CallVersions' /\ RestorePulled'
<1>1. CallTypeOK /\ call[c] \in CallState
  BY DEF SupervisorInv, OperationInv, SupervisorTypeOK, CallTypeOK
<1>2. /\ UNCHANGED <<call, op>> /\ pending' \in {pending, None}
      /\ root' \in {root, Torn, call[c].artifact}
      /\ \E w \in WorkerState : worker' = [worker EXCEPT ![c] = w]
      /\ \/ UNCHANGED chan
         \/ pending \in Calls /\ chan' = [chan EXCEPT ![pending] =
                                                  [from |-> c, ok |-> worker[c] = "pulled"]]
  BY <1>1 DEF supervisorVars, Worker, Pull, PullFails, Report, ReportRefused, WorkerState, CallTypeOK
<1>3. /\ chan' \in [Calls -> Result \cup {NoResult}]
      /\ \A d \in Calls : chan[d] # NoResult => chan'[d] # NoResult
  <2>1. CASE UNCHANGED chan
    BY <1>1, <2>1 DEF CallTypeOK, NoResult
  <2>2. CASE /\ pending \in Calls
             /\ chan' = [chan EXCEPT ![pending] = [from |-> c, ok |-> worker[c] = "pulled"]]
    <3>1. PICK ok \in BOOLEAN : ok = (worker[c] = "pulled")
      OBVIOUS
    <3>2. PICK new \in Result : new = [from |-> c, ok |-> ok]
      BY DEF Result
    <3>3. new # NoResult
      BY <3>2, CallsAssumption DEF NoResult
    <3>4. chan' = [chan EXCEPT ![pending] = new]
      BY <2>2, <3>1, <3>2
    <3> QED
      BY <1>1, <2>2, <3>3, <3>4 DEF CallTypeOK
  <2> QED
    BY <1>2, <2>1, <2>2
<1>4. root' \in Contents
  BY <1>1, <1>2 DEF CallTypeOK, CallState, Contents
<1>5. CallTypeOK'
  BY <1>1, <1>2, <1>3, <1>4 DEF CallTypeOK
<1>6. CallVersions'
  BY <1>2, <1>3 DEF SupervisorInv, CallVersions, NoResult
<1> QED
  BY <1>2, <1>5, <1>6 DEF SupervisorInv, RestorePulled

\* The callbacks move on, or everything stays as it is.
LEMMA CallsMoved ==
    ASSUME OperationInv, CallTypeOK', UNCHANGED supervisorVars
    PROVE  OperationInv'
BY DEF supervisorVars, OperationInv, SupervisorTypeOK, FlowOK, HandOK, Running, Holds, HasRecord, SessionOK,
       Detached

\* A session runs a command: its record stays a record.
LEMMA SessionStep ==
    ASSUME OperationInv, UNCHANGED <<workerVars, cached, op>>, Histories, SessionsKept,
           store' \in Record \cup {Absent}
    PROVE  OperationInv'
<1>1. CallTypeOK'
  BY CallsStayTyped
<1>2. SupervisorTypeOK'
  BY <1>1 DEF OperationInv, SupervisorTypeOK, Histories, SessionsKept
<1>3. \A o \in Calls : FlowOK(o)' /\ HandOK(o)'
  BY DEF OperationInv, FlowOK, HandOK, Running, Holds, HasRecord
<1>4. \A o \in Calls : op[o].s \in Sessions \cup {None}
  BY DEF OperationInv, SupervisorTypeOK, OperationState
<1>5. SessionOK'
  BY <1>4 DEF OperationInv, SupervisorTypeOK, SessionOK, SessionsKept, Detached
<1> QED
  BY <1>2, <1>3, <1>5 DEF OperationInv

LEMMA SessionRunKeeps ==
    ASSUME OperationInv, NEW s \in Sessions, NEW c \in Commands, SessionRun(s, c)
    PROVE  OperationInv'
<1>1. /\ session[s].rec \in Record /\ session[s] \in SessionState /\ store \in Record \cup {Absent}
      /\ session \in [Sessions -> SessionState]
  BY DEF SessionRun, OperationInv, SupervisorTypeOK, SessionOK
<1>2. PICK W \in SUBSET Commands, B \in SUBSET Commands :
        W = session[s].waiting \ {c} /\ B = session[s].busy \cup {c}
  BY <1>1 DEF SessionState
<1>3. CASE Write(s, WithProc(session[s].rec, c, "running"), W, B)
  <2>1. PICK r \in Record : r = WithProc(session[s].rec, c, "running")
    BY <1>1, WithProcType DEF ProcedureStatuses
  <2>2. Write(s, r, W, B)
    BY <1>3, <2>1
  <2> QED
    BY <1>1, <2>2, WriteType, SessionsWritten, SessionStep DEF OperationInv, SessionRun
<1>4. CASE session' = [session EXCEPT ![s].waiting = W] /\ UNCHANGED store
  <2>1. PICK x \in SessionState : x = [session[s] EXCEPT !.waiting = W]
    BY <1>1 DEF SessionState
  <2>2. x.rec = session[s].rec /\ session' = [session EXCEPT ![s] = x]
    BY <1>1, <1>4, <2>1 DEF SessionState
  <2>3. SessionsKept
    BY <1>1, <2>2, SessionChanged
  <2> QED
    BY <1>1, <1>4, <2>3, SessionStep DEF SessionRun
<1> QED
  BY <1>1, <1>2, <1>3, <1>4 DEF SessionRun

LEMMA SessionEndKeeps ==
    ASSUME OperationInv, NEW s \in Sessions, NEW c \in Commands, SessionEnd(s, c)
    PROVE  OperationInv'
<1>1. /\ session[s].rec \in Record /\ session[s] \in SessionState
  BY DEF SessionEnd, OperationInv, SupervisorTypeOK, SessionOK
<1>2. PICK W \in SUBSET Commands, B \in SUBSET Commands :
        W = session[s].waiting /\ B = session[s].busy \ {c}
  BY <1>1 DEF SessionState
<1>3. PICK result \in {"done", "error"} : Write(s, WithProc(session[s].rec, c, result), W, B)
  BY <1>2 DEF SessionEnd
<1>4. PICK r \in Record : r = WithProc(session[s].rec, c, result)
  BY <1>1, WithProcType DEF ProcedureStatuses
<1>5. Write(s, r, W, B)
  BY <1>3, <1>4
<1> QED
  BY <1>1, <1>5, WriteType, SessionsWritten, SessionStep DEF OperationInv, SessionEnd

\* After a crash nobody holds anything.
LEMMA CrashTyped ==
    ASSUME SupervisorInv, Crash
    PROVE  OperationInv' /\ CallVersions' /\ RestorePulled'
<1>1. /\ OperationInv /\ CallTypeOK /\ op \in [Calls -> OperationState]
  BY DEF SupervisorInv, OperationInv, SupervisorTypeOK
<1>2. /\ UNCHANGED <<chan, worker, root, store, last, overlap>> /\ pending' = None
      /\ cached' = None /\ up' = FALSE /\ session' = [s \in Sessions |-> NoSession]
      /\ crashes' = crashes + 1 /\ crashes < MaxCrashes
  BY DEF Crash
<1>3. \A c \in Calls : /\ call'[c] \in CallState /\ call'[c].artifact = call[c].artifact
                       /\ call'[c] = call[c] \/ (call[c].pc # "idle" /\ call'[c].result = "failed")
  <2> TAKE c \in Calls
  <2>1. call[c] \in CallState
    BY <1>1 DEF CallTypeOK
  <2>2. call'[c] = IF call[c].pc \in {"idle", "done"} THEN call[c] ELSE Ended(c, "failed")
    BY DEF Crash
  <2>3. Ended(c, "failed") \in CallState /\ Ended(c, "failed").artifact = call[c].artifact
        /\ Ended(c, "failed").result = "failed"
    BY <2>1 DEF Ended, CallState
  <2> QED
    BY <2>1, <2>2, <2>3
<1>4. call' \in [Calls -> CallState]
  BY <1>3 DEF Crash
<1>5. CallTypeOK'
  BY <1>1, <1>2, <1>4 DEF CallTypeOK
<1>6. CallVersions'
  BY <1>2, <1>3 DEF SupervisorInv, CallVersions, NoResult
<1>7. \A o \in Calls : /\ op'[o] \in OperationState /\ op'[o].kind = op[o].kind
                       /\ op'[o].pc \in {"idle", "done"} /\ op'[o].s \in {op[o].s, None}
                       /\ op'[o].pc = "done" \/ op'[o] = op[o]
                       /\ ~Running(o) => op'[o] = op[o]
                       /\ Running(o) => op'[o].s = None
  <2> TAKE o \in Calls
  <2>1. op[o] \in OperationState
    BY <1>1
  <2>2. CASE Running(o)
    <3>1. op'[o] = [op[o] EXCEPT !.pc = "done", !.ok = FALSE, !.rec = Absent,
                         !.fresh = Absent, !.s = None, !.then = "none", !.started = FALSE,
                         !.restart = FALSE]
      BY <2>2 DEF Crash
    <3> QED
      BY <2>1, <2>2, <3>1 DEF OperationState
  <2>3. CASE ~Running(o)
    <3>1. op'[o] = op[o]
      BY <2>3 DEF Crash
    <3> QED
      BY <2>1, <2>3, <3>1 DEF OperationState, Running
  <2> QED
    BY <2>2, <2>3
<1>8. op' \in [Calls -> OperationState]
  BY <1>7 DEF Crash
<1>9. session' \in [Sessions -> SessionState] /\ crashes' \in 0..MaxCrashes
  BY <1>1, <1>2, SupervisorAssumption DEF NoSession, SessionState, OperationInv, SupervisorTypeOK
<1>10. SupervisorTypeOK'
  BY <1>1, <1>2, <1>5, <1>8, <1>9 DEF OperationInv, SupervisorTypeOK
<1>11. \A o \in Calls : FlowOK(o)' /\ HandOK(o)' /\ ~Detached(o)'
  BY <1>1, <1>7 DEF OperationInv, FlowOK, HandOK, Running, Holds, HasRecord, Detached
<1>12. \A o \in Calls : op'[o].s = None /\ op'[o].pc \notin {"cache", "restored"}
  BY <1>1, <1>7 DEF OperationInv, HandOK
<1>13. SessionOK'
  <2>1. \A s \in Sessions : session'[s] = NoSession /\ ~NoSession.on /\ NoSession.busy = {}
    BY <1>2 DEF NoSession
  <2> QED
    BY <1>2, <1>11, <1>12, <2>1 DEF SessionOK
<1> QED
  BY <1>6, <1>10, <1>11, <1>12, <1>13 DEF OperationInv, RestorePulled

\* What a start of the daemon resumes.
LEMMA BootKeeps ==
    ASSUME OperationInv, Boot
    PROVE  OperationInv'
<1>1. /\ CallTypeOK' /\ UNCHANGED <<op, last, overlap, crashes>> /\ up' = TRUE
      /\ store \in Record \cup {Absent} /\ session \in [Sessions -> SessionState]
  BY CallsStayTyped DEF Boot, OperationInv, SupervisorTypeOK
<1>2. CASE UNCHANGED <<store, cached, session>>
  BY <1>1, <1>2 DEF OperationInv, SupervisorTypeOK, FlowOK, HandOK, Running, Holds, HasRecord,
                    SessionOK, Detached
<1>3. CASE store # Absent /\ store.status = "running"
  <2> DEFINE r == IF store.procs["serve"] \in {"waiting", "running"} THEN store
                  ELSE [store EXCEPT !.procs["serve"] = "waiting"]
  <2>1. r \in Record
    BY <1>1, <1>3 DEF Record, ProcedureStatuses, Commands
  <2> DEFINE n == WithStatus(r, Derived(r))
  <2>2. n \in Record /\ Hydrated(r) \in SUBSET Commands
    BY <2>1, DerivedType, WithStatusType DEF Hydrated, Commands, Record
  <2>3. PICK s \in Sessions :
            /\ session[s] = NoSession /\ cached' = s /\ UpdateScroll(n)
            /\ session' = [session EXCEPT ![s] = [on |-> TRUE, rec |-> n, waiting |-> Hydrated(r),
                                                  busy |-> {}]]
    BY <1>3 DEF Boot
  <2> HIDE DEF n, r
  <2>4. store' \in Record \cup {Absent}
    BY <1>1, <2>2, <2>3, UpdateScrollType
  <2>5. PICK x \in SessionState : x = [on |-> TRUE, rec |-> n, waiting |-> Hydrated(r), busy |-> {}]
    BY <2>2 DEF SessionState
  <2>6. /\ session' \in [Sessions -> SessionState] /\ session'[s].rec \in Record
        /\ \A t \in Sessions \ {s} : session'[t] = session[t]
    BY <1>1, <2>2, <2>3, <2>5
  <2>7. Absent \notin Record /\ session[s].rec = Absent
    BY <2>3, RecordThere DEF NoSession
  <2>8. \A o \in Calls : op[o].s # s /\ op[o].s \in Sessions \cup {None}
    BY <2>7, SupervisorAssumption DEF OperationInv, SupervisorTypeOK, SessionOK, OperationState
  <2>9. SupervisorTypeOK'
    BY <1>1, <2>3, <2>4, <2>6 DEF OperationInv, SupervisorTypeOK
  <2>10. \A o \in Calls : FlowOK(o)' /\ HandOK(o)'
    BY <1>1 DEF OperationInv, FlowOK, HandOK, Running, Holds, HasRecord
  <2>11. SessionOK'
    BY <1>1, <2>3, <2>6, <2>8 DEF OperationInv, SessionOK, Detached
  <2> QED
    BY <2>9, <2>10, <2>11 DEF OperationInv
<1> QED
  BY <1>2, <1>3 DEF Boot

LEMMA OperationInitial == SupervisorInit => OperationInv /\ CallVersions /\ RestorePulled
<1> SUFFICES ASSUME SupervisorInit
             PROVE  OperationInv /\ CallVersions /\ RestorePulled
  OBVIOUS
<1>1. store \in Record \cup {Absent}
  <2>1. ASSUME NEW v \in Versions, NEW status \in ScrollStatuses, NEW serve \in ProcedureStatuses
        PROVE  Filled(v, status, serve) \in Record
    <3>1. Placeholder(v) \in Record
      BY DEF Placeholder, Record, NoProcs, ProcedureStatuses, ScrollStatuses
    <3> QED
      BY <3>1 DEF Filled, Record
  <2>2. CASE store \in Persisted
    <3>1. PICK v \in Versions, x \in {<<"created", "unset">>, <<"running", "running">>,
                                      <<"stopped", "done">>, <<"error", "error">>} :
            store = Filled(v, x[1], x[2])
      BY <2>2 DEF Persisted
    <3>2. x[1] \in ScrollStatuses /\ x[2] \in ProcedureStatuses
      BY DEF ScrollStatuses, ProcedureStatuses
    <3> QED
      BY <2>1, <3>1, <3>2
  <2> QED
    BY <2>2 DEF SupervisorInit
<1>2. CallTypeOK
  <2>1. root \in Versions \cup {None}
    <3>1. store \in Record => store.yaml \in Versions \cup {None}
      BY DEF Record
    <3> QED
      BY <1>1, <3>1 DEF SupervisorInit
  <2> QED
    BY <2>1 DEF SupervisorInit, CallInit, CallTypeOK, CallState, WorkerState, Contents
<1>3. NoSession \in SessionState /\ ~NoSession.on /\ NoSession.busy = {}
  BY DEF NoSession, SessionState
<1>4. /\ op \in [Calls -> OperationState]
      /\ \A o \in Calls : op[o].pc = "idle" /\ op[o].kind = "run" /\ op[o].s = None
  <2>1. PICK a \in Versions : a = CHOOSE v \in Versions : TRUE
    BY SupervisorAssumption
  <2>2. PICK x \in OperationState :
          /\ x = [pc |-> "idle", kind |-> "run", artifact |-> a, started |-> FALSE,
                  restart |-> FALSE, rec |-> Absent, fresh |-> Absent, s |-> None,
                  then |-> "none", ok |-> FALSE]
    BY DEF OperationState, OperationKinds
  <2>3. op = [o \in Calls |-> x]
    BY <2>1, <2>2 DEF SupervisorInit
  <2>4. x.pc = "idle" /\ x.kind = "run" /\ x.s = None
    BY <2>2
  <2> QED
    BY <2>3, <2>4
<1>5. SupervisorTypeOK
  <2>1. session \in [Sessions -> SessionState]
    BY <1>3 DEF SupervisorInit
  <2>2. crashes \in 0..MaxCrashes /\ up \in BOOLEAN /\ overlap \in BOOLEAN
        /\ last \in Calls \cup {None} /\ cached \in Sessions \cup {None}
    <3>1. crashes = 0 /\ up = FALSE /\ overlap = FALSE /\ last = None /\ cached = None
      BY DEF SupervisorInit
    <3>2. crashes \in 0..MaxCrashes
      BY <3>1, SupervisorAssumption
    <3> QED
      BY <3>1, <3>2, Zenon
  <2> QED
    BY <1>1, <1>2, <1>4, <2>1, <2>2 DEF SupervisorTypeOK
<1>6. \A o \in Calls : FlowOK(o) /\ HandOK(o)
  BY <1>4 DEF FlowOK, HandOK, Running, Holds, HasRecord
<1>7. SessionOK
  BY <1>3, <1>4 DEF SupervisorInit, SessionOK, Detached
<1> QED
  BY <1>4, <1>5, <1>6, <1>7 DEF SupervisorInit, CallInit, OperationInv, CallVersions, RestorePulled

\* Where the composite steps lead.
LEMMA Returned ==
    ASSUME op \in [Calls -> OperationState], NEW o \in Calls
    PROVE  /\ \A ok : Return(o, ok) =>
                 op'[o].pc = "done" /\ op'[o].kind = op[o].kind /\ op'[o].s = None /\ op'[o].ok = ok
           /\ Fail(o) => op'[o].pc = "done" /\ op'[o].kind = op[o].kind /\ op'[o].s = None
                         /\ op'[o].ok = FALSE
           /\ Succeed(o) => op'[o].pc = "done" /\ op'[o].kind = op[o].kind /\ op'[o].s = None
                            /\ op'[o].ok = TRUE
<1>1. ASSUME NEW ok, Return(o, ok)
      PROVE  op'[o].pc = "done" /\ op'[o].kind = op[o].kind /\ op'[o].s = None /\ op'[o].ok = ok
  <2> DEFINE x == [op[o] EXCEPT !.pc = "done", !.ok = ok, !.rec = Absent, !.fresh = Absent,
                                !.s = None, !.then = "none", !.started = FALSE, !.restart = FALSE]
  <2>1. op[o] \in OperationState
    OBVIOUS
  <2>2. x.pc = "done" /\ x.kind = op[o].kind /\ x.s = None /\ x.ok = ok
    BY <2>1 DEF OperationState
  <2>3. op' = [op EXCEPT ![o] = x]
    BY <1>1 DEF Return
  <2> HIDE DEF x
  <2> QED
    BY <2>2, <2>3
<1> QED
  BY <1>1 DEF Fail, Succeed

LEMMA MovedTo ==
    ASSUME op \in [Calls -> OperationState], NEW o \in Calls
    PROVE  /\ \A pc : To(o, pc) => op'[o].pc = pc /\ op'[o].kind = op[o].kind /\ op'[o].s = op[o].s
                                   /\ op'[o].ok = op[o].ok /\ op'[o].started = op[o].started
           /\ \A pc : GetSession(o, pc) => op'[o].pc = "find" /\ op'[o].kind = op[o].kind
                                           /\ op'[o].s = None /\ op'[o].ok = op[o].ok
           /\ \A pc : SwitchOff(o, pc) =>
                 op'[o].pc = pc /\ op'[o].kind = op[o].kind /\ op'[o].s = op[o].s
                 /\ op'[o].ok = op[o].ok /\ op'[o].started = session[op[o].s].on
           /\ StartOrReturn(o) => op'[o].pc \in {"find", "done"} /\ op'[o].kind = op[o].kind
                                  /\ op'[o].s = None
<1>1. op[o] \in OperationState
  OBVIOUS
<1>2. ASSUME NEW pc, To(o, pc)
      PROVE  /\ op'[o].pc = pc /\ op'[o].kind = op[o].kind /\ op'[o].s = op[o].s
             /\ op'[o].ok = op[o].ok /\ op'[o].started = op[o].started
  BY <1>1, <1>2 DEF To, OperationState
<1>3. ASSUME NEW pc, GetSession(o, pc)
      PROVE  /\ op'[o].pc = "find" /\ op'[o].kind = op[o].kind /\ op'[o].s = None
             /\ op'[o].ok = op[o].ok
  <2> DEFINE x == [op[o] EXCEPT !.pc = "find", !.then = pc, !.s = None]
  <2>1. x.pc = "find" /\ x.kind = op[o].kind /\ x.s = None /\ x.ok = op[o].ok
    BY <1>1 DEF OperationState
  <2>2. op' = [op EXCEPT ![o] = x]
    BY <1>3 DEF GetSession
  <2> HIDE DEF x
  <2> QED
    BY <2>1, <2>2
<1>4. ASSUME NEW pc, SwitchOff(o, pc)
      PROVE  /\ op'[o].pc = pc /\ op'[o].kind = op[o].kind /\ op'[o].s = op[o].s
             /\ op'[o].ok = op[o].ok /\ op'[o].started = session[op[o].s].on
  <2> DEFINE x == [op[o] EXCEPT !.pc = pc, !.started = session[op[o].s].on]
  <2>1. x.pc = pc /\ x.kind = op[o].kind /\ x.s = op[o].s /\ x.ok = op[o].ok
        /\ x.started = session[op[o].s].on
    BY <1>1 DEF OperationState
  <2>2. op' = [op EXCEPT ![o] = x]
    BY <1>4 DEF SwitchOff
  <2> HIDE DEF x
  <2> QED
    BY <2>1, <2>2
<1>5. ASSUME StartOrReturn(o)
      PROVE  op'[o].pc \in {"find", "done"} /\ op'[o].kind = op[o].kind /\ op'[o].s = None
  <2> DEFINE x == [op[o] EXCEPT !.pc = "find", !.then = "serve", !.restart = FALSE,
                                !.rec = Absent, !.fresh = Absent, !.s = None]
  <2>1. x.pc = "find" /\ x.kind = op[o].kind /\ x.s = None
    BY <1>1 DEF OperationState
  <2>2. op' = [op EXCEPT ![o] = x] \/ Return(o, TRUE)
    BY <1>5 DEF StartOrReturn
  <2> HIDE DEF x
  <2> QED
    BY <2>1, <2>2, Returned
<1> QED
  BY <1>2, <1>3, <1>4, <1>5

\* Only a restore that has pulled gets to the step that applies it.
LEMMA RestoredAfter ==
    ASSUME OperationInv, NEW o \in Calls, Operation(o), op'[o].pc = "restored"
    PROVE  RestoreBegin(o)
<1>1. /\ op \in [Calls -> OperationState] /\ op[o] \in OperationState
      /\ op[o].then # "restored"
  BY DEF OperationInv, SupervisorTypeOK, OperationState
<1>2. ASSUME Begin(o) PROVE FALSE
  <2>1. PICK kind \in Kinds : op'[o].pc = FirstStep(kind)
    BY <1>1, <1>2 DEF Begin, OperationState
  <2> QED
    BY <2>1, SupervisorAssumption DEF FirstStep, OperationKinds
<1>3. /\ \A pc : To(o, pc) \/ SwitchOff(o, pc) => pc = "restored"
      /\ \A pc : ~GetSession(o, pc)
      /\ \A ok : ~Return(o, ok)
      /\ ~Fail(o) /\ ~Succeed(o) /\ ~StartOrReturn(o)
  BY <1>1, Returned, MovedTo
<1>4. ~Find(o)
  BY <1>1, <1>3 DEF Find, OperationState
<1>5. ~Make(o)
  BY <1>1, <1>3 DEF Make, OperationState
<1>6. ~Cache(o)
  BY <1>1, <1>3 DEF Cache, OperationState
<1>7. ~Uncache(o)
  BY <1>1, <1>3 DEF Uncache
<1>8. ~Lookup(o)
  BY <1>1, <1>3 DEF Lookup, OperationState
<1>9. ~Insert(o)
  BY <1>1, <1>3 DEF Insert, OperationState
<1>10. ~Detach(o)
  BY <1>1, <1>3 DEF Detach, OperationState, AfterDetach
<1>11. ~Drain(o)
  BY <1>1, <1>3 DEF Drain, OperationState, AfterDetach
<1>12. ~BackendStop(o)
  BY <1>1, <1>3 DEF BackendStop
<1>13. ~PullBegin(o)
  BY <1>1, <1>3 DEF PullBegin, supervisorVars
<1>14. ~PullFailed(o)
  BY <1>1, <1>3 DEF PullFailed, PullEnded
<1>15. ~Apply(o)
  <2>1. ASSUME NEW restart, NEW r, op' = [op EXCEPT ![o].pc = "uiLookup", ![o].restart = restart,
                                                    ![o].rec = r]
        PROVE  FALSE
    BY <1>1, <2>1 DEF OperationState
  <2>2. op' # [op EXCEPT ![o].pc = "find", ![o].then = "serve", ![o].rec = Absent]
    BY <1>1 DEF OperationState
  <2> QED
    BY <1>3, <2>1, <2>2 DEF Apply
<1>16. ~Remove(o)
  BY <1>1, <1>3 DEF Remove
<1>17. ~Forget(o)
  BY <1>1, <1>3 DEF Forget
<1>18. ~StopBegin(o)
  BY <1>1, <1>3 DEF StopBegin
<1>19. ~StopDrain(o)
  BY <1>1, <1>3 DEF StopDrain
<1>20. ~StopBackend(o)
  BY <1>1, <1>3 DEF StopBackend
<1>21. ~StopStore(o)
  BY <1>1, <1>3 DEF StopStore
<1>22. ~Quiesce(o)
  BY <1>1, <1>3 DEF Quiesce
<1>23. ~ApplyRestore(o)
  BY <1>1, <1>3 DEF ApplyRestore
<1>24. ~Serve(o)
  BY <1>1, <1>3 DEF Serve
<1>25. ~FinishStart(o)
  BY <1>1, <1>3 DEF FinishStart
<1>26. ~Run(o)
  BY <1>1, <1>3 DEF Run
<1>27. ~Await(o)
  BY <1>1, <1>3 DEF Await
<1>28. ~UILookup(o)
  BY <1>1, <1>3 DEF UILookup
<1>29. ~UIAdd(o)
  BY <1>1, <1>3 DEF UIAdd
<1>30. ~UIQueue(o)
  BY <1>1, <1>3 DEF UIQueue
<1>31. ~UIAwait(o)
  BY <1>1, <1>3 DEF UIAwait, OperationState
<1>32. ~UIRead(o)
  BY <1>1, <1>3 DEF UIRead, OperationState
<1>33. ~UIStore(o)
  BY <1>1, <1>3 DEF UIStore, OperationState
<1>34. ~UIRemove(o)
  BY <1>1, <1>3 DEF UIRemove, OperationState
<1>35. ~UIRemoved(o)
  BY <1>1, <1>3 DEF UIRemoved
<1> QED
  BY <1>2, <1>4, <1>5, <1>6, <1>7, <1>8, <1>9, <1>10, <1>11, <1>12, <1>13, <1>14, <1>15, <1>16,
     <1>17, <1>18, <1>19, <1>20, <1>21, <1>22, <1>23, <1>24, <1>25, <1>26, <1>27, <1>28, <1>29,
     <1>30, <1>31, <1>32, <1>33, <1>34, <1>35 DEF Operation

\* No operation touches another.
LEMMA OthersStay ==
    ASSUME op \in [Calls -> OperationState], NEW o \in Calls, Operation(o)
    PROVE  \A p \in Calls \ {o} : op'[p] = op[p]
<1>1. CASE Begin(o) \/ Find(o) \/ Make(o) \/ Cache(o) \/ Uncache(o)
  BY <1>1 DEF Begin, Find, Make, Cache, Uncache, To, Fail, Return
<1>2. CASE Lookup(o) \/ Insert(o) \/ Detach(o) \/ Drain(o) \/ BackendStop(o)
  BY <1>2 DEF Lookup, Insert, Detach, Drain, BackendStop, To, Fail, Return, Succeed
<1>3. CASE PullBegin(o) \/ PullFailed(o) \/ Apply(o) \/ Remove(o) \/ Forget(o)
  BY <1>3 DEF PullBegin, supervisorVars, PullFailed, Apply, Remove, Forget, To, Fail, Return
<1>4. CASE \/ StopBegin(o) \/ StopDrain(o) \/ StopBackend(o) \/ StopStore(o) \/ Quiesce(o)
           \/ RestoreBegin(o) \/ ApplyRestore(o)
  BY <1>4 DEF StopBegin, StopDrain, StopBackend, StopStore, Quiesce, RestoreBegin, ApplyRestore,
              SwitchOff, StartOrReturn, To, Return, Succeed
<1>5. CASE Serve(o) \/ FinishStart(o) \/ Run(o) \/ Await(o)
  BY <1>5 DEF Serve, FinishStart, Run, Await, To, Return
<1>6. CASE \/ UILookup(o) \/ UIAdd(o) \/ UIQueue(o) \/ UIAwait(o) \/ UIRead(o)
           \/ UIStore(o) \/ UIRemove(o) \/ UIRemoved(o)
  BY <1>6 DEF UILookup, UIAdd, UIQueue, UIAwait, UIRead, UIStore, UIRemove, UIRemoved, GetSession,
              StartOrReturn, To, Fail, Return
<1> QED
  BY <1>1, <1>2, <1>3, <1>4, <1>5, <1>6 DEF Operation

\* Outside of its pull, an operation leaves the callbacks alone.
LEMMA CallsStay ==
    ASSUME NEW o \in Calls, Operation(o), ~PullBegin(o)
    PROVE  UNCHANGED <<pending, call, chan, worker>>
<1>1. CASE Begin(o) \/ Find(o) \/ Make(o) \/ Cache(o) \/ Uncache(o)
  BY <1>1 DEF Begin, Find, Make, Cache, Uncache, workerVars
<1>2. CASE Lookup(o) \/ Insert(o) \/ Detach(o) \/ Drain(o) \/ BackendStop(o)
  BY <1>2 DEF Lookup, Insert, Detach, Drain, BackendStop, workerVars
<1>3. CASE PullFailed(o) \/ Apply(o) \/ Remove(o) \/ Forget(o)
  BY <1>3 DEF PullFailed, Apply, Remove, Forget, workerVars
<1>4. CASE \/ StopBegin(o) \/ StopDrain(o) \/ StopBackend(o) \/ StopStore(o) \/ Quiesce(o)
           \/ RestoreBegin(o) \/ ApplyRestore(o)
  BY <1>4 DEF StopBegin, StopDrain, StopBackend, StopStore, Quiesce, RestoreBegin, ApplyRestore,
              workerVars
<1>5. CASE Serve(o) \/ FinishStart(o) \/ Run(o) \/ Await(o)
  BY <1>5 DEF Serve, FinishStart, Run, Await, workerVars
<1>6. CASE \/ UILookup(o) \/ UIAdd(o) \/ UIQueue(o) \/ UIAwait(o) \/ UIRead(o)
           \/ UIStore(o) \/ UIRemove(o) \/ UIRemoved(o)
  BY <1>6 DEF UILookup, UIAdd, UIQueue, UIAwait, UIRead, UIStore, UIRemove, UIRemoved, workerVars
<1> QED
  BY <1>1, <1>2, <1>3, <1>4, <1>5, <1>6 DEF Operation

\* Every step of an operation keeps what an operation needs.
LEMMA OperationsKeep ==
    ASSUME SupervisorInv, NEW o \in Calls, Operation(o)
    PROVE  OperationInv' /\ CallVersions' /\ RestorePulled'
<1>1. CASE PullBegin(o)
  <2>1. CallTypeOK' /\ CallVersions' /\ RestorePulled'
    BY <1>1, PullBeginKeeps
  <2> QED
    BY <1>1, <2>1, CallsMoved DEF PullBegin, SupervisorInv
<1>2. CASE ~PullBegin(o)
  <2>1. OperationInv /\ op \in [Calls -> OperationState]
    BY DEF SupervisorInv, OperationInv, SupervisorTypeOK
  <2>2. OperationInv'
    BY <1>2, <2>1, BeginKeeps, FindKeeps, MakeKeeps, CacheKeeps, UncacheKeeps, LookupKeeps,
       InsertKeeps, DetachKeeps, DrainKeeps, BackendStopKeeps, PullFailedKeeps, ApplyKeeps,
       RemoveKeeps, ForgetKeeps, StopBeginKeeps, StopDrainKeeps, StopBackendKeeps, StopStoreKeeps,
       QuiesceKeeps, RestoreBeginKeeps, ApplyRestoreKeeps, ServeKeeps, FinishStartKeeps, RunKeeps,
       AwaitKeeps, UILookupKeeps, UIAddKeeps, UIQueueKeeps, UIAwaitKeeps, UIReadKeeps,
       UIStoreKeeps, UIRemoveKeeps, UIRemovedKeeps DEF Operation
  <2>3. UNCHANGED <<call, chan>>
    BY <1>2, CallsStay
  <2>4. CallVersions'
    BY <2>3 DEF SupervisorInv, CallVersions, NoResult
  <2>5. RestorePulled'
    <3>1. ASSUME NEW p \in Calls, op'[p].pc = "restored"
          PROVE  call[p].pc = "done" /\ call[p].result = "ok"
      <4>1. CASE p = o
        BY <2>1, <3>1, <4>1, RestoredAfter DEF RestoreBegin, PullEnded
      <4>2. CASE p # o
        BY <2>1, <3>1, <4>2, OthersStay DEF SupervisorInv, RestorePulled
      <4> QED
        BY <4>1, <4>2
    <3> QED
      BY <2>3, <3>1 DEF RestorePulled
  <2> QED
    BY <2>2, <2>4, <2>5
<1> QED
  BY <1>1, <1>2

\* SupervisorInv is inductive.
LEMMA SupervisorInvariance == SupervisorSpec => []SupervisorInv
<1>1. SupervisorInit => SupervisorInv
  BY CallInitial, OperationInitial DEF SupervisorInv
<1>2. SupervisorInv /\ [SupervisorNext]_allVars => SupervisorInv'
  <2> SUFFICES ASSUME SupervisorInv, [SupervisorNext]_allVars PROVE SupervisorInv'
    OBVIOUS
  <2>1. OperationInv /\ CallInv
    BY DEF SupervisorInv
  <2>2. CASE \E o \in Calls : Operation(o)
    BY <2>1, <2>2, OperationsKeep, OperationKeeps, CallsAssumption DEF SupervisorInv
  <2>3. CASE \E o \in Calls : (PullCall(o) \/ Worker(o)) /\ UNCHANGED supervisorVars
    <3>1. CallTypeOK' /\ CallVersions' /\ RestorePulled' /\ UNCHANGED supervisorVars
      BY <2>3, CallStepTyped, WorkerStepTyped
    <3>2. CallInv'
      BY <2>1, <2>3, CallStepKeeps, WorkerStepKeeps, CallsAssumption
    <3> QED
      BY <2>1, <3>1, <3>2, CallsMoved DEF SupervisorInv
  <2>4. CASE \E s \in Sessions, c \in Commands : SessionRun(s, c) \/ SessionEnd(s, c)
    <3>1. UNCHANGED <<pending, call, chan, worker, op>>
      BY <2>4 DEF SessionRun, SessionEnd, workerVars
    <3>2. OperationInv'
      BY <2>1, <2>4, SessionRunKeeps, SessionEndKeeps
    <3>3. CallInv'
      BY <2>1, <3>1, CallsUnchanged
    <3> QED
      BY <3>1, <3>2, <3>3 DEF SupervisorInv, CallVersions, RestorePulled, NoResult
  <2>5. CASE Crash
    BY <2>1, <2>5, CrashTyped, CrashKeeps DEF SupervisorInv
  <2>6. CASE Boot
    <3>1. UNCHANGED <<pending, call, chan, worker, op>>
      BY <2>6 DEF Boot, workerVars
    <3>2. OperationInv' /\ CallInv'
      BY <2>1, <2>6, <3>1, BootKeeps, CallsUnchanged
    <3> QED
      BY <3>1, <3>2 DEF SupervisorInv, CallVersions, RestorePulled, NoResult
  <2>7. CASE UNCHANGED allVars
    <3>1. UNCHANGED workerVars /\ UNCHANGED supervisorVars
      BY <2>7 DEF allVars
    <3>2. CallTypeOK'
      BY <2>1, <3>1, CallsStayTyped
    <3>3. OperationInv' /\ CallInv'
      BY <2>1, <3>1, <3>2, CallsMoved, CallsUnchanged DEF workerVars
    <3> QED
      BY <3>1, <3>3 DEF workerVars, supervisorVars, SupervisorInv, CallVersions, RestorePulled, NoResult
  <2> QED
    BY <2>2, <2>3, <2>4, <2>5, <2>6, <2>7 DEF SupervisorNext
<1> QED
  BY <1>1, <1>2, PTL DEF SupervisorSpec

\* The supervisor's state is well typed through every interleaving of
\* operations, workers, sessions and crashes: no step works on a session or a
\* record that is not there.
THEOREM SupervisorTypeCorrect == SupervisorSpec => []SupervisorTypeOK
<1>1. SupervisorInv => SupervisorTypeOK
  BY DEF SupervisorInv, OperationInv
<1> QED
  BY <1>1, SupervisorInvariance, PTL

-----------------------------------------------------------------------------
(* Every change of the stored record                                       *)

\* A step that writes the store updates the scroll that is there.
StoreWritten ==
    store' = store \/ store = Absent \/ store' = Absent \/ \E r \in Record : UpdateScroll(r)

LEMMA FailWrites ==
    ASSUME OperationInv, NEW o \in Calls, Fail(o)
    PROVE  StoreWritten
<1>1. op[o].rec \in Record \cup {Absent}
  BY DEF OperationInv, SupervisorTypeOK, OperationState
<1>2. CASE op[o].rec \in Record
  <2>1. WithStatus(op[o].rec, "error") \in Record
    BY <1>2, WithStatusType DEF ScrollStatuses
  <2> QED
    BY <1>2, <2>1, RecordThere DEF Fail, StoreWritten
<1> QED
  BY <1>1, <1>2 DEF Fail, StoreWritten

LEMMA WriteWrites ==
    ASSUME NEW s, NEW r \in Record, NEW W, NEW B, Write(s, r, W, B) \/ WriteRecord(s, r)
    PROVE  StoreWritten
BY DEF Write, WriteRecord, StoreWritten

LEMMA EnqueueWrites ==
    ASSUME NEW s, session[s].rec \in Record, NEW c \in Commands, Enqueue(s, c)
    PROVE  StoreWritten
<1>1. WithProc(session[s].rec, c, "waiting") \in Record
  BY WithProcType DEF ProcedureStatuses
<1> QED
  BY <1>1 DEF Enqueue, Write, StoreWritten

\* The steps that write the record of a session.
LEMMA OperationWrites ==
    ASSUME SupervisorInv, NEW o \in Calls, Operation(o)
    PROVE  StoreWritten
<1> DEFINE s == op[o].s
           rec == session[op[o].s].rec
<1>1. OperationInv /\ HandOK(o) /\ FlowOK(o) /\ op[o] \in OperationState
  BY DEF SupervisorInv, OperationInv, SupervisorTypeOK
<1>2. Holds(o) => rec \in Record
  BY <1>1, HeldRecord
<1>3. rec \in Record => \A status \in ScrollStatuses : WithStatus(rec, status) \in Record
  BY WithStatusType
<1>4. Fail(o) => StoreWritten
  BY <1>1, FailWrites
<1>5. CASE \/ Begin(o) \/ Find(o) \/ Cache(o) \/ Uncache(o) \/ Detach(o) \/ Drain(o)
           \/ PullBegin(o) \/ Remove(o) \/ StopBegin(o) \/ StopDrain(o) \/ Await(o) \/ UIAwait(o)
           \/ UIRead(o) \/ Quiesce(o)
  BY <1>5 DEF Begin, Find, Cache, Uncache, Detach, Drain, PullBegin, supervisorVars, Remove,
              StopBegin, StopDrain, Await, UIAwait, UIRead, Quiesce, Succeed, StoreWritten
<1>6. CASE \/ Make(o) \/ Lookup(o) \/ Insert(o) \/ BackendStop(o) \/ Forget(o) \/ UILookup(o)
           \/ UIRemoved(o)
  BY <1>4, <1>6 DEF Make, Lookup, Insert, BackendStop, Forget, UILookup, UIRemoved, Succeed,
                    StoreWritten
<1>7. CASE PullFailed(o)
  <2>1. CASE op[o].kind = "restore"
    <3>1. WithStatus(rec, "error") \in Record
      BY <1>2, <1>3, <1>7, <2>1 DEF PullFailed, PullEnded, Holds, ScrollStatuses
    <3> QED
      BY <1>7, <2>1, <3>1 DEF PullFailed, WriteRecord, Write, StoreWritten
  <2> QED
    BY <1>4, <1>7, <2>1 DEF PullFailed
<1>8. CASE Apply(o)
  <2>1. Materialized(o, op[o].rec) \in Record
    BY <1>1, <1>8, MaterializedType DEF Apply, PullEnded, HandOK, HasRecord
  <2> QED
    BY <1>4, <1>8, <2>1 DEF Apply, StoreWritten
<1>9. CASE StopBackend(o)
  <2>1. WithStatus(rec, "error") \in Record
    BY <1>2, <1>3, <1>9 DEF StopBackend, Holds, ScrollStatuses
  <2> QED
    BY <1>9, <2>1 DEF StopBackend, StoreWritten
<1>10. CASE StopStore(o)
  <2>1. rec \in Record
    BY <1>2, <1>10 DEF StopStore, Holds
  <2>2. Stopped(rec) \in Record
    BY <2>1, StoppedType
  <2>3. WithStatus(Stopped(rec), "error") \in Record
    BY <2>2, WithStatusType DEF ScrollStatuses
  <2> QED
    BY <1>10, <2>2, <2>3 DEF StopStore, WriteRecord, Write, StoreWritten
<1>11. CASE RestoreBegin(o)
  <2>1. WithStatus(rec, "error") \in Record
    BY <1>2, <1>3, <1>11 DEF RestoreBegin, PullEnded, Holds, ScrollStatuses
  <2> QED
    BY <1>11, <2>1 DEF RestoreBegin, WriteRecord, Write, StoreWritten
<1>12. CASE ApplyRestore(o)
  <2> DEFINE r == [Materialized(o, rec) EXCEPT !.procs["serve"] = rec.procs["serve"],
                                               !.status = "stopped"]
  <2>1. r \in Record
    BY <1>12, RestoredType DEF ApplyRestore, Holds, SupervisorInv, RestorePulled
  <2>2. UpdateScroll(r) \/ WriteRecord(s, WithStatus(r, "error"))
    BY <1>12 DEF ApplyRestore
  <2> HIDE DEF r
  <2>3. WithStatus(r, "error") \in Record
    BY <2>1, WithStatusType DEF ScrollStatuses
  <2> QED
    BY <2>1, <2>2, <2>3 DEF WriteRecord, Write, StoreWritten
<1>13. CASE Serve(o) \/ Run(o)
  <2>1. rec \in Record /\ "serve" \in Commands
    BY <1>2, <1>13 DEF Serve, Run, Holds, Commands
  <2> QED
    BY <1>13, <2>1, EnqueueWrites DEF Serve, Run, StoreWritten
<1>14. CASE FinishStart(o)
  <2>1. WithStatus(rec, IF Derived(rec) = "created" THEN "running" ELSE Derived(rec)) \in Record
    BY <1>2, <1>3, <1>14, DerivedType DEF FinishStart, Holds, ScrollStatuses
  <2> QED
    BY <1>14, <2>1 DEF FinishStart, WriteRecord, Write, StoreWritten
<1>15. CASE UIAdd(o)
  <2>1. rec \in Record
    BY <1>2, <1>15 DEF UIAdd, Holds
  <2>2. [rec EXCEPT !.ui = @ \cup {o}] \in Record
    BY <2>1 DEF Record
  <2> QED
    BY <1>4, <1>15, <2>2 DEF UIAdd, WriteRecord, Write, StoreWritten
<1>16. CASE UIQueue(o)
  <2>1. rec \in Record /\ o \in Commands
    BY <1>2, <1>16 DEF UIQueue, Holds, Commands
  <2> QED
    BY <1>16, <2>1, EnqueueWrites DEF UIQueue, StoreWritten
<1>17. CASE UIStore(o)
  <2>1. [op[o].fresh EXCEPT !.published = TRUE] \in Record
    BY <1>1, <1>17 DEF UIStore, HandOK, Record
  <2> QED
    BY <1>17, <2>1 DEF UIStore, StoreWritten
<1>18. CASE UIRemove(o)
  <2>1. rec \in Record /\ o \in Commands
    BY <1>2, <1>18 DEF UIRemove, Holds, Commands
  <2>2. [rec EXCEPT !.ui = @ \ {o}, !.procs[o] = "unset"] \in Record
    BY <2>1 DEF Record, ProcedureStatuses
  <2> QED
    BY <1>18, <2>2 DEF UIRemove, Write, StoreWritten
<1> QED
  BY <1>5, <1>6, <1>7, <1>8, <1>9, <1>10, <1>11, <1>12, <1>13, <1>14, <1>15, <1>16, <1>17, <1>18
  DEF Operation

LEMMA StepWrites ==
    ASSUME SupervisorInv, [SupervisorNext]_allVars
    PROVE  StoreWritten
<1>1. OperationInv /\ SessionOK
  BY DEF SupervisorInv, OperationInv
<1>2. CASE \E o \in Calls : Operation(o)
  BY <1>2, OperationWrites
<1>3. CASE \E o \in Calls : (PullCall(o) \/ Worker(o)) /\ UNCHANGED supervisorVars
  BY <1>3 DEF supervisorVars, StoreWritten
<1>4. ASSUME NEW s \in Sessions, NEW c \in Commands, SessionRun(s, c) \/ SessionEnd(s, c)
      PROVE  StoreWritten
  <2>1. session[s].rec \in Record
    BY <1>1, <1>4 DEF SessionOK, SessionRun, SessionEnd
  <2>2. \A x \in {"running", "done", "error"} : WithProc(session[s].rec, c, x) \in Record
    BY <2>1, WithProcType DEF ProcedureStatuses
  <2> QED
    BY <1>4, <2>2 DEF SessionRun, SessionEnd, Write, StoreWritten
<1>5. CASE Crash
  BY <1>5 DEF Crash, StoreWritten
<1>6. CASE Boot
  <2>1. CASE store # Absent /\ store.status = "running"
    <3> DEFINE r == IF store.procs["serve"] \in {"waiting", "running"} THEN store
                    ELSE [store EXCEPT !.procs["serve"] = "waiting"]
    <3>1. store \in Record
      BY <1>1, <2>1 DEF OperationInv, SupervisorTypeOK
    <3>2. r \in Record
      BY <3>1 DEF Record, ProcedureStatuses, Commands
    <3>3. UpdateScroll(WithStatus(r, Derived(r)))
      BY <1>6, <2>1 DEF Boot
    <3> HIDE DEF r
    <3>4. WithStatus(r, Derived(r)) \in Record
      BY <3>2, DerivedType, WithStatusType
    <3> QED
      BY <3>3, <3>4 DEF StoreWritten
  <2> QED
    BY <1>6, <2>1 DEF Boot, StoreWritten
<1>7. CASE UNCHANGED allVars
  BY <1>7 DEF allVars, supervisorVars, StoreWritten
<1> QED
  BY <1>2, <1>3, <1>4, <1>5, <1>6, <1>7 DEF SupervisorNext

\* With a store that merges the published packages (the one of Kubernetes), no
\* step loses a package while the scroll is there: not the session that
\* stores its own record, nor a failure that marks an old one.
THEOREM PublishedStaysSafe == ASSUME MergesUI PROVE SupervisorSpec => PublishedStays
<1>1. SupervisorInv /\ [SupervisorNext]_allVars =>
          [store # Absent /\ store' # Absent /\ store.published => store'.published]_allVars
  <2> SUFFICES ASSUME SupervisorInv, [SupervisorNext]_allVars, store # Absent, store' # Absent,
                      store.published
               PROVE  store'.published
    OBVIOUS
  <2>1. CASE store' = store
    BY <2>1
  <2>2. CASE \E r \in Record : UpdateScroll(r)
    <3>1. PICK r \in Record : store' = Merged(r)
      BY <2>2 DEF UpdateScroll
    <3>2. Merged(r) = [r EXCEPT !.published = r.published \/ store.published]
      BY DEF Merged
    <3> QED
      BY <3>1, <3>2 DEF Record
  <2> QED
    BY <2>1, <2>2, StepWrites DEF StoreWritten
<1> QED
  BY <1>1, SupervisorInvariance, PTL DEF SupervisorSpec, PublishedStays
=============================================================================
