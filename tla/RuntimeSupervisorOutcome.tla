------------------------ MODULE RuntimeSupervisorOutcome ------------------------
(***************************************************************************)
(* What the supervisor promises, as long as its operations do not overlap  *)
(* and a drain waits for what runs.  First: one session schedules commands *)
(* and a stop that succeeded lasts.  Then: the session in the map works on *)
(* what is stored, and what an operation that filled the root reports is   *)
(* what happened to the root and to the record.                            *)
(***************************************************************************)
EXTENDS RuntimeSupervisorProofs

\* Nothing waits and nothing runs.
Quiet(s) == session[s].waiting = {} /\ session[s].busy = {}

\* The operation has switched its session off and not drained it yet.
Switching(o) == op[o].pc = "drain" \/ (op[o].pc \in {"stopDrain", "restored"} /\ op[o].started)

\* The session of the only operation is the one in the map, or has been taken
\* from it, or is about to be put into it.
AloneOK(o) ==
    /\ op[o].s # None => cached \in {op[o].s, None}
    /\ op[o].s # None /\ op[o].pc # "cache" /\ ~Detached(o) => cached = op[o].s
    /\ op[o].pc \in {"make", "cache"} => cached = None
    /\ op[o].pc \in {"cache", "stopBackend", "stopStore", "quiesce"} => Quiet(op[o].s)
    /\ op[o].pc \in {"drain", "stopDrain", "restored"} => ~session[op[o].s].on

StoppedOK(o) ==
    op[o].kind = "stop" /\ (op[o].pc = "quiesce" \/ (~Running(o) /\ op[o].ok)) =>
        cached = None /\ store # Absent /\ store.status = "stopped"

\* Nothing is under way before the daemon has booted.
DownOK ==
    /\ ~up => cached = None /\ Idle /\ \A s \in Sessions : session[s] = NoSession
    /\ ~up /\ crashes = 0 => last = None

\* A session nobody can reach is quiet.
UnreachedOK == \A s \in Sessions : s # cached /\ (\A o \in Calls : op[o].s # s) => Quiet(s)

\* What runs in a session that is off is drained.
OffOK ==
    \A s \in Sessions : ~session[s].on /\ session[s].busy # {} =>
        \E o \in Calls : op[o].s = s /\ Switching(o)

SequentialInv ==
    /\ DownOK
    /\ ~overlap =>
          /\ \A o \in Calls : Running(o) => last = o /\ AloneOK(o)
          /\ UnreachedOK
          /\ OffOK
          /\ crashes = 0 /\ last # None => StoppedOK(last)
-----------------------------------------------------------------------------
\* What the invariant says while one operation runs alone.
LEMMA AloneFacts ==
    ASSUME SupervisorInv, SequentialInv, ~overlap, NEW o \in Calls, Running(o)
    PROVE  /\ up /\ last = o /\ AloneOK(o)
           /\ \A p \in Calls \ {o} : ~Running(p) /\ op[p].s = None
           /\ \A s \in Sessions : s # cached /\ op[o].s # s => Quiet(s)
           /\ \A s \in Sessions : ~session[s].on /\ session[s].busy # {} =>
                 op[o].s = s /\ Switching(o)
           /\ crashes = 0 => StoppedOK(o)
<1> USE SupervisorAssumption
<1>1. /\ \A p \in Calls : HandOK(p)
      /\ up \in BOOLEAN
  BY DEF SupervisorInv, OperationInv, SupervisorTypeOK
<1>2. up
  BY <1>1 DEF SequentialInv, DownOK, Idle
<1>3. last = o /\ AloneOK(o)
  BY DEF SequentialInv
<1>4. \A p \in Calls \ {o} : ~Running(p) /\ op[p].s = None
  BY <1>1, <1>3 DEF SequentialInv, HandOK
<1>5. \A s \in Sessions : s # cached /\ op[o].s # s => Quiet(s)
  BY <1>4 DEF SequentialInv, UnreachedOK
<1>6. \A s \in Sessions : ~session[s].on /\ session[s].busy # {} => op[o].s = s /\ Switching(o)
  BY <1>4 DEF SequentialInv, OffOK
<1>7. crashes = 0 => StoppedOK(o)
  BY <1>3, CallsAssumption DEF SequentialInv
<1> QED
  BY <1>2, <1>3, <1>4, <1>5, <1>6, <1>7

\* What a step of the only operation has to keep.
LEMMA AloneStep ==
    ASSUME SupervisorInv, SequentialInv, ~overlap, NEW o \in Calls, Running(o), Histories,
           \A p \in Calls \ {o} : op'[p] = op[p],
           Running(o)' => AloneOK(o)',
           \A s \in Sessions : s # cached' /\ op'[o].s # s => Quiet(s)',
           \A s \in Sessions : ~session'[s].on /\ session'[s].busy # {} =>
               op'[o].s = s /\ Switching(o)',
           crashes = 0 => StoppedOK(o)'
    PROVE  SequentialInv'
<1>1. /\ up /\ last = o
      /\ \A p \in Calls \ {o} : ~Running(p) /\ op[p].s = None
  BY AloneFacts
<1>2. up' /\ last' = o /\ crashes' = crashes
  BY <1>1 DEF Histories
<1>3. DownOK'
  BY <1>2 DEF DownOK
<1>4. \A p \in Calls : Running(p)' => last' = p /\ AloneOK(p)'
  BY <1>1, <1>2 DEF Running
<1>5. UnreachedOK'
  BY DEF UnreachedOK
<1>6. OffOK'
  BY DEF OffOK
<1>7. crashes' = 0 /\ last' # None => StoppedOK(last)'
  BY <1>2
<1> QED
  BY <1>3, <1>4, <1>5, <1>6, <1>7 DEF SequentialInv

\* A step that goes on with the session it has, or gives it back.
LEMMA QuietStep ==
    ASSUME SupervisorInv, SequentialInv, ~overlap, NEW o \in Calls, Running(o), Histories,
           \A p \in Calls \ {o} : op'[p] = op[p],
           UNCHANGED cached, op[o].pc \notin {"cache", "drain", "stopDrain", "restored"},
           ~Detached(o), op'[o].s \in {op[o].s, None},
           op'[o].pc \notin {"cache", "make", "drain", "stopDrain", "restored", "stopBackend",
                             "stopStore", "quiesce"},
           op'[o].kind = "stop" => Running(o)' \/ ~op'[o].ok,
           \A s \in Sessions : session'[s].on = session[s].on /\ session'[s].busy = session[s].busy,
           \A s \in Sessions : s # op[o].s => session'[s].waiting = session[s].waiting
    PROVE  SequentialInv'
<1>1. /\ AloneOK(o)
      /\ \A s \in Sessions : s # cached /\ op[o].s # s => Quiet(s)
      /\ \A s \in Sessions : ~session[s].on /\ session[s].busy # {} =>
            op[o].s = s /\ Switching(o)
  BY AloneFacts
<1>2. op[o].s # None => cached = op[o].s
  BY <1>1 DEF AloneOK
<1>3. AloneOK(o)'
  BY <1>2 DEF AloneOK
<1>4. \A s \in Sessions : s # cached' /\ op'[o].s # s => Quiet(s)'
  BY <1>1, <1>2, SupervisorAssumption DEF Quiet
<1>5. \A s \in Sessions : ~(~session'[s].on /\ session'[s].busy # {})
  BY <1>1 DEF Switching
<1>6. StoppedOK(o)'
  BY DEF StoppedOK
<1> QED
  BY <1>3, <1>4, <1>5, <1>6, AloneStep

\* A write of a session changes what waits and runs in that session.
LEMMA Written ==
    ASSUME session \in [Sessions -> SessionState], NEW s \in Sessions
    PROVE  /\ \A r, W, B : Write(s, r, W, B) =>
                 /\ session'[s].on = session[s].on /\ session'[s].waiting = W
                 /\ session'[s].busy = B
                 /\ \A t \in Sessions \ {s} : session'[t] = session[t]
           /\ \A r : WriteRecord(s, r) =>
                 /\ session'[s].on = session[s].on /\ session'[s].waiting = session[s].waiting
                 /\ session'[s].busy = session[s].busy
                 /\ \A t \in Sessions \ {s} : session'[t] = session[t]
           /\ \A c : Enqueue(s, c) =>
                 /\ session'[s].on = session[s].on /\ session'[s].busy = session[s].busy
                 /\ \A t \in Sessions \ {s} : session'[t] = session[t]
<1>1. ASSUME NEW r, NEW W, NEW B, Write(s, r, W, B)
      PROVE  /\ session'[s].on = session[s].on /\ session'[s].waiting = W
             /\ session'[s].busy = B
             /\ \A t \in Sessions \ {s} : session'[t] = session[t]
  <2> DEFINE x == [session[s] EXCEPT !.rec = Merged(r), !.waiting = W, !.busy = B]
  <2>1. session[s] \in SessionState
    OBVIOUS
  <2>2. x.on = session[s].on /\ x.waiting = W /\ x.busy = B
    BY <2>1 DEF SessionState
  <2>3. session' = [session EXCEPT ![s] = x]
    BY <1>1 DEF Write
  <2> HIDE DEF x
  <2> QED
    BY <2>2, <2>3
<1> QED
  BY <1>1 DEF WriteRecord, Enqueue
-----------------------------------------------------------------------------
\* The operation neither takes its session from the map nor drains it.
Moved(o) ==
    /\ Running(o) /\ Histories /\ UNCHANGED cached
    /\ op[o].pc \notin {"cache", "drain", "stopDrain", "restored"}
    /\ ~Detached(o) /\ op'[o].s \in {op[o].s, None}
    /\ op'[o].pc \notin {"cache", "make", "drain", "stopDrain", "restored", "stopBackend",
                         "stopStore", "quiesce"}
    /\ op'[o].kind = "stop" => Running(o)' \/ ~op'[o].ok

\* It does not change what runs, nor what waits in the sessions of others.
Kept(o) ==
    /\ \A s \in Sessions : session'[s].on = session[s].on /\ session'[s].busy = session[s].busy
    /\ \A s \in Sessions : s # op[o].s => session'[s].waiting = session[s].waiting

\* The operation gets to the step pc, with the session s.
Step(o, pc, s) == op'[o].pc = pc /\ op'[o].s = s /\ op'[o].kind = op[o].kind

LEMMA StepTo ==
    ASSUME op \in [Calls -> OperationState], NEW o \in Calls
    PROVE  /\ \A pc, r : op' = [op EXCEPT ![o].pc = pc, ![o].rec = r] => Step(o, pc, op[o].s)
           /\ \A pc, b, r : op' = [op EXCEPT ![o].pc = pc, ![o].restart = b, ![o].rec = r] =>
                 Step(o, pc, op[o].s)
           /\ \A pc, t, r : op' = [op EXCEPT ![o].pc = pc, ![o].then = t, ![o].rec = r] =>
                 Step(o, pc, op[o].s)
           /\ \A pc, r : op' = [op EXCEPT ![o].pc = pc, ![o].fresh = r] => Step(o, pc, op[o].s)
           /\ \A pc, b, r : op' = [op EXCEPT ![o].pc = pc, ![o].ok = b, ![o].fresh = r] =>
                 Step(o, pc, op[o].s)
           /\ \A pc, s : op' = [op EXCEPT ![o].pc = pc, ![o].s = s] => Step(o, pc, s)
<1>1. op[o] \in OperationState
  OBVIOUS
<1>2. ASSUME NEW pc, NEW r,
             op' = [op EXCEPT ![o].pc = pc, ![o].rec = r]
      PROVE  Step(o, pc, op[o].s)
  <2> DEFINE x == [op[o] EXCEPT !.pc = pc, !.rec = r]
  <2>1. x.pc = pc /\ x.s = op[o].s /\ x.kind = op[o].kind
    BY <1>1 DEF OperationState
  <2>2. op' = [op EXCEPT ![o] = x]
    BY <1>2
  <2> HIDE DEF x
  <2> QED
    BY <2>1, <2>2 DEF Step
<1>3. ASSUME NEW pc, NEW b, NEW r,
             op' = [op EXCEPT ![o].pc = pc, ![o].restart = b, ![o].rec = r]
      PROVE  Step(o, pc, op[o].s)
  <2> DEFINE x == [op[o] EXCEPT !.pc = pc, !.restart = b, !.rec = r]
  <2>1. x.pc = pc /\ x.s = op[o].s /\ x.kind = op[o].kind
    BY <1>1 DEF OperationState
  <2>2. op' = [op EXCEPT ![o] = x]
    BY <1>3
  <2> HIDE DEF x
  <2> QED
    BY <2>1, <2>2 DEF Step
<1>4. ASSUME NEW pc, NEW t, NEW r,
             op' = [op EXCEPT ![o].pc = pc, ![o].then = t, ![o].rec = r]
      PROVE  Step(o, pc, op[o].s)
  <2> DEFINE x == [op[o] EXCEPT !.pc = pc, !.then = t, !.rec = r]
  <2>1. x.pc = pc /\ x.s = op[o].s /\ x.kind = op[o].kind
    BY <1>1 DEF OperationState
  <2>2. op' = [op EXCEPT ![o] = x]
    BY <1>4
  <2> HIDE DEF x
  <2> QED
    BY <2>1, <2>2 DEF Step
<1>5. ASSUME NEW pc, NEW r,
             op' = [op EXCEPT ![o].pc = pc, ![o].fresh = r]
      PROVE  Step(o, pc, op[o].s)
  <2> DEFINE x == [op[o] EXCEPT !.pc = pc, !.fresh = r]
  <2>1. x.pc = pc /\ x.s = op[o].s /\ x.kind = op[o].kind
    BY <1>1 DEF OperationState
  <2>2. op' = [op EXCEPT ![o] = x]
    BY <1>5
  <2> HIDE DEF x
  <2> QED
    BY <2>1, <2>2 DEF Step
<1>6. ASSUME NEW pc, NEW b, NEW r,
             op' = [op EXCEPT ![o].pc = pc, ![o].ok = b, ![o].fresh = r]
      PROVE  Step(o, pc, op[o].s)
  <2> DEFINE x == [op[o] EXCEPT !.pc = pc, !.ok = b, !.fresh = r]
  <2>1. x.pc = pc /\ x.s = op[o].s /\ x.kind = op[o].kind
    BY <1>1 DEF OperationState
  <2>2. op' = [op EXCEPT ![o] = x]
    BY <1>6
  <2> HIDE DEF x
  <2> QED
    BY <2>1, <2>2 DEF Step
<1>7. ASSUME NEW pc, NEW s,
             op' = [op EXCEPT ![o].pc = pc, ![o].s = s]
      PROVE  Step(o, pc, s)
  <2> DEFINE x == [op[o] EXCEPT !.pc = pc, !.s = s]
  <2>1. x.pc = pc /\ x.s = s /\ x.kind = op[o].kind
    BY <1>1 DEF OperationState
  <2>2. op' = [op EXCEPT ![o] = x]
    BY <1>7
  <2> HIDE DEF x
  <2> QED
    BY <2>1, <2>2 DEF Step
<1> QED
  BY <1>2, <1>3, <1>4, <1>5, <1>6, <1>7

LEMMA GoesOn ==
    ASSUME SupervisorInv, SequentialInv, ~overlap, NEW o \in Calls, Operation(o), Moved(o), Kept(o)
    PROVE  SequentialInv'
<1>1. op \in [Calls -> OperationState]
  BY DEF SupervisorInv, OperationInv, SupervisorTypeOK
<1>2. \A p \in Calls \ {o} : op'[p] = op[p]
  BY <1>1, OthersStay
<1> QED
  BY <1>2, QuietStep DEF Moved, Kept

LEMMA KeptBy ==
    ASSUME session \in [Sessions -> SessionState], NEW o \in Calls
    PROVE  /\ session' = session => Kept(o)
           /\ op[o].s \in Sessions =>
                 /\ \A r, W : Write(op[o].s, r, W, session[op[o].s].busy) => Kept(o)
                 /\ \A r : WriteRecord(op[o].s, r) => Kept(o)
                 /\ \A c : Enqueue(op[o].s, c) => Kept(o)
<1>1. session' = session => Kept(o)
  BY DEF Kept
<1>2. ASSUME op[o].s \in Sessions
      PROVE  /\ \A r, W : Write(op[o].s, r, W, session[op[o].s].busy) => Kept(o)
             /\ \A r : WriteRecord(op[o].s, r) => Kept(o)
             /\ \A c : Enqueue(op[o].s, c) => Kept(o)
  BY <1>2, Written DEF Kept
<1> QED
  BY <1>1, <1>2

\* Most steps go on with the session the operation has.
LEMMA GoingOn ==
    ASSUME SupervisorInv, SequentialInv, ~overlap, NEW o \in Calls, Operation(o),
           \/ Lookup(o) \/ Insert(o) \/ BackendStop(o) \/ PullFailed(o) \/ Apply(o)
           \/ Remove(o) \/ Forget(o) \/ Serve(o) \/ FinishStart(o) \/ Run(o) \/ Await(o)
           \/ UILookup(o) \/ UIAdd(o) \/ UIQueue(o) \/ UIAwait(o) \/ UIRead(o) \/ UIStore(o)
           \/ UIRemove(o) \/ UIRemoved(o)
    PROVE  SequentialInv'
<1>1. /\ op \in [Calls -> OperationState] /\ session \in [Sessions -> SessionState]
      /\ FlowOK(o) /\ HandOK(o)
  BY DEF SupervisorInv, OperationInv, SupervisorTypeOK
<1>2. Fail(o) \/ Succeed(o) \/ (\E ok : Return(o, ok)) => Step(o, "done", None)
  BY <1>1, Returned DEF Step
<1>3. \A pc : To(o, pc) => Step(o, pc, op[o].s)
  BY <1>1, MovedTo DEF Step
<1>4. CASE Lookup(o)
  <2>1. \/ Step(o, "insert", op[o].s) \/ Step(o, "pull", op[o].s) \/ Step(o, "detach", op[o].s)
        \/ Step(o, "done", None)
    BY <1>1, <1>2, <1>3, <1>4, StepTo DEF Lookup
  <2>2. Moved(o)
    BY <1>1, <1>4, <2>1 DEF Lookup, Running, Detached, FlowOK, Moved, Step
  <2> QED
    BY <1>1, <1>4, <2>2, KeptBy, GoesOn DEF Lookup
<1>5. CASE Insert(o)
  <2>1. Step(o, "pull", op[o].s) \/ Step(o, "done", None)
    BY <1>1, <1>2, <1>5, StepTo DEF Insert
  <2>2. Moved(o)
    BY <1>1, <1>5, <2>1 DEF Insert, Running, Detached, FlowOK, Moved, Step
  <2> QED
    BY <1>1, <1>5, <2>2, KeptBy, GoesOn DEF Insert
<1>6. CASE BackendStop(o)
  <2>1. Step(o, "pull", op[o].s) \/ Step(o, "done", None)
    BY <1>1, <1>2, <1>3, <1>6 DEF BackendStop
  <2>2. Moved(o)
    BY <1>1, <1>6, <2>1 DEF BackendStop, Running, Detached, FlowOK, Moved, Step
  <2> QED
    BY <1>1, <1>6, <2>2, KeptBy, GoesOn DEF BackendStop
<1>7. CASE PullFailed(o)
  <2>1. Step(o, "done", None)
    BY <1>1, <1>2, <1>7 DEF PullFailed
  <2>2. Moved(o)
    BY <1>1, <1>7, <2>1 DEF PullFailed, PullEnded, Running, Detached, FlowOK, Moved, Step
  <2>3. Kept(o)
    BY <1>1, <1>7, KeptBy DEF PullFailed, PullEnded, HandOK, Holds
  <2> QED
    BY <2>2, <2>3, GoesOn
<1>8. CASE Apply(o)
  <2>1. \/ Step(o, "uiLookup", op[o].s) \/ Step(o, "find", op[o].s) \/ Step(o, "done", None)
    <3>1. \/ Fail(o) \/ \E ok : Return(o, ok)
          \/ \E b, r : op' = [op EXCEPT ![o].pc = "uiLookup", ![o].restart = b, ![o].rec = r]
          \/ op' = [op EXCEPT ![o].pc = "find", ![o].then = "serve", ![o].rec = Absent]
      BY <1>8 DEF Apply
    <3>2. CASE Fail(o) \/ \E ok : Return(o, ok)
      BY <1>2, <3>2
    <3>3. CASE \E b, r : op' = [op EXCEPT ![o].pc = "uiLookup", ![o].restart = b, ![o].rec = r]
      BY <1>1, <3>3, StepTo
    <3>4. CASE op' = [op EXCEPT ![o].pc = "find", ![o].then = "serve", ![o].rec = Absent]
      BY <1>1, <3>4, StepTo
    <3> QED
      BY <3>1, <3>2, <3>3, <3>4
  <2>2. Moved(o)
    BY <1>1, <1>8, <2>1 DEF Apply, PullEnded, Running, Detached, FlowOK, Moved, Step
  <2> QED
    BY <1>1, <1>8, <2>2, KeptBy, GoesOn DEF Apply
<1>9. CASE Remove(o) \/ Forget(o)
  <2>1. Step(o, "forget", op[o].s) \/ Step(o, "done", None)
    BY <1>1, <1>2, <1>3, <1>9 DEF Remove, Forget
  <2>2. Moved(o)
    BY <1>1, <1>9, <2>1 DEF Remove, Forget, Running, Detached, FlowOK, Moved, Step
  <2> QED
    BY <1>1, <1>9, <2>2, KeptBy, GoesOn DEF Remove, Forget
<1>10. CASE Serve(o)
  <2>1. Step(o, "finish", op[o].s)
    BY <1>1, <1>3, <1>10 DEF Serve
  <2>2. Moved(o)
    BY <1>1, <1>10, <2>1 DEF Serve, Running, Detached, FlowOK, Moved, Step
  <2> QED
    BY <1>1, <1>10, <2>2, KeptBy, GoesOn DEF Serve, HandOK, Holds
<1>11. CASE FinishStart(o)
  <2>1. Step(o, "done", None)
    BY <1>1, <1>2, <1>11 DEF FinishStart
  <2>2. Moved(o)
    BY <1>1, <1>11, <2>1 DEF FinishStart, Running, Detached, FlowOK, Moved, Step
  <2> QED
    BY <1>1, <1>11, <2>2, KeptBy, GoesOn DEF FinishStart, HandOK, Holds
<1>12. CASE Run(o)
  <2>1. Step(o, "await", op[o].s) \/ Step(o, "done", None)
    BY <1>1, <1>2, <1>3, <1>12 DEF Run
  <2>2. Moved(o)
    BY <1>1, <1>12, <2>1 DEF Run, Running, Detached, FlowOK, Moved, Step
  <2> QED
    BY <1>1, <1>12, <2>2, KeptBy, GoesOn DEF Run, HandOK, Holds
<1>13. CASE Await(o)
  <2>1. Step(o, "done", None)
    BY <1>1, <1>2, <1>13 DEF Await
  <2>2. Moved(o)
    BY <1>1, <1>13, <2>1 DEF Await, Running, Detached, FlowOK, Moved, Step
  <2> QED
    BY <1>1, <1>13, <2>2, KeptBy, GoesOn DEF Await
<1>14. CASE UILookup(o)
  <2>1. Step(o, "find", None) \/ Step(o, "done", None)
    BY <1>1, <1>2, <1>14, MovedTo DEF UILookup, Step
  <2>2. Moved(o)
    BY <1>1, <1>14, <2>1 DEF UILookup, Running, Detached, FlowOK, Moved, Step
  <2> QED
    BY <1>1, <1>14, <2>2, KeptBy, GoesOn DEF UILookup
<1>15. CASE UIAdd(o)
  <2>1. Step(o, "uiQueue", op[o].s) \/ Step(o, "done", None)
    BY <1>1, <1>2, <1>3, <1>15 DEF UIAdd
  <2>2. Moved(o)
    BY <1>1, <1>15, <2>1 DEF UIAdd, Running, Detached, FlowOK, Moved, Step
  <2> QED
    BY <1>1, <1>15, <2>2, KeptBy, GoesOn DEF UIAdd, HandOK, Holds
<1>16. CASE UIQueue(o)
  <2>1. Step(o, "uiAwait", op[o].s) \/ Step(o, "uiRemove", op[o].s)
    BY <1>1, <1>3, <1>16 DEF UIQueue
  <2>2. Moved(o)
    BY <1>1, <1>16, <2>1 DEF UIQueue, Running, Detached, FlowOK, Moved, Step
  <2> QED
    BY <1>1, <1>16, <2>2, KeptBy, GoesOn DEF UIQueue, HandOK, Holds
<1>17. CASE UIAwait(o)
  <2>1. Step(o, "uiRead", op[o].s) \/ Step(o, "uiRemove", op[o].s)
    BY <1>1, <1>3, <1>17 DEF UIAwait, To
  <2>2. Moved(o)
    BY <1>1, <1>17, <2>1 DEF UIAwait, Running, Detached, FlowOK, Moved, Step
  <2> QED
    BY <1>1, <1>17, <2>2, KeptBy, GoesOn DEF UIAwait
<1>18. CASE UIRead(o)
  <2>1. Step(o, "uiStore", op[o].s) \/ Step(o, "uiRemove", op[o].s)
    BY <1>1, <1>18, StepTo DEF UIRead
  <2>2. Moved(o)
    BY <1>1, <1>18, <2>1 DEF UIRead, Running, Detached, FlowOK, Moved, Step
  <2> QED
    BY <1>1, <1>18, <2>2, KeptBy, GoesOn DEF UIRead
<1>19. CASE UIStore(o)
  <2>1. Step(o, "uiRemove", op[o].s)
    BY <1>1, <1>19, StepTo DEF UIStore
  <2>2. Moved(o)
    BY <1>1, <1>19, <2>1 DEF UIStore, Running, Detached, FlowOK, Moved, Step
  <2> QED
    BY <1>1, <1>19, <2>2, KeptBy, GoesOn DEF UIStore
<1>20. CASE UIRemove(o)
  <2>1. Step(o, "uiRemoved", op[o].s) \/ Step(o, "done", None)
    BY <1>1, <1>2, <1>3, <1>20 DEF UIRemove, To
  <2>2. Moved(o)
    BY <1>1, <1>20, <2>1 DEF UIRemove, Running, Detached, FlowOK, Moved, Step
  <2> QED
    BY <1>1, <1>20, <2>2, KeptBy, GoesOn DEF UIRemove, HandOK, Holds
<1>21. CASE UIRemoved(o)
  <2>1. Step(o, "find", None) \/ Step(o, "done", None)
    BY <1>1, <1>2, <1>21, MovedTo DEF UIRemoved, Step
  <2>2. Moved(o)
    BY <1>1, <1>21, <2>1 DEF UIRemoved, Running, Detached, FlowOK, Moved, Step
  <2> QED
    BY <1>1, <1>21, <2>2, KeptBy, GoesOn DEF UIRemoved
<1> QED
  BY <1>4, <1>5, <1>6, <1>7, <1>8, <1>9, <1>10, <1>11, <1>12, <1>13, <1>14, <1>15, <1>16, <1>17,
     <1>18, <1>19, <1>20, <1>21
-----------------------------------------------------------------------------
(* The steps that take a session in hand, and the ones that put one into   *)
(* the map or take it from there                                           *)

LEMMA BeginAlone ==
    ASSUME SupervisorInv, SequentialInv, NEW o \in Calls, Begin(o)
    PROVE  SequentialInv'
<1> USE SupervisorAssumption
<1>1. /\ OperationInv /\ op \in [Calls -> OperationState] /\ op[o] \in OperationState
      /\ \A p \in Calls : HandOK(p)
      /\ overlap \in BOOLEAN
  BY DEF SupervisorInv, OperationInv, SupervisorTypeOK
<1>2. up /\ up' = up /\ last' = o /\ overlap' = (overlap \/ ~Idle)
      /\ UNCHANGED <<cached, session, crashes>>
  BY DEF Begin
<1>3. DownOK'
  BY <1>2 DEF DownOK
<1>4. PICK kind \in Kinds, a \in Versions, restart \in BOOLEAN :
          op' = [op EXCEPT ![o].kind = kind, ![o].artifact = a, ![o].restart = restart,
                           ![o].pc = FirstStep(kind), ![o].then = AfterSession(kind)]
  BY DEF Begin
<1> DEFINE x == [op[o] EXCEPT !.kind = kind, !.artifact = a, !.restart = restart,
                              !.pc = FirstStep(kind), !.then = AfterSession(kind)]
<1>5. x.pc = FirstStep(kind) /\ x.s = op[o].s
  BY <1>1 DEF OperationState
<1>6. op' = [op EXCEPT ![o] = x]
  BY <1>4
<1> HIDE DEF x
<1>7. op'[o] = x /\ \A p \in Calls \ {o} : op'[p] = op[p]
  BY <1>1, <1>6
<1>8. op'[o].pc \in {"lookup", "detach", "uiLookup", "find"}
  BY <1>5, <1>7 DEF FirstStep
<1>9. CASE overlap'
  BY <1>3, <1>9 DEF SequentialInv
<1>10. CASE ~overlap'
  <2>1. ~overlap /\ \A p \in Calls : ~Running(p) /\ op[p].s = None
    BY <1>1, <1>2, <1>10 DEF Idle, HandOK
  <2>2. \A p \in Calls : op'[p].s = None
    BY <1>5, <1>7, <2>1
  <2>3. \A p \in Calls : Running(p)' => last' = p /\ AloneOK(p)'
    BY <1>2, <1>7, <1>8, <2>1, <2>2 DEF Running, AloneOK
  <2>4. \A s \in Sessions : s # cached => Quiet(s)
    BY <2>1 DEF SequentialInv, UnreachedOK
  <2>5. UnreachedOK'
    BY <1>2, <2>4 DEF UnreachedOK, Quiet
  <2>6. OffOK'
    BY <1>2, <2>1 DEF SequentialInv, OffOK
  <2>7. StoppedOK(o)'
    BY <1>8 DEF StoppedOK, Running
  <2> QED
    BY <1>2, <1>3, <2>3, <2>5, <2>6, <2>7 DEF SequentialInv
<1> QED
  BY <1>9, <1>10

\* What the steps below have to show: the operation o gets to the step pc with
\* the session s.
LEMMA SessionTaken ==
    ASSUME SupervisorInv, SequentialInv, ~overlap, NEW o \in Calls, Operation(o), Running(o),
           Histories, op[o].pc \notin {"drain", "stopDrain", "restored"},
           NEW pc, NEW s \in Sessions, Step(o, pc, s), cached' \in {s, None}, cached \in {s, None},
           op[o].s # None => op[o].s = s,
           pc \notin {"make", "cache", "stopBackend", "stopStore", "quiesce", "idle", "done"},
           pc \in {"drain", "stopDrain", "restored"} => ~session'[s].on,
           Detached(o)' \/ cached' = s,
           \A t \in Sessions \ {s} : session'[t] = session[t],
           session'[s].on \/ session'[s].busy = {} \/ Switching(o)'
    PROVE  SequentialInv'
<1> USE SupervisorAssumption
<1>1. /\ op \in [Calls -> OperationState] /\ AloneOK(o)
      /\ \A t \in Sessions : t # cached /\ op[o].s # t => Quiet(t)
      /\ \A t \in Sessions : ~session[t].on /\ session[t].busy # {} =>
            op[o].s = t /\ Switching(o)
  BY AloneFacts DEF SupervisorInv, OperationInv, SupervisorTypeOK
<1>2. \A p \in Calls \ {o} : op'[p] = op[p]
  BY <1>1, OthersStay
<1>3. AloneOK(o)'
  BY DEF AloneOK, Step
<1>4. \A t \in Sessions : t # cached' /\ op'[o].s # t => Quiet(t)'
  BY <1>1 DEF Step, Quiet
<1>5. \A t \in Sessions : ~session'[t].on /\ session'[t].busy # {} =>
            op'[o].s = t /\ Switching(o)'
  BY <1>1 DEF Step, Switching
<1>6. StoppedOK(o)'
  BY DEF Step, StoppedOK, Running
<1> QED
  BY <1>2, <1>3, <1>4, <1>5, <1>6, AloneStep

\* sessionFor finds the session that is in the map.
LEMMA FindAlone ==
    ASSUME SupervisorInv, SequentialInv, ~overlap, NEW o \in Calls, Operation(o), Find(o)
    PROVE  SequentialInv'
<1> USE SupervisorAssumption
<1>1. /\ op \in [Calls -> OperationState] /\ session \in [Sessions -> SessionState]
      /\ cached \in Sessions \cup {None} /\ op[o] \in OperationState
      /\ FlowOK(o) /\ HandOK(o)
  BY DEF SupervisorInv, OperationInv, SupervisorTypeOK
<1>2. Running(o) /\ Histories /\ op[o].pc = "find" /\ UNCHANGED session
  BY DEF Find, Running
<1>3. /\ AloneOK(o)
      /\ \A t \in Sessions : ~session[t].on /\ session[t].busy # {} => Switching(o)
  BY <1>2, AloneFacts
<1>4. \A t \in Sessions : session[t].on \/ session[t].busy = {}
  BY <1>2, <1>3 DEF Switching
<1>5. CASE cached = None
  <2>1. op[o].s = None
    BY <1>2, <1>3, <1>5 DEF AloneOK, Detached
  <2>2. To(o, "make") /\ UNCHANGED cached
    BY <1>5 DEF Find
  <2>3. op'[o].pc = "make" /\ op'[o].s = None
    BY <1>1, <2>1, <2>2, MovedTo
  <2>4. AloneOK(o)'
    BY <1>5, <2>2, <2>3 DEF AloneOK
  <2>5. \A t \in Sessions : t # cached' /\ op'[o].s # t => Quiet(t)'
    BY <1>2, <2>1, <2>2, AloneFacts DEF Quiet
  <2>6. StoppedOK(o)'
    BY <2>3 DEF StoppedOK, Running
  <2> QED
    BY <1>1, <1>2, <1>4, <2>4, <2>5, <2>6, OthersStay, AloneStep
<1>6. CASE cached # None
  <2>1. op[o].s # None => op[o].s = cached
    BY <1>2, <1>3, <1>6 DEF AloneOK, Detached
  <2>2. CASE op[o].then # "uncache"
    <3>1. op' = [op EXCEPT ![o].pc = op[o].then, ![o].s = cached] /\ UNCHANGED cached
      BY <1>6, <2>2 DEF Find
    <3>2. Step(o, op[o].then, cached)
      BY <1>1, <3>1, StepTo
    <3>3. op[o].then \in {"stop", "serve", "run", "uiAdd"}
      BY <1>1, <1>2, <2>2 DEF FlowOK, OperationState
    <3> QED
      BY <1>1, <1>2, <1>4, <1>6, <2>1, <3>1, <3>2, <3>3, SessionTaken
  <2>3. CASE op[o].then = "uncache"
    <3>1. op' = [op EXCEPT ![o].pc = "stop", ![o].s = cached] /\ cached' = None
      BY <1>6, <2>3 DEF Find
    <3>2. Step(o, "stop", cached) /\ op[o].kind = "stop"
      BY <1>1, <1>2, <2>3, <3>1, StepTo DEF FlowOK
    <3>3. Detached(o)'
      BY <3>2 DEF Detached, Step
    <3> QED
      BY <1>1, <1>2, <1>4, <1>6, <2>1, <3>1, <3>2, <3>3, SessionTaken
  <2> QED
    BY <2>2, <2>3
<1> QED
  BY <1>5, <1>6

\* A session that is made is new; it goes into the map, which is empty.
LEMMA MakeAlone ==
    ASSUME SupervisorInv, SequentialInv, ~overlap, NEW o \in Calls, Operation(o), Make(o)
    PROVE  SequentialInv'
<1> USE SupervisorAssumption
<1>1. /\ op \in [Calls -> OperationState] /\ session \in [Sessions -> SessionState]
  BY DEF SupervisorInv, OperationInv, SupervisorTypeOK
<1>2. Running(o) /\ Histories /\ op[o].pc = "make" /\ UNCHANGED cached
  BY DEF Make, Running
<1>3. /\ AloneOK(o)
      /\ \A t \in Sessions : t # cached /\ op[o].s # t => Quiet(t)
      /\ \A t \in Sessions : ~session[t].on /\ session[t].busy # {} => Switching(o)
  BY <1>2, AloneFacts
<1>4. cached = None /\ op[o].s = None
  BY <1>2, <1>3 DEF AloneOK, Detached
<1>5. CASE Fail(o) /\ UNCHANGED session
  <2>1. op'[o].pc = "done" /\ op'[o].s = None /\ op'[o].ok = FALSE
    BY <1>1, <1>5, Returned
  <2>2. Moved(o)
    BY <1>2, <2>1 DEF Moved, Detached
  <2> QED
    BY <1>1, <1>5, <2>2, KeptBy, GoesOn
<1>6. CASE \E s \in Sessions :
                /\ session' = [session EXCEPT ![s] = [NoSession EXCEPT !.on = TRUE, !.rec = store]]
                /\ op' = [op EXCEPT ![o].pc = "cache", ![o].s = s]
  <2>1. PICK s \in Sessions :
                /\ session' = [session EXCEPT ![s] = [NoSession EXCEPT !.on = TRUE, !.rec = store]]
                /\ op' = [op EXCEPT ![o].pc = "cache", ![o].s = s]
    BY <1>6
  <2>2. Step(o, "cache", s)
    BY <1>1, <2>1, StepTo
  <2>3. Quiet(s)' /\ \A t \in Sessions \ {s} : session'[t] = session[t]
    BY <1>1, <2>1 DEF Quiet, NoSession
  <2>4. AloneOK(o)'
    BY <1>2, <1>4, <2>2, <2>3 DEF AloneOK, Step
  <2>5. \A t \in Sessions : t # cached' /\ op'[o].s # t => Quiet(t)'
    BY <1>3, <1>4, <2>2, <2>3 DEF Step, Quiet
  <2>6. \A t \in Sessions : session'[t].on \/ session'[t].busy = {}
    BY <1>2, <1>3, <2>3 DEF Switching, Quiet
  <2>7. StoppedOK(o)'
    BY <2>2 DEF StoppedOK, Running, Step
  <2> QED
    BY <1>1, <1>2, <2>4, <2>5, <2>6, <2>7, OthersStay, AloneStep
<1> QED
  BY <1>5, <1>6 DEF Make

\* Nobody was faster: the session that was made goes into the map.
LEMMA CacheAlone ==
    ASSUME SupervisorInv, SequentialInv, ~overlap, NEW o \in Calls, Operation(o), Cache(o)
    PROVE  SequentialInv'
<1> USE SupervisorAssumption
<1>1. /\ op \in [Calls -> OperationState] /\ op[o] \in OperationState
      /\ FlowOK(o) /\ HandOK(o)
  BY DEF SupervisorInv, OperationInv, SupervisorTypeOK
<1>2. Running(o) /\ Histories /\ op[o].pc = "cache" /\ op[o].s \in Sessions
  BY <1>1 DEF Cache, Running, HandOK, Holds
<1>3. /\ AloneOK(o)
      /\ \A t \in Sessions : ~session[t].on /\ session[t].busy # {} => Switching(o)
  BY <1>2, AloneFacts
<1>4. cached = None
  BY <1>2, <1>3 DEF AloneOK
<1>5. cached' = op[o].s /\ To(o, op[o].then) /\ UNCHANGED session
  BY <1>4 DEF Cache
<1>6. Step(o, op[o].then, op[o].s)
  BY <1>1, <1>5, MovedTo DEF Step
<1>7. op[o].then \in {"uncache", "stop", "serve", "run", "uiAdd"}
  BY <1>1, <1>2 DEF FlowOK, OperationState
<1>8. \A t \in Sessions : session'[t].on \/ session'[t].busy = {}
  BY <1>2, <1>3, <1>5 DEF Switching
<1>9. \A t \in Sessions : session'[t] = session[t]
  BY <1>5
<1> QED
  BY <1>2, <1>4, <1>5, <1>6, <1>7, <1>8, <1>9, SessionTaken

\* Stop takes it from there again.
LEMMA UncacheAlone ==
    ASSUME SupervisorInv, SequentialInv, ~overlap, NEW o \in Calls, Operation(o), Uncache(o)
    PROVE  SequentialInv'
<1> USE SupervisorAssumption
<1>1. /\ op \in [Calls -> OperationState] /\ FlowOK(o) /\ HandOK(o)
  BY DEF SupervisorInv, OperationInv, SupervisorTypeOK
<1>2. Running(o) /\ Histories /\ op[o].pc = "uncache" /\ op[o].s \in Sessions
      /\ op[o].kind = "stop"
  BY <1>1 DEF Uncache, Running, HandOK, Holds, FlowOK
<1>3. /\ AloneOK(o)
      /\ \A t \in Sessions : ~session[t].on /\ session[t].busy # {} => Switching(o)
  BY <1>2, AloneFacts
<1>4. cached = op[o].s
  BY <1>2, <1>3 DEF AloneOK, Detached
<1>5. cached' = None /\ To(o, "stop") /\ UNCHANGED session
  BY DEF Uncache
<1>6. Step(o, "stop", op[o].s) /\ Detached(o)'
  BY <1>1, <1>2, <1>5, MovedTo DEF Step, Detached
<1>7. \A t \in Sessions : session'[t].on \/ session'[t].busy = {}
  BY <1>2, <1>3, <1>5 DEF Switching
<1>8. \A t \in Sessions : session'[t] = session[t]
  BY <1>5
<1> QED
  BY <1>2, <1>4, <1>5, <1>6, <1>7, <1>8, SessionTaken

\* Update and delete take it from the map and switch it off.
LEMMA DetachAlone ==
    ASSUME SupervisorInv, SequentialInv, ~overlap, NEW o \in Calls, Operation(o), Detach(o)
    PROVE  SequentialInv'
<1> USE SupervisorAssumption
<1>1. /\ op \in [Calls -> OperationState] /\ session \in [Sessions -> SessionState]
      /\ cached \in Sessions \cup {None} /\ FlowOK(o) /\ HandOK(o)
  BY DEF SupervisorInv, OperationInv, SupervisorTypeOK
<1>2. Running(o) /\ Histories /\ op[o].pc = "detach" /\ cached' = None
      /\ op[o].kind \in {"create", "ensure", "update", "delete"}
  BY <1>1 DEF Detach, Running, FlowOK
<1>3. /\ AloneOK(o)
      /\ \A t \in Sessions : ~session[t].on /\ session[t].busy # {} => Switching(o)
  BY <1>2, AloneFacts
<1>4. op[o].s # None => op[o].s = cached
  BY <1>2, <1>3 DEF AloneOK, Detached
<1>5. CASE cached = None
  <2>1. To(o, AfterDetach(o)) /\ session' = session
    BY <1>5 DEF Detach
  <2>2. Step(o, AfterDetach(o), op[o].s) /\ AfterDetach(o) \in {"remove", "backend"}
    BY <1>1, <2>1, MovedTo DEF Step, AfterDetach
  <2>3. Moved(o)
    BY <1>2, <1>5, <2>2 DEF Moved, Running, Detached, Step
  <2> QED
    BY <1>1, <2>1, <2>3, KeptBy, GoesOn
<1>6. CASE cached # None
  <2>1. /\ op' = [op EXCEPT ![o].pc = "drain", ![o].s = cached]
        /\ session' = [session EXCEPT ![cached].on = FALSE]
    BY <1>6 DEF Detach
  <2>2. Step(o, "drain", cached)
    BY <1>1, <2>1, StepTo
  <2>5. Detached(o)'
    BY <1>2, <2>2 DEF Step, Detached
  <2>3. ~session'[cached].on /\ \A t \in Sessions \ {cached} : session'[t] = session[t]
    BY <1>1, <1>6, <2>1 DEF SessionState
  <2>4. Switching(o)'
    BY <2>2 DEF Switching, Step
  <2> QED
    BY <1>1, <1>2, <1>4, <1>6, <2>2, <2>3, <2>4, <2>5, SessionTaken
<1> QED
  BY <1>5, <1>6

\* What is switched off for good and drained is quiet.
LEMMA SwitchedOffQuiet ==
    ASSUME session \in [Sessions -> SessionState], NEW o \in Calls, op[o].s \in Sessions,
           SwitchedOff(o), Drained(op[o].s), ~DrainTimesOut
    PROVE  /\ session'[op[o].s].waiting = {} /\ session'[op[o].s].busy = {}
           /\ \A t \in Sessions \ {op[o].s} : session'[t] = session[t]
<1>1. PICK s \in Sessions : s = op[o].s
  OBVIOUS
<1>2. session[s] \in SessionState /\ session[s].busy = {}
  BY <1>1 DEF Drained
<1> DEFINE x == [session[s] EXCEPT !.on = FALSE, !.waiting = {}]
<1>3. x.waiting = {} /\ x.busy = {}
  BY <1>2 DEF SessionState
<1>4. session' = [session EXCEPT ![s] = NoSession] \/ session' = [session EXCEPT ![s] = x]
  BY <1>1 DEF SwitchedOff
<1> HIDE DEF x
<1> QED
  BY <1>1, <1>3, <1>4 DEF NoSession

LEMMA DrainAlone ==
    ASSUME SupervisorInv, SequentialInv, ~overlap, NEW o \in Calls, Operation(o), Drain(o),
           ~DrainTimesOut
    PROVE  SequentialInv'
<1> USE SupervisorAssumption
<1>1. /\ op \in [Calls -> OperationState] /\ session \in [Sessions -> SessionState]
      /\ FlowOK(o) /\ HandOK(o)
  BY DEF SupervisorInv, OperationInv, SupervisorTypeOK
<1>2. Running(o) /\ Histories /\ op[o].pc = "drain" /\ op[o].s \in Sessions
      /\ op[o].kind \in {"create", "ensure", "update", "delete"} /\ UNCHANGED cached
  BY <1>1 DEF Drain, Running, FlowOK, HandOK, Holds
<1>3. /\ AloneOK(o)
      /\ \A t \in Sessions : t # cached /\ op[o].s # t => Quiet(t)
      /\ \A t \in Sessions : ~session[t].on /\ session[t].busy # {} => op[o].s = t
  BY <1>2, AloneFacts
<1>4. /\ session'[op[o].s].waiting = {} /\ session'[op[o].s].busy = {}
      /\ \A t \in Sessions \ {op[o].s} : session'[t] = session[t]
  BY <1>1, <1>2, SwitchedOffQuiet DEF Drain
<1>5. Step(o, AfterDetach(o), None) /\ AfterDetach(o) \in {"remove", "backend"}
  BY <1>1, StepTo DEF Drain, AfterDetach
<1>6. AloneOK(o)'
  BY <1>5 DEF AloneOK, Step
<1>7. \A t \in Sessions : t # cached' /\ op'[o].s # t => Quiet(t)'
  BY <1>2, <1>3, <1>4 DEF Quiet
<1>8. \A t \in Sessions : session'[t].on \/ session'[t].busy = {}
  BY <1>3, <1>4 DEF Quiet
<1>9. StoppedOK(o)'
  BY <1>5 DEF StoppedOK, Running, Step
<1> QED
  BY <1>1, <1>2, <1>6, <1>7, <1>8, <1>9, OthersStay, AloneStep
-----------------------------------------------------------------------------
(* StopRuntime and ApplyRestore                                            *)

\* A session is switched off; what runs in it is left to be drained.
LEMMA SwitchOffAlone ==
    ASSUME SupervisorInv, SequentialInv, ~overlap, NEW o \in Calls, Operation(o), Running(o),
           Histories, UNCHANGED cached, NEW pc \in {"stopDrain", "restored"}, SwitchOff(o, pc),
           \/ pc = "stopDrain" /\ op[o].pc = "stop"
           \/ pc = "restored" /\ op[o].pc = "pull" /\ op[o].kind = "restore"
    PROVE  SequentialInv'
<1> USE SupervisorAssumption
<1>1. /\ op \in [Calls -> OperationState] /\ session \in [Sessions -> SessionState]
      /\ FlowOK(o) /\ HandOK(o)
  BY DEF SupervisorInv, OperationInv, SupervisorTypeOK
<1>2. PICK s \in Sessions : s = op[o].s
  BY <1>1 DEF HandOK, Holds
<1>3. /\ AloneOK(o)
      /\ \A t \in Sessions : ~session[t].on /\ session[t].busy # {} => Switching(o)
  BY AloneFacts
<1>4. /\ Step(o, pc, s)
      /\ op'[o].started = session[s].on
  BY <1>1, <1>2, MovedTo DEF Step
<1>5. session' = [session EXCEPT ![s].on = FALSE]
  BY <1>2 DEF SwitchOff
<1>6. /\ session'[s].on = FALSE /\ session'[s].busy = session[s].busy
      /\ \A t \in Sessions \ {s} : session'[t] = session[t]
  BY <1>1, <1>5 DEF SessionState
<1>7. session'[s].on \/ session'[s].busy = {} \/ Switching(o)'
  BY <1>3, <1>4, <1>6 DEF Switching, Step
<1>8. cached \in {s, None} /\ (Detached(o)' \/ cached' = s)
  BY <1>2, <1>3, <1>4 DEF AloneOK, Detached, Step
<1> QED
  BY <1>2, <1>4, <1>6, <1>7, <1>8, SessionTaken

LEMMA StopBeginAlone ==
    ASSUME SupervisorInv, SequentialInv, ~overlap, NEW o \in Calls, Operation(o), StopBegin(o)
    PROVE  SequentialInv'
BY SwitchOffAlone DEF StopBegin, Running

LEMMA RestoreBeginAlone ==
    ASSUME SupervisorInv, SequentialInv, ~overlap, NEW o \in Calls, Operation(o), RestoreBegin(o)
    PROVE  SequentialInv'
<1>1. /\ op \in [Calls -> OperationState] /\ session \in [Sessions -> SessionState]
      /\ HandOK(o)
  BY DEF SupervisorInv, OperationInv, SupervisorTypeOK
<1>2. Running(o) /\ Histories /\ UNCHANGED cached /\ op[o].pc = "pull" /\ op[o].kind = "restore"
  BY DEF RestoreBegin, PullEnded, Running
<1>3. CASE SwitchOff(o, "restored")
  BY <1>2, <1>3, SwitchOffAlone
<1>4. CASE /\ WriteRecord(op[o].s, WithStatus(session[op[o].s].rec, "error"))
           /\ Return(o, FALSE)
  <2>1. op'[o].pc = "done" /\ op'[o].s = None /\ op'[o].ok = FALSE
    BY <1>1, <1>4, Returned
  <2>2. Moved(o)
    BY <1>2, <2>1 DEF Moved, Detached
  <2> QED
    BY <1>1, <1>2, <1>4, <2>2, KeptBy, GoesOn DEF HandOK, Holds
<1> QED
  BY <1>3, <1>4 DEF RestoreBegin

\* A session that was switched off is drained before its queue is dropped.
LEMMA StopDrainAlone ==
    ASSUME SupervisorInv, SequentialInv, ~overlap, NEW o \in Calls, Operation(o), StopDrain(o),
           ~DrainTimesOut
    PROVE  SequentialInv'
<1> USE SupervisorAssumption
<1>1. /\ op \in [Calls -> OperationState] /\ session \in [Sessions -> SessionState]
      /\ HandOK(o)
  BY DEF SupervisorInv, OperationInv, SupervisorTypeOK
<1>2. Running(o) /\ Histories /\ op[o].pc = "stopDrain" /\ UNCHANGED cached
  BY DEF StopDrain, Running
<1>3. PICK s \in Sessions : s = op[o].s
  BY <1>1, <1>2 DEF HandOK, Holds
<1>4. /\ AloneOK(o)
      /\ \A t \in Sessions : t # cached /\ op[o].s # t => Quiet(t)
      /\ \A t \in Sessions : ~session[t].on /\ session[t].busy # {} => s = t /\ Switching(o)
  BY <1>2, <1>3, AloneFacts
<1>5. session[s].busy = {}
  <2>1. ~session[s].on
    BY <1>2, <1>3, <1>4 DEF AloneOK
  <2>2. op[o].started => session[s].busy = {}
    BY <1>3 DEF StopDrain, OffAndDrained, Drained
  <2> QED
    BY <1>2, <1>4, <2>1, <2>2 DEF Switching
<1>6. session' = [session EXCEPT ![s].waiting = {}] /\ To(o, "stopBackend")
  BY <1>3 DEF StopDrain
<1>7. /\ session'[s].waiting = {} /\ session'[s].busy = {}
      /\ \A t \in Sessions \ {s} : session'[t] = session[t]
  BY <1>1, <1>5, <1>6 DEF SessionState
<1>8. Step(o, "stopBackend", s)
  BY <1>1, <1>3, <1>6, MovedTo DEF Step
<1>9. AloneOK(o)'
  BY <1>2, <1>3, <1>4, <1>7, <1>8 DEF AloneOK, Detached, Step, Quiet
<1>10. \A t \in Sessions : t # cached' /\ op'[o].s # t => Quiet(t)'
  BY <1>2, <1>3, <1>4, <1>7, <1>8 DEF Quiet, Step
<1>11. \A t \in Sessions : session'[t].on \/ session'[t].busy = {}
  BY <1>4, <1>7
<1>12. StoppedOK(o)'
  BY <1>8 DEF StoppedOK, Running, Step
<1> QED
  BY <1>1, <1>2, <1>9, <1>10, <1>11, <1>12, OthersStay, AloneStep

\* The steps that follow leave a quiet session quiet, whether they switch it
\* on again or not.
LEMMA QuietAlone ==
    ASSUME SupervisorInv, SequentialInv, ~overlap, NEW o \in Calls, Operation(o), Running(o),
           Histories, UNCHANGED cached, op[o].pc \in {"stopBackend", "stopStore", "quiesce"},
           NEW pc \in {"stopStore", "quiesce", "pull", "done"}, NEW t \in {op[o].s, None},
           Step(o, pc, t), t = None <=> pc = "done", pc = "quiesce" => op[o].kind = "stop",
           pc = "pull" => op[o].kind = "restore",
           session'[op[o].s].waiting = {} /\ session'[op[o].s].busy = {},
           \A s \in Sessions \ {op[o].s} : session'[s] = session[s],
           crashes = 0 => StoppedOK(o)'
    PROVE  SequentialInv'
<1> USE SupervisorAssumption
<1>1. /\ op \in [Calls -> OperationState] /\ FlowOK(o) /\ HandOK(o)
  BY DEF SupervisorInv, OperationInv, SupervisorTypeOK
<1>2. PICK s \in Sessions : s = op[o].s
  BY <1>1 DEF HandOK, Holds
<1>3. /\ AloneOK(o)
      /\ \A r \in Sessions : r # cached /\ op[o].s # r => Quiet(r)
      /\ \A r \in Sessions : ~session[r].on /\ session[r].busy # {} => Switching(o)
  BY AloneFacts
<1>4. /\ session'[s].waiting = {} /\ session'[s].busy = {}
      /\ \A r \in Sessions \ {s} : session'[r] = session[r]
  BY <1>2
<1>5. AloneOK(o)'
  <2>1. CASE pc = "done"
    BY <2>1 DEF AloneOK, Step
  <2>2. CASE pc # "done"
    <3>1. op'[o].pc = pc /\ op'[o].s = s /\ op'[o].kind = op[o].kind
      BY <1>2, <2>2 DEF Step
    <3>2. cached \in {s, None} /\ (~Detached(o) => cached = s)
      BY <1>2, <1>3 DEF AloneOK
    <3>3. Detached(o)' \/ ~Detached(o)
      BY <3>1, <2>2 DEF Detached
    <3> QED
      BY <1>4, <2>2, <3>1, <3>2, <3>3 DEF AloneOK, Quiet
  <2> QED
    BY <2>1, <2>2
<1>6. \A r \in Sessions : r # cached' /\ op'[o].s # r => Quiet(r)'
  BY <1>2, <1>3, <1>4 DEF Quiet
<1>7. \A r \in Sessions : session'[r].on \/ session'[r].busy = {}
  BY <1>3, <1>4 DEF Switching
<1> QED
  BY <1>1, <1>5, <1>6, <1>7, OthersStay, AloneStep

\* What is stored for a session that stopped says so.
LEMMA StoppedStored ==
    ASSUME store \in Record, NEW r \in Record, UpdateScroll(Stopped(r))
    PROVE  store' # Absent /\ store'.status = "stopped"
<1>1. Stopped(r) \in Record /\ Stopped(r).status = "stopped"
  <2>1. Stopped(r) \in Record
    BY StoppedType
  <2>2. WithStatus(r, "stopped") \in Record /\ WithStatus(r, "stopped").status = "stopped"
    BY WithStatusType DEF ScrollStatuses, WithStatus, Record
  <2> QED
    BY <2>1, <2>2 DEF Stopped, Record
<1>2. store # Absent /\ store' = Merged(Stopped(r))
  BY RecordThere DEF UpdateScroll
<1>3. PICK q \in Record : q = Stopped(r) /\ q.status = "stopped"
  BY <1>1
<1>4. Merged(q) \in Record
  BY <1>3, MergedType
<1>5. Merged(q).status = "stopped"
  BY <1>3 DEF Merged, Record
<1> QED
  BY <1>2, <1>3, <1>4, <1>5, RecordThere

LEMMA StopBackendAlone ==
    ASSUME SupervisorInv, SequentialInv, ~overlap, NEW o \in Calls, Operation(o), StopBackend(o)
    PROVE  SequentialInv'
<1>1. /\ op \in [Calls -> OperationState] /\ session \in [Sessions -> SessionState]
      /\ FlowOK(o) /\ HandOK(o)
  BY DEF SupervisorInv, OperationInv, SupervisorTypeOK
<1>2. Running(o) /\ Histories /\ op[o].pc = "stopBackend" /\ UNCHANGED cached
  BY DEF StopBackend, Running
<1>3. PICK s \in Sessions : s = op[o].s
  BY <1>1, <1>2 DEF HandOK, Holds
<1>4. session[s].waiting = {} /\ session[s].busy = {}
  BY <1>2, <1>3, AloneFacts DEF AloneOK, Quiet
<1>5. CASE To(o, "stopStore") /\ UNCHANGED session
  <2>1. Step(o, "stopStore", op[o].s)
    BY <1>1, <1>5, MovedTo DEF Step
  <2>2. StoppedOK(o)'
    BY <2>1 DEF StoppedOK, Running, Step
  <2> QED
    BY <1>2, <1>3, <1>4, <1>5, <2>1, <2>2, QuietAlone, SupervisorAssumption
<1>6. CASE /\ session' = [session EXCEPT ![s].on = @ \/ op[o].started,
                              ![s].rec = Merged(WithStatus(session[s].rec, "error"))]
           /\ Return(o, FALSE)
  <2>1. Step(o, "done", None) /\ op'[o].ok = FALSE
    BY <1>1, <1>6, Returned DEF Step
  <2>2. StoppedOK(o)'
    BY <2>1 DEF StoppedOK, Step
  <2>3. /\ session'[s].waiting = {} /\ session'[s].busy = {}
        /\ \A t \in Sessions \ {s} : session'[t] = session[t]
    BY <1>1, <1>4, <1>6 DEF SessionState
  <2> QED
    BY <1>2, <1>3, <2>1, <2>2, <2>3, QuietAlone
<1> QED
  BY <1>3, <1>5, <1>6 DEF StopBackend

\* The stop of a scroll that is there is stored; its session has left the map.
LEMMA StopStoreAlone ==
    ASSUME SupervisorInv, SequentialInv, ~overlap, NEW o \in Calls, Operation(o), StopStore(o)
    PROVE  SequentialInv'
<1> USE SupervisorAssumption
<1>1. /\ op \in [Calls -> OperationState] /\ session \in [Sessions -> SessionState]
      /\ store \in Record \cup {Absent} /\ OperationInv
      /\ FlowOK(o) /\ HandOK(o)
  BY DEF SupervisorInv, OperationInv, SupervisorTypeOK
<1>2. Running(o) /\ Histories /\ op[o].pc = "stopStore" /\ UNCHANGED cached
      /\ op[o].kind \in {"stop", "restore"}
  BY <1>1 DEF StopStore, Running, FlowOK
<1>3. PICK s \in Sessions : s = op[o].s
  BY <1>1, <1>2 DEF HandOK, Holds
<1>4. session[s].waiting = {} /\ session[s].busy = {} /\ cached \in {s, None}
  BY <1>2, <1>3, AloneFacts DEF AloneOK, Quiet
<1>5. CASE /\ store # Absent
           /\ UpdateScroll(Stopped(session[s].rec))
           /\ session' = [session EXCEPT ![s].rec = Merged(Stopped(session[s].rec)),
                                         ![s].on = @ \/ op[o].started]
           /\ To(o, IF op[o].kind = "stop" THEN "quiesce" ELSE "pull")
  <2>1. PICK pc \in {"quiesce", "pull"} : pc = IF op[o].kind = "stop" THEN "quiesce" ELSE "pull"
    OBVIOUS
  <2>2. Step(o, pc, op[o].s)
    BY <1>1, <1>5, <2>1, MovedTo DEF Step
  <2>3. StoppedOK(o)'
    <3>1. CASE op[o].kind = "stop"
      <4>1. cached = None
        BY <1>1, <1>2, <1>3, <1>4, <3>1 DEF OperationInv, SessionOK, Detached
      <4>2. session[s].rec \in Record
        BY <1>1, <1>2, <1>3 DEF OperationInv, SessionOK
      <4> QED
        BY <1>1, <1>2, <1>5, <4>1, <4>2, StoppedStored DEF StoppedOK
    <3>2. CASE op[o].kind # "stop"
      BY <2>2, <3>2 DEF StoppedOK, Step
    <3> QED
      BY <3>1, <3>2
  <2>4. /\ session'[s].waiting = {} /\ session'[s].busy = {}
        /\ \A t \in Sessions \ {s} : session'[t] = session[t]
    BY <1>1, <1>4, <1>5 DEF SessionState
  <2> QED
    BY <1>2, <1>3, <2>1, <2>2, <2>3, <2>4, QuietAlone
<1>6. CASE /\ WriteRecord(s, WithStatus(Stopped(session[s].rec), "error"))
           /\ Return(o, FALSE)
  <2>1. Step(o, "done", None) /\ op'[o].ok = FALSE
    BY <1>1, <1>6, Returned DEF Step
  <2>2. StoppedOK(o)'
    BY <2>1 DEF StoppedOK, Step
  <2>3. /\ session'[s].waiting = {} /\ session'[s].busy = {}
        /\ \A t \in Sessions \ {s} : session'[t] = session[t]
    BY <1>1, <1>4, <1>6, Written
  <2> QED
    BY <1>2, <1>3, <2>1, <2>2, <2>3, QuietAlone
<1> QED
  BY <1>3, <1>5, <1>6 DEF StopStore

\* Stop returns when its session is off for good.
LEMMA QuiesceAlone ==
    ASSUME SupervisorInv, SequentialInv, ~overlap, NEW o \in Calls, Operation(o), Quiesce(o),
           ~DrainTimesOut
    PROVE  SequentialInv'
<1>1. /\ op \in [Calls -> OperationState] /\ session \in [Sessions -> SessionState]
      /\ HandOK(o)
  BY DEF SupervisorInv, OperationInv, SupervisorTypeOK
<1>2. Running(o) /\ Histories /\ op[o].pc = "quiesce" /\ UNCHANGED <<cached, store>>
  BY DEF Quiesce, Running, Succeed
<1>3. op[o].s \in Sessions
  BY <1>1, <1>2 DEF HandOK, Holds
<1>4. crashes = 0 => StoppedOK(o)
  BY <1>2, AloneFacts
<1>5. Step(o, "done", None)
  BY <1>1, Returned DEF Quiesce, Step
<1>6. crashes = 0 => StoppedOK(o)'
  BY <1>2, <1>4, <1>5 DEF StoppedOK, Step
<1>7. /\ session'[op[o].s].waiting = {} /\ session'[op[o].s].busy = {}
      /\ \A t \in Sessions \ {op[o].s} : session'[t] = session[t]
  BY <1>1, <1>3, SwitchedOffQuiet DEF Quiesce
<1> QED
  BY <1>2, <1>5, <1>6, <1>7, QuietAlone

\* A restore switches its session on again once what ran in it is drained.
LEMMA ApplyRestoreAlone ==
    ASSUME SupervisorInv, SequentialInv, ~overlap, NEW o \in Calls, Operation(o), ApplyRestore(o),
           ~DrainTimesOut
    PROVE  SequentialInv'
<1> USE SupervisorAssumption
<1>1. /\ op \in [Calls -> OperationState] /\ session \in [Sessions -> SessionState]
      /\ FlowOK(o) /\ HandOK(o)
  BY DEF SupervisorInv, OperationInv, SupervisorTypeOK
<1>2. Running(o) /\ Histories /\ op[o].pc = "restored" /\ UNCHANGED cached
      /\ op[o].kind # "stop"
  BY <1>1 DEF ApplyRestore, Running, FlowOK
<1>3. PICK s \in Sessions : s = op[o].s
  BY <1>1, <1>2 DEF HandOK, Holds
<1>4. /\ AloneOK(o)
      /\ \A t \in Sessions : t # cached /\ op[o].s # t => Quiet(t)
      /\ \A t \in Sessions : ~session[t].on /\ session[t].busy # {} => s = t /\ Switching(o)
  BY <1>2, <1>3, AloneFacts
<1>5. session[s].busy = {} /\ cached = s
  <2>1. ~session[s].on /\ cached = s
    BY <1>2, <1>3, <1>4 DEF AloneOK, Detached
  <2>2. op[o].started => session[s].busy = {}
    BY <1>3 DEF ApplyRestore, OffAndDrained, Drained
  <2> QED
    BY <1>2, <1>4, <2>1, <2>2 DEF Switching
<1>6. /\ session'[s].busy = {}
      /\ \A t \in Sessions \ {s} : session'[t] = session[t]
      /\ op'[o].pc \in {"find", "done"} /\ op'[o].kind = op[o].kind /\ op'[o].s = None
  <2> DEFINE r == [Materialized(o, session[s].rec) EXCEPT
                      !.procs["serve"] = session[s].rec.procs["serve"], !.status = "stopped"]
             x == [session[s] EXCEPT !.rec = Merged(r),
                      !.waiting = IF op[o].started THEN {} ELSE @, !.on = @ \/ op[o].started]
  <2>1. \/ session' = [session EXCEPT ![s] = x] /\ StartOrReturn(o)
        \/ WriteRecord(s, WithStatus(r, "error")) /\ Return(o, FALSE)
    BY <1>3 DEF ApplyRestore
  <2>2. x.busy = {}
    BY <1>1, <1>5 DEF SessionState
  <2> HIDE DEF x, r
  <2>3. CASE session' = [session EXCEPT ![s] = x] /\ StartOrReturn(o)
    BY <1>1, <2>2, <2>3, MovedTo
  <2>4. CASE WriteRecord(s, WithStatus(r, "error")) /\ Return(o, FALSE)
    BY <1>1, <1>5, <2>4, Written, Returned
  <2> QED
    BY <2>1, <2>3, <2>4
<1>7. AloneOK(o)'
  BY <1>6 DEF AloneOK
<1>8. \A t \in Sessions : t # cached' /\ op'[o].s # t => Quiet(t)'
  BY <1>2, <1>3, <1>4, <1>5, <1>6 DEF Quiet
<1>9. \A t \in Sessions : session'[t].on \/ session'[t].busy = {}
  BY <1>4, <1>6
<1>10. StoppedOK(o)'
  BY <1>2, <1>6 DEF StoppedOK
<1> QED
  BY <1>1, <1>2, <1>7, <1>8, <1>9, <1>10, OthersStay, AloneStep
-----------------------------------------------------------------------------
(* The steps of the sessions and of the daemon                             *)

\* A session that starts a command, or ends one, is not quiet.
LEMMA SessionsAlone ==
    ASSUME SupervisorInv, SequentialInv, NEW s \in Sessions, NEW c \in Commands,
           SessionRun(s, c) \/ SessionEnd(s, c)
    PROVE  SequentialInv'
<1> USE SupervisorAssumption
<1>1. /\ session \in [Sessions -> SessionState] /\ up \in BOOLEAN
      /\ \A p \in Calls : HandOK(p)
      /\ last \in Calls \cup {None}
  BY DEF SupervisorInv, OperationInv, SupervisorTypeOK
<1>2. UNCHANGED <<cached, op, up, last, overlap, crashes>>
  BY DEF SessionRun, SessionEnd, Histories
<1>3. session[s].waiting # {} \/ session[s].busy # {}
  BY DEF SessionRun, SessionEnd
<1>4. /\ session'[s].on = session[s].on
      /\ session[s].on \/ session[s].busy # {}
      /\ \A t \in Sessions \ {s} : session'[t] = session[t]
  <2>1. \A r, W, B : Write(s, r, W, B) =>
                 /\ session'[s].on = session[s].on
                 /\ \A t \in Sessions \ {s} : session'[t] = session[t]
    BY <1>1, Written
  <2>2. session' = [session EXCEPT ![s].waiting = session[s].waiting \ {c}] =>
                 /\ session'[s].on = session[s].on
                 /\ \A t \in Sessions \ {s} : session'[t] = session[t]
    BY <1>1 DEF SessionState
  <2>3. CASE SessionRun(s, c)
    BY <2>1, <2>2, <2>3 DEF SessionRun
  <2>4. CASE SessionEnd(s, c)
    BY <2>1, <2>4 DEF SessionEnd
  <2> QED
    BY <2>3, <2>4
<1>5. up
  BY <1>1, <1>3 DEF SequentialInv, DownOK, NoSession
<1>6. DownOK'
  BY <1>2, <1>5 DEF DownOK
<1>7. CASE overlap
  BY <1>2, <1>6, <1>7 DEF SequentialInv
<1>8. CASE ~overlap
  <2>1. ~Quiet(s)
    BY <1>3 DEF Quiet
  <2>2. \A t \in Sessions : Quiet(t) => session'[t] = session[t]
    BY <1>4, <2>1
  <2>3. \A p \in Calls : Running(p)' => last' = p /\ AloneOK(p)'
    <3>1. ASSUME NEW p \in Calls, Running(p) PROVE AloneOK(p)'
      <4>1. AloneOK(p) /\ HandOK(p)
        BY <1>1, <1>8, <3>1 DEF SequentialInv
      <4>2. op'[p] = op[p] /\ cached' = cached /\ (Detached(p)' <=> Detached(p))
        BY <1>2 DEF Detached
      <4>3. op[p].pc \in {"cache", "stopBackend", "stopStore", "quiesce"} => Quiet(op[p].s)'
        BY <1>2, <2>2, <4>1 DEF AloneOK, HandOK, Holds, Quiet
      <4>4. op[p].pc \in {"drain", "stopDrain", "restored"} => ~session'[op[p].s].on
        BY <1>4, <4>1 DEF AloneOK, HandOK, Holds
      <4> QED
        BY <4>1, <4>2, <4>3, <4>4 DEF AloneOK
    <3> QED
      BY <1>2, <1>8, <3>1 DEF SequentialInv, Running
  <2>4. UnreachedOK'
    BY <1>2, <1>8, <2>2 DEF SequentialInv, UnreachedOK, Quiet
  <2>5. OffOK'
    <3>1. ASSUME NEW t \in Sessions, ~session'[t].on, session'[t].busy # {}
          PROVE  \E o \in Calls : op[o].s = t /\ Switching(o)
      <4>1. ~session[t].on /\ session[t].busy # {}
        BY <1>4, <3>1
      <4> QED
        BY <1>8, <4>1 DEF SequentialInv, OffOK
    <3> QED
      BY <1>2, <3>1 DEF OffOK, Switching
  <2>6. crashes = 0 /\ last # None => StoppedOK(last)'
    <3>1. SUFFICES ASSUME crashes = 0, last # None PROVE StoppedOK(last)'
      OBVIOUS
    <3>2. last \in Calls /\ StoppedOK(last)
      BY <1>1, <1>8, <3>1 DEF SequentialInv
    <3>3. CASE /\ op[last].kind = "stop"
               /\ op[last].pc = "quiesce" \/ (~Running(last) /\ op[last].ok)
      <4>1. cached = None
        BY <3>2, <3>3 DEF StoppedOK
      <4>2. \A p \in Calls \ {last} : op[p].s = None
        BY <1>1, <1>8 DEF SequentialInv, HandOK
      <4>3. op[last].s = s => Quiet(s)
        <5>1. CASE op[last].pc = "quiesce"
          BY <1>8, <3>2, <5>1 DEF SequentialInv, AloneOK, Running
        <5>2. CASE ~Running(last)
          BY <1>1, <3>2, <5>2 DEF HandOK
        <5> QED
          BY <3>3, <5>1, <5>2
      <4>4. Quiet(s)
        BY <1>8, <4>1, <4>2, <4>3 DEF SequentialInv, UnreachedOK
      <4> QED
        BY <2>1, <4>4
    <3>4. CASE ~(/\ op[last].kind = "stop"
                 /\ op[last].pc = "quiesce" \/ (~Running(last) /\ op[last].ok))
      BY <1>2, <3>4 DEF StoppedOK, Running
    <3> QED
      BY <3>3, <3>4
  <2>7. crashes' = 0 /\ last' # None => StoppedOK(last)'
    BY <1>2, <2>6
  <2> QED
    BY <1>6, <2>3, <2>4, <2>5, <2>7 DEF SequentialInv
<1> QED
  BY <1>7, <1>8

LEMMA CrashAlone ==
    ASSUME SupervisorInv, SequentialInv, Crash
    PROVE  SequentialInv'
<1>1. op \in [Calls -> OperationState] /\ crashes \in Nat
  BY SupervisorAssumption DEF SupervisorInv, OperationInv, SupervisorTypeOK
<1>2. ~up' /\ cached' = None /\ crashes' = crashes + 1
      /\ \A s \in Sessions : session'[s] = NoSession
  BY DEF Crash
<1>3. \A o \in Calls : ~Running(o)'
  <2>1. ASSUME NEW o \in Calls PROVE ~Running(o)'
    <3>1. CASE ~Running(o)
      BY <1>1, <3>1 DEF Crash, Running
    <3>2. CASE Running(o)
      <4> DEFINE x == [op[o] EXCEPT !.pc = "done", !.ok = FALSE, !.rec = Absent,
                         !.fresh = Absent, !.s = None, !.then = "none", !.started = FALSE,
                         !.restart = FALSE]
      <4>1. op[o] \in OperationState
        BY <1>1
      <4>2. x.pc = "done"
        BY <4>1 DEF OperationState
      <4>3. op'[o] = x
        BY <3>2 DEF Crash
      <4> HIDE DEF x
      <4> QED
        BY <4>2, <4>3 DEF Running
    <3> QED
      BY <3>1, <3>2
  <2> QED
    BY <2>1
<1>4. DownOK'
  BY <1>1, <1>2, <1>3 DEF DownOK, Idle
<1>5. UnreachedOK' /\ OffOK'
  BY <1>2 DEF UnreachedOK, OffOK, Quiet, NoSession
<1> QED
  BY <1>1, <1>2, <1>3, <1>4, <1>5 DEF SequentialInv

\* The session a boot resumes goes into the map.
LEMMA BootAlone ==
    ASSUME SupervisorInv, SequentialInv, Boot
    PROVE  SequentialInv'
<1> USE SupervisorAssumption
<1>1. /\ op \in [Calls -> OperationState] /\ session \in [Sessions -> SessionState]
      /\ \A p \in Calls : HandOK(p)
  BY DEF SupervisorInv, OperationInv, SupervisorTypeOK
<1>2. up' /\ ~up /\ UNCHANGED <<op, last, overlap, crashes>>
  BY DEF Boot
<1>3. /\ cached = None /\ \A s \in Sessions : session[s] = NoSession
      /\ \A p \in Calls : ~Running(p)
      /\ crashes = 0 => last = None
  BY <1>2 DEF SequentialInv, DownOK, Idle
<1>4. /\ \A s \in Sessions : s # cached' => session'[s] = NoSession
      /\ \A s \in Sessions : session'[s].busy = {}
  <2>1. CASE UNCHANGED <<cached, session>>
    <3>1. NoSession.busy = {}
      BY DEF NoSession
    <3> QED
      BY <1>3, <2>1, <3>1
  <2>2. CASE \E s \in Sessions : cached' = s /\ \E r, W :
               session' = [session EXCEPT ![s] =
                              [on |-> TRUE, rec |-> r, waiting |-> W, busy |-> {}]]
    BY <1>1, <1>3, <2>2 DEF NoSession
  <2> QED
    BY <2>1, <2>2 DEF Boot
<1>5. DownOK'
  BY <1>2 DEF DownOK
<1>6. UnreachedOK' /\ OffOK'
  BY <1>4 DEF UnreachedOK, OffOK, Quiet, NoSession
<1>7. \A p \in Calls : ~Running(p)'
  BY <1>2, <1>3 DEF Running
<1> QED
  BY <1>2, <1>3, <1>5, <1>6, <1>7 DEF SequentialInv
-----------------------------------------------------------------------------
(* Every step                                                              *)

LEMMA OperationsAlone ==
    ASSUME SupervisorInv, SequentialInv, NEW o \in Calls, Operation(o), ~DrainTimesOut
    PROVE  SequentialInv'
<1>1. CASE Begin(o)
  BY <1>1, BeginAlone
<1>2. CASE UNCHANGED supervisorVars
  BY <1>2 DEF supervisorVars, SequentialInv, DownOK, UnreachedOK, OffOK, AloneOK, StoppedOK, Idle,
              Running, Quiet, Switching, Detached
<1>3. CASE overlap /\ ~Begin(o) /\ ~PullBegin(o)
  <2>1. Histories
    BY <1>3 DEF Operation, Find, Make, Cache, Uncache, Lookup, Insert, Detach, Drain, BackendStop,
       PullFailed, Apply, Remove, Forget, StopBegin, StopDrain, StopBackend, StopStore, Quiesce,
       RestoreBegin, ApplyRestore, Serve, FinishStart, Run, Await, UILookup, UIAdd, UIQueue,
       UIAwait, UIRead, UIStore, UIRemove, UIRemoved
  <2>2. Running(o)
    BY <1>3 DEF Operation, Find, Make, Cache, Uncache, Lookup, Insert, Detach, Drain, BackendStop,
       PullFailed, Apply, Remove, Forget, StopBegin, StopDrain, StopBackend, StopStore, Quiesce,
       RestoreBegin, ApplyRestore, Serve, FinishStart, Run, Await, UILookup, UIAdd, UIQueue,
       UIAwait, UIRead, UIStore, UIRemove, UIRemoved, PullEnded, Running
  <2>3. up \in BOOLEAN
    BY DEF SupervisorInv, OperationInv, SupervisorTypeOK
  <2>4. up /\ up' = up /\ overlap' = overlap
    BY <2>1, <2>2, <2>3 DEF SequentialInv, DownOK, Idle, Histories
  <2> QED
    BY <1>3, <2>4 DEF SequentialInv, DownOK
<1>4. CASE ~overlap /\ ~Begin(o) /\ ~PullBegin(o)
  BY <1>4, GoingOn, FindAlone, MakeAlone, CacheAlone, UncacheAlone, DetachAlone, DrainAlone,
     StopBeginAlone, StopDrainAlone, StopBackendAlone, StopStoreAlone, QuiesceAlone,
     RestoreBeginAlone, ApplyRestoreAlone DEF Operation
<1> QED
  BY <1>1, <1>2, <1>3, <1>4 DEF PullBegin

LEMMA SequentialInvariance ==
    ASSUME ~DrainTimesOut
    PROVE  SupervisorSpec => [](SupervisorInv /\ SequentialInv)
<1>1. SupervisorInit => SequentialInv
  <2> SUFFICES ASSUME SupervisorInit PROVE SequentialInv
    OBVIOUS
  <2>1. \A o \in Calls : ~Running(o)
    BY DEF SupervisorInit, Running
  <2>2. /\ cached = None /\ last = None /\ ~overlap
        /\ \A s \in Sessions : session[s] = NoSession
    BY DEF SupervisorInit
  <2>3. NoSession.waiting = {} /\ NoSession.busy = {}
    BY DEF NoSession
  <2>4. DownOK /\ UnreachedOK /\ OffOK
    BY <2>1, <2>2, <2>3 DEF DownOK, Idle, UnreachedOK, OffOK, Quiet
  <2> QED
    BY <2>1, <2>2, <2>4 DEF SequentialInv
<1>2. SupervisorInv /\ SequentialInv /\ [SupervisorNext]_allVars => SequentialInv'
  <2> SUFFICES ASSUME SupervisorInv, SequentialInv, [SupervisorNext]_allVars
               PROVE  SequentialInv'
    OBVIOUS
  <2>1. CASE \E o \in Calls : Operation(o)
    BY <2>1, OperationsAlone
  <2>2. CASE UNCHANGED supervisorVars
    BY <2>2 DEF supervisorVars, SequentialInv, DownOK, UnreachedOK, OffOK, AloneOK, StoppedOK, Idle,
                Running, Quiet, Switching, Detached
  <2>3. CASE \E s \in Sessions, c \in Commands : SessionRun(s, c) \/ SessionEnd(s, c)
    BY <2>3, SessionsAlone
  <2>4. CASE Crash \/ Boot
    BY <2>4, CrashAlone, BootAlone
  <2> QED
    BY <2>1, <2>2, <2>3, <2>4 DEF SupervisorNext, allVars
<1> QED
  BY <1>1, <1>2, SupervisorInvariance, PTL DEF SupervisorSpec

\* While operations do not overlap, one session at most has commands running,
\* and once the last one has returned nothing waits or runs outside of the
\* session in the map: no update, restore, stop or crash leaves a scheduler
\* behind.
THEOREM OneSchedulerSafe ==
    ASSUME ~DrainTimesOut
    PROVE  SupervisorSpec => []OneScheduler
<1>1. SupervisorInv /\ SequentialInv => OneScheduler
  <2> SUFFICES ASSUME SupervisorInv, SequentialInv, ~overlap PROVE OneScheduler
    BY DEF OneScheduler
  <2> USE SupervisorAssumption
  <2>1. \A p \in Calls : HandOK(p)
    BY DEF SupervisorInv, OperationInv
  <2>2. ASSUME NEW s \in Sessions, NEW t \in Sessions, session[s].busy # {}, session[t].busy # {}
        PROVE  s = t
    <3>1. CASE \E o \in Calls : Running(o)
      <4>1. PICK o \in Calls : Running(o)
        BY <3>1
      <4>2. AloneOK(o) /\ \A r \in Sessions : r # cached /\ op[o].s # r => Quiet(r)
        BY <4>1, AloneFacts
      <4> QED
        BY <2>2, <4>2 DEF AloneOK, Quiet
    <3>2. CASE \A o \in Calls : ~Running(o)
      BY <2>1, <2>2, <3>2 DEF SequentialInv, UnreachedOK, HandOK, Quiet
    <3> QED
      BY <3>1, <3>2
  <2>3. ASSUME Idle, NEW s \in Sessions \ {cached}
        PROVE  session[s].waiting \cup session[s].busy = {}
    BY <2>1, <2>3 DEF SequentialInv, UnreachedOK, HandOK, Quiet, Idle
  <2> QED
    BY <2>2, <2>3 DEF OneScheduler
<1> QED
  BY <1>1, SequentialInvariance, PTL

\* A stop that succeeded lasts: until the next operation begins or the daemon
\* crashes, the scroll is stored as stopped and nothing runs.
THEOREM StopLastsSafe ==
    ASSUME ~DrainTimesOut
    PROVE  SupervisorSpec => []StopLasts
<1>1. SupervisorInv /\ SequentialInv => StopLasts
  <2> SUFFICES ASSUME SupervisorInv, SequentialInv, Sequential, op[last].kind = "stop",
                      op[last].ok, crashes = 0
               PROVE  /\ store # Absent /\ store.status = "stopped"
                      /\ \A s \in Sessions : session[s].busy = {}
    BY DEF StopLasts
  <2> USE SupervisorAssumption
  <2>1. /\ last \in Calls /\ \A p \in Calls : HandOK(p)
    BY DEF SupervisorInv, OperationInv, SupervisorTypeOK, Sequential
  <2>2. StoppedOK(last) /\ \A p \in Calls : ~Running(p) /\ op[p].s = None
    BY <2>1 DEF SequentialInv, Sequential, Idle, HandOK
  <2>3. cached = None /\ store # Absent /\ store.status = "stopped"
    BY <2>1, <2>2 DEF StoppedOK
  <2> QED
    BY <2>2, <2>3 DEF SequentialInv, Sequential, UnreachedOK, Quiet
<1> QED
  BY <1>1, SequentialInvariance, PTL
-----------------------------------------------------------------------------
(* The root and the record                                                 *)


\* Operation o gets to the step pc, with the session s and the record r.
Goes(o, pc, s, r) ==
    /\ op'[o].pc = pc /\ op'[o].s = s /\ op'[o].rec = r
    /\ op'[o].kind = op[o].kind /\ op'[o].artifact = op[o].artifact

LEMMA GoesTo ==
    ASSUME op \in [Calls -> OperationState], NEW o \in Calls
    PROVE  /\ \A ok : Return(o, ok) =>
                 /\ Goes(o, "done", None, Absent)
                 /\ op'[o].ok = ok
           /\ \A pc : To(o, pc) =>
                 /\ Goes(o, pc, op[o].s, op[o].rec)
                 /\ op'[o].then = op[o].then
                 /\ op'[o].fresh = op[o].fresh
                 /\ op'[o].ok = op[o].ok
           /\ \A pc : GetSession(o, pc) =>
                 /\ Goes(o, "find", None, op[o].rec)
                 /\ op'[o].then = pc
                 /\ op'[o].ok = op[o].ok
           /\ \A pc : SwitchOff(o, pc) =>
                 /\ Goes(o, pc, op[o].s, op[o].rec)
                 /\ op'[o].ok = op[o].ok
           /\ StartOrReturn(o) =>
                 \/ Goes(o, "find", None, Absent) /\ op'[o].then = "serve" /\ op'[o].ok = op[o].ok
                 \/ Goes(o, "done", None, Absent) /\ op'[o].ok = TRUE
<1>1. op[o] \in OperationState
  OBVIOUS
<1>2. ASSUME NEW ok, Return(o, ok)
      PROVE  /\ Goes(o, "done", None, Absent)
             /\ op'[o].ok = ok
  <2> DEFINE x == [op[o] EXCEPT !.pc = "done", !.ok = ok, !.rec = Absent, !.fresh = Absent,
                               !.s = None, !.then = "none", !.started = FALSE, !.restart = FALSE]
  <2>1. /\ x.pc = "done" /\ x.s = None /\ x.rec = Absent /\ x.kind = op[o].kind
        /\ x.artifact = op[o].artifact
        /\ x.ok = ok
    BY <1>1 DEF OperationState
  <2>2. op' = [op EXCEPT ![o] = x]
    BY <1>2 DEF Return
  <2> HIDE DEF x
  <2> QED
    BY <2>1, <2>2 DEF Goes
<1>3. ASSUME NEW pc, To(o, pc)
      PROVE  /\ Goes(o, pc, op[o].s, op[o].rec)
             /\ op'[o].then = op[o].then /\ op'[o].fresh = op[o].fresh /\ op'[o].ok = op[o].ok
  <2> DEFINE x == [op[o] EXCEPT !.pc = pc]
  <2>1. /\ x.pc = pc /\ x.s = op[o].s /\ x.rec = op[o].rec /\ x.kind = op[o].kind
        /\ x.artifact = op[o].artifact
        /\ x.then = op[o].then /\ x.fresh = op[o].fresh /\ x.ok = op[o].ok
    BY <1>1 DEF OperationState
  <2>2. op' = [op EXCEPT ![o] = x]
    BY <1>3 DEF To
  <2> HIDE DEF x
  <2> QED
    BY <2>1, <2>2 DEF Goes
<1>4. ASSUME NEW pc, GetSession(o, pc)
      PROVE  /\ Goes(o, "find", None, op[o].rec)
             /\ op'[o].then = pc /\ op'[o].ok = op[o].ok
  <2> DEFINE x == [op[o] EXCEPT !.pc = "find", !.then = pc, !.s = None]
  <2>1. /\ x.pc = "find" /\ x.s = None /\ x.rec = op[o].rec /\ x.kind = op[o].kind
        /\ x.artifact = op[o].artifact
        /\ x.then = pc /\ x.ok = op[o].ok
    BY <1>1 DEF OperationState
  <2>2. op' = [op EXCEPT ![o] = x]
    BY <1>4 DEF GetSession
  <2> HIDE DEF x
  <2> QED
    BY <2>1, <2>2 DEF Goes
<1>5. ASSUME NEW pc, SwitchOff(o, pc)
      PROVE  /\ Goes(o, pc, op[o].s, op[o].rec)
             /\ op'[o].ok = op[o].ok
  <2> DEFINE x == [op[o] EXCEPT !.pc = pc, !.started = session[op[o].s].on]
  <2>1. /\ x.pc = pc /\ x.s = op[o].s /\ x.rec = op[o].rec /\ x.kind = op[o].kind
        /\ x.artifact = op[o].artifact
        /\ x.ok = op[o].ok
    BY <1>1 DEF OperationState
  <2>2. op' = [op EXCEPT ![o] = x]
    BY <1>5 DEF SwitchOff
  <2> HIDE DEF x
  <2> QED
    BY <2>1, <2>2 DEF Goes
<1>6. ASSUME StartOrReturn(o)
      PROVE  \/ Goes(o, "find", None, Absent) /\ op'[o].then = "serve" /\ op'[o].ok = op[o].ok
             \/ Goes(o, "done", None, Absent) /\ op'[o].ok = TRUE
  <2> DEFINE x == [op[o] EXCEPT !.pc = "find", !.then = "serve", !.restart = FALSE,
                                !.rec = Absent, !.fresh = Absent, !.s = None]
  <2>1. /\ x.pc = "find" /\ x.s = None /\ x.rec = Absent /\ x.kind = op[o].kind
        /\ x.artifact = op[o].artifact /\ x.then = "serve" /\ x.ok = op[o].ok
    BY <1>1 DEF OperationState
  <2>2. op' = [op EXCEPT ![o] = x] \/ Return(o, TRUE)
    BY <1>6 DEF StartOrReturn
  <2> HIDE DEF x
  <2>3. CASE op' = [op EXCEPT ![o] = x]
    <3>1. op'[o] = x
      BY <2>3
    <3>2. Goes(o, "find", None, Absent)
      BY <2>1, <3>1 DEF Goes
    <3> QED
      BY <2>1, <3>1, <3>2
  <2>4. CASE Return(o, TRUE)
    BY <1>2, <2>4
  <2> QED
    BY <2>2, <2>3, <2>4
<1> QED
  BY <1>2, <1>3, <1>4, <1>5, <1>6

LEMMA GoesWith ==
    ASSUME op \in [Calls -> OperationState], NEW o \in Calls
    PROVE  /\ \A pc, r : op' = [op EXCEPT ![o].pc = pc, ![o].rec = r] =>
                 /\ Goes(o, pc, op[o].s, r)
                 /\ op'[o].then = op[o].then
                 /\ op'[o].ok = op[o].ok
           /\ \A pc, b, r : op' = [op EXCEPT ![o].pc = pc, ![o].restart = b, ![o].rec = r] =>
                 /\ Goes(o, pc, op[o].s, r)
                 /\ op'[o].ok = op[o].ok
           /\ \A pc, t, r : op' = [op EXCEPT ![o].pc = pc, ![o].then = t, ![o].rec = r] =>
                 /\ Goes(o, pc, op[o].s, r)
                 /\ op'[o].then = t
                 /\ op'[o].ok = op[o].ok
           /\ \A pc, f : op' = [op EXCEPT ![o].pc = pc, ![o].fresh = f] =>
                 /\ Goes(o, pc, op[o].s, op[o].rec)
                 /\ op'[o].fresh = f
                 /\ op'[o].ok = op[o].ok
           /\ \A pc, b, f : op' = [op EXCEPT ![o].pc = pc, ![o].ok = b, ![o].fresh = f] =>
                 /\ Goes(o, pc, op[o].s, op[o].rec)
                 /\ op'[o].ok = b
           /\ \A pc, t : op' = [op EXCEPT ![o].pc = pc, ![o].s = t] =>
                 /\ Goes(o, pc, t, op[o].rec)
                 /\ op'[o].then = op[o].then
                 /\ op'[o].ok = op[o].ok
<1>1. op[o] \in OperationState
  OBVIOUS
<1>2. ASSUME NEW pc, NEW r, op' = [op EXCEPT ![o].pc = pc, ![o].rec = r]
      PROVE  /\ Goes(o, pc, op[o].s, r)
             /\ op'[o].then = op[o].then /\ op'[o].ok = op[o].ok
  <2> DEFINE x == [op[o] EXCEPT !.pc = pc, !.rec = r]
  <2>1. /\ x.pc = pc /\ x.s = op[o].s /\ x.rec = r /\ x.kind = op[o].kind
        /\ x.artifact = op[o].artifact
        /\ x.then = op[o].then /\ x.ok = op[o].ok
    BY <1>1 DEF OperationState
  <2>2. op' = [op EXCEPT ![o] = x]
    BY <1>2
  <2> HIDE DEF x
  <2> QED
    BY <2>1, <2>2 DEF Goes
<1>3. ASSUME NEW pc, NEW b, NEW r, op' = [op EXCEPT ![o].pc = pc, ![o].restart = b, ![o].rec = r]
      PROVE  /\ Goes(o, pc, op[o].s, r)
             /\ op'[o].ok = op[o].ok
  <2> DEFINE x == [op[o] EXCEPT !.pc = pc, !.restart = b, !.rec = r]
  <2>1. /\ x.pc = pc /\ x.s = op[o].s /\ x.rec = r /\ x.kind = op[o].kind
        /\ x.artifact = op[o].artifact
        /\ x.ok = op[o].ok
    BY <1>1 DEF OperationState
  <2>2. op' = [op EXCEPT ![o] = x]
    BY <1>3
  <2> HIDE DEF x
  <2> QED
    BY <2>1, <2>2 DEF Goes
<1>4. ASSUME NEW pc, NEW t, NEW r, op' = [op EXCEPT ![o].pc = pc, ![o].then = t, ![o].rec = r]
      PROVE  /\ Goes(o, pc, op[o].s, r)
             /\ op'[o].then = t /\ op'[o].ok = op[o].ok
  <2> DEFINE x == [op[o] EXCEPT !.pc = pc, !.then = t, !.rec = r]
  <2>1. /\ x.pc = pc /\ x.s = op[o].s /\ x.rec = r /\ x.kind = op[o].kind
        /\ x.artifact = op[o].artifact
        /\ x.then = t /\ x.ok = op[o].ok
    BY <1>1 DEF OperationState
  <2>2. op' = [op EXCEPT ![o] = x]
    BY <1>4
  <2> HIDE DEF x
  <2> QED
    BY <2>1, <2>2 DEF Goes
<1>5. ASSUME NEW pc, NEW f, op' = [op EXCEPT ![o].pc = pc, ![o].fresh = f]
      PROVE  /\ Goes(o, pc, op[o].s, op[o].rec)
             /\ op'[o].fresh = f /\ op'[o].ok = op[o].ok
  <2> DEFINE x == [op[o] EXCEPT !.pc = pc, !.fresh = f]
  <2>1. /\ x.pc = pc /\ x.s = op[o].s /\ x.rec = op[o].rec /\ x.kind = op[o].kind
        /\ x.artifact = op[o].artifact
        /\ x.fresh = f /\ x.ok = op[o].ok
    BY <1>1 DEF OperationState
  <2>2. op' = [op EXCEPT ![o] = x]
    BY <1>5
  <2> HIDE DEF x
  <2> QED
    BY <2>1, <2>2 DEF Goes
<1>6. ASSUME NEW pc, NEW b, NEW f, op' = [op EXCEPT ![o].pc = pc, ![o].ok = b, ![o].fresh = f]
      PROVE  /\ Goes(o, pc, op[o].s, op[o].rec)
             /\ op'[o].ok = b
  <2> DEFINE x == [op[o] EXCEPT !.pc = pc, !.ok = b, !.fresh = f]
  <2>1. /\ x.pc = pc /\ x.s = op[o].s /\ x.rec = op[o].rec /\ x.kind = op[o].kind
        /\ x.artifact = op[o].artifact
        /\ x.ok = b
    BY <1>1 DEF OperationState
  <2>2. op' = [op EXCEPT ![o] = x]
    BY <1>6
  <2> HIDE DEF x
  <2> QED
    BY <2>1, <2>2 DEF Goes
<1>7. ASSUME NEW pc, NEW t, op' = [op EXCEPT ![o].pc = pc, ![o].s = t]
      PROVE  /\ Goes(o, pc, t, op[o].rec)
             /\ op'[o].then = op[o].then /\ op'[o].ok = op[o].ok
  <2> DEFINE x == [op[o] EXCEPT !.pc = pc, !.s = t]
  <2>1. /\ x.pc = pc /\ x.s = t /\ x.rec = op[o].rec /\ x.kind = op[o].kind
        /\ x.artifact = op[o].artifact
        /\ x.then = op[o].then /\ x.ok = op[o].ok
    BY <1>1 DEF OperationState
  <2>2. op' = [op EXCEPT ![o] = x]
    BY <1>7
  <2> HIDE DEF x
  <2> QED
    BY <2>1, <2>2 DEF Goes
<1> QED
  BY <1>2, <1>3, <1>4, <1>5, <1>6, <1>7
-----------------------------------------------------------------------------
(* What the session in the map, and the operation under way, know of the   *)
(* stored record                                                           *)

Filling == {"create", "ensure", "update"}

SameFile(r, q) == r.yaml = q.yaml /\ r.ui = q.ui

UISteps == {"uiLookup", "uiAdd", "uiQueue", "uiAwait", "uiRead", "uiStore", "uiRemove", "uiRemoved"}

\* The steps at which the command that publishes may be in the scroll file.
WithCommand == {"uiQueue", "uiAwait", "uiRead", "uiStore", "uiRemove"}

\* An operation that filled the root publishes the package of its scroll file.
Publishing(o) ==
    /\ op[o].rec # Absent
    /\ op[o].pc \in UISteps \/ (op[o].pc \in {"find", "make", "cache"} /\ op[o].then = "uiAdd")

\* The session in the map has the scroll file that is stored, and the record
\* that is stored unless a package was just added to that or it was marked.
CachedOK ==
    cached # None =>
        /\ store # Absent /\ store.yaml # None /\ SameFile(session[cached].rec, store)
        /\ \/ session[cached].rec = store \/ store.status = "error"
           \/ \E o \in Calls : op[o].pc = "uiRemove"

\* A scroll that runs has a scroll file.
FileOK == store # Absent /\ store.yaml = None => store.status # "running"

MatchOK(o) ==
    /\ op[o].rec # Absent => op[o].kind \in Filling /\ (HasRecord(o) \/ Publishing(o))
    /\ op[o].s # None => session[op[o].s].rec.yaml # None
    /\ HasRecord(o) => store # Absent
    /\ op[o].pc = "insert" => store = Absent
    /\ op[o].pc \in {"backend", "remove", "forget"} \/ (op[o].pc = "pull" /\ op[o].kind # "restore")
          => cached = None
    /\ op[o].pc = "cache" => session[op[o].s].rec = store
    /\ op[o].pc = "uiStore" => SameFile(op[o].fresh, store)
    /\ Publishing(o) =>
          /\ store # Absent /\ op[o].rec.yaml = store.yaml /\ op[o].rec.ui = {}
          /\ store.ui \subseteq {o}
          /\ op[o].pc \notin WithCommand => store.ui = {}

MatchInv == ~overlap => FileOK /\ CachedOK /\ \A o \in Calls : MatchOK(o)
-----------------------------------------------------------------------------
LEMMA MatchFacts ==
    ASSUME SupervisorInv, SequentialInv, MatchInv, ~overlap, NEW o \in Calls, Running(o)
    PROVE  /\ OperationInv
           /\ op \in [Calls -> OperationState] /\ session \in [Sessions -> SessionState]
           /\ store \in Record \cup {Absent} /\ cached \in Sessions \cup {None}
           /\ FlowOK(o) /\ HandOK(o) /\ AloneOK(o) /\ FileOK /\ CachedOK /\ MatchOK(o)
           /\ \A p \in Calls \ {o} : ~Running(p) /\ op[p].s = None
           /\ Holds(o) => op[o].s \in Sessions /\ session[op[o].s].rec \in Record
BY AloneFacts, HeldRecord DEF SupervisorInv, OperationInv, SupervisorTypeOK, MatchInv, HandOK

\* What a step of the only operation has to keep.
LEMMA MatchStep ==
    ASSUME SupervisorInv, SequentialInv, MatchInv, ~overlap, NEW o \in Calls, Operation(o),
           Running(o), FileOK', CachedOK', MatchOK(o)'
    PROVE  MatchInv'
<1>1. \A p \in Calls \ {o} : op'[p] = op[p] /\ ~Running(p) /\ op[p].s = None /\ MatchOK(p)
  BY MatchFacts, OthersStay DEF MatchInv
<1>2. ASSUME NEW p \in Calls \ {o} PROVE MatchOK(p)'
  <2>1. op[p].pc \in {"idle", "done"} /\ op[p].s = None
    BY <1>1 DEF Running
  <2>2. op[p].rec = Absent
    BY <1>1, <2>1 DEF MatchOK, HasRecord, Publishing, UISteps
  <2> QED
    BY <1>1, <2>1, <2>2 DEF MatchOK, HasRecord, Publishing, UISteps
<1> QED
  BY <1>2 DEF MatchInv

\* A step that leaves the store and the records of the sessions alone.
LEMMA StoreKept ==
    ASSUME SupervisorInv, SequentialInv, MatchInv, ~overlap, NEW o \in Calls, Operation(o),
           Running(o), op[o].pc # "uiRemove", UNCHANGED store, MatchOK(o)',
           cached' = None \/ (cached' = cached /\ session'[cached].rec = session[cached].rec)
    PROVE  MatchInv'
<1>1. FileOK /\ CachedOK /\ \A p \in Calls \ {o} : op'[p] = op[p]
  BY MatchFacts, OthersStay
<1>2. FileOK'
  BY <1>1 DEF FileOK
<1>3. CachedOK'
  BY <1>1 DEF CachedOK
<1> QED
  BY <1>2, <1>3, MatchStep

\* An operation without a record has little to keep.
LEMMA PlainMatch ==
    ASSUME NEW o \in Calls, NEW pc, NEW s, Goes(o, pc, s, Absent), ~HasRecord(o)',
           pc \notin {"insert", "backend", "remove", "forget", "cache", "uiStore"},
           pc = "pull" => op[o].kind = "restore",
           s # None => session'[s].rec.yaml # None
    PROVE  MatchOK(o)'
BY DEF MatchOK, Goes, Publishing

\* An operation that returns has nothing to keep.
LEMMA DoneMatch ==
    ASSUME NEW o \in Calls, Goes(o, "done", None, Absent)
    PROVE  MatchOK(o)'
BY DEF MatchOK, Goes, Publishing, HasRecord

\* A merged record has the file and the status of the one it was made from.
LEMMA MergedKeeps ==
    ASSUME store \in Record \cup {Absent}, NEW r \in Record
    PROVE  /\ Merged(r) \in Record /\ SameFile(Merged(r), r) /\ Merged(r).status = r.status
           /\ Merged(r) # Absent
<1>1. Merged(r) \in Record
  BY MergedType
<1>2. SameFile(Merged(r), r) /\ Merged(r).status = r.status
  BY DEF Merged, SameFile, Record
<1> QED
  BY <1>1, <1>2, RecordThere

LEMMA StatusKeeps ==
    ASSUME NEW r \in Record, NEW status \in ScrollStatuses
    PROVE  /\ WithStatus(r, status) \in Record /\ SameFile(WithStatus(r, status), r)
           /\ WithStatus(r, status).status = status
BY WithStatusType DEF WithStatus, SameFile, Record

\* An operation that fails and marks the record it works with: the session in
\* the map has the same file, or there is none.
LEMMA FailMatches ==
    ASSUME SupervisorInv, SequentialInv, MatchInv, ~overlap, NEW o \in Calls, Operation(o),
           Running(o), Fail(o), UNCHANGED <<cached, session>>, op[o].pc \notin WithCommand,
           op[o].rec # Absent => cached = None \/ Publishing(o)
    PROVE  MatchInv'
<1>1. /\ op \in [Calls -> OperationState] /\ op[o].rec \in Record \cup {Absent}
      /\ store \in Record \cup {Absent} /\ FileOK /\ CachedOK /\ MatchOK(o)
  BY MatchFacts DEF OperationState
<1>2. MatchOK(o)'
  BY <1>1, GoesTo, DoneMatch DEF Fail
<1>3. CASE op[o].rec = Absent
  BY <1>2, <1>3, StoreKept DEF Fail, WithCommand
<1>4. CASE op[o].rec # Absent
  <2>1. PICK r \in Record : r = op[o].rec
    BY <1>1, <1>4
  <2>2. PICK m \in Record : m = WithStatus(r, "error") /\ SameFile(m, r) /\ m.status = "error"
    BY StatusKeeps DEF ScrollStatuses
  <2>3. store' = IF store = Absent THEN Absent ELSE Merged(m)
    BY <1>4, <2>1, <2>2 DEF Fail, UpdateScroll
  <2>4. Merged(m) # Absent /\ SameFile(Merged(m), r) /\ Merged(m).status = "error"
    BY <1>1, <2>2, MergedKeeps DEF SameFile
  <2>5. FileOK'
    BY <2>3, <2>4 DEF FileOK
  <2>6. CachedOK'
    <3>1. CASE cached = None
      BY <3>1 DEF CachedOK
    <3>2. CASE cached # None
      <4>1. /\ store # Absent /\ store.yaml # None /\ SameFile(session[cached].rec, store)
            /\ r.yaml = store.yaml /\ r.ui = {} /\ store.ui = {}
        BY <1>1, <1>4, <2>1, <3>2 DEF CachedOK, MatchOK
      <4> QED
        BY <2>3, <2>4, <4>1 DEF CachedOK, SameFile
    <3> QED
      BY <3>1, <3>2
  <2> QED
    BY <1>2, <2>5, <2>6, MatchStep
<1> QED
  BY <1>3, <1>4

\* What a write leaves in the session and in the store.
LEMMA RecordStored ==
    ASSUME session \in [Sessions -> SessionState], store \in Record \cup {Absent},
           NEW s \in Sessions, NEW r \in Record
    PROVE  /\ \A W, B : Write(s, r, W, B) => session'[s].rec = Merged(r) /\ UpdateScroll(r)
           /\ WriteRecord(s, r) => session'[s].rec = Merged(r) /\ UpdateScroll(r)
<1>1. ASSUME NEW W, NEW B, Write(s, r, W, B)
      PROVE  session'[s].rec = Merged(r) /\ UpdateScroll(r)
  <2> DEFINE x == [session[s] EXCEPT !.rec = Merged(r), !.waiting = W, !.busy = B]
  <2>1. x.rec = Merged(r)
    BY DEF SessionState
  <2>2. session' = [session EXCEPT ![s] = x] /\ UpdateScroll(r)
    BY <1>1 DEF Write
  <2> HIDE DEF x
  <2> QED
    BY <2>1, <2>2
<1> QED
  BY <1>1 DEF WriteRecord

\* The session of the operation, which the map holds if it holds any, and the
\* store get the same record.
LEMMA SessionStores ==
    ASSUME SupervisorInv, SequentialInv, MatchInv, ~overlap, NEW o \in Calls, Operation(o),
           Running(o), UNCHANGED cached, NEW s \in Sessions, s = op[o].s, NEW r \in Record,
           session'[s].rec = Merged(r), UpdateScroll(r), r.yaml # None, MatchOK(o)'
    PROVE  MatchInv'
<1>1. /\ store \in Record \cup {Absent} /\ FileOK /\ CachedOK /\ AloneOK(o)
  BY MatchFacts
<1>2. Merged(r) # Absent /\ SameFile(Merged(r), r)
  BY <1>1, MergedKeeps
<1>3. store' = IF store = Absent THEN Absent ELSE Merged(r)
  BY DEF UpdateScroll
<1>4. FileOK'
  BY <1>2, <1>3 DEF FileOK, SameFile
<1>5. cached \in {s, None}
  BY <1>1, SupervisorAssumption DEF AloneOK
<1>6. CachedOK'
  BY <1>1, <1>2, <1>3, <1>5 DEF CachedOK, SameFile
<1> QED
  BY <1>4, <1>6, MatchStep
-----------------------------------------------------------------------------
(* The steps that leave the store and the records of the sessions alone    *)

\* An operation that goes on, with the record it has if it publishes.
LEMMA StillPublishing ==
    ASSUME NEW o \in Calls, MatchOK(o), ~HasRecord(o), NEW pc, NEW s,
           Goes(o, pc, s, op[o].rec), ~HasRecord(o)',
           pc \notin {"insert", "backend", "remove", "forget", "pull"},
           s # None => session'[s].rec.yaml # None,
           pc = "cache" => session'[s].rec = store',
           pc = "uiStore" => SameFile(op'[o].fresh, store'),
           op[o].rec # Absent =>
              /\ Publishing(o)' /\ store' # Absent /\ store'.yaml = store.yaml
              /\ store'.ui \subseteq {o}
              /\ pc \notin WithCommand => store'.ui = {}
    PROVE  MatchOK(o)'
<1>1. op'[o].pc = pc /\ op'[o].s = s /\ op'[o].rec = op[o].rec /\ op'[o].kind = op[o].kind
  BY DEF Goes
<1>2. CASE op[o].rec = Absent
  BY <1>1, <1>2 DEF MatchOK, Publishing
<1>3. CASE op[o].rec # Absent
  <2>1. /\ op[o].kind \in Filling /\ op[o].rec.yaml = store.yaml /\ op[o].rec.ui = {}
    BY <1>3 DEF MatchOK
  <2> QED
    BY <1>1, <1>3, <2>1 DEF MatchOK
<1> QED
  BY <1>2, <1>3

LEMMA FindMatches ==
    ASSUME SupervisorInv, SequentialInv, MatchInv, ~overlap, NEW o \in Calls, Operation(o), Find(o)
    PROVE  MatchInv'
<1>1. Running(o) /\ op[o].pc = "find" /\ UNCHANGED <<store, session>>
  BY DEF Find, Running
<1>2. /\ op \in [Calls -> OperationState] /\ CachedOK /\ MatchOK(o) /\ FlowOK(o) /\ AloneOK(o)
      /\ cached \in Sessions \cup {None} /\ op[o] \in OperationState
  BY <1>1, MatchFacts
<1>3. /\ ~HasRecord(o)
      /\ op[o].rec # Absent => /\ op[o].then = "uiAdd" /\ op[o].kind \in Filling
                               /\ store # Absent /\ store.ui = {}
  BY <1>1, <1>2 DEF MatchOK, HasRecord, Publishing, WithCommand, UISteps
<1>4. cached # None => session'[cached].rec.yaml # None
  BY <1>1, <1>2 DEF CachedOK, SameFile
<1>5. MatchOK(o)'
  <2>1. CASE cached = None
    <3>1. op[o].s = None
      BY <1>1, <1>2, <2>1 DEF AloneOK, Detached
    <3>2. Goes(o, "make", None, op[o].rec) /\ op'[o].then = op[o].then
      BY <1>2, <2>1, <3>1, GoesTo DEF Find
    <3>3. ~HasRecord(o)' /\ (op[o].rec # Absent => Publishing(o)')
      BY <1>3, <3>2 DEF HasRecord, Publishing, Goes
    <3> QED
      BY <1>1, <1>2, <1>3, <3>2, <3>3, StillPublishing
  <2>2. CASE cached # None /\ op[o].then # "uncache"
    <3>1. Goes(o, op[o].then, cached, op[o].rec)
      BY <1>2, <2>2, GoesWith DEF Find
    <3>2. op[o].then \in {"stop", "serve", "run", "uiAdd"}
      BY <1>1, <1>2, <2>2 DEF FlowOK, OperationState
    <3>3. ~HasRecord(o)' /\ (op[o].rec # Absent => Publishing(o)')
      BY <1>3, <3>1, <3>2 DEF HasRecord, Publishing, Goes, UISteps
    <3> QED
      BY <1>1, <1>2, <1>3, <1>4, <3>1, <3>2, <3>3, StillPublishing
  <2>3. CASE cached # None /\ op[o].then = "uncache"
    <3>1. Goes(o, "stop", cached, op[o].rec)
      BY <1>2, <2>3, GoesWith DEF Find
    <3>2. op[o].rec = Absent
      BY <1>3, <2>3
    <3>3. ~HasRecord(o)'
      BY <3>1 DEF HasRecord, Goes
    <3> QED
      BY <1>1, <1>2, <1>3, <1>4, <3>1, <3>2, <3>3, StillPublishing
  <2> QED
    BY <2>1, <2>2, <2>3
<1>6. cached' = None \/ cached' = cached
  BY DEF Find
<1> QED
  BY <1>1, <1>5, <1>6, StoreKept

LEMMA MakeMatches ==
    ASSUME SupervisorInv, SequentialInv, MatchInv, ~overlap, NEW o \in Calls, Operation(o), Make(o)
    PROVE  MatchInv'
<1>1. Running(o) /\ op[o].pc = "make" /\ UNCHANGED cached
  BY DEF Make, Running
<1>2. /\ op \in [Calls -> OperationState] /\ session \in [Sessions -> SessionState]
      /\ MatchOK(o) /\ AloneOK(o)
  BY <1>1, MatchFacts
<1>3. cached = None
  BY <1>1, <1>2 DEF AloneOK
<1>4. CASE Fail(o) /\ UNCHANGED session
  BY <1>1, <1>3, <1>4, FailMatches DEF WithCommand
<1>5. CASE /\ HasFile /\ UNCHANGED store
           /\ \E s \in Sessions :
                /\ session' = [session EXCEPT ![s] = [NoSession EXCEPT !.on = TRUE, !.rec = store]]
                /\ op' = [op EXCEPT ![o].pc = "cache", ![o].s = s]
  <2>1. PICK s \in Sessions :
                /\ session' = [session EXCEPT ![s] = [NoSession EXCEPT !.on = TRUE, !.rec = store]]
                /\ op' = [op EXCEPT ![o].pc = "cache", ![o].s = s]
    BY <1>5
  <2>2. session'[s].rec = store /\ store' = store /\ store # Absent /\ store.yaml # None
    BY <1>2, <1>5, <2>1 DEF NoSession, HasFile
  <2>3. Goes(o, "cache", s, op[o].rec) /\ op'[o].then = op[o].then
    BY <1>2, <2>1, GoesWith
  <2>4. ~HasRecord(o)
    BY <1>1 DEF HasRecord
  <2>5. op[o].rec # Absent => Publishing(o)' /\ store.ui = {}
    BY <1>1, <1>2, <2>3, <2>4 DEF MatchOK, Publishing, Goes, WithCommand, UISteps
  <2>6. ~HasRecord(o)'
    BY <2>3 DEF HasRecord, Goes
  <2>7. MatchOK(o)'
    BY <1>1, <1>2, <2>2, <2>3, <2>4, <2>5, <2>6, StillPublishing
  <2> QED
    BY <1>1, <1>3, <1>5, <2>7, StoreKept
<1> QED
  BY <1>4, <1>5 DEF Make

LEMMA CacheMatches ==
    ASSUME SupervisorInv, SequentialInv, MatchInv, ~overlap, NEW o \in Calls, Operation(o), Cache(o)
    PROVE  MatchInv'
<1>1. Running(o) /\ op[o].pc = "cache" /\ UNCHANGED store
  BY DEF Cache, Running
<1>2. /\ op \in [Calls -> OperationState] /\ MatchOK(o) /\ AloneOK(o) /\ FileOK /\ FlowOK(o)
      /\ store \in Record \cup {Absent} /\ op[o] \in OperationState
      /\ op[o].s \in Sessions /\ op[o].s # None /\ session[op[o].s].rec \in Record
  BY <1>1, MatchFacts, HeldRecord DEF Holds
<1>3. cached = None
  BY <1>1, <1>2 DEF AloneOK
<1>4. cached' = op[o].s /\ To(o, op[o].then) /\ UNCHANGED session
  BY <1>3 DEF Cache
<1>5. store = session[op[o].s].rec /\ store.yaml # None /\ store # Absent
  BY <1>1, <1>2, RecordThere DEF MatchOK
<1>6. Goes(o, op[o].then, op[o].s, op[o].rec)
  BY <1>2, <1>4, GoesTo
<1>7. op[o].then \in {"uncache", "stop", "serve", "run", "uiAdd"}
  BY <1>1, <1>2 DEF FlowOK, OperationState
<1>8. /\ ~HasRecord(o)
      /\ op[o].rec # Absent => op[o].then = "uiAdd" /\ store.ui = {}
  BY <1>1, <1>2 DEF MatchOK, HasRecord, Publishing, WithCommand, UISteps
<1>9. ~HasRecord(o)' /\ (op[o].rec # Absent => Publishing(o)')
  BY <1>6, <1>7, <1>8 DEF HasRecord, Publishing, Goes, UISteps
<1>10. MatchOK(o)'
  BY <1>1, <1>2, <1>4, <1>5, <1>6, <1>7, <1>8, <1>9, StillPublishing
<1>11. FileOK'
  BY <1>1, <1>2 DEF FileOK
<1>12. CachedOK'
  BY <1>1, <1>4, <1>5 DEF CachedOK, SameFile
<1> QED
  BY <1>1, <1>10, <1>11, <1>12, MatchStep

LEMMA LookupMatches ==
    ASSUME SupervisorInv, SequentialInv, MatchInv, ~overlap, NEW o \in Calls, Operation(o), Lookup(o)
    PROVE  MatchInv'
<1>1. /\ Running(o) /\ op[o].pc = "lookup" /\ UNCHANGED <<cached, session>>
  BY DEF Lookup, Running
<1>2. /\ op \in [Calls -> OperationState] /\ CachedOK /\ MatchOK(o) /\ FlowOK(o)
  BY <1>1, MatchFacts
<1>3. op[o].rec = Absent
  BY <1>1, <1>2 DEF MatchOK, HasRecord, Publishing, UISteps
<1>4. CASE Fail(o)
  BY <1>1, <1>3, <1>4, FailMatches DEF WithCommand
<1>5. CASE Succeed(o)
  <2>1. MatchOK(o)'
    BY <1>2, <1>5, GoesTo, DoneMatch DEF Succeed
  <2> QED
    BY <1>1, <1>5, <2>1, StoreKept DEF Succeed
<1>6. CASE store = Absent /\ To(o, "insert") /\ UNCHANGED store
  <2>1. Goes(o, "insert", op[o].s, Absent)
    BY <1>2, <1>3, <1>6, GoesTo
  <2>2. MatchOK(o)'
    BY <1>1, <1>2, <1>6, <2>1 DEF MatchOK, Goes, HasRecord, Publishing
  <2> QED
    BY <1>1, <1>6, <2>2, StoreKept
<1>7. CASE /\ store # Absent /\ op[o].kind = "ensure" /\ store.yaml = None /\ UNCHANGED store
           /\ op' = [op EXCEPT ![o].pc = "pull", ![o].rec = store]
  <2>1. Goes(o, "pull", op[o].s, store)
    BY <1>2, <1>7, GoesWith
  <2>2. cached = None
    BY <1>2, <1>7 DEF CachedOK
  <2>3. MatchOK(o)'
    BY <1>1, <1>2, <1>7, <2>1, <2>2 DEF MatchOK, Goes, HasRecord, Publishing, Filling, UISteps
  <2> QED
    BY <1>1, <1>7, <2>3, StoreKept
<1>8. CASE /\ store # Absent /\ op[o].kind \in {"update", "ensure"} /\ UNCHANGED store
           /\ op' = [op EXCEPT ![o].pc = "detach", ![o].rec = store]
  <2>1. Goes(o, "detach", op[o].s, store)
    BY <1>2, <1>8, GoesWith
  <2>2. MatchOK(o)'
    BY <1>1, <1>2, <1>8, <2>1 DEF MatchOK, Goes, HasRecord, Publishing, Filling, UISteps
  <2> QED
    BY <1>1, <1>8, <2>2, StoreKept
<1> QED
  BY <1>4, <1>5, <1>6, <1>7, <1>8 DEF Lookup

LEMMA InsertMatches ==
    ASSUME SupervisorInv, SequentialInv, MatchInv, ~overlap, NEW o \in Calls, Operation(o), Insert(o)
    PROVE  MatchInv'
<1>1. /\ Running(o) /\ op[o].pc = "insert" /\ UNCHANGED <<cached, session>>
  BY DEF Insert, Running
<1>2. /\ op \in [Calls -> OperationState] /\ CachedOK /\ MatchOK(o) /\ FlowOK(o)
  BY <1>1, MatchFacts
<1>3. op[o].rec = Absent
  BY <1>1, <1>2 DEF MatchOK, HasRecord, Publishing, UISteps
<1>4. CASE Fail(o)
  BY <1>1, <1>3, <1>4, FailMatches DEF WithCommand
<1>5. CASE ~Fail(o)
  <2>1. /\ store = Absent /\ store' = Placeholder(op[o].artifact)
        /\ op' = [op EXCEPT ![o].pc = "pull", ![o].rec = Placeholder(op[o].artifact)]
    BY <1>5 DEF Insert
  <2>2. Goes(o, "pull", op[o].s, Placeholder(op[o].artifact))
    BY <1>2, <2>1, GoesWith
  <2>3. store'.status = "created"
    BY <2>1 DEF Placeholder
  <2>4. cached = None
    BY <1>2, <2>1 DEF CachedOK
  <2>5. store' # Absent
    <3>1. op[o].artifact # None
      BY <1>2, CallsAssumption DEF OperationState
    <3>2. store'.artifact = op[o].artifact /\ Absent.artifact = None
      BY <2>1 DEF Placeholder, Absent
    <3> QED
      BY <3>1, <3>2
  <2>6. op[o].kind \in Filling
    BY <1>1, <1>2 DEF FlowOK, Filling
  <2>7. MatchOK(o)'
    BY <1>1, <1>2, <2>2, <2>4, <2>5, <2>6 DEF MatchOK, Goes, HasRecord, Publishing, Filling, UISteps
  <2>8. FileOK' /\ CachedOK'
    BY <1>1, <2>3, <2>4 DEF FileOK, CachedOK
  <2> QED
    BY <1>1, <2>7, <2>8, MatchStep
<1> QED
  BY <1>4, <1>5

LEMMA DetachMatches ==
    ASSUME SupervisorInv, SequentialInv, MatchInv, ~overlap, NEW o \in Calls, Operation(o), Detach(o)
    PROVE  MatchInv'
<1>1. /\ Running(o) /\ op[o].pc = "detach" /\ UNCHANGED store /\ cached' = None
  BY DEF Detach, Running
<1>2. /\ op \in [Calls -> OperationState] /\ session \in [Sessions -> SessionState]
      /\ CachedOK /\ MatchOK(o) /\ FlowOK(o) /\ cached \in Sessions \cup {None}
  BY <1>1, MatchFacts
<1>3. op[o].kind # "restore"
  BY <1>1, <1>2 DEF FlowOK
<1>4. CASE cached = None
  <2>1. /\ UNCHANGED session
        /\ Goes(o, IF op[o].kind = "delete" THEN "remove" ELSE "backend", op[o].s, op[o].rec)
    BY <1>2, <1>4, GoesTo DEF Detach, AfterDetach
  <2>2. MatchOK(o)'
    BY <1>1, <1>2, <1>3, <2>1 DEF MatchOK, Goes, HasRecord, Publishing, UISteps
  <2> QED
    BY <1>1, <2>2, StoreKept
<1>5. CASE cached # None
  <2>1. Goes(o, "drain", cached, op[o].rec)
    BY <1>2, <1>5, GoesWith DEF Detach
  <2>2. session'[cached].rec = session[cached].rec
    BY <1>2, <1>5 DEF Detach, SessionState
  <2>3. session'[cached].rec.yaml # None
    BY <1>2, <1>5, <2>2 DEF CachedOK, SameFile
  <2>4. MatchOK(o)'
    BY <1>1, <1>2, <1>3, <2>1, <2>3 DEF MatchOK, Goes, HasRecord, Publishing, UISteps
  <2> QED
    BY <1>1, <2>4, StoreKept
<1> QED
  BY <1>4, <1>5

LEMMA DrainMatches ==
    ASSUME SupervisorInv, SequentialInv, MatchInv, ~overlap, NEW o \in Calls, Operation(o), Drain(o)
    PROVE  MatchInv'
<1>1. /\ Running(o) /\ op[o].pc = "drain" /\ UNCHANGED <<store, cached>>
  BY DEF Drain, Running
<1>2. /\ op \in [Calls -> OperationState] /\ MatchOK(o) /\ FlowOK(o) /\ AloneOK(o)
      /\ OperationInv /\ op[o].s # None
  BY <1>1, MatchFacts, HeldRecord DEF Holds
<1>3. op[o].kind # "restore"
  BY <1>1, <1>2 DEF FlowOK
<1>4. cached = None
  BY <1>1, <1>2, <1>3 DEF AloneOK, OperationInv, SessionOK, Detached
<1>5. Goes(o, IF op[o].kind = "delete" THEN "remove" ELSE "backend", None, op[o].rec)
  BY <1>2, GoesWith DEF Drain, AfterDetach
<1>6. MatchOK(o)'
  BY <1>1, <1>2, <1>3, <1>4, <1>5 DEF MatchOK, Goes, HasRecord, Publishing, UISteps
<1> QED
  BY <1>1, <1>4, <1>6, StoreKept

LEMMA BackendStopMatches ==
    ASSUME SupervisorInv, SequentialInv, MatchInv, ~overlap, NEW o \in Calls, Operation(o),
           BackendStop(o)
    PROVE  MatchInv'
<1>1. /\ Running(o) /\ op[o].pc = "backend" /\ UNCHANGED <<cached, session>>
  BY DEF BackendStop, Running
<1>2. /\ op \in [Calls -> OperationState] /\ MatchOK(o) /\ FlowOK(o)
  BY <1>1, MatchFacts
<1>3. cached = None
  BY <1>1, <1>2 DEF MatchOK
<1>4. CASE Fail(o)
  BY <1>1, <1>3, <1>4, FailMatches DEF WithCommand
<1>5. CASE To(o, "pull") /\ UNCHANGED store
  <2>1. Goes(o, "pull", op[o].s, op[o].rec) /\ op[o].kind # "restore"
    BY <1>1, <1>2, <1>5, GoesTo DEF FlowOK
  <2>2. MatchOK(o)'
    BY <1>1, <1>2, <1>3, <1>5, <2>1 DEF MatchOK, Goes, HasRecord, Publishing, UISteps
  <2> QED
    BY <1>1, <1>3, <1>5, <2>2, StoreKept
<1> QED
  BY <1>4, <1>5 DEF BackendStop

LEMMA DeleteMatches ==
    ASSUME SupervisorInv, SequentialInv, MatchInv, ~overlap, NEW o \in Calls, Operation(o),
           Remove(o) \/ Forget(o)
    PROVE  MatchInv'
<1>1. /\ Running(o) /\ op[o].pc \in {"remove", "forget"} /\ UNCHANGED <<cached, session>>
  BY DEF Remove, Forget, Running
<1>2. /\ op \in [Calls -> OperationState] /\ MatchOK(o) /\ FileOK
  BY <1>1, MatchFacts
<1>3. cached = None /\ op[o].rec = Absent
  BY <1>1, <1>2 DEF MatchOK, HasRecord, Publishing, UISteps
<1>4. MatchOK(o)'
  <2>1. CASE \E ok : Return(o, ok)
    BY <1>2, <2>1, GoesTo, DoneMatch
  <2>2. CASE To(o, "forget")
    <3>1. Goes(o, "forget", op[o].s, Absent)
      BY <1>2, <1>3, <2>2, GoesTo
    <3> QED
      BY <1>1, <1>2, <1>3, <3>1 DEF MatchOK, Goes, HasRecord, Publishing, UISteps
  <2> QED
    BY <2>1, <2>2 DEF Remove, Forget
<1>5. FileOK' /\ CachedOK'
  BY <1>1, <1>2, <1>3 DEF FileOK, CachedOK, Remove, Forget
<1> QED
  BY <1>1, <1>4, <1>5, MatchStep

\* The steps of a stop or a restore on its session, up to the record they
\* write: nobody sees whether the session is on and what waits in it.
LEMMA HoldingMatches ==
    ASSUME SupervisorInv, SequentialInv, MatchInv, ~overlap, NEW o \in Calls, Operation(o),
           Uncache(o) \/ StopBegin(o) \/ StopDrain(o)
    PROVE  MatchInv'
<1>1. Running(o) /\ op[o].pc \in {"uncache", "stop", "stopDrain"} /\ UNCHANGED store
  BY DEF Uncache, StopBegin, StopDrain, Running
<1>2. /\ op \in [Calls -> OperationState] /\ session \in [Sessions -> SessionState]
      /\ MatchOK(o) /\ op[o].s \in Sessions /\ op[o].s # None
  BY <1>1, MatchFacts, HeldRecord DEF Holds
<1>3. op[o].rec = Absent /\ session[op[o].s].rec.yaml # None
  BY <1>1, <1>2 DEF MatchOK, HasRecord, Publishing, UISteps
<1>4. \/ Goes(o, "stop", op[o].s, Absent) \/ Goes(o, "stopDrain", op[o].s, Absent)
      \/ Goes(o, "stopBackend", op[o].s, Absent)
  BY <1>2, <1>3, GoesTo DEF Uncache, StopBegin, StopDrain
<1>5. \A t \in Sessions : session'[t].rec = session[t].rec
  <2>1. CASE Uncache(o)
    BY <2>1 DEF Uncache
  <2>2. CASE StopBegin(o)
    BY <1>2, <2>2 DEF StopBegin, SwitchOff, SessionState
  <2>3. CASE StopDrain(o)
    BY <1>2, <2>3 DEF StopDrain, SessionState
  <2> QED
    BY <2>1, <2>2, <2>3
<1>6. ~HasRecord(o)'
  BY <1>4 DEF HasRecord, Goes
<1>7. MatchOK(o)'
  BY <1>2, <1>3, <1>4, <1>5, <1>6, PlainMatch
<1>8. cached' = None \/ (cached' = cached /\ cached \in Sessions)
  BY <1>1, MatchFacts DEF Uncache, StopBegin, StopDrain
<1> QED
  BY <1>1, <1>5, <1>7, <1>8, StoreKept

LEMMA QuiesceMatches ==
    ASSUME SupervisorInv, SequentialInv, MatchInv, ~overlap, NEW o \in Calls, Operation(o),
           Quiesce(o)
    PROVE  MatchInv'
<1>1. Running(o) /\ op[o].pc = "quiesce" /\ UNCHANGED <<store, cached>>
  BY DEF Quiesce, Succeed, Running
<1>2. /\ op \in [Calls -> OperationState] /\ FlowOK(o) /\ AloneOK(o) /\ OperationInv
      /\ op[o].s \in Sessions /\ op[o].s # None
  BY <1>1, MatchFacts, HeldRecord DEF Holds
<1>3. cached = None
  BY <1>1, <1>2 DEF AloneOK, OperationInv, SessionOK, Detached, FlowOK
<1>4. MatchOK(o)'
  BY <1>2, GoesTo, DoneMatch DEF Quiesce, Succeed
<1> QED
  BY <1>1, <1>3, <1>4, StoreKept

LEMMA AwaitMatches ==
    ASSUME SupervisorInv, SequentialInv, MatchInv, ~overlap, NEW o \in Calls, Operation(o), Await(o)
    PROVE  MatchInv'
<1>1. Running(o) /\ op[o].pc = "await" /\ UNCHANGED <<store, cached, session>>
  BY DEF Await, Running
<1>2. MatchOK(o)'
  BY <1>1, MatchFacts, GoesTo, DoneMatch DEF Await
<1> QED
  BY <1>1, <1>2, StoreKept

\* What a step on the way of a publication finds.
LEMMA PublishingFacts ==
    ASSUME SupervisorInv, SequentialInv, MatchInv, ~overlap, NEW o \in Calls, op[o].pc \in UISteps
    PROVE  /\ Running(o) /\ ~HasRecord(o) /\ op \in [Calls -> OperationState] /\ MatchOK(o)
           /\ op[o].rec # Absent => /\ Publishing(o) /\ store # Absent /\ store.ui \subseteq {o}
                                    /\ op[o].pc \notin WithCommand => store.ui = {}
           /\ Holds(o) => /\ op[o].s \in Sessions /\ op[o].s # None /\ cached = op[o].s
                          /\ session[op[o].s].rec \in Record /\ session[op[o].s].rec.yaml # None
                          /\ store # Absent /\ SameFile(session[op[o].s].rec, store)
<1>1. Running(o) /\ ~HasRecord(o)
  BY DEF Running, HasRecord, UISteps
<1>2. /\ op \in [Calls -> OperationState] /\ MatchOK(o) /\ AloneOK(o) /\ CachedOK /\ OperationInv
  BY <1>1, MatchFacts
<1>3. op[o].rec # Absent => /\ Publishing(o) /\ store # Absent /\ store.ui \subseteq {o}
                            /\ op[o].pc \notin WithCommand => store.ui = {}
  BY <1>1, <1>2 DEF MatchOK
<1>4. Holds(o) => /\ op[o].s \in Sessions /\ op[o].s # None /\ cached = op[o].s
                  /\ session[op[o].s].rec \in Record /\ session[op[o].s].rec.yaml # None
  BY <1>2, HeldRecord DEF AloneOK, MatchOK, Detached, UISteps
<1>5. Holds(o) => store # Absent /\ SameFile(session[op[o].s].rec, store)
  BY <1>2, <1>4 DEF CachedOK
<1> QED
  BY <1>1, <1>2, <1>3, <1>4, <1>5

LEMMA UILookupMatches ==
    ASSUME SupervisorInv, SequentialInv, MatchInv, ~overlap, NEW o \in Calls, Operation(o),
           UILookup(o)
    PROVE  MatchInv'
<1>1. op[o].pc = "uiLookup" /\ UNCHANGED <<cached, session>>
  BY DEF UILookup
<1>2. /\ Running(o) /\ ~HasRecord(o) /\ op \in [Calls -> OperationState] /\ MatchOK(o)
      /\ op[o].rec # Absent => Publishing(o) /\ store # Absent /\ store.ui = {}
  BY <1>1, PublishingFacts DEF UISteps, WithCommand
<1>3. CASE Fail(o)
  BY <1>1, <1>2, <1>3, FailMatches DEF WithCommand
<1>4. CASE GetSession(o, "uiAdd") /\ UNCHANGED store
  <2>1. Goes(o, "find", None, op[o].rec) /\ op'[o].then = "uiAdd"
    BY <1>2, <1>4, GoesTo
  <2>2. ~HasRecord(o)' /\ (op[o].rec # Absent => Publishing(o)')
    BY <1>2, <2>1 DEF HasRecord, Publishing, Goes
  <2>3. MatchOK(o)'
    BY <1>2, <1>4, <2>1, <2>2, StillPublishing
  <2> QED
    BY <1>1, <1>2, <1>4, <2>3, StoreKept
<1> QED
  BY <1>3, <1>4 DEF UILookup

LEMMA UIAwaitMatches ==
    ASSUME SupervisorInv, SequentialInv, MatchInv, ~overlap, NEW o \in Calls, Operation(o),
           UIAwait(o) \/ UIRead(o)
    PROVE  MatchInv'
<1>1. op[o].pc \in {"uiAwait", "uiRead"} /\ UNCHANGED <<store, cached, session>>
  BY DEF UIAwait, UIRead
<1>2. /\ Running(o) /\ ~HasRecord(o) /\ op \in [Calls -> OperationState] /\ MatchOK(o)
      /\ op[o].rec # Absent => Publishing(o) /\ store # Absent /\ store.ui \subseteq {o}
      /\ session[op[o].s].rec.yaml # None
  BY <1>1, PublishingFacts DEF UISteps, Holds
<1>3. \/ Goes(o, "uiRead", op[o].s, op[o].rec) \/ Goes(o, "uiRemove", op[o].s, op[o].rec)
      \/ Goes(o, "uiStore", op[o].s, op[o].rec) /\ op'[o].fresh = store
  <2>1. CASE UIAwait(o)
    BY <1>2, <2>1, GoesTo DEF UIAwait, To
  <2>2. CASE UIRead(o)
    <3> DEFINE x == [op[o] EXCEPT !.pc = IF store = Absent THEN "uiRemove" ELSE "uiStore",
                                  !.fresh = store]
    <3>1. /\ x.pc \in {"uiRemove", "uiStore"} /\ x.s = op[o].s /\ x.rec = op[o].rec
          /\ x.kind = op[o].kind /\ x.artifact = op[o].artifact /\ x.fresh = store
      BY <1>2 DEF OperationState
    <3>2. op' = [op EXCEPT ![o] = x]
      BY <2>2 DEF UIRead
    <3> HIDE DEF x
    <3>3. op'[o] = x
      BY <1>2, <3>2
    <3> QED
      BY <3>1, <3>3 DEF Goes
  <2> QED
    BY <2>1, <2>2
<1>4. ~HasRecord(o)' /\ (op[o].rec # Absent => Publishing(o)')
  BY <1>2, <1>3 DEF HasRecord, Publishing, Goes, UISteps
<1>5. MatchOK(o)'
  <2>1. op'[o].pc \in WithCommand
    BY <1>3 DEF Goes, WithCommand
  <2>2. op'[o].pc = "uiStore" => SameFile(op'[o].fresh, store')
    BY <1>1, <1>3 DEF SameFile, Goes
  <2>3. PICK pc \in {"uiRead", "uiRemove", "uiStore"} : Goes(o, pc, op[o].s, op[o].rec)
    BY <1>3
  <2>4. op'[o].pc = pc
    BY <2>3 DEF Goes
  <2> QED
    BY <1>1, <1>2, <1>4, <2>1, <2>2, <2>3, <2>4, StillPublishing
<1> QED
  BY <1>1, <1>2, <1>5, StoreKept
-----------------------------------------------------------------------------
(* The steps that write the record of a session                            *)

\* What an operation outside of a publication finds in its session.
LEMMA HoldingFacts ==
    ASSUME SupervisorInv, SequentialInv, MatchInv, ~overlap, NEW o \in Calls, Running(o), Holds(o)
    PROVE  /\ op \in [Calls -> OperationState] /\ session \in [Sessions -> SessionState]
           /\ store \in Record \cup {Absent} /\ OperationInv /\ op[o].s \in Sessions
           /\ op[o].s # None /\ session[op[o].s] \in SessionState
           /\ session[op[o].s].rec \in Record /\ session[op[o].s].rec.yaml # None
           /\ op[o].pc \notin UISteps \cup {"cache", "drain"} => op[o].rec = Absent
<1>1. /\ op \in [Calls -> OperationState] /\ session \in [Sessions -> SessionState]
      /\ store \in Record \cup {Absent} /\ OperationInv /\ MatchOK(o)
  BY MatchFacts
<1>2. /\ op[o].s \in Sessions /\ op[o].s # None /\ session[op[o].s] \in SessionState
      /\ session[op[o].s].rec \in Record
  BY <1>1, HeldRecord
<1>3. session[op[o].s].rec.yaml # None
  BY <1>1, <1>2 DEF MatchOK
<1>4. op[o].pc \notin UISteps \cup {"cache", "drain"} => op[o].rec = Absent
  BY <1>1 DEF MatchOK, HasRecord, Publishing, Holds
<1> QED
  BY <1>1, <1>2, <1>3, <1>4

\* The operation marks the record of its session and returns.
LEMMA MarkMatches ==
    ASSUME SupervisorInv, SequentialInv, MatchInv, ~overlap, NEW o \in Calls, Operation(o),
           Running(o), Holds(o), UNCHANGED cached, NEW r \in Record, r.yaml # None,
           WriteRecord(op[o].s, r), \E ok : Return(o, ok)
    PROVE  MatchInv'
<1>1. /\ op \in [Calls -> OperationState] /\ session \in [Sessions -> SessionState]
      /\ store \in Record \cup {Absent} /\ op[o].s \in Sessions
  BY HoldingFacts
<1>2. PICK s \in Sessions : s = op[o].s
  BY <1>1
<1>3. session'[s].rec = Merged(r) /\ UpdateScroll(r)
  BY <1>1, <1>2, RecordStored
<1>4. MatchOK(o)'
  BY <1>1, GoesTo, DoneMatch
<1> QED
  BY <1>2, <1>3, <1>4, SessionStores

LEMMA PullFailedMatches ==
    ASSUME SupervisorInv, SequentialInv, MatchInv, ~overlap, NEW o \in Calls, Operation(o),
           PullFailed(o)
    PROVE  MatchInv'
<1>1. Running(o) /\ op[o].pc = "pull" /\ UNCHANGED cached
  BY DEF PullFailed, PullEnded, Running
<1>2. CASE op[o].kind = "restore"
  <2>1. Holds(o)
    BY <1>1, <1>2 DEF Holds
  <2>2. session[op[o].s].rec \in Record /\ session[op[o].s].rec.yaml # None
    BY <1>1, <2>1, HoldingFacts
  <2>3. PICK r \in Record : r = WithStatus(session[op[o].s].rec, "error") /\ r.yaml # None
    BY <2>2, StatusKeeps DEF ScrollStatuses, SameFile
  <2>4. WriteRecord(op[o].s, r) /\ Return(o, FALSE)
    BY <1>2, <2>3 DEF PullFailed
  <2> QED
    BY <1>1, <2>1, <2>3, <2>4, MarkMatches
<1>3. CASE op[o].kind # "restore"
  <2>1. cached = None
    BY <1>1, <1>3, MatchFacts DEF MatchOK
  <2> QED
    BY <1>1, <1>3, <2>1, FailMatches DEF PullFailed, WithCommand
<1> QED
  BY <1>2, <1>3

LEMMA ApplyMatches ==
    ASSUME SupervisorInv, SequentialInv, MatchInv, ~overlap, NEW o \in Calls, Operation(o), Apply(o)
    PROVE  MatchInv'
<1>1. /\ Running(o) /\ op[o].pc = "pull" /\ op[o].kind # "restore" /\ call[o].result = "ok"
      /\ UNCHANGED <<cached, session>>
  BY DEF Apply, PullEnded, Running
<1>2. /\ op \in [Calls -> OperationState] /\ store \in Record \cup {Absent}
      /\ MatchOK(o) /\ HandOK(o) /\ op[o] \in OperationState
  BY <1>1, MatchFacts
<1>3. HasRecord(o) /\ cached = None /\ op[o].rec \in Record /\ op[o].rec # Absent
  BY <1>1, <1>2, RecordThere DEF HasRecord, MatchOK, HandOK
<1>4. op[o].kind \in Filling
  BY <1>2, <1>3 DEF MatchOK
<1>5. PICK r \in Record : r = Materialized(o, op[o].rec)
  BY <1>1, <1>3, MaterializedType
<1>6. r.yaml # None /\ r.ui = {}
  <2>1. Pulled(o) \in Versions
    BY <1>1, PulledType DEF SupervisorInv
  <2>2. r.yaml = Pulled(o) /\ r.ui = {}
    BY <1>3, <1>5 DEF Materialized, Record
  <2> QED
    BY <2>1, <2>2, CallsAssumption
<1>7. CASE Fail(o)
  BY <1>1, <1>3, <1>7, FailMatches DEF WithCommand
<1>8. CASE store = Absent /\ Return(o, FALSE) /\ UNCHANGED store
  <2>1. MatchOK(o)'
    BY <1>2, <1>8, GoesTo, DoneMatch
  <2> QED
    BY <1>1, <1>3, <1>8, <2>1, StoreKept
<1>9. CASE /\ store # Absent /\ UpdateScroll(r)
           /\ \/ \E restart : op' = [op EXCEPT ![o].pc = "uiLookup", ![o].restart = restart,
                                               ![o].rec = Merged(r)]
              \/ op' = [op EXCEPT ![o].pc = "find", ![o].then = "serve", ![o].rec = Absent]
              \/ Return(o, TRUE)
  <2>1. /\ store' = Merged(r) /\ store' # Absent /\ SameFile(store', r)
    BY <1>2, <1>9, MergedKeeps DEF UpdateScroll
  <2>2. FileOK' /\ CachedOK'
    BY <1>1, <1>3, <1>6, <2>1 DEF FileOK, CachedOK, SameFile
  <2>3. CASE \E restart : op' = [op EXCEPT ![o].pc = "uiLookup", ![o].restart = restart,
                                           ![o].rec = Merged(r)]
    <3>1. Goes(o, "uiLookup", op[o].s, store')
      BY <1>2, <2>1, <2>3, GoesWith
    <3>2. store'.ui = {}
      BY <1>6, <2>1 DEF SameFile
    <3>3. MatchOK(o)'
      BY <1>1, <1>2, <1>4, <2>1, <3>1, <3>2
         DEF MatchOK, Goes, HasRecord, Publishing, UISteps, WithCommand
    <3> QED
      BY <1>1, <2>2, <3>3, MatchStep
  <2>4. CASE op' = [op EXCEPT ![o].pc = "find", ![o].then = "serve", ![o].rec = Absent]
    <3>1. Goes(o, "find", op[o].s, Absent)
      BY <1>2, <2>4, GoesWith
    <3>2. ~HasRecord(o)'
      BY <3>1 DEF HasRecord, Goes
    <3>3. MatchOK(o)'
      BY <1>1, <1>2, <3>1, <3>2, PlainMatch DEF MatchOK
    <3> QED
      BY <1>1, <2>2, <3>3, MatchStep
  <2>5. CASE Return(o, TRUE)
    <3>1. MatchOK(o)'
      BY <1>2, <2>5, GoesTo, DoneMatch
    <3> QED
      BY <1>1, <2>2, <3>1, MatchStep
  <2> QED
    BY <1>9, <2>3, <2>4, <2>5
<1> QED
  BY <1>5, <1>7, <1>8, <1>9 DEF Apply

LEMMA RestoreBeginMatches ==
    ASSUME SupervisorInv, SequentialInv, MatchInv, ~overlap, NEW o \in Calls, Operation(o),
           RestoreBegin(o)
    PROVE  MatchInv'
<1>1. Running(o) /\ op[o].pc = "pull" /\ op[o].kind = "restore" /\ UNCHANGED cached
  BY DEF RestoreBegin, PullEnded, Running
<1>2. Holds(o)
  BY <1>1 DEF Holds
<1>3. /\ op \in [Calls -> OperationState] /\ session \in [Sessions -> SessionState]
      /\ op[o].s \in Sessions /\ session[op[o].s].rec \in Record
      /\ session[op[o].s].rec.yaml # None /\ op[o].rec = Absent
  BY <1>1, <1>2, HoldingFacts DEF UISteps
<1>4. CASE SwitchOff(o, "restored") /\ UNCHANGED store
  <2>1. Goes(o, "restored", op[o].s, Absent)
    BY <1>3, <1>4, GoesTo
  <2>2. \A t \in Sessions : session'[t].rec = session[t].rec
    BY <1>3, <1>4 DEF SwitchOff, SessionState
  <2>3. ~HasRecord(o)'
    BY <2>1 DEF HasRecord, Goes
  <2>4. MatchOK(o)'
    BY <1>3, <2>1, <2>2, <2>3, PlainMatch
  <2>5. cached \in Sessions \cup {None}
    BY <1>1, MatchFacts
  <2> QED
    BY <1>1, <1>4, <2>2, <2>4, <2>5, StoreKept
<1>5. CASE WriteRecord(op[o].s, WithStatus(session[op[o].s].rec, "error")) /\ Return(o, FALSE)
  <2>1. PICK r \in Record : r = WithStatus(session[op[o].s].rec, "error") /\ r.yaml # None
    BY <1>3, StatusKeeps DEF ScrollStatuses, SameFile
  <2> QED
    BY <1>1, <1>2, <1>5, <2>1, MarkMatches
<1> QED
  BY <1>4, <1>5 DEF RestoreBegin

LEMMA StopBackendMatches ==
    ASSUME SupervisorInv, SequentialInv, MatchInv, ~overlap, NEW o \in Calls, Operation(o),
           StopBackend(o)
    PROVE  MatchInv'
<1>1. Running(o) /\ op[o].pc = "stopBackend" /\ UNCHANGED cached /\ Holds(o)
  BY DEF StopBackend, Running, Holds
<1>2. /\ op \in [Calls -> OperationState] /\ session \in [Sessions -> SessionState]
      /\ op[o].s \in Sessions /\ session[op[o].s].rec \in Record
      /\ session[op[o].s].rec.yaml # None /\ op[o].rec = Absent
  BY <1>1, HoldingFacts DEF UISteps
<1>3. PICK s \in Sessions : s = op[o].s
  BY <1>2
<1>4. PICK r \in Record : r = WithStatus(session[s].rec, "error") /\ r.yaml # None
  BY <1>2, <1>3, StatusKeeps DEF ScrollStatuses, SameFile
<1>5. CASE To(o, "stopStore") /\ UNCHANGED <<store, session>>
  <2>1. Goes(o, "stopStore", op[o].s, Absent)
    BY <1>2, <1>5, GoesTo
  <2>2. ~HasRecord(o)'
    BY <2>1 DEF HasRecord, Goes
  <2>3. MatchOK(o)'
    BY <1>2, <1>5, <2>1, <2>2, PlainMatch
  <2> QED
    BY <1>1, <1>5, <2>3, StoreKept
<1>6. CASE /\ session' = [session EXCEPT ![s].on = @ \/ op[o].started, ![s].rec = Merged(r)]
           /\ UpdateScroll(r) /\ Return(o, FALSE)
  <2> DEFINE x == [session[s] EXCEPT !.on = @ \/ op[o].started, !.rec = Merged(r)]
  <2>1. x.rec = Merged(r)
    BY <1>2 DEF SessionState
  <2>2. session' = [session EXCEPT ![s] = x]
    BY <1>6
  <2> HIDE DEF x
  <2>3. session'[s].rec = Merged(r)
    BY <1>2, <2>1, <2>2
  <2>4. MatchOK(o)'
    BY <1>2, <1>6, GoesTo, DoneMatch
  <2> QED
    BY <1>1, <1>3, <1>4, <1>6, <2>3, <2>4, SessionStores
<1> QED
  BY <1>3, <1>4, <1>5, <1>6 DEF StopBackend

LEMMA StopStoreMatches ==
    ASSUME SupervisorInv, SequentialInv, MatchInv, ~overlap, NEW o \in Calls, Operation(o),
           StopStore(o)
    PROVE  MatchInv'
<1>1. Running(o) /\ op[o].pc = "stopStore" /\ UNCHANGED cached /\ Holds(o)
  BY DEF StopStore, Running, Holds
<1>2. /\ op \in [Calls -> OperationState] /\ session \in [Sessions -> SessionState]
      /\ op[o].s \in Sessions /\ session[op[o].s].rec \in Record /\ store \in Record \cup {Absent}
      /\ session[op[o].s].rec.yaml # None /\ op[o].rec = Absent /\ FlowOK(o)
  BY <1>1, HoldingFacts, MatchFacts DEF UISteps
<1>3. PICK s \in Sessions : s = op[o].s
  BY <1>2
<1>4. PICK r \in Record : r = Stopped(session[s].rec) /\ r.yaml # None
  <2>1. Stopped(session[s].rec) \in Record
    BY <1>2, <1>3, StoppedType
  <2>2. Stopped(session[s].rec).yaml = session[s].rec.yaml
    BY <1>2, <1>3 DEF Stopped, WithStatus, Record
  <2> QED
    BY <1>2, <1>3, <2>1, <2>2
<1>5. CASE /\ UpdateScroll(r)
           /\ session' = [session EXCEPT ![s].rec = Merged(r), ![s].on = @ \/ op[o].started]
           /\ To(o, IF op[o].kind = "stop" THEN "quiesce" ELSE "pull")
  <2> DEFINE x == [session[s] EXCEPT !.rec = Merged(r), !.on = @ \/ op[o].started]
  <2>1. x.rec = Merged(r)
    BY <1>2 DEF SessionState
  <2>2. session' = [session EXCEPT ![s] = x]
    BY <1>5
  <2> HIDE DEF x
  <2>3. session'[s].rec = Merged(r)
    BY <1>2, <2>1, <2>2
  <2>4. /\ Goes(o, IF op[o].kind = "stop" THEN "quiesce" ELSE "pull", op[o].s, Absent)
        /\ op[o].kind \in {"stop", "restore"}
    BY <1>1, <1>2, <1>5, GoesTo DEF FlowOK
  <2>5. ~HasRecord(o)' /\ Merged(r).yaml # None
    BY <1>2, <1>4, <2>4, MergedKeeps DEF HasRecord, Goes, SameFile
  <2>6. MatchOK(o)'
    BY <1>2, <1>3, <2>3, <2>4, <2>5, PlainMatch
  <2> QED
    BY <1>1, <1>3, <1>4, <1>5, <2>3, <2>6, SessionStores
<1>6. CASE WriteRecord(s, WithStatus(r, "error")) /\ Return(o, FALSE)
  <2>1. PICK q \in Record : q = WithStatus(r, "error") /\ q.yaml # None
    BY <1>4, StatusKeeps DEF ScrollStatuses, SameFile
  <2> QED
    BY <1>1, <1>3, <1>6, <2>1, MarkMatches
<1> QED
  BY <1>3, <1>4, <1>5, <1>6 DEF StopStore

LEMMA ApplyRestoreMatches ==
    ASSUME SupervisorInv, SequentialInv, MatchInv, ~overlap, NEW o \in Calls, Operation(o),
           ApplyRestore(o)
    PROVE  MatchInv'
<1>1. Running(o) /\ op[o].pc = "restored" /\ UNCHANGED cached /\ Holds(o)
  BY DEF ApplyRestore, Running, Holds
<1>2. /\ op \in [Calls -> OperationState] /\ session \in [Sessions -> SessionState]
      /\ op[o].s \in Sessions /\ session[op[o].s].rec \in Record /\ store \in Record \cup {Absent}
      /\ op[o].rec = Absent
  BY <1>1, HoldingFacts DEF UISteps
<1>3. PICK s \in Sessions : s = op[o].s
  BY <1>2
<1>4. call[o].result = "ok"
  BY <1>1 DEF SupervisorInv, RestorePulled
<1>5. PICK r \in Record :
         r = [Materialized(o, session[s].rec) EXCEPT
                 !.procs["serve"] = session[s].rec.procs["serve"], !.status = "stopped"]
  BY <1>1, <1>3, <1>4, RestoredType
<1>6. r.yaml # None
  <2>1. Pulled(o) \in Versions
    BY <1>4, PulledType DEF SupervisorInv
  <2>2. PICK m \in Record : m = Materialized(o, session[s].rec)
    BY <1>2, <1>3, <1>4, MaterializedType
  <2>3. m.yaml = Pulled(o)
    BY <1>2, <1>3, <2>2 DEF Materialized, Record
  <2>4. r.yaml = m.yaml
    BY <1>5, <2>2 DEF Record
  <2> QED
    BY <2>1, <2>3, <2>4, CallsAssumption
<1>7. CASE /\ UpdateScroll(r) /\ StartOrReturn(o)
           /\ session' = [session EXCEPT ![s].rec = Merged(r),
                ![s].waiting = IF op[o].started THEN {} ELSE @, ![s].on = @ \/ op[o].started]
  <2> DEFINE x == [session[s] EXCEPT !.rec = Merged(r),
                !.waiting = IF op[o].started THEN {} ELSE @, !.on = @ \/ op[o].started]
  <2>1. x.rec = Merged(r)
    BY <1>2 DEF SessionState
  <2>2. session' = [session EXCEPT ![s] = x]
    BY <1>7
  <2> HIDE DEF x
  <2>3. session'[s].rec = Merged(r)
    BY <1>2, <2>1, <2>2
  <2>4. Goes(o, "find", None, Absent) \/ Goes(o, "done", None, Absent)
    BY <1>2, <1>7, GoesTo
  <2>5. ~HasRecord(o)'
    BY <2>4 DEF HasRecord, Goes
  <2>6. MatchOK(o)'
    BY <2>4, <2>5, PlainMatch
  <2> QED
    BY <1>1, <1>3, <1>6, <1>7, <2>3, <2>6, SessionStores
<1>8. CASE WriteRecord(s, WithStatus(r, "error")) /\ Return(o, FALSE)
  <2>1. PICK q \in Record : q = WithStatus(r, "error") /\ q.yaml # None
    BY <1>6, StatusKeeps DEF ScrollStatuses, SameFile
  <2> QED
    BY <1>1, <1>3, <1>8, <2>1, MarkMatches
<1> QED
  BY <1>3, <1>5, <1>7, <1>8 DEF ApplyRestore

LEMMA ProcKeeps ==
    ASSUME NEW r \in Record, NEW c \in Commands, NEW status \in ProcedureStatuses
    PROVE  WithProc(r, c, status) \in Record /\ SameFile(WithProc(r, c, status), r)
<1>1. WithProc(r, c, status) \in Record
  BY WithProcType
<1> DEFINE changed == [r EXCEPT !.procs[c] = status]
<1>2. changed \in Record /\ changed.yaml = r.yaml /\ changed.ui = r.ui
  BY DEF Record
<1>3. WithProc(r, c, status) = WithStatus(changed, Derived(changed))
  BY DEF WithProc
<1> HIDE DEF changed
<1>4. SameFile(WithStatus(changed, Derived(changed)), changed)
  BY <1>2, DerivedType, StatusKeeps
<1> QED
  BY <1>1, <1>2, <1>3, <1>4 DEF SameFile

\* What putting a command into the queue of a session stores.
LEMMA EnqueueStores ==
    ASSUME session \in [Sessions -> SessionState], store \in Record \cup {Absent},
           NEW s \in Sessions, session[s].rec \in Record, NEW c \in Commands, Enqueue(s, c)
    PROVE  \E r \in Record :
              /\ session'[s].rec = Merged(r) /\ UpdateScroll(r) /\ SameFile(r, session[s].rec)
<1>1. PICK r \in Record : r = WithProc(session[s].rec, c, "waiting") /\ SameFile(r, session[s].rec)
  BY ProcKeeps DEF ProcedureStatuses
<1>2. Write(s, r, session[s].waiting \cup {c}, session[s].busy)
  BY <1>1 DEF Enqueue
<1> QED
  BY <1>1, <1>2, RecordStored

LEMMA ServeMatches ==
    ASSUME SupervisorInv, SequentialInv, MatchInv, ~overlap, NEW o \in Calls, Operation(o),
           Serve(o) \/ Run(o)
    PROVE  MatchInv'
<1>1. Running(o) /\ op[o].pc \in {"serve", "run"} /\ UNCHANGED cached /\ Holds(o)
  BY DEF Serve, Run, Running, Holds
<1>2. /\ op \in [Calls -> OperationState] /\ session \in [Sessions -> SessionState]
      /\ op[o].s \in Sessions /\ session[op[o].s].rec \in Record /\ store \in Record \cup {Absent}
      /\ session[op[o].s].rec.yaml # None /\ op[o].rec = Absent
  BY <1>1, HoldingFacts DEF UISteps
<1>3. PICK s \in Sessions : s = op[o].s
  BY <1>2
<1>4. /\ \/ Goes(o, "finish", s, Absent) \/ Goes(o, "await", s, Absent)
         \/ Goes(o, "done", None, Absent)
      /\ ~HasRecord(o)'
  <2>1. \/ Goes(o, "finish", s, Absent) \/ Goes(o, "await", s, Absent)
        \/ Goes(o, "done", None, Absent)
    BY <1>2, <1>3, GoesTo DEF Serve, Run
  <2> QED
    BY <2>1 DEF HasRecord, Goes
<1>5. CASE UNCHANGED <<store, session>>
  <2>1. MatchOK(o)'
    BY <1>2, <1>3, <1>4, <1>5, PlainMatch
  <2> QED
    BY <1>1, <1>5, <2>1, StoreKept
<1>6. CASE Enqueue(s, "serve")
  <2>1. PICK r \in Record :
           session'[s].rec = Merged(r) /\ UpdateScroll(r) /\ SameFile(r, session[s].rec)
    BY <1>2, <1>3, <1>6, EnqueueStores DEF Commands
  <2>2. r.yaml # None /\ session'[s].rec.yaml # None
    BY <1>2, <1>3, <2>1, MergedKeeps DEF SameFile
  <2>3. MatchOK(o)'
    BY <1>4, <2>2, PlainMatch
  <2> QED
    BY <1>1, <1>3, <2>1, <2>2, <2>3, SessionStores
<1> QED
  BY <1>3, <1>5, <1>6 DEF Serve, Run

LEMMA FinishStartMatches ==
    ASSUME SupervisorInv, SequentialInv, MatchInv, ~overlap, NEW o \in Calls, Operation(o),
           FinishStart(o)
    PROVE  MatchInv'
<1>1. Running(o) /\ op[o].pc = "finish" /\ UNCHANGED cached /\ Holds(o)
  BY DEF FinishStart, Running, Holds
<1>2. PICK old \in Record : old = session[op[o].s].rec /\ old.yaml # None
  BY <1>1, HoldingFacts
<1>3. (IF Derived(old) = "created" THEN "running" ELSE Derived(old)) \in ScrollStatuses
  BY DerivedType DEF ScrollStatuses
<1>4. PICK r \in Record :
         r = WithStatus(old, IF Derived(old) = "created" THEN "running" ELSE Derived(old))
         /\ r.yaml # None
  BY <1>2, <1>3, StatusKeeps DEF SameFile
<1>5. WriteRecord(op[o].s, r) /\ \E ok : Return(o, ok)
  BY <1>2, <1>4 DEF FinishStart
<1> QED
  BY <1>1, <1>4, <1>5, MarkMatches

\* A step of a publication that writes the record of the session.
LEMMA PublishingStores ==
    ASSUME SupervisorInv, SequentialInv, MatchInv, ~overlap, NEW o \in Calls, Operation(o),
           op[o].pc \in UISteps, Holds(o), UNCHANGED cached, NEW r \in Record,
           session'[op[o].s].rec = Merged(r), UpdateScroll(r),
           r.yaml = session[op[o].s].rec.yaml,
           \/ Goes(o, "done", None, Absent)
           \/ \E pc \in UISteps \ {"uiStore"} :
                 /\ Goes(o, pc, op[o].s, op[o].rec)
                 /\ op[o].rec # Absent => /\ r.ui \subseteq {o}
                                          /\ pc \notin WithCommand => r.ui = {}
    PROVE  MatchInv'
<1>1. /\ Running(o) /\ ~HasRecord(o) /\ op \in [Calls -> OperationState] /\ MatchOK(o)
      /\ op[o].rec # Absent => Publishing(o)
      /\ op[o].s \in Sessions /\ session[op[o].s].rec.yaml # None
      /\ store # Absent /\ SameFile(session[op[o].s].rec, store)
  BY PublishingFacts
<1>2. PICK s \in Sessions : s = op[o].s
  BY <1>1
<1>3. store \in Record \cup {Absent}
  BY <1>1, MatchFacts
<1>4. /\ store' = Merged(r) /\ store' # Absent /\ store'.yaml = r.yaml /\ store'.ui = r.ui
      /\ session'[s].rec = Merged(r) /\ r.yaml = store.yaml /\ r.yaml # None
  BY <1>1, <1>2, <1>3, MergedKeeps DEF UpdateScroll, SameFile
<1>5. MatchOK(o)'
  <2>1. CASE Goes(o, "done", None, Absent)
    BY <2>1, DoneMatch
  <2>2. CASE \E pc \in UISteps \ {"uiStore"} :
                 /\ Goes(o, pc, op[o].s, op[o].rec)
                 /\ op[o].rec # Absent => /\ r.ui \subseteq {o}
                                          /\ pc \notin WithCommand => r.ui = {}
    <3>1. PICK pc \in UISteps \ {"uiStore"} :
                 /\ Goes(o, pc, op[o].s, op[o].rec)
                 /\ op[o].rec # Absent => /\ r.ui \subseteq {o}
                                          /\ pc \notin WithCommand => r.ui = {}
      BY <2>2
    <3>2. ~HasRecord(o)' /\ (op[o].rec # Absent => Publishing(o)')
      BY <3>1 DEF HasRecord, Publishing, Goes, UISteps
    <3>3. pc \notin {"insert", "backend", "remove", "forget", "pull", "cache", "uiStore"}
      BY <3>1 DEF UISteps
    <3> QED
      BY <1>1, <1>2, <1>4, <3>1, <3>2, <3>3, StillPublishing
  <2> QED
    BY <2>1, <2>2
<1> QED
  BY <1>1, <1>2, <1>4, <1>5, SessionStores

LEMMA UIAddMatches ==
    ASSUME SupervisorInv, SequentialInv, MatchInv, ~overlap, NEW o \in Calls, Operation(o), UIAdd(o)
    PROVE  MatchInv'
<1>1. op[o].pc = "uiAdd" /\ op[o].pc \in UISteps /\ Holds(o) /\ UNCHANGED cached
  BY DEF UIAdd, Holds, UISteps
<1>2. /\ op \in [Calls -> OperationState] /\ Running(o)
      /\ op[o].rec # Absent => Publishing(o) /\ store.ui = {}
      /\ op[o].s \in Sessions /\ session[op[o].s].rec \in Record
      /\ SameFile(session[op[o].s].rec, store) /\ store # Absent
  BY <1>1, PublishingFacts DEF WithCommand
<1>3. PICK r \in Record : /\ r = [session[op[o].s].rec EXCEPT !.ui = @ \cup {o}]
                          /\ r.yaml = session[op[o].s].rec.yaml
                          /\ r.ui = session[op[o].s].rec.ui \cup {o}
  <2>1. PICK old \in Record : old = session[op[o].s].rec
    BY <1>2
  <2>2. [old EXCEPT !.ui = @ \cup {o}] \in Record
    BY DEF Record
  <2>3. /\ [old EXCEPT !.ui = @ \cup {o}].yaml = old.yaml
        /\ [old EXCEPT !.ui = @ \cup {o}].ui = old.ui \cup {o}
    BY DEF Record
  <2> QED
    BY <2>1, <2>2, <2>3
<1>4. WriteRecord(op[o].s, r) /\ To(o, "uiQueue")
  BY <1>2, <1>3 DEF UIAdd
<1>5. session'[op[o].s].rec = Merged(r) /\ UpdateScroll(r)
  BY <1>1, <1>2, <1>4, HoldingFacts, RecordStored
<1>6. Goes(o, "uiQueue", op[o].s, op[o].rec)
  BY <1>2, <1>4, GoesTo
<1>7. op[o].rec # Absent => r.ui \subseteq {o}
  BY <1>2, <1>3 DEF SameFile
<1>8. "uiQueue" \in UISteps \ {"uiStore"} /\ "uiQueue" \in WithCommand
  BY DEF UISteps, WithCommand
<1> QED
  BY <1>1, <1>3, <1>5, <1>6, <1>7, <1>8, PublishingStores

LEMMA UIQueueMatches ==
    ASSUME SupervisorInv, SequentialInv, MatchInv, ~overlap, NEW o \in Calls, Operation(o),
           UIQueue(o)
    PROVE  MatchInv'
<1>1. op[o].pc = "uiQueue" /\ op[o].pc \in UISteps /\ Holds(o) /\ UNCHANGED cached
  BY DEF UIQueue, Holds, UISteps
<1>2. /\ op \in [Calls -> OperationState] /\ Running(o) /\ ~HasRecord(o) /\ MatchOK(o)
      /\ op[o].rec # Absent => Publishing(o) /\ store.ui \subseteq {o}
      /\ op[o].s \in Sessions /\ session[op[o].s].rec \in Record
      /\ session[op[o].s].rec.yaml # None
      /\ SameFile(session[op[o].s].rec, store) /\ store # Absent
  BY <1>1, PublishingFacts
<1>3. CASE Enqueue(op[o].s, o) /\ To(o, "uiAwait")
  <2>1. PICK r \in Record : /\ session'[op[o].s].rec = Merged(r) /\ UpdateScroll(r)
                            /\ SameFile(r, session[op[o].s].rec)
    BY <1>1, <1>2, <1>3, HoldingFacts, EnqueueStores DEF Commands
  <2>2. Goes(o, "uiAwait", op[o].s, op[o].rec)
    BY <1>2, <1>3, GoesTo
  <2>3. /\ r.yaml = session[op[o].s].rec.yaml
        /\ op[o].rec # Absent => r.ui \subseteq {o}
    BY <1>2, <2>1 DEF SameFile
  <2>4. "uiAwait" \in UISteps \ {"uiStore"} /\ "uiAwait" \in WithCommand
    BY DEF UISteps, WithCommand
  <2> QED
    BY <1>1, <2>1, <2>2, <2>3, <2>4, PublishingStores
<1>4. CASE To(o, "uiRemove") /\ UNCHANGED <<store, session>>
  <2>1. Goes(o, "uiRemove", op[o].s, op[o].rec)
    BY <1>2, <1>4, GoesTo
  <2>2. ~HasRecord(o)' /\ (op[o].rec # Absent => Publishing(o)')
    BY <1>2, <2>1 DEF HasRecord, Publishing, Goes, UISteps
  <2>3. MatchOK(o)'
    BY <1>2, <1>4, <2>1, <2>2, StillPublishing DEF WithCommand, Publishing
  <2> QED
    BY <1>1, <1>2, <1>4, <2>3, StoreKept
<1> QED
  BY <1>3, <1>4 DEF UIQueue

LEMMA UIRemoveMatches ==
    ASSUME SupervisorInv, SequentialInv, MatchInv, ~overlap, NEW o \in Calls, Operation(o),
           UIRemove(o)
    PROVE  MatchInv'
<1>1. op[o].pc = "uiRemove" /\ op[o].pc \in UISteps /\ Holds(o) /\ UNCHANGED cached
  BY DEF UIRemove, Holds, UISteps
<1>2. /\ op \in [Calls -> OperationState] /\ Running(o)
      /\ op[o].rec # Absent => store.ui \subseteq {o}
      /\ op[o].s \in Sessions /\ session[op[o].s].rec \in Record
      /\ SameFile(session[op[o].s].rec, store)
  BY <1>1, PublishingFacts
<1>3. PICK r \in Record :
         /\ r = [session[op[o].s].rec EXCEPT !.ui = @ \ {o}, !.procs[o] = "unset"]
         /\ r.yaml = session[op[o].s].rec.yaml
         /\ r.ui = session[op[o].s].rec.ui \ {o}
  <2>1. PICK old \in Record : old = session[op[o].s].rec
    BY <1>2
  <2> DEFINE new == [old EXCEPT !.ui = @ \ {o}, !.procs[o] = "unset"]
  <2>2. new \in Record
    BY DEF Record, ProcedureStatuses, Commands
  <2>3. new.yaml = old.yaml /\ new.ui = old.ui \ {o}
    BY DEF Record
  <2> QED
    BY <2>1, <2>2, <2>3
<1>4. Write(op[o].s, r, session[op[o].s].waiting \ {o}, session[op[o].s].busy)
  BY <1>3 DEF UIRemove
<1>5. session'[op[o].s].rec = Merged(r) /\ UpdateScroll(r)
  BY <1>1, <1>2, <1>4, HoldingFacts, RecordStored
<1>6. Goes(o, "done", None, Absent) \/ Goes(o, "uiRemoved", op[o].s, op[o].rec)
  BY <1>2, GoesTo DEF UIRemove, To
<1>7. op[o].rec # Absent => r.ui = {}
  BY <1>2, <1>3 DEF SameFile
<1>8. "uiRemoved" \in UISteps \ {"uiStore"}
  BY DEF UISteps
<1> QED
  BY <1>1, <1>3, <1>5, <1>6, <1>7, <1>8, PublishingStores

LEMMA UIStoreMatches ==
    ASSUME SupervisorInv, SequentialInv, MatchInv, ~overlap, NEW o \in Calls, Operation(o),
           UIStore(o)
    PROVE  MatchInv'
<1>1. op[o].pc = "uiStore" /\ op[o].pc \in UISteps /\ Holds(o) /\ UNCHANGED <<cached, session>>
  BY DEF UIStore, Holds, UISteps
<1>2. /\ op \in [Calls -> OperationState] /\ Running(o) /\ ~HasRecord(o) /\ MatchOK(o)
      /\ op[o].rec # Absent => Publishing(o) /\ store.ui \subseteq {o}
      /\ op[o].s \in Sessions /\ op[o].s # None /\ cached = op[o].s
      /\ session[op[o].s].rec.yaml # None
      /\ SameFile(session[op[o].s].rec, store) /\ store # Absent
  BY <1>1, PublishingFacts
<1>3. op[o].fresh \in Record /\ SameFile(op[o].fresh, store) /\ store \in Record \cup {Absent}
  BY <1>1, <1>2, MatchFacts DEF HandOK, MatchOK
<1>4. PICK r \in Record : /\ r = [op[o].fresh EXCEPT !.published = TRUE]
                          /\ r.yaml = op[o].fresh.yaml /\ r.ui = op[o].fresh.ui
  <2>1. PICK old \in Record : old = op[o].fresh
    BY <1>3
  <2>2. [old EXCEPT !.published = TRUE] \in Record
    BY DEF Record
  <2>3. /\ [old EXCEPT !.published = TRUE].yaml = old.yaml
        /\ [old EXCEPT !.published = TRUE].ui = old.ui
    BY DEF Record
  <2> QED
    BY <2>1, <2>2, <2>3
<1>5. store' = Merged(r) /\ store' # Absent /\ SameFile(store', store)
  BY <1>2, <1>3, <1>4, MergedKeeps DEF UIStore, UpdateScroll, SameFile
<1>6. Goes(o, "uiRemove", op[o].s, op[o].rec)
  <2> DEFINE x == [op[o] EXCEPT !.pc = "uiRemove", !.ok = store # Absent, !.fresh = Absent]
  <2>1. op[o] \in OperationState /\ op' = [op EXCEPT ![o] = x]
    BY <1>2 DEF UIStore
  <2>2. /\ x.pc = "uiRemove" /\ x.s = op[o].s /\ x.rec = op[o].rec /\ x.kind = op[o].kind
        /\ x.artifact = op[o].artifact
    BY <2>1 DEF OperationState
  <2> HIDE DEF x
  <2> QED
    BY <1>2, <2>1, <2>2 DEF Goes
<1>7. ~HasRecord(o)' /\ (op[o].rec # Absent => Publishing(o)')
  BY <1>2, <1>6 DEF HasRecord, Publishing, Goes, UISteps
<1>8. MatchOK(o)'
  BY <1>1, <1>2, <1>5, <1>6, <1>7, StillPublishing DEF WithCommand, SameFile
<1>9. FileOK' /\ CachedOK'
  BY <1>1, <1>2, <1>5, <1>6 DEF FileOK, CachedOK, SameFile, Goes
<1> QED
  BY <1>2, <1>8, <1>9, MatchStep

LEMMA UIRemovedMatches ==
    ASSUME SupervisorInv, SequentialInv, MatchInv, ~overlap, NEW o \in Calls, Operation(o),
           UIRemoved(o)
    PROVE  MatchInv'
<1>1. op[o].pc = "uiRemoved" /\ UNCHANGED <<cached, session>>
  BY DEF UIRemoved
<1>2. /\ Running(o) /\ op \in [Calls -> OperationState]
      /\ op[o].rec # Absent => Publishing(o)
  BY <1>1, PublishingFacts DEF UISteps
<1>3. CASE Fail(o)
  BY <1>1, <1>2, <1>3, FailMatches DEF WithCommand
<1>4. CASE StartOrReturn(o) /\ UNCHANGED store
  <2>1. Goes(o, "find", None, Absent) \/ Goes(o, "done", None, Absent)
    BY <1>2, <1>4, GoesTo
  <2>2. ~HasRecord(o)'
    BY <2>1 DEF HasRecord, Goes
  <2>3. MatchOK(o)'
    BY <2>1, <2>2, PlainMatch
  <2> QED
    BY <1>1, <1>2, <1>4, <2>3, StoreKept
<1> QED
  BY <1>3, <1>4 DEF UIRemoved
-----------------------------------------------------------------------------
(* The other steps                                                         *)

\* The calls and the workers know nothing of records and sessions.
LEMMA CallsMatch == MatchInv /\ UNCHANGED supervisorVars => MatchInv'
BY DEF supervisorVars, MatchInv, FileOK, CachedOK, MatchOK, HasRecord, Publishing, SameFile

LEMMA BeginMatches ==
    ASSUME SupervisorInv, SequentialInv, MatchInv, NEW o \in Calls, Begin(o)
    PROVE  MatchInv'
<1>1. /\ op \in [Calls -> OperationState] /\ op[o] \in OperationState
      /\ HandOK(o) /\ overlap \in BOOLEAN
  BY DEF SupervisorInv, OperationInv, SupervisorTypeOK
<1>2. overlap' = (overlap \/ ~Idle) /\ UNCHANGED <<store, cached, session>> /\ op[o].pc = "idle"
  BY DEF Begin
<1>3. PICK kind \in Kinds, a \in Versions, restart \in BOOLEAN :
          op' = [op EXCEPT ![o].kind = kind, ![o].artifact = a, ![o].restart = restart,
                           ![o].pc = FirstStep(kind), ![o].then = AfterSession(kind)]
  BY DEF Begin
<1> DEFINE x == [op[o] EXCEPT !.kind = kind, !.artifact = a, !.restart = restart,
                              !.pc = FirstStep(kind), !.then = AfterSession(kind)]
<1>4. x.pc = FirstStep(kind) /\ x.s = op[o].s /\ x.rec = op[o].rec /\ x.kind = kind
  BY <1>1 DEF OperationState
<1>5. op' = [op EXCEPT ![o] = x]
  BY <1>3
<1> HIDE DEF x
<1>6. op'[o] = x /\ \A p \in Calls \ {o} : op'[p] = op[p]
  BY <1>1, <1>5
<1>7. /\ op'[o].pc \in {"lookup", "detach", "uiLookup", "find"}
      /\ op'[o].pc = "detach" => op'[o].kind = "delete"
  BY <1>4, <1>6 DEF FirstStep
<1>8. SUFFICES ASSUME ~overlap' PROVE FileOK' /\ CachedOK' /\ \A p \in Calls : MatchOK(p)'
  BY DEF MatchInv
<1>9. ~overlap /\ Idle /\ FileOK /\ CachedOK /\ \A p \in Calls : MatchOK(p)
  BY <1>1, <1>2, <1>8 DEF MatchInv
<1>10. op'[o].rec = Absent /\ op'[o].s = None
  BY <1>1, <1>2, <1>4, <1>6, <1>9 DEF MatchOK, HasRecord, Publishing, UISteps, HandOK, Running
<1>11. MatchOK(o)'
  BY <1>7, <1>10 DEF MatchOK, HasRecord, Publishing
<1>12. ASSUME NEW p \in Calls \ {o} PROVE MatchOK(p)'
  BY <1>2, <1>6, <1>9, <1>12 DEF MatchOK, HasRecord, Publishing
<1>13. FileOK'
  BY <1>2, <1>9 DEF FileOK
<1>14. CachedOK'
  <2>1. ~(\E p \in Calls : op[p].pc = "uiRemove")
    BY <1>9 DEF Idle, Running
  <2> QED
    BY <1>2, <1>9, <2>1 DEF CachedOK
<1> QED
  BY <1>11, <1>12, <1>13, <1>14

LEMMA OperationsMatch ==
    ASSUME SupervisorInv, SequentialInv, MatchInv, NEW o \in Calls, Operation(o)
    PROVE  MatchInv'
<1>1. CASE Begin(o)
  BY <1>1, BeginMatches
<1>2. CASE PullBegin(o)
  BY <1>2, CallsMatch DEF PullBegin
<1>3. CASE overlap /\ ~Begin(o) /\ ~PullBegin(o)
  <2>1. Histories
    BY <1>3 DEF Operation, Find, Make, Cache, Uncache, Lookup, Insert, Detach, Drain, BackendStop,
       PullFailed, Apply, Remove, Forget, StopBegin, StopDrain, StopBackend, StopStore, Quiesce,
       RestoreBegin, ApplyRestore, Serve, FinishStart, Run, Await, UILookup, UIAdd, UIQueue,
       UIAwait, UIRead, UIStore, UIRemove, UIRemoved
  <2> QED
    BY <1>3, <2>1 DEF MatchInv, Histories
<1>4. CASE ~overlap /\ ~Begin(o) /\ ~PullBegin(o)
  <2>1. CASE \/ Find(o) \/ Make(o) \/ Cache(o) \/ Lookup(o) \/ Insert(o) \/ Detach(o) \/ Drain(o)
             \/ BackendStop(o) \/ Remove(o) \/ Forget(o)
    BY <1>4, <2>1, FindMatches, MakeMatches, CacheMatches, LookupMatches, InsertMatches,
       DetachMatches, DrainMatches, BackendStopMatches, DeleteMatches
  <2>2. CASE \/ Uncache(o) \/ StopBegin(o) \/ StopDrain(o) \/ Quiesce(o) \/ Await(o)
             \/ PullFailed(o) \/ Apply(o) \/ RestoreBegin(o) \/ StopBackend(o) \/ StopStore(o)
             \/ ApplyRestore(o)
    BY <1>4, <2>2, HoldingMatches, QuiesceMatches, AwaitMatches, PullFailedMatches, ApplyMatches,
       RestoreBeginMatches, StopBackendMatches, StopStoreMatches, ApplyRestoreMatches
  <2>3. CASE \/ Serve(o) \/ Run(o) \/ FinishStart(o) \/ UILookup(o) \/ UIAdd(o) \/ UIQueue(o)
             \/ UIAwait(o) \/ UIRead(o) \/ UIStore(o) \/ UIRemove(o) \/ UIRemoved(o)
    BY <1>4, <2>3, ServeMatches, FinishStartMatches, UILookupMatches, UIAddMatches, UIQueueMatches,
       UIAwaitMatches, UIStoreMatches, UIRemoveMatches, UIRemovedMatches
  <2> QED
    BY <1>4, <2>1, <2>2, <2>3 DEF Operation
<1> QED
  BY <1>1, <1>2, <1>3, <1>4

\* A command starts or ends in the session in the map, or in the one the
\* operation under way has taken from it.
LEMMA SessionsMatch ==
    ASSUME SupervisorInv, SequentialInv, MatchInv, NEW s \in Sessions, NEW c \in Commands,
           SessionRun(s, c) \/ SessionEnd(s, c)
    PROVE  MatchInv'
<1> USE SupervisorAssumption
<1>1. /\ session \in [Sessions -> SessionState] /\ store \in Record \cup {Absent}
      /\ OperationInv /\ \A p \in Calls : HandOK(p)
  BY DEF SupervisorInv, OperationInv, SupervisorTypeOK
<1>2. UNCHANGED <<cached, op, overlap>>
  BY DEF SessionRun, SessionEnd, Histories
<1>3. ~Quiet(s) /\ session[s].rec \in Record
  BY <1>1 DEF SessionRun, SessionEnd, Quiet, OperationInv, SessionOK
<1>4. SUFFICES ASSUME ~overlap PROVE FileOK' /\ CachedOK' /\ \A p \in Calls : MatchOK(p)'
  BY <1>2 DEF MatchInv
<1>5. FileOK /\ CachedOK /\ \A p \in Calls : MatchOK(p)
  BY <1>4 DEF MatchInv
<1>6. CASE UNCHANGED store /\ \A t \in Sessions : session'[t].rec = session[t].rec
  <2>1. \A p \in Calls : op[p].s # None => op[p].s \in Sessions
    BY DEF SupervisorInv, OperationInv, SupervisorTypeOK, OperationState
  <2>2. cached # None => cached \in Sessions
    BY DEF SupervisorInv, OperationInv, SupervisorTypeOK
  <2>3. FileOK' /\ CachedOK'
    BY <1>2, <1>5, <1>6, <2>2 DEF FileOK, CachedOK, SameFile
  <2>4. ASSUME NEW p \in Calls PROVE MatchOK(p)'
    <3>1. MatchOK(p) /\ (op[p].pc = "cache" => op[p].s # None)
      BY <1>1, <1>5 DEF HandOK, Holds
    <3>2. HasRecord(p)' <=> HasRecord(p)
      BY <1>2 DEF HasRecord
    <3>3. Publishing(p)' <=> Publishing(p)
      BY <1>2 DEF Publishing
    <3> QED
      BY <1>2, <1>6, <2>1, <3>1, <3>2, <3>3 DEF MatchOK, SameFile
  <2> QED
    BY <2>3, <2>4
<1>7. CASE \E r \in Record : /\ session'[s].rec = Merged(r) /\ UpdateScroll(r)
                             /\ SameFile(r, session[s].rec)
                             /\ \A t \in Sessions \ {s} : session'[t] = session[t]
  <2>1. PICK r \in Record : /\ session'[s].rec = Merged(r) /\ UpdateScroll(r)
                            /\ SameFile(r, session[s].rec)
                            /\ \A t \in Sessions \ {s} : session'[t] = session[t]
    BY <1>7
  <2>2. /\ Merged(r) # Absent /\ SameFile(Merged(r), session[s].rec)
        /\ store' = IF store = Absent THEN Absent ELSE Merged(r)
    BY <1>1, <2>1, MergedKeeps DEF UpdateScroll, SameFile
  <2>3. CASE s = cached
    <3>1. /\ store # Absent /\ store.yaml # None /\ SameFile(session[s].rec, store)
      BY <1>5, <2>3 DEF CachedOK
    <3>2. store' = session'[s].rec /\ store' # Absent /\ SameFile(store', store)
      BY <2>1, <2>2, <3>1 DEF SameFile
    <3>3. FileOK' /\ CachedOK'
      BY <1>2, <2>3, <3>1, <3>2 DEF FileOK, CachedOK, SameFile
    <3>4. ASSUME NEW p \in Calls PROVE MatchOK(p)'
      <4>1. MatchOK(p) /\ HandOK(p)
        BY <1>1, <1>5
      <4>2. HasRecord(p)' <=> HasRecord(p)
        BY <1>2 DEF HasRecord
      <4>3. Publishing(p)' <=> Publishing(p)
        BY <1>2 DEF Publishing
      <4>4. op[p].pc # "cache"
        BY <1>4, <2>3 DEF SequentialInv, AloneOK, Running
      <4>5. op[p].s # None => op[p].s \in Sessions
        BY DEF SupervisorInv, OperationInv, SupervisorTypeOK, OperationState
      <4>6. op[p].s # None => session'[op[p].s].rec.yaml # None
        BY <2>1, <3>1, <3>2, <4>1, <4>5 DEF MatchOK, SameFile
      <4> QED
        BY <1>2, <3>1, <3>2, <4>1, <4>2, <4>3, <4>4, <4>6 DEF MatchOK, SameFile
    <3> QED
      BY <3>3, <3>4
  <2>4. CASE s # cached
    <3>1. PICK o \in Calls : op[o].s = s /\ Running(o)
      BY <1>1, <1>3, <1>4, <2>4 DEF SequentialInv, UnreachedOK, HandOK
    <3>2. AloneOK(o) /\ op[o].s # None /\ \A p \in Calls \ {o} : ~Running(p) /\ op[p].s = None
      BY <1>4, <3>1, AloneFacts
    <3>3. cached = None /\ op[o].pc # "cache" /\ Detached(o)
      BY <1>3, <2>4, <3>1, <3>2 DEF AloneOK
    <3>4. session[s].rec.yaml # None /\ session'[s].rec.yaml # None
      BY <1>5, <2>1, <2>2, <3>1, <3>2 DEF MatchOK, SameFile
    <3>5. FileOK' /\ CachedOK'
      BY <1>2, <2>2, <3>3, <3>4 DEF FileOK, CachedOK, SameFile
    <3>6. ASSUME NEW p \in Calls \ {o} PROVE MatchOK(p)'
      <4>1. MatchOK(p) /\ op[p].pc \in {"idle", "done"} /\ op[p].s = None
        BY <1>5, <3>2 DEF Running
      <4>2. op[p].rec = Absent
        BY <4>1 DEF MatchOK, HasRecord, Publishing, UISteps
      <4> QED
        BY <1>2, <4>1, <4>2 DEF MatchOK, HasRecord, Publishing, UISteps
    <3>7. MatchOK(o)'
      <4>1. MatchOK(o) /\ op[o].pc \in {"drain", "stop", "stopDrain", "stopBackend", "stopStore",
                                        "quiesce"}
        BY <1>5, <3>3 DEF Detached
      <4>2. HasRecord(o)' <=> HasRecord(o)
        BY <1>2 DEF HasRecord
      <4>3. ~Publishing(o)' /\ ~Publishing(o)
        BY <1>2, <4>1 DEF Publishing, UISteps
      <4>4. store # Absent => store' # Absent
        BY <2>2
      <4> QED
        BY <1>2, <3>1, <3>4, <4>1, <4>2, <4>3, <4>4 DEF MatchOK
    <3> QED
      BY <3>5, <3>6, <3>7
  <2> QED
    BY <2>3, <2>4
<1>8. ASSUME NEW status \in ProcedureStatuses, NEW W, NEW B,
             Write(s, WithProc(session[s].rec, c, status), W, B)
      PROVE  \E r \in Record : /\ session'[s].rec = Merged(r) /\ UpdateScroll(r)
                               /\ SameFile(r, session[s].rec)
                               /\ \A t \in Sessions \ {s} : session'[t] = session[t]
  <2>1. PICK r \in Record : /\ r = WithProc(session[s].rec, c, status)
                            /\ SameFile(r, session[s].rec)
    BY <1>3, ProcKeeps
  <2>2. session'[s].rec = Merged(r) /\ UpdateScroll(r)
    BY <1>1, <1>8, <2>1, RecordStored
  <2>3. \A t \in Sessions \ {s} : session'[t] = session[t]
    BY <1>1, <1>8, Written
  <2> QED
    BY <2>1, <2>2, <2>3
<1>9. CASE SessionRun(s, c)
  <2>1. CASE session' = [session EXCEPT ![s].waiting = @ \ {c}] /\ UNCHANGED store
    <3>1. \A t \in Sessions : session'[t].rec = session[t].rec
      BY <1>1, <2>1 DEF SessionState
    <3> QED
      BY <1>6, <2>1, <3>1
  <2> QED
    BY <1>7, <1>8, <1>9, <2>1 DEF SessionRun, ProcedureStatuses
<1>10. CASE SessionEnd(s, c)
  BY <1>7, <1>8, <1>10 DEF SessionEnd, ProcedureStatuses
<1> QED
  BY <1>9, <1>10

LEMMA CrashMatches ==
    ASSUME SupervisorInv, SequentialInv, MatchInv, Crash
    PROVE  MatchInv'
<1>1. op \in [Calls -> OperationState]
  BY DEF SupervisorInv, OperationInv, SupervisorTypeOK
<1>2. cached' = None /\ UNCHANGED <<store, overlap>>
  BY DEF Crash
<1>3. SUFFICES ASSUME ~overlap PROVE FileOK' /\ CachedOK' /\ \A p \in Calls : MatchOK(p)'
  BY <1>2 DEF MatchInv
<1>4. FileOK' /\ CachedOK'
  BY <1>2, <1>3 DEF MatchInv, FileOK, CachedOK
<1>5. ASSUME NEW p \in Calls PROVE MatchOK(p)'
  <2>1. CASE ~Running(p)
    <3>1. op'[p] = op[p] /\ op[p].pc \in {"idle", "done"} /\ MatchOK(p)
      BY <1>1, <1>3, <2>1 DEF Crash, Running, MatchInv
    <3>2. op[p].rec = Absent /\ op[p].s = None
      BY <2>1, <3>1
         DEF MatchOK, HasRecord, Publishing, UISteps, SupervisorInv, OperationInv, HandOK
    <3> QED
      BY <3>1, <3>2 DEF MatchOK, HasRecord, Publishing, UISteps
  <2>2. CASE Running(p)
    <3> DEFINE x == [op[p] EXCEPT !.pc = "done", !.ok = FALSE, !.rec = Absent,
                       !.fresh = Absent, !.s = None, !.then = "none", !.started = FALSE,
                       !.restart = FALSE]
    <3>1. op[p] \in OperationState
      BY <1>1
    <3>2. x.pc = "done" /\ x.rec = Absent /\ x.s = None
      BY <3>1 DEF OperationState
    <3>3. op'[p] = x
      BY <2>2 DEF Crash
    <3> HIDE DEF x
    <3> QED
      BY <3>2, <3>3 DEF MatchOK, HasRecord, Publishing, UISteps
  <2> QED
    BY <2>1, <2>2
<1> QED
  BY <1>4, <1>5

\* The session a boot resumes works on what the boot has stored.
LEMMA BootMatches ==
    ASSUME SupervisorInv, SequentialInv, MatchInv, Boot
    PROVE  MatchInv'
<1> USE SupervisorAssumption
<1>1. /\ session \in [Sessions -> SessionState] /\ store \in Record \cup {Absent}
      /\ \A p \in Calls : HandOK(p)
  BY DEF SupervisorInv, OperationInv, SupervisorTypeOK
<1>2. ~up /\ UNCHANGED <<op, overlap>>
  BY DEF Boot
<1>3. cached = None /\ \A p \in Calls : ~Running(p) /\ op[p].s = None
  BY <1>1, <1>2 DEF SequentialInv, DownOK, Idle, HandOK
<1>4. SUFFICES ASSUME ~overlap PROVE FileOK' /\ CachedOK' /\ \A p \in Calls : MatchOK(p)'
  BY <1>2 DEF MatchInv
<1>5. FileOK /\ \A p \in Calls : MatchOK(p)
  BY <1>4 DEF MatchInv
<1>6. ASSUME NEW p \in Calls PROVE MatchOK(p)'
  <2>1. MatchOK(p) /\ op[p].pc \in {"idle", "done"} /\ op[p].s = None
    BY <1>3, <1>5 DEF Running
  <2>2. op[p].rec = Absent
    BY <2>1 DEF MatchOK, HasRecord, Publishing, UISteps
  <2> QED
    BY <1>2, <2>1, <2>2 DEF MatchOK, HasRecord, Publishing, UISteps
<1>7. FileOK' /\ CachedOK'
  <2>1. CASE UNCHANGED <<store, cached, session>>
    BY <1>3, <1>5, <2>1 DEF FileOK, CachedOK
  <2>2. CASE ~(UNCHANGED <<store, cached, session>>)
    <3>1. store # Absent /\ store.status = "running" /\ store \in Record
      BY <1>1, <2>2 DEF Boot
    <3>2. store.yaml # None
      BY <1>5, <3>1 DEF FileOK
    <3> DEFINE queued == IF store.procs["serve"] \in {"waiting", "running"} THEN store
                         ELSE [store EXCEPT !.procs["serve"] = "waiting"]
    <3>3. queued \in Record /\ SameFile(queued, store)
      BY <3>1 DEF Record, Commands, ProcedureStatuses, SameFile
    <3> HIDE DEF queued
    <3>4. PICK r \in Record : r = WithStatus(queued, Derived(queued)) /\ SameFile(r, store)
      BY <3>3, DerivedType, StatusKeeps DEF SameFile
    <3>5. PICK s \in Sessions :
             /\ cached' = s /\ UpdateScroll(r)
             /\ session' = [session EXCEPT ![s] =
                               [on |-> TRUE, rec |-> r, waiting |-> Hydrated(queued), busy |-> {}]]
      BY <2>2, <3>4 DEF Boot, queued
    <3>6. r.published = store.published
      <4>1. queued.published = store.published
        BY <3>1 DEF queued, Record
      <4> QED
        BY <3>3, <3>4, <4>1 DEF WithStatus, Record
    <3>7. Merged(r) = r
      BY <3>6 DEF Merged, Record
    <3>8. store' = r /\ session'[s].rec = r /\ r # Absent
      BY <1>1, <3>1, <3>5, <3>7, RecordThere DEF UpdateScroll
    <3> QED
      BY <3>2, <3>4, <3>5, <3>8 DEF FileOK, CachedOK, SameFile
  <2> QED
    BY <2>1, <2>2
<1> QED
  BY <1>6, <1>7

LEMMA MatchInvariance ==
    ASSUME ~DrainTimesOut
    PROVE  SupervisorSpec => [](SupervisorInv /\ SequentialInv /\ MatchInv)
<1>1. SupervisorInit => MatchInv
  <2> SUFFICES ASSUME SupervisorInit PROVE MatchInv
    OBVIOUS
  <2>1. /\ cached = None
        /\ \A o \in Calls : op[o].pc = "idle" /\ op[o].rec = Absent /\ op[o].s = None
    BY DEF SupervisorInit
  <2>2. \A o \in Calls : MatchOK(o)
    BY <2>1 DEF MatchOK, HasRecord, Publishing
  <2>3. FileOK
    <3>1. SUFFICES ASSUME store # Absent PROVE store.yaml # None
      BY DEF FileOK
    <3>2. PICK v, status, serve : v \in Versions /\ store = Filled(v, status, serve)
      BY <3>1 DEF SupervisorInit, Persisted
    <3>3. store.yaml = v
      BY <3>2 DEF Filled, Placeholder
    <3> QED
      BY <3>2, <3>3, CallsAssumption
  <2> QED
    BY <2>1, <2>2, <2>3 DEF MatchInv, CachedOK
<1>2. SupervisorInv /\ SequentialInv /\ MatchInv /\ [SupervisorNext]_allVars => MatchInv'
  <2> SUFFICES ASSUME SupervisorInv, SequentialInv, MatchInv, [SupervisorNext]_allVars
               PROVE  MatchInv'
    OBVIOUS
  <2>1. CASE \E o \in Calls : Operation(o)
    BY <2>1, OperationsMatch
  <2>2. CASE UNCHANGED supervisorVars
    BY <2>2, CallsMatch
  <2>3. CASE \E s \in Sessions, c \in Commands : SessionRun(s, c) \/ SessionEnd(s, c)
    BY <2>3, SessionsMatch
  <2>4. CASE Crash \/ Boot
    BY <2>4, CrashMatches, BootMatches
  <2> QED
    BY <2>1, <2>2, <2>3, <2>4 DEF SupervisorNext, allVars
<1> QED
  BY <1>1, <1>2, SequentialInvariance, PTL DEF SupervisorSpec

\* The session the supervisor keeps in its map works on the record that is
\* stored: as long as operations do not overlap, no update, restore,
\* publication, failure or crash leaves it with an older scroll file.
THEOREM SessionMatchesSafe ==
    ASSUME ~DrainTimesOut
    PROVE  SupervisorSpec => []SessionMatchesStore
<1>1. SupervisorInv /\ MatchInv => SessionMatchesStore
  <2> SUFFICES ASSUME SupervisorInv, MatchInv, up, Idle, ~overlap, cached # None
               PROVE  /\ Absent \notin {store, session[cached].rec}
                      /\ session[cached].rec.yaml = store.yaml
                      /\ session[cached].rec.ui = store.ui
                      /\ session[cached].rec = store \/ store.status = "error"
    BY DEF SessionMatchesStore
  <2>1. CachedOK
    BY DEF MatchInv
  <2>2. session[cached].rec # Absent
    BY RecordThere DEF SupervisorInv, OperationInv, SessionOK
  <2>3. ~(\E o \in Calls : op[o].pc = "uiRemove")
    BY DEF Idle, Running
  <2> QED
    BY <2>1, <2>2, <2>3 DEF CachedOK, SameFile
<1> QED
  BY <1>1, MatchInvariance, PTL
-----------------------------------------------------------------------------
(* Which operations pull, and when                                         *)

Pulling == Filling \cup {"restore"}

\* The operation is on its way to a session, for the step pc.
For(o, pc) == op[o].pc \in {"find", "make", "cache"} /\ op[o].then = pc

BeforePull(o) ==
    \/ op[o].pc \in {"idle", "lookup", "insert", "detach", "drain", "backend", "stop", "stopDrain",
                     "stopBackend", "stopStore", "quiesce"}
    \/ For(o, "stop")

\* The kinds of the steps that FlowOK leaves open.
PathOK(o) ==
    /\ op[o].pc = "pull" => op[o].kind \in Pulling
    /\ op[o].pc \in {"run", "await"} \/ For(o, "run") => op[o].kind = "run"
    /\ op[o].pc \in {"remove", "forget"} => op[o].kind = "delete"
    /\ op[o].pc \in UISteps \/ For(o, "uiAdd") => op[o].kind \in Filling \cup {"publish"}
    /\ op[o].pc = "restored" => op[o].kind = "restore"

Calling(o) == call[o].pc \notin {"idle", "done"}

\* The call of an operation is under way while the operation waits for it, and
\* pulls what the operation was asked for.
CallOK(o) ==
    /\ Calling(o) => op[o].pc = "pull"
    /\ call[o].pc # "idle" =>
          /\ op[o].kind \in Pulling /\ ~BeforePull(o)
          /\ call[o].artifact = op[o].artifact
    /\ op[o].kind \in Pulling /\ call[o].pc = "idle" =>
          BeforePull(o) \/ op[o].pc \in {"pull", "done"}
    /\ call[o].pc = "wait" => worker[o] = "gone"
    /\ pending = o => Calling(o)
    /\ call[o].result = "ok" => call[o].pc = "done"

PullInv == \A o \in Calls : PathOK(o) /\ CallOK(o)

\* A step of operation o that leaves its call alone.
Ahead(o) ==
    /\ op'[o].kind = op[o].kind /\ op'[o].artifact = op[o].artifact
    /\ PathOK(o)'
    /\ op'[o].pc = "pull" /\ op[o].kind = "restore" => op[o].pc = "stopStore"
    /\ op[o].kind \in Pulling =>
          /\ BeforePull(o)' => BeforePull(o)
          /\ BeforePull(o) => BeforePull(o)' \/ op'[o].pc \in {"pull", "done"}

LEMMA DoneAhead ==
    ASSUME op \in [Calls -> OperationState], NEW o \in Calls,
           Fail(o) \/ Succeed(o) \/ \E ok : Return(o, ok)
    PROVE  Ahead(o)
<1>1. Goes(o, "done", None, Absent)
  BY GoesTo DEF Fail, Succeed
<1> QED
  BY <1>1 DEF Goes, Ahead, PathOK, For, BeforePull, UISteps

LEMMA StepsAhead ==
    ASSUME OperationInv, NEW o \in Calls, PathOK(o),
           Operation(o), ~Begin(o), ~PullBegin(o)
    PROVE  Ahead(o)
<1>1. op \in [Calls -> OperationState] /\ op[o] \in OperationState /\ FlowOK(o)
  BY DEF OperationInv, SupervisorTypeOK
<1> USE DEF Pulling, Filling, UISteps
<1>2. CASE Find(o)
  <2>1. CASE To(o, "make")
    <3>1. Goes(o, "make", op[o].s, op[o].rec) /\ op'[o].then = op[o].then
      BY <1>1, <2>1, GoesTo
    <3> QED
      BY <1>2, <3>1 DEF Find, Goes, Ahead, PathOK, For, BeforePull
  <2>2. CASE op[o].then # "uncache" /\ op' = [op EXCEPT ![o].pc = op[o].then, ![o].s = cached]
    <3>1. Goes(o, op[o].then, cached, op[o].rec)
      BY <1>1, <2>2, GoesWith
    <3>2. op[o].then \in {"stop", "serve", "run", "uiAdd"}
      BY <1>1, <1>2, <2>2 DEF Find, FlowOK, OperationState
    <3> QED
      BY <1>2, <3>1, <3>2 DEF Find, Goes, Ahead, PathOK, For, BeforePull
  <2>3. CASE op[o].then = "uncache" /\ op' = [op EXCEPT ![o].pc = "stop", ![o].s = cached]
    <3>1. Goes(o, "stop", cached, op[o].rec) /\ op[o].kind = "stop"
      BY <1>1, <1>2, <2>3, GoesWith DEF Find, FlowOK
    <3> QED
      BY <1>2, <3>1 DEF Find, Goes, Ahead, PathOK, For, BeforePull
  <2> QED
    BY <1>2, <2>1, <2>2, <2>3 DEF Find
<1>3. CASE Make(o)
  <2>1. CASE \E s \in Sessions : op' = [op EXCEPT ![o].pc = "cache", ![o].s = s]
    <3>1. PICK s \in Sessions : op' = [op EXCEPT ![o].pc = "cache", ![o].s = s]
      BY <2>1
    <3>2. Goes(o, "cache", s, op[o].rec) /\ op'[o].then = op[o].then
      BY <1>1, <3>1, GoesWith
    <3> QED
      BY <1>3, <3>2 DEF Make, Goes, Ahead, PathOK, For, BeforePull
  <2> QED
    BY <1>1, <1>3, <2>1, DoneAhead DEF Make
<1>4. CASE Cache(o)
  <2>1. \E s : Goes(o, op[o].then, s, op[o].rec)
    BY <1>1, <1>4, GoesTo, GoesWith DEF Cache
  <2>2. op[o].then \in {"uncache", "stop", "serve", "run", "uiAdd"}
    BY <1>1, <1>4 DEF Cache, FlowOK, OperationState
  <2> QED
    BY <1>4, <2>1, <2>2 DEF Cache, Goes, Ahead, PathOK, For, BeforePull
<1>5. CASE Uncache(o)
  <2>1. Goes(o, "stop", op[o].s, op[o].rec) /\ op[o].kind = "stop"
    BY <1>1, <1>5, GoesTo DEF Uncache, FlowOK
  <2> QED
    BY <1>5, <2>1 DEF Uncache, Goes, Ahead, PathOK, For, BeforePull
<1>6. CASE Lookup(o)
  <2>1. CASE To(o, "insert")
    <3>1. Goes(o, "insert", op[o].s, op[o].rec)
      BY <1>1, <2>1, GoesTo
    <3> QED
      BY <1>6, <3>1 DEF Lookup, Goes, Ahead, PathOK, For, BeforePull
  <2>2. CASE op[o].kind = "ensure" /\ op' = [op EXCEPT ![o].pc = "pull", ![o].rec = store]
    <3>1. Goes(o, "pull", op[o].s, store)
      BY <1>1, <2>2, GoesWith
    <3> QED
      BY <1>6, <2>2, <3>1 DEF Lookup, Goes, Ahead, PathOK, For, BeforePull
  <2>3. CASE op' = [op EXCEPT ![o].pc = "detach", ![o].rec = store]
    <3>1. Goes(o, "detach", op[o].s, store)
      BY <1>1, <2>3, GoesWith
    <3> QED
      BY <1>6, <3>1 DEF Lookup, Goes, Ahead, PathOK, For, BeforePull
  <2> QED
    BY <1>1, <1>6, <2>1, <2>2, <2>3, DoneAhead DEF Lookup
<1>7. CASE Insert(o)
  <2>1. CASE op' = [op EXCEPT ![o].pc = "pull", ![o].rec = Placeholder(op[o].artifact)]
    <3>1. \E r : Goes(o, "pull", op[o].s, r)
      BY <1>1, <2>1, GoesWith
    <3> QED
      BY <1>1, <1>7, <3>1 DEF Insert, FlowOK, Goes, Ahead, PathOK, For, BeforePull
  <2> QED
    BY <1>1, <1>7, <2>1, DoneAhead DEF Insert
<1>8. CASE Detach(o) \/ Drain(o)
  <2>1. \/ \E s : Goes(o, AfterDetach(o), s, op[o].rec)
        \/ \E s : Goes(o, "drain", s, op[o].rec)
    BY <1>1, <1>8, GoesTo, GoesWith DEF Detach, Drain
  <2> QED
    BY <1>1, <1>8, <2>1
       DEF Detach, Drain, FlowOK, AfterDetach, Goes, Ahead, PathOK, For, BeforePull
<1>9. CASE BackendStop(o)
  <2>1. CASE To(o, "pull")
    <3>1. Goes(o, "pull", op[o].s, op[o].rec)
      BY <1>1, <2>1, GoesTo
    <3> QED
      BY <1>1, <1>9, <3>1 DEF BackendStop, FlowOK, Goes, Ahead, PathOK, For, BeforePull
  <2> QED
    BY <1>1, <1>9, <2>1, DoneAhead DEF BackendStop
<1>10. CASE PullFailed(o) \/ Forget(o) \/ Quiesce(o) \/ FinishStart(o) \/ Await(o)
  BY <1>1, <1>10, DoneAhead DEF PullFailed, Forget, Quiesce, FinishStart, Await
<1>11. CASE Apply(o)
  <2>1. CASE \E b, r : op' = [op EXCEPT ![o].pc = "uiLookup", ![o].restart = b, ![o].rec = r]
    <3>1. PICK b, r : op' = [op EXCEPT ![o].pc = "uiLookup", ![o].restart = b, ![o].rec = r]
      BY <2>1
    <3>2. Goes(o, "uiLookup", op[o].s, r)
      BY <1>1, <3>1, GoesWith
    <3> QED
      BY <1>11, <3>2 DEF Apply, PullEnded, Goes, Ahead, PathOK, For, BeforePull
  <2>2. CASE op' = [op EXCEPT ![o].pc = "find", ![o].then = "serve", ![o].rec = Absent]
    <3> DEFINE x == [op[o] EXCEPT !.pc = "find", !.then = "serve", !.rec = Absent]
    <3>1. x.pc = "find" /\ x.then = "serve" /\ x.kind = op[o].kind /\ x.artifact = op[o].artifact
      BY <1>1 DEF OperationState
    <3>2. op' = [op EXCEPT ![o] = x]
      BY <2>2
    <3> HIDE DEF x
    <3>3. /\ op'[o].pc = "find" /\ op'[o].then = "serve"
          /\ op'[o].kind = op[o].kind /\ op'[o].artifact = op[o].artifact
      BY <1>1, <3>1, <3>2
    <3> QED
      BY <1>11, <3>3 DEF Apply, PullEnded, Ahead, PathOK, For, BeforePull
  <2> QED
    BY <1>1, <1>11, <2>1, <2>2, DoneAhead DEF Apply
<1>12. CASE Remove(o)
  <2>1. CASE To(o, "forget")
    <3>1. Goes(o, "forget", op[o].s, op[o].rec)
      BY <1>1, <2>1, GoesTo
    <3> QED
      BY <1>12, <3>1 DEF Remove, Goes, Ahead, PathOK, For, BeforePull
  <2> QED
    BY <1>1, <1>12, <2>1, DoneAhead DEF Remove
<1>13. CASE StopBegin(o) \/ StopDrain(o)
  <2>1. Goes(o, "stopDrain", op[o].s, op[o].rec) \/ Goes(o, "stopBackend", op[o].s, op[o].rec)
    BY <1>1, <1>13, GoesTo DEF StopBegin, StopDrain
  <2> QED
    BY <1>13, <2>1 DEF StopBegin, StopDrain, Goes, Ahead, PathOK, For, BeforePull
<1>14. CASE StopBackend(o)
  <2>1. CASE To(o, "stopStore")
    <3>1. Goes(o, "stopStore", op[o].s, op[o].rec)
      BY <1>1, <2>1, GoesTo
    <3> QED
      BY <1>14, <3>1 DEF StopBackend, Goes, Ahead, PathOK, For, BeforePull
  <2> QED
    BY <1>1, <1>14, <2>1, DoneAhead DEF StopBackend
<1>15. CASE StopStore(o)
  <2>1. CASE To(o, IF op[o].kind = "stop" THEN "quiesce" ELSE "pull")
    <3>1. Goes(o, IF op[o].kind = "stop" THEN "quiesce" ELSE "pull", op[o].s, op[o].rec)
      BY <1>1, <2>1, GoesTo
    <3> QED
      BY <1>1, <1>15, <3>1 DEF StopStore, FlowOK, Goes, Ahead, PathOK, For, BeforePull
  <2> QED
    BY <1>1, <1>15, <2>1, DoneAhead DEF StopStore
<1>16. CASE RestoreBegin(o)
  <2>1. CASE SwitchOff(o, "restored")
    <3>1. Goes(o, "restored", op[o].s, op[o].rec)
      BY <1>1, <2>1, GoesTo
    <3> QED
      BY <1>16, <3>1 DEF RestoreBegin, PullEnded, Goes, Ahead, PathOK, For, BeforePull
  <2> QED
    BY <1>1, <1>16, <2>1, DoneAhead DEF RestoreBegin
<1>17. CASE ApplyRestore(o) \/ UIRemoved(o)
  <2>1. CASE StartOrReturn(o)
    <3>1. \/ Goes(o, "find", None, Absent) /\ op'[o].then = "serve"
          \/ Goes(o, "done", None, Absent)
      BY <1>1, <2>1, GoesTo
    <3> QED
      BY <1>17, <3>1 DEF ApplyRestore, UIRemoved, Goes, Ahead, PathOK, For, BeforePull
  <2> QED
    BY <1>1, <1>17, <2>1, DoneAhead DEF ApplyRestore, UIRemoved
<1>18. CASE Serve(o)
  <2>1. Goes(o, "finish", op[o].s, op[o].rec)
    BY <1>1, <1>18, GoesTo DEF Serve
  <2> QED
    BY <1>18, <2>1 DEF Serve, Goes, Ahead, PathOK, For, BeforePull
<1>19. CASE Run(o)
  <2>1. CASE To(o, "await")
    <3>1. Goes(o, "await", op[o].s, op[o].rec)
      BY <1>1, <2>1, GoesTo
    <3> QED
      BY <1>19, <3>1 DEF Run, Goes, Ahead, PathOK, For, BeforePull
  <2> QED
    BY <1>1, <1>19, <2>1, DoneAhead DEF Run
<1>20. CASE UILookup(o)
  <2>1. CASE GetSession(o, "uiAdd")
    <3>1. Goes(o, "find", None, op[o].rec) /\ op'[o].then = "uiAdd"
      BY <1>1, <2>1, GoesTo
    <3> QED
      BY <1>20, <3>1 DEF UILookup, Goes, Ahead, PathOK, For, BeforePull
  <2> QED
    BY <1>1, <1>20, <2>1, DoneAhead DEF UILookup
<1>21. CASE UIAdd(o) \/ UIQueue(o)
  <2>1. CASE To(o, "uiQueue") \/ To(o, "uiAwait") \/ To(o, "uiRemove")
    <3>1. \/ Goes(o, "uiQueue", op[o].s, op[o].rec) \/ Goes(o, "uiAwait", op[o].s, op[o].rec)
          \/ Goes(o, "uiRemove", op[o].s, op[o].rec)
      BY <1>1, <2>1, GoesTo
    <3> QED
      BY <1>21, <3>1 DEF UIAdd, UIQueue, Goes, Ahead, PathOK, For, BeforePull
  <2> QED
    BY <1>1, <1>21, <2>1, DoneAhead DEF UIAdd, UIQueue
<1>22. CASE UIAwait(o)
  <2>1. Goes(o, "uiRead", op[o].s, op[o].rec) \/ Goes(o, "uiRemove", op[o].s, op[o].rec)
    BY <1>1, <1>22, GoesTo DEF UIAwait, To
  <2> QED
    BY <1>22, <2>1 DEF UIAwait, Goes, Ahead, PathOK, For, BeforePull
<1>23. CASE UIRead(o) \/ UIStore(o)
  <2>1. /\ op'[o].kind = op[o].kind /\ op'[o].artifact = op[o].artifact
        /\ op'[o].pc \in {"uiStore", "uiRemove"}
    <3>1. CASE UIRead(o)
      <4> DEFINE x == [op[o] EXCEPT !.pc = IF store = Absent THEN "uiRemove" ELSE "uiStore",
                                    !.fresh = store]
      <4>1. /\ x.kind = op[o].kind /\ x.artifact = op[o].artifact
            /\ x.pc \in {"uiStore", "uiRemove"}
        BY <1>1 DEF OperationState
      <4>2. op' = [op EXCEPT ![o] = x]
        BY <3>1 DEF UIRead
      <4> HIDE DEF x
      <4> QED
        BY <1>1, <4>1, <4>2
    <3>2. CASE UIStore(o)
      <4> DEFINE x == [op[o] EXCEPT !.pc = "uiRemove", !.ok = store # Absent, !.fresh = Absent]
      <4>1. /\ x.kind = op[o].kind /\ x.artifact = op[o].artifact
            /\ x.pc \in {"uiStore", "uiRemove"}
        BY <1>1 DEF OperationState
      <4>2. op' = [op EXCEPT ![o] = x]
        BY <3>2 DEF UIStore
      <4> HIDE DEF x
      <4> QED
        BY <1>1, <4>1, <4>2
    <3> QED
      BY <1>23, <3>1, <3>2
  <2> QED
    BY <1>23, <2>1 DEF UIRead, UIStore, Ahead, PathOK, For, BeforePull
<1>24. CASE UIRemove(o)
  <2>1. CASE op' = [op EXCEPT ![o].pc = "uiRemoved"]
    <3>1. Goes(o, "uiRemoved", op[o].s, op[o].rec)
      BY <1>1, <2>1, GoesTo DEF To
    <3> QED
      BY <1>24, <3>1 DEF UIRemove, Goes, Ahead, PathOK, For, BeforePull
  <2> QED
    BY <1>1, <1>24, <2>1, DoneAhead DEF UIRemove
<1> QED
  BY <1>2, <1>3, <1>4, <1>5, <1>6, <1>7, <1>8, <1>9, <1>10, <1>11, <1>12, <1>13, <1>14, <1>15,
     <1>16, <1>17, <1>18, <1>19, <1>20, <1>21, <1>22, <1>23, <1>24 DEF Operation

\* The steps of an operation that has begun, outside of its pull.
LEMMA OutsidePull ==
    ASSUME SupervisorInv, PullInv, NEW o \in Calls, Operation(o), ~Begin(o), ~PullBegin(o)
    PROVE  /\ op[o].pc \notin {"idle", "done"}
           /\ op[o].pc = "pull" => call[o].pc = "done"
           /\ ~Calling(o) /\ Ahead(o)
           /\ \A p \in Calls \ {o} : op'[p] = op[p]
           /\ UNCHANGED <<pending, call, chan, worker>>
<1>1. OperationInv /\ op \in [Calls -> OperationState]
  BY DEF SupervisorInv, OperationInv, SupervisorTypeOK
<1>2. PathOK(o) /\ CallOK(o)
  BY DEF PullInv
<1>3. Ahead(o)
  BY <1>1, <1>2, StepsAhead
<1>4. \A p \in Calls \ {o} : op'[p] = op[p]
  BY <1>1, OthersStay
<1>5. UNCHANGED <<pending, call, chan, worker>>
  BY CallsStay
<1>6. op[o].pc \notin {"idle", "done"} /\ (op[o].pc = "pull" => call[o].pc = "done")
  BY DEF Operation, Find, Make, Cache, Uncache, Lookup, Insert, Detach, Drain, BackendStop,
     PullFailed, Apply, Remove, Forget, StopBegin, StopDrain, StopBackend, StopStore, Quiesce,
     RestoreBegin, ApplyRestore, Serve, FinishStart, Run, Await, UILookup, UIAdd, UIQueue,
     UIAwait, UIRead, UIStore, UIRemove, UIRemoved, PullEnded
<1>7. ~Calling(o)
  BY <1>2, <1>6 DEF CallOK, Calling
<1> QED
  BY <1>3, <1>4, <1>5, <1>6, <1>7

LEMMA StepsPull ==
    ASSUME SupervisorInv, PullInv, NEW o \in Calls, Operation(o), ~Begin(o), ~PullBegin(o)
    PROVE  PullInv'
<1>1. /\ op[o].pc \notin {"idle", "done"} /\ (op[o].pc = "pull" => call[o].pc = "done")
      /\ ~Calling(o) /\ Ahead(o)
      /\ \A p \in Calls \ {o} : op'[p] = op[p]
      /\ UNCHANGED <<pending, call, chan, worker>>
  BY OutsidePull
<1>2. PathOK(o) /\ CallOK(o)
  BY DEF PullInv
<1>3. CallOK(o)'
  BY <1>1, <1>2 DEF CallOK, Ahead, Calling
<1>4. ASSUME NEW p \in Calls \ {o} PROVE PathOK(p)' /\ CallOK(p)'
  BY <1>1 DEF PullInv, PathOK, CallOK, For, BeforePull, Calling
<1> QED
  BY <1>1, <1>3, <1>4 DEF PullInv, Ahead

LEMMA BeginPulls ==
    ASSUME SupervisorInv, PullInv, NEW o \in Calls, Begin(o)
    PROVE  PullInv'
<1>1. op \in [Calls -> OperationState] /\ op[o] \in OperationState
  BY DEF SupervisorInv, OperationInv, SupervisorTypeOK
<1>2. UNCHANGED <<pending, call, chan, worker>> /\ op[o].pc = "idle"
  BY DEF Begin, workerVars
<1>3. PICK kind \in Kinds, a \in Versions, restart \in BOOLEAN :
          op' = [op EXCEPT ![o].kind = kind, ![o].artifact = a, ![o].restart = restart,
                           ![o].pc = FirstStep(kind), ![o].then = AfterSession(kind)]
  BY DEF Begin
<1> DEFINE x == [op[o] EXCEPT !.kind = kind, !.artifact = a, !.restart = restart,
                              !.pc = FirstStep(kind), !.then = AfterSession(kind)]
<1>4. x.pc = FirstStep(kind) /\ x.then = AfterSession(kind) /\ x.kind = kind
  BY <1>1 DEF OperationState
<1>5. op' = [op EXCEPT ![o] = x]
  BY <1>3
<1> HIDE DEF x
<1>6. op'[o] = x /\ \A p \in Calls \ {o} : op'[p] = op[p]
  BY <1>1, <1>5
<1>7. kind \in OperationKinds
  BY SupervisorAssumption
<1>8. CallOK(o) /\ call[o].pc = "idle" /\ pending # o
  BY <1>2 DEF PullInv, CallOK, BeforePull, Calling
<1>9. PathOK(o)'
  BY <1>4, <1>6, <1>7
     DEF PathOK, For, FirstStep, AfterSession, OperationKinds, Filling, UISteps
<1>10. kind \in Pulling => BeforePull(o)'
  BY <1>4, <1>6, <1>7 DEF Pulling, Filling, BeforePull, For, FirstStep, AfterSession
<1>11. CallOK(o)'
  BY <1>2, <1>4, <1>6, <1>8, <1>10 DEF CallOK, Calling
<1>12. ASSUME NEW p \in Calls \ {o} PROVE PathOK(p)' /\ CallOK(p)'
  BY <1>2, <1>6 DEF PullInv, PathOK, CallOK, For, BeforePull, Calling
<1> QED
  BY <1>9, <1>11, <1>12 DEF PullInv

\* A step of the callbacks leaves the ways of the operations alone.
LEMMA PathsStay == PullInv /\ UNCHANGED op => \A p \in Calls : PathOK(p)'
BY DEF PullInv, PathOK, For

LEMMA PullBeginPulls ==
    ASSUME SupervisorInv, PullInv, NEW o \in Calls, PullBegin(o)
    PROVE  PullInv'
<1>1. UNCHANGED <<op, worker>> /\ op[o].pc = "pull" /\ Register(o, op[o].artifact)
  BY DEF PullBegin, supervisorVars, Register
<1>2. CallShape /\ CallsAssumption
  BY CallsAssumption DEF SupervisorInv, CallInv
<1>3. /\ call[o].pc = "idle" /\ call'[o].pc \in {"spawn", "done"}
      /\ call'[o].artifact = op[o].artifact /\ call'[o].result # "ok"
      /\ \A p \in Calls \ {o} : call'[p] = call[p]
      /\ \/ pending' = o /\ call'[o].pc = "spawn"
         \/ pending' = pending
  BY <1>1, <1>2 DEF Register, CallShape
<1>4. CallOK(o) /\ PathOK(o)
  BY DEF PullInv
<1>5. pending # o
  BY <1>3, <1>4 DEF CallOK, Calling
<1>6. CallOK(o)'
  BY <1>1, <1>3, <1>4, <1>5 DEF CallOK, PathOK, Calling, BeforePull, For
<1>7. ASSUME NEW p \in Calls \ {o} PROVE CallOK(p)'
  BY <1>1, <1>3 DEF PullInv, CallOK, Calling, BeforePull, For
<1> QED
  BY <1>1, <1>6, <1>7, PathsStay DEF PullInv

LEMMA CallPulls ==
    ASSUME SupervisorInv, PullInv, NEW o \in Calls, PullCall(o), UNCHANGED supervisorVars
    PROVE  PullInv'
<1>1. UNCHANGED op /\ CallShape /\ CallOK(o) /\ ChannelFree /\ o # None
  BY CallsAssumption DEF supervisorVars, SupervisorInv, CallInv, PullInv
<1>2. \A p \in Calls \ {o} : call'[p] = call[p] /\ worker'[p] = worker[p]
  BY <1>1 DEF PullCall, SpawnFails, StartWorker, SpawnReturns, SpawnTimesOut, Receive,
     WaitTimesOut, Cancel, CallTo, ReturnCall, CallShape
<1>3. pending' \in {pending, None} /\ Calling(o) /\ call'[o].artifact = call[o].artifact
  BY <1>1 DEF PullCall, SpawnFails, StartWorker, SpawnReturns, SpawnTimesOut, Receive,
     WaitTimesOut, Cancel, CallTo, ReturnCall, Ended, CallShape, Calling
<1>4. \/ /\ Calling(o)' /\ call'[o].result = call[o].result
         /\ call'[o].pc = "wait" => worker'[o] = "gone"
      \/ call'[o].pc = "done" /\ pending' # o
  BY <1>1 DEF PullCall, SpawnFails, StartWorker, SpawnReturns, SpawnTimesOut, Receive,
     WaitTimesOut, Cancel, CallTo, ReturnCall, Ended, CallShape, Calling, ChannelFree
<1>5. CallOK(o)'
  BY <1>1, <1>3, <1>4 DEF CallOK, Calling, BeforePull, For
<1>6. ASSUME NEW p \in Calls \ {o} PROVE CallOK(p)'
  <2>1. CallOK(p) /\ p # None
    BY CallsAssumption DEF PullInv
  <2> QED
    BY <1>1, <1>2, <1>3, <2>1 DEF CallOK, Calling, BeforePull, For
<1> QED
  BY <1>1, <1>5, <1>6, PathsStay DEF PullInv

LEMMA WorkerPulls ==
    ASSUME SupervisorInv, PullInv, NEW o \in Calls, Worker(o), UNCHANGED supervisorVars
    PROVE  PullInv'
<1>1. UNCHANGED <<op, call>> /\ CallShape
  BY DEF supervisorVars, SupervisorInv, CallInv, Worker, Pull, PullFails, Report, ReportRefused
<1>2. pending' \in {pending, None} /\ worker[o] # "gone"
  BY DEF Worker, Pull, PullFails, Report, ReportRefused
<1>3. \A p \in Calls \ {o} : worker'[p] = worker[p]
  BY <1>1 DEF Worker, Pull, PullFails, Report, ReportRefused, CallShape
<1>4. ASSUME NEW p \in Calls PROVE CallOK(p)'
  <2>1. CallOK(p) /\ p # None
    BY CallsAssumption DEF PullInv
  <2> QED
    BY <1>1, <1>2, <1>3, <2>1 DEF CallOK, Calling, BeforePull, For
<1> QED
  BY <1>1, <1>4, PathsStay DEF PullInv

\* A crash ends the operations under way and their calls.
LEMMA CrashEnds ==
    ASSUME SupervisorInv, Crash, NEW o \in Calls
    PROVE  /\ Running(o) => op'[o].pc = "done" /\ op'[o].ok = FALSE
                            /\ op'[o].kind = op[o].kind /\ op'[o].artifact = op[o].artifact
           /\ ~Running(o) => op'[o] = op[o]
           /\ Calling(o) => /\ call'[o].pc = "done" /\ call'[o].result = "failed"
                            /\ call'[o].artifact = call[o].artifact
           /\ ~Calling(o) => call'[o] = call[o]
<1>1. op[o] \in OperationState
  BY DEF SupervisorInv, OperationInv, SupervisorTypeOK
<1> DEFINE x == [op[o] EXCEPT !.pc = "done", !.ok = FALSE, !.rec = Absent,
                   !.fresh = Absent, !.s = None, !.then = "none", !.started = FALSE,
                   !.restart = FALSE]
<1>2. x.pc = "done" /\ x.ok = FALSE /\ x.kind = op[o].kind /\ x.artifact = op[o].artifact
  BY <1>1 DEF OperationState
<1>3. op'[o] = IF ~Running(o) THEN op[o] ELSE x
  BY DEF Crash
<1> HIDE DEF x
<1>4. call'[o] = IF call[o].pc \in {"idle", "done"} THEN call[o] ELSE Ended(o, "failed")
  BY DEF Crash
<1> QED
  BY <1>2, <1>3, <1>4 DEF Calling, Ended

LEMMA CrashPulls ==
    ASSUME SupervisorInv, PullInv, Crash
    PROVE  PullInv'
<1>1. pending' = None
  BY DEF Crash
<1>2. ASSUME NEW p \in Calls PROVE PathOK(p)' /\ CallOK(p)'
  <2>1. PathOK(p) /\ CallOK(p) /\ p # None
    BY CallsAssumption DEF PullInv
  <2>2. CASE Running(p)
    <3>1. /\ op'[p].pc = "done" /\ op'[p].kind = op[p].kind /\ op'[p].artifact = op[p].artifact
          /\ ~Calling(p)' /\ call'[p].artifact = call[p].artifact
          /\ call'[p].pc = "idle" <=> call[p].pc = "idle"
          /\ call'[p].result = "ok" => call'[p].pc = "done"
      BY <2>1, <2>2, CrashEnds DEF CallOK, Calling
    <3> QED
      BY <1>1, <2>1, <3>1 DEF PathOK, CallOK, Calling, BeforePull, For, UISteps
  <2>3. CASE ~Running(p)
    <3>1. ~Calling(p)
      BY <2>1, <2>3 DEF Running, CallOK
    <3>2. op'[p] = op[p] /\ call'[p] = call[p]
      BY <2>3, <3>1, CrashEnds
    <3> QED
      BY <1>1, <2>1, <3>1, <3>2 DEF PathOK, CallOK, Calling, BeforePull, For
  <2> QED
    BY <2>2, <2>3
<1> QED
  BY <1>2 DEF PullInv

\* PullInv is inductive, whether operations overlap or not.
LEMMA PullInvInductive ==
    ASSUME SupervisorInv, PullInv, [SupervisorNext]_allVars
    PROVE  PullInv'
<1>1. CASE \E o \in Calls : Operation(o)
  BY <1>1, StepsPull, BeginPulls, PullBeginPulls
<1>2. CASE \E o \in Calls : (PullCall(o) \/ Worker(o)) /\ UNCHANGED supervisorVars
  BY <1>2, CallPulls, WorkerPulls
<1>3. CASE UNCHANGED <<pending, call, worker, op>>
  BY <1>3 DEF PullInv, PathOK, CallOK, For, BeforePull, Calling
<1>4. (\E s \in Sessions, c \in Commands : SessionRun(s, c) \/ SessionEnd(s, c)) \/ Boot =>
         UNCHANGED <<pending, call, worker, op>>
  BY DEF SessionRun, SessionEnd, Boot, workerVars
<1>5. UNCHANGED allVars => UNCHANGED <<pending, call, worker, op>>
  BY DEF allVars, workerVars, supervisorVars
<1> QED
  BY <1>1, <1>2, <1>3, <1>4, <1>5, CrashPulls DEF SupervisorNext
-----------------------------------------------------------------------------
(* The root and the reports, while no worker is at large                   *)

NoneAtLarge == \A c \in Calls : ~AtLarge(c)

\* A result comes from the worker of the call that receives it, and the root
\* is what a worker that succeeded has pulled, until the next operation.
RootOK(o) ==
    /\ chan[o] # NoResult => chan[o].from = o
    /\ Calling(o) /\ (worker[o] \in {"pulled", "exit0"} \/ call[o].pc = "wait") =>
          root = call[o].artifact
    /\ call[o].result = "ok" /\ last = o => root = call[o].artifact

RootInv == ~overlap /\ NoneAtLarge => \A o \in Calls : RootOK(o)

\* Only the operation that began last has a call under way.
LEMMA LastCalls ==
    ASSUME SequentialInv, PullInv, ~overlap, NEW o \in Calls
    PROVE  /\ Calling(o) => last = o /\ call[o].result # "ok"
           /\ call[o].result = "ok" => ~Calling(o) /\ call[o].pc = "done"
BY DEF SequentialInv, PullInv, CallOK, Running, Calling

\* A worker that has outlived its call never goes away.
LEMMA AtLargeStays ==
    ASSUME SupervisorInv, [SupervisorNext]_allVars, NEW c \in Calls, AtLarge(c)
    PROVE  AtLarge(c)'
<1>1. CallShape /\ CallHistory /\ call[c].pc = "done" /\ worker[c] \notin {"none", "gone"}
  BY DEF SupervisorInv, CallInv, AtLarge
<1>2. CASE UNCHANGED <<call, worker>>
  BY <1>2 DEF AtLarge
<1>3. CASE \E o \in Calls : Operation(o)
  <2>1. PICK o \in Calls : Operation(o)
    BY <1>3
  <2>2. CASE PullBegin(o)
    BY <1>1, <2>2 DEF PullBegin, Register, CallShape, AtLarge
  <2> QED
    BY <1>2, <2>1, <2>2, CallsStay
<1>4. CASE \E o \in Calls : PullCall(o) \/ Worker(o)
  <2>1. PICK o \in Calls : PullCall(o) \/ Worker(o)
    BY <1>4
  <2>2. CASE PullCall(o)
    <3>1. o # c
      BY <1>1, <2>2 DEF PullCall, SpawnFails, StartWorker, SpawnReturns, SpawnTimesOut, Receive,
         WaitTimesOut, Cancel
    <3> QED
      BY <1>1, <2>2, <3>1 DEF PullCall, SpawnFails, StartWorker, SpawnReturns, SpawnTimesOut,
         Receive, WaitTimesOut, Cancel, CallTo, ReturnCall, CallShape, AtLarge
  <2>3. CASE Worker(o)
    BY <1>1, <2>3 DEF Worker, Pull, PullFails, Report, ReportRefused, CallShape, AtLarge
  <2> QED
    BY <2>1, <2>2, <2>3
<1>5. CASE Crash
  BY <1>1, <1>5 DEF Crash, AtLarge
<1>6. (\E s \in Sessions, d \in Commands : SessionRun(s, d) \/ SessionEnd(s, d)) \/ Boot
         => UNCHANGED <<call, worker>>
  BY DEF SessionRun, SessionEnd, Boot, workerVars
<1>7. UNCHANGED allVars => UNCHANGED <<call, worker>>
  BY DEF allVars, workerVars
<1> QED
  BY <1>2, <1>3, <1>4, <1>5, <1>6, <1>7 DEF SupervisorNext

LEMMA HistoriesStay ==
    ASSUME NEW o \in Calls, Operation(o), ~Begin(o), ~PullBegin(o)
    PROVE  Histories
BY DEF Operation, Find, Make, Cache, Uncache, Lookup, Insert, Detach, Drain, BackendStop,
   PullFailed, Apply, Remove, Forget, StopBegin, StopDrain, StopBackend, StopStore, Quiesce,
   RestoreBegin, ApplyRestore, Serve, FinishStart, Run, Await, UILookup, UIAdd, UIQueue,
   UIAwait, UIRead, UIStore, UIRemove, UIRemoved

LEMMA OverlapStays ==
    ASSUME overlap \in BOOLEAN, [SupervisorNext]_allVars, overlap
    PROVE  overlap'
<1>1. CASE \E o \in Calls : Operation(o)
  BY <1>1, HistoriesStay DEF Begin, PullBegin, supervisorVars, Histories
<1> QED
  BY <1>1 DEF SupervisorNext, supervisorVars, SessionRun, SessionEnd, Histories, Crash, Boot,
     allVars

\* Only a delete of the data changes the root outside of a pull.
LEMMA RootStays ==
    ASSUME NEW o \in Calls, Operation(o), ~Remove(o)
    PROVE  UNCHANGED root
BY DEF Operation, Begin, PullBegin, Register, workerVars, Find, Make, Cache, Uncache,
   Lookup, Insert, Detach, Drain, BackendStop, PullFailed, Apply, Forget, StopBegin,
   StopDrain, StopBackend, StopStore, Quiesce, RestoreBegin, ApplyRestore, Serve, FinishStart,
   Run, Await, UILookup, UIAdd, UIQueue, UIAwait, UIRead, UIStore, UIRemove, UIRemoved

LEMMA StepsRoot ==
    ASSUME SupervisorInv, SequentialInv, PullInv, ~overlap, \A p \in Calls : RootOK(p),
           NEW o \in Calls, Operation(o)
    PROVE  \A p \in Calls : RootOK(p)'
<1>1. CASE Begin(o)
  <2>1. UNCHANGED workerVars /\ last' = o /\ op[o].pc = "idle"
    BY <1>1 DEF Begin
  <2>2. call[o].result # "ok"
    BY <2>1 DEF PullInv, CallOK, BeforePull
  <2> QED
    BY <2>1, <2>2 DEF RootOK, Calling, workerVars, NoResult
<1>2. CASE PullBegin(o)
  <2>1. /\ UNCHANGED <<last, chan, worker, root>> /\ call[o].pc = "idle" /\ CallShape
        /\ worker[o] = "none"
    BY <1>2 DEF PullBegin, Register, supervisorVars, SupervisorInv, CallInv, CallHistory
  <2>2. /\ call'[o].result # "ok" /\ call'[o].pc # "wait"
        /\ \A p \in Calls \ {o} : call'[p] = call[p]
    BY <1>2, <2>1 DEF PullBegin, Register, CallShape
  <2> QED
    BY <2>1, <2>2 DEF RootOK, Calling, NoResult
<1>3. CASE Remove(o)
  <2>1. UNCHANGED <<last, pending, call, chan, worker>> /\ op[o].pc = "remove"
    BY <1>3 DEF Remove, Histories
  <2>2. last = o /\ call[o].pc = "idle" /\ call[o].result # "ok"
    BY <2>1 DEF SequentialInv, Running, PullInv, PathOK, CallOK, Pulling, Filling
  <2>3. \A p \in Calls : ~Calling(p)
    BY <2>2, LastCalls DEF Calling
  <2> QED
    BY <2>1, <2>2, <2>3 DEF RootOK, Calling, NoResult
<1>4. CASE ~Begin(o) /\ ~PullBegin(o) /\ ~Remove(o)
  <2>1. UNCHANGED <<last, pending, call, chan, worker, root>>
    BY <1>4, CallsStay, HistoriesStay, RootStays DEF Histories
  <2> QED
    BY <2>1 DEF RootOK, Calling, NoResult
<1> QED
  BY <1>1, <1>2, <1>3, <1>4

LEMMA CallsRoot ==
    ASSUME SupervisorInv, SequentialInv, PullInv, ~overlap, \A p \in Calls : RootOK(p),
           NEW o \in Calls, PullCall(o), UNCHANGED supervisorVars
    PROVE  \A p \in Calls : RootOK(p)'
<1>1. UNCHANGED <<last, chan>> /\ CallShape /\ CallHistory
  BY DEF supervisorVars, SupervisorInv, CallInv, PullCall, SpawnFails, StartWorker, SpawnReturns,
     SpawnTimesOut, Receive, WaitTimesOut, Cancel
<1>2. \A p \in Calls \ {o} : call'[p] = call[p] /\ worker'[p] = worker[p]
  BY <1>1 DEF PullCall, SpawnFails, StartWorker, SpawnReturns, SpawnTimesOut, Receive,
     WaitTimesOut, Cancel, CallTo, ReturnCall, CallShape
<1>3. Calling(o) /\ call'[o].artifact = call[o].artifact
  BY <1>1 DEF PullCall, SpawnFails, StartWorker, SpawnReturns, SpawnTimesOut, Receive,
     WaitTimesOut, Cancel, CallTo, ReturnCall, Ended, CallShape, Calling
<1>4. last = o /\ call[o].result # "ok"
  BY <1>3, LastCalls
<1>5. \A p \in Calls \ {o} : ~Calling(p) /\ last # p
  BY <1>4, LastCalls
<1>6. RootOK(o)
  OBVIOUS
<1>7. RootOK(o)'
  <2>1. CASE SpawnFails(o) \/ StartWorker(o)
    <3>1. /\ call[o].pc = "spawn" /\ worker[o] = "none" /\ worker'[o] \in {"none", "pulling"}
          /\ call'[o].pc \in {"cancel", "running"} /\ call'[o].result = call[o].result
      BY <1>1, <2>1 DEF SpawnFails, StartWorker, CallTo, CallShape, CallHistory
    <3> QED
      BY <1>1, <1>4, <1>6, <3>1 DEF RootOK, NoResult
  <2>2. CASE SpawnReturns(o)
    BY <1>1, <1>3, <1>4, <1>6, <2>2 DEF SpawnReturns, CallTo, RootOK, NoResult, CallShape
  <2>3. CASE SpawnTimesOut(o)
    BY <1>1, <1>3, <1>4, <1>6, <2>3 DEF SpawnTimesOut, CallTo, RootOK, NoResult, CallShape
  <2>4. CASE Receive(o)
    BY <1>1, <1>3, <1>6, <2>4 DEF Receive, ReturnCall, Ended, RootOK, NoResult, CallShape, Calling
  <2>5. CASE WaitTimesOut(o) \/ Cancel(o)
    BY <1>1, <1>3, <1>4, <1>6, <2>5
       DEF WaitTimesOut, Cancel, CallTo, ReturnCall, Ended, RootOK, NoResult, CallShape, Calling
  <2> QED
    BY <2>1, <2>2, <2>3, <2>4, <2>5 DEF PullCall
<1> QED
  BY <1>1, <1>2, <1>5, <1>7 DEF RootOK, Calling, NoResult

LEMMA WorkersRoot ==
    ASSUME SupervisorInv, SequentialInv, PullInv, ~overlap, NoneAtLarge,
           \A p \in Calls : RootOK(p),
           NEW o \in Calls, Worker(o), UNCHANGED supervisorVars
    PROVE  \A p \in Calls : RootOK(p)'
<1>1. UNCHANGED <<last, call>> /\ CallShape /\ CallHistory
  BY DEF supervisorVars, SupervisorInv, CallInv, Worker, Pull, PullFails, Report, ReportRefused
<1>2. worker[o] \in {"pulling", "pulled", "error"}
  BY DEF Worker, Pull, PullFails, Report, ReportRefused
<1>3. Calling(o) /\ call[o].pc # "wait"
  BY <1>1, <1>2 DEF CallHistory, NoneAtLarge, AtLarge, Calling, PullInv, CallOK
<1>4. last = o /\ call[o].result # "ok"
  BY <1>3, LastCalls
<1>5. \A p \in Calls \ {o} : ~Calling(p) /\ last # p
  BY <1>4, LastCalls
<1>6. RootOK(o)
  OBVIOUS
<1>7. \A p \in Calls \ {o} : chan'[p] = chan[p]
  <2>1. CASE Report(o)
    <3>1. pending = o
      BY <1>1, <1>5, <2>1 DEF Report, PullInv, CallOK, CallShape
    <3> QED
      BY <1>1, <2>1, <3>1 DEF Report, CallShape
  <2> QED
    BY <2>1 DEF Worker, Pull, PullFails, ReportRefused
<1>8. RootOK(o)'
  <2>1. CASE Pull(o) \/ PullFails(o) \/ ReportRefused(o)
    BY <1>1, <1>3, <1>4, <1>6, <2>1
       DEF Pull, PullFails, ReportRefused, RootOK, Calling, NoResult, CallShape
  <2>2. CASE Report(o)
    <3>1. pending = o
      BY <1>1, <1>5, <2>2 DEF Report, PullInv, CallOK, CallShape
    <3>2. chan'[o].from = o /\ UNCHANGED root
      BY <1>1, <2>2, <3>1 DEF Report, CallShape
    <3>3. worker'[o] \in {"pulled", "exit0"} => worker[o] = "pulled"
      BY <1>1, <2>2 DEF Report, CallShape
    <3> QED
      BY <1>1, <1>3, <1>4, <1>6, <3>2, <3>3 DEF RootOK, Calling
  <2> QED
    BY <2>1, <2>2 DEF Worker
<1> QED
  BY <1>1, <1>5, <1>7, <1>8 DEF RootOK, Calling, NoResult

LEMMA RootInvInductive ==
    ASSUME SupervisorInv, SequentialInv, PullInv, RootInv, [SupervisorNext]_allVars
    PROVE  RootInv'
<1>1. SUFFICES ASSUME ~overlap', NoneAtLarge' PROVE \A p \in Calls : RootOK(p)'
  BY DEF RootInv
<1>2. ~overlap /\ NoneAtLarge
  BY <1>1, OverlapStays, AtLargeStays
     DEF NoneAtLarge, SupervisorInv, OperationInv, SupervisorTypeOK
<1>3. \A p \in Calls : RootOK(p)
  BY <1>2 DEF RootInv
<1>4. CASE \E o \in Calls : Operation(o)
  BY <1>2, <1>3, <1>4, StepsRoot
<1>5. CASE \E o \in Calls : (PullCall(o) \/ Worker(o)) /\ UNCHANGED supervisorVars
  BY <1>2, <1>3, <1>5, CallsRoot, WorkersRoot
<1>6. CASE UNCHANGED <<last, call, chan, worker, root>>
  BY <1>3, <1>6 DEF RootOK, Calling, NoResult
<1>7. (\E s \in Sessions, c \in Commands : SessionRun(s, c) \/ SessionEnd(s, c)) \/ Boot
         => UNCHANGED <<last, call, chan, worker, root>>
  BY DEF SessionRun, SessionEnd, Histories, Boot, workerVars
<1>8. UNCHANGED allVars => UNCHANGED <<last, call, chan, worker, root>>
  BY DEF allVars, workerVars, supervisorVars
<1>9. CASE Crash
  <2>1. UNCHANGED <<last, chan, root>>
    BY <1>9 DEF Crash
  <2>2. \A p \in Calls : /\ ~Calling(p)'
                         /\ call'[p].result = "ok" => call'[p] = call[p]
    BY <1>9, CrashEnds DEF Calling
  <2> QED
    BY <1>3, <2>1, <2>2 DEF RootOK, Calling, NoResult
<1> QED
  BY <1>4, <1>5, <1>6, <1>7, <1>8, <1>9 DEF SupervisorNext
-----------------------------------------------------------------------------
(* What the operation that began last leaves behind                        *)

\* What was pulled is what is stored.
Fetched(o) ==
    /\ call[o].result = "ok" /\ store # Absent /\ store.yaml # None
    /\ NoneAtLarge => store.yaml = op[o].artifact

\* A restore pulls while nothing runs.
RestoreOK(o) == op[o].kind = "restore" /\ op[o].pc \in {"pull", "restored"} => Quiet(op[o].s)

\* A publication that is part of an operation has the record of that, and the
\* session in the map runs nothing but the command that publishes.
PublishOK(o) ==
    op[o].kind \in Filling =>
        /\ op[o].pc \in UISteps \/ For(o, "uiAdd") => op[o].rec # Absent
        /\ op[o].pc = "uiLookup" \/ (op[o].pc = "find" /\ op[o].then = "uiAdd") => cached = None
        /\ op[o].pc \in UISteps /\ cached # None =>
              /\ session[cached].waiting \cup session[cached].busy \subseteq {o}
              /\ op[o].pc # "uiAwait" => Quiet(cached)

FetchedOK(o) ==
    /\ call[o].pc = "done" /\ op[o].pc \notin {"pull", "restored"}
    /\ Running(o) \/ op[o].ok
    => Fetched(o)

\* An operation that failed after its pull has marked the scroll, and nothing
\* runs that would store another status.
MarkedOK(o) ==
    call[o].pc = "done" /\ ~Running(o) /\ ~op[o].ok /\ crashes = 0 =>
        store # Absent /\ store.status = "error" /\ (cached # None => Quiet(cached))

LastOK(o) == RestoreOK(o) /\ PublishOK(o) /\ FetchedOK(o) /\ MarkedOK(o)

LastInv == ~overlap => \A o \in Calls : last = o => LastOK(o)

\* The stored file is the one that was fetched as long as it is not replaced.
LEMMA StillFetched ==
    ASSUME NEW o \in Calls, Fetched(o), UNCHANGED <<call, worker>>,
           op'[o].artifact = op[o].artifact, store' # Absent, store'.yaml = store.yaml
    PROVE  Fetched(o)'
BY DEF Fetched, NoneAtLarge, AtLarge

\* The operation goes on, or returns success, with what it has fetched.
LEMMA FetchedEnds ==
    ASSUME NEW o \in Calls, Fetched(o)', op'[o].pc \notin {"pull", "restored"},
           Running(o)' \/ op'[o].ok, PublishOK(o)'
    PROVE  LastOK(o)'
BY DEF LastOK, RestoreOK, FetchedOK, MarkedOK

LEMMA PublishesNot ==
    ASSUME NEW o \in Calls, op'[o].pc \notin UISteps, ~For(o, "uiAdd")'
    PROVE  PublishOK(o)'
BY DEF PublishOK, For, UISteps

\* It returns an error, and has marked the scroll.
LEMMA MarkedEnds ==
    ASSUME NEW o \in Calls, Goes(o, "done", None, Absent), op'[o].ok = FALSE,
           store' # Absent, store'.status = "error", cached' # None => Quiet(cached)'
    PROVE  LastOK(o)'
<1>1. op'[o].pc = "done"
  BY DEF Goes
<1>2. PublishOK(o)'
  BY <1>1, PublishesNot DEF For, UISteps
<1> QED
  BY <1>1, <1>2 DEF LastOK, RestoreOK, FetchedOK, MarkedOK, Running

LEMMA FailMarks ==
    ASSUME NEW o \in Calls, op \in [Calls -> OperationState], store \in Record \cup {Absent},
           Fail(o), store # Absent, op[o].rec # Absent, UNCHANGED <<cached, session>>,
           cached = None \/ Quiet(cached)
    PROVE  LastOK(o)'
<1>1. Goes(o, "done", None, Absent) /\ op'[o].ok = FALSE
  BY GoesTo DEF Fail
<1>2. op[o].rec \in Record
  BY DEF OperationState
<1>3. PICK m \in Record : m = WithStatus(op[o].rec, "error") /\ m.status = "error"
  BY <1>2, StatusKeeps DEF ScrollStatuses
<1>4. store' = Merged(m)
  BY <1>3 DEF Fail, UpdateScroll
<1>5. store' # Absent /\ store'.status = "error"
  BY <1>3, <1>4, MergedKeeps
<1>6. cached' # None => Quiet(cached)'
  BY DEF Quiet
<1> QED
  BY <1>1, <1>5, <1>6, MarkedEnds

\* A restore marks the record of its session, which runs nothing.
LEMMA RestoreMarks ==
    ASSUME NEW o \in Calls, op \in [Calls -> OperationState], store \in Record \cup {Absent},
           session \in [Sessions -> SessionState], NEW s \in Sessions, session[s].rec \in Record,
           WriteRecord(s, WithStatus(session[s].rec, "error")), Return(o, FALSE),
           store # Absent, cached = s, Quiet(s), UNCHANGED cached
    PROVE  LastOK(o)'
<1>1. Goes(o, "done", None, Absent) /\ op'[o].ok = FALSE
  BY GoesTo
<1>2. PICK m \in Record : m = WithStatus(session[s].rec, "error") /\ m.status = "error"
  BY StatusKeeps DEF ScrollStatuses
<1>3. store' = Merged(m)
  BY <1>2, RecordStored DEF UpdateScroll
<1>4. store' # Absent /\ store'.status = "error"
  BY <1>2, <1>3, MergedKeeps
<1>5. Quiet(s)'
  BY Written DEF Quiet
<1> QED
  BY <1>1, <1>4, <1>5, MarkedEnds

\* What an operation has pulled is what it was asked for, unless a worker is
\* at large.
LEMMA PulledFile ==
    ASSUME SupervisorInv, PullInv, RootInv, ~overlap, NEW o \in Calls,
           call[o].pc = "done", call[o].result = "ok"
    PROVE  /\ Pulled(o) # None
           /\ NoneAtLarge => Pulled(o) = op[o].artifact
           /\ \A r \in Record : /\ Materialized(o, r) \in Record
                                /\ Materialized(o, r).yaml = Pulled(o)
<1>1. Pulled(o) \in Versions
  BY PulledType DEF SupervisorInv
<1>2. NoneAtLarge => Pulled(o) = op[o].artifact
  <2> SUFFICES ASSUME NoneAtLarge PROVE Pulled(o) = op[o].artifact
    OBVIOUS
  <2>1. chan[o] # NoResult /\ RootOK(o) /\ CallOK(o)
    BY DEF SupervisorInv, CallVersions, RootInv, PullInv
  <2> QED
    BY <2>1 DEF RootOK, CallOK, Pulled
<1>3. ASSUME NEW r \in Record
      PROVE  Materialized(o, r) \in Record /\ Materialized(o, r).yaml = Pulled(o)
  BY MaterializedType DEF Materialized, Record
<1> QED
  BY <1>1, <1>2, <1>3, CallsAssumption

\* What a step after the pull finds.
LEMMA PulledFacts ==
    ASSUME SupervisorInv, SequentialInv, MatchInv, PullInv, ~overlap, NEW o \in Calls,
           Operation(o), ~Begin(o), ~PullBegin(o), call[o].pc = "done", LastOK(o)
    PROVE  /\ Running(o) /\ op \in [Calls -> OperationState] /\ op[o] \in OperationState
           /\ session \in [Sessions -> SessionState] /\ store \in Record \cup {Absent}
           /\ UNCHANGED <<call, chan, worker>>
           /\ op'[o].artifact = op[o].artifact /\ op'[o].kind = op[o].kind
           /\ MatchOK(o)' /\ op[o].kind \in Pulling
           /\ op[o].pc \notin {"pull", "restored"} => Fetched(o)
           /\ op[o].pc \notin {"idle", "lookup", "insert", "detach", "drain", "backend", "stop",
                               "stopDrain", "stopBackend", "stopStore", "quiesce", "uncache",
                               "run", "await", "remove", "forget"}
           /\ op[o].pc \in {"find", "make", "cache"} => op[o].then \in {"serve", "uiAdd"}
           /\ Holds(o) /\ op[o].pc # "cache" =>
                 /\ op[o].s \in Sessions /\ op[o].s # None /\ cached = op[o].s
                 /\ session[op[o].s].rec \in Record /\ session[op[o].s].rec.yaml # None
                 /\ store # Absent /\ SameFile(session[op[o].s].rec, store)
<1>1. /\ Running(o) /\ ~Calling(o) /\ Ahead(o) /\ UNCHANGED <<call, chan, worker>>
  BY OutsidePull DEF Running
<1>2. /\ op \in [Calls -> OperationState] /\ op[o] \in OperationState
      /\ session \in [Sessions -> SessionState] /\ store \in Record \cup {Absent}
      /\ FlowOK(o) /\ AloneOK(o) /\ CachedOK /\ MatchOK(o)
      /\ Holds(o) => op[o].s \in Sessions /\ session[op[o].s].rec \in Record
  BY <1>1, MatchFacts
<1>3. MatchOK(o)'
  <2>1. MatchInv' /\ ~overlap'
    BY OperationsMatch, HistoriesStay DEF Histories
  <2> QED
    BY <2>1 DEF MatchInv
<1>4. PathOK(o) /\ op[o].kind \in Pulling /\ ~BeforePull(o)
  BY DEF PullInv, CallOK
<1>5. op[o].pc \notin {"pull", "restored"} => Fetched(o)
  BY <1>1 DEF LastOK, FetchedOK
<1>6. op[o].pc \notin {"idle", "lookup", "insert", "detach", "drain", "backend", "stop",
                       "stopDrain", "stopBackend", "stopStore", "quiesce", "uncache",
                       "run", "await", "remove", "forget"}
  BY <1>2, <1>4 DEF PathOK, FlowOK, BeforePull, Pulling, Filling
<1>7. op[o].pc \in {"find", "make", "cache"} => op[o].then \in {"serve", "uiAdd"}
  BY <1>2, <1>4 DEF PathOK, FlowOK, BeforePull, For, OperationState, Pulling, Filling
<1>8. ASSUME Holds(o), op[o].pc # "cache"
      PROVE  /\ op[o].s # None /\ cached = op[o].s
             /\ session[op[o].s].rec.yaml # None
             /\ store # Absent /\ SameFile(session[op[o].s].rec, store)
  <2>1. op[o].s # None
    BY <1>2, <1>8, SupervisorAssumption
  <2>2. cached = op[o].s
    BY <1>2, <1>6, <1>8, <2>1 DEF AloneOK, Detached
  <2> QED
    BY <1>2, <2>1, <2>2 DEF CachedOK, MatchOK
<1> QED
  BY <1>1, <1>2, <1>3, <1>4, <1>5, <1>6, <1>7, <1>8 DEF Ahead

\* After the pull the operation finds the session in the map, or makes it.
LEMMA FindLast ==
    ASSUME SupervisorInv, SequentialInv, MatchInv, PullInv, ~overlap, NEW o \in Calls,
           Operation(o), ~Begin(o), ~PullBegin(o), call[o].pc = "done", LastOK(o),
           Find(o) \/ Make(o) \/ Cache(o)
    PROVE  LastOK(o)'
<1>1. op[o].pc \in {"find", "make", "cache"}
  BY DEF Find, Make, Cache
<1>2. /\ op \in [Calls -> OperationState] /\ UNCHANGED <<call, worker>>
      /\ op'[o].artifact = op[o].artifact /\ op[o].then \in {"serve", "uiAdd"} /\ Fetched(o)
  BY <1>1, PulledFacts
<1>3. AloneOK(o) /\ PathOK(o) /\ PublishOK(o)
  BY <1>1, MatchFacts DEF Running, PullInv, LastOK
<1>4. op[o].then = "uiAdd" /\ op[o].kind \in Filling => op[o].rec # Absent
  BY <1>1, <1>3 DEF PublishOK, For
<1>5. CASE Find(o)
  <2>1. UNCHANGED store /\ op[o].pc = "find"
    BY <1>5 DEF Find
  <2>2. \/ Goes(o, "make", op[o].s, op[o].rec) /\ op'[o].then = op[o].then
        \/ Goes(o, op[o].then, cached, op[o].rec) /\ cached # None
    <3>1. CASE To(o, "make")
      BY <1>2, <3>1, GoesTo
    <3>2. CASE cached # None /\ op' = [op EXCEPT ![o].pc = op[o].then, ![o].s = cached]
      BY <1>2, <3>2, GoesWith
    <3> QED
      BY <1>2, <1>5, <3>1, <3>2 DEF Find
  <2>3. PublishOK(o)'
    BY <1>2, <1>3, <1>4, <2>1, <2>2 DEF PublishOK, For, Goes, UISteps
  <2>4. Fetched(o)'
    BY <1>2, <2>1, StillFetched DEF Fetched
  <2> QED
    BY <1>2, <2>2, <2>3, <2>4, FetchedEnds DEF Goes, Running
<1>6. CASE Make(o)
  <2>1. HasFile
    BY <1>2 DEF Fetched, HasFile
  <2>2. PICK s \in Sessions : op' = [op EXCEPT ![o].pc = "cache", ![o].s = s]
    BY <1>6, <2>1 DEF Make
  <2>3. UNCHANGED store
    BY <1>6, <2>1 DEF Make
  <2>4. Goes(o, "cache", s, op[o].rec) /\ op'[o].then = op[o].then
    BY <1>2, <2>2, GoesWith
  <2>5. PublishOK(o)'
    BY <1>4, <2>4 DEF PublishOK, For, Goes, UISteps
  <2>6. Fetched(o)'
    BY <1>2, <2>3, StillFetched DEF Fetched
  <2> QED
    BY <2>4, <2>5, <2>6, FetchedEnds DEF Goes, Running
<1>7. CASE Cache(o)
  <2>1. op[o].pc = "cache" /\ cached = None /\ Quiet(op[o].s) /\ UNCHANGED store
    BY <1>3, <1>7 DEF Cache, AloneOK
  <2>2. cached' = op[o].s /\ To(o, op[o].then) /\ UNCHANGED session
    BY <1>7, <2>1 DEF Cache
  <2>3. Goes(o, op[o].then, op[o].s, op[o].rec)
    BY <1>2, <2>2, GoesTo
  <2>4. Quiet(cached)'
    BY <2>1, <2>2 DEF Quiet
  <2>5. PublishOK(o)'
    BY <1>2, <1>4, <2>3, <2>4 DEF PublishOK, For, Goes, UISteps, Quiet
  <2>6. Fetched(o)'
    BY <1>2, <2>1, StillFetched DEF Fetched
  <2> QED
    BY <1>2, <2>3, <2>5, <2>6, FetchedEnds DEF Goes, Running
<1> QED
  BY <1>5, <1>6, <1>7

LEMMA PullFailedLast ==
    ASSUME SupervisorInv, SequentialInv, MatchInv, PullInv, ~overlap, NEW o \in Calls,
           Operation(o), ~Begin(o), ~PullBegin(o), LastOK(o), PullFailed(o)
    PROVE  LastOK(o)'
<1>1. op[o].pc = "pull" /\ call[o].pc = "done" /\ UNCHANGED cached
  BY DEF PullFailed, PullEnded
<1>2. /\ op \in [Calls -> OperationState] /\ session \in [Sessions -> SessionState]
      /\ store \in Record \cup {Absent} /\ MatchOK(o)
  BY <1>1, PulledFacts, MatchFacts
<1>3. CASE op[o].kind = "restore"
  <2>1. /\ op[o].s \in Sessions /\ cached = op[o].s /\ session[op[o].s].rec \in Record
        /\ store # Absent
    BY <1>1, <1>3, PulledFacts DEF Holds
  <2>2. Quiet(op[o].s)
    BY <1>1, <1>3 DEF LastOK, RestoreOK
  <2> QED
    BY <1>1, <1>2, <1>3, <2>1, <2>2, RestoreMarks DEF PullFailed
<1>4. CASE op[o].kind # "restore"
  <2>1. op[o].rec # Absent /\ store # Absent /\ cached = None
    BY <1>1, <1>2, <1>4, MatchFacts, RecordThere DEF HasRecord, HandOK, MatchOK, Running
  <2> QED
    BY <1>1, <1>2, <1>4, <2>1, FailMarks DEF PullFailed
<1> QED
  BY <1>3, <1>4

LEMMA ApplyLast ==
    ASSUME SupervisorInv, SequentialInv, MatchInv, PullInv, RootInv, ~overlap, NEW o \in Calls,
           Operation(o), ~Begin(o), ~PullBegin(o), LastOK(o), Apply(o)
    PROVE  LastOK(o)'
<1>1. /\ op[o].pc = "pull" /\ op[o].kind # "restore" /\ UNCHANGED <<cached, session>>
      /\ call[o].pc = "done" /\ call[o].result = "ok"
  BY DEF Apply, PullEnded
<1>2. /\ op \in [Calls -> OperationState] /\ op[o] \in OperationState
      /\ store \in Record \cup {Absent} /\ MatchOK(o) /\ UNCHANGED <<call, worker>>
      /\ op'[o].artifact = op[o].artifact
  BY <1>1, PulledFacts, MatchFacts
<1>3. op[o].rec # Absent /\ op[o].rec \in Record /\ store # Absent /\ cached = None
  BY <1>1, <1>2, MatchFacts, RecordThere DEF HasRecord, HandOK, MatchOK, Running
<1>4. PICK r \in Record : r = Materialized(o, op[o].rec) /\ r.yaml = Pulled(o)
  BY <1>1, <1>3, PulledFile
<1>5. CASE Fail(o)
  BY <1>1, <1>2, <1>3, <1>5, FailMarks
<1>6. CASE /\ UpdateScroll(r)
           /\ \/ \E restart : op' = [op EXCEPT ![o].pc = "uiLookup", ![o].restart = restart,
                                               ![o].rec = Merged(r)]
              \/ op' = [op EXCEPT ![o].pc = "find", ![o].then = "serve", ![o].rec = Absent]
              \/ Return(o, TRUE)
  <2>1. store' = Merged(r) /\ store' # Absent /\ store'.yaml = Pulled(o)
    BY <1>2, <1>3, <1>4, <1>6, MergedKeeps DEF UpdateScroll, SameFile
  <2>2. Pulled(o) # None /\ (NoneAtLarge => Pulled(o) = op[o].artifact)
    BY <1>1, PulledFile
  <2>3. Fetched(o)'
    BY <1>1, <1>2, <2>1, <2>2 DEF Fetched, NoneAtLarge, AtLarge
  <2>4. CASE \E restart : op' = [op EXCEPT ![o].pc = "uiLookup", ![o].restart = restart,
                                           ![o].rec = Merged(r)]
    <3>1. Goes(o, "uiLookup", op[o].s, store')
      <4>1. PICK restart : op' = [op EXCEPT ![o].pc = "uiLookup", ![o].restart = restart,
                                            ![o].rec = store']
        BY <2>1, <2>4
      <4> QED
        BY <1>2, <4>1, GoesWith
    <3>2. PublishOK(o)'
      BY <1>1, <1>3, <2>1, <3>1 DEF PublishOK, Goes
    <3> QED
      BY <2>3, <3>1, <3>2, FetchedEnds DEF Goes, Running
  <2>5. CASE op' = [op EXCEPT ![o].pc = "find", ![o].then = "serve", ![o].rec = Absent]
    <3> DEFINE x == [op[o] EXCEPT !.pc = "find", !.then = "serve", !.rec = Absent]
    <3>1. x.pc = "find" /\ x.then = "serve"
      BY <1>2 DEF OperationState
    <3>2. op' = [op EXCEPT ![o] = x]
      BY <2>5
    <3> HIDE DEF x
    <3>3. op'[o].pc = "find" /\ op'[o].then = "serve"
      BY <1>2, <3>1, <3>2
    <3>4. PublishOK(o)'
      BY <3>3, PublishesNot DEF For, UISteps
    <3> QED
      BY <2>3, <3>3, <3>4, FetchedEnds DEF Running
  <2>6. CASE Return(o, TRUE)
    <3>1. Goes(o, "done", None, Absent) /\ op'[o].ok
      BY <1>2, <2>6, GoesTo
    <3>2. PublishOK(o)'
      BY <3>1, PublishesNot DEF For, Goes, UISteps
    <3> QED
      BY <2>3, <3>1, <3>2, FetchedEnds DEF Goes
  <2> QED
    BY <1>6, <2>4, <2>5, <2>6
<1> QED
  BY <1>3, <1>4, <1>5, <1>6 DEF Apply

LEMMA RestoreBeginLast ==
    ASSUME SupervisorInv, SequentialInv, MatchInv, PullInv, ~overlap, NEW o \in Calls,
           Operation(o), ~Begin(o), ~PullBegin(o), LastOK(o), RestoreBegin(o)
    PROVE  LastOK(o)'
<1>1. /\ op[o].pc = "pull" /\ call[o].pc = "done" /\ UNCHANGED cached
      /\ op[o].kind = "restore"
  BY DEF RestoreBegin, PullEnded
<1>2. /\ op \in [Calls -> OperationState] /\ session \in [Sessions -> SessionState]
      /\ store \in Record \cup {Absent}
      /\ op[o].s \in Sessions /\ cached = op[o].s /\ session[op[o].s].rec \in Record
      /\ store # Absent
  BY <1>1, PulledFacts DEF Holds
<1>3. Quiet(op[o].s)
  BY <1>1 DEF LastOK, RestoreOK
<1>4. CASE SwitchOff(o, "restored")
  <2>1. Goes(o, "restored", op[o].s, op[o].rec)
    BY <1>2, <1>4, GoesTo
  <2>2. Quiet(op[o].s)'
    <3>1. \A t \in Sessions : /\ session'[t].waiting = session[t].waiting
                              /\ session'[t].busy = session[t].busy
      BY <1>2, <1>4 DEF SwitchOff, SessionState
    <3> QED
      BY <1>2, <1>3, <2>1, <3>1 DEF Quiet, Goes
  <2>3. PublishOK(o)'
    BY <2>1, PublishesNot DEF For, Goes, UISteps
  <2> QED
    BY <2>1, <2>2, <2>3 DEF LastOK, RestoreOK, FetchedOK, MarkedOK, Goes, Running
<1>5. CASE WriteRecord(op[o].s, WithStatus(session[op[o].s].rec, "error")) /\ Return(o, FALSE)
  BY <1>1, <1>2, <1>3, <1>5, RestoreMarks
<1> QED
  BY <1>4, <1>5 DEF RestoreBegin

LEMMA ApplyRestoreLast ==
    ASSUME SupervisorInv, SequentialInv, MatchInv, PullInv, RootInv, ~overlap, NEW o \in Calls,
           Operation(o), ~Begin(o), ~PullBegin(o), LastOK(o), ApplyRestore(o)
    PROVE  LastOK(o)'
<1>1. op[o].pc = "restored" /\ call[o].pc = "done" /\ call[o].result = "ok" /\ UNCHANGED cached
  BY DEF ApplyRestore, SupervisorInv, RestorePulled
<1>2. /\ op \in [Calls -> OperationState] /\ store \in Record \cup {Absent}
      /\ op'[o].artifact = op[o].artifact /\ UNCHANGED <<call, worker>>
      /\ op[o].s \in Sessions /\ session[op[o].s].rec \in Record /\ store # Absent
  BY <1>1, PulledFacts DEF Holds
<1>3. PICK m \in Record : m = Materialized(o, session[op[o].s].rec) /\ m.yaml = Pulled(o)
  BY <1>1, <1>2, PulledFile
<1>4. PICK r \in Record :
         /\ r = [m EXCEPT !.procs["serve"] = session[op[o].s].rec.procs["serve"],
                          !.status = "stopped"]
         /\ r.yaml = Pulled(o)
  <2> DEFINE new == [m EXCEPT !.procs["serve"] = session[op[o].s].rec.procs["serve"],
                              !.status = "stopped"]
  <2>1. session[op[o].s].rec.procs["serve"] \in ProcedureStatuses
    BY <1>2 DEF Record, Commands
  <2>2. new \in Record /\ new.yaml = m.yaml
    BY <2>1 DEF Record, Commands, ScrollStatuses
  <2> QED
    BY <1>3, <2>2
<1>5. UpdateScroll(r) /\ StartOrReturn(o)
  BY <1>2, <1>3, <1>4 DEF ApplyRestore
<1>6. store' # Absent /\ store'.yaml = Pulled(o)
  BY <1>2, <1>4, <1>5, MergedKeeps DEF UpdateScroll, SameFile
<1>7. Pulled(o) # None /\ (NoneAtLarge => Pulled(o) = op[o].artifact)
  BY <1>1, PulledFile
<1>8. Fetched(o)'
  BY <1>1, <1>2, <1>6, <1>7 DEF Fetched, NoneAtLarge, AtLarge
<1>9. \/ Goes(o, "find", None, Absent) /\ op'[o].then = "serve"
      \/ Goes(o, "done", None, Absent) /\ op'[o].ok
  BY <1>2, <1>5, GoesTo
<1>10. PublishOK(o)'
  BY <1>9, PublishesNot DEF For, Goes, UISteps
<1> QED
  BY <1>8, <1>9, <1>10, FetchedEnds DEF Goes, Running

LEMMA ServeLast ==
    ASSUME SupervisorInv, SequentialInv, MatchInv, PullInv, ~overlap, NEW o \in Calls,
           Operation(o), ~Begin(o), ~PullBegin(o), call[o].pc = "done", LastOK(o),
           Serve(o) \/ FinishStart(o)
    PROVE  LastOK(o)'
<1>1. op[o].pc \in {"serve", "finish"} /\ Holds(o) /\ UNCHANGED cached
  BY DEF Serve, FinishStart, Holds
<1>2. /\ op \in [Calls -> OperationState] /\ session \in [Sessions -> SessionState]
      /\ store \in Record \cup {Absent} /\ UNCHANGED <<call, worker>>
      /\ op'[o].artifact = op[o].artifact /\ Fetched(o)
      /\ op[o].s \in Sessions /\ session[op[o].s].rec \in Record /\ store # Absent
      /\ SameFile(session[op[o].s].rec, store)
  BY <1>1, PulledFacts
<1>3. \/ Goes(o, "finish", op[o].s, op[o].rec)
      \/ Goes(o, "done", None, Absent) /\ op'[o].ok
  BY <1>2, GoesTo DEF Serve, FinishStart
<1>4. PublishOK(o)'
  BY <1>3, PublishesNot DEF For, Goes, UISteps
<1>5. CASE UNCHANGED store
  <2>1. Fetched(o)'
    BY <1>2, <1>5, StillFetched
  <2> QED
    BY <1>3, <1>4, <2>1, FetchedEnds DEF Goes, Running
<1>6. CASE \E r \in Record : UpdateScroll(r) /\ SameFile(r, session[op[o].s].rec)
  <2>1. PICK r \in Record : UpdateScroll(r) /\ SameFile(r, session[op[o].s].rec)
    BY <1>6
  <2>2. store' # Absent /\ store'.yaml = store.yaml
    BY <1>2, <2>1, MergedKeeps DEF UpdateScroll, SameFile
  <2>3. Fetched(o)'
    BY <1>2, <2>2, StillFetched
  <2> QED
    BY <1>3, <1>4, <2>3, FetchedEnds DEF Goes, Running
<1>7. CASE Serve(o)
  <2>1. CASE Enqueue(op[o].s, "serve")
    BY <1>2, <1>6, <2>1, EnqueueStores DEF Commands
  <2> QED
    BY <1>5, <1>7, <2>1 DEF Serve
<1>8. CASE FinishStart(o)
  <2>1. PICK old \in Record : old = session[op[o].s].rec
    BY <1>2
  <2>2. (IF Derived(old) = "created" THEN "running" ELSE Derived(old)) \in ScrollStatuses
    BY DerivedType DEF ScrollStatuses
  <2>3. PICK r \in Record :
           r = WithStatus(old, IF Derived(old) = "created" THEN "running" ELSE Derived(old))
           /\ SameFile(r, old)
    BY <2>2, StatusKeeps
  <2>4. WriteRecord(op[o].s, r)
    BY <1>8, <2>1, <2>3 DEF FinishStart
  <2>5. UpdateScroll(r)
    BY <1>2, <2>4, RecordStored
  <2> QED
    BY <1>6, <2>1, <2>3, <2>5
<1> QED
  BY <1>7, <1>8

\* A publication that is part of an operation goes on.
LEMMA PublicationLast ==
    ASSUME SupervisorInv, SequentialInv, MatchInv, PullInv, ~overlap, NEW o \in Calls,
           Operation(o), ~Begin(o), ~PullBegin(o), call[o].pc = "done", LastOK(o),
           op[o].pc \in UISteps, NEW pc \in UISteps \ {"uiLookup"},
           Goes(o, pc, op[o].s, op[o].rec),
           cached' # None => /\ session'[cached'].waiting \cup session'[cached'].busy \subseteq {o}
                             /\ pc # "uiAwait" => Quiet(cached)'
    PROVE  LastOK(o)'
<1>1. /\ op'[o].pc = pc /\ op'[o].rec = op[o].rec /\ op'[o].kind = op[o].kind
      /\ op'[o].artifact = op[o].artifact
  BY DEF Goes
<1>2. /\ MatchOK(o)' /\ UNCHANGED <<call, worker>> /\ op[o].kind \in Pulling
  BY PulledFacts
<1>3. op[o].pc \notin {"pull", "restored"} /\ Fetched(o)
  BY PulledFacts DEF UISteps
<1>4. PathOK(o) /\ MatchOK(o) /\ PublishOK(o)
  BY PublishingFacts DEF PullInv, LastOK
<1>5. op[o].kind \in Filling
  BY <1>2, <1>4 DEF PathOK, Pulling, Filling
<1>6. op[o].rec # Absent
  BY <1>4, <1>5 DEF PublishOK
<1>7. Publishing(o) /\ Publishing(o)'
  BY <1>1, <1>6 DEF Publishing
<1>8. store' # Absent /\ store'.yaml = store.yaml
  BY <1>1, <1>2, <1>4, <1>7 DEF MatchOK
<1>9. Fetched(o)'
  BY <1>1, <1>2, <1>3, <1>8, StillFetched
<1>10. PublishOK(o)'
  BY <1>1, <1>6 DEF PublishOK, UISteps, For
<1>11. pc \notin {"pull", "restored", "idle", "done"}
  BY DEF UISteps
<1> QED
  BY <1>1, <1>9, <1>10, <1>11, FetchedEnds DEF Running

LEMMA UILookupLast ==
    ASSUME SupervisorInv, SequentialInv, MatchInv, PullInv, ~overlap, NEW o \in Calls,
           Operation(o), ~Begin(o), ~PullBegin(o), call[o].pc = "done", LastOK(o),
           UILookup(o) \/ UIRemoved(o)
    PROVE  LastOK(o)'
<1>1. op[o].pc \in {"uiLookup", "uiRemoved"} /\ UNCHANGED <<cached, session>>
  BY DEF UILookup, UIRemoved
<1>2. /\ op \in [Calls -> OperationState] /\ store \in Record \cup {Absent}
      /\ UNCHANGED <<call, worker>> /\ op'[o].artifact = op[o].artifact /\ Fetched(o)
      /\ op[o].kind \in Pulling
  BY <1>1, PulledFacts
<1>3. op[o].kind \in Filling /\ PublishOK(o)
  BY <1>1, <1>2 DEF PullInv, PathOK, UISteps, Pulling, Filling, LastOK
<1>4. op[o].rec # Absent /\ (cached = None \/ Quiet(cached))
  BY <1>1, <1>3 DEF PublishOK, UISteps
<1>5. CASE Fail(o)
  BY <1>1, <1>2, <1>4, <1>5, FailMarks DEF Fetched
<1>6. CASE /\ UNCHANGED store
           /\ (op[o].pc = "uiLookup" /\ GetSession(o, "uiAdd")) \/ StartOrReturn(o)
  <2>1. Fetched(o)'
    BY <1>2, <1>6, StillFetched DEF Fetched
  <2>2. CASE GetSession(o, "uiAdd") /\ op[o].pc = "uiLookup"
    <3>1. Goes(o, "find", None, op[o].rec) /\ op'[o].then = "uiAdd"
      BY <1>2, <2>2, GoesTo
    <3>2. cached' = None
      BY <1>1, <1>3, <2>2 DEF PublishOK
    <3>3. PublishOK(o)'
      BY <1>4, <3>1, <3>2 DEF PublishOK, Goes
    <3> QED
      BY <2>1, <3>1, <3>3, FetchedEnds DEF Goes, Running
  <2>3. CASE StartOrReturn(o)
    <3>1. \/ Goes(o, "find", None, Absent) /\ op'[o].then = "serve"
          \/ Goes(o, "done", None, Absent) /\ op'[o].ok
      BY <1>2, <2>3, GoesTo
    <3>2. PublishOK(o)'
      BY <3>1, PublishesNot DEF For, Goes, UISteps
    <3> QED
      BY <2>1, <3>1, <3>2, FetchedEnds DEF Goes, Running
  <2> QED
    BY <1>6, <2>2, <2>3
<1> QED
  BY <1>5, <1>6 DEF UILookup, UIRemoved

LEMMA UIStepsLast ==
    ASSUME SupervisorInv, SequentialInv, MatchInv, PullInv, ~overlap, NEW o \in Calls,
           Operation(o), ~Begin(o), ~PullBegin(o), call[o].pc = "done", LastOK(o),
           \/ UIAdd(o) \/ UIQueue(o) \/ UIAwait(o) \/ UIRead(o) \/ UIStore(o) \/ UIRemove(o)
    PROVE  LastOK(o)'
<1>1. /\ op[o].pc \in {"uiAdd", "uiQueue", "uiAwait", "uiRead", "uiStore", "uiRemove"}
      /\ op[o].pc \in UISteps /\ Holds(o) /\ op[o].pc # "cache" /\ UNCHANGED cached
  BY DEF UIAdd, UIQueue, UIAwait, UIRead, UIStore, UIRemove, Holds, UISteps
<1>2. /\ op \in [Calls -> OperationState] /\ session \in [Sessions -> SessionState]
      /\ op[o].s \in Sessions /\ op[o].s # None /\ cached = op[o].s /\ store # Absent
      /\ op[o].kind \in Pulling /\ Running(o)
  BY <1>1, PulledFacts
<1>3. op[o].kind \in Filling
  BY <1>1, <1>2 DEF PullInv, PathOK, Pulling, Filling
<1>4. PICK s \in Sessions : s = op[o].s /\ cached' = s
  BY <1>1, <1>2
<1>5. /\ session[s].waiting \cup session[s].busy \subseteq {o}
      /\ op[o].pc # "uiAwait" => Quiet(s)
  BY <1>1, <1>2, <1>3, <1>4 DEF LastOK, PublishOK
<1>6. CASE UIAdd(o)
  <2>1. PICK r : WriteRecord(s, r) /\ To(o, "uiQueue")
    BY <1>2, <1>4, <1>6 DEF UIAdd
  <2>2. Goes(o, "uiQueue", op[o].s, op[o].rec)
    BY <1>2, <2>1, GoesTo
  <2>3. Quiet(s)'
    BY <1>1, <1>2, <1>5, <1>6, <2>1, Written DEF Quiet, UIAdd
  <2>4. "uiQueue" \in UISteps \ {"uiLookup"}
    BY DEF UISteps
  <2> QED
    BY <1>1, <1>4, <2>2, <2>3, <2>4, PublicationLast DEF Quiet
<1>7. CASE UIQueue(o)
  <2>1. Quiet(s)
    BY <1>5, <1>7 DEF UIQueue
  <2>2. CASE Enqueue(s, o) /\ To(o, "uiAwait")
    <3>1. Goes(o, "uiAwait", op[o].s, op[o].rec)
      BY <1>2, <2>2, GoesTo
    <3>2. PICK r : Write(s, r, session[s].waiting \cup {o}, session[s].busy)
      BY <2>2 DEF Enqueue
    <3>3. session'[s].waiting \cup session'[s].busy \subseteq {o}
      BY <1>2, <2>1, <3>2, Written DEF Quiet
    <3>4. "uiAwait" \in UISteps \ {"uiLookup"}
      BY DEF UISteps
    <3> QED
      BY <1>1, <1>4, <3>1, <3>3, <3>4, PublicationLast
  <2>3. CASE To(o, "uiRemove") /\ UNCHANGED session
    <3>1. Goes(o, "uiRemove", op[o].s, op[o].rec)
      BY <1>2, <2>3, GoesTo
    <3>2. Quiet(s)'
      BY <2>1, <2>3 DEF Quiet
    <3>3. "uiRemove" \in UISteps \ {"uiLookup"}
      BY DEF UISteps
    <3> QED
      BY <1>1, <1>4, <3>1, <3>2, <3>3, PublicationLast DEF Quiet
  <2> QED
    BY <1>4, <1>7, <2>2, <2>3 DEF UIQueue
<1>8. CASE UIAwait(o)
  <2>1. PICK pc \in {"uiRead", "uiRemove"} : To(o, pc)
    BY <1>8 DEF UIAwait, To
  <2>2. Goes(o, pc, op[o].s, op[o].rec)
    BY <1>2, <2>1, GoesTo
  <2>3. o \notin session[s].waiting \cup session[s].busy /\ UNCHANGED session
    BY <1>4, <1>8 DEF UIAwait, Settled, Active
  <2>4. Quiet(s)'
    BY <1>5, <2>3 DEF Quiet
  <2>5. pc \in UISteps \ {"uiLookup"}
    BY DEF UISteps
  <2> QED
    BY <1>1, <1>4, <2>2, <2>4, <2>5, PublicationLast DEF Quiet
<1>9. CASE UIRead(o) \/ UIStore(o)
  <2>1. Quiet(s) /\ UNCHANGED session
    BY <1>5, <1>9 DEF UIRead, UIStore
  <2>2. Quiet(s)'
    BY <2>1 DEF Quiet
  <2>3. CASE UIRead(o)
    <3>1. PICK pc \in {"uiRemove", "uiStore"} : op' = [op EXCEPT ![o].pc = pc, ![o].fresh = store]
      BY <2>3 DEF UIRead
    <3>2. Goes(o, pc, op[o].s, op[o].rec)
      BY <1>2, <3>1, GoesWith
    <3>3. pc \in UISteps \ {"uiLookup"}
      BY DEF UISteps
    <3> QED
      BY <1>1, <1>4, <2>2, <3>2, <3>3, PublicationLast DEF Quiet
  <2>4. CASE UIStore(o)
    <3>1. op' = [op EXCEPT ![o].pc = "uiRemove", ![o].ok = store # Absent, ![o].fresh = Absent]
      BY <2>4 DEF UIStore
    <3>2. Goes(o, "uiRemove", op[o].s, op[o].rec)
      BY <1>2, <3>1, GoesWith
    <3>3. "uiRemove" \in UISteps \ {"uiLookup"}
      BY DEF UISteps
    <3> QED
      BY <1>1, <1>4, <2>2, <3>2, <3>3, PublicationLast DEF Quiet
  <2> QED
    BY <1>9, <2>3, <2>4
<1>10. CASE UIRemove(o)
  <2>1. Quiet(s)
    BY <1>5, <1>10 DEF UIRemove
  <2>2. PICK r : Write(s, r, session[s].waiting \ {o}, session[s].busy)
    BY <1>4, <1>10 DEF UIRemove
  <2>3. Quiet(s)'
    BY <1>2, <2>1, <2>2, Written DEF Quiet
  <2>4. To(o, "uiRemoved")
    BY <1>3, <1>10 DEF UIRemove, Filling, To
  <2>5. Goes(o, "uiRemoved", op[o].s, op[o].rec)
    BY <1>2, <2>4, GoesTo
  <2>6. "uiRemoved" \in UISteps \ {"uiLookup"}
    BY DEF UISteps
  <2> QED
    BY <1>1, <1>4, <2>3, <2>5, <2>6, PublicationLast DEF Quiet
<1> QED
  BY <1>6, <1>7, <1>8, <1>9, <1>10

\* Every step of an operation that has pulled.
LEMMA PulledSteps ==
    ASSUME SupervisorInv, SequentialInv, MatchInv, PullInv, RootInv, ~overlap, NEW o \in Calls,
           Operation(o), ~Begin(o), ~PullBegin(o), call[o].pc = "done", LastOK(o)
    PROVE  LastOK(o)'
<1>1. op[o].pc \notin {"idle", "lookup", "insert", "detach", "drain", "backend", "stop",
                       "stopDrain", "stopBackend", "stopStore", "quiesce", "uncache",
                       "run", "await", "remove", "forget"}
  BY PulledFacts
<1>2. ~(\/ Uncache(o) \/ Lookup(o) \/ Insert(o) \/ Detach(o) \/ Drain(o) \/ BackendStop(o)
        \/ Remove(o) \/ Forget(o) \/ StopBegin(o) \/ StopDrain(o) \/ StopBackend(o)
        \/ StopStore(o) \/ Quiesce(o) \/ Run(o) \/ Await(o))
  BY <1>1 DEF Uncache, Lookup, Insert, Detach, Drain, BackendStop, Remove, Forget, StopBegin,
     StopDrain, StopBackend, StopStore, Quiesce, Run, Await
<1>3. CASE Find(o) \/ Make(o) \/ Cache(o)
  BY <1>3, FindLast
<1>4. CASE PullFailed(o)
  BY <1>4, PullFailedLast
<1>5. CASE Apply(o)
  BY <1>5, ApplyLast
<1>6. CASE RestoreBegin(o)
  BY <1>6, RestoreBeginLast
<1>7. CASE ApplyRestore(o)
  BY <1>7, ApplyRestoreLast
<1>8. CASE Serve(o) \/ FinishStart(o)
  BY <1>8, ServeLast
<1>9. CASE UILookup(o) \/ UIRemoved(o)
  BY <1>9, UILookupLast
<1>10. CASE UIAdd(o) \/ UIQueue(o) \/ UIAwait(o) \/ UIRead(o) \/ UIStore(o) \/ UIRemove(o)
  BY <1>10, UIStepsLast
<1> QED
  BY <1>2, <1>3, <1>4, <1>5, <1>6, <1>7, <1>8, <1>9, <1>10 DEF Operation

\* A step of an operation that has not pulled.
LEMMA UnpulledSteps ==
    ASSUME SupervisorInv, SequentialInv, MatchInv, PullInv, ~overlap, NEW o \in Calls,
           Operation(o), ~Begin(o), ~PullBegin(o), call[o].pc # "done"
    PROVE  LastOK(o)'
<1>1. /\ Running(o) /\ ~Calling(o) /\ Ahead(o) /\ UNCHANGED call
  BY OutsidePull DEF Running
<1>2. call'[o].pc = "idle"
  BY <1>1 DEF Calling
<1>3. PathOK(o)' /\ CallOK(o)'
  BY StepsPull DEF PullInv
<1>4. PublishOK(o)'
  BY <1>2, <1>3, PublishesNot DEF PublishOK, CallOK, BeforePull, For, UISteps, Pulling, Filling
<1>5. RestoreOK(o)'
  <2> SUFFICES ASSUME op'[o].kind = "restore", op'[o].pc \in {"pull", "restored"}
               PROVE  Quiet(op[o].s)'
    BY DEF RestoreOK
  <2>1. op'[o].pc = "pull"
    BY <1>2, <1>3 DEF CallOK, BeforePull, For, Pulling
  <2>2. op[o].pc = "stopStore" /\ op[o].kind = "restore"
    BY <1>1, <2>1 DEF Ahead
  <2>3. StopStore(o)
    BY <2>2 DEF Operation, Begin, PullBegin, Find, Make, Cache, Uncache, Lookup, Insert, Detach,
       Drain, BackendStop, PullFailed, PullEnded, Apply, Remove, Forget, StopBegin, StopDrain,
       StopBackend, Quiesce, RestoreBegin, ApplyRestore, Serve, FinishStart, Run, Await,
       UILookup, UIAdd, UIQueue, UIAwait, UIRead, UIStore, UIRemove, UIRemoved
  <2>4. /\ op \in [Calls -> OperationState] /\ session \in [Sessions -> SessionState]
        /\ Quiet(op[o].s) /\ op[o].s \in Sessions
    BY <1>1, <2>2, MatchFacts DEF AloneOK, Holds
  <2>5. store # Absent
    <3>1. CASE Return(o, FALSE)
      <4>1. Goes(o, "done", None, Absent)
        BY <2>4, <3>1, GoesTo
      <4> QED
        BY <2>1, <4>1 DEF Goes
    <3> QED
      BY <2>3, <3>1 DEF StopStore
  <2>6. To(o, "pull") /\ \A t \in Sessions : /\ session'[t].waiting = session[t].waiting
                                             /\ session'[t].busy = session[t].busy
    <3>1. PICK r : session' = [session EXCEPT ![op[o].s].rec = r,
                                              ![op[o].s].on = @ \/ op[o].started]
      BY <2>3, <2>5 DEF StopStore
    <3>2. \A t \in Sessions : /\ session'[t].waiting = session[t].waiting
                              /\ session'[t].busy = session[t].busy
      BY <2>4, <3>1 DEF SessionState
    <3> QED
      BY <2>2, <2>3, <2>5, <3>2 DEF StopStore
  <2>7. Goes(o, "pull", op[o].s, op[o].rec)
    BY <2>4, <2>6, GoesTo
  <2> QED
    BY <2>4, <2>6, <2>7 DEF Quiet, Goes
<1> QED
  BY <1>2, <1>4, <1>5 DEF LastOK, FetchedOK, MarkedOK
-----------------------------------------------------------------------------
(* The other steps                                                         *)

\* An operation that has just begun has not pulled.
LEMMA BeginLast ==
    ASSUME SupervisorInv, PullInv, NEW o \in Calls, Begin(o)
    PROVE  LastOK(o)'
<1>1. op \in [Calls -> OperationState] /\ op[o] \in OperationState
  BY DEF SupervisorInv, OperationInv, SupervisorTypeOK
<1>2. UNCHANGED call /\ op[o].pc = "idle"
  BY DEF Begin, workerVars
<1>3. PICK kind \in Kinds, a \in Versions, restart \in BOOLEAN :
          op' = [op EXCEPT ![o].kind = kind, ![o].artifact = a, ![o].restart = restart,
                           ![o].pc = FirstStep(kind), ![o].then = AfterSession(kind)]
  BY DEF Begin
<1> DEFINE x == [op[o] EXCEPT !.kind = kind, !.artifact = a, !.restart = restart,
                              !.pc = FirstStep(kind), !.then = AfterSession(kind)]
<1>4. x.pc = FirstStep(kind) /\ x.then = AfterSession(kind) /\ x.kind = kind
  BY <1>1 DEF OperationState
<1>5. op' = [op EXCEPT ![o] = x]
  BY <1>3
<1> HIDE DEF x
<1>6. op'[o] = x
  BY <1>1, <1>5
<1>7. call'[o].pc = "idle"
  BY <1>2 DEF PullInv, CallOK, BeforePull
<1>8. op'[o].pc \in {"lookup", "detach", "uiLookup", "find"}
  BY <1>4, <1>6 DEF FirstStep
<1>9. PublishOK(o)'
  BY <1>4, <1>6 DEF PublishOK, For, Filling, FirstStep, AfterSession, UISteps
<1> QED
  BY <1>7, <1>8, <1>9 DEF LastOK, RestoreOK, FetchedOK, MarkedOK

\* The calls and the workers leave an operation alone that has pulled.
LEMMA CallsLast ==
    ASSUME SupervisorInv, PullInv, NEW o \in Calls, LastOK(o), [SupervisorNext]_allVars,
           UNCHANGED supervisorVars, op[o].pc = "pull" \/ call'[o] = call[o]
    PROVE  LastOK(o)'
<1>1. UNCHANGED <<op, store, cached, session, crashes>>
  BY DEF supervisorVars
<1>2. RestoreOK(o)' /\ PublishOK(o)'
  BY <1>1 DEF LastOK, RestoreOK, PublishOK, For, Quiet
<1>3. CASE op[o].pc = "pull"
  BY <1>1, <1>2, <1>3 DEF LastOK, FetchedOK, MarkedOK, Running
<1>4. CASE call'[o] = call[o]
  <2>1. NoneAtLarge' => NoneAtLarge
    BY AtLargeStays DEF NoneAtLarge
  <2>2. Fetched(o) => Fetched(o)'
    BY <1>1, <1>4, <2>1 DEF Fetched
  <2>3. FetchedOK(o)'
    BY <1>1, <1>4, <2>2 DEF LastOK, FetchedOK, Running
  <2>4. MarkedOK(o)'
    BY <1>1, <1>4 DEF LastOK, MarkedOK, Running, Quiet
  <2> QED
    BY <1>2, <2>3, <2>4 DEF LastOK
<1> QED
  BY <1>3, <1>4

\* What a step of the calls or the workers leaves alone.
LEMMA CallsApart ==
    ASSUME SupervisorInv, PullInv, NEW o \in Calls, NEW p \in Calls,
           PullBegin(p) \/ PullCall(p) \/ Worker(p)
    PROVE  op[o].pc = "pull" \/ call'[o] = call[o]
<1>1. CallShape /\ CallOK(p)
  BY DEF SupervisorInv, CallInv, PullInv
<1>2. CASE PullBegin(p)
  BY <1>1, <1>2 DEF PullBegin, Register, CallShape
<1>3. CASE PullCall(p)
  <2>1. Calling(p)
    BY <1>3 DEF PullCall, SpawnFails, StartWorker, SpawnReturns, SpawnTimesOut, Receive,
       WaitTimesOut, Cancel, Calling
  <2>2. op[p].pc = "pull"
    BY <1>1, <2>1 DEF CallOK
  <2> QED
    BY <1>1, <1>3, <2>2 DEF PullCall, SpawnFails, StartWorker, SpawnReturns, SpawnTimesOut,
       Receive, WaitTimesOut, Cancel, CallTo, ReturnCall, CallShape
<1>4. CASE Worker(p)
  BY <1>4 DEF Worker, Pull, PullFails, Report, ReportRefused
<1> QED
  BY <1>2, <1>3, <1>4

\* A command starts or ends in the session in the map, or in one whose
\* operation has not pulled.
LEMMA SessionsLast ==
    ASSUME SupervisorInv, SequentialInv, MatchInv, PullInv, ~overlap,
           NEW o \in Calls, last = o, LastOK(o), NEW s \in Sessions, NEW c \in Commands,
           SessionRun(s, c) \/ SessionEnd(s, c)
    PROVE  LastOK(o)'
<1> USE SupervisorAssumption
<1>1. /\ session \in [Sessions -> SessionState] /\ store \in Record \cup {Absent}
      /\ cached \in Sessions \cup {None}
      /\ OperationInv /\ \A p \in Calls : HandOK(p)
  BY DEF SupervisorInv, OperationInv, SupervisorTypeOK
<1>2. UNCHANGED <<cached, op, overlap, crashes, call, worker>>
  BY DEF SessionRun, SessionEnd, Histories, workerVars
<1>3. ~Quiet(s) /\ session[s].rec \in Record /\ CachedOK
  BY <1>1 DEF SessionRun, SessionEnd, Quiet, OperationInv, SessionOK, MatchInv
<1>4. ASSUME call[o].pc = "done", s # cached
      PROVE  FALSE
  <2>1. PICK p \in Calls : op[p].s = s /\ Running(p)
    BY <1>1, <1>3, <1>4 DEF SequentialInv, UnreachedOK, HandOK
  <2>2. p = o /\ AloneOK(o)
    BY <2>1 DEF SequentialInv
  <2>3. op[o].pc = "cache" => Quiet(s)
    BY <2>1, <2>2 DEF AloneOK
  <2>4. Detached(o)
    BY <1>3, <1>4, <2>1, <2>2, <2>3 DEF AloneOK
  <2>5. op[o].kind \in Pulling /\ ~BeforePull(o)
    BY <1>4 DEF PullInv, CallOK
  <2> QED
    BY <2>4, <2>5 DEF Detached, BeforePull
<1>5. ASSUME NEW t \in Sessions, Quiet(t)
      PROVE  Quiet(t)'
  BY <1>1, <1>3, <1>5, Written DEF SessionRun, SessionEnd, Quiet, SessionState
<1>6. ASSUME NEW t \in Sessions
      PROVE  session'[t].waiting \cup session'[t].busy \subseteq
                session[t].waiting \cup session[t].busy
  <2>1. CASE session' = [session EXCEPT ![s].waiting = @ \ {c}]
    BY <1>1, <2>1 DEF SessionState
  <2>2. CASE \E r : Write(s, r, session[s].waiting \ {c}, session[s].busy \cup {c})
                    /\ c \in session[s].waiting
    BY <1>1, <2>2, Written
  <2>3. CASE \E r : Write(s, r, session[s].waiting, session[s].busy \ {c})
    BY <1>1, <2>3, Written
  <2> QED
    BY <2>1, <2>2, <2>3 DEF SessionRun, SessionEnd
<1>7. RestoreOK(o)'
  BY <1>1, <1>2, <1>5 DEF LastOK, RestoreOK, HandOK, Holds
<1>8. PublishOK(o)'
  BY <1>1, <1>2, <1>5, <1>6 DEF LastOK, PublishOK, For
<1>9. ASSUME Fetched(o), s = cached
      PROVE  Fetched(o)'
  <2>1. store # Absent /\ SameFile(session[s].rec, store)
    BY <1>3, <1>9 DEF CachedOK, Fetched
  <2>2. store' # Absent /\ store'.yaml = store.yaml
    <3>1. ASSUME NEW status \in ProcedureStatuses, NEW W, NEW B,
                 Write(s, WithProc(session[s].rec, c, status), W, B)
          PROVE  store' # Absent /\ store'.yaml = store.yaml
      <4>1. PICK r \in Record : /\ r = WithProc(session[s].rec, c, status)
                                /\ SameFile(r, session[s].rec)
        BY <1>3, ProcKeeps
      <4>2. UpdateScroll(r)
        BY <1>1, <3>1, <4>1, RecordStored
      <4> QED
        BY <1>1, <2>1, <4>1, <4>2, MergedKeeps DEF UpdateScroll, SameFile
    <3> QED
      BY <2>1, <3>1 DEF SessionRun, SessionEnd, ProcedureStatuses
  <2> QED
    BY <1>2, <1>9, <2>2, StillFetched
<1>10. FetchedOK(o)'
  <2> SUFFICES ASSUME call[o].pc = "done", op[o].pc \notin {"pull", "restored"},
                      Running(o) \/ op[o].ok
               PROVE  Fetched(o)'
    BY <1>2 DEF FetchedOK, Running
  <2> QED
    BY <1>4, <1>9 DEF LastOK, FetchedOK
<1>11. MarkedOK(o)'
  <2> SUFFICES ASSUME call[o].pc = "done", ~Running(o), ~op[o].ok, crashes = 0
               PROVE  FALSE
    BY <1>2 DEF MarkedOK, Running
  <2>1. s # cached
    BY <1>3 DEF LastOK, MarkedOK
  <2> QED
    BY <1>1, <1>3, <2>1 DEF SequentialInv, UnreachedOK, HandOK
<1> QED
  BY <1>7, <1>8, <1>10, <1>11 DEF LastOK

LEMMA CrashLast ==
    ASSUME SupervisorInv, PullInv, NEW o \in Calls, LastOK(o), Crash
    PROVE  LastOK(o)'
<1>1. /\ UNCHANGED <<store, worker>> /\ crashes' # 0 /\ (~Calling(o) => call'[o] = call[o])
      /\ op'[o].pc \in {"idle", "done"}
  <2>1. crashes \in 0..MaxCrashes /\ MaxCrashes \in Nat
    BY SupervisorAssumption DEF SupervisorInv, OperationInv, SupervisorTypeOK
  <2>2. crashes' = crashes + 1 /\ UNCHANGED <<store, worker>>
    BY DEF Crash
  <2>3. crashes' # 0
    BY <2>1, <2>2
  <2>4. /\ ~Calling(o) => call'[o] = call[o]
        /\ op'[o].pc \in {"idle", "done"}
    BY CrashEnds DEF Running
  <2> QED
    BY <2>2, <2>3, <2>4
<1>2. FetchedOK(o)'
  <2> SUFFICES ASSUME call'[o].pc = "done", op'[o].ok PROVE Fetched(o)'
    BY <1>1 DEF FetchedOK, Running
  <2>1. ~Running(o) /\ op'[o] = op[o]
    BY CrashEnds
  <2>2. call'[o] = call[o]
    BY <1>1, <2>1 DEF PullInv, CallOK, Running
  <2>3. Fetched(o)
    BY <2>1, <2>2 DEF LastOK, FetchedOK, Running
  <2>4. NoneAtLarge' => NoneAtLarge
    BY AtLargeStays DEF NoneAtLarge, SupervisorNext
  <2> QED
    BY <1>1, <2>1, <2>2, <2>3, <2>4 DEF Fetched
<1>3. PublishOK(o)'
  BY <1>1, PublishesNot DEF For, UISteps
<1> QED
  BY <1>1, <1>2, <1>3 DEF LastOK, RestoreOK, MarkedOK

\* A boot stores the record it found with another status.
LEMMA BootStores ==
    ASSUME store \in Record, Boot
    PROVE  store' # Absent /\ store'.yaml = store.yaml
<1>1. CASE UNCHANGED store
  BY <1>1, RecordThere
<1>2. CASE ~(UNCHANGED store)
  <2> DEFINE queued == IF store.procs["serve"] \in {"waiting", "running"} THEN store
                       ELSE [store EXCEPT !.procs["serve"] = "waiting"]
  <2>1. queued \in Record /\ SameFile(queued, store)
    BY DEF Record, Commands, ProcedureStatuses, SameFile
  <2>2. UpdateScroll(WithStatus(queued, Derived(queued)))
    BY <1>2 DEF Boot
  <2> HIDE DEF queued
  <2>3. PICK r \in Record : r = WithStatus(queued, Derived(queued)) /\ SameFile(r, store)
    BY <2>1, DerivedType, StatusKeeps DEF SameFile
  <2> QED
    BY <2>2, <2>3, MergedKeeps, RecordThere DEF UpdateScroll, SameFile
<1> QED
  BY <1>1, <1>2

LEMMA BootLast ==
    ASSUME SupervisorInv, SequentialInv, NEW o \in Calls, last = o, LastOK(o), Boot
    PROVE  LastOK(o)'
<1>1. /\ ~up /\ UNCHANGED <<op, crashes, call, worker>>
      /\ store \in Record \cup {Absent} /\ o # None
  BY CallsAssumption DEF Boot, workerVars, SupervisorInv, OperationInv, SupervisorTypeOK
<1>2. crashes # 0 /\ op[o].pc \in {"idle", "done"}
  BY <1>1 DEF SequentialInv, DownOK, Idle, Running
<1>3. Fetched(o) => Fetched(o)'
  BY <1>1, BootStores, StillFetched DEF Fetched
<1>4. FetchedOK(o)'
  BY <1>1, <1>3 DEF LastOK, FetchedOK, Running
<1>5. PublishOK(o)'
  BY <1>1, <1>2, PublishesNot DEF For, UISteps
<1> QED
  BY <1>1, <1>2, <1>4, <1>5 DEF LastOK, RestoreOK, MarkedOK

LEMMA LastInvInductive ==
    ASSUME SupervisorInv, SequentialInv, MatchInv, PullInv, RootInv, LastInv,
           [SupervisorNext]_allVars
    PROVE  LastInv'
<1>1. SUFFICES ASSUME ~overlap', NEW o \in Calls, last' = o PROVE LastOK(o)'
  BY DEF LastInv
<1>2. ~overlap
  BY <1>1, OverlapStays DEF SupervisorInv, OperationInv, SupervisorTypeOK
<1>3. CASE Begin(o)
  BY <1>3, BeginLast
<1>4. last = o => LastOK(o)
  BY <1>2 DEF LastInv
<1>5. CASE (\E p \in Calls : PullBegin(p) \/ PullCall(p) \/ Worker(p)) /\ UNCHANGED supervisorVars
  <2>1. last = o
    BY <1>1, <1>5 DEF supervisorVars
  <2>2. op[o].pc = "pull" \/ call'[o] = call[o]
    BY <1>5, CallsApart
  <2> QED
    BY <1>4, <1>5, <2>1, <2>2, CallsLast
<1>6. CASE \E p \in Calls : Operation(p) /\ ~Begin(p) /\ ~PullBegin(p)
  <2>1. PICK p \in Calls : Operation(p) /\ ~Begin(p) /\ ~PullBegin(p)
    BY <1>6
  <2>2. UNCHANGED last /\ Running(p)
    BY <2>1, HistoriesStay, OutsidePull DEF Histories, Running
  <2>3. p = o /\ LastOK(o)
    BY <1>1, <1>2, <1>4, <2>2 DEF SequentialInv
  <2> QED
    BY <1>2, <2>1, <2>3, PulledSteps, UnpulledSteps
<1>7. CASE \E s \in Sessions, c \in Commands : SessionRun(s, c) \/ SessionEnd(s, c)
  <2>1. last = o
    BY <1>1, <1>7 DEF SessionRun, SessionEnd, Histories
  <2> QED
    BY <1>2, <1>4, <1>7, <2>1, SessionsLast
<1>8. CASE Crash \/ Boot
  <2>1. last = o
    BY <1>1, <1>8 DEF Crash, Boot
  <2> QED
    BY <1>4, <1>8, <2>1, CrashLast, BootLast
<1>9. CASE UNCHANGED allVars
  <2>1. UNCHANGED supervisorVars /\ UNCHANGED call
    BY <1>9 DEF allVars, workerVars
  <2>2. last = o
    BY <1>1, <2>1 DEF supervisorVars
  <2> QED
    BY <1>4, <2>1, <2>2, CallsLast
<1>10. ASSUME NEW p \in Calls, Begin(p) PROVE p = o
  BY <1>1, <1>10 DEF Begin
<1>11. ASSUME NEW p \in Calls, PullBegin(p) PROVE UNCHANGED supervisorVars
  BY <1>11 DEF PullBegin
<1> QED
  BY <1>3, <1>5, <1>6, <1>7, <1>8, <1>9, <1>10, <1>11 DEF SupervisorNext

LEMMA OutcomeInvariance ==
    ASSUME ~DrainTimesOut
    PROVE  SupervisorSpec => [](SupervisorInv /\ SequentialInv /\ MatchInv
                                /\ PullInv /\ RootInv /\ LastInv)
<1>1. SupervisorInit => PullInv /\ RootInv /\ LastInv
  <2> SUFFICES ASSUME SupervisorInit PROVE PullInv /\ RootInv /\ LastInv
    OBVIOUS
  <2>1. /\ \A o \in Calls : /\ op[o].pc = "idle" /\ chan[o] = NoResult
                            /\ call[o].pc = "idle" /\ call[o].result # "ok"
        /\ pending = None /\ last = None
    BY DEF SupervisorInit, CallInit
  <2>2. PullInv
    BY <2>1, CallsAssumption DEF PullInv, PathOK, CallOK, Calling, BeforePull, For, UISteps
  <2>3. RootInv
    BY <2>1 DEF RootInv, RootOK, Calling
  <2>4. LastInv
    BY <2>1, CallsAssumption DEF LastInv
  <2> QED
    BY <2>2, <2>3, <2>4
<1>2. SupervisorInv /\ SequentialInv /\ PullInv /\ [SupervisorNext]_allVars => PullInv'
  BY PullInvInductive
<1>3. SupervisorInv /\ SequentialInv /\ PullInv /\ RootInv /\ [SupervisorNext]_allVars => RootInv'
  BY RootInvInductive
<1>4. SupervisorInv /\ SequentialInv /\ MatchInv /\ PullInv /\ RootInv /\ LastInv
         /\ [SupervisorNext]_allVars => LastInv'
  BY LastInvInductive
<1> QED
  BY <1>1, <1>2, <1>3, <1>4, MatchInvariance, PTL DEF SupervisorSpec

\* What an operation that filled the root reports is what happened to it: a
\* create, ensure, update or restore that succeeded has left the artifact it
\* was asked for in the root and in the store, and one that failed after its
\* pull has marked the scroll, however its steps, the worker's, the commands'
\* and a crash interleave.
THEOREM OutcomeHonestSafe ==
    ASSUME ~DrainTimesOut
    PROVE  SupervisorSpec => []OutcomeHonest
<1>1. SupervisorInv /\ PullInv /\ RootInv /\ LastInv => OutcomeHonest
  <2> SUFFICES ASSUME SupervisorInv, PullInv, RootInv, LastInv, Sequential, call[last].pc = "done"
               PROVE  OutcomeHonest
    BY DEF OutcomeHonest, Delivered, FailureMarked
  <2>1. PICK o \in Calls : o = last
    BY DEF Sequential, SupervisorInv, OperationInv, SupervisorTypeOK
  <2>2. LastOK(o) /\ ~Running(o) /\ CallOK(o)
    BY <2>1 DEF Sequential, LastInv, Idle, PullInv
  <2>3. Delivered
    <3> SUFFICES ASSUME op[o].ok, NoneAtLarge
                 PROVE  store # Absent /\ store.yaml = op[o].artifact /\ root = op[o].artifact
      BY <2>1 DEF Delivered, NoneAtLarge
    <3>1. Fetched(o)
      BY <2>1, <2>2 DEF LastOK, FetchedOK, Running
    <3>2. root = call[o].artifact
      BY <2>1, <3>1 DEF RootInv, RootOK, Sequential, Fetched
    <3>3. call[o].artifact = op[o].artifact
      BY <2>1, <2>2 DEF CallOK
    <3> QED
      BY <3>1, <3>2, <3>3 DEF Fetched
  <2>4. FailureMarked
    BY <2>1, <2>2 DEF FailureMarked, LastOK, MarkedOK
  <2> QED
    BY <2>3, <2>4 DEF OutcomeHonest
<1> QED
  BY <1>1, OutcomeInvariance, PTL
=============================================================================
