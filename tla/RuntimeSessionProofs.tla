------------------------- MODULE RuntimeSessionProofs -------------------------
(***************************************************************************)
(* Safety of a session with its lifecycle.  The steps of the queue inside  *)
(* the session are those of RuntimeQueue, so what its proofs say of a step *)
(* is used here; stops, starts, crashes and hydration are added to it.     *)
(***************************************************************************)
EXTENDS RuntimeSession, RuntimeQueueProofs

USE DEF CallKinds
-----------------------------------------------------------------------------
(* Types                                                                   *)

\* A lifecycle operation that queues the serve command has one, and has a
\* need at hand when it marks one.
LifeOK ==
    /\ life.pc \in {"remember", "mark", "serve", "serveTrigger"} => Serve \in Commands
    /\ life.pc = "mark" => life.need \in Commands

\* So has a Run call.
RunOK ==
    \A r \in Requests :
        /\ run[r].pc \notin {"idle", "done"} => run[r].cmd \in Commands
        /\ run[r].pc = "mark" => run[r].need \in Commands

SessionInv == SessionTypeOK /\ HasCommand /\ LifeOK /\ RunOK

\* What the session itself keeps.
OwnTypes ==
    /\ live \in BOOLEAN
    /\ life \in LifeState
    /\ run \in [Requests -> RunState]
    /\ quiet \in BOOLEAN
    /\ late \in BOOLEAN
    /\ operations \in 0..MaxOperations
    /\ crashes \in 0..MaxCrashes

\* The queue goes its own way inside the session.
LEMMA QueueInside ==
    ASSUME Alive, ClientStep \/ QueueStep \/ StartSession
    PROVE  Next
BY DEF ClientStep, QueueStep, StartSession, Next, Client

\* The queue's steps leave the session's own variables alone, but for the
\* end of the quiet.
LEMMA QueueFrame ==
    ASSUME ClientStep \/ QueueStep \/ StartSession
    PROVE  /\ UNCHANGED <<life, run, operations, crashes>>
           /\ live' = live \/ live' = TRUE
           /\ quiet' = quiet \/ quiet' = (quiet /\ queued' = {})
           /\ late' = late \/ late' = (late \/ Overtakes)
BY DEF ClientStep, QueueStep, StartSession, StillQuiet

\* A lifecycle step that moves to another step with what it has at hand.
LEMMA LifeMoves ==
    ASSUME life \in LifeState, LifeOK
    PROVE  /\ \A pc \in {"none", "drain", "reset", "backend", "store", "resume", "markError",
                         "boot", "hydrate", "finish"} :
                 life' = [life EXCEPT !.pc = pc] => life' \in LifeState /\ LifeOK'
           /\ life' = NoLife => life' \in LifeState /\ LifeOK'
<1>1. ASSUME NEW pc \in {"none", "drain", "reset", "backend", "store", "resume", "markError",
                         "boot", "hydrate", "finish"}, life' = [life EXCEPT !.pc = pc]
      PROVE  life' \in LifeState /\ LifeOK'
  <2>1. [life EXCEPT !.pc = pc] \in LifeState /\ [life EXCEPT !.pc = pc].pc = pc
    BY DEF LifeState
  <2> QED
    BY <1>1, <2>1 DEF LifeOK
<1>2. ASSUME life' = NoLife PROVE life' \in LifeState /\ LifeOK'
  BY <1>2 DEF LifeState, LifeOK, NoLife
<1> QED
  BY <1>1, <1>2

\* A Run call that goes on.
LEMMA RunMoves ==
    ASSUME run \in [Requests -> RunState], RunOK, NEW r \in Requests, NEW x \in RunState,
           run' = [run EXCEPT ![r] = x],
           x.pc \notin {"idle", "done"} => x.cmd \in Commands,
           x.pc = "mark" => x.need \in Commands
    PROVE  run' \in [Requests -> RunState] /\ RunOK'
BY DEF RunOK

\* Marking an item as done keeps the queue's types.
LEMMA RememberType ==
    ASSUME TypeOK, NEW d \in Commands, RememberDoneItem(d)
    PROVE  queued' \subseteq Commands /\ item' \in [Commands -> Item]
<1>1. [item[d] EXCEPT !.rememberDone = TRUE, !.inFlight = FALSE, !.err = FALSE] \in Item
  BY DEF TypeOK, Item
<1>2. item' = [item EXCEPT ![d] = [item[d] EXCEPT !.rememberDone = TRUE, !.inFlight = FALSE,
                                                  !.err = FALSE]]
  BY DEF RememberDoneItem, TypeOK, Item
<1> QED
  BY <1>1, <1>2 DEF RememberDoneItem, TypeOK

LEMMA MarkErrorType ==
    ASSUME TypeOK, MarkError
    PROVE  record' \in Record /\ stored' \in Record
BY DEF TypeOK, MarkError, Record, ScrollStatuses

LEMMA PersistDerivedType ==
    ASSUME TypeOK, PersistDerived
    PROVE  record' \in Record /\ stored' \in Record
<1>1. record.procs \in [Procedures -> ProcedureStatuses]
  BY DEF TypeOK, Record
<1> QED
  BY <1>1, PersistType DEF PersistDerived

LEMMA NoRecordType == NoRecord \in Record
BY DEF NoRecord, Record, ProcedureStatuses, ScrollStatuses

\* A Run call leaves alone what the queue and the lifecycle work with.
LEMMA CallFrame ==
    ASSUME NEW r \in Requests, RunCommandCall(r)
    PROVE  UNCHANGED <<completed, started, passVars, worker, live, life, late, operations, crashes>>
BY DEF RunCommandCall, RunBegin, RunPeek, RunRefresh, RunMark, RunAdd, RunWait, RunReturn,
       RunFinal, WaitUntilEmpty, vars, queueVars, recordVars, passVars, clientVars

\* What a Run call does keeps the types.
LEMMA CallType ==
    ASSUME SessionInv, NEW r \in Requests, RunCommandCall(r)
    PROVE  SessionInv'
<1> USE DEF queueVars, recordVars, passVars, clientVars
<1>1. UNCHANGED <<completed, started, pending, pass, notifying, worker,
                  live, life, late, operations, crashes>>
  BY CallFrame
<1>2. /\ TypeOK /\ run \in [Requests -> RunState] /\ RunOK
      /\ run[r] \in RunState /\ quiet \in BOOLEAN /\ stored \in Record /\ record \in Record
  BY DEF SessionInv, SessionTypeOK, TypeOK
<1>3. ASSUME queued' \subseteq Commands, item' \in [Commands -> Item],
             record' \in Record, stored' \in Record,
             req' \in [Requests -> RequestState],
             doneChan' \in [Requests -> {"none", "open", "ok", "failed", "panic"}],
             woken' \subseteq Requests, quiet' \in BOOLEAN,
             run' \in [Requests -> RunState], RunOK'
      PROVE  SessionInv'
  <2>1. TypeOK'
    BY <1>1, <1>2, <1>3 DEF TypeOK
  <2> QED
    BY <1>1, <1>3, <2>1 DEF SessionInv, SessionTypeOK, HasCommand, LifeOK
<1>4. ASSUME NEW x \in RunState, run' = [run EXCEPT ![r] = x],
             x.pc \notin {"idle", "done"} => x.cmd \in Commands,
             x.pc = "mark" => x.need \in Commands
      PROVE  run' \in [Requests -> RunState] /\ RunOK'
  BY <1>2, <1>4, RunMoves
<1>5. ASSUME UNCHANGED vars, UNCHANGED quiet, run' \in [Requests -> RunState], RunOK'
      PROVE  SessionInv'
  BY <1>2, <1>3, <1>5 DEF vars, TypeOK
<1>6. ASSUME NEW c \in Commands, RunBegin(r, c) PROVE SessionInv'
  <2>1. PICK x : x = [NoRun EXCEPT !.pc = "refresh", !.cmd = c, !.fresh = stored]
    OBVIOUS
  <2>2. x \in RunState /\ x.pc = "refresh" /\ x.cmd = c
    BY <1>2, <2>1, NoRecordType DEF RunState, NoRun
  <2> QED
    BY <1>4, <1>5, <1>6, <2>1, <2>2 DEF RunBegin
<1>7. CASE RunRefresh(r)
  <2>1. PICK x : x = [run[r] EXCEPT !.pc = "remember", !.fresh = NoRecord,
                                    !.todo = AllNeeds(run[r].cmd)]
    OBVIOUS
  <2>2. AllNeeds(run[r].cmd) \subseteq Commands
    BY DEF AllNeeds
  <2>3. x \in RunState /\ x.pc = "remember" /\ x.cmd = run[r].cmd
    BY <1>2, <2>1, <2>2, NoRecordType DEF RunState
  <2>4. run' = [run EXCEPT ![r] = x]
    BY <1>2, <1>7, <2>1 DEF RunRefresh
  <2>5. run[r].cmd \in Commands
    BY <1>2, <1>7 DEF RunOK, RunRefresh
  <2>6. run' \in [Requests -> RunState] /\ RunOK'
    BY <1>4, <2>3, <2>4, <2>5
  <2>7. record' \in Record
    BY <1>2, <1>7 DEF RunRefresh, RunState
  <2> QED
    BY <1>2, <1>3, <1>7, <2>6, <2>7 DEF RunRefresh, TypeOK
<1>8. ASSUME NEW d \in Commands, RunPeek(r, d) PROVE SessionInv'
  <2>1. PICK x : x = [run[r] EXCEPT !.todo = @ \ {d},
                                    !.need = IF DerivedStatus(d) = "done" THEN d ELSE None,
                                    !.pc = IF DerivedStatus(d) = "done" THEN "mark" ELSE @]
    OBVIOUS
  <2>2. run' = [run EXCEPT ![r] = x]
    BY <1>2, <1>8, <2>1 DEF RunPeek
  <2>3. run[r].cmd \in Commands /\ run[r].pc = "remember"
    BY <1>2, <1>8 DEF RunOK, RunPeek
  <2>4. CASE DerivedStatus(d) = "done"
    <3>1. x \in RunState /\ x.pc = "mark" /\ x.cmd = run[r].cmd /\ x.need = d
      BY <1>2, <2>1, <2>4 DEF RunState
    <3> QED
      BY <1>4, <1>5, <1>8, <2>2, <2>3, <3>1 DEF RunPeek
  <2>5. CASE DerivedStatus(d) # "done"
    <3>1. x \in RunState /\ x.pc = "remember" /\ x.cmd = run[r].cmd
      BY <1>2, <2>1, <2>3, <2>5 DEF RunState
    <3> QED
      BY <1>4, <1>5, <1>8, <2>2, <2>3, <3>1 DEF RunPeek
  <2> QED
    BY <2>4, <2>5
<1>9. CASE RunMark(r)
  <2>1. PICK x : x = [run[r] EXCEPT !.pc = "remember", !.need = None]
    OBVIOUS
  <2>2. x \in RunState /\ x.pc = "remember" /\ x.cmd = run[r].cmd
    BY <1>2, <2>1 DEF RunState
  <2>3. run' = [run EXCEPT ![r] = x]
    BY <1>2, <1>9, <2>1 DEF RunMark
  <2>4. run[r].cmd \in Commands /\ run[r].need \in Commands
    BY <1>2, <1>9 DEF RunOK, RunMark
  <2>5. run' \in [Requests -> RunState] /\ RunOK'
    BY <1>4, <2>2, <2>3, <2>4
  <2>6. queued' \subseteq Commands /\ item' \in [Commands -> Item]
    BY <1>2, <1>9, <2>4, RememberType DEF RunMark
  <2>7. quiet' \in BOOLEAN
    BY <1>2, <1>9 DEF RunMark, StillQuiet
  <2> QED
    BY <1>2, <1>3, <1>9, <2>5, <2>6, <2>7 DEF RunMark, TypeOK
<1>10. CASE RunAdd(r)
  <2>1. run[r].cmd \in Commands
    BY <1>2, <1>10 DEF RunOK, RunAdd
  <2>2. quiet' \in BOOLEAN
    BY <1>2, <1>10 DEF RunAdd, StillQuiet
  <2>3. ASSUME NEW pc \in {"queue", "error"}, run' = [run EXCEPT ![r].pc = pc]
        PROVE  run' \in [Requests -> RunState] /\ RunOK'
    <3>1. PICK x : x = [run[r] EXCEPT !.pc = pc]
      OBVIOUS
    <3>2. x \in RunState /\ x.pc = pc /\ x.cmd = run[r].cmd
      BY <1>2, <3>1 DEF RunState
    <3> QED
      BY <1>2, <1>4, <2>1, <2>3, <3>1, <3>2
  <2>4. CASE Accept(r, run[r].cmd, "temp") /\ run' = [run EXCEPT ![r].pc = "queue"]
    <3>1. Enqueue(run[r].cmd, None)
      BY <2>4 DEF Accept, Waits
    <3>2. /\ queued' \subseteq Commands /\ item' \in [Commands -> Item]
          /\ record' \in Record /\ stored' \in Record
      BY <1>2, <2>1, <3>1, EnqueueType
    <3>3. /\ req' \in [Requests -> RequestState]
          /\ doneChan' \in [Requests -> {"none", "open", "ok", "failed", "panic"}]
      BY <1>2, <2>1, <2>4 DEF Accept, Waits, TypeOK, RequestState
    <3> QED
      BY <1>2, <1>3, <1>10, <2>2, <2>3, <2>4, <3>2, <3>3 DEF RunAdd, TypeOK
  <2>5. CASE Refuse(r, run[r].cmd, "temp") /\ run' = [run EXCEPT ![r].pc = "error"]
    <3>1. req' \in [Requests -> RequestState]
      BY <1>2, <2>1, <2>5 DEF Refuse, TypeOK, RequestState
    <3> QED
      BY <1>2, <1>3, <1>10, <2>2, <2>3, <2>5, <3>1 DEF RunAdd, Refuse, TypeOK
  <2> QED
    BY <1>10, <2>4, <2>5 DEF RunAdd
<1>11. ASSUME NEW pc \in {"wait", "final", "error", "done"}, run' = [run EXCEPT ![r].pc = pc],
              run[r].pc \notin {"idle", "done"}
       PROVE  run' \in [Requests -> RunState] /\ RunOK'
  <2>1. PICK x : x = [run[r] EXCEPT !.pc = pc]
    OBVIOUS
  <2>2. x \in RunState /\ x.pc = pc /\ x.cmd = run[r].cmd
    BY <1>2, <2>1 DEF RunState
  <2>3. run[r].cmd \in Commands
    BY <1>2, <1>11 DEF RunOK
  <2> QED
    BY <1>2, <1>4, <1>11, <2>1, <2>2, <2>3
<1>12. CASE RunWait(r)
  <2>1. CASE Finite(run[r].cmd)
    <3>1. req' \in [Requests -> RequestState]
      BY <1>2, <1>12, <2>1 DEF RunWait, WaitUntilEmpty, TypeOK, RequestState
    <3>2. run' \in [Requests -> RunState] /\ RunOK'
      BY <1>11, <1>12, <2>1 DEF RunWait
    <3> QED
      BY <1>2, <1>3, <1>12, <2>1, <3>1, <3>2 DEF RunWait, WaitUntilEmpty, TypeOK
  <2>2. CASE ~Finite(run[r].cmd)
    BY <1>5, <1>11, <1>12, <2>2 DEF RunWait
  <2> QED
    BY <2>1, <2>2
<1>13. CASE RunReturn(r)
  BY <1>5, <1>11, <1>13 DEF RunReturn
<1>14. CASE RunFinal(r)
  <2>1. record' \in Record /\ stored' \in Record
    BY <1>2, <1>14, MarkErrorType, PersistDerivedType DEF RunFinal
  <2>2. run' \in [Requests -> RunState] /\ RunOK'
    BY <1>11, <1>14 DEF RunFinal
  <2> QED
    BY <1>2, <1>3, <1>14, <2>1, <2>2 DEF RunFinal, TypeOK
<1> QED
  BY <1>6, <1>7, <1>8, <1>9, <1>10, <1>12, <1>13, <1>14 DEF RunCommandCall

\* What a lifecycle step has to keep when it touches the queue.
LEMMA LifeStepType ==
    ASSUME SessionInv, UNCHANGED <<completed, worker, pass, notifying, run, late, crashes>>,
           queued' \subseteq Commands, item' \in [Commands -> Item],
           record' \in Record, stored' \in Record,
           started' \in BOOLEAN, pending' \in Nat,
           req' \in [Requests -> RequestState], doneChan' = doneChan, woken' = woken,
           live' \in BOOLEAN, life' \in LifeState, LifeOK',
           quiet' \in BOOLEAN, operations' \in 0..MaxOperations
    PROVE  SessionInv'
<1>1. TypeOK'
  BY DEF SessionInv, SessionTypeOK, TypeOK
<1> QED
  BY <1>1 DEF SessionInv, SessionTypeOK, HasCommand, RunOK

\* The types a lifecycle step starts from.
LEMMA LifeTypes ==
    ASSUME SessionInv
    PROVE  /\ TypeOK /\ queued \subseteq Commands /\ item \in [Commands -> Item]
           /\ record \in Record /\ stored \in Record
           /\ started \in BOOLEAN /\ pending \in Nat /\ OneMorePass \in Nat
           /\ req \in [Requests -> RequestState]
           /\ live \in BOOLEAN /\ life \in LifeState /\ LifeOK
           /\ life.was \in BOOLEAN /\ life.boot \in BOOLEAN
           /\ quiet \in BOOLEAN /\ operations \in 0..MaxOperations
BY PendingType DEF SessionInv, SessionTypeOK, TypeOK, LifeState

\* What StopRuntime does keeps the types.
LEMMA StopType ==
    ASSUME SessionInv, StopRuntime
    PROVE  SessionInv'
<1> USE DEF vars, queueVars, recordVars, passVars, clientVars
<1>1. CASE StopBegin
  <2>1. life' \in LifeState /\ LifeOK'
    BY <1>1, LifeTypes DEF StopBegin, LifeState, NoLife, LifeOK
  <2>2. operations' \in 0..MaxOperations
    BY <1>1, LifeTypes, SessionAssumption DEF StopBegin
  <2> QED
    BY <1>1, <2>1, <2>2, LifeTypes, LifeStepType DEF StopBegin
<1>2. CASE StopDrained \/ StopBackend
  <2>1. life' \in LifeState /\ LifeOK'
    BY <1>2, LifeTypes, LifeMoves DEF StopDrained, StopBackend
  <2> QED
    BY <1>2, <2>1, LifeTypes, LifeStepType DEF StopDrained, StopBackend
<1>3. CASE StopReset
  <2>1. life' \in LifeState /\ LifeOK'
    BY <1>3, LifeTypes, LifeMoves DEF StopReset
  <2>2. req' \in [Requests -> RequestState]
    <3>1. \A r \in Requests : [req[r] EXCEPT !.pc = "dropped"] \in RequestState
      BY LifeTypes DEF RequestState
    <3> QED
      BY <1>3, <3>1, LifeTypes DEF StopReset
  <2>3. item' \in [Commands -> Item]
    BY <1>3, ItemType DEF StopReset
  <2> QED
    BY <1>3, <2>1, <2>2, <2>3, LifeTypes, LifeStepType DEF StopReset
<1>4. CASE StopBackendFails
  <2>1. life' \in LifeState /\ LifeOK'
    BY <1>4, LifeTypes, LifeMoves DEF StopBackendFails
  <2> QED
    BY <1>4, <2>1, LifeTypes, LifeStepType DEF StopBackendFails
<1>5. CASE StopMarkError
  <2>1. life' \in LifeState /\ LifeOK'
    BY <1>5, LifeTypes, LifeMoves DEF StopMarkError
  <2>2. record' \in Record /\ stored' \in Record
    BY <1>5, LifeTypes, MarkErrorType DEF StopMarkError
  <2> QED
    BY <1>5, <2>1, <2>2, LifeTypes, LifeStepType DEF StopMarkError
<1>6. CASE StopStore
  <2>1. life' \in LifeState /\ LifeOK'
    BY <1>6, LifeTypes, LifeMoves DEF StopStore
  <2>2. record' \in Record /\ stored' = record'
    BY <1>6 DEF StopStore, Record, ProcedureStatuses, ScrollStatuses
  <2>3. quiet' \in BOOLEAN
    BY <1>6 DEF StopStore
  <2> QED
    BY <1>6, <2>1, <2>2, <2>3, LifeTypes, LifeStepType DEF StopStore
<1>7. CASE Resume
  <2>1. life' \in LifeState /\ LifeOK'
    BY <1>7, LifeTypes, LifeMoves DEF Resume
  <2> QED
    BY <1>7, <2>1, LifeTypes, LifeStepType DEF Resume
<1> QED
  BY <1>1, <1>2, <1>3, <1>4, <1>5, <1>6, <1>7 DEF StopRuntime

\* The serve command, when there is one, is a command.
LEMMA AutoStartType ==
    ASSUME NEW l \in LifeState
    PROVE  /\ AutoStart(l) \in LifeState
           /\ AutoStart(l).pc \in {"finish", "remember"}
           /\ AutoStart(l).pc = "remember" => Serve \in Commands
<1>1. AllNeeds(Serve) \subseteq Commands
  BY DEF AllNeeds
<1> QED
  BY <1>1, SessionAssumption DEF AutoStart, LifeState

\* What StartScroll and Hydrate do keeps the types.
LEMMA StartType ==
    ASSUME SessionInv, StartOrHydrate
    PROVE  SessionInv'
<1> USE DEF vars, queueVars, recordVars, passVars, clientVars
<1>1. CASE StartScroll
  <2>1. NoLife \in LifeState
    BY DEF NoLife, LifeState
  <2>2. life' \in LifeState /\ LifeOK'
    BY <1>1, <2>1, AutoStartType DEF StartScroll, LifeOK
  <2>3. operations' \in 0..MaxOperations
    BY <1>1, LifeTypes, SessionAssumption DEF StartScroll
  <2> QED
    BY <1>1, <2>2, <2>3, LifeTypes, LifeStepType DEF StartScroll
<1>2. ASSUME NEW d \in Commands, StartPeek(d) PROVE SessionInv'
  <2>1. Serve \in Commands
    BY <1>2, LifeTypes DEF StartPeek, LifeOK
  <2>2. life' \in LifeState /\ (life'.pc = "mark" => life'.need = d)
    BY <1>2, LifeTypes DEF StartPeek, LifeState
  <2>3. LifeOK'
    BY <2>1, <2>2 DEF LifeOK
  <2> QED
    BY <1>2, <2>2, <2>3, LifeTypes, LifeStepType DEF StartPeek
<1>3. CASE StartMark
  <2>1. Serve \in Commands /\ life.need \in Commands
    BY <1>3, LifeTypes DEF StartMark, LifeOK
  <2>2. life' \in LifeState /\ life'.pc = "remember"
    BY <1>3, LifeTypes DEF StartMark, LifeState
  <2>3. queued' \subseteq Commands /\ item' \in [Commands -> Item]
    BY <1>3, <2>1, LifeTypes, RememberType DEF StartMark
  <2>4. quiet' \in BOOLEAN
    BY <1>3, LifeTypes DEF StartMark, StillQuiet
  <2>5. LifeOK'
    BY <2>1, <2>2 DEF LifeOK
  <2> QED
    BY <1>3, <2>2, <2>3, <2>4, <2>5, LifeTypes, LifeStepType DEF StartMark
<1>4. CASE StartCheck
  <2>1. Serve \in Commands
    BY <1>4, LifeTypes DEF StartCheck, LifeOK
  <2>2. life' \in LifeState /\ life'.pc \in {"finish", "serve"}
    BY <1>4, LifeTypes DEF StartCheck, LifeState
  <2>3. LifeOK'
    BY <2>1, <2>2 DEF LifeOK
  <2> QED
    BY <1>4, <2>2, <2>3, LifeTypes, LifeStepType DEF StartCheck
<1>5. CASE StartServe
  <2>1. Serve \in Commands
    BY <1>5, LifeTypes DEF StartServe, LifeOK
  <2>2. life' \in LifeState /\ life'.pc \in {"finish", "serveTrigger"}
    BY <1>5, LifeTypes DEF StartServe, LifeState
  <2>3. /\ queued' \subseteq Commands /\ item' \in [Commands -> Item]
        /\ record' \in Record /\ stored' \in Record
    BY <1>5, <2>1, LifeTypes, EnqueueType DEF StartServe
  <2>4. quiet' \in BOOLEAN
    BY <1>5, LifeTypes DEF StartServe, StillQuiet
  <2>5. LifeOK'
    BY <2>1, <2>2 DEF LifeOK
  <2> QED
    BY <1>5, <2>2, <2>3, <2>4, <2>5, LifeTypes, LifeStepType DEF StartServe
<1>6. CASE StartTrigger
  <2>1. life' \in LifeState /\ LifeOK'
    BY <1>6, LifeTypes, LifeMoves DEF StartTrigger
  <2>2. pending' \in Nat
    BY <1>6, LifeTypes DEF StartTrigger, TriggerRunQueue
  <2> QED
    BY <1>6, <2>1, <2>2, LifeTypes, LifeStepType DEF StartTrigger
<1>7. CASE StartFinish
  <2>1. life' \in LifeState /\ LifeOK'
    BY <1>7, LifeTypes, LifeMoves DEF StartFinish
  <2>2. RecordOf(record.procs) \in Record
    BY LifeTypes, RecordType DEF Record
  <2>3. record' \in Record /\ stored' \in Record
    BY <1>7, <2>2 DEF StartFinish, Record, ScrollStatuses
  <2> QED
    BY <1>7, <2>1, <2>3, LifeTypes, LifeStepType DEF StartFinish
<1>8. CASE Boot
  <2>1. ToHydrate \subseteq Commands
    BY DEF ToHydrate
  <2>2. life' \in LifeState /\ LifeOK'
    <3>1. CASE stored.status = "running"
      <4>1. PICK x : x = [life EXCEPT !.pc = "hydrate", !.todo = ToHydrate,
                                      !.done = {c \in ToHydrate :
                                                   Finite(c) /\ DerivedStatus(c) = "done"}]
        OBVIOUS
      <4>2. x \in LifeState /\ x.pc = "hydrate"
        BY <2>1, <4>1, LifeTypes DEF LifeState
      <4>3. life' = x
        BY <1>8, <3>1, <4>1 DEF Boot
      <4> QED
        BY <4>2, <4>3 DEF LifeOK
    <3>2. CASE stored.status # "running"
      BY <1>8, <3>2, LifeTypes, LifeMoves DEF Boot
    <3> QED
      BY <3>1, <3>2
  <2>3. /\ live' \in BOOLEAN /\ started' \in BOOLEAN /\ pending' \in Nat
        /\ UNCHANGED <<queueVars, recordVars, pass, notifying, worker, clientVars,
                       run, quiet, late, operations, crashes>>
    BY <1>8, LifeTypes DEF Boot
  <2> QED
    BY <2>2, <2>3, LifeTypes, LifeStepType
<1>9. ASSUME NEW c \in Commands, HydrateItem(c) PROVE SessionInv'
  <2>1. life' \in LifeState /\ life'.pc = "hydrate"
    BY <1>9, LifeTypes DEF HydrateItem, LifeState
  <2>2. Hydrated(c) \in Item
    BY LifeTypes, ItemType DEF Hydrated, Item, Blank
  <2>3. quiet' \in BOOLEAN
    BY <1>9, LifeTypes DEF HydrateItem, StillQuiet
  <2>4. LifeOK'
    BY <2>1 DEF LifeOK
  <2> QED
    BY <1>9, <2>1, <2>2, <2>3, <2>4, LifeTypes, LifeStepType DEF HydrateItem
<1>10. CASE HydrateDone
  <2>1. [life EXCEPT !.done = {}] \in LifeState
    BY LifeTypes DEF LifeState
  <2>2. life' \in LifeState /\ LifeOK'
    BY <1>10, <2>1, AutoStartType DEF HydrateDone, LifeOK
  <2>3. UNCHANGED <<vars, live, run, quiet, late, operations, crashes>>
    BY <1>10 DEF HydrateDone
  <2> QED
    BY <2>2, <2>3, LifeTypes, LifeStepType
<1> QED
  BY <1>1, <1>2, <1>3, <1>4, <1>5, <1>6, <1>7, <1>8, <1>9, <1>10 DEF StartOrHydrate

\* A crash leaves an empty session and the store.
LEMMA CrashType ==
    ASSUME SessionInv, Crash
    PROVE  SessionInv'
<1>1. /\ TypeOK /\ stored \in Record /\ quiet \in BOOLEAN /\ operations \in 0..MaxOperations
      /\ run \in [Requests -> RunState]
  BY DEF SessionInv, SessionTypeOK, TypeOK
<1>2. /\ queued' = {} /\ item' \in [Commands -> Item] /\ woken' = {}
      /\ record' \in Record /\ stored' \in Record /\ started' = FALSE
      /\ pending' = 0 /\ notifying' = 0 /\ completed' \subseteq Commands
  BY <1>1, ItemType DEF Crash, TypeOK
<1>3. pass' \in PassState /\ worker' \in [Workers -> WorkerState]
  BY DEF Crash, NoPass, PassState, IdleWorker, WorkerState
<1>4. req' \in [Requests -> RequestState]
  <2>1. \A r \in Requests : /\ req[r] \in RequestState
                            /\ [req[r] EXCEPT !.pc = "done", !.result = "canceled"] \in RequestState
    BY <1>1 DEF TypeOK, RequestState
  <2> QED
    BY <2>1 DEF Crash
<1>5. doneChan' \in [Requests -> {"none", "open", "ok", "failed", "panic"}]
  BY <1>1 DEF Crash, TypeOK
<1>6. TypeOK'
  BY <1>2, <1>3, <1>4, <1>5 DEF TypeOK
<1>7. run' \in [Requests -> RunState] /\ RunOK'
  <2>1. [NoRun EXCEPT !.pc = "done"] \in RunState /\ [NoRun EXCEPT !.pc = "done"].pc = "done"
    BY NoRecordType DEF NoRun, RunState
  <2>2. run' = [r \in Requests |-> IF run[r].pc = "idle" THEN run[r]
                                   ELSE [NoRun EXCEPT !.pc = "done"]]
    BY DEF Crash
  <2>3. \A r \in Requests : run'[r] \in RunState /\ run'[r].pc \in {"idle", "done"}
    BY <1>1, <2>1, <2>2
  <2> QED
    BY <2>2, <2>3 DEF RunOK
<1>8. life' \in LifeState /\ LifeOK'
  BY DEF Crash, NoLife, LifeState, LifeOK
<1>9. crashes' \in 0..MaxCrashes
  <2>1. crashes \in 0..MaxCrashes /\ crashes < MaxCrashes /\ crashes' = crashes + 1
    BY DEF Crash, SessionInv, SessionTypeOK
  <2> QED
    BY <2>1, SessionAssumption
<1>10. HasCommand'
  BY DEF Crash, HasCommand, IdleWorker
<1> QED
  BY <1>1, <1>6, <1>7, <1>8, <1>9, <1>10 DEF Crash, SessionInv, SessionTypeOK

\* A dropped wait is cancelled.
LEMMA DroppedType ==
    ASSUME SessionInv, NEW r \in Requests, CancelDropped(r)
    PROVE  SessionInv'
<1> USE DEF queueVars, recordVars, passVars, clientVars
<1>1. req' \in [Requests -> RequestState]
  <2>1. [req[r] EXCEPT !.pc = "done", !.result = "canceled"] \in RequestState
    BY LifeTypes DEF RequestState
  <2> QED
    BY <2>1, LifeTypes DEF CancelDropped, Finish
<1>2. LifeOK'
  BY LifeTypes DEF CancelDropped, sessionVars, LifeOK
<1> QED
  BY <1>1, <1>2, LifeTypes, LifeStepType DEF CancelDropped, sessionVars

\* The types hold at the start and every step of the session keeps them.
LEMMA SessionInvInductive ==
    (SessionInit => SessionInv) /\ (SessionInv /\ [SessionNext]_allVars => SessionInv')
<1>1. ASSUME SessionInit PROVE SessionInv
  <2>1. TypeOK /\ HasCommand
    BY <1>1, InitType DEF SessionInit, Init, HasCommand, IdleWorker
  <2>2. NoLife \in LifeState /\ NoRun \in RunState
    BY NoRecordType DEF NoLife, LifeState, NoRun, RunState
  <2>3. LifeOK /\ RunOK
    BY <1>1 DEF SessionInit, LifeOK, RunOK, NoLife, NoRun
  <2>4. operations \in 0..MaxOperations /\ crashes \in 0..MaxCrashes
    BY <1>1, SessionAssumption DEF SessionInit
  <2>5. /\ live \in BOOLEAN /\ life \in LifeState /\ run \in [Requests -> RunState]
        /\ quiet \in BOOLEAN /\ late \in BOOLEAN
    BY <1>1, <2>2 DEF SessionInit
  <2> QED
    BY <2>1, <2>3, <2>4, <2>5 DEF SessionInv, SessionTypeOK
<1>2. ASSUME SessionInv, [SessionNext]_allVars PROVE SessionInv'
  <2>1. CASE SessionNext /\ (ClientStep \/ QueueStep \/ StartSession)
    <3>1. [Next]_vars
      BY <2>1, QueueInside DEF SessionNext
    <3>2. TypeOK' /\ HasCommand'
      BY <1>2, <3>1, TypeStep, HasCommandStep DEF SessionInv, SessionTypeOK
    <3>3. quiet' \in BOOLEAN /\ live' \in BOOLEAN
      BY <1>2, <2>1, LifeTypes, QueueFrame
    <3> QED
      BY <1>2, <2>1, <3>2, <3>3, QueueFrame DEF SessionInv, SessionTypeOK, LifeOK, RunOK
  <2>2. CASE UNCHANGED allVars
    BY <1>2, <2>2 DEF allVars, vars, sessionVars, queueVars, recordVars, passVars, clientVars,
                      SessionInv, SessionTypeOK, TypeOK, HasCommand, LifeOK, RunOK
  <2> QED
    BY <1>2, <2>1, <2>2, CallType, DroppedType, StopType, StartType, CrashType DEF SessionNext
<1> QED
  BY <1>1, <1>2

\* The state of a session is well formed however stops, starts, crashes, Run
\* calls, clients and goroutines interleave: a command at hand when one is
\* marked or queued is a command of the scroll file, and counts stay counts.
THEOREM SessionTypeSafe == SessionSpec => []SessionTypeOK
<1>1. SessionInv => SessionTypeOK
  BY DEF SessionInv
<1> QED
  BY <1>1, SessionInvInductive, PTL DEF SessionSpec
-----------------------------------------------------------------------------
(* Stops                                                                   *)

\* Nobody makes Run calls, and no run outlasts the drain.
Peaceful == RunCalls = {} /\ ~DrainTimesOut

\* And the scroll has a serve command.  Without any one of the three TLC finds
\* a stop that does not last: a Run call that returns late, or a start
\* without a serve command, stores its status over "stopped", and a
\* goroutine that outlasts the drain goes on.
StopsInPeace == Peaceful /\ Serve \in Commands

\* A session schedules unless a stop has switched it off; one that is not
\* in the map has nothing to schedule.
StartedInv ==
    /\ live /\ life.pc \notin {"drain", "reset", "backend", "store", "resume"} => started
    /\ life.pc \in {"drain", "reset", "backend", "store"} => live /\ life.was /\ ~started
    /\ ~live => ~started /\ queued = {} /\ life.pc \in {"none", "boot"}

\* Nothing is under way when there is nothing in the queue.
Rest == pass.todo = {} /\ pass.pc # "deps" /\ \A w \in Workers : worker[w].pc = "idle"

\* What is drained stays drained until the reset, unless a trigger overtook
\* the stop; what works after the reset works on what was queued after it.
DrainInv ==
    /\ pass.pc = "idle" => pass.todo = {}
    /\ ~live => NoQueueWork /\ \A r \in Requests : req[r].pc # "start"
    /\ life.pc = "reset" => late \/ NoQueueWork
    /\ queued = {} => late \/ Rest

\* After a stop the queue is empty and nobody is about to store another status.
QuietInv ==
    quiet /\ ~late /\ Serve \in Commands =>
        /\ queued = {}
        /\ record = stored
        /\ stored.status = "stopped"
        /\ \A p \in Procedures : stored.procs[p] \in {"unset", "done"}
        /\ life.pc \notin {"serveTrigger", "finish"}

NoRuns == \A r \in Requests : run[r].pc = "idle"

StopInv == StartedInv /\ DrainInv /\ QuietInv /\ NoRuns

\* Without passes, notifications and goroutines the queue stands still.
LEMMA NoWorkNoStep ==
    ASSUME TypeOK, NoQueueWork
    PROVE  ~RunQueue /\ \A w \in Workers : ~Goroutine(w)
<1>1. ~RunQueue
  BY DEF NoQueueWork, RunQueue, StartPass, PickCommand, CheckNeed, Launch, SkipCommand, EndPass,
         Notify, TypeOK
<1>2. \A w \in Workers : ~Goroutine(w)
  BY DEF NoQueueWork, Goroutine, ReportRunning, ReportFinished, Fail, SettleError, SettleDone,
         SettlePersistent, SettleRestart, Succeeded, EndBackoff, Exit
<1> QED
  BY <1>1, <1>2

\* Only a client that read started adds a pass on its own.
LEMMA ClientPending ==
    ASSUME NEW r \in Requests, Client(r)
    PROVE  pending' = pending \/ StartRunQueue(r)
BY DEF Client, AddQueueItem, Trigger, Await, ReadResult, RegisterNotifier, WaitUntilEmpty,
       ReceiveEmpty, CancelWait, passVars

\* And only a call that reads started while it is set gets that far.
LEMMA ClientReads ==
    ASSUME TypeOK, NEW r \in Requests, Client(r), ~started, \A q \in Requests : req[q].pc # "start"
    PROVE  \A q \in Requests : req'[q].pc # "start"
<1>1. req \in [Requests -> RequestState]
  BY DEF TypeOK
<1>2. CASE AddQueueItem(r)
  BY <1>1, <1>2 DEF AddQueueItem, Accept, Refuse
<1>3. CASE RegisterNotifier(r)
  BY <1>1, <1>3 DEF RegisterNotifier, WaitUntilEmpty
<1>4. CASE Trigger(r) \/ StartRunQueue(r)
  BY <1>1, <1>4 DEF Trigger, StartRunQueue, WaitOrReturn, Finish, RequestState
<1>5. CASE Await(r) \/ ReadResult(r) \/ ReceiveEmpty(r) \/ CancelWait(r)
  BY <1>1, <1>5 DEF Await, ReadResult, ReceiveEmpty, CancelWait, Finish, RequestState
<1> QED
  BY <1>2, <1>3, <1>4, <1>5 DEF Client

\* A client's step, as far as a stop is concerned.
LEMMA ClientStops ==
    ASSUME SessionInv, StopInv, ClientStep
    PROVE  StopInv'
<1> USE DEF queueVars, recordVars, passVars, clientVars
<1>1. /\ UNCHANGED <<live, life, run, started, pass, notifying, worker>>
      /\ StillQuiet /\ late' = (late \/ Overtakes)
  BY DEF ClientStep, AddQueueItem, Accept, Refuse, RegisterNotifier, WaitUntilEmpty, Trigger,
         StartRunQueue, WaitOrReturn, Await, ReadResult, ReceiveEmpty, CancelWait
<1>2. PICK r \in Requests : Client(r) /\ (AddQueueItem(r) => Reachable)
  BY DEF ClientStep, Client, AddQueueItem, Trigger, StartRunQueue, Await, ReadResult,
         ReceiveEmpty, CancelWait
<1>3. pending' = pending \/ StartRunQueue(r)
  BY <1>2, ClientPending
<1>4. \/ UNCHANGED <<queued, record, stored>>
      \/ Reachable /\ queued' # {}
  <2>1. CASE AddQueueItem(r)
    BY <1>2, <2>1 DEF AddQueueItem, Accept, Enqueue, Refuse
  <2> QED
    BY <1>2, <2>1 DEF Client, RegisterNotifier, WaitUntilEmpty, Trigger, StartRunQueue,
                      Await, ReadResult, ReceiveEmpty, CancelWait
<1>5. StartedInv'
  BY <1>1, <1>4 DEF StopInv, StartedInv, Reachable
<1>6. DrainInv'
  <2>1. ~live' => NoQueueWork' /\ \A q \in Requests : req'[q].pc # "start"
    <3>1. ASSUME ~live PROVE NoQueueWork /\ ~started /\ \A q \in Requests : req[q].pc # "start"
      BY <3>1 DEF StopInv, StartedInv, DrainInv
    <3>2. ASSUME ~live PROVE \A q \in Requests : req'[q].pc # "start"
      BY <1>2, <3>1, <3>2, ClientReads, LifeTypes
    <3>3. ASSUME ~live PROVE pending' = pending
      BY <1>3, <3>1, <3>3 DEF StartRunQueue
    <3> QED
      BY <1>1, <3>1, <3>2, <3>3 DEF NoQueueWork
  <2>2. life'.pc = "reset" => late' \/ NoQueueWork'
    <3>1. CASE StartRunQueue(r)
      BY <1>1, <3>1 DEF Overtakes
    <3>2. CASE pending' = pending
      BY <1>1, <3>2 DEF StopInv, DrainInv, NoQueueWork
    <3> QED
      BY <1>3, <3>1, <3>2
  <2>3. queued' = {} => late' \/ Rest'
    BY <1>1, <1>4 DEF StopInv, DrainInv, Rest
  <2> QED
    BY <1>1, <2>1, <2>2, <2>3 DEF StopInv, DrainInv
<1>7. QuietInv'
  BY <1>1, <1>4 DEF StopInv, QuietInv, StillQuiet
<1> QED
  BY <1>1, <1>5, <1>6, <1>7 DEF StopInv, NoRuns

\* A pass of an empty queue takes up nothing.
LEMMA QueueRests ==
    ASSUME Rest, QueueStep, queued' = {}, queued = {}
    PROVE  Rest' /\ UNCHANGED <<record, stored>>
<1> USE DEF queueVars, recordVars, passVars, clientVars
<1>1. \A w \in Workers : ~Goroutine(w)
  BY DEF Rest, Goroutine, ReportRunning, ReportFinished, Fail, SettleError, SettleDone,
         SettlePersistent, SettleRestart, Succeeded, EndBackoff, Exit
<1>2. StartPass \/ EndPass \/ Notify
  BY <1>1 DEF Rest, QueueStep, RunQueue, PickCommand, CheckNeed, Launch, SkipCommand
<1>3. CASE StartPass
  <2>1. {c \in Commands : Eligible(c)} = {}
    BY DEF Eligible
  <2>2. pass'.todo = {} /\ pass'.pc = "scan"
    BY <1>3, <2>1 DEF StartPass, NoPass
  <2> QED
    BY <1>3, <2>2 DEF StartPass, Rest
<1>4. CASE EndPass \/ Notify
  BY <1>4 DEF EndPass, Notify, NoPass, Rest
<1> QED
  BY <1>2, <1>3, <1>4

\* What passes and goroutines do, as far as a stop is concerned.
LEMMA QueueStops ==
    ASSUME SessionInv, StopInv, QueueStep
    PROVE  StopInv'
<1> USE DEF queueVars, recordVars, passVars, clientVars
<1>1. UNCHANGED <<live, life, run, late>> /\ StillQuiet
  BY DEF QueueStep
<1>2. UNCHANGED started /\ (queued' = {} => queued = {})
  BY DEF QueueStep, RunQueue, StartPass, PickCommand, CheckNeed, Enqueue, Launch, SkipCommand,
         EndPass, Notify, Goroutine, ReportRunning, ReportFinished, Fail, SettleError,
         SettleDone, SettlePersistent, SettleRestart, EndBackoff, Exit
<1>3. ~NoQueueWork
  BY NoWorkNoStep, LifeTypes DEF QueueStep
<1>4. live /\ (life.pc = "reset" => late)
  BY <1>3 DEF StopInv, DrainInv
<1>5. StartedInv'
  BY <1>1, <1>2, <1>4 DEF StopInv, StartedInv
<1>6. pass'.pc = "idle" => pass'.todo = {}
  <2>1. CASE UNCHANGED pass
    BY <2>1 DEF StopInv, DrainInv
  <2>2. pass \in PassState
    BY LifeTypes DEF TypeOK
  <2>3. CASE StartPass
    BY <2>3 DEF StartPass, NoPass
  <2>6. CASE EndPass
    BY <2>6 DEF EndPass, NoPass
  <2>4. ASSUME NEW c \in Commands, PickCommand(c) \/ CheckNeed(c) PROVE pass'.pc = "deps"
    BY <2>2, <2>4 DEF PickCommand, CheckNeed, PassState
  <2>5. ASSUME NextCommand PROVE pass'.pc = "scan"
    BY <2>2, <2>5 DEF NextCommand, PassState
  <2> QED
    BY <2>1, <2>3, <2>4, <2>5, <2>6 DEF QueueStep, RunQueue, SkipCommand, Launch, Notify, Goroutine,
       ReportRunning, ReportFinished, Fail, SettleError, SettleDone, SettlePersistent,
       SettleRestart, EndBackoff, Exit
<1>8. ASSUME queued' = {}, ~late PROVE Rest' /\ UNCHANGED <<record, stored>>
  <2>1. queued = {} /\ Rest
    BY <1>2, <1>8 DEF StopInv, DrainInv
  <2> QED
    BY <1>8, <2>1, QueueRests
<1>7. DrainInv'
  BY <1>1, <1>4, <1>6, <1>8 DEF DrainInv
<1>9. QuietInv'
  BY <1>1, <1>8 DEF StopInv, QuietInv, StillQuiet
<1> QED
  BY <1>1, <1>5, <1>7, <1>9 DEF StopInv, NoRuns

\* What StopRuntime does: nothing runs when the record is stored.
LEMMA StopStops ==
    ASSUME Peaceful, SessionInv, StopInv, StopRuntime
    PROVE  StopInv'
<1> USE DEF vars, queueVars, recordVars, passVars, clientVars
<1>1. CASE StopBegin
  <2>1. started /\ life'.pc = "drain" /\ life'.was /\ live
    BY <1>1 DEF StopBegin, Reachable, StopInv, StartedInv, NoLife
  <2> QED
    BY <1>1, <2>1 DEF StopBegin, StopInv, StartedInv, DrainInv, NoQueueWork, Rest, QuietInv, NoRuns
<1>2. CASE StopDrained
  <2>1. NoQueueWork /\ life'.pc = "reset" /\ life'.was = life.was
    BY <1>2, LifeTypes DEF StopDrained, Peaceful, LifeState
  <2> QED
    BY <1>2, <2>1 DEF StopDrained, StopInv, StartedInv, DrainInv, NoQueueWork, Rest, QuietInv, NoRuns
<1>3. CASE StopReset
  <2>1. life'.pc = "backend" /\ life'.was = life.was
    BY <1>3, LifeTypes DEF StopReset, LifeState
  <2>2. late \/ Rest
    BY <1>3 DEF StopReset, StopInv, DrainInv, NoQueueWork, Rest
  <2>3. DrainInv'
    BY <1>3, <2>1, <2>2 DEF StopReset, StopInv, StartedInv, DrainInv, Rest
  <2> QED
    BY <1>3, <2>1, <2>3 DEF StopReset, StopInv, StartedInv, QuietInv, NoRuns
<1>4. CASE StopBackend
  <2>1. life'.pc = "store" /\ life'.was = life.was
    BY <1>4, LifeTypes DEF StopBackend, LifeState
  <2> QED
    BY <1>4, <2>1 DEF StopBackend, StopInv, StartedInv, DrainInv, NoQueueWork, Rest, QuietInv, NoRuns
<1>5. CASE StopBackendFails
  <2>1. life'.pc = "markError" /\ started' /\ live
    BY <1>5, LifeTypes DEF StopBackendFails, StopInv, StartedInv, LifeState
  <2> QED
    BY <1>5, <2>1 DEF StopBackendFails, StopInv, StartedInv, DrainInv, NoQueueWork, Rest, QuietInv, NoRuns
<1>6. CASE StopMarkError
  <2>1. life'.pc = "none" /\ (live => started)
    BY <1>6 DEF StopMarkError, NoLife, StopInv, StartedInv
  <2> QED
    BY <1>6, <2>1 DEF StopMarkError, StopInv, StartedInv, DrainInv, NoQueueWork, Rest, QuietInv, NoRuns
<1>7. CASE StopStore
  <2>1. live /\ life.was /\ ~started
    BY <1>7 DEF StopStore, StopInv, StartedInv
  <2>2. life'.pc = "resume"
    BY <1>7, <2>1, LifeTypes DEF StopStore, LifeState
  <2>3. /\ record'.status = "stopped" /\ stored' = record'
        /\ \A p \in Procedures : record'.procs[p] \in {"unset", "done"}
    BY <1>7 DEF StopStore
  <2>4. QuietInv'
    BY <1>7, <2>2, <2>3 DEF StopStore, QuietInv
  <2> QED
    BY <1>7, <2>1, <2>2, <2>4 DEF StopStore, StopInv, StartedInv, DrainInv, Rest, NoRuns
<1>8. CASE Resume
  <2>1. life'.pc = "none" /\ started' /\ live
    BY <1>8 DEF Resume, NoLife, StopInv, StartedInv
  <2> QED
    BY <1>8, <2>1 DEF Resume, StopInv, StartedInv, DrainInv, NoQueueWork, Rest, QuietInv, NoRuns
<1> QED
  BY <1>1, <1>2, <1>3, <1>4, <1>5, <1>6, <1>7, <1>8 DEF StopRuntime

\* The lifecycle steps of a start, as far as a stop is concerned.
LEMMA StartStops ==
    ASSUME Peaceful, SessionInv, StopInv, StartOrHydrate
    PROVE  StopInv'
<1> USE DEF vars, queueVars, recordVars, passVars, clientVars
<1> DEFINE Starting == {"hydrate", "remember", "mark", "serve", "serveTrigger", "finish"}
<1>0. Serve \in Commands => Serve # None
  BY ClientsAssumption
<1>10. life.pc \in Starting => live
  BY DEF StopInv, StartedInv
<1>1. ASSUME UNCHANGED <<live, started, pass, notifying, worker, run, late>>,
             queued' = {} => queued = {},
             life.pc \in Starting \cup {"none"}, live,
             life'.pc \in Starting \cup {"none", "resume"},
             life'.pc \in {"none", "resume"} => life.pc = "finish",
             quiet' /\ ~late /\ Serve \in Commands => quiet /\ UNCHANGED <<queued, record, stored>>,
             quiet' /\ ~late /\ Serve \in Commands => life'.pc \notin {"serveTrigger", "finish"}
      PROVE  StopInv'
  <2>1. started
    BY <1>1 DEF StopInv, StartedInv
  <2>2. StartedInv'
    BY <1>1, <2>1 DEF StartedInv
  <2>3. DrainInv'
    BY <1>1 DEF StopInv, DrainInv, Rest
  <2>4. QuietInv'
    BY <1>1 DEF StopInv, QuietInv
  <2> QED
    BY <1>1, <2>2, <2>3, <2>4 DEF StopInv, NoRuns
<1>2. CASE StartScroll
  <2>1. /\ live /\ life.pc = "none" /\ life'.pc \in {"remember", "finish"}
        /\ Serve \in Commands => life'.pc = "remember"
    BY <1>2, <1>0 DEF StartScroll, Reachable, AutoStart, NoLife
  <2> QED
    BY <1>1, <1>2, <2>1 DEF StartScroll
<1>3. ASSUME NEW d \in Commands, StartPeek(d) PROVE StopInv'
  <2>1. life.pc = "remember" /\ life'.pc \in {"remember", "mark"}
    BY <1>3, LifeTypes DEF StartPeek, LifeState
  <2> QED
    BY <1>1, <1>3, <1>10, <2>1 DEF StartPeek
<1>4. CASE StartMark
  <2>1. life.pc = "mark" /\ life'.pc = "remember"
    BY <1>4, LifeTypes DEF StartMark, LifeState
  <2>2. ~quiet'
    BY <1>4 DEF StartMark, RememberDoneItem, StillQuiet
  <2> QED
    BY <1>1, <1>4, <1>10, <2>1, <2>2 DEF StartMark, RememberDoneItem
<1>5. CASE StartCheck
  <2>1. life.pc = "remember" /\ life'.pc = (IF ServeRuns THEN "finish" ELSE "serve")
    BY <1>5, LifeTypes DEF StartCheck, LifeState
  <2>2. quiet /\ ~late /\ Serve \in Commands => ~ServeRuns
    BY DEF StopInv, QuietInv, ServeRuns
  <2> QED
    BY <1>1, <1>5, <1>10, <2>1, <2>2 DEF StartCheck
<1>6. CASE StartServe
  <2>1. life.pc = "serve" /\ life'.pc \in {"finish", "serveTrigger"}
    BY <1>6, LifeTypes DEF StartServe, LifeState
  <2>2. quiet' = (quiet /\ queued' = {})
    BY <1>6 DEF StartServe, StillQuiet
  <2>3. queued' # {}
    BY <1>6 DEF StartServe, AlreadyQueued, Enqueue
  <2> QED
    BY <1>1, <1>6, <1>10, <2>1, <2>2, <2>3 DEF StartServe
<1>7. CASE StartTrigger
  <2>1. life.pc = "serveTrigger" /\ life'.pc = "finish"
    BY <1>7, LifeTypes DEF StartTrigger, LifeState
  <2>2. quiet /\ ~late => Serve \notin Commands
    BY <2>1 DEF StopInv, QuietInv
  <2> QED
    BY <1>1, <1>7, <1>10, <2>1, <2>2 DEF StartTrigger
<1>8. CASE StartFinish
  <2>1. life.pc = "finish" /\ life'.pc \in {"none", "resume"}
    BY <1>8, LifeTypes DEF StartFinish, LifeState, NoLife
  <2>2. quiet /\ ~late => Serve \notin Commands
    BY <2>1 DEF StopInv, QuietInv
  <2> QED
    BY <1>1, <1>8, <1>10, <2>1, <2>2 DEF StartFinish
<1>9. ASSUME NEW c \in Commands, HydrateItem(c) PROVE StopInv'
  <2>1. life.pc = "hydrate" /\ life'.pc = "hydrate"
    BY <1>9, LifeTypes DEF HydrateItem, LifeState
  <2>2. ~quiet'
    BY <1>9 DEF HydrateItem, StillQuiet
  <2> QED
    BY <1>1, <1>9, <1>10, <2>1, <2>2 DEF HydrateItem
<1>11. CASE HydrateDone
  <2>1. /\ life.pc = "hydrate" /\ life'.pc \in {"remember", "finish"}
        /\ Serve \in Commands => life'.pc = "remember"
    BY <1>0, <1>11, LifeTypes DEF HydrateDone, AutoStart, LifeState
  <2> QED
    BY <1>1, <1>10, <1>11, <2>1 DEF HydrateDone
<1>12. CASE Boot /\ stored.status = "running"
  <2>1. live' /\ started' /\ life'.pc = "hydrate"
    BY <1>12, LifeTypes DEF Boot, LifeState
  <2>2. quiet /\ ~late => Serve \notin Commands
    BY <1>12 DEF StopInv, QuietInv
  <2> QED
    BY <1>12, <2>1, <2>2 DEF Boot, StopInv, StartedInv, DrainInv, Rest, QuietInv, NoRuns
<1>13. CASE Boot /\ stored.status # "running"
  <2>1. life'.pc = "none" /\ UNCHANGED <<live, started, pending>> /\ life.pc = "boot"
    BY <1>13 DEF Boot, NoLife
  <2>2. DrainInv' /\ StartedInv'
    BY <1>13, <2>1 DEF Boot, StopInv, StartedInv, DrainInv, NoQueueWork, Rest
  <2> QED
    BY <1>13, <2>1, <2>2 DEF Boot, StopInv, QuietInv, NoRuns
<1> QED
  BY <1>2, <1>3, <1>4, <1>5, <1>6, <1>7, <1>8, <1>9, <1>11, <1>12, <1>13 DEF StartOrHydrate

\* The crash: the session is gone, and what was stored stays.
LEMMA CrashStops ==
    ASSUME SessionInv, StopInv, Crash
    PROVE  StopInv'
<1>1. /\ live' = FALSE /\ started' = FALSE /\ queued' = {} /\ life'.pc = "boot"
      /\ pending' = 0 /\ notifying' = 0 /\ pass' = NoPass
      /\ \A w \in Workers : worker'[w].pc = "idle"
      /\ record' = stored /\ stored' = stored /\ UNCHANGED <<quiet, late>>
  BY DEF Crash, NoLife, IdleWorker
<1>5. \A r \in Requests : req'[r].pc # "start"
  BY LifeTypes DEF Crash, TypeOK, RequestState
<1>2. StartedInv' /\ DrainInv'
  BY <1>1, <1>5 DEF StartedInv, DrainInv, NoQueueWork, Rest, NoPass
<1>3. QuietInv'
  BY <1>1 DEF StopInv, QuietInv
<1>4. NoRuns'
  BY DEF Crash, StopInv, NoRuns
<1> QED
  BY <1>2, <1>3, <1>4 DEF StopInv

\* Every step keeps the invariant.
LEMMA StopInvInductive ==
    ASSUME Peaceful
    PROVE  /\ SessionInit => StopInv
           /\ SessionInv /\ StopInv /\ [SessionNext]_allVars => StopInv'
<1> USE DEF queueVars, recordVars, passVars, clientVars
<1>1. ASSUME SessionInit PROVE StopInv
  BY <1>1 DEF SessionInit, Init, NoLife, NoRun, NoPass, IdleWorker, NoCall, StopInv,
              StartedInv, DrainInv, NoQueueWork, Rest, QuietInv, NoRuns
<1>2. ASSUME SessionInv, StopInv, [SessionNext]_allVars PROVE StopInv'
  <2>1. CASE StartSession
    <3>1. live' /\ started' /\ UNCHANGED <<life, run, quiet, late, queued, record, stored, pass, worker>>
      BY <2>1 DEF StartSession, Start
    <3>2. life.pc = "none"
      BY <2>1 DEF StartSession
    <3> QED
      BY <1>2, <3>1, <3>2 DEF StopInv, StartedInv, DrainInv, Rest, QuietInv, NoRuns
  <2>2. ASSUME NEW r \in Requests, RunCommandCall(r) PROVE FALSE
    BY <1>2, <2>2 DEF StopInv, NoRuns, RunCommandCall, RunBegin, RunPeek, RunRefresh, RunMark,
                      RunAdd, RunWait, RunReturn, RunFinal, Peaceful
  <2>3. ASSUME NEW r \in Requests, CancelDropped(r) PROVE StopInv'
    <3>1. \A q \in Requests : req'[q].pc = "start" => req[q].pc = "start"
      BY <1>2, <2>3, LifeTypes DEF CancelDropped, Finish, TypeOK, RequestState
    <3> QED
      BY <1>2, <2>3, <3>1 DEF CancelDropped, sessionVars, StopInv, StartedInv, DrainInv,
                              NoQueueWork, Rest, QuietInv, NoRuns
  <2>4. CASE UNCHANGED allVars
    BY <1>2, <2>4 DEF allVars, vars, sessionVars, StopInv, StartedInv, DrainInv, NoQueueWork,
                      Rest, QuietInv, NoRuns
  <2> QED
    BY <1>2, <2>1, <2>2, <2>3, <2>4, ClientStops, QueueStops, StopStops, StartStops, CrashStops
       DEF SessionNext
<1> QED
  BY <1>1, <1>2

\* A stop lasts: after StopRuntime no goroutine works and the store says the
\* scroll is stopped, until something is queued again, whatever clients,
\* starts, failing stops and crashes of the daemon come in between.
THEOREM StoppedStaysSafe ==
    ASSUME StopsInPeace
    PROVE  SessionSpec => []StoppedStays
<1>1. StopInv => StoppedStays
  BY DEF StopsInPeace, StopInv, QuietInv, DrainInv, Rest, StoppedStays, Busy
<1>2. SessionInit => SessionInv /\ StopInv
  BY SessionInvInductive, StopInvInductive DEF StopsInPeace
<1>3. SessionInv /\ StopInv /\ [SessionNext]_allVars => (SessionInv /\ StopInv)'
  BY SessionInvInductive, StopInvInductive DEF StopsInPeace
<1> QED
  BY <1>1, <1>2, <1>3, PTL DEF SessionSpec
-----------------------------------------------------------------------------
(* Scheduling across stops, starts and crashes                             *)

\* Nothing is marked as done behind the queue's back, and hydration finds the
\* queue empty: the serve command needs nothing, and after a crash no command
\* does.  TLC finds a lost wakeup without the first (a need that waits is
\* marked done and nobody is triggered) and a second run of a run-once
\* command without the second (a pass queues the need that is hydrated next).
SchedulesInPeace ==
    /\ Peaceful
    /\ Serve \in Commands => Needs[Serve] = {}
    /\ MaxCrashes = 0 \/ \A c \in Commands : Needs[c] = {}

\* Hydrate works on a queue that nobody else fills.
BootInv ==
    /\ life.pc \in {"boot", "hydrate"} => \A c \in Commands : Needs[c] = {}
    /\ life.pc = "boot" => life.boot /\ ~live
    /\ life.pc = "hydrate" =>
         /\ life.boot
         /\ queued \cap life.todo = {}
         /\ \A c \in life.done : Finite(c)
    /\ life.pc = "remember" => life.todo = {}
    /\ life.pc # "mark"
    /\ life.boot => life.pc \in {"boot", "hydrate", "remember", "serve", "serveTrigger",
                                 "finish", "resume"}

\* Where there is no key there is no value.
BlankInv == \A c \in Commands \ queued : item[c] = Blank

SchedInv == SessionInv /\ StopInv /\ FlagInv /\ BlankInv /\ BootInv

\* A trigger that overtook a stop is not forgotten: from then on nothing is
\* claimed.
LEMMA LateStays ==
    ASSUME late, [SessionNext]_allVars
    PROVE  late'
<1>1. ASSUME NEW r \in Requests, RunCommandCall(r) \/ CancelDropped(r) PROVE late'
  BY <1>1, CallFrame DEF CancelDropped, sessionVars
<1>2. CASE ClientStep \/ QueueStep \/ StartSession
  BY <1>2 DEF ClientStep, QueueStep, StartSession
<1>3. CASE StopRuntime
  BY <1>3 DEF StopRuntime, StopBegin, StopDrained, StopReset, StopBackend, StopBackendFails,
              StopMarkError, StopStore, Resume
<1>4. CASE StartOrHydrate
  BY <1>4 DEF StartOrHydrate, StartScroll, StartPeek, StartMark, StartCheck, StartServe,
              StartTrigger, StartFinish, Boot, HydrateItem, HydrateDone
<1>5. CASE Crash \/ UNCHANGED allVars
  BY <1>5 DEF Crash, allVars, sessionVars
<1> QED
  BY <1>1, <1>2, <1>3, <1>4, <1>5 DEF SessionNext

\* A lifecycle step that leaves the queue alone.
LEMMA FlagsUntouched ==
    ASSUME FlagInv, BlankInv, SessionInv', UNCHANGED <<queued, item, pass, worker>>
    PROVE  FlagInv' /\ BlankInv'
BY DEF FlagInv, BlankInv, SessionInv, SessionTypeOK, FlagItems, FlagsOK, PassInv, WorkerInv,
       SingleFlight, Busy

\* The queue's own steps take nothing out of it, and add something only for a
\* client or for a need.
LEMMA QueueGrows ==
    ASSUME FlagInv, Alive, ClientStep \/ QueueStep \/ StartSession
    PROVE  /\ queued \subseteq queued'
           /\ \A c \in Commands \ queued' : item'[c] = item[c]
           /\ queued' = queued \/ Reachable \/ \E c \in Commands : Needs[c] # {}
<1> USE DEF queueVars, recordVars, passVars, clientVars
<1>1. CASE UNCHANGED <<queued, item>>
  BY <1>1
<1>2. CASE ClientStep
  <2>1. ASSUME NEW r \in Requests, AddQueueItem(r), Reachable
        PROVE  queued \subseteq queued' /\ \A c \in Commands \ queued' : item'[c] = item[c]
    BY <2>1 DEF AddQueueItem, Accept, Refuse, Enqueue, FlagInv, TypeOK
  <2>2. ASSUME UNCHANGED <<queued, item>> \/ \E r \in Requests : AddQueueItem(r) /\ Reachable
        PROVE  /\ queued \subseteq queued'
               /\ \A c \in Commands \ queued' : item'[c] = item[c]
               /\ queued' = queued \/ Reachable
    BY <2>1, <2>2
  <2>3. UNCHANGED <<queued, item>> \/ \E r \in Requests : AddQueueItem(r) /\ Reachable
    BY <1>2 DEF ClientStep, RegisterNotifier, WaitUntilEmpty, Trigger, StartRunQueue, WaitOrReturn,
                Await, ReadResult, ReceiveEmpty, CancelWait
  <2> QED
    BY <2>2, <2>3
<1>3. CASE RunQueue
  <2>1. ASSUME NEW d \in Commands, CheckNeed(d)
        PROVE  /\ queued \subseteq queued'
               /\ \A c \in Commands \ queued' : item'[c] = item[c]
               /\ \E c \in Commands : Needs[c] # {}
    <3>1. queued \subseteq queued' /\ \A c \in Commands \ queued' : item'[c] = item[c]
      BY <2>1 DEF CheckNeed, Enqueue, FlagInv, TypeOK
    <3>2. pass.cmd \in Commands /\ d \in Needs[pass.cmd]
      BY <2>1 DEF CheckNeed, FlagInv, PassInv
    <3> QED
      BY <3>1, <3>2
  <2>2. ASSUME NEW w \in Workers, Launch(w)
        PROVE  queued' = queued /\ \A c \in Commands \ queued' : item'[c] = item[c]
    BY <2>2 DEF Launch, FlagInv, TypeOK
  <2> QED
    BY <1>1, <1>3, <2>1, <2>2 DEF RunQueue, StartPass, PickCommand, SkipCommand, EndPass, Notify
<1>4. ASSUME NEW w \in Workers, Goroutine(w)
      PROVE  queued' = queued /\ \A c \in Commands \ queued' : item'[c] = item[c]
  <2>1. /\ UNCHANGED queued
        /\ \A d \in Commands \ {worker[w].cmd} : item'[d] = item[d]
        /\ Busy(w) \/ UNCHANGED item
    BY <1>4, GoroutineOwn DEF FlagInv
  <2>2. Busy(w) => worker[w].cmd \in queued
    BY DEF FlagInv, WorkerInv
  <2> QED
    BY <2>1, <2>2
<1>5. CASE StartSession
  BY <1>1, <1>5 DEF StartSession, Start
<1> QED
  BY <1>2, <1>3, <1>4, <1>5 DEF QueueStep

\* The queue's steps, as far as hydration is concerned.
LEMMA QueueScheds ==
    ASSUME SchedInv, Alive, ClientStep \/ QueueStep \/ StartSession
    PROVE  FlagInv' /\ BlankInv' /\ BootInv'
<1>1. FlagInv'
  BY QueueInside, FlagStep DEF SchedInv
<1>2. /\ queued \subseteq queued'
      /\ \A c \in Commands \ queued' : item'[c] = item[c]
      /\ queued' = queued \/ Reachable \/ \E c \in Commands : Needs[c] # {}
  BY QueueGrows DEF SchedInv
<1>3. BlankInv'
  BY <1>2 DEF SchedInv, BlankInv
<1>4. UNCHANGED life
  BY QueueFrame
<1>5. life.pc = "boot" => UNCHANGED live
  <2>1. CASE StartSession
    BY <2>1 DEF StartSession
  <2> QED
    BY <2>1 DEF ClientStep, QueueStep
<1>6. BootInv'
  BY <1>2, <1>4, <1>5 DEF SchedInv, BootInv, Reachable
<1> QED
  BY <1>1, <1>3, <1>6

\* StopRuntime resets the queue when no pass and no goroutine works on it.
LEMMA StopScheds ==
    ASSUME SchedInv, ~late, StopRuntime, SessionInv'
    PROVE  FlagInv' /\ BlankInv' /\ BootInv'
<1> USE DEF vars, queueVars, recordVars, passVars, clientVars
<1>1. life \in LifeState
  BY LifeTypes DEF SchedInv
<1>2. BootInv'
  <2>1. \/ life' = NoLife
        \/ /\ life'.pc \in {"drain", "reset", "backend", "store", "resume", "markError"}
           /\ ~life'.boot
    <3>1. CASE StopBegin
      BY <3>1 DEF StopBegin, NoLife
    <3>2. ~StopBegin => life.pc \in {"drain", "reset", "backend", "store", "resume", "markError"}
      BY DEF StopRuntime, StopDrained, StopReset, StopBackend, StopBackendFails, StopMarkError,
             StopStore, Resume
    <3>3. CASE life.pc \in {"drain", "reset", "backend", "store"} /\ ~StopBegin
      <4>1. ~life.boot /\ ~Resume /\ ~StopMarkError
        BY <3>3 DEF SchedInv, BootInv, Resume, StopMarkError
      <4> QED
        BY <1>1, <3>3, <4>1 DEF StopRuntime, StopDrained, StopReset, StopBackend,
           StopBackendFails, StopStore, LifeState
    <3>4. CASE life.pc \in {"resume", "markError"} /\ ~StopBegin
      BY <3>4 DEF StopRuntime, StopDrained, StopReset, StopBackend, StopBackendFails,
         StopMarkError, StopStore, Resume
    <3> QED
      BY <3>1, <3>2, <3>3, <3>4
  <2> QED
    BY <2>1 DEF BootInv, NoLife
<1>3. CASE StopReset
  <2>1. /\ pass.pc = "idle" /\ pass.todo = {} /\ pass.cmd = None
        /\ \A w \in Workers : worker[w].pc = "idle"
    BY <1>3 DEF StopReset, SchedInv, StopInv, DrainInv, NoQueueWork, FlagInv, PassInv
  <2>2. UNCHANGED <<pass, worker>> /\ queued' = {} /\ item' = [c \in Commands |-> Blank]
    BY <1>3 DEF StopReset
  <2>3. TypeOK' /\ HasCommand'
    BY DEF SessionInv, SessionTypeOK
  <2>4. FlagItems' /\ PassInv' /\ WorkerInv' /\ SingleFlight'
    BY <2>1, <2>2 DEF FlagItems, PassInv, WorkerInv, SingleFlight, Busy
  <2> QED
    BY <1>2, <2>2, <2>3, <2>4 DEF FlagInv, BlankInv
<1>4. CASE ~StopReset
  <2>1. UNCHANGED <<queued, item, pass, worker>>
    BY <1>4 DEF StopRuntime, StopBegin, StopDrained, StopBackend, StopBackendFails,
                StopMarkError, StopStore, Resume
  <2> QED
    BY <1>2, <2>1, FlagsUntouched DEF SchedInv
<1> QED
  BY <1>3, <1>4

\* A command without needs has none further on.
LEMMA NoNeeds ==
    ASSUME NEW c \in Commands, Needs[c] = {}
    PROVE  AllNeeds(c) = {}
BY DEF AllNeeds

\* What AutoStart begins with.
LEMMA AutoStartScheds ==
    ASSUME SchedulesInPeace, NEW l \in LifeState
    PROVE  /\ AutoStart(l).pc \in {"finish", "remember"}
           /\ AutoStart(l).boot = l.boot
           /\ AutoStart(l).pc = "remember" => AutoStart(l).todo = {}
<1>1. CASE Serve = None
  BY <1>1 DEF AutoStart, LifeState
<1>2. CASE Serve # None
  <2>1. Serve \in Commands
    BY <1>2, SessionAssumption
  <2>2. AllNeeds(Serve) = {}
    BY <2>1, NoNeeds DEF SchedulesInPeace
  <2> QED
    BY <1>2, <2>2 DEF AutoStart, LifeState
<1> QED
  BY <1>1, <1>2

\* A start queues the serve command, hydration what is in the store.
LEMMA StartScheds ==
    ASSUME SchedulesInPeace, SchedInv, StartOrHydrate, SessionInv'
    PROVE  FlagInv' /\ BlankInv' /\ BootInv'
<1> USE DEF vars, queueVars, recordVars, passVars, clientVars
<1>1. life \in LifeState /\ TypeOK /\ BootInv /\ FlagInv /\ BlankInv /\ TypeOK' /\ HasCommand'
  BY LifeTypes DEF SchedInv, SessionInv, SessionTypeOK
<1>2. CASE UNCHANGED <<queued, item, pass, worker>>
  <2>1. CASE StartScroll
    <3>1. life' = AutoStart(NoLife) /\ NoLife \in LifeState /\ ~NoLife.boot
      BY <2>1 DEF StartScroll, NoLife, LifeState
    <3>2. life'.pc \in {"finish", "remember"} /\ ~life'.boot /\ (life'.pc = "remember" => life'.todo = {})
      BY <3>1, AutoStartScheds DEF NoLife
    <3> QED
      BY <1>1, <1>2, <3>2, FlagsUntouched DEF BootInv
  <2>2. CASE HydrateDone
    <3>1. PICK l : l = [life EXCEPT !.done = {}]
      OBVIOUS
    <3>2. life' = AutoStart(l) /\ l \in LifeState /\ l.pc = "hydrate"
      BY <1>1, <2>2, <3>1 DEF HydrateDone, LifeState
    <3>3. life'.pc \in {"finish", "remember"} /\ (life'.pc = "remember" => life'.todo = {})
      BY <3>2, AutoStartScheds
    <3> QED
      BY <1>1, <1>2, <3>3, FlagsUntouched DEF BootInv
  <2>3. CASE StartCheck \/ StartServe \/ StartTrigger
    <3>1. /\ life.pc \in {"remember", "serve", "serveTrigger"} /\ life'.boot = life.boot
          /\ life'.pc \in {"serve", "serveTrigger", "finish"}
      BY <1>1, <2>3 DEF StartCheck, StartServe, StartTrigger, LifeState
    <3> QED
      BY <1>1, <1>2, <3>1, FlagsUntouched DEF BootInv
  <2>4. CASE StartFinish
    <3>1. life' = NoLife \/ (life'.pc = "resume" /\ life'.boot = life.boot)
      BY <1>1, <2>4 DEF StartFinish, LifeState
    <3> QED
      BY <1>1, <1>2, <3>1, FlagsUntouched DEF BootInv, NoLife
  <2>5. CASE Boot
    <3>1. \/ life' = NoLife
          \/ /\ life'.pc = "hydrate" /\ life'.boot = life.boot /\ life.pc = "boot"
             /\ \A c \in life'.done : Finite(c)
      <4>1. PICK x : x = [life EXCEPT !.pc = "hydrate", !.todo = ToHydrate,
                                      !.done = {c \in ToHydrate :
                                                   Finite(c) /\ DerivedStatus(c) = "done"}]
        OBVIOUS
      <4>2. x.pc = "hydrate" /\ x.boot = life.boot /\ \A c \in x.done : Finite(c)
        BY <1>1, <4>1 DEF LifeState
      <4>3. life.pc = "boot" /\ (life' = NoLife \/ life' = x)
        BY <2>5, <4>1 DEF Boot
      <4> QED
        BY <4>2, <4>3
    <3>2. life.pc = "boot" => life.boot /\ queued = {}
      BY DEF SchedInv, StopInv, StartedInv, BootInv
    <3> QED
      BY <1>1, <1>2, <3>1, <3>2, FlagsUntouched DEF BootInv, NoLife
  <2>6. ASSUME NEW d \in Commands, StartPeek(d) PROVE FALSE
    BY <1>1, <2>6 DEF StartPeek, BootInv
  <2>7. CASE StartMark
    BY <1>1, <2>7 DEF StartMark, BootInv
  <2>8. ASSUME NEW c \in Commands, HydrateItem(c) PROVE FlagInv' /\ BlankInv' /\ BootInv'
    <3>1. /\ life'.pc = "hydrate" /\ life'.boot = life.boot /\ life'.done = life.done
          /\ life'.todo = life.todo \ {c}
      BY <1>1, <2>8 DEF HydrateItem, LifeState
    <3> QED
      BY <1>1, <1>2, <2>8, <3>1, FlagsUntouched DEF HydrateItem, BootInv
  <2> QED
    BY <2>1, <2>2, <2>3, <2>4, <2>5, <2>6, <2>7, <2>8 DEF StartOrHydrate
<1>3. CASE StartServe /\ ~AlreadyQueued(Serve)
  <2>1. Serve \in Commands /\ Enqueue(Serve, None) /\ UNCHANGED <<pass, worker>>
    BY <1>3, LifeTypes DEF StartServe, LifeOK, SchedInv
  <2>2. /\ FlagItems' /\ WorkerInv'
        /\ \A d \in queued : item[d].runRequested => d \in queued' /\ item'[d].runRequested
        /\ \A d \in Commands \ {Serve} : item'[d] = item[d]
        /\ queued' = queued \cup {Serve}
    BY <1>1, <2>1, EnqueueFlags
  <2>3. PassInv' /\ SingleFlight'
    BY <1>1, <2>1, <2>2 DEF FlagInv, PassInv, SingleFlight, Busy
  <2>4. life'.boot = life.boot /\ life'.pc = "serveTrigger"
    BY <1>1, <1>3 DEF StartServe, LifeState
  <2>5. BlankInv' /\ BootInv'
    BY <1>1, <2>2, <2>4 DEF BlankInv, BootInv
  <2> QED
    BY <1>1, <2>2, <2>3, <2>5 DEF FlagInv
<1>4. ASSUME NEW c \in Commands, HydrateItem(c) PROVE FlagInv' /\ BlankInv' /\ BootInv'
  <2>1. /\ c \notin queued /\ item[c] = Blank /\ queued' = queued \cup {c}
        /\ UNCHANGED <<pass, worker>>
    BY <1>1, <1>4 DEF HydrateItem, BootInv, BlankInv
  <2>2. /\ item'[c] = Hydrated(c)
        /\ \A d \in Commands \ {c} : item'[d] = item[d]
    BY <1>1, <1>4 DEF HydrateItem, TypeOK
  <2>3. FlagsOK(c)'
    <3>1. Mode[c] # "restart" \/ c \notin life.done
      BY <1>1, <1>4 DEF HydrateItem, BootInv, Finite
    <3> QED
      BY <2>1, <2>2, <3>1 DEF Hydrated, Blank, FlagsOK
  <2>4. FlagItems'
    <3>1. \A d \in queued \ {c} : item'[d] = item[d]
      BY <1>1, <2>2 DEF TypeOK
    <3> QED
      BY <1>1, <2>1, <2>3, <3>1, FlagFrame
  <2>5. PassInv'
    BY <1>1, <2>1, <2>2 DEF FlagInv, PassInv, TypeOK
  <2>6. WorkerInv' /\ SingleFlight'
    BY <1>1, <2>1, <2>2 DEF FlagInv, WorkerInv, SingleFlight, Busy, TypeOK
  <2>7. /\ life'.boot = life.boot /\ life'.pc = "hydrate" /\ life'.done = life.done
        /\ life'.todo = life.todo \ {c}
    BY <1>1, <1>4 DEF HydrateItem, LifeState
  <2>8. BlankInv' /\ BootInv'
    BY <1>1, <1>4, <2>1, <2>2, <2>7 DEF HydrateItem, BlankInv, BootInv
  <2> QED
    BY <1>1, <2>4, <2>5, <2>6, <2>8 DEF FlagInv
<1>5. CASE StartMark
  BY <1>1, <1>5 DEF StartMark, BootInv
<1> QED
  BY <1>2, <1>3, <1>4, <1>5 DEF StartOrHydrate, StartScroll, StartPeek, StartCheck, StartServe,
     StartTrigger, StartFinish, Boot, HydrateDone

\* A crash leaves nothing.
LEMMA CrashScheds ==
    ASSUME SchedulesInPeace, SchedInv, Crash, SessionInv'
    PROVE  FlagInv' /\ BlankInv' /\ BootInv'
<1>1. /\ queued' = {} /\ item' = [c \in Commands |-> Blank] /\ pass' = NoPass
      /\ worker' = [w \in Workers |-> IdleWorker]
      /\ ~live' /\ life'.pc = "boot" /\ life'.boot
  BY DEF Crash, NoLife
<1>2. FlagItems' /\ PassInv' /\ WorkerInv' /\ SingleFlight'
  BY <1>1 DEF FlagItems, PassInv, NoPass, WorkerInv, SingleFlight, Busy, IdleWorker
<1>3. \A c \in Commands : Needs[c] = {}
  <2>1. crashes \in 0..MaxCrashes /\ crashes < MaxCrashes
    BY DEF Crash, SchedInv, SessionInv, SessionTypeOK
  <2>2. MaxCrashes # 0
    BY <2>1, SessionAssumption
  <2> QED
    BY <2>2 DEF SchedulesInPeace
<1>4. BlankInv' /\ BootInv'
  BY <1>1, <1>3 DEF BlankInv, BootInv
<1> QED
  BY <1>2, <1>4 DEF FlagInv, SessionInv, SessionTypeOK

\* Every step of the session keeps what scheduling relies on.
LEMMA SchedInvInductive ==
    ASSUME SchedulesInPeace
    PROVE  /\ SessionInit => SchedInv
           /\ SchedInv /\ ~late /\ [SessionNext]_allVars => SchedInv'
<1>1. ASSUME SessionInit PROVE SchedInv
  <2>1. SessionInv /\ StopInv
    BY <1>1, SessionInvInductive, StopInvInductive DEF SchedulesInPeace
  <2>2. FlagInv
    <3>1. QueueInv
      BY <1>1, QueueInvInductive DEF SessionInit
    <3> QED
      BY <3>1, QueueFlags
  <2>3. BlankInv /\ BootInv
    BY <1>1 DEF SessionInit, Init, NoLife, BlankInv, BootInv
  <2> QED
    BY <2>1, <2>2, <2>3 DEF SchedInv
<1>2. ASSUME SchedInv, ~late, [SessionNext]_allVars PROVE SchedInv'
  <2>1. SessionInv' /\ StopInv'
    BY <1>2, SessionInvInductive, StopInvInductive DEF SchedulesInPeace, SchedInv
  <2>2. ASSUME NEW r \in Requests, RunCommandCall(r) PROVE FALSE
    BY <1>2, <2>2 DEF SchedInv, StopInv, NoRuns, RunCommandCall, RunBegin, RunPeek, RunRefresh,
                      RunMark, RunAdd, RunWait, RunReturn, RunFinal, SchedulesInPeace, Peaceful
  <2>3. ASSUME (\E r \in Requests : CancelDropped(r)) \/ UNCHANGED allVars
        PROVE  FlagInv' /\ BlankInv' /\ BootInv'
    <3>1. UNCHANGED <<queued, item, pass, worker, live, life>>
      BY <2>3 DEF CancelDropped, allVars, vars, sessionVars, queueVars, passVars
    <3> QED
      BY <1>2, <2>1, <3>1, FlagsUntouched DEF SchedInv, BootInv
  <2>4. FlagInv' /\ BlankInv' /\ BootInv'
    BY <1>2, <2>1, <2>2, <2>3, QueueScheds, StopScheds, StartScheds, CrashScheds DEF SessionNext
  <2> QED
    BY <2>1, <2>4 DEF SchedInv
<1> QED
  BY <1>1, <1>2

\* A command runs once at a time across stops, starts and crashes: the queue
\* is reset only when nothing runs, and hydration finds it empty.  Not so once
\* a trigger overtook a stop: the reset then drops the item of a command that
\* runs, and the next call runs it again beside the first run.
THEOREM SessionSingleFlight ==
    ASSUME SchedulesInPeace
    PROVE  SessionSpec => [](~late => SingleFlight)
<1>1. SchedInv => SingleFlight
  BY DEF SchedInv, FlagInv
<1>2. late /\ [SessionNext]_allVars => late'
  BY LateStays
<1> QED
  BY <1>1, <1>2, SchedInvInductive, PTL DEF SessionSpec
-----------------------------------------------------------------------------
(* Wakeups across the lifecycle                                            *)

\* An operation under way that triggers a pass at its end.
WakeInv == NoLostWakeup \/ life.boot \/ life.pc = "serveTrigger"

\* A session that is off has nothing to wake, one with a pass pending is awake.
LEMMA OffOrPending ==
    ASSUME ~started' \/ pending' > 0
    PROVE  NoLostWakeup'
BY DEF NoLostWakeup

\* A step that leaves the queue, the passes and the procedures alone.
LEMMA WakeUntouched ==
    ASSUME NoLostWakeup, UNCHANGED <<queued, item, started, pending, pass, worker>>,
           record'.procs = record.procs,
           \A r \in Requests : req[r].pc \in {"trigger", "start"} => req'[r].pc = req[r].pc
    PROVE  NoLostWakeup'
<1>1. \A c \in Commands : DerivedStatus(c)' = DerivedStatus(c)
  BY DEF DerivedStatus
<1>2. \A c \in Commands : ScheduledStatus(c)' = ScheduledStatus(c)
  BY <1>1 DEF ScheduledStatus
<1>3. \A c \in Commands : Runnable(c)' = Runnable(c)
  BY <1>2, CommandsAssumption DEF Runnable, NeedDone
<1> QED
  BY <1>3 DEF NoLostWakeup

\* A stop switches the session off, and a pass is pending when it is on again.
LEMMA StopWakes ==
    ASSUME SchedInv, WakeInv, StopRuntime
    PROVE  WakeInv'
<1> USE DEF vars, queueVars, recordVars, passVars, clientVars
<1>1. life \in LifeState /\ OneMorePass \in Nat \ {0} /\ TypeOK
  BY LifeTypes, PendingType DEF SchedInv
<1>2. CASE StopBegin
  BY <1>2, OffOrPending DEF StopBegin, WakeInv
<1>3. CASE StopDrained \/ StopReset \/ StopBackend \/ StopStore
  <2>1. ~started'
    BY <1>3 DEF StopDrained, StopReset, StopBackend, StopStore, SchedInv, StopInv, StartedInv
  <2> QED
    BY <2>1, OffOrPending DEF WakeInv
<1>4. CASE StopBackendFails
  <2>1. ~started' \/ pending' > 0
    BY <1>1, <1>4 DEF StopBackendFails, LifeState
  <2> QED
    BY <2>1, OffOrPending DEF WakeInv
<1>5. CASE StopMarkError
  <2>1. NoLostWakeup
    BY <1>5 DEF StopMarkError, WakeInv, SchedInv, BootInv
  <2>2. record'.procs = record.procs
    BY <1>1, <1>5 DEF StopMarkError, MarkError, TypeOK, Record
  <2> QED
    BY <1>5, <2>1, <2>2, WakeUntouched DEF StopMarkError, WakeInv
<1>6. CASE Resume
  <2>1. pending' > 0
    BY <1>1, <1>6 DEF Resume
  <2> QED
    BY <2>1, OffOrPending DEF WakeInv
<1> QED
  BY <1>2, <1>3, <1>4, <1>5, <1>6 DEF StopRuntime

\* A start triggers a pass for what it queued; hydration does so at its end.
LEMMA StartWakes ==
    ASSUME SchedulesInPeace, SchedInv, WakeInv, StartOrHydrate
    PROVE  WakeInv'
<1> USE DEF vars, queueVars, recordVars, passVars, clientVars
<1>1. life \in LifeState /\ OneMorePass \in Nat \ {0} /\ TypeOK /\ BootInv
  BY LifeTypes, PendingType DEF SchedInv
<1>2. ASSUME life.boot, life'.boot PROVE WakeInv'
  BY <1>2 DEF WakeInv
<1>3. CASE StartScroll
  <2>1. NoLostWakeup
    BY <1>1, <1>3 DEF StartScroll, WakeInv, BootInv
  <2> QED
    BY <1>3, <2>1, WakeUntouched DEF StartScroll, WakeInv
<1>4. CASE StartCheck
  <2>1. life.pc = "remember" /\ life'.boot = life.boot
    BY <1>1, <1>4 DEF StartCheck, LifeState
  <2>2. NoLostWakeup => NoLostWakeup'
    BY <1>4, WakeUntouched DEF StartCheck
  <2> QED
    BY <2>1, <2>2 DEF WakeInv
<1>5. CASE StartServe
  <2>1. life.pc = "serve" /\ life'.boot = life.boot
    BY <1>1, <1>5 DEF StartServe, LifeState
  <2>2. CASE AlreadyQueued(Serve)
    <3>1. NoLostWakeup => NoLostWakeup'
      BY <1>5, <2>2, WakeUntouched DEF StartServe
    <3> QED
      BY <2>1, <3>1 DEF WakeInv
  <2>3. CASE ~AlreadyQueued(Serve)
    BY <1>1, <1>5, <2>3 DEF StartServe, WakeInv, LifeState
  <2> QED
    BY <2>2, <2>3
<1>6. CASE StartTrigger
  <2>1. ~started' \/ pending' > 0
    BY <1>1, <1>6 DEF StartTrigger, TriggerRunQueue
  <2> QED
    BY <2>1, OffOrPending DEF WakeInv
<1>7. CASE StartFinish
  <2>1. life.pc = "finish" /\ (life.boot => life'.boot)
    BY <1>1, <1>7 DEF StartFinish, LifeState
  <2>2. record'.procs = record.procs
    BY <1>7 DEF StartFinish, RecordOf
  <2>3. NoLostWakeup => NoLostWakeup'
    BY <1>7, <2>2, WakeUntouched DEF StartFinish
  <2> QED
    BY <2>1, <2>3 DEF WakeInv
<1>8. CASE Boot
  <2>1. CASE stored.status = "running"
    BY <1>1, <1>2, <1>8, <2>1 DEF Boot, BootInv, LifeState
  <2>2. CASE stored.status # "running"
    <3>1. ~started'
      BY <1>1, <1>8, <2>2 DEF Boot, SchedInv, StopInv, StartedInv, BootInv
    <3> QED
      BY <3>1, OffOrPending DEF WakeInv
  <2> QED
    BY <2>1, <2>2
<1>9. ASSUME NEW c \in Commands, HydrateItem(c) PROVE WakeInv'
  BY <1>1, <1>2, <1>9 DEF HydrateItem, BootInv, LifeState
<1>10. CASE HydrateDone
  <2>1. PICK l : l = [life EXCEPT !.done = {}]
    OBVIOUS
  <2>2. life' = AutoStart(l) /\ l \in LifeState /\ l.boot = life.boot
    BY <1>1, <1>10, <2>1 DEF HydrateDone, LifeState
  <2>3. life'.boot
    BY <1>1, <1>10, <2>2, AutoStartScheds DEF HydrateDone, BootInv
  <2> QED
    BY <2>3 DEF WakeInv
<1>11. ~StartMark /\ \A d \in Commands : ~StartPeek(d)
  BY <1>1 DEF StartMark, StartPeek, BootInv
<1> QED
  BY <1>3, <1>4, <1>5, <1>6, <1>7, <1>8, <1>9, <1>10, <1>11 DEF StartOrHydrate

\* Every step of the session keeps its promise to look at what can start.
LEMMA WakeInvInductive ==
    ASSUME SchedulesInPeace
    PROVE  /\ SessionInit => WakeInv
           /\ SchedInv /\ WakeInv /\ [SessionNext]_allVars => WakeInv'
<1>1. ASSUME SessionInit PROVE WakeInv
  BY <1>1 DEF SessionInit, Init, NoLostWakeup, WakeInv
<1>2. ASSUME SchedInv, WakeInv, [SessionNext]_allVars PROVE WakeInv'
  <2>1. CASE SessionNext /\ (ClientStep \/ QueueStep \/ StartSession)
    <3>1. NoLostWakeup => NoLostWakeup'
      BY <1>2, <2>1, QueueInside, WakeStep DEF SchedInv, SessionNext
    <3>2. UNCHANGED life
      BY <2>1, QueueFrame
    <3> QED
      BY <1>2, <3>1, <3>2 DEF WakeInv
  <2>2. ASSUME NEW r \in Requests, RunCommandCall(r) PROVE FALSE
    BY <1>2, <2>2 DEF SchedInv, StopInv, NoRuns, RunCommandCall, RunBegin, RunPeek, RunRefresh,
                      RunMark, RunAdd, RunWait, RunReturn, RunFinal, SchedulesInPeace, Peaceful
  <2>3. ASSUME NEW r \in Requests, CancelDropped(r) PROVE WakeInv'
    <3>1. \A x \in Requests : req[x].pc \in {"trigger", "start"} => req'[x].pc = req[x].pc
      BY <1>2, <2>3 DEF CancelDropped, Finish, SchedInv, FlagInv, TypeOK
    <3>2. NoLostWakeup => NoLostWakeup'
      BY <2>3, <3>1, WakeUntouched DEF CancelDropped, queueVars, recordVars, passVars
    <3> QED
      BY <1>2, <2>3, <3>2 DEF CancelDropped, sessionVars, WakeInv
  <2>4. CASE UNCHANGED allVars
    <3>1. NoLostWakeup => NoLostWakeup'
      BY <2>4, WakeUntouched DEF allVars, vars, queueVars, recordVars, passVars, clientVars
    <3> QED
      BY <1>2, <2>4, <3>1 DEF allVars, sessionVars, WakeInv
  <2>5. CASE Crash
    BY <2>5 DEF Crash, NoLife, WakeInv
  <2> QED
    BY <1>2, <2>1, <2>2, <2>3, <2>4, <2>5, StopWakes, StartWakes DEF SessionNext
<1> QED
  BY <1>1, <1>2

\* No lost wakeup across stops, starts, failing stops and crashes: whatever
\* could start has a pass on its way to it, or the operation under way (a
\* start, a hydration) triggers one at its end.  (Proved as long as no trigger
\* overtook a stop; TLC finds it to hold beyond.)
THEOREM WakeupSurvivesSafe ==
    ASSUME SchedulesInPeace
    PROVE  SessionSpec => [](~late => WakeupSurvives)
<1>1. WakeInv => WakeupSurvives
  BY DEF WakeInv, WakeupSurvives
<1>2. late /\ [SessionNext]_allVars => late'
  BY LateStays
<1> QED
  BY <1>1, <1>2, SchedInvInductive, WakeInvInductive, PTL DEF SessionSpec

-----------------------------------------------------------------------------
(* Run-once commands                                                       *)

\* Nobody forces a run-once command, neither a client nor a start, and it has
\* something to run (without procedures nothing is left to show that it ran).
RunsOnceInPeace ==
    /\ SchedulesInPeace
    /\ \A c \in Commands : Mode[c] = "once" =>
         ProceduresOf[c] # {} /\ Serve # c /\ \A kind \in CallKinds : <<kind, c>> \in Calls => ~Forces(kind)

\* A run-once command that was done shows as done, in the queue or out of it.
KeptDone(c) ==
    /\ \A p \in ProceduresOf[c] : record.procs[p] = "done"
    /\ c \in queued => /\ item[c].rememberDone
                       /\ ~item[c].err /\ ~item[c].inFlight /\ ~item[c].runRequested

\* The store has the same procedure statuses, and hydration knows.
OnceInv ==
    /\ stored.procs = record.procs
    /\ \A c \in completed : Mode[c] = "once" =>
         /\ KeptDone(c)
         /\ life.pc = "hydrate" /\ c \in life.todo => c \in life.done

\* Procedures that are all done make a command that is done.
LEMMA KeptDoneShows ==
    ASSUME NEW c \in Commands, ProceduresOf[c] # {}, KeptDone(c)
    PROVE  DerivedStatus(c) = "done" /\ ScheduledStatus(c) = "done"
<1>1. {record.procs[p] : p \in ProceduresOf[c]} = {"done"}
  BY DEF KeptDone
<1>2. DerivedStatus(c) = "done"
  BY <1>1 DEF DerivedStatus, DeriveCommandStatus
<1> QED
  BY <1>2 DEF KeptDone, ScheduledStatus

\* A command that is done has procedures that are all done.
LEMMA DoneShows ==
    ASSUME NEW seen, DeriveCommandStatus(seen) = "done"
    PROVE  seen = {"done"}
BY DEF DeriveCommandStatus

\* A step about another command.
LEMMA KeptElsewhere ==
    ASSUME NEW c \in Commands, KeptDone(c), c \in queued' => c \in queued,
           c \in queued' => item'[c] = item[c],
           \A p \in Procedures : CommandOf[p] = c => record'.procs[p] = record.procs[p]
    PROVE  KeptDone(c)'
BY DEF KeptDone, ProceduresOf

\* A new item of another command.
LEMMA KeptOnEnqueue ==
    ASSUME TypeOK, NEW c \in Commands, KeptDone(c), NEW d \in Commands \ {c}, NEW chan, Enqueue(d, chan)
    PROVE  KeptDone(c)'
<1>1. queued' = queued \cup {d} /\ item'[c] = item[c]
  BY DEF Enqueue, TypeOK
<1>2. \A p \in Procedures : CommandOf[p] # d => record'.procs[p] = record.procs[p]
  BY StatusFrame DEF Enqueue
<1> QED
  BY <1>1, <1>2, KeptElsewhere

\* Memory and store get the same procedure statuses.
LEMMA StoredAlike ==
    ASSUME stored.procs = record.procs, ClientStep \/ QueueStep \/ StartSession
    PROVE  stored'.procs = record'.procs
<1> USE DEF queueVars, recordVars, passVars, clientVars
<1>1. ASSUME UNCHANGED <<record, stored>> \/ \E procs : Persist(procs)
      PROVE  stored'.procs = record'.procs
  BY <1>1 DEF Persist
<1>2. ASSUME NEW r \in Requests, AddQueueItem(r) PROVE stored'.procs = record'.procs
  BY <1>1, <1>2 DEF AddQueueItem, Accept, Refuse, Enqueue
<1>3. CASE ClientStep
  BY <1>1, <1>2, <1>3 DEF ClientStep, RegisterNotifier, WaitUntilEmpty, Trigger, StartRunQueue,
                          WaitOrReturn, Await, ReadResult, ReceiveEmpty, CancelWait
<1>4. CASE RunQueue
  BY <1>1, <1>4 DEF RunQueue, StartPass, PickCommand, CheckNeed, Enqueue, Launch, SkipCommand,
                    EndPass, Notify
<1>5. ASSUME NEW w \in Workers, Goroutine(w) PROVE stored'.procs = record'.procs
  <2>1. CASE \E p \in Procedures : ReportRunning(w, p) \/ ReportFinished(w, p)
    BY <1>1, <2>1 DEF ReportRunning, ReportFinished
  <2>2. CASE Fail(w) \/ SettleError(w) \/ SettleDone(w) \/ SettleRestart(w)
    BY <1>1, <2>2 DEF Fail, SettleError, SettleDone, SettleRestart
  <2>3. CASE SettlePersistent(w) \/ EndBackoff(w) \/ Exit(w)
    BY <1>1, <2>3 DEF SettlePersistent, EndBackoff, Exit
  <2> QED
    BY <1>5, <2>1, <2>2, <2>3 DEF Goroutine
<1>6. CASE StartSession
  BY <1>1, <1>6 DEF StartSession, Start
<1> QED
  BY <1>3, <1>4, <1>5, <1>6 DEF QueueStep

\* No step of the queue takes up a run-once command that is done.
LEMMA QueueKeepsDone ==
    ASSUME RunsOnceInPeace, SchedInv, ClientStep \/ QueueStep \/ StartSession,
           NEW c \in Commands, Mode[c] = "once", KeptDone(c)
    PROVE  KeptDone(c)'
<1> USE DEF queueVars, recordVars, passVars, clientVars
<1>1. TypeOK /\ FlagInv /\ HasCommand /\ WorkerInv /\ PassInv
  BY DEF SchedInv, FlagInv
<1>2. ScheduledStatus(c) = "done"
  BY KeptDoneShows DEF RunsOnceInPeace
<1>3. CASE UNCHANGED <<queued, item, record>>
  BY <1>3, KeptElsewhere
<1>4. ASSUME NEW r \in Requests, AddQueueItem(r) PROVE KeptDone(c)'
  <2>1. PICK d \in Commands, kind \in CallKinds :
           <<kind, d>> \in Calls /\ (Accept(r, d, kind) \/ Refuse(r, d, kind))
    BY <1>4 DEF AddQueueItem
  <2>2. CASE Accept(r, d, kind)
    <3>1. d # c
      BY <1>2, <2>1, <2>2 DEF Accept, DoneOnce, RunsOnceInPeace
    <3>2. PICK chan : Enqueue(d, chan)
      BY <2>2 DEF Accept
    <3> QED
      BY <1>1, <3>1, <3>2, KeptOnEnqueue
  <2> QED
    BY <1>3, <2>1, <2>2 DEF Refuse
<1>5. CASE ClientStep
  BY <1>3, <1>4, <1>5 DEF ClientStep, RegisterNotifier, WaitUntilEmpty, Trigger, StartRunQueue,
                          WaitOrReturn, Await, ReadResult, ReceiveEmpty, CancelWait
<1>6. ASSUME NEW d \in Commands, CheckNeed(d) PROVE KeptDone(c)'
  <2>1. CASE Enqueue(d, None) /\ ~NeedDone(d)
    BY <1>1, <1>2, <2>1, KeptOnEnqueue DEF NeedDone
  <2> QED
    BY <1>3, <1>6, <2>1 DEF CheckNeed
<1>7. ASSUME NEW w \in Workers, Launch(w) PROVE KeptDone(c)'
  <2>1. PICK d \in Commands : d = pass.cmd /\ d \in queued /\ item[d].runRequested
    BY <1>1, <1>7, ClientsAssumption DEF Launch, PassInv, TypeOK
  <2>2. d # c
    BY <2>1 DEF KeptDone
  <2>3. UNCHANGED <<queued, record>> /\ item'[c] = item[c]
    BY <1>1, <1>7, <2>1, <2>2 DEF Launch, TypeOK
  <2> QED
    BY <2>3, KeptElsewhere
<1>8. CASE RunQueue
  BY <1>3, <1>6, <1>7, <1>8 DEF RunQueue, StartPass, PickCommand, SkipCommand, EndPass, Notify
<1>9. ASSUME NEW w \in Workers, Goroutine(w) PROVE KeptDone(c)'
  <2>1. /\ UNCHANGED queued
        /\ \A d \in Commands \ {worker[w].cmd} : item'[d] = item[d]
        /\ \A p \in Procedures : CommandOf[p] # worker[w].cmd => record'.procs[p] = record.procs[p]
        /\ Busy(w) \/ UNCHANGED <<item, record>>
    BY <1>1, <1>9, GoroutineOwn
  <2>2. Busy(w) => worker[w].cmd # c
    BY <1>1 DEF WorkerInv, KeptDone
  <2> QED
    BY <2>1, <2>2, KeptElsewhere
<1>10. CASE StartSession
  BY <1>3, <1>10 DEF StartSession, Start
<1> QED
  BY <1>5, <1>8, <1>9, <1>10 DEF QueueStep

\* The command that a goroutine has settled is done, and was in the queue.
LEMMA SettledIsDone ==
    ASSUME TypeOK, WorkerInv, NEW w \in Workers, SettleDone(w), NEW c \in Commands, c = worker[w].cmd
    PROVE  KeptDone(c)' /\ c \in queued
<1>1. c \in queued /\ item[c] \in Item /\ item' = [item EXCEPT ![c] = AsDone(item[c])]
      /\ Persist(WithCommandStatus(c, "done")) /\ UNCHANGED queued
  BY DEF SettleDone, Succeeded, Busy, WorkerInv, TypeOK
<1>2. \A p \in Procedures : CommandOf[p] = c => record'.procs[p] = "done"
  BY <1>1, StatusFrame
<1>3. item'[c] = AsDone(item[c])
  BY <1>1 DEF TypeOK
<1>4. /\ item'[c].rememberDone
      /\ ~item'[c].err /\ ~item'[c].inFlight /\ ~item'[c].runRequested
  BY <1>1, <1>3 DEF AsDone, Item
<1> QED
  BY <1>1, <1>2, <1>4 DEF KeptDone, ProceduresOf

\* The queue's own steps.
LEMMA QueueOnce ==
    ASSUME RunsOnceInPeace, SchedInv, OnceInv, Alive, ClientStep \/ QueueStep \/ StartSession
    PROVE  OnceInv'
<1> USE DEF queueVars, recordVars, passVars, clientVars
<1>1. TypeOK /\ WorkerInv /\ HasCommand /\ BootInv /\ completed \subseteq Commands /\ UNCHANGED life
  BY QueueFrame DEF SchedInv, FlagInv, TypeOK
<1>2. stored'.procs = record'.procs
  BY StoredAlike DEF OnceInv
<1>3. \/ UNCHANGED completed
      \/ \E w \in Workers, c \in Commands :
            SettleDone(w) /\ c = worker[w].cmd /\ completed' = completed \cup {c}
  <2>1. CASE ClientStep \/ StartSession
    BY <2>1 DEF ClientStep, AddQueueItem, RegisterNotifier, WaitUntilEmpty, Trigger, StartRunQueue,
                WaitOrReturn, Await, ReadResult, ReceiveEmpty, CancelWait, StartSession, Start
  <2>2. CASE RunQueue
    BY <2>2 DEF RunQueue, StartPass, PickCommand, CheckNeed, Launch, SkipCommand, EndPass, Notify
  <2>3. ASSUME NEW w \in Workers, Goroutine(w)
        PROVE  \/ UNCHANGED completed
               \/ SettleDone(w) /\ completed' = completed \cup {worker[w].cmd}
    BY <2>3 DEF Goroutine, ReportRunning, ReportFinished, Fail, SettleError, SettleDone,
                SettlePersistent, SettleRestart, EndBackoff, Exit
  <2>4. \A w \in Workers : SettleDone(w) => worker[w].cmd \in Commands
    BY <1>1 DEF SettleDone, Succeeded, HasCommand
  <2> QED
    BY <2>1, <2>2, <2>3, <2>4 DEF QueueStep
<1>4. ASSUME NEW c \in completed, Mode[c] = "once"
      PROVE  KeptDone(c)' /\ (life'.pc = "hydrate" /\ c \in life'.todo => c \in life'.done)
  BY <1>1, <1>4, QueueKeepsDone DEF OnceInv
<1>5. ASSUME NEW w \in Workers, NEW c \in Commands, SettleDone(w), c = worker[w].cmd
      PROVE  KeptDone(c)' /\ (life'.pc = "hydrate" /\ c \in life'.todo => c \in life'.done)
  <2>1. KeptDone(c)' /\ c \in queued
    BY <1>1, <1>5, SettledIsDone
  <2> QED
    BY <1>1, <2>1 DEF BootInv
<1> QED
  BY <1>2, <1>3, <1>4, <1>5 DEF OnceInv

\* A lifecycle step that does nothing to a run-once command that is done.
LEMMA OnceUntouched ==
    ASSUME OnceInv, SchedInv, UNCHANGED completed,
           queued' \subseteq queued, \A c \in queued' : item'[c] = item[c],
           stored'.procs = record'.procs,
           \A p \in Procedures : KeptByStop(p) => record'.procs[p] = record.procs[p],
           life'.pc = "hydrate" => life.pc = "hydrate" /\ UNCHANGED life,
           \A c \in Commands : Mode[c] = "once" => ProceduresOf[c] # {}
    PROVE  OnceInv'
<1>1. completed \subseteq Commands
  BY DEF SchedInv, FlagInv, TypeOK
<1>2. ASSUME NEW c \in completed, Mode[c] = "once" PROVE KeptDone(c)'
  <2>1. KeptDone(c) /\ DerivedStatus(c) = "done"
    BY <1>1, <1>2, KeptDoneShows DEF OnceInv
  <2>2. \A p \in Procedures : CommandOf[p] = c => record'.procs[p] = record.procs[p]
    BY <1>2, <2>1 DEF KeptByStop
  <2> QED
    BY <1>1, <2>1, <2>2, KeptElsewhere
<1> QED
  BY <1>2 DEF OnceInv

\* A stop keeps the statuses of run-once commands that are done.
LEMMA StopOnce ==
    ASSUME RunsOnceInPeace, SchedInv, OnceInv, StopRuntime
    PROVE  OnceInv'
<1> USE DEF vars, queueVars, recordVars, passVars, clientVars
<1>1. TypeOK /\ life \in LifeState
  BY LifeTypes DEF SchedInv
<1>2. UNCHANGED completed /\ queued' \subseteq queued /\ \A c \in queued' : item'[c] = item[c]
  BY DEF StopRuntime, StopBegin, StopDrained, StopReset, StopBackend, StopBackendFails,
         StopMarkError, StopStore, Resume
<1>3. /\ stored'.procs = record'.procs
      /\ \A p \in Procedures : KeptByStop(p) => record'.procs[p] = record.procs[p]
  <2>1. CASE StopMarkError
    BY <1>1, <2>1 DEF StopMarkError, MarkError, TypeOK, Record
  <2>2. CASE StopStore
    <3>1. ASSUME NEW p \in Procedures, KeptByStop(p)
          PROVE  record'.procs[p] = "done" /\ record.procs[p] = "done"
      <4>1. PICK c \in Commands : c = CommandOf[p] /\ DerivedStatus(c) = "done"
        BY <3>1, CommandsAssumption DEF KeptByStop
      <4>2. {record.procs[q] : q \in ProceduresOf[c]} = {"done"}
        BY <4>1, DoneShows DEF DerivedStatus
      <4>3. p \in ProceduresOf[c]
        BY <4>1 DEF ProceduresOf
      <4> QED
        BY <2>2, <3>1, <4>2, <4>3 DEF StopStore
    <3> QED
      BY <2>2, <3>1 DEF StopStore
  <2>3. CASE ~StopMarkError /\ ~StopStore
    BY <2>3 DEF OnceInv, StopRuntime, StopBegin, StopDrained, StopReset, StopBackend,
                StopBackendFails, Resume
  <2> QED
    BY <2>1, <2>2, <2>3
<1>4. life'.pc # "hydrate"
  <2>1. CASE StopBegin
    BY <2>1 DEF StopBegin, NoLife
  <2>2. CASE StopDrained \/ StopReset \/ StopBackend \/ StopBackendFails
    BY <1>1, <2>2 DEF StopDrained, StopReset, StopBackend, StopBackendFails, LifeState
  <2>3. CASE StopMarkError \/ Resume
    BY <2>3 DEF StopMarkError, Resume, NoLife
  <2>4. CASE StopStore
    BY <1>1, <2>4 DEF StopStore, NoLife, LifeState
  <2> QED
    BY <2>1, <2>2, <2>3, <2>4 DEF StopRuntime
<1> QED
  BY <1>2, <1>3, <1>4, OnceUntouched DEF RunsOnceInPeace

\* A start queues its serve command, which is another one; hydration puts a
\* run-once command back as done.
LEMMA StartOnce ==
    ASSUME RunsOnceInPeace, SchedInv, OnceInv, StartOrHydrate
    PROVE  OnceInv'
<1> USE DEF vars, queueVars, recordVars, passVars, clientVars
<1>1. TypeOK /\ life \in LifeState /\ BootInv /\ completed \subseteq Commands
  BY LifeTypes DEF SchedInv, TypeOK
<1>2. ASSUME UNCHANGED <<queued, item, completed>>, stored'.procs = record'.procs,
             record'.procs = record.procs, life'.pc # "hydrate"
      PROVE  OnceInv'
  BY <1>2, OnceUntouched DEF RunsOnceInPeace
<1>3. CASE StartScroll \/ HydrateDone
  <2>1. life'.pc # "hydrate"
    BY <1>1, <1>3 DEF StartScroll, HydrateDone, AutoStart, NoLife, LifeState
  <2> QED
    BY <1>2, <1>3, <2>1 DEF StartScroll, HydrateDone, OnceInv
<1>4. CASE StartCheck \/ StartTrigger
  <2>1. life'.pc # "hydrate"
    BY <1>1, <1>4 DEF StartCheck, StartTrigger, LifeState
  <2> QED
    BY <1>2, <1>4, <2>1 DEF StartCheck, StartTrigger, OnceInv
<1>5. CASE StartFinish
  <2>1. life'.pc # "hydrate"
    BY <1>1, <1>5 DEF StartFinish, NoLife, LifeState
  <2>2. record'.procs = record.procs /\ stored' = record'
    BY <1>5 DEF StartFinish, RecordOf
  <2> QED
    BY <1>2, <1>5, <2>1, <2>2 DEF StartFinish
<1>6. CASE StartServe
  <2>1. life'.pc # "hydrate"
    BY <1>1, <1>6 DEF StartServe, LifeState
  <2>2. CASE AlreadyQueued(Serve)
    BY <1>2, <1>6, <2>1, <2>2 DEF StartServe, OnceInv
  <2>3. CASE ~AlreadyQueued(Serve)
    <3>1. Serve \in Commands /\ Enqueue(Serve, None) /\ UNCHANGED completed
      BY <1>6, <2>3, LifeTypes DEF StartServe, LifeOK, SchedInv
    <3>2. ASSUME NEW c \in completed, Mode[c] = "once" PROVE KeptDone(c)'
      <4>1. KeptDone(c) /\ c # Serve /\ c \in Commands
        BY <1>1, <3>2 DEF OnceInv, RunsOnceInPeace
      <4> QED
        BY <1>1, <3>1, <4>1, KeptOnEnqueue
    <3>3. stored'.procs = record'.procs
      BY <3>1 DEF Enqueue, Persist
    <3> QED
      BY <2>1, <3>1, <3>2, <3>3 DEF OnceInv
  <2> QED
    BY <2>2, <2>3
<1>7. CASE Boot
  <2>1. UNCHANGED <<queued, item, completed, record, stored>>
    BY <1>7 DEF Boot
  <2>2. ASSUME NEW c \in completed, Mode[c] = "once" PROVE KeptDone(c)' /\ DerivedStatus(c) = "done"
    BY <1>1, <2>1, <2>2, KeptElsewhere, KeptDoneShows DEF OnceInv, RunsOnceInPeace
  <2>3. life'.pc = "hydrate" =>
          \A c \in life'.todo : Finite(c) /\ DerivedStatus(c) = "done" => c \in life'.done
    <3>1. CASE stored.status = "running"
      <4>1. PICK x : x = [life EXCEPT !.pc = "hydrate", !.todo = ToHydrate,
                                      !.done = {c \in ToHydrate :
                                                   Finite(c) /\ DerivedStatus(c) = "done"}]
        OBVIOUS
      <4>2. /\ x.todo = ToHydrate
            /\ x.done = {c \in ToHydrate : Finite(c) /\ DerivedStatus(c) = "done"}
        BY <1>1, <4>1 DEF LifeState
      <4>3. life' = x
        BY <1>7, <3>1, <4>1 DEF Boot
      <4> QED
        BY <4>2, <4>3
    <3>2. CASE stored.status # "running"
      BY <1>7, <3>2 DEF Boot, NoLife
    <3> QED
      BY <3>1, <3>2
  <2> QED
    BY <2>1, <2>2, <2>3 DEF OnceInv, Finite
<1>8. ASSUME NEW d \in Commands, HydrateItem(d) PROVE OnceInv'
  <2>1. /\ queued' = queued \cup {d} /\ item' = [item EXCEPT ![d] = Hydrated(d)]
        /\ life'.pc = "hydrate" /\ life.pc = "hydrate" /\ d \in life.todo
        /\ life'.todo \subseteq life.todo /\ life'.done = life.done
        /\ UNCHANGED <<completed, record, stored>>
    BY <1>1, <1>8 DEF HydrateItem, LifeState
  <2>2. ASSUME NEW c \in completed, Mode[c] = "once" PROVE KeptDone(c)'
    <3>1. CASE c = d
      <4>1. d \in life.done /\ KeptDone(c)
        BY <2>1, <2>2, <3>1 DEF OnceInv
      <4>2. item'[d] = [Blank EXCEPT !.rememberDone = TRUE]
        BY <1>1, <2>1, <4>1 DEF Hydrated, TypeOK
      <4> QED
        BY <2>1, <3>1, <4>1, <4>2 DEF KeptDone, Blank
    <3>2. CASE c # d
      <4>1. KeptDone(c) /\ c \in Commands /\ item'[c] = item[c]
        BY <1>1, <2>1, <2>2, <3>2 DEF OnceInv, TypeOK
      <4> QED
        BY <2>1, <3>2, <4>1, KeptElsewhere
    <3> QED
      BY <3>1, <3>2
  <2> QED
    BY <2>1, <2>2 DEF OnceInv
<1>9. ~StartMark /\ \A d \in Commands : ~StartPeek(d)
  BY <1>1 DEF StartMark, StartPeek, BootInv
<1> QED
  BY <1>3, <1>4, <1>5, <1>6, <1>7, <1>8, <1>9 DEF StartOrHydrate

\* After a crash the statuses are those of the store.
LEMMA CrashOnce ==
    ASSUME RunsOnceInPeace, SchedInv, OnceInv, Crash
    PROVE  OnceInv'
<1>1. /\ record' = stored /\ stored' = stored /\ queued' = {} /\ life'.pc = "boot"
      /\ completed' = completed \cup {c \in Commands : StoredStatus(c) = "done"}
  BY DEF Crash, NoLife
<1>2. ASSUME NEW c \in completed', Mode[c] = "once"
      PROVE  \A p \in ProceduresOf[c] : stored.procs[p] = "done"
  <2>1. CASE c \in completed
    BY <1>2, <2>1 DEF OnceInv, KeptDone
  <2>2. CASE c \in Commands /\ StoredStatus(c) = "done"
    <3>1. {stored.procs[p] : p \in ProceduresOf[c]} = {"done"}
      BY <2>2, DoneShows DEF StoredStatus
    <3> QED
      BY <3>1
  <2> QED
    BY <1>1, <1>2, <2>1, <2>2
<1>3. ASSUME NEW c \in completed', Mode[c] = "once" PROVE KeptDone(c)'
  BY <1>1, <1>2, <1>3 DEF KeptDone
<1> QED
  BY <1>1, <1>3 DEF OnceInv

\* Every step of the session remembers what was done.
LEMMA OnceInvInductive ==
    ASSUME RunsOnceInPeace
    PROVE  /\ SessionInit => OnceInv
           /\ SchedInv /\ OnceInv /\ [SessionNext]_allVars => OnceInv'
<1>1. ASSUME SessionInit PROVE OnceInv
  <2>1. /\ stored = record /\ queued = {} /\ life.pc = "none"
        /\ record = RecordOf([p \in Procedures |-> IF CommandOf[p] \in completed
                                                   THEN "done" ELSE "unset"])
    BY <1>1 DEF SessionInit, Init, NoLife
  <2>2. completed \subseteq Commands
    BY <1>1 DEF SessionInit, Init
  <2>3. \A p \in Procedures : CommandOf[p] \in completed => record.procs[p] = "done"
    BY <2>1 DEF RecordOf
  <2>4. \A c \in completed : KeptDone(c)
    BY <2>1, <2>2, <2>3 DEF KeptDone, ProceduresOf
  <2> QED
    BY <2>1, <2>4 DEF OnceInv
<1>2. ASSUME SchedInv, OnceInv, [SessionNext]_allVars PROVE OnceInv'
  <2>1. ASSUME NEW r \in Requests, RunCommandCall(r) PROVE FALSE
    BY <1>2, <2>1 DEF SchedInv, StopInv, NoRuns, RunCommandCall, RunBegin, RunPeek, RunRefresh,
       RunMark, RunAdd, RunWait, RunReturn, RunFinal, RunsOnceInPeace, SchedulesInPeace, Peaceful
  <2>2. CASE (\E r \in Requests : CancelDropped(r)) \/ UNCHANGED allVars
    <3>1. UNCHANGED <<completed, queued, item, record, stored, life>>
      BY <2>2 DEF CancelDropped, allVars, vars, sessionVars, queueVars, recordVars
    <3> QED
      BY <1>2, <3>1, OnceUntouched DEF OnceInv, RunsOnceInPeace
  <2> QED
    BY <1>2, <2>1, <2>2, QueueOnce, StopOnce, StartOnce, CrashOnce DEF SessionNext
<1> QED
  BY <1>1, <1>2

\* Only a pass starts a goroutine, and it starts what asks to be run.
LEMMA OnlyLaunches ==
    ASSUME SchedInv, [SessionNext]_allVars, ~\E r \in Requests : RunCommandCall(r),
           NEW w \in Workers, worker[w].pc = "idle", worker'[w].pc = "run"
    PROVE  Launch(w)
<1> USE DEF queueVars, recordVars, passVars, clientVars
<1>1. TypeOK /\ HasCommand /\ WorkerInv
  BY DEF SchedInv, FlagInv
<1>2. worker' # worker
  OBVIOUS
<1>3. ~ClientStep /\ ~StartSession /\ ~StopRuntime /\ ~StartOrHydrate
  BY <1>2 DEF ClientStep, AddQueueItem, RegisterNotifier, WaitUntilEmpty, Trigger, StartRunQueue,
              WaitOrReturn, Await, ReadResult, ReceiveEmpty, CancelWait, StartSession, Start, vars,
              StopRuntime, StopBegin, StopDrained, StopReset, StopBackend, StopBackendFails,
              StopMarkError, StopStore, Resume, StartOrHydrate, StartScroll, StartMark, StartCheck,
              StartServe, StartTrigger, StartFinish, Boot, HydrateDone, StartPeek, HydrateItem
<1>4. ~Crash
  <2>1. Crash => worker' = [v \in Workers |-> IdleWorker]
    BY DEF Crash
  <2>2. Crash => worker'[w].pc = "idle"
    BY <2>1 DEF IdleWorker
  <2> QED
    BY <2>2
<1>5. ~\E r \in Requests : CancelDropped(r)
  BY <1>2 DEF CancelDropped
<1>6. QueueStep
  BY <1>2, <1>3, <1>4, <1>5 DEF SessionNext, allVars, vars
<1>7. ASSUME NEW v \in Workers, Goroutine(v) PROVE FALSE
  <2>1. v = w
    BY <1>1, <1>7, GoroutineOwn
  <2>2. worker[v].pc # "idle"
    BY <1>7 DEF Goroutine, ReportRunning, ReportFinished, Fail, SettleError, SettleDone,
                SettlePersistent, SettleRestart, EndBackoff, Exit, Succeeded
  <2> QED
    BY <2>1, <2>2
<1>8. ASSUME NEW v \in Workers, Launch(v) PROVE v = w
  BY <1>1, <1>8 DEF Launch, TypeOK
<1> QED
  BY <1>2, <1>6, <1>7, <1>8 DEF QueueStep, RunQueue, StartPass, PickCommand, CheckNeed, SkipCommand,
     EndPass, Notify

\* A run-once command runs only once: not for another call, not after a stop
\* or a start, not after a crash of the daemon, and never twice at a time, as
\* long as no trigger overtook a stop.
THEOREM OnceRunsOnceSafe ==
    ASSUME RunsOnceInPeace
    PROVE  SessionSpec => OnceRunsOnce
<1>1. ASSUME SchedInv, OnceInv, [SessionNext]_allVars, NEW w \in Workers,
             worker[w].pc = "idle", worker'[w].pc = "run", Mode[worker'[w].cmd] = "once"
      PROVE  /\ worker'[w].cmd \notin completed
             /\ \A v \in Workers : Busy(v) => worker[v].cmd # worker'[w].cmd
  <2>1. ~\E r \in Requests : RunCommandCall(r)
    BY <1>1 DEF SchedInv, StopInv, NoRuns, RunCommandCall, RunBegin, RunPeek, RunRefresh, RunMark,
       RunAdd, RunWait, RunReturn, RunFinal, RunsOnceInPeace, SchedulesInPeace, Peaceful
  <2>2. Launch(w)
    BY <1>1, <2>1, OnlyLaunches
  <2>3. PICK c \in Commands : /\ c = pass.cmd /\ c \in queued
                              /\ item[c].runRequested /\ ~item[c].inFlight
    BY <1>1, <2>2, ClientsAssumption DEF Launch, SchedInv, FlagInv, PassInv, FlagItems, FlagsOK, TypeOK
  <2>4. worker'[w].cmd = c
    BY <1>1, <2>2, <2>3 DEF Launch, SchedInv, FlagInv, TypeOK
  <2>5. c \notin completed
    BY <1>1, <2>3, <2>4 DEF OnceInv, KeptDone
  <2>6. \A v \in Workers : Busy(v) => worker[v].cmd # c
    BY <1>1, <2>3 DEF SchedInv, FlagInv, WorkerInv
  <2> QED
    BY <2>4, <2>5, <2>6
<1>2. SchedulesInPeace
  BY DEF RunsOnceInPeace
<1>3. (late \/ (SchedInv /\ OnceInv)) /\ [SessionNext]_allVars =>
        \A w \in Workers :
          LET c == worker'[w].cmd IN
          ~late /\ worker[w].pc = "idle" /\ worker'[w].pc = "run" /\ Mode[c] = "once" =>
              c \notin completed /\ \A v \in Workers : Busy(v) => worker[v].cmd # c
  BY <1>1
<1>4. late /\ [SessionNext]_allVars => late'
  BY LateStays
<1> QED
  BY <1>2, <1>3, <1>4, SchedInvInductive, OnceInvInductive, PTL DEF SessionSpec, OnceRunsOnce
=============================================================================
