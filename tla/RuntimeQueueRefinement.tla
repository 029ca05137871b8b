------------------------ MODULE RuntimeQueueRefinement ------------------------
(***************************************************************************)
(* That the command queue implements CommandLifecycle, for every scroll    *)
(* file, every set of calls and every number of goroutines, as long as     *)
(* nobody waits for a command in restart mode.                             *)
(***************************************************************************)
EXTENDS RuntimeQueueLifecycle, RuntimeQueueProofs

-----------------------------------------------------------------------------
(* Calls and their channels                                                *)

\* Only calls that wait have a channel, from the moment they are accepted,
\* and one that has been released finds its channel closed.
CallOK(r) ==
    /\ doneChan[r] # "none" => /\ Waits(req[r].kind)
                               /\ req[r].pc \in {"trigger", "start", "await", "read", "done"}
    /\ req[r].pc \in {"trigger", "start"} /\ Waits(req[r].kind) => doneChan[r] # "none"
    /\ req[r].pc = "await" => doneChan[r] # "none"
    /\ req[r].pc = "read" => doneChan[r] \in {"ok", "failed"}
    /\ req[r].pc = "empty" => req[r].kind = "empty"
    /\ req[r].pc # "done" => req[r].result = "none"

CallInv == \A r \in Requests : CallOK(r)

\* Steps of one call.
LEMMA CallFrame ==
    ASSUME CallInv, NEW r \in Requests, CallOK(r)',
           \A q \in Requests \ {r} : req'[q] = req[q] /\ doneChan'[q] = doneChan[q]
    PROVE  CallInv'
<1>1. ASSUME NEW q \in Requests \ {r} PROVE CallOK(q)'
  BY <1>1 DEF CallInv, CallOK
<1> QED
  BY <1>1 DEF CallInv

\* What a client does keeps its call and its channel in step.
LEMMA ClientCall ==
    ASSUME QueueInv, ChannelInv, CallInv, NEW r \in Requests, Client(r)
    PROVE  CallInv'
<1>1. CASE AddQueueItem(r)
  <2>1. PICK c \in Commands, kind \in CallKinds : Accept(r, c, kind) \/ Refuse(r, c, kind)
    BY <1>1 DEF AddQueueItem
  <2>2. doneChan[r] = "none"
    BY <1>1 DEF AddQueueItem, ChannelInv
  <2>3. CASE Accept(r, c, kind)
    <3>1. /\ req'[r].pc = "trigger" /\ req'[r].kind = kind /\ req'[r].result = "none"
          /\ doneChan'[r] = IF Waits(kind) THEN "open" ELSE "none"
          /\ \A q \in Requests \ {r} : req'[q] = req[q] /\ doneChan'[q] = doneChan[q]
      BY <2>2, <2>3, ChannelTypes DEF Accept
    <3>2. CallOK(r)'
      BY <3>1 DEF CallOK
    <3> QED
      BY <3>1, <3>2, CallFrame
  <2>4. CASE Refuse(r, c, kind)
    <3>1. /\ req'[r].pc = "done" /\ doneChan'[r] = "none"
          /\ \A q \in Requests \ {r} : req'[q] = req[q] /\ doneChan'[q] = doneChan[q]
      BY <2>2, <2>4, ChannelTypes DEF Refuse
    <3>2. CallOK(r)'
      BY <3>1 DEF CallOK
    <3> QED
      BY <3>1, <3>2, CallFrame
  <2> QED
    BY <2>1, <2>3, <2>4
<1>2. CASE RegisterNotifier(r)
  <2>1. /\ req'[r].pc \in {"done", "empty"} /\ req'[r].kind = "empty"
        /\ req'[r].pc = "empty" => req'[r].result = "none"
        /\ doneChan' = doneChan /\ doneChan[r] = "none"
        /\ \A q \in Requests \ {r} : req'[q] = req[q]
    BY <1>2, ChannelTypes DEF RegisterNotifier, WaitUntilEmpty, ChannelInv
  <2>2. CallOK(r)'
    BY <2>1 DEF CallOK
  <2> QED
    BY <2>1, <2>2, CallFrame
<1>3. CASE Trigger(r) \/ StartRunQueue(r) \/ Await(r) \/ ReadResult(r) \/ ReceiveEmpty(r) \/ CancelWait(r)
  <2>1. /\ doneChan' = doneChan /\ req'[r].kind = req[r].kind
        /\ \A q \in Requests \ {r} : req'[q] = req[q]
    BY <1>3, ChannelTypes DEF Trigger, StartRunQueue, WaitOrReturn, Await, ReadResult, ReceiveEmpty,
                              CancelWait, Finish, RequestState
  <2>2. CallOK(r) /\ doneChan[r] # "panic"
    BY DEF CallInv, ChannelInv, ClosedOnce
  <2>3. CASE Trigger(r) \/ StartRunQueue(r)
    <3>1. /\ req[r].pc \in {"trigger", "start"}
          /\ \/ req'[r].pc = "start" /\ req'[r].result = req[r].result
             \/ WaitOrReturn(r)
      BY <2>3, ChannelTypes DEF Trigger, StartRunQueue, RequestState
    <3>2. CASE req'[r].pc = "start" /\ req'[r].result = req[r].result
      <4>1. CallOK(r)'
        BY <2>1, <2>2, <3>1, <3>2 DEF CallOK
      <4> QED
        BY <2>1, <4>1, CallFrame
    <3>3. CASE WaitOrReturn(r)
      <4>1. /\ req'[r].pc = IF Waits(req[r].kind) THEN "await" ELSE "done"
            /\ Waits(req[r].kind) => req'[r].result = req[r].result
        BY <3>3, ChannelTypes DEF WaitOrReturn, Finish, RequestState
      <4>2. CallOK(r)'
        BY <2>1, <2>2, <3>1, <4>1 DEF CallOK
      <4> QED
        BY <2>1, <4>2, CallFrame
    <3> QED
      BY <3>1, <3>2, <3>3
  <2>4. CASE Await(r)
    <3>1. req'[r].pc = "read" /\ req[r].pc = "await" /\ req'[r].result = req[r].result
      BY <2>4, ChannelTypes DEF Await, RequestState
    <3>2. doneChan[r] \in {"ok", "failed"}
      BY <2>2, <2>4, <3>1, ChannelTypes DEF Await, CallOK
    <3>3. CallOK(r)'
      BY <2>1, <2>2, <3>1, <3>2 DEF CallOK
    <3> QED
      BY <2>1, <3>3, CallFrame
  <2>5. CASE ReadResult(r) \/ ReceiveEmpty(r) \/ CancelWait(r)
    <3>1. req'[r].pc = "done" /\ req[r].pc \in {"read", "empty"}
      BY <2>5, ChannelTypes DEF ReadResult, ReceiveEmpty, CancelWait, Finish, RequestState
    <3>2. CallOK(r)'
      BY <2>1, <2>2, <3>1 DEF CallOK
    <3> QED
      BY <2>1, <3>2, CallFrame
  <2> QED
    BY <1>3, <2>3, <2>4, <2>5
<1> QED
  BY <1>1, <1>2, <1>3 DEF Client

\* Passes leave the calls alone.
LEMMA RunQueueCalls ==
    ASSUME RunQueue
    PROVE  UNCHANGED <<req, doneChan>>
BY DEF RunQueue, StartPass, PickCommand, CheckNeed, Launch, SkipCommand, EndPass, Notify, clientVars

\* A goroutine that ends closes the channel it holds, which was open.
LEMMA ExitCloses ==
    ASSUME QueueInv, ChannelInv, NEW w \in Workers, Exit(w)
    PROVE  /\ UNCHANGED <<queued, item, record, completed, req>>
           /\ worker[w].pc = "exit" /\ worker'[w].pc = "idle"
           /\ \A v \in Workers \ {w} : worker'[v] = worker[v]
           /\ \A r \in Requests \ {worker[w].chan} : doneChan'[r] = doneChan[r]
           /\ worker[w].chan \in Requests =>
                /\ doneChan[worker[w].chan] = "open"
                /\ doneChan'[worker[w].chan] = IF worker[w].ok THEN "ok" ELSE "failed"
<1> USE DEF queueVars, recordVars, passVars, clientVars
<1>1. /\ UNCHANGED <<queued, item, record, completed, req>>
      /\ worker[w].pc = "exit" /\ worker'[w].pc = "idle"
      /\ \A v \in Workers \ {w} : worker'[v] = worker[v]
  BY ChannelTypes DEF Exit, IdleWorker
<1>2. \A r \in Requests \ {worker[w].chan} : doneChan'[r] = doneChan[r]
  BY ChannelTypes DEF Exit
<1>3. ASSUME NEW r \in Requests, r = worker[w].chan
      PROVE  doneChan[r] = "open" /\ doneChan'[r] = IF worker[w].ok THEN "ok" ELSE "failed"
  <2>1. doneChan[r] = "open"
    BY <1>1, <1>3 DEF ChannelInv, WorkerHolds
  <2>2. r # None
    BY ClientsAssumption
  <2> QED
    BY <1>3, <2>1, <2>2, ChannelTypes DEF Exit, CloseDoneChan
<1> QED
  BY <1>1, <1>2, <1>3

\* A goroutine touches no call and, until it ends, no channel.
LEMMA GoroutineCalls ==
    ASSUME NEW w \in Workers, Goroutine(w)
    PROVE  UNCHANGED req /\ (UNCHANGED doneChan \/ Exit(w))
BY DEF Goroutine, ReportRunning, ReportFinished, Fail, SettleError, SettleDone,
       SettlePersistent, SettleRestart, EndBackoff, Exit, clientVars

\* Calls and their channels stay in step.
LEMMA CallStep ==
    ASSUME QueueInv, ChannelInv, CallInv, [Next]_vars
    PROVE  CallInv'
<1>1. CASE UNCHANGED <<req, doneChan>>
  BY <1>1 DEF CallInv, CallOK
<1>2. ASSUME NEW w \in Workers, Exit(w) PROVE CallInv'
  <2>1. CASE worker[w].chan \in Requests
    <3> PICK r \in Requests : r = worker[w].chan
      BY <2>1
    <3>1. /\ doneChan[r] = "open" /\ doneChan'[r] \in {"ok", "failed"} /\ req' = req
          /\ \A q \in Requests \ {r} : doneChan'[q] = doneChan[q]
      BY <1>2, <2>1, ExitCloses
    <3>2. CallOK(r)'
      BY <3>1 DEF CallInv, CallOK
    <3> QED
      BY <3>1, <3>2, CallFrame
  <2>2. CASE worker[w].chan \notin Requests
    BY <1>2, <2>2, ExitCloses DEF CallInv, CallOK
  <2> QED
    BY <2>1, <2>2
<1>3. CASE Start \/ UNCHANGED vars
  BY <1>1, <1>3 DEF Start, vars, clientVars
<1> QED
  BY <1>1, <1>2, <1>3, ClientCall, RunQueueCalls, GoroutineCalls DEF Next
-----------------------------------------------------------------------------
(* Steps of a goroutine                                                    *)

\* A report from the backend: the goroutine goes on working.
Works(w) ==
    /\ Busy(w) /\ Busy(w)'
    /\ worker'[w].ok = worker[w].ok
    /\ worker'[w].cmd = worker[w].cmd /\ worker'[w].chan = worker[w].chan
    /\ UNCHANGED <<item, completed, doneChan>>

\* The goroutine of c is through: the item becomes i, it goes on to pc.
Settles(w, c, i, pc, ok) ==
    /\ Busy(w) /\ c = worker[w].cmd
    /\ item'[c] = i
    /\ \A d \in Commands \ {c} : item'[d] = item[d]
    /\ worker'[w].pc = pc /\ worker'[w].ok = ok
    /\ worker'[w].cmd = c /\ worker'[w].chan = worker[w].chan
    /\ UNCHANGED doneChan

\* The backoff of a restart command is over.
Wakes(w) ==
    /\ worker[w].pc = "backoff" /\ worker'[w].pc = "exit"
    /\ worker'[w].ok = worker[w].ok
    /\ worker'[w].cmd = worker[w].cmd /\ worker'[w].chan = worker[w].chan
    /\ UNCHANGED <<item, completed, doneChan>>

\* What each step of a goroutine does, seen from the queue.
LEMMA GoroutineSteps ==
    ASSUME QueueInv, NEW w \in Workers, Goroutine(w), NEW c, c = worker[w].cmd
    PROVE  /\ UNCHANGED <<queued, req>>
           /\ \A v \in Workers \ {w} : worker'[v] = worker[v]
           /\ Busy(w) => c \in Commands /\ c \in queued
           /\ \/ Works(w)
              \/ Settles(w, c, AsError(item[c]), "exit", worker[w].ok) /\ UNCHANGED completed
              \/ /\ Settles(w, c, AsDone(item[c]), "exit", TRUE)
                 /\ completed' = completed \cup {c} /\ Mode[c] \in {"always", "once"}
              \/ /\ Settles(w, c, item[c], "exit", TRUE)
                 /\ UNCHANGED completed /\ Mode[c] = "persistent"
              \/ /\ \E ok \in BOOLEAN : Settles(w, c, AsWaiting(item[c]), "backoff", ok)
                 /\ UNCHANGED completed /\ Mode[c] = "restart"
              \/ Wakes(w)
              \/ Exit(w)
<1> USE DEF queueVars, recordVars, passVars, clientVars
<1>1. UNCHANGED <<queued, req>>
  BY DEF Goroutine, ReportRunning, ReportFinished, Fail, SettleError, SettleDone,
         SettlePersistent, SettleRestart, EndBackoff, Exit
<1>2. \A v \in Workers \ {w} : worker'[v] = worker[v]
  BY ChannelTypes DEF Goroutine, ReportRunning, ReportFinished, Fail, SettleError,
                      SettleDone, SettlePersistent, SettleRestart, EndBackoff, Exit
<1>3. Busy(w) => c \in Commands /\ c \in queued
  BY DEF QueueInv, WorkerInv, TypeOK
<1>4. CASE \E p \in Procedures : ReportRunning(w, p) \/ ReportFinished(w, p)
  <2>1. Works(w)
    BY <1>4, ChannelTypes DEF ReportRunning, ReportFinished, Works, Busy, WorkerState
  <2> QED
    BY <1>1, <1>2, <1>3, <2>1
<1>5. CASE Fail(w)
  <2>1. Works(w)
    BY <1>5, ChannelTypes DEF Fail, Works, Busy, WorkerState
  <2> QED
    BY <1>1, <1>2, <1>3, <2>1
<1>6. CASE SettleError(w)
  <2>1. Busy(w) /\ UNCHANGED <<completed, doneChan>>
    BY <1>6 DEF SettleError, Busy
  <2>2. item'[c] = AsError(item[c]) /\ \A d \in Commands \ {c} : item'[d] = item[d]
    BY <1>3, <1>6, <2>1, ChannelTypes DEF SettleError
  <2>3. /\ worker'[w].pc = "exit" /\ worker'[w].ok = worker[w].ok
        /\ worker'[w].cmd = c /\ worker'[w].chan = worker[w].chan
    BY <1>6, ChannelTypes DEF SettleError, WorkerState
  <2> QED
    BY <1>1, <1>2, <1>3, <2>1, <2>2, <2>3 DEF Settles
<1>7. CASE SettleDone(w)
  <2>1. /\ Busy(w) /\ UNCHANGED doneChan /\ completed' = completed \cup {c}
        /\ Mode[c] \in {"always", "once"}
    BY <1>7 DEF SettleDone, Succeeded, Busy
  <2>2. item'[c] = AsDone(item[c]) /\ \A d \in Commands \ {c} : item'[d] = item[d]
    BY <1>3, <1>7, <2>1, ChannelTypes DEF SettleDone
  <2>3. /\ worker'[w].pc = "exit" /\ worker'[w].ok = TRUE
        /\ worker'[w].cmd = c /\ worker'[w].chan = worker[w].chan
    BY <1>7, ChannelTypes DEF SettleDone, WorkerState
  <2> QED
    BY <1>1, <1>2, <1>3, <2>1, <2>2, <2>3 DEF Settles
<1>8. CASE SettlePersistent(w)
  <2>1. /\ Busy(w) /\ UNCHANGED <<item, completed, doneChan>> /\ Mode[c] = "persistent"
    BY <1>8 DEF SettlePersistent, Succeeded, Busy
  <2>2. /\ worker'[w].pc = "exit" /\ worker'[w].ok = TRUE
        /\ worker'[w].cmd = c /\ worker'[w].chan = worker[w].chan
    BY <1>8, ChannelTypes DEF SettlePersistent, WorkerState
  <2> QED
    BY <1>1, <1>2, <1>3, <2>1, <2>2 DEF Settles
<1>9. CASE SettleRestart(w)
  <2>1. Busy(w) /\ UNCHANGED <<completed, doneChan>> /\ Mode[c] = "restart"
    BY <1>9 DEF SettleRestart, Succeeded, Busy
  <2>2. item'[c] = AsWaiting(item[c]) /\ \A d \in Commands \ {c} : item'[d] = item[d]
    BY <1>3, <1>9, <2>1, ChannelTypes DEF SettleRestart
  <2>3. PICK ok \in BOOLEAN : worker' = [worker EXCEPT ![w].pc = "backoff", ![w].ok = ok]
    BY <1>9 DEF SettleRestart
  <2>4. /\ worker'[w].pc = "backoff" /\ worker'[w].ok = ok
        /\ worker'[w].cmd = c /\ worker'[w].chan = worker[w].chan
    BY <2>3, ChannelTypes DEF WorkerState
  <2>5. Settles(w, c, AsWaiting(item[c]), "backoff", ok)
    BY <2>1, <2>2, <2>4 DEF Settles
  <2> QED
    BY <1>1, <1>2, <1>3, <2>1, <2>5
<1>10. CASE EndBackoff(w)
  <2>1. Wakes(w)
    BY <1>10, ChannelTypes DEF EndBackoff, Wakes, WorkerState
  <2> QED
    BY <1>1, <1>2, <1>3, <2>1
<1>11. CASE Exit(w)
  BY <1>1, <1>2, <1>3, <1>11
<1> QED
  BY <1>4, <1>5, <1>6, <1>7, <1>8, <1>9, <1>10, <1>11 DEF Goroutine

\* A goroutine only touches procedures of commands that have an item.
LEMMA GoroutineProcs ==
    ASSUME QueueInv, NEW w \in Workers, Goroutine(w),
           NEW d \in Commands \ queued, NEW p \in ProceduresOf[d]
    PROVE  record'.procs[p] = record.procs[p]
<1> PICK c : c = worker[w].cmd
  OBVIOUS
<1>1. p \in Procedures /\ CommandOf[p] = d
  BY DEF ProceduresOf
<1>2. Busy(w) => c \in Commands /\ c \in queued /\ d # c
  BY DEF QueueInv, WorkerInv, TypeOK
<1>3. ASSUME NEW q \in Procedures, ReportRunning(w, q) \/ ReportFinished(w, q)
      PROVE  record'.procs[p] = record.procs[p]
  <2>1. Busy(w) /\ q \in ProceduresOf[c]
    BY <1>3 DEF ReportRunning, ReportFinished, Busy, QueueInv, WorkerInv
  <2>2. q # p
    BY <1>1, <1>2, <2>1 DEF ProceduresOf
  <2>3. PICK s \in {"running", "done"} : Persist([record.procs EXCEPT ![q] = s])
    BY <1>3 DEF ReportRunning, ReportFinished
  <2>4. [record.procs EXCEPT ![q] = s] \in [Procedures -> ProcedureStatuses]
    BY DEF QueueInv, TypeOK, Record, ProcedureStatuses
  <2>5. record'.procs = [record.procs EXCEPT ![q] = s]
    BY <2>3, <2>4, PersistType
  <2> QED
    BY <1>1, <2>2, <2>5 DEF QueueInv, TypeOK, Record
<1>4. ASSUME Busy(w), NEW s \in {"waiting", "done", "error"}, Persist(WithCommandStatus(c, s))
      PROVE  record'.procs[p] = record.procs[p]
  BY <1>1, <1>2, <1>4, StatusFrame DEF QueueInv
<1>5. CASE Fail(w) \/ SettleError(w) \/ SettleDone(w) \/ SettleRestart(w)
  <2>1. Busy(w)
    BY <1>5 DEF Fail, SettleError, SettleDone, SettleRestart, Succeeded, Busy
  <2>2. \E s \in {"waiting", "done", "error"} : Persist(WithCommandStatus(c, s))
    BY <1>2, <1>5, <2>1 DEF Fail, SettleError, SettleDone, SettleRestart
  <2> QED
    BY <1>4, <2>1, <2>2
<1>6. CASE SettlePersistent(w) \/ EndBackoff(w) \/ Exit(w)
  BY <1>6 DEF SettlePersistent, EndBackoff, Exit, recordVars
<1> QED
  BY <1>3, <1>5, <1>6 DEF Goroutine
-----------------------------------------------------------------------------
(* Items, goroutines and the outcome of a call                             *)

\* A command without an item that was done is one of an earlier session,
\* and its procedures still say so.
EarlierDone ==
    \A c \in Commands \ queued : c \in completed =>
        ProceduresOf[c] # {} /\ \A p \in ProceduresOf[c] : record.procs[p] = "done"

\* A goroutine has no good news before it settles.
NotOkYet == \A w \in Workers : Busy(w) => ~worker[w].ok

\* An item that carries the channel of a call is of the command it called
\* and, once the channel is closed, has the outcome it was closed on.
ItemOutcome ==
    \A r \in Requests, c \in queued : item[c].chan = r =>
        /\ req[r].cmd = c
        /\ doneChan[r] # "none"
        /\ doneChan[r] = "ok" => ~item[c].err
        /\ doneChan[r] = "failed" => item[c].err

\* A goroutine that has settled is about to close its channel on what its
\* item says, unless the item has been replaced.
WorkerOutcome ==
    \A w \in Workers : worker[w].pc \in {"exit", "backoff"} /\ worker[w].chan # None =>
        \A c \in queued : item[c].chan = worker[w].chan => (worker[w].ok <=> ~item[c].err)

OutcomeInv == EarlierDone /\ NotOkYet /\ ItemOutcome /\ WorkerOutcome

\* Steps that leave items, procedures and goroutines alone.
LEMMA OutcomeFrame ==
    ASSUME OutcomeInv,
           UNCHANGED <<queued, item, record, completed, worker, doneChan>>,
           \A r \in Requests : doneChan[r] # "none" => req'[r].cmd = req[r].cmd
    PROVE  OutcomeInv'
<1>1. EarlierDone' /\ NotOkYet' /\ WorkerOutcome'
  BY DEF OutcomeInv, EarlierDone, NotOkYet, WorkerOutcome, Busy
<1>2. ItemOutcome'
  BY DEF OutcomeInv, ItemOutcome
<1> QED
  BY <1>1, <1>2 DEF OutcomeInv

\* A new item has a new channel or none.
LEMMA EnqueueOutcome ==
    ASSUME QueueInv, ChannelInv, OutcomeInv,
           NEW c \in Commands, NEW chan \in Requests \cup {None},
           Enqueue(c, chan), UNCHANGED <<worker, completed>>,
           chan # None => doneChan[chan] = "none" /\ doneChan'[chan] = "open" /\ req'[chan].cmd = c,
           \A r \in Requests \ {chan} : doneChan'[r] = doneChan[r],
           \A r \in Requests \ {chan} : doneChan[r] # "none" => req'[r].cmd = req[r].cmd
    PROVE  OutcomeInv'
<1>1. /\ queued' = queued \cup {c}
      /\ item'[c].chan = chan
      /\ \A d \in Commands \ {c} : item'[d] = item[d]
  BY EnqueueInv
<1>2. \A p \in Procedures : CommandOf[p] # c => record'.procs[p] = record.procs[p]
  BY StatusFrame DEF Enqueue, QueueInv
<1>3. EarlierDone'
  <2>1. \A d \in Commands \ {c} : \A p \in ProceduresOf[d] : record'.procs[p] = record.procs[p]
    BY <1>2 DEF ProceduresOf
  <2> QED
    BY <1>1, <2>1 DEF OutcomeInv, EarlierDone
<1>4. NotOkYet'
  BY DEF OutcomeInv, NotOkYet, Busy
<1>5. ItemOutcome'
  <2> SUFFICES ASSUME NEW r \in Requests, NEW d \in queued', item'[d].chan = r
               PROVE  /\ req'[r].cmd = d
                      /\ doneChan'[r] # "none"
                      /\ doneChan'[r] = "ok" => ~item'[d].err
                      /\ doneChan'[r] = "failed" => item'[d].err
    BY DEF ItemOutcome
  <2>1. CASE d = c
    BY <1>1, <2>1, ClientsAssumption
  <2>2. CASE d # c
    <3>1. d \in queued /\ item'[d] = item[d] /\ d \in Commands
      BY <1>1, <2>2, ChannelTypes
    <3>2. doneChan[r] # "none" /\ r # chan
      BY <3>1, ClientsAssumption DEF OutcomeInv, ItemOutcome
    <3> QED
      BY <3>1, <3>2 DEF OutcomeInv, ItemOutcome
  <2> QED
    BY <2>1, <2>2
<1>6. WorkerOutcome'
  <2> SUFFICES ASSUME NEW w \in Workers, worker[w].pc \in {"exit", "backoff"},
                      worker[w].chan # None,
                      NEW d \in queued', item'[d].chan = worker[w].chan
               PROVE  worker[w].ok <=> ~item'[d].err
    BY DEF WorkerOutcome
  <2>1. worker[w].chan \in Requests
    BY ChannelTypes DEF WorkerState
  <2>2. doneChan[worker[w].chan] = "open"
    BY <2>1 DEF ChannelInv, WorkerHolds
  <2>3. d # c
    BY <1>1, <2>1, <2>2, ClientsAssumption
  <2>4. d \in queued /\ item'[d] = item[d]
    BY <1>1, <2>3, ChannelTypes
  <2> QED
    BY <2>4 DEF OutcomeInv, WorkerOutcome
<1> QED
  BY <1>3, <1>4, <1>5, <1>6 DEF OutcomeInv

\* What a client does.
LEMMA ClientOutcome ==
    ASSUME QueueInv, ChannelInv, CallInv, OutcomeInv, NEW r \in Requests, Client(r)
    PROVE  OutcomeInv'
<1> USE DEF queueVars, recordVars, passVars, clientVars
<1>1. CASE AddQueueItem(r)
  <2>1. PICK c \in Commands, kind \in CallKinds : Accept(r, c, kind) \/ Refuse(r, c, kind)
    BY <1>1 DEF AddQueueItem
  <2>2. UNCHANGED <<worker, completed>> /\ doneChan[r] = "none"
    BY <1>1 DEF AddQueueItem, ChannelInv
  <2>3. CASE Accept(r, c, kind)
    <3>1. PICK chan \in Requests \cup {None} :
             Enqueue(c, chan) /\ chan = (IF Waits(kind) THEN r ELSE None)
      BY <2>3 DEF Accept
    <3>2. /\ req'[r].cmd = c
          /\ doneChan'[r] = (IF Waits(kind) THEN "open" ELSE "none")
          /\ \A q \in Requests \ {r} : req'[q] = req[q] /\ doneChan'[q] = doneChan[q]
      BY <2>2, <2>3, ChannelTypes DEF Accept
    <3> QED
      BY <2>2, <3>1, <3>2, EnqueueOutcome, ClientsAssumption
  <2>4. CASE Refuse(r, c, kind)
    <3>1. /\ UNCHANGED <<queued, item, record, doneChan>>
          /\ \A q \in Requests \ {r} : req'[q] = req[q]
      BY <2>4, ChannelTypes DEF Refuse
    <3> QED
      BY <2>2, <3>1, OutcomeFrame
  <2> QED
    BY <2>1, <2>3, <2>4
<1>2. CASE RegisterNotifier(r)
  <2>1. /\ UNCHANGED <<queued, item, record, completed, worker, doneChan>>
        /\ doneChan[r] = "none"
        /\ \A q \in Requests \ {r} : req'[q] = req[q]
    BY <1>2, ChannelTypes DEF RegisterNotifier, WaitUntilEmpty, ChannelInv
  <2> QED
    BY <2>1, OutcomeFrame
<1>3. CASE Trigger(r) \/ StartRunQueue(r) \/ Await(r) \/ ReadResult(r) \/ ReceiveEmpty(r) \/ CancelWait(r)
  <2>1. UNCHANGED <<queued, item, record, completed, worker, doneChan>>
    BY <1>3 DEF Trigger, StartRunQueue, WaitOrReturn, Await, ReadResult, ReceiveEmpty, CancelWait
  <2>2. \A q \in Requests : req'[q].cmd = req[q].cmd
    BY <1>3, ChannelTypes DEF Trigger, StartRunQueue, WaitOrReturn, Await, ReadResult, ReceiveEmpty,
                              CancelWait, Finish, RequestState
  <2> QED
    BY <2>1, <2>2, OutcomeFrame
<1> QED
  BY <1>1, <1>2, <1>3 DEF Client

\* Launching a command gives its goroutine, and the call that waits for it,
\* no outcome yet.
LEMMA LaunchOutcome ==
    ASSUME QueueInv, ChannelInv, OutcomeInv, NEW w \in Workers, Launch(w)
    PROVE  OutcomeInv'
<1> USE DEF queueVars, recordVars, passVars, clientVars
<1>1. PICK c \in Commands : c = pass.cmd /\ c \in queued /\ item[c].runRequested
  BY ClientsAssumption DEF Launch, QueueInv, PassInv
<1>2. /\ UNCHANGED <<queued, record, completed, doneChan, req>>
      /\ item'[c].chan = item[c].chan
      /\ \A d \in Commands \ {c} : item'[d] = item[d]
  BY <1>1, ChannelTypes DEF Launch, AsRunning, Item
<1>3. /\ worker[w].pc = "idle" /\ worker'[w].pc = "run" /\ worker'[w].ok = FALSE
      /\ \A v \in Workers \ {w} : worker'[v] = worker[v]
  BY <1>1, ChannelTypes DEF Launch
<1>4. EarlierDone'
  BY <1>2 DEF OutcomeInv, EarlierDone
<1>5. NotOkYet'
  BY <1>3 DEF OutcomeInv, NotOkYet, Busy
<1>6. ItemOutcome'
  <2>1. \A r \in Requests : item[c].chan = r => doneChan[r] = "open"
    BY <1>1 DEF ChannelInv, ItemHolds
  <2>2. \A d \in queued : d \in Commands
    BY ChannelTypes
  <2> QED
    BY <1>2, <2>1, <2>2 DEF OutcomeInv, ItemOutcome
<1>7. WorkerOutcome'
  <2> SUFFICES ASSUME NEW v \in Workers, worker'[v].pc \in {"exit", "backoff"},
                      worker'[v].chan # None,
                      NEW d \in queued, item'[d].chan = worker'[v].chan
               PROVE  worker'[v].ok <=> ~item'[d].err
    BY <1>2 DEF WorkerOutcome
  <2>1. worker'[v] = worker[v] /\ worker[v].chan \in Requests
    BY <1>3, ChannelTypes DEF WorkerState
  <2>2. d # c
    BY <1>1, <1>2, <2>1 DEF ChannelInv, ItemHolds, WorkerHolds
  <2>3. item'[d] = item[d]
    BY <1>2, <2>2, ChannelTypes
  <2> QED
    BY <2>1, <2>3 DEF OutcomeInv, WorkerOutcome
<1> QED
  BY <1>4, <1>5, <1>6, <1>7 DEF OutcomeInv

\* What a pass does.
LEMMA RunQueueOutcome ==
    ASSUME QueueInv, ChannelInv, OutcomeInv, RunQueue
    PROVE  OutcomeInv'
<1> USE DEF queueVars, recordVars, passVars, clientVars
<1>1. CASE UNCHANGED <<queued, item, record, completed, worker, doneChan, req>>
  BY <1>1, OutcomeFrame
<1>2. ASSUME NEW d \in Commands, CheckNeed(d) PROVE OutcomeInv'
  <2>1. CASE Enqueue(d, None)
    <3>1. UNCHANGED <<worker, completed, doneChan, req>>
      BY <1>2 DEF CheckNeed
    <3> QED
      BY <2>1, <3>1, EnqueueOutcome
  <2> QED
    BY <1>1, <1>2, <2>1 DEF CheckNeed
<1>3. CASE StartPass \/ SkipCommand \/ EndPass \/ Notify \/ \E c \in Commands : PickCommand(c)
  BY <1>1, <1>3 DEF StartPass, SkipCommand, EndPass, Notify, PickCommand
<1> QED
  BY <1>2, <1>3, LaunchOutcome DEF RunQueue

\* The channel of a goroutine that works on an item is that of the item, and
\* no other item or goroutine has it.
LEMMA OwnChannel ==
    ASSUME QueueInv, ChannelInv, OutcomeInv, NEW w \in Workers, Busy(w),
           NEW c, c = worker[w].cmd
    PROVE  /\ c \in queued /\ item[c] \in Item /\ item[c].chan = worker[w].chan
           /\ item[c].inFlight
           /\ Mode[c] = "restart" => item[c].chan = None
           /\ \A r \in Requests : item[c].chan = r =>
                 /\ doneChan[r] = "open" /\ req[r].cmd = c
                 /\ \A d \in queued \ {c} : item[d].chan # r
                 /\ \A v \in Workers \ {w} : worker[v].pc # "idle" => worker[v].chan # r
<1>1. c \in queued /\ item[c].inFlight /\ item[c].chan = worker[w].chan
  BY DEF QueueInv, WorkerInv
<1>2. item[c] \in Item
  BY <1>1, ChannelTypes
<1>3. Mode[c] = "restart" => item[c].chan = None
  BY <1>1 DEF ChannelInv
<1>4. \A r \in Requests : item[c].chan = r => WorkerHolds(w, r)
  BY <1>1 DEF WorkerHolds, Busy
<1>5. \A r \in Requests : item[c].chan = r =>
          /\ doneChan[r] = "open"
          /\ \A v \in Workers \ {w} : worker[v].pc # "idle" => worker[v].chan # r
  BY <1>4 DEF ChannelInv, WorkerHolds
<1>6. \A r \in Requests : item[c].chan = r =>
          req[r].cmd = c /\ \A d \in queued \ {c} : item[d].chan # r
  BY <1>1 DEF OutcomeInv, ItemOutcome
<1> QED
  BY <1>1, <1>2, <1>3, <1>5, <1>6

\* A goroutine that settles leaves its outcome in the item.
LEMMA SettleOutcome ==
    ASSUME QueueInv, ChannelInv, OutcomeInv, NEW w \in Workers, NEW c, NEW i \in Item,
           NEW pc \in {"exit", "backoff"}, NEW ok \in BOOLEAN,
           Settles(w, c, i, pc, ok),
           UNCHANGED <<queued, req>>, \A v \in Workers \ {w} : worker'[v] = worker[v],
           i.chan = item[c].chan,
           i.chan # None => (ok <=> ~i.err)
    PROVE  NotOkYet' /\ ItemOutcome' /\ WorkerOutcome'
<1>1. /\ c \in queued /\ item[c].chan = worker[w].chan
      /\ \A r \in Requests : item[c].chan = r =>
            /\ doneChan[r] = "open" /\ req[r].cmd = c
            /\ \A d \in queued \ {c} : item[d].chan # r
            /\ \A v \in Workers \ {w} : worker[v].pc # "idle" => worker[v].chan # r
  BY OwnChannel DEF Settles
<1>2. /\ item'[c] = i /\ \A d \in queued \ {c} : item'[d] = item[d]
      /\ worker'[w].pc = pc /\ worker'[w].ok = ok /\ worker'[w].chan = worker[w].chan
      /\ UNCHANGED doneChan
  BY ChannelTypes DEF Settles
<1>3. NotOkYet'
  BY <1>2 DEF OutcomeInv, NotOkYet, Busy
<1>4. ItemOutcome'
  BY <1>1, <1>2 DEF OutcomeInv, ItemOutcome
<1>5. WorkerOutcome'
  <2> SUFFICES ASSUME NEW v \in Workers, worker'[v].pc \in {"exit", "backoff"},
                      worker'[v].chan # None,
                      NEW d \in queued, item'[d].chan = worker'[v].chan
               PROVE  worker'[v].ok <=> ~item'[d].err
    BY DEF WorkerOutcome
  <2>1. CASE v = w
    <3>1. worker[w].chan \in Requests
      BY <1>2, <2>1, ChannelTypes DEF WorkerState
    <3>2. d = c
      BY <1>1, <1>2, <2>1, <3>1
    <3> QED
      BY <1>1, <1>2, <2>1, <3>2
  <2>2. CASE v # w
    <3>1. worker'[v] = worker[v] /\ worker[v].chan \in Requests
      BY <2>2, ChannelTypes DEF WorkerState
    <3>2. d # c
      BY <1>1, <1>2, <2>2, <3>1
    <3> QED
      BY <1>2, <3>1, <3>2 DEF OutcomeInv, WorkerOutcome
  <2> QED
    BY <2>1, <2>2
<1> QED
  BY <1>3, <1>4, <1>5

\* What the marks of a settled item say.
LEMMA Marks ==
    ASSUME NEW i \in Item
    PROVE  /\ AsError(i).chan = i.chan /\ AsError(i).err /\ ~AsError(i).inFlight
           /\ AsDone(i).chan = i.chan /\ ~AsDone(i).err /\ ~AsDone(i).inFlight
           /\ ~AsDone(i).runRequested
           /\ AsWaiting(i).chan = i.chan /\ ~AsWaiting(i).err
           /\ ~AsWaiting(i).inFlight /\ AsWaiting(i).runRequested
<1>1. AsError(i).chan = i.chan /\ AsError(i).err /\ ~AsError(i).inFlight
  BY DEF AsError, Item
<1>2. /\ AsDone(i).chan = i.chan /\ ~AsDone(i).err /\ ~AsDone(i).inFlight
      /\ ~AsDone(i).runRequested
  BY DEF AsDone, Item
<1>3. /\ AsWaiting(i).chan = i.chan /\ ~AsWaiting(i).err /\ ~AsWaiting(i).inFlight
      /\ AsWaiting(i).runRequested
  BY DEF AsWaiting, Item
<1> QED
  BY <1>1, <1>2, <1>3

\* What a goroutine does.
LEMMA GoroutineOutcome ==
    ASSUME QueueInv, ChannelInv, OutcomeInv, NEW w \in Workers, Goroutine(w)
    PROVE  OutcomeInv'
<1> PICK c : c = worker[w].cmd
  OBVIOUS
<1>1. /\ UNCHANGED <<queued, req>>
      /\ \A v \in Workers \ {w} : worker'[v] = worker[v]
      /\ Busy(w) => c \in Commands /\ c \in queued
  BY GoroutineSteps
<1>2. EarlierDone'
  <2>1. \A d \in Commands \ queued : \A p \in ProceduresOf[d] : record'.procs[p] = record.procs[p]
    BY GoroutineProcs
  <2>2. completed' \subseteq completed \cup queued
    BY <1>1, GoroutineSteps, ExitCloses DEF Works, Settles, Wakes
  <2> QED
    BY <1>1, <2>1, <2>2 DEF OutcomeInv, EarlierDone
<1>3. CASE Works(w) \/ Wakes(w)
  <2>1. /\ UNCHANGED <<item, doneChan>>
        /\ worker'[w].ok = worker[w].ok /\ worker'[w].chan = worker[w].chan
        /\ worker'[w].pc \in {"exit", "backoff"} => worker[w].pc \in {"exit", "backoff"}
        /\ Busy(w)' => Busy(w)
    BY <1>3 DEF Works, Wakes, Busy
  <2>2. NotOkYet'
    BY <1>1, <2>1 DEF OutcomeInv, NotOkYet, Busy
  <2>3. ItemOutcome'
    BY <1>1, <2>1 DEF OutcomeInv, ItemOutcome
  <2>4. WorkerOutcome'
    BY <1>1, <2>1 DEF OutcomeInv, WorkerOutcome
  <2> QED
    BY <1>2, <2>2, <2>3, <2>4 DEF OutcomeInv
<1>4. CASE Exit(w)
  <2>1. NotOkYet'
    BY <1>4, ExitCloses DEF OutcomeInv, NotOkYet, Busy
  <2>2. WorkerOutcome'
    BY <1>4, ExitCloses DEF OutcomeInv, WorkerOutcome
  <2>3. ItemOutcome'
    <3> SUFFICES ASSUME NEW r \in Requests, NEW d \in queued, item[d].chan = r
                 PROVE  /\ req[r].cmd = d
                        /\ doneChan'[r] # "none"
                        /\ doneChan'[r] = "ok" => ~item[d].err
                        /\ doneChan'[r] = "failed" => item[d].err
      BY <1>4, ExitCloses DEF ItemOutcome
    <3>1. CASE worker[w].chan = r
      <4>1. /\ doneChan'[r] = IF worker[w].ok THEN "ok" ELSE "failed"
            /\ worker[w].pc = "exit"
        BY <1>4, <3>1, ExitCloses
      <4>2. worker[w].ok <=> ~item[d].err
        BY <3>1, <4>1, ClientsAssumption DEF OutcomeInv, WorkerOutcome
      <4> QED
        BY <4>1, <4>2 DEF OutcomeInv, ItemOutcome
    <3>2. CASE worker[w].chan # r
      BY <1>4, <3>2, ExitCloses DEF OutcomeInv, ItemOutcome
    <3> QED
      BY <3>1, <3>2
  <2> QED
    BY <1>2, <2>1, <2>2, <2>3 DEF OutcomeInv
<1>5. ASSUME NEW i \in Item, NEW pc \in {"exit", "backoff"}, NEW ok \in BOOLEAN,
             Settles(w, c, i, pc, ok), i.chan = item[c].chan,
             i.chan # None => (ok <=> ~i.err)
      PROVE  OutcomeInv'
  BY <1>1, <1>2, <1>5, SettleOutcome DEF OutcomeInv
<1>6. Busy(w) => /\ item[c] \in Item /\ item[c].inFlight /\ ~item[c].err
                 /\ worker[w].ok = FALSE
                 /\ Mode[c] = "restart" => item[c].chan = None
  <2>1. Busy(w) => c \in queued /\ item[c] \in Item /\ item[c].inFlight
                   /\ (Mode[c] = "restart" => item[c].chan = None)
    BY OwnChannel
  <2>2. worker[w].ok \in BOOLEAN
    BY ChannelTypes DEF WorkerState
  <2> QED
    BY <2>1, <2>2 DEF OutcomeInv, NotOkYet, QueueInv, ItemInv, ItemOK, WaitsOK, FlagsOK
<1>7. CASE Settles(w, c, AsError(item[c]), "exit", worker[w].ok)
  <2>1. Busy(w)
    BY <1>7 DEF Settles
  <2>2. /\ AsError(item[c]) \in Item /\ AsError(item[c]).chan = item[c].chan
        /\ AsError(item[c]).err
    BY <1>6, <2>1, ItemType, Marks
  <2> QED
    BY <1>5, <1>6, <1>7, <2>1, <2>2
<1>8. CASE Settles(w, c, AsDone(item[c]), "exit", TRUE)
  <2>1. Busy(w)
    BY <1>8 DEF Settles
  <2>2. PICK i : i = AsDone(item[c])
    OBVIOUS
  <2>3. i \in Item /\ i.chan = item[c].chan /\ ~i.err
    BY <1>6, <2>1, <2>2, ItemType, Marks
  <2>4. Settles(w, c, i, "exit", TRUE)
    BY <1>8, <2>2
  <2> QED
    BY <1>5, <2>3, <2>4
<1>9. CASE Settles(w, c, item[c], "exit", TRUE)
  <2>1. Busy(w)
    BY <1>9 DEF Settles
  <2>2. PICK i : i = item[c]
    OBVIOUS
  <2>3. i \in Item /\ i.chan = item[c].chan /\ ~i.err
    BY <1>6, <2>1, <2>2
  <2>4. Settles(w, c, i, "exit", TRUE)
    BY <1>9, <2>2
  <2> QED
    BY <1>5, <2>3, <2>4
<1>10. ASSUME NEW ok \in BOOLEAN, Settles(w, c, AsWaiting(item[c]), "backoff", ok),
              Mode[c] = "restart"
       PROVE  OutcomeInv'
  <2>1. Busy(w)
    BY <1>10 DEF Settles
  <2>2. AsWaiting(item[c]) \in Item /\ AsWaiting(item[c]).chan = item[c].chan
    BY <1>6, <2>1, ItemType, Marks
  <2> QED
    BY <1>5, <1>6, <1>10, <2>1, <2>2
<1> QED
  BY <1>3, <1>4, <1>7, <1>8, <1>9, <1>10, GoroutineSteps
-----------------------------------------------------------------------------
(* The mapping                                                             *)

HolderOf(c) == IF c \in queued THEN item[c].chan ELSE None

\* Nothing the lifecycle shows of commands and calls changes.
SamePhases(S) == \A d \in S : PhaseOf(d)' = PhaseOf(d) /\ HolderOf(d)' = HolderOf(d)
SameCalls(S) == \A r \in S : OwnOutcome(r)' = OwnOutcome(r) /\ Told(r)' = Told(r)

\* A step of the queue that the lifecycle does not see.
LEMMA Unseen ==
    ASSUME SamePhases(Commands), SameCalls(Requests), Forced' = Forced, UNCHANGED completed
    PROVE  UNCHANGED Lifecycle!vars
BY DEF SamePhases, SameCalls, HolderOf, Lifecycle!vars

\* A command that starts.
LEMMA Runs ==
    ASSUME NEW c \in Commands, PhaseOf(c) = "wanted", PhaseOf(c)' = "running",
           Needs[c] \subseteq completed, HolderOf(c)' = HolderOf(c),
           SamePhases(Commands \ {c}), SameCalls(Requests), Forced' = Forced, UNCHANGED completed
    PROVE  Lifecycle!Next
<1>1. Lifecycle!Run(c)
  BY DEF Lifecycle!Run, SamePhases, SameCalls, HolderOf
<1> QED
  BY <1>1 DEF Lifecycle!Next

\* A command that is wanted, by a need, a call or a call that waits.
LEMMA Wants ==
    ASSUME NEW c \in Commands, PhaseOf(c) \in {"none", "done", "failed"}, PhaseOf(c)' = "wanted",
           NEW wait \in Requests \cup {None}, NEW force \in Requests \cup {None},
           wait # None => OwnOutcome(wait) = "none" /\ force \in {wait, None},
           Mode[c] = "once" /\ PhaseOf(c) = "done" => force # None,
           force \notin Forced, Forced' = Forced \cup ({force} \ {None}),
           HolderOf(c)' = wait, SamePhases(Commands \ {c}),
           wait # None => OwnOutcome(wait)' = "pending",
           \A r \in Requests \ {wait} : OwnOutcome(r)' = OwnOutcome(r),
           \A r \in Requests : Told(r)' = Told(r), UNCHANGED completed
    PROVE  Lifecycle!Next
<1>1. Lifecycle!Want(c)
  <2>1. [d \in Commands |-> PhaseOf(d)]' = [[d \in Commands |-> PhaseOf(d)] EXCEPT ![c] = "wanted"]
    BY DEF SamePhases
  <2>2. [d \in Commands |-> IF d \in queued THEN item[d].chan ELSE None]'
           = [[d \in Commands |-> IF d \in queued THEN item[d].chan ELSE None] EXCEPT ![c] = wait]
    BY DEF SamePhases, HolderOf
  <2>3. [r \in Requests |-> OwnOutcome(r)]'
           = [r \in Requests |-> IF r = wait THEN "pending"
                                 ELSE [q \in Requests |-> OwnOutcome(q)][r]]
    BY ClientsAssumption
  <2>4. /\ [r \in Requests |-> Told(r)]' = [r \in Requests |-> Told(r)]
        /\ wait # None => wait \in Requests /\ [r \in Requests |-> OwnOutcome(r)][wait] = "none"
    OBVIOUS
  <2>5. c \in {d \in Commands : Mode[d] = "once"} /\ [d \in Commands |-> PhaseOf(d)][c] = "done"
           => force # None
    OBVIOUS
  <2>6. [d \in Commands |-> PhaseOf(d)][c] \in {"none", "done", "failed"}
    OBVIOUS
  <2> QED
    BY <2>1, <2>2, <2>3, <2>4, <2>5, <2>6 DEF Lifecycle!Want
<1> QED
  BY <1>1 DEF Lifecycle!Next

\* The call that waits for c, and no other, has this outcome.
Answered(c, outcome) ==
    \A r \in Requests :
        /\ OwnOutcome(r)' = IF r = HolderOf(c) /\ OwnOutcome(r) = "pending"
                            THEN outcome ELSE OwnOutcome(r)
        /\ Told(r)' = Told(r)

\* Commands that are done, fail, are wanted again or go on by themselves.
LEMMA SettlesWell ==
    ASSUME NEW c \in Commands, PhaseOf(c) = "running", HolderOf(c)' = HolderOf(c),
           SamePhases(Commands \ {c}), Forced' = Forced
    PROVE  /\ /\ PhaseOf(c)' = "done" /\ Mode[c] \in {"always", "once"}
              /\ completed' = completed \cup {c} /\ Answered(c, "ok")
              => Lifecycle!Next
           /\ PhaseOf(c)' = "failed" /\ UNCHANGED completed /\ Answered(c, "failed")
              => Lifecycle!Next
           /\ /\ PhaseOf(c)' = "wanted" /\ Mode[c] = "restart"
              /\ UNCHANGED completed /\ Answered(c, "ok")
              => Lifecycle!Next
           /\ /\ PhaseOf(c)' = "running" /\ Mode[c] = "persistent"
              /\ UNCHANGED completed /\ Answered(c, "ok")
              => Lifecycle!Next
<1>1. ASSUME PhaseOf(c)' = "done", Mode[c] \in {"always", "once"},
             completed' = completed \cup {c}, Answered(c, "ok")
      PROVE  Lifecycle!Next
  <2>1. Lifecycle!Succeed(c)
    BY <1>1 DEF Lifecycle!Succeed, Lifecycle!Settle, SamePhases, HolderOf, Answered
  <2> QED
    BY <2>1 DEF Lifecycle!Next
<1>2. ASSUME PhaseOf(c)' = "failed", UNCHANGED completed, Answered(c, "failed")
      PROVE  Lifecycle!Next
  <2>1. Lifecycle!Fail(c)
    BY <1>2 DEF Lifecycle!Fail, Lifecycle!Settle, SamePhases, HolderOf, Answered
  <2> QED
    BY <2>1 DEF Lifecycle!Next
<1>3. ASSUME PhaseOf(c)' = "wanted", Mode[c] = "restart", UNCHANGED completed, Answered(c, "ok")
      PROVE  Lifecycle!Next
  <2>1. Lifecycle!RunAgain(c, "ok")
    BY <1>3 DEF Lifecycle!RunAgain, Lifecycle!Settle, SamePhases, HolderOf, Answered
  <2> QED
    BY <2>1 DEF Lifecycle!Next
<1>4. ASSUME PhaseOf(c)' = "running", Mode[c] = "persistent", UNCHANGED completed, Answered(c, "ok")
      PROVE  Lifecycle!Next
  <2>1. Lifecycle!Detach(c)
    BY <1>4 DEF Lifecycle!Detach, Lifecycle!Settle, SamePhases, HolderOf, Answered
  <2> QED
    BY <2>1 DEF Lifecycle!Next
<1> QED
  BY <1>1, <1>2, <1>3, <1>4

\* A call that is told its own outcome, or whose command is wanted anew.
LEMMA Tells ==
    ASSUME NEW r \in Requests, NEW outcome \in {"ok", "failed"},
           OwnOutcome(r) \in {"ok", "failed"}, Told(r) = "none", Told(r)' = outcome,
           outcome = OwnOutcome(r) \/ \A c \in Commands : HolderOf(c) # r,
           SamePhases(Commands), SameCalls(Requests \ {r}), OwnOutcome(r)' = OwnOutcome(r),
           Forced' = Forced, UNCHANGED completed
    PROVE  Lifecycle!Next
<1>1. Lifecycle!Tell(r, outcome)
  BY DEF Lifecycle!Tell, SamePhases, SameCalls, HolderOf
<1> QED
  BY <1>1 DEF Lifecycle!Next

\* The phase of a command is in its item.
LEMMA PhaseFrame ==
    ASSUME NEW c, c \in queued' <=> c \in queued, item'[c] = item[c],
           c \in completed' <=> c \in completed
    PROVE  PhaseOf(c)' = PhaseOf(c) /\ HolderOf(c)' = HolderOf(c)
BY DEF PhaseOf, HolderOf

\* The outcome of a call is with the goroutine that has its channel, then in
\* the channel.
LEMMA OutcomeUnchanged ==
    ASSUME NEW r, doneChan'[r] = doneChan[r],
           \A w \in Workers :
              /\ worker'[w].chan = r /\ worker'[w].pc \in {"exit", "backoff"}
                   <=> worker[w].chan = r /\ worker[w].pc \in {"exit", "backoff"}
              /\ worker[w].chan = r /\ worker[w].pc \in {"exit", "backoff"}
                   => worker'[w].ok = worker[w].ok
    PROVE  OwnOutcome(r)' = OwnOutcome(r)
<1>1. Reported(r)' = Reported(r) /\ \A w \in Reported(r) : worker'[w].ok = worker[w].ok
  BY DEF Reported
<1> QED
  BY <1>1 DEF OwnOutcome

\* What a call was told is between itself and its channel.
LEMMA ToldUnchanged ==
    ASSUME NEW r, req'[r] = req[r], doneChan'[r] = "none" <=> doneChan[r] = "none"
    PROVE  Told(r)' = Told(r)
BY DEF Told

LEMMA ForcedUnchanged ==
    ASSUME \A r \in Requests : req'[r] = req[r]
    PROVE  Forced' = Forced
BY DEF Forced
-----------------------------------------------------------------------------
(* Every step of the queue                                                 *)

\* A command whose phase is done counts as done for callers and needs.
LEMMA DonePhase ==
    ASSUME QueueInv, OutcomeInv, NEW c \in Commands, PhaseOf(c) = "done"
    PROVE  ScheduledStatus(c) = "done"
<1>1. CASE c \notin queued
  <2>1. c \in completed
    BY <1>1 DEF PhaseOf
  <2>2. {record.procs[p] : p \in ProceduresOf[c]} = {"done"}
    BY <1>1, <2>1 DEF OutcomeInv, EarlierDone
  <2>3. DerivedStatus(c) = "done"
    BY <2>2 DEF DerivedStatus, DeriveCommandStatus
  <2> QED
    BY <1>1, <2>3 DEF ScheduledStatus
<1>2. CASE c \in queued
  <2>1. ~item[c].inFlight /\ ~item[c].err /\ ~item[c].runRequested
    BY <1>2 DEF PhaseOf
  <2>2. item[c].rememberDone
    BY <1>2, <2>1 DEF QueueInv, ItemInv, ItemOK, WaitsOK, FlagsOK
  <2> QED
    BY <1>2, <2>1, <2>2 DEF ScheduledStatus
<1> QED
  BY <1>1, <1>2

\* A command enters the queue: it was not wanted and not running.
LEMMA EnqueueWants ==
    ASSUME QueueInv, NEW c \in Commands, NEW chan \in Requests \cup {None},
           Enqueue(c, chan), UNCHANGED <<worker, completed>>
    PROVE  /\ PhaseOf(c) \in {"none", "done", "failed"}
           /\ PhaseOf(c)' = "wanted" /\ HolderOf(c)' = chan
           /\ SamePhases(Commands \ {c})
<1>1. /\ queued' = queued \cup {c}
      /\ item'[c] = AsWaiting([Blank EXCEPT !.chan = chan])
      /\ \A d \in Commands \ {c} : item'[d] = item[d]
  BY ChannelTypes DEF Enqueue
<1>2. c \in queued => ~item[c].runRequested /\ ~item[c].inFlight
  BY Replaceable DEF Enqueue
<1>3. PhaseOf(c) \in {"none", "done", "failed"}
  BY <1>2 DEF PhaseOf
<1>4. /\ ~item'[c].inFlight /\ ~item'[c].err /\ item'[c].runRequested
      /\ item'[c].chan = chan
  BY <1>1 DEF AsWaiting, Blank
<1>5. PhaseOf(c)' = "wanted" /\ HolderOf(c)' = chan
  BY <1>1, <1>4 DEF PhaseOf, HolderOf
<1>6. SamePhases(Commands \ {c})
  BY <1>1, PhaseFrame DEF SamePhases
<1> QED
  BY <1>3, <1>5, <1>6

\* A call that waits and is accepted has no outcome yet.
LEMMA AcceptPends ==
    ASSUME QueueInv, ChannelInv, NEW r \in Requests, doneChan[r] = "none",
           doneChan'[r] = "open", UNCHANGED worker
    PROVE  OwnOutcome(r) = "none" /\ OwnOutcome(r)' = "pending"
<1>1. Reported(r) = {} /\ Reported(r)' = {}
  BY DEF ChannelInv, WorkerHolds, Reported
<1> QED
  BY <1>1 DEF OwnOutcome

\* A call is accepted.
LEMMA AcceptRefines ==
    ASSUME QueueInv, ChannelInv, CallInv, OutcomeInv, NEW r \in Requests,
           NEW c \in Commands, NEW kind \in CallKinds,
           req[r].pc = "idle", Accept(r, c, kind), UNCHANGED <<worker, completed>>
    PROVE  Lifecycle!Next
<1> DEFINE wait == IF Waits(kind) THEN r ELSE None
           force == IF Forces(kind) THEN r ELSE None
<1>1. doneChan[r] = "none"
  BY DEF ChannelInv
<1>2. /\ req'[r].pc = "trigger" /\ req'[r].kind = kind /\ req'[r].result = "none"
      /\ doneChan'[r] = (IF Waits(kind) THEN "open" ELSE "none")
      /\ \A q \in Requests \ {r} : req'[q] = req[q] /\ doneChan'[q] = doneChan[q]
  BY <1>1, ChannelTypes DEF Accept
<1>3. Enqueue(c, wait) /\ wait \in Requests \cup {None}
  BY DEF Accept
<1>4. /\ PhaseOf(c) \in {"none", "done", "failed"}
      /\ PhaseOf(c)' = "wanted" /\ HolderOf(c)' = wait
      /\ SamePhases(Commands \ {c})
  BY <1>3, EnqueueWants
<1>5. r # None
  BY ClientsAssumption
<1>6. wait # None => /\ OwnOutcome(wait) = "none" /\ OwnOutcome(wait)' = "pending"
                     /\ force \in {wait, None}
  BY <1>1, <1>2, AcceptPends
<1>7. Mode[c] = "once" /\ PhaseOf(c) = "done" => force # None
  BY <1>5, DonePhase DEF Accept, DoneOnce
<1>8. force \notin Forced /\ force \in Requests \cup {None}
  BY <1>5, ClientsAssumption DEF Forced
<1>9. Forced' = Forced \cup ({force} \ {None})
  <2>1. \A q \in Requests \ {r} : q \in Forced' <=> q \in Forced
    BY <1>2 DEF Forced
  <2>2. r \in Forced' <=> Forces(kind)
    BY <1>2 DEF Forced
  <2>3. r \notin Forced
    BY DEF Forced
  <2>4. Forced \subseteq Requests /\ Forced' \subseteq Requests
    BY DEF Forced
  <2> QED
    BY <1>5, <2>1, <2>2, <2>3, <2>4
<1>10. \A q \in Requests \ {wait} : OwnOutcome(q)' = OwnOutcome(q)
  <2>1. \A q \in Requests \ {wait} : doneChan'[q] = doneChan[q]
    BY <1>1, <1>2
  <2> QED
    BY <2>1, OutcomeUnchanged
<1>11. \A q \in Requests : Told(q)' = Told(q)
  <2>1. Told(r) = "none" /\ Told(r)' = "none"
    BY <1>2 DEF Told
  <2> QED
    BY <1>2, <2>1, ToldUnchanged
<1> HIDE DEF wait, force
<1> QED
  BY <1>3, <1>4, <1>6, <1>7, <1>8, <1>9, <1>10, <1>11, Wants

\* A caller reads the item the queue holds now: its own outcome, unless the
\* item is no longer the one that carries its channel.
LEMMA ReadTells ==
    ASSUME QueueInv, ChannelInv, CallInv, OutcomeInv, NEW r \in Requests, ReadResult(r)
    PROVE  Lifecycle!Next
<1> USE DEF queueVars, recordVars, passVars, clientVars
<1> PICK outcome \in {"ok", "failed"} :
       outcome = IF req[r].cmd \in queued /\ item[req[r].cmd].err THEN "failed" ELSE "ok"
  OBVIOUS
<1>1. /\ req[r].pc = "read" /\ req'[r].pc = "done" /\ req'[r].result = outcome
      /\ req'[r].kind = req[r].kind /\ req[r].result = req[r].result
      /\ \A q \in Requests \ {r} : req'[q] = req[q]
      /\ UNCHANGED <<queued, item, completed, worker, doneChan>>
  BY ChannelTypes DEF ReadResult, Finish, RequestState
<1>2. doneChan[r] \in {"ok", "failed"}
  BY <1>1 DEF CallInv, CallOK
<1>3. OwnOutcome(r) = doneChan[r] /\ OwnOutcome(r)' = OwnOutcome(r)
  BY <1>1, <1>2 DEF OwnOutcome
<1>4. Told(r) = "none" /\ Told(r)' = outcome
  BY <1>1, <1>2 DEF Told
<1>5. outcome = OwnOutcome(r) \/ \A c \in Commands : HolderOf(c) # r
  <2> SUFFICES ASSUME NEW c \in Commands, HolderOf(c) = r
               PROVE  outcome = OwnOutcome(r)
    OBVIOUS
  <2>1. c \in queued /\ item[c].chan = r
    BY ClientsAssumption DEF HolderOf
  <2>2. /\ req[r].cmd = c
        /\ doneChan[r] = "ok" => ~item[c].err
        /\ doneChan[r] = "failed" => item[c].err
    BY <2>1 DEF OutcomeInv, ItemOutcome
  <2> QED
    BY <1>2, <1>3, <2>1, <2>2
<1>6. SamePhases(Commands)
  BY <1>1, PhaseFrame DEF SamePhases
<1>7. SameCalls(Requests \ {r})
  BY <1>1, OutcomeUnchanged, ToldUnchanged DEF SameCalls
<1>8. Forced' = Forced
  <2>1. req[r].result = "none"
    BY <1>1 DEF CallInv, CallOK
  <2>2. \A q \in Requests : q \in Forced' <=> q \in Forced
    BY <1>1, <2>1 DEF Forced
  <2> QED
    BY <2>2 DEF Forced
<1> QED
  BY <1>1, <1>2, <1>3, <1>4, <1>5, <1>6, <1>7, <1>8, Tells

\* What a client does is wanting a command, being told, or not seen.
LEMMA ClientRefines ==
    ASSUME QueueInv, ChannelInv, CallInv, OutcomeInv, NEW r \in Requests, Client(r)
    PROVE  Lifecycle!Next \/ UNCHANGED Lifecycle!vars
<1> USE DEF queueVars, recordVars, passVars, clientVars
<1>1. ASSUME UNCHANGED <<queued, item, completed, worker, doneChan>>,
             \A q \in Requests \ {r} : req'[q] = req[q],
             Told(r)' = Told(r),
             r \in Forced' <=> r \in Forced
      PROVE  UNCHANGED Lifecycle!vars
  <2>1. SamePhases(Commands)
    BY <1>1, PhaseFrame DEF SamePhases
  <2>2. SameCalls(Requests)
    BY <1>1, OutcomeUnchanged, ToldUnchanged DEF SameCalls
  <2>3. Forced' = Forced
    <3>1. \A q \in Requests \ {r} : q \in Forced' <=> q \in Forced
      BY <1>1 DEF Forced
    <3>2. Forced \subseteq Requests /\ Forced' \subseteq Requests
      BY DEF Forced
    <3> QED
      BY <1>1, <3>1, <3>2
  <2> QED
    BY <1>1, <2>1, <2>2, <2>3, Unseen
<1>2. CallOK(r)
  BY DEF CallInv
<1>3. CASE AddQueueItem(r)
  <2>1. PICK c \in Commands, kind \in CallKinds : Accept(r, c, kind) \/ Refuse(r, c, kind)
    BY <1>3 DEF AddQueueItem
  <2>2. req[r].pc = "idle" /\ doneChan[r] = "none" /\ UNCHANGED <<worker, completed>>
    BY <1>3 DEF AddQueueItem, ChannelInv
  <2>3. CASE Accept(r, c, kind)
    BY <2>2, <2>3, AcceptRefines
  <2>4. CASE Refuse(r, c, kind)
    <3>1. /\ UNCHANGED <<queued, item, doneChan>>
          /\ req'[r].pc = "done" /\ req'[r].result \in {"alreadyQueued", "doneOnce"}
          /\ \A q \in Requests \ {r} : req'[q] = req[q]
      BY <2>4, ChannelTypes DEF Refuse
    <3>2. Told(r)' = Told(r)
      BY <2>2, <3>1 DEF Told
    <3>3. r \in Forced' <=> r \in Forced
      BY <2>2, <3>1 DEF Forced
    <3> QED
      BY <1>1, <2>2, <3>1, <3>2, <3>3
  <2> QED
    BY <2>1, <2>3, <2>4
<1>4. CASE RegisterNotifier(r)
  <2>1. /\ UNCHANGED <<queued, item, completed, worker, doneChan>>
        /\ req[r].pc = "idle" /\ doneChan[r] = "none" /\ req'[r].kind = "empty"
        /\ \A q \in Requests \ {r} : req'[q] = req[q]
    BY <1>4, ChannelTypes DEF RegisterNotifier, WaitUntilEmpty, ChannelInv
  <2>2. Told(r)' = Told(r)
    BY <2>1 DEF Told
  <2>3. r \in Forced' <=> r \in Forced
    BY <2>1 DEF Forced, Forces
  <2> QED
    BY <1>1, <2>1, <2>2, <2>3
<1>5. CASE ReadResult(r)
  BY <1>5, ReadTells
<1>6. CASE Trigger(r) \/ StartRunQueue(r) \/ Await(r) \/ ReceiveEmpty(r) \/ CancelWait(r)
  <2>1. /\ UNCHANGED <<queued, item, completed, worker, doneChan>>
        /\ \A q \in Requests \ {r} : req'[q] = req[q]
        /\ req'[r].kind = req[r].kind
    BY <1>6, ChannelTypes DEF Trigger, StartRunQueue, WaitOrReturn, Await, ReceiveEmpty, CancelWait,
                              Finish, RequestState
  <2>2. /\ req[r].pc \notin {"idle", "done"}
        /\ req'[r].pc # "idle"
        /\ req'[r].result \in {req[r].result, "ok", "canceled"}
    BY <1>6, ChannelTypes DEF Trigger, StartRunQueue, WaitOrReturn, Await, ReceiveEmpty, CancelWait,
                              Finish, RequestState
  <2>3. req'[r].pc = "done" => doneChan[r] = "none"
    <3>1. CASE Trigger(r) \/ StartRunQueue(r)
      <4>1. req[r].pc # "done" /\ (req'[r].pc = "done" => ~Waits(req[r].kind))
        BY <3>1, ChannelTypes DEF Trigger, StartRunQueue, WaitOrReturn, Finish, RequestState
      <4> QED
        BY <1>2, <4>1 DEF CallOK
    <3>2. CASE Await(r)
      BY <3>2, ChannelTypes DEF Await, RequestState
    <3>3. CASE ReceiveEmpty(r) \/ CancelWait(r)
      BY <1>2, <3>3 DEF ReceiveEmpty, CancelWait, CallOK
    <3> QED
      BY <1>6, <3>1, <3>2, <3>3
  <2>4. Told(r)' = Told(r)
    BY <2>1, <2>2, <2>3 DEF Told
  <2>5. r \in Forced' <=> r \in Forced
    BY <1>2, <2>1, <2>2 DEF Forced, CallOK
  <2> QED
    BY <1>1, <2>1, <2>4, <2>5
<1> QED
  BY <1>3, <1>4, <1>5, <1>6 DEF Client

\* A pass wants needs and runs commands.
LEMMA RunQueueRefines ==
    ASSUME QueueInv, NeedsInv, ChannelInv, OutcomeInv, RunQueue
    PROVE  Lifecycle!Next \/ UNCHANGED Lifecycle!vars
<1> USE DEF queueVars, recordVars, passVars, clientVars
<1>1. UNCHANGED <<req, doneChan>>
  BY RunQueueCalls
<1>2. Forced' = Forced /\ \A r \in Requests : Told(r)' = Told(r)
  BY <1>1, ForcedUnchanged, ToldUnchanged
<1>3. ASSUME UNCHANGED worker PROVE \A r \in Requests : OwnOutcome(r)' = OwnOutcome(r)
  BY <1>1, <1>3, OutcomeUnchanged
<1>4. CASE UNCHANGED <<queued, item, completed, worker>>
  <2>1. SamePhases(Commands)
    BY <1>4, PhaseFrame DEF SamePhases
  <2>2. SameCalls(Requests)
    BY <1>2, <1>3, <1>4 DEF SameCalls
  <2> QED
    BY <1>2, <1>4, <2>1, <2>2, Unseen
<1>5. ASSUME NEW d \in Commands, CheckNeed(d) PROVE Lifecycle!Next \/ UNCHANGED Lifecycle!vars
  <2>1. UNCHANGED <<worker, completed>>
    BY <1>5 DEF CheckNeed
  <2>2. CASE d \notin queued /\ ~NeedDone(d) /\ Enqueue(d, None)
    <3>1. /\ PhaseOf(d) \in {"none", "done", "failed"}
          /\ PhaseOf(d)' = "wanted" /\ HolderOf(d)' = None
          /\ SamePhases(Commands \ {d})
      BY <2>1, <2>2, EnqueueWants
    <3>2. PhaseOf(d) # "done"
      BY <2>2, DonePhase DEF NeedDone
    <3>3. None \notin Forced /\ Forced' = Forced \cup ({None} \ {None})
      BY <1>2, ClientsAssumption DEF Forced
    <3>4. \A r \in Requests \ {None} : OwnOutcome(r)' = OwnOutcome(r)
      BY <1>3, <2>1
    <3>5. None \in Requests \cup {None}
      OBVIOUS
    <3> QED
      BY <1>2, <2>1, <3>1, <3>2, <3>3, <3>4, <3>5, Wants
  <2>3. CASE UNCHANGED <<queued, item>>
    BY <1>4, <2>1, <2>3
  <2> QED
    BY <1>5, <2>2, <2>3 DEF CheckNeed
<1>6. ASSUME NEW w \in Workers, Launch(w) PROVE Lifecycle!Next
  <2>1. PICK c \in Commands : c = pass.cmd /\ c \in queued /\ item[c].runRequested
    BY <1>6, ClientsAssumption DEF Launch, QueueInv, PassInv
  <2>2. ~item[c].inFlight /\ ~item[c].err
    BY <2>1 DEF QueueInv, ItemInv, ItemOK, WaitsOK, FlagsOK
  <2>3. /\ UNCHANGED <<queued, completed>>
        /\ item'[c].inFlight /\ item'[c].chan = item[c].chan
        /\ \A d \in Commands \ {c} : item'[d] = item[d]
    BY <1>6, <2>1, ChannelTypes DEF Launch, AsRunning, Item
  <2>4. /\ worker[w].pc = "idle" /\ worker'[w].pc = "run"
        /\ \A v \in Workers \ {w} : worker'[v] = worker[v]
    BY <1>6, ChannelTypes DEF Launch
  <2>5. PhaseOf(c) = "wanted" /\ PhaseOf(c)' = "running" /\ HolderOf(c)' = HolderOf(c)
    BY <2>1, <2>2, <2>3 DEF PhaseOf, HolderOf
  <2>6. Needs[c] \subseteq completed
    BY <1>6, <2>1 DEF Launch, NeedsInv, HistoryInv
  <2>7. SamePhases(Commands \ {c})
    BY <2>3, PhaseFrame DEF SamePhases
  <2>8. SameCalls(Requests)
    <3>1. \A r \in Requests : OwnOutcome(r)' = OwnOutcome(r)
      BY <1>1, <2>4, OutcomeUnchanged
    <3> QED
      BY <1>2, <3>1 DEF SameCalls
  <2> QED
    BY <1>2, <2>3, <2>5, <2>6, <2>7, <2>8, Runs
<1>7. CASE StartPass \/ SkipCommand \/ EndPass \/ Notify \/ \E c \in Commands : PickCommand(c)
  BY <1>4, <1>7 DEF StartPass, SkipCommand, EndPass, Notify, PickCommand
<1> QED
  BY <1>5, <1>6, <1>7 DEF RunQueue

\* A goroutine that settles answers the call that waits for its item.
LEMMA SettleAnswers ==
    ASSUME QueueInv, ChannelInv, OutcomeInv, NEW w \in Workers, NEW c, NEW i,
           NEW pc \in {"exit", "backoff"}, NEW ok \in BOOLEAN,
           Settles(w, c, i, pc, ok),
           UNCHANGED <<queued, req>>, \A v \in Workers \ {w} : worker'[v] = worker[v]
    PROVE  Answered(c, IF ok THEN "ok" ELSE "failed")
<1>1. /\ c \in queued /\ item[c].chan = worker[w].chan
      /\ \A r \in Requests : item[c].chan = r =>
            /\ doneChan[r] = "open"
            /\ \A v \in Workers \ {w} : worker[v].pc # "idle" => worker[v].chan # r
  BY OwnChannel DEF Settles
<1>2. /\ worker'[w].pc = pc /\ worker'[w].ok = ok /\ worker'[w].chan = worker[w].chan
      /\ UNCHANGED doneChan /\ worker[w].pc \notin {"exit", "backoff"}
  BY DEF Settles, Busy
<1>3. HolderOf(c) = item[c].chan
  BY <1>1 DEF HolderOf
<1>4. \A r \in Requests : Told(r)' = Told(r)
  BY <1>2, ToldUnchanged
<1>5. ASSUME NEW r \in Requests, r # item[c].chan PROVE OwnOutcome(r)' = OwnOutcome(r)
  BY <1>1, <1>2, <1>5, OutcomeUnchanged
<1>6. ASSUME NEW r \in Requests, r = item[c].chan
      PROVE  OwnOutcome(r) = "pending" /\ OwnOutcome(r)' = IF ok THEN "ok" ELSE "failed"
  <2>1. Reported(r) = {}
    BY <1>1, <1>2, <1>6 DEF Reported
  <2>2. Reported(r)' = {w}
    BY <1>1, <1>2, <1>6 DEF Reported
  <2>3. doneChan[r] = "open" /\ doneChan'[r] = "open"
    BY <1>1, <1>2, <1>6
  <2>4. OwnOutcome(r) = "pending"
    BY <2>1, <2>3 DEF OwnOutcome
  <2>5. OwnOutcome(r)' = IF ok THEN "ok" ELSE "failed"
    BY <1>2, <2>2, <2>3 DEF OwnOutcome
  <2> QED
    BY <2>4, <2>5
<1> QED
  BY <1>3, <1>4, <1>5, <1>6 DEF Answered

\* A goroutine that ends tells the channel what the lifecycle knew.
LEMMA ExitUnseen ==
    ASSUME QueueInv, ChannelInv, CallInv, NEW w \in Workers, Exit(w)
    PROVE  UNCHANGED Lifecycle!vars
<1>1. /\ UNCHANGED <<queued, item, completed, req>>
      /\ worker[w].pc = "exit" /\ worker'[w].pc = "idle"
      /\ \A v \in Workers \ {w} : worker'[v] = worker[v]
      /\ \A r \in Requests \ {worker[w].chan} : doneChan'[r] = doneChan[r]
  BY ExitCloses
<1>2. SamePhases(Commands)
  BY <1>1, PhaseFrame DEF SamePhases
<1>3. Forced' = Forced
  BY <1>1, ForcedUnchanged
<1>4. ASSUME NEW r \in Requests, r # worker[w].chan
      PROVE  OwnOutcome(r)' = OwnOutcome(r) /\ Told(r)' = Told(r)
  <2>1. doneChan'[r] = doneChan[r]
    BY <1>1, <1>4
  <2>2. \A v \in Workers :
           /\ worker'[v].chan = r /\ worker'[v].pc \in {"exit", "backoff"}
                <=> worker[v].chan = r /\ worker[v].pc \in {"exit", "backoff"}
           /\ worker[v].chan = r /\ worker[v].pc \in {"exit", "backoff"}
                => worker'[v].ok = worker[v].ok
    BY <1>1, <1>4
  <2> QED
    BY <1>1, <2>1, <2>2, OutcomeUnchanged, ToldUnchanged
<1>5. ASSUME NEW r \in Requests, r = worker[w].chan
      PROVE  OwnOutcome(r)' = OwnOutcome(r) /\ Told(r)' = Told(r)
  <2>1. doneChan[r] = "open" /\ doneChan'[r] = IF worker[w].ok THEN "ok" ELSE "failed"
    BY <1>5, ExitCloses
  <2>2. Reported(r) = {w}
    BY <1>1, <1>5 DEF Reported, ChannelInv, WorkerHolds
  <2>3. OwnOutcome(r) = IF worker[w].ok THEN "ok" ELSE "failed"
    BY <2>1, <2>2 DEF OwnOutcome
  <2>4. OwnOutcome(r)' = IF worker[w].ok THEN "ok" ELSE "failed"
    BY <2>1 DEF OwnOutcome
  <2> QED
    BY <1>1, <2>1, <2>3, <2>4, ToldUnchanged
<1>6. SameCalls(Requests)
  BY <1>4, <1>5 DEF SameCalls
<1> QED
  BY <1>1, <1>2, <1>3, <1>6, Unseen

\* A goroutine settles its command or is not seen.
LEMMA GoroutineRefines ==
    ASSUME QueueInv, ChannelInv, CallInv, OutcomeInv, NEW w \in Workers, Goroutine(w)
    PROVE  Lifecycle!Next \/ UNCHANGED Lifecycle!vars
<1> PICK c : c = worker[w].cmd
  OBVIOUS
<1>1. /\ UNCHANGED <<queued, req>>
      /\ \A v \in Workers \ {w} : worker'[v] = worker[v]
      /\ Busy(w) => c \in Commands /\ c \in queued
  BY GoroutineSteps
<1>2. Forced' = Forced
  BY <1>1, ForcedUnchanged
<1>3. CASE Works(w) \/ Wakes(w)
  <2>1. /\ UNCHANGED <<item, doneChan, completed>>
        /\ worker'[w].ok = worker[w].ok /\ worker'[w].chan = worker[w].chan
        /\ worker'[w].pc \in {"exit", "backoff"} <=> worker[w].pc \in {"exit", "backoff"}
    BY <1>3 DEF Works, Wakes, Busy
  <2>2. SamePhases(Commands)
    BY <1>1, <2>1, PhaseFrame DEF SamePhases
  <2>3. \A r \in Requests : OwnOutcome(r)' = OwnOutcome(r) /\ Told(r)' = Told(r)
    BY <1>1, <2>1, OutcomeUnchanged, ToldUnchanged
  <2> QED
    BY <1>2, <2>1, <2>2, <2>3, Unseen DEF SameCalls
<1>4. CASE Exit(w)
  BY <1>4, ExitUnseen
<1>5. Busy(w) => /\ item[c] \in Item /\ item[c].inFlight /\ ~item[c].err
                 /\ ~item[c].runRequested
                 /\ worker[w].ok = FALSE
                 /\ Mode[c] = "restart" => item[c].chan = None
  <2>1. Busy(w) => c \in queued /\ item[c] \in Item /\ item[c].inFlight
                   /\ (Mode[c] = "restart" => item[c].chan = None)
    BY OwnChannel
  <2>2. worker[w].ok \in BOOLEAN
    BY ChannelTypes DEF WorkerState
  <2> QED
    BY <2>1, <2>2 DEF OutcomeInv, NotOkYet, QueueInv, ItemInv, ItemOK, WaitsOK, FlagsOK
<1>6. ASSUME NEW i \in Item, NEW pc \in {"exit", "backoff"}, NEW ok \in BOOLEAN,
             Settles(w, c, i, pc, ok), i.chan = item[c].chan,
             completed' \subseteq completed \cup {c}, completed \subseteq completed'
      PROVE  /\ c \in Commands /\ c \in queued
             /\ PhaseOf(c) = "running" /\ HolderOf(c)' = HolderOf(c)
             /\ SamePhases(Commands \ {c})
             /\ Answered(c, IF ok THEN "ok" ELSE "failed")
             /\ PhaseOf(c)' = CASE i.inFlight -> "running"
                                [] ~i.inFlight /\ i.err -> "failed"
                                [] ~i.inFlight /\ ~i.err /\ i.runRequested -> "wanted"
                                [] OTHER -> "done"
  <2>1. Busy(w) /\ item'[c] = i /\ \A d \in Commands \ {c} : item'[d] = item[d]
    BY <1>6 DEF Settles
  <2>2. c \in Commands /\ c \in queued
    BY <1>1, <2>1
  <2>3. PhaseOf(c) = "running" /\ HolderOf(c)' = HolderOf(c)
    BY <1>1, <1>5, <1>6, <2>1, <2>2 DEF PhaseOf, HolderOf
  <2>4. SamePhases(Commands \ {c})
    BY <1>1, <1>6, <2>1, PhaseFrame DEF SamePhases
  <2>5. Answered(c, IF ok THEN "ok" ELSE "failed")
    BY <1>1, <1>6, SettleAnswers
  <2>6. PhaseOf(c)' = CASE i.inFlight -> "running"
                        [] ~i.inFlight /\ i.err -> "failed"
                        [] ~i.inFlight /\ ~i.err /\ i.runRequested -> "wanted"
                        [] OTHER -> "done"
    BY <1>1, <2>1, <2>2 DEF PhaseOf
  <2> QED
    BY <2>2, <2>3, <2>4, <2>5, <2>6
<1>7. CASE Settles(w, c, AsError(item[c]), "exit", worker[w].ok) /\ UNCHANGED completed
  <2>1. PICK i : i = AsError(item[c])
    OBVIOUS
  <2>2. Busy(w)
    BY <1>7 DEF Settles
  <2>3. i \in Item /\ i.chan = item[c].chan /\ i.err /\ ~i.inFlight
    BY <1>5, <2>1, <2>2, ItemType, Marks
  <2>4. Settles(w, c, i, "exit", FALSE)
    BY <1>5, <1>7, <2>1, <2>2
  <2>5. /\ c \in Commands /\ PhaseOf(c) = "running" /\ HolderOf(c)' = HolderOf(c)
        /\ SamePhases(Commands \ {c}) /\ Answered(c, "failed") /\ PhaseOf(c)' = "failed"
    BY <1>6, <1>7, <2>3, <2>4
  <2> QED
    BY <1>2, <1>7, <2>5, SettlesWell
<1>8. CASE /\ Settles(w, c, AsDone(item[c]), "exit", TRUE)
           /\ completed' = completed \cup {c} /\ Mode[c] \in {"always", "once"}
  <2>1. PICK i : i = AsDone(item[c])
    OBVIOUS
  <2>2. Busy(w)
    BY <1>8 DEF Settles
  <2>3. i \in Item /\ i.chan = item[c].chan /\ ~i.err /\ ~i.inFlight /\ ~i.runRequested
    BY <1>5, <2>1, <2>2, ItemType, Marks
  <2>4. Settles(w, c, i, "exit", TRUE)
    BY <1>8, <2>1
  <2>5. /\ c \in Commands /\ PhaseOf(c) = "running" /\ HolderOf(c)' = HolderOf(c)
        /\ SamePhases(Commands \ {c}) /\ Answered(c, "ok") /\ PhaseOf(c)' = "done"
    BY <1>6, <1>8, <2>3, <2>4
  <2> QED
    BY <1>2, <1>8, <2>5, SettlesWell
<1>9. CASE /\ Settles(w, c, item[c], "exit", TRUE)
           /\ UNCHANGED completed /\ Mode[c] = "persistent"
  <2>1. PICK i : i = item[c]
    OBVIOUS
  <2>2. Busy(w)
    BY <1>9 DEF Settles
  <2>3. i \in Item /\ i.chan = item[c].chan /\ i.inFlight
    BY <1>5, <2>1, <2>2
  <2>4. Settles(w, c, i, "exit", TRUE)
    BY <1>9, <2>1
  <2>5. /\ c \in Commands /\ PhaseOf(c) = "running" /\ HolderOf(c)' = HolderOf(c)
        /\ SamePhases(Commands \ {c}) /\ Answered(c, "ok") /\ PhaseOf(c)' = "running"
    BY <1>6, <1>9, <2>3, <2>4
  <2> QED
    BY <1>2, <1>9, <2>5, SettlesWell
<1>10. CASE /\ \E ok \in BOOLEAN : Settles(w, c, AsWaiting(item[c]), "backoff", ok)
            /\ UNCHANGED completed /\ Mode[c] = "restart"
  <2>1. PICK i : i = AsWaiting(item[c])
    OBVIOUS
  <2>2. PICK ok \in BOOLEAN : Settles(w, c, i, "backoff", ok)
    BY <1>10, <2>1
  <2>3. Busy(w)
    BY <2>2 DEF Settles
  <2>4. i \in Item /\ i.chan = item[c].chan /\ ~i.err /\ ~i.inFlight /\ i.runRequested
    BY <1>5, <2>1, <2>3, ItemType, Marks
  <2>5. /\ c \in Commands /\ c \in queued /\ PhaseOf(c) = "running" /\ HolderOf(c)' = HolderOf(c)
        /\ SamePhases(Commands \ {c}) /\ PhaseOf(c)' = "wanted"
        /\ Answered(c, IF ok THEN "ok" ELSE "failed")
    BY <1>6, <1>10, <2>2, <2>4
  <2>6. Answered(c, "ok")
    <3>1. HolderOf(c) = None
      BY <1>5, <1>10, <2>3, <2>5 DEF HolderOf
    <3> QED
      BY <2>5, <3>1, ClientsAssumption DEF Answered
  <2> QED
    BY <1>2, <1>10, <2>5, <2>6, SettlesWell
<1> QED
  BY <1>3, <1>4, <1>7, <1>8, <1>9, <1>10, GoroutineSteps

\* The invariant under which every step maps: the proofs before, and the
\* outcomes of calls.
LifecycleInv == QueueInv /\ NeedsInv /\ ChannelInv /\ CallInv /\ OutcomeInv

\* It holds at the start of a session and every step keeps it.
LEMMA LifecycleInvInductive ==
    ASSUME NoRestartWait
    PROVE  (Init => LifecycleInv) /\ (LifecycleInv /\ [Next]_vars => LifecycleInv')
<1>1. ASSUME Init PROVE CallInv /\ OutcomeInv
  <2>1. CallInv
    BY <1>1 DEF Init, NoCall, CallInv, CallOK
  <2>2. EarlierDone
    <3>1. record.procs = [p \in Procedures |-> IF CommandOf[p] \in completed
                                               THEN "done" ELSE "unset"]
      BY <1>1, RecordType DEF Init, ProcedureStatuses
    <3>2. ASSUME NEW c \in Commands, c \in completed
          PROVE  ProceduresOf[c] # {} /\ \A p \in ProceduresOf[c] : record.procs[p] = "done"
      <4>1. ProceduresOf[c] # {}
        BY <1>1, <3>2 DEF Init
      <4>2. \A p \in ProceduresOf[c] : p \in Procedures /\ CommandOf[p] = c
        BY <3>2 DEF ProceduresOf
      <4> QED
        BY <3>1, <3>2, <4>1, <4>2
    <3> QED
      BY <3>2 DEF EarlierDone
  <2>3. NotOkYet /\ ItemOutcome /\ WorkerOutcome
    BY <1>1 DEF Init, NotOkYet, ItemOutcome, WorkerOutcome, IdleWorker, Busy
  <2> QED
    BY <2>1, <2>2, <2>3 DEF OutcomeInv
<1>2. ASSUME LifecycleInv, [Next]_vars PROVE CallInv' /\ OutcomeInv'
  <2>1. CallInv'
    BY <1>2, CallStep DEF LifecycleInv
  <2>2. OutcomeInv'
    <3>1. CASE Start \/ UNCHANGED vars
      <4>1. UNCHANGED <<queued, item, record, completed, worker, doneChan, req>>
        BY <3>1 DEF Start, vars, queueVars, recordVars, passVars, clientVars
      <4> QED
        BY <1>2, <4>1, OutcomeFrame DEF LifecycleInv
    <3> QED
      BY <1>2, <3>1, ClientOutcome, RunQueueOutcome, GoroutineOutcome DEF LifecycleInv, Next
  <2> QED
    BY <2>1, <2>2
<1> QED
  BY <1>1, <1>2, QueueInvInductive, NeedsInvInductive, ChannelInvInductive DEF LifecycleInv

\* A session begins as a lifecycle does.
LEMMA InitRefines ==
    ASSUME Init
    PROVE  Lifecycle!Init
<1>1. \A c \in Commands : PhaseOf(c) = IF c \in completed THEN "done" ELSE "none"
  BY DEF Init, PhaseOf
<1>2. \A r \in Requests : OwnOutcome(r) = "none" /\ Told(r) = "none"
  BY DEF Init, NoCall, OwnOutcome, Told
<1>3. Forced = {}
  BY DEF Init, NoCall, Forced
<1>4. completed \in SUBSET {c \in Commands : Mode[c] = "once"} /\ queued = {}
  BY DEF Init
<1> QED
  BY <1>1, <1>2, <1>3, <1>4 DEF Lifecycle!Init

\* The command queue implements the lifecycle of commands and calls: every
\* behaviour of passes, triggers, goroutines, channels and calls is, seen
\* from the commands and the callers, one in which a command is wanted, run
\* after its needs and over, a run-once command that is done runs again only
\* by force, and a caller is told the outcome of the run it asked for.
THEOREM LifecycleImplemented ==
    ASSUME NoRestartWait
    PROVE  Spec => ImplementsLifecycle
<1>1. Init => Lifecycle!Init
  BY InitRefines
<1>2. ASSUME LifecycleInv, [Next]_vars PROVE [Lifecycle!Next]_(Lifecycle!vars)
  <2>1. CASE Start \/ UNCHANGED vars
    <3>1. UNCHANGED <<queued, item, completed, worker, doneChan, req>>
      BY <2>1 DEF Start, vars, queueVars, recordVars, passVars, clientVars
    <3>2. SamePhases(Commands)
      BY <3>1, PhaseFrame DEF SamePhases
    <3>3. SameCalls(Requests) /\ Forced' = Forced
      BY <3>1, OutcomeUnchanged, ToldUnchanged, ForcedUnchanged DEF SameCalls
    <3> QED
      BY <3>1, <3>2, <3>3, Unseen
  <2> QED
    BY <1>2, <2>1, ClientRefines, RunQueueRefines, GoroutineRefines DEF LifecycleInv, Next
<1> QED
  BY <1>1, <1>2, LifecycleInvInductive, PTL DEF Spec, ImplementsLifecycle, Lifecycle!Spec
=============================================================================
