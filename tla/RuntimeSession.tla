---------------------------- MODULE RuntimeSession ----------------------------
(***************************************************************************)
(* One RuntimeSession with its lifecycle: the queue of RuntimeQueue, and   *)
(* the operations that work around it (runtime_session_commands.go,        *)
(* runtime_session_runtime.go): Run, StopRuntime, StartScroll, and after a *)
(* crash of the daemon Supervisor.Start with Hydrate.                      *)
(*                                                                         *)
(* Lifecycle operations (stop, start, hydrate) come one at a time here;    *)
(* they interleave with clients, passes and goroutines at every critical   *)
(* section.  A crash loses everything but the store.                       *)
(***************************************************************************)
EXTENDS RuntimeQueue

CONSTANTS
    Serve,          \* the serve command of the scroll file, or None
    RunCalls,       \* the commands clients may call Run on
    MaxOperations,  \* bound on calls of StopRuntime and StartScroll
    MaxCrashes,     \* bound on crashes of the daemon
    DrainTimesOut   \* whether a run may outlast the 5 s of drainQueueWork

ASSUME SessionAssumption ==
    /\ Serve \in Commands \cup {None}
    /\ RunCalls \subseteq Commands
    /\ MaxOperations \in Nat
    /\ MaxCrashes \in Nat
    /\ DrainTimesOut \in BOOLEAN

VARIABLES
    live,        \* the supervisor has a session for the scroll
    life,        \* the progress of the lifecycle operation
    run,         \* the progress of each Run call, which also owns req[r]
    quiet,       \* history: nothing was queued since StopRuntime stored "stopped"
    late,        \* history: a trigger overtook a stop (Overtakes)
    operations,  \* history: lifecycle operations so far
    crashes      \* history: crashes so far

sessionVars == <<live, life, run, quiet, late, operations, crashes>>
allVars == <<vars, sessionVars>>
-----------------------------------------------------------------------------
LifeState ==
    [pc : {"none", "drain", "reset", "backend", "store", "resume", "markError",
           "boot", "hydrate", "remember", "mark", "serve", "serveTrigger", "finish"},
     boot : BOOLEAN,             \* Hydrate rather than StartScroll
     was : BOOLEAN,              \* StopRuntime found the session started
     todo : SUBSET Commands,     \* commands to hydrate or needs to remember
     done : SUBSET Commands,     \* finite commands Hydrate's snapshot says are done
     need : Commands \cup {None}]

NoLife == [pc |-> "none", boot |-> FALSE, was |-> FALSE, todo |-> {}, done |-> {},
           need |-> None]

NoRecord == [procs |-> [p \in Procedures |-> "unset"], status |-> "created"]

RunState ==
    [pc : {"idle", "refresh", "remember", "mark", "queue", "wait", "final", "error", "done"},
     cmd : Commands \cup {None}, fresh : Record,
     todo : SUBSET Commands, need : Commands \cup {None}]

NoRun == [pc |-> "idle", cmd |-> None, fresh |-> NoRecord, todo |-> {}, need |-> None]

\* The needs of c, their needs, and so on: the least set closed under Needs.
AllNeeds(c) ==
    {d \in Commands : \A S \in SUBSET Commands :
        Needs[c] \subseteq S /\ (\A x \in S : Needs[x] \subseteq S) => d \in S}

Finite(c) == Mode[c] \in {"always", "once"}

\* Whatever is queued ends the quiet after a stop.
StillQuiet == quiet' = (quiet /\ queued' = {})

\* RememberDoneItem clears the flags of whatever item the queue has.
RememberDoneItem(d) ==
    /\ queued' = queued \cup {d}
    /\ item' = [item EXCEPT ![d].rememberDone = TRUE, ![d].inFlight = FALSE,
                            ![d].err = FALSE]

\* markError: the scroll status is set, the procedure statuses are kept.
MarkError ==
    /\ record' = [record EXCEPT !.status = "error"]
    /\ stored' = record'

\* The derived status is persisted.
PersistDerived == Persist(record.procs)
-----------------------------------------------------------------------------
(* The queue inside the session                                            *)

\* Clients reach a session only through the supervisor's map, and the
\* daemon listens only after Supervisor.Start has hydrated all sessions.
Reachable == live /\ ~life.boot

\* A client that read started before StopRuntime cleared it starts its pass
\* between the end of the drain, which did not count it, and the reset.
Overtakes == life.pc = "reset" /\ \E r \in Requests : StartRunQueue(r)

ClientStep ==
    /\ \/ \E r \in Requests :
             /\ Reachable /\ run[r].pc = "idle"
             /\ AddQueueItem(r) \/ RegisterNotifier(r)
       \/ \E r \in Requests :
             \/ Trigger(r) \/ StartRunQueue(r) \/ Await(r) \/ ReadResult(r)
             \/ ReceiveEmpty(r) \/ CancelWait(r)
    /\ StillQuiet
    /\ late' = (late \/ Overtakes)
    /\ UNCHANGED <<live, life, run, operations, crashes>>

\* A waiting caller whose notifier was dropped can only be cancelled.
CancelDropped(r) ==
    /\ req[r].pc = "dropped"
    /\ Finish(r, "canceled")
    /\ UNCHANGED <<queueVars, recordVars, started, passVars, worker, doneChan, woken,
                   sessionVars>>

QueueStep ==
    /\ RunQueue \/ \E w \in Workers : Goroutine(w)
    /\ StillQuiet
    /\ UNCHANGED <<live, life, run, late, operations, crashes>>

\* sessionFor: the first call creates the session from the stored record
\* and starts it.
StartSession ==
    /\ ~live
    /\ life.pc = "none"
    /\ Start
    /\ live' = TRUE
    /\ UNCHANGED <<life, run, quiet, late, operations, crashes>>
-----------------------------------------------------------------------------
(* Run: refresh, remember done needs, add, wait for an empty queue         *)

\* refreshCommandState reads the store without a lock.
RunBegin(r, c) ==
    /\ Reachable
    /\ c \in RunCalls
    /\ run[r].pc = "idle" /\ req[r].pc = "idle"
    /\ run' = [run EXCEPT ![r] = [NoRun EXCEPT !.pc = "refresh", !.cmd = c, !.fresh = stored]]
    /\ UNCHANGED <<vars, live, life, quiet, late, operations, crashes>>

\* What it read replaces the statuses in memory, whatever they are by now.
RunRefresh(r) ==
    /\ run[r].pc = "refresh"
    /\ record' = run[r].fresh
    /\ run' = [run EXCEPT ![r].pc = "remember", ![r].fresh = NoRecord,
                          ![r].todo = AllNeeds(run[r].cmd)]
    /\ UNCHANGED <<queueVars, stored, started, passVars, worker, clientVars,
                   live, life, quiet, late, operations, crashes>>

\* rememberDoneDependencies looks at a need under mu ...
RunPeek(r, d) ==
    /\ run[r].pc = "remember"
    /\ d \in run[r].todo
    /\ run' = [run EXCEPT ![r].todo = @ \ {d},
                          ![r].need = IF DerivedStatus(d) = "done" THEN d ELSE None,
                          ![r].pc = IF DerivedStatus(d) = "done" THEN "mark" ELSE @]
    /\ UNCHANGED <<vars, live, life, quiet, late, operations, crashes>>

\* ... and marks its item under queueMu.
RunMark(r) ==
    /\ run[r].pc = "mark"
    /\ RememberDoneItem(run[r].need)
    /\ run' = [run EXCEPT ![r].pc = "remember", ![r].need = None]
    /\ StillQuiet
    /\ UNCHANGED <<completed, recordVars, started, passVars, worker, clientVars,
                   live, life, late, operations, crashes>>

\* AddTempItem; a refusal is an error of the call.
RunAdd(r) ==
    /\ run[r].pc = "remember"
    /\ run[r].todo = {}
    /\ \/ Accept(r, run[r].cmd, "temp") /\ run' = [run EXCEPT ![r].pc = "queue"]
       \/ Refuse(r, run[r].cmd, "temp") /\ run' = [run EXCEPT ![r].pc = "error"]
    /\ StillQuiet
    /\ UNCHANGED <<completed, started, passVars, worker, woken, live, life,
                   late, operations, crashes>>

\* A long-running command is not waited for.
RunWait(r) ==
    /\ run[r].pc = "queue"
    /\ req[r].pc = "done"
    /\ IF Finite(run[r].cmd)
       THEN WaitUntilEmpty(r) /\ run' = [run EXCEPT ![r].pc = "wait"]
       ELSE UNCHANGED vars /\ run' = [run EXCEPT ![r].pc = "final"]
    /\ UNCHANGED <<live, life, quiet, late, operations, crashes>>

RunReturn(r) ==
    /\ run[r].pc = "wait"
    /\ req[r].pc = "done"
    /\ run' = [run EXCEPT ![r].pc = IF req[r].result = "ok" THEN "final" ELSE "error"]
    /\ UNCHANGED <<vars, live, life, quiet, late, operations, crashes>>

RunFinal(r) ==
    /\ run[r].pc \in {"final", "error"}
    /\ IF run[r].pc = "final" THEN PersistDerived ELSE MarkError
    /\ run' = [run EXCEPT ![r].pc = "done"]
    /\ UNCHANGED <<queueVars, started, passVars, worker, clientVars,
                   live, life, quiet, late, operations, crashes>>

RunCommandCall(r) ==
    \/ \E c \in Commands : RunBegin(r, c) \/ RunPeek(r, c)
    \/ RunRefresh(r) \/ RunMark(r) \/ RunAdd(r) \/ RunWait(r) \/ RunReturn(r) \/ RunFinal(r)
-----------------------------------------------------------------------------
(* StopRuntime                                                             *)

\* The session stops scheduling, if it did.
StopBegin ==
    /\ Reachable
    /\ life.pc = "none"
    /\ operations < MaxOperations
    /\ life' = [NoLife EXCEPT !.pc = IF started THEN "drain" ELSE "reset", !.was = started]
    /\ started' = FALSE
    /\ operations' = operations + 1
    /\ UNCHANGED <<queueVars, recordVars, passVars, worker, clientVars,
                   live, run, quiet, late, crashes>>

\* The wait group counts the passes, their notifications and the goroutines.
NoQueueWork ==
    /\ pending = 0 /\ pass.pc = "idle" /\ notifying = 0
    /\ \A w \in Workers : worker[w].pc = "idle"

\* Mutant: the stop does not wait for the queue's work.
StopDrained_AtOnce ==
    /\ life.pc = "drain"
    /\ life' = [life EXCEPT !.pc = "reset"]
    /\ UNCHANGED <<vars, live, run, quiet, late, operations, crashes>>

StopDrained ==
    /\ life.pc = "drain"
    /\ NoQueueWork \/ DrainTimesOut
    /\ life' = [life EXCEPT !.pc = "reset"]
    /\ UNCHANGED <<vars, live, run, quiet, late, operations, crashes>>

\* resetQueueState: items and notifiers are dropped, whoever waits on them
\* (a notifier that already holds an empty list still delivers it).
StopReset ==
    /\ life.pc = "reset"
    /\ queued' = {}
    /\ item' = [c \in Commands |-> Blank]
    /\ req' = [r \in Requests |-> IF req[r].pc = "empty" /\ r \notin woken
                                  THEN [req[r] EXCEPT !.pc = "dropped"] ELSE req[r]]
    /\ life' = [life EXCEPT !.pc = "backend"]
    /\ UNCHANGED <<completed, recordVars, started, passVars, worker, doneChan, woken,
                   live, run, quiet, late, operations, crashes>>

\* The backend removes the containers; runs that are still under way fail.
StopBackend ==
    /\ life.pc = "backend"
    /\ life' = [life EXCEPT !.pc = "store"]
    /\ UNCHANGED <<vars, live, run, quiet, late, operations, crashes>>

\* It may fail: the session goes on, and Stop marks the scroll.
StopBackendFails ==
    /\ life.pc = "backend"
    /\ started' = life.was
    /\ pending' = IF life.was THEN OneMorePass ELSE pending
    /\ life' = [life EXCEPT !.pc = "markError"]
    /\ UNCHANGED <<queueVars, recordVars, pass, notifying, worker, clientVars,
                   live, run, quiet, late, operations, crashes>>

StopMarkError ==
    /\ life.pc = "markError"
    /\ MarkError
    /\ life' = NoLife
    /\ quiet' = FALSE
    /\ UNCHANGED <<queueVars, started, passVars, worker, clientVars,
                   live, run, late, operations, crashes>>

\* Only run-once commands that are done keep their statuses.
KeptByStop(p) == Mode[CommandOf[p]] = "once" /\ DerivedStatus(CommandOf[p]) = "done"

StopStore ==
    /\ life.pc = "store"
    /\ record' = [procs |-> [p \in Procedures |-> IF KeptByStop(p) THEN "done" ELSE "unset"],
                  status |-> "stopped"]
    /\ stored' = record'
    /\ life' = IF life.was THEN [life EXCEPT !.pc = "resume"] ELSE NoLife
    /\ quiet' = (queued = {})
    /\ UNCHANGED <<queueVars, started, passVars, worker, clientVars,
                   live, run, late, operations, crashes>>

\* Mutant: nobody is triggered.
Resume_NoTrigger ==
    /\ life.pc = "resume"
    /\ started' = TRUE
    /\ life' = NoLife
    /\ UNCHANGED <<queueVars, recordVars, passVars, worker, clientVars,
                   live, run, quiet, late, operations, crashes>>

\* The session schedules again (StopRuntime), or is triggered once more
\* (Hydrate).
Resume ==
    /\ life.pc = "resume"
    /\ started' = TRUE
    /\ pending' = OneMorePass
    /\ life' = NoLife
    /\ UNCHANGED <<queueVars, recordVars, pass, notifying, worker, clientVars,
                   live, run, quiet, late, operations, crashes>>

StopRuntime ==
    \/ StopBegin \/ StopDrained \/ StopReset \/ StopBackend
    \/ StopBackendFails \/ StopMarkError \/ StopStore \/ Resume
-----------------------------------------------------------------------------
(* StartScroll and Hydrate: the serve command is queued                    *)

\* AutoStartServe begins: what its needs have done is remembered first.
AutoStart(l) ==
    IF Serve = None THEN [l EXCEPT !.pc = "finish"]
                    ELSE [l EXCEPT !.pc = "remember", !.todo = AllNeeds(Serve)]

StartScroll ==
    /\ Reachable
    /\ life.pc = "none"
    /\ operations < MaxOperations
    /\ life' = AutoStart(NoLife)
    /\ operations' = operations + 1
    /\ UNCHANGED <<vars, live, run, quiet, late, crashes>>

StartPeek(d) ==
    /\ life.pc = "remember"
    /\ d \in life.todo
    /\ life' = [life EXCEPT !.todo = @ \ {d},
                            !.need = IF DerivedStatus(d) = "done" THEN d ELSE None,
                            !.pc = IF DerivedStatus(d) = "done" THEN "mark" ELSE @]
    /\ UNCHANGED <<vars, live, run, quiet, late, operations, crashes>>

StartMark ==
    /\ life.pc = "mark"
    /\ RememberDoneItem(life.need)
    /\ life' = [life EXCEPT !.pc = "remember", !.need = None]
    /\ StillQuiet
    /\ UNCHANGED <<completed, recordVars, started, passVars, worker, clientVars,
                   live, run, late, operations, crashes>>

\* A persistent serve command that still runs, or is done, is left alone.
ServeRuns ==
    /\ Mode[Serve] = "persistent"
    /\ DerivedStatus(Serve) \in {"done", "running"}
    /\ record.status = "running"

StartCheck ==
    /\ life.pc = "remember"
    /\ life.todo = {}
    /\ life' = [life EXCEPT !.pc = IF ServeRuns THEN "finish" ELSE "serve"]
    /\ UNCHANGED <<vars, live, run, quiet, late, operations, crashes>>

\* AddForcedItem; ErrAlreadyInQueue is not an error here.
StartServe ==
    /\ life.pc = "serve"
    /\ IF AlreadyQueued(Serve)
       THEN /\ life' = [life EXCEPT !.pc = "finish"]
            /\ UNCHANGED <<queued, item, recordVars>>
       ELSE /\ life' = [life EXCEPT !.pc = "serveTrigger"]
            /\ Enqueue(Serve, None)
    /\ StillQuiet
    /\ UNCHANGED <<completed, started, passVars, worker, clientVars,
                   live, run, late, operations, crashes>>

StartTrigger ==
    /\ life.pc = "serveTrigger"
    /\ TriggerRunQueue
    /\ life' = [life EXCEPT !.pc = "finish"]
    /\ UNCHANGED <<queueVars, recordVars, started, pass, notifying, worker, clientVars,
                   live, run, quiet, late, operations, crashes>>

\* The derived status is stored; StartScroll turns "created" into "running".
StartFinish ==
    /\ life.pc = "finish"
    /\ record' = LET derived == RecordOf(record.procs) IN
                 IF ~life.boot /\ derived.status = "created"
                 THEN [derived EXCEPT !.status = "running"] ELSE derived
    /\ stored' = record'
    /\ life' = IF life.boot THEN [life EXCEPT !.pc = "resume"] ELSE NoLife
    /\ UNCHANGED <<queueVars, started, passVars, worker, clientVars,
                   live, run, quiet, late, operations, crashes>>

\* The daemon dies: its memory, its goroutines and its calls are gone.
Crash ==
    /\ crashes < MaxCrashes
    /\ crashes' = crashes + 1
    /\ queued' = {}
    /\ item' = [c \in Commands |-> Blank]
    /\ record' = stored
    /\ started' = FALSE
    /\ pending' = 0 /\ pass' = NoPass /\ notifying' = 0
    /\ worker' = [w \in Workers |-> IdleWorker]
    /\ req' = [r \in Requests |-> IF req[r].pc \in {"idle", "done"} THEN req[r]
                                  ELSE [req[r] EXCEPT !.pc = "done", !.result = "canceled"]]
    /\ doneChan' = [r \in Requests |-> IF doneChan[r] = "open" THEN "none" ELSE doneChan[r]]
    /\ woken' = {}
    /\ run' = [r \in Requests |-> IF run[r].pc = "idle" THEN run[r]
                                  ELSE [NoRun EXCEPT !.pc = "done"]]
    /\ live' = FALSE
    /\ life' = [NoLife EXCEPT !.pc = "boot", !.boot = TRUE]
    /\ completed' = completed \cup {c \in Commands : StoredStatus(c) = "done"}
    /\ UNCHANGED <<stored, quiet, late, operations>>

\* The commands Hydrate puts into the queue: those with a status, except
\* persistent ones that run (the backend keeps them alive).
ToHydrate ==
    {c \in Commands : /\ DerivedStatus(c) # "none"
                      /\ ~(Mode[c] = "persistent" /\ DerivedStatus(c) = "running")}

\* Supervisor.Start resumes a scroll that is stored as running: its session
\* starts at once, Hydrate works on a snapshot of the statuses.
Boot ==
    /\ life.pc = "boot"
    /\ IF stored.status = "running"
       THEN /\ live' = TRUE
            /\ started' = TRUE
            /\ pending' = OneMorePass
            /\ life' = [life EXCEPT !.pc = "hydrate", !.todo = ToHydrate,
                                    !.done = {c \in ToHydrate :
                                                 Finite(c) /\ DerivedStatus(c) = "done"}]
       ELSE life' = NoLife /\ UNCHANGED <<live, started, pending>>
    /\ UNCHANGED <<queueVars, recordVars, pass, notifying, worker, clientVars,
                   run, quiet, late, operations, crashes>>

\* Mutants: a command that is done is requested again; one that is not is
\* not requested.
Hydrated_NotRequested(c) ==
    IF c \in life.done THEN [Blank EXCEPT !.rememberDone = TRUE]
    ELSE [item[c] EXCEPT !.err = FALSE, !.rememberDone = FALSE]
Hydrated_AllRequested(c) ==
    [item[c] EXCEPT !.err = FALSE, !.rememberDone = FALSE, !.runRequested = TRUE]

\* The item HydrateFromState leaves: done, or requested to run.
Hydrated(c) ==
    IF c \in life.done THEN [Blank EXCEPT !.rememberDone = TRUE]
    ELSE [item[c] EXCEPT !.err = FALSE, !.rememberDone = FALSE, !.runRequested = TRUE]

HydrateItem(c) ==
    /\ life.pc = "hydrate"
    /\ c \in life.todo
    /\ queued' = queued \cup {c}
    /\ item' = [item EXCEPT ![c] = Hydrated(c)]
    /\ life' = [life EXCEPT !.todo = @ \ {c}]
    /\ StillQuiet
    /\ UNCHANGED <<completed, recordVars, started, passVars, worker, clientVars,
                   live, run, late, operations, crashes>>

HydrateDone ==
    /\ life.pc = "hydrate"
    /\ life.todo = {}
    /\ life' = AutoStart([life EXCEPT !.done = {}])
    /\ UNCHANGED <<vars, live, run, quiet, late, operations, crashes>>

StartOrHydrate ==
    \/ StartScroll \/ StartMark \/ StartCheck \/ StartServe \/ StartTrigger \/ StartFinish
    \/ Boot \/ HydrateDone
    \/ \E c \in Commands : StartPeek(c) \/ HydrateItem(c)
-----------------------------------------------------------------------------
SessionInit ==
    /\ Init
    /\ live = FALSE
    /\ life = NoLife
    /\ run = [r \in Requests |-> NoRun]
    /\ quiet = FALSE
    /\ late = FALSE
    /\ operations = 0
    /\ crashes = 0

SessionNext ==
    /\ Alive
    /\ \/ ClientStep \/ QueueStep \/ StartSession
       \/ \E r \in Requests : RunCommandCall(r) \/ CancelDropped(r)
       \/ StopRuntime \/ StartOrHydrate
       \/ Crash

SessionSpec == SessionInit /\ [][SessionNext]_allVars
-----------------------------------------------------------------------------
(* Properties                                                              *)

SessionTypeOK ==
    /\ TypeOK
    /\ live \in BOOLEAN
    /\ life \in LifeState
    /\ run \in [Requests -> RunState]
    /\ quiet \in BOOLEAN
    /\ late \in BOOLEAN
    /\ operations \in 0..MaxOperations
    /\ crashes \in 0..MaxCrashes

\* NoLostWakeup across stops, starts and crashes: whatever could start is
\* accounted for by the queue, by the lifecycle operation under way, which
\* triggers a pass at its end, or by a goroutine that is about to report what
\* was remembered ahead of it.
WakeupSurvives ==
    \/ NoLostWakeup
    \/ life.boot \/ life.pc \in {"resume", "serveTrigger"}
    \/ \E w \in Workers : Succeeded(w)

\* After StopRuntime nothing runs and the store says the scroll is stopped,
\* until something is queued again.  Not so once a trigger overtook a stop:
\* its pass may launch a command that nobody drains and that reports over
\* the stopped record.
StoppedStays ==
    quiet /\ ~late =>
        /\ stored.status = "stopped"
        /\ \A p \in Procedures : stored.procs[p] \in {"unset", "done"}
        /\ \A w \in Workers : ~Busy(w)

\* A run-once command runs only once: it is not started when it completed
\* before or is being run, not by another call, not after a stop, not after a
\* crash.  (For scrolls where nobody forces it; a failed run may be repeated,
\* and so may one that a trigger launched as it overtook a stop: the reset
\* drops its item.)
OnceRunsOnce ==
    [][\A w \in Workers :
         LET c == worker'[w].cmd IN
         ~late /\ worker[w].pc = "idle" /\ worker'[w].pc = "run" /\ Mode[c] = "once" =>
             c \notin completed /\ \A v \in Workers : Busy(v) => worker[v].cmd # c]_allVars
-----------------------------------------------------------------------------
(* Liveness                                                                *)

\* As in RuntimeQueue; operations that have begun go on, and so does a boot.
SessionFairness ==
    /\ WF_allVars(Alive /\ StartSession)
    /\ WF_allVars(Alive /\ RunQueue /\ QueueStep)
    /\ WF_allVars(Alive /\ Notify /\ QueueStep)
    /\ \A w \in Workers : WF_allVars(Alive /\ Goroutine(w) /\ QueueStep)
    /\ \A r \in Requests :
          WF_allVars(/\ Alive /\ ClientStep
                     /\ \/ Trigger(r) \/ StartRunQueue(r) \/ Await(r)
                        \/ ReadResult(r) \/ ReceiveEmpty(r))
    /\ \A r \in Requests : WF_allVars(Alive /\ run[r].pc # "idle" /\ RunCommandCall(r))
    /\ WF_allVars(Alive /\ life.pc # "none" /\ (StopRuntime \/ StartOrHydrate))

FairSessionSpec == SessionSpec /\ SessionFairness

\* What Hydrate puts back into the queue is settled in the end, unless the
\* daemon crashes again, a stop drops it from the queue (whether the backend
\* then stops or not) or the command is stuck.
HydratedSettles ==
    \A c \in Commands :
        life.pc = "hydrate" /\ c \in life.todo /\ Finite(c) ~>
            \/ c \in queued /\ ScheduledStatus(c) \in {"done", "error"}
            \/ Stuck(c)
            \/ life.pc \in {"boot", "reset"}

\* A Run call returns, unless it waits for an empty queue that holds a
\* command that never settles, or StopRuntime dropped its notifier.
RunReturns ==
    \A r \in Requests :
        run[r].pc = "refresh" ~>
            \/ run[r].pc = "done" \/ req[r].pc = "dropped"
            \/ \E c \in queued : ~Finite(c) \/ Stuck(c)
=============================================================================
