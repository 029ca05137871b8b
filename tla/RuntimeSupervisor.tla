--------------------------- MODULE RuntimeSupervisor ---------------------------
(***************************************************************************)
(* The supervisor and one scroll: the record in the store, the root the    *)
(* workers fill, the sessions, of which the supervisor's map holds at most *)
(* one, and the operations of the API (create, ensure, update, delete,     *)
(* stop, start, restore, run, publish), each a procedure of several steps  *)
(* without a lock over them.  A session's queue is reduced to what waits   *)
(* and what runs (RuntimeQueue has the details) for the serve command and  *)
(* the commands that publish UI packages.                                  *)
(***************************************************************************)
EXTENDS WorkerCallbacks, CommandStatus

CONSTANTS
    Sessions,      \* a pool of sessions
    Kinds,         \* the operations clients use
    DeclaresUI,    \* the versions whose scroll file declares a private UI
    MergesUI,      \* UpdateScroll keeps published packages (Kubernetes) or not
    MaxConcurrent, \* bound on operations under way at the same time
    MaxCrashes,    \* bound on crashes of the daemon
    DrainTimesOut  \* whether a run may outlast the 5 s of drainQueueWork

OperationKinds == {"create", "ensure", "update", "delete", "stop", "start",
                   "restore", "run", "publish"}

ASSUME SupervisorAssumption ==
    /\ Kinds \subseteq OperationKinds
    /\ DeclaresUI \subseteq Versions
    /\ MergesUI \in BOOLEAN
    /\ MaxConcurrent \in Nat \ {0}
    /\ MaxCrashes \in Nat
    /\ DrainTimesOut \in BOOLEAN
    /\ None \notin Sessions
    /\ Versions # {}

VARIABLES
    up,       \* the daemon has booted
    store,    \* the stored record, or Absent
    cached,   \* the session in the supervisor's map
    session,  \* the sessions in memory
    op,       \* the progress of each operation; a call of WorkerCallbacks is its pull
    last,     \* history: the operation that began last
    overlap,  \* history: two operations were under way at the same time
    crashes   \* history: crashes so far

supervisorVars == <<up, store, cached, session, op, last, overlap, crashes>>
allVars == <<workerVars, supervisorVars>>
-----------------------------------------------------------------------------
\* The command that publishes a package is named after the operation, and is
\* in the scroll file (ui) while it does.
Commands == {"serve"} \cup Calls

Record == [artifact : Versions, yaml : Versions \cup {None}, status : ScrollStatuses,
           procs : [Commands -> ProcedureStatuses], ui : SUBSET Calls, published : BOOLEAN]

Absent == [artifact |-> None]

NoProcs == [c \in Commands |-> "unset"]

Placeholder(a) == [artifact |-> a, yaml |-> None, status |-> "created",
                   procs |-> NoProcs, ui |-> {}, published |-> FALSE]

\* The derived status of the commands in the scroll file.
Derived(r) ==
    DeriveScrollStatus({DeriveCommandStatus({r.procs[c]}) : c \in {"serve"} \cup r.ui})

WithStatus(r, status) == [r EXCEPT !.status = status]

WithProc(r, c, s) ==
    LET changed == [r EXCEPT !.procs[c] = s] IN WithStatus(changed, Derived(changed))

\* Mutant: the caller's record replaces what is stored.
Merged_Replaces(r) == r

\* What UpdateScroll stores for r.  The Kubernetes store keeps the packages
\* other writers have published, in the caller's record as well.
Merged(r) ==
    IF MergesUI /\ store # Absent
    THEN [r EXCEPT !.published = r.published \/ store.published] ELSE r

\* UpdateScroll fails for a scroll that is not there.
UpdateScroll(r) == store' = IF store = Absent THEN Absent ELSE Merged(r)

NoSession == [on |-> FALSE, rec |-> Absent, waiting |-> {}, busy |-> {}]

SessionState == [on : BOOLEAN, rec : Record \cup {Absent},
                 waiting : SUBSET Commands, busy : SUBSET Commands]

\* Session s changes its record and queue and stores the record.
Write(s, r, waiting, busy) ==
    /\ session' = [session EXCEPT ![s].rec = Merged(r), ![s].waiting = waiting,
                                  ![s].busy = busy]
    /\ UpdateScroll(r)

WriteRecord(s, r) == Write(s, r, session[s].waiting, session[s].busy)

Active(s, c) == c \in session[s].waiting \cup session[s].busy

\* Command c is added to the queue of s.
Enqueue(s, c) == Write(s, WithProc(session[s].rec, c, "waiting"),
                       session[s].waiting \cup {c}, session[s].busy)
-----------------------------------------------------------------------------
OperationState ==
    [pc : {"idle", "lookup", "insert", "detach", "drain", "backend", "pull",
           "find", "make", "cache", "uncache", "stop", "stopDrain", "stopBackend",
           "stopStore", "quiesce", "restored", "serve", "finish", "run", "await",
           "uiLookup", "uiAdd", "uiQueue", "uiAwait", "uiRead", "uiStore", "uiRemove", "uiRemoved",
           "remove", "forget", "done"},
     kind : OperationKinds, artifact : Versions,
     started : BOOLEAN,                 \* the session was on before it was drained
     restart : BOOLEAN,                 \* the scroll is to be started at the end
     rec : Record \cup {Absent},        \* the record the operation works with
     fresh : Record \cup {Absent},      \* the one PublishUIPackage reads at its end
     s : Sessions \cup {None},
     then : {"none", "uncache", "stop", "serve", "run", "uiAdd"}, \* after sessionFor
     ok : BOOLEAN]

Running(o) == op[o].pc \notin {"idle", "done"}

Idle == \A o \in Calls : ~Running(o)

To(o, pc) == op' = [op EXCEPT ![o].pc = pc]

\* An operation that returns forgets its record and session.
Return(o, ok) ==
    op' = [op EXCEPT ![o].pc = "done", ![o].ok = ok, ![o].rec = Absent, ![o].fresh = Absent,
                     ![o].s = None, ![o].then = "none", ![o].started = FALSE, ![o].restart = FALSE]

\* It fails: create, ensure and update mark the record they work with.
Fail(o) ==
    /\ Return(o, FALSE)
    /\ IF op[o].rec = Absent THEN UNCHANGED store
       ELSE UpdateScroll(WithStatus(op[o].rec, "error"))

Succeed(o) == Return(o, TRUE) /\ UNCHANGED store

\* sessionFor, then the step pc.
GetSession(o, pc) ==
    op' = [op EXCEPT ![o].pc = "find", ![o].then = pc, ![o].s = None]

\* The record is written: the scroll starts again, or the operation is done.
StartOrReturn(o) ==
    IF op[o].restart
    THEN op' = [op EXCEPT ![o].pc = "find", ![o].then = "serve", ![o].restart = FALSE,
                          ![o].rec = Absent, ![o].fresh = Absent, ![o].s = None]
    ELSE Return(o, TRUE)

FirstStep(kind) ==
    CASE kind \in {"create", "ensure", "update"} -> "lookup"
      [] kind = "delete" -> "detach"
      [] kind = "publish" -> "uiLookup"
      [] OTHER -> "find"

AfterSession(kind) ==
    CASE kind = "stop" -> "uncache" [] kind = "restore" -> "stop"
      [] kind = "start" -> "serve"  [] kind = "run" -> "run" [] OTHER -> "none"

TakesArtifact(kind) == kind \in {"create", "ensure", "update", "restore"}

Begin(o) ==
    /\ up
    /\ op[o].pc = "idle"
    /\ Cardinality({p \in Calls : Running(p)}) < MaxConcurrent
    /\ \E kind \in Kinds, a \in Versions, restart \in BOOLEAN :
          /\ TakesArtifact(kind) \/ a = CHOOSE v \in Versions : TRUE
          /\ restart => kind = "restore"
          /\ op' = [op EXCEPT ![o].kind = kind, ![o].artifact = a, ![o].restart = restart,
                              ![o].pc = FirstStep(kind), ![o].then = AfterSession(kind)]
    /\ last' = o
    /\ overlap' = (overlap \/ ~Idle)
    /\ UNCHANGED <<workerVars, up, store, cached, session, crashes>>

\* What most steps of an operation leave alone.
Histories == UNCHANGED <<up, last, overlap, crashes>>
-----------------------------------------------------------------------------
(* sessionFor: look into the map; otherwise make a session from the stored *)
(* record, start it, and put it into the map unless one is there by now.   *)
(* Stop takes it from the map again, at once or when it was made.          *)

Find(o) ==
    /\ op[o].pc = "find"
    /\ \/ cached = None /\ To(o, "make") /\ UNCHANGED cached
       \/ /\ cached # None /\ op[o].then # "uncache"
          /\ op' = [op EXCEPT ![o].pc = op[o].then, ![o].s = cached]
          /\ UNCHANGED cached
       \/ /\ cached # None /\ op[o].then = "uncache"
          /\ op' = [op EXCEPT ![o].pc = "stop", ![o].s = cached]
          /\ cached' = None
    /\ UNCHANGED <<workerVars, store, session>> /\ Histories

\* Nobody can reach s any more and nothing runs in it.
Free(s) ==
    /\ s # cached
    /\ \A o \in Calls : op[o].s # s
    /\ session[s].busy = {}

\* NewRuntimeSession needs a scroll file.
HasFile == store # Absent /\ store.yaml # None

Make(o) ==
    /\ op[o].pc = "make"
    /\ \/ /\ HasFile
          /\ \E s \in Sessions :
                /\ Free(s)
                /\ session' = [session EXCEPT ![s] = [NoSession EXCEPT !.on = TRUE, !.rec = store]]
                /\ op' = [op EXCEPT ![o].pc = "cache", ![o].s = s]
          /\ UNCHANGED store
       \/ ~HasFile /\ Fail(o) /\ UNCHANGED session
    /\ UNCHANGED <<workerVars, cached>> /\ Histories

\* The session of whoever was faster is used, and this one is stopped.
Cache(o) ==
    /\ op[o].pc = "cache"
    /\ IF cached = None
       THEN /\ cached' = op[o].s
            /\ To(o, op[o].then)
            /\ UNCHANGED session
       ELSE /\ op' = [op EXCEPT ![o].pc = op[o].then, ![o].s = cached]
            /\ session' = [session EXCEPT ![op[o].s] = NoSession]
            /\ UNCHANGED cached
    /\ UNCHANGED <<workerVars, store>> /\ Histories

\* The id is removed from the map, whatever session it holds.
Uncache(o) ==
    /\ op[o].pc = "uncache"
    /\ cached' = None
    /\ To(o, "stop")
    /\ UNCHANGED <<workerVars, store, session>> /\ Histories
-----------------------------------------------------------------------------
(* Create, ensure, update, delete                                          *)

\* The first read of the store decides what an operation does.  An ensure of
\* a scroll that is marked compares the reference only, whose version may be
\* another by now.
Lookup(o) ==
    LET kind == op[o].kind
        with(pc) == op' = [op EXCEPT ![o].pc = pc, ![o].rec = store] IN
    /\ op[o].pc = "lookup"
    /\ \/ /\ store = Absent /\ kind \in {"create", "ensure"}
          /\ To(o, "insert") /\ UNCHANGED store
       \/ (IF store = Absent THEN kind = "update" ELSE kind = "create") /\ Fail(o)
       \/ /\ store # Absent /\ kind = "ensure" /\ store.yaml = None
          /\ with("pull") /\ UNCHANGED store
       \/ /\ store # Absent /\ kind = "ensure" /\ store.yaml # None
          /\ store.artifact = op[o].artifact \/ store.status = "error"
          /\ Succeed(o)
       \/ /\ store # Absent
          /\ \/ kind = "update"
             \/ kind = "ensure" /\ store.yaml # None /\ store.artifact # op[o].artifact
          /\ with("detach") /\ UNCHANGED store
    /\ UNCHANGED <<workerVars, cached, session>> /\ Histories

\* CreateScroll refuses a scroll that is there by now.
Insert(o) ==
    /\ op[o].pc = "insert"
    /\ \/ /\ store = Absent
          /\ store' = Placeholder(op[o].artifact)
          /\ op' = [op EXCEPT ![o].pc = "pull", ![o].rec = Placeholder(op[o].artifact)]
       \/ store # Absent /\ Fail(o)
    /\ UNCHANGED <<workerVars, cached, session>> /\ Histories

AfterDetach(o) == IF op[o].kind = "delete" THEN "remove" ELSE "backend"

\* Mutant: the session stays in the map.
Detach_Kept(o) ==
    /\ op[o].pc = "detach"
    /\ IF cached = None
       THEN To(o, AfterDetach(o)) /\ UNCHANGED session
       ELSE /\ op' = [op EXCEPT ![o].pc = "drain", ![o].s = cached]
            /\ session' = [session EXCEPT ![cached].on = FALSE]
    /\ UNCHANGED <<workerVars, store, cached>> /\ Histories

\* Update and delete take the session from the map and switch it off.
Detach(o) ==
    /\ op[o].pc = "detach"
    /\ cached' = None
    /\ IF cached = None
       THEN To(o, AfterDetach(o)) /\ UNCHANGED session
       ELSE /\ op' = [op EXCEPT ![o].pc = "drain", ![o].s = cached]
            /\ session' = [session EXCEPT ![cached].on = FALSE]
    /\ UNCHANGED <<workerVars, store>> /\ Histories

Drained(s) == session[s].busy = {} \/ DrainTimesOut

\* Mutant: the queue survives.
SwitchedOff_Queue(o) ==
    LET s == op[o].s IN
    session' = [session EXCEPT ![s] =
                  IF @.busy \cup @.waiting = {} /\ \A p \in Calls \ {o} : op[p].s # s
                  THEN NoSession ELSE [@ EXCEPT !.on = FALSE]]

\* A session that is switched off and drained loses its queue.
SwitchedOff(o) ==
    LET s == op[o].s IN
    session' = [session EXCEPT ![s] =
                  IF session[s].busy = {} /\ \A p \in Calls \ {o} : op[p].s # s
                  THEN NoSession ELSE [@ EXCEPT !.on = FALSE, !.waiting = {}]]

Drain(o) ==
    /\ op[o].pc = "drain"
    /\ Drained(op[o].s)
    /\ SwitchedOff(o)
    /\ op' = [op EXCEPT ![o].pc = AfterDetach(o), ![o].s = None]
    /\ UNCHANGED <<workerVars, store, cached>> /\ Histories

\* The workloads of a running scroll are removed, which may fail.
BackendStop(o) ==
    /\ op[o].pc = "backend"
    /\ \/ To(o, "pull") /\ UNCHANGED store
       \/ op[o].rec.status = "running" /\ Fail(o)
    /\ UNCHANGED <<workerVars, cached, session>> /\ Histories

PullBegin(o) ==
    /\ op[o].pc = "pull"
    /\ Register(o, op[o].artifact)
    /\ UNCHANGED supervisorVars

\* The call has returned; only the operation's own steps follow.
PullEnded(o, result) ==
    op[o].pc = "pull" /\ call[o].pc = "done" /\ call[o].result = result

\* Mutant: an ensure that fails leaves the record alone.
PullFailed_Unmarked(o) ==
    /\ PullEnded(o, "failed")
    /\ IF op[o].kind = "restore"
       THEN WriteRecord(op[o].s, WithStatus(session[op[o].s].rec, "error")) /\ Return(o, FALSE)
       ELSE Return(o, FALSE) /\ UNCHANGED <<store, session>>
    /\ UNCHANGED <<workerVars, cached>> /\ Histories

\* Restore marks the record of its session.
PullFailed(o) ==
    /\ PullEnded(o, "failed")
    /\ IF op[o].kind = "restore"
       THEN WriteRecord(op[o].s, WithStatus(session[op[o].s].rec, "error")) /\ Return(o, FALSE)
       ELSE Fail(o) /\ UNCHANGED session
    /\ UNCHANGED <<workerVars, cached>> /\ Histories

\* The scroll file in the result the call received.
Pulled(o) == call[chan[o].from].artifact

\* The record with the new scroll file.
Materialized(o, r) ==
    [r EXCEPT !.artifact = op[o].artifact, !.yaml = Pulled(o), !.procs = NoProcs,
              !.ui = {},
              !.status = IF r.status \in {"running", "stopped"} THEN "stopped" ELSE "created"]

\* A scroll file that is not valid fails the operation.  Otherwise the
\* record is stored; then a declared package is published; then an
\* update starts the scroll again if it ran.
Apply(o) ==
    LET restart == op[o].kind = "update" /\ op[o].rec.status = "running"
        r == Materialized(o, op[o].rec) IN
    /\ PullEnded(o, "ok")
    /\ op[o].kind # "restore"
    /\ \/ Fail(o)
       \/ /\ store = Absent /\ Return(o, FALSE) /\ UNCHANGED store
       \/ /\ store # Absent /\ UpdateScroll(r)
          /\ \/ /\ Pulled(o) \in DeclaresUI
                /\ op' = [op EXCEPT ![o].pc = "uiLookup", ![o].restart = restart,
                                    ![o].rec = Merged(r)]
             \/ /\ Pulled(o) \notin DeclaresUI /\ restart
                /\ op' = [op EXCEPT ![o].pc = "find", ![o].then = "serve", ![o].rec = Absent]
             \/ Pulled(o) \notin DeclaresUI /\ ~restart /\ Return(o, TRUE)
    /\ UNCHANGED <<workerVars, cached, session>> /\ Histories

\* Delete: the backend removes the workloads, and the data if asked to.  It
\* may fail with half of the data gone.
Remove(o) ==
    /\ op[o].pc = "remove"
    /\ \/ store # Absent /\ To(o, "forget") /\ root' \in {root, None}
       \/ store # Absent /\ Return(o, FALSE) /\ root' \in {root, Torn}
       \/ store = Absent /\ Return(o, FALSE) /\ UNCHANGED root
    /\ UNCHANGED <<pending, call, chan, worker, store, cached, session>> /\ Histories

Forget(o) ==
    /\ op[o].pc = "forget"
    /\ store' = Absent
    /\ Return(o, TRUE)
    /\ UNCHANGED <<workerVars, cached, session>> /\ Histories
-----------------------------------------------------------------------------
(* StopRuntime, for stop and restore; ApplyRestore                         *)

\* The session is switched off, if it is on, and drained.
SwitchOff(o, pc) ==
    /\ session' = [session EXCEPT ![op[o].s].on = FALSE]
    /\ op' = [op EXCEPT ![o].pc = pc, ![o].started = session[op[o].s].on]

OffAndDrained(o) == op[o].started => Drained(op[o].s)

StopBegin(o) ==
    /\ op[o].pc = "stop"
    /\ SwitchOff(o, "stopDrain")
    /\ UNCHANGED <<workerVars, store, cached>> /\ Histories

\* Mutant: nothing is drained.
StopDrain_AtOnce(o) ==
    /\ op[o].pc = "stopDrain"
    /\ session' = [session EXCEPT ![op[o].s].waiting = {}]
    /\ To(o, "stopBackend")
    /\ UNCHANGED <<workerVars, store, cached>> /\ Histories

StopDrain(o) ==
    /\ op[o].pc = "stopDrain"
    /\ OffAndDrained(o)
    /\ session' = [session EXCEPT ![op[o].s].waiting = {}]
    /\ To(o, "stopBackend")
    /\ UNCHANGED <<workerVars, store, cached>> /\ Histories

\* When the backend fails the session goes on and the scroll is marked.
StopBackend(o) ==
    LET s == op[o].s
        marked == WithStatus(session[s].rec, "error") IN
    /\ op[o].pc = "stopBackend"
    /\ \/ To(o, "stopStore") /\ UNCHANGED <<store, session>>
       \/ /\ session' = [session EXCEPT ![s].on = @ \/ op[o].started, ![s].rec = Merged(marked)]
          /\ UpdateScroll(marked)
          /\ Return(o, FALSE)
    /\ UNCHANGED <<workerVars, cached>> /\ Histories

\* Only run-once commands that are done keep their statuses.
Stopped(r) ==
    [WithStatus(r, "stopped") EXCEPT
        !.procs = [c \in Commands |-> IF c \in r.ui /\ r.procs[c] = "done"
                                      THEN "done" ELSE "unset"]]

\* The session is switched on again; stop then switches it off for good.
StopStore(o) ==
    LET s == op[o].s
        stopped == Stopped(session[s].rec) IN
    /\ op[o].pc = "stopStore"
    /\ \/ /\ store # Absent
          /\ UpdateScroll(stopped)
          /\ session' = [session EXCEPT ![s].rec = Merged(stopped), ![s].on = @ \/ op[o].started]
          /\ To(o, IF op[o].kind = "stop" THEN "quiesce" ELSE "pull")
       \/ /\ store = Absent
          /\ WriteRecord(s, WithStatus(stopped, "error"))
          /\ Return(o, FALSE)
    /\ UNCHANGED <<workerVars, cached>> /\ Histories

Quiesce(o) ==
    /\ op[o].pc = "quiesce"
    /\ Drained(op[o].s)
    /\ SwitchedOff(o)
    /\ Succeed(o)
    /\ UNCHANGED <<workerVars, cached>> /\ Histories

\* ApplyRestore fails when the scroll file is not valid.
RestoreBegin(o) ==
    /\ PullEnded(o, "ok")
    /\ op[o].kind = "restore"
    /\ \/ SwitchOff(o, "restored") /\ UNCHANGED store
       \/ /\ WriteRecord(op[o].s, WithStatus(session[op[o].s].rec, "error"))
          /\ Return(o, FALSE)
    /\ UNCHANGED <<workerVars, cached>> /\ Histories

\* The record gets the new file and keeps the statuses of its commands.
ApplyRestore(o) ==
    LET s == op[o].s
        r == [Materialized(o, session[s].rec) EXCEPT
                 !.procs["serve"] = session[s].rec.procs["serve"], !.status = "stopped"] IN
    /\ op[o].pc = "restored"
    /\ OffAndDrained(o)
    /\ \/ /\ store # Absent
          /\ UpdateScroll(r)
          /\ session' = [session EXCEPT ![s].rec = Merged(r),
                ![s].waiting = IF op[o].started THEN {} ELSE @, ![s].on = @ \/ op[o].started]
          /\ StartOrReturn(o)
       \/ /\ store = Absent
          /\ WriteRecord(s, WithStatus(r, "error"))
          /\ Return(o, FALSE)
    /\ UNCHANGED <<workerVars, cached>> /\ Histories
-----------------------------------------------------------------------------
(* StartScroll and RunAndWait                                              *)

\* AutoStartServe: the serve command is forced into the queue.
Serve(o) ==
    LET s == op[o].s IN
    /\ op[o].pc = "serve"
    /\ IF Active(s, "serve") THEN UNCHANGED <<store, session>> ELSE Enqueue(s, "serve")
    /\ To(o, "finish")
    /\ UNCHANGED <<workerVars, cached>> /\ Histories

\* Mutant: the status of the serve command is stored as it is.
FinishStart_OfCommand(o) ==
    LET s == op[o].s
        r == session[s].rec IN
    /\ op[o].pc = "finish"
    /\ WriteRecord(s, WithStatus(r, r.procs["serve"]))
    /\ Return(o, store # Absent)
    /\ UNCHANGED <<workerVars, cached>> /\ Histories

\* The derived status is stored; "created" counts as running.
FinishStart(o) ==
    LET s == op[o].s
        r == session[s].rec IN
    /\ op[o].pc = "finish"
    /\ WriteRecord(s, WithStatus(r, IF Derived(r) = "created" THEN "running" ELSE Derived(r)))
    /\ Return(o, store # Absent)
    /\ UNCHANGED <<workerVars, cached>> /\ Histories

\* AddTempItemWithWait refuses a command that is in the queue.
Run(o) ==
    LET s == op[o].s IN
    /\ op[o].pc = "run"
    /\ \/ Active(s, "serve") /\ Return(o, FALSE) /\ UNCHANGED <<store, session>>
       \/ ~Active(s, "serve") /\ Enqueue(s, "serve") /\ To(o, "await")
    /\ UNCHANGED <<workerVars, cached>> /\ Histories

Settled(s, c) == ~Active(s, c) /\ session[s].rec.procs[c] \in {"done", "error"}

Await(o) ==
    LET s == op[o].s IN
    /\ op[o].pc = "await"
    /\ Settled(s, "serve")
    /\ Return(o, session[s].rec.procs["serve"] = "done")
    /\ UNCHANGED <<workerVars, store, cached, session>> /\ Histories
-----------------------------------------------------------------------------
(* PublishUIPackage: a run-once command is added to the scroll file, run,  *)
(* and removed; the package is added to a record read from the store.      *)
(* Create, ensure and update do it for a declared package.                 *)

\* An upload needs a scroll, and a bucket that may not be there.
UILookup(o) ==
    /\ op[o].pc = "uiLookup"
    /\ \/ store # Absent /\ GetSession(o, "uiAdd") /\ UNCHANGED store
       \/ Fail(o)
    /\ UNCHANGED <<workerVars, cached, session>> /\ Histories

\* AddCommand: the command is in the session's scroll file once it is stored.
UIAdd(o) ==
    LET s == op[o].s IN
    /\ op[o].pc = "uiAdd"
    /\ \/ /\ store # Absent
          /\ WriteRecord(s, [session[s].rec EXCEPT !.ui = @ \cup {o}])
          /\ To(o, "uiQueue")
       \/ store = Absent /\ Fail(o) /\ UNCHANGED session
    /\ UNCHANGED <<workerVars, cached>> /\ Histories

\* AddTempItemWithWaitEnv refuses a command that a restore has removed.
UIQueue(o) ==
    LET s == op[o].s IN
    /\ op[o].pc = "uiQueue"
    /\ \/ o \in session[s].rec.ui /\ Enqueue(s, o) /\ To(o, "uiAwait")
       \/ o \notin session[s].rec.ui /\ To(o, "uiRemove") /\ UNCHANGED <<store, session>>
    /\ UNCHANGED <<workerVars, cached>> /\ Histories

UIAwait(o) ==
    LET s == op[o].s IN
    /\ op[o].pc = "uiAwait"
    /\ Settled(s, o)
    /\ op' = [op EXCEPT ![o].pc = IF session[s].rec.procs[o] = "done" THEN "uiRead"
                                  ELSE "uiRemove"]
    /\ UNCHANGED <<workerVars, store, cached, session>> /\ Histories

UIRead(o) ==
    /\ op[o].pc = "uiRead"
    /\ op' = [op EXCEPT ![o].pc = IF store = Absent THEN "uiRemove" ELSE "uiStore",
                        ![o].fresh = store]
    /\ UNCHANGED <<workerVars, store, cached, session>> /\ Histories

\* The package is stored with the rest of what was read.
UIStore(o) ==
    /\ op[o].pc = "uiStore"
    /\ UpdateScroll([op[o].fresh EXCEPT !.published = TRUE])
    /\ op' = [op EXCEPT ![o].pc = "uiRemove", ![o].ok = store # Absent, ![o].fresh = Absent]
    /\ UNCHANGED <<workerVars, cached, session>> /\ Histories

\* RemoveCommand, deferred: the session's record is stored once more.  Then
\* publishing returns, or the operation it was part of goes on.
UIRemove(o) ==
    LET s == op[o].s
        r == [session[s].rec EXCEPT !.ui = @ \ {o}, !.procs[o] = "unset"] IN
    /\ op[o].pc = "uiRemove"
    /\ Write(s, r, session[s].waiting \ {o}, session[s].busy)
    /\ IF op[o].kind = "publish" THEN Return(o, op[o].ok)
       ELSE op' = [op EXCEPT ![o].pc = "uiRemoved"]
    /\ UNCHANGED <<workerVars, cached>> /\ Histories

UIRemoved(o) ==
    /\ op[o].pc = "uiRemoved"
    /\ \/ op[o].ok /\ StartOrReturn(o) /\ UNCHANGED store
       \/ ~op[o].ok /\ Fail(o)
    /\ UNCHANGED <<workerVars, cached, session>> /\ Histories
-----------------------------------------------------------------------------
(* Sessions, crashes                                                       *)

\* A pass starts a command that waits, or drops it when the scroll file does
\* not have it; its procedure reports.
SessionRun(s, c) ==
    /\ session[s].on
    /\ c \in session[s].waiting
    /\ IF c \in {"serve"} \cup session[s].rec.ui
       THEN Write(s, WithProc(session[s].rec, c, "running"), session[s].waiting \ {c},
                  session[s].busy \cup {c})
       ELSE session' = [session EXCEPT ![s].waiting = @ \ {c}] /\ UNCHANGED store
    /\ UNCHANGED <<workerVars, cached, op>> /\ Histories

SessionEnd(s, c) ==
    /\ c \in session[s].busy
    /\ \E result \in {"done", "error"} :
          Write(s, WithProc(session[s].rec, c, result), session[s].waiting,
                session[s].busy \ {c})
    /\ UNCHANGED <<workerVars, cached, op>> /\ Histories

\* The daemon dies.  The workers, in containers of their own, go on.
Crash ==
    /\ up
    /\ crashes < MaxCrashes
    /\ crashes' = crashes + 1
    /\ up' = FALSE
    /\ cached' = None
    /\ session' = [s \in Sessions |-> NoSession]
    /\ op' = [o \in Calls |-> IF ~Running(o) THEN op[o]
                 ELSE [op[o] EXCEPT !.pc = "done", !.ok = FALSE, !.rec = Absent,
                         !.fresh = Absent, !.s = None, !.then = "none", !.started = FALSE,
                         !.restart = FALSE]]
    /\ pending' = None
    /\ call' = [c \in Calls |-> IF call[c].pc \in {"idle", "done"} THEN call[c]
                                 ELSE Ended(c, "failed")]
    /\ UNCHANGED <<chan, worker, root, store, last, overlap>>

\* Hydrate queues what has a status and is not done, and the serve command.
Hydrated(r) ==
    {"serve"} \cup {c \in r.ui : r.procs[c] \notin {"unset", "done"}}

\* Supervisor.Start resumes a scroll that is stored as running.
Boot ==
    /\ ~up
    /\ up' = TRUE
    /\ IF store # Absent /\ store.status = "running"
       THEN \E s \in Sessions :
               LET r == IF store.procs["serve"] \in {"waiting", "running"} THEN store
                        ELSE [store EXCEPT !.procs["serve"] = "waiting"] IN
               /\ session[s] = NoSession
               /\ cached' = s
               /\ session' = [session EXCEPT ![s] =
                     [on |-> TRUE, rec |-> WithStatus(r, Derived(r)),
                      waiting |-> Hydrated(r), busy |-> {}]]
               /\ UpdateScroll(WithStatus(r, Derived(r)))
       ELSE UNCHANGED <<store, cached, session>>
    /\ UNCHANGED <<workerVars, op, last, overlap, crashes>>
-----------------------------------------------------------------------------
\* A record of version v, and the status of its serve command.
Filled(v, status, serve) ==
    [Placeholder(v) EXCEPT !.yaml = v, !.status = status, !.procs["serve"] = serve]

\* What the store may hold when a daemon starts.
Persisted ==
    {Filled(v, x[1], x[2]) :
        v \in Versions,
        x \in {<<"created", "unset">>, <<"running", "running">>,
               <<"stopped", "done">>, <<"error", "error">>}}

SupervisorInit ==
    /\ CallInit
    /\ up = FALSE
    /\ store \in {Absent} \cup Persisted
    /\ root = IF store = Absent THEN None ELSE store.yaml
    /\ cached = None
    /\ session = [s \in Sessions |-> NoSession]
    /\ op = [o \in Calls |->
               [pc |-> "idle", kind |-> "run", artifact |-> CHOOSE v \in Versions : TRUE,
                started |-> FALSE, restart |-> FALSE, rec |-> Absent, fresh |-> Absent, s |-> None,
                then |-> "none", ok |-> FALSE]]
    /\ last = None
    /\ overlap = FALSE
    /\ crashes = 0

Operation(o) ==
    \/ Begin(o) \/ Find(o) \/ Make(o) \/ Cache(o) \/ Uncache(o)
    \/ Lookup(o) \/ Insert(o) \/ Detach(o) \/ Drain(o) \/ BackendStop(o)
    \/ PullBegin(o) \/ PullFailed(o) \/ Apply(o) \/ Remove(o) \/ Forget(o)
    \/ StopBegin(o) \/ StopDrain(o) \/ StopBackend(o) \/ StopStore(o) \/ Quiesce(o)
    \/ RestoreBegin(o) \/ ApplyRestore(o)
    \/ Serve(o) \/ FinishStart(o) \/ Run(o) \/ Await(o)
    \/ UILookup(o) \/ UIAdd(o) \/ UIQueue(o) \/ UIAwait(o) \/ UIRead(o) \/ UIStore(o)
    \/ UIRemove(o) \/ UIRemoved(o)

SupervisorNext ==
    \/ \E o \in Calls : Operation(o)
    \/ \E o \in Calls : (PullCall(o) \/ Worker(o)) /\ UNCHANGED supervisorVars
    \/ \E s \in Sessions, c \in Commands : SessionRun(s, c) \/ SessionEnd(s, c)
    \/ Crash \/ Boot

SupervisorSpec == SupervisorInit /\ [][SupervisorNext]_allVars
-----------------------------------------------------------------------------
(* Properties                                                              *)

SupervisorTypeOK ==
    /\ CallTypeOK
    /\ up \in BOOLEAN
    /\ store \in Record \cup {Absent}
    /\ cached \in Sessions \cup {None}
    /\ session \in [Sessions -> SessionState]
    /\ op \in [Calls -> OperationState]
    /\ last \in Calls \cup {None}
    /\ overlap \in BOOLEAN
    /\ crashes \in 0..MaxCrashes
-----------------------------------------------------------------------------
\* What can be said when no operation is under way and none met another.
Sequential == up /\ Idle /\ ~overlap /\ last # None

\* An operation that filled the root and reports success has delivered the
\* artifact it was asked for: the root and the scroll file in the store both
\* are that artifact's, unless the worker of an earlier call is at large.
Delivered ==
    Sequential /\ op[last].ok /\ call[last].pc = "done" /\ (\A c \in Calls : ~AtLarge(c)) =>
        /\ store # Absent
        /\ store.yaml = op[last].artifact
        /\ root = op[last].artifact

\* An operation that touched the root and did not succeed leaves a scroll
\* that is marked, so that nobody takes what may be torn for a good root.
FailureMarked ==
    Sequential /\ crashes = 0 /\ call[last].pc = "done" /\ ~op[last].ok =>
        store # Absent /\ store.status = "error"

\* What an operation that filled the root reports is what happened to it.
OutcomeHonest == Delivered /\ FailureMarked

\* The session in the map works on the record that is stored (a declared
\* package that fails marks the stored record behind the session's back).
SessionMatchesStore ==
    up /\ Idle /\ ~overlap /\ cached # None =>
        LET rec == session[cached].rec IN
        /\ Absent \notin {store, rec}
        /\ rec.yaml = store.yaml
        /\ rec.ui = store.ui
        /\ rec = store \/ store.status = "error"

\* At most one session has commands running, and only the one in the map
\* has commands waiting when no operation is under way.
OneScheduler ==
    ~overlap =>
        /\ \A s, t \in Sessions : session[s].busy # {} /\ session[t].busy # {} => s = t
        /\ Idle => \A s \in Sessions \ {cached} : session[s].waiting \cup session[s].busy = {}

\* A stop that succeeded lasts until the next operation.
StopLasts ==
    Sequential /\ op[last].kind = "stop" /\ op[last].ok /\ crashes = 0 =>
        /\ store # Absent /\ store.status = "stopped"
        /\ \A s \in Sessions : session[s].busy = {}

\* A published package is not lost while the scroll exists.
PublishedStays ==
    [][store # Absent /\ store' # Absent /\ store.published => store'.published]_allVars
=============================================================================
