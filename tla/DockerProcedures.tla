--------------------------- MODULE DockerProcedures ---------------------------
(***************************************************************************)
(* The Docker backend running the procedures of one scroll                 *)
(* (internal/runtime/docker).  A RunCommand call finds or creates one      *)
(* container per procedure, attaches to it, starts it and waits for it BY  *)
(* ID.  A container that succeeded is removed, failed ones are kept up to  *)
(* a limit and number the attempts.  A persistent procedure is left to a   *)
(* goroutine that waits for its exit.                                      *)
(*                                                                         *)
(* Console input and signals find a container through two maps of the      *)
(* backend, keyed by procedure; calls, goroutines and stops all write them.*)
(* The Docker engine is the environment.                                   *)
(***************************************************************************)
EXTENDS ScrollProcedures, FiniteSetsExt

CONSTANTS
    Runs,           \* slots for RunCommand calls
    Retention,      \* dockerFailedProcedureRetention
    MaxContainers,  \* bound on containers created
    MaxDisturbed    \* bound on stops, removed commands and restarts of the daemon

ASSUME DockerAssumption ==
    Retention \in Nat \ {0} /\ {MaxContainers, MaxDisturbed} \subseteq Nat

VARIABLES
    containers,  \* the scroll's containers
    handle,      \* b.containers: id of the container of a procedure, or 0
    stdin,       \* b.stdin: id of the container its connection leads to, or 0
    run,         \* the RunCommand calls
    watchers,    \* <<procedure, id>> of persistent containers a goroutine waits for
    created,     \* history: containers created so far; ids count up
    stray,       \* history: ids created or started by calls that outlived a stop
    left,        \* history: commands of which a stop left a call behind
    disturbed    \* history: stops, removed commands and restarts so far

maps == <<handle, stdin>>
past == <<created, stray, left, disturbed>>
dockerVars == <<containers, maps, run, watchers, past>>
-----------------------------------------------------------------------------
Ids == 1..MaxContainers
Container == [id : Ids, proc : Procs, attempt : Ids,
              state : {"created", "running", "exited0", "exited1"}]

Object(i) == {c \in containers : c.id = i}
Failed(c) == c.state = "exited1"

\* Running in createOrReuseProcedureContainer: not exited.
Running(c) == c.state \in {"created", "running"}

\* What a call remembers: the command, the index of its procedure, the
\* containers it still has to remove, the attempt it will create, its
\* container, and whether it has to start that; as history, whether a stop
\* left it behind.
Free == [pc |-> "free", cmd |-> "none", idx |-> 0, todo |-> {}, next |-> 1, id |-> 0,
         start |-> FALSE, loose |-> FALSE]

Doing(k) == <<run[k].cmd, run[k].idx>>
Persistent(k) == Mode[run[k].cmd] = "persistent"

NextProcedure(k) == run' = [run EXCEPT ![k].pc = "next", ![k].idx = @ + 1, ![k].id = 0,
                                       ![k].start = FALSE, ![k].next = 1]
ReturnRun(k) == run' = [run EXCEPT ![k] = Free]

\* clearContainer and clearStdin delete the entries of a procedure, whoever set them.
Clear(p) == /\ handle' = [handle EXCEPT ![p] = 0]
            /\ stdin' = [stdin EXCEPT ![p] = 0]

\* Removing is by id; what is gone already is an error that is ignored, and
\* so is any other.
TryRemove(ids) == containers' \in {containers, {c \in containers : c.id \notin ids}}
-----------------------------------------------------------------------------
(* RunCommand                                                              *)

\* The session runs a command once at a time, unless a stop left a call behind.
BeginRun(k, c) ==
    /\ run[k].pc = "free"
    /\ \A m \in Runs : run[m].cmd = c => run[m].loose
    /\ run' = [run EXCEPT ![k] = [Free EXCEPT !.pc = "next", !.cmd = c, !.idx = 1]]
    /\ UNCHANGED <<containers, maps, watchers, past>>

RunFinished(k) ==
    /\ run[k].pc = "next"
    /\ run[k].idx > Length[run[k].cmd]
    /\ ReturnRun(k)
    /\ UNCHANGED <<containers, maps, watchers, past>>

RunAt(k, kind) ==
    /\ run[k].pc = "next"
    /\ run[k].idx <= Length[run[k].cmd]
    /\ Kind[Doing(k)] = kind

RunNoImage(k) ==
    /\ RunAt(k, "noImage")
    /\ ReturnRun(k)
    /\ UNCHANGED <<containers, maps, watchers, past>>

\* The containers a signal for t finds: without an entry containerID makes
\* up a name from that of the procedure, which no container has.
SignalTargets(t) == Object(handle[t])

\* ContainerStop ends a running container with any exit code and leaves
\* another one as it is; a container that is not there is an error.
SignalProcedure(k) ==
    LET t == Target[Doing(k)] IN
    /\ RunAt(k, "signal")
    /\ IF SignalTargets(t) = {}
       THEN ReturnRun(k) /\ UNCHANGED containers
       ELSE /\ NextProcedure(k)
            /\ \E state \in {"exited0", "exited1"} :
                  containers' = {IF c.id = handle[t] /\ c.state = "running"
                                 THEN [c EXCEPT !.state = state] ELSE c : c \in containers}
    /\ UNCHANGED <<maps, watchers, past>>

ContainersOf(p) == {c \in containers : c.proc = p}

\* activeDockerProcedureAttempt looks among these.
ReusableContainers(p) == {c \in ContainersOf(p) : Running(c)}

\* Newer attempts first, for containers of one procedure.
Newer(c, d) == c.attempt > d.attempt \/ (c.attempt = d.attempt /\ c.id > d.id)

\* prunedDockerProcedureAttempts: all failures but the newest.
Pruned(p) ==
    {c \in ContainersOf(p) : Failed(c) /\
        Cardinality({d \in ContainersOf(p) : Failed(d) /\ Newer(d, c)}) >= Retention}

\* Mutant: attempts are counted from 0.
NextAttempt_FromZero(p) == Max({-1} \cup {c.attempt : c \in ContainersOf(p)}) + 1

\* nextDockerProcedureAttempt: above all containers there are.
NextAttempt(p) == Max({0} \cup {c.attempt : c \in ContainersOf(p)}) + 1

\* createOrReuseProcedureContainer decides on the containers it listed.
ListContainers(k) ==
    LET p == Doing(k)
        open == ReusableContainers(p)
        active == CHOOSE c \in open : \A d \in open \ {c} : Newer(c, d)
    IN
    /\ RunAt(k, "image")
    /\ run' = [run EXCEPT ![k] =
          IF open # {}
          THEN [@ EXCEPT !.pc = "attach", !.id = active.id, !.start = active.state = "created"]
          ELSE [@ EXCEPT !.pc = "prune",
                  !.todo = {c.id : c \in {c \in ContainersOf(p) : ~Running(c) /\ ~Failed(c)}
                                             \cup Pruned(p)},
                  !.next = NextAttempt(p)]]
    /\ UNCHANGED <<containers, maps, watchers, past>>

PruneListed(k, i) ==
    /\ run[k].pc = "prune"
    /\ i \in run[k].todo
    /\ TryRemove({i})
    /\ run' = [run EXCEPT ![k].todo = @ \ {i}]
    /\ UNCHANGED <<maps, watchers, past>>

\* The name is that of the procedure and the attempt; a name that is taken
\* is an error (SetupFails).
CreateContainer(k) ==
    /\ run[k].pc = "prune"
    /\ run[k].todo = {}
    /\ \A c \in ContainersOf(Doing(k)) : c.attempt # run[k].next
    /\ created < MaxContainers
    /\ created' = created + 1
    /\ containers' = containers \cup
          {[id |-> created + 1, proc |-> Doing(k), attempt |-> run[k].next, state |-> "created"]}
    /\ stray' = IF run[k].loose THEN stray \cup {created + 1} ELSE stray
    /\ run' = [run EXCEPT ![k].pc = "attach", ![k].id = created + 1, ![k].start = TRUE,
                          ![k].next = 1]
    /\ UNCHANGED <<maps, watchers, left, disturbed>>

\* Where a call goes when its container runs: a persistent procedure is
\* handed to a goroutine, any other is waited for.
Watched(k) == IF Persistent(k) THEN watchers \cup {<<Doing(k), run[k].id>>} ELSE watchers
Started(k) == IF Persistent(k) THEN NextProcedure(k)
              ELSE run' = [run EXCEPT ![k].pc = "wait", ![k].start = FALSE]

\* setContainer, ContainerAttach, setStdin.
Attach(k) ==
    /\ run[k].pc = "attach"
    /\ Object(run[k].id) # {}
    /\ handle' = [handle EXCEPT ![Doing(k)] = run[k].id]
    /\ stdin' = [stdin EXCEPT ![Doing(k)] = run[k].id]
    /\ IF run[k].start
       THEN run' = [run EXCEPT ![k].pc = "start"] /\ UNCHANGED watchers
       ELSE Started(k) /\ watchers' = Watched(k)
    /\ UNCHANGED <<containers, past>>

\* The attachment fails: a finite call leaves its container as it is.
AttachFails(k) ==
    /\ run[k].pc = "attach"
    /\ ReturnRun(k)
    /\ IF Persistent(k)
       THEN /\ IF run[k].start THEN TryRemove({run[k].id}) ELSE UNCHANGED containers
            /\ UNCHANGED maps
       ELSE /\ handle' = [handle EXCEPT ![Doing(k)] = 0]
            /\ UNCHANGED <<containers, stdin>>
    /\ UNCHANGED <<watchers, past>>

\* ContainerStart starts an exited container again.
StartContainer(k) ==
    /\ run[k].pc = "start"
    /\ Object(run[k].id) # {}
    /\ containers' = {IF c.id = run[k].id THEN [c EXCEPT !.state = "running"] ELSE c
                        : c \in containers}
    /\ Started(k)
    /\ watchers' = Watched(k)
    /\ stray' = IF run[k].loose THEN stray \cup {run[k].id} ELSE stray
    /\ UNCHANGED <<maps, created, left, disturbed>>

StartFails(k) ==
    /\ run[k].pc = "start"
    /\ TryRemove({run[k].id})
    /\ Clear(Doing(k))
    /\ ReturnRun(k)
    /\ UNCHANGED <<watchers, past>>

\* The engine refuses before the container is there: an error.
SetupFails(k) ==
    /\ run[k].pc \in {"next", "prune"}
    /\ ReturnRun(k)
    /\ UNCHANGED <<containers, maps, watchers, past>>

\* Mutant: a container that is gone counts as exited with 0.
ExitSeen_Gone(k) == IF Object(run[k].id) = {} THEN {"exited0"}
                    ELSE {c.state : c \in Object(run[k].id)} \ {"created", "running"}

\* What ContainerWait reports: an exit when there is one, or an error, as
\* when the container is gone or the engine cannot be reached.
ExitSeen(k) == {"error"} \cup ({c.state : c \in Object(run[k].id)} \ {"created", "running"})

\* A container that succeeded is removed, and the deferred calls clear the
\* maps; after an error it is left as it is, even running.
WaitEnds(k, state) ==
    /\ run[k].pc = "wait"
    /\ state \in ExitSeen(k)
    /\ IF state = "exited0" THEN TryRemove({run[k].id}) ELSE UNCHANGED containers
    /\ Clear(Doing(k))
    /\ IF state = "exited0" \/ (state = "exited1" /\ Doing(k) \in Ignored)
       THEN NextProcedure(k) ELSE ReturnRun(k)
    /\ UNCHANGED <<watchers, past>>

\* The goroutine of a persistent procedure ends with an exit or with an
\* error, and clears the maps by name.
WatcherEnds(p, i) ==
    /\ <<p, i>> \in watchers
    /\ IF \E c \in Object(i) : c.state = "exited0" THEN TryRemove({i}) ELSE UNCHANGED containers
    /\ watchers' = watchers \ {<<p, i>>}
    /\ Clear(p)
    /\ UNCHANGED <<run, past>>
-----------------------------------------------------------------------------
(* Stops, restarts and the engine                                          *)

Abandon(cmds) ==
    /\ run' = [k \in Runs |-> IF run[k].cmd \in cmds THEN [run[k] EXCEPT !.loose = TRUE]
                              ELSE run[k]]
    /\ left' = left \cup ({run[k].cmd : k \in Runs} \cap cmds)

\* StopRuntime removes all containers and forgets all entries; when the
\* engine refuses one, it returns with the others removed or not.
StopAll ==
    /\ disturbed < MaxDisturbed
    /\ disturbed' = disturbed + 1
    /\ containers' \in SUBSET containers
    /\ IF containers' = {}
       THEN handle' = [p \in Procs |-> 0] /\ stdin' = [p \in Procs |-> 0]
       ELSE UNCHANGED maps
    /\ Abandon(Commands)
    /\ UNCHANGED <<watchers, created, stray>>

\* Mutant: StopCommand forgets all entries.
Forgotten_All(gone) == Procs

\* StopCommand forgets the entries of the containers it removed.
Forgotten(gone) == {p \in Procs : handle[p] \in {c.id : c \in gone}}

StopOne(c) ==
    LET gone == {o \in containers : o.proc[1] = c} IN
    /\ disturbed < MaxDisturbed
    /\ disturbed' = disturbed + 1
    /\ containers' = containers \ gone
    /\ handle' = [p \in Procs |-> IF p \in Forgotten(gone) THEN 0 ELSE handle[p]]
    /\ stdin' = [p \in Procs |-> IF p \in Forgotten(gone) THEN 0 ELSE stdin[p]]
    /\ Abandon({c})
    /\ UNCHANGED <<watchers, created, stray>>

\* The daemon dies with its calls, goroutines and maps; the containers run on.
Restart ==
    /\ disturbed < MaxDisturbed
    /\ disturbed' = disturbed + 1
    /\ run' = [k \in Runs |-> Free]
    /\ handle' = [p \in Procs |-> 0]
    /\ stdin' = [p \in Procs |-> 0]
    /\ watchers' = {}
    /\ left' = {}
    /\ UNCHANGED <<containers, created, stray>>

ContainerExits(c, state) ==
    /\ c.state = "running"
    /\ containers' = (containers \ {c}) \cup {[c EXCEPT !.state = state]}
    /\ UNCHANGED <<maps, run, watchers, past>>
-----------------------------------------------------------------------------
DockerInit ==
    /\ containers = {}
    /\ handle = [p \in Procs |-> 0]
    /\ stdin = [p \in Procs |-> 0]
    /\ run = [k \in Runs |-> Free]
    /\ watchers = {}
    /\ created = 0 /\ stray = {} /\ left = {} /\ disturbed = 0

RunStep(k) ==
    \/ \E c \in Commands : BeginRun(k, c)
    \/ RunFinished(k) \/ RunNoImage(k) \/ SignalProcedure(k)
    \/ ListContainers(k)
    \/ \E i \in run[k].todo : PruneListed(k, i)
    \/ CreateContainer(k) \/ Attach(k) \/ StartContainer(k)
    \/ SetupFails(k) \/ AttachFails(k) \/ StartFails(k)
    \/ \E state \in {"exited0", "exited1", "error"} : WaitEnds(k, state)

DockerNext ==
    \/ \E k \in Runs : RunStep(k)
    \/ \E w \in watchers : WatcherEnds(w[1], w[2])
    \/ StopAll \/ Restart
    \/ \E c \in Commands : StopOne(c)
    \/ \E c \in containers, state \in {"exited0", "exited1"} : ContainerExits(c, state)

DockerSpec == DockerInit /\ [][DockerNext]_dockerVars
-----------------------------------------------------------------------------
(* Properties                                                              *)

\* Every variable of the backend keeps its type.
DockerTypeOK ==
    /\ containers \subseteq Container
    /\ handle \in [Procs -> Ids \cup {0}] /\ stdin \in [Procs -> Ids \cup {0}]
    /\ \A k \in Runs : /\ run[k].pc \in {"free", "next", "prune", "attach", "start", "wait"}
                       /\ run[k].next \in Ids \cup {MaxContainers + 1}
                       /\ run[k].id \in Ids \cup {0} /\ run[k].todo \subseteq Ids
    /\ watchers \subseteq (Procs \X Ids)
    /\ created \in 0..MaxContainers /\ stray \subseteq Ids /\ left \subseteq Commands

\* A procedure never has two containers that are not exited, over retries,
\* restarts of the daemon and reuse: two servers on one volume would corrupt
\* it.  Only a call that a stop left behind can add or start one.
OneContainer ==
    \A c, d \in containers :
        Running(c) /\ Running(d) /\ c.proc = d.proc =>
            c = d \/ c.id \in stray \/ d.id \in stray

\* While a call waits for a container, console input and signals for its
\* procedure reach that container, whatever other commands end, are removed
\* or signalled meanwhile; only a stop that left a call behind undoes it.
InputReaches ==
    \A k \in Runs : run[k].pc = "wait" /\ run[k].cmd \notin left =>
        handle[Doing(k)] = run[k].id /\ stdin[Doing(k)] = run[k].id

\* A call goes on past a procedure only if its own container exited with 0,
\* its failure is ignored, or it was a signal and nothing of its target runs
\* (unless a call that a stop left behind gave the target a second container);
\* a container that was stopped or removed under it ends the call.
PassedMeansDone ==
    [][\A k \in Runs :
         run[k].pc \in {"next", "wait"} /\ run'[k].idx = run[k].idx + 1 =>
            IF Kind[Doing(k)] = "signal"
            THEN \A c \in containers' : c.proc = Target[Doing(k)] /\ c.state = "running" =>
                    c.proc[1] \in left \/ (\E d \in containers : d.proc = c.proc /\ d.id \in stray)
            ELSE \/ \E c \in Object(run[k].id) :
                       c.state = "exited0" \/ (Failed(c) /\ Doing(k) \in Ignored)
                 \/ Persistent(k)]_dockerVars
=============================================================================
