------------------------- MODULE KubernetesProcedures -------------------------
(***************************************************************************)
(* The Kubernetes backend running the procedures of one scroll             *)
(* (internal/runtime/kubernetes).  A RunCommand call goes through the      *)
(* procedures of a command in order; each is a Job that the call creates   *)
(* or finds, polls BY NAME and, when it succeeded, deletes.  Failed jobs    *)
(* are kept and give the next attempt its number; the number of an attempt *)
(* that succeeded is used again.                                           *)
(*                                                                         *)
(* The calls share the cluster with StopRuntime and StopCommand, which      *)
(* delete jobs under the polling calls, and with crashes of the daemon,     *)
(* which leave the jobs without a call.  The API server, the job           *)
(* controller and the clock of the exit cache are the environment.          *)
(***************************************************************************)
EXTENDS ScrollProcedures, FiniteSetsExt

CONSTANTS
    IdleStops,    \* procedures whose keepAliveTraffic may stop them
    Calls,        \* slots for RunCommand calls
    MaxJobs,      \* bound on jobs created
    MaxFaults     \* bound on stops, removed commands and crashes of the daemon

ASSUME KubernetesAssumption ==
    /\ IdleStops \subseteq Procs
    /\ MaxJobs \in Nat /\ MaxFaults \in Nat

VARIABLES
    jobs,      \* the Job objects of the scroll
    sets,      \* the StatefulSet of each procedure
    selected,  \* the procedure the Service of a command's port selects
    exits,     \* jobExits: names of jobs recorded with exit code 0
    call,      \* the RunCommand calls
    made,      \* history: jobs created so far
    ran,       \* history: <<name, uid>> of jobs that succeeded or were stopped as idle
    late,      \* history: uids of jobs created by calls that outlived a stop
    strays,    \* history: commands of which a stop left a call behind
    faults     \* history: stops, removed commands and crashes so far

clusterVars == <<jobs, sets, selected>>
history == <<made, ran, late, strays, faults>>
kubeVars == <<clusterVars, exits, call, history>>
-----------------------------------------------------------------------------
Attempts == 1..(MaxJobs + 1)
Job == [proc : Procs, attempt : Attempts, uid : 1..MaxJobs,
        status : {"new", "active", "succeeded", "failed"}]

\* NoProc also stands for no job.
ASSUME NoJobAssumption == NoProc \notin Job

\* procedureAttemptName: a name stands for a procedure and an attempt.
NameOf(j) == <<j.proc, j.attempt>>
Names == Procs \X Attempts
Named(n) == {j \in jobs : NameOf(j) = n}

\* Neither succeeded nor failed; activeKubernetesJob also asks for a pod.
Unfinished(j) == j.status \in {"new", "active"}

\* What a RunCommand call remembers: the command and the index of its
\* procedure, the names still to be deleted, the attempt to create or the
\* unfinished job to reuse, the job it polls by name, and, as history, the
\* uid of that job, the jobs active at its start that are not over and that it
\* has not given up, and whether a stop left the call behind.
Idle == [pc |-> "idle", cmd |-> "none", idx |-> 0, todo |-> {}, next |-> 1,
         reuse |-> NoProc, name |-> NoProc, uid |-> 0, seen |-> {}, loose |-> FALSE]

Current(k) == <<call[k].cmd, call[k].idx>>

UidsOpen == {j.uid : j \in {j \in jobs : Unfinished(j)}}

\* A procedure is done: the call goes on with the next one.
PassBut(k, uids) ==
    call' = [call EXCEPT ![k] = [Idle EXCEPT !.pc = "next", !.cmd = call[k].cmd,
                !.idx = call[k].idx + 1, !.seen = (call[k].seen \cap UidsOpen) \ uids,
                !.loose = call[k].loose]]
Pass(k) == PassBut(k, {})
Return(k) == call' = [call EXCEPT ![k] = Idle]
Goto(k, pc) == call' = [call EXCEPT ![k].pc = pc]
-----------------------------------------------------------------------------
(* RunCommand                                                              *)

\* The session runs a command once at a time, unless a stop left a call behind.
Begin(k, c) ==
    /\ call[k].pc = "idle"
    /\ \A m \in Calls : call[m].cmd = c => call[m].loose
    /\ call' = [call EXCEPT ![k] = [Idle EXCEPT !.cmd = c, !.idx = 1,
                  !.pc = IF Mode[c] = "restart" THEN "resume" ELSE "next"]]
    /\ UNCHANGED <<clusterVars, exits, history>>

ActiveJobs(c) == {j \in jobs : j.proc[1] = c /\ j.status = "active"}

\* A restart command goes on with the last procedure that is active ...
ResumeIndex(c) == Max({1} \cup {j.proc[2] : j \in ActiveJobs(c)})

\* ... and deletes the active jobs of earlier ones.
Superseded(c, index) == {NameOf(j) : j \in {j \in ActiveJobs(c) : j.proc[2] < index}}

Resume(k) ==
    LET c == call[k].cmd
        index == ResumeIndex(c)
    IN
    /\ call[k].pc = "resume"
    /\ call' = [call EXCEPT ![k].pc = "supersede", ![k].idx = index,
                            ![k].todo = Superseded(c, index),
                            ![k].seen = {j.uid : j \in ActiveJobs(c)}]
    /\ UNCHANGED <<clusterVars, exits, history>>

\* deleteJobAndWait deletes whatever job has the name.
DeleteListed(k, n) ==
    /\ call[k].pc \in {"supersede", "clean"}
    /\ n \in call[k].todo
    /\ jobs' = jobs \ Named(n)
    /\ call' = [call EXCEPT ![k].todo = @ \ {n}]
    /\ UNCHANGED <<sets, selected, exits, history>>

AllSuperseded(k) ==
    /\ call[k].pc = "supersede"
    /\ call[k].todo = {}
    /\ Goto(k, "next")
    /\ UNCHANGED <<clusterVars, exits, history>>

\* The cluster refuses or times out: the call returns an error, and leaves
\* the job that it polled.
CallFails(k) ==
    /\ call[k].pc \in {"resume", "supersede", "next", "list", "clean", "ready", "poll"}
    /\ Return(k)
    /\ UNCHANGED <<clusterVars, exits, history>>

Finished(k) ==
    /\ call[k].pc = "next"
    /\ call[k].idx > Length[call[k].cmd]
    /\ Return(k)
    /\ UNCHANGED <<clusterVars, exits, history>>

AtProcedure(k, kind) ==
    /\ call[k].pc = "next"
    /\ call[k].idx <= Length[call[k].cmd]
    /\ Kind[Current(k)] = kind

\* A signal deletes the workload of its target, whoever runs it.
Signal(k) ==
    /\ AtProcedure(k, "signal")
    /\ jobs' = {j \in jobs : j.proc # Target[Current(k)]}
    /\ sets' = [sets EXCEPT ![Target[Current(k)]] = "none"]
    /\ Pass(k)
    /\ UNCHANGED <<selected, exits, history>>

NoImage(k) ==
    /\ AtProcedure(k, "noImage")
    /\ Return(k)
    /\ UNCHANGED <<clusterVars, exits, history>>

\* Mutant: a Service that exists is left as it is.
Reconcile_CreateOnly(p) == [selected EXCEPT ![p[1]] = IF @ = NoProc THEN p ELSE @]

\* ensureExpectedServices: the procedures of a command share the Service of
\* their port; its selector moves to the procedure about to run.
Reconcile(p) == [selected EXCEPT ![p[1]] = p]

EnsureServices(k) ==
    /\ AtProcedure(k, "image")
    /\ Mode[call[k].cmd] # "persistent"
    /\ selected' = Reconcile(Current(k))
    /\ Goto(k, "list")
    /\ UNCHANGED <<jobs, sets, exits, history>>

\* ensurePersistentProcedure creates the StatefulSet or updates it.
EnsureStatefulSet(k) ==
    /\ AtProcedure(k, "image")
    /\ Mode[call[k].cmd] = "persistent"
    /\ selected' = Reconcile(Current(k))
    /\ sets' = [sets EXCEPT ![Current(k)] = IF @ = "none" THEN "starting" ELSE @]
    /\ Goto(k, "ready")
    /\ UNCHANGED <<jobs, exits, history>>

StatefulSetReady(k) ==
    /\ call[k].pc = "ready"
    /\ sets[Current(k)] = "ready"
    /\ Pass(k)
    /\ UNCHANGED <<clusterVars, exits, history>>
-----------------------------------------------------------------------------
(* One procedure as a job                                                  *)

JobsOf(p) == {j \in jobs : j.proc = p}

\* Mutant: only a job whose pod runs is found.
Reusable_Active(p) == {j \in JobsOf(p) : j.status = "active"}

Reusable(p) == {j \in JobsOf(p) : Unfinished(j)}

\* createOrReuseProcedureJob decides on the list it was given; the jobs
\* of it that succeeded are deleted first.
List(k) ==
    LET p == Current(k)
        open == Reusable(p)
    IN
    /\ call[k].pc = "list"
    /\ call' = [call EXCEPT ![k].pc = "clean",
          ![k].todo = {NameOf(j) : j \in {j \in JobsOf(p) : j.status = "succeeded"}},
          ![k].next = 1 + Max({0} \cup {j.attempt : j \in {j \in JobsOf(p) : j.status # "succeeded"}}),
          ![k].reuse = IF open = {} THEN NoProc
                       ELSE CHOOSE j \in open : \A i \in open : i.uid <= j.uid]
    /\ UNCHANGED <<clusterVars, exits, history>>

Reuse(k) ==
    /\ call[k].pc = "clean" /\ call[k].todo = {}
    /\ call[k].reuse # NoProc
    /\ call' = [call EXCEPT ![k].pc = "poll", ![k].name = NameOf(call[k].reuse),
                            ![k].uid = call[k].reuse.uid, ![k].reuse = NoProc,
                            ![k].next = 1]
    /\ UNCHANGED <<clusterVars, exits, history>>

\* A name that is taken is an error (CallFails).
Create(k) ==
    LET n == <<Current(k), call[k].next>> IN
    /\ call[k].pc = "clean" /\ call[k].todo = {}
    /\ call[k].reuse = NoProc
    /\ Named(n) = {}
    /\ made < MaxJobs
    /\ made' = made + 1
    /\ jobs' = jobs \cup {[proc |-> n[1], attempt |-> n[2], uid |-> made + 1, status |-> "new"]}
    /\ late' = IF call[k].loose THEN late \cup {made + 1} ELSE late
    /\ call' = [call EXCEPT ![k].pc = "poll", ![k].name = n, ![k].uid = made + 1,
                            ![k].next = 1]
    /\ UNCHANGED <<sets, selected, exits, ran, strays, faults>>

\* Mutant: a missing job counts as done.
KnownExit_Always(n) == TRUE

\* recentJobExit knows a job by its name alone.
KnownExit(n) == n \in exits

\* waitForJobWithIdleStop asks for the job by name.  It is gone: someone
\* deleted it, and an exit recorded for the name counts as its exit.
PollMissing(k) ==
    /\ call[k].pc = "poll"
    /\ Named(call[k].name) = {}
    /\ IF KnownExit(call[k].name) THEN Goto(k, "finish") ELSE Return(k)
    /\ UNCHANGED <<clusterVars, exits, history>>

PollSucceeded(k) ==
    /\ call[k].pc = "poll"
    /\ \E j \in Named(call[k].name) : j.status = "succeeded"
    /\ exits' = exits \cup {call[k].name}
    /\ Goto(k, "finish")
    /\ UNCHANGED <<clusterVars, history>>

\* The unfinished jobs of the polled name.
Polled(k) == {j.uid : j \in {j \in Named(call[k].name) : Unfinished(j)}}

\* The job failed, or a pod of it does not start (jobStartupFailure): an exit
\* code other than 0.  The job is kept in both cases, and in the second the
\* cluster goes on with it.
PollFailed(k) ==
    /\ call[k].pc = "poll"
    /\ \E j \in Named(call[k].name) : j.status # "succeeded"
    /\ IF Current(k) \in Ignored THEN PassBut(k, Polled(k)) ELSE Return(k)
    /\ UNCHANGED <<clusterVars, exits, history>>

\* keepAliveTraffic (module KeepAlive) found the procedure idle.
PollIdle(k) ==
    /\ call[k].pc = "poll"
    /\ Current(k) \in IdleStops
    /\ \E j \in Named(call[k].name) :
          /\ j.status = "active"
          /\ ran' = ran \cup {<<call[k].name, j.uid>>}
    /\ jobs' = jobs \ Named(call[k].name)
    /\ exits' = exits \cup {call[k].name}
    /\ Goto(k, "finish")
    /\ UNCHANGED <<sets, selected, made, late, strays, faults>>

\* deleteFinishedJob: the exit is recorded, then whatever job has the name
\* is deleted; a failure to delete is only logged.
DeleteFinished(k) ==
    /\ call[k].pc = "finish"
    /\ exits' = exits \cup {call[k].name}
    /\ jobs' \in {jobs, jobs \ Named(call[k].name)}
    /\ Pass(k)
    /\ UNCHANGED <<sets, selected, history>>
-----------------------------------------------------------------------------
(* Stops, crashes and the cluster                                          *)

\* StopRuntime deletes all workloads and keeps the Services; calls that are
\* still under way after the drain time of the session go on.
StopRuntime ==
    /\ faults < MaxFaults
    /\ faults' = faults + 1
    /\ jobs' = {}
    /\ sets' = [p \in Procs |-> "none"]
    /\ call' = [k \in Calls |-> IF call[k].pc = "idle" THEN call[k]
                                ELSE [call[k] EXCEPT !.loose = TRUE]]
    /\ strays' = strays \cup ({call[k].cmd : k \in Calls} \cap Commands)
    /\ UNCHANGED <<selected, exits, made, ran, late>>

\* StopCommand (RemoveCommand) deletes those of one command, Services too.
StopCommand(c) ==
    /\ faults < MaxFaults
    /\ faults' = faults + 1
    /\ jobs' = {j \in jobs : j.proc[1] # c}
    /\ sets' = [p \in Procs |-> IF p[1] = c THEN "none" ELSE sets[p]]
    /\ selected' = [selected EXCEPT ![c] = NoProc]
    /\ call' = [k \in Calls |-> IF call[k].cmd # c THEN call[k]
                                ELSE [call[k] EXCEPT !.loose = TRUE]]
    /\ strays' = strays \cup ({call[k].cmd : k \in Calls} \cap {c})
    /\ UNCHANGED <<exits, made, ran, late>>

\* The daemon dies with its calls and its exit cache; the cluster goes on.
Crash ==
    /\ faults < MaxFaults
    /\ faults' = faults + 1
    /\ call' = [k \in Calls |-> Idle]
    /\ exits' = {}
    /\ strays' = {}
    /\ UNCHANGED <<clusterVars, made, ran, late>>

SetStatus(j, status) == jobs' = (jobs \ {j}) \cup {[j EXCEPT !.status = status]}

PodStarts(j) ==
    /\ j.status = "new"
    /\ SetStatus(j, "active")
    /\ UNCHANGED <<sets, selected, exits, call, history>>

JobSucceeds(j) ==
    /\ j.status = "active"
    /\ SetStatus(j, "succeeded")
    /\ ran' = ran \cup {<<NameOf(j), j.uid>>}
    /\ UNCHANGED <<sets, selected, exits, call, made, late, strays, faults>>

JobFails(j) ==
    /\ j.status = "active"
    /\ SetStatus(j, "failed")
    /\ UNCHANGED <<sets, selected, exits, call, history>>

ReplicaReady(p) ==
    /\ sets[p] = "starting"
    /\ sets' = [sets EXCEPT ![p] = "ready"]
    /\ UNCHANGED <<jobs, selected, exits, call, history>>

\* An exit is forgotten after ten minutes.
ExitExpires(n) ==
    /\ exits' = exits \ {n}
    /\ UNCHANGED <<clusterVars, call, history>>
-----------------------------------------------------------------------------
KubeInit ==
    /\ jobs = {}
    /\ sets = [p \in Procs |-> "none"]
    /\ selected = [c \in Commands |-> NoProc]
    /\ exits = {}
    /\ call = [k \in Calls |-> Idle]
    /\ made = 0 /\ ran = {} /\ late = {} /\ strays = {}
    /\ faults = 0

RunCommand(k) ==
    \/ \E c \in Commands : Begin(k, c)
    \/ Resume(k) \/ AllSuperseded(k) \/ CallFails(k) \/ Finished(k)
    \/ \E n \in call[k].todo : DeleteListed(k, n)
    \/ Signal(k) \/ NoImage(k) \/ EnsureServices(k)
    \/ EnsureStatefulSet(k) \/ StatefulSetReady(k)
    \/ List(k) \/ Reuse(k) \/ Create(k)
    \/ PollMissing(k) \/ PollSucceeded(k) \/ PollFailed(k) \/ PollIdle(k)
    \/ DeleteFinished(k)

KubeNext ==
    \/ \E k \in Calls : RunCommand(k)
    \/ StopRuntime \/ Crash
    \/ \E c \in Commands : StopCommand(c)
    \/ \E j \in jobs : PodStarts(j) \/ JobSucceeds(j) \/ JobFails(j)
    \/ \E p \in Procs : ReplicaReady(p)
    \/ \E n \in exits : ExitExpires(n)

KubeSpec == KubeInit /\ [][KubeNext]_kubeVars
-----------------------------------------------------------------------------
(* Properties                                                              *)

\* Every variable of the backend keeps its type.
KubeTypeOK ==
    /\ jobs \subseteq Job
    /\ sets \in [Procs -> {"none", "starting", "ready"}]
    /\ selected \in [Commands -> Procs \cup {NoProc}]
    /\ exits \subseteq Names
    /\ \A k \in Calls : /\ call[k].pc \in {"idle", "resume", "supersede", "next", "list",
                                           "clean", "ready", "poll", "finish"}
                        /\ call[k].todo \subseteq Names /\ call[k].next \in Attempts
                        /\ call[k].name \in Names \cup {NoProc}
    /\ made \in 0..MaxJobs /\ ran \subseteq (Names \X (1..MaxJobs)) /\ late \subseteq 1..MaxJobs
    /\ strays \subseteq Commands

\* A procedure never has two unfinished jobs, over retries, crashes, reuse
\* and removed commands: two servers on one volume would corrupt it.  Only a
\* call that a stop left behind between its list and its create can add one.
OneActiveJob ==
    \A i, j \in jobs :
        Unfinished(i) /\ Unfinished(j) /\ i.proc = j.proc =>
            i = j \/ i.uid \in late \/ j.uid \in late

\* The call goes on to the next procedure with this one done.
Passes(k) == call[k].pc \in {"poll", "finish"} /\ call'[k].pc = "next"

\* A procedure is reported as done only if its job succeeded or was stopped
\* as idle, if its failure is ignored, or, when its job is gone, if some job
\* of the same name had succeeded before.
DoneMeansRan ==
    [][\A k \in Calls : Passes(k) =>
         \/ <<call[k].name, call[k].uid>> \in ran
         \/ Current(k) \in Ignored
         \/ /\ \E u \in 1..MaxJobs : <<call[k].name, u>> \in ran
            /\ \A j \in jobs : j.uid # call[k].uid]_kubeVars

\* A restart command that is resumed, after a crash or an error, waits for
\* one procedure at a time, and no other procedure that was active when it
\* was resumed still runs, except one it gave up itself: its pod did not
\* start, and its failure is ignored.  Not promised once a call that a stop
\* left behind has added a job.
ResumedAlone ==
    late = {} =>
        \A k \in Calls : call[k].pc = "poll" /\ ~call[k].loose =>
            \A j \in jobs : Unfinished(j) /\ j.uid \in call[k].seen => j.proc = Current(k)

\* While a call waits for a procedure, the port of its command leads to that
\* procedure and not to an earlier one (the coldstarter before the server),
\* unless a stop has left another call of the command behind.
PortFollows ==
    \A k \in Calls :
        call[k].pc \in {"list", "clean", "poll"} /\ call[k].cmd \notin strays =>
            selected[call[k].cmd] = Current(k)
=============================================================================
