----------------------------- MODULE KeepAlive -----------------------------
(***************************************************************************)
(* keepAliveTraffic of the Kubernetes backend: a waiter polls the job of a *)
(* procedure, each poll samples the bytes its pod received, and a job that *)
(* received too little in the window of every threshold is deleted.        *)
(*                                                                         *)
(* Time is in minutes and counted backwards: a variable holds how long ago *)
(* something was, never a date.  An age is rounded down: a poll and the    *)
(* API calls it makes take time, so a sample of age a is a little more     *)
(* than a minutes old.  The poll interval of five seconds is rounded to    *)
(* none: such a poll follows whatever happens.                             *)
(***************************************************************************)
EXTENDS Integers, FiniteSets, FiniteSetsExt

CONSTANTS Thresholds,  \* of the procedure's ports: the bytes and the minutes
          MaxWindow,   \* the longest window, where ages stop to count
          MaxBytes     \* the most bytes a threshold asks for, where bytes do

ASSUME ThresholdsAssumption ==
    /\ MaxWindow \in Nat \ {0}
    /\ MaxBytes \in Nat
    /\ Thresholds # {}
    /\ Thresholds \subseteq [bytes : 0 .. MaxBytes, window : 1 .. MaxWindow]

VARIABLES job,       \* what became of the job
          jobAge,    \* since the job was created
          waited,    \* since this waiter began to wait for the job
          sleep,     \* what is left of the waiter's sleep, 0 below a minute
          due,       \* the sleep is over: the next step is a poll
          samples,   \* of the traffic store: the age, and the bytes since
          observed,  \* history: since the traffic store was empty
          received,  \* history: the bytes received in each of the last minutes
          blind      \* history: since the last poll without statistics

vars == <<job, jobAge, waited, sleep, due, samples, observed, received, blind>>

\* Where the poll interval changes for the last time.
MaxWaited == 120

Capped(n, cap) == IF n > cap THEN cap ELSE n

\* Mutant: the polls slow down once more than the tests of the interval say.
PollInterval_Slower(elapsed) == IF elapsed < 120 THEN 1 ELSE 10

PollInterval(elapsed) ==
    CASE elapsed < 30  -> 0
      [] elapsed < 60  -> 1
      [] elapsed < 120 -> 2
      [] OTHER         -> 5

Now == [age |-> 0, rx |-> 0]

\* record: a sample of the counter now, after those there are.
Recorded == samples \cup {Now}

\* Mutant: rxDelta from the last sample inside the window instead of the first.
RxDelta_FromLast(window) ==
    Min({s.rx : s \in {r \in Recorded : r.age < window}})

\* rxDelta: the bytes since the first sample inside the window.
RxDelta(window) == Max({s.rx : s \in {r \in Recorded : r.age < window}})

\* Mutants: windowReady as soon as there are two samples, and by the last sample
\* instead of the first.
WindowReady_TwoSamples(window) == Cardinality(Recorded) > 1
WindowReady_ByLast(window) == \A s \in Recorded : s.age >= window

\* windowReady: there is a sample from before the window.
WindowReady(window) == \E s \in Recorded : s.age >= window

Idle == \A t \in Thresholds : /\ jobAge >= t.window
                              /\ WindowReady(t.window)
                              /\ RxDelta(t.window) < t.bytes

Init == /\ job = "running"
        /\ jobAge = 0
        /\ waited = 0
        /\ sleep = 0
        /\ due = TRUE
        /\ samples = {}
        /\ observed = 0
        /\ received = [m \in 0 .. MaxWindow - 1 |-> 0]
        /\ blind = MaxWindow

----------------------------------------------------------------------------
\* The waiter sleeps until its next poll.
Sleep == /\ sleep' = PollInterval(waited)
         /\ due' = FALSE
         /\ UNCHANGED <<jobAge, waited, observed, received>>

\* A poll of an active job that keeps it.
PollKeeps == /\ job = "running" /\ due
             /\ ~Idle
             /\ samples' = Recorded
             /\ Sleep
             /\ UNCHANGED <<job, blind>>

\* The statistics or the pod cannot be read: the job is kept.
PollUnavailable == /\ job = "running" /\ due
                   /\ blind' = 0
                   /\ Sleep
                   /\ UNCHANGED <<job, samples>>

\* deleteJobAndWait deletes the job and the waiter records a clean exit.
PollStops == /\ job = "running" /\ due
             /\ Idle
             /\ job' = "stopped"
             /\ samples' = Recorded
             /\ UNCHANGED <<jobAge, waited, sleep, due, observed, received, blind>>

\* deleteJobAndWait fails, before the job is deleted or while it waits for
\* that: the waiter goes on.
PollFails == /\ job = "running" /\ due
             /\ Idle
             /\ job' \in {"running", "gone"}
             /\ samples' = Recorded
             /\ Sleep
             /\ UNCHANGED blind

\* A poll finds no job: an error, or the exit an earlier waiter of a job of
\* this name recorded.
PollFindsNone == /\ job = "gone"
                 /\ job' \in {"failed", "ended"}
                 /\ UNCHANGED <<jobAge, waited, sleep, due, samples,
                                observed, received, blind>>

\* ExpectedPorts: a status query samples the pod as well.
Query == /\ job = "running"
         /\ samples' = Recorded
         /\ UNCHANGED <<job, jobAge, waited, sleep, due, observed, received, blind>>

\* The procedure ends by itself and the waiter returns its exit.
JobEnds == /\ job = "running"
           /\ job' = "ended"
           /\ UNCHANGED <<jobAge, waited, sleep, due, samples,
                          observed, received, blind>>

\* The daemon restarts while the job runs: the traffic store is empty and a new
\* waiter begins.
Restart == /\ job = "running"
           /\ samples' = {}
           /\ observed' = 0
           /\ waited' = 0
           /\ sleep' = 0
           /\ due' = TRUE
           /\ UNCHANGED <<job, jobAge, received, blind>>

\* The pod receives a byte, which every sample misses.
Receive ==
    /\ job = "running" /\ ~due
    /\ samples' = {[s EXCEPT !.rx = IF s.age < MaxWindow
                                    THEN Capped(@ + 1, MaxBytes) ELSE @] :
                   s \in samples}
    /\ received' = [received EXCEPT ![0] = Capped(@ + 1, MaxBytes)]
    /\ due' = (sleep = 0)
    /\ UNCHANGED <<job, jobAge, waited, sleep, observed, blind>>

\* What a sample is a minute later; of one older than every window only that
\* there is one matters.
Aged(s) == IF s.age + 1 < MaxWindow THEN [s EXCEPT !.age = @ + 1]
                                    ELSE [age |-> MaxWindow, rx |-> 0]

\* A minute passes.
Tick ==
    /\ job = "running" /\ ~due
    /\ jobAge' = Capped(jobAge + 1, MaxWindow)
    /\ waited' = Capped(waited + 1, MaxWaited)
    /\ sleep' = IF sleep = 0 THEN 0 ELSE sleep - 1
    /\ due' = (sleep <= 1)
    /\ samples' = {Aged(s) : s \in samples}
    /\ observed' = Capped(observed + 1, MaxWindow)
    /\ received' = [m \in 0 .. MaxWindow - 1 |->
                    IF m = 0 THEN 0 ELSE received[m - 1]]
    /\ blind' = Capped(blind + 1, MaxWindow)
    /\ UNCHANGED job

Next == \/ PollKeeps
        \/ PollUnavailable
        \/ PollStops
        \/ PollFails
        \/ PollFindsNone
        \/ Query
        \/ JobEnds
        \/ Restart
        \/ Receive
        \/ Tick

Safe == Init /\ [][Next]_vars

\* Time passes, and a sleep ends.
Spec == /\ Safe
        /\ WF_vars(Tick)
        /\ WF_vars(PollKeeps \/ PollUnavailable \/ PollStops \/ PollFails)
        /\ WF_vars(PollFindsNone)

----------------------------------------------------------------------------
\* The variables have their types.
KeepAliveTypeOK ==
    /\ job \in {"running", "stopped", "gone", "failed", "ended"}
    /\ jobAge \in 0 .. MaxWindow
    /\ waited \in 0 .. MaxWaited
    /\ sleep \in 0 .. 5
    /\ due \in BOOLEAN
    /\ samples \subseteq [age : 0 .. MaxWindow, rx : 0 .. MaxBytes]
    /\ observed \in 0 .. MaxWindow
    /\ received \in [0 .. MaxWindow - 1 -> 0 .. MaxBytes]
    /\ blind \in 0 .. MaxWindow

\* The bytes received in the last n minutes, the current one included.
SumOf(bytes) ==
    LET sum[n \in 0 .. MaxWindow] == IF n = 0 THEN 0 ELSE sum[n - 1] + bytes[n - 1] IN sum
ReceivedIn(n) == IF n > 0 THEN SumOf(received)[n] ELSE 0

\* The minutes of a window before the first poll in it: a sleep of minutes ends
\* when a minute begins, so that minute adds nothing.
Unseen == IF PollInterval(waited) = 0 THEN 0 ELSE PollInterval(waited) - 1

Deleted == job = "running" /\ job' \in {"stopped", "gone"}

\* A procedure is deleted only if each port received less than it asks for
\* in its window, as the documentation of keepAliveTraffic says, provided that
\* no poll of the window went without statistics.
BusyKept ==
    [][Deleted => \A t \in Thresholds :
         blind >= t.window => ReceivedIn(t.window) < t.bytes]_vars

\* What the code keeps of it: the traffic before the first poll in the window
\* does not count, whatever else sampled the pod.  In the first half hour of a
\* waiter, when it polls every five seconds, the whole window does count.
BusyRecentlyKept ==
    [][Deleted => \A t \in Thresholds :
         blind >= t.window => ReceivedIn(t.window - Unseen) < t.bytes]_vars

\* A daemon that restarted deletes nothing until it has observed the job for
\* the whole of every window: what it has not seen is not taken for idle.
FailsOpen ==
    [][Deleted => \A t \in Thresholds : observed >= t.window]_vars

\* A procedure that no longer receives anything does not run for ever, if from
\* some time on the daemon runs, the statistics can be read and the job can be
\* deleted: the windows do get ready although each poll adds a sample.
IdleStopped ==
    <>[][PollKeeps \/ PollStops \/ Query \/ Tick]_vars => <>(job # "running")

=============================================================================
