------------------------ MODULE RuntimeQueueLifecycle -----------------------
(***************************************************************************)
(* RuntimeQueue implements CommandLifecycle.  The phase of a command is in *)
(* the flags of its item or, without one, in the procedures of an earlier  *)
(* session; the outcome of a run is known when its goroutine has reported  *)
(* it, before the goroutine closes the channel of the caller.              *)
(***************************************************************************)
EXTENDS RuntimeQueue

PhaseOf(c) ==
    CASE c \notin queued -> IF c \in completed THEN "done" ELSE "none"
      [] c \in queued /\ item[c].inFlight -> "running"
      [] c \in queued /\ ~item[c].inFlight /\ item[c].err -> "failed"
      [] c \in queued /\ ~item[c].inFlight /\ ~item[c].err /\ item[c].runRequested -> "wanted"
      [] OTHER -> "done"

\* The goroutines that have reported the run r waits for.
Reported(r) == {w \in Workers : worker[w].chan = r /\ worker[w].pc \in {"exit", "backoff"}}

OwnOutcome(r) ==
    CASE doneChan[r] = "open" /\ Reported(r) = {} -> "pending"
      [] doneChan[r] = "open" /\ (\E w \in Reported(r) : worker[w].ok) -> "ok"
      [] doneChan[r] = "open" /\ (\E w \in Reported(r) : ~worker[w].ok) -> "failed"
      [] OTHER -> doneChan[r]

Told(r) ==
    IF req[r].pc = "done" /\ doneChan[r] # "none" THEN req[r].result ELSE "none"

\* The calls accepted so far that force their command.
Forced ==
    {r \in Requests : /\ req[r].pc # "idle" /\ Forces(req[r].kind)
                      /\ req[r].result \notin {"alreadyQueued", "doneOnce"}}

Lifecycle == INSTANCE CommandLifecycle WITH
    Once <- {c \in Commands : Mode[c] = "once"},
    Restarting <- {c \in Commands : Mode[c] = "restart"},
    Persistent <- {c \in Commands : Mode[c] = "persistent"},
    Callers <- Requests,
    phase <- [c \in Commands |-> PhaseOf(c)],
    holder <- [c \in Commands |-> IF c \in queued THEN item[c].chan ELSE None],
    forced <- Forced,
    finished <- completed,
    own <- [r \in Requests |-> OwnOutcome(r)],
    told <- [r \in Requests |-> Told(r)]

\* Every step of the queue is a step of the lifecycle or changes nothing of
\* it: a run-once command that is done runs again only by force, a command
\* runs after its needs and one run at a time, and a caller that waits is
\* told once, and told the outcome of its own run, whatever other calls,
\* passes and goroutines do meanwhile.  The exception the code makes is in
\* Tell: a caller whose command was queued again reads the newer item.
ImplementsLifecycle == Lifecycle!Spec
=============================================================================
