--------------------------- MODULE ScrollProcedures ---------------------------
(***************************************************************************)
(* The commands of one scroll as a backend sees them                       *)
(* (internal/core/domain/scroll.go): a command is a sequence of procedures *)
(* with a run mode; a procedure runs an image or signals another one.      *)
(* Both backends, KubernetesProcedures and DockerProcedures, run these.    *)
(***************************************************************************)
EXTENDS Integers

CONSTANTS
    Commands,     \* the commands of the scroll file
    Length,       \* the number of procedures of each command
    Mode,         \* the run mode of each command
    Kind,         \* what each procedure is
    Target,       \* the procedure a signal procedure stops
    Ignored,      \* procedures with ignore_failure
    NoProc        \* no procedure

\* A procedure: its command and its place among the command's procedures.
Procs == UNION {{<<c, i>> : i \in 1..Length[c]} : c \in Commands}

ASSUME ProceduresAssumption ==
    /\ Length \in [Commands -> Nat \ {0}]
    /\ Mode \in [Commands -> {"finite", "restart", "persistent"}]
    /\ Kind \in [Procs -> {"image", "signal", "noImage"}]
    /\ Target \in [{p \in Procs : Kind[p] = "signal"} -> Procs]
    /\ Ignored \subseteq Procs
    /\ NoProc \notin Procs
=============================================================================
