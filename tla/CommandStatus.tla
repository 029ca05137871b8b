---------------------------- MODULE CommandStatus ----------------------------
(***************************************************************************)
(* How the daemon turns the statuses of single procedures into the status  *)
(* of a command, and those into the status of a scroll.  The same          *)
(* derivation exists twice in the code, for the session and for the queue  *)
(* (runtime_status.go and queue_manager.go); both are this operator.       *)
(*                                                                         *)
(* A command is given as the SET of its procedures' statuses: the loop of  *)
(* the code only asks which statuses occur, so order and number of the     *)
(* procedures do not matter.  "unset" is a procedure with no entry in the  *)
(* record; "none" is a command without a derived status (ok = false).      *)
(***************************************************************************)

ProcedureStatuses == {"unset", "waiting", "running", "done", "error"}

CommandStatuses == {"none", "waiting", "running", "done", "error"}

ScrollStatuses == {"created", "running", "stopped", "error"}

\* The status of a command whose procedures have the statuses in seen.  A
\* command that is partly done and partly without entries counts as waiting.
DeriveCommandStatus(seen) ==
    CASE "error" \in seen -> "error"
      [] "error" \notin seen /\ "running" \in seen -> "running"
      [] seen \cap {"error", "running"} = {} /\ "waiting" \in seen -> "waiting"
      [] seen = {"unset", "done"} -> "waiting"
      [] seen = {"done"} -> "done"
      [] OTHER -> "none"

\* The status of a scroll whose commands have the derived statuses in
\* commandStatuses ("none" entries are absent from the code's map).
DeriveScrollStatus(commandStatuses) ==
    LET derived == commandStatuses \ {"none"} IN
    CASE derived = {} -> "created"
      [] "error" \in derived -> "error"
      [] "error" \notin derived /\ derived \cap {"running", "waiting"} # {} -> "running"
      [] derived = {"done"} -> "stopped"
=============================================================================
