---------------------------- MODULE MCProcedures ----------------------------
(***************************************************************************)
(* One scroll on either backend.  internal/runtime/backend.go picks one    *)
(* when the daemon starts; the variables of the other never change.        *)
(***************************************************************************)
EXTENDS KubernetesProcedures, DockerProcedures, TLC

CONSTANTS serve, admin, k1, k2

VARIABLE backend

\* The serve command of a scroll with a coldstarter, and a persistent
\* command that ends with a procedure without an image.
MCLength == serve :> 2 @@ admin :> 3
MCMode == serve :> "restart" @@ admin :> "persistent"
MCKind == <<serve, 1>> :> "image" @@ <<serve, 2>> :> "image" @@
          <<admin, 1>> :> "signal" @@ <<admin, 2>> :> "image" @@ <<admin, 3>> :> "noImage"
MCTarget == <<admin, 1>> :> <<serve, 2>>
Coldstarter == {<<serve, 1>>}

CallSymmetry == Permutations({k1, k2})

Init == KubeInit /\ DockerInit /\ backend \in {"kubernetes", "docker"}

Next ==
    \/ backend = "kubernetes" /\ KubeNext /\ UNCHANGED <<dockerVars, backend>>
    \/ backend = "docker" /\ DockerNext /\ UNCHANGED <<kubeVars, backend>>

vars == <<kubeVars, dockerVars, backend>>
Spec == Init /\ [][Next]_vars

\* The variables of both backends keep their types.
ProceduresTypeOK == KubeTypeOK /\ DockerTypeOK

\* On neither backend a procedure ever has two workloads that may run, and
\* what a resumed restart command waits for runs alone.
OneWorkload == OneActiveJob /\ OneContainer /\ ResumedAlone

\* On neither backend a procedure counts as done without its own workload
\* having run to its end.
DoneHonest == DoneMeansRan /\ PassedMeansDone
=============================================================================
