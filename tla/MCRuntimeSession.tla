-------------------------- MODULE MCRuntimeSession --------------------------
(* Small instances of RuntimeSession.                                      *)
EXTENDS RuntimeSession, TLC

CONSTANTS install, serve, i1, s1

\* install <- serve, where serve is the serve command of the scroll.
StopCommandOf == i1 :> install @@ s1 :> serve
StopNeeds == install :> {} @@ serve :> {install}
StopMode == install :> "once" @@ serve :> "restart"

\* Two commands that do not need each other.
CrashNeeds == install :> {} @@ serve :> {}
CrashMode == install :> "once" @@ serve :> "always"
LifeCalls == {<<"temp", install>>, <<"forced", serve>>, <<"empty", None>>}

HydrateCalls == {<<"temp", serve>>}

\* Nobody but Run asks for a command.
NoCalls == {}

CallSymmetry == Permutations(Requests) \cup Permutations(Workers)
=============================================================================
