--------------------------- MODULE MCRuntimeQueue ---------------------------
(* Small instances of RuntimeQueue.                                        *)
EXTENDS RuntimeQueueLifecycle, TLC

CONSTANTS install, backup, serve, loop, i1, b1, s1, l1

\* A scroll: install <- backup <- serve, and serve needs install too.
ScrollCommandOf == i1 :> install @@ b1 :> backup @@ s1 :> serve
ScrollNeeds == install :> {} @@ backup :> {install} @@ serve :> {install, backup}
ScrollMode == install :> "once" @@ backup :> "always" @@ serve :> "persistent"
ScrollCalls ==
    ({"wait"} \X Commands) \cup {<<"waitEnv", serve>>, <<"temp", serve>>, <<"empty", None>>}

\* A scroll with a command that restarts for ever once the install is done.
LoopCommandOf == i1 :> install @@ b1 :> backup @@ l1 :> loop
LoopNeeds == install :> {} @@ backup :> {install} @@ loop :> {install}
LoopMode == install :> "always" @@ backup :> "always" @@ loop :> "restart"
LoopCalls == {<<"wait", backup>>, <<"forced", loop>>, <<"empty", None>>}

\* A scroll that is one restart command, and a client that waits for it.
WaitCommandOf == l1 :> loop
WaitNeeds == loop :> {}
WaitMode == loop :> "restart"
WaitCalls == {<<"wait", loop>>, <<"temp", loop>>}

\* Calls and goroutines are interchangeable.
CallSymmetry == Permutations(Requests) \cup Permutations(Workers)
=============================================================================
