------------------------- MODULE MCRuntimeSupervisor -------------------------
(* Small instances of RuntimeSupervisor.                                   *)
EXTENDS RuntimeSupervisor, TLC

CONSTANTS v1, v2

\* The scroll file of the second version declares a UI package.
Declared == {v2}

PublishKinds == {"publish", "update"}

Symmetry == Permutations(Calls) \cup Permutations(Sessions)

\* Operations overlap in the first life of the daemon only, as long as no
\* worker is at large, and at most one of them pulls.
OverlapBound ==
    overlap => /\ crashes = 0
               /\ \A c \in Calls : ~AtLarge(c)
               /\ Cardinality({c \in Calls : call[c].pc # "idle"}) <= 1
=============================================================================
