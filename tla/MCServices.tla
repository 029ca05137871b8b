----------------------------- MODULE MCServices -----------------------------
(***************************************************************************)
(* The services beside the daemon's core, each on its own: they share no   *)
(* state, and a behaviour is one of one part; the variables of the others  *)
(* never change.                                                           *)
(***************************************************************************)
EXTENDS DevServer, ColdStarter, ConsoleHub, StateStores, RegistryTransfer,
        DataChunks, RuntimeRouting, MCAlgorithms, TLC

CONSTANTS b1, b2, main, query, one, two

VARIABLE part

servicesVars == <<part, devVars, coldVars, hubVars, storeVars, registryVars, dataVars,
                  routingVars>>

MCBuilds == <<b1, b2>>
MCHandler == main :> "lua" @@ query :> "generic"
MCProtocol == main :> "tcp" @@ query :> "udp"

\* Two versions of a scroll, which differ in their data.
MCLayersOf == "v1" :> <<"scroll", "data1">> @@ "v2" :> <<"scroll", "data2">>
MCSize == "scroll" :> 1 @@ "data1" :> 2 @@ "data2" :> 1
MCPathOf == "scroll" :> "scroll" @@ "data1" :> "data" @@ "data2" :> "data"

Chunk(path, skip, chunks) ==
    [path |-> path, absolute |-> FALSE, skip |-> skip, chunks |-> chunks]
Leaf(path) == Chunk(path, FALSE, <<>>)
MCFiles == {<<"maps", "a", "x">>, <<"maps", "a", "y">>, <<"maps", "b">>, <<"cfg">>}
MCFirstTree == MCFiles \ {<<"maps", "a", "y">>}
ChunkPaths == {<<"cfg">>, <<"maps">>, <<"maps", "a">>, <<"maps", "*">>, <<"*">>, <<"cfg", "..", "maps">>}
ChildPaths == {<<"a">>, <<"a", "x">>, <<"*">>, <<".">>, <<"..", "cfg">>}
\* None, one, two that may overlap, one in another and three nested ones.
MCDeclarations ==
    {<<>>} \cup {<<Chunk(p, skip, <<>>)>> : p \in ChunkPaths, skip \in BOOLEAN}
    \cup {<<Leaf(<<"..", "maps">>)>>, <<Leaf(<<"cfg">>), Leaf(<<"maps">>)>>,
          <<Leaf(<<"maps">>), Leaf(<<"maps", "a">>)>>}
    \cup {<<Chunk(<<"maps">>, skip, <<Chunk(p, ~skip, <<>>)>>)>> : p \in ChildPaths, skip \in BOOLEAN}
    \cup {<<Chunk(<<"maps">>, FALSE, <<[Leaf(<<"maps", "a">>) EXCEPT !.absolute = TRUE]>>)>>,
          <<Chunk(<<"*">>, FALSE, <<Leaf(<<"a">>)>>)>>,
          <<Chunk(<<"maps">>, TRUE, <<Chunk(<<"a">>, FALSE, <<Leaf(<<"x">>)>>)>>)>>}
MCLinks == {<<"cfg">>}
MCLinkTarget == [l \in MCLinks |-> <<"maps", "a", "x">>]
MCMayBeEmpty == {<<"maps", "b">>, <<"maps", "a", "x">>}

Port(name, port, protocol) == [name |-> name, port |-> port, protocol |-> protocol]
MCDeclared1 == <<Port("main", 0, "tcp"), Port("query", 27015, "udp")>>
MCDeclared2 == <<Port("main", 0, "tcp"), Port("web", 80, "http")>>
MCReservedPorts == <<Port("ssh", 22, "tcp")>>
MCProcedureOrder == <<<<"main", "query">>, <<"main">>>>
Route(name, portName, public, protocol) ==
    [name |-> name, portName |-> portName, public |-> public, protocol |-> protocol]
\* None, one by either name, with an invalid port or another protocol, one for
\* each port, one that crosses names, and two that disagree.
MCFileRoutings ==
    {<<>>} \cup {<<Route("main", n, p, "tcp")>> : n \in {"", "main"}, p \in {0, 11000, 11001}}
    \cup {<<Route("", "main", 11000, "udp")>>}
    \cup {<<Route("main", "main", p, ""), Route(n, "query", 11000, "")>> :
              p \in {11000, 11001}, n \in {"main", "query"}}
    \cup {<<Route("main", "main", 11000, ""), Route("main", "main", 11001, "")>>}
MCPublish(target, number, public) ==
    [target |-> target, number |-> number, public |-> public, protocol |-> ""]
MCPublishes == {MCPublish("main", 0, 11000), MCPublish("main", 0, 11001), MCPublish("", 22, 11000)}

\* The callers, peers, viewers, writers, clients and goroutines.
ServiceSymmetry == Permutations({one, two})

Parts == {"server", "reload", "cold", "hub", "store", "registry", "data", "routing"}

\* Where the data is not the part that moves.
NoData ==
    /\ dataStep = "created" /\ artifact = FirstVersion
    /\ author = [tree |-> FirstTree, links |-> {}, empty |-> {}, chunks |-> <<>>]
    /\ root = [f \in Files |-> "none"] /\ played = root

ServicesInit ==
    /\ part \in Parts
    /\ DevInit /\ ColdInit /\ HubInit /\ StoreInit /\ RegistryInit /\ RoutingInit
    /\ IF part = "data" THEN DataInit ELSE NoData
    /\ part # "reload" => hotReloadCommands = <<>>
    /\ part # "store" => kind = "sqlite" /\ schema = "current"

ServicesNext ==
    /\ UNCHANGED part
    /\ \/ /\ part = "server"
          /\ \/ ServerNext
             \/ /\ \E g \in Goroutines : NothingToBuild(g)
                /\ UNCHANGED <<serverVars, calls, children, served, overlapped>>
          /\ UNCHANGED <<coldVars, hubVars, storeVars, registryVars, dataVars, routingVars>>
       \/ /\ part = "reload" /\ (ReloadClient \/ ReloadStep)
          /\ UNCHANGED <<coldVars, hubVars, storeVars, registryVars, dataVars, routingVars>>
       \/ /\ part = "cold" /\ ColdNext
          /\ UNCHANGED <<devVars, hubVars, storeVars, registryVars, dataVars, routingVars>>
       \/ /\ part = "hub" /\ HubNext
          /\ UNCHANGED <<devVars, coldVars, storeVars, registryVars, dataVars, routingVars>>
       \/ /\ part = "store" /\ StoreNext
          /\ UNCHANGED <<devVars, coldVars, hubVars, registryVars, dataVars, routingVars>>
       \/ /\ part = "registry" /\ RegistryNext
          /\ UNCHANGED <<devVars, coldVars, hubVars, storeVars, dataVars, routingVars>>
       \/ /\ part = "data" /\ DataNext
          /\ UNCHANGED <<devVars, coldVars, hubVars, storeVars, registryVars, routingVars>>
       \/ /\ part = "routing" /\ RoutingNext
          /\ UNCHANGED <<devVars, coldVars, hubVars, storeVars, registryVars, dataVars>>

ServicesSpec == ServicesInit /\ [][ServicesNext]_servicesVars

\* The variables of every service keep their types.
ServicesTypeOK == DevTypeOK /\ ColdTypeOK /\ HubTypeOK /\ StoreTypeOK /\ RegistryTypeOK
=============================================================================
