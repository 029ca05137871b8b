---------------------------- MODULE MCAlgorithms ----------------------------
(***************************************************************************)
(* The algorithms that keep no state, each against what it is for, over    *)
(* bounded inputs.  TLC evaluates the assumptions before any run of a      *)
(* module that extends this one.                                           *)
(***************************************************************************)
EXTENDS Naturals, FiniteSets, SequencesExt, TLC

Roots == INSTANCE RuntimeRoots
Scrolls == INSTANCE ScrollFile
Layout == INSTANCE RegistryLayout
Auth == INSTANCE Authorization WITH Never <- 99, QueryTokenTTL <- 2

-----------------------------------------------------------------------------
(* RuntimeRoots                                                            *)

SampleNames == BoundedSeq({"a", "A", "1", "-", ".", "/", "@", ":", " "}, 4)
SampleIDs ==
    {Roots!RuntimeScrollIDFromName(n) : n \in BoundedSeq({"a", "1", "data", "-", ".", "_"}, 4)}
        \ {<<>>}
SampleCommands == {<<"a">>, <<"b">>, <<"a", "-", "b">>, <<"1", "-", "a">>}
PlainIDs == {id \in SampleIDs : Len(id) <= 3 /\ ~Contains(id, ".") /\ ~Contains(id, "_")}

\* An id names itself: asking for a scroll by its id finds the same scroll,
\* whatever the name was it was made from.
ASSUME IdStable ==
    \A name \in SampleNames :
        LET id == Roots!RuntimeScrollIDFromName(name)
        IN  Roots!RuntimeScrollIDFromName(id) = id

\* Two scrolls never share a volume or a directory on Docker.
ASSUME DockerRootsDistinct ==
    \A storage \in {"volume", "bind"} :
        Cardinality({Roots!DockerRoot(storage, <<"srv">>, id) : id \in SampleIDs})
            = Cardinality(SampleIDs)

\* On Kubernetes they share a volume claim exactly when their ids differ in
\* nothing but the marks a DNS label has no place for.
ASSUME ClaimsDistinct ==
    \A id, other \in {i \in SampleIDs : Len(i) <= 3} :
        Roots!DataPVCName(id) = Roots!DataPVCName(other)
            <=> Roots!DnsLabel(id) = Roots!DnsLabel(other)

\* The containers of scrolls in volumes have different names for different
\* commands and for different scrolls, unless one id goes on where the other
\* ends, as "a-b" does after "a".
ASSUME ContainersDistinct ==
    \A id, other \in PlainIDs, command, next \in SampleCommands :
        LET Named(i, c) == Roots!DockerContainer(Roots!DockerRoot("volume", <<>>, i), c, "0")
        IN  Named(id, command) = Named(other, next) =>
                \/ id = other /\ command = next
                \/ IsPrefix(id \o <<"-">>, other) \/ IsPrefix(other \o <<"-">>, id)

\* In directories the scrolls "a" and "a-data" share every name too.
ASSUME BindNamesShared ==
    LET Named(id) == Roots!DockerContainer(Roots!DockerRoot("bind", <<"srv">>, id), <<"b">>, "0")
    IN  Named(<<"a">>) = Named(<<"a", "-", "data">>)

\* The cluster objects of two scrolls are told apart by the first part of the
\* ids alone: they have one name for a command whenever those parts are the
\* same, and different ones when both parts begin with a letter and differ.
ASSUME WorkloadsShared ==
    \A id, other \in PlainIDs, command, next \in SampleCommands :
        LET Named(i, c) == Roots!KubernetesWorkload(Roots!DataPVCName(i), c, "0")
            FirstPart(i) == Roots!BeforeFirst(i, "-")
        IN  IF FirstPart(id) = FirstPart(other)
            THEN command = next => Named(id, command) = Named(other, next)
            ELSE Head(id) # "1" /\ Head(other) # "1" => Named(id, command) # Named(other, next)

-----------------------------------------------------------------------------
(* ScrollFile                                                              *)

SampleSubPaths == BoundedSeq({"x", "data", ".", ".."}, 4)
SampleMount(sub, absolute) ==
    [path |-> <<"srv">>, absolute |-> TRUE, sub |-> sub, subAbsolute |-> absolute]
SampleProcedure ==
    [type |-> "", id |-> {}, old |-> FALSE, image |-> TRUE, runs |-> FALSE, mounts |-> <<>>,
     expected |-> <<>>, target |-> "", signal |-> FALSE]
SampleScroll(procedures) ==
    [described |-> TRUE, serve |-> "start", ui |-> {}, ports |-> <<>>,
     commands |-> [c \in {"start", "stop"} |-> procedures[c]]]
ScrollOf(p) == SampleScroll([start |-> <<p>>, stop |-> <<SampleProcedure>>])
SampleWidth == 16

\* A mount Validate lets pass can be mounted by Docker, is the same directory
\* of the scroll on both backends, and is in the scroll's data unless its path
\* leads back to where it began, which mounts the whole scroll.
ASSUME MountsInside ==
    \A sub \in SampleSubPaths, absolute \in BOOLEAN :
        LET p == [SampleProcedure EXCEPT !.mounts = <<SampleMount(sub, absolute)>>]
            root == [kind |-> "bind", source |-> <<"root">>]
            docker == Roots!DockerMount(root, Roots!DataSubPath(sub))
        IN  Scrolls!Validate(ScrollOf(p), SampleWidth) =>
                /\ Roots!DockerMountable(Roots!DataSubPath(sub))
                /\ docker = root.source \o Roots!KubernetesSubPath(sub)
                /\ IF sub # <<>> /\ Roots!Clean(sub) = <<>> THEN docker = root.source
                   ELSE IsPrefix(<<"root", "data">>, docker)

\* The names of a scroll's procedures differ, by which containers, consoles and
\* statuses are kept, but for an id that is the default name of another.
SampleProcIDs == {{}, {<<"start", 0>>}, {<<"start", 1>>}, {<<"x">>}}
ASSUME NamesDistinct ==
    \A first, second, third \in SampleProcIDs :
        LET Of(id) == [SampleProcedure EXCEPT !.id = id]
            scroll == SampleScroll([start |-> <<Of(first), Of(second)>>, stop |-> <<Of(third)>>])
            Name(x) == Scrolls!ProcedureName(x[1], x[2], Scrolls!At(scroll, x))
            Default(x) == Scrolls!At(scroll, x).id = {}
        IN  Scrolls!Validate(scroll, SampleWidth) =>
                \A x, y \in Scrolls!Places(scroll) :
                    x # y /\ Name(x) = Name(y) => Default(x) # Default(y)

\* A threshold that is accepted is the one that was written as long as it fits
\* in 64 bits, and a smaller one beyond: it never asks for more traffic.
ASSUME ThresholdNeverGrows ==
    \A amount \in {0, 1, 65, 66, 131, 1000, 65535, 65536}, unit \in 0 .. 1 :
        LET t == [form |-> TRUE, amount |-> amount, unit |-> unit, window |-> TRUE]
            written == amount * 1000^unit
            parsed == Scrolls!ParseKeepAliveTraffic(t, SampleWidth)
        IN  ~Scrolls!ThresholdRefused(t, SampleWidth) =>
                IF written < 2^SampleWidth THEN parsed = written ELSE parsed < written

\* A scroll the daemon accepts has the daemon's own ports as the daemon has
\* them, each once, and is valid by itself unless it counts on such a port.
SamplePorts(number) == <<[name |-> "web", port |-> number, protocol |-> "http"]>>
ASSUME DaemonPortsKept ==
    \A own \in {<<>>, SamplePorts(0), SamplePorts(80), SamplePorts(81)}, wanted \in {"web", "main"} :
        LET p == [SampleProcedure EXCEPT !.expected = <<[name |-> wanted, keepAliveTraffic |-> {}]>>]
            scroll == [ScrollOf(p) EXCEPT !.ports = own]
            daemons == SamplePorts(80)
        IN  Scrolls!AcceptedByDaemon(scroll, daemons, SampleWidth) =>
                /\ Scrolls!WithExtraPorts(own, daemons) = daemons
                /\ Scrolls!Validate(scroll, SampleWidth) \/ (own = <<>> /\ wanted = "web")

-----------------------------------------------------------------------------
(* RegistryLayout                                                          *)

SampleText == BoundedSeq({"repo", "5000", "/", ":", "@", "sha256", " "}, 5)

\* A reference that is read is the text it was read from, cut at one mark, with
\* a repository and a tag or a digest that are not empty.
ASSUME ReferenceWhole ==
    \A s \in SampleText :
        LET parsed == Layout!ParseArtifactRef(s)
            mark == IF parsed.kind = "digest" THEN "@" ELSE ":"
        IN  parsed # Layout!NoRef =>
                /\ Layout!Trim(s, {" "}) = parsed.repo \o <<mark>> \o parsed.ref
                /\ parsed.repo # <<>> /\ parsed.ref # <<>>
                /\ parsed.kind = "tag" => ~Contains(parsed.ref, ":")

\* The port of a registry is a tag to it when the reference has none.
ASSUME PortReadAsTag ==
    Layout!ParseArtifactRef(<<"repo", ":", "5000", "/", "repo">>).ref = <<"5000", "/", "repo">>

\* Graphs of four descriptors, 1 the start, of which 4 is never a manifest; 3
\* and 4 may be the file.
SampleGraphs ==
    {[below |-> below, paths |-> [d \in 1 .. 4 |-> IF d \in files THEN {"scroll.yaml"} ELSE {}],
      manifest |-> manifest] :
        below \in [1 .. 3 -> {<<>>, <<2>>, <<2, 3>>, <<3, 2>>, <<4>>, <<2, 4>>}],
        files \in SUBSET {3, 4}, manifest \in {{1}, {1, 2}, {1, 2, 3}}}
RECURSIVE ReachedIn(_, _)
ReachedIn(graph, steps) ==
    IF steps = 0 THEN {1}
    ELSE LET before == ReachedIn(graph, steps - 1)
         IN  before \cup UNION {Range(graph.below[d]) : d \in before \cap graph.manifest}

\* FetchFile finds a descriptor with the path exactly when one is below the
\* start, at any depth and along any number of ways.
ASSUME FileFound ==
    \A graph \in SampleGraphs :
        LET found == Layout!FetchFile(graph, 1, "scroll.yaml")
            there == {d \in ReachedIn(graph, 4) : "scroll.yaml" \in graph.paths[d]}
        IN  IF there = {} THEN found = Layout!NotFound
            ELSE Cardinality(found) = 1 /\ found \subseteq there

\* Of a pushed scroll FetchFile finds the layers and nothing inside them, and
\* only .meta is packed twice, as a whole and by its files.
SampleMeta == [name : {"de-DE.md", "notes"}, directory : BOOLEAN, locale : {TRUE}, empty : {FALSE}]
ASSUME PushedOnce ==
    \A names \in SUBSET {"scroll.yaml", "private", ".meta", "data", "other"}, meta \in SUBSET SampleMeta,
       packMeta \in BOOLEAN :
        LET pushed == Layout!PushLayers([names |-> names, meta |-> meta, data |-> {<<"data", "x">>}], packMeta)
            graph == Layout!PushedGraph(pushed.layers)
        IN  pushed.ok =>
                /\ \A path \in {<<n>> : n \in names} \cup {<<".meta", m.name>> : m \in meta}
                                \cup {<<"data", "x">>, <<"data", "y">>, <<"private", "x">>} :
                       LET found == Layout!FetchFile(graph, Layout!RootManifest, path)
                       IN  IF \E l \in pushed.layers : l.path = path
                           THEN \E l \in found : l.path = path
                           ELSE found = Layout!NotFound
                /\ \A l, m \in pushed.layers :
                       l # m /\ IsPrefix(l.path, m.path) => l.path = <<".meta">> /\ packMeta

-----------------------------------------------------------------------------
(* Authorization                                                           *)

SampleDaemon(key) == [issuers |-> <<>>, user |-> "", runtimeKeys |-> {key}]
SampleVerifier(keys) == [issuers |-> <<keys>>, user |-> "", runtimeKeys |-> {}]

\* A token for a console opens the console of that scroll, there and on the
\* development server that fetched the daemon's keys, until it expires; after
\* the daemon has started anew it opens none, and the development server goes
\* on with the old keys: it takes the old tokens and refuses the new ones.
ASSUME TokensHonoured ==
    \A issued, now \in 0 .. 4, asked \in {"s1", "s2"}, running, fetched \in {"k1", "k2"} :
        LET token == Auth!CreateDaemonToken(SampleDaemon("k1"), "s1", "owner", Auth!Anonymous, issued)
            inTime == now < issued + 2 /\ asked = "s1"
            dev == [user |-> {}, runtime |-> {SampleVerifier(Auth!JWKS(SampleDaemon(fetched)))}]
        IN  /\ Auth!PublicQueryAuth({SampleDaemon(running)}, FALSE, asked, {token}, now)
                   <=> inTime /\ running = "k1"
            /\ Auth!DevAuth(dev, "owner", asked, FALSE, {}, {token}, now) <=> inTime /\ fetched = "k1"
            /\ ~Auth!DevAuth(dev, "owner", asked, TRUE, {}, {token}, now)

\* A user's token that any of the key sets signed gets its subject to the
\* scrolls that are theirs or nobody's; without key sets only an open daemon
\* lets anyone through.
ASSUME OwnersOnly ==
    \A issuers \in {<<>>, <<{"u1"}>>, <<{"u0"}, {"u1"}>>}, open \in BOOLEAN, owner \in {"", "me", "you"},
       headers \in {{}, {[key |-> "u1", sub |-> "me", runtime |-> "", exp |-> 99]},
                    {[key |-> "u2", sub |-> "me", runtime |-> "", exp |-> 99]}} :
        LET auth == [issuers |-> issuers, user |-> "", runtimeKeys |-> {"k1"}]
        IN  Auth!PublicAuth({auth}, open, headers, owner, 0) <=>
                IF issuers = <<>> THEN open
                ELSE owner # "you" /\ \E t \in headers : t.key = "u1"

\* The worker that fills a scroll's volume may report to the daemon only when
\* the label of its pod is the scroll's id: an id with a dot or an underscore
\* is written otherwise in the label, and its worker is turned away.
ASSUME WorkerMayReport ==
    \A id \in SampleIDs :
        LET pod == [name |-> "p", uid |-> 1, account |-> "druid-runtime-worker", managed |-> TRUE,
                    worker |-> TRUE, runtime |-> {Roots!DnsLabel(id)}]
            bound == [name |-> "p", uid |-> 1, account |-> "druid-runtime-worker"]
        IN  Auth!CallbackAllowed({bound}, FALSE, {pod}, "", id) <=> ~Contains(id, ".") /\ ~Contains(id, "_")
=============================================================================
