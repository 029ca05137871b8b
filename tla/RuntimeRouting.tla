--------------------------- MODULE RuntimeRouting ---------------------------
(***************************************************************************)
(* Ports and public routing of one scroll on Docker: which routing may be  *)
(* applied when (runtime_ports.go, runtime_session_runtime.go,             *)
(* runtime_update.go, routing/publish.go), and what a run makes of the one *)
(* it found: the ports it resolves (runtime_session_execution.go), the     *)
(* environment (runtime_env.go), the container's bindings (docker/spec.go) *)
(* and the port statuses and routing targets (docker/ports.go).            *)
(***************************************************************************)
EXTENDS Integers, FiniteSets, Sequences, SequencesExt

CONSTANTS Declared1, Declared2,    \* the ports of the scroll and of the version it is updated to:
                                   \* sequences of [name, port, protocol]; 0 is a dynamic port
          ReservedPorts,           \* of the runtime, likewise
          Procedures,              \* in the order of the commands: sequences of port names they
                                   \* expect; the scroll runs the first
          FileRoutings,            \* what clients send: sequences of [name, portName, public, protocol]
          Publishes,               \* and of [public, target, number, protocol]
          FailedRetention,         \* dockerFailedProcedureRetention
          MaxRoutings, MaxAttempts \* bounds on the routings applied and on the number of a container

VARIABLES declared, routing,
          serve, otherFailed,      \* status of the command; another command has failed
          call,                    \* the run in progress, with the ports and the routing it found
          box,                     \* the command's container, with the routing it was created from
          kept,                    \* its exited containers: [attempt, ok]
          routeMoves,
          unguarded                \* routing was applied, or the scroll updated, past a container or
                                   \* a run in progress, as the status was an error
routingVars == <<declared, routing, serve, otherFailed, call, box, kept, routeMoves, unguarded>>

NoBox == [state |-> "none", attempt |-> 0, listen |-> <<>>, public |-> <<>>, bound |-> {}, routes |-> <<>>]
NoCall == [at |-> "idle", ports |-> <<>>, routing |-> <<>>]
NoPorts == [ok |-> FALSE, ports |-> <<>>]
FoundPorts(ports) == [ok |-> TRUE, ports |-> ports]

NamesOf(ports) == {ports[i].name : i \in DOMAIN ports}

\* portsByName: the last of a name; a name without a port is the zero port.
PortNamed(ports, name) ==
    FoldLeft(LAMBDA found, p : IF p.name = name THEN p ELSE found,
             [name |-> "", port |-> 0, protocol |-> ""], ports)

Transport(protocol) == IF protocol \in {"", "http", "https"} THEN "tcp" ELSE protocol

-----------------------------------------------------------------------------
(* runtime_ports.go                                                        *)

PortOf(a) == IF a.portName = "" THEN a.name ELSE a.portName

RoutesTo(name, routes) == {i \in DOMAIN routes : PortOf(routes[i]) = name}
PublicPorts(name, routes) == {routes[i].public : i \in RoutesTo(name, routes)}

CannotResolve(port, routes, required) ==
    LET public == PublicPorts(port.name, routes) IN
    port.port = 0 /\ \/ \E n \in public : n \notin 1 .. 65535
                     \/ Cardinality(public) > 1
                     \/ required /\ public = {}

ResolvedPort(port, routes) ==
    LET public == PublicPorts(port.name, routes) IN
    IF port.port # 0 \/ public = {} THEN port
    ELSE [port EXCEPT !.port = CHOOSE n \in public : TRUE]

ResolvePorts(ports, routes, required) ==
    IF \E i \in DOMAIN ports : CannotResolve(ports[i], routes, required) THEN NoPorts
    ELSE FoundPorts([i \in DOMAIN ports |-> ResolvedPort(ports[i], routes)])

MergePorts(ports, reservations) ==
    FoldLeft(LAMBDA merged, r :
               IF ~merged.ok THEN merged
               ELSE IF r.name \notin NamesOf(merged.ports) THEN FoundPorts(Append(merged.ports, r))
               ELSE IF PortNamed(merged.ports, r.name) = r THEN merged ELSE NoPorts,
             FoundPorts(ports), reservations)

\* Mutant: only a port that had no number yet may not change.
DynamicPortsUnchanged_New(ports, old, new) ==
    LET before == ResolvePorts(ports, old, FALSE)
        after == ResolvePorts(ports, new, FALSE)
    IN /\ before.ok /\ after.ok
       /\ \A i \in DOMAIN ports : before.ports[i].port # 0 \/ before.ports[i] = after.ports[i]

DynamicPortsUnchanged(ports, old, new) ==
    LET before == ResolvePorts(ports, old, FALSE)
        after == ResolvePorts(ports, new, FALSE)
    IN before.ok /\ after.ok /\ \A i \in DOMAIN ports : before.ports[i].port = after.ports[i].port

-----------------------------------------------------------------------------
(* docker/ports.go, docker/spec.go, runtime_env.go                         *)

\* One target for each port a procedure expects, then the other reserved ports.
RoutingTargets(ports) ==
    LET expected == FoldLeft(LAMBDA seen, names :
                               seen \o SelectSeq(names, LAMBDA n : n \notin Range(seen)),
                             <<>>, Procedures)
        reserved == SelectSeq(ReservedPorts, LAMBDA p : p.name \notin Range(expected))
        Target(name) == [PortNamed(ports, name) EXCEPT !.name = name, !.protocol = Transport(@)]
    IN {Target(n) : n \in Range(expected) \cup NamesOf(reserved)}

\* targetForPublish: by its port's name, else by its number.
TargetsOf(publish, targets) ==
    LET named == {t \in targets : t.name = publish.target} IN
    IF named # {} THEN named ELSE {t \in targets : t.port = publish.number}

AssignmentOf(publish, target) ==
    [name |-> target.name, portName |-> target.name, public |-> publish.public,
     protocol |-> IF publish.protocol # "" THEN publish.protocol ELSE target.protocol]

\* The ports and the public ports a procedure is told.  Ports need names, and
\* names that stay different as variables; the last assignment counts.
EnvRefused(ports) == "" \in NamesOf(ports) \/ Cardinality(NamesOf(ports)) # Len(ports)
EnvPublic(name, routes) ==
    FoldLeft(LAMBDA found, a : IF PortOf(a) = name /\ a.public > 0 THEN a.public ELSE found,
             0, routes)

\* routeAssignmentForPort: the first that has the name in either place.
FirstRoute(name, routes) ==
    SelectSeq(routes, LAMBDA a : name \in {a.portName, a.name})

Bindings(names, ports, routes) ==
    {LET first == FirstRoute(n, routes)[1]
         port == PortNamed(ports, n)
     IN [port |-> port.port, host |-> first.public,
         protocol |-> Transport(IF first.protocol # "" THEN first.protocol ELSE port.protocol)] :
        n \in {m \in Range(names) : /\ FirstRoute(m, routes) # <<>>
                                    /\ FirstRoute(m, routes)[1].public > 0}}

NewBox(state, ports, routes) ==
    [state |-> state,
     \* nextDockerProcedureAttempt: above all there were before any was removed
     attempt |-> Max({0} \cup {k.attempt : k \in kept}) + 1,
     listen |-> [n \in NamesOf(ports) |-> PortNamed(ports, n).port],
     public |-> [n \in NamesOf(ports) |-> EnvPublic(n, routes)],
     bound |-> Bindings(Procedures[1], ports, routes),
     routes |-> routes]

\* The container that has the base name: Docker lists bindings of a running one.
BaseNamed == box.attempt = 1
InspectedBindings == IF box.state = "running" /\ BaseNamed THEN box.bound ELSE {}

\* dockerPortBinding: the host port of a status, 0 when it is not bound.
HostPort(port) ==
    LET found == {b \in InspectedBindings :
                    b.port = port.port /\ b.protocol = Transport(port.protocol)}
    IN IF found = {} THEN 0 ELSE (CHOOSE b \in found : TRUE).host

\* Ports of the session: what a client is shown for the port of a procedure.
ShownPorts == LET merged == MergePorts(declared, ReservedPorts) IN
              IF merged.ok THEN ResolvePorts(merged.ports, routing, FALSE) ELSE NoPorts

-----------------------------------------------------------------------------
RoutingInit ==
    /\ declared = Declared1 /\ routing = <<>>
    /\ serve = "none" /\ otherFailed = FALSE
    /\ call = NoCall /\ box = NoBox /\ kept = {} /\ routeMoves = 0 /\ unguarded = FALSE

\* deriveRuntimeScrollStatus: a command that failed hides one that runs.
ScrollRunning == serve \in {"waiting", "running"} /\ ~otherFailed
ScrollBusy == ScrollRunning \/ serve = "running"
PastTheStatus == box.state # "none" \/ call.at # "idle"

ApplyRouting(routes) ==
    /\ routeMoves < MaxRoutings /\ routeMoves' = routeMoves + 1
    /\ ScrollBusy => DynamicPortsUnchanged(declared, routing, routes)
    /\ routing' = routes
    /\ unguarded' = (unguarded \/ (~ScrollBusy /\ PastTheStatus))
    /\ UNCHANGED <<declared, serve, otherFailed, call, box, kept>>

\* druid routing apply --publish: the targets are asked for first.
ApplyPublish(publish) ==
    LET merged == MergePorts(declared, ReservedPorts)
        targets == TargetsOf(publish, RoutingTargets(merged.ports))
    IN /\ merged.ok /\ publish.public \in 1 .. 65535 /\ Cardinality(targets) = 1
       /\ \E t \in targets : ApplyRouting(<<AssignmentOf(publish, t)>>)

\* The command is queued, by a call or after a restart.
QueueServe ==
    /\ serve \notin {"waiting", "running"} \/ (serve = "running" /\ call.at = "lost")
    /\ call' = NoCall
    /\ serve' = "waiting"
    /\ UNCHANGED <<declared, routing, otherFailed, box, kept, routeMoves, unguarded>>

\* runCommand reads the routing and the ports; from here on it works on them.
BeginServe ==
    /\ serve = "waiting" /\ call.at = "idle"
    /\ LET merged == MergePorts(declared, ReservedPorts)
           found == IF merged.ok THEN ResolvePorts(merged.ports, routing, TRUE) ELSE NoPorts
       IN IF found.ok /\ ~EnvRefused(found.ports)
          THEN /\ call' = [at |-> "found", ports |-> found.ports, routing |-> routing]
               /\ UNCHANGED serve
          ELSE serve' = "error" /\ UNCHANGED call
    /\ UNCHANGED <<declared, routing, otherFailed, box, kept, routeMoves, unguarded>>

ReportServe ==
    /\ call.at = "found" /\ serve = "waiting"
    /\ serve' = "running"
    /\ UNCHANGED <<declared, routing, otherFailed, call, box, kept, routeMoves, unguarded>>

\* The failed ones the next container leaves; it removes those that succeeded.
FailedKept ==
    LET failed == {k \in kept : ~k.ok} IN
    {k \in failed : Cardinality({f \in failed : f.attempt > k.attempt}) < FailedRetention}

\* createOrReuseProcedureContainer: a container that is there is used as it was
\* created.
PickBox(state) ==
    IF box.state # "none" THEN box' = [box EXCEPT !.state = state] /\ UNCHANGED kept
    ELSE /\ box' = NewBox(state, call.ports, call.routing) /\ kept' = FailedKept
         /\ box'.attempt <= MaxAttempts

StartBox ==
    /\ call.at = "found" /\ serve = "running"
    /\ PickBox("running")
    /\ call' = [call EXCEPT !.at = "attached"]
    /\ UNCHANGED <<declared, routing, serve, otherFailed, routeMoves, unguarded>>

\* The attach to it fails: one that was created for it is left as it is.
AttachBreaks ==
    /\ call.at = "found" /\ serve = "running"
    /\ PickBox(IF box.state = "none" THEN "created" ELSE box.state)
    /\ serve' = "error" /\ call' = NoCall
    /\ UNCHANGED <<declared, routing, otherFailed, routeMoves, unguarded>>

\* It does not start, and is removed.
StartBreaks ==
    /\ call.at = "found" /\ serve = "running" /\ box.state # "running"
    /\ box' = NoBox /\ kept' = IF box.state = "none" THEN FailedKept ELSE kept
    /\ serve' = "error" /\ call' = NoCall
    /\ UNCHANGED <<declared, routing, otherFailed, routeMoves, unguarded>>

\* The wait for its end fails, and the call ends beside it.
WaitBreaks ==
    /\ call.at = "attached"
    /\ serve' = "error" /\ call' = NoCall
    /\ UNCHANGED <<declared, routing, otherFailed, box, kept, routeMoves, unguarded>>

Exited(ok) == kept \cup {[attempt |-> box.attempt, ok |-> ok]}

\* One that failed is kept, one that succeeded removed, if Docker does so.
BoxExits(status) ==
    /\ box.state = "running" /\ call.at = "attached"
    /\ kept' \in IF status = "done" THEN {kept, Exited(TRUE)} ELSE {Exited(FALSE)}
    /\ box' = NoBox /\ call' = NoCall /\ serve' = status
    /\ UNCHANGED <<declared, routing, otherFailed, routeMoves, unguarded>>

BoxExitsUnseen ==
    /\ box.state = "running" /\ call.at # "attached"
    /\ \E ok \in BOOLEAN : kept' = Exited(ok)
    /\ box' = NoBox
    /\ UNCHANGED <<declared, routing, serve, otherFailed, call, routeMoves, unguarded>>

\* The daemon goes down; the container does not.
DaemonRestarts ==
    /\ call.at = "attached"
    /\ call' = [NoCall EXCEPT !.at = "lost"]
    /\ UNCHANGED <<declared, routing, serve, otherFailed, box, kept, routeMoves, unguarded>>

OtherFails ==
    /\ ~otherFailed
    /\ otherFailed' = TRUE
    /\ UNCHANGED <<declared, routing, serve, call, box, kept, routeMoves, unguarded>>

\* The runs have ended and every container of the scroll is removed.
StopServe ==
    /\ call.at \in {"idle", "attached", "lost"}
    /\ box' = NoBox /\ kept' = {} /\ call' = NoCall /\ otherFailed' = FALSE
    /\ serve' = IF serve \in {"waiting", "running"} THEN "done" ELSE serve
    /\ UNCHANGED <<declared, routing, routeMoves, unguarded>>

\* Only a scroll whose status is running is stopped.
\* preserveRoutingAssignments knows an assignment by its port name only.
UpdateScroll ==
    LET merged == MergePorts(Declared2, ReservedPorts) IN
    /\ merged.ok /\ declared = Declared1 /\ call.at \in {"idle", "attached", "lost"}
    /\ declared' = Declared2
    /\ routing' = SelectSeq(routing, LAMBDA a : a.portName \in NamesOf(merged.ports))
    /\ IF ScrollRunning THEN box' = NoBox /\ kept' = {} ELSE UNCHANGED <<box, kept>>
    /\ call' = NoCall /\ serve' = "none" /\ otherFailed' = FALSE
    /\ unguarded' = (unguarded \/ (~ScrollRunning /\ PastTheStatus))
    /\ UNCHANGED routeMoves

RoutingNext ==
    \/ \E r \in FileRoutings : ApplyRouting(r)
    \/ \E p \in Publishes : ApplyPublish(p)
    \/ QueueServe \/ BeginServe \/ ReportServe
    \/ StartBox \/ AttachBreaks \/ StartBreaks \/ WaitBreaks
    \/ \E status \in {"done", "error"} : BoxExits(status) \/ BoxExitsUnseen
    \/ DaemonRestarts \/ OtherFails \/ StopServe \/ UpdateScroll

-----------------------------------------------------------------------------
\* One assignment speaks of the port, and in one voice.
Unambiguous(name, routes) ==
    LET of == {i \in DOMAIN routes : name \in {routes[i].name, routes[i].portName}} IN
    Cardinality(of) = 1 /\ of = RoutesTo(name, routes)

OwnProtocol(port, routes) ==
    \A i \in RoutesTo(port.name, routes) :
        routes[i].protocol = "" \/ Transport(routes[i].protocol) = Transport(port.protocol)

\* What the client is shown, what the server was told and what Docker binds
\* agree while the command runs.  A dynamic port is where the current routing
\* puts it, however often routing was applied, the daemon was restarted and a
\* container was used again since it was created, while the status of the
\* scroll is not an error (then the code takes it for stopped); the public port
\* in its environment is the one that is bound, and the status shows it while
\* the container has the base name: the code asks Docker for that one, and a
\* container that follows a failed one has another (runtime_ports.go:65-90,
\* runtime_session_runtime.go:48-67, docker/ports.go:183-215,
\* docker/procedure_attempts.go:24-103, docker/spec.go:24-36,
\* runtime_env.go:94-127).
RoutesHonoured ==
    box.state = "running" /\ serve \in {"waiting", "running"} /\ ~unguarded =>
        /\ ShownPorts.ok
        /\ \A i \in DOMAIN ShownPorts.ports :
             LET port == ShownPorts.ports[i]
                 clear == Unambiguous(port.name, box.routes) /\ OwnProtocol(port, box.routes)
                 dynamic == \E j \in DOMAIN declared :
                              declared[j].name = port.name /\ declared[j].port = 0
             IN /\ box.listen[port.name] = port.port
                /\ dynamic /\ clear /\ port.name \in Range(Procedures[1]) =>
                     /\ port.port = box.public[port.name]
                     /\ \E b \in box.bound :
                           /\ b.port = port.port /\ b.host = port.port
                           /\ b.protocol = Transport(port.protocol)
                     /\ BaseNamed => HostPort(port) = port.port
=============================================================================
