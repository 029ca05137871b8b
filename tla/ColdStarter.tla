---------------------------- MODULE ColdStarter ----------------------------
(***************************************************************************)
(* The coldstart gate (apps/druid-coldstarter, internal/core/services/     *)
(* coldstarter.go, coldstarter/servers, coldstarter/handler): it listens on*)
(* the ports of a stopped scroll, lets a packet handler answer, and returns*)
(* when a handler calls finish, so that the next procedure can bind the    *)
(* ports.                                                                  *)
(*                                                                         *)
(* A peer is a TCP connection or a UDP packet; each has a goroutine.  What *)
(* a Lua script does with a packet is free: it answers, calls finish or    *)
(* calls close.  The scripts of a port share one Lua state, whose global   *)
(* finish and close are those of the peer that came last.  The process ends*)
(* when Run returns.                                                       *)
(***************************************************************************)
EXTENDS Naturals, FiniteSets

CONSTANTS Ports, Handler, Protocol,  \* from DRUID_PORT_*; Handler[p] is "generic" or "lua"
          Peers

VARIABLES run,         \* the main goroutine, in Run
          result,      \* what Run returns
          cancelled,   \* a signal cancelled the context of Run
          unserved,    \* ports Serve has still to look at
          listener, registered, \* registered: c.handler
          chandlers, finishedAt,
          finishOnce,
          lua,         \* of each port: the shared Lua state
          peers,
          closers,     \* calls of a server's Close: by Stop, or by the goroutine of a port
          atStop       \* history: what was registered when Stop began

coldVars == <<run, result, cancelled, unserved, listener, registered, chandlers, finishedAt,
              finishOnce, lua, peers, closers, atStop>>
serveVars == <<unserved, listener, registered, chandlers>>
finishVars == <<finishedAt, finishOnce>>


NoPort == "none"
NoPeer == [at |-> "none", port |-> NoPort, owner |-> "none", open |-> FALSE]
NoClose == [at |-> "none", port |-> NoPort, todo |-> {}]
Listens(p) == Protocol[p] \in {"tcp", "udp"}

ColdInit ==
    /\ run = "starting" /\ result = "none" /\ cancelled = FALSE
    /\ unserved = Ports
    /\ listener = [p \in Ports |-> "none"] /\ registered = {}
    /\ chandlers = {} /\ finishedAt = {}
    /\ finishOnce = "unused"
    /\ lua = [p \in Ports |-> [state |-> "none", closed |-> FALSE, calls |-> 0, last |-> "none"]]
    /\ peers = [c \in Peers |-> NoPeer]
    /\ closers = [k \in Ports \cup {"stop"} |-> NoClose]
    /\ atStop = {}

-----------------------------------------------------------------------------
(* Run and Stop                                                            *)

\* portServiceFromEnv rejects the environment.
BadEnvironment ==
    /\ run = "starting" /\ run' = "returned" /\ result' = "error"
    /\ UNCHANGED <<cancelled, serveVars, finishVars, lua, peers, closers, atStop>>

\* Start makes the channel and begins to serve; Run then waits.
Start ==
    /\ run = "starting" /\ run' = "serving"
    /\ UNCHANGED <<result, cancelled, serveVars, finishVars, lua, peers, closers, atStop>>

Wait ==
    /\ run = "serving" /\ run' = "waiting"
    /\ UNCHANGED <<result, cancelled, serveVars, finishVars, lua, peers, closers, atStop>>

Cancel ==
    /\ ~cancelled /\ run \in {"serving", "waiting", "stopping"}
    /\ cancelled' = TRUE
    /\ UNCHANGED <<run, result, serveVars, finishVars, lua, peers, closers, atStop>>

BeginStop ==
    /\ closers' = [closers EXCEPT !["stop"] = [at |-> "next", port |-> NoPort, todo |-> registered]]
    /\ atStop' = registered

RunCancelled ==
    /\ run = "waiting" /\ cancelled
    /\ run' = "stopping" /\ result' = "cancelled"
    /\ BeginStop
    /\ UNCHANGED <<cancelled, serveVars, finishVars, lua, peers>>

\* Run receives from the unbuffered channel: the sender's Once ends.
RunFinishes(c) ==
    /\ run = "waiting" /\ peers[c].at = "send"
    /\ run' = "stopping" /\ result' = "finished"
    /\ finishOnce' = "done"
    /\ peers' = [peers EXCEPT ![c].at = "hangup"]
    /\ BeginStop
    /\ UNCHANGED <<cancelled, serveVars, finishedAt, lua>>

\* Stop walks over the map that Serve may still be filling: a new entry may
\* be visited or not.
StopNext ==
    /\ closers["stop"].at = "next"
    /\ \/ \E p \in closers["stop"].todo :
            closers' = [closers EXCEPT !["stop"] = [at |-> "listener", port |-> p, todo |-> @.todo \ {p}]]
       \/ \E p \in {q \in registered : listener[q] = "open"} \ closers["stop"].todo :
            closers' = [closers EXCEPT !["stop"].at = "listener", !["stop"].port = p]
    /\ UNCHANGED <<run, result, cancelled, serveVars, finishVars, lua, peers, atStop>>

RunReturnsAfterStop ==
    /\ run = "stopping" /\ closers["stop"].at = "next" /\ closers["stop"].todo = {}
    /\ run' = "returned"
    /\ UNCHANGED <<result, cancelled, serveVars, finishVars, lua, peers, closers, atStop>>

-----------------------------------------------------------------------------
(* Serve: one port after the other, in its own goroutine                   *)

\* The handler is known to Finish before its listener is opened.
Prepare(p) ==
    /\ run \notin {"starting", "returned"}
    /\ p \in unserved \ chandlers
    /\ chandlers \subseteq Ports \ unserved
    /\ chandlers' = chandlers \cup {p}
    /\ UNCHANGED <<run, result, cancelled, unserved, listener, registered, finishVars, lua,
                   peers, closers, atStop>>

\* A protocol it does not know, or a port that is taken.
Skip(p) ==
    /\ p \in unserved \cap chandlers /\ listener[p] = "none"
    /\ unserved' = unserved \ {p}
    /\ UNCHANGED <<run, result, cancelled, listener, registered, chandlers, finishVars, lua,
                   peers, closers, atStop>>

Listen(p) ==
    /\ p \in unserved \cap chandlers /\ Listens(p) /\ listener[p] = "none"
    /\ listener' = [listener EXCEPT ![p] = "open"]
    /\ UNCHANGED <<run, result, cancelled, unserved, registered, chandlers, finishVars, lua,
                   peers, closers, atStop>>

\* Into the map, and a goroutine that closes the server when the context ends.
Register(p) ==
    /\ p \in unserved /\ listener[p] = "open"
    /\ unserved' = unserved \ {p}
    /\ registered' = registered \cup {p}
    /\ UNCHANGED <<run, result, cancelled, listener, chandlers, finishVars, lua, peers, closers, atStop>>

-----------------------------------------------------------------------------
(* Close of a server: its listener, then its handler                       *)

ContextCloses(p) ==
    /\ cancelled /\ p \in registered /\ closers[p].at = "none"
    /\ closers' = [closers EXCEPT ![p] = [NoClose EXCEPT !.at = "listener", !.port = p]]
    /\ UNCHANGED <<run, result, cancelled, serveVars, finishVars, lua, peers, atStop>>

CloseEnds(k) == closers' = [closers EXCEPT ![k].at = IF k = "stop" THEN "next" ELSE "ended"]

\* Closing twice is an error, which ends the second Close.
CloseListener(k) ==
    /\ closers[k].at = "listener"
    /\ IF listener[closers[k].port] = "closed" THEN CloseEnds(k)
       ELSE closers' = [closers EXCEPT ![k].at = "handler"]
    /\ listener' = [listener EXCEPT ![closers[k].port] = "closed"]
    /\ UNCHANGED <<run, result, cancelled, unserved, registered, chandlers, finishVars, lua, peers,
                   atStop>>

CloseHandler(k) ==
    /\ closers[k].at = "handler"
    /\ LET p == closers[k].port IN
        IF Handler[p] = "generic" THEN CloseEnds(k) /\ UNCHANGED lua
        ELSE /\ lua' = [lua EXCEPT ![p].closed = TRUE]
             /\ IF lua[p].state = "none" THEN CloseEnds(k)
                ELSE closers' = [closers EXCEPT ![k].at = "calls"]
    /\ UNCHANGED <<run, result, cancelled, serveVars, finishVars, peers, atStop>>

\* execWg.Wait, then the Lua state is closed.
CloseState(k) ==
    /\ closers[k].at = "calls" /\ lua[closers[k].port].calls = 0
    /\ lua' = [lua EXCEPT ![closers[k].port].state = "closed"]
    /\ CloseEnds(k)
    /\ UNCHANGED <<run, result, cancelled, serveVars, finishVars, peers, atStop>>

-----------------------------------------------------------------------------
(* The goroutine of a peer                                                 *)

peerStep == UNCHANGED <<run, result, cancelled, serveVars, closers, atStop>>

Accept(c, p) ==
    /\ run # "returned" /\ listener[p] = "open" /\ peers[c].at = "none"
    /\ peers' = [peers EXCEPT ![c] = [at |-> "accepted", port |-> p, owner |-> c, open |-> TRUE]]
    /\ UNCHANGED <<finishVars, lua>> /\ peerStep

\* GetHandler: the Lua state is made by the first peer of the port and its
\* globals are replaced by every one.
GetHandler(c) ==
    LET p == peers[c].port IN
    /\ peers[c].at = "accepted" /\ lua[p].state # "closed"
    /\ peers' = [peers EXCEPT ![c].at = "reading"]
    /\ lua' = IF Handler[p] = "lua" THEN [lua EXCEPT ![p].state = "open", ![p].last = c] ELSE lua
    /\ UNCHANGED finishVars /\ peerStep

\* The state is closed, or the script does not load.
NoHandler(c) ==
    /\ peers[c].at = "accepted" /\ Handler[peers[c].port] = "lua"
    /\ lua[peers[c].port].state # "open"
    /\ peers' = [peers EXCEPT ![c].at = "gone"]
    /\ UNCHANGED <<finishVars, lua>> /\ peerStep

\* A packet.  A generic handler finishes at once; a script is called unless
\* the state is closed.
Packet(c) ==
    LET p == peers[c].port IN
    /\ peers[c].at = "reading" /\ peers[c].open
    /\ Handler[p] = "lua" => ~lua[p].closed /\ lua[p].state = "open"
    /\ peers' = [peers EXCEPT ![c].at = IF Handler[p] = "generic" THEN "finish" ELSE "call"]
    /\ UNCHANGED <<finishVars, lua>> /\ peerStep

\* Only now the call counts: the state may have been closed in between.
CallScript(c) ==
    /\ peers[c].at = "call"
    /\ lua' = [lua EXCEPT ![peers[c].port].calls = @ + 1]
    /\ peers' = [peers EXCEPT ![c].at = "script"]
    /\ UNCHANGED finishVars /\ peerStep

\* The script calls the global finish: that of the last peer of the port.
ScriptFinishes(c) ==
    /\ peers[c].at = "script"
    /\ peers' = [peers EXCEPT ![c].at = "finish", ![c].owner = lua[peers[c].port].last]
    /\ UNCHANGED <<finishVars, lua>> /\ peerStep

Hangup(ps, c) == IF Protocol[ps[c].port] = "tcp" THEN [ps EXCEPT ![ps[c].owner].open = FALSE] ELSE ps
\* Back from the handler: a TCP connection is read again, a packet is done.
Back(ps, c) == [ps EXCEPT ![c].at = IF Protocol[ps[c].port] = "udp" THEN "gone" ELSE "reading",
                          ![c].owner = c]
CallEnds(c) == lua' = IF Handler[peers[c].port] = "lua"
                      THEN [lua EXCEPT ![peers[c].port].calls = @ - 1] ELSE lua

\* The script answers, and may call close, which a packet handler lacks.
ScriptAnswers(c, close) ==
    /\ peers[c].at = "script"
    /\ close => Protocol[peers[c].port] = "tcp"
    /\ peers' = LET asked == [peers EXCEPT ![c].owner = lua[peers[c].port].last] IN
                Back(IF close THEN Hangup(asked, c) ELSE peers, c)
    /\ CallEnds(c)
    /\ UNCHANGED finishVars /\ peerStep

\* Mutant: the signal is dropped when Run does not receive at once.
FinishWithoutWaiting(c) ==
    /\ peers[c].at = "finish" /\ finishOnce = "unused"
    /\ finishedAt' = chandlers
    /\ IF run = "waiting" THEN /\ finishOnce' = "running"
                               /\ peers' = [peers EXCEPT ![c].at = "send"]
                          ELSE /\ finishOnce' = "done"
                               /\ peers' = [peers EXCEPT ![c].at = "hangup"]
    /\ UNCHANGED lua /\ peerStep

\* After a second, Finish: the first caller tells the handlers it knows and
\* sends; the others wait in the Once until the first has been received.
Finish(c) ==
    /\ peers[c].at = "finish" /\ finishOnce = "unused"
    /\ finishOnce' = "running" /\ finishedAt' = chandlers
    /\ peers' = [peers EXCEPT ![c].at = "send"]
    /\ UNCHANGED lua /\ peerStep

FinishAgain(c) ==
    /\ peers[c].at = "finish" /\ finishOnce = "done"
    /\ peers' = [peers EXCEPT ![c].at = "hangup"]
    /\ UNCHANGED <<finishVars, lua>> /\ peerStep

\* After another second the TCP connection finish belongs to is closed.
AfterFinish(c) ==
    /\ peers[c].at = "hangup"
    /\ peers' = Back(Hangup(peers, c), c)
    /\ CallEnds(c)
    /\ UNCHANGED finishVars /\ peerStep

\* The connection was closed, by the peer or by a finish or close.
ReadFails(c) ==
    /\ peers[c].at = "reading"
    /\ peers' = [peers EXCEPT ![c].at = "gone", ![c].open = FALSE]
    /\ UNCHANGED <<finishVars, lua>> /\ peerStep

ColdNext ==
    \/ BadEnvironment \/ Start \/ Wait \/ Cancel \/ RunCancelled \/ StopNext \/ RunReturnsAfterStop
    \/ run # "returned" /\
        \/ \E p \in Ports : Prepare(p) \/ Skip(p) \/ Listen(p) \/ Register(p) \/ ContextCloses(p)
        \/ \E k \in Ports \cup {"stop"} : CloseListener(k) \/ CloseHandler(k) \/ CloseState(k)
        \/ \E c \in Peers :
            \/ \E p \in Ports : Accept(c, p)
            \/ GetHandler(c) \/ NoHandler(c) \/ Packet(c) \/ CallScript(c)
            \/ ScriptFinishes(c) \/ \E close \in BOOLEAN : ScriptAnswers(c, close)
            \/ Finish(c) \/ RunFinishes(c) \/ FinishAgain(c) \/ AfterFinish(c)
            \/ ReadFails(c)

-----------------------------------------------------------------------------
ColdTypeOK ==
    /\ run \in {"starting", "serving", "waiting", "stopping", "returned"}
    /\ result \in {"none", "error", "cancelled", "finished"}
    /\ finishOnce \in {"unused", "running", "done"}
    /\ \A p \in Ports : /\ listener[p] \in {"none", "open", "closed"}
                        /\ lua[p].calls \in 0 .. Cardinality(Peers)

\* A wake is never lost, and it frees the ports.  Once a handler's finish was
\* accepted and until Run takes it, a peer is about to hand it over, also when it
\* came before Run began to wait or another peer asked at the same time; when Run
\* then returns, the listeners that were registered as it took the wake are
\* closed, so that the next procedure can bind the ports (coldstarter.go:126-151,
\* servers/tcp.go:123-137, servers/udp.go:96-109).
WakeHandedOver ==
    /\ finishOnce # "unused" /\ result = "none" => \E c \in Peers : peers[c].at = "send"
    /\ run = "returned" /\ result = "finished" => \A p \in atStop : listener[p] = "closed"
=============================================================================
