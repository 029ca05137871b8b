----------------------------- MODULE ScrollFile -----------------------------
(***************************************************************************)
(* What a scroll.yaml may say: Validate (core/domain/scroll.go), which     *)
(* both the daemon and `druid validate` run, and the check of the          *)
(* daemon's own ports before it (scroll_service.go).                       *)
(*                                                                         *)
(* A text is present or not unless something compares it; an optional      *)
(* value is the set of it.  A procedure is                                 *)
(*   [type, id, old, image, runs, mounts, expected, target, signal],       *)
(* "old" being the unsupported mode, wait and data, and "runs" the fields  *)
(* of a container nothing checks; a mount [path, absolute, sub, subAbsolute].*)
(***************************************************************************)
EXTENDS FilePaths, Naturals, FiniteSets

\* An unset type is a container.
Kind(p) == IF p.type = "" THEN "container" ELSE p.type

\* Its id, or the command's name and the index, "start.0".
ProcedureName(command, index, p) == IF p.id = {} THEN <<command, index>> ELSE CHOOSE n \in p.id : TRUE

HasContainerFields(p) == p.image \/ p.runs \/ p.expected # <<>> \/ p.mounts # <<>>

\* A threshold is [form, amount, unit, window], with "form" whether it reads
\* like 10kb/5m, "unit" the power of 1000, and "window" whether it is a
\* positive duration.  Bytes are unsigned integers of the given width.
RECURSIVE TimesThousand(_, _, _)
TimesThousand(bytes, times, width) ==
    IF times = 0 THEN bytes ELSE TimesThousand((bytes * 1000) % 2^width, times - 1, width)
ThresholdRefused(t, width) == ~t.form \/ t.amount >= 2^width \/ ~t.window
ParseKeepAliveTraffic(t, width) == TimesThousand(t.amount, t.unit, width)

-----------------------------------------------------------------------------
(* Validate                                                                *)

ValidUI(ui) ==
    /\ ui.private
    /\ ui.path # <<>> /\ ~ui.absolute /\ Clean(ui.path) = ui.path /\ ~Escapes(ui.path)
    /\ Len(ui.path) > 1 /\ Head(ui.path) = "private"
    /\ ui.wasm

ValidPort(port) == ~(port.port = 0 /\ port.protocol \in {"http", "https"})

ValidMounts(mounts) ==
    /\ \A i \in DOMAIN mounts :
           /\ mounts[i].absolute
           /\ mounts[i].sub # <<>> => ~mounts[i].subAbsolute /\ ~Escapes(Clean(mounts[i].sub))
    /\ \A i, j \in DOMAIN mounts : mounts[i].path = mounts[j].path => i = j

ValidExpectedPort(expected, ports, width) ==
    /\ expected.name # "" /\ \E i \in DOMAIN ports : ports[i].name = expected.name
    /\ \A t \in expected.keepAliveTraffic : ~ThresholdRefused(t, width)

ValidContainer(p, ports, width) ==
    /\ p.image /\ p.target = "" /\ ~p.signal
    /\ ValidMounts(p.mounts)
    /\ \A i \in DOMAIN p.expected : ValidExpectedPort(p.expected[i], ports, width)

ValidSignal(p) == p.target # "" /\ p.signal /\ ~HasContainerFields(p)

ValidProcedure(p, ports, width) ==
    /\ ~p.old
    /\ \/ Kind(p) = "container" /\ ValidContainer(p, ports, width)
       \/ Kind(p) = "signal" /\ ValidSignal(p)

\* Where the procedures of a scroll are: <<command, index>>, from 0.
Places(scroll) ==
    UNION {{<<c, i - 1>> : i \in DOMAIN scroll.commands[c]} : c \in DOMAIN scroll.commands}
At(scroll, place) == scroll.commands[place[1]][place[2] + 1]

\* Nothing is asked of needs, of a signal's target, or of an id that is the
\* default name of another procedure.
Validate(scroll, width) ==
    /\ scroll.described
    /\ DOMAIN scroll.commands # {}
    /\ scroll.serve # "" => scroll.serve \in DOMAIN scroll.commands
    /\ \A ui \in scroll.ui : ValidUI(ui)
    /\ \A i \in DOMAIN scroll.ports : ValidPort(scroll.ports[i])
    /\ \A c \in DOMAIN scroll.commands : c # "" /\ scroll.commands[c] # <<>>
    /\ \A x \in Places(scroll) : ValidProcedure(At(scroll, x), scroll.ports, width)
    /\ \A x, y \in Places(scroll) :
           x # y => At(scroll, x).id = {} \/ At(scroll, x).id # At(scroll, y).id

\* The files beside scroll.yaml: strangers are refused by a strict check, and
\* so is a directory that is missing.
ScrollFiles == {"update", "scroll.yaml", "public", "private", "packet_handler",
                "scroll-config.yml.scroll_template", "data", ".meta"}
ValidDirectory(entries, strict) ==
    strict => \E files \in entries : files \subseteq ScrollFiles

\* NewCachedScrollServiceWithPorts: the daemon's ports join the scroll's own;
\* one that is declared otherwise is refused.
Conflicting(ports, extra) ==
    \E i \in DOMAIN ports, j \in DOMAIN extra :
        /\ ports[i].name = extra[j].name
        /\ ~\E later \in DOMAIN ports : later > i /\ ports[later].name = extra[j].name
        /\ \/ ports[i].port # extra[j].port
           \/ ports[i].protocol # extra[j].protocol
WithExtraPorts(ports, extra) ==
    ports \o SelectSeq(extra, LAMBDA e : \A i \in DOMAIN ports : ports[i].name # e.name)
AcceptedByDaemon(scroll, extra, width) ==
    /\ ~Conflicting(scroll.ports, extra)
    /\ Validate([scroll EXCEPT !.ports = WithExtraPorts(@, extra)], width)
=============================================================================
