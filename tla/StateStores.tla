---------------------------- MODULE StateStores ----------------------------
(***************************************************************************)
(* The two runtime state stores, at the level of their database and API    *)
(* calls: internal/runtime/docker/state_store.go (SQLite) and              *)
(* internal/runtime/kubernetes/state_store.go (config maps).  The record of*)
(* one scroll; every caller loads it, edits its copy and calls             *)
(* UpdateScroll, while others do the same, delete it or create it again.   *)
(* RuntimeSupervisor uses the store through one operator; here its calls   *)
(* interleave.                                                             *)
(***************************************************************************)
EXTENDS Naturals

CONSTANTS Scopes,      \* of UI packages
          Writers,     \* callers with a record in hand
          MaxClock,    \* bound: publishes
          MaxVersion   \* bound: writes of the record

VARIABLES kind,        \* "sqlite" or "configmap"
          row,         \* the stored record, or Absent
          version,     \* resourceVersion of the config map; counts all writes
          clock,
          schema,      \* of the SQLite table
          writers

storeVars == <<kind, row, version, clock, schema, writers>>

Absent == [status |-> "absent"]
NoPackages == [s \in Scopes |-> 0]
IdleWriter == [at |-> "idle", op |-> "none", rec |-> Absent, base |-> 0]

StoreInit ==
    /\ kind \in {"sqlite", "configmap"}
    /\ row = Absent /\ version = 0 /\ clock = 0
    /\ schema \in IF kind = "sqlite" THEN {"current", "older", "legacy"} ELSE {"current"}
    /\ writers = [w \in Writers |-> IdleWriter]

Step(w, at) == writers' = [writers EXCEPT ![w].at = at]
Done(w) == writers' = [writers EXCEPT ![w] = IdleWriter]
Write(r) == /\ version < MaxVersion /\ version' = version + 1 /\ row' = r

-----------------------------------------------------------------------------
(* Every SQLite call opens the database and brings its schema up to date.  *)

Begin(w, op) ==
    /\ writers[w].at = "idle"
    /\ writers' = [writers EXCEPT ![w] = [IdleWriter EXCEPT !.at = "open", !.op = op]]
    /\ UNCHANGED <<kind, row, version, clock, schema>>

Open(w) ==
    /\ writers[w].at = "open"
    /\ Step(w, CASE schema = "current" -> writers[w].op
                 [] schema = "older" -> "alter"
                 [] schema = "legacy" -> "reset")
    /\ UNCHANGED <<kind, row, version, clock, schema>>

\* A column is missing.  Another call may have added it since: then ALTER fails.
Alter(w) ==
    /\ writers[w].at = "alter"
    /\ IF schema = "older" THEN schema' = "current" /\ Step(w, "open")
                           ELSE UNCHANGED schema /\ Done(w)
    /\ UNCHANGED <<kind, row, version, clock>>

\* The database files are removed, with what another call has written since
\* it reset them itself.
Reset(w) ==
    /\ writers[w].at = "reset"
    /\ schema' = "current" /\ row' = Absent
    /\ Step(w, "open")
    /\ UNCHANGED <<kind, version, clock>>

-----------------------------------------------------------------------------
(* The calls                                                               *)

\* One that exists is an error of either store.
CreateScroll(w) ==
    /\ writers[w].at = "create"
    /\ IF row = Absent THEN Write([status |-> "created", ui |-> NoPackages, ports |-> "nil"])
                       ELSE UNCHANGED <<row, version>>
    /\ Done(w)
    /\ UNCHANGED <<kind, clock, schema>>

DeleteScroll(w) ==
    /\ writers[w].at = "delete"
    /\ row' = Absent
    /\ Done(w)
    /\ UNCHANGED <<kind, version, clock, schema>>

GetScroll(w) ==
    /\ writers[w].at = "get"
    /\ IF row = Absent THEN Done(w)
                       ELSE writers' = [writers EXCEPT ![w].at = "loaded", ![w].rec = row]
    /\ UNCHANGED <<kind, row, version, clock, schema>>

\* What callers do with their copy: a status, a published package or the
\* ports of the scroll.
Edit(w, r) ==
    /\ writers[w].at = "loaded"
    /\ writers' = [writers EXCEPT ![w].at = "open", ![w].op = "update", ![w].rec = r]
SetStatus(w) ==
    /\ Edit(w, [writers[w].rec EXCEPT !.status = "running"])
    /\ UNCHANGED <<kind, row, version, clock, schema>>
Publish(w, s) ==
    /\ clock < MaxClock /\ clock' = clock + 1
    /\ Edit(w, [writers[w].rec EXCEPT !.ui[s] = clock'])
    /\ UNCHANGED <<kind, row, version, schema>>
ReservePorts(w) ==
    /\ Edit(w, [writers[w].rec EXCEPT !.ports = "reserved"])
    /\ UNCHANGED <<kind, row, version, clock, schema>>

\* The whole row, whatever it holds by now.
UpdateRow(w) ==
    /\ kind = "sqlite" /\ writers[w].at = "update"
    /\ IF row = Absent THEN UNCHANGED <<row, version>> ELSE Write(writers[w].rec)
    /\ Done(w)
    /\ UNCHANGED <<kind, clock, schema>>

\* Mutant: the older of two packages wins.
MergeOlder(current, next) ==
    [s \in Scopes |-> IF next[s] # 0 THEN next[s] ELSE current[s]]

\* A newer package of the same scope is kept, a package of another scope too.
mergeUIPackages(current, next) ==
    [s \in Scopes |-> IF next[s] # 0 /\ (current[s] = 0 \/ next[s] >= current[s])
                      THEN next[s] ELSE current[s]]

\* UpdateScroll of the config map store reads the stored record first ...
MergeScroll(w) ==
    /\ kind = "configmap" /\ writers[w].at = "update"
    /\ IF row = Absent THEN Done(w)
       ELSE writers' = [writers EXCEPT
                ![w].at = "put", ![w].base = version,
                ![w].rec.ui = mergeUIPackages(row.ui, @),
                ![w].rec.ports = IF @ = "nil" THEN row.ports ELSE @]
    /\ UNCHANGED <<kind, row, version, clock, schema>>

\* ... and replaces it only if nobody wrote in between.
PutScroll(w) ==
    /\ writers[w].at = "put"
    /\ IF row # Absent /\ version = writers[w].base THEN Write(writers[w].rec)
                                                    ELSE UNCHANGED <<row, version>>
    /\ Done(w)
    /\ UNCHANGED <<kind, clock, schema>>

StoreNext ==
    \E w \in Writers :
        \/ \E op \in {"create", "delete", "get"} : Begin(w, op)
        \/ Open(w) \/ Alter(w) \/ Reset(w)
        \/ CreateScroll(w) \/ DeleteScroll(w) \/ GetScroll(w)
        \/ SetStatus(w) \/ ReservePorts(w) \/ \E s \in Scopes : Publish(w, s)
        \/ UpdateRow(w) \/ MergeScroll(w) \/ PutScroll(w)

-----------------------------------------------------------------------------
StoreTypeOK ==
    /\ row = Absent \/ /\ row.status \in {"created", "running"} /\ row.ports \in {"nil", "reserved"}
                       /\ row.ui \in [Scopes -> 0 .. clock]
    /\ version \in 0 .. MaxVersion /\ clock \in 0 .. MaxClock

\* An update that was on its way when its scroll was deleted does not bring
\* the scroll back: a record appears only by CreateScroll (docker
\* state_store.go:178-192, kubernetes state_store.go:127-154).
DeletedStays ==
    [][(row = Absent /\ row' # Absent) => row'.status = "created" /\ row'.ui = NoPackages]_storeVars

\* Updates from stale copies, in any order, never lose a package that was
\* published for another scope, replace a newer one by an older one or forget
\* the ports of the scroll (kubernetes state_store.go:127-169).
MetadataKept ==
    [][(kind = "configmap" /\ row # Absent /\ row' # Absent) =>
          /\ \A s \in Scopes : row'.ui[s] >= row.ui[s]
          /\ row.ports = "reserved" => row'.ports = "reserved"]_storeVars

\* What a store was told last stays: no deleted scroll comes back, no package
\* or port is lost to an older copy of the record.
RecordsKept == DeletedStays /\ MetadataKept
=============================================================================
