---------------------------- MODULE ServicesProofs ----------------------------
(***************************************************************************)
(* Theorems about the services beside the daemon's core, each from its own *)
(* specification: the state stores, the coldstarter, the file watcher, the *)
(* console hub, the registry client.  They hold for any number of callers, peers, viewers and   *)
(* goroutines, and for every bound.                                        *)
(***************************************************************************)
EXTENDS StateStores, RegistryTransfer, ColdStarter, DevServer, ConsoleHub,
        FiniteSetTheorems, WellFoundedInduction, TLAPS

-----------------------------------------------------------------------------
(* The state stores                                                        *)

Record == [status : {"created", "running"}, ui : [Scopes -> Nat], ports : {"nil", "reserved"}]

StoreSteps == {"none", "idle", "open", "alter", "reset", "create", "delete", "get", "loaded",
               "update", "put"}
Writer == [at : StoreSteps, op : StoreSteps, rec : Record \cup {Absent}, base : Nat]

\* What the config map holds when a merged record replaces it is what the
\* record was merged with.
MergedOK(x) ==
    x.base = version /\ row # Absent =>
        /\ \A s \in Scopes : x.rec.ui[s] >= row.ui[s]
        /\ row.ports = "reserved" => x.rec.ports = "reserved"

WriterOK(x) ==
    /\ x \in Writer
    /\ x.op \in {"none", "create", "delete", "get", "update"}
    /\ x.base <= version
    /\ x.at = "loaded" \/ x.op = "update" => x.rec \in Record
    /\ x.at \in {"update", "put"} => x.op = "update"
    /\ x.at = "put" => kind = "configmap" /\ MergedOK(x)

StoreInv ==
    /\ kind \in {"sqlite", "configmap"}
    /\ schema \in {"current", "older", "legacy"}
    /\ row \in Record \cup {Absent}
    /\ version \in Nat /\ clock \in Nat
    /\ DOMAIN writers = Writers
    /\ writers = [w \in Writers |-> writers[w]]
    /\ \A w \in Writers : WriterOK(writers[w])

LEMMA NoRecord == Absent \notin Record
BY DEF Absent, Record

LEMMA EmptyRecord == [status |-> "created", ui |-> NoPackages, ports |-> "nil"] \in Record
BY DEF NoPackages, Record

LEMMA IdleWriterOK == ASSUME StoreInv PROVE WriterOK(IdleWriter)
BY DEF WriterOK, Writer, IdleWriter, StoreSteps, StoreInv

\* A step of one writer that leaves the record alone.
LEMMA WriterStep ==
    ASSUME StoreInv, NEW w \in Writers, NEW x, WriterOK(x),
           writers' = [writers EXCEPT ![w] = x],
           UNCHANGED <<kind, row, version>>,
           clock' \in Nat, schema' \in {"current", "older", "legacy"}
    PROVE  StoreInv'
<1>1. \A v \in Writers : writers'[v] = IF v = w THEN x ELSE writers[v]
  BY DEF StoreInv
<1>2. ASSUME NEW v \in Writers PROVE WriterOK(writers[v])'
  <2>1. WriterOK(IF v = w THEN x ELSE writers[v])
    BY DEF StoreInv
  <2> QED
    BY <2>1, <1>1 DEF WriterOK, MergedOK
<1>3. writers' = [v \in Writers |-> writers'[v]]
  BY DEF StoreInv
<1> QED
  BY <1>2, <1>3 DEF StoreInv

\* A step that changes the record, after which its writer is idle: what others
\* have merged is then out of date, or the record is gone.
LEMMA WriteStep ==
    ASSUME StoreInv, NEW w \in Writers, NEW x, WriterOK(x), x.at # "put",
           writers' = [writers EXCEPT ![w] = x],
           row' \in Record \cup {Absent},
           \/ version' = version + 1
           \/ version' = version /\ row' \in {row, Absent},
           UNCHANGED <<kind, clock>>, schema' \in {"current", "older", "legacy"}
    PROVE  StoreInv'
<1>1. version' \in Nat /\ version' >= version
  BY DEF StoreInv
<1>2. ASSUME NEW v \in Writers PROVE WriterOK(writers[v])'
  <2>1. writers'[v] = IF v = w THEN x ELSE writers[v]
    BY DEF StoreInv
  <2>2. CASE v = w
    <3>1. writers'[v] = x
      BY <2>1, <2>2
    <3>2. x \in Writer /\ x.base \in Nat /\ x.base <= version
      BY DEF WriterOK, Writer
    <3>3. x.base <= version'
      BY <3>2, <1>1 DEF StoreInv
    <3> QED
      BY <3>1, <3>2, <3>3 DEF WriterOK
  <2>3. CASE v # w
    <3> DEFINE y == writers[v]
    <3>1. writers'[v] = y
      BY <2>1, <2>3
    <3>2. WriterOK(y) /\ y.base \in Nat /\ y.base <= version
      BY DEF StoreInv, WriterOK, Writer
    <3>3. y.base <= version'
      BY <3>2, <1>1 DEF StoreInv
    <3>4. y.at = "put" /\ y.base = version' /\ row' # Absent =>
            /\ \A s \in Scopes : y.rec.ui[s] >= row'.ui[s]
            /\ row'.ports = "reserved" => y.rec.ports = "reserved"
      BY <3>2 DEF WriterOK, MergedOK, StoreInv
    <3> QED
      BY <3>1, <3>2, <3>3, <3>4 DEF WriterOK, MergedOK
  <2> QED
    BY <2>2, <2>3
<1>3. writers' = [v \in Writers |-> writers'[v]]
  BY DEF StoreInv
<1> QED
  BY <1>1, <1>2, <1>3 DEF StoreInv
LEMMA StoreInitial == ASSUME StoreInit PROVE StoreInv
<1>1. IdleWriter \in Writer
  BY DEF IdleWriter, Writer, StoreSteps
<1>2. WriterOK(IdleWriter)
  BY <1>1 DEF StoreInit, IdleWriter, WriterOK
<1> QED
  BY <1>2 DEF StoreInit, StoreInv

\* What WriterOK says of the writer that takes a step.
LEMMA WriterHas ==
    ASSUME StoreInv, NEW w \in Writers
    PROVE  /\ WriterOK(writers[w])
           /\ writers[w] = [at |-> writers[w].at, op |-> writers[w].op,
                            rec |-> writers[w].rec, base |-> writers[w].base]
           /\ writers[w].rec \in Record \cup {Absent}
           /\ writers[w].base \in Nat /\ writers[w].base <= version
<1>1. WriterOK(writers[w])
  BY DEF StoreInv
<1>2. writers[w] \in Writer
  BY <1>1 DEF WriterOK
<1> QED
  BY <1>1, <1>2 DEF WriterOK, Writer

\* The steps that leave the record alone.
LEMMA QuietStep ==
    ASSUME StoreInv, NEW w \in Writers,
           \/ \E op \in {"create", "delete", "get"} : Begin(w, op)
           \/ Open(w) \/ Alter(w) \/ GetScroll(w)
           \/ SetStatus(w) \/ ReservePorts(w) \/ \E s \in Scopes : Publish(w, s)
           \/ MergeScroll(w)
    PROVE  StoreInv' /\ row' = row
<1> DEFINE y == writers[w]
<1>0. /\ WriterOK(y)
      /\ y = [at |-> y.at, op |-> y.op, rec |-> y.rec, base |-> y.base]
      /\ y.rec \in Record \cup {Absent} /\ y.base \in Nat /\ y.base <= version
  BY WriterHas
<1>1. WriterOK(IdleWriter)
  BY IdleWriterOK
<1>2. ASSUME NEW op \in {"create", "delete", "get"}, Begin(w, op) PROVE StoreInv' /\ row' = row
  <2> DEFINE x == [IdleWriter EXCEPT !.at = "open", !.op = op]
  <2>1. WriterOK(x)
    BY <1>1 DEF WriterOK, Writer, IdleWriter, StoreSteps
  <2> HIDE DEF x
  <2>2. writers' = [writers EXCEPT ![w] = x] /\ UNCHANGED <<kind, row, version, clock, schema>>
    BY <1>2 DEF Begin, x
  <2> QED
    BY <2>1, <2>2, WriterStep DEF StoreInv
\* A step that only moves its writer.
<1>3. ASSUME NEW at \in StoreSteps \ {"put", "loaded"}, at = "update" => y.op = "update",
             Step(w, at), UNCHANGED <<kind, row, version, clock>>,
             schema' \in {"current", "older", "legacy"}
      PROVE  StoreInv' /\ row' = row
  <2> DEFINE x == [y EXCEPT !.at = at]
  <2>1. WriterOK(x)
    BY <1>0, <1>3 DEF WriterOK, Writer
  <2> HIDE DEF x
  <2>2. writers' = [writers EXCEPT ![w] = x]
    BY <1>3 DEF Step, x
  <2> QED
    BY <1>3, <2>1, <2>2, WriterStep DEF StoreInv
<1>4. ASSUME Done(w), UNCHANGED <<kind, row, version, clock, schema>> PROVE StoreInv' /\ row' = row
  BY <1>4, <1>1, WriterStep DEF Done, StoreInv
<1>5. ASSUME Open(w) PROVE StoreInv' /\ row' = row
  <2>1. PICK at : at \in {y.op, "alter", "reset"} /\ Step(w, at)
    BY <1>5 DEF Open, StoreInv
  <2>2. at \in StoreSteps \ {"put", "loaded"} /\ (at = "update" => y.op = "update")
    BY <1>0, <2>1 DEF WriterOK, StoreSteps
  <2> QED
    BY <1>3, <1>5, <2>1, <2>2 DEF Open, StoreInv
<1>6. ASSUME Alter(w) PROVE StoreInv' /\ row' = row
  BY <1>3, <1>4, <1>6 DEF Alter, StoreSteps, StoreInv
<1>7. ASSUME GetScroll(w) PROVE StoreInv' /\ row' = row
  <2>1. CASE row = Absent
    BY <1>4, <1>7, <2>1 DEF GetScroll
  <2>2. CASE row # Absent
    <3> DEFINE x == [y EXCEPT !.at = "loaded", !.rec = row]
    <3>1. row \in Record
      BY <2>2 DEF StoreInv
    <3>2. WriterOK(x)
      BY <1>0, <3>1 DEF WriterOK, Writer, StoreSteps
    <3>3. writers' = [writers EXCEPT ![w] = x] /\ UNCHANGED <<kind, row, version, clock, schema>>
      BY <1>7, <2>2 DEF GetScroll
    <3> HIDE DEF x
    <3> QED
      BY <3>2, <3>3, WriterStep DEF StoreInv
  <2> QED
    BY <2>1, <2>2
<1>8. ASSUME NEW r \in Record, Edit(w, r), UNCHANGED <<kind, row, version, schema>>, clock' \in Nat
      PROVE  StoreInv' /\ row' = row
  <2> DEFINE x == [y EXCEPT !.at = "open", !.op = "update", !.rec = r]
  <2>1. WriterOK(x)
    BY <1>0 DEF WriterOK, Writer, StoreSteps
  <2>2. writers' = [writers EXCEPT ![w] = x]
    BY <1>8 DEF Edit
  <2> HIDE DEF x
  <2> QED
    BY <1>8, <2>1, <2>2, WriterStep DEF StoreInv
<1>9. ASSUME SetStatus(w) PROVE StoreInv' /\ row' = row
  <2>1. y.rec \in Record
    BY <1>0, <1>9 DEF SetStatus, Edit, WriterOK
  <2>2. [y.rec EXCEPT !.status = "running"] \in Record
    BY <2>1 DEF Record
  <2> QED
    BY <1>8, <1>9, <2>2 DEF SetStatus, StoreInv
<1>10. ASSUME ReservePorts(w) PROVE StoreInv' /\ row' = row
  <2>1. y.rec \in Record
    BY <1>0, <1>10 DEF ReservePorts, Edit, WriterOK
  <2>2. [y.rec EXCEPT !.ports = "reserved"] \in Record
    BY <2>1 DEF Record
  <2> QED
    BY <1>8, <1>10, <2>2 DEF ReservePorts, StoreInv
<1>11. ASSUME NEW s \in Scopes, Publish(w, s) PROVE StoreInv' /\ row' = row
  <2>0. clock' = clock + 1 /\ clock \in Nat /\ y.at = "loaded"
    BY <1>11, ZenonT(40) DEF Publish, Edit, StoreInv
  <2>1. y.rec \in Record /\ clock' \in Nat
    BY <1>0, <2>0 DEF WriterOK
  <2>2. [y.rec EXCEPT !.ui[s] = clock'] \in Record
    BY <2>1 DEF Record
  <2> QED
    BY <1>8, <1>11, <2>1, <2>2 DEF Publish
<1>12. ASSUME MergeScroll(w) PROVE StoreInv' /\ row' = row
  <2>1. CASE row = Absent
    BY <1>4, <1>12, <2>1 DEF MergeScroll
  <2>2. CASE row # Absent
    <3> DEFINE x == [y EXCEPT !.at = "put", !.base = version,
                              !.rec.ui = mergeUIPackages(row.ui, @),
                              !.rec.ports = IF @ = "nil" THEN row.ports ELSE @]
    <3>1. row \in Record /\ y.rec \in Record /\ y.op = "update" /\ kind = "configmap"
      BY <1>0, <1>12, <2>2 DEF MergeScroll, WriterOK, StoreInv
    <3>2. mergeUIPackages(row.ui, y.rec.ui) \in [Scopes -> Nat]
      BY <3>1 DEF mergeUIPackages, Record
    <3>3. ASSUME NEW s \in Scopes PROVE mergeUIPackages(row.ui, y.rec.ui)[s] >= row.ui[s]
      <4>1. row.ui[s] \in Nat /\ y.rec.ui[s] \in Nat
        BY <3>1 DEF Record
      <4>2. mergeUIPackages(row.ui, y.rec.ui)[s] \in {row.ui[s], y.rec.ui[s]}
        BY DEF mergeUIPackages
      <4> QED
        BY <4>1, <4>2 DEF mergeUIPackages
    <3>4. x.rec = [y.rec EXCEPT !.ui = mergeUIPackages(row.ui, y.rec.ui),
                                !.ports = IF y.rec.ports = "nil" THEN row.ports ELSE y.rec.ports]
      BY <1>0, <3>1 DEF Record
    <3>5. /\ x.rec \in Record
          /\ x.rec.ui = mergeUIPackages(row.ui, y.rec.ui)
          /\ row.ports = "reserved" => x.rec.ports = "reserved"
      <4>1. PICK rec \in Record : rec = y.rec
        BY <3>1
      <4>2. PICK ui \in [Scopes -> Nat] : ui = mergeUIPackages(row.ui, y.rec.ui)
        BY <3>2
      <4>3. PICK ports \in {"nil", "reserved"} :
              ports = IF y.rec.ports = "nil" THEN row.ports ELSE y.rec.ports
        BY <3>1 DEF Record
      <4>4. PICK new : new = [rec EXCEPT !.ui = ui, !.ports = ports]
        OBVIOUS
      <4>5. new \in Record /\ new.ui = ui /\ new.ports = ports
        BY <4>4 DEF Record
      <4>6. x.rec = new
        BY <3>4, <4>1, <4>2, <4>3, <4>4
      <4>7. row.ports = "reserved" => ports = "reserved"
        BY <3>1, <4>3 DEF Record
      <4> HIDE DEF x
      <4> QED
        BY <4>2, <4>5, <4>6, <4>7
    <3>6. x \in Writer
      <4>1. y \in Writer /\ version \in Nat
        BY <1>0 DEF WriterOK, StoreInv
      <4> QED
        BY <3>1, <3>2, <4>1 DEF Writer, StoreSteps, Record
    <3>7. writers' = [writers EXCEPT ![w] = x] /\ UNCHANGED <<kind, row, version, clock, schema>>
      BY <1>12, <2>2 DEF MergeScroll
    <3>8. x.at = "put" /\ x.op = "update" /\ x.base = version
      <4>1. y \in Writer
        BY <1>0 DEF WriterOK
      <4> QED
        BY <3>1, <4>1 DEF Writer
    <3> HIDE DEF x
    <3>9. WriterOK(x)
      BY <3>1, <3>3, <3>5, <3>6, <3>8 DEF WriterOK, MergedOK, StoreInv
    <3> QED
      BY <3>7, <3>9, WriterStep DEF StoreInv
  <2> QED
    BY <2>1, <2>2
<1> QED
  BY <1>2, <1>5, <1>6, <1>7, <1>9, <1>10, <1>11, <1>12

\* What DeletedStays and MetadataKept say of a step.
CreatedEmpty == row = Absent /\ row' # Absent => row'.status = "created" /\ row'.ui = NoPackages
KeptFromStale ==
    kind = "configmap" /\ row # Absent /\ row' # Absent =>
        /\ \A s \in Scopes : row'.ui[s] >= row.ui[s]
        /\ row.ports = "reserved" => row'.ports = "reserved"

LEMMA UnchangedKept == ASSUME StoreInv, row' = row PROVE CreatedEmpty /\ KeptFromStale
<1>1. row # Absent => \A s \in Scopes : row.ui[s] \in Nat
  BY DEF StoreInv, Record
<1> QED
  BY <1>1 DEF CreatedEmpty, KeptFromStale

\* The steps that change the record, or find that they may not.
LEMMA WritingStep ==
    ASSUME StoreInv, NEW w \in Writers,
           \/ Reset(w) \/ CreateScroll(w) \/ DeleteScroll(w) \/ UpdateRow(w) \/ PutScroll(w)
    PROVE  StoreInv' /\ CreatedEmpty /\ KeptFromStale
<1> DEFINE y == writers[w]
<1>0. /\ WriterOK(y)
      /\ y.rec \in Record \cup {Absent} /\ y.base \in Nat /\ y.base <= version
  BY WriterHas
<1>1. WriterOK(IdleWriter) /\ IdleWriter.at # "put"
  BY IdleWriterOK DEF IdleWriter
<1>2. CASE Reset(w)
  <2> DEFINE x == [y EXCEPT !.at = "open"]
  <2>1. WriterOK(x) /\ x.at # "put"
    BY <1>0 DEF WriterOK, Writer, StoreSteps
  <2>2. writers' = [writers EXCEPT ![w] = x]
    BY <1>2 DEF Reset, Step
  <2> HIDE DEF x
  <2>3. row' = Absent /\ UNCHANGED <<kind, version, clock>> /\ schema' = "current"
    BY <1>2 DEF Reset
  <2>4. StoreInv'
    BY <2>1, <2>2, <2>3, WriteStep
  <2> QED
    BY <2>3, <2>4 DEF CreatedEmpty, KeptFromStale
<1>3. ASSUME NEW r \in Record \cup {Absent}, Write(r) \/ (r = Absent /\ row' = r /\ version' = version),
             Done(w), UNCHANGED <<kind, clock, schema>>
      PROVE  StoreInv'
  BY <1>1, <1>3, WriteStep DEF Write, Done, StoreInv
<1>4. ASSUME UNCHANGED <<row, version>>, Done(w), UNCHANGED <<kind, clock, schema>>
      PROVE  StoreInv' /\ CreatedEmpty /\ KeptFromStale
  <2>1. StoreInv'
    BY <1>1, <1>4, WriterStep DEF Done, StoreInv
  <2> QED
    BY <1>4, <2>1, UnchangedKept
<1>5. CASE CreateScroll(w)
  <2> DEFINE r == [status |-> "created", ui |-> NoPackages, ports |-> "nil"]
  <2>1. CASE row = Absent
    <3>1. StoreInv'
      BY <1>3, <1>5, <2>1, EmptyRecord DEF CreateScroll
    <3>2. row' = r
      BY <1>5, <2>1 DEF CreateScroll, Write
    <3> QED
      BY <2>1, <3>1, <3>2 DEF CreatedEmpty, KeptFromStale
  <2>2. CASE row # Absent
    BY <1>4, <1>5, <2>2 DEF CreateScroll
  <2> QED
    BY <2>1, <2>2
<1>6. CASE DeleteScroll(w)
  <2>1. StoreInv'
    BY <1>3, <1>6 DEF DeleteScroll
  <2>2. row' = Absent
    BY <1>6 DEF DeleteScroll
  <2> QED
    BY <2>1, <2>2 DEF CreatedEmpty, KeptFromStale
<1>7. CASE UpdateRow(w)
  <2>1. CASE row = Absent
    BY <1>4, <1>7, <2>1 DEF UpdateRow
  <2>2. CASE row # Absent
    <3>1. StoreInv'
      BY <1>0, <1>3, <1>7, <2>2 DEF UpdateRow
    <3>2. kind # "configmap"
      BY <1>7 DEF UpdateRow
    <3> QED
      BY <2>2, <3>1, <3>2 DEF CreatedEmpty, KeptFromStale
  <2> QED
    BY <2>1, <2>2
<1>8. CASE PutScroll(w)
  <2>1. CASE row # Absent /\ version = y.base
    <3>1. StoreInv'
      BY <1>0, <1>3, <1>8, <2>1 DEF PutScroll
    <3>2. row' = y.rec /\ y.at = "put"
      BY <1>8, <2>1 DEF PutScroll, Write
    <3>3. MergedOK(y)
      BY <1>0, <3>2 DEF WriterOK
    <3> QED
      BY <2>1, <3>1, <3>2, <3>3 DEF CreatedEmpty, KeptFromStale, MergedOK
  <2>2. CASE ~(row # Absent /\ version = y.base)
    BY <1>4, <1>8, <2>2 DEF PutScroll
  <2> QED
    BY <2>1, <2>2
<1> QED
  BY <1>2, <1>5, <1>6, <1>7, <1>8

LEMMA StoreStep ==
    ASSUME StoreInv, [StoreNext]_storeVars
    PROVE  StoreInv' /\ CreatedEmpty /\ KeptFromStale
<1>1. CASE UNCHANGED storeVars
  <2>1. StoreInv'
    BY <1>1 DEF storeVars, StoreInv, WriterOK, MergedOK
  <2> QED
    BY <1>1, <2>1, UnchangedKept DEF storeVars
<1>2. ASSUME NEW w \in Writers,
             \/ Reset(w) \/ CreateScroll(w) \/ DeleteScroll(w) \/ UpdateRow(w) \/ PutScroll(w)
      PROVE  StoreInv' /\ CreatedEmpty /\ KeptFromStale
  BY <1>2, WritingStep
<1>3. ASSUME NEW w \in Writers,
             \/ \E op \in {"create", "delete", "get"} : Begin(w, op)
             \/ Open(w) \/ Alter(w) \/ GetScroll(w)
             \/ SetStatus(w) \/ ReservePorts(w) \/ \E s \in Scopes : Publish(w, s)
             \/ MergeScroll(w)
      PROVE  StoreInv' /\ CreatedEmpty /\ KeptFromStale
  BY <1>3, QuietStep, UnchangedKept
<1> QED
  BY <1>1, <1>2, <1>3 DEF StoreNext

\* Of either store: an update that was on its way when the scroll was deleted
\* does not bring it back, and on config maps updates from stale copies lose
\* neither a published package nor the ports (docker state_store.go:178-192,
\* kubernetes state_store.go:127-169), for any callers, scopes and bounds.
THEOREM RecordsKeptSafe == StoreInit /\ [][StoreNext]_storeVars => RecordsKept
<1>1. StoreInit => StoreInv
  BY StoreInitial
<1>2. StoreInv /\ [StoreNext]_storeVars => StoreInv'
  BY StoreStep
<1>3. StoreInv /\ [StoreNext]_storeVars =>
        [row = Absent /\ row' # Absent => row'.status = "created" /\ row'.ui = NoPackages]_storeVars
  BY StoreStep DEF CreatedEmpty
<1>4. StoreInv /\ [StoreNext]_storeVars =>
        [(kind = "configmap" /\ row # Absent /\ row' # Absent) =>
            /\ \A s \in Scopes : row'.ui[s] >= row.ui[s]
            /\ row.ports = "reserved" => row'.ports = "reserved"]_storeVars
  BY StoreStep DEF KeptFromStale
<1> QED
  BY <1>1, <1>2, <1>3, <1>4, PTL DEF RecordsKept, DeletedStays, MetadataKept

-----------------------------------------------------------------------------
(* The file watcher                                                        *)

\* The development server and its watcher, with callers that use the watcher
\* on their own.
DevNext == ServerNext \/ ReloadClient \/ ReloadStep

\* What makes the commands run once more: the right-hand side of ChangeBuilt.
BuildPends ==
    \/ \E t \in timers : t[2] = session
    \/ \E g \in Goroutines : \/ runs[g].at = "timer" /\ runs[g].session = session
                             \/ runs[g].at = "entered"
    \/ changeAfterBuild /\ \E g \in Goroutines : runs[g].at = "building"

\* buildActive is the lock of the one goroutine that builds, and a change is
\* unbuilt only while its session lasts.
ReloadInv ==
    /\ runs = [g \in Goroutines |-> runs[g]]
    /\ \A g \in Goroutines : {"at", "session", "left", "commands"} = DOMAIN runs[g]
    /\ \A g, h \in Goroutines : runs[g].at = "building" /\ runs[h].at = "building" => g = h
    /\ buildActive => \E g \in Goroutines : runs[g].at = "building"
    /\ ~buildActive => \A g \in Goroutines : runs[g].at # "building"
    /\ unbuilt => isWatching /\ BuildPends

LEMMA ReloadInitial == ASSUME ReloadInit PROVE ReloadInv
BY DEF ReloadInit, ReloadInv, Free

\* One goroutine moves.
LEMMA RunsFrame ==
    ASSUME ReloadInv, NEW g \in Goroutines, NEW x, runs' = [runs EXCEPT ![g] = x],
           DOMAIN x = {"at", "session", "left", "commands"}
    PROVE  /\ runs' = [h \in Goroutines |-> runs'[h]]
           /\ \A h \in Goroutines : {"at", "session", "left", "commands"} = DOMAIN runs'[h]
           /\ runs'[g] = x
           /\ \A h \in Goroutines \ {g} : runs'[h] = runs[h]
BY DEF ReloadInv

\* Calls of the watch service: no goroutine leaves.
LEMMA WatchCallStep ==
    ASSUME ReloadInv,
           \/ StartWatching \/ StartFails \/ StartAgain
           \/ StopWatching \/ StopFails \/ StopIdle
           \/ \E commands \in {<<>>, Builds} : SetHotReloadCommands(commands)
           \/ \E g \in Goroutines : Trigger(g)
    PROVE  ReloadInv'
<1>1. ASSUME NEW g \in Goroutines, NEW s, Spawn(g, s),
             UNCHANGED <<buildActive, changeAfterBuild, unbuilt, timers>>,
             unbuilt => UNCHANGED <<isWatching, session>>
      PROVE  ReloadInv'
  <2> DEFINE x == [Free EXCEPT !.at = "entered", !.session = s]
  <2>1. DOMAIN x = {"at", "session", "left", "commands"} /\ x.at = "entered"
    BY DEF Free
  <2>2. runs' = [runs EXCEPT ![g] = x] /\ runs[g].at = "free"
    BY <1>1 DEF Spawn, Unused
  <2> HIDE DEF x
  <2>3. /\ runs' = [h \in Goroutines |-> runs'[h]]
        /\ \A h \in Goroutines : {"at", "session", "left", "commands"} = DOMAIN runs'[h]
        /\ runs'[g] = x
        /\ \A h \in Goroutines \ {g} : runs'[h] = runs[h]
    BY <2>1, <2>2, RunsFrame
  <2>4. \A h \in Goroutines : runs'[h].at = "building" <=> runs[h].at = "building"
    BY <2>1, <2>2, <2>3
  <2>5. unbuilt' => isWatching' /\ BuildPends'
    BY <1>1, <2>1, <2>3 DEF ReloadInv, BuildPends
  <2> QED
    BY <1>1, <2>3, <2>4, <2>5 DEF ReloadInv
<1>2. CASE StartWatching
  <2>1. ~unbuilt /\ UNCHANGED <<buildActive, changeAfterBuild, unbuilt, timers>>
    BY <1>2 DEF StartWatching, ReloadInv, timerVars
  <2>2. PICK g \in Goroutines : Spawn(g, session')
    BY <1>2 DEF StartWatching
  <2> QED
    BY <1>1, <2>1, <2>2
<1>3. CASE \E g \in Goroutines : Trigger(g)
  BY <1>1, <1>3 DEF Trigger, watchVars, timerVars
<1>4. ASSUME UNCHANGED reloadVars PROVE ReloadInv'
  BY <1>4 DEF reloadVars, watchVars, buildVars, timerVars, ReloadInv, BuildPends
<1>5. CASE StartFails
  BY <1>5 DEF StartFails, watchVars, buildVars, timerVars, ReloadInv, BuildPends
<1>6. CASE StopWatching
  BY <1>6 DEF StopWatching, ReloadInv, BuildPends
<1>7. CASE StopFails
  BY <1>7 DEF StopFails, watchVars, buildVars, timerVars, ReloadInv, BuildPends
<1>8. CASE \E commands \in {<<>>, Builds} : SetHotReloadCommands(commands)
  BY <1>8 DEF SetHotReloadCommands, watchVars, buildVars, timerVars, ReloadInv, BuildPends
<1> QED
  BY <1>2, <1>3, <1>4, <1>5, <1>6, <1>7, <1>8 DEF StartAgain, StopIdle

\* One goroutine moves, and no other step happens: what is left to prove of it.
LEMMA RunStepOK ==
    ASSUME ReloadInv, NEW g \in Goroutines, NEW x, runs' = [runs EXCEPT ![g] = x],
           DOMAIN x = {"at", "session", "left", "commands"},
           UNCHANGED isWatching,
           x.at = "building" => buildActive' /\ (runs[g].at = "building" \/ ~buildActive),
           x.at # "building" /\ runs[g].at = "building" => ~buildActive',
           x.at # "building" /\ runs[g].at # "building" => buildActive' = buildActive,
           unbuilt' => unbuilt /\ BuildPends'
    PROVE  ReloadInv'
<1>1. /\ runs' = [h \in Goroutines |-> runs'[h]]
      /\ \A h \in Goroutines : {"at", "session", "left", "commands"} = DOMAIN runs'[h]
      /\ runs'[g] = x
      /\ \A h \in Goroutines \ {g} : runs'[h] = runs[h]
  BY RunsFrame
<1>2. \A h, k \in Goroutines : runs'[h].at = "building" /\ runs'[k].at = "building" => h = k
  BY <1>1 DEF ReloadInv
<1>3. buildActive' => \E h \in Goroutines : runs'[h].at = "building"
  BY <1>1 DEF ReloadInv
<1>4. ~buildActive' => \A h \in Goroutines : runs'[h].at # "building"
  BY <1>1 DEF ReloadInv
<1> QED
  BY <1>1, <1>2, <1>3, <1>4 DEF ReloadInv

LEMMA ReloadInternalStep ==
    ASSUME ReloadInv, ReloadInternal PROVE ReloadInv'
<1>0. \A g \in Goroutines : DOMAIN runs[g] = {"at", "session", "left", "commands"}
  BY DEF ReloadInv
<1>1. CASE FileChange
  BY <1>1 DEF FileChange, buildVars, timerVars, ReloadInv, BuildPends
<1>2. ASSUME NEW s \in handling, ScheduleHotReload(s) PROVE ReloadInv'
  <2>1. CASE isWatching
    <3>1. <<changes', session>> \in timers' /\ session' = session /\ isWatching'
      BY <1>2, <2>1 DEF ScheduleHotReload
    <3>2. BuildPends'
      BY <3>1 DEF BuildPends
    <3> QED
      BY <1>2, <3>1, <3>2 DEF ScheduleHotReload, ReloadInv
  <2>2. CASE ~isWatching
    BY <1>2, <2>2 DEF ScheduleHotReload, ReloadInv, BuildPends
  <2> QED
    BY <2>1, <2>2
<1>3. ASSUME NEW g \in Goroutines, NEW t \in timers, TimerFires(t, g) PROVE ReloadInv'
  <2> DEFINE x == [Free EXCEPT !.at = "timer", !.session = t[2]]
  <2>1. DOMAIN x = {"at", "session", "left", "commands"} /\ x.at = "timer" /\ x.session = t[2]
    BY DEF Free
  <2>2. /\ runs' = [runs EXCEPT ![g] = x] /\ runs[g].at = "free" /\ timers' = timers \ {t}
        /\ UNCHANGED <<isWatching, session, buildActive, changeAfterBuild, unbuilt>>
    BY <1>3 DEF TimerFires, Unused, watchVars
  <2> HIDE DEF x
  <2>3. unbuilt => BuildPends'
    BY <2>1, <2>2, RunsFrame DEF ReloadInv, BuildPends
  <2> QED
    BY <2>1, <2>2, <2>3, RunStepOK
<1>4. ASSUME NEW g \in Goroutines, TimerCallback(g) PROVE ReloadInv'
  <2>0. UNCHANGED <<isWatching, session, buildActive, changeAfterBuild, unbuilt, timers>>
        /\ runs[g].at = "timer"
    BY <1>4 DEF TimerCallback, watchVars
  <2>1. CASE isWatching /\ session = runs[g].session
    <3> DEFINE x == [runs[g] EXCEPT !.at = "entered"]
    <3>1. DOMAIN x = {"at", "session", "left", "commands"} /\ x.at = "entered"
      BY <1>0
    <3>2. runs' = [runs EXCEPT ![g] = x]
      BY <1>4, <2>1 DEF TimerCallback
    <3> HIDE DEF x
    <3>3. BuildPends'
      BY <3>1, <3>2, RunsFrame DEF BuildPends
    <3> QED
      BY <2>0, <3>1, <3>2, <3>3, RunStepOK
  <2>2. CASE ~(isWatching /\ session = runs[g].session)
    <3>1. DOMAIN Free = {"at", "session", "left", "commands"} /\ Free.at = "free"
      BY DEF Free
    <3>2. runs' = [runs EXCEPT ![g] = Free]
      BY <1>4, <2>2 DEF TimerCallback
    <3>3. unbuilt => BuildPends'
      BY <2>0, <2>2, <3>1, <3>2, RunsFrame DEF ReloadInv, BuildPends
    <3> QED
      BY <2>0, <3>1, <3>2, <3>3, RunStepOK
  <2> QED
    BY <2>1, <2>2
<1>5. DOMAIN Free = {"at", "session", "left", "commands"} /\ Free.at = "free"
  BY DEF Free
<1>6. ASSUME NEW g \in Goroutines, AskAgain(g) PROVE ReloadInv'
  <2>1. /\ runs' = [runs EXCEPT ![g] = Free] /\ runs[g].at = "entered" /\ buildActive
        /\ changeAfterBuild' /\ UNCHANGED <<isWatching, buildActive, unbuilt>>
    BY <1>6 DEF AskAgain, watchVars
  <2>2. BuildPends'
    BY <1>5, <2>1, RunsFrame DEF ReloadInv, BuildPends
  <2> QED
    BY <1>5, <2>1, <2>2, RunStepOK
<1>7. ASSUME NEW g \in Goroutines, NothingToBuild(g) PROVE ReloadInv'
  BY <1>5, <1>7, RunStepOK DEF NothingToBuild, watchVars
<1>8. ASSUME NEW g \in Goroutines, BuildStarts(g) PROVE ReloadInv'
  <2> DEFINE x == [at |-> "building", session |-> session,
                   left |-> hotReloadCommands, commands |-> hotReloadCommands]
  <2>1. DOMAIN x = {"at", "session", "left", "commands"} /\ x.at = "building"
    OBVIOUS
  <2>2. /\ runs' = [runs EXCEPT ![g] = x] /\ ~buildActive /\ buildActive' /\ ~unbuilt'
        /\ UNCHANGED isWatching
    BY <1>8 DEF BuildStarts, watchVars
  <2> HIDE DEF x
  <2> QED
    BY <2>1, <2>2, RunStepOK DEF ReloadInv
<1>9. ASSUME NEW g \in Goroutines, BuildCommand(g) PROVE ReloadInv'
  <2> DEFINE x == [runs[g] EXCEPT !.left = Tail(@)]
  <2>1. DOMAIN x = {"at", "session", "left", "commands"} /\ x.at = "building" /\ runs[g].at = "building"
    BY <1>0, <1>9 DEF BuildCommand
  <2>2. /\ runs' = [runs EXCEPT ![g] = x]
        /\ UNCHANGED <<isWatching, session, buildActive, changeAfterBuild, unbuilt, timers>>
    BY <1>9 DEF BuildCommand, watchVars, timerVars
  <2> HIDE DEF x
  <2>3. unbuilt => BuildPends'
    BY <2>1, <2>2, RunsFrame DEF ReloadInv, BuildPends
  <2>4. buildActive
    BY <2>1 DEF ReloadInv
  <2> QED
    BY <2>1, <2>2, <2>3, <2>4, RunStepOK
<1>10. ASSUME NEW g \in Goroutines, BuildEnds(g) PROVE ReloadInv'
  <2>1. /\ runs' = [runs EXCEPT ![g] = Free] /\ runs[g].at = "building" /\ ~buildActive'
        /\ ~changeAfterBuild /\ UNCHANGED <<isWatching, session, changeAfterBuild, unbuilt, timers>>
    BY <1>10 DEF BuildEnds, watchVars, timerVars
  <2>2. unbuilt => BuildPends'
    BY <1>5, <2>1, RunsFrame DEF ReloadInv, BuildPends
  <2> QED
    BY <1>5, <2>1, <2>2, RunStepOK
<1>11. ASSUME NEW g \in Goroutines, BuildsAgain(g) PROVE ReloadInv'
  <2> DEFINE x == [runs[g] EXCEPT !.left = runs[g].commands]
  <2>1. DOMAIN x = {"at", "session", "left", "commands"} /\ x.at = "building" /\ runs[g].at = "building"
    BY <1>0, <1>11 DEF BuildsAgain
  <2>2. runs' = [runs EXCEPT ![g] = x] /\ ~unbuilt' /\ UNCHANGED <<isWatching, buildActive>>
    BY <1>11 DEF BuildsAgain, watchVars
  <2> HIDE DEF x
  <2>3. buildActive
    BY <2>1 DEF ReloadInv
  <2> QED
    BY <2>1, <2>2, <2>3, RunStepOK
<1> QED
  BY <1>1, <1>2, <1>3, <1>4, <1>6, <1>7, <1>8, <1>9, <1>10, <1>11 DEF ReloadInternal

LEMMA ReloadStepOK ==
    ASSUME ReloadInv, [DevNext]_devVars
    PROVE  ReloadInv'
<1>1. ASSUME UNCHANGED reloadVars PROVE ReloadInv'
  BY <1>1 DEF reloadVars, watchVars, buildVars, timerVars, ReloadInv, BuildPends
<1>2. CASE UNCHANGED devVars
  BY <1>1, <1>2 DEF devVars
<1>3. CASE ReloadClient
  BY <1>3, WatchCallStep DEF ReloadClient
<1>4. CASE ReloadStep
  BY <1>4, ReloadInternalStep DEF ReloadStep
<1>5. ASSUME NEW c \in Callers,
             \/ \E conf \in Configs : Call(c, "enable", conf)
             \/ Call(c, "disable", NoConfig)
             \/ CheckSame(c) \/ TakeCancel(c) \/ CancelChild(c) \/ SetStarting(c)
             \/ SpawnChild(c) \/ SetWatchError(c) \/ SetReady(c)
      PROVE  ReloadInv'
  BY <1>1, <1>5, ZenonT(40) DEF Call, CheckSame, TakeCancel, CancelChild, SetStarting, SpawnChild,
                    SetWatchError, SetReady
<1>6. ASSUME NEW c \in Callers, Unwatch(c) \/ SpawnFails(c) PROVE ReloadInv'
  BY <1>6, WatchCallStep DEF Unwatch, SpawnFails, StopWatcher
<1>7. ASSUME NEW c \in Callers, Watch(c) PROVE ReloadInv'
  BY <1>7, WatchCallStep DEF Watch
<1>8. ASSUME NEW i \in WatchIDs, (\E ok \in BOOLEAN : ChildEnds(i, ok)) \/ Reap(i) PROVE ReloadInv'
  BY <1>1, <1>8 DEF ChildEnds, Reap
<1>9. ASSUME NEW i \in WatchIDs, ReapUnwatch(i) PROVE ReloadInv'
  BY <1>1, <1>9, WatchCallStep DEF ReapUnwatch, StopWatcher
<1> QED
  BY <1>2, <1>3, <1>4, <1>5, <1>6, <1>7, <1>8, <1>9 DEF DevNext, ServerNext

\* Whatever calls, timers and changes come, and however many goroutines outlive
\* their sessions, at most one build runs, and a change of a watched file that
\* no build has started after has something on its way that starts one
\* (watch_service.go:349-424).
THEOREM ChangeBuiltSafe == DevInit /\ [][DevNext]_devVars => []ChangeBuilt
<1>1. DevInit => ReloadInv
  BY ReloadInitial DEF DevInit
<1>2. ReloadInv /\ [DevNext]_devVars => ReloadInv'
  BY ReloadStepOK
<1>3. ASSUME ReloadInv PROVE ChangeBuilt
  <2> DEFINE building == {g \in Goroutines : runs[g].at = "building"}
  <2>1. Cardinality(building) <= 1
    <3>1. CASE building = {}
      BY <3>1, FS_EmptySet
    <3>2. CASE building # {}
      <4>1. PICK g \in building : TRUE
        BY <3>2
      <4>2. building = {g}
        BY <1>3, <4>1 DEF ReloadInv
      <4>3. Cardinality({g}) = 1
        BY FS_Singleton
      <4> QED
        BY <4>2, <4>3, SMTT(30)
    <3> QED
      BY <3>1, <3>2
  <2> QED
    BY <1>3, <2>1 DEF ReloadInv, ChangeBuilt, BuildPends
<1> QED
  BY <1>1, <1>2, <1>3, PTL

-----------------------------------------------------------------------------
(* The development server                                                  *)

CallSteps == {"idle", "check", "stop", "cancel", "unwatch", "set", "watch", "spawn", "failed",
              "ready"}
CallRecord == [at : CallSteps, op : {"none", "enable", "disable"},
               config : Configs \cup {NoConfig}, taken : Nat, id : Nat]
ChildRecord == [at : {"none", "running", "ended", "reaped", "gone"}, ok : BOOLEAN,
                cancelled : BOOLEAN]

ServerShape ==
    /\ calls \in [Callers -> CallRecord] /\ children \in [WatchIDs -> ChildRecord]
    /\ cancel \in Nat /\ watchID \in Nat /\ served \in Nat /\ served <= MaxCalls
    /\ overlapped \in BOOLEAN

\* A build process that nobody has killed yet.
Alive(i) == children[i].at = "running" /\ ~children[i].cancelled

\* StatusOfChild, and that the process reported ready is the newest one.
Settled ==
    /\ \A i \in WatchIDs : Alive(i) => status = "ready" /\ cancel = i
    /\ status = "ready" => /\ cancel = watchID /\ cancel \in WatchIDs
                           /\ children[cancel].at \in {"running", "ended"}

\* What holds while x is the only call: it takes the process that may run,
\* kills it, and starts one under a number that no process has.
AloneOK(x) ==
    /\ x.at \in {"check", "stop"} => Settled /\ watchID + 2 <= 2 * served
    /\ x.at \in {"cancel", "unwatch", "set"} =>
          /\ status # "ready" /\ watchID + 1 <= 2 * served
          /\ \A i \in WatchIDs : i >= watchID => children[i].at = "none"
          /\ \A i \in WatchIDs : Alive(i) => x.at = "cancel" /\ i = x.taken
    /\ x.at \in {"watch", "spawn", "failed"} =>
          /\ status # "ready" /\ x.id = watchID /\ watchID >= 1
          /\ \A i \in WatchIDs : i >= watchID => children[i].at = "none"
          /\ \A i \in WatchIDs : ~Alive(i)
    /\ x.at = "ready" =>
          /\ status # "ready" /\ x.id = watchID /\ watchID \in WatchIDs
          /\ children[watchID].at \in {"running", "ended"}
          /\ \A i \in WatchIDs : Alive(i) => i = watchID

\* The numbers of processes go up, by at most two in a call.
Numbered ==
    /\ watchID <= 2 * served
    /\ \A i \in WatchIDs : i > watchID => children[i].at = "none"

ServerInv ==
    /\ ServerShape
    /\ ~overlapped =>
          /\ Numbered
          /\ \A c, d \in Callers : calls[c].at # "idle" /\ calls[d].at # "idle" => c = d
          /\ Quiescent => Settled
          /\ \A c \in Callers : AloneOK(calls[c])

LEMMA ServerInitial == ASSUME ServerInit PROVE ServerInv
<1>1. IdleCall \in CallRecord /\ NoChild \in ChildRecord
  BY DEF IdleCall, NoChild, CallRecord, ChildRecord, CallSteps
<1>2. ServerShape
  <2>1. calls \in [Callers -> CallRecord] /\ children \in [WatchIDs -> ChildRecord]
    BY <1>1 DEF ServerInit
  <2>2. cancel = 0 /\ watchID = 0 /\ served = 0 /\ overlapped = FALSE
    BY DEF ServerInit
  <2>3. 0 <= MaxCalls
    BY DevAssumption
  <2> QED
    BY <2>1, <2>2, <2>3 DEF ServerShape
<1>3. Numbered /\ Settled
  BY DEF ServerInit, Numbered, Settled, NoChild, Alive
<1>4. \A c \in Callers : calls[c] = IdleCall
  BY DEF ServerInit
<1> QED
  BY <1>2, <1>3, <1>4 DEF ServerInv, AloneOK, IdleCall

\* A step of a call: what others see of it.
LEMMA OneCallStep ==
    ASSUME ServerInv, NEW c \in Callers, calls[c].at # "idle",
           NEW x \in CallRecord, calls' = [calls EXCEPT ![c] = x],
           UNCHANGED <<served, overlapped>>,
           children' \in [WatchIDs -> ChildRecord], cancel' \in Nat, watchID' \in Nat,
           ~overlapped => Numbered' /\ AloneOK(x)' /\ (x.at = "idle" => Settled')
    PROVE  ServerInv'
<1>1. /\ calls' \in [Callers -> CallRecord] /\ calls'[c] = x
      /\ \A d \in Callers \ {c} : calls'[d] = calls[d]
  BY DEF ServerInv, ServerShape
<1>2. ServerShape'
  BY <1>1 DEF ServerInv, ServerShape
<1>3. ASSUME ~overlapped'
      PROVE  /\ \A d, e \in Callers : calls'[d].at # "idle" /\ calls'[e].at # "idle" => d = e
             /\ Quiescent' => Settled'
             /\ \A d \in Callers : AloneOK(calls[d])'
  <2>1. \A d \in Callers \ {c} : calls'[d].at = "idle"
    BY <1>1, <1>3 DEF ServerInv
  <2>2. \A d, e \in Callers : calls'[d].at # "idle" /\ calls'[e].at # "idle" => d = e
    BY <2>1
  <2>3. Quiescent' => Settled'
    BY <1>1, <1>3 DEF Quiescent
  <2>4. ASSUME NEW d \in Callers PROVE AloneOK(calls[d])'
    BY <1>1, <1>3, <2>1 DEF AloneOK
  <2> QED
    BY <2>2, <2>3, <2>4
<1> QED
  BY <1>2, <1>3 DEF ServerInv

LEMMA CallBegins ==
    ASSUME ServerInv, NEW c \in Callers, NEW op \in {"enable", "disable"},
           NEW conf \in Configs \cup {NoConfig}, Call(c, op, conf)
    PROVE  ServerInv'
<1> DEFINE x == [IdleCall EXCEPT !.at = IF op = "enable" THEN "check" ELSE "stop",
                                 !.op = op, !.config = conf]
<1>1. x \in CallRecord /\ x.at \in {"check", "stop"}
  BY DEF IdleCall, CallRecord, CallSteps
<1>2. /\ calls' = [calls EXCEPT ![c] = x] /\ served < MaxCalls /\ served' = served + 1
      /\ overlapped' = (overlapped \/ ~Quiescent)
      /\ UNCHANGED <<status, config, cancel, watchID, children>>
  BY DEF Call, serverVars
<1> HIDE DEF x
<1>3. /\ calls' \in [Callers -> CallRecord] /\ calls'[c] = x
      /\ \A d \in Callers \ {c} : calls'[d] = calls[d]
  BY <1>1, <1>2 DEF ServerInv, ServerShape
<1>4. ServerShape'
  <2>1. served' \in Nat /\ served' <= MaxCalls
    BY <1>2, DevAssumption DEF ServerInv, ServerShape
  <2>2. overlapped' \in BOOLEAN
    BY <1>2
  <2> QED
    BY <1>2, <1>3, <2>1, <2>2 DEF ServerInv, ServerShape
<1>5. ASSUME ~overlapped' PROVE Numbered' /\ Settled' /\ watchID' + 2 <= 2 * served'
  <2>1. ~overlapped /\ Quiescent
    BY <1>2, <1>5
  <2>2. Numbered /\ Settled
    BY <2>1 DEF ServerInv
  <2>3. watchID' + 2 <= 2 * served' /\ watchID' <= 2 * served'
    BY <1>2, <2>2 DEF ServerInv, ServerShape, Numbered
  <2> QED
    BY <1>2, <2>2, <2>3 DEF Numbered, Settled, Alive
<1>6. ASSUME ~overlapped' PROVE \A d \in Callers \ {c} : calls'[d].at = "idle"
  BY <1>2, <1>3, <1>6 DEF Quiescent
<1>7. ASSUME ~overlapped', NEW d \in Callers PROVE AloneOK(calls[d])'
  BY <1>1, <1>3, <1>5, <1>6, <1>7 DEF AloneOK
<1> QED
  BY <1>1, <1>3, <1>4, <1>5, <1>6, <1>7 DEF ServerInv, Quiescent

\* What the invariant says of the call that takes a step.
LEMMA CallHas ==
    ASSUME ServerInv, NEW c \in Callers
    PROVE  /\ calls[c] \in CallRecord /\ calls[c].taken \in Nat /\ calls[c].id \in Nat
           /\ watchID \in Nat /\ cancel \in Nat /\ served \in Nat /\ served <= MaxCalls
           /\ MaxCalls \in Nat
           /\ children \in [WatchIDs -> ChildRecord]
           /\ ~overlapped => AloneOK(calls[c]) /\ Numbered
BY DevAssumption DEF ServerInv, ServerShape, CallRecord

LEMMA CallMoves ==
    ASSUME ServerInv, NEW c \in Callers,
           \/ CheckSame(c) \/ TakeCancel(c) \/ CancelChild(c) \/ Unwatch(c) \/ SetStarting(c)
           \/ Watch(c) \/ SpawnChild(c) \/ SpawnFails(c) \/ SetWatchError(c) \/ SetReady(c)
    PROVE  ServerInv'
<1> DEFINE y == calls[c]
<1>0. /\ y \in CallRecord /\ y.taken \in Nat /\ y.id \in Nat
      /\ watchID \in Nat /\ cancel \in Nat /\ served \in Nat /\ served <= MaxCalls
      /\ MaxCalls \in Nat
      /\ children \in [WatchIDs -> ChildRecord]
      /\ ~overlapped => AloneOK(y) /\ Numbered
  BY CallHas
<1>1. IdleCall \in CallRecord /\ IdleCall.at = "idle"
  BY DEF IdleCall, CallRecord, CallSteps
\* A step that moves the call and nothing else of the server.
<1>2. ASSUME NEW at \in CallSteps, y.at # "idle", Goto(c, at), UNCHANGED <<serverVars, children, served, overlapped>>,
             \/ y.at = "check" /\ at = "stop"
             \/ y.at = "unwatch" /\ at = "set"
             \/ y.at \in {"watch", "spawn"} /\ at \in {"spawn", "failed"}
      PROVE  ServerInv'
  <2>0. PICK x : x = [y EXCEPT !.at = at]
    OBVIOUS
  <2>1. /\ x \in CallRecord /\ x.at = at /\ x.taken = y.taken /\ x.id = y.id
        /\ calls' = [calls EXCEPT ![c] = x]
    BY <1>0, <1>2, <2>0 DEF CallRecord, Goto
  <2>2. ~overlapped => AloneOK(x)' /\ Numbered'
    BY <1>0, <1>2, <2>1 DEF AloneOK, Numbered, Settled, Alive, serverVars
  <2> QED
    BY <1>0, <1>2, <2>1, <2>2, OneCallStep DEF serverVars
<1>3. ASSUME y.at # "idle", Return(c), UNCHANGED <<served, overlapped>>,
             children' \in [WatchIDs -> ChildRecord], cancel' \in Nat, watchID' \in Nat,
             ~overlapped => Numbered' /\ Settled'
      PROVE  ServerInv'
  BY <1>1, <1>3, OneCallStep DEF Return, AloneOK
<1>4. CASE CheckSame(c)
  <2>1. ~overlapped => Settled
    BY <1>0, <1>4 DEF CheckSame, AloneOK
  <2> QED
    BY <1>0, <1>2, <1>3, <1>4, <2>1
    DEF CheckSame, CallSteps, serverVars, Settled, Numbered, Alive
<1>5. CASE TakeCancel(c)
  <2>0. PICK x : x = [y EXCEPT !.at = "cancel", !.taken = cancel]
    OBVIOUS
  <2>1. /\ x \in CallRecord /\ x.at = "cancel" /\ x.taken = cancel /\ x.id = y.id
    BY <1>0, <2>0 DEF CallRecord, CallSteps
  <2>2. /\ calls' = [calls EXCEPT ![c] = x] /\ y.at = "stop"
        /\ cancel' = 0 /\ watchID' = watchID + 1 /\ status' = "disabled"
        /\ UNCHANGED <<children, served, overlapped>>
    BY <1>5, <2>0 DEF TakeCancel
  <2>3. ASSUME ~overlapped PROVE AloneOK(x)' /\ Numbered'
    <3>1. Settled /\ watchID + 2 <= 2 * served
      BY <1>0, <2>2, <2>3 DEF AloneOK
    <3>2. \A i \in WatchIDs : i > watchID => children[i].at = "none"
      BY <1>0, <2>3 DEF Numbered
    <3>3. \A i \in WatchIDs : i \in Nat
      BY DEF WatchIDs
    <3>4. \A i \in WatchIDs : i >= watchID' => children[i].at = "none"
      BY <1>0, <2>2, <3>2, <3>3
    <3>5. watchID' + 1 <= 2 * served
      BY <1>0, <2>2, <3>1
    <3>6. \A i \in WatchIDs : Alive(i) => i = cancel
      BY <3>1 DEF Settled
    <3>7. AloneOK(x)'
      BY <2>1, <2>2, <3>4, <3>5, <3>6 DEF AloneOK, Alive
    <3>8. Numbered'
      BY <1>0, <2>2, <3>3, <3>4, <3>5 DEF Numbered
    <3> QED
      BY <3>7, <3>8
  <2> QED
    <3>1. cancel' \in Nat /\ watchID' \in Nat /\ children' \in [WatchIDs -> ChildRecord]
      BY <1>0, <2>2
    <3> QED
      BY <2>1, <2>2, <2>3, <3>1, OneCallStep
<1>6. CASE CancelChild(c)
  <2>0. PICK x : x = [y EXCEPT !.at = "unwatch"]
    OBVIOUS
  <2>1. /\ x \in CallRecord /\ x.at = "unwatch"
    BY <1>0, <2>0 DEF CallRecord, CallSteps
  <2>2. /\ calls' = [calls EXCEPT ![c] = x] /\ y.at = "cancel"
        /\ UNCHANGED <<status, cancel, watchID, served, overlapped>>
    BY <1>6, <2>0 DEF CancelChild, Goto, serverVars
  <2>3. children' \in [WatchIDs -> ChildRecord]
    BY <1>0, <1>6, ZenonT(40) DEF CancelChild, ChildRecord
  <2>4. \A i \in WatchIDs : /\ children'[i].at = children[i].at
                            /\ children'[i].cancelled = (children[i].cancelled \/ i = y.taken)
    <3>1. \A i \in WatchIDs : children[i] \in ChildRecord /\ i # 0
      BY <1>0 DEF WatchIDs
    <3>2. CASE y.taken = 0
      BY <1>6, <3>1, <3>2 DEF CancelChild, ChildRecord
    <3>3. CASE y.taken # 0
      <4>1. children' = [children EXCEPT ![y.taken].cancelled = TRUE]
        BY <1>6, <3>3 DEF CancelChild
      <4>2. \A i \in WatchIDs : i # y.taken => children'[i] = children[i]
        BY <1>0, <4>1
      <4>3. y.taken \in WatchIDs => /\ children'[y.taken].at = children[y.taken].at
                                   /\ children'[y.taken].cancelled
        BY <1>0, <3>1, <4>1 DEF ChildRecord
      <4> QED
        BY <3>1, <4>2, <4>3 DEF ChildRecord
    <3> QED
      BY <3>2, <3>3
  <2>5. ~overlapped => AloneOK(x)' /\ Numbered'
    BY <1>0, <2>1, <2>2, <2>4, ZenonT(40) DEF AloneOK, Numbered, Alive
  <2> QED
    BY <1>0, <2>1, <2>2, <2>3, <2>5, OneCallStep
<1>7. CASE Unwatch(c)
  <2>1. UNCHANGED <<serverVars, children, served, overlapped>> /\ y.at = "unwatch"
    BY <1>7 DEF Unwatch
  <2>2. CASE y.op = "enable"
    BY <1>2, <1>7, <2>1, <2>2 DEF Unwatch, CallSteps
  <2>3. CASE y.op # "enable"
    <3>1. ~overlapped => Numbered' /\ Settled'
      BY <1>0, <2>1 DEF AloneOK, Numbered, Settled, Alive, serverVars
    <3>2. Return(c)
      BY <1>7, <2>3 DEF Unwatch
    <3> QED
      BY <1>0, <1>3, <2>1, <3>1, <3>2 DEF serverVars
  <2> QED
    BY <2>2, <2>3
<1>8. CASE SetStarting(c)
  <2>0. PICK x : x = [y EXCEPT !.at = "watch", !.id = watchID']
    OBVIOUS
  <2>1. /\ calls' = [calls EXCEPT ![c] = x] /\ y.at = "set"
        /\ watchID' = watchID + 1 /\ status' = "starting"
        /\ UNCHANGED <<cancel, children, served, overlapped>>
    BY <1>8, <2>0 DEF SetStarting
  <2>2. /\ x \in CallRecord /\ x.at = "watch" /\ x.id = watchID'
    <3>1. watchID' \in Nat
      BY <1>0, <2>1
    <3> QED
      BY <1>0, <2>0, <3>1 DEF CallRecord, CallSteps
  <2>3. \A i \in WatchIDs : i \in Nat
    BY DEF WatchIDs
  <2>4. ~overlapped => AloneOK(x)' /\ Numbered'
    BY <1>0, <2>1, <2>2, <2>3 DEF AloneOK, Numbered, Alive
  <2> QED
    <3>1. cancel' \in Nat /\ watchID' \in Nat /\ children' \in [WatchIDs -> ChildRecord]
      BY <1>0, <2>1
    <3> QED
      BY <2>1, <2>2, <2>4, <3>1, OneCallStep
<1>9. CASE Watch(c)
  BY <1>2, <1>9 DEF Watch, CallSteps
<1>10. CASE SpawnFails(c)
  BY <1>2, <1>10 DEF SpawnFails, CallSteps
<1>11. CASE SpawnChild(c)
  <2>0. PICK x : x = [y EXCEPT !.at = "ready"]
    OBVIOUS
  <2>1. /\ x \in CallRecord /\ x.at = "ready" /\ x.id = y.id
    BY <1>0, <2>0 DEF CallRecord, CallSteps
  <2>2. /\ calls' = [calls EXCEPT ![c] = x] /\ y.at = "spawn"
        /\ UNCHANGED <<status, cancel, watchID, served, overlapped>>
        /\ children' = [children EXCEPT ![y.id].at = "running"]
    BY <1>11, <2>0 DEF SpawnChild, Goto, serverVars
  <2>3. children' \in [WatchIDs -> ChildRecord]
    BY <1>0, <2>2 DEF ChildRecord
  <2>4. \A i \in WatchIDs : i # y.id => children'[i] = children[i]
    BY <1>0, <2>2
  <2>5. ASSUME ~overlapped PROVE AloneOK(x)' /\ Numbered'
    <3>1. y.id = watchID /\ watchID \in WatchIDs
      BY <1>0, <2>2, <2>5 DEF AloneOK, Numbered, WatchIDs
    <3>2. children'[watchID].at = "running"
      BY <1>0, <2>2, <3>1 DEF ChildRecord
    <3> QED
      BY <1>0, <2>1, <2>2, <2>4, <2>5, <3>1, <3>2 DEF AloneOK, Numbered, Alive, WatchIDs
  <2> QED
    BY <1>0, <2>1, <2>2, <2>3, <2>5, OneCallStep
<1>12. CASE SetWatchError(c)
  <2>1. /\ Return(c) /\ y.at = "failed" /\ status' = "error"
        /\ UNCHANGED <<cancel, watchID, children, served, overlapped>>
    BY <1>12 DEF SetWatchError
  <2>2. ~overlapped => Numbered' /\ Settled'
    BY <1>0, <2>1 DEF AloneOK, Numbered, Settled, Alive
  <2> QED
    BY <1>0, <1>3, <2>1, <2>2
<1>13. CASE SetReady(c)
  <2>1. /\ Return(c) /\ y.at = "ready" /\ status' = "ready" /\ cancel' = y.id
        /\ UNCHANGED <<watchID, children, served, overlapped>>
    BY <1>13 DEF SetReady
  <2>2. ~overlapped => Numbered' /\ Settled'
    BY <1>0, <2>1 DEF AloneOK, Numbered, Settled, Alive
  <2> QED
    BY <1>0, <1>3, <2>1, <2>2
<1> QED
  BY <1>4, <1>5, <1>6, <1>7, <1>8, <1>9, <1>10, <1>11, <1>12, <1>13

\* A process ends, or its goroutine sees that it has.
LEMMA ChildStep ==
    ASSUME ServerInv, NEW i \in WatchIDs,
           (\E ok \in BOOLEAN : ChildEnds(i, ok)) \/ Reap(i) \/ ReapUnwatch(i)
    PROVE  ServerInv'
<1>0. /\ UNCHANGED <<watchID, calls, served, overlapped>>
      /\ watchID \in Nat /\ cancel \in Nat /\ children \in [WatchIDs -> ChildRecord]
  BY DEF ChildEnds, Reap, ReapUnwatch, serverVars, ServerInv, ServerShape
<1>1. /\ children' \in [WatchIDs -> ChildRecord]
      /\ \A j \in WatchIDs \ {i} : children'[j] = children[j]
  <2>1. CASE \E ok \in BOOLEAN : ChildEnds(i, ok)
    <3>1. PICK ok \in BOOLEAN :
            children' = [children EXCEPT ![i].at = "ended", ![i].ok = ok]
      BY <2>1 DEF ChildEnds
    <3>2. [children[i] EXCEPT !.at = "ended", !.ok = ok] \in ChildRecord
      BY <1>0 DEF ChildRecord
    <3> QED
      BY <1>0, <3>1, <3>2
  <2>2. CASE Reap(i) \/ ReapUnwatch(i)
    BY <1>0, <2>2 DEF Reap, ReapUnwatch, ChildRecord
  <2> QED
    BY <2>1, <2>2
<1>2. \/ children[i].at = "running" /\ children'[i].at = "ended"
      \/ children[i].at = "ended" /\ children'[i].at = "reaped" /\ Reap(i)
      \/ children[i].at = "reaped" /\ children'[i].at = "gone"
  <2>1. children[i] \in ChildRecord
    BY <1>0
  <2> QED
    BY <1>0, <2>1 DEF ChildEnds, Reap, ReapUnwatch, ChildRecord
<1>3. \/ UNCHANGED <<status, cancel>>
      \/ Reap(i) /\ watchID = i /\ status' # "ready" /\ cancel' = 0
  BY DEF ChildEnds, Reap, ReapUnwatch, serverVars
<1>4. \A j \in WatchIDs : Alive(j)' => Alive(j)
  BY <1>1, <1>2 DEF Alive
<1>5. ServerShape'
  BY <1>0, <1>1, <1>3 DEF ServerInv, ServerShape
<1>6. Numbered => Numbered'
  BY <1>0, <1>1, <1>2 DEF Numbered
<1>7. Settled => Settled'
  <2>1. CASE UNCHANGED <<status, cancel>>
    <3>1. Reap(i) /\ status = "ready" /\ Settled => i # cancel
      BY <2>1 DEF Reap, Settled
    <3> QED
      BY <1>0, <1>1, <1>2, <1>4, <2>1, <3>1 DEF Settled
  <2>2. CASE Reap(i) /\ watchID = i /\ status' # "ready" /\ cancel' = 0
    <3>1. children[i].at = "ended"
      BY <2>2 DEF Reap
    <3>2. Settled => \A j \in WatchIDs : ~Alive(j)
      BY <2>2, <3>1 DEF Settled, Alive
    <3> QED
      BY <1>4, <2>2, <3>2 DEF Settled
  <2> QED
    BY <1>3, <2>1, <2>2
<1>8. ASSUME NEW c \in Callers, AloneOK(calls[c]) PROVE AloneOK(calls[c])'
  <2>1. calls[c].at = "ready" /\ Reap(i) => calls[c].id # i
    BY DEF Reap, Awaited
  <2>2. \A j \in WatchIDs : children[j].at = "none" => children'[j].at = "none"
    BY <1>1, <1>2
  <2>3. status # "ready" => status' # "ready"
    BY <1>3
  <2>4. calls[c].at \in {"check", "stop"} => Settled' /\ watchID' + 2 <= 2 * served'
    BY <1>0, <1>7, <1>8 DEF AloneOK
  <2>5. calls[c].at = "ready" => children'[watchID].at \in {"running", "ended"}
    BY <1>1, <1>2, <1>8, <2>1 DEF AloneOK
  <2> QED
    BY <1>0, <1>4, <1>8, <2>2, <2>3, <2>4, <2>5 DEF AloneOK
<1> QED
  BY <1>0, <1>5, <1>6, <1>7, <1>8 DEF ServerInv, Quiescent

LEMMA ServerStep ==
    ASSUME ServerInv, [DevNext]_devVars
    PROVE  ServerInv'
<1>1. ASSUME UNCHANGED <<serverVars, calls, children, served, overlapped>> PROVE ServerInv'
  BY <1>1 DEF serverVars, ServerInv, ServerShape, Numbered, Settled, Quiescent, AloneOK, Alive
<1>2. CASE UNCHANGED devVars
  BY <1>1, <1>2 DEF devVars
<1>3. CASE ReloadClient \/ ReloadStep
  BY <1>1, <1>3 DEF ReloadClient, ReloadStep
<1>4. ASSUME NEW c \in Callers, NEW conf \in Configs, Call(c, "enable", conf) PROVE ServerInv'
  BY <1>4, CallBegins
<1>5. ASSUME NEW c \in Callers, Call(c, "disable", NoConfig) PROVE ServerInv'
  BY <1>5, CallBegins
<1> QED
  BY <1>2, <1>3, <1>4, <1>5, CallMoves, ChildStep DEF DevNext, ServerNext

\* For any number of calls that do not overlap, whatever the watcher does and
\* however builds end: between calls at most the process the server can cancel
\* runs, only while it is reported ready, and a server that reports ready has a
\* process whose exit it has not seen (root.go:253-319, 353-368).
THEOREM StatusOfChildSafe == DevInit /\ [][DevNext]_devVars => []StatusOfChild
<1>1. DevInit => ServerInv
  BY ServerInitial DEF DevInit
<1>2. ServerInv /\ [DevNext]_devVars => ServerInv'
  BY ServerStep
<1>3. ServerInv => StatusOfChild
  BY DEF ServerInv, Settled, Alive, StatusOfChild
<1> QED
  BY <1>1, <1>2, <1>3, PTL

-----------------------------------------------------------------------------
(* The coldstarter                                                         *)

PeerFields == {"at", "port", "owner", "open"}
CloserFields == {"at", "port", "todo"}

\* A function on the peers whose values are peers.
PeerShape(ps) ==
    /\ ps = [c \in Peers |-> ps[c]]
    /\ \A c \in Peers : DOMAIN ps[c] = PeerFields

\* A finish that was accepted is handed over by a peer until Run has taken it.
SenderWaits ==
    /\ PeerShape(peers)
    /\ finishOnce \in {"unused", "running", "done"}
    /\ finishOnce = "running" /\ result = "none" => \E c \in Peers : peers[c].at = "send"
    /\ finishOnce = "done" => result # "none"

\* The listener of p is closed, or Stop is still to close it.
StopCloses(p) ==
    \/ listener[p] = "closed"
    \/ p \in closers["stop"].todo
    \/ closers["stop"].at = "listener" /\ closers["stop"].port = p

PortsFreed ==
    /\ listener = [p \in Ports |-> listener[p]]
    /\ registered \subseteq Ports /\ atStop \subseteq Ports
    /\ closers = [k \in Ports \cup {"stop"} |-> closers[k]]
    /\ \A k \in Ports \cup {"stop"} : DOMAIN closers[k] = CloserFields
    /\ run \in {"starting", "serving", "waiting"} => result = "none"
    /\ run = "stopping" =>
          /\ closers["stop"].at \in {"next", "listener", "handler", "calls"}
          /\ \A p \in atStop : StopCloses(p)
    /\ run = "returned" /\ result = "finished" => \A p \in atStop : listener[p] = "closed"
    /\ run \in {"starting", "serving", "waiting", "stopping", "returned"}

ColdInv == SenderWaits /\ PortsFreed

LEMMA ColdInitial == ASSUME ColdInit PROVE ColdInv
BY DEF ColdInit, ColdInv, SenderWaits, PortsFreed, PeerShape, PeerFields, CloserFields, NoPeer,
       NoClose

\* Hanging up changes no step of a peer, going back that of one.
LEMMA HangupKeeps ==
    ASSUME NEW ps, PeerShape(ps), NEW c
    PROVE  PeerShape(Hangup(ps, c)) /\ \A d \in Peers : Hangup(ps, c)[d].at = ps[d].at
BY DEF Hangup, PeerShape, PeerFields

LEMMA BackKeeps ==
    ASSUME NEW ps, PeerShape(ps), NEW c \in Peers
    PROVE  /\ PeerShape(Back(ps, c))
           /\ Back(ps, c)[c].at # "send"
           /\ \A d \in Peers \ {c} : Back(ps, c)[d].at = ps[d].at
BY DEF Back, PeerShape, PeerFields

\* A step of one peer, which does not give up a finish it is to hand over.
LEMMA OnePeerStep ==
    ASSUME ColdInv, NEW c \in Peers, PeerShape(peers)', peerStep,
           \A d \in Peers \ {c} : peers'[d].at = peers[d].at,
           peers[c].at = "send" => peers'[c].at = "send",
           \/ finishOnce' = finishOnce
           \/ finishOnce' = "running" /\ peers'[c].at = "send"
    PROVE  ColdInv'
<1>1. SenderWaits'
  BY DEF ColdInv, SenderWaits, peerStep
<1>2. PortsFreed'
  BY DEF ColdInv, PortsFreed, peerStep, serveVars, StopCloses
<1> QED
  BY <1>1, <1>2 DEF ColdInv

LEMMA PeerMoves ==
    ASSUME ColdInv, NEW c \in Peers,
           \/ \E p \in Ports : Accept(c, p)
           \/ GetHandler(c) \/ NoHandler(c) \/ Packet(c) \/ CallScript(c)
           \/ ScriptFinishes(c) \/ \E close \in BOOLEAN : ScriptAnswers(c, close)
           \/ Finish(c) \/ FinishAgain(c) \/ AfterFinish(c) \/ ReadFails(c)
    PROVE  ColdInv'
<1>0. PeerShape(peers)
  BY DEF ColdInv, SenderWaits
<1>1. ASSUME NEW x, DOMAIN x = PeerFields, peers' = [peers EXCEPT ![c] = x],
             peers[c].at # "send" \/ x.at = "send", peerStep,
             finishOnce' = finishOnce \/ (finishOnce' = "running" /\ x.at = "send")
      PROVE  ColdInv'
  <2>1. PeerShape(peers)' /\ peers'[c] = x /\ \A d \in Peers \ {c} : peers'[d] = peers[d]
    BY <1>0, <1>1 DEF PeerShape
  <2> QED
    BY <1>1, <2>1, OnePeerStep
<1>2. CASE \E p \in Ports : Accept(c, p)
  <2>1. PICK p \in Ports : Accept(c, p)
    BY <1>2
  <2>2. PICK x : x = [at |-> "accepted", port |-> p, owner |-> c, open |-> TRUE]
    OBVIOUS
  <2>3. DOMAIN x = PeerFields
    BY <2>2 DEF PeerFields
  <2> QED
    BY <1>1, <2>1, <2>2, <2>3 DEF Accept, finishVars
\* A step that moves a peer that hands over nothing.
<1>3. ASSUME NEW at, peers' = [peers EXCEPT ![c].at = at], peers[c].at # "send", peerStep,
             finishOnce' = finishOnce \/ (finishOnce' = "running" /\ at = "send")
      PROVE  ColdInv'
  <2>1. PICK x : x = [peers[c] EXCEPT !.at = at]
    OBVIOUS
  <2>2. DOMAIN x = PeerFields /\ x.at = at
    BY <1>0, <2>1 DEF PeerShape, PeerFields
  <2> QED
    BY <1>1, <1>3, <2>1, <2>2
<1>4. CASE GetHandler(c)
  BY <1>3, <1>4 DEF GetHandler, finishVars
<1>5. CASE NoHandler(c)
  BY <1>3, <1>5 DEF NoHandler, finishVars
<1>6. CASE Packet(c)
  BY <1>3, <1>6 DEF Packet, finishVars
<1>7. CASE CallScript(c)
  BY <1>3, <1>7 DEF CallScript, finishVars
<1>8. CASE ScriptFinishes(c)
  <2>1. PICK x : x = [peers[c] EXCEPT !.at = "finish", !.owner = lua[peers[c].port].last]
    OBVIOUS
  <2>2. DOMAIN x = PeerFields
    BY <1>0, <2>1 DEF PeerShape, PeerFields
  <2>3. /\ peers' = [peers EXCEPT ![c] = x] /\ peers[c].at = "script"
        /\ UNCHANGED finishOnce /\ peerStep
    BY <1>8, <2>1 DEF ScriptFinishes, finishVars
  <2> QED
    BY <1>1, <2>2, <2>3
<1>9. ASSUME NEW close \in BOOLEAN, ScriptAnswers(c, close) PROVE ColdInv'
  <2>1. PICK asked : asked = [peers EXCEPT ![c].owner = lua[peers[c].port].last]
    OBVIOUS
  <2>2. PeerShape(asked) /\ \A d \in Peers : asked[d].at = peers[d].at
    BY <1>0, <2>1 DEF PeerShape, PeerFields
  <2>3. PICK ps : ps = IF close THEN Hangup(asked, c) ELSE peers
    OBVIOUS
  <2>4. PeerShape(ps) /\ \A d \in Peers : ps[d].at = peers[d].at
    BY <1>0, <2>2, <2>3, HangupKeeps
  <2>5. peers' = Back(ps, c) /\ peers[c].at = "script" /\ UNCHANGED finishOnce /\ peerStep
    BY <1>9, <2>1, <2>3 DEF ScriptAnswers, finishVars
  <2>6. PeerShape(peers)' /\ \A d \in Peers \ {c} : peers'[d].at = peers[d].at
    <3>1. PICK qs : qs = Back(ps, c)
      OBVIOUS
    <3>2. PeerShape(qs) /\ \A d \in Peers \ {c} : qs[d].at = ps[d].at
      BY <2>4, <3>1, BackKeeps
    <3> QED
      BY <2>4, <2>5, <3>1, <3>2 DEF PeerShape
  <2> QED
    BY <2>5, <2>6, OnePeerStep
<1>10. CASE Finish(c)
  BY <1>3, <1>10 DEF Finish
<1>11. CASE FinishAgain(c)
  BY <1>3, <1>11 DEF FinishAgain, finishVars
<1>12. CASE AfterFinish(c)
  <2>1. PICK ps : ps = Hangup(peers, c)
    OBVIOUS
  <2>2. PeerShape(ps) /\ \A d \in Peers : ps[d].at = peers[d].at
    BY <1>0, <2>1, HangupKeeps
  <2>3. peers' = Back(ps, c) /\ peers[c].at = "hangup" /\ UNCHANGED finishOnce /\ peerStep
    BY <1>12, <2>1 DEF AfterFinish, finishVars
  <2>4. PeerShape(peers)' /\ \A d \in Peers \ {c} : peers'[d].at = peers[d].at
    BY <2>2, <2>3, BackKeeps DEF PeerShape
  <2> QED
    BY <2>3, <2>4, OnePeerStep
<1>13. CASE ReadFails(c)
  <2>1. PICK x : x = [peers[c] EXCEPT !.at = "gone", !.open = FALSE]
    OBVIOUS
  <2>2. DOMAIN x = PeerFields
    BY <1>0, <2>1 DEF PeerShape, PeerFields
  <2>3. /\ peers' = [peers EXCEPT ![c] = x] /\ peers[c].at = "reading"
        /\ UNCHANGED finishOnce /\ peerStep
    BY <1>13, <2>1 DEF ReadFails, finishVars
  <2> QED
    BY <1>1, <2>2, <2>3
<1> QED
  BY <1>2, <1>4, <1>5, <1>6, <1>7, <1>8, <1>9, <1>10, <1>11, <1>12, <1>13

\* A Close moves: only Stop's own has to keep what it is to close.
LEMMA CloserStep ==
    ASSUME ColdInv, NEW k \in Ports \cup {"stop"}, NEW x, DOMAIN x = CloserFields,
           closers' = [closers EXCEPT ![k] = x], UNCHANGED <<run, result, registered, atStop, finishOnce, peers>>,
           listener' = [p \in Ports |-> listener'[p]],
           \A p \in Ports : listener[p] = "closed" => listener'[p] = "closed",
           k = "stop" /\ run = "stopping" =>
              /\ x.at \in {"next", "listener", "handler", "calls"}
              /\ \A p \in atStop : StopCloses(p) =>
                    \/ listener'[p] = "closed" \/ p \in x.todo
                    \/ x.at = "listener" /\ x.port = p
    PROVE  ColdInv'
<1>1. /\ closers' = [l \in Ports \cup {"stop"} |-> closers'[l]] /\ closers'[k] = x
      /\ \A l \in (Ports \cup {"stop"}) \ {k} : closers'[l] = closers[l]
  BY DEF ColdInv, PortsFreed
<1>2. ASSUME run = "stopping"
      PROVE  /\ closers'["stop"].at \in {"next", "listener", "handler", "calls"}
             /\ \A p \in atStop : StopCloses(p)'
  <2>1. CASE k = "stop"
    BY <1>1, <1>2, <2>1 DEF ColdInv, PortsFreed, StopCloses
  <2>2. CASE k # "stop"
    BY <1>1, <1>2, <2>2 DEF ColdInv, PortsFreed, StopCloses
  <2> QED
    BY <2>1, <2>2
<1>3. PortsFreed'
  BY <1>1, <1>2 DEF ColdInv, PortsFreed
<1> QED
  BY <1>3 DEF ColdInv, SenderWaits, PeerShape

\* The steps of Close, and what Stop and the end of the context begin.
LEMMA CloserMoves ==
    ASSUME ColdInv,
           \/ StopNext
           \/ \E p \in Ports : ContextCloses(p)
           \/ \E k \in Ports \cup {"stop"} : CloseListener(k) \/ CloseHandler(k) \/ CloseState(k)
    PROVE  ColdInv'
<1>0. /\ \A k \in Ports \cup {"stop"} : DOMAIN closers[k] = CloserFields
      /\ listener = [p \in Ports |-> listener[p]] /\ registered \subseteq Ports
      /\ run = "stopping" => closers["stop"].at \in {"next", "listener", "handler", "calls"}
      /\ atStop \subseteq Ports
  BY DEF ColdInv, PortsFreed
<1>1. CASE StopNext
  <2>0. /\ closers["stop"].at = "next"
        /\ UNCHANGED <<run, result, registered, listener, atStop, finishOnce, peers>>
    BY <1>1 DEF StopNext, serveVars, finishVars
  <2>1. ASSUME NEW p, NEW rest,
               closers' = [closers EXCEPT !["stop"] = [at |-> "listener", port |-> p, todo |-> rest]],
               closers["stop"].todo \subseteq rest \cup {p}
        PROVE  ColdInv'
    <3>1. PICK x : x = [at |-> "listener", port |-> p, todo |-> rest]
      OBVIOUS
    <3>2. DOMAIN x = CloserFields /\ x.at = "listener" /\ x.port = p /\ x.todo = rest
      BY <3>1 DEF CloserFields
    <3>3. \A q \in atStop : StopCloses(q) =>
            listener'[q] = "closed" \/ q \in x.todo \/ (x.at = "listener" /\ x.port = q)
      BY <2>0, <2>1, <3>2 DEF StopCloses
    <3>4. closers' = [closers EXCEPT !["stop"] = x]
      BY <2>1, <3>1
    <3> QED
      BY <1>0, <2>0, <3>2, <3>3, <3>4, CloserStep
  <2>2. ASSUME NEW p \in closers["stop"].todo,
               closers' = [closers EXCEPT !["stop"] =
                              [at |-> "listener", port |-> p, todo |-> @.todo \ {p}]]
        PROVE  ColdInv'
    BY <2>1, <2>2
  <2>3. ASSUME NEW p,
               closers' = [closers EXCEPT !["stop"].at = "listener", !["stop"].port = p]
        PROVE  ColdInv'
    <3>1. PICK x : x = [closers["stop"] EXCEPT !.at = "listener", !.port = p]
      OBVIOUS
    <3>2. /\ DOMAIN x = CloserFields /\ x.at = "listener" /\ x.port = p
          /\ x.todo = closers["stop"].todo
      BY <1>0, <3>1 DEF CloserFields
    <3>3. \A q \in atStop : StopCloses(q) =>
            listener'[q] = "closed" \/ q \in x.todo \/ (x.at = "listener" /\ x.port = q)
      BY <2>0, <3>2 DEF StopCloses
    <3>4. closers' = [closers EXCEPT !["stop"] = x]
      BY <2>3, <3>1
    <3> QED
      BY <1>0, <2>0, <3>2, <3>3, <3>4, CloserStep
  <2> QED
    BY <1>1, <2>2, <2>3 DEF StopNext
\* A Close that goes on with at, having closed the listener if that was next.
<1>2. ASSUME NEW k \in Ports \cup {"stop"}, NEW at,
             closers' = [closers EXCEPT ![k].at = at],
             k = "stop" => at \in {"next", "handler", "calls"},
             UNCHANGED <<run, result, registered, atStop, finishOnce, peers>>,
             \/ UNCHANGED listener /\ closers[k].at # "listener"
             \/ listener' = [listener EXCEPT ![closers[k].port] = "closed"]
      PROVE  ColdInv'
  <2>1. PICK x : x = [closers[k] EXCEPT !.at = at]
    OBVIOUS
  <2>2. DOMAIN x = CloserFields /\ x.at = at /\ x.port = closers[k].port /\ x.todo = closers[k].todo
    BY <1>0, <2>1 DEF CloserFields
  <2>3. closers' = [closers EXCEPT ![k] = x]
    BY <1>2, <2>1
  <2>4. /\ listener' = [p \in Ports |-> listener'[p]]
        /\ \A p \in Ports : listener[p] = "closed" => listener'[p] = "closed"
    BY <1>0, <1>2
  <2>5. k = "stop" => \A p \in atStop : StopCloses(p) =>
            listener'[p] = "closed" \/ p \in x.todo \/ (x.at = "listener" /\ x.port = p)
    BY <1>0, <1>2, <2>2, <2>4 DEF StopCloses
  <2> QED
    BY <1>2, <2>2, <2>3, <2>4, <2>5, CloserStep
<1>3. ASSUME NEW k \in Ports \cup {"stop"}, CloseEnds(k),
             UNCHANGED <<run, result, registered, atStop, finishOnce, peers>>,
             \/ UNCHANGED listener /\ closers[k].at # "listener"
             \/ listener' = [listener EXCEPT ![closers[k].port] = "closed"]
      PROVE  ColdInv'
  <2>1. PICK at : at = IF k = "stop" THEN "next" ELSE "ended"
    OBVIOUS
  <2> QED
    BY <1>2, <1>3, <2>1 DEF CloseEnds
<1>4. ASSUME NEW p \in Ports, ContextCloses(p) PROVE ColdInv'
  <2>1. PICK x : x = [NoClose EXCEPT !.at = "listener", !.port = p]
    OBVIOUS
  <2>2. DOMAIN x = CloserFields
    BY <2>1 DEF NoClose, CloserFields
  <2>3. /\ closers' = [closers EXCEPT ![p] = x] /\ closers[p].at = "none"
        /\ UNCHANGED <<run, result, registered, listener, atStop, finishOnce, peers>>
    BY <1>4, <2>1, ZenonT(40) DEF ContextCloses, serveVars, finishVars
  <2>4. ~(p = "stop" /\ run = "stopping")
    BY <1>0, <2>3
  <2> QED
    BY <1>0, <2>2, <2>3, <2>4, CloserStep
<1>5. ASSUME NEW k \in Ports \cup {"stop"}, CloseListener(k) PROVE ColdInv'
  BY <1>2, <1>3, <1>5 DEF CloseListener, finishVars
<1>6. ASSUME NEW k \in Ports \cup {"stop"}, CloseHandler(k) PROVE ColdInv'
  BY <1>2, <1>3, <1>6 DEF CloseHandler, finishVars, serveVars
<1>7. ASSUME NEW k \in Ports \cup {"stop"}, CloseState(k) PROVE ColdInv'
  BY <1>3, <1>7 DEF CloseState, finishVars, serveVars
<1> QED
  BY <1>1, <1>4, <1>5, <1>6, <1>7

\* The steps of Run, Stop and Serve.
LEMMA RunMoves ==
    ASSUME ColdInv,
           \/ BadEnvironment \/ Start \/ Wait \/ Cancel \/ RunCancelled \/ RunReturnsAfterStop
           \/ \E c \in Peers : RunFinishes(c)
           \/ \E p \in Ports : Prepare(p) \/ Skip(p) \/ Listen(p) \/ Register(p)
    PROVE  ColdInv'
<1>1. CASE BadEnvironment
  BY <1>1 DEF BadEnvironment, ColdInv, SenderWaits, PortsFreed, PeerShape, StopCloses,
              serveVars, finishVars
<1>2. CASE Start \/ Wait \/ Cancel
  BY <1>2 DEF Start, Wait, Cancel, ColdInv, SenderWaits, PortsFreed, PeerShape, StopCloses,
              serveVars, finishVars
<1>3. ASSUME BeginStop, run' = "stopping", result' # "none", UNCHANGED <<listener, registered>>,
             PeerShape(peers)', finishOnce' \in {"unused", "running", "done"}
      PROVE  ColdInv'
  <2>1. /\ closers' = [k \in Ports \cup {"stop"} |-> closers'[k]]
        /\ \A k \in Ports \cup {"stop"} : DOMAIN closers'[k] = CloserFields
        /\ closers'["stop"].at = "next" /\ closers'["stop"].todo = registered
    BY <1>3 DEF BeginStop, ColdInv, PortsFreed, CloserFields
  <2>2. PortsFreed'
    BY <1>3, <2>1 DEF BeginStop, ColdInv, PortsFreed, StopCloses
  <2> QED
    BY <1>3, <2>2 DEF ColdInv, SenderWaits
<1>4. CASE RunCancelled
  BY <1>3, <1>4 DEF RunCancelled, ColdInv, SenderWaits, PeerShape, serveVars, finishVars
<1>5. ASSUME NEW c \in Peers, RunFinishes(c) PROVE ColdInv'
  <2>1. PeerShape(peers)'
    BY <1>5 DEF RunFinishes, ColdInv, SenderWaits, PeerShape, PeerFields
  <2> QED
    BY <1>3, <1>5, <2>1 DEF RunFinishes, serveVars
<1>6. CASE RunReturnsAfterStop
  BY <1>6 DEF RunReturnsAfterStop, ColdInv, SenderWaits, PortsFreed, PeerShape, StopCloses,
              serveVars, finishVars
<1>7. ASSUME NEW p \in Ports, Prepare(p) \/ Skip(p) PROVE ColdInv'
  BY <1>7 DEF Prepare, Skip, ColdInv, SenderWaits, PortsFreed, PeerShape, StopCloses, finishVars
<1>8. ASSUME NEW p \in Ports, Listen(p) PROVE ColdInv'
  BY <1>8 DEF Listen, ColdInv, SenderWaits, PortsFreed, PeerShape, StopCloses, finishVars
<1>9. ASSUME NEW p \in Ports, Register(p) PROVE ColdInv'
  BY <1>9 DEF Register, ColdInv, SenderWaits, PortsFreed, PeerShape, StopCloses, finishVars
<1> QED
  BY <1>1, <1>2, <1>4, <1>5, <1>6, <1>7, <1>8, <1>9

LEMMA ColdStep ==
    ASSUME ColdInv, [ColdNext]_coldVars
    PROVE  ColdInv'
<1>1. CASE UNCHANGED coldVars
  BY <1>1 DEF coldVars, ColdInv, SenderWaits, PortsFreed, PeerShape, StopCloses
<1> QED
  BY <1>1, PeerMoves, CloserMoves, RunMoves DEF ColdNext

\* For any number of ports and peers, whatever the scripts do and whichever
\* peers ask at the same time: a finish that was accepted is handed over until
\* Run takes it, and when Run returns because of it the listeners that were
\* registered are closed (coldstarter.go:126-151, servers/tcp.go:123-137,
\* servers/udp.go:96-109).
THEOREM WakeHandedOverSafe == ColdInit /\ [][ColdNext]_coldVars => []WakeHandedOver
<1>1. ColdInit => ColdInv
  BY ColdInitial
<1>2. ColdInv /\ [ColdNext]_coldVars => ColdInv'
  BY ColdStep
<1>3. ColdInv => WakeHandedOver
  BY DEF ColdInv, SenderWaits, PortsFreed, WakeHandedOver
<1> QED
  BY <1>1, <1>2, <1>3, PTL

-----------------------------------------------------------------------------
(* The console hub and the log                                             *)

\* Who holds the hub's lock, whom the hub still sends to and whose channel is
\* closed: no channel of a client is, and the hub is open while the pump sends.
HubLocks ==
    /\ ~panicked
    /\ pump = "sending" => "pump" \in readers /\ ~hubClosed
    /\ runner = "sending" => "run" \in readers /\ todo \subseteq clients
    /\ runner # "sending" => todo = {}
    /\ clients \cap closedChannels = {}
    /\ DOMAIN viewers = Viewers /\ viewers = [v \in Viewers |-> viewers[v]]
    /\ \A v \in clients : v \in Viewers /\ viewers[v] \in {"attached", "leaving"}
    /\ \A v \in closedChannels : v \in Viewers /\ viewers[v] \in {"attached", "leaving", "gone"}

\* The last line that has reached the log.
LastLogged == IF pump \in {"reading", "done"} THEN line ELSE line - 1

\* The log and its channel hold the lines up to the last one that was logged.
LogInv ==
    /\ pump \in {"reading", "broadcast", "sending", "log", "done"}
    /\ line \in Nat /\ (pump \in {"broadcast", "sending", "log"} => line > 0)
    /\ write \in Seq(Nat) /\ list \in Seq(Nat)
    /\ LastLogged > 0 => Len(list) + Len(write) > 0
    /\ \A i \in 1 .. Len(write) : write[i] = LastLogged - Len(write) + i
    /\ \A i \in 1 .. Len(list) : list[i] = LastLogged - Len(write) - Len(list) + i

LEMMA HubInitial == ASSUME HubInit PROVE HubLocks /\ LogInv
BY DEF HubInit, HubLocks, LogInv, LastLogged

LEMMA LocksStep ==
    ASSUME HubLocks, [HubNext]_hubVars PROVE HubLocks'
<1> USE DEF HubLocks, lockVars, clientVars, queueVars, pumpVars, runVars, logVars, RLock, RUnlock,
            Want, Locked
<1>1. CASE UNCHANGED hubVars
  BY <1>1 DEF hubVars
<1>2. CASE ReadLine
  BY <1>2 DEF ReadLine
<1>3. CASE BroadcastLock
  BY <1>3 DEF BroadcastLock
<1>4. CASE BroadcastSend
  BY <1>4 DEF BroadcastSend
<1>5. CASE BroadcastTimeout
  BY <1>5 DEF BroadcastTimeout
<1>6. CASE AddLine
  BY <1>6 DEF AddLine
<1>7. CASE CloseDone
  BY <1>7 DEF CloseDone
<1>8. CASE LogWrite
  BY <1>8 DEF LogWrite
<1>9. CASE RunTake
  BY <1>9 DEF RunTake
<1>10. CASE RunLock
  BY <1>10 DEF RunLock
<1>11. CASE RunUnlock
  BY <1>11 DEF RunUnlock
<1>12. CASE RunEnds
  BY <1>12 DEF RunEnds
<1>13. ASSUME NEW v \in todo, RunSend(v) PROVE HubLocks'
  BY <1>13 DEF RunSend
<1>14. ASSUME NEW v \in Viewers, Attach(v) PROVE HubLocks'
  BY <1>14 DEF Attach
<1>15. ASSUME NEW v \in Viewers, Subscribe(v) PROVE HubLocks'
  BY <1>15 DEF Subscribe
<1>16. ASSUME NEW v \in Viewers, Deliver(v) PROVE HubLocks'
  BY <1>16 DEF Deliver
<1>17. ASSUME NEW v \in Viewers, Detach(v) PROVE HubLocks'
  BY <1>17 DEF Detach
<1>18. ASSUME NEW v \in Viewers, Unsubscribe(v) PROVE HubLocks'
  BY <1>18 DEF Unsubscribe, CloseChannels
<1>19. CASE WantClose
  BY <1>19 DEF WantClose
<1>20. CASE Close
  BY <1>20 DEF Close, CloseChannels
<1> QED
  BY <1>1, <1>2, <1>3, <1>4, <1>5, <1>6, <1>7, <1>8, <1>9, <1>10, <1>11, <1>12, <1>13, <1>14,
     <1>15, <1>16, <1>17, <1>18, <1>19, <1>20 DEF HubNext

LEMMA LogStep ==
    ASSUME LogInv, [HubNext]_hubVars PROVE LogInv'
<1>1. ASSUME UNCHANGED <<write, list, line>>, pump' \in {"reading", "broadcast", "sending", "log", "done"},
             pump' \in {"reading", "done"} <=> pump \in {"reading", "done"}
      PROVE  LogInv'
  <2>1. LastLogged' = LastLogged
    BY <1>1 DEF LastLogged
  <2> QED
    BY <1>1, <2>1 DEF LogInv
<1>2. CASE ReadLine
  <2>1. LastLogged' = LastLogged /\ line' \in Nat /\ line' > 0
    BY <1>2 DEF ReadLine, LogInv, LastLogged
  <2> QED
    BY <1>2, <2>1 DEF ReadLine, LogInv, logVars
<1>3. CASE AddLine
  <2>1. /\ write' = Append(write, line) /\ list' = list /\ line' = line /\ pump' = "reading"
        /\ LastLogged' = line /\ LastLogged = line - 1 /\ line \in Nat
        /\ write \in Seq(Nat) /\ list \in Seq(Nat)
    BY <1>3 DEF AddLine, LogInv, LastLogged
  <2>2. /\ write' \in Seq(Nat) /\ Len(write') = Len(write) + 1
        /\ \A i \in 1 .. Len(write) : write'[i] = write[i]
        /\ write'[Len(write) + 1] = line
    BY <2>1
  <2>3. ASSUME NEW i \in 1 .. Len(write') PROVE write'[i] = line - Len(write') + i
    <3>0. Len(write) \in Nat
      BY <2>1
    <3>1. CASE i \in 1 .. Len(write)
      <4>1. write[i] = (line - 1) - Len(write) + i
        BY <2>1, <3>1 DEF LogInv
      <4> QED
        BY <2>1, <2>2, <3>0, <3>1, <4>1
    <3>2. CASE i = Len(write) + 1
      BY <2>1, <2>2, <3>0, <3>2
    <3> QED
      BY <2>2, <3>0, <3>1, <3>2
  <2>4. \A i \in 1 .. Len(list) : list[i] = line - Len(write') - Len(list) + i
    BY <2>1, <2>2 DEF LogInv
  <2>5. Len(list) + Len(write') > 0
    BY <2>1, <2>2
  <2> QED
    BY <2>1, <2>2, <2>3, <2>4, <2>5 DEF LogInv
<1>4. CASE LogWrite
  <2>1. /\ write # <<>> /\ write' = Tail(write)
        /\ list' = Append(IF Len(list) >= LogCapacity THEN Tail(list) ELSE list, Head(write))
        /\ LastLogged' = LastLogged /\ pump' = pump /\ line' = line
        /\ write \in Seq(Nat) /\ list \in Seq(Nat)
        /\ LastLogged \in Int
    BY <1>4 DEF LogWrite, LogInv, LastLogged, pumpVars
  <2>2. /\ write' \in Seq(Nat) /\ Len(write') = Len(write) - 1 /\ Len(write) \in Nat \ {0}
        /\ Head(write) = write[1] /\ Head(write) \in Nat
        /\ \A i \in 1 .. Len(write') : write'[i] = write[i + 1]
    BY <2>1
  <2>3. \A i \in 1 .. Len(write') : write'[i] = LastLogged - Len(write') + i
    BY <2>1, <2>2 DEF LogInv
  <2>4. PICK kept : kept = IF Len(list) >= LogCapacity THEN Tail(list) ELSE list
    OBVIOUS
  <2>5. /\ kept \in Seq(Nat) /\ Len(kept) \in Nat
        /\ \A i \in 1 .. Len(kept) : kept[i] = LastLogged - Len(write) - Len(kept) + i
    <3>1. CASE Len(list) >= LogCapacity
      <4>1. list # <<>>
        BY <2>1, <3>1, HubAssumption
      <4>2. /\ kept = Tail(list) /\ kept \in Seq(Nat) /\ Len(kept) = Len(list) - 1
            /\ \A i \in 1 .. Len(kept) : kept[i] = list[i + 1]
        BY <2>1, <2>4, <3>1, <4>1
      <4> QED
        BY <2>1, <2>2, <4>1, <4>2 DEF LogInv
    <3>2. CASE ~(Len(list) >= LogCapacity)
      BY <2>1, <2>4, <3>2 DEF LogInv
    <3> QED
      BY <3>1, <3>2
  <2>6. /\ list' \in Seq(Nat) /\ Len(list') = Len(kept) + 1
        /\ \A i \in 1 .. Len(kept) : list'[i] = kept[i]
        /\ list'[Len(kept) + 1] = Head(write)
    BY <2>1, <2>2, <2>4, <2>5
  <2>7. Head(write) = LastLogged - Len(write) + 1
    BY <2>1, <2>2 DEF LogInv
  <2>8. ASSUME NEW i \in 1 .. Len(list')
        PROVE  list'[i] = LastLogged - Len(write') - Len(list') + i
    <3>0. /\ Len(write') = Len(write) - 1 /\ Len(list') = Len(kept) + 1
          /\ Len(write) \in Nat /\ Len(kept) \in Nat /\ LastLogged \in Int
      BY <2>1, <2>2, <2>5, <2>6
    <3>1. CASE i \in 1 .. Len(kept)
      <4>1. kept[i] = LastLogged - Len(write) - Len(kept) + i /\ list'[i] = kept[i]
        BY <2>5, <2>6, <3>1
      <4> QED
        BY <3>0, <3>1, <4>1
    <3>2. CASE i = Len(kept) + 1
      <4>1. list'[i] = LastLogged - Len(write) + 1
        BY <2>6, <2>7, <3>2
      <4> QED
        BY <3>0, <3>2, <4>1
    <3> QED
      BY <2>5, <2>6, <3>1, <3>2
  <2>9. Len(list') + Len(write') > 0
    BY <2>2, <2>5, <2>6
  <2> QED
    BY <2>1, <2>2, <2>3, <2>6, <2>8, <2>9 DEF LogInv
<1>5. CASE UNCHANGED hubVars
  BY <1>1, <1>5 DEF hubVars, pumpVars, logVars, LogInv
<1>6. CASE BroadcastLock
  BY <1>1, <1>6 DEF BroadcastLock, logVars
<1>7. CASE BroadcastSend \/ BroadcastTimeout
  BY <1>1, <1>7 DEF BroadcastSend, BroadcastTimeout, logVars
<1>8. CASE CloseDone
  BY <1>1, <1>8 DEF CloseDone, logVars
<1>9. CASE RunTake \/ RunLock \/ RunUnlock \/ RunEnds \/ \E v \in todo : RunSend(v)
  BY <1>1, <1>9 DEF RunTake, RunLock, RunUnlock, RunEnds, RunSend, logVars, pumpVars, LogInv
<1>10. CASE \E v \in Viewers : Attach(v) \/ Subscribe(v) \/ Deliver(v) \/ Detach(v) \/ Unsubscribe(v)
  BY <1>1, <1>10 DEF Attach, Subscribe, Deliver, Detach, Unsubscribe, logVars, pumpVars, LogInv
<1>11. CASE WantClose \/ Close
  BY <1>1, <1>11 DEF WantClose, Close, logVars, pumpVars, LogInv
<1> QED
  BY <1>2, <1>3, <1>4, <1>5, <1>6, <1>7, <1>8, <1>9, <1>10, <1>11 DEF HubNext

\* For any viewers and capacities: nobody sends on a closed channel or closes
\* one twice (broadcast_channel.go:22-98), and the log ends with the last line
\* the procedure wrote, in order and without gaps (console_manager.go:42-49,
\* log_manager.go:18-53).
THEOREM OutputUndisturbedSafe == HubInit /\ [][HubNext]_hubVars => []OutputUndisturbed
<1>1. HubInit => HubLocks /\ LogInv
  BY HubInitial
<1>2. HubLocks /\ LogInv /\ [HubNext]_hubVars => HubLocks' /\ LogInv'
  BY LocksStep, LogStep
<1>3. ASSUME HubLocks, LogInv PROVE OutputUndisturbed
  <2> DEFINE logged == list \o write
  <2>1. /\ list \in Seq(Nat) /\ write \in Seq(Nat) /\ line \in Nat
        /\ LastLogged \in Int
    BY <1>3 DEF LogInv, LastLogged
  <2>2. /\ logged \in Seq(Nat) /\ Len(logged) = Len(list) + Len(write)
        /\ \A i \in 1 .. Len(list) : logged[i] = list[i]
        /\ \A i \in 1 .. Len(write) : logged[Len(list) + i] = write[i]
    BY <2>1
  <2>3. \A i \in 1 .. Len(logged) : logged[i] = LastLogged - Len(logged) + i
    <3>1. ASSUME NEW i \in 1 .. Len(logged) PROVE logged[i] = LastLogged - Len(logged) + i
      <4>1. CASE i <= Len(list)
        BY <1>3, <2>1, <2>2, <4>1 DEF LogInv
      <4>2. CASE i > Len(list)
        <5>1. PICK j \in 1 .. Len(write) : i = Len(list) + j
          <6>1. i - Len(list) \in 1 .. Len(write) /\ i = Len(list) + (i - Len(list))
            BY <2>1, <2>2, <4>2
          <6> QED
            BY <6>1
        <5> QED
          BY <1>3, <2>1, <2>2, <5>1 DEF LogInv
      <4> QED
        BY <2>1, <2>2, <4>1, <4>2
    <3> QED
      BY <3>1
  <2> HIDE DEF logged
  <2>4. \A i \in 1 .. Len(logged) - 1 : logged[i + 1] = logged[i] + 1
    BY <2>1, <2>2, <2>3
  <2>5. ASSUME pump \in {"reading", "done"}, line > 0
        PROVE  logged # <<>> /\ logged[Len(logged)] = line
    <3>1. LastLogged = line /\ Len(logged) > 0
      BY <1>3, <2>2, <2>5 DEF LogInv, LastLogged
    <3> QED
      BY <2>1, <2>2, <2>3, <3>1
  <2> QED
    BY <1>3, <2>4, <2>5 DEF HubLocks, OutputUndisturbed, logged
<1> QED
  BY <1>1, <1>2, <1>3, PTL
-----------------------------------------------------------------------------
(* The registry client                                                     *)

LEMMA HasLeast ==
    ASSUME NEW S \in SUBSET Nat, S # {}
    PROVE  \E n \in S : \A m \in S : n <= m
<1> DEFINE R == OpToRel(<, Nat)
<1>1. PICK n \in S : \A m \in S : <<m, n>> \notin R
  <2> HIDE DEF R
  <2> QED
    BY NatLessThanWellFounded, WFMin DEF R
<1>2. \A m \in S : ~(m < n)
  BY <1>1 DEF OpToRel
<1> QED
  BY <1>2

\* Induction: a set that has 0 and every successor has every number.
LEMMA HasEveryNumber ==
    ASSUME NEW S, 0 \in S, \A n \in Nat : n \in S => n + 1 \in S
    PROVE  \A n \in Nat : n \in S
<1>1. SUFFICES ASSUME Nat \ S # {} PROVE FALSE
  OBVIOUS
<1>2. PICK n \in Nat \ S : \A m \in Nat \ S : n <= m
  BY <1>1, HasLeast
<1>3. n - 1 \in Nat /\ n - 1 \notin Nat \ S
  BY <1>2
<1> QED
  BY <1>2, <1>3

Blobs == DOMAIN Size

\* SizeOf is what its recursion says.
LEMMA SizeIs ==
    ASSUME NEW layers \in Seq(Blobs)
    PROVE  /\ \A n \in 0 .. Len(layers) : SizeOf(layers)[n] \in Nat
           /\ SizeOf(layers)[0] = 0
           /\ \A n \in 1 .. Len(layers) : SizeOf(layers)[n] = SizeOf(layers)[n - 1] + Size[layers[n]]
<1> DEFINE N == Len(layers)
<1>1. N \in Nat /\ \A n \in 1 .. N : layers[n] \in Blobs /\ Size[layers[n]] \in Nat
  BY RegistryAssumption DEF Blobs
<1> HIDE DEF N
<1> DEFINE Sums(k) == {g \in [0 .. k -> Nat] :
                         g[0] = 0 /\ \A n \in 1 .. k : g[n] = g[n - 1] + Size[layers[n]]}
           S == {k \in Nat : k <= N => Sums(k) # {}}
<1>2. 0 \in S
  <2>1. [i \in 0 .. 0 |-> 0] \in Sums(0)
    OBVIOUS
  <2> QED
    BY <2>1
<1>3. ASSUME NEW k \in Nat, k \in S PROVE k + 1 \in S
  <2>1. ASSUME k + 1 <= N PROVE Sums(k + 1) # {}
    <3>1. PICK g \in Sums(k) : TRUE
      <4> HIDE DEF Sums
      <4>1. k <= N
        BY <1>1, <2>1
      <4> QED
        BY <1>3, <4>1
    <3>2. k + 1 \in 1 .. N
      BY <1>1, <2>1
    <3> DEFINE h == [i \in 0 .. k + 1 |-> IF i = k + 1 THEN g[k] + Size[layers[k + 1]] ELSE g[i]]
    <3>3. h \in [0 .. k + 1 -> Nat]
      BY <1>1, <3>1, <3>2
    <3>4. h[0] = 0
      BY <3>1
    <3>5. ASSUME NEW n \in 1 .. k + 1 PROVE h[n] = h[n - 1] + Size[layers[n]]
      <4>1. CASE n = k + 1
        BY <4>1
      <4>2. CASE n # k + 1
        <5>1. n \in 1 .. k /\ n - 1 \in 0 .. k /\ n \in 0 .. k
          BY <4>2
        <5> QED
          BY <3>1, <5>1
      <4> QED
        BY <4>1, <4>2
    <3>6. h \in Sums(k + 1)
      <4> HIDE DEF h
      <4> QED
        BY <3>3, <3>4, <3>5
    <3> QED
      BY <3>6
  <2> HIDE DEF Sums
  <2>2. k + 1 \in Nat
    OBVIOUS
  <2> QED
    BY <2>1, <2>2
<1>4. N \in S
  <2> HIDE DEF S
  <2>1. \A n \in Nat : n \in S
    BY <1>2, <1>3, HasEveryNumber
  <2> QED
    BY <1>1, <2>1
<1>5. PICK g \in Sums(N) : TRUE
  <2> HIDE DEF Sums
  <2> QED
    BY <1>1, <1>4
<1> DEFINE Unfolded(size) ==
             [n \in 0 .. N |-> IF n = 0 THEN 0 ELSE size[n - 1] + Size[layers[n]]]
<1>6. g = Unfolded(g)
  <2>1. ASSUME NEW n \in 0 .. N PROVE g[n] = Unfolded(g)[n]
    <3>1. CASE n = 0
      BY <1>5, <3>1
    <3>2. CASE n # 0
      <4>1. n \in 1 .. N
        BY <3>2
      <4>2. g[n] = g[n - 1] + Size[layers[n]]
        BY <1>5, <4>1
      <4> QED
        BY <3>2, <4>2
    <3> QED
      BY <3>1, <3>2
  <2> QED
    BY <1>5, <2>1
<1>7. SizeOf(layers) = CHOOSE size : size = Unfolded(size)
  BY DEF SizeOf, N
<1>8. SizeOf(layers) = Unfolded(SizeOf(layers))
  <2> HIDE DEF Unfolded
  <2> QED
    BY <1>6, <1>7
<1>9. SizeOf(layers)[0] = 0
  <2>1. SizeOf(layers)[0] = Unfolded(SizeOf(layers))[0]
    BY <1>8
  <2> QED
    BY <1>1, <2>1
<1>10. ASSUME NEW n \in 1 .. N PROVE SizeOf(layers)[n] = SizeOf(layers)[n - 1] + Size[layers[n]]
  <2>1. n \in 0 .. N /\ n # 0
    BY <1>1
  <2>2. SizeOf(layers)[n] = Unfolded(SizeOf(layers))[n]
    BY <1>8
  <2> QED
    BY <2>1, <2>2
<1>11. \A n \in 0 .. N : SizeOf(layers)[n] \in Nat
  <2> HIDE DEF Sums
  <2> DEFINE P == {k \in Nat : k <= N => SizeOf(layers)[k] \in Nat}
  <2>1. 0 \in P
    BY <1>9
  <2>2. ASSUME NEW k \in Nat, k \in P PROVE k + 1 \in P
    <3>1. SUFFICES ASSUME k + 1 <= N PROVE SizeOf(layers)[k + 1] \in Nat
      OBVIOUS
    <3>2. k + 1 \in 1 .. N /\ (k + 1) - 1 = k /\ SizeOf(layers)[k] \in Nat
      BY <1>1, <2>2, <3>1
    <3>3. SizeOf(layers)[k + 1] = SizeOf(layers)[k] + Size[layers[k + 1]]
      BY <1>10, <3>2
    <3>4. Size[layers[k + 1]] \in Nat
      BY <1>1, <3>2
    <3> QED
      BY <3>2, <3>3, <3>4
  <2>3. \A k \in Nat : k \in P
    <3> HIDE DEF P
    <3> QED
      BY <2>1, <2>2, HasEveryNumber
  <2> QED
    BY <1>1, <2>3
<1> QED
  BY <1>9, <1>10, <1>11 DEF N

PushSteps == {"idle", "layer", "attempt", "check", "upload"}
PushOf == [at : PushSteps, artifact : Artifacts \cup {None}, tag : Tags \cup {None}, done : Nat,
           attempt : Nat, baseline : Nat, bytes : Nat]
PullSteps == {"idle", "resolve", "copy", "copied", "record", "annotate", "pulled", "failed"}
PullOf == [at : PullSteps, ref : Tags \cup Artifacts \cup {None}, artifact : Artifacts \cup {None},
           data : BOOLEAN, todo : SUBSET Layers, total : Nat, completed : Nat]

RepoOK ==
    /\ blobs \subseteq Layers /\ manifests \subseteq Artifacts
    /\ tags \in [Tags -> Artifacts \cup {None}]
    /\ pushed \in 0 .. MaxPushes

\* What a push of its artifact has counted, and what the registry has of it: the
\* layers it is through with, and nothing of the one it works on before that is
\* uploaded.
PushOK(p, have) ==
    /\ p \in PushOf
    /\ p.at # "idle" =>
         /\ p.artifact \in Artifacts /\ p.tag \in Tags
         /\ p.done <= Len(LayersOf[p.artifact])
         /\ \A i \in 1 .. p.done : LayersOf[p.artifact][i] \in have
         /\ p.at = "layer" => p.bytes = SizeOf(LayersOf[p.artifact])[p.done]
         /\ p.at # "layer" => /\ p.done < Len(LayersOf[p.artifact])
                              /\ p.baseline = SizeOf(LayersOf[p.artifact])[p.done]
         /\ p.at \in {"check", "upload"} \/ (p.at = "attempt" /\ p.attempt = 0) =>
              p.bytes = p.baseline

PushInv == pushes \in [Clients -> PushOf] /\ \A c \in Clients : PushOK(pushes[c], blobs)

\* What the pull is through with is on the disk, and it has counted it.
PullInv ==
    /\ pull \in PullOf /\ disk \in [Paths -> Layers \cup {None}]
    /\ {recorded, annotated} \subseteq Artifacts \cup {None}
    /\ pull.at \in {"copy", "copied", "record", "annotate", "pulled"} =>
         /\ pull.artifact \in Artifacts /\ pull.todo \subseteq Selected(pull.artifact, pull.data)
         /\ \A l \in Selected(pull.artifact, pull.data) \ pull.todo : disk[PathOf[l]] = l
    /\ pull.at = "resolve" => pull.completed = 0
    /\ pull.at = "copy" =>
         \/ pull.completed + Cardinality(pull.todo) + 1 = pull.total
         \/ pull.todo = {} /\ pull.completed = pull.total
    /\ pull.at \in {"copied", "record", "annotate", "pulled"} => pull.todo = {}
    /\ pull.at \in {"record", "annotate", "pulled"} => progress.mode = "idle"
    /\ pull.at \in {"annotate", "pulled"} => recorded = pull.artifact
    /\ pull.at = "pulled" => annotated = recorded

RegistryInv == RepoOK /\ PushInv /\ PullInv

\* The layers of an artifact.
LEMMA LayersIn ==
    ASSUME NEW a \in Artifacts
    PROVE  /\ LayersOf[a] \in Seq(Blobs) /\ Len(LayersOf[a]) \in Nat
           /\ \A i \in 1 .. Len(LayersOf[a]) : /\ LayersOf[a][i] \in Range(LayersOf[a])
                                               /\ LayersOf[a][i] \in Layers
                                               /\ Size[LayersOf[a][i]] \in Nat
           /\ Range(LayersOf[a]) \subseteq Layers /\ IsFiniteSet(Range(LayersOf[a]))
<1>1. LayersOf[a] \in Seq(Blobs) /\ Len(LayersOf[a]) \in Nat
  BY RegistryAssumption DEF Blobs
<1>2. \A i \in 1 .. Len(LayersOf[a]) : LayersOf[a][i] \in Range(LayersOf[a])
  BY <1>1 DEF Range
<1>3. Range(LayersOf[a]) \subseteq Layers
  BY DEF Layers
<1>4. \A i \in 1 .. Len(LayersOf[a]) : Size[LayersOf[a][i]] \in Nat
  BY <1>1, RegistryAssumption DEF Blobs
<1>5. LayersOf[a] \in Surjection(1 .. Len(LayersOf[a]), Range(LayersOf[a]))
  BY <1>1 DEF Range, Surjection
<1>6. IsFiniteSet(1 .. Len(LayersOf[a]))
  BY <1>1, FS_Interval
<1>7. IsFiniteSet(Range(LayersOf[a]))
  BY <1>5, <1>6, FS_Surjection
<1> QED
  BY <1>1, <1>2, <1>3, <1>4, <1>7

\* A step of one push, which takes nothing from the registry.
LEMMA PushMoves ==
    ASSUME PushInv, NEW c \in Clients, NEW p, PushOK(p, blobs'),
           pushes' = [pushes EXCEPT ![c] = p], blobs \subseteq blobs'
    PROVE  PushInv'
<1>1. p \in PushOf
  BY DEF PushOK
<1>2. pushes' \in [Clients -> PushOf]
  BY <1>1 DEF PushInv
<1>3. ASSUME NEW d \in Clients PROVE PushOK(pushes'[d], blobs')
  <2>1. CASE d = c
    BY <2>1 DEF PushInv
  <2>2. CASE d # c
    <3>1. pushes'[d] = pushes[d] /\ PushOK(pushes[d], blobs)
      BY <2>2 DEF PushInv
    <3> QED
      BY <3>1 DEF PushOK
  <2> QED
    BY <2>1, <2>2
<1> QED
  BY <1>2, <1>3 DEF PushInv

\* What a push knows between its steps.
LEMMA PushKnows ==
    ASSUME RegistryInv, NEW c \in Clients, pushes[c].at # "idle"
    PROVE  /\ pushes[c] \in PushOf /\ PushOK(pushes[c], blobs)
           /\ pushes[c].artifact \in Artifacts /\ pushes[c].tag \in Tags
           /\ pushes[c].done \in 0 .. Len(LayersOf[pushes[c].artifact])
           /\ Len(LayersOf[pushes[c].artifact]) \in Nat
           /\ LayersLeft(c) => /\ Layer(c) \in Layers /\ Size[Layer(c)] \in Nat
                               /\ Layer(c) = LayersOf[pushes[c].artifact][pushes[c].done + 1]
                               /\ SizeOf(LayersOf[pushes[c].artifact])[pushes[c].done + 1]
                                    = SizeOf(LayersOf[pushes[c].artifact])[pushes[c].done] + Size[Layer(c)]
           /\ pushes[c].at # "layer" => LayersLeft(c)
<1> DEFINE p == pushes[c]
           layers == LayersOf[p.artifact]
<1>1. p \in PushOf /\ PushOK(p, blobs) /\ p.artifact \in Artifacts /\ p.tag \in Tags
  BY DEF RegistryInv, PushInv, PushOK
<1>2. layers \in Seq(Blobs) /\ Len(layers) \in Nat
  BY <1>1, LayersIn
<1>3. p.done \in Nat /\ p.done <= Len(layers) /\ (p.at # "layer" => p.done < Len(layers))
  BY <1>1 DEF PushOK, PushOf
<1>4. LayersLeft(c) = (p.done < Len(layers)) /\ Layer(c) = layers[p.done + 1]
  BY DEF LayersLeft, Layer
<1>5. ASSUME p.done < Len(layers)
      PROVE  /\ layers[p.done + 1] \in Layers /\ Size[layers[p.done + 1]] \in Nat
             /\ SizeOf(layers)[p.done + 1] = SizeOf(layers)[p.done] + Size[layers[p.done + 1]]
  <2>1. p.done + 1 \in 1 .. Len(layers) /\ (p.done + 1) - 1 = p.done
    BY <1>2, <1>3, <1>5
  <2> HIDE DEF p
  <2>2. layers[p.done + 1] \in Layers /\ Size[layers[p.done + 1]] \in Nat
    BY <1>1, <2>1, LayersIn
  <2>3. SizeOf(layers)[p.done + 1] = SizeOf(layers)[(p.done + 1) - 1] + Size[layers[p.done + 1]]
    BY <1>2, <2>1, SizeIs
  <2> QED
    BY <2>1, <2>2, <2>3
<1>6. p.done \in 0 .. Len(layers)
  BY <1>2, <1>3
<1>7. LayersLeft(c) => /\ Layer(c) \in Layers /\ Size[Layer(c)] \in Nat
                       /\ SizeOf(layers)[p.done + 1] = SizeOf(layers)[p.done] + Size[Layer(c)]
  BY <1>4, <1>5
<1>8. p.at # "layer" => LayersLeft(c)
  BY <1>3, <1>4
<1> QED
  BY <1>1, <1>2, <1>4, <1>6, <1>7, <1>8

\* A push begins, or ends.
LEMMA PushBegins ==
    ASSUME RegistryInv, NEW c \in Clients, NEW a \in Artifacts, NEW t \in Tags, BeginPush(c, a, t)
    PROVE  PushInv' /\ RepoOK'
<1>1. PICK q : q = [NoPush EXCEPT !.at = "layer", !.artifact = a, !.tag = t]
  OBVIOUS
<1>2. /\ q \in PushOf /\ q.at = "layer" /\ q.artifact = a /\ q.tag = t /\ q.done = 0 /\ q.bytes = 0
  BY <1>1 DEF NoPush, PushOf, PushSteps
<1>3. LayersOf[a] \in Seq(Blobs) /\ Len(LayersOf[a]) \in Nat
  BY LayersIn
<1>4. SizeOf(LayersOf[a])[0] = 0
  BY <1>3, SizeIs
<1>5. PushOK(q, blobs)
  BY <1>2, <1>3, <1>4 DEF PushOK
<1>6. pushes' = [pushes EXCEPT ![c] = q] /\ blobs' = blobs
  BY <1>1 DEF BeginPush, repoVars
<1>7. PushInv'
  BY <1>5, <1>6, PushMoves DEF RegistryInv
<1>8. RepoOK'
  BY RegistryAssumption DEF RegistryInv, RepoOK, BeginPush, repoVars
<1> QED
  BY <1>7, <1>8

LEMMA NoPushOK ==
    ASSUME NEW have
    PROVE  NoPush \in PushOf /\ PushOK(NoPush, have)
BY DEF NoPush, PushOf, PushSteps, PushOK


\* A step of one push that leaves the repository alone.
LEMMA PushSteps0 ==
    ASSUME RegistryInv, NEW c \in Clients, NEW q, PushOK(q, blobs),
           pushes' = [pushes EXCEPT ![c] = q], UNCHANGED <<repoVars, pushed>>
    PROVE  PushInv' /\ RepoOK'
<1>1. UNCHANGED <<blobs, manifests, tags, pushed>>
  BY DEF repoVars
<1>2. PushInv'
  BY <1>1, PushMoves DEF RegistryInv
<1>3. RepoOK'
  BY <1>1 DEF RegistryInv, RepoOK
<1> QED
  BY <1>2, <1>3

\* A layer begins: what is counted until then is remembered.
LEMMA LayerBegins ==
    ASSUME RegistryInv, NEW c \in Clients, BeginLayer(c)
    PROVE  PushInv' /\ RepoOK'
<1> DEFINE p == pushes[c]
<1>1. UNCHANGED <<repoVars, pushed>> /\ p.at = "layer" /\ p.at # "idle" /\ LayersLeft(c)
  BY DEF BeginLayer
<1>2. PICK q : q = [p EXCEPT !.at = "attempt", !.attempt = 0, !.baseline = p.bytes]
  OBVIOUS
<1>3. pushes' = [pushes EXCEPT ![c] = q]
  BY <1>2 DEF BeginLayer, RegistryInv, PushInv
<1>4. p \in PushOf /\ PushOK(p, blobs) /\ p.done < Len(LayersOf[p.artifact])
  BY <1>1, PushKnows DEF LayersLeft
<1> HIDE DEF p
<1>5. /\ q \in PushOf /\ q.at = "attempt" /\ q.baseline = p.bytes /\ q.bytes = p.bytes
      /\ q.artifact = p.artifact /\ q.tag = p.tag /\ q.done = p.done
  BY <1>2, <1>4 DEF PushOf, PushSteps
<1>6. PushOK(q, blobs)
  BY <1>1, <1>4, <1>5 DEF PushOK
<1> QED
  BY <1>1, <1>3, <1>6, PushSteps0

\* An attempt begins with what was counted before the layer.
LEMMA AttemptBegins ==
    ASSUME RegistryInv, NEW c \in Clients, BeginAttempt(c)
    PROVE  PushInv' /\ RepoOK'
<1> DEFINE p == pushes[c]
<1>1. UNCHANGED <<repoVars, pushed>> /\ p.at = "attempt" /\ p.at # "idle"
  BY DEF BeginAttempt
<1>2. PICK q : q = [p EXCEPT !.at = "check", !.bytes = IF p.attempt > 0 THEN p.baseline ELSE p.bytes]
  OBVIOUS
<1>3. pushes' = [pushes EXCEPT ![c] = q]
  BY <1>2 DEF BeginAttempt, Attempt
<1>4. p \in PushOf /\ PushOK(p, blobs)
  BY <1>1, PushKnows
<1> HIDE DEF p
<1>5. p.bytes \in Nat /\ p.baseline \in Nat /\ p.attempt \in Nat
  BY <1>4 DEF PushOf
<1>6. (IF p.attempt > 0 THEN p.baseline ELSE p.bytes) = p.baseline
  BY <1>1, <1>4, <1>5 DEF PushOK
<1>7. /\ q \in PushOf /\ q.at = "check" /\ q.baseline = p.baseline /\ q.bytes = p.baseline
      /\ q.artifact = p.artifact /\ q.tag = p.tag /\ q.done = p.done
  BY <1>2, <1>4, <1>5, <1>6 DEF PushOf, PushSteps
<1>8. PushOK(q, blobs)
  BY <1>1, <1>4, <1>7 DEF PushOK
<1> QED
  BY <1>1, <1>3, <1>8, PushSteps0

LEMMA LayerIsMissing ==
    ASSUME RegistryInv, NEW c \in Clients, LayerMissing(c)
    PROVE  PushInv' /\ RepoOK'
<1> DEFINE p == pushes[c]
<1>1. UNCHANGED <<repoVars, pushed>> /\ p.at = "check" /\ p.at # "idle"
  BY DEF LayerMissing
<1>2. PICK q : q = [p EXCEPT !.at = "upload"]
  OBVIOUS
<1>3. pushes' = [pushes EXCEPT ![c] = q]
  BY <1>2 DEF LayerMissing, RegistryInv, PushInv
<1>4. p \in PushOf /\ PushOK(p, blobs)
  BY <1>1, PushKnows
<1> HIDE DEF p
<1>5. /\ q \in PushOf /\ q.at = "upload" /\ q.baseline = p.baseline /\ q.bytes = p.bytes
      /\ q.artifact = p.artifact /\ q.tag = p.tag /\ q.done = p.done
  BY <1>2, <1>4 DEF PushOf, PushSteps
<1>6. PushOK(q, blobs)
  BY <1>1, <1>4, <1>5 DEF PushOK
<1> QED
  BY <1>1, <1>3, <1>6, PushSteps0

\* The layer is in the registry, and counted once.
LEMMA PushAdvances ==
    ASSUME RegistryInv, NEW c \in Clients, pushes[c].at \in {"check", "upload"}, NEW have,
           blobs \subseteq have, Layer(c) \in have, NEW q,
           q = [pushes[c] EXCEPT !.at = "layer", !.done = @ + 1,
                                 !.bytes = pushes[c].baseline + Size[Layer(c)]]
    PROVE  PushOK(q, have)
<1> DEFINE p == pushes[c]
           layers == LayersOf[p.artifact]
<1>1. p.at # "idle" /\ p.at # "layer"
  OBVIOUS
<1>2. /\ p \in PushOf /\ PushOK(p, blobs) /\ p.artifact \in Artifacts /\ p.tag \in Tags
      /\ Size[Layer(c)] \in Nat /\ Layer(c) = layers[p.done + 1] /\ Len(layers) \in Nat
      /\ SizeOf(layers)[p.done + 1] = SizeOf(layers)[p.done] + Size[Layer(c)]
  BY <1>1, PushKnows
<1>3. q = [p EXCEPT !.at = "layer", !.done = p.done + 1, !.bytes = p.baseline + Size[Layer(c)]]
  OBVIOUS
<1> HIDE DEF p
<1>4. p.done \in Nat /\ p.baseline \in Nat
  BY <1>2 DEF PushOf
<1>5. p.done < Len(layers) /\ p.baseline = SizeOf(layers)[p.done] /\ \A i \in 1 .. p.done : layers[i] \in blobs
  BY <1>1, <1>2 DEF PushOK
<1>6. /\ q \in PushOf /\ q.at = "layer" /\ q.bytes = p.baseline + Size[Layer(c)]
      /\ q.artifact = p.artifact /\ q.tag = p.tag /\ q.done = p.done + 1
  <2>1. PICK d \in Nat : d = p.done + 1
    BY <1>4
  <2>2. PICK b \in Nat : b = p.baseline + Size[Layer(c)]
    BY <1>2, <1>4
  <2>3. q = [p EXCEPT !.at = "layer", !.done = d, !.bytes = b]
    BY <1>3, <2>1, <2>2
  <2>4. /\ q \in PushOf /\ q.at = "layer" /\ q.bytes = b
        /\ q.artifact = p.artifact /\ q.tag = p.tag /\ q.done = d
    BY <1>2, <2>3 DEF PushOf, PushSteps
  <2> QED
    BY <2>1, <2>2, <2>4
<1>7. \A i \in 1 .. q.done : layers[i] \in have
  <2> SUFFICES ASSUME NEW i \in 1 .. p.done + 1 PROVE layers[i] \in have
    BY <1>6
  <2>1. i \in 1 .. p.done \/ i = p.done + 1
    BY <1>4
  <2> QED
    BY <1>2, <1>5, <2>1
<1>8. q.bytes = SizeOf(layers)[q.done] /\ q.done <= Len(layers)
  BY <1>2, <1>4, <1>5, <1>6
<1> QED
  BY <1>2, <1>6, <1>7, <1>8 DEF PushOK

LEMMA LayerIsThere ==
    ASSUME RegistryInv, NEW c \in Clients, LayerExists(c) \/ UploadExists(c)
    PROVE  PushInv' /\ RepoOK'
<1>1. /\ UNCHANGED <<repoVars, pushed>> /\ Layer(c) \in blobs /\ LayerDone(c)
      /\ pushes[c].at \in {"check", "upload"}
  BY DEF LayerExists, UploadExists
<1>2. PICK q : q = [pushes[c] EXCEPT !.at = "layer", !.done = @ + 1,
                                     !.bytes = pushes[c].baseline + Size[Layer(c)]]
  OBVIOUS
<1>3. pushes' = [pushes EXCEPT ![c] = q]
  BY <1>1, <1>2 DEF LayerDone, RegistryInv, PushInv
<1>4. PushOK(q, blobs)
  BY <1>1, <1>2, PushAdvances
<1> QED
  BY <1>1, <1>3, <1>4, PushSteps0

LEMMA LayerUploads ==
    ASSUME RegistryInv, NEW c \in Clients, Upload(c)
    PROVE  PushInv' /\ RepoOK'
<1>1. /\ pushes[c].at = "upload" /\ pushes[c].at # "idle" /\ pushes[c].at # "layer"
      /\ blobs' = blobs \cup {Layer(c)} /\ UNCHANGED <<manifests, tags, pushed>>
  BY DEF Upload
<1>2. /\ pushes[c] \in PushOf /\ PushOK(pushes[c], blobs) /\ Layer(c) \in Layers /\ Size[Layer(c)] \in Nat
  BY <1>1, PushKnows
<1>3. pushes[c].bytes = pushes[c].baseline
  BY <1>1, <1>2 DEF PushOK
<1>4. PICK q : q = [pushes[c] EXCEPT !.at = "layer", !.done = @ + 1,
                                     !.bytes = pushes[c].baseline + Size[Layer(c)]]
  OBVIOUS
<1>5. pushes' = [pushes EXCEPT ![c] = q]
  BY <1>1, <1>3, <1>4 DEF Upload, RegistryInv, PushInv
<1>6. PushOK(q, blobs')
  BY <1>1, <1>4, PushAdvances
<1>7. PushInv'
  BY <1>1, <1>5, <1>6, PushMoves DEF RegistryInv
<1>8. RepoOK'
  BY <1>1, <1>2 DEF RegistryInv, RepoOK
<1> QED
  BY <1>7, <1>8

\* An upload that failed is tried again, or the push gives up.
LEMMA UploadBreaks ==
    ASSUME RegistryInv, NEW c \in Clients, NEW n \in 0 .. Size[Layer(c)], UploadFails(c, n)
    PROVE  PushInv' /\ RepoOK'
<1> DEFINE p == pushes[c]
<1>1. /\ p.at = "upload" /\ p.at # "idle" /\ p.at # "layer" /\ UNCHANGED <<manifests, tags, pushed>>
      /\ blobs' = blobs \/ blobs' = blobs \cup {Layer(c)}
  BY DEF UploadFails
<1>2. /\ p \in PushOf /\ PushOK(p, blobs) /\ Layer(c) \in Layers /\ Size[Layer(c)] \in Nat
  BY <1>1, PushKnows
<1>3. blobs \subseteq blobs' /\ RepoOK'
  BY <1>1, <1>2 DEF RegistryInv, RepoOK
<1>4. CASE p.attempt < MaxRetries
  <2>1. PICK q : q = [p EXCEPT !.at = "attempt", !.attempt = p.attempt + 1, !.bytes = p.bytes + n]
    OBVIOUS
  <2>2. pushes' = [pushes EXCEPT ![c] = q]
    <3>1. pushes' = [pushes EXCEPT ![c] = Retry(p, n)]
      BY DEF UploadFails
    <3>2. q = [p EXCEPT !.at = "attempt", !.attempt = @ + 1, !.bytes = @ + n]
      BY <1>2, <2>1
    <3>3. Retry(p, n) = q
      BY <1>4, <3>2 DEF Retry
    <3> QED
      BY <3>1, <3>3
  <2> HIDE DEF p
  <2>3. n \in Nat /\ p.attempt \in Nat /\ p.bytes \in Nat
    BY <1>2 DEF PushOf
  <2>4. /\ q \in PushOf /\ q.at = "attempt" /\ q.attempt = p.attempt + 1
        /\ q.artifact = p.artifact /\ q.tag = p.tag /\ q.done = p.done /\ q.baseline = p.baseline
    <3>1. PICK d \in Nat : d = p.attempt + 1
      BY <2>3
    <3>2. PICK b \in Nat : b = p.bytes + n
      BY <2>3
    <3>3. q = [p EXCEPT !.at = "attempt", !.attempt = d, !.bytes = b]
      BY <2>1, <3>1, <3>2
    <3>4. /\ q \in PushOf /\ q.at = "attempt" /\ q.attempt = d
          /\ q.artifact = p.artifact /\ q.tag = p.tag /\ q.done = p.done /\ q.baseline = p.baseline
      BY <1>2, <3>3 DEF PushOf, PushSteps
    <3> QED
      BY <3>1, <3>4
  <2>5. q.attempt # 0
    BY <2>3, <2>4
  <2>6. PushOK(q, blobs')
    BY <1>1, <1>2, <1>3, <2>4, <2>5 DEF PushOK
  <2> QED
    BY <1>3, <2>2, <2>6, PushMoves DEF RegistryInv
<1>5. CASE ~(p.attempt < MaxRetries)
  <2>1. pushes' = [pushes EXCEPT ![c] = NoPush]
    BY <1>5 DEF UploadFails, Retry
  <2> QED
    BY <1>3, <2>1, NoPushOK, PushMoves DEF RegistryInv
<1> QED
  BY <1>4, <1>5

LEMMA ManifestPushed ==
    ASSUME RegistryInv, NEW c \in Clients, PushManifest(c) \/ PushManifestFails(c)
    PROVE  PushInv' /\ RepoOK'
<1>1. pushes[c].at # "idle" /\ pushes' = [pushes EXCEPT ![c] = NoPush] /\ pushed' = pushed
  BY DEF PushManifest, PushManifestFails
<1>2. pushes[c].artifact \in Artifacts /\ pushes[c].tag \in Tags
  BY <1>1, PushKnows
<1>3. Range(LayersOf[pushes[c].artifact]) \subseteq Layers
  BY <1>2, LayersIn
<1>4. blobs \subseteq blobs' /\ RepoOK'
  <2>1. CASE PushManifest(c)
    <3>1. /\ blobs' = blobs \cup Range(LayersOf[pushes[c].artifact])
          /\ manifests' = manifests \cup {pushes[c].artifact}
          /\ tags' = [tags EXCEPT ![pushes[c].tag] = pushes[c].artifact]
      BY <2>1 DEF PushManifest
    <3> QED
      BY <1>1, <1>2, <1>3, <3>1 DEF RegistryInv, RepoOK
  <2>2. CASE PushManifestFails(c)
    <3>1. /\ manifests' \in {manifests, manifests \cup {pushes[c].artifact}}
          /\ blobs' = blobs /\ tags' = tags
      BY <2>2 DEF PushManifestFails
    <3> QED
      BY <1>1, <1>2, <3>1 DEF RegistryInv, RepoOK
  <2> QED
    BY <2>1, <2>2
<1> QED
  BY <1>1, <1>4, NoPushOK, PushMoves DEF RegistryInv

\* The steps of the pushes.
LEMMA PushStep ==
    ASSUME RegistryInv, NEW c \in Clients,
           \/ \E a \in Artifacts, t \in Tags : BeginPush(c, a, t)
           \/ PushRefused(c) \/ BeginLayer(c) \/ BeginAttempt(c) \/ LayerExists(c)
           \/ LayerMissing(c) \/ Upload(c) \/ UploadExists(c)
           \/ pushes[c].at = "upload" /\ \E n \in 0 .. Size[Layer(c)] : UploadFails(c, n)
           \/ PushManifest(c) \/ PushManifestFails(c)
    PROVE  RegistryInv'
<1>1. UNCHANGED pullVars
  BY DEF BeginPush, PushRefused, BeginLayer, BeginAttempt, LayerExists, LayerMissing, Upload,
         UploadExists, UploadFails, PushManifest, PushManifestFails
<1>2. PullInv'
  BY <1>1 DEF pullVars, RegistryInv, PullInv
<1>3. ASSUME PushRefused(c) PROVE PushInv' /\ RepoOK'
  <2>1. UNCHANGED <<blobs, manifests, tags, pushes>> /\ pushed' \in 0 .. MaxPushes
    BY <1>3, RegistryAssumption DEF PushRefused, repoVars, RegistryInv, RepoOK
  <2> QED
    BY <2>1 DEF RegistryInv, PushInv, RepoOK
<1>4. PushInv' /\ RepoOK'
  BY <1>3, PushBegins, LayerBegins, AttemptBegins, LayerIsThere, LayerIsMissing, LayerUploads,
     UploadBreaks, ManifestPushed
<1> QED
  BY <1>2, <1>4 DEF RegistryInv

\* A step of the pull leaves the pushes and the repository alone.
LEMMA PushesKept ==
    ASSUME RegistryInv, UNCHANGED <<repoVars, pushVars>>
    PROVE  PushInv' /\ RepoOK'
<1>1. UNCHANGED <<blobs, manifests, tags, pushes, pushed>>
  BY DEF repoVars, pushVars
<1> QED
  BY <1>1 DEF RegistryInv, PushInv, RepoOK

\* The layers a pull selects are layers, finitely many.
LEMMA SelectedIn ==
    ASSUME NEW a \in Artifacts, NEW whole
    PROVE  /\ Selected(a, whole) \subseteq Range(LayersOf[a]) /\ Selected(a, whole) \subseteq Layers
           /\ IsFiniteSet(Selected(a, whole)) /\ Cardinality(Selected(a, whole)) \in Nat
<1>1. Range(LayersOf[a]) \subseteq Layers /\ IsFiniteSet(Range(LayersOf[a]))
  BY LayersIn
<1>2. Selected(a, whole) \subseteq Range(LayersOf[a])
  BY DEF Selected
<1>3. IsFiniteSet(Selected(a, whole))
  BY <1>1, <1>2, FS_Subset
<1>4. Cardinality(Selected(a, whole)) \in Nat
  BY <1>3, FS_CardinalityType
<1> QED
  BY <1>1, <1>2, <1>3, <1>4

LEMMA PullBegins ==
    ASSUME RegistryInv, NEW ref \in Tags \cup Artifacts, NEW whole \in BOOLEAN, BeginPull(ref, whole)
    PROVE  PullInv'
<1>1. pull' = [NoPull EXCEPT !.at = "resolve", !.ref = ref, !.data = whole]
  BY DEF BeginPull
<1>2. pull' \in PullOf /\ pull'.at = "resolve" /\ pull'.completed = 0
  BY <1>1 DEF NoPull, PullOf, PullSteps
<1>3. UNCHANGED <<disk, recorded, annotated>>
  BY DEF BeginPull
<1> QED
  BY <1>2, <1>3 DEF RegistryInv, PullInv

\* A pull that failed says nothing.
LEMMA PullGivesUp ==
    ASSUME RegistryInv, pull' = [pull EXCEPT !.at = "failed"], UNCHANGED <<disk, recorded, annotated>>
    PROVE  PullInv'
<1>1. pull' \in PullOf /\ pull'.at = "failed"
  BY DEF RegistryInv, PullInv, PullOf, PullSteps
<1> QED
  BY <1>1 DEF RegistryInv, PullInv

LEMMA PullResolves ==
    ASSUME RegistryInv, Resolve
    PROVE  PullInv'
<1>1. UNCHANGED <<disk, recorded, annotated>>
  BY DEF Resolve
<1> DEFINE a == Named(pull.ref)
           sel == Selected(a, pull.data)
<1>2. CASE a \in manifests
  <2>1. a \in Artifacts
    BY <1>2 DEF RegistryInv, RepoOK
  <2>2. sel \subseteq Layers /\ Cardinality(sel) \in Nat
    BY <2>1, SelectedIn
  <2>3. PICK t \in Nat : t = Cardinality(sel) + 1
    BY <2>2
  <2>4. pull' = [pull EXCEPT !.at = "copy", !.artifact = a, !.todo = sel, !.total = t]
    BY <1>2, <2>3 DEF Resolve
  <2>5. pull \in PullOf
    BY DEF RegistryInv, PullInv
  <2> HIDE DEF a, sel
  <2>6. /\ pull' \in PullOf /\ pull'.at = "copy" /\ pull'.artifact = a /\ pull'.todo = sel
        /\ pull'.total = t /\ pull'.data = pull.data /\ pull'.completed = pull.completed
    BY <2>1, <2>2, <2>4, <2>5 DEF PullOf, PullSteps
  <2>7. pull.completed = 0 /\ disk \in [Paths -> Layers \cup {None}]
        /\ {recorded, annotated} \subseteq Artifacts \cup {None}
    BY DEF Resolve, RegistryInv, PullInv
  <2>8. pull'.completed + Cardinality(pull'.todo) + 1 = pull'.total
    BY <2>2, <2>3, <2>6, <2>7 DEF sel
  <2>9. pull'.todo = Selected(pull'.artifact, pull'.data)
    BY <2>6 DEF sel
  <2> QED
    BY <1>1, <2>1, <2>6, <2>7, <2>8, <2>9 DEF PullInv
<1>3. CASE a \notin manifests
  BY <1>1, <1>3, PullGivesUp DEF Resolve, CopyFails
<1> QED
  BY <1>2, <1>3

\* What is known while the pull copies.
LEMMA PullKnows ==
    ASSUME RegistryInv, pull.at = "copy"
    PROVE  /\ pull \in PullOf /\ pull.artifact \in Artifacts /\ pull.completed \in Nat /\ pull.total \in Nat
           /\ pull.todo \subseteq Selected(pull.artifact, pull.data)
           /\ pull.todo \subseteq Layers /\ pull.todo \subseteq Range(LayersOf[pull.artifact])
           /\ Selected(pull.artifact, pull.data) \subseteq Range(LayersOf[pull.artifact])
           /\ IsFiniteSet(pull.todo) /\ Cardinality(pull.todo) \in Nat
           /\ \/ pull.completed + Cardinality(pull.todo) + 1 = pull.total
              \/ pull.todo = {} /\ pull.completed = pull.total
<1>1. /\ pull \in PullOf /\ pull.artifact \in Artifacts
      /\ pull.todo \subseteq Selected(pull.artifact, pull.data)
      /\ \/ pull.completed + Cardinality(pull.todo) + 1 = pull.total
         \/ pull.todo = {} /\ pull.completed = pull.total
  BY DEF RegistryInv, PullInv
<1>2. /\ Selected(pull.artifact, pull.data) \subseteq Range(LayersOf[pull.artifact])
      /\ Selected(pull.artifact, pull.data) \subseteq Layers
      /\ IsFiniteSet(Selected(pull.artifact, pull.data))
  BY <1>1, SelectedIn
<1>3. IsFiniteSet(pull.todo)
  BY <1>1, <1>2, FS_Subset
<1>4. Cardinality(pull.todo) \in Nat
  BY <1>3, FS_CardinalityType
<1>5. pull.completed \in Nat /\ pull.total \in Nat
  BY <1>1 DEF PullOf
<1> QED
  BY <1>1, <1>2, <1>3, <1>4, <1>5

\* A layer replaces what its path held, which is no layer of the same artifact.
LEMMA LayerCopied ==
    ASSUME RegistryInv, NEW l \in pull.todo, CopyLayer(l)
    PROVE  PullInv'
<1> DEFINE sel == Selected(pull.artifact, pull.data)
<1>1. /\ pull.at = "copy" /\ disk' = [disk EXCEPT ![PathOf[l]] = l]
      /\ pull' = [pull EXCEPT !.todo = @ \ {l}, !.completed = @ + 1]
      /\ recorded' = recorded /\ annotated' = annotated
  BY DEF CopyLayer
<1>2. /\ pull \in PullOf /\ pull.artifact \in Artifacts /\ pull.completed \in Nat /\ pull.total \in Nat
      /\ pull.todo \subseteq sel /\ pull.todo \subseteq Layers
      /\ sel \subseteq Range(LayersOf[pull.artifact])
      /\ IsFiniteSet(pull.todo) /\ Cardinality(pull.todo) \in Nat
      /\ \/ pull.completed + Cardinality(pull.todo) + 1 = pull.total
         \/ pull.todo = {} /\ pull.completed = pull.total
  BY <1>1, PullKnows
<1>3. Cardinality(pull.todo \ {l}) = Cardinality(pull.todo) - 1
  BY <1>2, FS_RemoveElement
<1>4. PICK n \in Nat : n = pull.completed + 1
  BY <1>2
<1>5. PICK left \in SUBSET Layers : left = pull.todo \ {l}
  BY <1>2
<1>6. pull' = [pull EXCEPT !.todo = left, !.completed = n]
  BY <1>1, <1>2, <1>4, <1>5
<1>7. /\ pull' \in PullOf /\ pull'.at = "copy" /\ pull'.artifact = pull.artifact /\ pull'.todo = left
      /\ pull'.total = pull.total /\ pull'.data = pull.data /\ pull'.completed = n
  BY <1>1, <1>2, <1>6 DEF PullOf, PullSteps
<1>8. pull'.completed + Cardinality(pull'.todo) + 1 = pull'.total
  BY <1>2, <1>3, <1>4, <1>5, <1>7
<1>9. disk \in [Paths -> Layers \cup {None}] /\ \A m \in sel \ pull.todo : disk[PathOf[m]] = m
  BY <1>1 DEF RegistryInv, PullInv
<1>10. l \in Layers /\ PathOf[l] \in Paths
  BY <1>2 DEF Paths
<1>11. disk' \in [Paths -> Layers \cup {None}]
  BY <1>1, <1>9, <1>10
<1>12. ASSUME NEW m \in sel \ left PROVE disk'[PathOf[m]] = m
  <2>1. CASE m = l
    BY <1>1, <1>9, <1>10, <2>1
  <2>2. CASE m # l
    <3>1. m \in sel \ pull.todo
      BY <1>5, <2>2
    <3>2. PathOf[m] # PathOf[l]
      BY <1>2, <2>2, RegistryAssumption
    <3> HIDE DEF sel
    <3>3. disk'[PathOf[m]] = disk[PathOf[m]]
      <4>1. m \in Layers
        BY <1>2 DEF Layers
      <4>2. PathOf[m] \in Paths
        BY <4>1 DEF Paths
      <4> QED
        BY <1>1, <1>9, <3>2, <4>2
    <3> QED
      BY <1>9, <3>1, <3>3
  <2> QED
    BY <2>1, <2>2
<1>13. {recorded, annotated} \subseteq Artifacts \cup {None}
  BY DEF RegistryInv, PullInv
<1>14. Selected(pull'.artifact, pull'.data) = sel
  BY <1>7
<1> HIDE DEF sel
<1> QED
  BY <1>1, <1>2, <1>5, <1>7, <1>8, <1>11, <1>12, <1>13, <1>14 DEF PullInv

\* The configuration is copied after the layers, and the manifest last.
LEMMA NodeCopied ==
    ASSUME RegistryInv, CopyConfig \/ CopyRoot
    PROVE  PullInv'
<1>1. /\ pull.at = "copy" /\ UNCHANGED <<disk, recorded, annotated>>
  BY DEF CopyConfig, CopyRoot
<1>2. /\ pull \in PullOf /\ pull.artifact \in Artifacts /\ pull.completed \in Nat /\ pull.total \in Nat
      /\ Cardinality(pull.todo) \in Nat
      /\ \/ pull.completed + Cardinality(pull.todo) + 1 = pull.total
         \/ pull.todo = {} /\ pull.completed = pull.total
  BY <1>1, PullKnows
<1>3. PICK n \in Nat : n = pull.completed + 1
  BY <1>2
<1>4. /\ disk \in [Paths -> Layers \cup {None}] /\ {recorded, annotated} \subseteq Artifacts \cup {None}
      /\ pull.todo \subseteq Selected(pull.artifact, pull.data)
      /\ \A l \in Selected(pull.artifact, pull.data) \ pull.todo : disk[PathOf[l]] = l
  BY <1>1 DEF RegistryInv, PullInv
<1>5. CASE CopyConfig
  <2>1. pull.todo = {} /\ pull.completed < pull.total
    BY <1>5 DEF CopyConfig
  <2>2. pull.completed + 1 = pull.total
    BY <1>2, <2>1, FS_EmptySet
  <2>3. pull' = [pull EXCEPT !.completed = n]
    BY <1>2, <1>3, <1>5 DEF CopyConfig
  <2>4. /\ pull' \in PullOf /\ pull'.at = "copy" /\ pull'.artifact = pull.artifact /\ pull'.todo = {}
        /\ pull'.data = pull.data /\ pull'.completed = pull'.total
    BY <1>1, <1>2, <1>3, <2>1, <2>2, <2>3 DEF PullOf, PullSteps
  <2> QED
    BY <1>1, <1>2, <1>4, <2>1, <2>4 DEF PullInv
<1>6. CASE CopyRoot
  <2>1. pull.completed = pull.total
    BY <1>6 DEF CopyRoot
  <2>2. pull.todo = {}
    BY <1>2, <2>1
  <2>3. pull' = [pull EXCEPT !.completed = n, !.at = "copied"]
    BY <1>2, <1>3, <1>6 DEF CopyRoot
  <2>4. /\ pull' \in PullOf /\ pull'.at = "copied" /\ pull'.artifact = pull.artifact
        /\ pull'.todo = {} /\ pull'.data = pull.data
    BY <1>1, <1>2, <1>3, <2>2, <2>3 DEF PullOf, PullSteps
  <2> QED
    BY <1>1, <1>2, <1>4, <2>2, <2>4 DEF PullInv
<1> QED
  BY <1>1, <1>5, <1>6

\* What was copied is recorded by the digest it was resolved to, and then annotated.
LEMMA PullRecorded ==
    ASSUME RegistryInv, CopyEnds \/ WriteManifest \/ WriteAnnotations
    PROVE  PullInv'
<1>1. /\ pull \in PullOf /\ disk \in [Paths -> Layers \cup {None}]
      /\ {recorded, annotated} \subseteq Artifacts \cup {None}
  BY DEF RegistryInv, PullInv
<1>2. /\ pull.at \in {"copied", "record", "annotate"} /\ disk' = disk
  BY DEF CopyEnds, WriteManifest, WriteAnnotations
<1>3. /\ pull.artifact \in Artifacts /\ pull.todo = {}
      /\ \A l \in Selected(pull.artifact, pull.data) \ pull.todo : disk[PathOf[l]] = l
  BY <1>2 DEF RegistryInv, PullInv
<1>4. CASE CopyEnds
  <2>1. /\ pull' = [pull EXCEPT !.at = "record"] /\ progress' = [mode |-> "idle", percentage |-> 100]
        /\ recorded' = recorded /\ annotated' = annotated
    BY <1>4 DEF CopyEnds
  <2>2. /\ pull' \in PullOf /\ pull'.at = "record" /\ pull'.artifact = pull.artifact
        /\ pull'.todo = {} /\ pull'.data = pull.data /\ progress'.mode = "idle"
    BY <1>1, <1>3, <2>1 DEF PullOf, PullSteps
  <2> QED
    BY <1>1, <1>2, <1>3, <2>1, <2>2 DEF PullInv
<1>5. CASE WriteManifest
  <2>1. /\ pull' = [pull EXCEPT !.at = "annotate"] /\ progress' = progress /\ pull.at = "record"
        /\ recorded' = pull.artifact /\ annotated' = annotated
    BY <1>5 DEF WriteManifest, RecordedArtifact
  <2>2. /\ pull' \in PullOf /\ pull'.at = "annotate" /\ pull'.artifact = pull.artifact
        /\ pull'.todo = {} /\ pull'.data = pull.data
    BY <1>1, <1>3, <2>1 DEF PullOf, PullSteps
  <2>3. progress.mode = "idle"
    BY <2>1 DEF RegistryInv, PullInv
  <2> QED
    BY <1>1, <1>2, <1>3, <2>1, <2>2, <2>3 DEF PullInv
<1>6. CASE WriteAnnotations
  <2>1. /\ pull' = [pull EXCEPT !.at = "pulled"] /\ progress' = progress /\ pull.at = "annotate"
        /\ annotated' = recorded /\ recorded' = recorded
    BY <1>6 DEF WriteAnnotations
  <2>2. /\ pull' \in PullOf /\ pull'.at = "pulled" /\ pull'.artifact = pull.artifact
        /\ pull'.todo = {} /\ pull'.data = pull.data
    BY <1>1, <1>3, <2>1 DEF PullOf, PullSteps
  <2>3. progress.mode = "idle" /\ recorded = pull.artifact
    BY <2>1 DEF RegistryInv, PullInv
  <2> QED
    BY <1>1, <1>2, <1>3, <2>1, <2>2, <2>3 DEF PullInv
<1> QED
  BY <1>4, <1>5, <1>6

LEMMA RegistryBegins == RegistryInit => RegistryInv
<1> SUFFICES ASSUME RegistryInit PROVE RegistryInv
  OBVIOUS
<1>1. RepoOK
  BY RegistryAssumption DEF RegistryInit, RepoOK
<1>2. PushInv
  BY NoPushOK DEF RegistryInit, PushInv
<1>3. PullInv
  BY DEF RegistryInit, PullInv, NoPull, PullOf, PullSteps
<1> QED
  BY <1>1, <1>2, <1>3 DEF RegistryInv

LEMMA RegistryStep ==
    ASSUME RegistryInv, [RegistryNext]_registryVars
    PROVE  RegistryInv'
<1>1. ASSUME NEW ref \in Tags \cup Artifacts, NEW whole \in BOOLEAN, BeginPull(ref, whole)
      PROVE  RegistryInv'
  <2>1. UNCHANGED <<repoVars, pushVars>>
    BY <1>1 DEF BeginPull
  <2> QED
    BY <1>1, <2>1, PullBegins, PushesKept DEF RegistryInv
<1>2. ASSUME NEW l \in pull.todo, CopyLayer(l) PROVE RegistryInv'
  <2>1. UNCHANGED <<repoVars, pushVars>>
    BY <1>2 DEF CopyLayer
  <2> QED
    BY <1>2, <2>1, LayerCopied, PushesKept DEF RegistryInv
<1>3. ASSUME CopyConfig \/ CopyRoot PROVE RegistryInv'
  <2>1. UNCHANGED <<repoVars, pushVars>>
    BY <1>3 DEF CopyConfig, CopyRoot
  <2> QED
    BY <1>3, <2>1, NodeCopied, PushesKept DEF RegistryInv
<1>4. ASSUME CopyBreaks \/ RecordFails PROVE RegistryInv'
  <2>1. /\ UNCHANGED <<repoVars, pushVars, disk, recorded, annotated>>
        /\ pull' = [pull EXCEPT !.at = "failed"]
    BY <1>4 DEF CopyBreaks, CopyFails, RecordFails
  <2> QED
    BY <2>1, PullGivesUp, PushesKept DEF RegistryInv
<1>5. ASSUME CopyEnds \/ WriteManifest \/ WriteAnnotations PROVE RegistryInv'
  <2>1. UNCHANGED <<repoVars, pushVars>>
    BY <1>5 DEF CopyEnds, WriteManifest, WriteAnnotations
  <2> QED
    BY <1>5, <2>1, PullRecorded, PushesKept DEF RegistryInv
<1>6. ASSUME Resolve PROVE RegistryInv'
  <2>1. UNCHANGED <<repoVars, pushVars>>
    BY <1>6 DEF Resolve
  <2> QED
    BY <1>6, <2>1, PullResolves, PushesKept DEF RegistryInv
<1>7. ASSUME UNCHANGED registryVars PROVE RegistryInv'
  <2>1. UNCHANGED <<repoVars, pushVars, pull, disk, recorded, annotated, progress>>
    BY <1>7 DEF registryVars, pullVars
  <2>2. PullInv'
    BY <2>1 DEF RegistryInv, PullInv
  <2> QED
    BY <2>1, <2>2, PushesKept DEF RegistryInv
<1> QED
  BY <1>1, <1>2, <1>3, <1>4, <1>5, <1>6, <1>7, PushStep DEF RegistryNext

\* What a push counts between two layers is what it moved, whatever attempts
\* failed, whoever uploaded a layer first and whoever moved its tag; and a pull
\* that succeeded has left the selected layers of the artifact it recorded
\* (oci.go:624-728 and 284-350).
THEOREM TransferExactSafe == RegistryInit /\ [][RegistryNext]_registryVars => []TransferExact
<1>1. RegistryInv => TransferExact
  <2> SUFFICES ASSUME RegistryInv PROVE TransferExact
    OBVIOUS
  <2>1. ASSUME NEW c \in Clients, pushes[c].at = "layer"
        PROVE  /\ pushes[c].bytes = SizeOf(LayersOf[pushes[c].artifact])[pushes[c].done]
               /\ \A i \in 1 .. pushes[c].done : LayersOf[pushes[c].artifact][i] \in blobs
    BY <2>1 DEF RegistryInv, PushInv, PushOK
  <2>2. ASSUME pull.at = "pulled"
        PROVE  /\ recorded = pull.artifact /\ annotated = recorded /\ progress.mode = "idle"
               /\ \A l \in Selected(recorded, pull.data) : disk[PathOf[l]] = l
    BY <2>2 DEF RegistryInv, PullInv
  <2> QED
    BY <2>1, <2>2 DEF TransferExact
<1> QED
  BY <1>1, RegistryBegins, RegistryStep, PTL

=============================================================================
