-------------------------- MODULE RegistryTransfer --------------------------
(***************************************************************************)
(* Pushes and pulls of artifacts: internal/core/services/registry/oci.go.  *)
(*                                                                         *)
(* Several clients push to the same repository while a worker pulls from   *)
(* it into one directory.  An artifact is a manifest, named by its digest: *)
(* the layers it lists never change, but a tag moves.  A layer is the      *)
(* content of one path; pulling it replaces what the path held.            *)
(***************************************************************************)
EXTENDS Naturals, FiniteSets, Sequences, SequencesExt

CONSTANTS Artifacts, LayersOf,        \* LayersOf[a]: the layers in the order they are packed
          DataLayers, Size, PathOf,   \* of a layer
          Tags, Clients,
          MaxRetries,                 \* of a layer; 3 in the code
          MaxFaults, MaxPushes        \* bounds: calls of the registry that fail; pushes

\* An artifact has one layer for a path (PushedOnce of MCAlgorithms).
ASSUME RegistryAssumption ==
    /\ Size \in [DOMAIN Size -> Nat]
    /\ LayersOf \in [Artifacts -> Seq(DOMAIN Size)]
    /\ \A a \in Artifacts : \A l, m \in Range(LayersOf[a]) : PathOf[l] = PathOf[m] => l = m
    /\ "none" \notin Artifacts \cup DOMAIN Size
    /\ {MaxRetries, MaxFaults, MaxPushes} \subseteq Nat

VARIABLES blobs, manifests, tags,     \* the repository
          pushes,                     \* of each client
          pushed,                     \* pushes begun
          pull, progress,             \* the worker's pull; SnapshotProgress
          disk,                       \* the layer each path of the directory holds
          recorded, annotated,        \* the artifact of manifest.json, of annotations.json
          faults

repoVars == <<blobs, manifests, tags>>
pushVars == <<pushes, pushed>>
pullVars == <<pull, progress, disk, recorded, annotated>>
registryVars == <<repoVars, pushVars, pullVars, faults>>

None == "none"
Layers == UNION {Range(LayersOf[a]) : a \in Artifacts}
Paths == {PathOf[l] : l \in Layers}
NoPush == [at |-> "idle", artifact |-> None, tag |-> None, done |-> 0, attempt |-> 0,
           baseline |-> 0, bytes |-> 0]
NoPull == [at |-> "idle", ref |-> None, artifact |-> None, data |-> TRUE, todo |-> {},
           total |-> 0, completed |-> 0]

RegistryInit ==
    /\ blobs = {} /\ manifests = {} /\ tags = [t \in Tags |-> None]
    /\ pushes = [c \in Clients |-> NoPush] /\ pushed = 0
    /\ pull = NoPull /\ progress = [mode |-> "idle", percentage |-> 0]
    /\ disk = [p \in Paths |-> None] /\ recorded = None /\ annotated = None
    /\ faults = 0

Fault == faults < MaxFaults /\ faults' = faults + 1

-----------------------------------------------------------------------------
(* Push and PushCategory                                                   *)

\* The layers are packed and the manifest is tagged in the local store.
BeginPush(c, a, t) ==
    /\ pushes[c].at = "idle" /\ pushed < MaxPushes
    /\ pushed' = pushed + 1
    /\ pushes' = [pushes EXCEPT ![c] = [NoPush EXCEPT !.at = "layer", !.artifact = a, !.tag = t]]
    /\ UNCHANGED <<repoVars, pullVars, faults>>

\* The registry refuses the credentials, or there is nothing to push.
PushRefused(c) ==
    /\ pushes[c].at = "idle" /\ pushed < MaxPushes
    /\ pushed' = pushed + 1
    /\ UNCHANGED <<repoVars, pushes, pullVars, faults>>

Layer(c) == LayersOf[pushes[c].artifact][pushes[c].done + 1]
LayersLeft(c) == pushes[c].done < Len(LayersOf[pushes[c].artifact])

\* pushBlobWithRetry remembers the bytes of the layers before.
BeginLayer(c) ==
    /\ pushes[c].at = "layer" /\ LayersLeft(c)
    /\ pushes' = [pushes EXCEPT ![c].at = "attempt", ![c].attempt = 0,
                                ![c].baseline = pushes[c].bytes]
    /\ UNCHANGED <<repoVars, pushed, pullVars, faults>>

\* A retry forgets the bytes of the failed attempt.
Attempt(p) == [p EXCEPT !.at = "check",
                        !.bytes = IF p.attempt > 0 THEN p.baseline ELSE p.bytes]

BeginAttempt(c) ==
    /\ pushes[c].at = "attempt"
    /\ pushes' = [pushes EXCEPT ![c] = Attempt(pushes[c])]
    /\ UNCHANGED <<repoVars, pushed, pullVars, faults>>

LayerDone(c) == pushes' = [pushes EXCEPT ![c].at = "layer", ![c].done = @ + 1,
                                         ![c].bytes = pushes[c].baseline + Size[Layer(c)]]

\* The layer is there, pushed before or by another client.
LayerExists(c) ==
    /\ pushes[c].at = "check" /\ Layer(c) \in blobs
    /\ LayerDone(c)
    /\ UNCHANGED <<repoVars, pushed, pullVars, faults>>

\* A check that fails counts as a layer that is missing.
LayerMissing(c) ==
    /\ pushes[c].at = "check"
    /\ IF Layer(c) \in blobs THEN Fault ELSE UNCHANGED faults
    /\ pushes' = [pushes EXCEPT ![c].at = "upload"]
    /\ UNCHANGED <<repoVars, pushed, pullVars>>

Upload(c) ==
    /\ pushes[c].at = "upload"
    /\ blobs' = blobs \cup {Layer(c)}
    /\ pushes' = [pushes EXCEPT ![c].at = "layer", ![c].done = @ + 1,
                                ![c].bytes = @ + Size[Layer(c)]]
    /\ UNCHANGED <<manifests, tags, pushed, pullVars, faults>>

\* The registry answers that it has the layer by now.
UploadExists(c) ==
    /\ pushes[c].at = "upload" /\ Layer(c) \in blobs
    /\ LayerDone(c)
    /\ UNCHANGED <<repoVars, pushed, pullVars, faults>>

Retry(p, n) == IF p.attempt < MaxRetries
               THEN [p EXCEPT !.at = "attempt", !.attempt = @ + 1, !.bytes = @ + n]
               ELSE NoPush

\* The upload breaks off after n bytes, or its answer is lost.
UploadFails(c, n) ==
    /\ pushes[c].at = "upload" /\ Fault
    /\ \/ n < Size[Layer(c)] /\ UNCHANGED blobs
       \/ n = Size[Layer(c)] /\ blobs' = blobs \cup {Layer(c)}
    /\ pushes' = [pushes EXCEPT ![c] = Retry(pushes[c], n)]
    /\ UNCHANGED <<manifests, tags, pushed, pullVars>>

\* oras.Copy sends what the registry still lacks, the manifest last, and moves
\* the tag.
PushManifest(c) ==
    LET a == pushes[c].artifact IN
    /\ pushes[c].at = "layer" /\ ~LayersLeft(c)
    /\ blobs' = blobs \cup Range(LayersOf[a])
    /\ manifests' = manifests \cup {a}
    /\ tags' = [tags EXCEPT ![pushes[c].tag] = a]
    /\ pushes' = [pushes EXCEPT ![c] = NoPush]
    /\ UNCHANGED <<pushed, pullVars, faults>>

\* It fails before the manifest, or before the tag.
PushManifestFails(c) ==
    /\ pushes[c].at = "layer" /\ ~LayersLeft(c) /\ Fault
    /\ manifests' \in {manifests, manifests \cup {pushes[c].artifact}}
    /\ pushes' = [pushes EXCEPT ![c] = NoPush]
    /\ UNCHANGED <<blobs, tags, pushed, pullVars>>

-----------------------------------------------------------------------------
(* PullSelective, by a tag or by a digest                                  *)

BeginPull(ref, data) ==
    /\ pull.at \in {"idle", "pulled", "failed"}
    /\ pull' = [NoPull EXCEPT !.at = "resolve", !.ref = ref, !.data = data]
    /\ progress' = [mode |-> "restore", percentage |-> 0]
    /\ UNCHANGED <<repoVars, pushVars, disk, recorded, annotated, faults>>

CopyFails == /\ pull' = [pull EXCEPT !.at = "failed"]
             /\ progress' = [progress EXCEPT !.mode = "idle"]

Named(ref) == IF ref \in Tags THEN tags[ref] ELSE ref

Selected(a, data) == {l \in Range(LayersOf[a]) : data \/ l \notin DataLayers}

\* Once: from here on the artifact is known by its digest.  Its successors are
\* its selected layers and its empty configuration.
Resolve ==
    /\ pull.at = "resolve"
    /\ LET a == Named(pull.ref) IN
       IF a \in manifests
       THEN /\ pull' = [pull EXCEPT !.at = "copy", !.artifact = a, !.todo = Selected(a, pull.data),
                                    !.total = Cardinality(Selected(a, pull.data)) + 1]
            /\ UNCHANGED progress
       ELSE CopyFails
    /\ UNCHANGED <<repoVars, pushVars, disk, recorded, annotated, faults>>

\* PostCopy.
Copied == progress' = [progress EXCEPT !.percentage = (pull'.completed * 100) \div pull.total]

\* A directory is unpacked over what is there: files of an earlier version
\* stay beside those of the layer.
CopyLayer(l) ==
    /\ pull.at = "copy" /\ l \in pull.todo
    /\ disk' = [disk EXCEPT ![PathOf[l]] = l]
    /\ pull' = [pull EXCEPT !.todo = @ \ {l}, !.completed = @ + 1]
    /\ Copied
    /\ UNCHANGED <<repoVars, pushVars, recorded, annotated, faults>>

\* The configuration is a node as well ...
CopyConfig ==
    /\ pull.at = "copy" /\ pull.todo = {} /\ pull.completed < pull.total
    /\ pull' = [pull EXCEPT !.completed = @ + 1]
    /\ Copied
    /\ UNCHANGED <<repoVars, pushVars, disk, recorded, annotated, faults>>

\* ... and so is the manifest, which the total does not count.
CopyRoot ==
    /\ pull.at = "copy" /\ pull.completed = pull.total
    /\ pull' = [pull EXCEPT !.completed = @ + 1, !.at = "copied"]
    /\ Copied
    /\ UNCHANGED <<repoVars, pushVars, disk, recorded, annotated, faults>>

\* A layer cannot be read, written or given its mode.
CopyBreaks ==
    /\ pull.at = "copy" /\ Fault
    /\ CopyFails
    /\ UNCHANGED <<repoVars, pushVars, disk, recorded, annotated>>

CopyEnds ==
    /\ pull.at = "copied"
    /\ pull' = [pull EXCEPT !.at = "record"]
    /\ progress' = [mode |-> "idle", percentage |-> 100]
    /\ UNCHANGED <<repoVars, pushVars, disk, recorded, annotated, faults>>

\* Mutant: what the reference names by now is recorded.
RecordedByName == Named(pull.ref)

RecordedArtifact == pull.artifact

\* The manifest is fetched once more, by its digest.
WriteManifest ==
    /\ pull.at = "record"
    /\ recorded' = RecordedArtifact
    /\ pull' = [pull EXCEPT !.at = "annotate"]
    /\ UNCHANGED <<repoVars, pushVars, progress, disk, annotated, faults>>

WriteAnnotations ==
    /\ pull.at = "annotate"
    /\ annotated' = recorded
    /\ pull' = [pull EXCEPT !.at = "pulled"]
    /\ UNCHANGED <<repoVars, pushVars, progress, disk, recorded, faults>>

\* The manifest cannot be fetched or a file cannot be written.
RecordFails ==
    /\ pull.at \in {"record", "annotate"} /\ Fault
    /\ pull' = [pull EXCEPT !.at = "failed"]
    /\ UNCHANGED <<repoVars, pushVars, progress, disk, recorded, annotated>>

RegistryNext ==
    \/ \E c \in Clients :
        \/ \E a \in Artifacts, t \in Tags : BeginPush(c, a, t)
        \/ PushRefused(c) \/ BeginLayer(c) \/ BeginAttempt(c) \/ LayerExists(c) \/ LayerMissing(c)
        \/ Upload(c) \/ UploadExists(c)
        \/ pushes[c].at = "upload" /\ \E n \in 0 .. Size[Layer(c)] : UploadFails(c, n)
        \/ PushManifest(c) \/ PushManifestFails(c)
    \/ \E ref \in Tags \cup Artifacts, data \in BOOLEAN : BeginPull(ref, data)
    \/ Resolve \/ \E l \in pull.todo : CopyLayer(l)
    \/ CopyConfig \/ CopyRoot \/ CopyBreaks \/ CopyEnds
    \/ WriteManifest \/ WriteAnnotations \/ RecordFails

-----------------------------------------------------------------------------
RegistryTypeOK ==
    /\ blobs \subseteq Layers /\ manifests \subseteq Artifacts
    /\ tags \in [Tags -> Artifacts \cup {None}]
    /\ disk \in [Paths -> Layers \cup {None}]
    /\ {recorded, annotated} \subseteq Artifacts \cup {None}
    /\ progress.mode \in {"idle", "restore"} /\ pushed \in 0 .. MaxPushes

\* SizeOf(layers)[n]: of the first n.
SizeOf(layers) ==
    LET size[n \in 0 .. Len(layers)] == IF n = 0 THEN 0 ELSE size[n - 1] + Size[layers[n]] IN size

\* What a transfer reports is what it moved.  Between two layers a push has
\* counted each finished layer once, however many attempts it took and whoever
\* uploaded it, and the registry has them (oci.go:624-728); a pull that
\* succeeded leaves the selected layers of one artifact, the recorded one,
\* although the tag moved while it copied (oci.go:284-350).
TransferExact ==
    /\ \A c \in Clients : pushes[c].at = "layer" =>
          LET layers == LayersOf[pushes[c].artifact]
              finished == pushes[c].done
          IN /\ pushes[c].bytes = SizeOf(layers)[finished]
             /\ \A i \in 1 .. finished : layers[i] \in blobs
    /\ pull.at = "pulled" =>
          /\ recorded = pull.artifact /\ annotated = recorded /\ progress.mode = "idle"
          /\ \A l \in Selected(recorded, pull.data) : disk[PathOf[l]] = l
=============================================================================
