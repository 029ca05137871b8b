--------------------------- MODULE RegistryLayout ---------------------------
(***************************************************************************)
(* What an artifact in the registry is made of and how a file of it is     *)
(* found (registry/oci.go), and how a reference is read                    *)
(* (utils/artifact.go).  The transfer itself is RegistryTransfer, the      *)
(* chunks of the data DataChunks.                                          *)
(***************************************************************************)
EXTENDS Texts, FiniteSets, TLC

-----------------------------------------------------------------------------
(* References                                                              *)

NoRef == [kind |-> "", repo |-> <<>>, ref |-> <<>>]

\* repo@sha256:..., else repo:tag; the last mark counts, for the sake of a
\* registry's port.
ParseDigest(text) ==
    LET repo == BeforeLast(text, "@")
        digest == AfterLast(text, "@")
    IN  IF repo = <<>> \/ ~IsPrefix(<<"sha256", ":">>, digest) \/ Len(digest) <= 2 THEN NoRef
        ELSE [kind |-> "digest", repo |-> repo, ref |-> digest]
ParseTag(text) ==
    LET repo == BeforeLast(text, ":")
        tag == AfterLast(text, ":")
    IN  IF repo = <<>> \/ tag = <<>> THEN NoRef
        ELSE [kind |-> "tag", repo |-> repo, ref |-> tag]
ParseArtifactRef(s) ==
    LET text == Trim(s, {" "})
    IN  IF Contains(text, "@") THEN ParseDigest(text)
        ELSE IF Contains(text, ":") THEN ParseTag(text)
        ELSE NoRef

\* SplitArtifact, of `druid push`: a digest cannot be pushed to.
SplitArtifact(s) == IF ParseArtifactRef(s).kind = "tag" THEN ParseArtifactRef(s) ELSE NoRef

\* CanUpdateTag: the tag has moved since.
CanUpdateTag(current, tags, tag) == tag \in DOMAIN tags /\ tags[tag] # current

-----------------------------------------------------------------------------
(* FetchFile                                                               *)

\* The set of the descriptor that was found.
NotFound == {}

\* A graph is [below, paths, manifest]: the successors of a descriptor in
\* order, the paths it is annotated with, and whether it may have successors.
RECURSIVE FetchFrom(_, _, _, _)
FetchFrom(graph, queue, seen, path) ==
    IF queue = <<>> THEN NotFound
    ELSE LET successors == IF Head(queue) \in graph.manifest THEN graph.below[Head(queue)] ELSE <<>>
             matching == SelectSeq(successors, LAMBDA d : path \in graph.paths[d])
             Take(q, d) == IF d \in Range(q) \cup seen \/ d \notin graph.manifest THEN q ELSE Append(q, d)
         IN  IF matching # <<>> THEN {Head(matching)}
             ELSE LET next == FoldLeft(Take, Tail(queue), successors)
                  IN  FetchFrom(graph, next, seen \cup Range(next), path)
FetchFile(graph, start, path) == FetchFrom(graph, <<start>>, {start}, path)

-----------------------------------------------------------------------------
(* Push and PushCategory                                                   *)

ScrollFilesAndDirs == {"update", "scroll.yaml", "public", "private", "packet_handler",
                       "scroll-config.yml.scroll_template", ".meta"}

PushFails == [ok |-> FALSE, layers |-> {}]
Packed(kind, paths) == {[kind |-> kind, path |-> p] : p \in paths}

\* An entry is [name, directory, locale, empty], "locale" being whether the
\* name is like de-DE.md.  With the pattern only files of content are taken.
MetaNames(entries, pattern) ==
    {e.name : e \in {x \in entries : pattern => ~x.directory /\ x.locale /\ ~x.empty}}

\* createMetaDescriptors: the names below a directory, which must be there.
MetaLayers(there, entries, below, pattern) ==
    IF ~there \/ (pattern /\ MetaNames(entries, pattern) = {}) THEN PushFails
    ELSE [ok |-> TRUE, layers |-> Packed("meta", {below \o <<n>> : n \in MetaNames(entries, pattern)})]

\* A folder is [names, meta, data]: what it holds, the entries of .meta, and
\* the paths of its chunks of data.
PushLayers(folder, packMeta) ==
    LET files == ScrollFilesAndDirs \cap folder.names
        meta == IF packMeta THEN MetaLayers(".meta" \in folder.names, folder.meta, <<".meta">>, FALSE)
                ELSE [ok |-> TRUE, layers |-> {}]
    IN  IF files = {} \/ ~meta.ok THEN PushFails
        ELSE [ok |-> TRUE,
              layers |-> Packed("fs", {<<n>> : n \in files}) \cup meta.layers
                         \cup (IF "data" \in folder.names THEN Packed("data", folder.data) ELSE {})]

PushCategoryLayers(entries) == MetaLayers(TRUE, entries, <<>>, TRUE)

\* The manifest's annotations: the ones of the command line win.
ManifestAnnotations(file, overrides) ==
    [k \in DOMAIN file \cup DOMAIN overrides |-> IF k \in DOMAIN overrides THEN overrides[k] ELSE file[k]]

\* The manifest over the layers, as FetchFile sees it.
RootManifest == [kind |-> "root", path |-> <<>>]
PushedGraph(layers) ==
    [below |-> RootManifest :> SetToSeq(layers),
     paths |-> [d \in layers |-> {d.path}],
     manifest |-> {RootManifest}]
=============================================================================
