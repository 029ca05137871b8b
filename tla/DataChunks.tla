----------------------------- MODULE DataChunks -----------------------------
(***************************************************************************)
(* The data of a scroll, from its author to a running scroll: the chunks   *)
(* the data directory is cut into (internal/utils/fs.go), the layers Push  *)
(* makes of them (registry/oci.go), and the worker that installs, updates  *)
(* or restores them (adapters/cli/worker_pull.go).                         *)
(*                                                                         *)
(* A path is the sequence of its names; a name "*" is a pattern that       *)
(* matches any name.  A tree is the set of its files, and a name is always *)
(* a file or always a directory.                                           *)
(***************************************************************************)
EXTENDS FilePaths, Naturals, FiniteSets

CONSTANTS Files, FirstTree,   \* the files there may be; those of the first version
          Declarations,       \* "chunks" of a scroll.yaml: sequences of chunks, a chunk being
                              \* [path, absolute, skip, chunks]
          Links, LinkTarget,  \* files that may be symbolic links, and where they point
          MayBeEmpty          \* files that may have no content

\* A link leads to a file of the data, not to a directory or another link.
ASSUME DataAssumption ==
    /\ FirstTree \subseteq Files /\ Links \subseteq Files /\ MayBeEmpty \subseteq Files
    /\ LinkTarget \in [Links -> Files \ Links]

VARIABLES dataStep,
          author,             \* the author's next version: [tree, links, empty, chunks]
          artifact,           \* the version in the registry: [version, files, chunks]
          root,               \* of the running scroll: the version each file is from
          played              \* the data when the update began
dataVars == <<dataStep, author, artifact, root, played>>

-----------------------------------------------------------------------------
(* Paths                                                                   *)

\* The path a chunk names: from the top when absolute, else from its parent.
ResolveChunk(parent, chunk) == Clean(IF chunk.absolute THEN chunk.path ELSE parent \o chunk.path)

Entries(tree) == UNION {{SubSeq(f, 1, n) : n \in 1 .. Len(f)} : f \in tree}

\* What os.Stat finds: it follows links, and one that dangles is not there.
Followed(v, f) == IF f \in v.links THEN LinkTarget[f] ELSE f
FilesThere(v) == {f \in v.tree : Followed(v, f) \in v.tree}
Directories(v) == Entries(v.tree) \ v.tree

Exists(v, path) == path = <<>> \/ path \in Directories(v) \cup FilesThere(v)

HasGlob(path) == "*" \in Range(path)

Matches(tree, path) ==
    {e \in Entries(tree) : Len(e) = Len(path)
                        /\ \A i \in 1 .. Len(path) : path[i] \in {"*", e[i]}}

-----------------------------------------------------------------------------
(* AutoChunkDataDir                                                        *)

Chunked(paths) == [ok |-> TRUE, paths |-> paths]
ChunksRefused == [ok |-> FALSE, paths |-> <<>>]
Both(left, right) ==
    IF left.ok /\ right.ok THEN Chunked(left.paths \o right.paths) ELSE ChunksRefused

ChunkTops(tree, path) == IF HasGlob(path) THEN SetToSeq(Matches(tree, path)) ELSE <<path>>

\* The entries of the parent that no child begins with.
Remainder(tree, parent, children) ==
    {e \in Entries(tree) : /\ Len(e) = Len(parent) + 1 /\ Within(e, parent)
                           /\ ~\E c \in children : Within(c, e)}

\* expandParentRemainder: a directory that is missing leaves nothing, a file
\* or a child that is its parent is an error.
ParentRemainder(v, parent, children) ==
    IF \E f \in FilesThere(v) : Within(parent, f) THEN ChunksRefused
    ELSE IF parent \notin Directories(v) THEN Chunked(<<>>)
    ELSE IF parent \in children THEN ChunksRefused
    ELSE Chunked(SetToSeq(Remainder(v.tree, parent, children)))

RECURSIVE ExpandChunk(_, _, _)

ExpandAll(v, parent, chunks) ==
    FoldLeft(LAMBDA done, chunk : Both(done, ExpandChunk(v, parent, chunk)),
             Chunked(<<>>), chunks)

ExpandNested(v, top, chunk) ==
    LET children == ExpandAll(v, top, chunk.chunks) IN
    IF children.ok /\ \A c \in Range(children.paths) : Within(c, top)
    THEN Both(ParentRemainder(v, top, Range(children.paths)), children)
    ELSE ChunksRefused

ExpandChunk(v, parent, chunk) ==
    LET path == ResolveChunk(parent, chunk)
        tops == ChunkTops(v.tree, path)
    IN IF chunk.path = <<>> \/ path = <<>> \/ Escapes(path) THEN ChunksRefused
       ELSE IF chunk.chunks = <<>> THEN Chunked(tops)
       ELSE FoldLeft(LAMBDA done, top : Both(done, ExpandNested(v, top, chunk)),
                     Chunked(<<>>), tops)

Overlapping(paths) ==
    \E i, j \in DOMAIN paths : i # j /\ Within(paths[j], paths[i])

\* A link of one chunk into another.
CrossLinked(paths, links) ==
    \E i, j \in DOMAIN paths, l \in links :
        paths[i] # paths[j] /\ Within(l, paths[i]) /\ Within(LinkTarget[l], paths[j])

\* The walk through a chunk cannot start below a file.
BelowFile(paths, v) ==
    \E p \in Range(paths), f \in FilesThere(v) : Within(p, f) /\ p # f

ExplicitChunks(v) ==
    LET expanded == ExpandAll(v, <<>>, v.chunks) IN
    IF expanded.ok /\ ~Overlapping(expanded.paths)
        /\ ~BelowFile(expanded.paths, v) /\ ~CrossLinked(expanded.paths, v.links)
    THEN expanded ELSE ChunksRefused

AutoChunks(v) ==
    IF v.links # {} THEN Chunked(<< <<>> >>)
    ELSE Chunked(SetToSeq({e \in Entries(v.tree) : Len(e) = 1}))

DataDirChunks(v) == IF v.chunks = <<>> THEN AutoChunks(v) ELSE ExplicitChunks(v)

\* The chunks Push makes a layer of: those that are there and not an empty
\* file, links followed.
DataLayerPaths(v) ==
    {p \in Range(DataDirChunks(v).paths) : Exists(v, p) /\ Followed(v, p) \notin v.empty}

PackedFiles(v) == {f \in v.tree : \E p \in DataLayerPaths(v) : Within(f, p)}

-----------------------------------------------------------------------------
(* The worker                                                              *)

RECURSIVE SkipPaths(_, _)

\* collectSkipUpdatePaths joins the paths as they are declared.
SkipPaths(parent, chunks) ==
    UNION {LET path == Clean(parent \o c.path) IN
           (IF c.skip THEN {path} ELSE {}) \cup SkipPaths(path, c.chunks) : c \in Range(chunks)}

\* Mutant: only the chunk's own path is skipped, not what lies below it.
SkippedByUpdate_Exact(file, skip) == file \in skip

SkippedByUpdate(file, skip) == \E path \in skip : Within(file, path)

-----------------------------------------------------------------------------
FirstVersion == [version |-> "v1", files |-> FirstTree, chunks |-> <<>>]

AuthorVersions ==
    [tree : SUBSET Files, links : SUBSET Links, empty : SUBSET MayBeEmpty, chunks : Declarations]

DataInit ==
    /\ dataStep = "created"
    /\ author \in {v \in AuthorVersions : /\ v.links \subseteq v.tree /\ v.empty \subseteq v.tree
                                          /\ v.links \cap v.empty = {}}
    /\ artifact = FirstVersion
    /\ root = [f \in Files |-> "none"]
    /\ played = root

\* pullWorkerCreate empties the root and pulls.
InstallData ==
    /\ dataStep = "created"
    /\ dataStep' = "running"
    /\ root' = [f \in Files |-> IF f \in artifact.files THEN artifact.version ELSE "none"]
    /\ UNCHANGED <<author, artifact, played>>

\* The running scroll writes one of its files.
Play(f) ==
    /\ dataStep = "running" /\ \A g \in Files : root[g] # "own"
    /\ root' = [root EXCEPT ![f] = "own"]
    /\ UNCHANGED <<dataStep, author, artifact, played>>

PublishData ==
    /\ dataStep = "running" /\ artifact.version = "v1" /\ DataDirChunks(author).ok
    /\ artifact' = [version |-> "v2", files |-> PackedFiles(author), chunks |-> author.chunks]
    /\ UNCHANGED <<dataStep, author, root, played>>

Installed(files) ==
    [f \in Files |-> IF f \in files /\ ~SkippedByUpdate(f, SkipPaths(<<>>, artifact.chunks))
                     THEN artifact.version ELSE root[f]]

\* pullWorkerUpdate copies over the root what it pulled next to it.
UpdateData ==
    /\ dataStep = "running" /\ artifact.version = "v2"
    /\ dataStep' = "updated"
    /\ played' = root /\ root' = Installed(artifact.files)
    /\ UNCHANGED <<author, artifact>>

\* It stops at a file it cannot write.
UpdateDataBreaks ==
    /\ dataStep = "running" /\ artifact.version = "v2"
    /\ \E done \in SUBSET artifact.files : root' = Installed(done)
    /\ dataStep' = "broken" /\ played' = root
    /\ UNCHANGED <<author, artifact>>

\* pullWorkerRestore empties the root first.
RestoreData ==
    /\ dataStep \in {"running", "updated", "broken"}
    /\ dataStep' = "restored"
    /\ root' = [f \in Files |-> IF f \in artifact.files THEN artifact.version ELSE "none"]
    /\ UNCHANGED <<author, artifact, played>>

DataNext ==
    \/ InstallData \/ \E f \in Files : Play(f)
    \/ PublishData \/ UpdateData \/ UpdateDataBreaks \/ RestoreData

-----------------------------------------------------------------------------
(* What the author declared, read without the code's two ways of resolving *)
(* paths                                                                   *)

RECURSIVE Declared(_, _)

\* The chunks with their places, outermost first: [top, skip, children].
Declared(parents, chunks) ==
    UNION {LET path == ResolveChunk(p, c)
               tops == Range(ChunkTops(author.tree, path))
           IN {[top |-> t, skip |-> c.skip,
                children |-> {d.top : d \in Declared({t}, c.chunks)}] : t \in tops}
              \cup Declared(tops, c.chunks) : p \in parents, c \in Range(chunks)}

Places == Declared({<<>>}, author.chunks)

\* A file beside a child that lies deeper than one level below its parent: the
\* remainder leaves out the whole entry the child is in.
BesideChild(f) ==
    \E d \in Places : \E c \in d.children :
        /\ Len(c) > Len(d.top) + 1 /\ Within(f, SubSeq(c, 1, Len(d.top) + 1))
        /\ ~\E e \in d.children : Within(f, e)

\* A file that is a chunk of its own is not packed if it is empty, or is a
\* link to an empty file or to none; nor is such a link with chunks below it.
SkippedChunk(f) ==
    \/ f \in Range(DataDirChunks(author).paths) /\ Followed(author, f) \in author.empty
    \/ /\ f \in Range(DataDirChunks(author).paths) \cup {d.top : d \in Places}
       /\ Followed(author, f) \notin author.tree

Meant(f) == /\ f \in author.tree
            /\ author.chunks = <<>> \/ \E d \in Places : Within(f, d.top)
            /\ ~BesideChild(f) /\ ~SkippedChunk(f)

\* A path of a skip_update chunk, or of a chunk around one, is a plain name.
RECURSIVE PlainChunks(_)
PlainChunks(chunks) == \A c \in Range(chunks) : ~c.absolute /\ ~HasGlob(c.path) /\ PlainChunks(c.chunks)
HasSkip(c) == SkipPaths(<<>>, <<c>>) # {}
SkipsPlainly == \A c \in Range(author.chunks) : HasSkip(c) => PlainChunks(<<c>>)

Protected(f) == \E d \in Places : d.skip /\ Within(f, d.top)

\* An update brings every file the author declared, once, and leaves alone
\* what a chunk with skip_update covers and what the artifact does not have:
\* chunks never share a file, nested chunks and the rest of their parents
\* together have every file, and the worker, which resolves the paths of
\* scroll.yaml in its own way, protects the same files (fs.go:170-347,
\* worker_pull.go:190-272).  The exceptions are named above.
UpdateExact ==
    /\ artifact.version = "v2" =>
          \A f \in Files :
             Cardinality({i \in DOMAIN DataDirChunks(author).paths :
                            Within(f, DataDirChunks(author).paths[i])}) <= 1
    /\ dataStep = "updated" /\ SkipsPlainly =>
          \A f \in Files :
             root[f] = IF Meant(f) /\ ~Protected(f) THEN "v2" ELSE played[f]
    /\ dataStep = "broken" /\ SkipsPlainly =>
          \A f \in Files : root[f] # played[f] => Meant(f) /\ ~Protected(f)
=============================================================================
