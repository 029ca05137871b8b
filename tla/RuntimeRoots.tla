---------------------------- MODULE RuntimeRoots ----------------------------
(***************************************************************************)
(* From the name a user asks for to what the backends call the scroll's    *)
(* root, mounts, containers and cluster objects: the scroll's id           *)
(* (core/services/runtime_scroll_manager.go), the Docker backend's names   *)
(* and roots (docker/storage.go, names.go, spec.go) and the Kubernetes     *)
(* backend's (kubernetes/names.go).  Every scroll of a daemon shares one   *)
(* engine or one namespace, so what is called the same IS the same.        *)
(*                                                                         *)
(* A name is a sequence of marks and words; "A" is the capital of "a".     *)
(* A directory is a path of which each element is a name or a word.  Names *)
(* stay below the 50 characters from which dnsLabel hashes them.           *)
(***************************************************************************)
EXTENDS FilePaths, Texts

Letters == {"a", "b", "druid", "data"}
Capitals == {"A"}
Digits == {"0", "1"}
Blanks == {" "}

LowerCase(name) ==
    [i \in DOMAIN name |-> IF name[i] \in Capitals THEN "a" ELSE name[i]]

-----------------------------------------------------------------------------
(* The scroll's id                                                         *)

IdMarks == {"_", ".", "-"}

\* The last part of an artifact or a name, in small letters.
RuntimeScrollIDFromName(name) ==
    LET base == BeforeFirst(BeforeFirst(AfterLast(Trim(name, Blanks), "/"), "@"), ":")
    IN  Trim(Dashed(LowerCase(base), Letters \cup Digits \cup IdMarks), IdMarks)

\* What was asked for, else the scroll's own name; none is an error.
RuntimeScrollID(requested, scrollName) ==
    LET id == RuntimeScrollIDFromName(requested)
    IN  IF id # <<>> THEN id ELSE RuntimeScrollIDFromName(scrollName)

-----------------------------------------------------------------------------
(* Docker                                                                  *)

Sanitized(name) == Trim(Dashed(name, Letters \cup Capitals \cup Digits \cup IdMarks), IdMarks)

\* RuntimeRootRef with the default volume prefix and a bind root.
DockerRoot(storage, bindRoot, id) ==
    [kind |-> storage,
     source |-> IF storage = "volume"
                THEN <<Sanitized(<<"druid", "-">> \o Sanitized(id) \o <<"-", "data">>)>>
                ELSE bindRoot \o <<Sanitized(id)>>]

\* What container names call the scroll.
DockerRuntimeID(root) ==
    LET name == Last(root.source)
    IN  IF root.kind = "bind" THEN WithoutSuffix(name, <<"-", "data">>)
        ELSE IF IsPrefix(<<"druid", "-">>, name) /\ IsSuffix(<<"-", "data">>, name)
        THEN WithoutSuffix(WithoutPrefix(name, <<"druid", "-">>), <<"-", "data">>)
        ELSE name

\* ContainerName of procedureResourceName.
DockerContainer(root, command, index) ==
    Sanitized(DockerRuntimeID(root) \o <<"-">> \o command \o <<"-", index>>)

\* procedureDataSubPath: what is not under data is put there, but for the
\* root itself.
DataSubPath(sub) ==
    LET clean == Clean(sub)
    IN  IF sub = <<>> THEN <<"data">>
        ELSE IF clean = <<>> THEN <<".">>
        ELSE IF Head(clean) = "data" THEN clean
        ELSE Clean(<<"data">> \o clean)

\* DockerMount after cleanRootSubPath: the directory of the host, or of the
\* volume; the error is a path that leaves the root.
DockerMountable(sub) == sub \in {<<>>, <<".">>} \/ (Clean(sub) # <<>> /\ ~Escapes(Clean(sub)))
DockerMount(root, sub) ==
    IF sub \in {<<>>, <<".">>} THEN root.source ELSE root.source \o Clean(sub)

-----------------------------------------------------------------------------
(* Kubernetes                                                              *)

\* dnsLabel of a name that is short enough and has a letter or a digit.
DnsLabel(name) == Trim(Dashed(LowerCase(Trim(name, Blanks)), Letters \cup Digits \cup {"-"}), {"-"})

ObjectName(name) ==
    LET label == DnsLabel(name)
    IN  IF Head(label) \in Letters THEN label ELSE <<"d", "-">> \o label

DataPVCName(id) == DnsLabel(<<"druid", "-">> \o id \o <<"-", "data">>)

\* What object names call the scroll: the first part of its id.
KubernetesRuntimeID(pvc) ==
    BeforeFirst(IF IsPrefix(<<"druid", "-">>, pvc) /\ IsSuffix(<<"-", "data">>, pvc)
                THEN WithoutSuffix(WithoutPrefix(pvc, <<"druid", "-">>), <<"-", "data">>)
                ELSE pvc, "-")

\* procedureResourceName.
KubernetesWorkload(pvc, command, index) ==
    ObjectName(KubernetesRuntimeID(pvc) \o <<"-">> \o command \o <<"-", index>>)

\* mountSubPath.
KubernetesSubPath(sub) ==
    LET clean == Clean(sub)
    IN  IF sub = <<>> THEN <<"data">>
        ELSE IF clean = <<>> \/ Head(clean) = "data" THEN clean
        ELSE Clean(<<"data">> \o clean)
=============================================================================
