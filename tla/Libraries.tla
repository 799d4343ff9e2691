------------------------------- MODULE Libraries -------------------------------
(***************************************************************************)
(* The libraries of a version of the game (instance/src/                   *)
(* version_metadata.rs, overrides.rs, instance_metadata.rs): on which      *)
(* platform one applies, which files stand for it, and from where they     *)
(* come - for the builder, which mirrors them for every platform, and for  *)
(* a launcher, which looks up those of its own.                            *)
(*                                                                         *)
(* A library is a record:                                                  *)
(*   name, version, group   its coordinates, the classifier in the name    *)
(*   rules        a set of rules, or Unruled                               *)
(*   listed       it has "downloads": then `artifact` tells of a jar, and  *)
(*                `classifiers` are the natives that may be downloaded;    *)
(*                without them its jar is found from its name              *)
(*   natives      from an operating system's key to a classifier           *)
(*   source       where its files come from: Upstream, Hosted on the       *)
(*                download server, or Nowhere (no URL, or an empty one)    *)
(*   hashed       hash and size of the jar are known                       *)
(* A version is [id, libraries, client, index, java].                      *)
(***************************************************************************)
EXTENDS Integers, Sequences, FiniteSets, FiniteSetsExt, SequencesExt

CONSTANTS
    Platform,      \* where launchers run: [os, arch]
    All,           \* every one of them: the target of the builder
    Anything,         \* a name or an architecture a rule does not give
    Unruled,       \* a library without rules
    NoIndex,       \* a version without assets
    Patches,       \* mojang-library-patches.json: [match, override, additional]
    LwjglGroups,   \* the groups of LWJGL
    LwjglOf        \* its libraries by the versions that are given others

Upstream == "upstream"
Hosted   == "hosted"
Nowhere  == "nowhere"

-----------------------------------------------------------------------------
(***************************************************************************)
(* Rules.                                                                  *)
(***************************************************************************)

\* Os::matches_os: a name is that of a system, or of a system and an architecture.
MatchesOs(rule, p) ==
    /\ rule.arch \in {Anything, p.arch}
    /\ rule.name # Anything => rule.name.os = p.os /\ rule.name.arch \in {Anything, p.arch}

\* Rule::allowed_on_os: the one feature there is is the custom resolution.
Speaks(rule, p) ==
    /\ MatchesOs(rule, p)
    /\ \A f \in DOMAIN rule.features : rule.features[f] <=> (f = "has_custom_resolution")

RulesApply(rules, p) ==
    /\ \E r \in rules : r.allow /\ Speaks(r, p)
    /\ \A r \in rules : Speaks(r, p) => r.allow

AppliesTo(l, p) == l.rules = Unruled \/ RulesApply(l.rules, p)

-----------------------------------------------------------------------------
(***************************************************************************)
(* The files of a library.                                                 *)
(***************************************************************************)
LibraryPath(l)   == <<"library", l.name, l.version>>
NativePath(l, c) == <<"native", l.name, l.version, c>>
ClientPath(id)   == <<"client", id>>
IndexPath(id)    == <<"index", id>>
ObjectPath(hash) == <<"object", hash>>

HasArtifact(l) == l.listed => l.artifact

\* get_arch_os_name
Key(p) == IF p.arch \in {"arm32", "arm64"} THEN <<p.os, p.arch>> ELSE <<p.os>>

\* The native of a platform, in a set of at most one; those of all platforms.
NativesFor(l, target) ==
    LET Keys == IF target = All THEN DOMAIN l.natives ELSE {Key(target)} \cap DOMAIN l.natives
    IN  {l.natives[k] : k \in Keys} \cap (IF l.listed THEN l.classifiers ELSE {})

NativePathsFor(l, target) == {NativePath(l, c) : c \in NativesFor(l, target)}

\* Library::get_check_tasks.  It fails for a library that is not listed and has no URL.
FilesOf(l, target) ==
    (IF HasArtifact(l) THEN {LibraryPath(l)} ELSE {}) \cup NativePathsFor(l, target)

Broken(l) == ~l.listed /\ l.source = Nowhere

\* A check task: a file, and where to download it from.
Task(path, source) == [path |-> path, from |-> <<source, path>>]
LibraryTasks(l, target) == {Task(path, l.source) : path \in FilesOf(l, target)}

-----------------------------------------------------------------------------
(***************************************************************************)
(* What the generator makes of the libraries of a version.                 *)
(***************************************************************************)

\* with_mojang_patches: the fields a patch gives replace those of the library; those
\* it adds come before it.
Patching(l) == SelectSeq(Patches, LAMBDA q : <<l.name, l.version>> \in q.match)
Patch(l, q) == [f \in DOMAIN l |-> IF f \in DOMAIN q.override THEN q.override[f] ELSE l[f]]

WithMojangPatches(libraries) ==
    LET Added(l)   == FoldLeft(LAMBDA s, q : s \o q.additional, <<>>, Patching(l))
        Patched(l) == FoldLeft(Patch, l, Patching(l))
    IN  FoldLeft(LAMBDA s, l : s \o Added(l) \o <<Patched(l)>>, <<>>, libraries)

WithOverrides(libraries, id) ==
    IF id \in DOMAIN LwjglOf
    THEN SelectSeq(WithMojangPatches(libraries), LAMBDA l : l.group \notin LwjglGroups)
             \o LwjglOf[id]
    ELSE WithMojangPatches(libraries)

\* with_replaced_download_urls: every library is listed, under an address of the
\* download server.  One without hash or size is downloaded there and then.
Replaced(l) ==
    [name |-> l.name, version |-> l.version, group |-> l.group, rules |-> l.rules,
     natives |-> l.natives, listed |-> TRUE, source |-> Hosted, hashed |-> TRUE,
     artifact    |-> IF l.listed THEN l.artifact ELSE l.source # Nowhere,
     classifiers |-> IF l.listed THEN l.classifiers ELSE {}]

Unhashed(l) == ~l.listed /\ l.source # Nowhere /\ ~l.hashed

\* get_extra_forge_libs: the jars the installer of the loader made, without its tools
\* and what the versions name.  [library, jar, tool]
ExtraForgeLibs(made, versions) ==
    LET Named == UNION {{<<l.name, l.version>> : l \in ToSet(versions[n].libraries)} :
                            n \in DOMAIN versions}
    IN  {Replaced(e.library) :
            e \in {e \in made : e.jar /\ ~e.tool /\ <<e.library.name, e.library.version>> \notin Named}}

-----------------------------------------------------------------------------
(***************************************************************************)
(* What a launcher makes of the versions of an instance.                   *)
(***************************************************************************)
Parent(meta) == Head(meta.versions)
Child(meta)  == Last(meta.versions)

LibrariesOf(meta, k) ==
    LET v == meta.versions[k]
    IN  IF meta.overridden THEN v.libraries ELSE WithOverrides(v.libraries, v.id)

\* get_libraries_with_overrides: the libraries of a child come before its parent's; of
\* those of one name that apply, those of the version of the first.
EffectiveLibraries(meta, p) ==
    LET At(x)        == LibrariesOf(meta, x[1])[x[2]]
        Before(x, y) == x[1] > y[1] \/ (x[1] = y[1] /\ x[2] < y[2])
        Applying     == {x \in UNION {{k} \X DOMAIN LibrariesOf(meta, k) : k \in DOMAIN meta.versions} :
                            AppliesTo(At(x), p)}
        Namesakes(x) == {y \in Applying : At(y).name = At(x).name}
        First(x)     == CHOOSE y \in Namesakes(x) : \A z \in Namesakes(x) : ~Before(z, y)
    IN  {At(x) : x \in {x \in Applying : At(x).version = At(First(x)).version}}

\* Mutant of ClientTask: where the parent's belongs.
ClientTaskOfParent(meta) == Task(ClientPath(Parent(meta).id), Parent(meta).source)

\* get_client_check_task: the client of the parent, put where the child's belongs.
ClientTask(meta) ==
    [path |-> ClientPath(Child(meta).id), from |-> <<Parent(meta).source, ClientPath(Parent(meta).id)>>]

\* get_library_check_tasks
LibraryCheckTasks(meta, p) ==
    (UNION {LibraryTasks(l, p) : l \in EffectiveLibraries(meta, p) \cup meta.extras})
        \cup LibraryTasks(meta.authlib, All)

\* get_classpath_paths, get_native_library_paths
ClasspathPaths(meta, p) ==
    {LibraryPath(l) : l \in {l \in EffectiveLibraries(meta, p) : HasArtifact(l)}}
        \cup {ClientPath(Child(meta).id)}

NativeLibraryPaths(meta, p) == UNION {NativePathsFor(l, p) : l \in EffectiveLibraries(meta, p)}

\* get_asset_check_tasks: once the index of a version is there, the objects it names.
Indices(meta)          == {v.index : v \in ToSet(meta.versions)} \ {NoIndex}
ObjectTasks(objects, source) == {Task(ObjectPath(o), source) : o \in objects}
================================================================================
