------------------------------ MODULE Publishing ------------------------------
(***************************************************************************)
(* The instance builder (instance-builder/src/spec.rs, java_mirror.rs,     *)
(* generate/src/instance.rs) and the directory it builds into, which a web *)
(* server serves to the launchers all the while.                           *)
(*                                                                         *)
(* A build computes the metadata of every instance of its spec, downloads  *)
(* and copies what they name, mirrors Java, then saves the metadata, then  *)
(* the manifest, and last deletes all the files it does not name.  It may  *)
(* die at any moment; the next one begins anew, in the directory it left.  *)
(* A file that is replaced is removed, and then another renamed to it      *)
(* (atomic_replace_file): in between it is not served, nor is it once a    *)
(* build has died there, until another puts it back.                       *)
(*                                                                         *)
(* Simplifications.  The contents behind a path do not change, those of an *)
(* asset index and of a metadata file excepted.  The ids of a spec are     *)
(* distinct.  What the loaders' installers do is given with a spec: the    *)
(* versions, and the libraries they made.  Files come and go one by one,   *)
(* in an order of their own; downloads are made at the same time.          *)
(***************************************************************************)
EXTENDS Libraries

CONSTANTS
    Specs,         \* the specs the builder is run with
    Id,            \* the ids of their instances
    IndexId,       \* the ids of asset indices
    Authlib,       \* the library of the authlib injector
    MirrorTarget,  \* MIRROR_PLATFORM_TARGETS: platforms Java is mirrored for
    Package,       \* <<version, platform>>: the packages Azul has
    None,
    MaxBuilds      \* bound: builds

\* The instances of the specs.
InstanceSpec == UNION {ToSet(spec.instances) : spec \in Specs}

\* What the libraries of a version become on every platform (with_overrides).
Overridden(v) ==
    [id |-> v.id, libraries |-> WithOverrides(v.libraries, v.id), client |-> v.client,
     index |-> v.index, java |-> v.java, source |-> v.source]

Libraries(instance) ==
    UNION {ToSet(Overridden(v).libraries) : v \in ToSet(instance.versions)}

\* A version names what upstream has, and what an installer made has no natives.
ASSUME SpecsAssumption ==
    /\ \A spec \in Specs : spec.instances \in Seq(InstanceSpec) /\ spec.mirror \in BOOLEAN
    /\ \A i \in InstanceSpec :
          /\ i.id \in Id
          /\ i.versions # <<>> /\ i.versions \in Seq(ToSet(i.versions))
          /\ \A v \in ToSet(i.versions) : v.source # Hosted /\ v.client \in BOOLEAN
          /\ \A l \in Libraries(i) : l.source # Hosted
          /\ \A e \in i.made : e.library.classifiers = {}

\* An index that is named is one of those there are, and the versions of an instance
\* mean the same by its id.
ASSUME IndexAssumption ==
    \A i \in InstanceSpec : \A v \in ToSet(i.versions) : v.index # NoIndex =>
        /\ v.index.id \in IndexId
        /\ \A w \in ToSet(i.versions) :
              w.index # NoIndex /\ w.index.id = v.index.id => w.index = v.index

\* DEFAULT_AUTHLIB_INJECTOR_LIBRARY: a jar, at an address.
ASSUME AuthlibAssumption == Authlib.source # Hosted /\ Authlib.listed /\ Authlib.artifact

ASSUME BoundAssumption == MaxBuilds \in Nat

VARIABLES
    served,     \* the paths of the files in the directory
    away,       \* history: the files removed to be replaced that are not back
    metas,      \* what the metadata files say
    indices,    \* the objects the asset indices name
    torn,       \* the archives of Java that are cut short
    manifest,   \* instance_manifest.json: the metadata of each listed instance, by its hash
    build,      \* the build under way, or Idle
    builds      \* how many are left

serverVars == <<served, away, metas, indices, torn, manifest, build, builds>>

Idle == [step |-> "idle"]

ManifestPath     == <<"manifest">>
MetaPath(id)     == <<"meta", id>>
FilePath(id, f)  == <<"file", id, f>>
JavaPath(v, p)   == <<"java", v, p>>

PublishingInit ==
    /\ served = {} /\ away = {} /\ torn = {}
    /\ metas = [id \in Id |-> None] /\ indices = [i \in IndexId |-> {}]
    /\ manifest = [id \in Id |-> None]
    /\ build = Idle /\ builds = MaxBuilds

-----------------------------------------------------------------------------
(***************************************************************************)
(* What an instance becomes (InstanceGenerator::generate).                 *)
(***************************************************************************)
ReplacedVersion(v) ==
    [id |-> v.id, libraries |-> [n \in DOMAIN v.libraries |-> Replaced(v.libraries[n])],
     client |-> v.client, index |-> v.index, java |-> v.java, source |-> Hosted]

Generated(instance, mirror) ==
    [id |-> instance.id,
     versions |-> [n \in DOMAIN instance.versions |->
                      IF mirror THEN ReplacedVersion(Overridden(instance.versions[n]))
                                ELSE Overridden(instance.versions[n])],
     extras |-> ExtraForgeLibs(instance.made, instance.versions),
     files |-> instance.files, always |-> instance.always,
     objects |-> IF mirror THEN Hosted ELSE Upstream,
     authlib |-> Authlib, runtimes |-> {}, overridden |-> TRUE]

\* VersionMetadata::get_check_tasks, for all platforms: the client, the objects of the
\* index and the libraries, those that apply nowhere among them.
VersionTasks(v) ==
    (IF v.client THEN {Task(ClientPath(v.id), v.source)} ELSE {})
        \cup (IF v.index = NoIndex THEN {} ELSE ObjectTasks(v.index.objects, Upstream))
        \cup UNION {LibraryTasks(l, All) : l \in ToSet(v.libraries)}

\* The tasks of an instance: the authlib injector's always.
CheckTasks(instance, mirror) ==
    (IF mirror THEN UNION {VersionTasks(Overridden(v)) : v \in ToSet(instance.versions)} ELSE {})
        \cup LibraryTasks(Authlib, All)

\* The copy tasks: all that the installer made, the files of the rules and the mods.
CopyPaths(instance) ==
    {LibraryPath(e.library) : e \in instance.made}
        \cup {FilePath(instance.id, f) : f \in instance.files}

\* Downloaded at once, since what they say is needed: asset indices, for the objects
\* they name, and libraries whose hash nobody gives.
FetchedIndices(instance, mirror) ==
    IF mirror THEN {v.index : v \in ToSet(instance.versions)} \ {NoIndex} ELSE {}
FetchedLibraries(instance, mirror) ==
    IF mirror THEN {LibraryPath(l) : l \in {l \in Libraries(instance) : Unhashed(l)}} ELSE {}

-----------------------------------------------------------------------------
(***************************************************************************)
(* A build (Spec::generate).                                               *)
(***************************************************************************)
StartBuild(spec) ==
    /\ build = Idle /\ builds > 0
    /\ builds' = builds - 1
    /\ build' = [step |-> "generate", spec |-> spec, done |-> <<>>,
                 tasks |-> {}, copies |-> {}, others |-> {}, saved |-> 0]
    /\ UNCHANGED <<served, away, metas, indices, torn, manifest>>

\* atomic_replace_file: what is there is removed, and what was written beside it
\* renamed.
Withdraw(path) == path \in served /\ served' = served \ {path} /\ away' = away \cup {path}
Put(path) == path \notin served /\ served' = served \cup {path} /\ away' = away \ {path}

\* The next instance.
NextInstance == build.spec.instances[Len(build.done) + 1]
Indexed == FetchedIndices(NextInstance, build.spec.mirror)
Generating == build.step = "generate" /\ Len(build.done) < Len(build.spec.instances)

\* read_or_download: an index that is not what the version says is replaced.
WithdrawIndex ==
    /\ Generating
    /\ \E i \in Indexed : indices[i.id] # i.objects /\ Withdraw(IndexPath(i.id))
    /\ UNCHANGED <<metas, indices, torn, manifest, build, builds>>

PutIndex ==
    /\ Generating
    /\ \E i \in Indexed : /\ Put(IndexPath(i.id))
                         /\ indices' = [indices EXCEPT ![i.id] = i.objects]
    /\ UNCHANGED <<metas, torn, manifest, build, builds>>

\* other_generated_files: the indices and the metadata file.
Generate ==
    /\ Generating
    /\ \A i \in Indexed : IndexPath(i.id) \in served /\ indices[i.id] = i.objects
    /\ LET instance == NextInstance
           mirror   == build.spec.mirror
       IN  /\ mirror => \A l \in Libraries(instance) : ~Broken(l)
           /\ served' = served \cup FetchedLibraries(instance, mirror)
           /\ build' = [build EXCEPT
                           !.done   = Append(@, Generated(instance, mirror)),
                           !.tasks  = @ \cup CheckTasks(instance, mirror),
                           !.copies = @ \cup CopyPaths(instance),
                           !.others = @ \cup {IndexPath(i.id) : i \in Indexed}
                                          \cup {MetaPath(instance.id)}]
    /\ UNCHANGED <<away, metas, indices, torn, manifest, builds>>

Step(from, to) == build.step = from /\ build' = [build EXCEPT !.step = to]

\* All are generated.
Collected ==
    /\ Step("generate", "download")
    /\ Len(build.done) = Len(build.spec.instances)
    /\ UNCHANGED <<served, away, metas, indices, torn, manifest, builds>>

\* A set of files is gone through one by one.
Some(set) == CHOOSE path \in set : TRUE

\* get_download_tasks and download_files: what is there is not downloaded again, and what
\* has no address fails.
Missing == {t \in build.tasks : t.path \notin served}

Download ==
    /\ build.step = "download" /\ Missing # {}
    /\ Some(Missing).from[1] # Nowhere
    /\ served' = served \cup {Some(Missing).path}
    /\ UNCHANGED <<away, metas, indices, torn, manifest, build, builds>>

Downloaded ==
    /\ Step("download", "copy")
    /\ Missing = {}
    /\ UNCHANGED <<served, away, metas, indices, torn, manifest, builds>>

Copy ==
    /\ build.step = "copy" /\ ~(build.copies \subseteq served)
    /\ served' = served \cup {Some(build.copies \ served)}
    /\ UNCHANGED <<away, metas, indices, torn, manifest, build, builds>>

\* The injector must be there: mirror_authlib_injector_library hashes it.
Copied ==
    /\ Step("copy", "java")
    /\ build.copies \subseteq served /\ LibraryPath(Authlib) \in served
    /\ UNCHANGED <<served, away, metas, indices, torn, manifest, builds>>

\* mirror_java_runtimes: the archives of the versions the instances need.
JavaOf(meta) == Parent(meta).java
MirroredFor(meta) == {p \in MirrorTarget : <<JavaOf(meta), p>> \in Package}

Archives ==
    IF build.spec.mirror
    THEN UNION {{JavaPath(JavaOf(m), p) : p \in MirroredFor(m)} : m \in ToSet(build.done)}
    ELSE {}

\* An archive is written in place, and whatever the server answers is one.
MirrorJava(whole) ==
    /\ build.step = "java" /\ ~(Archives \subseteq served)
    /\ LET path == Some(Archives \ served)
       IN  /\ served' = served \cup {path}
           /\ torn' = IF whole THEN torn \ {path} ELSE torn \cup {path}
    /\ UNCHANGED <<away, metas, indices, manifest, build, builds>>

\* The metadata is complete: where the injector and Java are mirrored.
Completed(meta, mirror) ==
    IF mirror
    THEN [meta EXCEPT !.authlib = Replaced(Authlib), !.runtimes = MirroredFor(meta)]
    ELSE meta

Mirrored ==
    /\ build.step = "java" /\ Archives \subseteq served
    /\ build' = [build EXCEPT !.step = "save", !.done = [n \in DOMAIN @ |-> Completed(@[n], build.spec.mirror)],
                              !.others = @ \cup Archives]
    /\ UNCHANGED <<served, away, metas, indices, torn, manifest, builds>>

\* The metadata is saved one after the other, whether it has changed or not.
NextMeta == build.done[build.saved + 1]
Saving == build.step = "save" /\ build.saved < Len(build.done)

WithdrawMetadata ==
    /\ Saving /\ Withdraw(MetaPath(NextMeta.id))
    /\ UNCHANGED <<metas, indices, torn, manifest, build, builds>>

PutMetadata ==
    /\ Saving /\ Put(MetaPath(NextMeta.id))
    /\ metas' = [metas EXCEPT ![NextMeta.id] = NextMeta]
    /\ build' = [build EXCEPT !.saved = @ + 1]
    /\ UNCHANGED <<indices, torn, manifest, builds>>

Saved == build.step = "save" /\ build.saved = Len(build.done)

WithdrawManifest ==
    /\ Saved /\ Withdraw(ManifestPath)
    /\ UNCHANGED <<metas, indices, torn, manifest, build, builds>>

PutManifest ==
    /\ Saved /\ Put(ManifestPath)
    /\ Step("save", "clean")
    /\ manifest' = [id \in Id |-> IF \E m \in ToSet(build.done) : m.id = id
                                  THEN CHOOSE m \in ToSet(build.done) : m.id = id ELSE None]
    /\ UNCHANGED <<metas, indices, torn, builds>>

\* Mutant of Keep: the files that were neither checked nor copied are forgotten.
KeepTasks == build.copies \cup {t.path : t \in build.tasks} \cup {MetaPath(m.id) : m \in ToSet(build.done)} \cup {ManifestPath}

\* retain_only_files_and_parents
Keep == build.others \cup build.copies \cup {t.path : t \in build.tasks} \cup {ManifestPath}

Stale == served \ Keep

CleanUp ==
    /\ build.step = "clean" /\ Stale # {}
    /\ served' = served \ {Some(Stale)} /\ torn' = torn \ {Some(Stale)}
    /\ UNCHANGED <<away, metas, indices, manifest, build, builds>>

\* The build ends: done, failed or killed.
EndBuild ==
    /\ build # Idle
    /\ build' = Idle
    /\ UNCHANGED <<served, away, metas, indices, torn, manifest, builds>>

Publish ==
    \/ \E spec \in Specs : StartBuild(spec)
    \/ WithdrawIndex \/ PutIndex \/ Generate \/ Collected
    \/ Download \/ Downloaded \/ Copy \/ Copied
    \/ \E whole \in BOOLEAN : MirrorJava(whole)
    \/ Mirrored
    \/ WithdrawMetadata \/ PutMetadata \/ WithdrawManifest \/ PutManifest \/ CleanUp
    \/ EndBuild

PublishingSpec == PublishingInit /\ [][Publish]_serverVars

-----------------------------------------------------------------------------
(***************************************************************************)
(* What a launcher looks up.                                               *)
(***************************************************************************)

\* Of an instance whose indices name these objects: the client, the libraries, the assets.
InstallTasks(meta, p, objects) ==
    (IF Parent(meta).client THEN {ClientTask(meta)} ELSE {})
        \cup LibraryCheckTasks(meta, p) \cup ObjectTasks(objects, meta.objects)

ObjectsOf(meta) == UNION {i.objects : i \in Indices(meta)}

\* On the download server: what the tasks name there, the indices, the files of the
\* instance, and the archive of Java.
HostedPaths(meta, p) ==
    {t.from[2] : t \in {t \in InstallTasks(meta, p, ObjectsOf(meta)) : t.from[1] = Hosted}}
        \cup {IndexPath(v.index.id) :
                 v \in {v \in ToSet(meta.versions) : v.source = Hosted /\ v.index # NoIndex}}
        \cup {FilePath(meta.id, f) : f \in meta.files}
        \cup {JavaPath(JavaOf(meta), q) : q \in {p} \cap meta.runtimes}

\* While a build is under way, and after one has died, the manifest, the metadata of every
\* instance it lists, and every file that a launcher on any platform looks up for it are
\* served, but for the manifest, metadata and asset indices that a build has removed to
\* replace them and has not put back, because it is about to or died in between: files are
\* there before the metadata that names them, and are deleted after the last that did
\* (the order of Spec::generate).
AlwaysServed ==
    /\ \A id \in Id : manifest[id] # None =>
          /\ {ManifestPath, MetaPath(id)} \subseteq served \cup away
          /\ \A p \in Platform : HostedPaths(metas[id], p) \subseteq served \cup away
    /\ away \subseteq {ManifestPath} \cup {MetaPath(id) : id \in Id} \cup {IndexPath(i) : i \in IndexId}
================================================================================
