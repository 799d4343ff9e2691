--------------------------- MODULE Publishing_proofs ---------------------------
(***************************************************************************)
(* At every moment of every build, all that a launcher looks up for a      *)
(* listed instance is served, or a manifest, metadata or an asset index    *)
(* that is away to be replaced: AlwaysServed, for all specs, platforms and *)
(* libraries.  And a launch whose metadata was verified finds all that its *)
(* command names: LaunchComplete.                                          *)
(*                                                                         *)
(* The first has two halves.  HostedIsKept, about the data: the paths      *)
(* under which the finished metadata of an instance is looked up are among *)
(* those that its build checks, copies, fetches and mirrors, on every      *)
(* platform.  And the invariant, about the order: by the time metadata is  *)
(* saved these paths are all there, and what the clean-up spares includes  *)
(* them.  The second follows a launcher: what a check does not find is on  *)
(* its list, what is on the list and not had keeps the sync from getting   *)
(* through, and until the next check no file and no index goes.            *)
(***************************************************************************)
EXTENDS Launching, TLAPS

\* What a build names for an instance, and finds or puts into the directory.
Named(i, mirror) ==
    {t.path : t \in CheckTasks(i, mirror)} \cup CopyPaths(i)
        \cup {IndexPath(x.id) : x \in FetchedIndices(i, mirror)}

ArchivesOf(i, mirror) ==
    IF mirror THEN {JavaPath(JavaOf(Generated(i, mirror)), p) : p \in MirroredFor(Generated(i, mirror))}
    ELSE {}

Meta(i, mirror) == Completed(Generated(i, mirror), mirror)

-----------------------------------------------------------------------------
(***************************************************************************)
(* The paths of a library.                                                 *)
(***************************************************************************)

\* A library served by the builder has the coordinates of the original, and its natives
\* for one platform are among the original's for all.
LEMMA ReplacedFiles ==
    ASSUME NEW l, NEW target
    PROVE  FilesOf(Replaced(l), target) \subseteq {LibraryPath(l)} \cup NativePathsFor(l, All)
<1>1. Replaced(l).name = l.name /\ Replaced(l).version = l.version /\ Replaced(l).natives = l.natives
      /\ Replaced(l).listed /\ Replaced(l).classifiers = IF l.listed THEN l.classifiers ELSE {}
  BY DEF Replaced
<1>2. LibraryPath(Replaced(l)) = LibraryPath(l)
  BY <1>1 DEF LibraryPath
<1>3. NativesFor(Replaced(l), target) \subseteq NativesFor(l, All)
  BY <1>1 DEF NativesFor
<1>4. \A c : NativePath(Replaced(l), c) = NativePath(l, c)
  BY <1>1 DEF NativePath
<1>5. NativePathsFor(Replaced(l), target) \subseteq NativePathsFor(l, All)
  BY <1>3, <1>4 DEF NativePathsFor
<1> QED BY <1>2, <1>5 DEF FilesOf

\* It has a jar only if the original has one.
LEMMA ReplacedIsChecked ==
    ASSUME NEW l, NEW target
    PROVE  FilesOf(Replaced(l), target) \subseteq FilesOf(l, All)
<1>1. CASE HasArtifact(l)
  BY <1>1, ReplacedFiles DEF FilesOf
<1>2. CASE ~HasArtifact(l)
  <2>1. l.listed /\ ~l.artifact
    BY <1>2 DEF HasArtifact
  <2>2. ~HasArtifact(Replaced(l))
    BY <2>1 DEF HasArtifact, Replaced
  <2>3. NativesFor(Replaced(l), target) \subseteq NativesFor(l, All)
    BY <2>1 DEF Replaced, NativesFor
  <2>4. \A c : NativePath(Replaced(l), c) = NativePath(l, c)
    BY DEF NativePath, Replaced
  <2>5. NativePathsFor(Replaced(l), target) \subseteq NativePathsFor(l, All)
    BY <2>3, <2>4 DEF NativePathsFor
  <2> QED BY <2>2, <2>5 DEF FilesOf
<1> QED BY <1>1, <1>2

\* The tasks for a library are for its files, and for the source it has.
LEMMA TaskFields ==
    ASSUME NEW l, NEW target, NEW t \in LibraryTasks(l, target)
    PROVE  t.path \in FilesOf(l, target) /\ t.from[1] = l.source /\ t.from[2] = t.path
BY DEF LibraryTasks, Task

\* And each file has one.
LEMMA TaskOfFile ==
    ASSUME NEW l, NEW target, NEW path \in FilesOf(l, target)
    PROVE  path \in {t.path : t \in LibraryTasks(l, target)}
<1>1. Task(path, l.source) \in LibraryTasks(l, target) /\ Task(path, l.source).path = path
  BY DEF LibraryTasks, Task
<1> QED BY <1>1

\* The libraries a launcher chooses are libraries of the versions.
LEMMA EffectiveAreListed ==
    ASSUME NEW meta, NEW p, NEW l \in EffectiveLibraries(meta, p), meta.overridden
    PROVE  \E k \in DOMAIN meta.versions :
               \E n \in DOMAIN meta.versions[k].libraries : l = meta.versions[k].libraries[n]
<1> DEFINE At(x)     == LibrariesOf(meta, x[1])[x[2]]
           Positions == UNION {{k} \X DOMAIN LibrariesOf(meta, k) : k \in DOMAIN meta.versions}
<1>1. \E x \in Positions : l = At(x)
  BY DEF EffectiveLibraries
<1>2. PICK x \in Positions : l = At(x)
  BY <1>1
<1>3. PICK k \in DOMAIN meta.versions : x \in {k} \X DOMAIN LibrariesOf(meta, k)
  OBVIOUS
<1>4. x[1] = k /\ x[2] \in DOMAIN LibrariesOf(meta, k)
  BY <1>3
<1>5. LibrariesOf(meta, k) = meta.versions[k].libraries
  BY DEF LibrariesOf
<1> QED BY <1>2, <1>4, <1>5

-----------------------------------------------------------------------------
(***************************************************************************)
(* The finished metadata of an instance.                                   *)
(***************************************************************************)

\* What the metadata of an instance is made of.
LEMMA MetaFields ==
    ASSUME NEW i \in InstanceSpec, NEW mirror \in BOOLEAN
    PROVE  LET meta == Meta(i, mirror) IN
           /\ meta.id = i.id /\ meta.overridden
           /\ DOMAIN meta.versions = DOMAIN i.versions
           /\ \A k \in DOMAIN i.versions :
                 meta.versions[k] = IF mirror THEN ReplacedVersion(Overridden(i.versions[k]))
                                              ELSE Overridden(i.versions[k])
           /\ meta.extras = ExtraForgeLibs(i.made, i.versions)
           /\ meta.files = i.files
           /\ meta.objects = IF mirror THEN Hosted ELSE Upstream
           /\ meta.authlib = IF mirror THEN Replaced(Authlib) ELSE Authlib
           /\ JavaOf(meta) = JavaOf(Generated(i, mirror))
           /\ meta.runtimes = IF mirror THEN MirroredFor(Generated(i, mirror)) ELSE {}
<1> DEFINE g == Generated(i, mirror)
           meta == Meta(i, mirror)
<1>1. /\ g.id = i.id /\ g.overridden /\ g.files = i.files
      /\ g.versions = [n \in DOMAIN i.versions |->
                          IF mirror THEN ReplacedVersion(Overridden(i.versions[n]))
                                    ELSE Overridden(i.versions[n])]
      /\ g.extras = ExtraForgeLibs(i.made, i.versions)
      /\ g.objects = IF mirror THEN Hosted ELSE Upstream
      /\ g.authlib = Authlib /\ g.runtimes = {}
      /\ DOMAIN g = {"id", "versions", "extras", "files", "always", "objects", "authlib",
                     "runtimes", "overridden"}
  BY DEF Generated
<1>2. /\ meta.id = g.id /\ meta.overridden = g.overridden /\ meta.files = g.files
      /\ meta.versions = g.versions /\ meta.extras = g.extras /\ meta.objects = g.objects
      /\ meta.authlib = IF mirror THEN Replaced(Authlib) ELSE g.authlib
      /\ meta.runtimes = IF mirror THEN MirroredFor(g) ELSE g.runtimes
  <2> HIDE DEF g
  <2> SUFFICES /\ Completed(g, mirror).id = g.id /\ Completed(g, mirror).overridden = g.overridden
               /\ Completed(g, mirror).files = g.files /\ Completed(g, mirror).versions = g.versions
               /\ Completed(g, mirror).extras = g.extras /\ Completed(g, mirror).objects = g.objects
               /\ Completed(g, mirror).authlib = IF mirror THEN Replaced(Authlib) ELSE g.authlib
               /\ Completed(g, mirror).runtimes = IF mirror THEN MirroredFor(g) ELSE g.runtimes
    BY DEF Meta, g
  <2> QED BY <1>1 DEF Completed
<1>3. JavaOf(meta) = JavaOf(g)
  BY <1>2 DEF JavaOf, Parent
<1> QED BY <1>1, <1>2, <1>3

\* The first version is one of the instance's.
LEMMA ParentIsFirst ==
    ASSUME NEW i \in InstanceSpec, NEW mirror \in BOOLEAN
    PROVE  /\ 1 \in DOMAIN i.versions
           /\ Parent(Meta(i, mirror)) = Meta(i, mirror).versions[1]
<1>1. i.versions # <<>> /\ i.versions \in Seq(ToSet(i.versions))
  BY SpecsAssumption
<1>2. 1 \in DOMAIN i.versions
  BY <1>1
<1> QED BY <1>2 DEF Parent
-----------------------------------------------------------------------------
(***************************************************************************)
(* What is looked up under the download server.                            *)
(***************************************************************************)

\* The tasks of a version are among those of its instance, if that is mirrored.
LEMMA VersionTasksNamed ==
    ASSUME NEW i \in InstanceSpec, NEW k \in DOMAIN i.versions,
           NEW t \in VersionTasks(Overridden(i.versions[k]))
    PROVE  t.path \in Named(i, TRUE)
<1>1. i.versions[k] \in ToSet(i.versions)
  BY DEF ToSet
<1>2. t \in CheckTasks(i, TRUE)
  BY <1>1 DEF CheckTasks
<1> QED BY <1>2 DEF Named

\* A library of a version, as the launcher sees it.
LEMMA HostedLibraries ==
    ASSUME NEW i \in InstanceSpec, NEW mirror \in BOOLEAN, NEW p,
           NEW l \in EffectiveLibraries(Meta(i, mirror), p), l.source = Hosted,
           NEW path \in FilesOf(l, p)
    PROVE  path \in Named(i, mirror)
<1> DEFINE meta == Meta(i, mirror)
<1>1. PICK k \in DOMAIN meta.versions :
          \E n \in DOMAIN meta.versions[k].libraries : l = meta.versions[k].libraries[n]
  BY EffectiveAreListed, MetaFields
<1>2. PICK n \in DOMAIN meta.versions[k].libraries : l = meta.versions[k].libraries[n]
  BY <1>1
<1> DEFINE v == Overridden(i.versions[k])
<1>3. k \in DOMAIN i.versions /\ meta.versions[k] = IF mirror THEN ReplacedVersion(v) ELSE v
  BY <1>1, MetaFields
<1>4. i.versions[k] \in ToSet(i.versions)
  BY <1>3 DEF ToSet
<1>5. CASE mirror
  <2>1. n \in DOMAIN v.libraries /\ l = Replaced(v.libraries[n])
    BY <1>2, <1>3, <1>5 DEF ReplacedVersion
  <2>2. path \in FilesOf(v.libraries[n], All)
    BY <2>1, ReplacedIsChecked
  <2>3. PICK t \in LibraryTasks(v.libraries[n], All) : t.path = path
    BY <2>2, TaskOfFile
  <2>4. v.libraries[n] \in ToSet(v.libraries)
    BY <2>1 DEF ToSet
  <2>5. t \in VersionTasks(v)
    BY <2>3, <2>4 DEF VersionTasks
  <2> QED BY <2>3, <2>5, <1>3, <1>5, VersionTasksNamed
<1>6. CASE ~mirror
  <2>1. l \in ToSet(v.libraries)
    BY <1>2, <1>3, <1>6 DEF ToSet
  <2>2. l \in Libraries(i)
    BY <2>1, <1>4 DEF Libraries
  <2> QED BY <2>2, SpecsAssumption
<1> QED BY <1>5, <1>6

\* A library the installer made.
LEMMA HostedExtras ==
    ASSUME NEW i \in InstanceSpec, NEW mirror \in BOOLEAN, NEW p,
           NEW l \in Meta(i, mirror).extras, NEW path \in FilesOf(l, p)
    PROVE  path \in Named(i, mirror)
<1>1. PICK e \in i.made : l = Replaced(e.library)
  BY MetaFields DEF ExtraForgeLibs
<1>2. NativesFor(e.library, All) = {}
  BY SpecsAssumption DEF NativesFor
<1>3. path = LibraryPath(e.library)
  BY <1>1, <1>2, ReplacedFiles DEF NativePathsFor
<1> QED BY <1>3 DEF Named, CopyPaths

\* The authlib injector.
LEMMA HostedAuthlib ==
    ASSUME NEW i \in InstanceSpec, NEW mirror \in BOOLEAN,
           Meta(i, mirror).authlib.source = Hosted,
           NEW path \in FilesOf(Meta(i, mirror).authlib, All)
    PROVE  path \in Named(i, mirror)
<1>1. Meta(i, mirror).authlib = Replaced(Authlib)
  BY MetaFields, AuthlibAssumption
<1>2. path \in FilesOf(Authlib, All)
  BY <1>1, ReplacedIsChecked
<1>3. path \in {t.path : t \in LibraryTasks(Authlib, All)}
  BY <1>2, TaskOfFile
<1> QED BY <1>3 DEF Named, CheckTasks
\* A version that is served is one of a mirrored instance.
LEMMA HostedVersion ==
    ASSUME NEW i \in InstanceSpec, NEW mirror \in BOOLEAN, NEW k \in DOMAIN i.versions,
           Meta(i, mirror).versions[k].source = Hosted
    PROVE  /\ mirror
           /\ Meta(i, mirror).versions[k] = ReplacedVersion(Overridden(i.versions[k]))
<1>1. i.versions[k] \in ToSet(i.versions)
  BY DEF ToSet
<1>2. Overridden(i.versions[k]).source # Hosted
  BY <1>1, SpecsAssumption DEF Overridden
<1> QED BY <1>2, MetaFields

\* The client.
LEMMA HostedClient ==
    ASSUME NEW i \in InstanceSpec, NEW mirror \in BOOLEAN,
           Parent(Meta(i, mirror)).client, ClientTask(Meta(i, mirror)).from[1] = Hosted
    PROVE  ClientTask(Meta(i, mirror)).from[2] \in Named(i, mirror)
<1> DEFINE meta == Meta(i, mirror)
           v == Overridden(i.versions[1])
<1>1. 1 \in DOMAIN i.versions /\ Parent(meta) = meta.versions[1]
  BY ParentIsFirst
<1>2. meta.versions[1].source = Hosted
  BY <1>1 DEF ClientTask
<1>3. mirror /\ meta.versions[1] = ReplacedVersion(v)
  BY <1>1, <1>2, HostedVersion
<1>4. v.client /\ ClientTask(meta).from[2] = ClientPath(v.id)
  <2>0. ReplacedVersion(v).client = v.client /\ ReplacedVersion(v).id = v.id
    BY DEF ReplacedVersion
  <2>1. Parent(meta).client = v.client /\ Parent(meta).id = v.id
    BY <1>1, <1>3, <2>0
  <2>2. ClientTask(meta).from[2] = ClientPath(v.id)
    BY <2>1 DEF ClientTask
  <2>3. v.client \in BOOLEAN
    BY <1>1, SpecsAssumption DEF ToSet, Overridden
  <2>4. v.client
    BY <2>1, <2>3
  <2> QED BY <2>2, <2>4
<1>5. Task(ClientPath(v.id), v.source) \in VersionTasks(v)
  BY <1>4 DEF VersionTasks
<1>6. Task(ClientPath(v.id), v.source).path = ClientPath(v.id)
  BY DEF Task
<1> QED BY <1>1, <1>3, <1>4, <1>5, <1>6, VersionTasksNamed

\* The objects of the assets.
LEMMA HostedObjects ==
    ASSUME NEW i \in InstanceSpec, NEW mirror \in BOOLEAN, Meta(i, mirror).objects = Hosted,
           NEW o \in ObjectsOf(Meta(i, mirror))
    PROVE  ObjectPath(o) \in Named(i, mirror)
<1> DEFINE meta == Meta(i, mirror)
<1>1. mirror
  BY MetaFields DEF Hosted, Upstream
<1>2. PICK k \in DOMAIN meta.versions : /\ meta.versions[k].index # NoIndex
                                        /\ o \in meta.versions[k].index.objects
  BY DEF ObjectsOf, Indices, ToSet
<1> DEFINE v == Overridden(i.versions[k])
<1>3. k \in DOMAIN i.versions /\ meta.versions[k].index = v.index
  <2>1. k \in DOMAIN i.versions /\ meta.versions[k] = ReplacedVersion(v)
    BY <1>1, <1>2, MetaFields
  <2>2. ReplacedVersion(v).index = v.index
    BY DEF ReplacedVersion
  <2> QED BY <2>1, <2>2
<1>4. Task(ObjectPath(o), Upstream) \in VersionTasks(v)
  BY <1>2, <1>3 DEF VersionTasks, ObjectTasks
<1>5. Task(ObjectPath(o), Upstream).path = ObjectPath(o)
  BY DEF Task
<1> QED BY <1>1, <1>3, <1>4, <1>5, VersionTasksNamed

\* The indices.
LEMMA HostedIndices ==
    ASSUME NEW i \in InstanceSpec, NEW mirror \in BOOLEAN,
           NEW v \in ToSet(Meta(i, mirror).versions), v.source = Hosted, v.index # NoIndex
    PROVE  IndexPath(v.index.id) \in Named(i, mirror)
<1> DEFINE meta == Meta(i, mirror)
<1>1. PICK k \in DOMAIN meta.versions : v = meta.versions[k]
  BY DEF ToSet
<1>2. k \in DOMAIN i.versions
  BY <1>1, MetaFields
<1>3. mirror /\ v.index = i.versions[k].index
  <2>1. mirror /\ v = ReplacedVersion(Overridden(i.versions[k]))
    BY <1>1, <1>2, HostedVersion
  <2>2. ReplacedVersion(Overridden(i.versions[k])).index = i.versions[k].index
    BY DEF ReplacedVersion, Overridden
  <2> QED BY <2>1, <2>2
<1>4. i.versions[k] \in ToSet(i.versions)
  BY <1>2 DEF ToSet
<1>5. v.index \in FetchedIndices(i, mirror)
  BY <1>3, <1>4 DEF FetchedIndices
<1> QED BY <1>5 DEF Named

\* Whatever a launcher on some platform looks up for an instance, its build has named.
THEOREM HostedIsKept ==
    ASSUME NEW i \in InstanceSpec, NEW mirror \in BOOLEAN, NEW p
    PROVE  HostedPaths(Meta(i, mirror), p) \subseteq Named(i, mirror) \cup ArchivesOf(i, mirror)
<1> DEFINE meta == Meta(i, mirror)
<1>1. ASSUME NEW t \in InstallTasks(meta, p, ObjectsOf(meta)), t.from[1] = Hosted
      PROVE  t.from[2] \in Named(i, mirror)
  <2>1. CASE Parent(meta).client /\ t = ClientTask(meta)
    BY <1>1, <2>1, HostedClient
  <2>2. CASE \E l \in EffectiveLibraries(meta, p) : t \in LibraryTasks(l, p)
    BY <1>1, <2>2, TaskFields, HostedLibraries
  <2>3. CASE \E l \in meta.extras : t \in LibraryTasks(l, p)
    BY <1>1, <2>3, TaskFields, HostedExtras
  <2>4. CASE t \in LibraryTasks(meta.authlib, All)
    BY <1>1, <2>4, TaskFields, HostedAuthlib
  <2>5. CASE t \in ObjectTasks(ObjectsOf(meta), meta.objects)
    <3>1. PICK o \in ObjectsOf(meta) : t = Task(ObjectPath(o), meta.objects)
      BY <2>5 DEF ObjectTasks
    <3>2. meta.objects = Hosted /\ t.from[2] = ObjectPath(o)
      BY <1>1, <3>1 DEF Task
    <3> QED BY <3>2, HostedObjects
  <2> QED BY <1>1, <2>1, <2>2, <2>3, <2>4, <2>5 DEF InstallTasks, LibraryCheckTasks
<1>2. ASSUME NEW f \in meta.files
      PROVE  FilePath(meta.id, f) \in Named(i, mirror)
  BY MetaFields DEF Named, CopyPaths
<1>3. ASSUME NEW q \in {p} \cap meta.runtimes
      PROVE  JavaPath(JavaOf(meta), q) \in ArchivesOf(i, mirror)
  BY MetaFields DEF ArchivesOf
<1> HIDE DEF meta
<1> QED BY <1>1, <1>2, <1>3, HostedIndices DEF HostedPaths, meta
-----------------------------------------------------------------------------
(***************************************************************************)
(* The invariant: how far the build is, and what is there by then.         *)
(***************************************************************************)
Finished == {"save", "clean"}
TaskPaths == {t.path : t \in build.tasks}
IndexPaths(i, mirror) == {IndexPath(x.id) : x \in FetchedIndices(i, mirror)}

AnyMeta == {Generated(i, mirror) : i \in InstanceSpec, mirror \in BOOLEAN}
               \cup {Meta(i, mirror) : i \in InstanceSpec, mirror \in BOOLEAN}

BuildType ==
    /\ DOMAIN build = {"step", "spec", "done", "tasks", "copies", "others", "saved"}
    /\ build.step \in {"generate", "download", "copy", "java", "save", "clean"}
    /\ build.spec \in Specs
    /\ build.done \in Seq(AnyMeta)
    /\ build.saved \in Nat /\ (build.step \notin Finished => build.saved = 0)

\* What is in the directory, or is replaced.
There == served \cup away

\* The instances that are done, in order; and what the build has noted for them.
DoneNoted ==
    \A n \in DOMAIN build.done :
        LET i == build.spec.instances[n]
            mirror == build.spec.mirror
        IN  /\ n \in DOMAIN build.spec.instances
            /\ build.done[n] = IF build.step \in Finished THEN Meta(i, mirror) ELSE Generated(i, mirror)
            /\ {t.path : t \in CheckTasks(i, mirror)} \subseteq TaskPaths
            /\ CopyPaths(i) \subseteq build.copies
            /\ IndexPaths(i, mirror) \subseteq build.others \cap There
            /\ MetaPath(i.id) \in build.others
            /\ build.step \in Finished => ArchivesOf(i, mirror) \subseteq build.others \cap There

\* The phases that are over.
PhasesOver ==
    /\ build.step \in {"copy", "java", "save", "clean"} => TaskPaths \subseteq There
    /\ build.step \in {"java", "save", "clean"} => build.copies \subseteq There

\* An instance that is done, and its metadata saved.
Safe(id) ==
    /\ \E m \in ToSet(build.done) : m.id = id
    /\ metas[id] \in ToSet(build.done) /\ MetaPath(id) \in There

\* The metadata is saved in order.
SavedAreSafe ==
    build.step = "save" => \A n \in DOMAIN build.done : n <= build.saved => Safe(build.done[n].id)

\* Before anything is deleted, only such instances are listed.
ListedAreDone ==
    build.step = "clean" => /\ ManifestPath \in There
                            /\ \A id \in Id : manifest[id] # None => Safe(id)

BuildInv ==
    build # Idle => BuildType /\ DoneNoted /\ PhasesOver /\ SavedAreSafe /\ ListedAreDone

IInv == DOMAIN metas = Id /\ BuildInv /\ AlwaysServed

\* The instance behind finished metadata.
LEMMA DoneInstance ==
    ASSUME BuildType, DoneNoted, NEW n \in DOMAIN build.done
    PROVE  /\ build.spec.instances[n] \in InstanceSpec
           /\ build.spec.mirror \in BOOLEAN
           /\ build.spec.instances[n].id \in Id
<1>1. n \in DOMAIN build.spec.instances
  BY DEF DoneNoted
<1>2. build.spec.instances \in Seq(InstanceSpec) /\ build.spec.mirror \in BOOLEAN
  BY SpecsAssumption DEF BuildType
<1>3. build.spec.instances[n] \in InstanceSpec
  BY <1>1, <1>2
<1> QED BY <1>2, <1>3, SpecsAssumption

\* Once the metadata is finished, all that will be looked up for it is there, and spared.
LEMMA DoneIsServed ==
    ASSUME BuildType, DoneNoted, PhasesOver, build.step \in Finished,
           NEW n \in DOMAIN build.done, NEW p
    PROVE  /\ HostedPaths(build.done[n], p) \subseteq There
           /\ HostedPaths(build.done[n], p) \subseteq Keep
           /\ build.done[n].id \in Id
           /\ MetaPath(build.done[n].id) \in Keep
<1> DEFINE i == build.spec.instances[n]
           mirror == build.spec.mirror
<1>1. i \in InstanceSpec /\ mirror \in BOOLEAN /\ i.id \in Id
  BY DoneInstance
<1>2. /\ build.done[n] = Meta(i, mirror)
      /\ {t.path : t \in CheckTasks(i, mirror)} \subseteq TaskPaths
      /\ CopyPaths(i) \subseteq build.copies
      /\ IndexPaths(i, mirror) \subseteq build.others \cap There
      /\ MetaPath(i.id) \in build.others
      /\ ArchivesOf(i, mirror) \subseteq build.others \cap There
  BY DEF DoneNoted
<1>3. TaskPaths \subseteq There /\ build.copies \subseteq There
  BY DEF PhasesOver, Finished
<1>4. Named(i, mirror) \cup ArchivesOf(i, mirror) \subseteq There
  BY <1>2, <1>3 DEF Named, IndexPaths
<1>5. Named(i, mirror) \cup ArchivesOf(i, mirror) \subseteq Keep
  BY <1>2 DEF Named, IndexPaths, Keep, TaskPaths
<1>6. HostedPaths(build.done[n], p) \subseteq Named(i, mirror) \cup ArchivesOf(i, mirror)
  BY <1>1, <1>2, HostedIsKept
<1>7. build.done[n].id = i.id
  BY <1>1, <1>2, MetaFields
<1> QED BY <1>1, <1>2, <1>4, <1>5, <1>6, <1>7 DEF Keep

\* What a build may take away to replace it.
Replaceable == {ManifestPath} \cup {MetaPath(id) : id \in Id} \cup {IndexPath(i) : i \in IndexId}

\* As long as nothing is deleted, all stays there.
LEMMA GrowingServes ==
    ASSUME AlwaysServed, There \subseteq There', away' \subseteq away \cup Replaceable,
           metas' = metas, manifest' = manifest
    PROVE  AlwaysServed'
BY DEF AlwaysServed, There, Replaceable

\* A phase that changes nothing the invariant speaks of but what is there.
LEMMA GrowingBuild ==
    ASSUME BuildType, DoneNoted, PhasesOver, SavedAreSafe, ListedAreDone,
           There \subseteq There', UNCHANGED <<metas, manifest, build>>
    PROVE  (BuildType /\ DoneNoted /\ PhasesOver /\ SavedAreSafe /\ ListedAreDone)'
<1>1. There' = There \cup There' /\ TaskPaths' = TaskPaths
  BY DEF TaskPaths
<1>2. BuildType' /\ PhasesOver'
  BY <1>1 DEF BuildType, PhasesOver
<1>3. DoneNoted'
  BY <1>1 DEF DoneNoted
<1>4. \A id : Safe(id) => Safe(id)'
  BY DEF Safe
<1>5. SavedAreSafe'
  BY <1>4 DEF SavedAreSafe
<1>6. ListedAreDone'
  BY <1>4 DEF ListedAreDone
<1> QED BY <1>2, <1>3, <1>5, <1>6
-----------------------------------------------------------------------------
(***************************************************************************)
(* Every action preserves it.                                              *)
(***************************************************************************)

\* A build that is at work satisfies the build's part.
LEMMA AtWork ==
    ASSUME BuildInv, build.step # "idle"
    PROVE  BuildType /\ DoneNoted /\ PhasesOver /\ SavedAreSafe /\ ListedAreDone
BY DEF BuildInv, Idle

\* One phase follows another, and nothing else changes.
LEMMA StepKeeps ==
    ASSUME BuildType, DoneNoted,
           NEW to \in {"download", "copy", "java", "clean"},
           build.step \in Finished <=> to \in Finished,
           build' = [build EXCEPT !.step = to], There' = There
    PROVE  /\ (BuildType /\ DoneNoted)'
           /\ build'.step = to /\ TaskPaths' = TaskPaths /\ build'.copies = build.copies
           /\ build'.done = build.done
<1>1. /\ DOMAIN build' = DOMAIN build /\ build'.step = to /\ build'.spec = build.spec
      /\ build'.done = build.done /\ build'.tasks = build.tasks /\ build'.copies = build.copies
      /\ build'.others = build.others /\ build'.saved = build.saved
  BY DEF BuildType
<1>2. BuildType'
  BY <1>1 DEF BuildType, Finished
<1>3. TaskPaths' = TaskPaths
  BY <1>1 DEF TaskPaths
<1>4. DoneNoted'
  BY <1>1, <1>3 DEF DoneNoted, BuildType
<1> QED BY <1>1, <1>2, <1>3, <1>4

\* A build begins with nothing noted.
LEMMA StartBuildKeeps ==
    ASSUME IInv, NEW spec \in Specs, StartBuild(spec)
    PROVE  BuildInv' /\ AlwaysServed' /\ metas' = metas
<1>1. AlwaysServed'
  BY GrowingServes DEF IInv, StartBuild, There
<1>2. BuildInv'
  BY DEF StartBuild, BuildInv, BuildType, DoneNoted, PhasesOver, SavedAreSafe, ListedAreDone, Finished
<1> QED BY <1>1, <1>2 DEF StartBuild

\* The next instance is noted, with its indices in place.
LEMMA GenerateKeeps ==
    ASSUME IInv, Generate
    PROVE  BuildInv' /\ AlwaysServed' /\ metas' = metas
<1> DEFINE n == Len(build.done) + 1
           i == build.spec.instances[n]
           mirror == build.spec.mirror
<1>1. BuildType /\ DoneNoted /\ build.step = "generate"
  BY AtWork DEF IInv, Generate, Generating
<1>2. /\ build' = [build EXCEPT
                      !.done   = Append(@, Generated(i, mirror)),
                      !.tasks  = @ \cup CheckTasks(i, mirror),
                      !.copies = @ \cup CopyPaths(i),
                      !.others = @ \cup {IndexPath(x.id) : x \in FetchedIndices(i, mirror)}
                                   \cup {MetaPath(i.id)}]
      /\ served' = served \cup FetchedLibraries(i, mirror) /\ away' = away
      /\ IndexPaths(i, mirror) \subseteq served
      /\ Len(build.done) < Len(build.spec.instances)
      /\ metas' = metas /\ manifest' = manifest
  BY DEF Generate, Generating, NextInstance, Indexed, IndexPaths
<1>3. build.spec.instances \in Seq(InstanceSpec) /\ mirror \in BOOLEAN /\ build.done \in Seq(AnyMeta)
  BY <1>1, SpecsAssumption DEF BuildType
<1>4. n \in DOMAIN build.spec.instances /\ i \in InstanceSpec
  BY <1>2, <1>3
<1>5. Generated(i, mirror) \in AnyMeta
  BY <1>3, <1>4 DEF AnyMeta
<1>6. /\ DOMAIN build' = DOMAIN build /\ build'.step = "generate" /\ build'.spec = build.spec
      /\ build'.done = Append(build.done, Generated(i, mirror))
      /\ build'.tasks = build.tasks \cup CheckTasks(i, mirror)
      /\ build'.copies = build.copies \cup CopyPaths(i)
      /\ build'.others = build.others \cup IndexPaths(i, mirror) \cup {MetaPath(i.id)}
      /\ build'.saved = build.saved
  BY <1>1, <1>2 DEF BuildType, IndexPaths
<1>7. BuildType'
  BY <1>1, <1>3, <1>5, <1>6 DEF BuildType, Finished
<1>8. TaskPaths' = TaskPaths \cup {t.path : t \in CheckTasks(i, mirror)}
  BY <1>6 DEF TaskPaths
<1>9. DoneNoted'
  <2> SUFFICES ASSUME NEW k \in DOMAIN build'.done
               PROVE  LET j == build'.spec.instances[k] IN
                      /\ k \in DOMAIN build'.spec.instances
                      /\ build'.done[k] = Generated(j, mirror)
                      /\ {t.path : t \in CheckTasks(j, mirror)} \subseteq TaskPaths'
                      /\ CopyPaths(j) \subseteq build'.copies
                      /\ IndexPaths(j, mirror) \subseteq build'.others \cap There'
                      /\ MetaPath(j.id) \in build'.others
    BY <1>6 DEF DoneNoted, Finished
  <2>1. CASE k = n
    <3>1. build'.done[k] = Generated(i, mirror) /\ build'.spec.instances[k] = i
      BY <1>3, <1>5, <1>6, <2>1
    <3>2. IndexPaths(i, mirror) \subseteq build'.others \cap There'
      BY <1>2, <1>6 DEF There
    <3> QED BY <1>4, <1>6, <1>8, <2>1, <3>1, <3>2
  <2>2. CASE k # n
    <3>1. k \in DOMAIN build.done /\ build'.done[k] = build.done[k]
      BY <1>3, <1>5, <1>6, <2>2
    <3>2. build'.spec.instances[k] = build.spec.instances[k]
      BY <1>6
    <3>3. There \subseteq There'
      BY <1>2 DEF There
    <3>4. LET j == build.spec.instances[k] IN
          /\ k \in DOMAIN build.spec.instances
          /\ build.done[k] = Generated(j, mirror)
          /\ {t.path : t \in CheckTasks(j, mirror)} \subseteq TaskPaths
          /\ CopyPaths(j) \subseteq build.copies
          /\ IndexPaths(j, mirror) \subseteq build.others \cap There
          /\ MetaPath(j.id) \in build.others
      BY <1>1, <3>1 DEF DoneNoted, Finished
    <3> QED BY <1>6, <1>8, <3>1, <3>2, <3>3, <3>4
  <2> QED BY <2>1, <2>2
<1>10. (PhasesOver /\ SavedAreSafe /\ ListedAreDone)'
  BY <1>6 DEF PhasesOver, SavedAreSafe, ListedAreDone
<1>11. AlwaysServed'
  BY <1>2, GrowingServes DEF IInv, There
<1> QED BY <1>2, <1>7, <1>9, <1>10, <1>11 DEF BuildInv
\* Downloads, copies and the mirroring of Java only add files; a replacement first takes
\* one away.
LEMMA AddingKeeps ==
    ASSUME IInv, build.step # "idle", There \subseteq There', away' \subseteq away \cup Replaceable,
           UNCHANGED <<metas, manifest, build>>
    PROVE  BuildInv' /\ AlwaysServed' /\ metas' = metas
<1>1. BuildType /\ DoneNoted /\ PhasesOver /\ SavedAreSafe /\ ListedAreDone
  BY AtWork DEF IInv
<1>2. (BuildType /\ DoneNoted /\ PhasesOver /\ SavedAreSafe /\ ListedAreDone)'
  BY <1>1, GrowingBuild
<1>3. AlwaysServed'
  BY GrowingServes DEF IInv
<1> QED BY <1>2, <1>3 DEF BuildInv

\* All the instances are done.
LEMMA CollectedKeeps ==
    ASSUME IInv, Collected
    PROVE  BuildInv' /\ AlwaysServed' /\ metas' = metas
<1>1. BuildType /\ DoneNoted /\ PhasesOver /\ SavedAreSafe /\ ListedAreDone
  BY AtWork DEF IInv, Collected, Step
<1>2. (BuildType /\ DoneNoted)' /\ build'.step = "download"
  BY <1>1, StepKeeps DEF Collected, Step, Finished, There
<1>3. (PhasesOver /\ SavedAreSafe /\ ListedAreDone)'
  BY <1>2 DEF PhasesOver, SavedAreSafe, ListedAreDone
<1>4. AlwaysServed'
  BY GrowingServes DEF IInv, Collected, There
<1> QED BY <1>2, <1>3, <1>4 DEF BuildInv, Collected

\* All the files of the tasks are there.
LEMMA DownloadedKeeps ==
    ASSUME IInv, Downloaded
    PROVE  BuildInv' /\ AlwaysServed' /\ metas' = metas
<1>1. BuildType /\ DoneNoted /\ PhasesOver /\ SavedAreSafe /\ ListedAreDone
  BY AtWork DEF IInv, Downloaded, Step
<1>2. (BuildType /\ DoneNoted)' /\ build'.step = "copy" /\ TaskPaths' = TaskPaths
  BY <1>1, StepKeeps DEF Downloaded, Step, Finished, There
<1>3. TaskPaths \subseteq There /\ There' = There
  BY DEF Downloaded, Missing, TaskPaths, There
<1>4. (PhasesOver /\ SavedAreSafe /\ ListedAreDone)'
  BY <1>2, <1>3 DEF PhasesOver, SavedAreSafe, ListedAreDone
<1>5. AlwaysServed'
  BY GrowingServes DEF IInv, Downloaded, There
<1> QED BY <1>2, <1>4, <1>5 DEF BuildInv, Downloaded

\* And all that is copied.
LEMMA CopiedKeeps ==
    ASSUME IInv, Copied
    PROVE  BuildInv' /\ AlwaysServed' /\ metas' = metas
<1>1. BuildType /\ DoneNoted /\ PhasesOver /\ SavedAreSafe /\ ListedAreDone
  BY AtWork DEF IInv, Copied, Step
<1>2. /\ (BuildType /\ DoneNoted)' /\ build'.step = "java"
      /\ TaskPaths' = TaskPaths /\ build'.copies = build.copies
  BY <1>1, StepKeeps DEF Copied, Step, Finished, There
<1>3. TaskPaths \subseteq There /\ build.copies \subseteq There /\ There' = There
  BY <1>1 DEF Copied, Step, PhasesOver, There
<1>4. (PhasesOver /\ SavedAreSafe /\ ListedAreDone)'
  BY <1>2, <1>3 DEF PhasesOver, SavedAreSafe, ListedAreDone
<1>5. AlwaysServed'
  BY GrowingServes DEF IInv, Copied, There
<1> QED BY <1>2, <1>4, <1>5 DEF BuildInv, Copied

\* The metadata is finished, with the archives it names in place.
LEMMA MirroredKeeps ==
    ASSUME IInv, Mirrored
    PROVE  BuildInv' /\ AlwaysServed' /\ metas' = metas
<1> DEFINE mirror == build.spec.mirror
<1>1. BuildType /\ DoneNoted /\ PhasesOver /\ build.step = "java"
  BY AtWork DEF IInv, Mirrored
<1>2. /\ DOMAIN build' = DOMAIN build /\ build'.step = "save" /\ build'.spec = build.spec
      /\ build'.done = [n \in DOMAIN build.done |-> Completed(build.done[n], mirror)]
      /\ build'.tasks = build.tasks /\ build'.copies = build.copies
      /\ build'.others = build.others \cup Archives
      /\ build'.saved = 0
      /\ Archives \subseteq There /\ There' = There /\ away' = away
      /\ metas' = metas /\ manifest' = manifest
  BY <1>1 DEF Mirrored, BuildType, There, Finished
<1>3. ASSUME NEW n \in DOMAIN build.done
      PROVE  LET i == build.spec.instances[n] IN
             /\ n \in DOMAIN build.spec.instances
             /\ i \in InstanceSpec /\ mirror \in BOOLEAN
             /\ build'.done[n] = Meta(i, mirror)
             /\ ArchivesOf(i, mirror) \subseteq Archives
  <2> DEFINE i == build.spec.instances[n]
  <2>1. i \in InstanceSpec /\ mirror \in BOOLEAN
    BY <1>1, DoneInstance
  <2>2. n \in DOMAIN build.spec.instances /\ build.done[n] = Generated(i, mirror)
    BY <1>1 DEF DoneNoted, Finished
  <2>3. build'.done[n] = Meta(i, mirror)
    BY <1>2, <2>2 DEF Meta
  <2>4. Generated(i, mirror) \in ToSet(build.done)
    BY <2>2 DEF ToSet
  <2>5. ArchivesOf(i, mirror) \subseteq Archives
    <3>1. CASE mirror
      <4>1. \A m \in ToSet(build.done) :
               {JavaPath(JavaOf(m), p) : p \in MirroredFor(m)} \subseteq Archives
        BY <3>1, Zenon DEF Archives
      <4> QED BY <2>4, <3>1, <4>1 DEF ArchivesOf
    <3>2. CASE ~mirror
      BY <3>2 DEF ArchivesOf
    <3> QED BY <3>1, <3>2
  <2> QED BY <2>1, <2>2, <2>3, <2>5
<1>4. BuildType'
  <2>1. build.done \in Seq(AnyMeta)
    BY <1>1 DEF BuildType
  <2>2. DOMAIN build'.done = 1 .. Len(build.done) /\ Len(build.done) \in Nat
    BY <1>2, <2>1
  <2>3. \A n \in DOMAIN build.done : build'.done[n] \in AnyMeta
    BY <1>3 DEF AnyMeta
  <2>4. build'.done \in Seq(AnyMeta)
    <3>1. DOMAIN build.done = 1 .. Len(build.done)
      BY <2>1
    <3>2. build'.done \in [1 .. Len(build.done) -> AnyMeta]
      BY <1>2, <2>3, <3>1
    <3> QED BY <2>2, <3>2
  <2> QED BY <1>1, <1>2, <2>4 DEF BuildType, Finished
<1>5. TaskPaths' = TaskPaths
  BY <1>2 DEF TaskPaths
<1>6. DoneNoted'
  <2> SUFFICES ASSUME NEW n \in DOMAIN build.done
               PROVE  LET i == build.spec.instances[n] IN
                      /\ n \in DOMAIN build.spec.instances
                      /\ build'.done[n] = Meta(i, mirror)
                      /\ {t.path : t \in CheckTasks(i, mirror)} \subseteq TaskPaths
                      /\ CopyPaths(i) \subseteq build.copies
                      /\ IndexPaths(i, mirror) \subseteq build'.others \cap There
                      /\ MetaPath(i.id) \in build'.others
                      /\ ArchivesOf(i, mirror) \subseteq build'.others \cap There
    BY <1>2, <1>5 DEF DoneNoted, Finished
  <2>1. LET i == build.spec.instances[n] IN
        /\ {t.path : t \in CheckTasks(i, mirror)} \subseteq TaskPaths
        /\ CopyPaths(i) \subseteq build.copies
        /\ IndexPaths(i, mirror) \subseteq build.others \cap There
        /\ MetaPath(i.id) \in build.others
    BY <1>1 DEF DoneNoted
  <2> QED BY <1>2, <1>3, <2>1
<1>7. PhasesOver'
  BY <1>1, <1>2, <1>5 DEF PhasesOver
<1>8. (SavedAreSafe /\ ListedAreDone)'
  <2>1. \A n \in DOMAIN build'.done : ~(n <= build'.saved)
    BY <1>2, <1>4 DEF BuildType
  <2> QED BY <1>2, <2>1 DEF SavedAreSafe, ListedAreDone
<1>9. AlwaysServed'
  BY <1>2, GrowingServes DEF IInv
<1> QED BY <1>2, <1>4, <1>6, <1>7, <1>8, <1>9 DEF BuildInv
\* What is put back, or for the first time, was away or not there.
LEMMA ReplacingKeeps ==
    ASSUME NEW path, Withdraw(path) \/ Put(path)
    PROVE  There' = There \cup {path} /\ away' \subseteq away \cup {path}
BY DEF Withdraw, Put, There

\* The metadata that is saved next is of an instance there is.
LEMMA NextIsDone ==
    ASSUME IInv, Saving
    PROVE  /\ BuildType /\ DoneNoted /\ PhasesOver /\ SavedAreSafe /\ build.step = "save"
           /\ build.saved + 1 \in DOMAIN build.done /\ NextMeta = build.done[build.saved + 1]
           /\ NextMeta.id \in Id /\ MetaPath(NextMeta.id) \in Replaceable
           /\ \A p : HostedPaths(NextMeta, p) \subseteq There
<1>1. BuildType /\ DoneNoted /\ PhasesOver /\ SavedAreSafe /\ build.step = "save"
  BY AtWork DEF IInv, Saving
<1>2. build.done \in Seq(AnyMeta) /\ build.saved \in Nat /\ build.saved < Len(build.done)
  BY <1>1 DEF BuildType, Saving
<1>3. build.saved + 1 \in DOMAIN build.done
  BY <1>2
<1> QED BY <1>1, <1>3, DoneIsServed DEF NextMeta, Replaceable, Finished

\* An index is taken away, and another put there.
LEMMA IndexKeeps ==
    ASSUME IInv, WithdrawIndex \/ PutIndex
    PROVE  BuildInv' /\ AlwaysServed' /\ metas' = metas
<1>1. BuildType /\ Generating /\ build.step # "idle" /\ UNCHANGED <<metas, manifest, build>>
  BY AtWork DEF IInv, WithdrawIndex, PutIndex, Generating
<1>2. PICK x \in Indexed : Withdraw(IndexPath(x.id)) \/ Put(IndexPath(x.id))
  BY DEF WithdrawIndex, PutIndex
<1>3. x.id \in IndexId
  <2>1. build.spec.instances \in Seq(InstanceSpec) /\ build.done \in Seq(AnyMeta)
    BY <1>1, SpecsAssumption DEF BuildType
  <2>2. NextInstance \in InstanceSpec
    BY <1>1, <2>1 DEF Generating, NextInstance
  <2>3. PICK v \in ToSet(NextInstance.versions) : v.index = x /\ x # NoIndex
    BY DEF Indexed, FetchedIndices
  <2> QED BY <2>2, <2>3, IndexAssumption
<1>4. IndexPath(x.id) \in Replaceable
  BY <1>3 DEF Replaceable
<1> QED BY <1>1, <1>2, <1>4, ReplacingKeeps, AddingKeeps

\* The old metadata is taken away.
LEMMA WithdrawMetadataKeeps ==
    ASSUME IInv, WithdrawMetadata
    PROVE  BuildInv' /\ AlwaysServed' /\ metas' = metas
<1>1. /\ Saving /\ Withdraw(MetaPath(NextMeta.id)) /\ build.step # "idle"
      /\ UNCHANGED <<metas, manifest, build>>
  BY DEF WithdrawMetadata, Saving
<1> QED BY <1>1, NextIsDone, ReplacingKeeps, AddingKeeps

\* New metadata is put there when all that it names is.
LEMMA PutMetadataKeeps ==
    ASSUME IInv, PutMetadata
    PROVE  BuildInv' /\ AlwaysServed' /\ DOMAIN metas' = Id
<1> DEFINE m == NextMeta
           n == build.saved + 1
<1>1. /\ BuildType /\ DoneNoted /\ PhasesOver /\ SavedAreSafe /\ build.step = "save"
      /\ n \in DOMAIN build.done /\ m = build.done[n]
      /\ m.id \in Id /\ MetaPath(m.id) \in Replaceable
      /\ \A p : HostedPaths(m, p) \subseteq There
  BY NextIsDone DEF PutMetadata
<1>2. /\ metas' = [metas EXCEPT ![m.id] = m] /\ manifest' = manifest
      /\ build' = [build EXCEPT !.saved = @ + 1]
      /\ Put(MetaPath(m.id))
  BY DEF PutMetadata
<1> HIDE DEF m
<1>3. There' = There \cup {MetaPath(m.id)} /\ away' \subseteq away
  BY <1>2, ReplacingKeeps DEF Put
<1>4. DOMAIN metas' = Id /\ metas'[m.id] = m /\ \A id \in Id \ {m.id} : metas'[id] = metas[id]
  BY <1>1, <1>2 DEF IInv
<1>5. AlwaysServed'
  <2>1. ASSUME NEW id \in Id, manifest[id] # None
        PROVE  /\ {ManifestPath, MetaPath(id)} \subseteq There'
               /\ \A p \in Platform : HostedPaths(metas'[id], p) \subseteq There'
    <3>1. /\ {ManifestPath, MetaPath(id)} \subseteq There
          /\ \A p \in Platform : HostedPaths(metas[id], p) \subseteq There
      BY <2>1 DEF IInv, AlwaysServed, There
    <3> QED BY <1>1, <1>3, <1>4, <3>1
  <2>2. away' \subseteq Replaceable
    BY <1>3 DEF IInv, AlwaysServed, Replaceable
  <2> QED BY <1>2, <2>1, <2>2 DEF AlwaysServed, Replaceable, There
<1>6. /\ DOMAIN build' = DOMAIN build /\ build'.step = "save" /\ build'.spec = build.spec
      /\ build'.done = build.done /\ build'.tasks = build.tasks /\ build'.copies = build.copies
      /\ build'.others = build.others /\ build'.saved = n
  BY <1>1, <1>2 DEF BuildType
<1>7. TaskPaths' = TaskPaths /\ There' = There \cup There'
  BY <1>3, <1>6 DEF TaskPaths
<1>8. BuildType'
  BY <1>1, <1>6 DEF BuildType, Finished
<1>9. DoneNoted'
  BY <1>1, <1>6, <1>7 DEF DoneNoted
<1>10. PhasesOver'
  BY <1>1, <1>6, <1>7 DEF PhasesOver
<1>11. m \in ToSet(build.done)
  BY <1>1 DEF ToSet
<1>12. SavedAreSafe'
  <2> SUFFICES ASSUME NEW k \in DOMAIN build.done, k <= n PROVE Safe(build.done[k].id)'
    BY <1>6 DEF SavedAreSafe
  <2>1. CASE build.done[k].id = m.id
    BY <1>3, <1>4, <1>6, <1>11, <2>1 DEF Safe
  <2>2. CASE build.done[k].id # m.id
    <3>1. k \in Nat /\ build.saved \in Nat
      BY <1>1 DEF BuildType
    <3>2. k <= build.saved
      BY <1>1, <2>2, <3>1
    <3>3. Safe(build.done[k].id)
      BY <1>1, <3>2 DEF SavedAreSafe
    <3>4. build.done[k].id \in Id
      BY <1>1, DoneIsServed DEF Finished
    <3> QED BY <1>4, <1>6, <1>7, <2>2, <3>3, <3>4 DEF Safe
  <2> QED BY <2>1, <2>2
<1>13. ListedAreDone'
  BY <1>6 DEF ListedAreDone
<1> QED BY <1>4, <1>5, <1>8, <1>9, <1>10, <1>12, <1>13 DEF BuildInv

\* The old manifest is taken away.
LEMMA WithdrawManifestKeeps ==
    ASSUME IInv, WithdrawManifest
    PROVE  BuildInv' /\ AlwaysServed' /\ metas' = metas
<1>1. /\ Withdraw(ManifestPath) /\ build.step # "idle" /\ UNCHANGED <<metas, manifest, build>>
  BY DEF WithdrawManifest, Saved
<1>2. ManifestPath \in Replaceable
  BY DEF Replaceable
<1> QED BY <1>1, <1>2, ReplacingKeeps, AddingKeeps

\* What is safe is looked up in vain for nothing.
LEMMA SafeIsServed ==
    ASSUME BuildType, DoneNoted, PhasesOver, build.step \in Finished, NEW id \in Id, Safe(id)
    PROVE  /\ \A p : HostedPaths(metas[id], p) \subseteq There \cap Keep
           /\ MetaPath(id) \in There \cap Keep
<1>1. PICK n \in DOMAIN build.done : metas[id] = build.done[n]
  BY DEF Safe, ToSet
<1>2. PICK k \in DOMAIN build.done : build.done[k].id = id
  BY DEF Safe, ToSet
<1> QED BY <1>1, <1>2, DoneIsServed DEF Safe

\* The manifest lists what is done, whose metadata is saved.
LEMMA PutManifestKeeps ==
    ASSUME IInv, PutManifest
    PROVE  BuildInv' /\ AlwaysServed' /\ metas' = metas
<1>1. /\ BuildType /\ DoneNoted /\ PhasesOver /\ SavedAreSafe /\ build.step = "save"
      /\ build.saved = Len(build.done)
  BY AtWork DEF IInv, PutManifest, Saved
<1>2. /\ Put(ManifestPath) /\ metas' = metas /\ build' = [build EXCEPT !.step = "clean"]
      /\ \A id \in Id : manifest'[id] # None => \E m \in ToSet(build.done) : m.id = id
  BY DEF PutManifest, Step
<1>3. There' = There \cup {ManifestPath} /\ away' \subseteq away
  BY <1>2, ReplacingKeeps DEF Put
<1>4. /\ DOMAIN build' = DOMAIN build /\ build'.step = "clean" /\ build'.spec = build.spec
      /\ build'.done = build.done /\ build'.tasks = build.tasks /\ build'.copies = build.copies
      /\ build'.others = build.others /\ build'.saved = build.saved
  BY <1>1, <1>2 DEF BuildType
<1>5. TaskPaths' = TaskPaths
  BY <1>4 DEF TaskPaths
<1>6. BuildType'
  BY <1>1, <1>4 DEF BuildType, Finished
<1>7. DoneNoted'
  BY <1>1, <1>3, <1>4, <1>5 DEF DoneNoted, Finished
<1>8. (PhasesOver /\ SavedAreSafe)'
  BY <1>1, <1>3, <1>4, <1>5 DEF PhasesOver, SavedAreSafe
<1>9. ASSUME NEW id \in Id, manifest'[id] # None PROVE Safe(id)
  <2>1. PICK n \in DOMAIN build.done : build.done[n].id = id
    BY <1>2, <1>9 DEF ToSet
  <2>2. n <= build.saved
    BY <1>1 DEF BuildType
  <2> QED BY <1>1, <2>1, <2>2 DEF SavedAreSafe
<1>10. ListedAreDone'
  <2>1. ASSUME NEW id, Safe(id) PROVE Safe(id)'
    BY <1>2, <1>3, <1>4, <2>1 DEF Safe
  <2> QED BY <1>3, <1>9, <2>1 DEF ListedAreDone
<1>11. AlwaysServed'
  <2>1. ASSUME NEW id \in Id, manifest'[id] # None
        PROVE  /\ {ManifestPath, MetaPath(id)} \subseteq There'
               /\ \A p \in Platform : HostedPaths(metas[id], p) \subseteq There'
    BY <1>1, <1>3, <1>9, <2>1, SafeIsServed DEF Finished
  <2>2. away' \subseteq Replaceable
    BY <1>3 DEF IInv, AlwaysServed, Replaceable
  <2> QED BY <1>2, <2>1, <2>2 DEF AlwaysServed, Replaceable, There
<1> QED BY <1>2, <1>6, <1>7, <1>8, <1>10, <1>11 DEF BuildInv

\* What is deleted is nothing that is still looked up.
LEMMA CleanUpKeeps ==
    ASSUME IInv, CleanUp
    PROVE  BuildInv' /\ AlwaysServed' /\ metas' = metas
<1>1. BuildType /\ DoneNoted /\ PhasesOver /\ SavedAreSafe /\ ListedAreDone /\ build.step = "clean"
  BY AtWork DEF IInv, CleanUp
<1>2. metas' = metas /\ manifest' = manifest /\ build' = build /\ away' = away
  BY DEF CleanUp
<1>3. There \cap Keep \subseteq There'
  <2>1. Some(Stale) \in Stale
    BY DEF CleanUp, Some
  <2> QED BY <2>1 DEF CleanUp, Stale, There
<1>4. ASSUME NEW id \in Id, manifest[id] # None
      PROVE  /\ Safe(id)' /\ MetaPath(id) \in There'
             /\ \A p : HostedPaths(metas[id], p) \subseteq There'
  <2>1. Safe(id)
    BY <1>1, <1>4 DEF ListedAreDone
  <2>2. /\ \A p : HostedPaths(metas[id], p) \subseteq There \cap Keep
        /\ MetaPath(id) \in There \cap Keep
    BY <1>1, <2>1, SafeIsServed DEF Finished
  <2> QED BY <1>2, <1>3, <2>1, <2>2 DEF Safe
<1>5. BuildType'
  BY <1>1, <1>2 DEF BuildType
<1>6. TaskPaths' = TaskPaths /\ TaskPaths \subseteq There' /\ build.copies \subseteq There'
  BY <1>1, <1>2, <1>3 DEF TaskPaths, PhasesOver, Keep
<1>7. DoneNoted'
  BY <1>1, <1>2, <1>3, <1>6 DEF DoneNoted, Keep
<1>8. (PhasesOver /\ SavedAreSafe)'
  BY <1>1, <1>2, <1>6 DEF PhasesOver, SavedAreSafe
<1>9. ManifestPath \in There'
  BY <1>1, <1>3 DEF ListedAreDone, Keep
<1>10. ListedAreDone'
  BY <1>2, <1>4, <1>9 DEF ListedAreDone
<1>11. AlwaysServed'
  BY <1>2, <1>4, <1>9 DEF IInv, AlwaysServed, There
<1> QED BY <1>2, <1>5, <1>7, <1>8, <1>10, <1>11 DEF BuildInv

\* A build that ends leaves the directory as it is.
LEMMA EndBuildKeeps ==
    ASSUME IInv, EndBuild
    PROVE  BuildInv' /\ AlwaysServed' /\ metas' = metas
BY GrowingServes DEF IInv, EndBuild, BuildInv, There

\* Every step of a build.
LEMMA PublishKeeps ==
    ASSUME IInv, Publish
    PROVE  IInv'
<1>1. ASSUME NEW spec \in Specs, StartBuild(spec) PROVE IInv'
  BY <1>1, StartBuildKeeps DEF IInv
<1>2. CASE WithdrawIndex \/ PutIndex
  BY <1>2, IndexKeeps DEF IInv
<1>3. CASE Generate
  BY <1>3, GenerateKeeps DEF IInv
<1>4. CASE Collected
  BY <1>4, CollectedKeeps DEF IInv
<1>5. CASE Download
  BY <1>5, AddingKeeps DEF IInv, Download, There
<1>6. CASE Downloaded
  BY <1>6, DownloadedKeeps DEF IInv
<1>7. CASE Copy
  BY <1>7, AddingKeeps DEF IInv, Copy, There
<1>8. CASE Copied
  BY <1>8, CopiedKeeps DEF IInv
<1>9. ASSUME NEW whole \in BOOLEAN, MirrorJava(whole) PROVE IInv'
  <2>1. /\ build.step # "idle" /\ There \subseteq There' /\ away' = away
        /\ UNCHANGED <<metas, manifest, build>>
    BY <1>9 DEF MirrorJava, There
  <2> QED BY <2>1, AddingKeeps DEF IInv
<1>10. CASE Mirrored
  BY <1>10, MirroredKeeps DEF IInv
<1>11. CASE WithdrawMetadata
  BY <1>11, WithdrawMetadataKeeps DEF IInv
<1>12. CASE PutMetadata
  BY <1>12, PutMetadataKeeps DEF IInv
<1>13. CASE WithdrawManifest
  BY <1>13, WithdrawManifestKeeps DEF IInv
<1>14. CASE PutManifest
  BY <1>14, PutManifestKeeps DEF IInv
<1>15. CASE CleanUp
  BY <1>15, CleanUpKeeps DEF IInv
<1>16. CASE EndBuild
  BY <1>16, EndBuildKeeps DEF IInv
<1> QED BY <1>1, <1>2, <1>3, <1>4, <1>5, <1>6, <1>7, <1>8, <1>9, <1>10, <1>11, <1>12, <1>13, <1>14,
           <1>15, <1>16 DEF Publish

\* Whatever leaves the directory and the build alone.
LEMMA StutteringKeeps ==
    ASSUME IInv, UNCHANGED serverVars
    PROVE  IInv'
<1>1. AlwaysServed'
  BY GrowingServes DEF IInv, serverVars, There
<1>2. BuildInv'
  <2>1. There' = There /\ UNCHANGED <<metas, manifest, build>>
    BY DEF serverVars, There
  <2> QED BY <2>1, GrowingBuild DEF IInv, BuildInv
<1> QED BY <1>1, <1>2 DEF IInv, serverVars

\* In an empty directory nothing is listed.
LEMMA InitHolds == PublishingInit => IInv
BY DEF PublishingInit, IInv, BuildInv, AlwaysServed

\* Every file a launcher looks up for a listed instance is served, before, during and
\* after every build, whole or cut short (Spec::generate), or it is a manifest, metadata or
\* an index that was taken away to be replaced (atomic_replace_file).
THEOREM ServesAlways == PublishingSpec => []AlwaysServed
<1>1. IInv /\ [Publish]_serverVars => IInv'
  BY PublishKeeps, StutteringKeeps
<1>2. IInv => AlwaysServed
  BY DEF IInv
<1> QED BY <1>1, <1>2, InitHolds, PTL DEF PublishingSpec

-----------------------------------------------------------------------------
(***************************************************************************)
(* All the paths there are, those of the metadata aside.                   *)
(***************************************************************************)
ClientPaths(i) == {ClientPath(v.id) : v \in ToSet(i.versions)}

Files ==
    (UNION {Named(i, TRUE) \cup FetchedLibraries(i, TRUE) \cup ClientPaths(i) : i \in InstanceSpec})
        \cup {JavaPath(q[1], q[2]) : q \in Package}

MetaPaths   == {MetaPath(id) : id \in Id}
JavaPaths   == {JavaPath(q[1], q[2]) : q \in Package}
ServerPaths == Files \cup MetaPaths \cup {ManifestPath}

\* They are those the type invariant allows.
LEMMA FilesArePaths == ServerPaths \subseteq Paths
<1> DEFINE P(i) == {t.path : t \in CheckTasks(i, TRUE)} \cup CopyPaths(i)
                       \cup FetchedLibraries(i, TRUE)
                       \cup {IndexPath(x.id) : x \in FetchedIndices(i, TRUE)}
                       \cup {ClientPath(v.id) : v \in ToSet(i.versions)}
<1>1. ASSUME NEW i \in InstanceSpec
      PROVE  Named(i, TRUE) \cup FetchedLibraries(i, TRUE) \cup ClientPaths(i) \subseteq P(i)
  BY DEF Named, ClientPaths
<1>2. ASSUME NEW i \in InstanceSpec PROVE P(i) \subseteq Paths
  <2>1. <<i, TRUE>> \in Instances /\ <<i, TRUE>>[1] = i
    BY DEF Instances
  <2> DEFINE x == <<i, TRUE>>
  <2>2. P(x[1]) \subseteq UNION {P(y[1]) : y \in Instances}
    BY <2>1, Zenon
  <2>3. UNION {P(y[1]) : y \in Instances} \subseteq Paths
    BY Zenon DEF Paths
  <2> QED BY <2>1, <2>2, <2>3
<1>3. {JavaPath(q[1], q[2]) : q \in Package} \cup MetaPaths \cup {ManifestPath} \subseteq Paths
  BY DEF Paths, MetaPaths
<1> QED BY <1>1, <1>2, <1>3 DEF Files, ServerPaths

\* What is named for an instance that is not mirrored is named for one that is.
LEMMA NamedIsAFile ==
    ASSUME NEW i \in InstanceSpec, NEW mirror \in BOOLEAN
    PROVE  /\ Named(i, mirror) \subseteq Files
           /\ FetchedLibraries(i, mirror) \subseteq Files
           /\ ClientPaths(i) \subseteq Files
<1>1. CheckTasks(i, mirror) \subseteq CheckTasks(i, TRUE)
  BY DEF CheckTasks
<1>2. FetchedIndices(i, mirror) \subseteq FetchedIndices(i, TRUE)
  BY DEF FetchedIndices
<1>3. FetchedLibraries(i, mirror) \subseteq FetchedLibraries(i, TRUE)
  BY DEF FetchedLibraries
<1>4. Named(i, mirror) \subseteq Named(i, TRUE)
  BY <1>1, <1>2 DEF Named
<1>5. Named(i, TRUE) \cup FetchedLibraries(i, TRUE) \cup ClientPaths(i) \subseteq Files
  BY DEF Files
<1> QED BY <1>3, <1>4, <1>5

\* The files of a library have the path of a library or of a native.
LEMMA FileForms ==
    ASSUME NEW l, NEW target, NEW path \in FilesOf(l, target)
    PROVE  path = LibraryPath(l) \/ \E c : path = NativePath(l, c)
BY DEF FilesOf, NativePathsFor

\* A path of another kind is not the path of metadata.
LEMMA NoneIsMeta == \A path \in Files : \A id : path # MetaPath(id)
<1> SUFFICES ASSUME NEW path \in Files, NEW id PROVE path # MetaPath(id)
  OBVIOUS
<1>1. \A l : LibraryPath(l) # MetaPath(id) /\ \A c : NativePath(l, c) # MetaPath(id)
  BY DEF LibraryPath, NativePath, MetaPath
<1>2. \A n : /\ ClientPath(n) # MetaPath(id) /\ IndexPath(n) # MetaPath(id)
             /\ ObjectPath(n) # MetaPath(id)
  BY DEF ClientPath, IndexPath, ObjectPath, MetaPath
<1>3. \A n, f : FilePath(n, f) # MetaPath(id) /\ JavaPath(n, f) # MetaPath(id)
  BY DEF FilePath, JavaPath, MetaPath
<1>4. ASSUME NEW l, NEW target, NEW t \in LibraryTasks(l, target) PROVE t.path # MetaPath(id)
  BY <1>1, TaskFields, FileForms
<1>5. ASSUME NEW i \in InstanceSpec, NEW t \in CheckTasks(i, TRUE) PROVE t.path # MetaPath(id)
  <2>1. CASE t \in LibraryTasks(Authlib, All)
    BY <2>1, <1>4
  <2>2. ASSUME NEW v, t \in VersionTasks(v) PROVE t.path # MetaPath(id)
    <3>1. CASE t = Task(ClientPath(v.id), v.source)
      BY <3>1, <1>2 DEF Task
    <3>2. CASE t \in ObjectTasks(v.index.objects, Upstream)
      BY <3>2, <1>2 DEF Task, ObjectTasks
    <3>3. CASE \E l \in ToSet(v.libraries) : t \in LibraryTasks(l, All)
      BY <3>3, <1>4
    <3> QED BY <2>2, <3>1, <3>2, <3>3 DEF VersionTasks
  <2> QED BY <2>1, <2>2 DEF CheckTasks
<1>6. ASSUME NEW i \in InstanceSpec, path \in Named(i, TRUE) PROVE path # MetaPath(id)
  <2>1. ASSUME path \in CopyPaths(i) PROVE path # MetaPath(id)
    BY <2>1, <1>1, <1>3 DEF CopyPaths
  <2> QED BY <1>2, <1>5, <1>6, <2>1 DEF Named
<1>7. ASSUME NEW i \in InstanceSpec, path \in FetchedLibraries(i, TRUE) PROVE path # MetaPath(id)
  BY <1>1, <1>7 DEF FetchedLibraries
<1>8. ASSUME NEW i \in InstanceSpec, path \in ClientPaths(i) PROVE path # MetaPath(id)
  BY <1>2, <1>8 DEF ClientPaths
<1>9. CASE \E q \in Package : path = JavaPath(q[1], q[2])
  BY <1>3, <1>9
<1> QED BY <1>6, <1>7, <1>8, <1>9 DEF Files

-----------------------------------------------------------------------------
(***************************************************************************)
(* The metadata there can be.                                              *)
(***************************************************************************)

\* Those of the specs, mirrored or not.
LEMMA MetasAre ==
    /\ \A i \in InstanceSpec, mirror \in BOOLEAN : Meta(i, mirror) \in Metas
    /\ \A m \in Metas : \E i \in InstanceSpec, mirror \in BOOLEAN : m = Meta(i, mirror)
<1>1. Metas = {Meta(x[1], x[2]) : x \in Instances}
  BY Zenon DEF Metas, Meta
<1>2. ASSUME NEW i \in InstanceSpec, NEW mirror \in BOOLEAN PROVE Meta(i, mirror) \in Metas
  <2>1. <<i, mirror>> \in Instances /\ <<i, mirror>>[1] = i /\ <<i, mirror>>[2] = mirror
    BY DEF Instances
  <2> QED BY <1>1, <2>1
<1>3. ASSUME NEW m \in Metas PROVE \E i \in InstanceSpec, mirror \in BOOLEAN : m = Meta(i, mirror)
  <2>1. PICK x \in Instances : m = Meta(x[1], x[2])
    BY <1>1
  <2> QED BY <2>1 DEF Instances
<1> QED BY <1>2, <1>3

\* It has the id of an instance.
LEMMA MetaId == \A m \in Metas : m.id \in Id
BY MetasAre, MetaFields, SpecsAssumption

\* The versions of metadata have the indices and the ids of the instance's.
LEMMA VersionFields ==
    ASSUME NEW i \in InstanceSpec, NEW mirror \in BOOLEAN, NEW v \in ToSet(Meta(i, mirror).versions)
    PROVE  \E w \in ToSet(i.versions) : v.index = w.index /\ v.id = w.id
<1>1. PICK k \in DOMAIN Meta(i, mirror).versions : v = Meta(i, mirror).versions[k]
  BY DEF ToSet
<1>2. k \in DOMAIN i.versions
  BY <1>1, MetaFields
<1> DEFINE w == i.versions[k]
<1>3. v = ReplacedVersion(Overridden(w)) \/ v = Overridden(w)
  BY <1>1, <1>2, MetaFields
<1>4. Overridden(w).index = w.index /\ Overridden(w).id = w.id
  BY DEF Overridden
<1>5. ReplacedVersion(Overridden(w)).index = w.index /\ ReplacedVersion(Overridden(w)).id = w.id
  BY <1>4 DEF ReplacedVersion
<1>6. w \in ToSet(i.versions)
  BY <1>2 DEF ToSet
<1> QED BY <1>3, <1>4, <1>5, <1>6

\* What a fetched index names is an object.
LEMMA ObjectsOfFetched ==
    ASSUME NEW i \in InstanceSpec, NEW x \in FetchedIndices(i, TRUE)
    PROVE  x.objects \subseteq Objects
<1>1. <<i, TRUE>> \in Instances /\ <<i, TRUE>>[1] = i
  BY DEF Instances
<1> DEFINE O(j) == UNION {y.objects : y \in FetchedIndices(j, TRUE)}
           y == <<i, TRUE>>
<1>2. x.objects \subseteq O(i)
  OBVIOUS
<1>3. O(y[1]) \subseteq UNION {O(z[1]) : z \in Instances}
  BY <1>1, Zenon
<1>4. UNION {O(z[1]) : z \in Instances} \subseteq Objects
  BY Zenon DEF Objects
<1> QED BY <1>1, <1>2, <1>3, <1>4

\* An index that metadata names is known, and so are its objects.
LEMMA IndexOfMeta ==
    ASSUME NEW m \in Metas, NEW v \in ToSet(m.versions), v.index # NoIndex
    PROVE  /\ v.index.id \in IndexId /\ IndexPath(v.index.id) \in Files
           /\ v.index.objects \subseteq Objects
<1>1. PICK i \in InstanceSpec, mirror \in BOOLEAN : m = Meta(i, mirror)
  BY MetasAre
<1>2. PICK w \in ToSet(i.versions) : v.index = w.index
  BY <1>1, VersionFields
<1>3. v.index.id \in IndexId
  BY <1>2, IndexAssumption
<1>4. v.index \in FetchedIndices(i, TRUE)
  BY <1>2 DEF FetchedIndices
<1>5. IndexPath(v.index.id) \in Files
  BY <1>4, NamedIsAFile DEF Named
<1>6. v.index.objects \subseteq Objects
  BY <1>4, ObjectsOfFetched
<1> QED BY <1>3, <1>5, <1>6

\* An object has a path.
LEMMA ObjectIsAFile == \A o \in Objects : ObjectPath(o) \in Files
<1> SUFFICES ASSUME NEW o \in Objects PROVE ObjectPath(o) \in Files
  OBVIOUS
<1>1. PICK y \in Instances : o \in UNION {x.objects : x \in FetchedIndices(y[1], TRUE)}
  BY Zenon DEF Objects
<1>2. y[1] \in InstanceSpec
  BY DEF Instances
<1> DEFINE i == y[1]
<1>3. PICK v \in ToSet(i.versions) : v.index # NoIndex /\ o \in v.index.objects
  BY <1>1 DEF FetchedIndices
<1>4. PICK k \in DOMAIN i.versions : v = i.versions[k]
  BY DEF ToSet
<1>5. Overridden(v).index = v.index
  BY DEF Overridden
<1>6. Task(ObjectPath(o), Upstream) \in VersionTasks(Overridden(v))
  BY <1>3, <1>5 DEF VersionTasks, ObjectTasks
<1>7. Task(ObjectPath(o), Upstream).path = ObjectPath(o)
  BY DEF Task
<1>8. ObjectPath(o) \in Named(i, TRUE)
  BY <1>2, <1>4, <1>6, <1>7, VersionTasksNamed
<1> QED BY <1>2, <1>8, NamedIsAFile

\* The files of a library for one platform are among those for all.
LEMMA FilesForAll ==
    ASSUME NEW l, NEW target
    PROVE  FilesOf(l, target) \subseteq FilesOf(l, All)
<1>1. NativesFor(l, target) \subseteq NativesFor(l, All)
  BY DEF NativesFor
<1>2. NativePathsFor(l, target) \subseteq NativePathsFor(l, All)
  BY <1>1 DEF NativePathsFor
<1> QED BY <1>2 DEF FilesOf

\* Every file of a library that a launcher chooses is known.
LEMMA EffectiveFiles ==
    ASSUME NEW i \in InstanceSpec, NEW mirror \in BOOLEAN, NEW p,
           NEW l \in EffectiveLibraries(Meta(i, mirror), p)
    PROVE  FilesOf(l, p) \subseteq Named(i, TRUE)
<1> DEFINE meta == Meta(i, mirror)
<1>1. PICK k \in DOMAIN meta.versions :
          \E n \in DOMAIN meta.versions[k].libraries : l = meta.versions[k].libraries[n]
  BY EffectiveAreListed, MetaFields
<1>2. PICK n \in DOMAIN meta.versions[k].libraries : l = meta.versions[k].libraries[n]
  BY <1>1
<1> DEFINE v == Overridden(i.versions[k])
           l0 == v.libraries[n]
<1>3. k \in DOMAIN i.versions /\ meta.versions[k] = IF mirror THEN ReplacedVersion(v) ELSE v
  BY <1>1, MetaFields
<1>4. n \in DOMAIN v.libraries /\ (l = Replaced(l0) \/ l = l0)
  BY <1>2, <1>3 DEF ReplacedVersion
<1>5. FilesOf(l, p) \subseteq FilesOf(l0, All)
  BY <1>4, ReplacedIsChecked, FilesForAll
<1> SUFFICES ASSUME NEW path \in FilesOf(l0, All) PROVE path \in Named(i, TRUE)
  BY <1>5
<1>6. PICK t \in LibraryTasks(l0, All) : t.path = path
  BY TaskOfFile
<1>7. l0 \in ToSet(v.libraries)
  BY <1>4 DEF ToSet
<1>8. t \in VersionTasks(v)
  BY <1>6, <1>7 DEF VersionTasks
<1> QED BY <1>3, <1>6, <1>8, VersionTasksNamed

\* The injector is a jar.
LEMMA AuthlibIsAJar ==
    ASSUME NEW i \in InstanceSpec, NEW mirror \in BOOLEAN
    PROVE  /\ HasArtifact(Meta(i, mirror).authlib)
           /\ FilesOf(Meta(i, mirror).authlib, All) \subseteq Named(i, TRUE)
<1>1. Meta(i, mirror).authlib = Authlib \/ Meta(i, mirror).authlib = Replaced(Authlib)
  BY MetaFields
<1>2. HasArtifact(Authlib) /\ HasArtifact(Replaced(Authlib))
  BY AuthlibAssumption DEF HasArtifact, Replaced
<1>3. FilesOf(Meta(i, mirror).authlib, All) \subseteq FilesOf(Authlib, All)
  BY <1>1, ReplacedIsChecked
<1>4. FilesOf(Authlib, All) \subseteq Named(i, TRUE)
  <2> SUFFICES ASSUME NEW path \in FilesOf(Authlib, All) PROVE path \in Named(i, TRUE)
    OBVIOUS
  <2>1. path \in {t.path : t \in LibraryTasks(Authlib, All)}
    BY TaskOfFile
  <2> QED BY <2>1 DEF Named, CheckTasks
<1> QED BY <1>1, <1>2, <1>3, <1>4

\* The versions of metadata are a function on the places of the instance's.
LEMMA VersionsAreASequence ==
    ASSUME NEW i \in InstanceSpec, NEW mirror \in BOOLEAN
    PROVE  LET vs == Meta(i, mirror).versions IN vs = [n \in DOMAIN i.versions |-> vs[n]]
<1> DEFINE g == Generated(i, mirror)
<1>1. /\ DOMAIN g = {"id", "versions", "extras", "files", "always", "objects", "authlib",
                     "runtimes", "overridden"}
      /\ g.versions = [n \in DOMAIN i.versions |-> g.versions[n]]
  BY DEF Generated
<1>2. Completed(g, mirror).versions = g.versions
  <2> HIDE DEF g
  <2> QED BY <1>1 DEF Completed
<1> QED BY <1>1, <1>2 DEF Meta

\* All that a launcher installs for metadata has a path.
LEMMA InstallsFiles ==
    ASSUME NEW m \in Metas, NEW p, NEW objects \in SUBSET Objects,
           NEW t \in InstallTasks(m, p, objects)
    PROVE  t.path \in Files
<1>1. PICK i \in InstanceSpec, mirror \in BOOLEAN : m = Meta(i, mirror)
  BY MetasAre
<1>2. ASSUME NEW l \in EffectiveLibraries(m, p), t \in LibraryTasks(l, p) PROVE t.path \in Files
  BY <1>1, <1>2, TaskFields, EffectiveFiles, NamedIsAFile
<1>3. ASSUME NEW l \in m.extras, t \in LibraryTasks(l, p) PROVE t.path \in Files
  BY <1>1, <1>3, TaskFields, HostedExtras, NamedIsAFile
<1>4. CASE t \in LibraryTasks(m.authlib, All)
  BY <1>1, <1>4, TaskFields, AuthlibIsAJar, NamedIsAFile
<1>5. CASE t \in ObjectTasks(objects, m.objects)
  BY <1>5, ObjectIsAFile DEF ObjectTasks, Task
<1>6. ASSUME t = ClientTask(m) PROVE t.path \in Files
  <2>1. m.versions # <<>> /\ Child(m) \in ToSet(m.versions)
    <3>1. i.versions # <<>> /\ i.versions \in Seq(ToSet(i.versions))
      BY SpecsAssumption
    <3>2. Len(i.versions) \in DOMAIN i.versions /\ DOMAIN i.versions = 1 .. Len(i.versions)
      BY <3>1
    <3>3. DOMAIN m.versions = DOMAIN i.versions /\ Len(m.versions) = Len(i.versions)
      <4>1. DOMAIN m.versions = DOMAIN i.versions
        BY <1>1, MetaFields
      <4>2. m.versions = [n \in DOMAIN i.versions |-> m.versions[n]]
        BY <1>1, VersionsAreASequence
      <4> QED BY <4>1, <4>2, <3>2
    <3> QED BY <3>2, <3>3 DEF Child, Last, ToSet
  <2>2. PICK w \in ToSet(i.versions) : Child(m).id = w.id
    BY <1>1, <2>1, VersionFields
  <2>3. t.path = ClientPath(w.id)
    BY <1>6, <2>2 DEF ClientTask
  <2>4. ClientPath(w.id) \in ClientPaths(i)
    BY DEF ClientPaths
  <2> QED BY <2>3, <2>4, NamedIsAFile
<1>7. \/ t = ClientTask(m) \/ t \in ObjectTasks(objects, m.objects)
      \/ t \in LibraryTasks(m.authlib, All)
      \/ \E l \in EffectiveLibraries(m, p) \cup m.extras : t \in LibraryTasks(l, p)
  BY DEF InstallTasks, LibraryCheckTasks
<1> QED BY <1>2, <1>3, <1>4, <1>5, <1>6, <1>7

-----------------------------------------------------------------------------
(***************************************************************************)
(* What the builder keeps: types, and that a metadata file that is served  *)
(* says something.                                                         *)
(***************************************************************************)
OfItsId(f) == f \in [Id -> Metas \cup {None}] /\ \A id \in Id : f[id] # None => f[id].id = id

ServedType ==
    /\ served \subseteq ServerPaths /\ away \subseteq ServerPaths
    /\ torn \subseteq served \cap JavaPaths
MetasSaid  == \A id \in Id : MetaPath(id) \in served => metas[id] # None
BuildFiles == build # Idle => TaskPaths \subseteq Files /\ build.copies \subseteq Files

ServerType ==
    /\ ServedType /\ MetasSaid /\ BuildFiles
    /\ OfItsId(metas) /\ OfItsId(manifest)
    /\ indices \in [IndexId -> SUBSET Objects]
    /\ builds \in 0 .. MaxBuilds

\* A metadata file belongs to one instance.
LEMMA MetaPathsDiffer == \A a, b : MetaPath(a) = MetaPath(b) => a = b
BY DEF MetaPath

\* More files, none of them metadata.
LEMMA MoreFiles ==
    ASSUME ServedType, MetasSaid, served \subseteq served', served' \subseteq served \cup Files,
           away' \subseteq away, torn' \subseteq served' \cap JavaPaths, metas' = metas
    PROVE  (ServedType /\ MetasSaid)'
<1>1. ServedType'
  BY DEF ServedType, ServerPaths
<1>2. MetasSaid'
  BY NoneIsMeta DEF MetasSaid
<1> QED BY <1>1, <1>2

\* What is taken away to be replaced is no archive.
LEMMA WithdrawTyped ==
    ASSUME ServerType, NEW path, Withdraw(path), path \notin JavaPaths,
           UNCHANGED <<metas, indices, torn, manifest, build, builds>>
    PROVE  ServerType'
<1>1. (ServedType /\ MetasSaid)'
  BY DEF Withdraw, ServerType, ServedType, MetasSaid
<1>2. BuildFiles'
  BY DEF ServerType, BuildFiles, TaskPaths
<1> QED BY <1>1, <1>2 DEF ServerType, OfItsId

\* Archives have paths of their own.
LEMMA NoneIsJava ==
    /\ \A i : IndexPath(i) \notin JavaPaths /\ MetaPath(i) \notin JavaPaths
    /\ ManifestPath \notin JavaPaths
BY DEF JavaPaths, JavaPath, IndexPath, MetaPath, ManifestPath

\* The next instance is one of the specs'.
LEMMA NextIsOne ==
    ASSUME BuildType, Generating
    PROVE  NextInstance \in InstanceSpec /\ build.spec.mirror \in BOOLEAN
<1>1. /\ build.spec.instances \in Seq(InstanceSpec) /\ build.spec.mirror \in BOOLEAN
      /\ build.done \in Seq(AnyMeta)
  BY SpecsAssumption DEF BuildType
<1> QED BY <1>1 DEF Generating, NextInstance

\* An index is one that the instance names.
LEMMA IndexTyped ==
    ASSUME IInv, ServerType, WithdrawIndex \/ PutIndex
    PROVE  ServerType'
<1>1. CASE WithdrawIndex
  BY <1>1, NoneIsJava, WithdrawTyped DEF WithdrawIndex
<1>2. CASE PutIndex
  <2>1. PICK x \in Indexed : /\ Put(IndexPath(x.id))
                             /\ indices' = [indices EXCEPT ![x.id] = x.objects]
    BY <1>2 DEF PutIndex
  <2>2. BuildType /\ Generating
    BY <1>2, AtWork DEF IInv, PutIndex, Generating
  <2> DEFINE i == NextInstance
  <2>3. i \in InstanceSpec /\ build.spec.mirror \in BOOLEAN
    BY <2>2, NextIsOne
  <2>4. IndexPath(x.id) \in Files
    <3>1. IndexPath(x.id) \in Named(i, build.spec.mirror)
      BY <2>1 DEF Named, Indexed
    <3> QED BY <2>3, <3>1, NamedIsAFile
  <2>5. x \in FetchedIndices(i, TRUE)
    BY <2>1 DEF Indexed, FetchedIndices
  <2>6. x.objects \subseteq Objects
    BY <2>3, <2>5, ObjectsOfFetched
  <2>7. indices' \in [IndexId -> SUBSET Objects]
    BY <2>1, <2>6 DEF ServerType
  <2>8. UNCHANGED <<metas, torn, manifest, build, builds>>
    BY <1>2 DEF PutIndex
  <2>9. (ServedType /\ MetasSaid)'
    BY <2>1, <2>4, <2>8, MoreFiles DEF Put, ServerType, ServedType
  <2>10. BuildFiles'
    BY <2>8 DEF ServerType, BuildFiles, TaskPaths
  <2> QED BY <2>7, <2>8, <2>9, <2>10 DEF ServerType, OfItsId
<1> QED BY <1>1, <1>2

\* The next instance adds files, and tasks for files.
LEMMA GenerateTyped ==
    ASSUME IInv, ServerType, Generate
    PROVE  ServerType'
<1> DEFINE i == NextInstance
           mirror == build.spec.mirror
<1>1. BuildType /\ Generating /\ build # Idle
  BY AtWork DEF IInv, Generate, Generating, Idle
<1>2. /\ build'.tasks = build.tasks \cup CheckTasks(i, mirror)
      /\ build'.copies = build.copies \cup CopyPaths(i)
      /\ served' = served \cup FetchedLibraries(i, mirror)
      /\ UNCHANGED <<away, metas, indices, torn, manifest, builds>>
  BY <1>1 DEF BuildType, Generate
<1>3. i \in InstanceSpec /\ mirror \in BOOLEAN
  BY <1>1, NextIsOne
<1>4. Named(i, mirror) \subseteq Files /\ FetchedLibraries(i, mirror) \subseteq Files
  BY <1>3, NamedIsAFile
<1>5. (ServedType /\ MetasSaid)'
  BY <1>2, <1>4, MoreFiles DEF ServerType, ServedType
<1>6. BuildFiles'
  <2>1. TaskPaths' = TaskPaths \cup {t.path : t \in CheckTasks(i, mirror)}
    BY <1>2 DEF TaskPaths
  <2>2. TaskPaths \subseteq Files /\ build.copies \subseteq Files
    BY <1>1 DEF ServerType, BuildFiles
  <2> QED BY <1>2, <1>4, <2>1, <2>2 DEF BuildFiles, Named
<1> QED BY <1>2, <1>5, <1>6 DEF ServerType, OfItsId

\* A step that adds files of the build, and one archive that may be torn.
LEMMA AddingTyped ==
    ASSUME ServerType, NEW path \in Files, served' = served \cup {path},
           torn' \subseteq torn \cup ({path} \cap JavaPaths),
           UNCHANGED <<away, metas, indices, manifest, build, builds>>
    PROVE  ServerType'
<1>1. (ServedType /\ MetasSaid)'
  BY MoreFiles DEF ServerType, ServedType
<1>2. BuildFiles'
  BY DEF ServerType, BuildFiles, TaskPaths
<1> QED BY <1>1, <1>2 DEF ServerType, OfItsId

\* What is downloaded is a task's.
LEMMA DownloadTyped ==
    ASSUME IInv, ServerType, Download
    PROVE  ServerType'
<1>1. Some(Missing) \in Missing
  BY DEF Download, Some
<1>2. Some(Missing).path \in Files
  BY <1>1, AtWork DEF Missing, Download, Idle, ServerType, BuildFiles, TaskPaths
<1> QED BY <1>2, AddingTyped DEF Download

\* What is copied is on the list.
LEMMA CopyTyped ==
    ASSUME IInv, ServerType, Copy
    PROVE  ServerType'
<1>1. Some(build.copies \ served) \in build.copies
  BY DEF Copy, Some
<1>2. Some(build.copies \ served) \in Files
  BY <1>1 DEF Copy, Idle, ServerType, BuildFiles
<1> QED BY <1>2, AddingTyped DEF Copy

\* What is mirrored is an archive of a package Azul has.
LEMMA MirrorTyped ==
    ASSUME IInv, ServerType, NEW whole \in BOOLEAN, MirrorJava(whole)
    PROVE  ServerType'
<1> DEFINE path == Some(Archives \ served)
<1>1. path \in Archives
  BY DEF MirrorJava, Some
<1>2. path \in Files /\ path \in JavaPaths
  <2>1. PICK m \in ToSet(build.done) : path \in {JavaPath(JavaOf(m), p) : p \in MirroredFor(m)}
    <3> HIDE DEF path
    <3>1. Archives \subseteq UNION {{JavaPath(JavaOf(m), p) : p \in MirroredFor(m)} : m \in ToSet(build.done)}
      BY Zenon DEF Archives
    <3> QED BY <1>1, <3>1, Zenon
  <2>2. PICK p \in MirroredFor(m) : path = JavaPath(JavaOf(m), p)
    BY <2>1
  <2>3. <<JavaOf(m), p>> \in Package
    BY DEF MirroredFor
  <2> DEFINE q == <<JavaOf(m), p>>
  <2>4. path = JavaPath(q[1], q[2]) /\ q \in Package
    BY <2>2, <2>3
  <2> HIDE DEF path, q
  <2> QED BY <2>4 DEF Files, JavaPaths
<1>3. served' = served \cup {path} /\ torn' \subseteq torn \cup {path}
      /\ UNCHANGED <<away, metas, indices, manifest, build, builds>>
  BY DEF MirrorJava
<1> QED BY <1>2, <1>3, AddingTyped

\* Metadata of the instance it is saved for.
LEMMA DoneIsMeta ==
    ASSUME IInv, build.step \in Finished, NEW n \in DOMAIN build.done
    PROVE  build.done[n] \in Metas /\ build.done[n].id \in Id
<1>1. BuildType /\ DoneNoted
  BY AtWork DEF IInv, Finished
<1>2. build.done[n] = Meta(build.spec.instances[n], build.spec.mirror)
  BY <1>1 DEF DoneNoted
<1>3. build.spec.instances[n] \in InstanceSpec /\ build.spec.mirror \in BOOLEAN
  BY <1>1, DoneInstance
<1> QED BY <1>2, <1>3, MetasAre, MetaId

\* A metadata file that is put there says what the build has done.
LEMMA PutMetadataTyped ==
    ASSUME IInv, ServerType, PutMetadata
    PROVE  ServerType'
<1> DEFINE m == NextMeta
<1>1. m \in Metas /\ m.id \in Id
  BY NextIsDone, DoneIsMeta DEF PutMetadata, Finished
<1>2. /\ metas' = [metas EXCEPT ![m.id] = m]
      /\ served' = served \cup {MetaPath(m.id)} /\ away' \subseteq away
      /\ UNCHANGED <<indices, torn, manifest, builds>>
  BY DEF PutMetadata, Put
<1>3. build # Idle /\ build'.tasks = build.tasks /\ build'.copies = build.copies
  BY NextIsDone DEF PutMetadata, BuildType, Idle
<1> HIDE DEF m
<1>4. OfItsId(metas')
  BY <1>1, <1>2 DEF ServerType, OfItsId
<1>5. ServedType'
  BY <1>1, <1>2 DEF ServerType, ServedType, MetaPaths, ServerPaths
<1>6. MetasSaid'
  <2> SUFFICES ASSUME NEW id \in Id, MetaPath(id) \in served' PROVE metas'[id] # None
    BY DEF MetasSaid
  <2>1. CASE id = m.id
    BY <1>1, <1>2, <2>1, NoneAssumption DEF ServerType, OfItsId
  <2>2. CASE id # m.id
    <3>1. MetaPath(id) \in served
      BY <1>2, <2>2, MetaPathsDiffer
    <3> QED BY <1>1, <1>2, <2>2, <3>1 DEF ServerType, OfItsId, MetasSaid
  <2> QED BY <2>1, <2>2
<1>7. BuildFiles'
  BY <1>3 DEF ServerType, BuildFiles, TaskPaths
<1>8. OfItsId(manifest')
  BY <1>2 DEF ServerType
<1> QED BY <1>2, <1>4, <1>5, <1>6, <1>7, <1>8 DEF ServerType

\* The manifest lists each instance under its id.
LEMMA PutManifestTyped ==
    ASSUME IInv, ServerType, PutManifest
    PROVE  ServerType'
<1> DEFINE done == ToSet(build.done)
<1>1. build.step = "save" /\ BuildType
  BY AtWork DEF IInv, PutManifest, Saved
<1>2. \A m \in done : m \in Metas /\ m.id \in Id
  BY <1>1, DoneIsMeta DEF Finished, ToSet
<1>3. /\ manifest' = [id \in Id |-> IF \E m \in done : m.id = id
                                    THEN CHOOSE m \in done : m.id = id ELSE None]
      /\ build' = [build EXCEPT !.step = "clean"]
      /\ Put(ManifestPath) /\ UNCHANGED <<metas, indices, torn, builds>>
  BY DEF PutManifest, Step
<1>4. build'.tasks = build.tasks /\ build'.copies = build.copies
  BY <1>1, <1>3 DEF BuildType
<1> HIDE DEF done
<1>5. ASSUME NEW id \in Id
      PROVE  manifest'[id] \in Metas \cup {None} /\ (manifest'[id] # None => manifest'[id].id = id)
  <2>1. CASE \E m \in done : m.id = id
    <3>1. manifest'[id] = CHOOSE m \in done : m.id = id
      BY <1>3, <2>1
    <3>2. manifest'[id] \in done /\ manifest'[id].id = id
      BY <2>1, <3>1
    <3> QED BY <1>2, <3>2
  <2>2. CASE ~\E m \in done : m.id = id
    BY <1>3, <2>2
  <2> QED BY <2>1, <2>2
<1>6. OfItsId(manifest')
  <2>1. manifest' = [id \in Id |-> manifest'[id]]
    BY <1>3
  <2> QED BY <1>5, <2>1 DEF OfItsId
<1>7. BuildFiles'
  BY <1>1, <1>4 DEF ServerType, BuildFiles, TaskPaths, Idle
<1>8. (ServedType /\ MetasSaid)' /\ OfItsId(metas')
  <2>1. \A id : MetaPath(id) # ManifestPath
    BY DEF MetaPath, ManifestPath
  <2>2. served' = served \cup {ManifestPath} /\ away' \subseteq away
    BY <1>3 DEF Put
  <2> QED BY <1>3, <2>1, <2>2 DEF ServerType, ServedType, MetasSaid, ServerPaths
<1> QED BY <1>3, <1>6, <1>7, <1>8 DEF ServerType

\* Fewer files; those that stay say what they said.
LEMMA CleanUpTyped ==
    ASSUME IInv, ServerType, CleanUp
    PROVE  ServerType'
<1>1. /\ served' = served \ {Some(Stale)} /\ torn' = torn \ {Some(Stale)}
      /\ UNCHANGED <<away, metas, indices, manifest, build, builds>>
  BY DEF CleanUp
<1>2. (ServedType /\ MetasSaid)'
  BY <1>1 DEF ServerType, ServedType, MetasSaid
<1>3. BuildFiles'
  BY <1>1 DEF ServerType, BuildFiles, TaskPaths
<1> QED BY <1>1, <1>2, <1>3 DEF ServerType

\* The build moves on, and keeps its tasks.
LEMMA MovingTyped ==
    ASSUME ServerType, build # Idle, build'.tasks = build.tasks, build'.copies = build.copies,
           UNCHANGED <<served, away, metas, indices, torn, manifest, builds>>
    PROVE  ServerType'
<1>1. (ServedType /\ MetasSaid)'
  BY DEF ServerType, ServedType, MetasSaid
<1>2. BuildFiles'
  BY DEF ServerType, BuildFiles, TaskPaths
<1> QED BY <1>1, <1>2 DEF ServerType

\* The phases that only follow one another.
LEMMA StepTyped ==
    ASSUME IInv, ServerType, build.step # "idle",
           NEW to, build' = [build EXCEPT !.step = to],
           UNCHANGED <<served, away, metas, indices, torn, manifest, builds>>
    PROVE  ServerType'
<1>1. BuildType /\ build # Idle
  BY AtWork DEF IInv, Idle
<1>2. build'.tasks = build.tasks /\ build'.copies = build.copies
  BY <1>1 DEF BuildType
<1> QED BY <1>1, <1>2, MovingTyped

\* So does the one that completes the metadata, as to files.
LEMMA MirroredTyped ==
    ASSUME IInv, ServerType, Mirrored
    PROVE  ServerType'
<1>1. BuildType /\ build # Idle
  BY AtWork DEF IInv, Mirrored, Idle
<1>2. build'.tasks = build.tasks /\ build'.copies = build.copies
  BY <1>1 DEF BuildType, Mirrored
<1> QED BY <1>1, <1>2, MovingTyped DEF Mirrored

\* A build begins without tasks, and may end anywhere.
LEMMA StartEndTyped ==
    ASSUME IInv, ServerType, (\E spec \in Specs : StartBuild(spec)) \/ EndBuild
    PROVE  ServerType'
<1>1. /\ UNCHANGED <<served, away, metas, indices, torn, manifest>>
      /\ builds' \in 0 .. MaxBuilds
  <2>1. ASSUME NEW spec \in Specs, StartBuild(spec) PROVE builds' \in 0 .. MaxBuilds
    BY <2>1, BoundAssumption DEF StartBuild, ServerType
  <2> QED BY <2>1 DEF StartBuild, EndBuild, ServerType
<1>2. BuildFiles'
  <2>1. CASE \E spec \in Specs : StartBuild(spec)
    <3>1. build'.tasks = {} /\ build'.copies = {}
      BY <2>1 DEF StartBuild
    <3> QED BY <3>1 DEF BuildFiles, TaskPaths
  <2>2. CASE EndBuild
    BY <2>2 DEF EndBuild, BuildFiles
  <2> QED BY <2>1, <2>2
<1>3. (ServedType /\ MetasSaid)'
  BY <1>1 DEF ServerType, ServedType, MetasSaid
<1> QED BY <1>1, <1>2, <1>3 DEF ServerType

\* Every step of the builder.
LEMMA PublishTyped ==
    ASSUME IInv, ServerType, Publish
    PROVE  ServerType'
<1>1. CASE (\E spec \in Specs : StartBuild(spec)) \/ EndBuild
  BY <1>1, StartEndTyped
<1>2. CASE WithdrawIndex \/ PutIndex
  BY <1>2, IndexTyped
<1>3. CASE Generate
  BY <1>3, GenerateTyped
<1>4. CASE Collected \/ Downloaded \/ Copied
  BY <1>4, StepTyped DEF Collected, Downloaded, Copied, Step
<1>5. CASE Download
  BY <1>5, DownloadTyped
<1>6. CASE Copy
  BY <1>6, CopyTyped
<1>7. ASSUME NEW whole \in BOOLEAN, MirrorJava(whole) PROVE ServerType'
  BY <1>7, MirrorTyped
<1>8. CASE Mirrored
  BY <1>8, MirroredTyped
<1>9. CASE WithdrawMetadata
  BY <1>9, NoneIsJava, WithdrawTyped DEF WithdrawMetadata
<1>10. CASE PutMetadata
  BY <1>10, PutMetadataTyped
<1>11. CASE WithdrawManifest
  BY <1>11, NoneIsJava, WithdrawTyped DEF WithdrawManifest
<1>12. CASE PutManifest
  BY <1>12, PutManifestTyped
<1>13. CASE CleanUp
  BY <1>13, CleanUpTyped
<1> QED BY <1>1, <1>2, <1>3, <1>4, <1>5, <1>6, <1>7, <1>8, <1>9, <1>10, <1>11, <1>12, <1>13 DEF Publish

\* And the steps of the launcher.
LEMMA ServerStutters ==
    ASSUME ServerType, UNCHANGED serverVars
    PROVE  ServerType'
BY DEF ServerType, serverVars, ServedType, MetasSaid, BuildFiles, TaskPaths

\* An empty directory.
LEMMA ServerInit == PublishingInit => ServerType
BY BoundAssumption DEF PublishingInit, ServerType, ServedType, MetasSaid, BuildFiles, OfItsId

-----------------------------------------------------------------------------
(***************************************************************************)
(* What a launcher keeps.                                                  *)
(***************************************************************************)
WantedMetas == {m \in Metas : m.id = Wanted}
TodoPaths   == {t.path : t \in sync.todo}

SyncType ==
    /\ DOMAIN sync = {"step", "cause", "meta", "todo"}
    /\ sync.step \in {"check", "download", "java", "launch"}
    /\ sync.meta \in WantedMetas
    /\ TodoPaths \subseteq Files

LauncherType ==
    /\ platform \in Platform
    /\ {known, stored, verified} \subseteq WantedMetas \cup {None}
    /\ local \subseteq Files /\ localIndices \in [IndexId -> SUBSET Objects]
    /\ natives \subseteq local /\ javas \subseteq Java \cup {JavaOf(m) : m \in Metas}
    /\ sync # Idle => SyncType

\* All that a launch of it names is among the files, on a platform and with indices that
\* name these objects.
HasAll(m, p, indexed, files) ==
    /\ \A v \in ToSet(m.versions) : v.index # NoIndex =>
          /\ IndexPath(v.index.id) \in files
          /\ \A o \in indexed[v.index.id] : ObjectPath(o) \in files
    /\ ClientTask(m).path \in files
    /\ {t.path : t \in LibraryCheckTasks(m, p)} \subseteq files

\* It is there, or still to be downloaded; it is there.
Downloading == sync.step = "download" /\ ChecksResources =>
                   HasAll(Now, platform, localIndices, local \cup TodoPaths)
IsVerified  == verified # None => HasAll(verified, platform, localIndices, local)
Extracted   == sync.step \in {"java", "launch"} => natives = NativeLibraryPaths(Now, platform)
JavaFound   == sync.step = "launch" => JavaOf(Now) \in javas

LauncherInv == LauncherType /\ Downloading /\ IsVerified /\ Extracted /\ JavaFound

\* With more files, and the same indices, nothing is missed that was not.
LEMMA StillHasAll ==
    ASSUME NEW m, NEW p, NEW indexed, NEW files, NEW more, HasAll(m, p, indexed, files), files \subseteq more
    PROVE  HasAll(m, p, indexed, more)
BY DEF HasAll

\* A sync that is not under way asks nothing.
LEMMA IdleKeeps ==
    ASSUME sync = Idle PROVE Downloading /\ Extracted /\ JavaFound
BY DEF Idle, Downloading, Extracted, JavaFound

\* A sync that is under way is typed.
LEMMA AtSync ==
    ASSUME LauncherInv, sync.step # "idle"
    PROVE  SyncType /\ sync # Idle /\ Now \in WantedMetas
BY DEF LauncherInv, LauncherType, Idle, SyncType, Now

\* With the files of the launcher as they were, what was verified still is.
LEMMA StillVerified ==
    ASSUME IsVerified, local \subseteq local', localIndices' = localIndices, platform' = platform,
           verified' = verified
    PROVE  IsVerified'
<1> SUFFICES ASSUME verified # None PROVE HasAll(verified, platform, localIndices, local')
  BY DEF IsVerified
<1>1. HasAll(verified, platform, localIndices, local)
  BY DEF IsVerified
<1> QED BY <1>1, StillHasAll

\* What the catalog names is metadata of the wanted instance.
LEMMA RefreshKeeps ==
    ASSUME ServerType, LauncherInv, Refresh
    PROVE  LauncherInv'
<1>1. manifest[Wanted] \in WantedMetas \cup {None}
  BY WantedAssumption DEF ServerType, OfItsId, WantedMetas
<1>2. /\ known' = manifest[Wanted]
      /\ UNCHANGED <<platform, stored, local, localIndices, natives, javas, sync, verified>>
  BY DEF Refresh
<1>3. LauncherType'
  BY <1>1, <1>2 DEF LauncherInv, LauncherType, SyncType, TodoPaths
<1>4. IsVerified'
  BY <1>2, StillVerified DEF LauncherInv
<1>5. (Downloading /\ Extracted /\ JavaFound)'
  BY <1>2 DEF LauncherInv, Downloading, Extracted, JavaFound, TodoPaths, ChecksResources, Now
<1> QED BY <1>3, <1>4, <1>5 DEF LauncherInv

\* So is what a sync begins with, read from a file that is served or stored.
LEMMA BeginKeeps ==
    ASSUME ServerType, LauncherInv, NEW cause, Begin(cause)
    PROVE  LauncherInv'
<1>1. PICK m : /\ m \in (IF MetaPath(Wanted) \in served THEN {metas[Wanted]} ELSE {})
                           \cup (IF stored = known THEN {stored} ELSE {})
               /\ sync' = [step |-> "check", cause |-> cause, meta |-> m, todo |-> {}]
  BY DEF Begin
<1>2. m \in WantedMetas
  <2>1. CASE MetaPath(Wanted) \in served /\ m = metas[Wanted]
    BY <2>1, WantedAssumption DEF ServerType, OfItsId, MetasSaid, WantedMetas
  <2>2. CASE stored = known /\ m = stored
    BY <2>2 DEF Begin, LauncherInv, LauncherType
  <2> QED BY <1>1, <2>1, <2>2
<1>3. UNCHANGED <<platform, known, stored, local, localIndices, natives, javas, verified>>
  BY DEF Begin
<1>4. SyncType' /\ sync'.step = "check"
  BY <1>1, <1>2 DEF SyncType, TodoPaths
<1>5. LauncherType'
  BY <1>3, <1>4 DEF LauncherInv, LauncherType
<1>6. IsVerified'
  BY <1>3, StillVerified DEF LauncherInv
<1> QED BY <1>4, <1>5, <1>6 DEF LauncherInv, Downloading, Extracted, JavaFound

\* The check: what is not there is put on the list.
LEMMA CheckKeeps ==
    ASSUME ServerType, LauncherInv, Check
    PROVE  LauncherInv'
<1>1. SyncType /\ sync # Idle /\ Now \in WantedMetas /\ sync.step = "check"
  BY AtSync DEF Check
<1>2. UNCHANGED <<platform, known, stored, natives, javas>>
  BY DEF Check
<1>3. CASE ~ChecksResources
  <2>1. sync' = [sync EXCEPT !.step = "download"] /\ UNCHANGED <<local, localIndices, verified>>
    BY <1>3 DEF Check
  <2>2. /\ DOMAIN sync' = DOMAIN sync /\ sync'.step = "download" /\ sync'.meta = sync.meta
        /\ sync'.todo = sync.todo /\ sync'.cause = sync.cause
    BY <1>1, <2>1 DEF SyncType
  <2>3. LauncherType'
    BY <1>1, <1>2, <2>1, <2>2 DEF LauncherInv, LauncherType, SyncType, TodoPaths
  <2>4. IsVerified'
    BY <1>2, <2>1, StillVerified DEF LauncherInv
  <2>5. ~ChecksResources'
    BY <1>3, <2>2 DEF ChecksResources, Now
  <2> QED BY <2>2, <2>3, <2>4, <2>5 DEF LauncherInv, Downloading, Extracted, JavaFound
<1>4. CASE ChecksResources
  <2> DEFINE objects == UNION {IndexRead(v) : v \in IndexVersions}
             todo    == {t \in InstallTasks(Now, platform, objects) : t.path \notin local}
  <2>1. /\ Parent(Now).client
        /\ local' = local \cup {IndexPath(v.index.id) : v \in IndexVersions}
        /\ localIndices' = [i \in IndexId |->
                               IF \E v \in IndexVersions : v.index.id = i
                               THEN IndexRead(CHOOSE v \in IndexVersions : v.index.id = i)
                               ELSE localIndices[i]]
        /\ sync' = [sync EXCEPT !.step = "download", !.todo = todo]
        /\ verified' = None
    BY <1>4, Zenon DEF Check
  <2>2. /\ DOMAIN sync' = DOMAIN sync /\ sync'.step = "download" /\ sync'.meta = sync.meta
        /\ sync'.todo = todo /\ sync'.cause = sync.cause
    <3> HIDE DEF todo
    <3> QED BY <1>1, <2>1 DEF SyncType
  <2>3. ASSUME NEW v \in IndexVersions
        PROVE  /\ v.index.id \in IndexId /\ IndexPath(v.index.id) \in Files
               /\ IndexRead(v) \in SUBSET Objects
    <3>1. /\ v.index.id \in IndexId /\ IndexPath(v.index.id) \in Files
          /\ v.index.objects \subseteq Objects
      BY <1>1, IndexOfMeta DEF IndexVersions, WantedMetas
    <3>2. indices[v.index.id] \in SUBSET Objects
      BY <3>1 DEF ServerType
    <3> QED BY <3>1, <3>2 DEF IndexRead
  <2>4. objects \in SUBSET Objects
    BY <2>3
  <2>5. ASSUME NEW v \in IndexVersions
        PROVE  /\ localIndices'[v.index.id] \subseteq objects
               /\ IndexPath(v.index.id) \in local'
    <3> DEFINE w == CHOOSE w \in IndexVersions : w.index.id = v.index.id
    <3>1. w \in IndexVersions
      OBVIOUS
    <3>2. localIndices'[v.index.id] = IndexRead(w)
      BY <2>1, <2>3
    <3> HIDE DEF w
    <3>3. IndexRead(w) \subseteq objects
      BY <3>1, Zenon
    <3> QED BY <2>1, <3>2, <3>3
  <2>6. \A t \in InstallTasks(Now, platform, objects) : t.path \in local' \cup TodoPaths'
    <3> HIDE DEF objects
    <3>1. TodoPaths' = {t.path : t \in todo}
      BY <2>2 DEF TodoPaths
    <3> QED BY <2>1, <3>1
  <2>7. HasAll(Now, platform, localIndices', local' \cup TodoPaths')
    <3>2. ASSUME NEW v \in ToSet(Now.versions), v.index # NoIndex
          PROVE  /\ IndexPath(v.index.id) \in local'
                 /\ \A o \in localIndices'[v.index.id] : ObjectPath(o) \in local' \cup TodoPaths'
      <4>1. v \in IndexVersions
        BY <3>2 DEF IndexVersions
      <4> SUFFICES ASSUME NEW o \in localIndices'[v.index.id]
                   PROVE  ObjectPath(o) \in local' \cup TodoPaths'
        BY <2>5, <4>1
      <4>2. o \in objects
        BY <2>5, <4>1
      <4> DEFINE t == Task(ObjectPath(o), Now.objects)
      <4> HIDE DEF objects
      <4>3. t \in ObjectTasks(objects, Now.objects)
        BY <4>2 DEF ObjectTasks
      <4>4. t \in InstallTasks(Now, platform, objects)
        BY <4>3 DEF InstallTasks
      <4>5. t.path = ObjectPath(o)
        BY DEF Task
      <4> HIDE DEF t
      <4> QED BY <2>6, <4>4, <4>5
    <3>3. ClientTask(Now).path \in local' \cup TodoPaths'
      <4>1. ClientTask(Now) \in InstallTasks(Now, platform, objects)
        BY <2>1 DEF InstallTasks
      <4> QED BY <2>6, <4>1
    <3>4. {t.path : t \in LibraryCheckTasks(Now, platform)} \subseteq local' \cup TodoPaths'
      <4>1. LibraryCheckTasks(Now, platform) \subseteq InstallTasks(Now, platform, objects)
        BY DEF InstallTasks
      <4> HIDE DEF objects
      <4> QED BY <2>6, <4>1
    <3> HIDE DEF objects, todo
    <3> QED BY <3>2, <3>3, <3>4 DEF HasAll
  <2>8. LauncherType'
    <3>1. local' \subseteq Files /\ local \subseteq local'
      BY <2>1, <2>3 DEF LauncherInv, LauncherType
    <3>2. localIndices' \in [IndexId -> SUBSET Objects]
      <4>1. ASSUME NEW i \in IndexId PROVE localIndices'[i] \in SUBSET Objects
        <5>1. CASE \E v \in IndexVersions : v.index.id = i
          BY <2>4, <2>5, <5>1
        <5>2. CASE ~\E v \in IndexVersions : v.index.id = i
          BY <2>1, <5>2 DEF LauncherInv, LauncherType
        <5> QED BY <5>1, <5>2
      <4>2. localIndices' = [i \in IndexId |-> localIndices'[i]]
        BY <2>1
      <4> QED BY <4>1, <4>2
    <3>3. TodoPaths' \subseteq Files
      <4>1. \A t \in InstallTasks(Now, platform, objects) : t.path \in Files
        BY <1>1, <2>4, InstallsFiles DEF WantedMetas
      <4> HIDE DEF objects
      <4> QED BY <2>2, <4>1 DEF TodoPaths
    <3>4. SyncType'
      BY <1>1, <2>2, <3>3 DEF SyncType
    <3> QED BY <1>2, <2>1, <3>1, <3>2, <3>4 DEF LauncherInv, LauncherType
  <2>9. Downloading'
    <3>1. Now' = Now
      BY <2>2 DEF Now
    <3> HIDE DEF objects, todo
    <3> QED BY <1>2, <2>7, <3>1 DEF Downloading
  <2>10. (Extracted /\ JavaFound)'
    BY <2>2 DEF Extracted, JavaFound
  <2>11. IsVerified'
    BY <2>1 DEF IsVerified
  <2> QED BY <2>8, <2>9, <2>10, <2>11 DEF LauncherInv
<1> QED BY <1>3, <1>4

\* What was to be downloaded is there, or still to be downloaded.
LEMMA FetchKeeps ==
    ASSUME LauncherInv, Fetch
    PROVE  LauncherInv'
<1> DEFINE Had == {t \in sync.todo : Available(t.from)}
<1>1. /\ sync.step = "download"
      /\ local' = local \cup {t.path : t \in Had}
      /\ sync' = [sync EXCEPT !.todo = @ \ Had]
      /\ UNCHANGED <<platform, known, stored, localIndices, natives, javas, verified>>
  <2>1. sync.step = "download"
    BY DEF Fetch
  <2> QED BY <2>1 DEF Fetch
<1> HIDE DEF Had
<1>2. SyncType /\ sync # Idle /\ Now \in WantedMetas
  BY <1>1, AtSync
<1>3. /\ DOMAIN sync' = DOMAIN sync /\ sync'.step = "download" /\ sync'.meta = sync.meta
      /\ sync'.todo = sync.todo \ Had /\ sync'.cause = sync.cause
  BY <1>1, <1>2 DEF SyncType
<1>4. Had \subseteq sync.todo
  BY DEF Had
<1>5. /\ TodoPaths \subseteq local' \cup TodoPaths' /\ TodoPaths' \subseteq TodoPaths
      /\ local' \subseteq local \cup TodoPaths
  BY <1>1, <1>3, <1>4 DEF TodoPaths
<1>6. LauncherType'
  <2>1. SyncType'
    BY <1>2, <1>3, <1>5 DEF SyncType
  <2>2. local' \subseteq Files /\ natives' \subseteq local'
    BY <1>1, <1>2, <1>5 DEF LauncherInv, LauncherType, SyncType
  <2> QED BY <1>1, <2>1, <2>2 DEF LauncherInv, LauncherType
<1>7. Downloading'
  <2>1. Now' = Now /\ ChecksResources' = ChecksResources
    BY <1>3 DEF Now, ChecksResources
  <2> SUFFICES ASSUME ChecksResources PROVE HasAll(Now, platform, localIndices, local' \cup TodoPaths')
    BY <1>1, <2>1 DEF Downloading
  <2>2. HasAll(Now, platform, localIndices, local \cup TodoPaths)
    BY <1>1 DEF LauncherInv, Downloading
  <2>3. local \cup TodoPaths \subseteq local' \cup TodoPaths'
    BY <1>1, <1>5
  <2> QED BY <2>2, <2>3, StillHasAll
<1>8. IsVerified'
  BY <1>1, StillVerified DEF LauncherInv
<1> QED BY <1>3, <1>6, <1>7, <1>8 DEF LauncherInv, Extracted, JavaFound

\* The downloads are over: nothing is missed, and the natives are those of the metadata.
LEMMA ExtractKeeps ==
    ASSUME LauncherInv, Extract
    PROVE  LauncherInv'
<1>1. /\ sync.step = "download" /\ sync.todo = {}
      /\ NativeLibraryPaths(Now, platform) \subseteq local
      /\ natives' = NativeLibraryPaths(Now, platform)
      /\ verified' = IF ChecksResources THEN Now ELSE verified
      /\ sync' = [sync EXCEPT !.step = "java"]
      /\ UNCHANGED <<platform, known, stored, local, localIndices, javas>>
  BY DEF Extract
<1>2. SyncType /\ sync # Idle /\ Now \in WantedMetas
  BY <1>1, AtSync
<1>3. /\ DOMAIN sync' = DOMAIN sync /\ sync'.step = "java" /\ sync'.meta = sync.meta
      /\ sync'.todo = sync.todo
  BY <1>1, <1>2 DEF SyncType
<1>4. Now' = Now
  BY <1>3 DEF Now
<1>5. LauncherType'
  <2>1. SyncType'
    BY <1>2, <1>3 DEF SyncType, TodoPaths
  <2> QED BY <1>1, <1>2, <2>1 DEF LauncherInv, LauncherType
<1>6. IsVerified'
  <2>1. CASE ChecksResources
    <3>1. verified' = Now /\ TodoPaths = {}
      BY <1>1, <2>1 DEF TodoPaths
    <3>2. HasAll(Now, platform, localIndices, local \cup TodoPaths)
      BY <1>1, <2>1 DEF LauncherInv, Downloading
    <3>3. HasAll(Now, platform, localIndices, local)
      BY <3>1, <3>2, StillHasAll
    <3> QED BY <1>1, <3>1, <3>3 DEF IsVerified
  <2>2. CASE ~ChecksResources
    <3>1. verified' = verified
      BY <1>1, <2>2
    <3> QED BY <1>1, <3>1, StillVerified DEF LauncherInv
  <2> QED BY <2>1, <2>2
<1>7. Extracted'
  BY <1>1, <1>4 DEF Extracted
<1> QED BY <1>3, <1>5, <1>6, <1>7 DEF LauncherInv, Downloading, JavaFound

\* Java is found before anything is launched.
LEMMA FinishKeeps ==
    ASSUME LauncherInv, Finish
    PROVE  LauncherInv'
<1>1. /\ sync.step = "java"
      /\ javas' = javas \cup {JavaOf(Now)}
      /\ stored' = Now
      /\ sync' = IF sync.cause = "run" THEN [sync EXCEPT !.step = "launch"] ELSE Idle
      /\ UNCHANGED <<platform, known, local, localIndices, natives, verified>>
  BY DEF Finish
<1>2. SyncType /\ sync # Idle /\ Now \in WantedMetas
  BY <1>1, AtSync
<1>3. javas' \subseteq Java \cup {JavaOf(m) : m \in Metas}
  BY <1>1, <1>2 DEF LauncherInv, LauncherType, WantedMetas
<1>4. IsVerified'
  BY <1>1, StillVerified DEF LauncherInv
<1>5. CASE sync.cause = "run"
  <2>1. /\ DOMAIN sync' = DOMAIN sync /\ sync'.step = "launch" /\ sync'.meta = sync.meta
        /\ sync'.todo = sync.todo
    BY <1>1, <1>2, <1>5 DEF SyncType
  <2>2. Now' = Now
    BY <2>1 DEF Now
  <2>3. SyncType'
    BY <1>2, <2>1 DEF SyncType, TodoPaths
  <2>4. LauncherType'
    BY <1>1, <1>2, <1>3, <2>3 DEF LauncherInv, LauncherType
  <2>5. Extracted'
    BY <1>1, <2>2 DEF LauncherInv, Extracted
  <2>6. JavaFound'
    BY <1>1, <2>2 DEF JavaFound
  <2> QED BY <1>4, <2>1, <2>4, <2>5, <2>6 DEF LauncherInv, Downloading
<1>6. CASE sync.cause # "run"
  <2>1. sync' = Idle
    BY <1>1, <1>6
  <2>2. LauncherType'
    BY <1>1, <1>2, <1>3, <2>1 DEF LauncherInv, LauncherType, Idle
  <2> QED BY <1>4, <2>1, <2>2 DEF LauncherInv, Idle, Downloading, Extracted, JavaFound
<1> QED BY <1>5, <1>6

\* A sync that ends leaves the files.
LEMMA StopKeeps ==
    ASSUME LauncherInv, Stop \/ Launch
    PROVE  LauncherInv'
<1>1. /\ sync' = Idle
      /\ UNCHANGED <<platform, known, stored, local, localIndices, natives, javas, verified>>
  BY DEF Stop, Launch
<1>2. LauncherType'
  BY <1>1 DEF LauncherInv, LauncherType, Idle
<1>3. IsVerified'
  BY <1>1, StillVerified DEF LauncherInv
<1> QED BY <1>1, <1>2, <1>3 DEF LauncherInv, Idle, Downloading, Extracted, JavaFound

\* The builder leaves the launcher alone.
LEMMA LauncherStutters ==
    ASSUME LauncherInv, UNCHANGED launcherVars
    PROVE  LauncherInv'
<1>1. UNCHANGED <<platform, known, stored, local, localIndices, natives, javas, sync, verified>>
  BY DEF launcherVars
<1>2. LauncherType'
  BY <1>1 DEF LauncherInv, LauncherType, SyncType, TodoPaths
<1>3. IsVerified'
  BY <1>1, StillVerified DEF LauncherInv
<1>4. (Downloading /\ Extracted /\ JavaFound)'
  BY <1>1 DEF LauncherInv, Downloading, Extracted, JavaFound, TodoPaths, ChecksResources, Now
<1> QED BY <1>2, <1>3, <1>4 DEF LauncherInv

\* The builder and its launcher.
Both == IInv /\ ServerType /\ LauncherInv

\* Every step of the launcher.
LEMMA LauncherKeeps ==
    ASSUME Both, LauncherNext
    PROVE  Both'
<1>1. UNCHANGED serverVars
  BY DEF LauncherNext, Refresh, Begin, Check, Fetch, Extract, Finish, Stop, Launch
<1>2. IInv' /\ ServerType'
  BY <1>1, StutteringKeeps, ServerStutters DEF Both
<1>3. LauncherInv'
  BY RefreshKeeps, BeginKeeps, CheckKeeps, FetchKeeps, ExtractKeeps, FinishKeeps, StopKeeps
  DEF LauncherNext, Both
<1> QED BY <1>2, <1>3 DEF Both

\* Every step of either.
LEMMA BothKept == Both /\ [Next]_vars => Both'
<1> SUFFICES ASSUME Both, [Next]_vars PROVE Both'
  OBVIOUS
<1>1. CASE Publish /\ UNCHANGED launcherVars
  BY <1>1, PublishKeeps, PublishTyped, LauncherStutters DEF Both
<1>2. CASE LauncherNext
  BY <1>2, LauncherKeeps
<1>3. CASE UNCHANGED vars
  <2>1. UNCHANGED serverVars /\ UNCHANGED launcherVars
    BY <1>3 DEF vars
  <2> QED BY <2>1, StutteringKeeps, ServerStutters, LauncherStutters DEF Both
<1> QED BY <1>1, <1>2, <1>3 DEF Next

\* A launcher with nothing, beside an empty directory.
LEMMA BothHold == Init => Both
<1> SUFFICES ASSUME Init PROVE Both
  OBVIOUS
<1>1. IInv /\ ServerType
  BY InitHolds, ServerInit DEF Init
<1>2. /\ platform \in Platform /\ known = None /\ stored = None /\ verified = None
      /\ local = {} /\ localIndices = [i \in IndexId |-> {}]
      /\ natives = {} /\ sync = Idle /\ javas \in SUBSET Java
  BY DEF Init
<1>3. LauncherInv
  BY <1>2, IdleKeeps DEF LauncherInv, LauncherType, IsVerified
<1> QED BY <1>1, <1>3 DEF Both

\* What a launch names is among what was verified.
LEMMA VerifiedIsLaunchable ==
    ASSUME LauncherInv, sync.step = "launch", verified = Now
    PROVE  Launchable(Now, platform)
<1>1. Now \in WantedMetas
  BY AtSync
<1>2. Now \in Metas /\ Now.id = Wanted /\ Now # None
  BY <1>1, NoneAssumption DEF WantedMetas
<1>3. HasAll(Now, platform, localIndices, local)
  BY <1>2 DEF LauncherInv, IsVerified
<1>4. PICK i \in InstanceSpec, mirror \in BOOLEAN : Now = Meta(i, mirror)
  BY <1>2, MetasAre
<1>5. /\ 1 \in DOMAIN i.versions /\ Parent(Now) = Now.versions[1]
      /\ Parent(Now) \in ToSet(Now.versions)
  <2>1. 1 \in DOMAIN i.versions /\ Parent(Now) = Now.versions[1]
    BY <1>4, ParentIsFirst
  <2>2. DOMAIN Now.versions = DOMAIN i.versions
    BY <1>4, MetaFields
  <2> QED BY <2>1, <2>2 DEF ToSet
<1>6. Parent(Now).index # NoIndex
  <2>1. i.id = Wanted
    BY <1>2, <1>4, MetaFields
  <2>2. i.versions[1].index # NoIndex
    BY <2>1, <1>5, WantedAssumption
  <2>3. \/ Parent(Now) = ReplacedVersion(Overridden(i.versions[1]))
        \/ Parent(Now) = Overridden(i.versions[1])
    BY <1>4, <1>5, MetaFields
  <2>4. Overridden(i.versions[1]).index = i.versions[1].index
    BY DEF Overridden
  <2>5. ReplacedVersion(Overridden(i.versions[1])).index = i.versions[1].index
    BY <2>4 DEF ReplacedVersion
  <2> QED BY <2>2, <2>3, <2>4, <2>5
<1>7. ASSUME NEW l \in EffectiveLibraries(Now, platform), HasArtifact(l) PROVE LibraryPath(l) \in local
  <2>1. LibraryPath(l) \in FilesOf(l, platform)
    BY <1>7 DEF FilesOf
  <2>2. PICK t \in LibraryTasks(l, platform) : t.path = LibraryPath(l)
    BY <2>1, TaskOfFile
  <2>3. t \in LibraryCheckTasks(Now, platform)
    BY <2>2 DEF LibraryCheckTasks
  <2> QED BY <1>3, <2>2, <2>3 DEF HasAll
<1>8. LibraryPath(Now.authlib) \in local
  <2>1. LibraryPath(Now.authlib) \in FilesOf(Now.authlib, All)
    BY <1>4, AuthlibIsAJar DEF FilesOf
  <2>2. PICK t \in LibraryTasks(Now.authlib, All) : t.path = LibraryPath(Now.authlib)
    BY <2>1, TaskOfFile
  <2>3. t \in LibraryCheckTasks(Now, platform)
    BY <2>2 DEF LibraryCheckTasks
  <2> QED BY <1>3, <2>2, <2>3 DEF HasAll
<1>9. ClientPath(Child(Now).id) \in local
  <2>1. ClientTask(Now).path = ClientPath(Child(Now).id)
    BY DEF ClientTask
  <2> QED BY <1>3, <2>1 DEF HasAll
<1>10. ClasspathPaths(Now, platform) \subseteq local
  BY <1>7, <1>9 DEF ClasspathPaths
<1>11. /\ IndexPath(Parent(Now).index.id) \in local
       /\ {ObjectPath(o) : o \in localIndices[Parent(Now).index.id]} \subseteq local
  BY <1>3, <1>5, <1>6 DEF HasAll
<1>12. LaunchPaths(Now, platform) \subseteq local
  BY <1>8, <1>10, <1>11 DEF LaunchPaths
<1>13. natives = NativeLibraryPaths(Now, platform) /\ JavaOf(Now) \in javas
  BY DEF LauncherInv, Extracted, JavaFound
<1> QED BY <1>6, <1>12, <1>13 DEF Launchable

\* A launch right after a sync that has verified its metadata finds all that its command
\* names (build_launch_arguments), whatever was published, deleted or cut off meanwhile.
THEOREM LaunchesComplete == Spec => []LaunchComplete
<1>1. Both => LaunchComplete
  BY VerifiedIsLaunchable DEF Both, LaunchComplete
<1> QED BY <1>1, BothHold, BothKept, PTL DEF Spec

\* What a listed instance needs is served, or away to be replaced, while launchers come and
\* go.
THEOREM ServesLaunchers == Spec => []AlwaysServed
<1>1. Both => AlwaysServed
  BY DEF Both, IInv
<1> QED BY <1>1, BothHold, BothKept, PTL DEF Spec

\* Builder and launcher keep their types: what is served, and what is installed, are
\* files some instance names, and the metadata a sync works on is one of those.
THEOREM TypeCorrect == Spec => []TypeOK
<1>1. ASSUME Both PROVE TypeOK
  <2>1. /\ served \subseteq Paths /\ away \subseteq Paths /\ torn \subseteq served
        /\ metas \in [Id -> Metas \cup {None}] /\ manifest \in [Id -> Metas \cup {None}]
        /\ indices \in [IndexId -> SUBSET Objects]
        /\ builds \in 0 .. MaxBuilds
    BY <1>1, FilesArePaths DEF Both, ServerType, ServedType, OfItsId
  <2>2. build = Idle \/ build.step \in {"generate", "download", "copy", "java", "save", "clean"}
    BY <1>1 DEF Both, IInv, BuildInv, BuildType
  <2>3. /\ platform \in Platform
        /\ {known, stored, verified} \subseteq Metas \cup {None}
        /\ local \subseteq Paths /\ localIndices \in [IndexId -> SUBSET Objects]
        /\ natives \subseteq local /\ javas \subseteq Java \cup {JavaOf(m) : m \in Metas}
    BY <1>1, FilesArePaths DEF Both, LauncherInv, LauncherType, WantedMetas, ServerPaths
  <2>4. sync # Idle => sync.step \in {"check", "download", "java", "launch"} /\ sync.meta \in Metas
    BY <1>1 DEF Both, LauncherInv, LauncherType, SyncType, WantedMetas
  <2> QED BY <2>1, <2>2, <2>3, <2>4 DEF TypeOK
<1> QED BY <1>1, BothHold, BothKept, PTL DEF Spec
================================================================================
