------------------------------- MODULE Launching -------------------------------
(***************************************************************************)
(* A launcher that installs and launches one instance (install_instance of *)
(* backend/src/install.rs, launch_instance of launch.rs, utils/src/java.rs)*)
(* from the directory the builder keeps changing (Publishing).             *)
(*                                                                         *)
(* Simplifications.  The mods and the other files of the instance are left *)
(* to InstanceSync; the account to Accounts.  Metadata stands for its      *)
(* hash; since the launcher writes the maps in it in another order than it *)
(* reads them, the file it wrote itself may be found not to match.  It     *)
(* replaces an asset index, the metadata, and the natives in one step;     *)
(* InstanceSync takes the steps of the latter two apart, and says what     *)
(* they leave when they are cut off.                                       *)
(***************************************************************************)
EXTENDS Publishing

CONSTANTS
    Wanted,      \* the id of the instance
    Java         \* versions of Java a player may have

VARIABLES
    platform,     \* where the launcher runs
    known,        \* the metadata its catalog names, or None
    stored,       \* that of its meta.json, or None
    local,        \* the files it has
    localIndices, \* what the asset indices among them name
    natives,      \* the natives that are extracted
    javas,        \* the versions of Java it finds
    sync,         \* the sync or launch under way
    verified      \* history: the metadata of the last full sync, if that got through its files

launcherVars == <<platform, known, stored, local, localIndices, natives, javas, sync, verified>>
vars == <<serverVars, launcherVars>>

Init ==
    /\ PublishingInit
    /\ platform \in Platform
    /\ known = None /\ stored = None /\ verified = None
    /\ local = {} /\ localIndices = [i \in IndexId |-> {}]
    /\ natives = {} /\ sync = Idle
    /\ javas \in SUBSET Java

-----------------------------------------------------------------------------
\* A fetch of the manifest.
Refresh ==
    /\ ManifestPath \in served
    /\ known' = manifest[Wanted] /\ known' # known
    /\ UNCHANGED <<serverVars, platform, stored, local, localIndices, natives, javas, sync, verified>>

\* read_or_fetch: the stored metadata if it is what the catalog names, else what the
\* server has by now.
Begin(cause) ==
    /\ sync = Idle /\ known # None
    /\ cause = "run" => stored # None
    /\ \E m \in (IF MetaPath(Wanted) \in served THEN {metas[Wanted]} ELSE {})
                    \cup (IF stored = known THEN {stored} ELSE {}) :
          sync' = [step |-> "check", cause |-> cause, meta |-> m, todo |-> {}]
    /\ UNCHANGED <<serverVars, platform, known, stored, local, localIndices, natives, javas, verified>>

Now == sync.meta

\* get_all_install_tasks: the resources are checked by an update, or always if the
\* instance says so.
ChecksResources == sync.cause = "update" \/ Now.always

\* AssetsMetadata::read_or_download: an index that is not what the metadata says is
\* replaced by what the server has.
IndexVersions == {v \in ToSet(Now.versions) : v.index # NoIndex}
IndexThere(v) == v.source = Hosted => IndexPath(v.index.id) \in served
IndexCurrent(v) == IndexPath(v.index.id) \in local /\ localIndices[v.index.id] = v.index.objects
IndexRead(v) ==
    IF IndexCurrent(v) \/ v.source # Hosted THEN v.index.objects ELSE indices[v.index.id]

Check ==
    /\ sync.step = "check"
    /\ IF ChecksResources
       THEN /\ Parent(Now).client
            /\ \A l \in EffectiveLibraries(Now, platform) : ~Broken(l)
            /\ \A v \in IndexVersions : IndexCurrent(v) \/ IndexThere(v)
            /\ local' = local \cup {IndexPath(v.index.id) : v \in IndexVersions}
            /\ localIndices' = [i \in IndexId |->
                                   IF \E v \in IndexVersions : v.index.id = i
                                   THEN IndexRead(CHOOSE v \in IndexVersions : v.index.id = i)
                                   ELSE localIndices[i]]
            /\ LET objects == UNION {IndexRead(v) : v \in IndexVersions}
               IN  sync' = [sync EXCEPT !.step = "download",
                               !.todo = {t \in InstallTasks(Now, platform, objects) : t.path \notin local}]
            /\ verified' = None
       ELSE /\ sync' = [sync EXCEPT !.step = "download"]
            /\ UNCHANGED <<local, localIndices, verified>>
    /\ UNCHANGED <<serverVars, platform, known, stored, natives, javas>>

\* What upstream has does not change.
Available(from) == from[1] = Upstream \/ (from[1] = Hosted /\ from[2] \in served)

\* download_files: what can be had, at once; for want of the rest the sync can only stop.
Fetch ==
    LET Had == IF sync.step = "download" THEN {t \in sync.todo : Available(t.from)} ELSE {}
    IN  /\ Had # {}
        /\ local' = local \cup {t.path : t \in Had}
        /\ sync' = [sync EXCEPT !.todo = @ \ Had]
        /\ UNCHANGED <<serverVars, platform, known, stored, localIndices, natives, javas, verified>>

\* extract_natives_if_needed, which fails where a jar is missing.
Extract ==
    /\ sync.step = "download" /\ sync.todo = {}
    /\ NativeLibraryPaths(Now, platform) \subseteq local
    /\ natives' = NativeLibraryPaths(Now, platform)
    /\ verified' = IF ChecksResources THEN Now ELSE verified
    /\ sync' = [sync EXCEPT !.step = "java"]
    /\ UNCHANGED <<serverVars, platform, known, stored, local, localIndices, javas>>

\* resolve_java: the Java that is found, else the mirrored one, else one of Azul's for
\* the platforms there are targets for.
JavaObtainable ==
    LET v == JavaOf(Now)
    IN  \/ v \in javas
        \/ platform \in Now.runtimes /\ JavaPath(v, platform) \in served \ torn
        \/ platform \notin Now.runtimes /\ platform \in MirrorTarget /\ <<v, platform>> \in Package

\* Then the metadata is saved, and the hash of the entry recorded.
Finish ==
    /\ sync.step = "java" /\ JavaObtainable
    /\ javas' = javas \cup {JavaOf(Now)}
    /\ stored' = Now
    /\ sync' = IF sync.cause = "run" THEN [sync EXCEPT !.step = "launch"] ELSE Idle
    /\ UNCHANGED <<serverVars, platform, known, local, localIndices, natives, verified>>

\* A failure, a cancellation, the end of the launcher.
Stop ==
    /\ sync # Idle
    /\ sync' = Idle
    /\ UNCHANGED <<serverVars, platform, known, stored, local, localIndices, natives, javas, verified>>

\* build_launch_arguments: what the command of a launch names.
LaunchPaths(meta, p) ==
    ClasspathPaths(meta, p)
        \cup {IndexPath(Parent(meta).index.id)}
        \cup {ObjectPath(o) : o \in localIndices[Parent(meta).index.id]}
        \cup {LibraryPath(meta.authlib)}

Launchable(meta, p) ==
    /\ Parent(meta).index # NoIndex
    /\ LaunchPaths(meta, p) \subseteq local
    /\ natives = NativeLibraryPaths(meta, p)
    /\ JavaOf(meta) \in javas

\* The game starts, or the launch fails where something is missing; both end it here.
Launch ==
    /\ sync.step = "launch"
    /\ sync' = Idle
    /\ UNCHANGED <<serverVars, platform, known, stored, local, localIndices, natives, javas, verified>>

LauncherNext ==
    \/ Refresh
    \/ \E cause \in {"update", "run"} : Begin(cause)
    \/ Check \/ Fetch \/ Extract \/ Finish \/ Stop \/ Launch

Next ==
    \/ Publish /\ UNCHANGED launcherVars
    \/ LauncherNext

Spec == Init /\ [][Next]_vars

-----------------------------------------------------------------------------
\* All the metadata, the objects and the paths there can be.
Instances == InstanceSpec \X BOOLEAN
Metas     == {Completed(Generated(x[1], x[2]), x[2]) : x \in Instances}
Objects   == UNION {UNION {i.objects : i \in FetchedIndices(x[1], TRUE)} : x \in Instances}
Paths ==
    (UNION {{t.path : t \in CheckTasks(x[1], TRUE)} \cup CopyPaths(x[1])
               \cup FetchedLibraries(x[1], TRUE)
               \cup {IndexPath(i.id) : i \in FetchedIndices(x[1], TRUE)}
               \cup {ClientPath(v.id) : v \in ToSet(x[1].versions)} : x \in Instances})
        \cup {ManifestPath} \cup {MetaPath(id) : id \in Id} \cup {JavaPath(q[1], q[2]) : q \in Package}

\* Of the wanted instance, the first version names an index, as those of Mojang do: without
\* one a launch fails (MissingAssetIndex).
ASSUME WantedAssumption ==
    /\ Wanted \in Id
    /\ \A i \in InstanceSpec : i.id = Wanted => Head(i.versions).index # NoIndex

ASSUME NoneAssumption == None \notin Metas

TypeOK ==
    /\ served \subseteq Paths /\ away \subseteq Paths /\ torn \subseteq served
    /\ metas \in [Id -> Metas \cup {None}] /\ manifest \in [Id -> Metas \cup {None}]
    /\ indices \in [IndexId -> SUBSET Objects]
    /\ builds \in 0 .. MaxBuilds
    /\ build = Idle \/ build.step \in {"generate", "download", "copy", "java", "save", "clean"}
    /\ platform \in Platform
    /\ {known, stored, verified} \subseteq Metas \cup {None}
    /\ local \subseteq Paths /\ localIndices \in [IndexId -> SUBSET Objects]
    /\ natives \subseteq local /\ javas \subseteq Java \cup {JavaOf(m) : m \in Metas}
    /\ sync # Idle => sync.step \in {"check", "download", "java", "launch"} /\ sync.meta \in Metas

\* A launch right after a sync finds everything its command names, if the last sync that
\* checked the resources was of this metadata and got through: the classpath
\* (get_classpath_paths), the client under the child's id, the asset index and the
\* objects it names, the authlib injector, the natives - and exactly those - and Java,
\* whatever the builder did meanwhile.
LaunchComplete == sync.step = "launch" /\ verified = Now => Launchable(Now, platform)
================================================================================
