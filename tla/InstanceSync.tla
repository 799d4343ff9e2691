----------------------------- MODULE InstanceSync -----------------------------
(***************************************************************************)
(* The synchronisation of one instance with what its backend publishes:    *)
(* install_instance and install_game_files (backend/src/install.rs) with   *)
(* the mod sync planner (ModSync), the content rules (ContentRules) and    *)
(* the options they set (ConfigOptions), against a user who adds, removes  *)
(* and edits files, a publisher who publishes again, and ends of the       *)
(* launcher between any two steps.                                         *)
(*                                                                         *)
(* A sync deletes, checks, downloads, links optional mods, sets options,   *)
(* marks directories, extracts natives and, last, replaces the record      *)
(* (meta.json) from which the next one computes what has changed.          *)
(*                                                                         *)
(* Simplifications.  A published object stays available under its address. *)
(* Java is left out: the failure to resolve it is one of Stop.  Other      *)
(* instances, which share the resources and the natives directory of a     *)
(* version, are left out, and so is a sync of an instance without a        *)
(* backend, which applies its record as Start does where the record is the *)
(* entry's.  The user removes a directory in one step; the launcher        *)
(* removes that of the natives one entry at a time.  No rule is about the  *)
(* mods directory.                                                         *)
(***************************************************************************)
EXTENDS ModSync, ContentRules, ConfigOptions

CONSTANTS
    Release,       \* what may be published
    Meta,          \* the metadata of each: see ModSync and ContentRules; and its
                   \* resources and natives, and the mode they are checked in
    Resource,      \* files of the game shared by instances: the client, libraries, assets
    None,          \* no record, no descriptor, no marker
    Mark,          \* the contents of a completion marker
    Torn,          \* the contents of a file whose writing was cut off
    Plain,         \* contents that are no document
    UserMods,      \* the jars the user may put or remove: <<jar, build or Absent>>
    UserFiles,     \* and the files
    Careful,       \* launches happen only as the interface offers them
    MaxEdits, MaxStops, MaxReleases    \* bounds: edits, ends of a sync, releases

ASSUME SyncAssumption ==
    /\ None \notin Release /\ (\A s \in SUBSET Resource : None # s)
    /\ {Mark, Torn} \subseteq Plain /\ Plain \subseteq Content
    /\ Jar \cap File = {}
    /\ UserMods \subseteq Jar \X (Build \cup {Absent})
    /\ UserFiles \subseteq File \X (Content \cup {NoFile})
    /\ Careful \in BOOLEAN
    /\ MaxEdits \in Nat /\ MaxStops \in Nat /\ MaxReleases \in Nat

\* What the generator publishes: see Generator.  The options of a rule lead from
\* contents to contents.
ASSUME MetaAssumption ==
    \A m \in Release :
        /\ DOMAIN Meta[m].entries \subseteq Mod
        /\ \A id \in DOMAIN Meta[m].entries :
              LET e == Meta[m].entries[id] IN e.jar \in Jar \ Clutter /\ e.build \in Build /\ IdOf[e.build] = id
        /\ Meta[m].natives \subseteq Meta[m].resources /\ Meta[m].resources \subseteq Resource
        /\ \A n \in DOMAIN Meta[m].rules :
              LET rule == Meta[m].rules[n]
              IN  /\ n \in Nat \ {0} /\ 1 .. n \subseteq DOMAIN Meta[m].rules
                  /\ \A f \in DOMAIN rule.objects : f \in File /\ rule.objects[f] \in Content
                  /\ rule.kind \in {"file", "dir", "options"}
                  /\ rule.at \in (IF rule.kind = "dir" THEN Dir ELSE File)
                  /\ rule.kind = "options" =>
                     /\ Objects(rule) = {}
                     /\ \A tree \in (Content \ Plain) \cup {Empty(rule.format), Bad} :
                           Patched(rule.format, tree, rule.options) \in Content \cup {Bad}

VARIABLES
    published,   \* the metadata the backend serves
    entry,       \* the metadata the fetched catalog names, by its hash
    recorded,    \* meta.json of the instance
    synced,      \* last_synced_sha1 of its descriptor; None: not installed
    preference,  \* optional_mod_sets of its settings
    mods,        \* the mods directory
    cache,       \* the directory of optional mods
    files,       \* the other files of the game directory
    dirs,        \* its directories
    shared,      \* the resources that are there
    natives,     \* the natives directory
    marker,      \* the natives its .extracted names
    sync,        \* the sync under way, or Idle
    left,        \* edits, stops and releases left
    cut,         \* history: a sync ended while it removed the natives directory, and none has
                 \* removed all of it since
    touched,     \* history: mods the user changed since a sync placed them
    lost         \* history: mods that differ from the record because a sync changed them,
                 \* or because it names them and they are switched off or blocked

disk == <<recorded, mods, cache, files, dirs, shared, natives, marker>>
vars == <<published, entry, synced, preference, disk, sync, left, cut, touched, lost>>

Phase == {"delete", "download", "link", "configure", "natives",
          "clear", "extract", "record", "rename", "report"}
Idle  == [phase |-> "idle"]

\* What is checked and downloaded: a mod in its place or in the cache of optional
\* mods, a file of a rule, a jar with natives.
Task == ({"mod", "cache"} \X Mod) \cup ({"file"} \X File) \cup ({"resource"} \X Resource)

Sync == [phase : Phase, cause : {"update", "run"}, force : BOOLEAN,
         entry : Release, meta : Release, known : Release \cup {None},
         deletes : SUBSET (Jar \cup File), objects : FileDir, tasks : SUBSET Task,
         links : SUBSET Mod, patches : SUBSET Nat, open : BOOLEAN,
         warned : SUBSET Jar, quiet : BOOLEAN, fetched : SUBSET Resource,
         undone : SUBSET Mod]

Busy == sync # Idle

\* The metadata a sync applies.
Now == Meta[sync.meta]

TypeOK ==
    /\ published \in Release /\ entry \in Release
    /\ recorded \in Release \cup {None} /\ synced \in Release \cup {None}
    /\ preference \in [OptionalSet -> BOOLEAN \cup {Unset}]
    /\ mods \in ModDir /\ cache \in ModDir /\ files \in FileDir /\ dirs \subseteq Dir
    /\ shared \subseteq Resource /\ natives \subseteq Resource
    /\ marker \in (SUBSET Resource) \cup {None}
    /\ Busy => sync \in Sync
    /\ left \in [edits : 0 .. MaxEdits, stops : 0 .. MaxStops, releases : 0 .. MaxReleases]
    /\ cut \in BOOLEAN /\ touched \subseteq Mod /\ lost \subseteq Mod

Init ==
    /\ published \in Release /\ entry = published
    /\ recorded = None /\ synced = None
    /\ preference = [s \in OptionalSet |-> Unset]
    /\ mods = [j \in Jar |-> Absent] /\ cache = [j \in Jar |-> Absent]
    /\ files = [f \in File |-> NoFile] /\ dirs = {}
    /\ shared = {} /\ natives = {} /\ marker = None
    /\ sync = Idle
    /\ left = [edits |-> MaxEdits, stops |-> MaxStops, releases |-> MaxReleases]
    /\ cut = FALSE /\ touched = {} /\ lost = {}

-----------------------------------------------------------------------------
(***************************************************************************)
(* The start of a sync: the metadata is read or fetched, everything        *)
(* scanned, and all the tasks computed.                                    *)
(***************************************************************************)
Entries(release) == IF release = None THEN Nothing ELSE Meta[release].entries
RulesOf(release) == IF release = None THEN <<>> ELSE Meta[release].rules

ModView(meta, cause, force) ==
    [manifest |-> Meta[meta], previous |-> Entries(recorded), cause |-> cause, force |-> force,
     preference |-> preference, mods |-> mods]

RuleView(meta, cause, force) ==
    [rules |-> Meta[meta].rules, earlier |-> RulesOf(recorded), cause |-> cause, force |-> force,
     files |-> files, dirs |-> dirs]

\* The client, the libraries and the assets are checked by an update, or always if the
\* instance says so.
ChecksResources(meta, cause) == cause = "update" \/ Meta[meta].checks = "always"

\* get_all_install_tasks
Planned(meta, cause, force) ==
    LET p == ModView(meta, cause, force)
        r == RuleView(meta, cause, force)
        checked == FileChecks(r)
    IN  [phase |-> "delete", cause |-> cause, force |-> force,
         entry |-> entry, meta |-> meta, known |-> recorded,
         deletes |-> ModDeletes(p) \cup FileDeletes(r),
         objects |-> [f \in File |-> IF f \in DOMAIN checked THEN checked[f] ELSE NoFile],
         tasks |-> ({"mod"} \X ModChecks(p)) \cup ({"cache"} \X CacheChecks(p))
                   \cup ({"file"} \X DOMAIN checked)
                   \cup (IF ChecksResources(meta, cause) THEN {"resource"} \X Meta[meta].resources ELSE {}),
         links |-> ModLinks(p), patches |-> Patches(r), open |-> FALSE,
         warned |-> Warned(p), quiet |-> TRUE, fetched |-> {},
         undone |-> touched \cup lost]

\* The interface offers a launch of what is installed and not outdated.
Offered == recorded = entry /\ synced = entry

\* read_or_fetch: the record, if its hash is the entry's, and else whatever is
\* served.
Start(cause, force) ==
    /\ ~Busy
    /\ cause = "run" => synced # None /\ ~force
    /\ cause = "run" /\ Careful => Offered
    /\ sync' = Planned(IF recorded = entry THEN recorded ELSE published, cause, force)
    /\ UNCHANGED <<published, entry, synced, preference, disk, left, cut, touched, lost>>

-----------------------------------------------------------------------------
(***************************************************************************)
(* install_game_files                                                      *)
(***************************************************************************)
In(phase) == Busy /\ sync.phase = phase

\* What the sync under way was planned from, but for the mods directory.
View == [ModView(sync.meta, sync.cause, sync.force) EXCEPT !.previous = Entries(sync.known)]

\* The same sync, at another phase.
Goto(phase) == sync' = [sync EXCEPT !.phase = phase]

\* The mods a change leaves without a jar.
Orphaned(after) == {id \in Mod : Local(mods, id) # {} /\ Local(after, id) = {}}

Delete ==
    /\ In("delete")
    /\ \E path \in sync.deletes :
          /\ sync' = [sync EXCEPT !.deletes = @ \ {path}]
          /\ IF path \in Jar
             THEN /\ mods' = [mods EXCEPT ![path] = Absent]
                  /\ lost' = lost \cup Orphaned(mods')
                  /\ UNCHANGED files
             ELSE /\ files' = [files EXCEPT ![path] = NoFile]
                  /\ UNCHANGED <<mods, lost>>
    /\ UNCHANGED <<published, entry, synced, preference, recorded, cache, dirs, shared,
                   natives, marker, left, cut, touched>>

\* The mod is in the mods directory as published.
InPlace(id) ==
    LET e == Now.entries[id] IN ~Differs([manifest |-> Now], mods, e.jar, e.build)

Alone(id) == Local(mods, id) \subseteq {Now.entries[id].jar}

\* What the check of a file finds missing or different.
Outdated(task) ==
    LET x == task[2]
    IN  CASE task[1] = "mod"   -> ~InPlace(x)
          [] task[1] = "cache" ->
               Differs([manifest |-> Now], cache, Now.entries[x].jar, Now.entries[x].build)
          [] task[1] = "file"  -> files[x] # sync.objects[x]
          [] task[1] = "resource" -> x \notin shared

\* get_download_tasks
Check ==
    /\ In("delete") /\ sync.deletes = {}
    /\ LET downloads == {task \in sync.tasks : Outdated(task)}
       IN  sync' = [sync EXCEPT !.phase = "download", !.tasks = downloads,
                                !.fetched = {n \in Resource : <<"resource", n>> \in downloads}]
    /\ UNCHANGED <<published, entry, synced, preference, disk, left, cut, touched, lost>>

\* The directories a file is in exist with it.
Parents(f) == {d \in Dir : f \in Under[d]}

Download ==
    /\ In("download")
    /\ \E task \in sync.tasks :
          LET x == task[2]
              e == Now.entries
          IN  /\ sync' = [sync EXCEPT !.tasks = @ \ {task}]
              /\ mods' = IF task[1] = "mod" THEN [mods EXCEPT ![e[x].jar] = e[x].build] ELSE mods
              /\ cache' = IF task[1] = "cache" THEN [cache EXCEPT ![e[x].jar] = e[x].build]
                          ELSE cache
              /\ files' = IF task[1] = "file" THEN [files EXCEPT ![x] = sync.objects[x]] ELSE files
              /\ dirs' = IF task[1] = "file" THEN dirs \cup Parents(x) ELSE dirs
              /\ shared' = IF task[1] = "resource" THEN shared \cup {x} ELSE shared
              /\ touched' = IF task[1] = "mod" THEN touched \ {x} ELSE touched
              /\ lost' = lost \cup Orphaned(mods') \cup (IF task[1] = "mod" THEN {x} ELSE {})
    /\ UNCHANGED <<published, entry, synced, preference, recorded, natives, marker, left, cut>>

Downloaded ==
    /\ In("download") /\ sync.tasks = {}
    /\ Goto("link")
    /\ UNCHANGED <<published, entry, synced, preference, disk, left, cut, touched, lost>>

\* link_optional_mod: nothing happens if the cache does not hold the mod.
Linked(place, jar) == IF cache[jar] = Absent THEN place ELSE [place EXCEPT ![jar] = cache[jar]]

Link ==
    /\ In("link")
    /\ \E id \in sync.links :
          /\ sync' = [sync EXCEPT !.links = @ \ {id}]
          /\ mods' = Linked(mods, Now.entries[id].jar)
          /\ touched' = touched \ {id}
          /\ lost' = lost \cup Orphaned(mods') \cup {id}
    /\ UNCHANGED <<published, entry, synced, preference, recorded, cache, files, dirs, shared,
                   natives, marker, left, cut>>

AllLinked ==
    /\ In("link") /\ sync.links = {}
    /\ Goto("configure")
    /\ UNCHANGED <<published, entry, synced, preference, disk, left, cut, touched, lost>>

\* The document an option rule finds.  Nothing at all is a document but in JSON.
Document(rule) ==
    LET found == files[rule.at]
    IN  IF found = NoFile \/ (found = Torn /\ rule.format # "json") THEN Empty(rule.format)
        ELSE IF found \in Plain THEN Bad ELSE found

NextPatch == CHOOSE n \in sync.patches : \A k \in sync.patches : n <= k

\* run_config_option_task reads the file and writes it again in place: opened for
\* writing it is empty for a moment.  A document that cannot be patched, or whose
\* directory is not there, fails the sync, which then only Stop can end.
OpenConfig ==
    /\ In("configure") /\ sync.patches # {} /\ ~sync.open
    /\ LET rule == Now.rules[NextPatch]
           new  == Patched(rule.format, Document(rule), rule.options)
       IN  /\ new # Bad /\ Parents(rule.at) \subseteq dirs
           /\ sync' = [sync EXCEPT !.open = TRUE, !.objects[rule.at] = new]
           /\ files' = [files EXCEPT ![rule.at] = Torn]
    /\ UNCHANGED <<published, entry, synced, preference, recorded, mods, cache, dirs, shared,
                   natives, marker, left, cut, touched, lost>>

\* What is written to a file that was removed meanwhile is gone with it.
WriteConfig ==
    /\ In("configure") /\ sync.open
    /\ LET rule == Now.rules[NextPatch]
       IN  /\ files' = [files EXCEPT ![rule.at] = IF @ = NoFile THEN NoFile ELSE sync.objects[rule.at]]
           /\ sync' = [sync EXCEPT !.open = FALSE, !.patches = @ \ {NextPatch}]
    /\ UNCHANGED <<published, entry, synced, preference, recorded, mods, cache, dirs, shared,
                   natives, marker, left, cut, touched, lost>>

\* mark_include_downloads_complete: the directories of all rules, applied or not.
MarkDirs ==
    /\ In("configure") /\ sync.patches = {}
    /\ Goto("natives")
    /\ LET marked == {Marker[d] : d \in RuleDirs(Now.rules) \cap dirs}
       IN  files' = [f \in File |-> IF f \in marked THEN Mark ELSE files[f]]
    /\ UNCHANGED <<published, entry, synced, preference, recorded, mods, cache, dirs, shared,
                   natives, marker, left, cut, touched, lost>>

\* Mutant of NativesCurrent: it is enough that some natives are marked.
NativesThere == ~sync.force /\ marker # None

\* extract_natives_if_needed: nothing was downloaded, and the marker names all.
NativesCurrent ==
    ~sync.force /\ sync.fetched \cap Now.natives = {} /\ marker = Now.natives

SkipNatives ==
    /\ In("natives") /\ NativesCurrent
    /\ Goto("record")
    /\ UNCHANGED <<published, entry, synced, preference, disk, left, cut, touched, lost>>

\* Mutant of ClearNatives: the natives are extracted over those that are there.
ClearNothing ==
    /\ In("natives") /\ ~NativesCurrent
    /\ Goto("extract")
    /\ UNCHANGED <<published, entry, synced, preference, disk, left, cut, touched, lost>>

ClearNatives ==
    /\ In("natives") /\ ~NativesCurrent
    /\ Goto("clear")
    /\ UNCHANGED <<published, entry, synced, preference, disk, left, cut, touched, lost>>

\* remove_dir_all: one entry of the directory after the other, in any order, the marker
\* among them.  What Stop cuts off here stays as it is.
RemoveNative ==
    /\ In("clear")
    /\ \/ \E n \in natives : natives' = natives \ {n} /\ UNCHANGED marker
       \/ marker # None /\ marker' = None /\ UNCHANGED natives
    /\ UNCHANGED <<published, entry, synced, preference, recorded, mods, cache, files, dirs,
                   shared, sync, left, cut, touched, lost>>

NativesCleared ==
    /\ In("clear") /\ natives = {} /\ marker = None
    /\ Goto("extract")
    /\ cut' = FALSE
    /\ UNCHANGED <<published, entry, synced, preference, disk, left, touched, lost>>

\* A jar that is not there fails the sync.
Extract ==
    /\ In("extract")
    /\ \E n \in (Now.natives \cap shared) \ natives : natives' = natives \cup {n}
    /\ UNCHANGED <<published, entry, synced, preference, recorded, mods, cache, files, dirs,
                   shared, marker, sync, left, cut, touched, lost>>

\* The marker comes last.
MarkNatives ==
    /\ In("extract") /\ natives = Now.natives
    /\ Goto("record")
    /\ marker' = natives
    /\ UNCHANGED <<published, entry, synced, preference, recorded, mods, cache, files, dirs,
                   shared, natives, left, cut, touched, lost>>

-----------------------------------------------------------------------------
(***************************************************************************)
(* The end: the record is replaced (write_file_atomic) and the descriptor  *)
(* updated when the loop hears of it (InstallFinished).                    *)
(***************************************************************************)
RemoveRecord ==
    /\ In("record")
    /\ Goto("rename")
    /\ recorded' = None
    /\ UNCHANGED <<published, entry, synced, preference, mods, cache, files, dirs, shared,
                   natives, marker, left, cut, touched, lost>>

RenameRecord ==
    /\ In("rename")
    /\ Goto("report")
    /\ recorded' = sync.meta
    /\ lost' = {id \in lost \cup ((DOMAIN Now.entries \ Normal(View)) \ touched) :
                  id \in DOMAIN Now.entries => ~InPlace(id) \/ ~Alone(id)}
    /\ UNCHANGED <<published, entry, synced, preference, mods, cache, files, dirs, shared,
                   natives, marker, left, cut, touched>>

Report ==
    /\ In("report")
    /\ sync' = Idle
    /\ synced' = sync.entry
    /\ UNCHANGED <<published, entry, preference, disk, left, cut, touched, lost>>

\* A failure, a cancellation, or the end of the launcher.
Stop ==
    /\ Busy /\ left.stops > 0
    /\ sync' = Idle
    /\ left' = [left EXCEPT !.stops = @ - 1]
    /\ cut' = (cut \/ In("clear"))
    /\ UNCHANGED <<published, entry, synced, preference, disk, touched, lost>>

-----------------------------------------------------------------------------
(***************************************************************************)
(* The publisher, the catalog and the user.                                *)
(***************************************************************************)
Publish ==
    /\ left.releases > 0
    /\ left' = [left EXCEPT !.releases = @ - 1]
    /\ \E m \in Release \ {published} : published' = m
    /\ UNCHANGED <<entry, synced, preference, disk, sync, cut, touched, lost>>

Refresh ==
    /\ entry # published
    /\ entry' = published
    /\ UNCHANGED <<published, synced, preference, disk, sync, left, cut, touched, lost>>

\* The mods of the jars a change concerns.
Stirred(after) ==
    LET jars == {j \in Jar : mods[j] # after[j]}
    IN  {IdOf[b] : b \in ({mods[j] : j \in jars} \cup {after[j] : j \in jars}) \ {Absent}} \ {NoId}

\* set_optional_mod_set_enabled: refused while the instance is busy.
SwitchSet(id, on) ==
    /\ ~Busy /\ synced # None /\ recorded # None
    /\ \E n \in DOMAIN Meta[recorded].sets :
          /\ Meta[recorded].sets[n].id = id
          /\ preference' = [preference EXCEPT ![id] = on]
          /\ LET named == {Meta[recorded].entries[m].jar :
                             m \in Meta[recorded].sets[n].mods \cap DOMAIN Meta[recorded].entries}
             IN  mods' = [j \in Jar |-> CASE j \notin named -> mods[j]
                                          [] on             -> Linked(mods, j)[j]
                                          [] OTHER          -> Absent]
    /\ touched' = touched \cup Stirred(mods')
    /\ UNCHANGED <<published, entry, synced, recorded, cache, files, dirs, shared, natives, marker,
                   sync, left, cut, lost>>

Edit ==
    /\ left.edits > 0
    /\ left' = [left EXCEPT !.edits = @ - 1]
    /\ sync' = IF Busy THEN [sync EXCEPT !.quiet = FALSE] ELSE sync

EditMods ==
    /\ Edit
    /\ \E e \in UserMods :
          /\ mods[e[1]] # e[2]
          /\ mods' = [mods EXCEPT ![e[1]] = e[2]]
          /\ touched' = touched \cup Stirred(mods')
    /\ UNCHANGED <<published, entry, synced, preference, recorded, cache, files, dirs, shared,
                   natives, marker, cut, lost>>

EditFiles ==
    /\ Edit
    /\ \E e \in UserFiles :
          /\ files[e[1]] # e[2]
          /\ files' = [files EXCEPT ![e[1]] = e[2]]
          /\ dirs' = IF e[2] = NoFile THEN dirs ELSE dirs \cup Parents(e[1])
    /\ UNCHANGED <<published, entry, synced, preference, recorded, mods, cache, shared, natives,
                   marker, cut, touched, lost>>

RemoveDir ==
    /\ Edit
    /\ \E d \in dirs :
          /\ dirs' = dirs \ {b \in Dir : Under[b] \subseteq Under[d]}
          /\ files' = [f \in File |-> IF f \in Under[d] THEN NoFile ELSE files[f]]
    /\ UNCHANGED <<published, entry, synced, preference, recorded, mods, cache, shared, natives,
                   marker, cut, touched, lost>>

-----------------------------------------------------------------------------
Launcher ==
    \/ Delete \/ Check \/ Download \/ Downloaded \/ Link \/ AllLinked
    \/ OpenConfig \/ WriteConfig \/ MarkDirs
    \/ SkipNatives \/ ClearNatives \/ RemoveNative \/ NativesCleared \/ Extract \/ MarkNatives
    \/ RemoveRecord \/ RenameRecord \/ Report

User ==
    \/ \E cause \in {"update", "run"}, force \in BOOLEAN : Start(cause, force)
    \/ \E id \in OptionalSet, on \in BOOLEAN : SwitchSet(id, on)
    \/ EditMods \/ EditFiles \/ RemoveDir

Next == Launcher \/ User \/ Stop \/ Publish \/ Refresh

Spec == Init /\ [][Next]_vars

-----------------------------------------------------------------------------
(***************************************************************************)
(* Properties.                                                             *)
(***************************************************************************)
Undone(id) == id \in sync.undone

\* An update that has come to its end, and nobody has interfered with.
Updated == In("report") /\ sync.cause = "update" /\ sync.quiet

\* After an update the mods are those published: each is in place, alone, and none is
\* there that is blocked, switched off, or was published before and no longer is.  In
\* a delta the user's own changes stay, and what an earlier sync has left half-done
\* (see NothingLost) is not mended; a mod that is new to the record is put beside a
\* jar of it that is there, and so is a new build of an optional mod, whose old jar
\* no delta deletes; and an optional mod is linked from what the cache holds, which
\* is not looked at for a mod the record has already.  In a mirror nothing else is there.
ModsAsPublished ==
    Updated =>
        /\ \A id \in Normal(View) :
              /\ InPlace(id) \/ (AsDelta(View) /\ Undone(id))
              /\ Alone(id)
                 \/ (AsDelta(View) /\ (Undone(id) \/ id \notin Before(View)))
        /\ \A id \in On(View) :
              \/ InPlace(id)
              \/ /\ AsDelta(View) /\ id \in Before(View) /\ ~Changed(View, id)
                 /\ cache[Target(View, id)] = Absent
        /\ \A id \in On(View) :
              \/ Alone(id)
              \/ /\ AsDelta(View)
                 /\ Undone(id) \/ id \notin Before(View) \/ Changed(View, id)
        /\ \A id \in DeltaGone(View) : Local(mods, id) = {}
        /\ AsDelta(View) \/ Recognized(mods) \subseteq Allowed(View)

\* After an update the files are those published.  The resources are there.  A file of a rule without version
\* and without skip_if_dir_exists is there, as published if the rule overwrites it and
\* no more specific one is about it; and a directory whose extra files are to be deleted
\* holds only files of rules, and markers.
FilesAsPublished ==
    LET rules == Now.rules
        plain == {n \in DOMAIN rules : rules[n].kind # "options" /\ rules[n].version = 0 /\ ~rules[n].skip}
        about == [n \in DOMAIN rules |-> IF rules[n].kind = "options" THEN {rules[n].at}
                                         ELSE Objects(rules[n])]
    IN  Updated =>
        /\ Now.resources \subseteq shared
        /\ \A n \in plain :
               /\ \A f \in Objects(rules[n]) :
                     /\ files[f] # NoFile
                     /\ \/ files[f] = rules[n].objects[f] \/ ~rules[n].overwrite
                        \/ \E k \in DOMAIN rules : f \in about[k] /\ k # n
               /\ rules[n].kind = "dir" /\ rules[n].extra =>
                     \A f \in Under[rules[n].at] :
                         files[f] # NoFile => \/ \E k \in DOMAIN rules : f \in about[k]
                                              \/ \E d \in Dir : f = Marker[d]

\* A step of the launcher that changes the mods directory.
SyncsMods == Busy /\ mods' # mods /\ left' = left

\* In a delta a sync never touches a jar of a mod that no manifest, recorded or
\* published, says anything about, unless it has the name of a published one.
OwnModsStay ==
    [][SyncsMods /\ Now.mode = "delta" /\ ~sync.force /\ sync.quiet =>
         \A j \in {j \in Jar : mods[j] # Absent /\ mods'[j] # mods[j]} :
            LET id == IdOf[mods[j]]
            IN  \/ id \in DOMAIN Now.entries \cup DOMAIN Entries(sync.known)
                \/ id \in Now.blocked \/ Optional(View, id)
                \/ \E e \in DOMAIN Now.entries : Now.entries[e].jar = j]_vars

\* In a delta a mod the user removed is downloaded again only if it is required, or the
\* record that says it was installed before is gone.
RemovedStays ==
    [][SyncsMods /\ In("download") /\ Now.mode = "delta" /\ ~sync.force /\ sync.quiet =>
         \A id \in {id \in touched \ lost : Local(mods, id) = {} /\ Local(mods', id) # {}} :
            id \in Now.required \/ id \notin DOMAIN Entries(sync.known)]_vars

\* A sync that is not forced tells the user of every mod it removes that no earlier
\* sync has recorded, but for a second copy of a mod it keeps.
RemovalsTold ==
    [][SyncsMods /\ ~sync.force /\ sync.quiet =>
         \A j \in {j \in Jar \ Clutter : mods[j] # Absent /\ mods'[j] = Absent} :
            \/ j \in sync.warned
            \/ IdOf[mods[j]] \in DOMAIN Entries(sync.known) \cup DOMAIN Now.entries]_vars

\* A marker names natives that are all there, whatever fails and whatever is released
\* meanwhile, but for one case: while a sync removes the directory, and once one has
\* ended in doing so, the marker may be left and some natives gone.
NativesWhole == marker # None => natives = marker \/ In("clear") \/ cut

\* A sync that ends well leaves the natives of the metadata it has recorded, whatever
\* was extracted before; but a marker that a removal cut off has left is believed, and
\* natives may be missing until one of them is downloaded, the release changes them or
\* a sync is forced.
NativesOfRecord == In("report") => natives = Now.natives \/ cut

\* mod_sync.rs:14, "preserve user-added and user-removed mods": an update that succeeds
\* leaves no published mod missing which the user has not removed.  FALSE: a sync
\* that deletes the old jar of a renamed mod and then fails makes the next one take the
\* mod for one the user removed.
NothingLost == Updated => \A id \in Normal(View) : Local(mods, id) = {} => id \in touched
===============================================================================
