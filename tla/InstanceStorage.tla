---------------------------- MODULE InstanceStorage ----------------------------
(***************************************************************************)
(* The instances on disk (instance/src/storage.rs): one directory each,    *)
(* with a descriptor that names the instance, and the vector the backend   *)
(* loop keeps of them; with the handlers of the loop that give an instance *)
(* its directory, save it, delete it and read them all again, and with a   *)
(* launcher that may die between any two file operations.                  *)
(*                                                                         *)
(* The loop handles one message at a time but awaits every file operation; *)
(* installations and the cleaning after a cancelled creation are tasks of  *)
(* their own.                                                              *)
(*                                                                         *)
(* Simplifications.  A descriptor is a handle and a state; what else is in *)
(* a directory is whether the user has made something there (data) and     *)
(* whether a whole descriptor lies aside in it, a temporary file or the    *)
(* backup of an unreadable one (aside).  A handle that nothing mentions is *)
(* a new one (Uuid::new_v4).  A new installation waits for the events of   *)
(* its handle: what happens otherwise is in InstanceLifecycle.  The user   *)
(* copies and damages directories only while the launcher is not running.  *)
(***************************************************************************)
EXTENDS Naturals

CONSTANTS
    Remote,     \* handles of the catalogs' entries
    Local,      \* handles of instances created locally (local_new)
    Recovered,  \* handles given by load (recovered_new)
    Id,         \* ids of entries, and slugs of local names
    EntryId,    \* the id of each entry
    MaxNum,     \* bound: the numbers appended to an id
    MaxFaults,  \* bound: crashes, failures, damages and copies together
    OneAtATime, \* the user starts nothing that takes a new directory while
                \* something else may still take, or remove, one
    Patient,    \* the user cancels nothing that has ended but is not handled
    Missing     \* no descriptor, no directory

Handle == Remote \cup Local \cup Recovered

\* "id", "id-2", "id-3", ...
Dir == [id : Id, num : 1 .. MaxNum]

State      == {"installed", "pending"}
Descriptor == [handle : Handle, state : State]
Damaged    == [handle |-> Missing]
Entry      == [dir : Dir, state : State]
Write      == [dir : Dir, handle : Handle, state : State,
               step : {"temp", "remove", "rename", "lost"}]

ASSUME StorageAssumption ==
    /\ Remote \cap Local = {} /\ Remote \cap Recovered = {} /\ Local \cap Recovered = {}
    /\ EntryId \in [Remote -> Id]
    /\ MaxNum \in Nat /\ MaxFaults \in Nat
    /\ OneAtATime \in BOOLEAN /\ Patient \in BOOLEAN
    /\ Missing \notin Handle \cup Dir \cup Descriptor \cup {Damaged} \cup Entry \cup Write

VARIABLES
    disk,       \* the directories: descriptor, data, aside
    storage,    \* instance_storage
    tasks,      \* installations: their directory (InstallPlan::dir_name)
    events,     \* InstallFinished, with an output, on their way to the loop
    creating,   \* creating_local, creating_local_params: the directory
    cleaning,   \* directories a cancelled creation is about to remove
    published,  \* entries of the manifests at hand
    loop,       \* what the loop awaits
    write,      \* the descriptor it writes
    todo,       \* load: directories not read yet
    found,      \* load: instances
    victim,     \* the directory it deletes
    faults,     \* bound: faults so far
    doubt       \* history: directories where the disk and the vector may differ,
                \* because a file operation failed since the launcher started

memory == <<storage, tasks, events, creating, cleaning, published>>
io     == <<loop, write, todo, found, victim>>
vars   == <<disk, memory, io, faults, doubt>>

Empty   == [desc |-> Missing, data |-> FALSE, aside |-> FALSE]
Nothing == [h \in Handle |-> Missing]

TypeOK ==
    /\ disk \in [Dir -> [desc : Descriptor \cup {Missing, Damaged},
                         data : BOOLEAN, aside : BOOLEAN]]
    /\ storage \in [Handle -> Entry \cup {Missing}]
    /\ tasks \in [Handle -> Dir \cup {Missing}]
    /\ events \subseteq [handle : Handle, dir : Dir]
    /\ creating \in [Handle -> Dir \cup {Missing}]
    /\ cleaning \subseteq Dir /\ published \subseteq Remote
    /\ loop \in {"down", "starting", "idle", "loading", "saving", "deleting"}
    /\ write \in Write \cup {Missing}
    /\ todo \subseteq Dir
    /\ found \in [Handle -> Entry \cup {Missing}]
    /\ victim \in Dir \cup {Missing}
    /\ faults \in 0 .. MaxFaults /\ doubt \subseteq Dir

Init ==
    /\ disk = [d \in Dir |-> Empty]
    /\ storage = Nothing /\ tasks = Nothing /\ creating = Nothing
    /\ events = {} /\ cleaning = {} /\ published \in SUBSET Remote
    /\ loop = "down" /\ write = Missing /\ todo = {} /\ found = Nothing
    /\ victim = Missing
    /\ faults = 0 /\ doubt = {}

-----------------------------------------------------------------------------
Stored(h) == storage[h] # Missing
Busy(h)   == tasks[h] # Missing
Ended(h)  == \E e \in events : e.handle = h

Readable(d) == disk[d].desc \in Descriptor

\* A handle nothing mentions.
Unused(h) ==
    /\ ~Stored(h) /\ ~Busy(h) /\ ~Ended(h)
    /\ creating[h] = Missing /\ found[h] = Missing
    /\ \A d \in Dir : Readable(d) => disk[d].desc.handle # h

\* Names that are taken.
StoredDirs    == {storage[h].dir : h \in {g \in Handle : Stored(g)}}
PublishedDirs == {[id |-> EntryId[r], num |-> 1] : r \in published}

\* Mutant of Allocated: the name is given as it is.
AsItIs(d, taken, id) == d.id = id /\ d.num = 1

\* allocate_unique_name: the first that is not taken.
Allocated(d, taken, id) ==
    /\ d.id = id /\ d \notin taken
    /\ \A n \in 1 .. d.num - 1 : [id |-> id, num |-> n] \in taken

\* Whether something may still take, or remove, a directory that is not stored.
Unsettled ==
    \/ events # {} \/ cleaning # {}
    \/ \E h \in Handle : creating[h] # Missing \/ (Busy(h) /\ ~Stored(h))

MayTakeDir == OneAtATime => ~Unsettled

Fault == faults < MaxFaults /\ faults' = faults + 1

-----------------------------------------------------------------------------
(***************************************************************************)
(* Writing a descriptor: write_file_atomic.                                *)
(***************************************************************************)
StartWrite(d, h, s) ==
    write' = [dir |-> d, handle |-> h, state |-> s, step |-> "temp"]

Step(now, then) ==
    /\ write # Missing /\ write.step = now
    /\ write' = [write EXCEPT !.step = then]
    /\ UNCHANGED <<memory, loop, todo, found, victim, faults, doubt>>

WriteTemp == Step("temp", "remove") /\ UNCHANGED disk

RemoveOld ==
    /\ Step("remove", "rename")
    /\ disk' = [disk EXCEPT ![write.dir].desc = Missing]

\* Mutant of Written: an instance that is stored already keeps its entry.
WrittenOnce(f) ==
    IF f[write.handle] = Missing
    THEN [f EXCEPT ![write.handle] = [dir |-> write.dir, state |-> write.state]]
    ELSE f

\* The vector with the instance that has been written.
Written(f) == [f EXCEPT ![write.handle] = [dir |-> write.dir, state |-> write.state]]

\* add and update touch the vector after the descriptor; load goes on.
Rename ==
    /\ write # Missing /\ write.step = "rename"
    /\ disk' = [disk EXCEPT ![write.dir].desc =
                    [handle |-> write.handle, state |-> write.state]]
    /\ IF loop = "saving"
       THEN storage' = Written(storage) /\ loop' = "idle" /\ UNCHANGED found
       ELSE found' = Written(found) /\ UNCHANGED <<storage, loop>>
    /\ write' = Missing
    /\ UNCHANGED <<tasks, events, creating, cleaning, published, todo, victim,
                   faults, doubt>>

\* Any of the three fails; the vector is left as it was, and a load is given up.
WriteFails ==
    /\ write # Missing
    /\ IF write.step = "lost" THEN UNCHANGED faults ELSE Fault
    /\ disk' = [disk EXCEPT ![write.dir].aside =
                    @ \/ write.step \in {"remove", "rename"}]
    /\ write' = Missing /\ loop' = "idle" /\ todo' = {} /\ found' = Nothing
    /\ doubt' = IF loop = "saving" THEN doubt \cup {write.dir} ELSE Dir
    /\ UNCHANGED <<memory, victim>>

-----------------------------------------------------------------------------
(***************************************************************************)
(* Reading them all: load, when the launcher starts and on a refresh.      *)
(***************************************************************************)
Load ==
    /\ \/ loop = "down" /\ loop' = "starting"
       \/ loop = "idle" /\ loop' = "loading"
    /\ todo' = Dir /\ found' = Nothing
    /\ UNCHANGED <<disk, memory, write, victim, faults, doubt>>

Loading == loop \in {"starting", "loading"}

Reading(d) == Loading /\ write = Missing /\ d \in todo

Known(h) == found[h] # Missing

Read(d) ==
    /\ Reading(d) /\ Readable(d) /\ ~Known(disk[d].desc.handle)
    /\ found' = [found EXCEPT ![disk[d].desc.handle] =
                    [dir |-> d, state |-> disk[d].desc.state]]
    /\ todo' = todo \ {d}
    /\ UNCHANGED <<disk, memory, loop, write, victim, faults, doubt>>

\* The second directory with a handle gets a new one.
Rehandle(d, new) ==
    /\ Reading(d) /\ Readable(d) /\ Known(disk[d].desc.handle) /\ Unused(new)
    /\ StartWrite(d, new, disk[d].desc.state)
    /\ todo' = todo \ {d}
    /\ UNCHANGED <<disk, memory, loop, found, victim, faults, doubt>>

\* Mutant of Backup: the descriptor is thrown away.
ThrowAway(d) == [disk EXCEPT ![d].desc = Missing]

Backup(d) == [disk EXCEPT ![d].desc = Missing, ![d].aside = TRUE]

\* recover_descriptor: an unreadable one is moved aside, if that succeeds, and
\* a minimal one takes its place.
Recover(d, new) ==
    /\ Reading(d) /\ disk[d].desc = Damaged /\ Unused(new)
    /\ \/ disk' = Backup(d) /\ UNCHANGED faults
       \/ Fault /\ UNCHANGED disk
    /\ StartWrite(d, new, "installed")
    /\ todo' = todo \ {d}
    /\ UNCHANGED <<memory, loop, found, victim, doubt>>

\* Directories without a descriptor are passed over (nobody else writes one).
\* With what a failure has left on the disk, a refresh may give an instance that
\* is being installed another directory; a start cannot.
LoadEnds ==
    /\ Loading /\ write = Missing /\ \A d \in todo : disk[d].desc = Missing
    /\ doubt' = IF loop = "starting" \/ doubt = {} THEN {} ELSE Dir
    /\ storage' = found
    /\ loop' = "idle" /\ found' = Nothing /\ todo' = {}
    /\ UNCHANGED <<disk, tasks, events, creating, cleaning, published, write, victim,
                   faults>>

-----------------------------------------------------------------------------
(***************************************************************************)
(* Taking a directory.                                                     *)
(***************************************************************************)
\* update_instance_settings, ensure_instance_for_settings: an entry that is not
\* stored is added for its settings.
UpdateSettings(r) ==
    /\ loop = "idle" /\ r \in published /\ ~Stored(r) /\ MayTakeDir
    /\ \E d \in Dir :
          Allocated(d, StoredDirs, EntryId[r]) /\ StartWrite(d, r, "pending")
    /\ loop' = "saving"
    /\ UNCHANGED <<disk, memory, todo, found, victim, faults, doubt>>

\* start_install, resolve_install_plan: the directory is chosen when the task
\* starts and stored when it has ended.
StartInstall(r) ==
    /\ loop = "idle" /\ r \in published /\ ~Busy(r) /\ ~Ended(r)
    /\ IF Stored(r)
       THEN tasks' = [tasks EXCEPT ![r] = storage[r].dir]
       ELSE /\ MayTakeDir
            /\ \E d \in Dir : /\ Allocated(d, StoredDirs, EntryId[r])
                              /\ tasks' = [tasks EXCEPT ![r] = d]
    /\ UNCHANGED <<disk, storage, events, creating, cleaning, published, io, faults, doubt>>

\* start_create_local, validate_create_local.
CreateLocal(l, id) ==
    /\ loop = "idle" /\ Unused(l) /\ MayTakeDir
    /\ \E d \in Dir :
          /\ Allocated(d, StoredDirs \cup PublishedDirs, id)
          /\ tasks' = [tasks EXCEPT ![l] = d]
          /\ creating' = [creating EXCEPT ![l] = d]
    /\ UNCHANGED <<disk, storage, events, cleaning, published, io, faults, doubt>>

\* retry_create_local.
RetryCreateLocal(l) ==
    /\ loop = "idle" /\ creating[l] # Missing /\ ~Busy(l) /\ ~Ended(l)
    /\ tasks' = [tasks EXCEPT ![l] = creating[l]]
    /\ UNCHANGED <<disk, storage, events, creating, cleaning, published, io, faults, doubt>>

\* The task sends its output.
Finish(h) ==
    /\ Busy(h) /\ ~Ended(h)
    /\ events' = events \cup {[handle |-> h, dir |-> tasks[h]]}
    /\ UNCHANGED <<disk, storage, tasks, creating, cleaning, published, io, faults, doubt>>

\* It ends with an error, which the loop handles: nothing is stored.
Fail(h) ==
    /\ loop = "idle" /\ Busy(h) /\ ~Ended(h)
    /\ tasks' = [tasks EXCEPT ![h] = Missing]
    /\ UNCHANGED <<disk, storage, events, creating, cleaning, published, io, faults, doubt>>

\* handle_install_finished: add or update.
InstallFinished(e) ==
    /\ loop = "idle" /\ e \in events
    /\ events' = events \ {e}
    /\ tasks' = [tasks EXCEPT ![e.handle] = Missing]
    /\ creating' = [creating EXCEPT ![e.handle] = Missing]
    /\ StartWrite(e.dir, e.handle, "installed") /\ loop' = "saving"
    /\ UNCHANGED <<disk, storage, cleaning, published, todo, found, victim, faults, doubt>>

-----------------------------------------------------------------------------
(***************************************************************************)
(* Giving a directory up.                                                  *)
(***************************************************************************)
\* cancel_install: the task is aborted; what a creation has put on disk is
\* removed by a task of its own.
CancelInstall(h) ==
    /\ loop = "idle" /\ (Busy(h) \/ creating[h] # Missing)
    /\ Patient => ~Ended(h)
    /\ tasks' = [tasks EXCEPT ![h] = Missing]
    /\ creating' = [creating EXCEPT ![h] = Missing]
    /\ cleaning' = IF creating[h] # Missing /\ ~Stored(h)
                   THEN cleaning \cup {creating[h]} ELSE cleaning
    /\ UNCHANGED <<disk, storage, events, published, io, faults, doubt>>

\* The task: also a temporary file of a write under way is removed.
Clean(d) ==
    /\ d \in cleaning
    /\ cleaning' = cleaning \ {d}
    /\ disk' = [disk EXCEPT ![d] = Empty]
    /\ write' = IF write # Missing /\ write.dir = d /\ write.step # "temp"
                THEN [write EXCEPT !.step = "lost"] ELSE write
    /\ UNCHANGED <<storage, tasks, events, creating, published, loop, todo, found,
                   victim, faults, doubt>>

\* delete_instance, remove_from_disk: the entry goes first.  What the user made
\* there is given up.
DeleteInstance(h) ==
    /\ loop = "idle" /\ Stored(h) /\ ~Busy(h)
    /\ storage' = [storage EXCEPT ![h] = Missing]
    /\ victim' = storage[h].dir /\ loop' = "deleting"
    /\ disk' = [disk EXCEPT ![storage[h].dir].data = FALSE]
    /\ UNCHANGED <<tasks, events, creating, cleaning, published, write, todo, found,
                   faults, doubt>>

\* remove_dir_all, which may fail half-way.
DeleteEnds ==
    /\ loop = "deleting"
    /\ \/ disk' = [disk EXCEPT ![victim] = Empty] /\ UNCHANGED <<faults, doubt>>
       \/ Fault /\ doubt' = doubt \cup {victim} /\ UNCHANGED disk
    /\ loop' = "idle" /\ victim' = Missing
    /\ UNCHANGED <<memory, write, todo, found>>

-----------------------------------------------------------------------------
(***************************************************************************)
(* The user, the catalogs and the end of the launcher.                     *)
(***************************************************************************)
\* The game leaves something in the directory of its instance.  (What it leaves
\* in one that is in doubt is not counted.)
Play(h) ==
    /\ loop \in {"idle", "saving"} /\ Stored(h) /\ storage[h].state = "installed"
    /\ ~Busy(h) /\ storage[h].dir \notin doubt
    /\ disk' = [disk EXCEPT ![storage[h].dir].data = TRUE]
    /\ UNCHANGED <<memory, io, faults, doubt>>

\* Manifests are fetched, or a backend is removed.
Publish(some) ==
    /\ loop = "idle"
    /\ published' = some
    /\ UNCHANGED <<disk, storage, tasks, events, creating, cleaning, io, faults, doubt>>

\* What is left of a directory that was being removed.
Interrupted(d, kept) ==
    IF kept THEN [disk[d] EXCEPT !.data = FALSE] ELSE Empty

\* The launcher dies: only the disk is left, in the middle of what was going on.
Crash ==
    /\ loop # "down" /\ Fault
    /\ \E kept \in SUBSET (cleaning \cup ({victim} \ {Missing})) :
          disk' = [d \in Dir |->
              IF d \in cleaning \cup {victim} THEN Interrupted(d, d \in kept)
              ELSE [disk[d] EXCEPT !.aside =
                        @ \/ (/\ write # Missing /\ write.dir = d
                              /\ write.step \in {"remove", "rename"})]]
    /\ storage' = Nothing /\ tasks' = Nothing /\ creating' = Nothing
    /\ events' = {} /\ cleaning' = {}
    /\ loop' = "down" /\ write' = Missing /\ todo' = {} /\ found' = Nothing
    /\ victim' = Missing
    /\ UNCHANGED <<published, doubt>>

\* A descriptor is damaged, or was never on the disk when the power failed.
Damage(d) ==
    /\ loop = "down" /\ Readable(d) /\ Fault
    /\ disk' = [disk EXCEPT ![d].desc = Damaged]
    /\ UNCHANGED <<memory, io, doubt>>

\* The user copies a directory.
Copy(d, to) ==
    /\ loop = "down" /\ disk[d].desc # Missing /\ disk[to] = Empty /\ Fault
    /\ disk' = [disk EXCEPT ![to] = disk[d]]
    /\ UNCHANGED <<memory, io, doubt>>

Next ==
    \/ WriteTemp \/ RemoveOld \/ Rename \/ WriteFails
    \/ Load \/ LoadEnds
    \/ \E d \in Dir : Read(d)
    \/ \E d \in Dir, new \in Recovered : Rehandle(d, new) \/ Recover(d, new)
    \/ \E r \in Remote : UpdateSettings(r) \/ StartInstall(r)
    \/ \E l \in Local, id \in Id : CreateLocal(l, id)
    \/ \E l \in Local : RetryCreateLocal(l)
    \/ \E h \in Handle : Finish(h) \/ Fail(h) \/ CancelInstall(h)
    \/ \E e \in events : InstallFinished(e)
    \/ \E d \in Dir : Clean(d)
    \/ \E h \in Handle : DeleteInstance(h) \/ Play(h)
    \/ DeleteEnds
    \/ \E some \in SUBSET Remote : Publish(some)
    \/ Crash
    \/ \E d \in Dir : Damage(d)
    \/ \E d \in Dir, to \in Dir : Copy(d, to)

Spec == Init /\ [][Next]_vars

-----------------------------------------------------------------------------
\* Whenever the loop waits for a message, the disk says what the vector says: a
\* launcher that dies there, and one that reloads, finds the same instances in
\* the same directories and has nothing to repair ("Reloading is stable").
RestartSame ==
    loop = "idle" =>
        /\ \A h \in Handle : (Stored(h) /\ storage[h].dir \notin doubt) =>
              disk[storage[h].dir].desc = [handle |-> h, state |-> storage[h].state]
        /\ \A d \in Dir \ doubt : disk[d].desc # Missing =>
              /\ Readable(d)
              /\ Stored(disk[d].desc.handle) /\ storage[disk[d].desc.handle].dir = d

\* The directories an instance has, is given or is about to get.
Claims(h) ==
    {d \in Dir : \/ Stored(h) /\ storage[h].dir = d
                 \/ tasks[h] = d \/ creating[h] = d
                 \/ [handle |-> h, dir |-> d] \in events
                 \/ write # Missing /\ loop = "saving" /\ write.handle = h /\ write.dir = d}

\* The state is well typed, and no directory serves two instances, and no instance
\* two directories, although names are chosen when a task starts and stored when it
\* has ended.
OneDirectoryEach ==
    /\ TypeOK
    /\ (OneAtATime /\ Patient) =>
          \A h, g \in Handle : \A d \in Claims(h) \ doubt, e \in Claims(g) \ doubt :
              (h = g) <=> (d = e)

\* What the user made is never in a directory that has neither a descriptor nor
\* a whole one aside, whenever the launcher dies.
NothingVanishes ==
    \A d \in Dir \ doubt : disk[d].data =>
        \/ disk[d].desc # Missing \/ disk[d].aside
        \/ write # Missing /\ write.dir = d /\ write.step = "rename"

\* What the user made in a directory with a descriptor goes only when the user
\* deletes its instance.
DataSurvives ==
    [][\A d \in Dir \ doubt :
          (disk[d].data /\ disk[d].desc # Missing) =>
              disk'[d].data \/ (loop' = "deleting" /\ victim' = d)]_vars
=============================================================================
