-------------------------- MODULE InstanceLifecycle --------------------------
(***************************************************************************)
(* The event loop of the launcher backend (crates/backend/src/lib.rs):     *)
(* what the messages of the user interface and the events of the spawned   *)
(* tasks do to an instance, from its installation to the game's exit.      *)
(*                                                                         *)
(* The loop handles one message or one event at a time.  Tasks run beside  *)
(* it and only talk back through one FIFO channel, `events`.  An event     *)
(* names the instance it is about and NOT the task that sent it; the field *)
(* `task` of an event below is read by history variables and properties    *)
(* only.  Messages come through a channel of their own and the loop takes  *)
(* from either (an unbiased select!), so that a message may overtake the   *)
(* events that were sent before it.                                        *)
(*                                                                         *)
(* Simplifications.                                                        *)
(*  - Accounts, catalogs and instance settings are kept by other           *)
(*    components: whether an account resolves and whether a catalog lists  *)
(*    the instance are nondeterministic here.                              *)
(*  - Every instance owns one directory, and `disk` is the descriptor in   *)
(*    it; directory names and crashes belong to the instance storage.      *)
(*  - JoinHandle::abort stops a task at the await it is suspended on.  A   *)
(*    task that is being polled when it is aborted finishes that poll,     *)
(*    which is the same as the poll having come first: it sends to a       *)
(*    channel the aborting handler does not read.                          *)
(***************************************************************************)
EXTENDS Naturals, Sequences

CONSTANTS
    Remote,       \* handles of instances published by a backend
    Local,        \* handles (fresh UUIDs) of instances created locally
    MaxTask,      \* bound: tasks spawned in a behaviour
    MaxReports,   \* bound: progress snapshots a task sends
    NoHandle,     \* Option::None of an instance handle
    DiskFaults,   \* TRUE: saving a descriptor and deleting a directory may fail
    PromptCleared \* values of "the provider clears its prompt on success"

Handle == Remote \cup Local
TaskId == 1 .. MaxTask

ASSUME LifecycleAssumption ==
    /\ Remote \cap Local = {}
    /\ NoHandle \notin Handle
    /\ MaxTask \in Nat /\ MaxReports \in Nat
    /\ DiskFaults \in BOOLEAN
    /\ PromptCleared \in SUBSET BOOLEAN

VARIABLES
    activity,     \* the `activities` map; kind "Idle" stands for no entry
    creating,     \* domain of creating_local and creating_local_params
    installErr,   \* domain of install_errors
    launchErr,    \* domain of launch_errors
    launchAfter,  \* launch_after_install; "none" stands for no entry
    authInstance, \* auth_instance
    storage,      \* instance_storage in memory
    disk,         \* descriptors on disk
    cleanup,      \* spawned removals of a cancelled creation's directory
    events,       \* the internal channel of BackendEvents
    spawned,      \* number of tasks spawned so far
    task,         \* the spawned tasks
    killed,       \* tasks whose kill_rx is ready (sent to, or sender dropped)
    game,         \* tasks whose child process is alive
    misled,       \* history: tasks whose entry an event of another task changed
    shown,        \* history: launches whose entry shows the game they started
    lost          \* history: instances that lost their descriptor, or are about
                  \* to, to a failure or to the clean-up of their creation

errors  == <<installErr, launchErr>>
store   == <<storage, disk, cleanup, lost>>
runs    == <<spawned, task, killed, game>>
history == <<misled, shown>>
vars    == <<activity, creating, errors, launchAfter, authInstance, store,
             events, runs, history>>

(***************************************************************************)
(* Types.                                                                  *)
(***************************************************************************)
Stored  == {"absent", "pending", "installed"}
Kind    == {"Install", "LaunchPrep", "Running"}
Job     == {"install", "create", "launch", "probe"}
Phase   == {"auth", "prompt", "work", "save", "start", "game", "done", "aborted"}

IdleActivity == [kind |-> "Idle", task |-> 0, kill |-> FALSE, shows |-> 0]
Activity == [kind : Kind, task : TaskId, kill : BOOLEAN, shows : 0 .. MaxTask]
                \cup {IdleActivity}

NoTask == [job |-> "none", handle |-> NoHandle, pc |-> "unborn",
           sync |-> FALSE, offered |-> FALSE, reports |-> 0]
Task == [job : Job, handle : Handle, pc : Phase, sync : BOOLEAN,
         offered : BOOLEAN, reports : Nat]

\* `ok` is the outcome of the event: success, a found Java, a clean exit.
Event == [type : {"InstanceTasks", "InstallFinished", "LaunchStarted",
                  "LaunchFinished", "AuthLaunchPrompt", "JavaResolved"},
          handle : Handle, task : TaskId, isRun : BOOLEAN, ok : BOOLEAN]
PromptGone == [type : {"AuthLaunchPrompt"}, handle : {NoHandle},
                   task : TaskId, isRun : BOOLEAN, ok : BOOLEAN]

TypeOK ==
    /\ activity \in [Handle -> Activity]
    /\ creating \subseteq Local
    /\ installErr \subseteq Handle /\ launchErr \subseteq Handle
    /\ launchAfter \in [Handle -> {"none", "no", "yes"}]
    /\ authInstance \in Handle \cup {NoHandle}
    /\ storage \in [Handle -> Stored] /\ disk \in [Handle -> Stored]
    /\ cleanup \subseteq Local
    /\ events \in Seq(Event \cup PromptGone)
    /\ spawned \in 0 .. MaxTask
    /\ task \in [TaskId -> Task \cup {NoTask}]
    /\ \A t \in TaskId : t \in 1 .. spawned <=> task[t] \in Task
    /\ killed \subseteq TaskId /\ game \subseteq TaskId
    /\ misled \subseteq TaskId /\ shown \subseteq TaskId
    /\ lost \subseteq Handle

\* Activity::new; a launch also holds the sender of the task's kill channel.
NewActivity(kind, t) ==
    [kind |-> kind, task |-> t, kill |-> kind = "LaunchPrep", shows |-> t]

Init ==
    /\ storage \in [Handle -> Stored]
    /\ \A h \in Local : storage[h] = "absent"
    /\ disk = storage
    /\ activity = [h \in Handle |-> IdleActivity]
    /\ creating = {} /\ installErr = {} /\ launchErr = {}
    /\ launchAfter = [h \in Handle |-> "none"]
    /\ authInstance = NoHandle
    /\ cleanup = {} /\ events = <<>>
    /\ spawned = 0
    /\ task = [t \in TaskId |-> NoTask]
    /\ killed = {} /\ game = {}
    /\ misled = {} /\ shown = {} /\ lost = {}

-----------------------------------------------------------------------------
(***************************************************************************)
(* Helpers of the loop.                                                    *)
(***************************************************************************)
IsBusy(h) == activity[h].kind # "Idle"

\* A handle the interface can name: published, or created at some time.
Known(h) == h \in Remote \/ \E t \in 1 .. spawned : task[t].handle = h

\* tokio::spawn of the next task.
Spawn(job, h, pc, sync, offered) ==
    /\ spawned < MaxTask
    /\ spawned' = spawned + 1
    /\ task' = [task EXCEPT ![spawned + 1] =
                   [job |-> job, handle |-> h, pc |-> pc, sync |-> sync,
                    offered |-> offered, reports |-> 0]]

Goto(t, pc) == task' = [task EXCEPT ![t].pc = pc]

Without(h) == [activity EXCEPT ![h] = IdleActivity]

\* Mutant of KillsOf: the task reads its kill channel for signals only.
IgnoreDroppedSender(h) == {}

\* Dropping the Activity of h drops its kill sender, which readies kill_rx.
KillsOf(h) == IF activity[h].kill THEN {activity[h].task} ELSE {}

\* Mutant of AbortActivity: the entry is dropped, the task is not aborted.
ForgetActivity(h) ==
    /\ activity' = Without(h)
    /\ UNCHANGED <<spawned, task, killed, game>>

\* activities.remove(h) followed by join.abort().
AbortActivity(h) ==
    /\ activity' = Without(h)
    /\ task' = [task EXCEPT ![activity[h].task].pc =
                   IF @ = "done" THEN "done" ELSE "aborted"]
    /\ killed' = killed \cup KillsOf(h)
    /\ UNCHANGED <<spawned, game>>

Message(type, h, t, isRun, ok) ==
    [type |-> type, handle |-> h, task |-> t, isRun |-> isRun, ok |-> ok]
InstallFinished(t, isRun, ok) ==
    Message("InstallFinished", task[t].handle, t, isRun, ok)
LaunchFinished(t, ok) == Message("LaunchFinished", task[t].handle, t, FALSE, ok)
JavaResolved(t, found) == Message("JavaResolved", task[t].handle, t, FALSE, found)
AuthPromptOf(t, h) == Message("AuthLaunchPrompt", h, t, FALSE, TRUE)

-----------------------------------------------------------------------------
(***************************************************************************)
(* Messages of the interface.  A message the code answers with a           *)
(* notification only changes nothing and is left out.                      *)
(***************************************************************************)

\* InstallInstance.  With a required provider the task of a published instance
\* authenticates first; launch_after_install is Some(true) or None in every
\* message the UI sends.
StartInstall(h) ==
    /\ Known(h) /\ ~IsBusy(h)
    /\ \E pc \in {"auth", "work"}, offer \in BOOLEAN :
          /\ h \in Local => pc = "work"
          /\ Spawn("install", h, pc, FALSE, offer)
          /\ launchAfter' = IF offer THEN [launchAfter EXCEPT ![h] = "yes"]
                            ELSE launchAfter
    /\ activity' = [activity EXCEPT ![h] = NewActivity("Install", spawned + 1)]
    /\ installErr' = installErr \ {h}
    /\ UNCHANGED <<creating, launchErr, authInstance, history, store, events, killed, game>>

\* What start_create_local and retry_create_local share.
SpawnCreate(h) ==
    /\ Spawn("create", h, "work", FALSE, TRUE)
    /\ launchAfter' = [launchAfter EXCEPT ![h] = "yes"]
    /\ creating' = creating \cup {h}
    /\ activity' = [activity EXCEPT ![h] = NewActivity("Install", spawned + 1)]
    /\ installErr' = installErr \ {h}
    /\ UNCHANGED <<launchErr, authInstance, history, store, events, killed, game>>

\* CreateLocalInstance: the handle is a fresh UUID.
StartCreateLocal(h) == h \in Local /\ ~Known(h) /\ SpawnCreate(h)

RetryCreateLocal(h) ==
    /\ ~IsBusy(h) /\ h \in creating
    /\ SpawnCreate(h)

CancelInstall(h) ==
    /\ Known(h) /\ activity[h].kind # "Running"
    /\ IF IsBusy(h) THEN AbortActivity(h) ELSE UNCHANGED <<activity, runs>>
    /\ IF activity[h].kind = "LaunchPrep"
       THEN UNCHANGED <<creating, launchAfter, installErr, cleanup>>
       ELSE /\ launchAfter' = [launchAfter EXCEPT ![h] = "none"]
            /\ creating' = creating \ {h}
            /\ installErr' = installErr \ {h}
            /\ cleanup' = IF h \in creating /\ storage[h] = "absent"
                          THEN cleanup \cup {h} ELSE cleanup
    /\ UNCHANGED <<launchErr, authInstance, history, storage, disk, lost, events>>

\* Mutant of DeleteInstance: no check that the instance is idle.
DeleteBusyInstance(h) ==
    /\ storage[h] # "absent"
    /\ storage' = [storage EXCEPT ![h] = "absent"]
    /\ disk' = [disk EXCEPT ![h] = "absent"]
    /\ UNCHANGED <<activity, creating, errors, launchAfter, authInstance, history,
                   cleanup, lost, events, runs>>

\* DeleteInstance: the entry leaves memory before its directory is removed.
DeleteInstance(h) ==
    /\ ~IsBusy(h) /\ storage[h] # "absent"
    /\ storage' = [storage EXCEPT ![h] = "absent"]
    /\ \/ /\ disk' = [disk EXCEPT ![h] = "absent"]
          /\ lost' = lost \ {h}
          /\ installErr' = installErr \ {h}
          /\ launchErr' = launchErr \ {h}
       \/ /\ DiskFaults
          /\ \E left \in {disk[h], "absent"} : disk' = [disk EXCEPT ![h] = left]
          /\ UNCHANGED <<errors, lost>>
    /\ UNCHANGED <<activity, creating, launchAfter, authInstance, history, cleanup, events, runs>>

\* The part of start_launch that runs once h is known to be idle, installed
\* and to have an account; `sync` is the negation of skip_sync.
SpawnLaunch(h, sync) ==
    /\ Spawn("launch", h, "auth", sync, FALSE)
    /\ launchErr' = launchErr \ {h}

StartLaunch(h) ==
    /\ ~IsBusy(h) /\ storage[h] = "installed"
    /\ SpawnLaunch(h, TRUE)
    /\ activity' = [activity EXCEPT ![h] = NewActivity("LaunchPrep", spawned + 1)]
    /\ UNCHANGED <<creating, installErr, launchAfter, authInstance, history, store,
                   events, killed, game>>

KillLaunch(h) ==
    /\ \/ /\ activity[h].kind = "Running" /\ activity[h].kill
          /\ activity' = [activity EXCEPT ![h].kill = FALSE]
          /\ killed' = killed \cup {activity[h].task}
          /\ UNCHANGED <<spawned, task, game>>
       \/ activity[h].kind = "LaunchPrep" /\ AbortActivity(h)
    /\ UNCHANGED <<creating, errors, launchAfter, authInstance, history, store, events>>

\* CancelAuth with no add-account flow pending, and cancel_instance_auth.
CancelAuth ==
    LET h == authInstance IN
    /\ h # NoHandle
    /\ authInstance' = NoHandle
    /\ IF activity[h].kind \in {"Idle", "Running"}
       THEN UNCHANGED <<activity, errors, runs>>
       ELSE /\ AbortActivity(h)
            /\ IF activity[h].kind = "LaunchPrep"
               THEN launchErr' = launchErr \cup {h} /\ UNCHANGED installErr
               ELSE installErr' = installErr \cup {h} /\ UNCHANGED launchErr
    /\ UNCHANGED <<creating, launchAfter, store, events, history>>

\* SetLaunchAfterInstall changes an entry and never makes one.
SetLaunchAfterInstall(h, enabled) ==
    /\ launchAfter[h] # "none"
    /\ launchAfter' = [launchAfter EXCEPT ![h] = IF enabled THEN "yes" ELSE "no"]
    /\ UNCHANGED <<activity, creating, errors, authInstance, history, store, events, runs>>

\* Mutant of EnsureForSettings: a handle no catalog lists gets a descriptor too.
EnsureAnyHandle(h) ==
    IF storage[h] = "absent"
    THEN /\ storage' = [storage EXCEPT ![h] = "pending"]
         /\ disk' = [disk EXCEPT ![h] = "pending"]
         /\ UNCHANGED <<cleanup, lost>>
    ELSE UNCHANGED store

\* ensure_instance_for_settings: an instance that is not stored and that some
\* fetched catalog lists gets a descriptor in the state PendingRemote before its
\* settings are written.
EnsureForSettings(h) ==
    \/ /\ h \in Remote /\ storage[h] = "absent"
       /\ storage' = [storage EXCEPT ![h] = "pending"]
       /\ disk' = [disk EXCEPT ![h] = "pending"]
       /\ UNCHANGED <<cleanup, lost>>
    \/ UNCHANGED store

\* The SetInstance... messages, as far as they reach the instance storage.
UpdateInstanceSettings(h) ==
    /\ storage[h] = "absent" /\ EnsureForSettings(h)
    /\ UNCHANGED <<activity, creating, errors, launchAfter, authInstance, history, events, runs>>

\* ResolveJavaPath spawns a task that no activity tracks.
ResolveJavaPath(h) ==
    /\ h \notin creating /\ storage[h] # "absent"
    /\ Spawn("probe", h, "work", FALSE, FALSE)
    /\ UNCHANGED <<activity, creating, errors, launchAfter, authInstance, history, store,
                   events, killed, game>>

\* Refresh reloads the storage; the catalog fetches it starts are elsewhere.
Refresh ==
    /\ storage' = disk
    /\ UNCHANGED <<activity, creating, errors, launchAfter, authInstance, history, disk,
                   cleanup, lost, events, runs>>

\* DeleteAllLauncherData ends in a new launcher process on an empty directory:
\* tasks, channel and memory are gone, child processes stay.  A failure leaves
\* any part of the directory behind and memory as it was.
DeleteAllLauncherData ==
    /\ \A h \in Handle : ~IsBusy(h)
    /\ \/ /\ disk' = [h \in Handle |-> "absent"]
          /\ storage' = disk'
          /\ creating' = {} /\ installErr' = {} /\ launchErr' = {}
          /\ launchAfter' = [h \in Handle |-> "none"]
          /\ authInstance' = NoHandle /\ cleanup' = {} /\ events' = <<>>
          /\ lost' = {} /\ shown' = {}
          /\ task' = [t \in TaskId |->
                        IF task[t].pc \in {"unborn", "done"} THEN task[t]
                        ELSE [task[t] EXCEPT !.pc = "aborted"]]
          /\ UNCHANGED <<activity, spawned, killed, game, misled>>
       \/ /\ DiskFaults
          /\ \E gone \in SUBSET Handle :
                /\ disk' = [h \in Handle |-> IF h \in gone THEN "absent" ELSE disk[h]]
                /\ lost' = lost \cup gone
          /\ UNCHANGED <<storage, activity, creating, errors, launchAfter,
                         authInstance, history, cleanup, events, runs>>

-----------------------------------------------------------------------------
(***************************************************************************)
(* Events of the tasks, taken from the head of the channel.                *)
(***************************************************************************)
event == Head(events)
Receive(type) == events # <<>> /\ event.type = type /\ events' = Tail(events)

HandleInstanceTasks ==
    /\ Receive("InstanceTasks")
    /\ activity' = IF IsBusy(event.handle)
                   THEN [activity EXCEPT ![event.handle].shows = event.task]
                   ELSE activity
    /\ UNCHANGED <<creating, errors, launchAfter, authInstance, history, store, runs>>

\* Mutant of AfterInstall: the flag is_run is read the wrong way round.
AfterRunInstall(h, isRun) ==
    IF isRun /\ activity[h].kind = "Install" THEN Without(h) ELSE activity

\* The task the entry of h names, if it is not the one that sent the event.
Misled(h) ==
    IF IsBusy(h) /\ activity[h].task # event.task THEN {activity[h].task} ELSE {}

\* The entry of h once handle_install_finished has dropped it.
AfterInstall(h, isRun) ==
    IF ~isRun /\ activity[h].kind = "Install" THEN Without(h) ELSE activity

\* Mutant of SaveInstalled: memory is updated when the save fails as well.
SaveInMemory(h) ==
    /\ storage' = [storage EXCEPT ![h] = "installed"]
    /\ UNCHANGED <<disk, lost>>
    /\ installErr' = installErr \cup {h}

\* Saving the installed instance: descriptor first, memory second.  The old
\* descriptor is removed before the new one is in place (write_file_atomic), so
\* a failure may leave none; a success whose creation was cancelled is stored in
\* the directory that the clean-up is about to remove.
SaveInstalled(h) ==
    \/ /\ storage' = [storage EXCEPT ![h] = "installed"]
       /\ disk' = [disk EXCEPT ![h] = "installed"]
       /\ lost' = IF h \in cleanup THEN lost \cup {h} ELSE lost \ {h}
       /\ installErr' = installErr \ {h}
    \/ /\ DiskFaults
       /\ \/ UNCHANGED <<disk, lost>>
          \/ disk' = [disk EXCEPT ![h] = "absent"] /\ lost' = lost \cup {h}
       /\ UNCHANGED storage
       /\ installErr' = installErr \cup {h}

\* InstallFinished, and the launch that follows it when the user asked for one
\* and nothing stands in its way (its account may not resolve).
HandleInstallFinished ==
    LET h == event.handle
        after == AfterInstall(h, event.isRun)
        wanted == ~event.isRun /\ event.ok /\ launchAfter[h] = "yes"
    IN
    /\ Receive("InstallFinished")
    /\ launchAfter' = [launchAfter EXCEPT ![h] = "none"]
    /\ IF event.ok
       THEN creating' = creating \ {h} /\ SaveInstalled(h)
       ELSE installErr' = installErr \cup {h} /\ UNCHANGED <<creating, storage, disk, lost>>
    /\ misled' = IF after = activity THEN misled ELSE misled \cup Misled(h)
    /\ \/ /\ wanted /\ after[h].kind = "Idle" /\ storage'[h] = "installed"
          /\ SpawnLaunch(h, FALSE)
          /\ activity' = [after EXCEPT ![h] = NewActivity("LaunchPrep", spawned + 1)]
       \/ activity' = after /\ UNCHANGED <<launchErr, spawned, task>>
    /\ UNCHANGED <<authInstance, shown, cleanup, killed, game>>

HandleLaunchStarted ==
    /\ Receive("LaunchStarted")
    /\ activity' = IF IsBusy(event.handle)
                   THEN [activity EXCEPT ![event.handle].kind = "Running",
                                         ![event.handle].shows = 0]
                   ELSE activity
    /\ misled' = misled \cup Misled(event.handle)
    /\ shown' = IF activity[event.handle].task = event.task
                THEN shown \cup {event.task} ELSE shown
    /\ UNCHANGED <<creating, errors, launchAfter, authInstance, store, runs>>

HandleLaunchFinished ==
    /\ Receive("LaunchFinished")
    /\ authInstance' = NoHandle
    /\ activity' = Without(event.handle)
    /\ killed' = killed \cup KillsOf(event.handle)
    /\ launchErr' = IF event.ok THEN launchErr \ {event.handle}
                    ELSE launchErr \cup {event.handle}
    /\ misled' = misled \cup Misled(event.handle)
    /\ UNCHANGED <<creating, installErr, launchAfter, store, spawned, task, game, shown>>

HandleAuthLaunchPrompt ==
    /\ Receive("AuthLaunchPrompt")
    /\ authInstance' = event.handle
    /\ UNCHANGED <<activity, creating, errors, launchAfter, store, runs, history>>

HandleJavaResolved ==
    /\ Receive("JavaResolved")
    /\ IF event.ok THEN EnsureForSettings(event.handle) ELSE UNCHANGED store
    /\ UNCHANGED <<activity, creating, errors, launchAfter, authInstance, history, runs>>

HandleEvent ==
    \/ HandleInstanceTasks   \/ HandleInstallFinished  \/ HandleLaunchStarted
    \/ HandleLaunchFinished  \/ HandleAuthLaunchPrompt \/ HandleJavaResolved

-----------------------------------------------------------------------------
(***************************************************************************)
(* The tasks.  A step is the code between two awaits.                      *)
(***************************************************************************)
loop == <<activity, creating, errors, launchAfter, authInstance, store, history>>
Send(messages) == events' = events \o messages
At(t, pcs) == task[t].pc \in pcs
Is(t, jobs) == task[t].job \in jobs

\* Installing a local instance fails at once: no backend publishes it.
Updatable(t) == Is(t, {"install"}) => task[t].handle \in Remote

\* Where authentication leads: the sync, or the game when an install that has
\* just finished hands over its Java installation (skip_sync).
AfterAuth(t) ==
    IF Is(t, {"launch"}) /\ ~task[t].sync THEN "start" ELSE "work"

\* Mutant of Failure: a launch whose sync failed returns before it reports.
FailureWithoutExit(t) ==
    CASE Is(t, {"install", "create"}) -> <<InstallFinished(t, FALSE, FALSE)>>
      [] Is(t, {"launch"}) /\ At(t, {"work", "save"}) -> <<InstallFinished(t, TRUE, FALSE)>>
      [] Is(t, {"launch"}) /\ ~At(t, {"work", "save"}) -> <<LaunchFinished(t, FALSE)>>
      [] OTHER -> <<JavaResolved(t, FALSE)>>

\* What a task that cannot go on sends before it ends.
Failure(t) ==
    CASE Is(t, {"install", "create"}) -> <<InstallFinished(t, FALSE, FALSE)>>
      [] Is(t, {"launch"}) /\ At(t, {"work", "save"}) ->
            <<InstallFinished(t, TRUE, FALSE), LaunchFinished(t, FALSE)>>
      [] Is(t, {"launch"}) /\ ~At(t, {"work", "save"}) -> <<LaunchFinished(t, FALSE)>>
      [] OTHER -> <<JavaResolved(t, FALSE)>>

Fail(t) ==
    /\ At(t, {"auth", "prompt", "work", "save", "start"})
    /\ Goto(t, "done") /\ Send(Failure(t))
    /\ UNCHANGED <<loop, spawned, killed, game>>

ReportProgress(t) ==
    /\ At(t, {"work"}) /\ Updatable(t) /\ task[t].reports < MaxReports
    /\ task' = [task EXCEPT ![t].reports = @ + 1]
    /\ Send(<<Message("InstanceTasks", task[t].handle, t, FALSE, TRUE)>>)
    /\ UNCHANGED <<loop, spawned, killed, game>>

\* The provider needs the user: set_message shows the prompt.
AskUser(t) ==
    /\ At(t, {"auth"})
    /\ Goto(t, "prompt") /\ Send(<<AuthPromptOf(t, task[t].handle)>>)
    /\ UNCHANGED <<loop, spawned, killed, game>>

\* Authentication without a prompt; after a network error the stored account
\* is used and the prompt, shown or not, is cleared.
Authenticate(t) ==
    /\ At(t, {"auth"})
    /\ Goto(t, AfterAuth(t))
    /\ \E offline \in BOOLEAN :
          Send(IF offline THEN <<AuthPromptOf(t, NoHandle)>> ELSE <<>>)
    /\ UNCHANGED <<loop, spawned, killed, game>>

\* The user has answered.  Microsoft's provider clears its prompt, those of
\* ely.by and Telegram leave it.
UserAuthenticated(t) ==
    /\ At(t, {"prompt"})
    /\ Goto(t, AfterAuth(t))
    /\ \E clears \in PromptCleared :
          Send(IF clears THEN <<AuthPromptOf(t, NoHandle)>> ELSE <<>>)
    /\ UNCHANGED <<loop, spawned, killed, game>>

\* Files and Java are in place: the Java path is sent, the metadata saved next.
FilesReady(t) ==
    /\ At(t, {"work"})
    /\ \/ /\ Is(t, {"launch", "install"}) /\ Updatable(t)
          /\ Goto(t, "save") /\ Send(<<JavaResolved(t, TRUE)>>)
       \/ /\ Is(t, {"create"})
          /\ Goto(t, "done")
          /\ Send(<<JavaResolved(t, TRUE), InstallFinished(t, FALSE, TRUE)>>)
       \/ /\ Is(t, {"probe"})
          /\ Goto(t, "done") /\ Send(<<JavaResolved(t, TRUE)>>)
    /\ UNCHANGED <<loop, spawned, killed, game>>

MetadataSaved(t) ==
    /\ At(t, {"save"})
    /\ Goto(t, IF Is(t, {"launch"}) THEN "start" ELSE "done")
    /\ Send(<<InstallFinished(t, Is(t, {"launch"}), TRUE)>>)
    /\ UNCHANGED <<loop, spawned, killed, game>>

StartGame(t) ==
    /\ At(t, {"start"})
    /\ Goto(t, "game") /\ game' = game \cup {t}
    /\ Send(<<Message("LaunchStarted", task[t].handle, t, FALSE, TRUE)>>)
    /\ UNCHANGED <<loop, spawned, killed>>

\* Mutant of KillGame: the process is killed and nobody is told.
KillGameSilently(t) ==
    /\ At(t, {"game"}) /\ t \in killed
    /\ Goto(t, "done") /\ game' = game \ {t}
    /\ UNCHANGED <<loop, events, spawned, killed>>

\* kill_rx is ready: a signal was sent or the sender was dropped.
KillGame(t) ==
    /\ At(t, {"game"}) /\ t \in killed
    /\ Goto(t, "done") /\ game' = game \ {t}
    /\ Send(<<LaunchFinished(t, TRUE)>>)
    /\ UNCHANGED <<loop, spawned, killed>>

\* child.wait() returns.
ReportExit(t) ==
    /\ At(t, {"game"}) /\ t \notin game
    /\ Goto(t, "done")
    /\ \E clean \in BOOLEAN : Send(<<LaunchFinished(t, clean)>>)
    /\ UNCHANGED <<loop, spawned, killed, game>>

\* The process ends by itself.
GameExits(t) ==
    /\ t \in game
    /\ game' = game \ {t}
    /\ UNCHANGED <<loop, events, spawned, task, killed>>

\* The spawned remove_dir_all of a cancelled creation.
RemovePartialDir(h) ==
    /\ h \in cleanup
    /\ cleanup' = cleanup \ {h}
    /\ disk' = [disk EXCEPT ![h] = "absent"]
    /\ UNCHANGED <<activity, creating, errors, launchAfter, authInstance, history,
                   storage, lost, events, runs>>

\* Steps a task takes without waiting for the user.
TaskStep(t) ==
    \/ ReportProgress(t) \/ AskUser(t)       \/ Authenticate(t) \/ FilesReady(t)
    \/ MetadataSaved(t)  \/ StartGame(t)     \/ KillGame(t)     \/ ReportExit(t)
    \/ (~At(t, {"prompt"}) /\ Fail(t))

UserStep(t) == UserAuthenticated(t) \/ (At(t, {"prompt"}) /\ Fail(t)) \/ GameExits(t)

UserMessage ==
    \/ \E h \in Handle :
          \/ StartInstall(h)   \/ StartCreateLocal(h) \/ RetryCreateLocal(h)
          \/ CancelInstall(h)  \/ DeleteInstance(h)   \/ StartLaunch(h)
          \/ KillLaunch(h)     \/ ResolveJavaPath(h)  \/ UpdateInstanceSettings(h)
          \/ \E enabled \in BOOLEAN : SetLaunchAfterInstall(h, enabled)
    \/ CancelAuth \/ Refresh \/ DeleteAllLauncherData

Next ==
    \/ UserMessage
    \/ HandleEvent
    \/ \E t \in TaskId : TaskStep(t) \/ UserStep(t)
    \/ \E h \in Handle : RemovePartialDir(h)

Spec == Init /\ [][Next]_vars

\* The runtime polls every task and the loop receives every event; the user,
\* an authentication that waits for the user and a game owe nothing.
Fairness ==
    /\ WF_vars(HandleEvent)
    /\ \A t \in TaskId : WF_vars(TaskStep(t))
    /\ \A h \in Handle : WF_vars(RemovePartialDir(h))

FairSpec == Spec /\ Fairness

-----------------------------------------------------------------------------
(***************************************************************************)
(* Safety whatever the order of messages and events.                       *)
(***************************************************************************)
Ended == {"unborn", "done", "aborted"}
Live(t) == ~At(t, Ended)

\* A launch that is under way can always be stopped: the activity of its
\* instance holds its kill sender, or the kill channel is ready.  A launch
\* whose entry a stale event removed is killed, not left to run unseen
\* (kill_rx is ready when its sender is dropped, start_launch).
LaunchStoppable ==
    \A t \in TaskId : Live(t) /\ Is(t, {"launch"}) =>
        t \in killed \/ (activity[task[t].handle].task = t /\ activity[task[t].handle].kill)

\* An instance under creation is in no storage, so the interface never lists
\* it twice and a cancelled creation owns the directory it removes
\* (handle_install_finished, cancel_install).
CreatingNotStored ==
    \A h \in creating : storage[h] = "absent" /\ disk[h] = "absent"

\* The LaunchStarted of a launch that was cancelled finds the entry of a newer
\* installation and turns it to Running, which the end of the installation leaves.
Mistaken(h) == activity[h].kind = "Running" /\ ~Is(activity[h].task, {"launch"})

\* Whatever overtakes what, one task at a time works on an instance, and it is
\* the one the entry names, of the kind the entry says.  The one exception is a
\* task whose entry an event of an earlier task has removed or turned to Running,
\* since the loop tells entries by the instance alone (is_busy guards every spawn;
\* removing an entry aborts its task).
OneWorker ==
    \A t \in TaskId : Live(t) /\ ~Is(t, {"probe"}) /\ t \notin misled =>
        /\ activity[task[t].handle].task = t
        /\ activity[task[t].handle].kind = "Install" <=> ~Is(t, {"launch"})

\* A busy instance becomes idle again: its task is live, or the event that
\* removes the entry is in the channel, unless the instance is Mistaken.
BusyWillEnd ==
    \A h \in Handle : IsBusy(h) /\ ~Mistaken(h) =>
        \/ Live(activity[h].task)
        \/ \E i \in 1 .. Len(events) :
              /\ events[i].handle = h
              /\ \/ events[i].type = "LaunchFinished"
                 \/ /\ events[i].type = "InstallFinished" /\ ~events[i].isRun
                    /\ activity[h].kind = "Install"

\* A game the interface has shown is watched by its task until it is gone: the
\* entry names it as running, and the files it runs from stay installed, or it is
\* being killed, be it because a stale event took its entry (delete_instance,
\* kill_launch, cancel_install, handle LaunchFinished).  A launch that is aborted
\* before the loop has read its LaunchStarted leaves its game to run unwatched.
GameSupervised ==
    \A t \in game \cap shown :
        LET h == task[t].handle IN
        /\ At(t, {"game"})
        /\ \/ /\ activity[h].task = t /\ activity[h].kind = "Running"
              /\ h \in lost \/ disk[h] = "installed"
           \/ t \in killed

\* What memory says is stored is on disk, failing saves and deletions included
\* (save_instance before the entry, delete_instance, Refresh).  The exceptions,
\* until the next save, are in `lost`: a descriptor that went with a save or a
\* deletion of everything that failed half-way, and an installation that is stored
\* while the directory of its cancelled creation is still to be removed.
StoredOnDisk ==
    \A h \in Handle \ lost : storage[h] # "absent" => disk[h] = storage[h]

-----------------------------------------------------------------------------
(***************************************************************************)
(* Liveness.                                                               *)
(***************************************************************************)

\* Once its task has ended, an instance does not stay busy with it, unless it is
\* Mistaken.
EndedIsReported ==
    \A h \in Handle, t \in TaskId :
        (activity[h].task = t /\ At(t, {"done"})) ~> (activity[h].task # t \/ Mistaken(h))

\* KillInstance on a running game ends the process and frees the instance, unless
\* the launcher restarts first: then the process may be left.
KillTakesEffect ==
    \A h \in Handle, t \in TaskId :
        (activity[h].task = t /\ t \in killed /\ At(t, {"game"}))
            ~> (activity[h].task # t /\ (t \in game => At(t, {"aborted"})))
=============================================================================
