----------------------- MODULE InstanceLifecycle_proofs -----------------------
(***************************************************************************)
(* Proofs about InstanceLifecycle, for every value of its constants.       *)
(***************************************************************************)
EXTENDS MCLifecycle, SequenceTheorems, TLAPS

USE LifecycleAssumption DEF Handle, TaskId, history

\* The task an entry names has been spawned.
ActivitySpawned == \A h \in Handle : IsBusy(h) => activity[h].task \in 1 .. spawned

Typed == TypeOK /\ ActivitySpawned

-----------------------------------------------------------------------------
(***************************************************************************)
(* Lemmas about the helpers.                                               *)
(***************************************************************************)

\* A task that has a program counter of a living or ended task was spawned.
LEMMA TaskBorn ==
    ASSUME TypeOK, NEW t \in TaskId, task[t].pc # "unborn"
    PROVE  t \in 1 .. spawned /\ task[t] \in Task
BY DEF TypeOK, NoTask

\* A busy instance has a typed entry, an idle one has the idle entry.
LEMMA EntryType ==
    ASSUME TypeOK, NEW h \in Handle
    PROVE  /\ IsBusy(h) => activity[h] \in [kind : Kind, task : TaskId, kill : BOOLEAN,
                                            shows : 0 .. MaxTask]
           /\ ~IsBusy(h) => activity[h] = IdleActivity
           /\ KillsOf(h) \subseteq TaskId
<1>1. activity[h] \in Activity
  BY DEF TypeOK
<1>2. CASE activity[h] = IdleActivity
  BY <1>2 DEF IdleActivity, IsBusy, KillsOf
<1>3. CASE activity[h] \in [kind : Kind, task : TaskId, kill : BOOLEAN,
                            shows : 0 .. MaxTask]
  BY <1>3 DEF IsBusy, KillsOf, Kind
<1> QED
  BY <1>1, <1>2, <1>3 DEF Activity

\* tokio::spawn adds one well-typed task and one task number.
LEMMA SpawnType ==
    ASSUME TypeOK, NEW job \in Job, NEW h \in Handle, NEW pc \in Phase,
           NEW sync \in BOOLEAN, NEW offered \in BOOLEAN,
           Spawn(job, h, pc, sync, offered)
    PROVE  /\ spawned' \in 0 .. MaxTask /\ spawned' = spawned + 1
           /\ spawned + 1 \in TaskId
           /\ task' \in [TaskId -> Task \cup {NoTask}]
           /\ \A t \in TaskId : t \in 1 .. spawned' <=> task'[t] \in Task
<1>1. spawned' = spawned + 1 /\ spawned + 1 \in TaskId /\ spawned' \in 0 .. MaxTask
  BY DEF TypeOK, Spawn
<1> DEFINE new == [job |-> job, handle |-> h, pc |-> pc, sync |-> sync,
                   offered |-> offered, reports |-> 0]
<1>2. new \in Task
  BY DEF Task
<1>3. task' = [task EXCEPT ![spawned + 1] = new]
  BY DEF Spawn
<1> HIDE DEF new
<1>4. task' \in [TaskId -> Task \cup {NoTask}]
  BY <1>1, <1>2, <1>3 DEF TypeOK
<1>5. ASSUME NEW t \in TaskId PROVE t \in 1 .. spawned' <=> task'[t] \in Task
  BY <1>1, <1>2, <1>3 DEF TypeOK
<1> QED
  BY <1>1, <1>4, <1>5

\* Replacing the record of a spawned task by another task.
LEMMA UpdateType ==
    ASSUME TypeOK, NEW t \in TaskId, t \in 1 .. spawned, NEW new \in Task,
           task' = [task EXCEPT ![t] = new], UNCHANGED spawned
    PROVE  /\ task' \in [TaskId -> Task \cup {NoTask}]
           /\ \A u \in TaskId : u \in 1 .. spawned' <=> task'[u] \in Task
BY DEF TypeOK

\* Moving a spawned task to another phase keeps it well typed.
LEMMA GotoType ==
    ASSUME TypeOK, NEW t \in TaskId, task[t].pc # "unborn", NEW pc \in Phase,
           Goto(t, pc), UNCHANGED spawned
    PROVE  /\ task' \in [TaskId -> Task \cup {NoTask}]
           /\ \A u \in TaskId : u \in 1 .. spawned' <=> task'[u] \in Task
<1>1. t \in 1 .. spawned /\ task[t] \in Task
  BY TaskBorn
<1>2. [task[t] EXCEPT !.pc = pc] \in Task
  BY <1>1 DEF Task
<1>3. task' = [task EXCEPT ![t] = [task[t] EXCEPT !.pc = pc]]
  BY DEF Goto
<1> QED
  BY <1>1, <1>2, <1>3, UpdateType

\* Removing an entry and aborting its task keeps the types (join.abort()).
LEMMA AbortType ==
    ASSUME Typed, NEW h \in Handle, IsBusy(h), AbortActivity(h)
    PROVE  /\ activity' \in [Handle -> Activity]
           /\ spawned' = spawned /\ game' = game
           /\ task' \in [TaskId -> Task \cup {NoTask}]
           /\ \A u \in TaskId : u \in 1 .. spawned' <=> task'[u] \in Task
           /\ killed' \subseteq TaskId
<1> DEFINE t == activity[h].task
<1>1. t \in 1 .. spawned /\ t \in TaskId /\ task[t] \in Task
  BY DEF Typed, TypeOK, ActivitySpawned
<1>2. PICK pc \in {"done", "aborted"} : task' = [task EXCEPT ![t].pc = pc]
  BY DEF AbortActivity
<1>3. [task[t] EXCEPT !.pc = pc] \in Task
  BY <1>1 DEF Task, Phase
<1>4. task' = [task EXCEPT ![t] = [task[t] EXCEPT !.pc = pc]]
  BY <1>2
<1>5. /\ task' \in [TaskId -> Task \cup {NoTask}]
      /\ \A u \in TaskId : u \in 1 .. spawned' <=> task'[u] \in Task
  BY <1>1, <1>3, <1>4, UpdateType DEF Typed, AbortActivity
<1>6. activity' \in [Handle -> Activity]
  BY DEF Typed, TypeOK, AbortActivity, Without, Activity
<1>7. killed' \subseteq TaskId
  BY EntryType DEF Typed, TypeOK, AbortActivity
<1> QED
  BY <1>5, <1>6, <1>7 DEF AbortActivity

\* What the loop takes from the channel and what it leaves there.
LEMMA ReceiveType ==
    ASSUME TypeOK, NEW type, Receive(type)
    PROVE  /\ event \in Event \cup PromptGone /\ event.type = type
           /\ type # "AuthLaunchPrompt" => event \in Event
           /\ events' \in Seq(Event \cup PromptGone)
BY HeadTailProperties DEF TypeOK, Receive, event, PromptGone

\* Sequences of no, one and two elements, as the tasks send them.
LEMMA ShortSequences ==
    ASSUME NEW S, NEW a \in S, NEW b \in S
    PROVE  <<>> \in Seq(S) /\ <<a>> \in Seq(S) /\ <<a, b>> \in Seq(S)
OBVIOUS

\* The messages a task may send: about its own instance, or a cleared prompt.
OwnMessages(t) ==
    {m \in Event \cup PromptGone : m.handle \in {task[t].handle, NoHandle}}

\* Sending well-typed messages keeps the channel well typed.
LEMMA SendType ==
    ASSUME TypeOK, NEW t \in TaskId, NEW messages \in Seq(OwnMessages(t)), Send(messages)
    PROVE  events' \in Seq(Event \cup PromptGone)
<1>1. messages \in Seq(Event \cup PromptGone)
  BY DEF OwnMessages
<1> QED
  BY <1>1, ConcatProperties DEF TypeOK, Send

\* The messages a task can build are events about its own instance.
LEMMA MessageType ==
    ASSUME TypeOK, NEW t \in TaskId, task[t].pc # "unborn", NEW ok \in BOOLEAN,
           NEW isRun \in BOOLEAN
    PROVE  /\ InstallFinished(t, isRun, ok) \in OwnMessages(t)
           /\ LaunchFinished(t, ok) \in OwnMessages(t)
           /\ JavaResolved(t, ok) \in OwnMessages(t)
           /\ AuthPromptOf(t, task[t].handle) \in OwnMessages(t)
           /\ AuthPromptOf(t, NoHandle) \in OwnMessages(t)
           /\ Message("LaunchStarted", task[t].handle, t, FALSE, TRUE) \in OwnMessages(t)
           /\ Message("InstanceTasks", task[t].handle, t, FALSE, TRUE) \in OwnMessages(t)
<1>1. task[t].handle \in Handle
  BY TaskBorn DEF Task
<1> QED
  BY <1>1 DEF InstallFinished, LaunchFinished, JavaResolved, AuthPromptOf, Message,
              Event, PromptGone, OwnMessages

\* A step of a task sends messages of its own, or none.
LEMMA SentMessages ==
    ASSUME TypeOK, NEW t \in TaskId, TaskStep(t) \/ UserStep(t)
    PROVE  events' = events \/ \E messages \in Seq(OwnMessages(t)) : Send(messages)
<1>1. CASE GameExits(t)
  BY <1>1 DEF GameExits
<1>2. CASE ~GameExits(t)
  <2>1. task[t].pc # "unborn"
    BY <1>2 DEF TaskStep, UserStep, ReportProgress, AskUser, Authenticate, FilesReady,
       MetadataSaved, StartGame, KillGame, ReportExit, Fail, UserAuthenticated, At
  <2>2. /\ \A ok \in BOOLEAN, isRun \in BOOLEAN :
              /\ InstallFinished(t, isRun, ok) \in OwnMessages(t)
              /\ LaunchFinished(t, ok) \in OwnMessages(t)
              /\ JavaResolved(t, ok) \in OwnMessages(t)
        /\ AuthPromptOf(t, task[t].handle) \in OwnMessages(t)
        /\ AuthPromptOf(t, NoHandle) \in OwnMessages(t)
        /\ Message("LaunchStarted", task[t].handle, t, FALSE, TRUE) \in OwnMessages(t)
        /\ Message("InstanceTasks", task[t].handle, t, FALSE, TRUE) \in OwnMessages(t)
    BY <2>1, MessageType
  <2>3. CASE AskUser(t) \/ Authenticate(t) \/ UserAuthenticated(t)
    BY <2>2, <2>3, ShortSequences DEF AskUser, Authenticate, UserAuthenticated
  <2>4. CASE FilesReady(t)
    BY <2>2, <2>4, ShortSequences DEF FilesReady
  <2>5. CASE MetadataSaved(t)
    <3>1. Is(t, {"launch"}) \in BOOLEAN
      BY DEF Is
    <3>2. <<InstallFinished(t, Is(t, {"launch"}), TRUE)>> \in Seq(OwnMessages(t))
      BY <2>2, <3>1, ShortSequences
    <3> QED
      BY <2>5, <3>2 DEF MetadataSaved
  <2>6. CASE StartGame(t) \/ KillGame(t) \/ ReportExit(t)
    BY <2>2, <2>6, ShortSequences DEF StartGame, KillGame, ReportExit
  <2>7. CASE ReportProgress(t)
    BY <2>2, <2>7, ShortSequences DEF ReportProgress
  <2>8. CASE Fail(t)
    <3>1. Failure(t) \in Seq(OwnMessages(t))
      BY <2>2, ShortSequences DEF Failure
    <3> QED
      BY <2>8, <3>1 DEF Fail
  <2> QED
    BY <1>2, <2>3, <2>4, <2>5, <2>6, <2>7, <2>8 DEF TaskStep, UserStep
<1> QED
  BY <1>1, <1>2

-----------------------------------------------------------------------------
(***************************************************************************)
(* Type correctness: one lemma per action of the loop.                     *)
(***************************************************************************)

\* A fresh entry for the task that is being spawned.
LEMMA FreshEntry ==
    ASSUME Typed, NEW h \in Handle, NEW base \in [Handle -> Activity],
           NEW kind \in {"Install", "LaunchPrep"},
           \A g \in Handle : base[g] \in {activity[g], IdleActivity},
           activity' = [base EXCEPT ![h] = NewActivity(kind, spawned + 1)],
           spawned' = spawned + 1, spawned + 1 \in TaskId
    PROVE  activity' \in [Handle -> Activity] /\ ActivitySpawned'
<1>1. NewActivity(kind, spawned + 1) \in Activity
  BY DEF NewActivity, Activity, Kind
<1>2. activity' \in [Handle -> Activity]
  BY <1>1
<1>3. ASSUME NEW g \in Handle, IsBusy(g)' PROVE activity'[g].task \in 1 .. spawned'
  <2>1. CASE g = h
    BY <2>1 DEF NewActivity, Typed, TypeOK
  <2>2. CASE g # h
    <3>1. activity'[g] = activity[g] /\ IsBusy(g)
      BY <2>2, <1>3 DEF IsBusy, IdleActivity
    <3> QED
      BY <3>1 DEF Typed, TypeOK, ActivitySpawned
  <2> QED
    BY <2>1, <2>2
<1> QED
  BY <1>2, <1>3 DEF ActivitySpawned

\* Dropping entries or changing anything but the tasks they name.
LEMMA FewerEntries ==
    ASSUME Typed, activity' \in [Handle -> Activity], spawned' = spawned,
           \A g \in Handle : IsBusy(g)' => IsBusy(g) /\ activity'[g].task = activity[g].task
    PROVE  ActivitySpawned'
BY DEF Typed, ActivitySpawned

\* InstallInstance (start_install) preserves the types.
LEMMA StartInstallType ==
    ASSUME Typed, NEW h \in Handle, StartInstall(h)
    PROVE  Typed'
<1>1. PICK pc \in {"auth", "work"}, offer \in BOOLEAN :
         /\ Spawn("install", h, pc, FALSE, offer)
         /\ launchAfter' = IF offer THEN [launchAfter EXCEPT ![h] = "yes"] ELSE launchAfter
  BY DEF StartInstall
<1>2. pc \in Phase /\ "install" \in Job
  BY DEF Phase, Job
<1>3. /\ spawned' \in 0 .. MaxTask /\ spawned' = spawned + 1 /\ spawned + 1 \in TaskId
      /\ task' \in [TaskId -> Task \cup {NoTask}]
      /\ \A t \in TaskId : t \in 1 .. spawned' <=> task'[t] \in Task
  BY <1>1, <1>2, SpawnType DEF Typed
<1>4. activity' \in [Handle -> Activity] /\ ActivitySpawned'
  BY <1>3, FreshEntry DEF StartInstall, Typed, TypeOK
<1> QED
  BY <1>1, <1>3, <1>4 DEF StartInstall, Typed, TypeOK, store

\* Starting or retrying a local creation preserves the types.
LEMMA SpawnCreateType ==
    ASSUME Typed, NEW h \in Local, SpawnCreate(h)
    PROVE  Typed'
<1>1. "work" \in Phase /\ "create" \in Job
  BY DEF Phase, Job
<1>2. /\ spawned' \in 0 .. MaxTask /\ spawned' = spawned + 1 /\ spawned + 1 \in TaskId
      /\ task' \in [TaskId -> Task \cup {NoTask}]
      /\ \A t \in TaskId : t \in 1 .. spawned' <=> task'[t] \in Task
  BY <1>1, SpawnType DEF Typed, SpawnCreate
<1>3. activity' \in [Handle -> Activity] /\ ActivitySpawned'
  BY <1>2, FreshEntry DEF SpawnCreate, Typed, TypeOK
<1> QED
  BY <1>2, <1>3 DEF SpawnCreate, Typed, TypeOK, store

\* StartInstance (start_launch) preserves the types.
LEMMA StartLaunchType ==
    ASSUME Typed, NEW h \in Handle, StartLaunch(h)
    PROVE  Typed'
<1>1. "auth" \in Phase /\ "launch" \in Job
  BY DEF Phase, Job
<1>2. /\ spawned' \in 0 .. MaxTask /\ spawned' = spawned + 1 /\ spawned + 1 \in TaskId
      /\ task' \in [TaskId -> Task \cup {NoTask}]
      /\ \A t \in TaskId : t \in 1 .. spawned' <=> task'[t] \in Task
  BY <1>1, SpawnType DEF Typed, StartLaunch, SpawnLaunch
<1>3. activity' \in [Handle -> Activity] /\ ActivitySpawned'
  BY <1>2, FreshEntry DEF StartLaunch, Typed, TypeOK
<1> QED
  BY <1>2, <1>3 DEF StartLaunch, SpawnLaunch, Typed, TypeOK, store

\* The standalone Java resolve (resolve_java_path) preserves the types.
LEMMA ResolveJavaPathType ==
    ASSUME Typed, NEW h \in Handle, ResolveJavaPath(h)
    PROVE  Typed'
<1>1. "work" \in Phase /\ "probe" \in Job
  BY DEF Phase, Job
<1>2. /\ spawned' \in 0 .. MaxTask /\ spawned' = spawned + 1 /\ spawned + 1 \in TaskId
      /\ task' \in [TaskId -> Task \cup {NoTask}]
      /\ \A t \in TaskId : t \in 1 .. spawned' <=> task'[t] \in Task
  BY <1>1, SpawnType DEF Typed, ResolveJavaPath
<1>3. ActivitySpawned'
  BY <1>2 DEF ResolveJavaPath, Typed, TypeOK, ActivitySpawned, IsBusy
<1> QED
  BY <1>2, <1>3 DEF ResolveJavaPath, Typed, TypeOK, store, errors

\* CancelInstall (cancel_install) preserves the types.
LEMMA CancelInstallType ==
    ASSUME Typed, NEW h \in Handle, CancelInstall(h)
    PROVE  Typed'
<1>1. /\ activity' \in [Handle -> Activity]
      /\ spawned' = spawned /\ game' = game /\ killed' \subseteq TaskId
      /\ task' \in [TaskId -> Task \cup {NoTask}]
      /\ \A u \in TaskId : u \in 1 .. spawned' <=> task'[u] \in Task
      /\ \A g \in Handle : activity'[g] \in {activity[g], IdleActivity}
  <2>1. CASE IsBusy(h)
    BY <2>1, AbortType DEF CancelInstall, AbortActivity, Without, Typed, TypeOK
  <2>2. CASE ~IsBusy(h)
    BY <2>2 DEF CancelInstall, Typed, TypeOK, runs
  <2> QED
    BY <2>1, <2>2
<1>2. ActivitySpawned'
  BY <1>1, FewerEntries DEF IsBusy, IdleActivity
<1>3. /\ creating' \subseteq Local /\ cleanup' \subseteq Local
      /\ launchAfter' \in [Handle -> {"none", "no", "yes"}]
      /\ installErr' \subseteq Handle
  BY DEF CancelInstall, Typed, TypeOK
<1> QED
  BY <1>1, <1>2, <1>3 DEF CancelInstall, Typed, TypeOK

\* KillInstance (kill_launch) preserves the types.
LEMMA KillLaunchType ==
    ASSUME Typed, NEW h \in Handle, KillLaunch(h)
    PROVE  Typed'
<1>1. CASE activity[h].kind = "LaunchPrep" /\ AbortActivity(h)
  <2>1. IsBusy(h)
    BY <1>1 DEF IsBusy
  <2>2. ActivitySpawned'
    BY <1>1, <2>1, AbortType, FewerEntries
       DEF IsBusy, IdleActivity, AbortActivity, Without, Typed, TypeOK
  <2> QED
    BY <1>1, <2>1, <2>2, AbortType DEF KillLaunch, Typed, TypeOK, errors, store
<1>2. CASE /\ activity[h].kind = "Running" /\ activity[h].kill
           /\ activity' = [activity EXCEPT ![h].kill = FALSE]
           /\ killed' = killed \cup {activity[h].task}
           /\ UNCHANGED <<spawned, task, game>>
  <2>1. IsBusy(h) /\ activity[h].task \in TaskId
    BY <1>2, EntryType DEF IsBusy, Typed
  <2>2. [activity[h] EXCEPT !.kill = FALSE] \in Activity
    BY <2>1, EntryType DEF Activity, Typed
  <2>3. activity' = [activity EXCEPT ![h] = [activity[h] EXCEPT !.kill = FALSE]]
    BY <1>2
  <2>4. activity' \in [Handle -> Activity]
    BY <2>2, <2>3 DEF Typed, TypeOK
  <2>5. ActivitySpawned'
    BY <1>2, <2>1, <2>4, FewerEntries DEF IsBusy, Typed, TypeOK
  <2> QED
    BY <1>2, <2>1, <2>4, <2>5 DEF KillLaunch, Typed, TypeOK, errors, store
<1> QED
  BY <1>1, <1>2 DEF KillLaunch

\* CancelAuth (cancel_instance_auth) preserves the types.
LEMMA CancelAuthType ==
    ASSUME Typed, CancelAuth
    PROVE  Typed'
<1> DEFINE h == authInstance
<1>1. h \in Handle
  BY DEF CancelAuth, Typed, TypeOK
<1>2. CASE activity[h].kind \in {"Idle", "Running"}
  <2>1. UNCHANGED <<activity, errors, runs, creating, launchAfter, store, events, history>>
    BY <1>2 DEF CancelAuth
  <2>2. authInstance' = NoHandle
    BY DEF CancelAuth
  <2>3. TypeOK'
    BY <2>1, <2>2 DEF Typed, TypeOK, errors, store, runs
  <2> QED
    BY <2>1, <2>3 DEF Typed, ActivitySpawned, IsBusy, runs
<1>3. CASE activity[h].kind \notin {"Idle", "Running"}
  <2>1. IsBusy(h) /\ AbortActivity(h)
    BY <1>3 DEF IsBusy, CancelAuth
  <2>2. ActivitySpawned'
    BY <1>1, <2>1, AbortType, FewerEntries
       DEF IsBusy, IdleActivity, AbortActivity, Without, Typed, TypeOK
  <2>3. /\ launchErr' \subseteq Handle /\ installErr' \subseteq Handle
        /\ authInstance' = NoHandle
    BY <1>1, <1>3 DEF CancelAuth, Typed, TypeOK
  <2> QED
    BY <1>1, <2>1, <2>2, <2>3, AbortType DEF CancelAuth, Typed, TypeOK, store
<1> QED
  BY <1>2, <1>3

\* ensure_instance_for_settings keeps the storage well typed.
LEMMA EnsureForSettingsType ==
    ASSUME Typed, NEW h \in Handle, EnsureForSettings(h)
    PROVE  /\ storage' \in [Handle -> Stored] /\ disk' \in [Handle -> Stored]
           /\ cleanup' \subseteq Local /\ lost' \subseteq Handle
BY DEF EnsureForSettings, Typed, TypeOK, Stored, store

\* The messages that touch neither the activities nor the tasks.
LEMMA QuietMessagesType ==
    ASSUME Typed, NEW h \in Handle, NEW enabled \in BOOLEAN,
           \/ DeleteInstance(h)
           \/ UpdateInstanceSettings(h)
           \/ SetLaunchAfterInstall(h, enabled)
    PROVE  Typed'
<1>1. UNCHANGED <<activity, runs>>
  BY DEF DeleteInstance, UpdateInstanceSettings, SetLaunchAfterInstall
<1>2. ActivitySpawned'
  BY <1>1 DEF Typed, ActivitySpawned, IsBusy, runs
<1>3. CASE DeleteInstance(h)
  BY <1>1, <1>2, <1>3 DEF DeleteInstance, Typed, TypeOK, Stored, errors, runs
<1>4. CASE UpdateInstanceSettings(h)
  BY <1>1, <1>2, <1>4, EnsureForSettingsType
     DEF UpdateInstanceSettings, Typed, TypeOK, errors, runs
<1>5. CASE SetLaunchAfterInstall(h, enabled)
  BY <1>1, <1>2, <1>5 DEF SetLaunchAfterInstall, Typed, TypeOK, errors, store, runs
<1> QED
  BY <1>3, <1>4, <1>5

\* DeleteAllLauncherData preserves the types, whatever it fails to delete.
LEMMA DeleteAllType ==
    ASSUME Typed, DeleteAllLauncherData
    PROVE  Typed'
<1>1. /\ task' \in [TaskId -> Task \cup {NoTask}]
      /\ \A u \in TaskId : u \in 1 .. spawned <=> task'[u] \in Task
  <2>1. CASE UNCHANGED task
    BY <2>1 DEF Typed, TypeOK
  <2>2. CASE task' = [t \in TaskId |->
                        IF task[t].pc \in {"unborn", "done"} THEN task[t]
                        ELSE [task[t] EXCEPT !.pc = "aborted"]]
    <3>1. ASSUME NEW u \in TaskId
          PROVE  /\ task'[u] \in Task \cup {NoTask}
                 /\ task[u] \in Task <=> task'[u] \in Task
      <4>1. CASE task[u].pc \in {"unborn", "done"}
        BY <2>2, <4>1 DEF Typed, TypeOK
      <4>2. CASE task[u].pc \notin {"unborn", "done"}
        <5>1. task[u] \in Task
          BY <4>2, TaskBorn DEF Typed
        <5>2. [task[u] EXCEPT !.pc = "aborted"] \in Task
          BY <5>1 DEF Task, Phase
        <5> QED
          BY <2>2, <4>2, <5>1, <5>2
      <4> QED
        BY <4>1, <4>2
    <3> QED
      BY <2>2, <3>1 DEF Typed, TypeOK
  <2> QED
    BY <2>1, <2>2 DEF DeleteAllLauncherData, runs
<1>2. UNCHANGED <<activity, spawned, killed, game>>
  BY DEF DeleteAllLauncherData, runs
<1>3. events' \in Seq(Event \cup PromptGone)
  <2>1. events' = events \/ events' = <<>>
    BY DEF DeleteAllLauncherData
  <2>2. <<>> \in Seq(Event \cup PromptGone)
    BY EmptySeq
  <2> QED
    BY <2>1, <2>2 DEF Typed, TypeOK
<1>4. storage' \in [Handle -> Stored] /\ disk' \in [Handle -> Stored]
  BY DEF DeleteAllLauncherData, Typed, TypeOK, Stored
<1>5. /\ creating' \subseteq Local /\ cleanup' \subseteq Local
      /\ installErr' \subseteq Handle /\ launchErr' \subseteq Handle
      /\ launchAfter' \in [Handle -> {"none", "no", "yes"}]
      /\ authInstance' \in Handle \cup {NoHandle}
      /\ misled' \subseteq TaskId /\ shown' \subseteq TaskId /\ lost' \subseteq Handle
  BY DEF DeleteAllLauncherData, Typed, TypeOK, errors
<1> QED
  BY <1>1, <1>2, <1>3, <1>4, <1>5 DEF Typed, TypeOK, ActivitySpawned, IsBusy

-----------------------------------------------------------------------------
(***************************************************************************)
(* Type correctness: the events, and the tasks.                            *)
(***************************************************************************)

\* The task an event misleads has been spawned.
LEMMA MisledType ==
    ASSUME Typed, NEW h \in Handle
    PROVE  Misled(h) \subseteq 1 .. spawned /\ Misled(h) \subseteq TaskId
BY DEF Misled, Typed, TypeOK, ActivitySpawned

\* InstallFinished, with or without the launch that follows, preserves the types.
LEMMA HandleInstallFinishedType ==
    ASSUME Typed, HandleInstallFinished
    PROVE  Typed'
<1> DEFINE h == event.handle
           after == AfterInstall(h, event.isRun)
<1>1. /\ event \in Event /\ events' \in Seq(Event \cup PromptGone)
      /\ h \in Handle
  BY ReceiveType DEF HandleInstallFinished, Typed, Event
<1>2. /\ after \in [Handle -> Activity]
      /\ \A g \in Handle : after[g] \in {activity[g], IdleActivity}
  BY <1>1 DEF AfterInstall, Without, Typed, TypeOK, Activity
<1>3. /\ storage' \in [Handle -> Stored] /\ disk' \in [Handle -> Stored]
      /\ installErr' \subseteq Handle /\ creating' \subseteq Local
      /\ launchAfter' \in [Handle -> {"none", "no", "yes"}]
  BY <1>1 DEF HandleInstallFinished, SaveInstalled, Typed, TypeOK, Stored
<1>4. /\ authInstance' = authInstance /\ cleanup' = cleanup
      /\ killed' = killed /\ game' = game
      /\ misled' \subseteq TaskId /\ shown' \subseteq TaskId /\ lost' \subseteq Handle
  <2>1. lost' \subseteq Handle
    BY <1>1 DEF HandleInstallFinished, SaveInstalled, Typed, TypeOK
  <2>2. misled' \subseteq TaskId
    BY <1>1, MisledType DEF HandleInstallFinished, Typed, TypeOK
  <2> QED
    BY <2>1, <2>2 DEF HandleInstallFinished, Typed, TypeOK
<1>5. CASE activity' = after /\ UNCHANGED <<launchErr, spawned, task>>
  <2>1. ActivitySpawned'
    BY <1>2, <1>5, FewerEntries DEF IsBusy, IdleActivity
  <2> QED
    BY <1>1, <1>2, <1>3, <1>4, <1>5, <2>1 DEF Typed, TypeOK
<1>6. CASE /\ SpawnLaunch(h, FALSE)
           /\ activity' = [after EXCEPT ![h] = NewActivity("LaunchPrep", spawned + 1)]
  <2>1. "auth" \in Phase /\ "launch" \in Job
    BY DEF Phase, Job
  <2>2. /\ spawned' \in 0 .. MaxTask /\ spawned' = spawned + 1 /\ spawned + 1 \in TaskId
        /\ task' \in [TaskId -> Task \cup {NoTask}]
        /\ \A t \in TaskId : t \in 1 .. spawned' <=> task'[t] \in Task
    BY <1>1, <1>6, <2>1, SpawnType DEF Typed, SpawnLaunch
  <2>3. activity' \in [Handle -> Activity] /\ ActivitySpawned'
    BY <1>1, <1>2, <1>6, <2>2, FreshEntry
  <2>4. launchErr' \subseteq Handle
    BY <1>6 DEF SpawnLaunch, Typed, TypeOK
  <2> QED
    BY <1>1, <1>3, <1>4, <2>2, <2>3, <2>4 DEF Typed, TypeOK
<1> QED
  BY <1>5, <1>6 DEF HandleInstallFinished

\* The two events that update an entry and nothing else.
LEMMA EntryEventsType ==
    ASSUME Typed, HandleInstanceTasks \/ HandleLaunchStarted
    PROVE  Typed'
<1> DEFINE h == event.handle
<1>1. /\ event \in Event /\ events' \in Seq(Event \cup PromptGone)
      /\ h \in Handle /\ event.task \in TaskId
  BY ReceiveType DEF HandleInstanceTasks, HandleLaunchStarted, Typed, Event
<1>2. /\ UNCHANGED <<creating, errors, launchAfter, authInstance, store, runs>>
      /\ IsBusy(h) \/ activity' = activity
      /\ misled' \subseteq TaskId /\ shown' \subseteq TaskId
  <2>1. CASE HandleInstanceTasks
    BY <2>1 DEF HandleInstanceTasks, Typed, TypeOK
  <2>2. CASE HandleLaunchStarted
    <3>1. misled' \subseteq TaskId
      BY <1>1, <2>2, MisledType DEF HandleLaunchStarted, Typed, TypeOK
    <3>2. shown' \subseteq TaskId
      BY <1>1, <2>2 DEF HandleLaunchStarted, Typed, TypeOK
    <3> QED
      BY <2>2, <3>1, <3>2 DEF HandleLaunchStarted
  <2> QED
    BY <2>1, <2>2
<1>3. CASE IsBusy(h)
  <2>1. PICK new \in Activity :
           activity' = [activity EXCEPT ![h] = new] /\ new.task = activity[h].task
    <3>1. activity[h] \in [kind : Kind, task : TaskId, kill : BOOLEAN, shows : 0 .. MaxTask]
      BY <1>1, <1>3, EntryType DEF Typed
    <3>2. CASE HandleInstanceTasks
      <4>1. [activity[h] EXCEPT !.shows = event.task] \in Activity
        BY <1>1, <3>1 DEF Activity
      <4> QED
        BY <1>3, <3>1, <3>2, <4>1 DEF HandleInstanceTasks
    <3>3. CASE HandleLaunchStarted
      <4> DEFINE started == [activity[h] EXCEPT !.kind = "Running"]
                 new == [started EXCEPT !.shows = 0]
      <4>1. new \in Activity /\ new.task = activity[h].task
        <5>1. /\ started \in [kind : Kind, task : TaskId, kill : BOOLEAN, shows : 0 .. MaxTask]
              /\ started.task = activity[h].task
          BY <3>1 DEF Kind
        <5> HIDE DEF started
        <5>2. /\ new \in [kind : Kind, task : TaskId, kill : BOOLEAN, shows : 0 .. MaxTask]
              /\ new.task = started.task
          BY <5>1
        <5> QED
          BY <5>1, <5>2 DEF Activity
      <4>2. activity' = [activity EXCEPT ![h] = new]
        BY <1>3, <3>3 DEF HandleLaunchStarted
      <4> QED
        BY <3>1, <4>1, <4>2
    <3> QED
      BY <3>2, <3>3
  <2>2. ActivitySpawned'
    BY <1>1, <1>2, <1>3, <2>1, FewerEntries DEF IsBusy, Typed, TypeOK, runs
  <2> QED
    BY <1>1, <1>2, <2>1, <2>2 DEF Typed, TypeOK, errors, store, runs
<1>4. CASE activity' = activity
  BY <1>1, <1>2, <1>4 DEF Typed, TypeOK, ActivitySpawned, IsBusy, errors, store, runs
<1> QED
  BY <1>2, <1>3, <1>4

\* LaunchFinished, AuthLaunchPrompt and JavaResolved preserve the types.
LEMMA OtherEventsType ==
    ASSUME Typed, HandleLaunchFinished \/ HandleAuthLaunchPrompt \/ HandleJavaResolved
    PROVE  Typed'
<1>1. /\ event \in Event \cup PromptGone /\ events' \in Seq(Event \cup PromptGone)
      /\ UNCHANGED <<spawned, task, game>>
  BY ReceiveType DEF HandleLaunchFinished, HandleAuthLaunchPrompt, HandleJavaResolved,
                     Typed, runs
<1>2. CASE HandleLaunchFinished
  <2>1. event.handle \in Handle
    BY <1>2, ReceiveType DEF HandleLaunchFinished, Typed, Event
  <2>2. /\ activity' \in [Handle -> Activity] /\ killed' \subseteq TaskId
        /\ authInstance' = NoHandle /\ launchErr' \subseteq Handle
        /\ misled' \subseteq TaskId /\ shown' = shown
    BY <1>2, <2>1, EntryType, MisledType
       DEF HandleLaunchFinished, Without, Activity, Typed, TypeOK
  <2>3. ActivitySpawned'
    BY <1>1, <1>2, <2>1, <2>2, FewerEntries
       DEF HandleLaunchFinished, Without, IsBusy, IdleActivity, Typed, TypeOK
  <2> QED
    BY <1>1, <1>2, <2>2, <2>3 DEF HandleLaunchFinished, Typed, TypeOK, store
<1>3. CASE HandleAuthLaunchPrompt
  <2>1. event.handle \in Handle \cup {NoHandle}
    BY <1>1 DEF Event, PromptGone
  <2> QED
    BY <1>1, <1>3, <2>1 DEF HandleAuthLaunchPrompt, Typed, TypeOK, ActivitySpawned, IsBusy,
                            errors, store, runs
<1>4. CASE HandleJavaResolved
  <2>1. event.handle \in Handle
    BY <1>4, ReceiveType DEF HandleJavaResolved, Typed, Event
  <2>2. /\ storage' \in [Handle -> Stored] /\ disk' \in [Handle -> Stored]
        /\ cleanup' \subseteq Local /\ lost' \subseteq Handle
    BY <1>4, <2>1, EnsureForSettingsType DEF HandleJavaResolved, Typed, TypeOK, store
  <2> QED
    BY <1>1, <1>4, <2>2 DEF HandleJavaResolved, Typed, TypeOK, ActivitySpawned, IsBusy,
                            errors, runs
<1> QED
  BY <1>2, <1>3, <1>4

\* What remains to be shown of a step of a task: its channel, its record, its child.
LEMMA TaskStepFrame ==
    ASSUME Typed, UNCHANGED <<loop, spawned, killed>>,
           game' \subseteq TaskId, events' \in Seq(Event \cup PromptGone),
           task' \in [TaskId -> Task \cup {NoTask}],
           \A u \in TaskId : u \in 1 .. spawned' <=> task'[u] \in Task
    PROVE  Typed'
BY DEF Typed, TypeOK, ActivitySpawned, IsBusy, loop, errors, store

\* Every step of a task or of the user it waits for preserves the types.
LEMMA TaskType ==
    ASSUME Typed, NEW t \in TaskId, TaskStep(t) \/ UserStep(t)
    PROVE  Typed'
<1>1. UNCHANGED <<loop, spawned, killed>> /\ game' \subseteq TaskId
  BY DEF TaskStep, UserStep, ReportProgress, AskUser, Authenticate, FilesReady, MetadataSaved,
         StartGame, KillGame, ReportExit, Fail, UserAuthenticated, GameExits, Typed, TypeOK
<1>2. events' \in Seq(Event \cup PromptGone)
  BY SentMessages, SendType DEF Typed, TypeOK
<1>3. /\ task' \in [TaskId -> Task \cup {NoTask}]
      /\ \A u \in TaskId : u \in 1 .. spawned' <=> task'[u] \in Task
  <2>1. CASE GameExits(t)
    BY <2>1 DEF GameExits, Typed, TypeOK
  <2>2. CASE ReportProgress(t)
    <3>1. t \in 1 .. spawned /\ task[t] \in Task
      BY <2>2, TaskBorn DEF ReportProgress, At, Typed
    <3>2. [task[t] EXCEPT !.reports = @ + 1] \in Task
      BY <3>1 DEF Task
    <3> QED
      BY <2>2, <3>1, <3>2, UpdateType DEF ReportProgress, Typed
  <2>3. CASE ~GameExits(t) /\ ~ReportProgress(t)
    <3>1. task[t].pc # "unborn"
      BY <2>3 DEF TaskStep, UserStep, AskUser, Authenticate, FilesReady, MetadataSaved,
         StartGame, KillGame, ReportExit, Fail, UserAuthenticated, At
    <3>2. \E pc \in Phase : Goto(t, pc)
      BY <2>3 DEF TaskStep, UserStep, AskUser, Authenticate, FilesReady, MetadataSaved,
         StartGame, KillGame, ReportExit, Fail, UserAuthenticated, AfterAuth, Phase
    <3> QED
      BY <1>1, <3>1, <3>2, GotoType DEF Typed
  <2> QED
    BY <2>1, <2>2, <2>3
<1> QED
  BY <1>1, <1>2, <1>3, TaskStepFrame

\* The state after BackendState::load is well typed.
LEMMA TypedInit == Init => Typed
BY DEF Init, Typed, TypeOK, Activity, NoTask, Task, Job, ActivitySpawned, IsBusy, IdleActivity

\* No step of the loop, the tasks or the user breaks the types.
LEMMA TypedNext == Typed /\ [Next]_vars => Typed'
<1> SUFFICES ASSUME Typed, [Next]_vars PROVE Typed'
  OBVIOUS
<1>1. CASE UNCHANGED vars
  BY <1>1 DEF vars, Typed, TypeOK, ActivitySpawned, IsBusy, errors, store, runs
<1>2. CASE UserMessage
  <2>1. ASSUME NEW h \in Handle, NEW enabled \in BOOLEAN,
               \/ StartInstall(h)   \/ StartCreateLocal(h) \/ RetryCreateLocal(h)
               \/ CancelInstall(h)  \/ DeleteInstance(h)   \/ StartLaunch(h)
               \/ KillLaunch(h)     \/ ResolveJavaPath(h)  \/ UpdateInstanceSettings(h)
               \/ SetLaunchAfterInstall(h, enabled)
        PROVE  Typed'
    <3>1. CASE StartCreateLocal(h) \/ RetryCreateLocal(h)
      BY <3>1, SpawnCreateType DEF StartCreateLocal, RetryCreateLocal, Typed, TypeOK
    <3> QED
      BY <2>1, <3>1, StartInstallType, CancelInstallType, QuietMessagesType,
         StartLaunchType, KillLaunchType, ResolveJavaPathType
  <2>2. ASSUME Refresh PROVE Typed'
    BY <2>2 DEF Refresh, Typed, TypeOK, ActivitySpawned, IsBusy, errors, runs
  <2> QED
    BY <1>2, <2>1, <2>2, CancelAuthType, DeleteAllType DEF UserMessage
<1>3. CASE HandleEvent
  BY <1>3, HandleInstallFinishedType, EntryEventsType, OtherEventsType DEF HandleEvent
<1>4. ASSUME NEW t \in TaskId, TaskStep(t) \/ UserStep(t) PROVE Typed'
  BY <1>4, TaskType
<1>5. ASSUME NEW h \in Handle, RemovePartialDir(h) PROVE Typed'
  BY <1>5 DEF RemovePartialDir, Typed, TypeOK, Stored, ActivitySpawned, IsBusy, errors, runs
<1> QED
  BY <1>1, <1>2, <1>3, <1>4, <1>5 DEF Next

\* Type correctness of the event loop for any number of instances and tasks
\* (crates/backend/src/lib.rs, BackendState).
THEOREM TypeCorrect == Spec => []TypeOK
<1>1. Typed => TypeOK
  BY DEF Typed
<1> QED
  BY <1>1, TypedInit, TypedNext, PTL DEF Spec

-----------------------------------------------------------------------------
(***************************************************************************)
(* A handle nobody has named yet: no entry, no event and no descriptor     *)
(* bears it.  A local creation takes such a handle.                        *)
(***************************************************************************)
BusyKnown == \A h \in Handle : IsBusy(h) => Known(h)

EventsKnown ==
    \A i \in 1 .. Len(events), h \in Handle : events[i].handle = h => Known(h)

UnknownIsNew ==
    \A h \in Local : ~Known(h) => storage[h] = "absent" /\ disk[h] = "absent"

KnownInv == Typed /\ BusyKnown /\ EventsKnown /\ UnknownIsNew

\* A task never changes its instance, and no task disappears.
HandlesKept ==
    /\ spawned <= spawned' /\ spawned' \in Nat
    /\ \A t \in 1 .. spawned : task'[t].handle = task[t].handle

\* A handle the interface can name stays nameable.
LEMMA KnownGrows ==
    ASSUME Typed, HandlesKept, NEW h, Known(h)
    PROVE  Known(h)'
BY DEF Typed, TypeOK, HandlesKept, Known

\* Spawning keeps the earlier tasks and makes its handle known.
LEMMA SpawnKeeps ==
    ASSUME Typed, NEW job, NEW h, NEW pc, NEW sync, NEW offered,
           Spawn(job, h, pc, sync, offered)
    PROVE  HandlesKept /\ Known(h)'
BY DEF Spawn, HandlesKept, Known, Typed, TypeOK

\* Replacing the record of one task, handle kept, keeps all handles.
LEMMA UpdateKeeps ==
    ASSUME Typed, NEW t \in TaskId, NEW new, task' = [task EXCEPT ![t] = new],
           new.handle = task[t].handle, UNCHANGED spawned
    PROVE  HandlesKept
BY DEF HandlesKept, Typed, TypeOK

\* Moving a task to another phase keeps all handles.
LEMMA GotoKeeps ==
    ASSUME Typed, NEW t \in TaskId, NEW pc, task[t] \in Task,
           task' = [task EXCEPT ![t].pc = pc], UNCHANGED spawned
    PROVE  HandlesKept
<1> DEFINE new == [task[t] EXCEPT !.pc = pc]
<1>1. new.handle = task[t].handle
  BY DEF Task
<1>2. task' = [task EXCEPT ![t] = new]
  OBVIOUS
<1> QED
  BY <1>1, <1>2, UpdateKeeps

\* Aborting a task keeps all handles.
LEMMA AbortKeeps ==
    ASSUME Typed, NEW h \in Handle, IsBusy(h), AbortActivity(h)
    PROVE  HandlesKept
<1>1. activity[h].task \in TaskId /\ task[activity[h].task] \in Task
  BY DEF Typed, TypeOK, ActivitySpawned
<1>2. PICK pc \in {"done", "aborted"} : task' = [task EXCEPT ![activity[h].task].pc = pc]
  BY DEF AbortActivity
<1> QED
  BY <1>1, <1>2, GotoKeeps DEF AbortActivity

\* The new process of DeleteAllLauncherData keeps the record of past tasks.
LEMMA DeleteAllKeeps ==
    ASSUME Typed, DeleteAllLauncherData
    PROVE  HandlesKept
<1>1. spawned' = spawned
  BY DEF DeleteAllLauncherData, runs
<1>2. ASSUME NEW t \in 1 .. spawned PROVE task'[t].handle = task[t].handle
  <2>1. t \in TaskId /\ task[t] \in Task
    BY DEF Typed, TypeOK
  <2>2. [task[t] EXCEPT !.pc = "aborted"].handle = task[t].handle
    BY <2>1 DEF Task
  <2>3. task'[t] \in {task[t], [task[t] EXCEPT !.pc = "aborted"]}
    BY <2>1 DEF DeleteAllLauncherData, runs
  <2> QED
    BY <2>2, <2>3
<1> QED
  BY <1>1, <1>2 DEF HandlesKept, Typed, TypeOK

\* No step of a task changes the instance of a task.
LEMMA TaskKeeps ==
    ASSUME Typed, NEW t \in TaskId, TaskStep(t) \/ UserStep(t)
    PROVE  HandlesKept
<1>1. UNCHANGED spawned
  BY DEF TaskStep, UserStep, ReportProgress, AskUser, Authenticate, FilesReady, MetadataSaved,
         StartGame, KillGame, ReportExit, Fail, UserAuthenticated, GameExits
<1>2. CASE UNCHANGED task
  BY <1>1, <1>2 DEF HandlesKept, Typed, TypeOK
<1>3. CASE task' # task
  <2>1. task[t].pc # "unborn"
    BY <1>3 DEF TaskStep, UserStep, ReportProgress, AskUser, Authenticate, FilesReady,
       MetadataSaved, StartGame, KillGame, ReportExit, Fail, UserAuthenticated, GameExits, At
  <2>2. task[t] \in Task
    BY <2>1, TaskBorn DEF Typed
  <2>3. CASE ReportProgress(t)
    <3> DEFINE new == [task[t] EXCEPT !.reports = @ + 1]
    <3>1. new.handle = task[t].handle
      BY <2>2 DEF Task
    <3>2. task' = [task EXCEPT ![t] = new]
      BY <2>3 DEF ReportProgress
    <3> QED
      BY <1>1, <3>1, <3>2, UpdateKeeps
  <2>4. CASE \E pc \in Phase : Goto(t, pc)
    BY <1>1, <2>2, <2>4, GotoKeeps DEF Goto
  <2> QED
    BY <1>3, <2>3, <2>4 DEF TaskStep, UserStep, AskUser, Authenticate, FilesReady,
       MetadataSaved, StartGame, KillGame, ReportExit, Fail, UserAuthenticated, GameExits,
       AfterAuth, Phase
<1> QED
  BY <1>2, <1>3

\* No step takes a handle back, and one that makes an instance busy knows it.
LEMMA NextKeeps ==
    ASSUME Typed, BusyKnown, [Next]_vars
    PROVE  HandlesKept /\ BusyKnown'
<1>1. CASE UNCHANGED <<activity, spawned, task>>
  BY <1>1 DEF HandlesKept, BusyKnown, IsBusy, Known, Typed, TypeOK
<1>2. ASSUME HandlesKept, \A g \in Handle : IsBusy(g)' => IsBusy(g) \/ Known(g)'
      PROVE  BusyKnown'
  BY <1>2, KnownGrows DEF BusyKnown
<1>3. ASSUME NEW h \in Handle,
             StartInstall(h) \/ SpawnCreate(h) \/ StartLaunch(h) \/ ResolveJavaPath(h)
      PROVE  HandlesKept /\ BusyKnown'
  <2>1. HandlesKept /\ Known(h)'
    BY <1>3, SpawnKeeps DEF StartInstall, SpawnCreate, StartLaunch, SpawnLaunch, ResolveJavaPath
  <2>2. \A g \in Handle : g # h => activity'[g] = activity[g]
    BY <1>3 DEF StartInstall, SpawnCreate, StartLaunch, ResolveJavaPath, Typed, TypeOK
  <2> QED
    BY <1>2, <2>1, <2>2 DEF IsBusy
<1>4. ASSUME NEW h \in Handle, IsBusy(h), AbortActivity(h)
      PROVE  HandlesKept /\ BusyKnown'
  <2>1. \A g \in Handle : activity'[g] \in {activity[g], IdleActivity}
    BY <1>4 DEF AbortActivity, Without, Typed, TypeOK
  <2> QED
    BY <1>2, <1>4, <2>1, AbortKeeps DEF IsBusy, IdleActivity
<1>5. ASSUME NEW h \in Handle, CancelInstall(h) \/ KillLaunch(h)
      PROVE  HandlesKept /\ BusyKnown'
  <2>1. CASE /\ activity[h].kind = "Running"
             /\ activity' = [activity EXCEPT ![h].kill = FALSE]
             /\ UNCHANGED <<spawned, task>>
    <3>1. HandlesKept
      BY <2>1 DEF HandlesKept, Typed, TypeOK
    <3>2. \A g \in Handle : IsBusy(g)' => IsBusy(g)
      BY <2>1 DEF IsBusy, Typed, TypeOK
    <3> QED
      BY <1>2, <3>1, <3>2
  <2> QED
    BY <1>1, <1>4, <1>5, <2>1 DEF CancelInstall, KillLaunch, IsBusy, runs
<1>6. ASSUME CancelAuth PROVE HandlesKept /\ BusyKnown'
  <2>1. authInstance \in Handle
    BY <1>6 DEF CancelAuth, Typed, TypeOK
  <2> QED
    BY <1>1, <1>4, <1>6, <2>1 DEF CancelAuth, IsBusy, runs
<1>7. ASSUME DeleteAllLauncherData PROVE HandlesKept /\ BusyKnown'
  <2>1. UNCHANGED activity
    BY <1>7 DEF DeleteAllLauncherData
  <2> QED
    BY <1>2, <1>7, <2>1, DeleteAllKeeps DEF IsBusy
<1>8. CASE UserMessage
  <2>1. ASSUME NEW h \in Handle, NEW enabled \in BOOLEAN,
               \/ DeleteInstance(h) \/ UpdateInstanceSettings(h)
               \/ SetLaunchAfterInstall(h, enabled) \/ Refresh
        PROVE  UNCHANGED <<activity, spawned, task>>
    BY <2>1 DEF DeleteInstance, UpdateInstanceSettings, SetLaunchAfterInstall, Refresh, runs
  <2>2. ASSUME Refresh PROVE UNCHANGED <<activity, spawned, task>>
    BY <2>2 DEF Refresh, runs
  <2> QED
    BY <1>1, <1>3, <1>5, <1>6, <1>7, <1>8, <2>1, <2>2
       DEF UserMessage, StartCreateLocal, RetryCreateLocal
<1>9. CASE HandleInstallFinished
  <2>1. PICK h \in Handle : h = event.handle
    BY <1>9, ReceiveType DEF HandleInstallFinished, Typed, Event
  <2> DEFINE after == AfterInstall(h, event.isRun)
  <2>2. /\ after \in [Handle -> Activity]
        /\ \A g \in Handle : after[g] \in {activity[g], IdleActivity}
    BY DEF AfterInstall, Without, Typed, TypeOK, Activity
  <2> HIDE DEF after
  <2>3. CASE activity' = after /\ UNCHANGED <<spawned, task>>
    <3>1. HandlesKept
      BY <2>3 DEF HandlesKept, Typed, TypeOK
    <3> QED
      BY <1>2, <2>2, <2>3, <3>1 DEF IsBusy, IdleActivity
  <2>4. CASE /\ SpawnLaunch(h, FALSE)
             /\ activity' = [after EXCEPT ![h] = NewActivity("LaunchPrep", spawned + 1)]
    <3>1. HandlesKept /\ Known(h)'
      BY <2>4, SpawnKeeps DEF SpawnLaunch
    <3>2. \A g \in Handle : g # h => activity'[g] \in {activity[g], IdleActivity}
      BY <2>2, <2>4
    <3> QED
      BY <1>2, <3>1, <3>2 DEF IsBusy, IdleActivity
  <2> QED
    BY <1>9, <2>1, <2>3, <2>4 DEF HandleInstallFinished, after
<1>10. CASE HandleInstanceTasks \/ HandleLaunchStarted \/ HandleLaunchFinished
  <2>1. HandlesKept
    BY <1>10 DEF HandleInstanceTasks, HandleLaunchStarted, HandleLaunchFinished, HandlesKept,
                 Typed, TypeOK, runs
  <2>2. \A g \in Handle : IsBusy(g)' => IsBusy(g)
    <3>1. CASE HandleLaunchFinished
      BY <3>1 DEF HandleLaunchFinished, Without, IsBusy, IdleActivity, Typed, TypeOK
    <3>2. CASE HandleInstanceTasks \/ HandleLaunchStarted
      BY <3>2 DEF HandleInstanceTasks, HandleLaunchStarted, IsBusy, Typed, TypeOK
    <3> QED
      BY <1>10, <3>1, <3>2
  <2> QED
    BY <1>2, <2>1, <2>2
<1>11. CASE HandleAuthLaunchPrompt \/ HandleJavaResolved
  BY <1>1, <1>11 DEF HandleAuthLaunchPrompt, HandleJavaResolved, runs
<1>12. ASSUME NEW t \in TaskId, TaskStep(t) \/ UserStep(t) PROVE HandlesKept /\ BusyKnown'
  <2>1. UNCHANGED activity
    BY <1>12 DEF TaskStep, UserStep, ReportProgress, AskUser, Authenticate, FilesReady,
       MetadataSaved, StartGame, KillGame, ReportExit, Fail, UserAuthenticated, GameExits, loop
  <2> QED
    BY <1>2, <1>12, <2>1, TaskKeeps DEF IsBusy
<1>13. ASSUME NEW h \in Handle, RemovePartialDir(h) PROVE HandlesKept /\ BusyKnown'
  BY <1>1, <1>13 DEF RemovePartialDir, runs
<1>14. CASE UNCHANGED vars
  BY <1>1, <1>14 DEF vars, runs
<1> QED
  BY <1>8, <1>9, <1>10, <1>11, <1>12, <1>13, <1>14 DEF Next, HandleEvent

\* Messages of a spawned task are about a known handle.
LEMMA SendKnown ==
    ASSUME Typed, EventsKnown, HandlesKept, NEW t \in 1 .. spawned,
           NEW messages \in Seq(OwnMessages(t)), Send(messages)
    PROVE  EventsKnown'
<1> SUFFICES ASSUME NEW i \in 1 .. Len(events'), NEW h \in Handle, events'[i].handle = h
             PROVE  Known(h)'
  BY DEF EventsKnown
<1>1. /\ Len(events') = Len(events) + Len(messages)
      /\ events'[i] = IF i <= Len(events) THEN events[i] ELSE messages[i - Len(events)]
      /\ Len(events) \in Nat /\ Len(messages) \in Nat
  <2>1. messages \in Seq(Event \cup PromptGone)
    BY DEF OwnMessages
  <2> QED
    BY <2>1, ConcatProperties, LenProperties DEF Send, Typed, TypeOK
<1>2. CASE i <= Len(events)
  BY <1>1, <1>2, KnownGrows DEF EventsKnown
<1>3. CASE i > Len(events)
  <2>1. i - Len(events) \in 1 .. Len(messages)
    BY <1>1, <1>3
  <2>2. messages[i - Len(events)] \in OwnMessages(t)
    BY <2>1, ElementOfSeq
  <2>3. Known(task[t].handle)
    BY DEF Known
  <2>4. h = task[t].handle
    BY <1>1, <1>3, <2>2 DEF OwnMessages
  <2> QED
    BY <2>3, <2>4, KnownGrows
<1> QED
  BY <1>1, <1>2, <1>3

\* Receiving an event leaves only events about known handles.
LEMMA ReceiveKnown ==
    ASSUME Typed, EventsKnown, HandlesKept, NEW type, Receive(type)
    PROVE  EventsKnown' /\ \A h \in Handle : event.handle = h => Known(h)
<1>1. /\ Len(events) \in Nat /\ Len(events) > 0 /\ event = events[1]
      /\ Len(events') = Len(events) - 1
      /\ \A i \in 1 .. Len(events') : events'[i] = events[i + 1]
  BY HeadTailProperties, LenProperties, EmptySeq DEF Receive, event, Typed, TypeOK
<1>2. ASSUME NEW i \in 1 .. Len(events'), NEW h \in Handle, events'[i].handle = h
      PROVE  Known(h)'
  <2>1. i + 1 \in 1 .. Len(events)
    BY <1>1
  <2>2. Known(h)
    BY <1>1, <1>2, <2>1 DEF EventsKnown
  <2> QED
    BY <2>2, KnownGrows
<1> QED
  BY <1>1, <1>2 DEF EventsKnown

\* Every step leaves only events about known handles in the channel.
LEMMA EventsKnownNext ==
    ASSUME Typed, EventsKnown, HandlesKept, [Next]_vars
    PROVE  EventsKnown'
<1>1. CASE events' = events
  BY <1>1, KnownGrows DEF EventsKnown
<1>2. CASE events' = <<>>
  BY <1>2 DEF EventsKnown
<1>3. CASE UserMessage
  <2>1. events' = events \/ events' = <<>>
    BY <1>3 DEF UserMessage, StartInstall, StartCreateLocal, RetryCreateLocal, SpawnCreate,
       CancelInstall, DeleteInstance, StartLaunch, KillLaunch, ResolveJavaPath,
       UpdateInstanceSettings, SetLaunchAfterInstall, CancelAuth, Refresh, DeleteAllLauncherData
  <2> QED
    BY <1>1, <1>2, <2>1
<1>4. CASE HandleEvent
  BY <1>4, ReceiveKnown DEF HandleEvent, HandleInstanceTasks, HandleInstallFinished,
     HandleLaunchStarted, HandleLaunchFinished, HandleAuthLaunchPrompt, HandleJavaResolved
<1>5. ASSUME NEW t \in TaskId, TaskStep(t) \/ UserStep(t) PROVE EventsKnown'
  <2>1. CASE events' # events
    <3>1. task[t].pc # "unborn"
      BY <1>5, <2>1 DEF TaskStep, UserStep, ReportProgress, AskUser, Authenticate, FilesReady,
         MetadataSaved, StartGame, KillGame, ReportExit, Fail, UserAuthenticated, GameExits, At
    <3> QED
      BY <1>5, <2>1, <3>1, TaskBorn, SentMessages, SendKnown DEF Typed
  <2> QED
    BY <1>1, <2>1
<1>6. ASSUME NEW h \in Handle, RemovePartialDir(h) PROVE EventsKnown'
  BY <1>1, <1>6 DEF RemovePartialDir
<1> QED
  BY <1>1, <1>3, <1>4, <1>5, <1>6 DEF Next, vars

\* A step gives a local instance a descriptor only when its creation, which
\* has a known handle, is over.
LEMMA DescriptorStep ==
    ASSUME Typed, EventsKnown, HandlesKept, [Next]_vars, NEW h \in Local
    PROVE  \/ /\ storage'[h] \in {storage[h], disk[h], "absent"}
              /\ disk'[h] \in {disk[h], "absent"}
           \/ Known(h) /\ h \notin creating'
<1> DEFINE Goal == \/ /\ storage'[h] \in {storage[h], disk[h], "absent"}
                      /\ disk'[h] \in {disk[h], "absent"}
                   \/ Known(h) /\ h \notin creating'
<1>1. ASSUME NEW g \in Handle, EnsureForSettings(g) PROVE Goal
  BY <1>1 DEF EnsureForSettings, store, Typed, TypeOK
<1>2. CASE UNCHANGED <<storage, disk>>
  BY <1>2
<1>3. CASE UserMessage
  <2>1. ASSUME NEW g \in Handle, DeleteInstance(g) PROVE Goal
    BY <2>1 DEF DeleteInstance, Typed, TypeOK
  <2>2. ASSUME NEW g \in Handle, UpdateInstanceSettings(g) PROVE Goal
    BY <1>1, <2>2 DEF UpdateInstanceSettings
  <2>3. ASSUME Refresh PROVE Goal
    BY <2>3 DEF Refresh
  <2>4. ASSUME DeleteAllLauncherData PROVE Goal
    BY <2>4 DEF DeleteAllLauncherData, Typed, TypeOK
  <2>5. ASSUME NEW g \in Handle, NEW enabled \in BOOLEAN,
               \/ StartInstall(g)   \/ StartCreateLocal(g) \/ RetryCreateLocal(g)
               \/ CancelInstall(g)  \/ StartLaunch(g)      \/ KillLaunch(g)
               \/ ResolveJavaPath(g) \/ SetLaunchAfterInstall(g, enabled)
        PROVE  UNCHANGED <<storage, disk>>
    BY <2>5 DEF StartInstall, StartCreateLocal, RetryCreateLocal, SpawnCreate, CancelInstall,
       StartLaunch, KillLaunch, ResolveJavaPath, SetLaunchAfterInstall, store
  <2>6. ASSUME CancelAuth PROVE UNCHANGED <<storage, disk>>
    BY <2>6 DEF CancelAuth, store
  <2> QED
    BY <1>2, <1>3, <2>1, <2>2, <2>3, <2>4, <2>5, <2>6 DEF UserMessage
<1>4. CASE HandleEvent
  <2>1. CASE HandleInstallFinished
    <3>1. PICK g \in Handle : g = event.handle
      BY <2>1, ReceiveType DEF HandleInstallFinished, Typed, Event
    <3>2. Known(g)
      BY <2>1, <3>1, ReceiveKnown DEF HandleInstallFinished
    <3>3. CASE g # h
      BY <2>1, <3>1, <3>3 DEF HandleInstallFinished, SaveInstalled, Typed, TypeOK
    <3>4. CASE event.ok
      BY <2>1, <3>1, <3>2, <3>3, <3>4 DEF HandleInstallFinished
    <3>5. CASE ~event.ok
      BY <1>2, <2>1, <3>5 DEF HandleInstallFinished
    <3> QED
      BY <3>4, <3>5
  <2>2. CASE HandleJavaResolved
    <3>1. event.handle \in Handle
      BY <2>2, ReceiveType DEF HandleJavaResolved, Typed, Event
    <3> QED
      BY <1>1, <1>2, <2>2, <3>1 DEF HandleJavaResolved, store
  <2> QED
    BY <1>2, <1>4, <2>1, <2>2 DEF HandleEvent, HandleInstanceTasks, HandleLaunchStarted,
       HandleLaunchFinished, HandleAuthLaunchPrompt, store
<1>5. ASSUME NEW t \in TaskId, TaskStep(t) \/ UserStep(t) PROVE Goal
  <2>1. UNCHANGED <<storage, disk>>
    BY <1>5 DEF TaskStep, UserStep, ReportProgress, AskUser, Authenticate, FilesReady,
       MetadataSaved, StartGame, KillGame, ReportExit, Fail, UserAuthenticated, GameExits,
       loop, store
  <2> QED
    BY <1>2, <2>1
<1>6. ASSUME NEW g \in Handle, RemovePartialDir(g) PROVE Goal
  BY <1>6 DEF RemovePartialDir, Typed, TypeOK
<1> QED
  BY <1>2, <1>3, <1>4, <1>5, <1>6 DEF Next, vars, store

\* No step stores a local instance that nobody has created.
LEMMA UnknownIsNewNext ==
    ASSUME KnownInv, HandlesKept, [Next]_vars
    PROVE  UnknownIsNew'
BY DescriptorStep, KnownGrows DEF KnownInv, UnknownIsNew

\* The invariant on unknown handles holds after BackendState::load.
LEMMA KnownInit == Init => KnownInv
BY TypedInit DEF Init, KnownInv, BusyKnown, EventsKnown, UnknownIsNew, IsBusy, IdleActivity

\* Every step preserves the invariant on unknown handles, and the handles of tasks.
LEMMA KnownNext == KnownInv /\ [Next]_vars => KnownInv' /\ HandlesKept
BY TypedNext, NextKeeps, EventsKnownNext, UnknownIsNewNext DEF KnownInv

-----------------------------------------------------------------------------
(***************************************************************************)
(* A launch under way can be stopped.  The invariant is not inductive by   *)
(* itself: the event InstallFinished drops an Install entry without        *)
(* readying a kill channel, so such an entry must hold no sender.          *)
(***************************************************************************)
InstallHoldsNoKill ==
    \A h \in Handle : activity[h].kind = "Install" => ~activity[h].kill

StopInv == Typed /\ InstallHoldsNoKill /\ LaunchStoppable

Launching(t) == Live(t) /\ Is(t, {"launch"})

\* A launch under way after a step was under way before it, or has just been
\* given an entry with its sender.
LaunchesKept ==
    \A t \in TaskId : Launching(t)' =>
        \/ Launching(t) /\ task'[t].handle = task[t].handle
        \/ activity'[task'[t].handle].task = t /\ activity'[task'[t].handle].kill

\* A sender that leaves the activities has readied the kill channel of its
\* task, or its task has ended.
SendersKept ==
    /\ killed \subseteq killed'
    /\ \A h \in Handle, t \in TaskId : activity[h].kill /\ activity[h].task = t =>
          \/ activity'[h].kill /\ activity'[h].task = t
          \/ t \in killed'
          \/ ~Launching(t)'

\* A launch that stays as it was, entry included, stays stoppable.
LEMMA StoppableKept ==
    ASSUME Typed, LaunchStoppable, LaunchesKept, SendersKept
    PROVE  LaunchStoppable'
<1> SUFFICES ASSUME NEW t \in TaskId, Launching(t)'
             PROVE  \/ t \in killed'
                    \/ activity'[task'[t].handle].task = t /\ activity'[task'[t].handle].kill
  BY DEF LaunchStoppable, Launching
<1>1. CASE Launching(t) /\ task'[t].handle = task[t].handle
  <2>1. t \in killed \/ (activity[task[t].handle].task = t /\ activity[task[t].handle].kill)
    BY <1>1 DEF LaunchStoppable, Launching
  <2>2. task[t].handle \in Handle
    BY <1>1, TaskBorn DEF Launching, Live, At, Ended, Typed, Task
  <2> QED
    BY <1>1, <2>1, <2>2 DEF SendersKept
<1> QED
  BY <1>1 DEF LaunchesKept

\* Whether a task is a launch under way depends on the tasks only.
LEMMA LaunchingUnchanged ==
    ASSUME UNCHANGED task, NEW t \in TaskId
    PROVE  Launching(t)' <=> Launching(t)
BY DEF Launching, Live, At, Is

\* Spawning makes one record and leaves the others.
LEMMA SpawnFrame ==
    ASSUME Typed, NEW job, NEW h, NEW pc, NEW sync, NEW offered,
           Spawn(job, h, pc, sync, offered)
    PROVE  /\ spawned + 1 \in TaskId
           /\ task'[spawned + 1].handle = h /\ task'[spawned + 1].job = job
           /\ \A t \in TaskId : t # spawned + 1 =>
                 task'[t] = task[t] /\ (Launching(t)' <=> Launching(t))
BY DEF Spawn, Typed, TypeOK, Launching, Live, At, Is

\* Moving a living task neither starts a launch nor changes its instance.
LEMMA GotoFrame ==
    ASSUME Typed, NEW t \in TaskId, NEW pc, Goto(t, pc), Live(t), UNCHANGED <<activity, killed>>
    PROVE  LaunchesKept /\ SendersKept
<1>1. ASSUME NEW u \in TaskId
      PROVE  /\ Launching(u)' => Launching(u)
             /\ task'[u].handle = task[u].handle
  <2>1. CASE u = t
    <3>1. task[t] \in Task
      BY TaskBorn DEF Live, At, Ended, Typed
    <3>2. task'[t] = [task[t] EXCEPT !.pc = pc]
      BY DEF Goto, Typed, TypeOK
    <3>3. task'[t].handle = task[t].handle /\ task'[t].job = task[t].job
      BY <3>1, <3>2 DEF Task
    <3> QED
      BY <2>1, <3>3 DEF Launching, Is
  <2>2. CASE u # t
    BY <2>2 DEF Goto, Typed, TypeOK, Launching, Live, At, Is
  <2> QED
    BY <2>1, <2>2
<1> QED
  BY <1>1 DEF LaunchesKept, SendersKept

\* Aborting the task of an entry: its sender is dropped with the entry.
LEMMA AbortFrame ==
    ASSUME Typed, NEW h \in Handle, IsBusy(h), AbortActivity(h)
    PROVE  LaunchesKept /\ SendersKept
<1>1. PICK a \in TaskId : a = activity[h].task /\ task[a] \in Task
  BY DEF Typed, TypeOK, ActivitySpawned
<1>2. PICK pc \in {"done", "aborted"} : task' = [task EXCEPT ![a].pc = pc]
  BY <1>1 DEF AbortActivity
<1>3. ASSUME NEW u \in TaskId, u # a
      PROVE  task'[u] = task[u] /\ (Launching(u)' <=> Launching(u))
  BY <1>2, <1>3 DEF Launching, Live, At, Is, Typed, TypeOK
<1>4. ~Launching(a)'
  <2>1. task'[a] = [task[a] EXCEPT !.pc = pc]
    BY <1>2 DEF Typed, TypeOK
  <2>2. task'[a].pc = pc
    BY <1>1, <2>1 DEF Task
  <2> QED
    BY <2>2 DEF Launching, Live, At, Ended
<1>5. LaunchesKept
  BY <1>3, <1>4 DEF LaunchesKept
<1>6. SendersKept
  BY <1>1 DEF SendersKept, AbortActivity, KillsOf, Without, Typed, TypeOK
<1> QED
  BY <1>5, <1>6

\* The three spawns that make an entry for an idle instance.
LEMMA SpawnEntryStop ==
    ASSUME StopInv, NEW h \in Handle, ~IsBusy(h),
           StartInstall(h) \/ SpawnCreate(h) \/ StartLaunch(h)
    PROVE  InstallHoldsNoKill' /\ LaunchStoppable'
<1>1. PICK kind \in {"Install", "LaunchPrep"}, job \in {"install", "create", "launch"},
           pc \in Phase, sync \in BOOLEAN, offered \in BOOLEAN :
         /\ Spawn(job, h, pc, sync, offered)
         /\ activity' = [activity EXCEPT ![h] = NewActivity(kind, spawned + 1)]
         /\ job = "launch" => kind = "LaunchPrep"
  BY DEF StartInstall, SpawnCreate, StartLaunch, SpawnLaunch, Phase
<1>2. killed' = killed
  BY DEF StartInstall, SpawnCreate, StartLaunch
<1>3. /\ spawned + 1 \in TaskId
      /\ task'[spawned + 1].handle = h /\ task'[spawned + 1].job = job
      /\ \A t \in TaskId : t # spawned + 1 =>
            task'[t] = task[t] /\ (Launching(t)' <=> Launching(t))
  BY <1>1, SpawnFrame DEF StopInv
<1>4. /\ activity'[h].task = spawned + 1
      /\ activity'[h].kill = (kind = "LaunchPrep") /\ activity'[h].kind = kind
      /\ \A g \in Handle : g # h => activity'[g] = activity[g]
  BY <1>1 DEF NewActivity, StopInv, Typed, TypeOK
<1>5. LaunchesKept
  BY <1>1, <1>3, <1>4 DEF LaunchesKept, Launching, Is
<1>6. ~activity[h].kill
  BY EntryType DEF IdleActivity, StopInv, Typed
<1>7. SendersKept
  BY <1>2, <1>4, <1>6 DEF SendersKept
<1>8. InstallHoldsNoKill'
  BY <1>4 DEF InstallHoldsNoKill, StopInv
<1> QED
  BY <1>5, <1>7, <1>8, StoppableKept DEF StopInv

\* Removing an entry readies the kill channel of its launch.
LEMMA AbortStop ==
    ASSUME StopInv, NEW h \in Handle, IsBusy(h), AbortActivity(h)
    PROVE  InstallHoldsNoKill' /\ LaunchStoppable'
<1>1. InstallHoldsNoKill'
  BY DEF AbortActivity, Without, IdleActivity, InstallHoldsNoKill, StopInv, Typed, TypeOK
<1> QED
  BY <1>1, AbortFrame, StoppableKept DEF StopInv

\* KillInstance takes the sender and readies the channel in one step.
LEMMA KillLaunchStop ==
    ASSUME StopInv, NEW h \in Handle, KillLaunch(h)
    PROVE  InstallHoldsNoKill' /\ LaunchStoppable'
<1>1. CASE activity[h].kind = "LaunchPrep" /\ AbortActivity(h)
  BY <1>1, AbortStop DEF IsBusy
<1>2. CASE /\ activity[h].kind = "Running" /\ activity[h].kill
           /\ activity' = [activity EXCEPT ![h].kill = FALSE]
           /\ killed' = killed \cup {activity[h].task}
           /\ UNCHANGED <<spawned, task, game>>
  <2>1. activity[h] \in [kind : Kind, task : TaskId, kill : BOOLEAN, shows : 0 .. MaxTask]
    BY <1>2, EntryType DEF IsBusy, StopInv, Typed
  <2>2. /\ activity'[h].kind = "Running"
        /\ \A g \in Handle : g # h => activity'[g] = activity[g]
    BY <1>2, <2>1 DEF StopInv, Typed, TypeOK
  <2>3. LaunchesKept
    BY <1>2, LaunchingUnchanged DEF LaunchesKept
  <2>4. SendersKept
    BY <1>2, <2>2 DEF SendersKept
  <2>5. InstallHoldsNoKill'
    BY <2>2 DEF InstallHoldsNoKill, StopInv
  <2> QED
    BY <2>3, <2>4, <2>5, StoppableKept DEF StopInv
<1> QED
  BY <1>1, <1>2 DEF KillLaunch

\* CancelInstall and CancelAuth leave no launch without a way to stop it.
LEMMA CancelStop ==
    ASSUME StopInv, NEW h \in Handle, CancelInstall(h) \/ (CancelAuth /\ h = authInstance)
    PROVE  InstallHoldsNoKill' /\ LaunchStoppable'
<1>1. CASE IsBusy(h) /\ AbortActivity(h)
  BY <1>1, AbortStop
<1>2. CASE UNCHANGED <<activity, runs>>
  BY <1>2, LaunchingUnchanged
     DEF LaunchStoppable, InstallHoldsNoKill, StopInv, Live, At, Is, runs
<1> QED
  BY <1>1, <1>2 DEF CancelInstall, CancelAuth, IsBusy

\* The messages and steps that touch neither entries, tasks nor kill channels.
LEMMA NoRunsStop ==
    ASSUME StopInv, UNCHANGED <<activity, task, killed>>
    PROVE  InstallHoldsNoKill' /\ LaunchStoppable'
BY DEF LaunchStoppable, InstallHoldsNoKill, StopInv, Live, At, Is

\* The standalone Java resolve is no launch and touches none.
LEMMA ResolveJavaPathStop ==
    ASSUME StopInv, NEW h \in Handle, ResolveJavaPath(h)
    PROVE  InstallHoldsNoKill' /\ LaunchStoppable'
<1>1. /\ Spawn("probe", h, "work", FALSE, FALSE)
      /\ UNCHANGED <<activity, killed>>
  BY DEF ResolveJavaPath
<1>2. /\ task'[spawned + 1].job = "probe"
      /\ \A t \in TaskId : t # spawned + 1 =>
            task'[t] = task[t] /\ (Launching(t)' <=> Launching(t))
  BY <1>1, SpawnFrame DEF StopInv
<1>3. LaunchesKept
  BY <1>2 DEF LaunchesKept, Launching, Is
<1>4. SendersKept
  BY <1>1 DEF SendersKept
<1> QED
  BY <1>1, <1>3, <1>4, StoppableKept DEF StopInv, InstallHoldsNoKill

\* DeleteAllLauncherData leaves no live launch.
LEMMA DeleteAllStop ==
    ASSUME StopInv, DeleteAllLauncherData
    PROVE  InstallHoldsNoKill' /\ LaunchStoppable'
<1>1. UNCHANGED <<activity, killed>>
  BY DEF DeleteAllLauncherData, runs
<1>2. CASE UNCHANGED task
  BY <1>1, <1>2, NoRunsStop
<1>3. CASE task' = [t \in TaskId |->
                      IF task[t].pc \in {"unborn", "done"} THEN task[t]
                      ELSE [task[t] EXCEPT !.pc = "aborted"]]
  <2>1. ASSUME NEW t \in TaskId PROVE ~Launching(t)'
    <3>1. CASE task[t].pc \in {"unborn", "done"}
      BY <1>3, <3>1 DEF Launching, Live, At, Ended
    <3>2. CASE task[t].pc \notin {"unborn", "done"}
      <4>1. task[t] \in Task
        BY <3>2, TaskBorn DEF StopInv, Typed
      <4>2. task'[t] = [task[t] EXCEPT !.pc = "aborted"]
        BY <1>3, <3>2
      <4>3. task'[t].pc = "aborted"
        BY <4>1, <4>2 DEF Task
      <4> QED
        BY <4>3 DEF Launching, Live, At, Ended
    <3> QED
      BY <3>1, <3>2
  <2> QED
    BY <1>1, <2>1 DEF LaunchStoppable, Launching, InstallHoldsNoKill, StopInv
<1> QED
  BY <1>2, <1>3 DEF DeleteAllLauncherData, runs

\* InstallFinished drops only entries without a kill sender.
LEMMA HandleInstallFinishedStop ==
    ASSUME StopInv, HandleInstallFinished
    PROVE  InstallHoldsNoKill' /\ LaunchStoppable'
<1>1. PICK h \in Handle : h = event.handle
  BY ReceiveType DEF HandleInstallFinished, StopInv, Typed, Event
<1> DEFINE after == AfterInstall(h, event.isRun)
<1>2. /\ killed' = killed
      /\ \A g \in Handle : activity[g].kill => after[g] = activity[g]
      /\ \A g \in Handle : after[g] \in {activity[g], IdleActivity}
      /\ after \in [Handle -> Activity]
  BY <1>1 DEF HandleInstallFinished, AfterInstall, Without, InstallHoldsNoKill, StopInv, Typed,
              TypeOK, Activity
<1> HIDE DEF after
<1>3. CASE activity' = after /\ UNCHANGED <<launchErr, spawned, task>>
  <2>1. LaunchesKept
    BY <1>3, LaunchingUnchanged DEF LaunchesKept
  <2>2. SendersKept
    BY <1>2, <1>3 DEF SendersKept
  <2>3. InstallHoldsNoKill'
    BY <1>2, <1>3 DEF InstallHoldsNoKill, IdleActivity, StopInv
  <2> QED
    BY <2>1, <2>2, <2>3, StoppableKept DEF StopInv
<1>4. CASE /\ after[h].kind = "Idle" /\ SpawnLaunch(h, FALSE)
           /\ activity' = [after EXCEPT ![h] = NewActivity("LaunchPrep", spawned + 1)]
  <2>1. /\ spawned + 1 \in TaskId
        /\ task'[spawned + 1].handle = h
        /\ \A t \in TaskId : t # spawned + 1 =>
              task'[t] = task[t] /\ (Launching(t)' <=> Launching(t))
    BY <1>4, SpawnFrame DEF StopInv, SpawnLaunch
  <2>2. /\ activity'[h].task = spawned + 1
        /\ activity'[h].kill /\ activity'[h].kind = "LaunchPrep"
        /\ \A g \in Handle : g # h => activity'[g] = after[g]
    BY <1>2, <1>4 DEF NewActivity
  <2>3. LaunchesKept
    BY <2>1, <2>2 DEF LaunchesKept
  <2>4. ~activity[h].kill
    <3>1. activity[h].kill => activity[h].kind = "Idle"
      BY <1>2, <1>4
    <3> QED
      BY <3>1, EntryType DEF IsBusy, IdleActivity, StopInv, Typed
  <2>5. SendersKept
    BY <1>2, <2>2, <2>4 DEF SendersKept
  <2>6. InstallHoldsNoKill'
    BY <1>2, <2>2 DEF InstallHoldsNoKill, IdleActivity, StopInv
  <2> QED
    BY <2>3, <2>5, <2>6, StoppableKept DEF StopInv
<1> QED
  BY <1>1, <1>3, <1>4 DEF HandleInstallFinished, after

\* InstanceTasks keeps the kill sender of the entry it changes.
LEMMA HandleInstanceTasksStop ==
    ASSUME StopInv, HandleInstanceTasks
    PROVE  InstallHoldsNoKill' /\ LaunchStoppable'
<1>1. UNCHANGED <<task, killed>>
  BY DEF HandleInstanceTasks, runs
<1>2. \A g \in Handle : /\ activity'[g].kill = activity[g].kill
                        /\ activity'[g].task = activity[g].task
                        /\ activity'[g].kind = activity[g].kind
  <2>1. CASE activity' = activity
    BY <2>1
  <2>2. CASE /\ IsBusy(event.handle)
             /\ activity' = [activity EXCEPT ![event.handle].shows = event.task]
    <3>1. PICK h \in Handle : h = event.handle
      BY ReceiveType DEF HandleInstanceTasks, StopInv, Typed, Event
    <3>2. activity[h] \in [kind : Kind, task : TaskId, kill : BOOLEAN, shows : 0 .. MaxTask]
      BY <2>2, <3>1, EntryType DEF StopInv, Typed
    <3>3. activity'[h] = [activity[h] EXCEPT !.shows = event.task]
      BY <2>2, <3>1 DEF StopInv, Typed, TypeOK
    <3> QED
      BY <2>2, <3>1, <3>2, <3>3 DEF StopInv, Typed, TypeOK
  <2> QED
    BY <2>1, <2>2 DEF HandleInstanceTasks
<1>3. LaunchesKept /\ SendersKept
  BY <1>1, <1>2, LaunchingUnchanged DEF LaunchesKept, SendersKept
<1> QED
  BY <1>2, <1>3, StoppableKept DEF StopInv, InstallHoldsNoKill

\* LaunchStarted keeps the kill sender of the entry it changes.
LEMMA HandleLaunchStartedStop ==
    ASSUME StopInv, HandleLaunchStarted
    PROVE  InstallHoldsNoKill' /\ LaunchStoppable'
<1>1. UNCHANGED <<task, killed>>
  BY DEF HandleLaunchStarted, runs
<1>2. \A g \in Handle : /\ activity'[g].kill = activity[g].kill
                        /\ activity'[g].task = activity[g].task
                        /\ activity'[g].kind \in {activity[g].kind, "Running"}
  <2>1. CASE activity' = activity
    BY <2>1
  <2>2. CASE /\ IsBusy(event.handle)
             /\ activity' = [activity EXCEPT ![event.handle].kind = "Running",
                                             ![event.handle].shows = 0]
    <3>1. PICK h \in Handle : h = event.handle
      BY ReceiveType DEF HandleLaunchStarted, StopInv, Typed, Event
    <3>2. activity[h] \in [kind : Kind, task : TaskId, kill : BOOLEAN, shows : 0 .. MaxTask]
      BY <2>2, <3>1, EntryType DEF StopInv, Typed
    <3> DEFINE started == [activity[h] EXCEPT !.kind = "Running"]
    <3>3. /\ activity'[h] = [started EXCEPT !.shows = 0]
          /\ \A g \in Handle : g # h => activity'[g] = activity[g]
      BY <2>2, <3>1 DEF StopInv, Typed, TypeOK
    <3>4. /\ started \in [kind : Kind, task : TaskId, kill : BOOLEAN, shows : 0 .. MaxTask]
          /\ started.task = activity[h].task /\ started.kill = activity[h].kill
          /\ started.kind = "Running"
      BY <3>2 DEF Kind
    <3> HIDE DEF started
    <3> QED
      BY <3>3, <3>4
  <2> QED
    BY <2>1, <2>2 DEF HandleLaunchStarted
<1>3. LaunchesKept /\ SendersKept
  BY <1>1, <1>2, LaunchingUnchanged DEF LaunchesKept, SendersKept
<1> QED
  BY <1>2, <1>3, StoppableKept DEF StopInv, InstallHoldsNoKill

\* LaunchFinished drops a sender, which readies its launch's kill channel.
LEMMA HandleLaunchFinishedStop ==
    ASSUME StopInv, HandleLaunchFinished
    PROVE  InstallHoldsNoKill' /\ LaunchStoppable'
<1>1. PICK h \in Handle : h = event.handle
  BY ReceiveType DEF HandleLaunchFinished, StopInv, Typed, Event
<1>2. /\ UNCHANGED task /\ killed' = killed \cup KillsOf(h)
      /\ activity' = [activity EXCEPT ![h] = IdleActivity]
  BY <1>1 DEF HandleLaunchFinished, Without
<1>3. LaunchesKept
  BY <1>2, LaunchingUnchanged DEF LaunchesKept
<1>4. SendersKept
  BY <1>2 DEF SendersKept, KillsOf, StopInv, Typed, TypeOK
<1>5. InstallHoldsNoKill'
  BY <1>2 DEF InstallHoldsNoKill, IdleActivity, StopInv, Typed, TypeOK
<1> QED
  BY <1>3, <1>4, <1>5, StoppableKept DEF StopInv

\* A step of a task keeps the entries and never loses a kill signal.
LEMMA TaskStop ==
    ASSUME StopInv, NEW t \in TaskId, TaskStep(t) \/ UserStep(t)
    PROVE  InstallHoldsNoKill' /\ LaunchStoppable'
<1>1. UNCHANGED <<activity, killed>>
  BY DEF TaskStep, UserStep, ReportProgress, AskUser, Authenticate, FilesReady, MetadataSaved,
         StartGame, KillGame, ReportExit, Fail, UserAuthenticated, GameExits, loop
<1>2. CASE GameExits(t)
  BY <1>1, <1>2, NoRunsStop DEF GameExits
<1>3. CASE ReportProgress(t)
  <2>1. task[t] \in Task
    BY <1>3, TaskBorn DEF ReportProgress, At, StopInv, Typed
  <2>2. /\ task'[t] = [task[t] EXCEPT !.reports = @ + 1]
        /\ \A u \in TaskId : u # t => task'[u] = task[u]
    BY <1>3 DEF ReportProgress, StopInv, Typed, TypeOK
  <2>3. /\ task'[t].job = task[t].job /\ task'[t].handle = task[t].handle
        /\ task'[t].pc = task[t].pc
    BY <2>1, <2>2 DEF Task
  <2>4. LaunchesKept /\ SendersKept
    BY <1>1, <2>2, <2>3 DEF LaunchesKept, SendersKept, Launching, Live, At, Is
  <2> QED
    BY <1>1, <2>4, StoppableKept DEF StopInv, InstallHoldsNoKill
<1>4. CASE ~GameExits(t) /\ ~ReportProgress(t)
  <2>1. Live(t) /\ \E pc \in Phase : Goto(t, pc)
    BY <1>4 DEF TaskStep, UserStep, AskUser, Authenticate, FilesReady, MetadataSaved, StartGame,
           KillGame, ReportExit, Fail, UserAuthenticated, AfterAuth, Live, At, Ended, Phase
  <2>2. LaunchesKept /\ SendersKept
    BY <1>1, <2>1, GotoFrame DEF StopInv
  <2> QED
    BY <1>1, <2>2, StoppableKept DEF StopInv, InstallHoldsNoKill
<1> QED
  BY <1>2, <1>3, <1>4

\* Every step preserves StopInv.
LEMMA StopNext == StopInv /\ KnownInv /\ [Next]_vars => StopInv'
<1> SUFFICES ASSUME StopInv, KnownInv, [Next]_vars PROVE InstallHoldsNoKill' /\ LaunchStoppable'
  BY TypedNext DEF StopInv
<1>1. CASE UNCHANGED vars
  BY <1>1, NoRunsStop DEF vars, runs
<1>2. ASSUME NEW h \in Handle, NEW enabled \in BOOLEAN,
             \/ StartInstall(h)   \/ StartCreateLocal(h) \/ RetryCreateLocal(h)
             \/ CancelInstall(h)  \/ DeleteInstance(h)   \/ StartLaunch(h)
             \/ KillLaunch(h)     \/ ResolveJavaPath(h)  \/ UpdateInstanceSettings(h)
             \/ SetLaunchAfterInstall(h, enabled)
      PROVE  InstallHoldsNoKill' /\ LaunchStoppable'
  <2>1. CASE StartInstall(h) \/ RetryCreateLocal(h) \/ StartLaunch(h)
    BY <2>1, SpawnEntryStop DEF StartInstall, RetryCreateLocal, StartLaunch
  <2>2. CASE StartCreateLocal(h)
    <3>1. ~IsBusy(h)
      BY <2>2 DEF StartCreateLocal, KnownInv, BusyKnown
    <3> QED
      BY <2>2, <3>1, SpawnEntryStop DEF StartCreateLocal
  <2>3. CASE DeleteInstance(h) \/ UpdateInstanceSettings(h) \/ SetLaunchAfterInstall(h, enabled)
    BY <2>3, NoRunsStop DEF DeleteInstance, UpdateInstanceSettings, SetLaunchAfterInstall, runs
  <2> QED
    BY <1>2, <2>1, <2>2, <2>3, CancelStop, KillLaunchStop, ResolveJavaPathStop
<1>3. CASE UserMessage
  <2>1. ASSUME CancelAuth PROVE InstallHoldsNoKill' /\ LaunchStoppable'
    BY <2>1, CancelStop DEF CancelAuth, StopInv, Typed, TypeOK
  <2>2. ASSUME Refresh PROVE InstallHoldsNoKill' /\ LaunchStoppable'
    BY <2>2, NoRunsStop DEF Refresh, runs
  <2> QED
    BY <1>2, <1>3, <2>1, <2>2, DeleteAllStop DEF UserMessage
<1>4. CASE HandleEvent
  <2>1. CASE HandleAuthLaunchPrompt \/ HandleJavaResolved
    BY <2>1, NoRunsStop DEF HandleAuthLaunchPrompt, HandleJavaResolved, runs
  <2> QED
    BY <1>4, <2>1, HandleInstanceTasksStop, HandleInstallFinishedStop, HandleLaunchStartedStop,
       HandleLaunchFinishedStop DEF HandleEvent
<1>5. ASSUME NEW h \in Handle, RemovePartialDir(h)
      PROVE  InstallHoldsNoKill' /\ LaunchStoppable'
  BY <1>5, NoRunsStop DEF RemovePartialDir, runs
<1> QED
  BY <1>1, <1>3, <1>4, <1>5, TaskStop DEF Next

\* In every order of messages and events, a launch under way can be stopped
\* (the kill channel of start_launch, crates/backend/src/lib.rs).
THEOREM LaunchesCanBeStopped == Spec => []LaunchStoppable
<1>1. Init => StopInv
  BY TypedInit DEF Init, StopInv, InstallHoldsNoKill, LaunchStoppable, IdleActivity, NoTask,
                   Live, At, Is, Ended
<1>2. StopInv => LaunchStoppable
  BY DEF StopInv
<1> QED
  BY <1>1, <1>2, StopNext, KnownInit, KnownNext, PTL DEF Spec

-----------------------------------------------------------------------------
(***************************************************************************)
(* Instances under creation.  The invariant needs that a fresh handle has  *)
(* no descriptor (UnknownIsNew), which in turn needs that events are about *)
(* handles some task has had (EventsKnown).                                *)
(***************************************************************************)

\* Only a fresh handle starts a creation.
LEMMA CreatingStep ==
    ASSUME Typed, [Next]_vars, NEW h \in creating', h \notin creating
    PROVE  ~Known(h)
<1>1. CASE UserMessage
  <2>1. ASSUME NEW g \in Handle, NEW enabled \in BOOLEAN,
               \/ StartInstall(g)   \/ CancelInstall(g)  \/ DeleteInstance(g)
               \/ StartLaunch(g)    \/ KillLaunch(g)     \/ ResolveJavaPath(g)
               \/ UpdateInstanceSettings(g) \/ SetLaunchAfterInstall(g, enabled)
        PROVE  creating' \subseteq creating
    BY <2>1 DEF StartInstall, CancelInstall, DeleteInstance, StartLaunch, KillLaunch,
       ResolveJavaPath, UpdateInstanceSettings, SetLaunchAfterInstall
  <2>2. ASSUME CancelAuth \/ Refresh \/ DeleteAllLauncherData PROVE creating' \subseteq creating
    BY <2>2 DEF CancelAuth, Refresh, DeleteAllLauncherData
  <2>3. ASSUME NEW g \in Handle, RetryCreateLocal(g) PROVE creating' \subseteq creating
    BY <2>3 DEF RetryCreateLocal, SpawnCreate
  <2>4. ASSUME NEW g \in Handle, StartCreateLocal(g) PROVE ~Known(h)
    BY <2>4 DEF StartCreateLocal, SpawnCreate
  <2> QED
    BY <1>1, <2>1, <2>2, <2>3, <2>4 DEF UserMessage
<1>2. CASE HandleEvent
  BY <1>2 DEF HandleEvent, HandleInstanceTasks, HandleInstallFinished, HandleLaunchStarted,
     HandleLaunchFinished, HandleAuthLaunchPrompt, HandleJavaResolved
<1>3. ASSUME NEW t \in TaskId, TaskStep(t) \/ UserStep(t) PROVE UNCHANGED creating
  BY <1>3 DEF TaskStep, UserStep, ReportProgress, AskUser, Authenticate, FilesReady,
     MetadataSaved, StartGame, KillGame, ReportExit, Fail, UserAuthenticated, GameExits, loop
<1>4. ASSUME NEW g \in Handle, RemovePartialDir(g) PROVE UNCHANGED creating
  BY <1>4 DEF RemovePartialDir
<1> QED
  BY <1>1, <1>2, <1>3, <1>4 DEF Next, vars

\* Every step keeps the instances under creation out of both storages.
LEMMA CreatingNext ==
    ASSUME KnownInv, CreatingNotStored, HandlesKept, Typed', [Next]_vars
    PROVE  CreatingNotStored'
<1> SUFFICES ASSUME NEW h \in creating'
             PROVE  storage'[h] = "absent" /\ disk'[h] = "absent"
  BY DEF CreatingNotStored
<1>1. h \in Local
  BY DEF Typed, TypeOK
<1>2. storage[h] = "absent" /\ disk[h] = "absent"
  BY <1>1, CreatingStep DEF CreatingNotStored, KnownInv, UnknownIsNew
<1> QED
  BY <1>1, <1>2, DescriptorStep DEF KnownInv

\* No instance under creation is stored, in memory or on disk, whatever the
\* order of messages and events and whichever saves fail (start_create_local,
\* handle_install_finished and cancel_install, crates/backend/src/lib.rs).
THEOREM CreationsAreNotStored == Spec => []CreatingNotStored
<1>1. Init => CreatingNotStored
  BY DEF Init, CreatingNotStored
<1>2. KnownInv /\ CreatingNotStored /\ [Next]_vars => CreatingNotStored'
  BY CreatingNext, KnownNext DEF KnownInv
<1> QED
  BY <1>1, <1>2, KnownInit, KnownNext, PTL DEF Spec

-----------------------------------------------------------------------------
(***************************************************************************)
(* Who works on an instance.  The invariant ties an entry to the task it   *)
(* names, a living task to its entry unless another task's event has       *)
(* changed that, an event to a task that has come far enough to send it,   *)
(* and a game the loop has shown to its entry or its kill channel.         *)
(***************************************************************************)
Working(t) == Live(t) /\ ~Is(t, {"probe"})

InstallEnds(e) == e.type = "InstallFinished" /\ ~e.isRun
Ends(e) == e.type = "LaunchFinished" \/ InstallEnds(e)

Started == {"game", "done", "aborted"}

\* An entry names a task of its instance, of its kind, that was not aborted; a
\* launch among them can be stopped.
EntryOk(h) == IsBusy(h) =>
    /\ task[activity[h].task].handle = h
    /\ ~At(activity[h].task, {"aborted"}) /\ ~Is(activity[h].task, {"probe"})
    /\ activity[h].kind = "Install" => ~Is(activity[h].task, {"launch"})
    /\ activity[h].kind = "LaunchPrep" => Is(activity[h].task, {"launch"})
    /\ Is(activity[h].task, {"launch"}) => activity[h].kill \/ activity[h].task \in killed

WorkerOk(t) == Working(t) /\ t \notin misled =>
    /\ activity[task[t].handle].task = t
    /\ activity[task[t].handle].kind = "Running" => Is(t, {"launch"})

\* Games run for launches; a game that is shown has its entry or is being killed.
GameOk(t) ==
    /\ At(t, {"start", "game"}) => Is(t, {"launch"})
    /\ t \in game => Is(t, {"launch"}) /\ At(t, {"game", "aborted"})
    /\ t \in shown => At(t, Started)
    /\ t \in shown /\ activity[task[t].handle].task = t =>
          activity[task[t].handle].kind = "Running"
    /\ t \in game /\ t \in shown =>
          At(t, {"game"}) /\ (activity[task[t].handle].task = t \/ t \in killed)

\* An event that ends or starts something comes from a task that did so.
MailOk(e, tasks, count) ==
    /\ Ends(e) \/ e.type = "LaunchStarted" =>
          e.task \in 1 .. count /\ e.handle = tasks[e.task].handle
    /\ Ends(e) => tasks[e.task].pc = "done"
    /\ e.type \in {"LaunchStarted", "LaunchFinished"} => tasks[e.task].job = "launch"
    /\ InstallEnds(e) => tasks[e.task].job # "launch"
    /\ e.type = "LaunchStarted" => tasks[e.task].pc \in Started

ClosingSent(t) == \E i \in 1 .. Len(events) : events[i].task = t /\ Ends(events[i])

WillEnd(h) == IsBusy(h) =>
    Live(activity[h].task) \/ Mistaken(h) \/ ClosingSent(activity[h].task)

Entries == \A h \in Handle : EntryOk(h)
Workers == \A t \in TaskId : WorkerOk(t)
Games   == \A t \in TaskId : GameOk(t)
Mail    == \A i \in 1 .. Len(events) : MailOk(events[i], task, spawned)
Endings == \A h \in Handle : WillEnd(h)
Named   == misled \subseteq 1 .. spawned /\ shown \subseteq 1 .. spawned

Work == Entries /\ Workers /\ Games /\ Mail /\ Endings /\ Named
WorkInv == KnownInv /\ StopInv /\ Work

\* What no step changes of a task: its job, its instance, and how far it has
\* come for good.
TasksKept ==
    /\ spawned' \in Nat /\ spawned <= spawned'
    /\ \A t \in 1 .. spawned :
          /\ task'[t].job = task[t].job /\ task'[t].handle = task[t].handle
          /\ At(t, {"done"}) => task'[t].pc = "done"
          /\ At(t, Started) => task'[t].pc \in Started
          /\ At(t, Ended) => task'[t].pc \in Ended

\* A step keeps the entry of h and the task it names ...
EntryStays(h) ==
    /\ IsBusy(h)' <=> IsBusy(h)
    /\ \A a \in 1 .. spawned : IsBusy(h) /\ activity[h].task = a =>
          /\ activity'[h].task = a
          /\ activity'[h].kind \in {activity[h].kind, "Running"}
          /\ activity[h].kill => activity'[h].kill \/ a \in killed'
          /\ activity'[h].kind # activity[h].kind /\ ~Is(a, {"launch"}) => a \in misled'
          /\ task'[a].pc = "aborted" => task[a].pc = "aborted"

\* ... or drops it, and then the task has ended, is killed or is misled ...
EntryLeaves(h) ==
    \A a \in 1 .. spawned : IsBusy(h) /\ activity[h].task = a =>
        /\ task'[a].pc \in Ended \/ a \in misled'
        /\ activity[h].kill => a \in killed'

\* ... and may put the entry of a new task in its place.
EntryIsNew(h) ==
    /\ spawned' = spawned + 1
    /\ activity'[h].task = spawned'
    /\ task'[spawned'].handle = h
    /\ task'[spawned'].pc \in {"auth", "work"}
    /\ \/ /\ activity'[h].kind = "LaunchPrep" /\ activity'[h].kill
          /\ task'[spawned'].job = "launch"
       \/ activity'[h].kind = "Install" /\ task'[spawned'].job \in {"install", "create"}

EntrySteps ==
    \A h \in Handle :
        EntryStays(h) \/ (EntryLeaves(h) /\ (~IsBusy(h)' \/ EntryIsNew(h)))

\* Besides the task of a new entry, only a probe is spawned.
NewTasks ==
    \A t \in 1 .. spawned' :
        \/ t \in 1 .. spawned
        \/ task'[t].job = "probe" /\ task'[t].pc = "work"
        \/ \E h \in Handle : t = spawned' /\ EntryIsNew(h)

\* Moving a task to another phase changes its phase only.
LEMMA GotoFields ==
    ASSUME Typed, NEW t \in TaskId, task[t] \in Task, NEW pc,
           task' = [task EXCEPT ![t].pc = pc]
    PROVE  /\ task'[t].pc = pc /\ task'[t].job = task[t].job
           /\ task'[t].handle = task[t].handle
           /\ \A u \in TaskId : u # t => task'[u] = task[u]
<1>1. task'[t] = [task[t] EXCEPT !.pc = pc]
  BY DEF Typed, TypeOK
<1>2. \A u \in TaskId : u # t => task'[u] = task[u]
  BY DEF Typed, TypeOK
<1> QED
  BY <1>1, <1>2 DEF Task

\* Aborting the task of an entry changes that entry, that task and kill channels.
LEMMA AbortFields ==
    ASSUME Typed, NEW h \in Handle, IsBusy(h), AbortActivity(h)
    PROVE  LET a == activity[h].task IN
           /\ a \in 1 .. spawned /\ a \in TaskId /\ task[a] \in Task
           /\ activity' = [activity EXCEPT ![h] = IdleActivity]
           /\ task'[a].pc = IF task[a].pc = "done" THEN "done" ELSE "aborted"
           /\ task'[a].job = task[a].job /\ task'[a].handle = task[a].handle
           /\ \A u \in TaskId : u # a => task'[u] = task[u]
           /\ UNCHANGED <<spawned, game>> /\ killed \subseteq killed'
           /\ activity[h].kill => a \in killed'
<1> DEFINE a == activity[h].task
           pc == IF task[a].pc = "done" THEN "done" ELSE "aborted"
<1>1. a \in 1 .. spawned /\ a \in TaskId /\ task[a] \in Task
  BY DEF Typed, TypeOK, ActivitySpawned
<1>2. task' = [task EXCEPT ![a].pc = pc]
  BY DEF AbortActivity
<1>3. /\ task'[a].pc = pc /\ task'[a].job = task[a].job /\ task'[a].handle = task[a].handle
      /\ \A u \in TaskId : u # a => task'[u] = task[u]
  <2> HIDE DEF pc
  <2> QED
    BY <1>1, <1>2, GotoFields
<1> QED
  BY <1>1, <1>3 DEF AbortActivity, Without, KillsOf

\* What the record of a task becomes in a new launcher process.
LEMMA DeleteAllFields ==
    ASSUME Typed, DeleteAllLauncherData, NEW t \in TaskId, task' # task
    PROVE  \/ task[t].pc \in {"unborn", "done"} /\ task'[t] = task[t]
           \/ /\ task[t].pc \notin {"unborn", "done"} /\ task[t] \in Task
              /\ task'[t].pc = "aborted" /\ task'[t].job = task[t].job
              /\ task'[t].handle = task[t].handle
<1>1. task' = [u \in TaskId |-> IF task[u].pc \in {"unborn", "done"} THEN task[u]
                                ELSE [task[u] EXCEPT !.pc = "aborted"]]
  BY DEF DeleteAllLauncherData, runs
<1>2. CASE task[t].pc \in {"unborn", "done"}
  BY <1>1, <1>2
<1>3. CASE task[t].pc \notin {"unborn", "done"}
  <2>1. task[t] \in Task
    BY <1>3, TaskBorn DEF Typed
  <2>2. task'[t] = [task[t] EXCEPT !.pc = "aborted"]
    BY <1>1, <1>3
  <2> QED
    BY <1>3, <2>1, <2>2 DEF Task
<1> QED
  BY <1>2, <1>3

\* What a task may send when it moves to pc.
Fitting(t, m, pc) ==
    \/ ~Ends(m) /\ m.type # "LaunchStarted"
    \/ /\ m.task = t /\ m.handle = task[t].handle
       /\ \/ InstallEnds(m) /\ pc = "done" /\ ~Is(t, {"launch"})
          \/ m.type = "LaunchFinished" /\ pc = "done" /\ Is(t, {"launch"})
          \/ m.type = "LaunchStarted" /\ pc = "game" /\ Is(t, {"launch"})

AllFitting(t, messages, pc) == \A i \in 1 .. Len(messages) : Fitting(t, messages[i], pc)

EndSent(t, messages) ==
    \E i \in 1 .. Len(messages) : messages[i].task = t /\ Ends(messages[i])

\* The messages of a task, by what they say of it.
LEMMA MessageFields ==
    ASSUME NEW t, NEW h, NEW ok \in BOOLEAN
    PROVE  /\ ~Ends(InstallFinished(t, TRUE, ok)) /\ ~Ends(JavaResolved(t, ok))
           /\ ~Ends(AuthPromptOf(t, h))
           /\ InstallFinished(t, TRUE, ok).type # "LaunchStarted"
           /\ JavaResolved(t, ok).type # "LaunchStarted"
           /\ AuthPromptOf(t, h).type # "LaunchStarted"
           /\ InstallEnds(InstallFinished(t, FALSE, ok))
           /\ InstallFinished(t, FALSE, ok).task = t
           /\ InstallFinished(t, FALSE, ok).handle = task[t].handle
           /\ LaunchFinished(t, ok).type = "LaunchFinished"
           /\ LaunchFinished(t, ok).task = t
           /\ LaunchFinished(t, ok).handle = task[t].handle
BY DEF Ends, InstallEnds, InstallFinished, LaunchFinished, JavaResolved, AuthPromptOf, Message

\* A list of no, one or two messages is fitting when its messages are.
LEMMA FittingLists ==
    ASSUME NEW t, NEW pc, NEW a, NEW b
    PROVE  /\ AllFitting(t, <<>>, pc)
           /\ Fitting(t, a, pc) => AllFitting(t, <<a>>, pc)
           /\ Fitting(t, a, pc) /\ Fitting(t, b, pc) => AllFitting(t, <<a, b>>, pc)
           /\ a.task = t /\ Ends(a) => EndSent(t, <<a>>)
           /\ b.task = t /\ Ends(b) => EndSent(t, <<a, b>>)
<1>1. AllFitting(t, <<>>, pc)
  BY DEF AllFitting
<1>2. ASSUME Fitting(t, a, pc) PROVE AllFitting(t, <<a>>, pc)
  <2> SUFFICES ASSUME NEW i \in 1 .. Len(<<a>>) PROVE Fitting(t, <<a>>[i], pc)
    BY DEF AllFitting
  <2>1. i = 1 /\ <<a>>[1] = a
    OBVIOUS
  <2> QED
    BY <1>2, <2>1
<1>3. ASSUME Fitting(t, a, pc), Fitting(t, b, pc) PROVE AllFitting(t, <<a, b>>, pc)
  <2> SUFFICES ASSUME NEW i \in 1 .. Len(<<a, b>>) PROVE Fitting(t, <<a, b>>[i], pc)
    BY DEF AllFitting
  <2>1. (i = 1 \/ i = 2) /\ <<a, b>>[1] = a /\ <<a, b>>[2] = b
    OBVIOUS
  <2> QED
    BY <1>3, <2>1
<1>4. ASSUME a.task = t, Ends(a) PROVE EndSent(t, <<a>>)
  <2>1. 1 \in 1 .. Len(<<a>>) /\ <<a>>[1] = a
    OBVIOUS
  <2> QED
    BY <1>4, <2>1 DEF EndSent
<1>5. ASSUME b.task = t, Ends(b) PROVE EndSent(t, <<a, b>>)
  <2>1. 2 \in 1 .. Len(<<a, b>>) /\ <<a, b>>[2] = b
    OBVIOUS
  <2> QED
    BY <1>5, <2>1 DEF EndSent
<1> QED
  BY <1>1, <1>2, <1>3, <1>4, <1>5

\* What a step that moves a task to pc and sends messages looks like.
Moves(t, pc, messages) ==
    /\ Live(t) /\ Goto(t, pc) /\ Send(messages)
    /\ UNCHANGED <<loop, spawned, killed>>
    /\ pc \in {"prompt", "work", "save", "start", "game", "done"}
    /\ pc \in {"start", "game"} => Is(t, {"launch"})
    /\ At(t, {"game"}) => pc = "done"
    /\ game' \subseteq game \cup {t} /\ game \subseteq game' \cup {t}
    /\ t \in game' => pc = "game"
    /\ AllFitting(t, messages, pc)
    /\ pc = "done" /\ ~Is(t, {"probe"}) => EndSent(t, messages)

\* The steps of a task other than a progress report and the end of its game.
LEMMA TaskMoves ==
    ASSUME TypeOK, NEW t \in TaskId, GameOk(t), TaskStep(t) \/ UserStep(t),
           ~GameExits(t), ~ReportProgress(t)
    PROVE  \E pc \in Phase, messages \in Seq(OwnMessages(t)) : Moves(t, pc, messages)
<1>1. task[t].pc # "unborn"
  BY DEF TaskStep, UserStep, AskUser, Authenticate, FilesReady, MetadataSaved,
     StartGame, KillGame, ReportExit, Fail, UserAuthenticated, At
<1>2. \A ok \in BOOLEAN, isRun \in BOOLEAN :
         /\ InstallFinished(t, isRun, ok) \in OwnMessages(t)
         /\ LaunchFinished(t, ok) \in OwnMessages(t)
         /\ JavaResolved(t, ok) \in OwnMessages(t)
         /\ AuthPromptOf(t, task[t].handle) \in OwnMessages(t)
         /\ AuthPromptOf(t, NoHandle) \in OwnMessages(t)
         /\ Message("LaunchStarted", task[t].handle, t, FALSE, TRUE) \in OwnMessages(t)
  BY <1>1, MessageType
<1>3. /\ At(t, {"start", "game"}) => Is(t, {"launch"})
      /\ t \in game => Is(t, {"launch"}) /\ At(t, {"game", "aborted"})
  BY DEF GameOk
<1>4. ASSUME NEW pc, NEW h, NEW ok \in BOOLEAN
      PROVE  /\ Fitting(t, InstallFinished(t, TRUE, ok), pc)
             /\ Fitting(t, JavaResolved(t, ok), pc) /\ Fitting(t, AuthPromptOf(t, h), pc)
             /\ ~Is(t, {"launch"}) => Fitting(t, InstallFinished(t, FALSE, ok), "done")
             /\ Is(t, {"launch"}) => Fitting(t, LaunchFinished(t, ok), "done")
             /\ InstallFinished(t, FALSE, ok).task = t /\ Ends(InstallFinished(t, FALSE, ok))
             /\ LaunchFinished(t, ok).task = t /\ Ends(LaunchFinished(t, ok))
  <2>1. /\ Fitting(t, InstallFinished(t, TRUE, ok), pc)
        /\ Fitting(t, JavaResolved(t, ok), pc) /\ Fitting(t, AuthPromptOf(t, h), pc)
    <3>1. Fitting(t, InstallFinished(t, TRUE, ok), pc)
      BY MessageFields DEF Fitting
    <3>2. Fitting(t, JavaResolved(t, ok), pc)
      BY MessageFields DEF Fitting
    <3>3. Fitting(t, AuthPromptOf(t, h), pc)
      BY DEF Fitting, Ends, InstallEnds, AuthPromptOf, Message
    <3> QED
      BY <3>1, <3>2, <3>3
  <2>2. /\ ~Is(t, {"launch"}) => Fitting(t, InstallFinished(t, FALSE, ok), "done")
        /\ Is(t, {"launch"}) => Fitting(t, LaunchFinished(t, ok), "done")
    BY MessageFields DEF Fitting
  <2>3. /\ InstallFinished(t, FALSE, ok).task = t /\ Ends(InstallFinished(t, FALSE, ok))
        /\ LaunchFinished(t, ok).task = t /\ Ends(LaunchFinished(t, ok))
    BY MessageFields DEF Ends
  <2> QED
    BY <2>1, <2>2, <2>3
<1>5. CASE AskUser(t) \/ Authenticate(t) \/ UserAuthenticated(t)
  <2>1. PICK pc \in {"prompt", "start", "work"},
             messages \in {<<>>, <<AuthPromptOf(t, NoHandle)>>, <<AuthPromptOf(t, task[t].handle)>>} :
           /\ At(t, {"auth", "prompt"}) /\ Goto(t, pc) /\ Send(messages)
           /\ UNCHANGED <<loop, spawned, killed, game>>
           /\ pc = "start" => Is(t, {"launch"})
    <3>1. CASE AskUser(t)
      BY <3>1 DEF AskUser, At
    <3>2. CASE Authenticate(t) \/ UserAuthenticated(t)
      <4>1. AfterAuth(t) \in {"start", "work"} /\ (AfterAuth(t) = "start" => Is(t, {"launch"}))
        BY DEF AfterAuth
      <4>2. PICK b \in BOOLEAN : Send(IF b THEN <<AuthPromptOf(t, NoHandle)>> ELSE <<>>)
        BY <3>2 DEF Authenticate, UserAuthenticated
      <4> QED
        BY <3>2, <4>1, <4>2 DEF Authenticate, UserAuthenticated, At
    <3> QED
      BY <1>5, <3>1, <3>2
  <2>2. messages \in Seq(OwnMessages(t)) /\ AllFitting(t, messages, pc)
    <3>1. ASSUME NEW h \in {NoHandle, task[t].handle}
          PROVE  /\ <<AuthPromptOf(t, h)>> \in Seq(OwnMessages(t))
                 /\ AllFitting(t, <<AuthPromptOf(t, h)>>, pc)
      <4>1. AuthPromptOf(t, h) \in OwnMessages(t) /\ Fitting(t, AuthPromptOf(t, h), pc)
        BY <1>2, <1>4
      <4> QED
        BY <4>1, ShortSequences, FittingLists
    <3>2. <<>> \in Seq(OwnMessages(t)) /\ AllFitting(t, <<>>, pc)
      BY DEF AllFitting
    <3> QED
      BY <2>1, <3>1, <3>2
  <2>3. Live(t) /\ ~At(t, {"game"}) /\ pc \in Phase /\ t \notin game
    BY <1>3, <2>1 DEF Live, At, Ended, Phase
  <2> QED
    BY <2>1, <2>2, <2>3 DEF Moves
<1>6. CASE FilesReady(t)
  <2>1. Live(t) /\ ~At(t, {"game"}) /\ t \notin game /\ UNCHANGED <<loop, spawned, killed, game>>
    BY <1>3, <1>6 DEF FilesReady, Live, At, Ended
  <2>2. CASE Is(t, {"launch", "install"}) /\ Goto(t, "save") /\ Send(<<JavaResolved(t, TRUE)>>)
    <3>1. <<JavaResolved(t, TRUE)>> \in Seq(OwnMessages(t))
      BY <1>2, ShortSequences
    <3>2. AllFitting(t, <<JavaResolved(t, TRUE)>>, "save")
      BY <1>4, FittingLists
    <3> QED
      BY <2>1, <2>2, <3>1, <3>2 DEF Moves, Phase
  <2>3. CASE /\ Is(t, {"create"}) /\ Goto(t, "done")
             /\ Send(<<JavaResolved(t, TRUE), InstallFinished(t, FALSE, TRUE)>>)
    <3> DEFINE both == <<JavaResolved(t, TRUE), InstallFinished(t, FALSE, TRUE)>>
    <3>1. both \in Seq(OwnMessages(t))
      BY <1>2, ShortSequences
    <3>2. AllFitting(t, both, "done") /\ EndSent(t, both)
      BY <1>4, <2>3, FittingLists DEF Is
    <3> HIDE DEF both
    <3>3. Send(both)
      BY <2>3 DEF both
    <3> QED
      BY <2>1, <2>3, <3>1, <3>2, <3>3 DEF Moves, Phase
  <2>4. CASE Is(t, {"probe"}) /\ Goto(t, "done") /\ Send(<<JavaResolved(t, TRUE)>>)
    <3>1. <<JavaResolved(t, TRUE)>> \in Seq(OwnMessages(t))
      BY <1>2, ShortSequences
    <3>2. AllFitting(t, <<JavaResolved(t, TRUE)>>, "done")
      BY <1>4, FittingLists
    <3> QED
      BY <2>1, <2>4, <3>1, <3>2 DEF Moves, Phase
  <2> QED
    BY <1>6, <2>2, <2>3, <2>4 DEF FilesReady
<1>7. CASE MetadataSaved(t)
  <2>1. Live(t) /\ ~At(t, {"game"}) /\ t \notin game /\ UNCHANGED <<loop, spawned, killed, game>>
    BY <1>3, <1>7 DEF MetadataSaved, Live, At, Ended
  <2>2. CASE Is(t, {"launch"})
    <3>1. Goto(t, "start") /\ Send(<<InstallFinished(t, TRUE, TRUE)>>)
      BY <1>7, <2>2 DEF MetadataSaved
    <3>2. <<InstallFinished(t, TRUE, TRUE)>> \in Seq(OwnMessages(t))
      BY <1>2, ShortSequences
    <3>3. AllFitting(t, <<InstallFinished(t, TRUE, TRUE)>>, "start")
      BY <1>4, FittingLists
    <3> QED
      BY <2>1, <2>2, <3>1, <3>2, <3>3 DEF Moves, Phase
  <2>3. CASE ~Is(t, {"launch"})
    <3>1. Goto(t, "done") /\ Send(<<InstallFinished(t, FALSE, TRUE)>>)
      <4>1. Is(t, {"launch"}) = FALSE
        BY <2>3 DEF Is
      <4> QED
        BY <1>7, <4>1 DEF MetadataSaved
    <3>2. <<InstallFinished(t, FALSE, TRUE)>> \in Seq(OwnMessages(t))
      BY <1>2, ShortSequences
    <3>3. /\ AllFitting(t, <<InstallFinished(t, FALSE, TRUE)>>, "done")
          /\ EndSent(t, <<InstallFinished(t, FALSE, TRUE)>>)
      BY <1>4, <2>3, FittingLists
    <3> QED
      BY <2>1, <3>1, <3>2, <3>3 DEF Moves, Phase
  <2> QED
    BY <2>2, <2>3
<1>8. CASE StartGame(t)
  <2> DEFINE started == Message("LaunchStarted", task[t].handle, t, FALSE, TRUE)
  <2>1. /\ Live(t) /\ ~At(t, {"game"}) /\ UNCHANGED <<loop, spawned, killed>>
        /\ Goto(t, "game") /\ game' = game \cup {t} /\ Send(<<started>>)
        /\ Is(t, {"launch"})
    BY <1>3, <1>8 DEF StartGame, Live, At, Ended
  <2>2. Fitting(t, started, "game") /\ started \in OwnMessages(t)
    BY <1>2, <2>1 DEF Fitting, Message
  <2> HIDE DEF started
  <2>3. <<started>> \in Seq(OwnMessages(t)) /\ AllFitting(t, <<started>>, "game")
    BY <2>2, FittingLists, ShortSequences
  <2> QED
    BY <2>1, <2>3 DEF Moves, Phase
<1>9. CASE KillGame(t) \/ ReportExit(t)
  <2>1. PICK ok \in BOOLEAN : Send(<<LaunchFinished(t, ok)>>)
    BY <1>9 DEF KillGame, ReportExit
  <2>2. /\ Live(t) /\ UNCHANGED <<loop, spawned, killed>> /\ Goto(t, "done")
        /\ game' \subseteq game /\ game \subseteq game' \cup {t} /\ t \notin game'
        /\ Is(t, {"launch"})
    BY <1>3, <1>9 DEF KillGame, ReportExit, Live, At, Ended
  <2>3. <<LaunchFinished(t, ok)>> \in Seq(OwnMessages(t))
    BY <1>2, ShortSequences
  <2>4. /\ AllFitting(t, <<LaunchFinished(t, ok)>>, "done")
        /\ EndSent(t, <<LaunchFinished(t, ok)>>)
    BY <1>4, <2>2, FittingLists
  <2> QED
    BY <2>1, <2>2, <2>3, <2>4 DEF Moves, Phase
<1>10. CASE Fail(t)
  <2>1. /\ Live(t) /\ ~At(t, {"game"}) /\ t \notin game /\ Goto(t, "done") /\ Send(Failure(t))
        /\ UNCHANGED <<loop, spawned, killed, game>>
    BY <1>3, <1>10 DEF Fail, Live, At, Ended
  <2>2. /\ Failure(t) \in Seq(OwnMessages(t)) /\ AllFitting(t, Failure(t), "done")
        /\ ~Is(t, {"probe"}) => EndSent(t, Failure(t))
    <3>1. CASE Is(t, {"install", "create"})
      <4>1. Failure(t) = <<InstallFinished(t, FALSE, FALSE)>> /\ ~Is(t, {"launch"})
        BY <3>1 DEF Failure, Is
      <4> QED
        BY <1>2, <1>4, <4>1, FittingLists, ShortSequences
    <3>2. CASE Is(t, {"launch"}) /\ At(t, {"work", "save"})
      <4>1. Failure(t) = <<InstallFinished(t, TRUE, FALSE), LaunchFinished(t, FALSE)>>
        BY <3>2 DEF Failure, Is
      <4> QED
        BY <1>2, <1>4, <3>2, <4>1, FittingLists, ShortSequences
    <3>3. CASE Is(t, {"launch"}) /\ ~At(t, {"work", "save"})
      <4>1. Failure(t) = <<LaunchFinished(t, FALSE)>>
        BY <3>3 DEF Failure, Is
      <4> QED
        BY <1>2, <1>4, <3>3, <4>1, FittingLists, ShortSequences
    <3>4. CASE ~Is(t, {"install", "create", "launch"})
      <4>1. Failure(t) = <<JavaResolved(t, FALSE)>> /\ Is(t, {"probe"})
        <5>1. task[t] \in Task
          BY <1>1, TaskBorn
        <5> QED
          BY <3>4, <5>1 DEF Failure, Is, Task, Job
      <4> QED
        BY <1>2, <1>4, <4>1, FittingLists, ShortSequences
    <3> QED
      BY <3>1, <3>2, <3>3, <3>4 DEF Is
  <2> QED
    BY <2>1, <2>2 DEF Moves, Phase
<1> QED
  BY <1>5, <1>6, <1>7, <1>8, <1>9, <1>10 DEF TaskStep, UserStep

\* In the next state too, a task that has a program counter was spawned ...
LEMMA BornNext ==
    ASSUME TypeOK', NEW t \in TaskId, task'[t].pc # "unborn"
    PROVE  t \in 1 .. spawned'
BY DEF TypeOK, NoTask

\* ... and an idle instance has the idle entry.
LEMMA IdleNext ==
    ASSUME TypeOK', NEW h \in Handle, ~IsBusy(h)'
    PROVE  activity'[h].task = 0
BY DEF TypeOK, Activity, IdleActivity, IsBusy, Kind

\* The entry of a busy instance names a spawned task, that of an idle one none.
LEMMA EntryNames ==
    ASSUME Typed, NEW h \in Handle
    PROVE  /\ IsBusy(h) => activity[h].task \in 1 .. spawned /\ activity[h].kind \in Kind
           /\ ~IsBusy(h) => activity[h].task = 0 /\ ~activity[h].kill
<1>1. CASE IsBusy(h)
  BY <1>1, EntryType DEF Typed, ActivitySpawned
<1>2. CASE ~IsBusy(h)
  BY <1>2, EntryType DEF Typed, IdleActivity
<1> QED
  BY <1>1, <1>2

\* Entries stay right when each stays, is dropped or is new.
LEMMA EntriesFrame ==
    ASSUME Typed, Typed', Entries, TasksKept, EntrySteps, killed \subseteq killed'
    PROVE  Entries'
<1> SUFFICES ASSUME NEW h \in Handle, IsBusy(h)' PROVE EntryOk(h)'
  BY DEF Entries, EntryOk
<1>1. CASE EntryStays(h)
  <2>1. IsBusy(h) /\ EntryOk(h)
    BY <1>1 DEF EntryStays, Entries
  <2>2. PICK a \in 1 .. spawned : activity[h].task = a
    BY <2>1, EntryNames
  <2>3. /\ task[a].handle = h /\ task[a].pc # "aborted" /\ task[a].job # "probe"
        /\ activity[h].kind = "Install" => task[a].job # "launch"
        /\ activity[h].kind = "LaunchPrep" => task[a].job = "launch"
        /\ task[a].job = "launch" => activity[h].kill \/ a \in killed
    BY <2>1, <2>2 DEF EntryOk, At, Is
  <2>4. /\ activity'[h].task = a
        /\ activity'[h].kind \in {activity[h].kind, "Running"}
        /\ activity[h].kill => activity'[h].kill \/ a \in killed'
        /\ task'[a].pc = "aborted" => task[a].pc = "aborted"
    BY <1>1, <2>1, <2>2 DEF EntryStays
  <2>5. task'[a].job = task[a].job /\ task'[a].handle = task[a].handle
    BY DEF TasksKept
  <2> QED
    BY <2>3, <2>4, <2>5 DEF EntryOk, At, Is
<1>2. CASE EntryIsNew(h)
  BY <1>2 DEF EntryIsNew, EntryOk, At, Is
<1> QED
  BY <1>1, <1>2 DEF EntrySteps

\* So do the tasks that are at work.
LEMMA WorkersFrame ==
    ASSUME Typed, Typed', Workers, TasksKept, EntrySteps, NewTasks, misled \subseteq misled'
    PROVE  Workers'
<1> SUFFICES ASSUME NEW t \in TaskId, Working(t)', t \notin misled' PROVE WorkerOk(t)'
  BY DEF Workers, WorkerOk
<1>1. t \in 1 .. spawned'
  BY BornNext DEF Working, Live, At, Ended, Typed
<1>2. task'[t].pc \notin Ended /\ task'[t].job # "probe"
  BY DEF Working, Live, At, Is
<1>3. CASE t \in 1 .. spawned
  <2>1. /\ task'[t].job = task[t].job /\ task'[t].handle = task[t].handle
        /\ task[t].pc \notin Ended
    BY <1>2, <1>3 DEF TasksKept, At
  <2>2. PICK h \in Handle : task[t].handle = h
    BY <1>3 DEF Typed, TypeOK, Task
  <2>3. activity[h].task = t /\ (activity[h].kind = "Running" => task[t].job = "launch")
    BY <1>2, <2>1, <2>2 DEF Workers, WorkerOk, Working, Live, At, Is
  <2>4. IsBusy(h)
    BY <1>3, <2>3, EntryNames
  <2>5. CASE EntryStays(h)
    BY <1>3, <2>1, <2>2, <2>3, <2>4, <2>5 DEF EntryStays, WorkerOk, Is
  <2>6. CASE EntryLeaves(h)
    BY <1>2, <1>3, <2>3, <2>4, <2>6 DEF EntryLeaves
  <2> QED
    BY <2>5, <2>6 DEF EntrySteps
<1>4. CASE t \notin 1 .. spawned
  <2>1. PICK h \in Handle : t = spawned' /\ EntryIsNew(h)
    BY <1>1, <1>2, <1>4 DEF NewTasks
  <2> QED
    BY <2>1 DEF EntryIsNew, WorkerOk, Is
<1> QED
  BY <1>3, <1>4

\* Games stay right when the loop aborts no task whose game is shown.
LEMMA GamesFrame ==
    ASSUME Typed, Typed', Entries, Games, Named, TasksKept, EntrySteps, NewTasks,
           game' = game, shown' \subseteq shown, killed \subseteq killed',
           NEW aborted,
           \A t \in 1 .. spawned : task'[t].pc = task[t].pc \/ t \in aborted,
           \A t \in aborted : /\ task'[t].pc \in {"aborted", "done"}
                              /\ task[t].pc = "done" => task'[t].pc = "done"
                              /\ t \in game => t \notin shown' /\ task'[t].pc = "aborted"
    PROVE  Games'
<1> SUFFICES ASSUME NEW t \in TaskId PROVE GameOk(t)'
  BY DEF Games
<1>1. CASE t \in 1 .. spawned
  <2>1. task'[t].job = task[t].job /\ task'[t].handle = task[t].handle
    BY <1>1 DEF TasksKept
  <2>2. PICK h \in Handle : task[t].handle = h
    BY <1>1 DEF Typed, TypeOK, Task
  <2>3. /\ task[t].pc \in {"start", "game"} => task[t].job = "launch"
        /\ t \in game => task[t].job = "launch" /\ task[t].pc \in {"game", "aborted"}
        /\ t \in shown => task[t].pc \in Started
        /\ t \in shown /\ activity[h].task = t => activity[h].kind = "Running"
        /\ t \in game /\ t \in shown =>
              task[t].pc = "game" /\ (activity[h].task = t \/ t \in killed)
    BY <2>2 DEF Games, GameOk, At, Is
  <2>4. activity'[h].task = t => activity[h].task = t /\ EntryStays(h)
    <3>1. CASE EntryStays(h)
      <4>1. CASE IsBusy(h)
        BY <1>1, <3>1, <4>1, EntryNames DEF EntryStays
      <4>2. CASE ~IsBusy(h)
        <5>1. activity'[h].task = 0
          BY <3>1, <4>2, IdleNext DEF EntryStays, Typed
        <5> QED
          BY <1>1, <5>1
      <4> QED
        BY <4>1, <4>2
    <3>2. CASE ~IsBusy(h)'
      <4>1. activity'[h].task = 0
        BY <3>2, IdleNext DEF Typed
      <4> QED
        BY <1>1, <4>1
    <3>3. CASE EntryIsNew(h)
      <4>1. activity'[h].task = spawned + 1
        BY <3>3 DEF EntryIsNew
      <4>2. spawned \in Nat
        BY DEF Typed, TypeOK
      <4> QED
        BY <1>1, <4>1, <4>2
    <3> QED
      BY <3>1, <3>2, <3>3 DEF EntrySteps
  <2>5. t \in shown' /\ activity'[h].task = t => activity'[h].kind = "Running"
    <3> SUFFICES ASSUME t \in shown', activity'[h].task = t PROVE activity'[h].kind = "Running"
      OBVIOUS
    <3>1. activity[h].task = t /\ EntryStays(h) /\ activity[h].kind = "Running"
      BY <2>3, <2>4
    <3>2. IsBusy(h)
      BY <3>1 DEF IsBusy
    <3> QED
      BY <1>1, <3>1, <3>2 DEF EntryStays
  <2>6. t \in game /\ activity[h].task = t => activity'[h].task = t \/ t \in killed'
    <3> SUFFICES ASSUME t \in game, activity[h].task = t PROVE activity'[h].task = t \/ t \in killed'
      OBVIOUS
    <3>1. IsBusy(h) /\ (activity[h].kill \/ t \in killed)
      BY <1>1, <2>3, EntryNames DEF Entries, EntryOk, Is
    <3>2. CASE EntryStays(h)
      BY <1>1, <3>1, <3>2 DEF EntryStays
    <3>3. CASE EntryLeaves(h)
      BY <1>1, <3>1, <3>3 DEF EntryLeaves
    <3> QED
      BY <3>2, <3>3 DEF EntrySteps
  <2>7. CASE task'[t].pc = task[t].pc
    BY <2>1, <2>2, <2>3, <2>5, <2>6, <2>7 DEF GameOk, At, Is
  <2>8. CASE t \in aborted
    BY <2>1, <2>2, <2>3, <2>5, <2>6, <2>8 DEF GameOk, At, Is, Started
  <2> QED
    BY <1>1, <2>7, <2>8
<1>2. CASE t \notin 1 .. spawned
  <2>1. task[t].pc = "unborn"
    BY <1>2, TaskBorn DEF Typed
  <2>2. t \notin game /\ t \notin shown
    BY <1>2, <2>1 DEF Games, GameOk, At, Named
  <2>3. task'[t].pc \notin {"start", "game"}
    <3>1. CASE t \in 1 .. spawned'
      BY <1>2, <3>1 DEF NewTasks, EntryIsNew
    <3>2. CASE t \notin 1 .. spawned'
      BY <3>2, BornNext DEF Typed
    <3> QED
      BY <3>1, <3>2
  <2> QED
    BY <2>2, <2>3 DEF GameOk, At
<1> QED
  BY <1>1, <1>2

\* A busy instance still becomes idle again when no task ends unreported and no
\* report gets lost.
LEMMA EndingsFrame ==
    ASSUME Typed, Typed', Entries, Endings, TasksKept, EntrySteps,
           \A h \in Handle, a \in 1 .. spawned :
              IsBusy(h) /\ IsBusy(h)' /\ activity[h].task = a /\ activity'[h].task = a =>
                 /\ Live(a) => Live(a)' \/ ClosingSent(a)'
                 /\ ClosingSent(a) => ClosingSent(a)' \/ Mistaken(h)'
    PROVE  Endings'
<1> SUFFICES ASSUME NEW h \in Handle, IsBusy(h)' PROVE WillEnd(h)'
  BY DEF Endings, WillEnd
<1>1. CASE EntryStays(h)
  <2>1. IsBusy(h) /\ WillEnd(h)
    BY <1>1 DEF EntryStays, Endings
  <2>2. PICK a \in 1 .. spawned : activity[h].task = a
    BY <2>1, EntryNames
  <2>3. activity'[h].task = a /\ activity'[h].kind \in {activity[h].kind, "Running"}
    BY <1>1, <2>1, <2>2 DEF EntryStays
  <2>4. Live(a) \/ Mistaken(h) \/ ClosingSent(a)
    BY <2>1, <2>2 DEF WillEnd
  <2>5. Mistaken(h) => Mistaken(h)'
    <3>1. task'[a].job = task[a].job
      BY DEF TasksKept
    <3> QED
      BY <2>2, <2>3, <3>1 DEF Mistaken, Is
  <2>6. Live(a)' \/ Mistaken(h)' \/ ClosingSent(a)'
    BY <2>1, <2>2, <2>3, <2>4, <2>5
  <2> QED
    BY <2>3, <2>6 DEF WillEnd, ClosingSent, Live, At
<1>2. CASE EntryIsNew(h)
  BY <1>2 DEF EntryIsNew, WillEnd, Live, At, Ended
<1> QED
  BY <1>1, <1>2 DEF EntrySteps

\* What an event says of its sender stays true.
LEMMA MailKept ==
    ASSUME TasksKept, spawned \in Nat, NEW e, MailOk(e, task, spawned)
    PROVE  MailOk(e, task', spawned')
<1>1. CASE Ends(e) \/ e.type = "LaunchStarted"
  <2>1. e.task \in 1 .. spawned /\ e.task \in 1 .. spawned'
    BY <1>1 DEF MailOk, TasksKept
  <2>2. /\ task'[e.task].job = task[e.task].job /\ task'[e.task].handle = task[e.task].handle
        /\ task[e.task].pc = "done" => task'[e.task].pc = "done"
        /\ task[e.task].pc \in Started => task'[e.task].pc \in Started
    BY <2>1 DEF TasksKept, At
  <2> QED
    BY <2>1, <2>2 DEF MailOk, Ends
<1>2. CASE ~Ends(e) /\ e.type # "LaunchStarted"
  BY <1>2 DEF MailOk, Ends
<1> QED
  BY <1>1, <1>2

\* The channel stays right when nothing is sent.
LEMMA MailFrame ==
    ASSUME Typed, Mail, TasksKept,
           events' = events \/ events' = <<>> \/ (events # <<>> /\ events' = Tail(events))
    PROVE  Mail'
<1> SUFFICES ASSUME NEW i \in 1 .. Len(events') PROVE MailOk(events'[i], task', spawned')
  BY DEF Mail
<1>1. \E j \in 1 .. Len(events) : events'[i] = events[j]
  <2>1. CASE events' = events
    BY <2>1
  <2>2. CASE events # <<>> /\ events' = Tail(events)
    <3>1. /\ Len(events) \in Nat /\ Len(events') = Len(events) - 1
          /\ events'[i] = events[i + 1]
      BY <2>2, HeadTailProperties, LenProperties DEF Typed, TypeOK
    <3> QED
      BY <3>1
  <2>3. CASE events' = <<>>
    BY <2>3
  <2> QED
    BY <2>1, <2>2, <2>3
<1>2. PICK j \in 1 .. Len(events) : events'[i] = events[j]
  BY <1>1
<1>3. MailOk(events[j], task, spawned)
  BY DEF Mail
<1> DEFINE e == events[j]
<1> HIDE DEF e
<1>4. e = events[j] /\ MailOk(e, task, spawned) /\ spawned \in Nat
  BY <1>3 DEF e, Typed, TypeOK
<1>5. MailOk(e, task', spawned')
  BY <1>4, MailKept
<1> QED
  BY <1>2, <1>4, <1>5

\* Receiving an event takes no other one.
LEMMA ReceiveFrame ==
    ASSUME Typed, Mail, NEW type, Receive(type)
    PROVE  /\ event \in Event \cup PromptGone /\ event.type = type
           /\ MailOk(event, task, spawned)
           /\ events # <<>> /\ events' = Tail(events)
           /\ \A t \in TaskId : ClosingSent(t) /\ (event.task # t \/ ~Ends(event))
                 => ClosingSent(t)'
<1>1. /\ event \in Event \cup PromptGone /\ event.type = type /\ events # <<>>
      /\ events' = Tail(events) /\ Len(events) \in Nat /\ Len(events) > 0
      /\ event = events[1] /\ Len(events') = Len(events) - 1
      /\ \A i \in 1 .. Len(events') : events'[i] = events[i + 1]
  BY HeadTailProperties, LenProperties, EmptySeq, ReceiveType DEF Receive, event, Typed, TypeOK
<1>2. MailOk(event, task, spawned)
  BY <1>1 DEF Mail
<1>3. ASSUME NEW t \in TaskId, ClosingSent(t), event.task # t \/ ~Ends(event)
      PROVE  ClosingSent(t)'
  <2>1. PICK i \in 1 .. Len(events) : events[i].task = t /\ Ends(events[i])
    BY <1>3 DEF ClosingSent
  <2>2. i # 1
    BY <1>1, <1>3, <2>1
  <2>3. i - 1 \in 1 .. Len(events') /\ events'[i - 1] = events[i]
    BY <1>1, <2>2
  <2>4. events'[i - 1].task = t /\ Ends(events'[i - 1])
    BY <2>1, <2>3
  <2> QED
    BY <2>3, <2>4 DEF ClosingSent, Ends, InstallEnds
<1> QED
  BY <1>1, <1>2, <1>3

\* A step of the loop keeps Work when it keeps each part of it.
LEMMA LoopFrame ==
    ASSUME WorkInv, Typed', TasksKept, EntrySteps, NewTasks,
           game' = game, shown' \subseteq shown, killed \subseteq killed',
           misled \subseteq misled', misled' \subseteq 1 .. spawned',
           events' = events \/ events' = <<>> \/ (events # <<>> /\ events' = Tail(events)),
           NEW aborted,
           \A t \in 1 .. spawned : task'[t].pc = task[t].pc \/ t \in aborted,
           \A t \in aborted : /\ task'[t].pc \in {"aborted", "done"}
                              /\ task[t].pc = "done" => task'[t].pc = "done"
                              /\ t \in game => t \notin shown' /\ task'[t].pc = "aborted",
           \A h \in Handle, a \in 1 .. spawned :
              IsBusy(h) /\ IsBusy(h)' /\ activity[h].task = a /\ activity'[h].task = a =>
                 /\ a \notin aborted
                 /\ ClosingSent(a) => ClosingSent(a)' \/ Mistaken(h)'
    PROVE  Work'
<1>1. /\ Typed /\ Entries /\ Workers /\ Games /\ Mail /\ Endings /\ Named
      /\ spawned \in Nat
  BY DEF WorkInv, KnownInv, Work, Typed, TypeOK
<1>2. Entries' /\ Workers' /\ Mail'
  BY <1>1, EntriesFrame, WorkersFrame, MailFrame
<1>3. Games'
  BY <1>1, GamesFrame
<1>4. \A h \in Handle, a \in 1 .. spawned :
        IsBusy(h) /\ IsBusy(h)' /\ activity[h].task = a /\ activity'[h].task = a =>
           /\ Live(a) => Live(a)' \/ ClosingSent(a)'
           /\ ClosingSent(a) => ClosingSent(a)' \/ Mistaken(h)'
  BY DEF Live, At
<1>5. Endings'
  BY <1>1, <1>4, EndingsFrame
<1>6. Named'
  BY <1>1 DEF Named, TasksKept
<1> QED
  BY <1>2, <1>3, <1>5, <1>6 DEF Work

\* A step of the loop that touches no task and no entry, nor loses a report.
LEMMA QuietWork ==
    ASSUME WorkInv, Typed', UNCHANGED <<activity, spawned, task, killed, game, misled, shown>>,
           events' = events \/ (events # <<>> /\ events' = Tail(events)),
           \A t \in TaskId : ClosingSent(t) => ClosingSent(t)'
    PROVE  Work'
<1>1. spawned \in Nat /\ Named /\ 1 .. spawned \subseteq TaskId
  BY DEF WorkInv, KnownInv, Work, Typed, TypeOK
<1>2. TasksKept /\ NewTasks
  BY <1>1 DEF TasksKept, NewTasks, At
<1>3. EntrySteps
  BY DEF EntrySteps, EntryStays, IsBusy
<1> QED
  BY <1>1, <1>2, <1>3, LoopFrame DEF Named

\* What spawning a task adds.
LEMMA SpawnFields ==
    ASSUME Typed, NEW job, NEW h, NEW pc, NEW sync, NEW offered,
           Spawn(job, h, pc, sync, offered)
    PROVE  /\ TasksKept /\ spawned' = spawned + 1 /\ spawned' \in TaskId
           /\ spawned' \notin 1 .. spawned
           /\ \A t \in 1 .. spawned' : t \in 1 .. spawned \/ t = spawned'
           /\ task'[spawned'].job = job /\ task'[spawned'].handle = h
           /\ task'[spawned'].pc = pc
           /\ \A t \in 1 .. spawned : task'[t] = task[t] /\ t \in TaskId
<1>1. /\ spawned \in Nat /\ spawned < MaxTask /\ spawned' = spawned + 1
      /\ spawned + 1 \in TaskId /\ 1 .. spawned \subseteq TaskId
  BY DEF Typed, TypeOK, Spawn
<1>2. task'[spawned + 1] = [job |-> job, handle |-> h, pc |-> pc, sync |-> sync,
                            offered |-> offered, reports |-> 0]
  BY <1>1 DEF Spawn, Typed, TypeOK
<1>3. \A t \in 1 .. spawned : task'[t] = task[t]
  BY <1>1 DEF Spawn, Typed, TypeOK
<1>4. TasksKept
  BY <1>1, <1>3 DEF TasksKept, At
<1> QED
  BY <1>1, <1>2, <1>3, <1>4

\* Starting an installation, a creation or a launch on an idle instance.
LEMMA SpawnEntryWork ==
    ASSUME WorkInv, Typed', NEW h \in Handle, ~IsBusy(h), NEW job, NEW kind,
           NEW pc \in {"auth", "work"}, NEW sync, NEW offered,
           Spawn(job, h, pc, sync, offered),
           activity' = [activity EXCEPT ![h] = NewActivity(kind, spawned + 1)],
           \/ kind = "LaunchPrep" /\ job = "launch"
           \/ kind = "Install" /\ job \in {"install", "create"},
           UNCHANGED <<killed, game, misled, shown, events>>
    PROVE  Work'
<1>1. Typed /\ Named /\ spawned \in Nat
  BY DEF WorkInv, KnownInv, Work, Typed, TypeOK
<1>2. /\ TasksKept /\ spawned' = spawned + 1 /\ spawned' \in TaskId
      /\ spawned' \notin 1 .. spawned
      /\ \A t \in 1 .. spawned' : t \in 1 .. spawned \/ t = spawned'
      /\ task'[spawned'].job = job /\ task'[spawned'].handle = h
      /\ task'[spawned'].pc = pc
      /\ \A t \in 1 .. spawned : task'[t] = task[t] /\ t \in TaskId
  BY <1>1, SpawnFields
<1>3. /\ activity'[h].task = spawned' /\ activity'[h].kind = kind
      /\ activity'[h].kill = (kind = "LaunchPrep")
      /\ \A g \in Handle : g # h => activity'[g] = activity[g]
  BY <1>1, <1>2 DEF NewActivity, Typed, TypeOK
<1>4. EntryIsNew(h)
  BY <1>2, <1>3 DEF EntryIsNew
<1>5. NewTasks
  BY <1>2, <1>4 DEF NewTasks
<1>6. EntrySteps
  <2>1. EntryLeaves(h)
    BY DEF EntryLeaves
  <2>2. ASSUME NEW g \in Handle, g # h PROVE EntryStays(g)
    BY <1>2, <1>3, <2>2 DEF EntryStays, IsBusy
  <2> QED
    BY <1>4, <2>1, <2>2 DEF EntrySteps
<1>7. \A t \in TaskId : ClosingSent(t) => ClosingSent(t)'
  BY DEF ClosingSent, Ends, InstallEnds
<1>8. /\ \A t \in 1 .. spawned : task'[t].pc = task[t].pc \/ t \in {}
      /\ \A t \in {} : /\ task'[t].pc \in {"aborted", "done"}
                       /\ task[t].pc = "done" => task'[t].pc = "done"
                       /\ t \in game => t \notin shown' /\ task'[t].pc = "aborted"
      /\ \A g \in Handle, t \in 1 .. spawned :
            IsBusy(g) /\ IsBusy(g)' /\ activity[g].task = t /\ activity'[g].task = t =>
               /\ t \notin {}
               /\ ClosingSent(t) => ClosingSent(t)' \/ Mistaken(g)'
  BY <1>2, <1>7
<1>9. misled' \subseteq 1 .. spawned'
  BY <1>1, <1>2 DEF Named
<1> QED
  BY <1>2, <1>5, <1>6, <1>8, <1>9, LoopFrame

\* The standalone Java resolve.
LEMMA ProbeWork ==
    ASSUME WorkInv, Typed', NEW h \in Handle, ResolveJavaPath(h)
    PROVE  Work'
<1>1. Typed /\ Named /\ spawned \in Nat
  BY DEF WorkInv, KnownInv, Work, Typed, TypeOK
<1>2. /\ Spawn("probe", h, "work", FALSE, FALSE)
      /\ UNCHANGED <<activity, killed, game, misled, shown, events>>
  BY DEF ResolveJavaPath
<1>3. /\ TasksKept /\ spawned' = spawned + 1 /\ spawned' \in TaskId
      /\ spawned' \notin 1 .. spawned
      /\ \A t \in 1 .. spawned' : t \in 1 .. spawned \/ t = spawned'
      /\ task'[spawned'].job = "probe"
      /\ task'[spawned'].pc = "work"
      /\ \A t \in 1 .. spawned : task'[t] = task[t] /\ t \in TaskId
  BY <1>1, <1>2, SpawnFields
<1>4. NewTasks
  BY <1>3 DEF NewTasks
<1>5. EntrySteps
  BY <1>2, <1>3 DEF EntrySteps, EntryStays, IsBusy
<1>6. \A t \in TaskId : ClosingSent(t) => ClosingSent(t)'
  BY <1>2 DEF ClosingSent, Ends, InstallEnds
<1>7. /\ \A t \in 1 .. spawned : task'[t].pc = task[t].pc \/ t \in {}
      /\ \A t \in {} : /\ task'[t].pc \in {"aborted", "done"}
                       /\ task[t].pc = "done" => task'[t].pc = "done"
                       /\ t \in game => t \notin shown' /\ task'[t].pc = "aborted"
      /\ \A g \in Handle, t \in 1 .. spawned :
            IsBusy(g) /\ IsBusy(g)' /\ activity[g].task = t /\ activity'[g].task = t =>
               /\ t \notin {}
               /\ ClosingSent(t) => ClosingSent(t)' \/ Mistaken(g)'
  BY <1>3, <1>6
<1>8. misled' \subseteq 1 .. spawned'
  BY <1>1, <1>2, <1>3 DEF Named
<1> QED
  BY <1>2, <1>3, <1>4, <1>5, <1>7, <1>8, LoopFrame

\* Aborting an installation or a launch that is not shown as running.
LEMMA AbortWork ==
    ASSUME WorkInv, Typed', NEW h \in Handle, IsBusy(h), activity[h].kind # "Running",
           AbortActivity(h), UNCHANGED <<misled, shown, events>>
    PROVE  Work'
<1>1. /\ Typed /\ Named /\ spawned \in Nat /\ Entries /\ Games
      /\ 1 .. spawned \subseteq TaskId
  BY DEF WorkInv, KnownInv, Work, Typed, TypeOK
<1>2. PICK a \in 1 .. spawned : activity[h].task = a
  BY <1>1, EntryNames
<1>3. /\ activity' = [activity EXCEPT ![h] = IdleActivity]
      /\ task'[a].pc = IF task[a].pc = "done" THEN "done" ELSE "aborted"
      /\ task'[a].job = task[a].job /\ task'[a].handle = task[a].handle
      /\ \A u \in TaskId : u # a => task'[u] = task[u]
      /\ UNCHANGED <<spawned, game>> /\ killed \subseteq killed'
      /\ activity[h].kill => a \in killed'
  BY <1>1, <1>2, AbortFields
<1>4. TasksKept
  BY <1>1, <1>3 DEF TasksKept, At, Started, Ended
<1>5. /\ ~IsBusy(h)'
      /\ \A g \in Handle : g # h => activity'[g] = activity[g]
  BY <1>1, <1>3 DEF IsBusy, IdleActivity, Typed, TypeOK
<1>6. ASSUME NEW g \in Handle, g # h, IsBusy(g) PROVE activity[g].task # a
  BY <1>1, <1>2, <1>6 DEF Entries, EntryOk
<1>7. EntrySteps
  <2>1. EntryLeaves(h)
    BY <1>2, <1>3 DEF EntryLeaves, Ended
  <2>2. ASSUME NEW g \in Handle, g # h PROVE EntryStays(g)
    BY <1>1, <1>3, <1>5, <1>6, <2>2 DEF EntryStays, IsBusy
  <2> QED
    BY <1>5, <2>1, <2>2 DEF EntrySteps
<1>8. NewTasks
  BY <1>3 DEF NewTasks
<1>9. a \in game => a \notin shown /\ task'[a].pc = "aborted"
  <2>1. task[a].handle = h /\ GameOk(a)
    BY <1>1, <1>2 DEF Entries, EntryOk, Games
  <2> QED
    BY <1>2, <1>3, <2>1 DEF GameOk, At
<1>10. \A t \in TaskId : ClosingSent(t) => ClosingSent(t)'
  BY DEF ClosingSent, Ends, InstallEnds
<1> DEFINE aborted == {a}
<1>11. /\ \A t \in 1 .. spawned : task'[t].pc = task[t].pc \/ t \in aborted
       /\ \A t \in aborted : /\ task'[t].pc \in {"aborted", "done"}
                             /\ task[t].pc = "done" => task'[t].pc = "done"
                             /\ t \in game => t \notin shown' /\ task'[t].pc = "aborted"
       /\ \A g \in Handle, t \in 1 .. spawned :
             IsBusy(g) /\ IsBusy(g)' /\ activity[g].task = t /\ activity'[g].task = t =>
                /\ t \notin aborted
                /\ ClosingSent(t) => ClosingSent(t)' \/ Mistaken(g)'
  BY <1>1, <1>3, <1>5, <1>6, <1>9, <1>10
<1> HIDE DEF aborted
<1>12. misled' \subseteq 1 .. spawned'
  BY <1>1, <1>3 DEF Named
<1> QED
  BY <1>3, <1>4, <1>7, <1>8, <1>11, <1>12, LoopFrame

\* KillInstance on a running game takes the sender and readies the channel.
LEMMA KillRunningWork ==
    ASSUME WorkInv, Typed', NEW h \in Handle, activity[h].kind = "Running", activity[h].kill,
           activity' = [activity EXCEPT ![h].kill = FALSE],
           killed' = killed \cup {activity[h].task},
           UNCHANGED <<spawned, task, game, misled, shown, events>>
    PROVE  Work'
<1>1. Typed /\ Named /\ spawned \in Nat
  BY DEF WorkInv, KnownInv, Work, Typed, TypeOK
<1>2. activity[h] \in [kind : Kind, task : TaskId, kill : BOOLEAN, shows : 0 .. MaxTask]
  BY <1>1, EntryType DEF IsBusy, Typed
<1>3. activity'[h] = [activity[h] EXCEPT !.kill = FALSE]
  BY <1>1 DEF Typed, TypeOK
<1>4. /\ activity'[h].kind = "Running" /\ activity'[h].task = activity[h].task
      /\ \A g \in Handle : g # h => activity'[g] = activity[g]
  BY <1>1, <1>2, <1>3 DEF Typed, TypeOK
<1>5. TasksKept /\ NewTasks
  BY <1>1 DEF TasksKept, NewTasks, At
<1>6. EntrySteps
  BY <1>4 DEF EntrySteps, EntryStays, IsBusy
<1>7. \A t \in TaskId : ClosingSent(t) => ClosingSent(t)'
  BY DEF ClosingSent, Ends, InstallEnds
<1>8. /\ \A t \in 1 .. spawned : task'[t].pc = task[t].pc \/ t \in {}
      /\ \A t \in {} : /\ task'[t].pc \in {"aborted", "done"}
                       /\ task[t].pc = "done" => task'[t].pc = "done"
                       /\ t \in game => t \notin shown' /\ task'[t].pc = "aborted"
      /\ \A g \in Handle, t \in 1 .. spawned :
            IsBusy(g) /\ IsBusy(g)' /\ activity[g].task = t /\ activity'[g].task = t =>
               /\ t \notin {}
               /\ ClosingSent(t) => ClosingSent(t)' \/ Mistaken(g)'
  BY <1>7 DEF Typed, TypeOK, ClosingSent, Ends, InstallEnds
<1>9. misled' \subseteq 1 .. spawned' /\ killed \subseteq killed'
  BY <1>1 DEF Named
<1> QED
  BY <1>5, <1>6, <1>8, <1>9, LoopFrame

\* The new process of DeleteAllLauncherData has no entry, no event and no task.
LEMMA DeleteAllWork ==
    ASSUME WorkInv, Typed', DeleteAllLauncherData
    PROVE  Work'
<1>1. Typed /\ Named /\ spawned \in Nat /\ 1 .. spawned \subseteq TaskId
  BY DEF WorkInv, KnownInv, Work, Typed, TypeOK
<1>2. CASE UNCHANGED <<activity, runs, misled, shown, events>>
  <2>1. \A t \in TaskId : ClosingSent(t) => ClosingSent(t)'
    BY <1>2 DEF ClosingSent, Ends, InstallEnds
  <2> QED
    BY <1>2, <2>1, QuietWork DEF runs
<1>3. CASE /\ events' = <<>> /\ shown' = {}
           /\ task' = [t \in TaskId |-> IF task[t].pc \in {"unborn", "done"} THEN task[t]
                                        ELSE [task[t] EXCEPT !.pc = "aborted"]]
           /\ UNCHANGED <<activity, spawned, killed, game, misled>>
  <2> DEFINE aborted == {t \in 1 .. spawned : task[t].pc \notin {"unborn", "done"}}
  <2>1. ASSUME NEW t \in 1 .. spawned
        PROVE  /\ task'[t].job = task[t].job /\ task'[t].handle = task[t].handle
               /\ task'[t].pc = IF t \in aborted THEN "aborted" ELSE task[t].pc
    <3>1. t \in TaskId /\ task[t] \in Task
      BY <1>1 DEF Typed, TypeOK
    <3>2. CASE t \in aborted
      <4>1. task'[t] = [task[t] EXCEPT !.pc = "aborted"]
        BY <1>3, <3>1, <3>2
      <4> QED
        BY <3>1, <3>2, <4>1 DEF Task
    <3>3. CASE t \notin aborted
      BY <1>3, <3>1, <3>3
    <3> QED
      BY <3>2, <3>3
  <2>2. TasksKept /\ NewTasks
    BY <1>1, <1>3, <2>1 DEF TasksKept, NewTasks, At, Started, Ended
  <2>3. \A g \in Handle : ~IsBusy(g) /\ ~IsBusy(g)'
    BY <1>3 DEF DeleteAllLauncherData, IsBusy
  <2>4. EntrySteps
    BY <2>3 DEF EntrySteps, EntryLeaves
  <2>5. /\ \A t \in 1 .. spawned : task'[t].pc = task[t].pc \/ t \in aborted
        /\ \A t \in aborted : /\ task'[t].pc \in {"aborted", "done"}
                              /\ task[t].pc = "done" => task'[t].pc = "done"
                              /\ t \in game => t \notin shown' /\ task'[t].pc = "aborted"
        /\ \A g \in Handle, t \in 1 .. spawned :
              IsBusy(g) /\ IsBusy(g)' /\ activity[g].task = t /\ activity'[g].task = t =>
                 /\ t \notin aborted
                 /\ ClosingSent(t) => ClosingSent(t)' \/ Mistaken(g)'
    BY <1>3, <2>1, <2>3
  <2>6. misled' \subseteq 1 .. spawned'
    BY <1>1, <1>3 DEF Named
  <2> HIDE DEF aborted
  <2> QED
    BY <1>3, <2>2, <2>4, <2>5, <2>6, LoopFrame
<1> QED
  BY <1>2, <1>3 DEF DeleteAllLauncherData

\* The events that change no entry.
LEMMA OtherEventsWork ==
    ASSUME WorkInv, Typed', HandleAuthLaunchPrompt \/ HandleJavaResolved
    PROVE  Work'
<1>1. PICK type \in {"AuthLaunchPrompt", "JavaResolved"} : Receive(type)
  BY DEF HandleAuthLaunchPrompt, HandleJavaResolved
<1>2. UNCHANGED <<activity, spawned, task, killed, game, misled, shown>>
  BY DEF HandleAuthLaunchPrompt, HandleJavaResolved, runs
<1>3. Typed /\ Mail
  BY DEF WorkInv, KnownInv, Work
<1>4. /\ event.type = type /\ events # <<>> /\ events' = Tail(events)
      /\ \A t \in TaskId : ClosingSent(t) /\ ~Ends(event) => ClosingSent(t)'
  BY <1>1, <1>3, ReceiveFrame
<1>5. ~Ends(event)
  BY <1>4 DEF Ends, InstallEnds
<1> QED
  BY <1>2, <1>4, <1>5, QuietWork

\* InstanceTasks changes what an entry shows and nothing else.
LEMMA InstanceTasksWork ==
    ASSUME WorkInv, Typed', HandleInstanceTasks
    PROVE  Work'
<1>1. Typed /\ Mail /\ Named /\ spawned \in Nat
  BY DEF WorkInv, KnownInv, Work, Typed, TypeOK
<1>2. UNCHANGED <<spawned, task, killed, game, misled, shown>> /\ Receive("InstanceTasks")
  BY DEF HandleInstanceTasks, runs
<1>3. \A g \in Handle : /\ activity'[g].kill = activity[g].kill
                        /\ activity'[g].task = activity[g].task
                        /\ activity'[g].kind = activity[g].kind
  <2>1. CASE activity' = activity
    BY <2>1
  <2>2. CASE /\ IsBusy(event.handle)
             /\ activity' = [activity EXCEPT ![event.handle].shows = event.task]
    <3>1. PICK h \in Handle : h = event.handle
      BY <1>1, <1>2, ReceiveType DEF Typed, Event
    <3>2. activity[h] \in [kind : Kind, task : TaskId, kill : BOOLEAN, shows : 0 .. MaxTask]
      BY <1>1, <2>2, <3>1, EntryType DEF Typed
    <3>3. activity'[h] = [activity[h] EXCEPT !.shows = event.task]
      BY <1>1, <2>2, <3>1 DEF Typed, TypeOK
    <3> QED
      BY <1>1, <2>2, <3>1, <3>2, <3>3 DEF Typed, TypeOK
  <2> QED
    BY <2>1, <2>2 DEF HandleInstanceTasks
<1>4. /\ event.type = "InstanceTasks" /\ events # <<>> /\ events' = Tail(events)
      /\ \A t \in TaskId : ClosingSent(t) /\ ~Ends(event) => ClosingSent(t)'
  BY <1>1, <1>2, ReceiveFrame
<1>5. ~Ends(event)
  BY <1>4 DEF Ends, InstallEnds
<1>6. TasksKept /\ NewTasks
  BY <1>1, <1>2 DEF TasksKept, NewTasks, At
<1>7. EntrySteps
  BY <1>2, <1>3 DEF EntrySteps, EntryStays, IsBusy
<1>8. /\ \A t \in 1 .. spawned : task'[t].pc = task[t].pc \/ t \in {}
      /\ \A t \in {} : /\ task'[t].pc \in {"aborted", "done"}
                       /\ task[t].pc = "done" => task'[t].pc = "done"
                       /\ t \in game => t \notin shown' /\ task'[t].pc = "aborted"
      /\ \A g \in Handle, t \in 1 .. spawned :
            IsBusy(g) /\ IsBusy(g)' /\ activity[g].task = t /\ activity'[g].task = t =>
               /\ t \notin {}
               /\ ClosingSent(t) => ClosingSent(t)' \/ Mistaken(g)'
  <2>1. 1 .. spawned \subseteq TaskId
    BY <1>1 DEF Typed, TypeOK
  <2> QED
    BY <1>2, <1>4, <1>5, <2>1
<1>9. misled' \subseteq 1 .. spawned'
  BY <1>1, <1>2 DEF Named
<1> QED
  BY <1>2, <1>4, <1>6, <1>7, <1>8, <1>9, LoopFrame

\* LaunchFinished removes the entry of its instance, whichever task it names.
LEMMA LaunchFinishedWork ==
    ASSUME WorkInv, Typed', HandleLaunchFinished
    PROVE  Work'
<1>1. /\ Typed /\ Mail /\ Named /\ Entries /\ spawned \in Nat
      /\ 1 .. spawned \subseteq TaskId
  BY DEF WorkInv, KnownInv, Work, Typed, TypeOK
<1>2. Receive("LaunchFinished")
  BY DEF HandleLaunchFinished
<1>3. PICK h \in Handle : h = event.handle
  BY <1>1, <1>2, ReceiveType DEF Typed, Event
<1>4. /\ event.type = "LaunchFinished" /\ events # <<>> /\ events' = Tail(events)
      /\ MailOk(event, task, spawned)
      /\ \A t \in TaskId : ClosingSent(t) /\ event.task # t => ClosingSent(t)'
  BY <1>1, <1>2, ReceiveFrame
<1>5. PICK u \in 1 .. spawned :
         event.task = u /\ task[u].handle = h /\ task[u].pc = "done"
  BY <1>3, <1>4 DEF MailOk, Ends
<1>6. /\ UNCHANGED <<spawned, task, game, shown>> /\ killed' = killed \cup KillsOf(h)
      /\ activity' = [activity EXCEPT ![h] = IdleActivity]
      /\ misled' = misled \cup Misled(h)
  BY <1>3 DEF HandleLaunchFinished, Without
<1>7. /\ ~IsBusy(h)'
      /\ \A g \in Handle : g # h => activity'[g] = activity[g]
  BY <1>1, <1>6 DEF IsBusy, IdleActivity, Typed, TypeOK
<1>8. TasksKept /\ NewTasks
  BY <1>1, <1>6 DEF TasksKept, NewTasks, At
<1>9. EntrySteps
  <2>1. EntryLeaves(h)
    BY <1>5, <1>6 DEF EntryLeaves, Misled, KillsOf, Ended
  <2>2. ASSUME NEW g \in Handle, g # h PROVE EntryStays(g)
    BY <1>6, <1>7, <2>2 DEF EntryStays, IsBusy
  <2> QED
    BY <1>7, <2>1, <2>2 DEF EntrySteps
<1>10. misled' \subseteq 1 .. spawned'
  BY <1>1, <1>6, EntryNames DEF Named, Misled
<1>11. ASSUME NEW g \in Handle, NEW t \in 1 .. spawned,
              IsBusy(g), IsBusy(g)', activity[g].task = t, ClosingSent(t)
       PROVE  ClosingSent(t)'
  <2>1. g # h /\ task[t].handle = g
    BY <1>1, <1>7, <1>11 DEF Entries, EntryOk
  <2> QED
    BY <1>1, <1>4, <1>5, <1>11, <2>1
<1>12. /\ \A t \in 1 .. spawned : task'[t].pc = task[t].pc \/ t \in {}
       /\ \A t \in {} : /\ task'[t].pc \in {"aborted", "done"}
                        /\ task[t].pc = "done" => task'[t].pc = "done"
                        /\ t \in game => t \notin shown' /\ task'[t].pc = "aborted"
       /\ \A g \in Handle, t \in 1 .. spawned :
             IsBusy(g) /\ IsBusy(g)' /\ activity[g].task = t /\ activity'[g].task = t =>
                /\ t \notin {}
                /\ ClosingSent(t) => ClosingSent(t)' \/ Mistaken(g)'
  BY <1>6, <1>11
<1> QED
  BY <1>4, <1>6, <1>8, <1>9, <1>10, <1>12, LoopFrame

\* LaunchStarted shows the entry of its instance as running: its own entry, or
\* that of a task it thereby misleads.
LEMMA LaunchStartedWork ==
    ASSUME WorkInv, Typed', HandleLaunchStarted
    PROVE  Work'
<1>1. /\ Typed /\ Mail /\ Named /\ Entries /\ Workers /\ Games /\ Endings /\ spawned \in Nat
      /\ 1 .. spawned \subseteq TaskId
  BY DEF WorkInv, KnownInv, Work, Typed, TypeOK
<1>2. Receive("LaunchStarted") /\ UNCHANGED <<spawned, task, killed, game>>
  BY DEF HandleLaunchStarted, runs
<1>3. PICK h \in Handle : h = event.handle
  BY <1>1, <1>2, ReceiveType DEF Typed, Event
<1>4. /\ event.type = "LaunchStarted" /\ events # <<>> /\ events' = Tail(events)
      /\ MailOk(event, task, spawned)
      /\ \A t \in TaskId : ClosingSent(t) /\ ~Ends(event) => ClosingSent(t)'
  BY <1>1, <1>2, ReceiveFrame
<1>5. PICK u \in 1 .. spawned : /\ event.task = u /\ task[u].handle = h
                                /\ task[u].job = "launch" /\ task[u].pc \in Started
  BY <1>3, <1>4 DEF MailOk
<1>6. ~Ends(event)
  BY <1>4 DEF Ends, InstallEnds
<1>7. /\ \A g \in Handle : g # h => activity'[g] = activity[g]
      /\ activity'[h].kill = activity[h].kill /\ activity'[h].task = activity[h].task
      /\ IsBusy(h) => activity'[h].kind = "Running"
      /\ ~IsBusy(h) => activity'[h].kind = activity[h].kind
  <2>1. CASE ~IsBusy(h)
    BY <1>3, <2>1 DEF HandleLaunchStarted
  <2>2. CASE IsBusy(h)
    <3>1. activity' = [activity EXCEPT ![h].kind = "Running", ![h].shows = 0]
      BY <1>3, <2>2 DEF HandleLaunchStarted
    <3>2. activity[h] \in [kind : Kind, task : TaskId, kill : BOOLEAN, shows : 0 .. MaxTask]
      BY <1>1, <2>2, EntryType DEF Typed
    <3> DEFINE running == [activity[h] EXCEPT !.kind = "Running"]
    <3>3. /\ activity'[h] = [running EXCEPT !.shows = 0]
          /\ \A g \in Handle : g # h => activity'[g] = activity[g]
      BY <1>1, <3>1 DEF Typed, TypeOK
    <3>4. /\ running \in [kind : Kind, task : TaskId, kill : BOOLEAN, shows : 0 .. MaxTask]
          /\ running.task = activity[h].task /\ running.kill = activity[h].kill
          /\ running.kind = "Running"
      BY <3>2 DEF Kind
    <3> HIDE DEF running
    <3> QED
      BY <2>2, <3>3, <3>4
  <2> QED
    BY <2>1, <2>2
<1>8. misled' = misled \cup Misled(h)
  BY <1>3 DEF HandleLaunchStarted
<1>9. TasksKept /\ NewTasks
  BY <1>1, <1>2 DEF TasksKept, NewTasks, At
<1>10. EntrySteps
  <2>1. ASSUME NEW g \in Handle PROVE EntryStays(g)
    <3>1. CASE g # h
      BY <1>2, <1>7, <3>1 DEF EntryStays, IsBusy
    <3>2. CASE g = h
      <4>1. ASSUME NEW a \in 1 .. spawned, IsBusy(h), activity[h].task = a, ~Is(a, {"launch"})
            PROVE  a \in misled'
        <5>1. a # u
          BY <1>5, <4>1 DEF Is
        <5> QED
          BY <1>5, <1>8, <4>1, <5>1 DEF Misled
      <4> QED
        BY <1>2, <1>7, <3>2, <4>1 DEF EntryStays, IsBusy
    <3> QED
      BY <3>1, <3>2
  <2> QED
    BY <2>1 DEF EntrySteps
<1>11. misled \subseteq misled' /\ misled' \subseteq 1 .. spawned'
  BY <1>1, <1>2, <1>8, EntryNames DEF Named, Misled
<1>12. Entries' /\ Workers' /\ Mail'
  BY <1>1, <1>2, <1>4, <1>9, <1>10, <1>11, EntriesFrame, WorkersFrame, MailFrame
<1>13. Games'
  <2> SUFFICES ASSUME NEW t \in TaskId PROVE GameOk(t)'
    BY DEF Games
  <2>1. GameOk(t)
    BY <1>1 DEF Games
  <2>2. CASE t \in shown \/ t \notin shown'
    <3>1. t \in shown' => t \in shown /\ task[t].handle \in Handle
      BY <1>1, <2>2 DEF Named, Typed, TypeOK, Task
    <3>2. t \in shown' => /\ activity'[task[t].handle].task = activity[task[t].handle].task
                          /\ activity'[task[t].handle].kind
                                \in {activity[task[t].handle].kind, "Running"}
      BY <1>7, <3>1
    <3> QED
      BY <1>2, <2>1, <3>1, <3>2 DEF GameOk, At, Is
  <2>3. CASE t \notin shown /\ t \in shown'
    <3>1. t = u /\ activity[h].task = u
      BY <1>3, <1>5, <2>3 DEF HandleLaunchStarted
    <3>2. IsBusy(h) /\ ~At(u, {"aborted"})
      BY <1>1, <1>5, <3>1, EntryNames DEF Entries, EntryOk
    <3>3. activity'[h].task = u /\ activity'[h].kind = "Running"
      BY <1>7, <3>1, <3>2
    <3> QED
      BY <1>2, <1>5, <2>1, <3>1, <3>2, <3>3 DEF GameOk, At, Is
  <2> QED
    BY <2>2, <2>3
<1>14. Endings'
  <2>1. \A g \in Handle, a \in 1 .. spawned :
          IsBusy(g) /\ IsBusy(g)' /\ activity[g].task = a /\ activity'[g].task = a =>
             /\ Live(a) => Live(a)' \/ ClosingSent(a)'
             /\ ClosingSent(a) => ClosingSent(a)' \/ Mistaken(g)'
    BY <1>1, <1>2, <1>4, <1>6 DEF Live, At
  <2> QED
    BY <1>1, <1>9, <1>10, <2>1, EndingsFrame
<1>15. Named'
  <2>1. shown' \subseteq shown \cup {u}
    BY <1>5 DEF HandleLaunchStarted
  <2> QED
    BY <1>1, <1>2, <1>11, <2>1 DEF Named
<1> QED
  BY <1>12, <1>13, <1>14, <1>15 DEF Work

\* InstallFinished removes the entry of an installation, whichever task it
\* names, and may start a launch in its place.
LEMMA InstallFinishedWork ==
    ASSUME WorkInv, Typed', HandleInstallFinished
    PROVE  Work'
<1>1. /\ Typed /\ Mail /\ Named /\ Entries /\ InstallHoldsNoKill /\ spawned \in Nat
      /\ 1 .. spawned \subseteq TaskId
  BY DEF WorkInv, KnownInv, StopInv, Work, Typed, TypeOK
<1>2. Receive("InstallFinished") /\ UNCHANGED <<killed, game, shown>>
  BY DEF HandleInstallFinished
<1>3. PICK h \in Handle : h = event.handle
  BY <1>1, <1>2, ReceiveType DEF Typed, Event
<1>4. /\ event.type = "InstallFinished" /\ events # <<>> /\ events' = Tail(events)
      /\ MailOk(event, task, spawned)
      /\ \A t \in TaskId : ClosingSent(t) /\ (event.task # t \/ ~Ends(event)) => ClosingSent(t)'
  BY <1>1, <1>2, ReceiveFrame
<1> DEFINE after == AfterInstall(h, event.isRun)
           removed == ~event.isRun /\ activity[h].kind = "Install"
<1>5. /\ after \in [Handle -> Activity]
      /\ removed => after[h] = IdleActivity
      /\ ~removed => after = activity
      /\ \A g \in Handle : g # h => after[g] = activity[g]
  BY <1>1 DEF AfterInstall, Without, Typed, TypeOK, Activity
<1>6. misled' = IF after = activity THEN misled ELSE misled \cup Misled(h)
  BY <1>3 DEF HandleInstallFinished
<1>7. removed => IsBusy(h) /\ misled' = misled \cup Misled(h)
  <2> SUFFICES ASSUME removed PROVE IsBusy(h) /\ misled' = misled \cup Misled(h)
    OBVIOUS
  <2>1. IsBusy(h) /\ after # activity
    BY <1>5 DEF IsBusy, IdleActivity
  <2> QED
    BY <1>6, <2>1
<1>8. misled \subseteq misled' /\ misled' \subseteq 1 .. spawned
  BY <1>1, <1>6, EntryNames DEF Named, Misled
<1>9. ~event.isRun => \E u \in 1 .. spawned : /\ event.task = u /\ task[u].handle = h
                                              /\ task[u].pc = "done" /\ task[u].job # "launch"
  BY <1>3, <1>4 DEF MailOk, Ends, InstallEnds
<1>10. \/ activity' = after /\ UNCHANGED <<spawned, task>>
       \/ /\ after[h].kind = "Idle" /\ SpawnLaunch(h, FALSE)
          /\ activity' = [after EXCEPT ![h] = NewActivity("LaunchPrep", spawned + 1)]
  BY <1>3 DEF HandleInstallFinished
<1>11. TasksKept /\ \A t \in 1 .. spawned : task'[t] = task[t]
  <2>1. CASE UNCHANGED <<spawned, task>>
    BY <1>1, <2>1 DEF TasksKept, At
  <2>2. CASE SpawnLaunch(h, FALSE)
    <3>1. Spawn("launch", h, "auth", FALSE, FALSE)
      BY <2>2 DEF SpawnLaunch
    <3> QED
      BY <1>1, <3>1, SpawnFields
  <2> QED
    BY <1>10, <2>1, <2>2
<1>12. removed => EntryLeaves(h)
  <2> SUFFICES ASSUME removed, NEW a \in 1 .. spawned, activity[h].task = a
               PROVE  (task'[a].pc \in Ended \/ a \in misled') /\ ~activity[h].kill
    BY DEF EntryLeaves
  <2>1. ~activity[h].kill
    BY <1>1 DEF InstallHoldsNoKill
  <2>2. PICK u \in 1 .. spawned : event.task = u /\ task[u].pc = "done"
    BY <1>9
  <2>3. CASE a = u
    BY <1>11, <2>1, <2>2, <2>3 DEF Ended
  <2>4. CASE a # u
    BY <1>7, <2>1, <2>2, <2>4 DEF Misled
  <2> QED
    BY <2>3, <2>4
<1>13. ASSUME NEW g \in Handle, activity'[g] = activity[g] PROVE EntryStays(g)
  BY <1>2, <1>11, <1>13 DEF EntryStays, IsBusy
<1>14. EntrySteps /\ NewTasks
  <2>1. CASE activity' = after /\ UNCHANGED <<spawned, task>>
    <3>1. ASSUME NEW g \in Handle
          PROVE  EntryStays(g) \/ (EntryLeaves(g) /\ ~IsBusy(g)')
      <4>1. CASE g = h /\ removed
        <5>1. activity'[h] = IdleActivity
          BY <1>5, <2>1, <4>1
        <5> QED
          BY <1>12, <4>1, <5>1 DEF IsBusy, IdleActivity
      <4>2. CASE g # h \/ ~removed
        BY <1>5, <1>13, <2>1, <4>2
      <4> QED
        BY <4>1, <4>2
    <3>2. EntrySteps
      BY <3>1 DEF EntrySteps
    <3>3. NewTasks
      BY <2>1 DEF NewTasks
    <3> QED
      BY <3>2, <3>3
  <2>2. CASE /\ after[h].kind = "Idle" /\ SpawnLaunch(h, FALSE)
             /\ activity' = [after EXCEPT ![h] = NewActivity("LaunchPrep", spawned + 1)]
    <3>1. Spawn("launch", h, "auth", FALSE, FALSE)
      BY <2>2 DEF SpawnLaunch
    <3>2. /\ spawned' = spawned + 1
          /\ \A t \in 1 .. spawned' : t \in 1 .. spawned \/ t = spawned'
          /\ task'[spawned'].job = "launch" /\ task'[spawned'].handle = h
          /\ task'[spawned'].pc = "auth"
      BY <1>1, <3>1, SpawnFields
    <3>3. /\ activity'[h].task = spawned' /\ activity'[h].kind = "LaunchPrep"
          /\ activity'[h].kill
          /\ \A g \in Handle : g # h => activity'[g] = activity[g]
      BY <1>5, <2>2, <3>2 DEF NewActivity
    <3>4. EntryIsNew(h)
      BY <3>2, <3>3 DEF EntryIsNew
    <3>5. EntryLeaves(h)
      <4>1. CASE removed
        BY <1>12, <4>1
      <4>2. CASE ~removed
        BY <1>5, <2>2, <4>2 DEF EntryLeaves, IsBusy
      <4> QED
        BY <4>1, <4>2
    <3>6. EntrySteps
      BY <1>13, <3>3, <3>4, <3>5 DEF EntrySteps
    <3>7. NewTasks
      BY <3>2, <3>4 DEF NewTasks
    <3> QED
      BY <3>6, <3>7
  <2> QED
    BY <1>10, <2>1, <2>2
<1>15. ASSUME NEW g \in Handle, NEW t \in 1 .. spawned,
              IsBusy(g), activity[g].task = t, activity'[g].task = t, ClosingSent(t)
       PROVE  ClosingSent(t)' \/ Mistaken(g)'
  <2>1. CASE event.task # t \/ ~Ends(event)
    BY <1>1, <1>4, <1>15, <2>1
  <2>2. CASE event.task = t /\ Ends(event)
    <3>1. ~event.isRun
      BY <1>4, <2>2 DEF Ends, InstallEnds
    <3>2. task[t].handle = h /\ task[t].job # "launch"
      BY <1>9, <2>2, <3>1
    <3>3. EntryOk(g) /\ task[t].handle = g
      BY <1>1, <1>15 DEF Entries, EntryOk
    <3>4. g = h /\ activity[h].kind \in {"Install", "Running"}
      <4>1. activity[h].kind \in Kind /\ activity[h].kind # "LaunchPrep"
        BY <1>1, <1>15, <3>2, <3>3, EntryNames DEF EntryOk, Is
      <4> QED
        BY <3>2, <3>3, <4>1 DEF Kind
    <3>5. ~removed
      <4> SUFFICES ASSUME removed PROVE FALSE
        OBVIOUS
      <4>1. CASE activity' = after
        BY <1>5, <1>15, <3>4, <4>1 DEF IdleActivity
      <4>2. CASE activity' = [after EXCEPT ![h] = NewActivity("LaunchPrep", spawned + 1)]
        BY <1>1, <1>5, <1>15, <3>4, <4>2 DEF NewActivity
      <4> QED
        BY <1>10, <4>1, <4>2
    <3>6. activity[h].kind = "Running" /\ after = activity
      BY <1>5, <3>1, <3>4, <3>5
    <3>7. activity'[h] = activity[h]
      BY <1>10, <3>6
    <3>8. task'[t].job # "launch"
      BY <1>11, <3>2
    <3> QED
      BY <1>15, <3>4, <3>6, <3>7, <3>8 DEF Mistaken, Is
  <2> QED
    BY <2>1, <2>2
<1>16. /\ \A t \in 1 .. spawned : task'[t].pc = task[t].pc \/ t \in {}
       /\ \A t \in {} : /\ task'[t].pc \in {"aborted", "done"}
                        /\ task[t].pc = "done" => task'[t].pc = "done"
                        /\ t \in game => t \notin shown' /\ task'[t].pc = "aborted"
       /\ \A g \in Handle, t \in 1 .. spawned :
             IsBusy(g) /\ IsBusy(g)' /\ activity[g].task = t /\ activity'[g].task = t =>
                /\ t \notin {}
                /\ ClosingSent(t) => ClosingSent(t)' \/ Mistaken(g)'
  BY <1>11, <1>15
<1>17. misled' \subseteq 1 .. spawned'
  BY <1>1, <1>8, <1>11 DEF TasksKept
<1> QED
  BY <1>2, <1>4, <1>8, <1>11, <1>14, <1>16, <1>17, LoopFrame

\* Sent messages follow the ones that are in the channel.
LEMMA SendFields ==
    ASSUME Typed, NEW t \in TaskId, NEW messages \in Seq(OwnMessages(t)), Send(messages)
    PROVE  /\ Len(events) \in Nat /\ Len(messages) \in Nat
           /\ Len(events') = Len(events) + Len(messages)
           /\ \A i \in 1 .. Len(events) : events'[i] = events[i]
           /\ \A i \in 1 .. Len(messages) : events'[Len(events) + i] = messages[i]
<1>1. messages \in Seq(Event \cup PromptGone)
  BY DEF OwnMessages
<1> QED
  BY <1>1, ConcatProperties, LenProperties DEF Send, Typed, TypeOK

\* A task that moves to pc and reports what fits keeps Work.
LEMMA TaskFrame ==
    ASSUME WorkInv, Typed', NEW t \in TaskId, NEW pc, NEW messages \in Seq(OwnMessages(t)),
           Live(t), task'[t].pc = pc, task'[t].job = task[t].job,
           task'[t].handle = task[t].handle,
           \A u \in TaskId : u # t => task'[u] = task[u],
           Send(messages), UNCHANGED <<activity, misled, shown, spawned, killed>>,
           pc \notin {"aborted", "unborn"}, pc \in {"start", "game"} => Is(t, {"launch"}),
           At(t, {"game"}) => pc = "done",
           game' \subseteq game \cup {t}, game \subseteq game' \cup {t},
           t \in game' => pc = "game", AllFitting(t, messages, pc),
           pc = "done" /\ ~Is(t, {"probe"}) => EndSent(t, messages)
    PROVE  Work'
<1>1. /\ Typed /\ Mail /\ Named /\ Entries /\ Workers /\ Games /\ Endings /\ spawned \in Nat
      /\ 1 .. spawned \subseteq TaskId
  BY DEF WorkInv, KnownInv, Work, Typed, TypeOK
<1>2. t \in 1 .. spawned /\ task[t].pc \notin Ended
  BY <1>1, TaskBorn DEF Live, At, Ended, Typed
<1>3. TasksKept
  <2>1. ASSUME NEW u \in 1 .. spawned, u # t PROVE task'[u] = task[u]
    BY <1>1, <2>1
  <2> QED
    BY <1>1, <1>2, <2>1 DEF TasksKept, At, Started, Ended
<1>4. NewTasks
  BY DEF NewTasks
<1>5. EntrySteps
  <2>1. \A a \in 1 .. spawned : task'[a].pc = "aborted" => task[a].pc = "aborted"
    BY <1>1
  <2> QED
    BY <2>1 DEF EntrySteps, EntryStays, IsBusy
<1>6. Entries' /\ Workers'
  BY <1>1, <1>3, <1>4, <1>5, EntriesFrame, WorkersFrame
<1>7. Games'
  <2> SUFFICES ASSUME NEW u \in TaskId PROVE GameOk(u)'
    BY DEF Games
  <2>1. GameOk(u)
    BY <1>1 DEF Games
  <2>2. CASE u # t
    BY <2>1, <2>2 DEF GameOk, At, Is
  <2>3. CASE u = t
    <3>1. t \in shown => pc = "done"
      BY <1>2, <2>1, <2>3 DEF GameOk, At, Started, Ended
    <3> QED
      BY <2>1, <2>3, <3>1 DEF GameOk, At, Is, Started
  <2> QED
    BY <2>2, <2>3
<1>8. /\ Len(events) \in Nat /\ Len(messages) \in Nat
      /\ Len(events') = Len(events) + Len(messages)
      /\ \A i \in 1 .. Len(events) : events'[i] = events[i]
      /\ \A i \in 1 .. Len(messages) : events'[Len(events) + i] = messages[i]
  BY <1>1, SendFields
<1>9. Mail'
  <2> SUFFICES ASSUME NEW i \in 1 .. Len(events') PROVE MailOk(events'[i], task', spawned')
    BY DEF Mail
  <2>1. CASE i \in 1 .. Len(events)
    <3> DEFINE e == events[i]
    <3>1. MailOk(e, task, spawned)
      BY <1>1, <2>1 DEF Mail
    <3> HIDE DEF e
    <3>2. MailOk(e, task', spawned')
      BY <1>1, <1>3, <3>1, MailKept
    <3> QED
      BY <1>8, <2>1, <3>2 DEF e
  <2>2. CASE i \notin 1 .. Len(events)
    <3>1. i - Len(events) \in 1 .. Len(messages)
      BY <1>8, <2>2
    <3> DEFINE m == messages[i - Len(events)]
    <3>2. events'[i] = m
      <4>1. events'[Len(events) + (i - Len(events))] = m
        BY <1>8, <3>1
      <4> QED
        BY <1>8, <4>1
    <3>3. Fitting(t, m, pc)
      BY <3>1 DEF AllFitting
    <3> HIDE DEF m
    <3>4. MailOk(m, task', spawned')
      BY <1>2, <3>3 DEF Fitting, MailOk, Ends, InstallEnds, Is, Started
    <3> QED
      BY <3>2, <3>4
  <2> QED
    BY <2>1, <2>2
<1>10. Endings'
  <2>1. ASSUME NEW g \in Handle, NEW a \in 1 .. spawned, IsBusy(g), activity[g].task = a
        PROVE  /\ Live(a) => Live(a)' \/ ClosingSent(a)'
               /\ ClosingSent(a) => ClosingSent(a)'
    <3>1. ClosingSent(a) => ClosingSent(a)'
      <4> SUFFICES ASSUME ClosingSent(a) PROVE ClosingSent(a)'
        OBVIOUS
      <4>1. PICK i \in 1 .. Len(events) : events[i].task = a /\ Ends(events[i])
        BY DEF ClosingSent
      <4>2. i \in 1 .. Len(events') /\ events'[i].task = a /\ Ends(events'[i])
        BY <1>8, <4>1
      <4> QED
        BY <4>2 DEF ClosingSent, Ends, InstallEnds
    <3>2. CASE a # t \/ pc # "done"
      BY <1>1, <3>1, <3>2 DEF Live, At, Ended
    <3>3. CASE a = t /\ pc = "done"
      <4>1. ~Is(t, {"probe"})
        BY <1>1, <2>1, <3>3 DEF Entries, EntryOk
      <4>2. PICK i \in 1 .. Len(messages) : messages[i].task = t /\ Ends(messages[i])
        BY <3>3, <4>1 DEF EndSent
      <4>3. /\ Len(events) + i \in 1 .. Len(events')
            /\ events'[Len(events) + i].task = t /\ Ends(events'[Len(events) + i])
        BY <1>8, <4>2
      <4> QED
        BY <3>1, <3>3, <4>3 DEF ClosingSent, Ends, InstallEnds
    <3> QED
      BY <3>2, <3>3
  <2>2. \A g \in Handle, a \in 1 .. spawned :
          IsBusy(g) /\ IsBusy(g)' /\ activity[g].task = a /\ activity'[g].task = a =>
             /\ Live(a) => Live(a)' \/ ClosingSent(a)'
             /\ ClosingSent(a) => ClosingSent(a)' \/ Mistaken(g)'
    BY <2>1
  <2> QED
    BY <1>1, <1>3, <1>5, <2>2, EndingsFrame
<1>11. Named'
  BY <1>1 DEF Named
<1> QED
  BY <1>6, <1>7, <1>9, <1>10, <1>11 DEF Work

\* Every step of a task keeps Work.
LEMMA TaskWork ==
    ASSUME WorkInv, Typed', NEW t \in TaskId, TaskStep(t) \/ UserStep(t)
    PROVE  Work'
<1>1. /\ Typed /\ Games /\ Named /\ spawned \in Nat /\ TypeOK /\ GameOk(t)
  BY DEF WorkInv, KnownInv, Work, Typed, TypeOK, Games
<1>2. CASE GameExits(t)
  <2>1. /\ UNCHANGED <<activity, misled, shown, events, spawned, task, killed>>
        /\ game' = game \ {t}
    BY <1>2 DEF GameExits, loop
  <2>2. Games'
    BY <1>1, <2>1 DEF Games, GameOk, At, Is
  <2>3. Entries' /\ Workers' /\ Mail' /\ Endings' /\ Named'
    BY <2>1 DEF WorkInv, Work, Entries, EntryOk, Workers, WorkerOk, Working, Mail, Endings,
       WillEnd, Mistaken, ClosingSent, Live, At, Is, IsBusy, Named, Ends, InstallEnds
  <2> QED
    BY <2>2, <2>3 DEF Work
<1>3. CASE ReportProgress(t)
  <2> DEFINE note == Message("InstanceTasks", task[t].handle, t, FALSE, TRUE)
  <2>1. /\ At(t, {"work"}) /\ UNCHANGED <<activity, misled, shown, spawned, killed, game>>
        /\ task' = [task EXCEPT ![t].reports = @ + 1] /\ Send(<<note>>)
    BY <1>3 DEF ReportProgress, loop
  <2>2. task[t] \in Task
    BY <1>1, <2>1, TaskBorn DEF At
  <2>3. /\ task'[t] = [task[t] EXCEPT !.reports = @ + 1]
        /\ \A u \in TaskId : u # t => task'[u] = task[u]
    BY <1>1, <2>1 DEF TypeOK
  <2>4. /\ task'[t].pc = "work" /\ task'[t].job = task[t].job
        /\ task'[t].handle = task[t].handle
    BY <2>1, <2>2, <2>3 DEF Task, At
  <2>5. Live(t) /\ ~At(t, {"game"}) /\ t \notin game
    BY <1>1, <2>1 DEF Live, At, Ended, GameOk
  <2>6. note \in OwnMessages(t) /\ Fitting(t, note, "work")
    <3>1. note \in OwnMessages(t)
      BY <1>1, <2>1, MessageType DEF At
    <3>2. Fitting(t, note, "work")
      BY DEF Fitting, Message, Ends, InstallEnds
    <3> QED
      BY <3>1, <3>2
  <2> HIDE DEF note
  <2>7. <<note>> \in Seq(OwnMessages(t)) /\ AllFitting(t, <<note>>, "work")
    BY <2>6, ShortSequences, FittingLists
  <2> QED
    BY <2>1, <2>3, <2>4, <2>5, <2>7, TaskFrame
<1>4. CASE ~GameExits(t) /\ ~ReportProgress(t)
  <2>1. PICK pc \in Phase, messages \in Seq(OwnMessages(t)) : Moves(t, pc, messages)
    BY <1>1, <1>4, TaskMoves
  <2>2. task[t] \in Task
    BY <1>1, <2>1, TaskBorn DEF Moves, Live, At, Ended
  <2>3. /\ task'[t].pc = pc /\ task'[t].job = task[t].job
        /\ task'[t].handle = task[t].handle
        /\ \A u \in TaskId : u # t => task'[u] = task[u]
    BY <1>1, <2>1, <2>2, GotoFields DEF Moves, Goto
  <2>4. UNCHANGED <<activity, misled, shown, spawned, killed>>
    BY <2>1 DEF Moves, loop
  <2>5. /\ Live(t) /\ Send(messages)
        /\ pc \notin {"aborted", "unborn"} /\ (pc \in {"start", "game"} => Is(t, {"launch"}))
        /\ (At(t, {"game"}) => pc = "done")
        /\ game' \subseteq game \cup {t} /\ game \subseteq game' \cup {t}
        /\ (t \in game' => pc = "game") /\ AllFitting(t, messages, pc)
        /\ (pc = "done" /\ ~Is(t, {"probe"}) => EndSent(t, messages))
    BY <2>1 DEF Moves
  <2> QED
    BY <2>3, <2>4, <2>5, TaskFrame
<1> QED
  BY <1>2, <1>3, <1>4

\* The state after BackendState::load.
LEMMA WorkInit == Init => Work
BY DEF Init, Work, Entries, EntryOk, Workers, WorkerOk, Working, Games, GameOk, Mail, Endings,
   WillEnd, Named, Live, At, Is, Ended, IsBusy, IdleActivity, NoTask

\* Every step keeps Work.
LEMMA WorkNext == WorkInv /\ [Next]_vars => WorkInv'
<1> SUFFICES ASSUME WorkInv, [Next]_vars PROVE Work'
  BY KnownNext, StopNext DEF WorkInv
<1>1. Typed /\ Typed'
  BY TypedNext DEF WorkInv, KnownInv
<1>2. ASSUME UNCHANGED events
      PROVE  \A t \in TaskId : ClosingSent(t) => ClosingSent(t)'
  BY <1>2 DEF ClosingSent, Ends, InstallEnds
<1>3. ASSUME UNCHANGED <<activity, spawned, task, killed, game, misled, shown, events>>
      PROVE  Work'
  BY <1>1, <1>2, <1>3, QuietWork
<1>4. ASSUME NEW h \in Handle, NEW enabled \in BOOLEAN,
             \/ StartInstall(h)   \/ StartCreateLocal(h) \/ RetryCreateLocal(h)
             \/ CancelInstall(h)  \/ DeleteInstance(h)   \/ StartLaunch(h)
             \/ KillLaunch(h)     \/ ResolveJavaPath(h)  \/ UpdateInstanceSettings(h)
             \/ SetLaunchAfterInstall(h, enabled)
      PROVE  Work'
  <2>1. CASE StartInstall(h)
    <3>1. PICK pc \in {"auth", "work"}, offer \in BOOLEAN : Spawn("install", h, pc, FALSE, offer)
      BY <2>1 DEF StartInstall
    <3> QED
      BY <1>1, <2>1, <3>1, SpawnEntryWork DEF StartInstall
  <2>2. ASSUME ~IsBusy(h), SpawnCreate(h) PROVE Work'
    BY <1>1, <2>2, SpawnEntryWork DEF SpawnCreate
  <2>3. CASE StartCreateLocal(h) \/ RetryCreateLocal(h)
    <3>1. ~IsBusy(h)
      BY <2>3 DEF StartCreateLocal, RetryCreateLocal, WorkInv, KnownInv, BusyKnown
    <3> QED
      BY <2>2, <2>3, <3>1 DEF StartCreateLocal, RetryCreateLocal
  <2>4. CASE StartLaunch(h)
    BY <1>1, <2>4, SpawnEntryWork DEF StartLaunch, SpawnLaunch
  <2>5. CASE CancelInstall(h)
    <3>1. CASE IsBusy(h)
      BY <1>1, <2>5, <3>1, AbortWork DEF CancelInstall
    <3>2. CASE ~IsBusy(h)
      BY <1>3, <2>5, <3>2 DEF CancelInstall, runs
    <3> QED
      BY <3>1, <3>2
  <2>6. CASE KillLaunch(h)
    <3>1. UNCHANGED <<misled, shown, events>>
      BY <2>6 DEF KillLaunch
    <3>2. CASE activity[h].kind = "LaunchPrep" /\ AbortActivity(h)
      BY <1>1, <3>1, <3>2, AbortWork DEF IsBusy
    <3>3. CASE /\ activity[h].kind = "Running" /\ activity[h].kill
               /\ activity' = [activity EXCEPT ![h].kill = FALSE]
               /\ killed' = killed \cup {activity[h].task}
               /\ UNCHANGED <<spawned, task, game>>
      BY <1>1, <3>1, <3>3, KillRunningWork
    <3> QED
      BY <2>6, <3>2, <3>3 DEF KillLaunch
  <2>7. CASE DeleteInstance(h) \/ UpdateInstanceSettings(h) \/ SetLaunchAfterInstall(h, enabled)
    BY <1>3, <2>7 DEF DeleteInstance, UpdateInstanceSettings, SetLaunchAfterInstall, runs
  <2> QED
    BY <1>1, <1>4, <2>1, <2>3, <2>4, <2>5, <2>6, <2>7, ProbeWork
<1>5. ASSUME CancelAuth PROVE Work'
  <2>1. PICK h \in Handle : h = authInstance
    BY <1>1, <1>5 DEF CancelAuth, Typed, TypeOK
  <2>2. UNCHANGED <<misled, shown, events>>
    BY <1>5 DEF CancelAuth
  <2>3. CASE activity[h].kind \in {"Idle", "Running"}
    BY <1>3, <1>5, <2>1, <2>2, <2>3 DEF CancelAuth, runs
  <2>4. CASE activity[h].kind \notin {"Idle", "Running"}
    BY <1>1, <1>5, <2>1, <2>2, <2>4, AbortWork DEF CancelAuth, IsBusy
  <2> QED
    BY <2>3, <2>4
<1>6. ASSUME Refresh PROVE Work'
  BY <1>3, <1>6 DEF Refresh, runs
<1>7. CASE UserMessage
  BY <1>1, <1>4, <1>5, <1>6, <1>7, DeleteAllWork DEF UserMessage
<1>8. CASE HandleEvent
  BY <1>1, <1>8, InstanceTasksWork, InstallFinishedWork, LaunchStartedWork, LaunchFinishedWork,
     OtherEventsWork DEF HandleEvent
<1>9. ASSUME NEW h \in Handle, RemovePartialDir(h) PROVE Work'
  BY <1>3, <1>9 DEF RemovePartialDir, runs
<1>10. CASE UNCHANGED vars
  BY <1>3, <1>10 DEF vars, runs
<1> QED
  BY <1>1, <1>7, <1>8, <1>9, <1>10, TaskWork DEF Next

\* WorkInv holds in every behaviour.
LEMMA WorkAlways == Spec => []WorkInv
<1>1. Init => WorkInv
  BY KnownInit, WorkInit DEF WorkInv, StopInv, KnownInv, Init, InstallHoldsNoKill,
     LaunchStoppable, IdleActivity, Live, At, Ended, NoTask
<1> QED
  BY <1>1, WorkNext, PTL DEF Spec

\* Whatever overtakes what, one task at a time works on an instance, and its
\* entry names it, unless an event of an earlier task has changed that entry
\* (start_install, start_launch, cancel_install and the handlers of the events).
THEOREM OneTaskAtATime == Spec => []OneWorker
<1>1. ASSUME WorkInv PROVE OneWorker
  <2> SUFFICES ASSUME NEW t \in TaskId, Live(t), ~Is(t, {"probe"}), t \notin misled
               PROVE  /\ activity[task[t].handle].task = t
                      /\ activity[task[t].handle].kind = "Install" <=> ~Is(t, {"launch"})
    BY DEF OneWorker
  <2>1. Typed /\ Entries /\ WorkerOk(t)
    BY <1>1 DEF WorkInv, KnownInv, Work, Workers
  <2>2. PICK h \in Handle : task[t].handle = h
    BY <2>1, TaskBorn DEF Live, At, Ended, Typed, Task
  <2>3. activity[h].task = t /\ (activity[h].kind = "Running" => Is(t, {"launch"}))
    BY <2>1, <2>2 DEF WorkerOk, Working
  <2>4. IsBusy(h) /\ activity[h].kind \in Kind
    BY <2>1, <2>3, EntryNames
  <2>5. /\ activity[h].kind = "Install" => ~Is(t, {"launch"})
        /\ activity[h].kind = "LaunchPrep" => Is(t, {"launch"})
    BY <2>1, <2>3, <2>4 DEF Entries, EntryOk
  <2> QED
    BY <2>2, <2>3, <2>4, <2>5 DEF Kind
<1> QED
  BY <1>1, WorkAlways, PTL

\* In every order of messages and events, each busy instance but a Mistaken one
\* has a task at work or its last report in the channel: no path of a task ends
\* without one (start_install, start_create_local, start_launch).
THEOREM BusyInstancesAreFreed == Spec => []BusyWillEnd
<1>1. ASSUME WorkInv PROVE BusyWillEnd
  <2> SUFFICES ASSUME NEW h \in Handle, IsBusy(h), ~Mistaken(h), ~Live(activity[h].task)
               PROVE  \E i \in 1 .. Len(events) :
                         /\ events[i].handle = h
                         /\ \/ events[i].type = "LaunchFinished"
                            \/ /\ events[i].type = "InstallFinished" /\ ~events[i].isRun
                               /\ activity[h].kind = "Install"
    BY DEF BusyWillEnd
  <2>1. Typed /\ EntryOk(h) /\ Mail /\ WillEnd(h)
    BY <1>1 DEF WorkInv, KnownInv, Work, Entries, Endings
  <2>2. PICK a \in 1 .. spawned : activity[h].task = a
    BY <2>1, EntryNames
  <2>3. PICK i \in 1 .. Len(events) : events[i].task = a /\ Ends(events[i])
    BY <2>1, <2>2 DEF WillEnd, ClosingSent
  <2>4. MailOk(events[i], task, spawned)
    BY <2>1 DEF Mail
  <2>5. events[i].handle = h
    BY <2>1, <2>2, <2>3, <2>4 DEF MailOk, EntryOk
  <2>6. CASE InstallEnds(events[i])
    <3>1. ~Is(a, {"launch"})
      BY <2>3, <2>4, <2>6 DEF MailOk, Is
    <3>2. activity[h].kind \in Kind /\ activity[h].kind \notin {"LaunchPrep", "Running"}
      BY <2>1, <2>2, <3>1, EntryNames DEF EntryOk, Mistaken
    <3> QED
      BY <2>5, <2>6, <3>2 DEF InstallEnds, Kind
  <2> QED
    BY <2>3, <2>5, <2>6 DEF Ends
<1> QED
  BY <1>1, WorkAlways, PTL

-----------------------------------------------------------------------------
(***************************************************************************)
(* Memory and disk.  With StoredOnDisk, the invariant says what the        *)
(* directory of a cancelled creation holds, and that an instance with a    *)
(* launch is installed.                                                    *)
(***************************************************************************)
Cleaned ==
    \A h \in cleanup : h \in lost \/ (storage[h] = "absent" /\ disk[h] = "absent")

Launched ==
    \A h \in Handle, a \in TaskId : activity[h].task = a /\ task[a].job = "launch" =>
        h \in lost \/ (storage[h] = "installed" /\ disk[h] = "installed")

DiskInv == StoredOnDisk /\ Cleaned /\ Launched

\* What a step does to what is stored of h: nothing ...
StoreStays(h) ==
    /\ storage'[h] = storage[h] /\ disk'[h] = disk[h] /\ (h \in lost' <=> h \in lost)
    /\ h \in cleanup' => h \in cleanup \/ (h \in creating /\ storage[h] = "absent")

\* ... or one of the changes the code makes: a failure or a late success, a
\* save, a deletion, a new descriptor, a reload, a clean-up.
StoreChanges(h) ==
    \/ h \in lost'
    \/ storage'[h] = "installed" /\ disk'[h] = "installed" /\ h \notin cleanup'
    \/ /\ ~IsBusy(h) /\ storage'[h] = "absent" /\ disk'[h] \in {disk[h], "absent"}
       /\ h \in lost => h \in lost' \/ disk'[h] = "absent"
       /\ h \in cleanup' => h \in cleanup
    \/ /\ h \in Remote /\ storage[h] = "absent" /\ lost' = lost
       /\ storage'[h] = "pending" /\ disk'[h] = "pending"
    \/ /\ storage'[h] = disk[h] /\ disk'[h] = disk[h] /\ lost' = lost /\ cleanup' = cleanup
    \/ /\ h \in cleanup /\ h \notin cleanup' /\ disk'[h] = "absent"
       /\ storage' = storage /\ lost' = lost

\* A descriptor for the settings of an instance.
LEMMA EnsureStores ==
    ASSUME Typed, NEW g \in Handle, EnsureForSettings(g), NEW h \in Handle
    PROVE  StoreStays(h) \/ StoreChanges(h)
BY DEF EnsureForSettings, StoreStays, StoreChanges, store, Typed, TypeOK

\* Every step stores what StoreStays and StoreChanges say.
LEMMA StoreNext ==
    ASSUME Typed, [Next]_vars, NEW h \in Handle
    PROVE  StoreStays(h) \/ StoreChanges(h)
<1>1. CASE UNCHANGED store
  BY <1>1 DEF StoreStays, store
<1>2. ASSUME NEW g \in Handle, CancelInstall(g) PROVE StoreStays(h)
  BY <1>2 DEF CancelInstall, StoreStays
<1>3. ASSUME NEW g \in Handle, DeleteInstance(g) PROVE StoreStays(h) \/ StoreChanges(h)
  <2>1. CASE g # h
    BY <1>3, <2>1 DEF DeleteInstance, StoreStays, Typed, TypeOK
  <2>2. CASE g = h
    BY <1>3, <2>2 DEF DeleteInstance, StoreChanges, Typed, TypeOK
  <2> QED
    BY <2>1, <2>2
<1>4. ASSUME NEW g \in Handle, UpdateInstanceSettings(g) PROVE StoreStays(h) \/ StoreChanges(h)
  BY <1>4, EnsureStores DEF UpdateInstanceSettings
<1>5. ASSUME Refresh PROVE StoreChanges(h)
  BY <1>5 DEF Refresh, StoreChanges
<1>6. ASSUME DeleteAllLauncherData PROVE StoreStays(h) \/ StoreChanges(h)
  <2>1. CASE /\ disk' = [g \in Handle |-> "absent"] /\ storage' = disk' /\ cleanup' = {}
    BY <1>6, <2>1 DEF DeleteAllLauncherData, StoreChanges
  <2>2. CASE /\ \E gone \in SUBSET Handle :
                  /\ disk' = [g \in Handle |-> IF g \in gone THEN "absent" ELSE disk[g]]
                  /\ lost' = lost \cup gone
             /\ UNCHANGED <<storage, cleanup>>
    <3>1. PICK gone \in SUBSET Handle :
             /\ disk' = [g \in Handle |-> IF g \in gone THEN "absent" ELSE disk[g]]
             /\ lost' = lost \cup gone
      BY <2>2
    <3>2. CASE h \in gone
      BY <3>1, <3>2 DEF StoreChanges
    <3>3. CASE h \notin gone
      BY <2>2, <3>1, <3>3 DEF StoreStays
    <3> QED
      BY <3>2, <3>3
  <2> QED
    BY <1>6, <2>1, <2>2 DEF DeleteAllLauncherData
<1>7. ASSUME HandleInstallFinished PROVE StoreStays(h) \/ StoreChanges(h)
  <2>1. PICK g \in Handle : g = event.handle
    BY <1>7, ReceiveType DEF HandleInstallFinished, Typed, Event
  <2>2. UNCHANGED cleanup
    BY <1>7 DEF HandleInstallFinished
  <2>3. CASE UNCHANGED <<storage, disk, lost>>
    BY <2>2, <2>3 DEF StoreStays
  <2>4. CASE SaveInstalled(g)
    <3>1. CASE g # h
      BY <2>2, <2>4, <3>1 DEF SaveInstalled, StoreStays, Typed, TypeOK
    <3>2. CASE g = h
      <4>1. CASE UNCHANGED <<storage, disk, lost>>
        BY <2>2, <4>1 DEF StoreStays
      <4>2. CASE lost' = lost \cup {h}
        BY <4>2 DEF StoreChanges
      <4>3. CASE /\ storage' = [storage EXCEPT ![h] = "installed"]
                 /\ disk' = [disk EXCEPT ![h] = "installed"]
                 /\ lost' = IF h \in cleanup THEN lost \cup {h} ELSE lost \ {h}
        BY <2>2, <4>3 DEF StoreChanges, Typed, TypeOK
      <4> QED
        BY <2>4, <3>2, <4>1, <4>2, <4>3 DEF SaveInstalled
    <3> QED
      BY <3>1, <3>2
  <2> QED
    BY <1>7, <2>1, <2>3, <2>4 DEF HandleInstallFinished
<1>8. ASSUME HandleJavaResolved PROVE StoreStays(h) \/ StoreChanges(h)
  <2>1. PICK g \in Handle : g = event.handle
    BY <1>8, ReceiveType DEF HandleJavaResolved, Typed, Event
  <2> QED
    BY <1>1, <1>8, <2>1, EnsureStores DEF HandleJavaResolved
<1>9. ASSUME NEW g \in Handle, RemovePartialDir(g) PROVE StoreStays(h) \/ StoreChanges(h)
  BY <1>9 DEF RemovePartialDir, StoreStays, StoreChanges, Typed, TypeOK
<1>10. ASSUME NEW t \in TaskId, TaskStep(t) \/ UserStep(t) PROVE UNCHANGED store
  BY <1>10, TaskStepFrame DEF TaskStep, UserStep, ReportProgress, AskUser, Authenticate, FilesReady,
     MetadataSaved, StartGame, KillGame, ReportExit, Fail, UserAuthenticated, GameExits, loop
<1>11. ASSUME NEW g \in Handle, NEW enabled \in BOOLEAN,
              \/ StartInstall(g) \/ StartCreateLocal(g) \/ RetryCreateLocal(g) \/ StartLaunch(g)
              \/ KillLaunch(g) \/ ResolveJavaPath(g) \/ SetLaunchAfterInstall(g, enabled)
       PROVE  UNCHANGED store
  BY <1>11 DEF StartInstall, StartCreateLocal, RetryCreateLocal, SpawnCreate, StartLaunch,
     KillLaunch, ResolveJavaPath, SetLaunchAfterInstall
<1>12. CASE UserMessage
  <2>1. ASSUME CancelAuth PROVE UNCHANGED store
    BY <2>1 DEF CancelAuth
  <2> QED
    BY <1>1, <1>2, <1>3, <1>4, <1>5, <1>6, <1>11, <1>12, <2>1 DEF UserMessage
<1>13. CASE HandleEvent
  <2>1. ASSUME HandleInstanceTasks \/ HandleLaunchStarted \/ HandleLaunchFinished
               \/ HandleAuthLaunchPrompt
        PROVE  UNCHANGED store
    BY <2>1 DEF HandleInstanceTasks, HandleLaunchStarted, HandleLaunchFinished,
       HandleAuthLaunchPrompt
  <2> QED
    BY <1>1, <1>7, <1>8, <1>13, <2>1 DEF HandleEvent
<1>14. CASE UNCHANGED vars
  BY <1>1, <1>14 DEF vars
<1> QED
  BY <1>1, <1>9, <1>10, <1>12, <1>13, <1>14 DEF Next

\* A launch gets an entry only on an instance that is stored as installed.
LEMMA LaunchEntry ==
    ASSUME WorkInv, Typed', [Next]_vars, NEW h \in Handle, NEW a \in TaskId,
           activity'[h].task = a, task'[a].job = "launch"
    PROVE  (activity[h].task = a /\ task[a].job = "launch") \/ storage'[h] = "installed"
<1>1. /\ Typed /\ spawned \in Nat /\ 1 .. spawned \subseteq TaskId
      /\ activity \in [Handle -> Activity]
  BY DEF WorkInv, KnownInv, Typed, TypeOK
<1> DEFINE Old == activity[h].task = a /\ task[a].job = "launch"
<1>2. ASSUME TasksKept, activity'[h].task = activity[h].task PROVE Old
  <2>1. a \in 1 .. spawned
    <3>1. IsBusy(h)
      BY <1>1, <1>2, EntryNames
    <3> QED
      BY <1>1, <1>2, <3>1, EntryNames
  <2> QED
    BY <1>2, <2>1 DEF TasksKept
<1>3. ASSUME UNCHANGED <<activity, spawned, task>> PROVE Old
  BY <1>3
<1>4. ASSUME NEW g \in Handle, NEW kind, NEW job, NEW pc, NEW sync, NEW offered,
             Spawn(job, g, pc, sync, offered), kind = "Install" => job \in {"install", "create"},
             activity' = [activity EXCEPT ![g] = NewActivity(kind, spawned + 1)]
      PROVE  Old \/ (g = h /\ kind # "Install")
  <2>1. TasksKept /\ spawned' = spawned + 1 /\ task'[spawned'].job = job
    BY <1>1, <1>4, SpawnFields
  <2>2. CASE g # h
    BY <1>1, <1>2, <1>4, <2>1, <2>2
  <2>3. CASE g = h
    <3>1. a = spawned'
      BY <1>1, <1>4, <2>1, <2>3 DEF NewActivity
    <3> QED
      BY <1>4, <2>1, <2>3, <3>1
  <2> QED
    BY <2>2, <2>3
<1>5. ASSUME NEW g \in Handle, AbortActivity(g), IsBusy(g) PROVE Old
  <2>1. g # h
    BY <1>1, <1>5 DEF AbortActivity, Without, IdleActivity
  <2>2. PICK b \in 1 .. spawned : activity[g].task = b
    BY <1>1, <1>5, EntryNames
  <2>3. /\ activity' = [activity EXCEPT ![g] = IdleActivity]
        /\ task'[b].job = task[b].job
        /\ \A u \in TaskId : u # b => task'[u] = task[u]
    BY <1>1, <1>5, <2>2, AbortFields
  <2>4. activity[h].task = a
    BY <1>1, <2>1, <2>3
  <2> QED
    BY <2>3, <2>4
<1>6. ASSUME NEW g \in Handle, NEW enabled \in BOOLEAN,
             \/ StartInstall(g)   \/ StartCreateLocal(g) \/ RetryCreateLocal(g)
             \/ CancelInstall(g)  \/ DeleteInstance(g)   \/ StartLaunch(g)
             \/ KillLaunch(g)     \/ ResolveJavaPath(g)  \/ UpdateInstanceSettings(g)
             \/ SetLaunchAfterInstall(g, enabled)
      PROVE  Old \/ storage'[h] = "installed"
  <2>1. CASE StartInstall(g)
    <3>1. PICK pc \in {"auth", "work"}, offer \in BOOLEAN : Spawn("install", g, pc, FALSE, offer)
      BY <2>1 DEF StartInstall
    <3> QED
      BY <1>4, <2>1, <3>1 DEF StartInstall
  <2>2. CASE StartCreateLocal(g) \/ RetryCreateLocal(g)
    BY <1>4, <2>2 DEF StartCreateLocal, RetryCreateLocal, SpawnCreate
  <2>3. CASE StartLaunch(g)
    <3>1. /\ Spawn("launch", g, "auth", TRUE, FALSE)
          /\ activity' = [activity EXCEPT ![g] = NewActivity("LaunchPrep", spawned + 1)]
          /\ storage[g] = "installed" /\ storage' = storage
      BY <2>3 DEF StartLaunch, SpawnLaunch, store
    <3> QED
      BY <1>4, <3>1
  <2>4. CASE ResolveJavaPath(g)
    <3>1. Spawn("probe", g, "work", FALSE, FALSE) /\ UNCHANGED activity
      BY <2>4 DEF ResolveJavaPath
    <3>2. TasksKept
      BY <1>1, <3>1, SpawnFields
    <3> QED
      BY <1>2, <3>1, <3>2
  <2>5. CASE CancelInstall(g)
    BY <1>3, <1>5, <2>5 DEF CancelInstall, runs
  <2>6. CASE KillLaunch(g)
    <3>1. CASE activity[g].kind = "LaunchPrep" /\ AbortActivity(g)
      BY <1>5, <3>1 DEF IsBusy
    <3>2. CASE /\ activity' = [activity EXCEPT ![g].kill = FALSE]
               /\ activity[g].kind = "Running" /\ UNCHANGED <<spawned, task>>
      <4>1. activity[g] \in [kind : Kind, task : TaskId, kill : BOOLEAN, shows : 0 .. MaxTask]
        BY <1>1, <3>2, EntryType DEF IsBusy, Typed
      <4>2. activity'[g] = [activity[g] EXCEPT !.kill = FALSE]
        BY <1>1, <3>2
      <4>3. activity'[h].task = activity[h].task
        BY <1>1, <3>2, <4>1, <4>2
      <4> QED
        BY <3>2, <4>3
    <3> QED
      BY <2>6, <3>1, <3>2 DEF KillLaunch
  <2>7. CASE DeleteInstance(g) \/ UpdateInstanceSettings(g) \/ SetLaunchAfterInstall(g, enabled)
    BY <1>3, <2>7 DEF DeleteInstance, UpdateInstanceSettings, SetLaunchAfterInstall, runs
  <2> QED
    BY <1>6, <2>1, <2>2, <2>3, <2>4, <2>5, <2>6, <2>7
<1>7. ASSUME CancelAuth PROVE Old
  <2>1. authInstance \in Handle
    BY <1>1, <1>7 DEF CancelAuth, Typed, TypeOK
  <2> QED
    BY <1>3, <1>5, <1>7, <2>1 DEF CancelAuth, IsBusy, runs
<1>8. ASSUME Refresh PROVE Old
  BY <1>3, <1>8 DEF Refresh, runs
<1>9. ASSUME DeleteAllLauncherData PROVE FALSE
  <2>1. ~IsBusy(h) /\ activity' = activity
    BY <1>9 DEF DeleteAllLauncherData
  <2> QED
    BY <1>1, <2>1, EntryNames
<1>10. CASE UserMessage
  BY <1>6, <1>7, <1>8, <1>9, <1>10 DEF UserMessage
<1>11. ASSUME HandleInstallFinished PROVE Old \/ storage'[h] = "installed"
  <2>1. PICK g \in Handle : g = event.handle
    BY <1>1, <1>11, ReceiveType DEF HandleInstallFinished, Typed, Event
  <2> DEFINE after == AfterInstall(g, event.isRun)
  <2>2. /\ after \in [Handle -> Activity]
        /\ \A f \in Handle : after[f] \in {activity[f], IdleActivity}
    BY <1>1 DEF AfterInstall, Without, Activity
  <2>3. \/ activity' = after /\ UNCHANGED <<spawned, task>>
        \/ /\ after[g].kind = "Idle" /\ SpawnLaunch(g, FALSE) /\ storage'[g] = "installed"
           /\ activity' = [after EXCEPT ![g] = NewActivity("LaunchPrep", spawned + 1)]
    BY <1>11, <2>1 DEF HandleInstallFinished
  <2> HIDE DEF after
  <2>4. CASE activity' = after /\ UNCHANGED <<spawned, task>>
    BY <2>2, <2>4 DEF IdleActivity
  <2>5. CASE /\ SpawnLaunch(g, FALSE) /\ storage'[g] = "installed"
             /\ activity' = [after EXCEPT ![g] = NewActivity("LaunchPrep", spawned + 1)]
    <3>1. CASE g = h
      BY <2>5, <3>1
    <3>2. CASE g # h
      <4>1. activity'[h] \in {activity[h], IdleActivity}
        BY <2>2, <2>5, <3>2
      <4>2. activity'[h].task = activity[h].task
        BY <4>1 DEF IdleActivity
      <4>3. TasksKept
        BY <1>1, <2>5, SpawnFields DEF SpawnLaunch
      <4> QED
        BY <1>2, <4>2, <4>3
    <3> QED
      BY <3>1, <3>2
  <2> QED
    BY <2>3, <2>4, <2>5
<1>12. ASSUME HandleInstanceTasks \/ HandleLaunchStarted PROVE Old
  <2>1. PICK g \in Handle : g = event.handle
    BY <1>1, <1>12, ReceiveType DEF HandleInstanceTasks, HandleLaunchStarted, Typed, Event
  <2>2. UNCHANGED <<spawned, task>>
    BY <1>12 DEF HandleInstanceTasks, HandleLaunchStarted, runs
  <2>3. activity'[h].task = activity[h].task
    <3>1. CASE g # h \/ ~IsBusy(g)
      BY <1>1, <1>12, <2>1, <3>1 DEF HandleInstanceTasks, HandleLaunchStarted
    <3>2. CASE g = h /\ IsBusy(h)
      <4>1. activity[h] \in [kind : Kind, task : TaskId, kill : BOOLEAN, shows : 0 .. MaxTask]
        BY <1>1, <3>2, EntryType DEF Typed
      <4>2. CASE HandleInstanceTasks
        <5>1. activity'[h] = [activity[h] EXCEPT !.shows = event.task]
          BY <1>1, <2>1, <3>2, <4>2 DEF HandleInstanceTasks
        <5> QED
          BY <4>1, <5>1
      <4>3. CASE HandleLaunchStarted
        <5> DEFINE running == [activity[h] EXCEPT !.kind = "Running"]
        <5>1. activity'[h] = [running EXCEPT !.shows = 0]
          BY <1>1, <2>1, <3>2, <4>3 DEF HandleLaunchStarted
        <5>2. /\ running \in [kind : Kind, task : TaskId, kill : BOOLEAN, shows : 0 .. MaxTask]
              /\ running.task = activity[h].task
          BY <4>1 DEF Kind
        <5> HIDE DEF running
        <5> QED
          BY <5>1, <5>2
      <4> QED
        BY <1>12, <4>2, <4>3
    <3> QED
      BY <3>1, <3>2
  <2> QED
    BY <2>2, <2>3
<1>13. ASSUME HandleLaunchFinished PROVE Old
  <2>1. UNCHANGED task /\ activity'[h] \in {activity[h], IdleActivity}
    BY <1>1, <1>13 DEF HandleLaunchFinished, Without
  <2> QED
    BY <2>1 DEF IdleActivity
<1>14. CASE HandleEvent
  <2>1. ASSUME HandleAuthLaunchPrompt \/ HandleJavaResolved PROVE Old
    BY <1>3, <2>1 DEF HandleAuthLaunchPrompt, HandleJavaResolved, runs
  <2> QED
    BY <1>11, <1>12, <1>13, <1>14, <2>1 DEF HandleEvent
<1>15. ASSUME NEW t \in TaskId, TaskStep(t) \/ UserStep(t) PROVE Old
  <2>1. UNCHANGED activity
    BY <1>15 DEF TaskStep, UserStep, ReportProgress, AskUser, Authenticate, FilesReady,
       MetadataSaved, StartGame, KillGame, ReportExit, Fail, UserAuthenticated, GameExits, loop
  <2>2. task'[a].job = task[a].job
    <3>1. CASE GameExits(t)
      BY <3>1 DEF GameExits
    <3>2. CASE ~GameExits(t)
      <4>1. task[t].pc # "unborn"
        BY <1>15, <3>2 DEF TaskStep, UserStep, ReportProgress, AskUser, Authenticate, FilesReady,
           MetadataSaved, StartGame, KillGame, ReportExit, Fail, UserAuthenticated, At
      <4>2. task[t] \in Task
        BY <1>1, <4>1, TaskBorn DEF Typed
      <4>3. CASE ReportProgress(t)
        <5>1. /\ task'[t] = [task[t] EXCEPT !.reports = @ + 1]
              /\ \A u \in TaskId : u # t => task'[u] = task[u]
          BY <1>1, <4>3 DEF ReportProgress, Typed, TypeOK
        <5>2. task'[t].job = task[t].job
          BY <4>2, <5>1 DEF Task
        <5> QED
          BY <5>1, <5>2
      <4>4. CASE ~ReportProgress(t)
        <5>1. PICK pc \in Phase : Goto(t, pc)
          BY <1>15, <3>2, <4>4 DEF TaskStep, UserStep, AskUser, Authenticate, FilesReady,
             MetadataSaved, StartGame, KillGame, ReportExit, Fail, UserAuthenticated,
             AfterAuth, Phase
        <5> QED
          BY <1>1, <4>2, <5>1, GotoFields DEF Goto
      <4> QED
        BY <4>3, <4>4
    <3> QED
      BY <3>1, <3>2
  <2> QED
    BY <2>1, <2>2
<1>16. ASSUME NEW g \in Handle, RemovePartialDir(g) PROVE Old
  BY <1>3, <1>16 DEF RemovePartialDir, runs
<1>17. CASE UNCHANGED vars
  BY <1>3, <1>17 DEF vars, runs
<1> QED
  BY <1>10, <1>14, <1>15, <1>16, <1>17 DEF Next

\* Every step keeps memory and disk together.
LEMMA DiskNext ==
    ASSUME WorkInv, CreatingNotStored, DiskInv, Typed', [Next]_vars
    PROVE  DiskInv'
<1>1. Typed /\ \A h \in Remote : h \notin cleanup'
  BY DEF WorkInv, KnownInv, Typed, TypeOK
<1>2. ASSUME NEW h \in Handle
      PROVE  /\ h \notin lost' /\ storage'[h] # "absent" => disk'[h] = storage'[h]
             /\ h \in cleanup' => h \in lost' \/ (storage'[h] = "absent" /\ disk'[h] = "absent")
             /\ \A a \in TaskId : activity[h].task = a /\ task[a].job = "launch" =>
                   h \in lost' \/ (storage'[h] = "installed" /\ disk'[h] = "installed")
  <2>1. /\ h \notin lost /\ storage[h] # "absent" => disk[h] = storage[h]
        /\ h \in cleanup => h \in lost \/ (storage[h] = "absent" /\ disk[h] = "absent")
        /\ h \in creating => storage[h] = "absent" /\ disk[h] = "absent"
    BY DEF DiskInv, StoredOnDisk, Cleaned, CreatingNotStored
  <2>2. ASSUME NEW a \in TaskId, activity[h].task = a, task[a].job = "launch"
        PROVE  IsBusy(h) /\ (h \in lost \/ (storage[h] = "installed" /\ disk[h] = "installed"))
    BY <1>1, <2>2, EntryNames DEF DiskInv, Launched
  <2>3. CASE StoreStays(h)
    BY <2>1, <2>2, <2>3 DEF StoreStays
  <2>4. CASE StoreChanges(h)
    <3>1. CASE h \in lost'
      BY <3>1
    <3>2. CASE storage'[h] = "installed" /\ disk'[h] = "installed" /\ h \notin cleanup'
      BY <3>2
    <3>3. CASE /\ ~IsBusy(h) /\ storage'[h] = "absent" /\ disk'[h] \in {disk[h], "absent"}
               /\ h \in lost => h \in lost' \/ disk'[h] = "absent"
               /\ h \in cleanup' => h \in cleanup
      BY <2>1, <2>2, <3>3
    <3>4. CASE /\ h \in Remote /\ storage[h] = "absent" /\ lost' = lost
               /\ storage'[h] = "pending" /\ disk'[h] = "pending"
      BY <1>1, <2>2, <3>4
    <3>5. CASE /\ storage'[h] = disk[h] /\ disk'[h] = disk[h]
               /\ lost' = lost /\ cleanup' = cleanup
      BY <2>1, <2>2, <3>5
    <3>6. CASE /\ h \in cleanup /\ h \notin cleanup' /\ disk'[h] = "absent"
               /\ storage' = storage /\ lost' = lost
      BY <2>1, <2>2, <3>6
    <3> QED
      BY <2>4, <3>1, <3>2, <3>3, <3>4, <3>5, <3>6 DEF StoreChanges
  <2> QED
    BY <2>3, <2>4, StoreNext DEF WorkInv, KnownInv
<1>3. StoredOnDisk'
  BY <1>2 DEF StoredOnDisk
<1>4. Cleaned'
  <2>1. cleanup' \subseteq Handle
    BY DEF Typed, TypeOK
  <2> QED
    BY <1>2, <2>1 DEF Cleaned
<1>5. Launched'
  <2> SUFFICES ASSUME NEW h \in Handle, NEW a \in TaskId,
                      activity'[h].task = a, task'[a].job = "launch", h \notin lost'
               PROVE  storage'[h] = "installed" /\ disk'[h] = "installed"
    BY DEF Launched
  <2>1. (activity[h].task = a /\ task[a].job = "launch") \/ storage'[h] = "installed"
    BY LaunchEntry
  <2> QED
    BY <1>2, <2>1
<1> QED
  BY <1>3, <1>4, <1>5 DEF DiskInv

\* All that is proved of the loop holds together in every behaviour.
LEMMA DiskAlways == Spec => [](WorkInv /\ CreatingNotStored /\ DiskInv)
<1>1. Init => DiskInv
  BY DEF Init, DiskInv, StoredOnDisk, Cleaned, Launched, IdleActivity
<1>2. WorkInv /\ WorkInv' /\ CreatingNotStored /\ DiskInv /\ [Next]_vars => DiskInv'
  BY DiskNext DEF WorkInv, KnownInv
<1> QED
  BY <1>1, <1>2, WorkAlways, CreationsAreNotStored, PTL DEF Spec

\* Memory and disk agree on every instance that has not lost its descriptor to a
\* failure or to the clean-up of its creation, in every order of messages and
\* events and with saves and deletions that fail (handle_install_finished,
\* delete_instance, cancel_install, ensure_instance_for_settings).
THEOREM MemoryIsOnDisk == Spec => []StoredOnDisk
<1>1. DiskInv => StoredOnDisk
  BY DEF DiskInv
<1> QED
  BY <1>1, DiskAlways, PTL

\* A game the interface has shown runs from installed files under the entry that
\* names it, or is being killed, whatever overtakes what (delete_instance,
\* kill_launch, cancel_install, handle_install_finished and LaunchFinished).
THEOREM GamesAreSupervised == Spec => []GameSupervised
<1>1. ASSUME WorkInv, DiskInv PROVE GameSupervised
  <2> SUFFICES ASSUME NEW t \in game \cap shown
               PROVE  /\ At(t, {"game"})
                      /\ \/ /\ activity[task[t].handle].task = t
                            /\ activity[task[t].handle].kind = "Running"
                            /\ task[t].handle \in lost \/ disk[task[t].handle] = "installed"
                         \/ t \in killed
    BY DEF GameSupervised
  <2>1. Typed /\ t \in TaskId /\ GameOk(t)
    BY <1>1 DEF WorkInv, KnownInv, Work, Games, Typed, TypeOK
  <2>2. At(t, {"game"}) /\ Is(t, {"launch"})
    BY <2>1 DEF GameOk
  <2>3. PICK h \in Handle : task[t].handle = h
    BY <2>1, <2>2, TaskBorn DEF At, Typed, Task
  <2>4. activity[h].task = t => h \in lost \/ disk[h] = "installed"
    BY <1>1, <2>1, <2>2 DEF DiskInv, Launched, Is
  <2> QED
    BY <2>1, <2>2, <2>3, <2>4 DEF GameOk
<1> QED
  BY <1>1, DiskAlways, PTL

-----------------------------------------------------------------------------
(***************************************************************************)
(* What the interface offers.                                              *)
(***************************************************************************)
\* What the status of a published instance says of it.
LEMMA StatusMeans ==
    ASSUME NEW x, x.origin = "Backend", ~x.creating,
           x.stored \in Stored, x.kind \in {"Idle", "Install", "LaunchPrep", "Running"}
    PROVE  LET v == View(x) IN
           /\ v.origin = "Backend" /\ v.installed = (x.stored = "installed")
           /\ \/ v.status = "Installing" /\ x.kind = "Install"
              \/ v.status = "LaunchPreparing" /\ x.kind = "LaunchPrep"
              \/ v.status = "Running" /\ x.kind = "Running"
              \/ v.status \in {"NotInstalled", "Outdated", "InstallFailed"} /\ x.kind = "Idle"
              \/ /\ v.status \in {"Installed", "OrphanedFromBackend", "LaunchFailed"}
                 /\ x.kind = "Idle"
                 /\ x.stored = "installed" \/ (x.stored = "pending" /\ x.launchErr)
           /\ v.launchAfter # "none" => x.launchAfter # "none"
BY DEF View, StoredStatus, PublishedStatus, UnstoredStatus, BaseLocalStatus, ActivityStatus,
       ViewLaunchAfter, Stored, Listed

\* The messages the buttons of a published instance send, by its status.
LEMMA ButtonsMean ==
    ASSUME NEW v, v.origin = "Backend", NEW message \in Buttons(v) \ {"Resync"},
           v.status \in {"Installing", "NotInstalled", "Outdated", "LaunchPreparing", "Running",
                         "Installed", "OrphanedFromBackend", "LaunchFailed", "InstallFailed"}
    PROVE  \/ message = "AddAccount"
           \/ message = "CancelInstall" /\ v.status = "Installing"
           \/ message = "InstallInstance" /\ v.status \in {"NotInstalled", "Outdated", "InstallFailed"}
           \/ message = "KillInstance" /\ v.status \in {"LaunchPreparing", "Running"}
           \/ message = "Launch" /\ v.status \in {"Installed", "OrphanedFromBackend", "LaunchFailed"}
           \/ message = "DeleteInstance" /\ v.installed /\ ~DeleteBlocked(v)
           \/ message = "SetLaunchAfterInstall" /\ v.launchAfter # "none"
<1>1. CASE message \in ActionButton(v)
  BY <1>1 DEF ActionButton, UnlessBlocked
<1>2. CASE message \in DetailButtons(v)
  BY <1>2 DEF DetailButtons
<1>3. CASE message \in OptionsSlot(v)
  BY <1>3 DEF OptionsSlot
<1> QED
  BY <1>1, <1>2, <1>3 DEF Buttons

\* The loop accepts the message of every button of a published instance, but for
\* the Launch button of one that is only known and bears a launch's error.
LEMMA ButtonsAccepted ==
    ASSUME WorkInv, NEW h \in Remote, NEW published \in Published, NEW blocked \in BOOLEAN,
           ~Mistaken(h),
           NEW message \in Buttons(View(ViewInput(h, published, blocked))) \ {"Resync"}
    PROVE  \/ Accepts(h, message)
           \/ message = "Launch" /\ storage[h] = "pending" /\ h \in launchErr
<1> DEFINE x == ViewInput(h, published, blocked)
           v == View(x)
<1>1. h \in Handle /\ h \notin Local /\ h \notin creating /\ storage[h] \in Stored
  BY DEF WorkInv, KnownInv, Typed, TypeOK
<1>2. /\ x.origin = "Backend" /\ ~x.creating /\ x.stored = storage[h] /\ x.kind = activity[h].kind
      /\ x.launchAfter = launchAfter[h] /\ (x.launchErr => h \in launchErr)
  BY <1>1 DEF ViewInput
<1> HIDE DEF x
<1>3. x.stored \in Stored /\ x.kind \in {"Idle", "Install", "LaunchPrep", "Running"}
  BY <1>1, <1>2, EntryNames DEF WorkInv, KnownInv, IsBusy, Kind
<1>4. /\ v.origin = "Backend" /\ v.installed = (x.stored = "installed")
      /\ \/ v.status = "Installing" /\ x.kind = "Install"
         \/ v.status = "LaunchPreparing" /\ x.kind = "LaunchPrep"
         \/ v.status = "Running" /\ x.kind = "Running"
         \/ v.status \in {"NotInstalled", "Outdated", "InstallFailed"} /\ x.kind = "Idle"
         \/ /\ v.status \in {"Installed", "OrphanedFromBackend", "LaunchFailed"}
            /\ x.kind = "Idle"
            /\ x.stored = "installed" \/ (x.stored = "pending" /\ x.launchErr)
      /\ v.launchAfter # "none" => x.launchAfter # "none"
  BY <1>2, <1>3, StatusMeans
<1> HIDE DEF v
<1>5. message \in Buttons(v) \ {"Resync"}
  BY DEF v, x
<1>6. \/ message = "AddAccount"
      \/ message = "CancelInstall" /\ v.status = "Installing"
      \/ message = "InstallInstance" /\ v.status \in {"NotInstalled", "Outdated", "InstallFailed"}
      \/ message = "KillInstance" /\ v.status \in {"LaunchPreparing", "Running"}
      \/ message = "Launch" /\ v.status \in {"Installed", "OrphanedFromBackend", "LaunchFailed"}
      \/ message = "DeleteInstance" /\ v.installed /\ ~DeleteBlocked(v)
      \/ message = "SetLaunchAfterInstall" /\ v.launchAfter # "none"
  BY <1>4, <1>5, ButtonsMean
<1>7. activity[h].kind \in {"LaunchPrep", "Running"} =>
         activity[h].kill \/ activity[h].task \in killed
  BY <1>1 DEF WorkInv, Work, Entries, EntryOk, Mistaken, IsBusy
<1> QED
  BY <1>2, <1>4, <1>6, <1>7 DEF Accepts, IsBusy, DeleteBlocked

\* Whatever overtook what, a button shown for a published instance sends a
\* message the loop accepts, but for "Resync", a Mistaken instance and the Launch
\* button of an instance that is only known (build_instance_views and the buttons
\* against the first checks of every handler).
THEOREM ButtonsAreAnswered == Spec => []ButtonsWork
<1>1. WorkInv => ButtonsWork
  BY ButtonsAccepted DEF ButtonsWork
<1> QED
  BY <1>1, WorkAlways, PTL

=============================================================================
