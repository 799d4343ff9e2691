------------------------------ MODULE BuildServer ------------------------------
(***************************************************************************)
(* The build server (backend/internal): the spec file and its store, the   *)
(* runner of instance builds, and the hub its log goes to.                 *)
(*                                                                         *)
(* The store serialises its own readers and writers with a lock.  The      *)
(* runner reads through the store and writes the same file without the     *)
(* lock (prepareSpecFile).  os.WriteFile truncates the file and then       *)
(* writes it: a reader between the two sees an empty file, which the store *)
(* takes for a spec without instances.                                     *)
(*                                                                         *)
(* Simplifications.  A spec is the set of its instance ids.  A request     *)
(* that is refused changes nothing and is left out.  A write that fails    *)
(* half-way and a server that dies in a write are left out.                *)
(***************************************************************************)
EXTENDS BuildHub, FiniteSets

CONSTANTS
    Instance,   \* instance ids
    Request,    \* HTTP requests that edit the spec or start a build
    MaxBuild,   \* bound: builds in a behaviour
    MaxLine     \* bound: lines a builder prints on each of its streams

ASSUME ServerAssumption == MaxBuild \in Nat /\ MaxLine \in Nat

Build == 1 .. MaxBuild
Stream == {"stdout", "stderr"}

VARIABLES
    file,     \* the spec file
    request,  \* the handlers of the requests
    acked,    \* history: the instances there are, by the edits answered with success
    since,    \* history: for each build, the instances edited since it read the spec
    clashed,  \* history: requests that read or rewrote the file while a build rewrote it
    doubted,  \* history: instances whose last edit such a clash or a build has undone
    running,  \* r.running; r.status is BuildRunning exactly when it is TRUE
    build,    \* the execute goroutine of each build
    draft,    \* the spec prepareSpecFile has read
    alive,    \* builds whose builder process runs
    printed,  \* lines the builder has printed
    pipe,     \* lines in the pipe from the builder
    scanned   \* lines streamLog has read and not yet broadcast

edits   == <<acked, since, clashed, doubted>>
editing == <<file, request, edits>>
output  == <<alive, printed, pipe, scanned>>
vars    == <<hub, editing, running, build, draft, output>>

Phase == {"none", "begun", "prepare", "read", "truncated", "written", "run",
          "waited", "ending", "done"}
Active == {b \in Build : build[b] \notin {"none", "ending", "done"}}

Message == [build : Build, text : {"start", "line", "end"}]
NoRequest == [pc |-> "new", drop |-> {}, add |-> {}, spec |-> {}]

TypeOK ==
    /\ log \in Seq(Message) /\ clients \subseteq Client /\ closed \subseteq Client
    /\ buffer \in [Client -> Seq(Nat)] /\ got \in [Client -> Seq(Nat)]
    /\ conn \in [Client -> Conn] /\ first \in [Client -> Nat]
    /\ reading \subseteq Client /\ writing \subseteq Client /\ panic \in BOOLEAN
    /\ \A c \in Client : Len(buffer[c]) <= SendCap
    /\ file.is \in {"spec", "empty", "torn"} /\ file.has \subseteq Instance
    /\ \A q \in Request :
          /\ request[q].pc \in {"new", "locked", "truncated", "checked", "done"}
          /\ request[q].spec \subseteq Instance
    /\ Cardinality({q \in Request : request[q].pc \in {"locked", "truncated"}}) <= 1
    /\ acked \subseteq Instance /\ since \in [Build -> SUBSET Instance]
    /\ clashed \subseteq Request /\ doubted \subseteq Instance /\ running \in BOOLEAN
    /\ build \in [Build -> Phase] /\ draft \in [Build -> SUBSET Instance]
    /\ alive \subseteq {b \in Build : build[b] = "run"}
    /\ \A count \in {printed, pipe, scanned} : count \in [Build -> [Stream -> 0 .. MaxLine]]

Zero == [b \in Build |-> [s \in Stream |-> 0]]

Init ==
    /\ HubInit
    /\ \E has \in SUBSET Instance :
          file = [is |-> "spec", has |-> has] /\ acked = has
    /\ request = [q \in Request |-> NoRequest]
    /\ since = [b \in Build |-> {}] /\ clashed = {} /\ doubted = {}
    /\ running = FALSE
    /\ build = [b \in Build |-> "none"]
    /\ draft = [b \in Build |-> {}]
    /\ alive = {} /\ printed = Zero /\ pipe = Zero /\ scanned = Zero

-----------------------------------------------------------------------------
(***************************************************************************)
(* The spec file.                                                          *)
(***************************************************************************)
Holds(q) == request[q].pc \in {"locked", "truncated"}
Locked == \E q \in Request : Holds(q)

\* readFile: an empty file is a spec without instances, a torn one no spec.
Readable == file.is # "torn"

Truncate == file' = [is |-> "empty", has |-> {}]

\* The write that follows: over the content another writer has put there since,
\* the longer text shows through.
Overwrite(has) ==
    \/ file' = [is |-> "spec", has |-> has]
    \/ file.is # "empty" /\ file' = [is |-> "torn", has |-> {}]

Few == {has \in SUBSET Instance : Cardinality(has) <= 1}

\* Who is between the truncation and the write, and the builds that will write what they
\* have read.
Rewriting == {b \in Build : build[b] = "truncated"}
Updating  == {q \in Request : request[q].pc = "truncated"}
Preparing == {b \in Build : build[b] \in {"read", "truncated"}}

Clash(requests) == IF Rewriting = {} THEN clashed ELSE clashed \cup requests

\* Mutant of BeginUpdate: Update does not take the lock of the store.
BeginUnlocked(q, drop, add) ==
    /\ request[q].pc = "new" /\ Readable
    /\ drop \subseteq file.has /\ (add \ drop) \cap file.has = {}
    /\ request' = [request EXCEPT ![q] =
          [pc |-> "locked", drop |-> drop, add |-> add,
           spec |-> (file.has \ drop) \cup add]]
    /\ clashed' = Clash({q})
    /\ UNCHANGED <<hub, file, acked, since, doubted, running, build, draft, output>>

\* Update: take the lock, read, change.  create-instance adds an instance,
\* delete-instance drops one, update-instance drops one and adds the same or
\* another, update-settings does neither; a duplicate and an unknown instance are
\* refused.
BeginUpdate(q, drop, add) ==
    /\ request[q].pc = "new" /\ ~Locked /\ Readable
    /\ drop \subseteq file.has /\ (add \ drop) \cap file.has = {}
    /\ request' = [request EXCEPT ![q] =
          [pc |-> "locked", drop |-> drop, add |-> add,
           spec |-> (file.has \ drop) \cup add]]
    /\ clashed' = Clash({q})
    /\ UNCHANGED <<hub, file, acked, since, doubted, running, build, draft, output>>

TruncateUpdate(q) ==
    /\ request[q].pc = "locked"
    /\ Truncate
    /\ request' = [request EXCEPT ![q].pc = "truncated"]
    /\ clashed' = Clash({q})
    /\ UNCHANGED <<hub, acked, since, doubted, running, build, draft, output>>

Edited(q) == request[q].drop \cup request[q].add

\* The file is written, the lock released, the request answered with success.
WriteUpdate(q) ==
    /\ request[q].pc = "truncated"
    /\ Overwrite(request[q].spec)
    /\ request' = [request EXCEPT ![q].pc = "done"]
    /\ acked' = (acked \ request[q].drop) \cup request[q].add
    /\ since' = [b \in Build |-> IF b \in Preparing THEN since[b] \cup Edited(q) ELSE since[b]]
    /\ doubted' = IF q \in clashed THEN Instance ELSE doubted \ Edited(q)
    /\ UNCHANGED <<hub, clashed, running, build, draft, output>>

UpdateStep(q) == TruncateUpdate(q) \/ WriteUpdate(q)

-----------------------------------------------------------------------------
(***************************************************************************)
(* A build.                                                                *)
(***************************************************************************)
Enter(b, phase) == build' = [build EXCEPT ![b] = phase]

\* build-instances: the spec must have instances.
CheckSpec(q) ==
    /\ request[q].pc = "new" /\ ~Locked /\ Readable /\ file.has # {}
    /\ request' = [request EXCEPT ![q].pc = "checked"]
    /\ UNCHANGED <<hub, file, edits, running, build, draft, output>>

\* Mutant of RunBuild: a second build is not refused.
RunBuildAnyway(q, b) ==
    /\ request[q].pc = "checked" /\ build[b] = "none"
    /\ running' = TRUE /\ Enter(b, "begun")
    /\ request' = [request EXCEPT ![q].pc = "done"]
    /\ UNCHANGED <<hub, file, edits, draft, output>>

RunBuild(q, b) ==
    /\ request[q].pc = "checked" /\ build[b] = "none" /\ ~running
    /\ running' = TRUE /\ Enter(b, "begun")
    /\ request' = [request EXCEPT ![q].pc = "done"]
    /\ UNCHANGED <<hub, file, edits, draft, output>>

Announce(b) ==
    /\ build[b] = "begun"
    /\ Enter(b, "prepare") /\ Publish([build |-> b, text |-> "start"])
    /\ UNCHANGED <<editing, running, draft, output>>

\* Mutant of Abandon: an early return without finish.
AbandonSilently(b) ==
    /\ Enter(b, "done")
    /\ UNCHANGED <<hub, editing, running, draft, output>>

\* finish(err) before the builder runs.
Abandon(b) ==
    /\ running' = FALSE /\ Enter(b, "ending")
    /\ UNCHANGED <<hub, editing, draft, output>>

\* prepareSpecFile, first half: GetSpec.
ReadSpec(b) ==
    /\ build[b] = "prepare" /\ ~Locked
    /\ IF Readable
       THEN /\ Enter(b, "read") /\ draft' = [draft EXCEPT ![b] = file.has]
            /\ UNCHANGED <<hub, editing, running, output>>
       ELSE Abandon(b)

\* prepareSpecFile, second half: os.WriteFile, without the store's lock.
TruncateSpec(b) ==
    /\ build[b] = "read"
    /\ \/ /\ Enter(b, "truncated") /\ Truncate
          /\ clashed' = clashed \cup Updating
          /\ UNCHANGED <<hub, request, acked, since, doubted, running, draft, output>>
       \/ Abandon(b)

WriteSpec(b) ==
    /\ build[b] = "truncated"
    /\ Enter(b, "written") /\ Overwrite(draft[b])
    /\ doubted' = IF Updating # {} THEN Instance ELSE doubted \cup since[b]
    /\ UNCHANGED <<hub, request, acked, since, clashed, running, draft, output>>

\* cmd.Start, and the two goroutines that stream the output.
StartBuilder(b) ==
    /\ build[b] = "written"
    /\ \/ /\ Enter(b, "run") /\ alive' = alive \cup {b}
          /\ UNCHANGED <<hub, editing, running, draft, printed, pipe, scanned>>
       \/ Abandon(b)

\* streamLog: the scanner takes what the pipe holds.
Scan(b, s) ==
    /\ build[b] = "run" /\ pipe[b][s] > 0
    /\ scanned' = [scanned EXCEPT ![b][s] = @ + pipe[b][s]]
    /\ pipe' = [pipe EXCEPT ![b][s] = 0]
    /\ UNCHANGED <<hub, editing, running, build, draft, alive, printed>>

BroadcastLine(b, s) ==
    /\ scanned[b][s] > 0
    /\ scanned' = [scanned EXCEPT ![b][s] = @ - 1]
    /\ Publish([build |-> b, text |-> "line"])
    /\ UNCHANGED <<editing, running, build, draft, alive, printed, pipe>>

\* cmd.Wait returns once the process is gone and closes the pipes: what nobody
\* has scanned by then is lost.
WaitReturns(b) ==
    /\ build[b] = "run" /\ b \notin alive
    /\ Enter(b, "waited")
    /\ pipe' = [pipe EXCEPT ![b] = [s \in Stream |-> 0]]
    /\ UNCHANGED <<hub, editing, running, draft, alive, printed, scanned>>

\* Mutant of Finish: execute does not wait for the two streams.
FinishEarly(b) ==
    /\ build[b] = "waited"
    /\ running' = FALSE /\ Enter(b, "ending")
    /\ UNCHANGED <<hub, editing, draft, output>>

\* wg.Wait and the first half of finish.
Finish(b) ==
    /\ build[b] = "waited" /\ \A s \in Stream : scanned[b][s] = 0
    /\ running' = FALSE /\ Enter(b, "ending")
    /\ UNCHANGED <<hub, editing, draft, output>>

\* The second half of finish, with the next build free to start.
Conclude(b) ==
    /\ build[b] = "ending"
    /\ Enter(b, "done") /\ Publish([build |-> b, text |-> "end"])
    /\ UNCHANGED <<editing, running, draft, output>>

BuildStep(b) ==
    \/ Announce(b) \/ ReadSpec(b) \/ TruncateSpec(b) \/ WriteSpec(b)
    \/ StartBuilder(b) \/ WaitReturns(b) \/ Finish(b) \/ Conclude(b)

StreamStep(b, s) == Scan(b, s) \/ BroadcastLine(b, s)

\* The builder process.
PrintLine(b, s) ==
    /\ b \in alive /\ printed[b][s] < MaxLine
    /\ printed' = [printed EXCEPT ![b][s] = @ + 1]
    /\ pipe' = [pipe EXCEPT ![b][s] = @ + 1]
    /\ UNCHANGED <<hub, editing, running, build, draft, alive, scanned>>

Exit(b) ==
    /\ b \in alive
    /\ alive' = alive \ {b}
    /\ UNCHANGED <<hub, editing, running, build, draft, printed, pipe, scanned>>

-----------------------------------------------------------------------------
Next ==
    \/ \E q \in Request :
          \/ \E drop, add \in Few : BeginUpdate(q, drop, add)
          \/ UpdateStep(q)
          \/ CheckSpec(q)
          \/ \E b \in Build : RunBuild(q, b)
    \/ \E b \in Build :
          \/ BuildStep(b) \/ Exit(b)
          \/ \E s \in Stream : StreamStep(b, s) \/ PrintLine(b, s)
    \/ \E c \in Client :
          ClientStep(c) /\ UNCHANGED <<editing, running, build, draft, output>>

Spec == Init /\ [][Next]_vars

\* Goroutines are scheduled; requests, builders and peers owe nothing.
Fairness ==
    /\ \A q \in Request : WF_vars(UpdateStep(q))
    /\ \A b \in Build : WF_vars(BuildStep(b))
    /\ \A b \in Build, s \in Stream : WF_vars(StreamStep(b, s))
    /\ \A c \in Client :
          WF_vars(Pump(c) /\ UNCHANGED <<editing, running, build, draft, output>>)

FairSpec == Spec /\ Fairness

-----------------------------------------------------------------------------
\* One build at a time, and the status says so (RunBuild, finish).
OneBuild ==
    /\ \A b, d \in Active : b = d
    /\ running <=> Active # {}

\* The log of a build starts with its announcement and ends with its result:
\* no line of its streams comes after (wg.Wait in execute).
LogInOrder ==
    \A i, j \in 1 .. Len(log) : i < j /\ log[i].build = log[j].build =>
        log[i].text # "end" /\ log[j].text # "start"

\* What the store has answered with success is in the spec file whenever nobody rewrites
\* it: each instance is there or not as its last edit says (Update), but where a build has
\* written back what it had read before that edit, or the two rewrote the file at once
\* (prepareSpecFile does not take the lock).
EditsKept ==
    Updating = {} /\ Rewriting = {} =>
        \A i \in Instance \ doubted : file.is = "spec" /\ (i \in file.has <=> i \in acked)

\* The server becomes free for the next build and the log says how this one
\* ended, unless the builder runs for ever (every return of execute).
BuildEnds ==
    /\ running ~> ~running \/ alive # {}
    /\ \A b \in Build : b \in Active /\ b \notin alive ~>
          b \in alive \/ [build |-> b, text |-> "end"] \in {log[i] : i \in 1 .. Len(log)}

\* The hub keeps its promise to the clients of the log.
Promise ==
    INSTANCE LogStream WITH
        live <- clients,
        upto <- [c \in Client |-> first[c] + Len(got[c]) + Len(buffer[c])]

ServesLogStream == Promise!Spec
================================================================================
