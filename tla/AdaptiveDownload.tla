---------------------------- MODULE AdaptiveDownload ----------------------------
(***************************************************************************)
(* The adaptive downloader (utils/src/adaptive_download.rs): download_files *)
(* fetches a list of files, several at a time, puts a file back in the list *)
(* when its download fails in a way that may pass, and adapts the number of *)
(* downloads that run together to the last results.                        *)
(*                                                                         *)
(* The downloads are polled by the loop that handles their results: one    *)
(* that ends and the handling of its result are one step.                  *)
(*                                                                         *)
(* Simplifications.  Any waiting file may be the next (the code takes the  *)
(* last).  The success rate and the latency of the sliding window are any: *)
(* a window may hold nothing but the last result.  A temporary file lives  *)
(* as long as the download that writes it (TempFileGuard) and is left out, *)
(* and so is the file the download replaces.                               *)
(***************************************************************************)
EXTENDS Integers, FiniteSets

CONSTANTS
    Task,         \* the files to download, all different
    Unknown,      \* a size the manifest does not give
    MaxSize,      \* bound: the largest size, and chunks of a body
    MAX_CONCURRENCY,
    MIN_CONCURRENCY,
    InitialConcurrency,
    UPDATE_CONCURRENCY_EVERY,
    MAX_TIMEOUTS_AT_MIN_CONCURRENCY

ASSUME DownloadAssumption ==
    /\ IsFiniteSet(Task) /\ Task # {}
    /\ MaxSize \in Nat /\ Unknown \notin Nat
    /\ MAX_CONCURRENCY \in Nat /\ InitialConcurrency \in Nat
    /\ MIN_CONCURRENCY = 1
    /\ InitialConcurrency \in MIN_CONCURRENCY .. MAX_CONCURRENCY
    /\ UPDATE_CONCURRENCY_EVERY \in Nat \ {0}
    /\ MAX_TIMEOUTS_AT_MIN_CONCURRENCY \in Nat \ {0}

VARIABLES
    size,      \* task.size
    queue,     \* cur_tasks
    active,    \* active: the downloads under way
    body,      \* those whose response has arrived
    counted,   \* bytes a download has added to the progress (ChunkProgress)
    done,      \* files in place
    progress,  \* what the progress tracker shows
    desired,   \* desired_concurrency
    next,      \* next_concurrency_update
    timeouts,  \* timeouts_at_min_concurrency
    result,    \* of download_files
    fails      \* history: failed downloads since the last success

files      == <<queue, active, body, counted, done, progress>>
controller == <<desired, next, timeouts>>
vars       == <<size, files, controller, result, fails>>

Result == {"running", "ok", "timeout", "failed", "dropped"}

\* No more failures than this in a row: every UPDATE_CONCURRENCY_EVERY of them
\* take one off the concurrency, or count as a timeout at the lowest.
MostFailures ==
    UPDATE_CONCURRENCY_EVERY * (MAX_CONCURRENCY - 1 + MAX_TIMEOUTS_AT_MIN_CONCURRENCY)

TypeOK ==
    /\ size \in [Task -> (0 .. MaxSize) \cup {Unknown}]
    /\ queue \subseteq Task /\ active \subseteq Task /\ body \subseteq active
    /\ done \subseteq Task
    /\ counted \in [Task -> 0 .. MaxSize]
    /\ progress \in Int
    /\ desired \in MIN_CONCURRENCY .. MAX_CONCURRENCY
    /\ next \in 1 .. UPDATE_CONCURRENCY_EVERY
    /\ timeouts \in 0 .. MAX_TIMEOUTS_AT_MIN_CONCURRENCY - 1
    /\ result \in Result
    /\ fails \in 0 .. MostFailures + 1

-----------------------------------------------------------------------------
\* byte_total: the progress counts bytes if every size is known, files if not.
Bytes == \A t \in Task : size[t] # Unknown

\* spawn_if_possible: downloads start until enough run or none waits.
SpawnIfPossible(waiting, running) ==
    \E some \in SUBSET waiting :
        /\ some # {} => Cardinality(running \cup some) <= desired'
        /\ some # waiting => Cardinality(running \cup some) >= desired'
        /\ queue' = waiting \ some
        /\ active' = running \cup some

Init ==
    /\ size \in [Task -> (0 .. MaxSize) \cup {Unknown}]
    /\ \E some \in SUBSET Task :
          /\ some # Task => Cardinality(some) = InitialConcurrency
          /\ Cardinality(some) <= InitialConcurrency
          /\ queue = Task \ some /\ active = some
    /\ body = {} /\ done = {}
    /\ counted = [t \in Task |-> 0] /\ progress = 0
    /\ desired = InitialConcurrency
    /\ next = UPDATE_CONCURRENCY_EVERY /\ timeouts = 0
    /\ result = "running" /\ fails = 0

-----------------------------------------------------------------------------
(***************************************************************************)
(* The controller.                                                         *)
(***************************************************************************)
DivCeil(a, b) == (a + b - 1) \div b

\* Mutant of Lowered: the floor is forgotten.
LoweredTooFar(current) == current - DivCeil(current, 4)

\* The concurrency after a failure that counts.
Lowered(current) ==
    LET less == current - DivCeil(current, 4)
    IN  IF less > MIN_CONCURRENCY THEN less ELSE MIN_CONCURRENCY

\* The concurrency after a success that counts: a good window raises it.
Raised(current) ==
    {current, IF current < MAX_CONCURRENCY THEN current + 1 ELSE MAX_CONCURRENCY}

Updates == next = 1

Countdown == next' = IF Updates THEN UPDATE_CONCURRENCY_EVERY ELSE next - 1

\* Mutant of SetConcurrency: reaching the lowest concurrency and staying there
\* are not told apart.
SetConcurrencyAgain(new, count) ==
    /\ desired' = new
    /\ timeouts' = IF new = MIN_CONCURRENCY THEN 0 ELSE count

\* A new value is stored, and the timeouts start from zero at the lowest.
SetConcurrency(new, count) ==
    /\ desired' = new
    /\ timeouts' = IF new # desired /\ new = MIN_CONCURRENCY THEN 0 ELSE count

\* The failure that just came counts as a timeout at the lowest concurrency.
AtMin == Updates /\ desired = MIN_CONCURRENCY

LastTimeout == AtMin /\ timeouts + 1 >= MAX_TIMEOUTS_AT_MIN_CONCURRENCY

AfterSuccess ==
    /\ Countdown
    /\ IF Updates
       THEN \E new \in Raised(desired) : SetConcurrency(new, timeouts)
       ELSE UNCHANGED <<desired, timeouts>>

AfterFailure ==
    /\ ~LastTimeout
    /\ Countdown
    /\ IF Updates
       THEN SetConcurrency(Lowered(desired), IF AtMin THEN timeouts + 1 ELSE timeouts)
       ELSE UNCHANGED <<desired, timeouts>>

-----------------------------------------------------------------------------
(***************************************************************************)
(* A download.                                                             *)
(***************************************************************************)

\* The response arrives.  No timeout covers the wait for it.
Respond(t) ==
    /\ result = "running" /\ t \in active \ body
    /\ body' = body \cup {t}
    /\ UNCHANGED <<size, queue, active, counted, done, progress, controller, result, fails>>

\* A chunk of the body.
Chunk(t) ==
    /\ result = "running" /\ t \in body /\ counted[t] < MaxSize
    /\ counted' = [counted EXCEPT ![t] = @ + 1]
    /\ progress' = IF Bytes THEN progress + 1 ELSE progress
    /\ UNCHANGED <<size, queue, active, body, done, controller, result, fails>>

\* The loop ends when nothing is active.
LoopEnds == result' = IF active' = {} THEN "ok" ELSE "running"

\* The file is renamed into place, and the progress corrected to the size the
\* manifest gives (reconcile).
Succeed(t) ==
    /\ result = "running" /\ t \in body
    /\ AfterSuccess
    /\ SpawnIfPossible(queue, active \ {t})
    /\ body' = body \ {t} /\ done' = done \cup {t}
    /\ counted' = [counted EXCEPT ![t] = 0]
    /\ progress' = IF Bytes THEN progress - counted[t] + size[t] ELSE progress + 1
    /\ LoopEnds /\ fails' = 0 /\ UNCHANGED size

OneMoreFailure == fails' = IF fails <= MostFailures THEN fails + 1 ELSE fails

\* Mutant of RollBack: the bytes of the failed download stay counted.
RollBackNothing(t) == progress' = progress

\* roll_back: what the failed download has counted is taken off again.
RollBack(t) == progress' = IF Bytes THEN progress - counted[t] ELSE progress

\* A failure that may pass, of the request or of a chunk: the file waits again.
Retry(t) ==
    /\ result = "running" /\ t \in active
    /\ AfterFailure
    /\ SpawnIfPossible(queue \cup {t}, active \ {t})
    /\ body' = body \ {t}
    /\ counted' = [counted EXCEPT ![t] = 0]
    /\ RollBack(t)
    /\ LoopEnds /\ OneMoreFailure /\ UNCHANGED <<size, done>>

\* The other downloads are dropped with the loop.
Return(how) ==
    /\ result' = how
    /\ queue' = queue \cup active /\ active' = {} /\ body' = {}
    /\ counted' = [t \in Task |-> 0]
    /\ UNCHANGED <<size, done, desired>>

GiveUp(t) ==
    /\ result = "running" /\ t \in active
    /\ LastTimeout /\ Countdown
    /\ Return("timeout") /\ RollBack(t)
    /\ OneMoreFailure /\ UNCHANGED timeouts

\* Any other failure, of the request or of a file operation.
Fail(t) ==
    /\ result = "running" /\ t \in active
    /\ Return("failed") /\ RollBack(t)
    /\ UNCHANGED <<next, timeouts, fails>>

\* The caller drops the future: its task is aborted.
Drop ==
    /\ result = "running"
    /\ Return("dropped")
    /\ UNCHANGED <<next, timeouts, progress, fails>>

Attempt(t) ==
    \/ Respond(t) \/ Chunk(t) \/ Succeed(t) \/ Retry(t) \/ GiveUp(t) \/ Fail(t)

Next == Drop \/ \E t \in Task : Attempt(t)

Spec == Init /\ [][Next]_vars

\* A download moves on: the peer answers or its connection breaks, and a body
\* that stops is cut off after REQUEST_TIMEOUT.
FairSpec == Spec /\ \A t \in Task : WF_vars(Attempt(t))

-----------------------------------------------------------------------------
\* Success means that every file is in place: the loop never ends because
\* nothing is active while files wait (active.next() is None).
OkMeansComplete ==
    /\ result = "ok" => done = Task
    /\ result = "running" => active # {}

\* The bytes f counts of the files of S, one by one, and how many they are.
BytesOf(f, S) == {byte \in S \X (1 .. MaxSize) : byte[2] <= f[byte[1]]}
SumOf(f, S) == Cardinality(BytesOf(f, S))

\* The progress is what is in place and what is under way, whatever failed or
\* differed from the manifest on the way, and reaches its total (ChunkProgress).
ProgressIsExact ==
    result \in {"running", "ok"} =>
        progress = IF Bytes THEN SumOf(size, done) + SumOf(counted, active)
                            ELSE Cardinality(done)

\* A connection that has failed for good is given up after a bounded number of
\* failures in a row, wherever the concurrency stood ("connection timed out
\* after retries").
GivesUpInTime == fails <= MostFailures

\* download_files returns (the loop).
Ends == <>(result # "running")
================================================================================
