------------------------- MODULE AdaptiveDownload_proofs -------------------------
(***************************************************************************)
(* Proofs about AdaptiveDownload, for any list of files and any limits: a  *)
(* result of "ok" means that every file is in place, a connection that has *)
(* failed for good is given up in time, and the progress shown is exact.   *)
(***************************************************************************)
EXTENDS AdaptiveDownload, FiniteSetTheorems, TLAPS

USE DownloadAssumption

\* The failures that count to the end, from concurrency d after t timeouts, if
\* nothing succeeds.
Left(d, t) ==
    IF d = MIN_CONCURRENCY THEN MAX_TIMEOUTS_AT_MIN_CONCURRENCY - t
                           ELSE d - 1 + MAX_TIMEOUTS_AT_MIN_CONCURRENCY

AllLeft == MAX_CONCURRENCY - 1 + MAX_TIMEOUTS_AT_MIN_CONCURRENCY

Spent(d, t) == AllLeft - Left(d, t)

\* The failures in a row fit into the counted ones and those since the last one.
Budget ==
    fails <= UPDATE_CONCURRENCY_EVERY * Spent(desired, timeouts)
             + (UPDATE_CONCURRENCY_EVERY - next)

\* No file is lost between the list, the downloads and the disk.
NothingLost == Task \subseteq queue \cup active \cup done

Inv ==
    /\ TypeOK /\ NothingLost /\ OkMeansComplete /\ GivesUpInTime
    /\ result = "running" => Budget

-----------------------------------------------------------------------------
(***************************************************************************)
(* The controller.                                                         *)
(***************************************************************************)

\* A failure that counts lowers the concurrency, down to its floor (div_ceil,
\* max).
LEMMA Lowers ==
    ASSUME NEW d \in MIN_CONCURRENCY .. MAX_CONCURRENCY
    PROVE  /\ Lowered(d) \in MIN_CONCURRENCY .. MAX_CONCURRENCY
           /\ d = MIN_CONCURRENCY => Lowered(d) = d
           /\ d # MIN_CONCURRENCY => Lowered(d) <= d - 1
<1>1. d \in Nat /\ d >= 1 /\ DivCeil(d, 4) = (d + 3) \div 4
  BY DEF DivCeil
<1>2. (d + 3) \div 4 \in Int /\ (d + 3) \div 4 >= 1
  BY <1>1
<1> QED
  BY <1>1, <1>2 DEF Lowered

\* After a success the controller is in its bounds.
LEMMA SuccessTypes ==
    ASSUME TypeOK, AfterSuccess
    PROVE  /\ desired' \in MIN_CONCURRENCY .. MAX_CONCURRENCY
           /\ next' \in 1 .. UPDATE_CONCURRENCY_EVERY
           /\ timeouts' \in 0 .. MAX_TIMEOUTS_AT_MIN_CONCURRENCY - 1
<1>1. next' \in 1 .. UPDATE_CONCURRENCY_EVERY
  BY DEF TypeOK, AfterSuccess, Countdown, Updates
<1>2. \A new \in Raised(desired) : new \in MIN_CONCURRENCY .. MAX_CONCURRENCY
  BY DEF TypeOK, Raised
<1> QED
  BY <1>1, <1>2 DEF TypeOK, AfterSuccess, SetConcurrency

\* After a failure that is not the last the controller is in its bounds.
LEMMA FailureTypes ==
    ASSUME TypeOK, AfterFailure
    PROVE  /\ desired' \in MIN_CONCURRENCY .. MAX_CONCURRENCY
           /\ next' \in 1 .. UPDATE_CONCURRENCY_EVERY
           /\ timeouts' \in 0 .. MAX_TIMEOUTS_AT_MIN_CONCURRENCY - 1
<1>1. next' \in 1 .. UPDATE_CONCURRENCY_EVERY
  BY DEF TypeOK, AfterFailure, Countdown, Updates
<1>2. Lowered(desired) \in MIN_CONCURRENCY .. MAX_CONCURRENCY
  BY Lowers DEF TypeOK
<1> QED
  BY <1>1, <1>2 DEF TypeOK, AfterFailure, SetConcurrency, LastTimeout, AtMin

\* At least one counted failure is left, and never more than at the highest
\* concurrency.
LEMMA LeftBounds ==
    ASSUME NEW d \in MIN_CONCURRENCY .. MAX_CONCURRENCY,
           NEW t \in 0 .. MAX_TIMEOUTS_AT_MIN_CONCURRENCY - 1
    PROVE  /\ Left(d, t) \in Nat /\ Spent(d, t) \in Nat /\ AllLeft \in Nat
           /\ Spent(d, t) + 1 <= AllLeft
BY DEF Left, AllLeft, Spent

\* A lower concurrency leaves less.
LEMMA SpentDrops ==
    ASSUME NEW d \in MIN_CONCURRENCY .. MAX_CONCURRENCY, NEW e \in MIN_CONCURRENCY .. MAX_CONCURRENCY,
           NEW t \in 0 .. MAX_TIMEOUTS_AT_MIN_CONCURRENCY - 1,
           NEW u \in 0 .. MAX_TIMEOUTS_AT_MIN_CONCURRENCY - 1,
           e <= d - 1
    PROVE  Spent(d, t) + 1 <= Spent(e, u)
<1>1. d # MIN_CONCURRENCY /\ Left(d, t) = d - 1 + MAX_TIMEOUTS_AT_MIN_CONCURRENCY
  BY DEF Left
<1>2. Left(e, u) <= e - 1 + MAX_TIMEOUTS_AT_MIN_CONCURRENCY /\ Left(e, u) \in Nat
  BY DEF Left
<1>3. Left(e, u) + 1 <= Left(d, t)
  BY <1>1, <1>2
<1> QED
  BY <1>1, <1>2, <1>3 DEF Spent, AllLeft

\* A counted failure uses one up.
LEMMA CountedFailure ==
    ASSUME TypeOK, AfterFailure, Updates
    PROVE  Spent(desired, timeouts) + 1 <= Spent(desired', timeouts')
<1>1. /\ desired \in Int /\ 1 <= desired /\ desired <= MAX_CONCURRENCY
      /\ timeouts \in Int /\ 0 <= timeouts /\ timeouts <= MAX_TIMEOUTS_AT_MIN_CONCURRENCY - 1
  BY DEF TypeOK
<1>2. CASE desired = MIN_CONCURRENCY
  <2>1. desired' = desired /\ timeouts' = timeouts + 1
    BY <1>2, Lowers DEF TypeOK, AfterFailure, SetConcurrency, AtMin
  <2> QED
    BY <1>1, <1>2, <2>1 DEF Left, Spent, AllLeft
<1>3. CASE desired # MIN_CONCURRENCY
  <2>1. desired' = Lowered(desired) /\ desired' <= desired - 1
    BY <1>1, <1>3, Lowers DEF TypeOK, AfterFailure, SetConcurrency
  <2> QED
    BY <2>1, FailureTypes, SpentDrops DEF TypeOK
<1> QED
  BY <1>2, <1>3

-----------------------------------------------------------------------------
(***************************************************************************)
(* The failures in a row.                                                  *)
(***************************************************************************)

\* Counted failures come UPDATE_CONCURRENCY_EVERY apart.
LEMMA Products ==
    ASSUME NEW e \in Nat, NEW i \in Nat, NEW k \in Nat, i + 1 <= k
    PROVE  /\ e * i \in Nat /\ e * k \in Nat
           /\ e * i + e <= e * k
<1>1. PICK j \in Nat : k = (i + 1) + j
  <2>1. k - (i + 1) \in Nat /\ k = (i + 1) + (k - (i + 1))
    OBVIOUS
  <2> QED
    BY <2>1
<1>2. e * ((i + 1) + j) = e * i + e + e * j
  OBVIOUS
<1>3. e * i \in Nat /\ e * j \in Nat
  OBVIOUS
<1> QED
  BY <1>1, <1>2, <1>3

\* What is spent costs less than the bound.
LEMMA SpentBound ==
    ASSUME NEW d \in MIN_CONCURRENCY .. MAX_CONCURRENCY,
           NEW t \in 0 .. MAX_TIMEOUTS_AT_MIN_CONCURRENCY - 1
    PROVE  /\ UPDATE_CONCURRENCY_EVERY * Spent(d, t) \in Nat
           /\ UPDATE_CONCURRENCY_EVERY * Spent(d, t) + UPDATE_CONCURRENCY_EVERY <= MostFailures
           /\ MostFailures \in Nat
<1>1. Spent(d, t) \in Nat /\ AllLeft \in Nat /\ Spent(d, t) + 1 <= AllLeft
  BY LeftBounds
<1>2. MostFailures = UPDATE_CONCURRENCY_EVERY * AllLeft
  BY DEF MostFailures, AllLeft
<1> QED
  BY <1>1, <1>2, Products

\* The budget leaves room for one more failure below the bound.
LEMMA BudgetBound ==
    ASSUME TypeOK, Budget
    PROVE  fails + 1 <= MostFailures
<1>1. /\ UPDATE_CONCURRENCY_EVERY * Spent(desired, timeouts) \in Nat /\ MostFailures \in Nat
      /\ UPDATE_CONCURRENCY_EVERY * Spent(desired, timeouts) + UPDATE_CONCURRENCY_EVERY
            <= MostFailures
  BY SpentBound DEF TypeOK
<1>2. fails \in Int /\ next \in Int /\ next >= 1
  BY DEF TypeOK
<1> QED
  BY <1>1, <1>2 DEF Budget

\* A success starts the count again.
LEMMA SuccessBudget ==
    ASSUME TypeOK, AfterSuccess, fails' = 0
    PROVE  Budget' /\ GivesUpInTime'
<1>1. /\ UPDATE_CONCURRENCY_EVERY * Spent(desired', timeouts') \in Nat /\ MostFailures \in Nat
  BY SuccessTypes, SpentBound
<1>2. next' \in Int /\ next' <= UPDATE_CONCURRENCY_EVERY
  BY SuccessTypes
<1> QED
  BY <1>1, <1>2 DEF Budget, GivesUpInTime

\* A failure stays within the budget: the one that counts pays for the ones
\* before it.
LEMMA FailureBudget ==
    ASSUME TypeOK, Budget, AfterFailure, OneMoreFailure
    PROVE  Budget'
<1>1. fails' = fails + 1
  BY BudgetBound DEF OneMoreFailure, TypeOK, MostFailures
<1>2. /\ UPDATE_CONCURRENCY_EVERY * Spent(desired, timeouts) \in Nat
      /\ Spent(desired, timeouts) \in Nat
      /\ UPDATE_CONCURRENCY_EVERY * Spent(desired', timeouts') \in Nat
      /\ Spent(desired', timeouts') \in Nat
  BY SpentBound, LeftBounds, FailureTypes DEF TypeOK
<1>3. fails \in Int /\ next \in Int /\ next >= 1
  BY DEF TypeOK
<1>4. CASE Updates
  <2>1. UPDATE_CONCURRENCY_EVERY * Spent(desired, timeouts) + UPDATE_CONCURRENCY_EVERY
          <= UPDATE_CONCURRENCY_EVERY * Spent(desired', timeouts')
    BY <1>2, <1>4, CountedFailure, Products
  <2>2. next = 1 /\ next' = UPDATE_CONCURRENCY_EVERY
    BY <1>4 DEF Updates, AfterFailure, Countdown
  <2>3. fails + 1 <= UPDATE_CONCURRENCY_EVERY * Spent(desired, timeouts) + UPDATE_CONCURRENCY_EVERY
    BY <1>2, <1>3, <2>2 DEF Budget
  <2>4. fails' <= UPDATE_CONCURRENCY_EVERY * Spent(desired', timeouts')
    BY <1>1, <1>2, <1>3, <2>1, <2>3
  <2> QED
    BY <1>2, <2>2, <2>4, <1>1, <1>3 DEF Budget
<1>5. CASE ~Updates
  <2>1. desired' = desired /\ timeouts' = timeouts /\ next' = next - 1
    BY <1>5 DEF AfterFailure, Countdown
  <2> QED
    BY <1>1, <1>2, <1>3, <2>1 DEF Budget
<1> QED
  BY <1>4, <1>5

-----------------------------------------------------------------------------
(***************************************************************************)
(* The downloads.                                                          *)
(***************************************************************************)

\* Starting downloads moves files from the list, and leaves none waiting while
\* nothing is active (spawn_if_possible).
LEMMA Spawns ==
    ASSUME NEW waiting \in SUBSET Task, NEW others \in SUBSET Task,
           desired' \in MIN_CONCURRENCY .. MAX_CONCURRENCY,
           SpawnIfPossible(waiting, others)
    PROVE  /\ queue' \subseteq Task /\ active' \subseteq Task
           /\ others \subseteq active' /\ queue' \cup active' = waiting \cup others
           /\ active' = {} => queue' = {}
<1>1. PICK some \in SUBSET waiting :
          /\ some # waiting => Cardinality(others \cup some) >= desired'
          /\ queue' = waiting \ some /\ active' = others \cup some
  BY DEF SpawnIfPossible
<1>2. ASSUME active' = {}, queue' # {} PROVE FALSE
  <2>1. others \cup some = {} /\ some # waiting
    BY <1>1, <1>2
  <2>2. Cardinality(others \cup some) = 0
    BY <2>1, FS_EmptySet
  <2> QED
    BY <1>1, <2>1, <2>2
<1> QED
  BY <1>1, <1>2

\* The loop goes on with something active, or ends with nothing left to do.
LEMMA LoopIsComplete ==
    ASSUME NothingLost', LoopEnds, active' = {} => queue' = {}, done' \subseteq Task
    PROVE  OkMeansComplete'
BY DEF NothingLost, LoopEnds, OkMeansComplete

\* The first downloads are under way.
LEMMA Initially == Init => Inv
<1> SUFFICES ASSUME Init PROVE Inv
  OBVIOUS
<1>1. PICK some \in SUBSET Task :
          /\ some # Task => Cardinality(some) = InitialConcurrency
          /\ queue = Task \ some /\ active = some
  BY DEF Init
<1>2. some # {}
  BY <1>1, FS_EmptySet
<1>3. TypeOK
  <2>1. MostFailures \in Nat
    BY DEF MostFailures
  <2> QED
    BY <1>1, <2>1 DEF Init, TypeOK, Result
<1>4. Budget /\ GivesUpInTime
  BY <1>3, SpentBound DEF Init, Budget, GivesUpInTime, TypeOK
<1>5. NothingLost /\ OkMeansComplete
  BY <1>1, <1>2 DEF Init, NothingLost, OkMeansComplete
<1> QED
  BY <1>3, <1>4, <1>5 DEF Inv

\* A download that ends well.
LEMMA SucceedStep ==
    ASSUME Inv, NEW t \in Task, Succeed(t)
    PROVE  Inv'
<1>1. TypeOK /\ AfterSuccess /\ SpawnIfPossible(queue, active \ {t}) /\ t \in active
      /\ body' = body \ {t} /\ done' = done \cup {t} /\ fails' = 0 /\ LoopEnds
  BY DEF Inv, Succeed, TypeOK
<1>2. /\ queue' \subseteq Task /\ active' \subseteq Task
      /\ active \ {t} \subseteq active' /\ queue' \cup active' = queue \cup (active \ {t})
      /\ active' = {} => queue' = {}
  BY <1>1, Spawns, SuccessTypes DEF TypeOK
<1>3. TypeOK'
  <2>1. progress' \in Int
    <3>1. Bytes => size[t] \in Int /\ counted[t] \in Int
      BY <1>1 DEF Bytes, TypeOK
    <3> QED
      BY <1>1, <3>1 DEF Succeed, TypeOK
  <2>2. counted' \in [Task -> 0 .. MaxSize] /\ size' = size /\ result' \in Result
    BY <1>1 DEF Succeed, TypeOK, LoopEnds, Result
  <2>3. 0 \in 0 .. MostFailures + 1
    BY DEF MostFailures
  <2> QED
    BY <1>1, <1>2, <2>1, <2>2, <2>3, SuccessTypes DEF TypeOK
<1>4. NothingLost'
  BY <1>1, <1>2 DEF Inv, NothingLost
<1> QED
  BY <1>1, <1>2, <1>3, <1>4, SuccessBudget, LoopIsComplete DEF Inv, TypeOK

\* A download that fails and waits again.
LEMMA RetryStep ==
    ASSUME Inv, NEW t \in Task, Retry(t)
    PROVE  Inv'
<1>1. TypeOK /\ AfterFailure /\ SpawnIfPossible(queue \cup {t}, active \ {t}) /\ t \in active
      /\ body' = body \ {t} /\ UNCHANGED <<size, done>> /\ LoopEnds /\ OneMoreFailure /\ Budget
      /\ RollBack(t)
  BY DEF Inv, Retry
<1>2. /\ queue' \subseteq Task /\ active' \subseteq Task
      /\ active \ {t} \subseteq active' /\ queue' \cup active' = queue \cup active
      /\ active' = {} => queue' = {}
  <2>1. queue \cup {t} \in SUBSET Task /\ active \ {t} \in SUBSET Task
    BY <1>1 DEF TypeOK
  <2> QED
    BY <1>1, <2>1, Spawns, FailureTypes
<1>3. fails' = fails + 1 /\ fails + 1 <= MostFailures /\ fails \in Nat /\ MostFailures \in Nat
  BY <1>1, BudgetBound DEF OneMoreFailure, TypeOK, MostFailures
<1>4. TypeOK'
  <2>1. progress' \in Int
    BY <1>1 DEF RollBack, TypeOK
  <2>2. counted' \in [Task -> 0 .. MaxSize] /\ result' \in Result
    BY <1>1 DEF Retry, TypeOK, LoopEnds, Result
  <2>3. fails' \in 0 .. MostFailures + 1
    BY <1>3
  <2> QED
    BY <1>1, <1>2, <2>1, <2>2, <2>3, FailureTypes DEF TypeOK
<1>5. NothingLost'
  BY <1>1, <1>2 DEF Inv, NothingLost
<1>6. GivesUpInTime'
  BY <1>3 DEF GivesUpInTime
<1> QED
  BY <1>1, <1>2, <1>4, <1>5, <1>6, FailureBudget, LoopIsComplete DEF Inv, TypeOK

\* The loop is left early.
LEMMA ReturnStep ==
    ASSUME Inv, NEW how \in {"timeout", "failed", "dropped"}, result = "running", Return(how),
           next' \in 1 .. UPDATE_CONCURRENCY_EVERY, UNCHANGED timeouts,
           progress' \in Int, UNCHANGED fails \/ OneMoreFailure
    PROVE  Inv'
<1>1. TypeOK /\ Budget /\ GivesUpInTime
  BY DEF Inv
<1>2. fails' \in 0 .. MostFailures + 1 /\ GivesUpInTime'
  <2>1. fails + 1 <= MostFailures /\ fails \in Nat /\ MostFailures \in Nat
    BY <1>1, BudgetBound DEF TypeOK, MostFailures
  <2> QED
    BY <2>1 DEF OneMoreFailure, GivesUpInTime
<1>3. TypeOK'
  BY <1>1, <1>2 DEF Return, TypeOK, Result
<1>4. NothingLost' /\ OkMeansComplete'
  BY DEF Return, Inv, NothingLost, OkMeansComplete
<1> QED
  BY <1>2, <1>3, <1>4 DEF Inv, Return

\* Every step keeps the invariant.
LEMMA NextKeeps == Inv /\ [Next]_vars => Inv'
<1> SUFFICES ASSUME Inv, [Next]_vars PROVE Inv'
  OBVIOUS
<1>0. TypeOK
  BY DEF Inv
<1>1. CASE UNCHANGED vars
  BY <1>1 DEF vars, files, controller, Inv, TypeOK, NothingLost, OkMeansComplete, GivesUpInTime,
     Budget, Spent, Left
<1>2. CASE Drop
  BY <1>0, <1>2, ReturnStep DEF Drop, TypeOK
<1>3. ASSUME NEW t \in Task, Respond(t) PROVE Inv'
  BY <1>3 DEF Respond, controller, Inv, TypeOK, NothingLost, OkMeansComplete, GivesUpInTime,
     Budget, Spent, Left
<1>4. ASSUME NEW t \in Task, Chunk(t) PROVE Inv'
  <2>1. counted' \in [Task -> 0 .. MaxSize] /\ progress' \in Int
    BY <1>0, <1>4 DEF Chunk, TypeOK
  <2> QED
    BY <1>4, <2>1 DEF Chunk, controller, Inv, TypeOK, NothingLost, OkMeansComplete, GivesUpInTime,
       Budget, Spent, Left
<1>5. ASSUME NEW t \in Task, GiveUp(t) PROVE Inv'
  <2>1. next' \in 1 .. UPDATE_CONCURRENCY_EVERY /\ progress' \in Int
    BY <1>0, <1>5 DEF GiveUp, Countdown, Updates, RollBack, TypeOK
  <2> QED
    BY <1>5, <2>1, ReturnStep DEF GiveUp
<1>6. ASSUME NEW t \in Task, Fail(t) PROVE Inv'
  <2>1. next' \in 1 .. UPDATE_CONCURRENCY_EVERY /\ progress' \in Int
    BY <1>0, <1>6 DEF Fail, RollBack, TypeOK
  <2> QED
    BY <1>6, <2>1, ReturnStep DEF Fail
<1> QED
  BY <1>1, <1>2, <1>3, <1>4, <1>5, <1>6, SucceedStep, RetryStep DEF Next, Attempt

\* The invariant holds throughout.
LEMMA Invariance == Spec => []Inv
BY Initially, NextKeeps, PTL DEF Spec

\* Type correctness: the concurrency stays within its limits, and so do the
\* countdown and the timeouts (download_files).
THEOREM TypesHold == Spec => []TypeOK
<1>1. Inv => TypeOK
  BY DEF Inv
<1> QED
  BY <1>1, Invariance, PTL

\* A result of "ok" means that every file is in place (download_files).
THEOREM OkIsComplete == Spec => []OkMeansComplete
<1>1. Inv => OkMeansComplete
  BY DEF Inv
<1> QED
  BY <1>1, Invariance, PTL

\* A connection that has failed for good is given up after a bounded number of
\* failures in a row (MAX_TIMEOUTS_AT_MIN_CONCURRENCY).
THEOREM FailuresAreBounded == Spec => []GivesUpInTime
<1>1. Inv => GivesUpInTime
  BY DEF Inv
<1> QED
  BY <1>1, Invariance, PTL

-----------------------------------------------------------------------------
(***************************************************************************)
(* The progress.  A sum is the size of a set of bytes, so that a file more *)
(* or less is that many bytes more or less.                                *)
(***************************************************************************)
\* There are finitely many bytes.
LEMMA BytesFinite ==
    ASSUME NEW f, NEW S \in SUBSET Task
    PROVE  IsFiniteSet(BytesOf(f, S)) /\ SumOf(f, S) \in Nat
<1>1. IsFiniteSet(S) /\ IsFiniteSet(1 .. MaxSize)
  <2>1. 1 \in Int /\ MaxSize \in Int
    OBVIOUS
  <2>2. IsFiniteSet(1 .. MaxSize)
    BY <2>1, FS_Interval
  <2>3. IsFiniteSet(S)
    BY FS_Subset
  <2> QED
    BY <2>2, <2>3
<1>2. IsFiniteSet(S \X (1 .. MaxSize))
  BY <1>1, FS_Product
<1>3. IsFiniteSet(BytesOf(f, S))
  BY <1>2, FS_Subset DEF BytesOf
<1> QED
  BY <1>3, FS_CardinalityType DEF SumOf

\* The sum depends on the counts of its files only.
LEMMA SameSum ==
    ASSUME NEW f, NEW g, NEW S \in SUBSET Task, \A t \in S : f[t] = g[t]
    PROVE  SumOf(f, S) = SumOf(g, S)
<1>1. BytesOf(f, S) = BytesOf(g, S)
  BY DEF BytesOf
<1> QED
  BY <1>1 DEF SumOf

\* Files of which nothing is counted add nothing.
LEMMA ZeroSum ==
    ASSUME NEW f, NEW S \in SUBSET Task, NEW Z \in SUBSET Task, \A t \in Z : f[t] = 0
    PROVE  SumOf(f, S \cup Z) = SumOf(f, S)
<1>1. BytesOf(f, S \cup Z) = BytesOf(f, S)
  BY DEF BytesOf
<1> QED
  BY <1>1 DEF SumOf

\* Of one file there are as many bytes as it counts.
LEMMA OneSum ==
    ASSUME NEW f, NEW t \in Task, NEW n \in 0 .. MaxSize, f[t] = n
    PROVE  SumOf(f, {t}) = n
<1>1. BytesOf(f, {t}) = {t} \X (1 .. n)
  BY DEF BytesOf
<1>2. IsFiniteSet({t}) /\ Cardinality({t}) = 1
  BY FS_Singleton
<1>3. IsFiniteSet(1 .. n) /\ Cardinality(1 .. n) = n
  <2>1. 1 \in Int /\ n \in Int /\ (1 > n => n = 0) /\ n - 1 + 1 = n
    OBVIOUS
  <2>2. IsFiniteSet(1 .. n) /\ Cardinality(1 .. n) = IF 1 > n THEN 0 ELSE n - 1 + 1
    BY <2>1, FS_Interval
  <2> QED
    BY <2>1, <2>2
<1>4. Cardinality({t} \X (1 .. n)) = Cardinality({t}) * Cardinality(1 .. n)
  BY <1>2, <1>3, FS_Product
<1>5. Cardinality({t} \X (1 .. n)) = 1 * n /\ 1 * n = n
  BY <1>2, <1>3, <1>4
<1> QED
  BY <1>1, <1>5 DEF SumOf

\* One more file.
LEMMA AddSum ==
    ASSUME NEW f, NEW S \in SUBSET Task, NEW t \in Task, t \notin S,
           NEW n \in 0 .. MaxSize, f[t] = n
    PROVE  SumOf(f, S \cup {t}) = SumOf(f, S) + n
<1>1. /\ BytesOf(f, S \cup {t}) = BytesOf(f, S) \cup BytesOf(f, {t})
      /\ BytesOf(f, S) \cap BytesOf(f, {t}) = {}
  BY DEF BytesOf
<1>2. IsFiniteSet(BytesOf(f, S)) /\ IsFiniteSet(BytesOf(f, {t})) /\ SumOf(f, S) \in Nat
  BY BytesFinite
<1>3. Cardinality(BytesOf(f, S) \cup BytesOf(f, {t})) =
        Cardinality(BytesOf(f, S)) + Cardinality(BytesOf(f, {t}))
           - Cardinality(BytesOf(f, S) \cap BytesOf(f, {t}))
  BY <1>2, FS_Union
<1>4. Cardinality(BytesOf(f, S) \cap BytesOf(f, {t})) = 0
  BY <1>1, FS_EmptySet
<1>5. SumOf(f, {t}) = n
  BY OneSum
<1>6. SumOf(f, S \cup {t}) = SumOf(f, S) + SumOf(f, {t}) - 0
  BY <1>1, <1>3, <1>4 DEF SumOf
<1> QED
  BY <1>2, <1>5, <1>6

\* One file less.
LEMMA DropSum ==
    ASSUME NEW f, NEW S \in SUBSET Task, NEW t \in S, NEW n \in 0 .. MaxSize, f[t] = n
    PROVE  SumOf(f, S \ {t}) = SumOf(f, S) - n
<1> DEFINE rest == S \ {t}
<1>1. rest \cup {t} = S /\ rest \in SUBSET Task /\ t \in Task /\ t \notin rest
  OBVIOUS
<1> HIDE DEF rest
<1>2. SumOf(f, rest) \in Nat
  BY <1>1, BytesFinite
<1>3. SumOf(f, rest \cup {t}) = SumOf(f, rest) + n
  BY <1>1, AddSum
<1>4. SumOf(f, S) = SumOf(f, rest) + n
  BY <1>1, <1>3
<1>5. SumOf(f, rest) = SumOf(f, S) - n
  BY <1>2, <1>4
<1> QED
  BY <1>5 DEF rest

\* A file is waiting, under way or in place, and what has been counted is of a
\* response that is being read.
Tidy ==
    /\ queue \cap active = {} /\ queue \cap done = {} /\ active \cap done = {}
    /\ \A t \in Task \ body : counted[t] = 0

ProgressInv == Inv /\ Tidy /\ ProgressIsExact

\* What is left of the sum when a download is over and others have started.
LEMMA OverSum ==
    ASSUME TypeOK, Tidy, NEW t \in active, counted' = [counted EXCEPT ![t] = 0],
           NEW some \in SUBSET (Task \ active),
           \/ active' = (active \ {t}) \cup some
           \/ active' = (active \ {t}) \cup some \cup {t}
    PROVE  SumOf(counted', active') = SumOf(counted, active) - counted[t]
<1>1. t \in Task /\ active \in SUBSET Task /\ counted[t] \in 0 .. MaxSize
  BY DEF TypeOK
<1>2. \A g \in some \cup {t} : counted'[g] = 0
  BY <1>1 DEF Tidy, TypeOK
<1>3. SumOf(counted', active') = SumOf(counted', active \ {t})
  <2>1. PICK more \in SUBSET (some \cup {t}) : active' = (active \ {t}) \cup more
    <3>1. some \cup {t} \in SUBSET (some \cup {t}) /\ some \in SUBSET (some \cup {t})
      OBVIOUS
    <3> QED
      BY <3>1
  <2> QED
    BY <1>1, <1>2, <2>1, ZeroSum
<1>4. SumOf(counted', active \ {t}) = SumOf(counted, active \ {t})
  BY <1>1, SameSum DEF TypeOK
<1>5. SumOf(counted, active \ {t}) = SumOf(counted, active) - counted[t]
  BY <1>1, DropSum
<1> QED
  BY <1>3, <1>4, <1>5

\* The first downloads have counted nothing.
LEMMA FirstProgress == Init => ProgressInv
<1> SUFFICES ASSUME Init PROVE ProgressInv
  OBVIOUS
<1>1. Inv /\ TypeOK
  BY Initially DEF Inv
<1>2. Tidy
  BY DEF Init, Tidy
<1>3. Cardinality(done) = 0 /\ done = {}
  BY FS_EmptySet DEF Init
<1>4. SumOf(size, {}) = 0 /\ SumOf(counted, {}) = 0
  <2>1. BytesOf(size, {}) = {} /\ BytesOf(counted, {}) = {}
    BY DEF BytesOf
  <2> QED
    BY <2>1, FS_EmptySet DEF SumOf
<1>5. SumOf(counted, active) = SumOf(counted, {})
  <2>1. SumOf(counted, {} \cup active) = SumOf(counted, {})
    BY <1>1, ZeroSum DEF TypeOK, Init
  <2> QED
    BY <2>1
<1> QED
  BY <1>1, <1>2, <1>3, <1>4, <1>5 DEF ProgressInv, ProgressIsExact, Init

\* A chunk is counted as it comes.
LEMMA ChunkProgresses ==
    ASSUME ProgressInv, NEW t \in Task, Chunk(t), Inv'
    PROVE  ProgressInv'
<1>1. TypeOK /\ t \in active /\ t \in body /\ active \in SUBSET Task
      /\ counted[t] \in 0 .. MaxSize /\ counted[t] + 1 \in 0 .. MaxSize
      /\ counted' = [counted EXCEPT ![t] = counted[t] + 1]
      /\ UNCHANGED <<size, queue, active, body, done, result>>
  BY DEF Chunk, ProgressInv, Inv, TypeOK
<1>2. Tidy'
  BY <1>1 DEF ProgressInv, Tidy, TypeOK
<1>3. SumOf(counted', active) = SumOf(counted, active) + 1
  <2>1. counted'[t] = counted[t] + 1
    BY <1>1 DEF TypeOK
  <2>2. SumOf(counted', active \ {t}) = SumOf(counted, active \ {t})
    BY <1>1, SameSum DEF TypeOK
  <2>3. SumOf(counted', active \ {t}) = SumOf(counted', active) - (counted[t] + 1)
    BY <1>1, <2>1, DropSum
  <2>4. SumOf(counted, active \ {t}) = SumOf(counted, active) - counted[t]
    BY <1>1, DropSum
  <2>5. SumOf(counted, active) \in Nat /\ SumOf(counted', active) \in Nat
    BY <1>1, BytesFinite
  <2> QED
    BY <1>1, <2>2, <2>3, <2>4, <2>5
<1>4. SumOf(size, done) \in Nat /\ SumOf(counted, active) \in Nat
  BY <1>1, BytesFinite DEF TypeOK
<1>5. ProgressIsExact'
  <2>1. Bytes' <=> Bytes
    BY <1>1 DEF Bytes
  <2>2. CASE Bytes
    BY <1>1, <1>3, <1>4, <2>1, <2>2 DEF Chunk, ProgressInv, ProgressIsExact
  <2>3. CASE ~Bytes
    BY <1>1, <2>1, <2>3 DEF Chunk, ProgressInv, ProgressIsExact
  <2> QED
    BY <2>2, <2>3
<1> QED
  BY <1>2, <1>5 DEF ProgressInv

\* A file in place counts as what the manifest says, not as what came.
LEMMA SucceedProgresses ==
    ASSUME ProgressInv, NEW t \in Task, Succeed(t), Inv'
    PROVE  ProgressInv'
<1>1. TypeOK /\ t \in active /\ t \notin done /\ done \in SUBSET Task /\ result = "running"
      /\ counted' = [counted EXCEPT ![t] = 0] /\ counted[t] \in 0 .. MaxSize
      /\ body' = body \ {t} /\ done' = done \cup {t} /\ size' = size /\ Tidy
  BY DEF Succeed, ProgressInv, Inv, TypeOK, Tidy
<1>2. PICK some \in SUBSET queue :
          queue' = queue \ some /\ active' = (active \ {t}) \cup some
  BY DEF Succeed, SpawnIfPossible
<1>3. Tidy'
  BY <1>1, <1>2 DEF Tidy, TypeOK
<1>4. SumOf(counted', active') = SumOf(counted, active) - counted[t]
  <2>1. some \in SUBSET (Task \ active)
    BY <1>1 DEF Tidy, TypeOK
  <2> QED
    BY <1>1, <1>2, <2>1, OverSum
<1>5. /\ SumOf(size, done) \in Nat /\ SumOf(counted, active) \in Nat
      /\ IsFiniteSet(done) /\ Cardinality(done) \in Nat
  BY <1>1, BytesFinite, FS_Subset, FS_CardinalityType DEF TypeOK
<1>6. Bytes' <=> Bytes
  BY <1>1 DEF Bytes
<1>7. progress = IF Bytes THEN SumOf(size, done) + SumOf(counted, active) ELSE Cardinality(done)
  BY <1>1 DEF ProgressInv, ProgressIsExact
<1>8. ProgressIsExact'
  <2>1. CASE Bytes
    <3>1. size[t] \in 0 .. MaxSize
      BY <1>1, <2>1 DEF Bytes, TypeOK
    <3>2. SumOf(size, done') = SumOf(size, done) + size[t]
      BY <1>1, <3>1, AddSum
    <3>3. progress' = progress - counted[t] + size[t]
      BY <2>1 DEF Succeed
    <3> QED
      BY <1>1, <1>4, <1>5, <1>6, <1>7, <2>1, <3>1, <3>2, <3>3 DEF ProgressIsExact
  <2>2. CASE ~Bytes
    <3>1. Cardinality(done') = Cardinality(done) + 1
      BY <1>1, <1>5, FS_AddElement
    <3> QED
      BY <1>6, <1>7, <2>2, <3>1 DEF Succeed, ProgressIsExact
  <2> QED
    BY <2>1, <2>2
<1> QED
  BY <1>3, <1>8 DEF ProgressInv

\* What a download that failed has counted is taken off again.
LEMMA RetryProgresses ==
    ASSUME ProgressInv, NEW t \in Task, Retry(t), Inv'
    PROVE  ProgressInv'
<1>1. TypeOK /\ t \in active /\ result = "running"
      /\ counted' = [counted EXCEPT ![t] = 0] /\ counted[t] \in 0 .. MaxSize
      /\ body' = body \ {t} /\ done' = done /\ size' = size /\ Tidy
  BY DEF Retry, ProgressInv, Inv, TypeOK, Tidy
<1>2. PICK some \in SUBSET (queue \cup {t}) :
          queue' = (queue \cup {t}) \ some /\ active' = (active \ {t}) \cup some
  BY DEF Retry, SpawnIfPossible
<1>3. Tidy'
  BY <1>1, <1>2 DEF Tidy, TypeOK
<1>4. SumOf(counted', active') = SumOf(counted, active) - counted[t]
  <2>1. some \ {t} \in SUBSET (Task \ active)
    BY <1>1 DEF Tidy, TypeOK
  <2>2. \/ active' = (active \ {t}) \cup (some \ {t})
        \/ active' = (active \ {t}) \cup (some \ {t}) \cup {t}
    BY <1>2
  <2> QED
    BY <1>1, <2>1, <2>2, OverSum
<1>5. SumOf(size, done) \in Nat /\ SumOf(counted, active) \in Nat
  BY <1>1, BytesFinite DEF TypeOK
<1>6. Bytes' <=> Bytes
  BY <1>1 DEF Bytes
<1>7. progress = IF Bytes THEN SumOf(size, done) + SumOf(counted, active) ELSE Cardinality(done)
  BY <1>1 DEF ProgressInv, ProgressIsExact
<1>8. progress' = IF Bytes THEN progress - counted[t] ELSE progress
  BY DEF Retry, RollBack
<1>9. ProgressIsExact'
  <2>1. CASE Bytes
    BY <1>1, <1>4, <1>5, <1>6, <1>7, <1>8, <2>1 DEF ProgressIsExact
  <2>2. CASE ~Bytes
    BY <1>1, <1>6, <1>7, <1>8, <2>2 DEF ProgressIsExact
  <2> QED
    BY <2>1, <2>2
<1> QED
  BY <1>3, <1>9 DEF ProgressInv

\* Every step keeps the progress exact.
LEMMA ProgressKept == ProgressInv /\ [Next]_vars => ProgressInv'
<1> SUFFICES ASSUME ProgressInv, [Next]_vars PROVE ProgressInv'
  OBVIOUS
<1>1. Inv'
  BY NextKeeps DEF ProgressInv
<1>2. CASE UNCHANGED vars
  BY <1>1, <1>2 DEF vars, files, ProgressInv, Tidy, ProgressIsExact, Bytes, SumOf, BytesOf
<1>3. ASSUME NEW t \in Task, Respond(t) PROVE ProgressInv'
  BY <1>1, <1>3 DEF Respond, ProgressInv, Tidy, ProgressIsExact, Bytes, SumOf, BytesOf
<1>4. ASSUME NEW how \in {"timeout", "failed", "dropped"}, Return(how) PROVE ProgressInv'
  BY <1>1, <1>4 DEF Return, ProgressInv, Tidy, ProgressIsExact
<1> QED
  BY <1>1, <1>2, <1>3, <1>4, ChunkProgresses, SucceedProgresses, RetryProgresses
     DEF Next, Attempt, GiveUp, Fail, Drop

\* The progress shown is exact and reaches its total, whatever failed, or came
\* in another size than the manifest says (inc, roll_back and reconcile of
\* ChunkProgress).
THEOREM ProgressStaysExact == Spec => []ProgressIsExact
<1>1. ProgressInv => ProgressIsExact
  BY DEF ProgressInv
<1> QED
  BY <1>1, FirstProgress, ProgressKept, PTL DEF Spec
================================================================================
