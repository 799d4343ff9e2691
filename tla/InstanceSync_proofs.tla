------------------------- MODULE InstanceSync_proofs -------------------------
(***************************************************************************)
(* Proofs about InstanceSync, for every value of its constants.            *)
(***************************************************************************)
EXTENDS InstanceSync, WellFoundedInduction, TLAPS

-----------------------------------------------------------------------------
(***************************************************************************)
(* Lemmas about the planner and the rules.                                 *)
(***************************************************************************)

\* A set of natural numbers has a least element.
LEMMA Least ==
    ASSUME NEW S, S \subseteq Nat, S # {}
    PROVE  \E n \in S : \A k \in S : n <= k
<1> DEFINE Less == {p \in Nat \X Nat : p[1] < p[2]}
<1>1. IsWellFoundedOn(Less, Nat)
  BY NatLessThanWellFounded DEF OpToRel
<1> HIDE DEF Less
<1>2. PICK n \in S : \A k \in S : <<k, n>> \notin Less
  BY <1>1, WFMin
<1>3. \A k \in S : ~ (k < n)
  BY <1>2 DEF Less
<1> QED
  BY <1>3

\* What the mod sync planner returns.
LEMMA ModPlan ==
    ASSUME NEW p
    PROVE  /\ ModDeletes(p) \subseteq Jar /\ Warned(p) \subseteq Jar
           /\ ModChecks(p) \subseteq Published(p)
           /\ CacheChecks(p) \subseteq Published(p)
           /\ ModLinks(p) \subseteq Published(p)
<1>1. \A id : Local(p.mods, id) \subseteq Jar
  BY DEF Local
<1>2. Recognized(p.mods) \subseteq Jar /\ Others(p.mods) \subseteq Jar
  BY <1>1, ModAssumption DEF Recognized, Others
<1>3. DeltaDeletes(p) \subseteq Jar /\ MirrorDeletes(p) \subseteq Jar
  <2>1. UNION {Local(p.mods, id) : id \in DeltaGone(p)} \subseteq Jar
    BY <1>1
  <2>2. UNION {Local(p.mods, id) \ {Target(p, id)} : id \in DeltaReplaced(p)} \subseteq Jar
    BY <1>1
  <2>3. MirrorDeletes(p) \subseteq Jar
    BY <1>2 DEF MirrorDeletes
  <2> QED
    BY <2>1, <2>2, <2>3 DEF DeltaDeletes
<1>4. ModDeletes(p) \subseteq Jar
  BY <1>3 DEF ModDeletes
<1>5. Warned(p) \subseteq ModDeletes(p)
  BY DEF Warned
<1>6. Normal(p) \subseteq Published(p) /\ Switched(p) \subseteq Published(p) /\ On(p) \subseteq Published(p)
  BY DEF Normal, Switched, On
<1>7. DeltaChecks(p) \subseteq Published(p) /\ DeltaCacheChecks(p) \subseteq Published(p)
  BY <1>6 DEF DeltaChecks, DeltaReplaced, DeltaMissing, DeltaCacheChecks
<1> QED
  BY <1>4, <1>5, <1>6, <1>7 DEF ModChecks, CacheChecks, ModLinks

\* What the content rules return.
LEMMA RulePlan ==
    ASSUME NEW r,
           \A n \in DOMAIN r.rules :
              /\ n \in Nat
              /\ \A f \in DOMAIN r.rules[n].objects : f \in File /\ r.rules[n].objects[f] \in Content
              /\ r.rules[n].at \in (IF r.rules[n].kind = "dir" THEN Dir ELSE File)
    PROVE  /\ FileDeletes(r) \subseteq File
           /\ DOMAIN FileChecks(r) \subseteq File
           /\ \A f \in DOMAIN FileChecks(r) : FileChecks(r)[f] \in Content
           /\ \A n \in Patches(r) : n \in DOMAIN r.rules /\ r.rules[n].kind = "options"
<1>1. Applied(r) \subseteq DOMAIN r.rules
  BY DEF Applied
<1>2. \A n \in Applied(r) : Extra(r, n) \subseteq File
  BY <1>1, RuleAssumption DEF Extra
<1>3. FileDeletes(r) \subseteq File
  BY <1>2 DEF FileDeletes
<1>4. ASSUME NEW f \in DOMAIN FileChecks(r)
      PROVE  f \in File /\ FileChecks(r)[f] \in Content
  <2>1. f \in File /\ Publishers(r, f) # {}
    BY <1>4 DEF FileChecks
  <2>2. Publishers(r, f) \subseteq Nat /\ Publishers(r, f) \subseteq DOMAIN r.rules
    BY <1>1 DEF Publishers
  <2> DEFINE first == CHOOSE n \in Publishers(r, f) : \A k \in Publishers(r, f) : n <= k
  <2>3. \E n \in Publishers(r, f) : \A k \in Publishers(r, f) : n <= k
    BY <2>1, <2>2, Least
  <2>4. first \in Publishers(r, f)
    BY <2>3
  <2>5. FileChecks(r)[f] = r.rules[first].objects[f]
    BY <2>1 DEF FileChecks
  <2> HIDE DEF first
  <2>6. f \in DOMAIN r.rules[first].objects
    BY <2>4 DEF Publishers, Included, Objects
  <2> QED
    BY <2>1, <2>2, <2>4, <2>5, <2>6
<1>5. \A n \in Patches(r) : n \in DOMAIN r.rules /\ r.rules[n].kind = "options"
  BY <1>1 DEF Patches
<1> QED
  BY <1>3, <1>4, <1>5
-----------------------------------------------------------------------------
(***************************************************************************)
(* Type correctness.                                                       *)
(***************************************************************************)

\* The tasks of a sync are about what its metadata publishes.
TasksKnown ==
    Busy =>
        /\ \A id \in Mod : <<"mod", id>> \in sync.tasks \/ <<"cache", id>> \in sync.tasks
                             => id \in DOMAIN Now.entries
        /\ sync.links \subseteq DOMAIN Now.entries
        /\ \A f \in File : <<"file", f>> \in sync.tasks => sync.objects[f] \in Content
        /\ \A n \in sync.patches : n \in DOMAIN Now.rules /\ Now.rules[n].kind = "options"
        /\ sync.open => sync.patches # {}

Typed == TypeOK /\ TasksKnown

\* A sync under way is a record, about metadata that is known.
LEMMA Meant ==
    ASSUME TypeOK, Busy
    PROVE  /\ sync \in Sync /\ sync.meta \in Release
           /\ DOMAIN Now.entries \subseteq Mod
           /\ \A id \in DOMAIN Now.entries :
                 /\ Now.entries[id].jar \in Jar /\ Now.entries[id].build \in Build
                 /\ IdOf[Now.entries[id].build] = id
           /\ Now.natives \subseteq Resource
<1>1. sync \in Sync /\ sync.meta \in Release
  BY DEF TypeOK, Sync
<1> QED
  BY <1>1, MetaAssumption DEF Now

\* A phase passes.
LEMMA GotoTyped ==
    ASSUME Typed, Busy, NEW phase \in Phase, Goto(phase)
    PROVE  Busy' /\ sync' \in Sync /\ TasksKnown'
<1>1. sync \in Sync
  BY DEF Typed, TypeOK
<1>2. sync' \in Sync /\ sync'.phase = phase
  BY <1>1 DEF Goto, Sync
<1>3. sync' # Idle
  BY <1>2 DEF Idle, Phase
<1>4. /\ sync'.meta = sync.meta /\ sync'.tasks = sync.tasks /\ sync'.links = sync.links
      /\ sync'.objects = sync.objects /\ sync'.patches = sync.patches /\ sync'.open = sync.open
  BY <1>1 DEF Goto, Sync
<1>5. Now' = Now
  BY <1>4 DEF Now
<1>6. TasksKnown'
  BY <1>4, <1>5 DEF Typed, TasksKnown
<1> QED
  BY <1>2, <1>3, <1>6 DEF Busy

\* What a sync is to do is well-typed.
LEMMA PlannedTyped ==
    ASSUME Typed, NEW meta \in Release, NEW cause \in {"update", "run"}, NEW force \in BOOLEAN,
           sync' = Planned(meta, cause, force)
    PROVE  Busy' /\ sync' \in Sync /\ TasksKnown'
<1> DEFINE p == ModView(meta, cause, force)
           r == RuleView(meta, cause, force)
           checked == FileChecks(r)
<1>1. /\ ModDeletes(p) \subseteq Jar /\ Warned(p) \subseteq Jar
      /\ ModChecks(p) \subseteq Published(p) /\ CacheChecks(p) \subseteq Published(p)
      /\ ModLinks(p) \subseteq Published(p)
  BY ModPlan
<1>2. Published(p) = DOMAIN Meta[meta].entries /\ DOMAIN Meta[meta].entries \subseteq Mod
  BY MetaAssumption DEF Published, ModView
<1>3. r.rules = Meta[meta].rules
  BY DEF RuleView
<1>4. /\ FileDeletes(r) \subseteq File /\ DOMAIN checked \subseteq File
      /\ \A f \in DOMAIN checked : checked[f] \in Content
      /\ \A n \in Patches(r) : n \in DOMAIN Meta[meta].rules /\ Meta[meta].rules[n].kind = "options"
  <2>1. \A n \in DOMAIN r.rules :
              /\ n \in Nat
              /\ \A f \in DOMAIN r.rules[n].objects : f \in File /\ r.rules[n].objects[f] \in Content
              /\ r.rules[n].at \in (IF r.rules[n].kind = "dir" THEN Dir ELSE File)
    BY <1>3, MetaAssumption
  <2> HIDE DEF r
  <2> QED
    BY <2>1, <1>3, RulePlan
<1>5. \A n \in Patches(r) : n \in Nat
  BY <1>4, MetaAssumption
<1>6. Meta[meta].resources \subseteq Resource
  BY MetaAssumption
<1> DEFINE resourceTasks == IF ChecksResources(meta, cause) THEN {"resource"} \X Meta[meta].resources ELSE {}
           tasks == ({"mod"} \X ModChecks(p)) \cup ({"cache"} \X CacheChecks(p))
                    \cup ({"file"} \X DOMAIN checked) \cup resourceTasks
           objects == [f \in File |-> IF f \in DOMAIN checked THEN checked[f] ELSE NoFile]
<1>7. sync' = [phase |-> "delete", cause |-> cause, force |-> force,
               entry |-> entry, meta |-> meta, known |-> recorded,
               deletes |-> ModDeletes(p) \cup FileDeletes(r), objects |-> objects, tasks |-> tasks,
               links |-> ModLinks(p), patches |-> Patches(r), open |-> FALSE,
               warned |-> Warned(p), quiet |-> TRUE, fetched |-> {},
               undone |-> touched \cup lost]
  BY DEF Planned
<1> HIDE DEF p, r, checked
<1>8. objects \in FileDir
  BY <1>4 DEF FileDir
<1>9. resourceTasks \subseteq {"resource"} \X Resource
  BY <1>6
<1>10. tasks \subseteq Task
  <2> HIDE DEF resourceTasks
  <2> QED
    BY <1>1, <1>2, <1>4, <1>9 DEF Task
<1>11. /\ \A id \in Mod : <<"mod", id>> \in tasks \/ <<"cache", id>> \in tasks
                           => id \in DOMAIN Meta[meta].entries
       /\ \A f \in File : <<"file", f>> \in tasks => f \in DOMAIN checked
  <2> HIDE DEF resourceTasks
  <2> QED
    BY <1>1, <1>2, <1>9
<1>12. \A f \in File : <<"file", f>> \in tasks => objects[f] \in Content
  BY <1>4, <1>11
<1> HIDE DEF tasks, objects
<1>13. sync' \in Sync
  BY <1>1, <1>2, <1>4, <1>5, <1>7, <1>8, <1>10 DEF Sync, Phase, Typed, TypeOK
<1>14. Busy'
  BY <1>7 DEF Busy, Idle
<1>15. Now' = Meta[meta]
  BY <1>7 DEF Now
<1>16. TasksKnown'
  BY <1>1, <1>2, <1>4, <1>7, <1>11, <1>12, <1>15 DEF TasksKnown
<1> QED
  BY <1>13, <1>14, <1>16
\* The tasks of a sync, by their kind.
LEMMA TaskKind ==
    ASSUME Typed, Busy, NEW task \in sync.tasks
    PROVE  /\ task[1] \in {"mod", "cache"} => task[2] \in Mod /\ task[2] \in DOMAIN Now.entries
           /\ task[1] = "file" => task[2] \in File /\ sync.objects[task[2]] \in Content
           /\ task[1] = "resource" => task[2] \in Resource
           /\ task = <<task[1], task[2]>>
<1>1. task \in Task
  BY Meant DEF Typed, Sync
<1>2. task = <<task[1], task[2]>> /\ task[1] \in {"mod", "cache", "file", "resource"}
  BY <1>1 DEF Task
<1>3. /\ task[1] \in {"mod", "cache"} => task[2] \in Mod
      /\ task[1] = "file" => task[2] \in File
      /\ task[1] = "resource" => task[2] \in Resource
  BY <1>1 DEF Task
<1> QED
  BY <1>2, <1>3 DEF Typed, TasksKnown

LEMMA TypedInit == Init => Typed
<1> SUFFICES ASSUME Init PROVE Typed
  OBVIOUS
<1>1. ~Busy
  BY DEF Init, Busy
<1>2. [edits |-> MaxEdits, stops |-> MaxStops, releases |-> MaxReleases]
        \in [edits : 0 .. MaxEdits, stops : 0 .. MaxStops, releases : 0 .. MaxReleases]
  BY SyncAssumption
<1> QED
  BY <1>1, <1>2 DEF Init, Typed, TypeOK, TasksKnown, ModDir, FileDir

\* A step keeps the types if it keeps those of what it changes.
LEMMA TypedDelete == Typed /\ Delete => Typed'
<1> SUFFICES ASSUME Typed, Delete PROVE Typed'
  OBVIOUS
<1>1. PICK path \in sync.deletes :
        /\ sync' = [sync EXCEPT !.deletes = @ \ {path}]
        /\ IF path \in Jar
           THEN /\ mods' = [mods EXCEPT ![path] = Absent]
                /\ lost' = lost \cup Orphaned(mods')
                /\ UNCHANGED files
           ELSE /\ files' = [files EXCEPT ![path] = NoFile]
                /\ UNCHANGED <<mods, lost>>
  BY DEF Delete
<1>2. Busy /\ sync \in Sync
  BY Meant DEF Delete, In, Typed
<1>3. mods' \in ModDir /\ files' \in FileDir /\ lost' \subseteq Mod
  BY <1>1 DEF Typed, TypeOK, ModDir, FileDir, Orphaned
<1>4. sync' \in Sync /\ sync'.phase = sync.phase
  BY <1>1, <1>2 DEF Sync
<1>5. /\ sync'.meta = sync.meta /\ sync'.tasks = sync.tasks /\ sync'.links = sync.links
      /\ sync'.objects = sync.objects /\ sync'.patches = sync.patches /\ sync'.open = sync.open
  BY <1>1, <1>2 DEF Sync
<1>6. TasksKnown'
  BY <1>2, <1>5 DEF Typed, TasksKnown, Now
<1> QED
  BY <1>3, <1>4, <1>6 DEF Typed, TypeOK, Delete

LEMMA TypedCheck == Typed /\ Check => Typed'
<1> SUFFICES ASSUME Typed, Check PROVE Typed'
  OBVIOUS
<1> DEFINE downloads == {task \in sync.tasks : Outdated(task)}
           fetched == {n \in Resource : <<"resource", n>> \in downloads}
<1>1. sync' = [sync EXCEPT !.phase = "download", !.tasks = downloads, !.fetched = fetched]
  BY DEF Check
<1>2. Busy /\ sync \in Sync
  BY Meant DEF Check, In, Typed
<1>3. downloads \subseteq sync.tasks /\ fetched \subseteq Resource
  OBVIOUS
<1> HIDE DEF downloads, fetched
<1>4. sync' \in Sync
  BY <1>1, <1>2, <1>3 DEF Sync, Phase
<1>5. /\ sync'.meta = sync.meta /\ sync'.tasks = downloads /\ sync'.links = sync.links
      /\ sync'.objects = sync.objects /\ sync'.patches = sync.patches /\ sync'.open = sync.open
  BY <1>1, <1>2 DEF Sync
<1>6. TasksKnown'
  BY <1>2, <1>3, <1>5 DEF Typed, TasksKnown, Now
<1> QED
  BY <1>4, <1>6 DEF Typed, TypeOK, Check, disk

LEMMA TypedDownload == Typed /\ Download => Typed'
<1> SUFFICES ASSUME Typed, Download PROVE Typed'
  OBVIOUS
<1> DEFINE e == Now.entries
<1>1. PICK task \in sync.tasks :
        /\ sync' = [sync EXCEPT !.tasks = @ \ {task}]
        /\ mods' = IF task[1] = "mod" THEN [mods EXCEPT ![e[task[2]].jar] = e[task[2]].build] ELSE mods
        /\ cache' = IF task[1] = "cache" THEN [cache EXCEPT ![e[task[2]].jar] = e[task[2]].build]
                    ELSE cache
        /\ files' = IF task[1] = "file" THEN [files EXCEPT ![task[2]] = sync.objects[task[2]]] ELSE files
        /\ dirs' = IF task[1] = "file" THEN dirs \cup Parents(task[2]) ELSE dirs
        /\ shared' = IF task[1] = "resource" THEN shared \cup {task[2]} ELSE shared
        /\ touched' = IF task[1] = "mod" THEN touched \ {task[2]} ELSE touched
        /\ lost' = lost \cup Orphaned(mods') \cup (IF task[1] = "mod" THEN {task[2]} ELSE {})
  BY DEF Download
<1>2. Busy /\ sync \in Sync
  BY Meant DEF Download, In, Typed
<1>3. /\ task[1] \in {"mod", "cache"} => task[2] \in Mod /\ task[2] \in DOMAIN e
      /\ task[1] = "file" => task[2] \in File /\ sync.objects[task[2]] \in Content
      /\ task[1] = "resource" => task[2] \in Resource
  BY <1>2, TaskKind
<1>4. \A id \in DOMAIN e : e[id].jar \in Jar /\ e[id].build \in Build
  BY <1>2, Meant DEF Typed
<1> HIDE DEF e
<1>5. mods' \in ModDir /\ cache' \in ModDir
  BY <1>1, <1>3, <1>4 DEF Typed, TypeOK, ModDir
<1>6. files' \in FileDir /\ dirs' \subseteq Dir /\ shared' \subseteq Resource
  BY <1>1, <1>3 DEF Typed, TypeOK, FileDir, Parents
<1>7. touched' \subseteq Mod /\ lost' \subseteq Mod
  BY <1>1, <1>3 DEF Typed, TypeOK, Orphaned
<1>8. sync' \in Sync
  BY <1>1, <1>2 DEF Sync
<1>9. /\ sync'.meta = sync.meta /\ sync'.tasks \subseteq sync.tasks /\ sync'.links = sync.links
      /\ sync'.objects = sync.objects /\ sync'.patches = sync.patches /\ sync'.open = sync.open
  BY <1>1, <1>2 DEF Sync
<1>10. TasksKnown'
  BY <1>2, <1>9 DEF Typed, TasksKnown, Now
<1> QED
  BY <1>5, <1>6, <1>7, <1>8, <1>10 DEF Typed, TypeOK, Download

LEMMA TypedLink == Typed /\ Link => Typed'
<1> SUFFICES ASSUME Typed, Link PROVE Typed'
  OBVIOUS
<1>1. PICK id \in sync.links :
        /\ sync' = [sync EXCEPT !.links = @ \ {id}]
        /\ mods' = Linked(mods, Now.entries[id].jar)
        /\ touched' = touched \ {id}
        /\ lost' = lost \cup Orphaned(mods') \cup {id}
  BY DEF Link
<1>2. Busy /\ sync \in Sync
  BY Meant DEF Link, In, Typed
<1>3. mods' \in ModDir
  BY <1>1 DEF Typed, TypeOK, ModDir, Linked
<1>4. id \in Mod /\ touched' \subseteq Mod /\ lost' \subseteq Mod
  BY <1>1, <1>2 DEF Typed, TypeOK, Orphaned, Sync
<1>5. sync' \in Sync
  BY <1>1, <1>2 DEF Sync
<1>6. /\ sync'.meta = sync.meta /\ sync'.tasks = sync.tasks /\ sync'.links \subseteq sync.links
      /\ sync'.objects = sync.objects /\ sync'.patches = sync.patches /\ sync'.open = sync.open
  BY <1>1, <1>2 DEF Sync
<1>7. TasksKnown'
  BY <1>2, <1>6 DEF Typed, TasksKnown, Now
<1> QED
  BY <1>3, <1>4, <1>5, <1>7 DEF Typed, TypeOK, Link
\* The option rule that comes next is one of those to apply.
LEMMA NextPatchKnown ==
    ASSUME Typed, Busy, sync.patches # {}
    PROVE  /\ NextPatch \in sync.patches
           /\ Now.rules[NextPatch].at \in File
           /\ \A tree \in (Content \ Plain) \cup {Empty(Now.rules[NextPatch].format), Bad} :
                 Patched(Now.rules[NextPatch].format, tree, Now.rules[NextPatch].options)
                    \in Content \cup {Bad}
<1>1. sync.patches \subseteq Nat /\ sync.meta \in Release
  BY Meant DEF Typed, Sync
<1>2. NextPatch \in sync.patches
  BY <1>1, Least DEF NextPatch
<1>3. NextPatch \in DOMAIN Now.rules /\ Now.rules[NextPatch].kind = "options"
  BY <1>2 DEF Typed, TasksKnown
<1> QED
  BY <1>1, <1>2, <1>3, MetaAssumption DEF Now

LEMMA TypedOpenConfig == Typed /\ OpenConfig => Typed'
<1> SUFFICES ASSUME Typed, OpenConfig PROVE Typed'
  OBVIOUS
<1> DEFINE rule == Now.rules[NextPatch]
           new == Patched(rule.format, Document(rule), rule.options)
<1>1. /\ Busy /\ sync.patches # {} /\ new # Bad
      /\ sync' = [sync EXCEPT !.open = TRUE, !.objects[rule.at] = new]
      /\ files' = [files EXCEPT ![rule.at] = Torn]
  BY DEF OpenConfig, In
<1>2. sync \in Sync
  BY <1>1, Meant DEF Typed
<1>3. rule.at \in File
  BY <1>1, NextPatchKnown
<1>4. Document(rule) \in (Content \ Plain) \cup {Empty(rule.format), Bad}
  BY <1>3 DEF Document, Typed, TypeOK, FileDir
<1>5. new \in Content
  BY <1>1, <1>4, NextPatchKnown
<1> HIDE DEF rule, new
<1>6. files' \in FileDir
  BY <1>1, <1>3, SyncAssumption DEF Typed, TypeOK, FileDir
<1>7. sync.objects \in FileDir
  BY <1>2 DEF Sync
<1> DEFINE objects == [sync.objects EXCEPT ![rule.at] = new]
<1>8. objects \in FileDir /\ \A f \in File : sync.objects[f] \in Content => objects[f] \in Content
  BY <1>3, <1>5, <1>7 DEF FileDir
<1>9. sync' = [sync EXCEPT !.open = TRUE, !.objects = objects]
  BY <1>1, <1>2 DEF Sync
<1> HIDE DEF objects
<1>10. sync' \in Sync
  BY <1>2, <1>8, <1>9 DEF Sync
<1>11. /\ sync'.meta = sync.meta /\ sync'.tasks = sync.tasks /\ sync'.links = sync.links
       /\ sync'.objects = objects /\ sync'.patches = sync.patches
  BY <1>2, <1>9 DEF Sync
<1>12. TasksKnown'
  BY <1>1, <1>8, <1>11 DEF Typed, TasksKnown, Now
<1> QED
  BY <1>6, <1>10, <1>12 DEF Typed, TypeOK, OpenConfig

LEMMA TypedWriteConfig == Typed /\ WriteConfig => Typed'
<1> SUFFICES ASSUME Typed, WriteConfig PROVE Typed'
  OBVIOUS
<1>1. /\ Busy /\ sync.patches # {}
      /\ files' = [files EXCEPT ![Now.rules[NextPatch].at] =
                                  IF @ = NoFile THEN NoFile ELSE sync.objects[Now.rules[NextPatch].at]]
      /\ sync' = [sync EXCEPT !.open = FALSE, !.patches = @ \ {NextPatch}]
  BY DEF WriteConfig, In, Typed, TasksKnown
<1>2. sync \in Sync
  BY <1>1, Meant DEF Typed
<1>3. Now.rules[NextPatch].at \in File
  BY <1>1, NextPatchKnown
<1>4. sync.objects \in FileDir
  BY <1>2 DEF Sync
<1>5. files' \in FileDir
  BY <1>1, <1>3, <1>4 DEF Typed, TypeOK, FileDir
<1>6. sync' \in Sync
  BY <1>1, <1>2 DEF Sync
<1>7. /\ sync'.meta = sync.meta /\ sync'.tasks = sync.tasks /\ sync'.links = sync.links
      /\ sync'.objects = sync.objects /\ sync'.patches \subseteq sync.patches /\ ~sync'.open
  BY <1>1, <1>2 DEF Sync
<1>8. TasksKnown'
  BY <1>1, <1>7 DEF Typed, TasksKnown, Now
<1> QED
  BY <1>5, <1>6, <1>8 DEF Typed, TypeOK, WriteConfig

\* The steps that only pass to another phase of the sync, but for the record and the
\* natives.
LEMMA TypedPasses ==
    Typed /\ (\/ Downloaded \/ AllLinked \/ MarkDirs \/ SkipNatives \/ ClearNatives
              \/ NativesCleared \/ MarkNatives \/ RemoveRecord \/ RenameRecord) => Typed'
<1> SUFFICES ASSUME Typed,
                    \/ Downloaded \/ AllLinked \/ MarkDirs \/ SkipNatives \/ ClearNatives
                    \/ NativesCleared \/ MarkNatives \/ RemoveRecord \/ RenameRecord
             PROVE  Typed'
  OBVIOUS
<1>1. Busy
  BY DEF Downloaded, AllLinked, MarkDirs, SkipNatives, ClearNatives, NativesCleared, MarkNatives,
        RemoveRecord,
         RenameRecord, In
<1>2. PICK phase \in Phase : Goto(phase)
  BY DEF Downloaded, AllLinked, MarkDirs, SkipNatives, ClearNatives, NativesCleared, MarkNatives,
        RemoveRecord,
         RenameRecord, Phase
<1>3. Busy' /\ sync' \in Sync /\ TasksKnown'
  BY <1>1, <1>2, GotoTyped
<1>4. /\ Now.natives \subseteq Resource /\ sync.meta \in Release
      /\ DOMAIN Now.entries \subseteq Mod
  BY <1>1, Meant DEF Typed
<1>5. CASE Downloaded \/ AllLinked \/ SkipNatives \/ ClearNatives
  BY <1>3, <1>5 DEF Typed, TypeOK, Downloaded, AllLinked, SkipNatives, ClearNatives, disk
<1>6. CASE MarkDirs
  <2>1. files' \in FileDir
    BY <1>6, SyncAssumption DEF MarkDirs, Typed, TypeOK, FileDir
  <2> QED
    BY <2>1, <1>3, <1>6 DEF Typed, TypeOK, MarkDirs
<1>7. CASE NativesCleared
  BY <1>3, <1>7 DEF Typed, TypeOK, NativesCleared, disk
<1>8. CASE MarkNatives
  BY <1>3, <1>4, <1>8 DEF Typed, TypeOK, MarkNatives
<1>9. CASE RemoveRecord
  BY <1>3, <1>9 DEF Typed, TypeOK, RemoveRecord
<1>10. CASE RenameRecord
  <2>1. lost' \subseteq lost \cup DOMAIN Now.entries
    BY <1>10 DEF RenameRecord
  <2>2. lost' \subseteq Mod
    BY <1>4, <2>1 DEF Typed, TypeOK
  <2> QED
    BY <1>3, <1>4, <1>10, <2>2 DEF Typed, TypeOK, RenameRecord
<1> QED
  BY <1>5, <1>6, <1>7, <1>8, <1>9, <1>10

LEMMA TypedExtract == Typed /\ (Extract \/ RemoveNative) => Typed'
<1> SUFFICES ASSUME Typed, Extract \/ RemoveNative PROVE Typed'
  OBVIOUS
<1>1. natives' \subseteq Resource /\ marker' \in {marker, None}
  BY DEF Extract, RemoveNative, Typed, TypeOK
<1>2. TasksKnown'
  BY DEF Extract, RemoveNative, Typed, TasksKnown, Busy, Now
<1> QED
  BY <1>1, <1>2 DEF Typed, TypeOK, Extract, RemoveNative, Busy

\* The steps that end a sync.
LEMMA TypedEnds == Typed /\ (Report \/ Stop) => Typed'
<1> SUFFICES ASSUME Typed, Report \/ Stop PROVE Typed'
  OBVIOUS
<1>1. Busy /\ sync \in Sync
  BY Meant DEF Report, Stop, In, Typed
<1>2. sync.entry \in Release
  BY <1>1 DEF Sync
<1>3. ~Busy'
  BY DEF Report, Stop, Busy
<1>4. TasksKnown'
  BY <1>3 DEF TasksKnown
<1>5. CASE Report
  BY <1>2, <1>3, <1>4, <1>5 DEF Typed, TypeOK, Report, disk
<1>6. CASE Stop
  <2>1. left' \in [edits : 0 .. MaxEdits, stops : 0 .. MaxStops, releases : 0 .. MaxReleases]
    BY <1>6, SyncAssumption DEF Stop, Typed, TypeOK
  <2> QED
    BY <2>1, <1>3, <1>4, <1>6 DEF Typed, TypeOK, Stop, disk
<1> QED
  BY <1>5, <1>6

LEMMA TypedWorld == Typed /\ (Publish \/ Refresh) => Typed'
<1> SUFFICES ASSUME Typed, Publish \/ Refresh PROVE Typed'
  OBVIOUS
<1>1. TasksKnown'
  BY DEF Publish, Refresh, Typed, TasksKnown, Busy, Now
<1>2. CASE Publish
  <2>1. left' \in [edits : 0 .. MaxEdits, stops : 0 .. MaxStops, releases : 0 .. MaxReleases]
    BY <1>2, SyncAssumption DEF Publish, Typed, TypeOK
  <2> QED
    BY <2>1, <1>1, <1>2 DEF Typed, TypeOK, Publish, disk, Busy
<1>3. CASE Refresh
  BY <1>1, <1>3 DEF Typed, TypeOK, Refresh, disk, Busy
<1> QED
  BY <1>2, <1>3

LEMMA TypedStart ==
    ASSUME Typed, NEW cause \in {"update", "run"}, NEW force \in BOOLEAN, Start(cause, force)
    PROVE  Typed'
<1>1. PICK meta \in Release : sync' = Planned(meta, cause, force)
  BY DEF Start, Typed, TypeOK
<1>2. Busy' /\ sync' \in Sync /\ TasksKnown'
  BY <1>1, PlannedTyped
<1> QED
  BY <1>2 DEF Typed, TypeOK, Start, disk

\* A change concerns mods.
LEMMA StirredTyped ==
    ASSUME mods \in ModDir, NEW after \in ModDir
    PROVE  Stirred(after) \subseteq Mod
<1> DEFINE jars == {j \in Jar : mods[j] # after[j]}
           builds == ({mods[j] : j \in jars} \cup {after[j] : j \in jars}) \ {Absent}
<1>1. builds \subseteq Build
  BY DEF ModDir
<1>2. {IdOf[b] : b \in builds} \ {NoId} \subseteq Mod
  <2> HIDE DEF builds
  <2> QED
    BY <1>1, ModAssumption
<1> QED
  BY <1>2 DEF Stirred

LEMMA TypedSwitch ==
    ASSUME Typed, NEW id \in OptionalSet, NEW on \in BOOLEAN, SwitchSet(id, on)
    PROVE  Typed'
<1>1. preference' \in [OptionalSet -> BOOLEAN \cup {Unset}]
  BY DEF SwitchSet, Typed, TypeOK
<1>2. PICK named : mods' = [j \in Jar |-> CASE j \notin named -> mods[j]
                                             [] on             -> Linked(mods, j)[j]
                                             [] OTHER          -> Absent]
  BY DEF SwitchSet
<1>3. \A j \in Jar : Linked(mods, j)[j] \in Build \cup {Absent}
  BY DEF Linked, Typed, TypeOK, ModDir
<1>4. mods' \in ModDir
  BY <1>2, <1>3 DEF Typed, TypeOK, ModDir
<1>5. ~Busy'
  BY DEF SwitchSet, Busy
<1>6. touched' \subseteq Mod
  BY <1>4, StirredTyped DEF SwitchSet, Typed, TypeOK
<1> QED
  BY <1>1, <1>4, <1>5, <1>6 DEF Typed, TypeOK, TasksKnown, SwitchSet

LEMMA TypedUser == Typed /\ (EditMods \/ EditFiles \/ RemoveDir) => Typed'
<1> SUFFICES ASSUME Typed, EditMods \/ EditFiles \/ RemoveDir PROVE Typed'
  OBVIOUS
<1>1. Edit
  BY DEF EditMods, EditFiles, RemoveDir
<1>2. left' \in [edits : 0 .. MaxEdits, stops : 0 .. MaxStops, releases : 0 .. MaxReleases]
  BY <1>1, SyncAssumption DEF Edit, Typed, TypeOK
<1>3. (Busy' => sync' \in Sync) /\ TasksKnown'
  <2>1. CASE Busy
    <3>1. sync \in Sync /\ sync' = [sync EXCEPT !.quiet = FALSE]
      BY <1>1, <2>1, Meant DEF Edit, Typed
    <3>2. sync' \in Sync
      BY <3>1 DEF Sync
    <3>3. /\ sync'.meta = sync.meta /\ sync'.tasks = sync.tasks /\ sync'.links = sync.links
          /\ sync'.objects = sync.objects /\ sync'.patches = sync.patches /\ sync'.open = sync.open
      BY <3>1 DEF Sync
    <3> QED
      BY <2>1, <3>2, <3>3 DEF Typed, TasksKnown, Now
  <2>2. CASE ~Busy
    BY <1>1, <2>2 DEF Edit, Busy, TasksKnown
  <2> QED
    BY <2>1, <2>2
<1>4. CASE EditMods
  <2>1. PICK e \in Jar \X (Build \cup {Absent}) :
          /\ mods' = [mods EXCEPT ![e[1]] = e[2]]
          /\ touched' = touched \cup Stirred(mods')
    BY <1>4, SyncAssumption DEF EditMods
  <2>2. mods' \in ModDir
    BY <2>1 DEF Typed, TypeOK, ModDir
  <2>3. touched' \subseteq Mod
    BY <2>1, <2>2, StirredTyped DEF Typed, TypeOK
  <2> QED
    BY <2>2, <2>3, <1>2, <1>3, <1>4 DEF Typed, TypeOK, EditMods
<1>5. CASE EditFiles
  <2>1. PICK e \in File \X (Content \cup {NoFile}) :
          /\ files' = [files EXCEPT ![e[1]] = e[2]]
          /\ dirs' = IF e[2] = NoFile THEN dirs ELSE dirs \cup Parents(e[1])
    BY <1>5, SyncAssumption DEF EditFiles
  <2>2. files' \in FileDir /\ dirs' \subseteq Dir
    BY <2>1 DEF Typed, TypeOK, FileDir, Parents
  <2> QED
    BY <2>2, <1>2, <1>3, <1>5 DEF Typed, TypeOK, EditFiles
<1>6. CASE RemoveDir
  <2>1. files' \in FileDir /\ dirs' \subseteq Dir
    BY <1>6 DEF RemoveDir, Typed, TypeOK, FileDir
  <2> QED
    BY <2>1, <1>2, <1>3, <1>6 DEF Typed, TypeOK, RemoveDir
<1> QED
  BY <1>4, <1>5, <1>6

LEMMA TypedStep == Typed /\ [Next]_vars => Typed'
<1> SUFFICES ASSUME Typed, [Next]_vars PROVE Typed'
  OBVIOUS
<1>1. CASE Launcher
  BY <1>1, TypedDelete, TypedCheck, TypedDownload, TypedLink, TypedOpenConfig, TypedWriteConfig,
     TypedPasses, TypedExtract, TypedEnds DEF Launcher
<1>2. CASE User
  BY <1>2, TypedStart, TypedSwitch, TypedUser DEF User
<1>3. CASE Stop \/ Publish \/ Refresh
  BY <1>3, TypedEnds, TypedWorld
<1>4. CASE UNCHANGED vars
  BY <1>4 DEF vars, disk, Typed, TypeOK, TasksKnown, Busy, Now
<1> QED
  BY <1>1, <1>2, <1>3, <1>4 DEF Next

LEMMA TypedAlways == Spec => []Typed
  BY TypedInit, TypedStep, PTL DEF Spec

\* Every state of a synchronisation is well-typed, whatever is published.
THEOREM TypeCorrect == Spec => []TypeOK
<1>1. Typed => TypeOK
  BY DEF Typed
<1> QED
  BY <1>1, TypedAlways, PTL
-----------------------------------------------------------------------------
(***************************************************************************)
(* The natives.                                                            *)
(***************************************************************************)

\* The marker is gone while natives are extracted, and once that is over the natives
\* are those of the metadata that is being recorded, unless a marker was believed that a
\* removal cut off had left.
NativesInv ==
    /\ NativesWhole
    /\ In("extract") => marker = None
    /\ In("record") \/ In("rename") \/ In("report") => natives = Now.natives \/ cut

\* What becomes of the phase of a sync.
LEMMA PhaseAfter ==
    ASSUME Typed, Busy
    PROVE  /\ \A phase \in Phase : Goto(phase) => sync'.phase = phase /\ sync'.meta = sync.meta
           /\ Delete => sync'.phase = "delete"
           /\ Check => sync'.phase = "download"
           /\ Download => sync'.phase = "download"
           /\ Link => sync'.phase = "link"
           /\ OpenConfig \/ WriteConfig => sync'.phase = "configure"
           /\ Edit => sync'.phase = sync.phase /\ sync'.meta = sync.meta
<1>1. sync \in Sync
  BY Meant DEF Typed
<1>2. \A phase \in Phase : Goto(phase) => sync'.phase = phase /\ sync'.meta = sync.meta
  BY <1>1 DEF Goto, Sync
<1>3. Delete => sync'.phase = "delete"
  BY <1>1 DEF Delete, In, Sync
<1>4. Check => sync'.phase = "download"
  BY <1>1 DEF Check, Sync
<1>5. Download => sync'.phase = "download"
  BY <1>1 DEF Download, In, Sync
<1>6. Link => sync'.phase = "link"
  BY <1>1 DEF Link, In, Sync
<1>7. OpenConfig \/ WriteConfig => sync'.phase = "configure"
  BY <1>1 DEF OpenConfig, WriteConfig, In, Sync
<1>8. Edit => sync'.phase = sync.phase /\ sync'.meta = sync.meta
  BY <1>1 DEF Edit, Sync
<1> QED
  BY <1>2, <1>3, <1>4, <1>5, <1>6, <1>7, <1>8

LEMMA NativesStep == Typed /\ NativesInv /\ [Next]_vars => NativesInv'
<1> SUFFICES ASSUME Typed, NativesInv, [Next]_vars PROVE NativesInv'
  OBVIOUS
<1> USE DEF NativesInv, NativesWhole
<1>1. CASE Delete \/ Check \/ Download \/ Link \/ OpenConfig \/ WriteConfig
  <2>1. Busy /\ UNCHANGED <<natives, marker, cut>> /\ ~In("clear")
    BY <1>1 DEF Delete, Check, Download, Link, OpenConfig, WriteConfig, In, disk
  <2>2. sync'.phase \in {"delete", "download", "link", "configure"}
    BY <1>1, <2>1, PhaseAfter
  <2> QED
    BY <2>1, <2>2 DEF In
<1>2. CASE Downloaded \/ AllLinked \/ MarkDirs
  <2>1. Busy /\ UNCHANGED <<natives, marker, cut>> /\ ~In("clear")
    BY <1>2 DEF Downloaded, AllLinked, MarkDirs, In, disk
  <2>2. Goto("link") \/ Goto("configure") \/ Goto("natives")
    BY <1>2 DEF Downloaded, AllLinked, MarkDirs
  <2>3. sync'.phase \in {"link", "configure", "natives"}
    BY <2>1, <2>2, PhaseAfter DEF Phase
  <2> QED
    BY <2>1, <2>3 DEF In
<1>3. CASE SkipNatives
  <2>1. Busy /\ UNCHANGED <<natives, marker, cut>> /\ marker = Now.natives /\ Goto("record")
        /\ ~In("clear")
    BY <1>3 DEF SkipNatives, NativesCurrent, In, disk
  <2>2. sync'.phase = "record" /\ sync'.meta = sync.meta
    BY <2>1, PhaseAfter DEF Phase
  <2>3. natives = Now.natives \/ cut
    BY <2>1, Meant, SyncAssumption DEF Typed
  <2> QED
    BY <2>1, <2>2, <2>3 DEF In, Now
<1>4. CASE ClearNatives \/ NativesCleared
  <2>1. CASE ClearNatives
    <3>1. sync'.phase = "clear" /\ Busy'
      BY <2>1, PhaseAfter, GotoTyped DEF ClearNatives, In, Phase
    <3> QED
      BY <2>1, <3>1 DEF ClearNatives, In, disk
  <2>2. CASE NativesCleared
    <3>1. sync'.phase = "extract"
      BY <2>2, PhaseAfter DEF NativesCleared, In, Phase
    <3> QED
      BY <2>2, <3>1 DEF NativesCleared, In, disk
  <2> QED
    BY <1>4, <2>1, <2>2
<1>5. CASE Extract \/ RemoveNative
  BY <1>5 DEF Extract, RemoveNative, In, Busy
<1>6. CASE MarkNatives
  <2>1. Busy /\ natives = Now.natives /\ natives' = natives /\ marker' = natives /\ Goto("record")
    BY <1>6 DEF MarkNatives, In
  <2>2. sync'.phase = "record" /\ sync'.meta = sync.meta
    BY <2>1, PhaseAfter DEF Phase
  <2> QED
    BY <2>1, <2>2 DEF In, Now
<1>7. CASE RemoveRecord \/ RenameRecord
  <2>1. Busy /\ UNCHANGED <<natives, marker, cut>> /\ (natives = Now.natives \/ cut) /\ ~In("clear")
        /\ (Goto("rename") \/ Goto("report"))
    BY <1>7 DEF RemoveRecord, RenameRecord, In
  <2>2. sync'.phase \in {"rename", "report"} /\ sync'.meta = sync.meta
    BY <2>1, PhaseAfter DEF Phase
  <2> QED
    BY <2>1, <2>2 DEF In, Now
<1>8. CASE Report \/ Stop
  <2>1. ~Busy' /\ UNCHANGED <<natives, marker>> /\ (cut \/ In("clear") => cut')
    BY <1>8 DEF Report, Stop, disk, Busy, In
  <2> QED
    BY <2>1 DEF In
<1>9. CASE \E cause \in {"update", "run"}, force \in BOOLEAN : Start(cause, force)
  <2>1. sync'.phase = "delete" /\ UNCHANGED <<natives, marker, cut>>
    BY <1>9 DEF Start, Planned, disk
  <2>2. ~Busy
    BY <1>9 DEF Start
  <2> QED
    BY <2>1, <2>2 DEF In
<1>10. CASE EditMods \/ EditFiles \/ RemoveDir
  <2>1. Edit /\ UNCHANGED <<natives, marker, cut>>
    BY <1>10 DEF EditMods, EditFiles, RemoveDir
  <2>2. CASE Busy
    <3>1. sync'.phase = sync.phase /\ sync'.meta = sync.meta /\ sync \in Sync
      BY <2>1, <2>2, PhaseAfter, Meant DEF Typed
    <3>2. Busy'
      BY <3>1 DEF Busy, Idle, Sync, Phase
    <3> QED
      BY <2>1, <2>2, <3>1, <3>2 DEF In, Now
  <2>3. CASE ~Busy
    BY <2>1, <2>3 DEF Edit, In, Busy
  <2> QED
    BY <2>2, <2>3
<1>11. CASE (\E id \in OptionalSet, on \in BOOLEAN : SwitchSet(id, on)) \/ Publish \/ Refresh \/ UNCHANGED vars
  <2>1. UNCHANGED <<sync, natives, marker, cut>>
    BY <1>11 DEF SwitchSet, Publish, Refresh, vars, disk
  <2> QED
    BY <2>1 DEF In, Busy, Now
<1> QED
  BY <1>1, <1>2, <1>3, <1>4, <1>5, <1>6, <1>7, <1>8, <1>9, <1>10, <1>11 DEF Next, Launcher, User

LEMMA NativesAlways == Spec => []NativesInv
<1>1. Init => NativesInv
  BY DEF Init, NativesInv, NativesWhole, In, Busy
<1> QED
  BY <1>1, TypedAlways, NativesStep, PTL DEF Spec

\* A marker in the natives directory tells the truth, also where an extraction was
\* interrupted; only where the removal before it is under way, or was cut off, it may
\* outlive the natives.
THEOREM NativesAreWhole == Spec => []NativesWhole
<1>1. NativesInv => NativesWhole
  BY DEF NativesInv
<1> QED
  BY <1>1, NativesAlways, PTL

\* A sync that succeeds leaves the natives its metadata names, unless it believed a marker
\* a removal cut off had left.
THEOREM NativesAreRecorded == Spec => []NativesOfRecord
<1>1. NativesInv => NativesOfRecord
  BY DEF NativesInv, NativesOfRecord
<1> QED
  BY <1>1, NativesAlways, PTL
-----------------------------------------------------------------------------
(***************************************************************************)
(* The mods: while nobody interferes, the plan of a sync fits the mods     *)
(* directory.                                                              *)
(***************************************************************************)

\* What a manifest, the published or the recorded one, says something about.
Spoken(id) ==
    \/ id \in DOMAIN Now.entries \cup DOMAIN Entries(sync.known)
    \/ id \in Now.blocked \/ Optional(View, id)

InDelta == Now.mode = "delta" /\ ~sync.force

DeletesFit ==
    In("delete") /\ sync.quiet =>
        \A j \in sync.deletes \cap Jar : mods[j] # Absent =>
            /\ InDelta => Spoken(IdOf[mods[j]])
            /\ ~sync.force =>
                 \/ j \in Clutter \/ j \in sync.warned
                 \/ IdOf[mods[j]] \in DOMAIN Entries(sync.known) \cup DOMAIN Now.entries

TasksFit ==
    (In("delete") \/ In("download")) /\ sync.quiet /\ InDelta =>
        \A id \in Mod : <<"mod", id>> \in sync.tasks =>
            \/ id \in Now.required \/ id \notin DOMAIN Entries(sync.known)
            \/ Local(mods, id) # {} \/ id \in lost

\* The plan is made for the directory as it is.
LEMMA PlanFits ==
    ASSUME Typed, NEW meta \in Release, NEW cause \in {"update", "run"}, NEW force \in BOOLEAN,
           sync' = Planned(meta, cause, force),
           UNCHANGED <<mods, recorded, preference, lost>>
    PROVE  DeletesFit' /\ TasksFit'
<1> DEFINE p == ModView(meta, cause, force)
<1>1. /\ p.manifest = Meta[meta] /\ p.previous = Entries(recorded) /\ p.mods = mods
      /\ p.force = force
  BY DEF ModView
<1>2. /\ sync'.meta = meta /\ sync'.known = recorded /\ sync'.force = force
      /\ sync'.warned = Warned(p)
      /\ sync'.deletes = ModDeletes(p) \cup FileDeletes(RuleView(meta, cause, force))
  BY DEF Planned
<1>3. Now' = Meta[meta]
  BY <1>2 DEF Now
<1>4. View'.manifest = Meta[meta]
  BY <1>2 DEF View, ModView
<1>5. \A id : Optional(View, id)' <=> Optional(p, id)
  BY <1>1, <1>4 DEF Optional, SetsNaming
<1>6. \A id \in Mod : <<"mod", id>> \in sync'.tasks => id \in ModChecks(p)
  BY DEF Planned
<1>7. FileDeletes(RuleView(meta, cause, force)) \cap Jar = {}
  <2> DEFINE r == RuleView(meta, cause, force)
  <2>1. \A n \in DOMAIN r.rules :
              /\ n \in Nat
              /\ \A f \in DOMAIN r.rules[n].objects : f \in File /\ r.rules[n].objects[f] \in Content
              /\ r.rules[n].at \in (IF r.rules[n].kind = "dir" THEN Dir ELSE File)
    BY MetaAssumption DEF RuleView
  <2> HIDE DEF r
  <2>2. FileDeletes(r) \subseteq File
    BY <2>1, RulePlan
  <2> QED
    BY <2>2, SyncAssumption DEF r
<1> DEFINE before == DOMAIN p.previous
           listed == DOMAIN p.manifest.entries
<1>8. /\ DOMAIN Entries(sync'.known) = before
      /\ DOMAIN Now'.entries = listed
      /\ Now'.blocked = p.manifest.blocked /\ Now'.required = p.manifest.required
      /\ Now'.mode = p.manifest.mode
  BY <1>1, <1>2, <1>3
<1>9. Entries(sync.known)' = Entries(sync'.known)
  BY DEF Entries
<1> HIDE DEF p
<1>10. Before(p) = before /\ Published(p) = listed
  BY DEF Before, Published
<1>11. ASSUME NEW j \in ModDeletes(p), AsDelta(p)
       PROVE  LET id == IdOf[mods[j]]
              IN  id \in listed \/ id \in before \/ id \in p.manifest.blocked \/ Optional(p, id)
  <2>1. j \in DeltaDeletes(p)
    BY <1>11 DEF ModDeletes
  <2>2. PICK id \in DeltaGone(p) \cup DeltaReplaced(p) : j \in Local(p.mods, id)
    BY <2>1 DEF DeltaDeletes
  <2>3. IdOf[mods[j]] = id
    BY <2>2, <1>1 DEF Local
  <2>4. id \in DeltaReplaced(p) => id \in Published(p)
    BY DEF DeltaReplaced, Normal
  <2>5. id \in DeltaGone(p) => \/ id \in p.manifest.blocked \/ id \in Published(p)
                               \/ id \in Before(p) \/ Optional(p, id)
    BY DEF DeltaGone, Blocked, Switched
  <2> QED
    BY <2>2, <2>3, <2>4, <2>5, <1>10
<1>12. ASSUME NEW j \in ModDeletes(p), ~force, j \notin Clutter, j \notin Warned(p)
       PROVE  IdOf[mods[j]] \in before \cup listed
  <2>1. IdOf[mods[j]] \in Before(p) \/ IdOf[mods[j]] \in Active(p)
    BY <1>1, <1>12 DEF Warned
  <2>2. Active(p) \subseteq Published(p)
    BY DEF Active, Normal, On, Switched
  <2> QED
    BY <2>1, <2>2, <1>10
<1>13. ASSUME NEW id \in ModChecks(p), AsDelta(p)
       PROVE  \/ id \in p.manifest.required \/ id \notin before \/ Local(mods, id) # {}
  <2>1. id \in DeltaChecks(p)
    BY <1>13 DEF ModChecks
  <2>2. id \in DeltaReplaced(p) => Present(p, id) \/ id \in p.manifest.required
    BY DEF DeltaReplaced
  <2>3. id \in DeltaMissing(p) => id \in p.manifest.required
    BY DEF DeltaMissing
  <2> QED
    BY <2>1, <2>2, <2>3, <1>1, <1>10 DEF DeltaChecks, Present
<1> HIDE DEF before, listed
<1>14. InDelta' <=> AsDelta(p)
  BY <1>1, <1>2, <1>8 DEF InDelta, AsDelta
<1>15. \A j \in sync'.deletes \cap Jar : j \in ModDeletes(p)
  BY <1>2, <1>7
<1>16. ASSUME NEW j \in sync'.deletes \cap Jar
       PROVE  /\ InDelta' => Spoken(IdOf[mods[j]])'
              /\ ~force => \/ j \in Clutter \/ j \in Warned(p)
                           \/ IdOf[mods[j]] \in DOMAIN Entries(sync'.known) \cup DOMAIN Now'.entries
  <2>1. InDelta' => Spoken(IdOf[mods[j]])'
    BY <1>5, <1>8, <1>9, <1>11, <1>14, <1>15 DEF Spoken
  <2> QED
    BY <2>1, <1>8, <1>12, <1>15
<1>17. DeletesFit'
  BY <1>2, <1>9, <1>16 DEF DeletesFit
<1>18. TasksFit'
  BY <1>6, <1>8, <1>9, <1>13, <1>14 DEF TasksFit
<1> QED
  BY <1>17, <1>18
\* The facts a sync does not change.
LEMMA SameSync ==
    ASSUME /\ sync'.meta = sync.meta /\ sync'.known = sync.known /\ sync'.force = sync.force
    PROVE  /\ Now' = Now /\ Entries(sync.known)' = Entries(sync.known) /\ (InDelta' <=> InDelta)
           /\ \A id : Spoken(id)' <=> Spoken(id)
<1>1. Now' = Now /\ Entries(sync.known)' = Entries(sync.known)
  BY DEF Now, Entries
<1>2. View.manifest = Now /\ View'.manifest = Now
  BY DEF View, ModView, Now
<1>3. \A id : Optional(View, id)' <=> Optional(View, id)
  BY <1>2 DEF Optional, SetsNaming
<1> QED
  BY <1>1, <1>3 DEF InDelta, Spoken

LEMMA FitStep == Typed /\ DeletesFit /\ TasksFit /\ [Next]_vars => DeletesFit' /\ TasksFit'
<1> SUFFICES ASSUME Typed, DeletesFit, TasksFit, [Next]_vars PROVE DeletesFit' /\ TasksFit'
  OBVIOUS
<1>1. CASE Delete
  <2>1. PICK path \in sync.deletes :
          /\ sync' = [sync EXCEPT !.deletes = @ \ {path}]
          /\ IF path \in Jar
             THEN /\ mods' = [mods EXCEPT ![path] = Absent]
                  /\ lost' = lost \cup Orphaned(mods')
                  /\ UNCHANGED files
             ELSE /\ files' = [files EXCEPT ![path] = NoFile]
                  /\ UNCHANGED <<mods, lost>>
    BY <1>1 DEF Delete
  <2>2. In("delete") /\ sync \in Sync
    BY <1>1, Meant DEF Delete, In, Typed
  <2>3. /\ sync'.meta = sync.meta /\ sync'.known = sync.known /\ sync'.force = sync.force
        /\ sync'.tasks = sync.tasks /\ sync'.warned = sync.warned /\ sync'.quiet = sync.quiet
        /\ sync'.deletes \subseteq sync.deletes
    BY <2>1, <2>2 DEF Sync
  <2>4. \A j \in Jar : mods'[j] = mods[j] \/ mods'[j] = Absent
    BY <2>1 DEF Typed, TypeOK, ModDir
  <2>5. \A id \in Mod : Local(mods, id) # {} => Local(mods', id) # {} \/ id \in lost'
    BY <2>1 DEF Orphaned
  <2>6. lost \subseteq lost'
    BY <2>1
  <2>7. DeletesFit'
    BY <2>2, <2>3, <2>4, SameSync DEF DeletesFit
  <2>8. TasksFit'
    BY <2>2, <2>3, <2>5, <2>6, SameSync DEF TasksFit
  <2> QED
    BY <2>7, <2>8
<1>2. CASE Check
  <2>1. In("delete") /\ sync \in Sync /\ UNCHANGED <<mods, lost>>
    BY <1>2, Meant DEF Check, In, Typed, disk
  <2>2. /\ sync'.meta = sync.meta /\ sync'.known = sync.known /\ sync'.force = sync.force
        /\ sync'.tasks \subseteq sync.tasks /\ sync'.quiet = sync.quiet
        /\ sync'.phase = "download"
    BY <1>2, <2>1 DEF Check, Sync
  <2>3. DeletesFit'
    BY <2>2 DEF DeletesFit, In
  <2>4. TasksFit'
    BY <2>1, <2>2, SameSync DEF TasksFit
  <2> QED
    BY <2>3, <2>4
<1>3. CASE Download
  <2>1. In("download") /\ sync \in Sync
    BY <1>3, Meant DEF Download, In, Typed
  <2>2. PICK task \in sync.tasks :
          /\ sync' = [sync EXCEPT !.tasks = @ \ {task}]
          /\ lost' = lost \cup Orphaned(mods') \cup (IF task[1] = "mod" THEN {task[2]} ELSE {})
    BY <1>3 DEF Download
  <2>3. /\ sync'.meta = sync.meta /\ sync'.known = sync.known /\ sync'.force = sync.force
        /\ sync'.tasks \subseteq sync.tasks /\ sync'.quiet = sync.quiet
        /\ sync'.phase = "download"
    BY <2>1, <2>2 DEF Sync, In
  <2>4. \A id \in Mod : Local(mods, id) # {} => Local(mods', id) # {} \/ id \in lost'
    BY <2>2 DEF Orphaned
  <2>5. lost \subseteq lost'
    BY <2>2
  <2>6. DeletesFit'
    BY <2>3 DEF DeletesFit, In
  <2>7. TasksFit'
    BY <2>1, <2>3, <2>4, <2>5, SameSync DEF TasksFit
  <2> QED
    BY <2>6, <2>7
<1>4. CASE Launcher /\ ~Delete /\ ~Check /\ ~Download
  <2>1. ~In("delete")' /\ ~In("download")'
    <3>1. CASE \E phase \in Phase \ {"delete", "download"} : Busy /\ Goto(phase)
      BY <3>1, PhaseAfter DEF In
    <3>2. CASE Link \/ OpenConfig \/ WriteConfig
      <4>1. Busy
        BY <3>2 DEF Link, OpenConfig, WriteConfig, In
      <4> QED
        BY <3>2, <4>1, PhaseAfter DEF In
    <3>3. CASE Extract \/ RemoveNative
      BY <3>3 DEF Extract, RemoveNative, In
    <3>4. CASE Report
      BY <3>4 DEF Report, In, Busy
    <3> QED
      BY <1>4, <3>1, <3>2, <3>3, <3>4
         DEF Launcher, Downloaded, AllLinked, MarkDirs, SkipNatives, ClearNatives, NativesCleared,
               MarkNatives,
             RemoveRecord, RenameRecord, Phase, In
  <2> QED
    BY <2>1 DEF DeletesFit, TasksFit
<1>5. ASSUME NEW cause \in {"update", "run"}, NEW force \in BOOLEAN, Start(cause, force)
      PROVE  DeletesFit' /\ TasksFit'
  <2>1. PICK meta \in Release : sync' = Planned(meta, cause, force)
    BY <1>5 DEF Start, Typed, TypeOK
  <2> QED
    BY <1>5, <2>1, PlanFits DEF Start, disk
<1>6. CASE EditMods \/ EditFiles \/ RemoveDir
  <2>1. Edit
    BY <1>6 DEF EditMods, EditFiles, RemoveDir
  <2>2. Busy' => ~sync'.quiet
    BY <2>1, Meant DEF Edit, Busy, Typed, Sync
  <2> QED
    BY <2>2 DEF DeletesFit, TasksFit, In
<1>7. CASE Stop \/ (\E id \in OptionalSet, on \in BOOLEAN : SwitchSet(id, on))
  <2>1. ~Busy'
    BY <1>7 DEF Stop, SwitchSet, Busy
  <2> QED
    BY <2>1 DEF DeletesFit, TasksFit, In
<1>8. CASE Publish \/ Refresh \/ UNCHANGED vars
  <2>1. UNCHANGED <<sync, mods, lost>>
    BY <1>8 DEF Publish, Refresh, vars, disk
  <2>2. (In("delete")' <=> In("delete")) /\ (In("download")' <=> In("download"))
    BY <2>1 DEF In, Busy
  <2>3. DeletesFit'
    BY <2>1, <2>2, SameSync DEF DeletesFit
  <2>4. TasksFit'
    BY <2>1, <2>2, SameSync DEF TasksFit
  <2> QED
    BY <2>3, <2>4
<1> QED
  BY <1>1, <1>2, <1>3, <1>4, <1>5, <1>6, <1>7, <1>8 DEF Next, User

LEMMA FitAlways == Spec => [](Typed /\ DeletesFit /\ TasksFit)
<1>1. Init => DeletesFit /\ TasksFit
  BY DEF Init, DeletesFit, TasksFit, In, Busy
<1> QED
  BY <1>1, TypedInit, TypedStep, FitStep, PTL DEF Spec
\* Three steps of a sync change the mods directory, and how.
LEMMA HowModsChange ==
    ASSUME Typed, [Next]_vars, SyncsMods
    PROVE  /\ Busy
           /\ \/ /\ Delete
                 /\ \A j \in Jar : mods'[j] = mods[j] \/ (j \in sync.deletes /\ mods'[j] = Absent)
              \/ /\ Download
                 /\ \E id \in DOMAIN Now.entries :
                       /\ <<"mod", id>> \in sync.tasks
                       /\ mods' = [mods EXCEPT ![Now.entries[id].jar] = Now.entries[id].build]
              \/ /\ Link
                 /\ \E id \in DOMAIN Now.entries :
                       /\ mods' = [mods EXCEPT ![Now.entries[id].jar] = mods'[Now.entries[id].jar]]
                       /\ mods'[Now.entries[id].jar] # Absent
<1>1. Busy /\ mods' # mods /\ left' = left
  BY DEF SyncsMods
<1>2. left.edits \in Int /\ left \in [edits : 0 .. MaxEdits, stops : 0 .. MaxStops, releases : 0 .. MaxReleases]
  BY SyncAssumption DEF Typed, TypeOK
<1>3. ~Edit
  BY <1>1, <1>2 DEF Edit
<1>4. Delete \/ Download \/ Link
  BY <1>1, <1>3 DEF Next, Launcher, User, vars, disk, Check, Downloaded, AllLinked, OpenConfig,
     WriteConfig, MarkDirs, SkipNatives, ClearNatives, NativesCleared, Extract, RemoveNative,
           MarkNatives, RemoveRecord,
     RenameRecord, Report, Stop, Start, SwitchSet, EditMods, EditFiles, RemoveDir, Publish, Refresh
<1>5. CASE Delete
  <2>1. PICK path \in sync.deletes :
          \/ path \in Jar /\ mods' = [mods EXCEPT ![path] = Absent]
          \/ mods' = mods
    BY <1>5 DEF Delete
  <2> QED
    BY <2>1, <1>1, <1>5 DEF Typed, TypeOK, ModDir
<1>6. CASE Download
  <2>1. PICK task \in sync.tasks :
          mods' = IF task[1] = "mod" THEN [mods EXCEPT ![Now.entries[task[2]].jar] = Now.entries[task[2]].build]
                  ELSE mods
    BY <1>6 DEF Download
  <2>2. task[1] = "mod"
    BY <2>1, <1>1
  <2>3. task[2] \in DOMAIN Now.entries /\ task = <<"mod", task[2]>>
    BY <2>2, <1>1, TaskKind
  <2> QED
    BY <2>1, <2>2, <2>3, <1>1, <1>6
<1>7. CASE Link
  <2>1. PICK id \in sync.links : mods' = Linked(mods, Now.entries[id].jar)
    BY <1>7 DEF Link
  <2>2. id \in DOMAIN Now.entries
    BY <2>1, <1>1 DEF Typed, TasksKnown
  <2>3. /\ cache[Now.entries[id].jar] # Absent
        /\ mods' = [mods EXCEPT ![Now.entries[id].jar] = cache[Now.entries[id].jar]]
    BY <2>1, <1>1 DEF Linked
  <2>4. Now.entries[id].jar \in Jar
    BY <2>2, <1>1, Meant DEF Typed
  <2>5. mods'[Now.entries[id].jar] = cache[Now.entries[id].jar]
    BY <2>3, <2>4 DEF Typed, TypeOK, ModDir
  <2> QED
    BY <2>2, <2>3, <2>5, <1>1, <1>7
<1> QED
  BY <1>1, <1>4, <1>5, <1>6, <1>7

\* What the user puts into the mods directory of a delta instance is left alone.
THEOREM OwnModsAreKept == Spec => OwnModsStay
<1> DEFINE Kept == SyncsMods /\ Now.mode = "delta" /\ ~sync.force /\ sync.quiet =>
         \A j \in {j \in Jar : mods[j] # Absent /\ mods'[j] # mods[j]} :
            LET id == IdOf[mods[j]]
            IN  \/ id \in DOMAIN Now.entries \cup DOMAIN Entries(sync.known)
                \/ id \in Now.blocked \/ Optional(View, id)
                \/ \E e \in DOMAIN Now.entries : Now.entries[e].jar = j
<1>1. Typed /\ DeletesFit /\ TasksFit /\ [Next]_vars => Kept
  <2> SUFFICES ASSUME Typed, DeletesFit, [Next]_vars, SyncsMods, InDelta, sync.quiet,
                      NEW j \in Jar, mods[j] # Absent, mods'[j] # mods[j]
               PROVE  \/ Spoken(IdOf[mods[j]])
                      \/ \E e \in DOMAIN Now.entries : Now.entries[e].jar = j
    BY DEF InDelta, Spoken
  <2>1. CASE Delete /\ j \in sync.deletes
    BY <2>1 DEF DeletesFit, Delete
  <2>2. CASE \E id \in DOMAIN Now.entries : \E build :
               mods' = [mods EXCEPT ![Now.entries[id].jar] = build]
    BY <2>2 DEF Typed, TypeOK, ModDir
  <2> QED
    BY <2>1, <2>2, HowModsChange
<1>2. Typed /\ DeletesFit /\ TasksFit /\ [Next]_vars => [Kept]_vars
  BY <1>1
<1> QED
  BY <1>2, FitAlways, PTL DEF Spec, OwnModsStay

\* The user is told of every mod the launcher takes away, unless a sync had put it
\* there or the mod itself stays.
THEOREM RemovalsAreTold == Spec => RemovalsTold
<1> DEFINE Told == SyncsMods /\ ~sync.force /\ sync.quiet =>
         \A j \in {j \in Jar \ Clutter : mods[j] # Absent /\ mods'[j] = Absent} :
            \/ j \in sync.warned
            \/ IdOf[mods[j]] \in DOMAIN Entries(sync.known) \cup DOMAIN Now.entries
<1>1. Typed /\ DeletesFit /\ TasksFit /\ [Next]_vars => Told
  <2> SUFFICES ASSUME Typed, DeletesFit, [Next]_vars, SyncsMods, ~sync.force, sync.quiet,
                      NEW j \in Jar \ Clutter, mods[j] # Absent, mods'[j] = Absent
               PROVE  \/ j \in sync.warned
                      \/ IdOf[mods[j]] \in DOMAIN Entries(sync.known) \cup DOMAIN Now.entries
    OBVIOUS
  <2>1. CASE Delete /\ j \in sync.deletes
    BY <2>1 DEF DeletesFit, Delete
  <2>2. ASSUME NEW id \in DOMAIN Now.entries,
               mods' = [mods EXCEPT ![Now.entries[id].jar] = mods'[Now.entries[id].jar]],
               mods'[Now.entries[id].jar] # Absent
        PROVE  FALSE
    BY <2>2 DEF Typed, TypeOK, ModDir
  <2>3. ASSUME NEW id \in DOMAIN Now.entries,
               mods' = [mods EXCEPT ![Now.entries[id].jar] = Now.entries[id].build]
        PROVE  FALSE
    <3>1. Now.entries[id].build # Absent
      BY <2>3, Meant, ModAssumption DEF Typed, SyncsMods
    <3> QED
      BY <3>1, <2>3 DEF Typed, TypeOK, ModDir
  <2> QED
    BY <2>1, <2>2, <2>3, HowModsChange
<1>2. Typed /\ DeletesFit /\ TasksFit /\ [Next]_vars => [Told]_vars
  BY <1>1
<1> QED
  BY <1>2, FitAlways, PTL DEF Spec, RemovalsTold

\* A mod the user took out of a delta instance is not downloaded again behind the
\* user's back.
THEOREM RemovedModsStay == Spec => RemovedStays
<1> DEFINE Stays == SyncsMods /\ In("download") /\ Now.mode = "delta" /\ ~sync.force /\ sync.quiet =>
         \A id \in {id \in touched \ lost : Local(mods, id) = {} /\ Local(mods', id) # {}} :
            id \in Now.required \/ id \notin DOMAIN Entries(sync.known)
<1>1. Typed /\ DeletesFit /\ TasksFit /\ [Next]_vars => Stays
  <2> SUFFICES ASSUME Typed, TasksFit, [Next]_vars, SyncsMods, In("download"), InDelta, sync.quiet,
                      NEW id \in touched \ lost, Local(mods, id) = {}, Local(mods', id) # {}
               PROVE  id \in Now.required \/ id \notin DOMAIN Entries(sync.known)
    BY DEF InDelta
  <2>1. ~Delete /\ ~Link
    BY DEF Delete, Link, In
  <2>2. PICK x \in DOMAIN Now.entries :
          /\ <<"mod", x>> \in sync.tasks
          /\ mods' = [mods EXCEPT ![Now.entries[x].jar] = Now.entries[x].build]
    BY <2>1, HowModsChange
  <2>3. x \in Mod /\ IdOf[Now.entries[x].build] = x
    BY <2>2, Meant DEF Typed, In
  <2>4. PICK j \in Jar \ Clutter : mods'[j] # Absent /\ IdOf[mods'[j]] = id
    BY DEF Local
  <2>5. j = Now.entries[x].jar
    <3>1. mods'[j] # mods[j]
      BY <2>4 DEF Local
    <3> QED
      BY <3>1, <2>2 DEF Typed, TypeOK, ModDir
  <2>6. id = x
    BY <2>2, <2>3, <2>4, <2>5 DEF Typed, TypeOK, ModDir
  <2> QED
    BY <2>2, <2>3, <2>6 DEF TasksFit
<1>2. Typed /\ DeletesFit /\ TasksFit /\ [Next]_vars => [Stays]_vars
  BY <1>1
<1> QED
  BY <1>2, FitAlways, PTL DEF Spec, RemovedStays

-----------------------------------------------------------------------------
(***************************************************************************)
(* The mods of an update. Between two syncs the directory holds what the   *)
(* record says and no mod twice, but for the mods that were disturbed;     *)
(* within a sync, each part of its plan is done, is still to be done, or   *)
(* concerns a mod that was disturbed.                                      *)
(***************************************************************************)

\* A jar has the same name in every release, and no other jar has it: the version is part
\* of it.  The instance TLC checks is one of these.
NamesTell ==
    \A m, n \in Release : \A x \in DOMAIN Meta[m].entries, y \in DOMAIN Meta[n].entries :
        Meta[m].entries[x].jar = Meta[n].entries[y].jar
            <=> Meta[m].entries[x].build = Meta[n].entries[y].build

\* No release is of the mode in which a file of the right size is taken for the right one.
HashesChecked == \A m \in Release : Meta[m].mode # "mirror_fast"

\* The mods that need not be what the record says.
Disturbed == touched \cup lost

\* Entries a mods directory holds as they say, but for those that were disturbed.
Placed(entries, d, id) == d[entries[id].jar] = entries[id].build /\ Local(d,
    id) \subseteq {entries[id].jar}

\* A manifest is followed.
Followed(entries, d, disturbed) ==
    \A id \in DOMAIN entries : Placed(entries, d, id) \/ id \in disturbed

\* No mod is there twice.
OneJarEach(d, disturbed) ==
    \A id \in Mod : \A j, k \in Local(d, id) : j = k \/ id \in disturbed

\* The cache of optional mods holds what was published, under its name.
CacheTells(c) ==
    \A j \in Jar : c[j] # Absent =>
        \E m \in Release : \E id \in DOMAIN Meta[m].entries :
            Meta[m].entries[id].jar = j /\ Meta[m].entries[id].build = c[j]

\* What the sync under way was planned from, but for the files.
Terms == [manifest |-> Now, previous |-> Entries(sync.known), cause |-> sync.cause,
          force |-> sync.force, preference |-> preference]

\* The user has changed what the sync has put there.
Excused(s, d, e, id, j) ==
    ~s.quiet /\ id \in e /\ (d[j] # Absent => IdOf[d[j]] \in e \cup {NoId})

\* The parts of a plan p.  s is the sync, d the mods directory, c the cache, e the mods
\* disturbed.  A normal mod is in place, is going to be, or is one that was left out.
NormalFit(p, s, d, e) ==
    \A id \in Normal(p) :
        LET j == Target(p, id)
        IN  \/ d[j] = p.manifest.entries[id].build /\ j \notin s.deletes
            \/ <<"mod", id>> \in s.tasks
            \/ AsDelta(p) /\ id \in s.undone
            \/ Excused(s, d, e, id, j)

\* The mods the record has already of which a delta leaves one jar: a new build of an
\* optional mod is linked beside the old one.
Settled(p) == {id \in Before(p) : id \in Normal(p) \/ (id \in On(p) /\ ~Changed(p, id))}

\* Their other jars are gone, or will be.
AloneFit(p, s, d, e) ==
    AsDelta(p) =>
        \A id \in Settled(p) :
            \/ Local(d, id) \ {Target(p, id)} \subseteq s.deletes
            \/ id \in s.undone
            \/ ~s.quiet /\ id \in e

\* Whether the cache holds what is published is not looked at.
Unchecked(p, id) == AsDelta(p) /\ id \in Before(p) /\ ~Changed(p, id)

\* An optional mod that is on is linked, will be, or is not in the cache.
OnFit(p, s, d, c, e) ==
    \A id \in On(p) :
        LET j == Target(p, id)
        IN  \/ id \in s.links
            \/ d[j] = p.manifest.entries[id].build /\ j \notin s.deletes
            \/ Unchecked(p, id) /\ c[j] = Absent /\ s.tasks = {}
            \/ Excused(s, d, e, id, j)

\* What is looked at is in the cache, or will be.
CacheFit(p, s, c) ==
    \A id \in Switched(p) :
        \/ <<"cache", id>> \in s.tasks
        \/ c[Target(p, id)] = p.manifest.entries[id].build
        \/ Unchecked(p, id)

\* What must not be there is not, or will not be.
GoneFit(p, s, d) ==
    AsDelta(p) /\ s.quiet => \A id \in DeltaGone(p) : Local(d, id) \subseteq s.deletes

\* Nor is, in a mirror, what the manifest does not allow.
MirrorFit(p, s, d, e) ==
    ~AsDelta(p) =>
        \A j \in Recognized(d) :
            j \in Allowed(p) \cup s.deletes \/ (~s.quiet /\ IdOf[d[j]] \in e)

\* Only what is published is worked on.
WorkFit(p, s) ==
    /\ \A id \in Mod : <<"mod", id>> \in s.tasks => id \in Normal(p)
    /\ \A id \in Mod : <<"cache", id>> \in s.tasks => id \in Switched(p)
    /\ s.links \subseteq On(p)

PlanFit(p, s, d, c, e) ==
    /\ NormalFit(p, s, d, e) /\ AloneFit(p, s, d, e) /\ OnFit(p, s, d, c, e)
    /\ CacheFit(p, s, c) /\ GoneFit(p, s, d) /\ MirrorFit(p, s, d, e)

\* A phase is over when its work is done.
Emptied(s) ==
    /\ s.phase # "delete" => s.deletes = {}
    /\ s.phase \notin {"delete", "download"} => s.tasks = {}
    /\ s.phase \notin {"delete", "download", "link"} => s.links = {}

\* Whatever the sync does, the record on the disk is followed,
RecordInv ==
    /\ Followed(Entries(recorded), mods, Disturbed)
    /\ OneJarEach(mods, Disturbed)
    /\ CacheTells(cache)

\* and a plan fits until the new record is there.
SyncInv ==
    Busy =>
    /\ Emptied(sync)
    /\ WorkFit(Terms, sync)
    /\ ~In("report") =>
          /\ Followed(Entries(sync.known), mods, Disturbed)
          /\ sync.undone \subseteq Disturbed
          /\ IF ShouldRun(Terms) THEN PlanFit(Terms, sync, mods, cache, Disturbed)
             ELSE sync.known = sync.meta

-----------------------------------------------------------------------------
(***************************************************************************)
(* What a change of the mods directory, a step of the sync or an edit      *)
(* leaves of the plan.                                                     *)
(***************************************************************************)

\* What a planner is shown of a release in which jars have names of their own.
Sound(p) ==
    /\ Published(p) \subseteq Mod
    /\ \A id \in Published(p) :
          /\ p.manifest.entries[id].jar \in Jar \ Clutter
          /\ p.manifest.entries[id].build \in Build
          /\ IdOf[p.manifest.entries[id].build] = id
    /\ \A x, y \in Published(p) : Target(p, x) = Target(p, y) => x = y

\* A change of the mods directory after which what was disturbed before is, and so is what
\* came and what is gone.
Accounted(d, d2, e, e2) ==
    /\ e \subseteq e2
    /\ \A j \in Jar : d2[j] \in {d[j], Absent} \/ IdOf[d2[j]] \in e2 \cup {NoId}
    /\ \A id \in Mod : Local(d, id) = {} \/ Local(d2, id) # {} \/ id \in e2

\* The record of a release is followed until something is disturbed.
LEMMA FollowedKept ==
    ASSUME NEW m \in Release, NEW d \in ModDir, NEW d2 \in ModDir, NEW e, NEW e2,
           Accounted(d, d2, e, e2), Followed(Meta[m].entries, d, e)
    PROVE  Followed(Meta[m].entries, d2, e2)
<1> DEFINE entries == Meta[m].entries
<1>1. SUFFICES ASSUME NEW id \in DOMAIN entries, Placed(entries, d, id), id \notin e2
               PROVE  Placed(entries, d2, id)
  BY DEF Followed, Accounted
<1> DEFINE jar == entries[id].jar
<1>2. /\ id \in Mod /\ jar \in Jar \ Clutter /\ entries[id].build \in Build
      /\ IdOf[entries[id].build] = id
  BY MetaAssumption
<1>3. id # NoId /\ entries[id].build # Absent
  BY <1>2, ModAssumption
<1> HIDE DEF entries
<1>4. d[jar] = entries[id].build /\ Local(d, id) \subseteq {jar}
  BY <1>1 DEF Placed
<1>5. jar \in Local(d, id)
  BY <1>2, <1>3, <1>4 DEF Local
<1>6. \A j \in Local(d2, id) : d2[j] = d[j]
  BY <1>1, <1>3 DEF Local, Accounted
<1>7. Local(d2, id) \subseteq Local(d, id)
  BY <1>6 DEF Local
<1>8. Local(d2, id) # {}
  BY <1>1, <1>2, <1>5 DEF Accounted
<1>9. jar \in Local(d2, id)
  BY <1>4, <1>7, <1>8
<1> QED
  BY <1>4, <1>6, <1>7, <1>9 DEF Placed

\* A second jar of a mod is a disturbance.
LEMMA OneJarKept ==
    ASSUME NEW d \in ModDir, NEW d2 \in ModDir, NEW e, NEW e2,
           Accounted(d, d2, e, e2), OneJarEach(d, e)
    PROVE  OneJarEach(d2, e2)
<1>1. SUFFICES ASSUME NEW id \in Mod, NEW j \in Local(d2, id), NEW k \in Local(d2, id), j # k, id \notin e2
               PROVE  FALSE
  BY DEF OneJarEach
<1>2. id # NoId
  BY ModAssumption
<1>3. d2[j] = d[j] /\ d2[k] = d[k]
  BY <1>1, <1>2 DEF Local, Accounted
<1>4. j \in Local(d, id) /\ k \in Local(d, id)
  BY <1>3 DEF Local
<1> QED
  BY <1>1, <1>4 DEF OneJarEach, Accounted

\* One that fills it.
LEMMA PutAccounted ==
    ASSUME NEW d \in ModDir, NEW j \in Jar, NEW b \in Build, NEW d2, d2 = [d EXCEPT ![j] = b],
        NEW e, NEW e2,
           e \subseteq e2, IdOf[b] \in e2,
           \A id \in Mod : Local(d, id) = {} \/ Local(d2, id) # {} \/ id \in e2
    PROVE  d2 \in ModDir /\ Accounted(d, d2, e, e2)
<1>1. \A k \in Jar : d2[k] \in {d[k], Absent} \/ IdOf[d2[k]] \in e2 \cup {NoId}
  BY DEF ModDir
<1>2. d2 \in ModDir
  BY DEF ModDir
<1> QED
  BY <1>1, <1>2 DEF Accounted

-----------------------------------------------------------------------------
(***************************************************************************)
(* The steps of a sync and what is left of its plan.                       *)
(***************************************************************************)

\* Mods of the pack, of the sets and those that must go are others.
LEMMA Kinds ==
    ASSUME NEW p
    PROVE  /\ Normal(p) \cap Switched(p) = {} /\ On(p) \subseteq Switched(p)
           /\ Normal(p) \cap DeltaGone(p) = {} /\ On(p) \cap DeltaGone(p) = {}
           /\ Normal(p) \subseteq Published(p) /\ Switched(p) \subseteq Published(p)
BY DEF Normal, Switched, On, DeltaGone, Published

\* Deleting a jar.
LEMMA PlanDelete ==
    ASSUME NEW p, NEW s, NEW s2, NEW d \in ModDir, NEW d2, NEW c, NEW e, NEW e2,
           Sound(p), PlanFit(p, s, d, c, e), Accounted(d, d2, e, e2), NEW path \in s.deletes,
           d2 = IF path \in Jar THEN [d EXCEPT ![path] = Absent] ELSE d,
           s2.deletes = s.deletes \ {path}, s2.tasks = s.tasks, s2.links = s.links,
           s2.quiet = s.quiet, s2.undone = s.undone, s2.quiet \in BOOLEAN
    PROVE  PlanFit(p, s2, d2, c, e2)
<1>1. \A j \in Jar : d2[j] = d[j] \/ (j = path /\ d2[j] = Absent)
  BY DEF ModDir
<1>2. \A id : Local(d2, id) \subseteq Local(d, id) \ {path}
  BY <1>1 DEF Local, ModDir
<1>3. e \subseteq e2
  BY DEF Accounted
<1>4. \A id \in Published(p) : Target(p, id) \in Jar
  BY DEF Sound, Target
<1>5. NormalFit(p, s2, d2, e2)
  <2> SUFFICES ASSUME NEW id \in Normal(p)
               PROVE  LET j == Target(p, id)
                      IN  \/ d2[j] = p.manifest.entries[id].build /\ j \notin s2.deletes
                          \/ <<"mod", id>> \in s2.tasks
                          \/ AsDelta(p) /\ id \in s2.undone
                          \/ Excused(s2, d2, e2, id, j)
    BY DEF NormalFit
  <2>1. Target(p, id) \in Jar
    BY <1>4, Kinds
  <2>2. Excused(s, d, e, id, Target(p, id)) => Excused(s2, d2, e2, id, Target(p, id))
    BY <2>1 DEF Excused, Accounted
  <2> DEFINE j == Target(p, id)
  <2>3. \/ d[j] = p.manifest.entries[id].build /\ j \notin s.deletes
        \/ <<"mod", id>> \in s.tasks
        \/ AsDelta(p) /\ id \in s.undone
        \/ Excused(s, d, e, id, j)
    BY DEF PlanFit, NormalFit
  <2>4. j # path => d2[j] = d[j]
    BY <1>1, <2>1
  <2> HIDE DEF j
  <2> QED
    BY <2>2, <2>3, <2>4 DEF j
<1>6. OnFit(p, s2, d2, c, e2)
  <2> SUFFICES ASSUME NEW id \in On(p)
               PROVE  LET j == Target(p, id)
                      IN  \/ id \in s2.links
                          \/ d2[j] = p.manifest.entries[id].build /\ j \notin s2.deletes
                          \/ Unchecked(p, id) /\ c[j] = Absent /\ s2.tasks = {}
                          \/ Excused(s2, d2, e2, id, j)
    BY DEF OnFit
  <2>1. Target(p, id) \in Jar
    BY <1>4, Kinds
  <2>2. Excused(s, d, e, id, Target(p, id)) => Excused(s2, d2, e2, id, Target(p, id))
    BY <2>1 DEF Excused, Accounted
  <2> DEFINE j == Target(p, id)
  <2>3. \/ d[j] = p.manifest.entries[id].build /\ j \notin s.deletes
        \/ id \in s.links
        \/ Unchecked(p, id) /\ c[j] = Absent /\ s.tasks = {}
        \/ Excused(s, d, e, id, j)
    BY DEF PlanFit, OnFit
  <2>4. j # path => d2[j] = d[j]
    BY <1>1, <2>1
  <2> HIDE DEF j
  <2> QED
    BY <2>2, <2>3, <2>4 DEF j
<1>7. AloneFit(p, s2, d2, e2)
  BY <1>2, <1>3 DEF PlanFit, AloneFit
<1>8. GoneFit(p, s2, d2)
  BY <1>2 DEF PlanFit, GoneFit
<1>9. CacheFit(p, s2, c)
  BY DEF PlanFit, CacheFit
<1>10. MirrorFit(p, s2, d2, e2)
  <2>1. \A j \in Recognized(d2) : j \in Recognized(d) /\ j # path /\ d2[j] = d[j]
    BY <1>1, <1>2 DEF Recognized, Local
  <2> QED
    BY <1>3, <2>1 DEF PlanFit, MirrorFit
<1> QED
  BY <1>5, <1>6, <1>7, <1>8, <1>9, <1>10 DEF PlanFit

\* Filling the jar of a mod that is to be there.
LEMMA PlanPut ==
    ASSUME NEW p, NEW s, NEW s2, NEW d \in ModDir, NEW d2, NEW c, NEW e, NEW e2,
           Sound(p), PlanFit(p, s, d, c, e), Accounted(d, d2, e, e2),
           NEW x \in Active(p), d2 = [d EXCEPT ![Target(p, x)] = p.manifest.entries[x].build],
           s.deletes = {}, s2.deletes = {},
           s2.tasks \subseteq s.tasks, s.tasks \ s2.tasks \subseteq {<<"mod", x>>},
           s2.links \subseteq s.links, s.links \ s2.links \subseteq {x},
           s2.quiet = s.quiet, s2.undone = s.undone
    PROVE  PlanFit(p, s2, d2, c, e2)
<1> DEFINE jar == Target(p, x)
           build == p.manifest.entries[x].build
<1>1. x \in Published(p) /\ x \notin DeltaGone(p) /\ jar \in Allowed(p)
  BY Kinds DEF Active, Allowed
<1>2. x \in Mod /\ jar \in Jar \ Clutter /\ build \in Build /\ IdOf[build] = x
  BY <1>1 DEF Sound, Target
<1>3. \A j \in Jar : d2[j] = IF j = jar THEN build ELSE d[j]
  BY <1>2 DEF ModDir
<1>4. \A id \in Mod : Local(d2, id) \ {jar} \subseteq Local(d, id)
  BY <1>3 DEF Local
<1>5. \A id \in Mod : id # x => Local(d2, id) \subseteq Local(d, id)
  BY <1>2, <1>3 DEF Local
<1>6. e \subseteq e2
  BY DEF Accounted
<1>7. \A id \in Published(p) : id \in Mod /\ Target(p, id) \in Jar /\ (Target(p, id) = jar => id = x)
  BY <1>1 DEF Sound, Target
<1>8. NormalFit(p, s2, d2, e2)
  <2> SUFFICES ASSUME NEW id \in Normal(p)
               PROVE  LET j == Target(p, id)
                      IN  \/ d2[j] = p.manifest.entries[id].build /\ j \notin s2.deletes
                          \/ <<"mod", id>> \in s2.tasks
                          \/ AsDelta(p) /\ id \in s2.undone
                          \/ Excused(s2, d2, e2, id, j)
    BY DEF NormalFit
  <2> DEFINE j == Target(p, id)
  <2>1. j \in Jar /\ (j = jar => id = x)
    BY <1>7, Kinds
  <2>2. CASE j = jar
    BY <1>3, <2>1, <2>2
  <2>3. CASE j # jar
    <3>1. d2[j] = d[j] /\ id # x
      BY <1>3, <2>1, <2>3
    <3>2. \/ d[j] = p.manifest.entries[id].build /\ j \notin s.deletes
          \/ <<"mod", id>> \in s.tasks
          \/ AsDelta(p) /\ id \in s.undone
          \/ Excused(s, d, e, id, j)
      BY DEF PlanFit, NormalFit
    <3>3. Excused(s, d, e, id, j) => Excused(s2, d2, e2, id, j)
      BY <2>1 DEF Excused, Accounted
    <3> HIDE DEF j
    <3> QED
      BY <3>1, <3>2, <3>3 DEF j
  <2> QED
    BY <2>2, <2>3
<1>9. OnFit(p, s2, d2, c, e2)
  <2> SUFFICES ASSUME NEW id \in On(p)
               PROVE  LET j == Target(p, id)
                      IN  \/ id \in s2.links
                          \/ d2[j] = p.manifest.entries[id].build /\ j \notin s2.deletes
                          \/ Unchecked(p, id) /\ c[j] = Absent /\ s2.tasks = {}
                          \/ Excused(s2, d2, e2, id, j)
    BY DEF OnFit
  <2> DEFINE j == Target(p, id)
  <2>1. j \in Jar /\ (j = jar => id = x)
    BY <1>7, Kinds
  <2>2. CASE j = jar
    BY <1>3, <2>1, <2>2
  <2>3. CASE j # jar
    <3>1. d2[j] = d[j] /\ id # x
      BY <1>3, <2>1, <2>3
    <3>2. \/ d[j] = p.manifest.entries[id].build /\ j \notin s.deletes
          \/ id \in s.links
          \/ Unchecked(p, id) /\ c[j] = Absent /\ s.tasks = {}
          \/ Excused(s, d, e, id, j)
      BY DEF PlanFit, OnFit
    <3>3. Excused(s, d, e, id, j) => Excused(s2, d2, e2, id, j)
      BY <2>1 DEF Excused, Accounted
    <3> HIDE DEF j
    <3> QED
      BY <3>1, <3>2, <3>3 DEF j
  <2> QED
    BY <2>2, <2>3
<1>10. AloneFit(p, s2, d2, e2)
  <2> SUFFICES ASSUME AsDelta(p), NEW id \in Settled(p)
               PROVE  \/ Local(d2, id) \ {Target(p, id)} \subseteq s2.deletes
                      \/ id \in s2.undone
                      \/ ~s2.quiet /\ id \in e2
    BY DEF AloneFit
  <2>1. Local(d2, id) \ {Target(p, id)} \subseteq Local(d, id) \ {Target(p, id)}
    BY <1>4, <1>5, <1>7, Kinds DEF Settled
  <2>2. \/ Local(d, id) \ {Target(p, id)} \subseteq s.deletes
        \/ id \in s.undone
        \/ ~s.quiet /\ id \in e
    BY DEF PlanFit, AloneFit
  <2> QED
    BY <1>6, <2>1, <2>2
<1>11. GoneFit(p, s2, d2)
  <2>1. \A id \in DeltaGone(p) : id \in Mod /\ id # x
    BY <1>1 DEF DeltaGone
  <2> QED
    BY <1>5, <2>1 DEF PlanFit, GoneFit
<1>12. CacheFit(p, s2, c)
  <2>1. \A id : <<"cache", id>> # <<"mod", x>>
    OBVIOUS
  <2>2. \A id : <<"cache", id>> \in s.tasks => <<"cache", id>> \in s2.tasks
    BY <2>1
  <2> QED
    BY <2>2 DEF PlanFit, CacheFit
<1>13. MirrorFit(p, s2, d2, e2)
  <2>1. \A j \in Recognized(d2) : j = jar \/ (j \in Recognized(d) /\ d2[j] = d[j])
    BY <1>3 DEF Recognized, Local
  <2> QED
    BY <1>1, <1>6, <2>1 DEF PlanFit, MirrorFit
<1> QED
  BY <1>8, <1>9, <1>10, <1>11, <1>12, <1>13 DEF PlanFit

\* Checking and downloading what is in other places.
LEMMA PlanWork ==
    ASSUME NEW p, NEW s, NEW s2, NEW d, NEW c, NEW c2, NEW e, NEW e2,
           PlanFit(p, s, d, c, e), e \subseteq e2,
           s.deletes = {}, s2.deletes = {}, s2.tasks \subseteq s.tasks, s2.links = s.links,
           s2.quiet = s.quiet, s2.undone = s.undone,
           s.tasks = {} => c2 = c,
           \A id \in Published(p) : c[Target(p, id)] = p.manifest.entries[id].build =>
               c2[Target(p, id)] = c[Target(p, id)],
           \A id \in Published(p) : <<"mod", id>> \in s.tasks \ s2.tasks =>
               d[Target(p, id)] = p.manifest.entries[id].build,
           \A id \in Published(p) : <<"cache", id>> \in s.tasks \ s2.tasks =>
               c2[Target(p, id)] = p.manifest.entries[id].build
    PROVE  PlanFit(p, s2, d, c2, e2)
<1>1. \A id, j : Excused(s, d, e, id, j) => Excused(s2, d, e2, id, j)
  BY DEF Excused
<1>2. NormalFit(p, s2, d, e2)
  <2> SUFFICES ASSUME NEW id \in Normal(p)
               PROVE  LET j == Target(p, id)
                      IN  \/ d[j] = p.manifest.entries[id].build /\ j \notin s2.deletes
                          \/ <<"mod", id>> \in s2.tasks
                          \/ AsDelta(p) /\ id \in s2.undone
                          \/ Excused(s2, d, e2, id, j)
    BY DEF NormalFit
  <2> DEFINE j == Target(p, id)
  <2>1. \/ d[j] = p.manifest.entries[id].build /\ j \notin s.deletes
        \/ <<"mod", id>> \in s.tasks
        \/ AsDelta(p) /\ id \in s.undone
        \/ Excused(s, d, e, id, j)
    BY DEF PlanFit, NormalFit
  <2>2. <<"mod", id>> \in s.tasks \ s2.tasks => d[j] = p.manifest.entries[id].build
    BY Kinds
  <2> HIDE DEF j
  <2> QED
    BY <1>1, <2>1, <2>2 DEF j
<1>3. OnFit(p, s2, d, c2, e2)
  <2> SUFFICES ASSUME NEW id \in On(p)
               PROVE  LET j == Target(p, id)
                      IN  \/ id \in s2.links
                          \/ d[j] = p.manifest.entries[id].build /\ j \notin s2.deletes
                          \/ Unchecked(p, id) /\ c2[j] = Absent /\ s2.tasks = {}
                          \/ Excused(s2, d, e2, id, j)
    BY DEF OnFit
  <2> DEFINE j == Target(p, id)
  <2>1. \/ d[j] = p.manifest.entries[id].build /\ j \notin s.deletes
        \/ id \in s.links
        \/ Unchecked(p, id) /\ c[j] = Absent /\ s.tasks = {}
        \/ Excused(s, d, e, id, j)
    BY DEF PlanFit, OnFit
  <2> HIDE DEF j
  <2> QED
    BY <1>1, <2>1 DEF j
<1>4. CacheFit(p, s2, c2)
  <2> SUFFICES ASSUME NEW id \in Switched(p)
               PROVE  \/ <<"cache", id>> \in s2.tasks
                      \/ c2[Target(p, id)] = p.manifest.entries[id].build
                      \/ Unchecked(p, id)
    BY DEF CacheFit
  <2>1. id \in Published(p)
    BY Kinds
  <2>2. \/ <<"cache", id>> \in s.tasks
        \/ c[Target(p, id)] = p.manifest.entries[id].build
        \/ Unchecked(p, id)
    BY DEF PlanFit, CacheFit
  <2> QED
    BY <2>1, <2>2
<1>5. AloneFit(p, s2, d, e2)
  BY DEF PlanFit, AloneFit
<1>6. GoneFit(p, s2, d)
  BY DEF PlanFit, GoneFit
<1>7. MirrorFit(p, s2, d, e2)
  BY DEF PlanFit, MirrorFit
<1> QED
  BY <1>2, <1>3, <1>4, <1>5, <1>6, <1>7 DEF PlanFit

\* Linking a mod that the cache does not hold.
LEMMA PlanUnlinked ==
    ASSUME NEW p, NEW s, NEW s2, NEW d, NEW c, NEW e, NEW e2,
           Sound(p), PlanFit(p, s, d, c, e), e \subseteq e2,
           NEW x \in On(p), c[Target(p, x)] = Absent,
           s.deletes = {}, s2.deletes = {}, s.tasks = {}, s2.tasks = {},
           s2.links = s.links \ {x}, s2.quiet = s.quiet, s2.undone = s.undone
    PROVE  PlanFit(p, s2, d, c, e2)
<1>1. \A id, j : Excused(s, d, e, id, j) => Excused(s2, d, e2, id, j)
  BY DEF Excused
<1>2. Unchecked(p, x)
  <2>1. x \in Switched(p) /\ x \in Published(p)
    BY Kinds
  <2>2. p.manifest.entries[x].build # Absent
    BY <2>1, ModAssumption DEF Sound
  <2> QED
    BY <2>1, <2>2 DEF PlanFit, CacheFit
<1>3. OnFit(p, s2, d, c, e2)
  <2> SUFFICES ASSUME NEW id \in On(p)
               PROVE  LET j == Target(p, id)
                      IN  \/ id \in s2.links
                          \/ d[j] = p.manifest.entries[id].build /\ j \notin s2.deletes
                          \/ Unchecked(p, id) /\ c[j] = Absent /\ s2.tasks = {}
                          \/ Excused(s2, d, e2, id, j)
    BY DEF OnFit
  <2> DEFINE j == Target(p, id)
  <2>1. \/ d[j] = p.manifest.entries[id].build /\ j \notin s.deletes
        \/ id \in s.links
        \/ Unchecked(p, id) /\ c[j] = Absent /\ s.tasks = {}
        \/ Excused(s, d, e, id, j)
    BY DEF PlanFit, OnFit
  <2>2. id = x => c[j] = Absent
    OBVIOUS
  <2> HIDE DEF j
  <2> QED
    BY <1>1, <1>2, <2>1, <2>2 DEF j
<1>4. NormalFit(p, s2, d, e2)
  BY <1>1 DEF PlanFit, NormalFit
<1>5. AloneFit(p, s2, d, e2) /\ CacheFit(p, s2, c) /\ GoneFit(p, s2, d) /\ MirrorFit(p, s2, d, e2)
  BY DEF PlanFit, AloneFit, CacheFit, GoneFit, MirrorFit
<1> QED
  BY <1>3, <1>4, <1>5 DEF PlanFit

\* The user changes what he likes.
LEMMA PlanEdited ==
    ASSUME NEW p, NEW s, NEW s2, NEW d \in ModDir, NEW d2 \in ModDir, NEW c, NEW e, NEW e2,
           Sound(p), PlanFit(p, s, d, c, e), Accounted(d, d2, e, e2),
           \A j \in Jar : d2[j] # d[j] => \A b \in {d[j], d2[j]} : b # Absent =>
               IdOf[b] \in e2 \cup {NoId},
           s2.deletes = s.deletes, s2.tasks = s.tasks, s2.links = s.links, s2.undone = s.undone,
               ~s2.quiet
    PROVE  PlanFit(p, s2, d2, c, e2)
<1>1. e \subseteq e2
  BY DEF Accounted
<1>2. \A id \in Published(p) :
        /\ Target(p, id) \in Jar
        /\ d[Target(p, id)] = p.manifest.entries[id].build =>
              d2[Target(p, id)] = d[Target(p, id)] \/ Excused(s2, d2, e2, id, Target(p, id))
        /\ Excused(s, d, e, id, Target(p, id)) => Excused(s2, d2, e2, id, Target(p, id))
  <2> SUFFICES ASSUME NEW id \in Published(p)
               PROVE  /\ Target(p, id) \in Jar
                      /\ d[Target(p, id)] = p.manifest.entries[id].build =>
                            d2[Target(p, id)] = d[Target(p, id)] \/ Excused(s2, d2, e2, id,
                                Target(p, id))
                      /\ Excused(s, d, e, id, Target(p, id)) => Excused(s2, d2, e2, id, Target(p, id))
    OBVIOUS
  <2> DEFINE j == Target(p, id)
             b == p.manifest.entries[id].build
  <2>1. j \in Jar /\ b \in Build /\ IdOf[b] = id /\ id \in Mod
    BY DEF Sound, Target
  <2>2. b # Absent /\ id # NoId
    BY <2>1, ModAssumption
  <2> HIDE DEF j, b
  <2>3. d[j] = b => d2[j] = d[j] \/ Excused(s2, d2, e2, id, j)
    BY <2>1, <2>2 DEF Excused
  <2>4. Excused(s, d, e, id, j) => Excused(s2, d2, e2, id, j)
    BY <2>1 DEF Excused, Accounted
  <2> QED
    BY <2>1, <2>3, <2>4 DEF j, b
<1>3. NormalFit(p, s2, d2, e2)
  <2> SUFFICES ASSUME NEW id \in Normal(p)
               PROVE  LET j == Target(p, id)
                      IN  \/ d2[j] = p.manifest.entries[id].build /\ j \notin s2.deletes
                          \/ <<"mod", id>> \in s2.tasks
                          \/ AsDelta(p) /\ id \in s2.undone
                          \/ Excused(s2, d2, e2, id, j)
    BY DEF NormalFit
  <2> DEFINE j == Target(p, id)
  <2>1. \/ d[j] = p.manifest.entries[id].build /\ j \notin s.deletes
        \/ <<"mod", id>> \in s.tasks
        \/ AsDelta(p) /\ id \in s.undone
        \/ Excused(s, d, e, id, j)
    BY DEF PlanFit, NormalFit
  <2>2. /\ d[j] = p.manifest.entries[id].build => d2[j] = d[j] \/ Excused(s2, d2, e2, id, j)
        /\ Excused(s, d, e, id, j) => Excused(s2, d2, e2, id, j)
    BY <1>2, Kinds
  <2> HIDE DEF j
  <2> QED
    BY <2>1, <2>2 DEF j
<1>4. OnFit(p, s2, d2, c, e2)
  <2> SUFFICES ASSUME NEW id \in On(p)
               PROVE  LET j == Target(p, id)
                      IN  \/ id \in s2.links
                          \/ d2[j] = p.manifest.entries[id].build /\ j \notin s2.deletes
                          \/ Unchecked(p, id) /\ c[j] = Absent /\ s2.tasks = {}
                          \/ Excused(s2, d2, e2, id, j)
    BY DEF OnFit
  <2> DEFINE j == Target(p, id)
  <2>1. \/ d[j] = p.manifest.entries[id].build /\ j \notin s.deletes
        \/ id \in s.links
        \/ Unchecked(p, id) /\ c[j] = Absent /\ s.tasks = {}
        \/ Excused(s, d, e, id, j)
    BY DEF PlanFit, OnFit
  <2>2. /\ d[j] = p.manifest.entries[id].build => d2[j] = d[j] \/ Excused(s2, d2, e2, id, j)
        /\ Excused(s, d, e, id, j) => Excused(s2, d2, e2, id, j)
    BY <1>2, Kinds
  <2> HIDE DEF j
  <2> QED
    BY <2>1, <2>2 DEF j
<1>5. \A id \in Mod : id \in e2 \/ Local(d2, id) \subseteq Local(d, id)
  <2> SUFFICES ASSUME NEW id \in Mod, id \notin e2, NEW j \in Local(d2, id)
               PROVE  j \in Local(d, id)
    OBVIOUS
  <2>1. id # NoId /\ j \in Jar /\ d2[j] # Absent /\ IdOf[d2[j]] = id
    BY ModAssumption DEF Local
  <2>2. d2[j] = d[j]
    BY <2>1
  <2> QED
    BY <2>2 DEF Local
<1>6. AloneFit(p, s2, d2, e2)
  <2> SUFFICES ASSUME AsDelta(p), NEW id \in Settled(p), id \notin e2
               PROVE  \/ Local(d2, id) \ {Target(p, id)} \subseteq s2.deletes
                      \/ id \in s2.undone
    BY DEF AloneFit
  <2>1. id \in Mod
    BY Kinds DEF Sound, Settled
  <2>2. Local(d, id) \ {Target(p, id)} \subseteq s.deletes \/ id \in s.undone
    BY <1>1 DEF PlanFit, AloneFit
  <2> QED
    BY <1>5, <2>1, <2>2
<1>7. MirrorFit(p, s2, d2, e2)
  <2> SUFFICES ASSUME ~AsDelta(p), NEW j \in Recognized(d2), IdOf[d2[j]] \notin e2
               PROVE  j \in Allowed(p) \cup s2.deletes
    BY DEF MirrorFit
  <2>1. PICK id \in Mod : j \in Local(d2, id)
    BY DEF Recognized
  <2>2. IdOf[d2[j]] = id /\ id # NoId /\ d2[j] # Absent /\ j \in Jar
    BY <2>1, ModAssumption DEF Local
  <2>3. d2[j] = d[j]
    BY <2>2
  <2>4. j \in Recognized(d)
    BY <2>1, <2>3 DEF Recognized, Local
  <2> QED
    BY <1>1, <2>3, <2>4 DEF PlanFit, MirrorFit
<1>8. GoneFit(p, s2, d2) /\ CacheFit(p, s2, c)
  BY DEF PlanFit, GoneFit, CacheFit
<1> QED
  BY <1>3, <1>4, <1>6, <1>7, <1>8 DEF PlanFit

\* What a plan is about depends on the manifests and the switches only.
LEMMA SameTerms ==
    ASSUME NEW p, NEW q, q.manifest = p.manifest, q.previous = p.previous, q.cause = p.cause,
           q.force = p.force, q.preference = p.preference
    PROVE  /\ Normal(q) = Normal(p) /\ Switched(q) = Switched(p) /\ On(q) = On(p)
           /\ DeltaGone(q) = DeltaGone(p) /\ Allowed(q) = Allowed(p) /\ Active(q) = Active(p)
           /\ Before(q) = Before(p) /\ Published(q) = Published(p)
           /\ AsDelta(q) = AsDelta(p) /\ ShouldRun(q) = ShouldRun(p)
           /\ \A id : Target(q, id) = Target(p, id) /\ Changed(q, id) = Changed(p, id)
                      /\ Unchecked(q, id) = Unchecked(p, id)
<1>1. Before(q) = Before(p) /\ Published(q) = Published(p) /\ AsDelta(q) = AsDelta(p) /\ ShouldRun(q) = ShouldRun(p)
  BY DEF Before, Published, AsDelta, ShouldRun
<1>2. \A id : Target(q, id) = Target(p, id) /\ Changed(q, id) = Changed(p, id)
  BY DEF Target, Changed
<1>3. \A id : SetsNaming(q, id) = SetsNaming(p, id)
  BY DEF SetsNaming
<1>4. \A id : SetOf(q, id) = SetOf(p, id)
  BY <1>3 DEF SetOf
<1>5. \A id : Optional(q, id) = Optional(p, id) /\ Blocked(q, id) = Blocked(p, id)
  BY <1>3 DEF Optional, Blocked
<1>6. \A id : Enabled(q, id) = Enabled(p, id)
  BY <1>4, <1>5 DEF Enabled
<1>7. Normal(q) = Normal(p) /\ Switched(q) = Switched(p)
  BY <1>1, <1>5 DEF Normal, Switched
<1>8. On(q) = On(p)
  BY <1>6, <1>7 DEF On
<1>9. DeltaGone(q) = DeltaGone(p)
  BY <1>1, <1>5, <1>6, <1>7 DEF DeltaGone
<1>10. Active(q) = Active(p)
  BY <1>7, <1>8 DEF Active
<1>11. Allowed(q) = Allowed(p)
  BY <1>2, <1>10 DEF Allowed
<1>12. \A id : Unchecked(q, id) = Unchecked(p, id)
  BY <1>1, <1>2 DEF Unchecked
<1> QED
  BY <1>1, <1>2, <1>7, <1>8, <1>9, <1>10, <1>11, <1>12

\* Nor does what is left of it.
LEMMA PlanSame ==
    ASSUME NEW p, NEW q, q.manifest = p.manifest, q.previous = p.previous, q.cause = p.cause,
           q.force = p.force, q.preference = p.preference,
           NEW s, NEW d, NEW c, NEW e
    PROVE  /\ PlanFit(p, s, d, c, e) => PlanFit(q, s, d, c, e)
           /\ WorkFit(p, s) => WorkFit(q, s)
<1>1. NormalFit(p, s, d, e) => NormalFit(q, s, d, e)
  BY SameTerms DEF NormalFit
<1>2. AloneFit(p, s, d, e) => AloneFit(q, s, d, e)
  BY SameTerms DEF AloneFit, Settled
<1>3. OnFit(p, s, d, c, e) => OnFit(q, s, d, c, e)
  BY SameTerms DEF OnFit
<1>4. CacheFit(p, s, c) => CacheFit(q, s, c)
  BY SameTerms DEF CacheFit
<1>5. GoneFit(p, s, d) => GoneFit(q, s, d)
  BY SameTerms DEF GoneFit
<1>6. MirrorFit(p, s, d, e) => MirrorFit(q, s, d, e)
  BY SameTerms DEF MirrorFit
<1>7. WorkFit(p, s) => WorkFit(q, s)
  BY SameTerms DEF WorkFit
<1> QED
  BY <1>1, <1>2, <1>3, <1>4, <1>5, <1>6, <1>7 DEF PlanFit

\* What a sync plans fits what it finds, if the record was followed.
LEMMA PlanStart ==
    ASSUME NEW p, NEW s, NEW d \in ModDir, NEW c, NEW e, NEW others,
           Sound(p), p.mods = d, ShouldRun(p), Followed(p.previous, d, e),
           \A id \in Before(p) : /\ p.previous[id].jar \in Jar \ Clutter /\ p.previous[id].build \in Build
                                 /\ IdOf[p.previous[id].build] = id
           \* named by contents
           , \A id \in Before(p) \cap Published(p) :
                ~Changed(p, id) => p.previous[id].jar = Target(p, id),
           others \cap Jar = {}, s.deletes = ModDeletes(p) \cup others,
           \A id : <<"mod", id>> \in s.tasks <=> id \in ModChecks(p),
           \A id : <<"cache", id>> \in s.tasks <=> id \in CacheChecks(p),
           s.links = ModLinks(p), s.quiet = TRUE, s.undone = e
    PROVE  PlanFit(p, s, d, c, e)
<1>1. \A id \in Before(p) : id \in e \/ (d[p.previous[id].jar] = p.previous[id].build
                                         /\ Local(d, id) \subseteq {p.previous[id].jar})
  BY DEF Followed, Placed, Before
<1>2. \A id \in Before(p) : Local(d, id) = {} => id \in e
  <2> SUFFICES ASSUME NEW id \in Before(p), id \notin e
               PROVE  p.previous[id].jar \in Local(d, id)
    BY <1>1
  <2>1. p.previous[id].build # Absent
    BY ModAssumption
  <2> QED
    BY <1>1, <2>1 DEF Local
<1>3. ASSUME AsDelta(p), NEW id \in Normal(p), id \notin ModChecks(p)
      PROVE  /\ id \in Before(p)
             /\ Changed(p, id) => Local(d, id) = {}
             /\ ~Changed(p, id) => \/ id \in e
                                   \/ /\ d[Target(p, id)] = p.manifest.entries[id].build
                                      /\ Local(d, id) \subseteq {Target(p, id)}
  <2>1. id \notin DeltaChecks(p)
    BY <1>3 DEF ModChecks
  <2>2. id \in Before(p) /\ id \in Published(p)
    BY <2>1, Kinds DEF DeltaChecks
  <2>3. Changed(p, id) => Local(d, id) = {}
    BY <2>1, <2>2 DEF DeltaChecks, DeltaReplaced, Present
  <2>4. ~Changed(p, id) =>
      p.previous[id].build = p.manifest.entries[id].build /\ p.previous[id].jar = Target(p, id)
    BY <2>2 DEF Changed
  <2> QED
    BY <1>1, <2>2, <2>3, <2>4
<1>4. ASSUME AsDelta(p), NEW id \in Normal(p), d[Target(p, id)] = p.manifest.entries[id].build
      PROVE  Target(p, id) \notin s.deletes
  <2>1. id \in Published(p) /\ id \notin DeltaGone(p)
    BY Kinds
  <2>2. Target(p, id) \in Jar /\ IdOf[d[Target(p, id)]] = id
    BY <1>4, <2>1 DEF Sound, Target
  <2>3. \A x : Target(p, id) \in Local(d, x) => x = id
    BY <2>2 DEF Local
  <2>4. Target(p, id) \notin UNION {Local(d, x) : x \in DeltaGone(p)}
    BY <2>1, <2>3
  <2>5. Target(p, id) \notin UNION {Local(d, x) \ {Target(p, x)} : x \in DeltaReplaced(p)}
    BY <2>3
  <2>6. Target(p, id) \notin ModDeletes(p)
    BY <1>4, <2>4, <2>5 DEF ModDeletes, DeltaDeletes
  <2> QED
    BY <2>2, <2>6
<1>5. NormalFit(p, s, d, e)
  <2> SUFFICES ASSUME NEW id \in Normal(p), id \notin ModChecks(p)
               PROVE  LET j == Target(p, id)
                      IN  \/ d[j] = p.manifest.entries[id].build /\ j \notin s.deletes
                          \/ AsDelta(p) /\ id \in s.undone
    BY DEF NormalFit
  <2>1. AsDelta(p)
    BY DEF ModChecks
  <2> QED
    BY <1>2, <1>3, <1>4, <2>1
<1>6. AloneFit(p, s, d, e)
  <2> SUFFICES ASSUME AsDelta(p), NEW id \in Settled(p), id \notin e
               PROVE  Local(d, id) \ {Target(p, id)} \subseteq s.deletes
    BY DEF AloneFit
  <2> USE DEF Settled
  <2>1. CASE id \in DeltaReplaced(p)
    <3>1. Local(d, id) \ {Target(p, id)} \subseteq DeltaDeletes(p)
      BY <2>1 DEF DeltaDeletes
    <3> QED
      BY <3>1 DEF ModDeletes
  <2>2. CASE id \notin DeltaReplaced(p) /\ id \in ModChecks(p)
    <3>1. id \in DeltaMissing(p)
      BY <2>2 DEF ModChecks, DeltaChecks
    <3> QED
      BY <3>1, <1>2 DEF DeltaMissing, Present
  <2>3. CASE id \notin ModChecks(p) /\ id \in Normal(p)
    BY <1>3, <2>3
  <2>4. CASE id \notin Normal(p)
    <3>1. id \in Published(p) /\ ~Changed(p, id)
      BY <2>4, Kinds
    <3> QED
      BY <1>1, <3>1
  <2> QED
    BY <2>1, <2>2, <2>3, <2>4
<1>7. OnFit(p, s, d, c, e)
  BY DEF OnFit, ModLinks
<1>8. CacheFit(p, s, c)
  <2> SUFFICES ASSUME NEW id \in Switched(p), id \notin CacheChecks(p)
               PROVE  Unchecked(p, id)
    BY DEF CacheFit
  <2> QED
    BY DEF CacheChecks, DeltaCacheChecks, Unchecked
<1>9. GoneFit(p, s, d)
  <2> SUFFICES ASSUME AsDelta(p), NEW id \in DeltaGone(p)
               PROVE  Local(d, id) \subseteq s.deletes
    BY DEF GoneFit
  <2>1. Local(d, id) \subseteq DeltaDeletes(p)
    BY DEF DeltaDeletes
  <2> QED
    BY <2>1 DEF ModDeletes
<1>10. MirrorFit(p, s, d, e)
  BY DEF MirrorFit, ModDeletes, MirrorDeletes
<1> QED
  BY <1>5, <1>6, <1>7, <1>8, <1>9, <1>10 DEF PlanFit

\* A plan that is done.
LEMMA PlanDone ==
    ASSUME NEW p, NEW s, NEW d \in ModDir, NEW c, NEW e,
           Sound(p), PlanFit(p, s, d, c, e), OneJarEach(d, e), s.undone \subseteq e,
           s.deletes = {}, s.tasks = {}, s.links = {}
    PROVE  /\ \A id \in Normal(p) : Placed(p.manifest.entries, d, id) \/ id \in e
           /\ s.quiet =>
                /\ \A id \in Normal(p) :
                      /\ d[Target(p, id)] = p.manifest.entries[id].build \/ (AsDelta(p) /\ id \in s.undone)
                      /\ \/ Local(d, id) \subseteq {Target(p, id)}
                         \/ AsDelta(p) /\ (id \in s.undone \/ id \notin Before(p))
                /\ \A id \in On(p) :
                      /\ \/ d[Target(p, id)] = p.manifest.entries[id].build
                         \/ Unchecked(p, id) /\ c[Target(p, id)] = Absent
                      /\ \/ Local(d, id) \subseteq {Target(p, id)}
                         \/ /\ AsDelta(p)
                            /\ id \in s.undone \/ id \notin Before(p) \/ Changed(p, id)
                /\ \A id \in DeltaGone(p) : Local(d, id) = {}
                /\ AsDelta(p) \/ Recognized(d) \subseteq Allowed(p)
<1> DEFINE There(id) == d[Target(p, id)] = p.manifest.entries[id].build
<1>1. \A id \in Normal(p) : There(id) \/ (AsDelta(p) /\ id \in s.undone) \/ Excused(s, d, e, id,
    Target(p, id))
  BY DEF PlanFit, NormalFit
<1>2. \A id \in On(p) : There(id) \/ (Unchecked(p, id) /\ c[Target(p, id)] = Absent)
                        \/ Excused(s, d, e, id, Target(p, id))
  BY DEF PlanFit, OnFit
<1>3. \A id \in Active(p) : id \in Mod /\ Target(p,
    id) \in Jar \ Clutter /\ p.manifest.entries[id].build \in Build
                            /\ IdOf[p.manifest.entries[id].build] = id
  BY Kinds DEF Active, Sound, Target
<1> HIDE DEF There
<1>4. ASSUME ~AsDelta(p), NEW id \in Mod, NEW j \in Local(d, id)
      PROVE  \/ id \in Active(p) /\ j = Target(p, id) /\ There(id)
             \/ ~s.quiet /\ id \in e
  <2>1. j \in Recognized(d) /\ IdOf[d[j]] = id /\ d[j] # Absent /\ id # NoId
    BY <1>4, ModAssumption DEF Recognized, Local
  <2>2. j \in Allowed(p) \/ (~s.quiet /\ id \in e)
    BY <1>4, <2>1 DEF PlanFit, MirrorFit
  <2>3. ASSUME NEW y \in Active(p), j = Target(p, y)
        PROVE  \/ id \in Active(p) /\ j = Target(p, id) /\ There(id)
               \/ ~s.quiet /\ id \in e
    <3>1. There(y) \/ Excused(s, d, e, y, j)
      BY <1>1, <1>2, <1>4, <2>3 DEF Active, Unchecked
    <3>2. CASE There(y)
      BY <1>3, <2>1, <2>3, <3>2 DEF There
    <3>3. CASE Excused(s, d, e, y, j)
      BY <2>1, <3>3 DEF Excused
    <3> QED
      BY <3>1, <3>2, <3>3
  <2> QED
    BY <2>2, <2>3 DEF Allowed
<1>5. ASSUME NEW id \in Normal(p)
      PROVE  Placed(p.manifest.entries, d, id) \/ id \in e
  <2> SUFFICES ASSUME id \notin e PROVE Placed(p.manifest.entries, d, id)
    OBVIOUS
  <2>1. There(id)
    BY <1>1, <1>5 DEF Excused
  <2>2. id \in Mod /\ Target(p, id) \in Jar \ Clutter /\ p.manifest.entries[id].build \in Build
        /\ IdOf[p.manifest.entries[id].build] = id
    BY <1>3 DEF Active
  <2>3. Target(p, id) \in Local(d, id)
    BY <2>1, <2>2, ModAssumption DEF There, Local
  <2>4. Local(d, id) \subseteq {Target(p, id)}
    BY <2>2, <2>3 DEF OneJarEach
  <2> QED
    BY <2>1, <2>4 DEF Placed, There, Target
<1>6. ASSUME s.quiet, NEW id \in Normal(p)
      PROVE  /\ There(id) \/ (AsDelta(p) /\ id \in s.undone)
             /\ \/ Local(d, id) \subseteq {Target(p, id)}
                \/ AsDelta(p) /\ (id \in s.undone \/ id \notin Before(p))
  <2>1. There(id) \/ (AsDelta(p) /\ id \in s.undone)
    BY <1>1, <1>6 DEF Excused
  <2>2. CASE AsDelta(p)
    BY <2>1, <2>2, <1>6 DEF PlanFit, AloneFit, Settled
  <2>3. CASE ~AsDelta(p)
    BY <2>1, <2>3, <1>3, <1>4, <1>6 DEF Active
  <2> QED
    BY <2>1, <2>2, <2>3
<1>7. ASSUME s.quiet, NEW id \in On(p)
      PROVE  /\ There(id) \/ (Unchecked(p, id) /\ c[Target(p, id)] = Absent)
             /\ \/ Local(d, id) \subseteq {Target(p, id)}
                \/ AsDelta(p) /\ (id \in s.undone \/ id \notin Before(p) \/ Changed(p, id))
  <2>1. There(id) \/ (Unchecked(p, id) /\ c[Target(p, id)] = Absent)
    BY <1>2, <1>7 DEF Excused
  <2>2. CASE AsDelta(p)
    BY <2>1, <2>2, <1>7 DEF PlanFit, AloneFit, Settled
  <2>3. CASE ~AsDelta(p)
    BY <2>1, <2>3, <1>3, <1>4, <1>7 DEF Active
  <2> QED
    BY <2>1, <2>2, <2>3
<1>8. ASSUME s.quiet, NEW id \in DeltaGone(p)
      PROVE  Local(d, id) = {}
  <2>1. id \in Mod /\ id \notin Active(p)
    BY Kinds DEF DeltaGone, Active
  <2>2. CASE AsDelta(p)
    BY <2>2, <1>8 DEF PlanFit, GoneFit
  <2>3. CASE ~AsDelta(p)
    BY <2>1, <2>3, <1>4, <1>8
  <2> QED
    BY <2>2, <2>3
<1>9. s.quiet => AsDelta(p) \/ Recognized(d) \subseteq Allowed(p)
  BY DEF PlanFit, MirrorFit
<1> QED
  BY <1>5, <1>6, <1>7, <1>8, <1>9 DEF There

-----------------------------------------------------------------------------
(***************************************************************************)
(* The steps.                                                              *)
(***************************************************************************)

\* A manifest is sound.
LEMMA ReleaseSound ==
    ASSUME NamesTell, NEW p, NEW m \in Release, p.manifest = Meta[m]
    PROVE  Sound(p)
<1>1. Published(p) \subseteq Mod /\ Published(p) = DOMAIN Meta[m].entries
  BY MetaAssumption DEF Published
<1>2. \A id \in Published(p) :
          /\ p.manifest.entries[id].jar \in Jar \ Clutter
          /\ p.manifest.entries[id].build \in Build
          /\ IdOf[p.manifest.entries[id].build] = id
  BY <1>1, MetaAssumption
<1>3. ASSUME NEW x \in Published(p), NEW y \in Published(p), Target(p, x) = Target(p, y)
      PROVE  x = y
  <2>1. p.manifest.entries[x].build = p.manifest.entries[y].build
    BY <1>1, <1>3 DEF NamesTell, Target
  <2> QED
    BY <1>2, <2>1
<1> QED
  BY <1>1, <1>2, <1>3 DEF Sound

\* The terms of the sync under way are.
LEMMA TermsSound ==
    ASSUME NamesTell, TypeOK, Busy
    PROVE  Sound(Terms) /\ Terms.manifest = Now
<1>1. sync.meta \in Release
  BY Meant
<1>2. Terms.manifest = Meta[sync.meta]
  BY DEF Terms, Now
<1> QED
  BY <1>1, <1>2, ReleaseSound DEF Now

\* They stay while a sync goes on.
LEMMA TermsKept ==
    ASSUME sync'.meta = sync.meta, sync'.known = sync.known, sync'.cause = sync.cause,
           sync'.force = sync.force, preference' = preference
    PROVE  Terms' = Terms /\ Now' = Now
BY DEF Terms, Now, Entries

\* All the manifests and records that are followed still are, when what changes is accounted for.
LEMMA AllFollowed ==
    ASSUME NEW d \in ModDir, NEW d2 \in ModDir, NEW e, NEW e2, Accounted(d, d2, e, e2),
           NEW r \in Release \cup {None}, Followed(Entries(r), d, e)
    PROVE  Followed(Entries(r), d2, e2)
<1>1. CASE r = None
  BY <1>1 DEF Entries, Followed, Nothing
<1>2. CASE r # None
  BY <1>2, FollowedKept DEF Entries
<1> QED
  BY <1>1, <1>2

\* The record is followed by a step that keeps it, or removes it.
LEMMA RecordKept ==
    ASSUME Typed, Typed', RecordInv, Accounted(mods, mods', Disturbed, Disturbed'),
           recorded' \in {recorded, None}, CacheTells(cache')
    PROVE  RecordInv'
<1>1. mods \in ModDir /\ mods' \in ModDir /\ recorded \in Release \cup {None}
  BY DEF Typed, TypeOK
<1>2. Followed(Entries(recorded), mods', Disturbed')
  BY <1>1, AllFollowed DEF RecordInv
<1>3. Followed(Entries(None), mods', Disturbed')
  BY DEF Entries, Followed, Nothing
<1>4. Followed(Entries(recorded'), mods', Disturbed')
  BY <1>2, <1>3
<1>5. OneJarEach(mods', Disturbed')
  BY <1>1, OneJarKept DEF RecordInv
<1>6. Entries(recorded)' = Entries(recorded')
  BY DEF Entries
<1> QED
  BY <1>4, <1>5, <1>6 DEF RecordInv

\* A directory that does not change is accounted for.
LEMMA Unmoved ==
    ASSUME NEW d, NEW e, NEW e2, e \subseteq e2
    PROVE  Accounted(d, d, e, e2)
BY DEF Accounted

\* What the user stirs up is accounted for.
LEMMA StirredAccounts ==
    ASSUME mods \in ModDir, NEW after \in ModDir, NEW e, NEW e2, e \subseteq e2,
        Stirred(after) \subseteq e2
    PROVE  /\ Accounted(mods, after, e, e2)
           /\ \A j \in Jar : after[j] # mods[j] =>
                 \A b \in {mods[j], after[j]} : b # Absent => IdOf[b] \in e2 \cup {NoId}
<1>1. ASSUME NEW j \in Jar, after[j] # mods[j], NEW b \in {mods[j], after[j]}, b # Absent
      PROVE  IdOf[b] \in e2 \cup {NoId}
  BY <1>1 DEF Stirred
<1>2. \A j \in Jar : after[j] \in {mods[j], Absent} \/ IdOf[after[j]] \in e2 \cup {NoId}
  BY <1>1
<1>3. ASSUME NEW id \in Mod, Local(mods, id) # {}, Local(after, id) = {}
      PROVE  id \in e2
  <2>1. PICK j : j \in Local(mods, id)
    BY <1>3
  <2>2. j \in Jar /\ mods[j] # Absent /\ IdOf[mods[j]] = id /\ id # NoId
    BY <2>1, ModAssumption DEF Local
  <2>3. after[j] # mods[j]
    BY <1>3, <2>1, <2>2 DEF Local
  <2> QED
    BY <1>1, <2>2, <2>3
<1> QED
  BY <1>1, <1>2, <1>3 DEF Accounted

\* What a sync changes in the mods directory it accounts for itself.
LEMMA OrphansAccount ==
    ASSUME NEW after, Orphaned(after) \subseteq Disturbed'
    PROVE  \A id \in Mod : Local(mods, id) = {} \/ Local(after, id) # {} \/ id \in Disturbed'
BY DEF Orphaned

\* What every step keeps.
Mods == Typed /\ RecordInv /\ SyncInv

\* A jar less, and one deletion less to be done.
LEMMA StepDelete ==
    ASSUME NamesTell, Mods, Typed', Delete
    PROVE  RecordInv' /\ SyncInv'
<1>1. PICK path \in sync.deletes :
        /\ sync' = [sync EXCEPT !.deletes = @ \ {path}]
        /\ IF path \in Jar
           THEN /\ mods' = [mods EXCEPT ![path] = Absent]
                /\ lost' = lost \cup Orphaned(mods')
           ELSE UNCHANGED <<mods, lost>>
  BY DEF Delete
<1>2. Busy /\ sync.phase = "delete" /\ sync \in Sync /\ mods \in ModDir
  BY Meant DEF Delete, In, Mods, Typed, TypeOK
<1>3. /\ sync'.deletes = sync.deletes \ {path} /\ sync'.tasks = sync.tasks /\ sync'.links = sync.links
      /\ sync'.quiet = sync.quiet /\ sync'.undone = sync.undone /\ sync'.phase = sync.phase
      /\ sync'.known = sync.known /\ sync'.meta = sync.meta /\ sync'.cause = sync.cause
      /\ sync'.force = sync.force /\ sync'.quiet \in BOOLEAN
  BY <1>1, <1>2 DEF Sync
<1>4. UNCHANGED <<preference, recorded, cache, touched>>
  BY DEF Delete
<1>5. Terms' = Terms
  BY <1>3, <1>4, TermsKept
<1>6. Disturbed \subseteq Disturbed'
  BY <1>1, <1>4 DEF Disturbed
<1>7. Accounted(mods, mods', Disturbed, Disturbed')
  <2>1. CASE path \in Jar
    <3>1. \A id \in Mod : Local(mods, id) = {} \/ Local(mods', id) # {} \/ id \in Disturbed'
      BY <1>1, <2>1, OrphansAccount DEF Disturbed
    <3>2. \A j \in Jar : mods'[j] \in {mods[j], Absent}
      BY <1>1, <1>2, <2>1 DEF ModDir
    <3> QED
      BY <1>6, <3>1, <3>2 DEF Accounted
  <2>2. CASE path \notin Jar
    BY <1>1, <1>6, <2>2, Unmoved
  <2> QED
    BY <2>1, <2>2
<1>8. RecordInv'
  BY <1>4, <1>7, RecordKept DEF Mods, RecordInv
<1>9. In("report")' <=> In("report")
  BY <1>2, <1>3 DEF In, Mods, Typed, TypeOK, Busy, Idle, Sync
<1>10. ~In("report")
  BY <1>2 DEF In
<1>11. Followed(Entries(sync.known), mods', Disturbed') /\ sync'.undone \subseteq Disturbed'
  <2>1. mods' \in ModDir /\ sync.known \in Release \cup {None}
    BY <1>2 DEF Typed, TypeOK, Sync
  <2> QED
    BY <1>2, <1>3, <1>6, <1>7, <1>10, <2>1, AllFollowed DEF Mods, SyncInv
<1>12. ShouldRun(Terms) => PlanFit(Terms, sync', mods', cache, Disturbed')
  <2>1. mods' = IF path \in Jar THEN [mods EXCEPT ![path] = Absent] ELSE mods
    BY <1>1
  <2>2. Sound(Terms)
    BY <1>2, TermsSound DEF Mods, Typed
  <2>3. ShouldRun(Terms) => PlanFit(Terms, sync, mods, cache, Disturbed)
    BY <1>2, <1>10 DEF Mods, SyncInv
  <2> QED
    BY <1>2, <1>3, <1>7, <2>1, <2>2, <2>3, PlanDelete
<1>13. Emptied(sync') /\ WorkFit(Terms, sync')
  BY <1>2, <1>3 DEF Mods, SyncInv, Emptied, WorkFit
<1>14. ~ShouldRun(Terms) => sync'.known = sync'.meta
  BY <1>2, <1>3, <1>10 DEF Mods, SyncInv
<1>15. Entries(sync.known)' = Entries(sync.known)
  BY <1>3 DEF Entries
<1> QED
  BY <1>4, <1>5, <1>8, <1>11, <1>12, <1>13, <1>14, <1>15 DEF SyncInv

\* What need not be downloaded is there.
LEMMA StepCheck ==
    ASSUME NamesTell, HashesChecked, Mods, Typed', Check
    PROVE  RecordInv' /\ SyncInv'
<1>1. Busy /\ sync.phase = "delete" /\ sync.deletes = {} /\ sync \in Sync /\ sync.meta \in Release
  BY Meant DEF Check, In, Mods, Typed
<1>2. /\ sync'.deletes = {} /\ sync'.tasks = {task \in sync.tasks : Outdated(task)} /\ sync'.links = sync.links
      /\ sync'.quiet = sync.quiet /\ sync'.undone = sync.undone /\ sync'.phase = "download"
      /\ sync'.known = sync.known /\ sync'.meta = sync.meta /\ sync'.cause = sync.cause
      /\ sync'.force = sync.force
  BY <1>1 DEF Check, Sync
<1>3. UNCHANGED <<preference, recorded, mods, cache, touched, lost>>
  BY DEF Check, disk
<1>4. Terms' = Terms
  BY <1>2, <1>3, TermsKept
<1>5. Disturbed' = Disturbed
  BY <1>3 DEF Disturbed
<1>6. RecordInv'
  BY <1>3, <1>5, Unmoved, RecordKept DEF Mods, RecordInv
<1>7. ~In("report")
  BY <1>1 DEF In
<1>8. Sound(Terms) /\ Terms.manifest = Now
  BY <1>1, TermsSound DEF Mods, Typed
<1>9. ShouldRun(Terms) => PlanFit(Terms, sync', mods, cache, Disturbed)
  <2>1. ASSUME NEW place \in ModDir, NEW id \in Published(Terms),
               ~Differs([manifest |-> Now], place, Now.entries[id].jar, Now.entries[id].build)
        PROVE  place[Target(Terms, id)] = Terms.manifest.entries[id].build
    <3>1. Now.mode # "mirror_fast"
      BY <1>1 DEF HashesChecked, Now
    <3> QED
      BY <2>1, <3>1, <1>8 DEF Differs, Target
  <2>2. mods \in ModDir /\ cache \in ModDir
    BY DEF Mods, Typed, TypeOK
  <2>3. \A id \in Published(Terms) : <<"mod", id>> \in sync.tasks \ sync'.tasks =>
            mods[Target(Terms, id)] = Terms.manifest.entries[id].build
    BY <1>2, <2>1, <2>2 DEF Outdated, InPlace
  <2>4. \A id \in Published(Terms) : <<"cache", id>> \in sync.tasks \ sync'.tasks =>
            cache[Target(Terms, id)] = Terms.manifest.entries[id].build
    BY <1>2, <2>1, <2>2 DEF Outdated
  <2>5. sync'.tasks \subseteq sync.tasks
    BY <1>2
  <2>6. ShouldRun(Terms) => PlanFit(Terms, sync, mods, cache, Disturbed)
    BY <1>1, <1>7 DEF Mods, SyncInv
  <2> QED
    BY <1>1, <1>2, <2>3, <2>4, <2>5, <2>6, PlanWork
<1>10. Emptied(sync') /\ WorkFit(Terms, sync')
  BY <1>1, <1>2 DEF Mods, SyncInv, Emptied, WorkFit
<1>11. /\ Followed(Entries(sync.known), mods, Disturbed) /\ sync.undone \subseteq Disturbed
       /\ ~ShouldRun(Terms) => sync.known = sync.meta
  BY <1>1, <1>7 DEF Mods, SyncInv
<1>12. Entries(sync.known)' = Entries(sync.known)
  BY <1>2 DEF Entries
<1> QED
  BY <1>2, <1>3, <1>4, <1>5, <1>6, <1>9, <1>10, <1>11, <1>12 DEF SyncInv

\* One download is done.
LEMMA StepDownload ==
    ASSUME NamesTell, Mods, Typed', Download
    PROVE  RecordInv' /\ SyncInv'
<1> DEFINE e == Now.entries
<1>1. PICK task \in sync.tasks :
        /\ sync' = [sync EXCEPT !.tasks = @ \ {task}]
        /\ mods' = IF task[1] = "mod" THEN [mods EXCEPT ![e[task[2]].jar] = e[task[2]].build] ELSE mods
        /\ cache' = IF task[1] = "cache" THEN [cache EXCEPT ![e[task[2]].jar] = e[task[2]].build]
                    ELSE cache
        /\ touched' = IF task[1] = "mod" THEN touched \ {task[2]} ELSE touched
        /\ lost' = lost \cup Orphaned(mods') \cup (IF task[1] = "mod" THEN {task[2]} ELSE {})
  BY DEF Download
<1>2. /\ Busy /\ sync.phase = "download" /\ sync \in Sync /\ sync.meta \in Release
      /\ mods \in ModDir /\ cache \in ModDir
  BY Meant DEF Download, In, Mods, Typed, TypeOK
<1>3. /\ sync'.deletes = sync.deletes /\ sync'.tasks = sync.tasks \ {task} /\ sync'.links = sync.links
      /\ sync'.quiet = sync.quiet /\ sync'.undone = sync.undone /\ sync'.phase = sync.phase
      /\ sync'.known = sync.known /\ sync'.meta = sync.meta /\ sync'.cause = sync.cause
      /\ sync'.force = sync.force
  BY <1>1, <1>2 DEF Sync
<1>4. UNCHANGED <<preference, recorded>>
  BY DEF Download
<1>5. Terms' = Terms
  BY <1>3, <1>4, TermsKept
<1>6. Sound(Terms) /\ Terms.manifest = Now
  BY <1>2, TermsSound DEF Mods, Typed
<1>7. ~In("report") /\ sync.deletes = {}
  BY <1>2 DEF In, Mods, SyncInv, Emptied
<1>8. Disturbed \subseteq Disturbed' /\ Orphaned(mods') \subseteq Disturbed'
  BY <1>1 DEF Disturbed
<1>9. task[1] \in {"mod", "cache"} =>
         /\ task[2] \in Mod /\ task[2] \in Published(Terms)
         /\ Target(Terms, task[2]) = e[task[2]].jar
         /\ e[task[2]].jar \in Jar /\ e[task[2]].build \in Build /\ IdOf[e[task[2]].build] = task[2]
  <2>1. task[1] \in {"mod", "cache"} => task[2] \in Mod /\ task[2] \in DOMAIN Now.entries
    BY <1>2, TaskKind DEF Mods
  <2> QED
    BY <1>6, <2>1 DEF Sound, Published, Target
<1>10. task = <<task[1], task[2]>>
  BY <1>2, TaskKind DEF Mods
<1> HIDE DEF e
<1>11. Accounted(mods, mods', Disturbed, Disturbed')
  <2>1. \A id \in Mod : Local(mods, id) = {} \/ Local(mods', id) # {} \/ id \in Disturbed'
    BY <1>8, OrphansAccount
  <2>2. CASE task[1] = "mod"
    <3>1. task[2] \in Disturbed'
      BY <1>1, <2>2 DEF Disturbed
    <3>2. mods' = [mods EXCEPT ![e[task[2]].jar] = e[task[2]].build]
      BY <1>1, <2>2
    <3> QED
      BY <1>2, <1>8, <1>9, <2>1, <2>2, <3>1, <3>2, PutAccounted
  <2>3. CASE task[1] # "mod"
    BY <1>1, <1>8, <2>3, Unmoved
  <2> QED
    BY <2>2, <2>3
<1>12. CacheTells(cache')
  <2>1. CASE task[1] = "cache"
    <3>1. \A j \in Jar : cache'[j] = IF j = e[task[2]].jar THEN e[task[2]].build ELSE cache[j]
      BY <1>1, <1>2, <1>9, <2>1 DEF ModDir
    <3>2. task[2] \in DOMAIN Meta[sync.meta].entries /\ e = Meta[sync.meta].entries
      BY <1>6, <1>9, <2>1 DEF Published, Now, e
    <3> QED
      BY <1>2, <3>1, <3>2 DEF Mods, RecordInv, CacheTells
  <2>2. CASE task[1] # "cache"
    BY <1>1, <2>2 DEF Mods, RecordInv
  <2> QED
    BY <2>1, <2>2
<1>13. RecordInv'
  BY <1>4, <1>11, <1>12, RecordKept DEF Mods
<1>14. WorkFit(Terms, sync) /\ (ShouldRun(Terms) => PlanFit(Terms, sync, mods, cache, Disturbed))
  BY <1>2, <1>7 DEF Mods, SyncInv
<1>15. ShouldRun(Terms) => PlanFit(Terms, sync', mods', cache', Disturbed')
  <2>1. CASE task[1] = "mod"
    <3>1. task[2] \in Active(Terms)
      BY <1>9, <1>10, <1>14, <2>1 DEF WorkFit, Active
    <3>2. mods' = [mods EXCEPT ![Target(Terms, task[2])] = Terms.manifest.entries[task[2]].build]
      BY <1>1, <1>6, <1>9, <2>1 DEF e
    <3>3. sync'.tasks \subseteq sync.tasks /\ sync.tasks \ sync'.tasks \subseteq {<<"mod", task[2]>>}
      BY <1>3, <1>10, <2>1
    <3>4. sync'.links \subseteq sync.links /\ sync.links \ sync'.links \subseteq {task[2]}
      BY <1>3
    <3>5. cache' = cache
      BY <1>1, <2>1
    <3>6. sync'.deletes = {}
      BY <1>3, <1>7
    <3>7. ASSUME ShouldRun(Terms)
          PROVE  PlanFit(Terms, sync', mods', cache, Disturbed')
      BY <1>2, <1>3, <1>6, <1>7, <1>11, <1>14, <3>1, <3>2, <3>3, <3>4, <3>5, <3>6, <3>7, PlanPut
    <3> QED
      BY <3>5, <3>7
  <2>2. CASE task[1] # "mod"
    <3>1. mods' = mods /\ sync'.tasks \subseteq sync.tasks /\ sync.tasks # {}
      BY <1>1, <1>3, <2>2
    <3>2. \A id \in Published(Terms) : <<"mod", id>> \notin sync.tasks \ sync'.tasks
      BY <1>3, <1>10, <2>2
    <3>3. ASSUME NEW id \in Published(Terms)
          PROVE  /\ <<"cache", id>> \in sync.tasks \ sync'.tasks =>
                        cache'[Target(Terms, id)] = Terms.manifest.entries[id].build
                 /\ cache[Target(Terms, id)] = Terms.manifest.entries[id].build =>
                        cache'[Target(Terms, id)] = cache[Target(Terms, id)]
      <4>1. <<"cache", id>> \in sync.tasks \ sync'.tasks => task[1] = "cache" /\ task[2] = id
        BY <1>3, <1>10
      <4>2. CASE task[1] = "cache"
        <5>1. \A j \in Jar : cache'[j] = IF j = e[task[2]].jar THEN e[task[2]].build ELSE cache[j]
          BY <1>1, <1>2, <1>9, <4>2 DEF ModDir
        <5>2. Target(Terms, id) \in Jar /\ (Target(Terms, id) = Target(Terms, task[2]) => id = task[2])
          BY <1>6, <1>9, <4>2 DEF Sound, Target
        <5> QED
          BY <1>6, <1>9, <4>1, <4>2, <5>1, <5>2 DEF e
      <4>3. CASE task[1] # "cache"
        BY <1>1, <4>1, <4>3
      <4> QED
        BY <4>2, <4>3
    <3>4. /\ sync'.deletes = {} /\ sync'.links = sync.links /\ sync'.quiet = sync.quiet
          /\ sync'.undone = sync.undone
          /\ sync.tasks = {} => cache' = cache
      BY <1>3, <1>7, <3>1
    <3>5. \A id \in Published(Terms) : <<"mod", id>> \in sync.tasks \ sync'.tasks =>
              mods[Target(Terms, id)] = Terms.manifest.entries[id].build
      BY <3>2
    <3>6. ASSUME ShouldRun(Terms)
          PROVE  PlanFit(Terms, sync', mods, cache', Disturbed')
      <4>1. PlanFit(Terms, sync, mods, cache, Disturbed)
        BY <1>14, <3>6
      <4>2. \A id \in Published(Terms) : <<"cache", id>> \in sync.tasks \ sync'.tasks =>
                cache'[Target(Terms, id)] = Terms.manifest.entries[id].build
        BY <3>3
      <4>3. \A id \in Published(Terms) : cache[Target(Terms, id)] = Terms.manifest.entries[id].build =>
                cache'[Target(Terms, id)] = cache[Target(Terms, id)]
        BY <3>3
      <4>4. sync'.tasks \subseteq sync.tasks
        BY <3>1
      <4> QED
        BY <1>7, <1>8, <3>4, <3>5, <4>1, <4>2, <4>3, <4>4, PlanWork
    <3> QED
      BY <3>1, <3>6
  <2> QED
    BY <2>1, <2>2
<1>16. Emptied(sync') /\ WorkFit(Terms, sync')
  BY <1>2, <1>3, <1>7, <1>14 DEF Mods, SyncInv, Emptied, WorkFit
<1>17. Followed(Entries(sync.known), mods', Disturbed')
  <2>1. mods' \in ModDir /\ sync.known \in Release \cup {None}
    BY <1>2 DEF Typed, TypeOK, Sync
  <2> QED
    BY <1>2, <1>7, <1>11, <2>1, AllFollowed DEF Mods, SyncInv
<1>18. sync.undone \subseteq Disturbed' /\ (~ShouldRun(Terms) => sync.known = sync.meta)
  BY <1>2, <1>7, <1>8 DEF Mods, SyncInv
<1>19. Entries(sync.known)' = Entries(sync.known)
  BY <1>3 DEF Entries
<1> QED
  BY <1>3, <1>5, <1>13, <1>15, <1>16, <1>17, <1>18, <1>19 DEF SyncInv

\* An optional mod is linked, or is not in the cache.
LEMMA StepLink ==
    ASSUME NamesTell, Mods, Typed', Link
    PROVE  RecordInv' /\ SyncInv'
<1>1. PICK x \in sync.links :
        /\ sync' = [sync EXCEPT !.links = @ \ {x}]
        /\ mods' = Linked(mods, Now.entries[x].jar)
        /\ touched' = touched \ {x}
        /\ lost' = lost \cup Orphaned(mods') \cup {x}
  BY DEF Link
<1>2. /\ Busy /\ sync.phase = "link" /\ sync \in Sync /\ sync.meta \in Release
      /\ mods \in ModDir /\ cache \in ModDir
  BY Meant DEF Link, In, Mods, Typed, TypeOK
<1>3. /\ sync'.deletes = sync.deletes /\ sync'.tasks = sync.tasks /\ sync'.links = sync.links \ {x}
      /\ sync'.quiet = sync.quiet /\ sync'.undone = sync.undone /\ sync'.phase = sync.phase
      /\ sync'.known = sync.known /\ sync'.meta = sync.meta /\ sync'.cause = sync.cause
      /\ sync'.force = sync.force
  BY <1>1, <1>2 DEF Sync
<1>4. UNCHANGED <<preference, recorded, cache>>
  BY DEF Link
<1>5. Terms' = Terms
  BY <1>3, <1>4, TermsKept
<1>6. Sound(Terms) /\ Terms.manifest = Now
  BY <1>2, TermsSound DEF Mods, Typed
<1>7. ~In("report") /\ sync.deletes = {} /\ sync.tasks = {}
  BY <1>2 DEF In, Mods, SyncInv, Emptied
<1>8. Disturbed \subseteq Disturbed' /\ Orphaned(mods') \subseteq Disturbed' /\ x \in Disturbed'
  BY <1>1 DEF Disturbed
<1>9. WorkFit(Terms, sync) /\ (ShouldRun(Terms) => PlanFit(Terms, sync, mods, cache, Disturbed))
  BY <1>2, <1>7 DEF Mods, SyncInv
<1>10. x \in On(Terms)
  BY <1>9 DEF WorkFit
<1> DEFINE jar == Target(Terms, x)
           build == Terms.manifest.entries[x].build
<1>11. /\ x \in Published(Terms) /\ jar = Now.entries[x].jar
       /\ jar \in Jar /\ build \in Build /\ IdOf[build] = x
  <2>1. x \in Published(Terms)
    BY <1>10, Kinds
  <2> QED
    BY <1>6, <2>1 DEF Sound, Target
<1>12. cache[jar] \in {Absent, build}
  <2>1. SUFFICES ASSUME cache[jar] # Absent PROVE cache[jar] = build
    OBVIOUS
  <2>2. PICK m \in Release : \E id \in DOMAIN Meta[m].entries :
            Meta[m].entries[id].jar = jar /\ Meta[m].entries[id].build = cache[jar]
    BY <1>11, <2>1 DEF Mods, RecordInv, CacheTells
  <2>3. x \in DOMAIN Meta[sync.meta].entries /\ Meta[sync.meta].entries[x].jar = jar
        /\ Meta[sync.meta].entries[x].build = build
    BY <1>6, <1>11 DEF Now, Published
  <2> QED
    BY <1>2, <2>2, <2>3 DEF NamesTell
<1> DEFINE Kept == /\ Accounted(mods, mods', Disturbed, Disturbed')
                   /\ ShouldRun(Terms) => PlanFit(Terms, sync', mods', cache, Disturbed')
<1>13. ASSUME cache[jar] = Absent PROVE Kept
  <2>1. mods' = mods
    BY <1>1, <1>11, <1>13 DEF Linked
  <2>2. ASSUME ShouldRun(Terms) PROVE PlanFit(Terms, sync', mods, cache, Disturbed')
    <3>1. PlanFit(Terms, sync, mods, cache, Disturbed) /\ sync'.deletes = {} /\ sync'.tasks = {}
      BY <1>3, <1>7, <1>9, <2>2
    <3> QED
      BY <1>3, <1>6, <1>7, <1>8, <1>10, <1>13, <3>1, PlanUnlinked
  <2>3. Accounted(mods, mods, Disturbed, Disturbed')
    BY <1>8, Unmoved
  <2> QED
    BY <2>1, <2>2, <2>3
<1>14. ASSUME cache[jar] = build PROVE Kept
  <2>1. mods' = [mods EXCEPT ![jar] = build]
    <3>1. build # Absent
      BY <1>11, ModAssumption
    <3> QED
      BY <1>1, <1>11, <1>14, <3>1 DEF Linked
  <2>2. Accounted(mods, mods', Disturbed, Disturbed')
    <3>1. \A id \in Mod : Local(mods, id) = {} \/ Local(mods', id) # {} \/ id \in Disturbed'
      BY <1>8, OrphansAccount
    <3> HIDE DEF jar, build
    <3> QED
      BY <1>2, <1>8, <1>11, <2>1, <3>1, PutAccounted
  <2>3. ASSUME ShouldRun(Terms) PROVE PlanFit(Terms, sync', mods', cache, Disturbed')
    <3>1. PlanFit(Terms, sync, mods, cache, Disturbed) /\ sync'.deletes = {}
      BY <1>3, <1>7, <1>9, <2>3
    <3>2. x \in Active(Terms)
      BY <1>10 DEF Active
    <3>3. sync'.tasks \subseteq sync.tasks /\ sync.tasks \ sync'.tasks \subseteq {<<"mod", x>>}
      BY <1>3
    <3>4. sync'.links \subseteq sync.links /\ sync.links \ sync'.links \subseteq {x}
      BY <1>3
    <3>5. sync'.quiet = sync.quiet /\ sync'.undone = sync.undone
      BY <1>3
    <3>6. mods' = [mods EXCEPT ![Target(Terms, x)] = Terms.manifest.entries[x].build]
      BY <2>1
    <3> QED
      BY <1>2, <1>6, <1>7, <2>2, <3>1, <3>2, <3>3, <3>4, <3>5, <3>6, PlanPut
  <2> QED
    BY <2>2, <2>3
<1>15. Kept
  BY <1>12, <1>13, <1>14
<1> HIDE DEF jar, build
<1>16. RecordInv'
  BY <1>4, <1>15, RecordKept DEF Mods, RecordInv
<1>17. Emptied(sync') /\ WorkFit(Terms, sync')
  BY <1>2, <1>3, <1>7, <1>9 DEF Emptied, WorkFit
<1>18. Followed(Entries(sync.known), mods', Disturbed')
  <2>1. mods' \in ModDir /\ sync.known \in Release \cup {None}
    BY <1>2 DEF Typed, TypeOK, Sync
  <2> QED
    BY <1>2, <1>7, <1>15, <2>1, AllFollowed DEF Mods, SyncInv
<1>19. sync.undone \subseteq Disturbed' /\ (~ShouldRun(Terms) => sync.known = sync.meta)
  BY <1>2, <1>7, <1>8 DEF Mods, SyncInv
<1>20. Entries(sync.known)' = Entries(sync.known)
  BY <1>3 DEF Entries
<1> QED
  BY <1>3, <1>4, <1>5, <1>15, <1>16, <1>17, <1>18, <1>19, <1>20 DEF SyncInv

\* Steps that leave the mods alone.
LEMMA StepOther ==
    ASSUME Mods, Typed', Busy, UNCHANGED <<mods, cache, touched, lost, preference>>,
           recorded' \in {recorded, None},
           sync'.deletes = sync.deletes, sync'.tasks = sync.tasks, sync'.links = sync.links,
           sync'.quiet = sync.quiet, sync'.undone = sync.undone, sync'.known = sync.known,
           sync'.meta = sync.meta, sync'.cause = sync.cause, sync'.force = sync.force,
           Emptied(sync'), sync.phase = "report" => sync'.phase = "report"
    PROVE  RecordInv' /\ SyncInv'
<1>1. Terms' = Terms
  BY TermsKept
<1>2. Disturbed' = Disturbed
  BY DEF Disturbed
<1>3. RecordInv'
  BY <1>2, Unmoved, RecordKept DEF Mods, RecordInv
<1>4. WorkFit(Terms, sync')
  BY DEF Mods, SyncInv, WorkFit
<1>5. ~In("report")' => ~In("report") \/ ~Busy'
  BY DEF In
<1>6. PlanFit(Terms, sync, mods, cache, Disturbed) => PlanFit(Terms, sync', mods, cache, Disturbed)
  BY DEF PlanFit, NormalFit, AloneFit, OnFit, CacheFit, GoneFit, MirrorFit, Excused
<1>7. Entries(sync.known)' = Entries(sync.known)
  BY DEF Entries
<1> QED
  BY <1>1, <1>2, <1>3, <1>4, <1>5, <1>6, <1>7 DEF Mods, SyncInv

\* What the record will say is there, or was disturbed.
LEMMA RecordTrue ==
    ASSUME NamesTell, Mods, In("rename")
    PROVE  \A id \in Normal(Terms) : Placed(Now.entries, mods, id) \/ id \in Disturbed
<1>1. /\ Busy /\ sync.phase = "rename" /\ sync \in Sync /\ sync.meta \in Release /\ mods \in ModDir
  BY Meant DEF In, Mods, Typed, TypeOK
<1>2. ~In("report") /\ sync.deletes = {} /\ sync.tasks = {} /\ sync.links = {}
  BY <1>1 DEF In, Mods, SyncInv, Emptied
<1>3. Sound(Terms) /\ Terms.manifest = Now
  BY <1>1, TermsSound DEF Mods, Typed
<1>4. CASE ShouldRun(Terms)
  <2>1. PlanFit(Terms, sync, mods, cache, Disturbed) /\ sync.undone \subseteq Disturbed
        /\ OneJarEach(mods, Disturbed)
    BY <1>1, <1>2, <1>4 DEF Mods, SyncInv, RecordInv
  <2> QED
    BY <1>1, <1>2, <1>3, <2>1, PlanDone
<1>5. CASE ~ShouldRun(Terms)
  <2>1. Followed(Entries(sync.known), mods, Disturbed) /\ sync.known = sync.meta
    BY <1>1, <1>2, <1>5 DEF Mods, SyncInv
  <2>2. Entries(sync.known) = Now.entries
    BY <1>1, <2>1, SyncAssumption DEF Entries, Now
  <2>3. Normal(Terms) \subseteq DOMAIN Now.entries
    BY <1>3, Kinds DEF Published
  <2> QED
    BY <2>1, <2>2, <2>3 DEF Followed
<1> QED
  BY <1>4, <1>5

\* Where contents are compared, a mod in its place is the published one.
LEMMA InPlaceMeans ==
    ASSUME HashesChecked, TypeOK, Busy, NEW id \in DOMAIN Now.entries
    PROVE  InPlace(id) <=> mods[Now.entries[id].jar] = Now.entries[id].build
<1>1. sync.meta \in Release /\ Now.entries[id].build \in Build
  BY Meant
<1>2. Now.mode # "mirror_fast" /\ Now.entries[id].build # Absent
  BY <1>1, ModAssumption DEF HashesChecked, Now
<1> QED
  BY <1>2 DEF InPlace, Differs

\* The new record is followed: what differs from it has been disturbed.
LEMMA StepRename ==
    ASSUME NamesTell, HashesChecked, Mods, Typed', RenameRecord
    PROVE  RecordInv' /\ SyncInv'
<1>1. /\ Busy /\ sync.phase = "rename" /\ sync \in Sync /\ sync.meta \in Release /\ mods \in ModDir
      /\ In("rename")
  BY Meant DEF RenameRecord, In, Mods, Typed, TypeOK
<1>2. /\ sync'.deletes = sync.deletes /\ sync'.tasks = sync.tasks /\ sync'.links = sync.links
      /\ sync'.phase = "report" /\ sync'.known = sync.known /\ sync'.meta = sync.meta
      /\ sync'.cause = sync.cause /\ sync'.force = sync.force
  BY <1>1 DEF RenameRecord, Goto, Sync
<1>3. /\ UNCHANGED <<preference, mods, cache, touched>>
      /\ recorded' = sync.meta
      /\ lost' = {id \in lost \cup ((DOMAIN Now.entries \ Normal(View)) \ touched) :
                    id \in DOMAIN Now.entries => ~InPlace(id) \/ ~Alone(id)}
  BY DEF RenameRecord
<1>4. Terms' = Terms /\ Now' = Now
  BY <1>2, <1>3, TermsKept
<1>5. Normal(View) = Normal(Terms)
  <2>1. /\ View.manifest = Terms.manifest /\ View.previous = Terms.previous /\ View.cause = Terms.cause
        /\ View.force = Terms.force /\ View.preference = Terms.preference
    BY DEF View, ModView, Terms, Now
  <2> HIDE DEF View
  <2> QED
    BY <2>1, SameTerms
<1>6. \A id \in DOMAIN Now.entries : InPlace(id) /\ Alone(id) <=> Placed(Now.entries, mods, id)
  BY <1>1, InPlaceMeans DEF Alone, Placed, Mods, Typed
<1>7. Followed(Now.entries, mods, Disturbed')
  <2> SUFFICES ASSUME NEW id \in DOMAIN Now.entries, ~Placed(Now.entries, mods, id), id \notin touched
               PROVE  id \in lost'
    BY <1>3 DEF Followed, Disturbed
  <2>1. ~InPlace(id) \/ ~Alone(id)
    BY <1>6
  <2>2. id \in Normal(View) => id \in lost
    BY <1>1, <1>5, RecordTrue DEF Disturbed
  <2> QED
    BY <1>3, <2>1, <2>2
<1>8. OneJarEach(mods, Disturbed')
  <2> SUFFICES ASSUME NEW id \in Mod, NEW j \in Local(mods, id), NEW k \in Local(mods, id), j # k,
                      id \notin touched
               PROVE  id \in lost'
    BY <1>3 DEF OneJarEach, Disturbed
  <2>1. id \in lost
    BY DEF Mods, RecordInv, OneJarEach, Disturbed
  <2>2. ~Alone(id)
    BY DEF Alone
  <2> QED
    BY <1>3, <2>1, <2>2
<1>9. Entries(recorded)' = Now.entries
  BY <1>1, <1>3, SyncAssumption DEF Entries, Now
<1>10. RecordInv'
  BY <1>3, <1>7, <1>8, <1>9 DEF Mods, RecordInv
<1>11. Emptied(sync') /\ WorkFit(Terms, sync')
  BY <1>1, <1>2 DEF Mods, SyncInv, Emptied, WorkFit
<1>12. Busy' => In("report")'
  BY <1>2 DEF In
<1> QED
  BY <1>4, <1>10, <1>11, <1>12 DEF SyncInv

\* What the user edits is disturbed.
LEMMA StepEdit ==
    ASSUME NamesTell, Mods, Typed', EditMods \/ EditFiles \/ RemoveDir
    PROVE  RecordInv' /\ SyncInv'
<1>1. /\ Edit /\ UNCHANGED <<preference, recorded, cache, lost>>
      /\ \/ UNCHANGED <<mods, touched>>
         \/ touched' = touched \cup Stirred(mods')
  BY DEF EditMods, EditFiles, RemoveDir
<1>2. mods \in ModDir /\ mods' \in ModDir
  BY DEF Mods, Typed, TypeOK
<1>3. Disturbed \subseteq Disturbed'
  BY <1>1 DEF Disturbed
<1>4. /\ Accounted(mods, mods', Disturbed, Disturbed')
      /\ \A j \in Jar : mods'[j] # mods[j] =>
            \A b \in {mods[j], mods'[j]} : b # Absent => IdOf[b] \in Disturbed' \cup {NoId}
  <2>1. CASE UNCHANGED <<mods, touched>>
    BY <1>3, <2>1, Unmoved
  <2>2. CASE touched' = touched \cup Stirred(mods')
    <3>1. Stirred(mods') \subseteq Disturbed'
      BY <2>2 DEF Disturbed
    <3> QED
      BY <1>2, <1>3, <3>1, StirredAccounts
  <2> QED
    BY <1>1, <2>1, <2>2
<1>5. RecordInv'
  BY <1>1, <1>4, RecordKept DEF Mods, RecordInv
<1>6. CASE ~Busy
  BY <1>1, <1>5, <1>6 DEF Edit, Busy, SyncInv
<1>7. CASE Busy
  <2>1. sync \in Sync /\ sync' = [sync EXCEPT !.quiet = FALSE]
    BY <1>1, <1>7, Meant DEF Edit, Mods, Typed
  <2>2. /\ sync'.deletes = sync.deletes /\ sync'.tasks = sync.tasks /\ sync'.links = sync.links
        /\ ~sync'.quiet /\ sync'.undone = sync.undone /\ sync'.phase = sync.phase
        /\ sync'.known = sync.known /\ sync'.meta = sync.meta /\ sync'.cause = sync.cause
        /\ sync'.force = sync.force
    BY <2>1 DEF Sync
  <2>3. Terms' = Terms
    BY <1>1, <2>2, TermsKept
  <2>4. Sound(Terms)
    BY <1>7, TermsSound DEF Mods, Typed
  <2>5. In("report") => ~Busy' \/ In("report")'
    BY <2>2 DEF In
  <2>6. ASSUME ~In("report"), ShouldRun(Terms) PROVE PlanFit(Terms, sync', mods', cache, Disturbed')
    <3>1. PlanFit(Terms, sync, mods, cache, Disturbed)
      BY <1>7, <2>6 DEF Mods, SyncInv
    <3> QED
      BY <1>2, <1>4, <2>2, <2>4, <3>1, PlanEdited
  <2>7. Emptied(sync') /\ WorkFit(Terms, sync')
    BY <1>7, <2>2 DEF Mods, SyncInv, Emptied, WorkFit
  <2>8. ~In("report") => Followed(Entries(sync.known), mods', Disturbed')
    <3>1. sync.known \in Release \cup {None}
      BY <2>1 DEF Sync
    <3> QED
      BY <1>2, <1>4, <1>7, <3>1, AllFollowed DEF Mods, SyncInv
  <2>9. ~In("report") => sync.undone \subseteq Disturbed' /\ (~ShouldRun(Terms) =>
      sync.known = sync.meta)
    BY <1>3, <1>7 DEF Mods, SyncInv
  <2>10. Entries(sync.known)' = Entries(sync.known)
    BY <2>2 DEF Entries
  <2> QED
    BY <1>1, <1>5, <2>2, <2>3, <2>5, <2>6, <2>7, <2>8, <2>9, <2>10 DEF SyncInv
<1> QED
  BY <1>6, <1>7

\* So is what a set that is switched puts there or removes.
LEMMA StepSwitch ==
    ASSUME Mods, Typed', NEW set \in OptionalSet, NEW on \in BOOLEAN, SwitchSet(set, on)
    PROVE  RecordInv' /\ SyncInv'
<1>1. ~Busy /\ UNCHANGED <<recorded, cache, lost, sync>> /\ touched' = touched \cup Stirred(mods')
  BY DEF SwitchSet
<1>2. mods \in ModDir /\ mods' \in ModDir
  BY DEF Mods, Typed, TypeOK
<1>3. Disturbed \subseteq Disturbed' /\ Stirred(mods') \subseteq Disturbed'
  BY <1>1 DEF Disturbed
<1>4. Accounted(mods, mods', Disturbed, Disturbed')
  BY <1>2, <1>3, StirredAccounts
<1>5. RecordInv'
  BY <1>1, <1>4, RecordKept DEF Mods, RecordInv
<1> QED
  BY <1>1, <1>5 DEF Busy, SyncInv

\* A sync starts from a plan that fits the directory it was made for.
LEMMA StepStart ==
    ASSUME NamesTell, Careful, Mods, Typed', NEW cause \in {"update", "run"}, NEW force \in BOOLEAN,
           Start(cause, force)
    PROVE  RecordInv' /\ SyncInv'
<1> DEFINE meta == IF recorded = entry THEN recorded ELSE published
           p == ModView(meta, cause, force)
           r == RuleView(meta, cause, force)
<1>1. /\ cause = "run" => Offered
      /\ sync' = Planned(meta, cause, force)
      /\ UNCHANGED <<preference, recorded, mods, cache, touched, lost>>
  BY DEF Start, disk
<1>2. meta \in Release /\ recorded \in Release \cup {None} /\ mods \in ModDir
  BY DEF Mods, Typed, TypeOK
<1>3. /\ sync'.phase = "delete" /\ sync'.meta = meta /\ sync'.known = recorded /\ sync'.cause = cause
      /\ sync'.force = force /\ sync'.quiet = TRUE /\ sync'.undone = Disturbed
      /\ sync'.deletes = ModDeletes(p) \cup FileDeletes(r) /\ sync'.links = ModLinks(p)
  BY <1>1 DEF Planned, Disturbed
<1>4. /\ \A id : <<"mod", id>> \in sync'.tasks <=> id \in ModChecks(p)
      /\ \A id : <<"cache", id>> \in sync'.tasks <=> id \in CacheChecks(p)
  BY <1>1 DEF Planned
<1>5. /\ p.manifest = Meta[meta] /\ p.previous = Entries(recorded) /\ p.cause = cause /\ p.force = force
      /\ p.preference = preference /\ p.mods = mods
  BY DEF ModView
<1>6. FileDeletes(r) \cap Jar = {}
  <2>1. \A n \in DOMAIN r.rules :
              /\ n \in Nat
              /\ \A f \in DOMAIN r.rules[n].objects : f \in File /\ r.rules[n].objects[f] \in Content
              /\ r.rules[n].at \in (IF r.rules[n].kind = "dir" THEN Dir ELSE File)
    BY <1>2, MetaAssumption DEF RuleView
  <2> HIDE DEF r
  <2>2. FileDeletes(r) \subseteq File
    BY <2>1, RulePlan
  <2> QED
    BY <2>2, SyncAssumption
<1>7. /\ Terms'.manifest = p.manifest /\ Terms'.previous = p.previous /\ Terms'.cause = p.cause
      /\ Terms'.force = p.force /\ Terms'.preference = p.preference
  BY <1>1, <1>3, <1>5 DEF Terms, Now, Entries
<1>8. Disturbed' = Disturbed
  BY <1>1 DEF Disturbed
<1>9. RecordInv'
  BY <1>1, <1>8, Unmoved, RecordKept DEF Mods, RecordInv
<1> HIDE DEF p, r, meta
<1>10. Sound(p)
  BY <1>2, <1>5, ReleaseSound
<1>11. /\ \A id \in Before(p) : /\ p.previous[id].jar \in Jar \ Clutter /\ p.previous[id].build \in Build
                                /\ IdOf[p.previous[id].build] = id
       /\ \A id \in Before(p) \cap Published(p) : ~Changed(p, id) => p.previous[id].jar = Target(p, id)
  <2>1. CASE recorded = None
    BY <1>5, <2>1 DEF Before, Entries, Nothing
  <2>2. CASE recorded \in Release /\ recorded # None
    <3>1. p.previous = Meta[recorded].entries
      BY <1>5, <2>2 DEF Entries
    <3>2. \A id \in Before(p) : /\ p.previous[id].jar \in Jar \ Clutter /\ p.previous[id].build \in Build
                                /\ IdOf[p.previous[id].build] = id
      BY <2>2, <3>1, MetaAssumption DEF Before
    <3>3. \A id \in Before(p) \cap Published(p) : ~Changed(p, id) => p.previous[id].jar = Target(p, id)
      BY <1>2, <1>5, <2>2, <3>1 DEF Before, Published, Changed, Target, NamesTell
    <3> QED
      BY <3>2, <3>3
  <2> QED
    BY <1>2, <2>1, <2>2
<1>12. Followed(p.previous, mods, Disturbed)
  BY <1>5 DEF Mods, RecordInv
<1>13. ASSUME ShouldRun(p)
       PROVE  PlanFit(p, sync', mods, cache, Disturbed)
  <2>1. p.mods = mods
    BY <1>5
  <2>2. /\ sync'.deletes = ModDeletes(p) \cup FileDeletes(r) /\ sync'.links = ModLinks(p)
        /\ sync'.quiet = TRUE /\ sync'.undone = Disturbed
    BY <1>3
  <2>3. mods \in ModDir
    BY <1>2
  <2>4. \A id \in Before(p) : /\ p.previous[id].jar \in Jar \ Clutter /\ p.previous[id].build \in Build
                              /\ IdOf[p.previous[id].build] = id
    BY <1>11
  <2>5. \A id \in Before(p) \cap Published(p) : ~Changed(p, id) => p.previous[id].jar = Target(p, id)
    BY <1>11
  <2>6. \A id : <<"mod", id>> \in sync'.tasks <=> id \in ModChecks(p)
    BY <1>4
  <2>7. \A id : <<"cache", id>> \in sync'.tasks <=> id \in CacheChecks(p)
    BY <1>4
  <2> QED
    BY <1>6, <1>10, <1>12, <1>13, <2>1, <2>2, <2>3, <2>4, <2>5, <2>6, <2>7, PlanStart
<1>14. WorkFit(p, sync')
  <2>1. ModChecks(p) \subseteq Normal(p)
    BY DEF ModChecks, DeltaChecks, DeltaReplaced, DeltaMissing
  <2>2. CacheChecks(p) \subseteq Switched(p)
    BY DEF CacheChecks, DeltaCacheChecks
  <2>3. ModLinks(p) \subseteq On(p)
    BY DEF ModLinks
  <2> QED
    BY <1>3, <1>4, <2>1, <2>2, <2>3 DEF WorkFit
<1>15. /\ ShouldRun(Terms') <=> ShouldRun(p)
       /\ ShouldRun(p) => PlanFit(Terms', sync', mods, cache, Disturbed)
       /\ WorkFit(Terms', sync')
  BY <1>7, <1>13, <1>14, SameTerms, PlanSame
<1>16. ~ShouldRun(p) => sync'.known = sync'.meta
  BY <1>1, <1>3, <1>5 DEF ShouldRun, Offered, meta
<1>17. Emptied(sync')
  BY <1>3 DEF Emptied
<1>18. Entries(sync.known)' = p.previous
  BY <1>3, <1>5 DEF Entries
<1> QED
  BY <1>1, <1>3, <1>8, <1>9, <1>12, <1>15, <1>16, <1>17, <1>18 DEF SyncInv

\* The phases that leave the mods, the cache and the plan alone.
LEMMA StepPass ==
    ASSUME Mods, Typed',
           \/ Downloaded \/ AllLinked \/ OpenConfig \/ WriteConfig \/ MarkDirs
           \/ SkipNatives \/ ClearNatives \/ NativesCleared \/ Extract \/ RemoveNative
           \/ MarkNatives \/ RemoveRecord
    PROVE  RecordInv' /\ SyncInv'
<1> USE DEF Mods
<1>1. Busy /\ sync \in Sync /\ Emptied(sync)
  <2>1. Busy
    BY DEF Downloaded, AllLinked, OpenConfig, WriteConfig, MarkDirs, SkipNatives, ClearNatives,
          NativesCleared, Extract, RemoveNative,
           MarkNatives, RemoveRecord, In
  <2> QED
    BY <2>1, Meant DEF Typed, SyncInv
<1>2. /\ UNCHANGED <<mods, cache, touched, lost, preference>>
      /\ recorded' \in {recorded, None}
  BY DEF Downloaded, AllLinked, OpenConfig, WriteConfig, MarkDirs, SkipNatives, ClearNatives,
        NativesCleared, Extract, RemoveNative,
         MarkNatives, RemoveRecord, disk
<1>3. \/ \E phase \in Phase : Goto(phase)
      \/ OpenConfig \/ WriteConfig
      \/ sync' = sync
  BY DEF Downloaded, AllLinked, MarkDirs, SkipNatives, ClearNatives, NativesCleared, Extract,
        RemoveNative, MarkNatives,
      RemoveRecord, Phase
<1>4. /\ sync'.deletes = sync.deletes /\ sync'.tasks = sync.tasks /\ sync'.links = sync.links
      /\ sync'.quiet = sync.quiet /\ sync'.undone = sync.undone /\ sync'.known = sync.known
      /\ sync'.meta = sync.meta /\ sync'.cause = sync.cause /\ sync'.force = sync.force
  <2>1. CASE \E phase \in Phase : Goto(phase)
    BY <1>1, <2>1 DEF Goto, Sync
  <2>2. CASE OpenConfig
    BY <1>1, <2>2 DEF OpenConfig, Sync
  <2>3. CASE WriteConfig
    BY <1>1, <2>3 DEF WriteConfig, Sync
  <2> QED
    BY <1>3, <2>1, <2>2, <2>3
<1>5. /\ Emptied(sync') /\ sync.phase # "report"
  <2>1. CASE Downloaded
    <3>1. sync.phase = "download" /\ sync.tasks = {} /\ sync'.phase = "link"
      BY <1>1, <2>1, PhaseAfter DEF Downloaded, In, Phase
    <3> QED
      BY <1>1, <1>4, <3>1 DEF Emptied
  <2>2. CASE AllLinked
    <3>1. sync.phase = "link" /\ sync.links = {} /\ sync'.phase = "configure"
      BY <1>1, <2>2, PhaseAfter DEF AllLinked, In, Phase
    <3> QED
      BY <1>1, <1>4, <3>1 DEF Emptied
  <2>3. CASE \/ OpenConfig \/ WriteConfig \/ MarkDirs \/ SkipNatives \/ ClearNatives
             \/ NativesCleared \/ Extract \/ RemoveNative
             \/ MarkNatives \/ RemoveRecord
    <3>1. sync.phase \in {"configure", "natives", "clear", "extract", "record"}
      BY <2>3 DEF OpenConfig, WriteConfig, MarkDirs, SkipNatives, ClearNatives, NativesCleared,
            Extract, RemoveNative, MarkNatives,
                  RemoveRecord, In
    <3> QED
      BY <1>1, <1>4, <3>1 DEF Emptied
  <2> QED
    BY <2>1, <2>2, <2>3
<1> QED
  BY <1>1, <1>2, <1>4, <1>5, StepOther

\* Between two syncs only the record counts.
LEMMA StepIdle ==
    ASSUME Mods, Typed', UNCHANGED <<mods, cache, touched, lost, recorded>>, ~Busy'
    PROVE  RecordInv' /\ SyncInv'
<1>1. Accounted(mods, mods', Disturbed, Disturbed')
  BY Unmoved DEF Disturbed
<1> QED
  BY <1>1, RecordKept DEF Mods, RecordInv, SyncInv

\* Every step keeps the mods accounted for.
LEMMA ModsStep ==
    ASSUME NamesTell, HashesChecked, Careful, Mods, [Next]_vars
    PROVE  Mods'
<1>1. Typed'
  BY TypedStep DEF Mods
<1> SUFFICES RecordInv' /\ SyncInv'
  BY <1>1 DEF Mods
<1>2. CASE Delete
  BY <1>1, <1>2, StepDelete
<1>3. CASE Check
  BY <1>1, <1>3, StepCheck
<1>4. CASE Download
  BY <1>1, <1>4, StepDownload
<1>5. CASE Link
  BY <1>1, <1>5, StepLink
<1>6. CASE \/ Downloaded \/ AllLinked \/ OpenConfig \/ WriteConfig \/ MarkDirs
           \/ SkipNatives \/ ClearNatives \/ NativesCleared \/ Extract \/ RemoveNative
           \/ MarkNatives \/ RemoveRecord
  BY <1>1, <1>6, StepPass
<1>7. CASE RenameRecord
  BY <1>1, <1>7, StepRename
<1>8. CASE Report \/ Stop
  <2>1. UNCHANGED <<mods, cache, touched, lost, recorded>> /\ ~Busy'
    BY <1>8 DEF Report, Stop, disk, Busy
  <2> QED
    BY <1>1, <2>1, StepIdle
<1>9. CASE \E cause \in {"update", "run"}, force \in BOOLEAN : Start(cause, force)
  BY <1>1, <1>9, StepStart
<1>10. CASE \E id \in OptionalSet, on \in BOOLEAN : SwitchSet(id, on)
  BY <1>1, <1>10, StepSwitch
<1>11. CASE EditMods \/ EditFiles \/ RemoveDir
  BY <1>1, <1>11, StepEdit
<1>12. CASE Publish \/ Refresh \/ UNCHANGED vars
  <2>1. UNCHANGED <<mods, cache, touched, lost, preference, recorded, sync>>
    BY <1>12 DEF Publish, Refresh, vars, disk
  <2>2. CASE Busy
    <3>1. Emptied(sync')
      BY <2>1, <2>2 DEF Mods, SyncInv
    <3> QED
      BY <1>1, <2>1, <2>2, <3>1, StepOther
  <2>3. CASE ~Busy
    <3>1. ~Busy'
      BY <2>1, <2>3 DEF Busy
    <3> QED
      BY <1>1, <2>1, <3>1, StepIdle
  <2> QED
    BY <2>2, <2>3
<1> QED
  BY <1>2, <1>3, <1>4, <1>5, <1>6, <1>7, <1>8, <1>9, <1>10, <1>11, <1>12 DEF Next, Launcher, User

\* They hold at first.
LEMMA ModsInit == Init => Mods
<1> SUFFICES ASSUME Init PROVE Mods
  OBVIOUS
<1>1. Typed
  BY TypedInit
<1>2. RecordInv
  <2>1. Entries(recorded) = Nothing
    BY DEF Init, Entries
  <2>2. \A id \in Mod : Local(mods, id) = {}
    BY DEF Init, Local
  <2> QED
    BY <2>1, <2>2 DEF Init, RecordInv, Followed, OneJarEach, CacheTells, Nothing
<1>3. SyncInv
  BY DEF Init, SyncInv, Busy
<1> QED
  BY <1>1, <1>2, <1>3 DEF Mods

\* The record is replaced once the plan is done.
LEMMA DoneAsPublished ==
    ASSUME NamesTell, HashesChecked, Mods, Typed', RenameRecord
    PROVE  ModsAsPublished'
<1>1. /\ Busy /\ sync.phase = "rename" /\ sync \in Sync /\ In("rename") /\ mods \in ModDir
  BY Meant DEF RenameRecord, In, Mods, Typed, TypeOK
<1>2. /\ sync'.phase = "report" /\ sync'.known = sync.known /\ sync'.meta = sync.meta
      /\ sync'.cause = sync.cause /\ sync'.force = sync.force /\ sync'.quiet = sync.quiet
      /\ sync'.undone = sync.undone
  BY <1>1 DEF RenameRecord, Goto, Sync
<1>3. UNCHANGED <<preference, mods, cache>>
  BY DEF RenameRecord
<1>4. Terms' = Terms /\ Now' = Now
  BY <1>2, <1>3, TermsKept
<1>5. /\ View'.manifest = Terms.manifest /\ View'.previous = Terms.previous /\ View'.cause = Terms.cause
      /\ View'.force = Terms.force /\ View'.preference = Terms.preference
  BY <1>2, <1>3 DEF View, ModView, Terms, Now, Entries
<1>6. /\ Normal(View') = Normal(Terms) /\ On(View') = On(Terms)
      /\ DeltaGone(View') = DeltaGone(Terms) /\ Allowed(View') = Allowed(Terms)
      /\ Before(View') = Before(Terms) /\ AsDelta(View') = AsDelta(Terms)
      /\ \A id : Target(View', id) = Target(Terms, id) /\ Changed(View', id) = Changed(Terms, id)
  <2> HIDE DEF View
  <2> QED
    BY <1>5, SameTerms
<1>7. ASSUME NEW id \in DOMAIN Now.entries
      PROVE  /\ InPlace(id)' <=> mods[Target(Terms, id)] = Terms.manifest.entries[id].build
             /\ Alone(id)' <=> Local(mods, id) \subseteq {Target(Terms, id)}
  <2>1. InPlace(id)' <=> InPlace(id)
    BY <1>3, <1>4 DEF InPlace, Differs
  <2>2. Alone(id)' <=> Alone(id)
    BY <1>3, <1>4 DEF Alone
  <2>3. Terms.manifest = Now
    BY DEF Terms
  <2>4. InPlace(id) <=> mods[Now.entries[id].jar] = Now.entries[id].build
    BY <1>1, InPlaceMeans DEF Mods, Typed
  <2> QED
    BY <2>1, <2>2, <2>3, <2>4 DEF Alone, Target
<1>8. Sound(Terms) /\ Terms.manifest = Now
  BY <1>1, TermsSound DEF Mods, Typed
<1>9. Normal(Terms) \cup On(Terms) \subseteq DOMAIN Now.entries
  BY <1>8, Kinds DEF Published, On, Switched
<1>10. ASSUME sync.cause = "update", sync.quiet
       PROVE  /\ \A id \in Normal(Terms) :
                    /\ mods[Target(Terms, id)] = Terms.manifest.entries[id].build
                       \/ (AsDelta(Terms) /\ id \in sync.undone)
                    /\ \/ Local(mods, id) \subseteq {Target(Terms, id)}
                       \/ AsDelta(Terms) /\ (id \in sync.undone \/ id \notin Before(Terms))
              /\ \A id \in On(Terms) :
                    /\ \/ mods[Target(Terms, id)] = Terms.manifest.entries[id].build
                       \/ Unchecked(Terms, id) /\ cache[Target(Terms, id)] = Absent
                    /\ \/ Local(mods, id) \subseteq {Target(Terms, id)}
                       \/ /\ AsDelta(Terms)
                          /\ id \in sync.undone \/ id \notin Before(Terms) \/ Changed(Terms, id)
              /\ \A id \in DeltaGone(Terms) : Local(mods, id) = {}
              /\ AsDelta(Terms) \/ Recognized(mods) \subseteq Allowed(Terms)
  <2>1. ShouldRun(Terms)
    BY <1>10 DEF ShouldRun, Terms
  <2>2. ~In("report") /\ sync.deletes = {} /\ sync.tasks = {} /\ sync.links = {}
    BY <1>1 DEF In, Mods, SyncInv, Emptied
  <2>3. PlanFit(Terms, sync, mods, cache, Disturbed) /\ sync.undone \subseteq Disturbed
        /\ OneJarEach(mods, Disturbed)
    BY <1>1, <2>1, <2>2 DEF Mods, SyncInv, RecordInv
  <2> QED
    BY <1>1, <1>8, <1>10, <2>2, <2>3, PlanDone
<1>11. /\ Normal(View)' = Normal(Terms) /\ On(View)' = On(Terms)
       /\ DeltaGone(View)' = DeltaGone(Terms) /\ Allowed(View)' = Allowed(Terms)
       /\ Before(View)' = Before(Terms) /\ AsDelta(View)' = AsDelta(Terms)
       /\ \A id : Target(View, id)' = Target(Terms, id) /\ Changed(View, id)' = Changed(Terms, id)
  BY <1>6
<1> HIDE DEF Terms
<1> SUFFICES ASSUME Updated'
             PROVE  /\ \A id \in Normal(Terms) :
                          /\ InPlace(id)' \/ (AsDelta(Terms) /\ id \in sync.undone)
                          /\ Alone(id)'
                             \/ (AsDelta(Terms) /\ (id \in sync.undone \/ id \notin Before(Terms)))
                    /\ \A id \in On(Terms) :
                          \/ InPlace(id)'
                          \/ /\ AsDelta(Terms) /\ id \in Before(Terms) /\ ~Changed(Terms, id)
                             /\ cache[Target(Terms, id)] = Absent
                    /\ \A id \in On(Terms) :
                          \/ Alone(id)'
                          \/ /\ AsDelta(Terms)
                             /\ id \in sync.undone \/ id \notin Before(Terms) \/ Changed(Terms, id)
                    /\ \A id \in DeltaGone(Terms) : Local(mods, id) = {}
                    /\ AsDelta(Terms) \/ Recognized(mods) \subseteq Allowed(Terms)
  BY <1>2, <1>3, <1>11 DEF ModsAsPublished, Undone
<1>12. sync.cause = "update" /\ sync.quiet
  BY <1>2 DEF Updated
<1> QED
  BY <1>7, <1>9, <1>10, <1>12 DEF Unchecked

\* The mods stay as published until the sync has reported.
LEMMA StillAsPublished ==
    ASSUME Mods, ModsAsPublished, [Next]_vars, ~RenameRecord
    PROVE  ModsAsPublished'
<1> SUFFICES ASSUME Updated' PROVE ModsAsPublished'
  BY DEF ModsAsPublished
<1>1. ~\E cause \in {"update", "run"}, force \in BOOLEAN : Start(cause, force)
  BY DEF Start, Planned, Updated, In
<1>2. ~\E id \in OptionalSet, on \in BOOLEAN : SwitchSet(id, on)
  BY DEF SwitchSet, Updated, In, Busy
<1>3. ~Report /\ ~Stop
  BY DEF Report, Stop, Updated, In, Busy
<1>4. ~Edit
  <2>1. CASE Busy
    <3>1. sync \in Sync
      BY <2>1, Meant DEF Mods, Typed
    <3> QED
      BY <2>1, <3>1 DEF Edit, Sync, Updated
  <2>2. CASE ~Busy
    BY <2>2 DEF Edit, Updated, In, Busy
  <2> QED
    BY <2>1, <2>2
<1>5. CASE Publish \/ Refresh \/ UNCHANGED vars
  <2>1. UNCHANGED <<mods, cache, preference, recorded, sync>>
    BY <1>5 DEF Publish, Refresh, vars, disk
  <2>2. View' = View /\ Now' = Now
    BY <2>1 DEF View, ModView, Now, Entries
  <2>3. /\ Normal(View)' = Normal(View) /\ On(View)' = On(View)
        /\ DeltaGone(View)' = DeltaGone(View) /\ Allowed(View)' = Allowed(View)
        /\ Before(View)' = Before(View) /\ AsDelta(View)' = AsDelta(View)
        /\ \A id : Target(View, id)' = Target(View, id) /\ Changed(View, id)' = Changed(View, id)
    BY <2>2
  <2>4. \A id : InPlace(id)' = InPlace(id) /\ Alone(id)' = Alone(id) /\ Undone(id)' = Undone(id)
    BY <2>1, <2>2 DEF InPlace, Differs, Alone, Undone
  <2>5. Updated
    BY <2>1 DEF Updated, In, Busy
  <2> HIDE DEF View
  <2> QED
    BY <2>1, <2>3, <2>4, <2>5 DEF ModsAsPublished
<1>6. CASE Launcher
  <2>1. Busy /\ sync \in Sync
    <3>1. Busy
      BY <1>3, <1>6 DEF Launcher, Delete, Check, Download, Downloaded, Link, AllLinked, OpenConfig,
          WriteConfig,
        MarkDirs, SkipNatives, ClearNatives, NativesCleared, Extract, RemoveNative, MarkNatives,
              RemoveRecord, RenameRecord, In
    <3> QED
      BY <3>1, Meant DEF Mods, Typed
  <2>2. ~Delete /\ ~Check /\ ~Download /\ ~Link /\ ~OpenConfig /\ ~WriteConfig
    BY <2>1, PhaseAfter DEF Mods, Updated, In
  <2>3. ~Extract /\ ~RemoveNative
    BY DEF Extract, RemoveNative, Updated, In
  <2>4. ~Downloaded /\ ~AllLinked /\ ~MarkDirs /\ ~SkipNatives /\ ~ClearNatives
                    /\ ~NativesCleared /\ ~MarkNatives /\ ~RemoveRecord
    BY <2>1, PhaseAfter DEF Mods, Updated, In, Downloaded, AllLinked, MarkDirs, SkipNatives,
        ClearNatives, NativesCleared,
       MarkNatives, RemoveRecord, Phase
  <2> QED
    BY <1>3, <1>6, <2>2, <2>3, <2>4 DEF Launcher
<1> QED
  BY <1>1, <1>2, <1>3, <1>4, <1>5, <1>6 DEF Next, User, EditMods, EditFiles, RemoveDir

\* After an update that nobody interferes with, the mods are those published, whatever
\* releases, edits, switches and ends of earlier syncs came before: where names tell builds
\* apart, contents are compared, and launches happen only as the interface offers them.
\* ModsAsPublished names what a delta does not put right, the old jar of an optional mod
\* among it.
THEOREM ModsAreAsPublished ==
    ASSUME NamesTell, HashesChecked, Careful
    PROVE  Spec => []ModsAsPublished
<1>1. Init => Mods /\ ModsAsPublished
  <2>1. Init => ModsAsPublished
    BY DEF Init, ModsAsPublished, Updated, In, Busy
  <2> QED
    BY <2>1, ModsInit
<1>2. Mods /\ ModsAsPublished /\ [Next]_vars => Mods' /\ ModsAsPublished'
  <2> SUFFICES ASSUME Mods, ModsAsPublished, [Next]_vars PROVE Mods' /\ ModsAsPublished'
    OBVIOUS
  <2>1. Mods'
    BY ModsStep
  <2>2. ModsAsPublished'
    BY <2>1, DoneAsPublished, StillAsPublished DEF Mods
  <2> QED
    BY <2>1, <2>2
<1> QED
  BY <1>1, <1>2, PTL DEF Spec

-----------------------------------------------------------------------------
(***************************************************************************)
(* The files of an update. Within a sync, each file the rules supply is    *)
(* there as they say, or is going to be; whatever the rules want deleted   *)
(* is gone, or is going to be.                                             *)
(***************************************************************************)

\* No rule publishes a marker: the sync writes it.  The instance TLC checks is one of these.
MarkersApart ==
    \A m \in Release : \A n \in DOMAIN Meta[m].rules : \A d \in Dir : Marker[d] \notin Objects(Meta[m].rules[n])

\* The rules the property is about: applied by every update, whatever was applied before.
Standing(rules) == {n \in DOMAIN rules : rules[n].kind # "options" /\ rules[n].version = 0 /\ ~rules[n].skip}

\* The files a rule is about.
About(rules, n) == IF rules[n].kind = "options" THEN {rules[n].at} ELSE Objects(rules[n])

\* A file of a standing rule that is in the directory of a rule before it is published by
\* that rule too, or by one before it that is never skipped: it is not deleted as extra.
\* The instance TLC checks is one of these.
SuppliesKept ==
    \A m \in Release :
        LET rules == Meta[m].rules
        IN  \A n \in Standing(rules) : \A k \in 1 .. n - 1 :
               rules[k].kind = "dir" =>
                  \A f \in Objects(rules[n]) \cap Under[rules[k].at] :
                     \E j \in 1 .. k : rules[j].kind # "options" /\ (rules[j].skip => j = k) /\ f \in Objects(rules[j])

\* The directories a file is in are there, and those a directory is in.
DirsHold(fs, ds) ==
    /\ \A f \in File : fs[f] # NoFile => Parents(f) \subseteq ds
    /\ \A d \in ds, e \in Dir : Under[d] \subseteq Under[e] => e \in ds

\* A file is going to be checked, or downloaded.
Asked(s, f) == <<"file", f>> \in s.tasks

\* The parts of a plan for the files.  s is the sync, fs the files, sh the resources.
\* What is asked for is what a rule publishes.
TasksTell(rules, s) ==
    \A f \in File : Asked(s, f) =>
        \E k \in DOMAIN rules : f \in Objects(rules[k]) /\ s.objects[f] = rules[k].objects[f]

\* A file of a standing rule is asked for, or is there and stays.
Supplied(rules, s, fs) ==
    \A n \in Standing(rules) : \A f \in Objects(rules[n]) : Asked(s, f) \/ (fs[f] # NoFile /\ f \notin s.deletes)

\* If the rule overwrites it, and no other is about it, it is asked for or as published.
Overwritten(rules, s, fs) ==
    \A n \in Standing(rules) : \A f \in Objects(rules[n]) :
        \/ Asked(s, f)
        \/ fs[f] = rules[n].objects[f] /\ f \notin s.deletes
        \/ ~rules[n].overwrite
        \/ \E k \in DOMAIN rules : f \in About(rules, k) /\ k # n

\* An extra file is going to be deleted, belongs to a rule, or is a marker.
ExtrasGone(rules, s, fs) ==
    \A n \in Standing(rules) : rules[n].kind = "dir" /\ rules[n].extra =>
        \A f \in Under[rules[n].at] :
            fs[f] # NoFile => \/ f \in s.deletes
                              \/ \E k \in DOMAIN rules : f \in About(rules, k)
                              \/ \E d \in Dir : f = Marker[d]

\* A resource is there, or asked for.
ResourcesFit(meta, s, sh) == \A x \in meta.resources : x \in sh \/ <<"resource", x>> \in s.tasks

\* The plan fits the release and what is on the disk.
FilesFit(meta, s, fs, sh) ==
    /\ ResourcesFit(meta, s, sh) /\ TasksTell(meta.rules, s)
    /\ Supplied(meta.rules, s, fs) /\ Overwritten(meta.rules, s, fs) /\ ExtrasGone(meta.rules, s, fs)

\* The contents for the file that is open are there.
OpenFit == Busy /\ sync.open => sync.objects[Now.rules[NextPatch].at] # NoFile

\* While an update that nobody interferes with is under way, its plan for the files fits.
UpdateFits == Busy /\ sync.cause = "update" /\ sync.quiet => FilesFit(Now, sync, files, shared)

\* What every step keeps.
FilesInv ==
    /\ Typed
    /\ Busy => Emptied(sync)
    /\ DirsHold(files, dirs)
    /\ OpenFit
    /\ UpdateFits

-----------------------------------------------------------------------------
(***************************************************************************)
(* What the steps of a sync leave of the plan for the files.               *)
(***************************************************************************)

\* What a release says of files.
LEMMA RulesSound ==
    ASSUME NEW m \in Release, NEW n \in DOMAIN Meta[m].rules
    PROVE  /\ n \in Nat \ {0} /\ 1 .. n \subseteq DOMAIN Meta[m].rules
           /\ \A f \in Objects(Meta[m].rules[n]) : f \in File /\ Meta[m].rules[n].objects[f] \in Content
           /\ Meta[m].rules[n].kind = "options" => Objects(Meta[m].rules[n]) = {}
           /\ Meta[m].rules[n].at \in (IF Meta[m].rules[n].kind = "dir" THEN Dir ELSE File)
BY MetaAssumption DEF Objects

\* A plan for the files fits as long as nothing of it changes.
LEMMA FitSame ==
    ASSUME NEW meta, NEW s, NEW s2, NEW fs, NEW sh, FilesFit(meta, s, fs, sh),
           s2.deletes = s.deletes, s2.tasks = s.tasks, s2.objects = s.objects
    PROVE  FilesFit(meta, s2, fs, sh)
BY DEF FilesFit, ResourcesFit, TasksTell, Supplied, Overwritten, ExtrasGone, Asked

\* A deletion is done.
LEMMA FitDelete ==
    ASSUME NEW meta, NEW s, NEW s2, NEW fs \in FileDir, NEW fs2, NEW sh, FilesFit(meta, s, fs, sh),
           NEW path \in s.deletes, s2.deletes = s.deletes \ {path},
           \A f \in File : fs2[f] = IF f = path THEN NoFile ELSE fs[f],
           \A n \in DOMAIN meta.rules : Objects(meta.rules[n]) \subseteq File,
           \A d \in Dir : Under[d] \subseteq File,
           \A n \in DOMAIN meta.rules : meta.rules[n].kind = "dir" => meta.rules[n].at \in Dir,
           s2.tasks = s.tasks, s2.objects = s.objects
    PROVE  FilesFit(meta, s2, fs2, sh)
<1>1. ResourcesFit(meta, s2, sh) /\ TasksTell(meta.rules, s2)
  BY DEF FilesFit, ResourcesFit, TasksTell, Asked
<1>2. Supplied(meta.rules, s2, fs2)
  BY DEF FilesFit, Supplied, Asked, Standing
<1>3. ExtrasGone(meta.rules, s2, fs2)
  BY DEF FilesFit, ExtrasGone, Standing
<1>4. Overwritten(meta.rules, s2, fs2)
  BY DEF FilesFit, Overwritten, Asked, Standing
<1> QED
  BY <1>1, <1>2, <1>3, <1>4 DEF FilesFit

\* What was checked, or downloaded, is there.
LEMMA FitWork ==
    ASSUME NEW meta, NEW s, NEW s2, NEW fs \in FileDir, NEW fs2, NEW sh, NEW sh2, FilesFit(meta, s, fs, sh),
           \A n \in DOMAIN meta.rules : \A f \in Objects(meta.rules[n]) :
              f \in File /\ meta.rules[n].objects[f] \in Content,
           \A n \in DOMAIN meta.rules : meta.rules[n].kind = "options" => Objects(meta.rules[n]) = {},
           \A n \in DOMAIN meta.rules : meta.rules[n].kind = "dir" => meta.rules[n].at \in Dir,
           s.deletes = {}, s2.deletes = {}, s2.tasks \subseteq s.tasks, s2.objects = s.objects,
           \A f \in File : fs2[f] = fs[f] \/ (Asked(s, f) /\ fs2[f] = s.objects[f]),
           \A f \in File : Asked(s, f) => Asked(s2, f) \/ fs2[f] = s.objects[f],
           \A x : <<"resource", x>> \in s.tasks => <<"resource", x>> \in s2.tasks \/ x \in sh2,
           sh \subseteq sh2
    PROVE  FilesFit(meta, s2, fs2, sh2)
<1>1. ResourcesFit(meta, s2, sh2)
  BY DEF FilesFit, ResourcesFit
<1>2. TasksTell(meta.rules, s2)
  BY DEF FilesFit, TasksTell, Asked
<1>3. ASSUME NEW f \in File, Asked(s, f)
      PROVE  \E k \in DOMAIN meta.rules : /\ f \in Objects(meta.rules[k]) /\ s.objects[f] = meta.rules[k].objects[f]
                                          /\ f \in About(meta.rules, k) /\ s.objects[f] # NoFile
  <2>1. PICK k \in DOMAIN meta.rules : f \in Objects(meta.rules[k]) /\ s.objects[f] = meta.rules[k].objects[f]
    BY <1>3 DEF FilesFit, TasksTell
  <2>2. meta.rules[k].kind # "options" /\ meta.rules[k].objects[f] \in Content
    BY <2>1
  <2>3. f \in About(meta.rules, k)
    BY <2>1, <2>2 DEF About
  <2>4. s.objects[f] # NoFile
    BY <2>1, <2>2, RuleAssumption
  <2> QED
    BY <2>1, <2>3, <2>4
<1>4. Supplied(meta.rules, s2, fs2)
  <2> SUFFICES ASSUME NEW n \in Standing(meta.rules), NEW f \in Objects(meta.rules[n]), ~Asked(s2, f)
               PROVE  fs2[f] # NoFile
    BY DEF Supplied
  <2>1. f \in File
    BY DEF Standing
  <2>2. CASE Asked(s, f)
    BY <1>3, <2>1, <2>2
  <2>3. CASE ~Asked(s, f)
    BY <2>1, <2>3 DEF FilesFit, Supplied
  <2> QED
    BY <2>2, <2>3
<1>5. Overwritten(meta.rules, s2, fs2)
  <2> SUFFICES ASSUME NEW n \in Standing(meta.rules), NEW f \in Objects(meta.rules[n]), ~Asked(s2, f),
                      meta.rules[n].overwrite, \A k \in DOMAIN meta.rules : f \in About(meta.rules, k) => k = n
               PROVE  fs2[f] = meta.rules[n].objects[f]
    BY DEF Overwritten
  <2>1. f \in File
    BY DEF Standing
  <2>2. Asked(s, f) => s.objects[f] = meta.rules[n].objects[f]
    BY <1>3, <2>1
  <2>3. ~Asked(s, f) => fs[f] = meta.rules[n].objects[f]
    BY DEF FilesFit, Overwritten
  <2> QED
    BY <2>1, <2>2, <2>3
<1>6. ExtrasGone(meta.rules, s2, fs2)
  <2> SUFFICES ASSUME NEW n \in Standing(meta.rules), meta.rules[n].kind = "dir", meta.rules[n].extra,
                      NEW f \in Under[meta.rules[n].at], fs2[f] # NoFile
               PROVE  \/ \E k \in DOMAIN meta.rules : f \in About(meta.rules, k)
                      \/ \E d \in Dir : f = Marker[d]
    BY DEF ExtrasGone
  <2>1. f \in File
    BY RuleAssumption DEF Standing
  <2>2. CASE fs2[f] = fs[f]
    BY <2>2 DEF FilesFit, ExtrasGone
  <2>3. CASE Asked(s, f)
    BY <1>3, <2>1, <2>3
  <2> QED
    BY <2>1, <2>2, <2>3
<1> QED
  BY <1>1, <1>2, <1>4, <1>5, <1>6 DEF FilesFit

\* Options are set, directories marked.
LEMMA FitSet ==
    ASSUME NEW meta, NEW s, NEW s2, NEW fs, NEW fs2, NEW sh, FilesFit(meta, s, fs, sh),
           \A n \in DOMAIN meta.rules : \A f \in Objects(meta.rules[n]) : f \in File,
           \A n \in DOMAIN meta.rules : \A d \in Dir : Marker[d] \notin Objects(meta.rules[n]),
           \A n \in DOMAIN meta.rules : meta.rules[n].kind = "dir" => meta.rules[n].at \in Dir,
           s.deletes = {}, s2.deletes = {}, s.tasks = {}, s2.tasks = {},
           \A f \in File : \/ fs2[f] = fs[f]
                           \/ /\ fs2[f] # NoFile
                              /\ \/ \E k \in DOMAIN meta.rules : meta.rules[k].kind = "options" /\ meta.rules[k].at = f
                                 \/ \E d \in Dir : f = Marker[d]
    PROVE  FilesFit(meta, s2, fs2, sh)
<1>1. ResourcesFit(meta, s2, sh) /\ TasksTell(meta.rules, s2)
  BY DEF FilesFit, ResourcesFit, TasksTell, Asked
<1>2. Supplied(meta.rules, s2, fs2)
  <2> SUFFICES ASSUME NEW n \in Standing(meta.rules), NEW f \in Objects(meta.rules[n])
               PROVE  fs2[f] # NoFile
    BY DEF Supplied
  <2>1. f \in File /\ fs[f] # NoFile
    BY DEF FilesFit, Supplied, Standing, Asked
  <2> QED
    BY <2>1
<1>3. Overwritten(meta.rules, s2, fs2)
  <2> SUFFICES ASSUME NEW n \in Standing(meta.rules), NEW f \in Objects(meta.rules[n]),
                      meta.rules[n].overwrite, \A k \in DOMAIN meta.rules : f \in About(meta.rules, k) => k = n
               PROVE  fs2[f] = meta.rules[n].objects[f]
    BY DEF Overwritten
  <2>1. n \in DOMAIN meta.rules /\ meta.rules[n].kind # "options" /\ f \in File
    BY DEF Standing
  <2>2. fs[f] = meta.rules[n].objects[f]
    BY DEF FilesFit, Overwritten, Asked
  <2>3. \A k \in DOMAIN meta.rules : meta.rules[k].kind = "options" => meta.rules[k].at # f
    BY <2>1 DEF About
  <2>4. \A d \in Dir : f # Marker[d]
    BY <2>1
  <2> QED
    BY <2>1, <2>2, <2>3, <2>4
<1>4. ExtrasGone(meta.rules, s2, fs2)
  <2> SUFFICES ASSUME NEW n \in Standing(meta.rules), meta.rules[n].kind = "dir", meta.rules[n].extra,
                      NEW f \in Under[meta.rules[n].at], fs2[f] # NoFile
               PROVE  \/ \E k \in DOMAIN meta.rules : f \in About(meta.rules, k)
                      \/ \E d \in Dir : f = Marker[d]
    BY DEF ExtrasGone
  <2>1. f \in File
    BY RuleAssumption DEF Standing
  <2>2. CASE fs2[f] = fs[f]
    BY <2>2 DEF FilesFit, ExtrasGone
  <2>3. CASE \E k \in DOMAIN meta.rules : meta.rules[k].kind = "options" /\ meta.rules[k].at = f
    BY <2>3 DEF About
  <2> QED
    BY <2>1, <2>2, <2>3
<1> QED
  BY <1>1, <1>2, <1>3, <1>4 DEF FilesFit

\* What an update begins with.
LEMMA FitStart ==
    ASSUME MarkersApart, SuppliesKept, NEW m \in Release, NEW r, r.rules = Meta[m].rules, r.cause = "update",
           r.files \in FileDir, r.dirs \subseteq Dir, DirsHold(r.files, r.dirs),
           NEW s, NEW others, others \cap File = {}, s.deletes = others \cup FileDeletes(r),
           \A f \in File : Asked(s, f) <=> f \in DOMAIN FileChecks(r),
           \A f \in DOMAIN FileChecks(r) : s.objects[f] = FileChecks(r)[f],
           \A x \in Meta[m].resources : <<"resource", x>> \in s.tasks, NEW sh
    PROVE  FilesFit(Meta[m], s, r.files, sh)
<1> DEFINE rules == Meta[m].rules
<1>1. /\ \A n \in DOMAIN rules :
            /\ n \in Nat \ {0} /\ 1 .. n \subseteq DOMAIN rules
            /\ \A f \in Objects(rules[n]) : f \in File
            /\ rules[n].at \in (IF rules[n].kind = "dir" THEN Dir ELSE File)
      /\ r.rules = rules
  BY RulesSound
<1>2. \A n \in Standing(rules) : \A k \in 1 .. n - 1 : rules[k].kind = "dir" =>
          \A f \in Objects(rules[n]) \cap Under[rules[k].at] :
             \E j \in 1 .. k : rules[j].kind # "options" /\ (rules[j].skip => j = k) /\ f \in Objects(rules[j])
  BY DEF SuppliesKept
<1>3. ResourcesFit(Meta[m], s, sh)
  BY DEF ResourcesFit
<1> HIDE DEF rules
<1>4. Standing(rules) \subseteq Applied(r)
  BY <1>1 DEF Standing, Applied, Runs, Due, Completed
<1>5. \A k \in DOMAIN rules : rules[k].kind # "options" /\ ~rules[k].skip => Keeps(r, k) = Objects(rules[k])
  BY <1>1 DEF Keeps, Runs, Completed
<1>6. \A n \in Applied(r) : n \in DOMAIN rules /\ \A f \in Included(r, n) : f \in Objects(rules[n]) /\ f \in DOMAIN FileChecks(r)
  <2> SUFFICES ASSUME NEW n \in Applied(r), NEW f \in Included(r, n)
               PROVE  n \in DOMAIN rules /\ f \in Objects(rules[n]) /\ f \in DOMAIN FileChecks(r)
    BY <1>1 DEF Applied
  <2>1. n \in DOMAIN rules /\ f \in Objects(rules[n])
    BY <1>1 DEF Applied, Included
  <2>2. n \in Publishers(r, f) /\ f \in File
    BY <1>1, <2>1 DEF Publishers
  <2> QED
    BY <2>1, <2>2 DEF FileChecks
<1>7. TasksTell(rules, s)
  <2> SUFFICES ASSUME NEW f \in File, f \in DOMAIN FileChecks(r)
               PROVE  \E k \in DOMAIN rules : f \in Objects(rules[k]) /\ s.objects[f] = rules[k].objects[f]
    BY DEF TasksTell
  <2> DEFINE first == CHOOSE n \in Publishers(r, f) : \A k \in Publishers(r, f) : n <= k
  <2>1. Publishers(r, f) # {}
    BY DEF FileChecks
  <2>2. Publishers(r, f) \subseteq Applied(r) /\ Applied(r) \subseteq Nat
    BY <1>1 DEF Publishers, Applied
  <2>3. first \in Publishers(r, f)
    BY <2>1, <2>2, Least
  <2>4. FileChecks(r)[f] = rules[first].objects[f]
    BY <1>1, <2>1 DEF FileChecks
  <2> HIDE DEF first
  <2>5. first \in DOMAIN rules /\ f \in Objects(rules[first])
    BY <1>6, <2>3 DEF Publishers
  <2> QED
    BY <2>4, <2>5
<1>8. Supplied(rules, s, r.files)
  <2> SUFFICES ASSUME NEW n \in Standing(rules), NEW f \in Objects(rules[n]), ~Asked(s, f)
               PROVE  r.files[f] # NoFile /\ f \notin s.deletes
    BY DEF Supplied
  <2>1. n \in DOMAIN rules /\ n \in Applied(r) /\ f \in File /\ n \in Nat /\ rules[n].kind # "options" /\ ~rules[n].skip
    BY <1>1, <1>4 DEF Standing
  <2>2. f \notin Included(r, n)
    BY <1>6, <2>1
  <2>3. r.files[f] # NoFile
    BY <1>1, <2>2 DEF Included
  <2>4. ASSUME NEW k \in Applied(r), f \in Extra(r, k)
        PROVE  FALSE
    <3>1. k \in DOMAIN rules /\ k \in Nat /\ rules[k].kind = "dir" /\ f \in Under[rules[k].at] /\ f \notin Seen(r, k)
      BY <1>1, <2>4 DEF Extra, Applied
    <3>2. \A j \in 1 .. k : f \notin Keeps(r, j)
      BY <3>1 DEF Seen
    <3>3. CASE n <= k
      BY <1>1, <1>5, <2>1, <3>1, <3>2, <3>3
    <3>4. CASE k < n
      <4>1. k \in 1 .. n - 1
        BY <1>1, <2>1, <3>1, <3>4
      <4>2. PICK j \in 1 .. k : rules[j].kind # "options" /\ (rules[j].skip => j = k) /\ f \in Objects(rules[j])
        BY <1>2, <3>1, <4>1
      <4>3. j \in DOMAIN rules
        BY <1>1, <3>1
      <4>4. Keeps(r, j) = Objects(rules[j])
        <5>1. CASE rules[j].skip
          BY <1>1, <2>4, <4>2, <4>3, <5>1 DEF Applied, Keeps
        <5>2. CASE ~rules[j].skip
          BY <1>5, <4>2, <4>3, <5>2
        <5> QED
          BY <5>1, <5>2
      <4> QED
        BY <3>2, <4>2, <4>4
    <3> QED
      BY <2>1, <3>1, <3>3, <3>4
  <2>5. f \notin FileDeletes(r)
    BY <2>4 DEF FileDeletes
  <2> QED
    BY <2>1, <2>3, <2>5
<1>9. Overwritten(rules, s, r.files)
  <2> SUFFICES ASSUME NEW n \in Standing(rules), NEW f \in Objects(rules[n]), rules[n].overwrite
               PROVE  Asked(s, f)
    BY DEF Overwritten
  <2>1. f \in Included(r, n) /\ n \in Applied(r) /\ f \in File
    BY <1>1, <1>4 DEF Included, Standing
  <2> QED
    BY <1>6, <2>1
<1>10. ExtrasGone(rules, s, r.files)
  <2> SUFFICES ASSUME NEW n \in Standing(rules), rules[n].kind = "dir", rules[n].extra,
                      NEW f \in Under[rules[n].at], r.files[f] # NoFile, f \notin FileDeletes(r)
               PROVE  \E k \in DOMAIN rules : f \in About(rules, k)
    BY DEF ExtrasGone
  <2>1. n \in DOMAIN rules /\ n \in Applied(r) /\ rules[n].at \in Dir
    BY <1>1, <1>4 DEF Standing
  <2>2. f \in File
    BY <2>1, RuleAssumption
  <2>3. rules[n].at \in r.dirs
    BY <2>1, <2>2 DEF DirsHold, Parents
  <2>4. f \notin Extra(r, n)
    BY <2>1 DEF FileDeletes
  <2>5. f \in Seen(r, n)
    BY <1>1, <2>3, <2>4 DEF Extra
  <2>6. PICK k \in 1 .. n : f \in Keeps(r, k)
    BY <2>5 DEF Seen
  <2>7. k \in DOMAIN rules /\ rules[k].kind # "options" /\ f \in Objects(rules[k])
    BY <1>1, <2>1, <2>6 DEF Keeps
  <2> QED
    BY <2>7 DEF About
<1> QED
  BY <1>3, <1>7, <1>8, <1>9, <1>10 DEF FilesFit, rules

-----------------------------------------------------------------------------
(***************************************************************************)
(* The steps.                                                              *)
(***************************************************************************)

\* A sync that goes on.
LEMMA GoesOn ==
    ASSUME FilesInv, Busy
    PROVE  /\ sync \in Sync /\ sync.meta \in Release /\ sync.objects \in FileDir /\ files \in FileDir
           /\ Delete => /\ sync'.phase = "delete" /\ sync'.tasks = sync.tasks
           /\ Check => /\ sync'.phase = "download" /\ sync'.deletes = {} /\ sync.deletes = {}
                       /\ sync'.tasks = {task \in sync.tasks : Outdated(task)}
           /\ Download => /\ sync.phase = "download" /\ sync'.phase = "download" /\ sync.deletes = {}
                          /\ sync'.deletes = {} /\ sync'.tasks \subseteq sync.tasks
           /\ Delete \/ Check \/ Download =>
                /\ sync'.meta = sync.meta /\ sync'.cause = sync.cause /\ sync'.quiet = sync.quiet
                /\ sync'.objects = sync.objects /\ sync'.patches = sync.patches /\ sync'.open = sync.open
<1>1. sync \in Sync /\ sync.meta \in Release /\ sync.objects \in FileDir /\ files \in FileDir
  BY Meant DEF FilesInv, Typed, TypeOK, Sync
<1>2. Delete => /\ sync'.phase = "delete" /\ sync'.tasks = sync.tasks
                /\ sync'.meta = sync.meta /\ sync'.cause = sync.cause /\ sync'.quiet = sync.quiet
                /\ sync'.objects = sync.objects /\ sync'.patches = sync.patches /\ sync'.open = sync.open
  BY <1>1 DEF Delete, In, Sync
<1>3. Check => /\ sync'.phase = "download" /\ sync'.deletes = {} /\ sync.deletes = {}
               /\ sync'.tasks = {task \in sync.tasks : Outdated(task)}
               /\ sync'.meta = sync.meta /\ sync'.cause = sync.cause /\ sync'.quiet = sync.quiet
               /\ sync'.objects = sync.objects /\ sync'.patches = sync.patches /\ sync'.open = sync.open
  BY <1>1 DEF Check, In, Sync
<1>4. Download => /\ sync.phase = "download" /\ sync'.phase = "download" /\ sync.deletes = {}
                  /\ sync'.deletes = {} /\ sync'.tasks \subseteq sync.tasks
                  /\ sync'.meta = sync.meta /\ sync'.cause = sync.cause /\ sync'.quiet = sync.quiet
                  /\ sync'.objects = sync.objects /\ sync'.patches = sync.patches /\ sync'.open = sync.open
  BY <1>1 DEF Download, In, Sync, FilesInv, Emptied
<1> QED
  BY <1>1, <1>2, <1>3, <1>4

\* What a release says of files, for the sync under way.
LEMMA NowSound ==
    ASSUME FilesInv, Busy
    PROVE  /\ \A n \in DOMAIN Now.rules : \A f \in Objects(Now.rules[n]) :
                 f \in File /\ Now.rules[n].objects[f] \in Content
           /\ \A n \in DOMAIN Now.rules : Now.rules[n].kind = "options" => Objects(Now.rules[n]) = {}
           /\ \A n \in DOMAIN Now.rules : Now.rules[n].kind = "dir" => Now.rules[n].at \in Dir
           /\ MarkersApart => \A n \in DOMAIN Now.rules : \A d \in Dir : Marker[d] \notin Objects(Now.rules[n])
<1>1. sync.meta \in Release
  BY GoesOn
<1> QED
  BY <1>1, RulesSound DEF Now, MarkersApart

\* Emptied is kept.
LEMMA EmptiedStep ==
    ASSUME FilesInv, [Next]_vars
    PROVE  Busy' => Emptied(sync')
<1> SUFFICES ASSUME Busy' PROVE Emptied(sync')
  OBVIOUS
<1> USE DEF FilesInv
<1>1. CASE Delete
  BY <1>1, GoesOn DEF Delete, In, Emptied
<1>2. CASE Check
  BY <1>2, GoesOn DEF Check, In, Emptied
<1>3. CASE Download
  BY <1>3, GoesOn DEF Download, In, Emptied
<1>4. CASE Link
  <2>1. Busy /\ sync \in Sync /\ sync.phase = "link" /\ sync.deletes = {} /\ sync.tasks = {}
    BY <1>4, GoesOn DEF Link, In, Emptied
  <2>2. sync'.phase = "link" /\ sync'.deletes = {} /\ sync'.tasks = {}
    BY <1>4, <2>1 DEF Link, Sync
  <2> QED
    BY <2>2 DEF Emptied
<1>5. CASE OpenConfig \/ WriteConfig \/ Edit
  <2>1. CASE ~Busy
    BY <1>5, <2>1 DEF OpenConfig, WriteConfig, In, Edit, Busy
  <2>2. CASE Busy
    <3>1. sync \in Sync /\ Emptied(sync)
      BY <2>2, GoesOn
    <3>2. sync'.phase = sync.phase /\ sync'.deletes = sync.deletes /\ sync'.tasks = sync.tasks /\ sync'.links = sync.links
      BY <1>5, <2>2, <3>1 DEF OpenConfig, WriteConfig, Edit, Sync
    <3> QED
      BY <3>1, <3>2 DEF Emptied
  <2> QED
    BY <2>1, <2>2
<1>6. CASE \/ Downloaded \/ AllLinked \/ MarkDirs \/ SkipNatives \/ ClearNatives \/ NativesCleared
           \/ MarkNatives \/ RemoveRecord \/ RenameRecord
  <2>1. Busy
    BY <1>6 DEF Downloaded, AllLinked, MarkDirs, SkipNatives, ClearNatives, NativesCleared,
          MarkNatives, RemoveRecord,
         RenameRecord, In
  <2>2. sync \in Sync /\ Emptied(sync)
    BY <2>1, GoesOn
  <2>3. PICK phase \in Phase : Goto(phase)
    BY <1>6 DEF Downloaded, AllLinked, MarkDirs, SkipNatives, ClearNatives, NativesCleared,
          MarkNatives, RemoveRecord,
         RenameRecord, Phase
  <2>4. sync'.phase = phase /\ sync'.deletes = sync.deletes /\ sync'.tasks = sync.tasks /\ sync'.links = sync.links
    BY <2>2, <2>3 DEF Goto, Sync
  <2>5. CASE Downloaded
    <3>1. sync'.phase = "link" /\ sync.phase = "download" /\ sync.tasks = {}
      BY <2>1, <2>2, <2>5, PhaseAfter DEF Downloaded, In, Phase
    <3> QED
      BY <2>2, <2>4, <3>1 DEF Emptied
  <2>6. CASE AllLinked
    <3>1. sync'.phase = "configure" /\ sync.phase = "link" /\ sync.links = {}
      BY <2>1, <2>2, <2>6, PhaseAfter DEF AllLinked, In, Phase
    <3> QED
      BY <2>2, <2>4, <3>1 DEF Emptied
  <2>7. CASE ~Downloaded /\ ~AllLinked
    <3>1. sync.phase \in {"configure", "natives", "clear", "extract", "record", "rename"}
      BY <1>6, <2>7 DEF MarkDirs, SkipNatives, ClearNatives, NativesCleared, MarkNatives,
            RemoveRecord, RenameRecord, In
    <3> QED
      BY <2>2, <2>4, <3>1 DEF Emptied
  <2> QED
    BY <2>5, <2>6, <2>7
<1>7. CASE Report \/ Stop
  BY <1>7 DEF Report, Stop, Busy
<1>8. CASE \E cause \in {"update", "run"}, force \in BOOLEAN : Start(cause, force)
  <2>1. sync'.phase = "delete"
    BY <1>8 DEF Start, Planned
  <2> QED
    BY <2>1 DEF Emptied
<1>9. CASE \/ Extract \/ RemoveNative
           \/ (\E id \in OptionalSet, on \in BOOLEAN : SwitchSet(id, on)) \/ Publish \/ Refresh
           \/ UNCHANGED vars
  <2>1. sync' = sync
    BY <1>9 DEF Extract, RemoveNative, SwitchSet, Publish, Refresh, vars
  <2> QED
    BY <2>1 DEF Busy
<1>10. CASE EditMods \/ EditFiles \/ RemoveDir
  BY <1>5, <1>10 DEF EditMods, EditFiles, RemoveDir
<1> QED
  BY <1>1, <1>2, <1>3, <1>4, <1>5, <1>6, <1>7, <1>8, <1>9, <1>10 DEF Next, Launcher, User

\* The directories of what is written.
LEMMA DirsWritten ==
    ASSUME NEW fs, NEW fs2, NEW ds \in SUBSET Dir, DirsHold(fs, ds), NEW x \in File,
           \A f \in File : f # x => fs2[f] = fs[f]
    PROVE  DirsHold(fs2, ds \cup Parents(x))
<1>1. \A f \in File : fs2[f] # NoFile => Parents(f) \subseteq ds \cup Parents(x)
  BY DEF DirsHold
<1>2. \A d \in ds \cup Parents(x), e \in Dir : Under[d] \subseteq Under[e] => e \in ds \cup Parents(x)
  BY DEF DirsHold, Parents
<1> QED
  BY <1>1, <1>2 DEF DirsHold

\* They stay as long as no file appears outside of them.
LEMMA DirsKept ==
    ASSUME NEW fs, NEW fs2, NEW ds, DirsHold(fs, ds),
           \A f \in File : fs2[f] # NoFile => fs[f] # NoFile \/ Parents(f) \subseteq ds
    PROVE  DirsHold(fs2, ds)
BY DEF DirsHold

\* DirsHold is kept.
LEMMA DirsStep ==
    ASSUME FilesInv, [Next]_vars
    PROVE  DirsHold(files', dirs')
<1> USE DEF FilesInv
<1>1. files \in FileDir /\ dirs \subseteq Dir
  BY DEF Typed, TypeOK
<1>2. CASE Delete
  <2>1. dirs' = dirs /\ \A f \in File : files'[f] # NoFile => files[f] # NoFile
    BY <1>1, <1>2 DEF Delete, FileDir
  <2> QED
    BY <2>1, DirsKept
<1>3. CASE Download
  <2>1. PICK task \in sync.tasks :
          /\ files' = IF task[1] = "file" THEN [files EXCEPT ![task[2]] = sync.objects[task[2]]] ELSE files
          /\ dirs' = IF task[1] = "file" THEN dirs \cup Parents(task[2]) ELSE dirs
    BY <1>3 DEF Download
  <2>2. CASE task[1] = "file"
    <3>1. task[2] \in File
      BY <1>3, <2>2, TaskKind DEF Download, In
    <3>2. \A f \in File : f # task[2] => files'[f] = files[f]
      BY <1>1, <2>1, <2>2 DEF FileDir
    <3>3. dirs' = dirs \cup Parents(task[2])
      BY <2>1, <2>2
    <3>4. DirsHold(files', dirs \cup Parents(task[2]))
      BY <1>1, <3>1, <3>2, DirsWritten
    <3> QED
      BY <3>3, <3>4
  <2>3. CASE task[1] # "file"
    BY <2>1, <2>3
  <2> QED
    BY <2>2, <2>3
<1>4. CASE OpenConfig
  <2>1. /\ dirs' = dirs /\ Parents(Now.rules[NextPatch].at) \subseteq dirs
        /\ files' = [files EXCEPT ![Now.rules[NextPatch].at] = Torn]
    BY <1>4 DEF OpenConfig
  <2>2. \A f \in File : files'[f] # NoFile => files[f] # NoFile \/ Parents(f) \subseteq dirs
    BY <1>1, <2>1 DEF FileDir
  <2> QED
    BY <2>1, <2>2, DirsKept
<1>5. CASE WriteConfig
  <2>1. dirs' = dirs /\ \A f \in File : files'[f] # NoFile => files[f] # NoFile
    BY <1>1, <1>5 DEF WriteConfig, FileDir
  <2> QED
    BY <2>1, DirsKept
<1>6. CASE MarkDirs
  <2>1. dirs' = dirs
    BY <1>6 DEF MarkDirs
  <2>2. ASSUME NEW f \in File, files'[f] # NoFile, files[f] = NoFile
        PROVE  Parents(f) \subseteq dirs
    <3>1. PICK d \in RuleDirs(Now.rules) \cap dirs : f = Marker[d]
      BY <1>6, <2>2 DEF MarkDirs
    <3>2. d \in Dir
      BY <1>1, <3>1
    <3>3. \A e \in Dir : f \in Under[e] => Under[d] \subseteq Under[e]
      BY <3>1, <3>2, RuleAssumption
    <3> QED
      BY <3>1, <3>3 DEF DirsHold, Parents
  <2> QED
    BY <2>1, <2>2, DirsKept
<1>7. CASE EditFiles
  <2>1. PICK e \in File \X (Content \cup {NoFile}) :
          /\ files' = [files EXCEPT ![e[1]] = e[2]]
          /\ dirs' = IF e[2] = NoFile THEN dirs ELSE dirs \cup Parents(e[1])
    BY <1>7, SyncAssumption DEF EditFiles
  <2>2. CASE e[2] = NoFile
    <3>1. dirs' = dirs /\ \A f \in File : files'[f] # NoFile => files[f] # NoFile
      BY <1>1, <2>1, <2>2 DEF FileDir
    <3> QED
      BY <3>1, DirsKept
  <2>3. CASE e[2] # NoFile
    <3>1. dirs' = dirs \cup Parents(e[1]) /\ e[1] \in File /\ \A f \in File : f # e[1] => files'[f] = files[f]
      BY <1>1, <2>1, <2>3 DEF FileDir
    <3>2. DirsHold(files', dirs \cup Parents(e[1]))
      BY <1>1, <3>1, DirsWritten
    <3> QED
      BY <3>1, <3>2
  <2> QED
    BY <2>2, <2>3
<1>8. CASE RemoveDir
  <2>1. PICK d \in dirs :
          /\ dirs' = dirs \ {b \in Dir : Under[b] \subseteq Under[d]}
          /\ files' = [f \in File |-> IF f \in Under[d] THEN NoFile ELSE files[f]]
    BY <1>8 DEF RemoveDir
  <2>2. \A f \in File : files'[f] # NoFile => files[f] # NoFile /\ f \notin Under[d]
    BY <2>1
  <2>3. \A f \in File : files'[f] # NoFile => Parents(f) \subseteq dirs'
    BY <2>1, <2>2 DEF DirsHold, Parents
  <2>4. \A b \in dirs', e \in Dir : Under[b] \subseteq Under[e] => e \in dirs'
    BY <1>1, <2>1 DEF DirsHold
  <2> QED
    BY <2>3, <2>4 DEF DirsHold
<1>9. CASE \/ Check \/ Downloaded \/ Link \/ AllLinked \/ SkipNatives \/ ClearNatives
           \/ NativesCleared \/ Extract \/ RemoveNative \/ MarkNatives
           \/ RemoveRecord \/ RenameRecord \/ Report \/ Stop \/ Publish \/ Refresh \/ EditMods
           \/ (\E cause \in {"update", "run"}, force \in BOOLEAN : Start(cause, force))
           \/ (\E id \in OptionalSet, on \in BOOLEAN : SwitchSet(id, on)) \/ UNCHANGED vars
  <2>1. files' = files /\ dirs' = dirs
    BY <1>9 DEF Check, Downloaded, Link, AllLinked, SkipNatives, ClearNatives, NativesCleared,
          Extract, RemoveNative, MarkNatives, RemoveRecord,
         RenameRecord, Report, Stop, Publish, Refresh, EditMods, Start, SwitchSet, vars, disk
  <2> QED
    BY <2>1
<1> QED
  BY <1>2, <1>3, <1>4, <1>5, <1>6, <1>7, <1>8, <1>9 DEF Next, Launcher, User

\* What a sync that goes on keeps.
LEMMA Onward ==
    ASSUME FilesInv, [Next]_vars, Busy',
           ~ \E cause \in {"update", "run"}, force \in BOOLEAN : Start(cause, force)
    PROVE  /\ Busy /\ sync'.meta = sync.meta /\ sync'.cause = sync.cause /\ (sync'.quiet => sync.quiet)
           /\ OpenConfig \/ WriteConfig \/ /\ sync'.objects = sync.objects /\ sync'.patches = sync.patches
                                           /\ sync'.open = sync.open
           /\ Delete \/ Check \/ Download \/ (sync'.deletes = sync.deletes /\ sync'.tasks = sync.tasks)
<1>1. CASE Delete \/ Check \/ Download
  <2>1. Busy
    BY <1>1 DEF Delete, Check, Download, In
  <2> QED
    BY <1>1, <2>1, GoesOn
<1>2. CASE OpenConfig \/ WriteConfig
  <2>1. Busy
    BY <1>2 DEF OpenConfig, WriteConfig, In
  <2>2. sync \in Sync
    BY <2>1, GoesOn
  <2>3. /\ sync'.meta = sync.meta /\ sync'.cause = sync.cause /\ sync'.quiet = sync.quiet
        /\ sync'.deletes = sync.deletes /\ sync'.tasks = sync.tasks
    BY <1>2, <2>2 DEF OpenConfig, WriteConfig, Sync
  <2> QED
    BY <1>2, <2>1, <2>3
<1>3. CASE Link
  <2>1. Busy
    BY <1>3 DEF Link, In
  <2>2. sync \in Sync
    BY <2>1, GoesOn
  <2>3. /\ sync'.meta = sync.meta /\ sync'.cause = sync.cause /\ sync'.quiet = sync.quiet
        /\ sync'.deletes = sync.deletes /\ sync'.tasks = sync.tasks
        /\ sync'.objects = sync.objects /\ sync'.patches = sync.patches /\ sync'.open = sync.open
    BY <1>3, <2>2 DEF Link, Sync
  <2> QED
    BY <2>1, <2>3
<1>4. CASE \/ Downloaded \/ AllLinked \/ MarkDirs \/ SkipNatives \/ ClearNatives \/ NativesCleared
           \/ MarkNatives \/ RemoveRecord \/ RenameRecord
  <2>1. Busy
    BY <1>4 DEF Downloaded, AllLinked, MarkDirs, SkipNatives, ClearNatives, NativesCleared,
          MarkNatives, RemoveRecord,
         RenameRecord, In
  <2>2. sync \in Sync
    BY <2>1, GoesOn
  <2>3. PICK phase \in Phase : Goto(phase)
    BY <1>4 DEF Downloaded, AllLinked, MarkDirs, SkipNatives, ClearNatives, NativesCleared,
          MarkNatives, RemoveRecord,
         RenameRecord, Phase
  <2>4. /\ sync'.meta = sync.meta /\ sync'.cause = sync.cause /\ sync'.quiet = sync.quiet
        /\ sync'.deletes = sync.deletes /\ sync'.tasks = sync.tasks
        /\ sync'.objects = sync.objects /\ sync'.patches = sync.patches /\ sync'.open = sync.open
    BY <2>2, <2>3 DEF Goto, Sync
  <2> QED
    BY <2>1, <2>4
<1>5. CASE EditMods \/ EditFiles \/ RemoveDir
  <2>1. Edit
    BY <1>5 DEF EditMods, EditFiles, RemoveDir
  <2>2. Busy
    BY <2>1 DEF Edit, Busy
  <2>3. sync \in Sync
    BY <2>2, GoesOn
  <2>4. /\ sync'.meta = sync.meta /\ sync'.cause = sync.cause /\ ~sync'.quiet
        /\ sync'.deletes = sync.deletes /\ sync'.tasks = sync.tasks
        /\ sync'.objects = sync.objects /\ sync'.patches = sync.patches /\ sync'.open = sync.open
    BY <2>1, <2>2, <2>3 DEF Edit, Sync
  <2> QED
    BY <2>2, <2>4
<1>6. CASE Report \/ Stop
  BY <1>6 DEF Report, Stop, Busy
<1>7. CASE \/ Extract \/ RemoveNative
           \/ (\E id \in OptionalSet, on \in BOOLEAN : SwitchSet(id, on)) \/ Publish \/ Refresh
           \/ UNCHANGED vars
  <2>1. sync' = sync
    BY <1>7 DEF Extract, RemoveNative, SwitchSet, Publish, Refresh, vars
  <2> QED
    BY <2>1 DEF Busy
<1> QED
  BY <1>1, <1>2, <1>3, <1>4, <1>5, <1>6, <1>7 DEF Next, Launcher, User

\* OpenFit is kept.
LEMMA OpenStep ==
    ASSUME FilesInv, [Next]_vars
    PROVE  OpenFit'
<1> SUFFICES ASSUME Busy', sync'.open PROVE (sync.objects[Now.rules[NextPatch].at])' # NoFile
  BY DEF OpenFit
<1>1. CASE \E cause \in {"update", "run"}, force \in BOOLEAN : Start(cause, force)
  <2>1. ~sync'.open
    BY <1>1 DEF Start, Planned
  <2> QED
    BY <2>1
<1>2. CASE ~ \E cause \in {"update", "run"}, force \in BOOLEAN : Start(cause, force)
  <2>1. Busy /\ sync'.meta = sync.meta
    BY <1>2, Onward
  <2>2. sync \in Sync /\ files \in FileDir
    BY <2>1, GoesOn
  <2>3. CASE OpenConfig
    <3> DEFINE rule == Now.rules[NextPatch]
               new == Patched(rule.format, Document(rule), rule.options)
    <3>1. /\ Busy /\ sync.patches # {} /\ new # Bad
          /\ sync' = [sync EXCEPT !.open = TRUE, !.objects[rule.at] = new]
      BY <2>3 DEF OpenConfig, In
    <3>2. rule.at \in File
      BY <3>1, NextPatchKnown DEF FilesInv
    <3>3. Document(rule) \in (Content \ Plain) \cup {Empty(rule.format), Bad}
      BY <2>2, <3>2 DEF Document, FileDir
    <3>4. new \in Content
      BY <3>1, <3>3, NextPatchKnown DEF FilesInv
    <3>5. NextPatch' = NextPatch /\ Now' = Now
      <4>1. sync'.patches = sync.patches
        BY <2>2, <3>1 DEF Sync
      <4> QED
        BY <2>1, <4>1 DEF NextPatch, Now
    <3>6. (sync.objects[Now.rules[NextPatch].at])' = sync'.objects[rule.at]
      BY <3>5
    <3> HIDE DEF rule, new
    <3>7. sync'.objects[rule.at] = new
      BY <2>2, <3>1, <3>2 DEF Sync, FileDir
    <3> QED
      BY <3>4, <3>6, <3>7, RuleAssumption
  <2>4. CASE WriteConfig
    <3>1. ~sync'.open
      BY <2>2, <2>4 DEF WriteConfig, Sync
    <3> QED
      BY <3>1
  <2>5. CASE ~OpenConfig /\ ~WriteConfig
    <3>1. sync'.objects = sync.objects /\ sync'.patches = sync.patches /\ sync'.open = sync.open
      BY <1>2, <2>5, Onward
    <3>2. NextPatch' = NextPatch /\ Now' = Now
      BY <2>1, <3>1 DEF NextPatch, Now
    <3>3. sync.objects[Now.rules[NextPatch].at] # NoFile
      BY <2>1, <3>1 DEF FilesInv, OpenFit
    <3> QED
      BY <3>1, <3>2, <3>3
  <2> QED
    BY <2>3, <2>4, <2>5
<1> QED
  BY <1>1, <1>2

\* An update that begins.
LEMMA BeginsToFit ==
    ASSUME MarkersApart, SuppliesKept, FilesInv,
           NEW cause \in {"update", "run"}, NEW force \in BOOLEAN, Start(cause, force)
    PROVE  UpdateFits'
<1> DEFINE meta == IF recorded = entry THEN recorded ELSE published
           p == ModView(meta, cause, force)
           r == RuleView(meta, cause, force)
<1>1. meta \in Release
  BY DEF FilesInv, Typed, TypeOK
<1>2. /\ sync' = Planned(meta, cause, force)
      /\ files' = files /\ shared' = shared
  BY DEF Start, disk
<1> HIDE DEF meta
<1>3. Now' = Meta[meta]
  BY <1>2 DEF Now, Planned
<1> SUFFICES ASSUME cause = "update" PROVE FilesFit(Meta[meta], sync', files, shared)
  BY <1>2, <1>3 DEF UpdateFits, Planned
<1>4. /\ r.rules = Meta[meta].rules /\ r.cause = "update" /\ r.files = files /\ r.dirs = dirs
  BY DEF RuleView
<1>5. files \in FileDir /\ dirs \subseteq Dir /\ DirsHold(files, dirs)
  BY DEF FilesInv, Typed, TypeOK
<1>6. ModDeletes(p) \cap File = {}
  BY ModPlan, SyncAssumption
<1>7. DOMAIN FileChecks(r) \subseteq File
  BY DEF FileChecks
<1>8. /\ sync'.deletes = ModDeletes(p) \cup FileDeletes(r)
      /\ sync'.objects = [f \in File |-> IF f \in DOMAIN FileChecks(r) THEN FileChecks(r)[f] ELSE NoFile]
      /\ sync'.tasks = ({"mod"} \X ModChecks(p)) \cup ({"cache"} \X CacheChecks(p))
                       \cup ({"file"} \X DOMAIN FileChecks(r)) \cup ({"resource"} \X Meta[meta].resources)
  BY <1>2 DEF Planned, ChecksResources
<1> HIDE DEF p, r
<1>9. \A f \in File : Asked(sync', f) <=> f \in DOMAIN FileChecks(r)
  BY <1>8 DEF Asked
<1>10. \A x \in Meta[meta].resources : <<"resource", x>> \in sync'.tasks
  BY <1>8
<1>11. \A f \in DOMAIN FileChecks(r) : sync'.objects[f] = FileChecks(r)[f]
  BY <1>7, <1>8
<1>12. r.files \in FileDir /\ r.dirs \subseteq Dir /\ DirsHold(r.files, r.dirs)
  BY <1>4, <1>5
<1>13. r.rules = Meta[meta].rules /\ r.cause = "update" /\ sync'.deletes = ModDeletes(p) \cup FileDeletes(r)
  BY <1>4, <1>8
<1>14. FilesFit(Meta[meta], sync', r.files, shared)
  BY <1>1, <1>6, <1>9, <1>10, <1>11, <1>12, <1>13, FitStart
<1> QED
  BY <1>4, <1>14

\* A deletion, of a file or of a mod.
LEMMA DeleteKeepsFit ==
    ASSUME FilesInv, Delete, FilesFit(Now, sync, files, shared)
    PROVE  FilesFit(Now, sync', files', shared)
<1>1. Busy
  BY DEF Delete, In
<1>2. sync \in Sync /\ files \in FileDir
  BY <1>1, GoesOn
<1>3. PICK path \in sync.deletes :
        /\ sync' = [sync EXCEPT !.deletes = @ \ {path}]
        /\ IF path \in Jar THEN files' = files ELSE files' = [files EXCEPT ![path] = NoFile]
  BY DEF Delete
<1>4. sync'.deletes = sync.deletes \ {path} /\ sync'.tasks = sync.tasks /\ sync'.objects = sync.objects
  BY <1>2, <1>3 DEF Sync
<1>5. \A f \in File : files'[f] = IF f = path THEN NoFile ELSE files[f]
  BY <1>2, <1>3, SyncAssumption DEF FileDir
<1>6. \A n \in DOMAIN Now.rules : Objects(Now.rules[n]) \subseteq File
  BY <1>1, NowSound
<1>7. \A n \in DOMAIN Now.rules : Now.rules[n].kind = "dir" => Now.rules[n].at \in Dir
  BY <1>1, NowSound
<1>8. \A d \in Dir : Under[d] \subseteq File
  BY RuleAssumption
<1> QED
  BY <1>2, <1>4, <1>5, <1>6, <1>7, <1>8, FitDelete

\* The check.
LEMMA CheckKeepsFit ==
    ASSUME FilesInv, Check, FilesFit(Now, sync, files, shared)
    PROVE  FilesFit(Now, sync', files', shared')
<1>1. Busy
  BY DEF Check, In
<1>2. /\ files \in FileDir /\ sync.deletes = {} /\ sync'.deletes = {} /\ sync'.objects = sync.objects
      /\ sync'.tasks = {task \in sync.tasks : Outdated(task)}
  BY <1>1, GoesOn
<1>3. files' = files /\ shared' = shared
  BY DEF Check, disk
<1>4. /\ \A n \in DOMAIN Now.rules : \A f \in Objects(Now.rules[n]) :
            f \in File /\ Now.rules[n].objects[f] \in Content
      /\ \A n \in DOMAIN Now.rules : Now.rules[n].kind = "options" => Objects(Now.rules[n]) = {}
      /\ \A n \in DOMAIN Now.rules : Now.rules[n].kind = "dir" => Now.rules[n].at \in Dir
  BY <1>1, NowSound
<1>5. sync'.tasks \subseteq sync.tasks
  BY <1>2
<1>6. ASSUME NEW f \in File, Asked(sync, f)
      PROVE  Asked(sync', f) \/ files'[f] = sync.objects[f]
  <2>1. Outdated(<<"file", f>>) <=> files[f] # sync.objects[f]
    BY DEF Outdated
  <2> QED
    BY <1>2, <1>3, <1>6, <2>1 DEF Asked
<1>7. ASSUME NEW x, <<"resource", x>> \in sync.tasks
      PROVE  <<"resource", x>> \in sync'.tasks \/ x \in shared'
  <2>1. Outdated(<<"resource", x>>) <=> x \notin shared
    BY DEF Outdated
  <2> QED
    BY <1>2, <1>3, <1>7, <2>1
<1>8. \A f \in File : files'[f] = files[f] \/ (Asked(sync, f) /\ files'[f] = sync.objects[f])
  BY <1>3
<1>9. shared \subseteq shared'
  BY <1>3
<1> QED
  BY <1>2, <1>4, <1>5, <1>6, <1>7, <1>8, <1>9, FitWork

\* A download.
LEMMA DownloadKeepsFit ==
    ASSUME FilesInv, Download, FilesFit(Now, sync, files, shared)
    PROVE  FilesFit(Now, sync', files', shared')
<1>1. Busy
  BY DEF Download, In
<1>2. /\ sync \in Sync /\ files \in FileDir /\ sync.deletes = {} /\ sync'.deletes = {} /\ sync'.objects = sync.objects
  BY <1>1, GoesOn
<1>3. PICK task \in sync.tasks :
        /\ sync' = [sync EXCEPT !.tasks = @ \ {task}]
        /\ files' = IF task[1] = "file" THEN [files EXCEPT ![task[2]] = sync.objects[task[2]]] ELSE files
        /\ shared' = IF task[1] = "resource" THEN shared \cup {task[2]} ELSE shared
  BY DEF Download
<1>4. /\ \A n \in DOMAIN Now.rules : \A f \in Objects(Now.rules[n]) :
            f \in File /\ Now.rules[n].objects[f] \in Content
      /\ \A n \in DOMAIN Now.rules : Now.rules[n].kind = "options" => Objects(Now.rules[n]) = {}
      /\ \A n \in DOMAIN Now.rules : Now.rules[n].kind = "dir" => Now.rules[n].at \in Dir
  BY <1>1, NowSound
<1>5. sync'.tasks = sync.tasks \ {task}
  BY <1>2, <1>3 DEF Sync
<1>6. task = <<task[1], task[2]>> /\ (task[1] = "file" => task[2] \in File)
  BY <1>1, TaskKind DEF FilesInv
<1>7. \A f \in File : files'[f] = IF task = <<"file", f>> THEN sync.objects[f] ELSE files[f]
  <2>1. CASE task[1] = "file"
    <3>1. \A f \in File : task = <<"file", f>> <=> f = task[2]
      BY <1>6, <2>1
    <3> QED
      BY <1>2, <1>3, <1>6, <2>1, <3>1 DEF FileDir
  <2>2. CASE task[1] # "file"
    BY <1>3, <2>2
  <2> QED
    BY <2>1, <2>2
<1>8. \A f \in File : files'[f] = files[f] \/ (Asked(sync, f) /\ files'[f] = sync.objects[f])
  BY <1>7 DEF Asked
<1>9. \A f \in File : Asked(sync, f) => Asked(sync', f) \/ files'[f] = sync.objects[f]
  BY <1>5, <1>7 DEF Asked
<1>10. \A x : <<"resource", x>> \in sync.tasks => <<"resource", x>> \in sync'.tasks \/ x \in shared'
  <2> SUFFICES ASSUME NEW x, <<"resource", x>> = task PROVE x \in shared'
    BY <1>5
  <2>1. task[1] = "resource" /\ task[2] = x
    OBVIOUS
  <2> QED
    BY <1>3, <2>1
<1>11. shared \subseteq shared' /\ sync'.tasks \subseteq sync.tasks
  BY <1>3, <1>5
<1> QED
  BY <1>2, <1>4, <1>8, <1>9, <1>10, <1>11, FitWork

\* Options are set and directories marked.
LEMMA SettingKeepsFit ==
    ASSUME MarkersApart, FilesInv, OpenConfig \/ WriteConfig \/ MarkDirs, FilesFit(Now, sync, files, shared)
    PROVE  FilesFit(Now, sync', files', shared)
<1>1. Busy /\ sync.phase = "configure"
  BY DEF OpenConfig, WriteConfig, MarkDirs, In
<1>2. sync \in Sync /\ files \in FileDir /\ sync.deletes = {} /\ sync.tasks = {}
  BY <1>1, GoesOn DEF FilesInv, Emptied
<1>3. sync'.deletes = {} /\ sync'.tasks = {}
  BY <1>2 DEF OpenConfig, WriteConfig, MarkDirs, Goto, Sync
<1>4. /\ \A n \in DOMAIN Now.rules : \A f \in Objects(Now.rules[n]) : f \in File
      /\ \A n \in DOMAIN Now.rules : \A d \in Dir : Marker[d] \notin Objects(Now.rules[n])
      /\ \A n \in DOMAIN Now.rules : Now.rules[n].kind = "dir" => Now.rules[n].at \in Dir
  BY <1>1, NowSound
<1>5. Torn # NoFile /\ Mark # NoFile
  BY SyncAssumption, RuleAssumption
<1>6. CASE OpenConfig \/ WriteConfig
  <2>1. sync.patches # {}
    BY <1>1, <1>6 DEF OpenConfig, WriteConfig, In, FilesInv, Typed, TasksKnown
  <2>2. NextPatch \in DOMAIN Now.rules /\ Now.rules[NextPatch].kind = "options" /\ Now.rules[NextPatch].at \in File
    BY <1>1, <2>1, NextPatchKnown DEF FilesInv, Typed, TasksKnown
  <2> DEFINE at == Now.rules[NextPatch].at
  <2>3. \A f \in File : files'[f] = files[f] \/ (f = at /\ files'[f] # NoFile)
    <3>1. CASE OpenConfig
      BY <1>2, <1>5, <2>2, <3>1 DEF OpenConfig, FileDir
    <3>2. CASE WriteConfig
      <4>1. files' = [files EXCEPT ![at] = IF files[at] = NoFile THEN NoFile ELSE sync.objects[at]]
        BY <3>2 DEF WriteConfig
      <4>2. sync.objects[at] # NoFile
        BY <1>1, <3>2 DEF WriteConfig, FilesInv, OpenFit
      <4> QED
        BY <1>2, <2>2, <4>1, <4>2 DEF FileDir
    <3> QED
      BY <1>6, <3>1, <3>2
  <2>4. \A f \in File : \/ files'[f] = files[f]
                        \/ /\ files'[f] # NoFile
                           /\ \/ \E k \in DOMAIN Now.rules : Now.rules[k].kind = "options" /\ Now.rules[k].at = f
                              \/ \E d \in Dir : f = Marker[d]
    BY <2>2, <2>3
  <2> QED
    BY <1>2, <1>3, <1>4, <2>4, FitSet
<1>7. CASE MarkDirs
  <2>1. \A f \in File : \/ files'[f] = files[f]
                        \/ files'[f] # NoFile /\ \E d \in RuleDirs(Now.rules) : f = Marker[d]
    BY <1>5, <1>7 DEF MarkDirs
  <2>2. RuleDirs(Now.rules) \subseteq Dir
    BY <1>4 DEF RuleDirs
  <2>3. \A f \in File : \/ files'[f] = files[f]
                        \/ /\ files'[f] # NoFile
                           /\ \/ \E k \in DOMAIN Now.rules : Now.rules[k].kind = "options" /\ Now.rules[k].at = f
                              \/ \E d \in Dir : f = Marker[d]
    BY <2>1, <2>2
  <2> QED
    BY <1>2, <1>3, <1>4, <2>3, FitSet
<1> QED
  BY <1>6, <1>7

\* The other steps of an update leave the files alone.
LEMMA UpdateStep ==
    ASSUME MarkersApart, SuppliesKept, FilesInv, [Next]_vars
    PROVE  UpdateFits'
<1>1. CASE \E cause \in {"update", "run"}, force \in BOOLEAN : Start(cause, force)
  BY <1>1, BeginsToFit
<1>2. CASE ~ \E cause \in {"update", "run"}, force \in BOOLEAN : Start(cause, force)
  <2> SUFFICES ASSUME Busy', sync'.cause = "update", sync'.quiet
               PROVE  FilesFit(Now', sync', files', shared')
    BY DEF UpdateFits
  <2>1. Busy /\ Now' = Now /\ sync.cause = "update" /\ sync.quiet
    BY <1>2, Onward DEF Now
  <2>2. FilesFit(Now, sync, files, shared)
    BY <2>1 DEF FilesInv, UpdateFits
  <2>3. CASE Delete
    BY <2>1, <2>2, <2>3, DeleteKeepsFit DEF Delete
  <2>4. CASE Check
    BY <2>1, <2>2, <2>4, CheckKeepsFit
  <2>5. CASE Download
    BY <2>1, <2>2, <2>5, DownloadKeepsFit
  <2>6. CASE OpenConfig \/ WriteConfig \/ MarkDirs
    BY <2>1, <2>2, <2>6, SettingKeepsFit DEF OpenConfig, WriteConfig, MarkDirs
  <2>7. CASE ~Delete /\ ~Check /\ ~Download /\ ~OpenConfig /\ ~WriteConfig /\ ~MarkDirs
    <3>1. sync'.deletes = sync.deletes /\ sync'.tasks = sync.tasks /\ sync'.objects = sync.objects
      BY <1>2, <2>7, Onward
    <3>2. ~EditMods /\ ~EditFiles /\ ~RemoveDir
      <4>1. sync \in Sync
        BY <2>1, GoesOn
      <4>2. ~Edit
        BY <2>1, <4>1 DEF Edit, Sync
      <4> QED
        BY <4>2 DEF EditMods, EditFiles, RemoveDir
    <3>3. files' = files /\ shared' = shared
      BY <1>2, <2>7, <3>2 DEF Next, Launcher, User, Downloaded, Link, AllLinked, SkipNatives,
            ClearNatives, NativesCleared, Extract, RemoveNative,
           MarkNatives, RemoveRecord, RenameRecord, Report, Stop, Publish, Refresh, SwitchSet, vars, disk
    <3> QED
      BY <2>1, <2>2, <3>1, <3>3, FitSame
  <2> QED
    BY <2>3, <2>4, <2>5, <2>6, <2>7
<1> QED
  BY <1>1, <1>2

\* What a finished update has left.
LEMMA FilesDone ==
    ASSUME FilesInv
    PROVE  FilesAsPublished
<1> SUFFICES ASSUME Updated PROVE FilesAsPublished
  BY DEF FilesAsPublished
<1>1. /\ Busy /\ sync.deletes = {} /\ sync.tasks = {} /\ FilesFit(Now, sync, files, shared)
  BY DEF FilesInv, Emptied, UpdateFits, Updated, In
<1>2. Now.resources \subseteq shared
  BY <1>1 DEF FilesFit, ResourcesFit
<1>3. \A n \in Standing(Now.rules) : \A f \in Objects(Now.rules[n]) :
         /\ files[f] # NoFile
         /\ \/ files[f] = Now.rules[n].objects[f] \/ ~Now.rules[n].overwrite
            \/ \E k \in DOMAIN Now.rules : f \in About(Now.rules, k) /\ k # n
  BY <1>1 DEF FilesFit, Supplied, Overwritten, Asked
<1>4. \A n \in Standing(Now.rules) : Now.rules[n].kind = "dir" /\ Now.rules[n].extra =>
         \A f \in Under[Now.rules[n].at] :
            files[f] # NoFile => \/ \E k \in DOMAIN Now.rules : f \in About(Now.rules, k)
                                 \/ \E d \in Dir : f = Marker[d]
  BY <1>1 DEF FilesFit, ExtrasGone
<1> QED
  BY <1>2, <1>3, <1>4 DEF FilesAsPublished, Standing, About

\* After an update that nobody interferes with, the files are those published.
THEOREM FilesAreAsPublished ==
    ASSUME MarkersApart, SuppliesKept
    PROVE  Spec => []FilesAsPublished
<1>1. Init => FilesInv
  <2> SUFFICES ASSUME Init PROVE FilesInv
    OBVIOUS
  <2>1. Typed
    BY TypedInit
  <2>2. ~Busy
    BY DEF Init, Busy
  <2>3. DirsHold(files, dirs)
    BY DEF Init, DirsHold
  <2> QED
    BY <2>1, <2>2, <2>3 DEF FilesInv, OpenFit, UpdateFits
<1>2. FilesInv /\ [Next]_vars => FilesInv'
  <2> SUFFICES ASSUME FilesInv, [Next]_vars PROVE FilesInv'
    OBVIOUS
  <2>1. Typed'
    BY TypedStep DEF FilesInv
  <2> QED
    BY <2>1, EmptiedStep, DirsStep, OpenStep, UpdateStep DEF FilesInv
<1>3. FilesInv => FilesAsPublished
  BY FilesDone
<1> QED
  BY <1>1, <1>2, <1>3, PTL DEF Spec
=============================================================================
