------------------------- MODULE InstanceStorage_proofs ------------------------
(***************************************************************************)
(* The theorems of InstanceStorage.  The disk and the vector are related   *)
(* by one invariant, Inv, whose parts follow a launcher through its life:  *)
(* what a start has read so far (Started), and from then on (Live) who     *)
(* holds or is about to take which directory (Claimed, Cleaned,            *)
(* VictimGone), what a write in progress replaces (WriteAgrees), that disk *)
(* and vector say the same of every other directory (Agree), and what a    *)
(* refresh has read so far (Reloaded).  Once everything is in doubt Live   *)
(* says nothing, until the next start has read the disk again.             *)
(***************************************************************************)
EXTENDS InstanceStorage, TLAPS

Content == [desc : Descriptor \cup {Missing, Damaged}, data : BOOLEAN, aside : BOOLEAN]

\* What is missing is neither an instance, nor a descriptor, nor a write.
LEMMA MissingIsNone ==
    /\ Missing \notin Handle /\ Missing \notin Dir /\ Missing \notin Descriptor
    /\ Missing # Damaged /\ Missing \notin Entry /\ Missing \notin Write
    /\ Damaged \notin Descriptor
<1>1. Damaged \notin Descriptor
  <2> SUFFICES ASSUME Damaged \in Descriptor PROVE FALSE
    OBVIOUS
  <2>1. Damaged.handle \in Handle
    BY DEF Descriptor
  <2>2. Damaged.handle = Missing
    BY DEF Damaged
  <2> QED
    BY <2>1, <2>2, StorageAssumption
<1> QED
  BY <1>1, StorageAssumption

-----------------------------------------------------------------------------
(***************************************************************************)
(* The invariant.                                                          *)
(***************************************************************************)
Writing(d) == write # Missing /\ write.dir = d

\* What each state of the loop has at hand.
Phase ==
    /\ loop \in {"down", "idle", "deleting"} => write = Missing
    /\ loop = "saving" => write # Missing
    /\ ~Loading => todo = {} /\ found = Nothing
    /\ loop = "deleting" <=> victim # Missing
    /\ loop \in {"down", "starting"} =>
          /\ storage = Nothing /\ tasks = Nothing /\ creating = Nothing
          /\ events = {} /\ cleaning = {}

\* What the user made in a directory that is being deleted is gone already.
DeletedIsBare == loop = "deleting" => ~disk[victim].data

\* NothingVanishes, of every directory.
AllKept ==
    \A d \in Dir : disk[d].data =>
        disk[d].desc # Missing \/ disk[d].aside \/ (Writing(d) /\ write.step = "rename")

\* A start: what has been read is what the directories say, and the directories
\* that are not to be read any more have been.
Started ==
    loop = "starting" =>
        /\ \A h \in Handle : Known(h) =>
              /\ found[h].dir \notin todo /\ ~Writing(found[h].dir)
              /\ disk[found[h].dir].desc = [handle |-> h, state |-> found[h].state]
        /\ \A d \in Dir \ todo : (disk[d].desc # Missing /\ ~Writing(d)) =>
              Readable(d) /\ Known(disk[d].desc.handle) /\ found[disk[d].desc.handle].dir = d
        /\ write # Missing =>
              /\ write.dir \notin todo /\ ~Known(write.handle) /\ write.step # "lost"
              /\ \A d \in Dir : Readable(d) => disk[d].desc.handle # write.handle

\* Who is about to have a directory, and which.
Saving(h) == loop = "saving" /\ write.handle = h
Taker(h) == ~Stored(h) /\ (Busy(h) \/ creating[h] # Missing \/ Saving(h))
Takes(h, d) == tasks[h] = d \/ creating[h] = d \/ (Saving(h) /\ write.dir = d)

\* Directories are not shared: not by the instances that are stored, not with the
\* one that is about to be, which is alone and has no rest of a creation to fear.
Claimed ==
    /\ \A h, g \in Handle : Stored(h) /\ Stored(g) /\ storage[h].dir = storage[g].dir
          /\ storage[h].dir \notin doubt => h = g
    /\ \A h \in Handle : ~Stored(h) => \A d \in Dir \ doubt : Takes(h, d) => d \notin StoredDirs
    /\ \A h \in Handle : Stored(h) =>
          /\ creating[h] = Missing
          /\ \A d \in Dir : Takes(h, d) => d = storage[h].dir
    /\ \A e \in events : tasks[e.handle] = e.dir
    /\ \A h \in Handle : Busy(h) /\ creating[h] # Missing => tasks[h] = creating[h]
    /\ \A h \in Handle : Saving(h) => ~Busy(h) /\ creating[h] = Missing
    /\ \A h, g \in Handle : Taker(h) /\ Taker(g) => h = g
    /\ cleaning # {} => \A h \in Handle : ~Taker(h)

\* What is left of a cancelled creation is not an instance.
Cleaned ==
    \A d \in cleaning \ doubt : disk[d].desc = Missing /\ d \notin StoredDirs /\ ~Writing(d)

\* The descriptor of an instance says what its entry says, and a directory with a
\* descriptor has an entry.
Matches(h) == disk[storage[h].dir].desc = [handle |-> h, state |-> storage[h].state]
Listed(d) ==
    Readable(d) /\ Stored(disk[d].desc.handle) /\ storage[disk[d].desc.handle].dir = d

Agree ==
    /\ \A h \in Handle : Stored(h) /\ storage[h].dir \notin doubt /\ ~Writing(storage[h].dir) => Matches(h)
    /\ \A d \in Dir \ doubt : disk[d].desc # Missing /\ ~Writing(d) /\ d # victim => Listed(d)

\* A descriptor that is being written replaces that of the same instance, or none.
WriteAgrees ==
    loop = "saving" /\ write.dir \notin doubt =>
        /\ write.step # "lost"
        /\ write.step = "rename" => disk[write.dir].desc = Missing
        /\ write.step # "rename" => disk[write.dir].desc =
              IF Stored(write.handle)
              THEN [handle |-> write.handle, state |-> storage[write.handle].state] ELSE Missing

\* An instance that is being deleted has no entry any more.
VictimGone == loop = "deleting" /\ victim \notin doubt => victim \notin StoredDirs

\* A refresh that meets nothing in doubt finds what is stored.
Reloaded ==
    loop = "loading" =>
        /\ write = Missing
        /\ \A h \in Handle : Known(h) => found[h] = storage[h] /\ found[h].dir \notin todo
        /\ \A d \in Dir \ todo : disk[d].desc # Missing => Known(disk[d].desc.handle)

\* The launcher has started.
Up == loop \notin {"down", "starting"}
Live == Up /\ doubt # Dir =>
    /\ Claimed /\ Cleaned /\ VictimGone
    /\ loop # "loading" \/ doubt = {} => Agree /\ WriteAgrees /\ Reloaded

\* The last two hold as long as the user starts one thing at a time and cancels
\* nothing that has ended.
Inv == /\ TypeOK /\ Phase /\ DeletedIsBare /\ Started
       /\ OneAtATime /\ Patient => Live /\ AllKept

-----------------------------------------------------------------------------

\* What a crash leaves on the disk.
LEMMA CrashDisk ==
    ASSUME TypeOK, Crash
    PROVE  /\ disk' \in [Dir -> Content]
           /\ \A d \in Dir \ (cleaning \cup {victim}) :
                 /\ disk'[d].desc = disk[d].desc /\ disk'[d].data = disk[d].data
                 /\ disk[d].aside => disk'[d].aside
                 /\ Writing(d) /\ write.step \in {"remove", "rename"} => disk'[d].aside
           /\ \A d \in Dir \cap (cleaning \cup {victim}) : ~disk'[d].data
<1>1. PICK kept \in SUBSET (cleaning \cup ({victim} \ {Missing})) :
          disk' = [d \in Dir |->
              IF d \in cleaning \cup {victim} THEN Interrupted(d, d \in kept)
              ELSE [disk[d] EXCEPT !.aside =
                        @ \/ (/\ write # Missing /\ write.dir = d
                              /\ write.step \in {"remove", "rename"})]]
  BY DEF Crash
<1>2. ASSUME NEW d \in Dir
      PROVE  disk[d] \in Content
  BY DEF TypeOK, Content
<1>3. ASSUME NEW d \in Dir, NEW b \in BOOLEAN
      PROVE  /\ [disk[d] EXCEPT !.aside = b] \in Content
             /\ [disk[d] EXCEPT !.aside = b].aside = b
             /\ [disk[d] EXCEPT !.aside = b].desc = disk[d].desc
             /\ [disk[d] EXCEPT !.aside = b].data = disk[d].data
  BY <1>2 DEF Content
<1>4. ASSUME NEW d \in Dir, d \in cleaning \cup {victim}
      PROVE  disk'[d] \in Content /\ ~disk'[d].data
  <2>1. Empty \in Content /\ ~Empty.data
    BY DEF Empty, Content
  <2>2. [disk[d] EXCEPT !.data = FALSE] \in Content /\ ~[disk[d] EXCEPT !.data = FALSE].data
    BY <1>2 DEF Content
  <2>3. disk'[d] \in {Empty, [disk[d] EXCEPT !.data = FALSE]}
    BY <1>1, <1>4 DEF Interrupted
  <2> QED
    BY <2>1, <2>2, <2>3
<1>5. ASSUME NEW d \in Dir, d \notin cleaning \cup {victim}
      PROVE  /\ disk'[d] \in Content
             /\ disk'[d].desc = disk[d].desc /\ disk'[d].data = disk[d].data
             /\ disk[d].aside => disk'[d].aside
             /\ Writing(d) /\ write.step \in {"remove", "rename"} => disk'[d].aside
  <2> DEFINE cut == write # Missing /\ write.dir = d /\ write.step \in {"remove", "rename"}
             b == disk[d].aside \/ cut
  <2>1. disk'[d] = [disk[d] EXCEPT !.aside = b]
    BY <1>1, <1>5
  <2>2. b \in BOOLEAN /\ (disk[d].aside => b) /\ (cut => b)
    OBVIOUS
  <2> HIDE DEF b
  <2> QED
    BY <1>3, <2>1, <2>2 DEF Writing
<1>6. disk' = [d \in Dir |-> disk'[d]]
  BY <1>1
<1> QED
  BY <1>4, <1>5, <1>6

\* The type invariant holds at first, ...
LEMMA TypeStarts == Init => TypeOK
BY StorageAssumption DEF Init, TypeOK, Empty, Nothing

\* ... and every step keeps it.
LEMMA TypeKeeps == TypeOK /\ Phase /\ [Next]_vars => TypeOK'
<1> SUFFICES ASSUME TypeOK, Phase, [Next]_vars PROVE TypeOK'
  OBVIOUS
<1> USE DEF TypeOK, memory, io
<1>0. /\ Empty \in Content /\ Nothing \in [Handle -> Dir \cup {Missing}]
      /\ Nothing \in [Handle -> Entry \cup {Missing}]
  BY DEF Content, Empty, Nothing
<1>1. ASSUME Fault PROVE faults' \in 0 .. MaxFaults
  BY <1>1, StorageAssumption DEF Fault
<1>2. CASE WriteTemp
  BY <1>2 DEF WriteTemp, Step, Write
<1>3. CASE RemoveOld
  BY <1>3 DEF RemoveOld, Step, Write
<1>4. CASE Rename
  BY <1>4 DEF Rename, Written, Write, Descriptor, Entry
<1>5. CASE WriteFails
  <2> DEFINE b == disk[write.dir].aside \/ write.step \in {"remove", "rename"}
  <2>1. b \in BOOLEAN /\ write.dir \in Dir
    BY <1>5 DEF WriteFails, Write
  <2>2. disk' = [disk EXCEPT ![write.dir].aside = b] /\ faults' \in 0 .. MaxFaults
    BY <1>1, <1>5 DEF WriteFails
  <2> HIDE DEF b
  <2>3. disk' \in [Dir -> Content]
    BY <2>1, <2>2 DEF Content
  <2> QED
    BY <1>0, <1>5, <2>1, <2>2, <2>3 DEF WriteFails, Content
<1>6. CASE Load
  BY <1>0, <1>6 DEF Load
<1>7. CASE LoadEnds
  BY <1>0, <1>7 DEF LoadEnds
<1>8. ASSUME NEW d \in Dir, Read(d) PROVE TypeOK'
  BY <1>8 DEF Read, Reading, Readable, Descriptor, Entry
<1>9. ASSUME NEW d \in Dir, NEW new \in Recovered, Rehandle(d, new) PROVE TypeOK'
  BY <1>9 DEF Rehandle, Reading, Readable, Descriptor, StartWrite, Write, Handle
<1>10. ASSUME NEW d \in Dir, NEW new \in Recovered, Recover(d, new) PROVE TypeOK'
  <2>1. Backup(d) \in [Dir -> Content]
    BY DEF Backup, Content
  <2>2. disk' \in [Dir -> Content] /\ faults' \in 0 .. MaxFaults
    BY <1>1, <1>10, <2>1 DEF Recover, Content
  <2>3. write' \in Write
    BY <1>10 DEF Recover, StartWrite, Write, Handle, State
  <2> QED
    BY <1>10, <2>2, <2>3 DEF Recover, Content
<1>11. ASSUME NEW r \in Remote, UpdateSettings(r) PROVE TypeOK'
  BY <1>11 DEF UpdateSettings, StartWrite, Write, Handle, State
<1>12. ASSUME NEW r \in Remote, StartInstall(r) PROVE TypeOK'
  BY <1>12 DEF StartInstall, Handle, Stored, Entry
<1>13. ASSUME NEW l \in Local, NEW id \in Id, CreateLocal(l, id) PROVE TypeOK'
  BY <1>13 DEF CreateLocal, Handle
<1>14. ASSUME NEW l \in Local, RetryCreateLocal(l) PROVE TypeOK'
  BY <1>14 DEF RetryCreateLocal, Handle
<1>15. ASSUME NEW h \in Handle, Finish(h) PROVE TypeOK'
  BY <1>15 DEF Finish, Busy
<1>16. ASSUME NEW h \in Handle, Fail(h) PROVE TypeOK'
  BY <1>16 DEF Fail
<1>17. ASSUME NEW h \in Handle, CancelInstall(h) PROVE TypeOK'
  BY <1>17 DEF CancelInstall
<1>18. ASSUME NEW e \in events, InstallFinished(e) PROVE TypeOK'
  BY <1>18 DEF InstallFinished, StartWrite, Write, State
<1>19. ASSUME NEW d \in Dir, Clean(d) PROVE TypeOK'
  BY <1>0, <1>19 DEF Clean, Write, Content
<1>20. ASSUME NEW h \in Handle, DeleteInstance(h) PROVE TypeOK'
  BY <1>20 DEF DeleteInstance, Stored, Entry
<1>21. ASSUME NEW h \in Handle, Play(h) PROVE TypeOK'
  BY <1>21 DEF Play, Stored, Entry
<1>22. CASE DeleteEnds
  <2>1. victim \in Dir
    BY <1>22 DEF DeleteEnds, Phase
  <2>2. faults' \in 0 .. MaxFaults /\ doubt' \subseteq Dir
    BY <1>1, <1>22, <2>1 DEF DeleteEnds
  <2>3. disk' \in [Dir -> Content]
    BY <1>0, <1>22 DEF DeleteEnds, Content
  <2> QED
    BY <1>22, <2>2, <2>3 DEF DeleteEnds, Content
<1>23. ASSUME NEW some \in SUBSET Remote, Publish(some) PROVE TypeOK'
  BY <1>23 DEF Publish
<1>24. CASE Crash
  BY <1>0, <1>1, <1>24, CrashDisk DEF Crash, Content
<1>25. ASSUME NEW d \in Dir, Damage(d) PROVE TypeOK'
  BY <1>1, <1>25 DEF Damage
<1>26. ASSUME NEW d \in Dir, NEW to \in Dir, Copy(d, to) PROVE TypeOK'
  BY <1>1, <1>26 DEF Copy
<1>27. CASE UNCHANGED vars
  BY <1>27 DEF vars
<1> QED
  BY <1>2, <1>3, <1>4, <1>5, <1>6, <1>7, <1>8, <1>9, <1>10, <1>11, <1>12, <1>13, <1>14, <1>15,
     <1>16, <1>17, <1>18, <1>19, <1>20, <1>21, <1>22, <1>23, <1>24, <1>25, <1>26, <1>27 DEF Next

\* Each state of the loop goes on having at hand what it needs.
LEMMA PhaseKeeps == TypeOK /\ Phase /\ [Next]_vars => Phase'
<1> SUFFICES ASSUME TypeOK, Phase, [Next]_vars PROVE Phase'
  OBVIOUS
<1> USE DEF Phase, Loading, memory, io
<1>1. CASE WriteTemp \/ RemoveOld
  BY <1>1, MissingIsNone DEF WriteTemp, RemoveOld, Step, TypeOK, Write
<1>2. CASE Rename
  BY <1>2 DEF Rename, TypeOK
<1>3. CASE WriteFails
  BY <1>3 DEF WriteFails
<1>4. CASE Load \/ LoadEnds
  BY <1>4 DEF Load, LoadEnds
<1>5. ASSUME NEW d \in Dir, Read(d) PROVE Phase'
  BY <1>5 DEF Read, Reading
<1>6. ASSUME NEW d \in Dir, NEW new \in Recovered, Rehandle(d, new) \/ Recover(d, new) PROVE Phase'
  BY <1>6 DEF Rehandle, Recover, Reading
<1>7. ASSUME NEW r \in Remote, UpdateSettings(r) PROVE Phase'
  <2>1. write' \in Write
    BY <1>7 DEF UpdateSettings, StartWrite, Write, Handle, State
  <2> QED
    BY <1>7, <2>1, MissingIsNone DEF UpdateSettings
<1>8. ASSUME NEW r \in Remote, StartInstall(r) PROVE Phase'
  BY <1>8 DEF StartInstall
<1>9. ASSUME NEW l \in Local, NEW id \in Id, CreateLocal(l, id) PROVE Phase'
  BY <1>9 DEF CreateLocal
<1>10. ASSUME NEW l \in Local, RetryCreateLocal(l) PROVE Phase'
  BY <1>10 DEF RetryCreateLocal
<1>11. ASSUME NEW h \in Handle, Finish(h) \/ Fail(h) \/ CancelInstall(h) PROVE Phase'
  BY <1>11, MissingIsNone DEF Finish, Fail, CancelInstall, Busy, Nothing
<1>12. ASSUME NEW e \in events, InstallFinished(e) PROVE Phase'
  <2>1. write' \in Write
    BY <1>12 DEF InstallFinished, StartWrite, Write, State, TypeOK
  <2> QED
    BY <1>12, <2>1, MissingIsNone DEF InstallFinished
<1>13. ASSUME NEW d \in Dir, Clean(d) PROVE Phase'
  BY <1>13, MissingIsNone DEF Clean, TypeOK, Write
<1>14. ASSUME NEW h \in Handle, DeleteInstance(h) \/ Play(h) PROVE Phase'
  BY <1>14, MissingIsNone DEF DeleteInstance, Play, Stored, TypeOK, Entry
<1>15. CASE DeleteEnds \/ Crash
  BY <1>15 DEF DeleteEnds, Crash
<1>16. ASSUME NEW some \in SUBSET Remote, Publish(some) PROVE Phase'
  BY <1>16 DEF Publish
<1>17. ASSUME NEW d \in Dir, Damage(d) \/ \E to \in Dir : Copy(d, to) PROVE Phase'
  BY <1>17 DEF Damage, Copy
<1>18. CASE UNCHANGED vars
  BY <1>18 DEF vars
<1> QED
  BY <1>1, <1>2, <1>3, <1>4, <1>5, <1>6, <1>7, <1>8, <1>9, <1>10, <1>11, <1>12, <1>13, <1>14, <1>15,
     <1>16, <1>17, <1>18 DEF Next

\* Nothing is made in a directory that is being deleted.
LEMMA BareKeeps == TypeOK /\ Phase /\ DeletedIsBare /\ [Next]_vars => DeletedIsBare'
<1> SUFFICES ASSUME TypeOK, Phase, DeletedIsBare, [Next]_vars, loop' = "deleting"
             PROVE  ~disk'[victim'].data
  BY DEF DeletedIsBare
<1> USE DEF DeletedIsBare, Phase, Loading, memory, io, TypeOK
<1>1. ASSUME NEW h \in Handle, DeleteInstance(h) PROVE ~disk'[victim'].data
  BY <1>1 DEF DeleteInstance, Stored, Entry
<1>2. ASSUME NEW d \in Dir, Clean(d) PROVE ~disk'[victim'].data
  BY <1>2, MissingIsNone DEF Clean, Empty
<1>3. CASE UNCHANGED vars
  BY <1>3 DEF vars
<1>4. ASSUME NEW h \in Handle, Finish(h) PROVE ~disk'[victim'].data
  BY <1>4 DEF Finish
<1> QED
  BY <1>1, <1>2, <1>3, <1>4 DEF Next, WriteTemp, RemoveOld, Step, Rename, WriteFails, Load, LoadEnds, Read,
     Reading, Rehandle, Recover, UpdateSettings, StartInstall, CreateLocal, RetryCreateLocal, Fail,
     CancelInstall, InstallFinished, Play, DeleteEnds, Publish, Crash, Damage, Copy

\* A start goes on, with what it repairs on its way.
LEMMA StartedKeeps == TypeOK /\ Phase /\ Started /\ [Next]_vars => Started'
<1> SUFFICES ASSUME TypeOK, Phase, Started, [Next]_vars, loop' = "starting" PROVE Started'
  BY DEF Started
<1> USE DEF Phase, Loading, memory, io
<1>1. CASE Load
  BY <1>1 DEF Load, Started, Known, Nothing
<1> SUFFICES ASSUME ~Load PROVE Started'
  BY <1>1
<1>2. loop = "starting"
  BY DEF Next, WriteTemp, RemoveOld, Step, Rename, WriteFails, Load, LoadEnds, Read, vars,
     Reading, Rehandle, Recover, UpdateSettings, StartInstall, CreateLocal, RetryCreateLocal, Fail, Finish,
     CancelInstall, InstallFinished, Clean, DeleteInstance, Play, DeleteEnds, Publish, Crash, Damage, Copy
<1>3. \/ WriteTemp \/ RemoveOld \/ Rename \/ UNCHANGED vars
      \/ \E d \in Dir : Read(d)
      \/ \E d \in Dir, new \in Recovered : Rehandle(d, new) \/ Recover(d, new)
  BY <1>2 DEF Next, WriteFails, Load, LoadEnds, Busy, Nothing,
     UpdateSettings, StartInstall, CreateLocal, RetryCreateLocal, Fail, Finish,
     CancelInstall, InstallFinished, Clean, DeleteInstance, Play, DeleteEnds, Publish, Crash, Damage, Copy
<1>4. CASE WriteTemp
  BY <1>2, <1>4, MissingIsNone DEF WriteTemp, Step, Started, Known, Writing, Readable, TypeOK, Write
<1>5. CASE RemoveOld
  BY <1>2, <1>5, MissingIsNone DEF RemoveOld, Step, Started, Known, Writing, Readable, TypeOK, Write
<1>6. CASE Rename
  BY <1>2, <1>6, MissingIsNone DEF Rename, Written, Started, Known, Writing, Readable, TypeOK, Write, Descriptor, Entry
<1>7. ASSUME NEW d \in Dir, Read(d) PROVE Started'
  BY <1>2, <1>7, MissingIsNone DEF Read, Reading, Started, Known, Writing, Readable, TypeOK, Write, Descriptor, Entry
<1>8. ASSUME NEW d \in Dir, NEW new \in Recovered, Rehandle(d, new) PROVE Started'
  BY <1>2, <1>8, MissingIsNone DEF Rehandle, Reading, StartWrite, Unused, Started, Known, Writing, Readable, TypeOK, Write, Descriptor, Entry, Handle
<1>9. ASSUME NEW d \in Dir, NEW new \in Recovered, Recover(d, new) PROVE Started'
  <2>1. /\ disk'[d].desc \in {Damaged, Missing}
        /\ \A x \in Dir \ {d} : disk'[x].desc = disk[x].desc
    BY <1>9 DEF Recover, Backup, TypeOK
  <2>2. /\ write = Missing /\ d \in todo /\ disk[d].desc = Damaged /\ Unused(new) /\ new \in Handle
        /\ todo' = todo \ {d} /\ UNCHANGED found
        /\ write'.dir = d /\ write'.handle = new /\ write'.step = "temp" /\ write' # Missing
    <3>1. write' \in Write
      BY <1>9 DEF Recover, StartWrite, Write, Handle, State
    <3> QED
      BY <1>9, <3>1, MissingIsNone DEF Recover, Reading, StartWrite, Handle
  <2>3. \A x \in Dir : disk'[x].desc \in Descriptor => x # d /\ disk[x].desc \in Descriptor
    BY <2>1, MissingIsNone
  <2>4. ASSUME NEW h \in Handle, found'[h] # Missing
        PROVE  /\ found'[h].dir \notin todo' /\ write'.dir # found'[h].dir
               /\ disk'[found'[h].dir].desc = [handle |-> h, state |-> found'[h].state]
    <3>1. /\ found[h].dir \notin todo /\ found[h].dir \in Dir
          /\ disk[found[h].dir].desc = [handle |-> h, state |-> found[h].state]
      BY <1>2, <2>2, <2>4 DEF Started, Known, TypeOK, Entry
    <3> QED
      BY <2>1, <2>2, <3>1
  <2>5. ASSUME NEW x \in Dir \ todo', disk'[x].desc # Missing, write'.dir # x
        PROVE  /\ disk'[x].desc \in Descriptor
               /\ found'[disk'[x].desc.handle] # Missing /\ found'[disk'[x].desc.handle].dir = x
    BY <1>2, <2>1, <2>2, <2>5 DEF Started, Known, Writing, Readable
  <2>6. /\ write'.dir \notin todo' /\ found'[write'.handle] = Missing
        /\ \A x \in Dir : disk'[x].desc \in Descriptor => disk'[x].desc.handle # write'.handle
    BY <2>1, <2>2, <2>3 DEF Unused, Readable
  <2> QED
    BY <2>2, <2>4, <2>5, <2>6 DEF Started, Known, Writing, Readable
<1>10. CASE UNCHANGED vars
  BY <1>10 DEF vars, Started, Known, Writing, Readable
<1> QED
  BY <1>3, <1>4, <1>5, <1>6, <1>7, <1>8, <1>9, <1>10

\* The state is well typed (TypeOK).
THEOREM TypeCorrect == Spec => []TypeOK
<1>1. Init => TypeOK /\ Phase
  BY TypeStarts DEF Init, Phase, Loading
<1>2. TypeOK /\ Phase /\ [Next]_vars => TypeOK' /\ Phase'
  BY TypeKeeps, PhaseKeeps
<1> QED
  BY <1>1, <1>2, PTL DEF Spec

\* A start ends with a storage that says what the disk says.
LEMMA StartEnds ==
    ASSUME TypeOK, Phase, Started, loop = "starting", LoadEnds
    PROVE  Live'
<1> USE DEF Phase, Loading
<1>1. /\ storage' = found /\ loop' = "idle" /\ write' = Missing /\ doubt' = {} /\ victim' = Missing
      /\ tasks' = Nothing /\ creating' = Nothing /\ events' = {} /\ cleaning' = {}
      /\ UNCHANGED disk /\ found \in [Handle -> Entry \cup {Missing}]
      /\ \A d \in todo : disk[d].desc = Missing
      /\ write = Missing
  BY DEF LoadEnds, TypeOK
<1>2. \A h \in Handle : found[h] # Missing =>
          disk[found[h].dir].desc = [handle |-> h, state |-> found[h].state]
  BY DEF Started, Known
<1>3. \A d \in Dir : disk[d].desc # Missing =>
          Readable(d) /\ found[disk[d].desc.handle] # Missing /\ found[disk[d].desc.handle].dir = d
  BY <1>1 DEF Started, Writing, Known
<1>4. Claimed'
  <2>1. \A h, g \in Handle : found[h] # Missing /\ found[g] # Missing /\ found[h].dir = found[g].dir => h = g
    <3>1. ASSUME NEW h \in Handle, found[h] # Missing
          PROVE  disk[found[h].dir].desc.handle = h
      <4>1. disk[found[h].dir].desc = [handle |-> h, state |-> found[h].state]
        BY <1>2, <3>1
      <4> QED
        BY <4>1
    <3> QED
      BY <3>1
  <2>2. \A h \in Handle : tasks'[h] = Missing /\ creating'[h] = Missing
    BY <1>1 DEF Nothing
  <2>3. Claimed' <=> 
           /\ \A h, g \in Handle : found[h] # Missing /\ found[g] # Missing /\ found[h].dir = found[g].dir => h = g
    BY <1>1, <2>2, MissingIsNone DEF Claimed, Stored, Takes, Taker, Saving, Busy
  <2> QED
    BY <2>1, <2>3
<1>5. Cleaned' /\ VictimGone' /\ WriteAgrees' /\ Reloaded'
  BY <1>1 DEF Cleaned, VictimGone, WriteAgrees, Reloaded
<1>6. Agree'
  BY <1>1, <1>2, <1>3 DEF Agree, Matches, Listed, Stored, Writing, Readable
<1> QED
  BY <1>4, <1>5, <1>6 DEF Live

\* A refresh that meets nothing in doubt ends with the storage it found, ...
LEMMA ReloadSame ==
    ASSUME TypeOK, Live, Up, doubt # Dir, LoadEnds, doubt' # Dir
    PROVE  storage' = storage
<1>1. loop = "loading" /\ doubt = {}
  BY DEF LoadEnds, Loading, Up
<1>2. \A h \in Handle : Known(h) => found[h] = storage[h]
  BY <1>1 DEF Live, Reloaded
<1>3. ASSUME NEW h \in Handle, Stored(h) PROVE Known(h)
  <2>1. disk[storage[h].dir].desc = [handle |-> h, state |-> storage[h].state] /\ storage[h].dir \in Dir
        /\ storage[h].state \in State
    BY <1>1, <1>3 DEF Live, Agree, Matches, Listed, Reloaded, Stored, TypeOK, Entry, Writing
  <2>2. disk[storage[h].dir].desc # Missing
    BY <2>1, MissingIsNone DEF Descriptor
  <2> QED
    BY <1>1, <2>1, <2>2 DEF LoadEnds, Live, Reloaded
<1>4. \A h \in Handle : found[h] = storage[h]
  BY <1>2, <1>3 DEF Known, Stored
<1> QED
  BY <1>4 DEF LoadEnds, TypeOK

\* ... and repairs nothing.
LEMMA NothingToRepair ==
    ASSUME TypeOK, Phase, Live, Up, doubt # Dir, doubt = {}, Loading, NEW d \in Dir, Reading(d)
    PROVE  /\ disk[d].desc # Damaged
           /\ Readable(d) => ~Known(disk[d].desc.handle)
<1>1. loop = "loading" /\ Agree /\ Reloaded /\ write = Missing /\ d \in todo
  BY DEF Loading, Up, Live, Reading
<1>2. CASE disk[d].desc = Missing
  BY <1>2, MissingIsNone DEF Readable
<1>3. CASE disk[d].desc # Missing
  <2>1. Readable(d) /\ storage[disk[d].desc.handle].dir = d /\ disk[d].desc.handle \in Handle
    <3>1. ~Writing(d) /\ d # victim /\ d \in Dir \ doubt
      BY <1>1, MissingIsNone DEF Writing, Phase
    <3>2. Readable(d) /\ storage[disk[d].desc.handle].dir = d
      BY <1>1, <1>3, <3>1 DEF Agree, Matches, Listed
    <3> QED
      BY <3>2 DEF Readable, Descriptor
  <2> QED
    BY <1>1, <2>1, MissingIsNone DEF Readable, Reloaded
<1> QED
  BY <1>2, <1>3

\* An instance is written to its own directory, which no other has.
LEMMA OneWriter ==
    ASSUME TypeOK, Claimed, loop = "saving", write # Missing
    PROVE  /\ write.handle \in Handle /\ write.dir \in Dir
           /\ Saving(write.handle) /\ Takes(write.handle, write.dir)
           /\ Stored(write.handle) => storage[write.handle].dir = write.dir
           /\ \A h \in Handle : h # write.handle /\ Stored(h) /\ write.dir \notin doubt
                 => storage[h].dir # write.dir
<1> DEFINE w == write.handle
<1>1. w \in Handle /\ write.dir \in Dir /\ Saving(w) /\ Takes(w, write.dir)
  BY DEF TypeOK, Write, Saving, Takes
<1>2. Stored(w) => storage[w].dir = write.dir
  BY <1>1 DEF Claimed
<1>3. ASSUME NEW h \in Handle, h # w, Stored(h), write.dir \notin doubt
      PROVE  storage[h].dir # write.dir
  <2>1. CASE Stored(w)
    BY <1>1, <1>2, <1>3, <2>1 DEF Claimed
  <2>2. CASE ~Stored(w)
    BY <1>1, <1>3, <2>2 DEF Claimed, StoredDirs
  <2> QED
    BY <2>1, <2>2
<1> QED
  BY <1>1, <1>2, <1>3

\* No step gives a directory to two instances: a name that is given out is not
\* stored, and nothing else is about to be.
LEMMA ClaimedKeeps ==
    ASSUME OneAtATime, Patient, TypeOK, Phase, Live, Up, Up', doubt # Dir, doubt' # Dir, Next
    PROVE  Claimed'
<1> USE DEF memory, io
<1>0. Claimed
  BY DEF Live
<1>1. CASE WriteTemp
  BY <1>0, <1>1 DEF WriteTemp, Step, Claimed, StoredDirs, Stored, Takes, Taker, Saving, Busy, TypeOK, Write
<1>2. CASE RemoveOld
  BY <1>0, <1>2 DEF RemoveOld, Step, Claimed, StoredDirs, Stored, Takes, Taker, Saving, Busy, TypeOK, Write
<1>3. CASE Rename
  <2> DEFINE w == write.handle
             new == [dir |-> write.dir, state |-> write.state]
  <2>1. w \in Handle /\ new \in Entry /\ new # Missing /\ new.dir = write.dir
    BY <1>3, MissingIsNone DEF Rename, TypeOK, Write, Entry
  <2>2. loop' # "saving" /\ UNCHANGED <<tasks, events, creating, cleaning, doubt>>
    BY <1>3 DEF Rename
  <2>3. CASE loop # "saving"
    BY <1>0, <1>3, <2>2, <2>3 DEF Rename, Claimed, StoredDirs, Stored, Takes, Taker, Saving, Busy
  <2>4. CASE loop = "saving"
    <3>1. storage' = [storage EXCEPT ![w] = new]
      BY <1>3, <2>4 DEF Rename, Written
    <3>2. Saving(w) /\ ~Busy(w) /\ creating[w] = Missing
      BY <1>0, <2>1, <2>4 DEF Saving, Claimed
    <3>3. ASSUME NEW h \in Handle
          PROVE  storage'[h] = IF h = w THEN new ELSE storage[h]
      BY <2>1, <3>1 DEF TypeOK
    <3>4. Stored(w) => storage[w].dir = write.dir
      BY <1>0, <1>3, <2>4, OneWriter DEF Rename
    <3>5. \A h \in Handle : h # w /\ Stored(h) /\ write.dir \notin doubt => storage[h].dir # write.dir
      BY <1>0, <1>3, <2>4, OneWriter DEF Rename
    <3> HIDE DEF w, new
    <3>6. \A h, g \in Handle : Stored(h)' /\ Stored(g)' /\ storage'[h].dir = storage'[g].dir
             /\ storage'[h].dir \notin doubt' => h = g
      BY <1>0, <2>1, <2>2, <3>3, <3>5 DEF Claimed, Stored
    <3>7. \A h \in Handle : ~Stored(h)' => \A d \in Dir \ doubt' : Takes(h, d)' => d \notin StoredDirs'
      <4> SUFFICES ASSUME NEW h \in Handle, ~Stored(h)', NEW d \in Dir \ doubt', Takes(h, d)',
                          NEW g \in Handle, Stored(g)', storage'[g].dir = d
                   PROVE  FALSE
        BY DEF StoredDirs
      <4>1. h # w /\ ~Stored(h) /\ Taker(h) /\ Takes(h, d)
        <5>1. h # w /\ ~Stored(h) /\ (tasks[h] = d \/ creating[h] = d) /\ d # Missing
          BY <2>1, <2>2, <3>3, MissingIsNone DEF Stored, Takes, Saving
        <5> QED
          BY <5>1 DEF Taker, Takes, Busy
      <4>2. CASE g = w
        <5>1. CASE Stored(w)
          BY <1>0, <2>1, <2>2, <3>3, <3>4, <4>1, <4>2, <5>1 DEF Claimed, StoredDirs, Stored
        <5>2. CASE ~Stored(w)
          BY <1>0, <2>1, <3>2, <4>1, <5>2 DEF Claimed, Taker
        <5> QED
          BY <5>1, <5>2
      <4>3. CASE g # w
        BY <1>0, <2>2, <3>3, <4>1, <4>3 DEF Claimed, StoredDirs, Stored
      <4> QED
        BY <4>2, <4>3
    <3>8. \A h \in Handle : Stored(h)' =>
             /\ creating'[h] = Missing
             /\ \A d \in Dir : Takes(h, d)' => d = storage'[h].dir
      BY <1>0, <2>1, <2>2, <3>2, <3>3, MissingIsNone DEF Claimed, Stored, Takes, Saving, Busy
    <3>9. \A h \in Handle : Taker(h)' => Taker(h)
      BY <2>1, <2>2, <3>3 DEF Taker, Stored, Saving, Busy
    <3> QED
      BY <1>0, <2>2, <3>6, <3>7, <3>8, <3>9 DEF Claimed, Saving, Busy
  <2> QED
    BY <2>3, <2>4
<1>4. CASE WriteFails
  BY <1>0, <1>4 DEF WriteFails, Claimed, StoredDirs, Stored, Takes, Taker, Saving, Busy, TypeOK, Write
<1>5. CASE Load
  BY <1>0, <1>5 DEF Load, Claimed, StoredDirs, Stored, Takes, Taker, Saving, Busy, Phase
<1>8. ASSUME NEW d \in Dir, Read(d) PROVE Claimed'
  BY <1>0, <1>8 DEF Read, Reading, Claimed, StoredDirs, Stored, Takes, Taker, Saving, Busy, Loading
<1>9. ASSUME NEW d \in Dir, NEW new \in Recovered, Rehandle(d, new) \/ Recover(d, new) PROVE Claimed'
  BY <1>0, <1>9 DEF Rehandle, Recover, Reading, Claimed, StoredDirs, Stored, Takes, Taker, Saving, Busy, Loading
<1>11. ASSUME NEW r \in Remote, UpdateSettings(r) PROVE Claimed'
  BY <1>0, <1>11 DEF UpdateSettings, MayTakeDir, Unsettled, Ended, Allocated, StartWrite, Claimed, StoredDirs, Stored, Takes, Taker, Saving, Busy, TypeOK, Handle
<1>12. ASSUME NEW r \in Remote, StartInstall(r) PROVE Claimed'
  BY <1>0, <1>12, MissingIsNone DEF StartInstall, MayTakeDir, Unsettled, Ended, Allocated, StartWrite, Claimed, StoredDirs, Stored, Takes, Taker, Saving, Busy, TypeOK, Handle
<1>13. ASSUME NEW l \in Local, NEW id \in Id, CreateLocal(l, id) PROVE Claimed'
  BY <1>0, <1>13, MissingIsNone DEF CreateLocal, Unused, MayTakeDir, Unsettled, Ended, Allocated, StartWrite, Claimed, StoredDirs, Stored, Takes, Taker, Saving, Busy, TypeOK, Handle
<1>14. ASSUME NEW l \in Local, RetryCreateLocal(l) PROVE Claimed'
  BY <1>0, <1>14, MissingIsNone DEF RetryCreateLocal, Ended, Claimed, StoredDirs, Stored, Takes, Taker, Saving, Busy, TypeOK, Handle
<1>15. ASSUME NEW h \in Handle, Finish(h) PROVE Claimed'
  BY <1>0, <1>15 DEF Finish, Ended, Claimed, StoredDirs, Stored, Takes, Taker, Saving, Busy, TypeOK
<1>16. ASSUME NEW h \in Handle, Fail(h) PROVE Claimed'
  BY <1>0, <1>16, MissingIsNone DEF Fail, Ended, Claimed, StoredDirs, Stored, Takes, Taker, Saving, Busy, TypeOK
<1>17. ASSUME NEW h \in Handle, CancelInstall(h) PROVE Claimed'
  BY <1>0, <1>17, MissingIsNone DEF CancelInstall, Ended, Claimed, StoredDirs, Stored, Takes, Taker, Saving, Busy, TypeOK
<1>18. ASSUME NEW e \in events, InstallFinished(e) PROVE Claimed'
  BY <1>0, <1>18, MissingIsNone DEF InstallFinished, StartWrite, Claimed, StoredDirs, Stored, Takes, Taker, Saving, Busy, TypeOK
<1>19. ASSUME NEW d \in Dir, Clean(d) PROVE Claimed'
  BY <1>0, <1>19 DEF Clean, Claimed, StoredDirs, Stored, Takes, Taker, Saving, Busy, TypeOK, Write
<1>20. ASSUME NEW h \in Handle, DeleteInstance(h) PROVE Claimed'
  BY <1>0, <1>20 DEF DeleteInstance, Claimed, StoredDirs, Stored, Takes, Taker, Saving, Busy, TypeOK
<1>21. ASSUME NEW h \in Handle, Play(h) PROVE Claimed'
  BY <1>0, <1>21 DEF Play, Claimed, StoredDirs, Stored, Takes, Taker, Saving, Busy
<1>22. CASE DeleteEnds
  BY <1>0, <1>22 DEF DeleteEnds, Claimed, StoredDirs, Stored, Takes, Taker, Saving, Busy
<1>23. ASSUME NEW some \in SUBSET Remote, Publish(some) PROVE Claimed'
  BY <1>0, <1>23 DEF Publish, Claimed, StoredDirs, Stored, Takes, Taker, Saving, Busy
<1>24. ASSUME LoadEnds PROVE Claimed'
  <2>1. storage' = storage
    BY <1>24, ReloadSame
  <2> QED
    BY <1>0, <1>24, <2>1 DEF LoadEnds, Claimed, StoredDirs, Stored, Takes, Taker, Saving, Busy, Loading, Up
<1>25. ASSUME NEW d \in Dir, Damage(d) \/ \E to \in Dir : Copy(d, to) PROVE Claimed'
  BY <1>25 DEF Damage, Copy, Up
<1> QED
  BY <1>1, <1>2, <1>3, <1>4, <1>5, <1>8, <1>9, <1>11, <1>12, <1>13, <1>14, <1>15,
     <1>16, <1>17, <1>18, <1>19, <1>20, <1>21, <1>22, <1>23, <1>24, <1>25 DEF Next, Crash, Up

\* What is said of a settled launcher is said of one step of it.
LEMMA StaysSettled ==
    ASSUME TypeOK, Phase, Up, Up', doubt' # Dir, Next
    PROVE  /\ doubt # Dir
           /\ loop' # "loading" \/ doubt' = {} => loop # "loading" \/ doubt = {}
<1> USE DEF TypeOK, memory, io
<1>1. LoadEnds => doubt = {}
  BY DEF LoadEnds, Loading, Up
<1>2. ~LoadEnds => doubt \subseteq doubt' /\ (loop = "loading" => loop' = "loading")
  BY DEF Next, WriteTemp, RemoveOld, Step, Rename, WriteFails, Load, Read, Up,
     Reading, Rehandle, Recover, UpdateSettings, StartInstall, CreateLocal, RetryCreateLocal, Fail, Finish,
     CancelInstall, InstallFinished, Clean, DeleteInstance, Play, DeleteEnds, Publish, Crash, Damage, Copy
<1>3. LoadEnds => doubt' = {}
  BY <1>1 DEF LoadEnds
<1>4. doubt' \subseteq Dir
  BY TypeKeeps
<1>5. CASE LoadEnds
  BY <1>1, <1>3, <1>5
<1>6. CASE ~LoadEnds
  <2>1. doubt # Dir
    BY <1>2, <1>4, <1>6
  <2>2. doubt' = {} => doubt = {}
    BY <1>2, <1>6
  <2> QED
    BY <1>2, <1>6, <2>1, <2>2
<1> QED
  BY <1>5, <1>6

\* What a cancelled creation has left is not an instance.
LEMMA CleanedKeeps ==
    ASSUME OneAtATime, Patient, TypeOK, Phase, Live, Up, Up', doubt # Dir, doubt' # Dir, Next
    PROVE  Cleaned'
<1> USE DEF memory, io
<1>0. Cleaned /\ Claimed
  BY DEF Live
<1>1. CASE WriteTemp
  BY <1>0, <1>1, MissingIsNone DEF WriteTemp, Step, Cleaned, StoredDirs, Stored, Writing, TypeOK, Write
<1>2. CASE RemoveOld
  BY <1>0, <1>2, MissingIsNone DEF RemoveOld, Step, Cleaned, StoredDirs, Stored, Writing, TypeOK, Write
<1>3. CASE Rename
  <2>1. /\ cleaning' = cleaning /\ doubt' = doubt /\ write' = Missing /\ write # Missing
        /\ \A d \in Dir \ {write.dir} : disk'[d] = disk[d]
    BY <1>3 DEF Rename, TypeOK
  <2>2. StoredDirs' \subseteq StoredDirs \cup {write.dir}
    BY <1>3, MissingIsNone DEF Rename, StoredDirs, Stored, Written, TypeOK, Write
  <2> QED
    BY <1>0, <2>1, <2>2 DEF Cleaned, Writing, TypeOK
<1>4. CASE WriteFails
  BY <1>0, <1>4 DEF WriteFails, Cleaned, StoredDirs, Stored, Writing, TypeOK, Write
<1>5. CASE Load
  BY <1>0, <1>5 DEF Load, Cleaned, StoredDirs, Stored, Writing
<1>6. CASE LoadEnds
  BY <1>0, <1>6, ReloadSame DEF LoadEnds, Cleaned, StoredDirs, Stored, Writing, Loading, Up
<1>7. ASSUME NEW d \in Dir, Read(d) PROVE Cleaned'
  BY <1>0, <1>7 DEF Read, Cleaned, StoredDirs, Stored, Writing
<1>8. ASSUME NEW d \in Dir, NEW new \in Recovered, Rehandle(d, new) \/ Recover(d, new) PROVE Cleaned'
  <2>1. disk[d].desc # Missing
    BY <1>8, MissingIsNone DEF Rehandle, Recover, Readable
  <2>2. d \notin cleaning \ doubt
    BY <1>0, <2>1 DEF Cleaned
  <2>3. /\ write'.dir = d /\ UNCHANGED <<cleaning, storage, doubt>>
        /\ \A x \in Dir \ {d} : disk'[x] = disk[x]
    BY <1>8 DEF Rehandle, Recover, StartWrite, Backup, TypeOK
  <2> QED
    BY <1>0, <2>2, <2>3 DEF Cleaned, StoredDirs, Stored, Writing, TypeOK
<1>9. ASSUME NEW r \in Remote, UpdateSettings(r) PROVE Cleaned'
  BY <1>9 DEF UpdateSettings, MayTakeDir, Unsettled, Cleaned
<1>10. ASSUME NEW r \in Remote, StartInstall(r) PROVE Cleaned'
  BY <1>0, <1>10 DEF StartInstall, Cleaned, StoredDirs, Stored, Writing
<1>12. ASSUME NEW l \in Local, NEW id \in Id, CreateLocal(l, id) PROVE Cleaned'
  BY <1>0, <1>12 DEF CreateLocal, Cleaned, StoredDirs, Stored, Writing
<1>13. ASSUME NEW h \in Handle, Finish(h) \/ Fail(h) PROVE Cleaned'
  BY <1>0, <1>13 DEF Finish, Fail, Cleaned, StoredDirs, Stored, Writing
<1>14. ASSUME NEW h \in Handle, CancelInstall(h) PROVE Cleaned'
  <2>1. ASSUME creating[h] # Missing, ~Stored(h), creating[h] \notin doubt
        PROVE  disk[creating[h]].desc = Missing /\ creating[h] \notin StoredDirs
    <3>1. creating[h] \in Dir \ doubt /\ Takes(h, creating[h])
      BY <2>1 DEF TypeOK, Takes
    <3>2. creating[h] \notin StoredDirs
      BY <1>0, <2>1, <3>1 DEF Claimed
    <3>3. Agree /\ write = Missing /\ victim = Missing
      BY <1>14 DEF Live, Phase, CancelInstall
    <3> QED
      BY <3>1, <3>2, <3>3, MissingIsNone DEF Agree, Matches, Listed, Readable, Descriptor, StoredDirs, Writing
  <2>2. /\ UNCHANGED <<disk, storage, write, doubt>> /\ write = Missing
        /\ cleaning' = IF creating[h] # Missing /\ ~Stored(h)
                       THEN cleaning \cup {creating[h]} ELSE cleaning
    BY <1>14 DEF CancelInstall, Phase
  <2> QED
    BY <1>0, <2>1, <2>2 DEF Cleaned, StoredDirs, Stored, Writing
<1>15. ASSUME NEW e \in events, InstallFinished(e) PROVE Cleaned'
  <2>1. e.handle \in Handle /\ e.dir \in Dir /\ tasks[e.handle] = e.dir
    BY <1>0 DEF Claimed, TypeOK
  <2>2. e.dir \notin cleaning \ doubt
    <3>1. CASE Stored(e.handle)
      <4>1. e.dir = storage[e.handle].dir
        BY <1>0, <2>1, <3>1 DEF Claimed, Takes
      <4> QED
        BY <1>0, <2>1, <3>1, <4>1 DEF Cleaned, StoredDirs
    <3>2. CASE ~Stored(e.handle)
      BY <1>0, <2>1, <3>2, MissingIsNone DEF Claimed, Taker, Busy
    <3> QED
      BY <3>1, <3>2
  <2>3. write'.dir = e.dir /\ UNCHANGED <<disk, storage, cleaning, doubt>>
    BY <1>15 DEF InstallFinished, StartWrite
  <2> QED
    BY <1>0, <2>2, <2>3 DEF Cleaned, StoredDirs, Stored, Writing
<1>16. ASSUME NEW d \in Dir, Clean(d) PROVE Cleaned'
  BY <1>0, <1>16 DEF Clean, Cleaned, StoredDirs, Stored, Writing, TypeOK, Write
<1>17. ASSUME NEW h \in Handle, DeleteInstance(h) PROVE Cleaned'
  BY <1>0, <1>17 DEF DeleteInstance, Cleaned, StoredDirs, Stored, Writing, TypeOK, Entry
<1>18. ASSUME NEW h \in Handle, Play(h) PROVE Cleaned'
  BY <1>0, <1>18 DEF Play, Cleaned, StoredDirs, Stored, Writing, TypeOK, Entry
<1>19. CASE DeleteEnds
  BY <1>0, <1>19 DEF DeleteEnds, Cleaned, StoredDirs, Stored, Writing, TypeOK, Empty
<1>20. ASSUME NEW some \in SUBSET Remote, Publish(some) PROVE Cleaned'
  BY <1>0, <1>20 DEF Publish, Cleaned, StoredDirs, Stored, Writing
<1>21. ASSUME NEW d \in Dir, Damage(d) \/ \E to \in Dir : Copy(d, to) PROVE Cleaned'
  BY <1>21 DEF Damage, Copy, Up
<1>22. ASSUME NEW l \in Local, RetryCreateLocal(l) PROVE Cleaned'
  BY <1>0, <1>22 DEF RetryCreateLocal, Cleaned, StoredDirs, Stored, Writing
<1> QED
  BY <1>1, <1>2, <1>3, <1>4, <1>5, <1>6, <1>7, <1>8, <1>9, <1>10, <1>12, <1>13, <1>14, <1>15,
     <1>16, <1>17, <1>18, <1>19, <1>20, <1>21, <1>22 DEF Next, Crash, Up

\* The entry of a directory that is being deleted is gone.
LEMMA VictimKeeps ==
    ASSUME TypeOK, Phase, Live, Up, Up', doubt # Dir, doubt' # Dir, Next
    PROVE  VictimGone'
<1> SUFFICES ASSUME loop' = "deleting", victim' \notin doubt', NEW g \in Handle, Stored(g)',
                    storage'[g].dir = victim'
             PROVE  FALSE
  BY DEF VictimGone, StoredDirs
<1> USE DEF memory, io, Phase
<1>0. VictimGone /\ Claimed
  BY DEF Live
<1>1. ASSUME NEW h \in Handle, DeleteInstance(h) PROVE FALSE
  <2>1. /\ storage' = [storage EXCEPT ![h] = Missing] /\ victim' = storage[h].dir /\ Stored(h)
        /\ doubt' = doubt
    BY <1>1 DEF DeleteInstance
  <2>2. g # h /\ Stored(g) /\ storage'[g] = storage[g]
    BY <2>1 DEF Stored, TypeOK
  <2> QED
    BY <1>0, <2>1, <2>2 DEF Claimed
<1>2. CASE loop = "deleting" /\ UNCHANGED <<storage, victim, doubt>>
  BY <1>0, <1>2 DEF VictimGone, StoredDirs, Stored
<1> QED
  BY <1>1, <1>2, MissingIsNone DEF Next, WriteTemp, RemoveOld, Step, Rename, WriteFails, Load, LoadEnds, Read,
     Reading, Loading, Rehandle, Recover, UpdateSettings, StartInstall, CreateLocal, RetryCreateLocal, Fail,
     Finish, CancelInstall, InstallFinished, Clean, Play, DeleteEnds, Publish, Crash, Damage, Copy

\* What is written replaces the descriptor of its instance, or nothing.
LEMMA WriteKeeps ==
    ASSUME OneAtATime, Patient, TypeOK, Phase, Live, Up, Up', doubt # Dir, doubt' # Dir, Next,
           loop # "loading" \/ doubt = {}
    PROVE  WriteAgrees'
<1> SUFFICES ASSUME loop' = "saving", write'.dir \notin doubt' PROVE WriteAgrees'
  BY DEF WriteAgrees
<1> USE DEF memory, io
<1>0. Cleaned /\ Claimed /\ WriteAgrees /\ Agree
  BY DEF Live
<1>1. CASE WriteTemp
  BY <1>0, <1>1 DEF WriteTemp, Step, WriteAgrees, Stored, TypeOK, Write
<1>2. CASE RemoveOld
  <2>1. /\ write.dir \in Dir /\ write'.dir = write.dir /\ write'.step = "rename"
        /\ disk' = [disk EXCEPT ![write.dir].desc = Missing]
    BY <1>2 DEF RemoveOld, Step, TypeOK, Write
  <2>2. disk'[write.dir].desc = Missing
    BY <2>1 DEF TypeOK
  <2> QED
    BY <2>1, <2>2 DEF WriteAgrees
<1>3. CASE UNCHANGED <<loop, write, storage, doubt>> /\ loop = "saving"
           /\ disk'[write.dir].desc = disk[write.dir].desc
  BY <1>0, <1>3 DEF WriteAgrees, Stored
<1>4. ASSUME NEW r \in Remote, UpdateSettings(r) PROVE WriteAgrees'
  <2>1. PICK d \in Dir : d \notin StoredDirs /\ StartWrite(d, r, "pending")
    BY <1>4 DEF UpdateSettings, Allocated
  <2>2. disk[d].desc = Missing
    BY <1>0, <1>4, <2>1, MissingIsNone
       DEF UpdateSettings, StartWrite, Agree, Matches, Listed, Readable, Descriptor, StoredDirs, Writing, Phase
  <2>3. write'.dir = d /\ write'.handle = r /\ write'.step = "temp" /\ UNCHANGED <<disk, storage>>
        /\ ~Stored(r)
    BY <1>4, <2>1 DEF UpdateSettings, StartWrite
  <2> QED
    BY <2>2, <2>3 DEF WriteAgrees, Stored
<1>5. ASSUME NEW e \in events, InstallFinished(e) PROVE WriteAgrees'
  <2>1. e.handle \in Handle /\ e.dir \in Dir /\ tasks[e.handle] = e.dir
    BY <1>0 DEF Claimed, TypeOK
  <2>2. /\ write'.dir = e.dir /\ write'.handle = e.handle /\ write'.step = "temp"
        /\ UNCHANGED <<disk, storage, doubt>> /\ write = Missing /\ victim = Missing
    BY <1>5 DEF InstallFinished, StartWrite, Phase
  <2>3. disk[e.dir].desc = IF Stored(e.handle)
             THEN [handle |-> e.handle, state |-> storage[e.handle].state] ELSE Missing
    <3>1. CASE Stored(e.handle)
      <4>1. e.dir = storage[e.handle].dir
        BY <1>0, <2>1, <3>1 DEF Claimed, Takes
      <4> QED
        BY <1>0, <2>1, <2>2, <3>1, <4>1 DEF Agree, Matches, Listed, Writing
    <3>2. CASE ~Stored(e.handle)
      <4>1. e.dir \notin StoredDirs
        BY <1>0, <2>1, <2>2, <3>2 DEF Claimed, Takes
      <4> QED
        BY <1>0, <2>1, <2>2, <3>2, <4>1, MissingIsNone
           DEF Agree, Matches, Listed, Readable, Descriptor, StoredDirs, Writing
    <3> QED
      BY <3>1, <3>2
  <2> QED
    BY <2>2, <2>3 DEF WriteAgrees, Stored
<1>6. ASSUME NEW d \in Dir, Clean(d) PROVE WriteAgrees'
  <2>1. loop = "saving" /\ write # Missing /\ write.dir \in Dir /\ doubt' = doubt
    BY <1>6 DEF Clean, Phase, TypeOK, Write
  <2>2. write'.dir = write.dir
    BY <1>6, <2>1 DEF Clean, TypeOK, Write
  <2>3. d # write.dir
    BY <1>0, <1>6, <2>1, <2>2 DEF Clean, Cleaned, Writing
  <2> QED
    BY <1>3, <1>6, <2>1, <2>3 DEF Clean, TypeOK
<1>7. ASSUME NEW h \in Handle, Play(h) PROVE WriteAgrees'
  <2>1. loop = "saving" /\ write # Missing /\ write.dir \in Dir
    BY <1>7 DEF Play, Phase, TypeOK, Write
  <2>2. disk'[write.dir].desc = disk[write.dir].desc
    BY <1>7, <2>1 DEF Play, TypeOK
  <2> QED
    BY <1>3, <1>7, <2>1, <2>2 DEF Play
<1>8. ASSUME NEW h \in Handle, Finish(h) PROVE WriteAgrees'
  BY <1>3, <1>8 DEF Finish
<1> QED
  BY <1>1, <1>2, <1>4, <1>5, <1>6, <1>7, <1>8 DEF Next, Rename, WriteFails, Load, LoadEnds, Read,
     Reading, Loading, Rehandle, Recover, StartInstall, CreateLocal, RetryCreateLocal, Fail,
     CancelInstall, DeleteInstance, DeleteEnds, Publish, Crash, Damage, Copy

\* What a step that leaves an entry and a descriptor alone keeps.
LEMMA MatchesKept ==
    ASSUME NEW h \in Handle, Matches(h), storage'[h] = storage[h],
           disk'[storage[h].dir].desc = disk[storage[h].dir].desc
    PROVE  Matches(h)'
BY DEF Matches

\* The same of a directory.
LEMMA ListedKept ==
    ASSUME NEW d \in Dir, Listed(d), disk'[d].desc = disk[d].desc,
           storage'[disk[d].desc.handle] = storage[disk[d].desc.handle]
    PROVE  Listed(d)'
BY DEF Listed, Readable, Stored

\* What a step that leaves the vector alone keeps, where it does not write.
LEMMA AgreeUnchanged ==
    ASSUME TypeOK, Agree, UNCHANGED <<storage, victim>>, doubt \subseteq doubt',
           \A d \in Dir : /\ Writing(d) => Writing(d)' \/ d \in doubt'
                          /\ disk'[d].desc = disk[d].desc \/ Writing(d)'
    PROVE  Agree'
<1>1. ASSUME NEW h \in Handle, Stored(h)', storage'[h].dir \notin doubt', ~Writing(storage[h].dir)'
      PROVE  Matches(h)'
  <2>1. storage[h].dir \in Dir \ doubt /\ Stored(h) /\ ~Writing(storage[h].dir)
    BY <1>1 DEF Stored, TypeOK, Entry
  <2>2. Matches(h) /\ disk'[storage[h].dir].desc = disk[storage[h].dir].desc
    BY <1>1, <2>1 DEF Agree
  <2> QED
    BY <2>2, MatchesKept
<1>2. ASSUME NEW d \in Dir \ doubt', disk'[d].desc # Missing, ~Writing(d)', d # victim'
      PROVE  Listed(d)'
  <2>1. d \in Dir \ doubt /\ ~Writing(d) /\ disk'[d].desc = disk[d].desc
    BY <1>2
  <2>2. Listed(d)
    BY <1>2, <2>1 DEF Agree
  <2> QED
    BY <2>1, <2>2, ListedKept
<1> QED
  BY <1>1, <1>2 DEF Agree

\* The disk and the vector agree.
LEMMA AgreeKeeps ==
    ASSUME OneAtATime, Patient, TypeOK, Phase, Live, Up, Up', doubt # Dir, doubt' # Dir, Next,
           loop # "loading" \/ doubt = {}
    PROVE  Agree'
<1> USE DEF memory, io
<1>0. Cleaned /\ Claimed /\ WriteAgrees /\ Agree /\ VictimGone /\ Reloaded
  BY DEF Live
<1>1. CASE WriteTemp
  <2>1. UNCHANGED <<disk, storage, victim, doubt>> /\ write' # Missing /\ write'.dir = write.dir
    BY <1>1, MissingIsNone DEF WriteTemp, Step, TypeOK, Write
  <2> QED
    BY <1>0, <2>1, AgreeUnchanged DEF Writing
<1>2. CASE RemoveOld
  <2>1. UNCHANGED <<storage, victim, doubt>> /\ write' # Missing /\ write'.dir = write.dir
    BY <1>2, MissingIsNone DEF RemoveOld, Step, TypeOK, Write
  <2>2. \A d \in Dir \ {write.dir} : disk'[d] = disk[d]
    BY <1>2 DEF RemoveOld, TypeOK
  <2> QED
    BY <1>0, <2>1, <2>2, AgreeUnchanged DEF Writing
<1>3. CASE Rename
  <2> DEFINE w == write.handle
             new == [dir |-> write.dir, state |-> write.state]
             desc == [handle |-> w, state |-> write.state]
  <2>1. loop = "saving" /\ write # Missing
    BY <1>0, <1>3 DEF Rename, Phase, Reloaded, Up, TypeOK
  <2>2. /\ w \in Handle /\ write.dir \in Dir /\ new \in Entry /\ new # Missing
        /\ new.dir = write.dir /\ new.state = write.state
        /\ desc \in Descriptor /\ desc # Missing /\ desc.handle = w
    BY <2>1, MissingIsNone DEF TypeOK, Write, Entry, Descriptor
  <2>3. /\ storage' = [storage EXCEPT ![w] = new] /\ UNCHANGED <<doubt, victim>> /\ write' = Missing
        /\ disk' = [disk EXCEPT ![write.dir].desc = desc]
    BY <1>3, <2>1 DEF Rename, Written
  <2>4. /\ \A h \in Handle : storage'[h] = IF h = w THEN new ELSE storage[h]
        /\ \A d \in Dir : disk'[d].desc = IF d = write.dir THEN desc ELSE disk[d].desc
    BY <2>2, <2>3 DEF TypeOK
  <2>5. /\ Stored(w) => storage[w].dir = write.dir
        /\ \A h \in Handle : h # w /\ Stored(h) /\ write.dir \notin doubt => storage[h].dir # write.dir
    BY <1>0, <2>1, OneWriter
  <2>6. desc = [handle |-> w, state |-> new.state]
    BY <2>2
  <2> HIDE DEF w, new, desc
  <2>7. ASSUME NEW h \in Handle, Stored(h)', storage'[h].dir \notin doubt'
        PROVE  Matches(h)'
    <3>1. CASE h = w
      <4>1. storage'[h] = new /\ disk'[write.dir].desc = desc
        BY <2>2, <2>4, <3>1
      <4> QED
        BY <2>2, <2>6, <3>1, <4>1 DEF Matches
    <3>2. CASE h # w
      <4>1. Stored(h) /\ storage'[h] = storage[h] /\ storage[h].dir \in Dir
        BY <2>4, <2>7, <3>2 DEF Stored, TypeOK, Entry
      <4>2. storage[h].dir # write.dir
        BY <2>3, <2>5, <2>7, <3>2, <4>1
      <4>3. Matches(h) /\ disk'[storage[h].dir].desc = disk[storage[h].dir].desc
        BY <1>0, <2>3, <2>4, <2>7, <4>1, <4>2 DEF Agree, Writing
      <4> QED
        BY <4>1, <4>3, MatchesKept
    <3> QED
      BY <3>1, <3>2
  <2>8. ASSUME NEW d \in Dir \ doubt', disk'[d].desc # Missing
        PROVE  Listed(d)'
    <3>1. CASE d = write.dir
      <4>1. storage'[w] = new /\ disk'[d].desc = desc
        BY <2>2, <2>4, <3>1
      <4> QED
        BY <2>2, <3>1, <4>1 DEF Listed, Readable, Stored
    <3>2. CASE d # write.dir
      <4>1. victim = Missing
        BY <2>1 DEF Phase
      <4>2. d \in Dir \ doubt /\ disk'[d].desc = disk[d].desc /\ ~Writing(d) /\ d # victim
        BY <2>3, <2>4, <3>2, <4>1, MissingIsNone DEF Writing
      <4>3. Listed(d)
        BY <1>0, <2>8, <4>2 DEF Agree
      <4>4. disk[d].desc.handle \in Handle \ {w}
        BY <2>5, <3>2, <4>3 DEF Listed, Readable, Descriptor
      <4> QED
        BY <2>4, <4>2, <4>3, <4>4, ListedKept
    <3> QED
      BY <3>1, <3>2
  <2> QED
    BY <2>7, <2>8 DEF Agree
<1>4. CASE WriteFails
  <2>1. loop = "saving" /\ write # Missing
    BY <1>0, <1>4 DEF WriteFails, Phase, Reloaded, Up, TypeOK
  <2>2. /\ UNCHANGED <<storage, victim>> /\ doubt' = doubt \cup {write.dir}
        /\ \A d \in Dir : disk'[d].desc = disk[d].desc
    BY <1>4, <2>1 DEF WriteFails, TypeOK
  <2> QED
    BY <1>0, <2>2, AgreeUnchanged DEF Writing
<1>5. CASE Load
  BY <1>0, <1>5, AgreeUnchanged DEF Load, Writing
<1>6. CASE LoadEnds
  <2>1. storage' = storage /\ UNCHANGED <<disk, victim, write>> /\ doubt = {}
    BY <1>6, ReloadSame DEF LoadEnds, Loading, Up
  <2> QED
    BY <1>0, <2>1, AgreeUnchanged DEF Writing
<1>7. ASSUME NEW d \in Dir, Read(d) PROVE Agree'
  BY <1>0, <1>7, AgreeUnchanged DEF Read, Writing
<1>8. ASSUME NEW d \in Dir, NEW new \in Recovered, Rehandle(d, new) \/ Recover(d, new) PROVE Agree'
  BY <1>8, NothingToRepair DEF Rehandle, Recover, Reading, Loading, Up
<1>9. ASSUME NEW r \in Remote, UpdateSettings(r) PROVE Agree'
  BY <1>0, <1>9, AgreeUnchanged DEF UpdateSettings, Writing, Phase
<1>10. ASSUME NEW r \in Remote, StartInstall(r) PROVE Agree'
  BY <1>0, <1>10, AgreeUnchanged DEF StartInstall, Writing
<1>11. ASSUME NEW l \in Local, NEW id \in Id, CreateLocal(l, id) PROVE Agree'
  BY <1>0, <1>11, AgreeUnchanged DEF CreateLocal, Writing
<1>12. ASSUME NEW l \in Local, RetryCreateLocal(l) PROVE Agree'
  BY <1>0, <1>12, AgreeUnchanged DEF RetryCreateLocal, Writing
<1>13. ASSUME NEW h \in Handle, Finish(h) \/ Fail(h) \/ CancelInstall(h) PROVE Agree'
  BY <1>0, <1>13, AgreeUnchanged DEF Finish, Fail, CancelInstall, Writing
<1>14. ASSUME NEW e \in events, InstallFinished(e) PROVE Agree'
  BY <1>0, <1>14, AgreeUnchanged DEF InstallFinished, Writing, Phase
<1>15. ASSUME NEW c \in Dir, Clean(c) PROVE Agree'
  <2>1. /\ UNCHANGED <<storage, victim, doubt>>
        /\ disk'[c].desc = Missing
        /\ \A d \in Dir \ {c} : disk'[d] = disk[d]
    BY <1>15 DEF Clean, TypeOK, Empty
  <2>2. \A d \in Dir : Writing(d)' <=> Writing(d)
    BY <1>15, MissingIsNone DEF Clean, Writing, TypeOK, Write
  <2>3. c \notin doubt => disk[c].desc = Missing
    BY <1>0, <1>15 DEF Clean, Cleaned
  <2>4. ASSUME NEW h \in Handle, Stored(h)', storage'[h].dir \notin doubt', ~Writing(storage[h].dir)'
        PROVE  Matches(h)'
    <3>1. Stored(h) /\ storage'[h] = storage[h] /\ storage[h].dir \in Dir
      BY <2>1, <2>4 DEF Stored, TypeOK, Entry
    <3>2. storage[h].dir # c
      BY <1>0, <1>15, <2>1, <2>4, <3>1 DEF Clean, Cleaned, StoredDirs
    <3>3. Matches(h) /\ disk'[storage[h].dir].desc = disk[storage[h].dir].desc
      BY <1>0, <2>1, <2>2, <2>4, <3>1, <3>2 DEF Agree
    <3> QED
      BY <3>1, <3>3, MatchesKept
  <2>5. ASSUME NEW d \in Dir \ doubt', disk'[d].desc # Missing, ~Writing(d)', d # victim'
        PROVE  Listed(d)'
    <3>1. Listed(d) /\ disk'[d].desc = disk[d].desc
      BY <1>0, <2>1, <2>2, <2>5 DEF Agree
    <3> QED
      BY <2>1, <3>1, ListedKept
  <2> QED
    BY <2>4, <2>5 DEF Agree
<1>16. ASSUME NEW g \in Handle, DeleteInstance(g) PROVE Agree'
  <2>1. /\ \A d \in Dir : disk'[d].desc = disk[d].desc
        /\ \A h \in Handle : storage'[h] = IF h = g THEN Missing ELSE storage[h]
        /\ UNCHANGED <<doubt, write>> /\ victim' = storage[g].dir /\ victim = Missing /\ Stored(g)
        /\ write = Missing
    BY <1>16 DEF DeleteInstance, TypeOK, Phase
  <2>2. ASSUME NEW h \in Handle, Stored(h)', storage'[h].dir \notin doubt'
        PROVE  Matches(h)'
    <3>1. Stored(h) /\ storage'[h] = storage[h] /\ storage[h].dir \in Dir
      BY <2>1, <2>2 DEF Stored, TypeOK, Entry
    <3>2. Matches(h)
      BY <1>0, <2>1, <2>2, <3>1, MissingIsNone DEF Agree, Writing
    <3> QED
      BY <2>1, <3>1, <3>2, MatchesKept
  <2>3. ASSUME NEW d \in Dir \ doubt', disk'[d].desc # Missing, d # victim'
        PROVE  Listed(d)'
    <3>1. Listed(d)
      BY <1>0, <2>1, <2>3, MissingIsNone DEF Agree, Writing
    <3>2. disk[d].desc.handle \in Handle \ {g}
      BY <2>1, <2>3, <3>1 DEF Listed, Readable, Descriptor
    <3> QED
      BY <2>1, <3>1, <3>2, ListedKept
  <2> QED
    BY <2>2, <2>3 DEF Agree
<1>17. ASSUME NEW h \in Handle, Play(h) PROVE Agree'
  <2>1. \A d \in Dir : disk'[d].desc = disk[d].desc
    BY <1>17 DEF Play, TypeOK
  <2> QED
    BY <1>0, <1>17, <2>1, AgreeUnchanged DEF Play, Writing
<1>18. CASE DeleteEnds
  <2>1. /\ UNCHANGED <<storage, write>> /\ write = Missing /\ victim \in Dir /\ victim' = Missing
        /\ doubt \subseteq doubt'
        /\ \A d \in Dir \ {victim} : disk'[d] = disk[d]
        /\ disk'[victim].desc = Missing \/ victim \in doubt'
    BY <1>18 DEF DeleteEnds, Phase, TypeOK, Empty
  <2>2. ASSUME NEW h \in Handle, Stored(h)', storage'[h].dir \notin doubt'
        PROVE  Matches(h)'
    <3>1. Stored(h) /\ storage'[h] = storage[h] /\ storage[h].dir \in Dir /\ storage[h].dir \notin doubt
      BY <2>1, <2>2 DEF Stored, TypeOK, Entry
    <3>2. storage[h].dir # victim
      BY <1>0, <1>18, <3>1 DEF DeleteEnds, VictimGone, StoredDirs
    <3>3. Matches(h)
      BY <1>0, <2>1, <3>1 DEF Agree, Writing
    <3> QED
      BY <2>1, <3>1, <3>2, <3>3, MatchesKept
  <2>3. ASSUME NEW d \in Dir \ doubt', disk'[d].desc # Missing
        PROVE  Listed(d)'
    <3>1. d # victim
      BY <2>1, <2>3
    <3>2. Listed(d)
      BY <1>0, <2>1, <2>3, <3>1 DEF Agree, Writing
    <3> QED
      BY <2>1, <3>1, <3>2, ListedKept
  <2> QED
    BY <2>2, <2>3 DEF Agree
<1>19. ASSUME NEW some \in SUBSET Remote, Publish(some) PROVE Agree'
  BY <1>0, <1>19, AgreeUnchanged DEF Publish, Writing
<1>20. ASSUME NEW d \in Dir, Damage(d) \/ \E to \in Dir : Copy(d, to) PROVE Agree'
  BY <1>20 DEF Damage, Copy, Up
<1> QED
  BY <1>1, <1>2, <1>3, <1>4, <1>5, <1>6, <1>7, <1>8, <1>9, <1>10, <1>11, <1>12, <1>13, <1>14, <1>15,
     <1>16, <1>17, <1>18, <1>19, <1>20 DEF Next, Crash, Up

\* What a refresh has read is what the vector says.
LEMMA ReloadedKeeps ==
    ASSUME TypeOK, Phase, Live, Up, Up', doubt # Dir, doubt' # Dir, Next,
           loop # "loading" \/ doubt = {}, loop' # "loading" \/ doubt' = {}
    PROVE  Reloaded'
<1> SUFFICES ASSUME loop' = "loading", doubt' = {} PROVE Reloaded'
  BY DEF Reloaded
<1> USE DEF memory, io
<1>0. Agree /\ Reloaded
  BY DEF Live
<1>1. CASE Load
  BY <1>1 DEF Load, Reloaded, Known, Nothing, Phase
<1>2. ASSUME NEW d \in Dir, Read(d) PROVE Reloaded'
  <2> DEFINE g == disk[d].desc.handle
             new == [dir |-> d, state |-> disk[d].desc.state]
  <2>1. /\ loop = "loading" /\ write = Missing /\ victim = Missing /\ d \in todo /\ doubt = {}
        /\ found' = [found EXCEPT ![g] = new] /\ todo' = todo \ {d} /\ UNCHANGED <<disk, storage, write>>
    BY <1>2 DEF Read, Reading, Phase
  <2>2. disk[d].desc \in Descriptor /\ disk[d].desc # Missing /\ g \in Handle
    BY <1>2, MissingIsNone DEF Read, Readable, Descriptor
  <2>3. Listed(d)
    BY <1>0, <2>1, <2>2, MissingIsNone DEF Agree, Writing
  <2>4. Matches(g)
    BY <1>0, <2>1, <2>2, <2>3 DEF Agree, Listed, Writing
  <2>5. new = storage[g] /\ new.dir = d
    <3>1. Stored(g) /\ storage[g].dir = d /\ storage[g] \in Entry
      BY <2>2, <2>3 DEF Listed, Stored, TypeOK
    <3>2. disk[d].desc = [handle |-> g, state |-> storage[g].state]
      BY <2>4, <3>1 DEF Matches
    <3>3. disk[d].desc.state = storage[g].state
      BY <3>2
    <3> QED
      BY <3>1, <3>3 DEF Entry
  <2>6. new # Missing
    BY <2>3, <2>5 DEF Listed, Stored
  <2>7. \A h \in Handle : found'[h] = IF h = g THEN new ELSE found[h]
    BY <2>1, <2>2 DEF TypeOK
  <2> HIDE DEF g, new
  <2>8. \A h \in Handle : Known(h)' => found'[h] = storage'[h] /\ found'[h].dir \notin todo'
    BY <1>0, <2>1, <2>5, <2>7 DEF Reloaded, Known
  <2>9. \A x \in Dir \ todo' : disk'[x].desc # Missing => Known(disk[x].desc.handle)'
    <3> SUFFICES ASSUME NEW x \in Dir, x \notin todo', disk[x].desc # Missing
                 PROVE  found'[disk[x].desc.handle] # Missing
      BY <2>1 DEF Known
    <3>1. CASE x = d
      BY <2>2, <2>6, <2>7, <3>1 DEF g
    <3>2. CASE x # d
      <4>1. found[disk[x].desc.handle] # Missing
        BY <1>0, <2>1, <3>2 DEF Reloaded, Known
      <4>2. Listed(x)
        BY <1>0, <2>1, MissingIsNone DEF Agree, Writing
      <4>3. disk[x].desc.handle \in Handle
        BY <4>2 DEF Listed, Readable, Descriptor
      <4> QED
        BY <2>6, <2>7, <4>1, <4>3
    <3> QED
      BY <3>1, <3>2
  <2> QED
    BY <2>1, <2>8, <2>9 DEF Reloaded
<1>3. ASSUME NEW d \in Dir, NEW new \in Recovered, Rehandle(d, new) \/ Recover(d, new) PROVE Reloaded'
  <2>1. doubt = {} /\ Loading /\ Reading(d)
    BY <1>3 DEF Rehandle, Recover, Reading
  <2> QED
    BY <1>3, <2>1, NothingToRepair DEF Rehandle, Recover
<1>4. ASSUME NEW c \in Dir, Clean(c) PROVE Reloaded'
  <2>1. /\ write' = Missing /\ UNCHANGED <<found, storage, todo>> /\ loop = "loading" /\ disk'[c].desc = Missing
        /\ \A d \in Dir \ {c} : disk'[d] = disk[d]
    BY <1>0, <1>4 DEF Clean, Reloaded, TypeOK, Empty
  <2> QED
    BY <1>0, <2>1 DEF Reloaded, Known
<1>5. ASSUME NEW h \in Handle, Finish(h) PROVE Reloaded'
  BY <1>0, <1>5 DEF Finish, Reloaded, Known
<1>6. CASE Rename \/ WriteFails \/ WriteTemp \/ RemoveOld
  <2>1. loop = "loading" /\ write # Missing
    BY <1>6 DEF Rename, WriteFails, WriteTemp, RemoveOld, Step
  <2> QED
    BY <1>0, <2>1 DEF Reloaded
<1> QED
  BY <1>1, <1>2, <1>3, <1>4, <1>5, <1>6 DEF Next, LoadEnds, UpdateSettings, StartInstall, CreateLocal,
     RetryCreateLocal, Fail, CancelInstall, InstallFinished, DeleteInstance, Play, DeleteEnds, Publish,
     Crash, Damage, Copy

\* All of it together.
LEMMA LiveKeeps ==
    ASSUME OneAtATime, Patient, TypeOK, Phase, Started, Live, [Next]_vars
    PROVE  Live'
<1> SUFFICES ASSUME Up', doubt' # Dir PROVE Live'
  BY DEF Live
<1>1. CASE loop = "starting" /\ LoadEnds
  BY <1>1, StartEnds
<1>2. CASE UNCHANGED vars
  BY <1>2 DEF vars, memory, io, Live, Up, Claimed, Cleaned, VictimGone, Agree, WriteAgrees, Reloaded,
     Matches, Listed, Stored, StoredDirs, Takes, Taker, Saving, Busy, Writing, Known, Readable
<1>3. CASE Next /\ ~(loop = "starting" /\ LoadEnds)
  <2>1. Up
    BY <1>3 DEF Up, Next, WriteTemp, RemoveOld, Step, Rename, WriteFails, Load, LoadEnds, Read,
     Reading, Loading, Rehandle, Recover, UpdateSettings, StartInstall, CreateLocal, RetryCreateLocal, Fail, Finish,
     CancelInstall, InstallFinished, Clean, DeleteInstance, Play, DeleteEnds, Publish, Crash, Damage, Copy,
     memory, io, Phase, Busy, Nothing
  <2>2. doubt # Dir /\ (loop' # "loading" \/ doubt' = {} => loop # "loading" \/ doubt = {})
    BY <1>3, <2>1, StaysSettled
  <2>3. Claimed' /\ Cleaned' /\ VictimGone'
    BY <1>3, <2>1, <2>2, ClaimedKeeps, CleanedKeeps, VictimKeeps
  <2>4. loop' # "loading" \/ doubt' = {} => Agree' /\ WriteAgrees' /\ Reloaded'
    BY <1>3, <2>1, <2>2, AgreeKeeps, WriteKeeps, ReloadedKeeps
  <2> QED
    BY <2>3, <2>4 DEF Live
<1> QED
  BY <1>1, <1>2, <1>3

\* What is played is kept: the directory of an instance that is stored has a
\* descriptor, or one on its way.
LEMMA StoredIsKept ==
    ASSUME TypeOK, Phase, Live, Up, loop # "loading",
           NEW h \in Handle, Stored(h), storage[h].dir \notin doubt
    PROVE  \/ disk[storage[h].dir].desc # Missing
           \/ Writing(storage[h].dir) /\ write.step = "rename"
<1> DEFINE d == storage[h].dir
<1>0. d \in Dir /\ doubt # Dir /\ storage[h].state \in State
  BY DEF TypeOK, Stored, Entry
<1>1. Agree /\ WriteAgrees /\ Claimed
  BY <1>0 DEF Live
<1>2. \A g \in Handle, s \in State : [handle |-> g, state |-> s] # Missing
  BY MissingIsNone DEF Descriptor
<1>3. CASE ~Writing(d)
  <2>1. disk[d].desc = [handle |-> h, state |-> storage[h].state]
    BY <1>1, <1>3 DEF Agree, Matches
  <2> QED
    BY <1>0, <1>2, <2>1
<1>4. CASE Writing(d)
  <2>1. loop = "saving" /\ write # Missing /\ write.dir = d
    BY <1>4 DEF Writing, Phase, TypeOK, Up
  <2>2. /\ write.handle \in Handle /\ Takes(write.handle, d)
    BY <1>1, <2>1, OneWriter
  <2>3. Stored(write.handle)
    BY <1>0, <1>1, <2>2 DEF Claimed, StoredDirs
  <2>4. storage[write.handle].state \in State
    BY <2>2, <2>3 DEF TypeOK, Stored, Entry
  <2> QED
    BY <1>1, <1>2, <1>4, <2>1, <2>2, <2>3, <2>4 DEF WriteAgrees
<1> QED
  BY <1>3, <1>4

\* No step leaves what the user made without a descriptor.
LEMMA KeptKeeps ==
    ASSUME TypeOK, Phase, Live, AllKept, [Next]_vars
    PROVE  AllKept'
<1> SUFFICES ASSUME NEW x \in Dir, disk'[x].data
             PROVE  disk'[x].desc # Missing \/ disk'[x].aside \/ (Writing(x) /\ write.step = "rename")'
  BY DEF AllKept
<1> DEFINE Kept == disk[x].desc # Missing \/ disk[x].aside \/ (Writing(x) /\ write.step = "rename")
<1> USE DEF memory, io
<1>0. disk[x].data => Kept
  BY DEF AllKept
<1>1. CASE WriteTemp
  BY <1>0, <1>1, MissingIsNone DEF WriteTemp, Step, Writing, TypeOK, Write
<1>2. CASE RemoveOld
  <2>1. write'.dir = write.dir /\ write'.step = "rename" /\ write' # Missing
    BY <1>2, MissingIsNone DEF RemoveOld, Step, TypeOK, Write
  <2>2. x # write.dir => disk'[x] = disk[x]
    BY <1>2 DEF RemoveOld, TypeOK
  <2> QED
    BY <1>0, <2>1, <2>2 DEF Writing
<1>3. CASE Rename
  <2>1. /\ write.handle \in Handle /\ write.state \in State /\ write.dir \in Dir
        /\ disk' = [disk EXCEPT ![write.dir].desc =
                        [handle |-> write.handle, state |-> write.state]]
    BY <1>3 DEF Rename, TypeOK, Write
  <2>2. [handle |-> write.handle, state |-> write.state] # Missing
    BY <2>1, MissingIsNone DEF Descriptor
  <2>3. CASE x = write.dir
    BY <2>1, <2>2, <2>3 DEF TypeOK
  <2>4. CASE x # write.dir
    BY <1>0, <2>1, <2>4 DEF TypeOK, Writing
  <2> QED
    BY <2>3, <2>4
<1>4. CASE WriteFails
  <2> DEFINE b == disk[write.dir].aside \/ write.step \in {"remove", "rename"}
  <2>1. disk' = [disk EXCEPT ![write.dir].aside = b] /\ write.dir \in Dir
    BY <1>4 DEF WriteFails, TypeOK, Write
  <2>2. (disk[write.dir].aside => b) /\ (write.step = "rename" => b)
    OBVIOUS
  <2> HIDE DEF b
  <2>3. CASE x = write.dir
    BY <1>0, <2>1, <2>2, <2>3 DEF TypeOK
  <2>4. CASE x # write.dir
    BY <1>0, <2>1, <2>4 DEF TypeOK, Writing
  <2> QED
    BY <2>3, <2>4
<1>5. CASE UNCHANGED <<disk, write>>
  BY <1>0, <1>5 DEF Writing
<1>6. ASSUME NEW d \in Dir, NEW new \in Recovered, Rehandle(d, new) PROVE Kept' /\ UNCHANGED disk
  BY <1>0, <1>6 DEF Rehandle, Reading, Writing
<1>7. ASSUME NEW d \in Dir, NEW new \in Recovered, Recover(d, new)
      PROVE  disk'[x].desc # Missing \/ disk'[x].aside
  BY <1>0, <1>7 DEF Recover, Reading, Backup, Writing, TypeOK
<1>8. CASE UNCHANGED disk /\ write = Missing
  BY <1>0, <1>8 DEF Writing
<1>9. ASSUME NEW d \in Dir, Clean(d) PROVE Kept'
  <2>1. x # d /\ disk'[x] = disk[x]
    BY <1>9 DEF Clean, TypeOK, Empty
  <2> QED
    BY <1>0, <1>9, <2>1 DEF Clean, Writing
<1>10. ASSUME NEW h \in Handle, DeleteInstance(h) PROVE Kept'
  <2>1. disk[x].data /\ disk'[x].desc = disk[x].desc /\ disk'[x].aside = disk[x].aside
    BY <1>10 DEF DeleteInstance, TypeOK
  <2> QED
    BY <1>0, <1>10, <2>1 DEF DeleteInstance, Writing
<1>11. ASSUME NEW h \in Handle, Play(h) PROVE Kept'
  <2>1. /\ UNCHANGED write /\ disk'[x].desc = disk[x].desc /\ disk'[x].aside = disk[x].aside
        /\ x # storage[h].dir => disk'[x] = disk[x]
    BY <1>11 DEF Play, TypeOK
  <2>2. CASE x = storage[h].dir
    BY <1>11, <2>1, <2>2, StoredIsKept DEF Play, Up, Writing
  <2>3. CASE x # storage[h].dir
    BY <1>0, <2>1, <2>3 DEF Writing
  <2> QED
    BY <2>2, <2>3
<1>12. CASE DeleteEnds
  <2>1. disk'[x] = disk[x]
    BY <1>12 DEF DeleteEnds, TypeOK, Empty
  <2> QED
    BY <1>0, <1>12, <2>1 DEF DeleteEnds, Writing
<1>13. CASE Crash
  <2>1. x \notin cleaning \cup {victim}
    BY <1>13, CrashDisk
  <2>2. /\ disk'[x].desc = disk[x].desc /\ disk'[x].data = disk[x].data
        /\ disk[x].aside => disk'[x].aside
        /\ Writing(x) /\ write.step \in {"remove", "rename"} => disk'[x].aside
    BY <1>13, <2>1, CrashDisk
  <2> QED
    BY <1>0, <2>2
<1>14. ASSUME NEW d \in Dir, Damage(d) PROVE Kept'
  BY <1>0, <1>14, MissingIsNone DEF Damage, TypeOK, Writing
<1>15. ASSUME NEW d \in Dir, NEW to \in Dir, Copy(d, to) PROVE Kept'
  <2>1. disk'[x] = (IF x = to THEN disk[d] ELSE disk[x]) /\ disk[d].desc # Missing /\ UNCHANGED write
    BY <1>15 DEF Copy, TypeOK
  <2> QED
    BY <1>0, <2>1 DEF Writing
<1>16. ASSUME NEW r \in Remote, UpdateSettings(r) PROVE UNCHANGED disk /\ write = Missing
  BY <1>16 DEF UpdateSettings, Phase
<1>17. ASSUME NEW e \in events, InstallFinished(e) PROVE UNCHANGED disk /\ write = Missing
  BY <1>17 DEF InstallFinished, Phase
<1>18. CASE UNCHANGED vars
  BY <1>5, <1>18 DEF vars
<1> QED
  BY <1>1, <1>2, <1>3, <1>4, <1>5, <1>6, <1>7, <1>8, <1>9, <1>10, <1>11, <1>12, <1>13, <1>14,
     <1>15, <1>16, <1>17, <1>18 DEF Next, Load, LoadEnds, Read, StartInstall, CreateLocal,
     RetryCreateLocal, Finish, Fail, CancelInstall, Publish

-----------------------------------------------------------------------------
\* The invariant holds.
THEOREM Invariance == Spec => []Inv
<1>1. ASSUME Init PROVE Inv
  <2>1. TypeOK /\ Phase /\ DeletedIsBare /\ Started /\ Live
    BY <1>1, TypeStarts DEF Init, Phase, Loading, DeletedIsBare, Started, Live, Up
  <2>2. AllKept
    BY <1>1 DEF Init, AllKept, Empty
  <2> QED
    BY <2>1, <2>2 DEF Inv
<1>2. Inv /\ [Next]_vars => Inv'
  BY TypeKeeps, PhaseKeeps, BareKeeps, StartedKeeps, LiveKeeps, KeptKeeps DEF Inv
<1> QED
  BY <1>1, <1>2, PTL DEF Spec

\* Where no file operation failed, the disk says what the vector says whenever the
\* loop waits for a message (RestartSame), whatever has crashed, been damaged or
\* been copied before.
THEOREM RestartsSame == OneAtATime /\ Patient => (Spec => []RestartSame)
<1> SUFFICES ASSUME OneAtATime, Patient PROVE Spec => []RestartSame
  OBVIOUS
<1>1. ASSUME Inv PROVE RestartSame
  <2> SUFFICES ASSUME loop = "idle" PROVE RestartSame
    BY DEF RestartSame
  <2>1. TypeOK /\ write = Missing /\ victim = Missing /\ (doubt # Dir => Agree)
    BY <1>1 DEF Inv, Live, Phase, Up
  <2>2. ASSUME NEW h \in Handle, Stored(h), storage[h].dir \notin doubt PROVE Matches(h)
    <3>1. storage[h].dir \in Dir
      BY <2>1, <2>2 DEF TypeOK, Stored, Entry
    <3> QED
      BY <2>1, <2>2, <3>1 DEF Agree, Writing
  <2>3. ASSUME NEW d \in Dir \ doubt, disk[d].desc # Missing PROVE Listed(d)
    BY <2>1, <2>3, MissingIsNone DEF Agree, Writing
  <2> QED
    BY <2>2, <2>3 DEF RestartSame, Matches, Listed
<1> QED
  BY <1>1, Invariance, PTL

\* What an instance claims is what it has, or what it is about to take.
LEMMA ClaimsOfOne ==
    ASSUME Inv, OneAtATime, Patient, NEW h \in Handle, NEW d \in Claims(h) \ doubt
    PROVE  /\ d \in Dir /\ d # Missing /\ Claimed
           /\ Stored(h) => storage[h].dir = d
           /\ ~Stored(h) => Takes(h, d) /\ Taker(h)
<1>1. d \in Dir /\ d # Missing /\ doubt # Dir /\ TypeOK /\ Phase
  BY MissingIsNone DEF Claims, Inv, TypeOK
<1>2. (Stored(h) /\ storage[h].dir = d) \/ Takes(h, d) \/ [handle |-> h, dir |-> d] \in events
  BY DEF Claims, Takes, Saving
<1>3. Up
  BY <1>1, <1>2, MissingIsNone DEF Up, Phase, Nothing, Stored, Takes, Saving
<1>4. Claimed
  BY <1>1, <1>3 DEF Inv, Live
<1>5. (Stored(h) /\ storage[h].dir = d) \/ Takes(h, d)
  <2>1. ASSUME [handle |-> h, dir |-> d] \in events PROVE tasks[h] = d
    BY <1>4, <2>1 DEF Claimed
  <2> QED
    BY <1>2, <2>1 DEF Takes
<1>6. Stored(h) => storage[h].dir = d
  BY <1>1, <1>4, <1>5 DEF Claimed
<1>7. ~Stored(h) => Takes(h, d) /\ Taker(h)
  BY <1>1, <1>5 DEF Takes, Taker, Busy
<1> QED
  BY <1>1, <1>4, <1>6, <1>7

\* With one operation at a time and patient messages, as OneDirectoryEach says, no
\* directory serves two instances and no instance two directories.
THEOREM OneDirectory == Spec => []OneDirectoryEach
<1>1. ASSUME Inv PROVE OneDirectoryEach
  <2> SUFFICES ASSUME OneAtATime, Patient, NEW h \in Handle, NEW g \in Handle,
                      NEW d \in Claims(h) \ doubt, NEW e \in Claims(g) \ doubt
               PROVE  (h = g) <=> (d = e)
    BY <1>1 DEF OneDirectoryEach, Inv
  <2>1. /\ d \in Dir /\ d # Missing /\ Claimed
        /\ Stored(h) => storage[h].dir = d
        /\ ~Stored(h) => Takes(h, d) /\ Taker(h)
    BY <1>1, ClaimsOfOne
  <2>2. /\ e \in Dir /\ e # Missing
        /\ Stored(g) => storage[g].dir = e
        /\ ~Stored(g) => Takes(g, e) /\ Taker(g)
    BY <1>1, ClaimsOfOne
  <2>3. ASSUME h = g PROVE d = e
    <3>1. CASE Stored(h)
      BY <2>1, <2>2, <2>3, <3>1
    <3>2. CASE ~Stored(h)
      BY <2>1, <2>2, <2>3, <3>2 DEF Claimed, Takes, Busy
    <3> QED
      BY <3>1, <3>2
  <2>4. ASSUME d = e PROVE h = g
    <3>1. CASE Stored(h) /\ Stored(g)
      BY <2>1, <2>2, <2>4, <3>1 DEF Claimed
    <3>2. CASE Stored(h) /\ ~Stored(g)
      BY <2>1, <2>2, <2>4, <3>2 DEF Claimed, StoredDirs
    <3>3. CASE ~Stored(h) /\ Stored(g)
      BY <2>1, <2>2, <2>4, <3>3 DEF Claimed, StoredDirs
    <3>4. CASE ~Stored(h) /\ ~Stored(g)
      BY <2>1, <2>2, <3>4 DEF Claimed
    <3> QED
      BY <3>1, <3>2, <3>3, <3>4
  <2> QED
    BY <2>3, <2>4
<1> QED
  BY <1>1, Invariance, PTL

\* What the user made never lies in a directory with neither a descriptor nor a
\* whole one aside (NothingVanishes), at whatever step the launcher dies.
THEOREM NothingIsLost == OneAtATime /\ Patient => (Spec => []NothingVanishes)
<1> SUFFICES ASSUME OneAtATime, Patient PROVE Spec => []NothingVanishes
  OBVIOUS
<1>1. Inv => NothingVanishes
  BY DEF Inv, AllKept, NothingVanishes, Writing
<1> QED
  BY <1>1, Invariance, PTL

\* What the user made goes only with the instance the user deletes (DataSurvives).
THEOREM DataIsKept == OneAtATime /\ Patient => (Spec => DataSurvives)
<1> SUFFICES ASSUME OneAtATime, Patient PROVE Spec => DataSurvives
  OBVIOUS
<1> USE DEF memory, io
<1>1. ASSUME Inv, Next, NEW d \in Dir \ doubt, disk[d].data, disk[d].desc # Missing
      PROVE  disk'[d].data \/ (loop' = "deleting" /\ victim' = d)
  <2>0. TypeOK /\ Phase /\ DeletedIsBare /\ (Up => Cleaned)
    BY <1>1 DEF Inv, Live
  <2>1. d \notin cleaning
    BY <1>1, <2>0 DEF Cleaned, Up, Phase
  <2>2. loop = "deleting" => d # victim
    BY <1>1, <2>0 DEF DeletedIsBare
  <2>3. victim # d
    BY <2>0, <2>2, MissingIsNone DEF Phase
  <2>4. CASE WriteTemp \/ RemoveOld \/ Rename
    BY <1>1, <2>0, <2>4 DEF WriteTemp, RemoveOld, Rename, Step, TypeOK
  <2>5. CASE WriteFails
    <3> DEFINE b == disk[write.dir].aside \/ write.step \in {"remove", "rename"}
    <3>1. disk' = [disk EXCEPT ![write.dir].aside = b]
      BY <2>5 DEF WriteFails
    <3> HIDE DEF b
    <3> QED
      BY <1>1, <2>0, <3>1 DEF TypeOK
  <2>6. ASSUME NEW x \in Dir, NEW new \in Recovered, Recover(x, new) PROVE disk'[d].data
    BY <1>1, <2>0, <2>6 DEF Recover, Backup, TypeOK
  <2>7. ASSUME NEW x \in Dir, Clean(x) PROVE disk'[d].data
    BY <1>1, <2>0, <2>1, <2>7 DEF Clean, TypeOK
  <2>8. ASSUME NEW h \in Handle, DeleteInstance(h)
        PROVE  disk'[d].data \/ (loop' = "deleting" /\ victim' = d)
    BY <1>1, <2>0, <2>8 DEF DeleteInstance, TypeOK
  <2>9. ASSUME NEW h \in Handle, Play(h) PROVE disk'[d].data
    BY <1>1, <2>0, <2>9 DEF Play, TypeOK
  <2>10. CASE DeleteEnds
    BY <1>1, <2>0, <2>3, <2>10 DEF DeleteEnds, TypeOK
  <2>11. CASE Crash
    BY <1>1, <2>0, <2>1, <2>3, <2>11, CrashDisk
  <2>12. ASSUME NEW x \in Dir, Damage(x) PROVE disk'[d].data
    BY <1>1, <2>0, <2>12 DEF Damage, TypeOK
  <2>13. ASSUME NEW x \in Dir, NEW to \in Dir, Copy(x, to) PROVE disk'[d].data
    BY <1>1, <2>0, <2>13 DEF Copy, TypeOK, Empty
  <2>14. CASE UNCHANGED disk
    BY <1>1, <2>14
  <2> QED
    BY <1>1, <2>4, <2>5, <2>6, <2>7, <2>8, <2>9, <2>10, <2>11, <2>12, <2>13, <2>14
    DEF Next, Load, LoadEnds, Read, Rehandle, UpdateSettings, StartInstall, CreateLocal,
        RetryCreateLocal, Finish, Fail, CancelInstall, InstallFinished, Publish
<1>2. Inv /\ [Next]_vars =>
          [\A d \in Dir \ doubt : (disk[d].data /\ disk[d].desc # Missing) =>
              disk'[d].data \/ (loop' = "deleting" /\ victim' = d)]_vars
  BY <1>1
<1> QED
  BY <1>2, Invariance, PTL DEF Spec, DataSurvives
=============================================================================
