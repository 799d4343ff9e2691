-------------------------------- MODULE ModSync --------------------------------
(***************************************************************************)
(* The mod sync planner (instance/src/mod_sync.rs): from the mods an       *)
(* instance publishes, those its last sync recorded and the jars in the    *)
(* mods directory, what to delete, to check, to link and to tell the user. *)
(*                                                                         *)
(* The planner reads the directory and decides; it changes nothing, so it  *)
(* is a set of operators.  Their argument p is the planner's view:         *)
(*   manifest   the published metadata: mode, entries, required, blocked,  *)
(*              sets (a sequence; each an id, a default and mods)          *)
(*   previous   the entries of the recorded metadata                       *)
(*   cause, force, preference   the InstallParams                          *)
(*   mods       the mods directory, a file name to its contents            *)
(*                                                                         *)
(* entries and previous map a mod id to its jar and its build.             *)
(***************************************************************************)
EXTENDS Integers, Sequences, FiniteSetsExt

CONSTANTS
    Mod,       \* mod ids
    Jar,       \* names of files in the mods directory
    Clutter,   \* those that are no jars: other files and directories
    Build,     \* contents of files
    IdOf,      \* the mod id a jar declares
    SizeOf,    \* the size of a file
    NoId,      \* of a jar that declares none, or cannot be read
    Absent,    \* no such file
    OptionalSet,
    Unset      \* a set the user has not switched

ASSUME ModAssumption ==
    /\ IsFiniteSet(Jar) /\ Clutter \subseteq Jar
    /\ Absent \notin Build /\ NoId \notin Mod
    /\ IdOf \in [Build -> Mod \cup {NoId}]
    /\ SizeOf \in [Build -> Nat]

ModDir == [Jar -> Build \cup {Absent}]

-----------------------------------------------------------------------------
(***************************************************************************)
(* The directory (scan_mods_dir), and the optional sets.                   *)
(***************************************************************************)

\* local_mods: the jars of a mod.  Clutter and jars without an id are not seen.
Local(mods, id) ==
    {j \in Jar \ Clutter : mods[j] # Absent /\ IdOf[mods[j]] = id}

Present(p, id) == Local(p.mods, id) # {}

Recognized(mods) == UNION {Local(mods, id) : id \in Mod}

\* local_other_paths
Others(mods) == {j \in Clutter : mods[j] # Absent}

Published(p) == DOMAIN p.manifest.entries
Before(p)    == DOMAIN p.previous
Target(p, id) == p.manifest.entries[id].jar

\* optional_mod_to_set: a mod named by two sets belongs to the first.
SetsNaming(p, id) == {n \in DOMAIN p.manifest.sets : id \in p.manifest.sets[n].mods}
Optional(p, id)   == SetsNaming(p, id) # {}
SetOf(p, id)      == p.manifest.sets[Min(SetsNaming(p, id))]

\* optional_set_enabled: the user's choice, or else the default.
Enabled(p, id) ==
    LET set == SetOf(p, id)
    IN  /\ Optional(p, id)
        /\ IF p.preference[set.id] = Unset THEN set.default ELSE p.preference[set.id]

Blocked(p, id) == id \in p.manifest.blocked
Normal(p)   == {id \in Published(p) : ~Blocked(p, id) /\ ~Optional(p, id)}
Switched(p) == {id \in Published(p) : ~Blocked(p, id) /\ Optional(p, id)}
On(p)       == {id \in Switched(p) : Enabled(p, id)}

Changed(p, id) == p.previous[id].build # p.manifest.entries[id].build

-----------------------------------------------------------------------------
(***************************************************************************)
(* plan_delta: the difference between two manifests is carried over, and   *)
(* what the user added or removed stays.                                   *)
(***************************************************************************)

\* The mods that must not be there.
DeltaGone(p) ==
    {id \in Mod :
        \/ Blocked(p, id)
        \/ id \in Switched(p) /\ ~Enabled(p, id)
        \/ id \notin Published(p) /\ (id \in Before(p) \/ Optional(p, id))}

\* Mutant of DeltaReplaced: a mod the user removed comes back when it has changed.
DeltaReplacedAlways(p) == {id \in Normal(p) \cap Before(p) : Changed(p, id)}

\* plan_delta_normal_entry: a changed mod replaces the one that is there.  A mod
\* that is not there was removed by the user, and stays away if it may.
DeltaReplaced(p) ==
    {id \in Normal(p) \cap Before(p) :
        Changed(p, id) /\ (Present(p, id) \/ id \in p.manifest.required)}

DeltaMissing(p) ==
    {id \in (Normal(p) \cap Before(p)) \cap p.manifest.required : ~Present(p, id)}

\* Mutant of DeltaDeletes: whatever the manifest does not name goes.
DeltaDeletesAll(p) == Recognized(p.mods) \ {Target(p, id) : id \in Published(p)}

\* Mutant of DeltaDeletes: the old jar of a renamed mod is forgotten.
DeltaDeletesGone(p) == UNION {Local(p.mods, id) : id \in DeltaGone(p)}

DeltaDeletes(p) ==
    (UNION {Local(p.mods, id) : id \in DeltaGone(p)})
    \cup (UNION {Local(p.mods, id) \ {Target(p, id)} : id \in DeltaReplaced(p)})

DeltaChecks(p) == (Normal(p) \ Before(p)) \cup DeltaReplaced(p) \cup DeltaMissing(p)

\* optional_cache_needs_check
DeltaCacheChecks(p) == {id \in Switched(p) : id \in Before(p) => Changed(p, id)}

-----------------------------------------------------------------------------
(***************************************************************************)
(* plan_mirror: the directory becomes what the manifest says.              *)
(***************************************************************************)
Active(p)  == Normal(p) \cup On(p)
Allowed(p) == {Target(p, id) : id \in Active(p)}

\* Files that are not recognized as mods survive, except when forced.
MirrorDeletes(p) ==
    (Recognized(p.mods) \ Allowed(p)) \cup (IF p.force THEN Others(p.mods) ELSE {})

-----------------------------------------------------------------------------
(***************************************************************************)
(* build                                                                   *)
(***************************************************************************)
AsDelta(p) == p.manifest.mode = "delta" /\ ~p.force

ShouldRun(p) == p.force \/ p.manifest.mode # "delta" \/ p.cause = "update"

\* MirrorFast: a file of the right size is taken for the right one.
Differs(p, place, name, build) ==
    \/ place[name] = Absent
    \/ IF p.manifest.mode = "mirror_fast"
       THEN SizeOf[place[name]] # SizeOf[build]
       ELSE place[name] # build

ModDeletes(p) ==
    IF ~ShouldRun(p) THEN {} ELSE IF AsDelta(p) THEN DeltaDeletes(p) ELSE MirrorDeletes(p)

\* The mods to check in the mods directory, and those in the cache of optional mods.
ModChecks(p) ==
    IF ~ShouldRun(p) THEN {} ELSE IF AsDelta(p) THEN DeltaChecks(p) ELSE Normal(p)

CacheChecks(p) ==
    IF ~ShouldRun(p) THEN {} ELSE IF AsDelta(p) THEN DeltaCacheChecks(p) ELSE Switched(p)

\* The optional mods to link from the cache.
ModLinks(p) == IF ShouldRun(p) THEN On(p) ELSE {}

\* Mutant of Warned: a mirror deletes without a word.
WarnedInDelta(p) ==
    {j \in ModDeletes(p) \ Clutter : AsDelta(p) /\ IdOf[p.mods[j]] \notin Before(p)}

\* ModRemoved warnings: the jars deleted that no earlier sync has put there.  A
\* mirror says nothing of a second jar of a mod that stays.
Warned(p) ==
    {j \in ModDeletes(p) \ Clutter :
        LET id == IdOf[p.mods[j]]
        IN  ~p.force /\ id \notin Before(p) /\ (AsDelta(p) \/ id \notin Active(p))}
================================================================================
