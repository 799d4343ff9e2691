----------------------------- MODULE ContentRules -----------------------------
(***************************************************************************)
(* The content rules of an instance (instance/src/instance_metadata.rs,    *)
(* get_include_tasks): files, directories and configuration options the    *)
(* publisher manages outside the mods directory.                           *)
(*                                                                         *)
(* The argument r of the operators is what get_include_tasks reads:        *)
(*   rules, earlier   the rules published, and those of the record, each a *)
(*                    sequence with the more specific path first           *)
(*   cause, force     the InstallParams                                    *)
(*   files, dirs      the files of the game directory, and its directories *)
(*                                                                         *)
(* A rule has a kind (file, dir, options), the path it is at, always (its  *)
(* apply_on), a version (0 for none), the objects it publishes (a file to  *)
(* its contents), and the flags overwrite, extra (delete_extra) and skip   *)
(* (skip_if_dir_exists).                                                   *)
(***************************************************************************)
EXTENDS Integers, Sequences, FiniteSets

CONSTANTS
    File,      \* paths of files
    Dir,       \* paths of directories
    Content,   \* contents of files
    NoFile,    \* no such file
    Under,     \* the files a directory holds, at any depth
    Marker     \* the file .download_complete of a directory

ASSUME RuleAssumption ==
    /\ IsFiniteSet(File) /\ NoFile \notin Content
    /\ Under \in [Dir -> SUBSET File]
    /\ Marker \in [Dir -> File] /\ \A d \in Dir : Marker[d] \in Under[d]
    /\ \A d, e \in Dir : Marker[d] \in Under[e] => Under[d] \subseteq Under[e]

FileDir == [File -> Content \cup {NoFile}]

Objects(rule) == DOMAIN rule.objects

-----------------------------------------------------------------------------
Runs(r, n) == r.rules[n].always \/ r.cause = "update"

\* previous_rule_versions: those recorded for the same path and kind.
Recorded(r, n) ==
    {r.earlier[k].version : k \in {k \in DOMAIN r.earlier :
        r.earlier[k].at = r.rules[n].at /\ r.earlier[k].kind = r.rules[n].kind}}

\* apply_versioned
Due(r, n) ==
    LET version == r.rules[n].version
    IN  version = 0 \/ r.force \/ \A old \in Recorded(r, n) : old < version

\* skip_if_dir_exists: the directory was completed before.
Completed(r, n) ==
    LET rule == r.rules[n]
    IN  /\ rule.kind = "dir" /\ rule.skip /\ ~r.force
        /\ rule.at \in r.dirs /\ r.files[Marker[rule.at]] # NoFile

\* The rules that are applied.
Applied(r) == {n \in DOMAIN r.rules : Runs(r, n) /\ Due(r, n) /\ ~Completed(r, n)}

\* seen_paths: what a rule keeps from the rules after it.  One that is not run,
\* or whose directory is complete, keeps nothing.
Keeps(r, n) ==
    IF r.rules[n].kind # "options" /\ Runs(r, n) /\ (Due(r, n) => ~Completed(r, n))
    THEN Objects(r.rules[n]) ELSE {}

Seen(r, n) == UNION {Keeps(r, k) : k \in 1 .. n}

\* delete_extra: the files of the directory that none of these rules publishes.
Extra(r, n) ==
    LET rule == r.rules[n]
    IN  IF rule.kind = "dir" /\ (r.force \/ rule.extra) /\ rule.at \in r.dirs
        THEN {f \in Under[rule.at] : r.files[f] # NoFile} \ Seen(r, n)
        ELSE {}

FileDeletes(r) == UNION {Extra(r, n) : n \in Applied(r)}

\* Mutant of Included: files that are there are left, whatever the rule says.
IncludedIfAbsent(r, n) == {f \in Objects(r.rules[n]) : r.files[f] = NoFile}

\* include_file: a file that may not be overwritten is only supplied.  Forcing
\* overwrites the files of directories.
Included(r, n) ==
    LET rule == r.rules[n]
    IN  {f \in Objects(rule) :
            \/ rule.overwrite
            \/ rule.kind = "dir" /\ r.force
            \/ r.files[f] = NoFile}

\* The files to check, each against the first rule that publishes it
\* (dedup_check_tasks).
Publishers(r, f) == {n \in Applied(r) : f \in Included(r, n)}

FileChecks(r) ==
    [f \in {f \in File : Publishers(r, f) # {}} |->
        LET first == CHOOSE n \in Publishers(r, f) : \A k \in Publishers(r, f) : n <= k
        IN  r.rules[first].objects[f]]

\* The option rules to apply.
Patches(r) == {n \in Applied(r) : r.rules[n].kind = "options"}

\* The directories of a manifest's rules, applied or not.
RuleDirs(rules) == {rules[n].at : n \in {n \in DOMAIN rules : rules[n].kind = "dir"}}
================================================================================
