------------------------------- MODULE Generator -------------------------------
(***************************************************************************)
(* The instance generator's part in what a launcher is told to sync        *)
(* (generate/src/instance.rs): the objects of the content rules, the mod   *)
(* entries and the check of the mod policy, computed from the spec and the *)
(* directory its author keeps (source_root).                               *)
(*                                                                         *)
(* The rules of a spec are those of ContentRules without objects, already  *)
(* in the order the generator sorts them into, the more specific path      *)
(* first.  A rule about the mods directory is left out by the generator.   *)
(***************************************************************************)
EXTENDS ModSync, ContentRules

\* The author's files a rule is about.
Sources(rule, source) ==
    {f \in (IF rule.kind = "dir" THEN Under[rule.at] ELSE {rule.at}) : source[f] # NoFile}

\* The paths of existing_paths a rule goes to: those of rules that overwrite and
\* those of rules that do not are apart.
Bucket(rule) == rule.kind = "options" \/ rule.overwrite

\* existing_paths, as the n-th rule finds it.  An option rule puts its file there.
Existing(rules, n, source) ==
    UNION {Sources(rules[k], source) : k \in {k \in 1 .. n - 1 : Bucket(rules[k]) = Bucket(rules[n])}}

\* get_file_object, get_directory_objects: a file is published by the most specific
\* rule that overwrites it and by the most specific one that does not.
GeneratedObjects(rules, n, source) ==
    CASE rules[n].kind = "file"    -> Sources(rules[n], source)
      [] rules[n].kind = "dir"     -> Sources(rules[n], source) \ Existing(rules, n, source)
      [] rules[n].kind = "options" -> {}

GeneratedRules(rules, source) ==
    [n \in DOMAIN rules |->
        [rules[n] EXCEPT !.objects = [f \in GeneratedObjects(rules, n, source) |-> source[f]]]]

\* The generator fails if a file of a rule is missing.
RulesComplete(rules, source) ==
    \A n \in DOMAIN rules : rules[n].kind = "file" => source[rules[n].at] # NoFile

\* collect_mod_entries: the author's jars.  A jar without an id is left out.  (Of two
\* jars with one id the generator publishes both; here a mod has one.)
GeneratedEntries(jars) ==
    [id \in {id \in Mod : Local(jars, id) # {}} |->
        LET jar == CHOOSE j \in Local(jars, id) : TRUE IN [jar |-> jar, build |-> jars[jar]]]

\* validate_mod_sync_overrides: every policy names mods of the pack (the blocked ones:
\* mods that are not in it), and a mod is in one policy at most.
PolicyValid(entries, required, blocked, sets) ==
    LET Switchable == UNION {sets[n].mods : n \in DOMAIN sets}
    IN  /\ blocked \cap DOMAIN entries = {}
        /\ required \cup Switchable \subseteq DOMAIN entries
        /\ required \cap Switchable = {}
        /\ \A n, k \in DOMAIN sets :
              n # k => sets[n].id # sets[k].id /\ sets[n].mods \cap sets[k].mods = {}
================================================================================
