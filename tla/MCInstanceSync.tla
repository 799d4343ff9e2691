---------------------------- MODULE MCInstanceSync ----------------------------
(***************************************************************************)
(* InstanceSync for TLC: what is published comes out of the generator.     *)
(***************************************************************************)
EXTENDS InstanceSync

CONSTANT Text   \* some contents of a file

MCMod   == {"a", "o", "u"}
MCJar   == {"a-1.jar", "a-2.jar", "o.jar", "u.jar"}
MCBuild == {"a1", "a2", "o1", "u1"}
MCIdOf  == [b \in MCBuild |-> CASE b \in {"a1", "a2"} -> "a" [] b = "o1" -> "o" [] OTHER -> "u"]
MCSizeOf == [b \in MCBuild |-> 1]

MCFile == {"options.json", "own.txt", "pack.txt", "config/.done", "pack/.done"}
MCDir  == {"config", "pack"}
MCUnder == [d \in MCDir |-> IF d = "pack" THEN {"pack.txt", "pack/.done"} ELSE MCFile]
MCMarker == [d \in MCDir |-> IF d = "pack" THEN "pack/.done" ELSE "config/.done"]

Fov(n) == [kind |-> "object", at |-> [k \in {"fov"} |-> [kind |-> "leaf", at |-> n]]]
MCPlain == {Mark, Torn, Text}
MCContent == {Fov(0), Fov(1), Fov(2)} \cup MCPlain

MCUserMods  == {<<"u.jar", "u1">>, <<"a-1.jar", Absent>>, <<"a-2.jar", Absent>>}
MCUserFiles == {<<"own.txt", Text>>, <<"options.json", Fov(2)>>}

G == INSTANCE Generator WITH Mod <- MCMod, Jar <- MCJar, Clutter <- {}, Build <- MCBuild,
        IdOf <- MCIdOf, SizeOf <- MCSizeOf, OptionalSet <- {"extras"},
        File <- MCFile, Dir <- MCDir, Content <- MCContent, Under <- MCUnder, Marker <- MCMarker

Rule(kind, at, always, version, overwrite, extra, skip) ==
    [kind |-> kind, at |-> at, always |-> always, version |-> version, objects |-> Nothing,
     overwrite |-> overwrite, extra |-> extra, skip |-> skip,
     format |-> "json", options |-> <<[key |-> <<<<"name", "fov">>>>, value |-> [kind |-> "leaf", at |-> 1]]>>]

\* What the author keeps.
Source == [f \in MCFile |-> CASE f = "options.json" -> Fov(0) [] f = "pack.txt" -> Text
                              [] OTHER -> NoFile]
Jars(build, o) == [j \in MCJar |-> CASE j = "a-1.jar" /\ build = "a1" -> build
                                     [] j = "a-2.jar" /\ build = "a2" -> build
                                     [] j = "o.jar" /\ o -> "o1"
                                     [] OTHER -> Absent]
Extras == <<[id |-> "extras", default |-> FALSE, mods |-> {"o"}]>>

Built(mode, build, o, required, blocked, rules, jars, all, checks) ==
    [mode |-> mode, entries |-> G!GeneratedEntries(Jars(build, o)),
     required |-> required, blocked |-> blocked, sets |-> IF o THEN Extras ELSE <<>>,
     rules |-> G!GeneratedRules(rules, Source), natives |-> jars, resources |-> all, checks |-> checks]

PackOnce   == Rule("dir", "pack", FALSE, 0, TRUE, TRUE, TRUE)
ConfigBase == Rule("dir", "config", FALSE, 0, FALSE, FALSE, FALSE)
ConfigAll  == Rule("dir", "config", TRUE, 0, TRUE, TRUE, FALSE)
FovOnce(v) == Rule("options", "options.json", FALSE, v, TRUE, FALSE, FALSE)

MCMeta ==
    [m \in {"r1", "r2", "r3"} |->
        CASE m = "r1" -> Built("delta", "a1", TRUE, {}, {}, <<FovOnce(1), ConfigBase>>, {"n1"}, {"n1"}, "on_update")
          [] m = "r2" -> Built("delta", "a2", TRUE, {"a"}, {"u"}, <<FovOnce(2), ConfigBase>>, {"n1", "n2"}, {"n1", "n2"}, "always")
          [] m = "r3" -> Built("mirror", "a2", FALSE, {}, {}, <<PackOnce, ConfigAll>>, {"n2"}, {"n1", "n2"}, "on_update")]
===============================================================================
