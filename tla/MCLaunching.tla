------------------------------ MODULE MCLaunching ------------------------------
(***************************************************************************)
(* A pack of a parent version and a loader, published anew with other      *)
(* libraries, another Java and a newer index of the same name; and a       *)
(* release that is not mirrored, with libraries its installer made.        *)
(***************************************************************************)
EXTENDS Launching

Linux == [os |-> "linux", arch |-> "x86_64"]
Mac   == [os |-> "osx", arch |-> "arm64"]

MCPlatform == {Linux, Mac}

On(os, arch, allow) ==
    [allow |-> allow, name |-> [os |-> os, arch |-> arch], arch |-> Anything, features |-> <<>>]
Always == [allow |-> TRUE, name |-> Anything, arch |-> Anything, features |-> <<>>]

Jar(name, version) ==
    [name |-> name, version |-> version, group |-> "game", rules |-> Unruled, listed |-> TRUE,
     artifact |-> TRUE, classifiers |-> {}, natives |-> <<>>, source |-> Upstream, hashed |-> TRUE]

\* A jar of a loader, found by its name.
Named(name, version, hashed) ==
    [Jar(name, version) EXCEPT !.listed = FALSE, !.artifact = FALSE, !.hashed = hashed]

\* Natives without a jar; those of the Mac are added by a patch.
Natives(version) ==
    [Jar("lwjgl", version) EXCEPT !.artifact = FALSE, !.group = "lwjgl",
        !.classifiers = {"linux"}, !.natives = (<<"linux">> :> "linux"),
        !.rules = {Always, On("osx", Anything, FALSE)}]

MacNatives == [classifiers |-> {"linux", "mac"}, rules |-> {Always},
               natives |-> (<<"linux">> :> "linux") @@ (<<"osx", "arm64">> :> "mac")]

MCPatches ==
    <<[match |-> {<<"lwjgl", 2>>}, override |-> MacNatives, additional |-> <<>>],
      [match |-> {<<"lwjgl", 3>>}, override |-> <<>>, additional |-> <<Jar("glue", 1)>>]>>

MCLwjglOf == ("old" :> <<Natives(2)>>)

Version(id, libraries, client, index, java) ==
    [id |-> id, libraries |-> libraries, client |-> client, index |-> index, java |-> java,
     source |-> Upstream]

Index(objects) == [id |-> "17", objects |-> objects]

Instance(id, versions, made, files, always) ==
    [id |-> id, versions |-> versions, made |-> made, files |-> files, always |-> always]

First ==
    Instance("pack",
        <<Version("old", <<Natives(1), Jar("asm", 1)>>, TRUE, Index({"o1"}), 8),
          Version("loader-old", <<Named("asm", 2, FALSE)>>, FALSE, NoIndex, 8)>>,
        {}, {"f1"}, FALSE)

Second ==
    Instance("pack",
        <<Version("new", <<Natives(3), Jar("asm", 2)>>, TRUE, Index({"o1", "o2"}), 17),
          Version("loader-new", <<Named("mixin", 1, TRUE)>>, FALSE, NoIndex, 17)>>,
        {}, {"f2"}, FALSE)

Unmirrored ==
    Instance("pack",
        <<Version("old", <<Natives(1)>>, TRUE, Index({"o1"}), 8)>>,
        {[library |-> Jar("patched", 1), jar |-> TRUE, tool |-> FALSE],
         [library |-> Jar("installertools", 1), jar |-> TRUE, tool |-> TRUE]},
        {}, TRUE)

Other == Instance("other", <<Version("old", <<Jar("asm", 1)>>, TRUE, NoIndex, 8)>>, {}, {}, FALSE)

MCSpecs ==
    {[mirror |-> TRUE, instances |-> <<First, Other>>],
     [mirror |-> TRUE, instances |-> <<Second>>],
     [mirror |-> FALSE, instances |-> <<Unmirrored>>]}

MCAuthlib == Jar("authlib", 1)
MCPackage == {<<8, Linux>>, <<17, Linux>>}
================================================================================
