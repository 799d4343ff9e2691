----------------------------- MODULE ConfigOptions -----------------------------
(***************************************************************************)
(* Options set in configuration files (backend/src/install.rs,             *)
(* run_config_option_task): a file in one of four formats is parsed, each  *)
(* option is stored at its key path, and the file is written again.        *)
(*                                                                         *)
(* A document is a tree.  A leaf is a value without parts; an object maps  *)
(* names to trees, an array is a sequence of them.  A key path is a        *)
(* sequence of <<"name", n>> and <<"index", i>>, i from 0.  An array of    *)
(* tables ([[name]] in TOML) is a tree the code cannot descend into.       *)
(***************************************************************************)
EXTENDS Integers, Sequences, SequencesExt

CONSTANTS
    Null,        \* the leaf null
    Bad,         \* what is not a document; the result of an option that fails
    Nowhere      \* in TOML, an item that is not there yet (Item::None)

Object(map)  == [kind |-> "object", at |-> map]
Array(items) == [kind |-> "array", at |-> items]
Leaf(value)  == [kind |-> "leaf", at |-> value]
Nothing      == [x \in {} |-> x]

\* The document of a file that does not exist, as it is parsed.
Empty(format) == IF format = "yaml" THEN Leaf(Null) ELSE Object(Nothing)

IsIndex(step) == step[1] = "index"

-----------------------------------------------------------------------------
(***************************************************************************)
(* One step down, and one step back up with a changed child.               *)
(***************************************************************************)

\* The child at step, or what stands for one that is not there.
Child(tree, step, missing) ==
    CASE tree \notin {Bad, Nowhere} /\ tree.kind = "object" /\ ~IsIndex(step) ->
           IF step[2] \in DOMAIN tree.at THEN tree.at[step[2]] ELSE missing
      [] tree \notin {Bad, Nowhere} /\ tree.kind = "array" /\ IsIndex(step)
           /\ step[2] < Len(tree.at) -> tree.at[step[2] + 1]
      [] tree \notin {Bad, Nowhere} /\ tree.kind = "array" /\ IsIndex(step)
           /\ step[2] = Len(tree.at) -> missing
      [] OTHER -> Bad

Stored(tree, step, child) ==
    IF IsIndex(step)
    THEN Array(IF step[2] = Len(tree.at) THEN Append(tree.at, child)
               ELSE [tree.at EXCEPT ![step[2] + 1] = child])
    ELSE Object([name \in DOMAIN tree.at \cup {step[2]} |->
                    IF name = step[2] THEN child ELSE tree.at[name]])

\* A value is stored at the end of a spine of trees, from the root down.
Rebuilt(spine, key, value) ==
    FoldRight(LAMBDA n, child : Stored(spine[n], key[n], child),
              [n \in DOMAIN key |-> n], value)

-----------------------------------------------------------------------------
(***************************************************************************)
(* The formats.                                                            *)
(***************************************************************************)

\* apply_json_config_option: null stands for what is not there, and nothing can
\* be stored below it.
JsonSpine(tree, key) ==
    FoldLeft(LAMBDA spine, step : Append(spine, Child(Last(spine), step, Leaf(Null))),
             <<tree>>, key)

\* set_toml_item_path: an item that is not there becomes a table, but only where
\* a name is wanted.  Below an array (set_toml_array_path, set_toml_value_path)
\* what is not there is made as the next step wants it.
TomlMissing(spine, key) ==
    LET next == Len(spine) + 1
    IN  CASE ~\E n \in DOMAIN spine : IsIndex(key[n]) -> Nowhere
          [] next > Len(key)      -> Nowhere
          [] IsIndex(key[next])   -> Array(<<>>)
          [] OTHER                -> Object(Nothing)

TomlSpine(tree, key) ==
    FoldLeft(LAMBDA spine, n :
                LET here  == Last(spine)
                    table == IF here = Nowhere /\ ~IsIndex(key[n]) THEN Object(Nothing) ELSE here
                IN  Append(Append(Front(spine), table), Child(table, key[n], TomlMissing(spine, key))),
             <<tree>>, [n \in DOMAIN key |-> n])

HasNull == Leaf(Null)

\* The document with one option stored, or Bad.
SetOption(format, tree, option) ==
    LET spine == IF format = "toml" THEN TomlSpine(tree, option.key)
                 ELSE JsonSpine(tree, option.key)
    IN  CASE tree = Bad -> Bad
          [] format = "toml" /\ option.value = HasNull -> Bad
          [] format = "properties" ->
               IF Len(option.key) = 1 /\ ~IsIndex(option.key[1])
                  /\ option.value.kind = "leaf" /\ option.value # HasNull
               THEN Stored(tree, option.key[1], option.value) ELSE Bad
          [] format # "properties" /\ Last(spine) = Bad -> Bad
          [] OTHER -> Rebuilt(spine, option.key, option.value)

\* run_config_option_task: all the options, or none.
Patched(format, tree, options) ==
    FoldLeft(LAMBDA sofar, option : SetOption(format, sofar, option), tree, options)
================================================================================
