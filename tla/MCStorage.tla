------------------------------ MODULE MCStorage ------------------------------
(***************************************************************************)
(* Small instances of InstanceStorage: every entry has the same id.        *)
(***************************************************************************)
EXTENDS InstanceStorage, TLC

CONSTANT TheId

EntryIds == [r \in Remote |-> TheId]

\* New handles are alike.
Alike == Permutations(Recovered)
=============================================================================
