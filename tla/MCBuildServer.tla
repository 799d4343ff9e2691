----------------------------- MODULE MCBuildServer -----------------------------
(***************************************************************************)
(* BuildServer with instances and requests that are alike.                 *)
(***************************************************************************)
EXTENDS BuildServer, TLC

Alike == Permutations(Instance) \cup Permutations(Request)
================================================================================
