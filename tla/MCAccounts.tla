----------------------------- MODULE MCAccounts -----------------------------
(***************************************************************************)
(* Accounts for TLC: providers with and without refresh tokens, and the    *)
(* offline one.                                                            *)
(***************************************************************************)
EXTENDS Accounts

MCConfig == {"msa", "ely", "off"}
MCKindOf == [p \in MCConfig |-> CASE p = "msa" -> "microsoft" [] p = "ely" -> "elyby" [] OTHER -> "offline"]
=============================================================================
