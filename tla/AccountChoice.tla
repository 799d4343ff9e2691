---------------------------- MODULE AccountChoice ----------------------------
(***************************************************************************)
(* Which account an instance uses, decided twice in the code: for the      *)
(* interface by effective_account and launch_blocked_reason                *)
(* (crates/backend/src/instances.rs), and for a launch or an installation  *)
(* by resolve_instance_account and resolve_account (lib.rs, launch.rs).    *)
(*                                                                         *)
(* An account is a record with the fields `key` and `provider`; both sides *)
(* search the same list, in the order of the storage.  A choice is a place *)
(* in the list, and 0 when there is none.                                  *)
(***************************************************************************)
EXTENDS Naturals, Sequences

CONSTANTS NoKey,       \* no account is named
          NoProvider   \* the instance requires no authentication provider

Least(I) == IF I = {} THEN 0 ELSE CHOOSE i \in I : \A j \in I : i <= j

\* The accounts named by a key, and those of a provider (all, if none is required).
Named(accounts, key) == {i \in DOMAIN accounts : accounts[i].key = key}
Fitting(accounts, required) ==
    {i \in DOMAIN accounts : required \in {NoProvider, accounts[i].provider}}

\* instances.rs: the account the interface shows.
EffectiveAccount(required, settings, accounts) ==
    LET chosen == Named(accounts, settings.selected) \cap Fitting(accounts, required)
    IN  IF settings.override # NoKey THEN Least(Named(accounts, settings.override))
        ELSE Least(IF chosen # {} THEN chosen ELSE Fitting(accounts, required))

\* instances.rs: whether the interface asks for an account first.
LaunchBlocked(required, settings, shown) ==
    settings.override = NoKey /\ required # NoProvider /\ shown = 0

\* lib.rs: with no account at all, a launch has the default offline one.
LaunchAccounts(accounts, player) == IF accounts = <<>> THEN <<player>> ELSE accounts

\* A bug: an account that is gone is not noticed.
AsChosen(key, accounts) == key

\* launch.rs, stored_account_if_valid
IfValid(key, accounts) == IF Named(accounts, key) = {} THEN NoKey ELSE key

\* launch.rs: the account of a launch; `why` names the error when there is none.
ResolveAccount(requested, required, accounts) ==
    LET named   == Least(Named(accounts, requested))
        fitting == Least(Fitting(accounts, required))
        Refused(why) == [at |-> 0, why |-> why]
    IN  IF requested # NoKey
        THEN IF named = 0 THEN Refused("AccountNotFound")
             ELSE IF named \notin Fitting(accounts, required) THEN Refused("IncompatibleAccount")
             ELSE [at |-> named, why |-> "Ok"]
        ELSE IF fitting = 0
             THEN Refused(IF required = NoProvider THEN "NoAccount" ELSE "NoCompatibleAccount")
             ELSE [at |-> fitting, why |-> "Ok"]

\* lib.rs: `requested` is the account a message names.
ResolveInstanceAccount(requested, required, settings, accounts) ==
    LET override == IfValid(settings.override, accounts)
        bypassed == requested = NoKey /\ override # NoKey
        account  == IF requested # NoKey THEN requested
                    ELSE IF override # NoKey THEN override
                    ELSE IfValid(settings.selected, accounts)
    IN  ResolveAccount(account, IF bypassed THEN NoProvider ELSE required, accounts)
=============================================================================
