------------------------------ MODULE Accounts ------------------------------
(***************************************************************************)
(* The accounts of the launcher: the storage (crates/auth/src/storage.rs), *)
(* the authentications that run beside the event loop, and the handlers of *)
(* crates/backend/src/lib.rs that start, cancel and end them, remove       *)
(* accounts and let an instance choose one.                                *)
(*                                                                         *)
(* A flow `c` is that of the user adding an account (Add) or that of an    *)
(* instance that is being launched or installed.                           *)
(*                                                                         *)
(* Simplifications.                                                        *)
(*  - The interface shows what was last sent to it.                        *)
(*  - The life of an instance is that of InstanceLifecycle, reduced to its *)
(*    activity: an authentication that fails ends it at once.              *)
(*  - Saving an instance's settings succeeds, or changes nothing.          *)
(***************************************************************************)
EXTENDS AccountChoice, AuthFlow, FiniteSets, SequencesExt

CONSTANTS
    Instance, Add, NoOne, \* the owners of flows; Option::None of a prompt's owner
    Config,               \* provider configurations
    KindOf,               \* the provider a configuration is of
    Gone,                 \* auth_data.json is not there
    MaxIds,               \* bound: provider ids drawn, one of them left for each flow
    MaxFlows,             \* bound: authentications begun
    MaxEdits,             \* bound: what the user adds offline, removes or chooses
    MaxMishaps            \* bound: failed saves, ends of the launcher, changed requirements

Owner == Instance \cup {Add}
Offline == CHOOSE p \in Config : KindOf[p] = "offline"

ASSUME AccountsAssumption ==
    /\ Add \notin Instance /\ NoOne \notin Owner
    /\ KindOf \in [Config -> ProviderKind]
    /\ NoProvider \notin Config /\ NoKey \notin Nat \X Token
    /\ MaxIds \in Nat /\ MaxFlows \in Nat /\ MaxFlows < MaxIds
    /\ MaxEdits \in Nat /\ MaxMishaps \in Nat
    /\ \E p \in Config : \A q \in Config : KindOf[q] = "offline" <=> q = p

VARIABLES
    providers,    \* AuthStorageData.providers, in memory
    accounts,     \* AuthStorageData.accounts, in memory
    disk,         \* auth_data.json
    offered,      \* the account just removed, which the interface may still show
    settings,     \* instance settings: selected account and override
    required,     \* the provider an instance's manifest or metadata requires
    activity,     \* the kind of activity of an instance
    flow,         \* perform_auth, by owner
    provider,     \* the configuration a flow authenticates with
    used,         \* the account data a flow began with
    addTask,      \* add_account_task is there
    addCancel,    \* add_account_cancel is there
    cancelled,    \* the token of the add flow is cancelled
    authInstance, \* auth_instance
    shown,        \* whose prompt the interface shows
    events,       \* the internal channel
    spent         \* the bounds used up

stored == <<providers, accounts, disk, offered>>
flows  == <<flow, provider, used>>
adding == <<addTask, addCancel, cancelled>>
prompt == <<authInstance, shown>>
vars   == <<stored, settings, required, activity, flows, adding, prompt, events, spent>>

Id == 1 .. MaxIds
Key == Id \X Name
NoFlow == [pc |-> "none"]
NoUse  == [user |-> NoToken, access |-> NoToken, refresh |-> NoToken]
AccountData == [user : Name, access : Name, refresh : Token]

Active(c) == flow[c] # NoFlow

Event == [type : {"AddAccountFinished", "AccountUpdated"}, provider : Config, account : AccountData]
            \cup [type : {"AddAccountFailed", "AddAccountCancelled"}]
            \cup [type : {"AuthLaunchPrompt"}, instance : Instance \cup {NoOne}]

\* A record as it is read from and written to the file.
File == [providers : UNION {[I -> Config] : I \in SUBSET Id},
         accounts : Seq([key : Key, access : Name, refresh : Token])]
Empty == [providers |-> <<>>, accounts |-> <<>>]
Memory == [providers |-> providers, accounts |-> accounts]

TypeOK ==
    /\ Memory \in File /\ (disk = Gone \/ disk \in File)
    /\ offered \in SUBSET Key
    /\ settings \in [Instance -> [selected : Key \cup {NoKey}, override : Key \cup {NoKey}]]
    /\ required \in [Instance -> Config \cup {NoProvider}]
    /\ activity \in [Instance -> {"Idle", "Install", "LaunchPrep", "Running"}]
    /\ flow \in [Owner -> Flow \cup {NoFlow}]
    /\ \A c \in Owner : Active(c) => provider[c] \in Config
    /\ \A i \in Instance : Active(i) => used[i] \in AccountData /\ activity[i] \in {"Install", "LaunchPrep"}
    /\ addTask \in BOOLEAN /\ addCancel \in BOOLEAN /\ cancelled \in BOOLEAN
    /\ authInstance \in Instance \cup {NoOne} /\ shown \in Owner \cup {NoOne}
    /\ events \in Seq(Event)
    /\ spent \in [ids : 0 .. MaxIds, flows : 0 .. MaxFlows, edits : 0 .. MaxEdits,
                  mishaps : 0 .. MaxMishaps]

Init ==
    /\ providers = <<>> /\ accounts = <<>> /\ disk = Gone /\ offered = {}
    /\ settings = [i \in Instance |-> [selected |-> NoKey, override |-> NoKey]]
    /\ required \in [Instance -> Config \cup {NoProvider}]
    /\ activity = [i \in Instance |-> "Idle"]
    /\ flow = [c \in Owner |-> NoFlow]
    /\ provider = [c \in Owner |-> NoProvider] /\ used = [c \in Owner |-> NoUse]
    /\ addTask = FALSE /\ addCancel = FALSE /\ cancelled = FALSE
    /\ authInstance = NoOne /\ shown = NoOne
    /\ events = <<>>
    /\ spent = [ids |-> 0, flows |-> 0, edits |-> 0, mishaps |-> 0]

Spent(field) == [spent EXCEPT ![field] = @ + 1]
CanFail == spent.mishaps < MaxMishaps
MayEdit == spent.edits < MaxEdits

-----------------------------------------------------------------------------
(***************************************************************************)
(* The storage.                                                            *)
(***************************************************************************)
Data(a) == [user |-> a.key[2], access |-> a.access, refresh |-> a.refresh]

\* account_views and launch_accounts: the accounts whose provider is known, at
\* their places in the storage.
Views ==
    [n \in {n \in DOMAIN accounts : accounts[n].key[1] \in DOMAIN providers} |->
        [key |-> accounts[n].key, provider |-> providers[accounts[n].key[1]], data |-> Data(accounts[n])]]

\* The default offline account; its id is derived, never drawn.
Player == [key |-> <<0, "Player">>, provider |-> Offline,
           data |-> [user |-> "Player", access |-> "Player", refresh |-> NoToken]]

\* A bug: every account draws an id.
IdAlwaysFresh(p) == spent.ids + 1

\* The id of a configuration: that of an equal one, or a fresh one.
IdOf(p) ==
    LET same == {id \in DOMAIN providers : providers[id] = p}
    IN  IF same = {} THEN spent.ids + 1 ELSE CHOOSE id \in same : TRUE

\* insert_account: an account of the same key is replaced, in its place.
Inserted(p, a) ==
    LET entry == [key |-> <<IdOf(p), a.user>>, access |-> a.access, refresh |-> a.refresh]
        at    == {n \in DOMAIN accounts : accounts[n].key = entry.key}
    IN  IF at = {} THEN Append(accounts, entry)
        ELSE [n \in DOMAIN accounts |-> IF n \in at THEN entry ELSE accounts[n]]

\* delete_account: the accounts of the key are dropped, of which there is one at
\* most (KeysSound), and then the providers nobody has an account of.
Without(k) ==
    LET at == Least({n \in DOMAIN accounts : accounts[n].key = k})
    IN  IF at = 0 THEN accounts ELSE RemoveAt(accounts, at)
UsedBy(list) == {list[n].key[1] : n \in DOMAIN list}

\* save: write_file_atomic removes the file before it renames the new one to it.
Save(fails) ==
    IF fails THEN CanFail /\ disk' \in {disk, Gone}
             ELSE disk' = [providers |-> providers', accounts |-> accounts']

Keys == {accounts[n].key : n \in DOMAIN accounts}

InsertAccount(p, a, fails, edits) ==
    /\ offered' = {}
    /\ accounts' = Inserted(p, a)
    /\ providers' = [id \in DOMAIN providers \cup {IdOf(p)} |-> IF id = IdOf(p) THEN p ELSE providers[id]]
    /\ Save(fails)
    /\ spent' = [spent EXCEPT !.ids = IF IdOf(p) > @ THEN @ + 1 ELSE @,
                              !.edits = @ + edits,
                              !.mishaps = IF fails THEN @ + 1 ELSE @]

\* submit_offline_nickname (a blank one only leads to a notification).
SubmitOfflineNickname(n, fails) ==
    /\ MayEdit /\ IdOf(Offline) <= MaxIds - MaxFlows
    /\ InsertAccount(Offline, [user |-> n, access |-> n, refresh |-> NoToken], fails, 1)
    /\ UNCHANGED <<settings, required, activity, flows, adding, prompt, events>>

\* clear_account_references, up to the first instance it fails for.
Cleared(k, done) ==
    [i \in Instance |->
        IF i \notin done THEN settings[i]
        ELSE [selected |-> IF settings[i].selected = k THEN NoKey ELSE settings[i].selected,
              override |-> IF settings[i].override = k THEN NoKey ELSE settings[i].override]]

RemoveAccount(k, fails, done) ==
    LET left == Without(k) IN
    /\ MayEdit
    /\ accounts' = left /\ offered' = {k} \cap Keys
    /\ providers' = [id \in DOMAIN providers \cap UsedBy(left) |-> providers[id]]
    /\ Save(fails)
    /\ settings' = IF fails THEN settings ELSE Cleared(k, done)
    /\ spent' = [spent EXCEPT !.edits = @ + 1,
                              !.mishaps = IF fails \/ done # Instance THEN @ + 1 ELSE @]
    /\ UNCHANGED <<required, activity, flows, adding, prompt, events>>

-----------------------------------------------------------------------------
(***************************************************************************)
(* The settings of an instance.  The account is one the interface knows.   *)
(***************************************************************************)
\* account_provider
ProviderOf(k) ==
    LET at == Least(Named(Views, k)) IN IF at = 0 THEN NoProvider ELSE Views[at].provider

SetOverride(i, k) ==
    /\ MayEdit /\ spent' = Spent("edits")
    /\ k # NoKey /\ required[i] # NoProvider => ProviderOf(k) # required[i]
    /\ settings' = [settings EXCEPT ![i].override = k]
    /\ UNCHANGED <<stored, required, activity, flows, adding, prompt, events>>

SetSelected(i, k) ==
    /\ MayEdit /\ spent' = Spent("edits")
    /\ k # NoKey /\ required[i] # NoProvider => ProviderOf(k) = required[i]
    /\ settings' = [settings EXCEPT ![i] =
           [selected |-> k, override |-> IF k # NoKey THEN NoKey ELSE @.override]]
    /\ UNCHANGED <<stored, required, activity, flows, adding, prompt, events>>

-----------------------------------------------------------------------------
(***************************************************************************)
(* Authentications.                                                        *)
(***************************************************************************)
Begin(c, p, a) ==
    /\ spent.flows < MaxFlows
    /\ flow' = [flow EXCEPT ![c] = Begun([access |-> a.access, refresh |-> a.refresh])]
    /\ provider' = [provider EXCEPT ![c] = p]
    /\ used' = [used EXCEPT ![c] = a]
    /\ spent' = Spent("flows")

\* start_add_account; for an offline account the interface asks for a nickname.
StartAddAccount(p) ==
    /\ p # Offline /\ ~addTask
    /\ Begin(Add, p, NoUse)
    /\ addTask' = TRUE /\ addCancel' = TRUE /\ cancelled' = FALSE
    /\ UNCHANGED <<stored, settings, required, activity, prompt, events>>

\* start_launch, start_install: the account is resolved before anything starts.
Start(i, kind) ==
    /\ activity[i] = "Idle"
    /\ activity' = [activity EXCEPT ![i] = kind]
    /\ IF kind = "Install" /\ required[i] = NoProvider
       THEN UNCHANGED <<flows, spent>>
       ELSE LET list == LaunchAccounts(Views, Player)
                choice == ResolveInstanceAccount(NoKey, required[i], settings[i], list)
            IN  /\ choice.why = "Ok"
                \* authenticate_account: an offline account is taken as it is.
                /\ IF KindOf[list[choice.at].provider] = "offline"
                   THEN UNCHANGED <<flows, spent>>
                   ELSE Begin(i, list[choice.at].provider, list[choice.at].data)
    /\ UNCHANGED <<stored, settings, required, adding, prompt, events>>

\* What follows the authentication, in InstanceLifecycle.
Goes(i) ==
    /\ activity[i] # "Idle" /\ ~Active(i)
    /\ activity' = [activity EXCEPT ![i] = IF @ = "LaunchPrep" THEN "Running" ELSE "Idle"]
    /\ UNCHANGED <<stored, settings, required, flows, adding, prompt, events, spent>>

Quits(c) ==
    /\ flow' = [flow EXCEPT ![c] = NoFlow]
    /\ provider' = [provider EXCEPT ![c] = NoProvider] /\ used' = [used EXCEPT ![c] = NoUse]
Moves(c, next) ==
    /\ flow' \in {[flow EXCEPT ![c] = f] : f \in next}
    /\ UNCHANGED <<provider, used>>

\* set_message and clear of the two message providers.
ShowPrompt(c) ==
    /\ shown' = c
    /\ events' = IF c = Add THEN events ELSE Append(events, [type |-> "AuthLaunchPrompt", instance |-> c])
ClearPrompt(c) ==
    /\ shown' = NoOne
    /\ events' = IF c = Add THEN events ELSE Append(events, [type |-> "AuthLaunchPrompt", instance |-> NoOne])

\* A cancelled flow is dropped where it waits, unless its result is there.
MayStep(c, pc) ==
    /\ Active(c) /\ flow[c].pc = pc /\ ~LoopEnds(flow[c])
    /\ c = Add /\ cancelled => pc = "Success"
Kind(c) == KindOf[provider[c]]

Ask(c) ==
    /\ MayStep(c, "Auth") /\ Moves(c, Asked(flow[c]))
    /\ ShowPrompt(c)
    /\ UNCHANGED <<stored, settings, required, activity, adding, authInstance, spent>>

\* Microsoft's provider clears its prompt; the others leave it to the handlers.
Answer(c) ==
    /\ MayStep(c, "Waiting") /\ Moves(c, Answered(Kind(c), flow[c]))
    /\ IF Kind(c) = "microsoft" THEN ClearPrompt(c) ELSE UNCHANGED <<shown, events>>
    /\ UNCHANGED <<stored, settings, required, activity, adding, authInstance, spent>>

Refresh(c) ==
    /\ MayStep(c, "Refresh") /\ Moves(c, Refreshed(Kind(c), flow[c]))
    /\ UNCHANGED <<stored, settings, required, activity, adding, prompt, events, spent>>

LookUp(c) ==
    /\ MayStep(c, "UserInfo") /\ Moves(c, LookedUp(flow[c]))
    /\ UNCHANGED <<stored, settings, required, activity, adding, prompt, events, spent>>

\* The result: an account to add, or new data of the one a launch uses.
Succeed(c) ==
    /\ MayStep(c, "Success") /\ Quits(c)
    /\ LET result == Account(flow[c])
           type   == IF c = Add THEN "AddAccountFinished" ELSE "AccountUpdated"
       IN  events' = IF result = used[c] THEN events
                     ELSE Append(events, [type |-> type, provider |-> provider[c], account |-> result])
    /\ UNCHANGED <<stored, settings, required, activity, adding, prompt, spent>>

\* The errors the step at hand can end with.
Errors(c) ==
    IF LoopEnds(flow[c]) THEN {"fatal"}
    ELSE CASE flow[c].pc = "Auth"     -> AskErrors(Kind(c))
           [] flow[c].pc = "Waiting"  -> AnswerErrors(Kind(c))
           [] flow[c].pc = "Refresh"  -> RefreshErrors(Kind(c))
           [] flow[c].pc = "UserInfo" -> UserInfoErrors
           [] OTHER                   -> {}

\* A launch goes on with the stored account if the network is at fault.
Fail(c, error) ==
    /\ Active(c) /\ error \in Errors(c)
    /\ c = Add /\ cancelled => FALSE
    /\ Quits(c)
    /\ IF c = Add
       THEN /\ events' = Append(events, [type |-> "AddAccountFailed"])
            /\ UNCHANGED <<activity, shown>>
       ELSE IF error = "network" THEN ClearPrompt(c) /\ UNCHANGED activity
       ELSE activity' = [activity EXCEPT ![c] = "Idle"] /\ UNCHANGED <<shown, events>>
    /\ UNCHANGED <<stored, settings, required, adding, authInstance, spent>>

\* A bug: nothing is sent when the token is cancelled.
DropAddSilently ==
    /\ Active(Add) /\ cancelled
    /\ Quits(Add)
    /\ UNCHANGED <<stored, settings, required, activity, adding, prompt, events, spent>>

\* tokio::select! in start_add_account: the token is cancelled.
DropAdd ==
    /\ Active(Add) /\ cancelled
    /\ Quits(Add)
    /\ events' = Append(events, [type |-> "AddAccountCancelled"])
    /\ UNCHANGED <<stored, settings, required, activity, adding, prompt, spent>>

\* cancel_auth: whose prompt the interface shows is not said.
CancelAuth ==
    /\ shown # NoOne
    /\ \/ /\ addCancel
          /\ addCancel' = FALSE /\ cancelled' = TRUE
          /\ UNCHANGED <<activity, flows, addTask, prompt>>
       \/ /\ ~addCancel /\ authInstance # NoOne
          /\ authInstance' = NoOne /\ shown' = NoOne
          /\ IF activity[authInstance] \in {"Install", "LaunchPrep"}
             THEN Quits(authInstance) /\ activity' = [activity EXCEPT ![authInstance] = "Idle"]
             ELSE UNCHANGED <<flows, activity>>
          /\ UNCHANGED adding
    /\ UNCHANGED <<stored, settings, required, events, spent>>

-----------------------------------------------------------------------------
(***************************************************************************)
(* The events, in order.                                                   *)
(***************************************************************************)
Receive(type) == events # <<>> /\ Head(events).type = type /\ events' = Tail(events)

\* clear_add_account_task, AuthPromptCleared
EndAdd ==
    /\ addTask' = FALSE /\ addCancel' = FALSE /\ cancelled' = FALSE
    /\ shown' = NoOne /\ UNCHANGED authInstance

HandleAddAccountFinished(fails) ==
    /\ Receive("AddAccountFinished") /\ EndAdd
    /\ InsertAccount(Head(events).provider, Head(events).account, fails, 0)
    /\ UNCHANGED <<settings, required, activity, flows>>

HandleAddAccountEnded ==
    /\ Receive("AddAccountFailed") \/ Receive("AddAccountCancelled")
    /\ EndAdd
    /\ UNCHANGED <<stored, settings, required, activity, flows, spent>>

HandleAccountUpdated(fails) ==
    /\ Receive("AccountUpdated")
    /\ InsertAccount(Head(events).provider, Head(events).account, fails, 0)
    /\ UNCHANGED <<settings, required, activity, flows, adding, prompt>>

HandleAuthLaunchPrompt ==
    /\ Receive("AuthLaunchPrompt") /\ authInstance' = Head(events).instance
    /\ UNCHANGED <<stored, settings, required, activity, flows, adding, shown, spent>>

-----------------------------------------------------------------------------
\* The launcher ends and starts again.
Restart ==
    /\ CanFail /\ spent' = Spent("mishaps")
    /\ LET read == IF disk = Gone THEN Empty ELSE disk
       IN  providers' = read.providers /\ accounts' = read.accounts
    /\ offered' = {}
    /\ activity' = [i \in Instance |-> "Idle"]
    /\ flow' = [c \in Owner |-> NoFlow]
    /\ provider' = [c \in Owner |-> NoProvider] /\ used' = [c \in Owner |-> NoUse]
    /\ addTask' = FALSE /\ addCancel' = FALSE /\ cancelled' = FALSE
    /\ authInstance' = NoOne /\ shown' = NoOne /\ events' = <<>>
    /\ UNCHANGED <<disk, settings, required>>

\* A manifest is published that requires another provider.
Republish(i, p) ==
    /\ CanFail /\ p # required[i]
    /\ required' = [required EXCEPT ![i] = p]
    /\ spent' = Spent("mishaps")
    /\ UNCHANGED <<stored, settings, activity, flows, adding, prompt, events>>

User ==
    \/ \E n \in Name, fails \in BOOLEAN : SubmitOfflineNickname(n, fails)
    \/ \E k \in Keys \cup offered, fails \in BOOLEAN, done \in SUBSET Instance :
          RemoveAccount(k, fails, IF CanFail THEN done ELSE Instance)
    \/ \E i \in Instance, k \in Keys \cup offered \cup {NoKey} : SetOverride(i, k) \/ SetSelected(i, k)
    \/ \E p \in Config : StartAddAccount(p)
    \/ \E i \in Instance, kind \in {"Install", "LaunchPrep"} : Start(i, kind)
    \/ CancelAuth
Tasks ==
    \/ \E c \in Owner : Ask(c) \/ Answer(c) \/ Refresh(c) \/ LookUp(c) \/ Succeed(c)
    \/ \E c \in Owner, error \in {"fatal", "network"} : Fail(c, error)
    \/ DropAdd
    \/ \E i \in Instance : Goes(i)
Handlers ==
    \/ \E fails \in BOOLEAN : HandleAddAccountFinished(fails) \/ HandleAccountUpdated(fails)
    \/ HandleAddAccountEnded \/ HandleAuthLaunchPrompt

Next ==
    \/ User \/ Tasks \/ Handlers \/ Restart
    \/ \E i \in Instance, p \in Config \cup {NoProvider} : Republish(i, p)

\* The loop handles what is sent to it, and a cancelled flow is polled.
Fairness == WF_vars(Handlers) /\ WF_vars(DropAdd)
Spec == Init /\ [][Next]_vars /\ Fairness

-----------------------------------------------------------------------------
(***************************************************************************)
(* Properties.                                                             *)
(***************************************************************************)
\* storage.rs, insert_account and delete_account: in memory and in the file, an
\* account is there once, a configuration has one id, and the configurations kept
\* are those of the accounts, whatever saves fail and whenever the launcher ends.
Sound(file) ==
    /\ \A m, n \in DOMAIN file.accounts :
          file.accounts[m].key = file.accounts[n].key => m = n
    /\ IsInjective(file.providers)
    /\ DOMAIN file.providers = UsedBy(file.accounts)

KeysSound == \A file \in {Memory, disk} \ {Gone} : Sound(file)

\* flow.rs, perform_auth: the tokens kept under a name are those of that user,
\* also when a refresh ended in a log-in as somebody else.
Own(a) == a.access = a.user /\ a.refresh \in {a.user, NoToken}
TokensMatch ==
    /\ \A n \in DOMAIN accounts : Own(Data(accounts[n]))
    /\ \A n \in DOMAIN events :
          events[n].type \in {"AddAccountFinished", "AccountUpdated"} => Own(events[n].account)

\* instances.rs, effective_account, and lib.rs, resolve_instance_account: an instance
\* never plays as another account than the one the interface shows; one that is shown
\* an account and not played is so only for a selection made before the required
\* provider changed; and one that is shown none is not launched, but for want of any
\* account at all or where the interface does not block the launch (an override that
\* is gone).
PlaysAsShown ==
    \A i \in Instance :
        LET list  == LaunchAccounts(Views, Player)
            sees  == EffectiveAccount(required[i], settings[i], Views)
            plays == ResolveInstanceAccount(NoKey, required[i], settings[i], list)
            Gives(k) == Named(Views, k) # {}
        IN  IF sees # 0
            THEN \/ plays.at = sees
                 \/ plays.why = "IncompatibleAccount" /\ Gives(settings[i].selected)
                    /\ ProviderOf(settings[i].selected) # required[i]
            ELSE plays.at = 0 \/ Views = <<>> \/ ~LaunchBlocked(required[i], settings[i], sees)

\* lib.rs, cancel_auth: an authentication the user cancels leaves room for
\* another.
AddEnds == (addTask /\ ~addCancel) ~> ~addTask
=============================================================================
