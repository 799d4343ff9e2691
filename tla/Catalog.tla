------------------------------- MODULE Catalog -------------------------------
(***************************************************************************)
(* The catalogs of the launcher: which instances each backend publishes    *)
(* (crates/backend/src/catalog.rs and its callers in lib.rs), together     *)
(* with the stored instances that came from them and what the interface    *)
(* offers for each (InstanceViews).                                        *)
(*                                                                         *)
(* A fetch is a task; its answer is handled whenever it arrives, so        *)
(* several fetches of one URL are answered in any order.  A manifest that  *)
(* was fetched is written to the cache by a task of its own.  A backend    *)
(* publishes a new manifest at any time.                                   *)
(*                                                                         *)
(* Simplifications.  A manifest says for every instance which version is   *)
(* published, 0 for none.  Instances that were only created here have no   *)
(* part in it.  Writing a file either happens or fails: writes are atomic  *)
(* (write_file_atomic).  An installation that is under way is its version; *)
(* accounts, errors and launches of an instance are InstanceLifecycle's.   *)
(***************************************************************************)
EXTENDS InstanceViews, Bags, FiniteSets

CONSTANTS
    Url,          \* URLs of backends
    DefaultUrls,  \* default_instance_manifest_urls()
    Id,           \* ids a manifest may list
    Unknown,      \* Option::None of a manifest
    Waiting,      \* a fetch without an answer
    Offline,      \* the answer of a backend that cannot be reached in time
    Failed,       \* any other failed answer
    MaxVersion,   \* bound: versions of an instance
    MaxFetches,   \* bound: fetches under way
    MaxMishaps    \* bound: new manifests, failing writes and fetches, restarts

Version  == 1 .. MaxVersion
Manifest == [Id -> 0 .. MaxVersion]
Handle   == Url \X Id

ASSUME CatalogAssumption ==
    /\ DefaultUrls \subseteq Url
    /\ MaxVersion \in Nat /\ MaxFetches \in Nat /\ MaxMishaps \in Nat
    /\ Unknown \notin Manifest

VARIABLES
    published,  \* manifest each backend serves
    configured, \* settings.backend_urls in memory
    saved,      \* and in the settings file
    catalogs,   \* the entry of each URL; Gone when there is none
    fetches,    \* bag of fetches: their URL and what they got so far
    saves,      \* spawned writes to the cache
    cache,      \* catalog_cache: the manifest in each file, or Unknown
    stored,     \* state of each instance in the storage
    synced,     \* last_synced_sha1 of each instance: the version, or 0
    installing, \* version an installation under way brings, or 0
    mishaps     \* what happened so far that the user did not ask for

net  == <<published, mishaps>>
urls == <<configured, saved>>
io   == <<fetches, saves, cache>>
inst == <<stored, synced, installing>>
vars == <<net, urls, catalogs, io, inst>>

-----------------------------------------------------------------------------
(***************************************************************************)
(* The entry of a URL.                                                     *)
(***************************************************************************)
Status == {"NotFetched", "Fetching", "Ok", "Offline", "Error"}
Entry  == [manifest : Manifest \cup {Unknown}, status : Status]
Gone   == [manifest |-> Unknown, status |-> "NoEntry"]

NewNotFetched == [manifest |-> Unknown, status |-> "NotFetched"]
\* load_cached_manifest, and from_cache when the file is there.
Loaded(u) == [manifest |-> cache[u], status |-> "NotFetched"]

SetFetching(entry) == [entry EXCEPT !.status = "Fetching"]
ApplySuccess(manifest) == [manifest |-> manifest, status |-> "Ok"]

\* Mutant of ApplyFailure: the failed entry starts again from nothing.
ResetOnFailure(entry, answer) ==
    [NewNotFetched EXCEPT !.status = IF answer = Offline THEN "Offline" ELSE "Error"]

\* apply_fetch_failure keeps the manifest: what is installed stays playable.
ApplyFailure(entry, answer) ==
    [entry EXCEPT !.status = IF answer = Offline THEN "Offline" ELSE "Error"]

Known(u) == catalogs[u].manifest # Unknown

Referenced == {h[1] : h \in {g \in Handle : stored[g] # "absent"}}
\* visible_backend_urls: configured, or some stored instance came from it.
Visible == configured \cup Referenced

\* start_fetch of every URL of a set: its entry, new or not, turns Fetching.
Fetch(entries, us) ==
    [u \in Url |->
        IF u \notin us THEN entries[u]
        ELSE SetFetching(IF entries[u] = Gone THEN NewNotFetched ELSE entries[u])]
Started(us) == SetToBag({[url |-> u, got |-> Waiting] : u \in us})
StartFetches(entries, us) ==
    /\ BagCardinality(fetches) + Cardinality(us) <= MaxFetches
    /\ catalogs' = Fetch(entries, us)
    /\ fetches' = fetches (+) Started(us)

\* The bound on what changes outside and on what goes wrong.
Count == mishaps < MaxMishaps /\ mishaps' = mishaps + 1
Mishap == Count /\ UNCHANGED published

Init ==
    /\ published \in [Url -> Manifest]
    /\ configured = DefaultUrls /\ saved = DefaultUrls
    /\ catalogs = [u \in Url |-> IF u \in DefaultUrls THEN SetFetching(NewNotFetched) ELSE Gone]
    /\ fetches = Started(DefaultUrls) /\ saves = {}
    /\ cache = [u \in Url |-> Unknown]
    /\ stored = [h \in Handle |-> "absent"]
    /\ synced = [h \in Handle |-> 0] /\ installing = [h \in Handle |-> 0]
    /\ mishaps = 0

-----------------------------------------------------------------------------
(***************************************************************************)
(* The backends and the fetches.                                           *)
(***************************************************************************)
Publish(u, manifest) ==
    /\ manifest # published[u] /\ \A i \in Id : manifest[i] = 0 \/ manifest[i] >= published[u][i]
    /\ published' = [published EXCEPT ![u] = manifest] /\ Count
    /\ UNCHANGED <<urls, catalogs, io, inst>>

\* InstanceManifest::fetch: what the backend serves at that moment, or one of
\* the failures classify_manifest_error tells apart.
Answer(f) ==
    /\ f.got = Waiting
    /\ \E got \in {published[f.url], Offline, Failed} :
          /\ fetches' = (fetches (-) SetToBag({f})) (+) SetToBag({[f EXCEPT !.got = got]})
          /\ IF got \in {Offline, Failed} THEN Mishap ELSE UNCHANGED net
    /\ UNCHANGED <<urls, catalogs, saves, cache, inst>>

NoAnswer(got) == got \in {Offline, Failed}

\* Mutant of Answered: answers for URLs that are not configured are dropped.
AnsweredIfConfigured(u, got) ==
    [catalogs EXCEPT ![u] =
        IF u \notin configured THEN @
        ELSE IF NoAnswer(got) THEN ApplyFailure(@, got) ELSE ApplySuccess(got)]

\* The entries after an answer: that of u is made again if u was removed.
Answered(u, got) ==
    LET entry == IF catalogs[u] = Gone THEN NewNotFetched ELSE catalogs[u] IN
    [catalogs EXCEPT ![u] =
        IF NoAnswer(got) THEN ApplyFailure(entry, got) ELSE ApplySuccess(got)]

\* FetchFinished, and the write to the cache it spawns.
HandleFetchFinished(f) ==
    /\ f.got # Waiting
    /\ fetches' = fetches (-) SetToBag({f})
    /\ catalogs' = Answered(f.url, f.got)
    /\ saves' = IF NoAnswer(f.got) THEN saves
                ELSE saves \cup {[url |-> f.url, manifest |-> f.got]}
    /\ UNCHANGED <<net, urls, cache, inst>>

\* save_cached_manifest; a failure is only logged.
SaveCachedManifest(s) ==
    /\ saves' = saves \ {s}
    /\ \/ cache' = [cache EXCEPT ![s.url] = s.manifest] /\ UNCHANGED net
       \/ Mishap /\ UNCHANGED cache
    /\ UNCHANGED <<urls, catalogs, fetches, inst>>

-----------------------------------------------------------------------------
(***************************************************************************)
(* Messages of the user.                                                   *)
(***************************************************************************)
\* AddBackendUrl of a URL that is not configured.  When the settings cannot be
\* saved the URL stays in memory, unfetched.
AddBackendUrl(u) ==
    /\ u \notin configured
    /\ configured' = configured \cup {u}
    /\ LET fresh == [catalogs EXCEPT ![u] = NewNotFetched] IN
       \/ saved' = configured' /\ StartFetches(fresh, {u}) /\ UNCHANGED net
       \/ Mishap /\ catalogs' = fresh /\ UNCHANGED <<saved, fetches>>
    /\ UNCHANGED <<saves, cache, inst>>

\* RemoveBackendUrl: the entry goes, and its cache file, unless an instance
\* that is stored came from there.
RemoveBackendUrl(u) ==
    /\ u \in configured
    /\ configured' = configured \ {u}
    /\ IF u \in Referenced THEN UNCHANGED <<catalogs, cache>>
       ELSE /\ catalogs' = [catalogs EXCEPT ![u] = Gone]
            /\ cache' = [cache EXCEPT ![u] = Unknown]
    /\ \/ saved' = configured' /\ UNCHANGED net
       \/ Mishap /\ UNCHANGED saved
    /\ UNCHANGED <<fetches, saves, inst>>

\* Mutant of RefreshAll: only what is configured is fetched, and the entries
\* of other URLs are dropped.
RefreshConfigured ==
    /\ StartFetches([u \in Url |-> IF u \in configured THEN catalogs[u] ELSE Gone], configured)
    /\ UNCHANGED <<net, urls, saves, cache, inst>>

\* refresh_all fetches what is visible.
RefreshAll ==
    /\ StartFetches(catalogs, Visible)
    /\ UNCHANGED <<net, urls, saves, cache, inst>>

\* The launcher ends, or dies, and starts again: BackendState::load reads the
\* settings (a file that cannot be read is put aside for the defaults) and the
\* cache of each configured URL, run refreshes everything that is visible.
Restart ==
    /\ Mishap
    /\ \E settings \in {saved, DefaultUrls} : configured' = settings /\ saved' = settings
    /\ catalogs' = Fetch([u \in Url |-> IF u \in configured' THEN Loaded(u) ELSE Gone],
                         configured' \cup Referenced)
    /\ fetches' = Started(configured' \cup Referenced)
    /\ saves' = {} /\ installing' = [h \in Handle |-> 0]
    /\ UNCHANGED <<cache, stored, synced>>

-----------------------------------------------------------------------------
(***************************************************************************)
(* Stored instances.                                                       *)
(***************************************************************************)
\* The version of h in the manifest that is known, 0 when there is none.
ListedVersion(h) == IF Known(h[1]) THEN catalogs[h[1]].manifest[h[2]] ELSE 0

\* Mutant of InstallPlan: a stored instance needs its backend configured.
PlanOfConfigured(h) ==
    IF stored[h] # "absent" /\ h[1] \notin configured THEN 0 ELSE ListedVersion(h)

\* resolve_install_plan: the version to install, 0 for each of its errors.  A
\* stored instance looks in the catalog of its source, any other in all.
InstallPlan(h) ==
    IF stored[h] # "absent" /\ ~Known(h[1]) THEN 0 ELSE ListedVersion(h)

StartInstall(h) ==
    /\ installing[h] = 0 /\ InstallPlan(h) # 0
    /\ installing' = [installing EXCEPT ![h] = InstallPlan(h)]
    /\ UNCHANGED <<net, urls, catalogs, io, stored, synced>>

\* The installation ends, well (store the version it brought) or not.
FinishInstall(h) ==
    /\ installing[h] # 0
    /\ installing' = [installing EXCEPT ![h] = 0]
    /\ \/ /\ stored' = [stored EXCEPT ![h] = "installed"]
          /\ synced' = [synced EXCEPT ![h] = installing[h]]
       \/ UNCHANGED <<stored, synced>>
    /\ UNCHANGED <<net, urls, catalogs, io>>

\* ensure_instance_for_settings of an instance that is not stored.
EnsureForSettings(h) ==
    /\ stored[h] = "absent" /\ ListedVersion(h) # 0
    /\ stored' = [stored EXCEPT ![h] = "pending"]
    /\ UNCHANGED <<net, urls, catalogs, io, synced, installing>>

DeleteInstance(h) ==
    /\ stored[h] # "absent" /\ installing[h] = 0
    /\ stored' = [stored EXCEPT ![h] = "absent"]
    /\ synced' = [synced EXCEPT ![h] = 0]
    /\ UNCHANGED <<net, urls, catalogs, io, installing>>

Next ==
    \/ \E u \in Url :
          \/ AddBackendUrl(u) \/ RemoveBackendUrl(u)
          \/ \E manifest \in Manifest : Publish(u, manifest)
    \/ \E f \in BagToSet(fetches) : Answer(f) \/ HandleFetchFinished(f)
    \/ \E s \in saves : SaveCachedManifest(s)
    \/ \E h \in Handle :
          StartInstall(h) \/ FinishInstall(h) \/ EnsureForSettings(h) \/ DeleteInstance(h)
    \/ RefreshAll \/ Restart

Spec == Init /\ [][Next]_vars

-----------------------------------------------------------------------------
(***************************************************************************)
(* What the interface makes of it.                                         *)
(***************************************************************************)
\* fetched_manifests and the arms of build_instance_views.
WhatIsPublished(h) ==
    CASE ~Known(h[1]) -> "Unknown"
      [] Known(h[1]) /\ ListedVersion(h) = 0 -> "Unlisted"
      [] ListedVersion(h) # 0 /\ ListedVersion(h) = synced[h] -> "Synced"
      [] OTHER -> "Changed"

ViewOf(h) ==
    [stored      |-> stored[h],
     origin      |-> "Backend",
     kind        |-> IF installing[h] # 0 THEN "Install" ELSE "Idle",
     creating    |-> FALSE,
     installErr  |-> FALSE,
     launchErr   |-> FALSE,
     launchAfter |-> "none",
     published   |-> WhatIsPublished(h),
     blocked     |-> FALSE]

\* backend_statuses: one for each visible URL, NotFetched without an entry.
FetchState(u) == IF catalogs[u] = Gone THEN "NotFetched" ELSE catalogs[u].status
\* backend_empty_state_section: a backend with no instance to show says why,
\* unless it was fetched.
EmptyStateShown == {u \in Visible : FetchState(u) # "Ok" /\
                       ~ \E h \in Handle : h[1] = u /\ HasView(ViewOf(h))}

-----------------------------------------------------------------------------
(***************************************************************************)
(* Properties.                                                             *)
(***************************************************************************)
TypeOK ==
    /\ published \in [Url -> Manifest]
    /\ configured \subseteq Url /\ saved \subseteq Url
    /\ catalogs \in [Url -> Entry \cup {Gone}]
    /\ \A f \in BagToSet(fetches) :
          f.url \in Url /\ (f.got \in {Waiting, Offline, Failed} \/ f.got \in Manifest)
    /\ saves \subseteq [url : Url, manifest : Manifest]
    /\ \A u \in Url : cache[u] = Unknown \/ cache[u] \in Manifest
    /\ stored \in [Handle -> {"absent", "pending", "installed"}]
    /\ synced \in [Handle -> 0 .. MaxVersion] /\ installing \in [Handle -> 0 .. MaxVersion]

\* Once a backend's manifest is known the launcher works with it while the
\* backend is away: refreshing it, late and failing answers never lose it.  Only adding or removing its own URL and a restart do
\* (start_fetch, apply_fetch_failure, handle_fetch_finished).
ManifestKept ==
    [][\A u \in Url :
          Known(u) /\ catalogs'[u].manifest = Unknown =>
              \/ (u \in configured) # (u \in configured')
              \/ mishaps' # mishaps /\ fetches' = Started(configured' \cup Referenced)]_vars

\* An install or an update the interface offers can be carried out: where
\* build_instance_views finds an entry, resolve_install_plan finds it too,
\* whether the URL is configured or only stands behind a stored instance.  The
\* exception is an instance whose settings were touched before it was ever
\* installed and that its backend no longer lists, or is no longer known.
OffersResolve ==
    \A h \in Handle :
        LET x == ViewOf(h) IN
        HasView(x) /\ "InstallInstance" \in Buttons(View(x)) =>
            InstallPlan(h) # 0 \/ (stored[h] = "pending" /\ ~Listed(x))

\* The state is well typed, and an answer is due for every backend that is shown as
\* being fetched: no order of answers, edits and restarts leaves one fetching for ever
\* while its tasks have ended (set_fetching against handle_fetch_finished).
FetchingIsUnderWay ==
    /\ TypeOK
    /\ \A u \in Url : catalogs[u].status = "Fetching" =>
          \E f \in BagToSet(fetches) : f.url = u
=============================================================================
