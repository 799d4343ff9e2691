---------------------------- MODULE Catalog_proofs ----------------------------
(***************************************************************************)
(* Proofs about the catalogs, for any URLs, ids and versions.              *)
(***************************************************************************)
EXTENDS Catalog, TLAPS

-----------------------------------------------------------------------------
(***************************************************************************)
(* Bags of fetches.                                                        *)
(***************************************************************************)

\* Adding a bag adds its elements.
LEMMA BagGrows ==
    ASSUME NEW A, NEW B, IsABag(A), IsABag(B)
    PROVE  IsABag(A (+) B) /\ BagToSet(A (+) B) = BagToSet(A) \cup BagToSet(B)
BY DEF IsABag, BagToSet, (+)

\* Taking one copy of an element leaves the others.
LEMMA BagShrinks ==
    ASSUME NEW A, NEW e, IsABag(A)
    PROVE  /\ IsABag(A (-) SetToBag({e}))
           /\ BagToSet(A (-) SetToBag({e})) \subseteq BagToSet(A)
           /\ BagToSet(A) \ {e} \subseteq BagToSet(A (-) SetToBag({e}))
BY DEF IsABag, BagToSet, SetToBag, (-)

\* The bag of a set.
LEMMA BagOfSet == \A S : IsABag(SetToBag(S)) /\ BagToSet(SetToBag(S)) = S
BY DEF IsABag, BagToSet, SetToBag

-----------------------------------------------------------------------------
(***************************************************************************)
(* The invariant: types, and an answer due for what is being fetched.      *)
(***************************************************************************)
Fetches == [url : Url, got : Manifest \cup {Waiting, Offline, Failed}]
Entries == [Url -> Entry \cup {Gone}]

\* An answer is due for each entry that is being fetched.
Due(entries, bag) ==
    \A u \in Url : entries[u].status = "Fetching" => \E f \in BagToSet(bag) : f.url = u

FetchInv ==
    /\ catalogs \in Entries
    /\ IsABag(fetches) /\ BagToSet(fetches) \subseteq Fetches
    /\ Due(catalogs, fetches)

\* The rest of the state.
RestTyped ==
    /\ published \in [Url -> Manifest]
    /\ configured \subseteq Url /\ saved \subseteq Url
    /\ saves \subseteq [url : Url, manifest : Manifest]
    /\ cache \in [Url -> Manifest \cup {Unknown}]
    /\ stored \in [Handle -> {"absent", "pending", "installed"}]
    /\ synced \in [Handle -> 0 .. MaxVersion] /\ installing \in [Handle -> 0 .. MaxVersion]
    /\ mishaps \in Nat

Inv == FetchInv /\ RestTyped

\* An entry without a manifest, one from the cache, the fresh answer.
LEMMA EntryTypes ==
    /\ NewNotFetched \in Entry
    /\ \A m \in Manifest : ApplySuccess(m) \in Entry
    /\ \A e \in Entry : \A got : ApplyFailure(e, got) \in Entry /\ SetFetching(e) \in Entry
BY DEF NewNotFetched, ApplySuccess, ApplyFailure, SetFetching, Entry, Status

\* What the status and the manifest become.
LEMMA EntryChanges ==
    /\ NewNotFetched.status = "NotFetched" /\ NewNotFetched.manifest = Unknown
    /\ Gone.status = "NoEntry" /\ Gone.manifest = Unknown
    /\ \A m : ApplySuccess(m).status = "Ok" /\ ApplySuccess(m).manifest = m
    /\ \A e \in Entry : \A got :
          /\ ApplyFailure(e, got).status # "Fetching" /\ ApplyFailure(e, got).manifest = e.manifest
          /\ SetFetching(e).manifest = e.manifest
BY DEF NewNotFetched, Gone, ApplySuccess, ApplyFailure, SetFetching, Entry, Status

\* Fetching touches the entries of its URLs, and no manifest (start_fetch).
LEMMA FetchEffect ==
    ASSUME NEW entries \in Entries, NEW us \in SUBSET Url
    PROVE  /\ Fetch(entries, us) \in Entries
           /\ \A u \in Url : Fetch(entries, us)[u].manifest = entries[u].manifest
           /\ \A u \in Url \ us : Fetch(entries, us)[u] = entries[u]
<1> DEFINE base(u) == IF entries[u] = Gone THEN NewNotFetched ELSE entries[u]
<1>1. \A u \in Url : Fetch(entries, us)[u] = IF u \notin us THEN entries[u] ELSE SetFetching(base(u))
  BY DEF Fetch
<1>2. \A u \in Url : entries[u] \in Entry \cup {Gone} /\ base(u) \in Entry
                     /\ base(u).manifest = entries[u].manifest
  BY EntryTypes, EntryChanges DEF Entries
<1>3. Fetch(entries, us) = [u \in Url |-> Fetch(entries, us)[u]]
  BY DEF Fetch
<1> HIDE DEF base
<1>4. \A u \in Url : SetFetching(base(u)) \in Entry /\ SetFetching(base(u)).manifest = entries[u].manifest
  BY <1>2, EntryTypes, EntryChanges
<1>5. \A u \in Url : Fetch(entries, us)[u] \in Entry \cup {Gone}
  BY <1>1, <1>2, <1>4
<1>6. Fetch(entries, us) \in Entries
  BY <1>3, <1>5 DEF Entries
<1> QED
  BY <1>1, <1>4, <1>6

\* The bag of the fetches that are started.
LEMMA StartedBag ==
    ASSUME NEW us \in SUBSET Url
    PROVE  /\ IsABag(Started(us)) /\ BagToSet(Started(us)) \subseteq Fetches
           /\ \A u \in us : \E f \in BagToSet(Started(us)) : f.url = u
<1>1. BagToSet(Started(us)) = {[url |-> u, got |-> Waiting] : u \in us} /\ IsABag(Started(us))
  BY BagOfSet DEF Started
<1>2. \A u \in us : [url |-> u, got |-> Waiting] \in Fetches
  BY DEF Fetches
<1>3. ASSUME NEW u \in us PROVE \E f \in BagToSet(Started(us)) : f.url = u
  <2>1. [url |-> u, got |-> Waiting] \in BagToSet(Started(us))
    BY <1>1
  <2> QED
    BY <2>1
<1> QED
  BY <1>1, <1>2, <1>3

\* What is fetched gets a task (start_fetch, refresh_all).
LEMMA StartInv ==
    ASSUME FetchInv, NEW entries \in Entries, NEW us \in SUBSET Url,
           Due(entries, fetches), StartFetches(entries, us)
    PROVE  FetchInv'
<1>1. catalogs' = Fetch(entries, us) /\ fetches' = fetches (+) Started(us)
  BY DEF StartFetches
<1>2. /\ IsABag(fetches') /\ BagToSet(fetches') = BagToSet(fetches) \cup BagToSet(Started(us))
  BY <1>1, BagGrows, StartedBag DEF FetchInv
<1>3. BagToSet(fetches') \subseteq Fetches
  BY <1>2, StartedBag DEF FetchInv
<1>4. Due(catalogs', fetches')
  <2> SUFFICES ASSUME NEW u \in Url, catalogs'[u].status = "Fetching"
               PROVE  \E f \in BagToSet(fetches') : f.url = u
    BY DEF Due
  <2>1. CASE u \in us
    BY <1>2, <2>1, StartedBag
  <2>2. CASE u \notin us
    <3>1. entries[u].status = "Fetching"
      BY <1>1, <2>2, FetchEffect
    <3> QED
      BY <1>2, <3>1 DEF Due
  <2> QED
    BY <2>1, <2>2
<1> QED
  BY <1>1, <1>2, <1>3, <1>4, FetchEffect DEF FetchInv

\* An answer is one to the URL it was fetched for (InstanceManifest::fetch).
LEMMA AnswerInv ==
    ASSUME Inv, NEW f \in BagToSet(fetches), Answer(f)
    PROVE  FetchInv'
<1>1. PICK got \in {published[f.url], Offline, Failed} :
        fetches' = (fetches (-) SetToBag({f})) (+) SetToBag({[f EXCEPT !.got = got]})
  BY DEF Answer
<1>2. f \in Fetches /\ published[f.url] \in Manifest
  BY DEF Inv, FetchInv, RestTyped, Fetches
<1> DEFINE g == [f EXCEPT !.got = got]
           rest == fetches (-) SetToBag({f})
<1>3. g \in Fetches /\ g.url = f.url
  BY <1>2 DEF Fetches
<1>4. /\ IsABag(rest) /\ BagToSet(rest) \subseteq BagToSet(fetches)
      /\ BagToSet(fetches) \ {f} \subseteq BagToSet(rest)
  BY BagShrinks DEF Inv, FetchInv
<1>5. IsABag(SetToBag({g})) /\ BagToSet(SetToBag({g})) = {g}
  BY BagOfSet
<1>6. fetches' = rest (+) SetToBag({g})
  BY <1>1
<1> HIDE DEF g, rest
<1>7. IsABag(fetches') /\ BagToSet(fetches') = BagToSet(rest) \cup {g}
  BY <1>4, <1>5, <1>6, BagGrows
<1>8. BagToSet(fetches') \subseteq Fetches
  BY <1>3, <1>4, <1>7 DEF Inv, FetchInv
<1>9. catalogs' = catalogs
  BY DEF Answer, inst
<1>10. \A u \in Url : (\E d \in BagToSet(fetches) : d.url = u) => \E d \in BagToSet(fetches') : d.url = u
  BY <1>3, <1>4, <1>7
<1> QED
  BY <1>7, <1>8, <1>9, <1>10 DEF Inv, FetchInv, Due

\* What an answer makes of the entries (apply_fetch_success, apply_fetch_failure).
LEMMA AnsweredEffect ==
    ASSUME FetchInv, NEW u \in Url, NEW got \in Manifest \cup {Waiting, Offline, Failed}, got # Waiting
    PROVE  /\ Answered(u, got) \in Entries
           /\ Answered(u, got)[u].status # "Fetching"
           /\ \A v \in Url \ {u} : Answered(u, got)[v] = catalogs[v]
           /\ Answered(u, got)[u].manifest = Unknown => catalogs[u].manifest = Unknown
<1> DEFINE entry == IF catalogs[u] = Gone THEN NewNotFetched ELSE catalogs[u]
           next == IF NoAnswer(got) THEN ApplyFailure(entry, got) ELSE ApplySuccess(got)
<1>1. catalogs \in Entries /\ catalogs[u] \in Entry \cup {Gone}
  BY DEF FetchInv, Entries
<1>2. entry \in Entry /\ entry.manifest = catalogs[u].manifest
  BY <1>1, EntryTypes, EntryChanges
<1>3. Answered(u, got) = [catalogs EXCEPT ![u] = next]
  BY DEF Answered
<1>4. ~NoAnswer(got) => got \in Manifest
  BY DEF NoAnswer
<1> HIDE DEF entry
<1>5. next \in Entry /\ next.status # "Fetching"
  BY <1>2, <1>4, EntryTypes, EntryChanges
<1>6. next.manifest = Unknown => catalogs[u].manifest = Unknown
  BY <1>2, <1>4, EntryChanges, CatalogAssumption
<1> HIDE DEF next
<1>7. Answered(u, got) \in Entries /\ Answered(u, got)[u] = next
  BY <1>1, <1>3, <1>5 DEF Entries
<1>8. \A v \in Url \ {u} : Answered(u, got)[v] = catalogs[v]
  BY <1>1, <1>3 DEF Entries
<1> QED
  BY <1>5, <1>6, <1>7, <1>8

\* The answer that is handled leaves those of other URLs due (FetchFinished).
LEMMA HandleInv ==
    ASSUME Inv, NEW f \in BagToSet(fetches), HandleFetchFinished(f)
    PROVE  FetchInv'
<1>1. /\ f.got # Waiting /\ fetches' = fetches (-) SetToBag({f})
      /\ catalogs' = Answered(f.url, f.got)
  BY DEF HandleFetchFinished
<1>2. f.url \in Url /\ f.got \in Manifest \cup {Waiting, Offline, Failed}
  BY DEF Inv, FetchInv, Fetches
<1>3. /\ IsABag(fetches') /\ BagToSet(fetches') \subseteq BagToSet(fetches)
      /\ BagToSet(fetches) \ {f} \subseteq BagToSet(fetches')
  BY <1>1, BagShrinks DEF Inv, FetchInv
<1>4. /\ catalogs' \in Entries /\ catalogs'[f.url].status # "Fetching"
      /\ \A v \in Url \ {f.url} : catalogs'[v] = catalogs[v]
  BY <1>1, <1>2, AnsweredEffect DEF Inv
<1>5. Due(catalogs', fetches')
  BY <1>3, <1>4 DEF Inv, FetchInv, Due
<1> QED
  BY <1>3, <1>4, <1>5 DEF Inv, FetchInv

\* URLs that may be fetched.
LEMMA Addressed == RestTyped => Referenced \subseteq Url /\ Visible \subseteq Url
BY DEF RestTyped, Referenced, Visible, Handle

\* Once started the launcher fetches everything, and so it does after a restart.
LEMMA FetchedAnew ==
    ASSUME NEW entries \in Entries, NEW us \in SUBSET Url,
           \A u \in Url : entries[u].status # "Fetching",
           catalogs' = Fetch(entries, us), fetches' = Started(us)
    PROVE  FetchInv'
<1>1. \A u \in Url : catalogs'[u].status = "Fetching" => u \in us
  BY FetchEffect
<1> QED
  BY <1>1, FetchEffect, StartedBag DEF FetchInv, Due

LEMMA Initially == Init => Inv
<1> SUFFICES ASSUME Init PROVE Inv
  OBVIOUS
<1> DEFINE none == [u \in Url |-> Gone]
<1>1. none \in Entries
  BY DEF Entries
<1>2. DefaultUrls \in SUBSET Url
  BY CatalogAssumption
<1>3. catalogs = Fetch(none, DefaultUrls)
  BY DEF Init, Fetch
<1>4. \A u \in Url : none[u].status # "Fetching"
  BY EntryChanges
<1> HIDE DEF none
<1>5. fetches = Started(DefaultUrls)
  BY DEF Init
<1>6. \A u \in Url : catalogs[u].status = "Fetching" => u \in DefaultUrls
  BY <1>1, <1>2, <1>3, <1>4, FetchEffect
<1>7. FetchInv
  BY <1>1, <1>2, <1>3, <1>5, <1>6, FetchEffect, StartedBag DEF FetchInv, Due
<1>8. RestTyped
  BY CatalogAssumption DEF Init, RestTyped
<1> QED
  BY <1>7, <1>8 DEF Inv

\* The version an installation brings is one there is.
LEMMA PlansTyped == Inv => \A h \in Handle : ListedVersion(h) \in 0 .. MaxVersion
                                            /\ InstallPlan(h) \in 0 .. MaxVersion
<1> SUFFICES ASSUME Inv, NEW h \in Handle
             PROVE  ListedVersion(h) \in 0 .. MaxVersion /\ InstallPlan(h) \in 0 .. MaxVersion
  OBVIOUS
<1>1. h[1] \in Url /\ h[2] \in Id /\ 0 \in 0 .. MaxVersion
  BY CatalogAssumption DEF Handle
<1>2. catalogs[h[1]] \in Entry \/ catalogs[h[1]] = Gone
  BY <1>1 DEF Inv, FetchInv, Entries
<1>3. Known(h[1]) => catalogs[h[1]].manifest \in Manifest
  BY <1>2, EntryChanges DEF Known, Entry
<1>4. ListedVersion(h) \in 0 .. MaxVersion
  BY <1>1, <1>3 DEF ListedVersion, Manifest
<1> QED
  BY <1>1, <1>4 DEF InstallPlan

\* Each step keeps the entries and the fetches together.
LEMMA FetchNext == Inv /\ [Next]_vars => FetchInv'
<1> SUFFICES ASSUME Inv, [Next]_vars PROVE FetchInv'
  OBVIOUS
<1>1. CASE UNCHANGED <<catalogs, fetches>>
  BY <1>1 DEF Inv, FetchInv, Due
<1>2. ASSUME NEW u \in Url, AddBackendUrl(u) PROVE FetchInv'
  <2> DEFINE fresh == [catalogs EXCEPT ![u] = NewNotFetched]
  <2>1. fresh \in Entries /\ Due(fresh, fetches)
    <3>1. fresh \in Entries /\ fresh[u] = NewNotFetched
          /\ \A v \in Url \ {u} : fresh[v] = catalogs[v]
      BY EntryTypes DEF Inv, FetchInv, Entries
    <3> HIDE DEF fresh
    <3> QED
      BY <3>1, EntryChanges DEF Inv, FetchInv, Due
  <2>2. StartFetches(fresh, {u}) \/ (catalogs' = fresh /\ fetches' = fetches)
    BY <1>2 DEF AddBackendUrl
  <2> HIDE DEF fresh
  <2>3. CASE StartFetches(fresh, {u})
    BY <2>1, <2>3, StartInv DEF Inv
  <2>4. CASE catalogs' = fresh /\ fetches' = fetches
    BY <2>1, <2>4 DEF Inv, FetchInv
  <2> QED
    BY <2>2, <2>3, <2>4
<1>3. ASSUME NEW u \in Url, RemoveBackendUrl(u) PROVE FetchInv'
  <2>1. fetches' = fetches /\ (catalogs' = catalogs \/ catalogs' = [catalogs EXCEPT ![u] = Gone])
    BY <1>3 DEF RemoveBackendUrl
  <2>2. catalogs' \in Entries /\ \A v \in Url : catalogs'[v] = catalogs[v] \/ catalogs'[v] = Gone
    BY <2>1 DEF Inv, FetchInv, Entries
  <2> QED
    BY <2>1, <2>2, EntryChanges DEF Inv, FetchInv, Due
<1>4. CASE RefreshAll
  <2>1. StartFetches(catalogs, Visible)
    BY <1>4 DEF RefreshAll
  <2> QED
    BY <2>1, Addressed, StartInv DEF Inv, FetchInv
<1>5. CASE Restart
  <2> DEFINE loaded == [u \in Url |-> IF u \in configured' THEN Loaded(u) ELSE Gone]
  <2>1. /\ configured' \subseteq Url
        /\ catalogs' = Fetch(loaded, configured' \cup Referenced)
        /\ fetches' = Started(configured' \cup Referenced)
    BY <1>5, CatalogAssumption DEF Restart, Inv, RestTyped
  <2>2. \A u \in Url : Loaded(u) \in Entry /\ Loaded(u).status = "NotFetched"
    BY DEF Inv, RestTyped, Loaded, Entry, Status
  <2>3. loaded \in Entries /\ \A u \in Url : loaded[u].status # "Fetching"
    BY <2>2, EntryChanges DEF Entries
  <2> HIDE DEF loaded
  <2> QED
    BY <2>1, <2>3, Addressed, FetchedAnew DEF Inv
<1>6. ASSUME NEW h \in Handle,
             StartInstall(h) \/ FinishInstall(h) \/ EnsureForSettings(h) \/ DeleteInstance(h)
      PROVE  FetchInv'
  BY <1>1, <1>6 DEF StartInstall, FinishInstall, EnsureForSettings, DeleteInstance, io
<1>7. ASSUME NEW u \in Url, NEW m \in Manifest, Publish(u, m) PROVE FetchInv'
  BY <1>1, <1>7 DEF Publish, io
<1>8. ASSUME NEW s \in saves, SaveCachedManifest(s) PROVE FetchInv'
  BY <1>1, <1>8 DEF SaveCachedManifest
<1> QED
  BY <1>1, <1>2, <1>3, <1>4, <1>5, <1>6, <1>7, <1>8, AnswerInv, HandleInv DEF Next, vars, io

\* A mishap is counted, or nothing happens outside.
LEMMA CountTyped == RestTyped /\ (Count \/ UNCHANGED net) => mishaps' \in Nat
BY DEF RestTyped, Count, net

\* Each step keeps the rest of the state typed.
LEMMA RestNext == Inv /\ [Next]_vars => RestTyped'
<1> SUFFICES ASSUME Inv, [Next]_vars PROVE RestTyped'
  OBVIOUS
<1>1. CASE UNCHANGED <<net, urls, saves, cache, inst>>
  BY <1>1 DEF Inv, RestTyped, net, urls, inst
<1>2. ASSUME NEW u \in Url, AddBackendUrl(u) \/ RemoveBackendUrl(u) PROVE RestTyped'
  <2>1. /\ configured' \subseteq Url /\ (saved' = configured' \/ saved' = saved)
        /\ published' = published /\ UNCHANGED <<saves, inst>>
        /\ cache' = cache \/ cache' = [cache EXCEPT ![u] = Unknown]
    BY <1>2 DEF AddBackendUrl, RemoveBackendUrl, Mishap, net, Inv, RestTyped
  <2>2. mishaps' \in Nat
    BY <1>2, CountTyped DEF AddBackendUrl, RemoveBackendUrl, Mishap, Inv
  <2> QED
    BY <2>1, <2>2 DEF Inv, RestTyped, inst
<1>3. ASSUME NEW u \in Url, NEW m \in Manifest, Publish(u, m) PROVE RestTyped'
  <2>1. published' = [published EXCEPT ![u] = m] /\ UNCHANGED <<urls, io, inst>>
    BY <1>3 DEF Publish
  <2>2. mishaps' \in Nat
    BY <1>3, CountTyped DEF Publish, Inv
  <2> QED
    BY <2>1, <2>2 DEF Inv, RestTyped, urls, io, inst
<1>4. ASSUME NEW f \in BagToSet(fetches), Answer(f) PROVE RestTyped'
  <2>1. mishaps' \in Nat /\ published' = published
    BY <1>4, CountTyped DEF Answer, Mishap, net, Inv
  <2> QED
    BY <1>4, <2>1 DEF Answer, Inv, RestTyped, urls, inst
<1>5. ASSUME NEW f \in BagToSet(fetches), HandleFetchFinished(f) PROVE RestTyped'
  <2>1. /\ saves' = saves \/ (f.got \in Manifest /\ saves' = saves \cup {[url |-> f.url, manifest |-> f.got]})
        /\ UNCHANGED <<net, urls, cache, inst>> /\ f.url \in Url
    BY <1>5 DEF HandleFetchFinished, NoAnswer, Inv, FetchInv, Fetches
  <2> QED
    BY <2>1 DEF Inv, RestTyped, net, urls, inst
<1>6. ASSUME NEW s \in saves, SaveCachedManifest(s) PROVE RestTyped'
  <2>1. s.url \in Url /\ s.manifest \in Manifest
    BY DEF Inv, RestTyped
  <2>2. /\ saves' \subseteq saves /\ published' = published /\ UNCHANGED <<urls, inst>>
        /\ cache' = cache \/ cache' = [cache EXCEPT ![s.url] = s.manifest]
    BY <1>6 DEF SaveCachedManifest, Mishap, net
  <2>3. mishaps' \in Nat
    BY <1>6, CountTyped DEF SaveCachedManifest, Mishap, Inv
  <2> QED
    BY <2>1, <2>2, <2>3 DEF Inv, RestTyped, urls, inst
<1>7. CASE Restart
  <2>1. /\ configured' \subseteq Url /\ saved' = configured' /\ published' = published
        /\ saves' = {} /\ installing' = [h \in Handle |-> 0] /\ UNCHANGED <<cache, stored, synced>>
    BY <1>7, CatalogAssumption DEF Restart, Mishap, Inv, RestTyped
  <2>2. mishaps' \in Nat
    BY <1>7, CountTyped DEF Restart, Mishap, Inv
  <2> QED
    BY <2>1, <2>2, CatalogAssumption DEF Inv, RestTyped
<1>8. ASSUME NEW h \in Handle,
             StartInstall(h) \/ FinishInstall(h) \/ EnsureForSettings(h) \/ DeleteInstance(h)
      PROVE  RestTyped'
  <2>1. UNCHANGED <<net, urls, io>>
    BY <1>8 DEF StartInstall, FinishInstall, EnsureForSettings, DeleteInstance
  <2>2. \/ stored' = stored
        \/ \E to \in {"absent", "pending", "installed"} : stored' = [stored EXCEPT ![h] = to]
    BY <1>8 DEF StartInstall, FinishInstall, EnsureForSettings, DeleteInstance
  <2>3. /\ synced' = synced \/ \E v \in 0 .. MaxVersion : synced' = [synced EXCEPT ![h] = v]
        /\ installing' = installing \/ \E v \in 0 .. MaxVersion : installing' = [installing EXCEPT ![h] = v]
    <3>1. installing[h] \in 0 .. MaxVersion /\ InstallPlan(h) \in 0 .. MaxVersion /\ 0 \in 0 .. MaxVersion
      BY PlansTyped, CatalogAssumption DEF Inv, RestTyped
    <3> QED
      BY <1>8, <3>1 DEF StartInstall, FinishInstall, EnsureForSettings, DeleteInstance
  <2> QED
    BY <2>1, <2>2, <2>3 DEF Inv, RestTyped, net, urls, io
<1> QED
  BY <1>1, <1>2, <1>3, <1>4, <1>5, <1>6, <1>7, <1>8 DEF Next, vars, RefreshAll, io

-----------------------------------------------------------------------------
(***************************************************************************)
(* The theorems.                                                           *)
(***************************************************************************)
LEMMA Always == Spec => []Inv
<1>1. Inv /\ [Next]_vars => Inv'
  BY FetchNext, RestNext DEF Inv
<1> QED
  BY <1>1, Initially, PTL DEF Spec

\* No order of answers, edits, failures and restarts leaves a backend shown as being
\* fetched while no answer is due, for any number of backends, fetches under way,
\* instances and versions.
THEOREM FetchingEnds == Spec => []FetchingIsUnderWay
<1>1. Inv => TypeOK
  <2> SUFFICES ASSUME Inv PROVE TypeOK
    OBVIOUS
  <2>1. \A f \in BagToSet(fetches) :
           f.url \in Url /\ (f.got \in {Waiting, Offline, Failed} \/ f.got \in Manifest)
    BY DEF Inv, FetchInv, Fetches
  <2> QED
    BY <2>1 DEF TypeOK, Inv, FetchInv, RestTyped, Entries
<1>2. Inv => FetchingIsUnderWay
  BY <1>1 DEF Inv, FetchInv, Due, FetchingIsUnderWay
<1> QED
  BY <1>2, Always, PTL

\* A known manifest is lost only with its URL or by a restart, whatever is answered
\* and in which order, for any number of backends and fetches under way.
THEOREM ManifestsAreKept == Spec => ManifestKept
<1> DEFINE Step == \A u \in Url :
          Known(u) /\ catalogs'[u].manifest = Unknown =>
              \/ (u \in configured) # (u \in configured')
              \/ mishaps' # mishaps /\ fetches' = Started(configured' \cup Referenced)
<1>1. Inv /\ [Next]_vars => Step
  <2> SUFFICES ASSUME Inv, [Next]_vars PROVE Step
    OBVIOUS
  <2>1. CASE UNCHANGED catalogs
    BY <2>1 DEF Known
  <2>2. ASSUME NEW w \in Url, AddBackendUrl(w) PROVE Step
    <3> DEFINE fresh == [catalogs EXCEPT ![w] = NewNotFetched]
    <3>1. /\ w \notin configured /\ w \in configured'
          /\ StartFetches(fresh, {w}) \/ catalogs' = fresh
      BY <2>2 DEF AddBackendUrl
    <3>2. fresh \in Entries /\ \A u \in Url \ {w} : fresh[u] = catalogs[u]
      BY EntryTypes DEF Inv, FetchInv, Entries
    <3> HIDE DEF fresh
    <3>3. StartFetches(fresh, {w}) => \A u \in Url : catalogs'[u].manifest = fresh[u].manifest
      BY <3>2, FetchEffect DEF StartFetches
    <3>4. \A u \in Url \ {w} : catalogs'[u].manifest = catalogs[u].manifest
      BY <3>1, <3>2, <3>3
    <3> QED
      BY <3>1, <3>4 DEF Known
  <2>3. ASSUME NEW w \in Url, RemoveBackendUrl(w) PROVE Step
    <3>1. /\ w \in configured /\ w \notin configured'
          /\ catalogs' = catalogs \/ catalogs' = [catalogs EXCEPT ![w] = Gone]
      BY <2>3 DEF RemoveBackendUrl
    <3>2. \A u \in Url \ {w} : catalogs'[u] = catalogs[u]
      BY <3>1 DEF Inv, FetchInv, Entries
    <3> QED
      BY <3>1, <3>2 DEF Known
  <2>4. CASE RefreshAll
    <3>1. catalogs' = Fetch(catalogs, Visible)
      BY <2>4 DEF RefreshAll, StartFetches
    <3> QED
      BY <3>1, Addressed, FetchEffect DEF Inv, FetchInv, Known
  <2>5. CASE Restart
    BY <2>5 DEF Restart, Mishap, Count, Inv, RestTyped
  <2>6. ASSUME NEW f \in BagToSet(fetches), HandleFetchFinished(f) PROVE Step
    <3>1. f.got # Waiting /\ catalogs' = Answered(f.url, f.got)
      BY <2>6 DEF HandleFetchFinished
    <3>2. f.url \in Url /\ f.got \in Manifest \cup {Waiting, Offline, Failed}
      BY DEF Inv, FetchInv, Fetches
    <3> QED
      BY <3>1, <3>2, AnsweredEffect DEF Inv, Known
  <2>7. ASSUME NEW f \in BagToSet(fetches), Answer(f) PROVE Step
    BY <2>1, <2>7 DEF Answer
  <2>8. ASSUME NEW u \in Url, NEW m \in Manifest, Publish(u, m) PROVE Step
    BY <2>1, <2>8 DEF Publish
  <2>9. ASSUME NEW s \in saves, SaveCachedManifest(s) PROVE Step
    BY <2>1, <2>9 DEF SaveCachedManifest
  <2>10. ASSUME NEW h \in Handle,
                StartInstall(h) \/ FinishInstall(h) \/ EnsureForSettings(h) \/ DeleteInstance(h)
         PROVE  Step
    BY <2>1, <2>10 DEF StartInstall, FinishInstall, EnsureForSettings, DeleteInstance
  <2> QED
    BY <2>1, <2>2, <2>3, <2>4, <2>5, <2>6, <2>7, <2>8, <2>9, <2>10 DEF Next, vars
<1>2. ManifestKept <=> [][Step]_vars
  BY DEF ManifestKept
<1> HIDE DEF Step
<1> QED
  BY <1>1, <1>2, Always, PTL DEF Spec

\* What a view of an instance at rest says, by what is stored and published.
LEMMA Statuses ==
    ASSUME Inv, NEW h \in Handle, HasView(ViewOf(h)), "InstallInstance" \in Buttons(View(ViewOf(h)))
    PROVE  \/ Listed(ViewOf(h))
           \/ stored[h] = "pending"
<1> DEFINE x == ViewOf(h)
           v == View(x)
<1>1. /\ x.stored = stored[h] /\ x.origin = "Backend" /\ x.creating = FALSE
      /\ x.kind = IF installing[h] # 0 THEN "Install" ELSE "Idle"
      /\ x.installErr = FALSE /\ x.launchErr = FALSE /\ x.launchAfter = "none" /\ x.blocked = FALSE
      /\ x.published = WhatIsPublished(h)
  BY DEF ViewOf
<1>2. stored[h] \in {"absent", "pending", "installed"}
  BY DEF Inv, RestTyped
<1>3. x.stored = "absent" => Listed(x)
  BY <1>1 DEF HasView
<1>4. v.status = (IF x.stored # "absent" THEN StoredStatus(x) ELSE PublishedStatus(x))
      /\ v.origin = "Backend" /\ v.blocked = FALSE /\ v.launchAfter = "none"
  BY <1>1 DEF View, ViewLaunchAfter
<1>5. "InstallInstance" \in Buttons(v)
  OBVIOUS
<1> HIDE DEF x, v
<1>6. v.status \in {"Installing", "NotInstalled", "Outdated", "Installed", "OrphanedFromBackend"}
  <2>1. BaseLocalStatus(x) \in {"Installing", "Installed"}
    BY <1>1 DEF BaseLocalStatus, ActivityStatus
  <2>2. StoredStatus(x) \in {"Installing", "NotInstalled", "Outdated", "Installed", "OrphanedFromBackend"}
    BY <2>1 DEF StoredStatus
  <2>3. PublishedStatus(x) \in {"Installing", "NotInstalled"}
    BY <1>1 DEF PublishedStatus, UnstoredStatus, ActivityStatus
  <2> QED
    BY <1>4, <2>2, <2>3
<1>7. ASSUME v.status \in {"Installing", "Installed", "OrphanedFromBackend"} PROVE FALSE
  <2>1. ActionButton(v) \in {{"CancelInstall"}, {"Launch"}}
    BY <1>4, <1>7 DEF ActionButton, UnlessBlocked
  <2>2. OptionsSlot(v) = {}
    BY <1>4 DEF OptionsSlot
  <2>3. "InstallInstance" \notin DetailButtons(v)
    BY <1>7 DEF DetailButtons
  <2> QED
    BY <1>5, <2>1, <2>2, <2>3 DEF Buttons
<1>8. ASSUME stored[h] = "installed" PROVE Listed(x)
  <2>1. v.status = StoredStatus(x)
    BY <1>1, <1>4, <1>8
  <2>2. BaseLocalStatus(x) \in {"Installing", "Installed"}
    BY <1>1 DEF BaseLocalStatus, ActivityStatus
  <2>3. ~Listed(x) => StoredStatus(x) \in {"Installing", "OrphanedFromBackend", "Installed"}
    BY <1>1, <1>8, <2>2 DEF StoredStatus, Listed
  <2> QED
    BY <1>6, <1>7, <2>1, <2>3
<1> QED
  BY <1>1, <1>2, <1>3, <1>8 DEF x

\* What the interface offers to install or to update can be resolved, for any number
\* of backends and instances, whatever happened to the catalogs.
THEOREM OffersCanBeInstalled == Spec => []OffersResolve
<1>1. ASSUME Inv PROVE OffersResolve
  <2> SUFFICES ASSUME NEW h \in Handle, HasView(ViewOf(h)),
                      "InstallInstance" \in Buttons(View(ViewOf(h)))
               PROVE  InstallPlan(h) # 0 \/ (stored[h] = "pending" /\ ~Listed(ViewOf(h)))
    BY DEF OffersResolve
  <2>1. Listed(ViewOf(h)) \/ stored[h] = "pending"
    BY <1>1, Statuses
  <2>2. Listed(ViewOf(h)) => Known(h[1]) /\ ListedVersion(h) # 0
    <3>1. Listed(ViewOf(h)) => WhatIsPublished(h) \in {"Synced", "Changed"}
      BY DEF ViewOf, Listed
    <3>2. ~Known(h[1]) => ListedVersion(h) = 0
      BY DEF ListedVersion
    <3>3. CASE ~Known(h[1])
      BY <3>1, <3>2, <3>3 DEF WhatIsPublished
    <3>4. CASE Known(h[1]) /\ ListedVersion(h) = 0
      BY <3>1, <3>4 DEF WhatIsPublished
    <3> QED
      BY <3>3, <3>4
  <2>3. Listed(ViewOf(h)) => InstallPlan(h) # 0
    BY <2>2 DEF InstallPlan
  <2> QED
    BY <2>1, <2>3
<1> QED
  BY <1>1, Always, PTL
=============================================================================
