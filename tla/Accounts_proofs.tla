-------------------------- MODULE Accounts_proofs --------------------------
(***************************************************************************)
(* Proofs about the accounts, for any users, configurations, instances and *)
(* bounds.                                                                 *)
(***************************************************************************)
EXTENDS Accounts, FiniteSetTheorems, SequenceTheorems, WellFoundedInduction, TLAPS

-----------------------------------------------------------------------------
(***************************************************************************)
(* Sequences.                                                              *)
(***************************************************************************)

\* Taking out one element moves those behind it.
LEMMA RemovedAt ==
    ASSUME NEW S, NEW s \in Seq(S), NEW i \in 1 .. Len(s)
    PROVE  /\ RemoveAt(s, i) \in Seq(S)
           /\ Len(RemoveAt(s, i)) = Len(s) - 1
           /\ \A n \in 1 .. Len(s) - 1 : RemoveAt(s, i)[n] = s[IF n < i THEN n ELSE n + 1]
<1> DEFINE front == SubSeq(s, 1, i - 1)
           back  == SubSeq(s, i + 1, Len(s))
<1>1. Len(s) \in Nat /\ i \in Nat
  BY LenProperties
<1>2. front \in Seq(S) /\ Len(front) = i - 1 /\ \A n \in 1 .. i - 1 : front[n] = s[n]
  BY <1>1, SubSeqProperties
<1>3. back \in Seq(S) /\ Len(back) = Len(s) - i /\ \A n \in 1 .. Len(s) - i : back[n] = s[i + n]
  BY <1>1, SubSeqProperties
<1>4. RemoveAt(s, i) = front \o back
  BY DEF RemoveAt
<1> HIDE DEF front, back
<1>5. /\ front \o back \in Seq(S) /\ Len(front \o back) = (i - 1) + (Len(s) - i)
      /\ \A n \in 1 .. Len(front) + Len(back) :
            (front \o back)[n] = IF n <= Len(front) THEN front[n] ELSE back[n - Len(front)]
  <2>1. front \in Seq(S) /\ back \in Seq(S)
    BY <1>2, <1>3
  <2>2. Len(front) = i - 1 /\ Len(back) = Len(s) - i
    BY <1>2, <1>3
  <2>3. ASSUME NEW f \in Seq(S), NEW b \in Seq(S)
        PROVE  /\ f \o b \in Seq(S) /\ Len(f \o b) = Len(f) + Len(b)
               /\ \A n \in 1 .. Len(f) + Len(b) :
                     (f \o b)[n] = IF n <= Len(f) THEN f[n] ELSE b[n - Len(f)]
    OBVIOUS
  <2>4. /\ front \o back \in Seq(S) /\ Len(front \o back) = Len(front) + Len(back)
        /\ \A n \in 1 .. Len(front) + Len(back) :
              (front \o back)[n] = IF n <= Len(front) THEN front[n] ELSE back[n - Len(front)]
    BY ONLY <2>1, <2>3
  <2> QED
    BY <2>2, <2>4
<1>6. Len(front \o back) = Len(s) - 1
  BY <1>1, <1>5
<1>7. ASSUME NEW n \in 1 .. Len(s) - 1
      PROVE  (front \o back)[n] = s[IF n < i THEN n ELSE n + 1]
  <2>1. CASE n < i
    BY <2>1, <1>1, <1>2, <1>3, <1>5
  <2>2. CASE ~(n < i)
    <3>1. n - (i - 1) \in 1 .. Len(s) - i /\ i + (n - (i - 1)) = n + 1
      BY <2>2, <1>1
    <3>2. (front \o back)[n] = back[n - (i - 1)]
      BY <2>2, <1>1, <1>2, <1>3, <1>5
    <3> QED
      BY <3>1, <3>2, <2>2, <1>3
  <2> QED
    BY <2>1, <2>2
<1> QED
  BY <1>4, <1>5, <1>6, <1>7

\* The least of some numbers is one of them.
LEMMA LeastIsIn ==
    \A I \in SUBSET Nat : (I = {} => Least(I) = 0) /\ (I # {} => Least(I) \in I)
<1> SUFFICES ASSUME NEW I \in SUBSET Nat, I # {} PROVE Least(I) \in I
  BY DEF Least
<1> DEFINE R == OpToRel(<, Nat)
<1>1. \E i \in I : \A j \in I : ~(<<j, i>> \in R)
  BY NatLessThanWellFounded, WFMin, Zenon
<1>2. \A i, j \in Nat : <<j, i>> \in R <=> j < i
  BY Zenon DEF OpToRel
<1>3. \E i \in I : \A j \in I : i <= j
  <2>1. PICK i \in I : \A j \in I : ~(<<j, i>> \in R)
    BY <1>1
  <2>2. \A j \in I : ~(j < i)
    BY <2>1, <1>2
  <2> QED
    BY <2>2
<1> QED
  BY <1>3 DEF Least

-----------------------------------------------------------------------------
(***************************************************************************)
(* The invariant.                                                          *)
(***************************************************************************)
OwnData == {a \in AccountData : Own(a)}
Entry   == [key : Nat \X Name, access : Name, refresh : Token]

\* A record of accounts in which everything is in order; the ids are drawn up to `top`.
Safe(file, top) ==
    /\ file.accounts \in Seq(Entry)
    /\ file.providers \in [DOMAIN file.providers -> Config]
    /\ DOMAIN file.providers \subseteq 1 .. top
    /\ \A n \in DOMAIN file.accounts : Own(Data(file.accounts[n]))
    /\ Sound(file)

StoredInv ==
    /\ spent \in [ids : Nat, flows : Nat, edits : Nat, mishaps : Nat]
    /\ Safe(Memory, spent.ids)
    /\ disk = Gone \/ Safe(disk, spent.ids)

\* Tokens that were issued to one user, or none.
Matched == {t \in Tokens : t.refresh \in {t.access, NoToken}}
Typed == [pc : {"Auth", "Waiting", "Refresh", "UserInfo", "Success"},
          held : Matched, next : Matched, user : Token, round : 0 .. Rounds]
\* A user is asked for by a token somebody has, and the answer is that somebody.
Good  == {f \in Typed : /\ f.pc = "UserInfo" => f.next.access \in Name
                        /\ f.pc = "Success" => f.user \in Name /\ f.user = f.held.access}
Going == {f \in Good : ~LoopEnds(f)}

FlowInv ==
    /\ flow \in [Owner -> Good \cup {NoFlow}]
    /\ provider \in [Owner -> Config \cup {NoProvider}]
    /\ \A c \in Owner : Active(c) => provider[c] \in Config

Results == [type : {"AddAccountFinished", "AccountUpdated"}, provider : Config, account : OwnData]
Others  == [type : {"AddAccountFailed", "AddAccountCancelled"}]
              \cup [type : {"AuthLaunchPrompt"}, instance : Instance \cup {NoOne}]

EventInv == events \in Seq(Results \cup Others)

Inv == StoredInv /\ FlowInv /\ EventInv

-----------------------------------------------------------------------------
(***************************************************************************)
(* Flows.                                                                  *)
(***************************************************************************)
\* A flow begins with the tokens of one user and every answer keeps it so.
LEMMA FlowSteps ==
    /\ \A t \in Matched : Begun(t) \in Good
    /\ \A f \in Going, kind \in ProviderKind :
          /\ f.pc = "Auth" => Asked(f) \subseteq Good
          /\ f.pc = "Waiting" => Answered(kind, f) \subseteq Good
          /\ f.pc = "Refresh" => Refreshed(kind, f) \subseteq Good
          /\ f.pc = "UserInfo" => LookedUp(f) \subseteq Good
<1>1. ASSUME NEW t \in Matched PROVE Begun(t) \in Good
  <2>1. t # NoTokens => t.access \in Name
    BY DEF Matched, Tokens, NoTokens, Token
  <2>2. /\ Begun(t).pc \in {"Auth", "UserInfo"} /\ Begun(t).held = t /\ Begun(t).next = t
        /\ Begun(t).user = NoToken /\ Begun(t).round = 0
        /\ Begun(t).pc = "UserInfo" => t # NoTokens
    BY DEF Begun
  <2>3. Begun(t) \in Typed
    BY FlowAssumption DEF Begun, Typed, Token
  <2> QED
    BY <2>1, <2>2, <2>3 DEF Good
<1> SUFFICES ASSUME NEW f \in Going, NEW kind
             PROVE  /\ f.pc = "Auth" => Asked(f) \subseteq Good
                    /\ f.pc = "Waiting" => Answered(kind, f) \subseteq Good
                    /\ f.pc = "Refresh" => Refreshed(kind, f) \subseteq Good
                    /\ f.pc = "UserInfo" => LookedUp(f) \subseteq Good
  BY <1>1
<1>2. f \in Typed /\ f.next \in Matched /\ f.held \in Matched /\ f.round \in 0 .. Rounds
  BY DEF Going, Good, Typed
<1>3. ASSUME f.pc # "Waiting" PROVE f.round + 1 \in 0 .. Rounds
  BY <1>2, <1>3, FlowAssumption DEF Going, LoopEnds
<1>4. ASSUME NEW pc \in {"Auth", "Waiting"}, f.pc # "Waiting"
      PROVE  To(f, pc) \in Typed /\ To(f, pc).pc = pc
  BY <1>2, <1>3, <1>4 DEF To, Typed
<1>5. ASSUME NEW g \in Typed, NEW t \in Matched, t.access \in Name PROVE ToUserInfo(g, t) \in Good
  <2>1. /\ ToUserInfo(g, t) \in Typed /\ ToUserInfo(g, t).pc = "UserInfo"
        /\ ToUserInfo(g, t).next = t
    BY DEF ToUserInfo, Typed
  <2> QED
    BY <1>5, <2>1 DEF Good
<1>6. \A pc \in {"Auth", "Waiting"} : f.pc # "Waiting" => To(f, pc) \in Good
  BY <1>4 DEF Good
<1>7. ASSUME f.pc = "Auth" PROVE Asked(f) \subseteq Good
  BY <1>6, <1>7 DEF Asked
<1>8. Answered(kind, f) \subseteq Good
  <2>1. \A n \in Name : LogIn(kind, n) \in Matched /\ LogIn(kind, n).access = n
    BY DEF LogIn, Matched, Tokens, Token
  <2> QED
    BY <2>1, <1>2, <1>5 DEF Answered
<1>9. ASSUME f.pc = "Refresh" PROVE Refreshed(kind, f) \subseteq Good
  <2>1. ASSUME f.held.refresh # NoToken
        PROVE  \A r \in {f.held.refresh, NoToken} :
                  /\ [access |-> f.held.refresh, refresh |-> r] \in Matched
                  /\ f.held.refresh \in Name
    BY <1>2, <2>1 DEF Matched, Tokens, Token
  <2>2. ASSUME f.held.refresh # NoToken
        PROVE  \A r \in {f.held.refresh, NoToken} :
                  ToUserInfo(To(f, "Auth"), [access |-> f.held.refresh, refresh |-> r]) \in Good
    BY <1>4, <1>5, <1>9, <2>1, <2>2
  <2> QED
    BY <1>6, <1>9, <2>2 DEF Refreshed
<1>10. ASSUME f.pc = "UserInfo" PROVE LookedUp(f) \subseteq Good
  <2> DEFINE held == [f EXCEPT !.held = f.next, !.round = @ + 1]
             over == [held EXCEPT !.pc = "Success", !.user = f.next.access]
             more == [held EXCEPT !.pc = "Refresh"]
  <2>0. f.round + 1 \in 0 .. Rounds
    BY <1>3, <1>10
  <2>1. held \in Typed /\ held.held = f.next
    BY <1>2, <2>0 DEF Typed
  <2>2. f.next.access \in Name
    BY <1>10 DEF Going, Good
  <2> HIDE DEF held
  <2>3. over \in Typed /\ over.user = f.next.access /\ over.held = f.next /\ over.pc = "Success"
    BY <2>1, <2>2 DEF Typed, Token
  <2>4. more \in Typed /\ more.pc = "Refresh"
    BY <2>1 DEF Typed
  <2> HIDE DEF over, more
  <2>5. over \in Good /\ more \in Good
    BY <2>2, <2>3, <2>4 DEF Good
  <2> QED
    BY <2>5 DEF LookedUp, held, over, more
<1> QED
  BY <1>7, <1>8, <1>9, <1>10

\* What a flow ends with are the user's own tokens.
LEMMA ResultsAreOwn == \A f \in Good : f.pc = "Success" => Account(f) \in OwnData
BY DEF Good, Typed, Account, OwnData, AccountData, Own, Matched, Tokens

\* The launch without accounts is an offline one.
LEMMA OfflineIsThere == Offline \in Config /\ KindOf[Offline] = "offline"
BY AccountsAssumption DEF Offline

-----------------------------------------------------------------------------
(***************************************************************************)
(* The storage.                                                            *)
(***************************************************************************)
\* The ids drawn only grow.
LEMMA SafeStays ==
    ASSUME NEW file, NEW t \in Nat, NEW u \in Nat, t <= u, Safe(file, t)
    PROVE  Safe(file, u)
BY DEF Safe

\* insert_account keeps the record in order.
LEMMA InsertSafe ==
    ASSUME StoredInv, NEW p \in Config, NEW a \in OwnData
    PROVE  LET id  == IdOf(p)
               top == IF id > spent.ids THEN spent.ids + 1 ELSE spent.ids
           IN  /\ Safe([providers |-> [i \in DOMAIN providers \cup {id} |->
                                          IF i = id THEN p ELSE providers[i]],
                        accounts |-> Inserted(p, a)], top)
               /\ top \in Nat /\ spent.ids <= top
<1> DEFINE id  == IdOf(p)
           top == IF id > spent.ids THEN spent.ids + 1 ELSE spent.ids
           new == [i \in DOMAIN providers \cup {id} |-> IF i = id THEN p ELSE providers[i]]
           entry == [key |-> <<id, a.user>>, access |-> a.access, refresh |-> a.refresh]
           list == Inserted(p, a)
           at == {n \in DOMAIN accounts : accounts[n].key = entry.key}
<1>1. /\ spent.ids \in Nat /\ accounts \in Seq(Entry)
      /\ providers \in [DOMAIN providers -> Config] /\ DOMAIN providers \subseteq 1 .. spent.ids
      /\ \A n \in DOMAIN accounts : Own(Data(accounts[n]))
      /\ \A m, n \in DOMAIN accounts : accounts[m].key = accounts[n].key => m = n
      /\ \A i, j \in DOMAIN providers : providers[i] = providers[j] => i = j
      /\ DOMAIN providers = UsedBy(accounts)
  BY DEF StoredInv, Safe, Memory, Sound, IsInjective
<1>2. \/ id \in DOMAIN providers /\ providers[id] = p
      \/ id = spent.ids + 1 /\ \A i \in DOMAIN providers : providers[i] # p
  BY DEF IdOf
<1>3. id \in Nat /\ id \in 1 .. top /\ top \in Nat /\ spent.ids <= top
  BY <1>1, <1>2
<1>4. new \in [DOMAIN new -> Config] /\ DOMAIN new \subseteq 1 .. top
  BY <1>1, <1>3
<1>5. entry \in Entry /\ Own(Data(entry))
  BY <1>3 DEF OwnData, AccountData, Entry, Own, Data
<1> HIDE DEF id, top
<1>6. \A i, j \in DOMAIN new : new[i] = new[j] => i = j
  BY <1>1, <1>2
<1>7. list = IF at = {} THEN Append(accounts, entry)
             ELSE [n \in DOMAIN accounts |-> IF n \in at THEN entry ELSE accounts[n]]
  BY DEF Inserted, id
<1> HIDE DEF list, entry
<1>8. CASE at = {}
  <2>1. list = Append(accounts, entry) /\ list \in Seq(Entry)
    BY <1>1, <1>5, <1>7, <1>8
  <2>2. /\ DOMAIN list = DOMAIN accounts \cup {Len(accounts) + 1}
        /\ Len(accounts) + 1 \notin DOMAIN accounts
        /\ \A n \in DOMAIN accounts : list[n] = accounts[n]
        /\ list[Len(accounts) + 1] = entry
    BY <1>1, <1>5, <2>1
  <2>3. \A n \in DOMAIN list : Own(Data(list[n]))
    BY <1>1, <1>5, <2>2
  <2>4. \A m, n \in DOMAIN list : list[m].key = list[n].key => m = n
    BY <1>1, <1>8, <2>2
  <2>5. UsedBy(list) = UsedBy(accounts) \cup {id}
    BY <2>2 DEF UsedBy, entry
  <2> QED
    BY <1>1, <1>3, <1>4, <1>6, <2>1, <2>3, <2>4, <2>5 DEF Safe, Sound, IsInjective, id, top, list
<1>9. CASE at # {}
  <2>1. list = [n \in DOMAIN accounts |-> IF n \in at THEN entry ELSE accounts[n]]
    BY <1>7, <1>9
  <2>2. list \in Seq(Entry) /\ DOMAIN list = DOMAIN accounts
    BY <1>1, <1>5, <2>1
  <2>3. \A n \in DOMAIN list : Own(Data(list[n]))
    BY <1>1, <1>5, <2>1
  <2>4. \A n \in DOMAIN list : list[n].key = accounts[n].key
    BY <2>1
  <2>5. \A m, n \in DOMAIN list : list[m].key = list[n].key => m = n
    BY <1>1, <2>2, <2>4
  <2>6. UsedBy(list) = UsedBy(accounts) /\ id \in UsedBy(accounts)
    BY <1>9, <2>2, <2>4 DEF UsedBy, entry
  <2>7. DOMAIN new = UsedBy(list)
    BY <1>1, <2>6
  <2> QED
    BY <1>3, <1>4, <1>6, <2>2, <2>3, <2>5, <2>7 DEF Safe, Sound, IsInjective, id, top, list
<1> QED
  BY <1>8, <1>9

\* delete_account keeps the record in order.
LEMMA RemoveSafe ==
    ASSUME StoredInv, NEW k
    PROVE  Safe([providers |-> [i \in DOMAIN providers \cap UsedBy(Without(k)) |-> providers[i]],
                 accounts |-> Without(k)], spent.ids)
<1> DEFINE list == Without(k)
           new  == [i \in DOMAIN providers \cap UsedBy(list) |-> providers[i]]
           at   == Least({n \in DOMAIN accounts : accounts[n].key = k})
<1>1. /\ spent.ids \in Nat /\ accounts \in Seq(Entry)
      /\ providers \in [DOMAIN providers -> Config] /\ DOMAIN providers \subseteq 1 .. spent.ids
      /\ \A n \in DOMAIN accounts : Own(Data(accounts[n]))
      /\ \A m, n \in DOMAIN accounts : accounts[m].key = accounts[n].key => m = n
      /\ \A i, j \in DOMAIN providers : providers[i] = providers[j] => i = j
      /\ DOMAIN providers = UsedBy(accounts)
  BY DEF StoredInv, Safe, Memory, Sound, IsInjective
<1>2. /\ list \in Seq(Entry)
      /\ \E f \in [DOMAIN list -> DOMAIN accounts] :
            /\ \A n \in DOMAIN list : list[n] = accounts[f[n]]
            /\ \A m, n \in DOMAIN list : f[m] = f[n] => m = n
  <2>1. CASE at = 0
    <3>1. list = accounts
      BY <2>1 DEF Without
    <3> DEFINE same == [n \in DOMAIN accounts |-> n]
    <3>2. /\ same \in [DOMAIN accounts -> DOMAIN accounts]
          /\ \A n \in DOMAIN accounts : accounts[n] = accounts[same[n]]
          /\ \A m, n \in DOMAIN accounts : same[m] = same[n] => m = n
      OBVIOUS
    <3> HIDE DEF list, same
    <3> QED
      BY <1>1, <3>1, <3>2
  <2>2. CASE at # 0
    <3>1. {n \in DOMAIN accounts : accounts[n].key = k} \in SUBSET Nat
      BY <1>1
    <3>2. at \in 1 .. Len(accounts)
      BY <1>1, <2>2, <3>1, LeastIsIn
    <3>3. list = RemoveAt(accounts, at)
      BY <2>2 DEF Without
    <3> HIDE DEF list, at
    <3>4. /\ list \in Seq(Entry) /\ Len(list) = Len(accounts) - 1
          /\ \A n \in 1 .. Len(accounts) - 1 : list[n] = accounts[IF n < at THEN n ELSE n + 1]
      BY <1>1, <3>2, <3>3, RemovedAt
    <3>5. DOMAIN list = 1 .. Len(accounts) - 1 /\ Len(accounts) \in Nat
          /\ DOMAIN accounts = 1 .. Len(accounts)
      BY <1>1, <3>4
    <3> DEFINE f == [n \in DOMAIN list |-> IF n < at THEN n ELSE n + 1]
    <3>6. f \in [DOMAIN list -> DOMAIN accounts]
      BY <3>2, <3>5
    <3>7. \A n \in DOMAIN list : list[n] = accounts[f[n]]
      BY <3>4, <3>5
    <3>8. \A m, n \in DOMAIN list : f[m] = f[n] => m = n
      BY <3>2, <3>5
    <3> QED
      BY <3>4, <3>6, <3>7, <3>8
  <2> QED
    BY <2>1, <2>2
<1> HIDE DEF list
<1>3. PICK f \in [DOMAIN list -> DOMAIN accounts] :
            /\ \A n \in DOMAIN list : list[n] = accounts[f[n]]
            /\ \A m, n \in DOMAIN list : f[m] = f[n] => m = n
  BY <1>2
<1>4. \A n \in DOMAIN list : Own(Data(list[n]))
  BY <1>1, <1>3
<1>5. \A m, n \in DOMAIN list : list[m].key = list[n].key => m = n
  BY <1>1, <1>3
<1>6. UsedBy(list) \subseteq UsedBy(accounts)
  BY <1>3 DEF UsedBy
<1>7. /\ new \in [DOMAIN new -> Config] /\ DOMAIN new \subseteq 1 .. spent.ids
      /\ DOMAIN new = UsedBy(list)
      /\ \A i, j \in DOMAIN new : new[i] = new[j] => i = j
  BY <1>1, <1>6
<1> QED
  BY <1>2, <1>4, <1>5, <1>7 DEF Safe, Sound, IsInjective, list

\* A save that fails leaves the old file or none.
LEMMA SaveSafe ==
    ASSUME NEW fails \in BOOLEAN, StoredInv, Save(fails), NEW top \in Nat, spent.ids <= top,
           Safe([providers |-> providers', accounts |-> accounts'], top)
    PROVE  disk' = Gone \/ Safe(disk', top)
<1>1. spent.ids \in Nat
  BY DEF StoredInv
<1>2. disk = Gone \/ Safe(disk, top)
  BY <1>1, SafeStays DEF StoredInv
<1> QED
  BY <1>2 DEF Save

\* Every account that is put in belongs to its configuration and has its own tokens.
LEMMA InsertKeeps ==
    ASSUME StoredInv, NEW p \in Config, NEW a \in OwnData, NEW fails \in BOOLEAN, NEW edits \in Nat,
           InsertAccount(p, a, fails, edits)
    PROVE  StoredInv'
<1> DEFINE top == IF IdOf(p) > spent.ids THEN spent.ids + 1 ELSE spent.ids
<1>1. /\ Safe([providers |-> providers', accounts |-> accounts'], top)
      /\ top \in Nat /\ spent.ids <= top
  BY InsertSafe DEF InsertAccount
<1>2. disk' = Gone \/ Safe(disk', top)
  BY <1>1, SaveSafe DEF InsertAccount
<1>3. spent' \in [ids : Nat, flows : Nat, edits : Nat, mishaps : Nat] /\ spent'.ids = top
  <2> DEFINE late == IF fails THEN spent.mishaps + 1 ELSE spent.mishaps
             done == spent.edits + edits
  <2>1. top \in Nat /\ late \in Nat /\ done \in Nat
    BY <1>1 DEF StoredInv
  <2>2. spent' = [spent EXCEPT !.ids = top, !.edits = done, !.mishaps = late]
    BY DEF InsertAccount
  <2> HIDE DEF top, late, done
  <2> QED
    BY <2>1, <2>2 DEF StoredInv
<1> QED
  BY <1>1, <1>2, <1>3 DEF StoredInv, Memory

-----------------------------------------------------------------------------
(***************************************************************************)
(* The steps.                                                              *)
(***************************************************************************)
\* The account a launch has chosen is in the list.
LEMMA ChosenIsThere ==
    ASSUME NEW r, NEW s, NEW list, DOMAIN list \in SUBSET (Nat \ {0}),
           ResolveInstanceAccount(NoKey, r, s, list).why = "Ok"
    PROVE  ResolveInstanceAccount(NoKey, r, s, list).at \in DOMAIN list
<1>1. ASSUME NEW k, NEW q, ResolveAccount(k, q, list).why = "Ok"
      PROVE  ResolveAccount(k, q, list).at \in DOMAIN list
  <2> DEFINE named   == Least(Named(list, k))
             fitting == Least(Fitting(list, q))
  <2>1. Named(list, k) \in SUBSET Nat /\ Fitting(list, q) \in SUBSET Nat
    BY DEF Named, Fitting
  <2>2. /\ named # 0 => named \in DOMAIN list
        /\ fitting # 0 => fitting \in DOMAIN list
    BY <2>1, LeastIsIn DEF Named, Fitting
  <2> HIDE DEF named, fitting
  <2>3. ResolveAccount(k, q, list) =
           IF k # NoKey
           THEN IF named = 0 THEN [at |-> 0, why |-> "AccountNotFound"]
                ELSE IF named \notin Fitting(list, q) THEN [at |-> 0, why |-> "IncompatibleAccount"]
                ELSE [at |-> named, why |-> "Ok"]
           ELSE IF fitting = 0
                THEN [at |-> 0, why |-> IF q = NoProvider THEN "NoAccount" ELSE "NoCompatibleAccount"]
                ELSE [at |-> fitting, why |-> "Ok"]
    BY DEF ResolveAccount, named, fitting
  <2>4. CASE k # NoKey
    BY <2>2, <2>3, <2>4, <1>1
  <2>5. CASE k = NoKey
    BY <2>2, <2>3, <2>5, <1>1
  <2> QED
    BY <2>4, <2>5
<1>2. PICK k, q : ResolveInstanceAccount(NoKey, r, s, list) = ResolveAccount(k, q, list)
  BY DEF ResolveInstanceAccount
<1> QED
  BY <1>1, <1>2

\* What an instance begins to authenticate with is an account of the storage.
LEMMA StartBegins ==
    ASSUME StoredInv, NEW i \in Instance, NEW kind, Start(i, kind)
    PROVE  \/ UNCHANGED <<flows, spent>>
           \/ \E p \in Config, a \in OwnData : Begin(i, p, a)
<1> DEFINE list   == LaunchAccounts(Views, Player)
           choice == ResolveInstanceAccount(NoKey, required[i], settings[i], list)
<1> SUFFICES ASSUME ~UNCHANGED <<flows, spent>>
             PROVE  \E p \in Config, a \in OwnData : Begin(i, p, a)
  OBVIOUS
<1>1. /\ choice.why = "Ok"
      /\ KindOf[list[choice.at].provider] # "offline"
      /\ Begin(i, list[choice.at].provider, list[choice.at].data)
  BY DEF Start
<1>2. /\ accounts \in Seq(Entry)
      /\ providers \in [DOMAIN providers -> Config]
      /\ \A n \in DOMAIN accounts : Own(Data(accounts[n]))
  BY DEF StoredInv, Safe, Memory
<1>3. \A n \in DOMAIN Views : Views[n].provider \in Config /\ Views[n].data \in OwnData
  <2> SUFFICES ASSUME NEW n \in DOMAIN Views
               PROVE  Views[n].provider \in Config /\ Views[n].data \in OwnData
    OBVIOUS
  <2>1. n \in DOMAIN accounts /\ accounts[n].key[1] \in DOMAIN providers
        /\ Views[n] = [key |-> accounts[n].key, provider |-> providers[accounts[n].key[1]],
                       data |-> Data(accounts[n])]
    BY DEF Views
  <2>2. accounts[n] \in Entry
    BY <1>2, <2>1
  <2>3. Data(accounts[n]) \in OwnData
    BY <1>2, <2>1, <2>2 DEF Data, OwnData, AccountData, Entry
  <2> QED
    BY <1>2, <2>1, <2>3
<1>4. DOMAIN Views \in SUBSET (Nat \ {0})
  BY <1>2 DEF Views
<1>5. Views # <<>>
  <2> SUFFICES ASSUME Views = <<>> PROVE FALSE
    OBVIOUS
  <2>1. list = <<Player>>
    BY DEF LaunchAccounts
  <2>2. DOMAIN list \in SUBSET (Nat \ {0}) /\ DOMAIN list = {1}
    BY <2>1
  <2>3. choice.at = 1
    BY <1>1, <2>2, ChosenIsThere
  <2>4. list[choice.at].provider = Offline
    BY <2>1, <2>3 DEF Player
  <2> QED
    BY <1>1, <2>4, OfflineIsThere
<1>6. list = Views
  BY <1>5 DEF LaunchAccounts
<1>7. choice.at \in DOMAIN Views
  BY <1>1, <1>4, <1>6, ChosenIsThere
<1> QED
  BY <1>1, <1>3, <1>6, <1>7

\* A flow that begins.
LEMMA BeginKeeps ==
    ASSUME StoredInv, FlowInv, NEW c \in Owner, NEW p \in Config, NEW a,
           [access |-> a.access, refresh |-> a.refresh] \in Matched, Begin(c, p, a),
           UNCHANGED stored
    PROVE  StoredInv' /\ FlowInv'
<1>1. Begun([access |-> a.access, refresh |-> a.refresh]) \in Good
  BY FlowSteps
<1>2. FlowInv'
  BY <1>1 DEF FlowInv, Begin, Active
<1>3. spent' \in [ids : Nat, flows : Nat, edits : Nat, mishaps : Nat] /\ spent'.ids = spent.ids
  <2>1. spent.flows + 1 \in Nat
    BY DEF StoredInv
  <2> QED
    BY <2>1 DEF Begin, Spent, StoredInv
<1> QED
  BY <1>2, <1>3 DEF StoredInv, stored, Memory

\* The tokens of an account belong to one user.
LEMMA OwnMatches ==
    /\ \A a \in OwnData : [access |-> a.access, refresh |-> a.refresh] \in Matched
    /\ [access |-> NoUse.access, refresh |-> NoUse.refresh] \in Matched
BY DEF OwnData, AccountData, Own, Matched, Tokens, NoUse, Token

\* A flow that moves on.
LEMMA MovesKeep ==
    ASSUME FlowInv, NEW c \in Owner, Active(c), NEW next,
           Moves(c, next), flow[c] \in Good => next \subseteq Good
    PROVE  FlowInv'
<1>1. flow[c] \in Good
  BY DEF FlowInv, Active
<1>2. PICK f \in Good : flow' = [flow EXCEPT ![c] = f]
  BY <1>1 DEF Moves
<1>3. flow' \in [Owner -> Good \cup {NoFlow}] /\ \A d \in Owner : Active(d)' => d = c \/ Active(d)
  BY <1>2 DEF FlowInv, Active
<1> QED
  BY <1>3 DEF Moves, FlowInv

\* A flow that ends.
LEMMA QuitsKeep ==
    ASSUME FlowInv, NEW c \in Owner, Quits(c)
    PROVE  FlowInv'
BY DEF FlowInv, Quits, Active

\* Bounds that are used up.
LEMMA SpentKeeps ==
    ASSUME StoredInv, NEW field \in {"flows", "edits", "mishaps"}
    PROVE  Spent(field) \in [ids : Nat, flows : Nat, edits : Nat, mishaps : Nat]
           /\ Spent(field).ids = spent.ids
<1>1. spent.flows + 1 \in Nat /\ spent.edits + 1 \in Nat /\ spent.mishaps + 1 \in Nat
  BY DEF StoredInv
<1>2. CASE field = "flows"
  BY <1>1, <1>2 DEF Spent, StoredInv
<1>3. CASE field = "edits"
  BY <1>1, <1>3 DEF Spent, StoredInv
<1>4. CASE field = "mishaps"
  BY <1>1, <1>4 DEF Spent, StoredInv
<1> QED
  BY <1>2, <1>3, <1>4

\* Nothing is stored.
LEMMA StoredSame ==
    ASSUME StoredInv, UNCHANGED stored,
           spent' \in [ids : Nat, flows : Nat, edits : Nat, mishaps : Nat], spent'.ids = spent.ids
    PROVE  StoredInv'
BY DEF StoredInv, stored, Memory

\* What is sent is a result of one user, or no result.
LEMMA Sent ==
    ASSUME EventInv, NEW e \in Results \cup Others, events' = Append(events, e)
    PROVE  EventInv'
BY DEF EventInv

\* What is taken was sent.
LEMMA Taken ==
    ASSUME EventInv, events # <<>>, events' = Tail(events)
    PROVE  EventInv' /\ Head(events) \in Results \cup Others
BY DEF EventInv

\* The prompt of a flow.
LEMMA PromptKeeps ==
    ASSUME EventInv, NEW c \in Owner, ShowPrompt(c) \/ ClearPrompt(c)
    PROVE  EventInv'
<1>1. \A i \in (Owner \ {Add}) \cup {NoOne} : [type |-> "AuthLaunchPrompt", instance |-> i] \in Results \cup Others
  BY DEF Others, Owner
<1>2. \/ UNCHANGED events
      \/ \E i \in (Owner \ {Add}) \cup {NoOne} :
            events' = Append(events, [type |-> "AuthLaunchPrompt", instance |-> i])
  BY DEF ShowPrompt, ClearPrompt
<1> QED
  BY <1>1, <1>2, Sent DEF EventInv

\* A record without accounts is in order.
LEMMA NothingIsSafe ==
    ASSUME NEW file, file.accounts = <<>>, file.providers = <<>>, NEW t \in Nat
    PROVE  Safe(file, t)
<1>1. DOMAIN file.accounts = {} /\ DOMAIN file.providers = {} /\ file.accounts \in Seq(Entry)
  OBVIOUS
<1>2. UsedBy(file.accounts) = {}
  BY <1>1 DEF UsedBy
<1>3. Sound(file)
  BY <1>1, <1>2 DEF Sound, IsInjective
<1>4. file.providers \in [DOMAIN file.providers -> Config]
  <2>1. <<>> \in [{} -> Config]
    OBVIOUS
  <2> QED
    BY <1>1, <2>1
<1> QED
  BY <1>1, <1>3, <1>4 DEF Safe

\* It holds when the launcher is first started.
LEMMA Initially == Init => Inv
<1> SUFFICES ASSUME Init PROVE Inv
  OBVIOUS
<1>1. Memory.accounts = <<>> /\ Memory.providers = <<>> /\ spent.ids \in Nat
  BY DEF Init, Memory
<1>2. StoredInv
  BY <1>1, NothingIsSafe DEF Init, StoredInv
<1>3. FlowInv /\ EventInv
  BY DEF Init, FlowInv, EventInv, Active
<1> QED
  BY <1>2, <1>3 DEF Inv

\* What the user does.
LEMMA UserKeeps == Inv /\ User => Inv'
<1> SUFFICES ASSUME Inv, User PROVE Inv'
  OBVIOUS
<1> USE DEF Inv
<1>1. ASSUME NEW n \in Name, NEW fails \in BOOLEAN, SubmitOfflineNickname(n, fails) PROVE Inv'
  <2>1. [user |-> n, access |-> n, refresh |-> NoToken] \in OwnData
    BY DEF OwnData, AccountData, Own, Token
  <2>2. StoredInv'
    BY <1>1, <2>1, OfflineIsThere, InsertKeeps DEF SubmitOfflineNickname
  <2> QED
    BY <1>1, <2>2 DEF SubmitOfflineNickname, flows, FlowInv, EventInv, Active
<1>2. ASSUME NEW k, NEW fails \in BOOLEAN, NEW done, RemoveAccount(k, fails, done) PROVE Inv'
  <2>1. Safe([providers |-> providers', accounts |-> accounts'], spent.ids)
    BY <1>2, RemoveSafe DEF RemoveAccount
  <2>2. disk' = Gone \/ Safe(disk', spent.ids)
    BY <1>2, <2>1, SaveSafe DEF RemoveAccount, StoredInv
  <2>3. spent' \in [ids : Nat, flows : Nat, edits : Nat, mishaps : Nat] /\ spent'.ids = spent.ids
    <3> DEFINE late == IF fails \/ done # Instance THEN spent.mishaps + 1 ELSE spent.mishaps
               more == spent.edits + 1
    <3>1. late \in Nat /\ more \in Nat
      BY DEF StoredInv
    <3>2. spent' = [spent EXCEPT !.edits = more, !.mishaps = late]
      BY <1>2 DEF RemoveAccount
    <3> HIDE DEF late, more
    <3> QED
      BY <3>1, <3>2 DEF StoredInv
  <2>4. StoredInv'
    BY <2>1, <2>2, <2>3 DEF StoredInv, Memory
  <2> QED
    BY <1>2, <2>4 DEF RemoveAccount, flows, FlowInv, EventInv, Active
<1>3. ASSUME NEW i \in Instance, NEW k, SetOverride(i, k) \/ SetSelected(i, k) PROVE Inv'
  <2>1. StoredInv'
    BY <1>3, SpentKeeps, StoredSame DEF SetOverride, SetSelected
  <2> QED
    BY <1>3, <2>1 DEF SetOverride, SetSelected, flows, FlowInv, EventInv, Active
<1>4. ASSUME NEW p \in Config, StartAddAccount(p) PROVE Inv'
  <2>1. StoredInv' /\ FlowInv'
    BY <1>4, OwnMatches, BeginKeeps DEF StartAddAccount, Owner
  <2> QED
    BY <1>4, <2>1 DEF StartAddAccount, EventInv
<1>5. ASSUME NEW i \in Instance, NEW kind, Start(i, kind) PROVE Inv'
  <2>1. UNCHANGED stored /\ UNCHANGED events
    BY <1>5 DEF Start, prompt
  <2>2. CASE UNCHANGED <<flows, spent>>
    <3>1. StoredInv'
      BY <2>1, <2>2, StoredSame DEF StoredInv
    <3> QED
      BY <2>1, <2>2, <3>1 DEF flows, FlowInv, EventInv, Active
  <2>3. ASSUME NEW p \in Config, NEW a \in OwnData, Begin(i, p, a) PROVE Inv'
    <3>1. StoredInv' /\ FlowInv'
      BY <2>1, <2>3, OwnMatches, BeginKeeps DEF Owner
    <3> QED
      BY <2>1, <3>1 DEF EventInv
  <2> QED
    BY <1>5, <2>2, <2>3, StartBegins
<1>6. ASSUME CancelAuth PROVE Inv'
  <2>1. StoredInv' /\ EventInv'
    BY <1>6, StoredSame DEF CancelAuth, StoredInv, EventInv
  <2>2. FlowInv'
    <3>1. CASE UNCHANGED flows
      BY <3>1 DEF flows, FlowInv, Active
    <3>2. CASE ~UNCHANGED flows
      <4>1. Quits(authInstance)
        BY <1>6, <3>2 DEF CancelAuth
      <4> QED
        BY <4>1 DEF FlowInv, Quits, Active
    <3> QED
      BY <3>1, <3>2
  <2> QED
    BY <2>1, <2>2
<1> QED
  BY <1>1, <1>2, <1>3, <1>4, <1>5, <1>6 DEF User

\* What the authentications do.
LEMMA TasksKeep == Inv /\ Tasks => Inv'
<1> SUFFICES ASSUME Inv, Tasks PROVE Inv'
  OBVIOUS
<1> USE DEF Inv
<1>0. ASSUME UNCHANGED stored, UNCHANGED spent PROVE StoredInv'
  BY <1>0, StoredSame DEF StoredInv
<1>1. ASSUME NEW c \in Owner, Active(c)
      PROVE  flow[c] \in Good /\ provider[c] \in Config /\ Kind(c) \in ProviderKind
  BY <1>1, AccountsAssumption DEF FlowInv, Active, Kind
<1>2. ASSUME NEW c \in Owner, Ask(c) PROVE Inv'
  <2>1. Active(c) /\ flow[c].pc = "Auth" /\ ~LoopEnds(flow[c]) /\ Moves(c, Asked(flow[c])) /\ ShowPrompt(c)
    BY <1>2 DEF Ask, MayStep
  <2>2. Asked(flow[c]) \subseteq Good
    BY <1>1, <2>1, FlowSteps DEF Going
  <2> QED
    BY <1>0, <1>2, <2>1, <2>2, MovesKeep, PromptKeeps DEF Ask
<1>3. ASSUME NEW c \in Owner, Answer(c) PROVE Inv'
  <2>1. Active(c) /\ flow[c].pc = "Waiting" /\ ~LoopEnds(flow[c]) /\ Moves(c, Answered(Kind(c), flow[c]))
    BY <1>3 DEF Answer, MayStep
  <2>2. Answered(Kind(c), flow[c]) \subseteq Good
    BY <1>1, <2>1, FlowSteps DEF Going
  <2>3. EventInv'
    BY <1>3, PromptKeeps DEF Answer, EventInv
  <2> QED
    BY <1>0, <1>3, <2>1, <2>2, <2>3, MovesKeep DEF Answer
<1>4. ASSUME NEW c \in Owner, Refresh(c) PROVE Inv'
  <2>1. Active(c) /\ flow[c].pc = "Refresh" /\ ~LoopEnds(flow[c]) /\ Moves(c, Refreshed(Kind(c), flow[c]))
    BY <1>4 DEF Refresh, MayStep
  <2>2. Refreshed(Kind(c), flow[c]) \subseteq Good
    BY <1>1, <2>1, FlowSteps DEF Going
  <2> QED
    BY <1>0, <1>4, <2>1, <2>2, MovesKeep DEF Refresh, EventInv
<1>5. ASSUME NEW c \in Owner, LookUp(c) PROVE Inv'
  <2>1. Active(c) /\ flow[c].pc = "UserInfo" /\ ~LoopEnds(flow[c]) /\ Moves(c, LookedUp(flow[c]))
    BY <1>5 DEF LookUp, MayStep
  <2>2. LookedUp(flow[c]) \subseteq Good
    BY <1>1, <2>1, FlowSteps DEF Going
  <2> QED
    BY <1>0, <1>5, <2>1, <2>2, MovesKeep DEF LookUp, EventInv
<1>6. ASSUME NEW c \in Owner, Succeed(c) PROVE Inv'
  <2>1. Active(c) /\ flow[c].pc = "Success"
    BY <1>6 DEF Succeed, MayStep
  <2>2. Account(flow[c]) \in OwnData
    BY <1>1, <2>1, ResultsAreOwn
  <2>3. \A type \in {"AddAccountFinished", "AccountUpdated"} :
           [type |-> type, provider |-> provider[c], account |-> Account(flow[c])] \in Results
    BY <1>1, <2>1, <2>2 DEF Results
  <2>4. EventInv'
    BY <1>6, <2>3, Sent DEF Succeed, EventInv
  <2>5. FlowInv'
    BY <1>6, QuitsKeep DEF Succeed
  <2> QED
    BY <1>0, <1>6, <2>4, <2>5 DEF Succeed
<1>7. ASSUME NEW c \in Owner, NEW error, Fail(c, error) PROVE Inv'
  <2>1. [type |-> "AddAccountFailed"] \in Others
    BY DEF Others
  <2>2. \/ events' = Append(events, [type |-> "AddAccountFailed"])
        \/ ClearPrompt(c) \/ UNCHANGED events
    BY <1>7 DEF Fail
  <2>3. EventInv'
    BY <2>1, <2>2, Sent, PromptKeeps DEF EventInv
  <2>4. FlowInv'
    BY <1>7, QuitsKeep DEF Fail
  <2> QED
    BY <1>0, <1>7, <2>3, <2>4 DEF Fail
<1>8. ASSUME DropAdd PROVE Inv'
  <2>1. [type |-> "AddAccountCancelled"] \in Others
    BY DEF Others
  <2> QED
    BY <1>0, <1>8, <2>1, Sent, QuitsKeep DEF DropAdd, Owner
<1>9. ASSUME NEW i \in Instance, Goes(i) PROVE Inv'
  BY <1>0, <1>9 DEF Goes, flows, prompt, FlowInv, EventInv, Active
<1> QED
  BY <1>2, <1>3, <1>4, <1>5, <1>6, <1>7, <1>8, <1>9 DEF Tasks

\* What the loop does with their results, a restart and the world around.
LEMMA RestKeeps ==
    Inv /\ (Handlers \/ Restart \/ \E i \in Instance, p \in Config \cup {NoProvider} : Republish(i, p))
       => Inv'
<1> SUFFICES ASSUME Inv,
                    Handlers \/ Restart \/ \E i \in Instance, p \in Config \cup {NoProvider} : Republish(i, p)
             PROVE  Inv'
  OBVIOUS
<1> USE DEF Inv
<1>1. ASSUME NEW type, Receive(type)
      PROVE  /\ EventInv'
             /\ type \in {"AddAccountFinished", "AccountUpdated"} =>
                   Head(events).provider \in Config /\ Head(events).account \in OwnData
  <2>1. EventInv' /\ Head(events) \in Results \cup Others /\ Head(events).type = type
    BY <1>1, Taken DEF Receive
  <2> QED
    BY <2>1 DEF Results, Others
<1>2. ASSUME NEW fails \in BOOLEAN, HandleAddAccountFinished(fails) \/ HandleAccountUpdated(fails)
      PROVE  Inv'
  <2>1. EventInv' /\ Head(events).provider \in Config /\ Head(events).account \in OwnData
    BY <1>1, <1>2 DEF HandleAddAccountFinished, HandleAccountUpdated
  <2>2. InsertAccount(Head(events).provider, Head(events).account, fails, 0) /\ UNCHANGED flows
    BY <1>2 DEF HandleAddAccountFinished, HandleAccountUpdated
  <2>3. StoredInv'
    BY <2>1, <2>2, InsertKeeps
  <2> QED
    BY <2>1, <2>2, <2>3 DEF flows, FlowInv, Active
<1>3. ASSUME HandleAddAccountEnded \/ HandleAuthLaunchPrompt PROVE Inv'
  <2>1. EventInv' /\ UNCHANGED <<stored, flows, spent>>
    BY <1>1, <1>3 DEF HandleAddAccountEnded, HandleAuthLaunchPrompt
  <2>2. StoredInv'
    BY <2>1, StoredSame DEF StoredInv
  <2> QED
    BY <2>1, <2>2 DEF flows, FlowInv, Active
<1>4. ASSUME Restart PROVE Inv'
  <2>1. spent' \in [ids : Nat, flows : Nat, edits : Nat, mishaps : Nat] /\ spent'.ids = spent.ids
    BY <1>4, SpentKeeps DEF Restart
  <2>2. Safe(Empty, spent.ids)
    BY NothingIsSafe DEF Empty, StoredInv
  <2>3. Safe(Memory', spent.ids)
    <3>1. Memory' = [providers |-> (IF disk = Gone THEN Empty ELSE disk).providers,
                     accounts  |-> (IF disk = Gone THEN Empty ELSE disk).accounts]
      BY <1>4 DEF Restart, Memory
    <3>2. CASE disk = Gone
      BY <2>2, <3>1, <3>2 DEF Safe, Sound
    <3>3. CASE disk # Gone
      BY <3>1, <3>3 DEF Safe, Sound, StoredInv
    <3> QED
      BY <3>2, <3>3
  <2>4. StoredInv'
    BY <1>4, <2>1, <2>3 DEF StoredInv, Restart
  <2>5. FlowInv' /\ EventInv'
    BY <1>4 DEF Restart, FlowInv, EventInv, Active
  <2> QED
    BY <2>4, <2>5
<1>5. ASSUME NEW i \in Instance, NEW p, Republish(i, p) PROVE Inv'
  <2>1. StoredInv'
    BY <1>5, SpentKeeps, StoredSame DEF Republish
  <2> QED
    BY <1>5, <2>1 DEF Republish, flows, FlowInv, EventInv, Active
<1> QED
  BY <1>2, <1>3, <1>4, <1>5 DEF Handlers

\* Nothing happens.
LEMMA Unchanged == Inv /\ UNCHANGED vars => Inv'
BY DEF vars, stored, flows, Inv, StoredInv, FlowInv, EventInv, Memory, Active

\* The invariant holds in every state.
LEMMA Always == Spec => []Inv
<1>1. Inv /\ [Next]_vars => Inv'
  BY UserKeeps, TasksKeep, RestKeeps, Unchanged DEF Next
<1> QED
  BY Initially, <1>1, PTL DEF Spec

-----------------------------------------------------------------------------
\* In memory and in the file every account is there once, every configuration has one
\* id, and none is kept that no account needs, whatever saves fail, whenever the
\* launcher ends, and for any number of users, configurations and log-ins.
THEOREM KeysAreSound == Spec => []KeysSound
<1>1. Inv => KeysSound
  BY DEF Inv, StoredInv, Safe, KeysSound
<1> QED
  BY <1>1, Always, PTL

\* The tokens kept under a name, and those on their way to be kept, are that user's own,
\* in whatever order log-ins and refreshes follow each other.
THEOREM TokensAreOwn == Spec => []TokensMatch
<1>1. Inv => TokensMatch
  <2> SUFFICES ASSUME Inv PROVE TokensMatch
    OBVIOUS
  <2>1. \A n \in DOMAIN accounts : Own(Data(accounts[n]))
    BY DEF Inv, StoredInv, Safe, Memory
  <2>2. ASSUME NEW n \in DOMAIN events, events[n].type \in {"AddAccountFinished", "AccountUpdated"}
        PROVE  Own(events[n].account)
    <3>1. events[n] \in Results \cup Others
      BY DEF Inv, EventInv
    <3> QED
      BY <2>2, <3>1 DEF Results, Others, OwnData
  <2> QED
    BY <2>1, <2>2 DEF TokensMatch
<1> QED
  BY <1>1, Always, PTL

-----------------------------------------------------------------------------
(***************************************************************************)
(* The account of an instance, as the interface and as the loop choose it. *)
(***************************************************************************)

\* A place is found if and only if there is one.
LEMMA LeastPlace ==
    ASSUME NEW I \in SUBSET (Nat \ {0})
    PROVE  (Least(I) = 0 <=> I = {}) /\ (I # {} => Least(I) \in I)
<1>1. I \in SUBSET Nat
  OBVIOUS
<1> QED
  BY <1>1, LeastIsIn

\* A choice with no account named in the message.
LEMMA Resolved ==
    ASSUME NEW list, NEW r, NEW s, DOMAIN list \in SUBSET (Nat \ {0})
    PROVE  LET plays == ResolveInstanceAccount(NoKey, r, s, list)
               override == Least(Named(list, s.override))
               selected == Least(Named(list, s.selected))
           IN  /\ s.override # NoKey /\ Named(list, s.override) # {} => plays.at = override
               /\ s.override = NoKey \/ Named(list, s.override) = {} =>
                     IF s.selected # NoKey /\ Named(list, s.selected) # {}
                     THEN IF selected \in Fitting(list, r)
                          THEN plays.at = selected
                          ELSE plays.at = 0 /\ plays.why = "IncompatibleAccount"
                     ELSE plays.at = Least(Fitting(list, r))
<1> DEFINE plays == ResolveInstanceAccount(NoKey, r, s, list)
           fitting == Fitting(list, r)
<1>1. \A k : Named(list, k) \in SUBSET (Nat \ {0}) /\ Named(list, k) \subseteq Fitting(list, NoProvider)
  BY DEF Named, Fitting
<1>2. \A k : (Least(Named(list, k)) = 0 <=> Named(list, k) = {})
             /\ (Named(list, k) # {} => Least(Named(list, k)) \in Named(list, k))
  BY <1>1, LeastPlace
<1>3. \A k : IfValid(k, list) = IF Named(list, k) = {} THEN NoKey ELSE k
  BY DEF IfValid
<1>4. ASSUME NEW k, k # NoKey, Named(list, k) # {}
      PROVE  \A q : IF Least(Named(list, k)) \in Fitting(list, q)
                    THEN ResolveAccount(k, q, list).at = Least(Named(list, k))
                    ELSE /\ ResolveAccount(k, q, list).at = 0
                         /\ ResolveAccount(k, q, list).why = "IncompatibleAccount"
  BY <1>2, <1>4 DEF ResolveAccount
<1>5. ResolveAccount(NoKey, r, list).at = Least(Fitting(list, r))
  BY DEF ResolveAccount
<1>6. ASSUME s.override # NoKey, Named(list, s.override) # {}
      PROVE  plays.at = Least(Named(list, s.override))
  <2>1. plays = ResolveAccount(s.override, NoProvider, list)
    BY <1>3, <1>6 DEF ResolveInstanceAccount
  <2> QED
    BY <1>1, <1>2, <1>4, <1>6, <2>1
<1>7. ASSUME s.override = NoKey \/ Named(list, s.override) = {}
      PROVE  IF s.selected # NoKey /\ Named(list, s.selected) # {}
             THEN IF Least(Named(list, s.selected)) \in fitting
                  THEN plays.at = Least(Named(list, s.selected))
                  ELSE plays.at = 0 /\ plays.why = "IncompatibleAccount"
             ELSE plays.at = Least(fitting)
  <2>1. plays = ResolveAccount(IfValid(s.selected, list), r, list)
    BY <1>3, <1>7 DEF ResolveInstanceAccount
  <2>2. CASE s.selected # NoKey /\ Named(list, s.selected) # {}
    BY <1>3, <1>4, <2>1, <2>2
  <2>3. CASE ~(s.selected # NoKey /\ Named(list, s.selected) # {})
    BY <1>3, <1>5, <2>1, <2>3
  <2> QED
    BY <2>2, <2>3
<1> QED
  BY <1>6, <1>7

\* The two choices agree on accounts of which none has the key of another.
LEMMA ChoicesAgree ==
    ASSUME NEW views, NEW player, NEW r, NEW s, DOMAIN views \in SUBSET (Nat \ {0}),
           \A n \in DOMAIN views : views[n].key # NoKey,
           \A m, n \in DOMAIN views : views[m].key = views[n].key => m = n
    PROVE  LET sees  == EffectiveAccount(r, s, views)
               plays == ResolveInstanceAccount(NoKey, r, s, LaunchAccounts(views, player))
               at    == Least(Named(views, s.selected))
           IN  IF sees # 0
               THEN \/ plays.at = sees
                    \/ plays.why = "IncompatibleAccount" /\ Named(views, s.selected) # {}
                       /\ at # 0 /\ views[at].provider # r
               ELSE plays.at = 0 \/ views = <<>> \/ ~LaunchBlocked(r, s, sees)
<1> DEFINE sees    == EffectiveAccount(r, s, views)
           plays   == ResolveInstanceAccount(NoKey, r, s, LaunchAccounts(views, player))
           chosen  == Named(views, s.selected)
           fitting == Fitting(views, r)
           at      == Least(chosen)
<1>1. CASE views = <<>>
  <2>1. sees = 0
    BY <1>1 DEF EffectiveAccount, Named, Fitting, Least
  <2> QED
    BY <1>1, <2>1
<1>2. CASE views # <<>>
  <2>1. LaunchAccounts(views, player) = views
    BY <1>2 DEF LaunchAccounts
  <2>2. \A k : /\ Named(views, k) \in SUBSET (Nat \ {0})
               /\ (Least(Named(views, k)) = 0 <=> Named(views, k) = {})
               /\ (Named(views, k) # {} => Least(Named(views, k)) \in Named(views, k))
    BY LeastPlace DEF Named
  <2>3. Named(views, NoKey) = {}
    BY DEF Named
  <2>4. CASE s.override # NoKey
    <3>1. sees = Least(Named(views, s.override))
      BY <2>4 DEF EffectiveAccount
    <3>2. CASE Named(views, s.override) # {}
      <4>1. plays.at = Least(Named(views, s.override))
        BY <2>1, <2>4, <3>2, Resolved
      <4> QED
        BY <2>2, <3>1, <3>2, <4>1
    <3>3. CASE Named(views, s.override) = {}
      BY <2>2, <2>4, <3>1, <3>3 DEF LaunchBlocked
    <3> QED
      BY <3>2, <3>3
  <2>5. CASE s.override = NoKey
    <3>1. sees = Least(IF chosen \cap fitting # {} THEN chosen \cap fitting ELSE fitting)
      BY <2>5 DEF EffectiveAccount
    <3>2. IF s.selected # NoKey /\ chosen # {}
          THEN IF at \in fitting THEN plays.at = at
               ELSE plays.at = 0 /\ plays.why = "IncompatibleAccount"
          ELSE plays.at = Least(fitting)
      BY <2>1, <2>5, Resolved
    <3>3. CASE chosen = {}
      BY <3>1, <3>2, <3>3
    <3>4. CASE chosen # {}
      <4>1. s.selected # NoKey /\ at \in chosen /\ at # 0
        BY <2>2, <2>3, <3>4
      <4>2. chosen = {at} /\ at \in DOMAIN views
        BY <4>1 DEF Named
      <4>3. CASE at \in fitting
        <5>1. chosen \cap fitting = chosen
          BY <4>2, <4>3
        <5> QED
          BY <3>1, <3>2, <3>4, <4>1, <4>3, <5>1
      <4>4. CASE at \notin fitting
        <5>1. views[at].provider # r
          BY <4>2, <4>4 DEF Fitting
        <5> QED
          BY <3>2, <3>4, <4>1, <4>4, <5>1
      <4> QED
        BY <4>3, <4>4
    <3> QED
      BY <3>3, <3>4
  <2> QED
    BY <2>4, <2>5
<1> QED
  BY <1>1, <1>2

\* What the storage gives the choices: places of accounts, no key twice.
LEMMA ViewsFit ==
    ASSUME Safe(Memory, spent.ids)
    PROVE  /\ DOMAIN Views = DOMAIN accounts /\ DOMAIN Views \in SUBSET (Nat \ {0})
           /\ \A n \in DOMAIN Views : Views[n].key = accounts[n].key
           /\ \A n \in DOMAIN Views : Views[n].key # NoKey
           /\ \A m, n \in DOMAIN Views : Views[m].key = Views[n].key => m = n
<1>1. accounts \in Seq(Entry) /\ Sound(Memory)
  BY DEF Safe, Memory
<1>2. ASSUME NEW n \in DOMAIN accounts PROVE accounts[n].key \in Nat \X Token
  <2>1. accounts[n] \in Entry
    BY <1>1
  <2> QED
    BY <2>1 DEF Entry, Token
<1>3. \A n \in DOMAIN accounts : accounts[n].key[1] \in DOMAIN providers
  BY <1>1 DEF Sound, Memory, UsedBy
<1>4. \A m, n \in DOMAIN accounts : accounts[m].key = accounts[n].key => m = n
  BY <1>1 DEF Sound, Memory
<1>5. /\ DOMAIN Views = DOMAIN accounts
      /\ \A n \in DOMAIN Views : Views[n].key = accounts[n].key
  BY <1>3 DEF Views
<1> QED
  BY <1>1, <1>2, <1>4, <1>5, AccountsAssumption

\* An instance plays as the account the interface shows for it, whatever accounts
\* come and go and whatever is chosen or required (effective_account against
\* resolve_instance_account).
THEOREM InstancesPlayAsShown == Spec => []PlaysAsShown
<1>1. Inv => PlaysAsShown
  <2> SUFFICES ASSUME Inv, NEW i \in Instance
               PROVE  LET list  == LaunchAccounts(Views, Player)
                          sees  == EffectiveAccount(required[i], settings[i], Views)
                          plays == ResolveInstanceAccount(NoKey, required[i], settings[i], list)
                          Gives(k) == Named(Views, k) # {}
                      IN  IF sees # 0
                          THEN \/ plays.at = sees
                               \/ plays.why = "IncompatibleAccount" /\ Gives(settings[i].selected)
                                  /\ ProviderOf(settings[i].selected) # required[i]
                          ELSE plays.at = 0 \/ Views = <<>> \/ ~LaunchBlocked(required[i], settings[i], sees)
    BY DEF PlaysAsShown
  <2>1. /\ DOMAIN Views \in SUBSET (Nat \ {0})
        /\ \A n \in DOMAIN Views : Views[n].key # NoKey
        /\ \A m, n \in DOMAIN Views : Views[m].key = Views[n].key => m = n
    BY ViewsFit DEF Inv, StoredInv
  <2> QED
    BY <2>1, ChoicesAgree DEF ProviderOf
<1> QED
  BY <1>1, Always, PTL

-----------------------------------------------------------------------------
(***************************************************************************)
(* The types, and the ids that are left for the flows under way.           *)
(***************************************************************************)
\* The settings and what they are checked against.
Chosen ==
    /\ offered \in SUBSET Key
    /\ settings \in [Instance -> [selected : Key \cup {NoKey}, override : Key \cup {NoKey}]]
    /\ required \in [Instance -> Config \cup {NoProvider}]
    /\ disk = Gone \/ disk = [providers |-> disk.providers, accounts |-> disk.accounts]

\* The instances that authenticate are being installed or launched.
Running ==
    /\ activity \in [Instance -> {"Idle", "Install", "LaunchPrep", "Running"}]
    /\ used \in [Owner -> AccountData \cup {NoUse}]
    /\ \A i \in Instance : Active(i) => used[i] \in AccountData /\ activity[i] \in {"Install", "LaunchPrep"}

\* What the interface is shown, and the account that is being added.
Prompting ==
    /\ addTask \in BOOLEAN /\ addCancel \in BOOLEAN /\ cancelled \in BOOLEAN
    /\ authInstance \in Instance \cup {NoOne} /\ shown \in Owner \cup {NoOne}

\* Whoever may still draw an id: the flows under way, and the results not yet handled.
UnderWay == {c \in Owner : Active(c)}
IsResult(e) == e.type \in {"AddAccountFinished", "AccountUpdated"}
Sending  == {n \in DOMAIN events : IsResult(events[n])}

Room ==
    /\ IsFiniteSet(UnderWay) /\ IsFiniteSet(Sending)
    /\ Cardinality(UnderWay) + Cardinality(Sending) <= spent.flows
    /\ spent.ids + Cardinality(UnderWay) + Cardinality(Sending) <= MaxIds - MaxFlows + spent.flows
    /\ spent.flows <= MaxFlows /\ spent.edits <= MaxEdits /\ spent.mishaps <= MaxMishaps

Typing == Inv /\ Chosen /\ Running /\ Prompting /\ Room

-----------------------------------------------------------------------------
\* An id is left for everyone who may draw one.
LEMMA RoomIsLeft ==
    ASSUME Inv, Room
    PROVE  /\ Cardinality(UnderWay) \in Nat /\ Cardinality(Sending) \in Nat
           /\ spent.ids \in Nat /\ spent.flows \in Nat /\ spent.ids <= MaxIds
BY FS_CardinalityType, AccountsAssumption DEF Inv, StoredInv, Room

\* A part of what is finite is finite and not more.
LEMMA FewerStay ==
    ASSUME NEW S, NEW T, IsFiniteSet(S), T \subseteq S
    PROVE  IsFiniteSet(T) /\ Cardinality(T) \in Nat /\ Cardinality(S) \in Nat
           /\ Cardinality(T) <= Cardinality(S)
BY FS_Subset, FS_CardinalityType

\* One more at most.
LEMMA OneMore ==
    ASSUME NEW S, NEW x, NEW T, IsFiniteSet(S), T \subseteq S \cup {x}
    PROVE  IsFiniteSet(T) /\ Cardinality(T) \in Nat /\ Cardinality(S) \in Nat
           /\ Cardinality(T) <= Cardinality(S) + 1
<1>1. IsFiniteSet(S \cup {x}) /\ Cardinality(S \cup {x}) \in Nat /\ Cardinality(S) \in Nat
      /\ Cardinality(S \cup {x}) <= Cardinality(S) + 1
  BY FS_AddElement, FS_CardinalityType
<1> QED
  BY <1>1, FewerStay

\* One less.
LEMMA OneLess ==
    ASSUME NEW S, NEW x \in S, NEW T, IsFiniteSet(S), T \subseteq S \ {x}
    PROVE  IsFiniteSet(T) /\ Cardinality(T) \in Nat /\ Cardinality(S) \in Nat
           /\ Cardinality(T) <= Cardinality(S) - 1
<1>1. IsFiniteSet(S \ {x}) /\ Cardinality(S \ {x}) \in Nat /\ Cardinality(S) \in Nat
      /\ Cardinality(S \ {x}) = Cardinality(S) - 1
  BY FS_RemoveElement, FS_CardinalityType
<1> QED
  BY <1>1, FewerStay

\* An event that is sent is the last.
LEMMA SentLast ==
    ASSUME EventInv, Room, NEW e, events' = Append(events, e)
    PROVE  /\ IsFiniteSet(Sending') /\ Cardinality(Sending)' \in Nat /\ Cardinality(Sending) \in Nat
           /\ Cardinality(Sending)' <= Cardinality(Sending) + 1
           /\ ~IsResult(e) => Cardinality(Sending)' <= Cardinality(Sending)
<1>1. /\ DOMAIN events' = DOMAIN events \cup {Len(events) + 1}
      /\ \A n \in DOMAIN events : events'[n] = events[n]
      /\ events'[Len(events) + 1] = e
  BY DEF EventInv
<1>2. /\ Sending' \subseteq Sending \cup {Len(events) + 1}
      /\ ~IsResult(e) => Sending' \subseteq Sending
  BY <1>1 DEF Sending, IsResult
<1> HIDE DEF Sending
<1> QED
  BY <1>2, OneMore, FewerStay DEF Room

\* An event that is handled was the first.
LEMMA HandledFirst ==
    ASSUME EventInv, Room, events # <<>>, events' = Tail(events)
    PROVE  /\ IsFiniteSet(Sending') /\ Cardinality(Sending)' \in Nat /\ Cardinality(Sending) \in Nat
           /\ Cardinality(Sending)' <= Cardinality(Sending)
           /\ IsResult(Head(events)) => Cardinality(Sending)' <= Cardinality(Sending) - 1
<1> DEFINE left == Sending \ {1}
           Place(n) == n - 1
<1>1. /\ DOMAIN events = 1 .. Len(events) /\ Len(events) \in Nat \ {0} /\ Head(events) = events[1]
      /\ DOMAIN events' = 1 .. Len(events) - 1
      /\ \A n \in DOMAIN events' : events'[n] = events[n + 1]
  BY DEF EventInv
<1>2. Sending' = {Place(n) : n \in left}
  <2>1. ASSUME NEW n \in Sending' PROVE n + 1 \in left /\ n = Place(n + 1)
    BY <1>1, <2>1 DEF Sending, IsResult
  <2>2. ASSUME NEW n \in left PROVE Place(n) \in Sending'
    <3>1. n - 1 \in DOMAIN events' /\ (n - 1) + 1 = n /\ IsResult(events[n])
      BY <1>1, <2>2 DEF Sending
    <3>2. events'[n - 1] = events[n]
      BY <1>1, <3>1
    <3> QED
      BY <3>1, <3>2 DEF Sending, IsResult
  <2> QED
    BY <2>1, <2>2
<1>3. IsFiniteSet(left) /\ Cardinality(left) \in Nat /\ Cardinality(Sending) \in Nat
      /\ Cardinality(left) <= Cardinality(Sending)
  <2> HIDE DEF Sending
  <2> QED
    BY FewerStay DEF Room
<1>4. IsResult(Head(events)) => Cardinality(left) <= Cardinality(Sending) - 1
  <2>1. IsResult(Head(events)) => 1 \in Sending
    BY <1>1 DEF Sending
  <2> HIDE DEF Sending
  <2> QED
    BY <2>1, OneLess DEF Room
<1> HIDE DEF left
<1>5. ASSUME NEW S, NEW T, IsFiniteSet(S), T = {Place(n) : n \in S}
      PROVE  IsFiniteSet(T) /\ Cardinality(T) \in Nat /\ Cardinality(T) <= Cardinality(S)
  <2> DEFINE f == [n \in S |-> Place(n)]
  <2>1. f \in Surjection(S, T)
    BY <1>5 DEF Surjection
  <2> HIDE DEF f
  <2> QED
    BY <1>5, <2>1, FS_Surjection, FS_CardinalityType
<1>6. IsFiniteSet(Sending') /\ Cardinality(Sending') \in Nat /\ Cardinality(Sending') <= Cardinality(left)
  BY <1>2, <1>3, <1>5
<1> HIDE DEF Sending
<1> QED
  BY <1>3, <1>4, <1>6

\* What flows leave under way.
LEMMA UnderWayNext ==
    ASSUME FlowInv, NEW c \in Owner
    PROVE  /\ UNCHANGED flow => UnderWay' = UnderWay
           /\ \A p, a : Begin(c, p, a) => UnderWay' \subseteq UnderWay \cup {c}
           /\ \A next : Active(c) /\ Moves(c, next) => UnderWay' \subseteq UnderWay
           /\ Quits(c) => UnderWay' \subseteq UnderWay \ {c}
BY DEF FlowInv, UnderWay, Active, Begin, Moves, Quits

\* Nothing is drawn, nothing begins, nothing is sent that draws.
LEMMA RoomStays ==
    ASSUME Inv, Room, UnderWay' \subseteq UnderWay,
           IsFiniteSet(Sending'), Cardinality(Sending)' \in Nat,
           Cardinality(Sending)' <= Cardinality(Sending),
           spent'.ids = spent.ids, spent'.flows = spent.flows,
           spent'.edits <= MaxEdits, spent'.mishaps <= MaxMishaps
    PROVE  Room'
<1> HIDE DEF UnderWay, Sending
<1>1. IsFiniteSet(UnderWay') /\ Cardinality(UnderWay') \in Nat
      /\ Cardinality(UnderWay') <= Cardinality(UnderWay)
  BY FewerStay DEF Room
<1> QED
  BY <1>1, RoomIsLeft, AccountsAssumption DEF Room

\* Neither.
LEMMA RoomSame ==
    ASSUME Inv, Room, UnderWay' \subseteq UnderWay, UNCHANGED <<events, spent>>
    PROVE  Room'
<1>1. Sending' = Sending
  BY DEF Sending
<1>2. IsFiniteSet(Sending) /\ Cardinality(Sending) \in Nat
  BY RoomIsLeft DEF Room
<1> HIDE DEF UnderWay, Sending
<1> QED
  BY <1>1, <1>2, RoomStays DEF Room

\* The bounds that are used up.
LEMMA SpentMore ==
    ASSUME StoredInv
    PROVE  /\ Spent("flows").flows = spent.flows + 1 /\ Spent("flows").ids = spent.ids
           /\ Spent("flows").edits = spent.edits /\ Spent("flows").mishaps = spent.mishaps
           /\ Spent("edits").flows = spent.flows /\ Spent("edits").ids = spent.ids
           /\ Spent("edits").edits = spent.edits + 1 /\ Spent("edits").mishaps = spent.mishaps
           /\ Spent("mishaps").flows = spent.flows /\ Spent("mishaps").ids = spent.ids
           /\ Spent("mishaps").edits = spent.edits /\ Spent("mishaps").mishaps = spent.mishaps + 1
           /\ spent.flows \in Nat /\ spent.ids \in Nat /\ spent.edits \in Nat /\ spent.mishaps \in Nat
BY DEF StoredInv, Spent

\* One more flow is under way.
LEMMA RoomToBegin ==
    ASSUME Inv, Room, NEW c \in Owner, NEW p, NEW a, Begin(c, p, a), UNCHANGED events
    PROVE  Room'
<1>1. UnderWay' \subseteq UnderWay \cup {c} /\ Sending' = Sending
  BY UnderWayNext DEF Inv, Sending
<1>2. /\ spent' = Spent("flows") /\ spent.flows < MaxFlows
      /\ Inv /\ StoredInv
  BY DEF Begin, Inv
<1>3. /\ spent'.flows = spent.flows + 1 /\ spent'.ids = spent.ids
      /\ spent'.edits = spent.edits /\ spent'.mishaps = spent.mishaps
  BY <1>2, SpentMore
<1> HIDE DEF UnderWay, Sending
<1>4. IsFiniteSet(UnderWay') /\ Cardinality(UnderWay') \in Nat
      /\ Cardinality(UnderWay') <= Cardinality(UnderWay) + 1
  BY <1>1, OneMore DEF Room
<1> QED
  BY <1>1, <1>2, <1>3, <1>4, RoomIsLeft, AccountsAssumption DEF Room

\* The ids an account that is put in draws, and the bounds it uses up.
LEMMA InsertDraws ==
    ASSUME StoredInv, NEW p, NEW a, NEW fails \in BOOLEAN, NEW edits \in Nat, InsertAccount(p, a, fails, edits)
    PROVE  /\ spent'.ids \in {spent.ids, spent.ids + 1}
           /\ spent'.ids = spent.ids + 1 => IdOf(p) = spent.ids + 1
           /\ spent'.flows = spent.flows /\ spent'.edits = spent.edits + edits
           /\ spent'.mishaps = IF fails THEN spent.mishaps + 1 ELSE spent.mishaps
           /\ fails => spent.mishaps < MaxMishaps
<1> DEFINE late == IF fails THEN spent.mishaps + 1 ELSE spent.mishaps
           top  == IF IdOf(p) > spent.ids THEN spent.ids + 1 ELSE spent.ids
           more == spent.edits + edits
<1>1. spent' = [spent EXCEPT !.ids = top, !.edits = more, !.mishaps = late]
  BY DEF InsertAccount
<1>2. fails => spent.mishaps < MaxMishaps
  BY DEF InsertAccount, Save, CanFail
<1>3. top \in {spent.ids, spent.ids + 1} /\ (top = spent.ids + 1 => IdOf(p) = spent.ids + 1)
  <2>1. /\ spent.ids \in Nat /\ DOMAIN providers \subseteq 1 .. spent.ids
    BY DEF StoredInv, Safe, Memory
  <2>2. IdOf(p) \in DOMAIN providers \/ IdOf(p) = spent.ids + 1
    BY DEF IdOf
  <2> QED
    BY <2>1, <2>2
<1> HIDE DEF late, top, more
<1>4. /\ spent'.ids = top /\ spent'.flows = spent.flows /\ spent'.edits = more
      /\ spent'.mishaps = late
  BY <1>1 DEF StoredInv
<1> QED
  BY <1>2, <1>3, <1>4 DEF late, more

\* A result that is handled draws the id that was left for it.
LEMMA RoomToHandle ==
    ASSUME Inv, Room, NEW p, NEW a, NEW fails \in BOOLEAN, InsertAccount(p, a, fails, 0),
           events # <<>>, events' = Tail(events), IsResult(Head(events)), UNCHANGED flow
    PROVE  Room'
<1>1. UnderWay' = UnderWay
  BY DEF UnderWay, Active
<1>2. /\ IsFiniteSet(Sending') /\ Cardinality(Sending)' \in Nat /\ Cardinality(Sending) \in Nat
      /\ Cardinality(Sending)' <= Cardinality(Sending) - 1
  BY HandledFirst DEF Inv
<1>3. /\ spent'.ids \in {spent.ids, spent.ids + 1}
      /\ spent'.flows = spent.flows /\ spent'.edits = spent.edits + 0
      /\ spent'.mishaps = IF fails THEN spent.mishaps + 1 ELSE spent.mishaps
      /\ fails => spent.mishaps < MaxMishaps
  BY InsertDraws DEF Inv
<1>4. spent.flows \in Nat /\ spent.ids \in Nat /\ spent.edits \in Nat /\ spent.mishaps \in Nat
  BY SpentMore DEF Inv
<1> HIDE DEF UnderWay, Sending
<1>5. spent'.edits <= MaxEdits /\ spent'.mishaps <= MaxMishaps
  BY <1>3, <1>4, AccountsAssumption DEF Room
<1>6. /\ Cardinality(UnderWay) \in Nat /\ MaxIds \in Nat /\ MaxFlows \in Nat
      /\ Cardinality(UnderWay) + Cardinality(Sending) <= spent.flows
      /\ spent.ids + Cardinality(UnderWay) + Cardinality(Sending) <= MaxIds - MaxFlows + spent.flows
  BY RoomIsLeft, AccountsAssumption DEF Room
<1>7. Cardinality(UnderWay) + Cardinality(Sending)' <= spent.flows
  BY <1>2, <1>4, <1>6
<1>8. spent'.ids + Cardinality(UnderWay) + Cardinality(Sending)' <= MaxIds - MaxFlows + spent.flows
  <2>1. CASE spent'.ids = spent.ids
    BY <1>2, <1>4, <1>6, <2>1
  <2>2. CASE spent'.ids = spent.ids + 1
    <3> DEFINE i == spent.ids
               u == Cardinality(UnderWay)
               s == Cardinality(Sending)
               t == Cardinality(Sending)'
               most == MaxIds - MaxFlows + spent.flows
    <3>1. i \in Nat /\ u \in Nat /\ s \in Nat /\ t \in Nat /\ most \in Int
          /\ t <= s - 1 /\ i + u + s <= most
      BY <1>2, <1>4, <1>6
    <3> HIDE DEF i, u, s, t, most
    <3>2. i + 1 + u + t <= most
      BY <3>1
    <3> QED
      BY <2>2, <3>2 DEF i, u, s, t, most
  <2> QED
    BY <1>3, <2>1, <2>2
<1> QED
  BY <1>1, <1>2, <1>3, <1>5, <1>7, <1>8 DEF Room

\* An offline account draws an id only if enough are left.
LEMMA RoomToAdd ==
    ASSUME Inv, Room, NEW n, NEW fails \in BOOLEAN, SubmitOfflineNickname(n, fails)
    PROVE  Room'
<1> DEFINE a == [user |-> n, access |-> n, refresh |-> NoToken]
<1>1. UnderWay' = UnderWay /\ Sending' = Sending
  BY DEF UnderWay, Active, Sending, SubmitOfflineNickname, flows
<1>2. /\ InsertAccount(Offline, a, fails, 1) /\ spent.edits < MaxEdits
      /\ IdOf(Offline) <= MaxIds - MaxFlows
  BY DEF SubmitOfflineNickname, MayEdit
<1> HIDE DEF a
<1>3. /\ spent'.ids \in {spent.ids, spent.ids + 1}
      /\ spent'.ids = spent.ids + 1 => IdOf(Offline) = spent.ids + 1
      /\ spent'.flows = spent.flows /\ spent'.edits = spent.edits + 1
      /\ spent'.mishaps = IF fails THEN spent.mishaps + 1 ELSE spent.mishaps
      /\ fails => spent.mishaps < MaxMishaps
  BY <1>2, InsertDraws DEF Inv
<1>4. spent.flows \in Nat /\ spent.ids \in Nat /\ spent.edits \in Nat /\ spent.mishaps \in Nat
  BY SpentMore DEF Inv
<1> HIDE DEF UnderWay, Sending
<1>5. spent'.edits <= MaxEdits /\ spent'.mishaps <= MaxMishaps
  BY <1>2, <1>3, <1>4, AccountsAssumption DEF Room
<1>6. spent'.ids = spent.ids \/ spent'.ids <= MaxIds - MaxFlows
  BY <1>2, <1>3, <1>4
<1>7. Cardinality(UnderWay) \in Nat /\ Cardinality(Sending) \in Nat
  BY RoomIsLeft
<1>8. spent'.ids + Cardinality(UnderWay) + Cardinality(Sending) <= MaxIds - MaxFlows + spent.flows
  <2>1. CASE spent'.ids = spent.ids
    BY <2>1 DEF Room
  <2>2. CASE spent'.ids <= MaxIds - MaxFlows
    <3>1. spent'.ids \in Nat
      BY <1>3, <1>4
    <3> QED
      BY <2>2, <3>1, <1>4, <1>7, AccountsAssumption DEF Room
  <2> QED
    BY <1>6, <2>1, <2>2
<1> QED
  BY <1>1, <1>3, <1>5, <1>8 DEF Room

\* The keys of the accounts are keys.
LEMMA KeysAreKeys ==
    ASSUME Inv, Room
    PROVE  Keys \subseteq Key
<1>1. accounts \in Seq(Entry) /\ DOMAIN providers \subseteq 1 .. spent.ids
      /\ DOMAIN providers = UsedBy(accounts)
  BY DEF Inv, StoredInv, Safe, Memory, Sound
<1>2. spent.ids \in Nat /\ spent.ids <= MaxIds /\ MaxIds \in Nat
  BY RoomIsLeft, AccountsAssumption
<1>3. ASSUME NEW n \in DOMAIN accounts PROVE accounts[n].key \in Key
  <2>1. accounts[n] \in Entry
    BY <1>1
  <2>2. accounts[n].key \in Nat \X Name
    BY <2>1 DEF Entry
  <2>3. accounts[n].key[1] \in Id
    <3>1. accounts[n].key[1] \in UsedBy(accounts)
      BY DEF UsedBy
    <3>2. accounts[n].key[1] \in 1 .. spent.ids
      BY <1>1, <3>1
    <3> QED
      BY <1>2, <3>2 DEF Id
  <2> QED
    BY <2>2, <2>3 DEF Key
<1> QED
  BY <1>3 DEF Keys

\* The room, whatever the user does.
LEMMA RoomForUser == Inv /\ Room /\ User => Room'
<1> SUFFICES ASSUME Inv, Room, User PROVE Room'
  OBVIOUS
<1>0. StoredInv /\ FlowInv /\ EventInv
  BY DEF Inv
<1>1. ASSUME UNCHANGED events
      PROVE  Sending' = Sending /\ IsFiniteSet(Sending') /\ Cardinality(Sending)' \in Nat
             /\ Cardinality(Sending)' <= Cardinality(Sending)
  <2>1. Sending' = Sending
    BY <1>1 DEF Sending
  <2> HIDE DEF Sending
  <2> QED
    BY <2>1, RoomIsLeft DEF Room
<1>2. ASSUME UNCHANGED flow PROVE UnderWay' \subseteq UnderWay
  BY <1>2 DEF UnderWay, Active
<1>3. ASSUME NEW n \in Name, NEW fails \in BOOLEAN, SubmitOfflineNickname(n, fails) PROVE Room'
  BY <1>3, RoomToAdd
<1>4. ASSUME NEW k, NEW fails \in BOOLEAN, NEW done \in SUBSET Instance,
             RemoveAccount(k, fails, IF CanFail THEN done ELSE Instance)
      PROVE  Room'
  <2> DEFINE some == IF CanFail THEN done ELSE Instance
             late == IF fails \/ some # Instance THEN spent.mishaps + 1 ELSE spent.mishaps
             more == spent.edits + 1
  <2>1. /\ spent.edits < MaxEdits
        /\ spent' = [spent EXCEPT !.edits = more, !.mishaps = late]
        /\ fails => CanFail
        /\ UNCHANGED <<flow, events>>
    BY <1>4 DEF RemoveAccount, MayEdit, Save, flows
  <2>2. late # spent.mishaps => spent.mishaps < MaxMishaps
    BY <2>1 DEF CanFail
  <2>3. late \in {spent.mishaps, spent.mishaps + 1}
    OBVIOUS
  <2> HIDE DEF late, some, more
  <2>4. /\ spent'.ids = spent.ids /\ spent'.flows = spent.flows
        /\ spent'.edits = more /\ spent'.mishaps = late
    BY <1>0, <2>1 DEF StoredInv
  <2>5. spent'.edits <= MaxEdits /\ spent'.mishaps <= MaxMishaps
    BY <1>0, <2>1, <2>2, <2>3, <2>4, SpentMore, AccountsAssumption DEF Room, more
  <2> QED
    BY <1>1, <1>2, <2>1, <2>4, <2>5, RoomStays
<1>5. ASSUME NEW i \in Instance, NEW k, SetOverride(i, k) \/ SetSelected(i, k) PROVE Room'
  <2>1. spent.edits < MaxEdits /\ spent' = Spent("edits") /\ UNCHANGED <<flow, events>>
    BY <1>5 DEF SetOverride, SetSelected, MayEdit, flows
  <2>2. spent'.edits <= MaxEdits /\ spent'.mishaps <= MaxMishaps
        /\ spent'.ids = spent.ids /\ spent'.flows = spent.flows
    BY <1>0, <2>1, SpentMore, AccountsAssumption DEF Room
  <2> QED
    BY <1>1, <1>2, <2>1, <2>2, RoomStays
<1>6. ASSUME NEW p \in Config, StartAddAccount(p) PROVE Room'
  BY <1>6, RoomToBegin DEF StartAddAccount, Owner
<1>7. ASSUME NEW i \in Instance, NEW kind, Start(i, kind) PROVE Room'
  <2>1. UNCHANGED events
    BY <1>7 DEF Start
  <2>2. CASE UNCHANGED <<flows, spent>>
    BY <1>2, <2>1, <2>2, RoomSame DEF flows
  <2>3. ASSUME NEW p \in Config, NEW a \in OwnData, Begin(i, p, a) PROVE Room'
    BY <2>1, <2>3, RoomToBegin DEF Owner
  <2> QED
    BY <1>0, <1>7, <2>2, <2>3, StartBegins
<1>8. ASSUME CancelAuth PROVE Room'
  <2>1. UNCHANGED <<events, spent>>
    BY <1>8 DEF CancelAuth
  <2>2. UNCHANGED flow \/ \E c \in Owner : Quits(c)
    <3>1. UNCHANGED flow \/ Quits(authInstance)
      BY <1>8 DEF CancelAuth, flows
    <3>2. ASSUME Quits(authInstance), authInstance \notin Owner PROVE UNCHANGED flow
      BY <1>0, <3>2 DEF Quits, FlowInv
    <3> QED
      BY <3>1, <3>2
  <2>3. UnderWay' \subseteq UnderWay
    BY <1>0, <1>2, <2>2, UnderWayNext
  <2> QED
    BY <2>1, <2>3, RoomSame
<1> QED
  BY <1>3, <1>4, <1>5, <1>6, <1>7, <1>8 DEF User

\* The room, whatever the flows do.
LEMMA RoomForTasks == Inv /\ Room /\ Tasks => Room'
<1> SUFFICES ASSUME Inv, Room, Tasks PROVE Room'
  OBVIOUS
<1>0. StoredInv /\ FlowInv /\ EventInv
  BY DEF Inv
<1>1. ASSUME NEW c \in Owner, ShowPrompt(c) \/ ClearPrompt(c)
      PROVE  IsFiniteSet(Sending') /\ Cardinality(Sending)' \in Nat
             /\ Cardinality(Sending)' <= Cardinality(Sending)
  <2>1. CASE UNCHANGED events
    <3>1. Sending' = Sending
      BY <2>1 DEF Sending
    <3> HIDE DEF Sending
    <3> QED
      BY <3>1, RoomIsLeft DEF Room
  <2>2. ASSUME NEW o, events' = Append(events, [type |-> "AuthLaunchPrompt", instance |-> o])
        PROVE  IsFiniteSet(Sending') /\ Cardinality(Sending)' \in Nat
               /\ Cardinality(Sending)' <= Cardinality(Sending)
    <3> DEFINE e == [type |-> "AuthLaunchPrompt", instance |-> o]
    <3>1. ~IsResult(e)
      BY DEF IsResult
    <3> HIDE DEF e
    <3> QED
      BY <1>0, <2>2, <3>1, SentLast DEF e
  <2> QED
    BY <1>1, <2>1, <2>2 DEF ShowPrompt, ClearPrompt
<1>2. ASSUME UNCHANGED events
      PROVE  Sending' = Sending /\ IsFiniteSet(Sending') /\ Cardinality(Sending)' \in Nat
             /\ Cardinality(Sending)' <= Cardinality(Sending)
  <2>1. Sending' = Sending
    BY <1>2 DEF Sending
  <2> HIDE DEF Sending
  <2> QED
    BY <2>1, RoomIsLeft DEF Room
<1>3. ASSUME UnderWay' \subseteq UnderWay, UNCHANGED spent,
             IsFiniteSet(Sending'), Cardinality(Sending)' \in Nat,
             Cardinality(Sending)' <= Cardinality(Sending)
      PROVE  Room'
  BY <1>3, RoomStays DEF Room
<1>4. ASSUME NEW c \in Owner, Ask(c) \/ Answer(c) \/ Refresh(c) \/ LookUp(c) PROVE Room'
  <2>1. \E next : Active(c) /\ Moves(c, next)
    BY <1>4 DEF Ask, Answer, Refresh, LookUp, MayStep
  <2>2. UNCHANGED spent /\ (ShowPrompt(c) \/ ClearPrompt(c) \/ UNCHANGED events)
    BY <1>4 DEF Ask, Answer, Refresh, LookUp
  <2>3. UnderWay' \subseteq UnderWay
    BY <1>0, <2>1, UnderWayNext
  <2> QED
    BY <1>1, <1>2, <1>3, <2>2, <2>3
<1>5. ASSUME NEW c \in Owner, Succeed(c) PROVE Room'
  <2>1. c \in UnderWay /\ Quits(c) /\ UNCHANGED spent
    BY <1>5 DEF Succeed, MayStep, UnderWay
  <2>2. UnderWay' \subseteq UnderWay \ {c}
    BY <1>0, <2>1, UnderWayNext
  <2>3. UNCHANGED events \/ \E e : events' = Append(events, e)
    BY <1>5 DEF Succeed
  <2>4. IsFiniteSet(Sending') /\ Cardinality(Sending)' \in Nat
        /\ Cardinality(Sending)' <= Cardinality(Sending) + 1
    <3>1. CASE UNCHANGED events
      <4>1. Cardinality(Sending) \in Nat
        BY RoomIsLeft
      <4> QED
        BY <1>2, <3>1, <4>1
    <3>2. ASSUME NEW e, events' = Append(events, e)
          PROVE  IsFiniteSet(Sending') /\ Cardinality(Sending)' \in Nat
                 /\ Cardinality(Sending)' <= Cardinality(Sending) + 1
      BY <1>0, <3>2, SentLast
    <3> QED
      BY <2>3, <3>1, <3>2
  <2>5. IsFiniteSet(UnderWay') /\ Cardinality(UnderWay') \in Nat
        /\ Cardinality(UnderWay') <= Cardinality(UnderWay) - 1
    <3> HIDE DEF UnderWay
    <3> QED
      BY <2>1, <2>2, OneLess DEF Room
  <2> HIDE DEF UnderWay, Sending
  <2> DEFINE u == Cardinality(UnderWay)
             s == Cardinality(Sending)
             v == Cardinality(UnderWay')
             t == Cardinality(Sending)'
             i == spent.ids
             f == spent.flows
             most == MaxIds - MaxFlows + spent.flows
  <2>6. /\ i \in Nat /\ f \in Nat /\ u \in Nat /\ s \in Nat /\ v \in Nat /\ t \in Nat /\ most \in Int
        /\ v <= u - 1 /\ t <= s + 1 /\ u + s <= f /\ i + u + s <= most
    BY <2>4, <2>5, RoomIsLeft, AccountsAssumption DEF Room
  <2> HIDE DEF u, s, v, t, i, f, most
  <2>7. v + t <= f /\ i + v + t <= most
    BY <2>6
  <2> QED
    BY <2>1, <2>4, <2>5, <2>7 DEF Room, v, t, i, f, most
<1>6. ASSUME NEW c \in Owner, NEW error, Fail(c, error) PROVE Room'
  <2>1. Quits(c) /\ UNCHANGED spent
    BY <1>6 DEF Fail
  <2>2. UnderWay' \subseteq UnderWay
    BY <1>0, <2>1, UnderWayNext
  <2>3. \/ events' = Append(events, [type |-> "AddAccountFailed"])
        \/ ClearPrompt(c) \/ UNCHANGED events
    BY <1>6 DEF Fail
  <2>4. ~IsResult([type |-> "AddAccountFailed"])
    BY DEF IsResult
  <2>5. events' = Append(events, [type |-> "AddAccountFailed"])
           => IsFiniteSet(Sending') /\ Cardinality(Sending)' \in Nat
              /\ Cardinality(Sending)' <= Cardinality(Sending)
    BY <1>0, <2>4, SentLast
  <2> QED
    BY <1>1, <1>2, <1>3, <2>1, <2>2, <2>3, <2>5
<1>7. ASSUME DropAdd PROVE Room'
  <2>1. Quits(Add) /\ UNCHANGED spent /\ events' = Append(events, [type |-> "AddAccountCancelled"])
        /\ Add \in Owner
    BY <1>7 DEF DropAdd, Owner
  <2>2. UnderWay' \subseteq UnderWay
    BY <1>0, <2>1, UnderWayNext
  <2>3. ~IsResult([type |-> "AddAccountCancelled"])
    BY DEF IsResult
  <2>4. IsFiniteSet(Sending') /\ Cardinality(Sending)' \in Nat
        /\ Cardinality(Sending)' <= Cardinality(Sending)
    BY <1>0, <2>1, <2>3, SentLast
  <2> QED
    BY <1>3, <2>1, <2>2, <2>4
<1>8. ASSUME NEW i \in Instance, Goes(i) PROVE Room'
  <2>1. UnderWay' = UnderWay
    BY <1>8 DEF Goes, flows, UnderWay, Active
  <2> QED
    BY <1>8, <2>1, RoomSame DEF Goes
<1> QED
  BY <1>4, <1>5, <1>6, <1>7, <1>8 DEF Tasks

\* The room, whatever the loop handles, after a restart and with the world around.
LEMMA RoomForRest ==
    Inv /\ Room /\ (Handlers \/ Restart \/ \E i \in Instance, p \in Config \cup {NoProvider} : Republish(i, p))
       => Room'
<1> SUFFICES ASSUME Inv, Room,
                    Handlers \/ Restart \/ \E i \in Instance, p \in Config \cup {NoProvider} : Republish(i, p)
             PROVE  Room'
  OBVIOUS
<1>0. StoredInv /\ FlowInv /\ EventInv
  BY DEF Inv
<1>1. ASSUME UNCHANGED flow PROVE UnderWay' = UnderWay
  BY <1>1 DEF UnderWay, Active
<1>2. ASSUME NEW fails \in BOOLEAN, HandleAddAccountFinished(fails) \/ HandleAccountUpdated(fails)
      PROVE  Room'
  <2>1. /\ InsertAccount(Head(events).provider, Head(events).account, fails, 0)
        /\ events # <<>> /\ events' = Tail(events) /\ IsResult(Head(events)) /\ UNCHANGED flow
    BY <1>2 DEF HandleAddAccountFinished, HandleAccountUpdated, Receive, IsResult, flows
  <2> QED
    BY <2>1, RoomToHandle
<1>3. ASSUME HandleAddAccountEnded \/ HandleAuthLaunchPrompt PROVE Room'
  <2>1. events # <<>> /\ events' = Tail(events) /\ UNCHANGED flow /\ UNCHANGED spent
    BY <1>3 DEF HandleAddAccountEnded, HandleAuthLaunchPrompt, Receive, flows
  <2>2. IsFiniteSet(Sending') /\ Cardinality(Sending)' \in Nat
        /\ Cardinality(Sending)' <= Cardinality(Sending)
    BY <1>0, <2>1, HandledFirst
  <2> QED
    BY <1>1, <2>1, <2>2, RoomStays DEF Room
<1>4. ASSUME Restart PROVE Room'
  <2>1. UnderWay' = {} /\ Sending' = {}
    BY <1>4 DEF Restart, UnderWay, Active, Sending
  <2>2. IsFiniteSet({}) /\ Cardinality({}) = 0
    BY FS_EmptySet
  <2>3. spent.mishaps < MaxMishaps /\ spent' = Spent("mishaps")
    BY <1>4 DEF Restart, CanFail
  <2>4. spent'.edits <= MaxEdits /\ spent'.mishaps <= MaxMishaps
        /\ spent'.ids = spent.ids /\ spent'.flows = spent.flows
    BY <1>0, <2>3, SpentMore, AccountsAssumption DEF Room
  <2>5. 0 <= Cardinality(Sending)
    BY RoomIsLeft
  <2> HIDE DEF UnderWay, Sending
  <2> QED
    BY <2>1, <2>2, <2>4, <2>5, RoomStays
<1>5. ASSUME NEW i \in Instance, NEW p, Republish(i, p) PROVE Room'
  <2>1. spent.mishaps < MaxMishaps /\ spent' = Spent("mishaps") /\ UNCHANGED <<flow, events>>
    BY <1>5 DEF Republish, CanFail, flows
  <2>2. spent'.edits <= MaxEdits /\ spent'.mishaps <= MaxMishaps
        /\ spent'.ids = spent.ids /\ spent'.flows = spent.flows
    BY <1>0, <2>1, SpentMore, AccountsAssumption DEF Room
  <2>3. Sending' = Sending
    BY <2>1 DEF Sending
  <2>4. IsFiniteSet(Sending) /\ Cardinality(Sending) \in Nat
    BY RoomIsLeft DEF Room
  <2> HIDE DEF UnderWay, Sending
  <2> QED
    BY <1>1, <2>1, <2>2, <2>3, <2>4, RoomStays
<1> QED
  BY <1>2, <1>3, <1>4, <1>5 DEF Handlers

\* The file is the record that is in memory, or what was there.
LEMMA SaveShapes ==
    ASSUME NEW fails, Save(fails), Chosen
    PROVE  disk' = Gone \/ disk' = [providers |-> disk'.providers, accounts |-> disk'.accounts]
<1>1. disk' = [providers |-> providers', accounts |-> accounts'] \/ disk' \in {disk, Gone}
  BY DEF Save
<1> QED
  BY <1>1 DEF Chosen

\* What is chosen, with all that is needed to choose it.
LEMMA ChosenKeeps == Inv /\ Chosen /\ Room /\ Next => Chosen'
<1> SUFFICES ASSUME Inv, Chosen, Room, Next PROVE Chosen'
  OBVIOUS
<1>1. Keys \subseteq Key /\ offered \subseteq Key
  BY KeysAreKeys DEF Chosen
<1>2. ASSUME NEW p, NEW a, NEW fails, NEW edits, InsertAccount(p, a, fails, edits),
             UNCHANGED <<settings, required>>
      PROVE  Chosen'
  <2>1. offered' = {} /\ Save(fails)
    BY <1>2 DEF InsertAccount
  <2> QED
    BY <1>2, <2>1, SaveShapes DEF Chosen
<1>3. ASSUME UNCHANGED <<stored, settings, required>> PROVE Chosen'
  BY <1>3 DEF Chosen, stored
<1>4. ASSUME NEW k \in Keys \cup offered, NEW fails, NEW done, RemoveAccount(k, fails, done)
      PROVE  Chosen'
  <2>1. offered' \subseteq Key /\ Save(fails) /\ required' = required
        /\ settings' \in {settings, Cleared(k, done)}
    BY <1>1, <1>4 DEF RemoveAccount
  <2>2. Cleared(k, done) \in [Instance -> [selected : Key \cup {NoKey}, override : Key \cup {NoKey}]]
    BY DEF Cleared, Chosen
  <2> QED
    BY <2>1, <2>2, SaveShapes DEF Chosen
<1>5. ASSUME NEW i \in Instance, NEW k \in Keys \cup offered \cup {NoKey},
             SetOverride(i, k) \/ SetSelected(i, k)
      PROVE  Chosen'
  <2>1. k \in Key \cup {NoKey}
    BY <1>1
  <2> DEFINE over == [selected |-> settings[i].selected, override |-> k]
             select == [selected |-> k, override |-> IF k # NoKey THEN NoKey ELSE settings[i].override]
  <2>2. over \in [selected : Key \cup {NoKey}, override : Key \cup {NoKey}]
        /\ select \in [selected : Key \cup {NoKey}, override : Key \cup {NoKey}]
    BY <2>1 DEF Chosen
  <2>3. settings' = [settings EXCEPT ![i] = over] \/ settings' = [settings EXCEPT ![i] = select]
    <3>1. CASE SetOverride(i, k)
      <4>1. settings' = [settings EXCEPT ![i].override = k]
        BY <3>1 DEF SetOverride
      <4>2. settings[i] = [selected |-> settings[i].selected, override |-> settings[i].override]
        BY DEF Chosen
      <4>3. [settings[i] EXCEPT !.override = k] = over
        BY <4>2
      <4> QED
        BY <4>1, <4>3
    <3>2. CASE SetSelected(i, k)
      BY <3>2 DEF SetSelected
    <3> QED
      BY <1>5, <3>1, <3>2
  <2>4. UNCHANGED <<stored, required>>
    BY <1>5 DEF SetOverride, SetSelected
  <2> HIDE DEF over, select
  <2> QED
    BY <2>2, <2>3, <2>4 DEF Chosen, stored
<1>6. CASE User
  <2>1. ASSUME NEW n, NEW fails, SubmitOfflineNickname(n, fails) PROVE Chosen'
    BY <1>2, <2>1 DEF SubmitOfflineNickname
  <2>2. ASSUME NEW p, StartAddAccount(p) PROVE Chosen'
    BY <1>3, <2>2 DEF StartAddAccount
  <2>3. ASSUME NEW i, NEW kind, Start(i, kind) PROVE Chosen'
    BY <1>3, <2>3 DEF Start
  <2>4. ASSUME CancelAuth PROVE Chosen'
    BY <1>3, <2>4 DEF CancelAuth
  <2> QED
    BY <1>4, <1>5, <1>6, <2>1, <2>2, <2>3, <2>4 DEF User
<1>7. CASE Tasks
  BY <1>3, <1>7 DEF Tasks, Ask, Answer, Refresh, LookUp, Succeed, Fail, DropAdd, Goes
<1>8. CASE Handlers
  <2>1. ASSUME NEW fails, HandleAddAccountFinished(fails) \/ HandleAccountUpdated(fails) PROVE Chosen'
    BY <1>2, <2>1 DEF HandleAddAccountFinished, HandleAccountUpdated
  <2>2. ASSUME HandleAddAccountEnded \/ HandleAuthLaunchPrompt PROVE Chosen'
    BY <1>3, <2>2 DEF HandleAddAccountEnded, HandleAuthLaunchPrompt
  <2> QED
    BY <1>8, <2>1, <2>2 DEF Handlers
<1>9. CASE Restart
  BY <1>9 DEF Restart, Chosen
<1>10. ASSUME NEW i \in Instance, NEW p \in Config \cup {NoProvider}, Republish(i, p) PROVE Chosen'
  BY <1>10 DEF Republish, Chosen, stored
<1> QED
  BY <1>6, <1>7, <1>8, <1>9, <1>10 DEF Next

\* Who is shown what.
LEMMA PromptingKeeps == Inv /\ Prompting /\ Next => Prompting'
<1> SUFFICES ASSUME Inv, Prompting, Next PROVE Prompting'
  OBVIOUS
<1>1. ASSUME UNCHANGED <<adding, prompt>> PROVE Prompting'
  BY <1>1 DEF Prompting, adding, prompt
<1>2. CASE User
  <2>1. ASSUME NEW p, StartAddAccount(p) PROVE Prompting'
    BY <2>1 DEF StartAddAccount, Prompting, prompt
  <2>2. ASSUME CancelAuth PROVE Prompting'
    BY <2>2 DEF CancelAuth, Prompting, prompt, adding
  <2> QED
    BY <1>1, <1>2, <2>1, <2>2 DEF User, SubmitOfflineNickname, RemoveAccount, SetOverride, SetSelected, Start
<1>3. CASE Tasks
  <2>1. ASSUME NEW c \in Owner, ShowPrompt(c) \/ ClearPrompt(c) \/ UNCHANGED shown,
               UNCHANGED <<adding, authInstance>>
        PROVE  Prompting'
    BY <2>1 DEF ShowPrompt, ClearPrompt, Prompting, adding
  <2>2. ASSUME NEW c \in Owner, Ask(c) \/ Answer(c) PROVE Prompting'
    BY <2>1, <2>2 DEF Ask, Answer
  <2>3. ASSUME NEW c \in Owner, NEW error, Fail(c, error) PROVE Prompting'
    BY <2>1, <2>3 DEF Fail
  <2> QED
    BY <1>1, <1>3, <2>2, <2>3 DEF Tasks, Refresh, LookUp, Succeed, DropAdd, Goes
<1>4. CASE Handlers
  <2>1. ASSUME EndAdd PROVE Prompting'
    BY <2>1 DEF EndAdd, Prompting
  <2>2. ASSUME NEW fails, HandleAccountUpdated(fails) PROVE Prompting'
    BY <1>1, <2>2 DEF HandleAccountUpdated
  <2>3. ASSUME HandleAuthLaunchPrompt PROVE Prompting'
    <3>1. Head(events) \in Results \cup Others /\ Head(events).type = "AuthLaunchPrompt"
      BY <2>3, Taken DEF HandleAuthLaunchPrompt, Receive, Inv
    <3>2. Head(events).instance \in Instance \cup {NoOne}
      BY <3>1 DEF Results, Others
    <3> QED
      BY <2>3, <3>2 DEF HandleAuthLaunchPrompt, Prompting, adding
  <2> QED
    BY <1>4, <2>1, <2>2, <2>3 DEF Handlers, HandleAddAccountFinished, HandleAddAccountEnded
<1>5. CASE Restart
  BY <1>5 DEF Restart, Prompting
<1>6. ASSUME NEW i, NEW p, Republish(i, p) PROVE Prompting'
  BY <1>1, <1>6 DEF Republish
<1> QED
  BY <1>2, <1>3, <1>4, <1>5, <1>6 DEF Next

\* A flow that begins for an instance that was idle.
LEMMA RunningBegins ==
    ASSUME Inv, Running, NEW i \in Instance, NEW kind \in {"Install", "LaunchPrep"},
           NEW p, NEW a \in OwnData, Begin(i, p, a), activity' = [activity EXCEPT ![i] = kind]
    PROVE  Running'
<1>1. a \in AccountData /\ i \in Owner
  BY DEF OwnData, Owner
<1>2. /\ activity' \in [Instance -> {"Idle", "Install", "LaunchPrep", "Running"}]
      /\ used' \in [Owner -> AccountData \cup {NoUse}]
  BY <1>1 DEF Running, Begin
<1>3. used'[i] \in AccountData /\ activity'[i] \in {"Install", "LaunchPrep"}
  BY <1>1 DEF Running, Begin
<1>4. ASSUME NEW j \in Instance \ {i}, Active(j)'
      PROVE  used'[j] \in AccountData /\ activity'[j] \in {"Install", "LaunchPrep"}
  <2>1. Active(j) /\ used'[j] = used[j] /\ activity'[j] = activity[j]
    BY <1>1, <1>4 DEF Inv, FlowInv, Begin, Active, Running, Owner
  <2> QED
    BY <2>1 DEF Running
<1> QED
  BY <1>2, <1>3, <1>4 DEF Running

\* Flows that end or go on, of instances that stay as they are or become idle.
LEMMA RunningStays ==
    ASSUME Inv, Running, NEW c \in Owner,
           \/ UNCHANGED <<flow, used>>
           \/ Active(c) /\ \E next : Moves(c, next)
           \/ Quits(c),
           \/ UNCHANGED activity
           \/ ~Active(c)' /\ \E kind \in {"Idle", "Install", "LaunchPrep", "Running"} :
                                activity' = [activity EXCEPT ![c] = kind]
    PROVE  Running'
<1>1. /\ activity' \in [Instance -> {"Idle", "Install", "LaunchPrep", "Running"}]
      /\ used' \in [Owner -> AccountData \cup {NoUse}]
  BY DEF Running, Moves, Quits
<1>2. ASSUME NEW j \in Instance, Active(j)'
      PROVE  used'[j] \in AccountData /\ activity'[j] \in {"Install", "LaunchPrep"}
  <2>1. Active(j) /\ used'[j] = used[j]
    BY <1>2 DEF Inv, FlowInv, Moves, Quits, Active, Running, Owner
  <2>2. activity'[j] = activity[j]
    BY <1>2 DEF Running
  <2> QED
    BY <2>1, <2>2 DEF Running
<1> QED
  BY <1>1, <1>2 DEF Running

\* The instances that authenticate.
LEMMA RunningKeeps == Inv /\ Running /\ Next => Running'
<1> SUFFICES ASSUME Inv, Running, Next PROVE Running'
  OBVIOUS
<1>1. ASSUME UNCHANGED <<activity, flows>> PROVE Running'
  BY <1>1 DEF Running, flows, Active
<1>2. ASSUME NEW c \in Owner, Quits(c) PROVE ~Active(c)'
  BY <1>2 DEF Quits, Active, Inv, FlowInv
<1>3. CASE User
  <2>1. ASSUME NEW p \in Config, StartAddAccount(p) PROVE Running'
    <3>1. UNCHANGED activity /\ Begin(Add, p, NoUse) /\ Add \in Owner
      BY <2>1 DEF StartAddAccount, Owner
    <3>2. used' \in [Owner -> AccountData \cup {NoUse}]
      BY <3>1 DEF Begin, Running
    <3>3. \A j \in Instance : Active(j)' => Active(j) /\ used'[j] = used[j]
      BY <3>1, AccountsAssumption DEF Begin, Active, Inv, FlowInv, Running, Owner
    <3> QED
      BY <3>1, <3>2, <3>3 DEF Running
  <2>2. ASSUME NEW i \in Instance, NEW kind \in {"Install", "LaunchPrep"}, Start(i, kind) PROVE Running'
    <3>1. activity[i] = "Idle" /\ activity' = [activity EXCEPT ![i] = kind] /\ StoredInv
      BY <2>2 DEF Start, Inv
    <3>2. CASE UNCHANGED <<flows, spent>>
      <4>1. UNCHANGED <<flow, used>> /\ ~Active(i) /\ i \in Owner
        BY <3>1, <3>2 DEF flows, Running, Owner
      <4>2. ~Active(i)'
        BY <4>1 DEF Active
      <4> QED
        BY <3>1, <4>1, <4>2, RunningStays
    <3>3. ASSUME NEW p \in Config, NEW a \in OwnData, Begin(i, p, a) PROVE Running'
      BY <3>1, <3>3, RunningBegins
    <3> QED
      BY <2>2, <3>1, <3>2, <3>3, StartBegins
  <2>3. ASSUME CancelAuth PROVE Running'
    <3>1. CASE UNCHANGED <<activity, flows>>
      BY <1>1, <3>1
    <3>2. CASE /\ activity[authInstance] \in {"Install", "LaunchPrep"} /\ Quits(authInstance)
               /\ activity' = [activity EXCEPT ![authInstance] = "Idle"]
      <4>1. CASE authInstance \in Owner
        BY <1>2, <3>2, <4>1, RunningStays
      <4>2. CASE authInstance \notin Owner
        <5>1. UNCHANGED <<activity, flow, used>>
          BY <3>2, <4>2 DEF Quits, Inv, FlowInv, Running, Owner
        <5> QED
          BY <5>1, RunningStays DEF Owner
      <4> QED
        BY <4>1, <4>2
    <3> QED
      BY <2>3, <3>1, <3>2 DEF CancelAuth
  <2> QED
    BY <1>1, <1>3, <2>1, <2>2, <2>3 DEF User, SubmitOfflineNickname, RemoveAccount, SetOverride, SetSelected
<1>4. CASE Tasks
  <2>1. ASSUME NEW c \in Owner, Ask(c) \/ Answer(c) \/ Refresh(c) \/ LookUp(c) PROVE Running'
    <3>1. UNCHANGED activity /\ Active(c) /\ \E next : Moves(c, next)
      BY <2>1 DEF Ask, Answer, Refresh, LookUp, MayStep
    <3> QED
      BY <3>1, RunningStays
  <2>2. ASSUME NEW c \in Owner, Succeed(c) PROVE Running'
    BY <2>2, RunningStays DEF Succeed
  <2>3. ASSUME NEW c \in Owner, NEW error, Fail(c, error) PROVE Running'
    <3>1. Quits(c) /\ (UNCHANGED activity \/ activity' = [activity EXCEPT ![c] = "Idle"])
      BY <2>3 DEF Fail
    <3> QED
      BY <1>2, <3>1, RunningStays
  <2>4. ASSUME DropAdd PROVE Running'
    BY <2>4, RunningStays DEF DropAdd, Owner
  <2>5. ASSUME NEW i \in Instance, Goes(i) PROVE Running'
    <3> DEFINE kind == IF activity[i] = "LaunchPrep" THEN "Running" ELSE "Idle"
    <3>1. UNCHANGED <<flow, used>> /\ ~Active(i) /\ activity' = [activity EXCEPT ![i] = kind]
          /\ kind \in {"Idle", "Install", "LaunchPrep", "Running"} /\ i \in Owner
      BY <2>5 DEF Goes, flows, Owner
    <3>2. ~Active(i)'
      BY <3>1 DEF Active
    <3> HIDE DEF kind
    <3> QED
      BY <3>1, <3>2, RunningStays
  <2> QED
    BY <1>4, <2>1, <2>2, <2>3, <2>4, <2>5 DEF Tasks
<1>5. CASE Handlers
  BY <1>1, <1>5 DEF Handlers, HandleAddAccountFinished, HandleAccountUpdated, HandleAddAccountEnded,
     HandleAuthLaunchPrompt
<1>6. CASE Restart
  BY <1>6 DEF Restart, Running, Active, Owner
<1>7. ASSUME NEW i, NEW p, Republish(i, p) PROVE Running'
  BY <1>1, <1>7 DEF Republish
<1> QED
  BY <1>3, <1>4, <1>5, <1>6, <1>7 DEF Next

\* When the launcher is first started.
LEMMA TypingInitially == Init => Typing
<1> SUFFICES ASSUME Init PROVE Typing
  OBVIOUS
<1>1. Inv /\ Chosen /\ Prompting
  BY Initially DEF Init, Chosen, Prompting
<1>2. Running
  BY DEF Init, Running, Active, Owner
<1>3. Room
  <2>1. UnderWay = {} /\ Sending = {}
    BY DEF Init, UnderWay, Active, Sending
  <2>2. spent.ids = 0 /\ spent.flows = 0 /\ spent.edits = 0 /\ spent.mishaps = 0
    BY DEF Init
  <2> HIDE DEF UnderWay, Sending
  <2> QED
    BY <2>1, <2>2, FS_EmptySet, AccountsAssumption DEF Room
<1> QED
  BY <1>1, <1>2, <1>3 DEF Typing

\* It holds in every state.
LEMMA AlwaysTyped == Spec => []Typing
<1>1. Typing /\ [Next]_vars => Typing'
  <2> SUFFICES ASSUME Typing, [Next]_vars PROVE Typing'
    OBVIOUS
  <2>1. CASE Next
    <3>1. Inv'
      BY <2>1, UserKeeps, TasksKeep, RestKeeps DEF Next, Typing
    <3>2. Room'
      BY <2>1, RoomForUser, RoomForTasks, RoomForRest DEF Next, Typing
    <3> QED
      BY <2>1, <3>1, <3>2, ChosenKeeps, PromptingKeeps, RunningKeeps DEF Typing
  <2>2. CASE UNCHANGED vars
    BY <2>2, Unchanged DEF Typing, Chosen, Running, Prompting, Room, UnderWay, Sending, Active,
       vars, stored, flows, adding, prompt
  <2> QED
    BY <2>1, <2>2
<1> QED
  BY TypingInitially, <1>1, PTL DEF Spec

\* A record in order is one of the file's.
LEMMA InOrder ==
    ASSUME NEW file, NEW t \in Nat, Safe(file, t), t <= MaxIds,
           file = [providers |-> file.providers, accounts |-> file.accounts]
    PROVE  file \in File
<1>1. /\ file.accounts \in Seq(Entry) /\ DOMAIN file.providers \subseteq 1 .. t
      /\ file.providers \in [DOMAIN file.providers -> Config]
      /\ DOMAIN file.providers = UsedBy(file.accounts)
  BY DEF Safe, Sound
<1>2. DOMAIN file.providers \subseteq Id
  BY <1>1, AccountsAssumption DEF Id
<1>3. file.providers \in UNION {[I -> Config] : I \in SUBSET Id}
  BY <1>1, <1>2
<1>4. file.accounts \in Seq([key : Key, access : Name, refresh : Token])
  <2>1. ASSUME NEW n \in DOMAIN file.accounts
        PROVE  file.accounts[n] \in [key : Key, access : Name, refresh : Token]
    <3>1. file.accounts[n] \in Entry
      BY <1>1
    <3>2. file.accounts[n].key \in Nat \X Name
      BY <3>1 DEF Entry
    <3>3. file.accounts[n].key[1] \in UsedBy(file.accounts)
      BY DEF UsedBy
    <3>4. file.accounts[n].key \in Key
      BY <1>1, <1>2, <3>2, <3>3 DEF Key
    <3> QED
      BY <3>1, <3>4 DEF Entry
  <2>2. ASSUME NEW S, NEW T, NEW s \in Seq(S), \A n \in DOMAIN s : s[n] \in T PROVE s \in Seq(T)
    BY <2>2
  <2> QED
    BY <1>1, <2>1, <2>2, Zenon
<1> QED
  BY <1>3, <1>4 DEF File

\* Types, for any users, configurations, instances and bounds; among them that an
\* instance authenticates only while it is being installed or launched, and with an
\* account of the storage (AuthStorageData, InstanceActivity, perform_auth).
THEOREM TypeCorrect == Spec => []TypeOK
<1>1. Typing => TypeOK
  <2> SUFFICES ASSUME Typing PROVE TypeOK
    OBVIOUS
  <2>0. Inv /\ Chosen /\ Running /\ Prompting /\ Room /\ StoredInv /\ FlowInv /\ EventInv
    BY DEF Typing, Inv
  <2>1. spent.ids \in Nat /\ spent.ids <= MaxIds
    BY <2>0, RoomIsLeft
  <2>2. Memory \in File
    <3>1. Memory = [providers |-> Memory.providers, accounts |-> Memory.accounts]
      BY DEF Memory
    <3> QED
      BY <2>0, <2>1, <3>1, InOrder DEF StoredInv
  <2>3. disk = Gone \/ disk \in File
    BY <2>0, <2>1, InOrder DEF StoredInv, Chosen
  <2>4. flow \in [Owner -> Flow \cup {NoFlow}]
    <3>1. Good \subseteq Flow
      BY DEF Good, Typed, Matched, Flow
    <3> QED
      BY <2>0, <3>1 DEF FlowInv
  <2>5. events \in Seq(Event)
    <3>1. Results \cup Others \subseteq Event
      BY DEF Results, Others, OwnData, Event
    <3>2. \A n \in DOMAIN events : events[n] \in Event
      BY <2>0, <3>1 DEF EventInv
    <3> QED
      BY <2>0, <3>2 DEF EventInv
  <2>6. spent \in [ids : 0 .. MaxIds, flows : 0 .. MaxFlows, edits : 0 .. MaxEdits,
                   mishaps : 0 .. MaxMishaps]
    <3>1. spent \in [ids : Nat, flows : Nat, edits : Nat, mishaps : Nat]
      BY <2>0 DEF StoredInv
    <3>2. spent.ids <= MaxIds /\ spent.flows <= MaxFlows /\ spent.edits <= MaxEdits
          /\ spent.mishaps <= MaxMishaps
      BY <2>0, <2>1 DEF Room
    <3> QED
      BY <3>1, <3>2, AccountsAssumption
  <2>7. \A c \in Owner : Active(c) => provider[c] \in Config
    BY <2>0 DEF FlowInv
  <2> QED
    BY <2>0, <2>2, <2>3, <2>4, <2>5, <2>6, <2>7 DEF TypeOK, Chosen, Running, Prompting
<1> QED
  BY <1>1, AlwaysTyped, PTL
=============================================================================
