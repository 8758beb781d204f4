-------------------------------- MODULE Dapp_proofs --------------------------------
(***************************************************************************)
(* Theorems about what the dapp keeps in the browser and in its store, for  *)
(* every set of accounts, browsers and polls and every number of commits.   *)
(* The assumptions are hypotheses of the theorems, since the modules are    *)
(* checked together with others.                                            *)
(***************************************************************************)
EXTENDS VoteSecrets, UserVotes, TransactionFlow, FiniteSetTheorems, TLAPS

------------------------------------------------------------------------------------
(* The secrets of votes. *)

OptionValues == {"none", "keep", "remove"}
Anyone       == Users \cup {Nobody}
AnySalt      == Salts \cup {None}
CommitPages  == [kind : {"commit"}, poll : Polls, review : BOOLEAN]
RevealPages  == [kind : {"reveal"}, poll : Polls, option : OptionValues, salt : AnySalt]
AnyPage      == {NoPage} \cup CommitPages \cup RevealPages
Commits ==
    [from : Browsers, poll : Polls, live : BOOLEAN, props : Anyone, reader : Anyone,
     phrase : AnySalt, savedFor : Anyone, salt : AnySalt, option : OptionValues,
     attempt : Nat, sender : Anyone]
HeldCommits ==
    [from : Browsers \cup {Nobody}, reader : Anyone, savedFor : Anyone, phrase : AnySalt,
     salt : AnySalt, option : OptionValues, attempt : Nat]

StorageTypes ==
    /\ drawn \in Nat /\ saves \in Nat
    /\ salt \in [Browsers -> [Polls -> [Users -> AnySalt]]]
    /\ option \in [Browsers -> [Polls -> [Users -> OptionValues]]]
    /\ saved \in [Browsers -> [Polls -> [Users -> Nat]]]
AccountTypes ==
    /\ account \in [Browsers -> Anyone] /\ prevAccount \in [Browsers -> Anyone]
    /\ lookups \in [Browsers -> SUBSET Anyone]
    /\ user \in [Browsers -> Anyone]
CommitTypes ==
    /\ commits \subseteq Commits
    /\ committed \in [Polls -> [Users -> HeldCommits]]
    /\ revealing \subseteq Polls
SecretsTypes ==
    /\ StorageTypes /\ AccountTypes /\ CommitTypes
    /\ page \in [Browsers -> AnyPage]
    /\ kept \in [Browsers -> BOOLEAN]

(* A vote that was saved agrees with the storage of its browser, up to an option  *)
(* saved later on, and with the phrase shown to the account it was saved for.     *)
Agrees(c, p) ==
    /\ c.from \in Browsers /\ c.salt # None /\ c.savedFor \in Users
    /\ c.attempt <= saves
    /\ kept[c.from] =>
           /\ salt[c.from][p][c.savedFor] = c.salt
           /\ c.attempt = saved[c.from][p][c.savedFor] => option[c.from][p][c.savedFor] = c.option
    /\ ShownFor[p] = p /\ c.reader = c.savedFor => c.phrase = c.salt

(* Before that, the phrase is still the one in the storage. *)
NotYetSaved(r) ==
    /\ r.sender = Nobody
    /\ r.reader # Nobody => /\ r.phrase # None
                            /\ salt[r.from][ShownFor[r.poll]][r.reader] = r.phrase

CommitAgrees(r) == IF r.salt = None THEN NotYetSaved(r) ELSE Agrees(r, r.poll)
CommitsAgree    == \A r \in commits : CommitAgrees(r)
CommittedAgree  ==
    \A p \in Polls, u \in Users : committed[p][u] = NoCommit \/ Agrees(committed[p][u], p)

(* What the reveal page shows is what the storage has for the account in the store; *)
(* its option is the one the contract holds, unless another was saved later on.      *)
RevealAgrees(b, p, u) ==
    LET cast == committed[p][u]
    IN  /\ page[b].salt # None /\ page[b].salt = salt[b][p][u]
        /\ kept[b] /\ cast.from = b /\ cast.savedFor = u /\ cast.attempt = saved[b][p][u] =>
               page[b].option = cast.option
PageAgrees(b) ==
    LET p == page[b].poll
        u == user[b]
    IN  /\ page[b].kind = "commit" /\ u # Nobody => salt[b][ShownFor[p]][u] # None
        /\ page[b].kind = "reveal" => p \in revealing /\ (u # Nobody => RevealAgrees(b, p, u))
PagesAgree == \A b \in Browsers : PageAgrees(b)

(* A run that is still shown has its page. *)
RunsHavePages == \A r \in commits : r.live => page[r.from].kind = "commit"

SecretsInv == SecretsTypes /\ CommitsAgree /\ CommittedAgree /\ PagesAgree

(* A step of the storage replaces no salt, and this is all that it does to it. *)
SaltsStay ==
    \A b \in Browsers, p \in Polls, u \in Users :
        salt[b][p][u] # None => salt'[b][p][u] = salt[b][p][u]
OnlySalts == SaltsStay /\ UNCHANGED <<option, saved, saves, kept>>

LEMMA NumberOfSalts == SecretsAssumption => None \notin Salts
  BY DEF SecretsAssumption, None, Salts

(* fetchSalt returns what the storage has from then on. *)
LEMMA FetchKeeps ==
    ASSUME SecretsAssumption, StorageTypes, NEW b \in Browsers, NEW p \in Polls,
           NEW u \in Anyone, NEW s, FetchSalt(b, p, u, s)
    PROVE  /\ drawn' \in Nat
           /\ salt' \in [Browsers -> [Polls -> [Users -> AnySalt]]]
           /\ SaltsStay
           /\ u # Nobody => s \in Salts /\ salt'[b][p][u] = s
           /\ u = Nobody => s = None
<1> USE NumberOfSalts DEF StorageTypes, Anyone, AnySalt
<1>1. CASE u = Nobody
  BY <1>1 DEF FetchSalt, SaltsStay
<1>2. CASE u # Nobody /\ salt[b][p][u] # None
  BY <1>2 DEF FetchSalt, SaltsStay
<1>3. CASE u # Nobody /\ salt[b][p][u] = None
  <2>1. /\ drawn < MaxSalts /\ s = drawn + 1 /\ drawn' = s
        /\ salt' = [salt EXCEPT ![b][p][u] = s]
    BY <1>3 DEF FetchSalt
  <2>2. s \in Salts /\ u \in Users
    BY <1>3, <2>1 DEF Salts, SecretsAssumption
  <2>3. QED
    BY <1>3, <2>1, <2>2 DEF SaltsStay
<1>4. QED
  BY <1>1, <1>2, <1>3

(* Commits and votes keep agreeing when nothing but salts is added. *)
LEMMA CommitStays ==
    ASSUME SecretsAssumption, SecretsInv, OnlySalts, NEW r \in Commits, CommitAgrees(r)
    PROVE  CommitAgrees(r)'
<1>1. r.poll \in Polls /\ r.from \in Browsers /\ r.reader \in Anyone /\ ShownFor[r.poll] \in Polls
  BY DEF Commits, SecretsAssumption
<1>2. CASE r.salt = None
  BY <1>1, <1>2 DEF CommitAgrees, NotYetSaved, OnlySalts, SaltsStay, Anyone
<1>3. CASE r.salt # None
  BY <1>1, <1>3 DEF CommitAgrees, Agrees, OnlySalts, SaltsStay
<1>4. QED
  BY <1>2, <1>3

LEMMA CommittedStay ==
    ASSUME SecretsInv, OnlySalts, UNCHANGED committed
    PROVE  CommittedAgree'
<1>1. ASSUME NEW c, NEW p \in Polls, Agrees(c, p) PROVE Agrees(c, p)'
  BY <1>1 DEF Agrees, OnlySalts, SaltsStay
<1>2. QED
  BY <1>1 DEF CommittedAgree, SecretsInv

(* A page that stays agrees, whatever else is saved, as the contract's votes of *)
(* polls that are being revealed stay.                                          *)
LEMMA PageStays ==
    ASSUME SecretsAssumption, SecretsInv, SaltsStay, NEW b \in Browsers,
           page'[b] = page[b], user'[b] = user[b], kept'[b] = kept[b],
           \A p \in Polls, u \in Users : saved'[b][p][u] \in {saved[b][p][u], saves + 1},
           revealing \subseteq revealing', \A p \in revealing : committed'[p] = committed[p]
    PROVE  PageAgrees(b)'
<1>1. page[b] \in AnyPage /\ user[b] \in Anyone /\ PageAgrees(b)
  BY DEF SecretsInv, SecretsTypes, AccountTypes, PagesAgree
<1>2. CASE page[b] = NoPage
  BY <1>2 DEF PageAgrees, NoPage
<1>3. CASE page[b] \in CommitPages
  BY <1>1, <1>3 DEF PageAgrees, CommitPages, SaltsStay, SecretsAssumption, Anyone
<1>4. CASE page[b] \in RevealPages
  <2>1. PICK p, u : p = page[b].poll /\ u = user[b]
    OBVIOUS
  <2>2. page'[b].poll = p /\ user'[b] = u /\ page'[b].kind = "reveal" /\ p \in Polls /\ p \in revealing'
        /\ p \in revealing
    BY <1>1, <1>4, <2>1 DEF PageAgrees, RevealPages
  <2>3. ASSUME u # Nobody PROVE RevealAgrees(b, p, u)'
    <3>1. u \in Users /\ RevealAgrees(b, p, u)
      BY <1>1, <1>4, <2>1, <2>3 DEF PageAgrees, Anyone, RevealPages
    <3>2. salt'[b][p][u] = salt[b][p][u]
      BY <2>2, <3>1 DEF RevealAgrees, SaltsStay
    <3>3. PICK cast : cast = committed[p][u]
      OBVIOUS
    <3>4. committed'[p][u] = cast
      BY <2>2, <3>3
    <3>5. cast = NoCommit \/ Agrees(cast, p)
      BY <2>2, <3>1, <3>3 DEF SecretsInv, CommittedAgree
    <3>6. cast \in HeldCommits /\ saves \in Nat /\ saved[b][p][u] \in Nat
      BY <2>2, <3>1, <3>3 DEF SecretsInv, SecretsTypes, CommitTypes, StorageTypes
    <3>7. cast.savedFor = u => cast # NoCommit
      BY <3>1 DEF NoCommit, SecretsAssumption
    <3>8. cast.savedFor = u => cast.attempt # saves + 1
      BY <3>5, <3>6, <3>7 DEF Agrees, HeldCommits
    <3>9. saved'[b][p][u] \in {saved[b][p][u], saves + 1}
      BY <2>2, <3>1
    <3>10. kept[b] /\ cast.from = b /\ cast.savedFor = u /\ cast.attempt = saved'[b][p][u] =>
              page[b].option = cast.option
      BY <3>1, <3>3, <3>8, <3>9 DEF RevealAgrees
    <3>11. QED
      BY <3>1, <3>2, <3>4, <3>10 DEF RevealAgrees
  <2>4. QED
    BY <2>2, <2>3 DEF PageAgrees
<1>5. QED
  BY <1>1, <1>2, <1>3, <1>4 DEF AnyPage

LEMMA SecretsStart == SecretsAssumption /\ SecretsInit => SecretsInv
<1> SUFFICES ASSUME SecretsAssumption, SecretsInit PROVE SecretsInv
  OBVIOUS
<1>1. StorageTypes /\ AccountTypes
  BY DEF SecretsInit, StorageTypes, AccountTypes, OptionValues, Anyone, AnySalt
<1>2. NoCommit \in HeldCommits
  BY DEF NoCommit, HeldCommits, OptionValues, Anyone, AnySalt
<1>3. CommitTypes
  <2> HIDE DEF NoCommit
  <2>1. QED
    BY <1>2 DEF SecretsInit, CommitTypes
<1>4. page \in [Browsers -> AnyPage] /\ kept \in [Browsers -> BOOLEAN]
  BY DEF SecretsInit, AnyPage
<1>5. CommitsAgree /\ CommittedAgree
  BY DEF SecretsInit, CommitsAgree, CommittedAgree
<1>6. PagesAgree
  BY DEF SecretsInit, PagesAgree, PageAgrees, NoPage
<1>7. QED
  BY <1>1, <1>3, <1>4, <1>5, <1>6 DEF SecretsInv, SecretsTypes

(* The page of a browser is of one kind. *)
LEMMA PageKinds ==
    ASSUME SecretsInv, NEW b \in Browsers
    PROVE  /\ page[b].kind = "commit" => page[b] \in CommitPages
           /\ page[b].kind = "reveal" => page[b] \in RevealPages
           /\ page[b].kind = "none" => page[b] = NoPage
           /\ page[b].kind \in {"none", "commit", "reveal"}
<1>1. page[b] \in AnyPage
  BY DEF SecretsInv, SecretsTypes
<1>2. QED
  BY <1>1 DEF AnyPage, NoPage, CommitPages, RevealPages

(* The reveal page takes option and salt from the storage of now. *)
LEMMA RevealPageAgrees ==
    ASSUME SecretsAssumption, SecretsInv, NEW b \in Browsers, NEW p \in revealing, NEW u \in Anyone,
           RevealPage(b, p, u), user' = [user EXCEPT ![b] = u], AccountTypes',
           UNCHANGED <<option, saved, saves, commits, contract, kept>>
    PROVE  SecretsInv'
<1> USE NumberOfSalts
<1>1. PICK s \in AnySalt :
          /\ FetchSalt(b, p, u, s)
          /\ page' = [page EXCEPT ![b] = [kind |-> "reveal", poll |-> p,
                                          option |-> FetchVote(b, p, u), salt |-> s]]
  BY DEF RevealPage, AnySalt
<1>2. /\ StorageTypes /\ CommitTypes /\ p \in Polls
      /\ UNCHANGED <<option, saved, saves, commits, committed, revealing, kept>>
  BY DEF SecretsInv, SecretsTypes, CommitTypes, contract
<1>3. /\ drawn' \in Nat
      /\ salt' \in [Browsers -> [Polls -> [Users -> AnySalt]]]
      /\ SaltsStay
      /\ u # Nobody => s \in Salts /\ salt'[b][p][u] = s
  BY <1>1, <1>2, FetchKeeps
<1>4. PICK v : v = FetchVote(b, p, u)
  OBVIOUS
<1>5. v \in OptionValues /\ (u # Nobody => v = option[b][p][u])
  BY <1>2, <1>4 DEF FetchVote, OptionValues, Anyone, StorageTypes
<1> DEFINE new == [kind |-> "reveal", poll |-> p, option |-> v, salt |-> s]
<1>6. new \in AnyPage
  BY <1>1, <1>2, <1>5 DEF RevealPages, AnyPage
<1>7. page' = [page EXCEPT ![b] = new]
  BY <1>1, <1>4
<1>8. SecretsTypes'
  <2> HIDE DEF new
  <2>1. page' \in [Browsers -> AnyPage]
    BY <1>6, <1>7 DEF SecretsInv, SecretsTypes
  <2>2. QED
    BY <1>2, <1>3, <2>1 DEF SecretsInv, SecretsTypes, StorageTypes, CommitTypes
<1>9. OnlySalts
  BY <1>2, <1>3 DEF OnlySalts
<1>10. CommitsAgree' /\ CommittedAgree'
  BY <1>2, <1>9, CommitStays, CommittedStay DEF SecretsInv, CommitsAgree, CommitTypes
<1>11. ASSUME NEW c \in Browsers PROVE PageAgrees(c)'
  <2>1. CASE c # b
    <3> HIDE DEF new
    <3>1. page'[c] = page[c] /\ user'[c] = user[c]
      BY <1>7, <2>1 DEF SecretsInv, SecretsTypes, AccountTypes
    <3>2. QED
      BY <1>2, <1>3, <3>1, PageStays
  <2>2. CASE c = b
    <3>1. page'[b] = new /\ user'[b] = u
      BY <1>7 DEF SecretsInv, SecretsTypes, AccountTypes
    <3>2. ASSUME u # Nobody PROVE RevealAgrees(b, p, u)'
      <4>1. u \in Users
        BY <3>2 DEF Anyone
      <4>2. PICK cast : cast = committed[p][u]
        OBVIOUS
      <4>3. committed'[p][u] = cast /\ kept'[b] = kept[b] /\ saved'[b][p][u] = saved[b][p][u]
        BY <1>2, <4>2
      <4>4. cast = NoCommit \/ Agrees(cast, p)
        BY <1>2, <4>1, <4>2 DEF SecretsInv, CommittedAgree
      <4>5. cast.savedFor = u => cast # NoCommit
        BY <4>1 DEF NoCommit, SecretsAssumption
      <4>6. kept[b] /\ cast.from = b /\ cast.savedFor = u /\ cast.attempt = saved[b][p][u] =>
                v = cast.option
        BY <1>5, <3>2, <4>4, <4>5 DEF Agrees
      <4>7. page'[b].salt = s /\ page'[b].option = v
        BY <3>1
      <4> HIDE DEF new
      <4>8. QED
        BY <1>3, <3>2, <4>3, <4>6, <4>7 DEF RevealAgrees
    <3>3. page'[b].kind = "reveal" /\ page'[b].poll = p
      BY <3>1
    <3> HIDE DEF new
    <3>4. QED
      BY <1>2, <2>2, <3>1, <3>2, <3>3 DEF PageAgrees
  <2>3. QED
    BY <2>1, <2>2
<1>12. QED
  BY <1>8, <1>10, <1>11 DEF SecretsInv, PagesAgree

(* The commit page has fetched the salt that it shows. *)
LEMMA CommitPageAgrees ==
    ASSUME SecretsAssumption, SecretsInv, NEW b \in Browsers, NEW p \in Polls, NEW u \in Anyone,
           NEW s, FetchSalt(b, ShownFor[p], u, s), NEW new \in CommitPages, new.poll = p,
           page' = [page EXCEPT ![b] = new], user' = [user EXCEPT ![b] = u], AccountTypes',
           UNCHANGED <<option, saved, saves, commits, contract, kept>>
    PROVE  SecretsInv'
<1>1. /\ StorageTypes /\ CommitTypes /\ ShownFor[p] \in Polls
      /\ UNCHANGED <<option, saved, saves, commits, committed, revealing, kept>>
  BY DEF SecretsInv, SecretsTypes, CommitTypes, contract, SecretsAssumption
<1>2. /\ drawn' \in Nat
      /\ salt' \in [Browsers -> [Polls -> [Users -> AnySalt]]]
      /\ SaltsStay
      /\ u # Nobody => s \in Salts /\ salt'[b][ShownFor[p]][u] = s
  BY <1>1, FetchKeeps
<1>3. SecretsTypes'
  <2>1. page' \in [Browsers -> AnyPage]
    BY DEF SecretsInv, SecretsTypes, AnyPage
  <2>2. QED
    BY <1>1, <1>2, <2>1 DEF SecretsInv, SecretsTypes, StorageTypes, CommitTypes
<1>4. OnlySalts
  BY <1>1, <1>2 DEF OnlySalts
<1>5. CommitsAgree' /\ CommittedAgree'
  BY <1>1, <1>4, CommitStays, CommittedStay DEF SecretsInv, CommitsAgree, CommitTypes
<1>6. ASSUME NEW c \in Browsers PROVE PageAgrees(c)'
  <2>1. CASE c # b
    <3>1. page'[c] = page[c] /\ user'[c] = user[c]
      BY <2>1 DEF SecretsInv, SecretsTypes, AccountTypes
    <3>2. QED
      BY <1>1, <1>2, <3>1, PageStays
  <2>2. CASE c = b
    <3>1. page'[b] = new /\ user'[b] = u
      BY DEF SecretsInv, SecretsTypes, AccountTypes
    <3>2. new.kind = "commit" /\ (u # Nobody => salt'[b][ShownFor[p]][u] # None)
      BY <1>2, NumberOfSalts DEF CommitPages
    <3>3. QED
      BY <2>2, <3>1, <3>2 DEF PageAgrees
  <2>3. QED
    BY <2>1, <2>2
<1>7. QED
  BY <1>3, <1>5, <1>6 DEF SecretsInv, PagesAgree

LEMMA OpenCommitPageAgrees ==
    ASSUME SecretsAssumption, SecretsInv, NEW b \in Browsers, NEW p \in Polls, OpenCommitPage(b, p)
    PROVE  SecretsInv'
<1>0. PICK u : u = user[b]
  OBVIOUS
<1>1. PICK s : FetchSalt(b, ShownFor[p], u, s)
  BY <1>0 DEF OpenCommitPage
<1>2. /\ page' = [page EXCEPT ![b] = [kind |-> "commit", poll |-> p, review |-> FALSE]]
      /\ UNCHANGED <<account, prevAccount, lookups, user>>
      /\ UNCHANGED <<option, saved, saves, commits, contract, kept>>
  BY DEF OpenCommitPage, accounts
<1>3. user' = [user EXCEPT ![b] = u] /\ u \in Anyone /\ AccountTypes'
  BY <1>0, <1>2 DEF SecretsInv, SecretsTypes, AccountTypes
<1>4. PICK new : new = [kind |-> "commit", poll |-> p, review |-> FALSE]
  OBVIOUS
<1>5. new \in CommitPages /\ new.poll = p
  BY <1>4 DEF CommitPages
<1>6. page' = [page EXCEPT ![b] = new]
  BY <1>2, <1>4
<1>7. UNCHANGED <<option, saved, saves, commits, contract, kept>>
  BY <1>2
<1>8. user' = [user EXCEPT ![b] = u] /\ u \in Anyone /\ AccountTypes'
  BY <1>3
<1>9. QED
  BY <1>1, <1>5, <1>6, <1>7, <1>8, CommitPageAgrees

LEMMA OpenRevealPageAgrees ==
    ASSUME SecretsAssumption, SecretsInv, NEW b \in Browsers, NEW p \in Polls, OpenRevealPage(b, p)
    PROVE  SecretsInv'
<1>1. user' = [user EXCEPT ![b] = user[b]] /\ user[b] \in Anyone /\ AccountTypes'
  BY DEF OpenRevealPage, accounts, SecretsInv, SecretsTypes, AccountTypes
<1>2. QED
  BY <1>1, RevealPageAgrees DEF OpenRevealPage

(* Another account in the store: each kind of page goes by it from then on. *)
LEMMA ShowUserAgrees ==
    ASSUME SecretsAssumption, SecretsInv, NEW b \in Browsers, NEW u \in Anyone,
           ShowUser(b, u), AccountTypes',
           UNCHANGED <<option, saved, saves, commits, contract, kept>>
    PROVE  SecretsInv'
<1>1. user' = [user EXCEPT ![b] = u] /\ user'[b] = u
  BY DEF ShowUser, SecretsInv, SecretsTypes, AccountTypes
<1>2. CASE u = user[b] \/ page[b].kind = "none"
  <2>1. UNCHANGED <<salt, drawn, page>>
    <3>1. ~(u # user[b] /\ page[b].kind = "commit") /\ ~(u # user[b] /\ page[b].kind = "reveal")
      BY <1>2
    <3>2. QED
      BY <1>2, <3>1 DEF ShowUser
  <2>2. UNCHANGED <<option, saved, saves, commits, committed, revealing, kept>>
    BY DEF contract
  <2>3. SecretsTypes' /\ OnlySalts /\ SaltsStay
    BY <2>1, <2>2 DEF SecretsInv, SecretsTypes, StorageTypes, CommitTypes, OnlySalts, SaltsStay
  <2>4. CommitsAgree' /\ CommittedAgree'
    BY <2>2, <2>3, CommitStays, CommittedStay DEF SecretsInv, SecretsTypes, CommitsAgree, CommitTypes
  <2>5. ASSUME NEW c \in Browsers PROVE PageAgrees(c)'
    <3>1. CASE user'[c] = user[c]
      BY <2>1, <2>2, <2>3, <3>1, PageStays
    <3>2. CASE user'[c] # user[c]
      <4>1. c = b /\ page'[c] = NoPage
        BY <1>1, <1>2, <2>1, <3>2, PageKinds DEF SecretsInv, SecretsTypes, AccountTypes
      <4>2. QED
        BY <4>1 DEF PageAgrees, NoPage
    <3>3. QED
      BY <3>1, <3>2
  <2>6. QED
    BY <2>3, <2>4, <2>5 DEF SecretsInv, PagesAgree
<1>3. CASE u # user[b] /\ page[b].kind = "commit"
  <2>1. PICK new : new = page[b]
    OBVIOUS
  <2>2. new \in CommitPages /\ new.poll \in Polls
    BY <1>3, <2>1, PageKinds DEF CommitPages
  <2>3. /\ \E s \in AnySalt : FetchSalt(b, ShownFor[new.poll], u, s)
        /\ page' = page
    BY <1>3, <2>1 DEF ShowUser, AnySalt
  <2>4. page' = [page EXCEPT ![b] = new]
    BY <2>1, <2>3 DEF SecretsInv, SecretsTypes
  <2>5. QED
    BY <1>1, <2>2, <2>3, <2>4, CommitPageAgrees
<1>4. CASE u # user[b] /\ page[b].kind = "reveal"
  <2>1. page[b].poll \in revealing
    BY <1>4 DEF SecretsInv, PagesAgree, PageAgrees
  <2>2. RevealPage(b, page[b].poll, u)
    BY <1>4 DEF ShowUser
  <2>3. QED
    BY <1>1, <2>1, <2>2, RevealPageAgrees
<1>5. QED
  BY <1>2, <1>3, <1>4, PageKinds

LEMMA AccountAgrees ==
    ASSUME SecretsAssumption, SecretsInv, NEW b \in Browsers, NEW u \in Anyone,
           SwitchAccount(b, u) \/ LookedUp(b, u)
    PROVE  SecretsInv'
<1> USE DEF AccountTypes
<1>1. AccountTypes /\ Nobody \in Anyone
  BY DEF SecretsInv, SecretsTypes, Anyone
<1>2. UNCHANGED <<option, saved, saves, commits, contract, kept>>
  BY DEF SwitchAccount, LookedUp
<1>3. (\E v \in Anyone : ShowUser(b, v)) \/ UNCHANGED <<user, salt, drawn, page>>
  BY <1>1 DEF SwitchAccount, LookedUp
<1>4. /\ account' \in [Browsers -> Anyone] /\ prevAccount' \in [Browsers -> Anyone]
      /\ lookups' \in [Browsers -> SUBSET Anyone]
  BY <1>1 DEF SwitchAccount, LookedUp
<1>5. CASE \E v \in Anyone : ShowUser(b, v)
  <2>1. user' \in [Browsers -> Anyone]
    BY <1>1, <1>5 DEF ShowUser
  <2>2. AccountTypes'
    BY <1>4, <2>1
  <2>3. QED
    BY <1>2, <1>5, <2>2, ShowUserAgrees
<1>6. CASE UNCHANGED <<user, salt, drawn, page>>
  <2>1. AccountTypes'
    BY <1>1, <1>4, <1>6
  <2>2. UNCHANGED <<committed, revealing>>
    BY <1>2 DEF contract
  <2>3. SecretsTypes'
    BY <1>2, <1>6, <2>1, <2>2 DEF SecretsInv, SecretsTypes, StorageTypes, CommitTypes
  <2>4. QED
    BY <1>2, <1>6, <2>2, <2>3 DEF SecretsInv, CommitsAgree, CommitAgrees, NotYetSaved, CommittedAgree,
       Agrees, PagesAgree, PageAgrees, RevealAgrees
<1>7. QED
  BY <1>3, <1>5, <1>6

(* Steps that leave the storage alone: commits and votes that agree with it, pages *)
(* that are closed or stay what they are.                                          *)
LEMMA StorageStays ==
    ASSUME SecretsAssumption, SecretsInv, UNCHANGED <<storage, kept>>, AccountTypes', CommitTypes',
           \A r \in commits' : CommitAgrees(r),
           revealing \subseteq revealing',
           \A p \in Polls, u \in Users :
               \/ committed'[p][u] = committed[p][u]
               \/ p \notin revealing /\ Agrees(committed'[p][u], p),
           page' \in [Browsers -> AnyPage],
           \A b \in Browsers :
               \/ page'[b] = NoPage
               \/ user'[b] = user[b] /\ page'[b] = page[b]
               \/ /\ user'[b] = user[b] /\ page[b] \in CommitPages
                  /\ page'[b] \in CommitPages /\ page'[b].poll = page[b].poll
    PROVE  SecretsInv'
<1>1. UNCHANGED <<salt, option, saved, drawn, saves, kept>>
  BY DEF storage
<1>2. SecretsTypes'
  BY <1>1 DEF SecretsInv, SecretsTypes, StorageTypes
<1>3. CommitsAgree'
  BY <1>1 DEF CommitsAgree, CommitAgrees, NotYetSaved, Agrees
<1>4. ASSUME NEW p \in Polls, NEW u \in Users PROVE (committed[p][u] = NoCommit \/ Agrees(committed[p][u], p))'
  <2>1. PICK cast : cast = committed'[p][u]
    OBVIOUS
  <2>2. cast = NoCommit \/ Agrees(cast, p)
    BY <2>1 DEF SecretsInv, CommittedAgree
  <2>3. Agrees(cast, p) => Agrees(cast, p)'
    BY <1>1 DEF Agrees
  <2>4. QED
    BY <2>1, <2>2, <2>3
<1>5. ASSUME NEW b \in Browsers PROVE PageAgrees(b)'
  <2>1. CASE page'[b] = NoPage
    BY <2>1 DEF PageAgrees, NoPage
  <2>2. CASE user'[b] = user[b] /\ page'[b] = page[b]
    <3>1. SaltsStay
      BY <1>1 DEF SaltsStay
    <3>2. committed \in [Polls -> [Users -> HeldCommits]] /\ committed' \in [Polls -> [Users -> HeldCommits]]
      BY DEF SecretsInv, SecretsTypes, CommitTypes
    <3>3. revealing \subseteq Polls
      BY DEF SecretsInv, SecretsTypes, CommitTypes
    <3>4. ASSUME NEW p \in revealing PROVE committed'[p] = committed[p]
      <4>1. p \in Polls /\ \A u \in Users : committed'[p][u] = committed[p][u]
        BY <3>3
      <4>2. committed[p] \in [Users -> HeldCommits] /\ committed'[p] \in [Users -> HeldCommits]
        BY <3>2, <4>1
      <4>3. committed[p] = [u \in Users |-> committed[p][u]] /\ committed'[p] = [u \in Users |-> committed'[p][u]]
        BY <4>2
      <4>4. QED
        BY <4>1, <4>3
    <3>5. QED
      BY <1>1, <2>2, <3>1, <3>4, PageStays
  <2>3. CASE /\ user'[b] = user[b] /\ page[b] \in CommitPages
             /\ page'[b] \in CommitPages /\ page'[b].poll = page[b].poll
    BY <1>1, <2>3 DEF PageAgrees, CommitPages, SecretsInv, PagesAgree
  <2>4. QED
    BY <2>1, <2>2, <2>3
<1>6. QED
  BY <1>2, <1>3, <1>4, <1>5 DEF SecretsInv, CommittedAgree, PagesAgree

(* A run that its page leaves goes on with the same commit. *)
LEMMA LeftAgrees ==
    ASSUME SecretsInv, NEW r \in commits
    PROVE  Left(r) \in Commits /\ CommitAgrees(Left(r))
<1>1. r \in Commits /\ CommitAgrees(r)
  BY DEF SecretsInv, SecretsTypes, CommitTypes, CommitsAgree
<1>2. user[r.from] \in Anyone
  BY <1>1 DEF Commits, SecretsInv, SecretsTypes, AccountTypes
<1>3. PICK n : n = Left(r)
  OBVIOUS
<1>4. /\ n \in Commits
      /\ n.from = r.from /\ n.poll = r.poll /\ n.reader = r.reader /\ n.phrase = r.phrase
      /\ n.savedFor = r.savedFor /\ n.salt = r.salt /\ n.option = r.option
      /\ n.attempt = r.attempt /\ n.sender = r.sender
  BY <1>1, <1>2, <1>3 DEF Commits, Left
<1>5. CommitAgrees(n)
  BY <1>1, <1>4 DEF CommitAgrees, NotYetSaved, Agrees
<1>6. QED
  BY <1>3, <1>4, <1>5

LEMMA ReviewAgrees ==
    ASSUME SecretsAssumption, SecretsInv, NEW b \in Browsers, ReviewVote(b) \/ CloseReview(b)
    PROVE  SecretsInv'
<1>1. /\ page[b].kind = "commit"
      /\ \E v \in BOOLEAN : page' = [page EXCEPT ![b].review = v]
      /\ UNCHANGED <<storage, accounts, commits, contract, kept>>
  BY DEF ReviewVote, CloseReview
<1>2. PICK v \in BOOLEAN : page' = [page EXCEPT ![b].review = v]
  BY <1>1
<1>3. PICK old : old = page[b]
  OBVIOUS
<1>4. old \in CommitPages
  BY <1>1, <1>3, PageKinds
<1>5. PICK new : new = [old EXCEPT !.review = v]
  OBVIOUS
<1>6. new \in CommitPages /\ new.poll = old.poll
  BY <1>4, <1>5 DEF CommitPages
<1>7. page \in [Browsers -> AnyPage] /\ page' = [page EXCEPT ![b] = new]
  BY <1>2, <1>3, <1>5 DEF SecretsInv, SecretsTypes
<1>8. page' \in [Browsers -> AnyPage]
  BY <1>6, <1>7 DEF AnyPage
<1>9. UNCHANGED <<account, prevAccount, lookups, user, committed, revealing>>
  BY <1>1 DEF accounts, contract
<1>10. AccountTypes' /\ CommitTypes'
  BY <1>1, <1>9 DEF SecretsInv, SecretsTypes, AccountTypes, CommitTypes
<1>11. QED
  BY <1>1, <1>3, <1>4, <1>6, <1>7, <1>8, <1>9, <1>10, StorageStays DEF SecretsInv, CommitsAgree

(* A commit that begins takes the phrase that is shown to the account in the store. *)
LEMMA StartCommitAgrees ==
    ASSUME SecretsAssumption, SecretsInv, NEW b \in Browsers, StartCommit(b)
    PROVE  SecretsInv'
<1>1. PICK p, u, f : p = page[b].poll /\ u = user[b] /\ f = Phrase(b)
  OBVIOUS
<1>2. p \in Polls /\ u \in Anyone /\ page[b].kind = "commit" /\ ShownFor[p] \in Polls
  BY <1>1, PageKinds DEF StartCommit, CommitPages, SecretsInv, SecretsTypes, AccountTypes,
     SecretsAssumption
<1>3. f \in AnySalt /\ (u # Nobody => f # None /\ f = salt[b][ShownFor[p]][u])
  BY <1>1, <1>2 DEF Phrase, SecretsInv, PagesAgree, PageAgrees, SecretsTypes, StorageTypes, AnySalt, Anyone
<1>4. PICK r : r = [from |-> b, poll |-> p, live |-> TRUE, props |-> Nobody,
                    reader |-> u, phrase |-> f, savedFor |-> Nobody,
                    salt |-> None, option |-> "none", attempt |-> 0, sender |-> Nobody]
  OBVIOUS
<1>5. /\ commits' = commits \cup {r}
      /\ UNCHANGED <<storage, accounts, page, contract, kept>>
  BY <1>1, <1>4 DEF StartCommit
<1>6. r \in Commits
  BY <1>2, <1>3, <1>4 DEF Commits, OptionValues, Anyone, AnySalt
<1>7. CommitAgrees(r)
  BY <1>3, <1>4 DEF CommitAgrees, NotYetSaved
<1>8. UNCHANGED <<account, prevAccount, lookups, user, committed, revealing>>
  BY <1>5 DEF accounts, contract
<1>9. AccountTypes' /\ CommitTypes'
  BY <1>5, <1>6, <1>8 DEF SecretsInv, SecretsTypes, AccountTypes, CommitTypes
<1>10. QED
  BY <1>5, <1>7, <1>8, <1>9, StorageStays DEF SecretsInv, SecretsTypes, CommitsAgree

LEMMA SendCommitAgrees ==
    ASSUME SecretsAssumption, SecretsInv, NEW r \in commits, SendCommit(r)
    PROVE  SecretsInv'
<1>1. r \in Commits /\ CommitAgrees(r) /\ r.salt # None
  BY DEF SendCommit, SecretsInv, SecretsTypes, CommitTypes, CommitsAgree
<1>2. account[r.from] \in Anyone
  BY <1>1 DEF Commits, SecretsInv, SecretsTypes, AccountTypes
<1>3. PICK n : n = [r EXCEPT !.sender = account[r.from]]
  OBVIOUS
<1>4. /\ commits' = (commits \ {r}) \cup {n}
      /\ UNCHANGED <<storage, accounts, page, contract, kept>>
  BY <1>3 DEF SendCommit
<1>5. /\ n \in Commits
      /\ n.from = r.from /\ n.poll = r.poll /\ n.reader = r.reader /\ n.phrase = r.phrase
      /\ n.savedFor = r.savedFor /\ n.salt = r.salt /\ n.option = r.option
      /\ n.attempt = r.attempt
  BY <1>1, <1>2, <1>3 DEF Commits
<1>6. CommitAgrees(n)
  BY <1>1, <1>5 DEF CommitAgrees, Agrees
<1>7. UNCHANGED <<account, prevAccount, lookups, user, committed, revealing>>
  BY <1>4 DEF accounts, contract
<1>8. AccountTypes' /\ CommitTypes'
  BY <1>4, <1>5, <1>7 DEF SecretsInv, SecretsTypes, AccountTypes, CommitTypes
<1>9. QED
  BY <1>4, <1>6, <1>7, <1>8, StorageStays DEF SecretsInv, SecretsTypes, CommitsAgree

(* The contract holds what was sent, which was saved before. *)
LEMMA CommitAcceptedAgrees ==
    ASSUME SecretsAssumption, SecretsInv, RunsHavePages, NEW r \in commits, CommitAccepted(r)
    PROVE  SecretsInv'
<1>1. r \in Commits /\ CommitAgrees(r) /\ r.sender # Nobody
  BY DEF CommitAccepted, SecretsInv, SecretsTypes, CommitTypes, CommitsAgree
<1>2. Agrees(r, r.poll) /\ r.poll \in Polls /\ r.sender \in Users /\ r.from \in Browsers
  BY <1>1 DEF CommitAgrees, NotYetSaved, Commits, Anyone
<1>3. PICK cast : cast = [from |-> r.from, reader |-> r.reader, savedFor |-> r.savedFor,
                          phrase |-> r.phrase, salt |-> r.salt, option |-> r.option,
                          attempt |-> r.attempt]
  OBVIOUS
<1>4. cast \in HeldCommits
  BY <1>1, <1>3 DEF Commits, HeldCommits
<1>5. Agrees(cast, r.poll)
  <2>1. /\ cast.from = r.from /\ cast.reader = r.reader /\ cast.savedFor = r.savedFor
        /\ cast.phrase = r.phrase /\ cast.salt = r.salt /\ cast.option = r.option
        /\ cast.attempt = r.attempt
    BY <1>3
  <2>2. QED
    BY <1>2, <2>1 DEF Agrees
<1>6. /\ commits' = commits \ {r} /\ r.poll \notin revealing
      /\ committed' = [committed EXCEPT ![r.poll][r.sender] = cast]
      /\ page' = IF r.live THEN [page EXCEPT ![r.from].review = FALSE] ELSE page
      /\ UNCHANGED <<storage, accounts, revealing, kept>>
  BY <1>3 DEF CommitAccepted
<1>7. UNCHANGED <<account, prevAccount, lookups, user>>
  BY <1>6 DEF accounts
<1>8. AccountTypes' /\ CommitTypes'
  BY <1>2, <1>4, <1>6, <1>7 DEF SecretsInv, SecretsTypes, AccountTypes, CommitTypes
<1>9. \A p \in Polls, u \in Users :
          \/ committed'[p][u] = committed[p][u]
          \/ p \notin revealing /\ committed'[p][u] = cast /\ Agrees(cast, p)
  BY <1>2, <1>5, <1>6 DEF SecretsInv, SecretsTypes, CommitTypes
<1>10. ASSUME NEW p \in Polls, NEW u \in Users
       PROVE  \/ committed'[p][u] = committed[p][u]
              \/ p \notin revealing /\ Agrees(committed'[p][u], p)
  BY <1>9
<1>11. /\ page' \in [Browsers -> AnyPage]
       /\ \A b \in Browsers :
              \/ page'[b] = page[b]
              \/ /\ page[b] \in CommitPages /\ page'[b] \in CommitPages
                 /\ page'[b].poll = page[b].poll
  <2>1. page \in [Browsers -> AnyPage]
    BY DEF SecretsInv, SecretsTypes
  <2>2. CASE ~r.live
    BY <1>6, <2>1, <2>2
  <2>3. CASE r.live
    <3>1. PICK old, new : old = page[r.from] /\ new = [old EXCEPT !.review = FALSE]
      OBVIOUS
    <3>2. page' = [page EXCEPT ![r.from] = new]
      BY <1>6, <2>3, <3>1
    <3>3. old \in CommitPages
      BY <1>2, <2>3, <3>1, PageKinds DEF RunsHavePages
    <3>4. new \in CommitPages /\ new.poll = old.poll
      BY <3>1, <3>3 DEF CommitPages
    <3>5. page' \in [Browsers -> AnyPage]
      BY <2>1, <3>2, <3>4 DEF AnyPage
    <3>6. QED
      BY <2>1, <3>1, <3>2, <3>3, <3>4, <3>5
  <2>4. QED
    BY <2>2, <2>3
<1>12. QED
  BY <1>6, <1>7, <1>8, <1>10, <1>11, StorageStays DEF SecretsInv, CommitsAgree

LEMMA CommitFailsAgrees ==
    ASSUME SecretsAssumption, SecretsInv, NEW r \in commits, CommitFails(r)
    PROVE  SecretsInv'
<1>1. r \in Commits /\ CommitAgrees(r)
  BY DEF SecretsInv, SecretsTypes, CommitTypes, CommitsAgree
<1>2. PICK n : n = [r EXCEPT !.live = FALSE]
  OBVIOUS
<1>3. /\ n \in Commits
      /\ n.from = r.from /\ n.poll = r.poll /\ n.reader = r.reader /\ n.phrase = r.phrase
      /\ n.savedFor = r.savedFor /\ n.salt = r.salt /\ n.option = r.option
      /\ n.attempt = r.attempt /\ n.sender = r.sender
  BY <1>1, <1>2 DEF Commits
<1>4. CommitAgrees(n)
  BY <1>1, <1>3 DEF CommitAgrees, NotYetSaved, Agrees
<1>5. /\ commits' \subseteq commits \cup {n}
      /\ UNCHANGED <<storage, accounts, page, contract, kept>>
  BY <1>2 DEF CommitFails
<1>6. UNCHANGED <<account, prevAccount, lookups, user, committed, revealing>>
  BY <1>5 DEF accounts, contract
<1>7. AccountTypes' /\ CommitTypes'
  BY <1>3, <1>5, <1>6 DEF SecretsInv, SecretsTypes, AccountTypes, CommitTypes
<1>8. QED
  BY <1>4, <1>5, <1>6, <1>7, StorageStays DEF SecretsInv, SecretsTypes, CommitsAgree

(* Pages that are closed. *)
LEMMA CloseAgrees ==
    ASSUME SecretsAssumption, SecretsInv,
           (\E p \in Polls : CommitStageEnds(p)) \/ \E b \in Browsers : ClosePage(b) \/ Reload(b)
    PROVE  SecretsInv'
<1>1. /\ page \in [Browsers -> AnyPage] /\ NoPage \in AnyPage /\ AccountTypes /\ CommitTypes
      /\ Nobody \in Anyone
  BY DEF SecretsInv, SecretsTypes, AnyPage, Anyone
<1> DEFINE commitsLeft == /\ UNCHANGED <<storage, kept>> /\ UNCHANGED committed
                          /\ \A r \in commits' : r \in commits \/ \E q \in commits : r = Left(q)
           pagesClosed ==
               /\ page' \in [Browsers -> AnyPage]
               /\ \A b \in Browsers : page'[b] = NoPage \/ (user'[b] = user[b] /\ page'[b] = page[b])
               /\ revealing \subseteq revealing' /\ revealing' \subseteq Polls
               /\ AccountTypes'
<1>2. commitsLeft
  <2>1. ASSUME NEW p \in Polls, CommitStageEnds(p) PROVE commitsLeft
    BY <2>1 DEF CommitStageEnds
  <2>2. ASSUME NEW b \in Browsers, ClosePage(b) PROVE commitsLeft
    BY <2>2 DEF ClosePage, contract
  <2>3. ASSUME NEW b \in Browsers, Reload(b) PROVE commitsLeft
    BY <2>3 DEF Reload, Restart, contract
  <2>4. QED
    BY <2>1, <2>2, <2>3
<1>3. \A r \in commits' : r \in Commits /\ CommitAgrees(r)
  BY <1>1, <1>2, LeftAgrees DEF SecretsInv, CommitsAgree, CommitTypes
<1>4. pagesClosed
  <2>1. ASSUME NEW p \in Polls, CommitStageEnds(p) PROVE pagesClosed
    BY <1>1, <2>1 DEF CommitStageEnds, accounts, CommitTypes, AccountTypes
  <2>2. ASSUME NEW b \in Browsers, ClosePage(b) PROVE pagesClosed
    BY <1>1, <2>2 DEF ClosePage, accounts, contract, CommitTypes, AccountTypes
  <2>3. ASSUME NEW b \in Browsers, Reload(b) PROVE pagesClosed
    BY <1>1, <2>3 DEF Reload, Restart, contract, CommitTypes, AccountTypes
  <2>4. QED
    BY <2>1, <2>2, <2>3
<1>5. CommitTypes'
  BY <1>1, <1>2, <1>3, <1>4 DEF CommitTypes
<1>6. QED
  BY <1>2, <1>3, <1>4, <1>5, StorageStays

(* Storage that was cleared is no longer relied on. *)
LEMMA ClearStorageAgrees ==
    ASSUME SecretsAssumption, SecretsInv, NEW b \in Browsers, ClearStorage(b)
    PROVE  SecretsInv'
<1>1. /\ kept' = [kept EXCEPT ![b] = FALSE]
      /\ salt' = [salt EXCEPT ![b] = [p \in Polls |-> [u \in Users |-> None]]]
      /\ option' = [option EXCEPT ![b] = [p \in Polls |-> [u \in Users |-> "none"]]]
      /\ page' = [page EXCEPT ![b] = NoPage]
      /\ user' = [user EXCEPT ![b] = Nobody]
      /\ account' = [account EXCEPT ![b] = Nobody]
      /\ prevAccount' = [prevAccount EXCEPT ![b] = Nobody]
      /\ lookups' = [lookups EXCEPT ![b] = {}]
      /\ UNCHANGED <<saved, drawn, saves, committed, revealing>>
  BY DEF ClearStorage, Restart, contract
<1>2. StorageTypes' /\ AccountTypes' /\ page' \in [Browsers -> AnyPage] /\ kept' \in [Browsers -> BOOLEAN]
  <2>1. AccountTypes'
    BY <1>1 DEF SecretsInv, SecretsTypes, AccountTypes, Anyone
  <2>2. StorageTypes'
    BY <1>1 DEF SecretsInv, SecretsTypes, StorageTypes, OptionValues, AnySalt
  <2>3. page' \in [Browsers -> AnyPage] /\ kept' \in [Browsers -> BOOLEAN]
    BY <1>1 DEF SecretsInv, SecretsTypes, AnyPage
  <2>4. QED
    BY <2>1, <2>2, <2>3
<1>3. \A d \in Browsers : d # b =>
          /\ kept'[d] = kept[d] /\ salt'[d] = salt[d] /\ option'[d] = option[d]
          /\ page'[d] = page[d] /\ user'[d] = user[d]
  BY <1>1 DEF SecretsInv, SecretsTypes, StorageTypes, AccountTypes
<1>4. kept'[b] = FALSE /\ page'[b] = NoPage
  BY <1>1 DEF SecretsInv, SecretsTypes
<1>5. ASSUME NEW c, NEW p, Agrees(c, p) PROVE Agrees(c, p)'
  BY <1>1, <1>3, <1>4, <1>5 DEF Agrees
<1>6. \A r \in commits' :
          \E q \in commits : (r = q \/ r = Left(q)) /\ (q.from # b \/ q.sender # Nobody)
  BY DEF ClearStorage, Restart
<1>7. ASSUME NEW r \in commits' PROVE r \in Commits /\ CommitAgrees(r)'
  <2>1. PICK q \in commits : (r = q \/ r = Left(q)) /\ (q.from # b \/ q.sender # Nobody)
    BY <1>6
  <2>2. r \in Commits /\ CommitAgrees(r)
    BY <2>1, LeftAgrees DEF SecretsInv, SecretsTypes, CommitTypes, CommitsAgree
  <2>3. q \in Commits /\ r.from = q.from /\ r.sender = q.sender
    BY <2>1 DEF Left, SecretsInv, SecretsTypes, CommitTypes, Commits
  <2>4. CASE r.salt # None
    BY <1>5, <2>2, <2>4 DEF CommitAgrees
  <2>5. CASE r.salt = None
    <3>1. NotYetSaved(r) /\ r.from \in Browsers /\ r.from # b
      BY <2>1, <2>2, <2>3, <2>5 DEF CommitAgrees, NotYetSaved, Commits
    <3>2. NotYetSaved(r)'
      BY <1>3, <3>1 DEF NotYetSaved
    <3>3. QED
      BY <2>2, <2>5, <3>2 DEF CommitAgrees
  <2>6. QED
    BY <2>2, <2>4, <2>5
<1>8. CommitTypes' /\ CommitsAgree'
  BY <1>1, <1>7 DEF SecretsInv, SecretsTypes, CommitTypes, CommitsAgree
<1>9. CommittedAgree'
  <2> SUFFICES ASSUME NEW p \in Polls, NEW u \in Users
               PROVE  (committed[p][u] = NoCommit \/ Agrees(committed[p][u], p))'
    BY DEF CommittedAgree
  <2>1. PICK cast : cast = committed[p][u]
    OBVIOUS
  <2>2. cast = NoCommit \/ Agrees(cast, p)
    BY <2>1 DEF SecretsInv, CommittedAgree
  <2>3. committed'[p][u] = cast
    BY <1>1, <2>1
  <2>4. QED
    BY <1>5, <2>2, <2>3
<1>10. ASSUME NEW d \in Browsers PROVE PageAgrees(d)'
  <2>1. CASE d = b
    BY <1>4, <2>1 DEF PageAgrees, NoPage
  <2>2. CASE d # b
    BY <1>1, <1>3, <2>2 DEF PageAgrees, RevealAgrees, SecretsInv, PagesAgree
  <2>3. QED
    BY <2>1, <2>2
<1>11. QED
  BY <1>2, <1>8, <1>9, <1>10 DEF SecretsInv, SecretsTypes, PagesAgree

(* The vote that is saved takes the salt of the account of now, which is the one  *)
(* shown if that account has not changed; options saved before no longer count.    *)
LEMMA SaveVoteAgrees ==
    ASSUME SecretsAssumption, SecretsInv, NEW r \in commits, NEW choice \in {"keep", "remove"},
           SaveVote(r, choice)
    PROVE  SecretsInv'
<1>1. /\ r \in Commits /\ CommitAgrees(r) /\ r.salt = None
      /\ StorageTypes /\ AccountTypes /\ CommitTypes
  BY DEF SaveVote, SecretsInv, SecretsTypes, CommitTypes, CommitsAgree
<1>2. PICK b, p, u, n : b = r.from /\ p = r.poll /\ u = PropsUser(r) /\ n = saves + 1
  OBVIOUS
<1>3. b \in Browsers /\ p \in Polls /\ u \in Anyone /\ u # Nobody /\ u \in Users
  BY <1>1, <1>2 DEF SaveVote, PropsUser, Commits, AccountTypes, Anyone
<1>4. PICK s \in Salts :
          /\ FetchSalt(b, p, u, s)
          /\ commits' = (commits \ {r}) \cup
                 {[r EXCEPT !.savedFor = u, !.salt = s, !.option = choice, !.attempt = saves']}
  BY <1>2 DEF SaveVote
<1>5. /\ saves' = n /\ n \in Nat /\ n > saves
      /\ option' = [option EXCEPT ![b][p][u] = choice]
      /\ saved' = [saved EXCEPT ![b][p][u] = n]
      /\ UNCHANGED <<account, prevAccount, lookups, user, page, committed, revealing, kept>>
  BY <1>1, <1>2 DEF SaveVote, accounts, contract, StorageTypes
<1>6. /\ drawn' \in Nat
      /\ salt' \in [Browsers -> [Polls -> [Users -> AnySalt]]]
      /\ SaltsStay
      /\ salt'[b][p][u] = s
  BY <1>1, <1>3, <1>4, FetchKeeps
<1>7. PICK c : c = [r EXCEPT !.savedFor = u, !.salt = s, !.option = choice, !.attempt = n]
  OBVIOUS
<1>8. /\ c \in Commits
      /\ c.from = b /\ c.poll = p /\ c.reader = r.reader /\ c.phrase = r.phrase
      /\ c.savedFor = u /\ c.salt = s /\ c.option = choice /\ c.attempt = n
  BY <1>1, <1>2, <1>3, <1>5, <1>7 DEF Commits, OptionValues, AnySalt
<1>9. commits' = (commits \ {r}) \cup {c}
  BY <1>4, <1>5, <1>7
<1>10. SecretsTypes'
  <2>1. /\ option' \in [Browsers -> [Polls -> [Users -> OptionValues]]]
        /\ saved' \in [Browsers -> [Polls -> [Users -> Nat]]]
    BY <1>1, <1>3, <1>5 DEF StorageTypes, OptionValues
  <2>2. StorageTypes'
    BY <1>5, <1>6, <2>1 DEF StorageTypes
  <2>3. CommitTypes'
    BY <1>1, <1>5, <1>8, <1>9 DEF CommitTypes
  <2>4. AccountTypes'
    BY <1>1, <1>5 DEF AccountTypes
  <2>5. QED
    BY <1>5, <2>2, <2>3, <2>4 DEF SecretsInv, SecretsTypes
<1>11. /\ option'[b][p][u] = choice /\ saved'[b][p][u] = n
       /\ \A d \in Browsers, q \in Polls, v \in Users : ~(d = b /\ q = p /\ v = u) =>
              option'[d][q][v] = option[d][q][v] /\ saved'[d][q][v] = saved[d][q][v]
  BY <1>1, <1>3, <1>5 DEF StorageTypes
<1>12. ASSUME NEW d, NEW q \in Polls, Agrees(d, q), d.attempt \in Nat PROVE Agrees(d, q)'
  <2>1. d.from \in Browsers /\ d.salt # None /\ d.savedFor \in Users /\ d.attempt <= saves
    BY <1>12 DEF Agrees
  <2>2. saves \in Nat
    BY <1>1 DEF StorageTypes
  <2>3. d.attempt <= saves' /\ d.attempt # n
    BY <1>5, <1>12, <2>1, <2>2
  <2>4. kept'[d.from] => salt'[d.from][q][d.savedFor] = d.salt
    BY <1>5, <1>6, <1>12, <2>1 DEF Agrees, SaltsStay
  <2>5. kept'[d.from] /\ d.attempt = saved'[d.from][q][d.savedFor] =>
            option'[d.from][q][d.savedFor] = d.option
    BY <1>5, <1>11, <1>12, <2>1, <2>3 DEF Agrees
  <2>6. QED
    BY <1>12, <2>1, <2>3, <2>4, <2>5 DEF Agrees
<1>13. Agrees(c, p)'
  <2>1. ShownFor[p] = p /\ c.reader = c.savedFor => c.phrase = c.salt
    <3> SUFFICES ASSUME ShownFor[p] = p, r.reader = u PROVE r.phrase = s
      BY <1>8
    <3>1. r.phrase # None /\ salt[b][p][u] = r.phrase
      BY <1>1, <1>2, <1>3 DEF CommitAgrees, NotYetSaved
    <3>2. QED
      BY <1>3, <1>6, <3>1 DEF SaltsStay
  <2>2. s # None
    BY NumberOfSalts
  <2>3. QED
    BY <1>3, <1>5, <1>6, <1>8, <1>11, <2>1, <2>2 DEF Agrees
<1>14. CommitsAgree'
  <2> SUFFICES ASSUME NEW d \in commits' PROVE CommitAgrees(d)'
    BY DEF CommitsAgree
  <2>1. CASE d = c
    BY <1>8, <1>13, <2>1, NumberOfSalts DEF CommitAgrees
  <2>2. CASE d \in commits
    <3>1. d \in Commits /\ CommitAgrees(d)
      BY <1>1, <2>2 DEF CommitTypes, CommitsAgree, SecretsInv
    <3>2. CASE d.salt = None
      BY <1>6, <3>1, <3>2 DEF CommitAgrees, NotYetSaved, SaltsStay, SecretsAssumption, Commits, Anyone
    <3>3. CASE d.salt # None
      BY <1>12, <3>1, <3>3 DEF CommitAgrees, Commits
    <3>4. QED
      BY <3>2, <3>3
  <2>3. QED
    BY <1>9, <2>1, <2>2
<1>15. CommittedAgree'
  <2> SUFFICES ASSUME NEW q \in Polls, NEW v \in Users
               PROVE  (committed[q][v] = NoCommit \/ Agrees(committed[q][v], q))'
    BY DEF CommittedAgree
  <2>1. PICK cast : cast = committed[q][v]
    OBVIOUS
  <2>2. cast = NoCommit \/ Agrees(cast, q)
    BY <2>1 DEF SecretsInv, CommittedAgree
  <2>3. cast.attempt \in Nat
    BY <1>1, <2>1 DEF CommitTypes, HeldCommits
  <2>4. committed'[q][v] = cast
    BY <1>5, <2>1
  <2>5. QED
    BY <1>12, <2>2, <2>3, <2>4
<1>16. ASSUME NEW d \in Browsers PROVE PageAgrees(d)'
  <2>1. \A q \in Polls, v \in Users : saved'[d][q][v] \in {saved[d][q][v], saves + 1}
    BY <1>2, <1>11
  <2>2. QED
    BY <1>5, <1>6, <2>1, PageStays
<1>17. QED
  BY <1>10, <1>14, <1>15, <1>16 DEF SecretsInv, PagesAgree

LEMMA RunsStay ==
    ASSUME SecretsAssumption, SecretsInv, RunsHavePages, SecretsNext
    PROVE  RunsHavePages'
<1>1. /\ page \in [Browsers -> AnyPage] /\ commits \subseteq Commits
      /\ \A r \in commits : r.live => page[r.from].kind = "commit"
  BY DEF SecretsInv, SecretsTypes, CommitTypes, RunsHavePages
<1>2. ASSUME NEW b \in Browsers, NEW p \in Polls, OpenCommitPage(b, p) \/ OpenRevealPage(b, p)
      PROVE  RunsHavePages'
  <2>1. page[b].kind = "none" /\ commits' = commits
    BY <1>2 DEF OpenCommitPage, OpenRevealPage
  <2>2. \A c \in Browsers : c # b => page'[c] = page[c]
    BY <1>1, <1>2 DEF OpenCommitPage, OpenRevealPage, RevealPage
  <2>3. QED
    BY <1>1, <2>1, <2>2 DEF RunsHavePages, Commits
<1>3. ASSUME NEW b \in Browsers, ReviewVote(b) \/ CloseReview(b) PROVE RunsHavePages'
  <2>1. commits' = commits /\ \A c \in Browsers : c # b => page'[c] = page[c]
    BY <1>1, <1>3 DEF ReviewVote, CloseReview
  <2>2. PICK v \in BOOLEAN : page' = [page EXCEPT ![b].review = v]
    BY <1>3 DEF ReviewVote, CloseReview
  <2>3. page[b] \in CommitPages
    BY <1>3, PageKinds DEF ReviewVote, CloseReview
  <2>4. page'[b].kind = "commit"
    BY <1>1, <2>2, <2>3 DEF CommitPages
  <2>5. QED
    BY <1>1, <2>1, <2>4 DEF RunsHavePages, Commits
<1>4. ASSUME NEW b \in Browsers, StartCommit(b) PROVE RunsHavePages'
  <2>1. page' = page /\ page[b].kind = "commit" /\ \A r \in commits' : r \in commits \/ r.from = b
    BY <1>4 DEF StartCommit
  <2>2. QED
    BY <1>1, <2>1 DEF RunsHavePages
<1>5. ASSUME NEW b \in Browsers, ClosePage(b) \/ Reload(b) \/ ClearStorage(b) PROVE RunsHavePages'
  <2>1. /\ page' = [page EXCEPT ![b] = NoPage]
        /\ \A r \in commits' : \E q \in commits : r = IF q.from = b THEN Left(q) ELSE q
    BY <1>5 DEF ClosePage, Reload, ClearStorage, Restart
  <2>2. ASSUME NEW q \in commits, q.from = b PROVE ~Left(q).live
    BY <1>1 DEF Left, Commits
  <2>3. QED
    BY <1>1, <2>1, <2>2 DEF RunsHavePages, Commits
<1>6. ASSUME NEW p \in Polls, CommitStageEnds(p) PROVE RunsHavePages'
  <2> DEFINE leaves(b) == page[b].kind = "commit" /\ page[b].poll = p
  <2>1. /\ page' = [b \in Browsers |-> IF leaves(b) THEN NoPage ELSE page[b]]
        /\ \A r \in commits' : \E q \in commits : r = IF leaves(q.from) THEN Left(q) ELSE q
    BY <1>6 DEF CommitStageEnds
  <2>2. ASSUME NEW q \in commits PROVE Left(q).from = q.from /\ ~Left(q).live
    BY <1>1 DEF Left, Commits
  <2>3. ASSUME NEW q \in commits, ~leaves(q.from) PROVE page'[q.from] = page[q.from]
    BY <1>1, <2>1, <2>3 DEF Commits
  <2> HIDE DEF leaves
  <2>4. QED
    BY <1>1, <2>1, <2>2, <2>3 DEF RunsHavePages
<1>7. ASSUME NEW b \in Browsers, NEW u \in Users \cup {Nobody}, SwitchAccount(b, u) \/ LookedUp(b, u)
      PROVE  RunsHavePages'
  <2>1. commits' = commits
    BY <1>7 DEF SwitchAccount, LookedUp
  <2>2. page' = page \/ (page[b].kind = "reveal" /\ \A c \in Browsers : c # b => page'[c] = page[c])
    BY <1>1, <1>7, PageKinds DEF SwitchAccount, LookedUp, ShowUser, RevealPage
  <2>3. QED
    BY <1>1, <2>1, <2>2 DEF RunsHavePages, Commits
<1>8. ASSUME NEW r \in commits, NEW choice \in {"keep", "remove"}, SaveVote(r, choice)
      PROVE  RunsHavePages'
  <2>1. /\ page' = page
        /\ \A n \in commits' : n \in commits \/ (n.from = r.from /\ n.live = r.live)
    BY <1>1, <1>8 DEF SaveVote, Commits
  <2>2. QED
    BY <1>1, <2>1 DEF RunsHavePages
<1>9. ASSUME NEW r \in commits, SendCommit(r) \/ CommitFails(r) PROVE RunsHavePages'
  <2>1. /\ page' = page
        /\ \A n \in commits' : n \in commits \/ (n.from = r.from /\ (n.live => r.live))
    BY <1>1, <1>9 DEF SendCommit, CommitFails, Commits
  <2>2. QED
    BY <1>1, <2>1 DEF RunsHavePages
<1>10. ASSUME NEW r \in commits, CommitAccepted(r) PROVE RunsHavePages'
  <2>1. commits' \subseteq commits
    BY <1>10 DEF CommitAccepted
  <2>2. CASE ~r.live
    BY <1>1, <1>10, <2>1, <2>2 DEF RunsHavePages, CommitAccepted
  <2>3. CASE r.live
    <3>1. PICK b : b = r.from
      OBVIOUS
    <3>2. b \in Browsers /\ page[b] \in CommitPages
      BY <1>1, <2>3, <3>1, PageKinds DEF Commits
    <3>3. page' = [page EXCEPT ![b].review = FALSE]
      BY <1>10, <2>3, <3>1 DEF CommitAccepted
    <3>4. page'[b].kind = "commit" /\ \A c \in Browsers : c # b => page'[c] = page[c]
      BY <1>1, <3>2, <3>3 DEF CommitPages
    <3>5. QED
      BY <1>1, <2>1, <3>4 DEF RunsHavePages, Commits
  <2>4. QED
    BY <2>2, <2>3
<1>11. QED
  BY <1>2, <1>3, <1>4, <1>5, <1>6, <1>7, <1>8, <1>9, <1>10 DEF SecretsNext

LEMMA SecretsStep ==
    ASSUME SecretsAssumption, SecretsInv, RunsHavePages, [SecretsNext]_secretsVars
    PROVE  SecretsInv' /\ RunsHavePages'
<1>1. CASE UNCHANGED secretsVars
  <2>1. UNCHANGED <<salt, option, saved, drawn, saves, account, prevAccount, lookups, user, page,
                    commits, committed, revealing, kept>>
    BY <1>1 DEF secretsVars, storage, accounts, contract
  <2>2. SecretsTypes' /\ RunsHavePages'
    BY <2>1 DEF SecretsInv, SecretsTypes, StorageTypes, AccountTypes, CommitTypes, RunsHavePages
  <2>3. CommitsAgree' /\ CommittedAgree' /\ PagesAgree'
    BY <2>1 DEF SecretsInv, CommitsAgree, CommitAgrees, NotYetSaved, CommittedAgree, Agrees,
       PagesAgree, PageAgrees, RevealAgrees
  <2>4. QED
    BY <2>2, <2>3 DEF SecretsInv
<1>2. CASE SecretsNext
  <2>1. ASSUME NEW b \in Browsers, NEW p \in Polls, OpenCommitPage(b, p) \/ OpenRevealPage(b, p)
        PROVE  SecretsInv'
    BY <2>1, OpenCommitPageAgrees, OpenRevealPageAgrees
  <2>2. ASSUME NEW b \in Browsers,
               \/ ReviewVote(b) \/ CloseReview(b) \/ StartCommit(b) \/ ClosePage(b)
               \/ Reload(b) \/ ClearStorage(b)
        PROVE  SecretsInv'
    BY <2>2, ReviewAgrees, StartCommitAgrees, CloseAgrees, ClearStorageAgrees
  <2>3. ASSUME NEW b \in Browsers, NEW u \in Users \cup {Nobody}, SwitchAccount(b, u) \/ LookedUp(b, u)
        PROVE  SecretsInv'
    BY <2>3, AccountAgrees DEF Anyone
  <2>4. ASSUME NEW r \in commits, NEW choice \in {"keep", "remove"}, SaveVote(r, choice)
        PROVE  SecretsInv'
    BY <2>4, SaveVoteAgrees
  <2>5. ASSUME NEW r \in commits, SendCommit(r) \/ CommitAccepted(r) \/ CommitFails(r)
        PROVE  SecretsInv'
    BY <2>5, SendCommitAgrees, CommitAcceptedAgrees, CommitFailsAgrees
  <2>6. ASSUME NEW p \in Polls, CommitStageEnds(p) PROVE SecretsInv'
    BY <2>6, CloseAgrees
  <2>7. SecretsInv'
    BY <1>2, <2>1, <2>2, <2>3, <2>4, <2>5, <2>6 DEF SecretsNext
  <2>8. QED
    BY <1>2, <2>7, RunsStay
<1>3. QED
  BY <1>1, <1>2

(* Whatever accounts are unlocked, at whatever moment of a commit, in whatever     *)
(* order commits arrive, fail and replace each other, and however often pages are  *)
(* opened again: a vote sent from the account it was saved for can be revealed      *)
(* with what its browser kept, and with the phrase shown to that account where it   *)
(* was the phrase of this poll.                                                     *)
THEOREM VotesStayRevealable ==
    ASSUME SecretsAssumption
    PROVE  SecretsSpec => []VotesRevealable
<1> DEFINE inv == SecretsInv /\ RunsHavePages
<1>1. SecretsInit => inv
  BY SecretsStart DEF SecretsInit, RunsHavePages
<1>2. inv /\ [SecretsNext]_secretsVars => inv'
  BY SecretsStep
<1>3. inv => VotesRevealable
  <2> SUFFICES ASSUME SecretsInv PROVE VotesRevealable
    OBVIOUS
  <2>1. \A p \in Polls, u \in Users : committed[p][u] = NoCommit \/ Agrees(committed[p][u], p)
    BY DEF SecretsInv, CommittedAgree
  <2>2. NoCommit.from \notin Browsers /\ NoCommit.savedFor \notin Users
    BY DEF SecretsAssumption, NoCommit
  <2>3. SaltSurvives
    BY <2>1, <2>2 DEF SaltSurvives, Agrees
  <2>4. \A p \in Polls : ShownFor[p] = p => PhraseOpens(p)
    BY <2>1, <2>2 DEF PhraseOpens, SavedForSender, Agrees
  <2>5. RevealPageReady
    <3> SUFFICES ASSUME NEW b \in Browsers, page[b].kind = "reveal", kept[b], user[b] # Nobody,
                        committed[page[b].poll][user[b]].from = b,
                        SavedForSender(page[b].poll, user[b])
                 PROVE  LET cast == committed[page[b].poll][user[b]]
                        IN  /\ page[b].salt = cast.salt
                            /\ cast.attempt = saved[b][page[b].poll][user[b]] =>
                                   page[b].option = cast.option
      BY DEF RevealPageReady
    <3>1. PICK p, u, cast : p = page[b].poll /\ u = user[b] /\ cast = committed[p][u]
      OBVIOUS
    <3>2. p \in Polls /\ u \in Users
      BY <3>1, PageKinds DEF RevealPages, SecretsInv, SecretsTypes, AccountTypes, Anyone
    <3>3. RevealAgrees(b, p, u)
      BY <3>1 DEF SecretsInv, PagesAgree, PageAgrees
    <3>4. cast.from = b /\ cast.savedFor = u
      BY <3>1 DEF SavedForSender
    <3>5. Agrees(cast, p)
      BY <2>1, <2>2, <3>1, <3>2, <3>4
    <3>6. QED
      BY <3>1, <3>3, <3>4, <3>5 DEF RevealAgrees, Agrees
  <2>6. QED
    BY <2>3, <2>4, <2>5 DEF VotesRevealable
<1>4. QED
  BY <1>1, <1>2, <1>3, PTL DEF SecretsSpec

------------------------------------------------------------------------------------
(* The search for votes. *)

Acts     == {"commit", "reveal", "rescue", "collect"}
Todos    == {<<p>> : p \in Polls} \cup {<<p, q>> : p \in Polls, q \in Polls}
Calls    == [user : Users, subscribed : BOOLEAN, ofUser : BOOLEAN,
             ids : SUBSET Polls, commits : SUBSET Polls, acts : [Polls -> SUBSET Acts]]
Handlers == [session : 1 .. Len(session), poll : Polls, cause : Acts \cup {"id"}, todo : Todos,
             awaits : BOOLEAN, seen : SUBSET Acts]

VotesTypes ==
    /\ started \subseteq Polls
    /\ vote \in [Polls -> [Users -> SUBSET Acts]]
    /\ session \in Seq(Calls)
    /\ held \in 0 .. Len(session)
    /\ known \subseteq Polls /\ userPolls \subseteq Polls
    /\ reading \subseteq Handlers
    /\ userData \in [Polls -> [user : Users \cup {"nobody"}, seen : SUBSET Acts]]
    /\ votedOn \in [Users -> SUBSET Polls]
    /\ linked \subseteq Polls

(* Whatever happened to a vote, it was committed first, in a poll that was started. *)
VotesBegin ==
    \A p \in Polls, u \in Users : vote[p][u] # {} => p \in started /\ "commit" \in vote[p][u]

(* What the module remembers includes all that the last account's subscriptions *)
(* delivered, and nothing is there before the first account.                    *)
Remembered ==
    /\ session = <<>> => reading = {} /\ userPolls = {}
    /\ session # <<>> => /\ Current.ids \subseteq known
                         /\ Current.commits \subseteq userPolls
                         /\ \A p \in Current.commits : "commit" \in vote[p][Current.user]

InTodo(h, p) == \E i \in DOMAIN h.todo : h.todo[i] = p

(* The user has committed, or never will. *)
Decided(p, u) == "commit" \in vote[p][u] \/ VotesAreIn(p)

(* As long as there is one account, every poll that is read is decided for it, so *)
(* that a commit is never missed between reading and storing.                      *)
ReadInTime ==
    Len(session) = 1 =>
        /\ \A p \in userPolls : "commit" \in vote[p][Current.user]
        /\ \A h \in reading :
               /\ \A p \in Polls : InTodo(h, p) => Decided(p, Current.user)
               /\ ~h.awaits /\ "commit" \in vote[Head(h.todo)][Current.user] => "commit" \in h.seen

(* A poll of which both events came is about to be stored, or was. *)
Pending(p)  == \E h \in reading : h.session = Len(session) /\ InTodo(h, p)
IsStored(p) ==
    /\ Kind[p] = "challenge" => p \in votedOn[Current.user]
    /\ Kind[p] = "appealChallenge" => p \in linked
    /\ Len(session) = 1 => userData[p].user = Current.user /\ "commit" \in userData[p].seen
NoneMissed ==
    session # <<>> => \A p \in Current.ids \cap Current.commits : Pending(p) \/ IsStored(p)

VotesInv == VotesTypes /\ VotesBegin /\ Remembered /\ ReadInTime /\ NoneMissed

LEMMA CurrentCall ==
    ASSUME VotesTypes, session # <<>>
    PROVE  /\ Len(session) \in 1 .. Len(session) /\ Len(session) \in Nat \ {0}
           /\ Current = session[Len(session)] /\ Current \in Calls
           /\ Current.user \in Users
<1>1. session \in Seq(Calls) /\ Len(session) \in Nat \ {0}
  BY DEF VotesTypes
<1>2. Len(session) \in 1 .. Len(session) /\ session[Len(session)] \in Calls
  BY <1>1
<1>3. QED
  BY <1>1, <1>2 DEF Current, Calls

LEMMA TodoCases ==
    ASSUME NEW h, h.todo \in Todos
    PROVE  /\ Head(h.todo) \in Polls /\ InTodo(h, Head(h.todo))
           /\ Tail(h.todo) = <<>> \/ \E q \in Polls : Tail(h.todo) = <<q>> /\ InTodo(h, q)
           /\ \A p : InTodo(h, p) => p \in Polls /\ (p = Head(h.todo) \/ Tail(h.todo) = <<p>>)
<1>1. ASSUME NEW p \in Polls, h.todo = <<p>>
      PROVE  /\ Head(h.todo) = p /\ Tail(h.todo) = <<>>
             /\ InTodo(h, p) /\ \A q : InTodo(h, q) => q = p
  BY <1>1 DEF InTodo
<1>2. ASSUME NEW p \in Polls, NEW q \in Polls, h.todo = <<p, q>>
      PROVE  /\ Head(h.todo) = p /\ Tail(h.todo) = <<q>>
             /\ InTodo(h, p) /\ InTodo(h, q) /\ \A r : InTodo(h, r) => r \in {p, q}
  BY <1>2 DEF InTodo
<1>3. CASE \E p \in Polls : h.todo = <<p>>
  BY <1>1, <1>3
<1>4. CASE \E p \in Polls, q \in Polls : h.todo = <<p, q>>
  BY <1>2, <1>4
<1>5. QED
  BY <1>3, <1>4 DEF Todos

(* Replacing the record of one call. *)
LEMMA CallReplaced ==
    ASSUME VotesTypes, NEW s \in DOMAIN session, NEW r \in Calls,
           session' = [session EXCEPT ![s] = r]
    PROVE  /\ session' \in Seq(Calls) /\ Len(session') = Len(session)
           /\ session # <<>> /\ session' # <<>>
           /\ s \in 1 .. Len(session)
           /\ session'[s] = r
           /\ \A t \in 1 .. Len(session) : t # s => session'[t] = session[t]
  BY DEF VotesTypes

(* Nothing is missed when handlers are only added and the last account stays. *)
LEMMA StillFound ==
    ASSUME VotesTypes, Len(session') = Len(session), session # <<>>,
           Current'.user = Current.user, reading \subseteq reading', UNCHANGED store, NEW p,
           Pending(p) \/ IsStored(p)
    PROVE  (Pending(p) \/ IsStored(p))'
<1>1. Pending(p) => Pending(p)'
  BY DEF Pending, InTodo
<1>2. IsStored(p) => IsStored(p)'
  BY DEF IsStored, store
<1>3. QED
  BY <1>1, <1>2

LEMMA VotesStart == VotesInit => VotesInv
<1> SUFFICES ASSUME VotesInit PROVE VotesInv
  OBVIOUS
<1>1. VotesTypes
  BY DEF VotesInit, VotesTypes, NoData
<1>2. VotesBegin /\ Remembered /\ ReadInTime /\ NoneMissed
  BY DEF VotesInit, VotesBegin, Remembered, ReadInTime, NoneMissed
<1>3. QED
  BY <1>1, <1>2 DEF VotesInv

------------------------------------------------------------------------------------
(* The chain. *)

(* What the chain adds: votes that are decided stay so, and nobody commits in a *)
(* poll that is decided for them.                                               *)
ChainGrows ==
    /\ started \subseteq started'
    /\ \A p \in Polls, u \in Users :
           /\ vote[p][u] \subseteq vote'[p][u]
           /\ Decided(p, u) => Decided(p, u)'
           /\ Decided(p, u) /\ "commit" \in vote'[p][u] => "commit" \in vote[p][u]

LEMMA ChainKeeps ==
    ASSUME VotesInv, ChainGrows, VotesTypes', VotesBegin',
           UNCHANGED <<session, held, known, userPolls, reading, store>>
    PROVE  VotesInv'
<1>1. Current' = Current
  BY DEF Current
<1>2. session # <<>> => Current.user \in Users /\ Current.commits \subseteq Polls
  BY CurrentCall DEF VotesInv, Calls
<1>3. Remembered'
  BY <1>1, <1>2 DEF VotesInv, Remembered, ChainGrows
<1>4. ReadInTime'
  <2> SUFFICES ASSUME Len(session) = 1 PROVE ReadInTime'
    BY DEF ReadInTime
  <2>1. session # <<>>
    <3>1. Len(<<>>) = 0
      OBVIOUS
    <3>2. QED
      BY <3>1
  <2>2. PICK u \in Users : u = Current.user
    BY <1>2, <2>1
  <2>3. /\ \A p \in userPolls : p \in Polls /\ "commit" \in vote[p][u]
        /\ \A h \in reading :
              /\ \A p \in Polls : InTodo(h, p) => Decided(p, u)
              /\ ~h.awaits /\ "commit" \in vote[Head(h.todo)][u] => "commit" \in h.seen
    BY <2>2 DEF VotesInv, VotesTypes, ReadInTime
  <2>4. \A p \in userPolls : "commit" \in vote'[p][u]
    BY <2>3 DEF ChainGrows
  <2>5. \A h \in reading : \A p \in Polls : InTodo(h, p) => Decided(p, u)'
    BY <2>3 DEF ChainGrows
  <2>6. ASSUME NEW h \in reading, ~h.awaits, "commit" \in vote'[Head(h.todo)][u]
        PROVE  "commit" \in h.seen
    <3>1. Head(h.todo) \in Polls /\ InTodo(h, Head(h.todo))
      BY TodoCases DEF VotesInv, VotesTypes, Handlers
    <3>2. "commit" \in vote[Head(h.todo)][u]
      BY <2>3, <2>6, <3>1 DEF ChainGrows
    <3>3. QED
      BY <2>3, <2>6, <3>2
  <2>7. Current'.user = u
    BY <1>1, <2>2
  <2>8. QED
    BY <2>4, <2>5, <2>6, <2>7 DEF ReadInTime, InTodo, Decided
<1>5. NoneMissed'
  <2> SUFFICES ASSUME session # <<>>, NEW p \in Current.ids \cap Current.commits
               PROVE  (Pending(p) \/ IsStored(p))'
    BY <1>1 DEF NoneMissed
  <2>1. Pending(p) \/ IsStored(p)
    BY DEF VotesInv, NoneMissed
  <2>2. QED
    BY <1>1, <2>1, StillFound DEF VotesInv
<1>6. QED
  BY <1>3, <1>4, <1>5 DEF VotesInv

LEMMA StartPollKeeps ==
    ASSUME VotesInv, NEW p \in Polls, StartPoll(p)
    PROVE  VotesInv'
<1>1. started' = started \cup {p} /\ UNCHANGED <<vote, session, held, known, userPolls, reading, store>>
  BY DEF StartPoll
<1>2. VotesTypes'
  BY <1>1 DEF VotesInv, VotesTypes, store, Handlers
<1>3. VotesBegin'
  BY <1>1 DEF VotesInv, VotesBegin
<1>4. ChainGrows
  BY <1>1 DEF ChainGrows, Decided, VotesAreIn
<1>5. QED
  BY <1>1, <1>2, <1>3, <1>4, ChainKeeps

LEMMA HappensKeeps ==
    ASSUME VotesAssumption, VotesInv, NEW p \in Polls, NEW u \in Users, NEW e \in Events,
           Happens(p, u, e)
    PROVE  VotesInv'
<1>1. /\ vote' = [vote EXCEPT ![p][u] = @ \cup {e}]
      /\ p \in started /\ e \notin vote[p][u]
      /\ UNCHANGED <<started, session, held, known, userPolls, reading, store>>
  BY DEF Happens
<1>2. e \in Acts
  BY DEF VotesAssumption, Acts
<1>3. vote \in [Polls -> [Users -> SUBSET Acts]]
  BY DEF VotesInv, VotesTypes
<1>4. vote' \in [Polls -> [Users -> SUBSET Acts]]
  BY <1>1, <1>2, <1>3
<1>5. /\ vote'[p][u] = vote[p][u] \cup {e}
      /\ \A q \in Polls, v \in Users : ~(q = p /\ v = u) => vote'[q][v] = vote[q][v]
  BY <1>1, <1>3
<1>6. VotesTypes'
  BY <1>1, <1>4 DEF VotesInv, VotesTypes, store, Handlers
<1>7. e # "commit" => "commit" \in vote[p][u]
  BY <1>2 DEF Happens, Acts, VotesInv, VotesBegin
<1>8. VotesBegin'
  <2> SUFFICES ASSUME NEW q \in Polls, NEW v \in Users, vote'[q][v] # {}
               PROVE  q \in started /\ "commit" \in vote'[q][v]
    BY <1>1 DEF VotesBegin
  <2>1. CASE q = p /\ v = u
    BY <1>1, <1>5, <1>7, <2>1
  <2>2. CASE ~(q = p /\ v = u)
    BY <1>5, <2>2 DEF VotesInv, VotesBegin
  <2>3. QED
    BY <2>1, <2>2
<1>9. ChainGrows
  <2>1. \A q : VotesAreIn(q) <=> VotesAreIn(q)'
    BY <1>1 DEF VotesAreIn
  <2>2. e = "commit" => ~VotesAreIn(p) /\ "commit" \notin vote[p][u]
    BY <1>1 DEF Happens
  <2>3. ASSUME NEW q \in Polls, NEW v \in Users
        PROVE  /\ vote[q][v] \subseteq vote'[q][v]
               /\ Decided(q, v) => Decided(q, v)'
               /\ Decided(q, v) /\ "commit" \in vote'[q][v] => "commit" \in vote[q][v]
    <3>1. vote[q][v] \subseteq vote'[q][v]
      BY <1>5
    <3>2. Decided(q, v) => Decided(q, v)'
      BY <2>1, <3>1 DEF Decided
    <3>3. Decided(q, v) /\ "commit" \in vote'[q][v] => "commit" \in vote[q][v]
      <4>1. CASE q = p /\ v = u
        BY <1>5, <2>2, <4>1 DEF Decided
      <4>2. CASE ~(q = p /\ v = u)
        BY <1>5, <4>2
      <4>3. QED
        BY <4>1, <4>2
    <3>4. QED
      BY <3>1, <3>2, <3>3
  <2>4. QED
    BY <1>1, <2>3 DEF ChainGrows
<1>10. QED
  BY <1>1, <1>6, <1>8, <1>9, ChainKeeps

------------------------------------------------------------------------------------
(* The subscriptions. *)

LEMMA AccountUnlockedKeeps ==
    ASSUME VotesInv, NEW u \in Users, AccountUnlocked(u)
    PROVE  VotesInv'
<1> DEFINE new  == [user |-> u, subscribed |-> FALSE, ofUser |-> FALSE,
                    ids |-> {}, commits |-> {}, acts |-> [p \in Polls |-> {}]]
           rest == IF held = 0 THEN session ELSE [session EXCEPT ![held].ofUser = FALSE]
<1>1. /\ session' = Append(rest, new)
      /\ known' = {} /\ userPolls' = {}
      /\ UNCHANGED <<started, vote, held, reading, userData, votedOn, linked>>
  BY DEF AccountUnlocked, chain, store
<1>2. session \in Seq(Calls) /\ held \in 0 .. Len(session)
  BY DEF VotesInv, VotesTypes
<1>3. rest \in Seq(Calls) /\ Len(rest) = Len(session)
  <2>1. CASE held = 0
    BY <1>2, <2>1
  <2>2. CASE held # 0
    <3>1. held \in 1 .. Len(session) /\ session[held] \in Calls
      BY <1>2, <2>2
    <3>2. [session[held] EXCEPT !.ofUser = FALSE] \in Calls
      BY <3>1 DEF Calls
    <3>3. rest = [session EXCEPT ![held] = [session[held] EXCEPT !.ofUser = FALSE]]
      BY <2>2
    <3>4. QED
      BY <1>2, <3>1, <3>2, <3>3
  <2>3. QED
    BY <2>1, <2>2
<1>4. new \in Calls /\ new.ids = {} /\ new.commits = {}
  BY DEF Calls
<1> HIDE DEF new, rest
<1>5. /\ session' \in Seq(Calls) /\ Len(session') = Len(session) + 1
      /\ session'[Len(session')] = new
  BY <1>1, <1>3, <1>4
<1>6. session' # <<>> /\ Current' = new
  BY <1>2, <1>5 DEF Current
<1>7. VotesTypes'
  <2>1. Handlers \subseteq Handlers'
    BY <1>2, <1>5 DEF Handlers
  <2>2. held' \in 0 .. Len(session')
    BY <1>1, <1>2, <1>5
  <2>3. QED
    BY <1>1, <1>5, <2>1, <2>2 DEF VotesInv, VotesTypes
<1>8. VotesBegin'
  BY <1>1 DEF VotesInv, VotesBegin
<1>9. Remembered'
  BY <1>4, <1>6 DEF Remembered
<1>10. ReadInTime'
  <2>1. Len(session') = 1 => session = <<>>
    BY <1>2, <1>5
  <2>2. session = <<>> => reading' = {}
    BY <1>1 DEF VotesInv, Remembered
  <2>3. QED
    BY <1>1, <2>1, <2>2 DEF ReadInTime
<1>11. NoneMissed'
  BY <1>4, <1>6 DEF NoneMissed
<1>12. QED
  BY <1>7, <1>8, <1>9, <1>10, <1>11 DEF VotesInv

(* What an event of a subscription may do: it changes the record of its call, *)
(* lets the module remember more and lets more votes be read.                  *)
LEMMA EventKeeps ==
    ASSUME VotesInv, NEW s \in DOMAIN session, NEW r \in Calls,
           session' = [session EXCEPT ![s] = r], r.user = session[s].user,
           UNCHANGED <<chain, store>>,
           held' \in 0 .. Len(session),
           known \subseteq known', known' \subseteq Polls,
           userPolls \subseteq userPolls', userPolls' \subseteq Polls,
           reading \subseteq reading',
           \A h \in reading' \ reading :
               /\ h \in Handlers /\ h.awaits
               /\ Len(session) = 1 =>
                      \A p \in Polls : InTodo(h, p) => Decided(p, session[s].user),
           Len(session) = 1 => \A p \in userPolls' : "commit" \in vote[p][session[s].user],
           s = Len(session) =>
               /\ r.ids \subseteq known' /\ r.commits \subseteq userPolls'
               /\ \A p \in r.commits : "commit" \in vote[p][r.user]
               /\ \A p \in r.ids \cap r.commits :
                      \/ p \in session[s].ids \cap session[s].commits
                      \/ \E h \in reading' : h.session = s /\ InTodo(h, p)
    PROVE  VotesInv'
<1> USE DEF VotesInv
<1>1. /\ session' \in Seq(Calls) /\ Len(session') = Len(session)
      /\ session # <<>> /\ session' # <<>> /\ s \in 1 .. Len(session)
      /\ session'[s] = r
      /\ \A t \in 1 .. Len(session) : t # s => session'[t] = session[t]
  BY CallReplaced
<1>2. /\ Len(session) \in 1 .. Len(session)
      /\ Current = session[Len(session)] /\ Current \in Calls /\ Current.user \in Users
  BY <1>1, CurrentCall
<1>3. /\ s = Len(session) => Current' = r
      /\ s # Len(session) => Current' = Current
      /\ Current'.user = Current.user
  BY <1>1, <1>2 DEF Current
<1>4. UNCHANGED <<started, vote, userData, votedOn, linked>>
  BY DEF chain, store
<1>5. VotesTypes'
  <2>1. Handlers' = Handlers
    BY <1>1 DEF Handlers
  <2>2. reading' \subseteq Handlers
    BY DEF VotesTypes
  <2>3. QED
    BY <1>1, <1>4, <2>1, <2>2 DEF VotesTypes
<1>6. VotesBegin'
  BY <1>4 DEF VotesBegin
<1>7. Remembered'
  <2>1. CASE s = Len(session)
    BY <1>1, <1>3, <1>4, <2>1 DEF Remembered
  <2>2. CASE s # Len(session)
    BY <1>1, <1>3, <1>4, <2>2 DEF Remembered
  <2>3. QED
    BY <2>1, <2>2
<1>8. ReadInTime'
  <2> SUFFICES ASSUME Len(session) = 1 PROVE ReadInTime'
    BY <1>1 DEF ReadInTime
  <2>1. s = Len(session)
    BY <1>1
  <2>2. PICK u \in Users : u = Current.user
    BY <1>2
  <2>3. u = session[s].user /\ u = Current'.user
    BY <1>2, <1>3, <2>1, <2>2
  <2>4. \A p \in userPolls' : "commit" \in vote'[p][u]
    BY <1>4, <2>3
  <2>5. ASSUME NEW h \in reading'
        PROVE  /\ \A p \in Polls : InTodo(h, p) => Decided(p, u)
               /\ ~h.awaits /\ "commit" \in vote[Head(h.todo)][u] => "commit" \in h.seen
    <3>1. CASE h \in reading
      BY <2>2, <3>1 DEF ReadInTime
    <3>2. CASE h \notin reading
      BY <2>3, <3>2
    <3>3. QED
      BY <3>1, <3>2
  <2>6. QED
    BY <1>4, <2>3, <2>4, <2>5 DEF ReadInTime, Decided, InTodo, VotesAreIn
<1>9. NoneMissed'
  <2> SUFFICES ASSUME NEW p \in (Current.ids \cap Current.commits)'
               PROVE  (Pending(p) \/ IsStored(p))'
    BY DEF NoneMissed
  <2>1. CASE p \in Current.ids \cap Current.commits
    <3>1. Pending(p) \/ IsStored(p)
      BY <1>1, <2>1 DEF NoneMissed
    <3>2. QED
      BY <1>1, <1>3, <3>1, StillFound
  <2>2. CASE p \notin Current.ids \cap Current.commits
    <3>1. s = Len(session)
      BY <1>3, <2>2
    <3>2. \E h \in reading' : h.session = s /\ InTodo(h, p)
      BY <1>2, <1>3, <2>2, <3>1
    <3>3. QED
      BY <1>1, <3>1, <3>2 DEF Pending, InTodo
  <2>3. QED
    BY <2>1, <2>2
<1>10. QED
  BY <1>5, <1>6, <1>7, <1>8, <1>9

LEMMA CallTypes ==
    ASSUME VotesInv, NEW s \in DOMAIN session
    PROVE  /\ session[s] \in Calls /\ s \in 1 .. Len(session) /\ held \in 0 .. Len(session)
           /\ session[s].user \in Users /\ session[s].ids \subseteq Polls
           /\ session[s].commits \subseteq Polls /\ session[s].acts \in [Polls -> SUBSET Acts]
           /\ s = Len(session) =>
                  /\ session[s].ids \subseteq known /\ session[s].commits \subseteq userPolls
                  /\ \A p \in session[s].commits : "commit" \in vote[p][session[s].user]
           /\ Len(session) = 1 =>
                  /\ s = Len(session)
                  /\ \A p \in userPolls : "commit" \in vote[p][session[s].user]
<1>1. session \in Seq(Calls) /\ held \in 0 .. Len(session)
  BY DEF VotesInv, VotesTypes
<1>2. session[s] \in Calls /\ s \in 1 .. Len(session) /\ session # <<>>
  BY <1>1
<1>3. s = Len(session) =>
          /\ session[s].ids \subseteq known /\ session[s].commits \subseteq userPolls
          /\ \A p \in session[s].commits : "commit" \in vote[p][session[s].user]
  BY <1>2 DEF VotesInv, Remembered, Current
<1>4. Len(session) = 1 =>
          /\ s = Len(session)
          /\ \A p \in userPolls : "commit" \in vote[p][session[s].user]
  BY <1>2 DEF VotesInv, ReadInTime, Current
<1>5. QED
  BY <1>1, <1>2, <1>3, <1>4 DEF Calls

LEMMA SubscribedKeeps ==
    ASSUME VotesInv, NEW s \in Sessions, Subscribed(s)
    PROVE  VotesInv'
<1> DEFINE acts == [p \in Polls |-> vote[p][session[s].user] \ {"commit"}]
           r    == [session[s] EXCEPT !.subscribed = TRUE, !.ofUser = TRUE, !.acts = acts]
<1>1. /\ s \in DOMAIN session /\ session' = [session EXCEPT ![s] = r] /\ held' = s
      /\ UNCHANGED <<chain, known, userPolls, reading, store>>
  BY DEF Subscribed
<1>2. /\ session[s] \in Calls /\ s \in 1 .. Len(session)
      /\ session[s].user \in Users
  BY <1>1, CallTypes
<1>3. acts \in [Polls -> SUBSET Acts]
  BY <1>2 DEF VotesInv, VotesTypes
<1>4. /\ r \in Calls /\ r.user = session[s].user
      /\ r.ids = session[s].ids /\ r.commits = session[s].commits
  <2> HIDE DEF acts
  <2>1. QED
    BY <1>2, <1>3 DEF Calls
<1> HIDE DEF r
<1>5. known \subseteq Polls /\ userPolls \subseteq Polls
  BY DEF VotesInv, VotesTypes
<1>6. Len(session) = 1 => \A p \in userPolls' : "commit" \in vote[p][session[s].user]
  BY <1>1, CallTypes
<1>7. s = Len(session) =>
          /\ r.ids \subseteq known' /\ r.commits \subseteq userPolls'
          /\ \A p \in r.commits : "commit" \in vote[p][r.user]
          /\ \A p \in r.ids \cap r.commits :
                 \/ p \in session[s].ids \cap session[s].commits
                 \/ \E h \in reading' : h.session = s /\ InTodo(h, p)
  BY <1>1, <1>4, CallTypes
<1>8. held' \in 0 .. Len(session)
  BY <1>1, <1>2
<1>9. QED
  BY <1>1, <1>4, <1>5, <1>6, <1>7, <1>8, EventKeeps

(* A handler that just began to read. *)
LEMMA HandlerBegins ==
    ASSUME NEW s \in 1 .. Len(session), NEW p \in Polls, NEW cause \in Acts \cup {"id"},
           NEW todo \in Todos
    PROVE  /\ Handler(s, p, cause, todo) \in Handlers
           /\ Handler(s, p, cause, todo).awaits
           /\ Handler(s, p, cause, todo).session = s
           /\ \A q : InTodo(Handler(s, p, cause, todo), q) <=> \E i \in DOMAIN todo : todo[i] = q
BY DEF Handler, Handlers, InTodo

LEMMA OnePoll ==
    ASSUME NEW p \in Polls
    PROVE  /\ <<p>> \in Todos
           /\ \A q : (\E i \in DOMAIN <<p>> : <<p>>[i] = q) <=> q = p
BY DEF Todos

LEMMA PollEventKeeps ==
    ASSUME VotesInv, NEW s \in Sessions, NEW p \in Polls, PollEvent(s, p)
    PROVE  VotesInv'
<1> DEFINE r == [session[s] EXCEPT !.ids = @ \cup {p}]
           h == Handler(s, p, "id", <<p>>)
<1>1. /\ s \in DOMAIN session /\ session' = [session EXCEPT ![s] = r]
      /\ known' = known \cup {p}
      /\ IF p \in userPolls THEN reading' = reading \cup {h} ELSE reading' = reading
      /\ UNCHANGED <<chain, held, userPolls, store>>
  BY DEF PollEvent, Spawn
<1>2. /\ session[s] \in Calls /\ s \in 1 .. Len(session)
      /\ held \in 0 .. Len(session)
      /\ session[s].ids \subseteq Polls
  BY <1>1, CallTypes
<1>3. /\ r \in Calls /\ r.user = session[s].user
      /\ r.ids = session[s].ids \cup {p} /\ r.commits = session[s].commits
  BY <1>2 DEF Calls
<1>4. h \in Handlers /\ h.awaits /\ h.session = s /\ \A q : InTodo(h, q) <=> q = p
  BY <1>2, HandlerBegins, OnePoll
<1> HIDE DEF r, h
<1>5. known' \subseteq Polls /\ userPolls' \subseteq Polls
  BY <1>1 DEF VotesInv, VotesTypes
<1>6. Len(session) = 1 => \A q \in userPolls' : "commit" \in vote[q][session[s].user]
  BY <1>1, CallTypes
<1>7. \A g \in reading' \ reading :
          /\ g \in Handlers /\ g.awaits
          /\ Len(session) = 1 =>
                 \A q \in Polls : InTodo(g, q) => Decided(q, session[s].user)
  BY <1>1, <1>4, <1>6 DEF Decided
<1>8. s = Len(session) =>
          /\ r.ids \subseteq known' /\ r.commits \subseteq userPolls'
          /\ \A q \in r.commits : "commit" \in vote[q][r.user]
          /\ \A q \in r.ids \cap r.commits :
                 \/ q \in session[s].ids \cap session[s].commits
                 \/ \E g \in reading' : g.session = s /\ InTodo(g, q)
  BY <1>1, <1>3, <1>4, CallTypes
<1>9. QED
  BY <1>1, <1>2, <1>3, <1>5, <1>6, <1>7, <1>8, EventKeeps

LEMMA CommitEventKeeps ==
    ASSUME VotesInv, NEW s \in Sessions, NEW p \in Polls, CommitEvent(s, p)
    PROVE  VotesInv'
<1> DEFINE r == [session[s] EXCEPT !.commits = @ \cup {p}]
           h == Handler(s, p, "commit", <<p>>)
<1>1. /\ s \in DOMAIN session /\ session' = [session EXCEPT ![s] = r]
      /\ "commit" \in vote[p][session[s].user]
      /\ userPolls' = userPolls \cup {p}
      /\ IF p \in known THEN reading' = reading \cup {h} ELSE reading' = reading
      /\ UNCHANGED <<chain, held, known, store>>
  BY DEF CommitEvent, Spawn, FoundPoll
<1>2. /\ session[s] \in Calls /\ s \in 1 .. Len(session)
      /\ held \in 0 .. Len(session)
      /\ session[s].commits \subseteq Polls
  BY <1>1, CallTypes
<1>3. /\ r \in Calls /\ r.user = session[s].user
      /\ r.ids = session[s].ids /\ r.commits = session[s].commits \cup {p}
  BY <1>2 DEF Calls
<1>4. h \in Handlers /\ h.awaits /\ h.session = s /\ \A q : InTodo(h, q) <=> q = p
  <2>1. "commit" \in Acts
    BY DEF Acts
  <2>2. QED
    BY <1>2, <2>1, HandlerBegins, OnePoll
<1> HIDE DEF r, h
<1>5. known' \subseteq Polls /\ userPolls' \subseteq Polls
  BY <1>1 DEF VotesInv, VotesTypes
<1>6. Len(session) = 1 => \A q \in userPolls' : "commit" \in vote[q][session[s].user]
  BY <1>1, CallTypes
<1>7. \A g \in reading' \ reading :
          /\ g \in Handlers /\ g.awaits
          /\ Len(session) = 1 =>
                 \A q \in Polls : InTodo(g, q) => Decided(q, session[s].user)
  BY <1>1, <1>4 DEF Decided
<1>8. s = Len(session) =>
          /\ r.ids \subseteq known' /\ r.commits \subseteq userPolls'
          /\ \A q \in r.commits : "commit" \in vote[q][r.user]
          /\ \A q \in r.ids \cap r.commits :
                 \/ q \in session[s].ids \cap session[s].commits
                 \/ \E g \in reading' : g.session = s /\ InTodo(g, q)
  BY <1>1, <1>3, <1>4, CallTypes
<1>9. QED
  BY <1>1, <1>2, <1>3, <1>5, <1>6, <1>7, <1>8, EventKeeps

(* An appeal challenge's vote is read after that in the challenge, where nobody *)
(* commits any more.                                                             *)
LEMMA ActEventKeeps ==
    ASSUME VotesAssumption, VotesInv, NEW s \in Sessions, NEW p \in Polls, NEW e \in Events,
           ActEvent(s, p, e)
    PROVE  VotesInv'
<1> DEFINE acts == [session[s].acts EXCEPT ![p] = @ \cup {e}]
           r    == [session[s] EXCEPT !.acts = acts]
           todo == IF Kind[p] = "appealChallenge" THEN <<Parent[p], p>> ELSE <<p>>
           h    == Handler(s, p, e, todo)
<1>1. /\ s \in DOMAIN session /\ session' = [session EXCEPT ![s] = r]
      /\ e \in vote[p][session[s].user]
      /\ reading' = reading \cup {h}
      /\ UNCHANGED <<chain, held, known, userPolls, store>>
  BY DEF ActEvent, Spawn
<1>2. /\ session[s] \in Calls /\ s \in 1 .. Len(session)
      /\ held \in 0 .. Len(session) /\ session[s].user \in Users
      /\ session[s].acts \in [Polls -> SUBSET Acts]
  BY <1>1, CallTypes
<1>3. e \in Acts /\ Parent[p] \in Polls
  BY DEF VotesAssumption, Acts
<1>4. acts \in [Polls -> SUBSET Acts]
  BY <1>2, <1>3
<1>5. /\ r \in Calls /\ r.user = session[s].user
      /\ r.ids = session[s].ids /\ r.commits = session[s].commits
  <2> HIDE DEF acts
  <2>1. QED
    BY <1>2, <1>4 DEF Calls
<1>6. todo \in Todos /\ \A q : (\E i \in DOMAIN todo : todo[i] = q) => q \in {Parent[p], p}
  BY <1>3 DEF Todos
<1>7. h \in Handlers /\ h.awaits /\ \A q : InTodo(h, q) => q \in {Parent[p], p}
  <2> HIDE DEF todo
  <2>1. QED
    BY <1>2, <1>3, <1>6, HandlerBegins
<1>8. p \in started /\ "commit" \in vote[p][session[s].user]
  BY <1>1, <1>2 DEF VotesInv, VotesBegin
<1>9. Decided(Parent[p], session[s].user) /\ Decided(p, session[s].user)
  BY <1>8 DEF Decided, VotesAreIn
<1> HIDE DEF r, h
<1>10. known' \subseteq Polls /\ userPolls' \subseteq Polls
  BY <1>1 DEF VotesInv, VotesTypes
<1>11. Len(session) = 1 => \A q \in userPolls' : "commit" \in vote[q][session[s].user]
  BY <1>1, CallTypes
<1>12. \A g \in reading' \ reading :
          /\ g \in Handlers /\ g.awaits
          /\ Len(session) = 1 =>
                 \A q \in Polls : InTodo(g, q) => Decided(q, session[s].user)
  BY <1>1, <1>7, <1>9
<1>13. s = Len(session) =>
          /\ r.ids \subseteq known' /\ r.commits \subseteq userPolls'
          /\ \A q \in r.commits : "commit" \in vote[q][r.user]
          /\ \A q \in r.ids \cap r.commits :
                 \/ q \in session[s].ids \cap session[s].commits
                 \/ \E g \in reading' : g.session = s /\ InTodo(g, q)
  BY <1>1, <1>5, CallTypes
<1>14. QED
  BY <1>1, <1>2, <1>5, <1>10, <1>11, <1>12, <1>13, EventKeeps

------------------------------------------------------------------------------------
(* Reading and storing. *)

LEMMA HandlerTypes ==
    ASSUME VotesInv, NEW h \in reading
    PROVE  /\ h \in Handlers /\ h.todo \in Todos /\ h.session \in 1 .. Len(session)
           /\ session # <<>> /\ session[h.session].user \in Users
           /\ h.session = Len(session) => session[h.session] = Current
           /\ Len(session) = 1 => session[h.session] = Current
<1>1. session \in Seq(Calls) /\ h \in Handlers
  BY DEF VotesInv, VotesTypes
<1>2. h.todo \in Todos /\ h.session \in 1 .. Len(session)
  BY <1>1 DEF Handlers
<1>3. session # <<>> /\ session[h.session] \in Calls
  BY <1>1, <1>2
<1>4. Len(session) = 1 => h.session = Len(session)
  BY <1>1, <1>2
<1>5. QED
  BY <1>1, <1>2, <1>3, <1>4 DEF Calls, Current

LEMMA ReadKeeps ==
    ASSUME VotesInv, NEW h \in reading, Read(h)
    PROVE  VotesInv'
<1> DEFINE now == vote[Head(h.todo)][session[h.session].user]
           g   == [h EXCEPT !.awaits = FALSE, !.seen = now]
<1>1. /\ reading' = (reading \ {h}) \cup {g}
      /\ UNCHANGED <<started, vote, session, held, known, userPolls, userData, votedOn, linked>>
  BY DEF Read, chain, store
<1>2. /\ h \in Handlers /\ h.todo \in Todos
      /\ session # <<>> /\ session[h.session].user \in Users
      /\ Len(session) = 1 => session[h.session] = Current
  BY HandlerTypes
<1>3. Head(h.todo) \in Polls
  BY <1>2, TodoCases
<1>4. now \subseteq Acts
  BY <1>2, <1>3 DEF VotesInv, VotesTypes
<1>5. /\ g \in Handlers
      /\ g.session = h.session /\ g.todo = h.todo /\ ~g.awaits /\ g.seen = now
  <2> HIDE DEF now
  <2>1. QED
    BY <1>2, <1>4 DEF Handlers
<1>6. Len(session) = 1 => g.seen = vote[Head(g.todo)][Current.user]
  BY <1>2, <1>5
<1> HIDE DEF g, now
<1>7. VotesTypes'
  BY <1>1, <1>5 DEF VotesInv, VotesTypes, Handlers
<1>8. VotesBegin' /\ Remembered'
  BY <1>1, <1>2 DEF VotesInv, VotesBegin, Remembered, Current
<1>9. ReadInTime'
  <2> SUFFICES ASSUME Len(session) = 1 PROVE ReadInTime'
    BY <1>1 DEF ReadInTime
  <2>1. ASSUME NEW f \in reading'
        PROVE  /\ \A p \in Polls : InTodo(f, p) => Decided(p, Current.user)
               /\ ~f.awaits /\ "commit" \in vote[Head(f.todo)][Current.user] =>
                      "commit" \in f.seen
    <3>1. CASE f \in reading
      BY <3>1 DEF VotesInv, ReadInTime
    <3>2. CASE f = g
      <4>1. \A p : InTodo(g, p) <=> InTodo(h, p)
        BY <1>5 DEF InTodo
      <4>2. QED
        BY <1>6, <3>2, <4>1 DEF VotesInv, ReadInTime
    <3>3. QED
      BY <1>1, <3>1, <3>2
  <2>2. QED
    BY <1>1, <2>1 DEF VotesInv, ReadInTime, Current, Decided, InTodo, VotesAreIn
<1>10. NoneMissed'
  <2> SUFFICES ASSUME NEW p \in Current.ids \cap Current.commits
               PROVE  (Pending(p) \/ IsStored(p))'
    BY <1>1, <1>2 DEF NoneMissed, Current
  <2>1. Pending(p) => Pending(p)'
    BY <1>1, <1>5 DEF Pending, InTodo
  <2>2. IsStored(p) => IsStored(p)'
    BY <1>1 DEF IsStored, Current
  <2>3. QED
    BY <1>2, <2>1, <2>2 DEF VotesInv, NoneMissed
<1>11. QED
  BY <1>7, <1>8, <1>9, <1>10 DEF VotesInv

LEMMA StoreKeeps ==
    ASSUME VotesInv, NEW h \in reading, Store(h)
    PROVE  VotesInv'
<1> DEFINE p    == Head(h.todo)
           rest == Tail(h.todo)
           u    == session[h.session].user
           g    == Handler(h.session, h.poll, h.cause, rest)
<1>1. /\ ~h.awaits
      /\ userData' = [userData EXCEPT ![p] = [user |-> u, seen |-> h.seen]]
      /\ votedOn' = IF Kind[p] = "challenge" THEN [votedOn EXCEPT ![u] = @ \cup {p}] ELSE votedOn
      /\ linked' = IF Kind[p] = "appealChallenge" THEN linked \cup {p} ELSE linked
      /\ reading' = (reading \ {h}) \cup IF rest = <<>> THEN {} ELSE {g}
      /\ UNCHANGED <<started, vote, session, held, known, userPolls>>
  BY DEF Store, chain
<1>2. /\ h \in Handlers /\ h.todo \in Todos /\ h.session \in 1 .. Len(session)
      /\ session # <<>> /\ u \in Users
      /\ h.session = Len(session) => session[h.session] = Current
      /\ Len(session) = 1 => session[h.session] = Current
  BY HandlerTypes
<1>3. p \in Polls /\ h.seen \subseteq Acts /\ h.poll \in Polls /\ h.cause \in Acts \cup {"id"}
  BY <1>2, TodoCases DEF Handlers
<1>4. rest # <<>> =>
          /\ g \in Handlers /\ g.awaits /\ g.session = h.session
          /\ \A q : InTodo(g, q) => InTodo(h, q) /\ rest = <<q>>
          /\ \A q : rest = <<q>> => InTodo(g, q)
  <2> SUFFICES ASSUME rest # <<>>
               PROVE  /\ g \in Handlers /\ g.awaits /\ g.session = h.session
                      /\ \A q : InTodo(g, q) => InTodo(h, q) /\ rest = <<q>>
                      /\ \A q : rest = <<q>> => InTodo(g, q)
    OBVIOUS
  <2>1. PICK q \in Polls : rest = <<q>> /\ InTodo(h, q)
    BY <1>2, TodoCases
  <2>2. /\ g \in Handlers /\ g.awaits /\ g.session = h.session
        /\ \A r : InTodo(g, r) <=> r = q
    <3>1. g = Handler(h.session, h.poll, h.cause, <<q>>)
      BY <2>1
    <3>2. /\ <<q>> \in Todos
          /\ \A r : (\E i \in DOMAIN <<q>> : <<q>>[i] = r) <=> r = q
      BY OnePoll
    <3>3. PICK t \in Todos : t = <<q>>
      BY <3>2
    <3>4. ASSUME NEW s \in 1 .. Len(session), NEW k \in Polls, NEW c \in Acts \cup {"id"}
          PROVE  /\ Handler(s, k, c, t) \in Handlers /\ Handler(s, k, c, t).awaits
                 /\ Handler(s, k, c, t).session = s
                 /\ \A r : InTodo(Handler(s, k, c, t), r) <=> \E i \in DOMAIN t : t[i] = r
      BY HandlerBegins
    <3> HIDE DEF g
    <3>5. QED
      BY <1>2, <1>3, <3>1, <3>2, <3>3, <3>4
  <2>3. \A r : <<q>> = <<r>> => q = r
    OBVIOUS
  <2> HIDE DEF g, rest
  <2>4. QED
    BY <2>1, <2>2, <2>3
<1>5. \A q : InTodo(h, q) => q = p \/ rest = <<q>>
  BY <1>2, TodoCases
<1> HIDE DEF p, rest, g, u
<1>6. VotesTypes'
  <2>1. userData' \in [Polls -> [user : Users \cup {"nobody"}, seen : SUBSET Acts]]
    BY <1>1, <1>2, <1>3 DEF VotesInv, VotesTypes
  <2>2. votedOn' \in [Users -> SUBSET Polls] /\ linked' \subseteq Polls
    BY <1>1, <1>2, <1>3 DEF VotesInv, VotesTypes
  <2>3. reading' \subseteq Handlers
    BY <1>1, <1>4 DEF VotesInv, VotesTypes
  <2>4. Handlers' = Handlers
    BY <1>1 DEF Handlers
  <2>5. QED
    BY <1>1, <2>1, <2>2, <2>3, <2>4 DEF VotesInv, VotesTypes
<1>7. VotesBegin' /\ Remembered'
  BY <1>1, <1>2 DEF VotesInv, VotesBegin, Remembered, Current
<1>8. ReadInTime'
  <2> SUFFICES ASSUME Len(session) = 1 PROVE ReadInTime'
    BY <1>1 DEF ReadInTime
  <2>1. ASSUME NEW f \in reading'
        PROVE  /\ \A q \in Polls : InTodo(f, q) => Decided(q, Current.user)
               /\ ~f.awaits /\ "commit" \in vote[Head(f.todo)][Current.user] =>
                      "commit" \in f.seen
    <3>1. CASE f \in reading
      BY <3>1 DEF VotesInv, ReadInTime
    <3>2. CASE rest # <<>> /\ f = g
      BY <1>4, <3>2 DEF VotesInv, ReadInTime
    <3>3. QED
      BY <1>1, <3>1, <3>2
  <2>2. QED
    BY <1>1, <2>1 DEF VotesInv, ReadInTime, Current, Decided, InTodo, VotesAreIn
<1>9. NoneMissed'
  <2> SUFFICES ASSUME NEW q \in Current.ids \cap Current.commits
               PROVE  (Pending(q) \/ IsStored(q))'
    BY <1>1, <1>2 DEF NoneMissed, Current
  <2>1. Pending(q) \/ IsStored(q)
    BY <1>2 DEF VotesInv, NoneMissed
  <2>2. q \in Polls /\ Current.user \in Users
    BY <1>2, CurrentCall DEF VotesInv, Calls
  <2>3. Len(session) = 1 /\ q = p => userData'[q].user = Current.user /\ "commit" \in userData'[q].seen
    <3> SUFFICES ASSUME Len(session) = 1, q = p
                 PROVE  userData'[q].user = Current.user /\ "commit" \in userData'[q].seen
      OBVIOUS
    <3>1. "commit" \in vote[q][Current.user]
      BY <1>2 DEF VotesInv, Remembered
    <3>2. "commit" \in h.seen
      BY <1>1, <3>1 DEF VotesInv, ReadInTime, p
    <3>3. userData'[p] = [user |-> u, seen |-> h.seen]
      BY <1>1, <1>3 DEF VotesInv, VotesTypes
    <3>4. u = Current.user
      BY <1>2 DEF u
    <3>5. QED
      BY <3>2, <3>3, <3>4
  <2>4. q # p => userData'[q] = userData[q]
    BY <1>1, <2>2 DEF VotesInv, VotesTypes
  <2>5. votedOn[Current.user] \subseteq votedOn'[Current.user] /\ linked \subseteq linked'
    BY <1>1, <1>2, <2>2 DEF VotesInv, VotesTypes
  <2>6. ASSUME IsStored(q) PROVE IsStored(q)'
    <3>1. Current' = Current
      BY <1>1 DEF Current
    <3>2. QED
      BY <1>1, <2>3, <2>4, <2>5, <2>6, <3>1 DEF IsStored
  <2>7. ASSUME NEW f \in reading, f # h, f.session = Len(session), InTodo(f, q) PROVE Pending(q)'
    BY <1>1, <2>7 DEF Pending, InTodo
  <2>8. ASSUME h.session = Len(session), InTodo(h, q) PROVE (Pending(q) \/ IsStored(q))'
    <3>1. CASE rest = <<q>>
      <4>1. rest # <<>>
        <5>1. <<q>> # <<>>
          OBVIOUS
        <5>2. QED
          BY <3>1, <5>1
      <4>2. g \in reading' /\ g.session = Len(session) /\ InTodo(g, q)
        BY <1>1, <1>4, <2>8, <3>1, <4>1
      <4>3. QED
        BY <1>1, <4>2 DEF Pending, InTodo
    <3>2. CASE q = p
      <4>1. u = Current.user /\ Current' = Current
        BY <1>1, <1>2, <2>8 DEF u, Current
      <4>2. Kind[q] = "challenge" => q \in votedOn'[Current.user]
        BY <1>1, <2>2, <3>2, <4>1 DEF VotesInv, VotesTypes
      <4>3. Kind[q] = "appealChallenge" => q \in linked'
        BY <1>1, <3>2
      <4>4. IsStored(q)'
        BY <1>1, <2>3, <3>2, <4>1, <4>2, <4>3 DEF IsStored
      <4>5. QED
        BY <4>4
    <3>3. QED
      BY <1>5, <2>8, <3>1, <3>2
  <2>9. QED
    BY <2>1, <2>6, <2>7, <2>8 DEF Pending
<1>10. QED
  BY <1>6, <1>7, <1>8, <1>9 DEF VotesInv

LEMMA VotesStep ==
    ASSUME VotesAssumption, VotesInv, [VotesNext]_votesVars
    PROVE  VotesInv'
<1>1. CASE UNCHANGED votesVars
  <2>1. UNCHANGED <<started, vote, session, held, known, userPolls, reading, userData, votedOn,
                    linked>>
    BY <1>1 DEF votesVars, chain, store
  <2>2. VotesTypes' /\ VotesBegin' /\ Remembered'
    BY <2>1 DEF VotesInv, VotesTypes, Handlers, VotesBegin, Remembered, Current
  <2>3. ReadInTime'
    BY <2>1 DEF VotesInv, ReadInTime, Current, Decided, InTodo, VotesAreIn
  <2>4. NoneMissed'
    BY <2>1 DEF VotesInv, NoneMissed, Current, Pending, InTodo, IsStored
  <2>5. QED
    BY <2>2, <2>3, <2>4 DEF VotesInv
<1>2. ASSUME NEW p \in Polls, StartPoll(p) PROVE VotesInv'
  BY <1>2, StartPollKeeps
<1>3. ASSUME NEW p \in Polls, NEW u \in Users, NEW e \in Events, Happens(p, u, e) PROVE VotesInv'
  BY <1>3, HappensKeeps
<1>4. ASSUME NEW u \in Users, AccountUnlocked(u) PROVE VotesInv'
  BY <1>4, AccountUnlockedKeeps
<1>5. ASSUME NEW s \in Sessions, Subscribed(s) PROVE VotesInv'
  BY <1>5, SubscribedKeeps
<1>6. ASSUME NEW s \in Sessions, NEW p \in Polls, PollEvent(s, p) \/ CommitEvent(s, p)
      PROVE  VotesInv'
  BY <1>6, PollEventKeeps, CommitEventKeeps
<1>7. ASSUME NEW s \in Sessions, NEW p \in Polls, NEW e \in Events, ActEvent(s, p, e)
      PROVE  VotesInv'
  BY <1>7, ActEventKeeps
<1>8. ASSUME NEW h \in reading, Read(h) \/ Store(h) PROVE VotesInv'
  BY <1>8, ReadKeeps, StoreKeeps
<1>9. QED
  BY <1>1, <1>2, <1>3, <1>4, <1>5, <1>6, <1>7, <1>8 DEF VotesNext

(* In whatever order the events of polls and votes are heard of, and however    *)
(* long their votes take to read, every vote of the last account is found, for  *)
(* any number of polls, accounts and unlocked accounts.                          *)
THEOREM VotesAreFound ==
    ASSUME VotesAssumption
    PROVE  VotesSpec => []VotesFound
<1>1. VotesInit => VotesInv
  BY VotesStart
<1>2. VotesInv /\ [VotesNext]_votesVars => VotesInv'
  BY VotesStep
<1>3. VotesInv => VotesFound
  <2> SUFFICES ASSUME VotesInv, CaughtUp, NEW p \in Polls, "commit" \in vote[p][Current.user]
               PROVE  IsStored(p)
    BY DEF VotesFound, IsStored
  <2>1. session # <<>> /\ ~Pending(p)
    BY DEF CaughtUp, Pending
  <2>2. Current.user \in Users
    BY <2>1, CurrentCall DEF VotesInv
  <2>3. p \in started
    BY <2>2 DEF VotesInv, VotesBegin
  <2>4. p \in Current.ids \cap Current.commits
    BY <2>3 DEF CaughtUp
  <2>5. QED
    BY <2>1, <2>4 DEF VotesInv, NoneMissed
<1>4. QED
  BY <1>1, <1>2, <1>3, PTL DEF VotesSpec

------------------------------------------------------------------------------------
(* The modals of a page: their places. *)

Places   == [Modals -> Nat]
Over(h, m)  == h[m] # 0 /\ \A n \in Modals : h[n] <= h[m]
Distinct(h) == \A m, n \in Modals : h[m] = h[n] /\ h[m] # 0 => m = n

(* Of the modals without buttons, only those are open that the page's steps show; *)
(* the waiting and the progress modal are on top when they are open; and at most   *)
(* one modal tells of a failure.                                                   *)
Tidy(h) ==
    /\ h \in Places /\ Distinct(h)
    /\ \A w \in {"waiting", "progress"} : h[w] # 0 => Over(h, w)
    /\ \A w \in {"waiting", "progress", "ipfs"} : h[w] # 0 => w \in ShownBy(Page[flow])
    /\ h["error"] # 0 => h["rejection"] = 0

LEMMA HighestPlace ==
    ASSUME NEW h \in Places
    PROVE  /\ \E m \in Modals : \A n \in Modals : h[n] <= h[m]
           /\ Max({h[m] : m \in Modals}) \in Nat
           /\ \A n \in Modals : h[n] <= Max({h[m] : m \in Modals})
<1> DEFINE Highest(S) == \E m \in S : \A n \in S : h[n] <= h[m]
<1>1. \A m \in Modals : h[m] \in Nat
  BY DEF Places
<1>2. Highest({"waiting", "progress"})
  BY <1>1 DEF Modals
<1>3. Highest({"waiting", "progress", "ipfs"})
  BY <1>1, <1>2 DEF Modals
<1>4. Highest({"waiting", "progress", "ipfs", "success"})
  BY <1>1, <1>3 DEF Modals
<1>5. Highest({"waiting", "progress", "ipfs", "success", "error"})
  BY <1>1, <1>4 DEF Modals
<1>6. Highest(Modals)
  BY <1>1, <1>5 DEF Modals
<1>7. PICK m \in Modals : \A n \in Modals : h[n] <= h[m]
  BY <1>6
<1> DEFINE V == {h[n] : n \in Modals}
<1>8. h[m] \in V /\ \A y \in V : h[m] >= y
  BY <1>1, <1>7
<1>9. Max(V) \in V /\ \A y \in V : Max(V) >= y
  BY <1>8 DEF Max
<1>10. QED
  BY <1>1, <1>7, <1>9

LEMMA TopIsHighest ==
    ASSUME open \in Places, Distinct(open)
    PROVE  /\ Top = "none" <=> open = NoModals
           /\ \A m \in Modals : Top = m <=> OnTop(m)
           /\ \A m \in Modals : OnTop(m) <=> Over(open, m)
<1>1. "none" \notin Modals
  BY DEF Modals
<1>2. open # NoModals => \E m \in Modals : OnTop(m)
  <2> SUFFICES ASSUME open # NoModals PROVE \E m \in Modals : OnTop(m)
    OBVIOUS
  <2>1. PICK n \in Modals : open[n] # 0
    BY DEF NoModals, Places
  <2>2. PICK m \in Modals : \A k \in Modals : open[k] <= open[m]
    BY HighestPlace
  <2>3. open[m] # 0
    BY <2>1, <2>2 DEF Places
  <2>4. QED
    BY <2>2, <2>3 DEF OnTop, IsOpen
<1>3. \A m, n \in Modals : OnTop(m) /\ OnTop(n) => m = n
  BY DEF OnTop, IsOpen, Distinct, Places
<1>4. open = NoModals => \A m \in Modals : ~OnTop(m)
  BY DEF OnTop, IsOpen, NoModals
<1>5. \A m \in Modals : OnTop(m) <=> Over(open, m)
  BY DEF OnTop, IsOpen, Over
<1>6. open # NoModals => Top \in Modals /\ OnTop(Top)
  BY <1>2 DEF Top
<1>7. open = NoModals => Top = "none"
  BY DEF Top
<1>8. QED
  BY <1>1, <1>3, <1>4, <1>5, <1>6, <1>7

LEMMA ShutPlaces ==
    ASSUME NEW h \in Places, NEW S
    PROVE  /\ Shut(h, S) \in Places
           /\ \A m \in Modals : Shut(h, S)[m] = IF m \in S THEN 0 ELSE h[m]
           /\ Distinct(h) => Distinct(Shut(h, S))
           /\ \A m \in Modals : Over(h, m) /\ m \notin S => Over(Shut(h, S), m)
<1>1. /\ Shut(h, S) \in Places
      /\ \A m \in Modals : Shut(h, S)[m] = IF m \in S THEN 0 ELSE h[m]
  BY DEF Shut, Places
<1>2. \A m \in Modals : h[m] \in Nat
  BY DEF Places
<1>3. Distinct(h) => Distinct(Shut(h, S))
  BY <1>1 DEF Distinct
<1>4. \A m \in Modals : Over(h, m) /\ m \notin S => Over(Shut(h, S), m)
  BY <1>1, <1>2 DEF Over
<1>5. QED
  BY <1>1, <1>3, <1>4

LEMMA ShowPlaces ==
    ASSUME NEW h \in Places, NEW m \in Modals
    PROVE  /\ Show(h, m) \in Places
           /\ Show(h, m)[m] # 0
           /\ \A n \in Modals : n # m => Show(h, m)[n] = h[n]
           /\ Distinct(h) => Distinct(Show(h, m))
           /\ h[m] = 0 => Over(Show(h, m), m)
           /\ h[m] # 0 => Show(h, m) = h
<1> DEFINE top == Max({h[n] : n \in Modals})
<1>1. top \in Nat /\ \A n \in Modals : h[n] <= top /\ h[n] \in Nat
  BY HighestPlace DEF Places
<1>2. CASE h[m] # 0
  BY <1>2 DEF Show
<1>3. CASE h[m] = 0
  <2>1. Show(h, m) = [h EXCEPT ![m] = 1 + top]
    BY <1>3 DEF Show
  <2> HIDE DEF top
  <2>2. /\ Show(h, m) \in Places /\ Show(h, m)[m] = 1 + top
        /\ \A n \in Modals : n # m => Show(h, m)[n] = h[n]
    BY <1>1, <2>1 DEF Places
  <2>3. Distinct(h) => Distinct(Show(h, m))
    BY <1>1, <2>2 DEF Distinct
  <2>4. Over(Show(h, m), m)
    BY <1>1, <2>2 DEF Over
  <2>5. QED
    BY <1>1, <1>3, <2>2, <2>3, <2>4
<1>4. QED
  BY <1>2, <1>3

(* Shutting some modals and showing another: it is on top if it was not open, or *)
(* was on top already.                                                            *)
LEMMA ShutAndShow ==
    ASSUME NEW h \in Places, Distinct(h), NEW S, NEW m \in Modals
    PROVE  LET g == Show(Shut(h, S), m)
           IN  /\ g \in Places /\ Distinct(g)
               /\ g[m] # 0
               /\ \A n \in Modals : n # m => g[n] = IF n \in S THEN 0 ELSE h[n]
               /\ (h[m] # 0 => m \in S \/ Over(h, m)) => Over(g, m)
<1> DEFINE s == Shut(h, S)
           g == Show(s, m)
<1>1. /\ s \in Places /\ Distinct(s)
      /\ \A n \in Modals : s[n] = IF n \in S THEN 0 ELSE h[n]
      /\ Over(h, m) /\ m \notin S => Over(s, m)
  BY ShutPlaces
<1> HIDE DEF s
<1>2. /\ g \in Places /\ Distinct(g) /\ g[m] # 0
      /\ \A n \in Modals : n # m => g[n] = s[n]
      /\ s[m] = 0 => Over(g, m)
      /\ s[m] # 0 => g = s
  BY <1>1, ShowPlaces
<1>3. (h[m] # 0 => m \in S \/ Over(h, m)) => Over(g, m)
  BY <1>1, <1>2
<1>4. QED
  BY <1>1, <1>2, <1>3 DEF s

------------------------------------------------------------------------------------
(* What a page's table provides, and what updates make of tidy modals. *)

LEMMA StepFacts ==
    ASSUME FlowAssumption, flow \in DOMAIN Page, NEW k \in 1 .. Len(Steps)
    PROVE  /\ Steps[k].opens \in {"waiting", "progress", "ipfs"} \cap ShownBy(Page[flow])
           /\ Steps[k].hash \in {"progress", "waiting", "none"}
           /\ Steps[k].hash \in ShownBy(Page[flow])
           /\ Steps[k].shuts \subseteq Modals /\ "success" \in Steps[k].shuts
           /\ (ShownBy(Page[flow]) \cap {"waiting", "progress"}) \ {Steps[k].opens} \subseteq Steps[k].shuts
           /\ Steps[k].post \in BOOLEAN
           /\ Steps[k].denial \in {"rejection", "error", "unhandled"}
<1>1. /\ \A j \in DOMAIN Page[flow].steps :
             /\ Page[flow].steps[j].opens \in {"waiting", "progress", "ipfs"}
             /\ (ShownBy(Page[flow]) \cap {"waiting", "progress"}) \ {Page[flow].steps[j].opens}
                    \subseteq Page[flow].steps[j].shuts
             /\ "success" \in Page[flow].steps[j].shuts
      /\ Page[flow].steps \in Seq(Step)
  BY DEF FlowAssumption, WellMade, IsPage
<1>2. Steps = Page[flow].steps
  BY DEF Steps
<1>3. k \in DOMAIN Steps /\ Steps[k] \in Step
  BY <1>1, <1>2
<1>4. Steps[k].opens \in ShownBy(Page[flow]) /\ Steps[k].hash \in ShownBy(Page[flow])
  BY <1>2, <1>3 DEF ShownBy
<1>5. QED
  BY <1>1, <1>2, <1>3, <1>4 DEF Step

LEMMA PageFacts ==
    ASSUME FlowAssumption, flow \in DOMAIN Page
    PROVE  /\ Len(Steps) \in Nat \ {0} /\ 1 \in 1 .. Len(Steps) /\ Len(Steps) \in 1 .. Len(Steps)
           /\ "nothing" \notin Steps[Len(Steps)].answers
           /\ Page[flow].finish = "nothing" => Steps[Len(Steps)].post
           /\ Page[flow].finish \in {"success", "leave", "nothing"}
           /\ Page[flow].ok \in {"closeAll", "closeSuccess", "leave"}
           /\ "ipfs" \in ShownBy(Page[flow]) =>
                  /\ Page[flow].ok = "leave"
                  /\ ~RetrySafe
<1>1. IsPage(Page[flow]) /\ WellMade(Page[flow]) /\ Steps = Page[flow].steps
  BY DEF FlowAssumption, Steps
<1>2. Steps \in Seq(Step) /\ Steps # <<>>
  BY <1>1 DEF IsPage
<1>3. Len(Steps) \in Nat \ {0}
  BY <1>2
<1>4. 1 \in 1 .. Len(Steps) /\ Len(Steps) \in 1 .. Len(Steps)
  BY <1>3
<1>5. ASSUME "ipfs" \in ShownBy(Page[flow])
      PROVE  \E k \in 1 .. Len(Steps) : Steps[k].opens = "ipfs"
  <2>1. PICK k \in DOMAIN Steps : "ipfs" \in {Steps[k].opens, Steps[k].hash}
    BY <1>1, <1>5 DEF ShownBy
  <2>2. k \in 1 .. Len(Steps)
    BY <1>2, <2>1
  <2>3. Steps[k].hash # "ipfs"
    BY <2>2, StepFacts
  <2>4. QED
    BY <2>1, <2>2, <2>3
<1>6. \A k \in 1 .. Len(Steps) : Steps[k].opens = "ipfs" => Page[flow].ok = "leave"
  BY <1>1, <1>2 DEF WellMade
<1>7. QED
  BY <1>1, <1>3, <1>4, <1>5, <1>6 DEF IsPage, WellMade, RetrySafe

LEMMA ShutKeepsTidy ==
    ASSUME NEW h, Tidy(h), NEW S
    PROVE  /\ Tidy(Shut(h, S))
           /\ \A m \in Modals : Shut(h, S)[m] = IF m \in S THEN 0 ELSE h[m]
<1>1. /\ Shut(h, S) \in Places /\ Distinct(Shut(h, S))
      /\ \A m \in Modals : Shut(h, S)[m] = IF m \in S THEN 0 ELSE h[m]
      /\ \A m \in Modals : Over(h, m) /\ m \notin S => Over(Shut(h, S), m)
  BY ShutPlaces DEF Tidy
<1>2. QED
  BY <1>1 DEF Tidy, Modals

LEMMA NoModalsTidy == Tidy(NoModals) /\ \A m \in Modals : NoModals[m] = 0
BY DEF Tidy, NoModals, Places, Distinct, Modals

(* Showing one of the waiting and progress modals after shutting the other. *)
LEMMA BusyModals ==
    ASSUME NEW h, Tidy(h), NEW w \in {"waiting", "progress"} \cap ShownBy(Page[flow]), NEW S,
           \A v \in {"waiting", "progress"} : v # w => h[v] = 0 \/ v \in S
    PROVE  LET g == Show(Shut(h, S), w)
           IN  /\ Tidy(g) /\ g[w] # 0
               /\ \A m \in Modals : m # w => g[m] = IF m \in S THEN 0 ELSE h[m]
<1> DEFINE g == Show(Shut(h, S), w)
<1>1. w \in Modals /\ h \in Places /\ Distinct(h) /\ (h[w] # 0 => Over(h, w))
  BY DEF Tidy, Modals
<1>2. /\ g \in Places /\ Distinct(g) /\ g[w] # 0 /\ Over(g, w)
      /\ \A m \in Modals : m # w => g[m] = IF m \in S THEN 0 ELSE h[m]
  BY <1>1, ShutAndShow
<1> HIDE DEF g
<1>3. Tidy(g)
  BY <1>2 DEF Tidy, Modals
<1>4. QED
  BY <1>2, <1>3 DEF g

LEMMA HashModals ==
    ASSUME FlowAssumption, flow \in DOMAIN Page, NEW k \in 1 .. Len(Steps), NEW h, Tidy(h)
    PROVE  LET g == WithHash(Steps[k], h)
           IN  /\ Tidy(g)
               /\ \A m \in {"ipfs", "success", "error", "rejection"} : g[m] = h[m]
               /\ h["waiting"] # 0 \/ h["progress"] # 0 => g["waiting"] # 0 \/ g["progress"] # 0
<1> DEFINE g == WithHash(Steps[k], h)
<1>1. Steps[k].hash \in {"progress", "waiting", "none"} \cap ShownBy(Page[flow])
  BY StepFacts
<1>2. CASE Steps[k].hash = "none"
  BY <1>2 DEF WithHash
<1>3. CASE Steps[k].hash = "progress"
  <2>1. g = Show(Shut(h, {"waiting"}), "progress")
    BY <1>3 DEF WithHash
  <2>2. /\ Tidy(g) /\ g["progress"] # 0
        /\ \A m \in Modals : m # "progress" => g[m] = IF m \in {"waiting"} THEN 0 ELSE h[m]
    BY <1>1, <1>3, <2>1, BusyModals
  <2>3. QED
    BY <2>2 DEF Modals
<1>4. CASE Steps[k].hash = "waiting"
  <2>1. g = Show(Shut(h, {"progress"}), "waiting")
    BY <1>4 DEF WithHash
  <2>2. /\ Tidy(g) /\ g["waiting"] # 0
        /\ \A m \in Modals : m # "waiting" => g[m] = IF m \in {"progress"} THEN 0 ELSE h[m]
    BY <1>1, <1>4, <2>1, BusyModals
  <2>3. QED
    BY <2>2 DEF Modals
<1>5. QED
  BY <1>1, <1>2, <1>3, <1>4

LEMMA SuccessModals ==
    ASSUME NEW h, Tidy(h)
    PROVE  LET g == WithSuccess(h)
           IN  /\ Tidy(g) /\ g["success"] # 0 /\ g["waiting"] = 0 /\ g["progress"] = 0
               /\ \A m \in {"ipfs", "error", "rejection"} : g[m] = h[m]
               /\ h["success"] = 0 \/ Over(h, "success") => Over(g, "success")
<1> DEFINE g == WithSuccess(h)
<1>1. h \in Places /\ Distinct(h) /\ "success" \in Modals
  BY DEF Tidy, Modals
<1>2. /\ g \in Places /\ Distinct(g) /\ g["success"] # 0
      /\ \A m \in Modals : m # "success" => g[m] = IF m \in {"waiting", "progress"} THEN 0 ELSE h[m]
      /\ (h["success"] # 0 => Over(h, "success")) => Over(g, "success")
  BY <1>1, ShutAndShow DEF WithSuccess
<1> HIDE DEF g
<1>3. Tidy(g)
  BY <1>2 DEF Tidy, Modals
<1>4. QED
  BY <1>2, <1>3 DEF g, Modals

LEMMA PostModals ==
    ASSUME FlowAssumption, flow \in DOMAIN Page, NEW k \in 1 .. Len(Steps), NEW h, Tidy(h)
    PROVE  LET g == WithPost(Steps[k], h)
           IN  /\ Tidy(g)
               /\ \A m \in {"ipfs", "error", "rejection"} : g[m] = h[m]
               /\ Steps[k].post /\ h["success"] = 0 =>
                      Over(g, "success") /\ g["waiting"] = 0 /\ g["progress"] = 0
               /\ ~Steps[k].post => g = h
<1>1. Steps[k].post => WithPost(Steps[k], h) = WithSuccess(h)
  BY DEF WithPost
<1>2. ~Steps[k].post => WithPost(Steps[k], h) = h
  BY DEF WithPost
<1>3. QED
  BY <1>1, <1>2, SuccessModals

LEMMA EnterModals ==
    ASSUME FlowAssumption, flow \in DOMAIN Page, NEW k \in 1 .. Len(Steps), NEW h, Tidy(h)
    PROVE  LET g == Show(Shut(h, Steps[k].shuts), Steps[k].opens)
           IN  /\ Tidy(g) /\ g["success"] = 0
               /\ IF Steps[k].opens = "ipfs" THEN g["ipfs"] # 0
                  ELSE g["waiting"] # 0 \/ g["progress"] # 0
               /\ \A m \in {"error", "rejection"} :
                      g[m] = IF m \in Steps[k].shuts THEN 0 ELSE h[m]
<1> DEFINE S == Steps[k].shuts
           w == Steps[k].opens
           g == Show(Shut(h, S), w)
<1>1. /\ w \in {"waiting", "progress", "ipfs"} \cap ShownBy(Page[flow])
      /\ "success" \in S
      /\ (ShownBy(Page[flow]) \cap {"waiting", "progress"}) \ {w} \subseteq S
  BY StepFacts
<1> HIDE DEF S, w
<1>2. h \in Places /\ Distinct(h) /\ w \in Modals
  BY <1>1 DEF Tidy, Modals
<1>3. \A v \in {"waiting", "progress"} : v # w => h[v] = 0 \/ v \in S
  BY <1>1 DEF Tidy
<1>4. /\ g \in Places /\ Distinct(g) /\ g[w] # 0
      /\ \A m \in Modals : m # w => g[m] = IF m \in S THEN 0 ELSE h[m]
      /\ (h[w] # 0 => w \in S \/ Over(h, w)) => Over(g, w)
  BY <1>2, ShutAndShow
<1> HIDE DEF g
<1>5. Tidy(g)
  BY <1>1, <1>3, <1>4 DEF Tidy, Modals
<1>6. QED
  BY <1>1, <1>4, <1>5 DEF g, S, w, Modals

LEMMA ErrorModals ==
    ASSUME NEW h, Tidy(h), NEW step, step.denial \in {"rejection", "error"}, NEW denied \in BOOLEAN
    PROVE  LET g == WithError(step, denied, h)
           IN  /\ Tidy(g) /\ g["ipfs"] = h["ipfs"]
               /\ \A m \in {"waiting", "progress", "success"} : g[m] = 0
               /\ g["rejection"] # 0 \/ g["error"] # 0
<1> DEFINE tells == IF denied THEN step.denial ELSE "error"
           S == Modals \ {"ipfs", tells}
           g == Show(Shut(h, S), tells)
<1>1. WithError(step, denied, h) = g
  BY DEF WithError
<1>2. tells \in {"rejection", "error"}
  OBVIOUS
<1> HIDE DEF tells
<1>3. h \in Places /\ Distinct(h) /\ tells \in Modals
  BY <1>2 DEF Tidy, Modals
<1>4. /\ g \in Places /\ Distinct(g) /\ g[tells] # 0
      /\ \A m \in Modals : m # tells => g[m] = IF m \in S THEN 0 ELSE h[m]
  BY <1>3, ShutAndShow
<1> HIDE DEF g
<1>5. Tidy(g)
  BY <1>2, <1>4 DEF Tidy, Modals
<1>6. QED
  BY <1>1, <1>2, <1>4, <1>5 DEF Modals

------------------------------------------------------------------------------------
(* The runs of a page. *)

RunRecords == [by : Buttons \cup {"nobody"}, step : Nat, mining : BOOLEAN]
FlowTypes ==
    /\ flow \in DOMAIN Page /\ Tidy(open)
    /\ runs \in [Slots -> RunRecords]
    /\ busy \in [Buttons -> BOOLEAN]
    /\ \A r \in Slots : Live(r) => /\ runs[r].by \in Buttons /\ runs[r].step \in 1 .. Len(Steps)
                                   /\ runs[r].by = "retry" => Page[flow].remembered

(* While a run is under way the modal of its step is open, so that the page's     *)
(* button cannot be pressed, and whenever the rejection modal is, its button is    *)
(* disabled.                                                                       *)
RunShown ==
    ~left => \A r \in Slots : Live(r) =>
        /\ ~IsOpen("success") /\ ~IsOpen("error")
        /\ IsOpen("rejection") => runs[r].by = "retry" /\ busy["retry"]
        /\ IF StepOf(r).opens = "ipfs" THEN IsOpen("ipfs") ELSE IsOpen("waiting") \/ IsOpen("progress")

(* As long as the user has to be told the truth: during a run, *)
Calm == RetrySafe \/ ~spoiled
CalmRun ==
    ~left /\ Calm =>
        /\ \A r \in Slots : Live(r) =>
               /\ runs[r].by = "retry" => RetrySafe
               /\ IsOpen("rejection") => Page[flow].ok # "closeSuccess"
        /\ busy["page"] => \E r \in Slots : Live(r) /\ runs[r].by = "page"

(* and when none is under way. *)
Ended(h, how) ==
    /\ h["waiting"] = 0 /\ h["progress"] = 0
    /\ h["ipfs"] # 0 => h["success"] # 0
    /\ h["success"] # 0 => /\ Over(h, "success") /\ how = "done" /\ h["error"] = 0
                           /\ h["rejection"] # 0 => Page[flow].ok # "closeSuccess"
    /\ h["success"] = 0 /\ (h["rejection"] # 0 \/ h["error"] # 0) => how = "failed"
CalmEnd == ~left /\ Calm /\ (\A r \in Slots : ~Live(r)) => Ended(open, last)

FlowInv == FlowTypes /\ OneRun /\ RunShown /\ CalmRun /\ CalmEnd

LEMMA FlowStays ==
    ASSUME flow' = flow
    PROVE  /\ Steps' = Steps /\ (RetrySafe' <=> RetrySafe)
           /\ \A h : Tidy(h) => Tidy(h)'
           /\ \A h, how : Ended(h, how) => Ended(h, how)'
BY DEF Steps, RetrySafe, Tidy, Ended

LEMMA NotIdle == \A b, k, m : k # 0 => [by |-> b, step |-> k, mining |-> m] # Idle
BY DEF Idle

LEMMA BusyAfter ==
    ASSUME busy \in [Buttons -> BOOLEAN], NEW b \in Buttons, NEW d \in BOOLEAN, SetBusy(b, d)
    PROVE  /\ busy' \in [Buttons -> BOOLEAN]
           /\ busy'["page"] <=> IF b = "page" THEN d ELSE busy["page"]
           /\ busy'["retry"] <=> (IF b = "retry" THEN d ELSE busy["retry"]) /\ open'["rejection"] # 0
<1> DEFINE now == [busy EXCEPT ![b] = d]
           kept_ == IsOpen("rejection")'
<1>1. busy' = [now EXCEPT !["retry"] = now["retry"] /\ kept_]
  BY DEF SetBusy
<1>2. kept_ \in BOOLEAN /\ (kept_ <=> open'["rejection"] # 0)
  BY DEF IsOpen
<1> HIDE DEF kept_
<1>3. /\ now \in [Buttons -> BOOLEAN]
      /\ now["page"] = (IF b = "page" THEN d ELSE busy["page"])
      /\ now["retry"] = (IF b = "retry" THEN d ELSE busy["retry"])
  BY DEF Buttons
<1> HIDE DEF now
<1>4. /\ busy' \in [Buttons -> BOOLEAN]
      /\ busy'["page"] = now["page"]
      /\ busy'["retry"] = (now["retry"] /\ kept_)
  BY <1>1, <1>2, <1>3 DEF Buttons
<1>5. QED
  BY <1>2, <1>3, <1>4

(* The invariants in the next state, from what the next state is. *)
LEMMA RunStarts ==
    ASSUME FlowAssumption, FlowInv, ~left, flow' = flow,
           NEW r \in Slots, NEW b \in Buttons, NEW k \in 1 .. Len(Steps), NEW modals, Tidy(modals),
           \A q \in Slots : Live(q) => q = r,
           Enter(r, b, k, modals), SetBusy(b, TRUE), spoiled => spoiled',
           b = "retry" => Page[flow].remembered,
           b = "retry" /\ (RetrySafe \/ ~spoiled') => RetrySafe,
           modals["error"] = 0,
           modals["rejection"] # 0 => b = "retry",
           RetrySafe \/ ~spoiled' =>
               /\ busy["page"] => b = "page"
               /\ modals["rejection"] # 0 /\ "rejection" \notin Steps[k].shuts =>
                      Page[flow].ok # "closeSuccess"
    PROVE  FlowInv'
<1> DEFINE g == Show(Shut(modals, Steps[k].shuts), Steps[k].opens)
<1>1. /\ runs' = [runs EXCEPT ![r] = [by |-> b, step |-> k, mining |-> FALSE]]
      /\ open' = g /\ left' = left
  BY DEF Enter
<1>2. /\ Tidy(g) /\ g["success"] = 0 /\ g["error"] = 0
      /\ IF Steps[k].opens = "ipfs" THEN g["ipfs"] # 0 ELSE g["waiting"] # 0 \/ g["progress"] # 0
      /\ g["rejection"] # 0 => modals["rejection"] # 0 /\ "rejection" \notin Steps[k].shuts
  <2>1. flow \in DOMAIN Page
    BY DEF FlowInv, FlowTypes
  <2>2. g["error"] = 0 /\ g["rejection"] = (IF "rejection" \in Steps[k].shuts THEN 0 ELSE modals["rejection"])
    BY <2>1, EnterModals
  <2>3. QED
    BY <2>1, <2>2, EnterModals
<1> HIDE DEF g
<1>3. k \in Nat /\ k # 0
  BY PageFacts DEF FlowInv, FlowTypes
<1>4. /\ runs' \in [Slots -> RunRecords]
      /\ runs'[r].by = b /\ runs'[r].step = k /\ runs'[r] # Idle
      /\ \A q \in Slots : q # r => runs'[q] = runs[q]
  BY <1>1, <1>3, NotIdle DEF FlowInv, FlowTypes, RunRecords
<1>5. \A q \in Slots : Live(q)' => q = r
  BY <1>4 DEF Live
<1>6. /\ busy' \in [Buttons -> BOOLEAN]
      /\ busy'["page"] <=> (b = "page" \/ busy["page"])
      /\ busy'["retry"] <=> (b = "retry" \/ busy["retry"]) /\ open'["rejection"] # 0
  BY BusyAfter DEF FlowInv, FlowTypes
<1>7. Steps' = Steps /\ (RetrySafe' <=> RetrySafe) /\ Tidy(open)'
  <2>1. PICK h : h = open'
    OBVIOUS
  <2>2. Tidy(h)
    BY <1>1, <1>2, <2>1
  <2>3. Tidy(h)'
    BY <2>2, FlowStays
  <2>4. QED
    BY <2>1, <2>3, FlowStays
<1>8. FlowTypes'
  BY <1>1, <1>4, <1>5, <1>6, <1>7 DEF FlowTypes, FlowInv
<1>9. OneRun'
  BY <1>5 DEF OneRun
<1>10. RunShown'
  BY <1>1, <1>2, <1>4, <1>5, <1>6, <1>7 DEF RunShown, IsOpen, StepOf
<1>11. CalmRun'
  <2>1. Calm' => RetrySafe \/ ~spoiled'
    BY <1>7 DEF Calm
  <2>2. r \in Slots /\ Live(r)'
    BY <1>4 DEF Live
  <2>3. QED
    BY <1>1, <1>2, <1>4, <1>5, <1>6, <1>7, <2>1, <2>2 DEF CalmRun, IsOpen
<1>12. CalmEnd'
  BY <1>4 DEF CalmEnd, Live
<1>13. QED
  BY <1>8, <1>9, <1>10, <1>11, <1>12 DEF FlowInv

LEMMA RunsEnded ==
    ASSUME FlowAssumption, FlowInv, ~left, flow' = flow,
           Tidy(open'), runs' \in [Slots -> RunRecords], \A q \in Slots : runs'[q] = Idle,
           busy' \in [Buttons -> BOOLEAN],
           ~left' /\ (RetrySafe \/ ~spoiled') => ~busy'["page"] /\ Ended(open', last')
    PROVE  FlowInv'
<1>1. Steps' = Steps /\ (RetrySafe' <=> RetrySafe)
  BY FlowStays
<1>2. Tidy(open)'
  <2>1. PICK g : g = open'
    OBVIOUS
  <2>2. Tidy(g)'
    BY <2>1, FlowStays
  <2>3. QED
    BY <2>1, <2>2
<1>3. \A q \in Slots : ~Live(q)'
  BY DEF Live
<1>4. FlowTypes' /\ OneRun' /\ RunShown'
  BY <1>2, <1>3 DEF FlowInv, FlowTypes, OneRun, RunShown
<1>5. CalmRun'
  BY <1>1, <1>3 DEF CalmRun, Calm
<1>6. CalmEnd'
  <2> SUFFICES ASSUME ~left', Calm' PROVE Ended(open, last)'
    BY DEF CalmEnd
  <2>1. PICK g, how : g = open' /\ how = last'
    OBVIOUS
  <2>2. Ended(g, how)
    BY <1>1, <2>1 DEF Calm
  <2>3. Ended(g, how)'
    BY <2>2, FlowStays
  <2>4. QED
    BY <2>1, <2>3
<1>7. QED
  BY <1>4, <1>5, <1>6 DEF FlowInv

(* What the user hears in the moment a run ends well. *)
Told ==
    last' = "done" /\ (\E r \in Slots : Live(r) /\ ~Live(r)') /\ (RetrySafe \/ ~spoiled')
        => Top' = "success" \/ left'

LEMMA LiveRun ==
    ASSUME FlowInv, ~left, NEW r \in Slots, Live(r)
    PROVE  /\ flow \in DOMAIN Page /\ Tidy(open)
           /\ runs[r].by \in Buttons /\ runs[r].step \in 1 .. Len(Steps)
           /\ runs[r].by = "retry" => Page[flow].remembered
           /\ \A q \in Slots : Live(q) => q = r
           /\ open["success"] = 0 /\ open["error"] = 0
           /\ open["rejection"] # 0 => runs[r].by = "retry" /\ busy["retry"]
           /\ IF StepOf(r).opens = "ipfs" THEN open["ipfs"] # 0
              ELSE open["waiting"] # 0 \/ open["progress"] # 0
           /\ open # NoModals
<1>1. /\ flow \in DOMAIN Page /\ Tidy(open)
      /\ runs[r].by \in Buttons /\ runs[r].step \in 1 .. Len(Steps)
      /\ runs[r].by = "retry" => Page[flow].remembered
  BY DEF FlowInv, FlowTypes
<1>2. \A q \in Slots : Live(q) => q = r
  BY DEF FlowInv, OneRun
<1>3. /\ open["success"] = 0 /\ open["error"] = 0
      /\ open["rejection"] # 0 => runs[r].by = "retry" /\ busy["retry"]
      /\ IF StepOf(r).opens = "ipfs" THEN open["ipfs"] # 0
         ELSE open["waiting"] # 0 \/ open["progress"] # 0
  BY DEF FlowInv, RunShown, IsOpen
<1>4. open # NoModals
  BY <1>3 DEF NoModals, Modals
<1>5. QED
  BY <1>1, <1>2, <1>3, <1>4

LEMMA TopShown ==
    ASSUME FlowInv
    PROVE  /\ \A m \in Modals : Top = m <=> OnTop(m)
           /\ \A m \in Modals : OnTop(m) <=> Over(open, m)
           /\ \A m, n \in Modals : Over(open, m) /\ Over(open, n) => m = n
           /\ Top = "none" <=> open = NoModals
<1>1. open \in Places /\ Distinct(open)
  BY DEF FlowInv, FlowTypes, Tidy
<1>2. \A m, n \in Modals : Over(open, m) /\ Over(open, n) => m = n
  BY <1>1 DEF Over, Distinct, Places
<1>3. QED
  BY <1>1, <1>2, TopIsHighest

LEMMA SuccessOnTop == FlowInv /\ Over(open, "success") => Top = "success"
BY TopShown DEF Modals

LEMMA ClickKeeps ==
    ASSUME FlowAssumption, FlowInv, NEW b \in Buttons, Click(b)
    PROVE  FlowInv' /\ Told
<1>1. ~left /\ ~busy[b] /\ flow' = flow /\ spoiled' = (spoiled \/ b = "retry") /\ SetBusy(b, TRUE)
  BY DEF Click, Alive, Clickable
<1>2. PICK r \in Slots : ~Live(r) /\ Enter(r, b, 1, open)
  BY DEF Click
<1>3. /\ b = "page" => open = NoModals
      /\ b # "page" => b = "retry" /\ open["rejection"] # 0 /\ Page[flow].remembered
  <2>1. "rejection" \in Modals
    BY DEF Modals
  <2>2. QED
    BY <2>1, TopShown DEF Click, Clickable, Buttons, Over
<1>4. flow \in DOMAIN Page /\ Tidy(open)
  BY DEF FlowInv, FlowTypes
<1>5. \A q \in Slots : ~Live(q)
  <2> SUFFICES ASSUME NEW q \in Slots, Live(q) PROVE FALSE
    OBVIOUS
  <2>1. open # NoModals /\ (open["rejection"] # 0 => busy["retry"])
    BY <1>1, LiveRun
  <2>2. QED
    BY <1>1, <1>3, <2>1
<1>6. open["error"] = 0 /\ (open["rejection"] # 0 => b = "retry")
  BY <1>3, <1>4 DEF Tidy, NoModals, Modals
<1>7. RetrySafe \/ ~spoiled' =>
          /\ busy["page"] => b = "page"
          /\ open["rejection"] # 0 /\ "rejection" \notin Steps[1].shuts =>
                 Page[flow].ok # "closeSuccess"
  <2> SUFFICES ASSUME RetrySafe \/ ~spoiled'
               PROVE  /\ busy["page"] => b = "page"
                      /\ open["rejection"] # 0 /\ "rejection" \notin Steps[1].shuts =>
                             Page[flow].ok # "closeSuccess"
    OBVIOUS
  <2>1. ~busy["page"]
    BY <1>1, <1>5 DEF FlowInv, CalmRun, Calm
  <2>2. open["rejection"] # 0 => RetrySafe
    BY <1>1, <1>6
  <2>3. QED
    BY <2>1, <2>2 DEF RetrySafe
<1>8. 1 \in 1 .. Len(Steps)
  BY <1>4, PageFacts
<1>9. FlowInv'
  <2>1. \A q \in Slots : Live(q) => q = r
    BY <1>5
  <2>2. b = "retry" => spoiled'
    BY <1>1
  <2>3. QED
    BY <1>1, <1>2, <1>3, <1>4, <1>6, <1>7, <1>8, <2>1, <2>2, RunStarts
<1>10. Told
  BY <1>5 DEF Told
<1>11. QED
  BY <1>9, <1>10

LEMMA AdvanceKeeps ==
    ASSUME FlowAssumption, FlowInv, ~left, NEW r \in Slots, Live(r),
           NEW modals, Tidy(modals), NEW enables \in BOOLEAN,
           Advance(r, modals, enables), spoiled => spoiled',
           modals["error"] = open["error"], modals["rejection"] = open["rejection"],
           modals["success"] = 0 \/ Over(modals, "success"),
           IsLast(r) /\ (RetrySafe \/ ~spoiled') =>
               /\ enables
               /\ StepOf(r).post =>
                      Over(modals, "success") /\ modals["waiting"] = 0 /\ modals["progress"] = 0
    PROVE  FlowInv' /\ Told
<1> DEFINE b == runs[r].by
           k == runs[r].step
<1>1. /\ flow \in DOMAIN Page /\ Tidy(open)
      /\ b \in Buttons /\ k \in 1 .. Len(Steps)
      /\ b = "retry" => Page[flow].remembered
      /\ \A q \in Slots : Live(q) => q = r
      /\ open["error"] = 0
      /\ open["rejection"] # 0 => b = "retry"
  BY LiveRun
<1>2. flow' = flow /\ SetBusy(b, ~(IsLast(r) /\ enables))
  BY DEF Advance
<1>3. RetrySafe \/ ~spoiled' =>
          /\ b = "retry" => RetrySafe
          /\ open["rejection"] # 0 => Page[flow].ok # "closeSuccess"
          /\ busy["page"] => b = "page"
  BY <1>1 DEF FlowInv, CalmRun, Calm, IsOpen
<1>4. CASE ~IsLast(r)
  <2>1. k + 1 \in 1 .. Len(Steps)
    BY <1>1, <1>4, PageFacts DEF IsLast
  <2>2. Enter(r, b, k + 1, modals) /\ SetBusy(b, TRUE)
    BY <1>2, <1>4 DEF Advance
  <2>3. FlowInv'
    <3>1. modals["error"] = 0 /\ (modals["rejection"] # 0 => b = "retry")
      BY <1>1
    <3>2. RetrySafe \/ ~spoiled' =>
              /\ busy["page"] => b = "page"
              /\ modals["rejection"] # 0 /\ "rejection" \notin Steps[k + 1].shuts =>
                     Page[flow].ok # "closeSuccess"
      BY <1>3
    <3>3. b = "retry" /\ (RetrySafe \/ ~spoiled') => RetrySafe
      BY <1>3
    <3>4. PICK c \in Buttons, j \in 1 .. Len(Steps) : c = b /\ j = k + 1
      BY <1>1, <2>1
    <3> HIDE DEF b, k
    <3>5. QED
      BY <1>1, <1>2, <2>2, <3>1, <3>2, <3>3, <3>4, RunStarts
  <2>4. runs' = [runs EXCEPT ![r] = [by |-> b, step |-> k + 1, mining |-> FALSE]]
    BY <2>2 DEF Enter
  <2>5. Told
    <3>1. k + 1 # 0
      BY <2>1, PageFacts, <1>1
    <3>2. \A q \in Slots : Live(q) => Live(q)'
      <4> HIDE DEF b, k
      <4>1. QED
        BY <1>1, <2>4, <3>1, NotIdle DEF FlowInv, FlowTypes, Live
    <3>3. QED
      BY <3>2 DEF Told
  <2>6. QED
    BY <2>3, <2>5
<1>5. CASE IsLast(r)
  <2> DEFINE h == IF b = "page" THEN Finished(modals) ELSE modals
  <2>1. /\ runs' = [runs EXCEPT ![r] = Idle] /\ open' = h
        /\ left' = (b = "page" /\ Page[flow].finish = "leave") /\ last' = "done"
        /\ SetBusy(b, ~enables)
    BY <1>2, <1>5 DEF Advance
  <2>2. /\ StepOf(r) = Steps[Len(Steps)]
        /\ Page[flow].finish \in {"success", "leave", "nothing"}
        /\ Page[flow].finish = "nothing" => StepOf(r).post
    BY <1>1, <1>5, PageFacts DEF IsLast, StepOf
  <2>3. Tidy(WithSuccess(modals)) /\ Tidy(NoModals)
    BY SuccessModals, NoModalsTidy
  <2>4. Tidy(h)
    BY <2>2, <2>3 DEF Finished
  <2>6. /\ Over(WithSuccess(modals), "success")
        /\ WithSuccess(modals)["waiting"] = 0 /\ WithSuccess(modals)["progress"] = 0
        /\ WithSuccess(modals)["error"] = 0
        /\ WithSuccess(modals)["rejection"] = open["rejection"]
    BY <1>1, SuccessModals
  <2>7. ASSUME ~left', RetrySafe \/ ~spoiled'
        PROVE  /\ Over(h, "success") /\ h["waiting"] = 0 /\ h["progress"] = 0 /\ h["error"] = 0
               /\ h["rejection"] = open["rejection"]
    <3>1. CASE b = "page" /\ Page[flow].finish = "success"
      BY <2>6, <3>1 DEF Finished
    <3>2. CASE b = "page" /\ Page[flow].finish = "nothing"
      BY <1>1, <1>5, <2>2, <2>7, <3>2 DEF Finished
    <3>3. CASE b = "retry"
      <4>1. StepOf(r).post
        BY <1>1, <1>3, <2>2, <2>7, <3>3 DEF RetrySafe
      <4>2. h = modals
        BY <3>3
      <4>3. QED
        BY <1>1, <1>5, <2>7, <4>1, <4>2
    <3>4. QED
      BY <1>1, <2>1, <2>2, <2>7, <3>1, <3>2, <3>3 DEF Buttons
  <2> HIDE DEF h
  <2>8. /\ runs' \in [Slots -> RunRecords] /\ \A q \in Slots : runs'[q] = Idle
    <3>1. Idle \in RunRecords
      BY DEF Idle, RunRecords
    <3>2. runs \in [Slots -> RunRecords]
      BY DEF FlowInv, FlowTypes
    <3>3. \A q \in Slots : q # r => runs[q] = Idle
      BY <1>1 DEF Live
    <3>4. QED
      BY <2>1, <3>1, <3>2, <3>3
  <2>9. busy' \in [Buttons -> BOOLEAN] /\ (busy'["page"] <=> IF b = "page" THEN ~enables ELSE busy["page"])
    <3>1. PICK c \in Buttons, d \in BOOLEAN : c = b /\ d = ~enables
      BY <1>1
    <3>2. busy' \in [Buttons -> BOOLEAN] /\ (busy'["page"] <=> IF c = "page" THEN d ELSE busy["page"])
      BY <2>1, <3>1, BusyAfter DEF FlowInv, FlowTypes
    <3>3. QED
      BY <3>1, <3>2
  <2>10. ASSUME ~left', RetrySafe \/ ~spoiled' PROVE ~busy'["page"] /\ Ended(open', last')
    <3>1. enables
      BY <1>5, <2>10
    <3>2. ~busy'["page"]
      BY <1>1, <1>3, <2>9, <2>10, <3>1
    <3>3. h["success"] # 0
      BY <2>7, <2>10 DEF Over
    <3>4. QED
      BY <1>3, <2>1, <2>7, <2>10, <3>2, <3>3 DEF Ended
  <2>11. FlowInv'
    BY <1>2, <2>1, <2>4, <2>8, <2>9, <2>10, RunsEnded
  <2>12. Told
    <3> SUFFICES ASSUME RetrySafe \/ ~spoiled', ~left' PROVE Top' = "success"
      BY DEF Told
    <3>1. Over(open, "success")'
      <4>1. PICK g : g = h
        OBVIOUS
      <4>2. Over(g, "success")
        BY <2>7, <4>1
      <4>3. QED
        BY <2>1, <4>1, <4>2 DEF Over
    <3>2. (FlowInv /\ Over(open, "success") => Top = "success")'
      BY SuccessOnTop, PTL
    <3>3. QED
      BY <2>11, <3>1, <3>2
  <2>13. QED
    BY <2>11, <2>12
<1>6. QED
  BY <1>4, <1>5

LEMMA AnswerKeeps ==
    ASSUME FlowAssumption, FlowInv, NEW r \in Slots, AnswerNothing(r) \/ AnswerValue(r) \/ Receipt(r)
    PROVE  FlowInv' /\ Told
<1>1. ~left /\ Live(r)
  BY DEF AnswerNothing, AnswerValue, Receipt, Alive
<1>2. /\ flow \in DOMAIN Page /\ Tidy(open) /\ runs[r].step \in 1 .. Len(Steps)
      /\ open["success"] = 0
  BY <1>1, LiveRun
<1>3. StepOf(r).post \in BOOLEAN
  BY <1>2, StepFacts DEF StepOf
<1>4. ASSUME AnswerNothing(r) PROVE FlowInv' /\ Told
  <2>1. /\ Advance(r, open, FALSE)
        /\ \/ "nothing" \in StepOf(r).answers /\ spoiled' = spoiled
           \/ "declined" \in StepOf(r).answers /\ spoiled' = TRUE
    BY <1>4 DEF AnswerNothing
  <2>2. IsLast(r) => ~(RetrySafe \/ ~spoiled')
    <3>1. IsLast(r) => "nothing" \notin StepOf(r).answers
      BY <1>2, PageFacts DEF IsLast, StepOf
    <3>2. RetrySafe => "declined" \notin StepOf(r).answers
      BY <1>2 DEF RetrySafe, StepOf
    <3>3. QED
      BY <2>1, <3>1, <3>2
  <2>3. spoiled => spoiled'
    BY <2>1
  <2>4. QED
    BY <1>1, <1>2, <2>1, <2>2, <2>3, AdvanceKeeps
<1>5. ASSUME NEW before, Tidy(before), before["success"] = 0,
             before["error"] = open["error"], before["rejection"] = open["rejection"],
             Advance(r, WithPost(StepOf(r), before), TRUE), UNCHANGED spoiled
      PROVE  FlowInv' /\ Told
  <2> DEFINE modals == WithPost(StepOf(r), before)
  <2>1. /\ Tidy(modals)
        /\ modals["error"] = open["error"] /\ modals["rejection"] = open["rejection"]
        /\ StepOf(r).post => Over(modals, "success") /\ modals["waiting"] = 0 /\ modals["progress"] = 0
        /\ modals["success"] = 0 \/ Over(modals, "success")
    BY <1>2, <1>3, <1>5, PostModals DEF StepOf
  <2> HIDE DEF modals
  <2>2. Advance(r, modals, TRUE)
    BY <1>5 DEF modals
  <2>3. QED
    BY <1>1, <1>5, <2>1, <2>2, AdvanceKeeps
<1>6. ASSUME AnswerValue(r) PROVE FlowInv' /\ Told
  <2> DEFINE before == WithHash(StepOf(r), open)
  <2>1. /\ Tidy(before) /\ before["success"] = 0
        /\ before["error"] = open["error"] /\ before["rejection"] = open["rejection"]
    BY <1>2, HashModals DEF StepOf
  <2>2. Advance(r, WithPost(StepOf(r), before), TRUE) /\ UNCHANGED spoiled
    BY <1>6 DEF AnswerValue
  <2> HIDE DEF before
  <2>3. QED
    BY <1>5, <2>1, <2>2
<1>7. ASSUME Receipt(r) PROVE FlowInv' /\ Told
  <2>1. Advance(r, WithPost(StepOf(r), open), TRUE) /\ UNCHANGED spoiled
    BY <1>7 DEF Receipt
  <2>2. QED
    BY <1>2, <1>5, <2>1
<1>8. QED
  BY <1>4, <1>6, <1>7

LEMMA AnswerHashKeeps ==
    ASSUME FlowAssumption, FlowInv, NEW r \in Slots, AnswerHash(r)
    PROVE  FlowInv' /\ Told
<1> DEFINE g == WithHash(StepOf(r), open)
<1>1. /\ ~left /\ Live(r)
      /\ runs' = [runs EXCEPT ![r].mining = TRUE] /\ open' = g
      /\ UNCHANGED <<flow, busy, last, spoiled, left>>
  BY DEF AnswerHash, Alive
<1>2. /\ flow \in DOMAIN Page /\ Tidy(open) /\ runs[r].step \in 1 .. Len(Steps)
      /\ \A q \in Slots : Live(q) => q = r
  BY <1>1, LiveRun
<1>3. /\ Tidy(g)
      /\ \A m \in {"ipfs", "success", "error", "rejection"} : g[m] = open[m]
      /\ open["waiting"] # 0 \/ open["progress"] # 0 => g["waiting"] # 0 \/ g["progress"] # 0
  BY <1>2, HashModals DEF StepOf
<1> HIDE DEF g
<1>4. runs \in [Slots -> RunRecords] /\ busy \in [Buttons -> BOOLEAN]
  BY DEF FlowInv, FlowTypes
<1>5. /\ runs' \in [Slots -> RunRecords]
      /\ \A q \in Slots : runs'[q].by = runs[q].by /\ runs'[q].step = runs[q].step
      /\ \A q \in Slots : q # r => runs'[q] = runs[q]
  <2>1. [runs[r] EXCEPT !.mining = TRUE] \in RunRecords
    BY <1>4 DEF RunRecords
  <2>2. runs' = [runs EXCEPT ![r] = [runs[r] EXCEPT !.mining = TRUE]]
    BY <1>1
  <2>3. runs[r] \in RunRecords
    BY <1>4
  <2>4. /\ [runs[r] EXCEPT !.mining = TRUE].by = runs[r].by
        /\ [runs[r] EXCEPT !.mining = TRUE].step = runs[r].step
    BY <2>3 DEF RunRecords
  <2>5. PICK x \in RunRecords : /\ x = [runs[r] EXCEPT !.mining = TRUE]
                                /\ x.by = runs[r].by /\ x.step = runs[r].step
    BY <2>1, <2>4
  <2>6. QED
    BY <1>4, <2>2, <2>5
<1>6. Live(r)' /\ \A q \in Slots : Live(q)' <=> Live(q)
  <2>1. runs'[r].step # 0
    BY <1>2, <1>5, PageFacts
  <2>2. Live(r)'
    BY <2>1 DEF Live, Idle
  <2>3. QED
    BY <1>1, <1>5, <2>2 DEF Live
<1>7. Steps' = Steps /\ (RetrySafe' <=> RetrySafe) /\ Tidy(open)'
  <2>1. PICK h : h = open'
    OBVIOUS
  <2>2. Tidy(h)
    BY <1>1, <1>3, <2>1
  <2>3. Tidy(h)'
    BY <1>1, <2>2, FlowStays
  <2>4. QED
    BY <1>1, <2>1, <2>3, FlowStays
<1>8. FlowTypes'
  BY <1>1, <1>4, <1>5, <1>6, <1>7 DEF FlowInv, FlowTypes
<1>9. OneRun'
  BY <1>2, <1>6 DEF OneRun
<1>10. RunShown'
  BY <1>1, <1>3, <1>5, <1>6, <1>7 DEF FlowInv, RunShown, IsOpen, StepOf
<1>11. CalmRun'
  BY <1>1, <1>3, <1>5, <1>6, <1>7 DEF FlowInv, CalmRun, Calm, IsOpen
<1>12. CalmEnd'
  BY <1>6 DEF CalmEnd
<1>13. Told
  BY <1>6 DEF Told
<1>14. QED
  BY <1>8, <1>9, <1>10, <1>11, <1>12, <1>13 DEF FlowInv

LEMMA FailKeeps ==
    ASSUME FlowAssumption, FlowInv, NEW r \in Slots, NEW denied \in BOOLEAN, Fail(r, denied)
    PROVE  FlowInv' /\ Told
<1> DEFINE g == WithError(StepOf(r), denied, open)
           handled == StepOf(r).denial # "unhandled"
<1>1. /\ ~left /\ Live(r)
      /\ runs' = [runs EXCEPT ![r] = Idle] /\ open' = g
      /\ SetBusy(runs[r].by, FALSE) /\ last' = "failed"
      /\ spoiled' = (spoiled \/ ~handled \/ IsOpen("ipfs"))
      /\ UNCHANGED <<flow, left>>
  BY DEF Fail, Alive
<1>2. /\ flow \in DOMAIN Page /\ Tidy(open) /\ runs[r].step \in 1 .. Len(Steps)
      /\ runs[r].by \in Buttons
      /\ \A q \in Slots : Live(q) => q = r
  BY <1>1, LiveRun
<1>3. StepOf(r).denial \in {"rejection", "error", "unhandled"}
  BY <1>2, StepFacts DEF StepOf
<1>4. ~handled => g = open
  BY DEF WithError
<1>5. handled => /\ Tidy(g) /\ g["ipfs"] = open["ipfs"]
                 /\ g["waiting"] = 0 /\ g["progress"] = 0 /\ g["success"] = 0
  BY <1>3, <1>2, ErrorModals
<1>6. RetrySafe => handled /\ open["ipfs"] = 0
  <2>1. RetrySafe => handled
    BY <1>2 DEF RetrySafe, StepOf
  <2>2. RetrySafe => open["ipfs"] = 0
    BY <1>2, PageFacts DEF Tidy
  <2>3. QED
    BY <2>1, <2>2
<1>7. RetrySafe \/ ~spoiled' => handled /\ open["ipfs"] = 0
  BY <1>1, <1>6 DEF IsOpen
<1> HIDE DEF g, handled
<1>8. /\ runs' \in [Slots -> RunRecords] /\ \A q \in Slots : runs'[q] = Idle
  <2>1. Idle \in RunRecords
    BY DEF Idle, RunRecords
  <2>2. runs \in [Slots -> RunRecords]
    BY DEF FlowInv, FlowTypes
  <2>3. \A q \in Slots : q # r => runs[q] = Idle
    BY <1>2 DEF Live
  <2>4. QED
    BY <1>1, <2>1, <2>2, <2>3
<1>9. /\ busy' \in [Buttons -> BOOLEAN]
      /\ busy'["page"] => runs[r].by # "page" /\ busy["page"]
  BY <1>1, <1>2, BusyAfter DEF FlowInv, FlowTypes
<1>10. RetrySafe \/ ~spoiled' => ~busy'["page"]
  BY <1>1, <1>2, <1>9 DEF FlowInv, CalmRun, Calm
<1>11. RetrySafe \/ ~spoiled' => Ended(open', last')
  BY <1>1, <1>5, <1>7 DEF Ended
<1>12. Tidy(open')
  BY <1>1, <1>2, <1>4, <1>5
<1>13. FlowInv'
  BY <1>1, <1>8, <1>9, <1>10, <1>11, <1>12, RunsEnded
<1>14. Told
  BY <1>1 DEF Told
<1>15. QED
  BY <1>13, <1>14

LEMMA FlowStart == FlowAssumption /\ FlowInit => FlowInv
<1> SUFFICES ASSUME FlowAssumption, FlowInit PROVE FlowInv
  OBVIOUS
<1>1. /\ flow \in DOMAIN Page /\ open = NoModals /\ runs = [r \in Slots |-> Idle]
      /\ busy = [b \in Buttons |-> FALSE] /\ last = "none"
  BY DEF FlowInit
<1>2. Tidy(open) /\ \A m \in Modals : open[m] = 0
  BY <1>1, NoModalsTidy
<1>3. \A r \in Slots : ~Live(r)
  BY <1>1 DEF Live
<1>4. runs \in [Slots -> RunRecords]
  <2>1. Idle \in RunRecords
    BY DEF Idle, RunRecords
  <2>2. QED
    BY <1>1, <2>1
<1>5. busy \in [Buttons -> BOOLEAN] /\ ~busy["page"]
  BY <1>1 DEF Buttons
<1>6. FlowTypes /\ OneRun /\ RunShown /\ CalmRun
  BY <1>1, <1>2, <1>3, <1>4, <1>5 DEF FlowTypes, OneRun, RunShown, CalmRun
<1>7. CalmEnd
  BY <1>2 DEF CalmEnd, Ended, Modals
<1>8. QED
  BY <1>6, <1>7 DEF FlowInv

LEMMA DismissKeeps ==
    ASSUME FlowAssumption, FlowInv, Dismiss
    PROVE  FlowInv' /\ Told
<1>1. /\ ~left /\ Top \in {"error", "rejection"}
      /\ open' = CloseAll(open) /\ SetBusy("retry", busy["retry"])
      /\ UNCHANGED <<flow, runs, last, spoiled, left>>
  BY DEF Dismiss, Closed, Alive
<1>2. /\ flow \in DOMAIN Page /\ Tidy(open)
      /\ runs \in [Slots -> RunRecords] /\ busy \in [Buttons -> BOOLEAN]
  BY DEF FlowInv, FlowTypes
<1>3. ~Over(open, "success") /\ ~Over(open, "waiting") /\ ~Over(open, "progress")
  BY <1>1, TopShown DEF Modals
<1>4. Tidy(open') /\ \A m \in Modals : open'[m] = IF m = "ipfs" THEN open["ipfs"] ELSE 0
  BY <1>1, <1>2, ShutKeepsTidy DEF CloseAll
<1>5. Steps' = Steps /\ (RetrySafe' <=> RetrySafe) /\ Tidy(open)'
  <2>1. PICK h : h = open'
    OBVIOUS
  <2>2. Tidy(h)'
    BY <1>1, <1>4, <2>1, FlowStays
  <2>3. QED
    BY <1>1, <2>1, <2>2, FlowStays
<1>6. busy' \in [Buttons -> BOOLEAN] /\ (busy'["page"] <=> busy["page"])
  <2>1. "retry" \in Buttons /\ busy["retry"] \in BOOLEAN
    BY <1>2 DEF Buttons
  <2>2. PICK d \in BOOLEAN : d = busy["retry"]
    BY <2>1
  <2>3. QED
    BY <1>1, <1>2, <2>1, <2>2, BusyAfter
<1>7. \A r \in Slots : Live(r)' <=> Live(r)
  BY <1>1 DEF Live
<1>8. FlowTypes'
  BY <1>1, <1>2, <1>5, <1>6, <1>7 DEF FlowInv, FlowTypes
<1>9. OneRun'
  BY <1>7 DEF FlowInv, OneRun
<1>10. RunShown'
  <2> SUFFICES ASSUME NEW r \in Slots, Live(r)
               PROVE  /\ open'["success"] = 0 /\ open'["error"] = 0 /\ open'["rejection"] = 0
                      /\ StepOf(r).opens = "ipfs" /\ open'["ipfs"] # 0
    BY <1>1, <1>5, <1>7 DEF RunShown, IsOpen, StepOf
  <2>1. StepOf(r).opens = "ipfs" /\ open["ipfs"] # 0
    BY <1>1, <1>2, <1>3, LiveRun DEF Tidy
  <2>2. QED
    BY <1>4, <2>1 DEF Modals
<1>11. CalmRun'
  <2>1. open'["rejection"] = 0
    BY <1>4 DEF Modals
  <2>2. QED
    BY <1>1, <1>5, <1>6, <1>7, <2>1 DEF FlowInv, CalmRun, Calm, IsOpen
<1>12. CalmEnd'
  <2> SUFFICES ASSUME Calm, \A r \in Slots : ~Live(r) PROVE Ended(open, last)'
    BY <1>1, <1>5, <1>7 DEF CalmEnd, Calm
  <2>1. open["ipfs"] = 0
    BY <1>1, <1>3 DEF FlowInv, CalmEnd, Ended
  <2>2. \A m \in Modals : open'[m] = 0
    BY <1>4, <2>1
  <2>3. QED
    BY <2>2 DEF Ended, Modals
<1>13. Told
  BY <1>7 DEF Told
<1>14. QED
  BY <1>8, <1>9, <1>10, <1>11, <1>12, <1>13 DEF FlowInv

LEMMA PressOkKeeps ==
    ASSUME FlowAssumption, FlowInv, PressOk
    PROVE  FlowInv' /\ Told
<1>1. /\ flow \in DOMAIN Page /\ Tidy(open)
      /\ runs \in [Slots -> RunRecords] /\ busy \in [Buttons -> BOOLEAN]
  BY DEF FlowInv, FlowTypes
<1>2. Page[flow].ok \in {"closeAll", "closeSuccess", "leave"}
  BY <1>1, PageFacts
<1>3. /\ ~left /\ Top = "success" /\ SetBusy("retry", busy["retry"])
      /\ \/ Page[flow].ok = "closeAll" /\ open' = CloseAll(open)
         \/ Page[flow].ok = "closeSuccess" /\ open' = Shut(open, {"success"})
         \/ open' = NoModals /\ left'
      /\ UNCHANGED <<flow, runs, last, spoiled>>
  BY <1>2 DEF PressOk, Closed, Alive
<1>4. Over(open, "success") /\ open["success"] # 0
  BY <1>3, TopShown DEF Modals, Over
<1>5. \A r \in Slots : ~Live(r)
  BY <1>3, <1>4, LiveRun
<1>6. /\ runs' \in [Slots -> RunRecords] /\ \A r \in Slots : runs'[r] = Idle
  BY <1>1, <1>3, <1>5 DEF Live
<1>7. busy' \in [Buttons -> BOOLEAN] /\ (busy'["page"] <=> busy["page"])
  <2>1. "retry" \in Buttons /\ busy["retry"] \in BOOLEAN
    BY <1>1 DEF Buttons
  <2>2. PICK d \in BOOLEAN : d = busy["retry"]
    BY <2>1
  <2>3. QED
    BY <1>1, <1>3, <2>1, <2>2, BusyAfter
<1>8. Tidy(open')
  <2>1. Tidy(CloseAll(open)) /\ Tidy(Shut(open, {"success"})) /\ Tidy(NoModals)
    BY <1>1, ShutKeepsTidy, NoModalsTidy DEF CloseAll
  <2>2. QED
    BY <1>3, <2>1
<1>9. ASSUME ~left', RetrySafe \/ ~spoiled' PROVE ~busy'["page"] /\ Ended(open', last')
  <2>1. Calm
    BY <1>3, <1>9 DEF Calm
  <2>2. ~busy["page"]
    BY <1>3, <1>5, <2>1 DEF FlowInv, CalmRun
  <2>3. Ended(open, last)
    BY <1>3, <1>5, <2>1 DEF FlowInv, CalmEnd
  <2>4. Page[flow].ok # "leave" => open["ipfs"] = 0
    BY <1>1, PageFacts DEF Tidy
  <2>5. CASE Page[flow].ok = "closeAll" /\ open' = CloseAll(open)
    <3>1. \A m \in Modals : open'[m] = IF m \in Modals \ {"ipfs"} THEN 0 ELSE open[m]
      BY <1>1, <2>5, ShutKeepsTidy DEF CloseAll
    <3>2. \A m \in Modals : open'[m] = 0
      BY <2>4, <2>5, <3>1
    <3>3. Ended(open', last')
      BY <3>2 DEF Ended, Modals
    <3>4. QED
      BY <1>7, <2>2, <3>3
  <2>6. CASE Page[flow].ok = "closeSuccess" /\ open' = Shut(open, {"success"})
    <3>1. \A m \in Modals : open'[m] = IF m \in {"success"} THEN 0 ELSE open[m]
      BY <1>1, <2>6, ShutKeepsTidy
    <3>2. open["rejection"] = 0 /\ open["error"] = 0 /\ open["waiting"] = 0 /\ open["progress"] = 0
      BY <1>4, <2>3, <2>6 DEF Ended
    <3>3. \A m \in Modals : open'[m] = 0
      BY <2>4, <2>6, <3>1, <3>2 DEF Modals
    <3>4. Ended(open', last')
      BY <3>3 DEF Ended, Modals
    <3>5. QED
      BY <1>7, <2>2, <3>4
  <2>7. QED
    BY <1>3, <1>9, <2>5, <2>6
<1>10. FlowInv'
  BY <1>3, <1>6, <1>7, <1>8, <1>9, RunsEnded
<1>11. Told
  BY <1>5 DEF Told
<1>12. QED
  BY <1>10, <1>11

LEMMA FlowStep ==
    ASSUME FlowAssumption, FlowInv, FlowNext
    PROVE  FlowInv' /\ Told
<1>1. ASSUME NEW b \in Buttons, Click(b) PROVE FlowInv' /\ Told
  BY <1>1, ClickKeeps
<1>2. ASSUME NEW r \in Slots, AnswerNothing(r) \/ AnswerValue(r) \/ Receipt(r)
      PROVE  FlowInv' /\ Told
  BY <1>2, AnswerKeeps
<1>3. ASSUME NEW r \in Slots, AnswerHash(r) PROVE FlowInv' /\ Told
  BY <1>3, AnswerHashKeeps
<1>4. ASSUME NEW r \in Slots, NEW denied \in BOOLEAN, Fail(r, denied) PROVE FlowInv' /\ Told
  BY <1>4, FailKeeps
<1>5. ASSUME Dismiss \/ PressOk PROVE FlowInv' /\ Told
  BY <1>5, DismissKeeps, PressOkKeeps
<1>6. QED
  BY <1>1, <1>2, <1>3, <1>4, <1>5 DEF FlowNext

LEMMA FlowTruthful == FlowAssumption /\ FlowInv => OneRun /\ (RetrySafe \/ ~spoiled => Truthful)
<1> SUFFICES ASSUME FlowAssumption, FlowInv, RetrySafe \/ ~spoiled, ~left
             PROVE  LET working == \E r \in Slots : Live(r)
                    IN  /\ Top \in {"waiting", "progress", "ipfs"} => working
                        /\ Top = "success" => last = "done" /\ ~working
                        /\ Top \in {"rejection", "error"} => last = "failed" /\ ~working
                        /\ Top = "none" => ~busy["page"]
  BY DEF FlowInv, Truthful
<1>1. Calm /\ flow \in DOMAIN Page /\ Tidy(open)
  BY DEF Calm, FlowInv, FlowTypes
<1>2. \A m \in Modals : Top = m <=> Over(open, m)
  BY TopShown
<1>3. \A m \in Modals : Over(open, m) => open[m] # 0
  BY DEF Over
<1>4. CASE \E r \in Slots : Live(r)
  <2>1. PICK r \in Slots : Live(r)
    BY <1>4
  <2>2. /\ open["success"] = 0 /\ open["error"] = 0 /\ open # NoModals
        /\ open["rejection"] # 0 => runs[r].by = "retry"
        /\ runs[r].step \in 1 .. Len(Steps)
        /\ IF StepOf(r).opens = "ipfs" THEN open["ipfs"] # 0
           ELSE open["waiting"] # 0 \/ open["progress"] # 0
    BY <2>1, LiveRun
  <2>3. open["rejection"] # 0 => RetrySafe
    BY <1>1, <2>1, <2>2 DEF FlowInv, CalmRun
  <2>4. RetrySafe => StepOf(r).opens # "ipfs"
    BY <2>2 DEF RetrySafe, StepOf
  <2>5. open["rejection"] # 0 => Over(open, "waiting") \/ Over(open, "progress")
    BY <1>1, <2>2, <2>3, <2>4 DEF Tidy
  <2>6. Top # "rejection"
    <3>1. {"waiting", "progress", "rejection"} \subseteq Modals
      BY DEF Modals
    <3>2. QED
      BY <1>2, <1>3, <2>5, <3>1
  <2>7. Top # "success" /\ Top # "error" /\ Top # "none"
    BY <1>2, <1>3, <2>2, TopShown DEF Modals
  <2>8. QED
    BY <1>4, <2>6, <2>7
<1>5. CASE \A r \in Slots : ~Live(r)
  <2>1. Ended(open, last) /\ ~busy["page"]
    BY <1>1, <1>5 DEF FlowInv, CalmEnd, CalmRun
  <2>2. Top \notin {"waiting", "progress"}
    BY <1>2, <1>3, <2>1 DEF Ended, Modals
  <2>3. Over(open, "success") => Top = "success" /\ last = "done"
    BY <1>2, <1>3, <2>1 DEF Ended, Modals
  <2>4. Top # "ipfs"
    BY <1>2, <1>3, <2>1, <2>3 DEF Ended, Modals
  <2>5. Top = "success" => last = "done"
    BY <1>2, <2>3 DEF Modals
  <2>6. Top \in {"rejection", "error"} => last = "failed"
    BY <1>2, <1>3, <2>1, <2>3 DEF Ended, Modals
  <2>7. QED
    BY <1>5, <2>1, <2>2, <2>4, <2>5, <2>6
<1>6. QED
  BY <1>4, <1>5

(* On every page whose table is well made, however transactions are answered and *)
(* whatever is pressed meanwhile, no second run is started beside the first, and *)
(* the user is told the truth about the run, and of its success at once, as long  *)
(* as nothing disturbs it or the page can be retried safely.                      *)
THEOREM PagesAreTruthful ==
    ASSUME FlowAssumption
    PROVE  FlowSpec => FlowSound
<1>1. FlowInit => FlowInv
  BY FlowStart
<1>2. FlowInv /\ [FlowNext]_flowVars => FlowInv'
  <2>1. ASSUME FlowInv, UNCHANGED flowVars PROVE FlowInv'
    BY <2>1 DEF flowVars, FlowInv, FlowTypes, Tidy, OneRun, RunShown, CalmRun, CalmEnd, Ended, Calm,
       Live, IsOpen, StepOf, Steps, RetrySafe
  <2>2. QED
    BY <2>1, FlowStep
<1>3. FlowInv => OneRun /\ (RetrySafe \/ ~spoiled => Truthful)
  BY FlowTruthful
<1>4. FlowInv /\ [FlowNext]_flowVars =>
          [last' = "done" /\ (\E r \in Slots : Live(r) /\ ~Live(r)') /\ (RetrySafe \/ ~spoiled')
               => Top' = "success" \/ left']_flowVars
  BY FlowStep DEF Told
<1>5. QED
  BY <1>1, <1>2, <1>3, <1>4, PTL DEF FlowSpec, FlowSound
====================================================================================
