-------------------------------- MODULE VoteSecrets --------------------------------
(***************************************************************************)
(* The secrets of a vote between its commit and its reveal.  The dapp draws  *)
(* a random salt for each poll and account, keeps it with the vote option in *)
(* the storage of the browser, shows it as a phrase to write down when the   *)
(* vote is reviewed, and fills the reveal page from the storage.  The        *)
(* contract only accepts a reveal of the option and salt last committed.     *)
(*                                                                           *)
(* A commit is a run of several steps with the wallet and the contract between  *)
(* them.  Each step reads the account anew, one from the dapp's store and    *)
(* another from the wallet, and either may change meanwhile.                 *)
(***************************************************************************)
EXTENDS UsersAndPolls, Naturals, FiniteSets

CONSTANTS
    Browsers,
    Nobody,         \* no account is unlocked
    ShownFor,       \* poll -> the poll whose salt its commit page shows
    MaxSalts,       \* bound: salts ever drawn
    MaxSaves,       \* bound: options ever saved
    MaxCommits      \* bound: commits under way at one time

None  == 0
Salts == 1 .. MaxSalts
NoCommit ==
    [from |-> Nobody, reader |-> Nobody, savedFor |-> Nobody, phrase |-> None,
     salt |-> None, option |-> "none", attempt |-> 0]
NoPage   == [kind |-> "none"]

SecretsAssumption ==
    /\ ShownFor \in [Polls -> Polls]
    /\ MaxSalts \in Nat /\ MaxSaves \in Nat /\ MaxCommits \in Nat
    /\ Nobody \notin Users \cup Browsers

VARIABLES
    salt, option,   \* the storage: browser -> poll -> user -> what is kept
    saved,          \* browser -> poll -> user -> the number of the save that wrote the option
    drawn, saves,   \* numbers of salts drawn, no two of which are the same, and of saves
    account,        \* browser -> the account the wallet has unlocked
    prevAccount,    \* browser -> the account last looked up
    lookups,        \* browser -> the accounts whose balances are being looked up
    user,           \* browser -> the account in the dapp's store, which pages go by
    page,           \* browser -> the page it shows
    commits,        \* commits under way, from the click to the receipt
    committed,      \* poll -> user -> the commit the contract holds
    revealing,      \* the polls that have reached the reveal stage
    kept            \* browser -> whether its storage was never cleared

storage     == <<salt, option, saved, drawn, saves>>
accounts    == <<account, prevAccount, lookups, user>>
contract    == <<committed, revealing>>
secretsVars == <<storage, accounts, page, commits, contract, kept>>

SecretsInit ==
    /\ salt = [b \in Browsers |-> [p \in Polls |-> [u \in Users |-> None]]]
    /\ option = [b \in Browsers |-> [p \in Polls |-> [u \in Users |-> "none"]]]
    /\ saved = [b \in Browsers |-> [p \in Polls |-> [u \in Users |-> 0]]]
    /\ drawn = 0 /\ saves = 0
    /\ account = [b \in Browsers |-> Nobody]
    /\ prevAccount = [b \in Browsers |-> Nobody]
    /\ lookups = [b \in Browsers |-> {}]
    /\ user = [b \in Browsers |-> Nobody]
    /\ page = [b \in Browsers |-> NoPage]
    /\ commits = {}
    /\ committed = [p \in Polls |-> [u \in Users |-> NoCommit]]
    /\ revealing = {}
    /\ kept = [b \in Browsers |-> TRUE]

------------------------------------------------------------------------------------
(* fetchSalt, as a relation: what it returns and what it leaves in the storage. *)

FetchSaltAnew(b, p, u, s) ==                                               \* faulty
    IF u = Nobody THEN s = None /\ UNCHANGED <<salt, drawn>>
    ELSE /\ drawn < MaxSalts /\ s = drawn + 1 /\ drawn' = s
         /\ salt' = [salt EXCEPT ![b][p][u] = s]

FetchSalt(b, p, u, s) ==
    IF u = Nobody THEN s = None /\ UNCHANGED <<salt, drawn>>
    ELSE IF salt[b][p][u] # None THEN s = salt[b][p][u] /\ UNCHANGED <<salt, drawn>>
    ELSE /\ drawn < MaxSalts /\ s = drawn + 1 /\ drawn' = s
         /\ salt' = [salt EXCEPT ![b][p][u] = s]

FetchVote(b, p, u) == IF u = Nobody THEN "none" ELSE option[b][p][u]

------------------------------------------------------------------------------------
(* Committing. *)

(* The commit page fetches the salt it shows each time it is rendered. *)
OpenCommitPage(b, p) ==
    /\ p \notin revealing /\ page[b].kind = "none"
    /\ \E s \in Salts \cup {None} : FetchSalt(b, ShownFor[p], user[b], s)
    /\ page' = [page EXCEPT ![b] = [kind |-> "commit", poll |-> p, review |-> FALSE]]
    /\ UNCHANGED <<option, saved, saves, accounts, commits, contract, kept>>

(* The review shows the phrase; a careful voter writes down what it shows when *)
(* the vote is sent off, also if it showed another account's before.           *)
ReviewVote(b) ==
    /\ page[b].kind = "commit" /\ ~page[b].review
    /\ page' = [page EXCEPT ![b].review = TRUE]
    /\ UNCHANGED <<storage, accounts, commits, contract, kept>>

Phrase(b) == IF user[b] = Nobody THEN None ELSE salt[b][ShownFor[page[b].poll]][user[b]]

(* A run whose page is still there.  The modals of the run cover the page. *)
Busy(b) == \E r \in commits : r.from = b /\ r.live

CloseReview(b) ==
    /\ page[b].kind = "commit" /\ page[b].review /\ ~Busy(b)
    /\ page' = [page EXCEPT ![b].review = FALSE]
    /\ UNCHANGED <<storage, accounts, commits, contract, kept>>

(* The button starts the run, or starts it once more after a failure: the first  *)
(* of its steps asks for an approval and waits until that is mined.  Runs that    *)
(* agree in everything count as one.                                              *)
StartCommit(b) ==
    /\ page[b].kind = "commit" /\ page[b].review
    /\ account[b] # Nobody
    /\ ~Busy(b) /\ Cardinality(commits) < MaxCommits
    /\ commits' = commits \cup
           {[from |-> b, poll |-> page[b].poll, live |-> TRUE, props |-> Nobody,
             reader |-> user[b], phrase |-> Phrase(b), savedFor |-> Nobody,
             salt |-> None, option |-> "none", attempt |-> 0, sender |-> Nobody]}
    /\ UNCHANGED <<storage, accounts, page, contract, kept>>

(* commitVoteOnChallenge takes the account from the page's properties of now, or of *)
(* when the page was left, and saves the option before the wallet is even asked.    *)
PropsUser(r) == IF r.live THEN user[r.from] ELSE r.props

SaveVote(r, choice) ==
    LET b == r.from
        p == r.poll
        u == PropsUser(r)
    IN  /\ r.salt = None /\ u # Nobody /\ saves < MaxSaves
        /\ saves' = saves + 1
        /\ option' = [option EXCEPT ![b][p][u] = choice]
        /\ saved' = [saved EXCEPT ![b][p][u] = saves']
        /\ \E s \in Salts :
              /\ FetchSalt(b, p, u, s)
              /\ commits' = (commits \ {r}) \cup
                     {[r EXCEPT !.savedFor = u, !.salt = s, !.option = choice, !.attempt = saves']}
        /\ UNCHANGED <<accounts, page, contract, kept>>

(* After some more reading the transaction is sent, from the account of then. *)
SendCommit(r) ==
    /\ r.salt # None /\ r.sender = Nobody
    /\ account[r.from] # Nobody
    /\ commits' = (commits \ {r}) \cup {[r EXCEPT !.sender = account[r.from]]}
    /\ UNCHANGED <<storage, accounts, page, contract, kept>>

(* The contract replaces what the sender committed before, until the commit stage *)
(* ends.  With the receipt the review is closed.                                   *)
CommitAccepted(r) ==
    /\ r.sender # Nobody /\ r.poll \notin revealing
    /\ commits' = commits \ {r}
    /\ committed' = [committed EXCEPT ![r.poll][r.sender] =
           [from |-> r.from, reader |-> r.reader, savedFor |-> r.savedFor, phrase |-> r.phrase,
            salt |-> r.salt, option |-> r.option, attempt |-> r.attempt]]
    /\ page' = IF r.live THEN [page EXCEPT ![r.from].review = FALSE] ELSE page
    /\ UNCHANGED <<storage, accounts, revealing, kept>>

(* Any step may fail, at the wallet, the node or the contract, and the run ends; *)
(* a transaction that was sent may be mined all the same.                         *)
CommitFails(r) ==
    /\ \/ commits' = commits \ {r}
       \/ r.sender # Nobody /\ r.live /\ commits' = (commits \ {r}) \cup {[r EXCEPT !.live = FALSE]}
    /\ UNCHANGED <<storage, accounts, page, contract, kept>>

(* A run goes on without its page, with the properties the page had last. *)
Left(r) ==
    IF r.live THEN [r EXCEPT !.live = FALSE, !.props = IF r.salt = None THEN user[r.from] ELSE @] ELSE r

CommitStageEnds(p) ==
    LET leaves(b) == page[b].kind = "commit" /\ page[b].poll = p IN
    /\ p \notin revealing
    /\ revealing' = revealing \cup {p}
    /\ page' = [b \in Browsers |-> IF leaves(b) THEN NoPage ELSE page[b]]
    /\ commits' = {IF leaves(r.from) THEN Left(r) ELSE r : r \in commits}
    /\ UNCHANGED <<storage, accounts, committed, kept>>

ClosePage(b) ==
    /\ page[b].kind # "none"
    /\ page' = [page EXCEPT ![b] = NoPage]
    /\ commits' = {IF r.from = b THEN Left(r) ELSE r : r \in commits}
    /\ UNCHANGED <<storage, accounts, contract, kept>>

------------------------------------------------------------------------------------
(* Revealing. *)

(* The reveal page takes option and salt when it is built. *)
RevealPage(b, p, u) ==
    \E s \in Salts \cup {None} :
        /\ FetchSalt(b, p, u, s)
        /\ page' = [page EXCEPT ![b] = [kind |-> "reveal", poll |-> p,
                                        option |-> FetchVote(b, p, u), salt |-> s]]

OpenRevealPage(b, p) ==
    /\ p \in revealing /\ page[b].kind = "none"
    /\ RevealPage(b, p, user[b])
    /\ UNCHANGED <<option, saved, saves, accounts, commits, contract, kept>>

------------------------------------------------------------------------------------
(* The account. *)

(* The store has another account.  The commit page is rendered again, with its   *)
(* review and its run; the reveal page is built anew, as the account is its key.  *)
ShowUser(b, u) ==
    /\ user' = [user EXCEPT ![b] = u]
    /\ CASE u = user[b] \/ page[b].kind = "none" -> UNCHANGED <<salt, drawn, page>>
         [] u # user[b] /\ page[b].kind = "commit" ->
              /\ \E s \in Salts \cup {None} : FetchSalt(b, ShownFor[page[b].poll], u, s)
              /\ UNCHANGED page
         [] u # user[b] /\ page[b].kind = "reveal" -> RevealPage(b, page[b].poll, u)

(* onAccountUpdated: the wallet has another account, or none, or the network is new *)
(* and the account is told again.  One that is not the last is looked up, and only  *)
(* then told to the store.                                                         *)
SwitchAccount(b, u) ==
    /\ account' = [account EXCEPT ![b] = u]
    /\ IF u # Nobody /\ u # prevAccount[b]
       THEN /\ prevAccount' = [prevAccount EXCEPT ![b] = u]
            /\ lookups' = [lookups EXCEPT ![b] = @ \cup {u}]
            /\ UNCHANGED <<user, salt, drawn, page>>
       ELSE ShowUser(b, Nobody) /\ UNCHANGED <<prevAccount, lookups>>
    /\ UNCHANGED <<option, saved, saves, commits, contract, kept>>

(* A lookup is over, in any order with others, or fails. *)
LookedUp(b, u) ==
    /\ u \in lookups[b]
    /\ lookups' = [lookups EXCEPT ![b] = @ \ {u}]
    /\ ShowUser(b, u) \/ UNCHANGED <<user, salt, drawn, page>>
    /\ UNCHANGED <<account, prevAccount, option, saved, saves, commits, contract, kept>>

(* The dapp is loaded again: only storage and what was sent remain. *)
Restart(b) ==
    /\ page' = [page EXCEPT ![b] = NoPage]
    /\ account' = [account EXCEPT ![b] = Nobody]
    /\ prevAccount' = [prevAccount EXCEPT ![b] = Nobody]
    /\ lookups' = [lookups EXCEPT ![b] = {}]
    /\ user' = [user EXCEPT ![b] = Nobody]
    /\ commits' = {IF r.from = b THEN Left(r) ELSE r : r \in {q \in commits : q.from # b \/ q.sender # Nobody}}

Reload(b) == Restart(b) /\ UNCHANGED <<storage, contract, kept>>

(* As on another device, nothing is left in the storage. *)
ClearStorage(b) ==
    /\ kept[b]
    /\ Restart(b)
    /\ salt' = [salt EXCEPT ![b] = [p \in Polls |-> [u \in Users |-> None]]]
    /\ option' = [option EXCEPT ![b] = [p \in Polls |-> [u \in Users |-> "none"]]]
    /\ kept' = [kept EXCEPT ![b] = FALSE]
    /\ UNCHANGED <<saved, drawn, saves, contract>>

SecretsNext ==
    \/ \E b \in Browsers, p \in Polls : OpenCommitPage(b, p) \/ OpenRevealPage(b, p)
    \/ \E b \in Browsers : ReviewVote(b) \/ CloseReview(b) \/ StartCommit(b) \/ ClosePage(b)
                           \/ Reload(b) \/ ClearStorage(b)
    \/ \E b \in Browsers, u \in Users \cup {Nobody} : SwitchAccount(b, u) \/ LookedUp(b, u)
    \/ \E r \in commits :
          \/ \E choice \in {"keep", "remove"} : SaveVote(r, choice)
          \/ SendCommit(r) \/ CommitAccepted(r) \/ CommitFails(r)
    \/ \E p \in Polls : CommitStageEnds(p)

SecretsSpec == SecretsInit /\ [][SecretsNext]_secretsVars

------------------------------------------------------------------------------------
(* Properties. *)

(* The vote was saved for the account that sent it.  Otherwise another account *)
(* was unlocked after commitVoteOnChallenge began, and the vote can only be     *)
(* opened with what the browser kept for the one before.                       *)
SavedForSender(p, u) == committed[p][u].savedFor = u

(* In the browser a vote was committed from, the reveal page holds the option *)
(* and the salt the contract holds, whatever accounts were unlocked in between *)
(* and before, unless another option was saved later on, for a commit that did *)
(* not get through.                                                            *)
RevealPageReady ==
    \A b \in Browsers : page[b].kind = "reveal" /\ kept[b] /\ user[b] # Nobody =>
        LET held == committed[page[b].poll][user[b]]
        IN  held.from = b /\ SavedForSender(page[b].poll, user[b]) =>
                /\ page[b].salt = held.salt
                /\ held.attempt = saved[b][page[b].poll][user[b]] =>
                       page[b].option = held.option

(* Even if commits got lost and were sent again, a salt once committed is never *)
(* replaced in the storage it came from, under the account it was saved for.    *)
SaltSurvives ==
    \A p \in Polls, u \in Users :
        LET held == committed[p][u]
        IN  held.from \in Browsers /\ kept[held.from] =>
                salt[held.from][p][held.savedFor] = held.salt

(* The phrase written down at the review opens the vote, on any device, if the *)
(* account it was shown to is the one that voted.                              *)
PhraseOpens(p) ==
    \A u \in Users : SavedForSender(p, u) /\ committed[p][u].reader = u =>
        committed[p][u].phrase = committed[p][u].salt

VotesRevealable ==
    RevealPageReady /\ SaltSurvives /\ \A p \in Polls : ShownFor[p] = p => PhraseOpens(p)

(* AppealChallengeCommitVote.tsx:55 asks to keep the phrase: "You will need it *)
(* to confirm your vote."  Here the account is the same throughout.            *)
PhraseConfirmsVote == \A p \in Polls : PhraseOpens(p)

(* ChallengeCommitVote.tsx:55 says the same of the challenge's page, the phrase *)
(* of which is that of the poll: it opens the vote that the run committed.       *)
ReviewedPhraseConfirms ==
    \A p \in Polls, u \in Users : ShownFor[p] = p /\ committed[p][u].phrase # None =>
        committed[p][u].phrase = committed[p][u].salt
====================================================================================
