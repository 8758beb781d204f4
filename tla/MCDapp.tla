---------------------------------- MODULE MCDapp ----------------------------------
(***************************************************************************)
(* The dapp's own behaviour: the pages that send transactions, the secrets   *)
(* of votes and the search for an account's votes.  They share no state, so  *)
(* one of them runs in a behaviour while the others stay as they begin; the  *)
(* last two run once with several accounts and one poll, and once with one   *)
(* account, a challenge and the appeal challenge of it.                      *)
(***************************************************************************)
EXTENDS VoteSecrets, UserVotes, TransactionFlow, DappPages, TLC

CONSTANTS
    ann, ben, laptop,
    MaxChanges      \* bound: how often the account is told anew or forgotten

VARIABLES
    focus,      \* what runs
    changes     \* how often the account was told

vars == <<focus, changes, flowVars, secretsVars, votesVars>>

(* The values of the constants. *)
TwoUsers      == {ann, ben}
OneBrowser    == {laptop}
TwoPolls      == {1, 2}
FirstOfBoth   == <<1, 1>>
AppealOfFirst == <<"challenge", "appealChallenge">>
AllEvents     == {"commit", "reveal", "rescue", "collect"}

(* One initial state will do for what does not run. *)
Init ==
    /\ focus \in {"flow", "secrets", "appeal secrets", "votes", "votes in turn"}
    /\ changes = 0
    /\ FlowInit
    /\ focus # "flow" => flow = "SubmitChallenge"
    /\ SecretsInit
    /\ VotesInit

PageRuns == focus = "flow" /\ FlowNext /\ UNCHANGED <<focus, changes, secretsVars, votesVars>>

(* Bounds: both accounts on the first poll, or the first account on both polls, *)
(* one commit at a time; and MaxChanges times the account is told.  Accounts and   *)
(* options can be swapped, so ann may be the first account and "keep" the first    *)
(* option.                                                                         *)
OnFirstPoll  == revealing \subseteq {1} /\ (page[laptop].kind # "none" => page[laptop].poll = 1)
OnlyAnnVotes == account[laptop] # ben /\ Cardinality(commits) <= 1
AnnFirst     == changes = 1 => account[laptop] # ben
KeepFirst    == saves = 1 => \A p \in Polls, u \in Users : option[laptop][p][u] # "remove"
Told         == account' # account \/ (user' # user /\ lookups' = lookups)
SecretsRun ==
    /\ SecretsNext
    /\ changes' = IF Told THEN changes + 1 ELSE changes
    /\ changes' <= MaxChanges /\ AnnFirst' /\ KeepFirst'
    /\ \/ focus = "secrets" /\ OnFirstPoll'
       \/ focus = "appeal secrets" /\ OnlyAnnVotes'
    /\ UNCHANGED <<focus, flowVars, votesVars>>

(* Bounds: everything that may happen to one account's votes, or accounts that *)
(* change and commit on the first poll.                                        *)
OneAnn         == (session = <<>> \/ (Len(session) = 1 /\ session[1].user = ann))
OnlyAnnsVotes  == \A p \in Polls : vote[p][ben] = {}
CommitsOnFirst == started \subseteq {1} /\ \A u \in Users : vote[1][u] \subseteq {"commit"}
SearchRuns ==
    /\ VotesNext
    /\ \/ focus = "votes" /\ OneAnn' /\ OnlyAnnsVotes'
       \/ focus = "votes in turn" /\ CommitsOnFirst'
    /\ UNCHANGED <<focus, changes, flowVars, secretsVars>>

Next == PageRuns \/ SecretsRun \/ SearchRuns

Spec == Init /\ [][Next]_vars

ASSUME FlowAssumption /\ SecretsAssumption /\ VotesAssumption
====================================================================================
