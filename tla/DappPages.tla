---------------------------------- MODULE DappPages ----------------------------------
(***************************************************************************)
(* The tables of pages for TransactionFlow: which steps each one sends, what *)
(* it opens and shuts around them and which texts it has.  They are the     *)
(* dapp's pages and the newsroom manager's application to the registry; its  *)
(* pages that create a newsroom and sign the constitution, which wait for a *)
(* modal of their own before they send, are not among them.                 *)
(***************************************************************************)
EXTENDS Naturals, Sequences

(* What most steps do, and how some differ. *)
Ask(key) == [key |-> key, opens |-> "waiting", shuts |-> {"progress", "success"},
             answers |-> {"tx"}, hash |-> "progress", post |-> TRUE, denial |-> "rejection"]
Resetting(step) == [step EXCEPT !.shuts = @ \cup {"error", "rejection"}]
Silent(step)    == [step EXCEPT !.post = FALSE]
Waits(step)     == [step EXCEPT !.post = FALSE, !.hash = "waiting"]
Uploaded(step)  == [step EXCEPT !.shuts = @ \cup {"ipfs"}]

(* approve: nothing to do if enough is approved.  For a vote the tokens are  *)
(* approved, and the receipt awaited, inside the call, which returns nothing. *)
Approval     == [Ask("approve") EXCEPT !.answers = {"nothing", "tx"}, !.post = FALSE]
VotingRights == [Ask("approve") EXCEPT !.answers = {"nothing"}, !.post = FALSE]
Publish      == [key |-> "publish", opens |-> "ipfs", shuts |-> {"waiting", "progress", "success"},
                 answers |-> {"value"}, hash |-> "none", post |-> FALSE, denial |-> "unhandled"]

Says(keys) == [success |-> keys, error |-> keys, rejection |-> keys]

(* A page that shows success by its last step, and one whose button does. *)
Posts(steps, ok) == [steps |-> steps, finish |-> "nothing", ok |-> ok, remembered |-> TRUE,
                     content |-> Says({s.key : s \in {steps[i] : i \in DOMAIN steps}} \ {"publish"})]
Finishes(steps, how) == [Posts(steps, "leave") EXCEPT !.finish = how]

------------------------------------------------------------------------------------
(* The statements: challenge, appeal, appeal challenge. *)

SubmitChallengeSteps ==
    <<Resetting(Approval), Publish, Uploaded(Waits(Ask("challenge")))>>
SubmitChallengeContent == Says({"approve", "challenge"})
SubmitChallenge ==
    [Finishes(SubmitChallengeSteps, "success") EXCEPT !.content = SubmitChallengeContent]

RequestAppealSteps ==
    <<Uploaded(Resetting(Approval)), Publish, Uploaded(Resetting(Waits(Ask("appeal"))))>>
RequestAppealContent == Says({"approve", "appeal"})
RequestAppeal ==
    [Finishes(RequestAppealSteps, "success") EXCEPT !.content = RequestAppealContent]

SubmitAppealChallengeSteps ==
    <<[Approval EXCEPT !.post = TRUE], Publish, Ask("challengeAppeal")>>
SubmitAppealChallengeContent == Says({"approve", "challengeAppeal"})
SubmitAppealChallenge ==
    [Finishes(SubmitAppealChallengeSteps, "success")
        EXCEPT !.content = SubmitAppealChallengeContent]

------------------------------------------------------------------------------------
(* The listing page: votes and resolutions. *)

CommitVoteSteps   == <<VotingRights, Ask("commit")>>
CommitVoteContent == Says({"approve", "commit"})
ChallengeCommitVote ==
    [Posts(CommitVoteSteps, "closeSuccess") EXCEPT !.content = CommitVoteContent]

AppealCommitVoteSteps   == <<[VotingRights EXCEPT !.post = TRUE], Ask("commit")>>
AppealCommitVoteContent == Says({"approve", "commit"})
AppealChallengeCommitVote ==
    [Posts(AppealCommitVoteSteps, "closeSuccess") EXCEPT !.content = AppealCommitVoteContent]

ChallengeRevealVote       == Posts(<<Ask("reveal")>>, "closeSuccess")
AppealChallengeRevealVote == Posts(<<Ask("reveal")>>, "closeSuccess")
ApplicationUpdateStatus   == Posts(<<Ask("update")>>, "closeAll")
ChallengeResolve          == Posts(<<Ask("resolve")>>, "closeAll")
AppealResolve             == [Posts(<<Ask("resolve")>>, "closeAll") EXCEPT !.remembered = FALSE]
AppealChallengeResolve    == Posts(<<Ask("resolve")>>, "closeAll")
GrantAppeal               == Posts(<<Ask("grant")>>, "closeAll")
ConfirmAppeal             == Posts(<<Ask("confirm")>>, "closeAll")

------------------------------------------------------------------------------------
(* The dashboard. *)

ReclaimTokens    == Posts(<<Ask("withdraw")>>, "closeAll")
TokensToRescue   == Posts(<<Ask("rescue")>>, "closeAll")
RewardsToClaim   == Posts(<<Ask("claim")>>, "closeAll")
DepositSteps     == <<[Approval EXCEPT !.answers = {"nothing"}], Ask("request")>>
DepositContent   == Says({"approve", "request"})
DepositTokens    == [Posts(DepositSteps, "closeAll") EXCEPT !.content = DepositContent]

------------------------------------------------------------------------------------
(* The parameterizer's drawers, which close themselves on success. *)

CreateProposal     == Finishes(<<Resetting(Approval), Waits(Ask("propose"))>>, "leave")
ChallengeProposal  == Finishes(<<Resetting(Approval), Waits(Ask("challenge"))>>, "leave")
ProcessProposal    == Finishes(<<Waits(Ask("process"))>>, "leave")
CreateGovtProposal == Finishes(<<Waits(Ask("propose"))>>, "leave")
ProposalCommitVote == Finishes(<<Resetting(VotingRights), Waits(Ask("commit"))>>, "leave")
ProposalRevealVote == Finishes(<<Resetting(Silent(Ask("reveal")))>>, "leave")
ProposalResolve    == Finishes(<<Resetting(Silent(Ask("resolve")))>>, "leave")

------------------------------------------------------------------------------------
(* TransactionButton with its own progress modal: no rejection, no "Try Again". *)

Plain(key, answers) ==
    [key |-> key, opens |-> "progress", shuts |-> {"success", "error"}, answers |-> answers,
     hash |-> "none", post |-> FALSE, denial |-> "error"]
Button(steps) == [Posts(steps, "closeAll") EXCEPT !.finish = "success", !.remembered = FALSE]

DepositListing   == Button(<<Plain("approve", {"nothing", "tx"}), Plain("deposit", {"tx"})>>)
WithdrawListing  == Button(<<Plain("withdraw", {"tx"})>>)
ExitListing      == Button(<<Plain("exit", {"tx"})>>)
RevealVoteDetail == Button(<<Plain("reveal", {"tx"})>>)
ClaimOrRescue    == Button(<<Plain("claim", {"tx"})>>)
EditNewsroom     == Button(<<Plain("change", {"tx"})>>)
SendToMultisig   == Button(<<Plain("send", {"tx", "declined"})>>)
ApplyToTCR       == Button(<<Plain("approve", {"nothing", "tx"}), Plain("apply", {"tx"})>>)
(* A page that says "success" even of what it declined to send. *)
ManageAndApply   == Button(<<Plain("approve", {"nothing", "tx", "declined"}),
                             Plain("apply", {"tx", "declined"})>>)
Reparameterize   == Button(<<Plain("approve", {"nothing", "tx"}), Plain("propose", {"tx"})>>)
SetGovernment    == Button(<<Plain("set", {"tx"})>>)
SetAppellate     == Button(<<Plain("set", {"tx"})>>)

Pages ==
    [SubmitChallenge |-> SubmitChallenge, RequestAppeal |-> RequestAppeal,
     SubmitAppealChallenge |-> SubmitAppealChallenge,
     ChallengeCommitVote |-> ChallengeCommitVote,
     AppealChallengeCommitVote |-> AppealChallengeCommitVote,
     ChallengeRevealVote |-> ChallengeRevealVote,
     AppealChallengeRevealVote |-> AppealChallengeRevealVote,
     ApplicationUpdateStatus |-> ApplicationUpdateStatus,
     ChallengeResolve |-> ChallengeResolve, AppealResolve |-> AppealResolve,
     AppealChallengeResolve |-> AppealChallengeResolve,
     GrantAppeal |-> GrantAppeal, ConfirmAppeal |-> ConfirmAppeal,
     ReclaimTokens |-> ReclaimTokens, TokensToRescue |-> TokensToRescue,
     RewardsToClaim |-> RewardsToClaim, DepositTokens |-> DepositTokens,
     CreateProposal |-> CreateProposal, ChallengeProposal |-> ChallengeProposal,
     ProcessProposal |-> ProcessProposal, CreateGovtProposal |-> CreateGovtProposal,
     ProposalCommitVote |-> ProposalCommitVote, ProposalRevealVote |-> ProposalRevealVote,
     ProposalResolve |-> ProposalResolve,
     DepositListing |-> DepositListing, WithdrawListing |-> WithdrawListing,
     ExitListing |-> ExitListing, RevealVoteDetail |-> RevealVoteDetail,
     ClaimOrRescue |-> ClaimOrRescue, EditNewsroom |-> EditNewsroom,
     SendToMultisig |-> SendToMultisig, ApplyToTCR |-> ApplyToTCR, ManageAndApply |-> ManageAndApply,
     Reparameterize |-> Reparameterize, SetGovernment |-> SetGovernment,
     SetAppellate |-> SetAppellate]
====================================================================================
