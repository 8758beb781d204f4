-------------------------------- MODULE MCCivilTCR --------------------------------
(* Instances of CivilTCR for TLC. *)
EXTENDS ListingView, TLC

CONSTANTS paper, blog, ann, ben

NoVoteValue == <<>>
OneListing  == {paper}
TwoListings == {paper, blog}
PollIds2    == 1 .. 2
OwnedByAnn  == [l \in Listings |-> ann]
FundsOf8    == [u \in Users |-> 8]
FundsOf6    == [u \in Users |-> 6]
Weights     == ann :> 1 @@ ben :> 2
BensWeight  == ben :> 2
ForAgainst  == {0, 1}

(* All periods last one unit; a challenge stakes 2, of which half goes to voters. *)
BaseParams == [minDeposit |-> 2, applyStageLen |-> 1, commitStageLen |-> 0,
               revealStageLen |-> 1, voteQuorum |-> 50, dispensationPct |-> 50,
               challengeAppealLen |-> 1, challengeAppealCommitLen |-> 0,
               challengeAppealRevealLen |-> 1]
OneParams  == {BaseParams}
TwoParams  == {BaseParams, [BaseParams EXCEPT !.minDeposit = 3, !.dispensationPct = 40]}

BaseGovernment == [requestAppealLen |-> 2, judgeAppealLen |-> 1, appealFee |-> 2,
                   appealVotePercentage |-> 66, appealChallengeVoteDispensationPct |-> 50]
NoAppealWindow == {[BaseGovernment EXCEPT !.requestAppealLen = 0]}
OneGovernment  == {BaseGovernment}
OddFee         == {[BaseGovernment EXCEPT !.appealFee = 1]}
TwoGovernments == {BaseGovernment, [BaseGovernment EXCEPT !.appealFee = 4, !.judgeAppealLen = 2]}

Two   == {2}
====================================================================================
