------------------------------- MODULE MCPLCRVoting -------------------------------
(* Instances of PLCRVoting for TLC: two voters who share a poll, and one voter *)
(* who juggles three.                                                          *)
EXTENDS PLCRVoting, TLC

CONSTANTS alice, bob

TwoVotersSupply == alice :> 1 @@ bob :> 2

HalfOrTwoThirds == {50, 66}
MixedDurations  == {<<1, 1>>, <<0, 2>>}
ForAgainstOther == {0, 1, 2}

(* Bounds: as long as there is one poll everything may happen; with more of them *)
(* only bob votes, for or against, and they are all alike.                       *)
OnePoll == pollNonce <= 1
OnlyBob ==
    /\ alice \notin unlockedList /\ \A p \in Polls : alice \notin didCommit[p]
    /\ \A p \in Polls : commitHash[bob][p] \in {0, 1, NoHash}
    /\ \A p \in 1 .. pollNonce :
          pollMap[p].voteQuorum = 50 /\ pollMap[p].revealEndDate = pollMap[p].commitEndDate + 1
MCNext == Next /\ (OnePoll \/ OnlyBob)'

MCSpec == Init /\ [][MCNext]_vars
MCFairSpec == MCSpec /\ Fairness
====================================================================================
