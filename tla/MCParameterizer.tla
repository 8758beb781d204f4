----------------------------- MODULE MCParameterizer -----------------------------
(* Instances of Parameterizer for TLC. *)
EXTENDS Parameterizer, TLC

CONSTANTS ann, ben

NoVoteValue == <<>>
TwoPolls    == 1 .. 2
ForAgainst  == {0, 1}
FundsOf6    == [u \in Users |-> 6]
BensWeight  == ben :> 2

(* A proposal stakes 2, of which half goes to voters, and waits one unit. *)
BaseParams ==
    [n \in Names |-> CASE n \in {"pMinDeposit", "minDeposit"} -> 2
                       [] n \in Percentages \cup {"voteQuorum", "pVoteQuorum"} -> 50
                       [] n = "pCommitStageLen" -> 0
                       [] OTHER -> 1]

RaiseDeposit == [name |-> "pMinDeposit", value |-> 3]
NoDates      == [name |-> "pApplyStageLen", value |-> 100]

DepositDates == {RaiseDeposit, NoDates}
====================================================================================
