------------------------------- MODULE Parameterizer -------------------------------
(***************************************************************************)
(* Parameterizer.sol with the three parameters CivilParameterizer.sol adds *)
(* to it: anyone proposes a value for a parameter with a deposit, anyone   *)
(* challenges the proposal with the same stake, a poll decides, and        *)
(* processProposal settles it.  The polls are those of PollTally; ERC20    *)
(* transfers move tokens or revert the transaction.  A proposal's id, the  *)
(* hash of name and value, is the pair itself.                             *)
(*                                                                         *)
(* Definitions marked "faulty" are what a plausible slip in the code would *)
(* make of the definition they precede; nothing uses them.                 *)
(***************************************************************************)
EXTENDS PollTally

CONSTANTS
    Users,          \* the accounts that hold tokens
    Nobody,         \* address 0
    Funds,          \* user -> tokens owned at the start
    TokensVoted,    \* voter -> tokens the voter commits to a poll
    PropIds,        \* [name, value]: the proposals somebody may make
    InitParams,     \* the parameters given to the constructor
    PROCESSBY,      \* how long after the vote a proposal may be processed
    MaxUint,        \* the largest date, 2^256 - 1
    MaxTime,        \* bound: the last block time
    LastStart       \* bound: no proposal is made later

Names == {"minDeposit", "pMinDeposit", "applyStageLen", "pApplyStageLen", "commitStageLen",
          "pCommitStageLen", "revealStageLen", "pRevealStageLen", "dispensationPct",
          "pDispensationPct", "voteQuorum", "pVoteQuorum", "challengeAppealLen",
          "challengeAppealCommitLen", "challengeAppealRevealLen"}
Percentages == {"dispensationPct", "pDispensationPct"}

ASSUME PollsAssumption   == Polls \subseteq Nat \ {0} /\ IsFiniteSet(Polls)
ASSUME UsersAssumption   == Voters \subseteq Users /\ Nobody \notin Users /\ IsFiniteSet(Voters)
ASSUME OptionsAssumption == Options \subseteq Nat /\ NoVote \notin Options \X Nat
ASSUME FundsAssumption   == Funds \in [Users -> Nat]
ASSUME VotesAssumption   == TokensVoted \in [Voters -> Nat]
ASSUME PropIdsAssumption == PropIds \subseteq [name : Names, value : Nat] /\ IsFiniteSet(PropIds)
ASSUME ParamsAssumption  ==
    InitParams \in [Names -> Nat] /\ \A n \in Percentages : InitParams[n] <= 100
ASSUME TimeAssumption    == PROCESSBY \in Nat /\ MaxUint \in Nat /\ MaxTime \in Nat \ {0}

VARIABLES
    params,         \* name -> value
    proposals,      \* id -> ParamProposal
    challenges,     \* poll id -> Challenge
    held,           \* tokens this contract holds
    balanceOf       \* user -> tokens

funds == <<held, balanceOf>>
vars  == <<tallyVars, params, proposals, challenges, funds>>

Ids == {0} \cup Polls      \* id 0: no challenge; its entry is never written

ParamProposal == [appExpiry : Nat, challengeID : Ids, deposit : Nat,
                  owner : Users \cup {Nobody}, processBy : Nat]
NoProposal == [appExpiry |-> 0, challengeID |-> 0, deposit |-> 0, owner |-> Nobody,
               processBy |-> 0]

Challenge == [rewardPool : Nat, challenger : Users \cup {Nobody}, resolved : BOOLEAN,
              stake : Nat, winningTokens : Nat, tokenClaims : SUBSET Voters]
NewChallenge(challenger, stake, rewardPool) ==
    [rewardPool |-> rewardPool, challenger |-> challenger, resolved |-> FALSE,
     stake |-> stake, winningTokens |-> 0, tokenClaims |-> {}]

TypeOK ==
    /\ now \in 1 .. MaxTime
    /\ pollNonce \in Ids
    /\ poll \in [Polls -> [quorum : Nat, commitEnd : Nat, revealEnd : Nat]]
    /\ votes \in [Polls -> [Voters -> {NoVote} \cup (Options \X Nat)]]
    /\ params \in [Names -> Nat]
    /\ proposals \in [PropIds -> ParamProposal]
    /\ challenges \in [Ids -> Challenge]
    /\ held \in Nat
    /\ balanceOf \in [Users -> Nat]

Init ==
    /\ TallyInit
    /\ params = InitParams
    /\ proposals = [id \in PropIds |-> NoProposal]
    /\ challenges = [c \in Ids |-> NewChallenge(Nobody, 0, 0)]
    /\ held = 0
    /\ balanceOf = Funds

------------------------------------------------------------------------------------
(* token.transferFrom(u, this, n) *)
Take(u, n) ==
    /\ balanceOf[u] >= n
    /\ balanceOf' = [balanceOf EXCEPT ![u] = @ - n]
    /\ held' = held + n

(* token.transfer(u, n), which rejects address 0. *)
Pay(u, n) ==
    /\ u \in Users
    /\ held >= n
    /\ balanceOf' = [balanceOf EXCEPT ![u] = @ + n]
    /\ held' = held - n

PropExists(id)  == proposals[id].processBy > 0
ChallengeOf(id) == proposals[id].challengeID

CanBeSetLate(id) == now > proposals[id].appExpiry /\ ChallengeOf(id) = 0   \* faulty

CanBeSet(id) ==
    /\ now > proposals[id].appExpiry
    /\ now < proposals[id].processBy
    /\ ChallengeOf(id) = 0

ChallengeCanBeResolved(id) ==
    /\ ChallengeOf(id) > 0
    /\ ~challenges[ChallengeOf(id)].resolved
    /\ Ended(ChallengeOf(id))

(* The last date of a proposal made at this time under parameters ps. *)
LastDate(ps) == now + ps["pApplyStageLen"] + ps["pCommitStageLen"] + ps["pRevealStageLen"]
                    + PROCESSBY

ProposeReparameterization(u, id) ==
    /\ now <= LastStart
    /\ id.name \in Percentages => id.value <= 100
    /\ ~PropExists(id)
    /\ params[id.name] # id.value
    /\ LastDate(params) <= MaxUint                                 \* SafeMath.add
    /\ proposals' = [proposals EXCEPT ![id] =
           [appExpiry |-> now + params["pApplyStageLen"], challengeID |-> 0,
            deposit |-> params["pMinDeposit"], owner |-> u, processBy |-> LastDate(params)]]
    /\ Take(u, params["pMinDeposit"])
    /\ UNCHANGED <<tallyVars, params, challenges>>

CurrentStake(id) == params["pMinDeposit"]                          \* faulty StakeOn
StakeOn(id) == proposals[id].deposit

(* Nothing limits the time of a challenge but that the proposal still exists. *)
ChallengeReparameterization(u, id) ==
    LET c         == pollNonce + 1
        stake     == StakeOn(id)
        commitEnd == now + params["pCommitStageLen"]
        revealEnd == commitEnd + params["pRevealStageLen"]
    IN  /\ PropExists(id)
        /\ ChallengeOf(id) = 0
        /\ revealEnd <= MaxUint                                    \* SafeMath.add
        /\ StartPoll(params["pVoteQuorum"], commitEnd, revealEnd)
        /\ challenges' = [challenges EXCEPT ![c] =
               NewChallenge(u, stake, ((100 - params["pDispensationPct"]) * stake) \div 100)]
        /\ proposals' = [proposals EXCEPT ![id].challengeID = c]
        /\ Take(u, stake)
        /\ UNCHANGED params

ChallengeWinnerRewardLessPool(c) == 2 * challenges[c].stake - challenges[c].rewardPool \* faulty

(* If nobody voted on the winning side there are no voters to share with. *)
ChallengeWinnerReward(c) ==
    IF WinningTokens(c) = 0 THEN 2 * challenges[c].stake
    ELSE 2 * challenges[c].stake - challenges[c].rewardPool

SetParam(id) == params' = [params EXCEPT ![id.name] = id.value]

ResolveChallenge(id) ==
    LET c == ChallengeOf(id) IN
    /\ challenges' = [challenges EXCEPT ![c].winningTokens = WinningTokens(c),
                                        ![c].resolved = TRUE]
    /\ IF Passed(c) /\ proposals[id].processBy > now THEN SetParam(id) ELSE UNCHANGED params
    /\ Pay(IF Passed(c) THEN proposals[id].owner ELSE challenges[c].challenger,
           ChallengeWinnerReward(c))

(* The check at the end of processProposal that new proposals have dates. *)
DatesFit == LastDate(params') <= MaxUint

(* The first condition that holds decides; without any the call reverts. *)
ProcessProposal(id) ==
    LET prop == proposals[id] IN
    /\ \/ CanBeSet(id) /\ SetParam(id) /\ Pay(prop.owner, prop.deposit) /\ UNCHANGED challenges
       \/ ~CanBeSet(id) /\ ChallengeCanBeResolved(id) /\ ResolveChallenge(id)
       \/ /\ ~CanBeSet(id) /\ ~ChallengeCanBeResolved(id)
          /\ now > prop.processBy
          /\ Pay(prop.owner, prop.deposit)
          /\ UNCHANGED <<params, challenges>>
    /\ \A n \in Percentages : params'[n] <= 100                    \* assert
    /\ DatesFit
    /\ proposals' = [proposals EXCEPT ![id] = NoProposal]
    /\ UNCHANGED tallyVars

VoterReward(v, c) == (votes[c][v][2] * challenges[c].rewardPool) \div challenges[c].winningTokens

TokensLeft(v, c) == challenges[c].winningTokens - votes[c][v][2]

(* The subtractions are unchecked: TypeOK says that they never wrap. *)
MayClaim(v, c) == v \notin challenges[c].tokenClaims /\ challenges[c].resolved

ClaimReward(v, c) ==
    /\ MayClaim(v, c)
    /\ v \in Winners(c)
    /\ challenges[c].winningTokens # 0                             \* division
    /\ challenges' = [challenges EXCEPT ![c].winningTokens = TokensLeft(v, c),
                                        ![c].rewardPool = @ - VoterReward(v, c),
                                        ![c].tokenClaims = @ \cup {v}]
    /\ Pay(v, VoterReward(v, c))
    /\ UNCHANGED <<tallyVars, params, proposals>>

------------------------------------------------------------------------------------
(* The environment: time and votes. *)

Tick == now < MaxTime /\ Pass /\ UNCHANGED <<params, proposals, challenges, funds>>

Vote(v, c, option) ==
    /\ Reveal(v, c, option, TokensVoted[v])
    /\ UNCHANGED <<params, proposals, challenges, funds>>

Next ==
    \/ Tick
    \/ \E v \in Voters, c \in Polls :
         \/ \E option \in Options : Vote(v, c, option)
         \/ ClaimReward(v, c)
    \/ \E id \in PropIds :
         \/ ProcessProposal(id)
         \/ \E u \in Users : ProposeReparameterization(u, id) \/ ChallengeReparameterization(u, id)

Spec == Init /\ [][Next]_vars

(* Time passes, and somebody eventually processes a proposal that can be: *)
(* the function is open to everyone, and a deposit depends on it.         *)
FairSpec == Spec /\ WF_vars(Tick) /\ \A id \in PropIds : WF_vars(ProcessProposal(id))

------------------------------------------------------------------------------------
(* Properties. *)

Pending   == {id \in PropIds : PropExists(id)}
Started   == {c \in Polls : challenges[c].challenger # Nobody}
Contested == {ChallengeOf(id) : id \in Pending} \ {0}
Resolved  == {c \in Polls : challenges[c].resolved}

(* The challenges of proposals that were deleted as expired before the poll *)
(* had ended: nothing can resolve them any more.                            *)
Stranded  == Started \ (Contested \cup Resolved)

Unclaimed(c) == IF challenges[c].winningTokens > 0 THEN challenges[c].rewardPool ELSE 0

(* The contract holds exactly the deposits of pending proposals, the stakes  *)
(* of challenges not resolved and the pools not claimed: no order of         *)
(* proposals, challenges, expiries and claims pays one party with the tokens *)
(* of another.                                                               *)
Solvent ==
    held = SumOver([id \in PropIds |-> proposals[id].deposit], Pending)
             + SumOver([c \in Ids |-> challenges[c].stake], Contested \cup Stranded)
             + SumOver([c \in Ids |-> Unclaimed(c)], Resolved)

(* What is left to claim against belongs to the winners that did not claim. *)
ClaimsCovered ==
    \A c \in Resolved :
        challenges[c].winningTokens = TokensOf(c, Winners(c) \ challenges[c].tokenClaims)

(* A pending proposal's challenge is its own, still open and for its deposit, *)
(* also when the same value is proposed again after an earlier decision.      *)
ChallengesApart ==
    /\ \A id \in Pending : ChallengeOf(id) # 0 =>
          /\ ~challenges[ChallengeOf(id)].resolved
          /\ challenges[ChallengeOf(id)].stake = proposals[id].deposit
    /\ \A i, j \in Pending : i # j /\ ChallengeOf(i) # 0 => ChallengeOf(i) # ChallengeOf(j)

(* A parameter changes only to a value whose proposal was pending, in time, *)
(* and either unchallenged to the end of its application or voted for.      *)
EnactedByRule ==
    [][\A n \in Names : params'[n] # params[n] =>
          \E id \in Pending :
             /\ id.name = n /\ id.value = params'[n]
             /\ now < proposals[id].processBy
             /\ IF ChallengeOf(id) = 0 THEN now > proposals[id].appExpiry
                ELSE Ended(ChallengeOf(id)) /\ Passed(ChallengeOf(id))]_vars

(* Tokens add up to the last claim. *)
FundsCovered == Solvent /\ ClaimsCovered

(* No proposal is decided by the poll, or out of the stake, of another one. *)
ProposalsSound == TypeOK /\ ChallengesApart

(* Every proposal is decided in the end, and its deposit with it. *)
ProposalsDecided == \A id \in PropIds : PropExists(id) ~> ~PropExists(id)
====================================================================================
