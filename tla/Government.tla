-------------------------------- MODULE Government --------------------------------
(***************************************************************************)
(* Government.sol: the parameters of appeals and the constitution.  The    *)
(* appellate proposes values, a poll with a supermajority accepts or       *)
(* rejects them, and the government controller names the appellate.  The   *)
(* polls are those of PollTally; a proposal's id, the hash of name and     *)
(* value, is the pair itself.                                              *)
(*                                                                         *)
(* Definitions marked "faulty" are what a plausible slip in the code would *)
(* make of the definition they precede; nothing uses them.                 *)
(***************************************************************************)
EXTENDS Chain, PollTally

CONSTANTS
    Appellates,     \* who may become the appellate
    TokensVoted,    \* voter -> tokens the voter commits to a poll
    PropIds,        \* [name, value]: the proposals the appellate may make
    Constitutions,
    InitParams,     \* the parameters given to the constructor
    PROCESSBY,      \* how long after the vote a proposal may be processed
    MaxUint,        \* the largest date, 2^256 - 1
    MaxTime,        \* bound: the last block time
    LastStart       \* bound: no proposal is made later

Names == {"requestAppealLen", "judgeAppealLen", "appealFee", "appealVotePercentage",
          "appealChallengeVoteDispensationPct", "govtPCommitStageLen", "govtPRevealStageLen"}
Percentages == {"appealVotePercentage", "appealChallengeVoteDispensationPct"}

(* The constructor checks no percentages; the deployment gives valid ones. *)
GovernmentAssumption ==
    /\ Polls \subseteq Nat \ {0} /\ IsFiniteSet(Polls)
    /\ IsFiniteSet(Voters) /\ Nobody \notin Appellates
    /\ Options \subseteq Nat /\ NoVote \notin Options \X Nat
    /\ TokensVoted \in [Voters -> Nat]
    /\ PropIds \subseteq [name : Names, value : Nat]
    /\ InitParams \in [Names -> Nat] /\ \A n \in Percentages : InitParams[n] <= 100
    /\ PROCESSBY \in Nat /\ MaxUint \in Nat /\ MaxTime \in Nat \ {0}

VARIABLES
    params,         \* name -> value
    proposals,      \* id -> GovtParamProposal
    appellate,
    constitution    \* hash and URI

office         == <<appellate, constitution>>
governmentVars == <<tallyVars, params, proposals, office>>

GovtParamProposal == [pollID : {0} \cup Polls, processBy : Nat]
NoProposal == [pollID |-> 0, processBy |-> 0]

GovernmentTypeOK ==
    /\ now \in 1 .. MaxTime
    /\ pollNonce \in {0} \cup Polls
    /\ poll \in [Polls -> [quorum : Nat, commitEnd : Nat, revealEnd : Nat]]
    /\ votes \in [Polls -> [Voters -> {NoVote} \cup (Options \X Nat)]]
    /\ params \in [Names -> Nat]
    /\ proposals \in [PropIds -> GovtParamProposal]
    /\ appellate \in Appellates
    /\ constitution \in Constitutions

GovernmentInit ==
    /\ TallyInit
    /\ params = InitParams
    /\ proposals = [id \in PropIds |-> NoProposal]
    /\ appellate \in Appellates
    /\ constitution \in Constitutions

------------------------------------------------------------------------------------
PropExistsInTime(id) == proposals[id].processBy > now              \* faulty
PropExists(id) == proposals[id].processBy > 0

PropCanBeResolved(id) == proposals[id].pollID > 0 /\ Ended(proposals[id].pollID)

WithinRangeOfVotes(id) == id.name = "appealVotePercentage" => id.value <= 100   \* faulty
WithinRange(id) == id.name \in Percentages => id.value <= 100

NewPoll == pollNonce + 1

ProposeReparameterization(u, id) ==
    LET commitEnd == now + params["govtPCommitStageLen"]
        revealEnd == commitEnd + params["govtPRevealStageLen"]
    IN  /\ now <= LastStart
        /\ u = appellate
        /\ WithinRange(id)
        /\ ~PropExists(id)
        /\ params[id.name] # id.value
        /\ revealEnd + PROCESSBY <= MaxUint                        \* SafeMath.add
        /\ StartPoll(params["appealVotePercentage"], commitEnd, revealEnd)
        /\ proposals' = [proposals EXCEPT ![id] =
               [pollID |-> NewPoll, processBy |-> revealEnd + PROCESSBY]]
        /\ UNCHANGED <<params, office>>

SetNewConstitution(u, c) ==
    /\ u = appellate
    /\ constitution' = c
    /\ UNCHANGED <<tallyVars, params, proposals, appellate>>

AcceptedAtAnyTime(id) == Passed(proposals[id].pollID)              \* faulty
Accepted(id) == Passed(proposals[id].pollID) /\ proposals[id].processBy > now

(* Anyone may call it.  A proposal that passed but waited too long is dropped. *)
ProcessProposal(id) ==
    /\ PropCanBeResolved(id)
    /\ params' = IF Accepted(id) THEN [params EXCEPT ![id.name] = id.value] ELSE params
    /\ proposals' = [proposals EXCEPT ![id] = NoProposal]
    /\ UNCHANGED <<tallyVars, office>>

(* By the government controller. *)
SetAppellate(u) ==
    /\ u # Nobody
    /\ appellate' = u
    /\ UNCHANGED <<tallyVars, params, proposals, constitution>>

------------------------------------------------------------------------------------
(* The environment: time and votes. *)

Tick == now < MaxTime /\ Pass /\ UNCHANGED <<params, proposals, office>>

Vote(v, p, option) ==
    /\ Reveal(v, p, option, TokensVoted[v])
    /\ UNCHANGED <<params, proposals, office>>

GovernmentNext ==
    \/ Tick
    \/ \E v \in Voters, p \in Polls, option \in Options : Vote(v, p, option)
    \/ \E id \in PropIds : ProcessProposal(id)
    \/ \E u \in Appellates :
         \/ \E id \in PropIds : ProposeReparameterization(u, id)
         \/ \E c \in Constitutions : SetNewConstitution(u, c)
    \/ \E u \in Appellates \cup {Nobody} : SetAppellate(u)

GovernmentSpec == GovernmentInit /\ [][GovernmentNext]_governmentVars

------------------------------------------------------------------------------------
(* Properties. *)

Pending == {id \in PropIds : PropExists(id)}

(* The registry takes percentages from here: none ever exceeds 100, which is *)
(* what keeps its rewards from becoming negative.                            *)
PercentagesBounded == \A n \in Percentages : params[n] <= 100

(* Every pending proposal has a poll of its own, whose reveal period leaves *)
(* PROCESSBY to process it: none can be decided by another one's votes.     *)
PollsApart ==
    /\ \A id \in Pending :
          LET p == proposals[id].pollID
          IN  Exists(p) /\ proposals[id].processBy = poll[p].revealEnd + PROCESSBY
    /\ \A i, j \in Pending : i # j => proposals[i].pollID # proposals[j].pollID

(* A parameter changes only to the value of a pending proposal for which a   *)
(* supermajority of the votes was revealed, over the share in force when the *)
(* vote began, and within the time to process it; whoever is appellate now.  *)
ChangedByVote ==
    [][\A n \in Names : params'[n] # params[n] =>
          \E id \in Pending :
             LET p == proposals[id].pollID
             IN  /\ id.name = n /\ id.value = params'[n]
                 /\ now > poll[p].revealEnd /\ now < poll[p].revealEnd + PROCESSBY
                 /\ 100 * VotesFor(p) > poll[p].quorum * (VotesFor(p) + VotesAgainst(p))]_governmentVars

(* No pending proposal depends on another one, or could break the percentages. *)
ProposalsSound == GovernmentTypeOK /\ PercentagesBounded /\ PollsApart

Settings == INSTANCE SettingsLifecycle WITH settings <- params, pending <- Pending
(* The government keeps settings the way its readers see them. *)
ImplementsSettings == Settings!SettingsSpec
====================================================================================
