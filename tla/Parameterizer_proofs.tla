---------------------------- MODULE Parameterizer_proofs ----------------------------
(***************************************************************************)
(* Theorems about Parameterizer, for any users, voters, proposals, stakes  *)
(* and dates.                                                              *)
(***************************************************************************)
EXTENDS Parameterizer, Sums_proofs

(* A proposal that is not pending is erased, and a pending one's challenge was *)
(* started.                                                                    *)
IdleErased == \A id \in PropIds \ Pending : proposals[id] = NoProposal
ContestedStarted == \A id \in Pending : ChallengeOf(id) # 0 => ChallengeOf(id) \in Started

(* A poll that is still to be started has no challenge. *)
FutureBlank == \A c \in Polls : c > pollNonce => challenges[c] = NewChallenge(Nobody, 0, 0)

(* A challenge is resolved once, after its poll, and claims follow. *)
ResolvedAfterPoll == \A c \in Resolved : c \in Started /\ Ended(c)
NoEarlyClaims == \A c \in Polls : ~challenges[c].resolved => challenges[c].tokenClaims = {}

PercentagesBounded == \A n \in Percentages : params[n] <= 100
PoolsWithinStakes  == \A c \in Ids : challenges[c].rewardPool <= challenges[c].stake

(* What is left to claim against covers the winners that did not claim, and is *)
(* theirs alone if no vote had a third option.                                 *)
OnlyForAgainst == Options \subseteq {0, 1}
Left(c)   == TokensOf(c, Winners(c) \ challenges[c].tokenClaims)
Backed(c) == /\ challenges[c].winningTokens >= Left(c)
             /\ (OnlyForAgainst => challenges[c].winningTokens = Left(c))
AllBacked == \A c \in Resolved : Backed(c)

(* Solvent, with the challenges that are contested or stranded as one set. *)
Deposits == [id \in PropIds |-> proposals[id].deposit]
Stakes   == [c \in Ids |-> challenges[c].stake]
Pools    == [c \in Ids |-> Unclaimed(c)]
Open     == Started \ Resolved
Money    == held = SumOver(Deposits, Pending) + SumOver(Stakes, Open) + SumOver(Pools, Resolved)

Records == /\ IdleErased /\ ContestedStarted /\ FutureBlank /\ ResolvedAfterPoll
           /\ NoEarlyClaims /\ PercentagesBounded /\ PoolsWithinStakes

ParameterizerInv == ProposalsSound /\ Records /\ AllBacked /\ Money

(* What EnactedByRule says of a step. *)
EnactedStep ==
    \A n \in Names : params'[n] # params[n] =>
        \E id \in Pending :
           /\ id.name = n /\ id.value = params'[n]
           /\ now < proposals[id].processBy
           /\ IF ChallengeOf(id) = 0 THEN now > proposals[id].appExpiry
              ELSE Ended(ChallengeOf(id)) /\ Passed(ChallengeOf(id))

-------------------------------------------------------------------------------------
(* Types. *)

LEMMA IdsArePolls == /\ 0 \in Ids /\ Polls \subseteq Ids /\ Ids \subseteq Nat /\ Ids \ {0} = Polls
                     /\ IsFiniteSet(Ids) /\ IsFiniteSet(PropIds) /\ IsFiniteSet(Voters)
<1>1. IsFiniteSet({0})
  BY FS_Singleton
<1>2. IsFiniteSet(Ids)
  BY <1>1, FS_Union, PollsAssumption DEF Ids
<1>3. QED
  BY <1>2, PollsAssumption, PropIdsAssumption, UsersAssumption DEF Ids

LEMMA Numbers ==
    ASSUME TypeOK
    PROVE  /\ now \in Nat /\ now > 0 /\ pollNonce \in Nat /\ held \in Nat
           /\ \A n \in Names : params[n] \in Nat
           /\ \A id \in PropIds : /\ proposals[id] \in ParamProposal
                                  /\ proposals[id].deposit \in Nat /\ proposals[id].processBy \in Nat
                                  /\ proposals[id].appExpiry \in Nat /\ ChallengeOf(id) \in Ids
                                  /\ id.name \in Names /\ id.value \in Nat
           /\ \A c \in Ids : /\ challenges[c] \in Challenge
                             /\ challenges[c].stake \in Nat /\ challenges[c].rewardPool \in Nat
                             /\ challenges[c].winningTokens \in Nat
                             /\ challenges[c].tokenClaims \subseteq Voters
                             /\ challenges[c].resolved \in BOOLEAN
           /\ \A u \in Users : balanceOf[u] \in Nat
           /\ \A c \in Polls : poll[c].revealEnd \in Nat /\ poll[c].commitEnd \in Nat
  BY IdsArePolls, TimeAssumption, PropIdsAssumption DEF TypeOK, ParamProposal, Challenge, ChallengeOf

LEMMA TokensType ==
    ASSUME TypeOK, NEW p \in Polls, NEW vs \in SUBSET Voters
    PROVE  /\ TokensOf(p, vs) \in Nat /\ IsFiniteSet(vs)
           /\ \A v \in vs : TokensOn(p)[v] \in Nat
<1>1. \A v \in vs : TokensOn(p)[v] \in Nat
  BY UsersAssumption DEF TypeOK, TokensOn, Revealed
<1>2. IsFiniteSet(vs)
  BY UsersAssumption, FS_Subset
<1>3. QED
  BY <1>1, <1>2, SumNat DEF TokensOf

LEMMA WinningType ==
    ASSUME TypeOK, NEW p \in Polls
    PROVE  WinningTokens(p) \in Nat
<1>1. VotedFor(p) \in SUBSET Voters /\ Revealed(p) \ VotedFor(p) \in SUBSET Voters
  BY DEF VotedFor, Revealed
<1>2. VotesFor(p) \in Nat /\ VotesAgainst(p) \in Nat
  BY <1>1, TokensType DEF VotesFor, VotesAgainst
<1>3. QED
  BY <1>2 DEF WinningTokens

(* The voters' share of a stake is at most the stake. *)
LEMMA ShareType ==
    ASSUME NEW n \in Nat, NEW pct \in 0 .. 100
    PROVE  ((100 - pct) * n) \div 100 \in Nat /\ ((100 - pct) * n) \div 100 <= n
<1> DEFINE a == 100 - pct
<1>1. a \in 0 .. 100
  OBVIOUS
<1> HIDE DEF a
<1>2. a * n \in Nat /\ a * n <= 100 * n
  BY <1>1
<1>3. \A m \in Nat : m <= 100 * n => m \div 100 \in Nat /\ m \div 100 <= n
  OBVIOUS
<1>4. (a * n) \div 100 \in Nat /\ (a * n) \div 100 <= n
  BY <1>2, <1>3
<1>5. QED
  BY <1>4 DEF a

(* A share of a pool, and all of it to whoever is left alone. *)
LEMMA RewardType ==
    ASSUME NEW n \in Nat, NEW total \in Nat, NEW pool \in Nat, total > 0, n <= total
    PROVE  /\ (n * pool) \div total \in Nat /\ (n * pool) \div total <= pool
           /\ (n = total => (n * pool) \div total = pool)
<1>1. n * pool \in Nat /\ n * pool <= total * pool
  OBVIOUS
<1>2. \A m \in Nat, q \in Nat : q > 0 /\ m <= q * pool => m \div q \in Nat /\ m \div q <= pool
  OBVIOUS
<1>3. (total * pool) \div total = pool
  OBVIOUS
<1>4. QED
  BY <1>1, <1>2, <1>3

LEMMA OwedTypes ==
    ASSUME TypeOK
    PROVE  /\ \A id \in PropIds : Deposits[id] \in Nat
           /\ \A c \in Ids : Stakes[c] \in Nat /\ Pools[c] \in Nat
           /\ Pending \subseteq PropIds /\ Open \subseteq Ids /\ Resolved \subseteq Ids
           /\ IsFiniteSet(Pending) /\ IsFiniteSet(Open) /\ IsFiniteSet(Resolved)
           /\ SumOver(Deposits, Pending) \in Nat
           /\ SumOver(Stakes, Open) \in Nat
           /\ SumOver(Pools, Resolved) \in Nat
<1>1. /\ \A id \in PropIds : Deposits[id] \in Nat
      /\ \A c \in Ids : Stakes[c] \in Nat /\ Pools[c] \in Nat
  BY Numbers DEF Deposits, Stakes, Pools, Unclaimed
<1>2. Pending \subseteq PropIds /\ Open \subseteq Ids /\ Resolved \subseteq Ids
  BY IdsArePolls DEF Pending, Open, Started, Resolved
<1>3. IsFiniteSet(Pending) /\ IsFiniteSet(Open) /\ IsFiniteSet(Resolved)
  BY <1>2, IdsArePolls, FS_Subset
<1>4. QED
  BY <1>1, <1>2, <1>3, SumNat


LEMMA ParameterizerInit == Init => ParameterizerInv
<1> SUFFICES ASSUME Init PROVE ParameterizerInv
  OBVIOUS
<1> USE IdsArePolls
<1>1. TypeOK
  <2>1. challenges \in [Ids -> Challenge]
    BY DEF Init, NewChallenge, Challenge
  <2>2. proposals \in [PropIds -> ParamProposal]
    BY DEF Init, NoProposal, ParamProposal
  <2>3. QED
    BY <2>1, <2>2, TimeAssumption, ParamsAssumption, FundsAssumption
       DEF Init, TallyInit, NotStarted, TypeOK
<1>2. Pending = {} /\ Started = {} /\ Resolved = {} /\ Open = {}
  BY DEF Init, Pending, PropExists, NoProposal, Started, Resolved, NewChallenge, Open
<1>3. Records
  BY <1>2, ParamsAssumption DEF Records, Init, IdleErased, ContestedStarted, FutureBlank,
     ResolvedAfterPoll, NoEarlyClaims, PercentagesBounded, PoolsWithinStakes, NewChallenge
<1>4. Money
  BY <1>2, SumEmpty DEF Init, Money
<1>5. QED
  BY <1>1, <1>2, <1>3, <1>4 DEF ParameterizerInv, ProposalsSound, ChallengesApart, AllBacked

-------------------------------------------------------------------------------------
(* Tallies that do not change. *)

LEMMA BackedStays ==
    ASSUME NEW c, Backed(c), challenges'[c] = challenges[c], votes'[c] = votes[c],
           poll'[c] = poll[c]
    PROVE  Backed(c)'
<1>1. Revealed(c)' = Revealed(c)
  BY DEF Revealed
<1>2. TokensOn(c)' = TokensOn(c) /\ VotedFor(c)' = VotedFor(c)
  BY <1>1 DEF TokensOn, VotedFor
<1>3. VotesFor(c)' = VotesFor(c) /\ VotesAgainst(c)' = VotesAgainst(c)
  BY <1>1, <1>2 DEF VotesFor, VotesAgainst, TokensOf
<1>4. Passed(c)' <=> Passed(c)
  BY <1>3 DEF Passed
<1>5. Winners(c)' = Winners(c)
  BY <1>1, <1>4 DEF Winners
<1>6. Left(c)' = Left(c)
  BY <1>2, <1>5 DEF Left, TokensOf
<1>7. QED
  BY <1>6 DEF Backed, OnlyForAgainst

(* A poll that has ended keeps its votes and dates. *)
EndedKept == \A c \in Polls : Ended(c) => Ended(c)' /\ votes'[c] = votes[c] /\ poll'[c] = poll[c]

(* Steps of the environment: the contract's own storage stays. *)
LEMMA StorageKept ==
    ASSUME ParameterizerInv, TypeOK', EndedKept,
           UNCHANGED <<pollNonce, params, proposals, challenges, held>>
    PROVE  ParameterizerInv' /\ EnactedStep
<1>1. /\ Pending' = Pending /\ Started' = Started /\ Resolved' = Resolved /\ Open' = Open
      /\ Deposits' = Deposits /\ Stakes' = Stakes /\ Pools' = Pools
  BY DEF Pending, PropExists, Started, Resolved, Open, Deposits, Stakes, Pools, Unclaimed
<1>2. ChallengesApart'
  BY <1>1 DEF ParameterizerInv, ProposalsSound, ChallengesApart, ChallengeOf
<1>3. Records'
  BY <1>1 DEF ParameterizerInv, Records, IdleErased, ContestedStarted, FutureBlank, ChallengeOf,
     ResolvedAfterPoll, NoEarlyClaims, PercentagesBounded, PoolsWithinStakes, EndedKept, Resolved
<1>4. AllBacked'
  <2> SUFFICES ASSUME NEW c \in Resolved PROVE Backed(c)'
    BY <1>1 DEF AllBacked
  <2>1. c \in Polls /\ Ended(c) /\ Backed(c)
    BY DEF ParameterizerInv, Records, ResolvedAfterPoll, AllBacked, Resolved
  <2>2. QED
    BY <2>1, BackedStays DEF EndedKept
<1>5. Money'
  BY <1>1 DEF ParameterizerInv, Money
<1>6. QED
  BY <1>2, <1>3, <1>4, <1>5 DEF ParameterizerInv, ProposalsSound, EnactedStep


LEMMA VotingKeepsEnded ==
    ASSUME TypeOK,
           \/ UNCHANGED tallyVars
           \/ Pass
           \/ \E v \in Voters, p \in Polls, option \in Options : \E n \in Nat : Reveal(v, p, option, n)
    PROVE  EndedKept
<1> SUFFICES ASSUME NEW c \in Polls, Ended(c)
             PROVE  Ended(c)' /\ votes'[c] = votes[c] /\ poll'[c] = poll[c]
  BY DEF EndedKept
<1>1. /\ c \in 1 .. pollNonce /\ now > poll[c].revealEnd /\ poll[c].revealEnd \in Nat
      /\ now \in Nat /\ votes \in [Polls -> [Voters -> {NoVote} \cup (Options \X Nat)]]
  BY Numbers DEF Ended, Exists, TypeOK
<1>2. CASE UNCHANGED tallyVars
  BY <1>1, <1>2 DEF tallyVars, Ended, Exists
<1>3. CASE Pass
  BY <1>1, <1>3 DEF Pass, Ended, Exists
<1>4. ASSUME NEW v \in Voters, NEW p \in Polls, NEW option \in Options, NEW n \in Nat,
             Reveal(v, p, option, n)
      PROVE  Ended(c)' /\ votes'[c] = votes[c] /\ poll'[c] = poll[c]
  <2>1. p # c
    BY <1>1, <1>4 DEF Reveal, Revealing
  <2>2. QED
    BY <1>1, <1>4, <2>1 DEF Reveal, Ended, Exists
<1>5. QED
  BY <1>2, <1>3, <1>4

LEMMA StartKeepsEnded ==
    ASSUME TypeOK, NEW quorum, NEW commitEnd, NEW revealEnd, StartPoll(quorum, commitEnd, revealEnd)
    PROVE  EndedKept
<1> SUFFICES ASSUME NEW c \in Polls, Ended(c)
             PROVE  Ended(c)' /\ votes'[c] = votes[c] /\ poll'[c] = poll[c]
  BY DEF EndedKept
<1>1. /\ c \in 1 .. pollNonce /\ now > poll[c].revealEnd /\ pollNonce \in Nat
      /\ poll \in [Polls -> [quorum : Nat, commitEnd : Nat, revealEnd : Nat]]
  BY Numbers DEF Ended, Exists, TypeOK
<1>2. pollNonce + 1 # c /\ poll'[c] = poll[c] /\ c \in 1 .. pollNonce'
  BY <1>1 DEF StartPoll
<1>3. QED
  BY <1>1, <1>2 DEF StartPoll, Ended, Exists

(* Backed again, where neither votes nor what was claimed change. *)
LEMMA SameBacked ==
    ASSUME ParameterizerInv, EndedKept, NEW c \in Resolved, challenges'[c] = challenges[c]
    PROVE  Backed(c)' /\ Ended(c)' /\ c \in Started'
<1>1. c \in Polls /\ Ended(c) /\ Backed(c) /\ c \in Started
  BY DEF ParameterizerInv, Records, ResolvedAfterPoll, AllBacked, Resolved
<1>2. QED
  BY <1>1, BackedStays DEF EndedKept, Started

LEMMA PayType ==
    ASSUME TypeOK, NEW u, NEW n \in Nat, Pay(u, n)
    PROVE  held' = held - n /\ held' \in Nat /\ balanceOf' \in [Users -> Nat] /\ u \in Users
  BY Numbers DEF Pay, TypeOK

LEMMA TakeType ==
    ASSUME TypeOK, NEW u \in Users, NEW n \in Nat, Take(u, n)
    PROVE  held' = held + n /\ held' \in Nat /\ balanceOf' \in [Users -> Nat]
  BY Numbers DEF Take, TypeOK

-------------------------------------------------------------------------------------
(* Steps. *)

LEMMA ProposeKeeps ==
    ASSUME ParameterizerInv, NEW u \in Users, NEW id \in PropIds, ProposeReparameterization(u, id)
    PROVE  ParameterizerInv' /\ EnactedStep
<1> USE IdsArePolls
<1>t. TypeOK
  BY DEF ParameterizerInv, ProposalsSound
<1>1. PICK expiry \in Nat, date \in Nat, deposit \in Nat :
         /\ date > 0
         /\ proposals' = [proposals EXCEPT ![id] =
               [appExpiry |-> expiry, challengeID |-> 0, deposit |-> deposit,
                owner |-> u, processBy |-> date]]
         /\ Take(u, deposit)
  <2>1. /\ now + params["pApplyStageLen"] \in Nat /\ LastDate(params) \in Nat
        /\ LastDate(params) > 0 /\ params["pMinDeposit"] \in Nat
    BY <1>t, Numbers, TimeAssumption DEF Names, LastDate
  <2>2. QED
    BY <2>1 DEF ProposeReparameterization
<1>2. /\ UNCHANGED <<now, pollNonce, poll, votes, params, challenges>>
      /\ id \notin Pending
  BY DEF ProposeReparameterization, tallyVars, Pending
<1>3. held' = held + deposit /\ held' \in Nat /\ balanceOf' \in [Users -> Nat]
  BY <1>t, <1>1, TakeType
<1>4. TypeOK'
  <2>1. proposals' \in [PropIds -> ParamProposal]
    BY <1>t, <1>1 DEF TypeOK, ParamProposal
  <2>2. QED
    BY <1>t, <1>2, <1>3, <2>1 DEF TypeOK
<1>5. /\ \A i \in PropIds \ {id} : proposals'[i] = proposals[i]
      /\ proposals'[id].deposit = deposit /\ proposals'[id].challengeID = 0
      /\ proposals'[id].processBy > 0
  BY <1>t, <1>1 DEF TypeOK
<1>6. Pending' = Pending \cup {id}
  BY <1>5 DEF Pending, PropExists
<1>7. /\ Started' = Started /\ Resolved' = Resolved /\ Open' = Open
      /\ Stakes' = Stakes /\ Pools' = Pools
  BY <1>2 DEF Started, Resolved, Open, Stakes, Pools, Unclaimed
<1>8. ChallengesApart'
  BY <1>2, <1>5, <1>6
     DEF ParameterizerInv, ProposalsSound, ChallengesApart, ChallengeOf, Pending
<1>9. Records'
  <2>1. IdleErased' /\ ContestedStarted'
    BY <1>5, <1>6, <1>7 DEF ParameterizerInv, Records, IdleErased, ContestedStarted, ChallengeOf,
       Pending
  <2>2. /\ FutureBlank' /\ ResolvedAfterPoll' /\ NoEarlyClaims'
        /\ PercentagesBounded' /\ PoolsWithinStakes'
    BY <1>2, <1>7 DEF ParameterizerInv, Records, FutureBlank, ResolvedAfterPoll, NoEarlyClaims,
       PercentagesBounded, PoolsWithinStakes, Ended, Exists
  <2>3. QED
    BY <2>1, <2>2 DEF Records
<1>10. AllBacked'
  <2>1. EndedKept
    BY <1>t, <1>2, VotingKeepsEnded DEF tallyVars
  <2>2. QED
    BY <1>2, <1>7, <2>1, SameBacked DEF AllBacked
<1>11. Money'
  <2>1. SumOver(Deposits', Pending) = SumOver(Deposits, Pending)
    <3>1. \A i \in Pending : Deposits[i] = Deposits'[i]
      BY <1>2, <1>5 DEF Deposits, Pending
    <3>2. QED
      BY <1>t, <3>1, OwedTypes, SumSame
  <2>2. \A i \in Pending \cup {id} : Deposits'[i] \in Nat
    BY <1>t, <1>5, Numbers DEF Deposits, Pending
  <2>3. SumOver(Deposits', Pending \cup {id}) = SumOver(Deposits', Pending) + deposit
    <3>1. Deposits'[id] = deposit
      BY <1>5 DEF Deposits
    <3>2. QED
      BY <1>t, <1>2, <2>2, <3>1, OwedTypes, SumAdd
  <2>4. QED
    BY <1>t, <1>3, <1>6, <1>7, <2>1, <2>3, OwedTypes, Numbers DEF ParameterizerInv, Money
<1>12. QED
  BY <1>2, <1>4, <1>8, <1>9, <1>10, <1>11 DEF ParameterizerInv, ProposalsSound, EnactedStep


LEMMA ChallengeKeeps ==
    ASSUME ParameterizerInv, NEW u \in Users, NEW id \in PropIds,
           ChallengeReparameterization(u, id)
    PROVE  ParameterizerInv' /\ EnactedStep
<1> USE IdsArePolls
<1> DEFINE c == pollNonce + 1
<1>t. TypeOK
  BY DEF ParameterizerInv, ProposalsSound
<1>1. PICK stake \in Nat, pool \in Nat, quorum \in Nat, commitEnd \in Nat, revealEnd \in Nat :
         /\ stake = proposals[id].deposit /\ pool <= stake
         /\ challenges' = [challenges EXCEPT ![c] = NewChallenge(u, stake, pool)]
         /\ StartPoll(quorum, commitEnd, revealEnd)
         /\ Take(u, stake)
  <2>1. params["pDispensationPct"] \in 0 .. 100
    <3>1. params["pDispensationPct"] \in Nat
      BY <1>t, Numbers DEF Names
    <3>2. params["pDispensationPct"] <= 100
      BY DEF ParameterizerInv, Records, PercentagesBounded, Percentages
    <3>3. QED
      BY <3>1, <3>2
  <2>2. proposals[id].deposit \in Nat /\ params["pVoteQuorum"] \in Nat
        /\ now + params["pCommitStageLen"] \in Nat
        /\ now + params["pCommitStageLen"] + params["pRevealStageLen"] \in Nat
    BY <1>t, Numbers DEF Names
  <2>3. /\ ((100 - params["pDispensationPct"]) * proposals[id].deposit) \div 100 \in Nat
        /\ ((100 - params["pDispensationPct"]) * proposals[id].deposit) \div 100
              <= proposals[id].deposit
    BY <2>1, <2>2, ShareType
  <2>4. QED
    BY <2>2, <2>3 DEF ChallengeReparameterization, StakeOn
<1>2. /\ id \in Pending /\ ChallengeOf(id) = 0
      /\ proposals' = [proposals EXCEPT ![id].challengeID = c]
      /\ params' = params
  BY DEF ChallengeReparameterization, Pending
<1>3. /\ c \in Polls /\ c > pollNonce /\ pollNonce' = c /\ UNCHANGED <<now, votes>>
      /\ poll' = [poll EXCEPT ![c] = [quorum |-> quorum, commitEnd |-> commitEnd,
                                      revealEnd |-> revealEnd]]
  BY <1>t, <1>1, Numbers DEF StartPoll
<1>e. EndedKept
  BY <1>t, <1>1, StartKeepsEnded
<1>4. held' = held + stake /\ held' \in Nat /\ balanceOf' \in [Users -> Nat]
  BY <1>t, <1>1, TakeType
<1>5. challenges[c] = NewChallenge(Nobody, 0, 0)
  BY <1>3 DEF ParameterizerInv, Records, FutureBlank
<1>6. /\ \A d \in Ids \ {c} : challenges'[d] = challenges[d]
      /\ challenges'[c] = NewChallenge(u, stake, pool)
  BY <1>t, <1>1, <1>3 DEF TypeOK
<1>7. /\ \A i \in PropIds \ {id} : proposals'[i] = proposals[i]
      /\ proposals'[id].challengeID = c
      /\ proposals'[id].deposit = stake /\ proposals'[id].processBy = proposals[id].processBy
  BY <1>t, <1>1, <1>2 DEF TypeOK, ParamProposal
<1>8. TypeOK'
  <2>1. NewChallenge(u, stake, pool) \in Challenge
    BY <1>1 DEF NewChallenge, Challenge
  <2>2. challenges' \in [Ids -> Challenge]
    BY <1>t, <1>1, <2>1 DEF TypeOK
  <2>3. proposals' \in [PropIds -> ParamProposal]
    BY <1>t, <1>2, <1>3 DEF TypeOK, ParamProposal
  <2>4. poll' \in [Polls -> [quorum : Nat, commitEnd : Nat, revealEnd : Nat]]
    BY <1>t, <1>1, <1>3 DEF TypeOK
  <2>5. QED
    BY <1>t, <1>2, <1>3, <1>4, <2>2, <2>3, <2>4 DEF TypeOK
<1>9. Pending' = Pending
  BY <1>7 DEF Pending, PropExists
<1>10. /\ c \notin Started /\ Started' = Started \cup {c}
       /\ c \notin Resolved /\ Resolved' = Resolved /\ Open' = Open \cup {c} /\ c \notin Open
  <2>1. challenges[c].challenger = Nobody /\ ~challenges[c].resolved
        /\ challenges'[c].challenger = u /\ u # Nobody /\ ~challenges'[c].resolved
    BY <1>5, <1>6, UsersAssumption DEF NewChallenge
  <2> HIDE DEF c
  <2>2. Started' = Started \cup {c} /\ c \notin Started
    <3>1. \A d \in Polls : d # c => challenges'[d].challenger = challenges[d].challenger
      BY <1>6
    <3>2. c \in Polls
      BY <1>3
    <3>3. \A d \in Polls : challenges'[d].challenger # Nobody
                             <=> challenges[d].challenger # Nobody \/ d = c
      BY <2>1, <3>1
    <3>4. QED
      BY <2>1, <3>2, <3>3 DEF Started
  <2>3. Resolved' = Resolved /\ c \notin Resolved
    BY <1>3, <1>6, <2>1 DEF Resolved
  <2>4. QED
    BY <2>2, <2>3 DEF Open
<1>11. ChallengesApart'
  <2>1. ASSUME NEW i \in Pending, i # id
        PROVE  /\ ChallengeOf(i)' = ChallengeOf(i) /\ ChallengeOf(i) # c /\ ChallengeOf(i) \in Ids
               /\ proposals'[i] = proposals[i]
    <3>1. proposals'[i] = proposals[i] /\ ChallengeOf(i)' = ChallengeOf(i) /\ ChallengeOf(i) \in Ids
      BY <1>t, <1>7, <2>1, Numbers DEF Pending, ChallengeOf
    <3>2. ChallengeOf(i) # 0 => ChallengeOf(i) \in Started
      BY DEF ParameterizerInv, Records, ContestedStarted
    <3>3. QED
      BY <1>3, <1>10, <3>1, <3>2, <1>t, Numbers
  <2>2. ChallengeOf(id)' = c
    BY <1>7 DEF ChallengeOf
  <2>3. ASSUME NEW i \in Pending', ChallengeOf(i)' # 0
        PROVE  /\ ~challenges'[ChallengeOf(i)'].resolved
               /\ challenges'[ChallengeOf(i)'].stake = proposals'[i].deposit
    <3>1. CASE i = id
      BY <1>6, <1>7, <2>2, <3>1 DEF NewChallenge
    <3>2. CASE i # id
      <4>1. i \in Pending
        BY <1>9
      <4>2. /\ ~challenges[ChallengeOf(i)].resolved
            /\ challenges[ChallengeOf(i)].stake = proposals[i].deposit
        BY <2>1, <2>3, <3>2, <4>1 DEF ParameterizerInv, ProposalsSound, ChallengesApart
      <4>3. QED
        BY <1>6, <2>1, <3>2, <4>1, <4>2
    <3>3. QED
      BY <3>1, <3>2
  <2>4. ASSUME NEW i \in Pending', NEW j \in Pending', i # j, ChallengeOf(i)' # 0
        PROVE  ChallengeOf(i)' # ChallengeOf(j)'
    <3>1. CASE i = id \/ j = id
      BY <1>9, <2>1, <2>2, <2>4, <3>1
    <3>2. CASE i # id /\ j # id
      <4>1. i \in Pending /\ j \in Pending
        BY <1>9
      <4>2. ChallengeOf(i)' = ChallengeOf(i) /\ ChallengeOf(j)' = ChallengeOf(j)
        BY <2>1, <3>2, <4>1
      <4>3. QED
        BY <2>4, <4>1, <4>2 DEF ParameterizerInv, ProposalsSound, ChallengesApart
    <3>3. QED
      BY <3>1, <3>2
  <2>5. QED
    BY <2>3, <2>4 DEF ChallengesApart
<1>12. Records'
  <2>1. IdleErased'
    BY <1>2, <1>7, <1>9 DEF ParameterizerInv, Records, IdleErased
  <2>2. ContestedStarted'
    BY <1>7, <1>9, <1>10 DEF ParameterizerInv, Records, ContestedStarted, ChallengeOf, Pending
  <2>3. FutureBlank'
    <3>1. \A d \in Polls : d > c => d > pollNonce /\ d # c
      BY <1>t, Numbers
    <3>2. \A d \in Polls : d > c => challenges'[d] = NewChallenge(Nobody, 0, 0)
      BY <1>6, <3>1 DEF ParameterizerInv, Records, FutureBlank
    <3>3. QED
      BY <1>3, <3>2 DEF FutureBlank, NewChallenge
  <2>4. ResolvedAfterPoll'
    <3>1. \A d \in Resolved : d \in Polls /\ d \in Started /\ Ended(d)
      BY DEF ParameterizerInv, Records, ResolvedAfterPoll, Resolved
    <3>2. \A d \in Resolved : d \in Started' /\ Ended(d)'
      BY <1>e, <1>10, <3>1 DEF EndedKept
    <3>3. QED
      BY <1>10, <3>2 DEF ResolvedAfterPoll
  <2>5. PercentagesBounded'
    BY <1>2 DEF ParameterizerInv, Records, PercentagesBounded
  <2>6. PoolsWithinStakes'
    <3>1. challenges'[c].rewardPool <= challenges'[c].stake
      BY <1>1, <1>6 DEF NewChallenge
    <3>2. \A d \in Ids : d # c => challenges'[d] = challenges[d]
      BY <1>6
    <3> HIDE DEF c
    <3>3. QED
      BY <3>1, <3>2 DEF ParameterizerInv, Records, PoolsWithinStakes
  <2>7. NoEarlyClaims'
    <3>1. challenges'[c].tokenClaims = {}
      BY <1>6 DEF NewChallenge
    <3>2. \A d \in Polls : d # c => challenges'[d] = challenges[d]
      BY <1>6
    <3> HIDE DEF c
    <3>3. QED
      BY <3>1, <3>2 DEF ParameterizerInv, Records, NoEarlyClaims
  <2>8. QED
    BY <2>1, <2>2, <2>3, <2>4, <2>5, <2>6, <2>7 DEF Records
<1>13. AllBacked'
  <2> SUFFICES ASSUME NEW d \in Resolved PROVE Backed(d)'
    BY <1>10 DEF AllBacked
  <2>1. d \in Ids \ {c}
    BY <1>10 DEF Resolved
  <2>2. QED
    BY <1>e, <1>6, <2>1, SameBacked
<1>14. Money'
  <2>1. SumOver(Deposits', Pending) = SumOver(Deposits, Pending)
    <3>1. \A i \in Pending : Deposits[i] = Deposits'[i]
      BY <1>1, <1>7 DEF Deposits, Pending
    <3>2. QED
      BY <1>t, <3>1, OwedTypes, SumSame
  <2>2. SumOver(Pools', Resolved) = SumOver(Pools, Resolved)
    <3>1. \A d \in Resolved : Pools[d] = Pools'[d]
      BY <1>6, <1>10 DEF Pools, Unclaimed, Resolved
    <3>2. QED
      BY <1>t, <3>1, OwedTypes, SumSame
  <2>3. SumOver(Stakes', Open) = SumOver(Stakes, Open)
    <3>1. \A d \in Open : Stakes[d] = Stakes'[d]
      BY <1>6, <1>10 DEF Stakes, Open, Started
    <3>2. QED
      BY <1>t, <3>1, OwedTypes, SumSame
  <2>4. SumOver(Stakes', Open \cup {c}) = SumOver(Stakes', Open) + stake
    <3>1. Stakes'[c] = stake
      BY <1>3, <1>6 DEF Stakes, NewChallenge
    <3>2. \A d \in Open : Stakes'[d] \in Nat
      BY <1>t, <1>6, <1>10, Numbers DEF Stakes, Open, Started
    <3>3. QED
      BY <1>t, <1>10, <3>1, <3>2, OwedTypes, SumAdd
  <2>5. held = SumOver(Deposits, Pending) + SumOver(Stakes, Open) + SumOver(Pools, Resolved)
    BY DEF ParameterizerInv, Money
  <2>6. QED
    BY <1>t, <1>4, <1>9, <1>10, <2>1, <2>2, <2>3, <2>4, <2>5, OwedTypes, Numbers DEF Money
<1>15. QED
  BY <1>2, <1>8, <1>11, <1>12, <1>13, <1>14 DEF ParameterizerInv, ProposalsSound, EnactedStep


(* A proposal is erased: what depends on the others only. *)
Erased(id) == proposals' = [proposals EXCEPT ![id] = NoProposal]

LEMMA ErasedLeaves ==
    ASSUME TypeOK, NEW id \in PropIds, id \in Pending, Erased(id)
    PROVE  /\ proposals' \in [PropIds -> ParamProposal]
           /\ proposals'[id] = NoProposal
           /\ \A i \in PropIds \ {id} : proposals'[i] = proposals[i]
           /\ Pending' = Pending \ {id}
           /\ SumOver(Deposits, Pending) = proposals[id].deposit + SumOver(Deposits', Pending')
           /\ SumOver(Deposits', Pending') \in Nat
<1> USE IdsArePolls
<1>1. NoProposal \in ParamProposal
  BY DEF NoProposal, ParamProposal
<1>2. proposals' \in [PropIds -> ParamProposal]
  BY <1>1 DEF TypeOK, Erased
<1>3. proposals'[id] = NoProposal /\ \A i \in PropIds \ {id} : proposals'[i] = proposals[i]
  BY DEF TypeOK, Erased
<1>4. Pending' = Pending \ {id}
  BY <1>3 DEF Pending, PropExists, NoProposal
<1>5. IsFiniteSet(Pending \ {id}) /\ IsFiniteSet(Pending) /\ \A i \in Pending : Deposits[i] \in Nat
  BY OwedTypes, FS_RemoveElement
<1>6. SumOver(Deposits, Pending) = Deposits[id] + SumOver(Deposits, Pending \ {id})
  BY <1>5, SumRemove
<1>7. SumOver(Deposits, Pending \ {id}) = SumOver(Deposits', Pending \ {id})
  <2>1. \A i \in Pending \ {id} : Deposits[i] = Deposits'[i]
    BY <1>3 DEF Deposits, Pending
  <2>2. QED
    BY <1>5, <2>1, SumSame
<1>8. SumOver(Deposits, Pending \ {id}) \in Nat
  BY <1>5, SumNat
<1>9. Deposits[id] = proposals[id].deposit
  BY DEF Deposits
<1>10. QED
  BY <1>2, <1>3, <1>4, <1>6, <1>7, <1>8, <1>9

(* The deposit goes back: the proposal was accepted without a challenge, or it *)
(* expired, with or without one.                                               *)
LEMMA RefundKeeps ==
    ASSUME ParameterizerInv, NEW id \in PropIds, id \in Pending, Erased(id),
           Pay(proposals[id].owner, proposals[id].deposit),
           UNCHANGED <<tallyVars, challenges>>, params' \in [Names -> Nat], PercentagesBounded'
    PROVE  ParameterizerInv'
<1> USE IdsArePolls
<1>t. TypeOK
  BY DEF ParameterizerInv, ProposalsSound
<1>1. /\ held' = held - proposals[id].deposit /\ held' \in Nat
      /\ balanceOf' \in [Users -> Nat] /\ proposals[id].deposit \in Nat
  BY <1>t, PayType, Numbers
<1>2. TypeOK'
  BY <1>t, <1>1, ErasedLeaves DEF TypeOK, tallyVars
<1>3. /\ Pending' = Pending \ {id}
      /\ \A i \in Pending' : i \in Pending /\ proposals'[i] = proposals[i]
      /\ \A i \in PropIds \ Pending' : i = id \/ i \in PropIds \ Pending
      /\ proposals'[id] = NoProposal
      /\ \A i \in PropIds \ {id} : proposals'[i] = proposals[i]
  BY <1>t, ErasedLeaves DEF Pending
<1>4. /\ Started' = Started /\ Resolved' = Resolved /\ Open' = Open
      /\ Stakes' = Stakes /\ Pools' = Pools
  BY DEF Started, Resolved, Open, Stakes, Pools, Unclaimed
<1>5. ChallengesApart'
  BY <1>3 DEF ParameterizerInv, ProposalsSound, ChallengesApart, ChallengeOf
<1>6. Records'
  <2>1. IdleErased' /\ ContestedStarted'
    BY <1>3, <1>4 DEF ParameterizerInv, Records, IdleErased, ContestedStarted, ChallengeOf
  <2>2. FutureBlank' /\ ResolvedAfterPoll' /\ NoEarlyClaims' /\ PoolsWithinStakes'
    BY <1>4 DEF ParameterizerInv, Records, FutureBlank, ResolvedAfterPoll, NoEarlyClaims,
       PoolsWithinStakes, Ended, Exists, tallyVars
  <2>3. QED
    BY <2>1, <2>2 DEF Records
<1>7. AllBacked'
  <2>1. EndedKept
    BY <1>t, VotingKeepsEnded
  <2>2. QED
    BY <1>4, <2>1, SameBacked DEF AllBacked
<1>8. Money'
  <2>1. held = SumOver(Deposits, Pending) + SumOver(Stakes, Open) + SumOver(Pools, Resolved)
    BY DEF ParameterizerInv, Money
  <2>2. /\ SumOver(Deposits, Pending) = proposals[id].deposit + SumOver(Deposits', Pending')
        /\ SumOver(Deposits', Pending') \in Nat
    BY <1>t, ErasedLeaves
  <2>3. QED
    BY <1>t, <1>1, <1>4, <2>1, <2>2, OwedTypes, Numbers DEF Money
<1>9. QED
  BY <1>2, <1>5, <1>6, <1>7, <1>8 DEF ParameterizerInv, ProposalsSound

(* The winning tokens cover the winners, and are theirs alone if there is no   *)
(* third option.                                                               *)
LEMMA WinningCovers ==
    ASSUME TypeOK, NEW c \in Polls
    PROVE  /\ WinningTokens(c) >= TokensOf(c, Winners(c))
           /\ (OnlyForAgainst => WinningTokens(c) = TokensOf(c, Winners(c)))
<1> DEFINE side == IF Passed(c) THEN VotedFor(c) ELSE Revealed(c) \ VotedFor(c)
<1>1. WinningTokens(c) = TokensOf(c, side)
  BY DEF WinningTokens, VotesFor, VotesAgainst
<1>2. Winners(c) \subseteq side /\ side \subseteq Voters
  BY DEF Winners, VotedFor, Revealed
<1>3. OnlyForAgainst => Winners(c) = side
  <2>1. \A v \in Revealed(c) : votes[c][v] \in Options \X Nat
    BY DEF TypeOK, Revealed
  <2>2. OnlyForAgainst => \A v \in Revealed(c) : votes[c][v][1] = 1 \/ votes[c][v][1] = 0
    BY <2>1 DEF OnlyForAgainst
  <2>3. QED
    BY <2>2 DEF Winners, VotedFor
<1> HIDE DEF side
<1>4. TokensOf(c, Winners(c)) <= TokensOf(c, side)
  BY <1>2, TokensType, SumGrows DEF TokensOf
<1>5. TokensOf(c, Winners(c)) \in Nat /\ TokensOf(c, side) \in Nat
  BY <1>2, TokensType
<1>6. QED
  BY <1>1, <1>3, <1>4, <1>5


LEMMA ResolveKeeps ==
    ASSUME ParameterizerInv, NEW id \in PropIds, id \in Pending, Erased(id),
           ChallengeCanBeResolved(id), ResolveChallenge(id),
           UNCHANGED tallyVars, params' \in [Names -> Nat], PercentagesBounded'
    PROVE  ParameterizerInv'
<1> USE IdsArePolls
<1>t. TypeOK
  BY DEF ParameterizerInv, ProposalsSound
<1>1. PICK c \in Polls : c = ChallengeOf(id) /\ c \in Started /\ c \notin Resolved /\ Ended(c)
  <2>1. ChallengeOf(id) > 0 /\ ChallengeOf(id) # 0
    BY <1>t, Numbers DEF ChallengeCanBeResolved
  <2>2. ChallengeOf(id) \in Started
    BY <2>1 DEF ParameterizerInv, Records, ContestedStarted
  <2>3. QED
    BY <2>2 DEF ChallengeCanBeResolved, Started, Resolved
<1>2. PICK stake \in Nat, pool \in Nat, won \in Nat :
         /\ stake = challenges[c].stake /\ stake = proposals[id].deposit
         /\ pool = challenges[c].rewardPool /\ pool <= stake /\ won = WinningTokens(c)
  BY <1>t, <1>1, Numbers, WinningType
     DEF ParameterizerInv, ProposalsSound, ChallengesApart, Records, PoolsWithinStakes
<1>3. PICK paid \in Nat, kept \in Nat :
         /\ paid = ChallengeWinnerReward(c) /\ kept = (IF won > 0 THEN pool ELSE 0)
         /\ paid + kept = stake + stake
  <2>1. ChallengeWinnerReward(c) = IF won = 0 THEN 2 * stake ELSE 2 * stake - pool
    BY <1>2 DEF ChallengeWinnerReward
  <2>2. QED
    BY <1>2, <2>1
<1>4. /\ challenges' = [challenges EXCEPT ![c].winningTokens = won, ![c].resolved = TRUE]
      /\ held' = held - paid /\ held' \in Nat /\ balanceOf' \in [Users -> Nat]
  <2>1. \E u : Pay(u, paid)
    BY <1>1, <1>3 DEF ResolveChallenge
  <2>2. QED
    BY <1>t, <1>1, <1>2, <2>1, PayType DEF ResolveChallenge
<1>5. /\ \A d \in Ids \ {c} : challenges'[d] = challenges[d]
      /\ challenges'[c] \in Challenge
      /\ challenges'[c].winningTokens = won /\ challenges'[c].resolved = TRUE
      /\ challenges'[c].stake = stake /\ challenges'[c].rewardPool = pool
      /\ challenges'[c].challenger = challenges[c].challenger
      /\ challenges'[c].tokenClaims = {}
  <2>1. challenges[c] \in Challenge /\ challenges[c].tokenClaims = {}
    BY <1>t, <1>1, Numbers DEF ParameterizerInv, Records, NoEarlyClaims, Resolved
  <2>2. /\ \A d \in Ids \ {c} : challenges'[d] = challenges[d]
        /\ challenges'[c] = [challenges[c] EXCEPT !.winningTokens = won, !.resolved = TRUE]
    BY <1>t, <1>4 DEF TypeOK, Challenge
  <2>3. QED
    BY <1>2, <2>1, <2>2 DEF Challenge
<1>6. TypeOK'
  <2>1. challenges' \in [Ids -> Challenge]
    BY <1>t, <1>4, <1>5 DEF TypeOK
  <2>2. QED
    BY <1>t, <1>4, <2>1, ErasedLeaves DEF TypeOK, tallyVars
<1>7. /\ Pending' = Pending \ {id}
      /\ \A i \in Pending' : i \in Pending /\ proposals'[i] = proposals[i]
      /\ \A i \in PropIds \ Pending' : i = id \/ i \in PropIds \ Pending
      /\ proposals'[id] = NoProposal
      /\ \A i \in PropIds \ {id} : proposals'[i] = proposals[i]
  BY <1>t, ErasedLeaves DEF Pending
<1>8. Started' = Started /\ Resolved' = Resolved \cup {c} /\ Open' = Open \ {c} /\ c \in Open
  <2>1. Started' = Started
    BY <1>5 DEF Started
  <2>2. Resolved' = Resolved \cup {c}
    BY <1>5 DEF Resolved
  <2>3. QED
    BY <1>1, <2>1, <2>2 DEF Open
<1>9. ChallengesApart'
  <2>1. ASSUME NEW i \in Pending', ChallengeOf(i)' # 0
        PROVE  /\ i \in Pending /\ ChallengeOf(i)' = ChallengeOf(i)
               /\ ~challenges'[ChallengeOf(i)'].resolved
               /\ challenges'[ChallengeOf(i)'].stake = proposals'[i].deposit
    <3>1. i \in Pending /\ ChallengeOf(i)' = ChallengeOf(i) /\ i # id /\ ChallengeOf(i) \in Ids
      BY <1>t, <1>7, Numbers DEF ChallengeOf, Pending
    <3>2. /\ ~challenges[ChallengeOf(i)].resolved /\ ChallengeOf(i) # c
          /\ challenges[ChallengeOf(i)].stake = proposals[i].deposit
      BY <1>1, <2>1, <3>1 DEF ParameterizerInv, ProposalsSound, ChallengesApart
    <3>3. QED
      BY <1>5, <1>7, <3>1, <3>2
  <2>2. ASSUME NEW i \in Pending', NEW j \in Pending', i # j, ChallengeOf(i)' # 0
        PROVE  ChallengeOf(i)' # ChallengeOf(j)'
    BY <1>7, <2>2 DEF ParameterizerInv, ProposalsSound, ChallengesApart, ChallengeOf
  <2>3. QED
    BY <2>1, <2>2 DEF ChallengesApart
<1>10. Records'
  <2>1. IdleErased' /\ ContestedStarted'
    BY <1>7, <1>8 DEF ParameterizerInv, Records, IdleErased, ContestedStarted, ChallengeOf
  <2>2. FutureBlank'
    <3>1. ~(c > pollNonce)
      BY <1>t, <1>1, Numbers DEF Ended, Exists
    <3>2. \A d \in Polls : d > pollNonce => challenges'[d] = challenges[d]
      BY <1>5, <3>1
    <3>3. QED
      BY <3>2 DEF ParameterizerInv, Records, FutureBlank, tallyVars, NewChallenge
  <2>3. ResolvedAfterPoll'
    BY <1>1, <1>8 DEF ParameterizerInv, Records, ResolvedAfterPoll, Ended, Exists, tallyVars
  <2>4. NoEarlyClaims'
    BY <1>5 DEF ParameterizerInv, Records, NoEarlyClaims
  <2>5. PoolsWithinStakes'
    BY <1>2, <1>5 DEF ParameterizerInv, Records, PoolsWithinStakes
  <2>6. QED
    BY <2>1, <2>2, <2>3, <2>4, <2>5 DEF Records
<1>11. AllBacked'
  <2>1. EndedKept
    BY <1>t, VotingKeepsEnded
  <2>2. ASSUME NEW d \in Resolved PROVE Backed(d)'
    BY <1>1, <1>5, <2>1, <2>2, SameBacked DEF Resolved
  <2>3. Backed(c)'
    <3>1. Left(c)' = TokensOf(c, Winners(c))
      BY <1>5 DEF Left, TokensOf, TokensOn, Winners, Passed, VotesFor, VotesAgainst, VotedFor,
         Revealed, tallyVars
    <3>2. QED
      BY <1>t, <1>2, <1>5, <3>1, WinningCovers DEF Backed, OnlyForAgainst
  <2>4. QED
    BY <1>8, <2>2, <2>3 DEF AllBacked
<1>12. Money'
  <2>1. held = SumOver(Deposits, Pending) + SumOver(Stakes, Open) + SumOver(Pools, Resolved)
    BY DEF ParameterizerInv, Money
  <2>2. /\ SumOver(Deposits, Pending) = stake + SumOver(Deposits', Pending')
        /\ SumOver(Deposits', Pending') \in Nat
    BY <1>t, <1>2, ErasedLeaves
  <2>3. /\ SumOver(Stakes, Open) = stake + SumOver(Stakes', Open')
        /\ SumOver(Stakes', Open') \in Nat
    <3>1. IsFiniteSet(Open \ {c}) /\ IsFiniteSet(Open) /\ \A d \in Open : Stakes[d] \in Nat
      BY <1>t, OwedTypes, FS_RemoveElement
    <3>2. SumOver(Stakes, Open) = Stakes[c] + SumOver(Stakes, Open \ {c})
      <4>1. c \in Open
        BY <1>8
      <4>2. QED
        BY <3>1, <4>1, SumRemove, ZenonT(60)
    <3>3. SumOver(Stakes, Open \ {c}) = SumOver(Stakes', Open \ {c})
      <4>1. \A d \in Open \ {c} : Stakes[d] = Stakes'[d]
        BY <1>5 DEF Stakes, Open, Started
      <4>2. QED
        BY <3>1, <4>1, SumSame
    <3>4. SumOver(Stakes, Open \ {c}) \in Nat
      BY <3>1, SumNat
    <3>5. Stakes[c] = stake
      BY <1>2 DEF Stakes
    <3>6. QED
      BY <1>8, <3>2, <3>3, <3>4, <3>5
  <2>4. /\ SumOver(Pools', Resolved') = SumOver(Pools, Resolved) + kept
        /\ SumOver(Pools, Resolved) \in Nat
    <3>1. IsFiniteSet(Resolved) /\ SumOver(Pools, Resolved) \in Nat
      BY <1>t, OwedTypes
    <3>2. \A d \in Resolved : Pools[d] = Pools'[d] /\ Pools'[d] \in Nat
      BY <1>1, <1>5, <1>t, OwedTypes DEF Pools, Unclaimed, Resolved
    <3>3. SumOver(Pools, Resolved) = SumOver(Pools', Resolved)
      BY <3>1, <3>2, SumSame
    <3>4. Pools'[c] = kept
      BY <1>3, <1>5 DEF Pools, Unclaimed
    <3>5. SumOver(Pools', Resolved \cup {c}) = SumOver(Pools', Resolved) + kept
      BY <1>1, <3>1, <3>2, <3>4, SumAdd
    <3>6. QED
      BY <1>8, <3>1, <3>3, <3>5
  <2>5. QED
    BY <1>t, <1>3, <1>4, <2>1, <2>2, <2>3, <2>4, Numbers DEF Money
<1>13. QED
  BY <1>6, <1>9, <1>10, <1>11, <1>12 DEF ParameterizerInv, ProposalsSound


LEMMA ProcessKeeps ==
    ASSUME ParameterizerInv, NEW id \in PropIds, ProcessProposal(id)
    PROVE  ParameterizerInv' /\ EnactedStep
<1> USE IdsArePolls
<1>t. TypeOK
  BY DEF ParameterizerInv, ProposalsSound
<1>1. id \in Pending
  <2> SUFFICES ASSUME id \notin Pending PROVE FALSE
    OBVIOUS
  <2>1. proposals[id] = NoProposal
    BY DEF ParameterizerInv, Records, IdleErased
  <2>2. ~CanBeSet(id) /\ ~ChallengeCanBeResolved(id)
    BY <1>t, <2>1, Numbers DEF CanBeSet, ChallengeCanBeResolved, NoProposal, ChallengeOf
  <2>3. Pay(Nobody, 0)
    BY <2>1, <2>2 DEF ProcessProposal, NoProposal
  <2>4. QED
    BY <2>3, UsersAssumption DEF Pay
<1>2. Erased(id) /\ UNCHANGED tallyVars
  BY DEF ProcessProposal, Erased
<1>3. PercentagesBounded'
  BY DEF ProcessProposal, PercentagesBounded
<1>4. SetParam(id) \/ UNCHANGED params
  BY DEF ProcessProposal, ResolveChallenge
<1>5. params' \in [Names -> Nat] /\ \A n \in Names : params'[n] # params[n] =>
                                        SetParam(id) /\ id.name = n /\ id.value = params'[n]
  BY <1>t, <1>4, Numbers DEF SetParam, TypeOK
<1>6. CASE CanBeSet(id)
  <2>1. Pay(proposals[id].owner, proposals[id].deposit) /\ UNCHANGED challenges
    BY <1>6 DEF ProcessProposal
  <2>2. ParameterizerInv'
    BY <1>1, <1>2, <1>3, <1>5, <2>1, RefundKeeps
  <2>3. EnactedStep
    BY <1>1, <1>5, <1>6 DEF EnactedStep, CanBeSet
  <2>4. QED
    BY <2>2, <2>3
<1>7. CASE ~CanBeSet(id) /\ ChallengeCanBeResolved(id)
  <2>1. ResolveChallenge(id)
    BY <1>7 DEF ProcessProposal
  <2>2. ParameterizerInv'
    BY <1>1, <1>2, <1>3, <1>5, <1>7, <2>1, ResolveKeeps
  <2>3. EnactedStep
    <3> SUFFICES ASSUME NEW n \in Names, params'[n] # params[n]
                 PROVE  /\ id.name = n /\ id.value = params'[n]
                        /\ now < proposals[id].processBy /\ ChallengeOf(id) # 0
                        /\ Ended(ChallengeOf(id)) /\ Passed(ChallengeOf(id))
      BY <1>1 DEF EnactedStep
    <3>1. Passed(ChallengeOf(id)) /\ proposals[id].processBy > now
      BY <2>1 DEF ResolveChallenge
    <3>2. ChallengeOf(id) # 0 /\ Ended(ChallengeOf(id))
      BY <1>t, <1>7, Numbers DEF ChallengeCanBeResolved
    <3>3. QED
      BY <1>t, <1>5, <3>1, <3>2, Numbers
  <2>4. QED
    BY <2>2, <2>3
<1>8. CASE ~CanBeSet(id) /\ ~ChallengeCanBeResolved(id)
  <2>1. Pay(proposals[id].owner, proposals[id].deposit) /\ UNCHANGED <<challenges, params>>
    BY <1>8 DEF ProcessProposal
  <2>2. ParameterizerInv'
    BY <1>1, <1>2, <1>3, <1>5, <2>1, RefundKeeps
  <2>3. QED
    BY <2>1, <2>2 DEF EnactedStep
<1>9. QED
  BY <1>6, <1>7, <1>8

LEMMA ClaimKeeps ==
    ASSUME ParameterizerInv, NEW v \in Voters, NEW c \in Polls, ClaimReward(v, c)
    PROVE  ParameterizerInv' /\ EnactedStep
<1> USE IdsArePolls
<1>t. TypeOK
  BY DEF ParameterizerInv, ProposalsSound
<1>1. c \in Resolved /\ c \in Started /\ Ended(c) /\ v \in Winners(c) \ challenges[c].tokenClaims
  BY DEF ClaimReward, MayClaim, Resolved, ParameterizerInv, Records, ResolvedAfterPoll
<1>2. PICK tokens \in Nat : tokens = votes[c][v][2]
  <2>1. votes[c][v] \in Options \X Nat
    BY <1>t, <1>1 DEF TypeOK, Winners, Revealed
  <2>2. QED
    BY <2>1
<1>3. PICK pool \in Nat, total \in Nat, rest \in Nat :
         /\ pool = challenges[c].rewardPool /\ total = challenges[c].winningTokens
         /\ rest = TokensOf(c, (Winners(c) \ challenges[c].tokenClaims) \ {v})
  <2>1. (Winners(c) \ challenges[c].tokenClaims) \ {v} \in SUBSET Voters
    BY DEF Winners, Revealed
  <2>2. QED
    BY <1>t, <2>1, Numbers, TokensType
<1>l. Left(c) = tokens + rest
  <2>1. Winners(c) \ challenges[c].tokenClaims \in SUBSET Voters
    BY DEF Winners, Revealed
  <2>2. TokensOn(c)[v] = tokens
    BY <1>1, <1>2 DEF TokensOn, Winners
  <2>3. QED
    BY <1>t, <1>1, <1>3, <2>1, <2>2, TokensType, SumRemove DEF Left, TokensOf
<1>4. /\ total > 0 /\ total >= tokens + rest
  <2>1. Backed(c)
    BY <1>1 DEF ParameterizerInv, AllBacked
  <2>2. QED
    BY <1>t, <1>3, <1>l, <2>1 DEF Backed, ClaimReward
<1>o. OnlyForAgainst => total = tokens + rest
  BY <1>1, <1>3, <1>l DEF ParameterizerInv, AllBacked, Backed
<1>5. PICK reward \in Nat : /\ reward = VoterReward(v, c) /\ reward <= pool
                            /\ (tokens = total => reward = pool)
  <2>1. total > 0 /\ tokens <= total
    BY <1>4
  <2>2. VoterReward(v, c) = (tokens * pool) \div total
    BY <1>2, <1>3 DEF VoterReward
  <2>3. QED
    BY <2>1, <2>2, RewardType
<1>6. PICK left \in Nat, share \in Nat : left = total - tokens /\ share = pool - reward
  <2>1. total - tokens \in Nat /\ pool - reward \in Nat
    BY <1>4, <1>5
  <2>2. QED
    BY <2>1
<1>7. /\ challenges' = [challenges EXCEPT ![c].winningTokens = left,
                                          ![c].rewardPool = share,
                                          ![c].tokenClaims = @ \cup {v}]
      /\ held' = held - reward /\ held' \in Nat /\ balanceOf' \in [Users -> Nat]
      /\ UNCHANGED <<tallyVars, params, proposals>>
  <2>1. Pay(v, reward)
    BY <1>5 DEF ClaimReward
  <2>2. TokensLeft(v, c) = left /\ challenges[c].rewardPool - VoterReward(v, c) = share
    BY <1>2, <1>3, <1>5, <1>6 DEF TokensLeft
  <2>3. QED
    BY <1>t, <2>1, <2>2, PayType DEF ClaimReward
<1>8. /\ \A d \in Ids \ {c} : challenges'[d] = challenges[d]
      /\ challenges'[c] \in Challenge
      /\ challenges'[c].winningTokens = left /\ challenges'[c].rewardPool = share
      /\ challenges'[c].resolved = challenges[c].resolved
      /\ challenges'[c].stake = challenges[c].stake
      /\ challenges'[c].challenger = challenges[c].challenger
      /\ challenges'[c].tokenClaims = challenges[c].tokenClaims \cup {v}
  <2>1. /\ \A d \in Ids \ {c} : challenges'[d] = challenges[d]
        /\ challenges'[c] = [challenges[c] EXCEPT !.winningTokens = left, !.rewardPool = share,
                                                  !.tokenClaims = @ \cup {v}]
    BY <1>t, <1>7 DEF TypeOK, Challenge
  <2>2. challenges[c] \in Challenge
    BY <1>t, Numbers
  <2>3. QED
    BY <2>1, <2>2 DEF Challenge
<1>9. TypeOK'
  <2>1. challenges' \in [Ids -> Challenge]
    BY <1>t, <1>7, <1>8 DEF TypeOK
  <2>2. QED
    BY <1>t, <1>7, <2>1 DEF TypeOK, tallyVars
<1>10. /\ Pending' = Pending /\ Deposits' = Deposits /\ Started' = Started
       /\ Resolved' = Resolved /\ Open' = Open /\ Stakes' = Stakes
  <2>1. Pending' = Pending /\ Deposits' = Deposits
    BY <1>7 DEF Pending, PropExists, Deposits
  <2>2. \A d \in Ids : /\ challenges'[d].challenger = challenges[d].challenger
                       /\ challenges'[d].resolved = challenges[d].resolved
                       /\ challenges'[d].stake = challenges[d].stake
    BY <1>8
  <2>3. QED
    BY <2>1, <2>2 DEF Started, Resolved, Open, Stakes
<1>11. ChallengesApart'
  <2>1. \A i \in Pending : ChallengeOf(i) \in Ids /\ ChallengeOf(i)' = ChallengeOf(i)
    BY <1>t, <1>7, Numbers DEF Pending, ChallengeOf
  <2>2. \A d \in Ids : /\ challenges'[d].resolved = challenges[d].resolved
                       /\ challenges'[d].stake = challenges[d].stake
    BY <1>8
  <2>3. ASSUME NEW i \in Pending', ChallengeOf(i)' # 0
        PROVE  /\ ~challenges'[ChallengeOf(i)'].resolved
               /\ challenges'[ChallengeOf(i)'].stake = proposals'[i].deposit
    BY <1>7, <1>10, <2>1, <2>2, <2>3 DEF ParameterizerInv, ProposalsSound, ChallengesApart
  <2>4. ASSUME NEW i \in Pending', NEW j \in Pending', i # j, ChallengeOf(i)' # 0
        PROVE  ChallengeOf(i)' # ChallengeOf(j)'
    BY <1>10, <2>1, <2>4 DEF ParameterizerInv, ProposalsSound, ChallengesApart
  <2>5. QED
    BY <2>3, <2>4 DEF ChallengesApart
<1>12. Records'
  <2>1. IdleErased' /\ ContestedStarted' /\ PercentagesBounded'
    BY <1>7, <1>10
       DEF ParameterizerInv, Records, IdleErased, ContestedStarted, PercentagesBounded, ChallengeOf
  <2>2. FutureBlank'
    <3>1. ~(c > pollNonce)
      BY <1>t, <1>1, Numbers DEF Ended, Exists
    <3>2. \A d \in Polls : d > pollNonce => challenges'[d] = challenges[d]
      BY <1>8, <3>1
    <3>3. QED
      BY <1>7, <3>2 DEF ParameterizerInv, Records, FutureBlank, tallyVars, NewChallenge
  <2>3. ResolvedAfterPoll'
    BY <1>7, <1>10 DEF ParameterizerInv, Records, ResolvedAfterPoll, Ended, Exists, tallyVars
  <2>4. NoEarlyClaims'
    BY <1>1, <1>8 DEF ParameterizerInv, Records, NoEarlyClaims, Resolved
  <2>5. PoolsWithinStakes'
    <3>1. share <= challenges[c].stake
      <4>1. pool <= challenges[c].stake /\ challenges[c].stake \in Nat
        BY <1>t, <1>3, Numbers DEF ParameterizerInv, Records, PoolsWithinStakes
      <4>2. QED
        BY <1>5, <1>6, <4>1
    <3>2. QED
      BY <1>8, <3>1 DEF ParameterizerInv, Records, PoolsWithinStakes
  <2>6. QED
    BY <2>1, <2>2, <2>3, <2>4, <2>5 DEF Records
<1>13. AllBacked'
  <2>1. EndedKept
    BY <1>t, <1>7, VotingKeepsEnded
  <2>2. ASSUME NEW d \in Resolved, d # c PROVE Backed(d)'
    BY <1>8, <2>1, <2>2, SameBacked DEF Resolved
  <2>3. Backed(c)'
    <3>1. Left(c)' = TokensOf(c, Winners(c) \ (challenges[c].tokenClaims \cup {v}))
      BY <1>7, <1>8 DEF Left, TokensOf, TokensOn, Winners, Passed, VotesFor, VotesAgainst,
         VotedFor, Revealed, tallyVars
    <3>2. Winners(c) \ (challenges[c].tokenClaims \cup {v})
             = (Winners(c) \ challenges[c].tokenClaims) \ {v}
      OBVIOUS
    <3>3. Left(c)' = rest
      BY <1>3, <3>1, <3>2
    <3>4. QED
      BY <1>4, <1>o, <1>6, <1>8, <3>3 DEF Backed, OnlyForAgainst
  <2>4. QED
    BY <1>10, <2>2, <2>3 DEF AllBacked
<1>14. Money'
  <2>1. held = SumOver(Deposits, Pending) + SumOver(Stakes, Open) + SumOver(Pools, Resolved)
    BY DEF ParameterizerInv, Money
  <2>2. SumOver(Pools', Resolved) = SumOver(Pools, Resolved) - reward
    <3>1. Pools[c] = pool
      BY <1>3, <1>4 DEF Pools, Unclaimed
    <3>2. Pools'[c] = share
      <4>1. Pools'[c] = IF left > 0 THEN share ELSE 0
        BY <1>8 DEF Pools, Unclaimed
      <4>2. left > 0 \/ share = 0
        BY <1>5, <1>6
      <4>3. QED
        BY <4>1, <4>2
    <3>3. \A d \in Resolved : Pools[d] \in Nat /\ Pools'[d] \in Nat
      <4>1. \A d \in Resolved \ {c} : Pools'[d] = Pools[d]
        BY <1>8 DEF Pools, Unclaimed, Resolved
      <4>2. QED
        BY <1>t, <3>2, <4>1, OwedTypes
    <3>4. \A d \in Resolved \ {c} : Pools'[d] = Pools[d]
      BY <1>8 DEF Pools, Unclaimed, Resolved
    <3>5. SumOver(Pools', Resolved) = SumOver(Pools, Resolved) - pool + share
      BY <1>t, <1>1, <3>1, <3>2, <3>3, <3>4, OwedTypes, SumChange
    <3>6. SumOver(Pools, Resolved) \in Nat
      BY <1>t, OwedTypes
    <3>7. QED
      BY <1>5, <1>6, <3>5, <3>6
  <2>3. QED
    BY <1>t, <1>7, <1>10, <2>1, <2>2, OwedTypes, Numbers DEF Money
<1>15. QED
  BY <1>7, <1>9, <1>11, <1>12, <1>13, <1>14 DEF ParameterizerInv, ProposalsSound, EnactedStep


LEMMA ParameterizerNext == ParameterizerInv /\ [Next]_vars => ParameterizerInv' /\ EnactedStep
<1> SUFFICES ASSUME ParameterizerInv, [Next]_vars PROVE ParameterizerInv' /\ EnactedStep
  OBVIOUS
<1>t. TypeOK
  BY DEF ParameterizerInv, ProposalsSound
<1>1. CASE UNCHANGED vars
  <2>1. TypeOK'
    BY <1>t, <1>1 DEF TypeOK, vars, tallyVars, funds
  <2>2. EndedKept
    BY <1>t, <1>1, VotingKeepsEnded DEF vars
  <2>3. QED
    BY <1>1, <2>1, <2>2, StorageKept DEF vars, tallyVars, funds
<1>2. CASE Tick
  <2>1. TypeOK'
    BY <1>t, <1>2, TimeAssumption DEF TypeOK, Tick, Pass, funds
  <2>2. EndedKept
    BY <1>t, <1>2, VotingKeepsEnded DEF Tick
  <2>3. QED
    BY <1>2, <2>1, <2>2, StorageKept DEF Tick, Pass, funds
<1>3. ASSUME NEW v \in Voters, NEW c \in Polls, NEW option \in Options, Vote(v, c, option)
      PROVE  ParameterizerInv' /\ EnactedStep
  <2>1. TokensVoted[v] \in Nat
    BY VotesAssumption
  <2>2. votes' \in [Polls -> [Voters -> {NoVote} \cup (Options \X Nat)]]
    BY <1>t, <1>3, <2>1 DEF TypeOK, Vote, Reveal
  <2>3. TypeOK'
    BY <1>t, <1>3, <2>2 DEF TypeOK, Vote, Reveal, funds
  <2>4. EndedKept
    BY <1>t, <1>3, <2>1, VotingKeepsEnded DEF Vote
  <2>5. QED
    BY <1>3, <2>3, <2>4, StorageKept DEF Vote, Reveal, funds
<1>4. CASE Next
  BY <1>2, <1>3, <1>4, ClaimKeeps, ProcessKeeps, ProposeKeeps, ChallengeKeeps DEF Next
<1>5. QED
  BY <1>1, <1>4

LEMMA ParameterizerInvariant == Spec => []ParameterizerInv
<1>1. ParameterizerInv /\ [Next]_vars => ParameterizerInv'
  BY ParameterizerNext
<1>2. QED
  BY <1>1, ParameterizerInit, PTL DEF Spec

-------------------------------------------------------------------------------------
(* The challenges that are contested and those that are stranded are the open ones. *)
LEMMA OpenChallenges ==
    ASSUME ParameterizerInv
    PROVE  Open = Contested \cup Stranded
<1> USE IdsArePolls
<1>1. Contested \subseteq Started
  BY DEF ParameterizerInv, Records, ContestedStarted, Contested
<1>2. ASSUME NEW c \in Contested PROVE c \notin Resolved
  BY <1>2 DEF ParameterizerInv, ProposalsSound, ChallengesApart, Contested, Resolved
<1>3. QED
  BY <1>1, <1>2 DEF Open, Stranded

LEMMA FundsFollow ==
    ASSUME ParameterizerInv, OnlyForAgainst
    PROVE  FundsCovered
<1>1. Solvent
  BY OpenChallenges DEF ParameterizerInv, Money, Solvent, Deposits, Stakes, Pools
<1>2. ClaimsCovered
  BY DEF ParameterizerInv, AllBacked, Backed, Left, ClaimsCovered
<1>3. QED
  BY <1>1, <1>2 DEF FundsCovered

(* No amount leaves its range, and every pending proposal has its own open     *)
(* challenge, whatever is proposed again (Parameterizer.sol:159, :195).        *)
THEOREM ProposalsAreSound == Spec => []ProposalsSound
<1>1. ParameterizerInv => ProposalsSound
  BY DEF ParameterizerInv
<1>2. QED
  BY <1>1, ParameterizerInvariant, PTL

(* Deposits, stakes and pools add up to what the contract holds, and every     *)
(* winner can claim, if no vote is for a third option (Parameterizer.sol:363,  *)
(* :241).                                                                      *)
THEOREM FundsAreCovered == OnlyForAgainst /\ Spec => []FundsCovered
<1> SUFFICES ASSUME OnlyForAgainst PROVE Spec => []FundsCovered
  OBVIOUS
<1>1. ParameterizerInv => FundsCovered
  BY FundsFollow
<1>2. QED
  BY <1>1, ParameterizerInvariant, PTL

(* A parameter changes only to the value of a proposal in time that was left   *)
(* alone or voted for (Parameterizer.sol:195).                                 *)
THEOREM ParametersFollowRule == Spec => EnactedByRule
<1>1. ParameterizerInv /\ [Next]_vars => [EnactedStep]_vars
  BY ParameterizerNext
<1>2. QED
  BY <1>1, ParameterizerInvariant, PTL DEF Spec, EnactedByRule, EnactedStep
=====================================================================================
