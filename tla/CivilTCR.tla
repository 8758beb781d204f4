---------------------------------- MODULE CivilTCR ----------------------------------
(***************************************************************************)
(* The token curated registry with appeals: CivilTCR.sol on top of         *)
(* AddressRegistry.sol and RestrictedAddressRegistry.sol.                  *)
(*                                                                         *)
(* A transaction is one step; updateStatuses and claimRewards run the      *)
(* single operation once per element.  The polls are those of PollTally.   *)
(* Every voter puts the same number of tokens behind each of its votes.    *)
(* The parameterizer and the government are external here: params and      *)
(* government stand for what parameterizer.get and government.get return   *)
(* now, and change between transactions.  ERC20 transfers move tokens, or  *)
(* revert the transaction when the payer has too few.                      *)
(*                                                                         *)
(* Definitions marked "faulty" are what a plausible slip in the code would *)
(* make of the definition they precede; nothing uses them.                 *)
(***************************************************************************)
EXTENDS PollTally

CONSTANTS
    Listings,       \* the listing addresses
    Users,          \* the accounts that hold tokens
    Nobody,         \* address 0
    ContractOwner,  \* listing -> the user that owns the contract at its address
    Funds,          \* user -> tokens owned at the start
    TokensVoted,    \* voter -> tokens the voter commits to a poll
    Amounts,        \* the amounts users deposit and withdraw
    ParamSets,      \* the values the parameterizer may take
    Governments,    \* the governments the registry may answer to, with their values
    MaxTime,        \* bound: the last block time
    LastStart       \* bound: no application or challenge starts later

ASSUME ListingsAssumption == IsFiniteSet(Listings)
ASSUME PollsAssumption   == Polls \subseteq Nat \ {0} /\ IsFiniteSet(Polls)
ASSUME UsersAssumption   == Voters \subseteq Users /\ Nobody \notin Users /\ IsFiniteSet(Voters)
ASSUME OptionsAssumption == Options \subseteq Nat /\ NoVote \notin Options \X Nat
ASSUME OwnerAssumption   == ContractOwner \in [Listings -> Users]
ASSUME FundsAssumption   == Funds \in [Users -> Nat]
ASSUME VotesAssumption   == TokensVoted \in [Voters -> Nat]
ASSUME AmountsAssumption == Amounts \subseteq Nat
ASSUME MaxTimeAssumption == MaxTime \in Nat \ {0}

(* What voters do not get is at most all: both proposal functions reject more *)
(* than 100 per cent.                                                        *)
ASSUME ParamsAssumption ==
    ParamSets \subseteq [minDeposit : Nat, applyStageLen : Nat, commitStageLen : Nat,
                         revealStageLen : Nat, voteQuorum : Nat, dispensationPct : 0 .. 100,
                         challengeAppealLen : Nat, challengeAppealCommitLen : Nat,
                         challengeAppealRevealLen : Nat]
ASSUME GovernmentsAssumption ==
    Governments \subseteq [requestAppealLen : Nat, judgeAppealLen : Nat, appealFee : Nat,
                           appealVotePercentage : Nat,
                           appealChallengeVoteDispensationPct : 0 .. 100]

VARIABLES
    params,               \* what parameterizer.get returns
    government,           \* what government.get returns
    listings,             \* listing -> Listing
    challenges,           \* poll id -> Challenge
    requestAppealExpiry,  \* challenge id -> challengeRequestAppealExpiries
    appeals,              \* challenge id -> Appeal
    tcrBalance,           \* tokens this contract holds
    balanceOf             \* user -> tokens

settings == <<params, government>>
disputes == <<challenges, requestAppealExpiry, appeals>>
funds    == <<tcrBalance, balanceOf>>
vars     == <<tallyVars, settings, listings, disputes, funds>>

Ids == {0} \cup Polls      \* id 0: no challenge; its entries are never written

Listing == [applicationExpiry : Nat, whitelisted : BOOLEAN, owner : Users \cup {Nobody},
            unstakedDeposit : Nat, challengeID : Ids]
NoListing == [applicationExpiry |-> 0, whitelisted |-> FALSE, owner |-> Nobody,
              unstakedDeposit |-> 0, challengeID |-> 0]

Challenge == [rewardPool : Nat, challenger : Users \cup {Nobody}, resolved : BOOLEAN,
              stake : Nat, totalTokens : Nat, tokenClaims : SUBSET Voters]
NewChallenge(challenger, stake, rewardPool) ==
    [rewardPool |-> rewardPool, challenger |-> challenger, resolved |-> FALSE,
     stake |-> stake, totalTokens |-> 0, tokenClaims |-> {}]

Appeal == [requester : Users \cup {Nobody}, appealFeePaid : Nat, appealPhaseExpiry : Nat,
           appealGranted : BOOLEAN, appealOpenToChallengeExpiry : Nat,
           appealChallengeID : Ids, overturned : BOOLEAN]
NoAppeal == [requester |-> Nobody, appealFeePaid |-> 0, appealPhaseExpiry |-> 0,
             appealGranted |-> FALSE, appealOpenToChallengeExpiry |-> 0,
             appealChallengeID |-> 0, overturned |-> FALSE]

TypeOK ==
    /\ now \in 1 .. MaxTime
    /\ pollNonce \in Ids
    /\ poll \in [Polls -> [quorum : Nat, commitEnd : Nat, revealEnd : Nat]]
    /\ votes \in [Polls -> [Voters -> {NoVote} \cup (Options \X Nat)]]
    /\ params \in ParamSets
    /\ government \in Governments
    /\ listings \in [Listings -> Listing]
    /\ challenges \in [Ids -> Challenge]
    /\ requestAppealExpiry \in [Ids -> Nat]
    /\ appeals \in [Ids -> Appeal]
    /\ tcrBalance \in Nat
    /\ balanceOf \in [Users -> Nat]

Init ==
    /\ TallyInit
    /\ params \in ParamSets
    /\ government \in Governments
    /\ listings = [l \in Listings |-> NoListing]
    /\ challenges = [c \in Ids |-> NewChallenge(Nobody, 0, 0)]
    /\ requestAppealExpiry = [c \in Ids |-> 0]
    /\ appeals = [c \in Ids |-> NoAppeal]
    /\ tcrBalance = 0
    /\ balanceOf = Funds

------------------------------------------------------------------------------------
(* Token transfers, and the listing they settle. *)

Credit(b, u, n) == IF n = 0 THEN b ELSE [b EXCEPT ![u] = @ + n]

(* token.transferFrom(u, this, n) *)
Take(u, n) ==
    /\ balanceOf[u] >= n
    /\ balanceOf' = [balanceOf EXCEPT ![u] = @ - n]
    /\ tcrBalance' = tcrBalance + n

(* token.transfer(u, n) *)
Pay(u, n) ==
    /\ tcrBalance >= n
    /\ balanceOf' = Credit(balanceOf, u, n)
    /\ tcrBalance' = tcrBalance - n

(* resetListing: the entry is deleted and what was not staked goes back. *)
ResetListing(l) ==
    /\ listings' = [listings EXCEPT ![l] = NoListing]
    /\ Pay(listings[l].owner, listings[l].unstakedDeposit)

------------------------------------------------------------------------------------
(* Conditions on a listing. *)

AppWasMade(l)  == listings[l].applicationExpiry > 0
ChallengeOf(l) == listings[l].challengeID
AppealOf(l)    == appeals[ChallengeOf(l)]

(* No challenge, or none that is still open. *)
UnchallengedIfOpen(l) == ChallengeOf(l) = 0 \/ ~challenges[ChallengeOf(l)].resolved   \* faulty
Unchallenged(l)    == ChallengeOf(l) = 0 \/ challenges[ChallengeOf(l)].resolved
ChallengeExists(l) == ChallengeOf(l) > 0 /\ ~challenges[ChallengeOf(l)].resolved

CanBeWhitelistedUnapplied(l) ==                                    \* faulty
    listings[l].applicationExpiry < now /\ ~listings[l].whitelisted /\ Unchallenged(l)

CanBeWhitelistedEarly(l) ==                                        \* faulty
    /\ AppWasMade(l) /\ ~listings[l].whitelisted /\ Unchallenged(l)
    /\ listings[l].applicationExpiry > now

CanBeWhitelisted(l) ==
    /\ AppWasMade(l)
    /\ listings[l].applicationExpiry < now
    /\ ~listings[l].whitelisted
    /\ Unchallenged(l)

ResolvableDespiteAppeal(l) == requestAppealExpiry[ChallengeOf(l)] <= now   \* faulty

(* Of a listing with an open challenge; the code throws otherwise. *)
ChallengeCanBeResolved(l) ==
    /\ requestAppealExpiry[ChallengeOf(l)] <= now
    /\ AppealOf(l).appealPhaseExpiry = 0

AppealResolvableDespiteVeto(l) ==                                  \* faulty
    /\ AppealOf(l).appealPhaseExpiry # 0
    /\ IF AppealOf(l).appealGranted THEN AppealOf(l).appealOpenToChallengeExpiry < now
                                    ELSE AppealOf(l).appealPhaseExpiry < now

AppealResolvableOnceGranted(l) ==                                  \* faulty
    /\ AppealOf(l).appealPhaseExpiry # 0
    /\ IF AppealOf(l).appealGranted THEN AppealOf(l).appealChallengeID = 0
                                    ELSE AppealOf(l).appealPhaseExpiry < now

AppealResolvableOnlyGranted(l) ==                                  \* faulty
    /\ AppealOf(l).appealGranted
    /\ AppealOf(l).appealOpenToChallengeExpiry < now /\ AppealOf(l).appealChallengeID = 0

AppealCanBeResolved(l) ==
    /\ AppealOf(l).appealPhaseExpiry # 0
    /\ IF AppealOf(l).appealGranted
       THEN AppealOf(l).appealOpenToChallengeExpiry < now /\ AppealOf(l).appealChallengeID = 0
       ELSE AppealOf(l).appealPhaseExpiry < now

AppealChallengeCanBeResolved(l) ==
    /\ AppealOf(l).appealChallengeID # 0
    /\ Ended(AppealOf(l).appealChallengeID)

(* An appeal was granted and no appeal challenge overturned it. *)
Overturned(c) == appeals[c].appealGranted /\ ~appeals[c].overturned

(* The voters getNumChallengeTokens does not revert for. *)
EntitledByVote(c) == Winners(c)                                    \* faulty Entitled

Entitled(c) == IF Overturned(c) THEN Losers(c) ELSE Winners(c)

------------------------------------------------------------------------------------
(* The publisher's operations. *)

Apply(u, l, n) ==
    /\ now <= LastStart
    /\ u = ContractOwner[l]
    /\ ~listings[l].whitelisted
    /\ ~AppWasMade(l)
    /\ n >= params.minDeposit
    /\ listings' = [listings EXCEPT ![l].owner = u,
                                    ![l].applicationExpiry = now + params.applyStageLen,
                                    ![l].unstakedDeposit = n]
    /\ Take(u, n)
    /\ UNCHANGED <<tallyVars, settings, disputes>>

Deposit(u, l, n) ==
    /\ listings[l].owner = u
    /\ listings' = [listings EXCEPT ![l].unstakedDeposit = @ + n]
    /\ Take(u, n)
    /\ UNCHANGED <<tallyVars, settings, disputes>>

Withdraw(u, l, n) ==
    /\ listings[l].owner = u
    /\ n <= listings[l].unstakedDeposit
    /\ Unchallenged(l) => listings[l].unstakedDeposit - n >= params.minDeposit
    /\ listings' = [listings EXCEPT ![l].unstakedDeposit = @ - n]
    /\ Pay(u, n)
    /\ UNCHANGED <<tallyVars, settings, disputes>>

Exit(u, l) ==
    /\ listings[l].owner = u
    /\ listings[l].whitelisted
    /\ Unchallenged(l)
    /\ ResetListing(l)
    /\ UNCHANGED <<tallyVars, settings, disputes>>

------------------------------------------------------------------------------------
(* Challenges and appeals. *)

(* Per cent of n that voters do not get, rounded the way the code does. *)
PoolOfSwapped(n, dispensationPct) == ((dispensationPct - 100) * n) \div 100   \* faulty
PoolOf(n, dispensationPct) == ((100 - dispensationPct) * n) \div 100

(* A challenge of a listing with too small a deposit removes it instead. *)
TouchAndRemove(l) ==
    /\ listings[l].unstakedDeposit < params.minDeposit
    /\ ResetListing(l)
    /\ UNCHANGED <<tallyVars, settings, disputes>>

StartChallenge(u, l) ==
    LET id        == pollNonce + 1
        stake     == params.minDeposit
        commitEnd == now + params.commitStageLen
        revealEnd == commitEnd + params.revealStageLen
    IN  /\ listings[l].unstakedDeposit >= stake
        /\ StartPoll(params.voteQuorum, commitEnd, revealEnd)
        /\ challenges' = [challenges EXCEPT ![id] =
                            NewChallenge(u, stake, PoolOf(stake, params.dispensationPct))]
        /\ requestAppealExpiry' =
               [requestAppealExpiry EXCEPT ![id] = revealEnd + government.requestAppealLen]
        /\ listings' = [listings EXCEPT ![l].challengeID = id,
                                        ![l].unstakedDeposit = @ - stake]
        /\ Take(u, stake)
        /\ UNCHANGED <<settings, appeals>>

ChallengeListing(u, l) ==
    /\ now <= LastStart
    /\ AppWasMade(l) \/ listings[l].whitelisted
    /\ Unchallenged(l)
    /\ TouchAndRemove(l) \/ StartChallenge(u, l)

RequestAppeal(u, l) ==
    LET c == ChallengeOf(l) IN
    /\ Ended(c)
    /\ requestAppealExpiry[c] > now
    /\ appeals[c].requester = Nobody
    /\ appeals' = [appeals EXCEPT ![c].requester = u,
                                  ![c].appealFeePaid = government.appealFee,
                                  ![c].appealPhaseExpiry = now + government.judgeAppealLen]
    /\ Take(u, government.appealFee)
    /\ UNCHANGED <<tallyVars, settings, listings, challenges, requestAppealExpiry>>

(* By the government's appellate. *)
GrantAppeal(l) ==
    LET c == ChallengeOf(l) IN
    /\ appeals[c].appealPhaseExpiry > now
    /\ ~appeals[c].appealGranted
    /\ appeals' = [appeals EXCEPT
                     ![c].appealGranted = TRUE,
                     ![c].appealOpenToChallengeExpiry = now + params.challengeAppealLen]
    /\ UNCHANGED <<tallyVars, settings, listings, challenges, requestAppealExpiry, funds>>

ChallengeGrantedAppeal(u, l) ==
    LET c         == ChallengeOf(l)
        id        == pollNonce + 1
        fee       == appeals[c].appealFeePaid
        commitEnd == now + params.challengeAppealCommitLen
        revealEnd == commitEnd + params.challengeAppealRevealLen
    IN  /\ appeals[c].appealGranted
        /\ appeals[c].appealChallengeID = 0
        /\ appeals[c].appealOpenToChallengeExpiry > now
        /\ StartPoll(government.appealVotePercentage, commitEnd, revealEnd)
        /\ challenges' = [challenges EXCEPT ![id] =
               NewChallenge(u, fee, PoolOf(fee, government.appealChallengeVoteDispensationPct))]
        /\ appeals' = [appeals EXCEPT ![c].appealChallengeID = id]
        /\ Take(u, fee)
        /\ UNCHANGED <<settings, listings, requestAppealExpiry>>

------------------------------------------------------------------------------------
(* Resolution. *)

(* determineReward: the winner's share of both stakes. *)
RewardLessPool(ch, winningTokens) == 2 * ch.stake - ch.rewardPool   \* faulty Reward

Reward(ch, winningTokens) ==
    IF winningTokens = 0 THEN 2 * ch.stake ELSE 2 * ch.stake - ch.rewardPool

Resolve(ch, winningTokens) == [ch EXCEPT !.resolved = TRUE, !.totalTokens = winningTokens]

(* whitelistApplication, with the reward added to the deposit. *)
Whitelist(listing, reward) ==
    [listing EXCEPT !.whitelisted = TRUE, !.challengeID = 0, !.unstakedDeposit = @ + reward]

(* The listing keeps its place if the vote passed, or, overturned, if not. *)
KeptByVote(c, overturned) == Passed(c)                             \* faulty Kept
Kept(c, overturned) == Passed(c) # overturned

(* The winner of listing l's challenge, whose record has become ch, gets this. *)
RewardOf(l, ch, overturned) ==
    LET c == ChallengeOf(l)
    IN  Reward(ch, IF overturned THEN LosingTokens(c) ELSE WinningTokens(c))

(* What leaves the registry when the caller also pays extra to a party. *)
Payout(l, ch, overturned, extra) ==
    IF Kept(ChallengeOf(l), overturned) THEN extra
    ELSE listings[l].unstakedDeposit + RewardOf(l, ch, overturned) + extra

(* The votes are counted and the transfers succeed; otherwise it reverts. *)
CanSettle(l, ch, overturned, extra) ==
    Ended(ChallengeOf(l)) /\ tcrBalance >= Payout(l, ch, overturned, extra)

(* resolveChallenge and resolveOverturnedChallenge, where chs are the         *)
(* challenges with all else the caller changed.                               *)
Settle(l, ch, overturned, chs, payee, extra) ==
    LET c       == ChallengeOf(l)
        winning == IF overturned THEN LosingTokens(c) ELSE WinningTokens(c)
        reward  == RewardOf(l, ch, overturned)
        refund  == listings[l].unstakedDeposit
        kept    == Kept(c, overturned)
    IN  /\ CanSettle(l, ch, overturned, extra)
        /\ challenges' = [chs EXCEPT ![c] = Resolve(ch, winning)]
        /\ listings' = [listings EXCEPT ![l] =
               IF kept THEN Whitelist(@, reward) ELSE NoListing]
        /\ tcrBalance' = tcrBalance - Payout(l, ch, overturned, extra)
        /\ balanceOf' = IF kept THEN Credit(balanceOf, payee, extra)
                        ELSE Credit(Credit(Credit(balanceOf, listings[l].owner, refund),
                                           ch.challenger, reward),
                                    payee, extra)
        /\ UNCHANGED <<tallyVars, settings, requestAppealExpiry>>

(* The application expired without a challenge. *)
WhitelistApplication(l) ==
    /\ listings' = [listings EXCEPT ![l] = Whitelist(@, 0)]
    /\ UNCHANGED <<tallyVars, settings, disputes, funds>>

ResolveChallenge(l) ==
    /\ Settle(l, challenges[ChallengeOf(l)], FALSE, challenges, Nobody, 0)
    /\ UNCHANGED appeals

(* The fee goes back to the requester of a granted appeal; half of the fee of *)
(* one that was not granted goes to the winning voters, the rest to the stake. *)
ResolveAppeal(l) ==
    LET ch     == challenges[ChallengeOf(l)]
        appeal == AppealOf(l)
        half   == appeal.appealFeePaid \div 2
    IN  /\ IF appeal.appealGranted
           THEN Settle(l, ch, TRUE, challenges, appeal.requester, appeal.appealFeePaid)
           ELSE Settle(l, [ch EXCEPT !.rewardPool = @ + half,
                                     !.stake = @ + (appeal.appealFeePaid - half)],
                       FALSE, challenges, Nobody, 0)
        /\ UNCHANGED appeals

ResolveAppealChallenge(l) ==
    LET c         == ChallengeOf(l)
        ac        == AppealOf(l).appealChallengeID
        winning   == WinningTokens(ac)
        reward    == Reward(challenges[ac], winning)
        succeeded == Passed(ac)
        winner    == IF succeeded THEN challenges[ac].challenger ELSE AppealOf(l).requester
    IN  /\ Ended(ac) /\ ~challenges[ac].resolved
        /\ Settle(l, challenges[c], ~succeeded,
                  [challenges EXCEPT ![ac] = Resolve(@, winning)], winner, reward)
        /\ appeals' = [appeals EXCEPT ![c].overturned = succeeded]

(* The first condition that holds decides. *)
UpdateStatus(l) ==
    \/ CanBeWhitelisted(l) /\ WhitelistApplication(l)
    \/ /\ ~CanBeWhitelisted(l)
       /\ ChallengeExists(l)
       /\ \/ ChallengeCanBeResolved(l) /\ ResolveChallenge(l)
          \/ /\ ~ChallengeCanBeResolved(l)
             /\ AppealCanBeResolved(l)
             /\ ResolveAppeal(l)
          \/ /\ ~ChallengeCanBeResolved(l)
             /\ ~AppealCanBeResolved(l)
             /\ AppealChallengeCanBeResolved(l)
             /\ ResolveAppealChallenge(l)

(* A voter's share of what is left of the pool, rounded down. *)
VoterReward(v, c) == (votes[c][v][2] * challenges[c].rewardPool) \div challenges[c].totalTokens

ClaimReward(v, c) ==
    LET tokens == votes[c][v][2]
        reward == VoterReward(v, c)
    IN  /\ v \notin challenges[c].tokenClaims
        /\ challenges[c].resolved
        /\ v \in Entitled(c)
        /\ challenges[c].totalTokens > 0                 \* SafeMath.div
        /\ challenges[c].totalTokens >= tokens           \* SafeMath.sub
        /\ challenges[c].rewardPool >= reward            \* SafeMath.sub
        /\ challenges' = [challenges EXCEPT ![c].totalTokens = @ - tokens,
                                            ![c].rewardPool = @ - reward,
                                            ![c].tokenClaims = @ \cup {v}]
        /\ Pay(v, reward)
        /\ UNCHANGED <<tallyVars, settings, listings, requestAppealExpiry, appeals>>

------------------------------------------------------------------------------------
(* The environment: time, votes, and the settings read from other contracts. *)

Tick ==
    /\ now < MaxTime
    /\ Pass
    /\ UNCHANGED <<settings, listings, disputes, funds>>

Vote(v, c, option) ==
    /\ Reveal(v, c, option, TokensVoted[v])
    /\ UNCHANGED <<settings, listings, disputes, funds>>

(* The parameterizer accepts a proposal. *)
Reparameterize(ps) ==
    /\ ps # params
    /\ params' = ps
    /\ UNCHANGED <<tallyVars, government, listings, disputes, funds>>

(* transferGovernment, or the government accepts a proposal. *)
TransferGovernment(g) ==
    /\ g # government
    /\ government' = g
    /\ UNCHANGED <<tallyVars, params, listings, disputes, funds>>

Next ==
    \/ Tick
    \/ \E ps \in ParamSets : Reparameterize(ps)
    \/ \E g \in Governments : TransferGovernment(g)
    \/ \E v \in Voters, c \in Polls :
         \/ \E option \in Options : Vote(v, c, option)
         \/ ClaimReward(v, c)
    \/ \E l \in Listings :
         \/ UpdateStatus(l)
         \/ GrantAppeal(l)
         \/ \E u \in Users :
              \/ \E n \in Amounts : Apply(u, l, n) \/ Deposit(u, l, n) \/ Withdraw(u, l, n)
              \/ Exit(u, l)
              \/ ChallengeListing(u, l)
              \/ RequestAppeal(u, l)
              \/ ChallengeGrantedAppeal(u, l)

Spec == Init /\ [][Next]_vars

(* Time passes, and somebody eventually calls updateStatus when it would not *)
(* revert: the function is open to everyone.                                *)
FairSpec == Spec /\ WF_vars(Tick) /\ \A l \in Listings : WF_vars(UpdateStatus(l))

------------------------------------------------------------------------------------
(* Properties. *)

Current == {ChallengeOf(l) : l \in Listings} \ {0}
Resolved == {c \in Polls : challenges[c].resolved}

(* What the contract still has to pay out: deposits; both stakes, the appeal *)
(* fee and both stakes of the appeal challenge of every open dispute; and    *)
(* the pools voters have not claimed.                                        *)
OwedTo(c) ==
    LET a == appeals[c]
    IN  2 * challenges[c].stake
          + (IF a.appealChallengeID # 0 THEN 2 ELSE 1) * a.appealFeePaid
Unclaimed(c) == IF challenges[c].totalTokens > 0 THEN challenges[c].rewardPool ELSE 0
Owed == SumOver([l \in Listings |-> listings[l].unstakedDeposit], Listings)
          + SumOver([c \in Ids |-> OwedTo(c)], Current)
          + SumOver([c \in Ids |-> Unclaimed(c)], Resolved)

(* The registry holds exactly what it owes: no order of deposits, challenges, *)
(* appeals, resolutions and claims lets it pay one party with the tokens of   *)
(* another, or keeps tokens nobody can ever get.                              *)
Solvent == tcrBalance = Owed

(* The pool of a resolved challenge is shared among exactly the voters that  *)
(* are still entitled to claim: the tokens left to claim against are theirs. *)
ClaimsCovered ==
    \A c \in Resolved :
        challenges[c].totalTokens = TokensOf(c, Entitled(c) \ challenges[c].tokenClaims)

(* Every open challenge is either the one its listing points to or the appeal  *)
(* challenge of that one, so a later updateStatus can reach it: no stake is    *)
(* orphaned, and no challenge is shared by two listings.                       *)
NoOrphanedChallenge ==
    /\ \A c \in Polls : challenges[c].challenger # Nobody /\ ~challenges[c].resolved =>
          c \in Current \cup {appeals[d].appealChallengeID : d \in Current}
    /\ \A c \in Current : ~challenges[c].resolved
    /\ \A l, m \in Listings : l # m /\ ChallengeOf(l) # 0 => ChallengeOf(l) # ChallengeOf(m)

(* At most one branch of updateStatus applies, so their order is irrelevant. *)
OnePhase ==
    \A l \in Listings : ChallengeExists(l) =>
        LET due == <<CanBeWhitelisted(l), ChallengeCanBeResolved(l), AppealCanBeResolved(l),
                     AppealChallengeCanBeResolved(l)>>
        IN  \A i, j \in 1 .. 4 : due[i] /\ due[j] => i = j

(* A challenge is resolved only when everybody had the time the rules give:   *)
(* voting is over, the time to appeal has passed or an appeal was made, the   *)
(* appellate's time has passed or the appeal was granted, and a granted       *)
(* appeal was open to challenge to the end or its challenge was voted on.     *)
NobodyCutShort ==
    [][\A l \in Listings, c \in Polls :
          LET a == appeals[c]
          IN  c = ChallengeOf(l) /\ challenges'[c].resolved =>
                /\ now > poll[c].revealEnd
                /\ IF a.requester = Nobody THEN now >= requestAppealExpiry[c]
                   ELSE IF ~a.appealGranted THEN now >= a.appealPhaseExpiry
                   ELSE IF a.appealChallengeID = 0 THEN now >= a.appealOpenToChallengeExpiry
                   ELSE now > poll[a.appealChallengeID].revealEnd]_vars

(* A disputed listing keeps its place exactly when the last word says so: the *)
(* vote, reversed by a granted appeal, reversed again by an appeal challenge. *)
(* The loser's side never gets the stake.                                     *)
VerdictHonoured ==
    [][\A l \in Listings, c \in Polls :
          LET ch    == challenges[c]
              stays == Passed(c) # Overturned(c)'
          IN  c = ChallengeOf(l) /\ challenges'[c].resolved =>
                /\ listings'[l].whitelisted = stays
                /\ stays => listings'[l].unstakedDeposit
                              >= listings[l].unstakedDeposit + ch.stake
                /\ ~stays => balanceOf'[ch.challenger] >= balanceOf[ch.challenger] + ch.stake]_vars

(* Once a challenge is resolved, who may claim its pool is settled: no later *)
(* appeal, challenge or vote of the same listing changes it.                 *)
EntitlementFinal ==
    [][\A c \in Resolved : Entitled(c)' = Entitled(c)]_vars

(* CivilTCR.sol:210 promises that the fee of an appeal that is not granted *)
(* is split between the winning voters and the winning party: what both    *)
(* get is the two stakes and the fee, no more and no less.                 *)
AppealFeeSplit ==
    [][\A l \in Listings, c \in Polls :
          LET deposit  == listings[l].unstakedDeposit
              party    == IF Passed(c) THEN listings'[l].unstakedDeposit - deposit
                          ELSE tcrBalance - tcrBalance' - deposit
          IN  /\ c = ChallengeOf(l) /\ challenges'[c].resolved
              /\ appeals[c].requester # Nobody /\ ~appeals[c].appealGranted
              => party + Unclaimed(c)' = 2 * challenges[c].stake + appeals[c].appealFeePaid]_vars

(* Nobody can be locked into a dispute for ever. *)
DisputesEnd == \A l \in Listings : ChallengeExists(l) ~> ~ChallengeExists(l)

(* An application does not hang: it is listed, removed or disputed in the end. *)
ApplicationsDecided ==
    \A l \in Listings :
        (AppWasMade(l) /\ ~listings[l].whitelisted /\ Unchallenged(l))
            ~> (listings[l].whitelisted \/ ~AppWasMade(l) \/ ChallengeExists(l))

(* The registry implements the life of a listing as its users see it. *)
StageOf(l) == IF listings[l].whitelisted THEN "listed"
              ELSE IF AppWasMade(l) THEN "applying" ELSE "absent"

DisputeOf(l) == IF ~ChallengeExists(l) THEN "none"
                ELSE IF AppealOf(l).appealChallengeID # 0 THEN "vetoing"
                ELSE IF AppealOf(l).appealGranted THEN "granted"
                ELSE IF AppealOf(l).requester # Nobody THEN "appealed"
                ELSE "voting"

StageMap   == [l \in Listings |-> StageOf(l)]
DisputeMap == [l \in Listings |-> DisputeOf(l)]

Life == INSTANCE ListingLifecycle WITH stage <- StageMap, dispute <- DisputeMap

ImplementsLifecycle == Life!LifeSpec
====================================================================================
