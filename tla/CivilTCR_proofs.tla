------------------------------ MODULE CivilTCR_proofs ------------------------------
(***************************************************************************)
(* Theorems about CivilTCR, for every set of listings, users, voters and   *)
(* polls, all settings and every value of the bounds.                      *)
(***************************************************************************)
EXTENDS CivilTCR, Sums_proofs

------------------------------------------------------------------------------------
(* Values read from other contracts, sums of votes and shares of stakes. *)

LEMMA IdsArePolls == 0 \in Ids /\ Polls \subseteq Ids /\ Ids \subseteq Nat /\ Ids \ {0} = Polls
  BY PollsAssumption DEF Ids

LEMMA SettingsTypes ==
    TypeOK =>
      /\ params.minDeposit \in Nat /\ params.applyStageLen \in Nat
      /\ params.commitStageLen \in Nat /\ params.revealStageLen \in Nat
      /\ params.voteQuorum \in Nat /\ params.dispensationPct \in 0 .. 100
      /\ params.challengeAppealLen \in Nat /\ params.challengeAppealCommitLen \in Nat
      /\ params.challengeAppealRevealLen \in Nat
      /\ government.requestAppealLen \in Nat /\ government.judgeAppealLen \in Nat
      /\ government.appealFee \in Nat /\ government.appealVotePercentage \in Nat
      /\ government.appealChallengeVoteDispensationPct \in 0 .. 100
  BY ParamsAssumption, GovernmentsAssumption DEF TypeOK

LEMMA TimeType == TypeOK => now \in Nat /\ now > 0
  BY MaxTimeAssumption DEF TypeOK

LEMMA TokensType ==
    ASSUME TypeOK, NEW p \in Polls, NEW vs \in SUBSET Voters
    PROVE  TokensOf(p, vs) \in Nat
<1>1. \A v \in vs : TokensOn(p)[v] \in Nat
  BY UsersAssumption DEF TypeOK, TokensOn, Revealed
<1>2. IsFiniteSet(vs)
  BY UsersAssumption, FS_Subset
<1>3. QED
  BY <1>1, <1>2, SumNat DEF TokensOf

LEMMA TalliesType ==
    ASSUME TypeOK, NEW p \in Polls
    PROVE  WinningTokens(p) \in Nat /\ LosingTokens(p) \in Nat
<1>1. VotedFor(p) \in SUBSET Voters /\ Revealed(p) \ VotedFor(p) \in SUBSET Voters
  BY DEF VotedFor, Revealed
<1>2. VotesFor(p) \in Nat /\ VotesAgainst(p) \in Nat
  BY <1>1, TokensType DEF VotesFor, VotesAgainst
<1>3. QED
  BY <1>2 DEF WinningTokens, LosingTokens

LEMMA QuotientType == \A a \in Nat, b \in Nat : b > 0 => a \div b \in Nat
  OBVIOUS

(* The voters' share of a stake is at most the stake. *)
LEMMA PoolType ==
    ASSUME NEW n \in Nat, NEW pct \in 0 .. 100
    PROVE  PoolOf(n, pct) \in Nat /\ PoolOf(n, pct) <= n
<1> DEFINE a == 100 - pct
<1>1. a \in 0 .. 100
  OBVIOUS
<1> HIDE DEF a
<1>2. a * n \in Nat /\ a * n <= 100 * n
  BY <1>1
<1>3. (a * n) \div 100 \in Nat /\ (a * n) \div 100 <= n
  BY <1>2
<1>4. QED
  BY <1>3 DEF PoolOf, a

LEMMA HalfType ==
    ASSUME NEW n \in Nat
    PROVE  n \div 2 \in Nat /\ n \div 2 <= n - n \div 2 /\ n - n \div 2 \in Nat
  OBVIOUS

------------------------------------------------------------------------------------
(* Type correctness.  That a deposit stays a natural number when a reward is *)
(* added to it rests on the pool never being more than one party's stake.    *)

PoolsWithinStakes == \A c \in Ids : challenges[c].rewardPool <= challenges[c].stake

Typed == TypeOK /\ PoolsWithinStakes

LEMMA TypedInit == Init => Typed
<1> SUFFICES ASSUME Init PROVE Typed
  OBVIOUS
<1> USE IdsArePolls, MaxTimeAssumption, FundsAssumption
<1>1. NoListing \in Listing /\ NoAppeal \in Appeal /\ NewChallenge(Nobody, 0, 0) \in Challenge
  BY DEF NoListing, Listing, NoAppeal, Appeal, NewChallenge, Challenge
<1>2. TypeOK
  BY <1>1 DEF Init, TallyInit, NotStarted, TypeOK
<1>3. PoolsWithinStakes
  BY DEF Init, NewChallenge, PoolsWithinStakes
<1>4. QED
  BY <1>2, <1>3 DEF Typed

(* Payments keep balances natural numbers. *)
LEMMA CreditType ==
    ASSUME NEW b \in [Users -> Nat], NEW u, NEW n \in Nat
    PROVE  Credit(b, u, n) \in [Users -> Nat]
<1>1. CASE n = 0
  BY <1>1 DEF Credit
<1>2. CASE n # 0 /\ u \in Users
  <2>1. Credit(b, u, n) = [b EXCEPT ![u] = b[u] + n] /\ b[u] + n \in Nat
    BY <1>2 DEF Credit
  <2>2. QED
    BY <2>1
<1>3. CASE n # 0 /\ u \notin Users
  <2>1. Credit(b, u, n) = b
    BY <1>3 DEF Credit
  <2>2. QED
    BY <2>1
<1>4. QED
  BY <1>1, <1>2, <1>3

LEMMA TakeType ==
    ASSUME TypeOK, NEW u \in Users, NEW n \in Nat, Take(u, n)
    PROVE  tcrBalance' \in Nat /\ balanceOf' \in [Users -> Nat]
  BY DEF TypeOK, Take

LEMMA PayType ==
    ASSUME TypeOK, NEW u, NEW n \in Nat, Pay(u, n)
    PROVE  tcrBalance' \in Nat /\ balanceOf' \in [Users -> Nat]
  BY CreditType DEF TypeOK, Pay

LEMMA ResetType ==
    ASSUME TypeOK, NEW l \in Listings, ResetListing(l)
    PROVE  /\ tcrBalance' \in Nat /\ balanceOf' \in [Users -> Nat]
           /\ listings' \in [Listings -> Listing]
<1>1. listings[l].unstakedDeposit \in Nat
  BY DEF TypeOK, Listing
<1>2. PICK u, n : n \in Nat /\ u = listings[l].owner /\ n = listings[l].unstakedDeposit
  BY <1>1
<1>3. Pay(u, n)
  BY <1>2 DEF ResetListing
<1>4. NoListing \in Listing
  BY IdsArePolls DEF NoListing, Listing
<1>5. listings' \in [Listings -> Listing]
  BY <1>4 DEF ResetListing, TypeOK
<1>6. QED
  BY <1>2, <1>3, <1>5, PayType

LEMMA RewardType ==
    ASSUME NEW ch \in Challenge, ch.rewardPool <= ch.stake, NEW n \in Nat
    PROVE  Reward(ch, n) \in Nat
  BY DEF Challenge, Reward

LEMMA ResolveType ==
    ASSUME NEW ch \in Challenge, NEW n \in Nat
    PROVE  /\ Resolve(ch, n) \in Challenge
           /\ Resolve(ch, n).rewardPool = ch.rewardPool /\ Resolve(ch, n).stake = ch.stake
           /\ Resolve(ch, n).challenger = ch.challenger /\ Resolve(ch, n).resolved
  BY DEF Challenge, Resolve

LEMMA WhitelistType ==
    ASSUME NEW x \in Listing, NEW n \in Nat
    PROVE  Whitelist(x, n) \in Listing /\ NoListing \in Listing
<1>1. [x EXCEPT !.whitelisted = TRUE] \in Listing
  BY DEF Listing
<1>2. \A y \in Listing : [y EXCEPT !.challengeID = 0] \in Listing
  BY IdsArePolls DEF Listing
<1>3. \A y \in Listing : [y EXCEPT !.unstakedDeposit = @ + n] \in Listing
  BY DEF Listing
<1>4. Whitelist(x, n) \in Listing
  BY <1>1, <1>2, <1>3 DEF Whitelist
<1>5. QED
  BY <1>4, IdsArePolls DEF Listing, NoListing

LEMMA StartPollType ==
    ASSUME TypeOK, NEW quorum \in Nat, NEW commitEnd \in Nat, NEW revealEnd \in Nat,
           StartPoll(quorum, commitEnd, revealEnd)
    PROVE  /\ now' = now /\ votes' = votes
           /\ pollNonce' = pollNonce + 1 /\ pollNonce + 1 \in Polls
           /\ poll' \in [Polls -> [quorum : Nat, commitEnd : Nat, revealEnd : Nat]]
  BY DEF TypeOK, StartPoll

(* The settlement of a challenge. *)
LEMMA SettleType ==
    ASSUME TypeOK, NEW l \in Listings, NEW ch \in Challenge, NEW overturned \in BOOLEAN,
           NEW chs \in [Ids -> Challenge], NEW payee, NEW extra \in Nat,
           ch.rewardPool <= ch.stake, \A c \in Ids : chs[c].rewardPool <= chs[c].stake,
           ChallengeOf(l) \in Polls, Settle(l, ch, overturned, chs, payee, extra),
           appeals' \in [Ids -> Appeal]
    PROVE  Typed'
<1> USE IdsArePolls
<1> DEFINE c == ChallengeOf(l)
           winning == IF overturned THEN LosingTokens(c) ELSE WinningTokens(c)
           reward == Reward(ch, winning)
           refund == listings[l].unstakedDeposit
           kept == Kept(c, overturned)
           paid == IF kept THEN extra ELSE refund + reward + extra
<1>1. winning \in Nat
  BY TalliesType
<1>2. reward \in Nat /\ refund \in Nat /\ paid \in Nat
  BY <1>1, RewardType DEF TypeOK, Listing
<1>3. /\ challenges' = [chs EXCEPT ![c] = Resolve(ch, winning)]
      /\ listings' = [listings EXCEPT ![l] =
             IF kept THEN Whitelist(@, reward) ELSE NoListing]
      /\ tcrBalance >= paid
      /\ tcrBalance' = tcrBalance - paid
      /\ balanceOf' = IF kept THEN Credit(balanceOf, payee, extra)
                      ELSE Credit(Credit(Credit(balanceOf, listings[l].owner, refund),
                                         ch.challenger, reward),
                                  payee, extra)
      /\ UNCHANGED <<tallyVars, settings, requestAppealExpiry>>
  BY DEF Settle, CanSettle, Payout, RewardOf
<1> HIDE DEF winning, kept, paid, reward, refund
<1>4. challenges' \in [Ids -> Challenge] /\ PoolsWithinStakes'
  BY <1>1, <1>3, ResolveType DEF PoolsWithinStakes
<1>5. tcrBalance' \in Nat
  BY <1>2, <1>3 DEF TypeOK
<1>6. balanceOf' \in [Users -> Nat]
  <2>1. Credit(balanceOf, payee, extra) \in [Users -> Nat]
    BY CreditType DEF TypeOK
  <2>2. Credit(balanceOf, listings[l].owner, refund) \in [Users -> Nat]
    BY <1>2, CreditType DEF TypeOK
  <2>3. Credit(Credit(balanceOf, listings[l].owner, refund), ch.challenger, reward)
           \in [Users -> Nat]
    BY <1>2, <2>2, CreditType
  <2>4. Credit(Credit(Credit(balanceOf, listings[l].owner, refund), ch.challenger, reward),
               payee, extra) \in [Users -> Nat]
    BY <2>3, CreditType
  <2>5. QED
    BY <1>3, <2>1, <2>4
<1>7. listings' \in [Listings -> Listing]
  <2>1. listings[l] \in Listing /\ listings \in [Listings -> Listing]
    BY DEF TypeOK
  <2>2. Whitelist(listings[l], reward) \in Listing /\ NoListing \in Listing
    BY <1>2, <2>1, WhitelistType
  <2>3. QED
    BY <1>3, <2>1, <2>2
<1>8. /\ now' = now /\ pollNonce' = pollNonce /\ poll' = poll /\ votes' = votes
      /\ params' = params /\ government' = government
      /\ requestAppealExpiry' = requestAppealExpiry
  BY <1>3 DEF tallyVars, settings
<1>9. TypeOK'
  BY <1>4, <1>5, <1>6, <1>7, <1>8 DEF TypeOK
<1>10. QED
  BY <1>4, <1>9 DEF Typed

(* The steps that change deposits only. *)
LEMMA PublisherType ==
    ASSUME Typed, NEW u \in Users, NEW l \in Listings, NEW n \in Amounts,
           Apply(u, l, n) \/ Deposit(u, l, n) \/ Withdraw(u, l, n)
    PROVE  Typed'
<1> USE IdsArePolls, SettingsTypes, TimeType
<1>d. TypeOK /\ PoolsWithinStakes /\ n \in Nat /\ listings \in [Listings -> Listing]
  BY AmountsAssumption DEF Typed, TypeOK
<1>1. listings' \in [Listings -> Listing]
  BY <1>d DEF Apply, Deposit, Withdraw, Listing
<1>2. tcrBalance' \in Nat /\ balanceOf' \in [Users -> Nat]
  BY <1>d, TakeType, PayType DEF Apply, Deposit, Withdraw
<1>3. UNCHANGED <<tallyVars, settings, disputes>>
  BY DEF Apply, Deposit, Withdraw
<1>4. TypeOK'
  BY <1>d, <1>1, <1>2, <1>3 DEF TypeOK, tallyVars, settings, disputes
<1>5. QED
  BY <1>d, <1>3, <1>4 DEF Typed, PoolsWithinStakes, disputes

LEMMA RemovalType ==
    ASSUME Typed, NEW l \in Listings, ResetListing(l), UNCHANGED <<tallyVars, settings, disputes>>
    PROVE  Typed'
<1>d. TypeOK /\ PoolsWithinStakes
  BY DEF Typed
<1>1. TypeOK'
  BY <1>d, ResetType DEF TypeOK, tallyVars, settings, disputes
<1>2. QED
  BY <1>d, <1>1 DEF Typed, PoolsWithinStakes, disputes

LEMMA StartChallengeType ==
    ASSUME Typed, NEW u \in Users, NEW l \in Listings, StartChallenge(u, l)
    PROVE  Typed'
<1> USE IdsArePolls, SettingsTypes, TimeType
<1>d. TypeOK /\ PoolsWithinStakes
  BY DEF Typed
<1>1. PICK id, stake, pool, quorum, commitEnd, revealEnd :
          /\ id = pollNonce + 1 /\ stake = params.minDeposit
          /\ pool = PoolOf(stake, params.dispensationPct)
          /\ quorum = params.voteQuorum
          /\ commitEnd = now + params.commitStageLen
          /\ revealEnd = commitEnd + params.revealStageLen
  OBVIOUS
<1>2. /\ stake \in Nat /\ pool \in Nat /\ pool <= stake /\ quorum \in Nat
      /\ commitEnd \in Nat /\ revealEnd \in Nat /\ government.requestAppealLen \in Nat
  <2>1. /\ params.minDeposit \in Nat /\ params.dispensationPct \in 0 .. 100
        /\ params.commitStageLen \in Nat /\ params.revealStageLen \in Nat
        /\ params.voteQuorum \in Nat /\ government.requestAppealLen \in Nat /\ now \in Nat
    BY <1>d
  <2>2. pool \in Nat /\ pool <= stake
    BY <1>1, <2>1, PoolType
  <2>3. QED
    BY <1>1, <2>1, <2>2
<1>3. /\ StartPoll(quorum, commitEnd, revealEnd)
      /\ challenges' = [challenges EXCEPT ![id] = NewChallenge(u, stake, pool)]
      /\ requestAppealExpiry' =
            [requestAppealExpiry EXCEPT ![id] = revealEnd + government.requestAppealLen]
      /\ listings' = [listings EXCEPT ![l].challengeID = id, ![l].unstakedDeposit = @ - stake]
      /\ listings[l].unstakedDeposit >= stake
      /\ Take(u, stake)
      /\ UNCHANGED <<settings, appeals>>
  BY <1>1 DEF StartChallenge
<1>4. /\ now' = now /\ votes' = votes /\ id \in Polls /\ pollNonce' = id
      /\ poll' \in [Polls -> [quorum : Nat, commitEnd : Nat, revealEnd : Nat]]
  BY <1>d, <1>1, <1>2, <1>3, StartPollType
<1>5. NewChallenge(u, stake, pool) \in Challenge
  BY <1>2 DEF NewChallenge, Challenge
<1>6. challenges' \in [Ids -> Challenge] /\ PoolsWithinStakes'
  BY <1>d, <1>2, <1>3, <1>4, <1>5 DEF TypeOK, PoolsWithinStakes, NewChallenge
<1>7. listings' \in [Listings -> Listing]
  <2> DEFINE staked == [listings EXCEPT ![l].challengeID = id]
  <2>1. staked \in [Listings -> Listing] /\ staked[l].unstakedDeposit = listings[l].unstakedDeposit
    BY <1>d, <1>4 DEF TypeOK, Listing
  <2>2. listings' = [staked EXCEPT ![l].unstakedDeposit = @ - stake]
    BY <1>3
  <2>3. staked[l].unstakedDeposit >= stake
    BY <1>3, <2>1
  <2> HIDE DEF staked
  <2>4. QED
    BY <1>2, <2>1, <2>2, <2>3 DEF Listing
<1>8. tcrBalance' \in Nat /\ balanceOf' \in [Users -> Nat]
  BY <1>d, <1>2, <1>3, TakeType
<1>9. requestAppealExpiry' \in [Ids -> Nat]
  <2>1. requestAppealExpiry \in [Ids -> Nat] /\ revealEnd + government.requestAppealLen \in Nat
    BY <1>d, <1>2 DEF TypeOK
  <2>2. QED
    BY <1>3, <2>1
<1>10. TypeOK'
  BY <1>d, <1>3, <1>4, <1>6, <1>7, <1>8, <1>9 DEF TypeOK, settings
<1>11. QED
  BY <1>6, <1>10 DEF Typed

LEMMA ChallengeGrantedAppealType ==
    ASSUME Typed, NEW u \in Users, NEW l \in Listings, ChallengeGrantedAppeal(u, l)
    PROVE  Typed'
<1> USE IdsArePolls, SettingsTypes, TimeType
<1>d. TypeOK /\ PoolsWithinStakes /\ ChallengeOf(l) \in Ids
  BY DEF Typed, TypeOK, Listing, ChallengeOf
<1>1. PICK c, id, fee, pool, quorum, commitEnd, revealEnd :
          /\ c = ChallengeOf(l) /\ id = pollNonce + 1 /\ fee = appeals[c].appealFeePaid
          /\ pool = PoolOf(fee, government.appealChallengeVoteDispensationPct)
          /\ quorum = government.appealVotePercentage
          /\ commitEnd = now + params.challengeAppealCommitLen
          /\ revealEnd = commitEnd + params.challengeAppealRevealLen
  OBVIOUS
<1>2. fee \in Nat /\ c \in Ids
  BY <1>d, <1>1 DEF TypeOK, Appeal
<1>3. /\ pool \in Nat /\ pool <= fee /\ quorum \in Nat
      /\ commitEnd \in Nat /\ revealEnd \in Nat
  <2>1. /\ government.appealChallengeVoteDispensationPct \in 0 .. 100
        /\ params.challengeAppealCommitLen \in Nat /\ params.challengeAppealRevealLen \in Nat
        /\ government.appealVotePercentage \in Nat /\ now \in Nat
    BY <1>d
  <2>2. pool \in Nat /\ pool <= fee
    BY <1>1, <1>2, <2>1, PoolType
  <2>3. QED
    BY <1>1, <2>1, <2>2
<1>4. /\ StartPoll(quorum, commitEnd, revealEnd)
      /\ challenges' = [challenges EXCEPT ![id] = NewChallenge(u, fee, pool)]
      /\ appeals' = [appeals EXCEPT ![c].appealChallengeID = id]
      /\ Take(u, fee)
      /\ UNCHANGED <<settings, listings, requestAppealExpiry>>
  BY <1>1 DEF ChallengeGrantedAppeal
<1>5. /\ now' = now /\ votes' = votes /\ id \in Polls /\ pollNonce' = id
      /\ poll' \in [Polls -> [quorum : Nat, commitEnd : Nat, revealEnd : Nat]]
  BY <1>d, <1>1, <1>3, <1>4, StartPollType
<1>6. NewChallenge(u, fee, pool) \in Challenge
  BY <1>2, <1>3 DEF NewChallenge, Challenge
<1>7. challenges' \in [Ids -> Challenge] /\ PoolsWithinStakes'
  BY <1>d, <1>2, <1>3, <1>4, <1>5, <1>6 DEF TypeOK, PoolsWithinStakes, NewChallenge
<1>8. appeals' \in [Ids -> Appeal]
  BY <1>d, <1>2, <1>4, <1>5 DEF TypeOK, Appeal
<1>9. tcrBalance' \in Nat /\ balanceOf' \in [Users -> Nat]
  BY <1>d, <1>2, <1>4, TakeType
<1>10. TypeOK'
  BY <1>d, <1>4, <1>5, <1>7, <1>8, <1>9 DEF TypeOK, settings
<1>11. QED
  BY <1>7, <1>10 DEF Typed

LEMMA AppealType ==
    ASSUME Typed, NEW u \in Users, NEW l \in Listings, RequestAppeal(u, l) \/ GrantAppeal(l)
    PROVE  Typed'
<1> USE IdsArePolls, SettingsTypes, TimeType
<1>d. TypeOK /\ PoolsWithinStakes /\ ChallengeOf(l) \in Ids
  BY DEF Typed, TypeOK, Listing, ChallengeOf
<1>1. appeals' \in [Ids -> Appeal]
  <2>d. appeals \in [Ids -> Appeal]
    BY <1>d DEF TypeOK
  <2>1. CASE GrantAppeal(l)
    <3> DEFINE granted == [appeals EXCEPT ![ChallengeOf(l)].appealGranted = TRUE]
    <3>1. granted \in [Ids -> Appeal]
      BY <1>d, <2>d DEF Appeal
    <3>2. PICK expiry \in Nat : expiry = now + params.challengeAppealLen
      BY <1>d
    <3>3. appeals' = [granted EXCEPT ![ChallengeOf(l)].appealOpenToChallengeExpiry = expiry]
      BY <2>1, <3>2 DEF GrantAppeal
    <3> HIDE DEF granted
    <3>4. QED
      BY <1>d, <3>1, <3>3 DEF Appeal
  <2>2. CASE RequestAppeal(u, l)
    <3> DEFINE requested == [appeals EXCEPT ![ChallengeOf(l)].requester = u]
    <3>1. requested \in [Ids -> Appeal]
      BY <1>d, <2>d DEF Appeal
    <3>2. PICK fee \in Nat, expiry \in Nat :
              fee = government.appealFee /\ expiry = now + government.judgeAppealLen
      BY <1>d
    <3> DEFINE paid == [requested EXCEPT ![ChallengeOf(l)].appealFeePaid = fee]
    <3>3. paid \in [Ids -> Appeal]
      <4> HIDE DEF requested
      <4>1. QED
        BY <1>d, <3>1 DEF Appeal
    <3>4. appeals' = [paid EXCEPT ![ChallengeOf(l)].appealPhaseExpiry = expiry]
      BY <2>2, <3>2 DEF RequestAppeal
    <3> HIDE DEF requested, paid
    <3>5. QED
      BY <1>d, <3>3, <3>4 DEF Appeal
  <2>3. QED
    BY <2>1, <2>2
<1>2. tcrBalance' \in Nat /\ balanceOf' \in [Users -> Nat]
  <2>1. CASE GrantAppeal(l)
    BY <1>d, <2>1 DEF GrantAppeal, funds, TypeOK
  <2>2. CASE RequestAppeal(u, l)
    <3>1. PICK fee \in Nat : fee = government.appealFee
      BY <1>d
    <3>2. Take(u, fee)
      BY <2>2, <3>1 DEF RequestAppeal
    <3>3. QED
      BY <1>d, <3>2, TakeType
  <2>3. QED
    BY <2>1, <2>2
<1>3. UNCHANGED <<tallyVars, settings, listings, challenges, requestAppealExpiry>>
  BY DEF RequestAppeal, GrantAppeal
<1>4. TypeOK'
  BY <1>d, <1>1, <1>2, <1>3 DEF TypeOK, tallyVars, settings
<1>5. QED
  BY <1>d, <1>3, <1>4 DEF Typed, PoolsWithinStakes

LEMMA OpenChallengeType ==
    ASSUME Typed, NEW l \in Listings, ChallengeExists(l)
    PROVE  /\ ChallengeOf(l) \in Polls /\ challenges[ChallengeOf(l)] \in Challenge
           /\ challenges[ChallengeOf(l)].rewardPool <= challenges[ChallengeOf(l)].stake
<1>1. ChallengeOf(l) \in Ids /\ ChallengeOf(l) # 0
  BY IdsArePolls DEF Typed, TypeOK, Listing, ChallengeOf, ChallengeExists
<1>2. ChallengeOf(l) \in Polls
  BY <1>1, IdsArePolls
<1>3. challenges \in [Ids -> Challenge] /\ \A c \in Ids : challenges[c].rewardPool <= challenges[c].stake
  BY DEF Typed, TypeOK, PoolsWithinStakes
<1>4. QED
  BY <1>1, <1>2, <1>3

LEMMA UpdateStatusType ==
    ASSUME Typed, NEW l \in Listings, UpdateStatus(l)
    PROVE  Typed'
<1> USE IdsArePolls
<1>d. /\ TypeOK /\ PoolsWithinStakes /\ ChallengeOf(l) \in Ids
      /\ challenges \in [Ids -> Challenge] /\ appeals \in [Ids -> Appeal]
      /\ listings \in [Listings -> Listing]
  BY DEF Typed, TypeOK, Listing, ChallengeOf
<1> DEFINE c == ChallengeOf(l)
<1>1. CASE WhitelistApplication(l)
  <2>1. listings' \in [Listings -> Listing]
    BY <1>d, <1>1, WhitelistType DEF WhitelistApplication
  <2>2. UNCHANGED <<tallyVars, settings, disputes, funds>>
    BY <1>1 DEF WhitelistApplication
  <2>3. TypeOK'
    BY <1>d, <2>1, <2>2 DEF TypeOK, tallyVars, settings, disputes, funds
  <2>4. QED
    BY <1>d, <2>2, <2>3 DEF Typed, PoolsWithinStakes, disputes
<1>2. ASSUME ChallengeExists(l), ResolveChallenge(l)
      PROVE  Typed'
  <2>1. c \in Polls /\ challenges[c] \in Challenge /\ challenges[c].rewardPool <= challenges[c].stake
    BY <1>2, OpenChallengeType
  <2>2. PICK ch \in Challenge, chs \in [Ids -> Challenge], extra \in Nat, overturned \in BOOLEAN :
            ch = challenges[c] /\ chs = challenges /\ extra = 0 /\ overturned = FALSE
    BY <1>d, <2>1
  <2>3. Settle(l, ch, overturned, chs, Nobody, extra) /\ appeals' = appeals
    BY <1>2, <2>2 DEF ResolveChallenge
  <2>4. ch.rewardPool <= ch.stake /\ \A d \in Ids : chs[d].rewardPool <= chs[d].stake
    BY <1>d, <2>1, <2>2 DEF PoolsWithinStakes
  <2>5. QED
    BY <1>d, <2>1, <2>3, <2>4, SettleType
<1>3. ASSUME ChallengeExists(l), ResolveAppeal(l)
      PROVE  Typed'
  <2>1. c \in Polls /\ challenges[c] \in Challenge /\ challenges[c].rewardPool <= challenges[c].stake
    BY <1>3, OpenChallengeType
  <2>2. appeals' = appeals
    BY <1>3 DEF ResolveAppeal
  <2>3. AppealOf(l).appealFeePaid \in Nat
    BY <1>d DEF AppealOf, Appeal
  <2>4. PICK chs \in [Ids -> Challenge] : chs = challenges
    BY <1>d
  <2>5. \A d \in Ids : chs[d].rewardPool <= chs[d].stake
    BY <1>d, <2>4 DEF PoolsWithinStakes
  <2>6. CASE AppealOf(l).appealGranted
    <3>1. PICK ch \in Challenge, extra \in Nat, overturned \in BOOLEAN :
              /\ ch = challenges[c] /\ extra = AppealOf(l).appealFeePaid /\ overturned = TRUE
      BY <2>1, <2>3
    <3>2. PICK payee : payee = AppealOf(l).requester
      OBVIOUS
    <3>3. Settle(l, ch, overturned, chs, payee, extra)
      BY <1>3, <2>4, <2>6, <3>1, <3>2 DEF ResolveAppeal
    <3>4. QED
      BY <1>d, <2>1, <2>2, <2>5, <3>1, <3>3, SettleType
  <2>7. CASE ~AppealOf(l).appealGranted
    <3>1. PICK fee \in Nat, half \in Nat :
              /\ fee = AppealOf(l).appealFeePaid /\ half = fee \div 2
              /\ half <= fee - half /\ fee - half \in Nat
      BY <2>3, HalfType
    <3>2. PICK ch \in Challenge : /\ ch = [challenges[c] EXCEPT !.rewardPool = @ + half,
                                                             !.stake = @ + (fee - half)]
                                  /\ ch.rewardPool <= ch.stake
      <4> DEFINE shared == [challenges[c] EXCEPT !.rewardPool = @ + half]
                 split == [shared EXCEPT !.stake = @ + (fee - half)]
      <4>1. /\ shared \in Challenge /\ shared.rewardPool = challenges[c].rewardPool + half
            /\ shared.stake = challenges[c].stake
        BY <2>1 DEF Challenge
      <4>2. /\ split \in Challenge /\ split.rewardPool = shared.rewardPool
            /\ split.stake = shared.stake + (fee - half)
        <5> HIDE DEF shared
        <5>1. QED
          BY <3>1, <4>1 DEF Challenge
      <4>3. split.rewardPool <= split.stake
        <5>1. challenges[c].rewardPool \in Nat /\ challenges[c].stake \in Nat
          BY <2>1 DEF Challenge
        <5> HIDE DEF shared, split
        <5>2. QED
          BY <2>1, <3>1, <4>1, <4>2, <5>1
      <4>4. QED
        BY <4>2, <4>3
    <3>3. PICK extra \in Nat, overturned \in BOOLEAN : extra = 0 /\ overturned = FALSE
      OBVIOUS
    <3>4. Settle(l, ch, overturned, chs, Nobody, extra)
      BY <1>3, <2>4, <2>7, <3>1, <3>2, <3>3 DEF ResolveAppeal
    <3>5. QED
      BY <1>d, <2>1, <2>2, <2>5, <3>2, <3>4, SettleType
  <2>8. QED
    BY <2>6, <2>7
<1>4. ASSUME ChallengeExists(l), AppealChallengeCanBeResolved(l), ResolveAppealChallenge(l)
      PROVE  Typed'
  <2>1. c \in Polls /\ challenges[c] \in Challenge /\ challenges[c].rewardPool <= challenges[c].stake
    BY <1>4, OpenChallengeType
  <2>2. PICK ac \in Polls : ac = AppealOf(l).appealChallengeID
    BY <1>d, <1>4 DEF AppealChallengeCanBeResolved, AppealOf, Appeal
  <2>3. PICK succeeded \in BOOLEAN, overturned \in BOOLEAN, winning \in Nat :
            /\ succeeded = Passed(ac) /\ overturned = ~succeeded
            /\ winning = WinningTokens(ac)
    <3>1. Passed(ac) \in BOOLEAN
      BY DEF Passed
    <3>2. WinningTokens(ac) \in Nat
      BY <1>d, TalliesType
    <3>3. QED
      BY <3>1, <3>2
  <2>4. challenges[ac] \in Challenge /\ challenges[ac].rewardPool <= challenges[ac].stake
    BY <1>d DEF PoolsWithinStakes
  <2>5. PICK extra \in Nat : extra = Reward(challenges[ac], winning)
    BY <2>4, RewardType
  <2>6. PICK ch \in Challenge, chs \in [Ids -> Challenge] :
            /\ ch = challenges[c] /\ chs = [challenges EXCEPT ![ac] = Resolve(@, winning)]
            /\ \A d \in Ids : chs[d].rewardPool <= chs[d].stake
    <3>1. /\ Resolve(challenges[ac], winning) \in Challenge
          /\ Resolve(challenges[ac], winning).rewardPool <= Resolve(challenges[ac], winning).stake
      BY <2>4, ResolveType
    <3>2. [challenges EXCEPT ![ac] = Resolve(@, winning)] \in [Ids -> Challenge]
      BY <1>d, <3>1
    <3>3. \A d \in Ids : LET chs == [challenges EXCEPT ![ac] = Resolve(@, winning)]
                         IN  chs[d].rewardPool <= chs[d].stake
      BY <1>d, <3>1 DEF PoolsWithinStakes
    <3>4. QED
      BY <2>1, <3>2, <3>3
  <2>7. PICK payee :
            payee = IF succeeded THEN challenges[ac].challenger ELSE AppealOf(l).requester
    OBVIOUS
  <2>8. /\ Settle(l, ch, overturned, chs, payee, extra)
        /\ appeals' = [appeals EXCEPT ![c].overturned = succeeded]
    BY <1>4, <2>2, <2>3, <2>5, <2>6, <2>7, Zenon DEF ResolveAppealChallenge
  <2>9. appeals' \in [Ids -> Appeal]
    BY <1>d, <2>8 DEF Appeal
  <2>10. ch.rewardPool <= ch.stake /\ \A d \in Ids : chs[d].rewardPool <= chs[d].stake
    BY <2>1, <2>6
  <2>11. QED
    BY <1>d, <2>1, <2>8, <2>9, <2>10, SettleType
<1>5. QED
  BY <1>1, <1>2, <1>3, <1>4 DEF UpdateStatus

(* A share of a pool, and what is left of it. *)
LEMMA ClaimRewardType ==
    ASSUME Typed, NEW v \in Voters, NEW c \in Polls, ClaimReward(v, c)
    PROVE  Typed'
<1> USE IdsArePolls
<1>d. /\ TypeOK /\ PoolsWithinStakes /\ c \in Ids /\ v \in Users
      /\ challenges \in [Ids -> Challenge] /\ challenges[c] \in Challenge
  BY UsersAssumption DEF Typed, TypeOK
<1>1. PICK tokens \in Nat : tokens = votes[c][v][2]
  <2>1. votes[c][v] # NoVote
    BY DEF ClaimReward, Entitled, Losers, Winners, Revealed
  <2>2. votes[c][v] \in Options \X Nat
    BY <1>d, <2>1 DEF TypeOK
  <2>3. QED
    BY <2>2
<1>2. PICK pool \in Nat, total \in Nat :
          pool = challenges[c].rewardPool /\ total = challenges[c].totalTokens
  BY <1>d DEF Challenge
<1>3. total > 0 /\ total >= tokens
  BY <1>1, <1>2 DEF ClaimReward
<1>4. PICK reward \in Nat : reward = VoterReward(v, c)
  <2>1. tokens * pool \in Nat
    OBVIOUS
  <2>2. (tokens * pool) \div total \in Nat
    BY <1>3, <2>1, QuotientType
  <2>3. QED
    BY <1>1, <1>2, <2>2 DEF VoterReward
<1>5. /\ pool >= reward
      /\ challenges' = [challenges EXCEPT ![c].totalTokens = @ - tokens,
                                          ![c].rewardPool = @ - reward,
                                          ![c].tokenClaims = @ \cup {v}]
      /\ Pay(v, reward)
      /\ UNCHANGED <<tallyVars, settings, listings, requestAppealExpiry, appeals>>
  BY <1>1, <1>2, <1>4 DEF ClaimReward
<1>6. challenges' \in [Ids -> Challenge] /\ PoolsWithinStakes'
  <2> DEFINE less == [challenges EXCEPT ![c].totalTokens = @ - tokens]
             shared == [less EXCEPT ![c].rewardPool = @ - reward]
  <2>1. /\ less \in [Ids -> Challenge]
        /\ \A d \in Ids : /\ less[d].rewardPool = challenges[d].rewardPool
                          /\ less[d].stake = challenges[d].stake
    BY <1>d, <1>2, <1>3 DEF Challenge
  <2>2. /\ shared \in [Ids -> Challenge]
        /\ \A d \in Ids : /\ shared[d].rewardPool <= less[d].rewardPool
                          /\ shared[d].stake = less[d].stake
    <3>1. less[c].rewardPool >= reward
      BY <1>2, <1>5, <2>1
    <3> HIDE DEF less
    <3>2. QED
      BY <1>d, <2>1, <3>1 DEF Challenge
  <2>3. challenges' = [shared EXCEPT ![c].tokenClaims = @ \cup {v}]
    BY <1>5
  <2>4. \A d \in Ids : shared[d].rewardPool <= shared[d].stake
    <3>1. \A d \in Ids : challenges[d].rewardPool <= challenges[d].stake
      BY <1>d DEF PoolsWithinStakes
    <3> HIDE DEF less, shared
    <3>2. QED
      BY <1>d, <2>1, <2>2, <3>1 DEF Challenge
  <2> HIDE DEF less, shared
  <2>5. challenges' \in [Ids -> Challenge]
    BY <1>d, <2>2, <2>3 DEF Challenge
  <2>6. QED
    BY <1>d, <2>2, <2>3, <2>4, <2>5 DEF Challenge, PoolsWithinStakes
<1>7. tcrBalance' \in Nat /\ balanceOf' \in [Users -> Nat]
  BY <1>d, <1>5, PayType
<1>8. TypeOK'
  BY <1>d, <1>5, <1>6, <1>7 DEF TypeOK, tallyVars, settings
<1>9. QED
  BY <1>6, <1>8 DEF Typed

LEMMA TypedNext == Typed /\ [Next]_vars => Typed'
<1> SUFFICES ASSUME Typed, [Next]_vars PROVE Typed'
  OBVIOUS
<1> USE IdsArePolls
<1>d. TypeOK /\ PoolsWithinStakes
  BY DEF Typed
<1>1. CASE Tick
  <2>1. now' \in 1 .. MaxTime
    BY <1>d, <1>1, MaxTimeAssumption DEF Tick, Pass, TypeOK
  <2>2. UNCHANGED <<pollNonce, poll, votes, settings, listings, disputes, funds>>
    BY <1>1 DEF Tick, Pass
  <2>3. TypeOK'
    BY <1>d, <2>1, <2>2 DEF TypeOK, settings, disputes, funds
  <2>4. QED
    BY <1>d, <2>2, <2>3 DEF Typed, PoolsWithinStakes, disputes
<1>2. ASSUME NEW ps \in ParamSets, Reparameterize(ps) PROVE Typed'
  <2>1. TypeOK'
    BY <1>d, <1>2 DEF Reparameterize, TypeOK, tallyVars, disputes, funds
  <2>2. QED
    BY <1>d, <1>2, <2>1 DEF Reparameterize, Typed, PoolsWithinStakes, disputes
<1>3. ASSUME NEW g \in Governments, TransferGovernment(g) PROVE Typed'
  <2>1. TypeOK'
    BY <1>d, <1>3 DEF TransferGovernment, TypeOK, tallyVars, disputes, funds
  <2>2. QED
    BY <1>d, <1>3, <2>1 DEF TransferGovernment, Typed, PoolsWithinStakes, disputes
<1>4. ASSUME NEW v \in Voters, NEW c \in Polls, NEW option \in Options, Vote(v, c, option)
      PROVE  Typed'
  <2>1. TokensVoted[v] \in Nat
    BY VotesAssumption
  <2>2. votes' = [votes EXCEPT ![c][v] = <<option, TokensVoted[v]>>]
    BY <1>4 DEF Vote, Reveal
  <2>3. votes' \in [Polls -> [Voters -> {NoVote} \cup (Options \X Nat)]]
    BY <1>d, <2>1, <2>2 DEF TypeOK
  <2>4. UNCHANGED <<now, pollNonce, poll, settings, listings, disputes, funds>>
    BY <1>4 DEF Vote, Reveal
  <2>5. TypeOK'
    BY <1>d, <2>3, <2>4 DEF TypeOK, settings, disputes, funds
  <2>6. QED
    BY <1>d, <2>4, <2>5 DEF Typed, PoolsWithinStakes, disputes
<1>5. ASSUME NEW v \in Voters, NEW c \in Polls, ClaimReward(v, c) PROVE Typed'
  BY <1>5, ClaimRewardType
<1>6. ASSUME NEW l \in Listings, UpdateStatus(l) PROVE Typed'
  BY <1>6, UpdateStatusType
<1>7. ASSUME NEW l \in Listings, GrantAppeal(l) PROVE Typed'
  BY <1>7, AppealType, OwnerAssumption
<1>8. ASSUME NEW l \in Listings, NEW u \in Users, NEW n \in Amounts,
             Apply(u, l, n) \/ Deposit(u, l, n) \/ Withdraw(u, l, n)
      PROVE  Typed'
  BY <1>8, PublisherType
<1>9. ASSUME NEW l \in Listings, NEW u \in Users, Exit(u, l) PROVE Typed'
  BY <1>9, RemovalType DEF Exit
<1>10. ASSUME NEW l \in Listings, NEW u \in Users, ChallengeListing(u, l) PROVE Typed'
  <2>1. CASE TouchAndRemove(l)
    BY <2>1, RemovalType DEF TouchAndRemove
  <2>2. CASE StartChallenge(u, l)
    BY <2>2, StartChallengeType
  <2>3. QED
    BY <1>10, <2>1, <2>2 DEF ChallengeListing
<1>11. ASSUME NEW l \in Listings, NEW u \in Users, RequestAppeal(u, l) PROVE Typed'
  BY <1>11, AppealType
<1>12. ASSUME NEW l \in Listings, NEW u \in Users, ChallengeGrantedAppeal(u, l) PROVE Typed'
  BY <1>12, ChallengeGrantedAppealType
<1>13. CASE UNCHANGED vars
  BY <1>d, <1>13 DEF vars, tallyVars, settings, disputes, funds, Typed, TypeOK, PoolsWithinStakes
<1>14. QED
  BY <1>1, <1>2, <1>3, <1>4, <1>5, <1>6, <1>7, <1>8, <1>9, <1>10, <1>11, <1>12, <1>13 DEF Next

LEMMA AlwaysTyped == Spec => []Typed
  BY TypedInit, TypedNext, PTL DEF Spec

(* The registry's records keep their types: no sequence of operations makes a *)
(* deposit, a stake, a pool or a balance negative, whatever the parameters    *)
(* and the government are changed to while disputes are open.                 *)
THEOREM RegistryTypeCorrect == Spec => []TypeOK
<1>1. Typed => TypeOK
  BY DEF Typed
<1>2. QED
  BY <1>1, AlwaysTyped, PTL

------------------------------------------------------------------------------------
(* How disputes hang together.  None of the properties below is inductive by *)
(* itself; what makes them so is that ids are used once and in order, that a *)
(* listing drops its challenge exactly when the challenge is resolved, and   *)
(* that an appeal goes through its stages in order.                          *)

Present(l) == AppWasMade(l) \/ listings[l].whitelisted

(* Ids are handed out in order; what belongs to an id not yet given is blank. *)
FreshIdsBlank ==
    /\ \A c \in Ids : c = 0 \/ c > pollNonce =>
          challenges[c].challenger = Nobody /\ ~challenges[c].resolved /\ appeals[c] = NoAppeal
    /\ \A l \in Listings : ChallengeOf(l) <= pollNonce
    /\ \A c \in Ids : appeals[c].appealChallengeID <= pollNonce

(* An appeal is requested, then granted, then challenged. *)
AppealsInOrder ==
    \A c \in Ids :
        /\ (appeals[c].requester = Nobody <=> appeals[c].appealPhaseExpiry = 0)
        /\ (appeals[c].appealGranted => appeals[c].requester # Nobody)
        /\ (appeals[c].appealChallengeID # 0 => appeals[c].appealGranted)

(* The challenge a listing points to is open, is its own, and is not the      *)
(* challenge of an appeal; the listing is there.                              *)
DisputesApart ==
    /\ \A l \in Listings : ChallengeOf(l) # 0 =>
          Present(l) /\ ~challenges[ChallengeOf(l)].resolved
    /\ \A l, m \in Listings : l # m /\ ChallengeOf(l) # 0 => ChallengeOf(l) # ChallengeOf(m)
    /\ \A c \in Ids : \A l \in Listings : appeals[c].appealChallengeID # 0 =>
          appeals[c].appealChallengeID # ChallengeOf(l)

OpenReachable ==
    \A c \in Polls : challenges[c].challenger # Nobody /\ ~challenges[c].resolved =>
        \E l \in Listings : ChallengeOf(l) = c \/ AppealOf(l).appealChallengeID = c

ResolvedEnded == \A c \in Polls : challenges[c].resolved => Ended(c)

Structure ==
    FreshIdsBlank /\ AppealsInOrder /\ DisputesApart /\ OpenReachable /\ ResolvedEnded

LEMMA ListingTypes ==
    ASSUME TypeOK
    PROVE  /\ \A l \in Listings : ChallengeOf(l) \in Ids
           /\ appeals \in [Ids -> Appeal] /\ challenges \in [Ids -> Challenge]
           /\ \A c \in Ids : appeals[c].appealChallengeID \in Ids
           /\ pollNonce \in Nat
  BY IdsArePolls DEF TypeOK, Listing, ChallengeOf, Appeal

LEMMA StructureInit == Init => Structure
<1> SUFFICES ASSUME Init PROVE Structure
  OBVIOUS
<1> USE IdsArePolls
<1>1. /\ \A l \in Listings : ChallengeOf(l) = 0
      /\ \A c \in Ids : /\ challenges[c] = NewChallenge(Nobody, 0, 0)
                        /\ appeals[c] = NoAppeal
      /\ pollNonce = 0
  BY DEF Init, TallyInit, ChallengeOf, NoListing
<1>2. \A c \in Ids : /\ challenges[c].challenger = Nobody /\ ~challenges[c].resolved
                     /\ appeals[c].requester = Nobody /\ appeals[c].appealPhaseExpiry = 0
                     /\ ~appeals[c].appealGranted /\ appeals[c].appealChallengeID = 0
  BY <1>1 DEF NewChallenge, NoAppeal
<1>3. FreshIdsBlank
  BY <1>1, <1>2 DEF FreshIdsBlank
<1>4. AppealsInOrder
  BY <1>2 DEF AppealsInOrder
<1>5. DisputesApart /\ OpenReachable /\ ResolvedEnded
  BY <1>1, <1>2 DEF DisputesApart, OpenReachable, ResolvedEnded
<1>6. QED
  BY <1>2, <1>3, <1>4, <1>5 DEF Structure

(* Under the invariant a listing is challenged exactly when it has an id. *)
LEMMA ChallengedOrNot ==
    ASSUME TypeOK, Structure, NEW l \in Listings
    PROVE  /\ (Unchallenged(l) <=> ChallengeOf(l) = 0)
           /\ (ChallengeExists(l) <=> ChallengeOf(l) # 0)
<1>1. ChallengeOf(l) \in Nat
  BY ListingTypes, IdsArePolls
<1>2. ChallengeOf(l) # 0 => ~challenges[ChallengeOf(l)].resolved
  BY DEF Structure, DisputesApart
<1>3. QED
  BY <1>1, <1>2 DEF Unchallenged, ChallengeExists

(* A poll that ended stays ended, with the same dates and votes. *)
LEMMA EndedStays ==
    ASSUME TypeOK, [Next]_vars, NEW c \in Polls, Ended(c)
    PROVE  Ended(c)' /\ poll'[c] = poll[c] /\ votes'[c] = votes[c]
<1> USE IdsArePolls
<1>d. /\ c \in 1 .. pollNonce /\ now > poll[c].revealEnd /\ pollNonce \in Nat /\ now \in Nat
      /\ poll \in [Polls -> [quorum : Nat, commitEnd : Nat, revealEnd : Nat]]
      /\ votes \in [Polls -> [Voters -> {NoVote} \cup (Options \X Nat)]]
  BY ListingTypes, TimeType DEF Ended, Exists, TypeOK
<1>e. poll[c].revealEnd \in Nat
  BY <1>d
<1>1. CASE UNCHANGED tallyVars
  BY <1>d, <1>1 DEF tallyVars, Ended, Exists
<1>2. CASE Pass
  BY <1>d, <1>e, <1>2 DEF Pass, Ended, Exists
<1>3. ASSUME NEW v \in Voters, NEW p \in Polls, NEW option \in Options, NEW n,
             Reveal(v, p, option, n)
      PROVE  Ended(c)' /\ poll'[c] = poll[c] /\ votes'[c] = votes[c]
  <2>1. p # c
    BY <1>d, <1>e, <1>3 DEF Reveal, Revealing
  <2>2. QED
    BY <1>d, <1>3, <2>1 DEF Reveal, Ended, Exists
<1>4. ASSUME NEW quorum, NEW commitEnd, NEW revealEnd, StartPoll(quorum, commitEnd, revealEnd)
      PROVE  Ended(c)' /\ poll'[c] = poll[c] /\ votes'[c] = votes[c]
  <2>1. pollNonce + 1 # c /\ poll'[c] = poll[c] /\ c \in 1 .. pollNonce'
    BY <1>d, <1>4 DEF StartPoll
  <2>2. QED
    BY <1>d, <1>4, <2>1 DEF StartPoll, Ended, Exists
<1>5. CASE Next
  <2>1. CASE Tick
    BY <1>2, <2>1 DEF Tick
  <2>2. ASSUME NEW v \in Voters, NEW p \in Polls, NEW option \in Options, Vote(v, p, option)
        PROVE  Ended(c)' /\ poll'[c] = poll[c] /\ votes'[c] = votes[c]
    BY <1>3, <2>2 DEF Vote
  <2>3. ASSUME NEW u \in Users, NEW l \in Listings, StartChallenge(u, l)
        PROVE  Ended(c)' /\ poll'[c] = poll[c] /\ votes'[c] = votes[c]
    BY <1>4, <2>3 DEF StartChallenge
  <2>4. ASSUME NEW u \in Users, NEW l \in Listings, ChallengeGrantedAppeal(u, l)
        PROVE  Ended(c)' /\ poll'[c] = poll[c] /\ votes'[c] = votes[c]
    BY <1>4, <2>4 DEF ChallengeGrantedAppeal
  <2>5. ASSUME NEW l \in Listings, UpdateStatus(l) PROVE UNCHANGED tallyVars
    BY <2>5 DEF UpdateStatus, WhitelistApplication, ResolveChallenge, ResolveAppeal,
        ResolveAppealChallenge, Settle
  <2>6. ASSUME NEW l \in Listings, NEW u \in Users, ChallengeListing(u, l)
        PROVE  UNCHANGED tallyVars \/ StartChallenge(u, l)
    BY <2>6 DEF ChallengeListing, TouchAndRemove
  <2>7. ASSUME NEW l \in Listings, NEW u \in Users, NEW n \in Amounts,
               Apply(u, l, n) \/ Deposit(u, l, n) \/ Withdraw(u, l, n)
        PROVE  UNCHANGED tallyVars
    BY <2>7 DEF Apply, Deposit, Withdraw
  <2>8. ASSUME NEW l \in Listings, NEW u \in Users,
               Exit(u, l) \/ RequestAppeal(u, l)
        PROVE  UNCHANGED tallyVars
    BY <2>8 DEF Exit, RequestAppeal
  <2>9. ASSUME NEW v \in Voters, NEW p \in Polls, ClaimReward(v, p) PROVE UNCHANGED tallyVars
    BY <2>9 DEF ClaimReward
  <2>10. ASSUME NEW x, Reparameterize(x) \/ TransferGovernment(x) PROVE UNCHANGED tallyVars
    BY <2>10 DEF Reparameterize, TransferGovernment
  <2>11. ASSUME NEW l \in Listings, GrantAppeal(l) PROVE UNCHANGED tallyVars
    BY <2>11 DEF GrantAppeal
  <2>12. QED
    BY <1>1, <1>5, <2>1, <2>2, <2>3, <2>4, <2>5, <2>6, <2>7, <2>8, <2>9, <2>10, <2>11, Zenon
    DEF Next
<1>6. QED
  BY <1>1, <1>5 DEF vars

(* The steps that leave the disputes as they are, whatever else they change. *)
SameDisputes ==
    /\ pollNonce' = pollNonce /\ appeals' = appeals
    /\ \A l \in Listings : /\ ChallengeOf(l)' = ChallengeOf(l)
                           /\ (ChallengeOf(l) # 0 /\ Present(l) => Present(l)')
    /\ \A c \in Ids : /\ challenges'[c].challenger = challenges[c].challenger
                      /\ (challenges'[c].resolved = challenges[c].resolved)

EndedStay == \A c \in Polls : Ended(c) => Ended(c)'

LEMMA SameDisputesKeep ==
    ASSUME TypeOK, Structure, SameDisputes, EndedStay
    PROVE  Structure'
<1> USE IdsArePolls, ListingTypes
<1>1. FreshIdsBlank'
  BY DEF Structure, FreshIdsBlank, SameDisputes
<1>2. AppealsInOrder'
  BY DEF Structure, AppealsInOrder, SameDisputes
<1>3. DisputesApart'
  <2>1. \A l \in Listings : ChallengeOf(l)' # 0 =>
            Present(l)' /\ ~challenges'[ChallengeOf(l)'].resolved
    BY DEF Structure, DisputesApart, SameDisputes
  <2>2. \A l, m \in Listings : l # m /\ ChallengeOf(l)' # 0 => ChallengeOf(l)' # ChallengeOf(m)'
    BY DEF Structure, DisputesApart, SameDisputes
  <2>3. \A c \in Ids : \A l \in Listings : appeals'[c].appealChallengeID # 0 =>
            appeals'[c].appealChallengeID # ChallengeOf(l)'
    BY DEF Structure, DisputesApart, SameDisputes
  <2>4. QED
    BY <2>1, <2>2, <2>3 DEF DisputesApart
<1>4. OpenReachable'
  BY DEF Structure, OpenReachable, SameDisputes, AppealOf
<1>5. ResolvedEnded'
  BY DEF Structure, ResolvedEnded, SameDisputes, EndedStay
<1>6. QED
  BY <1>1, <1>2, <1>3, <1>4, <1>5 DEF Structure

(* Publishers, voters and time leave the disputes alone: no operation that   *)
(* removes or lists a listing is open while it is challenged.                *)
LEMMA PublisherKeeps ==
    ASSUME TypeOK, Structure, NEW u \in Users, NEW l \in Listings, NEW n \in Amounts,
           Apply(u, l, n) \/ Deposit(u, l, n) \/ Withdraw(u, l, n)
    PROVE  SameDisputes
<1> USE IdsArePolls, SettingsTypes, TimeType
<1>d. listings \in [Listings -> Listing]
  BY DEF TypeOK
<1>1. UNCHANGED <<pollNonce, appeals, challenges>>
  BY DEF Apply, Deposit, Withdraw, tallyVars, disputes
<1>2. \A m \in Listings : /\ listings'[m].challengeID = listings[m].challengeID
                          /\ listings'[m].whitelisted = listings[m].whitelisted
                          /\ (listings[m].applicationExpiry > 0
                                => listings'[m].applicationExpiry > 0)
  BY <1>d DEF Apply, Deposit, Withdraw, Listing, AppWasMade
<1>3. \A m \in Listings : Present(m) => Present(m)'
  BY <1>2 DEF Present, AppWasMade
<1>4. QED
  BY <1>1, <1>2, <1>3 DEF SameDisputes, ChallengeOf

LEMMA RemovalKeeps ==
    ASSUME TypeOK, Structure, NEW l \in Listings, Unchallenged(l), ResetListing(l),
           UNCHANGED <<tallyVars, settings, disputes>>
    PROVE  SameDisputes
<1>1. ChallengeOf(l) = 0 /\ listings \in [Listings -> Listing]
  BY ChallengedOrNot DEF TypeOK
<1>2. listings' = [listings EXCEPT ![l] = NoListing] /\ NoListing.challengeID = 0
  BY DEF ResetListing, NoListing
<1>3. \A m \in Listings : /\ ChallengeOf(m)' = ChallengeOf(m)
                          /\ (ChallengeOf(m) # 0 => listings'[m] = listings[m])
  BY <1>1, <1>2 DEF ChallengeOf
<1>4. \A m \in Listings : ChallengeOf(m) # 0 /\ Present(m) => Present(m)'
  BY <1>3 DEF Present, AppWasMade
<1>5. QED
  BY <1>3, <1>4 DEF SameDisputes, tallyVars, disputes

LEMMA ListingKeeps ==
    ASSUME TypeOK, Structure, NEW l \in Listings, CanBeWhitelisted(l), WhitelistApplication(l)
    PROVE  SameDisputes
<1>1. ChallengeOf(l) = 0 /\ listings \in [Listings -> Listing]
  BY ChallengedOrNot DEF TypeOK, CanBeWhitelisted
<1>2. \A m \in Listings : /\ ChallengeOf(m)' = ChallengeOf(m)
                          /\ (ChallengeOf(m) # 0 => listings'[m] = listings[m])
  BY <1>1 DEF WhitelistApplication, Whitelist, ChallengeOf, Listing
<1>3. \A m \in Listings : ChallengeOf(m) # 0 /\ Present(m) => Present(m)'
  BY <1>2 DEF Present, AppWasMade
<1>4. QED
  BY <1>2, <1>3 DEF SameDisputes, tallyVars, disputes, WhitelistApplication

LEMMA ClaimKeeps ==
    ASSUME TypeOK, NEW v \in Voters, NEW c \in Polls, ClaimReward(v, c)
    PROVE  SameDisputes
<1>1. UNCHANGED <<pollNonce, appeals, listings>>
  BY DEF ClaimReward, tallyVars
<1>2. PICK total, pool :
          challenges' = [challenges EXCEPT ![c].totalTokens = total, ![c].rewardPool = pool,
                                           ![c].tokenClaims = @ \cup {v}]
  BY DEF ClaimReward
<1>3. \A d \in Ids : /\ challenges'[d].challenger = challenges[d].challenger
                    /\ (challenges'[d].resolved = challenges[d].resolved)
  BY <1>2, ListingTypes DEF Challenge
<1>4. QED
  BY <1>1, <1>3 DEF SameDisputes, ChallengeOf, Present, AppWasMade

(* A new challenge has an id of its own. *)
LEMMA StartChallengeKeeps ==
    ASSUME TypeOK, Structure, EndedStay, NEW u \in Users, NEW l \in Listings,
           AppWasMade(l) \/ listings[l].whitelisted, Unchallenged(l), StartChallenge(u, l)
    PROVE  Structure'
<1> USE IdsArePolls, ListingTypes
<1>1. PICK id, stake, pool : /\ id = pollNonce + 1 /\ stake = params.minDeposit
                             /\ pool = PoolOf(stake, params.dispensationPct)
  OBVIOUS
<1>2. /\ id \in Polls /\ pollNonce' = id /\ appeals' = appeals
      /\ challenges' = [challenges EXCEPT ![id] = NewChallenge(u, stake, pool)]
      /\ listings' = [listings EXCEPT ![l].challengeID = id, ![l].unstakedDeposit = @ - stake]
  BY <1>1 DEF StartChallenge, StartPoll
<1>3. ChallengeOf(l) = 0
  BY ChallengedOrNot
<1>4. /\ ChallengeOf(l)' = id
      /\ \A m \in Listings : /\ (m # l => ChallengeOf(m)' = ChallengeOf(m))
                             /\ (Present(m) => Present(m)')
  BY <1>2 DEF ChallengeOf, Present, AppWasMade, TypeOK, Listing
<1>5. /\ challenges'[id].challenger = u /\ ~challenges'[id].resolved
      /\ \A d \in Ids : d # id => challenges'[d] = challenges[d]
  BY <1>2 DEF NewChallenge
<1>6. /\ \A d \in Ids : d = 0 \/ d > pollNonce =>
            challenges[d].challenger = Nobody /\ ~challenges[d].resolved /\ appeals[d] = NoAppeal
      /\ \A m \in Listings : ChallengeOf(m) <= pollNonce
      /\ \A d \in Ids : appeals[d].appealChallengeID <= pollNonce
  BY DEF Structure, FreshIdsBlank
<1>7. FreshIdsBlank'
  <2>1. \A d \in Ids : d = 0 \/ d > id =>
            challenges'[d].challenger = Nobody /\ ~challenges'[d].resolved /\ appeals'[d] = NoAppeal
    BY <1>1, <1>2, <1>5, <1>6
  <2>2. \A m \in Listings : ChallengeOf(m)' <= id
    BY <1>1, <1>2, <1>4, <1>6
  <2>3. \A d \in Ids : appeals'[d].appealChallengeID <= id
    BY <1>1, <1>2, <1>6
  <2>4. QED
    BY <1>2, <2>1, <2>2, <2>3 DEF FreshIdsBlank
<1>8. AppealsInOrder'
  BY <1>2 DEF Structure, AppealsInOrder
<1>9. DisputesApart'
  <2>1. \A m \in Listings : ChallengeOf(m)' # 0 =>
            Present(m)' /\ ~challenges'[ChallengeOf(m)'].resolved
    <3>1. Present(l)'
      BY <1>4 DEF Present
    <3>2. \A m \in Listings : m # l /\ ChallengeOf(m) # 0 =>
              Present(m) /\ ~challenges[ChallengeOf(m)].resolved /\ ChallengeOf(m) # id
      BY <1>1, <1>6 DEF Structure, DisputesApart
    <3>3. QED
      BY <1>4, <1>5, <3>1, <3>2
  <2>2. \A m, k \in Listings : m # k /\ ChallengeOf(m)' # 0 => ChallengeOf(m)' # ChallengeOf(k)'
    <3>1. \A m \in Listings : ChallengeOf(m) # id
      BY <1>1, <1>6
    <3>2. QED
      BY <1>4, <3>1 DEF Structure, DisputesApart
  <2>3. \A d \in Ids : \A m \in Listings : appeals'[d].appealChallengeID # 0 =>
            appeals'[d].appealChallengeID # ChallengeOf(m)'
    <3>1. \A d \in Ids : appeals[d].appealChallengeID # id
      BY <1>1, <1>6
    <3>2. QED
      BY <1>2, <1>4, <3>1 DEF Structure, DisputesApart
  <2>4. QED
    BY <2>1, <2>2, <2>3 DEF DisputesApart
<1>10. OpenReachable'
  <2>1. SUFFICES ASSUME NEW d \in Polls, challenges'[d].challenger # Nobody,
                        ~challenges'[d].resolved
                 PROVE  \E m \in Listings : ChallengeOf(m)' = d
                                            \/ appeals'[ChallengeOf(m)'].appealChallengeID = d
    BY DEF OpenReachable, AppealOf
  <2>2. CASE d = id
    BY <1>4, <2>2
  <2>3. CASE d # id
    <3>1. PICK m \in Listings : ChallengeOf(m) = d \/ AppealOf(m).appealChallengeID = d
      BY <1>5, <2>1, <2>3 DEF Structure, OpenReachable
    <3>2. m # l
      BY <1>3, <1>6, <3>1 DEF AppealOf, NoAppeal
    <3>3. QED
      BY <1>2, <1>4, <3>1, <3>2 DEF AppealOf
  <2>4. QED
    BY <2>2, <2>3
<1>11. ResolvedEnded'
  BY <1>5 DEF Structure, ResolvedEnded, EndedStay
<1>12. QED
  BY <1>7, <1>8, <1>9, <1>10, <1>11 DEF Structure

(* A challenged listing's own appeal. *)
LEMMA RequestAppealKeeps ==
    ASSUME TypeOK, Structure, EndedStay, NEW u \in Users, NEW l \in Listings,
           RequestAppeal(u, l) \/ GrantAppeal(l)
    PROVE  Structure'
<1> USE IdsArePolls, ListingTypes
<1> DEFINE c == ChallengeOf(l)
<1>1. UNCHANGED <<pollNonce, listings, challenges>>
  BY DEF RequestAppeal, GrantAppeal, tallyVars
<1>2. c # 0 /\ c <= pollNonce
  <2>1. appeals[0].appealPhaseExpiry = 0 /\ c <= pollNonce
    BY DEF Structure, FreshIdsBlank, NoAppeal
  <2>2. now > 0 /\ now \in Nat
    BY TimeType
  <2>3. CASE RequestAppeal(u, l)
    BY <2>1, <2>3 DEF RequestAppeal, Ended, Exists
  <2>4. CASE GrantAppeal(l)
    BY <2>1, <2>2, <2>4 DEF GrantAppeal
  <2>5. QED
    BY <2>1, <2>3, <2>4
<1>3. \A d \in Ids : /\ appeals'[d].appealChallengeID = appeals[d].appealChallengeID
                    /\ (d # c => appeals'[d] = appeals[d])
  BY DEF RequestAppeal, GrantAppeal, Appeal
<1>4. FreshIdsBlank'
  BY <1>1, <1>2, <1>3 DEF Structure, FreshIdsBlank, ChallengeOf
<1>5. AppealsInOrder'
  <2>1. /\ (appeals'[c].requester = Nobody <=> appeals'[c].appealPhaseExpiry = 0)
        /\ (appeals'[c].appealGranted => appeals'[c].requester # Nobody)
        /\ (appeals'[c].appealChallengeID # 0 => appeals'[c].appealGranted)
    <3>1. /\ (appeals[c].requester = Nobody <=> appeals[c].appealPhaseExpiry = 0)
          /\ (appeals[c].appealGranted => appeals[c].requester # Nobody)
          /\ (appeals[c].appealChallengeID # 0 => appeals[c].appealGranted)
      BY DEF Structure, AppealsInOrder
    <3>2. now > 0 /\ now \in Nat /\ government.judgeAppealLen \in Nat
      BY TimeType, SettingsTypes
    <3>3. CASE RequestAppeal(u, l)
      <4>1. /\ appeals'[c].requester = u
            /\ appeals'[c].appealPhaseExpiry = now + government.judgeAppealLen
            /\ (appeals'[c].appealGranted <=> appeals[c].appealGranted)
        BY <3>3 DEF RequestAppeal, Appeal
      <4>2. u # Nobody /\ appeals[c].requester = Nobody
        BY <3>3, UsersAssumption DEF RequestAppeal
      <4>3. appeals'[c].appealPhaseExpiry # 0
        BY <3>2, <4>1
      <4>4. QED
        BY <1>3, <3>1, <4>1, <4>2, <4>3
    <3>4. CASE GrantAppeal(l)
      <4>1. /\ appeals'[c].requester = appeals[c].requester
            /\ appeals'[c].appealPhaseExpiry = appeals[c].appealPhaseExpiry
            /\ appeals'[c].appealGranted = TRUE
        BY <3>4 DEF GrantAppeal, Appeal
      <4>2. appeals[c].appealPhaseExpiry # 0
        BY <3>2, <3>4 DEF GrantAppeal
      <4>3. QED
        BY <1>3, <3>1, <4>1, <4>2
    <3>5. QED
      BY <3>3, <3>4
  <2>2. QED
    BY <1>3, <2>1 DEF Structure, AppealsInOrder
<1>6. DisputesApart'
  <2>1. \A m \in Listings : ChallengeOf(m)' = ChallengeOf(m) /\ (Present(m) => Present(m)')
    BY <1>1 DEF ChallengeOf, Present, AppWasMade
  <2>2. \A m \in Listings : ChallengeOf(m)' # 0 =>
            Present(m)' /\ ~challenges'[ChallengeOf(m)'].resolved
    BY <1>1, <2>1 DEF Structure, DisputesApart
  <2>3. \A m, k \in Listings : m # k /\ ChallengeOf(m)' # 0 => ChallengeOf(m)' # ChallengeOf(k)'
    BY <2>1 DEF Structure, DisputesApart
  <2>4. \A d \in Ids : \A m \in Listings : appeals'[d].appealChallengeID # 0 =>
            appeals'[d].appealChallengeID # ChallengeOf(m)'
    BY <1>3, <2>1 DEF Structure, DisputesApart
  <2>5. QED
    BY <2>2, <2>3, <2>4 DEF DisputesApart
<1>7. OpenReachable'
  <2>1. SUFFICES ASSUME NEW d \in Polls, challenges'[d].challenger # Nobody,
                        ~challenges'[d].resolved
                 PROVE  \E m \in Listings : ChallengeOf(m)' = d
                                            \/ appeals'[ChallengeOf(m)'].appealChallengeID = d
    BY DEF OpenReachable, AppealOf
  <2>2. PICK m \in Listings : ChallengeOf(m) = d \/ appeals[ChallengeOf(m)].appealChallengeID = d
    BY <1>1, <2>1 DEF Structure, OpenReachable, AppealOf
  <2>3. ChallengeOf(m)' = ChallengeOf(m) /\ ChallengeOf(m) \in Ids
    BY <1>1 DEF ChallengeOf
  <2>4. QED
    BY <1>3, <2>2, <2>3
<1>8. ResolvedEnded'
  BY <1>1 DEF Structure, ResolvedEnded, EndedStay
<1>9. QED
  BY <1>4, <1>5, <1>6, <1>7, <1>8 DEF Structure

(* The challenge of a granted appeal is reached through the appeal. *)
LEMMA ChallengeGrantedAppealKeeps ==
    ASSUME TypeOK, Structure, EndedStay, NEW u \in Users, NEW l \in Listings,
           ChallengeGrantedAppeal(u, l)
    PROVE  Structure'
<1> USE IdsArePolls, ListingTypes
<1>1. PICK c, id, fee, pool :
          /\ c = ChallengeOf(l) /\ id = pollNonce + 1 /\ fee = appeals[c].appealFeePaid
          /\ pool = PoolOf(fee, government.appealChallengeVoteDispensationPct)
  OBVIOUS
<1>2. /\ id \in Polls /\ pollNonce' = id /\ listings' = listings
      /\ challenges' = [challenges EXCEPT ![id] = NewChallenge(u, fee, pool)]
      /\ appeals' = [appeals EXCEPT ![c].appealChallengeID = id]
      /\ appeals[c].appealGranted /\ appeals[c].appealChallengeID = 0
  BY <1>1 DEF ChallengeGrantedAppeal, StartPoll
<1>3. /\ \A d \in Ids : d = 0 \/ d > pollNonce =>
            challenges[d].challenger = Nobody /\ ~challenges[d].resolved /\ appeals[d] = NoAppeal
      /\ \A m \in Listings : ChallengeOf(m) <= pollNonce
      /\ \A d \in Ids : appeals[d].appealChallengeID <= pollNonce
  BY DEF Structure, FreshIdsBlank
<1>4. c \in Ids /\ c # 0 /\ c <= pollNonce
  BY <1>1, <1>2, <1>3 DEF NoAppeal
<1>5. /\ challenges'[id].challenger = u /\ ~challenges'[id].resolved
      /\ \A d \in Ids : d # id => challenges'[d] = challenges[d]
  BY <1>2 DEF NewChallenge
<1>6. /\ appeals'[c].appealChallengeID = id
      /\ appeals'[c].requester = appeals[c].requester
      /\ appeals'[c].appealPhaseExpiry = appeals[c].appealPhaseExpiry
      /\ (appeals'[c].appealGranted <=> appeals[c].appealGranted)
      /\ \A d \in Ids : d # c => appeals'[d] = appeals[d]
  BY <1>2, <1>4 DEF Appeal
<1>7. \A m \in Listings : ChallengeOf(m)' = ChallengeOf(m) /\ (Present(m) => Present(m)')
  BY <1>2 DEF ChallengeOf, Present, AppWasMade
<1>8. FreshIdsBlank'
  <2>1. \A d \in Ids : d = 0 \/ d > id =>
            challenges'[d].challenger = Nobody /\ ~challenges'[d].resolved /\ appeals'[d] = NoAppeal
    BY <1>1, <1>2, <1>3, <1>4, <1>5, <1>6
  <2>2. \A m \in Listings : ChallengeOf(m)' <= id
    <3>1. \A m \in Listings : ChallengeOf(m) \in Nat /\ ChallengeOf(m) <= pollNonce
      BY <1>3
    <3>2. pollNonce \in Nat
      OBVIOUS
    <3>3. QED
      BY <1>1, <1>7, <3>1, <3>2
  <2>3. \A d \in Ids : appeals'[d].appealChallengeID <= id
    BY <1>1, <1>2, <1>3, <1>6
  <2>4. QED
    BY <1>2, <2>1, <2>2, <2>3 DEF FreshIdsBlank
<1>9. AppealsInOrder'
  BY <1>2, <1>4, <1>6 DEF Structure, AppealsInOrder
<1>10. DisputesApart'
  <2>1. \A m \in Listings : ChallengeOf(m) # id
    BY <1>1, <1>3
  <2>2. \A m \in Listings : ChallengeOf(m)' # 0 =>
            Present(m)' /\ ~challenges'[ChallengeOf(m)'].resolved
    BY <1>5, <1>7, <2>1 DEF Structure, DisputesApart
  <2>3. \A m, k \in Listings : m # k /\ ChallengeOf(m)' # 0 => ChallengeOf(m)' # ChallengeOf(k)'
    BY <1>7 DEF Structure, DisputesApart
  <2>4. \A d \in Ids : \A m \in Listings : appeals'[d].appealChallengeID # 0 =>
            appeals'[d].appealChallengeID # ChallengeOf(m)'
    BY <1>6, <1>7, <2>1 DEF Structure, DisputesApart
  <2>5. QED
    BY <2>2, <2>3, <2>4 DEF DisputesApart
<1>11. OpenReachable'
  <2>1. SUFFICES ASSUME NEW d \in Polls, challenges'[d].challenger # Nobody,
                        ~challenges'[d].resolved
                 PROVE  \E m \in Listings : ChallengeOf(m)' = d
                                            \/ appeals'[ChallengeOf(m)'].appealChallengeID = d
    BY DEF OpenReachable, AppealOf
  <2>2. CASE d = id
    BY <1>1, <1>6, <1>7, <2>2
  <2>3. CASE d # id
    <3>1. PICK m \in Listings : ChallengeOf(m) = d \/ appeals[ChallengeOf(m)].appealChallengeID = d
      BY <1>5, <2>1, <2>3 DEF Structure, OpenReachable, AppealOf
    <3>2. CASE ChallengeOf(m) = d
      BY <1>7, <3>2
    <3>3. CASE ChallengeOf(m) # d
      <4>1. appeals[ChallengeOf(m)].appealChallengeID = d /\ d # 0
        BY <3>1, <3>3
      <4>2. ChallengeOf(m) # c
        BY <1>2, <4>1
      <4>3. QED
        BY <1>6, <1>7, <4>1, <4>2
    <3>4. QED
      BY <3>2, <3>3
  <2>4. QED
    BY <2>2, <2>3
<1>12. ResolvedEnded'
  BY <1>5 DEF Structure, ResolvedEnded, EndedStay
<1>13. QED
  BY <1>8, <1>9, <1>10, <1>11, <1>12 DEF Structure

(* A resolution closes the challenge of the listing, done, and the challenge  *)
(* of its appeal if there is one, and nothing else.                           *)
Concludes(l, done) ==
    /\ ChallengeOf(l) \in done /\ done \subseteq Polls
    /\ AppealOf(l).appealChallengeID \in done \cup {0}
    /\ done \subseteq {ChallengeOf(l), AppealOf(l).appealChallengeID}
    /\ \A c \in done : Ended(c)
    /\ pollNonce' = pollNonce
    /\ ChallengeOf(l)' = 0
    /\ \A m \in Listings : m # l => listings'[m] = listings[m]
    /\ \A c \in Ids : /\ challenges'[c].challenger = challenges[c].challenger
                      /\ (challenges'[c].resolved <=> challenges[c].resolved \/ c \in done)
                      /\ appeals'[c].requester = appeals[c].requester
                      /\ appeals'[c].appealPhaseExpiry = appeals[c].appealPhaseExpiry
                      /\ (appeals'[c].appealGranted <=> appeals[c].appealGranted)
                      /\ appeals'[c].appealChallengeID = appeals[c].appealChallengeID
                      /\ (c # ChallengeOf(l) => appeals'[c] = appeals[c])

LEMMA ConcludesKeeps ==
    ASSUME TypeOK, Structure, EndedStay, NEW l \in Listings, NEW done, Concludes(l, done)
    PROVE  Structure'
<1> USE IdsArePolls, ListingTypes
<1> DEFINE c == ChallengeOf(l)
<1>1. /\ c \in done /\ c \in Polls /\ done \subseteq Polls /\ pollNonce' = pollNonce
      /\ \A d \in done : d > 0 /\ d <= pollNonce
  BY DEF Concludes, Ended, Exists
<1>2. /\ ChallengeOf(l)' = 0
      /\ \A m \in Listings : m # l => /\ ChallengeOf(m)' = ChallengeOf(m)
                                      /\ (Present(m) => Present(m)')
  BY DEF Concludes, ChallengeOf, Present, AppWasMade
<1>3. \A d \in Ids : /\ challenges'[d].challenger = challenges[d].challenger
                    /\ (challenges'[d].resolved <=> challenges[d].resolved \/ d \in done)
                    /\ appeals'[d].requester = appeals[d].requester
                    /\ appeals'[d].appealPhaseExpiry = appeals[d].appealPhaseExpiry
                    /\ (appeals'[d].appealGranted <=> appeals[d].appealGranted)
                    /\ appeals'[d].appealChallengeID = appeals[d].appealChallengeID
                    /\ (d # c => appeals'[d] = appeals[d])
  BY DEF Concludes
<1>4. FreshIdsBlank'
  <2>1. \A d \in Ids : d = 0 \/ d > pollNonce => d \notin done
    BY <1>1
  <2>2. QED
    BY <1>1, <1>2, <1>3, <2>1 DEF Structure, FreshIdsBlank
<1>5. AppealsInOrder'
  BY <1>3 DEF Structure, AppealsInOrder
<1>6. DisputesApart'
  <2>1. \A m \in Listings : m # l /\ ChallengeOf(m) # 0 => ChallengeOf(m) \notin done
    <3>1. \A m \in Listings : m # l /\ ChallengeOf(m) # 0 => ChallengeOf(m) # c
      BY DEF Structure, DisputesApart
    <3>2. \A m \in Listings : AppealOf(l).appealChallengeID # 0 =>
              AppealOf(l).appealChallengeID # ChallengeOf(m)
      BY DEF Structure, DisputesApart, AppealOf
    <3>3. QED
      BY <3>1, <3>2 DEF Concludes
  <2>2. \A m \in Listings : ChallengeOf(m)' # 0 =>
            Present(m)' /\ ~challenges'[ChallengeOf(m)'].resolved
    BY <1>2, <1>3, <2>1 DEF Structure, DisputesApart
  <2>3. \A m, k \in Listings : m # k /\ ChallengeOf(m)' # 0 => ChallengeOf(m)' # ChallengeOf(k)'
    BY <1>2 DEF Structure, DisputesApart
  <2>4. \A d \in Ids : \A m \in Listings : appeals'[d].appealChallengeID # 0 =>
            appeals'[d].appealChallengeID # ChallengeOf(m)'
    BY <1>2, <1>3 DEF Structure, DisputesApart
  <2>5. QED
    BY <2>2, <2>3, <2>4 DEF DisputesApart
<1>7. OpenReachable'
  <2>1. SUFFICES ASSUME NEW d \in Polls, challenges'[d].challenger # Nobody,
                        ~challenges'[d].resolved
                 PROVE  \E m \in Listings : ChallengeOf(m)' = d
                                            \/ appeals'[ChallengeOf(m)'].appealChallengeID = d
    BY DEF OpenReachable, AppealOf
  <2>2. d \notin done /\ challenges[d].challenger # Nobody /\ ~challenges[d].resolved
    BY <1>3, <2>1
  <2>3. PICK m \in Listings : ChallengeOf(m) = d \/ AppealOf(m).appealChallengeID = d
    BY <2>2 DEF Structure, OpenReachable
  <2>4. m # l
    BY <2>2, <2>3 DEF Concludes
  <2>5. QED
    BY <1>2, <1>3, <2>3, <2>4 DEF AppealOf
<1>8. ResolvedEnded'
  BY <1>3 DEF Structure, ResolvedEnded, EndedStay, Concludes
<1>9. QED
  BY <1>4, <1>5, <1>6, <1>7, <1>8 DEF Structure

LEMMA SettleEffect ==
    ASSUME TypeOK, NEW l \in Listings, ChallengeOf(l) \in Polls, NEW ch \in Challenge,
           NEW overturned \in BOOLEAN, NEW chs \in [Ids -> Challenge], NEW payee, NEW extra,
           Settle(l, ch, overturned, chs, payee, extra)
    PROVE  /\ Ended(ChallengeOf(l)) /\ pollNonce' = pollNonce
           /\ ChallengeOf(l)' = 0
           /\ \A m \in Listings : m # l => listings'[m] = listings[m]
           /\ challenges'[ChallengeOf(l)].challenger = ch.challenger
           /\ challenges'[ChallengeOf(l)].resolved
           /\ \A d \in Ids : d # ChallengeOf(l) => challenges'[d] = chs[d]
<1> USE IdsArePolls, ListingTypes
<1>1. PICK winning \in Nat :
          winning = IF overturned THEN LosingTokens(ChallengeOf(l)) ELSE WinningTokens(ChallengeOf(l))
  BY TalliesType
<1>2. /\ Ended(ChallengeOf(l)) /\ pollNonce' = pollNonce
      /\ challenges' = [chs EXCEPT ![ChallengeOf(l)] = Resolve(ch, winning)]
      /\ listings' = [listings EXCEPT ![l] =
             IF Kept(ChallengeOf(l), overturned) THEN Whitelist(@, Reward(ch, winning))
             ELSE NoListing]
  BY <1>1 DEF Settle, CanSettle, Payout, RewardOf, tallyVars
<1>3. \A x : Whitelist(listings[l], x).challengeID = 0
  <2>1. listings[l] \in Listing
    BY DEF TypeOK
  <2>2. QED
    BY <2>1 DEF Whitelist, Listing
<1>4. NoListing.challengeID = 0
  BY DEF NoListing
<1>5. /\ ChallengeOf(l)' = 0
      /\ \A m \in Listings : m # l => listings'[m] = listings[m]
  <2>1. listings \in [Listings -> Listing]
    BY DEF TypeOK
  <2>2. QED
    BY <1>2, <1>3, <1>4, <2>1 DEF ChallengeOf
<1>6. QED
  BY <1>1, <1>2, <1>5, ResolveType

(* The time everybody has before a challenge is resolved, as in NobodyCutShort. *)
InTime(c) ==
    LET a == appeals[c]
    IN  /\ now > poll[c].revealEnd
        /\ IF a.requester = Nobody THEN now >= requestAppealExpiry[c]
           ELSE IF ~a.appealGranted THEN now >= a.appealPhaseExpiry
           ELSE IF a.appealChallengeID = 0 THEN now >= a.appealOpenToChallengeExpiry
           ELSE now > poll[a.appealChallengeID].revealEnd

LEMMA DatesTypes ==
    ASSUME TypeOK
    PROVE  /\ now \in Nat /\ requestAppealExpiry \in [Ids -> Nat]
           /\ \A c \in Ids : /\ appeals[c].appealPhaseExpiry \in Nat
                             /\ appeals[c].appealOpenToChallengeExpiry \in Nat
  BY TimeType DEF TypeOK, Appeal

(* What a resolution does, and when. *)
LEMMA VerdictConcludes ==
    ASSUME TypeOK, Structure, NEW l \in Listings, UpdateStatus(l), ~CanBeWhitelisted(l)
    PROVE  /\ ChallengeOf(l) \in Polls /\ InTime(ChallengeOf(l))
           /\ \E done : Concludes(l, done)
<1> USE IdsArePolls, ListingTypes, DatesTypes
<1> DEFINE c == ChallengeOf(l)
<1>1. c \in Polls /\ challenges[c] \in Challenge
  <2>1. ChallengeExists(l)
    BY DEF UpdateStatus
  <2>2. c # 0 /\ c \in Ids
    BY <2>1, ChallengedOrNot
  <2>3. QED
    BY <2>2
<1>2. /\ (appeals[c].requester = Nobody <=> appeals[c].appealPhaseExpiry = 0)
      /\ (appeals[c].appealGranted => appeals[c].requester # Nobody)
      /\ (appeals[c].appealChallengeID # 0 => appeals[c].appealGranted)
  BY <1>1 DEF Structure, AppealsInOrder
<1>3. ASSUME NEW ch \in Challenge, ch.challenger = challenges[c].challenger,
             NEW overturned \in BOOLEAN, NEW payee, NEW extra,
             Settle(l, ch, overturned, challenges, payee, extra),
             appeals' = appeals, appeals[c].appealChallengeID = 0
      PROVE  Ended(c) /\ \E done : Concludes(l, done)
  <2>1. /\ Ended(c) /\ pollNonce' = pollNonce /\ ChallengeOf(l)' = 0
        /\ \A m \in Listings : m # l => listings'[m] = listings[m]
        /\ challenges'[c].challenger = challenges[c].challenger /\ challenges'[c].resolved
        /\ \A d \in Ids : d # c => challenges'[d] = challenges[d]
    BY <1>1, <1>3, SettleEffect
  <2>2. Concludes(l, {c})
    BY <1>1, <1>3, <2>1 DEF Concludes, AppealOf
  <2>3. QED
    BY <2>1, <2>2
<1>4. Ended(c) => now > poll[c].revealEnd
  BY DEF Ended
<1>5. CASE ChallengeCanBeResolved(l) /\ ResolveChallenge(l)
  <2>1. /\ appeals[c].requester = Nobody /\ appeals[c].appealChallengeID = 0
        /\ now >= requestAppealExpiry[c]
    BY <1>1, <1>2, <1>5 DEF ChallengeCanBeResolved, AppealOf
  <2>2. Settle(l, challenges[c], FALSE, challenges, Nobody, 0) /\ appeals' = appeals
    BY <1>5 DEF ResolveChallenge
  <2>3. Ended(c) /\ \E done : Concludes(l, done)
    BY <1>1, <1>3, <2>1, <2>2
  <2>4. QED
    BY <1>1, <1>4, <2>1, <2>3 DEF InTime
<1>6. CASE AppealCanBeResolved(l) /\ ResolveAppeal(l)
  <2>1. /\ appeals[c].requester # Nobody /\ appeals[c].appealChallengeID = 0
        /\ IF appeals[c].appealGranted THEN now >= appeals[c].appealOpenToChallengeExpiry
           ELSE now >= appeals[c].appealPhaseExpiry
    <3>1. /\ appeals[c].appealPhaseExpiry # 0
          /\ (appeals[c].appealGranted => /\ appeals[c].appealOpenToChallengeExpiry < now
                                          /\ appeals[c].appealChallengeID = 0)
          /\ (~appeals[c].appealGranted => appeals[c].appealPhaseExpiry < now)
      BY <1>6 DEF AppealCanBeResolved, AppealOf
    <3>2. /\ now \in Nat /\ appeals[c].appealPhaseExpiry \in Nat
          /\ appeals[c].appealOpenToChallengeExpiry \in Nat
      BY <1>1
    <3>3. QED
      BY <1>2, <3>1, <3>2
  <2>2. Ended(c) /\ \E done : Concludes(l, done)
    <3>1. appeals' = appeals
      BY <1>6 DEF ResolveAppeal
    <3>2. CASE appeals[c].appealGranted
      <4>1. Settle(l, challenges[c], TRUE, challenges, appeals[c].requester,
                   appeals[c].appealFeePaid)
        BY <1>6, <3>2 DEF ResolveAppeal, AppealOf
      <4>2. QED
        BY <1>1, <1>3, <2>1, <3>1, <4>1
    <3>3. CASE ~appeals[c].appealGranted
      <4>1. PICK pool \in Nat, stake \in Nat :
                Settle(l, [challenges[c] EXCEPT !.rewardPool = pool, !.stake = stake],
                       FALSE, challenges, Nobody, 0)
        <5>1. PICK fee \in Nat, half \in Nat :
                  /\ fee = appeals[c].appealFeePaid /\ half = fee \div 2 /\ fee - half \in Nat
          <6>1. appeals[c].appealFeePaid \in Nat
            BY <1>1 DEF Appeal
          <6>2. QED
            BY <6>1, HalfType
        <5>2. PICK pool \in Nat, stake \in Nat :
                  /\ pool = challenges[c].rewardPool + half
                  /\ stake = challenges[c].stake + (fee - half)
          BY <1>1, <5>1 DEF Challenge
        <5>3. Settle(l, [challenges[c] EXCEPT !.rewardPool = pool, !.stake = stake],
                     FALSE, challenges, Nobody, 0)
          BY <1>6, <3>3, <5>1, <5>2 DEF ResolveAppeal, AppealOf
        <5>4. QED
          BY <5>3
      <4>2. PICK ch \in Challenge :
                /\ ch = [challenges[c] EXCEPT !.rewardPool = pool, !.stake = stake]
                /\ ch.challenger = challenges[c].challenger
        <5> DEFINE shared == [challenges[c] EXCEPT !.rewardPool = pool]
                   split == [shared EXCEPT !.stake = stake]
        <5>1. shared \in Challenge /\ shared.challenger = challenges[c].challenger
          BY <1>1 DEF Challenge
        <5>2. split \in Challenge /\ split.challenger = shared.challenger
          <6> HIDE DEF shared
          <6>1. QED
            BY <5>1 DEF Challenge
        <5>3. QED
          BY <5>1, <5>2
      <4>3. Settle(l, ch, FALSE, challenges, Nobody, 0)
        BY <4>1, <4>2
      <4>4. QED
        BY <1>3, <2>1, <3>1, <4>2, <4>3
    <3>4. QED
      BY <3>2, <3>3
  <2>3. QED
    BY <1>1, <1>4, <2>1, <2>2 DEF InTime
<1>7. CASE AppealChallengeCanBeResolved(l) /\ ResolveAppealChallenge(l)
  <2>1. PICK ac \in Polls : ac = appeals[c].appealChallengeID
    BY <1>1, <1>7 DEF AppealChallengeCanBeResolved, AppealOf
  <2>2. ac # 0 /\ ac # c
    BY <1>1, <2>1 DEF Structure, DisputesApart
  <2>3. PICK succeeded \in BOOLEAN, winning \in Nat :
            succeeded = Passed(ac) /\ winning = WinningTokens(ac)
    <3>1. Passed(ac) \in BOOLEAN
      BY DEF Passed
    <3>2. QED
      BY <3>1, TalliesType
  <2>4. PICK chs \in [Ids -> Challenge] :
            chs = [challenges EXCEPT ![ac] = Resolve(@, winning)]
    BY ResolveType
  <2>o. PICK overturned \in BOOLEAN : overturned = ~succeeded
    OBVIOUS
  <2>5. PICK payee, extra :
            /\ payee = IF succeeded THEN challenges[ac].challenger ELSE AppealOf(l).requester
            /\ extra = Reward(challenges[ac], winning)
    OBVIOUS
  <2>e. /\ Settle(l, challenges[c], overturned, chs, payee, extra)
        /\ appeals' = [appeals EXCEPT ![c].overturned = succeeded]
        /\ Ended(ac)
    BY <1>7, <2>1, <2>3, <2>4, <2>5, <2>o, Zenon DEF ResolveAppealChallenge, AppealOf
  <2>6. /\ Ended(c) /\ pollNonce' = pollNonce /\ ChallengeOf(l)' = 0
        /\ \A m \in Listings : m # l => listings'[m] = listings[m]
        /\ challenges'[c].challenger = challenges[c].challenger /\ challenges'[c].resolved
        /\ \A d \in Ids : d # c => challenges'[d] = chs[d]
    <3>1. PICK ch \in Challenge : ch = challenges[c]
      BY <1>1
    <3>2. Settle(l, ch, overturned, chs, payee, extra)
      BY <2>e, <3>1
    <3>3. /\ Ended(c) /\ pollNonce' = pollNonce /\ ChallengeOf(l)' = 0
          /\ \A m \in Listings : m # l => listings'[m] = listings[m]
          /\ challenges'[c].challenger = ch.challenger /\ challenges'[c].resolved
          /\ \A d \in Ids : d # c => challenges'[d] = chs[d]
      BY <1>1, <3>2, SettleEffect
    <3>4. QED
      BY <3>1, <3>3
  <2>7. \A d \in Ids : /\ chs[d].challenger = challenges[d].challenger
                      /\ (chs[d].resolved <=> challenges[d].resolved \/ d = ac)
    <3>1. PICK ch \in Challenge : ch = challenges[ac]
      OBVIOUS
    <3>2. Resolve(ch, winning).challenger = ch.challenger /\ Resolve(ch, winning).resolved
      BY ResolveType
    <3>3. \A d \in Ids : chs[d] = IF d = ac THEN Resolve(ch, winning) ELSE challenges[d]
      BY <2>4, <3>1
    <3>4. QED
      BY <3>1, <3>2, <3>3
  <2>8. \A d \in Ids : /\ appeals'[d].requester = appeals[d].requester
                      /\ appeals'[d].appealPhaseExpiry = appeals[d].appealPhaseExpiry
                      /\ (appeals'[d].appealGranted <=> appeals[d].appealGranted)
                      /\ appeals'[d].appealChallengeID = appeals[d].appealChallengeID
                      /\ (d # c => appeals'[d] = appeals[d])
    BY <1>1, <2>e DEF Appeal
  <2>9. Concludes(l, {c, ac})
    BY <1>1, <2>1, <2>2, <2>e, <2>6, <2>7, <2>8 DEF Concludes, AppealOf
  <2>10. appeals[c].appealGranted /\ appeals[c].requester # Nobody /\ now > poll[ac].revealEnd
    BY <1>2, <2>1, <2>2, <2>e DEF Ended
  <2>11. QED
    BY <1>1, <1>4, <2>1, <2>2, <2>6, <2>9, <2>10 DEF InTime
<1>8. QED
  BY <1>5, <1>6, <1>7 DEF UpdateStatus

(* Every step but four leaves the disputes alone. *)
LEMMA StepKinds ==
    ASSUME TypeOK, Structure, [Next]_vars
    PROVE  \/ SameDisputes
           \/ \E u \in Users, l \in Listings :
                 Present(l) /\ Unchallenged(l) /\ StartChallenge(u, l)
           \/ \E u \in Users, l \in Listings : RequestAppeal(u, l) \/ GrantAppeal(l)
           \/ \E u \in Users, l \in Listings : ChallengeGrantedAppeal(u, l)
           \/ \E l \in Listings : UpdateStatus(l) /\ ~CanBeWhitelisted(l)
<1>1. ASSUME UNCHANGED <<pollNonce, listings, challenges, appeals>>
      PROVE  SameDisputes
  BY <1>1 DEF SameDisputes, ChallengeOf, Present, AppWasMade
<1>2. CASE Tick
  BY <1>1, <1>2 DEF Tick, Pass, disputes
<1>3. ASSUME NEW x, Reparameterize(x) \/ TransferGovernment(x) PROVE SameDisputes
  BY <1>1, <1>3 DEF Reparameterize, TransferGovernment, tallyVars, disputes
<1>4. ASSUME NEW v, NEW c, NEW option, Vote(v, c, option) PROVE SameDisputes
  BY <1>1, <1>4 DEF Vote, Reveal, disputes
<1>5. ASSUME NEW v \in Voters, NEW c \in Polls, ClaimReward(v, c) PROVE SameDisputes
  BY <1>5, ClaimKeeps
<1>6. ASSUME NEW l \in Listings, UpdateStatus(l), CanBeWhitelisted(l) PROVE SameDisputes
  BY <1>6, ListingKeeps DEF UpdateStatus
<1>7. ASSUME NEW l \in Listings, NEW u \in Users, NEW n \in Amounts,
             Apply(u, l, n) \/ Deposit(u, l, n) \/ Withdraw(u, l, n)
      PROVE  SameDisputes
  BY <1>7, PublisherKeeps
<1>8. ASSUME NEW l \in Listings, NEW u \in Users, Exit(u, l) PROVE SameDisputes
  BY <1>8, RemovalKeeps DEF Exit
<1>9. ASSUME NEW l \in Listings, NEW u \in Users, ChallengeListing(u, l)
      PROVE  SameDisputes \/ (Present(l) /\ Unchallenged(l) /\ StartChallenge(u, l))
  BY <1>9, RemovalKeeps DEF ChallengeListing, TouchAndRemove, Present
<1>10. CASE UNCHANGED vars
  BY <1>1, <1>10 DEF vars, tallyVars, disputes
<1>11. ASSUME NEW l \in Listings, GrantAppeal(l)
       PROVE  \E u \in Users, m \in Listings : RequestAppeal(u, m) \/ GrantAppeal(m)
  BY <1>11, OwnerAssumption
<1>12. QED
  BY <1>2, <1>3, <1>4, <1>5, <1>6, <1>7, <1>8, <1>9, <1>10, <1>11, Zenon DEF Next

LEMMA StructureNext == TypeOK /\ Structure /\ [Next]_vars => Structure'
<1> SUFFICES ASSUME TypeOK, Structure, [Next]_vars PROVE Structure'
  OBVIOUS
<1>1. EndedStay
  BY EndedStays DEF EndedStay
<1>2. CASE SameDisputes
  BY <1>1, <1>2, SameDisputesKeep
<1>3. ASSUME NEW u \in Users, NEW l \in Listings,
             Present(l) /\ Unchallenged(l) /\ StartChallenge(u, l)
      PROVE  Structure'
  BY <1>1, <1>3, StartChallengeKeeps DEF Present
<1>4. ASSUME NEW u \in Users, NEW l \in Listings, RequestAppeal(u, l) \/ GrantAppeal(l)
      PROVE  Structure'
  BY <1>1, <1>4, RequestAppealKeeps
<1>5. ASSUME NEW u \in Users, NEW l \in Listings, ChallengeGrantedAppeal(u, l)
      PROVE  Structure'
  BY <1>1, <1>5, ChallengeGrantedAppealKeeps
<1>6. ASSUME NEW l \in Listings, UpdateStatus(l), ~CanBeWhitelisted(l) PROVE Structure'
  BY <1>1, <1>6, VerdictConcludes, ConcludesKeeps
<1>7. QED
  BY <1>2, <1>3, <1>4, <1>5, <1>6, StepKinds

LEMMA AlwaysStructured == Spec => [](TypeOK /\ Structure)
<1>1. TypeOK /\ Structure /\ [Next]_vars /\ TypeOK' => (TypeOK /\ Structure)'
  BY StructureNext
<1>2. QED
  BY <1>1, StructureInit, RegistryTypeCorrect, PTL DEF Spec

------------------------------------------------------------------------------------
(* No stake is orphaned: an unresolved challenge is always reached from a     *)
(* listing, its own or through its appeal, and no two listings share one.     *)
THEOREM ChallengesReachable == Spec => []NoOrphanedChallenge
<1>1. ASSUME TypeOK, Structure PROVE NoOrphanedChallenge
  <2> USE IdsArePolls, ListingTypes
  <2>1. ASSUME NEW c \in Polls, challenges[c].challenger # Nobody, ~challenges[c].resolved
        PROVE  c \in Current \cup {appeals[d].appealChallengeID : d \in Current}
    <3>1. PICK l \in Listings : ChallengeOf(l) = c \/ appeals[ChallengeOf(l)].appealChallengeID = c
      BY <1>1, <2>1 DEF Structure, OpenReachable, AppealOf
    <3>2. appeals[0].appealChallengeID = 0 /\ c # 0
      BY <1>1 DEF Structure, FreshIdsBlank, NoAppeal
    <3>3. ChallengeOf(l) \in Current
      BY <3>1, <3>2 DEF Current
    <3>4. QED
      BY <3>1, <3>3
  <2>2. \A c \in Current : ~challenges[c].resolved
    BY <1>1 DEF Structure, DisputesApart, Current
  <2>3. \A l, m \in Listings : l # m /\ ChallengeOf(l) # 0 => ChallengeOf(l) # ChallengeOf(m)
    BY <1>1 DEF Structure, DisputesApart
  <2>4. QED
    BY <2>1, <2>2, <2>3 DEF NoOrphanedChallenge
<1>2. QED
  BY <1>1, AlwaysStructured, PTL

(* At most one branch of updateStatus is ever due, so the order in which the *)
(* code tests them never decides a dispute.                                  *)
THEOREM OneBranchDue == Spec => []OnePhase
<1>1. ASSUME TypeOK, Structure, NEW l \in Listings, ChallengeExists(l)
      PROVE  /\ ~CanBeWhitelisted(l)
             /\ ~(ChallengeCanBeResolved(l) /\ AppealCanBeResolved(l))
             /\ ~(ChallengeCanBeResolved(l) /\ AppealChallengeCanBeResolved(l))
             /\ ~(AppealCanBeResolved(l) /\ AppealChallengeCanBeResolved(l))
  <2>1. ChallengeOf(l) \in Ids /\ ChallengeOf(l) # 0
    BY <1>1, ListingTypes, ChallengedOrNot
  <2>2. ~Unchallenged(l)
    BY <1>1, <2>1, ChallengedOrNot
  <2>3. /\ (AppealOf(l).requester = Nobody <=> AppealOf(l).appealPhaseExpiry = 0)
        /\ (AppealOf(l).appealGranted => AppealOf(l).requester # Nobody)
        /\ (AppealOf(l).appealChallengeID # 0 => AppealOf(l).appealGranted)
    BY <1>1, <2>1 DEF Structure, AppealsInOrder, AppealOf
  <2>4. QED
    BY <2>2, <2>3 DEF CanBeWhitelisted, ChallengeCanBeResolved, AppealCanBeResolved,
        AppealChallengeCanBeResolved
<1>2. ASSUME TypeOK, Structure PROVE OnePhase
  <2>1. SUFFICES ASSUME NEW l \in Listings, ChallengeExists(l),
                        NEW i \in 1 .. 4, NEW j \in 1 .. 4, i # j,
                        <<CanBeWhitelisted(l), ChallengeCanBeResolved(l), AppealCanBeResolved(l),
                          AppealChallengeCanBeResolved(l)>>[i],
                        <<CanBeWhitelisted(l), ChallengeCanBeResolved(l), AppealCanBeResolved(l),
                          AppealChallengeCanBeResolved(l)>>[j]
                 PROVE  FALSE
    BY DEF OnePhase
  <2>2. (i = 1 \/ i = 2 \/ i = 3 \/ i = 4) /\ (j = 1 \/ j = 2 \/ j = 3 \/ j = 4)
    OBVIOUS
  <2>3. QED
    BY <1>1, <1>2, <2>1, <2>2
<1>3. QED
  BY <1>2, AlwaysStructured, PTL

(* A challenge is resolved by updateStatus alone, of the listing it is about, *)
(* or of the listing whose appeal it challenges.                              *)
LEMMA VerdictGiven ==
    ASSUME TypeOK, Structure, [Next]_vars, NEW c \in Polls,
           ~challenges[c].resolved, challenges'[c].resolved
    PROVE  \E l \in Listings : /\ UpdateStatus(l) /\ ~CanBeWhitelisted(l)
                               /\ c \in {ChallengeOf(l), AppealOf(l).appealChallengeID}
<1> USE IdsArePolls, ListingTypes
<1>1. ~SameDisputes
  BY DEF SameDisputes
<1>2. ASSUME NEW u \in Users, NEW m \in Listings, Present(m), StartChallenge(u, m) PROVE FALSE
  <2>1. challenges' = [challenges EXCEPT ![pollNonce + 1] =
               NewChallenge(u, params.minDeposit, PoolOf(params.minDeposit, params.dispensationPct))]
    BY <1>2 DEF StartChallenge
  <2>2. challenges'[c] = challenges[c] \/ ~challenges'[c].resolved
    BY <2>1 DEF NewChallenge
  <2>3. QED
    BY <2>2
<1>3. ASSUME NEW u \in Users, NEW m \in Listings, RequestAppeal(u, m) \/ GrantAppeal(m)
      PROVE  FALSE
  BY <1>3 DEF RequestAppeal, GrantAppeal
<1>4. ASSUME NEW u \in Users, NEW m \in Listings, ChallengeGrantedAppeal(u, m) PROVE FALSE
  <2>1. \E stake, pool : challenges' = [challenges EXCEPT ![pollNonce + 1] =
                                           NewChallenge(u, stake, pool)]
    BY <1>4 DEF ChallengeGrantedAppeal
  <2>2. challenges'[c] = challenges[c] \/ ~challenges'[c].resolved
    BY <2>1 DEF NewChallenge
  <2>3. QED
    BY <2>2
<1>5. PICK m \in Listings : UpdateStatus(m) /\ ~CanBeWhitelisted(m)
  BY <1>1, <1>2, <1>3, <1>4, StepKinds
<1>6. PICK done : Concludes(m, done)
  BY <1>5, VerdictConcludes
<1>7. c \in {ChallengeOf(m), AppealOf(m).appealChallengeID}
  BY <1>6 DEF Concludes
<1>8. QED
  BY <1>5, <1>7

(* Nobody's time to vote, to appeal, to judge or to challenge an appeal is    *)
(* cut short, whichever branch resolves the challenge.                        *)
THEOREM TimeIsGiven == Spec => NobodyCutShort
<1> DEFINE Timely == \A l \in Listings, c \in Polls :
                       c = ChallengeOf(l) /\ challenges'[c].resolved => InTime(c)
<1>1. ASSUME TypeOK, Structure, [Next]_vars PROVE Timely
  <2>1. SUFFICES ASSUME NEW l \in Listings, NEW c \in Polls, c = ChallengeOf(l),
                        challenges'[c].resolved
                 PROVE  InTime(c)
    OBVIOUS
  <2> USE IdsArePolls, ListingTypes
  <2>2. ~challenges[c].resolved /\ c \in Ids /\ c <= pollNonce
    BY <1>1, <2>1 DEF Structure, DisputesApart, FreshIdsBlank
  <2>3. PICK m \in Listings : /\ UpdateStatus(m) /\ ~CanBeWhitelisted(m)
                              /\ c \in {ChallengeOf(m), AppealOf(m).appealChallengeID}
    BY <1>1, <2>1, <2>2, VerdictGiven
  <2>4. c = ChallengeOf(m)
    BY <1>1, <2>1, <2>3 DEF Structure, DisputesApart, AppealOf
  <2>5. QED
    BY <1>1, <2>3, <2>4, VerdictConcludes
<1>2. ASSUME TypeOK, Structure, [Next]_vars
      PROVE  [\A l \in Listings, c \in Polls :
                 LET a == appeals[c]
                 IN  c = ChallengeOf(l) /\ challenges'[c].resolved =>
                       /\ now > poll[c].revealEnd
                       /\ IF a.requester = Nobody THEN now >= requestAppealExpiry[c]
                          ELSE IF ~a.appealGranted THEN now >= a.appealPhaseExpiry
                          ELSE IF a.appealChallengeID = 0
                               THEN now >= a.appealOpenToChallengeExpiry
                          ELSE now > poll[a.appealChallengeID].revealEnd]_vars
  BY <1>1, <1>2 DEF InTime
<1>3. QED
  BY <1>2, AlwaysStructured, PTL DEF Spec, NobodyCutShort

(* The appeal of a resolved challenge is over. *)
LEMMA AppealKept ==
    ASSUME TypeOK, Structure, [Next]_vars, NEW c \in Polls, challenges[c].resolved
    PROVE  appeals'[c] = appeals[c]
<1> USE IdsArePolls, ListingTypes
<1>1. \A l \in Listings : ChallengeOf(l) # c
  BY DEF Structure, DisputesApart
<1>2. CASE SameDisputes
  BY <1>2 DEF SameDisputes
<1>3. ASSUME NEW u \in Users, NEW l \in Listings, StartChallenge(u, l)
      PROVE  appeals'[c] = appeals[c]
  BY <1>3 DEF StartChallenge
<1>4. ASSUME NEW u \in Users, NEW l \in Listings, RequestAppeal(u, l) \/ GrantAppeal(l)
      PROVE  appeals'[c] = appeals[c]
  BY <1>1, <1>4 DEF RequestAppeal, GrantAppeal
<1>5. ASSUME NEW u \in Users, NEW l \in Listings, ChallengeGrantedAppeal(u, l)
      PROVE  appeals'[c] = appeals[c]
  BY <1>1, <1>5 DEF ChallengeGrantedAppeal
<1>6. ASSUME NEW l \in Listings, UpdateStatus(l), ~CanBeWhitelisted(l)
      PROVE  appeals'[c] = appeals[c]
  BY <1>1, <1>6, VerdictConcludes DEF Concludes
<1>7. QED
  BY <1>2, <1>3, <1>4, <1>5, <1>6, StepKinds

(* Who may claim a resolved challenge's pool never changes again, and neither *)
(* do their votes.                                                            *)
LEMMA EntitlementKept ==
    ASSUME TypeOK, Structure, [Next]_vars, NEW c \in Polls, challenges[c].resolved
    PROVE  Entitled(c)' = Entitled(c) /\ TokensOn(c)' = TokensOn(c)
<1> USE IdsArePolls, ListingTypes
<1>1. poll'[c] = poll[c] /\ votes'[c] = votes[c]
  BY EndedStays DEF Structure, ResolvedEnded
<1>2. appeals'[c] = appeals[c]
  BY AppealKept
<1>3. /\ Revealed(c)' = Revealed(c) /\ VotedFor(c)' = VotedFor(c) /\ TokensOn(c)' = TokensOn(c)
  BY <1>1 DEF Revealed, VotedFor, TokensOn
<1>4. (Passed(c)' <=> Passed(c))
  BY <1>1, <1>3 DEF Passed, VotesFor, VotesAgainst, TokensOf
<1>5. Winners(c)' = Winners(c) /\ Losers(c)' = Losers(c)
  BY <1>1, <1>3, <1>4 DEF Winners, Losers
<1>6. QED
  BY <1>2, <1>3, <1>5 DEF Entitled, Overturned

THEOREM EntitlementSettled == Spec => EntitlementFinal
<1>1. ASSUME TypeOK, Structure, [Next]_vars PROVE \A c \in Resolved : Entitled(c)' = Entitled(c)
  BY <1>1, EntitlementKept DEF Resolved
<1>2. QED
  BY <1>1, AlwaysStructured, PTL DEF Spec, EntitlementFinal

------------------------------------------------------------------------------------
(* The registry implements the life of a listing. *)

LEMMA MoveOfOne ==
    ASSUME NEW l \in Listings, NEW st, NEW d, StageOf(l)' = st, DisputeOf(l)' = d,
           \A m \in Listings : m # l => StageOf(m)' = StageOf(m) /\ DisputeOf(m)' = DisputeOf(m)
    PROVE  Life!Move(l, st, d)
<1>1. StageMap' = [StageMap EXCEPT ![l] = st]
  BY DEF StageMap
<1>2. DisputeMap' = [DisputeMap EXCEPT ![l] = d]
  BY DEF DisputeMap
<1>3. QED
  BY <1>1, <1>2 DEF Life!Move

LEMMA StandStill ==
    ASSUME \A m \in Listings : StageOf(m)' = StageOf(m) /\ DisputeOf(m)' = DisputeOf(m)
    PROVE  UNCHANGED Life!lifeVars
<1>1. StageMap' = StageMap
  BY DEF StageMap
<1>2. DisputeMap' = DisputeMap
  BY DEF DisputeMap
<1>3. QED
  BY <1>1, <1>2 DEF Life!lifeVars

LEMMA DisputesStand ==
    ASSUME TypeOK, SameDisputes
    PROVE  \A m \in Listings : DisputeOf(m)' = DisputeOf(m)
<1> SUFFICES ASSUME NEW m \in Listings PROVE DisputeOf(m)' = DisputeOf(m)
  OBVIOUS
<1>1. ChallengeOf(m)' = ChallengeOf(m) /\ ChallengeOf(m) \in Ids
  BY ListingTypes DEF SameDisputes
<1>2. (ChallengeExists(m)' <=> ChallengeExists(m)) /\ AppealOf(m)' = AppealOf(m)
  BY <1>1 DEF SameDisputes, ChallengeExists, AppealOf
<1>3. QED
  BY <1>2 DEF DisputeOf

LEMMA LifeInit == Init => Life!LifeInit
<1> SUFFICES ASSUME Init PROVE Life!LifeInit
  OBVIOUS
<1>1. \A l \in Listings : StageOf(l) = "absent" /\ DisputeOf(l) = "none"
  BY DEF Init, NoListing, StageOf, AppWasMade, DisputeOf, ChallengeExists, ChallengeOf
<1>2. QED
  BY <1>1 DEF Life!LifeInit, StageMap, DisputeMap

(* Without a challenge there is no dispute. *)
LEMMA NoDispute ==
    ASSUME TypeOK, Structure, NEW l \in Listings
    PROVE  /\ (ChallengeOf(l) = 0 => DisputeOf(l) = "none")
           /\ (Unchallenged(l) => DisputeOf(l) = "none")
           /\ (~Present(l) => DisputeOf(l) = "none")
           /\ StageMap[l] = StageOf(l) /\ DisputeMap[l] = DisputeOf(l)
  BY ChallengedOrNot DEF DisputeOf, StageMap, DisputeMap, Structure, DisputesApart

(* The steps outside disputes. *)
LEMMA PublisherLives ==
    ASSUME TypeOK, Structure, NEW u \in Users, NEW l \in Listings, NEW n \in Amounts,
           Apply(u, l, n) \/ Deposit(u, l, n) \/ Withdraw(u, l, n)
    PROVE  [Life!LifeNext]_(Life!lifeVars)
<1>d. listings \in [Listings -> Listing]
  BY DEF TypeOK
<1>1. \A m \in Listings : DisputeOf(m)' = DisputeOf(m)
  BY PublisherKeeps, DisputesStand
<1>2. CASE Deposit(u, l, n) \/ Withdraw(u, l, n)
  <2>1. \A m \in Listings : /\ listings'[m].whitelisted = listings[m].whitelisted
                            /\ listings'[m].applicationExpiry = listings[m].applicationExpiry
    BY <1>d, <1>2 DEF Deposit, Withdraw, Listing
  <2>2. \A m \in Listings : StageOf(m)' = StageOf(m)
    BY <2>1 DEF StageOf, AppWasMade
  <2>3. QED
    BY <1>1, <2>2, StandStill
<1>3. CASE Apply(u, l, n)
  <2>1. /\ listings'[l].applicationExpiry = now + params.applyStageLen
        /\ (listings'[l].whitelisted <=> listings[l].whitelisted)
        /\ \A m \in Listings : m # l => listings'[m] = listings[m]
    BY <1>d, <1>3 DEF Apply, Listing
  <2>2. now + params.applyStageLen > 0
    BY TimeType, SettingsTypes
  <2>3. StageOf(l) = "absent" /\ StageOf(l)' = "applying" /\ DisputeOf(l) = "none"
    BY <1>3, <2>1, <2>2, NoDispute DEF Apply, StageOf, AppWasMade, Present
  <2>4. \A m \in Listings : m # l => StageOf(m)' = StageOf(m)
    BY <2>1 DEF StageOf, AppWasMade
  <2>5. Life!Move(l, "applying", "none")
    BY <1>1, <2>3, <2>4, MoveOfOne
  <2>6. Life!Applies(l)
    BY <2>3, <2>5, NoDispute DEF Life!Applies
  <2>7. QED
    BY <2>6 DEF Life!LifeNext
<1>4. QED
  BY <1>2, <1>3

LEMMA RemovalLives ==
    ASSUME TypeOK, Structure, NEW l \in Listings, Present(l), Unchallenged(l), ResetListing(l),
           UNCHANGED <<tallyVars, settings, disputes>>
    PROVE  Life!LifeNext
<1>1. \A m \in Listings : DisputeOf(m)' = DisputeOf(m)
  BY RemovalKeeps, DisputesStand
<1>2. /\ listings'[l] = NoListing
      /\ \A m \in Listings : m # l => listings'[m] = listings[m]
  BY DEF ResetListing, TypeOK
<1>3. StageOf(l) # "absent" /\ StageOf(l)' = "absent" /\ DisputeOf(l) = "none"
  BY <1>2, NoDispute DEF StageOf, AppWasMade, Present, NoListing
<1>4. \A m \in Listings : m # l => StageOf(m)' = StageOf(m)
  BY <1>2 DEF StageOf, AppWasMade
<1>5. Life!Move(l, "absent", "none")
  BY <1>1, <1>3, <1>4, MoveOfOne
<1>6. Life!Removed(l)
  BY <1>3, <1>5, NoDispute DEF Life!Removed
<1>7. QED
  BY <1>6 DEF Life!LifeNext

LEMMA ListingLives ==
    ASSUME TypeOK, Structure, NEW l \in Listings, CanBeWhitelisted(l), WhitelistApplication(l)
    PROVE  Life!LifeNext
<1>1. \A m \in Listings : DisputeOf(m)' = DisputeOf(m)
  BY ListingKeeps, DisputesStand
<1>2. /\ listings'[l].whitelisted
      /\ \A m \in Listings : m # l => listings'[m] = listings[m]
  BY DEF WhitelistApplication, Whitelist, TypeOK, Listing
<1>3. StageOf(l) = "applying" /\ StageOf(l)' = "listed" /\ DisputeOf(l) = "none"
  BY <1>2, NoDispute DEF StageOf, CanBeWhitelisted
<1>4. \A m \in Listings : m # l => StageOf(m)' = StageOf(m)
  BY <1>2 DEF StageOf, AppWasMade
<1>5. Life!Move(l, "listed", "none")
  BY <1>1, <1>3, <1>4, MoveOfOne
<1>6. Life!Accepted(l)
  BY <1>3, <1>5, NoDispute DEF Life!Accepted
<1>7. QED
  BY <1>6 DEF Life!LifeNext

(* A dispute stands when its challenge and its appeal are as they were. *)
LEMMA OthersStand ==
    ASSUME TypeOK, NEW m \in Listings, ChallengeOf(m)' = ChallengeOf(m),
           ChallengeOf(m) # 0 =>
             /\ (challenges'[ChallengeOf(m)].resolved <=> challenges[ChallengeOf(m)].resolved)
             /\ appeals'[ChallengeOf(m)] = appeals[ChallengeOf(m)]
    PROVE  DisputeOf(m)' = DisputeOf(m)
<1>1. ChallengeOf(m) \in Nat
  BY ListingTypes, IdsArePolls
<1>2. CASE ChallengeOf(m) = 0
  BY <1>2 DEF DisputeOf, ChallengeExists
<1>3. CASE ChallengeOf(m) # 0
  <2>1. (ChallengeExists(m)' <=> ChallengeExists(m)) /\ AppealOf(m)' = AppealOf(m)
    BY <1>1, <1>3 DEF ChallengeExists, AppealOf
  <2>2. QED
    BY <2>1 DEF DisputeOf
<1>4. QED
  BY <1>2, <1>3

LEMMA StartChallengeLives ==
    ASSUME TypeOK, Structure, NEW u \in Users, NEW l \in Listings,
           Present(l), Unchallenged(l), StartChallenge(u, l)
    PROVE  Life!LifeNext
<1> USE IdsArePolls, ListingTypes
<1>1. PICK id, stake, pool : /\ id = pollNonce + 1 /\ stake = params.minDeposit
                             /\ pool = PoolOf(stake, params.dispensationPct)
  OBVIOUS
<1>2. /\ id \in Polls /\ id \in Nat /\ id > 0 /\ appeals' = appeals
      /\ challenges' = [challenges EXCEPT ![id] = NewChallenge(u, stake, pool)]
      /\ listings' = [listings EXCEPT ![l].challengeID = id, ![l].unstakedDeposit = @ - stake]
  BY <1>1 DEF StartChallenge, StartPoll
<1>3. /\ ChallengeOf(l)' = id
      /\ \A m \in Listings : /\ (m # l => ChallengeOf(m)' = ChallengeOf(m))
                             /\ StageOf(m)' = StageOf(m)
  BY <1>2 DEF ChallengeOf, StageOf, AppWasMade, TypeOK, Listing
<1>4. ~challenges'[id].resolved /\ \A d \in Ids : d # id => challenges'[d] = challenges[d]
  BY <1>2 DEF NewChallenge
<1>5. \A m \in Listings : ChallengeOf(m) # id
  <2>1. \A m \in Listings : ChallengeOf(m) <= pollNonce
    BY DEF Structure, FreshIdsBlank
  <2>2. QED
    BY <1>1, <2>1
<1>6. /\ appeals[id].appealChallengeID = 0 /\ ~appeals[id].appealGranted
      /\ appeals[id].requester = Nobody
  BY <1>1, <1>2 DEF Structure, FreshIdsBlank, NoAppeal
<1>7. DisputeOf(l)' = "voting"
  BY <1>2, <1>3, <1>4, <1>6 DEF DisputeOf, ChallengeExists, AppealOf
<1>8. StageOf(l) # "absent" /\ DisputeOf(l) = "none"
  BY NoDispute DEF StageOf, Present
<1>9. \A m \in Listings : m # l => DisputeOf(m)' = DisputeOf(m)
  BY <1>2, <1>3, <1>4, <1>5, OthersStand
<1>10. Life!Move(l, StageOf(l), "voting")
  <2>1. PICK st : st = StageOf(l)
    OBVIOUS
  <2>2. Life!Move(l, st, "voting")
    BY <1>3, <1>7, <1>9, <2>1, MoveOfOne
  <2>3. QED
    BY <2>1, <2>2
<1>11. Life!Disputed(l)
  BY <1>8, <1>10, NoDispute DEF Life!Disputed
<1>12. QED
  BY <1>11 DEF Life!LifeNext

(* A step of an appeal changes only the appeal of the listing's challenge. *)
LEMMA AppealStepLives ==
    ASSUME TypeOK, Structure, NEW l \in Listings, NEW d,
           listings' = listings, \A e \in Ids : appeals'[e] # appeals[e] => e = ChallengeOf(l),
           \A m \in Listings : ChallengeOf(m) # 0 =>
             (challenges'[ChallengeOf(m)].resolved <=> challenges[ChallengeOf(m)].resolved),
           ChallengeOf(l) # 0, DisputeOf(l)' = d
    PROVE  Life!Move(l, StageOf(l), d)
<1> USE IdsArePolls, ListingTypes
<1>1. \A m \in Listings : /\ ChallengeOf(m)' = ChallengeOf(m)
                          /\ StageOf(m)' = StageOf(m)
  BY DEF ChallengeOf, StageOf, AppWasMade
<1>2. \A m \in Listings : m # l /\ ChallengeOf(m) # 0 => ChallengeOf(m) # ChallengeOf(l)
  BY DEF Structure, DisputesApart
<1>3. \A m \in Listings : m # l => DisputeOf(m)' = DisputeOf(m)
  BY <1>1, <1>2, OthersStand
<1>4. PICK st : st = StageOf(l)
  OBVIOUS
<1>5. Life!Move(l, st, d)
  BY <1>1, <1>3, <1>4, MoveOfOne
<1>6. QED
  BY <1>4, <1>5

LEMMA AppealLives ==
    ASSUME TypeOK, Structure, NEW u \in Users, NEW l \in Listings,
           RequestAppeal(u, l) \/ GrantAppeal(l) \/ ChallengeGrantedAppeal(u, l)
    PROVE  Life!LifeNext
<1> USE IdsArePolls, ListingTypes
<1> DEFINE c == ChallengeOf(l)
<1>1. /\ (appeals[c].requester = Nobody <=> appeals[c].appealPhaseExpiry = 0)
      /\ (appeals[c].appealGranted => appeals[c].requester # Nobody)
      /\ (appeals[c].appealChallengeID # 0 => appeals[c].appealGranted)
      /\ (c = 0 => appeals[c] = NoAppeal) /\ c \in Ids /\ c <= pollNonce
  BY DEF Structure, AppealsInOrder, FreshIdsBlank
<1>2. listings' = listings /\ \A e \in Ids : appeals'[e] # appeals[e] => e = c
  BY DEF RequestAppeal, GrantAppeal, ChallengeGrantedAppeal
<1>3. \A m \in Listings : ChallengeOf(m) # 0 =>
          (challenges'[ChallengeOf(m)].resolved <=> challenges[ChallengeOf(m)].resolved)
  <2>1. CASE ChallengeGrantedAppeal(u, l)
    <3>1. \A m \in Listings : ChallengeOf(m) # pollNonce + 1
      BY DEF Structure, FreshIdsBlank
    <3>2. \A e \in Ids : e # pollNonce + 1 => challenges'[e] = challenges[e]
      BY <2>1 DEF ChallengeGrantedAppeal
    <3>3. QED
      BY <3>1, <3>2
  <2>2. CASE RequestAppeal(u, l) \/ GrantAppeal(l)
    BY <2>2 DEF RequestAppeal, GrantAppeal
  <2>3. QED
    BY <2>1, <2>2
<1>4. ASSUME c # 0, NEW d, DisputeOf(l)' = d
      PROVE  Life!Move(l, StageOf(l), d)
  BY <1>2, <1>3, <1>4, AppealStepLives
<1>5. ChallengeOf(l)' = c
  BY <1>2 DEF ChallengeOf
<1>6. ASSUME c # 0
      PROVE  ChallengeExists(l) /\ ChallengeExists(l)'
  <2>1. ChallengeExists(l)
    BY <1>6, ChallengedOrNot
  <2>2. QED
    BY <1>3, <1>5, <1>6, <2>1 DEF ChallengeExists
<1>7. CASE RequestAppeal(u, l)
  <2>1. c # 0 /\ appeals[c].requester = Nobody
    BY <1>7 DEF RequestAppeal, Ended, Exists
  <2>2. /\ appeals'[c].requester = u /\ u # Nobody
        /\ (appeals'[c].appealGranted <=> appeals[c].appealGranted)
        /\ appeals'[c].appealChallengeID = appeals[c].appealChallengeID
    BY <1>7, UsersAssumption DEF RequestAppeal, Appeal
  <2>3. DisputeOf(l) = "voting" /\ DisputeOf(l)' = "appealed"
    BY <1>1, <1>5, <1>6, <2>1, <2>2 DEF DisputeOf, AppealOf
  <2>4. Life!Appealed(l)
    BY <1>4, <2>1, <2>3, NoDispute DEF Life!Appealed
  <2>5. QED
    BY <2>4 DEF Life!LifeNext
<1>8. CASE GrantAppeal(l)
  <2>1. c # 0 /\ appeals[c].appealPhaseExpiry # 0 /\ ~appeals[c].appealGranted
    BY <1>1, <1>8, TimeType DEF GrantAppeal, NoAppeal
  <2>2. /\ appeals'[c].requester = appeals[c].requester
        /\ appeals'[c].appealGranted
        /\ appeals'[c].appealChallengeID = appeals[c].appealChallengeID
    BY <1>8 DEF GrantAppeal, Appeal
  <2>3. DisputeOf(l) = "appealed" /\ DisputeOf(l)' = "granted"
    BY <1>1, <1>5, <1>6, <2>1, <2>2 DEF DisputeOf, AppealOf
  <2>4. Life!Granted(l)
    BY <1>4, <2>1, <2>3, NoDispute DEF Life!Granted
  <2>5. QED
    BY <2>4 DEF Life!LifeNext
<1>9. CASE ChallengeGrantedAppeal(u, l)
  <2>1. c # 0 /\ appeals[c].appealGranted /\ appeals[c].appealChallengeID = 0
    BY <1>1, <1>9 DEF ChallengeGrantedAppeal, NoAppeal
  <2>2. appeals'[c].appealChallengeID = pollNonce + 1 /\ pollNonce + 1 # 0
    BY <1>1, <1>9 DEF ChallengeGrantedAppeal, Appeal
  <2>3. DisputeOf(l) = "granted" /\ DisputeOf(l)' = "vetoing"
    BY <1>5, <1>6, <2>1, <2>2 DEF DisputeOf, AppealOf
  <2>4. Life!Vetoed(l)
    BY <1>4, <2>1, <2>3, NoDispute DEF Life!Vetoed
  <2>5. QED
    BY <2>4 DEF Life!LifeNext
<1>10. QED
  BY <1>7, <1>8, <1>9

(* A verdict lists or removes the listing. *)
LEMMA SettledStage ==
    ASSUME TypeOK, NEW l \in Listings, NEW ch, NEW overturned, NEW chs, NEW payee, NEW extra,
           Settle(l, ch, overturned, chs, payee, extra)
    PROVE  StageOf(l)' \in {"listed", "absent"}
<1>1. listings[l] \in Listing /\ listings \in [Listings -> Listing]
  BY DEF TypeOK
<1>2. \A x : Whitelist(listings[l], x).whitelisted
  BY <1>1 DEF Whitelist, Listing
<1>3. ~NoListing.whitelisted /\ NoListing.applicationExpiry = 0
  BY DEF NoListing
<1>4. listings'[l] = NoListing \/ \E x : listings'[l] = Whitelist(listings[l], x)
  BY <1>1 DEF Settle, CanSettle, Payout, RewardOf
<1>5. QED
  BY <1>2, <1>3, <1>4 DEF StageOf, AppWasMade

LEMMA VerdictLives ==
    ASSUME TypeOK, Structure, NEW l \in Listings, UpdateStatus(l), ~CanBeWhitelisted(l)
    PROVE  Life!LifeNext
<1> USE IdsArePolls, ListingTypes
<1> DEFINE c == ChallengeOf(l)
<1>1. PICK done : Concludes(l, done)
  BY VerdictConcludes
<1>2. /\ ChallengeOf(l)' = 0
      /\ \A m \in Listings : m # l => listings'[m] = listings[m]
      /\ \A m \in Listings : m # l => ChallengeOf(m)' = ChallengeOf(m) /\ StageOf(m)' = StageOf(m)
  BY <1>1 DEF Concludes, ChallengeOf, StageOf, AppWasMade
<1>3. DisputeOf(l)' = "none"
  BY <1>2 DEF DisputeOf, ChallengeExists
<1>4. \A m \in Listings : m # l => DisputeOf(m)' = DisputeOf(m)
  <2>1. \A m \in Listings : m # l /\ ChallengeOf(m) # 0 =>
            ChallengeOf(m) # c /\ ChallengeOf(m) \notin done
    <3>1. \A m \in Listings : m # l /\ ChallengeOf(m) # 0 => ChallengeOf(m) # c
      BY DEF Structure, DisputesApart
    <3>2. \A m \in Listings : AppealOf(l).appealChallengeID # 0 =>
              AppealOf(l).appealChallengeID # ChallengeOf(m)
      BY DEF Structure, DisputesApart, AppealOf
    <3>3. QED
      BY <1>1, <3>1, <3>2 DEF Concludes
  <2>2. QED
    BY <1>1, <1>2, <2>1, OthersStand DEF Concludes
<1>5. PICK st \in {"listed", "absent"} : st = StageOf(l)'
  BY SettledStage DEF UpdateStatus, ResolveChallenge, ResolveAppeal, ResolveAppealChallenge
<1>6. Life!Move(l, st, "none")
  BY <1>2, <1>3, <1>4, <1>5, MoveOfOne
<1>7. DisputeOf(l) # "none"
  BY DEF UpdateStatus, DisputeOf
<1>8. Life!Verdict(l)
  BY <1>6, <1>7, NoDispute DEF Life!Verdict
<1>9. QED
  BY <1>8 DEF Life!LifeNext

LEMMA LifeNext == TypeOK /\ Structure /\ [Next]_vars => [Life!LifeNext]_(Life!lifeVars)
<1> SUFFICES ASSUME TypeOK, Structure, [Next]_vars PROVE [Life!LifeNext]_(Life!lifeVars)
  OBVIOUS
<1>1. ASSUME UNCHANGED <<pollNonce, listings, appeals>>, SameDisputes
      PROVE  UNCHANGED Life!lifeVars
  <2>1. \A m \in Listings : StageOf(m)' = StageOf(m)
    BY <1>1 DEF StageOf, AppWasMade
  <2>2. QED
    BY <1>1, <2>1, DisputesStand, StandStill
<1>2. ASSUME UNCHANGED <<pollNonce, listings, challenges, appeals>>
      PROVE  UNCHANGED Life!lifeVars
  BY <1>1, <1>2 DEF SameDisputes, ChallengeOf, Present, AppWasMade
<1>3. CASE Tick
  BY <1>2, <1>3 DEF Tick, Pass, disputes
<1>4. ASSUME NEW x, Reparameterize(x) \/ TransferGovernment(x) PROVE UNCHANGED Life!lifeVars
  BY <1>2, <1>4 DEF Reparameterize, TransferGovernment, tallyVars, disputes
<1>5. ASSUME NEW v, NEW c, NEW option, Vote(v, c, option) PROVE UNCHANGED Life!lifeVars
  BY <1>2, <1>5 DEF Vote, Reveal, disputes
<1>6. ASSUME NEW v \in Voters, NEW c \in Polls, ClaimReward(v, c) PROVE UNCHANGED Life!lifeVars
  BY <1>1, <1>6, ClaimKeeps DEF ClaimReward, tallyVars
<1>7. ASSUME NEW l \in Listings, UpdateStatus(l) PROVE Life!LifeNext
  BY <1>7, ListingLives, VerdictLives DEF UpdateStatus
<1>8. ASSUME NEW l \in Listings, NEW u \in Users, NEW n \in Amounts,
             Apply(u, l, n) \/ Deposit(u, l, n) \/ Withdraw(u, l, n)
      PROVE  [Life!LifeNext]_(Life!lifeVars)
  BY <1>8, PublisherLives
<1>9. ASSUME NEW l \in Listings, NEW u \in Users, Exit(u, l) PROVE Life!LifeNext
  BY <1>9, RemovalLives DEF Exit, Present
<1>10. ASSUME NEW l \in Listings, NEW u \in Users, ChallengeListing(u, l) PROVE Life!LifeNext
  BY <1>10, RemovalLives, StartChallengeLives DEF ChallengeListing, TouchAndRemove, Present
<1>11. ASSUME NEW l \in Listings, NEW u \in Users,
              RequestAppeal(u, l) \/ GrantAppeal(l) \/ ChallengeGrantedAppeal(u, l)
       PROVE  Life!LifeNext
  BY <1>11, AppealLives
<1>12. ASSUME NEW l \in Listings, GrantAppeal(l) PROVE Life!LifeNext
  BY <1>11, <1>12, OwnerAssumption
<1>13. CASE UNCHANGED vars
  BY <1>2, <1>13 DEF vars, tallyVars, disputes
<1>14. QED
  BY <1>3, <1>4, <1>5, <1>6, <1>7, <1>8, <1>9, <1>10, <1>11, <1>12, <1>13, Zenon DEF Next

(* The registry implements the life of a listing as its users see it: a       *)
(* dispute only goes forward, ends in a verdict, and while it lasts nothing   *)
(* else lists or removes the listing.                                         *)
THEOREM RefinesLifecycle == Spec => ImplementsLifecycle
<1>1. Spec => Life!LifeSpec
  BY LifeInit, LifeNext, AlwaysStructured, PTL DEF Spec, Life!LifeSpec
<1>2. QED
  BY <1>1 DEF ImplementsLifecycle

------------------------------------------------------------------------------------
(* The registry's books.  What the tokens are for has to be read from records *)
(* that were written many steps earlier, so these must have been kept: a      *)
(* listing that is not there is blank, a fee is there only after a request,   *)
(* the challenge of an appeal stakes that fee and is itself never appealed,   *)
(* only such a challenge overturns, nobody claims before the resolution and   *)
(* every challenge has a challenger.                                          *)

BlankIfAbsent   == \A l \in Listings : ~Present(l) => listings[l] = NoListing
FeesByRequest   == \A c \in Ids : appeals[c].requester = Nobody => appeals[c].appealFeePaid = 0
VetoesStaked    ==
    \A c \in Ids : appeals[c].appealChallengeID # 0 =>
        /\ challenges[appeals[c].appealChallengeID].stake = appeals[c].appealFeePaid
        /\ ~appeals[appeals[c].appealChallengeID].appealGranted
VetoesOverturn  == \A c \in Ids : appeals[c].overturned => appeals[c].appealChallengeID # 0
NoEarlyClaims   == \A c \in Ids : ~challenges[c].resolved => challenges[c].tokenClaims = {}
ChallengersSet  == \A c \in Polls : c <= pollNonce => challenges[c].challenger # Nobody

Records == /\ BlankIfAbsent /\ FeesByRequest /\ VetoesStaked /\ VetoesOverturn
           /\ NoEarlyClaims /\ ChallengersSet

LEMMA RecordsInit == Init => Records
<1> SUFFICES ASSUME Init PROVE Records
  OBVIOUS
<1> USE IdsArePolls
<1>1. /\ \A l \in Listings : listings[l] = NoListing
      /\ \A c \in Ids : challenges[c] = NewChallenge(Nobody, 0, 0) /\ appeals[c] = NoAppeal
      /\ pollNonce = 0
  BY DEF Init, TallyInit
<1>2. \A c \in Ids : /\ ~challenges[c].resolved /\ challenges[c].tokenClaims = {}
                     /\ appeals[c].appealFeePaid = 0 /\ appeals[c].appealChallengeID = 0
                     /\ ~appeals[c].overturned
  BY <1>1 DEF NewChallenge, NoAppeal
<1>3. \A c \in Polls : ~(c <= pollNonce)
  BY <1>1, PollsAssumption
<1>4. QED
  BY <1>1, <1>2, <1>3 DEF Records, BlankIfAbsent, FeesByRequest, VetoesStaked, VetoesOverturn,
     NoEarlyClaims, ChallengersSet

(* The types a balance is reckoned with. *)
LEMMA Numbers ==
    ASSUME Typed
    PROVE  /\ TypeOK /\ tcrBalance \in Nat /\ pollNonce \in Nat
           /\ \A l \in Listings : /\ listings[l] \in Listing /\ listings[l].unstakedDeposit \in Nat
                                  /\ ChallengeOf(l) \in Ids
           /\ \A c \in Ids : /\ challenges[c] \in Challenge /\ appeals[c] \in Appeal
                             /\ challenges[c].stake \in Nat /\ challenges[c].rewardPool \in Nat
                             /\ challenges[c].rewardPool <= challenges[c].stake
                             /\ challenges[c].totalTokens \in Nat
                             /\ challenges[c].resolved \in BOOLEAN
                             /\ challenges[c].tokenClaims \subseteq Voters
                             /\ appeals[c].appealFeePaid \in Nat
                             /\ appeals[c].appealChallengeID \in Ids
                             /\ appeals[c].appealGranted \in BOOLEAN
                             /\ appeals[c].overturned \in BOOLEAN
  BY IdsArePolls DEF Typed, TypeOK, PoolsWithinStakes, Listing, Challenge, Appeal, ChallengeOf

(* What the operations do to the records, entry by entry. *)
LEMMA PublisherEffect ==
    ASSUME Typed, Records, NEW u \in Users, NEW l \in Listings, NEW n \in Amounts,
           Apply(u, l, n) \/ Deposit(u, l, n) \/ Withdraw(u, l, n)
    PROVE  /\ UNCHANGED <<tallyVars, settings, disputes>>
           /\ \A m \in Listings : /\ ChallengeOf(m)' = ChallengeOf(m)
                                  /\ (m # l => listings'[m] = listings[m])
           /\ Present(l)'
           /\ tcrBalance' - listings'[l].unstakedDeposit
                 = tcrBalance - listings[l].unstakedDeposit
<1>t. TypeOK /\ listings[l] \in Listing /\ listings \in [Listings -> Listing] /\ n \in Nat
      /\ tcrBalance \in Nat /\ listings[l].unstakedDeposit \in Nat
  BY Numbers, AmountsAssumption DEF TypeOK
<1>1. CASE Apply(u, l, n)
  <2>1. PICK expiry \in Nat : expiry = now + params.applyStageLen /\ expiry > 0
    BY <1>t, SettingsTypes, TimeType
  <2>2. /\ ~Present(l) /\ Take(u, n)
        /\ listings' = [listings EXCEPT ![l].owner = u, ![l].applicationExpiry = expiry,
                                        ![l].unstakedDeposit = n]
        /\ UNCHANGED <<tallyVars, settings, disputes>>
    BY <1>1, <2>1 DEF Apply, Present
  <2>3. listings[l] = NoListing
    BY <2>2 DEF Records, BlankIfAbsent
  <2>4. /\ listings'[l].applicationExpiry = expiry /\ listings'[l].unstakedDeposit = n
        /\ listings'[l].challengeID = listings[l].challengeID
        /\ \A m \in Listings : m # l => listings'[m] = listings[m]
    BY <1>t, <2>2 DEF Listing
  <2>5. listings[l].unstakedDeposit = 0
    BY <2>3 DEF NoListing
  <2>6. QED
    BY <1>t, <2>1, <2>2, <2>4, <2>5 DEF ChallengeOf, Present, AppWasMade, Take
<1>2. CASE Deposit(u, l, n) \/ Withdraw(u, l, n)
  <2>1. Present(l)
    <3>1. listings[l].owner = u /\ u # Nobody
      BY <1>2, UsersAssumption DEF Deposit, Withdraw
    <3>2. NoListing.owner = Nobody
      BY DEF NoListing
    <3>3. QED
      BY <3>1, <3>2 DEF Records, BlankIfAbsent
  <2>2. PICK d \in Int : /\ listings' = [listings EXCEPT ![l].unstakedDeposit = @ + d]
                         /\ tcrBalance' = tcrBalance + d
                         /\ UNCHANGED <<tallyVars, settings, disputes>>
    <3>1. CASE Deposit(u, l, n)
      <4>1. /\ listings' = [listings EXCEPT ![l].unstakedDeposit = @ + n]
            /\ tcrBalance' = tcrBalance + n
            /\ UNCHANGED <<tallyVars, settings, disputes>>
        BY <3>1 DEF Deposit, Take
      <4>2. n \in Int
        BY <1>t
      <4>3. QED
        BY <4>1, <4>2
    <3>2. CASE Withdraw(u, l, n)
      <4>1. /\ listings' = [listings EXCEPT ![l].unstakedDeposit = @ - n]
            /\ tcrBalance' = tcrBalance - n
            /\ UNCHANGED <<tallyVars, settings, disputes>>
        BY <3>2 DEF Withdraw, Pay
      <4>2. -n \in Int /\ tcrBalance - n = tcrBalance + (-n)
        BY <1>t
      <4>3. [listings EXCEPT ![l].unstakedDeposit = @ - n]
               = [listings EXCEPT ![l].unstakedDeposit = @ + (-n)]
        BY <1>t
      <4>4. QED
        BY <4>1, <4>2, <4>3
    <3>3. QED
      BY <1>2, <3>1, <3>2
  <2>3. /\ listings'[l].applicationExpiry = listings[l].applicationExpiry
        /\ listings'[l].whitelisted = listings[l].whitelisted
        /\ listings'[l].challengeID = listings[l].challengeID
        /\ listings'[l].unstakedDeposit = listings[l].unstakedDeposit + d
        /\ \A m \in Listings : m # l => listings'[m] = listings[m]
    BY <1>t, <2>2 DEF Listing
  <2>4. QED
    BY <1>t, <2>1, <2>2, <2>3 DEF ChallengeOf, Present, AppWasMade
<1>3. QED
  BY <1>1, <1>2

LEMMA RemovalEffect ==
    ASSUME Typed, Structure, NEW l \in Listings, Unchallenged(l), ResetListing(l)
    PROVE  /\ \A m \in Listings : /\ ChallengeOf(m)' = ChallengeOf(m)
                                  /\ (m # l => listings'[m] = listings[m])
           /\ listings'[l] = NoListing
           /\ tcrBalance' - listings'[l].unstakedDeposit
                 = tcrBalance - listings[l].unstakedDeposit
<1>1. ChallengeOf(l) = 0 /\ listings \in [Listings -> Listing]
      /\ tcrBalance \in Nat /\ listings[l].unstakedDeposit \in Nat
  BY Numbers, ChallengedOrNot DEF TypeOK
<1>2. listings' = [listings EXCEPT ![l] = NoListing] /\ NoListing.challengeID = 0
      /\ NoListing.unstakedDeposit = 0 /\ tcrBalance' = tcrBalance - listings[l].unstakedDeposit
  BY DEF ResetListing, NoListing, Pay
<1>3. QED
  BY <1>1, <1>2 DEF ChallengeOf

LEMMA ListingEffect ==
    ASSUME Typed, Structure, NEW l \in Listings, CanBeWhitelisted(l), WhitelistApplication(l)
    PROVE  /\ UNCHANGED <<tallyVars, settings, disputes, funds>>
           /\ \A m \in Listings : /\ ChallengeOf(m)' = ChallengeOf(m)
                                  /\ (m # l => listings'[m] = listings[m])
           /\ Present(l)'
           /\ tcrBalance' - listings'[l].unstakedDeposit
                 = tcrBalance - listings[l].unstakedDeposit
<1>1. ChallengeOf(l) = 0 /\ listings \in [Listings -> Listing]
      /\ tcrBalance \in Nat /\ listings[l].unstakedDeposit \in Nat
  BY Numbers, ChallengedOrNot DEF TypeOK, CanBeWhitelisted
<1>2. /\ listings' = [listings EXCEPT ![l] = Whitelist(@, 0)]
      /\ UNCHANGED <<tallyVars, settings, disputes, funds>>
  BY DEF WhitelistApplication
<1>3. /\ listings'[l].whitelisted /\ listings'[l].challengeID = 0
      /\ listings'[l].unstakedDeposit = listings[l].unstakedDeposit
      /\ \A m \in Listings : m # l => listings'[m] = listings[m]
  BY <1>1, <1>2 DEF Whitelist, Listing
<1>4. QED
  BY <1>1, <1>2, <1>3 DEF ChallengeOf, Present, funds

LEMMA StartChallengeEffect ==
    ASSUME Typed, Structure, NEW u \in Users, NEW l \in Listings, Present(l), Unchallenged(l),
           StartChallenge(u, l)
    PROVE  \E id \in Polls, stake \in Nat, pool \in Nat :
              /\ id = pollNonce + 1 /\ pollNonce' = id /\ id > pollNonce
              /\ UNCHANGED <<now, votes, appeals>>
              /\ challenges' = [challenges EXCEPT ![id] = NewChallenge(u, stake, pool)]
              /\ ChallengeOf(l) = 0 /\ ChallengeOf(l)' = id /\ Present(l)'
              /\ \A m \in Listings : m # l => listings'[m] = listings[m]
              /\ listings'[l].unstakedDeposit = listings[l].unstakedDeposit - stake
              /\ tcrBalance' = tcrBalance + stake
<1>t. /\ TypeOK /\ listings \in [Listings -> Listing] /\ pollNonce \in Nat
      /\ ChallengeOf(l) = 0 /\ listings[l] \in Listing
  BY Numbers, ChallengedOrNot DEF TypeOK
<1>1. PICK id \in Nat, stake \in Nat, pool \in Nat :
          /\ id = pollNonce + 1 /\ id > pollNonce /\ stake = params.minDeposit
          /\ pool = PoolOf(stake, params.dispensationPct)
  <2>1. params.minDeposit \in Nat /\ params.dispensationPct \in 0 .. 100
    BY <1>t, SettingsTypes
  <2>2. pollNonce + 1 \in Nat /\ pollNonce + 1 > pollNonce
    BY <1>t
  <2>3. QED
    BY <2>1, <2>2, PoolType
<1>2. /\ id \in Polls /\ pollNonce' = id
      /\ UNCHANGED <<now, votes, appeals>>
      /\ challenges' = [challenges EXCEPT ![id] = NewChallenge(u, stake, pool)]
      /\ listings' = [listings EXCEPT ![l].challengeID = id, ![l].unstakedDeposit = @ - stake]
      /\ tcrBalance' = tcrBalance + stake
  BY <1>1 DEF StartChallenge, StartPoll, Take
<1>3. /\ listings'[l].challengeID = id
      /\ listings'[l].unstakedDeposit = listings[l].unstakedDeposit - stake
      /\ listings'[l].applicationExpiry = listings[l].applicationExpiry
      /\ listings'[l].whitelisted = listings[l].whitelisted
      /\ \A m \in Listings : m # l => listings'[m] = listings[m]
  BY <1>t, <1>2 DEF Listing
<1>4. QED
  BY <1>t, <1>1, <1>2, <1>3 DEF ChallengeOf, Present, AppWasMade

(* A request puts the fee of a new appeal in; there was neither before. *)
LEMMA RequestEffect ==
    ASSUME Typed, Structure, Records, NEW u \in Users, NEW l \in Listings, RequestAppeal(u, l)
    PROVE  \E c \in Polls, fee \in Nat :
              /\ c = ChallengeOf(l) /\ fee = government.appealFee
              /\ UNCHANGED <<tallyVars, listings, challenges>>
              /\ (\A d \in Ids : d # c => appeals'[d] = appeals[d])
              /\ appeals'[c].requester = u /\ appeals'[c].appealFeePaid = fee
              /\ appeals'[c].appealGranted = appeals[c].appealGranted
              /\ appeals'[c].appealChallengeID = appeals[c].appealChallengeID
              /\ appeals'[c].overturned = appeals[c].overturned
              /\ appeals[c].appealFeePaid = 0 /\ appeals[c].appealChallengeID = 0
              /\ tcrBalance' = tcrBalance + fee
<1> USE IdsArePolls
<1>1. PICK c \in Ids : c = ChallengeOf(l)
  BY Numbers
<1>2. PICK fee \in Nat, expiry \in Nat :
          fee = government.appealFee /\ expiry = now + government.judgeAppealLen
  BY Numbers, SettingsTypes, TimeType
<1>3. /\ Ended(c) /\ appeals[c].requester = Nobody
      /\ appeals' = [appeals EXCEPT ![c].requester = u, ![c].appealFeePaid = fee,
                                    ![c].appealPhaseExpiry = expiry]
      /\ tcrBalance' = tcrBalance + fee
      /\ UNCHANGED <<tallyVars, listings, challenges>>
  BY <1>1, <1>2 DEF RequestAppeal, Take
<1>4. c \in Polls
  BY <1>3, Numbers DEF Ended, Exists
<1>5. appeals \in [Ids -> Appeal] /\ appeals[c] \in Appeal
  BY Numbers, ListingTypes
<1>6. /\ \A d \in Ids : d # c => appeals'[d] = appeals[d]
      /\ appeals'[c] = [appeals[c] EXCEPT !.requester = u, !.appealFeePaid = fee,
                                          !.appealPhaseExpiry = expiry]
  BY <1>3, <1>5
<1>7. /\ appeals'[c].requester = u /\ appeals'[c].appealFeePaid = fee
      /\ appeals'[c].appealGranted = appeals[c].appealGranted
      /\ appeals'[c].appealChallengeID = appeals[c].appealChallengeID
      /\ appeals'[c].overturned = appeals[c].overturned
  BY <1>5, <1>6 DEF Appeal
<1>8. appeals[c].appealFeePaid = 0 /\ appeals[c].appealChallengeID = 0
  BY <1>3 DEF Records, FeesByRequest, Structure, AppealsInOrder
<1>9. QED
  BY <1>1, <1>2, <1>3, <1>4, <1>6, <1>7, <1>8

LEMMA GrantEffect ==
    ASSUME Typed, Structure, NEW l \in Listings, GrantAppeal(l)
    PROVE  \E c \in Polls :
              /\ c = ChallengeOf(l)
              /\ UNCHANGED <<tallyVars, listings, challenges, tcrBalance>>
              /\ \A d \in Ids : /\ d # c => appeals'[d] = appeals[d]
                                /\ appeals'[d].requester = appeals[d].requester
                                /\ appeals'[d].appealFeePaid = appeals[d].appealFeePaid
                                /\ appeals'[d].appealChallengeID = appeals[d].appealChallengeID
                                /\ appeals'[d].overturned = appeals[d].overturned
<1> USE IdsArePolls
<1>1. PICK c \in Ids : c = ChallengeOf(l)
  BY Numbers
<1>2. PICK expiry \in Nat : expiry = now + params.challengeAppealLen
  BY Numbers, SettingsTypes, TimeType
<1>3. /\ appeals[c].appealPhaseExpiry > now
      /\ appeals' = [appeals EXCEPT ![c].appealGranted = TRUE,
                                    ![c].appealOpenToChallengeExpiry = expiry]
      /\ UNCHANGED <<tallyVars, listings, challenges, tcrBalance>>
  BY <1>1, <1>2 DEF GrantAppeal, funds
<1>4. c \in Polls
  <2>1. appeals[0].appealPhaseExpiry = 0
    BY DEF Structure, FreshIdsBlank, NoAppeal
  <2>2. now > 0 /\ now \in Nat
    BY Numbers, TimeType
  <2>3. QED
    BY <1>3, <2>1, <2>2
<1>5. appeals \in [Ids -> Appeal]
  BY Numbers, ListingTypes
<1>6. \A d \in Ids : /\ d # c => appeals'[d] = appeals[d]
                     /\ appeals'[d].requester = appeals[d].requester
                     /\ appeals'[d].appealFeePaid = appeals[d].appealFeePaid
                     /\ appeals'[d].appealChallengeID = appeals[d].appealChallengeID
                     /\ appeals'[d].overturned = appeals[d].overturned
  BY <1>3, <1>5 DEF Appeal
<1>7. QED
  BY <1>1, <1>3, <1>4, <1>6

LEMMA VetoEffect ==
    ASSUME Typed, Structure, NEW u \in Users, NEW l \in Listings, ChallengeGrantedAppeal(u, l)
    PROVE  \E c \in Polls, id \in Polls, fee \in Nat, pool \in Nat :
              /\ c = ChallengeOf(l) /\ id = pollNonce + 1 /\ pollNonce' = id /\ id > pollNonce
              /\ UNCHANGED <<now, votes, listings>>
              /\ challenges' = [challenges EXCEPT ![id] = NewChallenge(u, fee, pool)]
              /\ fee = appeals[c].appealFeePaid /\ appeals[c].appealGranted
              /\ appeals[c].appealChallengeID = 0
              /\ appeals'[c].appealChallengeID = id
              /\ \A d \in Ids : /\ d # c => appeals'[d] = appeals[d]
                                /\ appeals'[d].requester = appeals[d].requester
                                /\ appeals'[d].appealFeePaid = appeals[d].appealFeePaid
                                /\ appeals'[d].appealGranted = appeals[d].appealGranted
                                /\ appeals'[d].overturned = appeals[d].overturned
              /\ tcrBalance' = tcrBalance + fee
<1> USE IdsArePolls
<1>1. PICK c \in Ids, id \in Nat : c = ChallengeOf(l) /\ id = pollNonce + 1 /\ id > pollNonce
  <2>1. pollNonce + 1 \in Nat /\ pollNonce + 1 > pollNonce /\ ChallengeOf(l) \in Ids
    BY Numbers
  <2>2. QED
    BY <2>1
<1>2. PICK fee \in Nat, pool \in Nat :
          /\ fee = appeals[c].appealFeePaid
          /\ pool = PoolOf(fee, government.appealChallengeVoteDispensationPct)
  <2>1. government.appealChallengeVoteDispensationPct \in 0 .. 100 /\ appeals[c].appealFeePaid \in Nat
    BY Numbers, SettingsTypes
  <2>2. QED
    BY <2>1, PoolType
<1>3. /\ id \in Polls /\ pollNonce' = id
      /\ UNCHANGED <<now, votes, listings>>
      /\ challenges' = [challenges EXCEPT ![id] = NewChallenge(u, fee, pool)]
      /\ appeals' = [appeals EXCEPT ![c].appealChallengeID = id]
      /\ appeals[c].appealGranted /\ appeals[c].appealChallengeID = 0
      /\ tcrBalance' = tcrBalance + fee
  BY <1>1, <1>2 DEF ChallengeGrantedAppeal, StartPoll, Take
<1>4. c \in Polls
  <2>1. ~appeals[0].appealGranted
    BY DEF Structure, FreshIdsBlank, NoAppeal
  <2>2. QED
    BY <1>3, <2>1
<1>5. appeals \in [Ids -> Appeal] /\ pollNonce \in Nat
  BY Numbers, ListingTypes
<1>6. /\ appeals'[c].appealChallengeID = id
      /\ \A d \in Ids : /\ d # c => appeals'[d] = appeals[d]
                        /\ appeals'[d].requester = appeals[d].requester
                        /\ appeals'[d].appealFeePaid = appeals[d].appealFeePaid
                        /\ appeals'[d].appealGranted = appeals[d].appealGranted
                        /\ appeals'[d].overturned = appeals[d].overturned
  BY <1>3, <1>5 DEF Appeal
<1>7. QED
  BY <1>1, <1>2, <1>3, <1>4, <1>5, <1>6

(* Whoever has all the tokens that are left gets all of the pool that is left. *)
LEMMA ShareType ==
    ASSUME NEW n \in Nat, NEW total \in Nat, NEW pool \in Nat, total > 0, n <= total
    PROVE  /\ (n * pool) \div total \in Nat
           /\ (n = total => (n * pool) \div total = pool)
<1>1. n * pool \in Nat
  OBVIOUS
<1>2. (total * pool) \div total = pool
  OBVIOUS
<1>3. QED
  BY <1>1, <1>2, QuotientType

LEMMA ClaimEffect ==
    ASSUME Typed, NEW v \in Voters, NEW c \in Polls, ClaimReward(v, c)
    PROVE  \E tokens \in Nat, reward \in Nat :
              /\ tokens = votes[c][v][2] /\ v \in Entitled(c) \ challenges[c].tokenClaims
              /\ challenges[c].resolved
              /\ challenges[c].totalTokens > 0 /\ challenges[c].totalTokens >= tokens
              /\ challenges[c].rewardPool >= reward
              /\ (challenges[c].totalTokens = tokens => challenges[c].rewardPool = reward)
              /\ UNCHANGED <<tallyVars, listings, appeals>>
              /\ \A d \in Ids \ {c} : challenges'[d] = challenges[d]
              /\ challenges'[c] = [challenges[c] EXCEPT !.totalTokens = @ - tokens,
                                                        !.rewardPool = @ - reward,
                                                        !.tokenClaims = @ \cup {v}]
              /\ challenges'[c].totalTokens = challenges[c].totalTokens - tokens
              /\ challenges'[c].rewardPool = challenges[c].rewardPool - reward
              /\ challenges'[c].tokenClaims = challenges[c].tokenClaims \cup {v}
              /\ challenges'[c].stake = challenges[c].stake
              /\ challenges'[c].resolved = challenges[c].resolved
              /\ challenges'[c].challenger = challenges[c].challenger
              /\ tcrBalance' = tcrBalance - reward
<1> USE IdsArePolls
<1>t. c \in Ids /\ challenges \in [Ids -> Challenge] /\ challenges[c] \in Challenge /\ TypeOK
  BY Numbers, ListingTypes
<1>1. PICK tokens \in Nat : tokens = votes[c][v][2]
  <2>1. votes[c][v] # NoVote
    BY DEF ClaimReward, Entitled, Losers, Winners, Revealed
  <2>2. votes[c][v] \in Options \X Nat
    BY <1>t, <2>1 DEF TypeOK
  <2>3. QED
    BY <2>2
<1>2. PICK pool \in Nat, total \in Nat :
          pool = challenges[c].rewardPool /\ total = challenges[c].totalTokens
  BY Numbers
<1>3. total > 0 /\ total >= tokens
  BY <1>1, <1>2 DEF ClaimReward
<1>4. PICK reward \in Nat : /\ reward = VoterReward(v, c)
                            /\ (tokens = total => reward = pool)
  BY <1>1, <1>2, <1>3, ShareType DEF VoterReward
<1>5. /\ pool >= reward /\ v \in Entitled(c) \ challenges[c].tokenClaims
      /\ challenges[c].resolved
      /\ challenges' = [challenges EXCEPT ![c].totalTokens = @ - tokens,
                                          ![c].rewardPool = @ - reward,
                                          ![c].tokenClaims = @ \cup {v}]
      /\ tcrBalance' = tcrBalance - reward
      /\ UNCHANGED <<tallyVars, listings, appeals>>
  BY <1>1, <1>2, <1>4 DEF ClaimReward, Pay
<1>6. /\ \A d \in Ids \ {c} : challenges'[d] = challenges[d]
      /\ challenges'[c] = [challenges[c] EXCEPT !.totalTokens = @ - tokens,
                                                !.rewardPool = @ - reward,
                                                !.tokenClaims = @ \cup {v}]
  BY <1>t, <1>5
<1>7. /\ challenges'[c].totalTokens = challenges[c].totalTokens - tokens
      /\ challenges'[c].rewardPool = challenges[c].rewardPool - reward
      /\ challenges'[c].tokenClaims = challenges[c].tokenClaims \cup {v}
      /\ challenges'[c].stake = challenges[c].stake
      /\ challenges'[c].resolved = challenges[c].resolved
      /\ challenges'[c].challenger = challenges[c].challenger
  BY <1>t, <1>6 DEF Challenge
<1>8. QED
  BY <1>1, <1>2, <1>3, <1>4, <1>5, <1>6, <1>7

------------------------------------------------------------------------------------
(* How a dispute ends: with the challenge as ch, the others as chs, decided   *)
(* against the vote if over, and extra paid to payee.  Without a challenge of *)
(* the appeal it is the stakes and the fee that are given out; with one, that *)
(* challenge is resolved as well.                                             *)
Veto(l) == AppealOf(l).appealChallengeID
Outcome(l, ch, over, chs, payee, extra) ==
    LET c == ChallengeOf(l) IN
    /\ Settle(l, ch, over, chs, payee, extra)
    /\ ch.challenger = challenges[c].challenger /\ ch.tokenClaims = challenges[c].tokenClaims
    /\ ch.rewardPool <= ch.stake /\ ch.stake >= challenges[c].stake
    /\ (over <=> appeals'[c].appealGranted /\ ~appeals'[c].overturned)
    /\ \/ /\ Veto(l) = 0 /\ appeals' = appeals /\ chs = challenges
          /\ \A h \in Nat : appeals[c].appealFeePaid = 2 * h => 2 * ch.stake + extra = OwedTo(c)
       \/ /\ Veto(l) \in Polls /\ Veto(l) # c /\ Ended(Veto(l)) /\ ~challenges[Veto(l)].resolved
          /\ appeals' = [appeals EXCEPT ![c].overturned = ~over]
          /\ ch = challenges[c]
          /\ chs = [challenges EXCEPT ![Veto(l)] = Resolve(@, WinningTokens(Veto(l)))]
          /\ extra = Reward(challenges[Veto(l)], WinningTokens(Veto(l)))

(* The halves of an even fee are the same. *)
LEMMA SplitFee ==
    ASSUME NEW ch \in Challenge, NEW fee \in Nat, ch.rewardPool <= ch.stake
    PROVE  \E split \in Challenge :
              /\ split = [ch EXCEPT !.rewardPool = @ + fee \div 2,
                                    !.stake = @ + (fee - fee \div 2)]
              /\ split.challenger = ch.challenger /\ split.tokenClaims = ch.tokenClaims
              /\ split.rewardPool <= split.stake /\ split.stake >= ch.stake
              /\ \A h \in Nat : fee = 2 * h => 2 * split.stake = 2 * ch.stake + fee
<1>1. PICK half \in Nat, rest \in Nat :
          /\ half = fee \div 2 /\ rest = fee - half /\ half <= rest
          /\ \A h \in Nat : fee = 2 * h => 2 * rest = fee
  <2>1. \A h \in Nat : fee = 2 * h => 2 * (fee - fee \div 2) = fee
    OBVIOUS
  <2>2. QED
    BY <2>1, HalfType
<1>2. PICK pool \in Nat, stake \in Nat : pool = ch.rewardPool /\ stake = ch.stake
  BY DEF Challenge
<1>3. PICK newPool \in Nat, newStake \in Nat :
          newPool = pool + half /\ newStake = stake + rest
  OBVIOUS
<1> DEFINE shared == [ch EXCEPT !.rewardPool = newPool]
           split  == [shared EXCEPT !.stake = newStake]
<1>4. /\ shared \in Challenge /\ shared.rewardPool = newPool /\ shared.stake = ch.stake
      /\ shared.challenger = ch.challenger /\ shared.tokenClaims = ch.tokenClaims
  BY DEF Challenge
<1>5. /\ split \in Challenge /\ split.rewardPool = newPool /\ split.stake = newStake
      /\ split.challenger = ch.challenger /\ split.tokenClaims = ch.tokenClaims
  <2> HIDE DEF shared
  <2>1. QED
    BY <1>4 DEF Challenge
<1>6. split = [ch EXCEPT !.rewardPool = @ + fee \div 2, !.stake = @ + (fee - fee \div 2)]
  BY <1>1, <1>2, <1>3
<1> HIDE DEF shared, split
<1>7. newPool <= newStake /\ newStake >= stake
  BY <1>1, <1>2, <1>3
<1>8. \A h \in Nat : fee = 2 * h => 2 * newStake = 2 * stake + fee
  BY <1>1, <1>2, <1>3
<1>9. QED
  BY <1>2, <1>5, <1>6, <1>7, <1>8

LEMMA Outcomes ==
    ASSUME Typed, Structure, Records, NEW l \in Listings, UpdateStatus(l), ~CanBeWhitelisted(l)
    PROVE  /\ ChallengeOf(l) \in Polls
           /\ \E ch \in Challenge, over \in BOOLEAN, chs \in [Ids -> Challenge], extra \in Nat :
                 \E payee : Outcome(l, ch, over, chs, payee, extra)
<1> USE IdsArePolls
<1> DEFINE c == ChallengeOf(l)
<1>1. /\ c \in Polls /\ challenges[c] \in Challenge /\ challenges \in [Ids -> Challenge]
      /\ challenges[c].rewardPool <= challenges[c].stake /\ challenges[c].stake \in Nat
      /\ appeals[c].appealFeePaid \in Nat /\ appeals[c].appealGranted \in BOOLEAN
  <2>1. TypeOK /\ c \in Ids
    BY Numbers
  <2>2. ChallengeExists(l)
    BY DEF UpdateStatus
  <2>3. c # 0
    BY <2>1, <2>2, ChallengedOrNot
  <2>4. QED
    BY <2>1, <2>3, Numbers, ListingTypes
<1>2. /\ (appeals[c].requester = Nobody <=> appeals[c].appealPhaseExpiry = 0)
      /\ (appeals[c].appealGranted => appeals[c].requester # Nobody)
      /\ (appeals[c].appealChallengeID # 0 => appeals[c].appealGranted)
      /\ (appeals[c].requester = Nobody => appeals[c].appealFeePaid = 0)
      /\ (appeals[c].overturned => appeals[c].appealChallengeID # 0)
  BY <1>1 DEF Structure, AppealsInOrder, Records, FeesByRequest, VetoesOverturn
<1>3. CASE ChallengeCanBeResolved(l) /\ ResolveChallenge(l)
  <2>1. /\ Settle(l, challenges[c], FALSE, challenges, Nobody, 0) /\ appeals' = appeals
        /\ ~appeals[c].appealGranted /\ appeals[c].appealChallengeID = 0
        /\ appeals[c].appealFeePaid = 0
    BY <1>2, <1>3 DEF ChallengeCanBeResolved, ResolveChallenge, AppealOf
  <2>2. OwedTo(c) = 2 * challenges[c].stake + 0
    BY <1>1, <2>1 DEF OwedTo
  <2>3. PICK ch \in Challenge : ch = challenges[c] /\ ch.stake >= challenges[c].stake
    BY <1>1
  <2>4. Settle(l, ch, FALSE, challenges, Nobody, 0)
    BY <2>1, <2>3
  <2>5. Outcome(l, ch, FALSE, challenges, Nobody, 0)
    BY <1>1, <2>1, <2>2, <2>3, <2>4 DEF Outcome, Veto, AppealOf
  <2>6. QED
    BY <1>1, <2>5
<1>4. CASE AppealCanBeResolved(l) /\ ResolveAppeal(l) /\ appeals[c].appealGranted
  <2>1. PICK fee \in Nat : fee = appeals[c].appealFeePaid
    BY <1>1
  <2>2. /\ Settle(l, challenges[c], TRUE, challenges, appeals[c].requester, fee)
        /\ appeals' = appeals /\ appeals[c].appealChallengeID = 0 /\ ~appeals[c].overturned
    BY <1>2, <1>4, <2>1 DEF AppealCanBeResolved, ResolveAppeal, AppealOf
  <2>3. OwedTo(c) = 2 * challenges[c].stake + fee
    BY <1>1, <2>1, <2>2 DEF OwedTo
  <2>4. PICK ch \in Challenge : ch = challenges[c] /\ ch.stake >= challenges[c].stake
    BY <1>1
  <2>5. PICK payee : payee = appeals[c].requester
    OBVIOUS
  <2>6. Settle(l, ch, TRUE, challenges, payee, fee)
    BY <2>2, <2>4, <2>5
  <2>7. Outcome(l, ch, TRUE, challenges, payee, fee)
    BY <1>1, <1>4, <2>1, <2>2, <2>3, <2>4, <2>6 DEF Outcome, Veto, AppealOf
  <2>8. QED
    BY <1>1, <2>7
<1>5. CASE AppealCanBeResolved(l) /\ ResolveAppeal(l) /\ ~appeals[c].appealGranted
  <2>1. PICK fee \in Nat : fee = appeals[c].appealFeePaid
    BY <1>1
  <2>2. PICK ch \in Challenge :
           /\ ch = [challenges[c] EXCEPT !.rewardPool = @ + fee \div 2,
                                         !.stake = @ + (fee - fee \div 2)]
           /\ ch.challenger = challenges[c].challenger
           /\ ch.tokenClaims = challenges[c].tokenClaims
           /\ ch.rewardPool <= ch.stake /\ ch.stake >= challenges[c].stake
           /\ \A h \in Nat : fee = 2 * h => 2 * ch.stake = 2 * challenges[c].stake + fee
    BY <1>1, SplitFee
  <2>3. /\ Settle(l, ch, FALSE, challenges, Nobody, 0)
        /\ appeals' = appeals /\ appeals[c].appealChallengeID = 0
    BY <1>2, <1>5, <2>1, <2>2 DEF ResolveAppeal, AppealOf
  <2>4. OwedTo(c) = 2 * challenges[c].stake + fee
    BY <1>1, <2>1, <2>3 DEF OwedTo
  <2>5. \A h \in Nat : fee = 2 * h => 2 * ch.stake + 0 = OwedTo(c)
    <3>1. ch.stake \in Nat
      BY DEF Challenge
    <3>2. QED
      BY <2>2, <2>4, <3>1
  <2>6. Outcome(l, ch, FALSE, challenges, Nobody, 0)
    BY <1>5, <2>1, <2>2, <2>3, <2>5 DEF Outcome, Veto, AppealOf
  <2>7. QED
    BY <1>1, <2>6
<1>6. CASE AppealChallengeCanBeResolved(l) /\ ResolveAppealChallenge(l)
  <2>1. PICK ac \in Polls : /\ ac = Veto(l) /\ ac = appeals[c].appealChallengeID
                            /\ ac # 0 /\ ac # c
    BY <1>1, <1>6, Numbers
       DEF AppealChallengeCanBeResolved, AppealOf, Veto, Structure, DisputesApart
  <2>2. PICK over \in BOOLEAN, winning \in Nat :
            (over <=> ~Passed(ac)) /\ winning = WinningTokens(ac)
    BY Numbers, TalliesType DEF Passed
  <2>3. PICK extra \in Nat : extra = Reward(challenges[ac], winning)
    BY <2>1, Numbers, RewardType
  <2>4. PICK chs \in [Ids -> Challenge] : chs = [challenges EXCEPT ![ac] = Resolve(@, winning)]
    BY <1>1, Numbers, ResolveType
  <2>5. PICK payee : payee = IF Passed(ac) THEN challenges[ac].challenger
                                           ELSE AppealOf(l).requester
    OBVIOUS
  <2>6. /\ Settle(l, challenges[c], over, chs, payee, extra)
        /\ appeals' = [appeals EXCEPT ![c].overturned = ~over]
        /\ Ended(ac) /\ ~challenges[ac].resolved
    <3>1. (~Passed(ac)) = over /\ Passed(ac) = ~over
      BY <2>2 DEF Passed
    <3>2. QED
      BY <1>6, <2>1, <2>2, <2>3, <2>4, <2>5, <3>1, Zenon DEF ResolveAppealChallenge, AppealOf
  <2>7. (over <=> appeals'[c].appealGranted /\ ~appeals'[c].overturned)
    <3>1. appeals'[c].appealGranted = appeals[c].appealGranted /\ appeals'[c].overturned = ~over
      BY <1>1, <2>6, Numbers, ListingTypes DEF Appeal
    <3>2. QED
      BY <1>2, <2>1, <3>1
  <2>8. Outcome(l, challenges[c], over, chs, payee, extra)
    BY <1>1, <2>1, <2>2, <2>3, <2>4, <2>6, <2>7 DEF Outcome
  <2>9. QED
    BY <1>1, <2>8
<1>7. QED
  BY <1>1, <1>3, <1>4, <1>5, <1>6, Zenon DEF UpdateStatus

(* What a settlement leaves: for the one challenge all that is known of it, *)
(* and for the tokens, deposits less what goes to the parties.              *)
LEMMA OutcomeEffect ==
    ASSUME Typed, Structure, NEW l \in Listings, ChallengeOf(l) \in Polls,
           NEW ch \in Challenge, NEW over \in BOOLEAN, NEW chs \in [Ids -> Challenge],
           NEW extra \in Nat, NEW payee, Outcome(l, ch, over, chs, payee, extra)
    PROVE  \E winning \in Nat, reward \in Nat :
              /\ winning = (IF over THEN LosingTokens(ChallengeOf(l)) ELSE WinningTokens(ChallengeOf(l)))
              /\ reward = Reward(ch, winning) /\ reward >= challenges[ChallengeOf(l)].stake
              /\ Ended(ChallengeOf(l)) /\ UNCHANGED tallyVars
              /\ ChallengeOf(l)' = 0
              /\ (Present(l)' \/ listings'[l] = NoListing)
              /\ \A m \in Listings : m # l => listings'[m] = listings[m]
              /\ challenges'[ChallengeOf(l)] = Resolve(ch, winning)
              /\ \A d \in Ids : d # ChallengeOf(l) => challenges'[d] = chs[d]
              /\ (listings'[l].whitelisted <=> Kept(ChallengeOf(l), over))
              /\ tcrBalance' - listings'[l].unstakedDeposit
                    = tcrBalance - listings[l].unstakedDeposit - reward - extra
              /\ (listings'[l].whitelisted =>
                    listings'[l].unstakedDeposit = listings[l].unstakedDeposit + reward)
              /\ (~listings'[l].whitelisted =>
                    balanceOf' = Credit(Credit(Credit(balanceOf, listings[l].owner,
                                                      listings[l].unstakedDeposit),
                                               ch.challenger, reward), payee, extra))
<1> USE IdsArePolls
<1>1. PICK c \in Polls, deposit \in Nat, kept \in BOOLEAN :
          /\ c = ChallengeOf(l) /\ deposit = listings[l].unstakedDeposit
          /\ kept = Kept(c, over)
  BY Numbers DEF Kept
<1>2. PICK winning \in Nat :
          winning = IF over THEN LosingTokens(c) ELSE WinningTokens(c)
  BY Numbers, TalliesType
<1>3. PICK reward \in Nat : reward = Reward(ch, winning) /\ reward >= challenges[c].stake
  <2>1. ch.rewardPool <= ch.stake /\ ch.stake >= challenges[c].stake
    BY <1>1 DEF Outcome
  <2>2. ch.stake \in Nat /\ ch.rewardPool \in Nat /\ challenges[c].stake \in Nat
    BY Numbers DEF Challenge
  <2>3. Reward(ch, winning) \in Nat /\ Reward(ch, winning) >= challenges[c].stake
    BY <2>1, <2>2 DEF Reward
  <2>4. QED
    BY <2>3
<1>4. /\ Ended(c) /\ UNCHANGED tallyVars
      /\ challenges' = [chs EXCEPT ![c] = Resolve(ch, winning)]
      /\ listings' = [listings EXCEPT ![l] = IF kept THEN Whitelist(@, reward) ELSE NoListing]
      /\ tcrBalance' = tcrBalance - (IF kept THEN extra ELSE deposit + reward + extra)
      /\ (~kept => balanceOf' = Credit(Credit(Credit(balanceOf, listings[l].owner, deposit),
                                               ch.challenger, reward), payee, extra))
  <2>1. Settle(l, ch, over, chs, payee, extra)
    BY DEF Outcome
  <2>2. QED
    BY <1>1, <1>2, <1>3, <2>1 DEF Settle, CanSettle, Payout, RewardOf
<1>5. /\ challenges'[c] = Resolve(ch, winning)
      /\ \A d \in Ids : d # c => challenges'[d] = chs[d]
  BY <1>4
<1>6. /\ listings \in [Listings -> Listing] /\ listings[l] \in Listing /\ tcrBalance \in Nat
  BY Numbers DEF TypeOK
<1>7. /\ Whitelist(listings[l], reward).whitelisted /\ Whitelist(listings[l], reward).challengeID = 0
      /\ Whitelist(listings[l], reward).unstakedDeposit = deposit + reward
  BY <1>1, <1>6 DEF Whitelist, Listing
<1>8. ~NoListing.whitelisted /\ NoListing.challengeID = 0 /\ NoListing.unstakedDeposit = 0
  BY DEF NoListing
<1>9. /\ \A m \in Listings : m # l => listings'[m] = listings[m]
      /\ listings'[l] = IF kept THEN Whitelist(listings[l], reward) ELSE NoListing
  BY <1>4, <1>6
<1>10. /\ ChallengeOf(l)' = 0 /\ (Present(l)' \/ listings'[l] = NoListing)
       /\ (listings'[l].whitelisted <=> kept)
  BY <1>7, <1>8, <1>9 DEF ChallengeOf, Present
<1>11. /\ tcrBalance' - listings'[l].unstakedDeposit = tcrBalance - deposit - reward - extra
       /\ (listings'[l].whitelisted => listings'[l].unstakedDeposit = deposit + reward)
  BY <1>4, <1>6, <1>7, <1>8, <1>9, <1>10
<1>12. QED
  BY <1>1, <1>2, <1>3, <1>4, <1>5, <1>9, <1>10, <1>11

------------------------------------------------------------------------------------
(* The steps that move tokens, and all others. *)
Idle == UNCHANGED <<pollNonce, listings, challenges, appeals, tcrBalance>>

LEMMA BookSteps ==
    ASSUME [Next]_vars
    PROVE  \/ Idle
           \/ \E u \in Users, l \in Listings, n \in Amounts :
                 Apply(u, l, n) \/ Deposit(u, l, n) \/ Withdraw(u, l, n)
           \/ \E l \in Listings : /\ Unchallenged(l) /\ ResetListing(l)
                                  /\ UNCHANGED <<tallyVars, settings, disputes>>
           \/ \E l \in Listings : CanBeWhitelisted(l) /\ WhitelistApplication(l)
           \/ \E u \in Users, l \in Listings :
                 Present(l) /\ Unchallenged(l) /\ StartChallenge(u, l)
           \/ \E u \in Users, l \in Listings : RequestAppeal(u, l)
           \/ \E l \in Listings : GrantAppeal(l)
           \/ \E u \in Users, l \in Listings : ChallengeGrantedAppeal(u, l)
           \/ \E v \in Voters, c \in Polls : ClaimReward(v, c)
           \/ \E l \in Listings : UpdateStatus(l) /\ ~CanBeWhitelisted(l)
<1>1. CASE Tick
  BY <1>1 DEF Tick, Pass, disputes, funds, Idle
<1>2. ASSUME NEW x, Reparameterize(x) \/ TransferGovernment(x) PROVE Idle
  BY <1>2 DEF Reparameterize, TransferGovernment, tallyVars, disputes, funds, Idle
<1>3. ASSUME NEW v, NEW c, NEW option, Vote(v, c, option) PROVE Idle
  BY <1>3 DEF Vote, Reveal, disputes, funds, Idle
<1>4. ASSUME NEW l \in Listings, UpdateStatus(l), CanBeWhitelisted(l)
      PROVE  WhitelistApplication(l)
  BY <1>4 DEF UpdateStatus
<1>5. ASSUME NEW l \in Listings, NEW u \in Users, Exit(u, l)
      PROVE  Unchallenged(l) /\ ResetListing(l) /\ UNCHANGED <<tallyVars, settings, disputes>>
  BY <1>5 DEF Exit
<1>6. ASSUME NEW l \in Listings, NEW u \in Users, ChallengeListing(u, l)
      PROVE  \/ /\ Unchallenged(l) /\ ResetListing(l)
                /\ UNCHANGED <<tallyVars, settings, disputes>>
             \/ Present(l) /\ Unchallenged(l) /\ StartChallenge(u, l)
  BY <1>6 DEF ChallengeListing, TouchAndRemove, Present
<1>7. CASE UNCHANGED vars
  BY <1>7 DEF vars, tallyVars, disputes, funds, Idle
<1>8. QED
  BY <1>1, <1>2, <1>3, <1>4, <1>5, <1>6, <1>7, Zenon DEF Next

(* A new challenge has an id nothing refers to. *)
Enters(u, id, stake) ==
    /\ pollNonce' = id /\ id = pollNonce + 1
    /\ \E pool \in Nat : challenges' = [challenges EXCEPT ![id] = NewChallenge(u, stake, pool)]

LEMMA NewEntry ==
    ASSUME Typed, Structure, NoEarlyClaims, ChallengersSet,
           NEW u \in Users, NEW id \in Polls, NEW stake \in Nat, Enters(u, id, stake)
    PROVE  /\ NoEarlyClaims' /\ ChallengersSet'
           /\ (\A d \in Ids : d # id => challenges'[d] = challenges[d])
           /\ \A d \in Ids : appeals[d].appealChallengeID # id
           /\ appeals[id] = NoAppeal
<1> USE IdsArePolls
<1>t. /\ TypeOK /\ pollNonce \in Nat
      /\ \A c \in Ids : challenges[c] \in Challenge /\ appeals[c].appealChallengeID \in Ids
  BY Numbers
<1>0. PICK pool \in Nat : challenges' = [challenges EXCEPT ![id] = NewChallenge(u, stake, pool)]
  BY DEF Enters
<1>n. pollNonce' = id /\ id = pollNonce + 1
  BY DEF Enters
<1>1. /\ challenges'[id] = NewChallenge(u, stake, pool)
      /\ (\A d \in Ids : d # id => challenges'[d] = challenges[d])
  BY <1>0, <1>t, ListingTypes
<1>2. /\ challenges'[id].challenger = u /\ u # Nobody /\ challenges'[id].tokenClaims = {}
      /\ challenges'[id].stake = stake /\ challenges'[id].resolved = FALSE
  BY <1>1, UsersAssumption DEF NewChallenge
<1>3. NoEarlyClaims'
  BY <1>1, <1>2 DEF NoEarlyClaims
<1>4. ChallengersSet'
  <2>1. \A n \in Nat, d \in Nat : d <= n + 1 => d = n + 1 \/ d <= n
    OBVIOUS
  <2>2. \A d \in Polls : d <= pollNonce' => d = id \/ d <= pollNonce
    BY <1>t, <1>n, <2>1, PollsAssumption
  <2>3. QED
    BY <1>1, <1>2, <2>2 DEF ChallengersSet
<1>5. id > pollNonce /\ appeals[id] = NoAppeal /\ ~challenges[id].resolved
  BY <1>t, <1>n DEF Structure, FreshIdsBlank
<1>6. \A d \in Ids : appeals[d].appealChallengeID # id
  <2>1. id \in Nat /\ \A d \in Ids : appeals[d].appealChallengeID \in Nat
    BY <1>t, PollsAssumption
  <2>2. \A d \in Ids : appeals[d].appealChallengeID <= pollNonce
    BY DEF Structure, FreshIdsBlank
  <2>3. QED
    BY <1>t, <1>5, <2>1, <2>2
<1>7. QED
  BY <1>1, <1>2, <1>3, <1>4, <1>5, <1>6

LEMMA RecordsNext ==
    ASSUME Typed, Structure, Records, [Next]_vars
    PROVE  Records'
<1> USE IdsArePolls
<1>t. /\ TypeOK /\ pollNonce \in Nat
      /\ \A c \in Ids : /\ challenges[c] \in Challenge /\ appeals[c] \in Appeal
                        /\ appeals[c].appealChallengeID \in Ids
                        /\ appeals[c].appealFeePaid \in Nat
      /\ \A l \in Listings : ChallengeOf(l) \in Ids
  BY Numbers
<1>r. /\ BlankIfAbsent /\ FeesByRequest /\ VetoesStaked /\ VetoesOverturn
      /\ NoEarlyClaims /\ ChallengersSet
  BY DEF Records
<1>0. ASSUME UNCHANGED <<pollNonce, challenges, appeals>>, BlankIfAbsent' PROVE Records'
  BY <1>0, <1>r DEF Records, FeesByRequest, VetoesStaked, VetoesOverturn,
     NoEarlyClaims, ChallengersSet
<1>b. ASSUME NEW l \in Listings, Present(l)' \/ listings'[l] = NoListing,
             \A m \in Listings : m # l => listings'[m] = listings[m]
      PROVE  BlankIfAbsent'
  BY <1>r, <1>b DEF BlankIfAbsent, Present, AppWasMade
<1>f. ASSUME listings' = listings PROVE BlankIfAbsent'
  BY <1>r, <1>f DEF BlankIfAbsent, Present, AppWasMade
<1>1. CASE Idle
  BY <1>0, <1>1, <1>f DEF Idle
<1>2. ASSUME NEW u \in Users, NEW l \in Listings, NEW n \in Amounts,
             Apply(u, l, n) \/ Deposit(u, l, n) \/ Withdraw(u, l, n)
      PROVE  Records'
  BY <1>0, <1>b, <1>2, PublisherEffect DEF tallyVars, disputes
<1>3. ASSUME NEW l \in Listings, Unchallenged(l), ResetListing(l),
             UNCHANGED <<tallyVars, settings, disputes>>
      PROVE  Records'
  BY <1>0, <1>b, <1>3, RemovalEffect DEF tallyVars, disputes
<1>4. ASSUME NEW l \in Listings, CanBeWhitelisted(l), WhitelistApplication(l) PROVE Records'
  BY <1>0, <1>b, <1>4, ListingEffect DEF tallyVars, disputes
<1>5. ASSUME NEW u \in Users, NEW l \in Listings, Present(l), Unchallenged(l), StartChallenge(u, l)
      PROVE  Records'
  <2>1. PICK id \in Polls, stake \in Nat, pool \in Nat :
              /\ id = pollNonce + 1 /\ pollNonce' = id
              /\ appeals' = appeals /\ Present(l)'
              /\ challenges' = [challenges EXCEPT ![id] = NewChallenge(u, stake, pool)]
              /\ \A m \in Listings : m # l => listings'[m] = listings[m]
    BY <1>5, StartChallengeEffect
  <2>2. /\ NoEarlyClaims' /\ ChallengersSet'
        /\ (\A d \in Ids : d # id => challenges'[d] = challenges[d])
        /\ \A d \in Ids : appeals[d].appealChallengeID # id
    <3>1. Enters(u, id, stake)
      BY <2>1 DEF Enters
    <3>0. challenges'[id].stake = stake
      BY <1>t, <2>1, ListingTypes DEF NewChallenge
    <3> HIDE IdsArePolls, <2>1
    <3>2. NoEarlyClaims' /\ ChallengersSet'
      BY <1>r, <3>1, NewEntry
    <3>3. \A d \in Ids : d # id => challenges'[d] = challenges[d]
      BY <1>r, <3>1, NewEntry
    <3>4. \A d \in Ids : appeals[d].appealChallengeID # id
      BY <1>r, <3>1, NewEntry
    <3>5. appeals[id] = NoAppeal
      BY <1>r, <3>1, NewEntry
    <3>6. QED
      BY <3>0, <3>2, <3>3, <3>4, <3>5
  <2>3. BlankIfAbsent'
    BY <1>b, <2>1
  <2>4. FeesByRequest' /\ VetoesStaked' /\ VetoesOverturn'
    BY <1>r, <2>1, <2>2 DEF FeesByRequest, VetoesStaked, VetoesOverturn
  <2>5. QED
    BY <2>2, <2>3, <2>4 DEF Records
<1>6. ASSUME NEW u \in Users, NEW l \in Listings, RequestAppeal(u, l) PROVE Records'
  <2>1. PICK c \in Polls, fee \in Nat :
              /\ UNCHANGED <<tallyVars, listings, challenges>>
              /\ (\A d \in Ids : d # c => appeals'[d] = appeals[d])
              /\ appeals'[c].requester = u
              /\ appeals'[c].appealGranted = appeals[c].appealGranted
              /\ appeals'[c].appealChallengeID = appeals[c].appealChallengeID
              /\ appeals'[c].overturned = appeals[c].overturned
              /\ appeals[c].appealChallengeID = 0
    BY <1>6, RequestEffect
  <2>2. u # Nobody
    BY UsersAssumption
  <2>3. \A d \in Ids : /\ appeals'[d].appealGranted = appeals[d].appealGranted
                       /\ appeals'[d].appealChallengeID = appeals[d].appealChallengeID
                       /\ appeals'[d].overturned = appeals[d].overturned
    BY <2>1
  <2>4. FeesByRequest'
    BY <1>r, <2>1, <2>2 DEF FeesByRequest
  <2>5. VetoesStaked'
    <3>1. SUFFICES ASSUME NEW d \in Ids, appeals'[d].appealChallengeID # 0
                   PROVE  /\ challenges'[appeals'[d].appealChallengeID].stake
                                = appeals'[d].appealFeePaid
                          /\ ~appeals'[appeals'[d].appealChallengeID].appealGranted
      BY DEF VetoesStaked
    <3>2. d # c /\ appeals'[d] = appeals[d] /\ appeals[d].appealChallengeID \in Ids
      BY <1>t, <2>1, <3>1
    <3>3. QED
      BY <1>r, <2>1, <2>3, <3>1, <3>2 DEF VetoesStaked
  <2>6. VetoesOverturn' /\ NoEarlyClaims' /\ ChallengersSet' /\ BlankIfAbsent'
    BY <1>r, <1>f, <2>1, <2>3 DEF VetoesOverturn, NoEarlyClaims, ChallengersSet, tallyVars
  <2>7. QED
    BY <2>4, <2>5, <2>6 DEF Records
<1>7. ASSUME NEW l \in Listings, GrantAppeal(l) PROVE Records'
  <2>1. PICK c \in Polls :
              /\ c = ChallengeOf(l)
              /\ UNCHANGED <<tallyVars, listings, challenges>>
              /\ \A d \in Ids : /\ d # c => appeals'[d] = appeals[d]
                                /\ appeals'[d].requester = appeals[d].requester
                                /\ appeals'[d].appealFeePaid = appeals[d].appealFeePaid
                                /\ appeals'[d].appealChallengeID = appeals[d].appealChallengeID
                                /\ appeals'[d].overturned = appeals[d].overturned
    BY <1>7, GrantEffect
  <2>2. \A d \in Ids : appeals[d].appealChallengeID # 0 => appeals[d].appealChallengeID # c
    BY <2>1 DEF Structure, DisputesApart
  <2>3. VetoesStaked'
    <3>1. SUFFICES ASSUME NEW d \in Ids, appeals'[d].appealChallengeID # 0
                   PROVE  /\ challenges'[appeals'[d].appealChallengeID].stake
                                = appeals'[d].appealFeePaid
                          /\ ~appeals'[appeals'[d].appealChallengeID].appealGranted
      BY DEF VetoesStaked
    <3>2. PICK ac \in Ids : ac = appeals[d].appealChallengeID /\ ac # 0 /\ ac # c
      BY <1>t, <2>1, <2>2, <3>1
    <3>3. appeals'[ac] = appeals[ac] /\ appeals'[d].appealChallengeID = ac
      BY <2>1, <3>2
    <3>4. QED
      BY <1>r, <2>1, <3>2, <3>3 DEF VetoesStaked
  <2>4. FeesByRequest' /\ VetoesOverturn' /\ NoEarlyClaims' /\ ChallengersSet' /\ BlankIfAbsent'
    BY <1>r, <1>f, <2>1
       DEF FeesByRequest, VetoesOverturn, NoEarlyClaims, ChallengersSet, tallyVars
  <2>5. QED
    BY <2>3, <2>4 DEF Records
<1>8. ASSUME NEW u \in Users, NEW l \in Listings, ChallengeGrantedAppeal(u, l) PROVE Records'
  <2>1. PICK c \in Polls, id \in Polls, fee \in Nat, pool \in Nat :
              /\ c = ChallengeOf(l) /\ id = pollNonce + 1 /\ pollNonce' = id /\ listings' = listings
              /\ challenges' = [challenges EXCEPT ![id] = NewChallenge(u, fee, pool)]
              /\ fee = appeals[c].appealFeePaid /\ appeals[c].appealGranted
              /\ appeals[c].appealChallengeID = 0
              /\ appeals'[c].appealChallengeID = id
              /\ \A d \in Ids : /\ d # c => appeals'[d] = appeals[d]
                                /\ appeals'[d].requester = appeals[d].requester
                                /\ appeals'[d].appealFeePaid = appeals[d].appealFeePaid
                                /\ appeals'[d].appealGranted = appeals[d].appealGranted
                                /\ appeals'[d].overturned = appeals[d].overturned
    BY <1>8, VetoEffect
  <2>2. /\ NoEarlyClaims' /\ ChallengersSet' /\ challenges'[id].stake = fee
        /\ (\A d \in Ids : d # id => challenges'[d] = challenges[d])
        /\ \A d \in Ids : appeals[d].appealChallengeID # id
        /\ appeals[id] = NoAppeal
    <3>1. Enters(u, id, fee)
      BY <2>1 DEF Enters
    <3>0. challenges'[id].stake = fee
      BY <1>t, <2>1, ListingTypes DEF NewChallenge
    <3> HIDE IdsArePolls, <2>1
    <3>2. NoEarlyClaims' /\ ChallengersSet'
      BY <1>r, <3>1, NewEntry
    <3>3. \A d \in Ids : d # id => challenges'[d] = challenges[d]
      BY <1>r, <3>1, NewEntry
    <3>4. \A d \in Ids : appeals[d].appealChallengeID # id
      BY <1>r, <3>1, NewEntry
    <3>5. appeals[id] = NoAppeal
      BY <1>r, <3>1, NewEntry
    <3>6. QED
      BY <3>0, <3>2, <3>3, <3>4, <3>5
  <2>3. ~appeals'[id].appealGranted
    BY <2>1, <2>2 DEF NoAppeal
  <2>4. VetoesStaked'
    <3>1. SUFFICES ASSUME NEW d \in Ids, appeals'[d].appealChallengeID # 0
                   PROVE  /\ challenges'[appeals'[d].appealChallengeID].stake
                                = appeals'[d].appealFeePaid
                          /\ ~appeals'[appeals'[d].appealChallengeID].appealGranted
      BY DEF VetoesStaked
    <3>2. CASE d = c
      BY <2>1, <2>2, <2>3, <3>2
    <3>3. CASE d # c
      <4>0. appeals'[d] = appeals[d] /\ appeals[d].appealChallengeID # id
        BY <2>1, <2>2, <3>3
      <4>1. PICK ac \in Ids : ac = appeals[d].appealChallengeID /\ ac # 0 /\ ac # id
        BY <1>t, <3>1, <4>0
      <4>2. appeals'[d].appealChallengeID = ac /\ challenges'[ac] = challenges[ac]
            /\ appeals'[ac].appealGranted = appeals[ac].appealGranted
        BY <2>1, <2>2, <3>3, <4>1
      <4>3. QED
        BY <1>r, <2>1, <3>3, <4>1, <4>2 DEF VetoesStaked
    <3>4. QED
      BY <3>2, <3>3
  <2>5. FeesByRequest' /\ VetoesOverturn' /\ BlankIfAbsent'
    BY <1>r, <1>f, <2>1 DEF FeesByRequest, VetoesOverturn
  <2>6. QED
    BY <2>2, <2>4, <2>5 DEF Records
<1>9. ASSUME NEW v \in Voters, NEW c \in Polls, ClaimReward(v, c) PROVE Records'
  <2>1. /\ UNCHANGED <<tallyVars, listings, appeals>> /\ challenges[c].resolved
        /\ \A d \in Ids \ {c} : challenges'[d] = challenges[d]
        /\ challenges'[c].stake = challenges[c].stake
        /\ challenges'[c].resolved = challenges[c].resolved
        /\ challenges'[c].challenger = challenges[c].challenger
    BY <1>9, ClaimEffect
  <2>2. \A d \in Ids : /\ challenges'[d].stake = challenges[d].stake
                       /\ challenges'[d].challenger = challenges[d].challenger
    BY <2>1
  <2>3. FeesByRequest' /\ VetoesOverturn' /\ ChallengersSet' /\ BlankIfAbsent'
    BY <1>r, <1>f, <2>1, <2>2 DEF FeesByRequest, VetoesOverturn, ChallengersSet, tallyVars
  <2>4. NoEarlyClaims'
    BY <1>r, <2>1 DEF NoEarlyClaims
  <2>5. VetoesStaked'
    <3>1. \A d \in Ids : appeals[d].appealChallengeID \in Ids
      BY <1>t
    <3>2. QED
      BY <1>r, <2>1, <2>2, <3>1 DEF VetoesStaked
  <2>6. QED
    BY <2>3, <2>4, <2>5 DEF Records
<1>10. ASSUME NEW l \in Listings, UpdateStatus(l), ~CanBeWhitelisted(l) PROVE Records'
  <2>1. PICK c \in Polls : c = ChallengeOf(l)
    BY <1>10, Outcomes
  <2>2. PICK ch \in Challenge, over \in BOOLEAN, chs \in [Ids -> Challenge], extra \in Nat :
                 \E payee : Outcome(l, ch, over, chs, payee, extra)
    BY <1>10, Outcomes
  <2>3. PICK payee : Outcome(l, ch, over, chs, payee, extra)
    BY <2>2
  <2>4. PICK winning \in Nat :
           /\ UNCHANGED tallyVars /\ (Present(l)' \/ listings'[l] = NoListing)
           /\ \A m \in Listings : m # l => listings'[m] = listings[m]
           /\ challenges'[c] = Resolve(ch, winning)
           /\ \A d \in Ids : d # c => challenges'[d] = chs[d]
    BY <2>1, <2>3, OutcomeEffect
  <2>5. /\ challenges'[c].challenger = challenges[c].challenger /\ challenges'[c].resolved
    <3>1. ch.challenger = challenges[c].challenger
      BY <2>1, <2>3 DEF Outcome
    <3>2. /\ Resolve(ch, winning).challenger = ch.challenger /\ Resolve(ch, winning).resolved
      BY DEF Resolve, Challenge
    <3>3. QED
      BY <2>4, <3>1, <3>2
  <2>6. \A d \in Ids : d # c =>
           /\ challenges'[d].stake = challenges[d].stake
           /\ challenges'[d].challenger = challenges[d].challenger
           /\ challenges'[d].tokenClaims = challenges[d].tokenClaims
           /\ (challenges[d].resolved => challenges'[d].resolved)
    <3>1. CASE chs = challenges
      BY <2>4, <3>1
    <3>2. CASE /\ Veto(l) \in Polls
               /\ chs = [challenges EXCEPT ![Veto(l)] = Resolve(@, WinningTokens(Veto(l)))]
      <4>1. PICK ac \in Polls, total \in Nat :
                chs = [challenges EXCEPT ![ac] = Resolve(@, total)]
        <5>1. PICK ac \in Polls, total \in Nat : ac = Veto(l) /\ total = WinningTokens(Veto(l))
          BY <1>t, <3>2, TalliesType
        <5>2. QED
          BY <3>2, <5>1
      <4>2. /\ Resolve(challenges[ac], total).stake = challenges[ac].stake
            /\ Resolve(challenges[ac], total).challenger = challenges[ac].challenger
            /\ Resolve(challenges[ac], total).tokenClaims = challenges[ac].tokenClaims
            /\ Resolve(challenges[ac], total).resolved
        <5>1. challenges[ac] \in Challenge
          BY <1>t
        <5>2. QED
          BY <5>1 DEF Resolve, Challenge
      <4>3. \A d \in Ids : chs[d] = IF d = ac THEN Resolve(challenges[ac], total) ELSE challenges[d]
        BY <1>t, <4>1, ListingTypes
      <4>4. QED
        BY <2>4, <4>2, <4>3
    <3>3. QED
      BY <2>3, <3>1, <3>2 DEF Outcome
  <2>7. \A d \in Ids : /\ appeals'[d].requester = appeals[d].requester
                       /\ appeals'[d].appealFeePaid = appeals[d].appealFeePaid
                       /\ appeals'[d].appealChallengeID = appeals[d].appealChallengeID
                       /\ (appeals'[d].appealGranted <=> appeals[d].appealGranted)
                       /\ (appeals'[d].overturned => appeals[d].overturned \/ appeals[d].appealChallengeID # 0)
    <3>1. CASE appeals' = appeals
      BY <3>1
    <3>2. CASE appeals' = [appeals EXCEPT ![c].overturned = ~over] /\ Veto(l) \in Polls
      BY <1>t, <2>1, <3>2, ListingTypes DEF Appeal, Veto, AppealOf
    <3>3. QED
      BY <2>1, <2>3, <3>1, <3>2 DEF Outcome
  <2>8. BlankIfAbsent'
    BY <1>b, <2>4
  <2>9. FeesByRequest' /\ VetoesOverturn'
    BY <1>r, <2>7 DEF FeesByRequest, VetoesOverturn
  <2>10. VetoesStaked'
    <3>1. \A d \in Ids : appeals[d].appealChallengeID # 0 => appeals[d].appealChallengeID # c
      BY <2>1 DEF Structure, DisputesApart
    <3>2. SUFFICES ASSUME NEW d \in Ids, appeals'[d].appealChallengeID # 0
                   PROVE  /\ challenges'[appeals'[d].appealChallengeID].stake
                                = appeals'[d].appealFeePaid
                          /\ ~appeals'[appeals'[d].appealChallengeID].appealGranted
      BY DEF VetoesStaked
    <3>3. PICK ac \in Ids : ac = appeals[d].appealChallengeID /\ ac # 0 /\ ac # c
      BY <1>t, <2>7, <3>1, <3>2
    <3>4. appeals'[d].appealChallengeID = ac /\ challenges'[ac].stake = challenges[ac].stake
          /\ (appeals'[ac].appealGranted <=> appeals[ac].appealGranted)
          /\ appeals'[d].appealFeePaid = appeals[d].appealFeePaid
      BY <2>6, <2>7, <3>3
    <3>5. QED
      BY <1>r, <3>3, <3>4 DEF VetoesStaked
  <2>11. NoEarlyClaims'
    <3>1. SUFFICES ASSUME NEW d \in Ids, ~challenges'[d].resolved
                   PROVE  challenges'[d].tokenClaims = {}
      BY DEF NoEarlyClaims
    <3>2. d # c /\ ~challenges[d].resolved
      BY <2>5, <2>6, <3>1
    <3>3. QED
      BY <1>r, <2>6, <3>2 DEF NoEarlyClaims
  <2>12. ChallengersSet'
    <3>1. \A d \in Ids : challenges'[d].challenger = challenges[d].challenger
      BY <2>5, <2>6
    <3>2. QED
      BY <1>r, <2>4, <3>1 DEF ChallengersSet, tallyVars
  <2>13. QED
    BY <2>8, <2>9, <2>10, <2>11, <2>12 DEF Records
<1>11. QED
  BY <1>1, <1>2, <1>3, <1>4, <1>5, <1>6, <1>7, <1>8, <1>9, <1>10, BookSteps

------------------------------------------------------------------------------------
(* The registry holds what it owes, when the fees of appeals are even.  The   *)
(* three sums change in one or two of their members at a time.                *)

EvenFees == \A g \in Governments : \E h \in Nat : g.appealFee = 2 * h
FeesEven == \A c \in Ids : \E h \in Nat : appeals[c].appealFeePaid = 2 * h

Deposits == [l \in Listings |-> listings[l].unstakedDeposit]
Owings   == [c \in Ids |-> OwedTo(c)]
Pools    == [c \in Ids |-> Unclaimed(c)]
Reserves == SumOver(Deposits, Listings) + SumOver(Owings, Current) + SumOver(Pools, Resolved)

LEMMA SolventReserves == (Solvent <=> tcrBalance = Reserves) /\ (Solvent' <=> tcrBalance' = Reserves')
  BY DEF Solvent, Owed, Reserves, Deposits, Owings, Pools

LEMMA FiniteBooks == \A S \in SUBSET Ids : IsFiniteSet(S)
<1>1. IsFiniteSet(Polls \cup {0}) /\ Ids = Polls \cup {0}
  BY PollsAssumption, FS_AddElement DEF Ids
<1>2. QED
  BY <1>1, FS_Subset

LEMMA OwedValue ==
    ASSUME NEW stake \in Nat, NEW fee \in Nat, NEW c, challenges[c].stake = stake,
           appeals[c].appealFeePaid = fee
    PROVE  /\ (appeals[c].appealChallengeID = 0 => OwedTo(c) = 2 * stake + fee)
           /\ (appeals[c].appealChallengeID # 0 => OwedTo(c) = 2 * stake + 2 * fee)
           /\ OwedTo(c) \in Nat
  BY DEF OwedTo

LEMMA BookTypes ==
    ASSUME Typed
    PROVE  /\ IsFiniteSet(Current) /\ Current \subseteq Ids
           /\ IsFiniteSet(Resolved) /\ Resolved \subseteq Ids
           /\ \A l \in Listings : Deposits[l] \in Nat
           /\ \A c \in Ids : Owings[c] \in Nat /\ Pools[c] \in Nat
<1>1. Current \subseteq Ids /\ Resolved \subseteq Ids
  BY Numbers, IdsArePolls DEF Current, Resolved
<1>2. \A l \in Listings : Deposits[l] \in Nat
  BY Numbers DEF Deposits
<1>3. \A c \in Ids : OwedTo(c) \in Nat /\ Unclaimed(c) \in Nat
  BY Numbers, OwedValue DEF Unclaimed
<1>4. QED
  BY <1>1, <1>2, <1>3, FiniteBooks DEF Owings, Pools

LEMMA NextTypes ==
    ASSUME Typed'
    PROVE  /\ tcrBalance' \in Nat
           /\ \A l \in Listings : listings'[l].unstakedDeposit \in Nat /\ ChallengeOf(l)' \in Ids
           /\ \A c \in Ids : /\ challenges'[c].stake \in Nat /\ challenges'[c].rewardPool \in Nat
                             /\ challenges'[c].totalTokens \in Nat
                             /\ appeals'[c].appealFeePaid \in Nat
  BY IdsArePolls DEF Typed, TypeOK, Listing, Challenge, Appeal, ChallengeOf

LEMMA NextBookTypes ==
    ASSUME Typed'
    PROVE  /\ Current' \subseteq Ids /\ Resolved' \subseteq Ids
           /\ \A l \in Listings : Deposits'[l] \in Nat
           /\ \A c \in Ids : Owings'[c] \in Nat /\ Pools'[c] \in Nat
<1>1. Current' \subseteq Ids /\ Resolved' \subseteq Ids
  BY NextTypes, IdsArePolls DEF Current, Resolved
<1>2. \A l \in Listings : Deposits'[l] \in Nat
  BY NextTypes DEF Deposits
<1>3. \A c \in Ids : Owings'[c] \in Nat
  <2>1. SUFFICES ASSUME NEW c \in Ids PROVE Owings'[c] \in Nat
    OBVIOUS
  <2>2. challenges'[c].stake \in Nat /\ appeals'[c].appealFeePaid \in Nat
    BY NextTypes
  <2>3. QED
    BY <2>2 DEF Owings, OwedTo
<1>4. \A c \in Ids : Pools'[c] \in Nat
  BY NextTypes DEF Pools, Unclaimed
<1>5. QED
  BY <1>1, <1>2, <1>3, <1>4

LEMMA DepositMoves ==
    ASSUME Typed, Typed', NEW l \in Listings,
           \A m \in Listings : m # l => listings'[m] = listings[m]
    PROVE  SumOver(Deposits', Listings)
              = SumOver(Deposits, Listings) - listings[l].unstakedDeposit
                                            + listings'[l].unstakedDeposit
<1>1. /\ \A m \in Listings : Deposits[m] \in Nat /\ Deposits'[m] \in Nat
      /\ \A m \in Listings \ {l} : Deposits'[m] = Deposits[m]
  BY BookTypes, NextBookTypes DEF Deposits
<1>2. SumOver(Deposits', Listings) = SumOver(Deposits, Listings) - Deposits[l] + Deposits'[l]
  BY <1>1, ListingsAssumption, SumChange
<1>3. QED
  BY <1>2 DEF Deposits

LEMMA OwingsStay ==
    ASSUME Typed, NEW S \in SUBSET Ids, \A d \in S : OwedTo(d)' = OwedTo(d)
    PROVE  SumOver(Owings', S) = SumOver(Owings, S)
<1>1. \A d \in S : Owings[d] = Owings'[d]
  BY DEF Owings
<1>2. QED
  BY <1>1, FiniteBooks, SumSame

LEMMA PoolsStay ==
    ASSUME Typed, NEW S \in SUBSET Ids, \A d \in S : challenges'[d] = challenges[d]
    PROVE  SumOver(Pools', S) = SumOver(Pools, S)
<1>1. \A d \in S : Pools[d] = Pools'[d]
  BY DEF Pools, Unclaimed
<1>2. QED
  BY <1>1, FiniteBooks, SumSame

LEMMA OwingsMove ==
    ASSUME Typed, Typed', NEW S \in SUBSET Ids, NEW c \in S,
           \A d \in S : d # c => OwedTo(d)' = OwedTo(d)
    PROVE  SumOver(Owings', S) = SumOver(Owings, S) - OwedTo(c) + OwedTo(c)'
<1>1. /\ \A d \in S : Owings[d] \in Nat /\ Owings'[d] \in Nat
      /\ \A d \in S \ {c} : Owings'[d] = Owings[d]
  BY BookTypes, NextBookTypes DEF Owings
<1>2. SumOver(Owings', S) = SumOver(Owings, S) - Owings[c] + Owings'[c]
  BY <1>1, FiniteBooks, SumChange
<1>3. QED
  BY <1>2 DEF Owings

LEMMA PoolsMove ==
    ASSUME Typed, Typed', NEW S \in SUBSET Ids, NEW c \in S,
           \A d \in S : d # c => challenges'[d] = challenges[d]
    PROVE  SumOver(Pools', S) = SumOver(Pools, S) - Unclaimed(c) + Unclaimed(c)'
<1>1. /\ \A d \in S : Pools[d] \in Nat /\ Pools'[d] \in Nat
      /\ \A d \in S \ {c} : Pools'[d] = Pools[d]
  BY BookTypes, NextBookTypes DEF Pools, Unclaimed
<1>2. SumOver(Pools', S) = SumOver(Pools, S) - Pools[c] + Pools'[c]
  BY <1>1, FiniteBooks, SumChange
<1>3. QED
  BY <1>2 DEF Pools

LEMMA OwingsGrow ==
    ASSUME Typed', NEW S \in SUBSET Ids, NEW c \in Ids, c \notin S
    PROVE  SumOver(Owings', S \cup {c}) = SumOver(Owings', S) + OwedTo(c)'
<1>1. \A d \in S \cup {c} : Owings'[d] \in Nat
  BY NextBookTypes
<1>2. SumOver(Owings', S \cup {c}) = SumOver(Owings', S) + Owings'[c]
  BY <1>1, FiniteBooks, SumAdd
<1>3. QED
  BY <1>2 DEF Owings

LEMMA PoolsGrow ==
    ASSUME Typed', NEW S \in SUBSET Ids, NEW c \in Ids, c \notin S
    PROVE  SumOver(Pools', S \cup {c}) = SumOver(Pools', S) + Unclaimed(c)'
<1>1. \A d \in S \cup {c} : Pools'[d] \in Nat
  BY NextBookTypes
<1>2. SumOver(Pools', S \cup {c}) = SumOver(Pools', S) + Pools'[c]
  BY <1>1, FiniteBooks, SumAdd
<1>3. QED
  BY <1>2 DEF Pools

LEMMA OwingsShrink ==
    ASSUME Typed, NEW S \in SUBSET Ids, NEW c \in S
    PROVE  SumOver(Owings, S) = SumOver(Owings, S \ {c}) + OwedTo(c)
<1>1. \A d \in S : Owings[d] \in Nat
  BY BookTypes
<1>2. SumOver(Owings, S) = Owings[c] + SumOver(Owings, S \ {c})
  BY <1>1, FiniteBooks, SumRemove
<1>3. \A d \in S \ {c} : Owings[d] \in Nat
  BY <1>1
<1>4. SumOver(Owings, S \ {c}) \in Nat /\ Owings[c] \in Nat
  BY <1>1, <1>3, FiniteBooks, SumNat
<1>5. QED
  BY <1>2, <1>4 DEF Owings

LEMMA SumTypes ==
    ASSUME Typed
    PROVE  /\ SumOver(Deposits, Listings) \in Nat
           /\ \A S \in SUBSET Ids : SumOver(Owings, S) \in Nat /\ SumOver(Pools, S) \in Nat
<1>1. /\ \A l \in Listings : Deposits[l] \in Nat
      /\ \A c \in Ids : Owings[c] \in Nat /\ Pools[c] \in Nat
  BY BookTypes
<1>2. QED
  BY <1>1, FiniteBooks, ListingsAssumption, SumNat

------------------------------------------------------------------------------------
(* Appeals after a verdict. *)
LEMMA AppealsAfter ==
    ASSUME Typed, NEW l \in Listings, NEW ch, NEW over, NEW chs, NEW payee, NEW extra,
           Outcome(l, ch, over, chs, payee, extra)
    PROVE  \A d \in Ids : /\ appeals'[d].appealFeePaid = appeals[d].appealFeePaid
                          /\ appeals'[d].appealChallengeID = appeals[d].appealChallengeID
                          /\ (d # ChallengeOf(l) => appeals'[d] = appeals[d])
<1>t. TypeOK /\ appeals \in [Ids -> Appeal]
  BY Numbers, ListingTypes
<1>1. CASE appeals' = appeals
  BY <1>1
<1>2. CASE appeals' = [appeals EXCEPT ![ChallengeOf(l)].overturned = ~over]
  BY <1>t, <1>2 DEF Appeal
<1>3. QED
  BY <1>1, <1>2 DEF Outcome

LEMMA FeesEvenNext ==
    ASSUME Typed, Structure, Records, EvenFees, FeesEven, [Next]_vars
    PROVE  FeesEven'
<1> SUFFICES ASSUME NEW d \in Ids PROVE \E h \in Nat : appeals'[d].appealFeePaid = 2 * h
  BY DEF FeesEven
<1>e. \E h \in Nat : appeals[d].appealFeePaid = 2 * h
  BY DEF FeesEven
<1>0. ASSUME appeals'[d].appealFeePaid = appeals[d].appealFeePaid
      PROVE  \E h \in Nat : appeals'[d].appealFeePaid = 2 * h
  BY <1>e, <1>0
<1>1. CASE appeals' = appeals
  BY <1>0, <1>1
<1>2. ASSUME NEW u \in Users, NEW l \in Listings, RequestAppeal(u, l)
      PROVE  \E h \in Nat : appeals'[d].appealFeePaid = 2 * h
  <2>1. PICK c \in Polls, fee \in Nat : /\ fee = government.appealFee
                                        /\ \A e \in Ids : e # c => appeals'[e] = appeals[e]
                                        /\ appeals'[c].appealFeePaid = fee
    BY <1>2, RequestEffect
  <2>2. government \in Governments
    BY Numbers DEF TypeOK
  <2>3. \E h \in Nat : fee = 2 * h
    BY <2>1, <2>2 DEF EvenFees
  <2>4. QED
    BY <1>0, <2>1, <2>3
<1>3. ASSUME NEW l \in Listings, GrantAppeal(l)
      PROVE  \E h \in Nat : appeals'[d].appealFeePaid = 2 * h
  BY <1>0, <1>3, GrantEffect
<1>4. ASSUME NEW u \in Users, NEW l \in Listings, ChallengeGrantedAppeal(u, l)
      PROVE  \E h \in Nat : appeals'[d].appealFeePaid = 2 * h
  BY <1>0, <1>4, VetoEffect
<1>5. ASSUME NEW l \in Listings, UpdateStatus(l), ~CanBeWhitelisted(l)
      PROVE  \E h \in Nat : appeals'[d].appealFeePaid = 2 * h
  <2>1. PICK ch \in Challenge, over \in BOOLEAN, chs \in [Ids -> Challenge], extra \in Nat :
                 \E payee : Outcome(l, ch, over, chs, payee, extra)
    BY <1>5, Outcomes
  <2>2. QED
    BY <1>0, <2>1, AppealsAfter
<1>6. ASSUME NEW u \in Users, NEW l \in Listings, Present(l), Unchallenged(l), StartChallenge(u, l)
      PROVE  appeals' = appeals
  BY <1>6 DEF StartChallenge
<1>7. ASSUME NEW v \in Voters, NEW c \in Polls, ClaimReward(v, c) PROVE appeals' = appeals
  BY <1>7 DEF ClaimReward
<1>8. ASSUME NEW l \in Listings, WhitelistApplication(l) PROVE appeals' = appeals
  BY <1>8 DEF WhitelistApplication, disputes
<1>9. ASSUME NEW u \in Users, NEW l \in Listings, NEW n \in Amounts,
             Apply(u, l, n) \/ Deposit(u, l, n) \/ Withdraw(u, l, n)
      PROVE  appeals' = appeals
  BY <1>9 DEF Apply, Deposit, Withdraw, disputes
<1>10. QED
  BY <1>1, <1>2, <1>3, <1>4, <1>5, <1>6, <1>7, <1>8, <1>9, BookSteps DEF Idle, disputes

------------------------------------------------------------------------------------
LEMMA IdleMoney ==
    ASSUME Solvent, Idle
    PROVE  Solvent'
  BY DEF Idle, Solvent, Owed, OwedTo, Unclaimed, Current, Resolved, ChallengeOf

(* One listing's deposit, and the balance with it. *)
LEMMA DepositMoney ==
    ASSUME Typed, Typed', Solvent, NEW l \in Listings, UNCHANGED <<challenges, appeals>>,
           \A m \in Listings : /\ ChallengeOf(m)' = ChallengeOf(m)
                               /\ (m # l => listings'[m] = listings[m]),
           tcrBalance' - listings'[l].unstakedDeposit = tcrBalance - listings[l].unstakedDeposit
    PROVE  Solvent'
<1>t. /\ Current \in SUBSET Ids /\ Resolved \in SUBSET Ids
      /\ tcrBalance \in Nat /\ listings[l].unstakedDeposit \in Nat
      /\ tcrBalance' \in Nat /\ listings'[l].unstakedDeposit \in Nat
  BY BookTypes, Numbers, NextTypes
<1>s. /\ SumOver(Deposits, Listings) \in Nat /\ SumOver(Owings, Current) \in Nat
      /\ SumOver(Pools, Resolved) \in Nat
  BY <1>t, SumTypes
<1>1. Current' = Current /\ Resolved' = Resolved
  BY DEF Current, Resolved
<1>2. SumOver(Deposits', Listings)
         = SumOver(Deposits, Listings) - listings[l].unstakedDeposit + listings'[l].unstakedDeposit
  BY DepositMoves
<1>3. SumOver(Owings', Current) = SumOver(Owings, Current)
  <2>1. \A d \in Current : OwedTo(d)' = OwedTo(d)
    BY DEF OwedTo
  <2>2. QED
    BY <1>t, <2>1, OwingsStay
<1>4. SumOver(Pools', Resolved) = SumOver(Pools, Resolved)
  BY <1>t, PoolsStay
<1>5. tcrBalance = SumOver(Deposits, Listings) + SumOver(Owings, Current) + SumOver(Pools, Resolved)
  BY SolventReserves DEF Reserves
<1>6. tcrBalance' = SumOver(Deposits', Listings) + SumOver(Owings', Current) + SumOver(Pools', Resolved)
  BY <1>t, <1>s, <1>2, <1>3, <1>4, <1>5
<1>7. QED
  BY <1>1, <1>6, SolventReserves DEF Reserves

LEMMA ChallengeMoney ==
    ASSUME Typed, Typed', Structure, Solvent, NEW u \in Users, NEW l \in Listings,
           Present(l), Unchallenged(l), StartChallenge(u, l)
    PROVE  Solvent'
<1> USE IdsArePolls
<1>t. /\ TypeOK /\ Current \in SUBSET Ids /\ Resolved \in SUBSET Ids
      /\ tcrBalance \in Nat /\ listings[l].unstakedDeposit \in Nat
      /\ tcrBalance' \in Nat /\ listings'[l].unstakedDeposit \in Nat
  BY BookTypes, Numbers, NextTypes
<1>s. /\ SumOver(Deposits, Listings) \in Nat /\ SumOver(Owings, Current) \in Nat
      /\ SumOver(Pools, Resolved) \in Nat
  BY <1>t, SumTypes
<1>1. PICK id \in Polls, stake \in Nat, pool \in Nat :
              /\ id > pollNonce /\ appeals' = appeals
              /\ challenges' = [challenges EXCEPT ![id] = NewChallenge(u, stake, pool)]
              /\ ChallengeOf(l) = 0 /\ ChallengeOf(l)' = id
              /\ \A m \in Listings : m # l => listings'[m] = listings[m]
              /\ listings'[l].unstakedDeposit = listings[l].unstakedDeposit - stake
              /\ tcrBalance' = tcrBalance + stake
  BY StartChallengeEffect
<1>2. /\ challenges'[id].stake = stake /\ ~challenges'[id].resolved /\ ~challenges[id].resolved
      /\ appeals[id].appealFeePaid = 0 /\ appeals[id].appealChallengeID = 0 /\ id # 0
      /\ \A d \in Ids : d # id => challenges'[d] = challenges[d]
  <2>1. challenges'[id] = NewChallenge(u, stake, pool)
        /\ \A d \in Ids : d # id => challenges'[d] = challenges[d]
    BY <1>t, <1>1, ListingTypes
  <2>2. appeals[id] = NoAppeal /\ ~challenges[id].resolved
    BY <1>1 DEF Structure, FreshIdsBlank
  <2>3. QED
    BY <2>1, <2>2, PollsAssumption DEF NewChallenge, NoAppeal
<1>3. id \notin Current /\ id \notin Resolved
  <2>1. \A m \in Listings : ChallengeOf(m) # id
    <3>1. \A m \in Listings : ChallengeOf(m) <= pollNonce /\ ChallengeOf(m) \in Nat
      BY <1>t, ListingTypes DEF Structure, FreshIdsBlank
    <3>2. pollNonce \in Nat /\ id \in Nat
      BY <1>t, ListingTypes
    <3>3. QED
      BY <1>1, <3>1, <3>2
  <2>2. QED
    BY <1>2, <2>1 DEF Current, Resolved
<1>4. Current' = Current \cup {id}
  <2>1. \A m \in Listings : m # l => ChallengeOf(m)' = ChallengeOf(m)
    BY <1>1 DEF ChallengeOf
  <2>2. Current' = {ChallengeOf(m)' : m \in Listings} \ {0}
    BY DEF Current
  <2>3. QED
    BY <1>1, <1>2, <2>1, <2>2 DEF Current
<1>5. Resolved' = Resolved
  BY <1>2 DEF Resolved
<1>6. SumOver(Deposits', Listings) = SumOver(Deposits, Listings) - stake
  BY <1>t, <1>s, <1>1, DepositMoves
<1>7. SumOver(Owings', Current \cup {id}) = SumOver(Owings, Current) + 2 * stake
  <2>1. \A d \in Current : OwedTo(d)' = OwedTo(d)
    BY <1>t, <1>1, <1>2, <1>3 DEF OwedTo
  <2>2. SumOver(Owings', Current) = SumOver(Owings, Current)
    BY <1>t, <2>1, OwingsStay
  <2>3. OwedTo(id)' = 2 * stake
    BY <1>1, <1>2 DEF OwedTo
  <2>4. QED
    BY <1>t, <1>3, <2>2, <2>3, OwingsGrow
<1>8. SumOver(Pools', Resolved) = SumOver(Pools, Resolved)
  BY <1>t, <1>2, <1>3, PoolsStay
<1>9. tcrBalance = SumOver(Deposits, Listings) + SumOver(Owings, Current) + SumOver(Pools, Resolved)
  BY SolventReserves DEF Reserves
<1>10. tcrBalance' = SumOver(Deposits', Listings) + SumOver(Owings', Current \cup {id})
                       + SumOver(Pools', Resolved)
  BY <1>t, <1>s, <1>1, <1>6, <1>7, <1>8, <1>9
<1>11. QED
  BY <1>4, <1>5, <1>10, SolventReserves DEF Reserves

(* A fee is put in for one open dispute: with the appeal, or against it. *)
LEMMA FeeMoney ==
    ASSUME Typed, Typed', Solvent, NEW c \in Polls, NEW fee \in Nat, c \in Current,
           Current' = Current, Resolved' = Resolved, listings' = listings,
           \A d \in Resolved : challenges'[d] = challenges[d],
           \A d \in Current : d # c => OwedTo(d)' = OwedTo(d),
           OwedTo(c)' = OwedTo(c) + fee, tcrBalance' = tcrBalance + fee
    PROVE  Solvent'
<1>t. /\ Current \in SUBSET Ids /\ Resolved \in SUBSET Ids /\ tcrBalance \in Nat
  BY BookTypes, Numbers
<1>s. /\ SumOver(Deposits, Listings) \in Nat /\ SumOver(Owings, Current) \in Nat
      /\ SumOver(Pools, Resolved) \in Nat /\ OwedTo(c) \in Nat
  BY <1>t, SumTypes, BookTypes DEF Owings
<1>1. Deposits' = Deposits
  BY DEF Deposits
<1>2. SumOver(Owings', Current) = SumOver(Owings, Current) + fee
  <2>1. SumOver(Owings', Current) = SumOver(Owings, Current) - OwedTo(c) + OwedTo(c)'
    BY <1>t, OwingsMove
  <2>2. QED
    BY <1>s, <2>1
<1>3. SumOver(Pools', Resolved) = SumOver(Pools, Resolved)
  BY <1>t, PoolsStay
<1>4. tcrBalance = SumOver(Deposits, Listings) + SumOver(Owings, Current) + SumOver(Pools, Resolved)
  BY SolventReserves DEF Reserves
<1>5. tcrBalance' = SumOver(Deposits, Listings) + SumOver(Owings', Current) + SumOver(Pools', Resolved)
  BY <1>t, <1>s, <1>2, <1>3, <1>4
<1>6. QED
  BY <1>1, <1>5, SolventReserves DEF Reserves

------------------------------------------------------------------------------------
LEMMA AppealMoney ==
    ASSUME Typed, Typed', Structure, Records, Solvent, NEW u \in Users, NEW l \in Listings,
           RequestAppeal(u, l) \/ GrantAppeal(l) \/ ChallengeGrantedAppeal(u, l)
    PROVE  Solvent'
<1> USE IdsArePolls
<1>t. TypeOK /\ Current \subseteq Ids
  BY Numbers, BookTypes
<1>0. ASSUME NEW c \in Polls, c = ChallengeOf(l) PROVE c \in Current
  BY <1>0, PollsAssumption DEF Current
<1>1. CASE RequestAppeal(u, l)
  <2>1. PICK c \in Polls, fee \in Nat :
              /\ c = ChallengeOf(l) /\ fee = government.appealFee
              /\ UNCHANGED <<tallyVars, listings, challenges>>
              /\ (\A d \in Ids : d # c => appeals'[d] = appeals[d])
              /\ appeals'[c].requester = u /\ appeals'[c].appealFeePaid = fee
              /\ appeals'[c].appealGranted = appeals[c].appealGranted
              /\ appeals'[c].appealChallengeID = appeals[c].appealChallengeID
              /\ appeals'[c].overturned = appeals[c].overturned
              /\ appeals[c].appealFeePaid = 0 /\ appeals[c].appealChallengeID = 0
              /\ tcrBalance' = tcrBalance + fee
    BY <1>1, RequestEffect
  <2>2. Current' = Current /\ Resolved' = Resolved
    BY <2>1 DEF Current, Resolved, ChallengeOf
  <2>3. \A d \in Current : d # c => OwedTo(d)' = OwedTo(d)
    BY <1>t, <2>1 DEF OwedTo
  <2>4. OwedTo(c)' = OwedTo(c) + fee
    <3>1. PICK stake \in Nat : stake = challenges[c].stake
      BY Numbers
    <3>2. OwedTo(c) = 2 * stake /\ OwedTo(c)' = 2 * stake + fee
      BY <2>1, <3>1 DEF OwedTo
    <3>3. QED
      BY <3>2
  <2>5. QED
    BY <1>0, <2>1, <2>2, <2>3, <2>4, FeeMoney
<1>2. CASE GrantAppeal(l)
  <2>1. /\ UNCHANGED <<tallyVars, listings, challenges, tcrBalance>>
        /\ \A d \in Ids : /\ appeals'[d].appealFeePaid = appeals[d].appealFeePaid
                          /\ appeals'[d].appealChallengeID = appeals[d].appealChallengeID
    BY <1>2, GrantEffect
  <2>2. Current' = Current /\ Resolved' = Resolved /\ Deposits' = Deposits /\ Pools' = Pools
    BY <2>1 DEF Current, Resolved, ChallengeOf, Deposits, Pools, Unclaimed
  <2>3. SumOver(Owings', Current) = SumOver(Owings, Current)
    <3>1. \A d \in Current : OwedTo(d)' = OwedTo(d)
      BY <1>t, <2>1 DEF OwedTo
    <3>2. QED
      BY <1>t, <3>1, OwingsStay
  <2>4. Reserves' = Reserves
    BY <2>2, <2>3 DEF Reserves
  <2>5. QED
    BY <2>1, <2>4, SolventReserves
<1>3. CASE ChallengeGrantedAppeal(u, l)
  <2>1. PICK c \in Polls, id \in Polls, fee \in Nat, pool \in Nat :
              /\ c = ChallengeOf(l) /\ id = pollNonce + 1 /\ pollNonce' = id /\ id > pollNonce
              /\ UNCHANGED <<now, votes, listings>>
              /\ challenges' = [challenges EXCEPT ![id] = NewChallenge(u, fee, pool)]
              /\ fee = appeals[c].appealFeePaid /\ appeals[c].appealGranted
              /\ appeals[c].appealChallengeID = 0
              /\ appeals'[c].appealChallengeID = id
              /\ \A d \in Ids : /\ d # c => appeals'[d] = appeals[d]
                                /\ appeals'[d].requester = appeals[d].requester
                                /\ appeals'[d].appealFeePaid = appeals[d].appealFeePaid
                                /\ appeals'[d].appealGranted = appeals[d].appealGranted
                                /\ appeals'[d].overturned = appeals[d].overturned
              /\ tcrBalance' = tcrBalance + fee
    BY <1>3, VetoEffect
  <2>2. /\ ~challenges'[id].resolved /\ ~challenges[id].resolved /\ id # 0
        /\ \A d \in Ids : d # id => challenges'[d] = challenges[d]
    <3>1. challenges'[id] = NewChallenge(u, fee, pool)
          /\ \A d \in Ids : d # id => challenges'[d] = challenges[d]
      BY <1>t, <2>1, ListingTypes
    <3>2. ~challenges[id].resolved
      BY <2>1 DEF Structure, FreshIdsBlank
    <3>3. QED
      BY <3>1, <3>2, PollsAssumption DEF NewChallenge
  <2>3. id \notin Current /\ id \notin Resolved
    <3>1. \A m \in Listings : ChallengeOf(m) # id
      <4>1. \A m \in Listings : ChallengeOf(m) <= pollNonce /\ ChallengeOf(m) \in Nat
        BY <1>t, ListingTypes DEF Structure, FreshIdsBlank
      <4>2. pollNonce \in Nat /\ id \in Nat
        BY <1>t, ListingTypes
      <4>3. QED
        BY <2>1, <4>1, <4>2
    <3>2. QED
      BY <2>2, <3>1 DEF Current, Resolved
  <2>4. Current' = Current /\ Resolved' = Resolved
    <3>1. Current' = Current
      BY <2>1 DEF Current, ChallengeOf
    <3>2. Resolved' = Resolved
      BY <2>2 DEF Resolved
    <3>3. QED
      BY <3>1, <3>2
  <2>5. \A d \in Current : d # c => OwedTo(d)' = OwedTo(d)
    BY <1>t, <2>1, <2>2, <2>3 DEF OwedTo
  <2>6. c \in Current
    BY <1>0, <2>1
  <2>7. OwedTo(c)' = OwedTo(c) + fee
    <3>1. PICK stake \in Nat : stake = challenges[c].stake
      BY Numbers
    <3>2. challenges'[c].stake = stake /\ appeals'[c].appealFeePaid = fee
          /\ appeals[c].appealFeePaid = fee
      BY <2>1, <2>2, <2>3, <2>6, <3>1
    <3>3. OwedTo(c) = 2 * stake + fee /\ OwedTo(c)' = 2 * stake + 2 * fee
      BY <2>1, <2>2, <3>1, <3>2 DEF OwedTo
    <3>4. QED
      BY <3>3
  <2>8. \A d \in Resolved : challenges'[d] = challenges[d]
    BY <1>t, <2>2, <2>3 DEF Resolved
  <2>9. QED
    BY <2>1, <2>4, <2>5, <2>6, <2>7, <2>8, FeeMoney
<1>4. QED
  BY <1>1, <1>2, <1>3

LEMMA ClaimMoney ==
    ASSUME Typed, Typed', Solvent, NEW v \in Voters, NEW c \in Polls, ClaimReward(v, c)
    PROVE  Solvent'
<1> USE IdsArePolls
<1>t. /\ Current \in SUBSET Ids /\ Resolved \in SUBSET Ids /\ tcrBalance \in Nat
  BY BookTypes, Numbers
<1>s. /\ SumOver(Deposits, Listings) \in Nat /\ SumOver(Owings, Current) \in Nat
      /\ SumOver(Pools, Resolved) \in Nat
  BY <1>t, SumTypes
<1>1. PICK tokens \in Nat, reward \in Nat :
              /\ challenges[c].resolved
              /\ challenges[c].totalTokens > 0 /\ challenges[c].totalTokens >= tokens
              /\ challenges[c].rewardPool >= reward
              /\ (challenges[c].totalTokens = tokens => challenges[c].rewardPool = reward)
              /\ UNCHANGED <<tallyVars, listings, appeals>>
              /\ \A d \in Ids \ {c} : challenges'[d] = challenges[d]
              /\ challenges'[c].totalTokens = challenges[c].totalTokens - tokens
              /\ challenges'[c].rewardPool = challenges[c].rewardPool - reward
              /\ challenges'[c].stake = challenges[c].stake
              /\ challenges'[c].resolved = challenges[c].resolved
              /\ tcrBalance' = tcrBalance - reward
  BY ClaimEffect
<1>2. Current' = Current /\ Deposits' = Deposits
  BY <1>1 DEF Current, ChallengeOf, Deposits
<1>3. Resolved' = Resolved /\ c \in Resolved
  BY <1>1 DEF Resolved
<1>4. SumOver(Owings', Current) = SumOver(Owings, Current)
  <2>1. \A d \in Current : OwedTo(d)' = OwedTo(d)
    BY <1>t, <1>1 DEF OwedTo
  <2>2. QED
    BY <1>t, <2>1, OwingsStay
<1>5. SumOver(Pools', Resolved) = SumOver(Pools, Resolved) - reward
  <2>1. PICK pool \in Nat, total \in Nat :
            pool = challenges[c].rewardPool /\ total = challenges[c].totalTokens
    BY Numbers
  <2>2. Unclaimed(c) = pool
    BY <1>1, <2>1 DEF Unclaimed
  <2>3. Unclaimed(c)' = pool - reward
    <3>1. Unclaimed(c)' = IF total - tokens > 0 THEN pool - reward ELSE 0
      BY <1>1, <2>1 DEF Unclaimed
    <3>2. total - tokens > 0 \/ pool = reward
      BY <1>1, <2>1
    <3>3. QED
      BY <3>1, <3>2
  <2>4. SumOver(Pools', Resolved) = SumOver(Pools, Resolved) - Unclaimed(c) + Unclaimed(c)'
    BY <1>t, <1>1, <1>3, PoolsMove
  <2>5. QED
    BY <1>s, <2>2, <2>3, <2>4
<1>6. tcrBalance = SumOver(Deposits, Listings) + SumOver(Owings, Current) + SumOver(Pools, Resolved)
  BY SolventReserves DEF Reserves
<1>7. tcrBalance' = SumOver(Deposits, Listings) + SumOver(Owings', Current) + SumOver(Pools', Resolved)
  BY <1>t, <1>s, <1>1, <1>4, <1>5, <1>6
<1>8. QED
  BY <1>2, <1>3, <1>7, SolventReserves DEF Reserves

------------------------------------------------------------------------------------
(* The reward and what is left for the voters are both stakes. *)
LEMMA WholeStake ==
    ASSUME NEW ch \in Challenge, ch.rewardPool <= ch.stake, NEW winning \in Nat, NEW d,
           challenges'[d] = Resolve(ch, winning)
    PROVE  /\ Reward(ch, winning) \in Nat /\ Unclaimed(d)' \in Nat
           /\ Reward(ch, winning) + Unclaimed(d)' = 2 * ch.stake
           /\ challenges'[d].resolved
<1>1. PICK pool \in Nat, stake \in Nat : pool = ch.rewardPool /\ stake = ch.stake /\ pool <= stake
  BY DEF Challenge
<1>2. /\ challenges'[d].totalTokens = winning /\ challenges'[d].rewardPool = pool
      /\ challenges'[d].resolved
  BY <1>1 DEF Resolve, Challenge
<1>3. Unclaimed(d)' = IF winning > 0 THEN pool ELSE 0
  BY <1>2 DEF Unclaimed
<1>4. Reward(ch, winning) = IF winning = 0 THEN 2 * stake ELSE 2 * stake - pool
  BY <1>1 DEF Reward
<1>5. QED
  BY <1>1, <1>2, <1>3, <1>4

------------------------------------------------------------------------------------
LEMMA NextPoolSums ==
    ASSUME Typed', NEW S \in SUBSET Ids
    PROVE  SumOver(Pools', S) \in Nat
<1>1. \A c \in S : Pools'[c] \in Nat
  BY NextBookTypes
<1>2. QED
  BY <1>1, FiniteBooks, SumNat

(* A dispute leaves the books with all that was put in for it. *)
LEMMA VerdictMoney ==
    ASSUME Typed, Typed', Structure, Records, FeesEven, Solvent,
           NEW l \in Listings, UpdateStatus(l), ~CanBeWhitelisted(l)
    PROVE  Solvent'
<1> USE IdsArePolls
<1>t. /\ TypeOK /\ Current \in SUBSET Ids /\ Resolved \in SUBSET Ids
      /\ tcrBalance \in Nat /\ tcrBalance' \in Nat
  BY BookTypes, Numbers, NextTypes
<1>s. /\ SumOver(Deposits, Listings) \in Nat /\ SumOver(Owings, Current) \in Nat
      /\ SumOver(Pools, Resolved) \in Nat
  BY <1>t, SumTypes
<1>1. PICK c \in Polls : c = ChallengeOf(l)
  BY Outcomes
<1>2. PICK ch \in Challenge, over \in BOOLEAN, chs \in [Ids -> Challenge], extra \in Nat :
               \E payee : Outcome(l, ch, over, chs, payee, extra)
  BY Outcomes
<1>3. PICK payee : Outcome(l, ch, over, chs, payee, extra)
  BY <1>2
<1>4. PICK winning \in Nat, reward \in Nat :
         /\ reward = Reward(ch, winning) /\ Ended(c) /\ UNCHANGED tallyVars
         /\ ChallengeOf(l)' = 0
         /\ (\A m \in Listings : m # l => listings'[m] = listings[m])
         /\ challenges'[c] = Resolve(ch, winning)
         /\ (\A d \in Ids : d # c => challenges'[d] = chs[d])
         /\ tcrBalance' - listings'[l].unstakedDeposit
               = tcrBalance - listings[l].unstakedDeposit - reward - extra
  BY <1>1, <1>3, OutcomeEffect
<1>5. /\ c # 0 /\ c \in Current /\ c \notin Resolved /\ ch.rewardPool <= ch.stake
      /\ \A m \in Listings : m # l => ChallengeOf(m) # c
  <2>1. c # 0 /\ c \in Current
    BY <1>1, PollsAssumption DEF Current
  <2>2. ~challenges[c].resolved /\ \A m \in Listings : m # l => ChallengeOf(m) # c
    BY <1>1, <2>1 DEF Structure, DisputesApart
  <2>3. ch.rewardPool <= ch.stake
    BY <1>3 DEF Outcome
  <2>4. QED
    BY <2>1, <2>2, <2>3 DEF Resolved
<1>6. Current' = Current \ {c}
  <2>1. \A m \in Listings : m # l => ChallengeOf(m)' = ChallengeOf(m)
    BY <1>4 DEF ChallengeOf
  <2>2. Current' = {ChallengeOf(m)' : m \in Listings} \ {0}
    BY DEF Current
  <2>3. QED
    BY <1>1, <1>4, <1>5, <2>1, <2>2 DEF Current
<1>7. PICK pool \in Nat : /\ pool = Unclaimed(c)' /\ reward + pool = 2 * ch.stake
                          /\ challenges'[c].resolved
  BY <1>4, <1>5, WholeStake
<1>8. PICK stake \in Nat, fee \in Nat, owed \in Nat, deposit \in Nat, rest \in Nat :
          /\ stake = challenges[c].stake /\ fee = appeals[c].appealFeePaid /\ owed = OwedTo(c)
          /\ deposit = listings[l].unstakedDeposit /\ rest = listings'[l].unstakedDeposit
  BY Numbers, NextTypes, OwedValue
<1>9. SumOver(Deposits', Listings) = SumOver(Deposits, Listings) - deposit + rest
  BY <1>4, <1>8, DepositMoves
<1>10. \A d \in Ids : d # c => appeals'[d] = appeals[d]
  BY <1>1, <1>3, AppealsAfter
<1>11. SumOver(Owings, Current) = SumOver(Owings, Current \ {c}) + owed
  BY <1>t, <1>5, <1>8, OwingsShrink
<1>12. \A S \in SUBSET Ids : SumOver(Owings, S) \in Nat
  BY SumTypes
<1>13. tcrBalance = SumOver(Deposits, Listings) + SumOver(Owings, Current) + SumOver(Pools, Resolved)
  BY SolventReserves DEF Reserves
<1>14. ASSUME \A d \in Current \ {c} : challenges'[d] = challenges[d],
              SumOver(Pools', Resolved') + reward + extra = SumOver(Pools, Resolved) + owed
       PROVE  Solvent'
  <2>1. SumOver(Owings', Current \ {c}) = SumOver(Owings, Current \ {c})
    <3>1. \A d \in Current \ {c} : OwedTo(d)' = OwedTo(d)
      BY <1>t, <1>10, <1>14 DEF OwedTo
    <3>2. Current \ {c} \in SUBSET Ids
      BY <1>t
    <3>3. QED
      BY <3>1, <3>2, OwingsStay
  <2>2. PICK left \in Nat : left = SumOver(Owings, Current \ {c})
    BY <1>t, <1>12
  <2>3. Resolved' \in SUBSET Ids
    BY NextBookTypes
  <2>4. PICK after \in Int : after = SumOver(Pools', Resolved')
    BY <2>3, NextPoolSums
  <2>5. tcrBalance' = SumOver(Deposits', Listings) + left + after
    BY <1>t, <1>s, <1>4, <1>8, <1>9, <1>11, <1>13, <1>14, <2>2, <2>4
  <2>6. QED
    BY <1>6, <2>1, <2>2, <2>4, <2>5, SolventReserves DEF Reserves
<1>15. CASE chs = challenges /\ 2 * ch.stake + extra = owed
  <2>1. Resolved' = Resolved \cup {c}
    BY <1>4, <1>7, <1>15 DEF Resolved
  <2>2. SumOver(Pools', Resolved \cup {c}) = SumOver(Pools, Resolved) + pool
    <3>1. \A d \in Resolved : challenges'[d] = challenges[d]
      BY <1>t, <1>4, <1>5, <1>15
    <3>2. SumOver(Pools', Resolved) = SumOver(Pools, Resolved)
      BY <1>t, <3>1, PoolsStay
    <3>3. QED
      BY <1>t, <1>5, <1>7, <3>2, PoolsGrow
  <2>3. SumOver(Pools', Resolved') + reward + extra = SumOver(Pools, Resolved) + owed
    BY <1>s, <1>7, <1>8, <1>15, <2>1, <2>2
  <2>4. \A d \in Current \ {c} : challenges'[d] = challenges[d]
    BY <1>t, <1>4, <1>15
  <2>5. QED
    BY <1>14, <2>3, <2>4
<1>16. ASSUME NEW ac \in Polls, ac = Veto(l), ac # c, ~challenges[ac].resolved, ch = challenges[c],
              NEW total \in Nat, chs = [challenges EXCEPT ![ac] = Resolve(@, total)],
              extra = Reward(challenges[ac], total)
       PROVE  Solvent'
  <2>1. /\ appeals[c].appealChallengeID = ac /\ challenges[ac].stake = fee
        /\ \A m \in Listings : ChallengeOf(m) # ac
    <3>1. appeals[c].appealChallengeID = ac /\ ac # 0
      BY <1>1, <1>16, PollsAssumption DEF Veto, AppealOf
    <3>2. QED
      BY <1>8, <3>1 DEF Records, VetoesStaked, Structure, DisputesApart
  <2>2. owed = 2 * stake + 2 * fee
    BY <1>8, <2>1, <1>16, PollsAssumption DEF OwedTo
  <2>3. /\ challenges'[ac] = Resolve(challenges[ac], total)
        /\ \A d \in Ids : d # c /\ d # ac => challenges'[d] = challenges[d]
    BY <1>t, <1>4, <1>16, ListingTypes
  <2>4. PICK share \in Nat : /\ share = Unclaimed(ac)' /\ extra + share = 2 * fee
                             /\ challenges'[ac].resolved
    <3>1. challenges[ac] \in Challenge /\ challenges[ac].rewardPool <= challenges[ac].stake
      BY Numbers
    <3>2. PICK veto \in Challenge : veto = challenges[ac] /\ veto.rewardPool <= veto.stake
      BY <3>1
    <3>3. QED
      BY <1>16, <2>1, <2>3, <3>2, WholeStake
  <2>5. Resolved' = (Resolved \cup {c}) \cup {ac}
    BY <1>7, <2>3, <2>4 DEF Resolved
  <2>6. SumOver(Pools', (Resolved \cup {c}) \cup {ac}) = SumOver(Pools, Resolved) + pool + share
    <3>1. ac \notin Resolved \cup {c} /\ Resolved \cup {c} \in SUBSET Ids
      BY <1>t, <1>16 DEF Resolved
    <3>2. \A d \in Resolved : challenges'[d] = challenges[d]
      BY <1>t, <1>5, <2>3, <3>1
    <3>3. SumOver(Pools', Resolved) = SumOver(Pools, Resolved)
      BY <1>t, <3>2, PoolsStay
    <3>4. SumOver(Pools', Resolved \cup {c}) = SumOver(Pools, Resolved) + pool
      BY <1>t, <1>5, <1>7, <3>3, PoolsGrow
    <3>5. QED
      BY <2>4, <3>1, <3>4, PoolsGrow
  <2>7. SumOver(Pools', Resolved') + reward + extra = SumOver(Pools, Resolved) + owed
    <3>1. ch.stake = stake
      BY <1>8, <1>16
    <3>2. QED
      BY <1>s, <1>7, <2>2, <2>4, <2>5, <2>6, <3>1
  <2>8. \A d \in Current \ {c} : challenges'[d] = challenges[d]
    BY <1>t, <2>1, <2>3 DEF Current
  <2>9. QED
    BY <1>14, <2>7, <2>8
<1>17. QED
  <2>1. CASE /\ Veto(l) = 0 /\ chs = challenges
             /\ \A h \in Nat : appeals[c].appealFeePaid = 2 * h => 2 * ch.stake + extra = OwedTo(c)
    BY <1>8, <1>15, <2>1 DEF FeesEven
  <2>2. CASE /\ Veto(l) \in Polls /\ Veto(l) # c /\ ~challenges[Veto(l)].resolved
             /\ ch = challenges[c]
             /\ chs = [challenges EXCEPT ![Veto(l)] = Resolve(@, WinningTokens(Veto(l)))]
             /\ extra = Reward(challenges[Veto(l)], WinningTokens(Veto(l)))
    <3>1. PICK ac \in Polls, total \in Nat : ac = Veto(l) /\ total = WinningTokens(Veto(l))
      BY <1>t, <2>2, TalliesType
    <3>2. QED
      BY <1>16, <2>2, <3>1
  <2>3. QED
    BY <1>1, <1>3, <2>1, <2>2 DEF Outcome

(* All the tokens of an open dispute and of a resolved one are accounted for. *)
THEOREM RegistrySolvent ==
    ASSUME EvenFees
    PROVE  Spec => []Solvent
<1> DEFINE Inv == Typed /\ Structure /\ Records /\ FeesEven /\ Solvent
<1>1. ASSUME Init PROVE Inv
  <2>1. FeesEven
    <3>1. \A c \in Ids : appeals[c].appealFeePaid = 2 * 0
      BY <1>1 DEF Init, NoAppeal
    <3>2. QED
      BY <3>1 DEF FeesEven
  <2>2. Solvent
    <3>1. Current = {} /\ Resolved = {}
      BY <1>1, IdsArePolls DEF Init, Current, Resolved, ChallengeOf, NoListing, NewChallenge
    <3>2. SumOver(Deposits, Listings) = 0
      <4> DEFINE none == [l \in Listings |-> 0]
      <4>1. Deposits = none
        BY <1>1 DEF Init, Deposits, NoListing
      <4>2. \A l \in Listings : none[l] \in Nat
        OBVIOUS
      <4>3. SumOver(none, Listings) = 0
        BY ListingsAssumption, SumOfNothing
      <4>4. QED
        BY <4>1, <4>3
    <3>3. tcrBalance = 0
      BY <1>1 DEF Init
    <3>4. Reserves = 0
      BY <3>1, <3>2, SumEmpty DEF Reserves
    <3>5. QED
      BY <3>3, <3>4, SolventReserves
  <2>3. QED
    BY <1>1, <2>1, <2>2, TypedInit, StructureInit, RecordsInit
<1>2. ASSUME Inv, [Next]_vars PROVE Inv'
  <2>1. Typed /\ Typed' /\ Structure' /\ Records'
    BY <1>2, TypedNext, StructureNext, RecordsNext, Numbers
  <2>2. FeesEven'
    BY <1>2, FeesEvenNext
  <2>3. Solvent'
    <3>1. CASE Idle
      BY <1>2, <3>1, IdleMoney
    <3>2. ASSUME NEW u \in Users, NEW l \in Listings, NEW n \in Amounts,
                 Apply(u, l, n) \/ Deposit(u, l, n) \/ Withdraw(u, l, n)
          PROVE  Solvent'
      <4>1. /\ UNCHANGED <<challenges, appeals>>
            /\ \A m \in Listings : /\ ChallengeOf(m)' = ChallengeOf(m)
                                   /\ (m # l => listings'[m] = listings[m])
            /\ tcrBalance' - listings'[l].unstakedDeposit
                  = tcrBalance - listings[l].unstakedDeposit
        BY <1>2, <3>2, PublisherEffect DEF disputes
      <4>2. QED
        BY <1>2, <2>1, <4>1, DepositMoney
    <3>3. ASSUME NEW l \in Listings, Unchallenged(l), ResetListing(l),
                 UNCHANGED <<tallyVars, settings, disputes>>
          PROVE  Solvent'
      <4>1. /\ UNCHANGED <<challenges, appeals>>
            /\ \A m \in Listings : /\ ChallengeOf(m)' = ChallengeOf(m)
                                   /\ (m # l => listings'[m] = listings[m])
            /\ tcrBalance' - listings'[l].unstakedDeposit
                  = tcrBalance - listings[l].unstakedDeposit
        BY <1>2, <3>3, RemovalEffect DEF disputes
      <4>2. QED
        BY <1>2, <2>1, <4>1, DepositMoney
    <3>4. ASSUME NEW l \in Listings, CanBeWhitelisted(l), WhitelistApplication(l) PROVE Solvent'
      <4>1. /\ UNCHANGED <<challenges, appeals>>
            /\ \A m \in Listings : /\ ChallengeOf(m)' = ChallengeOf(m)
                                   /\ (m # l => listings'[m] = listings[m])
            /\ tcrBalance' - listings'[l].unstakedDeposit
                  = tcrBalance - listings[l].unstakedDeposit
        BY <1>2, <3>4, ListingEffect DEF disputes
      <4>2. QED
        BY <1>2, <2>1, <4>1, DepositMoney
    <3>5. ASSUME NEW u \in Users, NEW l \in Listings,
                 Present(l) /\ Unchallenged(l) /\ StartChallenge(u, l)
          PROVE  Solvent'
      BY <1>2, <2>1, <3>5, ChallengeMoney
    <3>6. ASSUME NEW u \in Users, NEW l \in Listings,
                 RequestAppeal(u, l) \/ GrantAppeal(l) \/ ChallengeGrantedAppeal(u, l)
          PROVE  Solvent'
      BY <1>2, <2>1, <3>6, AppealMoney
    <3>7. ASSUME NEW v \in Voters, NEW c \in Polls, ClaimReward(v, c) PROVE Solvent'
      BY <1>2, <2>1, <3>7, ClaimMoney
    <3>8. ASSUME NEW l \in Listings, UpdateStatus(l) /\ ~CanBeWhitelisted(l) PROVE Solvent'
      BY <1>2, <2>1, <3>8, VerdictMoney
    <3>9. ASSUME NEW l \in Listings, GrantAppeal(l) PROVE Solvent'
      BY <3>6, <3>9, OwnerAssumption
    <3>10. QED
      BY <1>2, <3>1, <3>2, <3>3, <3>4, <3>5, <3>6, <3>7, <3>8, <3>9, BookSteps
  <2>4. QED
    BY <2>1, <2>2, <2>3
<1>3. Inv => Solvent
  OBVIOUS
<1>4. QED
  BY <1>1, <1>2, <1>3, PTL DEF Spec

------------------------------------------------------------------------------------
(* The verdict. *)
LEMMA CreditAdds ==
    ASSUME NEW b \in [Users -> Nat], NEW u, NEW n \in Nat
    PROVE  /\ \A x \in Users : Credit(b, u, n)[x] >= b[x]
           /\ (u \in Users => Credit(b, u, n)[u] = b[u] + n)
<1>1. CASE n = 0
  BY <1>1 DEF Credit
<1>2. CASE n # 0
  <2>1. Credit(b, u, n) = [b EXCEPT ![u] = b[u] + n]
    BY <1>2 DEF Credit
  <2>2. \A x \in Users : x # u => Credit(b, u, n)[x] = b[x]
    BY <2>1
  <2>3. u \in Users => Credit(b, u, n)[u] = b[u] + n /\ b[u] \in Nat
    BY <2>1
  <2>4. QED
    BY <2>2, <2>3
<1>3. QED
  BY <1>1, <1>2

(* The one that is paid in the middle keeps what it was paid. *)
LEMMA CreditsAdd ==
    ASSUME NEW b \in [Users -> Nat], NEW u, NEW n \in Nat, NEW x \in Users, NEW m \in Nat,
           NEW w, NEW k \in Nat
    PROVE  \A owed \in Nat : m >= owed =>
              Credit(Credit(Credit(b, u, n), x, m), w, k)[x] >= b[x] + owed
<1>1. PICK b1 \in [Users -> Nat] : b1 = Credit(b, u, n) /\ b1[x] >= b[x]
  BY CreditType, CreditAdds
<1>2. PICK b2 \in [Users -> Nat] : b2 = Credit(b1, x, m) /\ b2[x] = b1[x] + m
  BY CreditType, CreditAdds
<1>3. PICK b3 \in [Users -> Nat] : b3 = Credit(b2, w, k) /\ b3[x] >= b2[x]
  BY CreditType, CreditAdds
<1>4. b[x] \in Nat /\ b1[x] \in Nat /\ b2[x] \in Nat /\ b3[x] \in Nat
  OBVIOUS
<1>5. QED
  BY <1>1, <1>2, <1>3, <1>4

LEMMA VerdictStands ==
    ASSUME Typed, Structure, Records, NEW l \in Listings, UpdateStatus(l), ~CanBeWhitelisted(l),
           NEW c \in Polls, c = ChallengeOf(l)
    PROVE  /\ (listings'[l].whitelisted <=> (Passed(c) # Overturned(c)'))
           /\ (listings'[l].whitelisted => listings'[l].unstakedDeposit
                                    >= listings[l].unstakedDeposit + challenges[c].stake)
           /\ (~listings'[l].whitelisted => balanceOf'[challenges[c].challenger]
                             >= balanceOf[challenges[c].challenger] + challenges[c].stake)
<1> USE IdsArePolls
<1>1. PICK ch \in Challenge, over \in BOOLEAN, chs \in [Ids -> Challenge], extra \in Nat :
               \E payee : Outcome(l, ch, over, chs, payee, extra)
  BY Outcomes
<1>2. PICK payee : Outcome(l, ch, over, chs, payee, extra)
  BY <1>1
<1>3. (over <=> Overturned(c)') /\ ch.challenger = challenges[c].challenger
  BY <1>2 DEF Outcome, Overturned
<1>4. PICK winning \in Nat, reward \in Nat :
         /\ winning = (IF over THEN LosingTokens(c) ELSE WinningTokens(c))
         /\ reward = Reward(ch, winning) /\ reward >= challenges[c].stake
         /\ (listings'[l].whitelisted <=> Kept(c, over))
         /\ (listings'[l].whitelisted =>
               listings'[l].unstakedDeposit = listings[l].unstakedDeposit + reward)
         /\ (~listings'[l].whitelisted =>
               balanceOf' = Credit(Credit(Credit(balanceOf, listings[l].owner,
                                                 listings[l].unstakedDeposit),
                                          ch.challenger, reward), payee, extra))
  BY <1>2, OutcomeEffect
<1>5. Overturned(c)' \in BOOLEAN /\ Passed(c) \in BOOLEAN
  BY DEF Overturned, Passed
<1>6. listings'[l].whitelisted <=> (Passed(c) # Overturned(c)')
  <2>1. (Passed(c) # over) <=> (Passed(c) # Overturned(c)')
    BY <1>3, <1>5
  <2>2. QED
    BY <1>4, <2>1 DEF Kept
<1>7. PICK deposit \in Nat, stake \in Nat, x \in Users \cup {Nobody} :
         /\ deposit = listings[l].unstakedDeposit /\ stake = challenges[c].stake
         /\ x = challenges[c].challenger
  BY Numbers DEF Challenge
<1>8. listings'[l].whitelisted => listings'[l].unstakedDeposit >= deposit + stake
  BY <1>4, <1>7
<1>9. x \in Users
  <2>1. c <= pollNonce
    BY Numbers, ListingTypes DEF Structure, FreshIdsBlank
  <2>2. QED
    BY <1>7, <2>1 DEF Records, ChallengersSet
<1>10. ASSUME ~listings'[l].whitelisted PROVE balanceOf'[x] >= balanceOf[x] + stake
  <2>1. balanceOf \in [Users -> Nat]
    BY Numbers DEF TypeOK
  <2>2. PICK b \in [Users -> Nat] : b = balanceOf
    BY <2>1
  <2>3. Credit(Credit(Credit(b, listings[l].owner, deposit), x, reward), payee, extra)[x]
           >= b[x] + stake
    BY <1>4, <1>7, <1>9, CreditsAdd
  <2>4. QED
    BY <1>3, <1>4, <1>7, <1>10, <2>2, <2>3
<1>11. QED
  BY <1>6, <1>7, <1>8, <1>10

(* The last word decides, and the loser's side does not get the stake. *)
THEOREM LastWordDecides == Spec => VerdictHonoured
<1> DEFINE Honoured == \A l \in Listings, c \in Polls :
               LET ch    == challenges[c]
                   stays == Passed(c) # Overturned(c)'
               IN  c = ChallengeOf(l) /\ challenges'[c].resolved =>
                     /\ listings'[l].whitelisted = stays
                     /\ stays => listings'[l].unstakedDeposit
                                   >= listings[l].unstakedDeposit + ch.stake
                     /\ ~stays => balanceOf'[ch.challenger] >= balanceOf[ch.challenger] + ch.stake
<1>1. ASSUME Typed, Structure, Records, [Next]_vars PROVE Honoured
  <2> SUFFICES ASSUME NEW l \in Listings, NEW c \in Polls, c = ChallengeOf(l),
                      challenges'[c].resolved
               PROVE  LET ch    == challenges[c]
                          stays == Passed(c) # Overturned(c)'
                      IN  /\ listings'[l].whitelisted = stays
                          /\ stays => listings'[l].unstakedDeposit
                                   >= listings[l].unstakedDeposit + ch.stake
                          /\ ~stays => balanceOf'[ch.challenger]
                                          >= balanceOf[ch.challenger] + ch.stake
    OBVIOUS
  <2>1. c # 0 /\ ~challenges[c].resolved
    BY <1>1, PollsAssumption DEF Structure, DisputesApart
  <2>2. PICK m \in Listings : /\ UpdateStatus(m) /\ ~CanBeWhitelisted(m)
                              /\ (c = ChallengeOf(m) \/ c = Veto(m))
    BY <1>1, <2>1, Numbers, VerdictGiven DEF Veto
  <2>3. m = l
    <3>1. ChallengeOf(m) \in Ids
      BY <1>1, Numbers, IdsArePolls
    <3>2. c # Veto(m)
      BY <1>1, <2>1, <3>1 DEF Veto, AppealOf, Structure, DisputesApart
    <3>3. QED
      BY <1>1, <2>1, <2>2, <3>2 DEF Structure, DisputesApart
  <2>4. /\ (listings'[l].whitelisted <=> (Passed(c) # Overturned(c)'))
        /\ (listings'[l].whitelisted => listings'[l].unstakedDeposit
                                 >= listings[l].unstakedDeposit + challenges[c].stake)
        /\ (~listings'[l].whitelisted => balanceOf'[challenges[c].challenger]
                          >= balanceOf[challenges[c].challenger] + challenges[c].stake)
    BY <1>1, <2>2, <2>3, VerdictStands
  <2>5. listings'[l].whitelisted \in BOOLEAN
    BY <1>1, TypedNext DEF Typed, TypeOK, Listing
  <2>6. QED
    BY <2>4, <2>5
<1>2. Spec => [](Typed /\ Structure /\ Records)
  <2>1. Init => Typed /\ Structure /\ Records
    BY TypedInit, StructureInit, RecordsInit
  <2>2. Typed /\ Structure /\ Records /\ [Next]_vars => (Typed /\ Structure /\ Records)'
    BY TypedNext, StructureNext, RecordsNext, Numbers
  <2>3. QED
    BY <2>1, <2>2, PTL DEF Spec
<1>3. ASSUME Typed, Structure, Records, [Next]_vars PROVE [Honoured]_vars
  BY <1>1, <1>3
<1>4. QED
  BY <1>2, <1>3, PTL DEF Spec, VerdictHonoured

------------------------------------------------------------------------------------
(* The claims on a pool.  With no option but for and against, the tokens that *)
(* won are the winners' and those that lost are the losers'.                  *)
OnlyForAgainst == Options \subseteq {0, 1}

LEMMA SidesCovered ==
    ASSUME OnlyForAgainst, TypeOK, NEW c \in Polls
    PROVE  /\ WinningTokens(c) = TokensOf(c, Winners(c))
           /\ LosingTokens(c) = TokensOf(c, Losers(c))
<1>1. \A v \in Revealed(c) : votes[c][v] \in Options \X Nat
  BY DEF TypeOK, Revealed
<1>2. \A v \in Revealed(c) : votes[c][v][1] = 1 \/ votes[c][v][1] = 0
  BY <1>1 DEF OnlyForAgainst
<1>3. /\ Winners(c) = (IF Passed(c) THEN VotedFor(c) ELSE Revealed(c) \ VotedFor(c))
      /\ Losers(c) = (IF Passed(c) THEN Revealed(c) \ VotedFor(c) ELSE VotedFor(c))
  BY <1>2 DEF Winners, Losers, VotedFor
<1>4. QED
  BY <1>3 DEF WinningTokens, LosingTokens, VotesFor, VotesAgainst

LEMMA ResolvedSteps ==
    ASSUME Typed, Structure, Records, [Next]_vars, NEW c \in Polls, challenges[c].resolved
    PROVE  challenges'[c] = challenges[c] \/ \E v \in Voters : ClaimReward(v, c)
<1> USE IdsArePolls
<1>t. TypeOK /\ pollNonce \in Nat /\ challenges \in [Ids -> Challenge] /\ c \in Ids
  BY Numbers, ListingTypes
<1>0. c # pollNonce + 1
  BY <1>t DEF Structure, FreshIdsBlank
<1>1. CASE UNCHANGED challenges
  BY <1>1
<1>2. ASSUME NEW l \in Listings, ResetListing(l), UNCHANGED <<tallyVars, settings, disputes>>
      PROVE  UNCHANGED challenges
  BY <1>2 DEF disputes
<1>3. ASSUME NEW u \in Users, NEW l \in Listings, NEW n \in Amounts,
             Apply(u, l, n) \/ Deposit(u, l, n) \/ Withdraw(u, l, n)
      PROVE  UNCHANGED challenges
  BY <1>3 DEF Apply, Deposit, Withdraw, disputes
<1>4. ASSUME NEW l \in Listings, WhitelistApplication(l) PROVE UNCHANGED challenges
  BY <1>4 DEF WhitelistApplication, disputes
<1>5. ASSUME NEW u \in Users, NEW l \in Listings,
             StartChallenge(u, l) \/ ChallengeGrantedAppeal(u, l)
      PROVE  challenges'[c] = challenges[c]
  BY <1>0, <1>t, <1>5 DEF StartChallenge, ChallengeGrantedAppeal
<1>6. ASSUME NEW u, NEW l \in Listings, RequestAppeal(u, l) \/ GrantAppeal(l)
      PROVE  UNCHANGED challenges
  BY <1>6 DEF RequestAppeal, GrantAppeal
<1>7. ASSUME NEW v \in Voters, NEW d \in Polls, ClaimReward(v, d), d # c
      PROVE  challenges'[c] = challenges[c]
  BY <1>t, <1>7 DEF ClaimReward
<1>8. ASSUME NEW l \in Listings, UpdateStatus(l), ~CanBeWhitelisted(l)
      PROVE  challenges'[c] = challenges[c]
  <2>1. PICK ch \in Challenge, over \in BOOLEAN, chs \in [Ids -> Challenge], extra \in Nat :
                 \E payee : Outcome(l, ch, over, chs, payee, extra)
    BY <1>8, Outcomes
  <2>2. PICK payee : Outcome(l, ch, over, chs, payee, extra)
    BY <2>1
  <2>3. ChallengeOf(l) \in Polls
    BY <1>8, Outcomes
  <2>4. c # ChallengeOf(l)
    BY <2>3, PollsAssumption DEF Structure, DisputesApart
  <2>5. challenges'[c] = chs[c]
    BY <1>t, <2>2, <2>4 DEF Outcome, Settle, CanSettle, Payout, RewardOf
  <2>6. chs[c] = challenges[c]
    BY <1>t, <2>2 DEF Outcome
  <2>7. QED
    BY <2>5, <2>6
<1>9. CASE Idle
  BY <1>1, <1>9 DEF Idle
<1>10. QED
  BY <1>1, <1>2, <1>3, <1>4, <1>5, <1>6, <1>7, <1>8, <1>9, BookSteps

LEMMA SameClaims ==
    ASSUME NEW c \in Polls, challenges'[c] = challenges[c], Entitled(c)' = Entitled(c),
           TokensOn(c)' = TokensOn(c),
           challenges[c].totalTokens = TokensOf(c, Entitled(c) \ challenges[c].tokenClaims)
    PROVE  challenges'[c].totalTokens
              = TokensOf(c, Entitled(c) \ challenges[c].tokenClaims)'
  BY DEF TokensOf

LEMMA ClaimUsesUp ==
    ASSUME Typed, NEW c \in Polls, NEW v \in Voters, ClaimReward(v, c),
           Entitled(c)' = Entitled(c), TokensOn(c)' = TokensOn(c),
           challenges[c].totalTokens = TokensOf(c, Entitled(c) \ challenges[c].tokenClaims)
    PROVE  challenges'[c].totalTokens
              = TokensOf(c, Entitled(c) \ challenges[c].tokenClaims)'
<1> DEFINE left == Entitled(c) \ challenges[c].tokenClaims
<1>1. TypeOK /\ c \in Ids /\ challenges[c].totalTokens \in Nat
  BY Numbers, IdsArePolls
<1>2. PICK tokens \in Nat :
         /\ tokens = votes[c][v][2] /\ v \in left
         /\ challenges'[c].totalTokens = challenges[c].totalTokens - tokens
         /\ challenges'[c].tokenClaims = challenges[c].tokenClaims \cup {v}
  <2>1. PICK tokens \in Nat, reward \in Nat :
              /\ tokens = votes[c][v][2] /\ v \in Entitled(c) \ challenges[c].tokenClaims
              /\ challenges[c].resolved
              /\ challenges[c].totalTokens > 0 /\ challenges[c].totalTokens >= tokens
              /\ challenges[c].rewardPool >= reward
              /\ (challenges[c].totalTokens = tokens => challenges[c].rewardPool = reward)
              /\ UNCHANGED <<tallyVars, listings, appeals>>
              /\ \A d \in Ids \ {c} : challenges'[d] = challenges[d]
              /\ challenges'[c] = [challenges[c] EXCEPT !.totalTokens = @ - tokens,
                                                        !.rewardPool = @ - reward,
                                                        !.tokenClaims = @ \cup {v}]
              /\ challenges'[c].totalTokens = challenges[c].totalTokens - tokens
              /\ challenges'[c].rewardPool = challenges[c].rewardPool - reward
              /\ challenges'[c].tokenClaims = challenges[c].tokenClaims \cup {v}
              /\ challenges'[c].stake = challenges[c].stake
              /\ challenges'[c].resolved = challenges[c].resolved
              /\ challenges'[c].challenger = challenges[c].challenger
              /\ tcrBalance' = tcrBalance - reward
    BY ClaimEffect
  <2>2. QED
    BY <2>1
<1>3. left \in SUBSET Voters /\ left \subseteq Revealed(c)
  BY DEF Entitled, Winners, Losers, Revealed
<1>4. IsFiniteSet(left) /\ \A y \in left : TokensOn(c)[y] \in Nat
  <2>1. \A y \in left : votes[c][y] \in Options \X Nat
    BY <1>1, <1>3 DEF TypeOK, Revealed
  <2>2. \A y \in left : TokensOn(c)[y] = votes[c][y][2]
    BY <1>3 DEF TokensOn
  <2>3. IsFiniteSet(left)
    BY <1>3, UsersAssumption, FS_Subset
  <2>4. QED
    BY <2>1, <2>2, <2>3
<1>5. TokensOn(c)[v] = tokens
  BY <1>2, <1>3 DEF TokensOn
<1>6. TokensOf(c, left) = tokens + TokensOf(c, left \ {v})
  BY <1>2, <1>4, <1>5, SumRemove DEF TokensOf
<1>7. TokensOf(c, left \ {v}) \in Nat
  BY <1>1, <1>3, TokensType
<1>8. (Entitled(c) \ challenges[c].tokenClaims)' = left \ {v}
  BY <1>2
<1>9. TokensOf(c, Entitled(c) \ challenges[c].tokenClaims)' = TokensOf(c, left \ {v})
  BY <1>8 DEF TokensOf
<1>10. challenges'[c].totalTokens = TokensOf(c, left \ {v})
  BY <1>1, <1>2, <1>6, <1>7
<1>11. QED
  BY <1>9, <1>10

(* A new verdict entitles the side whose tokens were counted. *)
LEMMA VerdictEntitles ==
    ASSUME OnlyForAgainst, Typed, Structure, Records,
           NEW l \in Listings, UpdateStatus(l), ~CanBeWhitelisted(l),
           NEW c \in Polls, c = ChallengeOf(l) \/ c = Veto(l), ~challenges[c].resolved
    PROVE  challenges'[c].totalTokens
              = TokensOf(c, Entitled(c) \ challenges[c].tokenClaims)'
<1> USE IdsArePolls
<1>t. TypeOK /\ c \in Ids /\ challenges[c] \in Challenge /\ challenges[c].tokenClaims = {}
  BY Numbers DEF Records, NoEarlyClaims
<1>1. PICK ch \in Challenge, over \in BOOLEAN, chs \in [Ids -> Challenge], extra \in Nat :
               \E payee : Outcome(l, ch, over, chs, payee, extra)
  BY Outcomes
<1>2. PICK payee : Outcome(l, ch, over, chs, payee, extra)
  BY <1>1
<1>3. ChallengeOf(l) \in Polls
  BY Outcomes
<1>4. UNCHANGED tallyVars
  BY <1>2 DEF Outcome, Settle, CanSettle, Payout, RewardOf
<1>5. /\ TokensOn(c)' = TokensOn(c) /\ Winners(c)' = Winners(c) /\ Losers(c)' = Losers(c)
  <2>1. poll' = poll /\ votes' = votes
    BY <1>4 DEF tallyVars
  <2>2. Revealed(c)' = Revealed(c) /\ VotedFor(c)' = VotedFor(c) /\ TokensOn(c)' = TokensOn(c)
    BY <2>1 DEF Revealed, VotedFor, TokensOn
  <2>3. (Passed(c)' <=> Passed(c))
    BY <2>1, <2>2 DEF Passed, VotesFor, VotesAgainst, TokensOf
  <2>4. QED
    BY <2>1, <2>2, <2>3 DEF Winners, Losers
<1>6. ASSUME NEW side, side = Entitled(c)', challenges'[c].tokenClaims = {},
             challenges'[c].totalTokens = TokensOf(c, side)
      PROVE  challenges'[c].totalTokens = TokensOf(c, Entitled(c) \ challenges[c].tokenClaims)'
  <2>1. (Entitled(c) \ challenges[c].tokenClaims)' = side
    BY <1>6
  <2>2. TokensOf(c, Entitled(c) \ challenges[c].tokenClaims)' = TokensOf(c, side)
    BY <1>5, <2>1 DEF TokensOf
  <2>3. QED
    BY <1>6, <2>2
<1>7. CASE c = ChallengeOf(l)
  <2>1. PICK winning \in Nat :
           /\ winning = (IF over THEN LosingTokens(c) ELSE WinningTokens(c))
           /\ challenges'[c] = Resolve(ch, winning)
    BY <1>2, <1>7, OutcomeEffect
  <2>2. ch.tokenClaims = {} /\ (over <=> Overturned(c)')
    BY <1>t, <1>2, <1>7 DEF Outcome, Overturned
  <2>3. challenges'[c].tokenClaims = {} /\ challenges'[c].totalTokens = winning
    BY <2>1, <2>2 DEF Resolve, Challenge
  <2>4. Entitled(c)' = IF over THEN Losers(c) ELSE Winners(c)
    BY <1>5, <2>2 DEF Entitled
  <2>5. QED
    BY <1>t, <1>6, <2>1, <2>3, <2>4, SidesCovered
<1>8. CASE c # ChallengeOf(l) /\ c = Veto(l)
  <2>1. c # 0
    BY PollsAssumption
  <2>2. /\ chs = [challenges EXCEPT ![c] = Resolve(@, WinningTokens(c))]
        /\ appeals' = [appeals EXCEPT ![ChallengeOf(l)].overturned = ~over]
    BY <1>2, <1>8, <2>1 DEF Outcome
  <2>3. challenges'[c] = chs[c]
    BY <1>t, <1>2, <1>8 DEF Outcome, Settle, CanSettle, Payout, RewardOf
  <2>4. challenges'[c] = Resolve(challenges[c], WinningTokens(c))
    BY <1>t, <2>2, <2>3, ListingTypes
  <2>5. PICK veto \in Challenge, winning \in Nat :
           veto = challenges[c] /\ winning = WinningTokens(c)
    BY <1>t, TalliesType
  <2>6. challenges'[c].tokenClaims = {} /\ challenges'[c].totalTokens = winning
    BY <1>t, <2>4, <2>5 DEF Resolve, Challenge
  <2>7. ~Overturned(c)'
    <3>1. ~appeals[c].appealGranted
      BY <1>t, <1>3, <1>8, <2>1 DEF Records, VetoesStaked, Veto, AppealOf
    <3>2. appeals'[c] = appeals[c]
      BY <1>t, <1>8, <2>2, ListingTypes
    <3>3. QED
      BY <3>1, <3>2 DEF Overturned
  <2>8. Entitled(c)' = Winners(c)
    BY <1>5, <2>7 DEF Entitled
  <2>9. QED
    BY <1>t, <1>6, <2>5, <2>6, <2>8, SidesCovered
<1>9. QED
  BY <1>7, <1>8

(* What is left of a pool is there for those that have not claimed, as long   *)
(* as every vote is for or against.                                           *)
THEOREM ClaimsBacked ==
    ASSUME OnlyForAgainst
    PROVE  Spec => []ClaimsCovered
<1> DEFINE Inv == Typed /\ Structure /\ Records /\ ClaimsCovered
<1>1. ASSUME Init PROVE Inv
  <2>1. Resolved = {}
    BY <1>1, IdsArePolls DEF Init, Resolved, NewChallenge
  <2>2. QED
    BY <1>1, <2>1, TypedInit, StructureInit, RecordsInit DEF ClaimsCovered
<1>2. ASSUME Inv, [Next]_vars PROVE Inv'
  <2>1. Typed' /\ Structure' /\ Records' /\ TypeOK
    BY <1>2, TypedNext, StructureNext, RecordsNext, Numbers
  <2>2. ASSUME NEW c \in Polls, challenges'[c].resolved
        PROVE  challenges'[c].totalTokens
                  = TokensOf(c, Entitled(c) \ challenges[c].tokenClaims)'
    <3>1. CASE challenges[c].resolved
      <4>1. Entitled(c)' = Entitled(c) /\ TokensOn(c)' = TokensOn(c)
        BY <1>2, <2>1, <3>1, EntitlementKept
      <4>2. challenges[c].totalTokens = TokensOf(c, Entitled(c) \ challenges[c].tokenClaims)
        BY <1>2, <3>1 DEF ClaimsCovered, Resolved
      <4>3. challenges'[c] = challenges[c] \/ \E v \in Voters : ClaimReward(v, c)
        BY <1>2, <3>1, ResolvedSteps
      <4>4. CASE challenges'[c] = challenges[c]
        BY <4>1, <4>2, <4>4, SameClaims
      <4>5. ASSUME NEW v \in Voters, ClaimReward(v, c)
            PROVE  challenges'[c].totalTokens
                      = TokensOf(c, Entitled(c) \ challenges[c].tokenClaims)'
        BY <1>2, <4>1, <4>2, <4>5, ClaimUsesUp
      <4>6. QED
        BY <4>3, <4>4, <4>5
    <3>2. CASE ~challenges[c].resolved
      <4>1. PICK m \in Listings : /\ UpdateStatus(m) /\ ~CanBeWhitelisted(m)
                                  /\ (c = ChallengeOf(m) \/ c = Veto(m))
        BY <1>2, <2>1, <2>2, <3>2, VerdictGiven DEF Veto
      <4>2. QED
        BY <1>2, <3>2, <4>1, VerdictEntitles
    <3>3. QED
      BY <3>1, <3>2
  <2>3. ClaimsCovered'
    BY <2>2 DEF ClaimsCovered, Resolved
  <2>4. QED
    BY <2>1, <2>3
<1>3. Inv => ClaimsCovered
  OBVIOUS
<1>4. QED
  BY <1>1, <1>2, <1>3, PTL DEF Spec

------------------------------------------------------------------------------------
(* What a settlement pays out is there. *)
LEMMA FeesStayEven ==
    ASSUME EvenFees
    PROVE  Spec => []FeesEven
<1> DEFINE Inv == Typed /\ Structure /\ Records /\ FeesEven
<1>1. ASSUME Init PROVE Inv
  <2>1. \A c \in Ids : appeals[c].appealFeePaid = 2 * 0
    BY <1>1 DEF Init, NoAppeal
  <2>2. FeesEven
    BY <2>1 DEF FeesEven
  <2>3. QED
    BY <1>1, <2>2, TypedInit, StructureInit, RecordsInit
<1>2. ASSUME Inv, [Next]_vars PROVE Inv'
  BY <1>2, TypedNext, StructureNext, RecordsNext, FeesEvenNext, Numbers
<1>3. QED
  BY <1>1, <1>2, PTL DEF Spec

(* The registry holds the deposit of a listing and what its dispute owes. *)
LEMMA DisputeFunded ==
    ASSUME Typed, Solvent, NEW l \in Listings, ChallengeOf(l) # 0
    PROVE  tcrBalance >= listings[l].unstakedDeposit + OwedTo(ChallengeOf(l))
<1>1. PICK c \in Current : c = ChallengeOf(l)
  BY DEF Current
<1>t. Current \in SUBSET Ids /\ c \in Ids /\ IsFiniteSet(Listings) /\ IsFiniteSet(Current)
  BY BookTypes, ListingsAssumption
<1>2. PICK deposits \in Nat, owings \in Nat, pools \in Nat :
          /\ deposits = SumOver(Deposits, Listings) /\ owings = SumOver(Owings, Current)
          /\ pools = SumOver(Pools, Resolved)
  BY <1>t, SumTypes, BookTypes
<1>3. PICK deposit \in Nat, owed \in Nat :
          deposit = listings[l].unstakedDeposit /\ owed = OwedTo(c)
  BY <1>t, Numbers, BookTypes DEF Owings
<1>4. deposit <= deposits
  <2>1. \A m \in Listings : Deposits[m] \in Nat
    BY BookTypes
  <2>2. SumOver(Deposits, Listings) = Deposits[l] + SumOver(Deposits, Listings \ {l})
    BY <1>t, <2>1, SumRemove
  <2>3. SumOver(Deposits, Listings \ {l}) \in Nat
    BY <1>t, <2>1, FS_RemoveElement, SumNat
  <2>4. QED
    BY <1>2, <1>3, <2>2, <2>3 DEF Deposits
<1>5. owed <= owings
  <2>1. \A d \in Current : Owings[d] \in Nat
    BY <1>t, BookTypes
  <2>2. SumOver(Owings, Current) = Owings[c] + SumOver(Owings, Current \ {c})
    BY <1>t, <2>1, SumRemove
  <2>3. SumOver(Owings, Current \ {c}) \in Nat
    BY <1>t, <2>1, FS_RemoveElement, SumNat
  <2>4. QED
    BY <1>2, <1>3, <1>t, <2>2, <2>3 DEF Owings
<1>6. tcrBalance = deposits + owings + pools
  BY <1>2, SolventReserves DEF Reserves
<1>7. tcrBalance >= deposit + owed
  BY <1>2, <1>3, <1>4, <1>5, <1>6
<1>8. QED
  BY <1>1, <1>3, <1>7

(* A winner gets no more than both stakes. *)
LEMMA RewardBound ==
    ASSUME NEW ch \in Challenge, ch.rewardPool <= ch.stake, NEW n \in Nat
    PROVE  Reward(ch, n) \in Nat /\ Reward(ch, n) <= 2 * ch.stake
  BY DEF Challenge, Reward

(* So a settlement that gives out at most what the dispute owes is affordable. *)
LEMMA WithinMeans ==
    ASSUME Typed, Solvent, NEW l \in Listings, ChallengeOf(l) # 0, Ended(ChallengeOf(l)),
           NEW ch \in Challenge, ch.rewardPool <= ch.stake, NEW extra \in Nat,
           NEW overturned \in BOOLEAN, 2 * ch.stake + extra <= OwedTo(ChallengeOf(l))
    PROVE  CanSettle(l, ch, overturned, extra)
<1> USE IdsArePolls
<1>1. PICK c \in Polls : c = ChallengeOf(l)
  BY Numbers
<1>2. PICK winning \in Nat : winning = IF overturned THEN LosingTokens(c) ELSE WinningTokens(c)
  BY Numbers, TalliesType
<1>3. PICK reward \in Nat, stake \in Nat :
          reward = Reward(ch, winning) /\ stake = ch.stake /\ reward <= 2 * stake
  BY RewardBound DEF Challenge
<1>4. PICK deposit \in Nat, owed \in Nat, balance \in Nat :
          /\ deposit = listings[l].unstakedDeposit /\ owed = OwedTo(c) /\ balance = tcrBalance
  BY Numbers, BookTypes DEF Owings
<1>5. balance >= deposit + owed /\ 2 * stake + extra <= owed
  BY <1>1, <1>3, <1>4, DisputeFunded
<1>6. balance >= deposit + reward + extra /\ balance >= extra
  BY <1>3, <1>4, <1>5
<1>7. QED
  BY <1>1, <1>2, <1>3, <1>4, <1>6 DEF CanSettle, Payout, RewardOf
====================================================================================
