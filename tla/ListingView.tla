--------------------------------- MODULE ListingView ---------------------------------
(***************************************************************************)
(* What the client library and the listing page of the dapp make of a      *)
(* listing's state: in which phase they believe it is, which actions the    *)
(* page offers, when its timer fires, which voters it offers a reward.      *)
(*                                                                         *)
(* The state is that of CivilTCR: the page shows what it has just read.  It *)
(* compares the dates with its own clock, which runs in milliseconds: within *)
(* the second `now' a date equal to now has already passed.                 *)
(*                                                                         *)
(* Definitions marked "faulty" are what a plausible slip in the code would *)
(* make of the definition they precede; nothing uses them.                 *)
(***************************************************************************)
EXTENDS CivilTCR

Before(date) == date > now
After(date)  == date <= now

(* pollHelper: isInCommitStage, isInRevealStage, isVotePassed.  The client   *)
(* calls a vote passed when it went for the challenger, the contract when it *)
(* went against.                                                             *)
InCommitStage(p) == Before(poll[p].commitEnd)
InRevealStage(p) == ~InCommitStage(p) /\ Before(poll[p].revealEnd)
Voting(p)        == InCommitStage(p) \/ InRevealStage(p)
IsVotePassed(p)  == ~Voting(p) /\ ~Passed(p)

------------------------------------------------------------------------------------
(* appealHelper and appealChallengeHelper, of the appeal of challenge c.  An  *)
(* appeal challenge exists exactly when its id is not 0.                      *)

HasAppeal(c)          == appeals[c].requester # Nobody
AppealChallengeOf(c)  == appeals[c].appealChallengeID
HasAppealChallenge(c) == AppealChallengeOf(c) # 0

IsAppealAwaitingJudgment(c) ==
    ~appeals[c].appealGranted /\ Before(appeals[c].appealPhaseExpiry)

IsAwaitingAppealChallenge(c) ==
    /\ appeals[c].appealGranted
    /\ ~HasAppealChallenge(c)
    /\ Before(appeals[c].appealOpenToChallengeExpiry)

CanAppealChallengeBeResolved(c) ==
    /\ HasAppealChallenge(c)
    /\ ~Voting(AppealChallengeOf(c))
    /\ ~challenges[AppealChallengeOf(c)].resolved

CanAppealBeResolved(c) ==
    /\ HasAppeal(c)
    /\ IF HasAppealChallenge(c) THEN CanAppealChallengeBeResolved(c)
       ELSE IF appeals[c].appealGranted THEN After(appeals[c].appealOpenToChallengeExpiry)
       ELSE After(appeals[c].appealPhaseExpiry)

------------------------------------------------------------------------------------
(* challengeHelper. *)

CanRequestAppealTwice(c) == ~Voting(c) /\ Before(requestAppealExpiry[c])     \* faulty

CanRequestAppeal(c) ==
    ~Voting(c) /\ ~HasAppeal(c) /\ Before(requestAppealExpiry[c])

CanResolveChallenge(c) ==
    ~challenges[c].resolved /\ ~Voting(c) /\ ~CanRequestAppeal(c) /\ ~HasAppeal(c)

DidChallengeSucceed(c) ==
    IF appeals[c].appealGranted /\ ~(HasAppealChallenge(c) /\ IsVotePassed(AppealChallengeOf(c)))
    THEN ~IsVotePassed(c)
    ELSE IsVotePassed(c)

(* CivilTCR.getUserChallengeData and getUserAppealChallengeData: the voters a  *)
(* reward is offered to, which the dashboard's selectors list.                 *)
IsVoterWinner(v, c) ==
    IF appeals[c].appealGranted
    THEN (v \in Winners(c)) =
         (/\ HasAppealChallenge(c)
          /\ challenges[AppealChallengeOf(c)].resolved
          /\ Passed(AppealChallengeOf(c)))
    ELSE v \in Winners(c)

CanUserCollect(v, c) ==
    /\ challenges[c].resolved
    /\ v \in Revealed(c)
    /\ IsVoterWinner(v, c)
    /\ v \notin challenges[c].tokenClaims

------------------------------------------------------------------------------------
(* listingHelper.  The challenge of a listing is read whenever its id is not 0. *)

HasChallenge(l) == ChallengeOf(l) # 0
Unresolved(l)   == HasChallenge(l) /\ ~challenges[ChallengeOf(l)].resolved

IsInApplicationPhase(l) ==
    Before(listings[l].applicationExpiry) /\ ~HasChallenge(l) /\ ~listings[l].whitelisted

CanClientWhitelist(l) ==
    /\ listings[l].applicationExpiry # 0
    /\ ~listings[l].whitelisted
    /\ After(listings[l].applicationExpiry)
    /\ ~HasChallenge(l)

IsAwaitingAppealRequest(l) ==
    HasChallenge(l) /\ CanRequestAppeal(ChallengeOf(l))

(* getNextTimerExpiry: the date at which the dapp reads the listing again. *)
NextTimerAfterVote(l) ==                                                   \* faulty
    LET c == ChallengeOf(l)
    IN  IF IsInApplicationPhase(l) THEN listings[l].applicationExpiry
        ELSE IF ~HasChallenge(l) THEN 0
        ELSE IF InCommitStage(c) THEN poll[c].commitEnd
        ELSE IF InRevealStage(c) THEN poll[c].revealEnd
        ELSE IF IsAppealAwaitingJudgment(c) THEN appeals[c].appealPhaseExpiry
        ELSE IF IsAwaitingAppealChallenge(c) THEN appeals[c].appealOpenToChallengeExpiry
        ELSE 0

NextTimer(l) ==
    LET c == ChallengeOf(l)
    IN  IF IsInApplicationPhase(l) THEN listings[l].applicationExpiry
        ELSE IF ~HasChallenge(l) THEN 0
        ELSE IF InCommitStage(c) THEN poll[c].commitEnd
        ELSE IF InRevealStage(c) THEN poll[c].revealEnd
        ELSE IF IsAwaitingAppealRequest(l) THEN requestAppealExpiry[c]
        ELSE IF IsAppealAwaitingJudgment(c) THEN appeals[c].appealPhaseExpiry
        ELSE IF IsAwaitingAppealChallenge(c) THEN appeals[c].appealOpenToChallengeExpiry
        ELSE IF ~HasAppealChallenge(c) THEN 0
        ELSE IF InCommitStage(AppealChallengeOf(c)) THEN poll[AppealChallengeOf(c)].commitEnd
        ELSE IF InRevealStage(AppealChallengeOf(c)) THEN poll[AppealChallengeOf(c)].revealEnd
        ELSE 0

------------------------------------------------------------------------------------
(* The page: ListingPhaseActions and the cards below it. *)

ShowsWhitelisted(l) == listings[l].whitelisted /\ ~Unresolved(l)
ShowsResolve(l)     == HasChallenge(l) /\ CanResolveChallenge(ChallengeOf(l))
ShowsDetail(l)      == Unresolved(l) /\ ~ShowsResolve(l)
ShowsRejected(l) ==
    /\ ~listings[l].whitelisted
    /\ ~IsInApplicationPhase(l)
    /\ ~CanClientWhitelist(l)
    /\ ~HasChallenge(l)

(* ChallengeDetail shows AppealDetail, and that AppealChallengeDetail. *)
ShowsAppeal(l) == ShowsDetail(l) /\ HasAppeal(ChallengeOf(l))
ShowsAppealChallenge(l) ==
    /\ ShowsAppeal(l)
    /\ HasAppealChallenge(ChallengeOf(l))
    /\ ~challenges[AppealChallengeOf(ChallengeOf(l))].resolved

(* The actions the page offers; the council's only to its members. *)
Offered(l) ==
    LET c  == ChallengeOf(l)
        ac == AppealChallengeOf(c)
    IN  [challenge       |-> ShowsWhitelisted(l) \/ IsInApplicationPhase(l),
         whitelist       |-> CanClientWhitelist(l),
         resolve         |-> ShowsResolve(l),
         commit          |-> ShowsDetail(l) /\ InCommitStage(c),
         reveal          |-> ShowsDetail(l) /\ InRevealStage(c),
         requestAppeal   |-> ShowsDetail(l) /\ CanRequestAppeal(c),
         grant           |-> /\ ShowsAppeal(l) /\ ~HasAppealChallenge(c)
                             /\ ~CanAppealBeResolved(c) /\ ~IsAwaitingAppealChallenge(c)
                             /\ IsAppealAwaitingJudgment(c),
         challengeAppeal |-> ShowsAppeal(l) /\ IsAwaitingAppealChallenge(c),
         resolveAppeal   |-> /\ ShowsAppeal(l) /\ ~HasAppealChallenge(c)
                             /\ CanAppealBeResolved(c),
         acCommit        |-> ShowsAppealChallenge(l) /\ InCommitStage(ac),
         acReveal        |-> ShowsAppealChallenge(l) /\ InRevealStage(ac),
         acResolve       |-> ShowsAppealChallenge(l) /\ ~Voting(ac)]

------------------------------------------------------------------------------------
(* Properties. *)

(* What the contracts require of the state for each action (AddressRegistry,  *)
(* CivilTCR and PLCRVoting as in CivilTCR), the caller's tokens aside.        *)
Accepted(l) ==
    LET c  == ChallengeOf(l)
        ac == AppealChallengeOf(c)
    IN  [challenge       |-> (AppWasMade(l) \/ listings[l].whitelisted) /\ Unchallenged(l),
         whitelist       |-> CanBeWhitelisted(l),
         resolve         |-> ChallengeExists(l) /\ ChallengeCanBeResolved(l) /\ Ended(c),
         commit          |-> c # 0 /\ now <= poll[c].commitEnd,
         reveal          |-> Revealing(c),
         requestAppeal   |-> /\ c # 0 /\ Ended(c) /\ appeals[c].requester = Nobody
                             /\ now <= requestAppealExpiry[c],
         grant           |-> ~appeals[c].appealGranted /\ now <= appeals[c].appealPhaseExpiry,
         challengeAppeal |-> /\ appeals[c].appealGranted /\ ac = 0
                             /\ now <= appeals[c].appealOpenToChallengeExpiry,
         resolveAppeal   |-> /\ ChallengeExists(l) /\ ~ChallengeCanBeResolved(l)
                             /\ AppealCanBeResolved(l),
         acCommit        |-> ac # 0 /\ now <= poll[ac].commitEnd,
         acReveal        |-> Revealing(ac),
         acResolve       |-> /\ ChallengeExists(l) /\ ~ChallengeCanBeResolved(l)
                             /\ ~AppealCanBeResolved(l) /\ AppealChallengeCanBeResolved(l)]

(* The page is never blank and never contradicts itself: exactly one card. *)
OneCard ==
    \A l \in Listings :
        LET cards == <<ShowsWhitelisted(l), ShowsRejected(l), IsInApplicationPhase(l),
                       CanClientWhitelist(l), ShowsResolve(l), ShowsDetail(l)>>
        IN  \E i \in 1 .. 6 : \A j \in 1 .. 6 : cards[j] <=> i = j

(* Whatever updateStatus would decide in a block of this second, the page has *)
(* the button for it: a dispute that can end is not stuck for want of one.    *)
DueIsOffered ==
    \A l \in Listings : \A a \in {"whitelist", "resolve", "resolveAppeal", "acResolve"} :
        Accepted(l)[a] => Offered(l)[a]

(* A reward is offered to exactly the voters that may still claim one. *)
RewardsOffered ==
    \A v \in Voters, c \in Polls :
        CanUserCollect(v, c) <=>
            challenges[c].resolved /\ v \in Entitled(c) \ challenges[c].tokenClaims

(* What the page offers in one second, the contracts accept in a block of the *)
(* next, unless the time for it ends with that second.                        *)
OfferedIsAccepted ==
    [][Tick => \A l \in Listings : \A a \in DOMAIN Offered(l) :
                   Offered(l)[a] => Accepted(l)[a]']_vars

(* The client's reading of the phases agrees with the contracts' at every time *)
(* and through every order of votes, appeals, resolutions and claims, although *)
(* it is computed by other code with other comparisons.                        *)
OffersFollowRules == [](OneCard /\ DueIsOffered /\ RewardsOffered) /\ OfferedIsAccepted

(* Time alone never changes what a page offers without the timer that was set *)
(* for it going off in that moment: no open page keeps showing a phase that is *)
(* over because the client thought nothing was to come.                        *)
TimerCoversChange ==
    [][Tick => \A l \in Listings : Offered(l)' # Offered(l) => NextTimer(l) = now']_vars

(* challengeHelper.ts:40 has didChallengeSucceed tell whether a challenge      *)
(* succeeded: of a resolved challenge, whether the listing lost its place.     *)
ResultIsVerdict ==
    \A c \in Resolved : requestAppealExpiry[c] # 0 =>
        (DidChallengeSucceed(c) <=> ~Kept(c, Overturned(c)))
====================================================================================
