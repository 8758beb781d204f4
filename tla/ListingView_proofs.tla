----------------------------- MODULE ListingView_proofs -----------------------------
(***************************************************************************)
(* Theorems about ListingView: the phases the client reads agree with the   *)
(* contracts', for every set of listings, users, voters and polls, and all  *)
(* settings.                                                                *)
(***************************************************************************)
EXTENDS ListingView, CivilTCR_proofs

(* What the pages rely on beyond the registry's own invariants: a vote is      *)
(* revealed after it was committed, an appeal comes after the vote, no two     *)
(* appeals share a challenge, the challenge of an appeal is open as long as    *)
(* the appealed one is, and of a resolved one its vote decided who overturned. *)
PollDates        == \A p \in Polls : Exists(p) => poll[p].commitEnd <= poll[p].revealEnd
AppealsAfterVote == \A c \in Polls : HasAppeal(c) => Ended(c)
VetoesApart      ==
    \A c, d \in Ids : HasAppealChallenge(c) /\ c # d => AppealChallengeOf(c) # AppealChallengeOf(d)
VetoesOpen       ==
    \A l \in Listings : HasChallenge(l) /\ HasAppealChallenge(ChallengeOf(l)) =>
        ~challenges[AppealChallengeOf(ChallengeOf(l))].resolved
VerdictKept(c)   ==
    /\ HasAppealChallenge(c) => challenges[AppealChallengeOf(c)].resolved
    /\ appeals[c].overturned <=> HasAppealChallenge(c) /\ Passed(AppealChallengeOf(c))
VerdictsKept     == \A c \in Polls : challenges[c].resolved => VerdictKept(c)

PageFacts == PollDates /\ AppealsAfterVote /\ VetoesApart /\ VetoesOpen /\ VerdictsKept
Readable  == Typed /\ Structure /\ Records /\ PageFacts

LEMMA PageFactsInit == Init => PageFacts
<1> SUFFICES ASSUME Init PROVE PageFacts
  OBVIOUS
<1> USE IdsArePolls
<1>1. /\ pollNonce = 0
      /\ \A l \in Listings : ChallengeOf(l) = 0
      /\ \A c \in Ids : challenges[c] = NewChallenge(Nobody, 0, 0) /\ appeals[c] = NoAppeal
  BY DEF Init, TallyInit, ChallengeOf, NoListing
<1>2. \A c \in Ids : ~challenges[c].resolved /\ ~HasAppeal(c) /\ ~HasAppealChallenge(c)
  BY <1>1 DEF NewChallenge, NoAppeal, HasAppeal, HasAppealChallenge, AppealChallengeOf
<1>3. \A p \in Polls : ~Exists(p)
  BY <1>1 DEF Exists
<1>4. QED
  BY <1>1, <1>2, <1>3 DEF PageFacts, PollDates, AppealsAfterVote, VetoesApart, VetoesOpen,
     VerdictsKept, HasChallenge

------------------------------------------------------------------------------------
(* Polls. *)

LEMMA PollSteps ==
    ASSUME [Next]_vars
    PROVE  \/ UNCHANGED <<pollNonce, poll>>
           \/ \E quorum, commitEnd, revealEnd : StartPoll(quorum, commitEnd, revealEnd)
<1> DEFINE Goal == \/ UNCHANGED <<pollNonce, poll>>
                   \/ \E quorum, commitEnd, revealEnd : StartPoll(quorum, commitEnd, revealEnd)
<1>1. UNCHANGED tallyVars => Goal
  BY DEF tallyVars
<1>2. Tick => Goal
  BY DEF Tick, Pass
<1>3. ASSUME NEW v, NEW p, NEW option, Vote(v, p, option) PROVE Goal
  BY <1>3 DEF Vote, Reveal
<1>4. ASSUME NEW u, NEW l, StartChallenge(u, l) \/ ChallengeGrantedAppeal(u, l) PROVE Goal
  BY <1>4 DEF StartChallenge, ChallengeGrantedAppeal
<1>5. ASSUME NEW l, UpdateStatus(l) PROVE UNCHANGED tallyVars
  BY <1>5 DEF UpdateStatus, WhitelistApplication, ResolveChallenge, ResolveAppeal,
     ResolveAppealChallenge, Settle
<1>6. ASSUME NEW u, NEW l, ChallengeListing(u, l) PROVE UNCHANGED tallyVars \/ StartChallenge(u, l)
  BY <1>6 DEF ChallengeListing, TouchAndRemove
<1>7. ASSUME NEW u, NEW l, NEW n, Apply(u, l, n) \/ Deposit(u, l, n) \/ Withdraw(u, l, n)
      PROVE  UNCHANGED tallyVars
  BY <1>7 DEF Apply, Deposit, Withdraw
<1>8. ASSUME NEW u, NEW l, Exit(u, l) \/ RequestAppeal(u, l) \/ GrantAppeal(l)
      PROVE  UNCHANGED tallyVars
  BY <1>8 DEF Exit, RequestAppeal, GrantAppeal
<1>9. ASSUME NEW v, NEW p, ClaimReward(v, p) PROVE UNCHANGED tallyVars
  BY <1>9 DEF ClaimReward
<1>10. ASSUME NEW x, Reparameterize(x) \/ TransferGovernment(x) PROVE UNCHANGED tallyVars
  BY <1>10 DEF Reparameterize, TransferGovernment
<1>11. UNCHANGED vars => UNCHANGED tallyVars
  BY DEF vars
<1> HIDE DEF Goal
<1>12. Goal
  BY <1>1, <1>2, <1>3, <1>4, <1>5, <1>6, <1>7, <1>8, <1>9, <1>10, <1>11, Zenon DEF Next
<1>13. QED
  BY <1>12 DEF Goal

LEMMA PollDatesKept ==
    ASSUME TypeOK, PollDates, [Next]_vars
    PROVE  PollDates'
<1>t. /\ poll \in [Polls -> [quorum : Nat, commitEnd : Nat, revealEnd : Nat]]
      /\ pollNonce \in Nat /\ Polls \subseteq Nat
  BY IdsArePolls DEF TypeOK
<1>1. CASE UNCHANGED <<pollNonce, poll>>
  BY <1>1 DEF PollDates, Exists
<1>2. ASSUME NEW quorum, NEW commitEnd, NEW revealEnd, StartPoll(quorum, commitEnd, revealEnd)
      PROVE  PollDates'
  <2>1. /\ pollNonce' = pollNonce + 1 /\ commitEnd <= revealEnd /\ pollNonce + 1 \in Polls
        /\ poll' = [poll EXCEPT ![pollNonce + 1] =
               [quorum |-> quorum, commitEnd |-> commitEnd, revealEnd |-> revealEnd]]
    BY <1>2 DEF StartPoll
  <2>2. ASSUME NEW p \in Polls, p \in 1 .. pollNonce'
        PROVE  poll'[p].commitEnd <= poll'[p].revealEnd
    <3>1. CASE p = pollNonce + 1
      BY <1>t, <2>1, <3>1
    <3>2. CASE p # pollNonce + 1
      <4>1. p \in 1 .. pollNonce
        BY <1>t, <2>1, <2>2, <3>2
      <4>2. poll'[p] = poll[p]
        BY <1>t, <2>1, <3>2
      <4>3. QED
        BY <4>1, <4>2 DEF PollDates, Exists
    <3>3. QED
      BY <3>1, <3>2
  <2>3. QED
    BY <2>2 DEF PollDates, Exists
<1>3. QED
  BY <1>1, <1>2, PollSteps

LEMMA PassedStays ==
    ASSUME TypeOK, [Next]_vars, NEW p \in Polls, Ended(p)
    PROVE  Passed(p)' <=> Passed(p)
<1>1. poll'[p] = poll[p] /\ votes'[p] = votes[p]
  BY EndedStays
<1>2. Revealed(p)' = Revealed(p) /\ VotedFor(p)' = VotedFor(p) /\ TokensOn(p)' = TokensOn(p)
  BY <1>1 DEF Revealed, VotedFor, TokensOn
<1>3. QED
  BY <1>1, <1>2 DEF Passed, VotesFor, VotesAgainst, TokensOf

------------------------------------------------------------------------------------
(* Disputes.  The facts about them in the terms of the page. *)

LEMMA DisputeTypes ==
    ASSUME Typed, Structure
    PROVE  /\ TypeOK /\ pollNonce \in Nat /\ now \in Nat
           /\ \A l \in Listings : /\ ChallengeOf(l) \in Ids /\ ChallengeOf(l) <= pollNonce
                                  /\ listings[l].applicationExpiry \in Nat
                                  /\ listings[l].whitelisted \in BOOLEAN
                                  /\ (HasChallenge(l) => ~challenges[ChallengeOf(l)].resolved)
           /\ \A c \in Ids : /\ AppealChallengeOf(c) \in Ids /\ AppealChallengeOf(c) <= pollNonce
                             /\ (HasAppeal(c) <=> appeals[c].appealPhaseExpiry # 0)
                             /\ (appeals[c].appealGranted => HasAppeal(c))
                             /\ (HasAppealChallenge(c) => appeals[c].appealGranted)
                             /\ appeals[c].appealGranted \in BOOLEAN
                             /\ appeals[c].appealPhaseExpiry \in Nat
                             /\ appeals[c].appealOpenToChallengeExpiry \in Nat
                             /\ requestAppealExpiry[c] \in Nat
                             /\ (c = 0 \/ c > pollNonce => ~HasAppeal(c) /\ ~HasAppealChallenge(c))
           /\ \A c \in Ids, l \in Listings : HasAppealChallenge(c) => AppealChallengeOf(c) # ChallengeOf(l)
           /\ \A l, m \in Listings : l # m /\ HasChallenge(l) => ChallengeOf(l) # ChallengeOf(m)
           /\ \A p \in Polls : poll[p].commitEnd \in Nat /\ poll[p].revealEnd \in Nat
<1>1. TypeOK /\ pollNonce \in Nat /\ now \in Nat
  BY Numbers, DatesTypes
<1>2. ASSUME NEW l \in Listings
      PROVE  /\ ChallengeOf(l) \in Ids /\ ChallengeOf(l) <= pollNonce
             /\ listings[l].applicationExpiry \in Nat /\ listings[l].whitelisted \in BOOLEAN
             /\ (HasChallenge(l) => ~challenges[ChallengeOf(l)].resolved)
  <2>1. listings[l] \in Listing
    BY Numbers
  <2>2. QED
    BY <1>1, <2>1, ListingTypes DEF Listing, Structure, FreshIdsBlank, DisputesApart, HasChallenge
<1>3. ASSUME NEW c \in Ids
      PROVE  /\ AppealChallengeOf(c) \in Ids /\ AppealChallengeOf(c) <= pollNonce
             /\ (HasAppeal(c) <=> appeals[c].appealPhaseExpiry # 0)
             /\ (appeals[c].appealGranted => HasAppeal(c))
             /\ (HasAppealChallenge(c) => appeals[c].appealGranted)
  BY <1>1, ListingTypes DEF Structure, FreshIdsBlank, AppealsInOrder, HasAppeal,
     HasAppealChallenge, AppealChallengeOf
<1>4. ASSUME NEW c \in Ids
      PROVE  /\ appeals[c].appealGranted \in BOOLEAN /\ appeals[c].appealPhaseExpiry \in Nat
             /\ appeals[c].appealOpenToChallengeExpiry \in Nat
             /\ requestAppealExpiry[c] \in Nat
  BY <1>1, Numbers, DatesTypes
<1>5. ASSUME NEW c \in Ids, c = 0 \/ c > pollNonce
      PROVE  ~HasAppeal(c) /\ ~HasAppealChallenge(c)
  BY <1>5 DEF Structure, FreshIdsBlank, NoAppeal, HasAppeal, HasAppealChallenge, AppealChallengeOf
<1>6. /\ \A c \in Ids, l \in Listings : HasAppealChallenge(c) => AppealChallengeOf(c) # ChallengeOf(l)
      /\ \A l, m \in Listings : l # m /\ HasChallenge(l) => ChallengeOf(l) # ChallengeOf(m)
  BY DEF Structure, DisputesApart, HasAppealChallenge, AppealChallengeOf, HasChallenge
<1>7. \A p \in Polls : poll[p].commitEnd \in Nat /\ poll[p].revealEnd \in Nat
  BY <1>1 DEF TypeOK
<1>8. QED
  BY <1>1, <1>2, <1>3, <1>4, <1>5, <1>6, <1>7

(* What a step does to the appeals, and to the challenges of appeals. *)
SameLinks ==
    /\ \A c \in Ids : AppealChallengeOf(c)' = AppealChallengeOf(c)
    /\ \A l \in Listings : ChallengeOf(l)' = ChallengeOf(l)
    /\ \A c \in Ids : challenges'[c].resolved = challenges[c].resolved
NewLink(c, id) ==
    /\ c \in Polls /\ id \in Polls /\ id > pollNonce
    /\ AppealChallengeOf(c)' = id
    /\ \A d \in Ids \ {c} : AppealChallengeOf(d)' = AppealChallengeOf(d)
    /\ \A l \in Listings : ChallengeOf(l)' = ChallengeOf(l)
    /\ ~challenges'[id].resolved
    /\ \A d \in Ids \ {id} : challenges'[d].resolved = challenges[d].resolved
NewDispute(l, id) ==
    /\ id \in Polls /\ id > pollNonce
    /\ ChallengeOf(l)' = id
    /\ \A m \in Listings \ {l} : ChallengeOf(m)' = ChallengeOf(m)
    /\ \A c \in Ids : AppealChallengeOf(c)' = AppealChallengeOf(c)
    /\ \A d \in Ids \ {id} : challenges'[d].resolved = challenges[d].resolved
Verdict(l) ==
    /\ ChallengeOf(l)' = 0 /\ ChallengeOf(l) \in Polls
    /\ \A m \in Listings \ {l} : ChallengeOf(m)' = ChallengeOf(m)
    /\ \A c \in Ids : AppealChallengeOf(c)' = AppealChallengeOf(c)
    /\ \A d \in Ids : d # ChallengeOf(l) /\ d # AppealChallengeOf(ChallengeOf(l)) =>
          (challenges'[d].resolved <=> challenges[d].resolved)

LEMMA LinkSteps ==
    ASSUME Typed, Structure, Records, [Next]_vars
    PROVE  \/ SameLinks
           \/ \E c \in Polls, id \in Polls : NewLink(c, id)
           \/ \E l \in Listings, id \in Polls : NewDispute(l, id)
           \/ \E l \in Listings : Verdict(l)
<1> USE IdsArePolls
<1>t. TypeOK
  BY Numbers
<1>1. CASE SameDisputes
  BY <1>1 DEF SameDisputes, SameLinks, AppealChallengeOf
<1>2. ASSUME NEW u \in Users, NEW l \in Listings, Present(l), Unchallenged(l), StartChallenge(u, l)
      PROVE  \E id \in Polls : NewDispute(l, id)
  <2>1. PICK id \in Polls, stake \in Nat, pool \in Nat :
              /\ id = pollNonce + 1 /\ pollNonce' = id /\ id > pollNonce
              /\ UNCHANGED <<now, votes, appeals>>
              /\ challenges' = [challenges EXCEPT ![id] = NewChallenge(u, stake, pool)]
              /\ ChallengeOf(l) = 0 /\ ChallengeOf(l)' = id /\ Present(l)'
              /\ \A m \in Listings : m # l => listings'[m] = listings[m]
              /\ listings'[l].unstakedDeposit = listings[l].unstakedDeposit - stake
              /\ tcrBalance' = tcrBalance + stake
    BY <1>2, StartChallengeEffect
  <2>2. \A d \in Ids \ {id} : challenges'[d] = challenges[d]
    BY <1>t, <2>1, ListingTypes
  <2>3. NewDispute(l, id)
    BY <2>1, <2>2 DEF NewDispute, ChallengeOf, AppealChallengeOf
  <2>4. QED
    BY <2>3
<1>3. ASSUME NEW u \in Users, NEW l \in Listings, RequestAppeal(u, l) PROVE SameLinks
  <2>1. PICK c \in Polls, fee \in Nat :
              /\ c = ChallengeOf(l) /\ fee = government.appealFee
              /\ UNCHANGED <<tallyVars, listings, challenges>>
              /\ (\A d \in Ids : d # c => appeals'[d] = appeals[d])
              /\ appeals'[c].requester = u /\ appeals'[c].appealFeePaid = fee
              /\ appeals'[c].appealGranted = appeals[c].appealGranted
              /\ appeals'[c].appealChallengeID = appeals[c].appealChallengeID
              /\ appeals'[c].overturned = appeals[c].overturned
              /\ appeals[c].appealFeePaid = 0 /\ appeals[c].appealChallengeID = 0
              /\ tcrBalance' = tcrBalance + fee
    BY <1>3, RequestEffect
  <2>2. QED
    BY <2>1 DEF SameLinks, ChallengeOf, AppealChallengeOf
<1>4. ASSUME NEW l \in Listings, GrantAppeal(l) PROVE SameLinks
  <2>1. PICK c \in Polls :
              /\ c = ChallengeOf(l)
              /\ UNCHANGED <<tallyVars, listings, challenges, tcrBalance>>
              /\ \A d \in Ids : /\ d # c => appeals'[d] = appeals[d]
                                /\ appeals'[d].requester = appeals[d].requester
                                /\ appeals'[d].appealFeePaid = appeals[d].appealFeePaid
                                /\ appeals'[d].appealChallengeID = appeals[d].appealChallengeID
                                /\ appeals'[d].overturned = appeals[d].overturned
    BY <1>4, GrantEffect
  <2>2. QED
    BY <2>1 DEF SameLinks, ChallengeOf, AppealChallengeOf
<1>5. ASSUME NEW u \in Users, NEW l \in Listings, ChallengeGrantedAppeal(u, l)
      PROVE  \E c \in Polls, id \in Polls : NewLink(c, id)
  <2>1. PICK c \in Polls, id \in Polls, fee \in Nat, pool \in Nat :
              /\ c = ChallengeOf(l) /\ id = pollNonce + 1 /\ pollNonce' = id /\ id > pollNonce
              /\ UNCHANGED <<now, votes, listings>>
              /\ challenges' = [challenges EXCEPT ![id] = NewChallenge(u, fee, pool)]
              /\ fee = appeals[c].appealFeePaid /\ appeals[c].appealGranted
              /\ appeals[c].appealChallengeID = 0
              /\ appeals'[c].appealChallengeID = id
              /\ \A d \in Ids : /\ d # c => appeals'[d] = appeals[d]
                                /\ appeals'[d].requester = appeals[d].requester
                                /\ appeals'[d].appealFeePaid = appeals[d].appealFeePaid
                                /\ appeals'[d].appealGranted = appeals[d].appealGranted
                                /\ appeals'[d].overturned = appeals[d].overturned
              /\ tcrBalance' = tcrBalance + fee
    BY <1>5, VetoEffect
  <2>2. challenges'[id] = NewChallenge(u, fee, pool) /\ \A d \in Ids \ {id} : challenges'[d] = challenges[d]
    BY <1>t, <2>1, ListingTypes
  <2>3. NewLink(c, id)
    BY <2>1, <2>2 DEF NewLink, NewChallenge, ChallengeOf, AppealChallengeOf
  <2>4. QED
    BY <2>3
<1>6. ASSUME NEW l \in Listings, UpdateStatus(l), ~CanBeWhitelisted(l) PROVE Verdict(l)
  <2>1. ChallengeOf(l) \in Polls /\ \E done : Concludes(l, done)
    BY <1>t, <1>6, VerdictConcludes
  <2>2. QED
    BY <2>1 DEF Concludes, Verdict, ChallengeOf, AppealOf, AppealChallengeOf
<1>7. QED
  BY <1>t, <1>1, <1>2, <1>3, <1>4, <1>5, <1>6, StepKinds

LEMMA VetoesApartKept ==
    ASSUME Typed, Structure, Records, VetoesApart, [Next]_vars
    PROVE  VetoesApart'
<1>t. /\ \A c \in Ids : AppealChallengeOf(c) \in Nat /\ AppealChallengeOf(c) <= pollNonce
      /\ pollNonce \in Nat /\ Polls \subseteq Nat
  BY DisputeTypes, IdsArePolls
<1>1. ASSUME \A c \in Ids : AppealChallengeOf(c)' = AppealChallengeOf(c)
      PROVE  VetoesApart'
  BY <1>1 DEF VetoesApart, HasAppealChallenge
<1>2. ASSUME NEW c \in Polls, NEW id \in Polls, NewLink(c, id) PROVE VetoesApart'
  <2>1. \A d \in Ids : AppealChallengeOf(d) # id
    BY <1>t, <1>2 DEF NewLink
  <2>2. \A d \in Ids : AppealChallengeOf(d)' = IF d = c THEN id ELSE AppealChallengeOf(d)
    BY <1>2 DEF NewLink
  <2>3. QED
    BY <2>1, <2>2 DEF VetoesApart, HasAppealChallenge
<1>3. QED
  BY <1>1, <1>2, LinkSteps DEF SameLinks, NewDispute, Verdict

LEMMA VetoesOpenKept ==
    ASSUME Typed, Structure, Records, VetoesApart, VetoesOpen, [Next]_vars
    PROVE  VetoesOpen'
<1> USE IdsArePolls
<1>t. /\ \A l \in Listings : ChallengeOf(l) \in Ids
      /\ \A c \in Ids : /\ AppealChallengeOf(c) \in Ids /\ AppealChallengeOf(c) <= pollNonce
                        /\ (c > pollNonce => ~HasAppealChallenge(c))
      /\ \A c \in Ids, l \in Listings : HasAppealChallenge(c) => AppealChallengeOf(c) # ChallengeOf(l)
      /\ \A l, m \in Listings : l # m /\ HasChallenge(l) => ChallengeOf(l) # ChallengeOf(m)
      /\ pollNonce \in Nat
  BY DisputeTypes
<1>o. \A l \in Listings : ChallengeOf(l) # 0 /\ AppealChallengeOf(ChallengeOf(l)) # 0 =>
          ~challenges[AppealChallengeOf(ChallengeOf(l))].resolved
  BY DEF VetoesOpen, HasChallenge, HasAppealChallenge
<1> DEFINE Open(l) == ChallengeOf(l)' # 0 /\ AppealChallengeOf(ChallengeOf(l))' # 0 =>
                          ~challenges'[AppealChallengeOf(ChallengeOf(l))'].resolved
<1>s. ASSUME \A l \in Listings : Open(l) PROVE VetoesOpen'
  BY <1>s DEF VetoesOpen, HasChallenge, HasAppealChallenge
<1>k. ASSUME NEW l \in Listings, NEW c \in Ids, c = ChallengeOf(l), ChallengeOf(l)' = c,
             AppealChallengeOf(c)' = AppealChallengeOf(c),
             c # 0 /\ AppealChallengeOf(c) # 0 =>
                (challenges'[AppealChallengeOf(c)].resolved
                    <=> challenges[AppealChallengeOf(c)].resolved)
      PROVE  Open(l)
  <2>1. AppealChallengeOf(ChallengeOf(l))' = AppealChallengeOf(c)
    BY <1>k DEF AppealChallengeOf
  <2>2. QED
    BY <1>k, <1>o, <2>1
<1>1. CASE SameLinks
  <2>1. \A l \in Listings : Open(l)
    BY <1>t, <1>k, <1>1 DEF SameLinks
  <2>2. QED
    BY <1>s, <2>1
<1>2. ASSUME NEW c \in Polls, NEW id \in Polls, NewLink(c, id) PROVE VetoesOpen'
  <2>1. SUFFICES ASSUME NEW l \in Listings PROVE Open(l)
    BY <1>s
  <2>2. PICK d \in Ids : d = ChallengeOf(l)
    BY <1>t
  <2>3. ChallengeOf(l)' = d
    BY <1>2, <2>2 DEF NewLink
  <2>4. CASE d = c
    <3>1. AppealChallengeOf(ChallengeOf(l))' = id
      BY <1>2, <2>3, <2>4 DEF NewLink, AppealChallengeOf
    <3>2. QED
      BY <1>2, <3>1 DEF NewLink
  <2>5. CASE d # c
    <3>1. /\ AppealChallengeOf(d)' = AppealChallengeOf(d)
          /\ AppealChallengeOf(d) \in Ids \ {id}
      BY <1>t, <1>2, <2>5 DEF NewLink
    <3>2. challenges'[AppealChallengeOf(d)].resolved = challenges[AppealChallengeOf(d)].resolved
      BY <1>2, <3>1 DEF NewLink
    <3>3. QED
      BY <1>k, <2>2, <2>3, <3>1, <3>2
  <2>6. QED
    BY <2>4, <2>5
<1>3. ASSUME NEW l \in Listings, NEW id \in Polls, NewDispute(l, id) PROVE VetoesOpen'
  <2>1. SUFFICES ASSUME NEW m \in Listings PROVE Open(m)
    BY <1>s
  <2>2. CASE m = l
    <3>1. AppealChallengeOf(id) = 0
      BY <1>t, <1>3 DEF NewDispute, HasAppealChallenge
    <3>2. AppealChallengeOf(ChallengeOf(l))' = AppealChallengeOf(id)
      BY <1>3 DEF NewDispute, AppealChallengeOf
    <3>3. QED
      BY <2>2, <3>1, <3>2
  <2>3. CASE m # l
    <3>1. PICK d \in Ids : d = ChallengeOf(m)
      BY <1>t
    <3>2. /\ ChallengeOf(m)' = d /\ AppealChallengeOf(d)' = AppealChallengeOf(d)
          /\ AppealChallengeOf(d) \in Ids \ {id}
      BY <1>t, <1>3, <2>3, <3>1 DEF NewDispute
    <3>3. challenges'[AppealChallengeOf(d)].resolved = challenges[AppealChallengeOf(d)].resolved
      BY <1>3, <3>2 DEF NewDispute
    <3>4. QED
      BY <1>k, <3>1, <3>2, <3>3
  <2>4. QED
    BY <2>2, <2>3
<1>4. ASSUME NEW l \in Listings, Verdict(l) PROVE VetoesOpen'
  <2>1. SUFFICES ASSUME NEW m \in Listings PROVE Open(m)
    BY <1>s
  <2>2. CASE m = l
    BY <1>4, <2>2 DEF Verdict
  <2>3. CASE m # l
    <3>1. PICK d \in Ids : d = ChallengeOf(m)
      BY <1>t
    <3>2. /\ ChallengeOf(m)' = d /\ AppealChallengeOf(d)' = AppealChallengeOf(d)
          /\ AppealChallengeOf(d) \in Ids
      BY <1>t, <1>4, <2>3, <3>1 DEF Verdict
    <3>3. d # 0 /\ AppealChallengeOf(d) # 0 =>
             /\ AppealChallengeOf(d) # ChallengeOf(l)
             /\ AppealChallengeOf(d) # AppealChallengeOf(ChallengeOf(l))
      <4>1. ASSUME d # 0, AppealChallengeOf(d) # 0 PROVE AppealChallengeOf(d) # ChallengeOf(l)
        BY <1>t, <4>1 DEF HasAppealChallenge
      <4>2. ASSUME d # 0, AppealChallengeOf(d) # 0
            PROVE  AppealChallengeOf(d) # AppealChallengeOf(ChallengeOf(l))
        <5>1. d # ChallengeOf(l) /\ ChallengeOf(l) \in Ids
          BY <1>t, <2>3, <3>1, <4>2 DEF HasChallenge
        <5>2. QED
          BY <4>2, <5>1 DEF VetoesApart, HasAppealChallenge
      <4>3. QED
        BY <4>1, <4>2
    <3>4. d # 0 /\ AppealChallengeOf(d) # 0 =>
             (challenges'[AppealChallengeOf(d)].resolved
                <=> challenges[AppealChallengeOf(d)].resolved)
      BY <1>4, <3>2, <3>3 DEF Verdict
    <3>5. QED
      BY <1>k, <3>1, <3>2, <3>4
  <2>4. QED
    BY <2>2, <2>3
<1>5. QED
  BY <1>1, <1>2, <1>3, <1>4, LinkSteps

LEMMA AppealsAfterVoteKept ==
    ASSUME Typed, Structure, Records, AppealsAfterVote, [Next]_vars
    PROVE  AppealsAfterVote'
<1> USE IdsArePolls
<1>t. TypeOK
  BY Numbers
<1>1. SUFFICES ASSUME NEW c \in Polls, HasAppeal(c)' PROVE Ended(c)'
  BY DEF AppealsAfterVote
<1>2. SUFFICES ASSUME ~HasAppeal(c) PROVE Ended(c)
  BY <1>t, EndedStays DEF AppealsAfterVote
<1>3. appeals'[c].requester # appeals[c].requester
  BY <1>1, <1>2 DEF HasAppeal
<1>4. ~SameDisputes
  BY <1>3 DEF SameDisputes
<1>5. ASSUME NEW u \in Users, NEW l \in Listings, StartChallenge(u, l) PROVE FALSE
  BY <1>3, <1>5 DEF StartChallenge
<1>6. ASSUME NEW u \in Users, NEW l \in Listings, RequestAppeal(u, l) PROVE Ended(c)
  <2>1. \A d \in Ids : d # ChallengeOf(l) => appeals'[d] = appeals[d]
    BY <1>t, <1>6, RequestEffect
  <2>2. c = ChallengeOf(l)
    BY <1>3, <2>1
  <2>3. QED
    BY <1>6, <2>2 DEF RequestAppeal
<1>7. ASSUME NEW l \in Listings, GrantAppeal(l) PROVE FALSE
  <2>1. \A d \in Ids : appeals'[d].requester = appeals[d].requester
    BY <1>7, GrantEffect
  <2>2. QED
    BY <1>3, <2>1
<1>8. ASSUME NEW u \in Users, NEW l \in Listings, ChallengeGrantedAppeal(u, l) PROVE FALSE
  <2>1. \A d \in Ids : appeals'[d].requester = appeals[d].requester
    BY <1>8, VetoEffect
  <2>2. QED
    BY <1>3, <2>1
<1>9. ASSUME NEW l \in Listings, UpdateStatus(l), ~CanBeWhitelisted(l) PROVE FALSE
  <2>1. \E done : Concludes(l, done)
    BY <1>t, <1>9, VerdictConcludes
  <2>2. QED
    BY <1>3, <2>1 DEF Concludes
<1>10. QED
  BY <1>t, <1>4, <1>5, <1>6, <1>7, <1>8, <1>9, StepKinds

------------------------------------------------------------------------------------
(* Verdicts. *)

(* Where an appeal was challenged, it is the vote on that which overturns. *)
LEMMA VetoDecides ==
    ASSUME Typed, Structure, Records, NEW l \in Listings, UpdateStatus(l), ~CanBeWhitelisted(l),
           NEW c \in Polls, c = ChallengeOf(l)
    PROVE  /\ (HasAppealChallenge(c) =>
                  (appeals'[c].overturned <=> Passed(AppealChallengeOf(c))))
           /\ (~HasAppealChallenge(c) => appeals' = appeals)
<1> USE IdsArePolls
<1>t. /\ c \in Ids /\ appeals \in [Ids -> Appeal] /\ appeals[c] \in Appeal
      /\ AppealChallengeOf(c) = AppealOf(l).appealChallengeID
  BY Numbers DEF TypeOK, AppealOf, AppealChallengeOf
<1>1. /\ (appeals[c].requester = Nobody <=> appeals[c].appealPhaseExpiry = 0)
      /\ (appeals[c].appealGranted => appeals[c].requester # Nobody)
      /\ (appeals[c].appealChallengeID # 0 => appeals[c].appealGranted)
  BY <1>t DEF Structure, AppealsInOrder
<1>2. CASE ChallengeCanBeResolved(l) /\ ResolveChallenge(l)
  BY <1>1, <1>2 DEF ChallengeCanBeResolved, AppealOf, ResolveChallenge, HasAppealChallenge,
     AppealChallengeOf
<1>3. CASE AppealCanBeResolved(l) /\ ResolveAppeal(l)
  BY <1>1, <1>3 DEF AppealCanBeResolved, AppealOf, ResolveAppeal, HasAppealChallenge,
     AppealChallengeOf
<1>4. CASE AppealChallengeCanBeResolved(l) /\ ResolveAppealChallenge(l)
  <2>1. HasAppealChallenge(c)
    BY <1>t, <1>4 DEF AppealChallengeCanBeResolved, HasAppealChallenge
  <2>2. PICK succeeded : succeeded = Passed(AppealChallengeOf(c))
    OBVIOUS
  <2>3. appeals' = [appeals EXCEPT ![c].overturned = succeeded]
    BY <1>t, <1>4, <2>2 DEF ResolveAppealChallenge
  <2>4. appeals'[c].overturned = succeeded
    BY <1>t, <2>3 DEF Appeal
  <2>5. QED
    BY <2>1, <2>2, <2>4
<1>5. QED
  BY <1>2, <1>3, <1>4, Zenon DEF UpdateStatus

LEMMA NewVerdict ==
    ASSUME Typed, Structure, Records, [Next]_vars, NEW c \in Polls,
           ~challenges[c].resolved, challenges'[c].resolved
    PROVE  VerdictKept(c)'
<1> USE IdsArePolls
<1>t. TypeOK /\ c \in Ids /\ AppealChallengeOf(c) \in Ids
  BY Numbers, DisputeTypes
<1>1. PICK l \in Listings : /\ UpdateStatus(l) /\ ~CanBeWhitelisted(l)
                            /\ c \in {ChallengeOf(l), AppealOf(l).appealChallengeID}
  BY <1>t, VerdictGiven
<1>2. PICK done : Concludes(l, done)
  BY <1>t, <1>1, VerdictConcludes
<1>3. PICK d \in Polls : d = ChallengeOf(l)
  BY <1>2 DEF Concludes
<1>4. AppealChallengeOf(c)' = AppealChallengeOf(c)
  BY <1>t, <1>2 DEF Concludes, AppealChallengeOf
<1>5. CASE c = d
  <2>1. /\ (HasAppealChallenge(c) =>
               (appeals'[c].overturned <=> Passed(AppealChallengeOf(c))))
        /\ (~HasAppealChallenge(c) => appeals' = appeals)
    BY <1>1, <1>3, <1>5, VetoDecides
  <2>2. CASE HasAppealChallenge(c)
    <3>1. PICK v \in Polls : v = AppealChallengeOf(c)
      BY <1>t, <2>2 DEF HasAppealChallenge
    <3>2. v \in done
      BY <1>2, <1>3, <1>5, <2>2, <3>1 DEF Concludes, AppealOf, AppealChallengeOf, HasAppealChallenge
    <3>3. challenges'[v].resolved /\ Ended(v)
      BY <1>2, <3>2 DEF Concludes
    <3>4. Passed(v)' <=> Passed(v)
      BY <1>t, <3>3, PassedStays
    <3>5. AppealChallengeOf(c)' = v
      BY <1>4, <3>1
    <3>6. Passed(AppealChallengeOf(c))' <=> Passed(v)
      <4>1. Passed(AppealChallengeOf(c))' <=> Passed(v)'
        BY <3>5 DEF Passed, VotesFor, VotesAgainst, TokensOf, TokensOn, Revealed, VotedFor
      <4>2. QED
        BY <3>4, <4>1
    <3>7. QED
      BY <2>1, <2>2, <3>1, <3>3, <3>5, <3>6 DEF VerdictKept, HasAppealChallenge
  <2>3. CASE ~HasAppealChallenge(c)
    <3>1. ~appeals[c].overturned /\ appeals'[c] = appeals[c]
      BY <1>t, <2>1, <2>3 DEF Records, VetoesOverturn, HasAppealChallenge, AppealChallengeOf
    <3>2. QED
      BY <1>4, <2>3, <3>1 DEF VerdictKept, HasAppealChallenge
  <2>4. QED
    BY <2>2, <2>3
<1>6. CASE c # d
  <2>1. c = AppealChallengeOf(d) /\ c # 0
    BY <1>1, <1>3, <1>6, PollsAssumption DEF AppealOf, AppealChallengeOf
  <2>2. ~appeals[c].appealGranted
    BY <1>t, <2>1 DEF Records, VetoesStaked, AppealChallengeOf
  <2>3. appeals[c].appealChallengeID = 0 /\ ~appeals[c].overturned
    BY <1>t, <2>2 DEF Structure, AppealsInOrder, Records, VetoesOverturn
  <2>4. appeals'[c] = appeals[c]
    BY <1>t, <1>2, <1>3, <1>6 DEF Concludes
  <2>5. QED
    BY <2>3, <2>4 DEF VerdictKept, HasAppealChallenge, AppealChallengeOf
<1>7. QED
  BY <1>5, <1>6

LEMMA StaysResolved ==
    ASSUME Typed, Structure, Records, [Next]_vars, NEW c \in Polls, challenges[c].resolved
    PROVE  challenges'[c].resolved
<1>1. challenges'[c] = challenges[c] \/ \E v \in Voters : ClaimReward(v, c)
  BY Numbers, ResolvedSteps
<1>2. ASSUME NEW v \in Voters, ClaimReward(v, c) PROVE SameDisputes
  BY <1>2, Numbers, ClaimKeeps
<1>3. QED
  BY <1>1, <1>2, IdsArePolls DEF SameDisputes

LEMMA OldVerdict ==
    ASSUME Typed, Structure, Records, [Next]_vars, NEW c \in Polls, challenges[c].resolved,
           VerdictKept(c)
    PROVE  VerdictKept(c)'
<1> USE IdsArePolls
<1>1. TypeOK /\ AppealChallengeOf(c) \in Ids
  BY Numbers, DisputeTypes
<1>2. appeals'[c] = appeals[c]
  BY <1>1, AppealKept
<1>3. CASE ~HasAppealChallenge(c)
  BY <1>2, <1>3 DEF VerdictKept, HasAppealChallenge, AppealChallengeOf
<1>4. CASE HasAppealChallenge(c)
  <2>1. PICK v \in Polls : v = AppealChallengeOf(c)
    BY <1>1, <1>4 DEF HasAppealChallenge
  <2>2. challenges[v].resolved /\ (appeals[c].overturned <=> Passed(v))
    BY <1>4, <2>1 DEF VerdictKept
  <2>3. challenges'[v].resolved /\ Ended(v)
    BY <2>2, StaysResolved DEF Structure, ResolvedEnded
  <2>4. Passed(v)' <=> Passed(v)
    BY <1>1, <2>3, PassedStays
  <2>5. AppealChallengeOf(c)' = v
    BY <1>2, <2>1 DEF AppealChallengeOf
  <2>6. Passed(AppealChallengeOf(c))' <=> Passed(v)'
    BY <2>5 DEF Passed, VotesFor, VotesAgainst, TokensOf, TokensOn, Revealed, VotedFor
  <2>7. QED
    BY <1>2, <1>4, <2>1, <2>2, <2>3, <2>4, <2>5, <2>6 DEF VerdictKept, HasAppealChallenge
<1>5. QED
  BY <1>3, <1>4

LEMMA PageFactsNext ==
    ASSUME Typed, Structure, Records, PageFacts, [Next]_vars
    PROVE  PageFacts'
<1>1. PollDates'
  BY PollDatesKept, Numbers DEF PageFacts
<1>2. AppealsAfterVote'
  BY AppealsAfterVoteKept DEF PageFacts
<1>3. VetoesApart'
  BY VetoesApartKept DEF PageFacts
<1>4. VetoesOpen'
  BY VetoesOpenKept DEF PageFacts
<1>5. ASSUME NEW c \in Polls, challenges'[c].resolved PROVE VerdictKept(c)'
  <2>1. CASE challenges[c].resolved
    BY <2>1, OldVerdict DEF PageFacts, VerdictsKept
  <2>2. CASE ~challenges[c].resolved
    BY <1>5, <2>2, NewVerdict
  <2>3. QED
    BY <2>1, <2>2
<1>6. QED
  BY <1>1, <1>2, <1>3, <1>4, <1>5 DEF PageFacts, VerdictsKept

LEMMA AlwaysReadable == Spec => []Readable
<1>1. Init => Readable
  BY TypedInit, StructureInit, RecordsInit, PageFactsInit DEF Readable
<1>2. ASSUME Readable, [Next]_vars PROVE Readable'
  BY <1>2, TypedNext, StructureNext, RecordsNext, PageFactsNext, Numbers DEF Readable
<1>3. QED
  BY <1>1, <1>2, PTL DEF Spec

------------------------------------------------------------------------------------
(* The cards of the page, and the buttons for what is due. *)

LEMMA CardsApart == Readable => OneCard
<1> SUFFICES ASSUME Readable, NEW l \in Listings
             PROVE  LET cards == <<ShowsWhitelisted(l), ShowsRejected(l), IsInApplicationPhase(l),
                                   CanClientWhitelist(l), ShowsResolve(l), ShowsDetail(l)>>
                    IN  \E i \in 1 .. 6 : \A j \in 1 .. 6 : cards[j] <=> i = j
  BY DEF OneCard
<1> DEFINE cards == <<ShowsWhitelisted(l), ShowsRejected(l), IsInApplicationPhase(l),
                      CanClientWhitelist(l), ShowsResolve(l), ShowsDetail(l)>>
<1>t. /\ now \in Nat /\ listings[l].applicationExpiry \in Nat
      /\ (HasChallenge(l) => ~challenges[ChallengeOf(l)].resolved)
  BY DisputeTypes DEF Readable
<1>1. HasChallenge(l) <=> Unresolved(l)
  BY <1>t DEF Unresolved
<1>2. ~(IsInApplicationPhase(l) /\ CanClientWhitelist(l))
  BY <1>t DEF IsInApplicationPhase, CanClientWhitelist, Before, After
<1>3. /\ (HasChallenge(l) => /\ ~ShowsWhitelisted(l) /\ ~ShowsRejected(l)
                            /\ ~IsInApplicationPhase(l) /\ ~CanClientWhitelist(l)
                            /\ (ShowsResolve(l) <=> ~ShowsDetail(l)))
      /\ (~HasChallenge(l) => /\ ~ShowsResolve(l) /\ ~ShowsDetail(l)
                             /\ (ShowsWhitelisted(l) <=> listings[l].whitelisted)
                             /\ (ShowsRejected(l) <=> /\ ~listings[l].whitelisted
                                                     /\ ~IsInApplicationPhase(l)
                                                     /\ ~CanClientWhitelist(l))
                             /\ (IsInApplicationPhase(l) => ~listings[l].whitelisted)
                             /\ (CanClientWhitelist(l) => ~listings[l].whitelisted))
  BY <1>1 DEF ShowsWhitelisted, ShowsRejected, IsInApplicationPhase, CanClientWhitelist,
     ShowsResolve, ShowsDetail
<1>4. \/ /\ ShowsWhitelisted(l) /\ ~ShowsRejected(l) /\ ~IsInApplicationPhase(l)
         /\ ~CanClientWhitelist(l) /\ ~ShowsResolve(l) /\ ~ShowsDetail(l)
      \/ /\ ~ShowsWhitelisted(l) /\ ShowsRejected(l) /\ ~IsInApplicationPhase(l)
         /\ ~CanClientWhitelist(l) /\ ~ShowsResolve(l) /\ ~ShowsDetail(l)
      \/ /\ ~ShowsWhitelisted(l) /\ ~ShowsRejected(l) /\ IsInApplicationPhase(l)
         /\ ~CanClientWhitelist(l) /\ ~ShowsResolve(l) /\ ~ShowsDetail(l)
      \/ /\ ~ShowsWhitelisted(l) /\ ~ShowsRejected(l) /\ ~IsInApplicationPhase(l)
         /\ CanClientWhitelist(l) /\ ~ShowsResolve(l) /\ ~ShowsDetail(l)
      \/ /\ ~ShowsWhitelisted(l) /\ ~ShowsRejected(l) /\ ~IsInApplicationPhase(l)
         /\ ~CanClientWhitelist(l) /\ ShowsResolve(l) /\ ~ShowsDetail(l)
      \/ /\ ~ShowsWhitelisted(l) /\ ~ShowsRejected(l) /\ ~IsInApplicationPhase(l)
         /\ ~CanClientWhitelist(l) /\ ~ShowsResolve(l) /\ ShowsDetail(l)
  BY <1>2, <1>3, Zenon
<1>5. \E i \in 1 .. 6 : \A j \in 1 .. 6 : cards[j] <=> i = j
  <2>1. /\ (cards[1] <=> ShowsWhitelisted(l)) /\ (cards[2] <=> ShowsRejected(l))
        /\ (cards[3] <=> IsInApplicationPhase(l)) /\ (cards[4] <=> CanClientWhitelist(l))
        /\ (cards[5] <=> ShowsResolve(l)) /\ (cards[6] <=> ShowsDetail(l))
    OBVIOUS
  <2> HIDE DEF cards
  <2>2. \E i \in 1 .. 6 : /\ (cards[1] <=> i = 1) /\ (cards[2] <=> i = 2) /\ (cards[3] <=> i = 3)
                          /\ (cards[4] <=> i = 4) /\ (cards[5] <=> i = 5) /\ (cards[6] <=> i = 6)
    BY <1>4, <2>1
  <2>3. \A j \in 1 .. 6 : j = 1 \/ j = 2 \/ j = 3 \/ j = 4 \/ j = 5 \/ j = 6
    OBVIOUS
  <2>4. QED
    BY <2>2, <2>3
<1>6. QED
  BY <1>5

(* A poll that ended is one the page takes for over, and in a second a poll the *)
(* page takes for over has ended.                                              *)
LEMMA EndedNotVoting ==
    ASSUME Readable, NEW p \in Polls, Ended(p)
    PROVE  ~Voting(p)
<1>1. poll[p].commitEnd \in Nat /\ poll[p].revealEnd \in Nat /\ now \in Nat
  BY DisputeTypes DEF Readable
<1>2. poll[p].commitEnd <= poll[p].revealEnd /\ now > poll[p].revealEnd
  BY DEF Readable, PageFacts, PollDates, Ended
<1>3. QED
  BY <1>1, <1>2 DEF Voting, InCommitStage, InRevealStage, Before

LEMMA DueOffered == Readable => DueIsOffered
<1> USE IdsArePolls
<1> SUFFICES ASSUME Readable, NEW l \in Listings
             PROVE  /\ (Accepted(l).whitelist => Offered(l).whitelist)
                    /\ (Accepted(l).resolve => Offered(l).resolve)
                    /\ (Accepted(l).resolveAppeal => Offered(l).resolveAppeal)
                    /\ (Accepted(l).acResolve => Offered(l).acResolve)
  BY DEF DueIsOffered
<1>t. /\ TypeOK /\ Structure /\ now \in Nat /\ listings[l].applicationExpiry \in Nat
      /\ (HasChallenge(l) => ~challenges[ChallengeOf(l)].resolved)
  BY DisputeTypes DEF Readable
<1>1. PICK c \in Ids : c = ChallengeOf(l)
  BY DisputeTypes DEF Readable
<1>2. /\ AppealChallengeOf(c) \in Ids
      /\ (HasAppeal(c) <=> appeals[c].appealPhaseExpiry # 0)
      /\ (appeals[c].appealGranted => HasAppeal(c))
      /\ (HasAppealChallenge(c) => appeals[c].appealGranted)
      /\ appeals[c].appealPhaseExpiry \in Nat /\ appeals[c].appealOpenToChallengeExpiry \in Nat
      /\ requestAppealExpiry[c] \in Nat
  BY DisputeTypes DEF Readable
<1>3. /\ (Unchallenged(l) <=> ~HasChallenge(l)) /\ (ChallengeExists(l) <=> HasChallenge(l))
  BY <1>t, ChallengedOrNot DEF HasChallenge
<1>4. ASSUME CanBeWhitelisted(l) PROVE CanClientWhitelist(l)
  BY <1>t, <1>3, <1>4 DEF CanBeWhitelisted, AppWasMade, CanClientWhitelist, After
<1>5. ASSUME ChallengeExists(l), ChallengeCanBeResolved(l), Ended(c) PROVE ShowsResolve(l)
  <2>1. HasChallenge(l) /\ c \in Polls /\ ~HasAppeal(c) /\ ~Before(requestAppealExpiry[c])
    BY <1>1, <1>2, <1>3, <1>5, <1>t DEF HasChallenge, ChallengeCanBeResolved, AppealOf, Before
  <2>2. ~Voting(c)
    BY <1>5, <2>1, EndedNotVoting
  <2>3. QED
    BY <1>t, <1>1, <2>1, <2>2 DEF ShowsResolve, CanResolveChallenge, CanRequestAppeal
<1>6. ASSUME HasChallenge(l), HasAppeal(c) PROVE ShowsAppeal(l)
  BY <1>t, <1>1, <1>6 DEF ShowsAppeal, ShowsDetail, ShowsResolve, CanResolveChallenge, Unresolved
<1>7. ASSUME ChallengeExists(l), AppealCanBeResolved(l)
      PROVE  ShowsAppeal(l) /\ ~HasAppealChallenge(c) /\ CanAppealBeResolved(c)
  <2>1. HasAppeal(c) /\ HasChallenge(l)
    BY <1>1, <1>2, <1>3, <1>7 DEF AppealCanBeResolved, AppealOf
  <2>2. ~HasAppealChallenge(c)
    BY <1>1, <1>2, <1>7 DEF AppealCanBeResolved, AppealOf, HasAppealChallenge, AppealChallengeOf
  <2>3. CanAppealBeResolved(c)
    BY <1>t, <1>1, <1>2, <1>7, <2>1, <2>2
       DEF AppealCanBeResolved, AppealOf, CanAppealBeResolved, After
  <2>4. QED
    BY <1>6, <2>1, <2>2, <2>3
<1>8. ASSUME ChallengeExists(l), AppealChallengeCanBeResolved(l)
      PROVE  ShowsAppealChallenge(l) /\ ~Voting(AppealChallengeOf(c))
  <2>1. HasChallenge(l) /\ HasAppealChallenge(c) /\ Ended(AppealChallengeOf(c))
    BY <1>1, <1>3, <1>8
       DEF AppealChallengeCanBeResolved, AppealOf, HasAppealChallenge, AppealChallengeOf
  <2>2. AppealChallengeOf(c) \in Polls /\ HasAppeal(c)
    BY <1>2, <2>1 DEF HasAppealChallenge
  <2>3. ~challenges[AppealChallengeOf(c)].resolved
    BY <1>1, <2>1 DEF Readable, PageFacts, VetoesOpen
  <2>4. QED
    BY <1>1, <1>6, <2>1, <2>2, <2>3, EndedNotVoting DEF ShowsAppealChallenge
<1>9. QED
  BY <1>1, <1>4, <1>5, <1>7, <1>8 DEF Accepted, Offered

(* With no option but for and against, who is not a winner is a loser. *)
LEMMA RewardsShown == OnlyForAgainst /\ Readable => RewardsOffered
<1> SUFFICES ASSUME OnlyForAgainst, Readable, NEW v \in Voters, NEW c \in Polls,
                    challenges[c].resolved
             PROVE  v \in Revealed(c) /\ IsVoterWinner(v, c) <=> v \in Entitled(c)
  BY DEF RewardsOffered, CanUserCollect
<1> USE IdsArePolls
<1>t. TypeOK /\ AppealChallengeOf(c) \in Ids
  BY Numbers, DisputeTypes DEF Readable
<1>1. VerdictKept(c)
  BY DEF Readable, PageFacts, VerdictsKept
<1>2. Winners(c) \subseteq Revealed(c) /\ Losers(c) = Revealed(c) \ Winners(c)
  <2>1. \A w \in Revealed(c) : votes[c][w] \in Options \X Nat
    BY <1>t DEF TypeOK, Revealed
  <2>2. \A w \in Revealed(c) : votes[c][w][1] = 1 \/ votes[c][w][1] = 0
    BY <2>1 DEF OnlyForAgainst
  <2>3. QED
    BY <2>2 DEF Winners, Losers
<1>3. CASE ~appeals[c].appealGranted
  BY <1>2, <1>3 DEF IsVoterWinner, Entitled, Overturned
<1>4. CASE appeals[c].appealGranted /\ appeals[c].overturned
  <2>1. /\ HasAppealChallenge(c) /\ challenges[AppealChallengeOf(c)].resolved
        /\ Passed(AppealChallengeOf(c))
    BY <1>1, <1>4 DEF VerdictKept
  <2>2. IsVoterWinner(v, c) <=> v \in Winners(c)
    BY <1>4, <2>1 DEF IsVoterWinner
  <2>3. QED
    BY <1>2, <1>4, <2>2 DEF Entitled, Overturned
<1>5. CASE appeals[c].appealGranted /\ ~appeals[c].overturned
  <2>1. ~(/\ HasAppealChallenge(c) /\ challenges[AppealChallengeOf(c)].resolved
          /\ Passed(AppealChallengeOf(c)))
    BY <1>1, <1>5 DEF VerdictKept
  <2>2. IsVoterWinner(v, c) <=> v \notin Winners(c)
    <3> DEFINE reversed == /\ HasAppealChallenge(c)
                           /\ challenges[AppealChallengeOf(c)].resolved
                           /\ Passed(AppealChallengeOf(c))
    <3>1. IsVoterWinner(v, c) <=> (v \in Winners(c)) = reversed
      BY <1>5 DEF IsVoterWinner
    <3>2. reversed = FALSE
      BY <2>1
    <3> HIDE DEF reversed
    <3>3. IsVoterWinner(v, c) <=> (v \in Winners(c)) = FALSE
      BY <3>1, <3>2
    <3>4. (v \in Winners(c)) = FALSE <=> v \notin Winners(c)
      OBVIOUS
    <3>5. QED
      BY <3>3, <3>4
  <2>3. QED
    BY <1>2, <1>5, <2>2 DEF Entitled, Overturned
<1>6. QED
  BY <1>3, <1>4, <1>5

------------------------------------------------------------------------------------
(* What a second changes. *)

LEMMA TickEffect ==
    ASSUME Tick
    PROVE  now' = now + 1 /\ UNCHANGED <<pollNonce, poll, votes, listings, disputes>>
  BY DEF Tick, Pass

(* A poll the page takes for over has ended by the next second. *)
LEMMA OverEnds ==
    ASSUME Readable, Tick, NEW p \in Polls, p <= pollNonce, ~Voting(p)
    PROVE  Ended(p)'
<1>1. /\ poll[p].commitEnd \in Nat /\ poll[p].revealEnd \in Nat /\ now \in Nat
      /\ p \in Nat /\ p # 0 /\ pollNonce \in Nat
  BY DisputeTypes, IdsArePolls DEF Readable
<1>2. poll[p].revealEnd <= now
  BY <1>1 DEF Voting, InCommitStage, InRevealStage, Before
<1>3. p \in 1 .. pollNonce
  BY <1>1
<1>4. poll' = poll /\ now' = now + 1 /\ pollNonce' = pollNonce
  BY TickEffect
<1>5. QED
  BY <1>1, <1>2, <1>3, <1>4 DEF Ended, Exists

LEMMA OffersStand ==
    ASSUME Readable, Tick, NEW l \in Listings
    PROVE  \A a \in DOMAIN Offered(l) : Offered(l)[a] => Accepted(l)[a]'
<1> USE IdsArePolls
<1>u. /\ now' = now + 1 /\ pollNonce' = pollNonce /\ poll' = poll /\ listings' = listings
      /\ challenges' = challenges /\ appeals' = appeals
      /\ requestAppealExpiry' = requestAppealExpiry
  BY TickEffect DEF disputes
<1>t. /\ TypeOK /\ Structure /\ now \in Nat /\ pollNonce \in Nat
      /\ listings[l].applicationExpiry \in Nat
      /\ (HasChallenge(l) => ~challenges[ChallengeOf(l)].resolved)
  BY DisputeTypes DEF Readable
<1>1. PICK c \in Ids : c = ChallengeOf(l) /\ c <= pollNonce
  BY DisputeTypes DEF Readable
<1>2. PICK v \in Ids : v = AppealChallengeOf(c) /\ v <= pollNonce
  BY DisputeTypes DEF Readable
<1>3. /\ (HasAppeal(c) <=> appeals[c].appealPhaseExpiry # 0)
      /\ (appeals[c].appealGranted => HasAppeal(c))
      /\ (HasAppealChallenge(c) => appeals[c].appealGranted)
      /\ appeals[c].appealPhaseExpiry \in Nat /\ appeals[c].appealOpenToChallengeExpiry \in Nat
      /\ requestAppealExpiry[c] \in Nat
  BY DisputeTypes DEF Readable
<1>4. /\ (Unchallenged(l) <=> ~HasChallenge(l)) /\ (ChallengeExists(l) <=> HasChallenge(l))
      /\ (HasChallenge(l) <=> c \in Polls) /\ (HasAppealChallenge(c) <=> v \in Polls)
  BY <1>t, <1>1, <1>2, ChallengedOrNot DEF HasChallenge, HasAppealChallenge
<1>5. /\ ChallengeOf(l)' = c /\ AppealChallengeOf(c)' = v /\ AppealOf(l)' = appeals[c]
      /\ (Unchallenged(l)' <=> Unchallenged(l)) /\ (ChallengeExists(l)' <=> ChallengeExists(l))
  BY <1>1, <1>2, <1>u DEF ChallengeOf, AppealOf, AppealChallengeOf, Unchallenged, ChallengeExists
<1>p. \A p \in Polls : poll[p].commitEnd \in Nat /\ poll[p].revealEnd \in Nat
  BY DisputeTypes DEF Readable
<1>n. \A p \in Polls : p <= pollNonce => Exists(p)'
  <2>1. SUFFICES ASSUME NEW p \in Polls, p <= pollNonce PROVE p \in 1 .. pollNonce'
    BY DEF Exists
  <2>2. p \in Nat /\ p # 0
    OBVIOUS
  <2>3. QED
    BY <1>t, <1>u, <2>1, <2>2
(* The stages of a vote. *)
<1>6. ASSUME NEW p \in Polls, InCommitStage(p) PROVE now' <= poll'[p].commitEnd
  BY <1>t, <1>u, <1>p, <1>6 DEF InCommitStage, Before
<1>7. ASSUME NEW p \in Polls, p <= pollNonce, InRevealStage(p) PROVE Revealing(p)'
  <2>1. poll[p].commitEnd <= now /\ now < poll[p].revealEnd
    BY <1>t, <1>p, <1>7 DEF InRevealStage, InCommitStage, Before
  <2>2. now' > poll'[p].commitEnd /\ now' <= poll'[p].revealEnd
    BY <1>t, <1>u, <1>p, <2>1
  <2>3. QED
    BY <1>n, <1>7, <2>2 DEF Revealing
<1>8. HasAppeal(c) => ~ChallengeCanBeResolved(l)'
  BY <1>3, <1>5 DEF ChallengeCanBeResolved
<1>9. HasAppealChallenge(c) => ~AppealCanBeResolved(l)'
  BY <1>2, <1>3, <1>5 DEF AppealCanBeResolved, HasAppealChallenge, AppealChallengeOf
(* One by one. *)
<1>10. ASSUME ShowsWhitelisted(l) \/ IsInApplicationPhase(l)
       PROVE  (AppWasMade(l)' \/ listings'[l].whitelisted) /\ Unchallenged(l)'
  <2>1. ~HasChallenge(l)
    BY <1>t, <1>10 DEF ShowsWhitelisted, IsInApplicationPhase, Unresolved
  <2>2. listings[l].whitelisted \/ listings[l].applicationExpiry > 0
    BY <1>t, <1>10 DEF ShowsWhitelisted, IsInApplicationPhase, Before
  <2>3. QED
    BY <1>4, <1>5, <1>u, <2>1, <2>2 DEF AppWasMade
<1>11. ASSUME CanClientWhitelist(l) PROVE CanBeWhitelisted(l)'
  <2>1. /\ listings[l].applicationExpiry # 0 /\ listings[l].applicationExpiry <= now
        /\ ~listings[l].whitelisted /\ ~HasChallenge(l)
    BY <1>11 DEF CanClientWhitelist, After
  <2>2. listings'[l].applicationExpiry > 0 /\ listings'[l].applicationExpiry < now'
    BY <1>t, <1>u, <2>1
  <2>3. QED
    BY <1>4, <1>5, <1>u, <2>1, <2>2 DEF CanBeWhitelisted, AppWasMade
<1>12. ASSUME ShowsResolve(l) PROVE ChallengeExists(l)' /\ ChallengeCanBeResolved(l)' /\ Ended(c)'
  <2>1. /\ HasChallenge(l) /\ ~Voting(c) /\ ~HasAppeal(c) /\ ~Before(requestAppealExpiry[c])
    BY <1>1, <1>12 DEF ShowsResolve, CanResolveChallenge, CanRequestAppeal
  <2>2. requestAppealExpiry'[c] <= now'
    BY <1>3, <1>t, <1>u, <2>1 DEF Before
  <2>3. ChallengeCanBeResolved(l)'
    BY <1>3, <1>5, <2>1, <2>2 DEF ChallengeCanBeResolved
  <2>4. QED
    BY <1>1, <1>4, <1>5, <2>1, <2>3, OverEnds
<1>13. ASSUME ShowsDetail(l), InCommitStage(c) PROVE c # 0 /\ now' <= poll'[c].commitEnd
  BY <1>4, <1>6, <1>13 DEF ShowsDetail, Unresolved
<1>14. ASSUME ShowsDetail(l), InRevealStage(c) PROVE Revealing(c)'
  BY <1>1, <1>4, <1>7, <1>14 DEF ShowsDetail, Unresolved
<1>15. ASSUME ShowsDetail(l), CanRequestAppeal(c)
       PROVE  /\ c # 0 /\ Ended(c)' /\ appeals'[c].requester = Nobody
              /\ now' <= requestAppealExpiry'[c]
  <2>1. c \in Polls /\ ~Voting(c) /\ ~HasAppeal(c) /\ now < requestAppealExpiry[c]
    BY <1>4, <1>15, <1>t, <1>3 DEF ShowsDetail, Unresolved, CanRequestAppeal, Before
  <2>2. now' <= requestAppealExpiry'[c]
    BY <1>t, <1>u, <1>3, <2>1
  <2>3. QED
    BY <1>1, <1>u, <2>1, <2>2, OverEnds DEF HasAppeal
<1>16. ASSUME IsAppealAwaitingJudgment(c)
       PROVE  ~appeals'[c].appealGranted /\ now' <= appeals'[c].appealPhaseExpiry
  BY <1>t, <1>u, <1>3, <1>16 DEF IsAppealAwaitingJudgment, Before
<1>17. ASSUME IsAwaitingAppealChallenge(c)
       PROVE  /\ appeals'[c].appealGranted /\ v = 0
              /\ now' <= appeals'[c].appealOpenToChallengeExpiry
  BY <1>t, <1>u, <1>2, <1>3, <1>17 DEF IsAwaitingAppealChallenge, HasAppealChallenge, Before
<1>18. ASSUME ShowsAppeal(l), ~HasAppealChallenge(c), CanAppealBeResolved(c)
       PROVE  ChallengeExists(l)' /\ ~ChallengeCanBeResolved(l)' /\ AppealCanBeResolved(l)'
  <2>1. HasChallenge(l) /\ HasAppeal(c) /\ appeals[c].appealChallengeID = 0
    BY <1>1, <1>18
       DEF ShowsAppeal, ShowsDetail, Unresolved, HasAppealChallenge, AppealChallengeOf
  <2>2. IF appeals[c].appealGranted THEN appeals[c].appealOpenToChallengeExpiry <= now
        ELSE appeals[c].appealPhaseExpiry <= now
    BY <1>18 DEF CanAppealBeResolved, After
  <2>3. IF appeals[c].appealGranted THEN appeals[c].appealOpenToChallengeExpiry < now'
        ELSE appeals[c].appealPhaseExpiry < now'
    BY <1>t, <1>u, <1>3, <2>2
  <2>4. AppealCanBeResolved(l)'
    BY <1>3, <1>5, <2>1, <2>3 DEF AppealCanBeResolved
  <2>5. QED
    BY <1>4, <1>5, <1>8, <2>1, <2>4
<1>19. ASSUME ShowsAppealChallenge(l), InCommitStage(v) PROVE v # 0 /\ now' <= poll'[v].commitEnd
  BY <1>1, <1>4, <1>6, <1>19 DEF ShowsAppealChallenge
<1>20. ASSUME ShowsAppealChallenge(l), InRevealStage(v) PROVE Revealing(v)'
  BY <1>1, <1>2, <1>4, <1>7, <1>20 DEF ShowsAppealChallenge
<1>21. ASSUME ShowsAppealChallenge(l), ~Voting(v)
       PROVE  /\ ChallengeExists(l)' /\ ~ChallengeCanBeResolved(l)'
              /\ ~AppealCanBeResolved(l)' /\ AppealChallengeCanBeResolved(l)'
  <2>1. HasChallenge(l) /\ HasAppeal(c) /\ HasAppealChallenge(c) /\ v \in Polls
    BY <1>1, <1>4, <1>21 DEF ShowsAppealChallenge, ShowsAppeal, ShowsDetail, Unresolved
  <2>2. Ended(v)'
    BY <1>2, <1>21, <2>1, OverEnds
  <2>3. AppealOf(l)'.appealChallengeID = v /\ v # 0
    BY <1>2, <1>5, <2>1 DEF AppealChallengeOf
  <2>4. AppealChallengeCanBeResolved(l)'
    <3>1. Ended(AppealOf(l).appealChallengeID)'
      BY <2>2, <2>3 DEF Ended, Exists
    <3>2. QED
      BY <2>3, <3>1 DEF AppealChallengeCanBeResolved
  <2>5. QED
    BY <1>4, <1>5, <1>8, <1>9, <2>1, <2>4
<1>22. /\ (Offered(l).challenge => Accepted(l).challenge')
       /\ (Offered(l).whitelist => Accepted(l).whitelist')
       /\ (Offered(l).resolve => Accepted(l).resolve')
  BY <1>1, <1>5, <1>10, <1>11, <1>12, <1>u DEF Offered, Accepted
<1>23. /\ (Offered(l).commit => Accepted(l).commit')
       /\ (Offered(l).reveal => Accepted(l).reveal')
       /\ (Offered(l).requestAppeal => Accepted(l).requestAppeal')
  BY <1>1, <1>5, <1>13, <1>14, <1>15, <1>u DEF Offered, Accepted
<1>24. /\ (Offered(l).grant => Accepted(l).grant')
       /\ (Offered(l).challengeAppeal => Accepted(l).challengeAppeal')
       /\ (Offered(l).resolveAppeal => Accepted(l).resolveAppeal')
  BY <1>1, <1>2, <1>5, <1>16, <1>17, <1>18, <1>u DEF Offered, Accepted
<1>25. /\ (Offered(l).acCommit => Accepted(l).acCommit')
       /\ (Offered(l).acReveal => Accepted(l).acReveal')
       /\ (Offered(l).acResolve => Accepted(l).acResolve')
  BY <1>1, <1>2, <1>5, <1>19, <1>20, <1>21, <1>u DEF Offered, Accepted
<1>26. DOMAIN Offered(l) = {"challenge", "whitelist", "resolve", "commit", "reveal",
                           "requestAppeal", "grant", "challengeAppeal", "resolveAppeal",
                           "acCommit", "acReveal", "acResolve"}
  BY DEF Offered
<1>27. QED
  BY <1>22, <1>23, <1>24, <1>25, <1>26

(* Only a date that is reached changes what is before and what is after now. *)
LEMMA DatesStand ==
    ASSUME Readable, Tick, NEW date \in Nat, date # now'
    PROVE  (Before(date)' <=> Before(date)) /\ (After(date)' <=> After(date))
<1>1. now \in Nat /\ now' = now + 1
  BY DisputeTypes, TickEffect DEF Readable
<1>2. QED
  BY <1>1 DEF Before, After

LEMMA PastStaysPast ==
    ASSUME Readable, Tick, NEW date \in Nat, ~Before(date)
    PROVE  ~Before(date)' /\ date # now'
<1>1. now \in Nat /\ now' = now + 1
  BY DisputeTypes, TickEffect DEF Readable
<1>2. QED
  BY <1>1 DEF Before

LEMMA DateStands ==
    ASSUME Readable, Tick, NEW date \in Nat, Before(date) => date # now'
    PROVE  Before(date)' <=> Before(date)
  BY DatesStand, PastStaysPast

(* The stages of a vote change only at its dates. *)
LEMMA StagesStand ==
    ASSUME Readable, Tick, NEW p \in Polls,
           InCommitStage(p) => poll[p].commitEnd # now',
           InRevealStage(p) => poll[p].revealEnd # now'
    PROVE  (InCommitStage(p)' <=> InCommitStage(p)) /\ (InRevealStage(p)' <=> InRevealStage(p))
<1>1. poll[p].commitEnd \in Nat /\ poll[p].revealEnd \in Nat /\ poll' = poll
  BY DisputeTypes, TickEffect DEF Readable
<1>2. InCommitStage(p)' <=> InCommitStage(p)
  <2>1. InCommitStage(p)' <=> Before(poll[p].commitEnd)'
    BY <1>1 DEF InCommitStage, Before
  <2>2. QED
    BY <1>1, <2>1, DatesStand, PastStaysPast DEF InCommitStage
<1>3. InRevealStage(p)' <=> InRevealStage(p)
  <2>1. InRevealStage(p)' <=> ~InCommitStage(p)' /\ Before(poll[p].revealEnd)'
    BY <1>1 DEF InRevealStage, Before
  <2>2. QED
    BY <1>1, <1>2, <2>1, DatesStand, PastStaysPast DEF InRevealStage
<1>4. QED
  BY <1>2, <1>3

(* Of a challenged listing, everything the page goes by. *)
LEMMA PhasesStand ==
    ASSUME Readable, Tick, NEW l \in Listings, HasChallenge(l), NextTimer(l) # now',
           NEW c \in Polls, c = ChallengeOf(l), NEW v \in Ids, v = AppealChallengeOf(c)
    PROVE  /\ (InCommitStage(c)' <=> InCommitStage(c)) /\ (InRevealStage(c)' <=> InRevealStage(c))
           /\ (CanRequestAppeal(c)' <=> CanRequestAppeal(c))
           /\ (IsAppealAwaitingJudgment(c)' <=> IsAppealAwaitingJudgment(c))
           /\ (IsAwaitingAppealChallenge(c)' <=> IsAwaitingAppealChallenge(c))
           /\ (HasAppealChallenge(c) =>
                  /\ (InCommitStage(v)' <=> InCommitStage(v))
                  /\ (InRevealStage(v)' <=> InRevealStage(v)))
<1> USE IdsArePolls
<1>t. /\ AppealChallengeOf(c) \in Ids /\ (HasAppeal(c) <=> appeals[c].appealPhaseExpiry # 0)
      /\ (appeals[c].appealGranted => HasAppeal(c))
      /\ (HasAppealChallenge(c) => appeals[c].appealGranted)
      /\ appeals[c].appealPhaseExpiry \in Nat /\ appeals[c].appealOpenToChallengeExpiry \in Nat
      /\ requestAppealExpiry[c] \in Nat /\ now \in Nat
  BY DisputeTypes DEF Readable
<1>u. /\ appeals' = appeals /\ requestAppealExpiry' = requestAppealExpiry /\ now' = now + 1
      /\ (HasAppeal(c)' <=> HasAppeal(c)) /\ (HasAppealChallenge(c)' <=> HasAppealChallenge(c))
  BY TickEffect DEF disputes, HasAppeal, HasAppealChallenge, AppealChallengeOf
<1>n. NextTimer(l) =
        IF InCommitStage(c) THEN poll[c].commitEnd
        ELSE IF InRevealStage(c) THEN poll[c].revealEnd
        ELSE IF CanRequestAppeal(c) THEN requestAppealExpiry[c]
        ELSE IF IsAppealAwaitingJudgment(c) THEN appeals[c].appealPhaseExpiry
        ELSE IF IsAwaitingAppealChallenge(c) THEN appeals[c].appealOpenToChallengeExpiry
        ELSE IF ~HasAppealChallenge(c) THEN 0
        ELSE IF InCommitStage(v) THEN poll[v].commitEnd
        ELSE IF InRevealStage(v) THEN poll[v].revealEnd
        ELSE 0
  BY DEF NextTimer, IsInApplicationPhase, IsAwaitingAppealRequest
(* A vote that is not over has had no appeal. *)
<1>a. Voting(c) => ~HasAppeal(c)
  BY EndedNotVoting DEF Readable, PageFacts, AppealsAfterVote
<1>1. (InCommitStage(c)' <=> InCommitStage(c)) /\ (InRevealStage(c)' <=> InRevealStage(c))
  <2>1. /\ (InCommitStage(c) => poll[c].commitEnd # now')
        /\ (InRevealStage(c) => poll[c].revealEnd # now')
    BY <1>n DEF InRevealStage
  <2>2. QED
    BY <2>1, StagesStand
<1>2. Voting(c)' <=> Voting(c)
  BY <1>1 DEF Voting
<1>3. CanRequestAppeal(c)' <=> CanRequestAppeal(c)
  <2>1. CanRequestAppeal(c)' <=> /\ ~Voting(c) /\ ~HasAppeal(c)
                                /\ Before(requestAppealExpiry[c])'
    BY <1>u, <1>2 DEF CanRequestAppeal, Before
  <2>2. CanRequestAppeal(c) => requestAppealExpiry[c] # now'
    BY <1>n DEF CanRequestAppeal, Voting
  <2>3. CASE ~Voting(c) /\ ~HasAppeal(c)
    <3>1. PICK date \in Nat : date = requestAppealExpiry[c]
      BY <1>t
    <3>2. Before(date) => date # now'
      BY <2>2, <2>3, <3>1 DEF CanRequestAppeal
    <3>3. Before(date)' <=> Before(date)
      BY <3>2, DateStands
    <3>4. QED
      BY <1>u, <2>1, <3>1, <3>3 DEF CanRequestAppeal
  <2>4. QED
    BY <2>1, <2>3 DEF CanRequestAppeal
<1>4. IsAppealAwaitingJudgment(c)' <=> IsAppealAwaitingJudgment(c)
  <2>1. IsAppealAwaitingJudgment(c)' <=> /\ ~appeals[c].appealGranted
                                        /\ Before(appeals[c].appealPhaseExpiry)'
    BY <1>u DEF IsAppealAwaitingJudgment, Before
  <2>2. IsAppealAwaitingJudgment(c) => HasAppeal(c)
    BY <1>t DEF IsAppealAwaitingJudgment, Before
  <2>3. IsAppealAwaitingJudgment(c) => appeals[c].appealPhaseExpiry # now'
    BY <1>n, <1>a, <2>2 DEF CanRequestAppeal, Voting
  <2>4. CASE ~appeals[c].appealGranted
    <3>1. PICK date \in Nat : date = appeals[c].appealPhaseExpiry
      BY <1>t
    <3>2. Before(date) => date # now'
      BY <2>3, <2>4, <3>1 DEF IsAppealAwaitingJudgment
    <3>3. Before(date)' <=> Before(date)
      BY <3>2, DateStands
    <3>4. QED
      BY <1>u, <2>1, <3>1, <3>3 DEF IsAppealAwaitingJudgment
  <2>5. QED
    BY <2>1, <2>4 DEF IsAppealAwaitingJudgment
<1>5. IsAwaitingAppealChallenge(c)' <=> IsAwaitingAppealChallenge(c)
  <2>1. IsAwaitingAppealChallenge(c)' <=> /\ appeals[c].appealGranted /\ ~HasAppealChallenge(c)
                                         /\ Before(appeals[c].appealOpenToChallengeExpiry)'
    BY <1>u DEF IsAwaitingAppealChallenge, Before
  <2>2. IsAwaitingAppealChallenge(c) => HasAppeal(c) /\ ~IsAppealAwaitingJudgment(c)
    BY <1>t DEF IsAwaitingAppealChallenge, IsAppealAwaitingJudgment
  <2>3. IsAwaitingAppealChallenge(c) => appeals[c].appealOpenToChallengeExpiry # now'
    BY <1>n, <1>a, <2>2 DEF CanRequestAppeal, Voting
  <2>4. CASE appeals[c].appealGranted /\ ~HasAppealChallenge(c)
    <3>1. PICK date \in Nat : date = appeals[c].appealOpenToChallengeExpiry
      BY <1>t
    <3>2. Before(date) => date # now'
      BY <2>3, <2>4, <3>1 DEF IsAwaitingAppealChallenge
    <3>3. Before(date)' <=> Before(date)
      BY <3>2, DateStands
    <3>4. QED
      BY <1>u, <2>1, <3>1, <3>3 DEF IsAwaitingAppealChallenge
  <2>5. QED
    BY <2>1, <2>4 DEF IsAwaitingAppealChallenge
<1>6. ASSUME HasAppealChallenge(c)
      PROVE  /\ (InCommitStage(v)' <=> InCommitStage(v))
             /\ (InRevealStage(v)' <=> InRevealStage(v))
  <2>1. v \in Polls
    BY <1>6 DEF HasAppealChallenge
  <2>2. HasAppeal(c) /\ ~IsAppealAwaitingJudgment(c) /\ ~IsAwaitingAppealChallenge(c)
    BY <1>t, <1>6 DEF IsAppealAwaitingJudgment, IsAwaitingAppealChallenge
  <2>3. NextTimer(l) = IF InCommitStage(v) THEN poll[v].commitEnd
                       ELSE IF InRevealStage(v) THEN poll[v].revealEnd ELSE 0
    BY <1>n, <1>a, <1>6, <2>2 DEF CanRequestAppeal, Voting
  <2>4. /\ (InCommitStage(v) => poll[v].commitEnd # now')
        /\ (InRevealStage(v) => poll[v].revealEnd # now')
    BY <2>3 DEF InRevealStage
  <2>5. QED
    BY <2>1, <2>4, StagesStand
<1>7. QED
  BY <1>1, <1>3, <1>4, <1>5, <1>6

(* The page of a listing without a challenge. *)
LEMMA QuietPageStands ==
    ASSUME Readable, Tick, NEW l \in Listings, ~HasChallenge(l), NextTimer(l) # now'
    PROVE  Offered(l)' = Offered(l)
<1>1. /\ listings' = listings /\ challenges' = challenges
      /\ listings[l].applicationExpiry \in Nat /\ now \in Nat
  BY DisputeTypes, TickEffect DEF Readable, disputes
<1>2. (HasChallenge(l)' <=> HasChallenge(l)) /\ (Unresolved(l)' <=> Unresolved(l))
  BY <1>1 DEF HasChallenge, Unresolved, ChallengeOf
<1>3. ~ShowsDetail(l) /\ ~ShowsDetail(l)' /\ ~ShowsResolve(l) /\ ~ShowsResolve(l)'
  BY <1>2 DEF ShowsDetail, ShowsResolve, Unresolved
<1>4. /\ ~ShowsAppeal(l) /\ ~ShowsAppeal(l)'
      /\ ~ShowsAppealChallenge(l) /\ ~ShowsAppealChallenge(l)'
  BY <1>3 DEF ShowsAppeal, ShowsAppealChallenge
<1>5. /\ (IsInApplicationPhase(l)' <=> /\ Before(listings[l].applicationExpiry)'
                                      /\ ~listings[l].whitelisted)
      /\ (CanClientWhitelist(l)' <=> /\ listings[l].applicationExpiry # 0
                                    /\ ~listings[l].whitelisted
                                    /\ After(listings[l].applicationExpiry)')
  BY <1>1, <1>2 DEF IsInApplicationPhase, CanClientWhitelist, Before, After
<1>6. ~listings[l].whitelisted => listings[l].applicationExpiry # now'
  BY <1>1, PastStaysPast DEF NextTimer, IsInApplicationPhase
<1>7. /\ (IsInApplicationPhase(l)' <=> IsInApplicationPhase(l))
      /\ (CanClientWhitelist(l)' <=> CanClientWhitelist(l))
      /\ (ShowsWhitelisted(l)' <=> ShowsWhitelisted(l))
  BY <1>1, <1>2, <1>5, <1>6, DatesStand
     DEF IsInApplicationPhase, CanClientWhitelist, ShowsWhitelisted
<1>8. (ShowsWhitelisted(l) \/ IsInApplicationPhase(l))'
          = (ShowsWhitelisted(l) \/ IsInApplicationPhase(l))
  BY <1>7
<1>9. /\ CanClientWhitelist(l)' = CanClientWhitelist(l)
      /\ ShowsResolve(l)' = ShowsResolve(l)
  BY <1>3, <1>7 DEF CanClientWhitelist, ShowsResolve
<1>10. QED
  BY <1>3, <1>4, <1>8, <1>9 DEF Offered

(* The page of a challenged listing. *)
LEMMA DisputePageStands ==
    ASSUME Readable, Tick, NEW l \in Listings, HasChallenge(l), NextTimer(l) # now'
    PROVE  Offered(l)' = Offered(l)
<1> USE IdsArePolls
<1>1. PICK c \in Polls : c = ChallengeOf(l)
  BY DisputeTypes DEF HasChallenge, Readable
<1>2. PICK v \in Ids : v = AppealChallengeOf(c)
  BY DisputeTypes DEF Readable
<1>3. /\ (InCommitStage(c)' <=> InCommitStage(c)) /\ (InRevealStage(c)' <=> InRevealStage(c))
      /\ (CanRequestAppeal(c)' <=> CanRequestAppeal(c))
      /\ (IsAppealAwaitingJudgment(c)' <=> IsAppealAwaitingJudgment(c))
      /\ (IsAwaitingAppealChallenge(c)' <=> IsAwaitingAppealChallenge(c))
      /\ (HasAppealChallenge(c) =>
             /\ (InCommitStage(v)' <=> InCommitStage(v))
             /\ (InRevealStage(v)' <=> InRevealStage(v)))
  BY <1>1, <1>2, PhasesStand
<1>u. /\ listings' = listings /\ challenges' = challenges /\ appeals' = appeals
  BY TickEffect DEF disputes
<1>4. /\ ChallengeOf(l)' = c /\ AppealChallengeOf(c)' = v
      /\ (HasChallenge(l)' <=> HasChallenge(l)) /\ (Unresolved(l)' <=> Unresolved(l))
      /\ (HasAppeal(c)' <=> HasAppeal(c)) /\ (HasAppealChallenge(c)' <=> HasAppealChallenge(c))
  BY <1>1, <1>2, <1>u
     DEF ChallengeOf, HasChallenge, Unresolved, HasAppeal, HasAppealChallenge, AppealChallengeOf
<1>5. (Voting(c)' <=> Voting(c)) /\ (HasAppealChallenge(c) => (Voting(v)' <=> Voting(v)))
  BY <1>3 DEF Voting
<1>6. (CanResolveChallenge(c)' <=> CanResolveChallenge(c))
  BY <1>3, <1>4, <1>5, <1>u DEF CanResolveChallenge
<1>7. (ShowsResolve(l)' <=> ShowsResolve(l)) /\ (ShowsDetail(l)' <=> ShowsDetail(l))
  <2>1. /\ (ShowsResolve(l) <=> HasChallenge(l) /\ CanResolveChallenge(c))
        /\ (ShowsResolve(l)' <=> HasChallenge(l)' /\ CanResolveChallenge(c)')
    BY <1>1, <1>4 DEF ShowsResolve, CanResolveChallenge, Voting, InCommitStage, InRevealStage,
       CanRequestAppeal, HasAppeal, Before
  <2>2. QED
    BY <1>4, <1>6, <2>1 DEF ShowsDetail
<1>8. /\ (ShowsAppeal(l) <=> ShowsDetail(l) /\ HasAppeal(c))
      /\ (ShowsAppeal(l)' <=> ShowsDetail(l)' /\ HasAppeal(c)')
  BY <1>1, <1>4 DEF ShowsAppeal, HasAppeal
<1>9. /\ (ShowsAppealChallenge(l) <=> /\ ShowsAppeal(l) /\ HasAppealChallenge(c)
                                     /\ ~challenges[v].resolved)
      /\ (ShowsAppealChallenge(l)' <=> /\ ShowsAppeal(l)' /\ HasAppealChallenge(c)'
                                      /\ ~challenges[v].resolved)
  BY <1>1, <1>2, <1>4, <1>u DEF ShowsAppealChallenge, HasAppealChallenge, AppealChallengeOf
<1>10. /\ (ShowsAppeal(l)' <=> ShowsAppeal(l))
       /\ (ShowsAppealChallenge(l)' <=> ShowsAppealChallenge(l))
       /\ (ShowsAppealChallenge(l) => HasAppealChallenge(c))
  BY <1>4, <1>7, <1>8, <1>9
(* What the page says of the appeal while nobody challenged it. *)
<1>11. HasAppeal(c) /\ ~HasAppealChallenge(c) =>
           (CanAppealBeResolved(c)' <=> CanAppealBeResolved(c))
  <2>t. /\ appeals[c].appealPhaseExpiry \in Nat /\ appeals[c].appealOpenToChallengeExpiry \in Nat
        /\ now \in Nat /\ now' = now + 1
    BY DisputeTypes, TickEffect DEF Readable
  <2>1. \A date \in Nat : (After(date) <=> ~Before(date)) /\ (After(date)' <=> ~Before(date)')
    BY <2>t DEF After, Before
  <2>2. SUFFICES ASSUME HasAppeal(c), ~HasAppealChallenge(c)
                 PROVE  CanAppealBeResolved(c)' <=> CanAppealBeResolved(c)
    OBVIOUS
  <2>3. CASE appeals[c].appealGranted
    <3>1. /\ (CanAppealBeResolved(c) <=> ~IsAwaitingAppealChallenge(c))
      BY <2>t, <2>1, <2>2, <2>3 DEF CanAppealBeResolved, IsAwaitingAppealChallenge
    <3>2. /\ (CanAppealBeResolved(c)' <=> ~IsAwaitingAppealChallenge(c)')
      BY <1>u, <1>4, <2>t, <2>1, <2>2, <2>3
         DEF CanAppealBeResolved, IsAwaitingAppealChallenge, After, Before
    <3>3. QED
      BY <1>3, <3>1, <3>2
  <2>4. CASE ~appeals[c].appealGranted
    <3>1. /\ (CanAppealBeResolved(c) <=> ~IsAppealAwaitingJudgment(c))
      BY <2>t, <2>1, <2>2, <2>4 DEF CanAppealBeResolved, IsAppealAwaitingJudgment
    <3>2. /\ (CanAppealBeResolved(c)' <=> ~IsAppealAwaitingJudgment(c)')
      BY <1>u, <1>4, <2>t, <2>1, <2>2, <2>4
         DEF CanAppealBeResolved, IsAppealAwaitingJudgment, After, Before
    <3>3. QED
      BY <1>3, <3>1, <3>2
  <2>5. QED
    BY <2>3, <2>4
<1>12. /\ ~IsInApplicationPhase(l) /\ ~IsInApplicationPhase(l)'
       /\ ~CanClientWhitelist(l) /\ ~CanClientWhitelist(l)'
       /\ (ShowsWhitelisted(l)' <=> ShowsWhitelisted(l))
  BY <1>4, <1>u DEF IsInApplicationPhase, CanClientWhitelist, ShowsWhitelisted
<1>13. /\ Offered(l).challenge' = Offered(l).challenge
       /\ Offered(l).whitelist' = Offered(l).whitelist
       /\ Offered(l).resolve' = Offered(l).resolve
  BY <1>7, <1>12 DEF Offered, ShowsWhitelisted, ShowsResolve, CanClientWhitelist
<1>14. /\ Offered(l).commit' = Offered(l).commit
       /\ Offered(l).reveal' = Offered(l).reveal
       /\ Offered(l).requestAppeal' = Offered(l).requestAppeal
  BY <1>1, <1>3, <1>4, <1>7 DEF Offered
<1>15. /\ Offered(l).grant' = Offered(l).grant
       /\ Offered(l).challengeAppeal' = Offered(l).challengeAppeal
       /\ Offered(l).resolveAppeal' = Offered(l).resolveAppeal
  BY <1>1, <1>3, <1>4, <1>8, <1>10, <1>11 DEF Offered
<1>16. /\ Offered(l).acCommit' = Offered(l).acCommit
       /\ Offered(l).acReveal' = Offered(l).acReveal
       /\ Offered(l).acResolve' = Offered(l).acResolve
  BY <1>1, <1>2, <1>3, <1>4, <1>5, <1>10 DEF Offered
<1>17. QED
  BY <1>13, <1>14, <1>15, <1>16 DEF Offered

------------------------------------------------------------------------------------
(* At every time and through every order of votes, appeals, resolutions and     *)
(* claims the page shows one card, has the button for whatever updateStatus     *)
(* would decide, offers rewards to exactly those that may claim one, and offers *)
(* nothing that the contracts will refuse in the next second, as long as every  *)
(* vote is for or against.                                                      *)
THEOREM PageFollowsRules ==
    ASSUME OnlyForAgainst
    PROVE  Spec => OffersFollowRules
<1>1. Readable => OneCard /\ DueIsOffered /\ RewardsOffered
  BY CardsApart, DueOffered, RewardsShown
<1>2. ASSUME Readable
      PROVE  [Tick => \A l \in Listings : \A a \in DOMAIN Offered(l) :
                         Offered(l)[a] => Accepted(l)[a]']_vars
  BY <1>2, OffersStand
<1>3. QED
  BY <1>1, <1>2, AlwaysReadable, PTL DEF OffersFollowRules, OfferedIsAccepted

(* No page changes with time unless the timer set for it goes off then. *)
THEOREM NoSilentChange == Spec => TimerCoversChange
<1>1. ASSUME Readable
      PROVE  [Tick => \A l \in Listings : Offered(l)' # Offered(l) => NextTimer(l) = now']_vars
  BY <1>1, QuietPageStands, DisputePageStands
<1>2. QED
  BY <1>1, AlwaysReadable, PTL DEF TimerCoversChange

------------------------------------------------------------------------------------
(* No dispute is stuck: once its time is over, updateStatus goes through.      *)
(* This is what the liveness of disputes rests on besides fairness.            *)

(* Every period of the dispute has passed that its stage waits for. *)
Overdue(l) ==
    LET c == ChallengeOf(l)
        a == appeals[c]
    IN  /\ ChallengeExists(l)
        /\ IF a.requester = Nobody THEN now > poll[c].revealEnd /\ now >= requestAppealExpiry[c]
           ELSE IF ~a.appealGranted THEN now > a.appealPhaseExpiry
           ELSE IF a.appealChallengeID = 0 THEN now > a.appealOpenToChallengeExpiry
           ELSE now > poll[a.appealChallengeID].revealEnd

(* What the branches of updateStatus that end a dispute require. *)
Settleable(l) ==
    LET c    == ChallengeOf(l)
        ac   == AppealOf(l).appealChallengeID
        fee  == AppealOf(l).appealFeePaid
        half == fee \div 2
    IN  \/ ChallengeCanBeResolved(l) /\ CanSettle(l, challenges[c], FALSE, 0)
        \/ /\ AppealCanBeResolved(l)
           /\ IF AppealOf(l).appealGranted
              THEN CanSettle(l, challenges[c], TRUE, fee)
              ELSE CanSettle(l, [challenges[c] EXCEPT !.rewardPool = @ + half,
                                                    !.stake = @ + (fee - half)], FALSE, 0)
        \/ /\ AppealChallengeCanBeResolved(l)
           /\ ~challenges[ac].resolved
           /\ CanSettle(l, challenges[c], ~Passed(ac), Reward(challenges[ac], WinningTokens(ac)))

LEMMA OverdueSettles ==
    ASSUME Readable, FeesEven, Solvent, NEW l \in Listings, Overdue(l)
    PROVE  Settleable(l)
<1> USE IdsArePolls
<1>t. Typed /\ TypeOK /\ Structure /\ Records /\ PageFacts
  BY Numbers DEF Readable
<1>1. PICK c \in Polls : c = ChallengeOf(l) /\ ~challenges[c].resolved
  <2>1. ChallengeOf(l) # 0 /\ ChallengeOf(l) \in Ids
    BY <1>t, ChallengedOrNot, ListingTypes DEF Overdue
  <2>2. QED
    BY <1>t, <2>1 DEF Structure, DisputesApart
<1>2. PICK a \in Appeal : a = appeals[c] /\ a = AppealOf(l)
  BY <1>t, <1>1, Numbers DEF AppealOf
<1>3. PICK ch \in Challenge : ch = challenges[c] /\ ch.rewardPool <= ch.stake /\ ch.stake \in Nat
  BY <1>t, <1>1, Numbers
<1>4. PICK fee \in Nat : fee = a.appealFeePaid
  BY <1>t, <1>2, Numbers
<1>5. /\ (a.requester = Nobody <=> a.appealPhaseExpiry = 0)
      /\ (a.appealGranted => a.requester # Nobody)
      /\ (a.appealChallengeID # 0 => a.appealGranted)
      /\ (a.requester = Nobody => fee = 0)
  <2>1. /\ (appeals[c].requester = Nobody <=> appeals[c].appealPhaseExpiry = 0)
        /\ (appeals[c].appealGranted => appeals[c].requester # Nobody)
        /\ (appeals[c].appealChallengeID # 0 => appeals[c].appealGranted)
        /\ (appeals[c].requester = Nobody => appeals[c].appealFeePaid = 0)
    BY <1>t DEF Structure, AppealsInOrder, Records, FeesByRequest
  <2>2. QED
    BY <1>2, <1>4, <2>1
<1>6. IF a.requester = Nobody THEN now > poll[c].revealEnd /\ now >= requestAppealExpiry[c]
      ELSE IF ~a.appealGranted THEN now > a.appealPhaseExpiry
      ELSE IF a.appealChallengeID = 0 THEN now > a.appealOpenToChallengeExpiry
      ELSE now > poll[a.appealChallengeID].revealEnd
  BY <1>1, <1>2 DEF Overdue
<1>d. /\ now \in Nat /\ requestAppealExpiry[c] \in Nat /\ a.appealPhaseExpiry \in Nat
      /\ a.appealOpenToChallengeExpiry \in Nat /\ a.appealChallengeID \in Ids
  BY <1>t, <1>1, <1>2, DatesTypes, ListingTypes
<1>7. Ended(c)
  <2>1. c <= pollNonce /\ c \in Nat /\ c > 0 /\ pollNonce \in Nat
    BY <1>t, <1>1, Numbers, PollsAssumption DEF Structure, FreshIdsBlank
  <2>2. CASE a.requester = Nobody
    BY <1>6, <2>1, <2>2 DEF Ended, Exists
  <2>3. CASE a.requester # Nobody
    BY <1>t, <1>2, <2>3 DEF PageFacts, AppealsAfterVote, HasAppeal
  <2>4. QED
    BY <2>2, <2>3
<1>8. /\ (a.appealChallengeID = 0 => OwedTo(c) = 2 * ch.stake + fee)
      /\ (a.appealChallengeID # 0 => OwedTo(c) = 2 * ch.stake + 2 * fee)
  <2>1. PICK stake \in Nat : stake = ch.stake
    BY <1>3
  <2>2. challenges[c].stake = stake /\ appeals[c].appealFeePaid = fee
    BY <1>2, <1>3, <1>4, <2>1
  <2>3. /\ (appeals[c].appealChallengeID = 0 => OwedTo(c) = 2 * stake + fee)
        /\ (appeals[c].appealChallengeID # 0 => OwedTo(c) = 2 * stake + 2 * fee)
    BY <1>t, <2>2, OwedValue
  <2>4. QED
    BY <1>2, <2>1, <2>3
<1>9. CASE a.requester = Nobody
  <2>1. ChallengeCanBeResolved(l)
    BY <1>1, <1>2, <1>5, <1>6, <1>9, <1>d DEF ChallengeCanBeResolved
  <2>2. 2 * ch.stake + 0 <= OwedTo(c)
    BY <1>3, <1>4, <1>5, <1>8, <1>9
  <2>3. CanSettle(l, ch, FALSE, 0)
    BY <1>t, <1>1, <1>3, <1>7, <2>2, WithinMeans
  <2>4. QED
    BY <1>1, <1>3, <2>1, <2>3 DEF Settleable
<1>10. CASE a.requester # Nobody /\ ~a.appealGranted
  <2>1. AppealCanBeResolved(l) /\ a.appealChallengeID = 0
    BY <1>2, <1>5, <1>6, <1>10, <1>d DEF AppealCanBeResolved
  <2>2. PICK split \in Challenge :
              /\ split = [ch EXCEPT !.rewardPool = @ + fee \div 2,
                                    !.stake = @ + (fee - fee \div 2)]
              /\ split.challenger = ch.challenger /\ split.tokenClaims = ch.tokenClaims
              /\ split.rewardPool <= split.stake /\ split.stake >= ch.stake
              /\ \A h \in Nat : fee = 2 * h => 2 * split.stake = 2 * ch.stake + fee
    BY <1>3, SplitFee
  <2>3. PICK h \in Nat : fee = 2 * h
    BY <1>1, <1>2, <1>4 DEF FeesEven
  <2>4. 2 * split.stake + 0 <= OwedTo(c)
    <3>1. PICK stake \in Nat, newStake \in Nat : stake = ch.stake /\ newStake = split.stake
      BY <1>3 DEF Challenge
    <3>2. 2 * newStake = 2 * stake + fee /\ OwedTo(c) = 2 * stake + fee
      BY <1>8, <2>1, <2>2, <2>3, <3>1
    <3>3. QED
      BY <3>1, <3>2
  <2>5. CanSettle(l, split, FALSE, 0)
    BY <1>t, <1>1, <1>7, <2>2, <2>4, WithinMeans
  <2>6. QED
    BY <1>1, <1>2, <1>3, <1>4, <1>10, <2>1, <2>2, <2>5 DEF Settleable
<1>11. CASE a.appealGranted /\ a.appealChallengeID = 0
  <2>1. AppealCanBeResolved(l)
    BY <1>2, <1>5, <1>6, <1>11, <1>d DEF AppealCanBeResolved
  <2>2. 2 * ch.stake + fee <= OwedTo(c)
    BY <1>3, <1>4, <1>8, <1>11
  <2>3. CanSettle(l, ch, TRUE, fee)
    BY <1>t, <1>1, <1>3, <1>7, <2>2, WithinMeans
  <2>4. QED
    BY <1>1, <1>2, <1>3, <1>4, <1>11, <2>1, <2>3 DEF Settleable
<1>12. CASE a.appealChallengeID # 0
  <2>1. PICK ac \in Polls : ac = a.appealChallengeID /\ ac = Veto(l)
    BY <1>2, <1>12, <1>d DEF Veto
  <2>2. Ended(ac) /\ ~challenges[ac].resolved
    <3>1. ac <= pollNonce /\ ac \in Nat /\ ac > 0 /\ pollNonce \in Nat
      <4>1. appeals[c].appealChallengeID <= pollNonce
        BY <1>t DEF Structure, FreshIdsBlank
      <4>2. ac \in Nat /\ ac > 0 /\ pollNonce \in Nat
        BY <1>t, Numbers, PollsAssumption
      <4>3. QED
        BY <1>2, <2>1, <4>1, <4>2
    <3>2. now > poll[ac].revealEnd
      BY <1>5, <1>6, <1>12, <2>1
    <3>3. ~challenges[ac].resolved
      BY <1>t, <1>1, <1>2, <1>12, <2>1
      DEF PageFacts, VetoesOpen, HasChallenge, HasAppealChallenge, AppealChallengeOf
    <3>4. QED
      BY <3>1, <3>2, <3>3 DEF Ended, Exists
  <2>3. AppealChallengeCanBeResolved(l)
    BY <1>2, <1>12, <2>1, <2>2 DEF AppealChallengeCanBeResolved
  <2>4. PICK veto \in Challenge : /\ veto = challenges[ac] /\ veto.rewardPool <= veto.stake
                                  /\ veto.stake = fee
    BY <1>t, <1>1, <1>2, <1>4, <1>12, <2>1, Numbers DEF Records, VetoesStaked
  <2>5. PICK reward \in Nat : reward = Reward(veto, WinningTokens(ac)) /\ reward <= 2 * fee
    BY <1>t, <2>4, TalliesType, RewardBound
  <2>6. 2 * ch.stake + reward <= OwedTo(c)
    BY <1>3, <1>4, <1>8, <1>12, <2>5
  <2>7. Passed(ac) \in BOOLEAN
    BY DEF Passed
  <2>8. CanSettle(l, ch, ~Passed(ac), reward)
    BY <1>t, <1>1, <1>3, <1>7, <2>6, <2>7, WithinMeans
  <2>9. QED
    BY <1>1, <1>2, <1>3, <2>1, <2>2, <2>3, <2>4, <2>5, <2>8 DEF Settleable
<1>13. QED
  BY <1>5, <1>9, <1>10, <1>11, <1>12

(* Once the periods of a dispute are over, updateStatus does not revert: a    *)
(* branch of it applies, the votes it reads are counted, the appeal challenge *)
(* it closes is still open and the registry has the tokens it pays, whatever  *)
(* other listings, appeals and claims did in between.                         *)
THEOREM NoDisputeStuck ==
    ASSUME EvenFees
    PROVE  Spec => [](\A l \in Listings : Overdue(l) => Settleable(l))
<1>1. ASSUME Readable, FeesEven, Solvent
      PROVE  \A l \in Listings : Overdue(l) => Settleable(l)
  BY <1>1, OverdueSettles
<1>2. QED
  BY <1>1, AlwaysReadable, FeesStayEven, RegistrySolvent, PTL
====================================================================================
