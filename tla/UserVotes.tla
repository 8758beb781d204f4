--------------------------------- MODULE UserVotes ---------------------------------
(***************************************************************************)
(* How the dapp finds the votes of the unlocked account                     *)
(* (initializeChallengeSubscriptions).  One set of subscriptions tells which *)
(* polls exist and what they decide, another in which polls the account has *)
(* committed; neither waits for the other, so whichever event of a poll     *)
(* comes second makes the dapp read the account's vote and store it.  Later *)
(* events of the account read it once more.  All reading takes its time, but *)
(* it does not fail: a handler whose reading fails ends there, and nothing   *)
(* but a reload makes up for it.                                            *)
(***************************************************************************)
EXTENDS UsersAndPolls, Naturals, FiniteSets, Sequences

CONSTANTS
    Kind,           \* poll -> "challenge", "appealChallenge" or "proposal"
    Parent,         \* poll -> the challenge an appeal challenge belongs to
    Events,         \* bound: what may happen to a vote, of the four below
    MaxSessions     \* bound: how often another account is unlocked

VotesAssumption ==
    /\ Kind \in [Polls -> {"challenge", "appealChallenge", "proposal"}]
    /\ Parent \in [Polls -> Polls]
    /\ Events \subseteq {"commit", "reveal", "rescue", "collect"}
    /\ MaxSessions \in Nat

NoData   == [user |-> "nobody", seen |-> {}]
Sessions == 1 .. MaxSessions

VARIABLES
    started,    \* the polls there are on the chain
    vote,       \* poll -> user -> the events of the vote on the chain
    session,    \* the calls of initializeChallengeSubscriptions, one per account unlocked
    held,       \* the call whose subscriptions the next one unsubscribes, or 0
    known,      \* allChallengeIDs, allAppealChallengeIDs and allPropChallengeIDs
    userPolls,  \* allUserPollIDs
    reading,    \* the handlers that wait for the chain
    userData,   \* the store: poll -> account and what was seen of its vote
    votedOn,    \* the store: account -> the challenges it voted on
    linked      \* the store: the appeal challenges linked to their challenge

chain     == <<started, vote>>
store     == <<userData, votedOn, linked>>
votesVars == <<chain, session, held, known, userPolls, reading, store>>

VotesInit ==
    /\ started = {} /\ vote = [p \in Polls |-> [u \in Users |-> {}]]
    /\ session = <<>> /\ held = 0
    /\ known = {} /\ userPolls = {} /\ reading = {}
    /\ userData = [p \in Polls |-> NoData] /\ linked = {}
    /\ votedOn = [u \in Users |-> {}]

------------------------------------------------------------------------------------
(* The chain. *)

StartPoll(p) ==
    /\ p \notin started
    /\ Kind[p] = "appealChallenge" => Parent[p] \in started
    /\ started' = started \cup {p}
    /\ UNCHANGED <<vote, session, held, known, userPolls, reading, store>>

(* An appeal challenge begins long after the votes on the challenge were revealed. *)
VotesAreIn(p) == \E q \in started : q # p /\ Parent[q] = p

Happens(p, u, e) ==
    /\ p \in started /\ e \notin vote[p][u]
    /\ e \in {"commit", "reveal"} => ~VotesAreIn(p)
    /\ CASE e = "commit"               -> TRUE
         [] e \in {"reveal", "rescue"} -> vote[p][u] = {"commit"}
         [] e = "collect"              -> "reveal" \in vote[p][u]
    /\ vote' = [vote EXCEPT ![p][u] = @ \cup {e}]
    /\ UNCHANGED <<started, session, held, known, userPolls, reading, store>>

------------------------------------------------------------------------------------
(* initializeChallengeSubscriptions: what the module remembers is dropped, but the *)
(* subscriptions to the polls go on; the new ones begin after some calls.          *)

AccountUnlocked(u) ==
    /\ Len(session) < MaxSessions
    /\ session # <<>> => session[Len(session)].user # u
    /\ session' = Append(
           IF held = 0 THEN session ELSE [session EXCEPT ![held].ofUser = FALSE],
           [user |-> u, subscribed |-> FALSE, ofUser |-> FALSE,
            ids |-> {}, commits |-> {}, acts |-> [p \in Polls |-> {}]])
    /\ known' = {} /\ userPolls' = {}
    /\ UNCHANGED <<chain, held, reading, store>>

(* Reveals and claims are only awaited from the current block on, which is read *)
(* in the same step here.                                                      *)
Subscribed(s) ==
    /\ s \in DOMAIN session /\ ~session[s].subscribed
    /\ session' = [session EXCEPT
           ![s].subscribed = TRUE, ![s].ofUser = TRUE,
           ![s].acts = [p \in Polls |-> vote[p][session[s].user] \ {"commit"}]]
    /\ held' = s
    /\ UNCHANGED <<chain, known, userPolls, reading, store>>

(* Reading a vote; of an appeal challenge's poll also that in the challenge, but *)
(* not when the poll was just found.                                             *)
Handler(s, p, cause, polls) == [session |-> s, poll |-> p, cause |-> cause, todo |-> polls,
                                awaits |-> TRUE, seen |-> {}]
Spawn(s, p, cause, polls) == reading' = reading \cup {Handler(s, p, cause, polls)}

(* checkUserPollForChallengeType: polls of each kind are looked up. *)
FoundChallenge(p) == p \in known /\ Kind[p] = "challenge"                  \* faulty
FoundPoll(p) == p \in known

PollEvent(s, p) ==
    /\ s \in DOMAIN session /\ session[s].subscribed /\ p \in started \ session[s].ids
    /\ session' = [session EXCEPT ![s].ids = @ \cup {p}]
    /\ known' = known \cup {p}
    /\ IF p \in userPolls THEN Spawn(s, p, "id", <<p>>) ELSE UNCHANGED reading
    /\ UNCHANGED <<chain, held, userPolls, store>>

CommitEvent(s, p) ==
    /\ s \in DOMAIN session /\ session[s].ofUser
    /\ "commit" \in vote[p][session[s].user] /\ p \notin session[s].commits
    /\ session' = [session EXCEPT ![s].commits = @ \cup {p}]
    /\ userPolls' = userPolls \cup {p}
    /\ IF FoundPoll(p) THEN Spawn(s, p, "commit", <<p>>) ELSE UNCHANGED reading
    /\ UNCHANGED <<chain, held, known, store>>

(* Only the registry's claims are listened to, not the parameterizer's. *)
ActEvent(s, p, e) ==
    /\ s \in DOMAIN session /\ session[s].ofUser
    /\ e \in vote[p][session[s].user] \ ({"commit"} \cup session[s].acts[p])
    /\ e = "collect" => Kind[p] # "proposal"
    /\ session' = [session EXCEPT ![s].acts[p] = @ \cup {e}]
    /\ Spawn(s, p, e, IF Kind[p] = "appealChallenge" THEN <<Parent[p], p>> ELSE <<p>>)
    /\ UNCHANGED <<chain, held, known, userPolls, store>>

Read(h) ==
    /\ h \in reading /\ h.awaits
    /\ reading' = (reading \ {h}) \cup
           {[h EXCEPT !.awaits = FALSE, !.seen = vote[Head(h.todo)][session[h.session].user]]}
    /\ UNCHANGED <<chain, session, held, known, userPolls, store>>

(* The reducers keep what came last; another account's data gives way to it. *)
Store(h) ==
    LET p    == Head(h.todo)
        rest == Tail(h.todo)
    IN  /\ h \in reading /\ ~h.awaits
        /\ userData' = [userData EXCEPT ![p] = [user |-> session[h.session].user, seen |-> h.seen]]
        /\ votedOn' = IF Kind[p] = "challenge"
                      THEN [votedOn EXCEPT ![session[h.session].user] = @ \cup {p}] ELSE votedOn
        /\ linked' = IF Kind[p] = "appealChallenge" THEN linked \cup {p} ELSE linked
        /\ reading' = (reading \ {h}) \cup
               IF rest = <<>> THEN {} ELSE {Handler(h.session, h.poll, h.cause, rest)}
        /\ UNCHANGED <<chain, session, held, known, userPolls>>

VotesNext ==
    \/ \E p \in Polls : StartPoll(p)
    \/ \E p \in Polls, u \in Users, e \in Events : Happens(p, u, e)
    \/ \E u \in Users : AccountUnlocked(u)
    \/ \E s \in Sessions : Subscribed(s)
    \/ \E s \in Sessions, p \in Polls : PollEvent(s, p) \/ CommitEvent(s, p)
    \/ \E s \in Sessions, p \in Polls, e \in Events : ActEvent(s, p, e)
    \/ \E h \in reading : Read(h) \/ Store(h)

VotesSpec == VotesInit /\ [][VotesNext]_votesVars

------------------------------------------------------------------------------------
(* Properties. *)

(* Everything the chain has for the last account was delivered and handled. *)
Current == session[Len(session)]
CaughtUp ==
    /\ session # <<>> /\ Current.subscribed
    /\ \A h \in reading : h.session # Len(session)
    /\ Current.ids = started
    /\ \A p \in Polls : "commit" \in vote[p][Current.user] => p \in Current.commits

(* In whatever order polls, commits, reveals and claims are heard of and their  *)
(* votes are read, and whatever accounts were unlocked before, every vote of    *)
(* the account on a challenge is found in the end; what is kept of any vote, an *)
(* appeal challenge's with the link its texts need, is the account's own unless *)
(* the subscriptions of another one are still there.                            *)
VotesFound ==
    CaughtUp =>
        \A p \in Polls : "commit" \in vote[p][Current.user] =>
            /\ Kind[p] = "challenge" => p \in votedOn[Current.user]
            /\ Kind[p] = "appealChallenge" => p \in linked
            /\ Len(session) = 1 => userData[p].user = Current.user /\ "commit" \in userData[p].seen
====================================================================================
