--------------------------------- MODULE PollTally ---------------------------------
(***************************************************************************)
(* What the contracts that start polls rely on: a poll collects at most    *)
(* one vote of each voter, only in its reveal period, and its outcome is a *)
(* function of those votes.  How a vote is committed, and what it locks,   *)
(* does not show.  PLCRVoting implements this specification; CivilTCR and  *)
(* the other contracts that hold polls are built on it.                    *)
(***************************************************************************)
EXTENDS Sums

CONSTANTS
    Voters,
    Polls,      \* the poll ids, an interval from 1
    Options,    \* 1 votes for the poll's proposal, every other option against
    NoVote      \* a voter that revealed nothing

VARIABLES
    now,        \* block.timestamp
    pollNonce,  \* number of polls started
    poll,       \* poll id -> [quorum, commitEnd, revealEnd]
    votes       \* poll id -> voter -> the <<option, tokens>> revealed, or NoVote

tallyVars == <<now, pollNonce, poll, votes>>

NotStarted == [quorum |-> 0, commitEnd |-> 0, revealEnd |-> 0]

TallyInit ==
    /\ now = 1
    /\ pollNonce = 0
    /\ poll = [p \in Polls |-> NotStarted]
    /\ votes = [p \in Polls |-> [v \in Voters |-> NoVote]]

------------------------------------------------------------------------------------
Revealed(p)      == {v \in Voters : votes[p][v] # NoVote}
VotedFor(p)      == {v \in Revealed(p) : votes[p][v][1] = 1}
TokensOn(p)      == [v \in Voters |-> IF v \in Revealed(p) THEN votes[p][v][2] ELSE 0]
TokensOf(p, vs)  == SumOver(TokensOn(p), vs)
VotesFor(p)      == TokensOf(p, VotedFor(p))
VotesAgainst(p)  == TokensOf(p, Revealed(p) \ VotedFor(p))

Exists(p)        == p \in 1 .. pollNonce
Ended(p)         == Exists(p) /\ now > poll[p].revealEnd
RevealingOn(p)   == Exists(p) /\ now > poll[p].commitEnd            \* faulty Revealing
Revealing(p)     == Exists(p) /\ now > poll[p].commitEnd /\ now <= poll[p].revealEnd

(* More than quorum per cent of the tokens revealed voted for. *)
Passed(p)        == 100 * VotesFor(p) > poll[p].quorum * (VotesFor(p) + VotesAgainst(p))

WinningTokens(p) == IF Passed(p) THEN VotesFor(p) ELSE VotesAgainst(p)
LosingTokens(p)  == IF Passed(p) THEN VotesAgainst(p) ELSE VotesFor(p)

(* Only a vote for exactly option 1 or 0 can win or lose; any other option *)
(* counts against and can claim nothing.                                   *)
Winners(p)       == {v \in Revealed(p) : votes[p][v][1] = IF Passed(p) THEN 1 ELSE 0}
Losers(p)        == {v \in Revealed(p) : votes[p][v][1] = IF Passed(p) THEN 0 ELSE 1}

------------------------------------------------------------------------------------
StartPoll(quorum, commitEnd, revealEnd) ==
    /\ pollNonce + 1 \in Polls
    /\ now <= commitEnd /\ commitEnd <= revealEnd
    /\ pollNonce' = pollNonce + 1
    /\ poll' = [poll EXCEPT ![pollNonce + 1] =
                  [quorum |-> quorum, commitEnd |-> commitEnd, revealEnd |-> revealEnd]]
    /\ UNCHANGED <<now, votes>>

Reveal(v, p, option, n) ==
    /\ Revealing(p)
    /\ votes[p][v] = NoVote
    /\ votes' = [votes EXCEPT ![p][v] = <<option, n>>]
    /\ UNCHANGED <<now, pollNonce, poll>>

Pass == now' = now + 1 /\ UNCHANGED <<pollNonce, poll, votes>>

TallyNext(quorums, dates, amounts) ==
    \/ Pass
    \/ \E quorum \in quorums, commitEnd \in dates, revealEnd \in dates :
           StartPoll(quorum, commitEnd, revealEnd)
    \/ \E v \in Voters, p \in Polls, option \in Options, n \in amounts :
           Reveal(v, p, option, n)
====================================================================================
