-------------------------------- MODULE PLCRVoting --------------------------------
(***************************************************************************)
(* The commit/reveal voting contract: PLCRVoting.sol with the overrides of *)
(* CivilPLCRVoting.sol, the contract that is deployed.                     *)
(*                                                                         *)
(* Definitions marked "faulty" are what a plausible slip in the code would *)
(* make of the definition they precede; nothing uses them.  Put in its     *)
(* place, each makes a property below fail.                                *)
(*                                                                         *)
(* A transaction is one step.  The batch entry points (commitVotes,        *)
(* revealVotes, rescueTokensInMultiplePolls) run the single operation once *)
(* per element and revert as a whole, so a batch that succeeds is a run of *)
(* single steps at the same block time and adds no state.                  *)
(*                                                                         *)
(* A commit hash is keccak256(option, salt); the salt is the voter's       *)
(* secret, so a hash is modelled by the only option that can open it.      *)
(***************************************************************************)
EXTENDS Sums, DLL

CONSTANTS
    Voters,        \* the accounts that vote
    MaxPolls,      \* bound: polls ever started
    MaxTime,       \* bound: the last block time
    Options,       \* the vote options voters commit to; 1 votes for, the rest against
    Quorums,       \* the vote quorums polls are started with
    Durations,     \* the <<commit, reveal>> durations polls are started with
    Supply,        \* the tokens each voter owns at the start
    NoHash         \* the zero commit hash

ASSUME VotersAssumption   == IsFiniteSet(Voters)
ASSUME MaxPollsAssumption == MaxPolls \in Nat
ASSUME MaxTimeAssumption  == MaxTime \in Nat \ {0}
ASSUME OptionsAssumption  == Options \subseteq Nat /\ NoHash \notin Options
ASSUME QuorumsAssumption  == Quorums \subseteq Nat
ASSUME DurationsAssumption == Durations \subseteq Nat \X Nat
ASSUME SupplyAssumption   == Supply \in [Voters -> Nat]

VARIABLES
    now,               \* block.timestamp
    pollNonce,         \* number of polls started; poll ids are 1 .. pollNonce
    pollMap,           \* poll id -> Poll
    didCommit,         \* poll id -> voters whose commit is recorded
    didReveal,         \* poll id -> voters whose vote is revealed
    dllMap,            \* voter -> list of polls with locked tokens
    numTokens,         \* the store's "numTokens" attribute, per voter and poll
    commitHash,        \* the store's "commitHash" attribute, per voter and poll
    voteTokenBalance,  \* voter -> voting rights held
    balanceOf,         \* voter -> ERC20 tokens in the voter's own wallet
    held,              \* ERC20 tokens this contract holds
    unlockedList       \* the token controller's proof-of-use list

pollVars == <<pollNonce, pollMap>>
voteVars == <<didCommit, didReveal, dllMap, numTokens, commitHash>>
fundVars == <<voteTokenBalance, balanceOf, held, unlockedList>>
vars     == <<now, pollVars, voteVars, fundVars>>

Polls == 1 .. MaxPolls
Nodes == 0 .. MaxPolls
Poll  == [voteQuorum : Nat, commitEndDate : Nat, revealEndDate : Nat,
          votesFor : Nat, votesAgainst : Nat]

NoPoll == [voteQuorum |-> 0, commitEndDate |-> 0, revealEndDate |-> 0,
           votesFor |-> 0, votesAgainst |-> 0]

TypeOK ==
    /\ now \in 1 .. MaxTime
    /\ pollNonce \in Nodes
    /\ pollMap \in [Polls -> Poll]
    /\ didCommit \in [Polls -> SUBSET Voters]
    /\ didReveal \in [Polls -> SUBSET Voters]
    /\ dllMap \in [Voters -> Lists(Nodes)]
    /\ numTokens \in [Voters -> [Nodes -> Nat]]
    /\ commitHash \in [Voters -> [Nodes -> Options \cup {NoHash}]]
    /\ voteTokenBalance \in [Voters -> Nat]
    /\ balanceOf \in [Voters -> Nat]
    /\ held \in Nat
    /\ unlockedList \subseteq Voters

Init ==
    /\ now = 1
    /\ pollNonce = 0
    /\ pollMap = [p \in Polls |-> NoPoll]
    /\ didCommit = [p \in Polls |-> {}]
    /\ didReveal = [p \in Polls |-> {}]
    /\ dllMap = [v \in Voters |-> EmptyList(Nodes)]
    /\ numTokens = [v \in Voters |-> [p \in Nodes |-> 0]]
    /\ commitHash = [v \in Voters |-> [p \in Nodes |-> NoHash]]
    /\ voteTokenBalance = [v \in Voters |-> 0]
    /\ balanceOf = Supply
    /\ held = 0
    /\ unlockedList = {}

------------------------------------------------------------------------------------
(* Reading a poll. *)

IsReached(date)       == now >= date                         \* faulty IsExpired

IsExpired(date)       == now > date
PollExists(p)         == p # 0 /\ p <= pollNonce
PollEnded(p)          == PollExists(p) /\ IsExpired(pollMap[p].revealEndDate)
CommitPeriodActive(p) == PollExists(p) /\ ~IsExpired(pollMap[p].commitEndDate)

RevealWhileCommitting(p) == PollExists(p) /\ ~IsExpired(pollMap[p].revealEndDate)  \* faulty
RevealAfterEnd(p)     == PollExists(p) /\ ~CommitPeriodActive(p)                    \* faulty

RevealPeriodActive(p) == /\ PollExists(p)
                         /\ ~IsExpired(pollMap[p].revealEndDate)
                         /\ ~CommitPeriodActive(p)

(* Defined, like the code's require, only for a poll that has ended. *)
IsPassed(p) == 100 * pollMap[p].votesFor
                 > pollMap[p].voteQuorum * (pollMap[p].votesFor + pollMap[p].votesAgainst)

WinningChoice(p) == IF IsPassed(p) THEN 1 ELSE 0
LosingChoice(p)  == IF IsPassed(p) THEN 0 ELSE 1

GetTotalNumberOfTokensForWinningOption(p) ==
    IF IsPassed(p) THEN pollMap[p].votesFor ELSE pollMap[p].votesAgainst
GetTotalNumberOfTokensForLosingOption(p) ==
    IF IsPassed(p) THEN pollMap[p].votesAgainst ELSE pollMap[p].votesFor

(* The voters for whom getNumPassingTokens (getNumLosingTokens) does not *)
(* revert, whatever salt they give: those that revealed that very option. *)
Passing(p) == {v \in didReveal[p] : commitHash[v][p] = WinningChoice(p)}
Losing(p)  == {v \in didReveal[p] : commitHash[v][p] = LosingChoice(p)}

(* Reading a voter's locks. *)

GetLastNode(v)     == dllMap[v][NULL_NODE_ID].prev
FirstNodeTokens(v) == numTokens[v][dllMap[v][NULL_NODE_ID].next]   \* faulty GetLockedTokens
GetLockedTokens(v) == numTokens[v][GetLastNode(v)]
AvailableToAll(v)  == held - GetLockedTokens(v)                     \* faulty Available
Available(v)       == voteTokenBalance[v] - GetLockedTokens(v)

ValidBeforeNext(v, prev, next, n) ==                              \* faulty ValidPosition
    n <= numTokens[v][next] \/ next = NULL_NODE_ID

ValidPosition(v, prev, next, n) ==
    /\ n >= numTokens[v][prev]
    /\ n <= numTokens[v][next] \/ next = NULL_NODE_ID

(* The next node commitVote derives from the caller's prev: an update in *)
(* place skips the poll itself.                                          *)
NextFor(v, prev, p) ==
    IF dllMap[v][prev].next = p THEN dllMap[v][p].next ELSE dllMap[v][prev].next

------------------------------------------------------------------------------------
(* The operations. *)

(* requestVotingRights: the override also reports the voter to the token *)
(* controller, which puts the voter on its proof-of-use list.            *)
RequestVotingRights(v, n) ==
    /\ balanceOf[v] >= n
    /\ voteTokenBalance' = [voteTokenBalance EXCEPT ![v] = @ + n]
    /\ balanceOf' = [balanceOf EXCEPT ![v] = @ - n]
    /\ held' = held + n
    /\ unlockedList' = unlockedList \cup {v}
    /\ UNCHANGED <<now, pollVars, voteVars>>

WithdrawVotingRights(v, n) ==
    /\ voteTokenBalance[v] >= GetLockedTokens(v)       \* SafeMath.sub
    /\ Available(v) >= n
    /\ held >= n
    /\ voteTokenBalance' = [voteTokenBalance EXCEPT ![v] = @ - n]
    /\ balanceOf' = [balanceOf EXCEPT ![v] = @ + n]
    /\ held' = held - n
    /\ UNCHANGED <<now, pollVars, voteVars, unlockedList>>

RescueTokens(v, p) ==
    /\ IsExpired(pollMap[p].revealEndDate)
    /\ Contains(dllMap[v], p)
    /\ dllMap' = [dllMap EXCEPT ![v] = Remove(@, p)]
    /\ UNCHANGED <<now, pollVars, didCommit, didReveal, numTokens, commitHash, fundVars>>

(* commitVote: short of voting rights, it first requests the remainder. *)
CommitVote(v, p, hash, n, prev) ==
    LET short     == voteTokenBalance[v] < n
        remainder == IF short THEN n - voteTokenBalance[v] ELSE 0
        next      == NextFor(v, prev, p)
    IN  /\ CommitPeriodActive(p)
        /\ balanceOf[v] >= remainder
        /\ hash # NoHash
        /\ prev = NULL_NODE_ID \/ Contains(dllMap[v], prev)
        /\ ValidPosition(v, prev, next, n)
        /\ CanInsert(dllMap[v], prev, p, next)
        /\ dllMap' = [dllMap EXCEPT ![v] = Insert(@, prev, p, next)]
        /\ numTokens' = [numTokens EXCEPT ![v][p] = n]
        /\ commitHash' = [commitHash EXCEPT ![v][p] = hash]
        /\ didCommit' = [didCommit EXCEPT ![p] = @ \cup {v}]
        /\ voteTokenBalance' = [voteTokenBalance EXCEPT ![v] = @ + remainder]
        /\ balanceOf' = [balanceOf EXCEPT ![v] = @ - remainder]
        /\ held' = held + remainder
        /\ unlockedList' = IF short THEN unlockedList \cup {v} ELSE unlockedList
        /\ UNCHANGED <<now, pollVars, didReveal>>

RevealVote(v, p, option) ==
    /\ RevealPeriodActive(p)
    /\ v \in didCommit[p]
    /\ v \notin didReveal[p]
    /\ commitHash[v][p] = option
    /\ pollMap' = IF option = 1
                  THEN [pollMap EXCEPT ![p].votesFor = @ + numTokens[v][p]]
                  ELSE [pollMap EXCEPT ![p].votesAgainst = @ + numTokens[v][p]]
    /\ dllMap' = [dllMap EXCEPT ![v] = Remove(@, p)]
    /\ didReveal' = [didReveal EXCEPT ![p] = @ \cup {v}]
    /\ UNCHANGED <<now, pollNonce, didCommit, numTokens, commitHash, fundVars>>

(* startPoll is open to everyone.  Bounds: MaxPolls polls, each of which *)
(* ends before the clock of the model stops.                             *)
StartPoll(quorum, commitDuration, revealDuration) ==
    /\ pollNonce < MaxPolls
    /\ now + commitDuration + revealDuration < MaxTime
    /\ pollNonce' = pollNonce + 1
    /\ pollMap' = [pollMap EXCEPT ![pollNonce + 1] =
                     [voteQuorum    |-> quorum,
                      commitEndDate |-> now + commitDuration,
                      revealEndDate |-> now + commitDuration + revealDuration,
                      votesFor      |-> 0,
                      votesAgainst  |-> 0]]
    /\ UNCHANGED <<now, voteVars, fundVars>>

Tick ==
    /\ now < MaxTime
    /\ now' = now + 1
    /\ UNCHANGED <<pollVars, voteVars, fundVars>>

(* Amounts a voter can name: no operation accepts more than the voter owns. *)
Amounts(v) == 0 .. Supply[v]

Next ==
    \/ Tick
    \/ \E quorum \in Quorums, d \in Durations : StartPoll(quorum, d[1], d[2])
    \/ \E v \in Voters :
         \/ \E n \in Amounts(v) : RequestVotingRights(v, n) \/ WithdrawVotingRights(v, n)
         \/ \E p \in Polls : RescueTokens(v, p)
         \/ \E p \in Polls, hash \in Options, n \in Amounts(v), prev \in Nodes :
                CommitVote(v, p, hash, n, prev)
         \/ \E p \in Polls, option \in Options : RevealVote(v, p, option)

Spec == Init /\ [][Next]_vars

(* Time passes, and a voter whose tokens are stuck in a vote that can no *)
(* longer be revealed eventually calls rescueTokens.                     *)
Fairness == WF_vars(Tick) /\ \A v \in Voters, p \in Polls : WF_vars(RescueTokens(v, p))
FairSpec == Spec /\ Fairness

------------------------------------------------------------------------------------
(* getInsertPointForNumTokens: from the end of the list towards its start, *)
(* the first node with no more than n tokens; its predecessor if that node *)
(* is the poll being updated.                                              *)
InsertPointIgnoringUpdate(v, n, p) ==                             \* faulty, see below
    LET from[id \in Nodes] ==
          IF id = NULL_NODE_ID \/ numTokens[v][id] <= n THEN id ELSE from[dllMap[v][id].prev]
    IN  from[GetLastNode(v)]

GetInsertPointForNumTokens(v, n, p) ==
    LET from[id \in Nodes] ==
          IF id = NULL_NODE_ID THEN NULL_NODE_ID
          ELSE IF numTokens[v][id] > n THEN from[dllMap[v][id].prev]
          ELSE IF id = p THEN dllMap[v][id].prev
          ELSE id
    IN  from[GetLastNode(v)]

------------------------------------------------------------------------------------
(* Properties. *)

LockedPolls(v) == {p \in Polls : Contains(dllMap[v], p)}

(* The nodes that n steps along next lead to, from the sentinel. *)
Walk(d, n) ==
    LET at[i \in 0 .. n] == IF i = 0 THEN NULL_NODE_ID ELSE d[at[i - 1]].next IN at

(* The list of a voter, walked from the sentinel along next, passes exactly *)
(* once through each poll that locks tokens, in order of the tokens locked, *)
(* and prev runs the other way.  Every insert, in-place update, move,       *)
(* reveal and rescue must keep this, or getLockedTokens is not the maximum. *)
ListSorted ==
    \A v \in Voters :
        LET k  == Cardinality(LockedPolls(v))
            at == Walk(dllMap[v], k + 1)
        IN  /\ {at[i] : i \in 1 .. k} = LockedPolls(v)
            /\ at[k + 1] = NULL_NODE_ID
            /\ \A i \in 1 .. k + 1 : dllMap[v][at[i]].prev = at[i - 1]
            /\ \A i \in 1 .. k - 1 : numTokens[v][at[i]] <= numTokens[v][at[i + 1]]

(* A vote that may still be revealed, or was never rescued, holds its place *)
(* in the list, and nothing else does: no committed vote loses its lock     *)
(* before the poll ends, and no revealed vote keeps it.                     *)
LocksAreUnrevealedVotes ==
    \A v \in Voters, p \in Polls :
        /\ p \in LockedPolls(v) => v \in didCommit[p] \ didReveal[p]
        /\ v \in didCommit[p] \ didReveal[p] /\ ~PollEnded(p) => p \in LockedPolls(v)

(* Whatever the order of commits, updates, withdrawals and rescues, every *)
(* vote that can still be revealed is backed by voting rights the voter   *)
(* cannot have withdrawn.                                                 *)
LocksCovered ==
    \A v \in Voters : \A p \in LockedPolls(v) : numTokens[v][p] <= voteTokenBalance[v]

(* A client that asks getInsertPointForNumTokens where to insert a commit *)
(* is never rejected for the answer.                                      *)
InsertPointAccepted ==
    \A v \in Voters, p \in Polls : \A n \in Amounts(v) :
        LET prev == GetInsertPointForNumTokens(v, n, p)
            next == NextFor(v, prev, p)
        IN  /\ prev = NULL_NODE_ID \/ Contains(dllMap[v], prev)
            /\ ValidPosition(v, prev, next, n)
            /\ CanInsert(dllMap[v], prev, p, next)

(* Once a poll has ended its outcome, and what each of its voters can claim *)
(* for it, are settled for good.                                            *)
OutcomeFinal ==
    [][\A p \in Polls : PollEnded(p) =>
          /\ pollMap'[p] = pollMap[p]
          /\ didReveal'[p] = didReveal[p]
          /\ \A v \in didReveal[p] : /\ numTokens'[v][p] = numTokens[v][p]
                                     /\ commitHash'[v][p] = commitHash[v][p]]_vars

(* No token stays locked for ever: in the end every voter can withdraw all *)
(* the voting rights that are left.                                        *)
EventuallyWithdrawable ==
    \A v \in Voters : <>[](Available(v) = voteTokenBalance[v])

(* The sorted lists implement locks that are plain sets. *)
Locks == INSTANCE VoteLocks WITH
    wallet <- balanceOf,
    rights <- voteTokenBalance,
    locks  <- [v \in Voters |-> {<<p, numTokens[v][p]>> : p \in LockedPolls(v)}]

ImplementsVoteLocks == Locks!LocksSpec

(* Commits and reveals implement polls that collect one vote per voter. *)
Tally == INSTANCE PollTally WITH
    NoVote <- <<>>,
    poll   <- [p \in Polls |-> [quorum    |-> pollMap[p].voteQuorum,
                                commitEnd |-> pollMap[p].commitEndDate,
                                revealEnd |-> pollMap[p].revealEndDate]],
    votes  <- [p \in Polls |-> [v \in Voters |->
                 IF v \in didReveal[p] THEN <<commitHash[v][p], numTokens[v][p]>> ELSE <<>>]]

ImplementsPollTally ==
    /\ Tally!TallyInit
    /\ [][Tally!TallyNext(Quorums, 0 .. MaxTime, UNION {Amounts(v) : v \in Voters})]_(Tally!tallyVars)

(* The running totals that each reveal adds to always agree with the votes   *)
(* of the revealed voters, each counted once with the tokens and the option  *)
(* the store attributes to it now: claims, which read the store, can never   *)
(* disagree with the totals they are a share of.                             *)
TotalsMatchVotes ==
    \A p \in Polls : /\ pollMap[p].votesFor = Tally!VotesFor(p)
                     /\ pollMap[p].votesAgainst = Tally!VotesAgainst(p)

(* PLCRVoting.sol:311 promises the "total number of votes committed to the *)
(* winning option": the tokens that can be claimed against it add up to it. *)
WinningTokensClaimable ==
    \A p \in Polls : PollEnded(p) =>
        GetTotalNumberOfTokensForWinningOption(p)
            = SumOver([v \in Voters |-> numTokens[v][p]], Passing(p))
====================================================================================
