# Civil: specifications and proofs

TLA+ specifications of the Civil smart contracts
(`packages/contracts/contracts`) and of the parts of the client that have a
protocol of their own (`packages/core`, `packages/dapp`, `packages/components`),
the TLC configurations that check them on small instances, and TLAPS proofs of
what holds for every instance.

Contents: 1 the system, 2 the modules, 3 how the models abstract the code,
4 the runs, 5 fairness, 6 the proofs, 7 findings, 8 what is not modelled,
9 observations, 10 running it.

## 1. The system

Newsrooms apply to a registry with a deposit. Anyone may challenge a listing by
matching the stake; token holders vote by commit and reveal; the loser's stake
goes to the winner and to the voters of the winning side. A losing party may
appeal to an appellate; a granted appeal reverses the vote unless a second vote
with a supermajority overturns it. Readers and voters use a web application that
follows the contracts' events and sends transactions through a wallet.

| Part | State | Operations | Talks to |
|---|---|---|---|
| PLCR voting (`installed_contracts/PLCRVoting.sol`, `DLL.sol`, `tcr/CivilPLCRVoting.sol`) | polls, per-voter sorted list of locked votes, store of hashes and amounts, voting rights | request/withdraw rights, start poll, commit, reveal, rescue | token (transfers, proof of use); read by registry, parameterizer, government |
| Registry (`tcr/AddressRegistry.sol`, `CivilTCR.sol`, `RestrictedAddressRegistry.sol`) | listings, challenges with claims, appeals, expiries | apply, deposit, withdraw, exit, challenge, appeal, grant, challenge the appeal, updateStatus, claim | voting, token, parameterizer and government (values), newsroom (owner) |
| Parameterizer (`installed_contracts/Parameterizer.sol`, `tcr/CivilParameterizer.sol`) | parameters, proposals, challenges | propose, challenge, process, claim | voting, token |
| Government (`tcr/Government.sol`) | parameters, constitution, appellate, proposals | propose, process, set constitution, set appellate | voting |
| Multisig wallet (`multisig/`) | owners, requirement, transactions, confirmations | submit, confirm, revoke, execute, change owners | any contract, which may call back |
| Newsroom (`newsroom/`, `ux/`) | owner, roles, contents, revisions, signatures | publish, update, sign, roles | registry reads its owner |
| Token and controller (`token/`) | balances, lists, managers | transfer, list changes, proof of use | voting reports proof of use |
| Client library (`core`) | none of its own: a snapshot of contract state | derive phase, offers, timers and rewards | contracts, through a node |
| Dapp state (`dapp/src/redux`, `dapp/src/helpers`) | store fed by event subscriptions, salts and options in the browser's storage | subscribe, read, merge, save | client library, pages |
| User interface (`dapp/src/components`, `components`, `newsroom-manager`) | button, modals, forms | send a page's transactions, tell the user what came of them | wallet, dapp state |

Ethereum access and utilities (`ethapi`, `utils`), migrations and tools, and
vendored code are listed in PROJECT.json with the reason they are left out.

Every contract call is atomic, so the concurrency on the chain is that of
transactions: anyone may call anything between two steps of a dispute, in any
order, and time moves in between. (The exception is the wallet, whose calls may
call back before they return.) The client is concurrent in the usual way of
browsers: subscriptions, reads, wallet answers and clicks interleave. What is
hard to test is

- **voting**: `withdrawVotingRights` looks at one node of a list that callers
  help to build (`commitVote` takes the insert point from the caller) and that
  reveals and rescues cut; totals are added up at one time and claimed against
  at another;
- **the registry**: a dispute is spread over a listing, a challenge, an appeal, a
  second challenge, two polls and six deadlines, and each resolution reads flags
  that earlier steps set; parameters and government change meanwhile; every path
  must pay out what came in;
- **parameterizer and government**: a proposal can be challenged, processed or
  left to expire late, and the same proposal (its id is a hash of name and
  value) can be made again after it was decided;
- **the wallet**: confirmations are kept by address while owners come and go, and
  a call marks its transaction executed before it knows whether it succeeds;
- **the newsroom**: content, author and signature arrive in separate calls;
- **the token**: voting rights unlock their holder, so the controller's rules and
  the voting contract's are one rule in two places;
- **the client**: it recomputes the contracts' phases with other code, other
  comparisons and another clock; finds a user's votes by joining event streams
  that do not wait for each other; keeps the only copy of what opens a vote in
  the browser, and commits that vote in steps that each ask anew who the user is,
  while the account may change; and retries lists of transactions of which some
  went through;
- **liveness**: a stake is only released by `updateStatus` or `processProposal`,
  in states where one of its branches applies.

What makes each part correct:

- voting: no vote that counts is unbacked; locks are exactly the unrevealed
  votes; the list answers "largest lock" by its last node; totals equal the
  votes; outcomes are final; tokens are never stuck;
- registry: it holds exactly what it owes; claims add up to the pool; no
  challenge is orphaned; phases exclude each other; nobody's time is cut short;
  the last word decides; who may claim is settled; disputes end;
- parameterizer and government: deposits and stakes add up; a parameter changes
  only to a proposed value, in time, by the vote taken on it; percentages stay
  within 100, which the registry's arithmetic relies on; proposals are decided;
- wallet: the owners list and the owner flags agree; the owners who can sign are
  enough for the requirement, or one short if address 0 was made an owner; a call is backed by enough present owners and carried out once;
- newsroom: a signature shown is the author's, on that text, in one place; what
  was published stays;
- token: supply and voting rights add up; outsiders are served by unlocked
  accounts only;
- client: what a page offers is what the contracts accept; a page is refreshed
  whenever time changes what it offers; votes are found and can be opened; users
  are told the truth about their transactions.

## 2. The modules

| Module | What it is |
|---|---|
| `DLL` | the linked-list library, as operators on functions from node ids to links |
| `PLCRVoting` | the voting contract: one action per operation |
| `VoteLocks` | abstract: a voter's locks are a plain set, and a withdrawal must respect the largest. `PLCRVoting` implements it |
| `PollTally` | abstract: a poll collects one vote per voter while it is in its reveal period. `PLCRVoting` implements it; `CivilTCR`, `Parameterizer` and `Government` are built on it |
| `CivilTCR` | the registry: one action per operation |
| `ListingLifecycle` | abstract: how a listing is listed, disputed and decided. `CivilTCR` implements it |
| `Parameterizer` | the parameterizer: one action per operation |
| `Government` | the government: one action per operation |
| `SettingsLifecycle` | abstract: settings change only by pending proposals, each settled once. `Government` implements it |
| `MultiSigWallet` | the wallet, with a stack of calls in progress |
| `Newsroom` | newsroom, ownership and the editors' role |
| `CVLToken` | the token, its controller with lists and managers, and the voting rights |
| `ListingView` | on top of `CivilTCR`: what client library and listing page read from a listing's state |
| `TransactionFlow`, `DappPages` | a page that sends transactions: button, modals, wallet answers; and the table of the dapp's pages |
| `VoteSecrets` | salts, options and phrases between commit and reveal, in one or several browsers; a commit is a run of steps, and the accounts of wallet and store change between any two of them |
| `UserVotes` | the subscriptions by which the dapp finds the votes of the unlocked account |
| `Chain`, `UsersAndPolls`, `Sums` | address 0; by what the dapp keeps votes; sums over finite sets |
| `MCPLCRVoting`, `MCCivilTCR`, `MCParameterizer` | the values the configurations give to constants |
| `MCContracts`, `MCDapp` | the four contracts, and the client's parts, that share no state, one of which runs in each behaviour, within bounds of its own |
| `Sums_proofs`, `PLCRVoting_proofs`, `CivilTCR_proofs`, `Parameterizer_proofs`, `MultiSigWallet_proofs`, `Contracts_proofs` (government, newsroom and token), `ListingView_proofs`, `Dapp_proofs` (transactions, secrets and votes) | theorems |

`PollTally` is the joint between the systems: that `PLCRVoting` implements it
(checked and proved) justifies building registry, parameterizer and government
on its four actions instead of on lists and hashes. `Government`'s bound on
percentages (checked and proved) discharges the assumption `CivilTCR` makes of
the values it reads. `ListingView` composes client and contracts: its properties
compare what the page offers with what `CivilTCR` accepts in the next block.

`map` in PROJECT.json gives the source lines of every definition. Variables and
operators carry the code's names where TLA+ allows; `require`s are conjuncts,
and a function that calls others is one action that includes all of them
(`UpdateStatus` with its branches, `Settle` for the two resolutions,
`ResetListing` and `Whitelist` inside the actions that call them).

Definitions marked *faulty* are plausible slips in the definition that follows
them. Nothing uses them; each shows, put in place of the real one, that a
property is able to fail (`mutants` in PROJECT.json).

## 3. How the models abstract the code

- **Transactions** are steps; a revert is a step that is not enabled. A batch
  (`commitVotes`, `updateStatuses`, ...) that succeeds is a run of single steps
  at one block time, so batches add no states.
- **Time** is one counter that advances between transactions. All deadlines are
  absolute, as in the code, with the code's strict and non-strict comparisons.
- **Commit hashes** hide the option; the salt is the voter's secret, so a hash is
  represented by the only option that can open it. `NoHash` is the zero hash.
  In `VoteSecrets`, which is about salts, a salt is a number drawn fresh.
- **Proposal ids**, hashes of name and value, are the pair itself.
- **Signatures** are what verifying them yields, signer and signed hash.
- **ERC20** transfers move tokens and revert when the payer has too few. The
  contract's ability to pay is a guard of the paying step, so a shortage would
  show both as a violation of `Solvent` and as a stuck dispute.
- **Parameterizer and government** are environments in `CivilTCR`: their values
  may be replaced between any two steps by any member of `ParamSets` and
  `Governments`. Both sets are assumed to respect what the proposal functions
  enforce, percentages of at most 100.
- **The contract at a listing's address** has a fixed owner (`ContractOwner`);
  `apply` is open to that owner only, as in `RestrictedAddressRegistry`.
- **Votes in `CivilTCR`, `Parameterizer`, `Government`**: each voter reveals a fixed
  number of tokens (`TokensVoted`) once per poll. Amounts vary in `PLCRVoting`.
- **Calls of the wallet** to itself change owners and requirement; to other
  contracts they may succeed, fail, or call the wallet back, to a bounded depth.
  A failing call restores the state saved when it began.
- **Integers** are unbounded, since all sums are of tokens that exist, far below
  2^256, except dates: `startPoll`'s and the parameterizer's checks against
  overflow are guards, the latter with `MaxUint` in place of 2^256 - 1.
- **The wallet extension and the node** are whoever answers: a transaction is
  refused, sent, mined, reverted, or lost, at any time and in any order with
  clicks; subscriptions deliver events of different streams in any order, and
  every read takes its time.
- **The account** exists twice, as in the dapp: the wallet's, from which
  transactions are sent, and the store's, by which pages go and which follows the
  wallet's after some reading, in any order if it changes again, or not at all if
  the reading fails (`SwitchAccount`, `LookedUp`).
- **A commit** is split where the code awaits: the click, after which an approval
  may have to be mined (`StartCommit`); the save of option and salt under the
  account that the store has then (`SaveVote`); the transaction, sent from the
  account the wallet has then (`SendCommit`); the receipt or a failure. Any step
  may fail, and a run goes on when its page is left.
- **The client's clock** runs in milliseconds: within second `now`, a date equal to
  `now` has passed for the client, while the chain still compares seconds.
- Left out: event emission, getters that no operation uses, URLs, names, ether and
  call data, wording and layout, constructor checks.

Bounds, all named in the guards: `MaxTime` (the clock stops), `MaxPolls` / the
set `Polls` (no further poll can start), `LastStart` (no application, challenge or
proposal starts so late that the clock stops before it can end), `Funds` and
`Amounts`, `PropIds`, the wallet's transactions and call depth, the newsroom's
contents and revisions, the client's salts, saves, commits under way, runs and
sessions, and in `MCDapp` how often the account changes. Because the
clock stops, a behaviour may end: the configurations say `CHECK_DEADLOCK FALSE`.
That nobody is stuck is the liveness properties' claim.

## 4. The runs

| Run | Instance | What it shows |
|---|---|---|
| `plcr` | two voters with 1 and 2 tokens, options 0, 1, 2, two quorums, two pairs of durations and one poll; or one voter with 2 tokens and three overlapping polls, alike; 5 units of time, `MCFairSpec` | `TypeOK`, `ListSorted`, `LocksAreUnrevealedVotes`, `LocksCovered`, `InsertPointAccepted`, `TotalsMatchVotes`, `OutcomeFinal`; lists implement `VoteLocks` and votes `PollTally`; `EventuallyWithdrawable` |
| `plcr_unclaimable` | one poll, as in `plcr` | expected violation, section 7 |
| `tcr_appeals` | one listing, two users who both vote (weights 1 and 2) and play every role, one challenge and one appeal challenge, two governments with fees 2 and 4 and different terms, 11 units of time | `TypeOK`, `Solvent`, `ClaimsCovered`, `NoOrphanedChallenge`, `OnePhase`, `NobodyCutShort`, `VerdictHonoured`, `EntitlementFinal`; implements `ListingLifecycle`; the client's `OffersFollowRules` and `TimerCoversChange` in every one of these states |
| `tcr_listings` | two listings, two challenges, two parameter sets (other deposit, other share), no appeals, 5 units of time | `Solvent` across touch-and-remove, exits and second challenges, where the tokens of several listings lie together |
| `tcr_liveness` | one listing, one voter, whole dispute, 13 units of time, `FairSpec` | `DisputesEnd`, `ApplicationsDecided` |
| `tcr_odd_fee` | appeal fee 1 | expected violation, section 7 |
| `tcr_verdict` | one dispute, client's reading | expected violation, section 7 |
| `param_proposals` | proposals to raise `pMinDeposit` and to set `pApplyStageLen` beyond the largest date, two polls, 7 units of time, `FairSpec` | `FundsCovered`, `ProposalsSound`, `EnactedByRule`, `ProposalsDecided` |
| `contracts` | in turn: the wallet (two of three possible owners, one of them a contract, and address 0 in a replacement; three transactions; calls two deep), the newsroom (three contents, two revisions, right, foreign and made-up signatures), the government (four proposals, two polls, 7 units of time), the token (supply 2, three users, changing lists, managers and controller) | `WalletSound`, `BackedByOwners`; `ContentsSound`, `ContentsKept`; `ProposalsSound`, `ChangedByVote`, implements `SettingsLifecycle`; `TokensAddUp`, `OutsidersReceiveFromUnlocked` |
| `dapp` | in turn: every page that sends transactions; a vote's secrets, for a challenge with two accounts, up to two commits under way and three changes of account, and for a challenge with its appeal challenge under one account; a user's votes, for a challenge with its appeal challenge and for one poll under two accounts | `FlowSound`; `VotesRevealable`; `VotesFound` |
| `phrase` | as `dapp` | expected violation, section 7 |
| `switched_account` | as `dapp` | expected violation, section 7 |

Why the bounds are enough to be interesting:

- A list over three polls with amounts 0 to 2 has ties, updates in place, moves in
  both directions and removals at either end and in the middle (`OnlyBob`); the proofs of
  section 6 cover any length.
- Two voters of different weight can tie with nobody, win alone or together; with
  options 0, 1 and 2 every way a vote can be counted occurs. Durations `<<0, 2>>`
  make the commit period one instant.
- Two poll ids are one challenge and its appeal challenge, the longest chain the
  code allows; `MaxTime` leaves room for all phases at their longest. The appeal
  window is open at both ends, so `requestAppealLen` must be 2 for an appeal to
  be possible; `tcr_listings` sets it to 0 to switch appeals off and so spends
  its two poll ids on two challenges.
- Stakes of 2 with half for voters and weights 1 and 2 make claims round. Appeal
  fees are even: with odd fees `Solvent` is false (section 7). The second
  government, with a larger fee and longer term, may take over at any time.
- The parameterizer's proposals change the parameters that govern proposals, so a
  later one runs under another deposit than an earlier one; two polls allow a
  proposal to be challenged, decided, made and challenged again, or two proposals
  to be contested at a time. A value of 100 with a largest date of 50 makes
  enacted dates impossible, which processing must survive.
- The wallet's three transactions are enough for an owner to be removed, added
  back and its old confirmation to count again, and for a call that confirms,
  retries or submits another while it runs.
- The newsroom's three contents are the charter and two others, so a hash can be
  published in several contents and revisions and signed for any of them.
- In `contracts` and `dapp` the parts share no state, so running one per behaviour
  loses nothing. `MCDapp` bounds each part by what may vary together: two accounts
  on one poll, or one account on a challenge and its appeal challenge
  (`OnFirstPoll`, `OnlyAnnVotes` and the like); the proofs of section 6 cover both
  at once, and any numbers.
- `LastStart` leaves out disputes started late only because the clock of the model
  stops; every dispute that starts can run to its end.

No symmetry is used: the users differ in weight and role.

The client's properties say what is true of the code, with their exceptions
spelled out: `Truthful` is asked of every page in an undisturbed run, and under
retries and failures only of those pages whose tables allow it (`RetrySafe`; the
others are section 9's); `RevealPageReady` is about votes sent from the account they
were saved for (`SavedForSender`), and excepts an option saved for a later commit
that did not get through; `PhraseOpens` is about phrases that were shown to the
account that voted; what happens to the others `switched_account` shows.
`RequirementMet` excepts the place of address 0. `VotesFound` is asked once everything was
delivered and handled.

## 5. Fairness

`Spec` of each module assumes none; all safety properties hold under it.
`FairSpec` (in `MCPLCRVoting`, with its bounds, `MCFairSpec`) adds

- `WF(Tick)`: time passes;
- voting: `WF(RescueTokens(v, p))`: a voter whose tokens are stuck in a vote that
  can no longer be revealed eventually calls `rescueTokens`. The code never
  blocks this call once it is possible, and the voter wants the tokens back;
- registry: `WF(UpdateStatus(l))`: somebody eventually calls `updateStatus` when it
  would not revert. The function is open to everyone and both sides of a dispute
  gain from it. Nobody is assumed to vote, appeal, grant or claim;
- parameterizer: `WF(ProcessProposal(id))`, for the same reasons.

Nothing else would be justified: every other step is somebody's free choice. The
government's proposals, the wallet's transactions and the client's answers may
wait for ever, and nothing is claimed of them in the end.

## 6. The proofs

`tlapm` checks every module ending in `_proofs`. The assumptions are the named
`ASSUME`s of `PLCRVoting`, `CivilTCR` and `Parameterizer`: finitely many voters,
listings, polls and proposals, natural numbers for amounts and durations,
percentages of at most 100, `Nobody` not a user. `WalletAssumption`,
`NewsroomAssumption`, `GovernmentAssumption`, `TokenAssumption`,
`SecretsAssumption`, `VotesAssumption` and `FlowAssumption` say the like as
hypotheses of the theorems, because those modules are checked together. TLC
evaluates all of them.

**PLCRVoting_proofs.**

- A list is `Linked` by a rank: a number per node that grows along `next`, with
  the sentinel at both ends. Removal keeps the ranks; insertion finds a rank
  between the neighbours'. So the last node has the highest rank, and when
  weights grow with rank, the largest weight (`LastIsHeaviest`).
- `VotingInv` is inductive: types, every list well formed, locked polls are
  exactly the committed unrevealed votes (up to rescued ones of polls that
  ended), poll dates in order, and every lock covered by rights. Each part needs
  the others: a withdrawal compares with the last node only, so coverage needs
  the order of the list; a commit that updates a vote must find the poll in the
  list, which needs locks to be unrevealed votes; and that needs the commit
  period to end before the reveal period does.
- `LocksAlwaysCovered`, `UnrevealedVotesLocked`, `OutcomesAreFinal` follow.
- `ListsSorted` (`ListSorted`) and `InsertPointsAccepted` (`InsertPointAccepted`)
  say what a walk along the list and the backward search of
  `getInsertPointForNumTokens` find. Both are functions defined by recursion:
  that they exist, and what they return, is shown without induction by a first
  step or a node of least rank at which it would fail (`SmallestNumber`,
  `LeastRanked`). The walk is after i steps at the node with i nodes of no higher
  rank; the search ends above nothing that weighs more, the moved node apart
  (`Place`), which is all that `commitVote` asks (`PlaceFits`).
- `ListsImplementLocks` and `VotesImplementTally`: the two refinements.
- `TotalsAreVotes`: the running totals are the sums of the stored votes.
  `Sums_proofs` proves what this needs (`SumChange`: changing one summand changes
  the sum by the difference). A sum is a fold, defined by recursion, of which
  nothing is known without induction; the proofs take a smallest subset for
  which a claim fails (well-foundedness of strict inclusion on finite sets) and
  contradict it.

**CivilTCR_proofs.**

- `RegistryTypeCorrect`. Types are not inductive alone: a reward is
  `2 * stake - rewardPool`, a natural number because no pool exceeds its stake
  (`PoolsWithinStakes`), which in turn needs percentages of at most 100 and, when
  half an appeal fee is added to each, that the half rounded down goes to the pool.
- `Structure` is the inductive invariant about disputes: ids are handed out in
  order and entries of later ids are blank; an appeal is requested, then granted,
  then challenged; the challenge a listing points to is open, its own, and not an
  appeal's challenge; every open challenge is reached from a listing; resolved
  challenges' polls have ended. It makes `Unchallenged` the same as "no id", so
  all operations but four leave disputes alone (`SameDisputes`); the four
  (challenge, appeal steps, appeal challenge, and the resolutions summed up in
  `Concludes`) have a lemma each.
- From it: `ChallengesReachable` (`NoOrphanedChallenge`), `OneBranchDue`
  (`OnePhase`), `TimeIsGiven` (`NobodyCutShort`), `EntitlementSettled`
  (`EntitlementFinal`) and `RefinesLifecycle` (`ImplementsLifecycle`).
- `Records` adds what money and verdicts read: a listing that is not there is
  blank, a fee is there when an appeal was requested, an appeal challenge has a
  stake and its veto means overturned, nothing is claimed before a resolution,
  every started challenge has a challenger.
- `RegistrySolvent` (`Solvent`), by the sums: each step changes one summand of
  deposits, stakes, fees or pools and the tokens held by the same amount. It
  assumes `EvenFees`, that every government's appeal fee is even, and carries
  `FeesEven` for the fees in the books; `tcr_odd_fee` shows that without it the
  theorem is false.
- `ClaimsBacked` (`ClaimsCovered`): what is left to claim against is the sum of
  the tokens of the entitled voters that did not claim. It assumes
  `OnlyForAgainst`, that votes are for options 0 and 1; `plcr_unclaimable` shows
  why.
- `LastWordDecides` (`VerdictHonoured`) needs neither: whoever spoke last in a
  dispute (voters, appellate, voters on the appeal) decides about the listing.

**Parameterizer_proofs.** `ParameterizerInv` is inductive: `ProposalsSound`;
`Records` (ids that are idle hold nothing, contested proposals' challenges were
started, later ids are blank, what is resolved has ended, no early claims,
percentages and pools bounded); what is left to claim against covers the winners
that did not claim (`AllBacked`); and `Money`, the equation of `FundsCovered`. A
challenge of a proposal that expired before its poll ended
is never resolved: the sum counts those stakes as `Stranded`, and the invariant
must tell them from those of resolved challenges. `FundsAreCovered` assumes
`OnlyForAgainst` for the claims; `ProposalsAreSound` and `ParametersFollowRule`
assume nothing more.

**Contracts_proofs, the government.** `GovernmentInv`: types with percentages bounded, each
pending proposal with a poll of its own and a date that follows from it, none
pending without a poll, pending values within range. From it
`ProposalsAreSound`, `ParametersFollowVotes` (`ChangedByVote`) and the refinement
`GovernmentKeepsSettings`.

**MultiSigWallet_proofs.** `WalletInv` says that the wallet is sound now *and in
every state saved by a call in progress*, since a failing call brings that state
back; and that between a saved state and the next one the books agree on what
was carried out. The code compares the requirement with the length of the list
of owners; `OwnersCounted` turns that into a statement about who can sign: places
and flagged owners correspond one to one, so the signers are as many as the
places, or one fewer if address 0, which `replaceOwner` accepts, has one.
`WalletStaysSound` and `OwnersBackCalls` hold for any addresses, calls, depth of
calls and number of transactions.

**Contracts_proofs, the newsroom.** `NewsroomInv`: types, the charter is there from the start, and
every signature shown is by the content's author on this revision's hash, and
noted under that hash with this content (`AllBacked`). `OneContentPerHash` needs
this ledger, which the contract keeps as `usedSignatures`: it gives each hash one
content. `SignaturesHold`,
`PublishedStays`.

**Contracts_proofs, the token.** `TokenInv`: types, `SupplyConserved`, `RightsBacked`. Steps
either move tokens or administer (`TokenSteps`); a transfer to oneself is a case
of its own for the sums. `TokensAlwaysAddUp`, `OutsidersServedByUnlocked`.

**ListingView_proofs.** The page reads challenge, appeal and appeal challenge
separately and infers from them what the contracts know as one state, so its
theorems need facts that relate them, which the registry's own invariants do not
contain. `Readable` adds them to `Typed`, `Structure` and `Records`:

- `PollDates` and `AppealsAfterVote`: otherwise a card for the appeal could stand
  beside the one for the vote;
- `VetoesApart` and `VetoesOpen`: two appeals never share the challenge against
  them, which is resolved no sooner than the challenge the appeal is about; so
  the page may take an unresolved listing's appeal challenge for a pending one;
- `VerdictsKept`: of a resolved challenge the books still say whether the vote
  on the appeal overturned the decision, by which the page tells winners.

`PageFollowsRules` (`OffersFollowRules`) follows by comparing each offer with the
guard of the action it leads to, at the time of the offer and one second later
(`OffersStand`). It assumes `OnlyForAgainst`: the client counts a voter who chose
neither 0 nor 1 among the losers, while the contract can pay neither side's share
to such a vote. `NoSilentChange` (`TimerCoversChange`) needs no assumption.

`NoDisputeStuck` is what `DisputesEnd` rests on besides fairness. `Overdue` says
that the periods a dispute's stage waits for are over, `Settleable` collects what
the branches of `updateStatus` require, through `CanSettle`, the guard that
`Settle` itself uses; it stands for `ENABLED UpdateStatus(l)`, which the prover
cannot treat. The poll is over because appeals come after the vote
(`AppealsAfterVote`), the appeal challenge can be closed because of `VetoesOpen`,
and the tokens are there because the registry is solvent and a reward is never
more than both stakes (`DisputeFunded`, `RewardBound`, `WithinMeans`). Like
`RegistrySolvent` it assumes `EvenFees`: half of an odd fee, rounded up, is paid
out twice.

**Dapp_proofs, the secrets.** `SecretsInv`: types; every commit that is under way
and has been saved (`CommitsAgree`), and every one that counts (`CommittedAgree`),
agrees with what its browser keeps under the account it was saved for (`Agrees`:
same salt, same option unless a later save replaced it, and a phrase that was
shown to that account is that account's salt for the poll the page shows); a run
that has not saved yet has at most a phrase (`NotYetSaved`); and what open pages
show agrees with the storage (`PagesAgree`). All of it is by account, so the steps
that change accounts disturb it only through the pages they rebuild. The reveal
page's part of `VotesRevealable` needs the pages; they need that a salt, once kept
for a poll and an account, is never replaced as long as the storage is kept
(`SaltsStay`), so the commit that counts and the one under way share it however
late either arrives. The option is weaker: it agrees only with the latest
save. `VotesStayRevealable` keeps the condition that the sender is the account
the vote was saved for, which the code does not ensure: `switched_account` is a
behaviour in which a reviewed phrase opens no vote.

**Dapp_proofs, the search for votes.** `VotesInv`: types; whatever happened to a
vote began with its commit, in a poll that was started (`VotesBegin`); the module
remembers at least what the last account's subscriptions delivered
(`Remembered`); and a poll of which both events came is stored or about to be
(`NoneMissed`), because the second event starts a handler. For the content of
what is stored a handler must not have read before the commit. It cannot have as
long as there is one account: every poll it reads is decided (`ReadInTime`),
committed in, or one whose appeal challenge began, after which nobody commits.
With several accounts old subscriptions may overwrite the data (section 9), and
`VotesFound` asks only for the account's own list and for the link.
`VotesAreFound`.

**Dapp_proofs, the transactions.** `FlowInv`: the modals are `Tidy` (places are
distinct, the waiting and the progress modal are on top when open, one failure at
a time); while a run is under way its modal is open, so the page's button is
covered, and the button of a rejection modal below an upload is disabled
(`RunShown`), which makes a second run impossible; and for pages that are calm
(`RetrySafe`, or a run nothing disturbed) how the modals and the last result go
together during a run and after it (`CalmRun`, `CalmEnd`). `PagesAreTruthful`
holds for every page whose table is `WellMade`: its steps shut what earlier ones
may have shown, uploads end on a page that is left, the last step sends
something, and somebody shows success. That is part of `FlowAssumption`, which
TLC evaluates for all tables of `DappPages`.

**Only model-checked**: the liveness properties (`EventuallyWithdrawable`,
`DisputesEnd`, `ApplicationsDecided`, `ProposalsDecided`), since liveness under
fairness is outside the prover's reach, and the runs that find a violation.
Of `DisputesEnd` the safety half is proved, as `NoDisputeStuck`.

## 7. Findings

- `plcr_unclaimable`: `revealVote` counts any option but 1 as a vote against, but only
  option 0 can claim; the total for the winning option then exceeds what can be
  claimed, against the comment on `getTotalNumberOfTokensForWinningOption`.
- `tcr_odd_fee`: the halves of an odd appeal fee are rounded apart and one of them is
  doubled by the reward formula; the parties receive one unit more than went in,
  against the comment on `resolveAppeal`. `Solvent` therefore holds for even fees
  only; the deployment's fee is a round number of tokens.
- `tcr_verdict`: `didChallengeSucceed` reads the poll of an appeal challenge like
  that of a challenge, although it means the opposite there: after a granted
  appeal was challenged, the client announces the opposite of what the registry
  decided, against the function's own comment.
- `phrase`: the page for votes on an appeal challenge shows the phrase of the
  challenge below it, but commits with the salt of the appeal challenge; the
  page's own text says that phrase will be needed to confirm the vote.
- `switched_account`: after the click the commit waits for the approval and then
  takes the account anew, without looking at the phrase that was reviewed. If
  another account was unlocked meanwhile, that account commits with a salt of its
  own, and the phrase that was to be kept, because "you will need it to confirm
  your vote", opens nothing.

## 8. Not modelled

- **Client library**: the typed wrappers around contracts, which encode calls and
  decode events one to one, and the generated artifacts. Their sequence of reads
  is a snapshot in `ListingView`.
- **Dapp state**: reducers and action creators that set what arrived (newsrooms,
  contents, histories, flags), and the analogous view of parameter proposals,
  whose few differences from the contract are in section 9.
- **User interface**: presentation. Of `components`, `newsroom-manager`,
  `civil-sdk` and the dapp's pages, the files with a protocol are the
  transaction button, the modals around it and the pages that use them;
  the rest renders properties. This is the largest part of the repository by
  lines, so the mapped share of the TypeScript is small (about a twentieth)
  while that of the Solidity, 1600 lines, is nearly all of it.
- **Transactions**: in `TransactionFlow` what the button defers by `setImmediate`
  happens in the step that defers it. `requireBeforeTransaction`, which only the
  newsroom manager's `NameAndAddress` and `SignConstitution` use and wait for
  before the button is disabled, is left out with these two pages, so is a
  `postTransaction` that throws and a page that changes `disabled` during a run.
- **Votes**: in `UserVotes` reads take their time but do not fail, and the block
  from which reveals and claims are listened to is read when the subscriptions
  begin.
- **Ethereum API and utilities**: I/O, formatting and cryptography.
- **Test contracts, migrations, tools, vendored and generated code**: nothing that
  takes part in the deployed system's behaviour, or modelled by their effect
  (token transfers, signature recovery, ownership).
- **Within the modelled contracts**: allowances (a transfer by a spender is one of
  the holder), ether, roles other than editor, URIs and names, which no operation
  reads.

## 9. Observations

Met while modelling, true of the code, and not findings since nothing in the
repository says otherwise or no run isolates them.

Contracts:

- A value that barely fits below 2^256 (`Parameterizer.sol:227`-231 checks dates only
  when a proposal is processed) would make every later proposal revert;
  `ProposalsDecided` is checked with values that fit or clearly do not.
- A proposal challenged late expires before its poll can be resolved and strands
  the challenger's stake (`Parameterizer.sol:213`-217).
- `requestAppealLen` of 0 or 1 makes appeals impossible (`CivilTCR.sol:116`).
- `replaceOwner` accepts address 0 (`MultiSigWallet.sol:160`). If the requirement is
  as large as the list of owners, no transaction can be confirmed any more.
- A request for zero voting rights unlocks its sender (`CivilTokenController.sol:77`).
- A storefront that requests voting rights becomes unlocked
  (`CivilTokenController.sol:38`, :77).

Transactions and modals (`RetrySafe` names the pages that are free of these):

- "Try Again" runs the transactions but not what follows the last one: on the
  pages whose last step leaves a waiting modal, it stays.
- Where a page cannot tell that the sender declined, success is shown; a failed
  upload is not handled; for `PUBLISH_CONTENT` the rejection modal has no text.
- `AppealResolve`'s "Try Again" has no transactions to run.

Votes:

- The option is saved before the commit is accepted, so a later commit that is
  refused replaces the option of the one that counts.
- A vote sent from another account than it was saved for (the account changed
  while `commitVote` was reading) finds, on that account's reveal page, no option
  and another salt; the right ones are under the former account.
- `onAccountUpdated` forgets the user, and does not look it up again, when the
  account that was looked up last is told once more: after it was locked and
  unlocked, or the network was announced (`Main.tsx:75`, :108). Lookups that
  overtake each other leave the former account in the store.
- Three of `listingEvents`' subscriptions outlive a change of account and write
  the former account's data over the present one's.
- `getUserChallengeData` offers a rescue again for an unresolved poll that was
  already rescued; `isUserWinner` flips a flag that is already adjusted.

Parameter proposals, as the client shows them:

- At `now = appExpiry` it shows an application, and offers no challenge once a
  proposal can be processed although the contract still accepts one; a challenged
  proposal past `processBy` is offered for a vote although processing deletes it.
- Its timer is set up once, for the first transition only.

## 10. Running it

    tlc -workers 2 -config PLCR.cfg MCPLCRVoting
    tlc -workers 2 -config TCRAppeals.cfg MCCivilTCR
    tlc -workers 2 -config ParamProposals.cfg MCParameterizer
    tlc -workers 2 -config Contracts.cfg MCContracts
    tlc -workers 2 -config Dapp.cfg MCDapp
    tlapm CivilTCR_proofs.tla

PROJECT.json lists all runs with their modules and configurations, the mutants,
the map to the source, the hazards with the properties that cover them, and the
theorems. The longest runs take about three minutes, the longest proof
(`CivilTCR_proofs`) about four.
