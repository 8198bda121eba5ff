# Verification of the DeFi/DAO contracts and their clients

TLA+ models of the Solidity contracts under `src/contracts` and of the
TypeScript that deploys and drives them, TLC runs over small instances, and
TLAPS proofs for every value of the constants. Paths of contracts below are
relative to `src/contracts`, all others to `src`.

## 1. The system

Contracts on Hedera, in three groups that share tokens, system roles and the
token service: DAOs governed by token votes, DAOs governed by a multisig safe,
and finance contracts (staking vaults, a reward splitter, liquidity pairs). The
ledger executes one transaction at a time and undoes it entirely when a `require`
fails. So a transaction is one action of a model, a `require` a conjunct of its
guard, and what is hard in a contract is not threads but the *order* of many
users' transactions, state shared by contracts that do not know of each other,
arithmetic that rounds, and calls that must still succeed at the end of a long
history.

The TypeScript is the other half: scripts (`integrationTest/`), end-to-end
scenarios (`e2e-test/step-definitions/`) and deployment (`deployment/`). A flow
of theirs is many transactions with an `await` at each. Between two of them other
accounts act, what was read gets old, a mirror node lags, and an exception ends
the flow half-way, to be run again on what it left. A step of a flow, from one
`await` to the next, is one action of a client's model.

### Components

| component | state | operations | interacts with | correct when |
|---|---|---|---|---|
| Governor `governance/HederaGovernor.sol` | proposals and ballots (OpenZeppelin), deposits, quorum threshold | `createProposal`, `castVote(BySig)`, `cancel`, `execute`, `setQuorumThreshold` | token, holder, any contract its proposals call | no token votes twice; deposits go back; outcomes are stable; proposals can be closed |
| Token holder `governance/TokenHolder.sol` | voters of each governor's proposals, active proposals of each user | `addProposalForVoter`, `removeActiveProposals` | called by every governor of the token | the two structures agree, entry by entry |
| `governance/GODHolder.sol` | locked amount per user | `grabTokensFromUser`, `revertTokensForVoter` | token, users | the holder owns what it recorded; no unlock while a vote counts |
| `governance/NFTHolder.sol` | locked serial numbers per user | the same, for NFTs | NFT token, users | as above, one vote per account |
| Token holder factories | holder per token | `getTokenHolder` | DAO factories | one holder per token |
| Vault `incentives/Vault.sol` | stakes, total, per-share index and claimed indices of each reward token | `stake`, `unstake`, `addReward`, `claimRewards` | staking token, reward tokens, splitter | the vault owns what it owes; indices stay ordered; stakes can be taken back |
| Splitter `incentives/Splitter.sol` | vaults and their multipliers | `registerVault`, `splitTokens` | vaults | shares add up to the amount |
| Safe `gnosis/HederaGnosisSafe.sol` | owners, threshold, approvals, executed hashes, nonce | `approveHash`, `getTxnHash`, `executeTransaction`, and calls to itself | its owners, the DAO, tokens | a transaction acts once, and only with a quorum of present owners |
| Multisig DAO `dao/MultisigDAO.sol` | its safe, transaction records | `propose...Transaction`, `setText`, `upgradeHederaGnosisSafe` | the safe | each proposal is one of its own |
| Pair and LP token `Pair.sol`, `LPToken.sol` | reserves, LP supply | add and remove liquidity, swaps | tokens, HBAR, factory | reserves never exceed what the pair owns |
| Factory, Configuration | registry of pairs, fee keys | create pairs, upgrade the service | pairs | a pair of tokens is registered once |
| Assets holder `holder/AssetsHolder.sol` | created tokens | one operation per kind of proposal | governor, tokens, proxies | each executed proposal acts once; proxies are given back |
| DAO factories, DAO records, fees, system roles, proxies | names, links, fees, roles | creation and setters behind roles | each other | roles match the recorded system users |
| Deployment `deployment/`, `utils/deployContractOnTestnet.ts` | the file of contracts, proxies on the ledger | deploy logics and proxies, upgrade, save, merge | the ledger, concurrent tasks of one script, every client | what the ledger runs is in the file; nothing deployed is lost; clients never go back to an older proxy |
| Governance clients `integrationTest/governance`, `e2e-test` | place in the flow, amounts read, last token seen | lock, propose, vote, poll, fund, hand over, execute, clean up | governor, holder, assets holder, mirror node, others | payments once; supplies as voted; proxies and locked tokens come back |
| Safe clients `integrationTest/dao`, `e2e-test` | place in the flow, safe and hash remembered | propose, approve, fund, execute, check | DAO, safe, proxies, others | scenarios follow each other; what is approved can be paid and executed |
| Pool clients `integrationTest/pair.ts`, `factory.ts`, `e2e-test` | place in the flow, quantities read | allow, add, remove, swap, quote, upgrade | pairs, factory, others | a client alone is always answered |
| Staking clients `integrationTest/incentives` | place in the flow, split and stake read, allowances | stake, reward, claim, unstake; set up vaults, split | vaults, splitter, other stakers | the split fits its allowances; a finished run has its stake back |
| Token service access, token operations | none | wrappers of the network's token service | all | an error code becomes a revert where it matters |

### Behaviours that are hard

* Governors of one token share a holder, and their proposal ids (a hash without
  the governor's address) can be equal.
* A hold is made for `tx.origin`, a ballot for the account that voted.
* The quorum is computed from the supply and threshold of the moment, and
  reverts when it would be zero; every vote, cancel and execute evaluates it.
* A vault rounds what each user is due on its own and pays a bounded number of
  reward tokens per call; one transfer that fails undoes them all.
* Approvals of a safe outlive the owner's membership; the nonce is the only
  thing that tells two proposals of the same call apart; a DAO may be pointed
  at another safe.
* Splits, swaps and LP shares round, and an amount rounded to zero reverts.
* A pair keeps its tokens in the order of their addresses, a client names them in
  its own; HBAR is paid with the call, tokens through allowances.
* Flows remember a quorum, a token id, a safe, a split or a stake, and use it
  transactions later. They hand a proxy over before the step that gives it back.
* Exceptions: scripts end with them, scenarios go on with the next one, some
  steps catch them, some calls are not awaited, and some results are dropped.
* The deployment's file is read, changed and written by concurrent tasks, and
  written after the ledger has changed.

`PROJECT.json` lists these as hazards, each at its line.

## 2. The modules

| module | models |
|---|---|
| `HolderAddresses` | who deals with a token holder: the constants of the next two |
| `TokenHolder` | `TokenHolder.sol` with its arrays as bags; also a specification of its own |
| `TokenHolderArrays` | the same contract with the arrays and the swap-and-pop removal; implements `TokenHolder` |
| `GODHolder` | EXTENDS `TokenHolder`: locking and unlocking |
| `HederaGovernor` | EXTENDS `GODHolder`: several governors, the token, the clock |
| `WeightedPolls` | abstract: polls whose votes are backed by stakes |
| `AssetsHolder` | `AssetsHolder.sol`, the treasury that proposals act on |
| `GovernanceClient` | EXTENDS `HederaGovernor`, `AssetsHolder`: script and scenarios of governance |
| `Vault` | `Vault.sol` with the fixed-point arithmetic |
| `Splitter` | `Splitter.sol` over two instances of `Vault` |
| `StakingClient` | EXTENDS `Splitter`: the scripts of vaults and splitter |
| `Pair` | `Pair.sol` and `LPToken.sol`: pools, quotes, shares |
| `Factory` | EXTENDS `Pair`: `Factory.sol` |
| `PoolClient` | EXTENDS `Factory`: scripts and scenarios of pairs and factory |
| `ThresholdWallet` | abstract: a fund and a membership changed by endorsed transactions |
| `HederaGnosisSafe` | the safes: owner list, approvals, execution |
| `MultisigDAO` | EXTENDS `HederaGnosisSafe`: the DAO's records and its choice of safe |
| `SafeClient` | EXTENDS `MultisigDAO`: script and scenarios of a DAO with its safes |
| `Deployment` | the deployment scripts, the file of contracts, the ledger's proxies |
| `Sums`, `SumsProofs` | sums over finite sets, and lemmas on them and on least elements |
| `HederaGovernorProofs`, `VaultProofs`, `StakingProofs`, `PoolProofs`, `SafeProofs`, `GovernanceProofs`, `DeploymentProofs` | the theorems on each component |
| `MCHederaGovernor`, `MCGovernanceClient`, `MCVault`, `MCStakingClient`, `MCPoolClient`, `MCSafeClient` | values of the constants for TLC |

Operators marked *a slip to catch* are not part of a specification: each is the
form a definition would have after a plausible mistake, and put in its place it
breaks a property (`mutants` in `PROJECT.json`).

### Governors and holder

`activeProposalsForUsers[v][p]` and `governorProposalVoters[g][p][v]` count the
entries of the arrays of the same name; nothing observes their order.
`TokenHolderArrays` keeps the arrays and the loop that replaces the removed entry
by the last one. `godTokenForUsers`, `quorumThreshold` and `balance` are the
code's. `proposals` joins OpenZeppelin's proposal core with the contract's
`proposalsInfo`; `ballots` are OpenZeppelin's receipts. `Cleanup` is `_cleanup`:
removal of the holds, then the deposit; the check that the governor owns tokens
(`CallerHoldsToken`) is made where the code makes it, before the deposit leaves.
`CanEmitVotingInformation` is the revert of `quorum(0)` inside
`_emitVotingInformation`, evaluated in the state the call of the proposal leaves.
OpenZeppelin's Governor and the token are not in the repository: `State`, `Live`,
`Tally` and the voting actions are modelled from the overrides and calls in
`HederaGovernor`.

Left out: titles, descriptions, links; `governorVoterProposalDetails`, which is
written and only read by a view; `upgradeHederaService`; the NFT branch. Calls of
a proposal are `setQuorumThreshold` of its own governor or calls that change no
variable of the model; a proposal that calls *another* governor's setter reverts
(`onlyGovernance`). Calls of the assets holder are in `GovernanceClient`.

### Vault

`contribution` and `rewardClaimed` are the fields of
`UserStakingTokenContribution`, `rewardTokens` and `perShareAmount` those of
`RewardInfo`. `FixedDiv` truncates and `FixedMul` rounds half up, as
PRBMathUD60x18 does, over a unit `Scale`. A stake by an existing staker and an
unstake first claim; when a claim leaves rewards (`~NothingLeftUnclaimed`), the
call returns `false` and is modelled by `StakeDeferred` and `UnstakeDeferred`.
`Unassociated` holds the pairs of a user and a reward token the user's account
does not accept; a claim that would pay one reverts.

### Governance clients and the assets holder

A client is a place (`item`, `at`) in the flow of one proposal after the other
(`VoteFlow`, then what the kind of proposal needs), with what it remembers:
`current`, `known` (an amount it read), `lastToken`. `target[p]` is the token the
call of proposal `p` names; it is fixed when the proposal is made. `log` is the
ledger's events, of which `Seen` is the part the mirror node shows. Each operation
of `AssetsHolder` is a conjunct of `ExecuteProposal`, so a failing one reverts the
execution. The cleanup task (`ListProposals`, `CleanOne`, `CancelOne`) runs from
the list it read first. Between steps the others propose, vote for and against, execute,
cancel what they proposed, lock, donate, mint and burn.

### Splitter and staking clients

`Splitter` holds two instances of `Vault`, `A` and `B`, over one clock and one
ledger; an operation on one leaves the variables of the other alone (`At`). The
split calls `addReward` of every vault in one transaction, so `SplitTokens` sets
the lists and indices of both with `ListedAfter` and `IndexAfter` of `Vault`, and
is disabled as a whole when one share is zero. `StakingClient` takes `vault.ts` and
`splitter.ts` step by step: the vaults a `Promise.all` sets up advance in any order
(`setup`), the split is read (`amounts`), allowances are set from it, and the split
is computed anew on the ledger. The scripts drop what `stake` and `unstake` return,
and so does the model. vault.ts asks whether it can unstake (`CheckUnstake`), waits the
locking period if it cannot, asks again and ends quietly if it still cannot
(`UnstakeStep`). Anyone may claim for the script's staker, and the others do.
splitter.ts has three vaults; two are kept.

### Pairs, factory and pool clients

A pool is a record with its two sides: `qty` is what the pair counts (`tokenAQty`,
`tokenBQty`), `held` what its account owns, and they differ by HBAR that is sent
and not used. `Incoming`, `Outgoing` and `Quote` keep each truncation of the code in
its place. `LpTokenCount` and `TokensToGetBack` are `LPToken`'s and the pair's
shares. A transaction settles all its transfers or none (`Settled`). `PoolClient`
writes each script and feature as a program, a list of scenarios that are lists of
steps; `SortTokens` against the client's own order of tokens is where the sides can
be confused. Other accounts provide, swap, return and create in between. pair.ts works on
a pair that is there already when it is run again (`RunAgain`): its `initialize` then
fails, which it catches. Left out are transfers of LP tokens between accounts and swaps
of which the pair itself is the receiver.

Configuration has fees of 0.05, 0.1 and 0.3 %, but `createPair` takes any fee from
anybody, and `initialize` only rejects 0. A fee above 200 % is more than what it is
charged on (`IncomingCovered` in `PoolProofs` is the bound), and a pair may then pay out
HBAR it still counts, and lose product. So `ProductKept`, and `ReservesBacked` for HBAR,
speak of pools whose fee is `Moderate`, at most 200 %; other pools may have any fee.

### Safes and the multisig DAO

A hash is the record of what it is computed from: safe, call and nonce.
`owners[s]` is the linked list in list order, since `removeOwner` and `swapOwner`
take the predecessor as a parameter and revert when it is stale. Approvals are a
set of pairs and never shrink, as in the code. `MarkExecuted` is
`executeTransaction` up to the call; `ExecuteTransaction` composes it with the
call, so a failing call disables all of it. `SafeClient` adds the calls on other
contracts (association, proxy upgrade, batch, fee settings), and the flows of
`multiSigDAO.ts` and the scenarios of `MultiSigDAO.feature` as lists of steps. In a
batch, the calls' sender is the HederaMultiSend contract, so the safe's own
functions and `setText` revert inside a batch; what a batch moves is what the
treasury lets HederaMultiSend take.

`approvedHashes[s]` is each safe's own: owners of one safe may approve a hash of another
(`approveHash` takes any hash), and `State` asks the DAO's present safe also about hashes
of the one before. Calls are those that the DAO and its clients propose. Left out are
`enableModule`, `disableModule`, `setGuard` and `setFallbackHandler`, and transactions with
any other target, a value or a delegatecall: owners who approve those can give the safe
away, and no property here is about that. The scenarios are `MultiSigDAO.feature:12-85`;
"Get all locked token from safe" (87-90) and the factory's (from 92) are not modelled.

### Deployment

`records` is the file of contracts, a function from places to records: what
the code finds for a name is its record at the greatest place, and a place that a
merge leaves stays empty. `implementation` is what the proxies on
the ledger run. A task of a script is interrupted where it awaits the ledger, and its
read-modify-write of the file is one step, since the file operations are
synchronous. `Stop` ends the process anywhere. `Merge` is the `Map` that keeps each
name's last record at its first place.

## 3. The runs

| run | question | result |
|---|---|---|
| `gov_shared` | two governors, one proposal id in both, two voters: `TypeOK`, `LockedBacking`, `HoldsMatch`, `HolderBacked`, `ImplementsPolls` | holds |
| `gov_quorum` | one governor, two proposals that set its threshold, with fairness: `DepositsHeld`, `QuorumDefinedForProposals`, `OutcomeStable`, `ProposalsClose`, `HoldsReleased` | holds |
| `gov_relayed_unlock` | `UnlockNeedsNoOpenVote` with a relayer | violated |
| `gov_outcome` | `DecidedOutcomeIsFinal` | violated |
| `governance` | the script and the scenarios among others: `TransfersPaidOnce`, `SuppliesVoted`, `ProxyReturned`, `LockedEnough`, `CleanupFrees` | holds |
| `holder_arrays` | the arrays against the bags: `ImplementsBags` | holds |
| `vault_exact` | amounts that divide evenly, with fairness: `RewardsCovered`, `StakesBacked`, `ClaimedWithinIndex`, `StakeChangesSettled`, `UnstakeCompletes` | holds |
| `vault_rounded_leave` | inexact amounts and fairness: `UnstakeCompletes` | violated |
| `staking` | both scripts, twice, over two vaults that round: `SplitIsCovered`, `SplitNearAmount`, `ScriptGetsItsStakeBack` | holds |
| `pool` | four clients, two or three tokens with HBAR, three fees, others: `ReservesBacked`, `ProductKept`, `SharesKept`, `HbarPoolNeverEmpties`, `OnePairEach`, `BestRecommended`, `AloneIsAnswered` | holds |
| `safes` | flows, scenarios, and anyone on two safes: `ImplementsWallets`, `NewProposalIsPending`, `JourneyHolds`, `HandedOverIsApproved`, `ApprovedIsCovered` | holds |
| `deployment` | two names, concurrent tasks, stops and merges: `ImplementationRecorded`, `DoneIsVisible`, `ProxyNeverGoesBack`, `NoDeploymentLost` | holds |

**Bounds of the contracts.** Two accounts are enough for a vote of one to be
followed by the tokens reaching the other; two governors with one id for one
governor's cleanup to meet the other's entries; two proposals of one governor for
one to change the quorum of the other. At `MaxTime` 2 a proposal made at once has
had its vote and is decided. Amounts of 1 and 2 with a deposit of 1 make each
deposit and each partial unlock matter. The quorum basis is 10 instead of 10000 and
the default threshold 5 (3 in `gov_quorum` and `gov_outcome`) instead of 500: what
the properties tell apart is whether a quorum is zero and whether it exceeds the
votes, and both happen. In `gov_quorum` the supply moves between 4 and 5: the
default quorum is 1, and `p1` sets a threshold of 4, for which the quorum is 1 or 2
with the supply. `p2` would set a threshold of 1, which makes the quorum undefined
at both: its execution must revert. In `gov_shared` and `gov_outcome` the supply is
fixed. In the vault `MaxRewardsPerTxn` is 1 and not 40, so that two reward tokens
already exceed it. With `Scale` 2, a reward of 12 divides evenly by every supply the
run reaches and every stake is even; `MaxTime` 4 is enough for a stake, a full unstake, a
return with another reward, and its unstake, and one token is rewarded twice, so that a
user returns to an index that has moved. In `vault_rounded_leave` unit
stakes and a reward of 1 leave remainders.

**Bounds of the clients.** A run of clients starts in one of several worlds
(`Worlds`): which script or feature runs, and what the others do. That keeps each
world small and lets one run cover all clients of a component. `governance`: seven
worlds, one for each way the kinds of proposals meet; one exception (`MaxStops`),
since the cleanup repairs what one leaves; others may vote for or against, propose,
cancel, execute, mint and donate. The treasury and the other account have 3 of the 6
tokens each, the quorum basis is 20 and the threshold 9, so the quorum is 2 or 3. `pool`: quantities 9, 6, 5 and 3 and fees of 50 and 100 over a
`FeePrecision` of 100 make every division of a quote, a fee and a share round in some
world, and in one the client's pool has a fee of 250, above what is moderate; two
transactions of others, two pools, one exception or second run (`MaxStops`), so a second run
after an exception is left to the theorems. `safes`: each flow alone, stopped up
to twice and run again, or with executors; the scenarios in the feature's order;
and, without a client, owners who go and return with approvals one nonce ahead, and two
safes whose owners also approve each other's hashes (`crossing`).
`staking`: `Scale` 10 and a reward of 5 split over vaults with multipliers 1 and 2,
whose supplies the others change by 1 and 2, one reward paid per call so that the script's two claims are needed, two runs
and two transactions of others, claims for the script's staker among them. `deployment`: two names for two concurrent tasks, six
contracts for a proxy, an upgrade and a second proxy of a name.

`holder_arrays` and `deployment` check for deadlock. The other instances really end,
when the clock, the nonces, the tokens or the transactions of the others are used up
and the client has come to its end, so their runs do not.

**Fairness.** `HederaGovernor!FairSpec` assumes that whoever may close a proposal
does so in the end. The contracts do not enforce it: anyone may execute a
succeeded proposal, but only its proposer may cancel a defeated one, and the
end-to-end features do. `gov_quorum` then shows that nothing reachable makes both
calls revert for good. `Vault!FairSpec` assumes that time passes and that a
staker keeps calling `unstake` for some of the amounts of the instance. The clients
have no liveness property: a script stops at the first exception, and nobody has to
start it again; what they leave is stated as safety.

**Conditions that are part of a property.** Some promises hold only under a
condition the code does not establish, and the property says so: `SplitIsCovered`
while no stake changed since the split was read; `ScriptGetsItsStakeBack` when
no reward came after the claims and it did not first ask in the very second of its stake,
for its delay is then one second too short (`WaitedEnough`); `CleanupFrees` when the
cleanup was not aborted and knew all of the client's proposals, and of the moment it ends,
as a foreign proposal that holds tokens may be closed right after, by its proposer's
cancel or anyone's execution, when nobody claims; `ProductKept` and `ReservesBacked` as
said above; `ApprovedIsCovered` for the token flows, as the HBAR
flow funds the safe after the approvals; `NewProposalIsPending` for owners that do
not approve hashes ahead of their nonces; `ProxyReturned` and `HandedOverIsApproved`
describe where an interrupted upgrade leaves the proxy.

**What the violated runs show.**

* `gov_relayed_unlock`: `GODHolder.sol:31-32` refuses an unlock while "User's
  Proposals are active", but `TokenHolder.sol:104` records the proposal for
  `tx.origin`. After `castVoteBySig` through a relayer the voter can unlock while
  its ballot counts. The theorems that need it therefore assume `Relayers = {}`.
* `gov_outcome`: `HederaGovernor.sol:236-238` speaks of "the quorum value for the
  proposal", while the function ignores its argument; an executed threshold change
  turns a succeeded proposal into a defeated one. `OutcomeStable` states what
  remains true.
* `vault_rounded_leave`: dues are rounded half up one by one, so that together
  they can exceed the rewards the vault received. The last staker's claim asks for
  more than is there, and its `unstake` reverts each time, while
  `src/test/vault-test.ts:370` has repeated calls be enough. `vault_exact` shows
  they are where no division leaves a remainder.

## 4. The proofs

By TLAPS, from the named assumptions on the constants only, unless a theorem names
a condition. Each theorem holds for every number of accounts, proposals, tokens,
pools, safes or tasks, every script or programme of the shape the code has, and all
that the others of the model may do in between. The pattern is the same throughout: an
inductive invariant, found and checked with TLC on the instance of a run, then one
lemma per action and one step per conjunct it can disturb. What the invariant
needs beyond the property is listed with each module.

**`HederaGovernorProofs`** (finite accounts and governors, distinct addresses, a
positive deposit, natural bounds):

* `TypeCorrect`: no balance, lock or count is ever below zero.
* `BookkeepingMatches` (`HoldsMatch`): for any governors, ids and relayers. Removal
  needs that one governor's entries are at most the sum over all, so the truncated
  subtraction of `RemoveActiveProposals` never truncates.
* `VotesAreBacked` (`LockedBacking`), with `Relayers = {}`. An unlock looks only at the
  voter's list, so `BackingInv` adds that proposals not yet created have no ballots
  (`EmptyBallots`), that a ballot on a live proposal has an entry for its voter
  (`VotesHeld`), and `HoldsMatch`, which turns an empty list into no live ballot.
* `GovernorsImplementPolls` (`ImplementsPolls`), with `Relayers = {}`: each step is a
  step of `WeightedPolls` or a stutter under the mapping of `Polls`.
* `HolderOwnsItsDebt` (`HolderBacked`): a lock and an unlock move the holder's balance
  and the sum of what is locked by the same amount.
* `DepositsAreHeld` (`DepositsHeld`): nothing bounds the number of ids, so
  `DepositsInv` adds that finitely many proposals of a governor are live.
* `OutcomesAreStable` (`OutcomeStable`): an ended proposal takes no ballot, and its
  state is then a function of the ballots, the supply and the threshold.
* `QuorumStaysDefined` (`QuorumDefinedForProposals`), as long as no burn takes the supply
  below what a threshold in use needs (`BurnLeavesQuorum`). The condition is needed:
  the code checks the quorum when a proposal is created or executed, and nothing
  checks it when tokens are burnt.
* `ArraysImplementBags` (`ImplementsBags` of `TokenHolderArrays`), for any number of governors,
  ids and entries: a push adds one occurrence, the swap-and-pop takes one of the removed
  id and none of another, and the loop over a voter list takes as many of each
  voter's list as the voter has entries, as far as there are any.
* `HoldsEndWithTheirProposals`: each entry of a voter's list is of a live proposal of some
  governor that remembers the vote (`EntriesLive`), with any relayers.
* `LiveProposalsCanBeCanceled`, under `BurnLeavesQuorum`: neither the deposit, the holder nor
  the quorum that is emitted makes the creator's cancel revert. These two are the safety
  inside `HoldsReleased` and `ProposalsClose`; what is left to TLC is that somebody acts.

**`VaultProofs`** (finite users, a vault that is neither a user nor a funder, a
positive `Scale`). `VaultInv` is the type, `StakesBacked`, `ClaimedWithinIndex` and two
facts no property mentions: users are marked as stakers just when they have a stake
(`StakersKnown`), so `FirstStake` is the only way from no stake to some; and a reward
token that is not listed has index zero (`UnlistedHasNoIndex`), so a copy of the
listed indices is a copy of all.

* `TypeCorrect`; `StakesAreBacked` (`StakesBacked`); `IndicesStayOrdered`
  (`ClaimedWithinIndex`), so a claim never underflows; `NewStakersStartAtZero`: a
  first stake, also after a full unstake, is due nothing. All for every rounding.
* `StakesChangeSettled` (`StakeChangesSettled`), as long as no due is rounded
  (`NothingRounded`). Without it the statement is false: a due below one half rounds
  to zero, stays unclaimed, and is earned again with the next stake.
* `RewardsAreCovered` (`RewardsCovered`), as long as also each reward divides evenly
  (`RewardDivides`). The vault then owns exactly what it owes. Both conditions
  hold throughout `vault_exact`, and `vault_rounded_leave` shows what happens without.
* `NobodyIsLockedIn`, under both conditions: a staker whose lock has run out can unstake
  whatever the others did, as the vault owns what the call pays. `DeferralsComeToAnEnd`,
  for every rounding: a deferred call lowers the number of tokens due by
  `MaxRewardsPerTxn`. They are the safety inside `UnstakeCompletes`.

**`StakingProofs`**, over two instances of `VaultProofs`: `VaultInv` of both vaults, what
the client knows of its split, and that a token is listed once.

* `VaultsStayApart`: both vaults keep `VaultInv` over the ledgers they share.
* `SplitsAreNear` (`SplitNearAmount`): for any weights, amounts and scale.
* `AllowancesFit`: when splitter.ts starts its split, each vault's allowance is what the split
  takes, unless a stake changed since the shares were read. `Allowing` says what the
  script knows from the reading on, by the supplies it read.
* `SplitsAreCovered` (`SplitIsCovered`), with a treasury that starts with `RewardQty + 1` of a
  reward token for each of its runs: a split takes at most half a unit per vault more
  than it was asked to take. `Affording` says what the treasury has left by the runs
  that are left.
* `StakeComesBack` (`ScriptGetsItsStakeBack`), when there are at most
  `2 * MaxRewardsPerTxn` reward tokens: the script claims twice before it unstakes, and
  with more tokens its unstake is deferred and its result dropped. `Settling` says how
  much is still due when it asks, and that it asks for its whole stake.

**`PoolProofs`**: pools and wallets are well formed, the factory's table lists each pair
in both orders, and the client stands at a step of one of its scenarios.

* `PoolsAreGood`, `PairsOwnWhatTheyCount` (`ReservesBacked`), `FactoryHasOnePairEach`
  (`OnePairEach`), `RecommendationPaysMost` (`BestRecommended`).
* `SwapsKeepTheProduct` (`ProductKept`), `ProvidersKeepTheirShares` (`SharesKept`),
  `HbarPairsKeepShares` (`HbarPoolNeverEmpties`): the arithmetic of each truncation, for
  any precision and quantities, and for any fee but for what is said above: a pair's
  HBAR and the product of its quantities need a fee of at most 200 %, whatever the other
  pairs' fees are. The product may fall: a quote rounds in the swapper's favour, and what
  is proved is that this costs less than one unit of what is paid out.
* `SqrtIsTheRoot`: the loop of `LPToken.sol` ends within as many steps as its argument, with the
  root rounded down, for every argument.
* `ClientFindsWhatItAdded`: a client that nothing has thrown at and nobody has traded
  beside finds in its pair what it has added wherever it checks. `AloneOK` splits each
  program where it adds (`BeforeAdd`, `AtAdd`, `AfterAdd`); `ProgramShape` shows of all
  scenarios what stands before and behind.

The square root of `LPToken.sol` and the search for the best pool are loops, as is the
removal of the holds above. That a run of a loop exists and ends with the right value
is proved by a least counterexample over the natural numbers (`LeastElement` of
`SumsProofs`) in the place of an induction.

**`SafeProofs`** (safes start with distinct owners that can reach the threshold, and the two
owners of the flows are different owners of the first safe, with a threshold of at
most two): what is recorded, approved or executed is of a nonce that was handed out;
where the client stands and what it read; that a safe is left to its client where
the flow assumes so; what approvals its remaining steps rely on.

* `SafesAreConsistent`; `SafesAreWallets` (`ImplementsWallets`): each safe implements
  `ThresholdWallet`, by one lemma per action; `ProposalsStartPending`
  (`NewProposalIsPending`); `TransfersCanBePaid` (`ApprovedIsCovered`);
  `ProxyCanBeReturned` (`HandedOverIsApproved`).

**`GovernanceProofs`** (finitely many proposals, distinct non-empty agendas). `BooksInv`: the
client's place with what it remembers there, targets that exist, whose the proxy is
at each place, and what of the client's power is locked. `CleanupInv`: the cleanup's
list, which proposals are still the client's, and that each remaining hold is of one of
them or of a proposal of somebody else, open as long as the hold is there.

* `ClientKnowsItsPlace`, `TransfersArePaidOnce` (`TransfersPaidOnce`), `SuppliesAreVoted`
  (`SuppliesVoted`), `ProxyIsReturned` (`ProxyReturned`), `LockedIsEnough` (`LockedEnough`),
  `CleanupLeavesNothing` (`CleanupFrees`).
* `ClientUsesTheContracts`: `ClientSpec` implements `HederaGovernor!Spec`, step by step, with
  proposed amounts anywhere in `Nat`. So what is proved of the contracts holds beside
  every client, and three theorems say it for what a client relies on:
  `ClientsLeaveTheHolderWhole` (`HolderBacked`, `HoldsMatch`, `DepositsHeld`),
  `ClientVotesAreBacked` (`LockedBacking`, with `Relayers = {}`) and `ClientsCanCancel` (under
  `BurnLeavesQuorum`).

**`DeploymentProofs`** (a natural `MaxContracts`): names own disjoint contracts that were
all created (`Apart`), an address is recorded once (`FileOK`), and what a task holds at
each of its steps is newer than what it may find (`TaskOK`). A step of one name's task is proved for that
name, and one lemma carries the invariant of the other names through it.

* `ImplementationsAreRecorded` (`ImplementationRecorded`), `DoneTasksAreVisible`
  (`DoneIsVisible`), `ProxiesNeverGoBack` (`ProxyNeverGoesBack`), `DeploymentsAreKept`
  (`NoDeploymentLost`).

`SumsProofs` has the lemmas on sums over finite sets, from the library's cardinality
theorems (`Sums` writes a sum as the size of a disjoint union for that reason), and on
least elements.

**Only model-checked.**

* `ProposalsClose`, `HoldsReleased` and `UnstakeCompletes`: liveness under fairness is
  out of the prover's reach. That the calls which they wait for do not revert, and bring
  the end nearer, is proved (`LiveProposalsCanBeCanceled`, `HoldsEndWithTheirProposals`,
  `NobodyIsLockedIn`, `DeferralsComeToAnEnd`).
* `AloneIsAnswered` and `JourneyHolds` say that a step is enabled, and `ENABLED` is out of
  reach as well. The check of `AloneIsAnswered` is proved by its guard
  (`ClientFindsWhatItAdded`). Its other questions come after shares were returned and
  swaps made: whether tokens are left then depends on the quantities of the constants,
  and is false for some. `JourneyHolds` is about the scenarios of one feature, which are
  values of a constant.

## 5. Plan

1. `NFTHolder` with the governor's NFT branch (one vote per account, response codes
   that are not looked at) and its client.
2. The DAO and holder factories with their fees, and the system roles.

## 6. Not modelled

* The NFT variants, the DAO and holder factories, fees and system roles: until the
  plan reaches them. Roles appear as who may take an action.
* The DAO records are setters behind a role check; the token service wrappers,
  mocks, event and error declarations have no protocol state.
* Widths of integers: Solidity reverts on overflow, and balances on the ledger are
  far below; the arithmetic of the models is on naturals, and where the code would
  underflow the models have a guard or a property.
* Of the TypeScript: set-up of tokens and accounts, queries that print, event readers
  and the scripts that reset allowances or return tokens, one call after the other.
  `resetAllowance.ts` switches the operator of one client inside a `Promise.all`;
  its calls could be signed by the wrong account, which only the network would
  notice.
* The OpenZeppelin, Gnosis and PRBMath libraries and the network's token service are
  external: the models state what the code here relies on.
