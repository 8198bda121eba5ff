--------------------------- MODULE HederaGovernor ---------------------------
(***************************************************************************)
(* contracts/governance/HederaGovernor.sol: governors of one fungible      *)
(* governance token, sharing one GODHolder.  Each transaction of the       *)
(* ledger is one action; a require that fails reverts all of it, so it is  *)
(* a conjunct of the guard wherever the code evaluates it.                 *)
(*                                                                         *)
(* The OpenZeppelin Governor the contract inherits is external: state,     *)
(* propose, _cancel, execute, castVote and castVoteBySig are modelled from *)
(* how HederaGovernor calls and overrides them.                            *)
(***************************************************************************)
EXTENDS GODHolder

CONSTANTS
  Relayers,          \* accounts that submit votes others have signed
  Payees,            \* addresses that receive plain token transfers
  Amounts,           \* amounts locked, unlocked and transferred
  InitialBalance,    \* [Accounts -> Nat]
  InitialSupply,     \* the token's total supply, other owners' included
  MinSupply,         \* bound: the supply is not burnt below this
  MaxSupply,         \* bound: the supply is not minted above this
  Deposit,           \* 1e8, what _blockGodToken takes from the creator
  Bsp,               \* 10_000, the basis of the quorum threshold
  DefaultThreshold,  \* 500
  InitialThreshold,  \* [Governors -> Nat], as passed to initialize
  VotingDelay, VotingPeriod,
  MaxTime,           \* bound on the clock
  CallTarget,        \* [ProposalIds -> Governors \cup {NoTarget}]: whose
                     \* setQuorumThreshold the proposal calls, if any
  CallThreshold,     \* [ProposalIds -> Nat]: the threshold it passes
  NoTarget,
  ZeroAddress        \* address(0), the creator of a proposal that is not there

ASSUME GovernorAssumption ==
  /\ Relayers \subseteq Accounts
  /\ Payees \subseteq Addresses
  /\ Amounts \subseteq Nat
  /\ InitialBalance \in [Accounts -> Nat]
  /\ {InitialSupply, MinSupply, MaxSupply, MaxTime} \subseteq Nat
  /\ Deposit \in Nat \ {0} /\ Bsp \in Nat \ {0}
  /\ DefaultThreshold \in Nat /\ InitialThreshold \in [Governors -> Nat]
  /\ VotingDelay \in Nat /\ VotingPeriod \in Nat \ {0}
  /\ NoTarget \notin Governors
  /\ CallTarget \in [ProposalIds -> Governors \cup {NoTarget}]
  /\ CallThreshold \in [ProposalIds -> Nat]
  /\ ZeroAddress \notin Addresses

VARIABLES
  now,               \* block.timestamp
  totalSupply,       \* IERC20(tokenAddress).totalSupply() (external)
  quorumThreshold,   \* [g]: quorumThresholdInBsp
  proposals,         \* [g][p]: OpenZeppelin's ProposalCore and proposalsInfo
  ballots            \* [g][p][account]: OpenZeppelin's vote receipts

vars == <<balance, governorProposalVoters, activeProposalsForUsers,
          godTokenForUsers, now, totalSupply, quorumThreshold, proposals,
          ballots>>

Supports == {"Against", "For", "Abstain"}

NoBallot == [support |-> "None", weight |-> 0]

Ballot == [support : Supports \cup {"None"}, weight : Nat]

NoProposal ==
  [status |-> "Unknown", creator |-> ZeroAddress, voteStart |-> 0, voteEnd |-> 0]

Proposal ==
  [status : {"Unknown", "Open", "Executed", "Canceled"},
   creator : Accounts \cup {ZeroAddress}, voteStart : Nat, voteEnd : Nat]

TypeOK ==
  /\ GODHolderTypeOK
  /\ now \in Nat /\ totalSupply \in Nat
  /\ quorumThreshold \in [Governors -> Nat]
  /\ proposals \in [Governors -> [ProposalIds -> Proposal]]
  /\ ballots \in [Governors -> [ProposalIds -> [Accounts -> Ballot]]]

-----------------------------------------------------------------------------
(* Views *)

Live(g, p) == proposals[g][p].status = "Open"

HasVoted(g, p, a) == ballots[g][p][a].support # "None"

(* A slip to catch: a ballot weighs what its voter has locked now. *)
TallyOfLocked(g, p, support) ==
  Total({a \in Accounts : ballots[g][p][a].support = support},
        godTokenForUsers)

Tally(g, p, support) ==
  Total({a \in Accounts : ballots[g][p][a].support = support},
        [a \in Accounts |-> ballots[g][p][a].weight])

(* quorum(uint256) ignores its argument: it is computed from the supply    *)
(* and the threshold of the moment, and reverts when it would round to 0.  *)
QuorumDefined(supply, threshold) == supply * threshold >= Bsp

Quorum(g) == (totalSupply * quorumThreshold[g]) \div Bsp

QuorumReached(g, p) == Quorum(g) <= Tally(g, p, "For") + Tally(g, p, "Abstain")

VoteSucceeded(g, p) == Tally(g, p, "For") > Tally(g, p, "Against")

State(g, p) ==
  CASE proposals[g][p].status # "Open"   -> proposals[g][p].status
    [] Live(g, p) /\ now <= proposals[g][p].voteStart -> "Pending"
    [] /\ Live(g, p)
       /\ proposals[g][p].voteStart < now
       /\ now <= proposals[g][p].voteEnd -> "Active"
    [] /\ Live(g, p)
       /\ proposals[g][p].voteStart < now
       /\ proposals[g][p].voteEnd < now  ->
         IF ~QuorumDefined(totalSupply, quorumThreshold[g]) THEN "Reverted"
         ELSE IF QuorumReached(g, p) /\ VoteSucceeded(g, p)
              THEN "Succeeded" ELSE "Defeated"

(* _setQuorumThreshold stores 500 for 0. *)
StoredThreshold(t) == IF t = 0 THEN DefaultThreshold ELSE t

(* A slip to catch: the information is emitted before the calls are made. *)
CanEmitBeforeTheCalls(g) == QuorumDefined(totalSupply', quorumThreshold[g])

(* _emitVotingInformation evaluates quorum(0): its revert is the caller's. *)
CanEmitVotingInformation(g) == QuorumDefined(totalSupply', quorumThreshold'[g])

-----------------------------------------------------------------------------
(* The token and the clock *)

Transfer(from, to, amount) ==
  /\ amount > 0
  /\ Transferable(from, amount)
  /\ balance' = Moved(from, to, amount)
  /\ UNCHANGED <<governorProposalVoters, activeProposalsForUsers,
                 godTokenForUsers, now, totalSupply, quorumThreshold,
                 proposals, ballots>>

Mint(a) ==
  /\ totalSupply < MaxSupply
  /\ totalSupply' = totalSupply + 1
  /\ balance' = [balance EXCEPT ![a] = @ + 1]
  /\ UNCHANGED <<governorProposalVoters, activeProposalsForUsers,
                 godTokenForUsers, now, quorumThreshold, proposals, ballots>>

Burn(a) ==
  /\ totalSupply > MinSupply
  /\ balance[a] > 0
  /\ totalSupply' = totalSupply - 1
  /\ balance' = [balance EXCEPT ![a] = @ - 1]
  /\ UNCHANGED <<governorProposalVoters, activeProposalsForUsers,
                 godTokenForUsers, now, quorumThreshold, proposals, ballots>>

Tick ==
  /\ now < MaxTime
  /\ now' = now + 1
  /\ UNCHANGED <<balance, governorProposalVoters, activeProposalsForUsers,
                 godTokenForUsers, totalSupply, quorumThreshold, proposals,
                 ballots>>

-----------------------------------------------------------------------------
(* GODHolder's operations, as the users call them *)

Lock(user, amount) ==
  /\ GrabTokensFromUser(user, amount)
  /\ UNCHANGED <<now, totalSupply, quorumThreshold, proposals, ballots>>

Unlock(user, amount) ==
  /\ RevertTokensForVoter(user, amount)
  /\ UNCHANGED <<now, totalSupply, quorumThreshold, proposals, ballots>>

-----------------------------------------------------------------------------
(* HederaGovernor's operations *)

(* createProposal: the deposit is taken, the proposal is stored with its   *)
(* snapshot and deadline, and the voting information is emitted.           *)
CreateProposal(creator, g, p) ==
  /\ Transferable(creator, Deposit)
  /\ proposals[g][p].status = "Unknown"
  /\ balance' = Moved(creator, g, Deposit)
  /\ proposals' =
       [proposals EXCEPT ![g][p] =
          [status |-> "Open", creator |-> creator,
           voteStart |-> now + VotingDelay,
           voteEnd |-> now + VotingDelay + VotingPeriod]]
  /\ UNCHANGED <<governorProposalVoters, activeProposalsForUsers,
                 godTokenForUsers, now, totalSupply, quorumThreshold, ballots>>
  /\ CanEmitVotingInformation(g)

VotingOpen(g, p) == State(g, p) = "Active"

(* _castVote: account's vote, in a transaction signed by origin. *)
RecordVote(account, origin, g, p, support) ==
  /\ VotingOpen(g, p)
  /\ ~HasVoted(g, p, account)
  /\ BalanceOfVoter(account) > 0
  /\ ballots' =
       [ballots EXCEPT ![g][p][account] =
          [support |-> support, weight |-> BalanceOfVoter(account)]]
  /\ AddProposalForVoter(g, p, origin)
  /\ UNCHANGED <<balance, godTokenForUsers, now, totalSupply, quorumThreshold,
                 proposals>>
  /\ CanEmitVotingInformation(g)

CastVote(account, g, p, support) == RecordVote(account, account, g, p, support)

CastVoteBySig(account, relayer, g, p, support) ==
  RecordVote(account, relayer, g, p, support)

(* A slip to catch: the deposit goes back and the holds stay. *)
CleanupDepositOnly(g, p) ==
  /\ Transferable(g, Deposit)
  /\ balance' = Moved(g, proposals[g][p].creator, Deposit)
  /\ UNCHANGED <<governorProposalVoters, activeProposalsForUsers>>

(* _cleanup: the votes' holds are released, then the deposit goes back. *)
Cleanup(g, p) ==
  /\ RemoveActiveProposals(g, p)
  /\ Transferable(g, Deposit)
  /\ balance' = Moved(g, proposals[g][p].creator, Deposit)

(* A slip to catch: a canceled proposal can be canceled again. *)
CancellableAgain(g, p) == State(g, p) \notin {"Unknown", "Executed", "Reverted"}

Cancellable(g, p) ==
  State(g, p) \notin {"Unknown", "Executed", "Canceled", "Reverted"}

(* cancel: the proposer may cancel in every state before Executed. *)
Cancel(user, g, p) ==
  /\ Cancellable(g, p)
  /\ user = proposals[g][p].creator
  /\ proposals' = [proposals EXCEPT ![g][p].status = "Canceled"]
  /\ Cleanup(g, p)
  /\ UNCHANGED <<godTokenForUsers, now, totalSupply, quorumThreshold, ballots>>
  /\ CanEmitVotingInformation(g)

(* The proposal's call to setQuorumThreshold (onlyGovernance: g can only   *)
(* set its own), or no call that changes a governor.                       *)
ProposalCalls(g, p) ==
  \/ CallTarget[p] = NoTarget /\ UNCHANGED quorumThreshold
  \/ /\ CallTarget[p] = g
     /\ quorumThreshold' =
          [quorumThreshold EXCEPT ![g] = StoredThreshold(CallThreshold[p])]

(* execute, by anyone: the calls come first, the voting information is     *)
(* emitted under the threshold they leave, and the proposal is cleaned up. *)
Execute(g, p) ==
  /\ State(g, p) = "Succeeded"
  /\ proposals' = [proposals EXCEPT ![g][p].status = "Executed"]
  /\ ProposalCalls(g, p)
  /\ Cleanup(g, p)
  /\ UNCHANGED <<godTokenForUsers, now, totalSupply, ballots>>
  /\ CanEmitVotingInformation(g)

-----------------------------------------------------------------------------
Init ==
  /\ GODHolderInit
  /\ balance = [x \in Addresses |-> IF x \in Accounts THEN InitialBalance[x] ELSE 0]
  /\ now = 0
  /\ totalSupply = InitialSupply
  /\ quorumThreshold = [g \in Governors |-> StoredThreshold(InitialThreshold[g])]
  /\ proposals = [g \in Governors |-> [p \in ProposalIds |-> NoProposal]]
  /\ ballots =
       [g \in Governors |-> [p \in ProposalIds |-> [a \in Accounts |-> NoBallot]]]

TokenNext ==
  \/ \E a \in Accounts, to \in Payees, n \in Amounts : Transfer(a, to, n)
  \/ \E a \in Accounts : Mint(a)
  \/ \E a \in Accounts : Burn(a)

UserNext ==
  \/ \E a \in Accounts, n \in Amounts : Lock(a, n)
  \/ \E a \in Accounts, n \in Amounts : Unlock(a, n)

CastNext(g, p) ==
  \/ \E a \in Accounts, s \in Supports : CastVote(a, g, p, s)
  \/ \E a \in Accounts, r \in Relayers, s \in Supports :
       CastVoteBySig(a, r, g, p, s)

Close(g, p) ==
  \/ \E a \in Accounts : Cancel(a, g, p)
  \/ Execute(g, p)

ProposalNext(g, p) ==
  \/ \E a \in Accounts : CreateProposal(a, g, p)
  \/ CastNext(g, p)
  \/ Close(g, p)

Next ==
  \/ TokenNext
  \/ UserNext
  \/ \E g \in Governors, p \in ProposalIds : ProposalNext(g, p)
  \/ Tick

Spec == Init /\ [][Next]_vars

(* Fairness: whoever can close a proposal does so in the end.  The         *)
(* contracts do not enforce it: the proposer is trusted to cancel a        *)
(* defeated proposal, as the end-to-end features do.                       *)
FairSpec ==
  Spec /\ \A g \in Governors, p \in ProposalIds : WF_vars(Close(g, p))

-----------------------------------------------------------------------------
(* Properties *)

(***************************************************************************)
(* No token votes twice on a live proposal: what a voter's ballot counts   *)
(* for is still locked in the holder, however many governors, proposals    *)
(* and unlocks there were since (HederaGovernor.sol:424-435,               *)
(* GODHolder.sol:24-57).  True when voters sign their own transactions.    *)
(***************************************************************************)
LockedBacking ==
  \A g \in Governors, p \in ProposalIds, a \in Accounts :
    Live(g, p) => ballots[g][p][a].weight <= godTokenForUsers[a]

(***************************************************************************)
(* The governors and the holder implement WeightedPolls: a stake is what   *)
(* the holder recorded, a poll a governor's proposal, a counted vote the   *)
(* weight of a ballot of a live proposal (HederaGovernor.sol:405-458,      *)
(* GODHolder.sol:17-88).  True when voters sign their own transactions.    *)
(***************************************************************************)
Polls == INSTANCE WeightedPolls WITH
  Voters  <- Accounts,
  Polls   <- Governors \X ProposalIds,
  stake   <- godTokenForUsers,
  counted <- [q \in Governors \X ProposalIds |-> [a \in Accounts |->
                IF Live(q[1], q[2]) THEN ballots[q[1]][q[2]][a].weight ELSE 0]],
  closed  <- {q \in Governors \X ProposalIds :
                proposals[q[1]][q[2]].status \in {"Executed", "Canceled"}}

ImplementsPolls == Polls!Spec

(***************************************************************************)
(* A governor can always give back the deposits it owes, so the transfer   *)
(* and the balance check of _cleanup never block a cancel or an execute    *)
(* (HederaGovernor.sol:454-458, 468-509, TokenHolder.sol:126-131).         *)
(***************************************************************************)
DepositsHeld ==
  \A g \in Governors :
    balance[g] >= Deposit * Cardinality({p \in ProposalIds : Live(g, p)})

(***************************************************************************)
(* While no burn takes the supply below what the thresholds in use need, a *)
(* governor with a proposal has a defined quorum: no executed threshold    *)
(* change can leave its other proposals in a state where every vote,       *)
(* cancel and execute reverts (HederaGovernor.sol:240-247, 386-396).       *)
(***************************************************************************)
QuorumDefinedForProposals ==
  \A g \in Governors :
    (\E p \in ProposalIds : proposals[g][p].status # "Unknown") =>
      QuorumDefined(totalSupply, quorumThreshold[g])

(***************************************************************************)
(* The outcome of a vote that has ended is only ever changed by a change   *)
(* of the supply or of the governor's own threshold: no late vote, lock,   *)
(* unlock or other proposal's end reaches it.                              *)
(***************************************************************************)
OutcomeStable ==
  [][\A g \in Governors, p \in ProposalIds :
       /\ State(g, p) \in {"Succeeded", "Defeated"}
       /\ totalSupply' = totalSupply
       /\ quorumThreshold'[g] = quorumThreshold[g]
       => State(g, p)' \in {State(g, p), "Executed", "Canceled"}]_vars

(***************************************************************************)
(* Every proposal that is created is executed or canceled in the end, and  *)
(* every hold on a voter's tokens is released: nothing reachable makes     *)
(* both cancel and execute revert for good.                                *)
(***************************************************************************)
ProposalsClose ==
  \A g \in Governors, p \in ProposalIds : Live(g, p) ~> ~Live(g, p)

HoldsReleased ==
  \A a \in Accounts : ~HasNoActiveProposals(a) ~> HasNoActiveProposals(a)

(***************************************************************************)
(* "Returns the quorum value based on the proposal ID"                     *)
(* (HederaGovernor.sol:236): a proposal whose vote has ended keeps its     *)
(* outcome until it is executed or canceled.                               *)
(***************************************************************************)
DecidedOutcomeIsFinal ==
  [][\A g \in Governors, p \in ProposalIds :
       State(g, p) \in {"Succeeded", "Defeated"} =>
         State(g, p)' \in {State(g, p), "Executed", "Canceled"}]_vars

(***************************************************************************)
(* "User's Proposals are active" (GODHolder.sol:31-32): an account with a  *)
(* ballot on a live proposal does not take tokens back.                    *)
(***************************************************************************)
UnlockNeedsNoOpenVote ==
  [][\A a \in Accounts :
       godTokenForUsers'[a] < godTokenForUsers[a] =>
         \A g \in Governors, p \in ProposalIds :
           ~(Live(g, p) /\ HasVoted(g, p, a))]_vars
=============================================================================
