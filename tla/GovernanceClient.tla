-------------------------- MODULE GovernanceClient --------------------------
(***************************************************************************)
(* The client side of governance: integrationTest/governance/governance.ts *)
(* and the end-to-end scenarios (e2e-test/step-definitions/), over the     *)
(* wrappers of e2e-test/business/.  A client takes one account through     *)
(* locking, proposing, voting, waiting, preparing and executing for one    *)
(* proposal after the other; every await is a step between which the other *)
(* accounts, the clock and the mirror node go on.  Any step may end in an  *)
(* exception (a revert, a network error): the script ends with it, a       *)
(* scenario goes on with the next, or even with its next step.             *)
(***************************************************************************)
EXTENDS HederaGovernor, AssetsHolder

CONSTANTS
  Gov,            \* the governor the client works with
  Treasury,       \* the account that proposes, votes, executes and cancels
  Kind,           \* [ProposalIds -> kind of proposal]
  Amount,         \* [ProposalIds -> Nat]: to transfer, mint or burn
  ScenarioLock,   \* what the scenarios lock ("20e8")
  Foreign,        \* the ids of other accounts' proposals
  Contested,      \* bound: proposals the others vote on
  MaxStops,       \* bound: exceptions
  Worlds          \* who the client is ("script" or "scenario"), its proposals
                  \* in order, and, as a bound, what the others do: "propose",
                  \* or "supply" for changes of the supply and donations

Kinds == {"associate", "transfer", "text", "upgrade", "create", "mint", "burn"}

ASSUME ClientAssumption ==
  /\ Gov \in Governors /\ Treasury \in Accounts
  /\ Worlds \subseteq [mode : {"script", "scenario"}, agenda : Seq(ProposalIds),
                       others : {"propose", "supply"}]
  /\ \A w \in Worlds :
       /\ w.agenda # <<>>
       /\ \A i, j \in DOMAIN w.agenda : w.agenda[i] = w.agenda[j] => i = j
  /\ IsFiniteSet(ProposalIds)
  /\ \A p \in ProposalIds : CallTarget[p] = NoTarget  \* they call the holder
  /\ Kind \in [ProposalIds -> Kinds] /\ Amount \in [ProposalIds -> Nat]
  /\ Contested \subseteq ProposalIds /\ Foreign \subseteq ProposalIds
  /\ ScenarioLock \in Nat /\ MaxStops \in Nat

VARIABLES
  mode,           \* whose steps these are
  agenda,         \* the client's proposals, in order
  others,         \* what the other accounts do, one of the Worlds
  item,           \* index in agenda
  at,             \* the step the client is about to take
  current,        \* "proposal" of the step definitions, or of the script
  known,          \* the amount the client read last
  lastToken,      \* the created token it fetched last, 0 for none
  allowance,      \* [spender -> Nat] of the client's governance tokens
  target,         \* [p]: the token that p's call to mint or burn names
  log,            \* the events of the ledger, in order
  todo,           \* proposals cancelAllProposals has left
  listed,         \* proposals it found created
  cleanup,        \* how far the cleanup task is
  stops           \* exceptions so far

run == <<mode, agenda, others, stops>>
place == <<item, at>>
memory == <<current, known, lastToken>>
books == <<allowance, target, log>>
cleanupVars == <<todo, listed, cleanup>>

clientVars == <<run, place, memory, books, cleanupVars>>

allVars == <<vars, assetVars, clientVars>>

NoProposalYet == "none"

-----------------------------------------------------------------------------
(* The flow of each kind of proposal *)

VoteFlow == <<"allow", "propose", "vote", "poll">>

TokenAssociationFlow == VoteFlow \o <<"execute">>
AssetTransferFlow    == VoteFlow \o <<"fund", "execute">>
TextFlow             == VoteFlow \o <<"execute">>
ContractUpgradeFlow  == VoteFlow \o <<"handOver", "execute">>
TokenCreateFlow      == VoteFlow \o <<"execute", "fetch">>
MintTokenFlow        == VoteFlow \o <<"execute">>
BurnTokenFlow        == VoteFlow \o <<"execute">>

Flow == [associate |-> TokenAssociationFlow, transfer |-> AssetTransferFlow,
         text |-> TextFlow, upgrade |-> ContractUpgradeFlow,
         create |-> TokenCreateFlow, mint |-> MintTokenFlow,
         burn |-> BurnTokenFlow]

(* What comes after the steps for one proposal. *)
AfterItem ==
  IF item < Len(agenda)
  THEN at' = "allow" /\ item' = item + 1
  ELSE /\ at' = IF mode = "script" THEN "claim" ELSE "cleanup"
       /\ item' = item

NextStep ==
  LET flow == Flow[Kind[agenda[item]]]
      i == CHOOSE j \in DOMAIN flow : flow[j] = at
  IN  IF i < Len(flow) THEN at' = flow[i + 1] /\ item' = item ELSE AfterItem

-----------------------------------------------------------------------------
(* What each kind of proposal calls *)

AssociationCall(p) == Kind[p] = "associate" /\ Associate
(* A slip to catch: everything the holder has is paid out. *)
AssetTransferCallOfAll(p) == Kind[p] = "transfer" /\ TransferAsset(heldAssets)

AssetTransferCall(p) == Kind[p] = "transfer" /\ TransferAsset(Amount[p])
TextCall(p) == Kind[p] = "text" /\ SetText
UpgradeCall(p) == Kind[p] = "upgrade" /\ UpgradeProxy
TokenCreateCall(p) == Kind[p] = "create" /\ CreateToken

(* A slip to catch: the token is looked up when the call is made. *)
MintTokenCallOfLatest(p) ==
  Kind[p] = "mint" /\ MintToken(Len(tokenSupplies), Amount[p])

MintTokenCall(p) == Kind[p] = "mint" /\ MintToken(target[p], Amount[p])
BurnTokenCall(p) == Kind[p] = "burn" /\ BurnToken(target[p], Amount[p])

HolderCall(p) ==
  \/ AssociationCall(p) \/ AssetTransferCall(p) \/ TextCall(p)
  \/ UpgradeCall(p)
  \/ TokenCreateCall(p) \/ MintTokenCall(p) \/ BurnTokenCall(p)

(* execute: the governor's transaction with the holder's call in it. *)
ExecuteProposal(p) ==
  /\ Execute(Gov, p)
  /\ HolderCall(p)
  /\ log' = log \o (IF Kind[p] = "create" THEN <<<<"token", p>>>> ELSE <<>>)
                \o <<<<"closed", p>>>>

(* cancelProposal, by the account that created it.                          *)
CancelProposal(a, p) ==
  /\ Cancel(a, Gov, p)
  /\ log' = Append(log, <<"closed", p>>)
  /\ UNCHANGED assetVars

-----------------------------------------------------------------------------
(* Locking *)

ChainUnchanged == UNCHANGED <<vars, assetVars>>

(* A slip to catch: the deposit is taken for locked. *)
MissingButDeposit == Monus(Quorum(Gov), BalanceOfVoter(Treasury) + Deposit)

(* lockTokenForVotingIfNeeded reads the quorum and the locked amount. *)
MissingVotingPower == Monus(Quorum(Gov), BalanceOfVoter(Treasury))

ReadQuorum ==
  /\ at = "quorum" /\ mode = "script"
  /\ QuorumDefined(totalSupply, quorumThreshold[Gov])
  /\ known' = MissingVotingPower
  /\ at' = IF known' > 0 THEN "allowLock" ELSE "allow"
  /\ ChainUnchanged
  /\ UNCHANGED <<run, books, cleanupVars, item, current, lastToken>>

(* The scenarios approve a fixed amount whatever is locked already. *)
SetUpScenarioLock ==
  /\ at = "quorum" /\ mode = "scenario"
  /\ known' = ScenarioLock
  /\ at' = "allowLock"
  /\ ChainUnchanged
  /\ UNCHANGED <<run, books, cleanupVars, item, current, lastToken>>

SetupAllowanceForTokenLocking ==
  /\ at = "allowLock"
  /\ allowance' = [allowance EXCEPT ![Holder] = known]
  /\ at' = "lock"
  /\ ChainUnchanged
  /\ UNCHANGED <<run, memory, cleanupVars, item, target, log>>

LockForVoting ==
  /\ at = "lock"
  /\ \/ /\ mode = "scenario" => BalanceOfVoter(Treasury) < known
        /\ allowance[Holder] >= known
        /\ Lock(Treasury, known)
        /\ allowance' = [allowance EXCEPT ![Holder] = @ - known]
     \/ /\ mode = "scenario" /\ BalanceOfVoter(Treasury) >= known
        /\ UNCHANGED <<vars, allowance>>
  /\ at' = "allow"
  /\ UNCHANGED <<assetVars, run, memory, cleanupVars, item, target, log>>

-----------------------------------------------------------------------------
(* One proposal *)

SetupProposalCreationAllowance ==
  /\ at = "allow"
  /\ allowance' = [allowance EXCEPT ![Gov] = Deposit]
  /\ NextStep
  /\ ChainUnchanged
  /\ UNCHANGED <<run, memory, cleanupVars, target, log>>

(* The proposal's id is new: its title holds a random number.  A mint or   *)
(* burn names the token the client fetched last.                           *)
Propose ==
  /\ at = "propose"
  /\ LET p == agenda[item]
     IN  /\ CreateProposal(Treasury, Gov, p)
         /\ current' = p
         /\ Kind[p] \in {"mint", "burn"} => lastToken # 0
         /\ target' = [target EXCEPT ![p] = lastToken]
         /\ log' = Append(log, <<"created", p>>)
  /\ allowance[Gov] >= Deposit
  /\ allowance' = [allowance EXCEPT ![Gov] = @ - Deposit]
  /\ NextStep
  /\ UNCHANGED <<assetVars, run, cleanupVars, known, lastToken>>

Vote ==
  /\ at = "vote" /\ current # NoProposalYet
  /\ CastVote(Treasury, Gov, current, "For")
  /\ NextStep
  /\ UNCHANGED <<assetVars, run, memory, books, cleanupVars>>

(* isSucceeded: getStateWithTimeout polls the state until it is Succeeded  *)
(* or Defeated, or the time is up; the state it returns then is the one    *)
(* read before the last delay.                                             *)
PollSucceeded ==
  /\ at = "poll" /\ current # NoProposalYet
  /\ State(Gov, current) = "Succeeded"
  /\ NextStep
  /\ ChainUnchanged
  /\ UNCHANGED <<run, memory, books, cleanupVars>>

PollGivesUp ==
  /\ at = "poll" /\ mode = "script"
  /\ at' = "cancel"
  /\ ChainUnchanged
  /\ UNCHANGED <<run, memory, books, cleanupVars, item>>

(* waitForRequiredState returns nothing: the scenario goes on anyway. *)
WaitEnds ==
  /\ at = "poll" /\ mode = "scenario" /\ current # NoProposalYet
  /\ NextStep
  /\ ChainUnchanged
  /\ UNCHANGED <<run, memory, books, cleanupVars>>

TransferAssets ==
  /\ at = "fund" /\ current # NoProposalYet
  /\ ReceiveAssets(Amount[agenda[item]])
  /\ NextStep
  /\ UNCHANGED <<vars, run, memory, books, cleanupVars>>

(* A scenario decodes the proposal it has, and does nothing when that is   *)
(* not an upgrade.                                                         *)
ChangeAdmin ==
  /\ at = "handOver" /\ current # NoProposalYet
  /\ IF Kind[current] = "upgrade" THEN ReceiveProxy ELSE UNCHANGED assetVars
  /\ NextStep
  /\ UNCHANGED <<vars, run, memory, books, cleanupVars>>

ExecuteCurrent ==
  /\ at = "execute" /\ current # NoProposalYet
  /\ ExecuteProposal(current)
  /\ NextStep
  /\ UNCHANGED <<run, memory, cleanupVars, allowance, target>>

CancelCurrent ==
  /\ at = "cancel"
  /\ CancelProposal(Treasury, current)
  /\ IF Kind[current] = "create" THEN at' = "fetch" /\ item' = item
                                 ELSE AfterItem
  /\ UNCHANGED <<run, memory, cleanupVars, allowance, target>>

(* getCreatedTokens: the events the mirror node has so far.  The script    *)
(* ends here, its tokens locked, when there is none.                       *)
SeenTokens(n) == Cardinality({i \in 1 .. n : log[i][1] = "token"})

FetchLastToken ==
  /\ at = "fetch"
  /\ \E n \in 0 .. Len(log) :
       LET token == SeenTokens(n)
       IN  /\ lastToken' = token
           /\ IF token = 0 /\ mode = "script"
              THEN at' = "end" /\ item' = item
              ELSE AfterItem
  /\ ChainUnchanged
  /\ UNCHANGED <<run, books, cleanupVars, current, known>>

-----------------------------------------------------------------------------
(* The end of the script and the cleanup task *)

(* checkAndClaimGodTokens: may the user claim, and how much? *)
CheckClaim ==
  /\ at = "claim"
  /\ known' = BalanceOfVoter(Treasury)
  /\ at' = IF HasNoActiveProposals(Treasury) THEN "unlock" ELSE "end"
  /\ ChainUnchanged
  /\ UNCHANGED <<run, books, cleanupVars, item, current, lastToken>>

RevertTokens ==
  /\ at = "unlock"
  /\ Unlock(Treasury, known)
  /\ at' = "end"
  /\ UNCHANGED <<assetVars, run, memory, books, cleanupVars, item>>

(* It read the amount and the holds in two calls: the claim may revert. *)
ClaimFails ==
  /\ at = "unlock"
  /\ known = 0 \/ ~HasNoActiveProposals(Treasury)
  /\ at' = "end"
  /\ ChainUnchanged
  /\ UNCHANGED <<run, memory, books, cleanupVars, item>>

Seen(n, event) == {p \in ProposalIds : \E i \in 1 .. n : log[i] = <<event, p>>}

(* cancelAllProposals: created and not closed, as far as the mirror knows. *)
ListProposals ==
  /\ at = "cleanup"
  /\ \E n \in 0 .. Len(log) :
       /\ listed' = Seen(n, "created")
       /\ todo' = Seen(n, "created") \ Seen(n, "closed")
  /\ at' = "clean"
  /\ cleanup' = "running"
  /\ ChainUnchanged
  /\ UNCHANGED <<run, memory, books, item>>

(* A slip to catch: defeated proposals are left alone too. *)
SkipsDefeated(p) == State(Gov, p) \in {"Canceled", "Executed", "Defeated"}

NeedsNoCancel(p) == State(Gov, p) \in {"Canceled", "Executed"}

CleanOne ==
  /\ at = "clean"
  /\ \E p \in todo :
       /\ todo' = todo \ {p}
       /\ IF NeedsNoCancel(p) THEN at' = at /\ current' = current
                              ELSE at' = "cancelOne" /\ current' = p
  /\ ChainUnchanged
  /\ UNCHANGED <<run, books, item, known, lastToken, listed, cleanup>>

CancelOne ==
  /\ at = "cancelOne"
  /\ CancelProposal(Treasury, current)
  /\ at' = "clean"
  /\ UNCHANGED <<run, memory, cleanupVars, item, allowance, target>>

(* A cancel that reverts, of another account's proposal or of one executed *)
(* since its state was read, ends the loop; the task goes on to the claim. *)
AbortCancels ==
  /\ at = "cancelOne"
  /\ \/ proposals[Gov][current].creator # Treasury
     \/ ~Cancellable(Gov, current)
  /\ at' = "claim"
  /\ cleanup' = "aborted"
  /\ ChainUnchanged
  /\ UNCHANGED <<run, memory, books, item, todo, listed>>

CancelsDone ==
  /\ at = "clean" /\ todo = {}
  /\ at' = "claim"
  /\ cleanup' = "finished"
  /\ ChainUnchanged
  /\ UNCHANGED <<run, memory, books, item, todo, listed>>

-----------------------------------------------------------------------------
(* Exceptions *)

(* The script ends; the cleanup task can be run afterwards. *)
ScriptStops ==
  /\ mode = "script" /\ at \notin {"end", "clean", "cancelOne"}
  /\ cleanup = "none" /\ stops < MaxStops
  /\ at' = "cleanup"
  /\ stops' = stops + 1
  /\ ChainUnchanged
  /\ UNCHANGED <<memory, books, cleanupVars, mode, agenda, others, item>>

(* onError is not awaited: what it throws does not fail the step, and with *)
(* the error flag set it throws nothing.  The scenario's next step is      *)
(* taken with the proposal of an earlier one.                              *)
ErrorIsSwallowed ==
  /\ mode = "scenario" /\ at \in {"propose", "vote", "execute"}
  /\ stops < MaxStops
  /\ NextStep
  /\ stops' = stops + 1
  /\ ChainUnchanged
  /\ UNCHANGED <<memory, books, cleanupVars, mode, agenda, others>>

(* A step that throws fails its scenario, and the next one begins. *)
ScenarioFails ==
  /\ mode = "scenario" /\ stops < MaxStops
  /\ \/ at \in {"allow", "fund", "handOver", "fetch"} /\ AfterItem
     \/ at = "poll" /\ current = NoProposalYet /\ AfterItem
     \/ at \in {"allowLock", "lock"} /\ at' = "allow" /\ item' = item
  /\ stops' = stops + 1
  /\ ChainUnchanged
  /\ UNCHANGED <<memory, books, cleanupVars, mode, agenda, others>>

-----------------------------------------------------------------------------
(* Everyone else *)

OthersUnchanged ==
  UNCHANGED <<run, place, memory, cleanupVars, allowance, target>>

AnyoneExecutes ==
  /\ \E p \in ProposalIds : ExecuteProposal(p)
  /\ OthersUnchanged

(* Another account's proposal of the same governor, which may be canceled. *)
OtherProposes(a, p) ==
  /\ others = "propose"
  /\ p \in Foreign
  /\ CreateProposal(a, Gov, p)
  /\ log' = Append(log, <<"created", p>>)
  /\ UNCHANGED assetVars /\ OthersUnchanged

OtherCancels(a, p) ==
  /\ CancelProposal(a, p)
  /\ OthersUnchanged

OthersAct ==
  /\ \/ others = "supply" /\ TokenNext
     \/ Tick
     \/ \E a \in Accounts \ {Treasury}, n \in Amounts : Lock(a, n)
     \/ \E a \in Accounts \ {Treasury}, r \in Relayers, p \in Contested,
          s \in {"For", "Against"} : CastVoteBySig(a, r, Gov, p, s)
  /\ UNCHANGED <<assetVars, log>> /\ OthersUnchanged

-----------------------------------------------------------------------------
ClientInit ==
  /\ Init /\ AssetsInit
  /\ \E w \in Worlds : mode = w.mode /\ agenda = w.agenda /\ others = w.others
  /\ item = 1
  /\ at = "quorum"
  /\ current = NoProposalYet
  /\ known = 0 /\ lastToken = 0
  /\ allowance = [s \in {Holder, Gov} |-> 0]
  /\ target = [p \in ProposalIds |-> 0]
  /\ log = [t \in 1 .. EarlierTokens |-> <<"token", NoProposalYet>>]
  /\ todo = {} /\ listed = {}
  /\ cleanup = "none"
  /\ stops = 0

LockNext == ReadQuorum \/ SetUpScenarioLock \/ SetupAllowanceForTokenLocking
            \/ LockForVoting

ItemNext ==
  \/ SetupProposalCreationAllowance \/ Propose \/ Vote
  \/ PollSucceeded \/ PollGivesUp \/ WaitEnds
  \/ TransferAssets \/ ChangeAdmin \/ ExecuteCurrent \/ CancelCurrent
  \/ FetchLastToken

CleanupNext ==
  \/ CheckClaim \/ RevertTokens \/ ClaimFails
  \/ ListProposals \/ CleanOne \/ CancelOne \/ AbortCancels \/ CancelsDone

ErrorNext == ScriptStops \/ ErrorIsSwallowed \/ ScenarioFails

ClientNext ==
  \/ LockNext \/ ItemNext \/ CleanupNext \/ ErrorNext
  \/ AnyoneExecutes
  \/ \E a \in Accounts \ {Treasury}, p \in ProposalIds :
       OtherProposes(a, p) \/ OtherCancels(a, p)
  \/ OthersAct

ClientSpec == ClientInit /\ [][ClientNext]_allVars

-----------------------------------------------------------------------------
(* Properties *)

Executed(p) == proposals[Gov][p].status = "Executed"

Paid ==
  [p \in ProposalIds |->
     IF Kind[p] = "transfer" /\ Executed(p) THEN Amount[p] ELSE 0]

ExecutedOf(kind) == {p \in ProposalIds : Kind[p] = kind /\ Executed(p)}

(***************************************************************************)
(* Whoever executes, retries, cancels or stops in between, the receiver    *)
(* has been paid exactly what the executed transfer proposals ask for,     *)
(* each of them once (AssetsHolder.sol:101-120, HederaGovernor.sol:376-396,*)
(* governance.ts:105-163).                                                 *)
(***************************************************************************)
TransfersPaidOnce == paidAssets = Total(ProposalIds, Paid)

(***************************************************************************)
(* The tokens the holder created and their supplies are those the executed *)
(* proposals asked for: the token a mint or burn names when it is proposed *)
(* is still the token when it is executed, although the client learnt it   *)
(* from a mirror node that lags (governance.ts:532-556).                   *)
(***************************************************************************)
SuppliesVoted ==
  /\ Len(tokenSupplies) = EarlierTokens + Cardinality(ExecutedOf("create"))
  /\ \A t \in DOMAIN tokenSupplies :
       tokenSupplies[t] + Total({p \in ExecutedOf("burn") : target[p] = t}, Amount) =
         CreatedSupply + Total({p \in ExecutedOf("mint") : target[p] = t}, Amount)

(***************************************************************************)
(* The script hands the proxy over before it executes the upgrade, so an   *)
(* exception there leaves the proxy with the holder.  Nothing else does: a *)
(* script without an exception has the proxy's admin back after each       *)
(* proposal, and an executed upgrade always gives it back                  *)
(* (governance.ts:233-243, AssetsHolder.sol:126-144).                      *)
(***************************************************************************)
ProxyReturned ==
  proxyAdmin = AssetsHolderId =>
    /\ \E p \in ProposalIds : Kind[p] = "upgrade" /\ ~Executed(p)
    /\ mode = "script" /\ stops = 0 => at = "execute" /\ Kind[current] = "upgrade"

(***************************************************************************)
(* What the script locks is enough: while the supply stays, a proposal it  *)
(* voted for and nobody voted against is not defeated                      *)
(* (governance.ts:29-67).                                                  *)
(***************************************************************************)
LockedEnough ==
  \A p \in ProposalIds :
    /\ mode = "script" /\ others # "supply"
    /\ HasVoted(Gov, p, Treasury) /\ Tally(Gov, p, "Against") = 0
    => State(Gov, p) # "Defeated"

(***************************************************************************)
(* A cleanup task that was not aborted and whose mirror node knew all of   *)
(* the client's proposals ends with none of them open, whatever the others *)
(* voted, executed and canceled since it listed them, and with tokens left *)
(* locked only if another account's proposal, open at that moment, holds   *)
(* them (HederaGovernor.ts:556-592, GodHolder.ts:46-54).                   *)
(***************************************************************************)
OwnProposals == {p \in ProposalIds : proposals[Gov][p].creator = Treasury}

HeldByOthers ==
  \E p \in ProposalIds \ OwnProposals :
    Live(Gov, p) /\ activeProposalsForUsers[Treasury][p] > 0

CleanupFrees ==
  [][/\ cleanup = "finished" /\ OwnProposals \subseteq listed
     /\ at # "end" /\ at' = "end"
     => /\ \A p \in OwnProposals : ~Live(Gov, p)'
        /\ godTokenForUsers'[Treasury] > 0 => HeldByOthers']_allVars
=============================================================================
