----------------------------- MODULE SafeClient -----------------------------
(***************************************************************************)
(* The clients of a DAO and its safe: the flows of                         *)
(* integrationTest/dao/multiSigDAO.ts and the scenarios of                 *)
(* MultiSigDAO.feature with the steps of MultiSigDAOTest.ts.  A flow is a  *)
(* list of transactions and reads, each awaited; one that throws ends the  *)
(* script, which is then run again on the same DAO, or its scenario.       *)
(* Between two of them others use the same DAO and its safes.              *)
(***************************************************************************)
EXTENDS MultisigDAO

CONSTANTS
  Client,        \* the account that proposes
  FirstOwner, SecondOwner,   \* the owners, in the order they approve
  Replacement,   \* the account the last scenario makes an owner
  ProxyAdmin,    \* who administers the DAO's proxy
  FeeUser,       \* the fee configuration's controller
  MaxStops,      \* bound: exceptions
  Worlds         \* what the client runs and what the others do

(* The functions of the script, and the scenarios of the feature. *)
ScriptNames == {"nft", "ft", "hbar", "batch", "fee", "upgrade", "text"}

ScenarioNames ==
  {"pending", "more", "journey", "threshold", "remove", "add", "swap"}

ASSUME ClientAssumption ==
  /\ {Client, FirstOwner, SecondOwner, Replacement} \subseteq Accounts
  /\ ProxyAdmin \notin Safes /\ FeeUser \notin Safes
  /\ MaxStops \in Nat
  /\ \A w \in Worlds :
       /\ w.agenda \in Seq(IF w.client = "script" THEN ScriptNames ELSE ScenarioNames)
       /\ w.safes \subseteq Safes /\ w.calls \subseteq Calls
       /\ w.safes = {} => w.calls = {}
       /\ w.nonces \in 0..MaxNonce /\ w.ahead \in Nat /\ w.crossing \in BOOLEAN

(* DAO_OWNERS_INFO: all owners the script's DAO has, whose approvals       *)
(* suffice at its first threshold (multiSigDAO.ts:41-51).                  *)
ASSUME OwnersAssumption ==
  /\ FirstOwner # SecondOwner
  /\ {FirstOwner, SecondOwner} \subseteq ToSet(InitialOwners[FirstSafe])
  /\ InitialThreshold[FirstSafe] <= 2

VARIABLES
  world,         \* one of Worlds
  line, at,      \* the flow, and the step it is about to take
  gnosisSafe,    \* the safe the flow has asked the DAO for
  txnHash,       \* <<what its last proposal returned>>
  listOfOwners, balanceInSafe,      \* what it has read
  associated,    \* the safes that accept the token (external)
  admin,         \* the administrator of the DAO's proxy (external)
  controller,    \* the controller of a factory's fees
  allowance,     \* what the treasury lets HederaMultiSend take (external)
  stops

daoVars == <<safeVars, hederaGnosisSafe, transactions>>
placeVars == <<world, line, at>>
readVars == <<gnosisSafe, txnHash, listOfOwners, balanceInSafe>>
effectVars == <<associated, admin, controller, allowance>>
allVars == <<vars, placeVars, readVars, effectVars, stops>>

-----------------------------------------------------------------------------
(* The calls that are proposed *)

NoCall ==
  [kind |-> "Text", prev |-> Sentinel, owner |-> FirstOwner,
   newOwner |-> FirstOwner, threshold |-> 0, amount |-> 0]

TextCall == NoCall

AddOwnerCall(t, owner) ==
  [NoCall EXCEPT !.kind = "AddOwner", !.threshold = t, !.owner = owner]

ChangeThresholdCall(t) == [NoCall EXCEPT !.kind = "ChangeThreshold", !.threshold = t]

RemoveOwnerCall(t, prev, owner) ==
  [NoCall EXCEPT !.kind = "RemoveOwner", !.threshold = t, !.prev = prev,
                 !.owner = owner]

SwapOwnerCall(prev, owner, newOwner) ==
  [NoCall EXCEPT !.kind = "SwapOwner", !.prev = prev, !.owner = owner,
                 !.newOwner = newOwner]

TransferCall(n) == [NoCall EXCEPT !.kind = "Transfer", !.amount = n]

AssociateCall == [NoCall EXCEPT !.kind = "Associate"]

UpgradeProxyCall == [NoCall EXCEPT !.kind = "UpgradeProxy"]

BatchCall == [NoCall EXCEPT !.kind = "Batch"]

UpdateFeeConfigCall == [NoCall EXCEPT !.kind = "UpdateFeeConfig"]

(* The calls that are addressed to the safe the DAO has at the proposal.   *)
ToSafe == {"Transfer", "AddOwner", "RemoveOwner", "SwapOwner", "ChangeThreshold",
           "Associate", "UpgradeProxy"}

-----------------------------------------------------------------------------
(* The flows *)

Step(do, arg) == [do |-> do, arg |-> arg]

GetSafe == Step("getSafe", 0)
Propose(call) == Step("propose", call)
Approve(owner) == Step("approve", owner)
Execute == Step("execute", 0)
Fund(n) == Step("fund", n)
CheckState(s) == Step("checkState", s)

ApproveByAll == <<Approve(SecondOwner), Approve(FirstOwner)>>

AssociateSafe == <<GetSafe, Propose(AssociateCall)>> \o ApproveByAll \o <<Execute>>

(* A slip to catch: the safe is funded when its transfer is approved. *)
TokenTransferFundedLater ==
  AssociateSafe \o <<Propose(TransferCall(1))>> \o ApproveByAll
    \o <<Fund(1), Execute>>

TokenTransferFlow ==
  AssociateSafe \o <<Fund(1), Propose(TransferCall(1))>> \o ApproveByAll
    \o <<Execute>>

(* The same with the one serial number of a non-fungible token. *)
NFTTransferFlow ==
  AssociateSafe \o <<Fund(1), Propose(TransferCall(1))>> \o ApproveByAll
    \o <<Execute>>

HbarTransferFlow ==
  <<GetSafe, Propose(TransferCall(1))>> \o ApproveByAll \o <<Fund(1), Execute>>

BatchFlow ==
  <<GetSafe, Propose(BatchCall)>> \o ApproveByAll
    \o <<Step("allowMultiSend", 1), Execute>>

FeeConfigFlow ==
  <<GetSafe, Propose(UpdateFeeConfigCall)>> \o ApproveByAll
    \o <<Step("handController", 0), Execute>>

(* A slip to catch: the proxy is handed over before the approvals. *)
UpgradeHandedFirst ==
  <<GetSafe, Propose(UpgradeProxyCall), Step("handAdmin", 0)>> \o ApproveByAll
    \o <<Execute>>

UpgradeFlow ==
  <<GetSafe, Propose(UpgradeProxyCall)>> \o ApproveByAll
    \o <<Step("handAdmin", 0), Execute>>

TextFlow == <<GetSafe, Propose(TextCall)>> \o ApproveByAll \o <<Execute>>

(* "User get n approval from DAO owners" *)
Approvals(n) ==
  IF n = 1 THEN <<Approve(FirstOwner)>> ELSE <<Approve(FirstOwner), Approve(SecondOwner)>>

AssociateAndFund ==
  <<Propose(AssociateCall)>> \o Approvals(2) \o <<Execute, Fund(2), Step("fetch", 0)>>

ApprovedAndExecuted(n) ==
  <<CheckState("Pending")>> \o Approvals(n) \o <<CheckState("Approved"), Execute>>

NotEnoughApprovals ==
  <<GetSafe, Propose(TransferCall(1)), CheckState("Pending")>> \o Approvals(1)
    \o <<CheckState("Pending")>>

MoreThanTheSafeHas ==
  AssociateAndFund \o <<Step("proposeMore", 1)>> \o Approvals(2)
    \o <<Step("tryExecute", 0)>>

TransferJourney ==
  <<GetSafe>> \o AssociateAndFund \o <<Propose(TransferCall(1))>>
    \o ApprovedAndExecuted(2) \o <<CheckState("Executed")>>

ThresholdScenario ==
  <<GetSafe, Propose(ChangeThresholdCall(1))>> \o ApprovedAndExecuted(2)
    \o <<Step("checkThreshold", 1)>>

RemoveScenario ==
  <<Step("list", 0), Step("proposeRemove", 1)>> \o ApprovedAndExecuted(2)
    \o <<Step("checkCount", 1)>>

AddScenario ==
  <<Step("list", 0), Propose(AddOwnerCall(1, SecondOwner))>>
    \o ApprovedAndExecuted(1) \o <<Step("checkCount", 2)>>

SwapScenario ==
  <<Step("list", 0), Step("proposeSwap", 0)>> \o ApprovedAndExecuted(2)
    \o <<Step("checkSwapped", 0)>>

(* initDAO has run before. *)
Flow(name) ==
  CASE name = "nft"       -> NFTTransferFlow
    [] name = "ft"        -> TokenTransferFlow
    [] name = "hbar"      -> HbarTransferFlow
    [] name = "batch"     -> BatchFlow
    [] name = "fee"       -> FeeConfigFlow
    [] name = "upgrade"   -> UpgradeFlow
    [] name = "text"      -> TextFlow
    [] name = "pending"   -> NotEnoughApprovals
    [] name = "more"      -> MoreThanTheSafeHas
    [] name = "journey"   -> TransferJourney
    [] name = "threshold" -> ThresholdScenario
    [] name = "remove"    -> RemoveScenario
    [] name = "add"       -> AddScenario
    [] name = "swap"      -> SwapScenario

Running == line <= Len(world.agenda)

This == Flow(world.agenda[line])[at]

Now(do) == Running /\ This.do = do

NextStep ==
  /\ IF at < Len(Flow(world.agenda[line])) THEN at' = at + 1 /\ line' = line
                                           ELSE at' = 1 /\ line' = line + 1
  /\ world' = world

-----------------------------------------------------------------------------
(* The steps *)

GetGnosisSafe ==
  /\ Now("getSafe")
  /\ gnosisSafe' = hederaGnosisSafe
  /\ NextStep
  /\ UNCHANGED <<daoVars, txnHash, listOfOwners, balanceInSafe, effectVars, stops>>

ProposeCall(call) ==
  /\ ProposeTransaction(Client, call)
  /\ txnHash' = <<NextHash(call)>>
  /\ NextStep
  /\ UNCHANGED <<gnosisSafe, listOfOwners, balanceInSafe, effectVars, stops>>

(* removeOwner and swapOwner name the first two owners that were read. *)
ProposeStep ==
  \/ Now("propose") /\ ProposeCall(This.arg)
  \/ Now("proposeMore") /\ ProposeCall(TransferCall(balanceInSafe + This.arg))
  \/ /\ Now("proposeRemove") /\ Len(listOfOwners) >= 2
     /\ ProposeCall(RemoveOwnerCall(This.arg, listOfOwners[1], listOfOwners[2]))
  \/ /\ Now("proposeSwap") /\ Len(listOfOwners) >= 2
     /\ ProposeCall(SwapOwnerCall(listOfOwners[1], listOfOwners[2], Replacement))

(* The safe that was asked for takes the approval of any hash; it is of no *)
(* use to the hash of another safe.                                        *)
ApproveStep ==
  /\ Now("approve") /\ txnHash # <<>>
  /\ ApproveHash(gnosisSafe, This.arg, txnHash[1])
  /\ NextStep
  /\ UNCHANGED <<hederaGnosisSafe, transactions, readVars, effectVars, stops>>

-----------------------------------------------------------------------------
(* What the safe computes from the record the client passes it: a call     *)
(* that names another safe is in no hash of this one.                      *)
HashAt(s, h) == [h EXCEPT !.safe = s]

CanBeHashed(s, h) == s = h.safe \/ h.call.kind \notin ToSafe

(* upgradeProxy, associateToken, and the calls on other contracts. *)
OtherCall(h) ==
  /\ UNCHANGED <<owners, threshold, assets, hederaGnosisSafe, transactions>>
  /\ \/ /\ h.call.kind = "Associate"
        /\ associated' = associated \cup {h.safe}
        /\ UNCHANGED <<admin, controller, allowance>>
     \/ /\ h.call.kind = "UpgradeProxy" /\ admin = h.safe
        /\ admin' = ProxyAdmin
        /\ UNCHANGED <<associated, controller, allowance>>
     \/ /\ h.call.kind = "UpdateFeeConfig" /\ controller = h.safe
        /\ UNCHANGED effectVars
     \/ /\ h.call.kind = "Batch" /\ allowance >= 1
        /\ allowance' = allowance - 1
        /\ UNCHANGED <<associated, admin, controller>>

ExecuteAny(h) ==
  \/ ExecuteTransaction(h) /\ UNCHANGED effectVars
  \/ MarkExecuted(h) /\ OtherCall(h)

ExecuteStep ==
  /\ Now("execute") /\ txnHash # <<>>
  /\ CanBeHashed(gnosisSafe, txnHash[1])
  /\ ExecuteAny(HashAt(gnosisSafe, txnHash[1]))
  /\ NextStep
  /\ UNCHANGED <<readVars, stops>>

(* The scenario catches the error, and an execution will do as well. *)
TryExecute ==
  /\ Now("tryExecute") /\ txnHash # <<>>
  /\ \/ ExecuteAny(HashAt(gnosisSafe, txnHash[1]))
     \/ UNCHANGED <<daoVars, effectVars>>
  /\ NextStep
  /\ UNCHANGED <<readVars, stops>>

-----------------------------------------------------------------------------
(* HBAR need no association. *)
FundSafe ==
  /\ Now("fund")
  /\ gnosisSafe \in associated \/ world.agenda[line] = "hbar"
  /\ Deposit(gnosisSafe, This.arg)
  /\ NextStep
  /\ UNCHANGED <<hederaGnosisSafe, transactions, readVars, effectVars, stops>>

AllowMultiSend ==
  /\ Now("allowMultiSend")
  /\ allowance' = This.arg
  /\ NextStep
  /\ UNCHANGED <<daoVars, readVars, associated, admin, controller, stops>>

(* The client's account keeps the role that lets it name a controller. *)
ChangeFeeConfigController ==
  /\ Now("handController")
  /\ controller' = gnosisSafe
  /\ NextStep
  /\ UNCHANGED <<daoVars, readVars, associated, admin, allowance, stops>>

ChangeAdmin ==
  /\ Now("handAdmin")
  /\ admin = ProxyAdmin
  /\ admin' = gnosisSafe
  /\ NextStep
  /\ UNCHANGED <<daoVars, readVars, associated, controller, allowance, stops>>

GetListOfOwners ==
  /\ Now("list")
  /\ listOfOwners' = owners[gnosisSafe]
  /\ NextStep
  /\ UNCHANGED <<daoVars, gnosisSafe, txnHash, balanceInSafe, effectVars, stops>>

FetchBalanceFromSafe ==
  /\ Now("fetch")
  /\ gnosisSafe' = hederaGnosisSafe
  /\ balanceInSafe' = assets[hederaGnosisSafe]
  /\ NextStep
  /\ UNCHANGED <<daoVars, txnHash, listOfOwners, effectVars, stops>>

CheckHolds ==
  LET read == owners[gnosisSafe]
  IN  CASE This.do = "checkState"     -> State(txnHash[1]) = This.arg
        [] This.do = "checkThreshold" -> threshold[gnosisSafe] = This.arg
        [] This.do = "checkCount"     -> Len(read) = This.arg
        [] This.do = "checkSwapped"   -> /\ read[2] # listOfOwners[2]
                                         /\ read[1] = listOfOwners[1]

Checks == {"checkState", "checkThreshold", "checkCount", "checkSwapped"}

Check ==
  /\ Running /\ This.do \in Checks
  /\ This.do = "checkState" => txnHash # <<>>
  /\ CheckHolds
  /\ NextStep
  /\ UNCHANGED <<daoVars, readVars, effectVars, stops>>

IsScript == world.client = "script"

(* A transaction fails, times out, or the check after it does.             *)
StepThrows ==
  /\ Running /\ stops < MaxStops
  /\ stops' = stops + 1
  /\ line' = (IF IsScript THEN 1 ELSE line + 1) /\ at' = 1 /\ world' = world
  /\ UNCHANGED <<daoVars, readVars, effectVars>>

-----------------------------------------------------------------------------
(* Everyone else *)

OthersDone == UNCHANGED <<placeVars, readVars, stops>>

(* What the owners of the moment and anyone do with the calls of the       *)
(* world; approvals may run ahead of the nonces, and cross to a safe that  *)
(* the hash is not of.                                                     *)
HashesOfOthers ==
  {[safe |-> s, call |-> c, nonce |-> n] :
     s \in world.safes, c \in world.calls, n \in 1..world.nonces}

OthersNext ==
  /\ \/ /\ UNCHANGED <<hederaGnosisSafe, transactions>>
        /\ \/ \E s \in world.safes, h \in HashesOfOthers, a \in Accounts :
                /\ s = h.safe \/ world.crossing
                /\ h.nonce <= txnNonce[h.safe] + world.ahead
                /\ ApproveHash(s, a, h)
           \/ \E s \in world.safes : assets[s] < world.deposits /\ Deposit(s, 1)
           \/ \E s \in world.safes :
                /\ txnNonce[s] < world.nonces /\ GetTxnHash(s)
                /\ UNCHANGED <<owners, threshold, approvedHashes, executedHash, assets>>
     \/ \E h \in HashesOfOthers : ExecuteTransaction(h)
     \/ \E c \in world.calls : /\ txnNonce[hederaGnosisSafe] < world.nonces
                               /\ ProposeTransaction(SecondOwner, c)
     \/ \E s \in world.safes : UpgradeHederaGnosisSafe(s)
  /\ UNCHANGED effectVars /\ OthersDone

(* Anyone may execute what is approved. *)
OthersExecute ==
  /\ world.executors
  /\ \E h \in DOMAIN transactions : ExecuteAny(h)
  /\ OthersDone

-----------------------------------------------------------------------------
ClientInit ==
  /\ Init
  /\ world \in Worlds
  /\ line = 1 /\ at = 1
  /\ gnosisSafe = FirstSafe /\ txnHash = <<>>
  /\ listOfOwners = <<>> /\ balanceInSafe = 0
  /\ associated = {} /\ admin = ProxyAdmin /\ controller = FeeUser
  /\ allowance = 0 /\ stops = 0

ClientNext ==
  \/ GetGnosisSafe \/ ProposeStep \/ ApproveStep \/ ExecuteStep \/ TryExecute
  \/ FundSafe \/ AllowMultiSend \/ ChangeFeeConfigController \/ ChangeAdmin
  \/ GetListOfOwners \/ FetchBalanceFromSafe \/ Check \/ StepThrows
  \/ OthersNext \/ OthersExecute

ClientSpec == ClientInit /\ [][ClientNext]_allVars

-----------------------------------------------------------------------------
(* Properties *)

(***************************************************************************)
(* "Verify propose transaction should be in pending state"                 *)
(* (test/multi-sig-dao-test.ts:1046): a proposal starts without approvals, *)
(* also when the same call was proposed, approved and executed before, or  *)
(* on another safe of the DAO.  True of owners that approve no hash before *)
(* its nonce is handed out (HederaGnosisSafe.sol:157-176).                 *)
(***************************************************************************)
NewProposalIsPending ==
  [][world.ahead = 0 =>
       \A h \in DOMAIN transactions' : \/ Recorded(h) /\ transactions'[h] = transactions[h]
                                       \/ ~Recorded(h) /\ State(h)' = "Pending"]_allVars

(***************************************************************************)
(* The scenarios of MultiSigDAO.feature:12-85 pass one after the other     *)
(* on a DAO nobody else uses, though each starts from the owners,          *)
(* threshold and assets the ones before it left: every approval is of an   *)
(* owner, every execution is approved, every state the feature asks for is *)
(* the one the DAO is in.                                                  *)
(***************************************************************************)
Alone == ~IsScript /\ world.safes = {} /\ ~world.executors /\ stops = 0

FlowStep ==
  \/ GetGnosisSafe \/ ProposeStep \/ ApproveStep \/ ExecuteStep \/ TryExecute
  \/ FundSafe \/ GetListOfOwners \/ FetchBalanceFromSafe \/ Check

JourneyHolds == Alone /\ Running => ENABLED FlowStep

(***************************************************************************)
(* A proxy that was handed to a safe comes back: wherever the script that  *)
(* handed it over stopped, an approved transaction that returns it waits   *)
(* for anyone to execute it (multiSigDAO.ts:414-457).  Of a DAO that keeps *)
(* its safe.                                                               *)
(***************************************************************************)
Waiting(h) == CheckApprovals(h.safe, h) /\ h \notin executedHash

HandedOverIsApproved ==
  world.safes = {} /\ admin \in Safes =>
    \E h \in DOMAIN transactions :
      h.safe = admin /\ h.call.kind = "UpgradeProxy" /\ Waiting(h)

(***************************************************************************)
(* The token flows leave no approved transfer that the safe cannot pay,    *)
(* all such transfers together, wherever they stop and however often they  *)
(* run (multiSigDAO.ts:100-251).  The HBAR flow does not do so: it funds   *)
(* the safe after the approvals (multiSigDAO.ts:391-411).                  *)
(***************************************************************************)
ApprovedIsCovered ==
  world.safes = {} /\ IsScript /\ "hbar" \notin ToSet(world.agenda) =>
    \A s \in Safes :
      Cardinality({h \in DOMAIN transactions :
                     h.safe = s /\ h.call.kind = "Transfer" /\ Waiting(h)}) <= assets[s]
=============================================================================
