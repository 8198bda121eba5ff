-------------------------- MODULE HederaGnosisSafe --------------------------
(***************************************************************************)
(* contracts/gnosis/HederaGnosisSafe.sol: safes whose owners approve       *)
(* transactions on the ledger, and which anyone may then have executed.    *)
(* A transaction is known by its hash; a hash stands for the safe, the     *)
(* call and the nonce it is computed from.  The Gnosis Safe the contract   *)
(* inherits (owner list, threshold, approveHash) is external.              *)
(*                                                                         *)
(* The calls modelled are those the DAO and its clients propose: on the    *)
(* executing safe itself the owner list's, the threshold's and the three   *)
(* of this contract, on other contracts setText and those of SafeClient.   *)
(* A call on another safe always reverts (GS031), and so do such calls     *)
(* inside a batch, whose sender is the HederaMultiSend contract.  Left out *)
(* are enableModule, disableModule, setGuard and setFallbackHandler, and   *)
(* transactions with any other target, a value or a delegatecall: owners   *)
(* that approve those can give the safe away.                              *)
(***************************************************************************)
EXTENDS Integers, SequencesExt

CONSTANTS
  Safes,
  Accounts,         \* owners, owners to be and other callers
  Sentinel,         \* SENTINEL_OWNERS, the head of the owner list
  Calls,            \* bound: the calls that are proposed
  InitialOwners,    \* [Safes -> sequences of owners], in list order
  InitialThreshold, \* [Safes -> Nat]
  InitialAssets,    \* [Safes -> Nat]: of the one token that is moved
  MaxAssets,        \* bound: no deposit raises a safe's assets above this
  MaxNonce          \* bound: no nonce above this is handed out

Nonces == 1..MaxNonce

Kinds == {"Transfer", "AddOwner", "RemoveOwner", "SwapOwner",
          "ChangeThreshold", "Text", "Associate", "UpgradeProxy", "Batch",
          "UpdateFeeConfig"}

Call ==
  [kind : Kinds, prev : Accounts \cup {Sentinel}, owner : Accounts,
   newOwner : Accounts, threshold : Nat, amount : Nat]

ASSUME SafeAssumption ==
  /\ IsFiniteSet(Accounts) /\ Sentinel \notin Accounts
  /\ Calls \subseteq Call
  /\ InitialOwners \in [Safes -> Seq(Accounts)]
  /\ \A s \in Safes : IsInjective(InitialOwners[s])
  /\ InitialThreshold \in [Safes -> Nat]
  /\ \A s \in Safes : InitialThreshold[s] \in 1..Len(InitialOwners[s])
  /\ InitialAssets \in [Safes -> Nat]
  /\ MaxAssets \in Nat /\ MaxNonce \in Nat

VARIABLES
  owners,           \* [s]: the owner list
  threshold,        \* [s]
  approvedHashes,   \* [s]: pairs <<owner, hash>>: approvedHashes[owner][hash] = 1
  executedHash,     \* the hashes a safe has executed
  txnNonce,         \* [s]
  assets            \* [s]: its balance of the token (external)

safeVars ==
  <<owners, threshold, approvedHashes, executedHash, txnNonce, assets>>

Owners(s) == ToSet(owners[s])

-----------------------------------------------------------------------------
(* A slip to catch: whoever approved is counted, owner or not. *)
ApprovalsOfAnyone(s, h) ==
  Cardinality({a \in Accounts : <<a, h>> \in approvedHashes[s]})

(* getApprovalCounts walks the list of the owners of the moment. *)
GetApprovalCounts(s, h) ==
  Cardinality({a \in Owners(s) : <<a, h>> \in approvedHashes[s]})

(* A slip to catch: more approvals than the threshold are asked for. *)
MoreThanThreshold(s, h) == GetApprovalCounts(s, h) > threshold[s]

CheckApprovals(s, h) ==
  /\ GetApprovalCounts(s, h) > 0
  /\ GetApprovalCounts(s, h) >= threshold[s]

(* approveHash, open to the owners, for any hash, one of another safe too. *)
ApproveHash(s, a, h) ==
  /\ a \in Owners(s)
  /\ approvedHashes' = [approvedHashes EXCEPT ![s] = @ \cup {<<a, h>>}]
  /\ UNCHANGED <<owners, threshold, executedHash, txnNonce, assets>>

(* getTxnHash, open to anyone: the next hash is of a nonce never used. *)
GetTxnHash(s) ==
  /\ txnNonce[s] < MaxNonce
  /\ txnNonce' = [txnNonce EXCEPT ![s] = @ + 1]

Deposit(s, n) ==
  /\ assets[s] + n <= MaxAssets
  /\ assets' = [assets EXCEPT ![s] = @ + n]
  /\ UNCHANGED <<owners, threshold, approvedHashes, executedHash, txnNonce>>

-----------------------------------------------------------------------------
(* The calls a safe makes to itself; each fails, and the execution with    *)
(* it, when its guard does.                                                *)

TransferAssets(s, c) ==
  /\ assets[s] >= c.amount
  /\ assets' = [assets EXCEPT ![s] = @ - c.amount]
  /\ UNCHANGED <<owners, threshold>>

(* changeThreshold, on a list of count owners. *)
ThresholdSet(s, t, count) ==
  /\ t = threshold[s] \/ t \in 1..count
  /\ threshold' = [threshold EXCEPT ![s] = t]

(* Owner a is at place i of the list, after prev or, first, the sentinel.  *)
IsAt(s, i, prev, a) ==
  owners[s][i] = a /\ prev = (IF i = 1 THEN Sentinel ELSE owners[s][i - 1])

AddOwnerWithThreshold(s, c) ==
  /\ c.owner \notin Owners(s)
  /\ owners' = [owners EXCEPT ![s] = <<c.owner>> \o @]
  /\ ThresholdSet(s, c.threshold, Len(owners[s]) + 1)
  /\ UNCHANGED assets

RemoveOwner(s, c) ==
  /\ Len(owners[s]) - 1 >= c.threshold
  /\ \E i \in DOMAIN owners[s] :
       /\ IsAt(s, i, c.prev, c.owner)
       /\ owners' = [owners EXCEPT ![s] = RemoveAt(@, i)]
  /\ ThresholdSet(s, c.threshold, Len(owners[s]) - 1)
  /\ UNCHANGED assets

SwapOwner(s, c) ==
  /\ c.newOwner \notin Owners(s)
  /\ \E i \in DOMAIN owners[s] :
       /\ IsAt(s, i, c.prev, c.owner)
       /\ owners' = [owners EXCEPT ![s][i] = c.newOwner]
  /\ UNCHANGED <<threshold, assets>>

ChangeThreshold(s, c) ==
  /\ c.threshold \in 1..Len(owners[s])
  /\ threshold' = [threshold EXCEPT ![s] = c.threshold]
  /\ UNCHANGED <<owners, assets>>

SafeCall(s, c) ==
  \/ c.kind = "Transfer" /\ TransferAssets(s, c)
  \/ c.kind = "AddOwner" /\ AddOwnerWithThreshold(s, c)
  \/ c.kind = "RemoveOwner" /\ RemoveOwner(s, c)
  \/ c.kind = "SwapOwner" /\ SwapOwner(s, c)
  \/ c.kind = "ChangeThreshold" /\ ChangeThreshold(s, c)

(* executeTransaction, up to the call it makes: open to anyone, and all of *)
(* it is undone when the call fails.                                       *)
MarkExecuted(h) ==
  /\ CheckApprovals(h.safe, h)
  /\ h \notin executedHash
  /\ executedHash' = executedHash \cup {h}
  /\ UNCHANGED <<approvedHashes, txnNonce>>

SafeInit ==
  /\ owners = InitialOwners
  /\ threshold = InitialThreshold
  /\ approvedHashes = [s \in Safes |-> {}] /\ executedHash = {}
  /\ txnNonce = [s \in Safes |-> 0]
  /\ assets = InitialAssets

=============================================================================
