---------------------------- MODULE MultisigDAO ----------------------------
(***************************************************************************)
(* contracts/dao/MultisigDAO.sol: a DAO that records the transactions      *)
(* proposed to its safe.  The proxy administrator may point the DAO at     *)
(* another safe; the records stay.                                         *)
(***************************************************************************)
EXTENDS HederaGnosisSafe

CONSTANTS
  FirstSafe        \* the safe the DAO is created with

ASSUME DaoAssumption == FirstSafe \in Safes

VARIABLES
  hederaGnosisSafe,   \* the DAO's safe
  transactions        \* [recorded hash]: the creator in its record

vars ==
  <<owners, threshold, approvedHashes, executedHash, txnNonce, assets,
    hederaGnosisSafe, transactions>>

(* The code takes a record for absent when its nonce is zero; none has it. *)
Recorded(h) == h \in DOMAIN transactions

(* The DAO asks its present safe, also about a hash of the one before: it  *)
(* has not executed that, though its owners may have approved it.          *)
Executed(h) == h.safe = hederaGnosisSafe /\ h \in executedHash

State(h) ==
  CASE ~Recorded(h) -> "Reverted"
    [] Recorded(h) /\ Executed(h) -> "Executed"
    [] /\ Recorded(h) /\ ~Executed(h)
       /\ CheckApprovals(hederaGnosisSafe, h) -> "Approved"
    [] OTHER -> "Pending"

(* A slip to catch: the nonce is not part of the hash. *)
NextHashOfCall(c) == [safe |-> hederaGnosisSafe, call |-> c, nonce |-> 1]

(* The hash getTxnHash returns to the DAO. *)
NextHash(c) ==
  [safe |-> hederaGnosisSafe, call |-> c, nonce |-> txnNonce'[hederaGnosisSafe]]

(* proposeTransaction, and the proposeTransfer... that build its data.  No *)
(* call outside the bound Calls is proposed.                               *)
ProposeTransaction(creator, c) ==
  /\ c \in Calls
  /\ GetTxnHash(hederaGnosisSafe)
  /\ transactions' = [h \in DOMAIN transactions \cup {NextHash(c)} |->
                        IF h = NextHash(c) THEN creator ELSE transactions[h]]
  /\ UNCHANGED <<owners, threshold, approvedHashes, executedHash, assets,
                 hederaGnosisSafe>>

(* upgradeHederaGnosisSafe, by the child proxy administrator. *)
UpgradeHederaGnosisSafe(s) ==
  /\ hederaGnosisSafe' = s
  /\ UNCHANGED <<safeVars, transactions>>

(* setText: only the DAO's present safe may call it. *)
SetText(s) ==
  /\ hederaGnosisSafe = s
  /\ UNCHANGED <<owners, threshold, assets>>

ExecuteTransaction(h) ==
  /\ MarkExecuted(h)
  /\ \/ SafeCall(h.safe, h.call)
     \/ h.call.kind = "Text" /\ SetText(h.safe)
  /\ UNCHANGED <<hederaGnosisSafe, transactions>>

Init ==
  /\ SafeInit
  /\ hederaGnosisSafe = FirstSafe
  /\ transactions = <<>>

-----------------------------------------------------------------------------
(* Properties *)

(***************************************************************************)
(* Each safe implements ThresholdWallet: its members are the owners of the *)
(* moment, so approvals given before leaving do not count, those given     *)
(* before a return do, every transaction takes effect at most once, failed *)
(* attempts aside, and however owners come and go they can reach their     *)
(* threshold (HederaGnosisSafe.sol:53-73, 187-220).                        *)
(***************************************************************************)
HashesOf(s) == [safe : {s}, call : Calls, nonce : Nonces]

Wallet(s) == INSTANCE ThresholdWallet WITH
  People       <- Accounts,
  Transactions <- HashesOf(s),
  Cost         <- [h \in HashesOf(s) |->
                     IF h.call.kind = "Transfer" THEN h.call.amount ELSE 0],
  members      <- Owners(s),
  quorum       <- threshold[s],
  endorsed     <- {e \in approvedHashes[s] : e[2].safe = s},
  performed    <- {h \in executedHash : h.safe = s},
  funds        <- assets[s]

ImplementsWallets ==
  /\ \A s \in Safes : Wallet(s)!Init
  /\ [][\A s \in Safes : UNCHANGED Wallet(s)!walletVars \/ Wallet(s)!Next]_vars
=============================================================================
