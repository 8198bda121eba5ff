---------------------------- MODULE AssetsHolder ----------------------------
(***************************************************************************)
(* contracts/holder/AssetsHolder.sol: the treasury of one governor.  Every *)
(* operation is onlyOwner, and the owner is the governor, so each of them  *)
(* is a call that an executed proposal makes; it reverts the execution     *)
(* when it fails.  One asset stands for the tokens and HBAR it pays out.   *)
(***************************************************************************)
EXTENDS Naturals, Sequences

CONSTANTS
  ProxyAdmin,      \* the account that administers the proxy to upgrade
  AssetsHolderId,  \* the holder's own address
  CreatedSupply,   \* initial supply of the tokens that it creates
  EarlierTokens    \* tokens it has created before

ASSUME AssetsHolderAssumption ==
  /\ ProxyAdmin # AssetsHolderId
  /\ CreatedSupply \in Nat /\ EarlierTokens \in Nat

VARIABLES
  associated,      \* is the holder associated with the asset?
  heldAssets,      \* the holder's balance of the asset
  paidAssets,      \* what the receiver got from the holder
  tokenSupplies,   \* the tokens the holder created, in order: their supply
  proxyAdmin,      \* the admin of the proxy (external)
  upgrades         \* how often the proxy's logic was replaced (external)

assetVars ==
  <<associated, heldAssets, paidAssets, tokenSupplies, proxyAdmin, upgrades>>

(* associate: a token that is associated already is no error. *)
Associate ==
  /\ associated' = TRUE
  /\ UNCHANGED <<heldAssets, paidAssets, tokenSupplies, proxyAdmin, upgrades>>

CreateToken ==
  /\ tokenSupplies' = Append(tokenSupplies, CreatedSupply)
  /\ UNCHANGED <<associated, heldAssets, paidAssets, proxyAdmin, upgrades>>

(* The service mints and burns only what the holder is treasury of. *)
MintToken(token, amount) ==
  /\ token \in DOMAIN tokenSupplies
  /\ tokenSupplies' = [tokenSupplies EXCEPT ![token] = @ + amount]
  /\ UNCHANGED <<associated, heldAssets, paidAssets, proxyAdmin, upgrades>>

BurnToken(token, amount) ==
  /\ token \in DOMAIN tokenSupplies
  /\ tokenSupplies[token] >= amount
  /\ tokenSupplies' = [tokenSupplies EXCEPT ![token] = @ - amount]
  /\ UNCHANGED <<associated, heldAssets, paidAssets, proxyAdmin, upgrades>>

TransferAsset(amount) ==
  /\ heldAssets >= amount
  /\ heldAssets' = heldAssets - amount
  /\ paidAssets' = paidAssets + amount
  /\ UNCHANGED <<associated, tokenSupplies, proxyAdmin, upgrades>>

SetText == UNCHANGED assetVars

(* A slip to catch: the admin stays with the holder. *)
UpgradeProxyOnly ==
  /\ proxyAdmin = AssetsHolderId
  /\ upgrades' = upgrades + 1
  /\ UNCHANGED <<associated, heldAssets, paidAssets, tokenSupplies, proxyAdmin>>

(* upgradeTo, then changeAdmin back: the proxy accepts both only from its  *)
(* admin, which the holder must have been made before.                     *)
UpgradeProxy ==
  /\ proxyAdmin = AssetsHolderId
  /\ upgrades' = upgrades + 1
  /\ proxyAdmin' = ProxyAdmin
  /\ UNCHANGED <<associated, heldAssets, paidAssets, tokenSupplies>>

(* What the clients of the holder do to it without the governor. *)
ReceiveAssets(amount) ==
  /\ associated
  /\ heldAssets' = heldAssets + amount
  /\ UNCHANGED <<associated, paidAssets, tokenSupplies, proxyAdmin, upgrades>>

ReceiveProxy ==
  /\ proxyAdmin = ProxyAdmin
  /\ proxyAdmin' = AssetsHolderId
  /\ UNCHANGED <<associated, heldAssets, paidAssets, tokenSupplies, upgrades>>

AssetsInit ==
  /\ associated = FALSE
  /\ heldAssets = 0 /\ paidAssets = 0
  /\ tokenSupplies = [t \in 1 .. EarlierTokens |-> CreatedSupply]
  /\ proxyAdmin = ProxyAdmin
  /\ upgrades = 0
=============================================================================
