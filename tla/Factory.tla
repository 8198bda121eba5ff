------------------------------- MODULE Factory -------------------------------
(***************************************************************************)
(* contracts/Factory.sol: creates the pools, finds the pool of two tokens  *)
(* and a fee, and recommends the pool that pays most for a swap.           *)
(***************************************************************************)
EXTENDS Pair

CONSTANTS
  Address,          \* [Tokens -> Nat]: the tokens' addresses, for their order
  TransactionFees   \* configuration.getTransactionsFee(), without its keys

ASSUME FactoryAssumption ==
  /\ Address \in [Tokens -> Nat]
  /\ \A t, u \in Tokens : Address[t] = Address[u] => t = u
  /\ TransactionFees \in Seq(Nat)

VARIABLES
  pairs,            \* [<<token0, token1, fee>>]: the pool's id, 0 for none
  allPairs,         \* the ids of the factory's pools
  hederaService     \* what new pools are given

factoryVars == <<pairs, allPairs, hederaService>>

Keys == Tokens \X Tokens \X Fees

(* A slip to catch: the tokens are taken as they are passed. *)
Unsorted(t, u) == <<t, u>>

SortTokens(t, u) == IF Address[t] < Address[u] THEN <<t, u>> ELSE <<u, t>>

KeyOf(t, u, fee) == <<SortTokens(t, u)[1], SortTokens(t, u)[2], fee>>

GetPair(t, u, fee) == pairs[KeyOf(t, u, fee)]

(* createPair: the pool there is, or a new one.  IDENTICAL_ADDRESSES       *)
(* reverts.                                                                *)
CreatePair(t, u, fee) ==
  /\ t # u
  /\ \/ /\ GetPair(t, u, fee) # 0
        /\ UNCHANGED <<pools, pairs, allPairs>>
     \/ /\ GetPair(t, u, fee) = 0
        /\ Len(pools) < MaxPools
        /\ LET key == KeyOf(t, u, fee)
           IN  /\ pools' = Append(pools, NewPool(key[1], key[2], fee, hederaService))
               /\ pairs' = [pairs EXCEPT ![key] = Len(pools) + 1]
        /\ allPairs' = Append(allPairs, Len(pools) + 1)
  /\ UNCHANGED <<wallet, collects, hederaService>>

Upgraded == {allPairs[n] : n \in DOMAIN allPairs}

UpgradeHederaService(service) ==
  /\ hederaService' = service
  /\ pools' = [i \in Ids |-> IF i \in Upgraded THEN WithService(pools[i], service)
                                               ELSE pools[i]]
  /\ UNCHANGED <<wallet, collects, pairs, allPairs>>

-----------------------------------------------------------------------------
(* recommendedPairToSwap *)

NoPair == [pair |-> 0, swappedQty |-> 0, fee |-> 0, slippage |-> 0]

SideOf(t, u) == IF SortTokens(t, u)[1] = t THEN "a" ELSE "b"

Offer(t, u, fee, q) ==
  LET i == GetPair(t, u, fee)
      side == SideOf(t, u)
  IN  [pair |-> i, swappedQty |-> Quote(pools[i], side, q).out.user, fee |-> fee,
       slippage |-> Slippage(pools[i], side, q)]

(* One pool of the two tokens that cannot be quoted, such as a new one,    *)
(* makes the whole call revert.                                            *)
Recommendable(t, u, q) ==
  \A n \in DOMAIN TransactionFees :
    LET fee == TransactionFees[n]
    IN  fee \in Fees /\ GetPair(t, u, fee) # 0 =>
          Quotable(pools[GetPair(t, u, fee)], SideOf(t, u), q)

(* A slip to catch: the last pool wins. *)
LaterOffer(best, offer) == offer

BetterOffer(best, offer) ==
  IF offer.swappedQty > best.swappedQty THEN offer ELSE best

(* findMaxQtyPool *)
RecommendedPair(t, u, q) ==
  LET best[n \in 0 .. Len(TransactionFees)] ==
        IF n = 0 THEN NoPair
        ELSE LET fee == TransactionFees[n]
             IN  IF fee \in Fees /\ GetPair(t, u, fee) # 0
                 THEN BetterOffer(best[n - 1], Offer(t, u, fee, q))
                 ELSE best[n - 1]
  IN  best[Len(TransactionFees)]

FactoryInit ==
  /\ pairs = [key \in Keys |-> 0]
  /\ allPairs = <<>>
  /\ hederaService \in Services
=============================================================================
