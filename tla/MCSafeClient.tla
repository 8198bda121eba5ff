---------------------------- MODULE MCSafeClient ----------------------------
(* Values of SafeClient's constants for TLC. *)
EXTENDS SafeClient

CONSTANTS s1, s2

MCOwners == [s \in Safes |-> <<FirstOwner, SecondOwner>>]
MCThreshold == [s \in Safes |-> 2]
MCNoAssets == [s \in Safes |-> 0]

(* A client alone, or one whose approved transactions others execute. *)
Journey(client, agenda, executors) ==
  [client |-> client, agenda |-> agenda, executors |-> executors,
   safes |-> {}, calls |-> {}, nonces |-> 0, ahead |-> 0, crossing |-> FALSE,
   deposits |-> 0]

(* Nobody runs a client: accounts use the safes in any order. *)
Free(safes, calls, nonces, ahead, deposits) ==
  [client |-> "anyone", agenda |-> <<>>, executors |-> FALSE,
   safes |-> safes, calls |-> calls, nonces |-> nonces, ahead |-> ahead,
   crossing |-> FALSE, deposits |-> deposits]

(* The second owner goes, and comes back in front or is replaced. *)
OwnerCalls ==
  {TransferCall(1), RemoveOwnerCall(1, FirstOwner, SecondOwner),
   AddOwnerCall(1, SecondOwner), SwapOwnerCall(FirstOwner, SecondOwner, Replacement)}

ThresholdCalls ==
  {TransferCall(1), RemoveOwnerCall(1, FirstOwner, SecondOwner),
   AddOwnerCall(1, SecondOwner), ChangeThresholdCall(1)}

MCCalls ==
  OwnerCalls \cup ThresholdCalls \cup
  {TextCall, AssociateCall, UpgradeProxyCall, BatchCall, UpdateFeeConfigCall,
   TransferCall(3), SwapOwnerCall(SecondOwner, FirstOwner, Replacement)}

(* The scripts, alone and with others; the scenarios in the feature's      *)
(* order; and anyone with the owners' calls, or on a DAO that is pointed   *)
(* from safe to safe, whose owners approve hashes of the other safe, too.  *)
MCWorlds ==
  {Journey("script", <<name>>, others) :
     name \in {"nft", "ft", "hbar", "batch", "fee", "upgrade", "text"},
     others \in BOOLEAN}
  \cup {Journey("scenarios",
          <<"pending", "more", "journey", "threshold", "remove", "add", "swap">>, FALSE)}
  \cup {[Journey("script", <<name>>, FALSE) EXCEPT !.safes = {s1, s2}] :
          name \in {"hbar", "text"}}
  \cup {Free({s1}, OwnerCalls, 1, 1, 1), Free({s1}, ThresholdCalls, 1, 1, 1),
        Free({s1, s2}, {TextCall}, 2, 0, 0),
        [Free({s1, s2}, {TextCall}, 1, 0, 0) EXCEPT !.crossing = TRUE]}
=============================================================================
