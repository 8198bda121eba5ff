----------------------------- MODULE GODHolder -----------------------------
(***************************************************************************)
(* contracts/governance/GODHolder.sol: a TokenHolder for a fungible        *)
(* governance token.  Users lock an amount to get voting weight, and take  *)
(* it back while no proposal they voted on is active.                      *)
(***************************************************************************)
EXTENDS TokenHolder

VARIABLE godTokenForUsers   \* [user]: the amount the user has locked

(* An ERC20 transfer; it fails, and the caller reverts, on a low balance. *)
Transferable(from, n) == balance[from] >= n

Moved(from, to, n) ==
  IF from = to THEN balance
  ELSE [balance EXCEPT ![from] = @ - n, ![to] = @ + n]

GODHolderTypeOK == TokenHolderTypeOK /\ godTokenForUsers \in [Accounts -> Nat]

BalanceOfVoter(voter) == godTokenForUsers[voter]

GrabTokensFromUser(user, amount) ==
  /\ amount > 0
  /\ Transferable(user, amount)
  /\ godTokenForUsers' = [godTokenForUsers EXCEPT ![user] = @ + amount]
  /\ balance' = Moved(user, Holder, amount)
  /\ UNCHANGED <<governorProposalVoters, activeProposalsForUsers>>

(* A slip to catch: more is taken back than was locked. *)
AnyAmount(user, amount) == TRUE

HasLocked(user, amount) == godTokenForUsers[user] >= amount

RevertTokensForVoter(user, amount) ==
  /\ amount > 0
  /\ HasNoActiveProposals(user)
  /\ HasLocked(user, amount)
  /\ Transferable(Holder, amount)
  /\ godTokenForUsers' = [godTokenForUsers EXCEPT ![user] = @ - amount]
  /\ balance' = Moved(Holder, user, amount)
  /\ UNCHANGED <<governorProposalVoters, activeProposalsForUsers>>

GODHolderInit ==
  TokenHolderInit /\ godTokenForUsers = [u \in Accounts |-> 0]

(***************************************************************************)
(* The holder always owns what it owes: the tokens it recorded as locked   *)
(* are in its account, so the transfer in revertTokensForVoter             *)
(* (GODHolder.sol:24-57) never fails for want of tokens.                   *)
(***************************************************************************)
HolderBacked == balance[Holder] >= Total(Accounts, godTokenForUsers)
=============================================================================
