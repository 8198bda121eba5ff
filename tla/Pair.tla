-------------------------------- MODULE Pair --------------------------------
(***************************************************************************)
(* contracts/Pair.sol and contracts/LPToken.sol: pools of two tokens, each *)
(* with an LP token that records the shares of its providers.  A pool is a *)
(* record of the sequence pools; its two tokens are its sides "a" and "b". *)
(* A transaction is one action, and a require that fails reverts it.       *)
(*                                                                         *)
(* Quantities are small and Precision stands for 100_000_000; the widths   *)
(* of the ledger's integers are not modelled.  Left out are LP tokens that *)
(* their owner transfers, and swaps of which the pair is the receiver.     *)
(***************************************************************************)
EXTENDS Sums, Sequences

CONSTANTS
  Users,            \* the accounts that provide and swap
  Treasury,         \* the account that collects the fees
  Tokens,
  Hbar,             \* configuration.getHbarxAddress(): paid in HBAR
  Fees,             \* the fees pools are created with
  FeePrecision,     \* 100
  Precision,
  DefaultSlippage,  \* 500000
  MaxPools,         \* bound on the pools
  InitialWallet,    \* what each user owns of each token
  Services          \* deployments of the Hedera service

Sides == {"a", "b"}

Other(side) == IF side = "a" THEN "b" ELSE "a"

(* Configuration's fees are 5, 10 and 30; initialize only rejects 0.       *)
ASSUME PairAssumption ==
  /\ IsFiniteSet(Users) /\ Treasury \notin Users /\ Hbar \in Tokens
  /\ Fees \subseteq Nat \ {0} /\ FeePrecision \in Nat \ {0}
  /\ Precision \in Nat \ {0} /\ DefaultSlippage \in Nat
  /\ MaxPools \in Nat /\ InitialWallet \in Nat

VARIABLES
  pools,            \* the pools, in the order they were created
  wallet,           \* [token][account]: balances (external)
  collects          \* the tokens the treasury is associated with (external)

(* A pool has token, qty (the pair's own count) and held (what its account *)
(* has) by side, fee, service, lpService, lp by user, and of the ledger    *)
(* allow[side][user] and lpAllow[user], what the users let the pair and    *)
(* the LP token contract take, and lpUsers, who can receive the LP token.  *)
Ids == DOMAIN pools

IsHbar(i, side) == pools[i].token[side] = Hbar

-----------------------------------------------------------------------------
(* Quotes *)

AbsoluteDifference(x, y) == IF x > y THEN x - y ELSE y - x

FeeForToken(q, fee) == ((q * fee) \div 2) \div FeePrecision

(* A slip to catch: the pool prices what the sender gave before its fee. *)
IncomingWithoutFee(q, fee) ==
  LET f == FeeForToken(q, fee)
  IN  [treasury |-> f \div 2, delta |-> q,
       share |-> AbsoluteDifference(q, f) + f \div 2]

(* Half of the fee goes to the treasury and half stays in the pool.  Each  *)
(* half is rounded down.                                                   *)
Incoming(q, fee) ==
  LET f == FeeForToken(q, fee)
  IN  [treasury |-> f \div 2, delta |-> AbsoluteDifference(q, f),
       share |-> AbsoluteDifference(q, f) + f \div 2]

Outgoing(q, fee) ==
  [user |-> AbsoluteDifference(q, FeeForToken(q, fee)),
   treasury |-> FeeForToken(q, fee) \div 2]

Variant(pool) == pool.qty["a"] * pool.qty["b"]

(* getOutGivenIn for side "a" and getInGivenOut for side "b": what goes in *)
(* and out when q of the side's token is swapped.                          *)
Quote(pool, side, q) ==
  LET in == Incoming(q, pool.fee)
      new == ((Variant(pool) * Precision) \div (pool.qty[side] + in.delta))
               \div Precision
  IN  [in |-> in,
       out |-> Outgoing(AbsoluteDifference(pool.qty[Other(side)], new), pool.fee)]

UnitPrice(pool, side) ==
  (pool.qty[Other(side)] * Precision) \div pool.qty[side]

ExpectedOut(pool, side, q) == (q * UnitPrice(pool, side)) \div Precision

(* Where the quote and the slippage revert, or divide by zero. *)
Quotable(pool, side, q) ==
  pool.qty[side] > 0 /\ ExpectedOut(pool, side, q) > 0

Slippage(pool, side, q) ==
  LET out == Quote(pool, side, q).out
      expected == ExpectedOut(pool, side, q)
  IN  (AbsoluteDifference(out.user + out.treasury, expected) * Precision)
        \div expected

SlippageBreached(pool, side, q, slippage) ==
  Slippage(pool, side, q) > IF slippage > 0 THEN slippage ELSE DefaultSlippage

-----------------------------------------------------------------------------
(* The LP token *)

LpSupply(pool) == Total(Users, pool.lp)

(* The loop of sqrt from a pair of output and modifiedValue; each step     *)
(* makes output smaller, so output steps are enough.                       *)
Sqrt(v) ==
  LET step[n \in 0 .. v] ==
        IF n = 0 THEN <<v, (v + 1) \div 2>>
        ELSE LET s == step[n - 1]
             IN  IF s[2] < s[1] THEN <<s[2], (v \div s[2] + s[2]) \div 2>> ELSE s
  IN  step[v][1]

(* A slip to catch: the larger of the two is minted. *)
LpTokenCountByLarger(pool, q) ==
  LET a == (q["a"] * LpSupply(pool)) \div pool.qty["a"]
      b == (q["b"] * LpSupply(pool)) \div pool.qty["b"]
  IN  IF LpSupply(pool) = 0 THEN Sqrt(q["a"] * q["b"]) ELSE IF a > b THEN a ELSE b

LpTokenCount(pool, q) ==
  LET a == (q["a"] * LpSupply(pool)) \div pool.qty["a"]
      b == (q["b"] * LpSupply(pool)) \div pool.qty["b"]
  IN  IF LpSupply(pool) = 0 THEN Sqrt(q["a"] * q["b"]) ELSE IF a > b THEN b ELSE a

(* allotLPTokenFor does not revert: mintToken wants a positive amount, and *)
(* the ledger an account that is associated with the LP token.             *)
CanAllot(pool, q, to) ==
  /\ q["a"] > 0 /\ q["b"] > 0
  /\ LpSupply(pool) > 0 => pool.qty["a"] > 0 /\ pool.qty["b"] > 0
  /\ LpTokenCount(pool, q) > 0
  /\ to \in pool.lpUsers

-----------------------------------------------------------------------------
(* The pair's transactions *)

(* What an account can be made to pay of the side's token: HBAR come with  *)
(* the call, another token is taken from the account that allowed it.      *)
CanPay(i, side, account, n) ==
  /\ wallet[pools[i].token[side]][account] >= n
  /\ ~IsHbar(i, side) => pools[i].allow[side][account] >= n

(* Who pays when caller acts for account. *)
PayerOf(i, side, caller, account) ==
  IF IsHbar(i, side) THEN caller ELSE account

(* The users' balances after user u paid (or, negative, received) what     *)
(* moved[side][u] says, and the treasury received fee[side].               *)
Settled(i, moved, fee) ==
  [t \in Tokens |->
     IF \E s \in Sides : pools[i].token[s] = t
     THEN LET s == CHOOSE x \in Sides : pools[i].token[x] = t
          IN  [u \in Users \cup {Treasury} |->
                 IF u = Treasury THEN wallet[t][u] + fee[s]
                                 ELSE wallet[t][u] - moved[s][u]]
     ELSE wallet[t]]

Only(user, n) == [u \in Users |-> IF u = user THEN n ELSE 0]

Spent(i, side, account, n) ==
  [pools[i].allow[side] EXCEPT ![account] = @ - (IF IsHbar(i, side) THEN 0 ELSE n)]

NoFee == [s \in Sides |-> 0]

(* A slip to catch: quantities are taken by position. *)
QuantitiesInOrder(i, first, q) ==
  [s \in Sides |-> IF s = "a" THEN q[1] ELSE q[2]]

(* addLiquidity takes the tokens in either order. *)
Quantities(i, first, q) ==
  [s \in Sides |-> IF pools[i].token[s] = first THEN q[1] ELSE q[2]]

(* addLiquidity: first and second are the tokens as passed, q[1] and q[2]  *)
(* their quantities; the LP tokens go to the account that is charged.      *)
AddLiquidity(i, caller, from, first, second, q) ==
  LET added == Quantities(i, first, q)
      payer(s) == PayerOf(i, s, caller, from)
  IN  /\ {first, second} = {pools[i].token[s] : s \in Sides} /\ first # second
      /\ \A s \in Sides : CanPay(i, s, payer(s), added[s])
      /\ CanAllot(pools[i], added, from)
      /\ wallet' = Settled(i, [s \in Sides |-> Only(payer(s), added[s])], NoFee)
      /\ pools' = [pools EXCEPT ![i] =
           [pools[i] EXCEPT !.qty = [s \in Sides |-> @[s] + added[s]],
                            !.held = [s \in Sides |-> @[s] + added[s]],
                            !.allow = [s \in Sides |-> Spent(i, s, from, added[s])],
                            !.lp[from] = @ + LpTokenCount(pools[i], added)]]
      /\ UNCHANGED collects

TokensToGetBack(pool, n) ==
  [s \in Sides |-> (n * pool.qty[s]) \div LpSupply(pool)]

(* A slip to catch: the count before the transaction is looked at. *)
EnoughHbarBefore(i, side, counted, n) == IsHbar(i, side) => counted + n >= n

(* _checkIfContractHaveRequiredHBARBalance: the count of the pair is taken *)
(* for its balance, when what is to be paid has left the count already.    *)
EnoughHbar(i, side, counted, n) == IsHbar(i, side) => counted >= n

CanReturn(pool, to, n) == n > 0 /\ pool.lp[to] >= n /\ pool.lpAllow[to] >= n

(* removeLiquidity: whoever calls, the tokens go to the LP tokens' owner,  *)
(* who must have let the LP token contract take them.                      *)
RemoveLiquidity(i, to, n) ==
  LET back == TokensToGetBack(pools[i], n)
  IN  /\ CanReturn(pools[i], to, n)
      /\ \A s \in Sides : /\ EnoughHbar(i, s, pools[i].qty[s] - back[s], back[s])
                          /\ pools[i].held[s] >= back[s]
      /\ wallet' = Settled(i, [s \in Sides |-> Only(to, 0 - back[s])], NoFee)
      /\ pools' = [pools EXCEPT ![i] =
           [pools[i] EXCEPT !.qty = [s \in Sides |-> @[s] - back[s]],
                            !.held = [s \in Sides |-> @[s] - back[s]],
                            !.lp[to] = @ - n, !.lpAllow[to] = @ - n]]
      /\ UNCHANGED collects

(* A transfer of nothing needs no association. *)
TreasuryTakes(i, fee) ==
  \A s \in Sides : fee[s] > 0 /\ ~IsHbar(i, s) => pools[i].token[s] \in collects

(* A slip to catch: the treasury's part is paid and not counted. *)
LeavesButFee(out) == out.user

(* What a swap takes from the pair's count of the token it pays out. *)
Leaves(out) == out.user + out.treasury

(* swapToken: caller swaps q of the side's token for account to, who pays  *)
(* and is paid.  HBAR come with the call, in full; of another token the    *)
(* share and the fee are taken, which may be one less than q.  A fee above *)
(* 200 % is more than what it is charged on: more may leave than there is. *)
SwapToken(i, side, caller, to, q, slippage) ==
  LET pool == pools[i]
      o == Other(side)
      quote == Quote(pool, side, q)
      fee == [s \in Sides |-> IF s = side THEN quote.in.treasury
                                          ELSE quote.out.treasury]
      paid == IF IsHbar(i, side) THEN q ELSE quote.in.share + quote.in.treasury
      payer == PayerOf(i, side, caller, to)
      left == pool.qty[o] - Leaves(quote.out)
  IN  /\ Quotable(pool, side, q)
      /\ ~SlippageBreached(pool, side, q, slippage)
      /\ CanPay(i, side, payer, paid)
      /\ paid >= quote.in.share /\ paid >= quote.in.treasury
      /\ left >= 0
      /\ EnoughHbar(i, o, left, quote.out.user)
      /\ EnoughHbar(i, o, left, quote.out.treasury)
      /\ pool.held[o] >= quote.out.user + quote.out.treasury
      /\ TreasuryTakes(i, fee)
      /\ wallet' = Settled(i, [s \in Sides |-> IF s = side THEN Only(payer, paid)
                                          ELSE Only(to, 0 - quote.out.user)], fee)
      /\ pools' = [pools EXCEPT ![i] =
           [pools[i] EXCEPT !.qty[side] = @ + quote.in.share,
                            !.qty[o] = left,
                            !.held[side] = @ + paid - quote.in.treasury,
                            !.held[o] = @ - quote.out.user - quote.out.treasury,
                            !.allow[side] = Spent(i, side, to, paid)]]
      /\ UNCHANGED collects

-----------------------------------------------------------------------------
(* The ledger *)

(* An allowance replaces the one before. *)
Allow(i, side, user, n) ==
  /\ pools' = [pools EXCEPT ![i].allow[side][user] = n]
  /\ UNCHANGED <<wallet, collects>>

AllowLp(i, user, n) ==
  /\ pools' = [pools EXCEPT ![i].lpAllow[user] = n]
  /\ UNCHANGED <<wallet, collects>>

AssociateLp(i, user) ==
  /\ pools' = [pools EXCEPT ![i].lpUsers = @ \cup {user}]
  /\ UNCHANGED <<wallet, collects>>

AssociateTreasury(token) ==
  /\ collects' = collects \cup {token}
  /\ UNCHANGED <<pools, wallet>>

-----------------------------------------------------------------------------
(* Pair.initialize and LPToken.initialize *)
NewPool(a, b, fee, service) ==
  [token |-> [s \in Sides |-> IF s = "a" THEN a ELSE b], fee |-> fee,
   service |-> service, lpService |-> service,
   qty |-> [s \in Sides |-> 0], held |-> [s \in Sides |-> 0],
   lp |-> [u \in Users |-> 0],
   allow |-> [s \in Sides |-> [u \in Users |-> 0]],
   lpAllow |-> [u \in Users |-> 0], lpUsers |-> {}]

(* Pair.upgradeHederaService, which passes the service to its LP token. *)
WithService(pool, service) ==
  [pool EXCEPT !.service = service, !.lpService = service]

PairInit ==
  /\ pools = <<>>
  /\ wallet = [t \in Tokens |-> [u \in Users \cup {Treasury} |->
                                   IF u = Treasury THEN 0 ELSE InitialWallet]]
=============================================================================
