----------------------------- MODULE PoolClient -----------------------------
(***************************************************************************)
(* The clients of pools: integrationTest/pair.ts, integrationTest/         *)
(* factory.ts and the scenarios of PairTest.ts and FactoryTest.ts.  Each   *)
(* is a list of scenarios, a script a list of one; a scenario is a list of *)
(* steps, and a step that throws ends its scenario.  Between two steps the *)
(* other accounts act, on the client's behalf too: the pair lets anyone    *)
(* call for an account that has allowed it.                                *)
(***************************************************************************)
EXTENDS Factory

CONSTANTS
  Client,           \* the account the client adds and returns for
  Operator,         \* the operator's account, and the treasury's
  FirstQty, SecondQty,  \* what it adds
  LpQty,            \* the LP tokens it returns
  SwapQty,          \* what it swaps
  ScenarioSlippage, \* the slippage the scenarios pass; the scripts pass 0
  MaxAllowance,     \* the allowance of the scenarios about overflow
  NewService,       \* the Hedera service of the deployment the client has
  Trades,           \* bound: quantities the others add, return and swap
  MaxActs,          \* bound: transactions of the others
  MaxStops,         \* bound: exceptions and runs of pair.ts after its first
  Worlds            \* who the client is, its two tokens as it names them, the
                    \* fee, and whether others act

Clients == {"pair.ts", "factory.ts", "PairTest", "FactoryTest"}

ASSUME PoolClientAssumption ==
  /\ Client \in Users /\ Operator \in Users
  /\ {FirstQty, SecondQty, LpQty, SwapQty, MaxAllowance} \subseteq Nat
  /\ Trades \subseteq Nat
  /\ \A w \in Worlds :
       /\ w.client \in Clients /\ w.fee \in Fees
       /\ w.tokens \in Tokens \X Tokens /\ w.tokens[1] # w.tokens[2]

VARIABLES
  world,            \* one of Worlds
  line, at,         \* the scenario and the step it is about to take
  current,          \* the id of the client's pair, 0 for none
  before,           \* tokensBefore, in the order the step keeps them
  pending,          \* associations of the treasury that nothing awaits
  acted, stops

poolVars == <<pools, wallet, collects>>
placeVars == <<world, line, at>>
restVars == <<pending, acted, stops>>
allVars == <<poolVars, factoryVars, placeVars, current, before, restVars>>

-----------------------------------------------------------------------------
(* What each client does *)

Step(do, token, amount) == [do |-> do, token |-> token, amount |-> amount]

AllowSteps(t, u) == <<Step("allow", t, FirstQty), Step("allow", u, SecondQty)>>
AssociateStep(t) == <<Step("associate", t, 0)>>
AddStep(t) == <<Step("add", t, 0)>>

PairAddLiquidity(t, u) == AllowSteps(t, u) \o AssociateStep(t) \o AddStep(t)
FactoryAddLiquidity(t, u) == AssociateStep(t) \o AllowSteps(t, u) \o AddStep(t)

RemoveLiquiditySteps(t) ==
  <<Step("allowLp", t, LpQty), Step("remove", t, LpQty)>>

SwapSteps(t) == <<Step("allowSwap", t, SwapQty), Step("swap", t, SwapQty)>>

QuoteSteps(t) ==
  <<Step("spotPrice", t, 0), Step("outGivenIn", t, SwapQty),
    Step("inGivenOut", t, SwapQty), Step("slippageOut", t, SwapQty),
    Step("slippageIn", t, SwapQty)>>

PairScript(t, u) ==
  <<<<Step("initialize", t, 0)>> \o PairAddLiquidity(t, u)
    \o RemoveLiquiditySteps(t) \o SwapSteps(t) \o QuoteSteps(t)
    \o <<Step("upgradePair", t, 0)>>>>

FactoryScript(t, u) ==
  <<<<Step("create", t, 0)>> \o FactoryAddLiquidity(t, u)
    \o RemoveLiquiditySteps(t) \o SwapSteps(t) \o SwapSteps(u)
    \o <<Step("upgrade", t, 0), Step("recommend", t, SwapQty)>>>>

ReadAddCheck(t) ==
  <<Step("read", t, 0), Step("add", t, 0), Step("check", t, 0)>>

Present(t) == <<Step("present", t, 0)>>

TooMuch(t) == <<Step("tooMuch", t, 0)>>

PairOverflowScenarios(t, u) ==
  <<<<Step("allow", t, MaxAllowance), Step("allow", u, MaxAllowance)>>
      \o TooMuch(t) \o <<Step("check", t, 0)>>,
    <<Step("allowLp", t, MaxAllowance)>> \o TooMuch(t) \o <<Step("check", t, 0)>>>>

QuoteScenarios(t) ==
  [n \in DOMAIN QuoteSteps(t) |-> Present(t) \o <<QuoteSteps(t)[n]>>]

ResetSteps(t, u) ==
  <<Step("allow", t, 0), Step("allow", u, 0), Step("allowLp", t, 0)>>

PairScenarios(t, u) ==
  <<<<Step("initialize", t, 0), Step("collect", t, 0), Step("collect", u, 0)>>
      \o AssociateStep(t) \o AllowSteps(t, u) \o ReadAddCheck(t)>>
  \o PairOverflowScenarios(t, u)
  \o <<RemoveLiquiditySteps(t), <<Step("allow", t, MaxAllowance)>> \o TooMuch(t),
       Present(t) \o SwapSteps(t), Present(t) \o SwapSteps(u)>>
  \o QuoteScenarios(t) \o <<ResetSteps(t, u)>>

FactoryScenarios(t, u) ==
  <<<<Step("create", t, 0)>>, <<Step("again", t, 0)>>, <<Step("identical", t, 0)>>,
    AssociateStep(t) \o <<Step("collect", t, 0)>> \o AllowSteps(t, u)
      \o ReadAddCheck(t),
    RemoveLiquiditySteps(t), Present(t) \o SwapSteps(t), Present(t) \o SwapSteps(u)>>
  \o QuoteScenarios(t) \o <<ResetSteps(t, u)>>

Program ==
  LET t == world.tokens[1]
      u == world.tokens[2]
  IN  CASE world.client = "pair.ts"     -> PairScript(t, u)
        [] world.client = "factory.ts"  -> FactoryScript(t, u)
        [] world.client = "PairTest"    -> PairScenarios(t, u)
        [] world.client = "FactoryTest" -> FactoryScenarios(t, u)

IsScript == world.client \in {"pair.ts", "factory.ts"}

Running == line <= Len(Program)

Now(do) == Running /\ Program[line][at].do = do

This == Program[line][at]

Second(t) == IF t = world.tokens[1] THEN world.tokens[2] ELSE world.tokens[1]

CurrentSide(t) == IF pools[current].token["a"] = t THEN "a" ELSE "b"

(* Slippage 0 has the pair take its default. *)
SlippagePassed == IF IsScript THEN 0 ELSE ScenarioSlippage

(* The scripts' last calls are the operator's, who so pays the HBAR of a   *)
(* swap; factory.ts swaps for the treasury's account.                      *)
SwapCaller == IF IsScript THEN Operator ELSE Client

SwapAccount == IF world.client = "factory.ts" THEN Operator ELSE Client

NextStep ==
  /\ IF at < Len(Program[line]) THEN at' = at + 1 /\ line' = line
                                ELSE at' = 1 /\ line' = line + 1
  /\ world' = world

-----------------------------------------------------------------------------
(* The steps *)

(* Pair.initialize, outside the factory, of a pair that is not initialized  *)
(* yet; the script catches what it throws.                                 *)
InitializePair ==
  /\ Now("initialize")
  /\ \/ /\ current = 0 /\ Len(pools) < MaxPools
        /\ pools' = Append(pools, NewPool(world.tokens[1], world.tokens[2],
                                          world.fee, NewService))
        /\ current' = Len(pools) + 1
     \/ IsScript /\ UNCHANGED <<pools, current>>
  /\ NextStep
  /\ UNCHANGED <<wallet, collects, factoryVars, before, restVars>>

(* Factory.createPair returns the pair that is there, or the new one. *)
SendCreatePair(t, u) ==
  /\ CreatePair(t, u, world.fee)
  /\ current' = pairs'[KeyOf(t, u, world.fee)]

CreatePairStep ==
  /\ Now("create")
  /\ SendCreatePair(This.token, Second(This.token))
  /\ NextStep
  /\ UNCHANGED <<before, restVars>>

(* A second pair of the same tokens and fee is compared with the first. *)
CreatePairAgain ==
  /\ Now("again") /\ current # 0
  /\ SendCreatePair(Second(This.token), This.token) /\ current' = current
  /\ NextStep
  /\ UNCHANGED <<before, restVars>>

(* What the pair or the client library rejects, in a try. *)
Caught(do) ==
  /\ Now(do)
  /\ NextStep
  /\ UNCHANGED <<poolVars, factoryVars, current, before, restVars>>

CreateIdentical == Caught("identical")

MoreThanMax == Caught("tooMuch")

(* associateTokensToAccount logs its errors and goes on. *)
AssociateLpToken ==
  /\ Now("associate") /\ current # 0
  /\ AssociateLp(current, Client) \/ UNCHANGED poolVars
  /\ NextStep
  /\ UNCHANGED <<factoryVars, current, before, restVars>>

(* The scenarios do not await the treasury's associations. *)
AssociateTreasuryUnawaited ==
  /\ Now("collect")
  /\ pending' = pending \cup {This.token}
  /\ NextStep
  /\ UNCHANGED <<poolVars, factoryVars, current, before, acted, stops>>

AssociationEnds ==
  /\ \E t \in pending : /\ pending' = pending \ {t}
                        /\ AssociateTreasury(t) \/ UNCHANGED poolVars
  /\ UNCHANGED <<factoryVars, placeVars, current, before, acted, stops>>

SetTokenAllowance ==
  /\ Now("allow") /\ current # 0
  /\ Allow(current, CurrentSide(This.token), Client, This.amount)
  /\ NextStep
  /\ UNCHANGED <<factoryVars, current, before, restVars>>

SetSwapAllowance ==
  /\ Now("allowSwap") /\ current # 0
  /\ Allow(current, CurrentSide(This.token), SwapAccount, This.amount)
  /\ NextStep
  /\ UNCHANGED <<factoryVars, current, before, restVars>>

SetLpAllowance ==
  /\ Now("allowLp") /\ current # 0
  /\ AllowLp(current, Client, This.amount)
  /\ NextStep
  /\ UNCHANGED <<factoryVars, current, before, restVars>>

PairQty == <<pools[current].qty["a"], pools[current].qty["b"]>>

(* tokensBefore is kept in the order of the tokens the step names. *)
ReadPairQty ==
  /\ Now("read") /\ current # 0
  /\ before' = IF CurrentSide(This.token) = "a" THEN PairQty ELSE <<PairQty[2], PairQty[1]>>
  /\ NextStep
  /\ UNCHANGED <<poolVars, factoryVars, current, restVars>>

(* The quantity of HBAR goes as the call's payment. *)
SendAddLiquidity(t, u) ==
  AddLiquidity(current, Client, Client, t, u, <<FirstQty, SecondQty>>)

AddLiquidityStep ==
  /\ Now("add") /\ current # 0
  /\ SendAddLiquidity(This.token, Second(This.token))
  /\ NextStep
  /\ UNCHANGED <<factoryVars, current, before, restVars>>

(* verifyTokensInPool adds what was added, in the pair's order of tokens,  *)
(* to tokensBefore.                                                        *)
InPair(side) == IF pools[current].token[side] = This.token THEN FirstQty ELSE SecondQty

PoolAsExpected ==
  PairQty = <<before[1] + InPair("a"), before[2] + InPair("b")>>

VerifyTokensInPool ==
  /\ Now("check") /\ current # 0
  /\ PoolAsExpected
  /\ NextStep
  /\ UNCHANGED <<poolVars, factoryVars, current, before, restVars>>

SendRemoveLiquidity(n) == RemoveLiquidity(current, Client, n)

RemoveLiquidityStep ==
  /\ Now("remove") /\ current # 0
  /\ SendRemoveLiquidity(This.amount)
  /\ NextStep
  /\ UNCHANGED <<factoryVars, current, before, restVars>>

SendSwapToken(t, n) ==
  SwapToken(current, CurrentSide(t), SwapCaller, SwapAccount, n, SlippagePassed)

SwapTokenStep ==
  /\ Now("swap") /\ current # 0
  /\ SendSwapToken(This.token, This.amount)
  /\ NextStep
  /\ UNCHANGED <<factoryVars, current, before, restVars>>

(* A call that only reads reverts where answered is false. *)
Reads(do, answered) ==
  /\ Now(do) /\ current # 0
  /\ answered
  /\ NextStep
  /\ UNCHANGED <<poolVars, factoryVars, current, before, restVars>>

TokensArePresent == Reads("present", PairQty[1] > 0 /\ PairQty[2] > 0)

(* getSpotPrice answers 0 for an empty pool. *)
FetchSpotPrice == Reads("spotPrice", TRUE)

OutGivenInAnswers(n) ==
  PairQty[1] + Incoming(n, pools[current].fee).delta > 0

InGivenOutAnswers(n) ==
  PairQty[2] + Incoming(n, pools[current].fee).delta > 0

CalculateOut == Reads("outGivenIn", OutGivenInAnswers(This.amount))

CalculateIn == Reads("inGivenOut", InGivenOutAnswers(This.amount))

SlippageOutAnswers(n) == Quotable(pools[current], "a", n)

SlippageInAnswers(n) == Quotable(pools[current], "b", n)

CalculateSlippageOut == Reads("slippageOut", SlippageOutAnswers(This.amount))

CalculateSlippageIn == Reads("slippageIn", SlippageInAnswers(This.amount))

RecommendationAnswers(t, n) == Recommendable(t, Second(t), n)

RecommendStep == Reads("recommend", RecommendationAnswers(This.token, This.amount))

UpgradePairService ==
  /\ Now("upgradePair") /\ current # 0
  /\ pools' = [pools EXCEPT ![current] = WithService(@, NewService)]
  /\ NextStep
  /\ UNCHANGED <<wallet, collects, factoryVars, current, before, restVars>>

UpgradeFactoryService ==
  /\ Now("upgrade")
  /\ UpgradeHederaService(NewService)
  /\ NextStep
  /\ UNCHANGED <<current, before, restVars>>

(* A step throws: the scenario is over. *)
StepThrows ==
  /\ Running /\ stops < MaxStops
  /\ stops' = stops + 1
  /\ line' = line + 1 /\ at' = 1 /\ world' = world
  /\ UNCHANGED <<poolVars, factoryVars, current, before, pending, acted>>

(* pair.ts is run again, with the same pair and from its first step. *)
RunAgain ==
  /\ world.client = "pair.ts" /\ ~Running /\ stops < MaxStops
  /\ stops' = stops + 1
  /\ line' = 1 /\ at' = 1 /\ world' = world
  /\ UNCHANGED <<poolVars, factoryVars, current, before, pending, acted>>

-----------------------------------------------------------------------------
(* Everyone else *)

OthersFree == world.others /\ acted < MaxActs

OthersDone ==
  acted' = acted + 1 /\ UNCHANGED <<placeVars, current, before, pending, stops>>

(* The other users allow a pair to take what they have. *)
OtherPrepares(i, u) ==
  /\ u # Client
  /\ pools' = [pools EXCEPT ![i] =
       [pools[i] EXCEPT !.allow = [s \in Sides |-> [@[s] EXCEPT ![u] = InitialWallet]],
                        !.lpAllow[u] = InitialWallet,
                        !.lpUsers = @ \cup {u}]]
  /\ UNCHANGED <<wallet, collects, factoryVars, placeVars, current, before, restVars>>

OtherAdds(i, caller, u, q) ==
  /\ AddLiquidity(i, caller, u, pools[i].token["b"], pools[i].token["a"], q)
  /\ UNCHANGED factoryVars

OtherReturns(i, u, n) == RemoveLiquidity(i, u, n) /\ UNCHANGED factoryVars

OtherSwaps(i, side, caller, u, q) ==
  /\ SwapToken(i, side, caller, u, q, ScenarioSlippage)
  /\ UNCHANGED factoryVars

OtherCreates(fee) == CreatePair(world.tokens[2], world.tokens[1], fee)

OthersAct ==
  /\ OthersFree
  /\ \/ \E i \in Ids, caller \in Users \ {Client}, u \in Users, q, r \in Trades :
          OtherAdds(i, caller, u, <<q, r>>)
     \/ \E i \in Ids, u \in Users, n \in Trades : OtherReturns(i, u, n)
     \/ \E i \in Ids, side \in Sides, caller \in Users \ {Client}, u \in Users,
           q \in Trades : OtherSwaps(i, side, caller, u, q)
     \/ \E fee \in Fees : OtherCreates(fee)
  /\ OthersDone

-----------------------------------------------------------------------------
Init ==
  /\ PairInit /\ FactoryInit
  /\ world \in Worlds
  /\ collects = IF IsScript THEN Tokens ELSE {}
  /\ line = 1 /\ at = 1
  /\ current = 0
  /\ before = <<0, 0>>
  /\ pending = {}
  /\ acted = 0 /\ stops = 0

Asks ==
  \/ VerifyTokensInPool \/ TokensArePresent \/ FetchSpotPrice
  \/ CalculateOut \/ CalculateIn \/ CalculateSlippageOut \/ CalculateSlippageIn
  \/ RecommendStep

ClientNext ==
  \/ InitializePair \/ CreatePairStep \/ CreatePairAgain
  \/ CreateIdentical \/ MoreThanMax
  \/ AssociateLpToken \/ AssociateTreasuryUnawaited
  \/ SetTokenAllowance \/ SetSwapAllowance \/ SetLpAllowance
  \/ ReadPairQty \/ AddLiquidityStep \/ Asks
  \/ RemoveLiquidityStep \/ SwapTokenStep
  \/ UpgradePairService \/ UpgradeFactoryService
  \/ StepThrows \/ RunAgain

Next ==
  \/ ClientNext \/ AssociationEnds
  \/ OthersFree /\ \E i \in Ids, u \in Users : OtherPrepares(i, u)
  \/ OthersAct

Spec == Init /\ [][Next]_allVars

-----------------------------------------------------------------------------
(* Properties *)

(* A fee of at most 200 %, as Configuration's are: what it is charged on   *)
(* covers it.  The code accepts any other.                                 *)
Moderate(pool) == pool.fee <= 2 * FeePrecision

(***************************************************************************)
(* A pair always owns what it counts, whatever its fee, and in HBAR, where *)
(* it keeps what rounding leaves of a payment, if its fee is at most       *)
(* 200 %: no transfer out fails for want of tokens, and no count goes      *)
(* below zero (Pair.sol:115-214, 602-719).                                 *)
(***************************************************************************)
ReservesBacked ==
  \A i \in Ids, s \in Sides :
    /\ pools[i].qty[s] >= 0
    /\ ~IsHbar(i, s) \/ Moderate(pools[i]) => pools[i].held[s] >= pools[i].qty[s]

LpChanged(i) == LpSupply(pools'[i]) # LpSupply(pools[i])

Swapped(i) == ~LpChanged(i) /\ pools'[i].qty # pools[i].qty

(***************************************************************************)
(* The quotes round in the swapper's favour, by less than one unit of what *)
(* is paid out: with a fee of at most 200 % the product of the quantities  *)
(* may fall, by less than the new quantity of the token swapped in,        *)
(* however the fee is rounded (Pair.sol:272-349, 729-775).                 *)
(***************************************************************************)
ProductKept ==
  [][\A i \in Ids : Moderate(pools[i]) /\ Swapped(i) =>
       \E s \in Sides :
         /\ pools'[i].qty[s] >= pools[i].qty[s]
         /\ Variant(pools'[i]) + pools'[i].qty[s] > Variant(pools[i])]_allVars

(***************************************************************************)
(* Providing and withdrawing never takes from the other providers: the     *)
(* quantity behind each LP token does not fall, in either token, although  *)
(* every division rounds (LPToken.sol:50-73, Pair.sol:582-595).            *)
(***************************************************************************)
SharesKept ==
  [][\A i \in Ids, s \in Sides : LpChanged(i) =>
       pools'[i].qty[s] * LpSupply(pools[i]) >=
         pools[i].qty[s] * LpSupply(pools'[i])]_allVars

(***************************************************************************)
(* A pair that has HBAR keeps some: its check compares a withdrawal with   *)
(* what the count will be after it, so the last LP tokens of such a pair   *)
(* cannot be returned (Pair.sol:874-890).                                  *)
(***************************************************************************)
HbarPoolNeverEmpties ==
  [][\A i \in Ids : (\E s \in Sides : IsHbar(i, s)) /\ LpSupply(pools[i]) > 0 =>
       LpSupply(pools'[i]) > 0]_allVars

(***************************************************************************)
(* However often and in whatever order of tokens a pair is asked for,      *)
(* there is one pool for two tokens and a fee, and it is the one the       *)
(* factory finds (Factory.sol:109-165).                                    *)
(***************************************************************************)
OnePairEach ==
  /\ \A m, n \in DOMAIN allPairs :
       LET p == pools[allPairs[m]]
           r == pools[allPairs[n]]
       IN  /\ {p.token[s] : s \in Sides} = {r.token[s] : s \in Sides}
           /\ p.fee = r.fee
           => m = n
  /\ \A n \in DOMAIN allPairs :
       LET p == pools[allPairs[n]]
       IN  /\ GetPair(p.token["a"], p.token["b"], p.fee) = allPairs[n]
           /\ GetPair(p.token["b"], p.token["a"], p.fee) = allPairs[n]

(***************************************************************************)
(* When every pool of the two tokens can be quoted, none of those with a   *)
(* configured fee pays more than the one that is recommended, and that one *)
(* pays what the recommendation says (Factory.sol:219-300).                *)
(***************************************************************************)
BestRecommended ==
  \A s \in Sides, q \in Trades :
    LET t == world.tokens[1]
        u == world.tokens[2]
        from == IF s = "a" THEN t ELSE u
        to == IF s = "a" THEN u ELSE t
        best == RecommendedPair(from, to, q)
    IN  Recommendable(from, to, q) =>
          /\ \A n \in DOMAIN allPairs :
               LET p == pools[allPairs[n]]
               IN  (/\ {p.token[x] : x \in Sides} = {t, u}
                    /\ \E k \in DOMAIN TransactionFees : TransactionFees[k] = p.fee)
                   => Quote(p, IF p.token["a"] = from THEN "a" ELSE "b", q).out.user
                        <= best.swappedQty
          /\ best.pair # 0 =>
               Quote(pools[best.pair], SideOf(from, to), q).out.user = best.swappedQty

(***************************************************************************)
(* A client alone with its pool is answered by it: it finds what it has    *)
(* added, whichever way round the pair keeps the tokens, and after it has  *)
(* returned shares and swapped both ways there are tokens left and no      *)
(* quote, slippage or recommendation divides by zero (Pair.sol:115-214,    *)
(* 272-457, FactoryTest.ts:278-319, pair.ts:233-239, factory.ts:180-183).  *)
(***************************************************************************)
Questions == {"check", "present", "spotPrice", "outGivenIn", "inGivenOut",
              "slippageOut", "slippageIn", "recommend"}

AloneIsAnswered ==
  (stops = 0 /\ acted = 0 /\ Running /\ This.do \in Questions) => ENABLED Asks

=============================================================================
