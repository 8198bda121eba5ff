----------------------------- MODULE VaultProofs -----------------------------
(***************************************************************************)
(* Safety of Vault for any number of users and reward tokens, any scale of *)
(* the fixed-point numbers, any amounts and any rewards per call.          *)
(***************************************************************************)
EXTENDS Vault, SumsProofs, SequenceTheorems

(* A vault's users and tokens are known by what it recorded of them: a     *)
(* user has staked just when it has a stake, and a token that is not       *)
(* listed has no index.                                                    *)
StakersKnown ==
  \A u \in Users : contribution[u].alreadyStaked <=> Stake(u) > 0

UnlistedHasNoIndex == \A t \in RewardTokens : perShareAmount[t] > 0 => t \in Listed

VaultInv ==
  /\ TypeOK
  /\ StakesBacked
  /\ ClaimedWithinIndex
  /\ StakersKnown
  /\ UnlistedHasNoIndex

Stakes == [u \in Users |-> Stake(u)]

-----------------------------------------------------------------------------
(* Arithmetic *)

(* The quotients of PRBMathUD60x18 are natural numbers. *)
LEMMA FixedDivType ==
  ASSUME NEW x \in Nat, NEW y \in Nat, y > 0
  PROVE  FixedDiv(x, y) \in Nat
<1>1. x * Scale \in Nat
  BY VaultAssumption
<1> DEFINE n == x * Scale
<1>2. n \div y \in Nat
  <2> HIDE DEF n
  <2> QED BY <1>1 DEF n
<1> QED BY <1>2 DEF FixedDiv

LEMMA FixedMulType ==
  ASSUME NEW x \in Nat, NEW y \in Nat
  PROVE  FixedMul(x, y) \in Nat
<1>1. Scale \in Nat /\ Scale > 0
  BY VaultAssumption
<1>2. Scale \div 2 \in Nat
  BY <1>1
<1>3. x * y \in Nat
  OBVIOUS
<1> DEFINE n == x * y + Scale \div 2
<1>4. n \in Nat
  BY <1>2, <1>3
<1>5. n \div Scale \in Nat
  <2> HIDE DEF n
  <2> QED BY <1>1, <1>4
<1> QED BY <1>5 DEF FixedMul

(* An amount that is there moves from one place of a ledger to another. *)
LEMMA LedgerMoves ==
  ASSUME NEW D, NEW L \in [D -> Nat], NEW x \in D, NEW y \in D, x # y,
         NEW n \in Nat, L[x] >= n
  PROVE  /\ [L EXCEPT ![x] = @ - n, ![y] = @ + n] \in [D -> Nat]
         /\ [L EXCEPT ![y] = @ + n, ![x] = @ - n] \in [D -> Nat]
         /\ [L EXCEPT ![x] = @ - n, ![y] = @ + n][y] = L[y] + n
         /\ [L EXCEPT ![y] = @ + n, ![x] = @ - n][x] = L[x] - n
<1>1. L[x] - n \in Nat /\ L[y] + n \in Nat
  OBVIOUS
<1> DEFINE a == L[x] - n
           b == L[y] + n
<1> HIDE DEF a, b
<1>2. /\ [L EXCEPT ![x] = a, ![y] = b] \in [D -> Nat]
      /\ [L EXCEPT ![y] = b, ![x] = a] \in [D -> Nat]
      /\ [L EXCEPT ![x] = a, ![y] = b][y] = b
      /\ [L EXCEPT ![y] = b, ![x] = a][x] = a
  BY <1>1 DEF a, b
<1> QED BY <1>2 DEF a, b

-----------------------------------------------------------------------------
(* What an operation does to its user *)

LEMMA StakeType ==
  ASSUME TypeOK, NEW u \in Users
  PROVE  Stake(u) \in Nat
BY DEF TypeOK, Contribution, Stake

LEMMA UnclaimedType ==
  ASSUME TypeOK, ClaimedWithinIndex, NEW u \in Users, NEW t \in RewardTokens
  PROVE  PerShareUnclaimed(u, t) \in Nat /\ UnclaimedAmount(u, t) \in Nat
<1>1. PerShareUnclaimed(u, t) \in Nat
  BY DEF TypeOK, ClaimedWithinIndex, PerShareUnclaimed
<1> QED BY <1>1, StakeType, FixedMulType DEF UnclaimedAmount

(* Paying rewards keeps the ledgers well-typed. *)
LEMMA PayType ==
  ASSUME TypeOK, ClaimedWithinIndex, NEW u \in Users, PayRewards(u)
  PROVE  rewardBalance' \in [Holders -> [RewardTokens -> Nat]]
<1> DEFINE due == [t \in RewardTokens |-> UnclaimedAmount(u, t)]
           fromVault == [t \in RewardTokens |->
             IF t \in Paid(u) THEN rewardBalance[TheVault][t] - due[t]
             ELSE rewardBalance[TheVault][t]]
           toUser == [t \in RewardTokens |->
             IF t \in Paid(u) THEN rewardBalance[u][t] + due[t]
             ELSE rewardBalance[u][t]]
<1>1. u \in Holders /\ TheVault \in Holders /\ u # TheVault
  BY VaultAssumption 
<1>2. due \in [RewardTokens -> Nat]
  BY UnclaimedType
<1>3. \A t \in Paid(u) \cap RewardTokens : rewardBalance[TheVault][t] >= due[t]
  BY DEF PayRewards
<1>4. /\ rewardBalance[TheVault] \in [RewardTokens -> Nat]
      /\ rewardBalance[u] \in [RewardTokens -> Nat]
  BY <1>1 DEF TypeOK
<1>5. fromVault \in [RewardTokens -> Nat] /\ toUser \in [RewardTokens -> Nat]
  <2> HIDE DEF due
  <2> QED BY <1>2, <1>3, <1>4
<1>6. rewardBalance' = [rewardBalance EXCEPT ![TheVault] = fromVault, ![u] = toUser]
  BY <1>1 DEF PayRewards, TypeOK
<1> HIDE DEF fromVault, toUser
<1> QED BY <1>1, <1>5, <1>6 DEF TypeOK

(* A claim leaves the claimed indices where they are, or moves them to the *)
(* token's index.                                                          *)
LEMMA ClaimedAfterWithin ==
  ASSUME TypeOK, ClaimedWithinIndex, NEW u \in Users
  PROVE  /\ ClaimedAfter(u) \in [RewardTokens -> Nat]
         /\ \A t \in RewardTokens : ClaimedAfter(u)[t] <= perShareAmount[t]
BY DEF TypeOK, ClaimedWithinIndex, ClaimedAfter, PerShareUnclaimed

(* The total moves with the one stake that changes. *)
LEMMA StakesChange ==
  ASSUME VaultInv, NEW u \in Users,
         contribution' \in [Users -> Contribution],
         \A w \in Users \ {u} : contribution'[w] = contribution[w]
  PROVE  /\ Stake(u) <= stakingTokenTotalSupply
         /\ Total(Users, Stakes') =
              stakingTokenTotalSupply - Stake(u) + Stake(u)'
<1>1. IsFiniteSet(Users)
  BY VaultAssumption
<1>2. \A w \in Users : Stakes[w] \in Nat
  BY StakeType DEF VaultInv, Stakes
<1>3. Stakes'[u] \in Nat
  BY DEF Stakes, Stake, Contribution
<1>4. \A w \in Users \ {u} : Stakes'[w] = Stakes[w]
  BY DEF Stakes, Stake
<1>5. /\ Total(Users, Stakes) >= Stakes[u]
      /\ Total(Users, Stakes') = Total(Users, Stakes) - Stakes[u] + Stakes'[u]
  BY <1>1, <1>2, <1>3, <1>4, TotalChange
<1>6. Total(Users, Stakes) = stakingTokenTotalSupply
  BY DEF VaultInv, StakesBacked, Stakes
<1>7. Stakes[u] = Stake(u) /\ Stakes'[u] = Stake(u)'
  BY DEF Stakes
<1>8. Stake(u) \in Nat /\ stakingTokenTotalSupply \in Nat
  BY StakeType DEF VaultInv, TypeOK
<1> QED BY <1>5, <1>6, <1>7, <1>8

(* Nothing about the stakes changes. *)
LEMMA StakesKept ==
  ASSUME VaultInv,
         UNCHANGED <<stakingBalance, stakingTokenTotalSupply, contribution>>
  PROVE  StakesBacked' /\ StakersKnown'
BY DEF VaultInv, StakesBacked, StakersKnown, Stake

-----------------------------------------------------------------------------
(* The operations keep the invariant *)

LEMMA InitInv == Init => VaultInv
<1> SUFFICES ASSUME Init PROVE VaultInv
  OBVIOUS
<1>1. TypeOK
  BY VaultAssumption
     DEF Init, TypeOK, Contribution, NoContribution
<1>2. StakesBacked
  <2>1. \A u \in Users : Stakes[u] = 0
    BY DEF Init, Stakes, Stake, NoContribution
  <2>2. Total(Users, Stakes) = 0
    BY <2>1, TotalZero
  <2>3. stakingBalance[TheVault] = 0
    BY VaultAssumption DEF Init
  <2> QED BY <2>2, <2>3 DEF Init, StakesBacked, Stakes
<1>3. ClaimedWithinIndex
  BY DEF Init, ClaimedWithinIndex
<1>4. StakersKnown
  BY DEF Init, StakersKnown, Stake, NoContribution
<1>5. UnlistedHasNoIndex
  BY DEF Init, UnlistedHasNoIndex
<1> QED BY <1>1, <1>2, <1>3, <1>4, <1>5 DEF VaultInv

(* Taking a stake: the supply, the stakes and the ledger move together. *)
LEMMA TakeStakeInv ==
  ASSUME VaultInv, NEW u \in Users, NEW amount \in Nat, amount > 0, now \in Nat,
         TakeStake(u, amount)
  PROVE  /\ stakingBalance' \in [Holders -> Nat]
         /\ stakingTokenTotalSupply' \in Nat
         /\ contribution' \in [Users -> Contribution]
         /\ StakesBacked' /\ StakersKnown'
<1>1. Stake(u) \in Nat
  BY StakeType DEF VaultInv
<1>2. Contributed(u, amount) \in Contribution
  BY <1>1 DEF Contributed, Contribution
<1>3. contribution' \in [Users -> Contribution]
  BY <1>2 DEF TakeStake, VaultInv, TypeOK
<1>4. Stake(u)' = Stake(u) + amount
  BY DEF TakeStake, Stake, Contributed, VaultInv, TypeOK
<1>5. \A w \in Users \ {u} : contribution'[w] = contribution[w]
  BY DEF TakeStake, VaultInv, TypeOK
<1>6. stakingTokenTotalSupply' \in Nat
  BY DEF TakeStake, VaultInv, TypeOK
<1>7. u # TheVault
  BY VaultAssumption
<1>8. /\ stakingBalance' \in [Holders -> Nat]
      /\ stakingBalance'[TheVault] = stakingBalance[TheVault] + amount
  <2>0. u \in Holders /\ TheVault \in Holders
    BY VaultAssumption
  <2>1. stakingBalance \in [Holders -> Nat] /\ stakingBalance[u] >= amount
    BY DEF TakeStake, VaultInv, TypeOK
  <2>2. stakingBalance' =
          [stakingBalance EXCEPT ![u] = @ - amount, ![TheVault] = @ + amount]
    BY DEF TakeStake
  <2> QED BY <1>7, <2>0, <2>1, <2>2, LedgerMoves
<1>9. Total(Users, Stakes') = stakingTokenTotalSupply'
  <2>1. Total(Users, Stakes') = stakingTokenTotalSupply - Stake(u) + Stake(u)'
    BY <1>3, <1>5, StakesChange
  <2>2. stakingTokenTotalSupply' = stakingTokenTotalSupply + amount
    BY DEF TakeStake
  <2>3. stakingTokenTotalSupply \in Nat
    BY DEF VaultInv, TypeOK
  <2> QED BY <1>1, <1>4, <2>1, <2>2, <2>3
<1>10. StakesBacked'
  BY <1>8, <1>9 DEF TakeStake, StakesBacked, Stakes, VaultInv, TypeOK
<1>11. StakersKnown'
  <2>1. contribution'[u].alreadyStaked /\ Stake(u)' > 0
    BY <1>1, <1>4 DEF TakeStake, Contributed, VaultInv, TypeOK
  <2>2. \A w \in Users \ {u} : contribution'[w].alreadyStaked <=> Stake(w)' > 0
    BY <1>5 DEF VaultInv, StakersKnown, Stake
  <2> QED BY <2>1, <2>2 DEF StakersKnown
<1> QED BY <1>3, <1>6, <1>8, <1>10, <1>11

LEMMA FirstStakeInv ==
  ASSUME VaultInv, NEW u \in Users, NEW amount \in Nat, FirstStake(u, amount)
  PROVE  VaultInv'
<1> USE DEF VaultInv, TypeOK, FirstStake
<1>1. /\ stakingBalance' \in [Holders -> Nat]
      /\ stakingTokenTotalSupply' \in Nat
      /\ contribution' \in [Users -> Contribution]
      /\ StakesBacked' /\ StakersKnown'
  BY TakeStakeInv
<1>2. rewardClaimed' \in [Users -> [RewardTokens -> Nat]]
  OBVIOUS
<1>3. ClaimedWithinIndex'
  BY DEF ClaimedWithinIndex
<1>4. UnlistedHasNoIndex'
  BY DEF UnlistedHasNoIndex, Listed
<1> QED BY <1>1, <1>2, <1>3, <1>4

(* rewardClaimed' once a claim has run. *)
LEMMA ClaimedInv ==
  ASSUME TypeOK, ClaimedWithinIndex, NEW u \in Users,
         rewardClaimed' = [rewardClaimed EXCEPT ![u] = ClaimedAfter(u)],
         UNCHANGED perShareAmount
  PROVE  rewardClaimed' \in [Users -> [RewardTokens -> Nat]] /\ ClaimedWithinIndex'
<1>1. /\ ClaimedAfter(u) \in [RewardTokens -> Nat]
      /\ \A t \in RewardTokens : ClaimedAfter(u)[t] <= perShareAmount[t]
  BY ClaimedAfterWithin
<1> QED BY <1>1 DEF TypeOK, ClaimedWithinIndex

LEMMA StakeMoreInv ==
  ASSUME VaultInv, NEW u \in Users, NEW amount \in Nat, StakeMore(u, amount)
  PROVE  VaultInv'
<1>1. /\ stakingBalance' \in [Holders -> Nat]
      /\ stakingTokenTotalSupply' \in Nat
      /\ contribution' \in [Users -> Contribution]
      /\ StakesBacked' /\ StakersKnown'
  BY TakeStakeInv DEF StakeMore, VaultInv, TypeOK
<1>2. rewardClaimed' \in [Users -> [RewardTokens -> Nat]] /\ ClaimedWithinIndex'
  BY ClaimedInv DEF StakeMore, VaultInv
<1>3. rewardBalance' \in [Holders -> [RewardTokens -> Nat]]
  BY PayType DEF StakeMore, VaultInv
<1>4. UnlistedHasNoIndex'
  BY DEF StakeMore, VaultInv, UnlistedHasNoIndex, Listed
<1> QED BY <1>1, <1>2, <1>3, <1>4 DEF StakeMore, VaultInv, TypeOK

LEMMA ClaimRewardsInv ==
  ASSUME VaultInv, NEW u \in Users, ClaimRewards(u)
  PROVE  VaultInv'
<1>1. rewardClaimed' \in [Users -> [RewardTokens -> Nat]] /\ ClaimedWithinIndex'
  BY ClaimedInv DEF ClaimRewards, VaultInv
<1>2. rewardBalance' \in [Holders -> [RewardTokens -> Nat]]
  BY PayType DEF ClaimRewards, VaultInv
<1>3. StakesBacked' /\ StakersKnown'
  BY StakesKept DEF ClaimRewards
<1>4. UnlistedHasNoIndex'
  BY DEF ClaimRewards, VaultInv, UnlistedHasNoIndex, Listed
<1> QED BY <1>1, <1>2, <1>3, <1>4 DEF ClaimRewards, VaultInv, TypeOK

LEMMA UnstakeInv ==
  ASSUME VaultInv, NEW u \in Users, NEW amount \in Nat, Unstake(u, amount)
  PROVE  VaultInv'
<1>1. Stake(u) \in Nat /\ Stake(u) >= amount
  BY StakeType DEF VaultInv, Unstake, CanUserUnStakeTokens
<1>2. \A w \in Users \ {u} : contribution'[w] = contribution[w]
  BY DEF Unstake, VaultInv, TypeOK
<1>3. contribution[u] \in Contribution
  BY DEF VaultInv, TypeOK
<1>4. /\ contribution' \in [Users -> Contribution]
      /\ Stake(u)' = Stake(u) - amount
      /\ contribution'[u].alreadyStaked <=> Stake(u) # amount
  <2>1. CASE Stake(u) = amount
    <3>1. contribution' = [contribution EXCEPT ![u] = NoContribution]
      BY <2>1 DEF Unstake
    <3> QED BY <2>1, <3>1, <1>1
            DEF NoContribution, Contribution, Stake, VaultInv, TypeOK
  <2>2. CASE Stake(u) # amount
    <3> DEFINE r == [contribution[u] EXCEPT !.stakingTokenTotal = @ - amount]
    <3>1. contribution' = [contribution EXCEPT ![u] = r]
      BY <2>2 DEF Unstake
    <3>2. /\ r \in Contribution /\ r.stakingTokenTotal = Stake(u) - amount
          /\ r.alreadyStaked = contribution[u].alreadyStaked
      BY <1>1, <1>3 DEF Contribution, Stake
    <3>3. contribution[u].alreadyStaked
      BY DEF Unstake, CanUserUnStakeTokens
    <3> HIDE DEF r
    <3> QED BY <2>2, <3>1, <3>2, <3>3 DEF Stake, VaultInv, TypeOK
  <2> QED BY <2>1, <2>2
<1>5. /\ Stake(u) <= stakingTokenTotalSupply
      /\ Total(Users, Stakes') = stakingTokenTotalSupply - Stake(u) + Stake(u)'
  BY <1>2, <1>4, StakesChange
<1>6. /\ stakingTokenTotalSupply' \in Nat
      /\ Total(Users, Stakes') = stakingTokenTotalSupply'
  BY <1>1, <1>4, <1>5 DEF Unstake, VaultInv, TypeOK
<1>7. u # TheVault
  BY VaultAssumption
<1>8. /\ stakingBalance' \in [Holders -> Nat]
      /\ stakingBalance'[TheVault] = stakingBalance[TheVault] - amount
  <2>0. u \in Holders /\ TheVault \in Holders
    BY VaultAssumption
  <2>1. stakingBalance \in [Holders -> Nat]
    BY DEF VaultInv, TypeOK
  <2>2. /\ stakingBalance[TheVault] >= amount
        /\ stakingBalance' =
             [stakingBalance EXCEPT ![u] = @ + amount, ![TheVault] = @ - amount]
    BY DEF Unstake
  <2> QED BY <1>7, <2>0, <2>1, <2>2, LedgerMoves
<1>9. StakesBacked'
  BY <1>6, <1>8 DEF Unstake, StakesBacked, Stakes, VaultInv, TypeOK
<1>10. StakersKnown'
  <2>1. contribution'[u].alreadyStaked <=> Stake(u)' > 0
    BY <1>1, <1>4
  <2>2. \A w \in Users \ {u} : contribution'[w].alreadyStaked <=> Stake(w)' > 0
    BY <1>2 DEF VaultInv, StakersKnown, Stake
  <2> QED BY <2>1, <2>2 DEF StakersKnown
<1>11. rewardClaimed' \in [Users -> [RewardTokens -> Nat]] /\ ClaimedWithinIndex'
  <2>1. CASE Stake(u) = amount
    <3> DEFINE c == [t \in RewardTokens |->
                       IF t \in Listed THEN 0 ELSE rewardClaimed[u][t]]
    <3>1. rewardClaimed' = [rewardClaimed EXCEPT ![u] = c]
      BY <2>1 DEF Unstake, VaultInv, TypeOK
    <3>2. /\ c \in [RewardTokens -> Nat]
          /\ \A t \in RewardTokens : c[t] <= perShareAmount[t]
      BY DEF VaultInv, TypeOK, ClaimedWithinIndex
    <3> HIDE DEF c
    <3> QED BY <3>1, <3>2 DEF Unstake, VaultInv, TypeOK, ClaimedWithinIndex
  <2>2. CASE Stake(u) # amount
    BY <2>2, ClaimedInv DEF Unstake, VaultInv
  <2> QED BY <2>1, <2>2
<1>12. rewardBalance' \in [Holders -> [RewardTokens -> Nat]]
  BY PayType DEF Unstake, VaultInv
<1>13. UnlistedHasNoIndex'
  BY DEF Unstake, VaultInv, UnlistedHasNoIndex, Listed
<1> QED BY <1>4, <1>6, <1>8, <1>9, <1>10, <1>11, <1>12, <1>13
        DEF Unstake, VaultInv, TypeOK

(* The list after a reward has the token, and every token it had. *)
LEMMA ListedAfterKeeps ==
  ASSUME TypeOK, NEW t \in RewardTokens, rewardTokens' = ListedAfter(t)
  PROVE  /\ rewardTokens' \in Seq(RewardTokens)
         /\ Listed' = Listed \cup {t}
<1>1. CASE t \in Listed
  BY <1>1 DEF TypeOK, ListedAfter, Listed
<1>2. CASE t \notin Listed
  <2>1. rewardTokens' = Append(rewardTokens, t)
    BY <1>2 DEF ListedAfter
  <2>2. rewardTokens \in Seq(RewardTokens)
    BY DEF TypeOK
  <2>3. /\ rewardTokens' \in Seq(RewardTokens)
        /\ Len(rewardTokens') = Len(rewardTokens) + 1
        /\ \A i \in 1 .. Len(rewardTokens) : rewardTokens'[i] = rewardTokens[i]
        /\ rewardTokens'[Len(rewardTokens) + 1] = t
    BY <2>1, <2>2, AppendProperties
  <2>4. /\ DOMAIN rewardTokens = 1 .. Len(rewardTokens)
        /\ DOMAIN rewardTokens' = 1 .. (Len(rewardTokens) + 1)
        /\ Len(rewardTokens) \in Nat
    BY <2>2, <2>3
  <2>5. 1 .. (Len(rewardTokens) + 1) = (1 .. Len(rewardTokens)) \cup {Len(rewardTokens) + 1}
    BY <2>4
  <2> DEFINE n == Len(rewardTokens)
  <2>6. \A i \in 1 .. n : rewardTokens[i] \in Listed
    BY <2>4 DEF Listed
  <2>7. \A x \in Listed : \E i \in 1 .. n : x = rewardTokens[i]
    BY <2>4 DEF Listed
  <2>8. \A x \in Listed' : \E i \in 1 .. (n + 1) : x = rewardTokens'[i]
    BY <2>4 DEF Listed
  <2>9. \A i \in 1 .. (n + 1) : rewardTokens'[i] \in Listed'
    BY <2>4 DEF Listed
  <2>10. Listed' \subseteq Listed \cup {t}
    BY <2>3, <2>5, <2>6, <2>8
  <2>11. Listed \cup {t} \subseteq Listed'
    BY <2>3, <2>4, <2>5, <2>7, <2>9
  <2> QED BY <2>3, <2>10, <2>11
<1> QED BY <1>1, <1>2

(* A reward that is recorded with the ledger moved by somebody else.       *)
LEMMA RecordedReward ==
  ASSUME VaultInv, NEW t \in RewardTokens, NEW amount \in Nat,
         stakingTokenTotalSupply > 0,
         rewardTokens' = ListedAfter(t), perShareAmount' = IndexAfter(t, amount),
         rewardBalance' \in [Holders -> [RewardTokens -> Nat]],
         UNCHANGED <<now, stakingBalance, stakingTokenTotalSupply, contribution,
                     rewardClaimed>>
  PROVE  VaultInv'
<1> DEFINE d == FixedDiv(amount, stakingTokenTotalSupply)
<1>1. d \in Nat
  BY FixedDivType DEF VaultInv, TypeOK
<1>2. perShareAmount' = [perShareAmount EXCEPT ![t] = @ + d]
  BY DEF IndexAfter
<1> HIDE DEF d
<1>3. perShareAmount' \in [RewardTokens -> Nat]
  BY <1>1, <1>2 DEF VaultInv, TypeOK
<1>4. ClaimedWithinIndex'
  BY <1>1, <1>2 DEF VaultInv, TypeOK, ClaimedWithinIndex
<1>5. rewardTokens' \in Seq(RewardTokens) /\ Listed' = Listed \cup {t}
  BY ListedAfterKeeps DEF VaultInv
<1>6. UnlistedHasNoIndex'
  BY <1>2, <1>5 DEF VaultInv, TypeOK, UnlistedHasNoIndex
<1>7. StakesBacked' /\ StakersKnown'
  BY StakesKept
<1> QED BY <1>3, <1>4, <1>5, <1>6, <1>7 DEF VaultInv, TypeOK

LEMMA AddRewardInv ==
  ASSUME VaultInv, NEW t \in RewardTokens, NEW amount \in Nat,
         NEW from \in Funders, AddReward(t, amount, from)
  PROVE  VaultInv'
<1>1. rewardBalance' \in [Holders -> [RewardTokens -> Nat]]
  <2>1. from # TheVault /\ from \in Holders /\ TheVault \in Holders
    BY VaultAssumption 
  <2> DEFINE paid == [rewardBalance[from] EXCEPT ![t] = @ - amount]
             got == [rewardBalance[TheVault] EXCEPT ![t] = @ + amount]
  <2>2. rewardBalance[from] \in [RewardTokens -> Nat] /\ rewardBalance[from][t] >= amount
    BY <2>1 DEF AddReward, VaultInv, TypeOK
  <2>3. paid \in [RewardTokens -> Nat]
    BY <2>2
  <2>4. got \in [RewardTokens -> Nat]
    BY <2>1 DEF VaultInv, TypeOK
  <2>5. rewardBalance' = [rewardBalance EXCEPT ![from] = paid, ![TheVault] = got]
    BY <2>1 DEF AddReward, VaultInv, TypeOK
  <2> HIDE DEF paid, got
  <2> QED BY <2>1, <2>3, <2>4, <2>5 DEF VaultInv, TypeOK
<1> QED BY <1>1, RecordedReward DEF AddReward

LEMMA TickInv ==
  ASSUME VaultInv, Tick
  PROVE  VaultInv'
<1>1. StakesBacked' /\ StakersKnown'
  BY StakesKept DEF Tick
<1> QED BY <1>1 DEF Tick, VaultInv, TypeOK, ClaimedWithinIndex,
                    UnlistedHasNoIndex, Listed

LEMMA StakerNextInv ==
  ASSUME VaultInv, NEW u \in Users, NEW n \in StakeAmounts, StakerNext(u, n)
  PROVE  VaultInv'
<1>1. n \in Nat
  BY VaultAssumption
<1>2. CASE FirstStake(u, n)
  BY <1>1, <1>2, FirstStakeInv
<1>3. CASE StakeMore(u, n)
  BY <1>1, <1>3, StakeMoreInv
<1>4. CASE StakeDeferred(u, n) \/ UnstakeDeferred(u, n)
  BY <1>4, ClaimRewardsInv DEF StakeDeferred, UnstakeDeferred
<1>5. CASE Unstake(u, n)
  BY <1>1, <1>5, UnstakeInv
<1> QED BY <1>2, <1>3, <1>4, <1>5 DEF StakerNext

LEMMA NextInv == VaultInv /\ [Next]_vars => VaultInv'
<1> SUFFICES ASSUME VaultInv, [Next]_vars PROVE VaultInv'
  OBVIOUS
<1>1. ASSUME NEW u \in Users, NEW n \in StakeAmounts, StakerNext(u, n)
      PROVE  VaultInv'
  BY <1>1, StakerNextInv
<1>2. ASSUME NEW u \in Users, ClaimRewards(u) PROVE VaultInv'
  BY <1>2, ClaimRewardsInv
<1>3. ASSUME NEW t \in RewardTokens, NEW n \in RewardAmounts, NEW from \in Funders,
             AddReward(t, n, from)
      PROVE  VaultInv'
  BY <1>3, AddRewardInv, VaultAssumption
<1>4. CASE Tick
  BY <1>4, TickInv
<1>5. CASE UNCHANGED vars
  BY <1>5 DEF vars, VaultInv, TypeOK, StakesBacked, ClaimedWithinIndex,
              StakersKnown, UnlistedHasNoIndex, Stake, Listed
<1> QED BY <1>1, <1>2, <1>3, <1>4, <1>5 DEF Next

-----------------------------------------------------------------------------
(***************************************************************************)
(* Every variable keeps its type: no ledger entry, stake, supply or index  *)
(* goes below zero in any order of operations (Vault.sol:85-146).          *)
(***************************************************************************)
THEOREM TypeCorrect == Spec => []TypeOK
<1>1. VaultInv => TypeOK
  BY DEF VaultInv
<1> QED BY <1>1, InitInv, NextInv, PTL DEF Spec

(***************************************************************************)
(* The supply rewards are divided by is the sum of the stakes, and the     *)
(* vault owns that many tokens (Vault.sol:276-318).                        *)
(***************************************************************************)
THEOREM StakesAreBacked == Spec => []StakesBacked
<1>1. VaultInv => StakesBacked
  BY DEF VaultInv
<1> QED BY <1>1, InitInv, NextInv, PTL DEF Spec

(***************************************************************************)
(* The subtraction of the claimed from the present index never underflows  *)
(* (Vault.sol:345).                                                        *)
(***************************************************************************)
THEOREM IndicesStayOrdered == Spec => []ClaimedWithinIndex
<1>1. VaultInv => ClaimedWithinIndex
  BY DEF VaultInv
<1> QED BY <1>1, InitInv, NextInv, PTL DEF Spec

(* Only a first stake makes a stake of none. *)
LEMMA NewStakerStep ==
  ASSUME VaultInv, [Next]_vars, NEW u \in Users, Stake(u) = 0, Stake(u)' > 0
  PROVE  \A t \in RewardTokens : PerShareUnclaimed(u, t)' = 0
<1>1. ~contribution[u].alreadyStaked
  BY DEF VaultInv, StakersKnown
<1>2. \A w \in Users : contribution'[w] = contribution[w] => w # u
  BY DEF Stake
<1>3. PICK n \in StakeAmounts : FirstStake(u, n)
  <2>1. ASSUME NEW w \in Users, NEW n \in StakeAmounts, StakerNext(w, n)
        PROVE  FirstStake(u, n)
    <3>1. CASE w = u
      <4>1. ~StakeMore(u, n) /\ ~StakeDeferred(u, n)
        BY <1>1 DEF StakeMore, StakeDeferred
      <4>2. ~Unstake(u, n) /\ ~UnstakeDeferred(u, n)
        BY <1>1 DEF Unstake, UnstakeDeferred, CanUserUnStakeTokens
      <4> QED BY <2>1, <3>1, <4>1, <4>2 DEF StakerNext
    <3>2. CASE w # u
      <4>1. contribution'[u] = contribution[u]
        BY <2>1, <3>2 DEF StakerNext, FirstStake, StakeMore, StakeDeferred, Unstake,
             UnstakeDeferred, TakeStake, ClaimRewards, VaultInv, TypeOK
      <4> QED BY <1>2, <4>1
    <3> QED BY <3>1, <3>2
  <2>2. ASSUME NEW w \in Users, ClaimRewards(w) PROVE FALSE
    BY <1>2, <2>2 DEF ClaimRewards
  <2>3. ASSUME NEW t \in RewardTokens, NEW n \in RewardAmounts,
               NEW from \in Funders, AddReward(t, n, from)
        PROVE  FALSE
    BY <1>2, <2>3 DEF AddReward
  <2>4. ~Tick /\ ~UNCHANGED vars
    BY <1>2 DEF Tick, vars
  <2> QED BY <2>1, <2>2, <2>3, <2>4 DEF Next
<1>4. \A t \in RewardTokens :
        rewardClaimed'[u][t] = IF t \in Listed THEN perShareAmount[t]
                               ELSE rewardClaimed[u][t]
  BY <1>3 DEF FirstStake, VaultInv, TypeOK
<1>5. \A t \in RewardTokens \ Listed : perShareAmount[t] = 0 /\ rewardClaimed[u][t] = 0
  BY DEF VaultInv, TypeOK, UnlistedHasNoIndex, ClaimedWithinIndex
<1>6. perShareAmount' = perShareAmount
  BY <1>3 DEF FirstStake
<1>7. ASSUME NEW t \in RewardTokens PROVE perShareAmount'[t] - rewardClaimed'[u][t] = 0
  <2>1. perShareAmount[t] \in Nat
    BY DEF VaultInv, TypeOK
  <2>2. CASE t \in Listed
    BY <1>4, <1>6, <2>1, <2>2
  <2>3. CASE t \notin Listed
    BY <1>4, <1>5, <1>6, <2>3
  <2> QED BY <2>2, <2>3
<1> QED BY <1>7 DEF PerShareUnclaimed

(***************************************************************************)
(* A first stake, a return after a full unstake included, is due nothing   *)
(* of the rewards added before it, whatever the rounding                   *)
(* (Vault.sol:85-111, 261-274).                                            *)
(***************************************************************************)
THEOREM NewStakersStartAtZero == Spec => NewStakerOwedNothing
<1>1. VaultInv /\ [Next]_vars =>
        [\A u \in Users : Stake(u) = 0 /\ Stake(u)' > 0
           => \A t \in RewardTokens : PerShareUnclaimed(u, t)' = 0]_vars
  BY NewStakerStep
<1> QED BY <1>1, InitInv, NextInv, PTL DEF Spec, NewStakerOwedNothing
-----------------------------------------------------------------------------
(* Exact books.  Where a due is a fraction, rounding it half up moves      *)
(* rewards from one staker to another.  The next two facts say that so far *)
(* no due and no index was a fraction.                                     *)

NothingRounded ==
  \A u \in Users, t \in RewardTokens :
    (Stake(u) * PerShareUnclaimed(u, t)) % Scale = 0

RewardDivides ==
  \A t \in RewardTokens, n \in RewardAmounts, from \in Funders :
    AddReward(t, n, from) => (n * Scale) % stakingTokenTotalSupply = 0

LEMMA ExactQuotient ==
  ASSUME NEW a \in Nat, NEW b \in Nat \ {0}, a % b = 0
  PROVE  a \div b \in Nat /\ b * (a \div b) = a
BY SMT

(* A product that is a multiple of the unit is not rounded. *)
LEMMA ExactMul ==
  ASSUME NEW x \in Nat, NEW y \in Nat, (x * y) % Scale = 0
  PROVE  FixedMul(x, y) \in Nat /\ Scale * FixedMul(x, y) = x * y
<1> DEFINE n == x * y
           q == n \div Scale
           h == Scale \div 2
           r == (n + h) \div Scale
<1>1. n \in Nat /\ Scale \in Nat \ {0}
  BY VaultAssumption, TimesIsNat
<1>2. q \in Nat /\ Scale * q = n
  <2> HIDE DEF n
  <2> QED BY <1>1, ExactQuotient DEF n
<1>3. h \in Nat /\ h < Scale
  BY <1>1
<1>4. r \in Nat /\ Scale * r <= n + h /\ n + h < Scale * (r + 1)
  <2>1. n + h \in Nat
    BY <1>1, <1>3
  <2> HIDE DEF n, h
  <2> QED BY <1>1, <2>1, QuotientFacts
<1>5. FixedMul(x, y) = r
  BY DEF FixedMul
<1> HIDE DEF n, q, h, r
<1>6. r = q
  <2>1. \A i, j \in Nat : i < j => Scale * (i + 1) <= Scale * j
    BY <1>1, TimesOrder
  <2>2. Scale * (q + 1) = n + Scale
    BY <1>1, <1>2
  <2>3. Scale * r \in Nat /\ Scale * (r + 1) \in Nat
    BY <1>1, <1>4, TimesIsNat
  <2>4. ~(r < q)
    BY <1>1, <1>2, <1>3, <1>4, <2>1, <2>3
  <2>5. ~(q < r)
    BY <1>1, <1>2, <1>3, <1>4, <2>1, <2>2, <2>3
  <2> QED BY <1>2, <1>4, <2>4, <2>5
<1> QED BY <1>2, <1>5, <1>6 DEF n

LEMMA MulByZero ==
  ASSUME NEW x \in Nat
  PROVE  FixedMul(x, 0) = 0 /\ FixedMul(0, x) = 0
<1>1. x * 0 = 0 /\ 0 * x = 0 /\ 0 % Scale = 0 /\ Scale \in Nat \ {0}
  BY VaultAssumption
<1>2. \A r \in Nat : Scale * r = 0 => r = 0
  BY <1>1, TimesOrder
<1> QED BY <1>1, <1>2, ExactMul

(* A staker that one claim can pay is settled by it. *)
LEMMA ClaimSettles ==
  ASSUME VaultInv, NothingRounded, NEW u \in Users, contribution[u].alreadyStaked,
         NothingLeftUnclaimed(u), NEW t \in RewardTokens
  PROVE  ClaimedAfter(u)[t] = perShareAmount[t]
<1>1. /\ perShareAmount[t] \in Nat /\ rewardClaimed[u][t] \in Nat
      /\ rewardClaimed[u][t] <= perShareAmount[t]
      /\ Stake(u) \in Nat /\ Stake(u) > 0
  BY StakeType DEF VaultInv, TypeOK, ClaimedWithinIndex, StakersKnown
<1>2. CASE t \in Paid(u)
  BY <1>1, <1>2 DEF ClaimedAfter, PerShareUnclaimed
<1>3. CASE t \notin Listed
  <2>1. perShareAmount[t] = 0
    BY <1>1, <1>3 DEF VaultInv, UnlistedHasNoIndex
  <2> QED BY <1>1, <2>1 DEF ClaimedAfter, PerShareUnclaimed
<1>4. CASE t \in Listed /\ t \notin Paid(u)
  <2>1. PICK i \in DOMAIN rewardTokens : rewardTokens[i] = t
    BY <1>4 DEF Listed
  <2>2. i \notin DueAt(u)
    BY <1>4, <2>1 DEF NothingLeftUnclaimed, Paid
  <2>3. UnclaimedAmount(u, t) = 0
    BY <2>1, <2>2, UnclaimedType DEF DueAt, VaultInv
  <2> DEFINE d == PerShareUnclaimed(u, t)
  <2>4. d \in Nat
    BY UnclaimedType DEF VaultInv
  <2>5. (Stake(u) * d) % Scale = 0 /\ FixedMul(Stake(u), d) = 0
    BY <2>3 DEF NothingRounded, UnclaimedAmount
  <2> HIDE DEF d
  <2>6. Stake(u) * d = 0
    BY <1>1, <2>4, <2>5, ExactMul, VaultAssumption
  <2>7. d = 0
    <3>1. \A i1, j1 \in Nat : i1 >= 1 /\ j1 >= 1 => 1 * j1 <= i1 * j1
      BY TimesOrder
    <3> QED BY <1>1, <2>4, <2>6, <3>1
  <2> QED BY <1>1, <1>4, <2>7 DEF d, ClaimedAfter, PerShareUnclaimed
<1> QED BY <1>2, <1>3, <1>4

(* Right after its stake changed, nothing is due to a user. *)
LEMMA SettledStep ==
  ASSUME VaultInv, VaultInv', NothingRounded, [Next]_vars, NEW u \in Users,
         Stake(u)' # Stake(u), NEW t \in RewardTokens
  PROVE  UnclaimedAmount(u, t)' = 0
<1>1. /\ perShareAmount'[t] \in Nat /\ rewardClaimed'[u][t] \in Nat
      /\ rewardClaimed'[u][t] <= perShareAmount'[t] /\ Stake(u)' \in Nat
      /\ perShareAmount[t] \in Nat /\ Stake(u) \in Nat
  <2>1. contribution[u] \in Contribution /\ contribution'[u] \in Contribution
    BY DEF VaultInv, TypeOK
  <2> QED BY <2>1 DEF VaultInv, TypeOK, ClaimedWithinIndex, Stake, Contribution
<1>2. UnclaimedAmount(u, t)' =
        FixedMul(Stake(u)', perShareAmount'[t] - rewardClaimed'[u][t])
  BY DEF UnclaimedAmount, PerShareUnclaimed, FixedMul
<1>3. ASSUME rewardClaimed'[u][t] = perShareAmount'[t] PROVE UnclaimedAmount(u, t)' = 0
  BY <1>1, <1>2, <1>3, MulByZero
<1>4. ASSUME Stake(u)' = 0 PROVE UnclaimedAmount(u, t)' = 0
  <2>1. perShareAmount'[t] - rewardClaimed'[u][t] \in Nat
    BY <1>1
  <2> QED BY <1>2, <1>4, <2>1, MulByZero
<1>5. ASSUME contribution'[u] = contribution[u] PROVE FALSE
  BY <1>5 DEF Stake
<1>6. ASSUME NEW w \in Users, NEW n \in StakeAmounts, StakerNext(w, n)
      PROVE  UnclaimedAmount(u, t)' = 0
  <2>1. CASE w # u
    BY <1>5, <1>6, <2>1 DEF StakerNext, FirstStake, StakeMore, StakeDeferred, Unstake,
       UnstakeDeferred, TakeStake, ClaimRewards, VaultInv, TypeOK
  <2>2. CASE w = u
    <3>1. CASE FirstStake(u, n)
      <4>1. rewardClaimed'[u][t] = IF t \in Listed THEN perShareAmount[t]
                                   ELSE rewardClaimed[u][t]
        BY <3>1 DEF FirstStake, VaultInv, TypeOK
      <4>2. t \notin Listed => perShareAmount[t] = 0 /\ rewardClaimed[u][t] = 0
        BY DEF VaultInv, TypeOK, UnlistedHasNoIndex, ClaimedWithinIndex
      <4>3. perShareAmount' = perShareAmount
        BY <3>1 DEF FirstStake
      <4> QED BY <1>3, <4>1, <4>2, <4>3
    <3>2. CASE StakeMore(u, n)
      <4>1. /\ rewardClaimed'[u][t] = ClaimedAfter(u)[t]
            /\ perShareAmount' = perShareAmount
            /\ contribution[u].alreadyStaked /\ NothingLeftUnclaimed(u)
        BY <3>2 DEF StakeMore, VaultInv, TypeOK
      <4> QED BY <1>3, <4>1, ClaimSettles
    <3>3. CASE Unstake(u, n)
      <4>1. /\ perShareAmount' = perShareAmount
            /\ contribution[u].alreadyStaked /\ NothingLeftUnclaimed(u)
        BY <3>3 DEF Unstake, CanUserUnStakeTokens
      <4>2. CASE Stake(u) = n
        <5>1. contribution' = [contribution EXCEPT ![u] = NoContribution]
          BY <3>3, <4>2 DEF Unstake
        <5>2. Stake(u)' = 0
          BY <5>1 DEF Stake, NoContribution, VaultInv, TypeOK
        <5> QED BY <1>4, <5>2
      <4>3. CASE Stake(u) # n
        <5>1. rewardClaimed'[u][t] = ClaimedAfter(u)[t]
          BY <3>3, <4>3 DEF Unstake, VaultInv, TypeOK
        <5> QED BY <1>3, <4>1, <5>1, ClaimSettles
      <4> QED BY <4>2, <4>3
    <3>4. CASE StakeDeferred(u, n) \/ UnstakeDeferred(u, n)
      BY <1>5, <3>4 DEF StakeDeferred, UnstakeDeferred, ClaimRewards
    <3> QED BY <1>6, <2>2, <3>1, <3>2, <3>3, <3>4 DEF StakerNext
  <2> QED BY <2>1, <2>2
<1>7. ASSUME NEW w \in Users, ClaimRewards(w) PROVE FALSE
  BY <1>5, <1>7 DEF ClaimRewards
<1>8. ASSUME NEW s \in RewardTokens, NEW n \in RewardAmounts,
             NEW from \in Funders, AddReward(s, n, from)
      PROVE  FALSE
  BY <1>5, <1>8 DEF AddReward
<1>9. ~Tick /\ ~UNCHANGED vars
  BY <1>5 DEF Tick, vars
<1> QED BY <1>6, <1>7, <1>8, <1>9 DEF Next
(***************************************************************************)
(* As long as nothing was rounded, a stake only changes with its owner's   *)
(* rewards settled: nothing is due right after (Vault.sol:85-111).  A due  *)
(* below one half is rounded to zero and left unclaimed, and the new stake *)
(* would then earn it again, hence the condition.                          *)
(***************************************************************************)
THEOREM StakesChangeSettled == Spec /\ []NothingRounded => StakeChangesSettled
<1>1. Spec => []VaultInv
  BY InitInv, NextInv, PTL DEF Spec
<1>2. VaultInv /\ VaultInv' /\ NothingRounded /\ [Next]_vars =>
        [\A u \in Users :
           Stake(u)' # Stake(u) => \A t \in RewardTokens : UnclaimedAmount(u, t)' = 0]_vars
  BY SettledStep
<1> QED BY <1>1, <1>2, PTL DEF Spec, StakeChangesSettled

Due(t) == [u \in Users |-> UnclaimedAmount(u, t)]

LEMMA DueType ==
  ASSUME VaultInv, NEW t \in RewardTokens
  PROVE  \A u \in Users : Due(t)[u] \in Nat
BY UnclaimedType DEF Due, VaultInv

LEMMA DueNextType ==
  ASSUME VaultInv', NEW t \in RewardTokens
  PROVE  \A u \in Users : Due(t)'[u] \in Nat
<1> SUFFICES ASSUME NEW u \in Users PROVE UnclaimedAmount(u, t)' \in Nat
  BY DEF Due
<1>1. contribution'[u] \in Contribution
  BY DEF VaultInv, TypeOK
<1>2. /\ Stake(u)' \in Nat
      /\ perShareAmount'[t] - rewardClaimed'[u][t] \in Nat
  BY <1>1 DEF VaultInv, TypeOK, ClaimedWithinIndex, Stake, Contribution
<1>3. UnclaimedAmount(u, t)' =
        FixedMul(Stake(u)', perShareAmount'[t] - rewardClaimed'[u][t])
  BY DEF UnclaimedAmount, PerShareUnclaimed, FixedMul
<1> QED BY <1>2, <1>3, FixedMulType

(* What the vault owes of a token it does not pay in a claim that pays all *)
(* is nothing.                                                             *)
LEMMA UnpaidIsNotDue ==
  ASSUME VaultInv, NEW u \in Users, NothingLeftUnclaimed(u),
         NEW t \in RewardTokens, t \notin Paid(u)
  PROVE  UnclaimedAmount(u, t) = 0
<1>1. CASE t \in Listed
  <2>1. PICK i \in DOMAIN rewardTokens : rewardTokens[i] = t
    BY <1>1 DEF Listed
  <2>2. i \notin DueAt(u)
    BY <2>1 DEF NothingLeftUnclaimed, Paid
  <2> QED BY <2>1, <2>2, UnclaimedType DEF DueAt, VaultInv
<1>2. CASE t \notin Listed
  <2>1. PerShareUnclaimed(u, t) = 0
    BY <1>2 DEF VaultInv, TypeOK, UnlistedHasNoIndex, ClaimedWithinIndex,
                PerShareUnclaimed
  <2> QED BY <2>1, MulByZero, StakeType DEF UnclaimedAmount, VaultInv
<1> QED BY <1>1, <1>2

LEMMA PaidFromVault ==
  ASSUME VaultInv, NEW u \in Users, PayRewards(u), NEW t \in RewardTokens
  PROVE  rewardBalance'[TheVault][t] =
           IF t \in Paid(u) THEN rewardBalance[TheVault][t] - UnclaimedAmount(u, t)
           ELSE rewardBalance[TheVault][t]
<1>1. u # TheVault /\ TheVault \in Holders /\ u \in Holders
  BY VaultAssumption 
<1> QED BY <1>1 DEF PayRewards, VaultInv, TypeOK

(* The books stay exact when only one user's due changes, and the vault's  *)
(* balance by as much.                                                     *)
LEMMA OneDueChanges ==
  ASSUME VaultInv, VaultInv', NEW t \in RewardTokens, NEW u \in Users,
         rewardBalance[TheVault][t] = Total(Users, Due(t)),
         UNCHANGED perShareAmount,
         \A w \in Users \ {u} : /\ contribution'[w] = contribution[w]
                                /\ rewardClaimed'[w] = rewardClaimed[w],
         rewardBalance'[TheVault][t] =
           rewardBalance[TheVault][t] - UnclaimedAmount(u, t) + UnclaimedAmount(u, t)'
  PROVE  rewardBalance'[TheVault][t] = Total(Users, Due(t)')
<1>1. IsFiniteSet(Users)
  BY VaultAssumption
<1>2. \A w \in Users \ {u} : Due(t)'[w] = Due(t)[w]
  BY DEF Due, UnclaimedAmount, PerShareUnclaimed, Stake
<1>3. Total(Users, Due(t)') = Total(Users, Due(t)) - Due(t)[u] + Due(t)'[u]
  <2>1. (\A w \in Users : Due(t)[w] \in Nat) /\ Due(t)'[u] \in Nat
    BY DueType, DueNextType
  <2> QED BY <1>1, <1>2, <2>1, TotalChange
<1>4. Due(t)[u] = UnclaimedAmount(u, t) /\ Due(t)'[u] = UnclaimedAmount(u, t)'
  BY DEF Due
<1> QED BY <1>3, <1>4

LEMMA ClaimCovered ==
  ASSUME VaultInv, VaultInv', NEW u \in Users, ClaimRewards(u), NEW t \in RewardTokens,
         rewardBalance[TheVault][t] = Total(Users, Due(t))
  PROVE  rewardBalance'[TheVault][t] = Total(Users, Due(t)')
<1>1. /\ UNCHANGED <<perShareAmount, contribution>>
      /\ \A w \in Users \ {u} : rewardClaimed'[w] = rewardClaimed[w]
      /\ rewardClaimed'[u] = ClaimedAfter(u)
  BY DEF ClaimRewards, VaultInv, TypeOK
<1>2. UnclaimedAmount(u, t)' =
        FixedMul(Stake(u), perShareAmount[t] - ClaimedAfter(u)[t])
  BY <1>1 DEF UnclaimedAmount, PerShareUnclaimed, FixedMul, Stake
<1>3. /\ perShareAmount[t] \in Nat /\ rewardClaimed[u][t] \in Nat
      /\ Stake(u) \in Nat /\ UnclaimedAmount(u, t) \in Nat
      /\ rewardBalance[TheVault][t] \in Nat
  <2>1. rewardBalance[TheVault][t] \in Nat
    BY VaultAssumption DEF VaultInv, TypeOK
  <2> QED BY <2>1, StakeType, UnclaimedType DEF VaultInv, TypeOK
<1>4. CASE t \in Paid(u)
  <2>1. perShareAmount[t] - ClaimedAfter(u)[t] = 0
    BY <1>3, <1>4 DEF ClaimedAfter, PerShareUnclaimed
  <2>2. UnclaimedAmount(u, t)' = 0
    BY <1>2, <1>3, <2>1, MulByZero
  <2>3. rewardBalance'[TheVault][t] =
          rewardBalance[TheVault][t] - UnclaimedAmount(u, t) + UnclaimedAmount(u, t)'
    BY <1>3, <1>4, <2>2, PaidFromVault DEF ClaimRewards
  <2> QED BY <1>1, <2>3, OneDueChanges
<1>5. CASE t \notin Paid(u)
  <2>1. ClaimedAfter(u)[t] = rewardClaimed[u][t]
    BY <1>5 DEF ClaimedAfter
  <2>2. UnclaimedAmount(u, t)' = UnclaimedAmount(u, t)
    BY <1>2, <2>1 DEF UnclaimedAmount, PerShareUnclaimed
  <2>3. rewardBalance'[TheVault][t] =
          rewardBalance[TheVault][t] - UnclaimedAmount(u, t) + UnclaimedAmount(u, t)'
    BY <1>3, <1>5, <2>2, PaidFromVault DEF ClaimRewards
  <2> QED BY <1>1, <2>3, OneDueChanges
<1> QED BY <1>4, <1>5

(* A stake that changes leaves nothing due, and what was due is paid.      *)
LEMMA StakerCovered ==
  ASSUME VaultInv, VaultInv', NothingRounded, NEW u \in Users, NEW n \in StakeAmounts,
         StakerNext(u, n),
         NEW t \in RewardTokens, rewardBalance[TheVault][t] = Total(Users, Due(t))
  PROVE  rewardBalance'[TheVault][t] = Total(Users, Due(t)')
<1>1. CASE StakeDeferred(u, n) \/ UnstakeDeferred(u, n)
  BY <1>1, ClaimCovered DEF StakeDeferred, UnstakeDeferred
<1>2. CASE FirstStake(u, n) \/ StakeMore(u, n) \/ Unstake(u, n)
  <2>1. /\ n \in Nat /\ n > 0 /\ Stake(u) \in Nat
        /\ rewardBalance[TheVault][t] \in Nat /\ UnclaimedAmount(u, t) \in Nat
    <3>1. n \in Nat /\ n > 0
      BY <1>2, VaultAssumption DEF FirstStake, StakeMore, Unstake
    <3>2. rewardBalance[TheVault][t] \in Nat
      BY VaultAssumption DEF VaultInv, TypeOK
    <3> QED BY <3>1, <3>2, StakeType, UnclaimedType DEF VaultInv
  <2>2. /\ UNCHANGED perShareAmount
        /\ \A w \in Users \ {u} : /\ contribution'[w] = contribution[w]
                                  /\ rewardClaimed'[w] = rewardClaimed[w]
    <3>1. CASE FirstStake(u, n) \/ StakeMore(u, n)
      BY <3>1 DEF FirstStake, StakeMore, TakeStake, VaultInv, TypeOK
    <3>2. CASE Unstake(u, n)
      BY <3>2 DEF Unstake, VaultInv, TypeOK
    <3> QED BY <1>2, <3>1, <3>2
  <2>3. Stake(u)' # Stake(u)
    <3>1. CASE FirstStake(u, n) \/ StakeMore(u, n)
      <4>1. contribution' = [contribution EXCEPT ![u] = Contributed(u, n)]
        BY <3>1 DEF FirstStake, StakeMore, TakeStake
      <4>2. Stake(u)' = Stake(u) + n
        BY <4>1 DEF Stake, Contributed, VaultInv, TypeOK
      <4> QED BY <2>1, <4>2
    <3>2. CASE Unstake(u, n)
      <4>1. CASE Stake(u) = n
        <5>1. contribution' = [contribution EXCEPT ![u] = NoContribution]
          BY <3>2, <4>1 DEF Unstake
        <5>2. Stake(u)' = 0
          BY <5>1 DEF Stake, NoContribution, VaultInv, TypeOK
        <5> QED BY <2>1, <4>1, <5>2
      <4>2. CASE Stake(u) # n
        <5>1. contribution' = [contribution EXCEPT ![u].stakingTokenTotal = @ - n]
          BY <3>2, <4>2 DEF Unstake
        <5>2. contribution[u] \in Contribution
          BY DEF VaultInv, TypeOK
        <5>3. Stake(u)' = Stake(u) - n
          BY <5>1, <5>2 DEF Stake, Contribution, VaultInv, TypeOK
        <5> QED BY <2>1, <5>3
      <4> QED BY <4>1, <4>2
    <3> QED BY <1>2, <3>1, <3>2
  <2>4. UnclaimedAmount(u, t)' = 0
    <3>1. [Next]_vars
      BY DEF Next
    <3> QED BY <2>3, <3>1, SettledStep
  <2>5. rewardBalance'[TheVault][t] = rewardBalance[TheVault][t] - UnclaimedAmount(u, t)
    <3>1. CASE FirstStake(u, n)
      <4>1. Stake(u) = 0
        BY <2>1, <3>1 DEF FirstStake, VaultInv, StakersKnown
      <4>2. UnclaimedAmount(u, t) = 0
        BY <4>1, UnclaimedType, MulByZero DEF UnclaimedAmount, VaultInv
      <4>3. rewardBalance' = rewardBalance
        BY <3>1 DEF FirstStake
      <4> QED BY <2>1, <4>2, <4>3
    <3>2. CASE StakeMore(u, n) \/ Unstake(u, n)
      <4>1. NothingLeftUnclaimed(u) /\ PayRewards(u)
        BY <3>2 DEF StakeMore, Unstake
      <4>2. t \notin Paid(u) => UnclaimedAmount(u, t) = 0
        BY <4>1, UnpaidIsNotDue
      <4> QED BY <2>1, <4>1, <4>2, PaidFromVault
    <3> QED BY <1>2, <3>1, <3>2
  <2>6. rewardBalance'[TheVault][t] =
          rewardBalance[TheVault][t] - UnclaimedAmount(u, t) + UnclaimedAmount(u, t)'
    BY <2>1, <2>4, <2>5
  <2> QED BY <2>2, <2>6, OneDueChanges
<1> QED BY <1>1, <1>2 DEF StakerNext

(* A reward that divides is shared out in full.                            *)
LEMMA RewardCovered ==
  ASSUME VaultInv, VaultInv', NothingRounded, NothingRounded', RewardDivides,
         NEW s \in RewardTokens, NEW n \in RewardAmounts, NEW from \in Funders,
         AddReward(s, n, from),
         rewardBalance[TheVault][s] = Total(Users, Due(s))
  PROVE  rewardBalance'[TheVault][s] = Total(Users, Due(s)')
<1> DEFINE d == FixedDiv(n, stakingTokenTotalSupply)
<1>1. /\ n \in Nat /\ Scale \in Nat \ {0} /\ IsFiniteSet(Users)
      /\ stakingTokenTotalSupply \in Nat \ {0}
  BY VaultAssumption DEF AddReward, VaultInv, TypeOK
<1>2. d \in Nat /\ stakingTokenTotalSupply * d = n * Scale
  <2>1. (n * Scale) % stakingTokenTotalSupply = 0 /\ n * Scale \in Nat
    BY <1>1, TimesIsNat DEF RewardDivides
  <2> DEFINE m == n * Scale
  <2>2. m \div stakingTokenTotalSupply \in Nat
        /\ stakingTokenTotalSupply * (m \div stakingTokenTotalSupply) = m
    <3> HIDE DEF m
    <3> QED BY <1>1, <2>1, ExactQuotient DEF m
  <2> QED BY <2>2 DEF FixedDiv
<1>3. perShareAmount' = [perShareAmount EXCEPT ![s] = @ + d]
  BY DEF AddReward, IndexAfter
<1> HIDE DEF d
<1>4. UNCHANGED <<contribution, rewardClaimed>>
  BY DEF AddReward
<1>5. rewardBalance'[TheVault][s] = rewardBalance[TheVault][s] + n
  <2>1. from # TheVault /\ from \in Holders /\ TheVault \in Holders
    BY VaultAssumption 
  <2> QED BY <2>1 DEF AddReward, VaultInv, TypeOK
<1>6. (\A u \in Users : Due(s)[u] \in Nat) /\ (\A u \in Users : Due(s)'[u] \in Nat)
  BY DueType, DueNextType
<1>7. PICK k : k = Due(s)'
  OBVIOUS
<1>8. ASSUME NEW u \in Users
      PROVE  Stakes[u] \in Nat /\ Scale * k[u] = d * Stakes[u] + Scale * Due(s)[u]
  <2> DEFINE x == Stake(u)
             y == PerShareUnclaimed(u, s)
  <2>1. x \in Nat /\ y \in Nat
    BY StakeType, UnclaimedType DEF VaultInv
  <2>2. Scale * Due(s)[u] = x * y
    <3>1. (x * y) % Scale = 0
      BY DEF NothingRounded
    <3> QED BY <2>1, <3>1, ExactMul DEF Due, UnclaimedAmount
  <2>3. Stake(u)' = x
    BY <1>4 DEF Stake
  <2>4. PerShareUnclaimed(u, s)' = y + d
    <3>1. /\ perShareAmount[s] \in Nat /\ rewardClaimed[u][s] \in Nat
          /\ perShareAmount'[s] = perShareAmount[s] + d
      BY <1>3 DEF VaultInv, TypeOK
    <3> QED BY <1>2, <1>4, <3>1 DEF PerShareUnclaimed
  <2>5. (x * (y + d)) % Scale = 0
    BY <2>3, <2>4 DEF NothingRounded
  <2>6. k[u] = FixedMul(x, y + d)
    BY <1>7, <2>3, <2>4 DEF Due, UnclaimedAmount, FixedMul
  <2>7. y + d \in Nat
    BY <1>2, <2>1
  <2>8. Scale * k[u] = x * (y + d)
    BY <2>1, <2>5, <2>6, <2>7, ExactMul
  <2>9. x * (y + d) = d * x + x * y
    <3>1. \A a, b, c \in Nat : a * (b + c) = c * a + a * b
      BY SMT
    <3> HIDE DEF x, y
    <3> QED BY <1>2, <2>1, <3>1
  <2> QED BY <2>1, <2>2, <2>8, <2>9 DEF Stakes
<1> DEFINE old == [u \in Users |-> Scale * Due(s)[u]]
           both == [u \in Users |-> Scale * k[u]]
           zero == [u \in Users |-> 0]
<1>9. PICK e : e = Due(s)
  OBVIOUS
<1>10. \A u \in Users : e[u] \in Nat /\ k[u] \in Nat
  BY <1>6, <1>7, <1>9
<1>11. Total(Users, old) = Scale * Total(Users, e) + 0
  <2>1. \A u \in Users : /\ e[u] \in Nat /\ zero[u] \in Nat
                         /\ old[u] = Scale * e[u] + zero[u]
    BY <1>1, <1>9, <1>10, TimesIsNat
  <2>2. Total(Users, zero) = 0
    BY TotalZero
  <2> HIDE DEF old, zero
  <2>3. Total(Users, old) = Scale * Total(Users, e) + Total(Users, zero)
    BY <1>1, <2>1, TotalLinear
  <2> QED BY <2>2, <2>3
<1>12. Total(Users, both) = Scale * Total(Users, k) + 0
  <2>1. \A u \in Users : /\ k[u] \in Nat /\ zero[u] \in Nat
                         /\ both[u] = Scale * k[u] + zero[u]
    BY <1>1, <1>10, TimesIsNat
  <2>2. Total(Users, zero) = 0
    BY TotalZero
  <2> HIDE DEF both, zero
  <2>3. Total(Users, both) = Scale * Total(Users, k) + Total(Users, zero)
    BY <1>1, <2>1, TotalLinear
  <2> QED BY <2>2, <2>3
<1>13. Total(Users, both) = d * Total(Users, Stakes) + Total(Users, old)
  <2>1. \A u \in Users : /\ Stakes[u] \in Nat /\ old[u] \in Nat
                         /\ both[u] = d * Stakes[u] + old[u]
    BY <1>1, <1>8, <1>9, <1>10, TimesIsNat
  <2>2. PICK f, g, h : f = Stakes /\ g = old /\ h = both
    OBVIOUS
  <2>3. \A u \in Users : f[u] \in Nat /\ g[u] \in Nat /\ h[u] = d * f[u] + g[u]
    BY <2>1, <2>2
  <2>4. IsFiniteSet(Users) /\ d \in Nat
    BY <1>1, <1>2
  <2>5. Total(Users, h) = d * Total(Users, f) + Total(Users, g)
    BY <2>3, <2>4, TotalLinear
  <2> QED BY <2>2, <2>5
<1>14. Total(Users, Stakes) = stakingTokenTotalSupply
  BY DEF VaultInv, StakesBacked, Stakes
<1>15. Total(Users, e) \in Nat /\ Total(Users, k) \in Nat
  BY <1>1, <1>10, AllSlotsFinite
<1> DEFINE te == Total(Users, e)
           tk == Total(Users, k)
<1>16. Scale * tk = n * Scale + Scale * te
  <2>1. d * stakingTokenTotalSupply = stakingTokenTotalSupply * d
    BY <1>1, <1>2
  <2>2. Scale * tk \in Nat /\ Scale * te \in Nat
    BY <1>1, <1>15, TimesIsNat
  <2> HIDE DEF te, tk, old, both
  <2> QED BY <1>2, <1>11, <1>12, <1>13, <1>14, <2>1, <2>2 DEF te, tk
<1>17. tk = te + n
  <2>1. te \in Nat /\ tk \in Nat
    BY <1>15
  <2> HIDE DEF te, tk
  <2>2. n * Scale + Scale * te = Scale * (te + n)
    BY <1>1, <2>1
  <2>3. \A i, j \in Nat : i < j => Scale * (i + 1) <= Scale * j
    BY <1>1, TimesOrder
  <2>4. \A i \in Nat : Scale * (i + 1) = Scale * i + Scale /\ Scale * i \in Nat
    BY <1>1, TimesIsNat
  <2>5. te + n \in Nat
    BY <1>1, <2>1
  <2>6. \A i, j \in Nat : Scale * i = Scale * j => i = j
    <3> SUFFICES ASSUME NEW i \in Nat, NEW j \in Nat, Scale * i = Scale * j, i # j
                 PROVE  FALSE
      OBVIOUS
    <3>1. CASE i < j
      BY <1>1, <2>3, <2>4, <3>1
    <3>2. CASE j < i
      BY <1>1, <2>3, <2>4, <3>2
    <3> QED BY <3>1, <3>2
  <2> QED BY <1>16, <2>1, <2>2, <2>5, <2>6
<1> QED BY <1>5, <1>7, <1>9, <1>17

LEMMA NextCovered ==
  ASSUME VaultInv, VaultInv', NothingRounded, NothingRounded', RewardDivides,
         RewardsCovered, [Next]_vars
  PROVE  RewardsCovered'
<1> SUFFICES ASSUME NEW t \in RewardTokens
             PROVE  rewardBalance'[TheVault][t] = Total(Users, Due(t)')
  BY DEF RewardsCovered, Due
<1>1. rewardBalance[TheVault][t] = Total(Users, Due(t))
  BY DEF RewardsCovered, Due
<1>2. ASSUME NEW u \in Users, NEW n \in StakeAmounts, StakerNext(u, n)
      PROVE  rewardBalance'[TheVault][t] = Total(Users, Due(t)')
  BY <1>1, <1>2, StakerCovered
<1>3. ASSUME NEW u \in Users, ClaimRewards(u)
      PROVE  rewardBalance'[TheVault][t] = Total(Users, Due(t)')
  BY <1>1, <1>3, ClaimCovered
<1>4. ASSUME UNCHANGED <<contribution, rewardClaimed>>,
             perShareAmount'[t] = perShareAmount[t],
             rewardBalance'[TheVault][t] = rewardBalance[TheVault][t]
      PROVE  rewardBalance'[TheVault][t] = Total(Users, Due(t)')
  <2>1. \A u \in Users : Due(t)'[u] = Due(t)[u]
    BY <1>4 DEF Due, UnclaimedAmount, PerShareUnclaimed, Stake, FixedMul
  <2>2. Total(Users, Due(t)') = Total(Users, Due(t))
    BY <2>1, TotalSame
  <2> QED BY <1>1, <1>4, <2>2
<1>5. ASSUME NEW s \in RewardTokens, NEW n \in RewardAmounts, NEW from \in Funders,
             AddReward(s, n, from)
      PROVE  rewardBalance'[TheVault][t] = Total(Users, Due(t)')
  <2>1. CASE s = t
    BY <1>1, <1>5, <2>1, RewardCovered
  <2>2. CASE s # t
    <3>1. from # TheVault /\ from \in Holders /\ TheVault \in Holders
      BY VaultAssumption 
    <3>2. rewardBalance'[TheVault][t] = rewardBalance[TheVault][t]
      BY <1>5, <2>2, <3>1 DEF AddReward, VaultInv, TypeOK
    <3>3. perShareAmount'[t] = perShareAmount[t]
      BY <1>5, <2>2 DEF AddReward, IndexAfter, VaultInv, TypeOK
    <3> QED BY <1>4, <1>5, <3>2, <3>3 DEF AddReward
  <2> QED BY <2>1, <2>2
<1>6. CASE Tick \/ UNCHANGED vars
  BY <1>4, <1>6 DEF Tick, vars
<1> QED BY <1>2, <1>3, <1>5, <1>6 DEF Next

(***************************************************************************)
(* As long as no due and no index was a fraction, the vault owns exactly   *)
(* the rewards it owes, for any users, tokens, partial claims and returns  *)
(* (Vault.sol:113-146, 224-259, 331-347): what a claim pays is what the    *)
(* rewards brought, and only rounding can make the two differ.             *)
(***************************************************************************)
THEOREM RewardsAreCovered ==
  Spec /\ []NothingRounded /\ [][RewardDivides]_vars => []RewardsCovered
<1>1. Spec => []VaultInv
  BY InitInv, NextInv, PTL DEF Spec
<1>2. Init /\ VaultInv => RewardsCovered
  <2> SUFFICES ASSUME Init, VaultInv, NEW t \in RewardTokens
               PROVE  rewardBalance[TheVault][t] = Total(Users, Due(t))
    BY DEF RewardsCovered, Due
  <2>1. \A u \in Users : Due(t)[u] = 0
    <3> SUFFICES ASSUME NEW u \in Users PROVE UnclaimedAmount(u, t) = 0
      BY DEF Due
    <3>1. Stake(u) = 0 /\ PerShareUnclaimed(u, t) \in Nat
      BY UnclaimedType DEF Init, Stake, NoContribution, VaultInv
    <3> QED BY <3>1, MulByZero DEF UnclaimedAmount
  <2>2. rewardBalance[TheVault][t] = 0
    BY VaultAssumption DEF Init
  <2> QED BY <2>1, <2>2, TotalZero
<1>3. /\ VaultInv /\ VaultInv' /\ NothingRounded /\ NothingRounded'
      /\ RewardsCovered /\ [Next]_vars /\ [RewardDivides]_vars
      => RewardsCovered'
  <2>1. CASE UNCHANGED vars
    BY <2>1 DEF vars, RewardsCovered, UnclaimedAmount, PerShareUnclaimed, Stake, FixedMul
  <2> QED BY <2>1, NextCovered
<1> QED BY <1>1, <1>2, <1>3, PTL DEF Spec

-----------------------------------------------------------------------------
(* Several vaults over the same ledgers *)

(* What a transaction of a user can do to its stake and rewards.           *)
Operation(u, n) ==
  \/ FirstStake(u, n) \/ StakeMore(u, n) \/ StakeDeferred(u, n)
  \/ Unstake(u, n) \/ UnstakeDeferred(u, n) \/ ClaimRewards(u)

(* It moves staking tokens between the user and this vault only.           *)
LEMMA OperationKeeps ==
  ASSUME VaultInv, NEW u \in Users, NEW n \in Nat, Operation(u, n)
  PROVE  /\ VaultInv'
         /\ \A x \in Holders \ {u, TheVault} : stakingBalance'[x] = stakingBalance[x]
<1>1. CASE FirstStake(u, n)
  BY <1>1, FirstStakeInv DEF FirstStake, TakeStake, VaultInv, TypeOK
<1>2. CASE StakeMore(u, n)
  BY <1>2, StakeMoreInv DEF StakeMore, TakeStake, VaultInv, TypeOK
<1>3. CASE StakeDeferred(u, n) \/ UnstakeDeferred(u, n) \/ ClaimRewards(u)
  BY <1>3, ClaimRewardsInv DEF StakeDeferred, UnstakeDeferred, ClaimRewards
<1>4. CASE Unstake(u, n)
  BY <1>4, UnstakeInv DEF Unstake, VaultInv, TypeOK
<1> QED BY <1>1, <1>2, <1>3, <1>4 DEF Operation

(* A vault's invariant holds through the operations of others that leave   *)
(* its state, and its staking tokens, alone.                               *)
LEMMA AsideKeeps ==
  ASSUME VaultInv,
         UNCHANGED <<stakingTokenTotalSupply, contribution, rewardClaimed,
                     rewardTokens, perShareAmount>>,
         now' \in Nat, stakingBalance' \in [Holders -> Nat],
         rewardBalance' \in [Holders -> [RewardTokens -> Nat]],
         stakingBalance'[TheVault] = stakingBalance[TheVault]
  PROVE  VaultInv'
<1>1. TypeOK'
  BY DEF VaultInv, TypeOK
<1>2. StakesBacked' /\ StakersKnown'
  BY DEF VaultInv, StakesBacked, StakersKnown, Stake
<1>3. ClaimedWithinIndex' /\ UnlistedHasNoIndex'
  BY DEF VaultInv, ClaimedWithinIndex, UnlistedHasNoIndex, Listed
<1> QED BY <1>1, <1>2, <1>3 DEF VaultInv

(* Nobody but the vault is poorer in rewards for the transaction of a user. *)
LEMMA OperationPays ==
  ASSUME VaultInv, NEW u \in Users, NEW n \in Nat, Operation(u, n),
         NEW x \in Holders \ {TheVault}, NEW t \in RewardTokens
  PROVE  rewardBalance'[x][t] >= rewardBalance[x][t]
<1>1. /\ rewardBalance \in [Holders -> [RewardTokens -> Nat]]
      /\ u \in Holders /\ TheVault \in Holders
  BY VaultAssumption DEF VaultInv, TypeOK
<1>2. rewardBalance[x][t] \in Nat
  BY <1>1
<1>3. CASE UNCHANGED rewardBalance
  BY <1>2, <1>3
<1>4. CASE PayRewards(u)
  <2> DEFINE paid == [s \in RewardTokens |->
               IF s \in Paid(u) THEN rewardBalance[u][s] + UnclaimedAmount(u, s)
               ELSE rewardBalance[u][s]]
  <2>1. UnclaimedAmount(u, t) \in Nat
    BY UnclaimedType DEF VaultInv
  <2>2. paid[t] = rewardBalance[u][t] \/ paid[t] = rewardBalance[u][t] + UnclaimedAmount(u, t)
    OBVIOUS
  <2>3. rewardBalance'[x] = rewardBalance[x] \/ (x = u /\ rewardBalance'[x] = paid)
    BY <1>1, <1>4, VaultAssumption DEF PayRewards
  <2> HIDE DEF paid
  <2> QED BY <1>2, <2>1, <2>2, <2>3
<1> QED BY <1>3, <1>4 DEF Operation, FirstStake, StakeMore, StakeDeferred, Unstake,
           UnstakeDeferred, ClaimRewards

-----------------------------------------------------------------------------
(* How many rewards a call leaves unclaimed *)

(* A call pays the first of what is due, all of it or the most it may.     *)
LEMMA PaysAllOrMost ==
  ASSUME VaultInv, NEW u \in Users
  PROVE  /\ IsFiniteSet(DueAt(u)) /\ Cardinality(DueAt(u)) <= Len(rewardTokens)
         /\ PaidAt(u) \subseteq DueAt(u)
         /\ PaidAt(u) = DueAt(u) \/ Cardinality(PaidAt(u)) >= MaxRewardsPerTxn
         /\ Cardinality(DueAt(u)) <= MaxRewardsPerTxn => PaidAt(u) = DueAt(u)
<1> DEFINE D == DueAt(u)
           P == PaidAt(u)
           m == MaxRewardsPerTxn
<1>1. /\ m \in Nat \ {0} /\ Len(rewardTokens) \in Nat
      /\ DOMAIN rewardTokens = 1 .. Len(rewardTokens)
  BY VaultAssumption DEF VaultInv, TypeOK
<1>2. D \subseteq 1 .. Len(rewardTokens)
  BY <1>1 DEF DueAt
<1>3. P = {i \in D : Cardinality({j \in D : j < i}) < m}
  BY DEF PaidAt
<1> HIDE DEF D, P, m
<1>4. IsFiniteSet(D) /\ Cardinality(D) \in Nat /\ Cardinality(D) <= Len(rewardTokens)
  <2>1. /\ IsFiniteSet(1 .. Len(rewardTokens))
        /\ Cardinality(1 .. Len(rewardTokens)) = Len(rewardTokens)
    <3>1. \A n \in Nat : IsFiniteSet(1 .. n) /\ Cardinality(1 .. n) = n
      BY FS_Interval
    <3> QED BY <1>1, <3>1
  <2>2. IsFiniteSet(D) /\ Cardinality(D) <= Cardinality(1 .. Len(rewardTokens))
    BY <1>2, <2>1, FS_Subset
  <2>3. Cardinality(D) \in Nat
    BY <2>2, FS_CardinalityType
  <2>4. Cardinality(D) <= Len(rewardTokens)
    BY <2>1, <2>2
  <2> QED BY <2>2, <2>3, <2>4
<1>5. P \subseteq D /\ IsFiniteSet(P) /\ Cardinality(P) \in Nat
  BY <1>3, <1>4, FS_Subset, FS_CardinalityType
<1>6. ASSUME P # D PROVE Cardinality(P) >= m
  <2>1. D \subseteq Nat /\ D \ P # {}
    <3>1. D \subseteq Nat
      BY <1>1, <1>2
    <3>2. D \ P # {}
      BY <1>5, <1>6
    <3> QED BY <3>1, <3>2
  <2>2. PICK i \in D \ P : \A j \in D \ P : i <= j
    <3>1. D \ P \subseteq Nat
      BY <2>1
    <3> QED BY <2>1, <3>1, LeastElement
  <2> DEFINE below == {j \in D : j < i}
  <2>3. i \in D /\ ~(Cardinality(below) < m)
    BY <1>3, <2>2
  <2>4. below \subseteq P
    <3> SUFFICES ASSUME NEW j \in D, j < i, j \notin P PROVE FALSE
      OBVIOUS
    <3>1. i <= j /\ i \in Nat /\ j \in Nat
      BY <2>1, <2>2
    <3> QED BY <3>1
  <2> HIDE DEF below
  <2>5. /\ Cardinality(below) \in Nat
        /\ Cardinality(below) <= Cardinality(P)
    BY <1>5, <2>4, FS_Subset, FS_CardinalityType
  <2> QED BY <1>1, <1>5, <2>3, <2>5
<1>7. ASSUME Cardinality(D) <= m PROVE P = D
  <2> SUFFICES ASSUME NEW i \in D PROVE i \in P
    BY <1>5
  <2> DEFINE below == {j \in D : j < i}
  <2>1. below \subseteq D \ {i}
    BY <1>2
  <2>2. IsFiniteSet(D \ {i}) /\ Cardinality(D \ {i}) = Cardinality(D) - 1
    BY <1>4, FS_RemoveElement
  <2>3. Cardinality(below) \in Nat /\ Cardinality(below) <= Cardinality(D) - 1
    <3> HIDE DEF below
    <3> QED BY <2>1, <2>2, FS_Subset, FS_CardinalityType
  <2>4. Cardinality(below) < m
    <3> HIDE DEF below
    <3> QED BY <1>1, <1>4, <1>7, <2>3
  <2> QED BY <1>3, <2>4
<1> QED BY <1>4, <1>5, <1>6, <1>7 DEF D, P, m

(* What a claim pays is not due after it.                                  *)
LEMMA ClaimLeaves ==
  ASSUME VaultInv, NEW u \in Users,
         UNCHANGED <<contribution, rewardTokens, perShareAmount>>,
         rewardClaimed'[u] = ClaimedAfter(u)
  PROVE  DueAt(u)' \subseteq DueAt(u) \ PaidAt(u)
<1> SUFFICES ASSUME NEW i \in DueAt(u)' PROVE i \in DueAt(u) \ PaidAt(u)
  OBVIOUS
<1> DEFINE t == rewardTokens[i]
<1>1. i \in DOMAIN rewardTokens /\ UnclaimedAmount(u, t)' > 0
  BY DEF DueAt, UnclaimedAmount, PerShareUnclaimed, Stake, FixedMul
<1>2. t \in RewardTokens
  BY <1>1 DEF VaultInv, TypeOK
<1>3. UnclaimedAmount(u, t)' = FixedMul(Stake(u), perShareAmount[t] - ClaimedAfter(u)[t])
  BY DEF UnclaimedAmount, PerShareUnclaimed, FixedMul, Stake
<1>4. Stake(u) \in Nat /\ perShareAmount[t] \in Nat /\ rewardClaimed[u][t] \in Nat
  BY <1>2, StakeType DEF VaultInv, TypeOK
<1>5. t \notin Paid(u)
  <2>1. SUFFICES ASSUME t \in Paid(u) PROVE FALSE
    OBVIOUS
  <2>2. perShareAmount[t] - ClaimedAfter(u)[t] = 0
    BY <1>2, <1>4, <2>1 DEF ClaimedAfter, PerShareUnclaimed
  <2> QED BY <1>1, <1>3, <1>4, <2>2, MulByZero
<1>6. UnclaimedAmount(u, t) > 0
  <2>1. ClaimedAfter(u)[t] = rewardClaimed[u][t]
    BY <1>2, <1>5 DEF ClaimedAfter
  <2> QED BY <1>1, <1>3, <2>1 DEF UnclaimedAmount, PerShareUnclaimed
<1> QED BY <1>1, <1>5, <1>6 DEF DueAt, Paid

(* A list without repetition names each reward token at most once.         *)
LEMMA ListIsShort ==
  ASSUME NEW s \in Seq(RewardTokens),
         \A i, j \in DOMAIN s : s[i] = s[j] => i = j
  PROVE  Len(s) <= Cardinality(RewardTokens)
<1>1. Len(s) \in Nat /\ DOMAIN s = 1 .. Len(s) /\ s \in [1 .. Len(s) -> RewardTokens]
  OBVIOUS
<1>2. s \in Injection(1 .. Len(s), RewardTokens)
  BY <1>1 DEF Injection, IsInjective
<1>3. IsFiniteSet(1 .. Len(s)) /\ Cardinality(1 .. Len(s)) = Len(s)
  BY <1>1, FS_Interval
<1> QED BY <1>2, <1>3, VaultAssumption, FS_Injection DEF ExistsInjection

(* A reward token is listed once. *)
ListedOnce ==
  \A i, j \in DOMAIN rewardTokens : rewardTokens[i] = rewardTokens[j] => i = j

LEMMA ListedOnceKept ==
  ASSUME VaultInv, ListedOnce, NEW t \in RewardTokens, rewardTokens' = ListedAfter(t)
  PROVE  ListedOnce'
<1>1. CASE t \in Listed
  BY <1>1 DEF ListedAfter, ListedOnce
<1>2. CASE t \notin Listed
  <2>1. rewardTokens' = Append(rewardTokens, t)
    BY <1>2 DEF ListedAfter
  <2>2. rewardTokens \in Seq(RewardTokens)
    BY DEF VaultInv, TypeOK
  <2>3. /\ DOMAIN rewardTokens = 1 .. Len(rewardTokens) /\ Len(rewardTokens) \in Nat
        /\ rewardTokens' \in Seq(RewardTokens)
        /\ Len(rewardTokens') = Len(rewardTokens) + 1
        /\ \A i \in 1 .. Len(rewardTokens) : rewardTokens'[i] = rewardTokens[i]
        /\ rewardTokens'[Len(rewardTokens) + 1] = t
    BY <2>1, <2>2, AppendProperties
  <2>4. DOMAIN rewardTokens' = 1 .. (Len(rewardTokens) + 1)
    BY <2>3
  <2>5. \A i \in 1 .. Len(rewardTokens) : rewardTokens[i] # t
    BY <1>2, <2>3 DEF Listed
  <2>6. \A i \in DOMAIN rewardTokens' :
          i \in 1 .. Len(rewardTokens) \/ i = Len(rewardTokens) + 1
    BY <2>3, <2>4
  <2>7. \A i, j \in 1 .. Len(rewardTokens) : rewardTokens[i] = rewardTokens[j] => i = j
    BY <2>3 DEF ListedOnce
  <2> QED BY <2>3, <2>5, <2>6, <2>7 DEF ListedOnce
<1> QED BY <1>1, <1>2

(* What concerns one user, and no operation of another moves. *)
Account(u) == <<contribution[u], rewardClaimed[u], rewardTokens, perShareAmount>>

LEMMA OthersKeepAccount ==
  ASSUME VaultInv, NEW u \in Users, NEW n \in Nat, NEW w \in Users \ {u},
         Operation(u, n)
  PROVE  UNCHANGED Account(w)
BY DEF Operation, FirstStake, StakeMore, StakeDeferred, Unstake, UnstakeDeferred,
       ClaimRewards, TakeStake, VaultInv, TypeOK, Account

LEMMA AccountTells ==
  ASSUME NEW u \in Users, UNCHANGED Account(u)
  PROVE  DueAt(u)' = DueAt(u) /\ Stake(u)' = Stake(u)
BY DEF Account, DueAt, UnclaimedAmount, PerShareUnclaimed, Stake, FixedMul

(* Once everything due to u is what one call pays, taking back the whole   *)
(* stake leaves none.                                                      *)
LEMMA WholeStakeReturns ==
  ASSUME VaultInv, NEW u \in Users, NEW n, n = Stake(u),
         Cardinality(DueAt(u)) <= MaxRewardsPerTxn,
         Unstake(u, n) \/ UnstakeDeferred(u, n)
  PROVE  Stake(u)' = 0
<1>1. NothingLeftUnclaimed(u)
  BY PaysAllOrMost DEF NothingLeftUnclaimed
<1>2. Unstake(u, n)
  BY <1>1 DEF UnstakeDeferred
<1> QED BY <1>2 DEF Unstake, NoContribution, Stake, VaultInv, TypeOK

(* A claim pays all that is due, or lowers what is due by as many reward   *)
(* tokens as a call may pay.                                               *)
LEMMA ClaimShrinks ==
  ASSUME VaultInv, NEW u \in Users, ClaimRewards(u)
  PROVE  /\ Cardinality(DueAt(u)) \in Nat /\ Cardinality(DueAt(u)') \in Nat
         /\ \/ NothingLeftUnclaimed(u) /\ Cardinality(DueAt(u)') = 0
            \/ Cardinality(DueAt(u)') + MaxRewardsPerTxn <= Cardinality(DueAt(u))
<1>1. MaxRewardsPerTxn \in Nat \ {0}
  BY VaultAssumption
<1>2. /\ IsFiniteSet(DueAt(u)) /\ PaidAt(u) \subseteq DueAt(u)
      /\ PaidAt(u) = DueAt(u) \/ Cardinality(PaidAt(u)) >= MaxRewardsPerTxn
  BY PaysAllOrMost
<1>3. rewardClaimed'[u] = ClaimedAfter(u) /\ UNCHANGED <<contribution, rewardTokens, perShareAmount>>
  BY DEF ClaimRewards, VaultInv, TypeOK
<1>4. DueAt(u)' \subseteq DueAt(u) \ PaidAt(u)
  BY <1>3, ClaimLeaves
<1> DEFINE D == DueAt(u)
           P == PaidAt(u)
           E == DueAt(u)'
<1> HIDE DEF D, P, E
<1>5. /\ IsFiniteSet(P) /\ Cardinality(P) \in Nat /\ Cardinality(D) \in Nat
      /\ IsFiniteSet(D \ P) /\ Cardinality(D \ P) \in Nat
  BY <1>2, FS_Subset, FS_Difference, FS_CardinalityType DEF D, P
<1>6. Cardinality(D \ P) = Cardinality(D) - Cardinality(P)
  <2>1. D \cap P = P
    BY <1>2 DEF D, P
  <2> QED BY <1>2, <2>1, FS_Difference DEF D, P
<1>7. Cardinality(E) <= Cardinality(D \ P) /\ Cardinality(E) \in Nat
  BY <1>4, <1>5, FS_Subset, FS_CardinalityType DEF D, P, E
<1>8. ASSUME P = D PROVE Cardinality(E) = 0
  <2>1. D \ P = {}
    BY <1>8
  <2>2. Cardinality(D \ P) = 0
    BY <2>1, FS_EmptySet
  <2> QED BY <1>7, <2>2
<1>9. P = D <=> NothingLeftUnclaimed(u)
  BY DEF D, P, NothingLeftUnclaimed
<1>10. ASSUME Cardinality(P) >= MaxRewardsPerTxn
       PROVE  Cardinality(E) + MaxRewardsPerTxn <= Cardinality(D)
  BY <1>1, <1>5, <1>6, <1>7, <1>10
<1> QED BY <1>2, <1>5, <1>7, <1>8, <1>9, <1>10 DEF D, P, E

(* A claim leaves no more due than one call pays, if the list is no longer *)
(* than two calls.                                                         *)
LEMMA ClaimsPayMost ==
  ASSUME VaultInv, ListedOnce, NEW u \in Users, ClaimRewards(u),
         Cardinality(RewardTokens) <= 2 * MaxRewardsPerTxn
  PROVE  Cardinality(DueAt(u)') <= MaxRewardsPerTxn
<1>1. /\ MaxRewardsPerTxn \in Nat \ {0} /\ Len(rewardTokens) \in Nat
      /\ rewardTokens \in Seq(RewardTokens)
  BY VaultAssumption DEF VaultInv, TypeOK
<1>2. Len(rewardTokens) <= Cardinality(RewardTokens)
  BY <1>1, ListIsShort DEF ListedOnce
<1>3. Cardinality(DueAt(u)) <= Len(rewardTokens)
  BY PaysAllOrMost
<1>4. Cardinality(RewardTokens) \in Nat
  BY VaultAssumption, FS_CardinalityType
<1>5. /\ Cardinality(DueAt(u)) \in Nat /\ Cardinality(DueAt(u)') \in Nat
      /\ \/ Cardinality(DueAt(u)') = 0
         \/ Cardinality(DueAt(u)') + MaxRewardsPerTxn <= Cardinality(DueAt(u))
  BY ClaimShrinks
<1> QED BY <1>1, <1>2, <1>3, <1>4, <1>5

-----------------------------------------------------------------------------
(* A staker can leave.  What unstake, as one call, requires of the state,  *)
(* and all that it then does: it returns the stake, or claims and leaves   *)
(* it.                                                                     *)

CanCallUnstake(u, n) ==
  /\ n > 0
  /\ CanUserUnStakeTokens(u, n)
  /\ \A t \in Paid(u) :
       /\ <<u, t>> \notin Unassociated
       /\ rewardBalance[TheVault][t] >= UnclaimedAmount(u, t)
  /\ NothingLeftUnclaimed(u) => stakingBalance[TheVault] >= n

RewardsAfter(u) ==
  [rewardBalance EXCEPT
     ![TheVault] = [t \in RewardTokens |->
        IF t \in Paid(u) THEN @[t] - UnclaimedAmount(u, t) ELSE @[t]],
     ![u] = [t \in RewardTokens |->
        IF t \in Paid(u) THEN @[t] + UnclaimedAmount(u, t) ELSE @[t]]]

CallEffect(u, n) ==
  /\ rewardBalance' = RewardsAfter(u)
  /\ UNCHANGED <<now, rewardTokens, perShareAmount>>
  /\ IF NothingLeftUnclaimed(u)
     THEN /\ stakingTokenTotalSupply' = stakingTokenTotalSupply - n
          /\ stakingBalance' =
               [stakingBalance EXCEPT ![u] = @ + n, ![TheVault] = @ - n]
          /\ contribution' =
               IF Stake(u) = n THEN [contribution EXCEPT ![u] = NoContribution]
               ELSE [contribution EXCEPT ![u].stakingTokenTotal = @ - n]
          /\ rewardClaimed' =
               IF Stake(u) = n
               THEN [rewardClaimed EXCEPT ![u] =
                       [t \in RewardTokens |-> IF t \in Listed THEN 0 ELSE @[t]]]
               ELSE [rewardClaimed EXCEPT ![u] = ClaimedAfter(u)]
     ELSE /\ rewardClaimed' = [rewardClaimed EXCEPT ![u] = ClaimedAfter(u)]
          /\ UNCHANGED <<stakingBalance, stakingTokenTotalSupply, contribution>>

(* So CanCallUnstake is all that the call needs: its effect fixes the next *)
(* value of each variable.                                                 *)
LEMMA CallIsGuarded ==
  ASSUME NEW u, NEW n
  PROVE  Unstake(u, n) \/ UnstakeDeferred(u, n)
           <=> CanCallUnstake(u, n) /\ CallEffect(u, n)
<1>1. CASE NothingLeftUnclaimed(u)
  BY <1>1 DEF Unstake, UnstakeDeferred, CanCallUnstake, CallEffect, PayRewards, RewardsAfter
<1>2. CASE ~NothingLeftUnclaimed(u)
  BY <1>2 DEF Unstake, UnstakeDeferred, CanCallUnstake, CallEffect, PayRewards,
              RewardsAfter, ClaimRewards
<1> QED BY <1>1, <1>2

(* Whose lock is over, and whose account takes the rewards, can call       *)
(* unstake for the whole stake.                                            *)
StakersCanLeave ==
  \A u \in Users :
    /\ Stake(u) > 0
    /\ now > contribution[u].lastLockedTime + LockingPeriod
    /\ \A t \in RewardTokens : <<u, t>> \notin Unassociated
    => CanCallUnstake(u, Stake(u))

(***************************************************************************)
(* As long as no due and no index was a fraction, the vault can pay what a *)
(* staker's unstake pays and return its stake: nothing that other stakers  *)
(* do makes the call revert (Vault.sol:98-146, 224-259, 297-318).          *)
(***************************************************************************)
THEOREM NobodyIsLockedIn ==
  Spec /\ []NothingRounded /\ [][RewardDivides]_vars => []StakersCanLeave
<1>1. VaultInv /\ RewardsCovered => StakersCanLeave
  <2> SUFFICES ASSUME VaultInv, RewardsCovered, NEW u \in Users, Stake(u) > 0,
                      now > contribution[u].lastLockedTime + LockingPeriod,
                      \A t \in RewardTokens : <<u, t>> \notin Unassociated
               PROVE  CanCallUnstake(u, Stake(u))
    BY DEF StakersCanLeave
  <2>1. CanUserUnStakeTokens(u, Stake(u))
    <3>1. contribution[u].alreadyStaked
      BY Zenon DEF StakersKnown, VaultInv
    <3>2. Stake(u) >= Stake(u)
      BY StakeType DEF VaultInv
    <3>3. Stake(u) > 0 /\ now > contribution[u].lastLockedTime + LockingPeriod
      OBVIOUS
    <3> QED BY <3>1, <3>2, <3>3, Zenon DEF CanUserUnStakeTokens
  <2>2. ASSUME NEW t \in Paid(u)
        PROVE  t \in RewardTokens /\ rewardBalance[TheVault][t] >= UnclaimedAmount(u, t)
    <3>1. t \in RewardTokens
      <4>1. PICK i \in DOMAIN rewardTokens : t = rewardTokens[i]
        BY DEF Paid, PaidAt, DueAt
      <4> QED BY <4>1 DEF VaultInv, TypeOK
    <3>2. rewardBalance[TheVault][t] = Total(Users, Due(t))
      BY <3>1 DEF RewardsCovered, Due
    <3>3. \A w \in Users : Due(t)[w] \in Nat
      BY <3>1, DueType
    <3>4. Total(Users, Due(t)) \in Nat /\ Due(t)[u] <= Total(Users, Due(t))
      BY <3>3, VaultAssumption, TotalBound
    <3>5. Due(t)[u] = UnclaimedAmount(u, t)
      BY DEF Due
    <3> QED BY <3>1, <3>2, <3>3, <3>4, <3>5
  <2>3. stakingBalance[TheVault] >= Stake(u)
    <3>1. \A w \in Users : Stakes[w] \in Nat
      BY StakeType DEF Stakes, VaultInv
    <3>2. Total(Users, Stakes) \in Nat /\ Stakes[u] <= Total(Users, Stakes)
      BY <3>1, VaultAssumption, TotalBound
    <3>3. stakingTokenTotalSupply = Total(Users, Stakes)
      BY DEF VaultInv, StakesBacked, Stakes
    <3>4. stakingBalance[TheVault] \in Nat /\ stakingBalance[TheVault] >= stakingTokenTotalSupply
      BY VaultAssumption DEF VaultInv, StakesBacked, TypeOK
    <3> QED BY <3>1, <3>2, <3>3, <3>4 DEF Stakes
  <2> QED BY <2>1, <2>2, <2>3 DEF CanCallUnstake
<1>2. Spec => []VaultInv
  BY InitInv, NextInv, PTL DEF Spec
<1> QED BY <1>1, <1>2, RewardsAreCovered, PTL

(***************************************************************************)
(* A stake or unstake that leaves rewards unclaimed, and returns false,    *)
(* lowers the number of reward tokens due to its user by as many as a call *)
(* may pay, whatever the rounding: repeated calls come to an end, and only *)
(* new rewards, or rounding that finds the vault short, can keep a staker  *)
(* in (Vault.sol:85-111, 224-259, test/vault-test.ts:370).                 *)
(***************************************************************************)
DeferralsShrink ==
  [][\A u \in Users, n \in StakeAmounts :
       StakeDeferred(u, n) \/ UnstakeDeferred(u, n) =>
         Cardinality(DueAt(u)') + MaxRewardsPerTxn <= Cardinality(DueAt(u))]_vars

THEOREM DeferralsComeToAnEnd == Spec => DeferralsShrink
<1>1. VaultInv /\ [Next]_vars =>
        [\A u \in Users, n \in StakeAmounts :
           StakeDeferred(u, n) \/ UnstakeDeferred(u, n) =>
             Cardinality(DueAt(u)') + MaxRewardsPerTxn <= Cardinality(DueAt(u))]_vars
  BY ClaimShrinks DEF StakeDeferred, UnstakeDeferred
<1> QED BY <1>1, InitInv, NextInv, PTL DEF Spec, DeferralsShrink

=============================================================================
