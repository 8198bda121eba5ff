----------------------------- MODULE PoolProofs -----------------------------
(***************************************************************************)
(* Proofs about the pools, the factory and their clients: the arithmetic   *)
(* of a quote and of a share first, then what one transaction does to one  *)
(* pool, then the specification.                                           *)
(***************************************************************************)
EXTENDS PoolClient, SumsProofs, SequenceTheorems

-----------------------------------------------------------------------------
(* Fees and quotes *)

LEMMA FeeTyped ==
  ASSUME NEW q \in Nat, NEW fee \in Fees
  PROVE  FeeForToken(q, fee) \in Nat
<1>1. fee \in Nat /\ FeePrecision \in Nat \ {0} /\ q * fee \in Nat
  BY PairAssumption, TimesIsNat
<1>2. (q * fee) \div 2 \in Nat
  BY <1>1, QuotientFacts
<1> QED BY <1>1, <1>2, QuotientFacts DEF FeeForToken

(* A fee rate of at most 200 takes at most what is charged. *)
LEMMA FeeBounded ==
  ASSUME NEW q \in Nat, NEW fee \in Fees, fee <= 2 * FeePrecision
  PROVE  FeeForToken(q, fee) \in Nat /\ FeeForToken(q, fee) <= q
<1>1. /\ fee \in Nat /\ FeePrecision \in Nat \ {0} /\ fee <= 2 * FeePrecision
  BY PairAssumption
<1>2. q * fee \in Nat /\ q * fee <= q * (2 * FeePrecision)
  BY <1>1, TimesIsNat, TimesOrder
<1>3. q * (2 * FeePrecision) = 2 * (q * FeePrecision) /\ q * FeePrecision \in Nat
  BY <1>1
<1>4. (q * fee) \div 2 \in Nat /\ (q * fee) \div 2 <= q * FeePrecision
  BY <1>2, <1>3, QuotientBound
<1>5. q * FeePrecision = FeePrecision * q
  BY <1>1
<1> QED BY <1>1, <1>4, <1>5, QuotientBound DEF FeeForToken

(* What the pool keeps is at least the part that is priced; and a fee of   *)
(* at most 200 leaves what covers the pool's and the treasury's parts.     *)
LEMMA IncomingCovered ==
  ASSUME NEW q \in Nat, NEW fee \in Fees
  PROVE  LET in == Incoming(q, fee)
         IN  /\ in.treasury \in Nat /\ in.delta \in Nat /\ in.share \in Nat
             /\ in.delta <= in.share
             /\ fee <= 2 * FeePrecision => in.share + in.treasury <= q
<1> DEFINE f == FeeForToken(q, fee)
<1>1. f \in Nat /\ (fee <= 2 * FeePrecision => f <= q)
  BY FeeTyped, FeeBounded
<1> HIDE DEF f
<1>2. /\ AbsoluteDifference(q, f) \in Nat
      /\ f <= q => AbsoluteDifference(q, f) = q - f
  BY <1>1 DEF AbsoluteDifference
<1>3. f \div 2 \in Nat /\ 2 * (f \div 2) <= f
  BY <1>1, QuotientFacts
<1>4. Incoming(q, fee) = [treasury |-> f \div 2, delta |-> AbsoluteDifference(q, f),
                          share |-> AbsoluteDifference(q, f) + f \div 2]
  BY DEF Incoming, f
<1> QED BY <1>1, <1>2, <1>3, <1>4

(* What is paid out, with the treasury's part, is at most what is quoted   *)
(* when the fee is at most 200.                                            *)
LEMMA OutgoingCovered ==
  ASSUME NEW q \in Nat, NEW fee \in Fees
  PROVE  LET out == Outgoing(q, fee)
         IN  /\ out.user \in Nat /\ out.treasury \in Nat
             /\ fee <= 2 * FeePrecision => Leaves(out) <= q
<1> DEFINE f == FeeForToken(q, fee)
<1>1. f \in Nat /\ (fee <= 2 * FeePrecision => f <= q)
  BY FeeTyped, FeeBounded
<1> HIDE DEF f
<1>2. /\ AbsoluteDifference(q, f) \in Nat
      /\ f <= q => AbsoluteDifference(q, f) = q - f
  BY <1>1 DEF AbsoluteDifference
<1>3. f \div 2 \in Nat /\ 2 * (f \div 2) <= f
  BY <1>1, QuotientFacts
<1>4. Outgoing(q, fee) = [user |-> AbsoluteDifference(q, f), treasury |-> f \div 2]
  BY DEF Outgoing, f
<1> QED BY <1>1, <1>2, <1>3, <1>4 DEF Leaves

(* The new quantity of the token paid out: at most the present one, and    *)
(* more than what keeps the product, less one.                             *)
LEMMA PriceBounds ==
  ASSUME NEW x \in Nat \ {0}, NEW y \in Nat, NEW d \in Nat, NEW p \in Nat \ {0}
  PROVE  LET new == ((x * y * p) \div (x + d)) \div p
         IN  new \in Nat /\ new <= y /\ x * y < (x + d) * (new + 1)
<1> DEFINE a == (x * y * p) \div (x + d)
           new == a \div p
           xd == x + d
<1>1. xd \in Nat \ {0} /\ x <= xd /\ x * y \in Nat /\ y * p \in Nat /\ x * y * p \in Nat
  BY TimesIsNat
<1>2. x * y * p = x * (y * p) /\ x * (y * p) <= xd * (y * p)
  BY <1>1, TimesOrder
<1>3. a \in Nat /\ a <= y * p /\ x * y * p < xd * (a + 1)
  <2> HIDE DEF xd
  <2>1. a = (x * y * p) \div xd
    BY DEF xd
  <2> HIDE DEF a
  <2>2. a \in Nat /\ a <= y * p
    BY <1>1, <1>2, <2>1, QuotientBound
  <2>3. x * y * p < xd * (a + 1)
    BY <1>1, <2>1, QuotientFacts
  <2> QED BY <2>2, <2>3
<1> HIDE DEF a, xd
<1>4. y * p = p * y
  OBVIOUS
<1>5. new \in Nat /\ new <= y /\ a < p * (new + 1)
  BY <1>3, <1>4, QuotientBound, QuotientFacts
<1> HIDE DEF new
<1>6. a + 1 <= p * (new + 1) /\ p * (new + 1) \in Nat
  BY <1>3, <1>5, TimesIsNat
<1>7. xd * (a + 1) <= xd * (p * (new + 1))
  BY <1>1, <1>3, <1>6, TimesOrder
<1>8. xd * (p * (new + 1)) = (xd * (new + 1)) * p /\ xd * (new + 1) \in Nat
  BY <1>1, <1>5
<1>9. (x * y) * p < (xd * (new + 1)) * p
  BY <1>1, <1>3, <1>6, <1>7, <1>8, TimesIsNat
<1>10. x * y < xd * (new + 1)
  <2>1. CASE xd * (new + 1) <= x * y
    BY <1>1, <1>8, <1>9, <2>1, TimesOrder
  <2> QED BY <1>1, <1>8, <2>1
<1> QED BY <1>5, <1>10 DEF new, a, xd

-----------------------------------------------------------------------------
(* A pool: its type, and what it keeps true *)

Pool ==
  [token : [Sides -> Tokens], fee : Fees,
   service : Services \cup {NewService}, lpService : Services \cup {NewService},
   qty : [Sides -> Nat], held : [Sides -> Nat], lp : [Users -> Nat],
   allow : [Sides -> [Users -> Nat]], lpAllow : [Users -> Nat],
   lpUsers : SUBSET Users]

(* Who has returned every share has taken every token, and a pair with     *)
(* shares has HBAR if HBAR are a side of it.                               *)
PoolGood(p) ==
  /\ p \in Pool
  /\ p.token["a"] # p.token["b"]
  /\ \A s \in Sides : p.token[s] # Hbar \/ Moderate(p) => p.held[s] >= p.qty[s]
  /\ LpSupply(p) = 0 => \A s \in Sides : p.qty[s] = 0
  /\ LpSupply(p) > 0 => \A s \in Sides : p.token[s] = Hbar => p.qty[s] > 0

(* Pool r is what a transaction may make of pool p. *)
SharesRise(p, r) ==
  LpSupply(r) # LpSupply(p) =>
    \A s \in Sides : r.qty[s] * LpSupply(p) >= p.qty[s] * LpSupply(r)

ProductRises(p, r) ==
  (Moderate(p) /\ LpSupply(r) = LpSupply(p) /\ r.qty # p.qty) =>
    \E s \in Sides : /\ r.qty[s] >= p.qty[s]
                     /\ Variant(r) + r.qty[s] > Variant(p)

HbarStays(p, r) ==
  (\E s \in Sides : p.token[s] = Hbar) /\ LpSupply(p) > 0 => LpSupply(r) > 0

Becomes(p, r) ==
  /\ PoolGood(r) /\ r.token = p.token /\ r.fee = p.fee
  /\ SharesRise(p, r) /\ ProductRises(p, r) /\ HbarStays(p, r)

LEMMA SupplyIsNat ==
  ASSUME NEW p \in Pool
  PROVE  LpSupply(p) \in Nat
<1>1. p.lp \in [Users -> Nat]
  BY DEF Pool
<1>2. \A u \in Users : p.lp[u] \in Nat
  BY <1>1
<1>3. IsFiniteSet(Users)
  BY PairAssumption
<1> QED BY <1>2, <1>3, AllSlotsFinite DEF LpSupply

(* A transaction that moves neither tokens nor shares. *)
LEMMA SameBooks ==
  ASSUME NEW p, PoolGood(p), NEW r \in Pool, r.token = p.token, r.fee = p.fee,
         r.qty = p.qty, r.held = p.held, r.lp = p.lp
  PROVE  Becomes(p, r)
<1>1. LpSupply(r) = LpSupply(p)
  BY DEF LpSupply
<1> QED BY <1>1
    DEF PoolGood, Becomes, SharesRise, ProductRises, HbarStays, Moderate

(* A quote of a pool that can be quoted. *)
LEMMA QuoteCovered ==
  ASSUME NEW p \in Pool, NEW side \in Sides, NEW q \in Nat, p.qty[side] > 0
  PROVE  LET quote == Quote(p, side, q)
             x == p.qty[side]
             y == p.qty[Other(side)]
         IN  /\ quote.in = Incoming(q, p.fee)
             /\ quote.out.user \in Nat /\ quote.out.treasury \in Nat
             /\ Moderate(p) =>
                  /\ Leaves(quote.out) <= y
                  /\ x * y < (x + quote.in.delta) * (y - Leaves(quote.out) + 1)
<1> DEFINE x == p.qty[side]
           y == p.qty[Other(side)]
           in == Incoming(q, p.fee)
           new == ((x * y * Precision) \div (x + in.delta)) \div Precision
           out == Outgoing(y - new, p.fee)
<1>1. x \in Nat \ {0} /\ y \in Nat /\ p.fee \in Fees
  BY DEF Pool, Sides, Other
<1>2. in.delta \in Nat
  BY <1>1, IncomingCovered
<1>3. Precision \in Nat \ {0}
  BY PairAssumption
<1>4. new \in Nat /\ new <= y /\ x * y < (x + in.delta) * (new + 1)
  <2> HIDE DEF x, y, in
  <2> QED BY <1>1, <1>2, <1>3, PriceBounds
<1>5. Variant(p) = x * y
  BY <1>1 DEF Variant, Sides, Other, Pool
<1>6. AbsoluteDifference(y, new) = y - new /\ y - new \in Nat
  <2> HIDE DEF new, y
  <2> QED BY <1>1, <1>4 DEF AbsoluteDifference
<1>7. Quote(p, side, q) = [in |-> in, out |-> out]
  BY <1>5, <1>6 DEF Quote
<1> HIDE DEF x, y, new, in, out
<1>8. /\ out.user \in Nat /\ out.treasury \in Nat
      /\ Moderate(p) => Leaves(out) <= y - new
  BY <1>1, <1>6, OutgoingCovered DEF out, Moderate
<1>9. Leaves(out) \in Nat
  BY <1>8 DEF Leaves
<1> SUFFICES ASSUME Moderate(p)
             PROVE  Leaves(out) <= y /\ x * y < (x + in.delta) * (y - Leaves(out) + 1)
  BY <1>1, <1>7, <1>8 DEF x, y, in
<1>10. new + 1 <= y - Leaves(out) + 1 /\ y - Leaves(out) + 1 \in Nat
  BY <1>1, <1>4, <1>8, <1>9
<1>11. (x + in.delta) * (new + 1) <= (x + in.delta) * (y - Leaves(out) + 1)
  BY <1>1, <1>2, <1>4, <1>10, TimesOrder
<1>12. (x + in.delta) * (new + 1) \in Nat /\ x * y \in Nat
       /\ (x + in.delta) * (y - Leaves(out) + 1) \in Nat
  BY <1>1, <1>2, <1>4, <1>10, TimesIsNat
<1>13. x * y < (x + in.delta) * (y - Leaves(out) + 1)
  BY <1>4, <1>11, <1>12
<1> QED BY <1>1, <1>4, <1>8, <1>9, <1>13

-----------------------------------------------------------------------------
(* The square root of the first shares.  An induction on the steps of the  *)
(* loop is by a least counterexample.                                      *)

SqrtStep(v, s) ==
  IF s[2] < s[1] THEN <<s[2], (v \div s[2] + s[2]) \div 2>> ELSE s

IsSqrtRun(v, g, k) ==
  g = [n \in 0 .. k |-> IF n = 0 THEN <<v, (v + 1) \div 2>>
                                ELSE SqrtStep(v, g[n - 1])]

LEMMA SqrtRunExists ==
  ASSUME NEW v \in Nat, NEW k \in Nat
  PROVE  \E g : IsSqrtRun(v, g, k)
<1> DEFINE T == {n \in Nat : ~ \E g : IsSqrtRun(v, g, n)}
<1>1. SUFFICES ASSUME T # {} PROVE FALSE
  OBVIOUS
<1>2. PICK m \in T : \A n \in T : m <= n
  <2> HIDE DEF T
  <2>1. T \subseteq Nat
    BY DEF T
  <2> QED BY <1>1, <2>1, LeastElement
<1>3. m # 0
  <2>1. IsSqrtRun(v, [n \in 0 .. 0 |-> <<v, (v + 1) \div 2>>], 0)
    BY DEF IsSqrtRun
  <2> QED BY <2>1
<1>4. m \in Nat /\ m - 1 \in Nat /\ m - 1 \notin T
  BY <1>2, <1>3
<1>5. PICK g : IsSqrtRun(v, g, m - 1)
  BY <1>4
<1> DEFINE h == [n \in 0 .. m |-> IF n = m THEN SqrtStep(v, g[m - 1]) ELSE g[n]]
<1>6. \A n \in 0 .. m : h[n] = IF n = 0 THEN <<v, (v + 1) \div 2>>
                                      ELSE SqrtStep(v, h[n - 1])
  <2> SUFFICES ASSUME NEW n \in 0 .. m
               PROVE  h[n] = IF n = 0 THEN <<v, (v + 1) \div 2>>
                                      ELSE SqrtStep(v, h[n - 1])
    OBVIOUS
  <2>1. CASE n = m
    <3>1. h[n] = SqrtStep(v, g[m - 1])
      BY <2>1
    <3>2. h[m - 1] = g[m - 1]
      BY <1>3, <1>4
    <3> QED BY <1>3, <2>1, <3>1, <3>2
  <2>2. CASE n # m
    <3>1. n \in 0 .. (m - 1) /\ h[n] = g[n]
      BY <1>4, <2>2
    <3>2. g[n] = IF n = 0 THEN <<v, (v + 1) \div 2>> ELSE SqrtStep(v, g[n - 1])
      BY <1>5, <3>1 DEF IsSqrtRun
    <3>3. n # 0 => h[n - 1] = g[n - 1]
      BY <1>4, <2>2
    <3> QED BY <3>1, <3>2, <3>3
  <2> QED BY <2>1, <2>2
<1>7. IsSqrtRun(v, h, m)
  <2>1. h = [n \in 0 .. m |-> h[n]]
    OBVIOUS
  <2> HIDE DEF h
  <2> QED BY <1>6, <2>1, Zenon DEF IsSqrtRun
<1> QED BY <1>2, <1>7

(* The mean of c and of v over c, rounded down, is not below the root.     *)
LEMMA MeanAboveRoot ==
  ASSUME NEW v \in Nat \ {0}, NEW c \in Nat \ {0}
  PROVE  LET mean == (v \div c + c) \div 2
         IN  mean \in Nat \ {0} /\ v < (mean + 1) * (mean + 1)
<1> DEFINE q == v \div c
           mean == (q + c) \div 2
<1>1. q \in Nat /\ v < c * (q + 1)
  BY QuotientFacts
<1>2. c = 1 => q = v
  OBVIOUS
<1> HIDE DEF q
<1>3. mean \in Nat \ {0} /\ c + (q + 1) <= 2 * (mean + 1)
  BY <1>1, <1>2
<1> HIDE DEF mean
<1>4. ASSUME NEW a \in Nat, NEW b \in Nat, NEW m \in Nat, a + b <= 2 * m
      PROVE  a * b <= m * m
  <2>1. a * b \in Nat /\ m * m \in Nat /\ (a + b) * (a + b) \in Nat
    BY <1>4, TimesIsNat
  <2>2. 4 * (a * b) <= (a + b) * (a + b)
    <3>1. CASE a <= b
      <4>1. PICK d \in Nat : b = a + d
        <5>1. b - a \in Nat /\ b = a + (b - a)
          BY <3>1
        <5> QED BY <5>1
      <4>2. a * a \in Nat /\ a * d \in Nat /\ d * d \in Nat
        BY TimesIsNat
      <4>3. a * b = a * a + a * d
        BY <4>1
      <4>4. (a + b) * (a + b) = 4 * (a * a) + 4 * (a * d) + d * d
        BY <4>1
      <4> QED BY <4>2, <4>3, <4>4
    <3>2. CASE b <= a
      <4>1. PICK d \in Nat : a = b + d
        <5>1. a - b \in Nat /\ a = b + (a - b)
          BY <3>2
        <5> QED BY <5>1
      <4>2. b * b \in Nat /\ b * d \in Nat /\ d * d \in Nat
        BY TimesIsNat
      <4>3. a * b = b * b + b * d
        BY <4>1
      <4>4. (a + b) * (a + b) = 4 * (b * b) + 4 * (b * d) + d * d
        BY <4>1
      <4> QED BY <4>2, <4>3, <4>4
    <3> QED BY <3>1, <3>2
  <2>3. (a + b) * (a + b) <= (2 * m) * (2 * m)
    <3>1. /\ (a + b) * (a + b) <= (2 * m) * (a + b)
          /\ (2 * m) * (a + b) <= (2 * m) * (2 * m)
      BY <1>4, TimesOrder
    <3>2. (2 * m) * (a + b) \in Nat /\ (2 * m) * (2 * m) \in Nat
      BY TimesIsNat
    <3> QED BY <2>1, <3>1, <3>2
  <2>4. (2 * m) * (2 * m) = 4 * (m * m)
    OBVIOUS
  <2> QED BY <2>1, <2>2, <2>3, <2>4
<1>5. c * (q + 1) <= (mean + 1) * (mean + 1)
  BY <1>1, <1>3, <1>4
<1>6. c * (q + 1) \in Nat /\ (mean + 1) * (mean + 1) \in Nat
  BY <1>1, <1>3, TimesIsNat
<1>7. mean \in Nat \ {0} /\ v < (mean + 1) * (mean + 1)
  BY <1>1, <1>3, <1>5, <1>6
<1> QED BY <1>7 DEF mean, q

(* After n steps: output is not below the root, modifiedValue is the mean  *)
(* that follows it, and as long as the loop goes on output has come down.  *)
SqrtGood(v, n, s) ==
  /\ s \in (Nat \ {0}) \X (Nat \ {0})
  /\ v < (s[1] + 1) * (s[1] + 1)
  /\ s[2] = (v \div s[1] + s[1]) \div 2
  /\ s[1] <= v - n \/ s[1] <= s[2]

LEMMA SqrtStepGood ==
  ASSUME NEW v \in Nat \ {0}, NEW n \in Nat, NEW s, SqrtGood(v, n, s)
  PROVE  SqrtGood(v, n + 1, SqrtStep(v, s))
<1>1. s[1] \in Nat \ {0} /\ s[2] \in Nat \ {0}
  BY DEF SqrtGood
<1>2. CASE s[2] < s[1]
  <2> DEFINE c == s[2]
             e == (v \div c + c) \div 2
  <2>1. SqrtStep(v, s) = <<c, e>>
    BY <1>2 DEF SqrtStep
  <2>2. v < (c + 1) * (c + 1)
    BY <1>1, MeanAboveRoot DEF SqrtGood
  <2>3. e \in Nat \ {0}
    BY <1>1, MeanAboveRoot
  <2>4. c <= v - (n + 1)
    BY <1>1, <1>2 DEF SqrtGood
  <2>5. <<c, e>>[1] = c /\ <<c, e>>[2] = e
    OBVIOUS
  <2>6. <<c, e>> \in (Nat \ {0}) \X (Nat \ {0})
    <3> HIDE DEF e
    <3> QED BY <1>1, <2>3
  <2>7. <<c, e>>[2] = (v \div (<<c, e>>[1]) + <<c, e>>[1]) \div 2
    BY <2>5
  <2> HIDE DEF c, e
  <2> QED BY <2>1, <2>2, <2>4, <2>5, <2>6, <2>7 DEF SqrtGood
<1>3. CASE ~ (s[2] < s[1])
  <2>1. SqrtStep(v, s) = s /\ s[1] <= s[2]
    BY <1>1, <1>3 DEF SqrtStep
  <2> QED BY <2>1 DEF SqrtGood
<1> QED BY <1>2, <1>3

(***************************************************************************)
(* The loop of LPToken's sqrt ends within value steps, with the largest    *)
(* number whose square is not more than value: the first provider gets the *)
(* root of the product of what it adds, rounded down (LPToken.sol:60,      *)
(* 195-202).                                                               *)
(***************************************************************************)
THEOREM SqrtIsTheRoot ==
  ASSUME NEW v \in Nat
  PROVE  /\ Sqrt(v) \in Nat
         /\ Sqrt(v) * Sqrt(v) <= v
         /\ v < (Sqrt(v) + 1) * (Sqrt(v) + 1)
<1> DEFINE g == CHOOSE f : IsSqrtRun(v, f, v)
           T == {n \in 0 .. v : ~ SqrtGood(v, n, g[n])}
<1>1. Sqrt(v) = g[v][1]
  BY DEF Sqrt, IsSqrtRun, SqrtStep
<1>2. IsSqrtRun(v, g, v)
  BY SqrtRunExists
<1> HIDE DEF g
<1>3. \A n \in 0 .. v : g[n] = IF n = 0 THEN <<v, (v + 1) \div 2>>
                                      ELSE SqrtStep(v, g[n - 1])
  BY <1>2, Zenon DEF IsSqrtRun
<1>4. CASE v = 0
  <2>1. g[v] = <<v, (v + 1) \div 2>>
    BY <1>3, <1>4
  <2>2. Sqrt(v) = 0
    BY <1>1, <1>4, <2>1
  <2> QED BY <1>4, <2>2
<1>5. CASE v # 0
  <2>0. v \in Nat \ {0}
    BY <1>5
  <2>1. SqrtGood(v, 0, <<v, (v + 1) \div 2>>)
    <3> DEFINE e == (v + 1) \div 2
    <3>1. v \div v = 1 /\ e \in Nat \ {0}
      BY <2>0
    <3>2. v < (v + 1) * (v + 1)
      <4>1. (v + 1) * 1 <= (v + 1) * (v + 1)
        BY <2>0, TimesOrder
      <4>2. (v + 1) * (v + 1) \in Nat
        BY <2>0, TimesIsNat
      <4> QED BY <2>0, <4>1, <4>2
    <3>3. e = (v \div v + v) \div 2
      BY <2>0, <3>1
    <3> HIDE DEF e
    <3>4. /\ <<v, e>>[1] = v /\ <<v, e>>[2] = e
          /\ <<v, e>> \in (Nat \ {0}) \X (Nat \ {0})
      BY <2>0, <3>1
    <3>5. v <= v - 0
      BY <2>0
    <3>6. SqrtGood(v, 0, <<v, e>>)
      BY <3>2, <3>3, <3>4, <3>5 DEF SqrtGood
    <3> QED BY <3>6 DEF e
  <2>2. T = {}
    <3>1. SUFFICES ASSUME T # {} PROVE FALSE
      OBVIOUS
    <3>2. PICK m \in T : \A n \in T : m <= n
      <4>1. T \subseteq Nat
        OBVIOUS
      <4> HIDE DEF T
      <4> QED BY <3>1, <4>1, LeastElement
    <3>3. m \in 0 .. v /\ ~ SqrtGood(v, m, g[m])
      BY <3>2
    <3>4. m # 0
      BY <1>3, <2>1, <3>3
    <3>5. m - 1 \in 0 .. v /\ m - 1 \in Nat /\ ~ (m <= m - 1) /\ (m - 1) + 1 = m
      BY <3>3, <3>4
    <3>6. SqrtGood(v, m - 1, g[m - 1])
      BY <3>2, <3>5
    <3>7. SqrtGood(v, (m - 1) + 1, SqrtStep(v, g[m - 1]))
      BY <2>0, <3>5, <3>6, SqrtStepGood
    <3> QED BY <1>3, <3>3, <3>4, <3>5, <3>7
  <2>3. SqrtGood(v, v, g[v])
    BY <2>0, <2>2
  <2> DEFINE r == g[v][1]
  <2>4. r \in Nat \ {0} /\ v < (r + 1) * (r + 1)
    BY <2>3 DEF SqrtGood
  <2>5. r <= (v \div r + r) \div 2
    BY <2>0, <2>3 DEF SqrtGood
  <2> HIDE DEF r
  <2>6. r * r <= v
    <3> DEFINE q == v \div r
    <3>1. q \in Nat /\ r * q <= v
      BY <2>0, <2>4, QuotientFacts
    <3>2. r <= (q + r) \div 2
      BY <2>5
    <3> HIDE DEF q
    <3>3. r <= q
      BY <2>4, <3>1, <3>2
    <3>4. r * r <= r * q /\ r * r \in Nat /\ r * q \in Nat
      BY <2>4, <3>1, <3>3, TimesOrder, TimesIsNat
    <3> QED BY <3>1, <3>4
  <2> QED BY <1>1, <2>4, <2>6 DEF r
<1> QED BY <1>4, <1>5

LEMMA SqrtIsNat ==
  ASSUME NEW v \in Nat
  PROVE  Sqrt(v) \in Nat
BY SqrtIsTheRoot

-----------------------------------------------------------------------------
(* What one transaction makes of one pool *)

(* What is minted is a natural, and at most the added share of each token. *)
LEMMA MintBounded ==
  ASSUME NEW p \in Pool, NEW q \in [Sides -> Nat],
         LpSupply(p) > 0 => p.qty["a"] > 0 /\ p.qty["b"] > 0
  PROVE  /\ LpTokenCount(p, q) \in Nat
         /\ LpSupply(p) > 0 =>
              \A s \in Sides : LpTokenCount(p, q) * p.qty[s] <= q[s] * LpSupply(p)
<1> DEFINE n == LpSupply(p)
           c == LpTokenCount(p, q)
           share(s) == (q[s] * n) \div p.qty[s]
<1>1. n \in Nat
  BY SupplyIsNat
<1>2. \A s \in Sides : p.qty[s] \in Nat /\ q[s] \in Nat
  BY DEF Pool
<1>3. "a" \in Sides /\ "b" \in Sides
  BY DEF Sides
<1>4. CASE n = 0
  <2>1. c = Sqrt(q["a"] * q["b"])
    BY <1>4 DEF LpTokenCount
  <2> QED BY <1>2, <1>3, <1>4, <2>1, SqrtIsNat, TimesIsNat
<1>5. CASE n > 0
  <2>1. ASSUME NEW s \in Sides
        PROVE  share(s) \in Nat /\ share(s) * p.qty[s] <= q[s] * n
    <3>1. p.qty[s] \in Nat \ {0}
      BY <1>2, <1>5 DEF Sides
    <3>2. q[s] * n \in Nat
      BY <1>1, <1>2, TimesIsNat
    <3>3. share(s) \in Nat /\ p.qty[s] * share(s) <= q[s] * n
      <4> HIDE DEF n
      <4> QED BY <3>1, <3>2, QuotientFacts
    <3> HIDE DEF share, n
    <3>4. p.qty[s] * share(s) = share(s) * p.qty[s]
      BY <3>1, <3>3
    <3> QED BY <3>3, <3>4
  <2>2. c = IF share("a") > share("b") THEN share("b") ELSE share("a")
    BY <1>5 DEF LpTokenCount
  <2> HIDE DEF share, c, n
  <2>3. c \in Nat /\ c <= share("a") /\ c <= share("b")
    BY <1>3, <2>1, <2>2
  <2>4. ASSUME NEW s \in Sides
        PROVE  c * p.qty[s] <= q[s] * n
    <3>1. c <= share(s)
      BY <2>3 DEF Sides
    <3>2. c * p.qty[s] <= share(s) * p.qty[s]
      BY <1>2, <2>1, <2>3, <3>1, TimesOrder
    <3>3. c * p.qty[s] \in Nat /\ share(s) * p.qty[s] \in Nat /\ q[s] * n \in Nat
      BY <1>1, <1>2, <2>1, <2>3, TimesIsNat
    <3> QED BY <2>1, <3>2, <3>3
  <2> QED BY <2>3, <2>4 DEF c, n
<1> QED BY <1>1, <1>4, <1>5

(* The supply after one holder's shares have changed. *)
LEMMA SupplyChange ==
  ASSUME NEW p \in Pool, NEW r \in Pool, NEW u \in Users,
         \A v \in Users \ {u} : r.lp[v] = p.lp[v]
  PROVE  /\ LpSupply(p) \in Nat /\ LpSupply(r) \in Nat
         /\ LpSupply(p) >= p.lp[u]
         /\ LpSupply(r) = LpSupply(p) - p.lp[u] + r.lp[u]
<1>1. p.lp \in [Users -> Nat] /\ r.lp \in [Users -> Nat]
  BY DEF Pool
<1>2. IsFiniteSet(Users)
  BY PairAssumption
<1> QED BY <1>1, <1>2, SupplyIsNat, TotalChange DEF LpSupply

(* Liquidity added: c shares for q, with what they are worth. *)
LEMMA AddedBecomes ==
  ASSUME NEW p, PoolGood(p), NEW q \in [Sides -> Nat], \A s \in Sides : q[s] > 0,
         NEW c \in Nat, c > 0, NEW u \in Users,
         LpSupply(p) > 0 => \A s \in Sides : c * p.qty[s] <= q[s] * LpSupply(p),
         NEW r \in Pool, r.token = p.token, r.fee = p.fee,
         \A s \in Sides : r.qty[s] = p.qty[s] + q[s] /\ r.held[s] = p.held[s] + q[s],
         r.lp[u] = p.lp[u] + c, \A v \in Users \ {u} : r.lp[v] = p.lp[v]
  PROVE  Becomes(p, r)
<1> DEFINE n == LpSupply(p)
<1>1. p \in Pool
  BY DEF PoolGood
<1>2. n \in Nat /\ LpSupply(r) = n + c
  <2>1. p.lp[u] \in Nat
    BY <1>1 DEF Pool
  <2>2. /\ LpSupply(p) \in Nat /\ LpSupply(r) \in Nat /\ LpSupply(p) >= p.lp[u]
        /\ LpSupply(r) = LpSupply(p) - p.lp[u] + r.lp[u]
    BY <1>1, SupplyChange
  <2> QED BY <2>1, <2>2
<1>3. \A s \in Sides : p.qty[s] \in Nat /\ p.held[s] \in Nat /\ q[s] \in Nat \ {0}
  BY <1>1 DEF Pool
<1>4. PoolGood(r)
  BY <1>2, <1>3 DEF PoolGood, Moderate
<1>5. ASSUME NEW s \in Sides
      PROVE  r.qty[s] * n >= p.qty[s] * LpSupply(r)
  <2> DEFINE x == p.qty[s]
  <2>1. (x + q[s]) * n = x * n + q[s] * n /\ x * (n + c) = x * n + c * x
    BY <1>2, <1>3
  <2>2. n = 0 => x = 0
    BY DEF PoolGood
  <2>3. n > 0 => c * x <= q[s] * n
    OBVIOUS
  <2>4. x \in Nat /\ x * n \in Nat /\ q[s] * n \in Nat /\ c * x \in Nat
    BY <1>2, <1>3, TimesIsNat
  <2>5. c * x <= q[s] * n
    <3>1. CASE n = 0
      <4>1. c * x = 0
        BY <2>2, <3>1
      <4> QED BY <2>4, <4>1
    <3>2. CASE n # 0
      BY <1>2, <2>3, <3>2
    <3> QED BY <3>1, <3>2
  <2> HIDE DEF n, x
  <2>6. (x + q[s]) * n >= x * (n + c)
    BY <2>1, <2>4, <2>5
  <2> QED BY <1>2, <2>6 DEF x
<1>6. LpSupply(r) # n /\ LpSupply(r) > 0
  BY <1>2
<1> QED BY <1>4, <1>5, <1>6 DEF Becomes, SharesRise, ProductRises, HbarStays

(* Shares returned: n of them for what they are worth, rounded down. *)
LEMMA ReturnedBecomes ==
  ASSUME NEW p, PoolGood(p), NEW u \in Users, NEW n \in Nat, n > 0, p.lp[u] >= n,
         NEW back, back = TokensToGetBack(p, n),
         \A s \in Sides : p.token[s] = Hbar => p.qty[s] - back[s] >= back[s],
         NEW r \in Pool, r.token = p.token, r.fee = p.fee,
         \A s \in Sides : /\ r.qty[s] = p.qty[s] - back[s]
                          /\ r.held[s] = p.held[s] - back[s],
         r.lp = [p.lp EXCEPT ![u] = @ - n]
  PROVE  Becomes(p, r)
<1> DEFINE m == LpSupply(p)
<1>1. p \in Pool
  BY DEF PoolGood
<1>2. m \in Nat /\ m >= n /\ LpSupply(r) = m - n /\ LpSupply(r) \in Nat
  <2>1. p.lp \in [Users -> Nat]
    BY <1>1 DEF Pool
  <2>2. r.lp[u] = p.lp[u] - n /\ p.lp[u] \in Nat
    BY <2>1
  <2>3. \A v \in Users \ {u} : r.lp[v] = p.lp[v]
    BY <2>1
  <2>4. /\ LpSupply(p) \in Nat /\ LpSupply(r) \in Nat /\ LpSupply(p) >= p.lp[u]
        /\ LpSupply(r) = LpSupply(p) - p.lp[u] + r.lp[u]
    BY <1>1, <2>3, SupplyChange
  <2> QED BY <2>2, <2>4
<1>3. \A s \in Sides : p.qty[s] \in Nat /\ p.held[s] \in Nat
  BY <1>1 DEF Pool
<1>4. ASSUME NEW s \in Sides
      PROVE  /\ back[s] \in Nat /\ back[s] <= p.qty[s]
             /\ m * back[s] <= n * p.qty[s]
             /\ n = m => back[s] = p.qty[s]
  <2> DEFINE x == p.qty[s]
             b == (n * x) \div m
  <2>1. back[s] = b
    BY DEF TokensToGetBack
  <2>2. x \in Nat /\ m \in Nat \ {0} /\ n * x \in Nat
    BY <1>2, <1>3, TimesIsNat
  <2> HIDE DEF x, m
  <2>3. n * x <= m * x
    BY <1>2, <2>2, TimesOrder
  <2>4. b \in Nat /\ b <= x /\ m * b <= n * x /\ n * x < m * (b + 1)
    BY <2>2, <2>3, QuotientBound, QuotientFacts
  <2> HIDE DEF b
  <2>5. ASSUME n = m PROVE b = x
    <3>1. CASE b + 1 <= x
      <4>1. m * (b + 1) <= m * x /\ m * (b + 1) \in Nat /\ m * x \in Nat
        BY <2>2, <2>4, <3>1, TimesOrder, TimesIsNat
      <4> QED BY <2>2, <2>4, <2>5, <4>1
    <3> QED BY <2>2, <2>4, <3>1
  <2> QED BY <2>1, <2>4, <2>5 DEF x
<1>5. ASSUME NEW s \in Sides
      PROVE  r.qty[s] * m >= p.qty[s] * LpSupply(r)
  <2> DEFINE x == p.qty[s]
             b == back[s]
  <2>1. x \in Nat /\ b \in Nat /\ m * b <= n * x
    BY <1>3, <1>4
  <2> HIDE DEF x, b, m
  <2>2. (x - b) * m = x * m - m * b /\ x * (m - n) = x * m - n * x
    BY <1>2, <2>1
  <2>3. x * m \in Nat /\ m * b \in Nat /\ n * x \in Nat
    BY <1>2, <2>1, TimesIsNat
  <2>4. (x - b) * m >= x * (m - n)
    BY <2>1, <2>2, <2>3
  <2> QED BY <1>2, <2>4 DEF x, b
<1>6. ASSUME NEW s \in Sides, p.token[s] = Hbar
      PROVE  r.qty[s] > 0 /\ LpSupply(r) > 0
  <2>1. p.qty[s] > 0
    BY <1>2, <1>6 DEF PoolGood
  <2>2. back[s] # p.qty[s]
    BY <1>3, <1>4, <1>6, <2>1
  <2> QED BY <1>2, <1>3, <1>4, <2>1, <2>2
<1>7. ASSUME LpSupply(r) = 0, NEW s \in Sides PROVE r.qty[s] = 0
  BY <1>2, <1>3, <1>4, <1>7
<1>8. PoolGood(r)
  BY <1>3, <1>4, <1>6, <1>7 DEF PoolGood, Moderate
<1>9. LpSupply(r) # m
  BY <1>2
<1> QED BY <1>5, <1>6, <1>8, <1>9 DEF Becomes, SharesRise, ProductRises, HbarStays

(* A swap: what the pool gets is priced without the part it keeps of the   *)
(* fee, what it gives is at most what is quoted.                           *)
LEMMA SwappedBecomes ==
  ASSUME NEW p, PoolGood(p), NEW side \in Sides, p.qty[side] > 0,
         NEW in, in.delta \in Nat, in.share \in Nat, in.delta <= in.share,
         NEW got \in Nat, p.token[side] # Hbar \/ Moderate(p) => got >= in.share,
         NEW out \in Nat, out <= p.qty[Other(side)],
         Moderate(p) =>
           p.qty[side] * p.qty[Other(side)]
             < (p.qty[side] + in.delta) * (p.qty[Other(side)] - out + 1),
         p.token[Other(side)] = Hbar => p.qty[Other(side)] - out > 0,
         NEW r \in Pool, r.token = p.token, r.fee = p.fee, r.lp = p.lp,
         r.qty[side] = p.qty[side] + in.share, r.held[side] = p.held[side] + got,
         r.qty[Other(side)] = p.qty[Other(side)] - out,
         r.held[Other(side)] = p.held[Other(side)] - out
  PROVE  Becomes(p, r)
<1> DEFINE x == p.qty[side]
           y == p.qty[Other(side)]
           d == in.delta
           e == in.share
<1>1. p \in Pool /\ p.qty \in [Sides -> Nat] /\ p.held \in [Sides -> Nat]
  BY DEF PoolGood, Pool
<1>2. LpSupply(r) = LpSupply(p) /\ LpSupply(p) \in Nat
  BY <1>1, SupplyIsNat DEF LpSupply
<1>3. LpSupply(p) > 0
  BY <1>1, <1>2 DEF PoolGood
<1>4. \A s \in Sides : s = side \/ s = Other(side)
  BY DEF Sides, Other
<1>5. Other(side) \in Sides
  BY DEF Sides, Other
<1>6. x \in Nat /\ y \in Nat /\ x > 0 /\ d \in Nat /\ e \in Nat /\ d <= e
  BY <1>1, <1>5
<1>7. \A s \in Sides : r.token[s] # Hbar \/ Moderate(r) => r.held[s] >= r.qty[s]
  <2>1. p.token[side] # Hbar \/ Moderate(p) => r.held[side] >= r.qty[side]
    BY <1>1 DEF PoolGood
  <2>2. p.token[Other(side)] # Hbar \/ Moderate(p)
          => r.held[Other(side)] >= r.qty[Other(side)]
    BY <1>1, <1>5 DEF PoolGood
  <2> QED BY <1>4, <2>1, <2>2 DEF Moderate
<1>8. \A s \in Sides : p.token[s] = Hbar => r.qty[s] > 0
  BY <1>4, <1>6
<1>9. PoolGood(r)
  BY <1>2, <1>3, <1>7, <1>8 DEF PoolGood
<1>10. Variant(r) = (x + e) * (y - out) /\ Variant(p) = x * y
  BY <1>6 DEF Variant, Sides, Other
<1>11. ASSUME Moderate(p) PROVE (x + e) * (y - out) + (x + e) > x * y
  <2>1. y - out + 1 \in Nat /\ x * y < (x + d) * (y - out + 1)
    BY <1>6, <1>11
  <2> HIDE DEF x, y, d, e
  <2>2. (x + d) * (y - out + 1) <= (x + e) * (y - out + 1)
    BY <1>6, <2>1, TimesOrder
  <2>3. (x + e) * (y - out + 1) = (x + e) * (y - out) + (x + e)
    BY <1>6, <2>1
  <2>4. /\ x * y \in Nat /\ (x + d) * (y - out + 1) \in Nat
        /\ (x + e) * (y - out + 1) \in Nat
    BY <1>6, <2>1, TimesIsNat
  <2> QED BY <2>1, <2>2, <2>3, <2>4
<1>12. r.qty[side] >= p.qty[side] /\ (Moderate(p) => Variant(r) + r.qty[side] > Variant(p))
  BY <1>6, <1>10, <1>11
<1> QED BY <1>2, <1>3, <1>9, <1>12 DEF Becomes, SharesRise, ProductRises, HbarStays

-----------------------------------------------------------------------------
(* The pools and the wallets *)

PoolsGood == pools \in Seq(Pool) /\ \A i \in Ids : PoolGood(pools[i])

WalletOK == wallet \in [Tokens -> [Users \cup {Treasury} -> Nat]]

(* What any step makes of the pools. *)
PoolsBecome ==
  /\ PoolsGood' /\ Len(pools') >= Len(pools)
  /\ \A i \in Ids : Becomes(pools[i], pools'[i])

(* What a pair's transaction leaves of the pools: as many, alike but one. *)
PoolsChange ==
  PoolsBecome /\ Len(pools') = Len(pools) /\ WalletOK'

(* What is not a trade leaves: the tokens and quantities of each pool, and *)
(* nothing in those that are new.                                          *)
PoolsStand ==
  /\ \A i \in Ids : /\ i \in DOMAIN pools' /\ pools'[i].token = pools[i].token
                    /\ pools'[i].qty = pools[i].qty
  /\ \A i \in DOMAIN pools' \ Ids : \A s \in Sides : pools'[i].qty[s] = 0

LEMMA OneBecomes ==
  ASSUME PoolsGood, NEW i \in Ids, NEW r, Becomes(pools[i], r),
         pools' = [pools EXCEPT ![i] = r]
  PROVE  PoolsBecome /\ Len(pools') = Len(pools)
<1>1. pools \in Seq(Pool) /\ \A j \in Ids : PoolGood(pools[j]) /\ pools[j] \in Pool
  BY DEF PoolsGood, PoolGood
<1>2. r \in Pool
  BY DEF Becomes, PoolGood
<1>3. pools' \in Seq(Pool) /\ Len(pools') = Len(pools) /\ DOMAIN pools' = DOMAIN pools
  BY <1>1, <1>2, ExceptSeq DEF Ids
<1>4. ASSUME NEW j \in Ids PROVE Becomes(pools[j], pools'[j])
  <2>1. CASE j = i
    <3>1. pools'[j] = r
      BY <2>1, <1>1 DEF Ids
    <3> QED BY <2>1, <3>1
  <2>2. CASE j # i
    <3>1. pools'[j] = pools[j]
      BY <2>2, <1>1 DEF Ids
    <3> QED BY <1>1, <3>1, SameBooks
  <2> QED BY <2>1, <2>2
<1>5. \A j \in Ids : PoolGood(pools'[j])
  BY <1>4 DEF Becomes
<1>6. Len(pools') >= Len(pools)
  BY <1>1, <1>3
<1> QED BY <1>3, <1>4, <1>5, <1>6 DEF PoolsBecome, PoolsGood, Ids

LEMMA NoneBecomes ==
  ASSUME PoolsGood, UNCHANGED pools
  PROVE  PoolsBecome /\ Len(pools') = Len(pools)
<1>1. \A j \in Ids : Becomes(pools[j], pools[j])
  BY SameBooks DEF PoolsGood, PoolGood
<1>2. Len(pools) \in Nat
  BY DEF PoolsGood
<1> QED BY <1>1, <1>2 DEF PoolsBecome, PoolsGood, Ids

(* Nobody pays what it does not have. *)
LEMMA SettledTyped ==
  ASSUME WalletOK, NEW i \in Ids, NEW moved \in [Sides -> [Users -> Int]],
         NEW fee \in [Sides -> Nat],
         \A s \in Sides, u \in Users : wallet[pools[i].token[s]][u] >= moved[s][u],
         wallet' = Settled(i, moved, fee)
  PROVE  WalletOK'
<1> DEFINE W == [Users \cup {Treasury} -> Nat]
           new(t) == IF \E s \in Sides : pools[i].token[s] = t
                     THEN LET s == CHOOSE x \in Sides : pools[i].token[x] = t
                          IN  [u \in Users \cup {Treasury} |->
                                 IF u = Treasury THEN wallet[t][u] + fee[s]
                                                 ELSE wallet[t][u] - moved[s][u]]
                     ELSE wallet[t]
<1>1. Settled(i, moved, fee) = [t \in Tokens |-> new(t)]
  BY DEF Settled
<1>2. ASSUME NEW t \in Tokens PROVE new(t) \in W
  <2>1. CASE \E s \in Sides : pools[i].token[s] = t
    <3>1. PICK s \in Sides : s = (CHOOSE x \in Sides : pools[i].token[x] = t)
      BY <2>1
    <3>2. pools[i].token[s] = t
      BY <2>1, <3>1
    <3>3. \A u \in Users : /\ wallet[t][u] \in Nat /\ moved[s][u] \in Int
                           /\ wallet[t][u] >= moved[s][u]
      BY <3>2 DEF WalletOK
    <3>4. wallet[t][Treasury] \in Nat /\ fee[s] \in Nat
      BY DEF WalletOK
    <3>5. new(t) = [u \in Users \cup {Treasury} |->
                      IF u = Treasury THEN wallet[t][u] + fee[s]
                                      ELSE wallet[t][u] - moved[s][u]]
      BY <2>1, <3>1
    <3> HIDE DEF new
    <3> QED BY <3>3, <3>4, <3>5
  <2>2. CASE ~ \E s \in Sides : pools[i].token[s] = t
    BY <2>2 DEF WalletOK
  <2> QED BY <2>1, <2>2
<1> HIDE DEF new
<1> QED BY <1>1, <1>2 DEF WalletOK

(* addLiquidity *)
LEMMA AddLiquidityChanges ==
  ASSUME PoolsGood, WalletOK, NEW i \in Ids, NEW caller \in Users,
         NEW from \in Users, NEW first, NEW second, NEW q \in Nat \X Nat,
         AddLiquidity(i, caller, from, first, second, q)
  PROVE  PoolsChange
<1> DEFINE p == pools[i]
           added == Quantities(i, first, q)
           payer(s) == PayerOf(i, s, caller, from)
           c == LpTokenCount(p, added)
           r == [p EXCEPT !.qty = [s \in Sides |-> @[s] + added[s]],
                          !.held = [s \in Sides |-> @[s] + added[s]],
                          !.allow = [s \in Sides |-> Spent(i, s, from, added[s])],
                          !.lp[from] = @ + c]
<1>1. p \in Pool /\ PoolGood(p)
  BY DEF PoolsGood, PoolGood
<1>2. added \in [Sides -> Nat]
  BY DEF Quantities
<1>3. /\ \A s \in Sides : CanPay(i, s, payer(s), added[s])
      /\ CanAllot(p, added, from)
      /\ wallet' = Settled(i, [s \in Sides |-> Only(payer(s), added[s])], NoFee)
      /\ pools' = [pools EXCEPT ![i] = r]
  BY DEF AddLiquidity
<1>4. c \in Nat /\ c > 0 /\ \A s \in Sides : added[s] > 0
  BY <1>1, <1>2, <1>3, MintBounded DEF CanAllot, Sides
<1>5. LpSupply(p) > 0 => \A s \in Sides : c * p.qty[s] <= added[s] * LpSupply(p)
  BY <1>1, <1>2, <1>3, MintBounded DEF CanAllot
<1> HIDE DEF added, c
<1>6. ASSUME NEW s \in Sides PROVE Spent(i, s, from, added[s]) \in [Users -> Nat]
  <2>1. p.allow[s] \in [Users -> Nat] /\ added[s] \in Nat
    BY <1>1, <1>2 DEF Pool
  <2>2. ~ IsHbar(i, s) => p.allow[s][from] >= added[s]
    BY <1>3 DEF CanPay, PayerOf
  <2> QED BY <2>1, <2>2 DEF Spent
<1> DEFINE qt == [s \in Sides |-> p.qty[s] + added[s]]
           hd == [s \in Sides |-> p.held[s] + added[s]]
           al == [s \in Sides |-> Spent(i, s, from, added[s])]
           l == [p.lp EXCEPT ![from] = @ + c]
<1>7. /\ qt \in [Sides -> Nat] /\ hd \in [Sides -> Nat] /\ al \in [Sides -> [Users -> Nat]]
      /\ l \in [Users -> Nat]
  <2>1. p.qty \in [Sides -> Nat] /\ p.held \in [Sides -> Nat] /\ p.lp \in [Users -> Nat]
    BY <1>1 DEF Pool
  <2> QED BY <1>2, <1>4, <1>6, <2>1
<1>8. /\ \A s \in Sides : qt[s] = p.qty[s] + added[s] /\ hd[s] = p.held[s] + added[s]
      /\ r = [p EXCEPT !.qty = qt, !.held = hd, !.allow = al, !.lp = l]
  OBVIOUS
<1> HIDE DEF r, qt, hd, al
<1>9. /\ r \in Pool /\ r.token = p.token /\ r.fee = p.fee /\ r.lp = l
      /\ r.qty = qt /\ r.held = hd
  <2> HIDE DEF l, p
  <2> QED BY <1>1, <1>7, <1>8 DEF Pool
<1>10. Becomes(p, r)
  <2>1. /\ \A s \in Sides : r.qty[s] = p.qty[s] + added[s] /\ r.held[s] = p.held[s] + added[s]
        /\ r.lp[from] = p.lp[from] + c /\ \A v \in Users \ {from} : r.lp[v] = p.lp[v]
    <3>1. p.lp \in [Users -> Nat]
      BY <1>1 DEF Pool
    <3> QED BY <1>8, <1>9, <3>1
  <2>2. r \in Pool /\ r.token = p.token /\ r.fee = p.fee
    BY <1>9
  <2>3. LpSupply(p) > 0 => \A s \in Sides : c * p.qty[s] <= added[s] * LpSupply(p)
    BY <1>5
  <2>4. PoolGood(p)
    BY <1>1
  <2> HIDE DEF p, l
  <2> QED BY <1>2, <1>4, <2>1, <2>2, <2>3, <2>4, AddedBecomes
<1>11. PoolsBecome /\ Len(pools') = Len(pools)
  BY <1>3, <1>10, OneBecomes
<1>12. WalletOK'
  <2> DEFINE moved == [s \in Sides |-> Only(payer(s), added[s])]
  <2>1. moved \in [Sides -> [Users -> Int]] /\ NoFee \in [Sides -> Nat]
    BY <1>2 DEF Only, NoFee
  <2>2. ASSUME NEW s \in Sides, NEW u \in Users
        PROVE  wallet[pools[i].token[s]][u] >= moved[s][u]
    <3>1. p.token[s] \in Tokens
      BY <1>1 DEF Pool
    <3>2. wallet[p.token[s]][u] \in Nat
      BY <3>1 DEF WalletOK
    <3>3. wallet[p.token[s]][payer(s)] >= added[s]
      BY <1>3 DEF CanPay
    <3> QED BY <1>2, <3>2, <3>3 DEF Only
  <2> HIDE DEF moved
  <2> QED BY <1>3, <2>1, <2>2, SettledTyped DEF moved
<1> QED BY <1>11, <1>12 DEF PoolsChange

(* removeLiquidity *)
LEMMA RemoveLiquidityChanges ==
  ASSUME PoolsGood, WalletOK, NEW i \in Ids, NEW to \in Users, NEW n \in Nat,
         RemoveLiquidity(i, to, n)
  PROVE  PoolsChange
<1> DEFINE p == pools[i]
           back == TokensToGetBack(p, n)
           r == [p EXCEPT !.qty = [s \in Sides |-> @[s] - back[s]],
                          !.held = [s \in Sides |-> @[s] - back[s]],
                          !.lp[to] = @ - n, !.lpAllow[to] = @ - n]
<1>1. p \in Pool /\ PoolGood(p)
  BY DEF PoolsGood, PoolGood
<1>2. /\ CanReturn(p, to, n)
      /\ \A s \in Sides : /\ EnoughHbar(i, s, p.qty[s] - back[s], back[s])
                          /\ p.held[s] >= back[s]
      /\ wallet' = Settled(i, [s \in Sides |-> Only(to, 0 - back[s])], NoFee)
      /\ pools' = [pools EXCEPT ![i] = r]
  BY DEF RemoveLiquidity
<1>3. n > 0 /\ p.lp[to] >= n /\ p.lpAllow[to] >= n
  BY <1>2 DEF CanReturn
<1>4. LpSupply(p) \in Nat /\ LpSupply(p) >= p.lp[to] /\ p.lp[to] \in Nat
  <2>1. p.lp[to] \in Nat
    BY <1>1 DEF Pool
  <2> QED BY <1>1, <2>1, SupplyChange
<1>5. ASSUME NEW s \in Sides
      PROVE  back[s] \in Nat /\ back[s] <= p.qty[s] /\ p.qty[s] \in Nat
             /\ back[s] <= p.held[s] /\ p.held[s] \in Nat
  <2> DEFINE m == LpSupply(p)
             x == p.qty[s]
  <2>1. x \in Nat /\ p.held[s] \in Nat /\ back[s] = (n * x) \div m
    BY <1>1 DEF Pool, TokensToGetBack
  <2>2. m \in Nat \ {0} /\ n <= m
    BY <1>3, <1>4
  <2>3. back[s] <= p.held[s]
    BY <1>2
  <2> HIDE DEF m, x, back
  <2>4. n * x \in Nat /\ n * x <= m * x
    BY <2>1, <2>2, TimesIsNat, TimesOrder
  <2>5. back[s] \in Nat /\ back[s] <= x
    BY <2>1, <2>2, <2>4, QuotientBound
  <2> QED BY <2>1, <2>3, <2>5 DEF x
<1>6. \A s \in Sides : p.token[s] = Hbar => p.qty[s] - back[s] >= back[s]
  BY <1>2 DEF EnoughHbar, IsHbar
<1> HIDE DEF back
<1>7. r \in Pool /\ r.token = p.token /\ r.fee = p.fee /\ r.lp = [p.lp EXCEPT ![to] = @ - n]
      /\ \A s \in Sides : r.qty[s] = p.qty[s] - back[s] /\ r.held[s] = p.held[s] - back[s]
  <2>1. \A s \in Sides : p.qty[s] - back[s] \in Nat /\ p.held[s] - back[s] \in Nat
    BY <1>5
  <2>2. p.lp[to] - n \in Nat /\ p.lpAllow[to] - n \in Nat
    BY <1>1, <1>3 DEF Pool
  <2>3. p.qty \in [Sides -> Nat] /\ p.held \in [Sides -> Nat]
        /\ p.lp \in [Users -> Nat] /\ p.lpAllow \in [Users -> Nat]
    BY <1>1 DEF Pool
  <2> DEFINE qt == [s \in Sides |-> p.qty[s] - back[s]]
             hd == [s \in Sides |-> p.held[s] - back[s]]
             l == [p.lp EXCEPT ![to] = @ - n]
             la == [p.lpAllow EXCEPT ![to] = @ - n]
  <2>4. /\ qt \in [Sides -> Nat] /\ hd \in [Sides -> Nat]
        /\ l \in [Users -> Nat] /\ la \in [Users -> Nat]
    BY <2>1, <2>2, <2>3
  <2>5. \A s \in Sides : qt[s] = p.qty[s] - back[s] /\ hd[s] = p.held[s] - back[s]
    OBVIOUS
  <2>6. r = [p EXCEPT !.qty = qt, !.held = hd, !.lp = l, !.lpAllow = la]
    OBVIOUS
  <2>7. l = [p.lp EXCEPT ![to] = @ - n]
    OBVIOUS
  <2> HIDE DEF r, qt, hd, l, la
  <2>8. r \in Pool /\ r.token = p.token /\ r.fee = p.fee /\ r.lp = l
        /\ r.qty = qt /\ r.held = hd
    <3> HIDE DEF p
    <3> QED BY <1>1, <2>4, <2>6 DEF Pool
  <2> QED BY <2>5, <2>7, <2>8
<1>8. back = TokensToGetBack(p, n)
  BY DEF back
<1> HIDE DEF r
<1>9. Becomes(p, r)
  BY <1>1, <1>3, <1>6, <1>7, <1>8, ReturnedBecomes
<1>10. PoolsBecome /\ Len(pools') = Len(pools)
  BY <1>2, <1>9, OneBecomes
<1>11. WalletOK'
  <2> DEFINE moved == [s \in Sides |-> Only(to, 0 - back[s])]
  <2>1. moved \in [Sides -> [Users -> Int]] /\ NoFee \in [Sides -> Nat]
    BY <1>5 DEF Only, NoFee
  <2>2. ASSUME NEW s \in Sides, NEW u \in Users
        PROVE  wallet[pools[i].token[s]][u] >= moved[s][u]
    <3>1. p.token[s] \in Tokens
      BY <1>1 DEF Pool
    <3>2. wallet[p.token[s]][u] \in Nat
      BY <3>1 DEF WalletOK
    <3> QED BY <1>5, <3>2 DEF Only
  <2> HIDE DEF moved
  <2> QED BY <1>2, <2>1, <2>2, SettledTyped DEF moved
<1> QED BY <1>10, <1>11 DEF PoolsChange

(* swapToken *)
LEMMA SwapTokenChanges ==
  ASSUME PoolsGood, WalletOK, NEW i \in Ids, NEW side \in Sides,
         NEW caller \in Users, NEW to \in Users, NEW q \in Nat, NEW slippage,
         SwapToken(i, side, caller, to, q, slippage)
  PROVE  PoolsChange
<1> DEFINE p == pools[i]
           o == Other(side)
           quote == Quote(p, side, q)
           fee == [s \in Sides |-> IF s = side THEN quote.in.treasury
                                              ELSE quote.out.treasury]
           paid == IF IsHbar(i, side) THEN q ELSE quote.in.share + quote.in.treasury
           payer == PayerOf(i, side, caller, to)
           left == p.qty[o] - Leaves(quote.out)
           spent == Spent(i, side, to, paid)
           r == [p EXCEPT !.qty[side] = @ + quote.in.share,
                          !.qty[o] = left,
                          !.held[side] = @ + paid - quote.in.treasury,
                          !.held[o] = @ - quote.out.user - quote.out.treasury,
                          !.allow[side] = spent]
           moved == [s \in Sides |-> IF s = side THEN Only(payer, paid)
                                                ELSE Only(to, 0 - quote.out.user)]
<1>1. p \in Pool /\ PoolGood(p) /\ p.fee \in Fees
  BY DEF PoolsGood, PoolGood, Pool
<1>2. /\ Quotable(p, side, q)
      /\ CanPay(i, side, payer, paid)
      /\ paid >= quote.in.treasury /\ left >= 0
      /\ EnoughHbar(i, o, left, quote.out.user)
      /\ EnoughHbar(i, o, left, quote.out.treasury)
      /\ p.held[o] >= quote.out.user + quote.out.treasury
      /\ wallet' = Settled(i, moved, fee)
      /\ pools' = [pools EXCEPT ![i] = r]
  BY DEF SwapToken
<1>3. o \in Sides /\ o # side /\ \A s \in Sides : s = side \/ s = o
  BY DEF Sides, Other
<1>4. p.qty[side] > 0
  BY <1>2 DEF Quotable
<1> DEFINE in == quote.in
           out == quote.out
<1>5. /\ out.user \in Nat /\ out.treasury \in Nat
      /\ Moderate(p) =>
           p.qty[side] * p.qty[o] < (p.qty[side] + in.delta) * (p.qty[o] - Leaves(out) + 1)
  BY <1>1, <1>4, QuoteCovered
<1>6. /\ in.treasury \in Nat /\ in.delta \in Nat /\ in.share \in Nat
      /\ in.delta <= in.share /\ (Moderate(p) => in.share + in.treasury <= q)
  <2>1. in = Incoming(q, p.fee)
    BY <1>1, <1>4, QuoteCovered
  <2> HIDE DEF in
  <2> QED BY <1>1, <2>1, IncomingCovered DEF Moderate
<1>7. /\ p.qty[side] \in Nat /\ p.qty[o] \in Nat /\ p.held[side] \in Nat /\ p.held[o] \in Nat
  BY <1>1, <1>3 DEF Pool
<1>8. /\ paid \in Nat /\ paid >= in.treasury
      /\ p.token[side] # Hbar \/ Moderate(p) => paid >= in.share + in.treasury
  <2>2. paid >= in.treasury
    BY <1>2
  <2> HIDE DEF in, quote
  <2>1. paid = IF IsHbar(i, side) THEN q ELSE in.share + in.treasury
    BY DEF in
  <2> HIDE DEF paid
  <2> QED BY <1>6, <2>1, <2>2 DEF IsHbar
<1>9. /\ Leaves(out) = out.user + out.treasury
      /\ Leaves(out) <= p.qty[o] /\ Leaves(out) <= p.held[o]
  <2>1. Leaves(out) = out.user + out.treasury /\ left = p.qty[o] - Leaves(out) /\ left >= 0
    BY <1>2 DEF Leaves
  <2>2. p.held[o] >= out.user + out.treasury
    BY <1>2
  <2> HIDE DEF left, out, quote, o
  <2> QED BY <1>5, <1>7, <2>1, <2>2
<1>10. spent \in [Users -> Nat]
  <2>1. p.allow[side] \in [Users -> Nat]
    BY <1>1 DEF Pool
  <2>2. ~ IsHbar(i, side) => p.allow[side][to] >= paid
    BY <1>2 DEF CanPay, PayerOf
  <2> HIDE DEF paid
  <2> QED BY <1>8, <2>1, <2>2 DEF Spent
<1> DEFINE qt == [p.qty EXCEPT ![side] = @ + in.share, ![o] = left]
           hd == [p.held EXCEPT ![side] = @ + paid - in.treasury,
                                ![o] = @ - out.user - out.treasury]
           al == [p.allow EXCEPT ![side] = spent]
<1>11. r = [p EXCEPT !.qty = qt, !.held = hd, !.allow = al]
  <2> HIDE DEF spent, left, paid, quote, o
  <2> QED OBVIOUS
<1> HIDE DEF spent, paid, payer, fee, moved, in, out, quote, o, r
<1>12. left = p.qty[o] - Leaves(out) /\ left \in Nat
  BY <1>5, <1>7, <1>9 DEF out
<1> HIDE DEF left
<1>13. /\ qt \in [Sides -> Nat] /\ hd \in [Sides -> Nat] /\ al \in [Sides -> [Users -> Nat]]
       /\ qt[side] = p.qty[side] + in.share /\ qt[o] = p.qty[o] - Leaves(out)
       /\ hd[side] = p.held[side] + (paid - in.treasury)
       /\ hd[o] = p.held[o] - Leaves(out)
  <2>1. /\ p.qty \in [Sides -> Nat] /\ p.held \in [Sides -> Nat]
        /\ p.allow \in [Sides -> [Users -> Nat]]
    BY <1>1 DEF Pool
  <2> QED BY <1>3, <1>5, <1>6, <1>7, <1>8, <1>9, <1>10, <1>12, <2>1
<1>14. /\ r \in Pool /\ r.token = p.token /\ r.fee = p.fee /\ r.lp = p.lp
       /\ r.qty = qt /\ r.held = hd
  <2> HIDE DEF qt, hd, al, p
  <2> QED BY <1>1, <1>11, <1>13 DEF Pool
<1> HIDE DEF qt, hd, al
<1>15. p.token[o] = Hbar => left > 0
  <2>1. SUFFICES ASSUME p.token[o] = Hbar PROVE left > 0
    OBVIOUS
  <2>2. left >= out.user /\ left >= out.treasury
    BY <1>2, <2>1 DEF EnoughHbar, IsHbar, out
  <2>3. p.qty[o] > 0
    <3>1. LpSupply(p) > 0
      BY <1>1, <1>4, SupplyIsNat DEF PoolGood
    <3> QED BY <1>1, <1>3, <2>1, <3>1 DEF PoolGood
  <2>4. out.user \in Nat /\ out.treasury \in Nat /\ p.qty[o] \in Nat
    BY <1>5, <1>7
  <2>5. left = p.qty[o] - (out.user + out.treasury)
    BY <1>9, <1>12
  <2> QED BY <1>12, <2>2, <2>3, <2>4, <2>5
<1>16. Becomes(p, r)
  <2> DEFINE got == paid - in.treasury
             gone == Leaves(out)
  <2>1. /\ got \in Nat /\ gone \in Nat /\ gone <= p.qty[o]
        /\ p.token[side] # Hbar \/ Moderate(p) => got >= in.share
    BY <1>5, <1>6, <1>8, <1>9
  <2>2. p.token[o] = Hbar => p.qty[o] - gone > 0
    BY <1>12, <1>15 DEF out
  <2>3. /\ r.held[side] = p.held[side] + got /\ r.qty[o] = p.qty[o] - gone
        /\ r.held[o] = p.held[o] - gone /\ r.qty[side] = p.qty[side] + in.share
        /\ Moderate(p) =>
             p.qty[side] * p.qty[o] < (p.qty[side] + in.delta) * (p.qty[o] - gone + 1)
    BY <1>5, <1>13, <1>14
  <2> HIDE DEF got, gone
  <2> QED BY <1>1, <1>4, <1>6, <1>14, <2>1, <2>2, <2>3, SwappedBecomes DEF o
<1>17. PoolsBecome /\ Len(pools') = Len(pools)
  BY <1>2, <1>16, OneBecomes
<1>18. WalletOK'
  <2>1. fee \in [Sides -> Nat]
    BY <1>5, <1>6 DEF fee, in, out
  <2>2. moved \in [Sides -> [Users -> Int]]
    BY <1>5, <1>8 DEF moved, Only, out
  <2>3. ASSUME NEW s \in Sides, NEW u \in Users
        PROVE  wallet[pools[i].token[s]][u] >= moved[s][u]
    <3>1. p.token[s] \in Tokens
      BY <1>1 DEF Pool
    <3>2. wallet[p.token[s]][u] \in Nat
      BY <3>1 DEF WalletOK
    <3>3. wallet[p.token[side]][payer] >= paid
      BY <1>2 DEF CanPay
    <3> QED BY <1>5, <1>8, <3>2, <3>3 DEF moved, Only, out
  <2> QED BY <1>2, <2>1, <2>2, <2>3, SettledTyped
<1> QED BY <1>17, <1>18 DEF PoolsChange

-----------------------------------------------------------------------------
(* The factory *)

AllServices == Services \cup {NewService}

(* The factory's list has no pool twice; it knows each pool of it under    *)
(* the pool's own tokens, in the order of their addresses, and fee.        *)
FactoryOK ==
  /\ pairs \in [Keys -> 0 .. Len(pools)]
  /\ allPairs \in Seq(Nat) /\ \A n \in DOMAIN allPairs : allPairs[n] \in Ids
  /\ hederaService \in AllServices
  /\ \A m, n \in DOMAIN allPairs : allPairs[m] = allPairs[n] => m = n
  /\ \A n \in DOMAIN allPairs :
       LET p == pools[allPairs[n]]
       IN  /\ Address[p.token["a"]] < Address[p.token["b"]]
           /\ pairs[<<p.token["a"], p.token["b"], p.fee>>] = allPairs[n]

LEMMA PoolKeyTyped ==
  ASSUME NEW p \in Pool
  PROVE  <<p.token["a"], p.token["b"], p.fee>> \in Keys
<1>1. p.token["a"] \in Tokens /\ p.token["b"] \in Tokens /\ p.fee \in Fees
  BY DEF Pool, Sides
<1> QED BY <1>1 DEF Keys

(* Two tokens have one key, in whatever order they come. *)
LEMMA KeysSorted ==
  ASSUME NEW t \in Tokens, NEW u \in Tokens, t # u, NEW fee \in Fees
  PROVE  /\ KeyOf(t, u, fee) \in Keys /\ KeyOf(t, u, fee) = KeyOf(u, t, fee)
         /\ KeyOf(t, u, fee) = IF Address[t] < Address[u] THEN <<t, u, fee>>
                                                          ELSE <<u, t, fee>>
         /\ Address[t] < Address[u] \/ Address[u] < Address[t]
BY FactoryAssumption DEF KeyOf, SortTokens, Keys

LEMMA NewPoolGood ==
  ASSUME NEW a \in Tokens, NEW b \in Tokens, a # b, NEW fee \in Fees,
         NEW service \in AllServices
  PROVE  /\ PoolGood(NewPool(a, b, fee, service))
         /\ NewPool(a, b, fee, service).token["a"] = a
         /\ NewPool(a, b, fee, service).token["b"] = b
         /\ NewPool(a, b, fee, service).fee = fee
<1> DEFINE r == NewPool(a, b, fee, service)
<1>1. r \in Pool
  BY DEF NewPool, Pool, AllServices, Sides
<1>2. /\ r.token["a"] = a /\ r.token["b"] = b /\ r.fee = fee
      /\ \A s \in Sides : r.qty[s] = 0 /\ r.held[s] = 0
      /\ \A u \in Users : r.lp[u] = 0
  BY DEF NewPool, Sides
<1> HIDE DEF r
<1>3. LpSupply(r) = 0
  BY <1>2, TotalZero DEF LpSupply
<1> QED BY <1>1, <1>2, <1>3 DEF PoolGood, r

LEMMA AppendBecomes ==
  ASSUME PoolsGood, NEW r, PoolGood(r), pools' = Append(pools, r)
  PROVE  /\ PoolsBecome /\ Len(pools') = Len(pools) + 1
         /\ pools'[Len(pools) + 1] = r /\ \A i \in Ids : pools'[i] = pools[i]
<1>1. pools \in Seq(Pool) /\ \A j \in Ids : PoolGood(pools[j]) /\ pools[j] \in Pool
  BY DEF PoolsGood, PoolGood
<1>2. r \in Pool
  BY DEF PoolGood
<1>3. /\ pools' \in Seq(Pool) /\ Len(pools') = Len(pools) + 1
      /\ pools'[Len(pools) + 1] = r /\ \A i \in Ids : pools'[i] = pools[i]
  BY <1>1, <1>2, AppendProperties DEF Ids
<1>4. \A j \in Ids : Becomes(pools[j], pools'[j])
  BY <1>1, <1>3, SameBooks
<1>5. \A j \in DOMAIN pools' : PoolGood(pools'[j])
  <2>1. Len(pools) \in Nat /\ Ids = 1 .. Len(pools) /\ DOMAIN pools' = 1 .. (Len(pools) + 1)
    BY <1>1, <1>3 DEF Ids
  <2> QED BY <1>1, <1>3, <2>1
<1> QED BY <1>1, <1>3, <1>4, <1>5 DEF PoolsBecome, PoolsGood, Ids

(* What the factory knows stays true while pools change and others are     *)
(* added outside it.                                                       *)
LEMMA FactoryKept ==
  ASSUME PoolsGood, FactoryOK, PoolsBecome, pairs' = pairs, allPairs' = allPairs,
         hederaService' \in AllServices
  PROVE  FactoryOK'
<1>1. Len(pools) \in Nat /\ Len(pools') \in Nat /\ Len(pools') >= Len(pools)
  BY DEF PoolsGood, PoolsBecome
<1>2. Ids = 1 .. Len(pools) /\ Ids' = 1 .. Len(pools')
  BY DEF Ids, PoolsGood, PoolsBecome
<1>3. pairs' \in [Keys -> 0 .. Len(pools')]
  BY <1>1 DEF FactoryOK
<1>4. \A n \in DOMAIN allPairs : allPairs[n] \in Ids /\ allPairs[n] \in Ids'
  BY <1>1, <1>2 DEF FactoryOK
<1>5. ASSUME NEW n \in DOMAIN allPairs
      PROVE  LET p == pools'[allPairs[n]]
             IN  /\ Address[p.token["a"]] < Address[p.token["b"]]
                 /\ pairs[<<p.token["a"], p.token["b"], p.fee>>] = allPairs[n]
  <2>1. /\ pools'[allPairs[n]].token = pools[allPairs[n]].token
        /\ pools'[allPairs[n]].fee = pools[allPairs[n]].fee
    BY <1>4 DEF PoolsBecome, Becomes
  <2> QED BY <2>1 DEF FactoryOK
<1> QED BY <1>3, <1>4, <1>5 DEF FactoryOK

(* createPair *)
LEMMA CreatePairBecomes ==
  ASSUME PoolsGood, FactoryOK, NEW t \in Tokens, NEW u \in Tokens, NEW fee \in Fees,
         CreatePair(t, u, fee)
  PROVE  /\ PoolsBecome /\ FactoryOK' /\ wallet' = wallet
         /\ pairs'[KeyOf(t, u, fee)] \in 0 .. Len(pools')
<1> DEFINE key == KeyOf(t, u, fee)
<1>1. t # u /\ wallet' = wallet /\ hederaService' = hederaService
  BY DEF CreatePair
<1>2. key \in Keys /\ hederaService \in AllServices
  BY <1>1, KeysSorted DEF FactoryOK
<1>3. CASE UNCHANGED <<pools, pairs, allPairs>>
  <2>1. PoolsBecome
    BY <1>3, NoneBecomes
  <2>2. FactoryOK'
    BY <1>1, <1>2, <1>3, <2>1, FactoryKept
  <2> QED BY <1>1, <1>2, <2>1, <2>2 DEF FactoryOK
<1>4. CASE /\ pairs[key] = 0
           /\ pools' = Append(pools, NewPool(key[1], key[2], fee, hederaService))
           /\ pairs' = [pairs EXCEPT ![key] = Len(pools) + 1]
           /\ allPairs' = Append(allPairs, Len(pools) + 1)
  <2> DEFINE r == NewPool(key[1], key[2], fee, hederaService)
             new == Len(pools) + 1
  <2>1. /\ key = <<key[1], key[2], fee>> /\ key[1] \in Tokens /\ key[2] \in Tokens
        /\ key[1] # key[2] /\ Address[key[1]] < Address[key[2]]
    BY <1>1, KeysSorted
  <2> HIDE DEF key
  <2>2. PoolGood(r) /\ r.token["a"] = key[1] /\ r.token["b"] = key[2] /\ r.fee = fee
    BY <1>2, <2>1, NewPoolGood
  <2> HIDE DEF r
  <2>3. /\ PoolsBecome /\ Len(pools') = new /\ pools'[new] = r
        /\ \A i \in Ids : pools'[i] = pools[i]
    BY <1>4, <2>2, AppendBecomes DEF r
  <2>4. Len(pools) \in Nat /\ Ids = 1 .. Len(pools) /\ Ids' = 1 .. new
    BY <2>3 DEF PoolsGood, PoolsBecome, Ids
  <2>5. pairs' \in [Keys -> 0 .. new] /\ pairs'[key] = new
        /\ \A k \in Keys \ {key} : pairs'[k] = pairs[k]
    BY <1>2, <1>4, <2>4 DEF FactoryOK
  <2> DEFINE N == Len(allPairs)
  <2>6. /\ N \in Nat /\ DOMAIN allPairs = 1 .. N
        /\ allPairs' \in Seq(Nat) /\ DOMAIN allPairs' = 1 .. (N + 1)
        /\ allPairs'[N + 1] = new /\ \A n \in 1 .. N : allPairs'[n] = allPairs[n]
    BY <1>4, <2>4, AppendProperties DEF FactoryOK
  <2>7. ASSUME NEW n \in DOMAIN allPairs'
        PROVE  /\ allPairs'[n] \in 1 .. new
               /\ n # N + 1 => n \in DOMAIN allPairs /\ allPairs'[n] = allPairs[n] /\ allPairs[n] \in Ids
               /\ n = N + 1 => allPairs'[n] = new
    BY <2>4, <2>6, <2>7 DEF FactoryOK
  <2>8. ASSUME NEW m \in DOMAIN allPairs', NEW n \in DOMAIN allPairs', allPairs'[m] = allPairs'[n]
        PROVE  m = n
    <3>1. new \notin Ids
      BY <2>4
    <3>2. m = N + 1 <=> n = N + 1
      BY <2>7, <2>8, <3>1
    <3> QED BY <2>7, <2>8, <3>2 DEF FactoryOK
  <2>9. ASSUME NEW n \in DOMAIN allPairs'
        PROVE  LET p == pools'[allPairs'[n]]
               IN  /\ Address[p.token["a"]] < Address[p.token["b"]]
                   /\ pairs'[<<p.token["a"], p.token["b"], p.fee>>] = allPairs'[n]
    <3>1. CASE n = N + 1
      BY <2>1, <2>2, <2>3, <2>5, <2>7, <3>1
    <3>2. CASE n # N + 1
      <4> DEFINE p == pools[allPairs[n]]
                 k == <<p.token["a"], p.token["b"], p.fee>>
      <4>1. n \in DOMAIN allPairs /\ allPairs'[n] = allPairs[n] /\ allPairs[n] \in Ids
        BY <2>7, <3>2
      <4>2. pools'[allPairs'[n]] = p
        BY <2>3, <4>1
      <4>3. Address[p.token["a"]] < Address[p.token["b"]] /\ pairs[k] = allPairs[n]
        BY <4>1 DEF FactoryOK
      <4>4. k \in Keys
        <5>1. p \in Pool
          BY <4>1 DEF PoolsGood, PoolGood
        <5> HIDE DEF p
        <5> QED BY <5>1, PoolKeyTyped
      <4>5. k # key
        <5>1. allPairs[n] # 0
          BY <2>4, <4>1
        <5> HIDE DEF k, p
        <5>2. pairs[k] = allPairs[n]
          BY <4>3
        <5> QED BY <1>4, <5>1, <5>2
      <4> QED BY <2>5, <4>1, <4>2, <4>3, <4>4, <4>5
    <3> QED BY <3>1, <3>2
  <2>10. FactoryOK'
    BY <1>1, <1>2, <2>3, <2>4, <2>5, <2>6, <2>7, <2>8, <2>9 DEF FactoryOK
  <2> QED BY <1>1, <2>3, <2>4, <2>5, <2>10 DEF key
<1> QED BY <1>3, <1>4 DEF CreatePair, GetPair

(* upgradeHederaService, of the factory or of one pair *)
LEMMA ServiceBooks ==
  ASSUME NEW p, PoolGood(p), NEW service \in AllServices
  PROVE  Becomes(p, WithService(p, service))
<1>1. p \in Pool
  BY DEF PoolGood
<1> DEFINE r == WithService(p, service)
<1>2. /\ r \in Pool /\ r.token = p.token /\ r.fee = p.fee
      /\ r.qty = p.qty /\ r.held = p.held /\ r.lp = p.lp
  BY <1>1 DEF WithService, Pool, AllServices
<1> HIDE DEF r
<1> QED BY <1>2, SameBooks DEF r

LEMMA UpgradeBecomes ==
  ASSUME PoolsGood, FactoryOK, NEW service \in AllServices, UpgradeHederaService(service)
  PROVE  PoolsBecome /\ FactoryOK' /\ wallet' = wallet /\ Len(pools') = Len(pools)
<1> DEFINE new(i) == IF i \in Upgraded THEN WithService(pools[i], service) ELSE pools[i]
<1>1. pools' = [i \in Ids |-> new(i)] /\ hederaService' = service
      /\ UNCHANGED <<wallet, pairs, allPairs>>
  BY DEF UpgradeHederaService
<1>2. \A i \in Ids : PoolGood(pools[i]) /\ pools[i] \in Pool
  BY DEF PoolsGood, PoolGood
<1>3. ASSUME NEW i \in Ids PROVE Becomes(pools[i], new(i))
  BY <1>2, ServiceBooks, SameBooks
<1> HIDE DEF new
<1>4. Len(pools) \in Nat /\ Ids = 1 .. Len(pools)
  BY DEF PoolsGood, Ids
<1>5. \A i \in Ids : new(i) \in Pool /\ PoolGood(new(i))
  BY <1>3 DEF Becomes, PoolGood
<1>6. pools' \in Seq(Pool) /\ Len(pools') = Len(pools) /\ DOMAIN pools' = Ids
  BY <1>1, <1>4, <1>5
<1>7. PoolsBecome
  BY <1>1, <1>3, <1>4, <1>5, <1>6 DEF PoolsBecome, PoolsGood, Ids
<1>8. FactoryOK'
  BY <1>1, <1>7, FactoryKept
<1> QED BY <1>1, <1>6, <1>7, <1>8

-----------------------------------------------------------------------------
(* The place of a client in its program *)

Acts ==
  {"initialize", "create", "again", "identical", "tooMuch", "associate", "collect",
   "allow", "allowSwap", "allowLp", "read", "add", "check", "remove", "swap",
   "present", "spotPrice", "outGivenIn", "inGivenOut", "slippageOut", "slippageIn",
   "recommend", "upgradePair", "upgrade"}

StepType == [do : Acts, token : Tokens, amount : Nat]

Scenario == {steps \in Seq(StepType) : Len(steps) > 0}

LEMMA StepTyped ==
  ASSUME NEW do \in Acts, NEW t \in Tokens, NEW n \in Nat
  PROVE  Step(do, t, n) \in StepType
BY DEF Step, StepType

LEMMA OneTyped ==
  ASSUME NEW v \in StepType
  PROVE  <<v>> \in Scenario
<1>1. <<v>> \in Seq(StepType) /\ Len(<<v>>) = 1
  OBVIOUS
<1> QED BY <1>1 DEF Scenario

LEMMA TwoTyped ==
  ASSUME NEW v \in StepType, NEW w \in StepType
  PROVE  <<v, w>> \in Scenario
<1>1. <<v, w>> \in Seq(StepType) /\ Len(<<v, w>>) = 2
  OBVIOUS
<1> QED BY <1>1 DEF Scenario

LEMMA ThreeTyped ==
  ASSUME NEW v \in StepType, NEW w \in StepType, NEW x \in StepType
  PROVE  <<v, w, x>> \in Scenario
<1>1. <<v, w, x>> \in Seq(StepType) /\ Len(<<v, w, x>>) = 3
  OBVIOUS
<1> QED BY <1>1 DEF Scenario

LEMMA FiveTyped ==
  ASSUME NEW v \in StepType, NEW w \in StepType, NEW x \in StepType, NEW y \in StepType, NEW z \in StepType
  PROVE  <<v, w, x, y, z>> \in Scenario
<1>1. <<v, w, x, y, z>> \in Seq(StepType) /\ Len(<<v, w, x, y, z>>) = 5
  OBVIOUS
<1> QED BY <1>1 DEF Scenario

LEMMA Amounts ==
  /\ FirstQty \in Nat /\ SecondQty \in Nat /\ LpQty \in Nat
  /\ SwapQty \in Nat /\ MaxAllowance \in Nat /\ 0 \in Nat
BY PoolClientAssumption

LEMMA ScenariosJoin ==
  ASSUME NEW s \in Scenario, NEW r \in Scenario
  PROVE  s \o r \in Scenario
BY ConcatProperties DEF Scenario

(* The steps every program is put together from. *)
LEMMA StepsTyped ==
  ASSUME NEW t \in Tokens, NEW u \in Tokens
  PROVE  /\ AllowSteps(t, u) \in Scenario /\ AssociateStep(t) \in Scenario
         /\ AddStep(t) \in Scenario /\ RemoveLiquiditySteps(t) \in Scenario
         /\ SwapSteps(t) \in Scenario /\ QuoteSteps(t) \in Scenario
         /\ ReadAddCheck(t) \in Scenario /\ Present(t) \in Scenario
         /\ TooMuch(t) \in Scenario /\ ResetSteps(t, u) \in Scenario
         /\ PairAddLiquidity(t, u) \in Scenario
         /\ FactoryAddLiquidity(t, u) \in Scenario
<1>1. /\ Step("allow", t, FirstQty) \in StepType /\ Step("allow", u, SecondQty) \in StepType
      /\ Step("associate", t, 0) \in StepType /\ Step("add", t, 0) \in StepType
      /\ Step("allowLp", t, LpQty) \in StepType /\ Step("remove", t, LpQty) \in StepType
      /\ Step("allowSwap", t, SwapQty) \in StepType /\ Step("swap", t, SwapQty) \in StepType
  BY StepTyped, Amounts DEF Acts
<1>2. /\ Step("spotPrice", t, 0) \in StepType /\ Step("outGivenIn", t, SwapQty) \in StepType
      /\ Step("inGivenOut", t, SwapQty) \in StepType
      /\ Step("slippageOut", t, SwapQty) \in StepType
      /\ Step("slippageIn", t, SwapQty) \in StepType
      /\ Step("present", t, 0) \in StepType /\ Step("tooMuch", t, 0) \in StepType
  BY StepTyped, Amounts DEF Acts
<1>3. /\ Step("read", t, 0) \in StepType /\ Step("check", t, 0) \in StepType
      /\ Step("allow", t, 0) \in StepType /\ Step("allow", u, 0) \in StepType
      /\ Step("allowLp", t, 0) \in StepType
  BY StepTyped, Amounts DEF Acts
<1>4. /\ AllowSteps(t, u) \in Scenario /\ AssociateStep(t) \in Scenario
      /\ AddStep(t) \in Scenario
  BY <1>1, OneTyped, TwoTyped DEF AllowSteps, AssociateStep, AddStep
<1>5. RemoveLiquiditySteps(t) \in Scenario /\ SwapSteps(t) \in Scenario
  BY <1>1, TwoTyped DEF RemoveLiquiditySteps, SwapSteps
<1>6. QuoteSteps(t) \in Scenario
  BY <1>2, FiveTyped DEF QuoteSteps
<1>7. Present(t) \in Scenario /\ TooMuch(t) \in Scenario
  BY <1>2, OneTyped DEF Present, TooMuch
<1>8. ReadAddCheck(t) \in Scenario
  BY <1>1, <1>3, ThreeTyped DEF ReadAddCheck
<1>9. ResetSteps(t, u) \in Scenario
  BY <1>3, ThreeTyped DEF ResetSteps
<1>10. PairAddLiquidity(t, u) \in Scenario /\ FactoryAddLiquidity(t, u) \in Scenario
  BY <1>4, ScenariosJoin DEF PairAddLiquidity, FactoryAddLiquidity
<1> QED BY <1>4, <1>5, <1>6, <1>7, <1>8, <1>9, <1>10

(* The programs *)

LEMMA ListsJoin ==
  ASSUME NEW P \in Seq(Scenario), NEW Q \in Seq(Scenario)
  PROVE  P \o Q \in Seq(Scenario)
BY ConcatProperties

LEMMA ListOfOne ==
  ASSUME NEW s \in Scenario
  PROVE  <<s>> \in Seq(Scenario)
OBVIOUS

LEMMA ListOfTwo ==
  ASSUME NEW r \in Scenario, NEW s \in Scenario
  PROVE  <<r, s>> \in Seq(Scenario)
OBVIOUS

LEMMA ListOfFour ==
  ASSUME NEW r \in Scenario, NEW s \in Scenario, NEW v \in Scenario, NEW w \in Scenario
  PROVE  <<r, s, v, w>> \in Seq(Scenario)
OBVIOUS

LEMMA ListOfSeven ==
  ASSUME NEW r \in Scenario, NEW s \in Scenario, NEW v \in Scenario, NEW w \in Scenario,
         NEW x \in Scenario, NEW y \in Scenario, NEW z \in Scenario
  PROVE  <<r, s, v, w, x, y, z>> \in Seq(Scenario)
OBVIOUS

LEMMA QuoteScenariosTyped ==
  ASSUME NEW t \in Tokens
  PROVE  QuoteScenarios(t) \in Seq(Scenario)
<1> DEFINE Q == QuoteSteps(t)
           s(n) == Present(t) \o <<Q[n]>>
<1>1. Q \in Seq(StepType) /\ Present(t) \in Scenario
  BY StepsTyped DEF Scenario
<1>2. QuoteScenarios(t) = [n \in DOMAIN Q |-> s(n)]
  BY DEF QuoteScenarios
<1> HIDE DEF Q
<1>3. ASSUME NEW n \in DOMAIN Q PROVE s(n) \in Scenario
  <2>1. Q[n] \in StepType
    BY <1>1
  <2> QED BY <1>1, <2>1, OneTyped, ScenariosJoin
<1>4. Len(Q) \in Nat /\ DOMAIN Q = 1 .. Len(Q)
  BY <1>1
<1> HIDE DEF s
<1> QED BY <1>2, <1>3, <1>4

LEMMA ScriptsTyped ==
  ASSUME NEW t \in Tokens, NEW u \in Tokens
  PROVE  PairScript(t, u) \in Seq(Scenario) /\ FactoryScript(t, u) \in Seq(Scenario)
<1>1. /\ RemoveLiquiditySteps(t) \in Scenario /\ SwapSteps(t) \in Scenario
      /\ QuoteSteps(t) \in Scenario /\ PairAddLiquidity(t, u) \in Scenario
      /\ FactoryAddLiquidity(t, u) \in Scenario
  BY StepsTyped
<1>2. SwapSteps(u) \in Scenario
  BY StepsTyped
<1>3. /\ <<Step("initialize", t, 0)>> \in Scenario
      /\ <<Step("upgradePair", t, 0)>> \in Scenario
      /\ <<Step("create", t, 0)>> \in Scenario
      /\ <<Step("upgrade", t, 0), Step("recommend", t, SwapQty)>> \in Scenario
  BY StepTyped, Amounts, OneTyped, TwoTyped DEF Acts
<1>4. PairScript(t, u) \in Seq(Scenario)
  BY <1>1, <1>3, ScenariosJoin, ListOfOne DEF PairScript
<1>5. FactoryScript(t, u) \in Seq(Scenario)
  BY <1>1, <1>2, <1>3, ScenariosJoin, ListOfOne DEF FactoryScript
<1> QED BY <1>4, <1>5

LEMMA PairScenariosTyped ==
  ASSUME NEW t \in Tokens, NEW u \in Tokens
  PROVE  PairScenarios(t, u) \in Seq(Scenario)
<1>1. /\ AllowSteps(t, u) \in Scenario /\ AssociateStep(t) \in Scenario
      /\ RemoveLiquiditySteps(t) \in Scenario /\ SwapSteps(t) \in Scenario
      /\ ReadAddCheck(t) \in Scenario /\ Present(t) \in Scenario
      /\ TooMuch(t) \in Scenario /\ ResetSteps(t, u) \in Scenario
      /\ SwapSteps(u) \in Scenario
  BY StepsTyped
<1>2. /\ <<Step("allow", t, MaxAllowance)>> \in Scenario
      /\ <<Step("allowLp", t, MaxAllowance)>> \in Scenario
      /\ <<Step("check", t, 0)>> \in Scenario
      /\ <<Step("allow", t, MaxAllowance), Step("allow", u, MaxAllowance)>> \in Scenario
  BY StepTyped, Amounts, OneTyped, TwoTyped DEF Acts
<1>3. <<Step("initialize", t, 0), Step("collect", t, 0), Step("collect", u, 0)>> \in Scenario
  BY StepTyped, Amounts, ThreeTyped DEF Acts
<1>4. PairOverflowScenarios(t, u) \in Seq(Scenario)
  BY <1>1, <1>2, ScenariosJoin, ListOfTwo DEF PairOverflowScenarios
<1>5. QuoteScenarios(t) \in Seq(Scenario)
  BY QuoteScenariosTyped
<1>6. <<<<Step("initialize", t, 0), Step("collect", t, 0), Step("collect", u, 0)>>
        \o AssociateStep(t) \o AllowSteps(t, u) \o ReadAddCheck(t)>> \in Seq(Scenario)
  BY <1>1, <1>3, ScenariosJoin, ListOfOne
<1>7. <<RemoveLiquiditySteps(t), <<Step("allow", t, MaxAllowance)>> \o TooMuch(t),
        Present(t) \o SwapSteps(t), Present(t) \o SwapSteps(u)>> \in Seq(Scenario)
  BY <1>1, <1>2, ScenariosJoin, ListOfFour
<1>8. <<ResetSteps(t, u)>> \in Seq(Scenario)
  BY <1>1, ListOfOne
<1> QED BY <1>4, <1>5, <1>6, <1>7, <1>8, ListsJoin DEF PairScenarios

LEMMA FactoryScenariosTyped ==
  ASSUME NEW t \in Tokens, NEW u \in Tokens
  PROVE  FactoryScenarios(t, u) \in Seq(Scenario)
<1>1. /\ AllowSteps(t, u) \in Scenario /\ AssociateStep(t) \in Scenario
      /\ RemoveLiquiditySteps(t) \in Scenario /\ SwapSteps(t) \in Scenario
      /\ ReadAddCheck(t) \in Scenario /\ Present(t) \in Scenario
      /\ ResetSteps(t, u) \in Scenario /\ SwapSteps(u) \in Scenario
  BY StepsTyped
<1>2. /\ <<Step("create", t, 0)>> \in Scenario /\ <<Step("again", t, 0)>> \in Scenario
      /\ <<Step("identical", t, 0)>> \in Scenario /\ <<Step("collect", t, 0)>> \in Scenario
  BY StepTyped, Amounts, OneTyped DEF Acts
<1>3. /\ AssociateStep(t) \o <<Step("collect", t, 0)>> \o AllowSteps(t, u)
           \o ReadAddCheck(t) \in Scenario
      /\ Present(t) \o SwapSteps(t) \in Scenario
      /\ Present(t) \o SwapSteps(u) \in Scenario
  BY <1>1, <1>2, ScenariosJoin
<1>4. <<<<Step("create", t, 0)>>, <<Step("again", t, 0)>>, <<Step("identical", t, 0)>>,
        AssociateStep(t) \o <<Step("collect", t, 0)>> \o AllowSteps(t, u)
          \o ReadAddCheck(t),
        RemoveLiquiditySteps(t), Present(t) \o SwapSteps(t),
        Present(t) \o SwapSteps(u)>> \in Seq(Scenario)
  BY <1>1, <1>2, <1>3, ListOfSeven, Zenon
<1>5. QuoteScenarios(t) \in Seq(Scenario) /\ <<ResetSteps(t, u)>> \in Seq(Scenario)
  BY <1>1, QuoteScenariosTyped, ListOfOne
<1> QED BY <1>4, <1>5, ListsJoin DEF FactoryScenarios

LEMMA ProgramTyped ==
  ASSUME world \in Worlds
  PROVE  Program \in Seq(Scenario)
<1> DEFINE t == world.tokens[1]
           u == world.tokens[2]
<1>1. t \in Tokens /\ u \in Tokens /\ world.client \in Clients
  BY PoolClientAssumption
<1> HIDE DEF t, u
<1>2. /\ PairScript(t, u) \in Seq(Scenario) /\ FactoryScript(t, u) \in Seq(Scenario)
      /\ PairScenarios(t, u) \in Seq(Scenario) /\ FactoryScenarios(t, u) \in Seq(Scenario)
  BY <1>1, ScriptsTyped, PairScenariosTyped, FactoryScenariosTyped
<1> QED BY <1>1, <1>2 DEF Program, Clients, t, u

(* The client is at a step of a scenario, or past the last. *)
PlaceOK ==
  /\ world \in Worlds /\ line \in Nat \ {0}
  /\ Running => at \in DOMAIN Program[line]

LEMMA ThisTyped ==
  ASSUME PlaceOK, Running
  PROVE  /\ Program[line] \in Scenario /\ This \in StepType
         /\ This.token \in Tokens /\ This.amount \in Nat
<1>1. Program \in Seq(Scenario) /\ line \in DOMAIN Program
  BY ProgramTyped DEF PlaceOK, Running
<1>2. Program[line] \in Scenario
  BY <1>1
<1>3. This \in StepType
  BY <1>2 DEF PlaceOK, This, Scenario
<1> QED BY <1>2, <1>3 DEF StepType

LEMMA WorldTyped ==
  ASSUME PlaceOK
  PROVE  /\ world.tokens[1] \in Tokens /\ world.tokens[2] \in Tokens
         /\ world.tokens[1] # world.tokens[2] /\ world.fee \in Fees
         /\ \A t : Second(t) \in Tokens
         /\ SwapCaller \in Users /\ SwapAccount \in Users
BY PoolClientAssumption DEF PlaceOK, Second, SwapCaller, SwapAccount

LEMMA ScenarioStarts ==
  ASSUME world \in Worlds, world' = world, line' \in Nat \ {0}, at' = 1
  PROVE  PlaceOK'
<1>1. Program' = Program /\ Program \in Seq(Scenario)
  BY ProgramTyped DEF Program
<1> HIDE DEF Program
<1>2. Running' => Program[line'] \in Scenario
  BY <1>1 DEF Running
<1> QED BY <1>1, <1>2 DEF PlaceOK, Running, Scenario

LEMMA NextStepKeepsPlace ==
  ASSUME PlaceOK, Running, NextStep
  PROVE  PlaceOK'
<1>1. CASE at < Len(Program[line])
  <2>1. at' = at + 1 /\ line' = line /\ world' = world
    BY <1>1 DEF NextStep
  <2>2. Program' = Program
    BY <2>1 DEF Program
  <2> HIDE DEF Program
  <2>3. Program[line] \in Seq(StepType)
    BY ThisTyped DEF Scenario
  <2>4. at + 1 \in DOMAIN Program[line]
    BY <1>1, <2>3 DEF PlaceOK
  <2> QED BY <2>1, <2>2, <2>4 DEF PlaceOK, Running
<1>2. CASE ~ (at < Len(Program[line]))
  <2>1. at' = 1 /\ line' = line + 1 /\ world' = world
    BY <1>2 DEF NextStep
  <2> QED BY <2>1, ScenarioStarts DEF PlaceOK
<1> QED BY <1>1, <1>2

LEMMA PlaceStays ==
  ASSUME PlaceOK, UNCHANGED placeVars
  PROVE  PlaceOK'
<1>1. world' = world /\ line' = line /\ at' = at
  BY DEF placeVars
<1>2. Program' = Program
  BY <1>1 DEF Program
<1> HIDE DEF Program
<1> QED BY <1>1, <1>2 DEF PlaceOK, Running

-----------------------------------------------------------------------------
(* The invariant, which every step keeps while the pools become what they  *)
(* may become.                                                             *)

Inv ==
  PoolsGood /\ WalletOK /\ FactoryOK /\ PlaceOK /\ current \in 0 .. Len(pools)

Kept == PoolsBecome /\ Inv'

LEMMA InitInv ==
  ASSUME Init
  PROVE  Inv
<1>1. pools = <<>> /\ Len(pools) = 0 /\ Ids = {}
  BY DEF Init, PairInit, Ids
<1>2. PoolsGood
  BY <1>1 DEF PoolsGood
<1>3. WalletOK
  BY PairAssumption DEF Init, PairInit, WalletOK
<1>4. FactoryOK
  BY <1>1 DEF Init, FactoryInit, FactoryOK, AllServices
<1>5. PlaceOK
  <2>1. world \in Worlds /\ line = 1 /\ at = 1 /\ Program \in Seq(Scenario)
    BY ProgramTyped DEF Init
  <2>2. Running => Program[line] \in Scenario
    BY <2>1 DEF Running
  <2> QED BY <2>1, <2>2 DEF PlaceOK, Scenario
<1>6. current \in 0 .. Len(pools)
  BY <1>1 DEF Init
<1> QED BY <1>2, <1>3, <1>4, <1>5, <1>6 DEF Inv

LEMMA QuietKept ==
  ASSUME Inv, UNCHANGED <<pools, wallet, factoryVars, current>>, PlaceOK'
  PROVE  Kept
<1>1. PoolsBecome /\ Len(pools') = Len(pools)
  BY NoneBecomes DEF Inv
<1>2. FactoryOK'
  BY <1>1, FactoryKept DEF Inv, factoryVars, FactoryOK
<1> QED BY <1>1, <1>2 DEF Inv, Kept, PoolsBecome, WalletOK

LEMMA PoolsChangeKept ==
  ASSUME Inv, PoolsChange, UNCHANGED <<factoryVars, current>>, PlaceOK'
  PROVE  Kept
<1>1. FactoryOK'
  BY FactoryKept DEF Inv, factoryVars, FactoryOK, PoolsChange
<1> QED BY <1>1 DEF Inv, Kept, PoolsBecome, PoolsChange

(* A transaction of the ledger, or an upgrade, for one pair. *)
LEMMA SameBooksChange ==
  ASSUME Inv, NEW i \in Ids, NEW r \in Pool,
         r.token = pools[i].token, r.fee = pools[i].fee, r.qty = pools[i].qty,
         r.held = pools[i].held, r.lp = pools[i].lp,
         pools' = [pools EXCEPT ![i] = r], wallet' = wallet
  PROVE  PoolsChange /\ PoolsStand
<1>1. PoolsGood /\ PoolGood(pools[i])
  BY DEF Inv, PoolsGood
<1>2. Becomes(pools[i], r)
  BY <1>1, SameBooks
<1>3. PoolsBecome /\ Len(pools') = Len(pools)
  BY <1>1, <1>2, OneBecomes
<1>4. PoolsStand
  BY <1>1 DEF PoolsGood, Ids, PoolsStand
<1> QED BY <1>3, <1>4 DEF Inv, WalletOK, PoolsChange

LEMMA AllowChanges ==
  ASSUME Inv, NEW i \in Ids, NEW side \in Sides, NEW user \in Users, NEW n \in Nat,
         Allow(i, side, user, n)
  PROVE  PoolsChange /\ PoolsStand
<1> DEFINE p == pools[i]
           al == [p.allow EXCEPT ![side] = [p.allow[side] EXCEPT ![user] = n]]
           r == [p EXCEPT !.allow = al]
<1>1. p \in Pool
  BY DEF Inv, PoolsGood, PoolGood
<1>2. pools' = [pools EXCEPT ![i] = r] /\ wallet' = wallet
  BY DEF Allow
<1>3. al \in [Sides -> [Users -> Nat]]
  BY <1>1 DEF Pool
<1> HIDE DEF al
<1>4. /\ r \in Pool /\ r.token = p.token /\ r.fee = p.fee /\ r.qty = p.qty
      /\ r.held = p.held /\ r.lp = p.lp
  <2> HIDE DEF p
  <2> QED BY <1>1, <1>3 DEF Pool
<1> HIDE DEF r
<1> QED BY <1>2, <1>4, SameBooksChange

LEMMA AllowLpChanges ==
  ASSUME Inv, NEW i \in Ids, NEW user \in Users, NEW n \in Nat, AllowLp(i, user, n)
  PROVE  PoolsChange /\ PoolsStand
<1> DEFINE p == pools[i]
           al == [p.lpAllow EXCEPT ![user] = n]
           r == [p EXCEPT !.lpAllow = al]
<1>1. p \in Pool
  BY DEF Inv, PoolsGood, PoolGood
<1>2. pools' = [pools EXCEPT ![i] = r] /\ wallet' = wallet
  BY DEF AllowLp
<1>3. al \in [Users -> Nat]
  BY <1>1 DEF Pool
<1> HIDE DEF al
<1>4. /\ r \in Pool /\ r.token = p.token /\ r.fee = p.fee /\ r.qty = p.qty
      /\ r.held = p.held /\ r.lp = p.lp
  <2> HIDE DEF p
  <2> QED BY <1>1, <1>3 DEF Pool
<1> HIDE DEF r
<1> QED BY <1>2, <1>4, SameBooksChange

LEMMA AssociateLpChanges ==
  ASSUME Inv, NEW i \in Ids, NEW user \in Users, AssociateLp(i, user)
  PROVE  PoolsChange /\ PoolsStand
<1> DEFINE p == pools[i]
           us == p.lpUsers \cup {user}
           r == [p EXCEPT !.lpUsers = us]
<1>1. p \in Pool
  BY DEF Inv, PoolsGood, PoolGood
<1>2. pools' = [pools EXCEPT ![i] = r] /\ wallet' = wallet
  BY DEF AssociateLp
<1>3. us \in SUBSET Users
  BY <1>1 DEF Pool
<1> HIDE DEF us
<1>4. /\ r \in Pool /\ r.token = p.token /\ r.fee = p.fee /\ r.qty = p.qty
      /\ r.held = p.held /\ r.lp = p.lp
  <2> HIDE DEF p
  <2> QED BY <1>1, <1>3 DEF Pool
<1> HIDE DEF r
<1> QED BY <1>2, <1>4, SameBooksChange

LEMMA OtherPreparesChanges ==
  ASSUME Inv, NEW i \in Ids, NEW u \in Users, OtherPrepares(i, u)
  PROVE  PoolsChange /\ PoolsStand
<1> DEFINE p == pools[i]
           al == [s \in Sides |-> [p.allow[s] EXCEPT ![u] = InitialWallet]]
           lpal == [p.lpAllow EXCEPT ![u] = InitialWallet]
           us == p.lpUsers \cup {u}
           r == [p EXCEPT !.allow = al, !.lpAllow = lpal, !.lpUsers = us]
<1>1. p \in Pool
  BY DEF Inv, PoolsGood, PoolGood
<1>2. pools' = [pools EXCEPT ![i] = r] /\ wallet' = wallet
  BY DEF OtherPrepares
<1>3. /\ al \in [Sides -> [Users -> Nat]] /\ lpal \in [Users -> Nat]
      /\ us \in SUBSET Users
  BY <1>1, PairAssumption DEF Pool
<1> HIDE DEF al, lpal, us
<1>4. /\ r \in Pool /\ r.token = p.token /\ r.fee = p.fee /\ r.qty = p.qty
      /\ r.held = p.held /\ r.lp = p.lp
  <2> HIDE DEF p
  <2> QED BY <1>1, <1>3 DEF Pool
<1> HIDE DEF r
<1> QED BY <1>2, <1>4, SameBooksChange

LEMMA UpgradePairChanges ==
  ASSUME Inv, NEW i \in Ids, wallet' = wallet,
         pools' = [pools EXCEPT ![i] = WithService(@, NewService)]
  PROVE  PoolsChange /\ PoolsStand
<1> DEFINE r == WithService(pools[i], NewService)
<1>1. PoolsGood /\ PoolGood(pools[i]) /\ pools' = [pools EXCEPT ![i] = r]
  BY DEF Inv, PoolsGood
<1>2. Becomes(pools[i], r)
  BY <1>1, ServiceBooks DEF AllServices
<1> HIDE DEF r
<1>3. PoolsBecome /\ Len(pools') = Len(pools)
  BY <1>1, <1>2, OneBecomes
<1>4. PoolsStand
  <2>1. r.token = pools[i].token /\ r.qty = pools[i].qty
    BY <1>1 DEF r, WithService, PoolGood, Pool
  <2> QED BY <1>1, <2>1 DEF PoolsGood, Ids, PoolsStand
<1> QED BY <1>3, <1>4 DEF Inv, WalletOK, PoolsChange

(* The client's pair is one of the pools, when it has one. *)
LEMMA CurrentId ==
  ASSUME Inv, current # 0
  PROVE  current \in Ids
BY DEF Inv, PoolsGood, Ids

LEMMA InitializePairKept ==
  ASSUME Inv, InitializePair
  PROVE  Kept
<1>1. PlaceOK'
  BY NextStepKeepsPlace DEF Inv, InitializePair, Now
<1>2. wallet' = wallet /\ UNCHANGED factoryVars
  BY DEF InitializePair
<1>3. CASE UNCHANGED <<pools, current>>
  BY <1>1, <1>2, <1>3, QuietKept
<1>4. CASE /\ pools' = Append(pools, NewPool(world.tokens[1], world.tokens[2],
                                             world.fee, NewService))
           /\ current' = Len(pools) + 1
  <2> DEFINE r == NewPool(world.tokens[1], world.tokens[2], world.fee, NewService)
  <2>1. PoolGood(r)
    BY WorldTyped, NewPoolGood DEF Inv, AllServices
  <2> HIDE DEF r
  <2>2. PoolsBecome /\ Len(pools') = Len(pools) + 1
    BY <1>4, <2>1, AppendBecomes DEF Inv, r
  <2>3. FactoryOK'
    BY <1>2, <2>2, FactoryKept DEF Inv, factoryVars, FactoryOK
  <2>4. Len(pools) \in Nat
    BY DEF Inv, PoolsGood
  <2>5. current' \in 0 .. Len(pools')
    BY <1>4, <2>2, <2>4
  <2>6. WalletOK' /\ PoolsGood'
    BY <1>2, <2>2 DEF Inv, PoolsBecome, WalletOK
  <2> QED BY <1>1, <2>2, <2>3, <2>5, <2>6 DEF Inv, Kept
<1> QED BY <1>3, <1>4 DEF InitializePair

LEMMA CreatePairKept ==
  ASSUME Inv, NEW t \in Tokens, NEW u \in Tokens, NEW fee \in Fees,
         CreatePair(t, u, fee), PlaceOK',
         current' = current \/ current' = pairs'[KeyOf(t, u, fee)]
  PROVE  Kept
<1>1. /\ PoolsBecome /\ FactoryOK' /\ wallet' = wallet
      /\ pairs'[KeyOf(t, u, fee)] \in 0 .. Len(pools')
  BY CreatePairBecomes DEF Inv
<1>2. Len(pools) \in Nat /\ Len(pools') \in Nat /\ Len(pools') >= Len(pools)
  BY <1>1 DEF Inv, PoolsGood, PoolsBecome
<1>3. current' \in 0 .. Len(pools')
  BY <1>1, <1>2 DEF Inv
<1> QED BY <1>1, <1>3 DEF Inv, Kept, PoolsBecome, WalletOK

LEMMA ClientCreatesKept ==
  ASSUME Inv, CreatePairStep \/ CreatePairAgain
  PROVE  Kept
<1>1. PlaceOK /\ Running /\ NextStep /\ PlaceOK'
  BY NextStepKeepsPlace DEF Inv, CreatePairStep, CreatePairAgain, Now
<1>2. This.token \in Tokens /\ Second(This.token) \in Tokens /\ world.fee \in Fees
  BY <1>1, ThisTyped, WorldTyped
<1>3. CASE CreatePairStep
  BY <1>1, <1>2, <1>3, CreatePairKept DEF CreatePairStep, SendCreatePair
<1>4. CASE CreatePairAgain
  BY <1>1, <1>2, <1>4, CreatePairKept DEF CreatePairAgain, SendCreatePair
<1> QED BY <1>3, <1>4

(* Steps that leave the ledger and the client's pair. *)
LEMMA QuietStepsKept ==
  ASSUME Inv,
         \/ CreateIdentical \/ MoreThanMax \/ AssociateTreasuryUnawaited
         \/ ReadPairQty \/ Asks
  PROVE  Kept
<1>1. /\ UNCHANGED <<pools, wallet, factoryVars, current>>
      /\ Running /\ NextStep
  BY DEF CreateIdentical, MoreThanMax, AssociateTreasuryUnawaited, ReadPairQty,
         Asks, VerifyTokensInPool, TokensArePresent, FetchSpotPrice, CalculateOut,
         CalculateIn, CalculateSlippageOut, CalculateSlippageIn, RecommendStep,
         Caught, Reads, Now, poolVars
<1>2. PlaceOK'
  BY <1>1, NextStepKeepsPlace DEF Inv
<1> QED BY <1>1, <1>2, QuietKept

LEMMA StepThrowsKept ==
  ASSUME Inv, StepThrows
  PROVE  Kept
<1>1. /\ UNCHANGED <<pools, wallet, factoryVars, current>>
      /\ line' = line + 1 /\ at' = 1 /\ world' = world
  BY DEF StepThrows, poolVars
<1>2. PlaceOK'
  BY <1>1, ScenarioStarts DEF Inv, PlaceOK
<1> QED BY <1>1, <1>2, QuietKept

LEMMA RunAgainKept ==
  ASSUME Inv, RunAgain
  PROVE  Kept
<1>1. /\ UNCHANGED <<pools, wallet, factoryVars, current>>
      /\ line' = 1 /\ at' = 1 /\ world' = world
  BY DEF RunAgain, poolVars
<1>2. PlaceOK'
  BY <1>1, ScenarioStarts DEF Inv, PlaceOK
<1> QED BY <1>1, <1>2, QuietKept

LEMMA AssociationEndsKept ==
  ASSUME Inv, AssociationEnds
  PROVE  Kept
<1>1. UNCHANGED <<pools, wallet, factoryVars, current, placeVars>>
  BY DEF AssociationEnds, AssociateTreasury, poolVars
<1>2. PlaceOK'
  BY <1>1, PlaceStays DEF Inv
<1> QED BY <1>1, <1>2, QuietKept

(* What the client prepares for its pair *)
LEMMA PreparationKept ==
  ASSUME Inv,
         \/ AssociateLpToken \/ SetTokenAllowance \/ SetSwapAllowance
         \/ SetLpAllowance \/ UpgradePairService
  PROVE  Kept
<1>1. /\ Running /\ NextStep /\ current # 0 /\ UNCHANGED <<factoryVars, current>>
  BY DEF AssociateLpToken, SetTokenAllowance, SetSwapAllowance, SetLpAllowance,
         UpgradePairService, Now
<1>2. PlaceOK /\ PlaceOK'
  BY <1>1, NextStepKeepsPlace DEF Inv
<1>3. current \in Ids
  BY <1>1, CurrentId
<1>4. /\ This.amount \in Nat /\ Client \in Users /\ SwapAccount \in Users
      /\ CurrentSide(This.token) \in Sides
  BY <1>1, <1>2, ThisTyped, WorldTyped, PoolClientAssumption DEF CurrentSide, Sides
<1>5. CASE AssociateLpToken
  <2>1. CASE AssociateLp(current, Client)
    BY <1>1, <1>2, <1>3, <1>4, <2>1, AssociateLpChanges, PoolsChangeKept
  <2>2. CASE UNCHANGED poolVars
    BY <1>1, <1>2, <2>2, QuietKept DEF poolVars
  <2> QED BY <1>5, <2>1, <2>2 DEF AssociateLpToken
<1>6. CASE SetTokenAllowance
  <2>1. Allow(current, CurrentSide(This.token), Client, This.amount)
    BY <1>6 DEF SetTokenAllowance
  <2>2. PoolsChange
    BY <1>3, <1>4, <2>1, AllowChanges
  <2> QED BY <1>1, <1>2, <2>2, PoolsChangeKept
<1>7. CASE SetSwapAllowance
  <2>1. Allow(current, CurrentSide(This.token), SwapAccount, This.amount)
    BY <1>7 DEF SetSwapAllowance
  <2>2. PoolsChange
    BY <1>3, <1>4, <2>1, AllowChanges
  <2> QED BY <1>1, <1>2, <2>2, PoolsChangeKept
<1>8. CASE SetLpAllowance
  <2>1. AllowLp(current, Client, This.amount)
    BY <1>8 DEF SetLpAllowance
  <2>2. PoolsChange
    BY <1>3, <1>4, <2>1, AllowLpChanges
  <2> QED BY <1>1, <1>2, <2>2, PoolsChangeKept
<1>9. CASE UpgradePairService
  <2>1. /\ pools' = [pools EXCEPT ![current] = WithService(@, NewService)]
        /\ wallet' = wallet
    BY <1>9 DEF UpgradePairService
  <2>2. PoolsChange
    BY <1>3, <2>1, UpgradePairChanges
  <2> QED BY <1>1, <1>2, <2>2, PoolsChangeKept
<1> QED BY <1>5, <1>6, <1>7, <1>8, <1>9

(* What the client does with its pair *)
LEMMA TransactionKept ==
  ASSUME Inv, AddLiquidityStep \/ RemoveLiquidityStep \/ SwapTokenStep
  PROVE  Kept
<1>1. /\ Running /\ NextStep /\ current # 0 /\ UNCHANGED <<factoryVars, current>>
  BY DEF AddLiquidityStep, RemoveLiquidityStep, SwapTokenStep, Now
<1>2. PlaceOK /\ PlaceOK' /\ PoolsGood /\ WalletOK
  BY <1>1, NextStepKeepsPlace DEF Inv
<1>3. current \in Ids
  BY <1>1, CurrentId
<1>4. /\ This.amount \in Nat /\ Client \in Users
      /\ SwapAccount \in Users /\ SwapCaller \in Users
      /\ CurrentSide(This.token) \in Sides /\ <<FirstQty, SecondQty>> \in Nat \X Nat
  BY <1>1, <1>2, ThisTyped, WorldTyped, Amounts, PoolClientAssumption DEF CurrentSide, Sides
<1>5. CASE AddLiquidityStep
  <2>1. AddLiquidity(current, Client, Client, This.token, Second(This.token),
                     <<FirstQty, SecondQty>>)
    BY <1>5 DEF AddLiquidityStep, SendAddLiquidity
  <2>2. PoolsChange
    BY <1>2, <1>3, <1>4, <2>1, AddLiquidityChanges
  <2> QED BY <1>1, <1>2, <2>2, PoolsChangeKept
<1>6. CASE RemoveLiquidityStep
  <2>1. RemoveLiquidity(current, Client, This.amount)
    BY <1>6 DEF RemoveLiquidityStep, SendRemoveLiquidity
  <2>2. PoolsChange
    BY <1>2, <1>3, <1>4, <2>1, RemoveLiquidityChanges
  <2> QED BY <1>1, <1>2, <2>2, PoolsChangeKept
<1>7. CASE SwapTokenStep
  <2>1. SwapToken(current, CurrentSide(This.token), SwapCaller, SwapAccount,
                  This.amount, SlippagePassed)
    BY <1>7 DEF SwapTokenStep, SendSwapToken
  <2>2. PoolsChange
    BY <1>2, <1>3, <1>4, <2>1, SwapTokenChanges
  <2> QED BY <1>1, <1>2, <2>2, PoolsChangeKept
<1> QED BY <1>5, <1>6, <1>7

LEMMA UpgradeFactoryKept ==
  ASSUME Inv, UpgradeFactoryService
  PROVE  Kept
<1>1. UpgradeHederaService(NewService) /\ Running /\ NextStep /\ current' = current
  BY DEF UpgradeFactoryService, Now
<1>2. PlaceOK'
  BY <1>1, NextStepKeepsPlace DEF Inv
<1>3. PoolsBecome /\ FactoryOK' /\ wallet' = wallet /\ Len(pools') = Len(pools)
  BY <1>1, UpgradeBecomes DEF Inv, AllServices
<1> QED BY <1>1, <1>2, <1>3 DEF Inv, Kept, PoolsBecome, WalletOK

(* Everyone else *)
LEMMA OthersActKept ==
  ASSUME Inv, OthersAct
  PROVE  Kept
<1>1. UNCHANGED <<placeVars, current>>
  BY DEF OthersAct, OthersDone
<1>2. PlaceOK /\ PlaceOK' /\ PoolsGood /\ WalletOK
  BY <1>1, PlaceStays DEF Inv
<1>3. ASSUME NEW i \in Ids, NEW caller \in Users, NEW u \in Users,
             NEW q \in Trades, NEW r \in Trades, OtherAdds(i, caller, u, <<q, r>>)
      PROVE  Kept
  <2>1. <<q, r>> \in Nat \X Nat
    BY PoolClientAssumption
  <2>2. /\ AddLiquidity(i, caller, u, pools[i].token["b"], pools[i].token["a"], <<q, r>>)
        /\ UNCHANGED factoryVars
    BY <1>3 DEF OtherAdds
  <2>3. PoolsChange
    BY <1>2, <2>1, <2>2, AddLiquidityChanges
  <2> QED BY <1>1, <1>2, <2>2, <2>3, PoolsChangeKept
<1>4. ASSUME NEW i \in Ids, NEW u \in Users, NEW n \in Trades, OtherReturns(i, u, n)
      PROVE  Kept
  <2>1. n \in Nat
    BY PoolClientAssumption
  <2>2. RemoveLiquidity(i, u, n) /\ UNCHANGED factoryVars
    BY <1>4 DEF OtherReturns
  <2>3. PoolsChange
    BY <1>2, <2>1, <2>2, RemoveLiquidityChanges
  <2> QED BY <1>1, <1>2, <2>2, <2>3, PoolsChangeKept
<1>5. ASSUME NEW i \in Ids, NEW side \in Sides, NEW caller \in Users, NEW u \in Users,
             NEW q \in Trades, OtherSwaps(i, side, caller, u, q)
      PROVE  Kept
  <2>1. q \in Nat
    BY PoolClientAssumption
  <2>2. SwapToken(i, side, caller, u, q, ScenarioSlippage) /\ UNCHANGED factoryVars
    BY <1>5 DEF OtherSwaps
  <2>3. PoolsChange
    BY <1>2, <2>1, <2>2, SwapTokenChanges
  <2> QED BY <1>1, <1>2, <2>2, <2>3, PoolsChangeKept
<1>6. ASSUME NEW fee \in Fees, OtherCreates(fee) PROVE Kept
  <2>1. CreatePair(world.tokens[2], world.tokens[1], fee)
    BY <1>6 DEF OtherCreates
  <2> QED BY <1>1, <1>2, <2>1, WorldTyped, CreatePairKept
<1> QED BY <1>3, <1>4, <1>5, <1>6 DEF OthersAct

LEMMA StepKept ==
  ASSUME Inv, [Next]_allVars
  PROVE  Kept
<1>1. CASE ClientNext
  BY <1>1, InitializePairKept, ClientCreatesKept, QuietStepsKept, StepThrowsKept,
     RunAgainKept, PreparationKept, TransactionKept, UpgradeFactoryKept, Zenon DEF ClientNext
<1>2. CASE AssociationEnds
  BY <1>2, AssociationEndsKept
<1>3. ASSUME NEW i \in Ids, NEW u \in Users, OtherPrepares(i, u)
      PROVE  Kept
  <2>1. PoolsChange
    BY <1>3, OtherPreparesChanges
  <2>2. UNCHANGED <<factoryVars, placeVars, current>>
    BY <1>3 DEF OtherPrepares
  <2>3. PlaceOK'
    BY <2>2, PlaceStays DEF Inv
  <2> QED BY <2>1, <2>2, <2>3, PoolsChangeKept
<1>4. CASE OthersAct
  BY <1>4, OthersActKept
<1>5. CASE UNCHANGED allVars
  <2>1. UNCHANGED <<pools, wallet, factoryVars, current, placeVars>>
    BY <1>5 DEF allVars, poolVars
  <2> QED BY <2>1, PlaceStays, QuietKept DEF Inv
<1> QED BY <1>1, <1>2, <1>3, <1>4, <1>5 DEF Next

-----------------------------------------------------------------------------
(* The recommendation: its search over the fees, by a least counterexample *)
(* again.                                                                  *)

BestStep(t, u, q, best, n) ==
  LET fee == TransactionFees[n]
  IN  IF fee \in Fees /\ GetPair(t, u, fee) # 0
      THEN BetterOffer(best, Offer(t, u, fee, q))
      ELSE best

IsBestRun(t, u, q, g, k) ==
  g = [n \in 0 .. k |-> IF n = 0 THEN NoPair ELSE BestStep(t, u, q, g[n - 1], n)]

LEMMA BestRunExists ==
  ASSUME NEW t, NEW u, NEW q, NEW k \in Nat
  PROVE  \E g : IsBestRun(t, u, q, g, k)
<1> DEFINE T == {n \in Nat : ~ \E g : IsBestRun(t, u, q, g, n)}
<1>1. SUFFICES ASSUME T # {} PROVE FALSE
  OBVIOUS
<1>2. PICK m \in T : \A n \in T : m <= n
  <2> HIDE DEF T
  <2>1. T \subseteq Nat
    BY DEF T
  <2> QED BY <1>1, <2>1, LeastElement
<1>3. m # 0
  <2>1. IsBestRun(t, u, q, [n \in 0 .. 0 |-> NoPair], 0)
    BY DEF IsBestRun
  <2> QED BY <2>1
<1>4. m \in Nat /\ m - 1 \in Nat /\ m - 1 \notin T
  BY <1>2, <1>3
<1>5. PICK g : IsBestRun(t, u, q, g, m - 1)
  BY <1>4
<1> DEFINE h == [n \in 0 .. m |-> IF n = m THEN BestStep(t, u, q, g[m - 1], m) ELSE g[n]]
<1>6. \A n \in 0 .. m : h[n] = IF n = 0 THEN NoPair ELSE BestStep(t, u, q, h[n - 1], n)
  <2> SUFFICES ASSUME NEW n \in 0 .. m
               PROVE  h[n] = IF n = 0 THEN NoPair ELSE BestStep(t, u, q, h[n - 1], n)
    OBVIOUS
  <2>1. CASE n = m
    <3>1. h[n] = BestStep(t, u, q, g[m - 1], m)
      BY <2>1
    <3>2. h[m - 1] = g[m - 1]
      BY <1>3, <1>4
    <3> QED BY <1>3, <2>1, <3>1, <3>2
  <2>2. CASE n # m
    <3>1. n \in 0 .. (m - 1) /\ h[n] = g[n]
      BY <1>4, <2>2
    <3>2. g[n] = IF n = 0 THEN NoPair ELSE BestStep(t, u, q, g[n - 1], n)
      BY <1>5, <3>1 DEF IsBestRun
    <3>3. n # 0 => h[n - 1] = g[n - 1]
      BY <1>4, <2>2
    <3> QED BY <3>1, <3>2, <3>3
  <2> QED BY <2>1, <2>2
<1>7. IsBestRun(t, u, q, h, m)
  <2>1. h = [n \in 0 .. m |-> h[n]]
    OBVIOUS
  <2> HIDE DEF h
  <2> QED BY <1>6, <2>1, Zenon DEF IsBestRun
<1> QED BY <1>2, <1>7

(* The pool of a configured fee is quoted when the call does not revert. *)
LEMMA OfferGood ==
  ASSUME Inv, NEW t \in Tokens, NEW u \in Tokens, t # u, NEW q \in Nat,
         Recommendable(t, u, q), NEW n \in DOMAIN TransactionFees,
         TransactionFees[n] \in Fees, GetPair(t, u, TransactionFees[n]) # 0
  PROVE  LET o == Offer(t, u, TransactionFees[n], q)
         IN  /\ o.swappedQty \in Nat
             /\ Quote(pools[o.pair], SideOf(t, u), q).out.user = o.swappedQty
<1> DEFINE fee == TransactionFees[n]
           i == GetPair(t, u, fee)
           side == SideOf(t, u)
<1>1. KeyOf(t, u, fee) \in Keys
  BY KeysSorted
<1>2. i \in Ids
  BY <1>1 DEF Inv, FactoryOK, PoolsGood, Ids, GetPair
<1>3. pools[i] \in Pool /\ side \in Sides
  BY <1>2 DEF Inv, PoolsGood, PoolGood, SideOf, Sides
<1>4. pools[i].qty[side] > 0
  BY DEF Recommendable, Quotable
<1>5. /\ Offer(t, u, fee, q).pair = i
      /\ Offer(t, u, fee, q).swappedQty = Quote(pools[i], side, q).out.user
  BY DEF Offer
<1> HIDE DEF i, side
<1>6. Quote(pools[i], side, q).out.user \in Nat
  BY <1>3, <1>4, QuoteCovered
<1> QED BY <1>5, <1>6 DEF side

LEMMA RecommendedIsBest ==
  ASSUME Inv, NEW t \in Tokens, NEW u \in Tokens, t # u, NEW q \in Nat,
         Recommendable(t, u, q)
  PROVE  LET best == RecommendedPair(t, u, q)
         IN  /\ \A n \in DOMAIN TransactionFees :
                  TransactionFees[n] \in Fees /\ GetPair(t, u, TransactionFees[n]) # 0
                  => Offer(t, u, TransactionFees[n], q).swappedQty <= best.swappedQty
             /\ best.pair # 0 =>
                  Quote(pools[best.pair], SideOf(t, u), q).out.user = best.swappedQty
<1> DEFINE k == Len(TransactionFees)
           g == CHOOSE f : IsBestRun(t, u, q, f, k)
           offer(n) == Offer(t, u, TransactionFees[n], q)
           asked(n) == TransactionFees[n] \in Fees /\ GetPair(t, u, TransactionFees[n]) # 0
           paid(b) == b.pair # 0 =>
                        Quote(pools[b.pair], SideOf(t, u), q).out.user = b.swappedQty
           Good(n, b) == /\ b.swappedQty \in Nat
                         /\ \A x \in 1 .. n : asked(x) => offer(x).swappedQty <= b.swappedQty
                         /\ paid(b)
           T == {n \in 0 .. k : ~ Good(n, g[n])}
<1>1. k \in Nat /\ DOMAIN TransactionFees = 1 .. k
  BY FactoryAssumption
<1>2. RecommendedPair(t, u, q) = g[k]
  BY DEF RecommendedPair, IsBestRun, BestStep
<1>3. IsBestRun(t, u, q, g, k)
  BY <1>1, BestRunExists
<1> HIDE DEF g
<1>4. \A n \in 0 .. k : g[n] = IF n = 0 THEN NoPair ELSE BestStep(t, u, q, g[n - 1], n)
  BY <1>3, Zenon DEF IsBestRun
<1>5. \A n \in 1 .. k : asked(n) => offer(n).swappedQty \in Nat /\ paid(offer(n))
  BY <1>1, OfferGood
<1>6. \A n \in 1 .. k : BestStep(t, u, q, g[n - 1], n)
        = IF asked(n) /\ offer(n).swappedQty > g[n - 1].swappedQty
          THEN offer(n) ELSE g[n - 1]
  BY DEF BestStep, BetterOffer
<1> HIDE DEF k, offer, asked, paid
<1>7. T = {}
  <2>1. SUFFICES ASSUME T # {} PROVE FALSE
    OBVIOUS
  <2>2. PICK m \in T : \A n \in T : m <= n
    <3>1. T \subseteq Nat
      BY <1>1
    <3> HIDE DEF T
    <3> QED BY <2>1, <3>1, LeastElement
  <2>3. m \in 0 .. k /\ ~ Good(m, g[m])
    BY <2>2
  <2>4. m # 0
    <3>1. Good(0, NoPair)
      BY DEF NoPair, paid
    <3> HIDE DEF Good
    <3> QED BY <1>1, <1>4, <2>3, <3>1
  <2>5. m - 1 \in 0 .. k /\ m \in 1 .. k /\ Good(m - 1, g[m - 1])
    <3>1. m - 1 \in 0 .. k /\ ~ (m <= m - 1) /\ m \in 1 .. k
      BY <1>1, <2>3, <2>4
    <3> QED BY <2>2, <3>1
  <2>6. g[m] = IF asked(m) /\ offer(m).swappedQty > g[m - 1].swappedQty
               THEN offer(m) ELSE g[m - 1]
    BY <1>4, <1>6, <2>3, <2>4, <2>5
  <2>7. ASSUME NEW x \in 1 .. m, asked(x)
        PROVE  offer(x).swappedQty <= g[m].swappedQty
    <3>1. CASE x = m
      BY <1>5, <2>5, <2>6, <2>7, <3>1
    <3>2. CASE x # m
      <4>1. x \in 1 .. (m - 1) /\ x \in 1 .. k
        BY <1>1, <2>5, <3>2
      <4> QED BY <1>5, <2>5, <2>6, <2>7, <4>1
    <3> QED BY <3>1, <3>2
  <2>8. g[m].swappedQty \in Nat /\ paid(g[m])
    BY <1>5, <2>5, <2>6
  <2> QED BY <2>3, <2>7, <2>8
<1>8. Good(k, g[k])
  BY <1>1, <1>7
<1> QED BY <1>1, <1>2, <1>8 DEF asked, offer, paid

LEMMA OnePairInvariant ==
  ASSUME Inv
  PROVE  OnePairEach
<1>1. ASSUME NEW n \in DOMAIN allPairs
      PROVE  LET p == pools[allPairs[n]]
             IN  /\ p.token["a"] \in Tokens /\ p.token["b"] \in Tokens /\ p.fee \in Fees
                 /\ Address[p.token["a"]] < Address[p.token["b"]]
                 /\ pairs[<<p.token["a"], p.token["b"], p.fee>>] = allPairs[n]
  <2>1. allPairs[n] \in Ids
    BY DEF Inv, FactoryOK
  <2>2. pools[allPairs[n]] \in Pool
    BY <2>1 DEF Inv, PoolsGood, PoolGood
  <2>3. /\ pools[allPairs[n]].token["a"] \in Tokens
        /\ pools[allPairs[n]].token["b"] \in Tokens /\ pools[allPairs[n]].fee \in Fees
    BY <2>2 DEF Pool, Sides
  <2> QED BY <2>3 DEF Inv, FactoryOK
<1>2. ASSUME NEW m \in DOMAIN allPairs, NEW n \in DOMAIN allPairs,
             {pools[allPairs[m]].token[s] : s \in Sides}
               = {pools[allPairs[n]].token[s] : s \in Sides},
             pools[allPairs[m]].fee = pools[allPairs[n]].fee
      PROVE  m = n
  <2> DEFINE p == pools[allPairs[m]]
             r == pools[allPairs[n]]
  <2>1. {p.token["a"], p.token["b"]} = {r.token["a"], r.token["b"]}
    <3> HIDE DEF p, r
    <3> QED BY <1>2 DEF Sides, p, r
  <2>2. /\ Address[p.token["a"]] < Address[p.token["b"]]
        /\ Address[r.token["a"]] < Address[r.token["b"]]
        /\ p.token["a"] \in Tokens /\ p.token["b"] \in Tokens
        /\ r.token["a"] \in Tokens /\ r.token["b"] \in Tokens
    BY <1>1
  <2>3. pairs[<<p.token["a"], p.token["b"], p.fee>>] = allPairs[m]
        /\ pairs[<<r.token["a"], r.token["b"], r.fee>>] = allPairs[n]
    BY <1>1
  <2>4. p.fee = r.fee
    BY <1>2
  <2> HIDE DEF p, r
  <2>5. \A t \in Tokens : Address[t] \in Nat
    BY FactoryAssumption
  <2>6. p.token["a"] = r.token["a"] /\ p.token["b"] = r.token["b"]
    BY <2>1, <2>2, <2>5
  <2>7. allPairs[m] = allPairs[n]
    BY <2>3, <2>4, <2>6
  <2> QED BY <2>7 DEF Inv, FactoryOK
<1>3. ASSUME NEW n \in DOMAIN allPairs
      PROVE  LET p == pools[allPairs[n]]
             IN  /\ GetPair(p.token["a"], p.token["b"], p.fee) = allPairs[n]
                 /\ GetPair(p.token["b"], p.token["a"], p.fee) = allPairs[n]
  <2> DEFINE p == pools[allPairs[n]]
             a == p.token["a"]
             b == p.token["b"]
  <2>1. /\ a \in Tokens /\ b \in Tokens /\ p.fee \in Fees
        /\ Address[a] < Address[b] /\ pairs[<<a, b, p.fee>>] = allPairs[n]
    BY <1>1
  <2>2. a # b
    <3>1. Address[a] \in Nat
      BY <2>1, FactoryAssumption
    <3> HIDE DEF a, b
    <3> QED BY <2>1, <3>1
  <2> HIDE DEF a, b
  <2>3. KeyOf(a, b, p.fee) = <<a, b, p.fee>> /\ KeyOf(b, a, p.fee) = <<a, b, p.fee>>
    BY <2>1, <2>2, KeysSorted
  <2> QED BY <2>1, <2>3 DEF GetPair, a, b
<1> QED BY <1>2, <1>3 DEF OnePairEach

LEMMA BestInvariant ==
  ASSUME Inv
  PROVE  BestRecommended
<1> SUFFICES
      ASSUME NEW s \in Sides, NEW q \in Trades
      PROVE  LET t == world.tokens[1]
                 u == world.tokens[2]
                 from == IF s = "a" THEN t ELSE u
                 to == IF s = "a" THEN u ELSE t
                 best == RecommendedPair(from, to, q)
             IN  Recommendable(from, to, q) =>
                   /\ \A n \in DOMAIN allPairs :
                        LET p == pools[allPairs[n]]
                        IN  (/\ {p.token[x] : x \in Sides} = {t, u}
                             /\ \E k \in DOMAIN TransactionFees : TransactionFees[k] = p.fee)
                            => Quote(p, IF p.token["a"] = from THEN "a" ELSE "b", q).out.user
                                 <= best.swappedQty
                   /\ best.pair # 0 =>
                        Quote(pools[best.pair], SideOf(from, to), q).out.user
                          = best.swappedQty
  BY DEF BestRecommended
<1> DEFINE t == world.tokens[1]
           u == world.tokens[2]
           from == IF s = "a" THEN t ELSE u
           to == IF s = "a" THEN u ELSE t
           best == RecommendedPair(from, to, q)
<1>1. SUFFICES ASSUME Recommendable(from, to, q)
               PROVE  /\ \A n \in DOMAIN allPairs :
                           LET p == pools[allPairs[n]]
                           IN  (/\ {p.token[x] : x \in Sides} = {t, u}
                                /\ \E k \in DOMAIN TransactionFees :
                                     TransactionFees[k] = p.fee)
                               => Quote(p, IF p.token["a"] = from THEN "a" ELSE "b",
                                        q).out.user <= best.swappedQty
                      /\ best.pair # 0 =>
                           Quote(pools[best.pair], SideOf(from, to), q).out.user
                             = best.swappedQty
  OBVIOUS
<1>2. /\ from \in Tokens /\ to \in Tokens /\ from # to /\ {from, to} = {t, u}
      /\ q \in Nat
  BY <1>1, WorldTyped, PoolClientAssumption DEF Inv
<1>3. /\ \A n \in DOMAIN TransactionFees :
            TransactionFees[n] \in Fees /\ GetPair(from, to, TransactionFees[n]) # 0
            => Offer(from, to, TransactionFees[n], q).swappedQty <= best.swappedQty
      /\ best.pair # 0 =>
           Quote(pools[best.pair], SideOf(from, to), q).out.user = best.swappedQty
  BY <1>1, <1>2, RecommendedIsBest
<1> HIDE DEF best, from, to, t, u
<1>4. ASSUME NEW n \in DOMAIN allPairs,
             {pools[allPairs[n]].token[x] : x \in Sides} = {t, u},
             NEW k \in DOMAIN TransactionFees, TransactionFees[k] = pools[allPairs[n]].fee
      PROVE  Quote(pools[allPairs[n]],
                   IF pools[allPairs[n]].token["a"] = from THEN "a" ELSE "b", q).out.user
               <= best.swappedQty
  <2> DEFINE i == allPairs[n]
             p == pools[i]
             a == p.token["a"]
             b == p.token["b"]
  <2>1. i \in Ids /\ p \in Pool
    BY DEF Inv, FactoryOK, PoolsGood, PoolGood
  <2>2. /\ a \in Tokens /\ b \in Tokens /\ p.fee \in Fees /\ Address[a] < Address[b]
        /\ GetPair(a, b, p.fee) = i /\ GetPair(b, a, p.fee) = i
    <3>1. a \in Tokens /\ b \in Tokens /\ p.fee \in Fees
      BY <2>1 DEF Pool, Sides
    <3>2. Address[a] < Address[b]
      BY DEF Inv, FactoryOK
    <3>3. GetPair(a, b, p.fee) = i /\ GetPair(b, a, p.fee) = i
      BY OnePairInvariant DEF OnePairEach
    <3> QED BY <3>1, <3>2, <3>3
  <2>3. {a, b} = {from, to}
    BY <1>2, <1>4 DEF Sides
  <2>4. i # 0
    BY <2>1 DEF Inv, PoolsGood, Ids
  <2>5. p.fee = TransactionFees[k]
    BY <1>4
  <2> HIDE DEF a, b, i
  <2>6. (from = a /\ to = b) \/ (from = b /\ to = a)
    BY <1>2, <2>3
  <2>7. GetPair(from, to, p.fee) = i
    BY <2>2, <2>6
  <2>8. SideOf(from, to) = IF a = from THEN "a" ELSE "b"
    <3>1. Address[a] \in Nat /\ Address[b] \in Nat
      BY <2>2, FactoryAssumption
    <3>2. a # b
      BY <2>2, <3>1
    <3>3. SortTokens(from, to) = <<a, b>>
      BY <2>2, <2>6, <3>1, <3>2 DEF SortTokens
    <3> QED BY <2>6, <3>2, <3>3 DEF SideOf
  <2>9. Offer(from, to, p.fee, q).swappedQty
          = Quote(p, IF a = from THEN "a" ELSE "b", q).out.user
    BY <2>7, <2>8 DEF Offer
  <2>10. Offer(from, to, p.fee, q).swappedQty <= best.swappedQty
    BY <1>3, <2>2, <2>4, <2>5, <2>7
  <2> QED BY <2>9, <2>10 DEF a, i
<1>5. \A n \in DOMAIN allPairs :
        (/\ {pools[allPairs[n]].token[x] : x \in Sides} = {t, u}
         /\ \E k \in DOMAIN TransactionFees : TransactionFees[k] = pools[allPairs[n]].fee)
        => Quote(pools[allPairs[n]],
                 IF pools[allPairs[n]].token["a"] = from THEN "a" ELSE "b", q).out.user
             <= best.swappedQty
  BY <1>4
<1> QED BY <1>3, <1>5

-----------------------------------------------------------------------------
(* A client alone: where its scenarios add to the pool, and what they find *)

PrepSteps ==
  {v \in StepType : v.do \in {"initialize", "create", "again", "identical", "collect",
                              "associate", "allow", "read"}}

(* Between adding and the last check, the scenarios check the token they   *)
(* have added first.                                                       *)
CheckSteps(t) ==
  {v \in StepType : v.do \in {"allow", "allowLp", "tooMuch"} \/ v = Step("check", t, 0)}

LaterSteps == {v \in StepType : v.do # "check"}

(* The scenario that adds, and the last that checks. *)
AddsAt == IF world.client = "PairTest" THEN 1 ELSE 4

ChecksTo == IF world.client = "PairTest" THEN 3 ELSE 4

(* Scenarios P that add in the scenario k and check up to m. *)
Shape(P, k, m, t) ==
  /\ P \in Seq(Seq(StepType)) /\ Len(P) >= m
  /\ \A n \in 1 .. Len(P) :
       /\ n < k => P[n] \in Seq(PrepSteps)
       /\ n > k /\ n <= m => P[n] \in Seq(CheckSteps(t))
       /\ n > m => P[n] \in Seq(LaterSteps)
  /\ \E x \in Seq(PrepSteps) : P[k] = x \o ReadAddCheck(t)

LEMMA PartsOfScenarios ==
  ASSUME NEW t
  PROVE  /\ Seq(PrepSteps) \subseteq Seq(StepType)
         /\ Seq(CheckSteps(t)) \subseteq Seq(StepType)
         /\ Seq(LaterSteps) \subseteq Seq(StepType)
         /\ Seq(Seq(LaterSteps)) \subseteq Seq(Seq(StepType))
<1>1. /\ PrepSteps \subseteq StepType /\ CheckSteps(t) \subseteq StepType
      /\ LaterSteps \subseteq StepType
  BY DEF PrepSteps, CheckSteps, LaterSteps
<1>2. ASSUME NEW S, NEW T, S \subseteq T PROVE Seq(S) \subseteq Seq(T)
  BY <1>2
<1>3. Seq(LaterSteps) \subseteq Seq(StepType)
  BY <1>1, <1>2
<1> QED BY <1>1, <1>2, <1>3

LEMMA ShapeMore ==
  ASSUME NEW P, NEW k \in Nat, NEW m \in Nat, NEW t, Shape(P, k, m, t), 1 <= k, k <= m,
         NEW Q \in Seq(Seq(LaterSteps))
  PROVE  Shape(P \o Q, k, m, t)
<1>1. /\ P \in Seq(Seq(StepType)) /\ Len(P) \in Nat /\ Len(P) >= m
      /\ Q \in Seq(Seq(StepType)) /\ Len(Q) \in Nat
      /\ \A n \in 1 .. Len(Q) : Q[n] \in Seq(LaterSteps)
  <2>1. P \in Seq(Seq(StepType)) /\ Len(P) >= m
    BY DEF Shape
  <2>2. Q \in Seq(Seq(StepType))
    BY PartsOfScenarios
  <2>3. \A n \in 1 .. Len(Q) : Q[n] \in Seq(LaterSteps)
    OBVIOUS
  <2> QED BY <2>1, <2>2, <2>3
<1>2. /\ P \o Q \in Seq(Seq(StepType)) /\ Len(P \o Q) = Len(P) + Len(Q)
      /\ \A n \in 1 .. (Len(P) + Len(Q)) :
           (P \o Q)[n] = IF n <= Len(P) THEN P[n] ELSE Q[n - Len(P)]
  BY <1>1, ConcatProperties
<1>3. \A n \in 1 .. Len(P) : (P \o Q)[n] = P[n]
  BY <1>1, <1>2
<1>4. ASSUME NEW n \in 1 .. Len(P \o Q)
      PROVE  /\ n < k => (P \o Q)[n] \in Seq(PrepSteps)
             /\ n > k /\ n <= m => (P \o Q)[n] \in Seq(CheckSteps(t))
             /\ n > m => (P \o Q)[n] \in Seq(LaterSteps)
  <2>1. CASE n <= Len(P)
    BY <1>1, <1>3, <2>1 DEF Shape
  <2>2. CASE ~ (n <= Len(P))
    <3>1. n - Len(P) \in 1 .. Len(Q) /\ n \in 1 .. (Len(P) + Len(Q)) /\ n > m
      BY <1>1, <1>2, <2>2
    <3>2. (P \o Q)[n] = Q[n - Len(P)]
      BY <1>2, <2>2, <3>1
    <3> QED BY <1>1, <3>1, <3>2
  <2> QED BY <2>1, <2>2
<1>5. (P \o Q)[k] = P[k]
  BY <1>1, <1>3
<1>6. Len(P \o Q) >= m
  BY <1>1, <1>2
<1> QED BY <1>2, <1>4, <1>5, <1>6 DEF Shape

LEMMA StepsLater ==
  ASSUME NEW t \in Tokens, NEW u \in Tokens
  PROVE  /\ RemoveLiquiditySteps(t) \in Seq(LaterSteps) /\ SwapSteps(t) \in Seq(LaterSteps)
         /\ Present(t) \in Seq(LaterSteps) /\ TooMuch(t) \in Seq(LaterSteps)
         /\ ResetSteps(t, u) \in Seq(LaterSteps)
         /\ <<Step("allow", t, MaxAllowance)>> \in Seq(LaterSteps)
         /\ QuoteSteps(t) \in Seq(LaterSteps)
         /\ QuoteScenarios(t) \in Seq(Seq(LaterSteps))
<1>1. \A d \in Acts, n \in Nat, v \in Tokens :
        d # "check" => Step(d, v, n) \in LaterSteps
  BY StepTyped DEF LaterSteps, Step
<1>2. \A v, w, x : v \in LaterSteps /\ w \in LaterSteps /\ x \in LaterSteps =>
        /\ <<v>> \in Seq(LaterSteps) /\ <<v, w>> \in Seq(LaterSteps)
        /\ <<v, w, x>> \in Seq(LaterSteps)
  OBVIOUS
<1>3. RemoveLiquiditySteps(t) \in Seq(LaterSteps)
  <2>1. Step("allowLp", t, LpQty) \in LaterSteps /\ Step("remove", t, LpQty) \in LaterSteps
    BY <1>1, Amounts DEF Acts
  <2> QED BY <1>2, <2>1, Zenon DEF RemoveLiquiditySteps
<1>4. SwapSteps(t) \in Seq(LaterSteps)
  <2>1. Step("allowSwap", t, SwapQty) \in LaterSteps /\ Step("swap", t, SwapQty) \in LaterSteps
    BY <1>1, Amounts DEF Acts
  <2> QED BY <1>2, <2>1, Zenon DEF SwapSteps
<1>5. Present(t) \in Seq(LaterSteps) /\ TooMuch(t) \in Seq(LaterSteps)
  <2>1. Step("present", t, 0) \in LaterSteps /\ Step("tooMuch", t, 0) \in LaterSteps
    BY <1>1 DEF Acts
  <2> QED BY <1>2, <2>1, Zenon DEF Present, TooMuch
<1>6. ResetSteps(t, u) \in Seq(LaterSteps)
  <2>1. /\ Step("allow", t, 0) \in LaterSteps /\ Step("allow", u, 0) \in LaterSteps
        /\ Step("allowLp", t, 0) \in LaterSteps
    BY <1>1 DEF Acts
  <2> QED BY <1>2, <2>1, Zenon DEF ResetSteps
<1>7. <<Step("allow", t, MaxAllowance)>> \in Seq(LaterSteps)
  <2>1. Step("allow", t, MaxAllowance) \in LaterSteps
    BY <1>1, Amounts DEF Acts
  <2> QED BY <1>2, <2>1, Zenon
<1>8. QuoteSteps(t) \in Seq(LaterSteps)
  <2>1. /\ Step("spotPrice", t, 0) \in LaterSteps
        /\ Step("outGivenIn", t, SwapQty) \in LaterSteps
        /\ Step("inGivenOut", t, SwapQty) \in LaterSteps
        /\ Step("slippageOut", t, SwapQty) \in LaterSteps
        /\ Step("slippageIn", t, SwapQty) \in LaterSteps
    BY <1>1, Amounts DEF Acts
  <2>2. \A a, b, c, d, e : a \in LaterSteps /\ b \in LaterSteps /\ c \in LaterSteps
                             /\ d \in LaterSteps /\ e \in LaterSteps
                             => <<a, b, c, d, e>> \in Seq(LaterSteps)
    OBVIOUS
  <2> QED BY <2>1, <2>2, Zenon DEF QuoteSteps
<1>9. QuoteScenarios(t) \in Seq(Seq(LaterSteps))
  <2> DEFINE Q == QuoteSteps(t)
             s(n) == Present(t) \o <<Q[n]>>
  <2>1. QuoteScenarios(t) = [n \in DOMAIN Q |-> s(n)]
    BY DEF QuoteScenarios
  <2>2. Q \in Seq(LaterSteps)
    BY <1>8
  <2> HIDE DEF Q
  <2>3. Len(Q) \in Nat /\ DOMAIN Q = 1 .. Len(Q)
    BY <2>2
  <2>4. ASSUME NEW n \in DOMAIN Q PROVE s(n) \in Seq(LaterSteps)
    <3>1. <<Q[n]>> \in Seq(LaterSteps)
      BY <1>2, <2>2
    <3> QED BY <1>5, <3>1
  <2> HIDE DEF s
  <2> QED BY <2>1, <2>3, <2>4
<1> QED BY <1>3, <1>4, <1>5, <1>6, <1>7, <1>8, <1>9

LEMMA PreparesSteps ==
  ASSUME NEW t \in Tokens, NEW u \in Tokens
  PROVE  /\ <<Step("initialize", t, 0), Step("collect", t, 0), Step("collect", u, 0)>>
              \in Seq(PrepSteps)
         /\ <<Step("create", t, 0)>> \in Seq(PrepSteps)
         /\ <<Step("again", t, 0)>> \in Seq(PrepSteps)
         /\ <<Step("identical", t, 0)>> \in Seq(PrepSteps)
         /\ <<Step("collect", t, 0)>> \in Seq(PrepSteps)
         /\ AssociateStep(t) \in Seq(PrepSteps) /\ AllowSteps(t, u) \in Seq(PrepSteps)
<1>1. /\ Step("initialize", t, 0) \in PrepSteps /\ Step("collect", t, 0) \in PrepSteps
      /\ Step("collect", u, 0) \in PrepSteps /\ Step("create", t, 0) \in PrepSteps
      /\ Step("again", t, 0) \in PrepSteps /\ Step("identical", t, 0) \in PrepSteps
      /\ Step("associate", t, 0) \in PrepSteps
  BY StepTyped DEF PrepSteps, Step, Acts
<1>2. Step("allow", t, FirstQty) \in PrepSteps /\ Step("allow", u, SecondQty) \in PrepSteps
  BY StepTyped, Amounts DEF PrepSteps, Step, Acts
<1>3. \A v, w, x : v \in PrepSteps /\ w \in PrepSteps /\ x \in PrepSteps =>
        /\ <<v>> \in Seq(PrepSteps) /\ <<v, w>> \in Seq(PrepSteps)
        /\ <<v, w, x>> \in Seq(PrepSteps)
  OBVIOUS
<1> QED BY <1>1, <1>2, <1>3, Zenon DEF AssociateStep, AllowSteps

LEMMA ChecksSteps ==
  ASSUME NEW t \in Tokens, NEW u \in Tokens
  PROVE  /\ <<Step("allow", t, MaxAllowance), Step("allow", u, MaxAllowance)>>
              \in Seq(CheckSteps(t))
         /\ <<Step("allowLp", t, MaxAllowance)>> \in Seq(CheckSteps(t))
         /\ TooMuch(t) \in Seq(CheckSteps(t))
         /\ <<Step("check", t, 0)>> \in Seq(CheckSteps(t))
<1>1. /\ Step("allow", t, MaxAllowance) \in CheckSteps(t)
      /\ Step("allow", u, MaxAllowance) \in CheckSteps(t)
      /\ Step("allowLp", t, MaxAllowance) \in CheckSteps(t)
  BY StepTyped, Amounts DEF CheckSteps, Step, Acts
<1>2. Step("tooMuch", t, 0) \in CheckSteps(t) /\ Step("check", t, 0) \in CheckSteps(t)
  BY StepTyped DEF CheckSteps, Step, Acts
<1>3. \A v, w : v \in CheckSteps(t) /\ w \in CheckSteps(t) =>
        <<v>> \in Seq(CheckSteps(t)) /\ <<v, w>> \in Seq(CheckSteps(t))
  OBVIOUS
<1> QED BY <1>1, <1>2, <1>3, Zenon DEF TooMuch

LEMMA PairShape ==
  ASSUME NEW t \in Tokens, NEW u \in Tokens
  PROVE  Shape(PairScenarios(t, u), 1, 3, t)
<1> DEFINE x == <<Step("initialize", t, 0), Step("collect", t, 0), Step("collect", u, 0)>>
                  \o AssociateStep(t) \o AllowSteps(t, u)
           first == x \o ReadAddCheck(t)
           over == <<Step("allow", t, MaxAllowance), Step("allow", u, MaxAllowance)>>
                     \o TooMuch(t) \o <<Step("check", t, 0)>>
           overLp == <<Step("allowLp", t, MaxAllowance)>> \o TooMuch(t)
                       \o <<Step("check", t, 0)>>
           rest == <<RemoveLiquiditySteps(t), <<Step("allow", t, MaxAllowance)>> \o TooMuch(t),
                     Present(t) \o SwapSteps(t), Present(t) \o SwapSteps(u)>>
<1>1. PairScenarios(t, u) =
        <<first>> \o <<over, overLp>> \o rest \o QuoteScenarios(t) \o <<ResetSteps(t, u)>>
  BY DEF PairScenarios, PairOverflowScenarios
<1>2. x \in Seq(PrepSteps)
  BY PreparesSteps
<1>3. over \in Seq(CheckSteps(t)) /\ overLp \in Seq(CheckSteps(t))
  BY ChecksSteps
<1>4. x \o ReadAddCheck(t) \in Seq(StepType)
  <2>1. ReadAddCheck(t) \in Seq(StepType) /\ x \in Seq(StepType)
    BY <1>2, StepsTyped DEF PrepSteps, Scenario
  <2> HIDE DEF x
  <2> QED BY <2>1
<1>5. over \in Seq(StepType) /\ overLp \in Seq(StepType)
  <2> HIDE DEF over, overLp
  <2> QED BY <1>3 DEF CheckSteps
<1>6. /\ rest \in Seq(Seq(LaterSteps)) /\ QuoteScenarios(t) \in Seq(Seq(LaterSteps))
      /\ <<ResetSteps(t, u)>> \in Seq(Seq(LaterSteps))
  <2>1. /\ RemoveLiquiditySteps(t) \in Seq(LaterSteps) /\ ResetSteps(t, u) \in Seq(LaterSteps)
        /\ <<Step("allow", t, MaxAllowance)>> \o TooMuch(t) \in Seq(LaterSteps)
        /\ Present(t) \o SwapSteps(t) \in Seq(LaterSteps)
        /\ Present(t) \o SwapSteps(u) \in Seq(LaterSteps)
    BY StepsLater
  <2>2. \A a, b, c, d : (/\ a \in Seq(LaterSteps) /\ b \in Seq(LaterSteps)
                         /\ c \in Seq(LaterSteps) /\ d \in Seq(LaterSteps))
          => <<a, b, c, d>> \in Seq(Seq(LaterSteps)) /\ <<a>> \in Seq(Seq(LaterSteps))
    OBVIOUS
  <2> QED BY <2>1, <2>2, StepsLater, Zenon
<1> HIDE DEF x, over, overLp, rest
<1>7. Shape(<<first>> \o <<over, overLp>>, 1, 3, t)
  <2> DEFINE f == x \o ReadAddCheck(t)
             P == <<f>>
             Q == <<over, overLp>>
  <2>1. P \in Seq(Seq(StepType)) /\ Q \in Seq(Seq(StepType)) /\ Len(P) = 1 /\ Len(Q) = 2
        /\ P[1] = f /\ Q[1] = over /\ Q[2] = overLp
    <3> HIDE DEF f
    <3> QED BY <1>4, <1>5 DEF f
  <2> HIDE DEF P, Q
  <2>2. /\ P \o Q \in Seq(Seq(StepType)) /\ Len(P \o Q) = 3
        /\ (P \o Q)[1] = f /\ (P \o Q)[2] = over /\ (P \o Q)[3] = overLp
    <3> HIDE DEF f
    <3>1. /\ P \o Q \in Seq(Seq(StepType)) /\ Len(P \o Q) = Len(P) + Len(Q)
          /\ \A n \in 1 .. (Len(P) + Len(Q)) :
               (P \o Q)[n] = IF n <= Len(P) THEN P[n] ELSE Q[n - Len(P)]
      BY <2>1, ConcatProperties
    <3>2. 1 \in 1 .. (Len(P) + Len(Q)) /\ 2 \in 1 .. (Len(P) + Len(Q))
          /\ 3 \in 1 .. (Len(P) + Len(Q))
      BY <2>1
    <3> QED BY <2>1, <3>1, <3>2
  <2>3. ASSUME NEW n \in 1 .. 3
        PROVE  /\ n < 1 => (P \o Q)[n] \in Seq(PrepSteps)
               /\ n > 1 /\ n <= 3 => (P \o Q)[n] \in Seq(CheckSteps(t))
               /\ n > 3 => (P \o Q)[n] \in Seq(LaterSteps)
    <3>1. ~ (n < 1) /\ ~ (n > 3) /\ (n > 1 => n = 2 \/ n = 3)
      OBVIOUS
    <3> QED BY <1>3, <2>2, <3>1, Zenon
  <2>4. \E y \in Seq(PrepSteps) : (P \o Q)[1] = y \o ReadAddCheck(t)
    BY <1>2, <2>2
  <2>5. Shape(P \o Q, 1, 3, t)
    <3> DEFINE R == P \o Q
    <3>1. Len(R) = 3 /\ Len(R) >= 3
      BY <2>2
    <3>2. R \in Seq(Seq(StepType))
      BY <2>2
    <3> HIDE DEF f
    <3> QED BY <2>3, <2>4, <3>1, <3>2, Zenon DEF Shape
  <2> QED BY <2>5 DEF P, Q
<1>8. Shape(<<first>> \o <<over, overLp>> \o rest, 1, 3, t)
  <2> HIDE DEF first
  <2> QED BY <1>6, <1>7, ShapeMore
<1>9. Shape(<<first>> \o <<over, overLp>> \o rest \o QuoteScenarios(t)
              \o <<ResetSteps(t, u)>>, 1, 3, t)
  <2> DEFINE P == <<first>> \o <<over, overLp>> \o rest
             R == <<ResetSteps(t, u)>>
  <2>1. R \in Seq(Seq(LaterSteps)) /\ Shape(P, 1, 3, t)
    BY <1>6, <1>8
  <2> HIDE DEF P, R
  <2>2. Shape(P \o QuoteScenarios(t), 1, 3, t)
    BY <1>6, <2>1, ShapeMore
  <2>3. Shape(P \o QuoteScenarios(t) \o R, 1, 3, t)
    BY <2>1, <2>2, ShapeMore
  <2> QED BY <2>3 DEF P, R
<1> QED BY <1>1, <1>9

LEMMA FactoryShape ==
  ASSUME NEW t \in Tokens, NEW u \in Tokens
  PROVE  Shape(FactoryScenarios(t, u), 4, 4, t)
<1> DEFINE x == AssociateStep(t) \o <<Step("collect", t, 0)>> \o AllowSteps(t, u)
           one == <<Step("create", t, 0)>>
           two == <<Step("again", t, 0)>>
           three == <<Step("identical", t, 0)>>
           four == x \o ReadAddCheck(t)
           five == RemoveLiquiditySteps(t)
           six == Present(t) \o SwapSteps(t)
           seven == Present(t) \o SwapSteps(u)
           P == <<one, two, three, four, five, six, seven>>
<1>1. FactoryScenarios(t, u) = P \o QuoteScenarios(t) \o <<ResetSteps(t, u)>>
  BY DEF FactoryScenarios
<1>2. /\ x \in Seq(PrepSteps) /\ one \in Seq(PrepSteps) /\ two \in Seq(PrepSteps)
      /\ three \in Seq(PrepSteps)
  BY PreparesSteps
<1>3. five \in Seq(LaterSteps) /\ six \in Seq(LaterSteps) /\ seven \in Seq(LaterSteps)
  BY StepsLater
<1>4. /\ QuoteScenarios(t) \in Seq(Seq(LaterSteps))
      /\ <<ResetSteps(t, u)>> \in Seq(Seq(LaterSteps))
  <2>1. \A a : a \in Seq(LaterSteps) => <<a>> \in Seq(Seq(LaterSteps))
    OBVIOUS
  <2> QED BY <2>1, StepsLater, Zenon
<1>5. four \in Seq(StepType)
  <2>1. ReadAddCheck(t) \in Seq(StepType) /\ x \in Seq(StepType)
    BY <1>2, StepsTyped DEF PrepSteps, Scenario
  <2> HIDE DEF x
  <2> QED BY <2>1
<1>6. Shape(P, 4, 4, t)
  <2>1. four = x \o ReadAddCheck(t)
    OBVIOUS
  <2> HIDE DEF x, one, two, three, four, five, six, seven
  <2>2. /\ one \in Seq(StepType) /\ two \in Seq(StepType) /\ three \in Seq(StepType)
        /\ five \in Seq(StepType) /\ six \in Seq(StepType) /\ seven \in Seq(StepType)
    BY <1>2, <1>3, PartsOfScenarios
  <2>3. P \in Seq(Seq(StepType)) /\ Len(P) = 7
    BY <1>5, <2>2
  <2>4. /\ P[1] = one /\ P[2] = two /\ P[3] = three /\ P[4] = four
        /\ P[5] = five /\ P[6] = six /\ P[7] = seven
    OBVIOUS
  <2> HIDE DEF P
  <2>5. ASSUME NEW n \in 1 .. Len(P)
        PROVE  /\ n < 4 => P[n] \in Seq(PrepSteps)
               /\ n > 4 /\ n <= 4 => P[n] \in Seq(CheckSteps(t))
               /\ n > 4 => P[n] \in Seq(LaterSteps)
    <3>1. n < 4 => n = 1 \/ n = 2 \/ n = 3
      BY <2>3
    <3>2. n > 4 => n = 5 \/ n = 6 \/ n = 7
      BY <2>3
    <3>3. ~ (n > 4 /\ n <= 4)
      BY <2>3
    <3> QED BY <1>2, <1>3, <2>4, <3>1, <3>2, <3>3, Zenon
  <2>6. Len(P) >= 4
    BY <2>3
  <2> QED BY <1>2, <2>1, <2>3, <2>4, <2>5, <2>6 DEF Shape
<1> HIDE DEF P
<1> DEFINE R == <<ResetSteps(t, u)>>
<1>7. R \in Seq(Seq(LaterSteps))
  BY <1>4
<1> HIDE DEF R
<1>8. Shape(P \o QuoteScenarios(t), 4, 4, t)
  BY <1>4, <1>6, ShapeMore
<1>9. Shape(P \o QuoteScenarios(t) \o R, 4, 4, t)
  BY <1>7, <1>8, ShapeMore
<1> QED BY <1>1, <1>9 DEF R

LEMMA ProgramShape ==
  ASSUME world \in Worlds, ~ IsScript
  PROVE  Shape(Program, AddsAt, ChecksTo, world.tokens[1])
<1> DEFINE t == world.tokens[1]
           u == world.tokens[2]
<1>1. t \in Tokens /\ u \in Tokens /\ world.client \in Clients
  BY PoolClientAssumption
<1>2. CASE world.client = "PairTest"
  <2>1. Program = PairScenarios(t, u) /\ AddsAt = 1 /\ ChecksTo = 3
    BY <1>2 DEF Program, AddsAt, ChecksTo
  <2> HIDE DEF t, u
  <2>2. Shape(Program, AddsAt, ChecksTo, t)
    BY <1>1, <2>1, PairShape, Zenon
  <2> QED BY <2>2 DEF t
<1>3. CASE world.client = "FactoryTest"
  <2>1. Program = FactoryScenarios(t, u) /\ AddsAt = 4 /\ ChecksTo = 4
    BY <1>3 DEF Program, AddsAt, ChecksTo
  <2> HIDE DEF t, u
  <2>2. Shape(Program, AddsAt, ChecksTo, t)
    BY <1>1, <2>1, FactoryShape, Zenon
  <2> QED BY <2>2 DEF t
<1> QED BY <1>1, <1>2, <1>3 DEF IsScript, Clients

(* Before the client adds, at it, and after it as long as it checks. *)
BeforeAdd ==
  line < AddsAt \/ (line = AddsAt /\ at < Len(Program[AddsAt]) - 1)

AtAdd == line = AddsAt /\ at = Len(Program[AddsAt]) - 1

AfterAdd ==
  \/ line = AddsAt /\ at = Len(Program[AddsAt])
  \/ line > AddsAt /\ line <= ChecksTo

LEMMA AddingScenario ==
  ASSUME PlaceOK, ~ IsScript
  PROVE  LET t == world.tokens[1]
             n == Len(Program[AddsAt])
         IN  /\ n \in Nat /\ n >= 3
             /\ AddsAt \in 1 .. 4 /\ ChecksTo \in 1 .. 4 /\ AddsAt <= ChecksTo
             /\ ChecksTo <= Len(Program)
             /\ \A m \in 1 .. (n - 2) : Program[AddsAt][m].do \in
                  {"initialize", "create", "again", "identical", "collect",
                   "associate", "allow", "read"}
             /\ Program[AddsAt][n - 1] = Step("add", t, 0)
             /\ Program[AddsAt][n] = Step("check", t, 0)
<1> DEFINE t == world.tokens[1]
           n == Len(Program[AddsAt])
<1>1. t \in Tokens /\ Shape(Program, AddsAt, ChecksTo, t)
  BY WorldTyped, ProgramShape DEF PlaceOK
<1>2. AddsAt \in 1 .. 4 /\ ChecksTo \in 1 .. 4 /\ AddsAt <= ChecksTo
  BY DEF AddsAt, ChecksTo
<1> HIDE DEF t
<1>3. PICK x \in Seq(PrepSteps) : Program[AddsAt] = x \o ReadAddCheck(t)
  BY <1>1 DEF Shape
<1> DEFINE r == ReadAddCheck(t)
           z == x \o r
<1>4. x \in Seq(StepType) /\ r \in Seq(StepType)
  BY <1>1, <1>3, PartsOfScenarios, StepsTyped DEF Scenario
<1>5. /\ Len(r) = 3 /\ r[1] = Step("read", t, 0) /\ r[2] = Step("add", t, 0)
      /\ r[3] = Step("check", t, 0)
  BY DEF ReadAddCheck
<1> HIDE DEF r
<1>6. /\ Len(z) = Len(x) + 3
      /\ \A m \in 1 .. (Len(x) + 3) : z[m] = IF m <= Len(x) THEN x[m] ELSE r[m - Len(x)]
  <2>1. /\ Len(z) = Len(x) + Len(r)
        /\ \A m \in 1 .. (Len(x) + Len(r)) :
             z[m] = IF m <= Len(x) THEN x[m] ELSE r[m - Len(x)]
    BY <1>4, ConcatProperties
  <2> HIDE DEF z
  <2> QED BY <1>5, <2>1
<1> HIDE DEF z
<1>7. Len(x) \in Nat /\ n = Len(x) + 3 /\ Program[AddsAt] = z
  BY <1>3, <1>4, <1>6 DEF z, r
<1>8. z[n - 1] = Step("add", t, 0) /\ z[n] = Step("check", t, 0)
  <2>1. /\ n - 1 \in 1 .. (Len(x) + 3) /\ n \in 1 .. (Len(x) + 3)
        /\ (n - 1) - Len(x) = 2 /\ n - Len(x) = 3 /\ ~ (n - 1 <= Len(x)) /\ ~ (n <= Len(x))
    BY <1>7
  <2> QED BY <1>5, <1>6, <2>1
<1>9. ASSUME NEW m \in 1 .. (n - 2)
      PROVE  z[m].do \in {"initialize", "create", "again", "identical", "collect",
                          "associate", "allow", "read"}
  <2>1. m \in 1 .. (Len(x) + 3) /\ (m <= Len(x) \/ m = Len(x) + 1)
    BY <1>7
  <2>2. CASE m <= Len(x)
    <3>1. z[m] = x[m] /\ x[m] \in PrepSteps
      BY <1>3, <1>6, <1>7, <2>1, <2>2
    <3> QED BY <3>1 DEF PrepSteps
  <2>3. CASE m = Len(x) + 1
    <3>1. z[m] = r[1]
      BY <1>6, <1>7, <2>1, <2>3
    <3> QED BY <1>5, <3>1 DEF Step
  <2> QED BY <2>1, <2>2, <2>3
<1>10. ChecksTo <= Len(Program)
  BY <1>1, <1>2 DEF Shape
<1>11. n \in Nat /\ n >= 3
  BY <1>7
<1> QED BY <1>2, <1>7, <1>8, <1>9, <1>10, <1>11, Zenon DEF t

(* What the client is about to do before it adds, at it, and after it. *)
LEMMA Path ==
  ASSUME PlaceOK, Running, ~ IsScript
  PROVE  /\ BeforeAdd => This.do \in {"initialize", "create", "again", "identical",
                                      "collect", "associate", "allow", "read"}
         /\ AtAdd => This = Step("add", world.tokens[1], 0)
         /\ AfterAdd => \/ This.do \in {"allow", "allowLp", "tooMuch"}
                        \/ This = Step("check", world.tokens[1], 0)
         /\ This.do = "check" => AfterAdd
<1> DEFINE t == world.tokens[1]
           n == Len(Program[AddsAt])
           prep == {"initialize", "create", "again", "identical", "collect",
                    "associate", "allow", "read"}
<1>1. /\ n \in Nat /\ n >= 3
      /\ AddsAt \in 1 .. 4 /\ ChecksTo \in 1 .. 4 /\ AddsAt <= ChecksTo
      /\ \A m \in 1 .. (n - 2) : Program[AddsAt][m].do \in prep
      /\ Program[AddsAt][n - 1] = Step("add", t, 0)
      /\ Program[AddsAt][n] = Step("check", t, 0)
  BY AddingScenario
<1>2. line \in 1 .. Len(Program) /\ at \in DOMAIN Program[line] /\ line \in Nat
  <2>1. Program \in Seq(Scenario)
    BY ProgramTyped DEF PlaceOK
  <2>2. Len(Program) \in Nat
    BY <2>1
  <2> QED BY <2>2 DEF PlaceOK, Running
<1>3. /\ line < AddsAt => Program[line] \in Seq(PrepSteps)
      /\ line > AddsAt /\ line <= ChecksTo => Program[line] \in Seq(CheckSteps(t))
      /\ line > ChecksTo => Program[line] \in Seq(LaterSteps)
  BY <1>2, ProgramShape DEF PlaceOK, Shape
<1>4. line = AddsAt => at \in 1 .. n
  <2>1. Program[line] \in Seq(StepType)
    BY ThisTyped DEF Scenario
  <2> QED BY <1>2, <2>1
<1>5. line < AddsAt => This.do \in prep
  <2>1. ASSUME line < AddsAt PROVE This \in PrepSteps
    BY <1>2, <1>3, <2>1 DEF This
  <2> QED BY <2>1 DEF PrepSteps
<1>6. (line > AddsAt /\ line <= ChecksTo)
        => This.do \in {"allow", "allowLp", "tooMuch"} \/ This = Step("check", t, 0)
  <2>1. ASSUME line > AddsAt, line <= ChecksTo PROVE This \in CheckSteps(t)
    BY <1>2, <1>3, <2>1 DEF This
  <2> QED BY <2>1 DEF CheckSteps
<1>7. line > ChecksTo => This.do # "check"
  <2>1. ASSUME line > ChecksTo PROVE This \in LaterSteps
    BY <1>2, <1>3, <2>1 DEF This
  <2> QED BY <2>1 DEF LaterSteps
<1>8. line = AddsAt => /\ at < n - 1 => This.do \in prep
                       /\ at = n - 1 => This = Step("add", t, 0)
                       /\ at = n => This = Step("check", t, 0)
  <2>1. ASSUME line = AddsAt, at < n - 1 PROVE at \in 1 .. (n - 2)
    BY <1>1, <1>4, <2>1
  <2> QED BY <1>1, <2>1 DEF This
<1>9. line = AddsAt => at < n - 1 \/ at = n - 1 \/ at = n
  BY <1>1, <1>4
<1>10. "check" \notin prep /\ Step("add", t, 0).do # "check"
  BY DEF Step
<1>11. line < AddsAt \/ line = AddsAt \/ (line > AddsAt /\ line <= ChecksTo) \/ line > ChecksTo
  BY <1>1, <1>2
<1> HIDE DEF n, t, prep
<1>12. BeforeAdd => This.do \in prep
  BY <1>5, <1>8 DEF BeforeAdd, n
<1>13. AtAdd => This = Step("add", t, 0)
  BY <1>8 DEF AtAdd, n
<1>14. AfterAdd => This.do \in {"allow", "allowLp", "tooMuch"} \/ This = Step("check", t, 0)
  BY <1>6, <1>8 DEF AfterAdd, n
<1>15. This.do = "check" => AfterAdd
  BY <1>5, <1>7, <1>8, <1>9, <1>10, <1>11, Zenon DEF AfterAdd, n
<1> QED BY <1>12, <1>13, <1>14, <1>15 DEF t, prep

(* The client adds once and in its turn. *)
LEMMA PathGoesOn ==
  ASSUME PlaceOK, Running, ~ IsScript, NextStep
  PROVE  /\ (BeforeAdd \/ AtAdd)' => BeforeAdd
         /\ AfterAdd' => AtAdd \/ AfterAdd
<1> DEFINE n == Len(Program[AddsAt])
           k == AddsAt
           m == ChecksTo
<1>1. n \in Nat /\ n >= 3 /\ k \in 1 .. 4 /\ m \in 1 .. 4 /\ k <= m
  BY AddingScenario
<1>2. world' = world
  BY DEF NextStep
<1>3. Program' = Program /\ AddsAt' = k /\ ChecksTo' = m
  BY <1>2 DEF Program, AddsAt, ChecksTo
<1>4. (Len(Program[AddsAt]))' = n
  BY <1>3, Zenon
<1>5. line \in Nat /\ (line = k => at \in 1 .. n)
  <2>1. Program[line] \in Seq(StepType)
    BY ThisTyped DEF Scenario
  <2> QED BY <2>1 DEF PlaceOK
<1>6. \/ at' = at + 1 /\ line' = line /\ (line = k => at < n)
      \/ at' = 1 /\ line' = line + 1 /\ (line = k => ~ (at < n))
  BY DEF NextStep
<1>7. /\ BeforeAdd' <=> line' < k \/ (line' = k /\ at' < n - 1)
      /\ AtAdd' <=> line' = k /\ at' = n - 1
      /\ AfterAdd' <=> (line' = k /\ at' = n) \/ (line' > k /\ line' <= m)
  BY <1>3, <1>4, Zenon DEF BeforeAdd, AtAdd, AfterAdd
<1>8. /\ BeforeAdd <=> line < k \/ (line = k /\ at < n - 1)
      /\ AtAdd <=> line = k /\ at = n - 1
      /\ AfterAdd <=> (line = k /\ at = n) \/ (line > k /\ line <= m)
  BY DEF BeforeAdd, AtAdd, AfterAdd
<1> HIDE DEF n, k, m
<1>9. (BeforeAdd \/ AtAdd)' => line' < k \/ (line' = k /\ (at' < n - 1 \/ at' = n - 1))
  <2>1. (BeforeAdd \/ AtAdd)' => BeforeAdd' \/ AtAdd'
    OBVIOUS
  <2> QED BY <1>7, <2>1, Zenon
<1>10. CASE at' = at + 1 /\ line' = line /\ (line = k => at < n)
  BY <1>1, <1>5, <1>7, <1>8, <1>9, <1>10
<1>11. CASE at' = 1 /\ line' = line + 1 /\ (line = k => ~ (at < n))
  BY <1>1, <1>5, <1>7, <1>8, <1>9, <1>11
<1> QED BY <1>6, <1>10, <1>11

(* A client that nothing has thrown at and nobody has traded beside: the   *)
(* pools are empty until it adds, and hold what it added until it has      *)
(* checked.                                                                *)
EmptyYet ==
  before = <<0, 0>> /\ \A i \in Ids, s \in Sides : pools[i].qty[s] = 0

AddedOnly ==
  /\ before = <<0, 0>> /\ current # 0
  /\ \A s \in Sides : pools[current].qty[s] =
       IF pools[current].token[s] = world.tokens[1] THEN FirstQty ELSE SecondQty

AloneOK ==
  /\ stops \in Nat /\ acted \in Nat
  /\ (stops = 0 /\ acted = 0 /\ ~ IsScript) =>
       /\ (BeforeAdd \/ AtAdd) => EmptyYet
       /\ AfterAdd => AddedOnly

LEMMA UnchangedStand ==
  ASSUME PoolsGood, UNCHANGED pools
  PROVE  PoolsStand
BY DEF PoolsStand, Ids

LEMMA AppendStands ==
  ASSUME PoolsGood, NEW a \in Tokens, NEW b \in Tokens, a # b, NEW fee \in Fees,
         NEW service \in AllServices, pools' = Append(pools, NewPool(a, b, fee, service))
  PROVE  PoolsStand
<1> DEFINE r == NewPool(a, b, fee, service)
<1>1. PoolGood(r)
  BY NewPoolGood
<1>2. \A s \in Sides : r.qty[s] = 0
  BY DEF NewPool
<1> HIDE DEF r
<1>3. /\ PoolsBecome /\ Len(pools') = Len(pools) + 1
      /\ pools'[Len(pools) + 1] = r /\ \A i \in Ids : pools'[i] = pools[i]
  BY <1>1, AppendBecomes DEF r
<1>4. /\ Len(pools) \in Nat /\ Ids = 1 .. Len(pools)
      /\ DOMAIN pools' = 1 .. (Len(pools) + 1)
  BY <1>3 DEF PoolsBecome, PoolsGood, Ids
<1>5. \A i \in DOMAIN pools' \ Ids : i = Len(pools) + 1
  BY <1>4
<1>6. \A i \in Ids : i \in DOMAIN pools'
  BY <1>4
<1> QED BY <1>2, <1>3, <1>5, <1>6 DEF PoolsStand

LEMMA CreatePairStands ==
  ASSUME Inv, NEW t \in Tokens, NEW u \in Tokens, NEW fee \in Fees, CreatePair(t, u, fee)
  PROVE  PoolsStand
<1> DEFINE key == KeyOf(t, u, fee)
<1>1. t # u /\ hederaService \in AllServices
  BY DEF CreatePair, Inv, FactoryOK
<1>2. key[1] \in Tokens /\ key[2] \in Tokens /\ key[1] # key[2]
  BY <1>1, KeysSorted
<1>3. \/ UNCHANGED pools
      \/ pools' = Append(pools, NewPool(key[1], key[2], fee, hederaService))
  BY DEF CreatePair
<1> HIDE DEF key
<1> QED BY <1>1, <1>2, <1>3, AppendStands, UnchangedStand DEF Inv

LEMMA UpgradeStands ==
  ASSUME PoolsGood, NEW service, UpgradeHederaService(service)
  PROVE  PoolsStand
<1> DEFINE new(i) == IF i \in Upgraded THEN WithService(pools[i], service) ELSE pools[i]
<1>1. pools' = [i \in Ids |-> new(i)]
  BY DEF UpgradeHederaService
<1>2. \A i \in Ids : new(i).token = pools[i].token /\ new(i).qty = pools[i].qty
  BY DEF WithService, PoolsGood, PoolGood, Pool
<1> HIDE DEF new
<1> QED BY <1>1, <1>2 DEF PoolsStand

(* A step that moves no tokens of the pools, of the client or of others.   *)
LEMMA StandKeepsAlone ==
  ASSUME Inv, Inv', AloneOK, PoolsStand, UNCHANGED <<before, stops, acted>>,
         \/ UNCHANGED <<placeVars, current>>
         \/ /\ Running /\ NextStep /\ This.do # "add"
            /\ This.do \notin {"initialize", "create"} => current' = current
  PROVE  AloneOK'
<1>1. SUFFICES ASSUME stops = 0, acted = 0, ~ IsScript
               PROVE  /\ (BeforeAdd \/ AtAdd)' => EmptyYet'
                      /\ AfterAdd' => AddedOnly'
  <2>1. world' = world
    BY DEF placeVars, NextStep
  <2>2. IsScript' = IsScript
    BY <2>1 DEF IsScript
  <2> QED BY <1>1, <2>2 DEF AloneOK
<1>2. world' = world
  BY DEF placeVars, NextStep
<1>3. EmptyYet => EmptyYet'
  <2> SUFFICES ASSUME EmptyYet, NEW i \in Ids', NEW s \in Sides
               PROVE  pools'[i].qty[s] = 0
    BY DEF EmptyYet
  <2>1. CASE i \in Ids
    BY <2>1 DEF EmptyYet, PoolsStand
  <2>2. CASE i \notin Ids
    BY <2>2 DEF PoolsStand, Ids
  <2> QED BY <2>1, <2>2
<1>4. AddedOnly /\ current' = current => AddedOnly'
  <2> SUFFICES ASSUME AddedOnly, current' = current
               PROVE  AddedOnly'
    OBVIOUS
  <2>1. current \in Ids /\ current # 0
    BY CurrentId DEF AddedOnly
  <2>2. pools'[current].token = pools[current].token /\ pools'[current].qty = pools[current].qty
    BY <2>1 DEF PoolsStand
  <2> QED BY <1>2, <2>1, <2>2 DEF AddedOnly
<1>5. CASE UNCHANGED <<placeVars, current>>
  <2>1. BeforeAdd' = BeforeAdd /\ AtAdd' = AtAdd /\ AfterAdd' = AfterAdd
    <3>1. line' = line /\ at' = at
      BY <1>5 DEF placeVars
    <3>2. Program' = Program /\ AddsAt' = AddsAt /\ ChecksTo' = ChecksTo
      BY <1>2 DEF Program, AddsAt, ChecksTo
    <3> HIDE DEF Program
    <3> QED BY <3>1, <3>2 DEF BeforeAdd, AtAdd, AfterAdd
  <2>2. (BeforeAdd \/ AtAdd)' => BeforeAdd \/ AtAdd
    BY <2>1
  <2> QED BY <1>1, <1>3, <1>4, <1>5, <2>1, <2>2, Zenon DEF AloneOK
<1>6. CASE /\ Running /\ NextStep /\ This.do # "add"
           /\ This.do \notin {"initialize", "create"} => current' = current
  <2>1. /\ (BeforeAdd \/ AtAdd)' => BeforeAdd
        /\ AfterAdd' => AtAdd \/ AfterAdd
    BY <1>1, <1>6, PathGoesOn DEF Inv
  <2>2. ~ AtAdd
    <3>1. AtAdd => This.do = "add"
      BY <1>1, <1>6, Path DEF Inv, Step
    <3> QED BY <1>6, <3>1
  <2>3. AfterAdd => current' = current
    <3>1. AfterAdd => This.do \in {"allow", "allowLp", "tooMuch", "check"}
      BY <1>1, <1>6, Path DEF Inv, Step
    <3> QED BY <1>6, <3>1
  <2> QED BY <1>1, <1>3, <1>4, <2>1, <2>2, <2>3, Zenon DEF AloneOK
<1> QED BY <1>5, <1>6

(* What the client reads of an empty pool. *)
LEMMA ReadKeepsAlone ==
  ASSUME Inv, AloneOK, ReadPairQty
  PROVE  AloneOK'
<1>1. /\ Running /\ NextStep /\ This.do = "read" /\ current # 0
      /\ UNCHANGED <<pools, current, stops, acted>>
      /\ before' = IF CurrentSide(This.token) = "a" THEN PairQty ELSE <<PairQty[2], PairQty[1]>>
  BY DEF ReadPairQty, Now, This, poolVars, restVars
<1>2. world' = world /\ IsScript' = IsScript
  BY <1>1 DEF NextStep, IsScript
<1>3. ASSUME stops = 0, acted = 0, ~ IsScript
      PROVE  /\ (BeforeAdd \/ AtAdd)' => EmptyYet'
             /\ AfterAdd' => AddedOnly'
  <2>1. /\ (BeforeAdd \/ AtAdd)' => BeforeAdd
        /\ AfterAdd' => AtAdd \/ AfterAdd
    BY <1>1, <1>3, PathGoesOn DEF Inv
  <2>2. /\ AtAdd => This.do = "add"
        /\ AfterAdd => This.do \in {"allow", "allowLp", "tooMuch", "check"}
    BY <1>1, <1>3, Path DEF Inv, Step
  <2>3. ~ AtAdd /\ ~ AfterAdd
    BY <1>1, <2>2
  <2>4. EmptyYet => EmptyYet'
    <3> SUFFICES ASSUME EmptyYet PROVE EmptyYet'
      OBVIOUS
    <3>1. current \in Ids
      BY <1>1, CurrentId
    <3>2. PairQty = <<0, 0>>
      BY <3>1 DEF EmptyYet, PairQty, Sides
    <3>3. before' = <<0, 0>>
      BY <1>1, <3>2
    <3> QED BY <1>1, <3>3 DEF EmptyYet, Ids
  <2> QED BY <1>3, <2>1, <2>3, <2>4, Zenon DEF AloneOK
<1> QED BY <1>1, <1>2, <1>3 DEF AloneOK

(* Adding to an empty pool. *)
LEMMA AddKeepsAlone ==
  ASSUME Inv, AloneOK, AddLiquidityStep
  PROVE  AloneOK'
<1>1. /\ Running /\ NextStep /\ This.do = "add" /\ current # 0
      /\ UNCHANGED <<current, before, stops, acted>>
      /\ AddLiquidity(current, Client, Client, This.token, Second(This.token),
                      <<FirstQty, SecondQty>>)
  BY DEF AddLiquidityStep, SendAddLiquidity, Now, This, restVars
<1>2. world' = world /\ IsScript' = IsScript
  BY <1>1 DEF NextStep, IsScript
<1>3. ASSUME stops = 0, acted = 0, ~ IsScript
      PROVE  /\ (BeforeAdd \/ AtAdd)' => EmptyYet'
             /\ AfterAdd' => AddedOnly'
  <2>1. /\ (BeforeAdd \/ AtAdd)' => BeforeAdd
        /\ AfterAdd' => AtAdd \/ AfterAdd
    BY <1>1, <1>3, PathGoesOn DEF Inv
  <2>2. ~ BeforeAdd
    <3>1. BeforeAdd => This.do \in {"initialize", "create", "again", "identical",
                                    "collect", "associate", "allow", "read"}
      BY <1>1, <1>3, Path DEF Inv
    <3> QED BY <1>1, <3>1
  <2>3. ~ AfterAdd
    <3>1. AfterAdd => This.do \in {"allow", "allowLp", "tooMuch", "check"}
      BY <1>1, <1>3, Path DEF Inv, Step
    <3> QED BY <1>1, <3>1
  <2>4. AtAdd => This.token = world.tokens[1]
    BY <1>1, <1>3, Path DEF Inv, Step
  <2>5. ASSUME AtAdd, EmptyYet PROVE AddedOnly'
    <3> DEFINE p == pools[current]
               q == [s \in Sides |-> IF p.token[s] = world.tokens[1]
                                     THEN FirstQty ELSE SecondQty]
    <3>1. current \in Ids /\ p \in Pool /\ \A s \in Sides : p.qty[s] = 0
      BY <1>1, <2>5, CurrentId DEF EmptyYet, Inv, PoolsGood, PoolGood
    <3>2. Quantities(current, This.token, <<FirstQty, SecondQty>>) = q
      BY <2>4, <2>5 DEF Quantities
    <3>3. /\ pools'[current].qty = [s \in Sides |-> p.qty[s] + q[s]]
          /\ pools'[current].token = p.token
      <4> DEFINE al == [s \in Sides |-> Spent(current, s, Client, q[s])]
                 qty == [s \in Sides |-> p.qty[s] + q[s]]
                 held == [s \in Sides |-> p.held[s] + q[s]]
                 lp == LpTokenCount(p, q)
                 r == [p EXCEPT !.qty = qty, !.held = held, !.allow = al, !.lp[Client] = @ + lp]
      <4>1. pools' = [pools EXCEPT ![current] = r]
        BY <1>1, <3>2 DEF AddLiquidity
      <4>2. pools'[current] = r
        BY <3>1, <4>1 DEF Ids
      <4> HIDE DEF al, qty, held, lp
      <4>3. r.qty = qty /\ r.token = p.token
        <5> HIDE DEF p
        <5> QED BY <3>1 DEF Pool
      <4> QED BY <4>2, <4>3 DEF qty
    <3>4. \A s \in Sides : q[s] \in Nat
      BY Amounts
    <3>5. \A s \in Sides : pools'[current].qty[s] = q[s]
      <4> HIDE DEF p, q
      <4> QED BY <3>1, <3>3, <3>4
    <3> QED BY <1>1, <1>2, <2>5, <3>3, <3>5 DEF EmptyYet, AddedOnly
  <2> QED BY <1>3, <2>1, <2>2, <2>3, <2>5, Zenon DEF AloneOK
<1> QED BY <1>1, <1>2, <1>3 DEF AloneOK

(* What comes after the checks. *)
LEMMA LaterKeepsAlone ==
  ASSUME Inv, AloneOK, RemoveLiquidityStep \/ SwapTokenStep
  PROVE  AloneOK'
<1>1. /\ Running /\ NextStep /\ This.do \in {"remove", "swap"}
      /\ UNCHANGED <<stops, acted>>
  BY DEF RemoveLiquidityStep, SwapTokenStep, Now, This, restVars
<1>2. IsScript' = IsScript
  BY <1>1 DEF NextStep, IsScript
<1>3. ASSUME ~ IsScript PROVE ~ (BeforeAdd \/ AtAdd)' /\ ~ AfterAdd'
  <2>1. /\ (BeforeAdd \/ AtAdd)' => BeforeAdd
        /\ AfterAdd' => AtAdd \/ AfterAdd
    BY <1>1, <1>3, PathGoesOn DEF Inv
  <2>2. /\ AtAdd => This.do = "add"
        /\ AfterAdd => This.do \in {"allow", "allowLp", "tooMuch", "check"}
        /\ BeforeAdd => This.do \in {"initialize", "create", "again", "identical",
                                     "collect", "associate", "allow", "read"}
    BY <1>1, <1>3, Path DEF Inv, Step
  <2> QED BY <1>1, <2>1, <2>2
<1> QED BY <1>1, <1>2, <1>3 DEF AloneOK

LEMMA CreationKeepsAlone ==
  ASSUME Inv, Inv', AloneOK, InitializePair \/ CreatePairStep \/ CreatePairAgain
  PROVE  AloneOK'
<1>1. /\ Running /\ NextStep /\ This.do # "add"
      /\ This.do \notin {"initialize", "create"} => current' = current
      /\ UNCHANGED <<before, stops, acted>>
  BY DEF InitializePair, CreatePairStep, CreatePairAgain, Now, This, restVars
<1>2. /\ world.tokens[1] \in Tokens /\ world.tokens[2] \in Tokens
      /\ world.tokens[1] # world.tokens[2] /\ world.fee \in Fees
      /\ This.token \in Tokens /\ Second(This.token) \in Tokens
  BY <1>1, ThisTyped, WorldTyped DEF Inv
<1>3. CASE InitializePair
  <2>1. \/ UNCHANGED pools
        \/ pools' = Append(pools, NewPool(world.tokens[1], world.tokens[2],
                                          world.fee, NewService))
    BY <1>3 DEF InitializePair
  <2>2. NewService \in AllServices
    BY DEF AllServices
  <2>3. PoolsStand
    BY <1>2, <2>1, <2>2, AppendStands, UnchangedStand DEF Inv
  <2> QED BY <1>1, <2>3, StandKeepsAlone
<1>4. CASE CreatePairStep
  <2>1. CreatePair(This.token, Second(This.token), world.fee)
    BY <1>4 DEF CreatePairStep, SendCreatePair
  <2>2. PoolsStand
    BY <1>2, <2>1, CreatePairStands
  <2> QED BY <1>1, <2>2, StandKeepsAlone
<1>5. CASE CreatePairAgain
  <2>1. CreatePair(Second(This.token), This.token, world.fee)
    BY <1>5 DEF CreatePairAgain, SendCreatePair
  <2>2. PoolsStand
    BY <1>2, <2>1, CreatePairStands
  <2> QED BY <1>1, <2>2, StandKeepsAlone
<1> QED BY <1>3, <1>4, <1>5

LEMMA PreparationKeepsAlone ==
  ASSUME Inv, Inv', AloneOK,
         \/ AssociateLpToken \/ SetTokenAllowance \/ SetSwapAllowance
         \/ SetLpAllowance \/ UpgradePairService
  PROVE  AloneOK'
<1>1. /\ Running /\ NextStep /\ This.do # "add" /\ current # 0
      /\ UNCHANGED <<current, before, stops, acted>>
  BY DEF AssociateLpToken, SetTokenAllowance, SetSwapAllowance, SetLpAllowance,
         UpgradePairService, Now, This, restVars
<1>2. current \in Ids
  BY <1>1, CurrentId
<1>3. /\ This.amount \in Nat /\ Client \in Users /\ SwapAccount \in Users
      /\ CurrentSide(This.token) \in Sides
  BY <1>1, ThisTyped, WorldTyped, PoolClientAssumption DEF Inv, CurrentSide, Sides
<1>4. PoolsStand
  <2>1. CASE AssociateLpToken
    <3>1. AssociateLp(current, Client) \/ UNCHANGED pools
      BY <2>1 DEF AssociateLpToken, poolVars
    <3> QED BY <1>2, <1>3, <3>1, AssociateLpChanges, UnchangedStand DEF Inv
  <2>2. CASE SetTokenAllowance
    <3>1. Allow(current, CurrentSide(This.token), Client, This.amount)
      BY <2>2 DEF SetTokenAllowance
    <3> QED BY <1>2, <1>3, <3>1, AllowChanges
  <2>3. CASE SetSwapAllowance
    <3>1. Allow(current, CurrentSide(This.token), SwapAccount, This.amount)
      BY <2>3 DEF SetSwapAllowance
    <3> QED BY <1>2, <1>3, <3>1, AllowChanges
  <2>4. CASE SetLpAllowance
    <3>1. AllowLp(current, Client, This.amount)
      BY <2>4 DEF SetLpAllowance
    <3> QED BY <1>2, <1>3, <3>1, AllowLpChanges
  <2>5. CASE UpgradePairService
    <3>1. /\ pools' = [pools EXCEPT ![current] = WithService(@, NewService)]
          /\ wallet' = wallet
      BY <2>5 DEF UpgradePairService
    <3> QED BY <1>2, <3>1, UpgradePairChanges
  <2> QED BY <2>1, <2>2, <2>3, <2>4, <2>5
<1> QED BY <1>1, <1>4, StandKeepsAlone

LEMMA AskingKeepsAlone ==
  ASSUME Inv, Inv', AloneOK,
         CreateIdentical \/ MoreThanMax \/ AssociateTreasuryUnawaited \/ Asks
  PROVE  AloneOK'
<1>1. /\ UNCHANGED <<pools, current, before, stops, acted>>
      /\ Running /\ NextStep /\ This.do # "add"
  BY DEF CreateIdentical, MoreThanMax, AssociateTreasuryUnawaited,
         Asks, VerifyTokensInPool, TokensArePresent, FetchSpotPrice, CalculateOut,
         CalculateIn, CalculateSlippageOut, CalculateSlippageIn, RecommendStep,
         Caught, Reads, Now, This, poolVars, restVars
<1>2. PoolsStand
  BY <1>1, UnchangedStand DEF Inv
<1> QED BY <1>1, <1>2, StandKeepsAlone

LEMMA StepKeepsAlone ==
  ASSUME Inv, Inv', AloneOK, [Next]_allVars
  PROVE  AloneOK'
<1>1. CASE UpgradeFactoryService
  <2>1. /\ Running /\ NextStep /\ This.do # "add" /\ UpgradeHederaService(NewService)
        /\ UNCHANGED <<current, before, stops, acted>>
    BY <1>1 DEF UpgradeFactoryService, Now, This, restVars
  <2>2. PoolsStand
    BY <2>1, UpgradeStands DEF Inv
  <2> QED BY <2>1, <2>2, StandKeepsAlone
<1>2. CASE StepThrows \/ RunAgain
  <2>1. stops' = stops + 1 /\ acted' = acted
    BY <1>2 DEF StepThrows, RunAgain
  <2> QED BY <2>1 DEF AloneOK
<1>3. CASE ClientNext
  BY <1>1, <1>2, <1>3, CreationKeepsAlone, AskingKeepsAlone, PreparationKeepsAlone,
     ReadKeepsAlone, AddKeepsAlone, LaterKeepsAlone, Zenon DEF ClientNext
<1>4. CASE AssociationEnds
  <2>1. UNCHANGED <<pools, current, placeVars, before, stops, acted>>
    BY <1>4 DEF AssociationEnds, AssociateTreasury, poolVars
  <2>2. PoolsStand
    BY <2>1, UnchangedStand DEF Inv
  <2> QED BY <2>1, <2>2, StandKeepsAlone
<1>5. ASSUME NEW i \in Ids, NEW u \in Users, OtherPrepares(i, u)
      PROVE  AloneOK'
  <2>1. PoolsStand
    BY <1>5, OtherPreparesChanges
  <2>2. UNCHANGED <<placeVars, current, before, stops, acted>>
    BY <1>5 DEF OtherPrepares, restVars
  <2> QED BY <2>1, <2>2, StandKeepsAlone
<1>6. CASE OthersAct
  <2>1. acted' = acted + 1 /\ stops' = stops
    BY <1>6 DEF OthersAct, OthersDone
  <2> QED BY <2>1 DEF AloneOK
<1>7. CASE UNCHANGED allVars
  <2>1. UNCHANGED <<pools, current, placeVars, before, stops, acted>>
    BY <1>7 DEF allVars, poolVars, restVars
  <2>2. PoolsStand
    BY <2>1, UnchangedStand DEF Inv
  <2> QED BY <2>1, <2>2, StandKeepsAlone
<1> QED BY <1>3, <1>4, <1>5, <1>6, <1>7 DEF Next

LEMMA InitAlone ==
  ASSUME Init
  PROVE  AloneOK
<1>1. /\ line = 1 /\ at = 1 /\ before = <<0, 0>> /\ acted = 0 /\ stops = 0 /\ Ids = {}
  BY DEF Init, PairInit, Ids
<1>2. EmptyYet
  BY <1>1 DEF EmptyYet
<1>3. ASSUME ~ IsScript PROVE ~ AfterAdd
  <2> DEFINE n == Len(Program[AddsAt])
             k == AddsAt
  <2>1. n \in Nat /\ n >= 3 /\ k \in 1 .. 4
    BY <1>3, InitInv, AddingScenario DEF Inv
  <2>2. AfterAdd => at = n \/ line > k
    BY DEF AfterAdd
  <2> HIDE DEF n, k
  <2> QED BY <1>1, <2>1, <2>2
<1> QED BY <1>1, <1>2, <1>3 DEF AloneOK

(* The scripts do not check. *)
LEMMA ScriptsAsk ==
  ASSUME PlaceOK, IsScript, Running
  PROVE  This.do # "check"
<1> DEFINE t == world.tokens[1]
           u == world.tokens[2]
<1>1. t \in Tokens /\ u \in Tokens
  BY WorldTyped
<1> HIDE DEF t, u
<1>2. \A d \in Acts, n \in Nat, v \in Tokens :
        d # "check" => Step(d, v, n) \in LaterSteps
  BY StepTyped DEF LaterSteps, Step
<1>3. \A v, w : v \in LaterSteps /\ w \in LaterSteps =>
        <<v>> \in Seq(LaterSteps) /\ <<v, w>> \in Seq(LaterSteps)
  OBVIOUS
<1>4. /\ <<Step("initialize", t, 0)>> \in Seq(LaterSteps)
      /\ <<Step("create", t, 0)>> \in Seq(LaterSteps)
      /\ <<Step("upgradePair", t, 0)>> \in Seq(LaterSteps)
      /\ <<Step("upgrade", t, 0), Step("recommend", t, SwapQty)>> \in Seq(LaterSteps)
  <2>1. /\ Step("initialize", t, 0) \in LaterSteps /\ Step("create", t, 0) \in LaterSteps
        /\ Step("upgradePair", t, 0) \in LaterSteps /\ Step("upgrade", t, 0) \in LaterSteps
        /\ Step("recommend", t, SwapQty) \in LaterSteps
    BY <1>1, <1>2, Amounts DEF Acts
  <2> QED BY <1>3, <2>1, Zenon
<1>5. /\ AllowSteps(t, u) \in Seq(LaterSteps) /\ AssociateStep(t) \in Seq(LaterSteps)
      /\ AddStep(t) \in Seq(LaterSteps)
  <2>1. /\ Step("allow", t, FirstQty) \in LaterSteps /\ Step("allow", u, SecondQty) \in LaterSteps
        /\ Step("associate", t, 0) \in LaterSteps /\ Step("add", t, 0) \in LaterSteps
    BY <1>1, <1>2, Amounts DEF Acts
  <2> QED BY <1>3, <2>1, Zenon DEF AllowSteps, AssociateStep, AddStep
<1>6. /\ RemoveLiquiditySteps(t) \in Seq(LaterSteps) /\ SwapSteps(t) \in Seq(LaterSteps)
      /\ SwapSteps(u) \in Seq(LaterSteps) /\ QuoteSteps(t) \in Seq(LaterSteps)
  BY <1>1, StepsLater
<1>7. Program = PairScript(t, u) \/ Program = FactoryScript(t, u)
  BY DEF IsScript, Program, t, u
<1>8. /\ Len(PairScript(t, u)) = 1 /\ PairScript(t, u)[1] \in Seq(LaterSteps)
      /\ Len(FactoryScript(t, u)) = 1 /\ FactoryScript(t, u)[1] \in Seq(LaterSteps)
  <2>1. \A v : Len(<<v>>) = 1 /\ <<v>>[1] = v
    OBVIOUS
  <2>2. PairAddLiquidity(t, u) \in Seq(LaterSteps) /\ FactoryAddLiquidity(t, u) \in Seq(LaterSteps)
    BY <1>5 DEF PairAddLiquidity, FactoryAddLiquidity
  <2>3. <<Step("initialize", t, 0)>> \o PairAddLiquidity(t, u)
          \o RemoveLiquiditySteps(t) \o SwapSteps(t) \o QuoteSteps(t)
          \o <<Step("upgradePair", t, 0)>> \in Seq(LaterSteps)
    BY <1>4, <1>6, <2>2
  <2>4. <<Step("create", t, 0)>> \o FactoryAddLiquidity(t, u)
          \o RemoveLiquiditySteps(t) \o SwapSteps(t) \o SwapSteps(u)
          \o <<Step("upgrade", t, 0), Step("recommend", t, SwapQty)>> \in Seq(LaterSteps)
    BY <1>4, <1>6, <2>2
  <2> QED BY <2>1, <2>3, <2>4, Zenon DEF PairScript, FactoryScript
<1>9. line \in 1 .. 1 /\ at \in DOMAIN Program[line]
  BY <1>7, <1>8 DEF PlaceOK, Running
<1>10. Program[line] \in Seq(LaterSteps)
  BY <1>7, <1>8, <1>9
<1> QED BY <1>9, <1>10 DEF This, LaterSteps

-----------------------------------------------------------------------------
(* The specification *)

(***************************************************************************)
(* Quantities, balances and shares are naturals, the client's steps name   *)
(* tokens of the world and its pair is one of the pools, whatever the      *)
(* client, the other accounts and the exceptions (Pair.sol, Factory.sol).  *)
(***************************************************************************)
THEOREM PoolsAreGood == Spec => []Inv
<1>1. Inv /\ [Next]_allVars => Inv'
  BY StepKept DEF Kept
<1> QED BY <1>1, InitInv, PTL DEF Spec

(***************************************************************************)
(* Whatever the other pairs' fees, a pair owns what it counts in every     *)
(* token but HBAR, and in HBAR too if its own fee is at most 200 %; and no *)
(* count goes below zero (Pair.sol:115-214, 602-719).                      *)
(***************************************************************************)
THEOREM PairsOwnWhatTheyCount == Spec => []ReservesBacked
<1>1. Inv => ReservesBacked
  <2> SUFFICES ASSUME Inv, NEW i \in Ids, NEW s \in Sides
               PROVE  /\ pools[i].qty[s] >= 0
                      /\ ~IsHbar(i, s) \/ Moderate(pools[i])
                           => pools[i].held[s] >= pools[i].qty[s]
    BY DEF ReservesBacked
  <2>1. PoolGood(pools[i]) /\ pools[i] \in Pool
    BY DEF Inv, PoolsGood, PoolGood
  <2>2. pools[i].qty[s] \in Nat
    BY <2>1 DEF Pool
  <2> QED BY <2>1, <2>2 DEF PoolGood, IsHbar
<1> QED BY <1>1, PoolsAreGood, PTL

(***************************************************************************)
(* There is one pool for two tokens and a fee in the factory's list, and   *)
(* the factory finds it in both orders of the tokens (Factory.sol:109-165).*)
(***************************************************************************)
THEOREM FactoryHasOnePairEach == Spec => []OnePairEach
<1>1. Inv => OnePairEach
  BY OnePairInvariant
<1> QED BY <1>1, PoolsAreGood, PTL

(***************************************************************************)
(* Of the pools of the client's tokens that have a configured fee, none    *)
(* pays more for a swap than the one that is recommended, and that one     *)
(* pays what the recommendation says (Factory.sol:219-300).                *)
(***************************************************************************)
THEOREM RecommendationPaysMost == Spec => []BestRecommended
<1>1. Inv => BestRecommended
  BY BestInvariant
<1> QED BY <1>1, PoolsAreGood, PTL

(***************************************************************************)
(* A swap in a pool whose fee is at most 200 % may lower the product of    *)
(* its quantities, for the quotes round in the swapper's favour: by less   *)
(* than the new quantity of the token swapped in, which is less than one   *)
(* unit of what is paid out (Pair.sol:272-349, 729-775).                   *)
(***************************************************************************)
THEOREM SwapsKeepTheProduct == Spec => ProductKept
<1>1. ASSUME Inv, [Next]_allVars, NEW i \in Ids, Moderate(pools[i]), Swapped(i)
      PROVE  \E s \in Sides : /\ pools'[i].qty[s] >= pools[i].qty[s]
                              /\ Variant(pools'[i]) + pools'[i].qty[s] > Variant(pools[i])
  <2>1. ProductRises(pools[i], pools'[i])
    BY <1>1, StepKept DEF Kept, PoolsBecome, Becomes
  <2> QED BY <1>1, <2>1 DEF ProductRises, Swapped, LpChanged
<1>2. Inv /\ [Next]_allVars =>
        \A i \in Ids : Moderate(pools[i]) /\ Swapped(i) =>
          \E s \in Sides : /\ pools'[i].qty[s] >= pools[i].qty[s]
                           /\ Variant(pools'[i]) + pools'[i].qty[s] > Variant(pools[i])
  BY <1>1
<1> QED BY <1>2, PoolsAreGood, PTL DEF Spec, ProductKept

(***************************************************************************)
(* Nobody's shares are worth less after another provides or withdraws      *)
(* (LPToken.sol:50-73, Pair.sol:582-595).                                  *)
(***************************************************************************)
THEOREM ProvidersKeepTheirShares == Spec => SharesKept
<1>1. ASSUME Inv, [Next]_allVars, NEW i \in Ids, NEW s \in Sides, LpChanged(i)
      PROVE  pools'[i].qty[s] * LpSupply(pools[i]) >=
               pools[i].qty[s] * LpSupply(pools'[i])
  <2>1. SharesRise(pools[i], pools'[i])
    BY <1>1, StepKept DEF Kept, PoolsBecome, Becomes
  <2> QED BY <1>1, <2>1 DEF SharesRise, LpChanged
<1>2. Inv /\ [Next]_allVars =>
        \A i \in Ids, s \in Sides : LpChanged(i) =>
          pools'[i].qty[s] * LpSupply(pools[i]) >=
            pools[i].qty[s] * LpSupply(pools'[i])
  BY <1>1
<1> QED BY <1>2, PoolsAreGood, PTL DEF Spec, SharesKept

(***************************************************************************)
(* The last LP tokens of a pair with HBAR cannot be returned               *)
(* (Pair.sol:874-890).                                                     *)
(***************************************************************************)
THEOREM HbarPairsKeepShares == Spec => HbarPoolNeverEmpties
<1>1. ASSUME Inv, [Next]_allVars, NEW i \in Ids, \E s \in Sides : IsHbar(i, s),
             LpSupply(pools[i]) > 0
      PROVE  LpSupply(pools'[i]) > 0
  <2>1. HbarStays(pools[i], pools'[i])
    BY <1>1, StepKept DEF Kept, PoolsBecome, Becomes
  <2> QED BY <1>1, <2>1 DEF HbarStays, IsHbar
<1>2. Inv /\ [Next]_allVars =>
        \A i \in Ids : (\E s \in Sides : IsHbar(i, s)) /\ LpSupply(pools[i]) > 0 =>
          LpSupply(pools'[i]) > 0
  BY <1>1
<1> QED BY <1>2, PoolsAreGood, PTL DEF Spec, HbarPoolNeverEmpties

(***************************************************************************)
(* A client that no step has thrown at and beside which nobody has traded  *)
(* finds in its pair what it has added, whenever it checks, whichever way  *)
(* round the pair keeps the tokens: the check is enabled wherever it is    *)
(* the next step (Pair.sol:115-165, FactoryTest.ts:278-319).               *)
(***************************************************************************)
THEOREM ClientFindsWhatItAdded ==
  Spec => [](stops = 0 /\ acted = 0 /\ Now("check") => current # 0 /\ PoolAsExpected)
<1>1. ASSUME Inv, AloneOK, stops = 0, acted = 0, Now("check")
      PROVE  current # 0 /\ PoolAsExpected
  <2>1. PlaceOK /\ Running /\ This.do = "check" /\ ~ IsScript
    BY <1>1, ScriptsAsk DEF Inv, Now, This
  <2>2. AfterAdd /\ This.token = world.tokens[1]
    BY <2>1, Path DEF Step
  <2>3. AddedOnly
    BY <1>1, <2>1, <2>2 DEF AloneOK
  <2>4. /\ pools[current].qty["a"] = InPair("a") /\ pools[current].qty["b"] = InPair("b")
        /\ before[1] = 0 /\ before[2] = 0
    BY <2>2, <2>3 DEF AddedOnly, InPair, Sides
  <2>5. InPair("a") \in Nat /\ InPair("b") \in Nat
    BY Amounts DEF InPair
  <2> QED BY <2>3, <2>4, <2>5 DEF AddedOnly, PoolAsExpected, PairQty
<1>2. Inv /\ AloneOK
        => (stops = 0 /\ acted = 0 /\ Now("check") => current # 0 /\ PoolAsExpected)
  BY <1>1
<1>3. Inv /\ Inv' /\ AloneOK /\ [Next]_allVars => AloneOK'
  BY StepKeepsAlone
<1> QED BY <1>2, <1>3, InitAlone, PoolsAreGood, PTL DEF Spec
=============================================================================
