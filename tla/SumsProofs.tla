----------------------------- MODULE SumsProofs -----------------------------
(***************************************************************************)
(* What changing one summand does to Total, which follows from the         *)
(* library's facts about cardinalities, without induction; bounds on       *)
(* products and truncated quotients; and the least element of a set of     *)
(* naturals, which serves where an induction is needed.                    *)
(***************************************************************************)
EXTENDS Sums, FiniteSetTheorems, FunctionTheorems, WellFoundedInduction, TLAPS

(* The slots of one summand are as many as the summand. *)
LEMMA SlotsCardinality ==
  ASSUME NEW f, NEW x, f[x] \in Nat
  PROVE  IsFiniteSet(Slots(f, x)) /\ Cardinality(Slots(f, x)) = f[x]
<1>1. IsFiniteSet({x}) /\ Cardinality({x}) = 1
  BY FS_Singleton
<1>2. IsFiniteSet(1 .. f[x]) /\ Cardinality(1 .. f[x]) = f[x]
  BY FS_Interval
<1>3. /\ IsFiniteSet({x} \X (1 .. f[x]))
      /\ Cardinality({x} \X (1 .. f[x])) = Cardinality({x}) * Cardinality(1 .. f[x])
  BY <1>1, <1>2, FS_Product, Zenon
<1> QED BY <1>1, <1>2, <1>3 DEF Slots

(* Finitely many summands have finitely many slots. *)
LEMMA AllSlotsFinite ==
  ASSUME NEW S, IsFiniteSet(S), NEW f, \A x \in S : f[x] \in Nat
  PROVE  IsFiniteSet(AllSlots(S, f)) /\ Total(S, f) \in Nat
<1> DEFINE T == {Slots(f, x) : x \in S}
           F == [x \in S |-> Slots(f, x)]
<1>1. F \in Surjection(S, T)
  BY DEF Surjection
<1>2. IsFiniteSet(T)
  BY <1>1, FS_Surjection
<1>3. \A U \in T : IsFiniteSet(U)
  BY SlotsCardinality
<1>4. IsFiniteSet(UNION T)
  BY <1>2, <1>3, FS_UNION
<1> QED BY <1>4, FS_CardinalityType DEF AllSlots, Total

(* One summand can be taken out of the sum. *)
LEMMA TotalSplit ==
  ASSUME NEW S, IsFiniteSet(S), NEW f, \A y \in S : f[y] \in Nat, NEW x \in S
  PROVE  /\ Total(S \ {x}, f) \in Nat
         /\ Total(S, f) = f[x] + Total(S \ {x}, f)
<1> DEFINE A == Slots(f, x)
           B == AllSlots(S \ {x}, f)
<1>1. IsFiniteSet(A) /\ Cardinality(A) = f[x]
  BY SlotsCardinality
<1>2. IsFiniteSet(B) /\ Cardinality(B) \in Nat
  BY FS_RemoveElement, AllSlotsFinite DEF Total
<1>3. AllSlots(S, f) = A \cup B
  BY DEF AllSlots
<1>4. A \cap B = {}
  BY DEF AllSlots, Slots
<1>5. Cardinality(A \cup B) = Cardinality(A) + Cardinality(B) - Cardinality(A \cap B)
  BY <1>1, <1>2, FS_Union
<1>6. Cardinality(A \cap B) = 0
  BY <1>4, FS_EmptySet
<1> QED BY <1>1, <1>2, <1>3, <1>5, <1>6 DEF Total

(* The sum depends on the summands only. *)
LEMMA TotalSame ==
  ASSUME NEW S, NEW f, NEW h, \A x \in S : f[x] = h[x]
  PROVE  Total(S, f) = Total(S, h)
<1>1. AllSlots(S, f) = AllSlots(S, h)
  BY DEF AllSlots, Slots
<1> QED BY <1>1 DEF Total

(* Changing one summand changes the sum by as much. *)
LEMMA TotalChange ==
  ASSUME NEW S, IsFiniteSet(S), NEW f, \A y \in S : f[y] \in Nat,
         NEW h, NEW x \in S, h[x] \in Nat, \A y \in S \ {x} : h[y] = f[y]
  PROVE  /\ Total(S, f) \in Nat
         /\ Total(S, f) >= f[x]
         /\ Total(S, h) = Total(S, f) - f[x] + h[x]
<1>1. /\ Total(S \ {x}, f) \in Nat
      /\ Total(S, f) = f[x] + Total(S \ {x}, f)
  BY TotalSplit
<1>2. \A y \in S : h[y] \in Nat
  OBVIOUS
<1>3. /\ Total(S \ {x}, h) \in Nat
      /\ Total(S, h) = h[x] + Total(S \ {x}, h)
  BY <1>2, TotalSplit
<1>4. Total(S \ {x}, h) = Total(S \ {x}, f)
  BY TotalSame
<1> QED BY <1>1, <1>3, <1>4

(* No summand exceeds the sum. *)
LEMMA TotalBound ==
  ASSUME NEW S, IsFiniteSet(S), NEW f, \A y \in S : f[y] \in Nat, NEW x \in S
  PROVE  Total(S, f) \in Nat /\ f[x] <= Total(S, f)
<1>1. /\ Total(S \ {x}, f) \in Nat
      /\ Total(S, f) = f[x] + Total(S \ {x}, f)
  BY TotalSplit
<1>2. f[x] \in Nat
  OBVIOUS
<1> QED BY <1>1, <1>2

(* A sum of zeros is zero. *)
LEMMA TotalZero ==
  ASSUME NEW S, NEW f, \A x \in S : f[x] = 0
  PROVE  Total(S, f) = 0
<1>1. AllSlots(S, f) = {}
  BY DEF AllSlots, Slots
<1> QED BY <1>1, FS_EmptySet DEF Total

(* A sum of two. *)
LEMMA TotalPair ==
  ASSUME NEW a, NEW b, a # b, NEW f, f[a] \in Nat, f[b] \in Nat
  PROVE  Total({a, b}, f) = f[a] + f[b]
<1>1. IsFiniteSet({b}) /\ IsFiniteSet({a, b})
  <2>1. IsFiniteSet({b})
    BY FS_Singleton
  <2>2. IsFiniteSet({b} \cup {a})
    BY <2>1, FS_AddElement
  <2>3. {b} \cup {a} = {a, b}
    OBVIOUS
  <2> QED BY <2>1, <2>2, <2>3
<1>2. Total({a, b} \ {a}, f) \in Nat /\ Total({a, b}, f) = f[a] + Total({a, b} \ {a}, f)
  BY <1>1, TotalSplit
<1>3. Total({b} \ {b}, f) \in Nat /\ Total({b}, f) = f[b] + Total({b} \ {b}, f)
  BY <1>1, TotalSplit
<1>4. {a, b} \ {a} = {b}
  OBVIOUS
<1>5. Total({b} \ {b}, f) = 0
  BY TotalZero
<1> QED BY <1>2, <1>3, <1>4, <1>5

-----------------------------------------------------------------------------
(* Arithmetic *)

LEMMA TimesIsNat ==
  ASSUME NEW a \in Nat, NEW b \in Nat
  PROVE  a * b \in Nat
BY SMT

LEMMA TimesOrder ==
  ASSUME NEW a \in Nat, NEW b \in Nat, NEW c \in Nat, a <= b
  PROVE  a * c <= b * c /\ c * a <= c * b
BY SMT

(* A quotient and the remainder it leaves. *)
LEMMA QuotientFacts ==
  ASSUME NEW a \in Nat, NEW b \in Nat \ {0}
  PROVE  /\ a \div b \in Nat
         /\ b * (a \div b) <= a
         /\ a < b * ((a \div b) + 1)
BY SMT

(* What does not exceed b times c has a quotient by b of at most c. *)
LEMMA QuotientBound ==
  ASSUME NEW a \in Nat, NEW b \in Nat \ {0}, NEW c \in Nat, a <= b * c
  PROVE  a \div b \in Nat /\ a \div b <= c
<1> DEFINE d == a \div b
<1>1. d \in Nat /\ b * d <= a
  BY QuotientFacts
<1>2. SUFFICES ASSUME d >= c + 1 PROVE FALSE
  BY <1>1
<1> HIDE DEF d
<1>3. b * (c + 1) <= b * d
  BY <1>1, <1>2, TimesOrder
<1>4. b * (c + 1) = b * c + b
  BY SMT
<1>5. b * c \in Nat /\ b * d \in Nat /\ b * d <= b * c
  BY <1>1, TimesIsNat
<1> QED BY <1>1, <1>3, <1>4, <1>5

(* A set of naturals that is not empty has a least element. *)
LEMMA LeastElement ==
  ASSUME NEW T, T \subseteq Nat, T # {}
  PROVE  \E m \in T : \A n \in T : m <= n
<1> DEFINE R == {ss \in Nat \X Nat : ss[1] < ss[2]}
<1>1. IsWellFoundedOn(R, Nat)
  BY NatLessThanWellFounded DEF OpToRel
<1>2. \E m \in T : \A n \in T : <<n, m>> \notin R
  <2> HIDE DEF R
  <2> QED BY <1>1, WFMin
<1>3. PICK m \in T : \A n \in T : <<n, m>> \notin R
  BY <1>2
<1>4. \A n \in T : ~ (n < m)
  BY <1>3
<1> QED BY <1>4
(* A sum is linear in its summands: the least part of S on which it were   *)
(* not has an element, and without that element it is.                     *)
LEMMA TotalLinear ==
  ASSUME NEW S, IsFiniteSet(S), NEW c \in Nat, NEW f, NEW g, NEW h,
         \A x \in S : f[x] \in Nat /\ g[x] \in Nat /\ h[x] = c * f[x] + g[x]
  PROVE  Total(S, h) = c * Total(S, f) + Total(S, g)
<1> DEFINE Bad == {A \in SUBSET S : Total(A, h) # c * Total(A, f) + Total(A, g)}
           T == {Cardinality(A) : A \in Bad}
<1>1. SUFFICES ASSUME Bad # {} PROVE FALSE
  OBVIOUS
<1>2. \A A \in SUBSET S : IsFiniteSet(A) /\ Cardinality(A) \in Nat
  BY FS_Subset, FS_CardinalityType
<1>3. T \subseteq Nat /\ T # {}
  BY <1>1, <1>2
<1>4. PICK m \in T : \A n \in T : m <= n
  <2> HIDE DEF T
  <2> QED BY <1>3, LeastElement
<1>5. PICK A \in Bad : Cardinality(A) = m
  BY <1>4
<1>6. A # {}
  <2> SUFFICES ASSUME A = {} PROVE FALSE
    OBVIOUS
  <2>1. Total(A, h) = 0 /\ Total(A, f) = 0 /\ Total(A, g) = 0
    BY TotalZero
  <2>2. c * 0 + 0 = 0
    OBVIOUS
  <2>3. Total(A, h) = c * Total(A, f) + Total(A, g)
    BY <2>1, <2>2
  <2> QED BY <1>5, <2>3
<1>7. PICK x \in A : TRUE
  BY <1>6
<1> DEFINE B == A \ {x}
<1>8. Cardinality(B) = Cardinality(A) - 1 /\ B \in SUBSET S
  BY <1>2, <1>5, <1>7, FS_RemoveElement
<1>9. B \notin Bad
  <2> SUFFICES ASSUME B \in Bad PROVE FALSE
    OBVIOUS
  <2>1. Cardinality(B) \in T
    OBVIOUS
  <2>2. m \in Nat /\ Cardinality(B) = m - 1
    BY <1>2, <1>5, <1>8
  <2>3. m <= Cardinality(B)
    BY <1>4, <2>1
  <2> HIDE DEF B
  <2> QED BY <2>2, <2>3
<1>10. Total(B, h) = c * Total(B, f) + Total(B, g)
  BY <1>8, <1>9
<1>11. x \in S /\ A \subseteq S
  BY <1>5, <1>7
<1>12. f[x] \in Nat /\ g[x] \in Nat /\ h[x] = c * f[x] + g[x] /\ h[x] \in Nat
  BY <1>11, TimesIsNat
<1>13. \A y \in A : f[y] \in Nat /\ g[y] \in Nat /\ h[y] \in Nat
  BY <1>11, TimesIsNat
<1> HIDE DEF Bad, T
<1>14. /\ Total(B, f) \in Nat /\ Total(A, f) = f[x] + Total(B, f)
       /\ Total(B, g) \in Nat /\ Total(A, g) = g[x] + Total(B, g)
       /\ Total(A, h) = h[x] + Total(B, h)
  BY <1>2, <1>7, <1>11, <1>13, TotalSplit
<1>15. c * (f[x] + Total(B, f)) = c * f[x] + c * Total(B, f)
  <2>1. \A i, j \in Nat : c * (i + j) = c * i + c * j
    BY SMT
  <2> QED BY <1>12, <1>14, <2>1
<1>16. c * f[x] \in Nat /\ c * Total(B, f) \in Nat
  BY <1>12, <1>14, TimesIsNat
<1> DEFINE cf == c * f[x]
           cb == c * Total(B, f)
           tf == Total(A, f)
<1>17. Total(A, h) = c * tf + Total(A, g)
  <2>1. c * tf = cf + cb
    BY <1>14, <1>15
  <2>2. cf \in Nat /\ cb \in Nat /\ h[x] = cf + g[x] /\ Total(B, h) = cb + Total(B, g)
    BY <1>10, <1>12, <1>16
  <2> HIDE DEF cf, cb, tf, B
  <2> QED BY <1>12, <1>14, <2>1, <2>2
<1> QED BY <1>5, <1>17 DEF Bad
=============================================================================
