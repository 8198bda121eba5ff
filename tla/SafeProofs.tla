----------------------------- MODULE SafeProofs -----------------------------
(***************************************************************************)
(* Proofs about the safes and the clients of a DAO: owner lists first,     *)
(* then what each action does to the wallet a safe promises to be.         *)
(***************************************************************************)
EXTENDS SafeClient, FiniteSetTheorems, SequenceTheorems, TLAPS

-----------------------------------------------------------------------------
(* Owner lists *)

(* As many owners as the list is long. *)
LEMMA ListCount ==
  ASSUME NEW f \in Seq(Accounts), IsInjective(f)
  PROVE  /\ IsFiniteSet(ToSet(f)) /\ Cardinality(ToSet(f)) = Len(f)
         /\ ToSet(f) \subseteq Accounts
<1>1. Len(f) \in Nat /\ DOMAIN f = 1 .. Len(f) /\ f \in [1 .. Len(f) -> ToSet(f)]
  BY DEF ToSet
<1>2. f \in Bijection(1 .. Len(f), ToSet(f))
  BY <1>1 DEF Bijection, Injection, Surjection, ToSet, IsInjective
<1>3. IsFiniteSet(1 .. Len(f)) /\ Cardinality(1 .. Len(f)) = Len(f)
  BY <1>1, FS_Interval
<1>4. IsFiniteSet(ToSet(f)) /\ Cardinality(ToSet(f)) = Cardinality(1 .. Len(f))
  BY <1>2, <1>3, FS_Bijection DEF ExistsBijection
<1>5. ToSet(f) \subseteq Accounts
  BY <1>1 DEF ToSet
<1> QED BY <1>3, <1>4, <1>5

LEMMA OneMoreOwner ==
  ASSUME NEW f \in Seq(Accounts), IsInjective(f), NEW a \in Accounts, a \notin ToSet(f)
  PROVE  /\ <<a>> \o f \in Seq(Accounts) /\ IsInjective(<<a>> \o f)
         /\ Len(<<a>> \o f) = Len(f) + 1
<1> DEFINE g == <<a>> \o f
<1>1. <<a>> \in Seq(Accounts) /\ Len(<<a>>) = 1 /\ <<a>>[1] = a
  OBVIOUS
<1>2. Len(f) \in Nat /\ DOMAIN f = 1 .. Len(f)
  OBVIOUS
<1>3. /\ g \in Seq(Accounts) /\ Len(g) = Len(f) + 1
      /\ \A i \in 1 .. Len(f) + 1 : g[i] = IF i = 1 THEN a ELSE f[i - 1]
  BY <1>1, <1>2, ConcatProperties
<1> HIDE DEF g
<1>4. DOMAIN g = 1 .. Len(f) + 1
  BY <1>3
<1>5. \A i \in 2 .. Len(f) + 1 : i - 1 \in 1 .. Len(f) /\ f[i - 1] # a
  BY <1>2 DEF ToSet
<1>6. IsInjective(g)
  <2> SUFFICES ASSUME NEW j \in 1 .. Len(f) + 1, NEW k \in 1 .. Len(f) + 1, g[j] = g[k]
               PROVE  j = k
    BY <1>4 DEF IsInjective
  <2>1. CASE j = 1 \/ k = 1
    BY <1>2, <1>3, <1>5, <2>1
  <2>2. CASE j # 1 /\ k # 1
    <3>1. j - 1 \in 1 .. Len(f) /\ k - 1 \in 1 .. Len(f) /\ f[j - 1] = f[k - 1]
      BY <1>2, <1>3, <2>2
    <3>2. j - 1 = k - 1
      BY <1>2, <3>1 DEF IsInjective
    <3> QED BY <3>2
  <2> QED BY <2>1, <2>2
<1> QED BY <1>3, <1>6 DEF g

LEMMA OneOwnerLess ==
  ASSUME NEW f \in Seq(Accounts), IsInjective(f), NEW i \in DOMAIN f
  PROVE  /\ RemoveAt(f, i) \in Seq(Accounts) /\ IsInjective(RemoveAt(f, i))
         /\ Len(RemoveAt(f, i)) = Len(f) - 1
<1> DEFINE n == Len(f)
           p == SubSeq(f, 1, i - 1)
           q == SubSeq(f, i + 1, n)
           g == p \o q
<1>1. n \in Nat /\ DOMAIN f = 1 .. n /\ i \in 1 .. n /\ \A j \in 1 .. n : f[j] \in Accounts
  OBVIOUS
<1>2. /\ p \in Seq(Accounts) /\ Len(p) = i - 1
      /\ \A j \in 1 .. i - 1 : p[j] = f[j]
  <2>1. /\ p \in Seq(Accounts) /\ Len(p) = IF 1 <= i - 1 THEN i - 1 - 1 + 1 ELSE 0
        /\ \A j \in 1 .. i - 1 - 1 + 1 : p[j] = f[1 + j - 1]
    BY <1>1, SubSeqProperties
  <2> HIDE DEF p, n
  <2> QED BY <1>1, <2>1
<1>3. /\ q \in Seq(Accounts) /\ Len(q) = n - i
      /\ \A j \in 1 .. n - i : q[j] = f[i + j]
  <2>1. /\ q \in Seq(Accounts) /\ Len(q) = IF i + 1 <= n THEN n - (i + 1) + 1 ELSE 0
        /\ \A j \in 1 .. n - (i + 1) + 1 : q[j] = f[i + 1 + j - 1]
    BY <1>1, SubSeqProperties
  <2> HIDE DEF q, n
  <2>2. n - (i + 1) + 1 = n - i /\ \A j \in 1 .. n - i : i + 1 + j - 1 = i + j
    BY <1>1
  <2>3. Len(q) = n - i
    BY <1>1, <2>1, <2>2
  <2> QED BY <2>1, <2>2, <2>3
<1> HIDE DEF p, q
<1>4. /\ g \in Seq(Accounts) /\ Len(g) = n - 1
      /\ \A j \in 1 .. n - 1 : g[j] = IF j <= i - 1 THEN f[j] ELSE f[j + 1]
  <2>1. /\ g \in Seq(Accounts) /\ Len(g) = Len(p) + Len(q)
        /\ \A j \in 1 .. Len(p) + Len(q) :
             g[j] = IF j <= Len(p) THEN p[j] ELSE q[j - Len(p)]
    BY <1>2, <1>3, ConcatProperties
  <2> HIDE DEF n, g
  <2>2. Len(g) = n - 1
    BY <1>1, <1>2, <1>3, <2>1
  <2>3. ASSUME NEW j \in 1 .. n - 1
        PROVE  g[j] = IF j <= i - 1 THEN f[j] ELSE f[j + 1]
    <3>1. g[j] = IF j <= i - 1 THEN p[j] ELSE q[j - (i - 1)]
      BY <1>1, <1>2, <1>3, <2>1
    <3>2. CASE j <= i - 1
      BY <1>1, <1>2, <3>1, <3>2
    <3>3. CASE ~ (j <= i - 1)
      <4>1. j - (i - 1) \in 1 .. n - i /\ i + (j - (i - 1)) = j + 1
        BY <1>1, <3>3
      <4> QED BY <1>3, <3>1, <3>3, <4>1
    <3> QED BY <3>2, <3>3
  <2> QED BY <2>1, <2>2, <2>3
<1> HIDE DEF g
<1>5. DOMAIN g = 1 .. n - 1
  BY <1>1, <1>4
<1>6. IsInjective(g)
  <2> SUFFICES ASSUME NEW j \in 1 .. n - 1, NEW k \in 1 .. n - 1, g[j] = g[k]
               PROVE  j = k
    BY <1>5 DEF IsInjective
  <2> DEFINE old(x) == IF x <= i - 1 THEN x ELSE x + 1
  <2>1. old(j) \in 1 .. n /\ old(k) \in 1 .. n /\ (old(j) = old(k) => j = k)
    BY <1>1
  <2>2. g[j] = f[old(j)] /\ g[k] = f[old(k)]
    BY <1>4
  <2> HIDE DEF old
  <2> QED BY <1>1, <2>1, <2>2 DEF IsInjective
<1> QED BY <1>4, <1>6 DEF RemoveAt, g, p, q, n

LEMMA OtherOwner ==
  ASSUME NEW f \in Seq(Accounts), IsInjective(f), NEW i \in DOMAIN f,
         NEW a \in Accounts, a \notin ToSet(f)
  PROVE  /\ [f EXCEPT ![i] = a] \in Seq(Accounts) /\ IsInjective([f EXCEPT ![i] = a])
         /\ Len([f EXCEPT ![i] = a]) = Len(f)
<1> DEFINE g == [f EXCEPT ![i] = a]
<1>1. Len(f) \in Nat /\ DOMAIN f = 1 .. Len(f) /\ i \in 1 .. Len(f)
  OBVIOUS
<1>2. /\ g \in Seq(Accounts) /\ Len(g) = Len(f)
      /\ \A j \in 1 .. Len(f) : g[j] = IF j = i THEN a ELSE f[j]
  BY <1>1, ExceptSeq
<1> HIDE DEF g
<1>3. DOMAIN g = 1 .. Len(f)
  BY <1>2
<1>4. \A j \in 1 .. Len(f) : f[j] # a
  BY <1>1 DEF ToSet
<1>5. IsInjective(g)
  BY <1>1, <1>2, <1>3, <1>4 DEF IsInjective
<1> QED BY <1>2, <1>5 DEF g

-----------------------------------------------------------------------------
(* The safes *)

AllHashes == [safe : Safes, call : Calls, nonce : Nonces]

(* Owners stand once in their list and can reach their threshold. *)
GoodList(f, t) == f \in Seq(Accounts) /\ IsInjective(f) /\ t \in 1 .. Len(f)

SafesOK ==
  /\ DOMAIN owners = Safes /\ DOMAIN threshold = Safes
  /\ \A s \in Safes : GoodList(owners[s], threshold[s])
  /\ assets \in [Safes -> Nat] /\ txnNonce \in [Safes -> 0 .. MaxNonce]
  /\ DOMAIN approvedHashes = Safes

WalletStep(s) == UNCHANGED Wallet(s)!walletVars \/ Wallet(s)!Next

WalletsStep == \A s \in Safes : WalletStep(s)

(* What a safe's call costs, and what it does to the safe. *)
CostOf(c) == IF c.kind = "Transfer" THEN c.amount ELSE 0

CallDoes(s, c) ==
  /\ DOMAIN owners' = Safes /\ DOMAIN threshold' = Safes
  /\ \A x \in Safes \ {s} : /\ owners'[x] = owners[x] /\ threshold'[x] = threshold[x]
                            /\ assets'[x] = assets[x]
  /\ GoodList(owners'[s], threshold'[s])
  /\ assets' \in [Safes -> Nat]
  /\ assets[s] >= CostOf(c) /\ assets'[s] = assets[s] - CostOf(c)
  /\ \/ owners'[s] = owners[s] /\ threshold'[s] = threshold[s]
     \/ CostOf(c) = 0

LEMMA NothingDone ==
  ASSUME SafesOK, NEW s \in Safes, NEW c, c.kind # "Transfer",
         UNCHANGED <<owners, threshold, assets>>
  PROVE  CallDoes(s, c)
<1>1. CostOf(c) = 0 /\ assets[s] \in Nat
  BY DEF CostOf, SafesOK
<1> QED BY <1>1 DEF CallDoes, SafesOK

LEMMA SafeCallDoes ==
  ASSUME SafesOK, NEW s \in Safes, NEW c \in Calls, SafeCall(s, c)
  PROVE  CallDoes(s, c)
<1> DEFINE f == owners[s]
<1>1. /\ f \in Seq(Accounts) /\ IsInjective(f) /\ Len(f) \in Nat
      /\ threshold[s] \in 1 .. Len(f) /\ assets[s] \in Nat
      /\ DOMAIN owners = Safes /\ DOMAIN threshold = Safes /\ assets \in [Safes -> Nat]
  BY DEF SafesOK, GoodList
<1>2. /\ c.owner \in Accounts /\ c.newOwner \in Accounts /\ c.threshold \in Nat
      /\ c.amount \in Nat
  BY SafeAssumption DEF Call
<1>3. CASE c.kind = "Transfer" /\ TransferAssets(s, c)
  <2>1. CostOf(c) = c.amount
    BY <1>3 DEF CostOf
  <2>2. assets' = [assets EXCEPT ![s] = @ - c.amount] /\ assets[s] >= c.amount
        /\ UNCHANGED <<owners, threshold>>
    BY <1>3 DEF TransferAssets
  <2>3. assets[s] - c.amount \in Nat
    BY <1>1, <1>2, <2>2
  <2> QED BY <1>1, <2>1, <2>2, <2>3 DEF CallDoes, SafesOK
<1>4. CASE c.kind = "AddOwner" /\ AddOwnerWithThreshold(s, c)
  <2>1. CostOf(c) = 0
    BY <1>4 DEF CostOf
  <2>2. /\ c.owner \notin ToSet(f) /\ owners' = [owners EXCEPT ![s] = <<c.owner>> \o f]
        /\ threshold' = [threshold EXCEPT ![s] = c.threshold] /\ assets' = assets
        /\ c.threshold = threshold[s] \/ c.threshold \in 1 .. Len(f) + 1
    BY <1>4 DEF AddOwnerWithThreshold, ThresholdSet, Owners
  <2>3. /\ <<c.owner>> \o f \in Seq(Accounts) /\ IsInjective(<<c.owner>> \o f)
        /\ Len(<<c.owner>> \o f) = Len(f) + 1
    BY <1>1, <1>2, <2>2, OneMoreOwner
  <2>4. GoodList(owners'[s], threshold'[s])
    BY <1>1, <2>2, <2>3 DEF GoodList
  <2> QED BY <1>1, <2>1, <2>2, <2>4 DEF CallDoes
<1>5. CASE c.kind = "RemoveOwner" /\ RemoveOwner(s, c)
  <2>1. CostOf(c) = 0
    BY <1>5 DEF CostOf
  <2>2. PICK i \in DOMAIN f : owners' = [owners EXCEPT ![s] = RemoveAt(f, i)]
    BY <1>5 DEF RemoveOwner
  <2>3. /\ Len(f) - 1 >= c.threshold
        /\ threshold' = [threshold EXCEPT ![s] = c.threshold] /\ assets' = assets
        /\ c.threshold = threshold[s] \/ c.threshold \in 1 .. Len(f) - 1
    BY <1>5 DEF RemoveOwner, ThresholdSet
  <2>4. /\ RemoveAt(f, i) \in Seq(Accounts) /\ IsInjective(RemoveAt(f, i))
        /\ Len(RemoveAt(f, i)) = Len(f) - 1
    BY <1>1, OneOwnerLess
  <2>5. GoodList(owners'[s], threshold'[s])
    BY <1>1, <1>2, <2>2, <2>3, <2>4 DEF GoodList
  <2> QED BY <1>1, <2>1, <2>2, <2>3, <2>5 DEF CallDoes
<1>6. CASE c.kind = "SwapOwner" /\ SwapOwner(s, c)
  <2>1. CostOf(c) = 0
    BY <1>6 DEF CostOf
  <2>2. PICK i \in DOMAIN f : owners' = [owners EXCEPT ![s][i] = c.newOwner]
    BY <1>6 DEF SwapOwner
  <2>3. c.newOwner \notin ToSet(f) /\ UNCHANGED <<threshold, assets>>
    BY <1>6 DEF SwapOwner, Owners
  <2>4. /\ [f EXCEPT ![i] = c.newOwner] \in Seq(Accounts)
        /\ IsInjective([f EXCEPT ![i] = c.newOwner])
        /\ Len([f EXCEPT ![i] = c.newOwner]) = Len(f)
    BY <1>1, <1>2, <2>3, OtherOwner
  <2>5. owners' = [owners EXCEPT ![s] = [f EXCEPT ![i] = c.newOwner]]
    BY <2>2
  <2>6. GoodList(owners'[s], threshold'[s])
    BY <1>1, <2>3, <2>4, <2>5 DEF GoodList
  <2> QED BY <1>1, <2>1, <2>3, <2>5, <2>6 DEF CallDoes
<1>7. CASE c.kind = "ChangeThreshold" /\ ChangeThreshold(s, c)
  <2>1. CostOf(c) = 0
    BY <1>7 DEF CostOf
  <2>2. /\ threshold' = [threshold EXCEPT ![s] = c.threshold]
        /\ c.threshold \in 1 .. Len(f) /\ UNCHANGED <<owners, assets>>
    BY <1>7 DEF ChangeThreshold
  <2>3. GoodList(owners'[s], threshold'[s])
    BY <1>1, <2>2 DEF GoodList
  <2> QED BY <1>1, <2>1, <2>2, <2>3 DEF CallDoes
<1> QED BY <1>3, <1>4, <1>5, <1>6, <1>7 DEF SafeCall

(* A safe that keeps what its wallet is made of does not move it. *)
LEMMA WalletStays ==
  ASSUME NEW s \in Safes, owners'[s] = owners[s], threshold'[s] = threshold[s],
         assets'[s] = assets[s],
         {e \in approvedHashes'[s] : e[2].safe = s}
           = {e \in approvedHashes[s] : e[2].safe = s},
         {h \in executedHash' : h.safe = s} = {h \in executedHash : h.safe = s}
  PROVE  WalletStep(s)
BY DEF WalletStep, Wallet!walletVars, Owners

LEMMA QuietSafes ==
  ASSUME SafesOK, UNCHANGED <<owners, threshold, approvedHashes, executedHash, assets>>,
         txnNonce' \in [Safes -> 0 .. MaxNonce]
  PROVE  SafesOK' /\ WalletsStep
<1>1. SafesOK'
  BY DEF SafesOK
<1>2. \A s \in Safes : WalletStep(s)
  BY WalletStays
<1> QED BY <1>1, <1>2 DEF WalletsStep

LEMMA NonceSafes ==
  ASSUME SafesOK, NEW s \in Safes, GetTxnHash(s),
         UNCHANGED <<owners, threshold, approvedHashes, executedHash, assets>>
  PROVE  SafesOK' /\ WalletsStep
<1>1. txnNonce' \in [Safes -> 0 .. MaxNonce]
  BY SafeAssumption DEF GetTxnHash, SafesOK
<1> QED BY <1>1, QuietSafes

LEMMA ApproveSafes ==
  ASSUME SafesOK, NEW s \in Safes, NEW a, NEW h \in AllHashes, ApproveHash(s, a, h)
  PROVE  SafesOK' /\ WalletsStep
<1>1. /\ a \in Owners(s) /\ DOMAIN approvedHashes = Safes
      /\ approvedHashes' = [approvedHashes EXCEPT ![s] = @ \cup {<<a, h>>}]
      /\ UNCHANGED <<owners, threshold, executedHash, txnNonce, assets>>
  BY DEF ApproveHash, SafesOK
<1>2. SafesOK'
  BY <1>1 DEF SafesOK
<1>3. ASSUME NEW x \in Safes PROVE WalletStep(x)
  <2>1. CASE x = s /\ s = h.safe
    <3>1. {e \in approvedHashes'[s] : e[2].safe = s}
            = {e \in approvedHashes[s] : e[2].safe = s} \cup {<<a, h>>}
      BY <1>1, <2>1
    <3>2. h \in HashesOf(s)
      BY <2>1 DEF AllHashes, HashesOf
    <3>3. Wallet(s)!Endorse
      BY <1>1, <3>1, <3>2 DEF Wallet!Endorse, Owners
    <3> QED BY <2>1, <3>3 DEF WalletStep, Wallet!Next
  <2>2. CASE x # s \/ s # h.safe
    <3>1. {e \in approvedHashes'[x] : e[2].safe = x}
            = {e \in approvedHashes[x] : e[2].safe = x}
      <4>1. <<a, h>>[2] = h
        OBVIOUS
      <4> QED BY <1>1, <2>2, <4>1
    <3> QED BY <1>1, <3>1, WalletStays
  <2> QED BY <2>1, <2>2
<1> QED BY <1>2, <1>3 DEF WalletsStep

LEMMA DepositSafes ==
  ASSUME SafesOK, NEW s \in Safes, NEW n \in Nat \ {0}, Deposit(s, n)
  PROVE  SafesOK' /\ WalletsStep
<1>1. /\ assets' = [assets EXCEPT ![s] = @ + n] /\ assets \in [Safes -> Nat]
      /\ UNCHANGED <<owners, threshold, approvedHashes, executedHash, txnNonce>>
  BY DEF Deposit, SafesOK
<1>2. SafesOK'
  BY <1>1 DEF SafesOK
<1>3. ASSUME NEW x \in Safes PROVE WalletStep(x)
  <2>1. CASE x = s
    <3>1. assets'[x] \in Nat /\ assets'[x] > assets[x]
      BY <1>1, <2>1
    <3>2. Wallet(x)!Receive
      BY <1>1, <3>1 DEF Wallet!Receive, Owners
    <3> QED BY <3>2 DEF WalletStep, Wallet!Next
  <2>2. CASE x # s
    BY <1>1, <2>2, WalletStays
  <2> QED BY <2>1, <2>2
<1> QED BY <1>2, <1>3 DEF WalletsStep

(* A wallet counts as its safe does. *)
LEMMA CountsAlike ==
  ASSUME NEW s, NEW S
  PROVE  Wallet(s)!Cardinality(S) = Cardinality(S)
BY DEF Wallet!Cardinality, Cardinality

(* The endorsers of a transaction are the owners whose approvals count. *)
LEMMA EndorsersCount ==
  ASSUME NEW h \in AllHashes
  PROVE  Wallet(h.safe)!Endorsers(h)
           = {a \in Owners(h.safe) : <<a, h>> \in approvedHashes[h.safe]}
<1>1. \A a : <<a, h>>[2].safe = h.safe
  OBVIOUS
<1> QED BY <1>1 DEF Wallet!Endorsers

LEMMA ExecuteSafes ==
  ASSUME SafesOK, NEW h \in AllHashes, MarkExecuted(h), CallDoes(h.safe, h.call)
  PROVE  SafesOK' /\ WalletsStep
<1> DEFINE s == h.safe
           c == h.call
<1>1. s \in Safes /\ c \in Calls /\ h \in HashesOf(s)
  BY DEF AllHashes, HashesOf
<1>2. /\ CheckApprovals(h.safe, h) /\ h \notin executedHash
      /\ executedHash' = executedHash \cup {h} /\ UNCHANGED <<approvedHashes, txnNonce>>
  BY DEF MarkExecuted
<1>3. SafesOK'
  BY <1>1, <1>2 DEF CallDoes, SafesOK
<1>4. WalletStep(s)
  <2> DEFINE cost == [g \in HashesOf(s) |->
                        IF g.call.kind = "Transfer" THEN g.call.amount ELSE 0]
  <2>1. cost[h] = CostOf(c)
    BY <1>1 DEF CostOf
  <2>2. {g \in executedHash' : g.safe = s} = {g \in executedHash : g.safe = s} \cup {h}
    BY <1>2
  <2>3. h \in HashesOf(s) \ {g \in executedHash : g.safe = s}
    BY <1>1, <1>2
  <2>4. Cardinality(Wallet(s)!Endorsers(h)) >= threshold[s]
    BY <1>2, EndorsersCount DEF CheckApprovals, GetApprovalCounts
  <2>5. /\ assets[s] >= CostOf(c) /\ assets'[s] = assets[s] - CostOf(c)
        /\ (owners'[s] = owners[s] /\ threshold'[s] = threshold[s]) \/ CostOf(c) = 0
    BY DEF CallDoes
  <2>6. Owners(s)' \in SUBSET Accounts /\ threshold'[s] \in 1 .. Cardinality(Owners(s)')
    <3>1. GoodList(owners'[s], threshold'[s])
      BY DEF CallDoes
    <3> QED BY <3>1, ListCount DEF GoodList, Owners
  <2>7. UNCHANGED {e \in approvedHashes[s] : e[2].safe = s}
    BY <1>2
  <2>8. owners'[s] = owners[s] /\ threshold'[s] = threshold[s]
          => Owners(s)' = Owners(s) /\ threshold[s]' = threshold[s]
    BY DEF Owners
  <2> HIDE DEF s, cost
  <2>9. Wallet(s)!Perform
    BY <2>1, <2>2, <2>3, <2>4, <2>5, <2>6, <2>7, <2>8, CountsAlike DEF Wallet!Perform, cost
  <2> QED BY <2>9 DEF WalletStep, Wallet!Next
<1>5. ASSUME NEW x \in Safes, x # s PROVE WalletStep(x)
  <2>1. {g \in executedHash' : g.safe = x} = {g \in executedHash : g.safe = x}
    BY <1>2, <1>5
  <2>2. owners'[x] = owners[x] /\ threshold'[x] = threshold[x] /\ assets'[x] = assets[x]
    BY <1>5 DEF CallDoes
  <2> QED BY <1>2, <2>1, <2>2, WalletStays
<1> QED BY <1>3, <1>4, <1>5 DEF WalletsStep

-----------------------------------------------------------------------------
(* The place of a client in its flows: what it funds with is positive *)

Acts ==
  {"getSafe", "propose", "approve", "execute", "checkState", "allowMultiSend",
   "handController", "fetch", "proposeMore", "tryExecute",
   "checkThreshold", "list", "proposeRemove", "checkCount", "proposeSwap",
   "checkSwapped"}

Args ==
  {0, 1, 2, FirstOwner, SecondOwner, "Pending", "Approved", "Executed",
   AssociateCall, TransferCall(1), BatchCall, UpdateFeeConfigCall,
   UpgradeProxyCall, TextCall, ChangeThresholdCall(1),
   AddOwnerCall(1, SecondOwner)}

StepType == [do : Acts, arg : Args] \cup [do : {"fund"}, arg : Nat \ {0}]

Flows == {steps \in Seq(StepType) : Len(steps) > 0}

LEMMA StepTyped ==
  ASSUME NEW do \in Acts, NEW arg \in Args
  PROVE  Step(do, arg) \in StepType
BY DEF Step, StepType

LEMMA FundTyped ==
  ASSUME NEW n \in Nat \ {0}
  PROVE  Fund(n) \in StepType
BY DEF Fund, Step, StepType

LEMMA FlowOfOne ==
  ASSUME NEW v \in StepType
  PROVE  <<v>> \in Flows
<1>1. <<v>> \in Seq(StepType) /\ Len(<<v>>) = 1
  OBVIOUS
<1> QED BY <1>1 DEF Flows

LEMMA FlowOfTwo ==
  ASSUME NEW v \in StepType, NEW w \in StepType
  PROVE  <<v, w>> \in Flows
<1>1. <<v, w>> \in Seq(StepType) /\ Len(<<v, w>>) = 2
  OBVIOUS
<1> QED BY <1>1 DEF Flows

LEMMA FlowOfThree ==
  ASSUME NEW v \in StepType, NEW w \in StepType, NEW x \in StepType
  PROVE  <<v, w, x>> \in Flows
<1>1. <<v, w, x>> \in Seq(StepType) /\ Len(<<v, w, x>>) = 3
  OBVIOUS
<1> QED BY <1>1 DEF Flows

LEMMA FlowsJoin ==
  ASSUME NEW f \in Flows, NEW g \in Flows
  PROVE  f \o g \in Flows
BY ConcatProperties DEF Flows

LEMMA StepsTyped ==
  /\ GetSafe \in StepType /\ Execute \in StepType
  /\ Approve(FirstOwner) \in StepType /\ Approve(SecondOwner) \in StepType
  /\ Fund(1) \in StepType /\ Fund(2) \in StepType
  /\ CheckState("Pending") \in StepType /\ CheckState("Approved") \in StepType
  /\ CheckState("Executed") \in StepType
  /\ Propose(AssociateCall) \in StepType /\ Propose(TransferCall(1)) \in StepType
  /\ Propose(BatchCall) \in StepType /\ Propose(UpdateFeeConfigCall) \in StepType
  /\ Propose(UpgradeProxyCall) \in StepType /\ Propose(TextCall) \in StepType
  /\ Propose(ChangeThresholdCall(1)) \in StepType
  /\ Propose(AddOwnerCall(1, SecondOwner)) \in StepType
<1>1. Fund(1) \in StepType /\ Fund(2) \in StepType
  BY FundTyped
<1>2. /\ 0 \in Args /\ FirstOwner \in Args /\ SecondOwner \in Args
      /\ "Pending" \in Args /\ "Approved" \in Args /\ "Executed" \in Args
      /\ AssociateCall \in Args /\ TransferCall(1) \in Args /\ BatchCall \in Args
      /\ UpdateFeeConfigCall \in Args /\ UpgradeProxyCall \in Args /\ TextCall \in Args
      /\ ChangeThresholdCall(1) \in Args /\ AddOwnerCall(1, SecondOwner) \in Args
  BY DEF Args
<1>3. {"getSafe", "execute", "approve", "checkState", "propose"} \subseteq Acts
  BY DEF Acts
<1> QED BY <1>1, <1>2, <1>3, StepTyped DEF GetSafe, Execute, Approve, CheckState, Propose

LEMMA OtherStepsTyped ==
  /\ Step("allowMultiSend", 1) \in StepType /\ Step("handController", 0) \in StepType
  /\ Step("fetch", 0) \in StepType
  /\ Step("proposeMore", 1) \in StepType /\ Step("tryExecute", 0) \in StepType
  /\ Step("checkThreshold", 1) \in StepType /\ Step("list", 0) \in StepType
  /\ Step("proposeRemove", 1) \in StepType /\ Step("checkCount", 1) \in StepType
  /\ Step("checkCount", 2) \in StepType /\ Step("proposeSwap", 0) \in StepType
  /\ Step("checkSwapped", 0) \in StepType
<1>1. 0 \in Args /\ 1 \in Args /\ 2 \in Args
  BY DEF Args
<1> QED BY <1>1, StepTyped DEF Acts

LEMMA ApprovalsTyped ==
  /\ ApproveByAll \in Flows /\ Approvals(1) \in Flows /\ Approvals(2) \in Flows
<1>1. Approve(FirstOwner) \in StepType /\ Approve(SecondOwner) \in StepType
  BY StepsTyped
<1> HIDE DEF Approve
<1> QED BY <1>1, FlowOfOne, FlowOfTwo DEF ApproveByAll, Approvals

LEMMA AssociateTyped == AssociateSafe \in Flows
<1>1. ApproveByAll \in Flows /\ <<Execute>> \in Flows
  BY StepsTyped, ApprovalsTyped, FlowOfOne
<1>2. <<GetSafe, Propose(AssociateCall)>> \in Flows
  BY StepsTyped, FlowOfTwo
<1> QED BY <1>1, <1>2, FlowsJoin DEF AssociateSafe

LEMMA ScriptFlowsTyped ==
  /\ TokenTransferFlow \in Flows /\ NFTTransferFlow \in Flows
  /\ HbarTransferFlow \in Flows /\ BatchFlow \in Flows /\ FeeConfigFlow \in Flows
  /\ TextFlow \in Flows
<1>1. ApproveByAll \in Flows /\ <<Execute>> \in Flows
  BY StepsTyped, ApprovalsTyped, FlowOfOne
<1>2. AssociateSafe \in Flows
  BY AssociateTyped
<1>3. TokenTransferFlow \in Flows /\ NFTTransferFlow \in Flows
  <2>1. <<Fund(1), Propose(TransferCall(1))>> \in Flows
    BY StepsTyped, FlowOfTwo
  <2> QED BY <1>1, <1>2, <2>1, FlowsJoin DEF TokenTransferFlow, NFTTransferFlow
<1>4. HbarTransferFlow \in Flows
  <2>1. <<GetSafe, Propose(TransferCall(1))>> \in Flows /\ <<Fund(1), Execute>> \in Flows
    BY StepsTyped, FlowOfTwo
  <2> QED BY <1>1, <2>1, FlowsJoin DEF HbarTransferFlow
<1>5. BatchFlow \in Flows
  <2>1. <<GetSafe, Propose(BatchCall)>> \in Flows
        /\ <<Step("allowMultiSend", 1), Execute>> \in Flows
    BY StepsTyped, OtherStepsTyped, FlowOfTwo
  <2> QED BY <1>1, <2>1, FlowsJoin DEF BatchFlow
<1>6. FeeConfigFlow \in Flows
  <2>1. <<GetSafe, Propose(UpdateFeeConfigCall)>> \in Flows
        /\ <<Step("handController", 0), Execute>> \in Flows
    BY StepsTyped, OtherStepsTyped, FlowOfTwo
  <2> QED BY <1>1, <2>1, FlowsJoin DEF FeeConfigFlow
<1>8. TextFlow \in Flows
  <2>1. <<GetSafe, Propose(TextCall)>> \in Flows
    BY StepsTyped, FlowOfTwo
  <2> QED BY <1>1, <2>1, FlowsJoin DEF TextFlow
<1> QED BY <1>3, <1>4, <1>5, <1>6, <1>8

LEMMA ScenarioFlowsTyped ==
  /\ NotEnoughApprovals \in Flows /\ MoreThanTheSafeHas \in Flows
  /\ TransferJourney \in Flows /\ ThresholdScenario \in Flows
  /\ RemoveScenario \in Flows /\ AddScenario \in Flows /\ SwapScenario \in Flows
<1>1. Approvals(1) \in Flows /\ Approvals(2) \in Flows
  BY ApprovalsTyped
<1>2. /\ <<GetSafe>> \in Flows /\ <<CheckState("Pending")>> \in Flows
      /\ <<CheckState("Executed")>> \in Flows /\ <<Propose(AssociateCall)>> \in Flows
      /\ <<Propose(TransferCall(1))>> \in Flows
      /\ <<CheckState("Approved"), Execute>> \in Flows
  BY StepsTyped, FlowOfOne, FlowOfTwo
<1>3. ApprovedAndExecuted(1) \in Flows /\ ApprovedAndExecuted(2) \in Flows
  BY <1>1, <1>2, FlowsJoin DEF ApprovedAndExecuted
<1>4. AssociateAndFund \in Flows
  <2>1. <<Execute, Fund(2), Step("fetch", 0)>> \in Flows
    BY StepsTyped, OtherStepsTyped, FlowOfThree
  <2> QED BY <1>1, <1>2, <2>1, FlowsJoin DEF AssociateAndFund
<1>5. NotEnoughApprovals \in Flows
  <2>1. <<GetSafe, Propose(TransferCall(1)), CheckState("Pending")>> \in Flows
    BY StepsTyped, FlowOfThree
  <2> QED BY <1>1, <1>2, <2>1, FlowsJoin DEF NotEnoughApprovals
<1>6. MoreThanTheSafeHas \in Flows
  <2>1. <<Step("proposeMore", 1)>> \in Flows /\ <<Step("tryExecute", 0)>> \in Flows
    BY OtherStepsTyped, FlowOfOne
  <2> QED BY <1>1, <1>4, <2>1, FlowsJoin DEF MoreThanTheSafeHas
<1>7. TransferJourney \in Flows
  BY <1>2, <1>3, <1>4, FlowsJoin DEF TransferJourney
<1>8. ThresholdScenario \in Flows
  <2>1. <<GetSafe, Propose(ChangeThresholdCall(1))>> \in Flows
        /\ <<Step("checkThreshold", 1)>> \in Flows
    BY StepsTyped, OtherStepsTyped, FlowOfOne, FlowOfTwo
  <2> QED BY <1>3, <2>1, FlowsJoin DEF ThresholdScenario
<1>9. RemoveScenario \in Flows
  <2>1. <<Step("list", 0), Step("proposeRemove", 1)>> \in Flows
        /\ <<Step("checkCount", 1)>> \in Flows
    BY OtherStepsTyped, FlowOfOne, FlowOfTwo
  <2> QED BY <1>3, <2>1, FlowsJoin DEF RemoveScenario
<1>10. AddScenario \in Flows
  <2>1. <<Step("list", 0), Propose(AddOwnerCall(1, SecondOwner))>> \in Flows
        /\ <<Step("checkCount", 2)>> \in Flows
    BY StepsTyped, OtherStepsTyped, FlowOfOne, FlowOfTwo
  <2> QED BY <1>3, <2>1, FlowsJoin DEF AddScenario
<1>11. SwapScenario \in Flows
  <2>1. <<Step("list", 0), Step("proposeSwap", 0)>> \in Flows
        /\ <<Step("checkSwapped", 0)>> \in Flows
    BY OtherStepsTyped, FlowOfOne, FlowOfTwo
  <2> QED BY <1>3, <2>1, FlowsJoin DEF SwapScenario
<1> QED BY <1>5, <1>6, <1>7, <1>8, <1>9, <1>10, <1>11

(* The flow that hands the proxy over, place by place. *)
LEMMA UpgradeSteps ==
  /\ Len(UpgradeFlow) = 6
  /\ UpgradeFlow[1] = GetSafe /\ UpgradeFlow[2] = Propose(UpgradeProxyCall)
  /\ UpgradeFlow[3] = Approve(SecondOwner) /\ UpgradeFlow[4] = Approve(FirstOwner)
  /\ UpgradeFlow[5] = Step("handAdmin", 0) /\ UpgradeFlow[6] = Execute
BY DEF UpgradeFlow, ApproveByAll

FlowNames == ScriptNames \cup ScenarioNames

(* No other flow does so. *)
LEMMA OtherFlowTyped ==
  ASSUME NEW name \in FlowNames, name # "upgrade"
  PROVE  Flow(name) \in Flows
BY ScriptFlowsTyped, ScenarioFlowsTyped DEF Flow, FlowNames, ScriptNames, ScenarioNames

HandOver == Step("handAdmin", 0)

LEMMA FlowTyped ==
  ASSUME NEW name \in FlowNames
  PROVE  Flow(name) \in Seq(StepType \cup {HandOver}) /\ Len(Flow(name)) > 0
<1>1. CASE name = "upgrade"
  <2>1. /\ GetSafe \in StepType /\ Execute \in StepType
        /\ Approve(FirstOwner) \in StepType /\ Approve(SecondOwner) \in StepType
        /\ Propose(UpgradeProxyCall) \in StepType
    BY StepsTyped
  <2> DEFINE T == StepType \cup {HandOver}
  <2>2. /\ <<GetSafe, Propose(UpgradeProxyCall)>> \in Seq(T)
        /\ ApproveByAll \in Seq(T) /\ <<HandOver, Execute>> \in Seq(T)
    BY <2>1 DEF ApproveByAll
  <2> HIDE DEF T
  <2>3. UpgradeFlow \in Seq(T)
    BY <2>2, ConcatProperties DEF UpgradeFlow, HandOver
  <2>4. Flow(name) = UpgradeFlow
    BY <1>1 DEF Flow
  <2> QED BY <2>3, <2>4, UpgradeSteps DEF T
<1>2. CASE name # "upgrade"
  <2>1. Flow(name) \in Seq(StepType) /\ Len(Flow(name)) > 0
    BY <1>2, OtherFlowTyped DEF Flows
  <2> HIDE DEF Flow
  <2> QED BY <2>1
<1> QED BY <1>1, <1>2

PlaceOK ==
  /\ world \in Worlds /\ line \in Nat \ {0}
  /\ Running => at \in DOMAIN Flow(world.agenda[line])

LEMMA AgendaTyped ==
  ASSUME world \in Worlds, NEW n \in Nat \ {0}, n <= Len(world.agenda)
  PROVE  /\ world.agenda[n] \in FlowNames
         /\ Flow(world.agenda[n]) \in Seq(StepType \cup {HandOver})
         /\ Len(Flow(world.agenda[n])) > 0
<1>1. world.agenda \in Seq(ScriptNames) \/ world.agenda \in Seq(ScenarioNames)
  BY ClientAssumption
<1>2. world.agenda[n] \in FlowNames
  BY <1>1 DEF FlowNames
<1> QED BY <1>2, FlowTyped

LEMMA ThisTyped ==
  ASSUME PlaceOK, Running
  PROVE  /\ Flow(world.agenda[line]) \in Seq(StepType \cup {HandOver})
         /\ This.do = "fund" => This.arg \in Nat \ {0}
         /\ This.do = "handAdmin" => world.agenda[line] = "upgrade"
<1> DEFINE name == world.agenda[line]
<1>1. name \in FlowNames /\ Flow(name) \in Seq(StepType \cup {HandOver})
  BY AgendaTyped DEF PlaceOK, Running
<1>2. at \in DOMAIN Flow(name) /\ This = Flow(name)[at]
  BY DEF PlaceOK, This
<1>3. This \in StepType \cup {HandOver}
  BY <1>1, <1>2
<1>4. name # "upgrade" => This \in StepType
  <2>1. name # "upgrade" => Flow(name) \in Flows
    BY <1>1, OtherFlowTyped
  <2> QED BY <1>2, <2>1 DEF Flows
<1> QED BY <1>1, <1>3, <1>4 DEF StepType, Acts, HandOver, Step

LEMMA FlowStarts ==
  ASSUME world \in Worlds, world' = world, line' \in Nat \ {0}, at' = 1
  PROVE  PlaceOK'
<1>1. Running' => /\ Flow(world.agenda[line']) \in Seq(StepType \cup {HandOver})
                  /\ Len(Flow(world.agenda[line'])) > 0
  BY AgendaTyped DEF Running
<1> QED BY <1>1 DEF PlaceOK, Running

LEMMA NextStepKeepsPlace ==
  ASSUME PlaceOK, Running, NextStep
  PROVE  PlaceOK'
<1> DEFINE f == Flow(world.agenda[line])
<1>1. f \in Seq(StepType \cup {HandOver})
  BY ThisTyped
<1>2. CASE at < Len(f)
  <2>1. at' = at + 1 /\ line' = line /\ world' = world
    BY <1>2 DEF NextStep
  <2>2. Flow(world.agenda[line])' = f
    BY <2>1
  <2>3. at + 1 \in DOMAIN f
    BY <1>1, <1>2 DEF PlaceOK
  <2> HIDE DEF f
  <2> QED BY <2>1, <2>2, <2>3 DEF PlaceOK, Running
<1>3. CASE ~ (at < Len(f))
  <2>1. at' = 1 /\ line' = line + 1 /\ world' = world
    BY <1>3 DEF NextStep
  <2> QED BY <2>1, FlowStarts DEF PlaceOK
<1> QED BY <1>2, <1>3
-----------------------------------------------------------------------------
(* The DAO *)

(* A nonce that its safe has handed out. *)
Handed(h) == h.nonce <= txnNonce[h.safe]

DaoOK ==
  /\ SafesOK /\ hederaGnosisSafe \in Safes
  /\ \A s \in Safes : \A e \in approvedHashes[s] :
       e[2] \in AllHashes /\ (world.ahead = 0 => Handed(e[2]))
  /\ \A h \in executedHash : h \in AllHashes /\ (world.ahead = 0 => Handed(h))
  /\ \A h \in DOMAIN transactions : h \in AllHashes /\ Handed(h)

PendingStep ==
  world.ahead = 0 =>
    \A h \in DOMAIN transactions' : \/ Recorded(h) /\ transactions'[h] = transactions[h]
                                    \/ ~Recorded(h) /\ State(h)' = "Pending"

NoncesGrow == \A s \in Safes : txnNonce[s] <= txnNonce'[s]

DaoMoves == DaoOK' /\ WalletsStep /\ PendingStep /\ NoncesGrow

LEMMA StillHanded ==
  ASSUME SafesOK, SafesOK', NoncesGrow, NEW h \in AllHashes, Handed(h)
  PROVE  Handed(h)'
<1>1. h.safe \in Safes /\ h.nonce \in Int
  BY SafeAssumption DEF AllHashes, Nonces
<1>2. txnNonce[h.safe] \in Int /\ txnNonce'[h.safe] \in Int
      /\ txnNonce[h.safe] <= txnNonce'[h.safe]
  BY <1>1 DEF SafesOK, NoncesGrow
<1> QED BY <1>1, <1>2 DEF Handed

(* What is handed out, approved or executed anew, is of the safes. *)
LEMMA RecordsKept ==
  ASSUME DaoOK, SafesOK', WalletsStep, NoncesGrow, hederaGnosisSafe' \in Safes,
         UNCHANGED <<world, transactions>>,
         \A s \in Safes : \A e \in approvedHashes'[s] :
            \/ e \in approvedHashes[s]
            \/ e[2] \in AllHashes /\ (world.ahead = 0 => Handed(e[2])),
         \A h \in executedHash' : \/ h \in executedHash
                                  \/ h \in AllHashes /\ (world.ahead = 0 => Handed(h))
  PROVE  DaoMoves
<1>1. \A h \in AllHashes : Handed(h) => Handed(h)'
  BY StillHanded DEF DaoOK
<1>2. \A s \in Safes : \A e \in approvedHashes'[s] :
        e[2] \in AllHashes /\ (world.ahead = 0 => Handed(e[2])')
  BY <1>1 DEF DaoOK
<1>3. \A h \in executedHash' :
        h \in AllHashes /\ (world.ahead = 0 => Handed(h)')
  BY <1>1 DEF DaoOK
<1>4. \A h \in DOMAIN transactions : h \in AllHashes /\ Handed(h)'
  BY <1>1 DEF DaoOK
<1>5. DaoOK'
  BY <1>2, <1>3, <1>4 DEF DaoOK
<1>6. PendingStep
  BY DEF PendingStep, Recorded
<1> QED BY <1>5, <1>6 DEF DaoMoves

LEMMA SameNonces ==
  ASSUME SafesOK, UNCHANGED txnNonce
  PROVE  NoncesGrow
BY DEF SafesOK, NoncesGrow

LEMMA QuietDao ==
  ASSUME DaoOK, UNCHANGED <<safeVars, transactions, world>>, hederaGnosisSafe' \in Safes
  PROVE  DaoMoves
<1>1. SafesOK' /\ WalletsStep /\ NoncesGrow
  BY QuietSafes, SameNonces DEF DaoOK, SafesOK, safeVars
<1> QED BY <1>1, RecordsKept DEF safeVars

LEMMA ApproveMoves ==
  ASSUME DaoOK, NEW s \in Safes, NEW a, NEW h \in AllHashes, ApproveHash(s, a, h),
         world.ahead = 0 => Handed(h),
         UNCHANGED <<hederaGnosisSafe, transactions, world>>
  PROVE  DaoMoves
<1>1. SafesOK' /\ WalletsStep /\ NoncesGrow
  BY ApproveSafes, SameNonces DEF DaoOK, ApproveHash
<1>2. /\ approvedHashes' = [approvedHashes EXCEPT ![s] = @ \cup {<<a, h>>}]
      /\ DOMAIN approvedHashes = Safes /\ executedHash' = executedHash
  BY DEF ApproveHash, DaoOK, SafesOK
<1>3. <<a, h>>[2] = h
  OBVIOUS
<1>4. \A x \in Safes : \A e \in approvedHashes'[x] :
        e \in approvedHashes[x] \/ e = <<a, h>>
  BY <1>2
<1> QED BY <1>1, <1>2, <1>3, <1>4, RecordsKept DEF DaoOK

LEMMA DepositMoves ==
  ASSUME DaoOK, NEW s \in Safes, NEW n \in Nat \ {0}, Deposit(s, n),
         UNCHANGED <<hederaGnosisSafe, transactions, world>>
  PROVE  DaoMoves
<1>1. SafesOK' /\ WalletsStep /\ NoncesGrow
  BY DepositSafes, SameNonces DEF DaoOK, Deposit
<1> QED BY <1>1, RecordsKept DEF DaoOK, Deposit

LEMMA NonceMoves ==
  ASSUME SafesOK, NEW s \in Safes, GetTxnHash(s)
  PROVE  NoncesGrow
BY DEF SafesOK, GetTxnHash, NoncesGrow

(* A nonce that is handed out to someone else than the DAO. *)
LEMMA HandOutMoves ==
  ASSUME DaoOK, NEW s \in Safes, GetTxnHash(s),
         UNCHANGED <<owners, threshold, approvedHashes, executedHash, assets>>,
         UNCHANGED <<hederaGnosisSafe, transactions, world>>
  PROVE  DaoMoves
<1>1. SafesOK' /\ WalletsStep /\ NoncesGrow
  BY NonceSafes, NonceMoves DEF DaoOK
<1> QED BY <1>1, RecordsKept DEF DaoOK

(* What is executed has been approved by an owner. *)
LEMMA ExecutedIsApproved ==
  ASSUME NEW s, NEW h, CheckApprovals(s, h)
  PROVE  \E a : <<a, h>> \in approvedHashes[s]
<1>1. SUFFICES ASSUME ~ \E a : <<a, h>> \in approvedHashes[s]
               PROVE  FALSE
  OBVIOUS
<1>2. {a \in Owners(s) : <<a, h>> \in approvedHashes[s]} = {}
  BY <1>1
<1>3. GetApprovalCounts(s, h) = 0
  BY <1>2, FS_EmptySet DEF GetApprovalCounts
<1> QED BY <1>3 DEF CheckApprovals

LEMMA ExecuteMoves ==
  ASSUME DaoOK, NEW h \in AllHashes, MarkExecuted(h), CallDoes(h.safe, h.call),
         UNCHANGED <<hederaGnosisSafe, transactions, world>>
  PROVE  DaoMoves
<1>1. SafesOK' /\ WalletsStep /\ NoncesGrow
  BY ExecuteSafes, SameNonces DEF DaoOK, MarkExecuted
<1>2. approvedHashes' = approvedHashes /\ executedHash' = executedHash \cup {h}
  BY DEF MarkExecuted
<1>3. world.ahead = 0 => Handed(h)
  <2>1. PICK a : <<a, h>> \in approvedHashes[h.safe]
    BY ExecutedIsApproved DEF MarkExecuted
  <2>2. <<a, h>>[2] = h
    OBVIOUS
  <2> QED BY <2>1, <2>2 DEF DaoOK, AllHashes
<1> QED BY <1>1, <1>2, <1>3, RecordsKept DEF DaoOK

LEMMA ExecuteAnyMoves ==
  ASSUME DaoOK, NEW h \in AllHashes, ExecuteAny(h), UNCHANGED world
  PROVE  DaoMoves
<1>1. h.safe \in Safes /\ h.call \in Calls /\ SafesOK
  BY DEF AllHashes, DaoOK
<1>2. MarkExecuted(h) /\ UNCHANGED <<hederaGnosisSafe, transactions>>
  BY DEF ExecuteAny, ExecuteTransaction, OtherCall
<1>3. CallDoes(h.safe, h.call)
  <2>1. CASE SafeCall(h.safe, h.call)
    BY <1>1, <2>1, SafeCallDoes
  <2>2. CASE h.call.kind = "Text" /\ SetText(h.safe)
    BY <1>1, <2>2, NothingDone DEF SetText
  <2>3. CASE OtherCall(h)
    BY <1>1, <2>3, NothingDone DEF OtherCall
  <2> QED BY <2>1, <2>2, <2>3 DEF ExecuteAny, ExecuteTransaction
<1> QED BY <1>2, <1>3, ExecuteMoves

(* The hash a proposal returns: of a nonce that is handed out only now. *)
LEMMA NextHashIsNew ==
  ASSUME DaoOK, NEW c \in Calls, GetTxnHash(hederaGnosisSafe), NEW h, h = NextHash(c)
  PROVE  h \in AllHashes /\ Handed(h)' /\ ~Handed(h) /\ h.safe = hederaGnosisSafe
<1> DEFINE g == hederaGnosisSafe
<1>1. g \in Safes /\ txnNonce \in [Safes -> 0 .. MaxNonce] /\ MaxNonce \in Nat
  BY SafeAssumption DEF DaoOK, SafesOK
<1>2. txnNonce[g] < MaxNonce /\ txnNonce' = [txnNonce EXCEPT ![g] = @ + 1]
  BY DEF GetTxnHash
<1>3. txnNonce'[g] = txnNonce[g] + 1 /\ txnNonce'[g] \in 1 .. MaxNonce
  BY <1>1, <1>2
<1>4. h = [safe |-> g, call |-> c, nonce |-> txnNonce'[g]]
  BY DEF NextHash
<1>5. h \in AllHashes /\ h.safe = g /\ h.nonce = txnNonce'[g]
  BY <1>1, <1>3, <1>4 DEF AllHashes, Nonces
<1> QED BY <1>1, <1>3, <1>5 DEF Handed

(* Nobody has approved or executed what was never handed out. *)
LEMMA ProposeMoves ==
  ASSUME DaoOK, NEW creator, NEW c, ProposeTransaction(creator, c), UNCHANGED world
  PROVE  /\ DaoMoves
         /\ NextHash(c) \in AllHashes /\ \A h : h = NextHash(c) => Handed(h)'
<1>1. /\ c \in Calls /\ GetTxnHash(hederaGnosisSafe)
      /\ UNCHANGED <<owners, threshold, approvedHashes, executedHash, assets>>
      /\ hederaGnosisSafe' = hederaGnosisSafe /\ hederaGnosisSafe \in Safes /\ SafesOK
  BY DEF ProposeTransaction, DaoOK
<1>2. SafesOK' /\ WalletsStep /\ NoncesGrow
  BY <1>1, NonceSafes, NonceMoves
<1>3. PICK h : h = NextHash(c)
  OBVIOUS
<1>4. h \in AllHashes /\ Handed(h)' /\ ~Handed(h) /\ h.safe = hederaGnosisSafe
  BY <1>1, <1>3, NextHashIsNew
<1>5. /\ DOMAIN transactions' = {h} \cup DOMAIN transactions
      /\ \A x \in DOMAIN transactions : x # h => transactions'[x] = transactions[x]
  <2>1. transactions' = [x \in DOMAIN transactions \cup {h} |->
                          IF x = h THEN creator ELSE transactions[x]]
    BY <1>3 DEF ProposeTransaction
  <2> QED BY <2>1
<1>6. \A x \in AllHashes : Handed(x) => Handed(x)'
  BY <1>2, StillHanded DEF DaoOK
<1>7. DaoOK'
  BY <1>1, <1>2, <1>4, <1>5, <1>6 DEF DaoOK
<1>8. ASSUME world.ahead = 0 PROVE State(h)' = "Pending"
  <2>1. h \notin executedHash /\ \A a : <<a, h>> \notin approvedHashes[h.safe]
    <3>1. \A a : <<a, h>>[2] = h
      OBVIOUS
    <3> QED BY <1>4, <1>8, <3>1 DEF DaoOK
  <2>2. ~CheckApprovals(hederaGnosisSafe, h)'
    <3>1. {a \in Owners(h.safe)' : <<a, h>> \in approvedHashes'[h.safe]} = {}
      BY <1>1, <2>1
    <3>2. GetApprovalCounts(hederaGnosisSafe, h)' = 0
      BY <1>1, <1>4, <3>1, FS_EmptySet DEF GetApprovalCounts
    <3> QED BY <3>2 DEF CheckApprovals
  <2>3. Recorded(h)' /\ ~(h \in executedHash')
    BY <1>1, <1>5, <2>1 DEF Recorded
  <2> QED BY <2>2, <2>3 DEF State, Executed
<1>9. PendingStep
  BY <1>4, <1>5, <1>8 DEF PendingStep, Recorded, DaoOK
<1> QED BY <1>2, <1>3, <1>4, <1>7, <1>9 DEF DaoMoves

LEMMA UpgradeMoves ==
  ASSUME DaoOK, NEW s \in Safes, UpgradeHederaGnosisSafe(s), UNCHANGED world
  PROVE  DaoMoves
BY QuietDao DEF UpgradeHederaGnosisSafe
-----------------------------------------------------------------------------
(* The clients *)

(* What a client holds of the DAO: a safe, and a hash that was handed out. *)
ReadOK ==
  /\ gnosisSafe \in Safes
  /\ txnHash # <<>> => txnHash[1] \in AllHashes /\ Handed(txnHash[1])

Inv == DaoOK /\ ReadOK /\ PlaceOK

Moves == Inv' /\ WalletsStep /\ PendingStep

LEMMA ReadStays ==
  ASSUME ReadOK, DaoOK, DaoMoves, UNCHANGED <<gnosisSafe, txnHash>>
  PROVE  ReadOK'
<1>1. SafesOK /\ SafesOK' /\ NoncesGrow
  BY DEF DaoOK, DaoMoves
<1> QED BY <1>1, StillHanded DEF ReadOK

LEMMA PlaceStays ==
  ASSUME PlaceOK, UNCHANGED placeVars
  PROVE  PlaceOK'
BY DEF PlaceOK, Running, placeVars

(* A step of a flow that leaves what the client holds as it is. *)
LEMMA FlowMoves ==
  ASSUME Inv, DaoMoves, Running, NextStep, UNCHANGED <<gnosisSafe, txnHash>>
  PROVE  Moves
<1>1. ReadOK'
  BY ReadStays DEF Inv
<1>2. PlaceOK'
  BY NextStepKeepsPlace DEF Inv
<1> QED BY <1>1, <1>2 DEF Inv, Moves, DaoMoves

LEMMA OthersMove ==
  ASSUME Inv, DaoMoves, OthersDone
  PROVE  Moves
<1>1. ReadOK'
  BY ReadStays DEF Inv, OthersDone, readVars
<1>2. PlaceOK'
  BY PlaceStays DEF Inv, OthersDone
<1> QED BY <1>1, <1>2 DEF Inv, Moves, DaoMoves

LEMMA QuietFlow ==
  ASSUME Inv, Running, NextStep, UNCHANGED <<daoVars, gnosisSafe, txnHash>>
  PROVE  Moves
<1>1. UNCHANGED world
  BY DEF NextStep
<1>2. DaoMoves
  BY <1>1, QuietDao DEF daoVars, Inv, DaoOK
<1> QED BY <1>2, FlowMoves

(* The client asks the DAO for its safe. *)
LEMMA SafeReadMoves ==
  ASSUME Inv, Running, NextStep, gnosisSafe' = hederaGnosisSafe,
         UNCHANGED <<daoVars, txnHash>>
  PROVE  Moves
<1>1. UNCHANGED world
  BY DEF NextStep
<1>2. DaoMoves
  BY <1>1, QuietDao DEF daoVars, Inv, DaoOK
<1>3. SafesOK /\ SafesOK' /\ NoncesGrow /\ hederaGnosisSafe \in Safes
  BY <1>2 DEF Inv, DaoOK, DaoMoves
<1>4. ReadOK'
  BY <1>3, StillHanded DEF ReadOK, Inv
<1>5. PlaceOK'
  BY NextStepKeepsPlace DEF Inv
<1> QED BY <1>2, <1>4, <1>5 DEF Inv, Moves, DaoMoves

LEMMA ProposeCallMoves ==
  ASSUME Inv, Running, NEW c, ProposeCall(c)
  PROVE  Moves
<1>1. /\ ProposeTransaction(Client, c) /\ txnHash' = <<NextHash(c)>> /\ NextStep
      /\ gnosisSafe' = gnosisSafe /\ world' = world
  BY DEF ProposeCall, NextStep
<1>2. DaoMoves /\ NextHash(c) \in AllHashes /\ \A h : h = NextHash(c) => Handed(h)'
  BY <1>1, ProposeMoves DEF Inv
<1>3. ReadOK'
  <2>1. PICK h : h = NextHash(c)
    OBVIOUS
  <2>2. txnHash' = <<h>> /\ h \in AllHashes /\ Handed(h)' /\ gnosisSafe' \in Safes
    BY <1>1, <1>2, <2>1 DEF Inv, ReadOK
  <2> QED BY <2>2 DEF ReadOK, Handed
<1>4. PlaceOK'
  BY <1>1, NextStepKeepsPlace DEF Inv
<1> QED BY <1>2, <1>3, <1>4 DEF Inv, Moves, DaoMoves

LEMMA HashAtTyped ==
  ASSUME NEW s \in Safes, NEW h \in AllHashes
  PROVE  HashAt(s, h) \in AllHashes
BY DEF HashAt, AllHashes

LEMMA HashesOfOthersTyped ==
  ASSUME world \in Worlds
  PROVE  HashesOfOthers \subseteq AllHashes
<1>1. /\ world.safes \subseteq Safes /\ world.calls \subseteq Calls
      /\ 1 .. world.nonces \subseteq Nonces
  BY ClientAssumption, SafeAssumption DEF Nonces
<1> QED BY <1>1 DEF HashesOfOthers, AllHashes

LEMMA ClientMoves ==
  ASSUME Inv,
         \/ GetGnosisSafe \/ ProposeStep \/ ApproveStep \/ ExecuteStep \/ TryExecute
         \/ FundSafe \/ AllowMultiSend \/ ChangeFeeConfigController \/ ChangeAdmin
         \/ GetListOfOwners \/ FetchBalanceFromSafe \/ Check
  PROVE  Moves
<1>1. CASE GetGnosisSafe
  BY <1>1, SafeReadMoves DEF GetGnosisSafe, Now
<1>2. CASE ProposeStep
  BY <1>2, ProposeCallMoves DEF ProposeStep, Now
<1>3. CASE ApproveStep
  <2>1. /\ Running /\ NextStep /\ UNCHANGED <<hederaGnosisSafe, transactions>>
        /\ UNCHANGED <<gnosisSafe, txnHash, world>>
        /\ txnHash[1] \in AllHashes /\ Handed(txnHash[1]) /\ gnosisSafe \in Safes
        /\ ApproveHash(gnosisSafe, This.arg, txnHash[1])
    BY <1>3 DEF ApproveStep, Now, readVars, NextStep, Inv, ReadOK
  <2>2. DaoMoves
    BY <2>1, ApproveMoves DEF Inv
  <2> QED BY <2>1, <2>2, FlowMoves
<1>4. CASE ExecuteStep \/ TryExecute
  <2>1. /\ Running /\ NextStep /\ UNCHANGED <<gnosisSafe, txnHash, world>>
        /\ gnosisSafe \in Safes /\ txnHash[1] \in AllHashes
    BY <1>4 DEF ExecuteStep, TryExecute, Now, readVars, NextStep, Inv, ReadOK
  <2>2. CASE ExecuteAny(HashAt(gnosisSafe, txnHash[1]))
    <3>1. HashAt(gnosisSafe, txnHash[1]) \in AllHashes
      BY <2>1, HashAtTyped
    <3>2. DaoMoves
      BY <2>1, <2>2, <3>1, ExecuteAnyMoves DEF Inv
    <3> QED BY <2>1, <3>2, FlowMoves
  <2>3. CASE UNCHANGED daoVars
    BY <2>1, <2>3, QuietFlow
  <2> QED BY <1>4, <2>2, <2>3 DEF ExecuteStep, TryExecute
<1>5. CASE FundSafe
  <2>1. /\ Running /\ This.do = "fund" /\ Deposit(gnosisSafe, This.arg) /\ NextStep
        /\ UNCHANGED <<hederaGnosisSafe, transactions, gnosisSafe, txnHash, world>>
    BY <1>5 DEF FundSafe, Now, readVars, NextStep
  <2>2. This.arg \in Nat \ {0} /\ gnosisSafe \in Safes
    BY <2>1, ThisTyped DEF Inv, ReadOK
  <2>3. DaoMoves
    BY <2>1, <2>2, DepositMoves DEF Inv
  <2> QED BY <2>1, <2>3, FlowMoves
<1>6. CASE AllowMultiSend \/ ChangeFeeConfigController \/ ChangeAdmin
  BY <1>6, QuietFlow
  DEF AllowMultiSend, ChangeFeeConfigController, ChangeAdmin, Now, readVars
<1>7. CASE GetListOfOwners
  BY <1>7, QuietFlow DEF GetListOfOwners, Now
<1>8. CASE FetchBalanceFromSafe
  BY <1>8, SafeReadMoves DEF FetchBalanceFromSafe, Now
<1>9. CASE Check
  BY <1>9, QuietFlow DEF Check, readVars
<1> QED BY <1>1, <1>2, <1>3, <1>4, <1>5, <1>6, <1>7, <1>8, <1>9

LEMMA StopMoves ==
  ASSUME Inv, StepThrows
  PROVE  Moves
<1>1. /\ UNCHANGED <<daoVars, world, gnosisSafe, txnHash>> /\ at' = 1
      /\ line' \in Nat \ {0}
  BY DEF StepThrows, readVars, Inv, PlaceOK
<1>2. DaoMoves
  BY <1>1, QuietDao DEF daoVars, Inv, DaoOK
<1>3. PlaceOK'
  BY <1>1, FlowStarts DEF Inv, PlaceOK
<1>4. ReadOK'
  BY <1>1, <1>2, ReadStays DEF Inv
<1> QED BY <1>2, <1>3, <1>4 DEF Inv, Moves, DaoMoves

LEMMA OthersNextMoves ==
  ASSUME Inv, OthersNext
  PROVE  Moves
<1>1. /\ world \in Worlds /\ world' = world /\ DaoOK /\ OthersDone
      /\ world.safes \subseteq Safes /\ world.calls \subseteq Calls
  BY ClientAssumption DEF Inv, PlaceOK, OthersNext, OthersDone, placeVars
<1>2. HashesOfOthers \subseteq AllHashes
  BY <1>1, HashesOfOthersTyped
<1>3. ASSUME NEW s \in world.safes, NEW h \in HashesOfOthers, NEW a \in Accounts,
             h.nonce <= txnNonce[h.safe] + world.ahead, ApproveHash(s, a, h),
             UNCHANGED <<hederaGnosisSafe, transactions>>
      PROVE  DaoMoves
  <2>1. world.ahead = 0 => Handed(h)
    <3>1. h.safe \in Safes /\ txnNonce[h.safe] \in Int
      BY <1>1, <1>2 DEF AllHashes, DaoOK, SafesOK
    <3> QED BY <1>3, <3>1 DEF Handed
  <2> QED BY <1>1, <1>2, <1>3, <2>1, ApproveMoves
<1>4. ASSUME NEW s \in world.safes, Deposit(s, 1),
             UNCHANGED <<hederaGnosisSafe, transactions>>
      PROVE  DaoMoves
  BY <1>1, <1>4, DepositMoves
<1>5. ASSUME NEW s \in world.safes, GetTxnHash(s),
             UNCHANGED <<hederaGnosisSafe, transactions>>,
             UNCHANGED <<owners, threshold, approvedHashes, executedHash, assets>>
      PROVE  DaoMoves
  BY <1>1, <1>5, HandOutMoves
<1>6. ASSUME NEW h \in HashesOfOthers, ExecuteTransaction(h), UNCHANGED effectVars
      PROVE  DaoMoves
  BY <1>1, <1>2, <1>6, ExecuteAnyMoves DEF ExecuteAny
<1>7. ASSUME NEW c \in world.calls, ProposeTransaction(SecondOwner, c)
      PROVE  DaoMoves
  BY <1>1, <1>7, ProposeMoves
<1>8. ASSUME NEW s \in world.safes, UpgradeHederaGnosisSafe(s)
      PROVE  DaoMoves
  BY <1>1, <1>8, UpgradeMoves
<1>9. DaoMoves
  BY <1>3, <1>4, <1>5, <1>6, <1>7, <1>8 DEF OthersNext
<1> QED BY <1>1, <1>9, OthersMove

LEMMA OthersExecuteMoves ==
  ASSUME Inv, OthersExecute
  PROVE  Moves
<1>1. PICK h \in DOMAIN transactions : ExecuteAny(h)
  BY DEF OthersExecute
<1>2. h \in AllHashes /\ world' = world /\ DaoOK /\ OthersDone
  BY <1>1 DEF Inv, DaoOK, OthersExecute, OthersDone, placeVars
<1>3. DaoMoves
  BY <1>1, <1>2, ExecuteAnyMoves
<1> QED BY <1>2, <1>3, OthersMove

LEMMA StutterMoves ==
  ASSUME Inv, UNCHANGED allVars
  PROVE  Moves
<1>1. UNCHANGED <<daoVars, placeVars, gnosisSafe, txnHash, world>>
  BY DEF allVars, vars, daoVars, safeVars, readVars, placeVars
<1>2. DaoMoves
  BY <1>1, QuietDao DEF daoVars, Inv, DaoOK
<1>3. ReadOK' /\ PlaceOK'
  BY <1>1, <1>2, ReadStays, PlaceStays DEF Inv
<1> QED BY <1>2, <1>3 DEF Inv, Moves, DaoMoves

LEMMA EveryStepMoves ==
  ASSUME Inv, [ClientNext]_allVars
  PROVE  Moves
<1>1. CASE OthersNext
  BY <1>1, OthersNextMoves
<1>2. CASE OthersExecute
  BY <1>2, OthersExecuteMoves
<1>3. CASE StepThrows
  BY <1>3, StopMoves
<1>4. CASE UNCHANGED allVars
  BY <1>4, StutterMoves
<1> QED BY <1>1, <1>2, <1>3, <1>4, ClientMoves DEF ClientNext

LEMMA SafesStart ==
  ASSUME Init
  PROVE  SafesOK /\ \A s \in Safes : Wallet(s)!Init
<1>1. /\ owners = InitialOwners /\ threshold = InitialThreshold
      /\ approvedHashes = [s \in Safes |-> {}] /\ executedHash = {}
      /\ txnNonce = [s \in Safes |-> 0] /\ assets = InitialAssets
  BY DEF Init, SafeInit
<1>2. \A s \in Safes : GoodList(owners[s], threshold[s])
  BY <1>1, SafeAssumption DEF GoodList
<1>3. SafesOK
  BY <1>1, <1>2, SafeAssumption DEF SafesOK
<1>4. ASSUME NEW s \in Safes PROVE Wallet(s)!Init
  <2>1. Owners(s) \in SUBSET Accounts /\ threshold[s] \in 1 .. Cardinality(Owners(s))
    BY <1>2, ListCount DEF GoodList, Owners
  <2>2. assets[s] \in Nat
    BY <1>3 DEF SafesOK
  <2>3. /\ {e \in approvedHashes[s] : e[2].safe = s} = {}
        /\ {h \in executedHash : h.safe = s} = {}
    BY <1>1
  <2> QED BY <2>1, <2>2, <2>3, CountsAlike DEF Wallet!Init
<1> QED BY <1>3, <1>4

LEMMA ClientStarts ==
  ASSUME ClientInit
  PROVE  Inv /\ \A s \in Safes : Wallet(s)!Init
<1>1. SafesOK /\ \A s \in Safes : Wallet(s)!Init
  BY SafesStart DEF ClientInit
<1>2. DaoOK
  BY <1>1, DaoAssumption DEF ClientInit, Init, SafeInit, DaoOK
<1>3. ReadOK
  BY DaoAssumption DEF ClientInit, ReadOK
<1>4. PlaceOK
  <2>1. world \in Worlds /\ line = 1 /\ at = 1
    BY DEF ClientInit
  <2>2. Running => /\ Flow(world.agenda[line]) \in Seq(StepType \cup {HandOver})
                   /\ Len(Flow(world.agenda[line])) > 0
    BY <2>1, AgendaTyped DEF Running
  <2> QED BY <2>1, <2>2 DEF PlaceOK
<1> QED BY <1>1, <1>2, <1>3, <1>4 DEF Inv

-----------------------------------------------------------------------------
(* The safes, and the records of the DAO, stay consistent with each other: *)
(* owners stand once in the list of their safe and can reach its           *)
(* threshold, and what is recorded, approved or executed is of a nonce     *)
(* that was handed out (HederaGnosisSafe.sol:53-73, 157-176).              *)
THEOREM SafesAreConsistent == ClientSpec => []Inv
<1>1. ClientInit => Inv
  BY ClientStarts
<1>2. Inv /\ [ClientNext]_allVars => Inv'
  BY EveryStepMoves DEF Moves
<1> QED BY <1>1, <1>2, PTL DEF ClientSpec

(* Every safe is a wallet of its owners of the moment, whatever its        *)
(* clients and everyone else do: at most one effect per transaction, and   *)
(* only with the approvals of as many owners as its threshold asks for     *)
(* (HederaGnosisSafe.sol:53-73, 187-220).                                  *)
THEOREM SafesAreWallets == ClientSpec => ImplementsWallets
<1>1. ClientInit => Inv /\ \A s \in Safes : Wallet(s)!Init
  BY ClientStarts
<1>2. Inv /\ [ClientNext]_allVars => Inv' /\ WalletsStep
  BY EveryStepMoves DEF Moves
<1>3. WalletsStep
        => [\A s \in Safes : UNCHANGED Wallet(s)!walletVars \/ Wallet(s)!Next]_vars
  BY DEF WalletsStep, WalletStep
<1> QED BY <1>1, <1>2, <1>3, PTL DEF ClientSpec, ImplementsWallets

(* A proposal is new: nobody has approved it, also when the call has been  *)
(* proposed before (test/multi-sig-dao-test.ts:1046).                      *)
THEOREM ProposalsStartPending == ClientSpec => NewProposalIsPending
<1>1. ClientInit => Inv
  BY ClientStarts
<1>2. Inv /\ [ClientNext]_allVars => Inv' /\ PendingStep
  BY EveryStepMoves DEF Moves
<1>3. PendingStep =>
        [world.ahead = 0 =>
           \A h \in DOMAIN transactions' :
             \/ Recorded(h) /\ transactions'[h] = transactions[h]
             \/ ~Recorded(h) /\ State(h)' = "Pending"]_allVars
  BY DEF PendingStep
<1> QED BY <1>1, <1>2, <1>3, PTL DEF ClientSpec, NewProposalIsPending
-----------------------------------------------------------------------------
(* The steps of the script's flows *)

LEMMA StepParts ==
  ASSUME NEW x
  PROVE  /\ Propose(x).do = "propose" /\ Propose(x).arg = x
         /\ Approve(x).do = "approve" /\ Approve(x).arg = x
         /\ Fund(x).do = "fund" /\ Fund(x).arg = x
         /\ GetSafe.do = "getSafe" /\ Execute.do = "execute" /\ HandOver.do = "handAdmin"
         /\ Step("allowMultiSend", x).do = "allowMultiSend"
         /\ Step("handController", x).do = "handController"
BY DEF Propose, Approve, Fund, GetSafe, Execute, HandOver, Step

(* The calls the script proposes besides its transfers. *)
PlainCalls == {AssociateCall, BatchCall, UpdateFeeConfigCall, TextCall}

LEMMA CallKinds ==
  /\ \A c \in PlainCalls : c.kind \in {"Associate", "Batch", "UpdateFeeConfig", "Text"}
  /\ TransferCall(1).kind = "Transfer" /\ TransferCall(1).amount = 1
  /\ UpgradeProxyCall.kind = "UpgradeProxy"
BY DEF PlainCalls, AssociateCall, BatchCall, UpdateFeeConfigCall, TextCall,
       TransferCall, UpgradeProxyCall, NoCall

(* Transfers of tokens come at place 7, funded at place 6. *)
LEMMA TokenSteps ==
  ASSUME NEW f, f = TokenTransferFlow \/ f = NFTTransferFlow
  PROVE  /\ Len(f) = 10
         /\ f[1] = GetSafe /\ f[2] = Propose(AssociateCall)
         /\ f[3] = Approve(SecondOwner) /\ f[4] = Approve(FirstOwner) /\ f[5] = Execute
         /\ f[6] = Fund(1) /\ f[7] = Propose(TransferCall(1))
         /\ f[8] = Approve(SecondOwner) /\ f[9] = Approve(FirstOwner) /\ f[10] = Execute
<1>1. /\ Len(AssociateSafe) = 5
      /\ AssociateSafe[1] = GetSafe /\ AssociateSafe[2] = Propose(AssociateCall)
      /\ AssociateSafe[3] = Approve(SecondOwner) /\ AssociateSafe[4] = Approve(FirstOwner)
      /\ AssociateSafe[5] = Execute
  BY DEF AssociateSafe, ApproveByAll
<1>2. f = AssociateSafe \o <<Fund(1), Propose(TransferCall(1))>> \o ApproveByAll \o <<Execute>>
  BY DEF TokenTransferFlow, NFTTransferFlow
<1>3. \E g : /\ g = AssociateSafe \o <<Fund(1), Propose(TransferCall(1))>>
             /\ f = g \o ApproveByAll \o <<Execute>>
  BY <1>2
<1>4. PICK g : /\ g = AssociateSafe \o <<Fund(1), Propose(TransferCall(1))>>
               /\ f = g \o ApproveByAll \o <<Execute>>
  BY <1>3
<1>5. AssociateSafe \in Seq(StepType) /\ Fund(1) \in StepType
      /\ Propose(TransferCall(1)) \in StepType
  BY AssociateTyped, StepsTyped DEF Flows
<1> HIDE DEF AssociateSafe
<1>6. /\ g \in Seq(StepType) /\ Len(g) = 7
      /\ \A i \in 1 .. 5 : g[i] = AssociateSafe[i]
      /\ g[6] = Fund(1) /\ g[7] = Propose(TransferCall(1))
  <2>1. PICK p : p = <<Fund(1), Propose(TransferCall(1))>>
    OBVIOUS
  <2>2. /\ p \in Seq(StepType) /\ Len(p) = 2
        /\ p[1] = Fund(1) /\ p[2] = Propose(TransferCall(1))
    BY <1>5, <2>1
  <2>3. /\ g \in Seq(StepType) /\ Len(g) = Len(AssociateSafe) + Len(p)
        /\ \A i \in 1 .. Len(AssociateSafe) + Len(p) :
             g[i] = IF i <= Len(AssociateSafe) THEN AssociateSafe[i]
                                               ELSE p[i - Len(AssociateSafe)]
    BY <1>4, <1>5, <2>1, <2>2, ConcatProperties
  <2> QED BY <1>1, <2>2, <2>3
<1>7. /\ Len(f) = 10 /\ \A i \in 1 .. 7 : f[i] = g[i]
      /\ f[8] = Approve(SecondOwner) /\ f[9] = Approve(FirstOwner) /\ f[10] = Execute
  BY <1>4, <1>6 DEF ApproveByAll
<1> QED BY <1>1, <1>6, <1>7

LEMMA ShortSteps ==
  ASSUME NEW f, f \in {HbarTransferFlow, BatchFlow, FeeConfigFlow, TextFlow}
  PROVE  /\ Len(f) \in {5, 6} /\ f[1] = GetSafe
         /\ f[3] = Approve(SecondOwner) /\ f[4] = Approve(FirstOwner)
         /\ Len(f) = 5 => f[5] = Execute
         /\ Len(f) = 6 => /\ f[5].do \in {"fund", "allowMultiSend", "handController"}
                          /\ f[6] = Execute
         /\ f = HbarTransferFlow => f[2] = Propose(TransferCall(1))
<1>1. /\ Len(HbarTransferFlow) = 6 /\ HbarTransferFlow[1] = GetSafe
      /\ HbarTransferFlow[2] = Propose(TransferCall(1))
      /\ HbarTransferFlow[3] = Approve(SecondOwner) /\ HbarTransferFlow[4] = Approve(FirstOwner)
      /\ HbarTransferFlow[5] = Fund(1) /\ HbarTransferFlow[6] = Execute
  BY DEF HbarTransferFlow, ApproveByAll
<1>2. /\ Len(BatchFlow) = 6 /\ BatchFlow[1] = GetSafe /\ BatchFlow[2] = Propose(BatchCall)
      /\ BatchFlow[3] = Approve(SecondOwner) /\ BatchFlow[4] = Approve(FirstOwner)
      /\ BatchFlow[5] = Step("allowMultiSend", 1) /\ BatchFlow[6] = Execute
  BY DEF BatchFlow, ApproveByAll
<1>3. /\ Len(FeeConfigFlow) = 6 /\ FeeConfigFlow[1] = GetSafe
      /\ FeeConfigFlow[2] = Propose(UpdateFeeConfigCall)
      /\ FeeConfigFlow[3] = Approve(SecondOwner) /\ FeeConfigFlow[4] = Approve(FirstOwner)
      /\ FeeConfigFlow[5] = Step("handController", 0) /\ FeeConfigFlow[6] = Execute
  BY DEF FeeConfigFlow, ApproveByAll
<1>4. /\ Len(TextFlow) = 5 /\ TextFlow[1] = GetSafe /\ TextFlow[2] = Propose(TextCall)
      /\ TextFlow[3] = Approve(SecondOwner) /\ TextFlow[4] = Approve(FirstOwner)
      /\ TextFlow[5] = Execute
  BY DEF TextFlow, ApproveByAll
<1>5. CASE f = HbarTransferFlow
  BY <1>1, <1>5, StepParts
<1>6. CASE f = BatchFlow /\ f # HbarTransferFlow
  BY <1>2, <1>6, StepParts
<1>7. CASE f = FeeConfigFlow /\ f # HbarTransferFlow
  BY <1>3, <1>7, StepParts
<1>8. CASE f = TextFlow /\ f # HbarTransferFlow
  BY <1>4, <1>8
<1> QED BY <1>5, <1>6, <1>7, <1>8

(* What the script may be about to do, and where. *)
LEMMA ScriptSteps ==
  ASSUME NEW name \in ScriptNames, NEW i \in DOMAIN Flow(name), NEW v, v = Flow(name)[i]
  PROVE  /\ v.do \in {"getSafe", "propose", "approve", "execute", "fund",
                      "allowMultiSend", "handController", "handAdmin"}
         /\ v.do = "propose" =>
              \/ v.arg \in PlainCalls
              \/ v.arg = TransferCall(1) /\ name = "hbar"
              \/ v.arg = TransferCall(1) /\ name \in {"ft", "nft"} /\ i = 7
              \/ v.arg = UpgradeProxyCall /\ name = "upgrade" /\ i = 2
         /\ v.do = "handAdmin" => name = "upgrade" /\ i = 5
         /\ name \in {"ft", "nft"} /\ i = 6 => v.do = "fund" /\ v.arg = 1
         /\ name = "upgrade" =>
              /\ i \in 1 .. 6
              /\ i = 2 => v.do = "propose" /\ v.arg = UpgradeProxyCall
              /\ i = 3 => v.do = "approve" /\ v.arg = SecondOwner
              /\ i = 4 => v.do = "approve" /\ v.arg = FirstOwner
              /\ i = 5 => v.do = "handAdmin"
<1>1. CASE name \in {"ft", "nft"}
  <2>1. PICK f : f = Flow(name)
    OBVIOUS
  <2>2. f = TokenTransferFlow \/ f = NFTTransferFlow
    BY <1>1, <2>1 DEF Flow
  <2>3. i \in 1 .. 10 /\ v = f[i]
    <3>1. f \in Seq(StepType) /\ Len(f) = 10
      BY <2>2, ScriptFlowsTyped, TokenSteps DEF Flows
    <3> HIDE DEF Flow
    <3> QED BY <2>1, <3>1
  <2>4. AssociateCall \in PlainCalls
    BY DEF PlainCalls
  <2> QED BY <1>1, <2>2, <2>3, <2>4, TokenSteps, StepParts
<1>2. CASE name \in {"hbar", "batch", "fee", "text"}
  <2>1. PICK f : f = Flow(name)
    OBVIOUS
  <2>2. /\ f \in {HbarTransferFlow, BatchFlow, FeeConfigFlow, TextFlow}
        /\ name # "hbar" => f \in {BatchFlow, FeeConfigFlow, TextFlow}
    BY <1>2, <2>1 DEF Flow
  <2>3. i \in 1 .. Len(f) /\ v = f[i]
    <3>1. f \in Seq(StepType)
      BY <2>2, ScriptFlowsTyped DEF Flows
    <3> HIDE DEF Flow
    <3> QED BY <2>1, <3>1
  <2>4. f \in {BatchFlow, FeeConfigFlow, TextFlow} => \E c \in PlainCalls : f[2] = Propose(c)
    BY DEF BatchFlow, FeeConfigFlow, TextFlow, ApproveByAll, PlainCalls
  <2>5. name # "hbar" => \E c \in PlainCalls : f[2] = Propose(c)
    BY <2>2, <2>4
  <2>6. name = "hbar" => f = HbarTransferFlow
    BY <1>2, <2>1 DEF Flow
  <2>7. CASE i = 2
    BY <1>2, <2>2, <2>3, <2>5, <2>6, <2>7, ShortSteps, StepParts
  <2>8. CASE i # 2
    <3>1. Len(f) \in {5, 6} /\ i \in {1, 3, 4, 5, 6}
      BY <2>2, <2>3, <2>8, ShortSteps
    <3>2. v.do \in {"getSafe", "approve", "execute", "fund", "allowMultiSend",
                    "handController"}
      <4>1. /\ f[1] = GetSafe /\ f[3] = Approve(SecondOwner) /\ f[4] = Approve(FirstOwner)
            /\ Len(f) = 5 => f[5] = Execute
            /\ Len(f) = 6 => /\ f[5].do \in {"fund", "allowMultiSend", "handController"}
                             /\ f[6] = Execute
        BY <2>2, ShortSteps
      <4>2. GetSafe.do = "getSafe" /\ Execute.do = "execute"
            /\ Approve(FirstOwner).do = "approve" /\ Approve(SecondOwner).do = "approve"
        BY StepParts
      <4>3. CASE i \in {1, 3, 4}
        BY <2>3, <4>1, <4>2, <4>3
      <4>4. CASE i \in {5, 6}
        <5>1. CASE i = 5
          BY <2>3, <3>1, <4>1, <4>2, <5>1
        <5>2. CASE i = 6
          <6>1. Len(f) = 6
            BY <2>3, <3>1, <5>2
          <6> QED BY <2>3, <4>1, <4>2, <5>2, <6>1
        <5> QED BY <4>4, <5>1, <5>2
      <4> QED BY <3>1, <4>3, <4>4
    <3> QED BY <1>2, <3>2
  <2> QED BY <2>7, <2>8
<1>3. CASE name = "upgrade"
  <2>1. PICK f : f = Flow(name)
    OBVIOUS
  <2>2. f = UpgradeFlow
    BY <1>3, <2>1 DEF Flow
  <2>3. i \in 1 .. 6 /\ v = f[i]
    <3>1. f \in Seq(StepType \cup {HandOver}) /\ Len(f) = 6
      BY <2>1, <2>2, FlowTyped, UpgradeSteps DEF FlowNames
    <3> HIDE DEF Flow
    <3> QED BY <2>1, <3>1
  <2> QED BY <1>3, <2>2, <2>3, UpgradeSteps, StepParts DEF HandOver
<1> QED BY <1>1, <1>2, <1>3 DEF ScriptNames
-----------------------------------------------------------------------------
(* The script on a DAO whose safes only it uses *)

Solo == world.safes = {} /\ IsScript

ScriptCalls == PlainCalls \cup {TransferCall(1), UpgradeProxyCall}

SoloOK ==
  Solo =>
    /\ hederaGnosisSafe = FirstSafe /\ gnosisSafe = FirstSafe
    /\ owners[FirstSafe] = InitialOwners[FirstSafe]
    /\ threshold[FirstSafe] = InitialThreshold[FirstSafe]
    /\ \A h \in DOMAIN transactions : h.safe = FirstSafe /\ h.call \in ScriptCalls
    /\ executedHash \subseteq DOMAIN transactions
    /\ IsFiniteSet(DOMAIN transactions)
    /\ txnHash # <<>> => txnHash[1] \in DOMAIN transactions

Name == world.agenda[line]

LEMMA SoloThis ==
  ASSUME Inv, Solo, Running
  PROVE  /\ Name \in ScriptNames /\ at \in Nat
         /\ This.do \in {"getSafe", "propose", "approve", "execute", "fund",
                         "allowMultiSend", "handController", "handAdmin"}
         /\ This.do = "propose" =>
              \/ This.arg \in PlainCalls
              \/ This.arg = TransferCall(1) /\ Name = "hbar"
              \/ This.arg = TransferCall(1) /\ Name \in {"ft", "nft"} /\ at = 7
              \/ This.arg = UpgradeProxyCall /\ Name = "upgrade" /\ at = 2
         /\ This.do = "handAdmin" => Name = "upgrade" /\ at = 5
         /\ Name \in {"ft", "nft"} /\ at = 6 => This.do = "fund" /\ This.arg = 1
         /\ Name = "upgrade" =>
              /\ at = 2 => This.do = "propose" /\ This.arg = UpgradeProxyCall
              /\ at = 3 => This.do = "approve" /\ This.arg = SecondOwner
              /\ at = 4 => This.do = "approve" /\ This.arg = FirstOwner
              /\ at = 5 => This.do = "handAdmin"
<1>1. /\ world \in Worlds /\ line \in Nat \ {0} /\ line <= Len(world.agenda)
      /\ at \in DOMAIN Flow(Name)
  BY DEF Inv, PlaceOK, Running, Name
<1>2. Name \in ScriptNames
  <2>1. world.agenda \in Seq(ScriptNames)
    BY <1>1, ClientAssumption DEF Solo, IsScript
  <2> QED BY <1>1, <2>1 DEF Name
<1>3. at \in Nat
  BY <1>1, <1>2, FlowTyped DEF FlowNames
<1>4. This = Flow(Name)[at]
  BY DEF This, Name
<1> HIDE DEF Name, This
<1> QED BY <1>1, <1>2, <1>3, <1>4, ScriptSteps

(* The steps there are on such a DAO. *)
SoloPropose == Now("propose") /\ ProposeCall(This.arg)

SoloApprove ==
  /\ Now("approve") /\ txnHash # <<>> /\ ApproveHash(FirstSafe, This.arg, txnHash[1])
  /\ NextStep /\ UNCHANGED <<hederaGnosisSafe, transactions, readVars, effectVars>>

SoloExecute ==
  /\ \E h \in DOMAIN transactions : ExecuteAny(h)
  /\ (Now("execute") /\ NextStep) \/ UNCHANGED placeVars
  /\ UNCHANGED readVars

SoloQuiet ==
  /\ UNCHANGED <<daoVars, txnHash, admin>> /\ gnosisSafe' \in {gnosisSafe, hederaGnosisSafe}
  /\ \/ Running /\ NextStep /\ This.do \in {"getSafe", "allowMultiSend", "handController"}
     \/ world' = world /\ at' = 1
     \/ UNCHANGED placeVars

LEMMA HashAtSame ==
  ASSUME NEW h \in AllHashes
  PROVE  HashAt(h.safe, h) = h
BY DEF HashAt, AllHashes

LEMMA SoloSteps ==
  ASSUME Inv, SoloOK, Solo, [ClientNext]_allVars
  PROVE  SoloPropose \/ SoloApprove \/ SoloExecute \/ FundSafe \/ ChangeAdmin \/ SoloQuiet
<1>1. Running => This.do \in {"getSafe", "propose", "approve", "execute", "fund",
                              "allowMultiSend", "handController", "handAdmin"}
  BY SoloThis
<1>2. CASE GetGnosisSafe \/ AllowMultiSend \/ ChangeFeeConfigController
  BY <1>2 DEF GetGnosisSafe, AllowMultiSend, ChangeFeeConfigController, SoloQuiet, Now,
              readVars, effectVars
<1>3. CASE ProposeStep
  BY <1>1, <1>3 DEF ProposeStep, Now, SoloPropose
<1>4. CASE ApproveStep
  <2>1. gnosisSafe = FirstSafe /\ txnHash # <<>> /\ txnHash[1] \in DOMAIN transactions
        /\ txnHash[1].safe = FirstSafe
    BY <1>4 DEF ApproveStep, SoloOK
  <2> QED BY <1>4, <2>1 DEF ApproveStep, SoloApprove
<1>5. CASE ExecuteStep
  <2>1. gnosisSafe = FirstSafe /\ txnHash # <<>> /\ txnHash[1] \in DOMAIN transactions
        /\ txnHash[1].safe = FirstSafe /\ txnHash[1] \in AllHashes
    BY <1>5 DEF ExecuteStep, SoloOK, Inv, ReadOK
  <2>2. ExecuteAny(txnHash[1])
    BY <1>5, <2>1, HashAtSame DEF ExecuteStep
  <2> QED BY <1>5, <2>1, <2>2 DEF ExecuteStep, SoloExecute
<1>6. CASE TryExecute \/ GetListOfOwners \/ FetchBalanceFromSafe \/ Check
  BY <1>1, <1>6 DEF TryExecute, GetListOfOwners, FetchBalanceFromSafe, Check, Checks, Now
<1>7. CASE StepThrows
  BY <1>7 DEF StepThrows, SoloQuiet, readVars, effectVars
<1>8. CASE OthersNext
  <2>1. world.safes = {} /\ world.calls = {}
    BY ClientAssumption DEF Inv, PlaceOK, Solo
  <2>2. HashesOfOthers = {}
    BY <2>1 DEF HashesOfOthers
  <2> QED BY <1>8, <2>1, <2>2 DEF OthersNext
<1>9. CASE OthersExecute
  BY <1>9 DEF OthersExecute, OthersDone, SoloExecute
<1>10. CASE UNCHANGED allVars
  BY <1>10 DEF allVars, SoloQuiet, vars, daoVars, safeVars, placeVars, readVars, effectVars
<1> QED BY <1>2, <1>3, <1>4, <1>5, <1>6, <1>7, <1>8, <1>9, <1>10 DEF ClientNext

LEMMA WorldStays ==
  ASSUME [ClientNext]_allVars
  PROVE  world' = world
<1>1. NextStep => world' = world
  BY DEF NextStep
<1>2. OthersDone => world' = world
  BY DEF OthersDone, placeVars
<1>3. UNCHANGED allVars => world' = world
  BY DEF allVars, placeVars
<1> QED BY <1>1, <1>2, <1>3
    DEF ClientNext, GetGnosisSafe, ProposeStep, ProposeCall, ApproveStep, ExecuteStep,
        TryExecute, FundSafe, AllowMultiSend, ChangeFeeConfigController, ChangeAdmin,
        GetListOfOwners, FetchBalanceFromSafe, Check, StepThrows, OthersNext, OthersExecute

(* What an execution does when none of the calls is about the owners. *)
LEMMA SoloExecuted ==
  ASSUME Inv, SoloOK, Solo, NEW h \in DOMAIN transactions, ExecuteAny(h)
  PROVE  /\ CheckApprovals(FirstSafe, h) /\ h \notin executedHash
         /\ executedHash' = executedHash \cup {h}
         /\ UNCHANGED <<owners, threshold, approvedHashes, hederaGnosisSafe, transactions>>
         /\ h.call.kind = "Transfer" => assets'[FirstSafe] = assets[FirstSafe] - 1
         /\ h.call.kind # "Transfer" => assets' = assets
         /\ h.call.kind = "UpgradeProxy" => admin = FirstSafe /\ admin' = ProxyAdmin
         /\ h.call.kind # "UpgradeProxy" => admin' = admin
<1>1. /\ MarkExecuted(h) /\ UNCHANGED <<hederaGnosisSafe, transactions>>
  BY DEF ExecuteAny, ExecuteTransaction, OtherCall
<1>2. /\ h.safe = FirstSafe
      /\ h.call.kind \in {"Associate", "Batch", "UpdateFeeConfig", "Text", "Transfer",
                          "UpgradeProxy"}
      /\ h.call.kind = "Transfer" => h.call.amount = 1
  BY CallKinds DEF SoloOK, ScriptCalls
<1>3. assets \in [Safes -> Nat] /\ FirstSafe \in Safes
  BY DaoAssumption DEF Inv, DaoOK, SafesOK
<1>4. CASE ExecuteTransaction(h) /\ UNCHANGED effectVars
  <2>1. CASE SafeCall(h.safe, h.call)
    <3>1. h.call.kind = "Transfer" /\ TransferAssets(FirstSafe, h.call)
      BY <1>2, <2>1 DEF SafeCall
    <3> QED BY <1>1, <1>2, <1>3, <1>4, <3>1 DEF TransferAssets, MarkExecuted, effectVars
  <2>2. CASE h.call.kind = "Text" /\ SetText(h.safe)
    BY <1>1, <1>2, <1>4, <2>2 DEF SetText, MarkExecuted, effectVars
  <2> QED BY <1>4, <2>1, <2>2 DEF ExecuteTransaction
<1>5. CASE OtherCall(h)
  BY <1>1, <1>2, <1>5 DEF OtherCall, MarkExecuted, effectVars
<1> QED BY <1>4, <1>5 DEF ExecuteAny

(* What a proposal does to the records. *)
LEMMA ProposeRecords ==
  ASSUME Inv, NEW c, ProposeCall(c)
  PROVE  \E h : /\ h \notin DOMAIN transactions /\ DOMAIN transactions' = DOMAIN transactions \cup {h}
                /\ txnHash' = <<h>> /\ h.safe = hederaGnosisSafe /\ h.call = c
                /\ UNCHANGED <<owners, threshold, approvedHashes, executedHash, assets>>
                /\ UNCHANGED <<hederaGnosisSafe, gnosisSafe, effectVars>> /\ NextStep
<1>1. PICK h : h = NextHash(c)
  OBVIOUS
<1>2. c \in Calls /\ GetTxnHash(hederaGnosisSafe) /\ DaoOK
  BY DEF ProposeCall, ProposeTransaction, Inv
<1>3. ~Handed(h)
  BY <1>1, <1>2, NextHashIsNew
<1>4. h \notin DOMAIN transactions
  BY <1>2, <1>3 DEF DaoOK
<1>5. h.safe = hederaGnosisSafe /\ h.call = c
  BY <1>1 DEF NextHash
<1>6. DOMAIN transactions' = DOMAIN transactions \cup {h} /\ txnHash' = <<h>>
  BY <1>1 DEF ProposeCall, ProposeTransaction
<1> QED BY <1>4, <1>5, <1>6 DEF ProposeCall, ProposeTransaction

LEMMA SoloKept ==
  ASSUME Inv, SoloOK, [ClientNext]_allVars
  PROVE  SoloOK'
<1>1. world' = world
  BY WorldStays
<1> SUFFICES ASSUME Solo
             PROVE  SoloOK'
  BY <1>1 DEF SoloOK, Solo, IsScript
<1>2. CASE SoloPropose
  <2>1. This.arg \in ScriptCalls
    BY <1>2, SoloThis DEF SoloPropose, Now, ScriptCalls
  <2>2. PICK h : /\ DOMAIN transactions' = DOMAIN transactions \cup {h}
                 /\ txnHash' = <<h>> /\ h.safe = hederaGnosisSafe /\ h.call = This.arg
                 /\ UNCHANGED <<owners, threshold, executedHash>>
                 /\ UNCHANGED <<hederaGnosisSafe, gnosisSafe>>
    BY <1>2, ProposeRecords DEF SoloPropose
  <2>3. IsFiniteSet(DOMAIN transactions')
    BY <2>2, FS_AddElement DEF SoloOK
  <2> QED BY <2>1, <2>2, <2>3 DEF SoloOK
<1>3. CASE SoloExecute
  <2>1. PICK h \in DOMAIN transactions : ExecuteAny(h)
    BY <1>3 DEF SoloExecute
  <2> QED BY <1>3, <2>1, SoloExecuted DEF SoloExecute, SoloOK, readVars
<1>4. CASE SoloApprove
  BY <1>4 DEF SoloApprove, ApproveHash, SoloOK, readVars
<1>5. CASE FundSafe
  BY <1>5 DEF FundSafe, Deposit, SoloOK, readVars
<1>6. CASE ChangeAdmin
  BY <1>6 DEF ChangeAdmin, SoloOK, readVars, daoVars, safeVars
<1>7. CASE SoloQuiet
  BY <1>7 DEF SoloQuiet, SoloOK, daoVars, safeVars
<1> QED BY <1>2, <1>3, <1>4, <1>5, <1>6, <1>7, SoloSteps

LEMMA SoloStarts ==
  ASSUME ClientInit
  PROVE  SoloOK
BY FS_EmptySet DEF ClientInit, Init, SafeInit, SoloOK
-----------------------------------------------------------------------------
(* The transfers that are not paid yet are covered *)

Unpaid == {h \in DOMAIN transactions : h.call.kind = "Transfer" /\ h \notin executedHash}

(* The safe has been funded for a transfer that is proposed next. *)
Funded == Running /\ Name \in {"ft", "nft"} /\ at = 7

CoveredOK ==
  Solo /\ "hbar" \notin ToSet(world.agenda) =>
    Cardinality(Unpaid) + (IF Funded THEN 1 ELSE 0) <= assets[FirstSafe]

LEMMA FundedAfter ==
  ASSUME Inv, Solo, Running, NextStep, Funded'
  PROVE  This.do = "fund" /\ This.arg = 1
<1>1. at' = at + 1 /\ line' = line /\ world' = world
  BY DEF NextStep, Funded
<1>2. at = 6 /\ Name \in {"ft", "nft"}
  BY <1>1, SoloThis DEF Funded, Name
<1> QED BY <1>2, SoloThis

LEMMA FundedSame ==
  ASSUME UNCHANGED placeVars
  PROVE  Funded' = Funded
BY DEF Funded, Running, Name, placeVars

LEMMA UnpaidFinite ==
  ASSUME SoloOK, Solo
  PROVE  IsFiniteSet(Unpaid) /\ Cardinality(Unpaid) \in Nat
<1>1. IsFiniteSet(DOMAIN transactions) /\ Unpaid \subseteq DOMAIN transactions
  BY DEF SoloOK, Unpaid
<1>2. IsFiniteSet(Unpaid)
  BY <1>1, FS_Subset
<1> QED BY <1>2, FS_CardinalityType

(* A step that pays nothing and proposes no transfer. *)
LEMMA CoveredStays ==
  ASSUME Inv, SoloOK, Solo, CoveredOK, "hbar" \notin ToSet(world.agenda), Unpaid' = Unpaid,
         assets'[FirstSafe] \in Nat, assets'[FirstSafe] >= assets[FirstSafe],
         Funded' => Funded \/ assets'[FirstSafe] = assets[FirstSafe] + 1
  PROVE  Cardinality(Unpaid)' + (IF Funded' THEN 1 ELSE 0) <= assets'[FirstSafe]
<1>1. Cardinality(Unpaid) \in Nat /\ assets[FirstSafe] \in Nat
  BY UnpaidFinite, DaoAssumption DEF Inv, DaoOK, SafesOK
<1>2. Cardinality(Unpaid) + (IF Funded THEN 1 ELSE 0) <= assets[FirstSafe]
  BY DEF CoveredOK
<1>3. Cardinality(Unpaid)' = Cardinality(Unpaid)
  OBVIOUS
<1> QED BY <1>1, <1>2, <1>3

LEMMA CoveredKept ==
  ASSUME Inv, SoloOK, CoveredOK, [ClientNext]_allVars
  PROVE  CoveredOK'
<1>1. world' = world
  BY WorldStays
<1> SUFFICES ASSUME Solo, "hbar" \notin ToSet(world.agenda)
             PROVE  Cardinality(Unpaid)' + (IF Funded' THEN 1 ELSE 0) <= assets'[FirstSafe]
  BY <1>1 DEF CoveredOK, Solo, IsScript
<1>2. assets \in [Safes -> Nat] /\ FirstSafe \in Safes /\ assets[FirstSafe] \in Nat
  BY DaoAssumption DEF Inv, DaoOK, SafesOK
<1>3. Cardinality(Unpaid) + (IF Funded THEN 1 ELSE 0) <= assets[FirstSafe]
  BY DEF CoveredOK
<1>4. Running => Name # "hbar"
  <2>1. world.agenda \in Seq(ScriptNames)
    BY ClientAssumption DEF Inv, PlaceOK, Solo, IsScript
  <2> QED BY <2>1 DEF Name, Running, ToSet, Inv, PlaceOK
<1>5. CASE SoloPropose
  <2>1. Running /\ This.do = "propose"
    BY <1>5 DEF SoloPropose, Now
  <2>2. PICK h : /\ h \notin DOMAIN transactions
                 /\ DOMAIN transactions' = DOMAIN transactions \cup {h}
                 /\ h.call = This.arg
                 /\ UNCHANGED <<owners, threshold, approvedHashes, executedHash, assets>>
                 /\ NextStep
    BY <1>5, ProposeRecords DEF SoloPropose
  <2>3. ~Funded'
    BY <2>1, <2>2, FundedAfter
  <2>4. CASE This.arg = TransferCall(1)
    <3>1. Funded
      BY <1>4, <2>1, <2>4, SoloThis, CallKinds DEF Funded
    <3>2. Unpaid' = Unpaid \cup {h} /\ h \notin Unpaid
      <4>1. h \notin executedHash
        BY <2>2 DEF SoloOK
      <4>2. h.call.kind = "Transfer"
        BY <2>2, <2>4, CallKinds
      <4> QED BY <2>2, <4>1, <4>2 DEF Unpaid
    <3>3. Cardinality(Unpaid') = Cardinality(Unpaid) + 1
      BY <3>2, UnpaidFinite, FS_AddElement
    <3>4. Cardinality(Unpaid)' = Cardinality(Unpaid')
      OBVIOUS
    <3> QED BY <1>2, <1>3, <2>2, <2>3, <3>1, <3>3, <3>4, UnpaidFinite
  <2>5. CASE This.arg # TransferCall(1)
    <3>1. h.call.kind # "Transfer"
      <4>1. This.arg \in PlainCalls \/ This.arg = UpgradeProxyCall
        BY <2>1, <2>5, SoloThis
      <4> QED BY <2>2, <4>1, CallKinds
    <3>2. Unpaid' = Unpaid
      BY <2>2, <3>1 DEF Unpaid
    <3> QED BY <1>2, <2>2, <2>3, <3>2, CoveredStays
  <2> QED BY <2>4, <2>5
<1>6. CASE SoloExecute
  <2>1. PICK h \in DOMAIN transactions : ExecuteAny(h)
    BY <1>6 DEF SoloExecute
  <2>2. /\ h \notin executedHash /\ executedHash' = executedHash \cup {h}
        /\ transactions' = transactions
        /\ h.call.kind = "Transfer" => assets'[FirstSafe] = assets[FirstSafe] - 1
        /\ h.call.kind # "Transfer" => assets' = assets
    BY <2>1, SoloExecuted
  <2>3. Funded' => Funded
    BY <1>6, FundedAfter, FundedSame DEF SoloExecute, Now
  <2>4. CASE h.call.kind = "Transfer"
    <3>1. Unpaid' = Unpaid \ {h} /\ h \in Unpaid
      BY <2>2, <2>4 DEF Unpaid
    <3>2. Cardinality(Unpaid') = Cardinality(Unpaid) - 1
      BY <3>1, UnpaidFinite, FS_RemoveElement
    <3>3. Cardinality(Unpaid)' = Cardinality(Unpaid')
      OBVIOUS
    <3> QED BY <1>2, <1>3, <2>2, <2>3, <2>4, <3>2, <3>3, UnpaidFinite
  <2>5. CASE h.call.kind # "Transfer"
    <3>1. Unpaid' = Unpaid
      BY <2>2, <2>5 DEF Unpaid
    <3> QED BY <1>2, <2>2, <2>3, <2>5, <3>1, CoveredStays
  <2> QED BY <2>4, <2>5
<1>7. CASE SoloApprove
  <2>1. Unpaid' = Unpaid /\ assets' = assets
    BY <1>7 DEF SoloApprove, ApproveHash, Unpaid
  <2>2. ~Funded'
    BY <1>7, FundedAfter DEF SoloApprove, Now
  <2> QED BY <1>2, <2>1, <2>2, CoveredStays
<1>8. CASE FundSafe
  <2>1. /\ Running /\ NextStep /\ This.do = "fund" /\ This.arg \in Nat \ {0}
        /\ gnosisSafe = FirstSafe
    BY <1>8, ThisTyped DEF FundSafe, Now, Inv, SoloOK
  <2>2. Unpaid' = Unpaid /\ assets' = [assets EXCEPT ![FirstSafe] = @ + This.arg]
    BY <1>8, <2>1 DEF FundSafe, Deposit, Unpaid
  <2>3. assets'[FirstSafe] = assets[FirstSafe] + This.arg
    BY <1>2, <2>2
  <2>4. Funded' => assets'[FirstSafe] = assets[FirstSafe] + 1
    BY <2>1, <2>3, FundedAfter
  <2> QED BY <1>2, <2>1, <2>2, <2>3, <2>4, CoveredStays
<1>9. CASE ChangeAdmin
  <2>1. Unpaid' = Unpaid /\ assets' = assets
    BY <1>9 DEF ChangeAdmin, daoVars, safeVars, Unpaid
  <2>2. ~Funded'
    BY <1>9, FundedAfter DEF ChangeAdmin, Now
  <2> QED BY <1>2, <2>1, <2>2, CoveredStays
<1>10. CASE SoloQuiet
  <2>1. Unpaid' = Unpaid /\ assets' = assets
    BY <1>10 DEF SoloQuiet, daoVars, safeVars, Unpaid
  <2>2. Funded' => Funded
    BY <1>10, FundedAfter, FundedSame DEF SoloQuiet, Funded
  <2> QED BY <1>2, <2>1, <2>2, CoveredStays
<1> QED BY <1>5, <1>6, <1>7, <1>8, <1>9, <1>10, SoloSteps

LEMMA CoveredStarts ==
  ASSUME ClientInit
  PROVE  CoveredOK
<1>1. Inv /\ Unpaid = {} /\ ~Funded
  BY ClientStarts DEF ClientInit, Init, SafeInit, Unpaid, Funded
<1>2. assets[FirstSafe] \in Nat
  BY <1>1, DaoAssumption DEF Inv, DaoOK, SafesOK
<1> QED BY <1>1, <1>2, FS_EmptySet DEF CoveredOK

LEMMA CoveredMeans ==
  ASSUME Inv, SoloOK, CoveredOK
  PROVE  ApprovedIsCovered
<1> SUFFICES ASSUME world.safes = {}, IsScript, "hbar" \notin ToSet(world.agenda),
                    NEW s \in Safes
             PROVE  Cardinality({h \in DOMAIN transactions :
                      h.safe = s /\ h.call.kind = "Transfer" /\ Waiting(h)}) <= assets[s]
  BY DEF ApprovedIsCovered
<1> DEFINE T == {h \in DOMAIN transactions :
                   h.safe = s /\ h.call.kind = "Transfer" /\ Waiting(h)}
<1>1. Solo /\ assets[s] \in Nat /\ assets[FirstSafe] \in Nat
  BY DaoAssumption DEF Solo, Inv, DaoOK, SafesOK
<1>2. CASE s = FirstSafe
  <2>1. T \subseteq Unpaid
    BY DEF Unpaid, Waiting
  <2>2. Cardinality(T) <= Cardinality(Unpaid) /\ Cardinality(T) \in Nat
    BY <1>1, <2>1, UnpaidFinite, FS_Subset, FS_CardinalityType
  <2>3. Cardinality(Unpaid) + (IF Funded THEN 1 ELSE 0) <= assets[FirstSafe]
    BY <1>1 DEF CoveredOK
  <2> HIDE DEF T
  <2>4. Cardinality(T) <= assets[s]
    BY <1>1, <1>2, <2>2, <2>3, UnpaidFinite
  <2> QED BY <2>4 DEF T
<1>3. CASE s # FirstSafe
  <2>1. T = {}
    BY <1>1, <1>3 DEF SoloOK
  <2>2. Cardinality(T) <= assets[s]
    BY <1>1, <2>1, FS_EmptySet
  <2> QED BY <2>2
<1> QED BY <1>2, <1>3

(* Wherever the script stops, the safe can pay every transfer that its     *)
(* token flows have left approved (multiSigDAO.ts:100-251).                *)
THEOREM TransfersCanBePaid == ClientSpec => []ApprovedIsCovered
<1>1. ClientInit => Inv /\ SoloOK /\ CoveredOK
  BY ClientStarts, SoloStarts, CoveredStarts
<1>2. Inv /\ SoloOK /\ CoveredOK /\ [ClientNext]_allVars => (Inv /\ SoloOK /\ CoveredOK)'
  BY EveryStepMoves, SoloKept, CoveredKept DEF Moves
<1>3. Inv /\ SoloOK /\ CoveredOK => ApprovedIsCovered
  BY CoveredMeans
<1> QED BY <1>1, <1>2, <1>3, PTL DEF ClientSpec
-----------------------------------------------------------------------------
(* A proxy that was handed to the safe is waiting to be returned *)

Upgrading(n) == Running /\ Name = "upgrade" /\ at = n

(* Between its proposal and the hand-over; Own is what it has proposed.    *)
Preparing == Upgrading(3) \/ Upgrading(4) \/ Upgrading(5)

Own == txnHash[1]

Returning ==
  {h \in DOMAIN transactions :
     /\ h.call.kind = "UpgradeProxy" /\ h \notin executedHash
     /\ CheckApprovals(FirstSafe, h) \/ (Preparing /\ ~Upgrading(5) /\ h = Own)}

HandOK ==
  /\ world.safes = {} /\ ~IsScript => admin = ProxyAdmin
  /\ Solo =>
       /\ admin \in {ProxyAdmin, FirstSafe}
       /\ Preparing => /\ txnHash # <<>> /\ Own.call = UpgradeProxyCall
                       /\ Upgrading(3) \/ <<SecondOwner, Own>> \in approvedHashes[FirstSafe]
                       /\ Upgrading(5) => <<FirstOwner, Own>> \in approvedHashes[FirstSafe]
       /\ admin = FirstSafe \/ Preparing => Returning # {}
       /\ admin = FirstSafe /\ Preparing => \E g \in Returning, h \in Returning : g # h

(* Approvals stay, and owners that both approved are enough. *)
LEMMA ApprovalsStay ==
  ASSUME Inv, NEW h, CheckApprovals(FirstSafe, h),
         owners'[FirstSafe] = owners[FirstSafe],
         threshold'[FirstSafe] = threshold[FirstSafe],
         approvedHashes[FirstSafe] \subseteq approvedHashes'[FirstSafe]
  PROVE  CheckApprovals(FirstSafe, h)'
<1> DEFINE old == {a \in Owners(FirstSafe) : <<a, h>> \in approvedHashes[FirstSafe]}
           new == {a \in Owners(FirstSafe) : <<a, h>> \in approvedHashes'[FirstSafe]}
<1>1. IsFiniteSet(Owners(FirstSafe)) /\ threshold[FirstSafe] \in Int
  BY ListCount, DaoAssumption DEF Inv, DaoOK, SafesOK, GoodList, Owners
<1>2. old \subseteq new /\ IsFiniteSet(new)
  BY <1>1, FS_Subset
<1>3. Cardinality(old) <= Cardinality(new) /\ Cardinality(old) \in Nat /\ Cardinality(new) \in Nat
  BY <1>2, FS_Subset, FS_CardinalityType
<1>4. GetApprovalCounts(FirstSafe, h) = Cardinality(old)
  BY DEF GetApprovalCounts
<1>5. GetApprovalCounts(FirstSafe, h)' = Cardinality(new)
  BY DEF GetApprovalCounts, Owners
<1> HIDE DEF old, new
<1> QED BY <1>1, <1>3, <1>4, <1>5 DEF CheckApprovals

LEMMA BothApproved ==
  ASSUME Inv', SoloOK', Solo', NEW h,
         <<FirstOwner, h>> \in approvedHashes'[FirstSafe],
         <<SecondOwner, h>> \in approvedHashes'[FirstSafe]
  PROVE  CheckApprovals(FirstSafe, h)'
<1> DEFINE both == {FirstOwner, SecondOwner}
<1>1. PICK those : those = {a \in Owners(FirstSafe)' : <<a, h>> \in approvedHashes'[FirstSafe]}
  OBVIOUS
<1>2. IsFiniteSet(Owners(FirstSafe)') /\ threshold'[FirstSafe] \in Int
  BY ListCount, DaoAssumption DEF Inv, DaoOK, SafesOK, GoodList, Owners
<1>3. threshold'[FirstSafe] <= 2 /\ both \subseteq Owners(FirstSafe)' /\ FirstOwner # SecondOwner
  BY OwnersAssumption DEF SoloOK, Owners
<1>4. both \subseteq those /\ IsFiniteSet(those)
  BY <1>1, <1>2, <1>3, FS_Subset
<1>5. Cardinality(both) = 2
  <2>1. Cardinality({FirstOwner}) = 1 /\ IsFiniteSet({FirstOwner})
    BY FS_Singleton
  <2>2. both = {FirstOwner} \cup {SecondOwner} /\ SecondOwner \notin {FirstOwner}
    BY <1>3
  <2> QED BY <2>1, <2>2, FS_AddElement
<1>6. Cardinality(those) >= 2 /\ Cardinality(those) \in Nat
  <2>1. Cardinality(both) <= Cardinality(those) /\ Cardinality(those) \in Nat
    BY <1>4, FS_Subset, FS_CardinalityType
  <2> HIDE DEF both
  <2> QED BY <1>5, <2>1
<1>7. GetApprovalCounts(FirstSafe, h)' = Cardinality(those)
  BY <1>1 DEF GetApprovalCounts
<1> QED BY <1>2, <1>3, <1>6, <1>7 DEF CheckApprovals

(* The hand-over is prepared one place at a time. *)
LEMMA PreparingAfter ==
  ASSUME Inv, Solo, Running, NextStep
  PROVE  /\ Upgrading(3)' => This.do = "propose" /\ This.arg = UpgradeProxyCall
         /\ Upgrading(4)' => /\ This.do = "approve" /\ This.arg = SecondOwner
                             /\ Upgrading(3)
         /\ Upgrading(5)' => /\ This.do = "approve" /\ This.arg = FirstOwner
                             /\ Upgrading(4)
<1>1. at \in Nat
  BY SoloThis
<1>2. ASSUME NEW n \in {3, 4, 5}, Upgrading(n)'
      PROVE  Name = "upgrade" /\ at = n - 1
  <2>1. at' = at + 1 /\ line' = line /\ world' = world
    BY <1>2 DEF NextStep, Upgrading
  <2> QED BY <1>1, <1>2, <2>1 DEF Upgrading, Name
<1> QED BY <1>2, SoloThis DEF Upgrading

LEMMA UpgradingSame ==
  ASSUME UNCHANGED placeVars, NEW n
  PROVE  Upgrading(n)' = Upgrading(n)
BY DEF Upgrading, Running, Name, placeVars

(* What waits for an execution that does not come goes on waiting.        *)
LEMMA ReturningStays ==
  ASSUME Inv, SoloOK, Solo, UNCHANGED <<transactions, executedHash>>,
         owners'[FirstSafe] = owners[FirstSafe],
         threshold'[FirstSafe] = threshold[FirstSafe],
         approvedHashes[FirstSafe] \subseteq approvedHashes'[FirstSafe], NEW h \in Returning,
         \/ CheckApprovals(FirstSafe, h)
         \/ CheckApprovals(FirstSafe, h)'
         \/ (Upgrading(3)' \/ Upgrading(4)') /\ h = Own'
  PROVE  h \in Returning'
<1>1. h \in DOMAIN transactions /\ h.safe = FirstSafe /\ FirstSafe \in Safes
  BY DaoAssumption DEF Returning, SoloOK
<1>2. CheckApprovals(FirstSafe, h) => CheckApprovals(FirstSafe, h)'
  BY <1>1, ApprovalsStay
<1>3. (Upgrading(3)' \/ Upgrading(4)') => Preparing' /\ ~Upgrading(5)'
  BY DEF Preparing, Upgrading
<1> QED BY <1>1, <1>2, <1>3 DEF Returning

(* Also when the client, back from its preparations, forgets its own.      *)
LEMMA ReturningLeft ==
  ASSUME Inv, SoloOK, Solo, HandOK, admin = FirstSafe,
         UNCHANGED <<transactions, executedHash>>,
         owners'[FirstSafe] = owners[FirstSafe],
         threshold'[FirstSafe] = threshold[FirstSafe],
         approvedHashes[FirstSafe] \subseteq approvedHashes'[FirstSafe]
  PROVE  Returning' # {}
<1>1. \E h \in Returning : CheckApprovals(FirstSafe, h)
  <2>1. CASE Preparing
    <3>1. PICK g \in Returning, h \in Returning : g # h
      BY <2>1 DEF HandOK
    <3> QED BY <3>1 DEF Returning
  <2>2. CASE ~Preparing
    BY <2>2 DEF HandOK, Returning
  <2> QED BY <2>1, <2>2
<1> QED BY <1>1, ReturningStays

LEMMA HandStarts ==
  ASSUME ClientInit
  PROVE  HandOK
<1>1. admin = ProxyAdmin /\ at = 1 /\ ProxyAdmin # FirstSafe
  BY ClientAssumption, DaoAssumption DEF ClientInit
<1>2. ~Preparing
  BY <1>1 DEF Preparing, Upgrading
<1> QED BY <1>1, <1>2 DEF HandOK

(* The scenarios leave the proxy alone. *)
LEMMA AdminStays ==
  ASSUME Inv, [ClientNext]_allVars, ~IsScript, admin = ProxyAdmin
  PROVE  admin' = ProxyAdmin
<1>1. ASSUME NEW h \in AllHashes, ExecuteAny(h)
      PROVE  admin' = ProxyAdmin
  <2>1. h.safe # ProxyAdmin
    BY ClientAssumption DEF AllHashes
  <2> QED BY <1>1, <2>1 DEF ExecuteAny, OtherCall, effectVars
<1>2. CASE ExecuteStep \/ TryExecute
  <2>1. txnHash # <<>> => HashAt(gnosisSafe, txnHash[1]) \in AllHashes
    BY HashAtTyped DEF Inv, ReadOK
  <2> QED BY <1>1, <1>2, <2>1 DEF ExecuteStep, TryExecute, effectVars
<1>3. CASE OthersExecute
  <2>1. DOMAIN transactions \subseteq AllHashes
    BY DEF Inv, DaoOK
  <2> QED BY <1>1, <1>3, <2>1 DEF OthersExecute
<1>4. ~ChangeAdmin
  <2>1. world.agenda \in Seq(ScenarioNames)
    BY ClientAssumption DEF Inv, PlaceOK, IsScript
  <2>2. Running => world.agenda[line] \in ScenarioNames
    BY <2>1 DEF Running, Inv, PlaceOK
  <2>3. Running => world.agenda[line] # "upgrade"
    BY <2>2 DEF ScenarioNames
  <2> QED BY <2>3, ThisTyped DEF ChangeAdmin, Now, Inv
<1> QED BY <1>2, <1>3, <1>4
    DEF ClientNext, GetGnosisSafe, ProposeStep, ProposeCall, ApproveStep, FundSafe,
        AllowMultiSend, ChangeFeeConfigController, GetListOfOwners, FetchBalanceFromSafe,
        Check, StepThrows, OthersNext, allVars, effectVars

LEMMA HandKept ==
  ASSUME Inv, SoloOK, HandOK, [ClientNext]_allVars
  PROVE  HandOK'
<1>1. world' = world
  BY WorldStays
<1>2. world.safes = {} /\ ~IsScript => admin' = ProxyAdmin
  BY AdminStays DEF HandOK
<1> SUFFICES ASSUME Solo
             PROVE  /\ admin' \in {ProxyAdmin, FirstSafe}
                    /\ Preparing' =>
                         /\ txnHash' # <<>> /\ Own'.call = UpgradeProxyCall
                         /\ \/ Upgrading(3)'
                            \/ <<SecondOwner, Own'>> \in approvedHashes'[FirstSafe]
                         /\ Upgrading(5)' =>
                              <<FirstOwner, Own'>> \in approvedHashes'[FirstSafe]
                    /\ admin' = FirstSafe \/ Preparing' => Returning' # {}
                    /\ admin' = FirstSafe /\ Preparing' =>
                         \E g \in Returning', h \in Returning' : g # h
  <2>1. Solo' = Solo /\ IsScript' = IsScript
    BY <1>1 DEF Solo, IsScript
  <2> QED BY <1>1, <1>2, <2>1 DEF HandOK
<1>3. Inv' /\ SoloOK' /\ Solo'
  BY <1>1, EveryStepMoves, SoloKept DEF Moves, Solo, IsScript
<1>4. ProxyAdmin # FirstSafe
  BY ClientAssumption, DaoAssumption
<1>5. Running /\ NextStep /\ Preparing' => This.do \in {"propose", "approve"}
  BY PreparingAfter DEF Preparing
<1>6. Running /\ Preparing => This.do \in {"approve", "handAdmin"}
  BY SoloThis DEF Preparing, Upgrading
<1>7. CASE SoloPropose
  <2>1. Running /\ This.do = "propose" /\ ~Preparing
    BY <1>6, <1>7 DEF SoloPropose, Now
  <2>2. PICK h : /\ h \notin DOMAIN transactions
                 /\ DOMAIN transactions' = DOMAIN transactions \cup {h}
                 /\ txnHash' = <<h>> /\ h.safe = hederaGnosisSafe /\ h.call = This.arg
                 /\ UNCHANGED <<owners, threshold, approvedHashes, executedHash, effectVars>>
                 /\ NextStep
    BY <1>7, ProposeRecords DEF SoloPropose
  <2>3. Preparing' => Upgrading(3)' /\ ~Upgrading(5)' /\ This.arg = UpgradeProxyCall
    BY <2>1, <2>2, PreparingAfter DEF Preparing
  <2>4. ASSUME NEW g \in Returning PROVE g \in Returning' /\ g # h
    <3>1. g \in DOMAIN transactions /\ CheckApprovals(FirstSafe, g)
      BY <2>1 DEF Returning
    <3>2. CheckApprovals(FirstSafe, g)'
      BY <2>2, <3>1 DEF CheckApprovals, GetApprovalCounts, Owners
    <3> QED BY <2>2, <3>1, <3>2 DEF Returning
  <2>5. Preparing' => h \in Returning'
    <3>1. h \notin executedHash'
      BY <2>2 DEF SoloOK
    <3>2. UpgradeProxyCall.kind = "UpgradeProxy" /\ Own' = h
      BY <2>2, CallKinds DEF Own
    <3> QED BY <2>2, <2>3, <3>1, <3>2 DEF Returning
  <2>6. admin' = admin
    BY <2>2 DEF effectVars
  <2> QED BY <2>2, <2>3, <2>4, <2>5, <2>6 DEF HandOK, Own
<1>8. CASE SoloApprove
  <2>1. /\ Running /\ NextStep /\ This.do = "approve" /\ txnHash # <<>>
        /\ approvedHashes'[FirstSafe] = approvedHashes[FirstSafe] \cup {<<This.arg, Own>>}
        /\ UNCHANGED <<owners, threshold, executedHash, transactions, txnHash, admin>>
    BY <1>8, DaoAssumption
    DEF SoloApprove, Now, ApproveHash, Own, readVars, effectVars, Inv, DaoOK, SafesOK
  <2>2. /\ ~Upgrading(3)'
        /\ Upgrading(4)' => Upgrading(3) /\ This.arg = SecondOwner
        /\ Upgrading(5)' => Upgrading(4) /\ This.arg = FirstOwner
    BY <2>1, PreparingAfter
  <2>3. CASE ~Preparing'
    BY <2>1, <2>3, ReturningLeft DEF HandOK
  <2>4. CASE Preparing'
    <3>1. Preparing /\ Own' = Own /\ Own.safe = FirstSafe
      <4>1. Own.safe = FirstSafe
        BY <2>1 DEF SoloOK, Own
      <4> QED BY <2>1, <2>2, <2>4, <4>1 DEF Preparing, Own
    <3>2. /\ Own.call = UpgradeProxyCall /\ <<SecondOwner, Own>> \in approvedHashes'[FirstSafe]
          /\ Upgrading(5)' => <<FirstOwner, Own>> \in approvedHashes'[FirstSafe]
      <4>1. /\ Own.call = UpgradeProxyCall
            /\ Upgrading(3) \/ <<SecondOwner, Own>> \in approvedHashes[FirstSafe]
        BY <3>1 DEF HandOK
      <4>2. Upgrading(4)' => <<SecondOwner, Own>> \in approvedHashes'[FirstSafe]
        BY <2>1, <2>2
      <4>3. Upgrading(5)' => <<FirstOwner, Own>> \in approvedHashes'[FirstSafe]
        BY <2>1, <2>2
      <4>4. Upgrading(5)' => <<SecondOwner, Own>> \in approvedHashes'[FirstSafe]
        <5>1. Upgrading(5)' => ~Upgrading(3)
          <6>1. Upgrading(4) => ~Upgrading(3)
            BY DEF Upgrading
          <6> QED BY <2>2, <6>1
        <5> QED BY <2>1, <4>1, <5>1
      <4> QED BY <2>2, <2>4, <4>1, <4>2, <4>3, <4>4 DEF Preparing
    <3>3. Upgrading(5)' => CheckApprovals(FirstSafe, Own)'
      BY <1>3, <3>1, <3>2, BothApproved
    <3>4. ASSUME NEW h \in Returning PROVE h \in Returning'
      <4>1. CASE CheckApprovals(FirstSafe, h)
        BY <2>1, <4>1, ReturningStays
      <4>2. CASE ~CheckApprovals(FirstSafe, h)
        <5>1. h = Own
          BY <4>2 DEF Returning
        <5>2. CheckApprovals(FirstSafe, h)' \/ ((Upgrading(3)' \/ Upgrading(4)') /\ h = Own')
          BY <2>4, <3>1, <3>3, <5>1 DEF Preparing
        <5> QED BY <2>1, <5>2, ReturningStays
      <4> QED BY <4>1, <4>2
    <3> QED BY <2>1, <2>2, <3>1, <3>2, <3>4 DEF HandOK
  <2> QED BY <2>3, <2>4
<1>9. CASE SoloExecute
  <2>1. PICK x \in DOMAIN transactions : ExecuteAny(x)
    BY <1>9 DEF SoloExecute
  <2>2. /\ x \notin executedHash /\ executedHash' = executedHash \cup {x}
        /\ UNCHANGED <<owners, threshold, approvedHashes, transactions, txnHash>>
        /\ x.call.kind = "UpgradeProxy" => admin = FirstSafe /\ admin' = ProxyAdmin
        /\ x.call.kind # "UpgradeProxy" => admin' = admin
    BY <1>9, <2>1, SoloExecuted DEF SoloExecute, readVars
  <2>3. Preparing' => UNCHANGED placeVars
    BY <1>5, <1>9 DEF SoloExecute, Now
  <2>4. UNCHANGED placeVars =>
          /\ Preparing' = Preparing /\ Upgrading(3)' = Upgrading(3)
          /\ Upgrading(5)' = Upgrading(5)
    BY UpgradingSame DEF Preparing
  <2>5. ASSUME NEW h \in Returning, h # x, Preparing' \/ CheckApprovals(FirstSafe, h)
        PROVE  h \in Returning'
    <3>1. CheckApprovals(FirstSafe, h) => CheckApprovals(FirstSafe, h)'
      BY <2>2 DEF CheckApprovals, GetApprovalCounts, Owners
    <3>2. Own' = Own
      BY <2>2 DEF Own
    <3> QED BY <2>2, <2>3, <2>4, <2>5, <3>1, <3>2 DEF Returning
  <2>6. Preparing' =>
          /\ txnHash' # <<>> /\ Own'.call = UpgradeProxyCall
          /\ Upgrading(3)' \/ <<SecondOwner, Own'>> \in approvedHashes'[FirstSafe]
          /\ Upgrading(5)' => <<FirstOwner, Own'>> \in approvedHashes'[FirstSafe]
    BY <2>2, <2>3, <2>4 DEF HandOK, Own
  <2>7. CASE x.call.kind = "UpgradeProxy"
    <3>1. admin' = ProxyAdmin
      BY <2>2, <2>7
    <3>2. Preparing' => Returning' # {}
      <4>1. Preparing' => \E h \in Returning : h # x
        BY <2>2, <2>3, <2>4, <2>7 DEF HandOK
      <4> QED BY <2>5, <4>1
    <3> QED BY <1>4, <2>6, <3>1, <3>2
  <2>8. CASE x.call.kind # "UpgradeProxy"
    <3>1. x \notin Returning
      BY <2>8 DEF Returning
    <3>2. CASE Preparing'
      <4>1. Preparing /\ \A h \in Returning : h \in Returning'
        BY <2>3, <2>4, <2>5, <3>1, <3>2
      <4> QED BY <2>2, <2>6, <2>8, <3>2, <4>1 DEF HandOK
    <3>3. CASE ~Preparing'
      <4>1. admin = FirstSafe => \E h \in Returning : CheckApprovals(FirstSafe, h)
        <5>1. CASE Preparing
          <6>1. admin = FirstSafe => \E g \in Returning, h \in Returning : g # h
            BY <5>1 DEF HandOK
          <6> QED BY <6>1 DEF Returning
        <5>2. CASE ~Preparing
          BY <5>2 DEF HandOK, Returning
        <5> QED BY <5>1, <5>2
      <4>2. admin = FirstSafe => Returning' # {}
        BY <2>5, <3>1, <4>1
      <4> QED BY <2>2, <2>8, <3>3, <4>2 DEF HandOK
    <3> QED BY <3>2, <3>3
  <2> QED BY <2>7, <2>8
<1>10. CASE FundSafe
  <2>1. /\ ~Preparing'
        /\ UNCHANGED <<owners, threshold, approvedHashes, executedHash, transactions, admin>>
    BY <1>5, <1>10 DEF FundSafe, Now, Deposit, effectVars
  <2> QED BY <2>1, ReturningLeft DEF HandOK
<1>11. CASE ChangeAdmin
  <2>1. /\ ~Preparing' /\ admin = ProxyAdmin /\ admin' = FirstSafe
        /\ Running /\ This.do = "handAdmin"
        /\ UNCHANGED <<owners, threshold, approvedHashes, executedHash, transactions>>
    BY <1>5, <1>11 DEF ChangeAdmin, Now, daoVars, safeVars, SoloOK
  <2>2. Upgrading(5)
    BY <2>1, SoloThis DEF Upgrading
  <2>3. PICK h \in Returning : TRUE
    BY <2>2 DEF HandOK, Preparing
  <2>4. CheckApprovals(FirstSafe, h)
    BY <2>2, <2>3 DEF Returning
  <2>5. h \in Returning'
    BY <2>1, <2>4, ReturningStays
  <2> QED BY <2>1, <2>5
<1>12. CASE SoloQuiet
  <2>1. UNCHANGED <<owners, threshold, approvedHashes, executedHash, transactions, txnHash, admin>>
    BY <1>12 DEF SoloQuiet, daoVars, safeVars
  <2>2. CASE Preparing'
    <3>1. UNCHANGED placeVars
      BY <1>5, <1>12, <2>2 DEF SoloQuiet, Preparing, Upgrading
    <3>2. /\ Preparing' = Preparing /\ Upgrading(3)' = Upgrading(3)
          /\ Upgrading(5)' = Upgrading(5)
      BY <3>1, UpgradingSame DEF Preparing
    <3>3. Returning' = Returning /\ Own' = Own
      BY <2>1, <3>2 DEF Returning, Own, CheckApprovals, GetApprovalCounts, Owners
    <3> QED BY <2>1, <3>2, <3>3 DEF HandOK
  <2>3. CASE ~Preparing'
    BY <2>1, <2>3, ReturningLeft DEF HandOK
  <2> QED BY <2>2, <2>3
<1> QED BY <1>7, <1>8, <1>9, <1>10, <1>11, <1>12, SoloSteps

LEMMA HandMeans ==
  ASSUME Inv, SoloOK, HandOK
  PROVE  HandedOverIsApproved
<1> SUFFICES ASSUME world.safes = {}, admin \in Safes
             PROVE  \E h \in DOMAIN transactions :
                      h.safe = admin /\ h.call.kind = "UpgradeProxy" /\ Waiting(h)
  BY DEF HandedOverIsApproved
<1>1. Solo /\ admin = FirstSafe
  BY ClientAssumption DEF HandOK, Solo
<1>2. \E h \in Returning : CheckApprovals(FirstSafe, h)
  <2>1. CASE Preparing
    <3>1. PICK g \in Returning, h \in Returning : g # h
      BY <1>1, <2>1 DEF HandOK
    <3> QED BY <3>1 DEF Returning
  <2>2. CASE ~Preparing
    BY <1>1, <2>2 DEF HandOK, Returning
  <2> QED BY <2>1, <2>2
<1> QED BY <1>1, <1>2 DEF Returning, Waiting, SoloOK

(* Wherever the script stops after it has handed its proxy to the safe, a  *)
(* transaction that returns it waits, approved, for anyone to execute it   *)
(* (multiSigDAO.ts:414-457).                                               *)
THEOREM ProxyCanBeReturned == ClientSpec => []HandedOverIsApproved
<1>1. ClientInit => Inv /\ SoloOK /\ HandOK
  BY ClientStarts, SoloStarts, HandStarts
<1>2. Inv /\ SoloOK /\ HandOK /\ [ClientNext]_allVars => (Inv /\ SoloOK /\ HandOK)'
  BY EveryStepMoves, SoloKept, HandKept DEF Moves
<1>3. Inv /\ SoloOK /\ HandOK => HandedOverIsApproved
  BY HandMeans
<1> QED BY <1>1, <1>2, <1>3, PTL DEF ClientSpec
=============================================================================
