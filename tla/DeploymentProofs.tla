-------------------------- MODULE DeploymentProofs --------------------------
(***************************************************************************)
(* What the file of contracts says of the ledger, for any names, any       *)
(* number of concurrent tasks and contracts, and stops anywhere.           *)
(***************************************************************************)
EXTENDS Deployment, SumsProofs

Steps == {"idle", "deploy", "add", "readLogic", "readProxy", "deployProxy", "link",
          "upgradeTo", "update", "done"}

Record == [name : Names, address : Nat, proxy : Nat]

Task == [at : Steps, logic : Record, proxied : Record]

TypesOK ==
  /\ created \in Nat /\ created <= MaxContracts
  /\ implementation \in [Contracts -> Nat]
  /\ script \in Scripts \cup {"None"}
  /\ task \in [Names -> Task]

PlacesOK ==
  /\ DOMAIN records \subseteq Nat
  /\ \E k \in Nat : \A i \in DOMAIN records : i <= k
  /\ \A i \in DOMAIN records : records[i] \in Record

Proxies(n) == {records[i].proxy : i \in RecordsOf(n)}

(* The contracts that the records and the task of a name speak of.         *)
Owns(n) ==
  (Recorded(n) \cup Proxies(n)
   \cup {task[n].logic.address, task[n].logic.proxy,
         task[n].proxied.address, task[n].proxied.proxy}) \ {None}

Apart ==
  \A m \in Names :
    /\ \A c \in Owns(m) : c \in 1 .. created
    /\ \A n \in Names \ {m} : Owns(m) \cap Owns(n) = {}

FileOK(n) ==
  /\ \A i \in RecordsOf(n) : records[i].address # None
  /\ \A i, j \in RecordsOf(n) : records[i].address = records[j].address => i = j

(* ImplementationRecorded, for one name. *)
Follows(n) ==
  HasProxy(n) =>
    LET latest == GetContractWithProxy(n)
        runs == implementation[latest.proxy]
    IN  \/ runs = latest.address
        \/ \E i, j \in DOMAIN records :
             /\ i < j /\ records[i] = latest
             /\ records[j].name = n /\ records[j].address = runs

(* What a task has deployed and not yet written: a logic, and a proxy.     *)
NewLogic(n) ==
  /\ task[n].logic.address # None /\ task[n].logic.proxy = None
  /\ task[n].logic.address \notin Recorded(n)

NewProxy(n) ==
  /\ task[n].proxied.proxy # None
  /\ task[n].proxied.address = task[n].logic.address
  /\ \A i \in RecordsOf(n) : records[i].proxy < task[n].proxied.proxy
  /\ implementation[task[n].proxied.proxy] = task[n].logic.address

(* The logic is the last of the name's records, and not behind a proxy.    *)
LastIsLogic(n) ==
  /\ RecordsOf(n) # {} /\ GetContract(n).proxy = None
  /\ task[n].logic = GetContract(n)

TaskOK(n) ==
  LET at == task[n].at IN
  /\ task[n].logic.name = n /\ task[n].proxied.name = n
  /\ script = "None" => task[n] = Idle(n)
  /\ at = "add" =>
       IF script \in {"Save", "Test"} THEN NewLogic(n) /\ NewProxy(n) ELSE NewLogic(n)
  /\ at = "readLogic" => script = "Proxy" /\ RecordsOf(n) # {} /\ GetContract(n).proxy = None
  /\ at = "readProxy" => script = "Upgrade" /\ RecordsOf(n) # {} /\ GetContract(n).proxy = None
  /\ at = "deployProxy" =>
       \/ script = "Proxy" /\ LastIsLogic(n)
       \/ script \in {"Save", "Test"} /\ NewLogic(n)
  /\ at = "link" => script = "Proxy" /\ LastIsLogic(n) /\ NewProxy(n)
  /\ at \in {"upgradeTo", "update"} =>
       /\ script = "Upgrade" /\ LastIsLogic(n)
       /\ HasProxy(n) /\ task[n].proxied = GetContractWithProxy(n)
  /\ at = "update" => implementation[task[n].proxied.proxy] = task[n].logic.address
  /\ at = "done" /\ script # "Logic" =>
       /\ HasProxy(n)
       /\ GetContractWithProxy(n).proxy = task[n].proxied.proxy
       /\ GetContractWithProxy(n).address = task[n].logic.address
       /\ implementation[task[n].proxied.proxy] = task[n].logic.address

NameInv(n) == FileOK(n) /\ Follows(n) /\ TaskOK(n)

Inv == TypesOK /\ PlacesOK /\ Apart /\ \A n \in Names : NameInv(n)

-----------------------------------------------------------------------------
(* The last of some places *)

LEMMA MaxIs ==
  ASSUME NEW P, P \subseteq Nat, P # {}, NEW k \in Nat, \A i \in P : i <= k
  PROVE  Max(P) \in P /\ \A j \in P : j <= Max(P)
<1> DEFINE T == {m \in Nat : \A i \in P : i <= m}
<1>1. T \subseteq Nat /\ T # {}
  OBVIOUS
<1>2. PICK m \in T : \A n \in T : m <= n
  <2> HIDE DEF T
  <2> QED BY <1>1, LeastElement
<1>3. m \in P
  <2> SUFFICES ASSUME m \notin P PROVE FALSE
    OBVIOUS
  <2>1. m \in Nat /\ \A i \in P : i < m
    <3>1. m \in Nat /\ \A i \in P : i <= m
      BY <1>2
    <3>2. \A i \in P : i \in Nat /\ i # m
      OBVIOUS
    <3> HIDE DEF T
    <3>3. \A i \in P : i < m
      BY <3>1, <3>2
    <3> QED BY <3>1, <3>3
  <2>2. PICK i \in P : i \in Nat /\ i < m
    BY <2>1
  <2>3. m - 1 \in Nat /\ m - 1 < m
    BY <2>1, <2>2
  <2>4. \A j \in P : j \in Nat /\ j <= m - 1
    BY <2>1
  <2>5. m - 1 \in T
    BY <2>3, <2>4
  <2> HIDE DEF T
  <2> QED BY <1>2, <2>1, <2>3, <2>5
<1>4. \E x \in P : \A y \in P : x >= y
  BY <1>3
<1> DEFINE x == Max(P)
<1>5. x \in P /\ \A y \in P : x >= y
  BY <1>4 DEF Max
<1> HIDE DEF x
<1> QED BY <1>5 DEF x

LEMMA MaxIsThat ==
  ASSUME NEW P, P \subseteq Nat, NEW x \in P, \A j \in P : j <= x
  PROVE  Max(P) = x
<1>1. P # {} /\ x \in Nat
  OBVIOUS
<1>2. Max(P) \in P /\ \A j \in P : j <= Max(P)
  BY <1>1, MaxIs
<1>3. Max(P) \in Nat /\ Max(P) <= x /\ x <= Max(P)
  BY <1>2
<1> QED BY <1>1, <1>3

LEMMA LastRecord ==
  ASSUME PlacesOK, NEW P, P \subseteq DOMAIN records, P # {}
  PROVE  Max(P) \in P /\ \A j \in P : j <= Max(P)
BY MaxIs DEF PlacesOK

LEMMA PlaceAfterLast ==
  ASSUME PlacesOK
  PROVE  AfterLast \in Nat /\ \A i \in DOMAIN records : i < AfterLast
<1> DEFINE P == DOMAIN records \cup {0}
<1>1. P \subseteq Nat /\ P # {} /\ \E k \in Nat : \A i \in P : i <= k
  BY DEF PlacesOK
<1>2. Max(P) \in P /\ \A j \in P : j <= Max(P)
  <2> HIDE DEF P
  <2> QED BY <1>1, MaxIs
<1> DEFINE x == Max(P)
<1>3. x \in Nat /\ \A i \in DOMAIN records : i <= x /\ i \in Nat
  BY <1>1, <1>2
<1>4. AfterLast = 1 + x
  BY DEF AfterLast
<1> HIDE DEF x, P
<1> QED BY <1>3, <1>4

-----------------------------------------------------------------------------
(* One name's steps leave the others alone *)

(* What holds of a name holds while its records, its task and what its     *)
(* contracts run stay as they are.                                         *)
LEMMA NameKept ==
  ASSUME PlacesOK, NEW n \in Names, NameInv(n),
         RecordsOf(n)' = RecordsOf(n),
         \A i \in RecordsOf(n) : records'[i] = records[i],
         task'[n] = task[n], script' = script,
         \A c \in Owns(n) : implementation'[c] = implementation[c]
  PROVE  /\ NameInv(n)' /\ Owns(n)' = Owns(n) /\ Recorded(n)' = Recorded(n)
         /\ HasProxy(n)' => /\ HasProxy(n)
                            /\ GetContractWithProxy(n)' = GetContractWithProxy(n)
<1>1. /\ RecordsOf(n) \subseteq DOMAIN records /\ RecordsOf(n) \subseteq DOMAIN records'
      /\ ProxiedOf(n)' = ProxiedOf(n) /\ ProxiedOf(n) \subseteq RecordsOf(n)
  BY DEF RecordsOf, ProxiedOf
<1>2. RecordsOf(n) # {} => GetContract(n)' = GetContract(n)
  BY <1>1, LastRecord DEF GetContract
<1>3. /\ HasProxy(n)' <=> HasProxy(n)
      /\ HasProxy(n) => /\ GetContractWithProxy(n)' = GetContractWithProxy(n)
                        /\ Max(ProxiedOf(n)) \in ProxiedOf(n)
  <2>1. ProxiedOf(n) # {} => Max(ProxiedOf(n)) \in ProxiedOf(n)
    BY <1>1, LastRecord
  <2>2. HasProxy(n)' <=> HasProxy(n)
    BY <1>1 DEF HasProxy
  <2>3. ProxiedOf(n) # {} => records'[Max(ProxiedOf(n)')] = records[Max(ProxiedOf(n))]
    BY <1>1, <2>1
  <2> QED BY <2>1, <2>2, <2>3 DEF HasProxy, GetContractWithProxy
<1>4. Recorded(n)' = Recorded(n)
  BY DEF Recorded
<1>5. Owns(n)' = Owns(n)
  <2>1. Proxies(n)' = Proxies(n)
    BY DEF Proxies
  <2> QED BY <1>4, <2>1 DEF Owns
<1>6. FileOK(n)'
  BY DEF NameInv, FileOK
<1>7. HasProxy(n) => /\ GetContractWithProxy(n).proxy \in Owns(n)
                     /\ GetContractWithProxy(n).proxy # None
  BY <1>1, <1>3 DEF Owns, Proxies, ProxiedOf, GetContractWithProxy
<1>8. Follows(n)'
  <2> SUFFICES ASSUME HasProxy(n), GetContractWithProxy(n)' = GetContractWithProxy(n)
               PROVE  Follows(n)'
    BY <1>3 DEF Follows
  <2> DEFINE latest == GetContractWithProxy(n)
  <2>1. implementation'[latest.proxy] = implementation[latest.proxy]
    BY <1>7
  <2>2. latest.name = n
    BY <1>1, <1>3 DEF GetContractWithProxy, RecordsOf
  <2> HIDE DEF latest
  <2>3. CASE implementation[latest.proxy] = latest.address
    BY <2>1, <2>3 DEF Follows, latest
  <2>4. ASSUME NEW i \in DOMAIN records, NEW j \in DOMAIN records,
               i < j, records[i] = latest, records[j].name = n,
               records[j].address = implementation[latest.proxy]
        PROVE  Follows(n)'
    <3>1. i \in RecordsOf(n) /\ j \in RecordsOf(n)
      BY <2>2, <2>4 DEF RecordsOf
    <3>2. /\ i \in DOMAIN records' /\ j \in DOMAIN records'
          /\ records'[i] = latest /\ records'[j] = records[j]
      BY <1>1, <2>4, <3>1
    <3> QED BY <2>1, <2>4, <3>2 DEF Follows, latest
  <2> QED BY <2>3, <2>4 DEF NameInv, Follows, latest
<1>9. TaskOK(n)'
  <2>1. /\ NewLogic(n) => NewLogic(n)'
        /\ LastIsLogic(n) => LastIsLogic(n)'
    BY <1>2, <1>4 DEF NewLogic, LastIsLogic
  <2>2. NewProxy(n) => NewProxy(n)'
    <3> SUFFICES ASSUME NewProxy(n) PROVE NewProxy(n)'
      OBVIOUS
    <3>1. task[n].proxied.proxy \in Owns(n)
      BY DEF NewProxy, Owns
    <3> QED BY <3>1 DEF NewProxy
  <2>3. task[n].proxied.proxy # None =>
          implementation'[task[n].proxied.proxy] = implementation[task[n].proxied.proxy]
    BY DEF Owns
  <2> DEFINE at == task[n].at
  <2>4. /\ task'[n].logic.name = n /\ task'[n].proxied.name = n
        /\ script' = "None" => task'[n] = Idle(n)
    BY DEF NameInv, TaskOK
  <2>5. at = "add" =>
          IF script \in {"Save", "Test"} THEN NewLogic(n)' /\ NewProxy(n)' ELSE NewLogic(n)'
    BY <2>1, <2>2 DEF NameInv, TaskOK
  <2>6. /\ at = "readLogic" => script = "Proxy" /\ RecordsOf(n)' # {} /\ GetContract(n)'.proxy = None
        /\ at = "readProxy" => script = "Upgrade" /\ RecordsOf(n)' # {} /\ GetContract(n)'.proxy = None
    BY <1>2 DEF NameInv, TaskOK
  <2>7. /\ at = "deployProxy" =>
             \/ script = "Proxy" /\ LastIsLogic(n)'
             \/ script \in {"Save", "Test"} /\ NewLogic(n)'
        /\ at = "link" => script = "Proxy" /\ LastIsLogic(n)' /\ NewProxy(n)'
    BY <2>1, <2>2 DEF NameInv, TaskOK
  <2>8. at \in {"upgradeTo", "update"} =>
          /\ script = "Upgrade" /\ LastIsLogic(n)'
          /\ HasProxy(n)' /\ task[n].proxied = GetContractWithProxy(n)'
    BY <1>3, <2>1 DEF NameInv, TaskOK
  <2>9. at = "update" => implementation'[task[n].proxied.proxy] = task[n].logic.address
    BY <1>7, <2>3 DEF NameInv, TaskOK
  <2>10. at = "done" /\ script # "Logic" =>
           /\ HasProxy(n)'
           /\ GetContractWithProxy(n)'.proxy = task[n].proxied.proxy
           /\ GetContractWithProxy(n)'.address = task[n].logic.address
           /\ implementation'[task[n].proxied.proxy] = task[n].logic.address
    BY <1>3, <1>7, <2>3 DEF NameInv, TaskOK
  <2> QED BY <2>4, <2>5, <2>6, <2>7, <2>8, <2>9, <2>10 DEF TaskOK
<1> QED BY <1>3, <1>4, <1>5, <1>6, <1>8, <1>9 DEF NameInv

(* A step of the task of n, seen from the other names and from the ledger. *)
StepOf(n) ==
  /\ TypesOK' /\ PlacesOK' /\ NameInv(n)'
  /\ script' = script
  /\ created' \in {created, created + 1}
  /\ \A c \in Owns(n)' : c \in Owns(n) \/ (c = created + 1 /\ created' = created + 1)
  /\ \A m \in Names \ {n} :
       /\ RecordsOf(m)' = RecordsOf(m)
       /\ \A i \in RecordsOf(m) : records'[i] = records[i]
       /\ task'[m] = task[m]
       /\ \A c \in Owns(m) : implementation'[c] = implementation[c]

(* The file only moves forward for n: what clients see of its proxies, and *)
(* what is recorded.                                                       *)
Forward(n) ==
  /\ HasProxy(n) /\ HasProxy(n)' =>
       GetContractWithProxy(n).proxy <= GetContractWithProxy(n)'.proxy
  /\ Recorded(n) \subseteq Recorded(n)'

LEMMA ProxyType ==
  ASSUME PlacesOK, NEW n \in Names, HasProxy(n)
  PROVE  /\ GetContractWithProxy(n) \in Record /\ GetContractWithProxy(n).name = n
         /\ GetContractWithProxy(n).proxy \in Nat /\ GetContractWithProxy(n).proxy # None
         /\ Max(ProxiedOf(n)) \in ProxiedOf(n)
<1>1. /\ ProxiedOf(n) \subseteq DOMAIN records
      /\ \A i \in ProxiedOf(n) : records[i].name = n /\ records[i].proxy # None
  BY DEF ProxiedOf, RecordsOf
<1>2. Max(ProxiedOf(n)) \in ProxiedOf(n)
  BY <1>1, LastRecord DEF HasProxy
<1> QED BY <1>1, <1>2 DEF GetContractWithProxy, PlacesOK, Record

LEMMA StepKeepsInv ==
  ASSUME Inv, NEW n \in Names, StepOf(n)
  PROVE  Inv' /\ \A m \in Names \ {n} : Forward(m)
<1>1. \A m \in Names \ {n} :
        /\ NameInv(m)' /\ Owns(m)' = Owns(m) /\ Recorded(m)' = Recorded(m)
        /\ HasProxy(m)' => /\ HasProxy(m)
                           /\ GetContractWithProxy(m)' = GetContractWithProxy(m)
  BY NameKept DEF Inv, StepOf
<1>2. \A m \in Names \ {n} : Forward(m)
  <2> SUFFICES ASSUME NEW m \in Names \ {n} PROVE Forward(m)
    OBVIOUS
  <2>1. HasProxy(m) => GetContractWithProxy(m).proxy \in Nat
    BY ProxyType DEF Inv
  <2> QED BY <1>1, <2>1 DEF Forward
<1>3. created \in Nat /\ created' \in Nat /\ created <= created'
  BY DEF Inv, TypesOK, StepOf
<1>4. Apart'
  <2>1. ASSUME NEW m \in Names, NEW c \in Owns(m)' PROVE c \in 1 .. created'
    <3>1. c \in 1 .. created \/ (c = created + 1 /\ created' = created + 1)
      BY <1>1, <2>1 DEF Inv, Apart, StepOf
    <3> QED BY <1>3, <3>1
  <2>2. ASSUME NEW m \in Names, NEW l \in Names \ {m}, NEW c \in Owns(m)', c \in Owns(l)'
        PROVE  FALSE
    <3>1. \A k \in Names : \A b \in Owns(k) : b # created + 1
      BY <1>3 DEF Inv, Apart
    <3>2. CASE m = n
      <4>1. c \in Owns(l)
        BY <1>1, <2>2, <3>2
      <4> QED BY <2>2, <3>1, <3>2, <4>1 DEF Inv, Apart, StepOf
    <3>3. CASE l = n
      <4>1. c \in Owns(m)
        BY <1>1, <2>2, <3>3
      <4> QED BY <2>2, <3>1, <3>3, <4>1 DEF Inv, Apart, StepOf
    <3>4. CASE m # n /\ l # n
      BY <1>1, <2>2, <3>4 DEF Inv, Apart
    <3> QED BY <3>2, <3>3, <3>4
  <2> QED BY <2>1, <2>2 DEF Apart
<1> QED BY <1>1, <1>2, <1>4 DEF Inv, StepOf

-----------------------------------------------------------------------------
(* Writing the file *)

(* r goes to the end of the file; of the records only some of its name are *)
(* taken out.                                                              *)
LEMMA WrittenFor ==
  ASSUME PlacesOK, NEW n \in Names, NEW kept, kept \subseteq DOMAIN records,
         NEW r \in Record, r.name = n,
         \A m \in Names \ {n} : RecordsOf(m) \subseteq kept,
         records' = Written(kept, r)
  PROVE  /\ PlacesOK'
         /\ AfterLast \notin DOMAIN records
         /\ RecordsOf(n)' = (RecordsOf(n) \cap kept) \cup {AfterLast}
         /\ records'[AfterLast] = r /\ \A i \in kept : records'[i] = records[i]
         /\ \A i \in kept : i < AfterLast
         /\ GetContract(n)' = r
         /\ r.proxy # None => HasProxy(n)' /\ GetContractWithProxy(n)' = r
         /\ r.proxy = None => ProxiedOf(n)' = ProxiedOf(n) \cap kept
         /\ \A m \in Names \ {n} : /\ RecordsOf(m)' = RecordsOf(m)
                                    /\ \A i \in RecordsOf(m) : records'[i] = records[i]
<1>1. AfterLast \in Nat /\ \A i \in DOMAIN records : i < AfterLast /\ i \in Nat
  BY PlaceAfterLast DEF PlacesOK
<1> DEFINE l == AfterLast
<1>2. /\ DOMAIN records' = kept \cup {l}
      /\ records'[l] = r /\ \A i \in kept : records'[i] = records[i]
  BY <1>1 DEF Written
<1> HIDE DEF l
<1>3. /\ l \in Nat /\ l \notin DOMAIN records
      /\ \A i \in kept : i < l /\ i \in Nat /\ i \in DOMAIN records
  BY <1>1 DEF l
<1>4. PlacesOK'
  <2>1. DOMAIN records' \subseteq Nat /\ \A i \in DOMAIN records' : i <= l
    BY <1>2, <1>3
  <2>2. \A i \in DOMAIN records' : records'[i] \in Record
    BY <1>2, <1>3 DEF PlacesOK
  <2> QED BY <1>3, <2>1, <2>2 DEF PlacesOK
<1>5. /\ RecordsOf(n)' = (RecordsOf(n) \cap kept) \cup {l}
      /\ \A m \in Names \ {n} : RecordsOf(m)' = RecordsOf(m)
  BY <1>2, <1>3 DEF RecordsOf
<1>6. \A m \in Names \ {n} : \A i \in RecordsOf(m) : records'[i] = records[i]
  BY <1>2
<1>7. /\ RecordsOf(n)' \subseteq Nat /\ l \in RecordsOf(n)'
      /\ \A j \in RecordsOf(n)' : j <= l
  BY <1>3, <1>5
<1>8. GetContract(n)' = r
  <2>1. Max(RecordsOf(n)') = l
    BY <1>7, MaxIsThat
  <2> QED BY <1>2, <2>1 DEF GetContract
<1>9. ASSUME r.proxy # None PROVE HasProxy(n)' /\ GetContractWithProxy(n)' = r
  <2>1. l \in ProxiedOf(n)' /\ ProxiedOf(n)' \subseteq RecordsOf(n)'
    BY <1>2, <1>7, <1>9 DEF ProxiedOf
  <2>2. Max(ProxiedOf(n)') = l
    BY <1>7, <2>1, MaxIsThat
  <2> QED BY <1>2, <2>1, <2>2 DEF HasProxy, GetContractWithProxy
<1>10. r.proxy = None => ProxiedOf(n)' = ProxiedOf(n) \cap kept
  BY <1>2, <1>3, <1>5 DEF ProxiedOf
<1> QED BY <1>2, <1>3, <1>4, <1>5, <1>6, <1>8, <1>9, <1>10 DEF l

(* A logic is added: what clients see of the proxies stays.                *)
LEMMA AddedLogic ==
  ASSUME PlacesOK, NEW n \in Names, NameInv(n), NewLogic(n),
         task[n].logic \in Record, AddDeployed(task[n].logic),
         UNCHANGED implementation
  PROVE  /\ PlacesOK' /\ FileOK(n)' /\ Follows(n)' /\ Forward(n)
         /\ RecordsOf(n)' # {} /\ GetContract(n)' = task[n].logic
         /\ \A m \in Names \ {n} : /\ RecordsOf(m)' = RecordsOf(m)
                                    /\ \A i \in RecordsOf(m) : records'[i] = records[i]
         /\ Recorded(n)' = Recorded(n) \cup {task[n].logic.address}
         /\ Proxies(n)' \subseteq Proxies(n) \cup {None}
<1> DEFINE r == task[n].logic
<1>1. /\ r \in Record /\ r.name = n /\ r.proxy = None /\ r.address # None
      /\ r.address \notin Recorded(n)
  BY DEF NameInv, TaskOK, NewLogic
<1>2. /\ RecordsOf(n) \subseteq DOMAIN records /\ ProxiedOf(n) \subseteq RecordsOf(n)
      /\ \A m \in Names : RecordsOf(m) \subseteq DOMAIN records
  BY DEF RecordsOf, ProxiedOf
<1>3. records' = Written(DOMAIN records, r)
  BY DEF AddDeployed
<1> HIDE DEF r
<1>4. /\ PlacesOK' /\ AfterLast \notin DOMAIN records
      /\ RecordsOf(n)' = RecordsOf(n) \cup {AfterLast}
      /\ records'[AfterLast] = r /\ \A i \in DOMAIN records : records'[i] = records[i]
      /\ \A i \in DOMAIN records : i < AfterLast
      /\ GetContract(n)' = r /\ ProxiedOf(n)' = ProxiedOf(n)
      /\ \A m \in Names \ {n} : /\ RecordsOf(m)' = RecordsOf(m)
                                 /\ \A i \in RecordsOf(m) : records'[i] = records[i]
  <2> DEFINE kept == DOMAIN records
  <2>1. RecordsOf(n) \cap kept = RecordsOf(n) /\ ProxiedOf(n) \cap kept = ProxiedOf(n)
    BY <1>2
  <2>2. /\ kept \subseteq DOMAIN records /\ records' = Written(kept, r)
        /\ \A m \in Names \ {n} : RecordsOf(m) \subseteq kept
    BY <1>2, <1>3
  <2> HIDE DEF kept
  <2>3. /\ PlacesOK' /\ AfterLast \notin DOMAIN records
        /\ RecordsOf(n)' = (RecordsOf(n) \cap kept) \cup {AfterLast}
        /\ records'[AfterLast] = r /\ \A i \in kept : records'[i] = records[i]
        /\ \A i \in kept : i < AfterLast
        /\ GetContract(n)' = r /\ ProxiedOf(n)' = ProxiedOf(n) \cap kept
        /\ \A m \in Names \ {n} : /\ RecordsOf(m)' = RecordsOf(m)
                                   /\ \A i \in RecordsOf(m) : records'[i] = records[i]
    BY <1>1, <2>2, WrittenFor
  <2> QED BY <2>1, <2>3 DEF kept
<1>5. /\ HasProxy(n)' <=> HasProxy(n)
      /\ HasProxy(n) => GetContractWithProxy(n)' = GetContractWithProxy(n)
  <2>1. ProxiedOf(n) # {} => Max(ProxiedOf(n)) \in DOMAIN records
    BY <1>2, LastRecord
  <2>2. HasProxy(n)' <=> HasProxy(n)
    BY <1>4 DEF HasProxy
  <2> QED BY <1>4, <2>1, <2>2 DEF HasProxy, GetContractWithProxy
<1>6. FileOK(n)'
  <2>1. FileOK(n) /\ \A i \in RecordsOf(n) : records[i].address # r.address
    BY <1>1 DEF NameInv, Recorded
  <2> QED BY <1>1, <1>2, <1>4, <2>1 DEF FileOK
<1>7. Follows(n)'
  <2>1. \A i \in DOMAIN records : i \in DOMAIN records'
    <3>1. DOMAIN records' = DOMAIN records \cup {AfterLast}
      BY <1>3 DEF Written
    <3> QED BY <3>1
  <2>2. Follows(n)
    BY DEF NameInv
  <2> QED BY <1>4, <1>5, <2>1, <2>2 DEF Follows
<1>8. Recorded(n)' = Recorded(n) \cup {r.address}
  BY <1>2, <1>4 DEF Recorded
<1>9. Forward(n)
  <2>1. HasProxy(n) => GetContractWithProxy(n).proxy \in Nat
    BY ProxyType
  <2> QED BY <1>5, <1>8, <2>1 DEF Forward
<1>10. Proxies(n)' \subseteq Proxies(n) \cup {None}
  BY <1>1, <1>2, <1>4 DEF Proxies
<1>11. RecordsOf(n)' # {}
  BY <1>4
<1> QED BY <1>4, <1>6, <1>7, <1>8, <1>9, <1>10, <1>11 DEF r


(* A record with a proxy is written, in the place of the one of its logic, *)
(* if there is one: it is what clients see, and nothing is forgotten.      *)
LEMMA ProxyWritten ==
  ASSUME PlacesOK, NEW n \in Names, FileOK(n),
         NEW kept, kept \subseteq DOMAIN records,
         NEW r \in Record, r.name = n, r.address # None, r.proxy # None,
         \A m \in Names \ {n} : RecordsOf(m) \subseteq kept,
         \A i \in RecordsOf(n) : i \in kept <=> records[i].address # r.address,
         HasProxy(n) => GetContractWithProxy(n).proxy <= r.proxy,
         implementation'[r.proxy] = r.address,
         records' = Written(kept, r)
  PROVE  /\ PlacesOK' /\ FileOK(n)' /\ Follows(n)' /\ Forward(n)
         /\ HasProxy(n)' /\ GetContractWithProxy(n)' = r
         /\ \A m \in Names \ {n} : /\ RecordsOf(m)' = RecordsOf(m)
                                    /\ \A i \in RecordsOf(m) : records'[i] = records[i]
         /\ Recorded(n)' \subseteq Recorded(n) \cup {r.address}
         /\ Proxies(n)' \subseteq Proxies(n) \cup {r.proxy}
<1>1. /\ PlacesOK' /\ AfterLast \notin DOMAIN records
      /\ RecordsOf(n)' = (RecordsOf(n) \cap kept) \cup {AfterLast}
      /\ records'[AfterLast] = r /\ \A i \in kept : records'[i] = records[i]
      /\ HasProxy(n)' /\ GetContractWithProxy(n)' = r
      /\ \A m \in Names \ {n} : /\ RecordsOf(m)' = RecordsOf(m)
                                 /\ \A i \in RecordsOf(m) : records'[i] = records[i]
  BY WrittenFor
<1>2. FileOK(n)'
  <2>1. ASSUME NEW i \in RecordsOf(n)' PROVE records'[i].address # None
    BY <1>1 DEF FileOK
  <2>2. ASSUME NEW i \in RecordsOf(n)', NEW j \in RecordsOf(n)',
               records'[i].address = records'[j].address
        PROVE  i = j
    BY <1>1, <2>2 DEF FileOK
  <2> QED BY <2>1, <2>2 DEF FileOK
<1>3. Follows(n)'
  BY <1>1 DEF Follows
<1>4. Recorded(n)' \subseteq Recorded(n) \cup {r.address}
  BY <1>1 DEF Recorded
<1>5. Recorded(n) \subseteq Recorded(n)'
  BY <1>1 DEF Recorded
<1>6. Forward(n)
  BY <1>1, <1>5 DEF Forward
<1>7. Proxies(n)' \subseteq Proxies(n) \cup {r.proxy}
  BY <1>1 DEF Proxies
<1> QED BY <1>1, <1>2, <1>3, <1>4, <1>6, <1>7

LEMMA ContractType ==
  ASSUME PlacesOK, NEW n \in Names, RecordsOf(n) # {}
  PROVE  /\ GetContract(n) \in Record /\ GetContract(n).name = n
         /\ Max(RecordsOf(n)) \in RecordsOf(n)
         /\ \A i \in RecordsOf(n) : i <= Max(RecordsOf(n))
<1>1. /\ RecordsOf(n) \subseteq DOMAIN records
      /\ \A i \in RecordsOf(n) : records[i].name = n
  BY DEF RecordsOf
<1>2. /\ Max(RecordsOf(n)) \in RecordsOf(n)
      /\ \A i \in RecordsOf(n) : i <= Max(RecordsOf(n))
  BY <1>1, LastRecord
<1> QED BY <1>1, <1>2 DEF GetContract, PlacesOK

(* What the file says stays while the file and what the proxies of the     *)
(* name run do.                                                            *)
LEMMA FileStays ==
  ASSUME Inv, NEW n \in Names, records' = records,
         \A c \in Owns(n) : implementation'[c] = implementation[c]
  PROVE  /\ PlacesOK' /\ FileOK(n)' /\ Follows(n)' /\ Forward(n)
         /\ \A m \in Names : RecordsOf(m)' = RecordsOf(m)
         /\ Recorded(n)' = Recorded(n) /\ Proxies(n)' = Proxies(n)
         /\ GetContract(n)' = GetContract(n)
         /\ HasProxy(n)' <=> HasProxy(n)
         /\ GetContractWithProxy(n)' = GetContractWithProxy(n)
<1>1. \A m \in Names : RecordsOf(m)' = RecordsOf(m) /\ ProxiedOf(m)' = ProxiedOf(m)
  BY DEF RecordsOf, ProxiedOf
<1>2. GetContract(n)' = GetContract(n)
  BY <1>1 DEF GetContract
<1>3. HasProxy(n)' <=> HasProxy(n)
  BY <1>1 DEF HasProxy
<1>4. GetContractWithProxy(n)' = GetContractWithProxy(n)
  BY <1>1 DEF GetContractWithProxy
<1>5. Recorded(n)' = Recorded(n) /\ Proxies(n)' = Proxies(n)
  BY <1>1 DEF Recorded, Proxies
<1>6. PlacesOK'
  BY DEF Inv, PlacesOK
<1>7. FileOK(n)'
  BY <1>1 DEF Inv, NameInv, FileOK
<1>8. HasProxy(n) => GetContractWithProxy(n).proxy \in Owns(n)
  <2>1. HasProxy(n) => /\ Max(ProxiedOf(n)) \in RecordsOf(n)
                       /\ GetContractWithProxy(n).proxy # None
    BY ProxyType DEF Inv, ProxiedOf
  <2> QED BY <2>1 DEF Owns, Proxies, GetContractWithProxy
<1>9. Follows(n)'
  <2>1. Follows(n)
    BY DEF Inv, NameInv
  <2> QED BY <1>3, <1>4, <1>8, <2>1 DEF Follows
<1>10. Forward(n)
  <2>1. HasProxy(n) => GetContractWithProxy(n).proxy \in Nat
    BY ProxyType DEF Inv
  <2> QED BY <1>4, <1>5, <2>1 DEF Forward
<1> QED BY <1>1, <1>2, <1>3, <1>4, <1>5, <1>6, <1>7, <1>9, <1>10

(* The next contract is of no one yet.                                     *)
LEMMA NextIsNew ==
  ASSUME Inv, Create
  PROVE  /\ created' = created + 1 /\ created' \in Contracts /\ created' \in Nat
         /\ created' <= MaxContracts /\ created' # None
         /\ \A m \in Names : created' \notin Owns(m)
         /\ \A m \in Names : \A c \in Owns(m) : c < created'
         /\ \A m \in Names : created' \notin Recorded(m)
<1>1. created \in Nat /\ created' = created + 1 /\ created < MaxContracts /\ MaxContracts \in Nat
  BY DeploymentAssumption DEF Inv, TypesOK, Create
<1>2. \A m \in Names : \A c \in Owns(m) : c \in 1 .. created
  BY DEF Inv, Apart
<1>3. \A m \in Names : \A c \in Owns(m) : c < created' /\ c # created'
  BY <1>1, <1>2
<1>4. created' # None /\ created' \in Contracts
  BY <1>1 DEF None, Contracts
<1>5. \A m \in Names : created' \notin Recorded(m)
  BY <1>3, <1>4 DEF Owns
<1> QED BY <1>1, <1>3, <1>4, <1>5

-----------------------------------------------------------------------------
(* The steps of a task, one by one *)

(* What belongs to a name after a step, by what it is made of.             *)
LEMMA OwnsFrom ==
  ASSUME NEW n \in Names, NEW S, Recorded(n)' \subseteq S,
         Proxies(n)' \subseteq S,
         task'[n].logic.address \in S, task'[n].logic.proxy \in S,
         task'[n].proxied.address \in S, task'[n].proxied.proxy \in S
  PROVE  Owns(n)' \subseteq S
BY DEF Owns

LEMMA TaskOwns ==
  ASSUME NEW n \in Names
  PROVE  /\ Recorded(n) \subseteq Owns(n) \cup {None}
         /\ Proxies(n) \subseteq Owns(n) \cup {None}
         /\ task[n].logic.address \in Owns(n) \cup {None}
         /\ task[n].logic.proxy \in Owns(n) \cup {None}
         /\ task[n].proxied.address \in Owns(n) \cup {None}
         /\ task[n].proxied.proxy \in Owns(n) \cup {None}
         /\ None \notin Owns(n)
BY DEF Owns

LEMMA DeployStep ==
  ASSUME Inv, NEW n \in Names, Deploy(n)
  PROVE  StepOf(n) /\ Forward(n)
<1> DEFINE l == [name |-> n, address |-> created', proxy |-> None]
           a == IF script \in {"Save", "Test"} THEN "deployProxy" ELSE "add"
<1>1. /\ script \in Scripts /\ script' = script
      /\ records' = records /\ implementation' = implementation
      /\ task[n] \in Task
  BY DEF Inv, TypesOK, Deploy, At
<1>2. /\ created' = created + 1 /\ created' \in Nat /\ created' <= MaxContracts
      /\ created' # None
      /\ \A m \in Names : created' \notin Owns(m)
      /\ \A m \in Names : created' \notin Recorded(m)
  BY NextIsNew DEF Deploy
<1>3. l \in Record /\ a \in Steps /\ l.name = n /\ l.proxy = None /\ l.address = created'
  BY <1>2 DEF Record, Steps, None
<1>6. /\ \A m \in Names \ {n} : task'[m] = task[m]
      /\ task' \in [Names -> Task]
  BY <1>1, <1>3 DEF Inv, TypesOK, Deploy, Steps, Task
<1>7. /\ task'[n].at = a /\ task'[n].logic = l /\ task'[n].proxied = task[n].proxied
  BY <1>1 DEF Inv, TypesOK, Deploy
<1> HIDE DEF l
<1>8. /\ PlacesOK' /\ FileOK(n)' /\ Follows(n)' /\ Forward(n)
      /\ \A m \in Names : RecordsOf(m)' = RecordsOf(m)
      /\ Recorded(n)' = Recorded(n) /\ Proxies(n)' = Proxies(n)
  BY <1>1, FileStays
<1>9. NewLogic(n)'
  BY <1>2, <1>3, <1>7, <1>8 DEF NewLogic
<1>10. TaskOK(n)'
  <2>1. task[n].proxied.name = n
    BY DEF Inv, NameInv, TaskOK
  <2>2. \/ a = "deployProxy" /\ script \in {"Save", "Test"}
        \/ a = "add" /\ script \notin {"Save", "Test"}
    OBVIOUS
  <2> HIDE DEF a
  <2> QED BY <1>1, <1>3, <1>7, <1>9, <2>1, <2>2 DEF TaskOK, Scripts
<1>11. Owns(n)' \subseteq Owns(n) \cup {None, created'}
  <2> DEFINE S == Owns(n) \cup {None, created'}
  <2>3. Recorded(n)' \subseteq S /\ Proxies(n)' \subseteq S
    BY <1>3, <1>7, <1>8, TaskOwns
  <2>4. /\ task'[n].logic.address \in S /\ task'[n].logic.proxy \in S
        /\ task'[n].proxied.address \in S /\ task'[n].proxied.proxy \in S
    BY <1>3, <1>7, <1>8, TaskOwns
  <2> HIDE DEF S
  <2>5. Owns(n)' \subseteq S
    BY <2>3, <2>4, OwnsFrom
  <2> QED BY <2>5 DEF S
<1>12. None \notin Owns(n)'
  BY DEF Owns
<1>13. TypesOK'
  BY <1>1, <1>2, <1>6 DEF Inv, TypesOK
<1> QED BY <1>1, <1>2, <1>6, <1>8, <1>10, <1>11, <1>12, <1>13 DEF StepOf, NameInv

LEMMA ReadLogicStep ==
  ASSUME Inv, NEW n \in Names, ReadLogic(n)
  PROVE  StepOf(n) /\ Forward(n)
<1>1. /\ script \in Scripts /\ script' = script /\ created' = created
      /\ records' = records /\ implementation' = implementation
      /\ task[n] \in Task
      /\ task[n].at = "readLogic"
  BY DEF Inv, TypesOK, ReadLogic, At
<1>2. /\ script = "Proxy" /\ RecordsOf(n) # {} /\ GetContract(n).proxy = None
      /\ task[n].proxied.name = n
  BY <1>1 DEF Inv, NameInv, TaskOK
<1>3. /\ GetContract(n) \in Record /\ GetContract(n).name = n
      /\ Max(RecordsOf(n)) \in RecordsOf(n)
  BY <1>2, ContractType DEF Inv
<1>6. /\ \A m \in Names \ {n} : task'[m] = task[m]
      /\ task' \in [Names -> Task]
  BY <1>1, <1>3 DEF Inv, TypesOK, ReadLogic, Steps, Task
<1>7. /\ task'[n].at = "deployProxy" /\ task'[n].logic = GetContract(n)
      /\ task'[n].proxied = task[n].proxied
  BY <1>1 DEF Inv, TypesOK, ReadLogic
<1>8. /\ PlacesOK' /\ FileOK(n)' /\ Follows(n)' /\ Forward(n)
      /\ \A m \in Names : RecordsOf(m)' = RecordsOf(m)
      /\ Recorded(n)' = Recorded(n) /\ Proxies(n)' = Proxies(n)
      /\ GetContract(n)' = GetContract(n)
  BY <1>1, FileStays
<1>9. LastIsLogic(n)'
  BY <1>2, <1>7, <1>8 DEF LastIsLogic
<1>10. TaskOK(n)'
  BY <1>1, <1>2, <1>3, <1>7, <1>9 DEF TaskOK
<1>11. Owns(n)' \subseteq Owns(n) \cup {None}
  <2> DEFINE S == Owns(n) \cup {None}
  <2>2. GetContract(n).address \in Recorded(n)
    BY <1>3 DEF GetContract, Recorded
  <2>3. Recorded(n)' \subseteq S /\ Proxies(n)' \subseteq S
    BY <1>2, <1>7, <1>8, <2>2, TaskOwns
  <2>4. /\ task'[n].logic.address \in S /\ task'[n].logic.proxy \in S
        /\ task'[n].proxied.address \in S /\ task'[n].proxied.proxy \in S
    BY <1>2, <1>7, <1>8, <2>2, TaskOwns
  <2> HIDE DEF S
  <2>5. Owns(n)' \subseteq S
    BY <2>3, <2>4, OwnsFrom
  <2> QED BY <2>5 DEF S
<1>12. None \notin Owns(n)'
  BY DEF Owns
<1>13. TypesOK'
  BY <1>1, <1>6 DEF Inv, TypesOK
<1> QED BY <1>1, <1>6, <1>8, <1>10, <1>11, <1>12, <1>13 DEF StepOf, NameInv

LEMMA ReadProxyStep ==
  ASSUME Inv, NEW n \in Names, ReadProxy(n)
  PROVE  StepOf(n) /\ Forward(n)
<1>1. /\ script \in Scripts /\ script' = script /\ created' = created
      /\ records' = records /\ implementation' = implementation
      /\ task[n] \in Task
      /\ task[n].at = "readProxy" /\ HasProxy(n)
  BY DEF Inv, TypesOK, ReadProxy, At
<1>2. script = "Upgrade" /\ RecordsOf(n) # {} /\ GetContract(n).proxy = None
  BY <1>1 DEF Inv, NameInv, TaskOK
<1>3. /\ GetContract(n) \in Record /\ GetContract(n).name = n
      /\ Max(RecordsOf(n)) \in RecordsOf(n)
      /\ GetContractWithProxy(n) \in Record /\ GetContractWithProxy(n).name = n
      /\ Max(ProxiedOf(n)) \in RecordsOf(n)
  BY <1>1, <1>2, ContractType, ProxyType DEF Inv, ProxiedOf
<1>6. /\ \A m \in Names \ {n} : task'[m] = task[m]
      /\ task' \in [Names -> Task]
  BY <1>1, <1>3 DEF Inv, TypesOK, ReadProxy, Steps, Task
<1>7. /\ task'[n].at = "upgradeTo" /\ task'[n].logic = GetContract(n)
      /\ task'[n].proxied = GetContractWithProxy(n)
  BY <1>1 DEF Inv, TypesOK, ReadProxy
<1>8. /\ PlacesOK' /\ FileOK(n)' /\ Follows(n)' /\ Forward(n)
      /\ \A m \in Names : RecordsOf(m)' = RecordsOf(m)
      /\ Recorded(n)' = Recorded(n) /\ Proxies(n)' = Proxies(n)
      /\ GetContract(n)' = GetContract(n)
      /\ HasProxy(n)' /\ GetContractWithProxy(n)' = GetContractWithProxy(n)
  BY <1>1, FileStays
<1>9. LastIsLogic(n)'
  BY <1>2, <1>7, <1>8 DEF LastIsLogic
<1>10. TaskOK(n)'
  BY <1>1, <1>2, <1>3, <1>7, <1>8, <1>9 DEF TaskOK
<1>11. Owns(n)' \subseteq Owns(n) \cup {None}
  <2> DEFINE S == Owns(n) \cup {None}
  <2>2. /\ GetContract(n).address \in Recorded(n)
        /\ GetContractWithProxy(n).address \in Recorded(n)
        /\ GetContractWithProxy(n).proxy \in Proxies(n)
    BY <1>3 DEF GetContract, GetContractWithProxy, Recorded, Proxies
  <2>3. Recorded(n)' \subseteq S /\ Proxies(n)' \subseteq S
    BY <1>2, <1>7, <1>8, <2>2, TaskOwns
  <2>4. /\ task'[n].logic.address \in S /\ task'[n].logic.proxy \in S
        /\ task'[n].proxied.address \in S /\ task'[n].proxied.proxy \in S
    BY <1>2, <1>7, <1>8, <2>2, TaskOwns
  <2> HIDE DEF S
  <2>5. Owns(n)' \subseteq S
    BY <2>3, <2>4, OwnsFrom
  <2> QED BY <2>5 DEF S
<1>12. None \notin Owns(n)'
  BY DEF Owns
<1>13. TypesOK'
  BY <1>1, <1>6 DEF Inv, TypesOK
<1> QED BY <1>1, <1>6, <1>8, <1>10, <1>11, <1>12, <1>13 DEF StepOf, NameInv

LEMMA DeployProxyStep ==
  ASSUME Inv, NEW n \in Names, DeployProxyForGivenLogic(n)
  PROVE  StepOf(n) /\ Forward(n)
<1> DEFINE p == [task[n].logic EXCEPT !.proxy = created']
           a == IF script = "Proxy" THEN "link" ELSE "add"
<1>1. /\ script \in Scripts /\ script' = script /\ records' = records
      /\ task[n] \in Task
      /\ task[n].at = "deployProxy"
      /\ implementation \in [Contracts -> Nat]
      /\ implementation' = [implementation EXCEPT ![created'] = task[n].logic.address]
  BY DEF Inv, TypesOK, DeployProxyForGivenLogic, At
<1>2. /\ created' = created + 1 /\ created' \in Nat /\ created' <= MaxContracts
      /\ created' # None /\ created' \in Contracts
      /\ \A m \in Names : created' \notin Owns(m)
      /\ \A m \in Names : \A c \in Owns(m) : c < created'
  BY NextIsNew DEF DeployProxyForGivenLogic
<1>3. /\ p \in Record /\ a \in Steps /\ p.name = task[n].logic.name
      /\ p.address = task[n].logic.address /\ p.proxy = created'
  BY <1>1, <1>2 DEF Record, Steps, Task
<1>4. /\ \A m \in Names \ {n} : task'[m] = task[m]
      /\ task' \in [Names -> Task]
  BY <1>1, <1>3 DEF Inv, TypesOK, DeployProxyForGivenLogic, Task
<1>5. /\ task'[n].at = a /\ task'[n].logic = task[n].logic /\ task'[n].proxied = p
  BY <1>1 DEF Inv, TypesOK, DeployProxyForGivenLogic
<1> HIDE DEF p
<1>6. /\ implementation'[created'] = task[n].logic.address
      /\ \A m \in Names : \A c \in Owns(m) : implementation'[c] = implementation[c]
  BY <1>1, <1>2
<1>7. /\ PlacesOK' /\ FileOK(n)' /\ Follows(n)' /\ Forward(n)
      /\ \A m \in Names : RecordsOf(m)' = RecordsOf(m)
      /\ Recorded(n)' = Recorded(n) /\ Proxies(n)' = Proxies(n)
      /\ GetContract(n)' = GetContract(n)
  BY <1>1, <1>6, FileStays
<1>8. NewProxy(n)'
  <2>1. \A c \in Proxies(n) : c < created'
    <3>1. Proxies(n) \subseteq Owns(n) \cup {None}
      BY TaskOwns
    <3>2. None < created'
      BY <1>2 DEF None
    <3> QED BY <1>2, <3>1, <3>2
  <2>2. \A i \in RecordsOf(n)' : records'[i].proxy < created'
    BY <1>1, <1>7, <2>1 DEF Proxies
  <2> QED BY <1>2, <1>3, <1>5, <1>6, <2>2 DEF NewProxy
<1>9. /\ task[n].logic.name = n
      /\ \/ script = "Proxy" /\ LastIsLogic(n)
         \/ script \in {"Save", "Test"} /\ NewLogic(n)
  BY <1>1 DEF Inv, NameInv, TaskOK
<1>10. TaskOK(n)'
  <2>1. CASE script = "Proxy" /\ LastIsLogic(n)
    <3>1. LastIsLogic(n)'
      BY <1>5, <1>7, <2>1 DEF LastIsLogic
    <3> QED BY <1>1, <1>3, <1>5, <1>8, <1>9, <2>1, <3>1 DEF TaskOK
  <2>2. CASE script \in {"Save", "Test"} /\ NewLogic(n)
    <3>1. NewLogic(n)'
      BY <1>5, <1>7, <2>2 DEF NewLogic
    <3> QED BY <1>1, <1>3, <1>5, <1>8, <1>9, <2>2, <3>1 DEF TaskOK
  <2> QED BY <1>9, <2>1, <2>2
<1>11. Owns(n)' \subseteq Owns(n) \cup {None, created'}
  <2> DEFINE S == Owns(n) \cup {None, created'}
  <2>3. Recorded(n)' \subseteq S /\ Proxies(n)' \subseteq S
    BY <1>7, TaskOwns
  <2>4. /\ task'[n].logic.address \in S /\ task'[n].logic.proxy \in S
        /\ task'[n].proxied.address \in S /\ task'[n].proxied.proxy \in S
    BY <1>3, <1>5, TaskOwns
  <2> HIDE DEF S
  <2>5. Owns(n)' \subseteq S
    BY <2>3, <2>4, OwnsFrom
  <2> QED BY <2>5 DEF S
<1>12. None \notin Owns(n)'
  BY DEF Owns
<1>13. TypesOK'
  <2>1. implementation' \in [Contracts -> Nat]
    <3>1. task[n].logic.address \in Nat
      BY <1>1 DEF Record, Task
    <3> QED BY <1>1, <3>1
  <2> QED BY <1>1, <1>2, <1>4, <2>1 DEF Inv, TypesOK
<1> QED BY <1>1, <1>2, <1>4, <1>6, <1>7, <1>10, <1>11, <1>12, <1>13 DEF StepOf, NameInv

(* The ledger runs the new logic behind the present proxy.                 *)
LEMMA UpgradeStep ==
  ASSUME Inv, NEW n \in Names, UpgradeTo(n)
  PROVE  StepOf(n) /\ Forward(n)
<1> DEFINE p == task[n].proxied.proxy
<1>1. /\ script \in Scripts /\ script' = script /\ records' = records /\ created' = created
      /\ task[n] \in Task
      /\ task[n].at = "upgradeTo"
      /\ implementation \in [Contracts -> Nat]
      /\ implementation' = [implementation EXCEPT ![p] = task[n].logic.address]
  BY DEF Inv, TypesOK, UpgradeTo, At
<1>2. /\ script = "Upgrade" /\ LastIsLogic(n)
      /\ HasProxy(n) /\ task[n].proxied = GetContractWithProxy(n)
      /\ task[n].logic.name = n /\ task[n].proxied.name = n
  BY <1>1 DEF Inv, NameInv, TaskOK
<1>3. /\ \A m \in Names \ {n} : task'[m] = task[m]
      /\ task' \in [Names -> Task]
  BY <1>1 DEF Inv, TypesOK, UpgradeTo, Steps, Task
<1>4. /\ task'[n].at = "update" /\ task'[n].logic = task[n].logic
      /\ task'[n].proxied = task[n].proxied
  BY <1>1 DEF Inv, TypesOK, UpgradeTo
<1>5. /\ p # None /\ p \in Owns(n) /\ p \in Contracts
      /\ \A m \in Names \ {n} : p \notin Owns(m)
  <2>1. p # None
    BY <1>2, ProxyType DEF Inv
  <2>2. p \in Owns(n)
    BY <2>1, TaskOwns
  <2>3. p \in 1 .. created /\ created \in Nat /\ created <= MaxContracts
    BY <2>2 DEF Inv, Apart, TypesOK
  <2>4. p \in Contracts
    BY <2>3, DeploymentAssumption DEF Contracts
  <2>5. \A m \in Names \ {n} : p \notin Owns(m)
    BY <2>2 DEF Inv, Apart
  <2> QED BY <2>1, <2>2, <2>4, <2>5
<1>6. /\ implementation'[p] = task[n].logic.address
      /\ \A m \in Names \ {n} : \A c \in Owns(m) : implementation'[c] = implementation[c]
  BY <1>1, <1>5
<1>7. \A m \in Names : RecordsOf(m)' = RecordsOf(m) /\ ProxiedOf(m)' = ProxiedOf(m)
  BY <1>1 DEF RecordsOf, ProxiedOf
<1>8. /\ HasProxy(n)' /\ GetContractWithProxy(n)' = GetContractWithProxy(n)
      /\ GetContract(n)' = GetContract(n)
      /\ Recorded(n)' = Recorded(n) /\ Proxies(n)' = Proxies(n)
  BY <1>1, <1>2, <1>7 DEF HasProxy, GetContractWithProxy, GetContract, Recorded, Proxies
<1>9. PlacesOK' /\ FileOK(n)'
  BY <1>1, <1>7 DEF Inv, PlacesOK, NameInv, FileOK
<1>10. Forward(n)
  <2>1. GetContractWithProxy(n).proxy \in Nat
    BY <1>2, ProxyType DEF Inv
  <2> QED BY <1>8, <2>1 DEF Forward
<1>11. Follows(n)'
  <2> DEFINE i == Max(ProxiedOf(n))
             j == Max(RecordsOf(n))
  <2>1. i \in ProxiedOf(n)
    BY <1>2, ProxyType DEF Inv
  <2>2. /\ RecordsOf(n) # {} /\ GetContract(n).proxy = None
        /\ task[n].logic = GetContract(n)
    BY <1>2 DEF LastIsLogic
  <2>3. j \in RecordsOf(n) /\ i <= j /\ GetContract(n).name = n
    BY <2>1, <2>2, ContractType DEF Inv, ProxiedOf
  <2>4. i # j
    BY <2>1, <2>2 DEF GetContract, ProxiedOf
  <2>5. i \in Nat /\ j \in Nat /\ i \in DOMAIN records /\ j \in DOMAIN records
    BY <2>1, <2>3 DEF Inv, PlacesOK, ProxiedOf, RecordsOf
  <2>6. /\ records[i] = GetContractWithProxy(n)
        /\ records[j] = GetContract(n)
    BY DEF GetContractWithProxy, GetContract
  <2> HIDE DEF i, j
  <2>7. i < j
    BY <2>3, <2>4, <2>5
  <2> QED BY <1>1, <1>2, <1>6, <1>8, <2>2, <2>3, <2>5, <2>6, <2>7 DEF Follows
<1>12. LastIsLogic(n)'
  BY <1>2, <1>4, <1>7, <1>8 DEF LastIsLogic
<1>13. TaskOK(n)'
  BY <1>1, <1>2, <1>4, <1>6, <1>8, <1>12 DEF TaskOK
<1>14. Owns(n)' = Owns(n)
  BY <1>4, <1>8 DEF Owns
<1>15. TypesOK'
  <2>1. implementation' \in [Contracts -> Nat]
    <3>1. task[n].logic.address \in Nat
      BY <1>1 DEF Record, Task
    <3> QED BY <1>1, <3>1
  <2> QED BY <1>1, <1>3, <2>1 DEF Inv, TypesOK
<1> QED BY <1>1, <1>3, <1>6, <1>7, <1>9, <1>10, <1>11, <1>13, <1>14, <1>15 DEF StepOf, NameInv

(* The record of the last logic of a name gives way to one with a proxy.   *)
LEMMA LinkedRecord ==
  ASSUME Inv, NEW n \in Names, LastIsLogic(n),
         NEW r \in Record, r.name = n, r.proxy # None,
         r.address = task[n].logic.address,
         HasProxy(n) => GetContractWithProxy(n).proxy <= r.proxy,
         implementation' = implementation, implementation[r.proxy] = r.address,
         UpdateContractRecord(r, task[n].logic)
  PROVE  /\ PlacesOK' /\ FileOK(n)' /\ Follows(n)' /\ Forward(n)
         /\ HasProxy(n)' /\ GetContractWithProxy(n)' = r
         /\ \A m \in Names \ {n} : /\ RecordsOf(m)' = RecordsOf(m)
                                    /\ \A i \in RecordsOf(m) : records'[i] = records[i]
         /\ Recorded(n)' \subseteq Recorded(n)
         /\ Proxies(n)' \subseteq Proxies(n) \cup {r.proxy}
<1> DEFINE kept == {i \in DOMAIN records : records[i].address # r.address}
<1>1. FileOK(n) /\ PlacesOK /\ \A m \in Names : RecordsOf(m) \subseteq DOMAIN records
  BY DEF Inv, NameInv, RecordsOf
<1>2. r.address \in Recorded(n) /\ r.address # None
  <2>1. /\ RecordsOf(n) # {} /\ task[n].logic = GetContract(n)
    BY DEF LastIsLogic
  <2>2. Max(RecordsOf(n)) \in RecordsOf(n)
    BY <2>1, ContractType DEF Inv
  <2>3. r.address = records[Max(RecordsOf(n))].address
    BY <2>1 DEF GetContract
  <2> QED BY <1>1, <2>2, <2>3 DEF FileOK, Recorded
<1>3. \A m \in Names \ {n} : RecordsOf(m) \subseteq kept
  <2> SUFFICES ASSUME NEW m \in Names \ {n}, NEW i \in RecordsOf(m)
               PROVE  records[i].address # r.address
    BY <1>1
  <2>1. records[i].address \in Recorded(m) /\ records[i].address # None
    BY DEF Inv, NameInv, FileOK, Recorded
  <2>2. records[i].address \in Owns(m) /\ r.address \in Owns(n)
    BY <1>2, <2>1 DEF Owns
  <2> QED BY <2>2 DEF Inv, Apart
<1>4. /\ kept \subseteq DOMAIN records
      /\ \A i \in RecordsOf(n) : i \in kept <=> records[i].address # r.address
      /\ records' = Written(kept, r)
  BY <1>1 DEF UpdateContractRecord, OtherRecords
<1>5. implementation'[r.proxy] = r.address
  OBVIOUS
<1> HIDE DEF kept
<1>6. /\ PlacesOK' /\ FileOK(n)' /\ Follows(n)' /\ Forward(n)
      /\ HasProxy(n)' /\ GetContractWithProxy(n)' = r
      /\ \A m \in Names \ {n} : /\ RecordsOf(m)' = RecordsOf(m)
                                 /\ \A i \in RecordsOf(m) : records'[i] = records[i]
      /\ Recorded(n)' \subseteq Recorded(n) \cup {r.address}
      /\ Proxies(n)' \subseteq Proxies(n) \cup {r.proxy}
  BY <1>1, <1>2, <1>3, <1>4, <1>5, ProxyWritten
<1> QED BY <1>2, <1>6

LEMMA LinkStep ==
  ASSUME Inv, NEW n \in Names, LinkProxy(n)
  PROVE  StepOf(n) /\ Forward(n)
<1> DEFINE r == task[n].proxied
<1>1. /\ script \in Scripts /\ script' = script /\ created' = created
      /\ task[n] \in Task
      /\ task[n].at = "link" /\ implementation' = implementation
      /\ UpdateContractRecord(r, task[n].logic)
  BY DEF Inv, TypesOK, LinkProxy, At
<1>2. /\ script = "Proxy" /\ LastIsLogic(n) /\ NewProxy(n)
      /\ task[n].logic.name = n /\ task[n].proxied.name = n
  BY <1>1 DEF Inv, NameInv, TaskOK
<1>3. /\ \A m \in Names \ {n} : task'[m] = task[m]
      /\ task' \in [Names -> Task]
  BY <1>1 DEF Inv, TypesOK, LinkProxy, Steps, Task
<1>4. /\ task'[n].at = "done" /\ task'[n].logic = task[n].logic /\ task'[n].proxied = r
  BY <1>1 DEF Inv, TypesOK, LinkProxy
<1>5. /\ r \in Record /\ r.name = n /\ r.proxy # None
      /\ r.address = task[n].logic.address /\ implementation[r.proxy] = r.address
  BY <1>1, <1>2 DEF NewProxy, Task
<1>6. HasProxy(n) => GetContractWithProxy(n).proxy <= r.proxy
  <2> SUFFICES ASSUME HasProxy(n) PROVE GetContractWithProxy(n).proxy <= r.proxy
    OBVIOUS
  <2>1. Max(ProxiedOf(n)) \in RecordsOf(n) /\ GetContractWithProxy(n).proxy \in Nat
    BY ProxyType DEF Inv, ProxiedOf
  <2>2. GetContractWithProxy(n).proxy < r.proxy
    BY <1>2, <2>1 DEF NewProxy, GetContractWithProxy
  <2>3. r.proxy \in Nat
    BY <1>5 DEF Record
  <2> QED BY <2>1, <2>2, <2>3
<1> HIDE DEF r
<1>7. /\ PlacesOK' /\ FileOK(n)' /\ Follows(n)' /\ Forward(n)
      /\ HasProxy(n)' /\ GetContractWithProxy(n)' = r
      /\ \A m \in Names \ {n} : /\ RecordsOf(m)' = RecordsOf(m)
                                 /\ \A i \in RecordsOf(m) : records'[i] = records[i]
      /\ Recorded(n)' \subseteq Recorded(n)
      /\ Proxies(n)' \subseteq Proxies(n) \cup {r.proxy}
  BY <1>1, <1>2, <1>5, <1>6, LinkedRecord
<1>8. TaskOK(n)'
  BY <1>1, <1>2, <1>4, <1>5, <1>7 DEF TaskOK
<1>9. Owns(n)' \subseteq Owns(n) \cup {None}
  <2> DEFINE S == Owns(n) \cup {None}
  <2>1. r.proxy \in S
    BY TaskOwns DEF r
  <2>2. Recorded(n)' \subseteq S /\ Proxies(n)' \subseteq S
    BY <1>7, <2>1, TaskOwns
  <2>3. /\ task'[n].logic.address \in S /\ task'[n].logic.proxy \in S
        /\ task'[n].proxied.address \in S /\ task'[n].proxied.proxy \in S
    BY <1>4, TaskOwns DEF r
  <2> HIDE DEF S
  <2>4. Owns(n)' \subseteq S
    BY <2>2, <2>3, OwnsFrom
  <2> QED BY <2>4 DEF S
<1>10. None \notin Owns(n)'
  BY DEF Owns
<1>11. TypesOK'
  BY <1>1, <1>3 DEF Inv, TypesOK
<1> QED BY <1>1, <1>3, <1>7, <1>8, <1>9, <1>10, <1>11 DEF StepOf, NameInv

LEMMA UpdateStep ==
  ASSUME Inv, NEW n \in Names, UpdateProxy(n)
  PROVE  StepOf(n) /\ Forward(n)
<1> DEFINE r == [task[n].proxied EXCEPT !.address = task[n].logic.address]
<1>1. /\ script \in Scripts /\ script' = script /\ created' = created
      /\ task[n] \in Task
      /\ task[n].at = "update" /\ implementation' = implementation
      /\ UpdateContractRecord(r, task[n].logic)
  BY DEF Inv, TypesOK, UpdateProxy, At
<1>2. /\ script = "Upgrade" /\ LastIsLogic(n)
      /\ HasProxy(n) /\ task[n].proxied = GetContractWithProxy(n)
      /\ implementation[task[n].proxied.proxy] = task[n].logic.address
      /\ task[n].logic.name = n /\ task[n].proxied.name = n
  BY <1>1 DEF Inv, NameInv, TaskOK
<1>3. /\ \A m \in Names \ {n} : task'[m] = task[m]
      /\ task' \in [Names -> Task]
  BY <1>1 DEF Inv, TypesOK, UpdateProxy, Steps, Task
<1>4. /\ task'[n].at = "done" /\ task'[n].logic = task[n].logic
      /\ task'[n].proxied = task[n].proxied
  BY <1>1 DEF Inv, TypesOK, UpdateProxy
<1>5. /\ r \in Record /\ r.name = n /\ r.proxy = task[n].proxied.proxy
      /\ r.address = task[n].logic.address
  BY <1>1, <1>2 DEF Record, Task
<1> HIDE DEF r
<1>6. /\ r.proxy # None /\ implementation[r.proxy] = r.address
      /\ HasProxy(n) => GetContractWithProxy(n).proxy <= r.proxy
  BY <1>2, <1>5, ProxyType DEF Inv
<1>7. /\ PlacesOK' /\ FileOK(n)' /\ Follows(n)' /\ Forward(n)
      /\ HasProxy(n)' /\ GetContractWithProxy(n)' = r
      /\ \A m \in Names \ {n} : /\ RecordsOf(m)' = RecordsOf(m)
                                 /\ \A i \in RecordsOf(m) : records'[i] = records[i]
      /\ Recorded(n)' \subseteq Recorded(n)
      /\ Proxies(n)' \subseteq Proxies(n) \cup {r.proxy}
  BY <1>1, <1>2, <1>5, <1>6, LinkedRecord
<1>8. TaskOK(n)'
  BY <1>1, <1>2, <1>4, <1>5, <1>7 DEF TaskOK
<1>9. Owns(n)' \subseteq Owns(n) \cup {None}
  <2> DEFINE S == Owns(n) \cup {None}
  <2>2. Recorded(n)' \subseteq S /\ Proxies(n)' \subseteq S
    BY <1>5, <1>7, TaskOwns
  <2>3. /\ task'[n].logic.address \in S /\ task'[n].logic.proxy \in S
        /\ task'[n].proxied.address \in S /\ task'[n].proxied.proxy \in S
    BY <1>4, TaskOwns
  <2> HIDE DEF S
  <2>4. Owns(n)' \subseteq S
    BY <2>2, <2>3, OwnsFrom
  <2> QED BY <2>4 DEF S
<1>10. None \notin Owns(n)'
  BY DEF Owns
<1>11. TypesOK'
  BY <1>1, <1>3 DEF Inv, TypesOK
<1> QED BY <1>1, <1>3, <1>7, <1>8, <1>9, <1>10, <1>11 DEF StepOf, NameInv

LEMMA AddStep ==
  ASSUME Inv, NEW n \in Names, Add(n)
  PROVE  StepOf(n) /\ Forward(n)
<1> DEFINE l == task[n].logic
           r == task[n].proxied
           a == CASE script = "Proxy" -> "readLogic" [] script = "Upgrade" -> "readProxy"
                  [] OTHER -> "done"
<1>1. /\ script \in Scripts /\ script' = script /\ created' = created
      /\ task[n] \in Task
      /\ task[n].at = "add" /\ implementation' = implementation
      /\ AddDeployed(IF script \in {"Save", "Test"} THEN r ELSE l)
  BY DEF Inv, TypesOK, Add, At
<1>2. /\ NewLogic(n) /\ task[n].logic.name = n /\ task[n].proxied.name = n
      /\ script \in {"Save", "Test"} => NewProxy(n)
  BY <1>1 DEF Inv, NameInv, TaskOK
<1>3. /\ a \in Steps
      /\ script = "Proxy" => a = "readLogic"
      /\ script = "Upgrade" => a = "readProxy"
      /\ script \notin {"Proxy", "Upgrade"} => a = "done"
  BY DEF Steps
<1>4. /\ \A m \in Names \ {n} : task'[m] = task[m]
      /\ task' \in [Names -> Task]
  <2>1. task' = [task EXCEPT ![n].at = a]
    BY DEF Add
  <2> HIDE DEF a
  <2> QED BY <1>1, <1>3, <2>1 DEF Inv, TypesOK, Task
<1>5. task'[n].at = a /\ task'[n].logic = l /\ task'[n].proxied = r
  <2>1. task' = [task EXCEPT ![n].at = a]
    BY DEF Add
  <2> HIDE DEF a
  <2> QED BY <1>1, <2>1 DEF Inv, TypesOK
<1> HIDE DEF a
<1>6. /\ l \in Record /\ r \in Record
      /\ l.address # None /\ l.address \notin Recorded(n)
  BY <1>1, <1>2 DEF NewLogic, Task
<1> DEFINE Good ==
      /\ PlacesOK' /\ FileOK(n)' /\ Follows(n)' /\ Forward(n) /\ TaskOK(n)'
      /\ \A m \in Names \ {n} : /\ RecordsOf(m)' = RecordsOf(m)
                                 /\ \A i \in RecordsOf(m) : records'[i] = records[i]
      /\ Recorded(n)' \subseteq Recorded(n) \cup {l.address}
      /\ Proxies(n)' \subseteq Proxies(n) \cup {None, r.proxy}
<1>7. ASSUME script \notin {"Save", "Test"} PROVE Good
  <2>1. AddDeployed(task[n].logic) /\ UNCHANGED implementation
    BY <1>1, <1>7
  <2>2. /\ PlacesOK' /\ FileOK(n)' /\ Follows(n)' /\ Forward(n)
        /\ RecordsOf(n)' # {} /\ GetContract(n)' = l
        /\ \A m \in Names \ {n} : /\ RecordsOf(m)' = RecordsOf(m)
                                   /\ \A i \in RecordsOf(m) : records'[i] = records[i]
        /\ Recorded(n)' = Recorded(n) \cup {l.address}
        /\ Proxies(n)' \subseteq Proxies(n) \cup {None}
    BY <1>2, <1>6, <2>1, AddedLogic DEF Inv
  <2>3. l.proxy = None
    BY <1>2 DEF NewLogic
  <2>4. TaskOK(n)'
    BY <1>1, <1>2, <1>3, <1>5, <1>7, <2>2, <2>3 DEF TaskOK, Scripts
  <2> QED BY <2>2, <2>4
<1>8. ASSUME script \in {"Save", "Test"} PROVE Good
  <2> DEFINE kept == DOMAIN records
  <2>1. /\ r.name = n /\ r.proxy # None /\ r.address = l.address
        /\ implementation'[r.proxy] = r.address
    BY <1>1, <1>2, <1>8 DEF NewProxy
  <2>2. HasProxy(n) => GetContractWithProxy(n).proxy <= r.proxy
    <3> SUFFICES ASSUME HasProxy(n) PROVE GetContractWithProxy(n).proxy <= r.proxy
      OBVIOUS
    <3>1. Max(ProxiedOf(n)) \in RecordsOf(n) /\ GetContractWithProxy(n).proxy \in Nat
      BY ProxyType DEF Inv, ProxiedOf
    <3>2. GetContractWithProxy(n).proxy < r.proxy
      BY <1>2, <1>8, <3>1 DEF NewProxy, GetContractWithProxy
    <3>3. r.proxy \in Nat
      BY <1>6 DEF Record
    <3> QED BY <3>1, <3>2, <3>3
  <2>3. /\ kept \subseteq DOMAIN records
        /\ \A m \in Names \ {n} : RecordsOf(m) \subseteq kept
        /\ records' = Written(kept, r)
    BY <1>1, <1>8 DEF RecordsOf, AddDeployed
  <2>4. \A i \in RecordsOf(n) : i \in kept <=> records[i].address # r.address
    BY <1>6, <2>1 DEF RecordsOf, Recorded
  <2>5. PlacesOK /\ FileOK(n) /\ r.address # None
    BY <1>6, <2>1 DEF Inv, NameInv
  <2> HIDE DEF kept, r, l
  <2>6. /\ PlacesOK' /\ FileOK(n)' /\ Follows(n)' /\ Forward(n)
        /\ HasProxy(n)' /\ GetContractWithProxy(n)' = r
        /\ \A m \in Names \ {n} : /\ RecordsOf(m)' = RecordsOf(m)
                                   /\ \A i \in RecordsOf(m) : records'[i] = records[i]
        /\ Recorded(n)' \subseteq Recorded(n) \cup {r.address}
        /\ Proxies(n)' \subseteq Proxies(n) \cup {r.proxy}
    BY <1>6, <2>1, <2>2, <2>3, <2>4, <2>5, ProxyWritten
  <2>7. l.name = n
    BY <1>2 DEF l
  <2>8. TaskOK(n)'
    BY <1>1, <1>3, <1>5, <1>8, <2>1, <2>6, <2>7 DEF TaskOK
  <2> QED BY <2>1, <2>6, <2>8
<1>9. Good
  BY <1>7, <1>8
<1>10. Owns(n)' \subseteq Owns(n) \cup {None}
  <2> DEFINE S == Owns(n) \cup {None}
  <2>2. Recorded(n)' \subseteq S /\ Proxies(n)' \subseteq S
    BY <1>9, TaskOwns
  <2>3. /\ task'[n].logic.address \in S /\ task'[n].logic.proxy \in S
        /\ task'[n].proxied.address \in S /\ task'[n].proxied.proxy \in S
    BY <1>5, TaskOwns
  <2> HIDE DEF S
  <2>4. Owns(n)' \subseteq S
    BY <2>2, <2>3, OwnsFrom
  <2> QED BY <2>4 DEF S
<1>11. None \notin Owns(n)'
  BY DEF Owns
<1>12. TypesOK'
  BY <1>1, <1>4 DEF Inv, TypesOK
<1> QED BY <1>1, <1>4, <1>9, <1>10, <1>11, <1>12 DEF StepOf, NameInv

LEMMA TaskSteps ==
  ASSUME Inv, NEW n \in Names, TaskNext(n)
  PROVE  Inv' /\ \A m \in Names : Forward(m)
<1>1. StepOf(n) /\ Forward(n)
  BY DeployStep, AddStep, ReadLogicStep, DeployProxyStep, LinkStep, ReadProxyStep,
     UpgradeStep, UpdateStep DEF TaskNext
<1> QED BY <1>1, StepKeepsInv

-----------------------------------------------------------------------------
(* The scripts and the merges *)

LEMMA IdleIs ==
  ASSUME NEW n \in Names
  PROVE  /\ Idle(n) \in Task /\ Idle(n).at = "idle"
         /\ Idle(n).logic.name = n /\ Idle(n).logic.address = None
         /\ Idle(n).logic.proxy = None
         /\ Idle(n).proxied.name = n /\ Idle(n).proxied.address = None
         /\ Idle(n).proxied.proxy = None
<1> DEFINE none == [name |-> n, address |-> None, proxy |-> None]
<1>1. none \in Record /\ none.name = n /\ none.address = None /\ none.proxy = None
  BY DEF Record, None
<1>2. Idle(n) = [at |-> "idle", logic |-> none, proxied |-> none]
  BY DEF Idle
<1> HIDE DEF none
<1> QED BY <1>1, <1>2 DEF Task, Steps

(* Tasks that have not begun own nothing.                                  *)
LEMMA Beginning ==
  ASSUME NEW n \in Names,
         \/ task'[n] = Idle(n)
         \/ task'[n] = [Idle(n) EXCEPT !.at = "deploy"] /\ script' # "None"
  PROVE  /\ TaskOK(n)' /\ Owns(n)' = (Recorded(n)' \cup Proxies(n)') \ {None}
         /\ task'[n] \in Task
<1>1. /\ task'[n] \in Task
      /\ task'[n].at \in {"idle", "deploy"}
      /\ task'[n].at = "deploy" => script' # "None"
      /\ task'[n].logic = Idle(n).logic /\ task'[n].proxied = Idle(n).proxied
  BY IdleIs DEF Task, Steps
<1>2. TaskOK(n)'
  <2> DEFINE at == task'[n].at
  <2>1. task'[n].logic.name = n /\ task'[n].proxied.name = n
    BY <1>1, IdleIs
  <2>2. script' = "None" => task'[n] = Idle(n)
    OBVIOUS
  <2>3. task'[n].at \notin {"add", "readLogic", "readProxy", "deployProxy", "link",
                            "upgradeTo", "update", "done"}
    BY <1>1
  <2> QED BY <2>1, <2>2, <2>3 DEF TaskOK
<1>3. Owns(n)' = (Recorded(n)' \cup Proxies(n)') \ {None}
  BY <1>1, IdleIs DEF Owns
<1> QED BY <1>1, <1>2, <1>3

(* A script begins, stops or ends without a merge.                         *)
LEMMA ScriptKeepsInv ==
  ASSUME Inv, UNCHANGED <<records, created, implementation>>,
         script' \in Scripts \cup {"None"}, task' = [n \in Names |-> task'[n]],
         \A n \in Names :
           \/ task'[n] = Idle(n)
           \/ task'[n] = [Idle(n) EXCEPT !.at = "deploy"] /\ script' # "None"
  PROVE  Inv' /\ \A n \in Names : Forward(n)
<1>1. records' = records /\ created' = created /\ implementation' = implementation
  OBVIOUS
<1>2. ASSUME NEW n \in Names
      PROVE  /\ PlacesOK' /\ FileOK(n)' /\ Follows(n)' /\ Forward(n)
             /\ Recorded(n)' = Recorded(n) /\ Proxies(n)' = Proxies(n)
  BY <1>1, FileStays
<1>3. ASSUME NEW n \in Names
      PROVE  NameInv(n)' /\ Owns(n)' \subseteq Owns(n)
  <2>1. TaskOK(n)' /\ Owns(n)' = (Recorded(n)' \cup Proxies(n)') \ {None}
    BY Beginning
  <2>2. (Recorded(n) \cup Proxies(n)) \ {None} \subseteq Owns(n)
    BY TaskOwns
  <2> QED BY <1>2, <2>1, <2>2 DEF NameInv
<1>4. Apart'
  BY <1>1, <1>3 DEF Inv, Apart
<1>5. TypesOK'
  <2>1. \A n \in Names : task'[n] \in Task
    BY Beginning
  <2> QED BY <1>1, <2>1 DEF Inv, TypesOK
<1>6. PlacesOK'
  BY <1>1 DEF Inv, PlacesOK
<1> QED BY <1>2, <1>3, <1>4, <1>5, <1>6 DEF Inv

(* Only the last record of each name is left.                              *)
LEMMA MergeKeepsInv ==
  ASSUME Inv, records' = LatestAsDefault, UNCHANGED <<created, implementation>>,
         script' = "None", task' = [n \in Names |-> Idle(n)]
  PROVE  Inv' /\ \A n \in Names : HasProxy(n)' =>
                     HasProxy(n) /\ GetContractWithProxy(n)' = GetContractWithProxy(n)
<1>1. /\ DOMAIN records' = FirstPlaces
      /\ \A i \in FirstPlaces : records'[i] = GetContract(records[i].name)
      /\ FirstPlaces \subseteq DOMAIN records
  BY DEF LatestAsDefault, FirstPlaces
<1>2. ASSUME NEW i \in FirstPlaces
      PROVE  /\ records[i].name \in Names /\ i \in RecordsOf(records[i].name)
             /\ GetContract(records[i].name) \in Record
             /\ GetContract(records[i].name).name = records[i].name
  <2>1. records[i].name \in Names /\ i \in RecordsOf(records[i].name)
    BY <1>1 DEF Inv, PlacesOK, Record, RecordsOf
  <2> QED BY <2>1, ContractType DEF Inv
<1>3. PlacesOK'
  <2>1. DOMAIN records' \subseteq Nat /\ \E k \in Nat : \A i \in DOMAIN records' : i <= k
    BY <1>1 DEF Inv, PlacesOK
  <2>2. \A i \in DOMAIN records' : records'[i] \in Record
    BY <1>1, <1>2
  <2> QED BY <2>1, <2>2 DEF PlacesOK
<1>4. ASSUME NEW n \in Names, NEW i \in RecordsOf(n)'
      PROVE  /\ i \in RecordsOf(n) /\ \A j \in RecordsOf(n) : i <= j
             /\ records'[i] = GetContract(n) /\ RecordsOf(n) # {}
             /\ Max(RecordsOf(n)) \in RecordsOf(n)
  <2>1. i \in FirstPlaces /\ records'[i].name = n
    BY <1>1, <1>4 DEF RecordsOf
  <2>2. records[i].name = n /\ records'[i] = GetContract(n)
    BY <1>1, <1>2, <2>1
  <2>3. i \in RecordsOf(n) /\ \A j \in RecordsOf(n) : i <= j
    BY <1>2, <2>1, <2>2 DEF FirstPlaces
  <2> QED BY <2>2, <2>3, ContractType DEF Inv
<1>5. ASSUME NEW n \in Names, NEW i \in RecordsOf(n)', NEW j \in RecordsOf(n)'
      PROVE  i = j
  <2>1. i <= j /\ j <= i /\ i \in Nat /\ j \in Nat
    BY <1>4 DEF Inv, PlacesOK, RecordsOf
  <2> QED BY <2>1
<1>6. ASSUME NEW n \in Names
      PROVE  Recorded(n)' \subseteq Recorded(n) /\ Proxies(n)' \subseteq Proxies(n)
  BY <1>4 DEF Recorded, Proxies, GetContract
<1>7. ASSUME NEW n \in Names, HasProxy(n)'
      PROVE  /\ HasProxy(n) /\ GetContractWithProxy(n)' = GetContractWithProxy(n)
             /\ GetContractWithProxy(n) = GetContract(n)
  <2>1. Max(ProxiedOf(n)') \in ProxiedOf(n)' /\ ProxiedOf(n)' \subseteq RecordsOf(n)'
    <3>1. ProxiedOf(n)' \subseteq RecordsOf(n)' /\ ProxiedOf(n)' # {}
      BY <1>7 DEF ProxiedOf, HasProxy
    <3>2. PICK x \in ProxiedOf(n)' : TRUE
      BY <3>1
    <3>3. ProxiedOf(n)' \subseteq Nat /\ \A y \in ProxiedOf(n)' : y <= x
      BY <1>3, <1>5, <3>1, <3>2 DEF PlacesOK, RecordsOf
    <3>4. Max(ProxiedOf(n)') = x
      BY <3>2, <3>3, MaxIsThat
    <3> QED BY <3>1, <3>2, <3>4
  <2> DEFINE k == Max(ProxiedOf(n)')
             j == Max(RecordsOf(n))
  <2>2. /\ k \in RecordsOf(n)' /\ records'[k].proxy # None
        /\ GetContractWithProxy(n)' = records'[k]
    BY <2>1 DEF ProxiedOf, GetContractWithProxy
  <2>3. records'[k] = GetContract(n) /\ j \in RecordsOf(n) /\ GetContract(n) = records[j]
    BY <1>4, <2>2 DEF GetContract
  <2>4. j \in ProxiedOf(n) /\ ProxiedOf(n) \subseteq RecordsOf(n)
    BY <2>2, <2>3 DEF ProxiedOf
  <2>5. \A i \in RecordsOf(n) : i <= j
    BY <2>3, ContractType DEF Inv
  <2>6. ProxiedOf(n) \subseteq Nat
    BY <2>4 DEF RecordsOf, Inv, PlacesOK
  <2> HIDE DEF j, k
  <2>7. Max(ProxiedOf(n)) = j
    BY <2>4, <2>5, <2>6, MaxIsThat
  <2> QED BY <2>2, <2>3, <2>4, <2>7 DEF HasProxy, GetContractWithProxy
<1>8. ASSUME NEW n \in Names PROVE FileOK(n)'
  <2>1. \A i \in RecordsOf(n)' : records'[i].address # None
    BY <1>4 DEF GetContract, Inv, NameInv, FileOK
  <2> QED BY <1>5, <2>1 DEF FileOK
<1>9. ASSUME NEW n \in Names PROVE Follows(n)'
  <2> SUFFICES ASSUME HasProxy(n)' PROVE Follows(n)'
    BY DEF Follows
  <2> DEFINE latest == GetContractWithProxy(n)
  <2>1. HasProxy(n) /\ GetContractWithProxy(n)' = latest /\ latest = GetContract(n)
    BY <1>7
  <2>2. \/ implementation[latest.proxy] = latest.address
        \/ \E i, j \in DOMAIN records :
             /\ i < j /\ records[i] = latest
             /\ records[j].name = n /\ records[j].address = implementation[latest.proxy]
    BY <2>1 DEF Inv, NameInv, Follows
  <2>3. ASSUME NEW i \in DOMAIN records, NEW j \in DOMAIN records,
               i < j, records[i] = latest, records[j].name = n
        PROVE  FALSE
    <3>1. latest.name = n /\ RecordsOf(n) # {}
      BY <2>1, <2>3, ProxyType DEF Inv, RecordsOf
    <3>2. i \in RecordsOf(n) /\ j \in RecordsOf(n)
      BY <2>3, <3>1 DEF RecordsOf
    <3>3. /\ Max(RecordsOf(n)) \in RecordsOf(n) /\ j <= Max(RecordsOf(n))
          /\ records[Max(RecordsOf(n))] = latest
      BY <2>1, <3>2, ContractType DEF Inv, GetContract
    <3>4. i = Max(RecordsOf(n))
      BY <2>3, <3>2, <3>3 DEF Inv, NameInv, FileOK
    <3>5. i \in Nat /\ j \in Nat
      BY DEF Inv, PlacesOK
    <3> QED BY <2>3, <3>3, <3>4, <3>5
  <2>4. implementation[latest.proxy] = latest.address
    BY <2>2, <2>3
  <2> QED BY <2>1, <2>4 DEF Follows
<1>10. ASSUME NEW n \in Names PROVE TaskOK(n)' /\ Owns(n)' \subseteq Owns(n)
  <2>1. task'[n] = Idle(n)
    OBVIOUS
  <2>2. TaskOK(n)' /\ Owns(n)' = (Recorded(n)' \cup Proxies(n)') \ {None}
    BY <2>1, Beginning
  <2>3. (Recorded(n) \cup Proxies(n)) \ {None} \subseteq Owns(n)
    BY TaskOwns
  <2> QED BY <1>6, <2>2, <2>3
<1>11. Apart'
  BY <1>10 DEF Inv, Apart
<1>12. TypesOK'
  <2>1. \A n \in Names : task'[n] \in Task
    BY Beginning
  <2> QED BY <2>1 DEF Inv, TypesOK
<1> QED BY <1>3, <1>7, <1>8, <1>9, <1>10, <1>11, <1>12 DEF Inv, NameInv

LEMMA InitInv ==
  ASSUME Init PROVE Inv
<1>1. DOMAIN records = {} /\ \A n \in Names : RecordsOf(n) = {} /\ ProxiedOf(n) = {}
  BY DEF Init, RecordsOf, ProxiedOf
<1>2. PlacesOK
  BY <1>1 DEF PlacesOK
<1>3. \A n \in Names : FileOK(n) /\ Follows(n)
  BY <1>1 DEF FileOK, Follows, HasProxy
<1>4. \A n \in Names : task[n] = Idle(n)
  BY DEF Init
<1>5. \A n \in Names : TaskOK(n)
  BY <1>4, IdleIs DEF TaskOK
<1>6. \A n \in Names : Owns(n) = {}
  <2>1. \A n \in Names : Recorded(n) = {} /\ Proxies(n) = {}
    BY <1>1 DEF Recorded, Proxies
  <2> QED BY <1>4, <2>1, IdleIs DEF Owns
<1>7. Apart
  BY <1>6 DEF Apart
<1>8. TypesOK
  <2>1. \A n \in Names : Idle(n) \in Task
    BY IdleIs
  <2>2. task \in [Names -> Task]
    BY <2>1 DEF Init
  <2> QED BY <2>2, DeploymentAssumption DEF Init, TypesOK, None
<1> QED BY <1>2, <1>3, <1>5, <1>7, <1>8 DEF Inv, NameInv

-----------------------------------------------------------------------------
(* The theorems *)

LEMMA NextKeepsInv ==
  ASSUME Inv, [Next]_vars PROVE Inv'
<1>1. CASE UNCHANGED vars
  <2>1. \A n \in Names : /\ RecordsOf(n)' = RecordsOf(n) /\ task'[n] = task[n]
                         /\ \A i \in RecordsOf(n) : records'[i] = records[i]
                         /\ \A c \in Owns(n) : implementation'[c] = implementation[c]
    BY <1>1 DEF vars, RecordsOf
  <2>2. \A n \in Names : NameInv(n)' /\ Owns(n)' = Owns(n)
    BY <1>1, <2>1, NameKept DEF Inv, vars
  <2> QED BY <1>1, <2>2 DEF Inv, vars, TypesOK, PlacesOK, Apart
<1>2. ASSUME NEW s \in Scripts, NEW names \in SUBSET Names \ {{}}, Start(s, names)
      PROVE  Inv'
  <2>1. /\ UNCHANGED <<records, created, implementation>>
        /\ script' \in Scripts \cup {"None"} /\ script' # "None"
    BY <1>2 DEF Start, Scripts
  <2>2. /\ task' = [n \in Names |-> task'[n]]
        /\ \A n \in Names : task'[n] \in {Idle(n), [Idle(n) EXCEPT !.at = "deploy"]}
    BY <1>2 DEF Start
  <2> QED BY <2>1, <2>2, ScriptKeepsInv
<1>3. ASSUME NEW n \in Names, TaskNext(n) PROVE Inv'
  BY <1>3, TaskSteps
<1>4. CASE Finish
  <2>1. /\ UNCHANGED <<created, implementation>> /\ script' = "None"
        /\ task' = [n \in Names |-> Idle(n)]
        /\ records' = IF script = "Test" THEN LatestAsDefault ELSE records
    BY <1>4 DEF Finish
  <2>2. CASE script = "Test"
    BY <2>1, <2>2, MergeKeepsInv
  <2>3. CASE script # "Test"
    BY <2>1, <2>3, ScriptKeepsInv
  <2> QED BY <2>2, <2>3
<1>5. CASE Merge
  <2>1. \A n \in Names : task[n] = Idle(n)
    BY <1>5 DEF Merge, Inv, NameInv, TaskOK
  <2>2. task' = [n \in Names |-> Idle(n)]
    BY <1>5, <2>1 DEF Merge, Inv, TypesOK
  <2> QED BY <1>5, <2>2, MergeKeepsInv DEF Merge
<1>6. CASE Stop
  <2>1. /\ UNCHANGED <<records, created, implementation>> /\ script' = "None"
        /\ task' = [n \in Names |-> Idle(n)]
    BY <1>6 DEF Stop
  <2> QED BY <2>1, ScriptKeepsInv
<1> QED BY <1>1, <1>2, <1>3, <1>4, <1>5, <1>6 DEF Next

LEMMA Invariance == Spec => []Inv
<1>1. Init => Inv
  BY InitInv
<1>2. Inv /\ [Next]_vars => Inv'
  BY NextKeepsInv
<1> QED BY <1>1, <1>2, PTL DEF Spec

(* However the scripts' tasks interleave and wherever the process stops,   *)
(* the proxy that the clients of a name find (Base.ts) runs the logic its  *)
(* record names, or the logic it runs is a later record, from where the    *)
(* next run of the scripts takes it.                                       *)
THEOREM ImplementationsAreRecorded == Spec => []ImplementationRecorded
<1>1. Inv => ImplementationRecorded
  BY DEF Inv, NameInv, Follows, ImplementationRecorded
<1> QED BY <1>1, Invariance, PTL

(* When a task of a script has come to its end, the clients see the proxy  *)
(* it deployed or upgraded, with the logic it put there, whatever the      *)
(* tasks beside it wrote.                                                  *)
THEOREM DoneTasksAreVisible == Spec => []DoneIsVisible
<1>1. Inv => DoneIsVisible
  BY DEF Inv, NameInv, TaskOK, DoneIsVisible, At
<1> QED BY <1>1, Invariance, PTL

(* No step, of whatever script, leaves the clients of a name with a proxy  *)
(* older than the one they have been using.                                *)
LEMMA StepGoesForward ==
  ASSUME Inv, [Next]_vars, NEW n \in Names, HasProxy(n), HasProxy(n)'
  PROVE  GetContractWithProxy(n).proxy <= GetContractWithProxy(n)'.proxy
<1>1. GetContractWithProxy(n).proxy \in Nat
  BY ProxyType DEF Inv
<1>2. CASE records' = records
  <2>1. ProxiedOf(n)' = ProxiedOf(n)
    BY <1>2 DEF ProxiedOf, RecordsOf
  <2>2. GetContractWithProxy(n)' = GetContractWithProxy(n)
    BY <1>2, <2>1 DEF GetContractWithProxy
  <2> QED BY <1>1, <2>2
<1>3. ASSUME NEW m \in Names, TaskNext(m)
      PROVE  GetContractWithProxy(n).proxy <= GetContractWithProxy(n)'.proxy
  BY <1>3, TaskSteps DEF Forward
<1>4. CASE (Finish /\ script = "Test") \/ Merge
  <2>1. /\ records' = LatestAsDefault /\ UNCHANGED <<created, implementation>>
        /\ script' = "None" /\ task' = [k \in Names |-> Idle(k)]
    <3>1. CASE Finish /\ script = "Test"
      BY <3>1 DEF Finish
    <3>2. CASE Merge
      <4>1. \A k \in Names : task[k] = Idle(k)
        BY <3>2 DEF Merge, Inv, NameInv, TaskOK
      <4> QED BY <3>2, <4>1 DEF Merge, Inv, TypesOK
    <3> QED BY <1>4, <3>1, <3>2
  <2>2. GetContractWithProxy(n)' = GetContractWithProxy(n)
    BY <2>1, MergeKeepsInv
  <2> QED BY <1>1, <2>2
<1>5. records' = records \/ (\E m \in Names : TaskNext(m)) \/ (Finish /\ script = "Test") \/ Merge
  BY DEF Next, Start, Finish, Stop, vars
<1> QED BY <1>2, <1>3, <1>4, <1>5

THEOREM ProxiesNeverGoBack == Spec => ProxyNeverGoesBack
<1> DEFINE Ahead == \A n \in Names : HasProxy(n) /\ HasProxy(n)' =>
                      GetContractWithProxy(n).proxy <= GetContractWithProxy(n)'.proxy
<1>1. Inv /\ [Next]_vars => [Ahead]_vars
  BY StepGoesForward
<1> QED BY <1>1, Invariance, PTL DEF Spec, ProxyNeverGoesBack

(* Only a merge forgets a deployed contract: the reads and writes of the   *)
(* file by concurrent tasks lose none of each other's records.             *)
THEOREM DeploymentsAreKept == Spec => NoDeploymentLost
<1> DEFINE Kept == \A n \in Names : Recorded(n) \subseteq Recorded(n)'
           Step == Kept \/ Merge \/ (Finish /\ script = "Test")
<1>1. ASSUME Inv, [Next]_vars PROVE Step
  <2>1. CASE records' = records
    <3>1. \A n \in Names : Recorded(n)' = Recorded(n)
      BY <2>1 DEF Recorded, RecordsOf
    <3> QED BY <3>1
  <2>2. ASSUME NEW m \in Names, TaskNext(m) PROVE Kept
    BY <1>1, <2>2, TaskSteps DEF Forward
  <2>3. \/ records' = records \/ (\E m \in Names : TaskNext(m))
        \/ (Finish /\ script = "Test") \/ Merge
    BY <1>1 DEF Next, Start, Finish, Stop, vars
  <2> QED BY <2>1, <2>2, <2>3
<1>2. Inv /\ [Next]_vars => [Step]_vars
  BY <1>1
<1> QED BY <1>2, Invariance, PTL DEF Spec, NoDeploymentLost
=============================================================================
