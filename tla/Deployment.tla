----------------------------- MODULE Deployment -----------------------------
(***************************************************************************)
(* The deployment scripts (deployment/, utils/deployContractOnTestnet.ts)  *)
(* and the file of records, contracts.json, that every client of the       *)
(* contracts reads its proxies from.  One script runs at a time; the       *)
(* scripts that deploy several contracts do so concurrently, one task per  *)
(* name (Promise.all).  A task is interrupted where it awaits the ledger,  *)
(* while reading and writing the file is synchronous.  The process may     *)
(* stop anywhere (an exception of any task ends it): what is on the ledger *)
(* and in the file stays.                                                  *)
(*                                                                         *)
(* A contract's id, address and hash are written together and stand for    *)
(* one number, in the order of creation on the ledger.  The file's array   *)
(* is the records by their places: what the code finds last has the        *)
(* greatest place, and a place that a record has left stays empty.         *)
(***************************************************************************)
EXTENDS Naturals, FiniteSetsExt

CONSTANTS
  Names,          \* contract names, lower-cased as the records hold them
  MaxContracts    \* bound on the contracts created on the ledger

ASSUME DeploymentAssumption == MaxContracts \in Nat

VARIABLES
  records,        \* contracts.json, [place -> record]: name, address and proxy
  created,        \* how many contracts the ledger has created
  implementation, \* [proxy -> logic]: what each proxy on the ledger runs
  script,         \* the script that runs, or "None"
  task            \* [name -> where the script is with it]

vars == <<records, created, implementation, script, task>>

None == 0           \* no proxy, or no address

Contracts == 1 .. MaxContracts

Scripts == {"Logic", "Proxy", "Upgrade", "Save", "Test"}

Idle(n) ==
  LET none == [name |-> n, address |-> None, proxy |-> None]
  IN  [at |-> "idle", logic |-> none, proxied |-> none]

-----------------------------------------------------------------------------
(* ContractService: every operation reads the whole file and writes it *)

RecordsOf(n) == {i \in DOMAIN records : records[i].name = n}

ProxiedOf(n) == {i \in RecordsOf(n) : records[i].proxy # None}

HasProxy(n) == ProxiedOf(n) # {}

GetContract(n) == records[Max(RecordsOf(n))]

GetContractWithProxy(n) == records[Max(ProxiedOf(n))]

AfterLast == 1 + Max(DOMAIN records \cup {0})

(* The file with the records at the kept places, and r at its end. *)
Written(kept, r) ==
  [i \in kept \cup {AfterLast} |-> IF i \in kept THEN records[i] ELSE r]

AddDeployed(r) == records' = Written(DOMAIN records, r)

OtherRecords(deployed) == {i \in DOMAIN records : records[i].address # deployed.address}

(* A slip to catch: the record is put back where the reads look first. *)
UpdateContractRecordInFront(updated, deployed) ==
  records' = [i \in {1} \cup {j + 1 : j \in OtherRecords(deployed)} |->
                IF i = 1 THEN updated ELSE records[i - 1]]

(* A slip to catch: the other records are matched by name. *)
UpdateContractRecordByName(updated, deployed) ==
  records' = Written({i \in DOMAIN records : records[i].name # deployed.name}, updated)

UpdateContractRecord(updated, deployed) ==
  records' = Written(OtherRecords(deployed), updated)

FirstPlaces == {i \in DOMAIN records : \A j \in RecordsOf(records[i].name) : i <= j}

(* A slip to catch: a name keeps its first record. *)
FirstAsDefault == [i \in FirstPlaces |-> records[i]]

(* new Map(contracts.map(x => [x.name, x])).values(): a name keeps the     *)
(* place of its first record and the content of its last.                  *)
LatestAsDefault == [i \in FirstPlaces |-> GetContract(records[i].name)]

-----------------------------------------------------------------------------
(* The steps of a task *)

At(n, step) == script # "None" /\ task[n].at = step

(* _deployInternally: the ledger creates the contract, then the task's     *)
(* continuation has its address.                                           *)
Create == /\ created < MaxContracts
          /\ created' = created + 1

Deploy(n) ==
  /\ At(n, "deploy")
  /\ Create
  /\ task' = [task EXCEPT
       ![n].at = IF script \in {"Save", "Test"} THEN "deployProxy" ELSE "add",
       ![n].logic = [name |-> n, address |-> created', proxy |-> None]]
  /\ UNCHANGED <<records, implementation, script>>

(* deployAndSave, deployProxyAndSave: what was deployed is added. *)
Add(n) ==
  /\ At(n, "add")
  /\ AddDeployed(IF script \in {"Save", "Test"} THEN task[n].proxied
                                                ELSE task[n].logic)
  /\ task' = [task EXCEPT ![n].at =
       CASE script = "Proxy" -> "readLogic" [] script = "Upgrade" -> "readProxy"
         [] OTHER -> "done"]
  /\ UNCHANGED <<created, implementation, script>>

(* transparentUpgradeableProxy.ts reads the logic to put behind the proxy. *)
ReadLogic(n) ==
  /\ At(n, "readLogic")
  /\ task' = [task EXCEPT ![n].at = "deployProxy", ![n].logic = GetContract(n)]
  /\ UNCHANGED <<records, created, implementation, script>>

DeployProxyForGivenLogic(n) ==
  /\ At(n, "deployProxy")
  /\ Create
  /\ implementation' = [implementation EXCEPT ![created'] = task[n].logic.address]
  /\ task' = [task EXCEPT
       ![n].at = IF script = "Proxy" THEN "link" ELSE "add",
       ![n].proxied = [task[n].logic EXCEPT !.proxy = created']]
  /\ UNCHANGED <<records, script>>

LinkProxy(n) ==
  /\ At(n, "link")
  /\ UpdateContractRecord(task[n].proxied, task[n].logic)
  /\ task' = [task EXCEPT ![n].at = "done"]
  /\ UNCHANGED <<created, implementation, script>>

(* upgradeProxy.ts reads the proxy and the logic before it awaits the      *)
(* ledger; without a proxied record it fails and the script ends.          *)
ReadProxy(n) ==
  /\ At(n, "readProxy") /\ HasProxy(n)
  /\ task' = [task EXCEPT ![n].at = "upgradeTo",
                          ![n].proxied = GetContractWithProxy(n),
                          ![n].logic = GetContract(n)]
  /\ UNCHANGED <<records, created, implementation, script>>

(* A slip to catch: the script goes on without the ledger's receipt. *)
UpgradeToUnconfirmed(n) ==
  /\ At(n, "upgradeTo")
  /\ task' = [task EXCEPT ![n].at = "update"]
  /\ UNCHANGED <<records, created, implementation, script>>

UpgradeTo(n) ==
  /\ At(n, "upgradeTo")
  /\ implementation' =
       [implementation EXCEPT ![task[n].proxied.proxy] = task[n].logic.address]
  /\ task' = [task EXCEPT ![n].at = "update"]
  /\ UNCHANGED <<records, created, script>>

UpdateProxy(n) ==
  /\ At(n, "update")
  /\ UpdateContractRecord([task[n].proxied EXCEPT !.address = task[n].logic.address],
                          task[n].logic)
  /\ task' = [task EXCEPT ![n].at = "done"]
  /\ UNCHANGED <<created, implementation, script>>

-----------------------------------------------------------------------------
(* The scripts *)

(* createContract.ts and deploy.ts: one contract, as plain logic, behind a *)
(* new proxy or behind its present one.  createContractsE2E.ts: several,   *)
(* each behind a new proxy.  CommonSteps.deploy: several by                *)
(* deployProxyAndSave, the integration tests one or two.                   *)
Start(s, names) ==
  /\ script = "None"
  /\ s \in {"Logic", "Upgrade"} => \E n \in names : names = {n}
  /\ script' = s
  /\ task' = [n \in Names |->
                IF n \in names THEN [Idle(n) EXCEPT !.at = "deploy"] ELSE Idle(n)]
  /\ UNCHANGED <<records, created, implementation>>

(* The integration tests end with makeLatestDeploymentAsDefault. *)
Finish ==
  /\ script # "None"
  /\ \A n \in Names : task[n].at \in {"idle", "done"}
  /\ records' = IF script = "Test" THEN LatestAsDefault ELSE records
  /\ script' = "None"
  /\ task' = [n \in Names |-> Idle(n)]
  /\ UNCHANGED <<created, implementation>>

(* mergeContracts.ts *)
Merge ==
  /\ script = "None"
  /\ records' = LatestAsDefault
  /\ UNCHANGED <<created, implementation, script, task>>

Stop ==
  /\ script # "None"
  /\ script' = "None"
  /\ task' = [n \in Names |-> Idle(n)]
  /\ UNCHANGED <<records, created, implementation>>

Init ==
  /\ records = <<>>
  /\ created = 0
  /\ implementation = [c \in Contracts |-> None]
  /\ script = "None"
  /\ task = [n \in Names |-> Idle(n)]

TaskNext(n) ==
  \/ Deploy(n) \/ Add(n)
  \/ ReadLogic(n) \/ DeployProxyForGivenLogic(n) \/ LinkProxy(n)
  \/ ReadProxy(n) \/ UpgradeTo(n) \/ UpdateProxy(n)

Next ==
  \/ \E s \in Scripts, names \in SUBSET Names \ {{}} : Start(s, names)
  \/ \E n \in Names : TaskNext(n)
  \/ Finish \/ Merge \/ Stop

Spec == Init /\ [][Next]_vars

-----------------------------------------------------------------------------
(* Properties *)

Recorded(n) == {records[i].address : i \in RecordsOf(n)}

(* What the clients of a name believe can be trusted, or repaired: the     *)
(* proxy they find (Base.ts) runs the logic its record names, or an        *)
(* upgrade was stopped between the ledger and the file, and then the logic *)
(* it runs is still in the file, later than the proxy's record, where the  *)
(* next run of the scripts takes it from.                                  *)
ImplementationRecorded ==
  \A n \in Names : HasProxy(n) =>
    LET latest == GetContractWithProxy(n)
        runs == implementation[latest.proxy]
    IN  \/ runs = latest.address
        \/ \E i, j \in DOMAIN records :
             /\ i < j /\ records[i] = latest
             /\ records[j].name = n /\ records[j].address = runs

(* A task that has come to its end is what the clients see, whatever the   *)
(* tasks beside it wrote meanwhile: the proxy found for its name is the    *)
(* one it deployed or upgraded, with the logic it put there.               *)
DoneIsVisible ==
  \A n \in Names : At(n, "done") /\ script # "Logic" =>
    /\ HasProxy(n)
    /\ GetContractWithProxy(n).proxy = task[n].proxied.proxy
    /\ GetContractWithProxy(n).address = task[n].logic.address
    /\ implementation[task[n].proxied.proxy] = task[n].logic.address

(* Upgrades, new proxies and merges in any order never take the clients of *)
(* a name back to a proxy older than the one they have been using.         *)
ProxyNeverGoesBack ==
  [][\A n \in Names : HasProxy(n) /\ HasProxy(n)' =>
       GetContractWithProxy(n).proxy <= GetContractWithProxy(n)'.proxy]_vars

(* Only a merge forgets a deployed contract: the concurrent read-modify-   *)
(* writes of one script's tasks lose none of each other's.                 *)
NoDeploymentLost ==
  [][\/ \A n \in Names : Recorded(n) \subseteq Recorded(n)'
     \/ Merge \/ (Finish /\ script = "Test")]_vars
=============================================================================
