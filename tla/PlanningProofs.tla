--------------------------- MODULE PlanningProofs ----------------------------
(***************************************************************************)
(* What an offered plan means, for any host, package database, metadata,   *)
(* report of zypper and policy (UpdatePlanning).                           *)
(*                                                                         *)
(* The invariant says of each phase of the request what its results are:   *)
(* the copy exists, the facts are those of the host, the inventory is that *)
(* of the copy, the elements read and still to be read account for the     *)
(* transaction, and the vendors are those of the copy.                     *)
(***************************************************************************)
EXTENDS UpdatePlanning, FiniteSetTheorems, WellFoundedInduction, TLAPS

-----------------------------------------------------------------------------
(* The inductive invariant.                                                *)

Simulated == pc \notin {"rpmdb", "raw", "solv", "refresh", "refused"}
Read ==
    \/ pc \in {"solve", "report", "vendors", "evaluate", "offered"}
    \/ pc = "discover" /\ scenario.release
Solved == Read /\ pc # "solve"
Probed ==
    \/ pc \in {"report", "vendors", "evaluate", "offered"}
    \/ pc \in {"inventory", "solve"} /\ ~scenario.release

CopyPart ==
    /\ scenario \in Scenarios
    /\ rpmdbNow \in 1..Len(scenario.rpmdb) /\ metadataNow \in 1..Len(scenario.metadata)
    /\ copy \in [rpmdb: 0..rpmdbNow, repomd: 0..metadataNow, primary: 0..metadataNow,
                 solv: 0..metadataNow]
    /\ pc \notin {"rpmdb", "refused"} => copy.rpmdb # 0
    /\ Simulated \/ pc = "solv" => copy.repomd # 0 /\ copy.primary # 0
    /\ Simulated => copy.solv # 0
    /\ pc \in {"raw", "solv"} => ~scenario.release
    /\ pc = "refresh" => scenario.release
    /\ pc \in {"rpmdb", "raw", "solv", "refresh", "discover", "inventory", "solve", "report",
               "vendors", "evaluate", "offered", "refused"}

FactsPart ==
    /\ facts \subseteq {DiscoverHost(Host, Configured)}
    /\ facts # {} => Discoverable(Host, Configured)
    /\ Probed => facts # {}

InventoryPart ==
    /\ inventory \in [Names -> [version: 0..MaxVersion, vendors: Seq(Vendors)]]
    /\ Read => inventory = CopiedInventory

\* Whatever zypper would do is possible, and bears its own action.
TransactionPart ==
    /\ transaction \subseteq Changes /\ IsFiniteSet(transaction)
    /\ unread \subseteq [name: Names, section: Sections] /\ problems \in BOOLEAN
    /\ changes \subseteq Changes
    /\ ~Solved /\ pc # "refused" => transaction = {} /\ unread = {} /\ changes = {}
    /\ pc = "discover" => changes = {}
    /\ Solved => \A t \in transaction : t = ChangeOf(t.name, t.action) /\ t.action \in Possible(t.name)

\* An element to be read lists some change of the transaction: in its own
\* section, as a change of vendor, or, if the report is damaged, as the
\* opposite of what another element says or has said.
Accounted(e) ==
    \E t \in transaction :
        /\ t.name = e.name
        /\ \/ e.section \in {"other", OwnSection(t.action)}
           \/ e.section = "to-change-vendor" /\ t.action \in {"Upgrade", "Downgrade", "Reinstall"}
           \/ /\ e.section = "to-downgrade" /\ t.action = "Upgrade"
              /\ [name |-> e.name, section |-> "to-upgrade"] \in unread \/ t \in changes

\* A change that was read is one of the transaction, or may yet become one, or
\* will be contradicted.
Faithful(c) ==
    \E t \in transaction :
        /\ SameKey(c, t)
        /\ \/ c = t
           \/ c.action = "Reinstall" /\ t.action \in {"Upgrade", "Downgrade"}
           \/ /\ c.action = "Downgrade" /\ t.action = "Upgrade"
              /\ [name |-> c.name, section |-> "to-upgrade"] \in unread

ReportPart ==
    /\ Solved /\ pc \in {"discover", "report"} =>
          /\ \A e \in unread : Accounted(e)
          /\ \A c \in changes : Faithful(c)
          /\ \A c, d \in changes : SameKey(c, d) => c = d
    /\ pc = "vendors" => changes = transaction

\* The change an enriched change comes from, the headers of its vendors, and
\* the repository it is installed from.
VendorPart ==
    pc \in {"evaluate", "offered"} =>
        /\ {WithoutVendors(c) : c \in changes} = transaction
        /\ \A c \in changes :
              /\ c.current # 0 => SolvedRpmdb[c.name].version = c.current
              /\ c.current # 0 => SolvedRpmdb[c.name].vendors = <<c.current_vendor>>
              /\ c.proposed # 0 => SolvedMetadata[c.name].vendors = <<c.proposed_vendor>>
              /\ c.proposed # 0 => c.alias \in ValidAliases

Blockers ==
    EvaluateSolverPreflight(DiscoverHost(Host, Configured), ValidAliases, Summary, problems,
                            changes, scenario.policy)

OfferPart == Offered => Blockers = {}

PlanInvariant ==
    /\ CopyPart /\ FactsPart /\ InventoryPart /\ TransactionPart /\ ReportPart
    /\ VendorPart /\ OfferPart

-----------------------------------------------------------------------------
(* PROOFS of the types of scenarios, headers and changes.                  *)

\* What the assumption says of the request under way.
LEMMA RequestFields ==
    ASSUME CopyPart
    PROVE  /\ scenario \in Requests /\ MaxVersion \in Nat
           /\ scenario.host \in Hosts /\ scenario.host.available < MaxWord
           /\ scenario.alias \in Aliases /\ scenario.policy \in Policies
           /\ scenario.release \in BOOLEAN
           /\ scenario.rpmdb \in Seq(Databases) /\ scenario.metadata \in Seq(Databases)
           /\ Len(scenario.rpmdb) \in Nat /\ Len(scenario.metadata) \in Nat
  <1>1. scenario \in Requests /\ MaxVersion \in Nat /\ scenario.host.available < MaxWord
    BY PlanningAssumption DEF CopyPart
  <1>2. /\ scenario.host \in Hosts
        /\ scenario.alias \in Aliases /\ scenario.policy \in Policies
        /\ scenario.release \in BOOLEAN
        /\ scenario.rpmdb \in Seq(Databases) /\ scenario.metadata \in Seq(Databases)
    BY <1>1, Zenon DEF Requests
  <1> QED BY <1>1, <1>2

\* Once the copy is complete, what is solved are a package database and
\* metadata that have existed.
LEMMA SolvedTypes ==
    ASSUME CopyPart
    PROVE  /\ pc \notin {"rpmdb", "refused"} => SolvedRpmdb \in Databases
           /\ Simulated => /\ SolvedMetadata \in Databases
                           /\ scenario.metadata[copy.primary] \in Databases
  <1>0. /\ scenario.rpmdb \in Seq(Databases) /\ scenario.metadata \in Seq(Databases)
        /\ Len(scenario.rpmdb) \in Nat /\ Len(scenario.metadata) \in Nat
    BY RequestFields
  <1>1. /\ rpmdbNow \in 1..Len(scenario.rpmdb) /\ metadataNow \in 1..Len(scenario.metadata)
        /\ copy.rpmdb \in 0..rpmdbNow /\ copy.repomd \in 0..metadataNow
        /\ copy.primary \in 0..metadataNow
    BY DEF CopyPart
  <1>2. pc \notin {"rpmdb", "refused"} => copy.rpmdb \in 1..Len(scenario.rpmdb)
    BY <1>0, <1>1 DEF CopyPart
  <1>3. Simulated => /\ copy.repomd \in 1..Len(scenario.metadata)
                     /\ copy.primary \in 1..Len(scenario.metadata)
    BY <1>0, <1>1 DEF CopyPart
  <1> QED BY <1>0, <1>2, <1>3 DEF SolvedRpmdb, SolvedMetadata

\* The headers of a name, in either.
LEMMA HeaderFields ==
    ASSUME NEW d \in Databases, NEW n \in Names
    PROVE  d[n].version \in 0..MaxVersion /\ d[n].vendors \in Seq(Vendors)
  BY DEF Databases, Headers

\* Every section's change is well formed and has the fields of its action.
LEMMA ParseFields ==
    ASSUME NEW n \in Names, NEW s \in Sections, NEW old \in 0..MaxVersion,
           NEW new \in 0..MaxVersion, NEW a \in Aliases
    PROVE  LET c == ParseSolvable(n, s, old, new, a)
           IN  /\ c \in Changes
               /\ c.name = n /\ c.action = SectionAction(s)
               /\ c.current = (IF c.action = "Install" THEN 0 ELSE old)
               /\ c.proposed = (IF c.action = "Remove" THEN 0 ELSE new)
               /\ c.alias = (IF c.action = "Remove" THEN "blank" ELSE a)
               /\ c.current_vendor = "none" /\ c.proposed_vendor = "none"
  <1>1. SectionAction(s) \in Actions
    <2>1. DOMAIN PlainAction = {"to-install", "to-upgrade", "to-downgrade", "to-remove"}
      BY DEF PlainAction
    <2>2. /\ PlainAction["to-install"] = "Install" /\ PlainAction["to-upgrade"] = "Upgrade"
          /\ PlainAction["to-downgrade"] = "Downgrade" /\ PlainAction["to-remove"] = "Remove"
      BY DEF PlainAction
    <2> QED BY <2>1, <2>2 DEF SectionAction, Actions
  <1>2. MaxVersion \in Nat
    BY PlanningAssumption
  <1>3. 0 \in 0..MaxVersion /\ "blank" \in Aliases
    BY <1>2 DEF Aliases
  <1> QED BY <1>1, <1>3 DEF ParseSolvable, Changes

\* The section an action has of its own is read back as that action.
LEMMA OwnSectionAction ==
    ASSUME NEW a \in Actions
    PROVE  /\ OwnSection(a) \in Sections \ {"other", "to-change-vendor"}
           /\ SectionAction(OwnSection(a)) = a
           /\ OwnSection(a) = "to-upgrade" => a = "Upgrade"
           /\ OwnSection(a) = "to-downgrade" => a = "Downgrade"
  BY DEF Actions, OwnSection, Sections, SectionAction, PlainAction

\* So ChangeOf is a well-formed change with that action.
LEMMA ChangeFields ==
    ASSUME CopyPart, Simulated, NEW n \in Names, NEW a \in Actions
    PROVE  LET c == ChangeOf(n, a)
           IN  /\ c \in Changes /\ c.name = n /\ c.action = a
               /\ c.current = (IF a = "Install" THEN 0 ELSE SolvedRpmdb[n].version)
               /\ c.proposed = (IF a = "Remove" THEN 0 ELSE SolvedMetadata[n].version)
               /\ c.alias = (IF a = "Remove" THEN "blank" ELSE scenario.alias)
               /\ c.current_vendor = "none" /\ c.proposed_vendor = "none"
  <1>1. SolvedRpmdb[n].version \in 0..MaxVersion /\ SolvedMetadata[n].version \in 0..MaxVersion
    BY SolvedTypes, HeaderFields DEF Simulated
  <1>2. scenario.alias \in Aliases
    BY RequestFields
  <1>3. OwnSection(a) \in Sections /\ SectionAction(OwnSection(a)) = a
    BY OwnSectionAction
  <1> DEFINE c == ParseSolvable(n, OwnSection(a), SolvedRpmdb[n].version,
                                SolvedMetadata[n].version, scenario.alias)
  <1>4. /\ c \in Changes
        /\ c.name = n /\ c.action = SectionAction(OwnSection(a))
        /\ c.current = (IF c.action = "Install" THEN 0 ELSE SolvedRpmdb[n].version)
        /\ c.proposed = (IF c.action = "Remove" THEN 0 ELSE SolvedMetadata[n].version)
        /\ c.alias = (IF c.action = "Remove" THEN "blank" ELSE scenario.alias)
        /\ c.current_vendor = "none" /\ c.proposed_vendor = "none"
    BY <1>1, <1>2, <1>3, ParseFields
  <1> HIDE DEF c
  <1>5. ChangeOf(n, a) = c
    BY DEF ChangeOf, c
  <1> QED BY <1>3, <1>4, <1>5

-----------------------------------------------------------------------------
\* Each part survives a step that leaves what it speaks of alone and enters no
\* phase it requires more of.
LEMMA PlanFrame ==
    ASSUME PlanInvariant, UNCHANGED scenario
    PROVE  /\ UNCHANGED facts /\ (Probed' => Probed) => FactsPart'
           /\ UNCHANGED <<inventory, copy>> /\ (Read' => Read) => InventoryPart'
           /\ UNCHANGED <<report, changes, copy>> /\ (Solved' <=> Solved)
                 /\ (pc' = "discover" => pc = "discover") /\ (pc' # "refused" => pc # "refused")
                 => TransactionPart'
           /\ pc' \notin {"discover", "report", "vendors"} => ReportPart'
           /\ pc' \notin {"evaluate", "offered"} => VendorPart'
           /\ pc' # "offered" => OfferPart'
  <1> USE DEF PlanInvariant
  <1>1. UNCHANGED facts /\ (Probed' => Probed) => FactsPart'
    BY DEF FactsPart, Host, Configured
  <1>2. UNCHANGED <<inventory, copy>> /\ (Read' => Read) => InventoryPart'
    BY DEF InventoryPart, CopiedInventory
  <1>3. UNCHANGED <<report, changes, copy>> /\ (Solved' <=> Solved)
           /\ (pc' = "discover" => pc = "discover") /\ (pc' # "refused" => pc # "refused")
           => TransactionPart'
    BY DEF TransactionPart, report, ChangeOf, Possible, SolvedRpmdb, SolvedMetadata
  <1>4. pc' \notin {"discover", "report", "vendors"} => ReportPart'
    BY DEF ReportPart
  <1>5. pc' \notin {"evaluate", "offered"} => VendorPart'
    BY DEF VendorPart
  <1>6. pc' # "offered" => OfferPart'
    BY DEF OfferPart, Offered
  <1> QED BY <1>1, <1>2, <1>3, <1>4, <1>5, <1>6

-----------------------------------------------------------------------------
(* The copy, the host and the inventory.                                   *)

\* Other package managers change the live system, never the copy.
LEMMA EnvironmentStep ==
    ASSUME PlanInvariant, HostTransaction \/ HostRefresh
    PROVE  PlanInvariant'
  <1> USE DEF PlanInvariant
  <1>0. Len(scenario.rpmdb) \in Nat /\ Len(scenario.metadata) \in Nat
    BY RequestFields
  <1>1. UNCHANGED <<scenario, copy, facts, inventory, report, changes, pc>>
    BY DEF HostTransaction, HostRefresh
  <1>2. CopyPart'
    <2>1. /\ rpmdbNow' \in 1..Len(scenario.rpmdb) /\ metadataNow' \in 1..Len(scenario.metadata)
          /\ rpmdbNow' >= rpmdbNow /\ metadataNow' >= metadataNow
          /\ rpmdbNow \in Nat /\ metadataNow \in Nat
      BY <1>0 DEF HostTransaction, HostRefresh, CopyPart
    <2>2. /\ 0..rpmdbNow \subseteq 0..rpmdbNow' /\ 0..metadataNow \subseteq 0..metadataNow'
      BY <1>0, <2>1
    <2>3. copy \in [rpmdb: 0..rpmdbNow', repomd: 0..metadataNow', primary: 0..metadataNow',
                    solv: 0..metadataNow']
      BY <2>2 DEF CopyPart
    <2> QED BY <1>1, <2>1, <2>3 DEF CopyPart, Simulated
  <1>3. FactsPart' /\ InventoryPart' /\ TransactionPart'
    BY <1>1, PlanFrame DEF Probed, Read, Solved
  <1>4. ReportPart'
    BY <1>1 DEF ReportPart, Solved, Read, report, Accounted, Faithful
  <1>5. VendorPart'
    BY <1>1 DEF VendorPart, report, SolvedRpmdb, SolvedMetadata, ValidAliases, Configured
  <1>6. OfferPart'
    BY <1>1 DEF OfferPart, Offered, Blockers, Host, Configured, ValidAliases, Summary, report
  <1> QED BY <1>2, <1>3, <1>4, <1>5, <1>6

\* Simulation::new.
LEMMA SimulationStep ==
    ASSUME PlanInvariant,
           CopyRpmdb \/ CopyRaw("repomd") \/ CopyRaw("primary") \/ CopySolv \/ RefreshCopy
               \/ SimulationFails
    PROVE  PlanInvariant'
  <1> USE DEF PlanInvariant
  <1>0. UNCHANGED <<scenario, rpmdbNow, metadataNow, facts, inventory, report, changes>>
    BY DEF CopyRpmdb, CopyRaw, CopySolv, RefreshCopy, SimulationFails, environment
  <1>1. pc \in {"rpmdb", "raw", "solv", "refresh"}
    BY DEF CopyRpmdb, CopyRaw, CopySolv, RefreshCopy, SimulationFails
  <1>2. /\ pc' \in {"raw", "solv", "refresh", "discover", "inventory", "refused"}
        /\ pc' = "inventory" => scenario.release
        /\ pc' = "discover" => ~scenario.release
    BY DEF CopyRpmdb, CopyRaw, CopySolv, RefreshCopy, SimulationFails, Goto, Refused, CopyPart
  <1>3. CopyPart'
    <2>0. /\ rpmdbNow \in 1..Len(scenario.rpmdb) /\ metadataNow \in 1..Len(scenario.metadata)
          /\ Len(scenario.rpmdb) \in Nat /\ Len(scenario.metadata) \in Nat
          /\ rpmdbNow \in 0..rpmdbNow /\ metadataNow \in 0..metadataNow
          /\ rpmdbNow # 0 /\ metadataNow # 0
      BY RequestFields DEF CopyPart
    <2> DEFINE Copies == [rpmdb: 0..rpmdbNow, repomd: 0..metadataNow, primary: 0..metadataNow,
                          solv: 0..metadataNow]
    <2>c. copy \in Copies
      BY DEF CopyPart
    <2>1. CASE CopyRpmdb
      <3>1. copy' \in Copies /\ copy'.rpmdb # 0
        BY <2>0, <2>1, <2>c DEF CopyRpmdb
      <3>2. pc' = (IF scenario.release THEN "refresh" ELSE "raw")
        BY <2>1 DEF CopyRpmdb, Goto
      <3> QED BY <1>0, <3>1, <3>2 DEF CopyPart, Simulated
    <2>2. ASSUME NEW file \in {"repomd", "primary"}, CopyRaw(file) PROVE CopyPart'
      <3>1. copy' = [copy EXCEPT ![file] = metadataNow] /\ pc = "raw"
        BY <2>2 DEF CopyRaw
      <3>2. copy' \in Copies /\ copy'.rpmdb = copy.rpmdb
        BY <2>0, <2>2, <2>c, <3>1
      <3>3. pc' = (IF copy'.repomd # 0 /\ copy'.primary # 0 THEN "solv" ELSE "raw")
        BY <2>2 DEF CopyRaw, Goto
      <3> QED BY <1>0, <3>1, <3>2, <3>3 DEF CopyPart, Simulated
    <2>3. CASE CopySolv
      <3>1. /\ copy' \in Copies /\ copy'.rpmdb = copy.rpmdb /\ copy'.repomd = copy.repomd
            /\ copy'.primary = copy.primary /\ copy'.solv # 0
        BY <2>0, <2>3, <2>c DEF CopySolv
      <3> QED BY <1>0, <2>3, <3>1 DEF CopyPart, Simulated, CopySolv, Goto
    <2>4. CASE RefreshCopy
      <3>1. /\ copy' \in Copies /\ copy'.rpmdb = copy.rpmdb /\ copy'.repomd # 0
            /\ copy'.primary # 0 /\ copy'.solv # 0
        BY <2>0, <2>4, <2>c DEF RefreshCopy
      <3> QED BY <1>0, <2>4, <3>1 DEF CopyPart, Simulated, RefreshCopy, Goto
    <2>5. CASE SimulationFails
      BY <1>0, <2>5 DEF CopyPart, Simulated, SimulationFails, Refused, Goto
    <2> QED BY <2>1, <2>2, <2>3, <2>4, <2>5
  <1>4. ~Probed' /\ ~Read' /\ ~Read /\ ~Solved /\ ~Solved'
    BY <1>0, <1>1, <1>2 DEF Probed, Read, Solved
  <1>5. FactsPart'
    BY <1>0, <1>4, PlanFrame
  <1>6. InventoryPart'
    BY <1>0, <1>4 DEF InventoryPart
  <1>7. TransactionPart'
    BY <1>0, <1>1, <1>4 DEF TransactionPart, report
  <1>8. ReportPart' /\ VendorPart' /\ OfferPart'
    BY <1>2, <1>4 DEF ReportPart, VendorPart, OfferPart, Offered
  <1> QED BY <1>3, <1>5, <1>6, <1>7, <1>8

\* discover_host.
LEMMA DiscoverStep ==
    ASSUME PlanInvariant, Discover
    PROVE  PlanInvariant'
  <1> USE DEF PlanInvariant
  <1>0. /\ UNCHANGED <<scenario, rpmdbNow, metadataNow, copy, inventory, report, changes>>
        /\ pc = "discover"
    BY DEF Discover, environment
  <1>1. /\ pc' \in {"refused", "report", "inventory"}
        /\ pc' = "report" => scenario.release
        /\ pc' = "inventory" => ~scenario.release
    BY DEF Discover, Goto, Refused
  <1>2. CopyPart'
    BY <1>0, <1>1 DEF CopyPart, Simulated
  <1>3. FactsPart'
    <2>1. CASE Discoverable(Host, Configured)
      BY <1>0, <2>1 DEF Discover, FactsPart, Host, Configured
    <2>2. CASE ~Discoverable(Host, Configured)
      BY <1>0, <2>2, PlanFrame DEF Discover, Refused, Goto, Probed
    <2> QED BY <2>1, <2>2
  <1>4. (Read' => Read) /\ (Solved' => Solved)
    BY <1>0, <1>1 DEF Read, Solved
  <1>5. InventoryPart'
    BY <1>0, <1>4, PlanFrame
  <1>6. TransactionPart'
    <2>1. changes = {} /\ (pc' = "inventory" => transaction = {} /\ unread = {})
      BY <1>0, <1>1 DEF TransactionPart, Solved, Read
    <2> QED BY <1>0, <1>1, <1>4, <2>1
        DEF TransactionPart, report, Solved, Read, ChangeOf, Possible, SolvedRpmdb, SolvedMetadata
  <1>7. ReportPart'
    BY <1>0, <1>1, <1>4 DEF ReportPart, Solved, Read, report, Accounted, Faithful
  <1>8. VendorPart' /\ OfferPart'
    BY <1>0, <1>1, PlanFrame
  <1> QED BY <1>2, <1>3, <1>5, <1>6, <1>7, <1>8

\* installed_packages, in the copy.
LEMMA InventoryStep ==
    ASSUME PlanInvariant, ReadInventory
    PROVE  PlanInvariant'
  <1> USE DEF PlanInvariant
  <1>0. /\ UNCHANGED <<scenario, rpmdbNow, metadataNow, copy, facts, report, changes>>
        /\ pc = "inventory" /\ pc' \in {"solve", "refused"}
    BY DEF ReadInventory, environment, Goto, Refused
  <1>1. CopyPart'
    BY <1>0 DEF CopyPart, Simulated
  <1>2. FactsPart'
    BY <1>0, PlanFrame DEF Probed
  <1>3. InventoryPart'
    <2>1. CopiedInventory \in [Names -> [version: 0..MaxVersion, vendors: Seq(Vendors)]]
      BY <1>0, SolvedTypes DEF SolvedRpmdb, CopiedInventory, Databases, Headers
    <2>2. pc' = "refused" => UNCHANGED inventory
      BY <1>0 DEF ReadInventory, Goto
    <2>3. pc' = "solve" => inventory' = CopiedInventory
      BY <1>0 DEF ReadInventory, Refused, Goto
    <2>4. CopiedInventory' = CopiedInventory
      BY <1>0 DEF CopiedInventory
    <2> QED BY <1>0, <2>1, <2>2, <2>3, <2>4 DEF InventoryPart, Read
  <1>4. TransactionPart'
    BY <1>0, PlanFrame DEF Solved, Read
  <1>5. ReportPart' /\ VendorPart' /\ OfferPart'
    BY <1>0, PlanFrame
  <1> QED BY <1>1, <1>2, <1>3, <1>4, <1>5

-----------------------------------------------------------------------------
(* zypper's dry run and its report.                                        *)

\* The dry run: whatever the solver decides and wherever the report lists it.
LEMMA SolveStep ==
    ASSUME PlanInvariant, Solve \/ SolverFails
    PROVE  PlanInvariant'
  <1> USE DEF PlanInvariant
  <1>0. /\ UNCHANGED <<scenario, rpmdbNow, metadataNow, copy, facts, inventory, changes>>
        /\ pc = "solve" /\ pc' \in {"discover", "report", "refused"}
        /\ pc' = "discover" => scenario.release
        /\ pc' = "report" => ~scenario.release
    BY DEF Solve, SolverFails, environment, Goto, Refused
  <1>1. CopyPart' /\ CopyPart /\ Simulated
    BY <1>0 DEF CopyPart, Simulated
  <1>2. FactsPart'
    BY <1>0, PlanFrame DEF Probed
  <1>3. InventoryPart'
    BY <1>0, PlanFrame DEF Read
  <1>4. changes = {} /\ ~Solved
    BY <1>0 DEF TransactionPart, Solved, Read
  <1>5. CASE SolverFails
    <2>1. UNCHANGED report /\ pc' = "refused"
      BY <1>5 DEF SolverFails, Refused, Goto
    <2>2. TransactionPart'
      BY <1>0, <1>4, <2>1, PlanFrame DEF Solved, Read
    <2> QED BY <1>0, <1>1, <1>2, <1>3, <2>1, <2>2, PlanFrame
  <1>6. CASE Solve
    <2>a. PICK affected \in SUBSET {n \in Names : Possible(n) # {}} :
             \E action \in [affected -> Actions] :
                /\ \A n \in affected : action[n] \in Possible(n)
                /\ \E listing \in [affected -> SUBSET Sections] :
                      /\ \A n \in affected : listing[n] \in Listings(action[n])
                      /\ unread' = UNION {{[name |-> n, section |-> s] : s \in listing[n]} :
                                             n \in affected}
                /\ transaction' = {ChangeOf(n, action[n]) : n \in affected}
      BY <1>6 DEF Solve
    <2>1. PICK action \in [affected -> Actions] :
             /\ \A n \in affected : action[n] \in Possible(n)
             /\ \E listing \in [affected -> SUBSET Sections] :
                   /\ \A n \in affected : listing[n] \in Listings(action[n])
                   /\ unread' = UNION {{[name |-> n, section |-> s] : s \in listing[n]} :
                                          n \in affected}
             /\ transaction' = {ChangeOf(n, action[n]) : n \in affected}
      BY <2>a
    <2>2. PICK listing \in [affected -> SUBSET Sections] :
             /\ \A n \in affected : listing[n] \in Listings(action[n])
             /\ unread' = UNION {{[name |-> n, section |-> s] : s \in listing[n]} :
                                    n \in affected}
      BY <2>1
    <2>3. pc' \in {"discover", "report"} /\ problems' \in BOOLEAN
      BY <1>6 DEF Solve, Goto
    <2>4. \A n \in affected : n \in Names /\ action[n] \in Actions
      BY <2>1
    <2>5. \A n \in affected :
             /\ ChangeOf(n, action[n]) \in Changes
             /\ ChangeOf(n, action[n]).name = n /\ ChangeOf(n, action[n]).action = action[n]
      BY <1>1, <2>4, ChangeFields
    <2>6. IsFiniteSet(transaction')
      <3> DEFINE f == [n \in affected |-> ChangeOf(n, action[n])]
      <3>1. f \in Surjection(affected, transaction')
        BY <2>1 DEF Surjection
      <3>2. IsFiniteSet(affected)
        BY <2>1, PlanningAssumption, FS_Subset
      <3> QED BY <3>1, <3>2, FS_Surjection
    <2>7. \A n, a : ChangeOf(n, a)' = ChangeOf(n, a)
      BY <1>0 DEF ChangeOf, SolvedRpmdb, SolvedMetadata
    <2>8. \A n : Possible(n)' = Possible(n)
      BY <1>0 DEF Possible, SolvedRpmdb, SolvedMetadata
    <2>9. Solved'
      BY <1>0, <2>3 DEF Solved, Read
    <2>10. TransactionPart'
      <3>1. transaction' \subseteq Changes
        BY <2>1, <2>5
      <3>2. unread' \subseteq [name: Names, section: Sections]
        BY <2>2, <2>4
      <3>3. ASSUME NEW t \in transaction'
            PROVE  t = ChangeOf(t.name, t.action)' /\ t.action \in Possible(t.name)'
        <4>1. PICK n \in affected : t = ChangeOf(n, action[n])
          BY <2>1
        <4>2. t.name = n /\ t.action = action[n]
          BY <2>5, <4>1
        <4> QED BY <2>1, <2>7, <2>8, <4>1, <4>2
      <3> QED BY <1>0, <1>4, <2>3, <2>6, <2>9, <3>1, <3>2, <3>3 DEF TransactionPart
    <2>11. ASSUME NEW e \in unread' PROVE Accounted(e)'
      <3>0. PICK n \in affected : e \in {[name |-> n, section |-> s] : s \in listing[n]}
        BY <2>2
      <3>1. PICK s \in listing[n] : e = [name |-> n, section |-> s]
        BY <3>0
      <3> DEFINE t == ChangeOf(n, action[n])
      <3>2. t \in transaction' /\ t.name = n /\ t.action = action[n]
        BY <2>1, <2>5
      <3>3. listing[n] \in Listings(action[n]) /\ s \in listing[n]
        BY <2>2, <3>1
      <3> HIDE DEF t
      <3>4. \/ s \in {"other", OwnSection(action[n])}
            \/ s = "to-change-vendor" /\ action[n] \in {"Upgrade", "Downgrade", "Reinstall"}
            \/ /\ s = "to-downgrade" /\ action[n] = "Upgrade"
               /\ "to-upgrade" \in listing[n]
        <4>1. OwnSection("Upgrade") = "to-upgrade"
          BY DEF OwnSection
        <4> QED BY <3>3, <4>1 DEF Listings
      <3>5. "to-upgrade" \in listing[n] => [name |-> n, section |-> "to-upgrade"] \in unread'
        BY <2>2
      <3> QED BY <3>1, <3>2, <3>4, <3>5 DEF Accounted
    <2>12. ReportPart'
      BY <1>0, <1>4, <2>3, <2>11 DEF ReportPart
    <2>13. VendorPart' /\ OfferPart'
      BY <1>0, PlanFrame
    <2> QED BY <1>1, <1>2, <1>3, <2>10, <2>12, <2>13
  <1> QED BY <1>5, <1>6

OnePerKey(C) == \A c, d \in C : SameKey(c, d) => c = d

\* Merging a change that conflicts with nothing keeps one change per key, keeps
\* every change that is not a reinstallation, and leaves the new one's action.
LEMMA MergeKeeps ==
    ASSUME NEW C, NEW c, OnePerKey(C), ~Conflicts(C, c)
    PROVE  /\ Merge(C, c) \subseteq C \cup {c}
           /\ OnePerKey(Merge(C, c))
           /\ \A d \in C : d.action # "Reinstall" => d \in Merge(C, c)
           /\ c.action # "Reinstall" =>
                 \E d \in Merge(C, c) : SameKey(c, d) /\ d.action = c.action
  <1> DEFINE same == {d \in C : SameKey(c, d)}
  <1>k. /\ \A x, y : SameKey(x, y) => SameKey(y, x)
        /\ \A x, y, z : SameKey(x, y) /\ SameKey(y, z) => SameKey(x, z)
        /\ \A x : SameKey(x, x)
    BY DEF SameKey
  <1>1. CASE same = {}
    <2>1. Merge(C, c) = C \cup {c}
      BY <1>1 DEF Merge
    <2> QED BY <1>1, <1>k, <2>1 DEF OnePerKey
  <1>2. CASE \E r \in same : r.action = "Reinstall"
    <2>0. PICK r \in same : r.action = "Reinstall"
      BY <1>2
    <2>1. Merge(C, c) = (C \ same) \cup {c}
      BY <1>2 DEF Merge
    <2>2. same = {r}
      BY <2>0, <1>k DEF OnePerKey
    <2> QED BY <2>0, <1>k, <2>1, <2>2 DEF OnePerKey
  <1>3. CASE same # {} /\ \A d \in same : d.action # "Reinstall"
    <2>1. Merge(C, c) = C
      BY <1>3 DEF Merge
    <2> QED BY <1>3, <2>1 DEF Conflicts
  <1> QED BY <1>1, <1>2, <1>3

\* parse_solvable depends on the section only through its action.
LEMMA ParseByAction ==
    ASSUME NEW n, NEW s1, NEW s2, NEW old, NEW new, NEW a,
           SectionAction(s1) = SectionAction(s2)
    PROVE  ParseSolvable(n, s1, old, new, a) = ParseSolvable(n, s2, old, new, a)
  BY DEF ParseSolvable

\* One element of the report.
LEMMA ReadStep ==
    ASSUME PlanInvariant, NEW e \in unread, ReadSolvable(e)
    PROVE  PlanInvariant'
  <1> USE DEF PlanInvariant
  <1> DEFINE c == ParseSolvable(e.name, e.section, SolvedRpmdb[e.name].version,
                                SolvedMetadata[e.name].version, scenario.alias)
             up(n) == [name |-> n, section |-> "to-upgrade"]
  <1>0. /\ UNCHANGED <<scenario, rpmdbNow, metadataNow, copy, facts, inventory, transaction, problems>>
        /\ pc = "report" /\ pc' \in {"report", "refused"} /\ unread' = unread \ {e}
    BY DEF ReadSolvable, environment, Refused, Goto
  <1>1. CopyPart' /\ CopyPart /\ Simulated /\ Solved
    BY <1>0 DEF CopyPart, Simulated, Solved, Read
  <1>2. FactsPart' /\ InventoryPart'
    BY <1>0, PlanFrame DEF Probed, Read
  <1>3. VendorPart' /\ OfferPart'
    BY <1>0, PlanFrame
  <1>4. /\ \A x \in unread : Accounted(x)
        /\ \A d \in changes : Faithful(d)
        /\ OnePerKey(changes)
    BY <1>0, <1>1 DEF ReportPart, OnePerKey
  <1>5. /\ \A t \in transaction : /\ t = ChangeOf(t.name, t.action) /\ t.name \in Names
                                  /\ t.action \in Actions
        /\ e.name \in Names /\ e.section \in Sections
    BY <1>1 DEF TransactionPart, Changes
  <1>6. /\ \A n, a : ChangeOf(n, a)' = ChangeOf(n, a)
        /\ \A n : Possible(n)' = Possible(n)
    BY <1>0 DEF ChangeOf, Possible, SolvedRpmdb, SolvedMetadata
  <1>7. changes' \subseteq Changes => TransactionPart'
    <2>1. changes' \subseteq Changes /\ pc' = "report" => TransactionPart'
      BY <1>0, <1>1, <1>6 DEF TransactionPart, Solved, Read
    <2>2. changes' \subseteq Changes /\ pc' = "refused" => TransactionPart'
      BY <1>0 DEF TransactionPart, Solved, Read
    <2> QED BY <1>0, <2>1, <2>2
  <1>8. /\ c \in Changes /\ c.name = e.name /\ c.action = SectionAction(e.section)
        /\ c.current = (IF c.action = "Install" THEN 0 ELSE SolvedRpmdb[e.name].version)
        /\ c.proposed = (IF c.action = "Remove" THEN 0 ELSE SolvedMetadata[e.name].version)
        /\ c.alias = (IF c.action = "Remove" THEN "blank" ELSE scenario.alias)
    <2>1. /\ SolvedRpmdb[e.name].version \in 0..MaxVersion
          /\ SolvedMetadata[e.name].version \in 0..MaxVersion
      BY <1>1, <1>5, SolvedTypes, HeaderFields DEF Simulated
    <2> QED BY <1>1, <1>5, <2>1, ParseFields, RequestFields
  \* What another section with the same action would have said.
  <1>9. \A a \in Actions : SectionAction(e.section) = a => c = ChangeOf(e.name, a)
    BY OwnSectionAction, ParseByAction DEF ChangeOf
  <1> HIDE DEF c
  <1>10. CASE e.section = "other"
    <2>1. UNCHANGED <<changes, pc>>
      BY <1>10 DEF ReadSolvable
    <2>2. TransactionPart'
      BY <1>7, <2>1 DEF TransactionPart
    <2>3. \A n : up(n) \in unread => up(n) \in unread'
      BY <1>0, <1>10
    <2>4. \A x \in unread' : Accounted(x)'
      BY <1>0, <1>4, <2>1, <2>3 DEF Accounted
    <2>5. \A d \in changes' : Faithful(d)'
      BY <1>0, <1>4, <2>1, <2>3 DEF Faithful
    <2>6. ReportPart'
      BY <1>0, <1>4, <2>1, <2>4, <2>5 DEF ReportPart, OnePerKey
    <2> QED BY <1>1, <1>2, <1>3, <2>2, <2>6
  <1>11. CASE e.section # "other" /\ Conflicts(changes, c)
    <2>1. UNCHANGED changes /\ pc' = "refused"
      BY <1>11 DEF ReadSolvable, Refused, Goto, c
    <2>2. TransactionPart'
      BY <1>7, <2>1 DEF TransactionPart
    <2> QED BY <1>0, <1>1, <1>2, <1>3, <2>1, <2>2, PlanFrame
  <1>12. CASE e.section # "other" /\ ~Conflicts(changes, c)
    <2>1. changes' = Merge(changes, c) /\ pc' = "report"
      BY <1>0, <1>12 DEF ReadSolvable, c
    <2>2. /\ changes' \subseteq changes \cup {c} /\ OnePerKey(changes')
          /\ \A d \in changes : d.action # "Reinstall" => d \in changes'
          /\ c.action # "Reinstall" => \E d \in changes' : SameKey(c, d) /\ d.action = c.action
      BY <1>4, <1>12, <2>1, MergeKeeps
    <2>3. TransactionPart'
      BY <1>7, <1>8, <2>2 DEF TransactionPart
    \* If this element was the listing some other one is checked against, its
    \* change is the upgrade in question.
    <2>4. ASSUME NEW t \in transaction, t.action = "Upgrade", e = up(t.name)
          PROVE  c = t /\ c.action = "Upgrade"
      <3>1. SectionAction(e.section) = "Upgrade" /\ e.name = t.name
        BY <2>4 DEF SectionAction, PlainAction
      <3> QED BY <1>5, <1>9, <2>4, <3>1 DEF Actions
    <2>5. ASSUME NEW d \in changes' PROVE Faithful(d)'
      <3>1. CASE d \in changes
        <4>1. PICK t \in transaction :
                /\ SameKey(d, t)
                /\ \/ d = t
                   \/ d.action = "Reinstall" /\ t.action \in {"Upgrade", "Downgrade"}
                   \/ d.action = "Downgrade" /\ t.action = "Upgrade" /\ up(d.name) \in unread
          BY <1>4, <3>1 DEF Faithful
        <4>2. ASSUME d.action = "Downgrade", t.action = "Upgrade" PROVE up(d.name) # e
          <5> SUFFICES ASSUME up(d.name) = e PROVE FALSE
            OBVIOUS
          <5>1. c = t /\ c.action = "Upgrade"
            BY <2>4, <4>1, <4>2 DEF SameKey
          <5>2. SameKey(c, d)
            BY <4>1, <5>1 DEF SameKey
          <5> QED BY <1>12, <3>1, <4>2, <5>1, <5>2 DEF Conflicts
        <4> QED BY <1>0, <4>1, <4>2 DEF Faithful
      <3>2. CASE d = c
        <4>1. PICK t \in transaction :
                /\ t.name = e.name
                /\ \/ e.section = OwnSection(t.action)
                   \/ e.section = "to-change-vendor" /\ t.action \in {"Upgrade", "Downgrade", "Reinstall"}
                   \/ /\ e.section = "to-downgrade" /\ t.action = "Upgrade"
                      /\ up(e.name) \in unread \/ t \in changes
          BY <1>4, <1>12 DEF Accounted
        <4>2. /\ t.current = (IF t.action = "Install" THEN 0 ELSE SolvedRpmdb[e.name].version)
              /\ t.proposed = (IF t.action = "Remove" THEN 0 ELSE SolvedMetadata[e.name].version)
              /\ t.alias = (IF t.action = "Remove" THEN "blank" ELSE scenario.alias)
          BY <1>1, <1>5, <4>1, ChangeFields
        <4>3. CASE e.section = OwnSection(t.action)
          <5>1. c = t
            BY <1>5, <1>9, <4>1, <4>3, OwnSectionAction
          <5> QED BY <1>0, <3>2, <5>1 DEF Faithful, SameKey
        <4>4. CASE e.section = "to-change-vendor" /\ t.action \in {"Upgrade", "Downgrade", "Reinstall"}
          <5>1. c.action = "Reinstall"
            BY <1>8, <4>4 DEF SectionAction, PlainAction
          <5>2. SameKey(c, t)
            BY <1>8, <4>1, <4>2, <4>4, <5>1 DEF SameKey
          <5>3. t.action = "Reinstall" => c = t
            BY <1>5, <1>8, <1>9, <4>1, <5>1 DEF Actions
          <5> QED BY <1>0, <3>2, <4>4, <5>1, <5>2, <5>3 DEF Faithful
        <4>5. CASE /\ e.section = "to-downgrade" /\ t.action = "Upgrade"
                   /\ up(e.name) \in unread \/ t \in changes
          <5>1. c.action = "Downgrade"
            BY <1>8, <4>5 DEF SectionAction, PlainAction
          <5>2. SameKey(c, t)
            BY <1>8, <4>1, <4>2, <4>5, <5>1 DEF SameKey
          <5>3. t \notin changes
            BY <1>12, <4>5, <5>1, <5>2 DEF Conflicts
          <5>4. up(e.name) \in unread'
            BY <1>0, <4>5, <5>3
          <5> QED BY <1>0, <1>8, <3>2, <4>5, <5>1, <5>2, <5>4 DEF Faithful
        <4> QED BY <4>1, <4>3, <4>4, <4>5
      <3> QED BY <2>2, <3>1, <3>2
    <2>6. ASSUME NEW x \in unread' PROVE Accounted(x)'
      <3>1. PICK t \in transaction :
              /\ t.name = x.name
              /\ \/ x.section \in {"other", OwnSection(t.action)}
                 \/ x.section = "to-change-vendor" /\ t.action \in {"Upgrade", "Downgrade", "Reinstall"}
                 \/ /\ x.section = "to-downgrade" /\ t.action = "Upgrade"
                    /\ up(x.name) \in unread \/ t \in changes
        BY <1>0, <1>4 DEF Accounted
      <3>2. ASSUME t.action = "Upgrade", up(x.name) \in unread \/ t \in changes
            PROVE  up(x.name) \in unread' \/ t \in changes'
        <4>1. CASE t \in changes
          BY <2>2, <3>2, <4>1
        <4>2. CASE up(x.name) \in unread /\ up(x.name) # e
          BY <1>0, <4>2
        <4>3. CASE up(x.name) = e
          <5>1. c = t /\ c.action = "Upgrade"
            BY <2>4, <3>1, <3>2, <4>3
          <5>2. PICK d \in changes' : SameKey(c, d) /\ d.action = "Upgrade"
            BY <2>2, <5>1
          <5>3. CASE d \in changes
            <6>1. d \in transaction
              BY <1>4, <5>2, <5>3 DEF Faithful
            <6>2. d = ChangeOf(d.name, "Upgrade") /\ t = ChangeOf(t.name, "Upgrade")
              BY <1>5, <3>2, <5>2, <6>1
            <6>3. d.name = t.name
              BY <5>1, <5>2 DEF SameKey
            <6> QED BY <5>2, <6>2, <6>3
          <5>4. CASE d = c
            BY <5>1, <5>2, <5>4
          <5> QED BY <2>2, <5>2, <5>3, <5>4
        <4> QED BY <3>2, <4>1, <4>2, <4>3
      <3> QED BY <1>0, <3>1, <3>2 DEF Accounted
    <2>7. ReportPart'
      BY <2>1, <2>2, <2>5, <2>6 DEF ReportPart, OnePerKey
    <2> QED BY <1>1, <1>2, <1>3, <2>3, <2>7
  <1> QED BY <1>10, <1>11, <1>12

\* The end of the report: with nothing left to contradict a change, the count
\* of the summary and the versions of reinstallations leave the transaction.
LEMMA ReportStep ==
    ASSUME PlanInvariant, EndReport
    PROVE  PlanInvariant'
  <1> USE DEF PlanInvariant
  <1>0. /\ UNCHANGED <<scenario, rpmdbNow, metadataNow, copy, facts, inventory, report, changes>>
        /\ pc = "report" /\ pc' \in {"vendors", "refused"} /\ unread = {}
        /\ pc' = "vendors" => SummaryMatches(changes, Summary)
    BY DEF EndReport, environment, Goto
  <1>1. CopyPart' /\ CopyPart /\ Simulated /\ Solved
    BY <1>0 DEF CopyPart, Simulated, Solved, Read
  <1>2. FactsPart' /\ InventoryPart' /\ VendorPart' /\ OfferPart'
    BY <1>0, PlanFrame DEF Probed, Read
  <1>3. TransactionPart'
    <2>1. /\ \A n, a : ChangeOf(n, a)' = ChangeOf(n, a)
          /\ \A n : Possible(n)' = Possible(n)
      BY <1>0 DEF ChangeOf, Possible, SolvedRpmdb, SolvedMetadata
    <2>2. pc' = "vendors" => TransactionPart'
      BY <1>0, <1>1, <2>1 DEF TransactionPart, Solved, Read, report
    <2>3. pc' = "refused" => TransactionPart'
      BY <1>0 DEF TransactionPart, Solved, Read, report
    <2> QED BY <1>0, <2>2, <2>3
  <1>4. ASSUME pc' = "vendors" PROVE changes = transaction
    <2>1. /\ Cardinality(changes) = Cardinality(transaction)
          /\ \A c \in changes : c.action = "Reinstall" => c.current = c.proposed
      BY <1>0, <1>4 DEF SummaryMatches, Summary
    <2>2. ASSUME NEW c \in changes PROVE c \in transaction
      <3>1. PICK t \in transaction :
              /\ SameKey(c, t)
              /\ \/ c = t
                 \/ c.action = "Reinstall" /\ t.action \in {"Upgrade", "Downgrade"}
        <4>1. Faithful(c)
          BY <1>0, <1>1 DEF ReportPart
        <4> QED BY <1>0, <4>1 DEF Faithful
      <3>2. ASSUME c.action = "Reinstall", t.action \in {"Upgrade", "Downgrade"} PROVE FALSE
        <4>1. t.name \in Names /\ t.action \in Actions /\ t = ChangeOf(t.name, t.action)
          BY <1>1 DEF TransactionPart, Changes
        <4>2. t.current = SolvedRpmdb[t.name].version /\ t.proposed = SolvedMetadata[t.name].version
          BY <1>1, <3>2, <4>1, ChangeFields
        <4>3. t.current = t.proposed
          BY <2>1, <3>1, <3>2 DEF SameKey
        <4>4. t.action \in Possible(t.name)
          BY <1>1 DEF TransactionPart
        <4>5. /\ SolvedRpmdb[t.name].version \in Nat /\ SolvedMetadata[t.name].version \in Nat
          BY <1>1, <4>1, SolvedTypes, HeaderFields DEF Simulated
        <4>6. CASE t.action = "Upgrade"
          BY <4>2, <4>3, <4>4, <4>5, <4>6 DEF Possible
        <4>7. CASE t.action = "Downgrade"
          BY <4>2, <4>3, <4>4, <4>5, <4>7 DEF Possible
        <4> QED BY <3>2, <4>6, <4>7
      <3> QED BY <3>1, <3>2
    <2> QED BY <2>1, <2>2, FS_Subset DEF TransactionPart
  <1>5. ReportPart'
    BY <1>0, <1>4 DEF ReportPart, report
  <1> QED BY <1>1, <1>2, <1>3, <1>5

-----------------------------------------------------------------------------
(* The vendors and the verdict.                                            *)

\* lookup finds the only header of the identity, or nothing.
LEMMA LookupFinds ==
    ASSUME NEW h, NEW version, h.vendors \in Seq(Vendors), NEW v \in Lookup(h, version)
    PROVE  h.version = version /\ h.vendors = <<v>> /\ v \in Vendors
  BY DEF Lookup, ValidVendor

\* enrich_from_rpm_xml.
LEMMA VendorStep ==
    ASSUME PlanInvariant, LookUpVendors
    PROVE  PlanInvariant'
  <1> USE DEF PlanInvariant
  <1> DEFINE old == SolvedRpmdb
             new == scenario.metadata[copy.primary]
  <1>0. /\ UNCHANGED <<scenario, rpmdbNow, metadataNow, copy, facts, inventory, report>>
        /\ pc = "vendors" /\ pc' \in {"evaluate", "refused"}
        /\ pc' = "refused" => UNCHANGED changes
        /\ pc' = "evaluate" =>
              /\ (\E c \in changes : c.action # "Remove") => PrimaryVerified
              /\ Enrichable(changes, ValidAliases, old, new)
              /\ changes' = Enrich(changes, old, new)
    BY DEF LookUpVendors, environment, Goto, Refused
  <1>1. CopyPart' /\ CopyPart /\ Simulated /\ Solved
    BY <1>0 DEF CopyPart, Simulated, Solved, Read
  <1>2. FactsPart' /\ InventoryPart' /\ ReportPart' /\ OfferPart'
    BY <1>0, PlanFrame DEF Probed, Read
  <1>3. /\ \A n, a : ChangeOf(n, a)' = ChangeOf(n, a)
        /\ \A n : Possible(n)' = Possible(n)
    BY <1>0 DEF ChangeOf, Possible, SolvedRpmdb, SolvedMetadata
  <1>4. CASE pc' = "refused"
    <2>1. TransactionPart'
      BY <1>0, <1>4 DEF TransactionPart, Solved, Read, report
    <2> QED BY <1>0, <1>1, <1>2, <1>4, <2>1, PlanFrame
  <1>5. CASE pc' = "evaluate"
    <2>0. changes = transaction
      BY <1>0 DEF ReportPart
    <2>1. old \in Databases /\ new \in Databases /\ SolvedMetadata \in Databases
      BY <1>1, SolvedTypes DEF Simulated
    <2>2. /\ changes' = Enrich(transaction, old, new)
          /\ Enrichable(transaction, ValidAliases, old, new)
          /\ (\E c \in transaction : c.action # "Remove") => PrimaryVerified
      BY <1>0, <1>5, <2>0
    <2> DEFINE Cur(t) == CHOOSE v \in CurrentVendor(t, old) : TRUE
               Pro(t) == CHOOSE v \in ProposedVendor(t, new) : TRUE
               Full(t) == [t EXCEPT !.current_vendor = Cur(t), !.proposed_vendor = Pro(t)]
    <2>3. changes' = {Full(t) : t \in transaction}
      BY <2>2 DEF Enrich
    <2>4. \A t \in transaction : Cur(t) \in CurrentVendor(t, old) /\ Pro(t) \in ProposedVendor(t, new)
      BY <2>2 DEF Enrichable
    <2> HIDE DEF Cur, Pro
    <2>5. ASSUME NEW t \in transaction
          PROVE  /\ Full(t) \in Changes /\ WithoutVendors(Full(t)) = t
                 /\ t.current # 0 => /\ old[t.name].version = t.current
                                     /\ old[t.name].vendors = <<Cur(t)>>
                 /\ t.proposed # 0 => SolvedMetadata[t.name].vendors = <<Pro(t)>>
                 /\ t.proposed # 0 => t.alias \in ValidAliases
                 /\ Full(t).name = t.name /\ Full(t).current = t.current
                 /\ Full(t).proposed = t.proposed /\ Full(t).alias = t.alias
                 /\ Full(t).current_vendor = Cur(t) /\ Full(t).proposed_vendor = Pro(t)
      <3>1. /\ t \in Changes /\ t.name \in Names /\ t.action \in Actions
            /\ t = ChangeOf(t.name, t.action)
        BY <1>1 DEF TransactionPart, Changes
      <3>2. /\ t.current = (IF t.action = "Install" THEN 0 ELSE SolvedRpmdb[t.name].version)
            /\ t.proposed = (IF t.action = "Remove" THEN 0 ELSE SolvedMetadata[t.name].version)
            /\ t.current_vendor = "none" /\ t.proposed_vendor = "none"
        BY <1>1, <3>1, ChangeFields
      <3>3. old[t.name].vendors \in Seq(Vendors) /\ new[t.name].vendors \in Seq(Vendors)
        BY <2>1, <3>1, HeaderFields
      <3>4. t.action # "Install" =>
               /\ old[t.name].version = t.current /\ old[t.name].vendors = <<Cur(t)>>
               /\ Cur(t) \in Vendors
        BY <2>4, <3>3, LookupFinds DEF CurrentVendor
      <3>5. t.action # "Remove" => new[t.name].vendors = <<Pro(t)>> /\ Pro(t) \in Vendors
        BY <2>4, <3>3, LookupFinds DEF ProposedVendor
      <3>6. t.action # "Remove" => SolvedMetadata = new
        BY <2>2 DEF PrimaryVerified, SolvedMetadata
      <3>7. Cur(t) \in Vendors \cup {"none"} /\ Pro(t) \in Vendors \cup {"none"}
        BY <2>4, <3>4, <3>5 DEF CurrentVendor, ProposedVendor
      <3>8. /\ Full(t) \in Changes /\ WithoutVendors(Full(t)) = t
            /\ Full(t).name = t.name /\ Full(t).current = t.current
            /\ Full(t).proposed = t.proposed /\ Full(t).alias = t.alias
            /\ Full(t).current_vendor = Cur(t) /\ Full(t).proposed_vendor = Pro(t)
        <4>1. PICK v \in Vendors \cup {"none"}, w \in Vendors \cup {"none"} :
                 v = Cur(t) /\ w = Pro(t)
          BY <3>7
        <4>2. Full(t) = [t EXCEPT !.current_vendor = v, !.proposed_vendor = w]
          BY <4>1
        <4>3. t \in Changes /\ t.current_vendor = "none" /\ t.proposed_vendor = "none"
          BY <3>1, <3>2
        <4> HIDE DEF Full
        <4>4. PICK c : c = Full(t)
          OBVIOUS
        <4>5. c = [t EXCEPT !.current_vendor = v, !.proposed_vendor = w]
          BY <4>2, <4>4
        <4>6. /\ c \in Changes /\ WithoutVendors(c) = t
              /\ c.name = t.name /\ c.current = t.current /\ c.proposed = t.proposed
              /\ c.alias = t.alias /\ c.current_vendor = v /\ c.proposed_vendor = w
          BY <4>1, <4>3, <4>5 DEF WithoutVendors, Changes
        <4> QED BY <4>1, <4>4, <4>6
      <3>9. t.proposed # 0 => t.alias \in ValidAliases
        BY <2>2, <3>2 DEF Enrichable
      <3> HIDE DEF Full
      <3> QED BY <3>2, <3>4, <3>5, <3>6, <3>8, <3>9
    <2> HIDE DEF Full
    <2>6. TransactionPart'
      <3>1. changes' \subseteq Changes
        BY <2>3, <2>5
      <3> QED BY <1>0, <1>1, <1>3, <1>5, <3>1 DEF TransactionPart, Solved, Read, report
    <2>7. VendorPart'
      <3>1. {WithoutVendors(c) : c \in changes'} = transaction
        BY <2>3, <2>5
      <3>2. /\ SolvedRpmdb' = SolvedRpmdb /\ SolvedMetadata' = SolvedMetadata
            /\ ValidAliases' = ValidAliases
        BY <1>0 DEF SolvedRpmdb, SolvedMetadata, ValidAliases, Configured
      <3>3. ASSUME NEW c \in changes'
            PROVE  /\ c.current # 0 => SolvedRpmdb[c.name].version = c.current
                   /\ c.current # 0 => SolvedRpmdb[c.name].vendors = <<c.current_vendor>>
                   /\ c.proposed # 0 => SolvedMetadata[c.name].vendors = <<c.proposed_vendor>>
                   /\ c.proposed # 0 => c.alias \in ValidAliases
        <4>1. PICK t \in transaction : c = Full(t)
          BY <2>3
        <4> QED BY <2>5, <4>1
      <3> QED BY <1>0, <3>1, <3>2, <3>3 DEF VendorPart, report
    <2> QED BY <1>1, <1>2, <2>6, <2>7
  <1> QED BY <1>0, <1>4, <1>5

\* evaluate_solver_preflight.
LEMMA EvaluateStep ==
    ASSUME PlanInvariant, Evaluate
    PROVE  PlanInvariant'
  <1> USE DEF PlanInvariant
  <1>0. /\ UNCHANGED <<scenario, rpmdbNow, metadataNow, copy, facts, inventory, report, changes>>
        /\ pc = "evaluate" /\ pc' \in {"offered", "refused"}
    BY DEF Evaluate, environment, Goto
  <1>1. CopyPart' /\ Solved
    BY <1>0 DEF CopyPart, Simulated, Solved, Read
  <1>2. FactsPart' /\ InventoryPart' /\ ReportPart'
    BY <1>0, PlanFrame DEF Probed, Read
  <1>3. TransactionPart'
    <2>1. /\ \A n, a : ChangeOf(n, a)' = ChangeOf(n, a)
          /\ \A n : Possible(n)' = Possible(n)
      BY <1>0 DEF ChangeOf, Possible, SolvedRpmdb, SolvedMetadata
    <2>2. pc' = "offered" => TransactionPart'
      BY <1>0, <1>1, <2>1 DEF TransactionPart, Solved, Read, report
    <2>3. pc' = "refused" => TransactionPart'
      BY <1>0 DEF TransactionPart, Solved, Read, report
    <2> QED BY <1>0, <2>2, <2>3
  <1>4. VendorPart'
    BY <1>0 DEF VendorPart, report, SolvedRpmdb, SolvedMetadata, ValidAliases, Configured
  <1>5. OfferPart'
    <2>1. Blockers' = Blockers
      BY <1>0 DEF Blockers, Host, Configured, ValidAliases, Summary, report
    <2>2. (CHOOSE x \in facts : TRUE) = DiscoverHost(Host, Configured)
      BY <1>0 DEF FactsPart, Probed
    <2>3. pc' = "offered" => Blockers = {}
      BY <2>2 DEF Evaluate, Goto, Blockers
    <2> QED BY <2>1, <2>3 DEF OfferPart, Offered
  <1> QED BY <1>1, <1>2, <1>3, <1>4, <1>5

-----------------------------------------------------------------------------
(* What an offer means.                                                    *)

\* The request has not begun.
LEMMA InitPlan == Init => PlanInvariant
  <1> SUFFICES ASSUME Init PROVE PlanInvariant
    OBVIOUS
  <1>0. scenario \in Requests /\ Len(scenario.rpmdb) \in Nat /\ Len(scenario.metadata) \in Nat
        /\ Len(scenario.rpmdb) > 0 /\ Len(scenario.metadata) > 0 /\ MaxVersion \in Nat
    BY PlanningAssumption DEF Init, Requests
  <1>1. CopyPart
    BY <1>0 DEF Init, CopyPart, NoCopy, Simulated
  <1>2. FactsPart
    BY DEF Init, FactsPart, Probed
  <1>3. InventoryPart
    BY <1>0 DEF Init, InventoryPart, Read
  <1>4. TransactionPart
    BY FS_EmptySet DEF Init, TransactionPart, Solved, Read
  <1>5. ReportPart /\ VendorPart /\ OfferPart
    BY DEF Init, ReportPart, VendorPart, OfferPart, Offered
  <1> QED BY <1>1, <1>2, <1>3, <1>4, <1>5 DEF PlanInvariant

\* The invariant is inductive.
THEOREM PlanInvariance == Spec => []PlanInvariant
  <1>1. PlanInvariant /\ [Next]_vars => PlanInvariant'
    <2> SUFFICES ASSUME PlanInvariant, [Next]_vars PROVE PlanInvariant'
      OBVIOUS
    <2>1. CASE UNCHANGED vars
      <3>1. UNCHANGED <<scenario, rpmdbNow, metadataNow, copy, facts, inventory, transaction,
                        unread, problems, changes, pc>>
        BY <2>1 DEF vars, environment, report
      <3>2. /\ (Simulated' <=> Simulated) /\ (Probed' <=> Probed) /\ (Read' <=> Read)
            /\ (Solved' <=> Solved) /\ SolvedRpmdb' = SolvedRpmdb
            /\ SolvedMetadata' = SolvedMetadata /\ ValidAliases' = ValidAliases
        BY <3>1 DEF Simulated, Probed, Read, Solved, SolvedRpmdb, SolvedMetadata, ValidAliases,
           Configured
      <3>3. CopyPart'
        BY <3>1, <3>2 DEF PlanInvariant, CopyPart
      <3>4. FactsPart' /\ InventoryPart' /\ TransactionPart'
        BY <3>1, <3>2, PlanFrame DEF report
      <3>5. ReportPart'
        BY <3>1, <3>2 DEF PlanInvariant, ReportPart, Accounted, Faithful
      <3>6. VendorPart'
        BY <3>1, <3>2 DEF PlanInvariant, VendorPart
      <3>7. OfferPart'
        BY <3>1 DEF PlanInvariant, OfferPart, Offered, Blockers, Host, Configured,
           ValidAliases, Summary
      <3> QED BY <3>3, <3>4, <3>5, <3>6, <3>7 DEF PlanInvariant
    <2>2. CASE Next
      BY <2>2, EnvironmentStep, SimulationStep, DiscoverStep, InventoryStep, SolveStep, ReadStep,
         ReportStep, VendorStep, EvaluateStep DEF Next
    <2> QED BY <2>1, <2>2
  <1> QED BY <1>1, InitPlan, PTL DEF Spec

\* TypeOK: the shape of the state of a planning request.
THEOREM PlanningTypes == Spec => []TypeOK
  <1>1. ASSUME PlanInvariant PROVE TypeOK
    <2>1. /\ rpmdbNow \in DOMAIN scenario.rpmdb /\ metadataNow \in DOMAIN scenario.metadata
      BY <1>1, RequestFields DEF PlanInvariant, CopyPart
    <2>2. /\ copy.rpmdb \in 0..rpmdbNow
          /\ \A file \in {"repomd", "primary", "solv"} : copy[file] \in 0..metadataNow
      BY <1>1 DEF PlanInvariant, CopyPart
    <2>3. Cardinality(facts) <= 1
      <3> DEFINE f == DiscoverHost(Host, Configured)
      <3>1. facts = {} \/ facts = {f}
        BY <1>1 DEF PlanInvariant, FactsPart
      <3> HIDE DEF f
      <3>2. Cardinality({}) = 0 /\ Cardinality({f}) = 1
        BY FS_EmptySet, FS_Singleton
      <3> QED BY <3>1, <3>2
    <2>4. \A n \in Names : inventory[n].version \in 0..MaxVersion
      BY <1>1 DEF PlanInvariant, InventoryPart
    <2> QED BY <1>1, <2>1, <2>2, <2>3, <2>4 DEF PlanInvariant, CopyPart, TransactionPart, TypeOK
  <1> QED BY <1>1, PlanInvariance, PTL

\* PlanIsWholeTransaction: the plan that is offered is, up to the vendors that
\* were looked up, the transaction zypper would carry out, whatever the order
\* and the sections of its report.
THEOREM PlansAreWhole == Spec => []PlanIsWholeTransaction
  <1>1. PlanInvariant => PlanIsWholeTransaction
    BY DEF PlanInvariant, VendorPart, PlanIsWholeTransaction, Offered
  <1> QED BY <1>1, PlanInvariance, PTL

\* PlanIsOfOneSystem: the inventory of an offered plan is that of the package
\* database it was solved against.
THEOREM PlansAreOfOneSystem == Spec => []PlanIsOfOneSystem
  <1>1. ASSUME PlanInvariant, Offered, NEW c \in changes, c.current # 0
        PROVE  inventory[c.name].version = c.current
    BY <1>1 DEF PlanInvariant, VendorPart, InventoryPart, Read, CopiedInventory, SolvedRpmdb, Offered
  <1>2. PlanInvariant => PlanIsOfOneSystem
    BY <1>1 DEF PlanIsOfOneSystem
  <1> QED BY <1>2, PlanInvariance, PTL

\* VendorsAreTrue: the vendors of an offered plan are those of the headers it
\* replaces and installs, although other package managers went on.
THEOREM PlansTellVendors == Spec => []VendorsAreTrue
  <1>1. PlanInvariant => VendorsAreTrue
    BY DEF PlanInvariant, VendorPart, VendorsAreTrue, Offered
  <1> QED BY <1>1, PlanInvariance, PTL

\* SourcesAreTrusted: whatever an offered plan installs comes from a repository
\* that is enabled and whose signatures are checked, although discovery passes
\* over the lines of the listing it does not recognise.
THEOREM PlansHaveTrustedSources == Spec => []SourcesAreTrusted
  <1>1. ASSUME PlanInvariant, Offered, NEW c \in changes, c.proposed # 0
        PROVE  \E r \in Configured : r.alias = c.alias /\ r.enabled /\ r.gpgcheck
    <2>0. c.alias \in ValidAliases /\ scenario \in Scenarios /\ facts # {}
      BY <1>1 DEF PlanInvariant, VendorPart, CopyPart, FactsPart, Probed, Offered
    <2>1. CASE scenario.release
      BY <2>0, <2>1, PlanningAssumption DEF ValidAliases, Configured
    <2>2. CASE ~scenario.release
      <3> DEFINE f == CHOOSE x \in facts : TRUE
      <3>1. f = DiscoverHost(Host, Configured)
        BY <1>1, <2>0 DEF PlanInvariant, FactsPart
      <3> HIDE DEF f
      <3>2. f.repositories = DiscoverRepositories(Configured)
        BY <3>1 DEF DiscoverHost
      <3>3. PICK x \in f.repositories : x.alias = c.alias /\ x.enabled /\ x.signing_key_trusted
        BY <2>0, <2>2 DEF ValidAliases, f
      <3>4. PICK r \in Configured :
               x = [alias |-> r.alias, enabled |-> r.enabled, metadata_valid |-> ~r.enabled,
                    signing_key_trusted |-> ~r.enabled \/ r.gpgcheck]
        BY <3>2, <3>3 DEF DiscoverRepositories
      <3> QED BY <3>3, <3>4
    <2> QED BY <2>1, <2>2
  <1>2. PlanInvariant => SourcesAreTrusted
    BY <1>1 DEF SourcesAreTrusted
  <1> QED BY <1>2, PlanInvariance, PTL

-----------------------------------------------------------------------------
\* An offer has passed every check of the preflight and of the policy.
LEMMA NothingBlocks ==
    ASSUME PlanInvariant, Offered
    PROVE  LET f == DiscoverHost(Host, Configured)
           IN  /\ StorageBlockers(f.storage) = {} /\ PlatformBlockers(f) = {}
               /\ PowerBlockers(f.power) = {}
               /\ ~(f.available < RequiredBytes(TransactionSize(Summary), scenario.policy.minimum))
               /\ PolicyBlockers(changes, scenario.policy) = {}
  <1> DEFINE f == DiscoverHost(Host, Configured)
             g == Enriched(f, ValidAliases)
             Space == g.available < RequiredBytes(TransactionSize(Summary), scenario.policy.minimum)
  <1>1. Blockers = {}
    BY DEF PlanInvariant, OfferPart
  <1>2. /\ EvaluatePreflight(g, TransactionSize(Summary), scenario.policy.minimum) = {}
        /\ PolicyBlockers(changes, scenario.policy) = {}
    BY <1>1 DEF Blockers, EvaluateSolverPreflight
  <1>3. /\ g.storage = f.storage /\ g.power = f.power /\ g.available = f.available
        /\ g.architecture = f.architecture /\ g.root_filesystem = f.root_filesystem
        /\ g.snapper = f.snapper /\ g.rpmdb = f.rpmdb /\ g.lock_free = f.lock_free
        /\ g.secure_boot = f.secure_boot
    BY DEF Enriched, DiscoverHost
  <1> HIDE DEF f, g
  <1>4. /\ StorageBlockers(g.storage) = {} /\ PlatformBlockers(g) = {}
        /\ PowerBlockers(g.power) = {} /\ ~Space
    BY <1>2 DEF EvaluatePreflight
  <1>5. PlatformBlockers(g) = PlatformBlockers(f)
    BY <1>3 DEF PlatformBlockers
  <1> QED BY <1>2, <1>3, <1>4, <1>5 DEF f

\* PlanIsGranted: an offered plan downgrades nothing, removes what the policy
\* names, changes vendors under a rule of exactly that pair that covers the
\* package, and changes all of a group or none of it.
THEOREM PlansAreGranted == Spec => []PlanIsGranted
  <1>1. ASSUME PlanInvariant, Offered PROVE PlanIsGranted
    <2> DEFINE policy == scenario.policy
    <2>0. PolicyBlockers(changes, policy) = {}
      BY <1>1, NothingBlocks
    <2>1. ASSUME NEW c \in changes
          PROVE  /\ c.action # "Downgrade"
                 /\ c.action = "Remove" => c.name \in policy.removals
                 /\ VendorPermitted(c, policy)
      <3>1. c.action = "Downgrade" => <<"UnauthorizedDowngrade", c.name>> \in PolicyBlockers(changes, policy)
        BY DEF PolicyBlockers
      <3>2. c.action = "Remove" /\ c.name \notin policy.removals =>
               <<"UnauthorizedRemoval", c.name>> \in PolicyBlockers(changes, policy)
        BY DEF PolicyBlockers
      <3>3. ~VendorPermitted(c, policy) =>
               <<"UnauthorizedVendorChange", c.name>> \in PolicyBlockers(changes, policy)
        BY DEF PolicyBlockers
      <3> QED BY <2>0, <3>1, <3>2, <3>3
    <2>2. ASSUME NEW g \in policy.lockstep PROVE ~LockstepViolated(g, changes)
      <3>1. LockstepViolated(g, changes) => <<"LockstepViolation">> \in PolicyBlockers(changes, policy)
        BY DEF PolicyBlockers
      <3> QED BY <2>0, <3>1
    <2>3. ASSUME NEW c \in changes, c.action \in {"Upgrade", "Reinstall"},
                 c.current_vendor # c.proposed_vendor
          PROVE  LET rules == {r \in Range(policy.rules) :
                                  r.from = c.current_vendor /\ r.to = c.proposed_vendor}
                 IN  /\ rules # {}
                     /\ (\E r \in rules : r.scoped) => \E r \in rules : c.name \in r.packages
      <3>1. /\ ValidVendorTransitions(policy.rules)
            /\ \E i \in DOMAIN policy.rules : GrantedBy(policy.rules[i], c)
        BY <2>1, <2>3 DEF VendorPermitted
      <3>2. PICK i \in DOMAIN policy.rules : GrantedBy(policy.rules[i], c)
        BY <3>1
      <3>3. /\ policy.rules[i] \in Range(policy.rules)
            /\ policy.rules[i].from = c.current_vendor /\ policy.rules[i].to = c.proposed_vendor
            /\ policy.rules[i].scoped => c.name \in policy.rules[i].packages
        BY <3>2 DEF GrantedBy, Range
      <3>4. ASSUME NEW r \in Range(policy.rules), r.from = c.current_vendor,
                   r.to = c.proposed_vendor, r.scoped
            PROVE  policy.rules[i].scoped
        <4>1. PICK j \in DOMAIN policy.rules : r = policy.rules[j]
          BY <3>4 DEF Range
        <4> QED BY <3>1, <3>2, <3>3, <3>4, <4>1 DEF ValidVendorTransitions
      <3> QED BY <3>3, <3>4
    <2>4. ASSUME NEW g \in policy.lockstep
          PROVE  \/ g \subseteq {c.name : c \in changes}
                 \/ g \cap {c.name : c \in changes} = {}
      BY <2>2 DEF LockstepViolated
    <2> QED BY <2>1, <2>3, <2>4 DEF PlanIsGranted
  <1>2. PlanInvariant => PlanIsGranted
    BY <1>1 DEF PlanIsGranted
  <1> QED BY <1>2, PlanInvariance, PTL

-----------------------------------------------------------------------------
(* What the preflight promises of the host.                                *)

\* A non-empty set of numbers has a least one, and Min is it.
LEMMA MinIsLeast ==
    ASSUME NEW T, T \subseteq Nat, T # {}
    PROVE  Min(T) \in T /\ \A y \in T : Min(T) <= y
  <1>1. PICK x \in T : \A y \in T : ~(<<y, x>> \in OpToRel(<, Nat))
    BY NatLessThanWellFounded, WFMin
  <1>2. ASSUME NEW y \in T PROVE x <= y
    <2>1. x \in Nat /\ y \in Nat
      BY <1>1
    <2>2. y < x => <<y, x>> \in OpToRel(<, Nat)
      BY <2>1 DEF OpToRel
    <2>3. ~(y < x)
      BY <1>1, <2>2, Zenon
    <2> QED BY <2>1, <2>3
  <1> QED BY <1>1, <1>2 DEF Min

\* The greater of two numbers.
LEMMA MaxOfTwo ==
    ASSUME NEW a \in Int, NEW b \in Int
    PROVE  Max({a, b}) \in Int /\ Max({a, b}) >= a /\ Max({a, b}) >= b
  <1>1. \E x \in {a, b} : \A y \in {a, b} : x >= y
    OBVIOUS
  <1> QED BY <1>1 DEF Max

\* No power blocker: the machine is plugged in, or every battery has told its
\* charge and it is enough.
LEMMA PowerIsKnown ==
    ASSUME NEW h \in Hosts, PowerFound(h), PowerBlockers(DiscoverPower(h)) = {},
           ~\E s \in h.supplies : s.kind = "Mains" /\ s.reading = 1,
           NEW b \in h.supplies, b.kind = "Battery"
    PROVE  b.reading \in MinBattery..100
  <1> DEFINE batteries == {s \in h.supplies : s.kind = "Battery"}
             readings == {s.reading : s \in batteries}
             power == DiscoverPower(h)
  <1>1. power.on_battery
    BY DEF DiscoverPower
  <1>2. power.percent = (IF readings = {} \/ -1 \in readings THEN {} ELSE {Min(readings)})
    BY DEF DiscoverPower
  <1>3. power.percent # {} /\ \A p \in power.percent : ~(p < MinBattery)
    <2> HIDE DEF power
    <2>1. power.percent = {} => "BatteryStateUnknown" \in PowerBlockers(power)
      BY <1>1 DEF PowerBlockers
    <2>2. (\E p \in power.percent : p < MinBattery) => "BatteryTooLow" \in PowerBlockers(power)
      BY <1>1 DEF PowerBlockers
    <2> QED BY <2>1, <2>2 DEF power
  <1>4. -1 \notin readings /\ ~(Min(readings) < MinBattery)
    <2> HIDE DEF power, readings
    <2> QED BY <1>2, <1>3
  <1>5. \A s \in h.supplies : s.reading \in -1..255
    BY DEF Hosts, Supplies
  <1>6. readings \subseteq Nat /\ b.reading \in readings
    <2>1. \A r \in readings : r \in -1..255 /\ r # -1
      BY <1>4, <1>5
    <2> QED BY <2>1
  <1>7. Min(readings) \in Nat /\ Min(readings) <= b.reading /\ b.reading \in Nat
    <2> HIDE DEF readings
    <2> QED BY <1>6, MinIsLeast
  <1>8. b.reading <= 100
    BY DEF PowerFound
  <1>9. MinBattery \in Nat
    BY HostFactsAssumption
  <1> HIDE DEF readings
  <1> QED BY <1>4, <1>7, <1>8, <1>9

\* HostCanTakeIt: an offer is made only where every probe that can fail has
\* succeeded, the charge is known and enough, root is writable and nothing
\* else, /home is apart, there is room to boot from, Snapper and the package
\* database are in order, and no process that can be seen owns the package
\* lock.  A lock that cannot be read counts as free, as in the code.
THEOREM HostsCanTakeIt == Spec => []HostCanTakeIt
  <1>1. ASSUME PlanInvariant, Offered PROVE HostCanTakeIt
    <2> DEFINE f == DiscoverHost(Host, Configured)
    <2>0. Host \in Hosts /\ Discoverable(Host, Configured)
      BY <1>1, RequestFields DEF PlanInvariant, FactsPart, Probed, Offered, Host
    <2>1. /\ StorageBlockers(f.storage) = {} /\ PlatformBlockers(f) = {}
          /\ PowerBlockers(f.power) = {}
      BY <1>1, NothingBlocks
    <2>2. Host.failing = {} /\ Host.inventory # "garbled"
      BY <2>0 DEF Discoverable, InventoryFound
    <2>3. \/ \E s \in Host.supplies : s.kind = "Mains" /\ s.reading = 1
          \/ \A b \in {s \in Host.supplies : s.kind = "Battery"} : b.reading \in MinBattery..100
      <3>1. f.power = DiscoverPower(Host)
        BY DEF DiscoverHost
      <3> HIDE DEF f
      <3> QED BY <2>0, <2>1, <3>1, PowerIsKnown DEF Discoverable
    <2>4. /\ Host.root.target = "/" /\ Host.root.options = {"rw"}
          /\ Host.home.target = "/home"
          /\ Host.home.device # Host.root.device \/ Host.home.subvolid # Host.root.subvolid
          /\ Host.boot >= MinBoot
          /\ Host.efi = "none" \/ (Host.efi = "mounted" /\ Host.esp >= MinEsp)
      <3> DEFINE st == DiscoverStorage(Host)
      <3>1. f.storage = st
        BY DEF DiscoverHost
      <3>2. StorageBlockers(st) = {}
        BY <2>1, <3>1
      <3>3. /\ st.root_writable = (/\ Host.root.target = "/"
                                   /\ "rw" \in Host.root.options
                                   /\ "degraded" \notin Host.root.options)
            /\ st.home_isolated = HomeIsolated(Host.root, Host.home)
            /\ st.boot_available = Host.boot
            /\ st.esp_available = (IF Host.efi = "mounted" THEN {Host.esp} ELSE {})
        BY DEF DiscoverStorage
      <3> HIDE DEF st
      <3>4. st.root_writable /\ st.home_isolated
        <4>1. ~st.root_writable => "RootNotWritable" \in StorageBlockers(st)
          BY DEF StorageBlockers
        <4>2. ~st.home_isolated => "HomeNotIsolated" \in StorageBlockers(st)
          BY DEF StorageBlockers
        <4> QED BY <3>2, <4>1, <4>2
      <3>5. ~(st.boot_available < MinBoot) /\ \A e \in st.esp_available : ~(e < MinEsp)
        <4>1. st.boot_available < MinBoot => "InsufficientBootSpace" \in StorageBlockers(st)
          BY DEF StorageBlockers
        <4>2. (\E e \in st.esp_available : e < MinEsp) =>
                 "InsufficientEspSpace" \in StorageBlockers(st)
          BY DEF StorageBlockers
        <4> QED BY <3>2, <4>1, <4>2
      <3>6. Host.root.options \subseteq {"rw", "degraded"}
        BY <2>0 DEF Hosts, Mounts
      <3>7. Host.root.target = "/" /\ Host.root.options = {"rw"}
        BY <3>3, <3>4, <3>6
      <3>8. /\ Host.home.target = "/home"
            /\ Host.home.device # Host.root.device \/ Host.home.subvolid # Host.root.subvolid
        BY <3>3, <3>4 DEF HomeIsolated
      <3>9. Host.boot \in Nat /\ Host.esp \in Nat /\ MinBoot \in Nat /\ MinEsp \in Nat
        BY <2>0, HostFactsAssumption DEF Hosts
      <3>10. Host.efi \in {"none", "mounted"}
        BY <2>0 DEF Discoverable, StorageFound
      <3> QED BY <3>3, <3>5, <3>7, <3>8, <3>9, <3>10
    <2>5. /\ Host.snapper = "configured" /\ Host.rpmdb /\ Host.pid # "alive"
          /\ Host.secureBoot \in {"enabled", "disabled"}
      <3>1. /\ f.snapper = (Host.snapper = "configured") /\ f.rpmdb = Host.rpmdb
            /\ f.lock_free = PackageLockFree(Host)
            /\ f.secure_boot = (IF Host.secureBoot \in {"enabled", "disabled"}
                                THEN {Host.secureBoot} ELSE {})
        BY DEF DiscoverHost
      <3> HIDE DEF f
      <3>2. ~f.snapper => "SnapperUnavailable" \in PlatformBlockers(f)
        BY DEF PlatformBlockers
      <3>3. ~f.rpmdb => "RpmDatabaseUnhealthy" \in PlatformBlockers(f)
        BY DEF PlatformBlockers
      <3>4. ~f.lock_free => "PackageManagerBusy" \in PlatformBlockers(f)
        BY DEF PlatformBlockers
      <3>5. f.secure_boot = {} => "SecureBootStateUnknown" \in PlatformBlockers(f)
        BY DEF PlatformBlockers
      <3> QED BY <2>1, <3>1, <3>2, <3>3, <3>4, <3>5 DEF PackageLockFree
    <2> QED BY <2>2, <2>3, <2>4, <2>5 DEF HostCanTakeIt
  <1>2. PlanInvariant => HostCanTakeIt
    BY <1>1 DEF HostCanTakeIt
  <1> QED BY <1>2, PlanInvariance, PTL

\* A saturated sum that stays below the largest word is the sum.
LEMMA SaturatingSum ==
    ASSUME NEW a \in Nat, NEW b \in Nat
    PROVE  /\ SaturatingAdd(a, b) \in 0..MaxWord
           /\ SaturatingAdd(a, b) = MaxWord \/ SaturatingAdd(a, b) = a + b
  BY HostFactsAssumption DEF SaturatingAdd

\* SpaceSuffices: the free space of an offer covers download, growth, snapshot
\* and margin as they are, although each sum of the code saturates.
THEOREM SpaceIsEnough == Spec => []SpaceSuffices
  <1>1. ASSUME PlanInvariant, Offered PROVE SpaceSuffices
    <2> DEFINE s == scenario.sizes
               growth == Max({s.space_usage_diff, 0})
               snapshot == SaturatingAdd(s.installed, s.removed)
               first == SaturatingAdd(s.download, growth)
               second == SaturatingAdd(first, snapshot)
               total == SaturatingAdd(second, Margin)
               minimum == scenario.policy.minimum
               size == TransactionSize(Summary)
    <2>0. /\ s.download \in Nat /\ s.installed \in Nat /\ s.removed \in Nat
          /\ s.space_usage_diff \in Int /\ Margin \in Nat /\ MaxWord \in Nat
          /\ minimum \in Nat /\ Host.available \in Nat /\ Host.available < MaxWord
      <3>1. scenario \in Requests /\ Host \in Hosts /\ Host.available < MaxWord
            /\ scenario.policy \in Policies
        BY <1>1, RequestFields DEF PlanInvariant, Host
      <3>2. s \in [download: 0..MaxWord, space_usage_diff: Int, installed: 0..MaxWord,
                   removed: 0..MaxWord]
        BY <3>1, Zenon DEF Requests
      <3>3. Host.available \in 0..MaxWord /\ minimum \in 0..MaxWord
        BY <3>1 DEF Hosts, Policies
      <3> HIDE DEF s, minimum
      <3> QED BY <3>1, <3>2, <3>3, HostFactsAssumption
    <2>1. /\ size.download = s.download /\ size.transaction = growth /\ size.snapshot = snapshot
      BY DEF TransactionSize, Summary
    <2>2. RequiredBytes(size, minimum) = Max({total, minimum})
      BY <2>1 DEF RequiredBytes
    <2>3. ~(Host.available < Max({total, minimum}))
      <3> DEFINE f == DiscoverHost(Host, Configured)
      <3>1. ~(f.available < RequiredBytes(size, minimum))
        BY <1>1, NothingBlocks
      <3>2. f.available = Host.available
        BY DEF DiscoverHost
      <3> QED BY <2>2, <3>1, <3>2
    <2> HIDE DEF s, minimum
    <2>4. growth \in Nat
      <3>1. growth \in Int /\ growth >= 0
        BY <2>0, MaxOfTwo, 0 \in Int
      <3> QED BY <3>1
    <2> HIDE DEF growth
    <2>5. /\ snapshot \in 0..MaxWord
          /\ snapshot = MaxWord \/ snapshot = s.installed + s.removed
      BY <2>0, SaturatingSum
    <2> HIDE DEF snapshot
    <2>6. /\ first \in 0..MaxWord
          /\ first = MaxWord \/ first = s.download + growth
      BY <2>0, <2>4, SaturatingSum
    <2> HIDE DEF first
    <2>7. /\ second \in 0..MaxWord
          /\ second = MaxWord \/ second = first + snapshot
      <3>1. first \in Nat /\ snapshot \in Nat
        BY <2>0, <2>5, <2>6
      <3> QED BY <3>1, SaturatingSum
    <2> HIDE DEF second
    <2>8. /\ total \in 0..MaxWord
          /\ total = MaxWord \/ total = second + Margin
      <3>1. second \in Nat
        BY <2>0, <2>7
      <3> QED BY <2>0, <3>1, SaturatingSum
    <2> HIDE DEF total
    <2>9. /\ Max({total, minimum}) \in Int
          /\ Max({total, minimum}) >= total /\ Max({total, minimum}) >= minimum
      BY <2>0, <2>8, MaxOfTwo
    <2>10. Host.available >= total /\ Host.available >= minimum
      BY <2>0, <2>3, <2>8, <2>9
    <2>11. total = second + Margin /\ second < MaxWord
      BY <2>0, <2>7, <2>8, <2>10
    <2>12. /\ second = first + snapshot /\ first < MaxWord /\ snapshot < MaxWord
      BY <2>0, <2>5, <2>6, <2>7, <2>11
    <2>13. Host.available >= s.download + growth + s.installed + s.removed + Margin
      BY <2>0, <2>4, <2>5, <2>6, <2>10, <2>11, <2>12
    <2> QED BY <2>10, <2>13 DEF SpaceSuffices, s, growth, minimum
  <1>2. PlanInvariant => SpaceSuffices
    BY <1>1 DEF SpaceSuffices
  <1> QED BY <1>2, PlanInvariance, PTL
=============================================================================
