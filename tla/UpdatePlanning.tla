--------------------------- MODULE UpdatePlanning ----------------------------
(***************************************************************************)
(* One planning request, from the disposable copy of the system to the     *)
(* plan that is offered (service/src/planner.rs, simulation.rs,            *)
(* repository_context.rs): the package database, the repositories and      *)
(* their cache are copied file by file while other package managers go on, *)
(* the host is probed, zypper solves inside the copy, its report is read   *)
(* element by element, vendors are looked up in the copy, and policy and   *)
(* preflight decide.                                                       *)
(*                                                                         *)
(* A scenario fixes what the request meets: the host, the generations the  *)
(* package database and the metadata go through, the repositories, the     *)
(* policy, the sizes zypper reports, and whether a release is planned      *)
(* (repositories of the manifest, refreshed inside the copy) or an update  *)
(* (those of the host, with their cache).                                  *)
(***************************************************************************)
EXTENDS SolverPolicy

CONSTANT Scenarios   \* the scenarios explored

Databases == [Names -> Headers]
Requests ==
    [host: Hosts, rpmdb: Seq(Databases), metadata: Seq(Databases),
     repositories: SUBSET Repositories(Aliases),
     alias: Aliases, policy: Policies, release: BOOLEAN,
     sizes: [download: 0..MaxWord, space_usage_diff: Int, installed: 0..MaxWord,
             removed: 0..MaxWord]]

\* A machine has a package database and metadata to begin with, no file system
\* has as many free bytes as the largest word, and the repositories of a release
\* are written into the copy enabled and with their signatures checked.
ASSUME PlanningAssumption ==
    /\ IsFiniteSet(Names) /\ MaxVersion \in Nat
    /\ \A s \in Scenarios :
          /\ s \in Requests
          /\ Len(s.rpmdb) > 0 /\ Len(s.metadata) > 0
          /\ s.host.available < MaxWord
          /\ s.release => \A r \in s.repositories : r.enabled /\ r.gpgcheck

VARIABLES
    scenario,     \* never changes
    rpmdbNow,     \* generation of the live package database
    metadataNow,  \* generation of the live metadata cache
    copy,         \* generation of each part of the copy, 0 when not there yet
    facts,        \* what discovery found, as a set of at most one
    inventory,    \* installed_packages
    transaction,  \* what zypper would do, as changes without vendors
    unread,       \* elements of its report not read yet
    problems,     \* the report contains an error message
    changes,      \* changes read so far
    pc

environment == <<scenario, rpmdbNow, metadataNow>>
report == <<transaction, unread, problems>>
vars == <<environment, copy, facts, inventory, report, changes, pc>>

Host == scenario.host
Configured == scenario.repositories
NoCopy == [rpmdb |-> 0, repomd |-> 0, primary |-> 0, solv |-> 0]

Init ==
    /\ scenario \in Scenarios
    /\ rpmdbNow = 1 /\ metadataNow = 1
    /\ copy = NoCopy
    /\ facts = {}
    /\ inventory = [n \in Names |-> [version |-> 0, vendors |-> <<>>]]
    /\ transaction = {} /\ unread = {} /\ problems = FALSE
    /\ changes = {}
    /\ pc = "rpmdb"

Goto(next) == pc' = next

\* Any error ends the request.
Refused == Goto("refused")

-----------------------------------------------------------------------------
(* Other package managers.                                                 *)

HostTransaction ==
    /\ rpmdbNow < Len(scenario.rpmdb)
    /\ rpmdbNow' = rpmdbNow + 1
    /\ UNCHANGED <<scenario, metadataNow, copy, facts, inventory, report, changes, pc>>

HostRefresh ==
    /\ metadataNow < Len(scenario.metadata)
    /\ metadataNow' = metadataNow + 1
    /\ UNCHANGED <<scenario, rpmdbNow, copy, facts, inventory, report, changes, pc>>

-----------------------------------------------------------------------------
(* Simulation::new.                                                        *)

CopyRpmdb ==
    /\ pc = "rpmdb"
    /\ copy' = [copy EXCEPT !.rpmdb = rpmdbNow]
    /\ Goto(IF scenario.release THEN "refresh" ELSE "raw")
    /\ UNCHANGED <<environment, facts, inventory, report, changes>>

\* A directory is read in any order: the index and the file it describes may
\* be of two generations.
CopyRaw(file) ==
    /\ pc = "raw"
    /\ copy[file] = 0
    /\ copy' = [copy EXCEPT ![file] = metadataNow]
    /\ Goto(IF copy'.repomd # 0 /\ copy'.primary # 0 THEN "solv" ELSE "raw")
    /\ UNCHANGED <<environment, facts, inventory, report, changes>>

CopySolv ==
    /\ pc = "solv"
    /\ copy' = [copy EXCEPT !.solv = metadataNow]
    /\ Goto("discover")
    /\ UNCHANGED <<environment, facts, inventory, report, changes>>

\* A release: the manifest's repositories and keys, refreshed in the copy.
RefreshCopy ==
    /\ pc = "refresh"
    /\ copy' = [copy EXCEPT !.repomd = metadataNow, !.primary = metadataNow,
                            !.solv = metadataNow]
    /\ Goto("inventory")
    /\ UNCHANGED <<environment, facts, inventory, report, changes>>

\* A file vanishes or cannot be copied, a key or the metadata not be fetched.
SimulationFails ==
    /\ pc \in {"rpmdb", "raw", "solv", "refresh"}
    /\ Refused
    /\ UNCHANGED <<environment, copy, facts, inventory, report, changes>>

-----------------------------------------------------------------------------
(* discover_host, installed_packages and the dry run, in the order of the   *)
(* two planners.                                                           *)

Discover ==
    /\ pc = "discover"
    /\ IF Discoverable(Host, Configured)
       THEN /\ facts' = {DiscoverHost(Host, Configured)}
            /\ Goto(IF scenario.release THEN "report" ELSE "inventory")
       ELSE Refused /\ UNCHANGED facts
    /\ UNCHANGED <<environment, copy, inventory, report, changes>>

\* Mutant: the inventory is that of the live system.
LiveInventory == scenario.rpmdb[rpmdbNow]

CopiedInventory == scenario.rpmdb[copy.rpmdb]

\* An ambiguous header or no header at all is an error.
ReadInventory ==
    /\ pc = "inventory"
    /\ IF /\ \A n \in Names : Len(CopiedInventory[n].vendors) <= 1
          /\ \E n \in Names : CopiedInventory[n].version # 0
       THEN inventory' = CopiedInventory /\ Goto("solve")
       ELSE Refused /\ UNCHANGED inventory
    /\ UNCHANGED <<environment, copy, facts, report, changes>>

\* libzypp uses the solv file of the index it has, or makes one of the primary
\* metadata.
SolvedMetadata ==
    scenario.metadata[IF copy.solv = copy.repomd THEN copy.repomd ELSE copy.primary]
SolvedRpmdb == scenario.rpmdb[copy.rpmdb]

\* The actions zypper may take on a package.
Possible(n) ==
    LET old == SolvedRpmdb[n].version
        new == SolvedMetadata[n].version
    IN  {a \in Actions :
            CASE a = "Install" -> old = 0 /\ new # 0
              [] a = "Upgrade" -> 0 < old /\ old < new
              [] a = "Downgrade" -> 0 < new /\ new < old
              [] a = "Reinstall" -> 0 < old /\ old = new
              [] a = "Remove" -> 0 < old}

OwnSection(action) ==
    CASE action = "Install" -> "to-install"
      [] action = "Upgrade" -> "to-upgrade"
      [] action = "Downgrade" -> "to-downgrade"
      [] action = "Reinstall" -> "to-reinstall"
      [] action = "Remove" -> "to-remove"

\* Where the report lists a change: in its own section, under change of vendor
\* as well or instead, in a section this parser does not know, or, in a
\* damaged report, under the opposite of what it is.
Listings(action) ==
    LET own == OwnSection(action)
    IN  {{own}, {own, "other"}, {"other"}}
        \cup (IF action \in {"Upgrade", "Downgrade", "Reinstall"}
              THEN {{own, "to-change-vendor"}, {"to-change-vendor"}} ELSE {})
        \cup (IF action = "Upgrade" THEN {{own, "to-downgrade"}} ELSE {})

ChangeOf(n, action) ==
    ParseSolvable(n, OwnSection(action), SolvedRpmdb[n].version, SolvedMetadata[n].version,
                  scenario.alias)

Solve ==
    /\ pc = "solve"
    /\ \E affected \in SUBSET {n \in Names : Possible(n) # {}} :
       \E action \in [affected -> Actions] :
          /\ \A n \in affected : action[n] \in Possible(n)
          /\ \E listing \in [affected -> SUBSET Sections] :
                /\ \A n \in affected : listing[n] \in Listings(action[n])
                /\ unread' = UNION {{[name |-> n, section |-> s] : s \in listing[n]} : n \in affected}
          /\ transaction' = {ChangeOf(n, action[n]) : n \in affected}
    /\ problems' \in BOOLEAN
    /\ Goto(IF scenario.release THEN "discover" ELSE "report")
    /\ UNCHANGED <<environment, copy, facts, inventory, changes>>

SolverFails ==
    /\ pc = "solve"
    /\ Refused
    /\ UNCHANGED <<environment, copy, facts, inventory, report, changes>>

-----------------------------------------------------------------------------
(* parse_solver_xml, element by element.                                   *)

ReadSolvable(e) ==
    LET c == ParseSolvable(e.name, e.section, SolvedRpmdb[e.name].version,
                           SolvedMetadata[e.name].version, scenario.alias)
    IN  /\ pc = "report"
        /\ e \in unread
        /\ unread' = unread \ {e}
        /\ IF e.section = "other" THEN UNCHANGED <<changes, pc>>
           ELSE IF Conflicts(changes, c) THEN Refused /\ UNCHANGED changes
           ELSE changes' = Merge(changes, c) /\ UNCHANGED pc
        /\ UNCHANGED <<environment, copy, facts, inventory, transaction, problems>>

Summary ==
    [packages_to_change |-> Cardinality(transaction), download |-> scenario.sizes.download,
     space_usage_diff |-> scenario.sizes.space_usage_diff,
     installed |-> scenario.sizes.installed, removed |-> scenario.sizes.removed]

EndReport ==
    /\ pc = "report"
    /\ unread = {}
    /\ Goto(IF SummaryMatches(changes, Summary) THEN "vendors" ELSE "refused")
    /\ UNCHANGED <<environment, copy, facts, inventory, report, changes>>

-----------------------------------------------------------------------------
\* The aliases whose metadata counts as verified: for an update the enabled
\* repositories with a trusted key that discovery has listed, for a release
\* those of the manifest.
ValidAliases ==
    LET f == CHOOSE x \in facts : TRUE
    IN  IF scenario.release THEN {r.alias : r \in Configured}
        ELSE {r.alias : r \in {x \in f.repositories : x.enabled /\ x.signing_key_trusted}}

\* Mutant: the primary metadata is taken as it is.
AnyPrimary == copy.primary # 0

\* verify_checksum: the primary metadata is what the index describes.
PrimaryVerified == scenario.metadata[copy.primary] = scenario.metadata[copy.repomd]

LookUpVendors ==
    /\ pc = "vendors"
    /\ IF /\ (\E c \in changes : c.action # "Remove") => PrimaryVerified
          /\ Enrichable(changes, ValidAliases, SolvedRpmdb, scenario.metadata[copy.primary])
       THEN /\ changes' = Enrich(changes, SolvedRpmdb, scenario.metadata[copy.primary])
            /\ Goto("evaluate")
       ELSE Refused /\ UNCHANGED changes
    /\ UNCHANGED <<environment, copy, facts, inventory, report>>

\* evaluate_solver_preflight and build_plan.
Evaluate ==
    LET f == CHOOSE x \in facts : TRUE
    IN  /\ pc = "evaluate"
        /\ Goto(IF EvaluateSolverPreflight(f, ValidAliases, Summary, problems, changes,
                                           scenario.policy) = {}
                THEN "offered" ELSE "refused")
        /\ UNCHANGED <<environment, copy, facts, inventory, report, changes>>

Next ==
    \/ HostTransaction \/ HostRefresh
    \/ CopyRpmdb \/ CopyRaw("repomd") \/ CopyRaw("primary") \/ CopySolv \/ RefreshCopy
    \/ SimulationFails
    \/ Discover \/ ReadInventory \/ Solve \/ SolverFails
    \/ \E e \in unread : ReadSolvable(e)
    \/ EndReport \/ LookUpVendors \/ Evaluate

Spec == Init /\ [][Next]_vars

-----------------------------------------------------------------------------
\* The shape of the state: every part of the copy is of a generation that has
\* existed, and changes, read or still to be read, are well formed.
TypeOK ==
    /\ rpmdbNow \in DOMAIN scenario.rpmdb /\ metadataNow \in DOMAIN scenario.metadata
    /\ copy.rpmdb \in 0..rpmdbNow
    /\ \A file \in {"repomd", "primary", "solv"} : copy[file] \in 0..metadataNow
    /\ Cardinality(facts) <= 1
    /\ \A n \in Names : inventory[n].version \in 0..MaxVersion
    /\ transaction \subseteq Changes /\ changes \subseteq Changes
    /\ unread \subseteq [name: Names, section: Sections]
    /\ problems \in BOOLEAN
    /\ pc \in {"rpmdb", "raw", "solv", "refresh", "discover", "inventory", "solve", "report",
               "vendors", "evaluate", "offered", "refused"}

Offered == pc = "offered"
WithoutVendors(c) == [c EXCEPT !.current_vendor = "none", !.proposed_vendor = "none"]

\* A plan shows all that zypper would do and under its own name, in whatever
\* order the report lists it: no package escapes the policy by being listed
\* twice, last, under a change of vendor or where nobody looks, and an upgrade
\* that a damaged report calls a downgrade as well is not offered.
PlanIsWholeTransaction ==
    Offered => {WithoutVendors(c) : c \in changes} = transaction

\* The inventory a plan is bound to is the one it was solved against, however
\* the live package database changes meanwhile.
PlanIsOfOneSystem ==
    Offered => \A c \in changes : c.current # 0 => inventory[c.name].version = c.current

\* The vendors of a plan are those of the very headers it replaces and
\* installs, although the cache was copied while it was being refreshed.
VendorsAreTrue ==
    Offered =>
        \A c \in changes :
            /\ c.current # 0 => SolvedRpmdb[c.name].vendors = <<c.current_vendor>>
            /\ c.proposed # 0 => SolvedMetadata[c.name].vendors = <<c.proposed_vendor>>

\* What a plan may do to a package: nothing is downgraded, a removal is one the
\* policy names, a package changes its vendor only under a rule for exactly
\* that pair, which names the package as soon as any rule of the pair names
\* packages, and no group is left half changed.
PlanIsGranted ==
    Offered =>
        /\ \A c \in changes :
              /\ c.action # "Downgrade"
              /\ c.action = "Remove" => c.name \in scenario.policy.removals
              /\ c.action \in {"Upgrade", "Reinstall"} /\ c.current_vendor # c.proposed_vendor =>
                    LET rules == {r \in Range(scenario.policy.rules) :
                                     r.from = c.current_vendor /\ r.to = c.proposed_vendor}
                    IN  /\ rules # {}
                        /\ (\E r \in rules : r.scoped) =>
                              \E r \in rules : c.name \in r.packages
        /\ \A g \in scenario.policy.lockstep :
              \/ g \subseteq {c.name : c \in changes}
              \/ g \cap {c.name : c \in changes} = {}

\* Whatever a plan installs comes from an enabled repository whose signatures
\* are checked: one that the listing shows in a line nobody recognises raises no
\* blocker, and supplies no package either.
SourcesAreTrusted ==
    Offered =>
        \A c \in changes : c.proposed # 0 =>
            \E r \in Configured : r.alias = c.alias /\ r.enabled /\ r.gpgcheck

\* A plan is offered only on a machine that can take it, as far as its probes
\* can tell: a battery that does not report, a mount that is not the one asked
\* for, a garbled list have refused it.  The package manager's lock is the
\* exception: what is certain is only that no owner that can be seen holds it,
\* since discovery takes a lock it cannot read for a free one.
HostCanTakeIt ==
    LET batteries == {s \in Host.supplies : s.kind = "Battery"}
        plugged == \E s \in Host.supplies : s.kind = "Mains" /\ s.reading = 1
    IN  Offered =>
            /\ Host.failing = {} /\ Host.inventory # "garbled"
            /\ plugged \/ \A b \in batteries : b.reading \in MinBattery..100
            /\ Host.root.target = "/" /\ Host.root.options = {"rw"}
            /\ Host.home.target = "/home"
            /\ Host.home.device # Host.root.device \/ Host.home.subvolid # Host.root.subvolid
            /\ Host.boot >= MinBoot
            /\ Host.efi = "none" \/ (Host.efi = "mounted" /\ Host.esp >= MinEsp)
            /\ Host.snapper = "configured" /\ Host.rpmdb /\ Host.pid # "alive"
            /\ Host.secureBoot \in {"enabled", "disabled"}

\* The free space covers download, growth, snapshot and margin as they are, at
\* any size: no addition wraps and a shrinking transaction earns no credit.
SpaceSuffices ==
    LET s == scenario.sizes
    IN  Offered =>
            /\ Host.available >= s.download + Max({s.space_usage_diff, 0})
                                 + s.installed + s.removed + Margin
            /\ Host.available >= scenario.policy.minimum
=============================================================================
