----------------------------- MODULE SignedOffer -----------------------------
(***************************************************************************)
(* The decisions about a signed release manifest: its route                *)
(* (core/src/manifest.rs), its validity (service/src/manifest_fetch.rs),   *)
(* the package migration it may carry (core/src/migration.rs,              *)
(* service/src/migration.rs), the plan bound to it (service/src/planner.rs)*)
(* and the inventory that plan must leave (service/src/inventory.rs).      *)
(*                                                                         *)
(* An edition stands for version, vendor and architecture of a package; an *)
(* inventory is a set of packages with their editions, of which a kernel   *)
(* may have several.  Every check of the text of a manifest (schema,       *)
(* target, updater, repositories, policy lists) is abstracted to the one   *)
(* flaw the manifest may have.                                             *)
(***************************************************************************)
EXTENDS Integers, FiniteSets, FiniteSetsExt

CONSTANTS
    Names,        \* packages
    Multiversion, \* those of which several editions stay installed (kernels)
    MaxEdition    \* bound: editions of a package

ASSUME SignedOfferAssumption == MaxEdition \in Nat /\ Multiversion \subseteq Names

Editions == 1..MaxEdition
Inventories == SUBSET (Names \X Editions)
Channels == {"stable", "testing"}
Statuses == {"testing", "available", "paused", "withdrawn"}
Flaws == {"none", "signature", "schema", "target", "updater", "repository", "policy"}

Versions == [calendar: BOOLEAN, number: Nat, prerelease: BOOLEAN]
Identities == [version: Versions, build: Nat]
Items == [name: Names, from: Editions, to: Editions, if_installed: BOOLEAN]
Manifests ==
    [sequence: Nat, status: Statuses, valid_from: Nat, valid_until: Nat,
     source: Identities, target: Identities, package_migration: SUBSET Items,
     flaw: Flaws]

\* What the prepared repositories offer: an edition of each package, what a
\* migration's packages require, what the release drops, and the artifacts
\* that have the signed digest.
RepositoryStates ==
    [edition: [Names -> Editions], required: SUBSET Names, obsolete: SUBSET Names,
     genuine: SUBSET Names]

\* operation(): what a manifest with a migration list asks for.
IsMigration(m) == m.package_migration # {}

-----------------------------------------------------------------------------
(* The route.                                                              *)

\* Calendar versions are history: a source only, and older than any other.
ValidVersionTransition(source, target) ==
    /\ source # target
    /\ ~target.calendar
    /\ source.calendar \/ target.number > source.number

\* validate_migration: the product stays what it is, and each package is named
\* once with an edition that differs from the one it replaces.
ValidateMigration(m) ==
    /\ m.source = m.target
    /\ \E i \in m.package_migration : ~i.if_installed
    /\ \A i \in m.package_migration : i.from # i.to
    /\ \A i, j \in m.package_migration : i.name = j.name => i = j

\* What a manifest must be for any host to accept it.
Acceptable(m) ==
    /\ m.flaw = "none"
    /\ IF IsMigration(m) THEN ValidateMigration(m)
       ELSE ValidVersionTransition(m.source.version, m.target.version)

\* validate_manifest_route, in its order: the first check that fails is the error.
RouteChecks(m, installed, last, channel) ==
    << [error |-> "UnsupportedSchema", fails |-> m.flaw = "schema"],
       [error |-> "NotAvailable",
        fails |-> /\ m.status # "available"
                  /\ ~(m.status = "testing" /\ channel = "testing")],
       [error |-> "SourceMismatch", fails |-> m.source # installed],
       [error |-> "UnsupportedTarget", fails |-> m.flaw = "target"],
       [error |-> "InvalidPolicy", fails |-> IsMigration(m) /\ ~ValidateMigration(m)],
       [error |-> "TargetNotNewer",
        fails |-> /\ ~IsMigration(m)
                  /\ ~ValidVersionTransition(installed.version, m.target.version)],
       [error |-> "PrereleaseNotAllowed",
        fails |-> m.target.version.prerelease /\ channel # "testing"],
       [error |-> "MigrationAlreadyApplied",
        fails |-> m.sequence > 0 /\ IsMigration(m) /\ last = m.sequence],
       [error |-> "Replay", fails |-> m.sequence = 0 \/ m.sequence <= last],
       [error |-> "UpdaterTooOld", fails |-> m.flaw = "updater"],
       [error |-> "InvalidRepository", fails |-> m.flaw = "repository"],
       [error |-> "InvalidPolicy", fails |-> m.flaw = "policy"] >>

ValidateManifestRoute(m, installed, last, channel) ==
    LET checks == RouteChecks(m, installed, last, channel)
        failing == {i \in DOMAIN checks : checks[i].fails}
    IN  IF failing = {} THEN "Ok" ELSE checks[Min(failing)].error

\* validate_time_at: the interval [valid_from, valid_until).
ValidateTime(m, now) ==
    IF m.valid_from >= m.valid_until THEN "InvalidTime"
    ELSE IF now < m.valid_from THEN "NotYetValid"
    ELSE IF now >= m.valid_until THEN "Expired"
    ELSE "Ok"

\* verify_manifest_files: signature, route, validity, on the exact bytes.
VerifyManifestFiles(m, installed, last, channel, now) ==
    IF m.flaw = "signature" THEN "Signature"
    ELSE LET route == ValidateManifestRoute(m, installed, last, channel)
         IN  IF route # "Ok" THEN route ELSE ValidateTime(m, now)

\* fetch_verified_manifest: a download may fail, and so may the keys of the
\* repositories, which are fetched last; every other error is "Other".
FetchOutcomes(m, installed, last, channel, now) ==
    LET verdict == VerifyManifestFiles(m, installed, last, channel, now)
    IN  {"Download", "Other"} \cup {verdict}

-----------------------------------------------------------------------------
(* The migration and the plan.                                             *)

EditionsOf(n, inventory) == {e \in Editions : <<n, e>> \in inventory}

\* An optional package that is absent stays absent.
Skipped(i, inventory) == i.if_installed /\ EditionsOf(i.name, inventory) = {}

\* pending_migration fails unless each package is installed once, as what the
\* manifest migrates from or as what it migrates to.
IdentityHolds(m, inventory) ==
    \A i \in m.package_migration :
        Skipped(i, inventory) \/ EditionsOf(i.name, inventory) \in {{i.from}, {i.to}}

PendingMigration(m, inventory) ==
    {i \in m.package_migration :
        ~Skipped(i, inventory) /\ EditionsOf(i.name, inventory) # {i.to}}

\* A change as the solver reports it; to = 0 is a removal.
ChangeOf(n, from, to) == [name |-> n, from |-> from, to |-> to]
Changes == [name: Names, from: Editions, to: 0..MaxEdition]

\* zypper against the prepared repositories: dist-upgrade takes what is newer
\* and drops what is obsolete; install takes the editions asked for, and what
\* they require.  requested is the inventory the arguments are made from.
Solve(m, repository, requested, inventory) ==
    LET present == {n \in Names : EditionsOf(n, inventory) # {}}
        newest(n) == Max(EditionsOf(n, inventory))
        newer == {n \in present : repository.edition[n] > newest(n)}
        asked == {i \in PendingMigration(m, requested) :
                     i.name \in present /\ newest(i.name) # i.to}
        upgrades(S) == {ChangeOf(n, newest(n), repository.edition[n]) : n \in S}
    IN  IF IsMigration(m)
        THEN {ChangeOf(i.name, newest(i.name), i.to) : i \in asked}
             \cup upgrades((newer \cap repository.required) \ {i.name : i \in asked})
        ELSE upgrades(newer \ repository.obsolete)
             \cup {ChangeOf(x[1], x[2], 0) : x \in {y \in inventory : y[1] \in repository.obsolete}}

\* What applying a change leaves.
Applied(c, inventory) ==
    (IF c.name \in Multiversion /\ c.to # 0 THEN inventory ELSE inventory \ {<<c.name, c.from>>})
    \cup (IF c.to = 0 THEN {} ELSE {<<c.name, c.to>>})

\* The solver finds every edition it is asked for.
Solvable(m, repository, requested) ==
    \A i \in PendingMigration(m, requested) : repository.edition[i.name] = i.to

\* validate_migration_plan: the pending packages, each once, and no other.
ValidateMigrationPlan(m, inventory, changes) ==
    IsMigration(m) =>
        /\ IdentityHolds(m, inventory)
        /\ changes = {ChangeOf(i.name, i.from, i.to) : i \in PendingMigration(m, inventory)}

\* The identity of a plan is all of it: plan_sha256 covers source, target,
\* manifest hash, inventory and changes.
Plan(m, source, inventory, changes) ==
    [manifest |-> m, source |-> source, installed |-> inventory, changes |-> changes]

\* plan_release_upgrade, when neither the migration policy nor the preflight
\* blocks it.
CanPlan(m, repository, inventory) ==
    /\ IsMigration(m) =>
          IdentityHolds(m, inventory) /\ PendingMigration(m, inventory) # {}
    /\ Solvable(m, repository, inventory)
    /\ ValidateMigrationPlan(m, inventory, Solve(m, repository, inventory, inventory))

PlanReleaseUpgrade(m, source, repository, inventory) ==
    Plan(m, source, inventory, Solve(m, repository, inventory, inventory))

\* check_confirmed_release_plan: the plan and the manifest belong together.
CheckConfirmed(m, plan) ==
    /\ plan.manifest = m
    /\ plan.source = m.source
    /\ ValidateMigrationPlan(m, plan.installed, plan.changes)

\* Mutant: only the manifest and the plan are compared, not the host.
ConfirmedOnly(m, plan, repository, source, inventory) == CheckConfirmed(m, plan)

\* revalidate_release_plan on the host as it is and the prepared repositories.
\* The arguments of the simulation come from the confirmed inventory.
Revalidate(m, plan, repository, source, inventory) ==
    LET changes == Solve(m, repository, plan.installed, inventory)
    IN  /\ CheckConfirmed(m, plan)
        /\ Solvable(m, repository, plan.installed)
        /\ ValidateMigrationPlan(m, inventory, changes)
        /\ Plan(m, source, inventory, changes) = plan

\* verify_payloads: every pending artifact with its signed digest.
VerifyPayloads(m, plan, genuine) ==
    IsMigration(m) => \A i \in PendingMigration(m, plan.installed) : i.name \in genuine

\* Mutant: nothing unexpected is installed, but something may be missing.
NothingElse(plan, actual) ==
    actual \subseteq plan.installed \cup {<<c.name, c.to>> : c \in plan.changes}

\* verify_result: everything retained or proposed is there, and nothing else
\* but replaced editions, which only a release upgrade may keep.
VerifyResult(plan, actual) ==
    LET previous == {<<c.name, c.from>> : c \in plan.changes}
        proposed == {<<c.name, c.to>> : c \in {d \in plan.changes : d.to # 0}}
        removed == {<<c.name, c.from>> : c \in {d \in plan.changes : d.to = 0}}
        required == (plan.installed \ previous) \cup proposed
        allowed == (plan.installed \ removed) \cup proposed
    IN  /\ plan.installed # {}
        /\ previous \subseteq plan.installed
        /\ IsMigration(plan.manifest) => actual = required
        /\ required \subseteq actual /\ actual \subseteq allowed
=============================================================================
