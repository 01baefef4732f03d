----------------------------- MODULE OfferProofs -----------------------------
(***************************************************************************)
(* What becomes of an offer, for any publisher, mirrors, packages, windows *)
(* and interleaving with clock, channel and package tools                  *)
(* (ReleasePlanning).                                                      *)
(*                                                                         *)
(* The invariant follows one operation: once staging has fetched it, its   *)
(* plan is the one confirmed for an acceptable manifest; until packages    *)
(* change, the host is as the recovery will restore it; and whatever zypper*)
(* still has to do is part of the plan.                                    *)
(***************************************************************************)
EXTENDS ReleasePlanning, FiniteSetTheorems, WellFoundedInduction, TLAPS

-----------------------------------------------------------------------------
(* The inductive invariant.                                                *)

Prepared == operation.phase \in {"ready", "applied", "failed"} \cup Offline
Fetched == operation.phase \notin {"none", "created", "staging"}

\* TypeOK, with what it leaves out.
ShapePart ==
    /\ TypeOK
    /\ mirror \in Mirrors
    /\ window \in [Windows -> [pc: WindowPcs, offer: Offers \cup {None}, cached: BOOLEAN,
                               plan: Plans \cup {None}]]
    /\ operation \in [phase: Phases, plan: Plans \cup {None}, staged: RepositoryStates,
                      before: Inventories \X Identities]

\* A started operation whose offer is published has been seen as published.
ServedPart ==
    /\ OfferIsCurrent
    /\ operation.phase = "staging" /\ published = Manifest => served

\* The plan under way is the confirmed one of an acceptable manifest.
ConfirmedPart == Fetched => CheckConfirmed(Manifest, operation.plan) /\ Acceptable(Manifest)

\* Until packages change, what a rollback restores is what there is.
BeforePart == Prepared /\ ~touched => installed = operation.before[1]

\* What zypper still has to do was confirmed; of a migration it is the pending
\* packages, each as it was or as it will be.
ApplyPart ==
    operation.phase = "apply" =>
        /\ Remaining \subseteq operation.plan.changes
        /\ Solvable(Manifest, operation.staged, operation.plan.installed)
        /\ VerifyPayloads(Manifest, operation.plan, operation.staged.genuine)
        /\ IsMigration(Manifest) =>
              \A i \in PendingMigration(Manifest, operation.plan.installed) :
                  EditionsOf(i.name, installed) \subseteq {i.from, i.to}

OfferInvariant ==
    /\ ShapePart /\ ServedPart /\ ConfirmedPart /\ BeforePart /\ ApplyPart
    /\ ConsumedMigrationIsInstalled

\* A window that was refused finds no cache, as long as it can be written and
\* no other window of the user writes it.
PreviewPart ==
    /\ refused \subseteq Windows /\ faults \in Nat
    /\ faults = 0 => \A w \in refused : cache = None /\ ~window[w].cached

-----------------------------------------------------------------------------
(* PROOFS about the operators.                                             *)

\* The first of several failing checks.
LEMMA LeastNumber ==
    ASSUME NEW T, T \subseteq Nat, T # {}
    PROVE  Min(T) \in T
  <1>1. PICK x \in T : \A y \in T : ~(<<y, x>> \in OpToRel(<, Nat))
    BY NatLessThanWellFounded, WFMin
  <1>2. ASSUME NEW y \in T PROVE x <= y
    <2>1. x \in Nat /\ y \in Nat
      BY <1>1
    <2>2. y < x => <<y, x>> \in OpToRel(<, Nat)
      BY <2>1 DEF OpToRel
    <2>3. ~(y < x)
      BY <1>1, <2>2, Zenon
    <2> QED BY <2>1, <2>3
  <1> QED BY <1>1, <1>2 DEF Min

\* The newest edition of an installed package.
LEMMA NewestEdition ==
    ASSUME NEW T, T \subseteq Editions, T # {}
    PROVE  Max(T) \in T /\ \A y \in T : y <= Max(T)
  <1> DEFINE U == {MaxEdition - t : t \in T}
  <1>0. MaxEdition \in Nat /\ \A t \in T : t \in Nat /\ t <= MaxEdition
    BY SignedOfferAssumption DEF Editions
  <1>1. U \subseteq Nat /\ U # {}
    BY <1>0
  <1>2. PICK u \in U : \A v \in U : ~(<<v, u>> \in OpToRel(<, Nat))
    <2> HIDE DEF U
    <2> QED BY <1>1, NatLessThanWellFounded, WFMin
  <1>3. PICK x \in T : u = MaxEdition - x
    BY <1>2
  <1>4. ASSUME NEW y \in T PROVE y <= x
    <2>1. MaxEdition - y \in U /\ u \in Nat /\ MaxEdition - y \in Nat
      BY <1>1, <1>2
    <2>2. MaxEdition - y < u => <<MaxEdition - y, u>> \in OpToRel(<, Nat)
      BY <2>1 DEF OpToRel
    <2>3. ~(MaxEdition - y < u)
      <3> HIDE DEF U
      <3> QED BY <1>2, <2>1, <2>2, Zenon
    <2> QED BY <1>0, <1>3, <2>3
  <1>5. \E z \in T : \A y \in T : z >= y
    BY <1>0, <1>3, <1>4
  <1>6. Max(T) \in T /\ \A y \in T : Max(T) >= y
    BY <1>5 DEF Max
  <1> QED BY <1>0, <1>6

\* The fields of a manifest.
LEMMA ManifestFields ==
    ASSUME NEW m \in Offers
    PROVE  /\ m.sequence \in Nat /\ m.valid_from \in Nat /\ m.valid_until \in Nat
           /\ m.source \in Identities /\ m.target \in Identities
           /\ m.package_migration \subseteq Items /\ m.flaw \in Flaws /\ m.status \in Statuses
  BY ReleasePlanningAssumption DEF Manifests

\* A route without an error: no check of validate_manifest_route fails,
\* whichever comes first.
LEMMA RouteAccepted ==
    ASSUME NEW m \in Offers, NEW source, NEW last \in Nat, NEW ch,
           ValidateManifestRoute(m, source, last, ch) = "Ok"
    PROVE  /\ m.flaw \notin {"schema", "target", "updater", "repository", "policy"}
           /\ m.status = "available" \/ (m.status = "testing" /\ ch = "testing")
           /\ m.source = source
           /\ IsMigration(m) => ValidateMigration(m)
           /\ ~IsMigration(m) => ValidVersionTransition(source.version, m.target.version)
           /\ m.target.version.prerelease => ch = "testing"
           /\ m.sequence # 0 /\ m.sequence > last
  <1> DEFINE checks == RouteChecks(m, source, last, ch)
             failing == {i \in DOMAIN checks : checks[i].fails}
  <1>1. DOMAIN checks = 1..12
    BY DEF RouteChecks
  <1>2. \A i \in 1..12 : checks[i].error # "Ok"
    <2>1. /\ checks[1].error # "Ok" /\ checks[2].error # "Ok" /\ checks[3].error # "Ok"
          /\ checks[4].error # "Ok" /\ checks[5].error # "Ok" /\ checks[6].error # "Ok"
          /\ checks[7].error # "Ok" /\ checks[8].error # "Ok" /\ checks[9].error # "Ok"
          /\ checks[10].error # "Ok" /\ checks[11].error # "Ok" /\ checks[12].error # "Ok"
      BY DEF RouteChecks
    <2> HIDE DEF checks
    <2> QED BY <2>1
  <1>3. failing = {}
    <2> SUFFICES ASSUME failing # {} PROVE FALSE
      OBVIOUS
    <2>1. ValidateManifestRoute(m, source, last, ch) = checks[Min(failing)].error
      BY DEF ValidateManifestRoute
    <2>2. failing \subseteq 1..12
      BY <1>1
    <2>3. failing \subseteq Nat
      BY <2>2
    <2> HIDE DEF failing, checks
    <2>4. Min(failing) \in failing
      BY <2>3, LeastNumber
    <2> QED BY <1>2, <2>1, <2>2, <2>4
  <1>4. \A i \in 1..12 : ~checks[i].fails
    BY <1>1, <1>3
  <1>5. /\ ~checks[1].fails /\ ~checks[2].fails /\ ~checks[3].fails /\ ~checks[4].fails
        /\ ~checks[5].fails /\ ~checks[6].fails /\ ~checks[7].fails /\ ~checks[9].fails
        /\ ~checks[10].fails /\ ~checks[11].fails /\ ~checks[12].fails
    <2> HIDE DEF checks
    <2> QED BY <1>4
  <1>6. m.sequence \in Nat
    BY ManifestFields
  <1>7. m.flaw \notin {"schema", "target", "updater", "repository", "policy"}
    BY <1>5 DEF RouteChecks
  <1>8. (m.status = "available" \/ (m.status = "testing" /\ ch = "testing")) /\ m.source = source
    BY <1>5 DEF RouteChecks
  <1>9. /\ IsMigration(m) => ValidateMigration(m)
        /\ ~IsMigration(m) => ValidVersionTransition(source.version, m.target.version)
        /\ m.target.version.prerelease => ch = "testing"
    BY <1>5 DEF RouteChecks
  <1>10. m.sequence # 0 /\ ~(m.sequence <= last)
    BY <1>5 DEF RouteChecks
  <1> QED BY <1>6, <1>7, <1>8, <1>9, <1>10

\* A manifest that passes verify_manifest_files is what the documents ask for,
\* and one that some host may accept.
LEMMA VerifiedManifest ==
    ASSUME NEW m \in Offers, NEW source, lastSequence \in Nat, clock \in Nat,
           VerifyManifestFiles(m, source, lastSequence, channel, clock) = "Ok"
    PROVE  Admissible(m, source) /\ Acceptable(m)
  <1>0. /\ m.sequence \in Nat /\ m.valid_from \in Nat /\ m.valid_until \in Nat /\ m.flaw \in Flaws
    BY ManifestFields
  <1>1. /\ m.flaw # "signature" /\ ValidateManifestRoute(m, source, lastSequence, channel) = "Ok"
        /\ ValidateTime(m, clock) = "Ok"
    BY DEF VerifyManifestFiles
  <1>2. m.valid_from <= clock /\ clock < m.valid_until
    BY <1>0, <1>1 DEF ValidateTime
  <1>3. /\ m.flaw \notin {"schema", "target", "updater", "repository", "policy"}
        /\ m.status = "available" \/ (m.status = "testing" /\ channel = "testing")
        /\ m.source = source
        /\ IsMigration(m) => ValidateMigration(m)
        /\ ~IsMigration(m) => ValidVersionTransition(source.version, m.target.version)
        /\ m.target.version.prerelease => channel = "testing"
        /\ m.sequence > lastSequence
    BY <1>1, RouteAccepted
  <1>4. m.flaw = "none"
    BY <1>0, <1>1, <1>3 DEF Flaws
  <1>5. Acceptable(m)
    BY <1>3, <1>4 DEF Acceptable
  <1>6. IF IsMigration(m) THEN m.target = source
        ELSE /\ ~m.target.version.calendar
             /\ ~source.version.calendar => m.target.version.number > source.version.number
    BY <1>3 DEF ValidateMigration, ValidVersionTransition
  <1> QED BY <1>2, <1>3, <1>4, <1>5, <1>6 DEF Admissible

-----------------------------------------------------------------------------
(* What zypper does, one change at a time.                                 *)

Newest(n, inventory) == Max(EditionsOf(n, inventory))
Present(n, inventory) == EditionsOf(n, inventory) # {}
Newer(r, n, inventory) == Present(n, inventory) /\ r.edition[n] > Newest(n, inventory)
Asked(i, inventory) == Present(i.name, inventory) /\ Newest(i.name, inventory) # i.to

\* The changes of a release upgrade.
LEMMA ReleaseChanges ==
    ASSUME NEW m, NEW r, NEW requested, NEW inventory \in Inventories, ~IsMigration(m), NEW c
    PROVE  c \in Solve(m, r, requested, inventory) <=>
              \/ \E n \in Names \ r.obsolete :
                    /\ Newer(r, n, inventory)
                    /\ c = ChangeOf(n, Newest(n, inventory), r.edition[n])
              \/ \E x \in inventory : x[1] \in r.obsolete /\ c = ChangeOf(x[1], x[2], 0)
  <1> DEFINE present == {n \in Names : EditionsOf(n, inventory) # {}}
             newest(n) == Max(EditionsOf(n, inventory))
             newer == {n \in present : r.edition[n] > newest(n)}
             upgrades(S) == {ChangeOf(n, newest(n), r.edition[n]) : n \in S}
             dropped == {ChangeOf(x[1], x[2], 0) : x \in {y \in inventory : y[1] \in r.obsolete}}
  <1>1. Solve(m, r, requested, inventory) = upgrades(newer \ r.obsolete) \cup dropped
    BY DEF Solve
  <1>2. c \in upgrades(newer \ r.obsolete) <=>
           \E n \in Names \ r.obsolete :
              Newer(r, n, inventory) /\ c = ChangeOf(n, Newest(n, inventory), r.edition[n])
    BY DEF Newer, Newest, Present
  <1>3. c \in dropped <=> \E x \in inventory : x[1] \in r.obsolete /\ c = ChangeOf(x[1], x[2], 0)
    OBVIOUS
  <1> HIDE DEF upgrades, dropped, newer
  <1> QED BY <1>1, <1>2, <1>3

\* The changes of a package migration.
LEMMA MigrationChanges ==
    ASSUME NEW m \in Offers, NEW r, NEW requested, NEW inventory, IsMigration(m), NEW c
    PROVE  c \in Solve(m, r, requested, inventory) <=>
              \/ \E i \in PendingMigration(m, requested) :
                    Asked(i, inventory) /\ c = ChangeOf(i.name, Newest(i.name, inventory), i.to)
              \/ \E n \in Names :
                    /\ Newer(r, n, inventory) /\ n \in r.required
                    /\ \A i \in PendingMigration(m, requested) : i.name = n => ~Asked(i, inventory)
                    /\ c = ChangeOf(n, Newest(n, inventory), r.edition[n])
  <1> DEFINE present == {n \in Names : EditionsOf(n, inventory) # {}}
             newest(n) == Max(EditionsOf(n, inventory))
             newer == {n \in present : r.edition[n] > newest(n)}
             asked == {i \in PendingMigration(m, requested) :
                          i.name \in present /\ newest(i.name) # i.to}
             upgrades(S) == {ChangeOf(n, newest(n), r.edition[n]) : n \in S}
             moved == {ChangeOf(i.name, newest(i.name), i.to) : i \in asked}
             names == {i.name : i \in asked}
  <1>1. Solve(m, r, requested, inventory) =
           moved \cup upgrades((newer \cap r.required) \ names)
    BY DEF Solve
  <1>2. \A i \in PendingMigration(m, requested) : i.name \in Names
    BY ManifestFields DEF PendingMigration, Items
  <1>3. \A i \in PendingMigration(m, requested) : i \in asked <=> Asked(i, inventory)
    BY <1>2 DEF Asked, Present, Newest
  <1>4. c \in moved <=>
           \E i \in PendingMigration(m, requested) :
              Asked(i, inventory) /\ c = ChangeOf(i.name, Newest(i.name, inventory), i.to)
    <2> HIDE DEF asked
    <2>1. \A i \in asked : i \in PendingMigration(m, requested)
      BY DEF asked
    <2> QED BY <1>3, <2>1 DEF Newest
  <1>5. \A n : n \in names <=> \E i \in PendingMigration(m, requested) : i.name = n /\ Asked(i, inventory)
    <2> HIDE DEF asked
    <2>1. \A i \in asked : i \in PendingMigration(m, requested)
      BY DEF asked
    <2> QED BY <1>3, <2>1
  <1>6. \A n : n \in newer <=> n \in Names /\ Newer(r, n, inventory)
    BY DEF Newer, Present, Newest
  <1> HIDE DEF names, newer, moved
  <1>7. c \in upgrades((newer \cap r.required) \ names) <=>
           \E n \in Names :
              /\ Newer(r, n, inventory) /\ n \in r.required
              /\ \A i \in PendingMigration(m, requested) : i.name = n => ~Asked(i, inventory)
              /\ c = ChangeOf(n, Newest(n, inventory), r.edition[n])
    <2>1. c \in upgrades((newer \cap r.required) \ names) <=>
             \E n \in newer : n \in r.required /\ n \notin names
                                /\ c = ChangeOf(n, Newest(n, inventory), r.edition[n])
      BY DEF Newest
    <2> HIDE DEF upgrades
    <2> QED BY <1>5, <1>6, <2>1
  <1> HIDE DEF upgrades
  <1> QED BY <1>1, <1>4, <1>7

\* The newest edition is installed, and an edition.
LEMMA NewestIsInstalled ==
    ASSUME NEW n, NEW inventory, Present(n, inventory)
    PROVE  /\ Newest(n, inventory) \in EditionsOf(n, inventory)
           /\ Newest(n, inventory) \in Editions /\ Newest(n, inventory) \in Nat
           /\ \A e \in EditionsOf(n, inventory) : e <= Newest(n, inventory)
  <1>1. EditionsOf(n, inventory) \subseteq Editions
    BY DEF EditionsOf
  <1>2. /\ Newest(n, inventory) \in EditionsOf(n, inventory)
        /\ \A e \in EditionsOf(n, inventory) : e <= Newest(n, inventory)
    BY <1>1, NewestEdition DEF Newest, Present
  <1>3. Newest(n, inventory) \in Editions
    BY <1>1, <1>2
  <1>4. Newest(n, inventory) \in Nat
    BY <1>3, SignedOfferAssumption DEF Editions
  <1> QED BY <1>2, <1>3, <1>4

\* Every change is one of a known package, between known editions.
LEMMA SolveTypes ==
    ASSUME NEW m \in Offers, NEW r \in RepositoryStates, NEW requested,
           NEW inventory \in Inventories
    PROVE  Solve(m, r, requested, inventory) \subseteq Changes
  <1> SUFFICES ASSUME NEW c \in Solve(m, r, requested, inventory) PROVE c \in Changes
    OBVIOUS
  <1>0. /\ MaxEdition \in Nat /\ r.edition \in [Names -> Editions]
        /\ \A e \in Editions : e \in 0..MaxEdition
    BY SignedOfferAssumption DEF RepositoryStates, Editions
  <1>1. ASSUME NEW n \in Names, NEW f \in Editions, NEW t \in 0..MaxEdition
        PROVE  ChangeOf(n, f, t) \in Changes
    BY DEF ChangeOf, Changes
  <1>2. ASSUME NEW n \in Names, Newer(r, n, inventory),
               c = ChangeOf(n, Newest(n, inventory), r.edition[n])
        PROVE  c \in Changes
    <2>1. Newest(n, inventory) \in Editions
      BY <1>2, NewestIsInstalled DEF Newer
    <2>2. r.edition[n] \in 0..MaxEdition
      BY <1>0
    <2> QED BY <1>1, <1>2, <2>1, <2>2
  <1>3. CASE IsMigration(m)
    <2>1. ASSUME NEW i \in PendingMigration(m, requested), Asked(i, inventory),
                 c = ChangeOf(i.name, Newest(i.name, inventory), i.to)
          PROVE  c \in Changes
      <3>1. i.name \in Names /\ i.to \in Editions
        BY ManifestFields DEF PendingMigration, Items
      <3>2. Newest(i.name, inventory) \in Editions
        BY <2>1, NewestIsInstalled DEF Asked
      <3> QED BY <1>0, <1>1, <2>1, <3>1, <3>2
    <2> QED BY <1>2, <1>3, <2>1, MigrationChanges
  <1>4. CASE ~IsMigration(m)
    <2>1. ASSUME NEW x \in inventory, c = ChangeOf(x[1], x[2], 0) PROVE c \in Changes
      <3>1. x \in Names \X Editions
        BY DEF Inventories
      <3>2. x[1] \in Names /\ x[2] \in Editions /\ 0 \in 0..MaxEdition
        BY <1>0, <3>1
      <3> QED BY <1>1, <2>1, <3>2
    <2> QED BY <1>2, <1>4, <2>1, ReleaseChanges
  <1> QED BY <1>3, <1>4

\* What a change leaves of its own package and of the others.
LEMMA AppliedEditions ==
    ASSUME NEW c \in Changes, NEW inventory \in Inventories
    PROVE  /\ Applied(c, inventory) \in Inventories
           /\ \A n : n # c.name => EditionsOf(n, Applied(c, inventory)) = EditionsOf(n, inventory)
           /\ \A e \in Editions :
                 e \in EditionsOf(c.name, Applied(c, inventory)) <=>
                    \/ c.to # 0 /\ e = c.to
                    \/ e \in EditionsOf(c.name, inventory)
                          /\ (e # c.from \/ (c.name \in Multiversion /\ c.to # 0))
           /\ \A x : x \in Applied(c, inventory) =>
                 x \in inventory \/ (c.to # 0 /\ x = <<c.name, c.to>>)
  <1>0. c.name \in Names /\ c.from \in Editions /\ c.to \in 0..MaxEdition
    BY DEF Changes
  <1>1. c.to # 0 => c.to \in Editions
    BY <1>0, SignedOfferAssumption DEF Editions
  <1>2. \A x : x \in Applied(c, inventory) <=>
           \/ c.to # 0 /\ x = <<c.name, c.to>>
           \/ x \in inventory /\ (x # <<c.name, c.from>> \/ (c.name \in Multiversion /\ c.to # 0))
    BY DEF Applied
  <1>3. Applied(c, inventory) \in Inventories
    BY <1>0, <1>1, <1>2 DEF Inventories
  <1> HIDE DEF Applied
  <1>4. ASSUME NEW n, n # c.name
        PROVE  EditionsOf(n, Applied(c, inventory)) = EditionsOf(n, inventory)
    <2>1. \A e \in Editions : <<n, e>> # <<c.name, c.to>> /\ <<n, e>> # <<c.name, c.from>>
      BY <1>4
    <2> QED BY <1>2, <2>1 DEF EditionsOf
  <1>5. ASSUME NEW e \in Editions
        PROVE  e \in EditionsOf(c.name, Applied(c, inventory)) <=>
                  \/ c.to # 0 /\ e = c.to
                  \/ e \in EditionsOf(c.name, inventory)
                        /\ (e # c.from \/ (c.name \in Multiversion /\ c.to # 0))
    <2>1. /\ <<c.name, e>> = <<c.name, c.to>> <=> e = c.to
          /\ <<c.name, e>> = <<c.name, c.from>> <=> e = c.from
      OBVIOUS
    <2> QED BY <1>2, <2>1 DEF EditionsOf
  <1> QED BY <1>2, <1>3, <1>4, <1>5

\* A release upgrade asks for nothing new as it goes along: the package that
\* changed is as new as the repository's, or is going away.
LEMMA ReleaseGoesOn ==
    ASSUME NEW m \in Offers, NEW r \in RepositoryStates, NEW requested,
           NEW inventory \in Inventories, ~IsMigration(m),
           NEW c \in Solve(m, r, requested, inventory)
    PROVE  Solve(m, r, requested, Applied(c, inventory)) \subseteq Solve(m, r, requested, inventory)
  <1> DEFINE after == Applied(c, inventory)
  <1>0. c \in Changes
    BY SolveTypes
  <1>1. /\ after \in Inventories
        /\ \A n : n # c.name => EditionsOf(n, after) = EditionsOf(n, inventory)
        /\ \A e \in Editions : c.to # 0 /\ e = c.to => e \in EditionsOf(c.name, after)
        /\ \A x : x \in after => x \in inventory \/ (c.to # 0 /\ x = <<c.name, c.to>>)
    BY <1>0, AppliedEditions
  <1> HIDE DEF after
  <1>2. \/ \E n \in Names \ r.obsolete :
              Newer(r, n, inventory) /\ c = ChangeOf(n, Newest(n, inventory), r.edition[n])
        \/ \E x \in inventory : x[1] \in r.obsolete /\ c = ChangeOf(x[1], x[2], 0)
    BY ReleaseChanges
  <1>3. \/ c.name \in Names \ r.obsolete /\ c.to = r.edition[c.name]
        \/ c.name \in r.obsolete /\ c.to = 0
    BY <1>2 DEF ChangeOf
  <1> SUFFICES ASSUME NEW d \in Solve(m, r, requested, after)
               PROVE  d \in Solve(m, r, requested, inventory)
    BY DEF after
  <1>4. ASSUME NEW n \in Names \ r.obsolete, Newer(r, n, after),
               d = ChangeOf(n, Newest(n, after), r.edition[n])
        PROVE  d \in Solve(m, r, requested, inventory)
    <2>1. n # c.name
      <3> SUFFICES ASSUME n = c.name PROVE FALSE
        OBVIOUS
      <3>1. c.to = r.edition[n] /\ r.edition[n] \in Editions /\ r.edition[n] \in Nat
            /\ r.edition[n] # 0
        BY <1>3, SignedOfferAssumption DEF RepositoryStates, Editions
      <3>2. r.edition[n] \in EditionsOf(n, after)
        BY <1>1, <3>1
      <3>3. r.edition[n] <= Newest(n, after) /\ Newest(n, after) \in Nat
        BY <1>4, <3>2, NewestIsInstalled DEF Newer
      <3> QED BY <1>4, <3>1, <3>3 DEF Newer
    <2>2. EditionsOf(n, after) = EditionsOf(n, inventory)
      BY <1>1, <2>1
    <2>3. Newer(r, n, inventory) /\ d = ChangeOf(n, Newest(n, inventory), r.edition[n])
      BY <1>4, <2>2 DEF Newer, Newest, Present
    <2> QED BY <2>3, ReleaseChanges
  <1>5. ASSUME NEW x \in after, x[1] \in r.obsolete, d = ChangeOf(x[1], x[2], 0)
        PROVE  d \in Solve(m, r, requested, inventory)
    <2>1. x \in inventory
      <3>1. c.to # 0 => c.name \notin r.obsolete
        BY <1>3
      <3> QED BY <1>1, <1>5, <3>1
    <2> QED BY <1>5, <2>1, ReleaseChanges
  <1> QED BY <1>1, <1>4, <1>5, ReleaseChanges

\* A migration goes on with the packages that are pending, each of them as it
\* was or as it will be, until all are migrated.
LEMMA MigrationGoesOn ==
    ASSUME NEW m \in Offers, NEW r \in RepositoryStates, NEW requested,
           NEW inventory \in Inventories, IsMigration(m), ValidateMigration(m),
           Solvable(m, r, requested), NEW changes, changes \subseteq Changes,
           \A d : d \in changes <=>
              \E i \in PendingMigration(m, requested) : d = ChangeOf(i.name, i.from, i.to),
           \A i \in PendingMigration(m, requested) :
              EditionsOf(i.name, inventory) \subseteq {i.from, i.to},
           Solve(m, r, requested, inventory) \subseteq changes,
           NEW c \in Solve(m, r, requested, inventory)
    PROVE  /\ Solve(m, r, requested, Applied(c, inventory)) \subseteq changes
           /\ \A i \in PendingMigration(m, requested) :
                 EditionsOf(i.name, Applied(c, inventory)) \subseteq {i.from, i.to}
  <1> DEFINE after == Applied(c, inventory)
             P == PendingMigration(m, requested)
  <1>0. c \in Changes /\ c \in changes
    OBVIOUS
  <1>1. /\ after \in Inventories
        /\ \A n : n # c.name => EditionsOf(n, after) = EditionsOf(n, inventory)
        /\ \A e \in Editions :
              e \in EditionsOf(c.name, after) =>
                 (c.to # 0 /\ e = c.to) \/ e \in EditionsOf(c.name, inventory)
    BY <1>0, AppliedEditions
  <1> HIDE DEF after
  <1>2. /\ P \subseteq m.package_migration /\ P \subseteq Items
        /\ \A i, j \in P : i.name = j.name => i = j
        /\ \A i \in P : r.edition[i.name] = i.to
    BY ManifestFields DEF PendingMigration, ValidateMigration, Solvable
  <1>3. PICK k \in P : c = ChangeOf(k.name, k.from, k.to)
    BY <1>0
  <1>4. c.name = k.name /\ c.from = k.from /\ c.to = k.to
    BY <1>3 DEF ChangeOf
  <1> HIDE DEF P
  <1>5. ASSUME NEW i \in P PROVE EditionsOf(i.name, after) \subseteq {i.from, i.to}
    <2>1. EditionsOf(i.name, inventory) \subseteq {i.from, i.to}
      BY DEF P
    <2>2. CASE i.name # c.name
      BY <1>1, <2>1, <2>2
    <2>3. CASE i.name = c.name
      <3>1. i = k
        BY <1>2, <1>4, <2>3
      <3>2. EditionsOf(i.name, after) \subseteq Editions
        BY DEF EditionsOf
      <3> QED BY <1>1, <1>4, <2>1, <2>3, <3>1, <3>2
    <2> QED BY <2>2, <2>3
  <1>6. ASSUME NEW d \in Solve(m, r, requested, after) PROVE d \in changes
    <2>1. ASSUME NEW i \in P, Asked(i, after), d = ChangeOf(i.name, Newest(i.name, after), i.to)
          PROVE  d \in changes
      <3>1. Newest(i.name, after) \in EditionsOf(i.name, after)
        BY <2>1, NewestIsInstalled DEF Asked
      <3>2. Newest(i.name, after) = i.from
        BY <1>5, <2>1, <3>1 DEF Asked
      <3> QED BY <2>1, <3>2 DEF P
    <2>2. ASSUME NEW n \in Names, Newer(r, n, after), n \in r.required,
                 \A i \in P : i.name = n => ~Asked(i, after),
                 d = ChangeOf(n, Newest(n, after), r.edition[n])
          PROVE  d \in changes
      <3>1. \A i \in P : i.name # n
        <4> SUFFICES ASSUME NEW i \in P, i.name = n PROVE FALSE
          OBVIOUS
        <4>1. Newest(n, after) \in Nat /\ r.edition[n] > Newest(n, after) /\ Present(n, after)
          BY <2>2, NewestIsInstalled DEF Newer
        <4>2. r.edition[n] = i.to
          BY <1>2
        <4>3. Newest(n, after) # i.to
          BY <4>1, <4>2
        <4> QED BY <2>2, <4>1, <4>3 DEF Asked
      <3>2. EditionsOf(n, after) = EditionsOf(n, inventory)
        BY <1>1, <1>4, <3>1
      <3>3. Newer(r, n, inventory) /\ d = ChangeOf(n, Newest(n, inventory), r.edition[n])
        BY <2>2, <3>2 DEF Newer, Newest, Present
      <3>4. d \in Solve(m, r, requested, inventory)
        BY <2>2, <3>1, <3>3, MigrationChanges DEF P
      <3> QED BY <3>4
    <2> QED BY <2>1, <2>2, MigrationChanges DEF P
  <1> QED BY <1>5, <1>6 DEF after, P

\* A verified migration has moved every package of its list that is there:
\* verify_result compares with the confirmed inventory and changes.
LEMMA MigrationIsWhole ==
    ASSUME NEW plan \in Plans, IsMigration(plan.manifest), ValidateMigration(plan.manifest),
           CheckConfirmed(plan.manifest, plan), NEW actual, VerifyResult(plan, actual),
           NEW i \in plan.manifest.package_migration
    PROVE  Skipped(i, actual) \/ EditionsOf(i.name, actual) = {i.to}
  <1> DEFINE m == plan.manifest
             P == PendingMigration(m, plan.installed)
             previous == {<<c.name, c.from>> : c \in plan.changes}
             proposed == {<<c.name, c.to>> : c \in {d \in plan.changes : d.to # 0}}
  <1>0. m \in Offers
    BY DEF Plans
  <1>1. /\ m.package_migration \subseteq Items /\ i \in Items
        /\ \A j, k \in m.package_migration : j.name = k.name => j = k
        /\ i.from # i.to
    BY <1>0, ManifestFields DEF ValidateMigration
  <1>2. /\ IdentityHolds(m, plan.installed)
        /\ plan.changes = {ChangeOf(j.name, j.from, j.to) : j \in P}
    BY DEF CheckConfirmed, ValidateMigrationPlan
  <1>3. actual = (plan.installed \ previous) \cup proposed
    BY DEF VerifyResult
  <1>4. P \subseteq m.package_migration /\ \A j \in P : j \in Items
    BY <1>1 DEF PendingMigration
  <1>5. \A x : x \in previous <=> \E j \in P : x = <<j.name, j.from>>
    <2>1. \A c : c \in plan.changes <=> \E j \in P : c = ChangeOf(j.name, j.from, j.to)
      BY <1>2
    <2>2. \A x : x \in previous <=> \E c \in plan.changes : x = <<c.name, c.from>>
      OBVIOUS
    <2>3. ASSUME NEW j
          PROVE  /\ ChangeOf(j.name, j.from, j.to).from = j.from
                 /\ ChangeOf(j.name, j.from, j.to).name = j.name
      BY DEF ChangeOf
    <2> HIDE DEF previous, P
    <2> QED BY <2>1, <2>2, <2>3
  <1>6. \A x : x \in proposed <=> \E j \in P : x = <<j.name, j.to>>
    <2>1. \A j \in P : j.to # 0
      BY <1>4, SignedOfferAssumption DEF Items, Editions
    <2>2. \A c : c \in plan.changes <=> \E j \in P : c = ChangeOf(j.name, j.from, j.to)
      BY <1>2
    <2>3. \A x : x \in proposed <=> \E c \in plan.changes : c.to # 0 /\ x = <<c.name, c.to>>
      OBVIOUS
    <2>4. ASSUME NEW j
          PROVE  /\ ChangeOf(j.name, j.from, j.to).to = j.to
                 /\ ChangeOf(j.name, j.from, j.to).name = j.name
      BY DEF ChangeOf
    <2> HIDE DEF proposed, P
    <2> QED BY <2>1, <2>2, <2>3, <2>4
  <1> HIDE DEF previous, proposed
  <1>7. ASSUME NEW e \in Editions
        PROVE  /\ <<i.name, e>> \in previous <=> i \in P /\ e = i.from
               /\ <<i.name, e>> \in proposed <=> i \in P /\ e = i.to
    <2>1. \A j \in P : j.name = i.name => j = i
      BY <1>1, <1>4
    <2>2. \A j : <<i.name, e>> = <<j.name, j.from>> <=> i.name = j.name /\ e = j.from
      OBVIOUS
    <2>3. \A j : <<i.name, e>> = <<j.name, j.to>> <=> i.name = j.name /\ e = j.to
      OBVIOUS
    <2> HIDE DEF P
    <2>4. <<i.name, e>> \in previous <=> \E j \in P : i.name = j.name /\ e = j.from
      BY <1>5, <2>2, Zenon
    <2>5. <<i.name, e>> \in proposed <=> \E j \in P : i.name = j.name /\ e = j.to
      BY <1>6, <2>3, Zenon
    <2> QED BY <2>1, <2>4, <2>5
  <1>8. \A e \in Editions :
           e \in EditionsOf(i.name, actual) <=>
              \/ i \in P /\ e = i.to
              \/ e \in EditionsOf(i.name, plan.installed) /\ ~(i \in P /\ e = i.from)
    <2> HIDE DEF P
    <2> QED BY <1>3, <1>7 DEF EditionsOf
  <1>9. /\ EditionsOf(i.name, actual) \subseteq Editions
        /\ EditionsOf(i.name, plan.installed) \subseteq Editions
        /\ i.to \in Editions /\ i.from \in Editions
    BY <1>1 DEF EditionsOf, Items
  <1>10. CASE Skipped(i, plan.installed)
    <2>1. i \notin P
      BY <1>10 DEF PendingMigration
    <2>2. EditionsOf(i.name, actual) = {} /\ i.if_installed
      BY <1>8, <1>9, <1>10, <2>1 DEF Skipped
    <2> QED BY <2>2 DEF Skipped
  <1>11. CASE ~Skipped(i, plan.installed) /\ EditionsOf(i.name, plan.installed) = {i.to}
    <2>1. i \notin P
      BY <1>11 DEF PendingMigration
    <2> QED BY <1>8, <1>9, <1>11, <2>1
  <1>12. CASE ~Skipped(i, plan.installed) /\ EditionsOf(i.name, plan.installed) = {i.from}
    <2>1. i \in P
      BY <1>1, <1>12 DEF PendingMigration
    <2> HIDE DEF P
    <2> QED BY <1>8, <1>9, <1>12, <2>1
  <1>13. Skipped(i, plan.installed) \/ EditionsOf(i.name, plan.installed) \in {{i.from}, {i.to}}
    BY <1>2 DEF IdentityHolds
  <1> QED BY <1>10, <1>11, <1>12, <1>13

-----------------------------------------------------------------------------
(* The shape of the state.                                                 *)

WindowStates ==
    [pc: WindowPcs, offer: Offers \cup {None}, cached: BOOLEAN, plan: Plans \cup {None}]
OperationStates ==
    [phase: Phases, plan: Plans \cup {None}, staged: RepositoryStates,
     before: Inventories \X Identities]

\* A window has what its step needs.
Equipped(x) ==
    /\ x \in WindowStates
    /\ x.pc \in {"save", "offered", "plan"} => x.offer # None
    /\ x.plan # None <=> x.pc \in {"planned", "start", "spawn"}

Underway(x) == x \in OperationStates /\ (x.phase # "none" => x.plan # None)

\* The shape, by its parts.
LEMMA Shape ==
    ShapePart <=>
        /\ published \in Offers /\ clock \in 0..MaxClock /\ channel \in Channels
        /\ installed \in Inventories /\ identity \in Identities /\ lastSequence \in Nat
        /\ cache \in Offers \cup {None} /\ mirror \in Mirrors
        /\ window \in [Windows -> WindowStates] /\ \A w \in Windows : Equipped(window[w])
        /\ Underway(operation)
  <1>0. None \notin Plans
    BY ReleasePlanningAssumption
  <1>1. ASSUME window \in [Windows -> WindowStates], NEW w \in Windows
        PROVE  /\ window[w] \in WindowStates
               /\ window[w].pc \in WindowPcs /\ window[w].cached \in BOOLEAN
               /\ window[w].offer \in Offers \cup {None}
    BY <1>1 DEF WindowStates
  <1>2. ASSUME operation \in OperationStates
        PROVE  operation.phase \in Phases /\ operation.plan \in Plans \cup {None}
    BY <1>2 DEF OperationStates
  <1>3. ASSUME operation \in OperationStates
        PROVE  (operation.phase # "none" => operation.plan \in Plans)
                 <=> (operation.phase # "none" => operation.plan # None)
    BY <1>0, <1>2, <1>3
  <1> QED BY <1>1, <1>2, <1>3 DEF ShapePart, TypeOK, Equipped, Underway, WindowStates, OperationStates

\* The shape of the next state, from its parts.
LEMMA NextShape ==
    ASSUME published' \in Offers, clock' \in 0..MaxClock, channel' \in Channels,
           installed' \in Inventories, identity' \in Identities, lastSequence' \in Nat,
           cache' \in Offers \cup {None}, mirror' \in Mirrors,
           window' \in [Windows -> WindowStates], \A w \in Windows : Equipped(window'[w]),
           Underway(operation')
    PROVE  ShapePart'
  <1>1. ASSUME NEW w \in Windows
        PROVE  /\ window'[w].pc \in WindowPcs /\ window'[w].cached \in BOOLEAN
               /\ window'[w].offer \in Offers \cup {None}
    BY DEF WindowStates
  <1>2. operation'.phase \in Phases /\ operation'.plan \in Plans \cup {None}
    BY DEF Underway, OperationStates
  <1>3. operation'.phase # "none" => operation'.plan \in Plans
    BY <1>2 DEF Underway
  <1> QED BY <1>1, <1>2, <1>3 DEF ShapePart, TypeOK, Equipped, Underway, WindowStates, OperationStates

\* The fields of the operation.
LEMMA OperationFields ==
    ASSUME ShapePart
    PROVE  /\ operation \in OperationStates /\ operation.phase \in Phases
           /\ operation.plan \in Plans \cup {None} /\ operation.staged \in RepositoryStates
           /\ operation.before \in Inventories \X Identities
           /\ operation.before[1] \in Inventories /\ operation.before[2] \in Identities
           /\ operation.phase # "none" =>
                 /\ operation.plan \in Plans /\ Manifest \in Offers
                 /\ operation.plan.source \in Identities
                 /\ operation.plan.installed \in Inventories
                 /\ operation.plan.changes \subseteq Changes
  <1>1. Underway(operation)
    BY Shape
  <1>2. /\ operation \in OperationStates /\ operation.phase \in Phases
        /\ operation.plan \in Plans \cup {None} /\ operation.staged \in RepositoryStates
        /\ operation.before \in Inventories \X Identities
    BY <1>1 DEF Underway, OperationStates
  <1>3. operation.before[1] \in Inventories /\ operation.before[2] \in Identities
    BY <1>2
  <1>4. operation.phase # "none" => operation.plan \in Plans
    BY <1>1, <1>2 DEF Underway
  <1>5. ASSUME operation.plan \in Plans
        PROVE  /\ Manifest \in Offers /\ operation.plan.source \in Identities
               /\ operation.plan.installed \in Inventories
               /\ operation.plan.changes \subseteq Changes
    BY <1>5 DEF Plans, Manifest
  <1> QED BY <1>2, <1>3, <1>4, <1>5

\* No operation.
LEMMA NoOperationShape ==
    /\ Underway(NoOperation) /\ NoOperation.phase = "none"
    /\ \A plan \in Plans :
          /\ Underway([NoOperation EXCEPT !.phase = "created", !.plan = plan])
          /\ [NoOperation EXCEPT !.phase = "created", !.plan = plan].phase = "created"
  <1>1. /\ InitialMirror \in RepositoryStates /\ InitialIdentity \in Identities
        /\ None \notin Plans /\ {} \in Inventories
    BY ReleasePlanningAssumption DEF Inventories
  <1>2. <<{}, InitialIdentity>> \in Inventories \X Identities
    BY <1>1
  <1> QED BY <1>1, <1>2 DEF NoOperation, Underway, OperationStates, Phases

\* A step that only moves the operation to another phase.
LEMMA ToStep ==
    ASSUME ShapePart, operation.phase # "none", NEW p \in Phases \ {"none"}, To(p)
    PROVE  /\ Underway(operation') /\ operation'.phase = p
           /\ operation'.plan = operation.plan /\ operation'.staged = operation.staged
           /\ operation'.before = operation.before
  <1>1. operation \in OperationStates /\ operation.plan # None
    BY OperationFields, ReleasePlanningAssumption
  <1>2. operation' = [operation EXCEPT !.phase = p]
    BY DEF To
  <1> QED BY <1>1, <1>2 DEF Underway, OperationStates

\* A window without offer and plan.
LEMMA ClosedWindow ==
    /\ Equipped(Closed)
    /\ Equipped([Closed EXCEPT !.pc = "forget"]) /\ Equipped([Closed EXCEPT !.pc = "following"])
    /\ \A m \in Offers :
          /\ Equipped([Closed EXCEPT !.pc = "save", !.offer = m])
          /\ Equipped([Closed EXCEPT !.pc = "forget", !.offer = m])
          /\ Equipped([Closed EXCEPT !.pc = "offered", !.offer = m, !.cached = TRUE])
    /\ \A plan \in Plans : Equipped([Closed EXCEPT !.pc = "planned", !.plan = plan])
  BY ReleasePlanningAssumption DEF Equipped, WindowStates, Closed, WindowPcs

\* A window changes, the others do not.
LEMMA WindowStepShape ==
    ASSUME ShapePart, NEW w \in Windows, NEW x, Equipped(x), window' = [window EXCEPT ![w] = x]
    PROVE  /\ window' \in [Windows -> WindowStates] /\ \A v \in Windows : Equipped(window'[v])
           /\ window'[w] = x /\ \A v \in Windows \ {w} : window'[v] = window[v]
  <1>1. window \in [Windows -> WindowStates] /\ \A v \in Windows : Equipped(window[v])
    BY Shape
  <1>2. x \in WindowStates
    BY DEF Equipped
  <1> QED BY <1>1, <1>2

\* A window goes on to a step that needs what it has.
LEMMA WindowGoes ==
    ASSUME ShapePart, NEW w \in Windows, NEW p, window' = [window EXCEPT ![w].pc = p],
           \/ window[w].pc = "save" /\ p = "offered"
           \/ window[w].pc = "offered" /\ p = "plan"
           \/ window[w].pc = "plan" /\ p = "offered"
           \/ window[w].pc \in {"planned", "start", "spawn"} /\ p \in {"planned", "start", "spawn"}
    PROVE  /\ window' \in [Windows -> WindowStates] /\ \A v \in Windows : Equipped(window'[v])
           /\ window'[w].pc = p /\ window'[w].offer = window[w].offer
           /\ \A v \in Windows \ {w} : window'[v] = window[v]
  <1> DEFINE x == [window[w] EXCEPT !.pc = p]
  <1>1. Equipped(window[w]) /\ window[w] \in WindowStates
    BY Shape DEF Equipped
  <1>2. window' = [window EXCEPT ![w] = x]
    OBVIOUS
  <1>3. x.pc = p /\ x.offer = window[w].offer /\ x.plan = window[w].plan /\ x \in WindowStates
    BY <1>1 DEF WindowStates, WindowPcs
  <1> HIDE DEF x
  <1>4. Equipped(x)
    BY <1>1, <1>3 DEF Equipped
  <1> QED BY <1>2, <1>3, <1>4, WindowStepShape

\* Each part survives a step that leaves what it speaks of alone.
LEMMA OfferFrame ==
    ASSUME OfferInvariant
    PROVE  /\ operation' = operation /\ published' = published /\ served' = served => ServedPart'
           /\ operation' = operation => ConfirmedPart'
           /\ operation' = operation /\ installed' = installed /\ touched' = touched => BeforePart'
           /\ operation' = operation /\ installed' = installed => ApplyPart'
           /\ lastSequence' = lastSequence /\ installed' = installed /\ touched' = touched =>
                 ConsumedMigrationIsInstalled'
  <1> USE DEF OfferInvariant
  <1>1. operation' = operation /\ published' = published /\ served' = served => ServedPart'
    BY DEF ServedPart, OfferIsCurrent, Manifest
  <1>2. operation' = operation => ConfirmedPart'
    BY DEF ConfirmedPart, Fetched, Manifest
  <1>3. operation' = operation /\ installed' = installed /\ touched' = touched => BeforePart'
    BY DEF BeforePart, Prepared
  <1>4. operation' = operation /\ installed' = installed => ApplyPart'
    BY DEF ApplyPart, Remaining, Manifest
  <1>5. lastSequence' = lastSequence /\ installed' = installed /\ touched' = touched =>
           ConsumedMigrationIsInstalled'
    BY DEF ConsumedMigrationIsInstalled
  <1> QED BY <1>1, <1>2, <1>3, <1>4, <1>5

-----------------------------------------------------------------------------
(* The world outside and the windows.                                      *)

\* Publisher, mirrors, clock, channel, package tools and damage on disk.
LEMMA WorldStep ==
    ASSUME OfferInvariant, World
    PROVE  OfferInvariant'
  <1> USE DEF OfferInvariant
  <1>0. /\ ShapePart /\ published \in Offers /\ clock \in 0..MaxClock /\ channel \in Channels
        /\ installed \in Inventories /\ identity \in Identities /\ lastSequence \in Nat
        /\ cache \in Offers \cup {None} /\ mirror \in Mirrors
        /\ window \in [Windows -> WindowStates] /\ \A w \in Windows : Equipped(window[w])
        /\ Underway(operation) /\ Mirrors \subseteq RepositoryStates
    BY Shape, ReleasePlanningAssumption
  <1>1. CASE Publish
    <2>1. PICK m \in Offers \ {published} :
             /\ published' = m
             /\ served' = (served \/ (operation.phase # "none" /\ operation.plan.manifest = m))
      BY <1>1 DEF Publish
    <2>2. /\ mirror' = mirror /\ clock' = clock /\ channel' = channel /\ installed' = installed
          /\ identity' = identity /\ lastSequence' = lastSequence /\ cache' = cache
          /\ window' = window /\ operation' = operation /\ touched' = touched
      BY <1>1 DEF Publish, host
    <2>3. ShapePart'
      BY <1>0, <2>1, <2>2, NextShape
    <2>4. ServedPart'
      BY <2>1, <2>2 DEF ServedPart, OfferIsCurrent, Manifest
    <2> QED BY <2>2, <2>3, <2>4, OfferFrame
  <1>2. CASE MirrorMoves \/ Tick \/ SwitchChannel
    <2>1. /\ published' = published /\ installed' = installed
          /\ identity' = identity /\ lastSequence' = lastSequence /\ cache' = cache
          /\ window' = window /\ operation' = operation /\ touched' = touched /\ served' = served
      BY <1>2 DEF MirrorMoves, Tick, SwitchChannel, host, history
    <2>2. mirror' \in Mirrors /\ channel' \in Channels
      BY <1>0, <1>2 DEF MirrorMoves, Tick, SwitchChannel
    <2>3. clock' \in 0..MaxClock
      BY <1>0, <1>2, ReleasePlanningAssumption DEF MirrorMoves, Tick, SwitchChannel
    <2>4. ShapePart'
      BY <1>0, <2>1, <2>2, <2>3, NextShape
    <2> QED BY <2>1, <2>4, OfferFrame
  <1>3. CASE PackageTool
    <2>1. PICK n \in Names :
             installed' \in {{p \in installed : p[1] # n},
                             {p \in installed : p[1] # n} \cup {<<n, mirror.edition[n]>>}}
      BY <1>3 DEF PackageTool
    <2>2. /\ published' = published /\ mirror' = mirror /\ clock' = clock /\ channel' = channel
          /\ identity' = identity /\ lastSequence' = lastSequence /\ cache' = cache
          /\ window' = window /\ operation' = operation /\ touched' = TRUE /\ served' = served
          /\ operation.phase \notin Offline
      BY <1>3 DEF PackageTool, environment
    <2>3. installed' \in Inventories
      <3>1. mirror.edition[n] \in Editions
        BY <1>0 DEF RepositoryStates
      <3> QED BY <1>0, <2>1, <3>1 DEF Inventories
    <2>4. ShapePart'
      BY <1>0, <2>2, <2>3, NextShape
    <2>5. BeforePart' /\ ApplyPart' /\ ConsumedMigrationIsInstalled'
      BY <2>2 DEF BeforePart, ApplyPart, ConsumedMigrationIsInstalled, Offline
    <2> QED BY <2>2, <2>4, <2>5, OfferFrame
  <1>4. CASE DamagePayload
    <2>1. PICK n \in operation.staged.genuine :
             operation' = [operation EXCEPT !.staged.genuine = operation.staged.genuine \ {n}]
      BY <1>4 DEF DamagePayload
    <2>2. /\ published' = published /\ mirror' = mirror /\ clock' = clock /\ channel' = channel
          /\ installed' = installed /\ identity' = identity /\ lastSequence' = lastSequence
          /\ cache' = cache /\ window' = window /\ touched' = touched /\ served' = served
          /\ operation.phase \in {"recheck", "ready"}
      BY <1>4 DEF DamagePayload, environment, host, history
    <2>3. operation \in OperationStates /\ operation.staged \in RepositoryStates /\ operation.plan # None
      BY <1>0, <2>2, OperationFields, ReleasePlanningAssumption
    <2> DEFINE r == [operation.staged EXCEPT !.genuine = operation.staged.genuine \ {n}]
    <2>4. r \in RepositoryStates
      BY <2>3 DEF RepositoryStates
    <2>5. operation' = [operation EXCEPT !.staged = r]
      BY <2>1
    <2> HIDE DEF r
    <2>6. /\ operation' \in OperationStates /\ operation'.phase = operation.phase
          /\ operation'.plan = operation.plan /\ operation'.before = operation.before
      BY <2>3, <2>4, <2>5 DEF OperationStates
    <2>7. ShapePart'
      BY <1>0, <2>2, <2>3, <2>6, NextShape DEF Underway
    <2>8. ServedPart' /\ ConfirmedPart' /\ BeforePart' /\ ApplyPart'
      BY <2>2, <2>6 DEF ServedPart, OfferIsCurrent, ConfirmedPart, Fetched, BeforePart, Prepared,
                        ApplyPart, Manifest, Offline
    <2> QED BY <2>2, <2>7, <2>8, OfferFrame
  <1> QED BY <1>1, <1>2, <1>3, <1>4 DEF World

\* Only windows and the cache change.
LEMMA QuietWindows ==
    ASSUME OfferInvariant, UNCHANGED <<environment, host, operation, served, touched>>,
           window' \in [Windows -> WindowStates], \A v \in Windows : Equipped(window'[v]),
           cache' \in Offers \cup {None}
    PROVE  OfferInvariant'
  <1> USE DEF OfferInvariant
  <1>1. /\ published' = published /\ mirror' = mirror /\ clock' = clock /\ channel' = channel
        /\ installed' = installed /\ identity' = identity /\ lastSequence' = lastSequence
        /\ operation' = operation /\ touched' = touched /\ served' = served
    BY DEF environment, host
  <1>2. ShapePart'
    BY <1>1, Shape, NextShape
  <1> QED BY <1>1, <1>2, OfferFrame

\* A plan that can be computed is a plan.
LEMMA PlanTypes ==
    ASSUME ShapePart, NEW m \in Offers
    PROVE  PlanReleaseUpgrade(m, identity, mirror, installed) \in Plans
  <1>1. /\ mirror \in RepositoryStates /\ installed \in Inventories /\ identity \in Identities
    BY Shape, ReleasePlanningAssumption
  <1>2. Solve(m, mirror, installed, installed) \subseteq Changes
    BY <1>1, SolveTypes
  <1> QED BY <1>1, <1>2 DEF PlanReleaseUpgrade, Plan, Plans

\* An offer is looked for, shown, planned and confirmed.
LEMMA ShowStep ==
    ASSUME OfferInvariant, NEW w \in Windows,
           \/ CheckRelease(w) \/ SavePreview(w) \/ ForgetPreview(w)
           \/ PlanRelease(w) \/ ComputePlan(w) \/ StartFetch(w) \/ StartRefused(w)
           \/ ServiceDies(w) \/ StartAgain(w)
    PROVE  OfferInvariant'
  <1>0. /\ ShapePart /\ published \in Offers /\ cache \in Offers \cup {None}
        /\ Equipped(window[w])
    BY Shape DEF OfferInvariant
  <1>1. UNCHANGED <<environment, host, operation, served, touched>>
    BY DEF CheckRelease, SavePreview, ForgetPreview, PlanRelease, ComputePlan, StartFetch,
           StartRefused, ServiceDies, StartAgain, history
  <1>2. CASE CheckRelease(w)
    <2>1. cache' = cache
      BY <1>2 DEF CheckRelease
    <2>2. PICK x : Equipped(x) /\ window' = [window EXCEPT ![w] = x]
      <3>1. /\ Equipped([Closed EXCEPT !.pc = "save", !.offer = published])
            /\ Equipped([Closed EXCEPT !.pc = "forget", !.offer = published])
            /\ Equipped(Closed) /\ Equipped([Closed EXCEPT !.pc = "forget"])
            /\ CachedIsValid(cache) =>
                  Equipped([Closed EXCEPT !.pc = "offered", !.offer = cache, !.cached = TRUE])
        BY <1>0, ClosedWindow DEF CachedIsValid
      <3> QED BY <1>2, <3>1, Zenon DEF CheckRelease
    <2>3. window' \in [Windows -> WindowStates] /\ \A v \in Windows : Equipped(window'[v])
      BY <1>0, <2>2, WindowStepShape
    <2> QED BY <1>0, <1>1, <2>1, <2>3, QuietWindows
  <1>3. CASE SavePreview(w)
    <2>1. /\ window' = [window EXCEPT ![w].pc = "offered"] /\ window[w].pc = "save"
          /\ cache' \in {window[w].offer, cache}
      BY <1>3 DEF SavePreview
    <2>2. cache' \in Offers \cup {None}
      BY <1>0, <2>1 DEF Equipped, WindowStates
    <2>3. window' \in [Windows -> WindowStates] /\ \A v \in Windows : Equipped(window'[v])
      BY <1>0, <2>1, WindowGoes
    <2> QED BY <1>1, <2>2, <2>3, QuietWindows
  <1>4. CASE ForgetPreview(w)
    <2>1. window' = [window EXCEPT ![w] = Closed] /\ cache' \in {None, cache}
      BY <1>4 DEF ForgetPreview
    <2>2. window' \in [Windows -> WindowStates] /\ \A v \in Windows : Equipped(window'[v])
      BY <1>0, <2>1, WindowStepShape, ClosedWindow
    <2> QED BY <1>0, <1>1, <2>1, <2>2, QuietWindows
  <1>5. CASE ComputePlan(w)
    <2> DEFINE plan == PlanReleaseUpgrade(window[w].offer, identity, mirror, installed)
    <2>1. /\ window[w].pc = "plan" /\ cache' = cache
          /\ \/ window' = [window EXCEPT ![w] = [Closed EXCEPT !.pc = "planned", !.plan = plan]]
             \/ window' = [window EXCEPT ![w].pc = "offered"]
      BY <1>5 DEF ComputePlan
    <2>2. window[w].offer \in Offers
      BY <1>0, <2>1 DEF Equipped, WindowStates
    <2>3. plan \in Plans
      BY <1>0, <2>2, PlanTypes
    <2> HIDE DEF plan
    <2>4. window' \in [Windows -> WindowStates] /\ \A v \in Windows : Equipped(window'[v])
      <3>1. CASE window' = [window EXCEPT ![w] = [Closed EXCEPT !.pc = "planned", !.plan = plan]]
        <4> DEFINE x == [Closed EXCEPT !.pc = "planned", !.plan = plan]
        <4>1. Equipped(x)
          BY <2>3, ClosedWindow
        <4>2. window' = [window EXCEPT ![w] = x]
          BY <3>1
        <4> HIDE DEF x
        <4> QED BY <1>0, <4>1, <4>2, WindowStepShape
      <3>2. CASE window' = [window EXCEPT ![w].pc = "offered"]
        BY <1>0, <2>1, <3>2, WindowGoes
      <3> QED BY <2>1, <3>1, <3>2
    <2> QED BY <1>0, <1>1, <2>1, <2>4, QuietWindows
  <1>6. CASE PlanRelease(w) \/ StartFetch(w) \/ StartRefused(w) \/ ServiceDies(w) \/ StartAgain(w)
    <2>1. cache' = cache
      BY <1>6 DEF PlanRelease, StartFetch, StartRefused, ServiceDies, StartAgain
    <2>2. \E p \in {"plan", "planned", "start", "spawn"} :
             /\ window' = [window EXCEPT ![w].pc = p]
             /\ \/ window[w].pc = "offered" /\ p = "plan"
                \/ window[w].pc \in {"planned", "start", "spawn"} /\ p \in {"planned", "start", "spawn"}
      BY <1>6 DEF PlanRelease, StartFetch, StartRefused, ServiceDies, StartAgain
    <2>3. window' \in [Windows -> WindowStates] /\ \A v \in Windows : Equipped(window'[v])
      BY <1>0, <2>2, WindowGoes
    <2> QED BY <1>0, <1>1, <2>1, <2>3, QuietWindows
  <1> QED BY <1>2, <1>3, <1>4, <1>5, <1>6

\* An operation is created, started or given up.
LEMMA StartStep ==
    ASSUME OfferInvariant, NEW w \in Windows, StartPlan(w) \/ Spawn(w) \/ CloseWindow(w)
    PROVE  OfferInvariant'
  <1> USE DEF OfferInvariant
  <1>0. /\ ShapePart /\ Equipped(window[w]) /\ Underway(operation)
    BY Shape
  <1>1. /\ published' = published /\ mirror' = mirror /\ clock' = clock /\ channel' = channel
        /\ installed' = installed /\ identity' = identity /\ lastSequence' = lastSequence
        /\ cache' = cache /\ touched' = touched
    BY DEF StartPlan, Spawn, CloseWindow, environment, host, history
  <1>2. ASSUME window' \in [Windows -> WindowStates], \A v \in Windows : Equipped(window'[v]),
               Underway(operation')
        PROVE  ShapePart' /\ ConsumedMigrationIsInstalled'
    BY <1>0, <1>1, <1>2, Shape, NextShape, OfferFrame
  <1>3. CASE StartPlan(w)
    <2> DEFINE plan == window[w].plan
               x == [NoOperation EXCEPT !.phase = "created", !.plan = plan]
    <2>1. window[w].pc = "start" /\ operation' = x /\ window' = [window EXCEPT ![w].pc = "spawn"]
      BY <1>3 DEF StartPlan
    <2>2. plan \in Plans
      BY <1>0, <2>1 DEF Equipped, WindowStates
    <2>3. Underway(x) /\ x.phase = "created"
      BY <2>2, NoOperationShape
    <2> HIDE DEF x
    <2>4. window' \in [Windows -> WindowStates] /\ \A v \in Windows : Equipped(window'[v])
      BY <1>0, <2>1, WindowGoes
    <2>5. ServedPart' /\ ConfirmedPart' /\ BeforePart' /\ ApplyPart'
      BY <2>1, <2>3 DEF ServedPart, OfferIsCurrent, ConfirmedPart, Fetched, BeforePart, Prepared,
                        ApplyPart, Offline
    <2> QED BY <1>2, <2>1, <2>3, <2>4, <2>5
  <1>4. CASE Spawn(w)
    <2> DEFINE x == [Closed EXCEPT !.pc = "following"]
    <2>1. /\ operation.phase = "created" /\ operation' = [operation EXCEPT !.phase = "staging"]
          /\ window' = [window EXCEPT ![w] = x] /\ served' = (published = operation.plan.manifest)
      BY <1>4 DEF Spawn
    <2>2. Equipped(x)
      BY ClosedWindow
    <2> HIDE DEF x
    <2>3. window' \in [Windows -> WindowStates] /\ \A v \in Windows : Equipped(window'[v])
      BY <1>0, <2>1, <2>2, WindowStepShape
    <2>4. Underway(operation') /\ operation'.phase = "staging" /\ operation'.plan = operation.plan
      BY <1>0, <2>1, ToStep DEF To, Phases
    <2>5. ServedPart' /\ ConfirmedPart' /\ BeforePart' /\ ApplyPart'
      BY <1>1, <2>1, <2>4 DEF ServedPart, OfferIsCurrent, ConfirmedPart, Fetched, BeforePart,
                              Prepared, ApplyPart, Offline, Manifest
    <2> QED BY <1>2, <2>3, <2>4, <2>5
  <1>5. CASE CloseWindow(w)
    <2>1. /\ window' = [window EXCEPT ![w] = Closed] /\ served' = served
          /\ operation' = (IF operation.phase = "created" THEN NoOperation ELSE operation)
      BY <1>5 DEF CloseWindow, history
    <2>2. window' \in [Windows -> WindowStates] /\ \A v \in Windows : Equipped(window'[v])
      BY <1>0, <2>1, WindowStepShape, ClosedWindow
    <2>3. CASE operation.phase = "created"
      <3>1. Underway(operation') /\ operation'.phase = "none"
        BY <2>1, <2>3, NoOperationShape
      <3>2. ServedPart' /\ ConfirmedPart' /\ BeforePart' /\ ApplyPart'
        BY <3>1 DEF ServedPart, OfferIsCurrent, ConfirmedPart, Fetched, BeforePart, Prepared,
                    ApplyPart, Offline
      <3> QED BY <1>2, <2>2, <3>1, <3>2
    <2>4. CASE operation.phase # "created"
      <3>1. operation' = operation /\ Underway(operation')
        BY <1>0, <2>1, <2>4
      <3> QED BY <1>1, <1>2, <2>1, <2>2, <3>1, OfferFrame
    <2> QED BY <2>3, <2>4
  <1> QED BY <1>3, <1>4, <1>5

-----------------------------------------------------------------------------
(* Staging, application and verification.                                  *)

\* The operation goes on with the plan it has.
LEMMA OperationGoes ==
    ASSUME OfferInvariant, Fetched, Underway(operation'),
           UNCHANGED <<environment, installed, lastSequence, cache, window, history>>,
           identity' \in Identities,
           operation'.plan = operation.plan,
           operation'.phase \notin {"none", "created", "staging"},
           Prepared' /\ ~touched => installed = operation'.before[1],
           ApplyPart'
    PROVE  OfferInvariant'
  <1> USE DEF OfferInvariant
  <1>1. /\ published' = published /\ mirror' = mirror /\ clock' = clock /\ channel' = channel
        /\ installed' = installed /\ lastSequence' = lastSequence
        /\ cache' = cache /\ window' = window /\ touched' = touched /\ served' = served
    BY DEF environment, history
  <1>2. ShapePart'
    BY <1>1, Shape, NextShape
  <1>3. ServedPart'
    BY <1>1 DEF ServedPart, OfferIsCurrent, Fetched
  <1>4. ConfirmedPart'
    BY DEF ConfirmedPart, Fetched, Manifest
  <1>5. BeforePart'
    BY <1>1 DEF BeforePart
  <1> QED BY <1>1, <1>2, <1>3, <1>4, <1>5, OfferFrame

\* The operation is over.
LEMMA OperationEnds ==
    ASSUME OfferInvariant, operation' = NoOperation,
           UNCHANGED <<environment, cache, window>>, installed' \in Inventories,
           identity' \in Identities, lastSequence' \in Nat, ConsumedMigrationIsInstalled'
    PROVE  OfferInvariant'
  <1> USE DEF OfferInvariant
  <1>1. /\ published' = published /\ mirror' = mirror /\ clock' = clock /\ channel' = channel
        /\ cache' = cache /\ window' = window
    BY DEF environment
  <1>2. Underway(operation') /\ operation'.phase = "none"
    BY NoOperationShape
  <1>3. ShapePart'
    BY <1>1, <1>2, Shape, NextShape
  <1>4. ServedPart' /\ ConfirmedPart' /\ BeforePart' /\ ApplyPart'
    BY <1>2 DEF ServedPart, OfferIsCurrent, ConfirmedPart, Fetched, BeforePart, Prepared,
                ApplyPart, Offline
  <1> QED BY <1>3, <1>4

\* The offer is fetched, and its plan confirmed, before anything is staged.
LEMMA StageFetchStep ==
    ASSUME OfferInvariant, StageFetch
    PROVE  OfferInvariant'
  <1> USE DEF OfferInvariant
  <1>1. /\ operation.phase = "staging" /\ To("refresh") /\ published = Manifest
        /\ CheckConfirmed(Manifest, operation.plan)
        /\ VerifyManifestFiles(Manifest, operation.plan.source, lastSequence, channel, clock) = "Ok"
    BY DEF StageFetch, FetchOutcomes
  <1>2. /\ published' = published /\ mirror' = mirror /\ clock' = clock /\ channel' = channel
        /\ installed' = installed /\ identity' = identity /\ lastSequence' = lastSequence
        /\ cache' = cache /\ window' = window /\ touched' = touched /\ served' = served
    BY DEF StageFetch, OnlyOperation, environment, host, history
  <1>3. Underway(operation') /\ operation'.phase = "refresh" /\ operation'.plan = operation.plan
    BY <1>1, ToStep DEF Phases
  <1>4. Manifest \in Offers /\ lastSequence \in Nat /\ clock \in Nat
    BY <1>1, OperationFields, Shape, ReleasePlanningAssumption
  <1>5. Acceptable(Manifest)
    BY <1>1, <1>4, VerifiedManifest
  <1>6. ShapePart'
    BY <1>2, <1>3, Shape, NextShape
  <1>7. served
    BY <1>1 DEF ServedPart
  <1>8. ServedPart' /\ ConfirmedPart' /\ BeforePart' /\ ApplyPart'
    BY <1>1, <1>2, <1>3, <1>5, <1>7
       DEF ServedPart, OfferIsCurrent, ConfirmedPart, BeforePart, Prepared, ApplyPart,
           Offline, Manifest
  <1> QED BY <1>2, <1>6, <1>8, OfferFrame

\* The stages after it, up to the marker.
LEMMA StageStep ==
    ASSUME OfferInvariant, StageRefresh \/ StageSimulate \/ StageDownload \/ StageRecheck
    PROVE  OfferInvariant'
  <1> USE DEF OfferInvariant
  <1>0. /\ ShapePart /\ operation \in OperationStates /\ mirror \in RepositoryStates
        /\ installed \in Inventories /\ identity \in Identities
        /\ operation.staged \in RepositoryStates /\ operation.plan \in Plans \cup {None}
    BY OperationFields, Shape, ReleasePlanningAssumption
  <1>1. operation.phase \in {"refresh", "simulate", "download", "recheck"}
    BY DEF StageRefresh, StageSimulate, StageDownload, StageRecheck
  <1>2. Fetched /\ operation.plan # None
    BY <1>0, <1>1, OperationFields, ReleasePlanningAssumption DEF Fetched
  <1>3. UNCHANGED <<environment, installed, lastSequence, cache, window, history>>
        /\ identity' = identity
    BY DEF StageRefresh, StageSimulate, StageDownload, StageRecheck, OnlyOperation, host
  <1>4. ASSUME operation' \in OperationStates, operation'.plan = operation.plan,
               operation'.phase \in {"simulate", "download", "recheck"}
        PROVE  OfferInvariant'
    <2>1. Underway(operation')
      BY <1>2, <1>4 DEF Underway
    <2>2. ~Prepared' /\ ApplyPart'
      BY <1>4 DEF Prepared, ApplyPart, Offline
    <2> QED BY <1>0, <1>2, <1>3, <1>4, <2>1, <2>2, OperationGoes
  <1>5. CASE StageRefresh
    <2>1. operation' = [operation EXCEPT !.phase = "simulate", !.staged = mirror]
      BY <1>5 DEF StageRefresh
    <2>2. operation' \in OperationStates /\ operation'.plan = operation.plan
          /\ operation'.phase = "simulate"
      BY <1>0, <2>1 DEF OperationStates, Phases
    <2> QED BY <1>4, <2>2
  <1>6. CASE StageSimulate
    <2>1. operation' = [operation EXCEPT !.phase = "download"]
      BY <1>6 DEF StageSimulate, To
    <2>2. operation' \in OperationStates /\ operation'.plan = operation.plan
          /\ operation'.phase = "download"
      BY <1>0, <2>1 DEF OperationStates, Phases
    <2> QED BY <1>4, <2>2
  <1>7. CASE StageDownload
    <2> DEFINE r == [operation.staged EXCEPT !.genuine = mirror.genuine]
    <2>1. operation' = [operation EXCEPT !.phase = "recheck", !.staged.genuine = mirror.genuine]
      BY <1>7 DEF StageDownload
    <2>2. operation' = [operation EXCEPT !.phase = "recheck", !.staged = r]
      BY <1>0, <2>1 DEF OperationStates
    <2>3. r \in RepositoryStates
      BY <1>0 DEF RepositoryStates
    <2> HIDE DEF r
    <2>4. operation' \in OperationStates /\ operation'.plan = operation.plan
          /\ operation'.phase = "recheck"
      BY <1>0, <2>2, <2>3 DEF OperationStates, Phases
    <2> QED BY <1>4, <2>4
  <1>8. CASE StageRecheck
    <2>1. operation' = [operation EXCEPT !.phase = "ready", !.before = <<installed, identity>>]
      BY <1>8 DEF StageRecheck
    <2>2. <<installed, identity>> \in Inventories \X Identities
      BY <1>0
    <2>3. /\ operation' \in OperationStates /\ operation'.plan = operation.plan
          /\ operation'.phase = "ready" /\ operation'.before = <<installed, identity>>
      BY <1>0, <2>1, <2>2 DEF OperationStates, Phases
    <2>4. Underway(operation') /\ installed = operation'.before[1] /\ ApplyPart'
      BY <1>2, <2>3 DEF Underway, ApplyPart
    <2> QED BY <1>0, <1>2, <1>3, <2>3, <2>4, OperationGoes
  <1> QED BY <1>5, <1>6, <1>7, <1>8

\* The offline boot up to the transaction, its end, and every failure.
LEMMA OfflineStep ==
    ASSUME OfferInvariant,
           \/ OfflineBoot \/ OfflineLoad \/ OfflineApplied \/ OfflineFinishes \/ OfflineFails
           \/ BootFails
    PROVE  OfferInvariant'
  <1> USE DEF OfferInvariant
  <1>0. operation.phase \in {"ready", "applied"} \cup Offline
    BY DEF OfflineBoot, OfflineLoad, OfflineApplied, OfflineFinishes, OfflineFails, BootFails, Offline
  <1>1. ShapePart /\ Fetched /\ Prepared /\ operation.phase # "none" /\ Manifest \in Offers
    BY <1>0, OperationFields DEF Fetched, Prepared, Offline
  <1>2. \E p \in {"load", "revalidate", "finish", "applied", "failed"} : To(p)
    BY DEF OfflineBoot, OfflineLoad, OfflineApplied, OfflineFinishes, OfflineFails, BootFails
  <1>3. PICK p \in {"load", "revalidate", "finish", "applied", "failed"} : To(p)
    BY <1>2
  <1>4. p \in Phases \ {"none"}
    BY DEF Phases, Offline
  <1>5. /\ Underway(operation') /\ operation'.phase = p
        /\ operation'.plan = operation.plan /\ operation'.before = operation.before
    BY <1>1, <1>3, <1>4, ToStep
  <1>6. UNCHANGED <<environment, installed, lastSequence, cache, window, history>>
    BY DEF OfflineBoot, OfflineLoad, OfflineApplied, OfflineFinishes, OfflineFails, BootFails,
           OnlyOperation, host
  <1>7. identity' \in Identities
    <2>1. identity' = identity \/ identity' = Manifest.target
      BY DEF OfflineBoot, OfflineLoad, OfflineApplied, OfflineFinishes, OfflineFails, BootFails,
             OnlyOperation, host
    <2> QED BY <1>1, <2>1, ManifestFields, Shape
  <1>8. ~touched => installed = operation'.before[1]
    BY <1>1, <1>5 DEF BeforePart
  <1>9. ApplyPart' /\ operation'.phase \notin {"none", "created", "staging"}
    BY <1>5 DEF ApplyPart
  <1> QED BY <1>1, <1>5, <1>6, <1>7, <1>8, <1>9, OperationGoes

\* The last look at host, metadata and artifacts before the transaction: what
\* zypper will do is the plan.
LEMMA RevalidateStep ==
    ASSUME OfferInvariant, OfflineRevalidate
    PROVE  OfferInvariant'
  <1> USE DEF OfferInvariant
  <1> DEFINE plan == operation.plan
             changes == Solve(Manifest, operation.staged, plan.installed, installed)
  <1>1. /\ operation.phase = "revalidate" /\ To("apply")
        /\ Revalidate(Manifest, plan, operation.staged, identity, installed)
        /\ VerifyPayloads(Manifest, plan, operation.staged.genuine)
        /\ UNCHANGED <<environment, installed, lastSequence, cache, window, history>>
        /\ identity' = identity /\ installed' = installed
    BY DEF OfflineRevalidate, Holds, OnlyOperation, host
  <1>2. ShapePart /\ Fetched /\ Prepared /\ identity \in Identities
    BY <1>1, Shape DEF Fetched, Prepared, Offline
  <1>3. /\ Underway(operation') /\ operation'.phase = "apply" /\ operation'.plan = plan
        /\ operation'.staged = operation.staged /\ operation'.before = operation.before
    BY <1>1, <1>2, ToStep DEF Phases, Offline
  <1>4. /\ Solvable(Manifest, operation.staged, plan.installed)
        /\ ValidateMigrationPlan(Manifest, installed, changes)
        /\ Plan(Manifest, identity, installed, changes) = plan
    BY <1>1 DEF Revalidate
  <1>5. plan.installed = installed /\ plan.changes = changes
    <2> DEFINE x == Plan(Manifest, identity, installed, changes)
    <2>1. x.installed = installed /\ x.changes = changes
      BY DEF Plan
    <2>2. x = plan
      BY <1>4
    <2> HIDE DEF x
    <2> QED BY <2>1, <2>2
  <1>6. ASSUME IsMigration(Manifest), NEW i \in PendingMigration(Manifest, plan.installed)
        PROVE  EditionsOf(i.name, installed) \subseteq {i.from, i.to}
    <2>1. i \in Manifest.package_migration /\ ~Skipped(i, installed)
      BY <1>5, <1>6 DEF PendingMigration
    <2>2. IdentityHolds(Manifest, installed)
      BY <1>4, <1>6 DEF ValidateMigrationPlan
    <2>3. EditionsOf(i.name, installed) \in {{i.from}, {i.to}}
      BY <2>1, <2>2 DEF IdentityHolds
    <2> QED BY <2>3
  <1>7. ApplyPart'
    <2>1. Manifest' = Manifest /\ Remaining' = changes
      BY <1>1, <1>3 DEF Manifest, Remaining
    <2> HIDE DEF changes
    <2> QED BY <1>1, <1>3, <1>4, <1>5, <1>6, <2>1 DEF ApplyPart
  <1>8. ~touched => installed = operation'.before[1]
    BY <1>2, <1>3 DEF BeforePart
  <1> HIDE DEF plan
  <1>9. operation'.plan = operation.plan /\ operation'.phase \notin {"none", "created", "staging"}
    BY <1>3 DEF plan
  <1> QED BY <1>1, <1>2, <1>3, <1>7, <1>8, <1>9, OperationGoes

\* One change of the transaction: the rest is still confirmed.
LEMMA AppliesStep ==
    ASSUME OfferInvariant, OfflineApplies
    PROVE  OfferInvariant'
  <1> USE DEF OfferInvariant
  <1> DEFINE plan == operation.plan
             r == operation.staged
  <1>1. PICK c \in Remaining : installed' = Applied(c, installed)
    BY DEF OfflineApplies
  <1>2. /\ operation.phase = "apply" /\ operation' = operation /\ touched' = TRUE
        /\ published' = published /\ mirror' = mirror /\ clock' = clock /\ channel' = channel
        /\ identity' = identity /\ lastSequence' = lastSequence
        /\ cache' = cache /\ window' = window /\ served' = served
    BY DEF OfflineApplies, environment
  <1>3. /\ ShapePart /\ Fetched /\ Manifest \in Offers /\ r \in RepositoryStates
        /\ installed \in Inventories /\ plan.changes \subseteq Changes
    BY <1>2, OperationFields, Shape DEF Fetched
  <1>4. /\ Remaining = Solve(Manifest, r, plan.installed, installed)
        /\ Remaining \subseteq plan.changes
        /\ Solvable(Manifest, r, plan.installed)
        /\ VerifyPayloads(Manifest, plan, r.genuine)
        /\ IsMigration(Manifest) =>
              \A i \in PendingMigration(Manifest, plan.installed) :
                  EditionsOf(i.name, installed) \subseteq {i.from, i.to}
    BY <1>2 DEF ApplyPart, Remaining
  <1>5. c \in Changes /\ installed' \in Inventories
    BY <1>1, <1>3, <1>4, AppliedEditions
  <1>6. ShapePart'
    BY <1>2, <1>5, Shape, NextShape
  <1>7. Remaining' = Solve(Manifest, r, plan.installed, Applied(c, installed)) /\ Manifest' = Manifest
    BY <1>1, <1>2 DEF Remaining, Manifest
  <1>8. ApplyPart'
    <2>1. CASE ~IsMigration(Manifest)
      <3>1. Remaining' \subseteq plan.changes
        BY <1>1, <1>3, <1>4, <1>7, <2>1, ReleaseGoesOn
      <3> QED BY <1>2, <1>4, <1>7, <2>1, <3>1 DEF ApplyPart
    <2>2. CASE IsMigration(Manifest)
      <3>1. ValidateMigration(Manifest) /\ CheckConfirmed(Manifest, plan)
        BY <1>3, <2>2 DEF ConfirmedPart, Acceptable
      <3>2. \A d : d \in plan.changes <=>
               \E i \in PendingMigration(Manifest, plan.installed) : d = ChangeOf(i.name, i.from, i.to)
        BY <2>2, <3>1 DEF CheckConfirmed, ValidateMigrationPlan
      <3> HIDE DEF plan, r
      <3>3. /\ Remaining' \subseteq plan.changes
            /\ \A i \in PendingMigration(Manifest, plan.installed) :
                  EditionsOf(i.name, Applied(c, installed)) \subseteq {i.from, i.to}
        BY <1>1, <1>3, <1>4, <1>7, <2>2, <3>1, <3>2, MigrationGoesOn
      <3> QED BY <1>1, <1>2, <1>4, <1>7, <3>3 DEF ApplyPart, plan, r
    <2> QED BY <2>1, <2>2
  <1>9. BeforePart' /\ ConsumedMigrationIsInstalled'
    BY <1>2 DEF BeforePart, ConsumedMigrationIsInstalled
  <1> QED BY <1>2, <1>6, <1>8, <1>9, OfferFrame

\* The verified boot consumes the sequence: whatever bears it is installed.
LEMMA VerifiedStep ==
    ASSUME OfferInvariant, BootVerified
    PROVE  OfferInvariant'
  <1> USE DEF OfferInvariant
  <1>1. /\ operation.phase = "applied" /\ VerifyResult(operation.plan, installed)
        /\ lastSequence' = Manifest.sequence /\ operation' = NoOperation
        /\ UNCHANGED <<environment, cache, window>> /\ installed' = installed /\ identity' = identity
    BY DEF BootVerified
  <1>2. /\ Fetched /\ operation.plan \in Plans /\ Manifest \in Offers
        /\ installed \in Inventories /\ identity \in Identities
    BY <1>1, OperationFields, Shape DEF Fetched
  <1>3. Acceptable(Manifest) /\ CheckConfirmed(Manifest, operation.plan)
    BY <1>2 DEF ConfirmedPart
  <1>4. ConsumedMigrationIsInstalled'
    <2> SUFFICES ASSUME NEW m \in Offers, IsMigration(m), m.flaw = "none",
                        Manifest.sequence = m.sequence, NEW i \in m.package_migration
                 PROVE  Skipped(i, installed) \/ EditionsOf(i.name, installed) = {i.to}
      BY <1>1 DEF ConsumedMigrationIsInstalled
    <2>1. m.package_migration = Manifest.package_migration
      BY <1>2, <1>3, PublisherAssumption
    <2>2. IsMigration(Manifest) /\ ValidateMigration(Manifest)
      BY <1>3, <2>1 DEF IsMigration, Acceptable
    <2> QED BY <1>1, <1>2, <1>3, <2>1, <2>2, MigrationIsWhole DEF Manifest
  <1>5. lastSequence' \in Nat
    BY <1>1, <1>2, ManifestFields
  <1> QED BY <1>1, <1>2, <1>4, <1>5, OperationEnds

\* A failed operation is given up: what is restored is what was there, unless
\* packages have changed.
LEMMA GivenUpStep ==
    ASSUME OfferInvariant, StageFails \/ KeepCurrent \/ Rollback
    PROVE  OfferInvariant'
  <1> USE DEF OfferInvariant
  <1>0. /\ operation' = NoOperation /\ UNCHANGED <<environment, cache, window>>
        /\ lastSequence' = lastSequence /\ touched' = touched
    BY DEF StageFails, KeepCurrent, Rollback, OnlyOperation, host, history
  <1>1. /\ installed \in Inventories /\ identity \in Identities /\ lastSequence \in Nat
        /\ operation.before[1] \in Inventories /\ operation.before[2] \in Identities
    BY OperationFields, Shape
  <1>2. CASE StageFails \/ KeepCurrent
    <2>1. installed' = installed /\ identity' = identity
      BY <1>2 DEF StageFails, KeepCurrent, OnlyOperation, host
    <2> QED BY <1>0, <1>1, <2>1, OfferFrame, OperationEnds
  <1>3. CASE Rollback
    <2>1. /\ operation.phase = "failed" /\ installed' = operation.before[1]
          /\ identity' = operation.before[2]
      BY <1>3 DEF Rollback
    <2>2. ~touched => installed' = installed
      BY <2>1 DEF BeforePart, Prepared
    <2>3. ConsumedMigrationIsInstalled'
      BY <1>0, <2>2 DEF ConsumedMigrationIsInstalled
    <2> QED BY <1>0, <1>1, <2>1, <2>3, OperationEnds
  <1> QED BY <1>2, <1>3

-----------------------------------------------------------------------------
(* The behaviours.                                                         *)

\* At first there is no operation, no cache and nothing consumed.
LEMMA InitOffer == Init => OfferInvariant
  <1> SUFFICES ASSUME Init PROVE OfferInvariant
    OBVIOUS
  <1>1. /\ operation = NoOperation /\ Underway(operation) /\ operation.phase = "none"
    BY NoOperationShape DEF Init
  <1>2. window \in [Windows -> WindowStates] /\ \A w \in Windows : Equipped(window[w])
    <2>1. Equipped(Closed) /\ Closed \in WindowStates
      BY ClosedWindow DEF Equipped
    <2> QED BY <2>1 DEF Init
  <1>3. ShapePart
    <2>1. /\ published \in Offers /\ clock \in 0..MaxClock /\ channel \in Channels
          /\ installed \in Inventories /\ identity \in Identities /\ lastSequence \in Nat
          /\ cache \in Offers \cup {None} /\ mirror \in Mirrors
      BY ReleasePlanningAssumption DEF Init, Channels
    <2> QED BY <1>1, <1>2, <2>1, Shape
  <1>4. ServedPart /\ ConfirmedPart /\ BeforePart /\ ApplyPart
    BY <1>1 DEF ServedPart, OfferIsCurrent, ConfirmedPart, Fetched, BeforePart, Prepared,
                ApplyPart, Offline
  <1>5. ConsumedMigrationIsInstalled
    BY DEF Init, ConsumedMigrationIsInstalled
  <1> QED BY <1>3, <1>4, <1>5 DEF OfferInvariant

\* Every step keeps the invariant.
LEMMA NextOffer == OfferInvariant /\ [Next]_vars => OfferInvariant'
  <1> SUFFICES ASSUME OfferInvariant, [Next]_vars PROVE OfferInvariant'
    OBVIOUS
  <1>1. CASE UNCHANGED vars
    <2>1. /\ UNCHANGED <<environment, host, operation, served, touched>>
          /\ window' = window /\ cache' = cache
      BY <1>1 DEF vars, history
    <2>2. /\ window \in [Windows -> WindowStates] /\ \A w \in Windows : Equipped(window[w])
          /\ cache \in Offers \cup {None}
      BY Shape DEF OfferInvariant
    <2> QED BY <2>1, <2>2, QuietWindows
  <1>2. CASE World
    BY <1>2, WorldStep
  <1>3. ASSUME NEW w \in Windows, WindowStep(w) PROVE OfferInvariant'
    BY <1>3, ShowStep, StartStep DEF WindowStep
  <1>4. CASE OperationStep
    BY <1>4, StageFetchStep, StageStep, OfflineStep, RevalidateStep, AppliesStep, VerifiedStep,
       GivenUpStep DEF OperationStep
  <1> QED BY <1>1, <1>2, <1>3, <1>4 DEF Next

\* The inductive invariant of an offer's way through windows, staging, offline
\* boot and verification, for any publisher, mirrors, packages and windows.
THEOREM OfferInvariance == Spec => []OfferInvariant
  BY InitOffer, NextOffer, PTL DEF Spec

\* The shape of the state: every inventory, plan and offer along the way is
\* one, also half-way through a transaction and after a rollback.
THEOREM OfferTypes == Spec => []TypeOK
  <1>1. OfferInvariant => TypeOK
    BY DEF OfferInvariant, ShapePart
  <1> QED BY <1>1, OfferInvariance, PTL

\* What is staged was published after the operation was started: a pending
\* plan that is started again is no substitute for the publisher.
THEOREM OffersAreCurrent == Spec => []OfferIsCurrent
  <1>1. OfferInvariant => OfferIsCurrent
    BY DEF OfferInvariant, ServedPart
  <1> QED BY <1>1, OfferInvariance, PTL

\* A consumed migration is installed: verify_result and the revalidation leave
\* no way for a half-applied list to be consumed, and a rollback none to undo
\* it, as long as a sequence names one migration.
THEOREM ConsumedIsInstalled == Spec => []ConsumedMigrationIsInstalled
  <1>1. OfferInvariant => ConsumedMigrationIsInstalled
    BY DEF OfferInvariant
  <1> QED BY <1>1, OfferInvariance, PTL

\* Whatever a window shows and whatever is staged or accepted in the offline
\* boot is admissible for the host at that moment.
THEOREM OffersAreAdmitted == Spec => AdmittedOffers
  <1> DEFINE Admits ==
        /\ \A w \in Windows :
             window'[w].offer # None /\ window[w].pc \in {"idle", "offered"}
                 /\ window'[w] # window[w] /\ window'[w].pc \in {"save", "offered"}
                 => Admissible(window'[w].offer, identity)
        /\ operation.phase = "staging" /\ operation'.phase = "refresh"
             => Admissible(Manifest, operation.plan.source)
        /\ operation.phase = "load" /\ operation'.phase = "revalidate"
             => Admissible(Manifest, operation.plan.source)
  <1>1. ASSUME OfferInvariant, Next PROVE Admits
    <2>0. /\ ShapePart /\ published \in Offers /\ cache \in Offers \cup {None}
          /\ lastSequence \in Nat /\ clock \in Nat
          /\ \A w \in Windows : Equipped(window[w])
      BY <1>1, Shape, ReleasePlanningAssumption DEF OfferInvariant
    <2>1. ASSUME NEW v \in Windows, window'[v].offer # None,
                 window[v].pc \in {"idle", "offered"}, window'[v] # window[v],
                 window'[v].pc \in {"save", "offered"}
          PROVE  Admissible(window'[v].offer, identity)
      <3>1. PICK w \in Windows : WindowStep(w)
        <4>1. World \/ OperationStep => window' = window
          BY DEF World, Publish, MirrorMoves, Tick, SwitchChannel, PackageTool, DamagePayload,
                 OperationStep, StageFetch, StageRefresh, StageSimulate, StageDownload,
                 StageRecheck, StageFails, OfflineBoot, OfflineLoad, OfflineRevalidate,
                 OfflineApplies, OfflineApplied, OfflineFinishes, OfflineFails, BootVerified,
                 BootFails, KeepCurrent, Rollback, OnlyOperation
        <4> QED BY <1>1, <2>1, <4>1 DEF Next
      <3>2. window \in [Windows -> WindowStates]
        BY <2>0, Shape
      <3>3. CASE CheckRelease(w)
        <4>0. ASSUME NEW m \in Offers,
                     VerifyManifestFiles(m, identity, lastSequence, channel, clock) = "Ok"
              PROVE  Admissible(m, identity)
          BY <2>0, <4>0, VerifiedManifest
        <4>1. PICK x : window' = [window EXCEPT ![w] = x]
          BY <3>3 DEF CheckRelease
        <4>2. v = w
          BY <2>1, <3>2, <4>1
        <4>3. CASE Fetches("Ok") /\ window' = [window EXCEPT ![w] =
                        [Closed EXCEPT !.pc = "save", !.offer = published]]
          <5>1. window'[v].offer = published
            BY <3>2, <4>2, <4>3 DEF Closed
          <5>2. VerifyManifestFiles(published, identity, lastSequence, channel, clock) = "Ok"
            BY <4>3 DEF Fetches, FetchOutcomes
          <5> QED BY <2>0, <4>0, <5>1, <5>2
        <4>4. CASE CachedIsValid(cache) /\ window' = [window EXCEPT ![w] =
                        [Closed EXCEPT !.pc = "offered", !.offer = cache, !.cached = TRUE]]
          <5>1. window'[v].offer = cache
            BY <3>2, <4>2, <4>4 DEF Closed
          <5>2. /\ cache \in Offers
                /\ VerifyManifestFiles(cache, identity, lastSequence, channel, clock) = "Ok"
            BY <2>0, <4>4 DEF CachedIsValid
          <5> QED BY <4>0, <5>1, <5>2
        <4>5. CASE \/ window' = [window EXCEPT ![w] = Closed]
                   \/ window' = [window EXCEPT ![w] = [Closed EXCEPT !.pc = "forget"]]
                   \/ window' = [window EXCEPT ![w] =
                                    [Closed EXCEPT !.pc = "forget", !.offer = published]]
          <5>1. PICK y \in {Closed, [Closed EXCEPT !.pc = "forget"],
                             [Closed EXCEPT !.pc = "forget", !.offer = published]} :
                   window' = [window EXCEPT ![w] = y]
            BY <4>5
          <5>2. y.pc \in {"idle", "forget"}
            <6>1. /\ Closed.pc = "idle" /\ [Closed EXCEPT !.pc = "forget"].pc = "forget"
                  /\ [Closed EXCEPT !.pc = "forget", !.offer = published].pc = "forget"
              BY DEF Closed
            <6> QED BY <5>1, <6>1, Zenon
          <5>3. window'[v] = y
            BY <3>2, <4>2, <5>1
          <5> QED BY <2>1, <5>2, <5>3
        <4> QED BY <3>3, <4>3, <4>4, <4>5 DEF CheckRelease
      <3>4. CASE ~CheckRelease(w)
        <4>1. window[w].pc \notin {"idle", "offered"} \/ PlanRelease(w)
          BY <3>1, <3>4 DEF WindowStep, SavePreview, ForgetPreview, ComputePlan, StartFetch,
                            StartPlan, StartRefused, ServiceDies, StartAgain, Spawn, CloseWindow
        <4>2. \A u \in Windows \ {w} : window'[u] = window[u]
          BY <3>1, <3>2, <3>4 DEF WindowStep, SavePreview, ForgetPreview, PlanRelease, ComputePlan,
                            StartFetch, StartPlan, StartRefused, ServiceDies, StartAgain, Spawn,
                            CloseWindow
        <4>3. v = w
          BY <2>1, <4>2
        <4>4. PlanRelease(w)
          BY <2>1, <4>1, <4>3
        <4>5. window'[w].pc = "plan"
          BY <2>0, <4>4, WindowGoes DEF PlanRelease
        <4> QED BY <2>1, <4>3, <4>5
      <3> QED BY <3>3, <3>4
    <2>2. ASSUME \/ operation.phase = "staging" /\ operation'.phase = "refresh"
                 \/ operation.phase = "load" /\ operation'.phase = "revalidate"
          PROVE  Admissible(Manifest, operation.plan.source)
      <3>1. Manifest \in Offers
        BY <2>0, <2>2, OperationFields
      <3>2. VerifyManifestFiles(Manifest, operation.plan.source, lastSequence, channel, clock) = "Ok"
        <4>1. operation' # operation
          BY <2>2
        <4>2. OperationStep
          <5>1. ~World
            <6>1. ~DamagePayload
              BY <2>2 DEF DamagePayload
            <6>2. Publish \/ MirrorMoves \/ Tick \/ SwitchChannel \/ PackageTool =>
                     operation' = operation
              BY Zenon DEF Publish, MirrorMoves, Tick, SwitchChannel, PackageTool
            <6> QED BY <4>1, <6>1, <6>2 DEF World
          <5>2. ASSUME NEW w \in Windows, WindowStep(w) PROVE FALSE
            <6>1. \/ operation' = operation \/ operation.phase \in {"none", "created"}
              BY <5>2 DEF WindowStep, CheckRelease, SavePreview, ForgetPreview, PlanRelease,
                          ComputePlan, StartFetch, StartPlan, StartRefused, ServiceDies,
                          StartAgain, Spawn, CloseWindow
            <6> QED BY <2>2, <4>1, <6>1
          <5> QED BY <1>1, <5>1, <5>2 DEF Next
        <4>3. \/ StageFetch \/ OfflineLoad \/ StageFails \/ OfflineFails
          BY <2>2, <4>1, <4>2 DEF OperationStep, StageRefresh, StageSimulate, StageDownload,
                 StageRecheck, OfflineBoot, OfflineRevalidate, OfflineApplies, OfflineApplied,
                 OfflineFinishes, BootVerified, BootFails, KeepCurrent, Rollback
        <4>4. ~StageFails
          BY <2>2, NoOperationShape DEF StageFails
        <4>5. ~OfflineFails
          <5>1. OfflineFails => operation'.phase = "failed"
            BY <2>0, <2>2, ToStep DEF OfflineFails, Phases
          <5> QED BY <2>2, <5>1
        <4> QED BY <4>3, <4>4, <4>5 DEF StageFetch, FetchOutcomes, OfflineLoad
      <3> QED BY <2>0, <3>1, <3>2, VerifiedManifest
    <2> QED BY <2>1, <2>2
  <1>2. OfferInvariant /\ [Next]_vars => [Admits]_vars
    BY <1>1
  <1> QED BY <1>2, OfferInvariance, PTL DEF Spec, AdmittedOffers

\* The offline transaction changes nothing the user has not confirmed, and a
\* migration installs genuine artifacts only, down to its last change.
THEOREM ChangesAreConfirmed == Spec => AppliedAsConfirmed
  <1> DEFINE Confirms ==
        operation.phase = "apply" /\ installed' # installed =>
          \E c \in operation.plan.changes :
              /\ installed' = Applied(c, installed)
              /\ IsMigration(Manifest) => c.name \in operation.staged.genuine
  <1>1. ASSUME OfferInvariant, Next PROVE Confirms
    <2> SUFFICES ASSUME operation.phase = "apply", installed' # installed
                 PROVE  \E c \in operation.plan.changes :
                           /\ installed' = Applied(c, installed)
                           /\ IsMigration(Manifest) => c.name \in operation.staged.genuine
      OBVIOUS
    <2>1. OfflineApplies
      <3>1. ~World
        BY DEF World, Publish, MirrorMoves, Tick, SwitchChannel, PackageTool, DamagePayload,
               Offline, host
      <3>2. \A w \in Windows : ~WindowStep(w)
        BY DEF WindowStep, CheckRelease, SavePreview, ForgetPreview, PlanRelease, ComputePlan,
               StartFetch, StartPlan, StartRefused, ServiceDies, StartAgain, Spawn, CloseWindow, host
      <3>3. OperationStep
        BY <1>1, <3>1, <3>2 DEF Next
      <3> QED BY <3>3 DEF OperationStep, StageFetch, StageRefresh, StageSimulate, StageDownload,
                 StageRecheck, StageFails, OfflineBoot, OfflineLoad, OfflineRevalidate,
                 OfflineApplied, OfflineFinishes, OfflineFails, BootVerified,
                 BootFails, KeepCurrent, Rollback, OnlyOperation, host
    <2>2. PICK c \in Remaining : installed' = Applied(c, installed)
      BY <2>1 DEF OfflineApplies
    <2>3. c \in operation.plan.changes
      BY <1>1, <2>2 DEF OfferInvariant, ApplyPart
    <2>4. ASSUME IsMigration(Manifest) PROVE c.name \in operation.staged.genuine
      <3>1. Fetched
        BY DEF Fetched
      <3>2. CheckConfirmed(Manifest, operation.plan)
        BY <1>1, <3>1 DEF OfferInvariant, ConfirmedPart
      <3>3. PICK i \in PendingMigration(Manifest, operation.plan.installed) :
               c = ChangeOf(i.name, i.from, i.to)
        BY <2>3, <2>4, <3>2 DEF CheckConfirmed, ValidateMigrationPlan
      <3>4. i.name \in operation.staged.genuine
        BY <1>1, <2>4 DEF OfferInvariant, ApplyPart, VerifyPayloads
      <3> QED BY <3>3, <3>4 DEF ChangeOf
    <2> QED BY <2>2, <2>3, <2>4
  <1>2. OfferInvariant /\ [Next]_vars => [Confirms]_vars
    BY <1>1
  <1> QED BY <1>2, OfferInvariance, PTL DEF Spec, AppliedAsConfirmed

-----------------------------------------------------------------------------
(* The cache of one window.                                                *)

\* A window's step with the cache keeps what a refusal did to it.
LEMMA PreviewStep ==
    ASSUME NEW u, Windows = {u}, OfferInvariant, PreviewPart, WindowStep(u)
    PROVE  PreviewPart'
  <1>0. /\ ShapePart /\ window \in [Windows -> WindowStates] /\ u \in Windows
        /\ refused \subseteq Windows /\ faults \in Nat
        /\ window[u] \in WindowStates
    BY Shape DEF OfferInvariant, PreviewPart
  <1>1. CountFault => faults' \in Nat /\ faults' # 0
    BY <1>0 DEF CountFault
  <1>2. Closed.cached = FALSE
    BY DEF Closed
  <1>3. ASSUME NEW x, window' = [window EXCEPT ![u] = x] PROVE window'[u] = x
    BY <1>0, <1>3
  <1>4. ASSUME NEW p, window' = [window EXCEPT ![u].pc = p] PROVE window'[u].cached = window[u].cached
    <2>1. window'[u] = [window[u] EXCEPT !.pc = p]
      BY <1>0, <1>4
    <2> QED BY <1>0, <2>1 DEF WindowStates
  <1>5. ASSUME refused' = refused, cache' = cache, faults' = faults,
               refused # {} /\ faults = 0 /\ cache = None /\ ~window[u].cached => ~window'[u].cached
        PROVE  PreviewPart'
    BY <1>0, <1>5 DEF PreviewPart
  <1>6. CASE CheckRelease(u)
    <2>1. refused' = refused /\ cache' = cache /\ faults' = faults
      BY <1>6 DEF CheckRelease, history, limits
    <2>2. ASSUME cache = None PROVE ~window'[u].cached
      <3>1. ~CachedIsValid(cache)
        BY <2>2 DEF CachedIsValid
      <3>2. \/ window' = [window EXCEPT ![u] = [Closed EXCEPT !.pc = "save", !.offer = published]]
            \/ window' = [window EXCEPT ![u] = Closed]
            \/ window' = [window EXCEPT ![u] = [Closed EXCEPT !.pc = "forget"]]
            \/ window' = [window EXCEPT ![u] = [Closed EXCEPT !.pc = "forget", !.offer = published]]
        BY <1>6, <3>1, Zenon DEF CheckRelease
      <3>3. \/ window'[u] = [Closed EXCEPT !.pc = "save", !.offer = published]
            \/ window'[u] = Closed
            \/ window'[u] = [Closed EXCEPT !.pc = "forget"]
            \/ window'[u] = [Closed EXCEPT !.pc = "forget", !.offer = published]
        BY <1>3, <3>2
      <3>4. CASE window'[u] = [Closed EXCEPT !.pc = "save", !.offer = published]
        BY <3>4 DEF Closed
      <3>5. CASE window'[u] = Closed \/ window'[u] = [Closed EXCEPT !.pc = "forget"]
        BY <3>5 DEF Closed
      <3>6. CASE window'[u] = [Closed EXCEPT !.pc = "forget", !.offer = published]
        BY <3>6 DEF Closed
      <3> QED BY <3>3, <3>4, <3>5, <3>6
    <2> QED BY <1>5, <2>1, <2>2
  <1>7. CASE SavePreview(u)
    <2>1. refused' = {}
      BY <1>0, <1>7 DEF SavePreview
    <2>2. faults' \in Nat
      BY <1>0, <1>1, <1>7 DEF SavePreview, limits
    <2> QED BY <2>1, <2>2 DEF PreviewPart
  <1>8. CASE ForgetPreview(u)
    <2>1. refused' \subseteq Windows /\ ~window'[u].cached
      BY <1>0, <1>2, <1>3, <1>8 DEF ForgetPreview
    <2>2. (cache' = None /\ faults' = faults) \/ (faults' \in Nat /\ faults' # 0)
      BY <1>1, <1>8 DEF ForgetPreview, limits
    <2> QED BY <1>0, <2>1, <2>2 DEF PreviewPart
  <1>9. CASE \/ PlanRelease(u) \/ ComputePlan(u) \/ StartFetch(u) \/ StartPlan(u) \/ StartRefused(u)
             \/ ServiceDies(u) \/ StartAgain(u) \/ Spawn(u) \/ CloseWindow(u)
    <2>1. refused' = refused /\ cache' = cache /\ faults' = faults
      BY <1>9 DEF PlanRelease, ComputePlan, StartFetch, StartPlan, StartRefused, ServiceDies,
                  StartAgain, Spawn, CloseWindow, CountEvent, history, limits
    <2>2. ~window[u].cached => ~window'[u].cached
      <3>1. CASE ComputePlan(u)
        <4>1. \/ \E plan : window' = [window EXCEPT ![u] = [Closed EXCEPT !.pc = "planned", !.plan = plan]]
              \/ window' = [window EXCEPT ![u].pc = "offered"]
          BY <3>1 DEF ComputePlan
        <4>2. ASSUME NEW plan,
                     window' = [window EXCEPT ![u] = [Closed EXCEPT !.pc = "planned", !.plan = plan]]
              PROVE  ~window'[u].cached
          <5>1. window'[u] = [Closed EXCEPT !.pc = "planned", !.plan = plan]
            BY <1>3, <4>2
          <5> QED BY <5>1 DEF Closed
        <4> QED BY <1>4, <4>1, <4>2
      <3>2. CASE Spawn(u) \/ CloseWindow(u)
        <4>1. \/ window' = [window EXCEPT ![u] = [Closed EXCEPT !.pc = "following"]]
              \/ window' = [window EXCEPT ![u] = Closed]
          BY <3>2, Zenon DEF Spawn, CloseWindow
        <4>2. \/ window'[u] = [Closed EXCEPT !.pc = "following"]
              \/ window'[u] = Closed
          BY <1>3, <4>1
        <4> QED BY <4>2 DEF Closed
      <3>3. CASE \/ PlanRelease(u) \/ StartFetch(u) \/ StartPlan(u) \/ StartRefused(u)
                 \/ ServiceDies(u) \/ StartAgain(u)
        BY <1>4, <3>3 DEF PlanRelease, StartFetch, StartPlan, StartRefused, ServiceDies, StartAgain
      <3> QED BY <1>9, <3>1, <3>2, <3>3
    <2> QED BY <1>5, <2>1, <2>2
  <1> QED BY <1>6, <1>7, <1>8, <1>9 DEF WindowStep

\* A user with one window never sees a refused offer again from the cache, as
\* long as it can be written; with two windows it is not so.
THEOREM RefusedStaysHidden ==
    ASSUME NEW CONSTANT u, Windows = {u}
    PROVE  Spec => []NoRedisplay
  <1>1. Init => PreviewPart
    BY DEF Init, PreviewPart
  <1>2. ASSUME OfferInvariant, PreviewPart, [Next]_vars PROVE PreviewPart'
    <2>0. ASSUME refused' = refused, cache' = cache, faults' = faults, window' = window
          PROVE  PreviewPart'
      BY <1>2, <2>0 DEF PreviewPart
    <2>1. CASE UNCHANGED vars
      BY <2>0, <2>1 DEF vars, history, limits
    <2>2. CASE World
      <3>1. UNCHANGED <<refused, cache, faults, window>>
        BY <2>2, Zenon DEF World, Publish, MirrorMoves, Tick, SwitchChannel, PackageTool,
               DamagePayload, CountEvent, history, limits
      <3> QED BY <2>0, <3>1
    <2>3. CASE OperationStep
      <3>1. UNCHANGED <<refused, cache, faults, window>>
        BY <2>3, Zenon DEF OperationStep, StageFetch, StageRefresh, StageSimulate, StageDownload,
               StageRecheck, StageFails, OfflineBoot, OfflineLoad, OfflineRevalidate,
               OfflineApplies, OfflineApplied, OfflineFinishes, OfflineFails, BootVerified,
               BootFails, KeepCurrent, Rollback, OnlyOperation, history, limits
      <3> QED BY <2>0, <3>1
    <2>4. ASSUME NEW w \in Windows, WindowStep(w) PROVE PreviewPart'
      BY <1>2, <2>4, PreviewStep
    <2> QED BY <1>2, <2>1, <2>2, <2>3, <2>4 DEF Next
  <1>3. PreviewPart => NoRedisplay
    BY DEF PreviewPart, NoRedisplay
  <1> QED BY <1>1, <1>2, <1>3, OfferInvariance, PTL DEF Spec
=============================================================================
