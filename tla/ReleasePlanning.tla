--------------------------- MODULE ReleasePlanning ---------------------------
(***************************************************************************)
(* From a published offer to a verified result: windows that show and plan *)
(* an offer (the --read-only process), Start in the administrative one,    *)
(* staging, the offline application and the boot verification, while the   *)
(* publisher, the mirrors, the clock, the channel and other package tools  *)
(* go their own ways.                                                      *)
(*                                                                         *)
(* One operation at a time; records, snapshots, lock and crashes of several*)
(* operations are the business of UpgradeSystem.                           *)
(***************************************************************************)
EXTENDS SignedOffer

CONSTANTS
    Windows,            \* desktop processes that share one user's cache
    Offers,             \* the manifests the publisher may serve
    Mirrors,            \* the states the target repositories may be in
    InitialInventory, InitialIdentity, InitialMirror,
    None,
    MaxClock,           \* bound: ticks
    MaxEvents,          \* bound: steps of publisher, mirrors, channel, other tools, deaths
    MaxOperations,      \* bound: operations created
    MaxFaults           \* bound: cache writes that fail

Plans == [manifest: Offers, source: Identities, installed: Inventories,
          changes: SUBSET Changes]

ASSUME ReleasePlanningAssumption ==
    /\ Offers \subseteq Manifests /\ Mirrors \subseteq RepositoryStates
    /\ InitialInventory \in Inventories /\ InitialIdentity \in Identities
    /\ InitialMirror \in Mirrors
    /\ None \notin Offers \cup Plans
    /\ MaxClock \in Nat /\ MaxEvents \in Nat /\ MaxOperations \in Nat /\ MaxFaults \in Nat

\* A sequence names one migration: a host that has consumed it takes any other
\* migration that bears it for applied (MigrationAlreadyApplied).
ASSUME PublisherAssumption ==
    \A a, b \in Offers :
        a.flaw = "none" /\ IsMigration(a) /\ Acceptable(b) /\ a.sequence = b.sequence =>
            a.package_migration = b.package_migration

VARIABLES
    published,   \* what a download of the manifest gives now
    mirror,      \* what a refresh of the target repositories gives now
    clock, channel,
    installed, identity, lastSequence,   \* the host
    cache,       \* release-preview.json of the user
    window,      \* the windows
    operation,   \* the operation under way
    \* History.
    refused,     \* windows that found the last document they were served inadmissible
    served,      \* the operation's manifest was published since it was started
    touched,     \* packages were changed since the last verified boot
    \* Bounds.
    events, operations, faults

environment == <<published, mirror, clock, channel>>
host == <<installed, identity, lastSequence>>
history == <<refused, served, touched>>
limits == <<events, operations, faults>>
vars == <<environment, host, cache, window, operation, history, limits>>

Closed == [pc |-> "idle", offer |-> None, cached |-> FALSE, plan |-> None]
NoOperation ==
    [phase |-> "none", plan |-> None, staged |-> InitialMirror, before |-> <<{}, InitialIdentity>>]

WindowPcs == {"idle", "save", "forget", "offered", "plan", "planned", "start",
              "spawn", "following"}
Offline == {"load", "revalidate", "apply", "finish"}
Phases == {"none", "created", "staging", "refresh", "simulate", "download",
           "recheck", "ready", "applied", "failed"} \cup Offline

\* The shape of the state: a window has the offer and the plan its step needs,
\* and an operation a plan of known packages and editions.
TypeOK ==
    /\ published \in Offers /\ clock \in 0..MaxClock /\ channel \in Channels
    /\ installed \in Inventories /\ identity \in Identities /\ lastSequence \in Nat
    /\ cache \in Offers \cup {None}
    /\ \A w \in Windows :
          /\ window[w].pc \in WindowPcs /\ window[w].cached \in BOOLEAN
          /\ window[w].offer \in Offers \cup {None}
          /\ window[w].pc \in {"save", "offered", "plan"} => window[w].offer # None
          /\ window[w].plan # None <=> window[w].pc \in {"planned", "start", "spawn"}
    /\ operation.phase \in Phases
    /\ operation.phase # "none" => operation.plan \in Plans

Init ==
    /\ published \in Offers /\ mirror = InitialMirror
    /\ clock = 0 /\ channel = "stable"
    /\ installed = InitialInventory /\ identity = InitialIdentity /\ lastSequence = 0
    /\ cache = None
    /\ window = [w \in Windows |-> Closed]
    /\ operation = NoOperation
    /\ refused = {} /\ served = FALSE /\ touched = FALSE
    /\ events = 0 /\ operations = 0 /\ faults = 0

-----------------------------------------------------------------------------
(* The world outside.                                                      *)

CountEvent ==
    /\ events < MaxEvents
    /\ events' = events + 1
    /\ UNCHANGED <<operations, faults>>

CountFault ==
    /\ faults < MaxFaults
    /\ faults' = faults + 1
    /\ UNCHANGED <<events, operations>>

\* A new offer, or the withdrawal of the current one.
Publish ==
    /\ \E m \in Offers \ {published} :
          /\ published' = m
          /\ served' = (served \/ (operation.phase # "none" /\ operation.plan.manifest = m))
    /\ CountEvent
    /\ UNCHANGED <<mirror, clock, channel, host, cache, window, operation, refused, touched>>

MirrorMoves ==
    /\ \E r \in Mirrors \ {mirror} : mirror' = r
    /\ CountEvent
    /\ UNCHANGED <<published, clock, channel, host, cache, window, operation, history>>

Tick ==
    /\ clock < MaxClock
    /\ clock' = clock + 1
    /\ UNCHANGED <<published, mirror, channel, host, cache, window, operation, history, limits>>

\* The administrator edits /etc/lyra-upgrade/channel.
SwitchChannel ==
    /\ \E c \in Channels \ {channel} : channel' = c
    /\ CountEvent
    /\ UNCHANGED <<published, mirror, clock, host, cache, window, operation, history>>

\* zypper or PackageKit by hand: a package is updated or removed.  Nothing
\* else runs in system-update.target.
PackageTool ==
    /\ operation.phase \notin Offline
    /\ \E n \in Names :
          LET rest == {p \in installed : p[1] # n}
          IN  /\ rest # installed /\ rest # {}
              /\ installed' \in {rest, rest \cup {<<n, mirror.edition[n]>>}} \ {installed}
    /\ touched' = TRUE
    /\ CountEvent
    /\ UNCHANGED <<environment, identity, lastSequence, cache, window, operation, refused, served>>

\* A downloaded artifact is damaged on disk.
DamagePayload ==
    /\ operation.phase \in {"recheck", "ready"}
    /\ \E n \in operation.staged.genuine :
          operation' = [operation EXCEPT !.staged.genuine = @ \ {n}]
    /\ CountEvent
    /\ UNCHANGED <<environment, host, cache, window, history>>

-----------------------------------------------------------------------------
(* A window.                                                               *)

\* fetch_verified_manifest for this host as it is now.
Fetches(outcome) ==
    outcome \in FetchOutcomes(published, identity, lastSequence, channel, clock)

\* Mutant: the cache is shown as it is, also when there is none.
CacheTaken(m) == TRUE

\* A cached document is verified again before it is shown.
CachedIsValid(m) ==
    m # None /\ VerifyManifestFiles(m, identity, lastSequence, channel, clock) = "Ok"

\* check_release and fetch_release_preview up to the answer of the network;
\* without one, the cached offer.
CheckRelease(w) ==
    /\ window[w].pc \in {"idle", "offered"}
    /\ \/ /\ Fetches("Ok")
          /\ window' = [window EXCEPT ![w] = [Closed EXCEPT !.pc = "save", !.offer = published]]
       \/ /\ Fetches("Download") /\ CachedIsValid(cache)
          /\ window' = [window EXCEPT ![w] =
                           [Closed EXCEPT !.pc = "offered", !.offer = cache, !.cached = TRUE]]
       \/ /\ Fetches("Download") /\ ~CachedIsValid(cache)
          /\ window' = [window EXCEPT ![w] = Closed]
       \/ /\ Fetches("Other")
          /\ window' = [window EXCEPT ![w] = [Closed EXCEPT !.pc = "forget"]]
       \/ /\ ~Fetches("Ok")
          /\ window' = [window EXCEPT ![w] = [Closed EXCEPT !.pc = "forget", !.offer = published]]
    /\ UNCHANGED <<environment, host, cache, operation, history, limits>>

\* save_preview_cache, whose failure is ignored, then the answer.
SavePreview(w) ==
    /\ window[w].pc = "save"
    /\ \/ cache' = window[w].offer /\ UNCHANGED limits
       \/ UNCHANGED cache /\ CountFault
    /\ window' = [window EXCEPT ![w].pc = "offered"]
    /\ refused' = refused \ {w}
    /\ UNCHANGED <<environment, host, operation, served, touched>>

\* Mutant: only a successful answer touches the cache.
KeepPreview(w) ==
    /\ window[w].pc = "forget"
    /\ window' = [window EXCEPT ![w] = Closed]
    /\ refused' = IF window[w].offer # None THEN refused \cup {w} ELSE refused
    /\ UNCHANGED <<environment, host, cache, operation, served, touched, limits>>

\* remove_file, whose failure is ignored, then the refusal.
ForgetPreview(w) ==
    /\ window[w].pc = "forget"
    /\ \/ cache' = None /\ UNCHANGED limits
       \/ UNCHANGED cache /\ CountFault
    /\ window' = [window EXCEPT ![w] = Closed]
    /\ refused' = IF window[w].offer # None THEN refused \cup {w} ELSE refused
    /\ UNCHANGED <<environment, host, operation, served, touched>>

\* plan_release_upgrade: the current offer again, which must be the one shown.
PlanRelease(w) ==
    /\ window[w].pc = "offered"
    /\ Fetches("Ok") /\ published = window[w].offer
    /\ window' = [window EXCEPT ![w].pc = "plan"]
    /\ UNCHANGED <<environment, host, cache, operation, history, limits>>

\* The simulation, on a copy of the package database.
ComputePlan(w) ==
    LET m == window[w].offer IN
    /\ window[w].pc = "plan"
    /\ window' =
          [window EXCEPT ![w] =
              IF CanPlan(m, mirror, installed)
              THEN [Closed EXCEPT !.pc = "planned",
                                  !.plan = PlanReleaseUpgrade(m, identity, mirror, installed)]
              ELSE [@ EXCEPT !.pc = "offered"]]
    /\ UNCHANGED <<environment, host, cache, operation, history, limits>>

\* Start of a new operation: the offer is fetched a third time ...
StartFetch(w) ==
    /\ window[w].pc = "planned" /\ operation.phase = "none"
    /\ Fetches("Ok") /\ published = window[w].plan.manifest
    /\ window' = [window EXCEPT ![w].pc = "start"]
    /\ UNCHANGED <<environment, host, cache, operation, history, limits>>

\* ... and the plan computed a second time; only then is anything written.
StartPlan(w) ==
    LET plan == window[w].plan IN
    /\ window[w].pc = "start" /\ operation.phase = "none"
    /\ CanPlan(plan.manifest, mirror, installed)
    /\ PlanReleaseUpgrade(plan.manifest, identity, mirror, installed) = plan
    /\ operations < MaxOperations
    /\ operations' = operations + 1
    /\ operation' = [NoOperation EXCEPT !.phase = "created", !.plan = plan]
    /\ window' = [window EXCEPT ![w].pc = "spawn"]
    /\ UNCHANGED <<environment, host, cache, history, events, faults>>

\* PLAN_CHANGED.
StartRefused(w) ==
    /\ window[w].pc = "start"
    /\ window' = [window EXCEPT ![w].pc = "planned"]
    /\ UNCHANGED <<environment, host, cache, operation, history, limits>>

\* The service died after it wrote the pending plan: Start is sent again and
\* finds the operation owned, which neither fetches nor plans.
ServiceDies(w) ==
    /\ window[w].pc = "spawn"
    /\ window' = [window EXCEPT ![w].pc = "planned"]
    /\ CountEvent
    /\ UNCHANGED <<environment, host, cache, operation, history>>

StartAgain(w) ==
    /\ window[w].pc = "planned"
    /\ operation.phase = "created" /\ operation.plan = window[w].plan
    /\ window' = [window EXCEPT ![w].pc = "spawn"]
    /\ UNCHANGED <<environment, host, cache, operation, history, limits>>

Spawn(w) ==
    /\ window[w].pc = "spawn" /\ operation.phase = "created"
    /\ operation' = [operation EXCEPT !.phase = "staging"]
    /\ window' = [window EXCEPT ![w] = [Closed EXCEPT !.pc = "following"]]
    /\ served' = (published = operation.plan.manifest)
    /\ UNCHANGED <<environment, host, cache, refused, touched, limits>>

\* The window is closed, and opened again: it resumes an operation that is not
\* over.  One that was created and is never started again is as good as none.
CloseWindow(w) ==
    /\ \/ window[w].pc = "planned"
       \/ window[w].pc = "following" /\ operation.phase = "none"
    /\ window' = [window EXCEPT ![w] = Closed]
    /\ operation' = IF operation.phase = "created" THEN NoOperation ELSE operation
    /\ UNCHANGED <<environment, host, cache, history, limits>>

-----------------------------------------------------------------------------
(* Staging, in the executor.                                               *)

Manifest == operation.plan.manifest
To(phase) == operation' = [operation EXCEPT !.phase = phase]
OnlyOperation == UNCHANGED <<environment, host, cache, window, history, limits>>

\* Mutant: the pending manifest is taken at its word.
StageUnfetched ==
    /\ operation.phase = "staging"
    /\ CheckConfirmed(Manifest, operation.plan)
    /\ To("refresh")
    /\ OnlyOperation

\* The offer is fetched once more, and its signed bytes kept.
StageFetch ==
    /\ operation.phase = "staging"
    /\ CheckConfirmed(Manifest, operation.plan)
    /\ "Ok" \in FetchOutcomes(published, operation.plan.source, lastSequence, channel, clock)
    /\ published = Manifest
    /\ To("refresh")
    /\ OnlyOperation

\* zypper refresh into the operation's own cache.
StageRefresh ==
    /\ operation.phase = "refresh"
    /\ operation' = [operation EXCEPT !.phase = "simulate", !.staged = mirror]
    /\ OnlyOperation

\* Still the confirmed plan, with the staged metadata, on this host.
Holds == Revalidate(Manifest, operation.plan, operation.staged, identity, installed)

StageSimulate ==
    /\ operation.phase = "simulate"
    /\ Holds
    /\ To("download")
    /\ OnlyOperation

\* The artifacts of the staged metadata must still be on the mirror; their
\* content is whatever the mirror has.
StageDownload ==
    /\ operation.phase = "download"
    /\ \A c \in operation.plan.changes :
          c.to # 0 => mirror.edition[c.name] = operation.staged.edition[c.name]
    /\ operation' = [operation EXCEPT !.phase = "recheck", !.staged.genuine = mirror.genuine]
    /\ OnlyOperation

\* After the download everything is checked again, then comes the snapshot
\* and the marker.
StageRecheck ==
    /\ operation.phase = "recheck"
    /\ Holds
    /\ VerifyPayloads(Manifest, operation.plan, operation.staged.genuine)
    /\ ValidateTime(Manifest, clock) = "Ok"
    /\ operation' = [operation EXCEPT !.phase = "ready", !.before = <<installed, identity>>]
    /\ OnlyOperation

\* Blocked or Failed: nothing was changed.
StageFails ==
    /\ operation.phase \in {"staging", "refresh", "simulate", "download", "recheck"}
    /\ operation' = NoOperation
    /\ OnlyOperation

-----------------------------------------------------------------------------
(* The offline boot, the verification and the recovery.                    *)

OfflineBoot ==
    /\ operation.phase = "ready"
    /\ To("load")
    /\ OnlyOperation

\* Mutant: the retained bytes are trusted as they were staged.
OfflineTrusts ==
    /\ operation.phase = "load"
    /\ To("revalidate")
    /\ OnlyOperation

\* The retained signed bytes, against the source of the record and the replay
\* record and channel of now.
OfflineLoad ==
    /\ operation.phase = "load"
    /\ VerifyManifestFiles(Manifest, operation.plan.source, lastSequence, channel, clock) = "Ok"
    /\ To("revalidate")
    /\ OnlyOperation

OfflineRevalidate ==
    /\ operation.phase = "revalidate"
    /\ Holds
    /\ VerifyPayloads(Manifest, operation.plan, operation.staged.genuine)
    /\ To("apply")
    /\ OnlyOperation

\* What zypper does, with arguments from the confirmed inventory.
Remaining == Solve(Manifest, operation.staged, operation.plan.installed, installed)

OfflineApplies ==
    /\ operation.phase = "apply"
    /\ \E c \in Remaining : installed' = Applied(c, installed)
    /\ touched' = TRUE
    /\ UNCHANGED <<environment, identity, lastSequence, cache, window, operation, refused, served,
                   limits>>

OfflineApplied ==
    /\ operation.phase = "apply" /\ Remaining = {}
    /\ identity' = Manifest.target
    /\ To("finish")
    /\ UNCHANGED <<environment, installed, lastSequence, cache, window, history, limits>>

\* A migration compares the inventory before it reports success.
OfflineFinishes ==
    /\ operation.phase = "finish"
    /\ IsMigration(Manifest) => VerifyResult(operation.plan, installed)
    /\ To("applied")
    /\ OnlyOperation

\* An error or a power loss, also half-way through the transaction.
OfflineFails ==
    /\ operation.phase \in Offline
    /\ To("failed")
    /\ OnlyOperation

\* The verifier of the next boot consumes the sequence.
BootVerified ==
    /\ operation.phase = "applied"
    /\ VerifyResult(operation.plan, installed) /\ identity = Manifest.target
    /\ lastSequence <= Manifest.sequence
    /\ lastSequence' = Manifest.sequence
    /\ operation' = NoOperation
    /\ touched' = FALSE
    /\ UNCHANGED <<environment, installed, identity, cache, window, refused, served, limits>>

BootFails ==
    /\ operation.phase = "applied"
    /\ To("failed")
    /\ OnlyOperation

KeepCurrent ==
    /\ operation.phase = "failed"
    /\ operation' = NoOperation
    /\ OnlyOperation

Rollback ==
    /\ operation.phase = "failed"
    /\ installed' = operation.before[1] /\ identity' = operation.before[2]
    /\ operation' = NoOperation
    /\ UNCHANGED <<environment, lastSequence, cache, window, history, limits>>

-----------------------------------------------------------------------------
World == Publish \/ MirrorMoves \/ Tick \/ SwitchChannel \/ PackageTool \/ DamagePayload

WindowStep(w) ==
    \/ CheckRelease(w) \/ SavePreview(w) \/ ForgetPreview(w)
    \/ PlanRelease(w) \/ ComputePlan(w)
    \/ StartFetch(w) \/ StartPlan(w) \/ StartRefused(w)
    \/ ServiceDies(w) \/ StartAgain(w) \/ Spawn(w) \/ CloseWindow(w)

OperationStep ==
    \/ StageFetch \/ StageRefresh \/ StageSimulate \/ StageDownload \/ StageRecheck
    \/ StageFails \/ OfflineBoot \/ OfflineLoad \/ OfflineRevalidate \/ OfflineApplies
    \/ OfflineApplied \/ OfflineFinishes \/ OfflineFails \/ BootVerified \/ BootFails
    \/ KeepCurrent \/ Rollback

Next == World \/ (\E w \in Windows : WindowStep(w)) \/ OperationStep

Spec == Init /\ [][Next]_vars

-----------------------------------------------------------------------------
(* Properties.                                                             *)

\* What the documents say an offer must be for this host, without the order of
\* the checks: signed, served for this channel, for this very installation,
\* newer than anything applied, inside its interval, and forward only.
Admissible(m, source) ==
    /\ m.flaw = "none"
    /\ m.status \in {"available"} \cup (IF channel = "testing" THEN {"testing"} ELSE {})
    /\ m.source = source
    /\ m.sequence > lastSequence
    /\ m.valid_from <= clock /\ clock < m.valid_until
    /\ m.target.version.prerelease => channel = "testing"
    /\ IF IsMigration(m)
       THEN m.target = source
       ELSE /\ ~m.target.version.calendar
            /\ ~source.version.calendar => m.target.version.number > source.version.number

\* Every offer that is shown, from the network or from the cache, staged, or
\* accepted in the offline boot is admissible for the host at that moment,
\* whatever the clock, the channel, the publisher and completed operations did
\* since it was seen last.
AdmittedOffers ==
    [][/\ \A w \in Windows :
             window'[w].offer # None /\ window[w].pc \in {"idle", "offered"}
                 /\ window'[w] # window[w] /\ window'[w].pc \in {"save", "offered"}
                 => Admissible(window'[w].offer, identity)
       /\ operation.phase = "staging" /\ operation'.phase = "refresh"
             => Admissible(Manifest, operation.plan.source)
       /\ operation.phase = "load" /\ operation'.phase = "revalidate"
             => Admissible(Manifest, operation.plan.source)]_vars

\* A window that was served a withdrawn, expired or invalid document shows no
\* cached offer until it has been served a good one again, as long as the cache
\* can be written.
NoRedisplay ==
    faults = 0 =>
        \A w \in Windows :
            window[w].pc = "offered" /\ window[w].cached => w \notin refused

\* Whatever was staged was still being published after the operation was
\* started: neither the cache nor a pending plan started again stands in for
\* the publisher.
OfferIsCurrent ==
    operation.phase \notin {"none", "created", "staging"} => served

\* Every package change the offline transaction makes is one the user
\* confirmed, and a migration installs only artifacts with the signed digest,
\* though host, mirrors and cache may have changed since the confirmation.
AppliedAsConfirmed ==
    [][operation.phase = "apply" /\ installed' # installed =>
          \E c \in operation.plan.changes :
              /\ installed' = Applied(c, installed)
              /\ IsMigration(Manifest) => c.name \in operation.staged.genuine]_vars

\* A migration that counts as applied is: unless packages were changed after
\* its verified boot, each of its packages is installed once, as the migrated
\* edition, or is optional and absent.  Interrupted applications, kept or
\* rolled back, and later attempts at the rest do not change that.  Sequence 0
\* stands for none consumed, and no manifest with it is accepted.
ConsumedMigrationIsInstalled ==
    \A m \in Offers :
        IsMigration(m) /\ m.flaw = "none" /\ m.sequence # 0 /\ lastSequence = m.sequence
                /\ ~touched =>
            \A i \in m.package_migration :
                Skipped(i, installed) \/ EditionsOf(i.name, installed) = {i.to}
=============================================================================
