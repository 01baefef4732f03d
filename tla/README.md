# Lyra Upgrade: a TLA+ verification project

Lyra Upgrade updates an openSUSE-based desktop: package updates inside a
release, release upgrades and signed package migrations. A privileged service
takes requests from unprivileged clients, threads of it run `zypper`, Snapper
takes a snapshot first, release upgrades are applied in an offline boot
(`/system-update`), and a verifier at the next boot decides whether the
operation is complete or needs recovery. No process lives through the whole of
an operation. What ties them together is one JSON record per operation, one
`flock`, one symbolic link and Snapper's list of snapshots, and any of them may
be met half-way by a crash or by another client. This is what the project is
about.

## Inventory

| Component | State it keeps | Operations | What makes it correct |
|---|---|---|---|
| Operation record (`core/src/lib.rs`, `persistence.rs`) | `state.json` of each operation: state, sequence, error code, snapshot number, rollback objective and clone | `transition_to`, `validate_state`, `save_state`, `load_state` | a record never lies about the system |
| Transaction lock (`service/src/executor.rs`) | `flock` on `/run/lock/lyra-upgrade.lock` | `acquire` (never waits), drop | one transaction at a time |
| Executor (`executor.rs`, `inventory.rs`, `planner.rs`) | its own copy of the record, the inventory before | `execute_update`, `stage_release_upgrade`, failure record | a clean snapshot before every write, no blind repetition |
| Requests (`service/src/main.rs`) | plan and owner files, handlers | `Start`, `Cancel`, `KeepCurrent`, `Rollback`; read-only queries | requests of several clients do not corrupt an operation |
| Rollback (`service/src/recovery.rs`, `core/src/recovery.rs`) | intent and identity of the selected clone | `schedule_rollback`, `finish_rollback` | intent durable before the boot selection changes; verified on the clone |
| Offline worker (`offline/src`) | marker, its copy of the record, the two directories of repositories | `resolve`, `run`, `install_repository_set`, `mark_recovery`, `remove_current`, `reboot_after_cleanup` | every offline boot ends, applied or not, unless the reboot itself is refused; foreign markers survive |
| Boot verifier (`verifier/src`) | scan of all records, replay record `last-manifest-sequence` | scan, reconcile, supervised check, `write_sequence`, verdict | interrupted operations settle; `Completed` is true; no replay |
| Boot and power (`packaging/*.service`) | mounted and default subvolume | boot, reboot, power loss, death of a process | |
| Event log (`event_log.rs`, `Observer` and `status` in `main.rs`) | `events.jsonl`, `events.error`, `.events.lock`, a log in memory per `Start` | restore, append, compact, mark a failure, read | no event is hidden, no number used twice |
| Manifest route, cache and migration policy (`core/src/manifest.rs`, `migration.rs`, `service/src/manifest_fetch.rs`, `migration.rs`) | `release-preview.json`, the retained signed bytes | fetch, verify, show, plan, verify payloads and result | only an admissible offer is shown, staged or applied, as it was confirmed |
| Planner and simulation (`planner.rs`, `simulation.rs`, `repository_context.rs`) | a private copy of package database, repositories and cache | copy, dry run, evaluate, revalidate | a plan is of one system |
| Solver XML and vendor metadata (`solver_xml.rs`, `vendor_metadata.rs`) | none | merge the report's sections, look up vendors by exact header | the plan is the whole transaction, with true vendors |
| Solver policy and preflight (`core/src/solver.rs`, `preflight.rs`) | none | pure decisions | offer only what the policy grants and the machine can take |
| Host discovery (`core/src/discovery.rs`) | none | read-only probes | a failed probe refuses the plan, but for the package lock and for lines of the repository listing that are not recognised |
| Protocol, query broker, CLI, desktop interface | the window's events, cursor, offer and plan | build requests, show answers | |
| Sanitizer, process helpers, dependency check, scripts | none | text and I/O | |


**Interactions.** A handler of the service validates a request, writes files
and spawns an executor thread, then answers; thread, handlers of other
connections, offline worker and verifier all work on *copies* of the record and
save whole records. The lock serialises executors, rollbacks, the offline
worker and the verifier. `Cancel`, `KeepCurrent`, `Start` and an executor's
failure record do not take it. The boot verifier's parent holds the lock while a child
(`--check-boot`) reloads the record and inspects the system.

**What is hard.** Load-then-save without the lock; a lock that dies with its
process; crashes between a durable step and the record of it (`snapper create`
and its number, the marker and `ReadyToReboot`, the replay record and
`Completed`, the intent and the boot selection); two operations whose
snapshots, roots and manifests interact; another updater's marker; a verifier
that gives up for this boot; and whether an operation left in progress is ever
settled at all. Around an operation: observers that number events from logs of
different age, a history that is compacted and read while it is written, a cache
shared by windows, offers that are withdrawn or expire between being shown,
planned, staged and applied, a metadata cache that is refreshed while it is
copied, and probes that fail. `PROJECT.json` lists each of these hazards at its line.

## Modules

Three groups share no variables. Each covers its part in detail and the others'
by their outcome.

*The life of operations across processes, crashes and boots:*

| Module | Content |
|---|---|
| `OperationRecord` | the record, its transition table, `validate_state`, failure and interruption states |
| `Machine` | everything shared: durable files, root subvolumes, snapshots, replay record, lock, the processes' program counters, and the bounds |
| `Executor` | an executor thread: `execute_update` and `stage_release_upgrade` up to the failure record written after the lock is dropped |
| `Service` | a client's request: `Start` (three separate writes, then the spawn), `Cancel`, `KeepCurrent`, `Rollback` |
| `OfflineApply` | the offline worker, from the marker to the reboot, with the two renames of the repository exchange |
| `BootVerifier` | the verifier, from the lock to the verdict |
| `UpgradeSystem` | composes them with boots, crashes and other updaters; `Spec`, `FairSpec` and the properties |
| `ProtectedChange` | the abstract promise: copy, change, restore, declare |
| `UpgradeRefinement` | the mapping under which `UpgradeSystem` implements `ProtectedChange`, with its declarations and without |
| `MCUpgradeSystem` | small instances for TLC |
| `UpgradeInvariant` | the inductive invariants of types, snapshots, replay record, recovery, the promise and a transaction on record, in named parts |
| `TypeProofs`, `SnapshotProofs`, `ReplayProofs`, `RecoveryProofs`, `PromiseProofs` | the theorems; each module extends the one before, the last one `UpgradeRefinement` too |

*The history of one operation:*

| Module | Content |
|---|---|
| `EventLog` | observers, file, locks, failure marker, `Status`, the window's cursor, failures |
| `MCEventLog` | its instance |
| `EventLogProofs` | its invariant and theorems |

*From an offer to what is installed:*

| Module | Content |
|---|---|
| `SignedOffer` | pure decisions on a manifest: route, validity, migration, plan, revalidation, payloads, result |
| `ReleasePlanning` | windows, `Start`, staging, offline boot and verification around one offer, with publisher, mirrors, clock, channel and other package tools; extends `SignedOffer` |
| `HostFacts` | `discover_host` and `evaluate_preflight` as operators on what the probes meet |
| `SolverPolicy` | the merge of the solver's report, the vendors and the policy; extends `HostFacts` |
| `UpdatePlanning` | one planning request step by step, beside other package managers; extends `SolverPolicy` |
| `MCReleasePlanning`, `MCUpdatePlanning` | their instances |
| `OfferProofs`, `PlanningProofs` | the invariants and theorems of `ReleasePlanning` and `UpdatePlanning` |

In the first group each process is a record with a program counter `pc`, the operation `op` it
works on and `mem`, its copy of the operation's record. One action is one step
after which another process can see or change something: a save, an
acquisition, a command that changes the system, a reload. Everything a handler
does between two such points is in the same action. Definitions carry the names
of the source where they can; `PROJECT.json` maps each one to its lines.

A root subvolume is abstracted to its marker and to how far each operation's
package transaction has got on it: `"old"`, `"partial"` or `"new"`. A snapshot
is a copy of a root and remembers who took it; a rollback makes a new root out
of a snapshot and selects it for the next boot. Operation directories are not
part of a root, as `schedule_rollback` requires
(`RECOVERY_STATE_NOT_PERSISTENT`).

### Abstractions

- A save is atomic and durable: `write_and_replace` writes a temporary file,
  syncs it, renames it and syncs the directory. The one save whose steps are
  told apart is the replay record, because its temporary file is created
  with `create_new` and a leftover one blocks every later attempt.
- `validate_state` is a guard of every save; a refused save is the error path
  of the caller, in the verifier the end of the process.
- `zypper`, Snapper, `dracut`, GRUB and the health probes are their outcomes. A
  transaction goes through `"partial"`; any command may fail. A `zypper` whose
  parent died is not killed with it: the death leaves the system as it is,
  `"partial"` or `"new"`.
- The comparison of the plan with a fresh simulation (`PlanStillHolds`) is
  equality of the abstract package state the plan was computed on. The check of
  the result (`ResultMatchesPlan`) compares the installed packages with the
  inventory before and the plan; kept multiversion kernels play no role.
- The verifier takes the newest candidate by `updated_at`. The model takes any
  candidate, since clocks give no order one can rely on. Entries the scan finds
  unreadable are left out.
- `systemctl reboot`, once accepted, happens (`OfflineReboot`). It is asked for
  only when no marker is left, so a refusal (`RebootFails`) leaves the machine in
  the offline boot: the worker exits with an error and releases its lock, and
  systemd's cleanup, which is for markers nobody removed, has nothing to do. The
  worker's position is then `"stranded"`; the record stays as it is
  (`docs/offline-reboot.md`: "seu estado `AwaitingReboot` permanece disponível"),
  and somebody has to restart the machine. When a marker is still there the worker
  stops and the cleanup removes it and reboots (`RebootRefused`,
  `SystemUpdateCleanup`).
- A root carries which repositories it has and whether `/etc/zypp/repos.d` is
  there at all. `install_repository_set` prepares, moves the old directory away
  and moves the new one in: three points for a crash or an error. Its refusal
  when a directory of an earlier attempt is left is one of the ways
  `OfflineFails` covers; an operation is applied once.
- Identifiers, hashes, owners and signatures of one operation do not change; in
  this group the freshness of a manifest is the replay rule alone.
- The bounds (`MaxStarts`, `MaxRequests`, `MaxCrashes`, `MaxSnapshots`,
  `MaxClones`) are guards of the environment's actions only. `MaxSequence` is
  the largest value of the record's sequence, at which it saturates
  (`saturating_add`).

Of the event log:

- Every record, the truncation marker included, has the same size, and
  `MaxUnits` of them fit. A record is complete or torn; other damage to the file
  is not modelled.
- A locked read or append excludes the others, so a locked read is one step and
  an append is the steps between which a process may die or power may fail: half
  of the record, the rest, the sync. A replacement is atomic by its rename and
  durable with the directory's sync.
- The failure marker is tried at the first failure of a log only. When it cannot
  be written either (`unmarked`), the failure is known to that process alone.

Of the offer:

- Version, vendor and architecture of a package are one *edition*; a digest is
  genuine or not; a manifest has at most one flaw of syntax or signature, each
  in the place where the code finds it. Reading the trust sequence and fetching
  the manifest are one step: `StartFetch` and `StageFetch` fetch again anyway.
- One operation is under way at a time; `UpgradeSystem` is about several.
- The interface disables planning on a cached offer, other clients need not; the
  model lets it go on, since the plan request fetches the offer again.
- `zypper` is deterministic given repositories, arguments and inventory in
  `ReleasePlanning`, and may do anything the versions allow in `UpdatePlanning`.

Of planning:

- The package database is one file; the metadata of the repositories is three
  (index, primary, solv), copied in any order while their generation changes.
  Afterwards the copy is private, so reading it twice gives the same.
- The text of probes, XML and metadata is well formed or not; a header's version
  stands for epoch, version, release and architecture.
- Two places of discovery pass over what they cannot read, and so does the model.
  `/run/zypp.pid` that cannot be read (`"unreadable"`) and an owner whose `comm`
  cannot be read (`"hidden"`) count as a free lock. A line of `zypper lr` with too
  few columns or no number (`"unrecognised"`) is skipped: its repository is in no
  fact and raises no blocker.
- A report lists a change in its own section, there or only as a change of vendor,
  there or only in a section the parser does not know, or, damaged, an upgrade as
  a downgrade as well (`Listings`). Other damage to a report is not modelled.
- In the `host` run the free space is smaller than the largest word: a disk with
  2^64-1 free bytes would pass a saturated sum.

## Runs

In module `MCUpgradeSystem`, `u` is an update, `r` a release upgrade, `m` a
migration with a newer manifest than `r`.

| Run | Instance | Checks |
|---|---|---|
| `clients` | `u`; 2 threads, 2 clients, 2 starts, 1 request, 1 crash | `TypeOK`, `OneTransactionAtATime`, `SnapshotPrecedesWrite`, `RollbackTargetIsClean`, `NeverReapplied` |
| `release` | `r`; 2 requests, 2 crashes, fair | `MarkerHasSnapshot`, `RepositoryOutageIsRecoverable`, `CompletedIsTrue`, `InterruptedSettles`, `OfflineBootEnds` |
| `signed_pair` | `r`, `m`; 1 crash | `CompletedConsumesSequence`, `NoReplay` |
| `pair` | `u`, `r`; 1 request, 1 crash | `RollbackTargetIsClean`, `CompletedIsTrue`, `ImplementsProtectedChange` |
| `crash` | `u`, `r`; 2 crashes, fair | `PartialIsOnRecord`, `InterruptedSettles` |
| `event_log` | 2 observers, 4 events, 2 records in the file, 2 polls, 1 fault | `TypeOK`, `HistoryAccounts`, `NoSequenceReuse`, `NoFalseAlarm`, `NoSilentGap` |
| `planning` | 1 window, 7 documents, 2 mirrors, 2 operations, 2 events, 2 ticks, 1 failed cache write | `TypeOK`, `NoRedisplay`, `OfferIsCurrent`, `ConsumedMigrationIsInstalled`, `AdmittedOffers`, `AppliedAsConfirmed` |
| `host` | 1 request in each scenario of `MCUpdatePlanning` | `TypeOK`, `PlanIsWholeTransaction`, `PlanIsOfOneSystem`, `VendorsAreTrue`, `PlanIsGranted`, `SourcesAreTrusted`, `HostCanTakeIt`, `SpaceSuffices` |

What they show:

- `OneTransactionAtATime`: executors, rollbacks, the offline worker and the
  verifier never overlap, whatever dies or reboots.
- `SnapshotPrecedesWrite`, `RollbackTargetIsClean`, `MarkerHasSnapshot`: there
  is always a snapshot of before the operation, and the number a record carries
  is that one, also when a second thread starts or a stale
  copy of the record is saved.
- `NeverReapplied`: a second start, a crash or another offline boot never runs
  the transaction again on a system an earlier attempt has changed.
- `CompletedConsumesSequence`, `NoReplay`: the replay record is written before
  `Completed`, with a crash anywhere around it, and an older manifest is not
  applied after a newer one has been completed.
- `CompletedIsTrue`: `Completed` is only recorded on a system that has the
  result it describes: the upgrade's packages, or the selected clone with the
  packages of before.
- `PartialIsOnRecord`: a running half-applied system is on record as being
  applied or as needing recovery.
- `InterruptedSettles`, `OfflineBootEnds`: an operation found in progress leaves
  that state, except behind a record stuck in `Snapshotting` (see below), and
  every offline boot ends in a running system, except one whose reboot was
  refused. What such a boot has done is settled like any other after the restart.
- `RepositoryOutageIsRecoverable`: a root that lost its repositories between the
  two renames belongs to an operation that is not taken for applied and that
  carries the number of a clean snapshot with its repositories.
- `ImplementsProtectedChange`: with snapshots as copies and `Completed` records
  as declarations, every step of the system is a step of `ProtectedChange` or
  changes nothing of it. A write happens only under a copy of the untouched system, a clone is
  always such a copy and never the mounted root, and what is declared is true of
  the running system.
- `HistoryAccounts`, `NoSequenceReuse`: repeated compaction keeps all state
  changes and counts exactly the output it dropped, and the number of a dropped
  event is not handed out again, although observers restored their logs at
  different times.
- `NoFalseAlarm`, `NoSilentGap`: what a locked reader reports as damage stays
  damage, and the window's cursor never passes an emitted event without showing
  it, its truncation or an error.
- `AdmittedOffers`, `OfferIsCurrent`, `NoRedisplay`: whatever is shown, staged or
  loaded offline is admissible at that moment by a definition that does not
  follow the code's order of checks; nothing is staged that was not published
  since its start; with one window, a refusal is not followed by the cached
  offer.
- `AppliedAsConfirmed`, `ConsumedMigrationIsInstalled`: every package the
  offline transaction changes is one the user confirmed, with the signed digest
  in a migration, and a migration whose sequence is consumed is installed whole,
  whatever was interrupted, kept, rolled back and tried again before.
- `PlanIsWholeTransaction`, `PlanIsOfOneSystem`, `VendorsAreTrue`: an offered
  plan lists all that `zypper` would do, computed on one package database, with
  the vendors of the headers it really replaces and installs.
- `PlanIsGranted`, `HostCanTakeIt`, `SpaceSuffices`: a declarative reading of
  policy and preflight that the composed operators are checked against. Of the
  package lock `HostCanTakeIt` says only that no owner that can be seen holds it.
- `SourcesAreTrusted`: a repository that the listing shows in a line discovery
  skips raises no blocker even if its signatures are not checked; still nothing of
  an offered plan comes from it, since vendors are looked up for listed
  repositories only.

**Why the bounds are enough.** The races need two holders of a copy: two
threads or a thread and a request, which `clients` has, with a crash as the
third party. Interactions between operations need two of them over one list of
snapshots and one replay record (`pair`, `signed_pair`). Two crashes let the
recovery from the first one be interrupted (`release`,
`crash`). A snapshot and a clone per start suffice, since each attempt
takes at most one of each. `MaxSequence` is reached in
`clients`, `release` and `pair`, so the counter saturates there; no guard reads it. Threads and clients are interchangeable, so
`clients` uses symmetry; the fair runs do not.

Four events in a file of two records compact it twice, the second time over the
marker of the first, and let a dropped number be the highest; two observers
suffice for stale numbering, and two polls for a cursor that moves past
something. In `planning` two operations let a migration be interrupted, kept or
rolled back and tried again, or a second document follow a consumed one; the
validity intervals of the documents begin and end inside the two ticks. In
`host` every respect of a host is varied alone and in pairs, sizes go up to the
largest word (7), and the reports list two packages under every combination of
sections.

These three runs switch TLC's deadlock check off: an operation's history ends
when its observers are done, and planning ends with a plan or a refusal.

**Limits of the passing runs.** `CompletedIsTrue` and `PartialIsOnRecord` are
checked with one client at a time, and the latter without any request but
`Start`. With several clients on one operation they do not hold:
`doc_completed` and `doc_cancel` show how a stale copy breaks them, and
`KeepCurrent` on a half-applied system is a user's decision to live with it
(`Failed`, `RECOVERY_DECLINED`). The theorems say how far they do hold.

**Fairness.** Threads, request handlers, the offline worker and the verifier run
on their own once started (weak fairness of each, none of them waits: the lock
is taken with `LOCK_NB`). A machine that is down is switched on again, and it is
rebooted now and then when idle or stranded. The last one is what the design relies on:
only the verifier of a later boot reconciles an operation whose process died.
Requests, crashes and other updaters are not fair.

## Where the documentation and the code differ

Four runs state a sentence of the documentation or of a comment and are violated.

| Run | Property | What happens |
|---|---|---|
| `doc_snapshotting` | `SnapshottingEnds` | Power is lost between `Snapshotting` and the saved number. The verifier wants `NeedsRecovery`, `validate_state` refuses it without a number, the verifier exits. The record stays, and every later boot ends the same way before it reconciles or verifies anything else. |
| `doc_completed` | `CompletedIsTrue` | A `KeepCurrent` loaded before the rollback is saved between the verifier's save and its child's reload. The child checks the upgrade, the parent records a verified rollback. |
| `doc_cancel` | `CancelNeverWhileWriting` | A `Cancel` that loaded a cancelable record saves it after the executor went on to `Snapshotting` or `Applying`. |
| `doc_preview` | `NoRedisplay` | A window saves the offer it fetched after another window was served the withdrawal and removed the cache; at its next failed download the refused window shows the offer again. |

In `doc_completed` and `doc_cancel` the cause is the same: a copy of the record
is saved without the transaction lock. Two more sentences of
`docs/lyra-upgrade-state-machine.md` do not hold for the same reason: the
sequence of a record may go back when a second `Start` that finds the lock busy
writes its `Blocked` record (line 4), and after the death of the service a second
operation reaches a write state while the first record is still in one
(line 57). `NeverReapplied` and `OneTransactionAtATime` show that the system is
safe all the same.

## Theorems

Proved with TLAPS for every value of the constants: any set of operations,
threads, clients, windows, observers and packages, any publisher, mirrors, hosts
and policies, any width of a word and any bounds. Every inductive invariant was
checked by TLC on the instance of a run before it was proved. `PROJECT.json` lists
the results; the lemmas they rest on are in the same modules.

| Module | Theorems, with the properties of the runs they state |
|---|---|
| `TypeProofs` | `TypeInvariance`, `TypeCorrectness` (`TypeOK`), `MutualExclusion` (`OneTransactionAtATime`) |
| `SnapshotProofs` | `SnapshotInvariance`, `RollbackTargets` (`RollbackTargetIsClean`), `SnapshotsFirst` (`SnapshotPrecedesWrite`), `MarkersProtected` (`MarkerHasSnapshot`), `AppliedOnce` (`NeverReapplied`) |
| `ReplayProofs` | `ReplayInvariance`, `CompletionConsumes` (`CompletedConsumesSequence`), `NothingReplayed` (`NoReplay`) |
| `RecoveryProofs` | `RecoveryInvariance`, `OutagesRecoverable` (`RepositoryOutageIsRecoverable`), `SpentForGood` |
| `PromiseProofs` | `ChangeInvariance`, `StorageProtected` (`ImplementsProtection`), `TruthInvariance`; if the child reads the record that was claimed: `CompletedTrue` (`CompletedIsTrue`), `PromiseKept` (`ImplementsProtectedChange`); if no two requests and no two threads are on one operation: `ClaimInvariance`, `UnsharedCompletesTruly` (`CompletedIsTrue`), `UnsharedKeepsPromise` (`ImplementsProtectedChange`), `OnRecordInvariance`, `PartialsOnRecord` (`PartialIsOnRecord`); for one process with one thread: `SoleClient` (`CompletedIsTrue`, `ImplementsProtectedChange`), `SoleClientOnRecord` (`PartialIsOnRecord`) |
| `PlanningProofs` | `PlanInvariance`, `PlanningTypes` (`TypeOK`), `PlansAreWhole` (`PlanIsWholeTransaction`), `PlansAreOfOneSystem` (`PlanIsOfOneSystem`), `PlansTellVendors` (`VendorsAreTrue`), `PlansAreGranted` (`PlanIsGranted`), `PlansHaveTrustedSources` (`SourcesAreTrusted`), `HostsCanTakeIt` (`HostCanTakeIt`), `SpaceIsEnough` (`SpaceSuffices`) |
| `EventLogProofs` | `LogInvariance`, `LogTypes` (`TypeOK`), `HistoryIsAccounted` (`HistoryAccounts`), `NumbersAreUnique` (`NoSequenceReuse`), `AlarmsAreTrue` (`NoFalseAlarm`), `GapsAreTold` (`NoSilentGap`) |
| `OfferProofs` | `OfferInvariance`, `OfferTypes` (`TypeOK`), `OffersAreCurrent` (`OfferIsCurrent`), `ConsumedIsInstalled` (`ConsumedMigrationIsInstalled`), `OffersAreAdmitted` (`AdmittedOffers`), `ChangesAreConfirmed` (`AppliedAsConfirmed`), `RefusedStaysHidden` (`NoRedisplay`, for one window) |

### Assumptions

- `MaxSequenceAssumption`, `MachineAssumption`: the counter's largest value is a
  positive number, kinds and manifest sequences are well typed, and the names of
  threads, clients and the two singleton processes differ.
- `ChildReadsTheRecord` is a hypothesis of `CompletedTrue` and `PromiseKept`, not
  an assumption on constants: when the `--check-boot` child loads the record, it
  has the objective and the clone of the copy its parent holds. The code leaves
  this to the lock, which `KeepCurrent` does not take; `doc_completed` is a
  behaviour without it, so the theorems need it or something like it.
- `Unshared` is a hypothesis on the clients alone that implies it
  (`ClaimInvariance`): at no time are two requests, or two threads, on one
  operation. A request beside a thread, any number of clients on different
  operations, deaths at any point and a late `Cancel` are all allowed. With one
  service process that has one thread it always holds, which is the case of the
  runs `release`, `pair` and `crash` (`SoleClient`, `SoleClientOnRecord`).
- `HostFactsAssumption`, `PlanningAssumption`: margins and minima fit into a word,
  there are finitely many package names, a request is well typed with at least
  one state of database and metadata, and a disk has fewer free bytes than the
  largest word: otherwise `SpaceSuffices` is false, as a saturated sum would equal
  the free space. The repositories of a release are enabled and have their
  signatures checked, as `plan_release_upgrade` writes them.
- `EventLogAssumption`: the broker is no observer, the file holds at least one
  record, and the bounds are natural numbers.
- `SignedOfferAssumption`, `ReleasePlanningAssumption`: offers, mirrors and the
  initial host are well typed, and "no offer" is none.
- `PublisherAssumption`: an acceptable offer and a well-formed migration with the
  same sequence have the same migration list. The code relies on it: it takes any migration that bears the
  consumed sequence for the applied one (`manifest.rs:165-173`,
  `docs/package-migration.md:33`). Only `OfferInvariance` and what follows from
  it use it.

### The arguments

**Types.** `TypeOK` is not inductive: a record on disk is well typed because
every copy a thread, a request, the offline worker or the verifier may still
save is; a rollback indexes the snapshots with the number in such a copy, so
every copy must name an existing snapshot; and a process that is not idle must
work on an operation. `TypeInvariant` says this in one part per process. A lemma
per process shows that its steps keep its own part and only lengthen the list of
snapshots, which keeps the others'.

**Lock.** Each process holds the lock while its `pc` is inside a transaction. A
step acquires a free lock, so nobody else is inside, or stays inside, or leaves
and frees it; a death or a power loss does both at once.

**Snapshots.** That the record's number is a clean snapshot survives a save only
if it holds for what is saved, so `SnapshotInvariant` says it of every copy: on
disk, in a thread, a request, the offline worker and the verifier. A snapshot is
clean if the system is, at the moment it is taken, so a thread between its last
comparison of the plan and `snapper create` must run on a system without its
packages. It does since whoever could write them needs the lock, or boots, which
ends the thread. A rollback clones a snapshot into a root, and that
root may carry other operations' packages and markers: the parts about roots are
stated of the roots inside snapshots too. A plan is confirmed on a system without
the operation's packages (`BasisClean`), so the comparison with it finds a system
that an earlier attempt has changed; from it `NeverReapplied` follows.

**Replay.** `Completed` is written from a copy, so a copy with that state must
have its sequence consumed in the verifier and on disk, and must not exist in a
thread or in a rollback request about to save. `NoReplay` needs that the freshness
`LoadStaged` has checked lasts until `zypper` starts: only the verifier raises
the replay record, and it needs the lock the offline worker holds.

**Recovery.** `~live` on a root must lead to an operation whose record leads
back, and the roots a rollback brings back are those inside snapshots, so
`OutagePart` speaks of all of them (`AllRoots`). The operation is found by
following who moved the repositories away: only the offline worker does, on the
mounted root, for a release upgrade whose packages are installed there and
nowhere else (`HerePart`, `OldElsewhere`). That it stays recoverable needs that
nobody can run it again or save a record of before: it is `Spent`, and
`SpentPart` says so of every signed operation that left packages on any root.
Its snapshot has repositories because two roots with the same release upgrades
are alike in having them (`AlikePart`), and the snapshot has the packages the
plan was computed on (`BasisPart`), which are those of the mounted root when
the offline worker starts. A lemma per process gives the effect of its steps on
records, copies and roots (`WorkerEffects`, `SessionEffects`,
`VerifierEffects`); the invariant is proved from the effects.

**The promise.** What is written, copied and restored follows the abstract
specification whatever is declared (`StorageProtected`): `zypper` starts only
where the packages are old and stays where they are not yet new (`WritePart`),
under a clean snapshot by the snapshot theorems, and a clone gets a number that
is neither mounted nor in use (`ClonePart`). That `Completed` is true is
`TruthInvariant`. For an upgrade: a root that contains a declared release
upgrade and, of the others, what its plan saw, has its repositories
(`DeclaredPart`), since nothing but the offline worker's own boot could write
such a root. For a rollback: the clone in any copy of the record holds none of
the operation, and once it is mounted the operation is spent (`GoalPart`). The
check of the child then finds what `Verified` says, and until the verdict is
saved nobody changes the system, as the verifier holds the lock
(`VerdictInvariant`).

**One client at a time.** `ChildReadsTheRecord` is not inductive. Before the
verifier scans, `UnclaimedPart` says what a thread or a request that is under
way may find on disk: no thread works on a record that awaits a boot or
recovery, no `Cancel` on one with an objective. So what the scan takes up has
no thread, no `Start` and no `KeepCurrent` on it; `ClaimedPart` says that this
lasts, with a late `Cancel` of an upgrade as the only other writer, which keeps
the objective.

**On record.** `OnRecordInvariant` follows a transaction as long as no decision
was taken (`requests = 0`): a thread in `zypper` has `Applying` on disk, and
whoever might save over a half-applied system holds a copy with a snapshot
number, so that it saves `NeedsRecovery`. The verifier gives up only downloads,
and those changed nothing when they were scanned and since.

**Planning.** The order of the report's elements is arbitrary, so the invariant
speaks of any split into elements read and elements left: every element left
lists a change of the transaction (`Accounted`), and every change read is one of
the transaction, or an element left will correct or contradict it (`Faithful`).
When nothing is left and the summary agrees, the plan is the transaction. Inventory and vendors come
from the private copy, which nobody changes after it was made, and every change
that installs something has a valid alias once its vendors are looked up. Policy, preflight
and space are lemmas on the operators of `SolverPolicy` and `HostFacts`: no
blocker implies each condition of the declarative reading, and a saturating sum
that is below the largest word is the true sum.

**Event log.** `LogInvariant` says the same of the file and of what is synced of
it (growing numbers; a marker that counts what is gone and reaches as far), since
a power loss turns the second into the first. Between replacements
the second is a prefix of the first. An observer that appends holds the file's
lock, with a number beyond everything in the file and beyond the marker. A
reading is whole from the window's cursor up to the last event in it, and the
window shows all events up to its cursor or their truncation, unless it shows an
error.

**Offers.** `OfferInvariant` follows one operation. From `StageFetch` on its plan
is the one confirmed for an acceptable manifest. From the snapshot until packages
change, the inventory is the one recovery would restore. While `zypper` works,
what it still has to do (`Remaining`) is part of the plan, and each pending
package of a migration is as it was or as it will be. A consumed migration
stays installed since another package tool's change is recorded as one
(`touched`) and a rollback restores an inventory in which it was installed.

### Only model-checked

- `InterruptedSettles`, `OfflineBootEnds`: liveness rests on fairness and
  `ENABLED`, which are out of the prover's reach.
- `CompletedIsTrue`, `ImplementsProtectedChange` and `PartialIsOnRecord` are
  proved under the hypotheses above and are false without them: two clients on
  one operation break the first two (`doc_completed`), two threads or a recovery
  decision the third.
- `NoRedisplay` is proved for one window; with two it is false (`doc_preview`).
- What a recursive definition computes for every input needs induction over
  data, so the models use sets and folds instead, and the theorems speak of
  those.

## Not modelled

The dependency check after boot is one outcome of the verifier's check; the
sanitizer and process helpers filter text and run commands; protocol formats,
socket activation, the command line and the layout of the interface keep no
state an operation depends on; scripts and packaging are build tooling.
`PROJECT.json` says so for each. Cryptography is a good or a bad signature, and
the parsers are their verdict on a text.

## Plan

1. Done: record, lock, executor, requests, rollback, offline worker, verifier
   and boots; event log; signed offers from the window to the verified boot;
   planning, discovery, policy; the refinement of `ProtectedChange`.
2. Done: the theorems on types, lock, snapshots, replay record, planning, event
   log and offers.
3. Done: the theorems on recovery, on the storage part of `ProtectedChange`, on
   its declarations and on what is on record, with the conditions on clients they
   need. Every invariant and every action property of the passing runs is a
   theorem.
4. Left: the liveness properties, which the prover cannot reach.
