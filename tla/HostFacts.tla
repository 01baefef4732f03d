------------------------------ MODULE HostFacts ------------------------------
(***************************************************************************)
(* What the updater learns about the machine (core/src/discovery.rs,       *)
(* service/src/readonly_discovery.rs) and what it makes of it              *)
(* (core/src/preflight.rs).  A host is described by what its probes meet:  *)
(* the state of each part, or the way its probe fails.  Discovery turns a  *)
(* host into facts or fails; the preflight turns facts into blockers.      *)
(*                                                                         *)
(* Sizes are words of MaxWord: addition saturates as on u64.               *)
(***************************************************************************)
EXTENDS Integers, FiniteSets, FiniteSetsExt

CONSTANTS
    MaxWord,      \* u64::MAX
    Margin,       \* free_space_margin_bytes
    MinBoot,      \* free bytes required in /boot
    MinEsp,       \* and in the EFI system partition
    MinBattery    \* minimum_battery_percent

ASSUME HostFactsAssumption ==
    /\ MaxWord \in Nat /\ Margin \in 0..MaxWord
    /\ MinBoot \in 0..MaxWord /\ MinEsp \in 0..MaxWord
    /\ MinBattery \in 0..100

-----------------------------------------------------------------------------
\* A power supply: its type and what its capacity or online file says; a
\* reading of -1 is a file that cannot be read.
Supplies == [kind: {"Battery", "Mains"}, reading: -1..255]

\* A mount: where findmnt says the path is mounted, with which options, on
\* which device ("blank" when it names none) and subvolume ("none" when the
\* options name no subvolid).
Mounts == [target: {"/", "/home", "/boot/efi"}, options: SUBSET {"rw", "degraded"},
           device: {"blank", "a", "b"}, subvolid: {"none", "1", "2"}]

\* The probes that make discovery fail when they fail themselves.
Probes == {"findmnt", "rpm", "snapper", "df", "power_supply", "lr", "locks", "orphaned",
           "firmware"}

\* A host: what each part is, and which probes fail.  A release file of another
\* edition, with a key missing or repeated, is "invalid".  The pid file may name
\* a process that is gone ("dead"), that runs ("alive"), or that runs and whose
\* /proc/<pid>/comm cannot be read ("hidden").
Hosts ==
    [release: {"x86_64", "aarch64", "invalid"}, filesystem: {"btrfs", "ext4"},
     snapper: {"configured", "absent", "unreachable"}, rpmdb: BOOLEAN,
     pid: {"absent", "empty", "unreadable", "malformed", "dead", "alive", "hidden"},
     supplies: SUBSET Supplies,
     secureBoot: {"enabled", "disabled", "unknown", "fails"},
     root: Mounts, home: Mounts, efi: {"none", "mounted", "readonly", "elsewhere"},
     available: 0..MaxWord, boot: 0..MaxWord, esp: 0..MaxWord,
     inventory: {"table", "none", "garbled"}, failing: SUBSET Probes]

-----------------------------------------------------------------------------
(* discover_host.  DiscoverX says what is found, where XFound holds;       *)
(* discovery as a whole fails where it does not.                           *)

\* parse_release: one safe value for each key, edition desktop.
ReleaseFound(h) == h.release \in {"x86_64", "aarch64"}

\* discover_package_lock fails on a /run/zypp.pid that holds anything but a
\* process number.
PackageLockFound(h) == h.pid # "malformed"

\* No file or an empty one is no lock, and neither is a process that is gone.
\* Nor is what cannot be read: every error of reading the file is taken for a
\* file that is not there, and of reading comm for a process that is not there.
PackageLockFree(h) == h.pid \in {"absent", "empty", "unreadable", "dead", "hidden"}

HomeIsolated(root, home) ==
    /\ home.target = "/home"
    /\ root.device # "blank" /\ home.device # "blank"
    /\ \/ root.device # home.device
       \/ /\ root.subvolid # "none" /\ home.subvolid # "none"
          /\ root.subvolid # home.subvolid

\* An EFI system must have its system partition mounted and writable.
StorageFound(h) ==
    h.efi \in {"none", "mounted"}

DiscoverStorage(h) ==
    [root_writable |-> /\ h.root.target = "/"
                       /\ "rw" \in h.root.options /\ "degraded" \notin h.root.options,
     home_isolated |-> HomeIsolated(h.root, h.home),
     boot_available |-> h.boot,
     esp_available |-> IF h.efi = "mounted" THEN {h.esp} ELSE {}]

\* Mutant: a battery whose charge cannot be read is passed over.
KnownBatteriesOnly(h) ==
    LET batteries == {s \in h.supplies : s.kind = "Battery"}
        readings == {s.reading : s \in batteries} \ {-1}
        external == \E s \in h.supplies : s.kind = "Mains" /\ s.reading = 1
    IN  [on_battery |-> readings # {} /\ ~external,
         percent |-> IF readings = {} THEN {} ELSE {Min(readings)}]

PowerFound(h) == \A s \in h.supplies : s.kind = "Battery" => s.reading <= 100

\* The lowest charge, unknown as soon as one battery does not tell; a machine
\* without batteries runs on none.
DiscoverPower(h) ==
    LET batteries == {s \in h.supplies : s.kind = "Battery"}
        readings == {s.reading : s \in batteries}
        external == \E s \in h.supplies : s.kind = "Mains" /\ s.reading = 1
    IN  [on_battery |-> batteries # {} /\ ~external,
         percent |-> IF readings = {} \/ -1 \in readings THEN {}
                     ELSE {Min(readings)}]

\* The repositories zypper knows, each with the line zypper lr gives it: a row,
\* a row whose alias has characters no alias may have, or a line that is not
\* recognised as a row (too few columns, no number).
Repositories(aliases) ==
    [alias: aliases, enabled: BOOLEAN, gpgcheck: BOOLEAN,
     line: {"row", "invalid", "unrecognised"}]

\* InvalidRepository.
RepositoriesFound(repositories) == \A r \in repositories : r.line # "invalid"

\* discover_repositories: a line that is not recognised is passed over.  What is
\* listed is configuration only, so that nothing enabled counts as healthy yet.
DiscoverRepositories(repositories) ==
    {[alias |-> r.alias, enabled |-> r.enabled, metadata_valid |-> ~r.enabled,
      signing_key_trusted |-> ~r.enabled \/ r.gpgcheck] :
        r \in {x \in repositories : x.line # "unrecognised"}}

\* package_inventory: a table or the sentence that says there is none; a failed
\* or unreadable answer is never an empty inventory.
InventoryFound(h) == h.inventory \in {"table", "none"}

Discoverable(h, repositories) ==
    /\ h.failing = {} /\ RepositoriesFound(repositories)
    /\ ReleaseFound(h) /\ PackageLockFound(h) /\ PowerFound(h)
    /\ InventoryFound(h) /\ StorageFound(h)

\* discover_host; the broker answers "configured" or not, and a broker that
\* cannot be asked means not configured.
DiscoverHost(h, repositories) ==
    [architecture |-> h.release, root_filesystem |-> h.filesystem,
     snapper |-> h.snapper = "configured", rpmdb |-> h.rpmdb,
     lock_free |-> PackageLockFree(h), available |-> h.available,
     power |-> DiscoverPower(h),
     secure_boot |-> IF h.secureBoot \in {"enabled", "disabled"} THEN {h.secureBoot} ELSE {},
     repositories |-> DiscoverRepositories(repositories), storage |-> DiscoverStorage(h)]

-----------------------------------------------------------------------------
(* evaluate_preflight.                                                     *)

\* Mutant: the additions wrap.
WrappingAdd(a, b) == (a + b) % (MaxWord + 1)

SaturatingAdd(a, b) == IF a + b > MaxWord THEN MaxWord ELSE a + b

RequiredBytes(size, minimum) ==
    Max({SaturatingAdd(SaturatingAdd(SaturatingAdd(size.download, size.transaction),
                                     size.snapshot), Margin),
         minimum})

StorageBlockers(storage) ==
    {b \in {"RootNotWritable", "HomeNotIsolated", "InsufficientBootSpace",
            "InsufficientEspSpace"} :
        CASE b = "RootNotWritable" -> ~storage.root_writable
          [] b = "HomeNotIsolated" -> ~storage.home_isolated
          [] b = "InsufficientBootSpace" -> storage.boot_available < MinBoot
          [] b = "InsufficientEspSpace" -> \E e \in storage.esp_available : e < MinEsp}

PowerBlockers(power) ==
    {b \in {"BatteryTooLow", "BatteryStateUnknown"} :
        /\ power.on_battery
        /\ CASE b = "BatteryTooLow" -> \E p \in power.percent : p < MinBattery
             [] b = "BatteryStateUnknown" -> power.percent = {}}

\* metadata_valid comes from the solver phase for every enabled repository.
RepositoryBlockers(repositories) ==
    {<<"RepositoryMetadataInvalid", r.alias>> :
        r \in {x \in repositories : x.enabled /\ ~x.metadata_valid}}
    \cup {<<"RepositoryKeyUntrusted", r.alias>> :
        r \in {x \in repositories : x.enabled /\ ~x.signing_key_trusted}}

PlatformBlockers(f) ==
    {b \in {"UnsupportedArchitecture", "RootNotBtrfs", "SnapperUnavailable",
            "RpmDatabaseUnhealthy", "PackageManagerBusy", "SecureBootStateUnknown"} :
        CASE b = "UnsupportedArchitecture" -> f.architecture # "x86_64"
          [] b = "RootNotBtrfs" -> f.root_filesystem # "btrfs"
          [] b = "SnapperUnavailable" -> ~f.snapper
          [] b = "RpmDatabaseUnhealthy" -> ~f.rpmdb
          [] b = "PackageManagerBusy" -> ~f.lock_free
          [] b = "SecureBootStateUnknown" -> f.secure_boot = {}}

\* The blockers of facts f for a transaction of some size.
EvaluatePreflight(f, size, minimum) ==
    {<<b>> : b \in StorageBlockers(f.storage) \cup PlatformBlockers(f)
                   \cup PowerBlockers(f.power)
                   \cup (IF f.available < RequiredBytes(size, minimum)
                         THEN {"InsufficientSpace"} ELSE {})}
    \cup RepositoryBlockers(f.repositories)
=============================================================================
