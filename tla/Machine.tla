------------------------------- MODULE Machine -------------------------------
(***************************************************************************)
(* The state the programs of Lyra Upgrade share: what survives a power     *)
(* loss (the operation directories, the root subvolumes with their         *)
(* /system-update marker, Snapper's snapshots, the replay record) and what *)
(* does not (the processes, and the flock they serialise on).              *)
(*                                                                         *)
(* A root subvolume is abstracted to its marker, to what each operation's  *)
(* package transaction has done to it and to its repository set: whose it  *)
(* is, and whether /etc/zypp/repos.d is there (live) or was only moved     *)
(* away.  Operation directories live in a subvolume of their own and are   *)
(* not part of a root: that is what schedule_rollback insists on           *)
(* (RECOVERY_STATE_NOT_PERSISTENT).                                        *)
(***************************************************************************)
EXTENDS OperationRecord, Sequences

CONSTANTS
    Ops,               \* the operation identifiers that may be used
    Kind,              \* [Ops -> Kinds]
    ManifestSequence,  \* [Ops -> Nat]: sequence of the manifest a signed operation applies
    Workers,           \* executor threads of service processes
    Sessions,          \* request loops of service processes (one request at a time each)
    NoOp,              \* no operation; as a marker, no /system-update
    Foreign,           \* a /system-update of another updater
    MaxSnapshots,      \* bound: snapshots Snapper creates
    MaxClones,         \* bound: rollbacks Snapper carries out
    MaxStarts,         \* bound: Start requests per operation
    MaxRequests,       \* bound: Cancel, KeepCurrent and Rollback requests
    MaxCrashes         \* bound: power losses, process deaths, foreign markers

ASSUME MachineAssumption ==
    /\ Kind \in [Ops -> Kinds]
    /\ ManifestSequence \in [Ops -> Nat \ {0}]
    /\ NoOp \notin Ops /\ Foreign \notin Ops /\ NoOp # Foreign
    /\ Workers \cap Sessions = {}
    /\ {"free", "offline", "verifier"} \cap (Workers \cup Sessions) = {}
    /\ MaxSnapshots \in Nat /\ MaxClones \in Nat /\ MaxStarts \in Nat
    /\ MaxRequests \in Nat /\ MaxCrashes \in Nat

VARIABLES
    \* Durable.
    disk,        \* operation -> record in its state.json
    pending,     \* operations with a pending-plan.json
    owned,       \* operations with an owner file
    basis,       \* operation -> packages its confirmed plan was computed on
    before,      \* operation -> packages in its inventory-before.json
    roots,       \* root subvolumes: 0 is the installed one, the others rollback clones
    clones,      \* how many clones exist
    default,     \* subvolume the next boot mounts
    snapshots,   \* snapshot n is snapshots[n]
    lastSequence,\* last-manifest-sequence, 0 when there is none
    staleTmp,    \* last-manifest-sequence.tmp was left behind
    \* Volatile.
    mode,        \* "up", "offline" (system-update.target) or "down"
    mounted,     \* subvolume mounted as /
    lock,        \* holder of /run/lock/lyra-upgrade.lock, or "free"
    worker, session, offline, verifier,   \* the processes
    \* Bounds.
    starts, requests, crashes

files == <<pending, owned, basis, before>>
storage == <<roots, clones, default, snapshots>>
replay == <<lastSequence, staleTmp>>
platform == <<mode, mounted>>
processes == <<worker, session, offline, verifier>>
bounds == <<starts, requests, crashes>>
vars == <<disk, files, storage, replay, platform, lock, processes, bounds>>

-----------------------------------------------------------------------------
Signed(op) == IsSignedOffline(Kind[op])

\* What one operation's transaction has done to a root: nothing, part of it,
\* or all of it.
Progress == {"old", "partial", "new"}
Packages == [Ops -> Progress]
Markers == Ops \cup {NoOp, Foreign}
Roots == [marker: Markers, packages: Packages, repositories: Ops \cup {NoOp},
          live: BOOLEAN]
Snapshots == [op: Ops, root: Roots]
Subvolumes == 0..MaxClones

\* The system as it runs.
Installed == roots[mounted].packages
Marker == roots[mounted].marker

SetMarker(m) == roots' = [roots EXCEPT ![mounted].marker = m]
SetPackages(op, p) == roots' = [roots EXCEPT ![mounted].packages[op] = p]
SetRepositories(op, l) ==
    roots' = [roots EXCEPT ![mounted].repositories = op, ![mounted].live = l]

\* save_state validates, then replaces state.json atomically.  An action whose
\* save is refused is not enabled; the caller's error path is another action.
SaveState(op, r) ==
    /\ ValidateState(r)
    /\ disk' = [disk EXCEPT ![op] = r]

\* Mutant: the plan is not compared again.
PlanUnchecked(op) == op \in Ops

\* The plan recomputed now is the plan that was confirmed: the solver and the
\* installed packages are what they were.
PlanStillHolds(op) == Installed = basis[op]

\* Mutant: the inventory is captured but not compared.
ResultUnchecked(op) == op \in Ops

\* inventory.rs verify_result: the retained and the proposed packages, no other.
ResultMatchesPlan(op) == Installed = [basis[op] EXCEPT ![op] = "new"]

\* Mutant: the replay record is not consulted.
AnyManifest(op) == op \in Ops

\* validate_manifest_route refuses sequence <= last: a replay.
ManifestIsFresh(op) == Signed(op) => ManifestSequence[op] > lastSequence

\* Mutant: the result of flock is ignored.
AcquireAnyway(p) == lock' = p

Acquire(p) == lock = "free" /\ lock' = p
Release(p) == lock' = IF lock = p THEN "free" ELSE lock

CountCrash ==
    /\ crashes < MaxCrashes
    /\ crashes' = crashes + 1
    /\ UNCHANGED <<starts, requests>>

CountRequest ==
    /\ requests < MaxRequests
    /\ requests' = requests + 1
    /\ UNCHANGED <<starts, crashes>>

-----------------------------------------------------------------------------
(* The processes.                                                          *)

WorkerPcs == {"idle", "acquire", "prepare", "begin", "refresh", "download",
              "snapshot", "create", "number", "stage", "ready", "apply",
              "zypper", "finish", "failed", "record"}
\* The classes of ExecutionError the error path tells apart.
Errors == {"plain", "blocking", "cancelled"}
IdleWorker == [pc |-> "idle", op |-> NoOp, mem |-> AbsentRecord, error |-> "plain"]
WorkerStates == [pc: WorkerPcs, op: Ops \cup {NoOp}, mem: Records, error: Errors]

SessionPcs == {"idle", "create", "plan", "owner", "spawn", "cancel", "keep",
               "intent", "rollback", "selected"}
IdleSession == [pc |-> "idle", op |-> NoOp, mem |-> AbsentRecord]
SessionStates == [pc: SessionPcs, op: Ops \cup {NoOp}, mem: Records]

OfflinePcs == {"idle", "resolve", "load", "revalidate", "zypper", "repositories",
               "swap", "finish", "unmark", "recover", "unmarkFailed", "reboot",
               "stopped", "stranded"}
IdleOffline == [pc |-> "idle", op |-> NoOp, mem |-> AbsentRecord]
OfflineStates == [pc: OfflinePcs, op: Ops \cup {NoOp}, mem: Records]

VerifierPcs == {"idle", "acquire", "scan", "reconcile", "check",
                "consume", "replace", "final"}
IdleVerifier ==
    [pc |-> "idle", op |-> NoOp, mem |-> AbsentRecord, todo |-> {},
     scanned |-> [o \in Ops |-> AbsentRecord]]
VerifierStates ==
    [pc: VerifierPcs, op: Ops \cup {NoOp}, mem: Records, todo: SUBSET Ops,
     scanned: [Ops -> Records]]

TypeOK ==
    /\ disk \in [Ops -> Records]
    /\ pending \subseteq Ops /\ owned \subseteq Ops
    /\ basis \in [Ops -> Packages] /\ before \in [Ops -> Packages]
    /\ roots \in [Subvolumes -> Roots]
    /\ clones \in Subvolumes /\ default \in Subvolumes /\ mounted \in Subvolumes
    /\ snapshots \in Seq(Snapshots)
    /\ lastSequence \in Nat /\ staleTmp \in BOOLEAN
    /\ mode \in {"up", "offline", "down"}
    /\ lock \in Workers \cup Sessions \cup {"free", "offline", "verifier"}
    /\ worker \in [Workers -> WorkerStates]
    /\ session \in [Sessions -> SessionStates]
    /\ offline \in OfflineStates
    /\ verifier \in VerifierStates
    /\ starts \in [Ops -> Nat] /\ requests \in Nat /\ crashes \in Nat
=============================================================================
