--------------------------- MODULE OperationRecord ---------------------------
(***************************************************************************)
(* The durable record of an operation (core/src/lib.rs), the transitions   *)
(* the executors may take, and what save_state and load_state accept       *)
(* (core/src/persistence.rs).  Everything here is a pure operator; the     *)
(* modules of the machine store these records on disk and in memory.       *)
(*                                                                         *)
(* Of the fields of OperationStateRecord the model keeps those that steer  *)
(* control: state, sequence, snapshot_number (0 is None, which the code    *)
(* refuses as a number), error_code and the rollback goal.  The goal is    *)
(* split in two: goal is recovery.is_some() and boot_snapshot the clone    *)
(* selected for boot (0 is None).  Identities, hashes and timestamps are   *)
(* constant during an operation and are left out.                          *)
(***************************************************************************)
EXTENDS Integers

CONSTANT MaxSequence   \* the largest value of the u64 sequence counter

ASSUME MaxSequenceAssumption == MaxSequence \in Nat \ {0}

Kinds == {"UpdateWithinRelease", "ReleaseUpgrade", "PackageMigration"}

\* OperationKind::is_signed_offline
IsSignedOffline(kind) == kind \in {"ReleaseUpgrade", "PackageMigration"}

\* OperationState; "Absent" stands for an operation without a state file.
States ==
    {"Absent", "Idle", "Checking", "Available", "Preflight", "Planned",
     "AwaitingConfirmation", "Downloading", "Snapshotting", "Applying",
     "ReadyToReboot", "ApplyingOffline", "AwaitingReboot", "VerifyingBoot",
     "Blocked", "Failed", "NeedsRecovery", "Completed"}

\* The error codes control depends on or a reader tells apart.
ErrorCodes ==
    {"None", "CANCELLED", "RECOVERY_DECLINED", "OPERATION_INTERRUPTED",
     "EXECUTION_FAILED", "OFFLINE_APPLY_FAILED", "ROLLBACK_FAILED",
     "POST_BOOT_VERIFICATION_FAILED", "MANIFEST_SEQUENCE_PERSIST_FAILED"}

Records ==
    [state: States, sequence: 0..MaxSequence, snapshot_number: Nat,
     error_code: ErrorCodes, goal: BOOLEAN, boot_snapshot: Nat]

AbsentRecord ==
    [state |-> "Absent", sequence |-> 0, snapshot_number |-> 0,
     error_code |-> "None", goal |-> FALSE, boot_snapshot |-> 0]

\* The record start() creates after the plan was confirmed and recomputed.
InitialRecord ==
    [AbsentRecord EXCEPT !.state = "AwaitingConfirmation", !.sequence = 1]

IsCancelable(state) ==
    state \in {"Idle", "Checking", "Available", "Preflight", "Planned",
               "AwaitingConfirmation", "Downloading", "Blocked"}

PermitsSystemWrite(state) ==
    state \in {"Snapshotting", "Applying", "ReadyToReboot", "ApplyingOffline"}

\* Mutant: plain addition at the end of the range.
PlainSuccessor(n) == n + 1

SaturatingSuccessor(n) == IF n < MaxSequence THEN n + 1 ELSE n

-----------------------------------------------------------------------------
(* Transitions.                                                            *)

ForwardEdges(kind) ==
    {<<"Idle", "Checking">>, <<"Checking", "Available">>,
     <<"Available", "Preflight">>, <<"Preflight", "Planned">>,
     <<"Planned", "AwaitingConfirmation">>,
     <<"AwaitingConfirmation", "Downloading">>,
     <<"Downloading", "Snapshotting">>, <<"Applying", "AwaitingReboot">>,
     <<"Applying", "Completed">>, <<"AwaitingReboot", "VerifyingBoot">>,
     <<"VerifyingBoot", "Completed">>, <<"Blocked", "Preflight">>,
     <<"Blocked", "Idle">>}
    \cup (IF IsSignedOffline(kind)
          THEN {<<"Snapshotting", "ReadyToReboot">>,
                <<"ReadyToReboot", "ApplyingOffline">>,
                <<"ApplyingOffline", "AwaitingReboot">>}
          ELSE {<<"Snapshotting", "Applying">>})

ValidTransition(kind, current, next) ==
    CASE next = "Blocked" -> current \in {"Checking", "Preflight", "Downloading"}
      [] next = "Failed" -> current \notin {"Completed", "NeedsRecovery"}
      [] next = "NeedsRecovery" ->
             current \in {"Snapshotting", "Applying", "ApplyingOffline",
                          "VerifyingBoot"}
      [] OTHER -> <<current, next>> \in ForwardEdges(kind)

\* transition_to succeeds exactly when this holds ...
CanTransition(kind, r, next) ==
    /\ next \in {"Applying", "ReadyToReboot", "ApplyingOffline"}
           => r.snapshot_number # 0
    /\ ValidTransition(kind, r.state, next)

\* ... and then leaves this record.
TransitionTo(r, next) ==
    [r EXCEPT !.state = next, !.sequence = SaturatingSuccessor(@)]

\* The writes that do not go through transition_to: a state, a cause and the
\* next sequence number.
Settle(r, state, code) ==
    [r EXCEPT !.state = state, !.error_code = code,
              !.sequence = SaturatingSuccessor(@)]

-----------------------------------------------------------------------------
(* What save_state writes and load_state returns.                          *)

GoalIsConsistent(r) ==
    r.goal =>
        /\ r.state \in {"NeedsRecovery", "Failed", "AwaitingReboot",
                        "VerifyingBoot", "Completed"}
        /\ r.snapshot_number # 0
        /\ r.state \notin {"NeedsRecovery", "Failed"} => r.boot_snapshot # 0

NeedsSnapshotNumber ==
    {"Applying", "ReadyToReboot", "ApplyingOffline", "AwaitingReboot",
     "VerifyingBoot", "NeedsRecovery", "Completed"}

ValidateState(r) ==
    /\ GoalIsConsistent(r)
    /\ r.state \in NeedsSnapshotNumber => r.snapshot_number # 0

-----------------------------------------------------------------------------
(* How an executor's error, or a boot that finds an operation in           *)
(* progress, is classified.                                                *)

\* executor.rs failure_state: blocking is ExecutionError::is_blocking.
FailureState(blocking, r) ==
    IF r.snapshot_number # 0 THEN "NeedsRecovery"
    ELSE IF blocking THEN "Blocked" ELSE "Failed"

InProgress == {"Downloading", "Snapshotting", "Applying", "ApplyingOffline",
               "ReadyToReboot"}

\* Mutant: whatever was interrupted is a plain failure.
AlwaysFailed(state) == "Failed"

\* pending.rs interrupted_state, defined on InProgress.
InterruptedState(state) ==
    IF state = "Downloading" THEN "Failed" ELSE "NeedsRecovery"
=============================================================================
