------------------------------ MODULE Executor -------------------------------
(***************************************************************************)
(* The executor thread that start() spawns: execute_update for an update   *)
(* within the release, stage_release_upgrade for the two signed kinds      *)
(* (service/src/executor.rs), and the error path that follows them in      *)
(* service/src/main.rs.                                                    *)
(*                                                                         *)
(* A thread works on its own copy of the record (mem) and holds the flock  *)
(* from AcquireLock until the executor function returns; the error path    *)
(* runs after that, without the lock.  Zypper, the solver, Snapper and     *)
(* dracut are abstracted to their outcomes: each step may succeed or Fail. *)
(***************************************************************************)
EXTENDS Machine

Self(w) == worker[w]
Goto(w, pc) == worker' = [worker EXCEPT ![w].pc = pc]
GotoWith(w, pc, r) == worker' = [worker EXCEPT ![w].pc = pc, ![w].mem = r]

OnlyWorker == <<session, offline, verifier>>

\* Observer::cancel_requested reads the cause from disk.
CancelRequested(op) == disk[op].error_code = "CANCELLED"

-----------------------------------------------------------------------------
AcquireLock(w) ==
    /\ Self(w).pc = "acquire"
    /\ Acquire(w)
    /\ Goto(w, "prepare")
    /\ UNCHANGED <<disk, files, storage, replay, platform, OnlyWorker, bounds>>

\* LOCK_NB: ExecutionError::Busy, a blocking error.
LockBusy(w) ==
    /\ Self(w).pc = "acquire"
    /\ lock # "free"
    /\ worker' = [worker EXCEPT ![w].pc = "failed", ![w].error = "blocking"]
    /\ UNCHANGED <<disk, files, storage, replay, platform, lock, OnlyWorker, bounds>>

\* A signed plan is checked against the current manifest; then the inventory
\* of the running system is stored.
Prepare(w) ==
    /\ Self(w).pc = "prepare"
    /\ ManifestIsFresh(Self(w).op)
    /\ before' = [before EXCEPT ![Self(w).op] = Installed]
    /\ Goto(w, "begin")
    /\ UNCHANGED <<disk, pending, owned, basis, storage, replay, platform, lock,
                   OnlyWorker, bounds>>

\* A step that is one transition_to followed by persist.
PersistTransition(w, next, pc) ==
    LET op == Self(w).op
        r == TransitionTo(Self(w).mem, next)
    IN  /\ CanTransition(Kind[op], Self(w).mem, next)
        /\ SaveState(op, r)
        /\ GotoWith(w, pc, r)

BeginDownload(w) ==
    /\ Self(w).pc = "begin"
    /\ PersistTransition(w, "Downloading", "refresh")
    /\ UNCHANGED <<files, storage, replay, platform, lock, OnlyWorker, bounds>>

\* zypper refresh, then the first look at the cancel request.
Refresh(w) ==
    /\ Self(w).pc = "refresh"
    /\ ~CancelRequested(Self(w).op)
    /\ Goto(w, "download")
    /\ UNCHANGED <<disk, files, storage, replay, platform, lock, OnlyWorker, bounds>>

\* The plan is recomputed and must be the confirmed one, the packages are
\* downloaded, and the cancel request is looked at for the last time.
Download(w) ==
    /\ Self(w).pc = "download"
    /\ PlanStillHolds(Self(w).op)
    /\ ~CancelRequested(Self(w).op)
    /\ Goto(w, "snapshot")
    /\ UNCHANGED <<disk, files, storage, replay, platform, lock, OnlyWorker, bounds>>

\* Mutant: the step after the snapshot is taken before it.
SnapshotTooLate(w) ==
    /\ Self(w).pc = "snapshot"
    /\ PersistTransition(w, "Snapshotting", IF Signed(Self(w).op) THEN "stage" ELSE "zypper")
    /\ UNCHANGED <<files, storage, replay, platform, lock, OnlyWorker, bounds>>

\* An update recomputes the plan once more; a signed operation checks the
\* payloads and the manifest's validity.
BeginSnapshot(w) ==
    /\ Self(w).pc = "snapshot"
    /\ ~Signed(Self(w).op) => PlanStillHolds(Self(w).op)
    /\ PersistTransition(w, "Snapshotting", "create")
    /\ UNCHANGED <<files, storage, replay, platform, lock, OnlyWorker, bounds>>

\* snapper create: the snapshot exists, its number is only on a pipe.
CreateSnapshot(w) ==
    /\ Self(w).pc = "create"
    /\ Len(snapshots) < MaxSnapshots
    /\ snapshots' = Append(snapshots, [op |-> Self(w).op, root |-> roots[mounted]])
    /\ Goto(w, "number")
    /\ UNCHANGED <<disk, files, roots, clones, default, replay, platform, lock,
                   OnlyWorker, bounds>>

\* Mutants: the wrong line of Snapper's output is parsed.
NextNumber(w) == [Self(w).mem EXCEPT !.snapshot_number = Len(snapshots) + 1]
FirstNumber(w) == [Self(w).mem EXCEPT !.snapshot_number = 1]

\* parse_snapshot_number.
Numbered(w) == [Self(w).mem EXCEPT !.snapshot_number = Len(snapshots)]

RecordSnapshot(w) ==
    /\ Self(w).pc = "number"
    /\ SaveState(Self(w).op, Numbered(w))
    /\ GotoWith(w, IF Signed(Self(w).op) THEN "stage" ELSE "apply", Numbered(w))
    /\ UNCHANGED <<files, storage, replay, platform, lock, OnlyWorker, bounds>>

-----------------------------------------------------------------------------
(* An update within the release is applied to the running system.          *)

BeginApply(w) ==
    /\ Self(w).pc = "apply"
    /\ PersistTransition(w, "Applying", "zypper")
    /\ UNCHANGED <<files, storage, replay, platform, lock, OnlyWorker, bounds>>

ZypperWrites(w) ==
    /\ Self(w).pc = "zypper"
    /\ Installed[Self(w).op] # "partial"
    /\ SetPackages(Self(w).op, "partial")
    /\ UNCHANGED <<disk, files, clones, default, snapshots, replay, platform,
                   lock, processes, bounds>>

\* Exit status 0 or 102.
ZypperDone(w) ==
    /\ Self(w).pc = "zypper"
    /\ SetPackages(Self(w).op, "new")
    /\ Goto(w, "finish")
    /\ UNCHANGED <<disk, files, clones, default, snapshots, replay, platform,
                   lock, OnlyWorker, bounds>>

\* Initramfs and GRUB are regenerated, the inventory must be the planned one,
\* and the function returns.
FinishUpdate(w) ==
    LET op == Self(w).op IN
    /\ Self(w).pc = "finish"
    /\ ResultMatchesPlan(op)
    /\ \E next \in {"AwaitingReboot", "Completed"} :
          /\ CanTransition(Kind[op], Self(w).mem, next)
          /\ SaveState(op, TransitionTo(Self(w).mem, next))
    /\ Release(w)
    /\ worker' = [worker EXCEPT ![w] = IdleWorker]
    /\ UNCHANGED <<files, storage, replay, platform, OnlyWorker, bounds>>

-----------------------------------------------------------------------------
(* A signed operation is handed over to the offline boot.                  *)

\* stage_system_update: an existing marker must already be this operation's.
StageMarker(w) ==
    /\ Self(w).pc = "stage"
    /\ Marker \in {NoOp, Self(w).op}
    /\ SetMarker(Self(w).op)
    /\ Goto(w, "ready")
    /\ UNCHANGED <<disk, files, clones, default, snapshots, replay, platform,
                   lock, OnlyWorker, bounds>>

FinishStaging(w) ==
    LET op == Self(w).op
        r == TransitionTo(Self(w).mem, "ReadyToReboot")
    IN  /\ Self(w).pc = "ready"
        /\ CanTransition(Kind[op], Self(w).mem, "ReadyToReboot")
        /\ SaveState(op, r)
        /\ Release(w)
        /\ worker' = [worker EXCEPT ![w] = IdleWorker]
        /\ UNCHANGED <<files, storage, replay, platform, OnlyWorker, bounds>>

-----------------------------------------------------------------------------
(* Errors.                                                                 *)

HoldsLock == {"prepare", "begin", "refresh", "download", "snapshot", "create",
              "number", "stage", "ready", "apply", "zypper", "finish"}

\* ExecutionError::is_blocking accepts errors of these steps; Cancelled is the
\* error of the steps that saw the request.
MayRaise(w, error) ==
    CASE error = "plain" -> TRUE
      [] error = "blocking" ->
            \/ Self(w).pc \in {"refresh", "download", "snapshot"}
            \/ Self(w).pc = "prepare" /\ Signed(Self(w).op)
      [] error = "cancelled" ->
            Self(w).pc \in {"refresh", "download"} /\ CancelRequested(Self(w).op)

\* The record in memory when a step fails: when it is the save that failed,
\* the step's change to the record has been made.
InMemory(w) ==
    {Self(w).mem}
    \cup (CASE Self(w).pc = "number" -> {Numbered(w)}
            [] Self(w).pc \in {"begin", "snapshot", "ready", "apply", "finish"} ->
                  {[Self(w).mem EXCEPT !.sequence = SaturatingSuccessor(@)]}
            [] OTHER -> {})

\* Any step may fail, and under a requested cancellation the steps that look
\* at it must.  The function returns, which drops the lock.
Fail(w) ==
    /\ Self(w).pc \in HoldsLock \cup {"acquire"}
    /\ \E error \in Errors, r \in InMemory(w) :
          /\ MayRaise(w, error)
          /\ worker' = [worker EXCEPT ![w].pc = "failed", ![w].mem = r, ![w].error = error]
    /\ Release(w)
    /\ UNCHANGED <<disk, files, storage, replay, platform, OnlyWorker, bounds>>

\* An error after a cancellation leaves the record alone.
CheckCancelled(w) ==
    /\ Self(w).pc = "failed"
    /\ IF CancelRequested(Self(w).op)
       THEN worker' = [worker EXCEPT ![w] = IdleWorker]
       ELSE Goto(w, "record")
    /\ UNCHANGED <<disk, files, storage, replay, platform, lock, OnlyWorker, bounds>>

\* The outcome is written from the thread's copy of the record.  A write that
\* fails is ignored, which leaves what WorkerDies leaves.
RecordFailure(w) ==
    /\ Self(w).pc = "record"
    /\ SaveState(Self(w).op,
                 Settle(Self(w).mem, FailureState(Self(w).error = "blocking", Self(w).mem),
                        IF Self(w).error = "cancelled" THEN "CANCELLED"
                        ELSE "EXECUTION_FAILED"))
    /\ worker' = [worker EXCEPT ![w] = IdleWorker]
    /\ UNCHANGED <<files, storage, replay, platform, lock, OnlyWorker, bounds>>

\* The service process dies: the kernel drops the lock.  A zypper it had
\* spawned is not killed with it and may still get further.
WorkerDies(w) ==
    /\ Self(w).pc # "idle"
    /\ \/ UNCHANGED roots
       \/ /\ Self(w).pc = "zypper"
          /\ \E p \in {"partial", "new"} : SetPackages(Self(w).op, p)
    /\ worker' = [worker EXCEPT ![w] = IdleWorker]
    /\ Release(w)
    /\ CountCrash
    /\ UNCHANGED <<disk, files, clones, default, snapshots, replay, platform, OnlyWorker>>

WorkerProgress(w) ==
    \/ AcquireLock(w) \/ LockBusy(w) \/ Prepare(w) \/ BeginDownload(w)
    \/ Refresh(w) \/ Download(w) \/ BeginSnapshot(w) \/ CreateSnapshot(w)
    \/ RecordSnapshot(w) \/ BeginApply(w) \/ ZypperWrites(w) \/ ZypperDone(w)
    \/ FinishUpdate(w) \/ StageMarker(w) \/ FinishStaging(w)
    \/ Fail(w) \/ CheckCancelled(w) \/ RecordFailure(w)
=============================================================================
