------------------------------- MODULE Service -------------------------------
(***************************************************************************)
(* The administrative requests a service process handles, one at a time:   *)
(* Start, Cancel and the recovery decisions KeepCurrent and Rollback       *)
(* (service/src/main.rs, service/src/recovery.rs).  Status and the other   *)
(* queries change no operation and are left out.                           *)
(*                                                                         *)
(* Start and Rollback write the disk several times; Cancel and KeepCurrent *)
(* load the record and write it back, without the transaction lock.        *)
(***************************************************************************)
EXTENDS Executor

Request(s) == session[s]
Serve(s, pc, op, r) ==
    session' = [session EXCEPT ![s] = [pc |-> pc, op |-> op, mem |-> r]]
Continue(s, pc) == session' = [session EXCEPT ![s].pc = pc]
Reply(s) == session' = [session EXCEPT ![s] = IdleSession]

OnlySession == <<worker, offline, verifier>>

Accepting(s) == mode = "up" /\ Request(s).pc = "idle"

CountStart(op) ==
    /\ starts[op] < MaxStarts
    /\ starts' = [starts EXCEPT ![op] = @ + 1]
    /\ UNCHANGED <<requests, crashes>>

-----------------------------------------------------------------------------
(* Start.                                                                  *)

\* A first Start finds no directory for the operation and recomputes the plan,
\* which must be the submitted one.  An identifier is handed out with one plan,
\* so a second such request submits the same plan.
StartNew(s, op) ==
    /\ Accepting(s)
    /\ CountStart(op)
    /\ op \notin owned
    /\ disk[op].state = "Absent"
    /\ ManifestIsFresh(op)
    /\ starts[op] = 0 \/ PlanStillHolds(op)
    /\ basis' = [basis EXCEPT ![op] = Installed]
    /\ Serve(s, "create", op, AbsentRecord)
    /\ UNCHANGED <<disk, pending, owned, before, storage, replay, platform, lock, OnlySession>>

\* The operation is created: state.json, pending-plan.json, owner, in this
\* order.  Only the owner file is created exclusively.
SaveInitial(s) ==
    /\ Request(s).pc = "create"
    /\ SaveState(Request(s).op, InitialRecord)
    /\ Continue(s, "plan")
    /\ UNCHANGED <<files, storage, replay, platform, lock, OnlySession, bounds>>

SavePendingPlan(s) ==
    /\ Request(s).pc = "plan"
    /\ pending' = pending \cup {Request(s).op}
    /\ Continue(s, "owner")
    /\ UNCHANGED <<disk, owned, basis, before, storage, replay, platform, lock,
                   OnlySession, bounds>>

SaveOwner(s) ==
    /\ Request(s).pc = "owner"
    /\ Request(s).op \notin owned
    /\ owned' = owned \cup {Request(s).op}
    /\ Continue(s, "spawn")
    /\ UNCHANGED <<disk, pending, basis, before, storage, replay, platform, lock,
                   OnlySession, bounds>>

\* create_new fails: STATE_WRITE_FAILED.
OwnerExists(s) ==
    /\ Request(s).pc = "owner"
    /\ Request(s).op \in owned
    /\ Reply(s)
    /\ UNCHANGED <<disk, files, storage, replay, platform, lock, OnlySession, bounds>>

\* A Start of an operation the caller already owns goes straight to the
\* checks before the thread.
StartOwned(s, op) ==
    /\ Accepting(s)
    /\ CountStart(op)
    /\ op \in owned
    /\ Serve(s, "spawn", op, AbsentRecord)
    /\ UNCHANGED <<disk, files, storage, replay, platform, lock, OnlySession>>

\* The plan is available and the record still awaits its confirmation: a
\* thread is spawned with a copy of the record.
Spawn(s) ==
    LET op == Request(s).op IN
    /\ Request(s).pc = "spawn"
    /\ op \in pending
    /\ disk[op].state = "AwaitingConfirmation"
    /\ \E w \in Workers :
          /\ worker[w].pc = "idle"
          /\ worker' = [worker EXCEPT ![w] =
                [pc |-> "acquire", op |-> op, mem |-> disk[op], error |-> "plain"]]
    /\ Reply(s)
    /\ UNCHANGED <<disk, files, storage, replay, platform, lock, offline, verifier, bounds>>

\* PLAN_NOT_AVAILABLE or INVALID_STATE.
RejectStart(s) ==
    /\ Request(s).pc = "spawn"
    /\ \/ Request(s).op \notin pending
       \/ disk[Request(s).op].state # "AwaitingConfirmation"
    /\ Reply(s)
    /\ UNCHANGED <<disk, files, storage, replay, platform, lock, OnlySession, bounds>>

\* EVENT_LOG_WRITE_FAILED or EVENT_LOG_READ_FAILED.
HistoryUnusable(s) ==
    /\ Request(s).pc = "spawn"
    /\ Reply(s)
    /\ UNCHANGED <<disk, files, storage, replay, platform, lock, OnlySession, bounds>>

-----------------------------------------------------------------------------
(* Cancel and KeepCurrent: load, then save.                                *)

Cancel(s, op) ==
    /\ Accepting(s)
    /\ CountRequest
    /\ op \in owned
    /\ IsCancelable(disk[op].state)
    /\ Serve(s, "cancel", op, disk[op])
    /\ UNCHANGED <<disk, files, storage, replay, platform, lock, OnlySession>>

SaveCancelled(s) ==
    /\ Request(s).pc = "cancel"
    /\ SaveState(Request(s).op, Settle(Request(s).mem, "Failed", "CANCELLED"))
    /\ Reply(s)
    /\ UNCHANGED <<files, storage, replay, platform, lock, OnlySession, bounds>>

KeepCurrent(s, op) ==
    /\ Accepting(s)
    /\ CountRequest
    /\ op \in owned
    /\ disk[op].state = "NeedsRecovery"
    /\ Serve(s, "keep", op, disk[op])
    /\ UNCHANGED <<disk, files, storage, replay, platform, lock, OnlySession>>

SaveDeclined(s) ==
    /\ Request(s).pc = "keep"
    /\ SaveState(Request(s).op, Settle(Request(s).mem, "Failed", "RECOVERY_DECLINED"))
    /\ Reply(s)
    /\ UNCHANGED <<files, storage, replay, platform, lock, OnlySession, bounds>>

-----------------------------------------------------------------------------
(* Rollback: schedule_rollback and finish_rollback, under the lock.        *)

\* The record is loaded once before the lock and again under it.
Rollback(s, op) ==
    /\ Accepting(s)
    /\ CountRequest
    /\ op \in owned
    /\ disk[op].state = "NeedsRecovery"
    /\ Acquire(s)
    /\ Serve(s, "intent", op, disk[op])
    /\ UNCHANGED <<disk, files, storage, replay, platform, OnlySession>>

\* An intent whose boot selection was never confirmed is not retried.
RollbackAllowed(r) ==
    /\ r.goal => r.boot_snapshot # 0
    /\ r.snapshot_number # 0

\* The intent is durable before the boot selection changes.
SaveIntent(s) ==
    LET r == [Request(s).mem EXCEPT !.goal = TRUE, !.boot_snapshot = 0,
                                    !.sequence = SaturatingSuccessor(@)]
    IN  /\ Request(s).pc = "intent"
        /\ RollbackAllowed(Request(s).mem)
        /\ SaveState(Request(s).op, r)
        /\ Serve(s, "rollback", Request(s).op, r)
        /\ UNCHANGED <<files, storage, replay, platform, lock, OnlySession, bounds>>

\* The rollback is not allowed, or the snapshot's identity, its recovery
\* format or the place of the state directory does not permit it.
RejectRollback(s) ==
    /\ Request(s).pc = "intent"
    /\ Release(s)
    /\ Reply(s)
    /\ UNCHANGED <<disk, files, storage, replay, platform, OnlySession, bounds>>

\* snapper rollback: a writable clone of the snapshot becomes the default.
SelectClone(s) ==
    /\ Request(s).pc = "rollback"
    /\ clones < MaxClones
    /\ clones' = clones + 1
    /\ default' = clones + 1
    /\ roots' = [roots EXCEPT ![clones + 1] =
                    snapshots[Request(s).mem.snapshot_number].root]
    /\ Continue(s, "selected")
    /\ UNCHANGED <<disk, files, snapshots, replay, platform, lock, OnlySession, bounds>>

\* The clone is identified and is what the next boot mounts.
Scheduled(s) ==
    [Settle(Request(s).mem, "AwaitingReboot", "None") EXCEPT !.boot_snapshot = default]

SaveScheduled(s) ==
    /\ Request(s).pc = "selected"
    /\ SaveState(Request(s).op, Scheduled(s))
    /\ Release(s)
    /\ Reply(s)
    /\ UNCHANGED <<files, storage, replay, platform, OnlySession, bounds>>

\* Snapper fails, its result is not the expected clone, or the clone is
\* known but could not be saved: the objective and the cause are kept.
RollbackFails(s) ==
    /\ Request(s).pc \in {"rollback", "selected"}
    /\ \E r \in {Request(s).mem}
                \cup (IF Request(s).pc = "selected" THEN {Scheduled(s)} ELSE {}) :
          SaveState(Request(s).op, Settle(r, "NeedsRecovery", "ROLLBACK_FAILED"))
    /\ Release(s)
    /\ Reply(s)
    /\ UNCHANGED <<files, storage, replay, platform, OnlySession, bounds>>

-----------------------------------------------------------------------------
\* The process dies in the middle of a request, or one of its writes fails
\* and the request is rejected half done.
SessionDies(s) ==
    /\ Request(s).pc # "idle"
    /\ Release(s)
    /\ Reply(s)
    /\ CountCrash
    /\ UNCHANGED <<disk, files, storage, replay, platform, OnlySession>>

\* What a session does on its own once it has accepted a request.
SessionProgress(s) ==
    \/ SaveInitial(s) \/ SavePendingPlan(s) \/ SaveOwner(s) \/ OwnerExists(s)
    \/ Spawn(s) \/ RejectStart(s) \/ HistoryUnusable(s)
    \/ SaveCancelled(s) \/ SaveDeclined(s)
    \/ SaveIntent(s) \/ RejectRollback(s) \/ SelectClone(s) \/ SaveScheduled(s) \/ RollbackFails(s)

SessionRequest(s) ==
    \E op \in Ops :
        \/ StartNew(s, op) \/ StartOwned(s, op) \/ Cancel(s, op)
        \/ KeepCurrent(s, op) \/ Rollback(s, op)
=============================================================================
