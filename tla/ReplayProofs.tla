----------------------------- MODULE ReplayProofs ----------------------------
(***************************************************************************)
(* The replay record of UpgradeSystem: a signed operation that is          *)
(* Completed has consumed its manifest sequence, and no transaction of an  *)
(* older or equal manifest is run after that.                              *)
(***************************************************************************)
EXTENDS SnapshotProofs

-----------------------------------------------------------------------------
(* The state a write leaves in a record.                                   *)

\* Settle sets the state and keeps the rollback goal.
LEMMA SettleFields ==
    ASSUME NEW r \in Records, NEW st, NEW code
    PROVE  Settle(r, st, code).state = st /\ Settle(r, st, code).goal = r.goal
  BY Zenon DEF Settle, Records

\* So does transition_to.
LEMMA TransitionFields ==
    ASSUME NEW r \in Records, NEW st
    PROVE  TransitionTo(r, st).state = st /\ TransitionTo(r, st).goal = r.goal
  BY Zenon DEF TransitionTo, Records

-----------------------------------------------------------------------------
\* Each part survives a step that leaves its variables and the sequence alone.
LEMMA ReplayFrame ==
    ASSUME ReplayInvariant, UNCHANGED lastSequence
    PROVE  /\ UNCHANGED disk => DiskConsumed'
           /\ UNCHANGED worker => WorkerUnfinished'
           /\ UNCHANGED session => SessionUnfinished'
           /\ UNCHANGED offline => OfflineFresh'
           /\ UNCHANGED verifier => VerifierConsumed'
  BY DEF ReplayInvariant, DiskConsumed, Consumed, WorkerUnfinished, SessionUnfinished,
     OfflineFresh, ManifestIsFresh, VerifierConsumed

\* Saving a record that does not claim more than was consumed.
LEMMA SaveConsumed ==
    ASSUME TypeInvariant, ReplayInvariant, UNCHANGED lastSequence, NEW op \in Ops, NEW r,
           SaveState(op, r), Consumed(op, r)
    PROVE  DiskConsumed'
  <1>1. disk \in [Ops -> Records] /\ disk' = [disk EXCEPT ![op] = r]
    BY DEF TypeInvariant, DiskPart, SaveState
  <1> QED BY <1>1 DEF ReplayInvariant, DiskConsumed, Consumed

\* The executor threads: only an update within the release becomes Completed
\* here.
LEMMA WorkerStepReplay ==
    ASSUME TypeInvariant, ReplayInvariant, NEW w \in Workers, WorkerProgress(w) \/ WorkerDies(w)
    PROVE  ReplayInvariant'
  <1> DEFINE op == worker[w].op
             mem == worker[w].mem
             pc0 == worker[w].pc
  <1>0. /\ pc0 # "idle" /\ op \in Ops /\ mem \in Records /\ mem.state # "Completed"
        /\ pc0 \in {"apply", "zypper", "finish"} => ~Signed(op)
    BY DEF WorkerProgress, WorkerDies, AcquireLock, LockBusy, Prepare, BeginDownload, Refresh,
       Download, BeginSnapshot, CreateSnapshot, RecordSnapshot, BeginApply, ZypperWrites,
       ZypperDone, FinishUpdate, StageMarker, FinishStaging, Fail, CheckCancelled,
       RecordFailure, Self, HoldsLock, TypeInvariant, WorkerPart, WorkerStates,
       ReplayInvariant, WorkerUnfinished
  <1>r. ASSUME UNCHANGED <<session, offline, verifier, lastSequence>>
        PROVE  /\ SessionUnfinished' /\ OfflineFresh' /\ VerifierConsumed'
               /\ UNCHANGED disk => DiskConsumed'
    BY <1>r, ReplayFrame
  <1>m. ASSUME NEW pc, NEW r, Moved(w, pc, r), r.state # "Completed",
               pc \in {"apply", "zypper", "finish"} => ~Signed(op)
        PROVE  WorkerUnfinished'
    BY <1>m DEF Moved, ReplayInvariant, WorkerUnfinished
  <1>i. ASSUME worker' = [worker EXCEPT ![w] = IdleWorker] PROVE WorkerUnfinished'
    BY <1>i DEF TypeInvariant, WorkerPart, ReplayInvariant, WorkerUnfinished, IdleWorker, AbsentRecord
  <1>s. ASSUME NEW r, r.state # "Completed" \/ ~Signed(op), SaveState(op, r),
               UNCHANGED lastSequence
        PROVE  DiskConsumed'
    BY <1>0, <1>s, SaveConsumed DEF Consumed
  <1>p. ASSUME NEW next, next # "Completed", NEW pc, PersistTransition(w, next, pc),
               UNCHANGED lastSequence, pc \in {"apply", "zypper", "finish"} => ~Signed(op)
        PROVE  DiskConsumed' /\ WorkerUnfinished'
    <2> DEFINE r == TransitionTo(mem, next)
    <2>1. r.state # "Completed"
      BY <1>0, <1>p, TransitionFields
    <2>2. SaveState(op, r) /\ GotoWith(w, pc, r)
      BY <1>p DEF PersistTransition, Self
    <2> HIDE DEF r
    <2> QED BY <1>p, <1>m, <1>s, <2>1, <2>2, WorkerFields
  <1>n. Numbered(w).state = mem.state
    BY <1>0, Zenon DEF Numbered, Self, Records
  <1> USE DEF ReplayInvariant
  <1>1. CASE AcquireLock(w)
    BY <1>1, <1>0, <1>m, <1>r, WorkerFields DEF AcquireLock, replay, OnlyWorker
  <1>2. CASE LockBusy(w)
    BY <1>2, <1>0, <1>m, <1>r, WorkerFields DEF LockBusy, replay, OnlyWorker
  <1>3. CASE Prepare(w)
    BY <1>3, <1>0, <1>m, <1>r, WorkerFields DEF Prepare, replay, OnlyWorker
  <1>4. CASE BeginDownload(w)
    BY <1>4, <1>p, <1>r DEF BeginDownload, replay, OnlyWorker
  <1>5. CASE Refresh(w)
    BY <1>5, <1>0, <1>m, <1>r, WorkerFields DEF Refresh, replay, OnlyWorker
  <1>6. CASE Download(w)
    BY <1>6, <1>0, <1>m, <1>r, WorkerFields DEF Download, replay, OnlyWorker
  <1>7. CASE BeginSnapshot(w)
    BY <1>7, <1>p, <1>r DEF BeginSnapshot, replay, OnlyWorker
  <1>8. CASE CreateSnapshot(w)
    BY <1>8, <1>0, <1>m, <1>r, WorkerFields DEF CreateSnapshot, replay, OnlyWorker
  <1>9. CASE RecordSnapshot(w)
    <2>1. PICK pc \in {"stage", "apply"} :
             GotoWith(w, pc, Numbered(w)) /\ (pc = "apply" => ~Signed(op))
      BY <1>9 DEF RecordSnapshot, Self
    <2>2. WorkerUnfinished'
      BY <1>0, <1>m, <1>n, <2>1, WorkerFields
    <2>3. DiskConsumed'
      BY <1>9, <1>0, <1>n, <1>s DEF RecordSnapshot, Self, replay
    <2> QED BY <1>9, <1>r, <2>2, <2>3 DEF RecordSnapshot, replay, OnlyWorker
  <1>10. CASE BeginApply(w)
    BY <1>10, <1>0, <1>p, <1>r DEF BeginApply, Self, replay, OnlyWorker
  <1>11. CASE ZypperWrites(w)
    BY <1>11, ReplayFrame DEF ZypperWrites, replay, processes
  <1>12. CASE ZypperDone(w)
    BY <1>12, <1>0, <1>m, <1>r, WorkerFields DEF ZypperDone, Self, replay, OnlyWorker
  <1>13. CASE FinishUpdate(w)
    <2>1. PICK r : SaveState(op, r)
      BY <1>13 DEF FinishUpdate, Self
    <2>2. ~Signed(op)
      BY <1>0, <1>13 DEF FinishUpdate, Self
    <2> QED BY <1>13, <1>i, <1>r, <1>s, <2>1, <2>2 DEF FinishUpdate, replay, OnlyWorker
  <1>14. CASE StageMarker(w)
    BY <1>14, <1>0, <1>m, <1>r, WorkerFields DEF StageMarker, replay, OnlyWorker
  <1>15. CASE FinishStaging(w)
    <2>1. TransitionTo(mem, "ReadyToReboot").state # "Completed"
      BY <1>0, TransitionFields
    <2> QED BY <1>15, <1>i, <1>r, <1>s, <2>1 DEF FinishStaging, Self, replay, OnlyWorker
  <1>16. CASE Fail(w)
    <2>1. PICK b \in Errors, r \in InMemory(w) :
             worker' = [worker EXCEPT ![w].pc = "failed", ![w].mem = r, ![w].error = b]
      BY <1>16 DEF Fail
    <2>2. [mem EXCEPT !.sequence = SaturatingSuccessor(@)].state = mem.state
      BY <1>0, Zenon DEF Records
    <2>3. r.state # "Completed"
      BY <1>0, <1>n, <2>2 DEF InMemory, Self
    <2>4. Moved(w, "failed", r)
      BY <2>1, WorkerFields
    <2> QED BY <1>16, <1>m, <1>r, <2>3, <2>4 DEF Fail, replay, OnlyWorker
  <1>17. CASE CheckCancelled(w)
    BY <1>17, <1>0, <1>i, <1>m, <1>r, WorkerFields DEF CheckCancelled, replay, OnlyWorker
  <1>18. CASE RecordFailure(w)
    <2>1. PICK st, code : /\ st \in {"NeedsRecovery", "Blocked", "Failed"}
                          /\ SaveState(op, Settle(mem, st, code))
      BY <1>18 DEF RecordFailure, Self, FailureState
    <2>2. Settle(mem, st, code).state # "Completed"
      BY <1>0, <2>1, SettleFields
    <2> QED BY <1>18, <1>i, <1>r, <1>s, <2>1, <2>2 DEF RecordFailure, replay, OnlyWorker
  <1>19. CASE WorkerDies(w)
    BY <1>19, <1>i, <1>r DEF WorkerDies, replay, OnlyWorker
  <1> QED
    BY <1>1, <1>2, <1>3, <1>4, <1>5, <1>6, <1>7, <1>8, <1>9, <1>10, <1>11, <1>12,
       <1>13, <1>14, <1>15, <1>16, <1>17, <1>18, <1>19 DEF WorkerProgress

\* The request handlers: none of them writes or keeps a Completed record.
LEMMA SessionStepReplay ==
    ASSUME TypeInvariant, ReplayInvariant, NEW s \in Sessions,
           SessionRequest(s) \/ SessionProgress(s) \/ SessionDies(s)
    PROVE  ReplayInvariant'
  <1> DEFINE op == session[s].op
             mem == session[s].mem
             pc0 == session[s].pc
  <1>0. mem \in Records /\ (pc0 # "idle" => op \in Ops)
    BY DEF TypeInvariant, SessionPart, SessionStates
  <1>r. ASSUME UNCHANGED <<offline, verifier, lastSequence>>
        PROVE  /\ OfflineFresh' /\ VerifierConsumed'
               /\ UNCHANGED disk => DiskConsumed'
               /\ UNCHANGED worker => WorkerUnfinished'
    BY <1>r, ReplayFrame
  <1>m. ASSUME NEW pc, NEW o, NEW r, Served(s, pc, o, r), pc = "intent" => r.state # "Completed"
        PROVE  SessionUnfinished'
    BY <1>m DEF Served, ReplayInvariant, SessionUnfinished
  <1>i. ASSUME Reply(s) PROVE SessionUnfinished'
    BY <1>i, <1>m, SessionFields
  <1>c. ASSUME NEW pc, Continue(s, pc), pc # "intent" PROVE SessionUnfinished'
    BY <1>c, <1>m, SessionFields
  <1>s. ASSUME NEW r, r.state # "Completed", SaveState(op, r), UNCHANGED lastSequence,
               pc0 # "idle"
        PROVE  DiskConsumed'
    BY <1>0, <1>s, SaveConsumed DEF Consumed
  <1>t. \A st, code : Settle(mem, st, code).state = st
    BY <1>0, SettleFields
  <1>sch. Scheduled(s) \in Records
    <2>1. Settle(mem, "AwaitingReboot", "None") \in Records
      BY <1>0, SettleType DEF States, ErrorCodes
    <2>2. default \in Nat
      BY MachineAssumption DEF TypeInvariant, StoragePart, Subvolumes
    <2> QED BY <2>1, <2>2, Zenon DEF Scheduled, Request, Records
  <1> USE DEF ReplayInvariant
  <1>1. ASSUME NEW o \in Ops, StartNew(s, o) \/ StartOwned(s, o) \/ Cancel(s, o) \/ KeepCurrent(s, o)
        PROVE  ReplayInvariant'
    <2>1. SessionUnfinished'
      BY <1>1, <1>m, SessionFields DEF StartNew, StartOwned, Cancel, KeepCurrent
    <2> QED BY <1>1, <1>r, <2>1 DEF StartNew, StartOwned, Cancel, KeepCurrent, replay, OnlySession
  <1>2. CASE SaveInitial(s)
    <2>1. InitialRecord.state # "Completed"
      BY DEF InitialRecord, AbsentRecord
    <2> QED BY <1>2, <1>c, <1>r, <1>s, <2>1 DEF SaveInitial, Request, replay, OnlySession
  <1>3. CASE SavePendingPlan(s)
    BY <1>3, <1>c, <1>r DEF SavePendingPlan, replay, OnlySession
  <1>4. CASE SaveOwner(s)
    BY <1>4, <1>c, <1>r DEF SaveOwner, replay, OnlySession
  <1>5. CASE OwnerExists(s) \/ RejectStart(s) \/ HistoryUnusable(s) \/ RejectRollback(s)
             \/ SessionDies(s)
    BY <1>5, <1>i, <1>r
    DEF OwnerExists, RejectStart, HistoryUnusable, RejectRollback, SessionDies, replay, OnlySession
  <1>6. CASE Spawn(s)
    <2>1. PICK w \in Workers :
            worker' = [worker EXCEPT ![w] =
                [pc |-> "acquire", op |-> op, mem |-> disk[op], error |-> "plain"]]
      BY <1>6 DEF Spawn, Request
    <2>2. /\ worker'[w].pc = "acquire" /\ worker'[w].mem.state = "AwaitingConfirmation"
          /\ \A v \in Workers \ {w} : worker'[v] = worker[v]
      BY <1>6, <2>1 DEF Spawn, Request, TypeInvariant, WorkerPart
    <2>3. WorkerUnfinished'
      BY <2>2 DEF WorkerUnfinished
    <2> QED BY <1>6, <1>i, <1>r, <2>3 DEF Spawn, replay
  <1>7. CASE SaveCancelled(s)
    BY <1>7, <1>i, <1>r, <1>s, <1>t DEF SaveCancelled, Request, replay, OnlySession
  <1>8. CASE SaveDeclined(s)
    BY <1>8, <1>i, <1>r, <1>s, <1>t DEF SaveDeclined, Request, replay, OnlySession
  <1>9. ASSUME NEW o \in Ops, Rollback(s, o) PROVE ReplayInvariant'
    <2>1. Served(s, "intent", o, disk[o]) /\ disk[o].state = "NeedsRecovery"
      BY <1>9, SessionFields DEF Rollback
    <2> QED BY <1>9, <1>m, <1>r, <2>1 DEF Rollback, replay, OnlySession
  <1>10. CASE SaveIntent(s)
    <2> DEFINE r == [mem EXCEPT !.goal = TRUE, !.boot_snapshot = 0,
                                !.sequence = SaturatingSuccessor(@)]
    <2>1. r.state = mem.state /\ mem.state # "Completed"
      <3>1. r.state = mem.state
        BY <1>0, Zenon DEF Records
      <3> QED BY <1>10, <3>1 DEF SaveIntent, Request, SessionUnfinished
    <2>2. SaveState(op, r) /\ Serve(s, "rollback", op, r) /\ pc0 # "idle"
      BY <1>10 DEF SaveIntent, Request
    <2> HIDE DEF r
    <2>3. DiskConsumed' /\ SessionUnfinished'
      BY <1>10, <1>m, <1>s, <2>1, <2>2, SessionFields DEF SaveIntent, replay
    <2> QED BY <1>10, <1>r, <2>3 DEF SaveIntent, replay, OnlySession
  <1>11. CASE SelectClone(s)
    BY <1>11, <1>c, <1>r DEF SelectClone, replay, OnlySession
  <1>12. CASE SaveScheduled(s)
    <2>1. Scheduled(s).state = "AwaitingReboot"
      <3> DEFINE q == Settle(mem, "AwaitingReboot", "None")
      <3>1. q \in Records /\ q.state = "AwaitingReboot"
        BY <1>0, <1>t, SettleType DEF States, ErrorCodes
      <3>2. Scheduled(s) = [q EXCEPT !.boot_snapshot = default]
        BY DEF Scheduled, Request
      <3> HIDE DEF q
      <3> QED BY <3>1, <3>2 DEF Records
    <2> QED BY <1>12, <1>i, <1>r, <1>s, <2>1 DEF SaveScheduled, Request, replay, OnlySession
  <1>13. CASE RollbackFails(s)
    <2>1. PICK r \in {mem, Scheduled(s)} :
             SaveState(op, Settle(r, "NeedsRecovery", "ROLLBACK_FAILED"))
      BY <1>13 DEF RollbackFails, Request
    <2>2. Settle(r, "NeedsRecovery", "ROLLBACK_FAILED").state # "Completed"
      BY <1>0, <1>sch, SettleFields
    <2> QED BY <1>13, <1>i, <1>r, <1>s, <2>1, <2>2 DEF RollbackFails, Request, replay, OnlySession
  <1> QED
    BY <1>1, <1>2, <1>3, <1>4, <1>5, <1>6, <1>7, <1>8, <1>9, <1>10, <1>11, <1>12, <1>13
    DEF SessionRequest, SessionProgress

\* The offline worker: a transaction it takes up is of a fresh manifest.
LEMMA OfflineStepReplay ==
    ASSUME TypeInvariant, ReplayInvariant, OfflineProgress
    PROVE  ReplayInvariant'
  <1> DEFINE op == offline.op
             mem == offline.mem
  <1>0. /\ mem \in Records
        /\ offline.pc \notin {"idle", "resolve", "stopped", "stranded"} => op \in Ops
        /\ \A o \in Ops : disk[o] \in Records
    BY DEF TypeInvariant, OfflinePart, OfflineStates, DiskPart
  <1>r. ASSUME UNCHANGED <<worker, session, verifier, lastSequence>>
        PROVE  /\ WorkerUnfinished' /\ SessionUnfinished' /\ VerifierConsumed'
               /\ UNCHANGED disk => DiskConsumed'
               /\ UNCHANGED offline => OfflineFresh'
    BY <1>r, ReplayFrame
  <1>m. ASSUME NEW pc, OfflineGoto(pc), pc # "revalidate" PROVE OfflineFresh'
    BY <1>m, OfflineFields DEF OfflineFresh
  <1>e. ASSUME NEW pc, NEW r, offline' = [offline EXCEPT !.pc = pc, !.mem = r],
               UNCHANGED lastSequence, pc = "revalidate" => ManifestIsFresh(op)
        PROVE  OfflineFresh'
    <2>1. offline'.pc = pc /\ offline'.op = op
      BY <1>e, OfflineFields
    <2> QED BY <1>e, <2>1 DEF OfflineFresh, ManifestIsFresh
  <1>i. offline' = IdleOffline => OfflineFresh'
    BY DEF OfflineFresh, IdleOffline
  <1>s. ASSUME NEW r, r.state # "Completed", SaveState(op, r), UNCHANGED lastSequence, op \in Ops
        PROVE  DiskConsumed'
    BY <1>s, SaveConsumed DEF Consumed
  <1> USE DEF ReplayInvariant
  <1>1. CASE Resolve
    <2>1. offline'.pc \in {"load", "stopped"}
      BY <1>1 DEF Resolve, IdleOffline
    <2>2. OfflineFresh'
      BY <2>1 DEF OfflineFresh
    <2> QED BY <1>1, <1>r, <2>2 DEF Resolve, replay, OnlyOffline
  <1>2. CASE LoadStaged
    <2> DEFINE r == TransitionTo(disk[op], "ApplyingOffline")
    <2>1. op \in Ops /\ ManifestIsFresh(op)
      BY <1>0, <1>2 DEF LoadStaged, OfflineAt
    <2>2. r.state # "Completed"
      BY <1>0, <2>1, TransitionFields
    <2>3. SaveState(op, r) /\ offline' = [offline EXCEPT !.pc = "revalidate", !.mem = r]
      BY <1>2 DEF LoadStaged
    <2> HIDE DEF r
    <2>4. DiskConsumed' /\ OfflineFresh'
      BY <1>2, <1>e, <1>s, <2>1, <2>2, <2>3 DEF LoadStaged, replay
    <2> QED BY <1>2, <1>r, <2>4 DEF LoadStaged, replay, OnlyOffline
  <1>3. CASE Revalidate
    BY <1>3, <1>m, <1>r DEF Revalidate, replay, OnlyOffline
  <1>4. CASE OfflineZypperWrites
    BY <1>4, <1>r DEF OfflineZypperWrites, replay, processes
  <1>5. CASE OfflineZypperDone
    BY <1>5, <1>m, <1>r DEF OfflineZypperDone, replay, OnlyOffline
  <1>6. CASE MoveRepositoriesAway \/ InstallRepositories \/ SwapFails
    BY <1>6, <1>m, <1>r
    DEF MoveRepositoriesAway, InstallRepositories, SwapFails, replay, OnlyOffline
  <1>7. CASE PersistApplied
    <2> DEFINE r == TransitionTo(mem, "AwaitingReboot")
    <2>1. op \in Ops /\ r.state # "Completed"
      BY <1>0, <1>7, TransitionFields DEF PersistApplied, OfflineAt
    <2>2. SaveState(op, r) /\ offline' = [offline EXCEPT !.pc = "unmark", !.mem = r]
      BY <1>7 DEF PersistApplied
    <2> HIDE DEF r
    <2>3. DiskConsumed'
      BY <1>7, <1>s, <2>1, <2>2 DEF PersistApplied, replay
    <2>4. OfflineFresh'
      <3>1. offline'.pc = "unmark"
        BY <2>2, OfflineFields
      <3> QED BY <3>1 DEF OfflineFresh
    <2> QED BY <1>7, <1>r, <2>3, <2>4 DEF PersistApplied, replay, OnlyOffline
  <1>8. CASE RemoveMarker \/ OfflineFails \/ RecoveryRefused \/ RebootFails \/ RebootRefused
    BY <1>8, <1>m, <1>r
    DEF RemoveMarker, OfflineFails, RecoveryRefused, RebootFails, RebootRefused, replay, OnlyOffline
  <1>9. CASE MarkRecovery
    <2>1. op \in Ops
      BY <1>0, <1>9 DEF MarkRecovery, OfflineAt
    <2>2. Settle(disk[op], "NeedsRecovery", "OFFLINE_APPLY_FAILED").state # "Completed"
      BY <1>0, <2>1, SettleFields
    <2> QED BY <1>9, <1>m, <1>r, <1>s, <2>1, <2>2 DEF MarkRecovery, replay, OnlyOffline
  <1>10. CASE OfflineReboot \/ SystemUpdateCleanup
    BY <1>10, <1>i, <1>r DEF OfflineReboot, SystemUpdateCleanup, replay, OnlyOffline
  <1> QED BY <1>1, <1>2, <1>3, <1>4, <1>5, <1>6, <1>7, <1>8, <1>9, <1>10 DEF OfflineProgress

\* The verifier: the only process that completes a signed operation, and only
\* after the rename that consumes its sequence.  It holds the lock meanwhile,
\* so that no offline worker is between its freshness check and zypper.
LEMMA VerifierStepReplay ==
    ASSUME TypeInvariant, LockInv, ReplayInvariant, VerifierProgress \/ VerifierDies
    PROVE  ReplayInvariant'
  <1> DEFINE op == verifier.op
             mem == verifier.mem
  <1>0. /\ mem \in Records /\ verifier.todo \subseteq Ops
        /\ verifier.pc \in {"check", "consume", "replace", "final"} => op \in Ops
        /\ op \in Ops \cup {NoOp}
        /\ \A o \in Ops : verifier.scanned[o] \in Records
    BY DEF TypeInvariant, VerifierPart, VerifierStates
  <1>r. ASSUME UNCHANGED <<worker, session, offline, lastSequence>>
        PROVE  /\ WorkerUnfinished' /\ SessionUnfinished' /\ OfflineFresh'
               /\ UNCHANGED disk => DiskConsumed'
    BY <1>r, ReplayFrame
  <1>f. ASSUME NEW pc, NEW r,
               \/ verifier' = [verifier EXCEPT !.pc = pc] /\ r = mem
               \/ verifier' = [verifier EXCEPT !.pc = pc, !.mem = r]
        PROVE  verifier'.pc = pc /\ verifier'.op = op /\ verifier'.mem = r
    BY <1>f, VerifierFields
  <1>m. ASSUME UNCHANGED lastSequence, verifier'.pc # "reconcile", verifier'.op = op,
               verifier'.pc = "replace" => lastSequence <= ManifestSequence[op],
               verifier'.pc = "final" => Consumed(op, verifier'.mem)
        PROVE  VerifierConsumed'
    BY <1>m DEF VerifierConsumed, Consumed
  <1>e. VerifierExit => VerifierConsumed'
    BY VerifierFields DEF VerifierConsumed
  <1>t. \A st, code : Settle(mem, st, code).state = st /\ Settle(mem, st, code).goal = mem.goal
    BY <1>0, SettleFields
  <1>s. ASSUME NEW o \in Ops, NEW r, SaveState(o, r), Consumed(o, r), UNCHANGED lastSequence
        PROVE  DiskConsumed'
    BY <1>s, SaveConsumed
  <1> USE DEF ReplayInvariant
  <1>1. CASE VerifierAcquire
    <2>1. verifier'.pc = "scan" /\ verifier'.op = op
      BY <1>1, <1>f DEF VerifierAcquire
    <2>2. VerifierConsumed'
      BY <2>1 DEF VerifierConsumed
    <2> QED BY <1>1, <1>r, <2>2 DEF VerifierAcquire, replay, OnlyVerifier
  <1>2. CASE VerifierBusy \/ ReconcileRefused \/ NothingPending \/ VerifierDies
    BY <1>2, <1>e, <1>r
    DEF VerifierBusy, ReconcileRefused, NothingPending, VerifierDies, replay, OnlyVerifier
  <1>3. CASE Scan
    <2>1. PICK o \in Ops \cup {NoOp} :
             /\ o # NoOp => Candidate(o)
             /\ verifier' =
                  [pc |-> "reconcile", op |-> o,
                   mem |-> IF o = NoOp THEN AbsentRecord ELSE disk[o],
                   todo |-> {x \in Ops : Interrupted(x)},
                   scanned |-> [x \in Ops |-> IF Interrupted(x) THEN disk[x] ELSE AbsentRecord]]
      BY <1>3 DEF Scan
    <2>2. verifier'.pc = "reconcile" /\ verifier'.mem.state # "Completed"
      BY <2>1 DEF Candidate, AbsentRecord
    <2>3. VerifierConsumed'
      BY <2>2 DEF VerifierConsumed
    <2> QED BY <1>3, <1>r, <2>3 DEF Scan, replay, OnlyVerifier
  <1>4. CASE Reconcile
    <2>1. PICK o \in verifier.todo :
             /\ SaveState(o, InterruptedRecord(o))
             /\ verifier' = [verifier EXCEPT !.todo = @ \ {o}, !.scanned[o] = AbsentRecord]
      BY <1>4 DEF Reconcile
    <2>2. o \in Ops /\ InterruptedRecord(o).state # "Completed"
      <3>1. o \in Ops /\ verifier.scanned[o] \in Records
        BY <1>0, <2>1
      <3>2. PICK st \in {"Failed", "NeedsRecovery"} :
               InterruptedRecord(o) = Settle(verifier.scanned[o], st, "OPERATION_INTERRUPTED")
        BY DEF InterruptedRecord, InterruptedState
      <3> QED BY <3>1, <3>2, SettleFields
    <2>3. verifier'.pc = verifier.pc /\ verifier'.op = op /\ verifier'.mem = mem
      BY <2>1 DEF TypeInvariant, VerifierPart, VerifierStates
    <2>4. VerifierConsumed'
      BY <1>4, <2>3 DEF Reconcile, VerifierConsumed, VerifierAt
    <2>5. DiskConsumed'
      BY <1>4, <1>s, <2>1, <2>2 DEF Reconcile, replay, Consumed
    <2> QED BY <1>4, <1>r, <2>4, <2>5 DEF Reconcile, replay, OnlyVerifier
  <1>5. CASE BeginVerification
    <2> DEFINE r == IF mem.state = "AwaitingReboot" THEN TransitionTo(mem, "VerifyingBoot") ELSE mem
    <2>1. op \in Ops /\ r.state # "Completed"
      BY <1>0, <1>5, TransitionFields DEF BeginVerification, VerifierAt, VerifierConsumed
    <2>2. SaveState(op, r) /\ verifier' = [verifier EXCEPT !.pc = "check", !.mem = r]
      BY <1>5 DEF BeginVerification
    <2> HIDE DEF r
    <2>3. DiskConsumed'
      BY <1>5, <1>s, <2>1, <2>2 DEF BeginVerification, replay, Consumed
    <2>4. verifier'.pc = "check"
      BY <1>f, <2>2
    <2>5. VerifierConsumed'
      BY <2>4 DEF VerifierConsumed
    <2> QED BY <1>5, <1>r, <2>3, <2>5 DEF BeginVerification, replay, OnlyVerifier
  <1>6. CASE CheckPasses
    <2>1. VerifierConsumed'
      <3>1. CASE ConsumesSequence(op)
        <4>1. verifier'.pc = "consume"
          BY <1>6, <1>f, <3>1 DEF CheckPasses
        <4> QED BY <4>1 DEF VerifierConsumed
      <3>2. CASE ~ConsumesSequence(op)
        <4>1. Consumed(op, Passed(mem))
          BY <1>t, <3>2 DEF ConsumesSequence, Consumed, Passed
        <4>2. verifier' = [verifier EXCEPT !.pc = "final", !.mem = Passed(mem)]
          BY <1>6, <3>2 DEF CheckPasses
        <4>3. verifier'.pc = "final" /\ verifier'.op = op /\ verifier'.mem = Passed(mem)
          BY <1>f, <4>2
        <4> QED BY <1>6, <1>m, <4>1, <4>3 DEF CheckPasses, replay
      <3> QED BY <3>1, <3>2
    <2> QED BY <1>6, <1>r, <2>1 DEF CheckPasses, replay, OnlyVerifier
  <1>7. CASE CheckFails
    <2> DEFINE r == Settle(mem, "NeedsRecovery", "POST_BOOT_VERIFICATION_FAILED")
    <2>1. Consumed(op, r)
      BY <1>t DEF Consumed
    <2>2. verifier' = [verifier EXCEPT !.pc = "final", !.mem = r]
      BY <1>7 DEF CheckFails
    <2> HIDE DEF r
    <2>3. verifier'.pc = "final" /\ verifier'.op = op /\ verifier'.mem = r
      BY <1>f, <2>2
    <2>4. VerifierConsumed'
      BY <1>7, <1>m, <2>1, <2>3 DEF CheckFails, replay
    <2> QED BY <1>7, <1>r, <2>4 DEF CheckFails, replay, OnlyVerifier
  <1>8. CASE WriteSequenceTmp
    <2>1. verifier'.pc = "replace" /\ verifier'.op = op
      BY <1>8, <1>f DEF WriteSequenceTmp
    <2>2. VerifierConsumed'
      BY <1>8, <1>m, <2>1 DEF WriteSequenceTmp
    <2> QED BY <1>8, <1>r, <2>2 DEF WriteSequenceTmp, OnlyVerifier
  <1>9. CASE ReplaceSequence
    <2>0. op \in Ops /\ lastSequence <= ManifestSequence[op]
      BY <1>0, <1>9 DEF ReplaceSequence, VerifierAt, VerifierConsumed
    <2>1. /\ lastSequence \in Nat /\ \A o \in Ops : ManifestSequence[o] \in Nat
          /\ lastSequence' = ManifestSequence[op]
      BY <1>9, MachineAssumption DEF TypeInvariant, RestPart, ReplaceSequence
    <2>2. DiskConsumed'
      BY <1>9, <2>0, <2>1 DEF ReplaceSequence, DiskConsumed, Consumed
    <2>3. WorkerUnfinished' /\ SessionUnfinished'
      BY <1>9 DEF ReplaceSequence, OnlyVerifier, WorkerUnfinished, SessionUnfinished
    <2>4. OfflineFresh'
      BY <1>9 DEF ReplaceSequence, OnlyVerifier, VerifierAt, OfflineFresh, LockInv,
         OfflineHolds, VerifierHolds
    <2>5. PICK r : verifier' = [verifier EXCEPT !.pc = "final", !.mem = r]
      BY <1>9 DEF ReplaceSequence
    <2>6. verifier'.pc = "final" /\ verifier'.op = op
      BY <2>5, VerifierFields
    <2>7. VerifierConsumed'
      BY <2>0, <2>1, <2>6 DEF VerifierConsumed, Consumed
    <2> QED BY <2>2, <2>3, <2>4, <2>7
  <1>10. CASE SequenceFails
    <2>1. Consumed(op, Unconsumed(mem))
      BY <1>t DEF Consumed, Unconsumed
    <2>2. verifier' = [verifier EXCEPT !.pc = "final", !.mem = Unconsumed(mem)]
      BY <1>10 DEF SequenceFails
    <2>3. verifier'.pc = "final" /\ verifier'.op = op /\ verifier'.mem = Unconsumed(mem)
      BY <1>f, <2>2
    <2>4. VerifierConsumed'
      BY <1>10, <1>m, <2>1, <2>3 DEF SequenceFails, replay
    <2> QED BY <1>10, <1>r, <2>4 DEF SequenceFails, replay, OnlyVerifier
  <1>11. CASE SaveVerdict
    <2>1. op \in Ops /\ Consumed(op, mem)
      BY <1>0, <1>11 DEF SaveVerdict, VerifierAt, VerifierConsumed
    <2> QED BY <1>11, <1>e, <1>r, <1>s, <2>1 DEF SaveVerdict, replay, OnlyVerifier
  <1> QED BY <1>1, <1>2, <1>3, <1>4, <1>5, <1>6, <1>7, <1>8, <1>9, <1>10, <1>11
      DEF VerifierProgress

\* Power losses, restarts, boots and other updaters touch neither the records
\* nor the sequence.
LEMMA PlatformStepReplay ==
    ASSUME ReplayInvariant, PowerLoss \/ Reboot \/ Boot \/ ForeignStage
    PROVE  ReplayInvariant'
  <1>0. UNCHANGED <<disk, lastSequence>>
    BY DEF PowerLoss, Reboot, Boot, ForeignStage, Down, replay
  <1>1. DiskConsumed'
    BY <1>0, ReplayFrame
  <1>2. CASE Down
    <2>1. /\ WorkerUnfinished' /\ SessionUnfinished' /\ OfflineFresh' /\ VerifierConsumed'
      BY <1>2 DEF Down, WorkerUnfinished, SessionUnfinished, OfflineFresh, VerifierConsumed,
         IdleWorker, IdleSession, IdleOffline, IdleVerifier, AbsentRecord
    <2> QED BY <1>1, <2>1 DEF ReplayInvariant
  <1>3. CASE Boot
    <2>1. WorkerUnfinished' /\ SessionUnfinished'
      BY <1>0, <1>3, ReplayFrame DEF Boot
    <2>2. OfflineFresh'
      BY <1>0, <1>3, ReplayFrame DEF Boot, OfflineFresh, IdleOffline
    <2>3. VerifierConsumed'
      BY <1>0, <1>3, ReplayFrame DEF Boot, VerifierConsumed, IdleVerifier
    <2> QED BY <1>1, <2>1, <2>2, <2>3 DEF ReplayInvariant
  <1>4. CASE ForeignStage
    BY <1>0, <1>4, ReplayFrame DEF ForeignStage, processes, ReplayInvariant
  <1> QED BY <1>2, <1>3, <1>4 DEF PowerLoss, Reboot

-----------------------------------------------------------------------------
\* The invariant is inductive, given types and mutual exclusion.
THEOREM ReplayInvariance == Spec => []ReplayInvariant
  <1>1. Init => ReplayInvariant
    BY DEF Init, ReplayInvariant, DiskConsumed, Consumed, WorkerUnfinished, SessionUnfinished,
       OfflineFresh, VerifierConsumed, IdleWorker, IdleSession, IdleOffline, IdleVerifier,
       AbsentRecord
  <1>2. TypeInvariant /\ LockInv /\ ReplayInvariant /\ [Next]_vars => ReplayInvariant'
    <2> SUFFICES ASSUME TypeInvariant, LockInv, ReplayInvariant, [Next]_vars
                 PROVE  ReplayInvariant'
      OBVIOUS
    <2>1. CASE UNCHANGED vars
      BY <2>1, ReplayFrame DEF vars, replay, processes, ReplayInvariant
    <2>2. CASE Next
      BY <2>2, WorkerStepReplay, SessionStepReplay, OfflineStepReplay, VerifierStepReplay,
         PlatformStepReplay DEF Next
    <2> QED BY <2>1, <2>2
  <1>3. OneTransactionAtATime => LockInv
    BY LockInvMeaning
  <1> QED BY <1>1, <1>2, <1>3, TypeInvariance, MutualExclusion, PTL DEF Spec

\* CompletedConsumesSequence: a signed operation that is Completed, and not by
\* a rollback, has its manifest sequence in last-manifest-sequence, whatever
\* crash came between the two files.
THEOREM CompletionConsumes == Spec => []CompletedConsumesSequence
  <1>1. ReplayInvariant => CompletedConsumesSequence
    BY DEF ReplayInvariant, DiskConsumed, Consumed, CompletedConsumesSequence
  <1> QED BY <1>1, ReplayInvariance, PTL

\* NoReplay: zypper is never started for a signed operation whose manifest is
\* as old as, or older than, that of a completed one: the freshness LoadStaged
\* checked still holds when the transaction starts.
THEOREM NothingReplayed == Spec => NoReplay
  <1>1. ASSUME TypeInvariant, ReplayInvariant, [Next]_vars, NEW op \in Ops,
               TransactionStarts(op), Signed(op), NEW o \in Ops, Signed(o),
               disk[o].state = "Completed", ~disk[o].goal
        PROVE  ManifestSequence[o] < ManifestSequence[op]
    <2>1. ASSUME NEW w \in Workers, worker[w].pc # "zypper", worker'[w].pc = "zypper",
                 worker'[w].op = op
          PROVE  FALSE
      BY <1>1, <2>1, ThreadEntersZypper DEF ReplayInvariant, WorkerUnfinished
    <2>2. ASSUME offline.pc # "zypper", offline'.pc = "zypper", offline'.op = op
          PROVE  ManifestSequence[op] > lastSequence
      BY <1>1, <2>2, OfflineEntersZypper
      DEF Revalidate, OfflineAt, ReplayInvariant, OfflineFresh, ManifestIsFresh
    <2>3. lastSequence >= ManifestSequence[o]
      BY <1>1 DEF ReplayInvariant, DiskConsumed, Consumed
    <2>4. lastSequence \in Nat /\ ManifestSequence[o] \in Nat /\ ManifestSequence[op] \in Nat
      BY <1>1, MachineAssumption DEF TypeInvariant, RestPart
    <2> QED BY <1>1, <2>1, <2>2, <2>3, <2>4 DEF TransactionStarts
  <1>2. TypeInvariant /\ ReplayInvariant /\ [Next]_vars =>
            [\A op \in Ops :
                TransactionStarts(op) /\ Signed(op) =>
                    \A o \in Ops : Signed(o) /\ disk[o].state = "Completed" /\ ~disk[o].goal
                                       => ManifestSequence[o] < ManifestSequence[op]]_vars
    BY <1>1
  <1> QED BY <1>2, TypeInvariance, ReplayInvariance, PTL DEF Spec, NoReplay
=============================================================================
