---------------------------- MODULE RecoveryProofs ---------------------------
(***************************************************************************)
(* What is left when an offline release upgrade loses the repositories:    *)
(* RepositoryOutageIsRecoverable, for every number of operations, clients, *)
(* threads, snapshots, rollbacks and crashes.                              *)
(*                                                                         *)
(* First what a step of each kind of process can do at all, then what that *)
(* does to the invariant.                                                  *)
(***************************************************************************)
EXTENDS ReplayProofs

-----------------------------------------------------------------------------
(* The effect of a step.                                                   *)

\* The writes of a state keep the clone that a rollback selected.
LEMMA KeepsClone ==
    ASSUME NEW r \in Records, NEW st, NEW code
    PROVE  /\ Settle(r, st, code).boot_snapshot = r.boot_snapshot
           /\ TransitionTo(r, st).boot_snapshot = r.boot_snapshot
  BY Zenon DEF Settle, TransitionTo, Records

\* A thread saves its own record, marks the mounted root, writes its packages
\* there or has it copied; it is at its snapshot only on the planned system.
WorkerEffect(w) ==
    LET op == worker[w].op IN
    /\ worker[w].pc # "idle" /\ op \in Ops
    /\ \A v \in Workers \ {w} : worker'[v] = worker[v]
    /\ worker'[w].pc = "idle" \/ worker'[w].op = op
    /\ worker'[w].pc \in {"snapshot", "create"} => Installed = basis[op] /\ UNCHANGED roots
    /\ \A o \in Ops \ {op} : disk'[o] = disk[o]
    /\ UNCHANGED <<session, offline, verifier, mode, mounted, basis, clones, default>>
    /\ \/ UNCHANGED <<roots, snapshots>>
       \/ (\E m : SetMarker(m)) /\ UNCHANGED snapshots
       \/ /\ worker[w].pc = "zypper" /\ UNCHANGED snapshots
          /\ \E p \in {"partial", "new"} : SetPackages(op, p)
       \/ /\ worker[w].pc = "create" /\ UNCHANGED roots
          /\ snapshots' = Append(snapshots, [op |-> op, root |-> roots[mounted]])

\* Every step of an executor thread, and its death.
LEMMA WorkerEffects ==
    ASSUME TypeInvariant, BasisPart, NEW w \in Workers, WorkerProgress(w) \/ WorkerDies(w)
    PROVE  WorkerEffect(w)
  <1> DEFINE op == worker[w].op
             mem == worker[w].mem
             Rest == UNCHANGED <<session, offline, verifier, mode, mounted, basis, clones, default>>
             Others == \A o \in Ops \ {op} : disk'[o] = disk[o]
             Storage ==
                \/ UNCHANGED <<roots, snapshots>>
                \/ (\E m : SetMarker(m)) /\ UNCHANGED snapshots
                \/ /\ worker[w].pc = "zypper" /\ UNCHANGED snapshots
                   /\ \E p \in {"partial", "new"} : SetPackages(op, p)
                \/ /\ worker[w].pc = "create" /\ UNCHANGED roots
                   /\ snapshots' = Append(snapshots, [op |-> op, root |-> roots[mounted]])
             Thread ==
                /\ \A v \in Workers \ {w} : worker'[v] = worker[v]
                /\ worker'[w].pc = "idle" \/ worker'[w].op = op
                /\ worker'[w].pc \in {"snapshot", "create"} =>
                       Installed = basis[op] /\ UNCHANGED roots
  <1>0. worker[w].pc # "idle" /\ op \in Ops
    BY DEF WorkerProgress, WorkerDies, AcquireLock, LockBusy, Prepare, BeginDownload, Refresh,
       Download, BeginSnapshot, CreateSnapshot, RecordSnapshot, BeginApply, ZypperWrites,
       ZypperDone, FinishUpdate, StageMarker, FinishStaging, Fail, CheckCancelled,
       RecordFailure, Self, HoldsLock, TypeInvariant, WorkerPart
  <1>s. ASSUME NEW r, SaveState(op, r) PROVE Others
    BY <1>s DEF SaveState, TypeInvariant, DiskPart
  <1>k. UNCHANGED disk => Others
    OBVIOUS
  <1>v. ASSUME NEW pc, NEW r, pc \notin {"snapshot", "create"}, Moved(w, pc, r) PROVE Thread
    BY <1>v DEF Moved
  <1> HIDE DEF Thread
  <1>m. /\ \A pc : Goto(w, pc) /\ pc \notin {"snapshot", "create"} => Thread
        /\ \A pc, r : GotoWith(w, pc, r) /\ pc \notin {"snapshot", "create"} => Thread
        /\ \A r, b : worker' = [worker EXCEPT ![w].pc = "failed", ![w].mem = r, ![w].error = b]
                       => Thread
        /\ \A b : worker' = [worker EXCEPT ![w].pc = "failed", ![w].error = b] => Thread
    <2>1. ASSUME NEW pc, NEW r, pc \notin {"snapshot", "create"},
                 Goto(w, pc) \/ GotoWith(w, pc, r)
          PROVE  Thread
      <3>1. Moved(w, pc, mem) \/ Moved(w, pc, r)
        BY <2>1, WorkerFields
      <3> QED BY <1>v, <2>1, <3>1
    <2>2. ASSUME NEW r, NEW b,
                 \/ worker' = [worker EXCEPT ![w].pc = "failed", ![w].mem = r, ![w].error = b]
                 \/ worker' = [worker EXCEPT ![w].pc = "failed", ![w].error = b]
          PROVE  Thread
      <3>1. Moved(w, "failed", mem) \/ Moved(w, "failed", r)
        BY <2>2, WorkerFields
      <3> QED BY <1>v, <3>1
    <2> QED BY <2>1, <2>2
  <1>i. ASSUME worker' = [worker EXCEPT ![w] = IdleWorker] PROVE Thread
    BY <1>i DEF TypeInvariant, WorkerPart, IdleWorker, Thread
  <1>q. Rest /\ Others /\ Storage /\ Thread => WorkerEffect(w)
    BY <1>0 DEF WorkerEffect, Thread
  <1> USE DEF storage, files, platform, bounds, OnlyWorker, Self
  <1>1. CASE AcquireLock(w) \/ LockBusy(w) \/ Prepare(w) \/ Refresh(w)
    <2>1. Thread
      BY <1>1, <1>m DEF AcquireLock, LockBusy, Prepare, Refresh
    <2>2. Rest /\ Others /\ Storage
      BY <1>1 DEF AcquireLock, LockBusy, Prepare, Refresh
    <2> QED BY <1>q, <2>1, <2>2
  <1>2. CASE BeginDownload(w)
    <2>1. Thread
      <3>1. PICK r : GotoWith(w, "refresh", r)
        BY <1>2 DEF BeginDownload, PersistTransition
      <3> QED BY <1>m, <3>1
    <2>2. Rest /\ Others /\ Storage
      BY <1>2, <1>s DEF BeginDownload, PersistTransition
    <2> QED BY <1>q, <2>1, <2>2
  <1>3. CASE Download(w)
    <2>1. Thread
      BY <1>3, WorkerFields DEF Download, Moved, PlanStillHolds, Thread
    <2>2. Rest /\ Others /\ Storage
      BY <1>3 DEF Download
    <2> QED BY <1>q, <2>1, <2>2
  <1>4. CASE BeginSnapshot(w)
    <2>1. Thread
      <3>1. Moved(w, "create", TransitionTo(mem, "Snapshotting"))
        BY <1>4, WorkerFields DEF BeginSnapshot, PersistTransition
      <3>2. Installed = basis[op] /\ UNCHANGED roots
        BY <1>4 DEF BeginSnapshot, BasisPart
      <3> QED BY <3>1, <3>2 DEF Moved, Thread
    <2>2. Rest /\ Others /\ Storage
      BY <1>4, <1>s DEF BeginSnapshot, PersistTransition
    <2> QED BY <1>q, <2>1, <2>2
  <1>5. CASE CreateSnapshot(w)
    <2>1. Thread
      BY <1>5, <1>m DEF CreateSnapshot
    <2>2. Rest /\ Others /\ Storage
      BY <1>5 DEF CreateSnapshot
    <2> QED BY <1>q, <2>1, <2>2
  <1>6. CASE RecordSnapshot(w)
    <2>1. PICK pc \in {"stage", "apply"} : GotoWith(w, pc, Numbered(w))
      BY <1>6 DEF RecordSnapshot
    <2>2. Thread
      BY <1>m, <2>1
    <2>3. Rest /\ Others /\ Storage
      BY <1>6, <1>s DEF RecordSnapshot
    <2> QED BY <1>q, <2>2, <2>3
  <1>7. CASE BeginApply(w)
    <2>1. Thread
      <3>1. PICK r : GotoWith(w, "zypper", r)
        BY <1>7 DEF BeginApply, PersistTransition
      <3> QED BY <1>m, <3>1
    <2>2. Rest /\ Others /\ Storage
      BY <1>7, <1>s DEF BeginApply, PersistTransition
    <2> QED BY <1>q, <2>1, <2>2
  <1>8. CASE ZypperWrites(w)
    <2>1. Thread
      BY <1>8 DEF ZypperWrites, processes, Thread
    <2>2. Rest /\ Others /\ Storage
      BY <1>8 DEF ZypperWrites, processes
    <2> QED BY <1>q, <2>1, <2>2
  <1>9. CASE ZypperDone(w)
    <2>1. Thread
      BY <1>9, <1>m DEF ZypperDone
    <2>2. Rest /\ Others /\ Storage
      BY <1>9 DEF ZypperDone
    <2> QED BY <1>q, <2>1, <2>2
  <1>10. CASE FinishUpdate(w)
    <2>1. PICK r : SaveState(op, r)
      BY <1>10 DEF FinishUpdate
    <2>2. Rest /\ Others /\ Storage /\ Thread
      BY <1>10, <1>i, <1>s, <2>1 DEF FinishUpdate
    <2> QED BY <1>q, <2>2
  <1>11. CASE StageMarker(w)
    <2>1. Thread
      BY <1>11, <1>m DEF StageMarker
    <2>2. Rest /\ Others /\ Storage
      BY <1>11 DEF StageMarker
    <2> QED BY <1>q, <2>1, <2>2
  <1>12. CASE FinishStaging(w)
    <2>1. Rest /\ Others /\ Storage /\ Thread
      BY <1>12, <1>i, <1>s DEF FinishStaging
    <2> QED BY <1>q, <2>1
  <1>13. CASE Fail(w)
    <2>1. PICK b \in Errors, r \in InMemory(w) :
             worker' = [worker EXCEPT ![w].pc = "failed", ![w].mem = r, ![w].error = b]
      BY <1>13 DEF Fail
    <2>2. Thread
      BY <1>m, <2>1
    <2>3. Rest /\ Others /\ Storage
      BY <1>13 DEF Fail
    <2> QED BY <1>q, <2>2, <2>3
  <1>14. CASE CheckCancelled(w)
    <2>1. Thread
      BY <1>14, <1>i, <1>m DEF CheckCancelled
    <2>2. Rest /\ Others /\ Storage
      BY <1>14 DEF CheckCancelled
    <2> QED BY <1>q, <2>1, <2>2
  <1>15. CASE RecordFailure(w)
    <2>1. Rest /\ Others /\ Storage /\ Thread
      BY <1>15, <1>i, <1>s DEF RecordFailure
    <2> QED BY <1>q, <2>1
  <1>16. CASE WorkerDies(w)
    <2>1. Rest /\ Others /\ Storage /\ Thread
      BY <1>16, <1>i DEF WorkerDies
    <2> QED BY <1>q, <2>1
  <1> QED
    BY <1>1, <1>2, <1>3, <1>4, <1>5, <1>6, <1>7, <1>8, <1>9, <1>10, <1>11, <1>12,
       <1>13, <1>14, <1>15, <1>16 DEF WorkerProgress

\* A request saves the record it was made for: to begin it, to cancel it, or to
\* settle or roll it back, which keeps the number it read.
RecordWritten(s) ==
    LET op == session[s].op IN
    \/ UNCHANGED disk
    \/ /\ op \in Ops
       /\ \E r \in Records :
             /\ disk' = [disk EXCEPT ![op] = r]
             /\ \/ session[s].pc \in {"create", "cancel"}
                \/ /\ session[s].pc \in {"keep", "intent", "rollback", "selected"}
                   /\ r.snapshot_number = session[s].mem.snapshot_number
                   /\ \/ r.state \in {"NeedsRecovery", "Failed"}
                      \/ r.state = "AwaitingReboot" /\ r.goal

\* It goes on, or begins with what it finds on disk.
RequestMoved(s) ==
    LET q == session'[s] IN
    \/ q.pc \in {"idle", "plan", "owner", "spawn"}
    \/ q.pc \in {"create", "cancel"} /\ disk[q.op].state \notin SpentStates
    \/ q.pc \in {"keep", "intent"} /\ q.mem = disk[q.op] /\ q.mem.state = "NeedsRecovery"
    \/ /\ q.pc \in {"rollback", "selected"} /\ session[s].pc \in {"intent", "rollback"}
       /\ q.op = session[s].op /\ q.mem.goal
       /\ q.mem.snapshot_number = session[s].mem.snapshot_number

ThreadSpawned(s) ==
    \/ UNCHANGED worker
    \/ /\ disk[session[s].op].state = "AwaitingConfirmation"
       /\ \E w \in Workers :
             /\ worker'[w].pc = "acquire" /\ worker'[w].op = session[s].op
             /\ \A v \in Workers \ {w} : worker'[v] = worker[v]

PlanConfirmed ==
    \/ UNCHANGED basis
    \/ \E op \in Ops :
          /\ starts[op] = 0 \/ Installed = basis[op]
          /\ basis' = [basis EXCEPT ![op] = Installed]

CloneMade(s) ==
    \/ UNCHANGED <<roots, clones, default>>
    \/ /\ session[s].pc = "rollback" /\ clones < MaxClones
       /\ clones' = clones + 1 /\ default' = clones + 1
       /\ roots' = [roots EXCEPT ![clones + 1] =
                       snapshots[session[s].mem.snapshot_number].root]

SessionEffect(s) ==
    /\ mode = "up" /\ UNCHANGED <<offline, verifier, mode, mounted, snapshots>>
    /\ \A t \in Sessions \ {s} : session'[t] = session[t]
    /\ RecordWritten(s) /\ RequestMoved(s) /\ ThreadSpawned(s) /\ PlanConfirmed /\ CloneMade(s)

\* Every step of a request handler, and its death.
LEMMA SessionEffects ==
    ASSUME TypeInvariant, QuietPart, CopyPart, NEW s \in Sessions,
           SessionRequest(s) \/ SessionProgress(s) \/ SessionDies(s)
    PROVE  SessionEffect(s)
  <1> DEFINE op == session[s].op
             mem == session[s].mem
             pc0 == session[s].pc
             Others == \A t \in Sessions \ {s} : session'[t] = session[t]
             Rest == UNCHANGED <<offline, verifier, mode, mounted, snapshots>>
             Kept == ThreadSpawned(s) /\ PlanConfirmed /\ CloneMade(s)
  <1>0. mem \in Records /\ (pc0 # "idle" => op \in Ops /\ mode = "up")
    BY DEF TypeInvariant, SessionPart, SessionStates, RestPart, QuietPart
  <1>k. /\ UNCHANGED disk => RecordWritten(s)
        /\ UNCHANGED <<worker, basis, roots, clones, default>> => Kept
    BY DEF RecordWritten, ThreadSpawned, PlanConfirmed, CloneMade
  <1>m. ASSUME NEW pc, NEW o, NEW r, Served(s, pc, o, r),
               \/ pc \in {"idle", "plan", "owner", "spawn"}
               \/ pc \in {"create", "cancel"} /\ disk[o].state \notin SpentStates
               \/ pc \in {"keep", "intent"} /\ r = disk[o] /\ r.state = "NeedsRecovery"
               \/ /\ pc \in {"rollback", "selected"} /\ pc0 \in {"intent", "rollback"}
                  /\ o = op /\ r.goal /\ r.snapshot_number = mem.snapshot_number
        PROVE  Others /\ RequestMoved(s)
    BY <1>m DEF Served, RequestMoved
  <1>i. Reply(s) => Others /\ RequestMoved(s)
    BY <1>m, SessionFields
  <1>w. ASSUME NEW r \in Records, SaveState(op, r), op \in Ops,
               \/ pc0 \in {"create", "cancel"}
               \/ /\ pc0 \in {"keep", "intent", "rollback", "selected"}
                  /\ r.snapshot_number = mem.snapshot_number
                  /\ \/ r.state \in {"NeedsRecovery", "Failed"}
                     \/ r.state = "AwaitingReboot" /\ r.goal
        PROVE  RecordWritten(s)
    BY <1>w DEF SaveState, RecordWritten
  <1>t. /\ \A st \in States, code \in ErrorCodes :
              LET r == Settle(mem, st, code) IN
              /\ r \in Records /\ r.snapshot_number = mem.snapshot_number
              /\ r.state = st /\ r.goal = mem.goal
    BY <1>0, SettleType, SettleFields
  <1>sch. pc0 = "selected" => /\ Scheduled(s) \in Records
                 /\ Scheduled(s).snapshot_number = mem.snapshot_number
                 /\ Scheduled(s).goal /\ Scheduled(s).state = "AwaitingReboot"
    <2> DEFINE q == Settle(mem, "AwaitingReboot", "None")
    <2>1. /\ q \in Records /\ q.snapshot_number = mem.snapshot_number
          /\ q.state = "AwaitingReboot" /\ q.goal = mem.goal
      BY <1>t DEF States, ErrorCodes
    <2>2. default \in Nat
      BY MachineAssumption DEF TypeInvariant, StoragePart, Subvolumes
    <2>3. pc0 = "selected" => mem.goal
      BY DEF CopyPart
    <2>4. Scheduled(s) = [q EXCEPT !.boot_snapshot = default]
      BY DEF Scheduled, Request
    <2> HIDE DEF q
    <2> QED BY <2>1, <2>2, <2>3, <2>4, Zenon DEF Records
  <1>q. mode = "up" /\ Rest /\ Others /\ RecordWritten(s) /\ RequestMoved(s) /\ Kept => SessionEffect(s)
    BY DEF SessionEffect
  <1> HIDE DEF Others, Kept
  <1> USE DEF storage, files, platform, OnlySession, Request
  <1>1. ASSUME NEW o \in Ops, StartNew(s, o) PROVE SessionEffect(s)
    <2>1. Others /\ RequestMoved(s)
      <3>1. Served(s, "create", o, AbsentRecord) /\ disk[o].state \notin SpentStates
        BY <1>1, SessionFields DEF StartNew, SpentStates
      <3> QED BY <1>m, <3>1
    <2>2. Kept
      BY <1>1 DEF StartNew, PlanStillHolds, Kept, ThreadSpawned, PlanConfirmed, CloneMade
    <2> QED BY <1>1, <1>k, <1>q, <2>1, <2>2 DEF StartNew, Accepting
  <1>2. ASSUME NEW o \in Ops, StartOwned(s, o) PROVE SessionEffect(s)
    <2>1. Others /\ RequestMoved(s)
      <3>1. Served(s, "spawn", o, AbsentRecord)
        BY <1>2, SessionFields DEF StartOwned
      <3> QED BY <1>m, <3>1
    <2> QED BY <1>2, <1>k, <1>q, <2>1 DEF StartOwned, Accepting
  <1>3. ASSUME NEW o \in Ops, Cancel(s, o) PROVE SessionEffect(s)
    <2>1. Others /\ RequestMoved(s)
      <3>1. Served(s, "cancel", o, disk[o]) /\ disk[o].state \notin SpentStates
        BY <1>3, SessionFields DEF Cancel, IsCancelable, SpentStates
      <3> QED BY <1>m, <3>1
    <2> QED BY <1>3, <1>k, <1>q, <2>1 DEF Cancel, Accepting
  <1>4. ASSUME NEW o \in Ops, KeepCurrent(s, o) PROVE SessionEffect(s)
    <2>1. Others /\ RequestMoved(s)
      <3>1. Served(s, "keep", o, disk[o]) /\ disk[o].state = "NeedsRecovery"
        BY <1>4, SessionFields DEF KeepCurrent
      <3> QED BY <1>m, <3>1
    <2> QED BY <1>4, <1>k, <1>q, <2>1 DEF KeepCurrent, Accepting
  <1>5. ASSUME NEW o \in Ops, Rollback(s, o) PROVE SessionEffect(s)
    <2>1. Others /\ RequestMoved(s)
      <3>1. Served(s, "intent", o, disk[o]) /\ disk[o].state = "NeedsRecovery"
        BY <1>5, SessionFields DEF Rollback
      <3> QED BY <1>m, <3>1
    <2> QED BY <1>5, <1>k, <1>q, <2>1 DEF Rollback, Accepting
  <1>6. CASE SaveInitial(s)
    <2>1. Others /\ RequestMoved(s)
      <3>1. Served(s, "plan", op, mem)
        BY <1>6, SessionFields DEF SaveInitial
      <3> QED BY <1>m, <3>1
    <2>2. RecordWritten(s)
      BY <1>6, <1>0, <1>w, ConstantRecords DEF SaveInitial
    <2> QED BY <1>6, <1>0, <1>k, <1>q, <2>1, <2>2 DEF SaveInitial
  <1>7. CASE SavePendingPlan(s)
    <2>1. Others /\ RequestMoved(s)
      <3>1. Served(s, "owner", op, mem)
        BY <1>7, SessionFields DEF SavePendingPlan
      <3> QED BY <1>m, <3>1
    <2> QED BY <1>7, <1>0, <1>k, <1>q, <2>1 DEF SavePendingPlan
  <1>8. CASE SaveOwner(s)
    <2>1. Others /\ RequestMoved(s)
      <3>1. Served(s, "spawn", op, mem)
        BY <1>8, SessionFields DEF SaveOwner
      <3> QED BY <1>m, <3>1
    <2> QED BY <1>8, <1>0, <1>k, <1>q, <2>1 DEF SaveOwner
  <1>9. CASE OwnerExists(s) \/ RejectStart(s) \/ HistoryUnusable(s) \/ RejectRollback(s)
             \/ SessionDies(s)
    BY <1>9, <1>0, <1>i, <1>k, <1>q
    DEF OwnerExists, RejectStart, HistoryUnusable, RejectRollback, SessionDies
  <1>10. CASE Spawn(s)
    <2>1. PICK w \in Workers :
            worker' = [worker EXCEPT ![w] =
                [pc |-> "acquire", op |-> op, mem |-> disk[op], error |-> "plain"]]
      BY <1>10 DEF Spawn
    <2>2. /\ worker'[w].pc = "acquire" /\ worker'[w].op = op
          /\ \A v \in Workers \ {w} : worker'[v] = worker[v]
      BY <2>1 DEF TypeInvariant, WorkerPart
    <2>3. Kept
      BY <1>10, <2>2 DEF Spawn, Kept, ThreadSpawned, PlanConfirmed, CloneMade
    <2> QED BY <1>10, <1>0, <1>i, <1>k, <1>q, <2>3 DEF Spawn
  <1>11. CASE SaveCancelled(s)
    <2> DEFINE r == Settle(mem, "Failed", "CANCELLED")
    <2>0. r \in Records /\ r.snapshot_number = mem.snapshot_number /\ r.state = "Failed"
      BY <1>t DEF States, ErrorCodes
    <2>2. SaveState(op, r) /\ pc0 = "cancel"
      BY <1>11 DEF SaveCancelled
    <2> HIDE DEF r
    <2>1. RecordWritten(s)
      BY <1>0, <1>w, <2>0, <2>2
    <2> QED BY <1>11, <1>0, <1>i, <1>k, <1>q, <2>1 DEF SaveCancelled
  <1>12. CASE SaveDeclined(s)
    <2> DEFINE r == Settle(mem, "Failed", "RECOVERY_DECLINED")
    <2>0. r \in Records /\ r.snapshot_number = mem.snapshot_number /\ r.state = "Failed"
      BY <1>t DEF States, ErrorCodes
    <2>2. SaveState(op, r) /\ pc0 = "keep"
      BY <1>12 DEF SaveDeclined
    <2> HIDE DEF r
    <2>1. RecordWritten(s)
      BY <1>0, <1>w, <2>0, <2>2
    <2> QED BY <1>12, <1>0, <1>i, <1>k, <1>q, <2>1 DEF SaveDeclined
  <1>13. CASE SaveIntent(s)
    <2> DEFINE r == [mem EXCEPT !.goal = TRUE, !.boot_snapshot = 0,
                                !.sequence = SaturatingSuccessor(@)]
    <2>1. /\ r \in Records /\ r.state = "NeedsRecovery" /\ r.goal
          /\ r.snapshot_number = mem.snapshot_number
      <3>1. mem.state = "NeedsRecovery"
        BY <1>13 DEF SaveIntent, CopyPart
      <3>2. r.state = mem.state /\ r.goal = TRUE /\ r.snapshot_number = mem.snapshot_number
        BY <1>0, Zenon DEF Records
      <3>3. SaturatingSuccessor(mem.sequence) \in 0..MaxSequence
        BY <1>0, SuccessorType DEF Records
      <3>4. r \in Records
        BY <1>0, <3>3 DEF Records
      <3> QED BY <3>1, <3>2, <3>4
    <2>2. SaveState(op, r) /\ Serve(s, "rollback", op, r) /\ pc0 = "intent"
      BY <1>13 DEF SaveIntent
    <2> HIDE DEF r
    <2>3. RecordWritten(s)
      BY <1>0, <1>w, <2>1, <2>2
    <2>4. Others /\ RequestMoved(s)
      <3>1. Served(s, "rollback", op, r)
        BY <2>2, SessionFields
      <3> QED BY <1>m, <2>1, <2>2, <3>1
    <2> QED BY <1>13, <1>0, <1>k, <1>q, <2>3, <2>4 DEF SaveIntent
  <1>14. CASE SelectClone(s)
    <2>1. Others /\ RequestMoved(s)
      <3>1. Served(s, "selected", op, mem) /\ pc0 = "rollback" /\ mem.goal
        BY <1>14, SessionFields DEF SelectClone, CopyPart
      <3> QED BY <1>m, <3>1
    <2>2. Kept
      BY <1>14 DEF SelectClone, Kept, ThreadSpawned, PlanConfirmed, CloneMade
    <2> QED BY <1>14, <1>0, <1>k, <1>q, <2>1, <2>2 DEF SelectClone
  <1>15. CASE SaveScheduled(s)
    <2>1. RecordWritten(s)
      BY <1>15, <1>0, <1>sch, <1>w DEF SaveScheduled
    <2> QED BY <1>15, <1>0, <1>i, <1>k, <1>q, <2>1 DEF SaveScheduled
  <1>16. CASE RollbackFails(s)
    <2>1. PICK r : /\ r = mem \/ (pc0 = "selected" /\ r = Scheduled(s))
                   /\ SaveState(op, Settle(r, "NeedsRecovery", "ROLLBACK_FAILED"))
      BY <1>16 DEF RollbackFails
    <2> DEFINE q == Settle(r, "NeedsRecovery", "ROLLBACK_FAILED")
    <2>2. r \in Records /\ r.snapshot_number = mem.snapshot_number
      BY <1>0, <1>sch, <2>1
    <2>3. q \in Records /\ q.state = "NeedsRecovery" /\ q.snapshot_number = mem.snapshot_number
      BY <2>2, SettleType, SettleFields DEF States, ErrorCodes
    <2>4. SaveState(op, q) /\ pc0 \in {"rollback", "selected"}
      BY <1>16, <2>1 DEF RollbackFails
    <2> HIDE DEF q
    <2>5. RecordWritten(s)
      BY <1>0, <1>w, <2>3, <2>4
    <2> QED BY <1>16, <1>0, <1>i, <1>k, <1>q, <2>5 DEF RollbackFails
  <1> QED
    BY <1>1, <1>2, <1>3, <1>4, <1>5, <1>6, <1>7, <1>8, <1>9, <1>10, <1>11, <1>12, <1>13,
       <1>14, <1>15, <1>16 DEF SessionRequest, SessionProgress

-----------------------------------------------------------------------------
(* The roots.                                                              *)

Same(R, Q) ==
    /\ R.live = Q.live /\ R.repositories = Q.repositories
    /\ \A op \in Ops : Signed(op) => R.packages[op] = Q.packages[op]

RootsCopied == \A R \in AllRoots' : \E Q \in AllRoots : Same(R, Q)

\* The roots that exist are the subvolumes and those inside the snapshots.
LEMMA RootsAre ==
    ASSUME TypeInvariant
    PROVE  /\ \A R : R \in AllRoots <=> \/ \E v \in Subvolumes : R = roots[v]
                                        \/ \E n \in DOMAIN snapshots : R = snapshots[n].root
           /\ AllRoots \subseteq Roots
           /\ \A R : R \in AllRoots' <=> \/ \E v \in Subvolumes : R = roots'[v]
                                         \/ \E n \in DOMAIN snapshots' : R = snapshots'[n].root
  <1>1. /\ \A v \in Subvolumes : roots[v] \in Roots
        /\ \A n \in DOMAIN snapshots : snapshots[n] \in Snapshots
    BY DEF TypeInvariant, StoragePart
  <1>2. \A n \in DOMAIN snapshots : snapshots[n].root \in Roots
    BY <1>1 DEF Snapshots
  <1> QED BY <1>1, <1>2 DEF AllRoots

\* Signed operations are the ones whose kind is applied offline.
LEMMA SignedKinds ==
    \A op \in Ops : Kind[op] = "ReleaseUpgrade" => Signed(op)
  BY DEF Signed, IsSignedOffline

\* Marking a root, writing an update within the release to it, copying it into
\* a snapshot and cloning a snapshot bring no new combination of signed
\* packages and repositories.
LEMMA CopiesOnly ==
    ASSUME TypeInvariant,
           \/ UNCHANGED <<roots, snapshots>>
           \/ (\E m : SetMarker(m)) /\ UNCHANGED snapshots
           \/ UNCHANGED snapshots /\ \E op \in Ops : ~Signed(op) /\ \E p : SetPackages(op, p)
           \/ UNCHANGED roots /\ \E op \in Ops :
                 snapshots' = Append(snapshots, [op |-> op, root |-> roots[mounted]])
           \/ UNCHANGED snapshots /\ \E v \in Subvolumes, n \in DOMAIN snapshots :
                 roots' = [roots EXCEPT ![v] = snapshots[n].root]
    PROVE  RootsCopied
  <1>0. /\ roots \in [Subvolumes -> Roots] /\ mounted \in Subvolumes
        /\ snapshots \in Seq(Snapshots) /\ roots[mounted] \in Roots
    BY DEF TypeInvariant, StoragePart
  <1>c. ASSUME \A v \in Subvolumes : \E Q \in AllRoots : Same(roots'[v], Q),
               \A n \in DOMAIN snapshots' : \E Q \in AllRoots : Same(snapshots'[n].root, Q)
        PROVE  RootsCopied
    BY <1>c, RootsAre DEF RootsCopied
  <1>r. \A R : Same(R, R)
    BY DEF Same
  <1>a. /\ \A v \in Subvolumes : roots[v] \in AllRoots
        /\ \A n \in DOMAIN snapshots : snapshots[n].root \in AllRoots
    BY RootsAre
  <1>v. UNCHANGED roots => \A v \in Subvolumes : \E Q \in AllRoots : Same(roots'[v], Q)
    BY <1>a, <1>r
  <1>n. UNCHANGED snapshots =>
            \A n \in DOMAIN snapshots' : \E Q \in AllRoots : Same(snapshots'[n].root, Q)
    BY <1>a, <1>r
  <1>m. ASSUME \A v \in Subvolumes : Same(roots'[v], roots[v])
        PROVE  \A v \in Subvolumes : \E Q \in AllRoots : Same(roots'[v], Q)
    BY <1>a, <1>m
  <1>1. CASE UNCHANGED <<roots, snapshots>>
    BY <1>1, <1>c, <1>v, <1>n
  <1>2. ASSUME NEW m, SetMarker(m), UNCHANGED snapshots PROVE RootsCopied
    <2>1. \A v \in Subvolumes : /\ roots'[v].live = roots[v].live
                                /\ roots'[v].repositories = roots[v].repositories
                                /\ roots'[v].packages = roots[v].packages
      BY <1>0, <1>2 DEF SetMarker, Roots
    <2>2. \A v \in Subvolumes : Same(roots'[v], roots[v])
      BY <2>1 DEF Same
    <2> QED BY <1>2, <1>c, <1>m, <1>n, <2>2
  <1>3. ASSUME NEW op \in Ops, NEW p, ~Signed(op), SetPackages(op, p), UNCHANGED snapshots
        PROVE  RootsCopied
    <2>1. \A v \in Subvolumes :
             /\ roots'[v].live = roots[v].live /\ roots'[v].repositories = roots[v].repositories
             /\ \A o \in Ops \ {op} : roots'[v].packages[o] = roots[v].packages[o]
      BY <1>0, <1>3 DEF SetPackages, Roots, Packages
    <2>2. \A v \in Subvolumes : Same(roots'[v], roots[v])
      BY <1>3, <2>1 DEF Same
    <2> QED BY <1>3, <1>c, <1>m, <1>n, <2>2
  <1>4. ASSUME NEW op \in Ops, UNCHANGED roots,
               snapshots' = Append(snapshots, [op |-> op, root |-> roots[mounted]])
        PROVE  RootsCopied
    <2>1. \A n \in DOMAIN snapshots' :
             \/ n \in DOMAIN snapshots /\ snapshots'[n] = snapshots[n]
             \/ snapshots'[n].root = roots[mounted]
      BY <1>0, <1>4
    <2>2. \A n \in DOMAIN snapshots' : snapshots'[n].root \in AllRoots
      BY <1>0, <1>a, <2>1
    <2> QED BY <1>4, <1>c, <1>r, <1>v, <2>2
  <1>5. ASSUME NEW u \in Subvolumes, NEW n \in DOMAIN snapshots, UNCHANGED snapshots,
               roots' = [roots EXCEPT ![u] = snapshots[n].root]
        PROVE  RootsCopied
    <2>1. \A v \in Subvolumes : roots'[v] \in {roots[v], snapshots[n].root}
      BY <1>0, <1>5
    <2>2. \A v \in Subvolumes : roots'[v] \in AllRoots
      BY <1>a, <1>5, <2>1
    <2> QED BY <1>5, <1>c, <1>r, <1>n, <2>2
  <1> QED BY <1>1, <1>2, <1>3, <1>4, <1>5

\* What operations have done stays true of them.
SpentStays == \A op \in Ops : Spent(op) => Spent(op)'

Lasting == \A op \in Ops : (Spent(op) => Spent(op)') /\ (Lost(op) => Lost(op)')

\* A step that brings no new root keeps the three parts about roots.
LEMMA RootsKept ==
    ASSUME SpentPart, AlikePart, OutagePart, RootsCopied, Lasting
    PROVE  SpentPart' /\ AlikePart' /\ OutagePart'
  <1>1. SpentPart'
    BY DEF SpentPart, RootsCopied, Same, Lasting
  <1>2. AlikePart'
    <2> SUFFICES ASSUME NEW R \in AllRoots', NEW Q \in AllRoots',
                        \A op \in Ops : Kind[op] = "ReleaseUpgrade" => R.packages[op] = Q.packages[op]
                 PROVE  R.live = Q.live
      BY DEF AlikePart
    <2>1. PICK R0 \in AllRoots : Same(R, R0)
      BY DEF RootsCopied
    <2>2. PICK Q0 \in AllRoots : Same(Q, Q0)
      BY DEF RootsCopied
    <2>3. \A op \in Ops : Kind[op] = "ReleaseUpgrade" => R0.packages[op] = Q0.packages[op]
      BY <2>1, <2>2, SignedKinds DEF Same
    <2> QED BY <2>1, <2>2, <2>3 DEF Same, AlikePart
  <1>3. OutagePart'
    <2> SUFFICES ASSUME NEW R \in AllRoots', ~R.live
                 PROVE  \E op \in Ops : R.packages[op] = "new" /\ Lost(op)'
      BY DEF OutagePart
    <2>1. PICK Q \in AllRoots : Same(R, Q)
      BY DEF RootsCopied
    <2>2. PICK op \in Ops : Q.packages[op] = "new" /\ Lost(op)
      BY <2>1 DEF Same, OutagePart
    <2>3. R.packages[op] = "new"
      BY <2>1, <2>2, SignedKinds DEF Same, Lost
    <2> QED BY <2>2, <2>3 DEF Lasting
  <1> QED BY <1>1, <1>2, <1>3

\* A snapshot that leads back still does when others are appended.
LEMMA LeadsBackGrows ==
    ASSUME TypeInvariant, Grows
    PROVE  \A op, r : LeadsBack(op, r) => LeadsBack(op, r)'
  BY CleanGrows DEF LeadsBack, CleanSnapshot

-----------------------------------------------------------------------------
(* The steps.                                                              *)

\* The executor threads work on operations that are not spent.
LEMMA WorkerStepRecovery ==
    ASSUME TypeInvariant, LockInv, SnapshotInvariant, ReplayInvariant, RecoveryInvariant,
           NEW w \in Workers, WorkerProgress(w) \/ WorkerDies(w)
    PROVE  RecoveryInvariant' /\ SpentStays
  <1> DEFINE op == worker[w].op
             e == [op |-> op, root |-> roots[mounted]]
  <1>0. WorkerEffect(w)
    BY WorkerEffects DEF RecoveryInvariant
  <1>u. /\ UNCHANGED <<session, offline, verifier, mode, mounted, basis>>
        /\ worker[w].pc # "idle" /\ op \in Ops
        /\ \A v \in Workers \ {w} : worker'[v] = worker[v]
        /\ worker'[w].pc = "idle" \/ worker'[w].op = op
        /\ \A o \in Ops \ {op} : disk'[o] = disk[o]
    BY <1>0 DEF WorkerEffect
  <1>t. /\ roots \in [Subvolumes -> Roots] /\ mounted \in Subvolumes
        /\ snapshots \in Seq(Snapshots) /\ roots[mounted] \in Roots
    BY DEF TypeInvariant, StoragePart
  <1>g. Grows
    <2>1. e \in Snapshots
      BY <1>t, <1>u DEF Snapshots
    <2> QED BY <1>0, <2>1 DEF WorkerEffect, Grows
  <1>z. worker[w].pc = "zypper" => ~Signed(op)
    BY DEF ReplayInvariant, WorkerUnfinished
  <1>c. RootsCopied
    <2>1. CASE worker[w].pc = "zypper"
      BY <1>0, <1>u, <1>z, <2>1, CopiesOnly DEF WorkerEffect
    <2>2. CASE worker[w].pc # "zypper"
      BY <1>0, <1>u, <2>2, CopiesOnly DEF WorkerEffect
    <2> QED BY <2>1, <2>2
  <1>s. ASSUME NEW o \in Ops, Spent(o) PROVE Spent(o)' /\ o # op
    <2>1. o # op
      BY <1>s, <1>u DEF Spent
    <2>2. \A v \in Workers : worker'[v].pc # "idle" => worker'[v].op # o
      BY <1>s, <1>u, <2>1 DEF Spent
    <2> QED BY <1>s, <1>u, <2>1, <2>2 DEF Spent
  <1>l. ASSUME NEW o \in Ops, Lost(o) PROVE Lost(o)'
    <2>1. Spent(o)' /\ disk'[o] = disk[o]
      BY <1>l, <1>s, <1>u DEF Lost
    <2> QED BY <1>g, <1>l, <1>u, <2>1, LeadsBackGrows DEF Lost
  <1>1. ModePart' /\ CopyPart'
    BY <1>u DEF RecoveryInvariant, ModePart, CopyPart
  <1>2. BasisPart'
    <2>1. \A n \in DOMAIN snapshots' : snapshots'[n].root.packages = basis'[snapshots'[n].op]
      <3>1. CASE UNCHANGED snapshots
        BY <1>u, <3>1 DEF RecoveryInvariant, BasisPart
      <3>2. CASE worker[w].pc = "create" /\ snapshots' = Append(snapshots, e)
        <4>1. roots[mounted].packages = basis[op]
          BY <3>2 DEF RecoveryInvariant, BasisPart, Installed
        <4>2. \A n \in DOMAIN snapshots' :
                 \/ n \in DOMAIN snapshots /\ snapshots'[n] = snapshots[n]
                 \/ snapshots'[n] = e
          BY <1>t, <3>2
        <4> QED BY <1>u, <4>1, <4>2 DEF RecoveryInvariant, BasisPart
      <3> QED BY <1>0, <3>1, <3>2 DEF WorkerEffect
    <2>2. worker'[w].pc \in {"snapshot", "create"} => Installed' = basis'[worker'[w].op]
      BY <1>0, <1>u DEF WorkerEffect, Installed
    <2>3. ASSUME NEW v \in Workers \ {w}, worker'[v].pc \in {"snapshot", "create"}
          PROVE  Installed' = basis'[worker'[v].op]
      <3>1. lock = v /\ Installed = basis[worker[v].op]
        BY <1>u, <2>3 DEF LockInv, WorkersHold, HoldsLock, RecoveryInvariant, BasisPart
      <3>2. worker[w].pc # "zypper"
        BY <3>1 DEF LockInv, WorkersHold, HoldsLock
      <3>3. UNCHANGED roots \/ \E m : SetMarker(m)
        BY <1>0, <3>2 DEF WorkerEffect
      <3>4. Installed' = Installed
        BY <1>u, <3>3, PackagesKept
      <3> QED BY <1>u, <3>1, <3>4
    <2> QED BY <2>1, <2>2, <2>3 DEF BasisPart
  <1>3. HerePart'
    <2>1. mode = "up"
      BY <1>u DEF SnapshotInvariant, QuietPart, TypeInvariant, RestPart
    <2> QED BY <1>u, <2>1 DEF RecoveryInvariant, ModePart, HerePart, UnderWay
  <1>4. Lasting
    BY <1>s, <1>l DEF Lasting
  <1>5. SpentPart' /\ AlikePart' /\ OutagePart'
    BY <1>4, <1>c, RootsKept DEF RecoveryInvariant
  <1> QED BY <1>s, <1>1, <1>2, <1>3, <1>5 DEF RecoveryInvariant, SpentStays

\* The request handlers: what they write for a spent operation leaves it spent,
\* and a lost one on record.
LEMMA SessionStepRecovery ==
    ASSUME TypeInvariant, LockInv, SnapshotInvariant, RecoveryInvariant, NEW s \in Sessions,
           SessionRequest(s) \/ SessionProgress(s) \/ SessionDies(s)
    PROVE  RecoveryInvariant' /\ SpentStays
  <1> DEFINE op == session[s].op
             mem == session[s].mem
  <1>0. SessionEffect(s)
    BY SessionEffects DEF RecoveryInvariant, SnapshotInvariant
  <1>u. /\ UNCHANGED <<offline, verifier, mode, mounted, snapshots>> /\ mode = "up"
        /\ \A t \in Sessions \ {s} : session'[t] = session[t]
    BY <1>0 DEF SessionEffect
  <1>t. /\ roots \in [Subvolumes -> Roots] /\ mounted \in Subvolumes
        /\ snapshots \in Seq(Snapshots) /\ Len(snapshots) \in Nat
        /\ DOMAIN snapshots = 1..Len(snapshots)
        /\ clones \in Nat /\ MaxClones \in Nat /\ mem.snapshot_number \in 0..Len(snapshots)
        /\ disk \in [Ops -> Records] /\ basis \in [Ops -> Packages]
    BY MachineAssumption
    DEF TypeInvariant, StoragePart, Subvolumes, SessionPart, Known, DiskPart, FilesPart
  <1>d. ASSUME NEW o \in Ops
        PROVE  \/ disk'[o] = disk[o]
               \/ op = o /\ session[s].pc \in {"create", "cancel"}
               \/ /\ op = o /\ session[s].pc \in {"keep", "intent", "rollback", "selected"}
                  /\ disk'[o].snapshot_number = mem.snapshot_number
                  /\ \/ disk'[o].state \in {"NeedsRecovery", "Failed"}
                     \/ disk'[o].state = "AwaitingReboot" /\ disk'[o].goal
    BY <1>0, <1>t DEF SessionEffect, RecordWritten
  <1>c. RootsCopied
    <2>1. CASE UNCHANGED roots
      BY <1>u, <2>1, CopiesOnly
    <2>2. CASE /\ session[s].pc = "rollback" /\ clones < MaxClones
               /\ roots' = [roots EXCEPT ![clones + 1] = snapshots[mem.snapshot_number].root]
      <3>1. mem.snapshot_number \in DOMAIN snapshots
        BY <1>t, <2>2 DEF TypeInvariant, SessionPart
      <3>2. clones + 1 \in Subvolumes
        BY <1>t, <2>2 DEF Subvolumes
      <3> QED BY <1>u, <2>2, <3>1, <3>2, CopiesOnly
    <2> QED BY <1>0, <2>1, <2>2 DEF SessionEffect, CloneMade
  <1>s. ASSUME NEW o \in Ops, Spent(o) PROVE Spent(o)'
    <2>1. disk'[o].state \in SpentStates
      BY <1>d, <1>s DEF Spent, SpentStates
    <2>2. \A v \in Workers : worker'[v].pc # "idle" => worker'[v].op # o
      <3>1. CASE UNCHANGED worker
        BY <1>s, <3>1 DEF Spent
      <3>2. ASSUME NEW w \in Workers, disk[op].state = "AwaitingConfirmation",
                   worker'[w].op = op, \A v \in Workers \ {w} : worker'[v] = worker[v]
            PROVE  \A v \in Workers : worker'[v].pc # "idle" => worker'[v].op # o
        <4>1. op # o
          BY <1>s, <3>2 DEF Spent, SpentStates
        <4> QED BY <1>s, <3>2, <4>1 DEF Spent
      <3> QED BY <1>0, <3>1, <3>2 DEF SessionEffect, ThreadSpawned
    <2>3. \A t \in Sessions : session'[t].pc \in {"create", "cancel"} => session'[t].op # o
      <3>1. session'[s].pc \in {"create", "cancel"} => session'[s].op # o
        BY <1>0, <1>s DEF SessionEffect, RequestMoved, Spent
      <3> QED BY <1>s, <1>u, <3>1 DEF Spent
    <2> QED BY <2>1, <2>2, <2>3 DEF Spent
  <1>b. \A o, r : LeadsBack(o, r)' <=> LeadsBack(o, r)
    BY <1>u DEF LeadsBack, CleanSnapshot
  <1>l. ASSUME NEW o \in Ops, Lost(o) PROVE Lost(o)'
    <2>0. Spent(o)' /\ Spent(o) /\ Kind[o] = "ReleaseUpgrade"
      BY <1>l, <1>s DEF Lost
    <2>1. \/ disk'[o] = disk[o]
          \/ /\ op = o /\ session[s].pc \in {"keep", "intent", "rollback", "selected"}
             /\ disk'[o].snapshot_number = mem.snapshot_number
             /\ \/ disk'[o].state \in {"NeedsRecovery", "Failed"}
                \/ disk'[o].state = "AwaitingReboot" /\ disk'[o].goal
      BY <1>d, <2>0 DEF Spent
    <2>2. LeadsBack(o, disk[o])'
      BY <1>b, <1>l, <2>1 DEF Lost, LeadsBack
    <2>3. disk'[o].goal \/ disk'[o].state \in {"ApplyingOffline", "NeedsRecovery", "Failed"}
      BY <1>l, <2>1 DEF Lost
    <2>4. ASSUME NEW t \in Sessions, session'[t].op = o,
                 session'[t].pc \in {"keep", "intent", "rollback", "selected"}
          PROVE  LeadsBack(o, session[t].mem)'
      <3>1. CASE t # s
        BY <1>b, <1>l, <1>u, <2>4, <3>1 DEF Lost
      <3>2. CASE t = s /\ session'[s].pc \in {"keep", "intent"}
        <4>1. session'[s].mem = disk[o]
          BY <1>0, <2>4, <3>2 DEF SessionEffect, RequestMoved
        <4> QED BY <1>b, <1>l, <3>2, <4>1 DEF Lost
      <3>3. CASE t = s /\ session'[s].pc \in {"rollback", "selected"}
        <4>1. /\ session'[s].mem.snapshot_number = mem.snapshot_number
              /\ op = o /\ session[s].pc \in {"intent", "rollback"}
          BY <1>0, <2>4, <3>3 DEF SessionEffect, RequestMoved
        <4> QED BY <1>b, <1>l, <3>3, <4>1 DEF Lost, LeadsBack
      <3> QED BY <2>4, <3>1, <3>2, <3>3
    <2>5. /\ o \in verifier'.todo => LeadsBack(o, verifier.scanned[o])'
          /\ verifier'.op = o => verifier'.mem.goal /\ LeadsBack(o, verifier.mem)'
          /\ offline'.op = o => offline'.pc \notin {"revalidate", "zypper", "repositories", "finish"}
      BY <1>b, <1>l, <1>u DEF Lost
    <2> QED BY <2>0, <2>2, <2>3, <2>4, <2>5 DEF Lost
  <1>1. ModePart' /\ HerePart'
    BY <1>u DEF RecoveryInvariant, ModePart, HerePart, UnderWay
  <1>2. CopyPart'
    <2>1. /\ session'[s].pc = "intent" => session'[s].mem.state = "NeedsRecovery"
          /\ session'[s].pc \in {"rollback", "selected"} => session'[s].mem.goal
      BY <1>0 DEF SessionEffect, RequestMoved
    <2> QED BY <1>u, <2>1 DEF RecoveryInvariant, CopyPart
  <1>3. BasisPart'
    <2>1. \A o \in Ops : basis'[o] = basis[o] \/ starts[o] = 0
      BY <1>0, <1>t DEF SessionEffect, PlanConfirmed
    <2>2. \A n \in DOMAIN snapshots : snapshots[n].op \in Ops /\ starts[snapshots[n].op] # 0
      <3>1. \A n \in DOMAIN snapshots : snapshots[n] \in Snapshots
        BY <1>t
      <3> QED BY <3>1 DEF SnapshotInvariant, StorageClean, Snapshots
    <2>3. \A v \in Workers : worker[v].pc # "idle" => worker[v].op \in Ops /\ starts[worker[v].op] # 0
      BY DEF SnapshotInvariant, WorkerClean, ThreadIsClean, TypeInvariant, WorkerPart
    <2>4. \A v \in Workers : worker'[v].pc \in {"snapshot", "create"} => worker'[v] = worker[v]
      BY <1>0 DEF SessionEffect, ThreadSpawned
    <2>5. Installed' = Installed \/ \A v \in Workers : worker'[v].pc \notin {"snapshot", "create"}
      <3>1. CASE UNCHANGED roots
        BY <1>u, <3>1 DEF Installed
      <3>2. CASE session[s].pc = "rollback"
        BY <2>4, <3>2, MachineAssumption DEF LockInv, SessionsHold, WorkersHold, HoldsLock
      <3> QED BY <1>0, <3>1, <3>2 DEF SessionEffect, CloneMade
    <2> QED BY <1>u, <2>1, <2>2, <2>3, <2>4, <2>5 DEF RecoveryInvariant, BasisPart
  <1>4. Lasting
    BY <1>s, <1>l DEF Lasting
  <1>5. SpentPart' /\ AlikePart' /\ OutagePart'
    BY <1>4, <1>c, RootsKept DEF RecoveryInvariant
  <1> QED BY <1>s, <1>1, <1>2, <1>3, <1>5 DEF RecoveryInvariant, SpentStays

\* The offline worker writes op's packages or repositories to the mounted root,
\* the only one that contains anything of op.
LEMMA MountedWritten ==
    ASSUME TypeInvariant, SpentPart, AlikePart, OutagePart, NEW op \in Ops,
           OldElsewhere(op), UNCHANGED <<mounted, snapshots>>,
           \A v \in Subvolumes \ {mounted} : roots'[v] = roots[v],
           roots'[mounted].packages[op] # "old",
           \A o \in Ops \ {op} : roots'[mounted].packages[o] = roots[mounted].packages[o],
           Kind[op] = "ReleaseUpgrade" \/ roots'[mounted].live = roots[mounted].live,
           \A o \in Ops : Spent(o) => Spent(o)', Spent(op),
           \A o \in Ops \ {op} : Lost(o) => Lost(o)',
           ~roots'[mounted].live => \/ Lost(op)' /\ roots'[mounted].packages[op] = "new"
                                    \/ ~roots[mounted].live /\ ~Lost(op)
    PROVE  SpentPart' /\ AlikePart' /\ OutagePart'
  <1> DEFINE M == roots[mounted]
             N == roots'[mounted]
  <1>0. mounted \in Subvolumes /\ M \in AllRoots
    BY RootsAre DEF TypeInvariant, StoragePart
  <1>1. \A R \in AllRoots' : R = N \/ (R \in AllRoots /\ R.packages[op] = "old")
    BY RootsAre DEF OldElsewhere
  <1>2. SpentPart'
    <2>1. \A o \in Ops : Signed(o) /\ N.packages[o] # "old" => Spent(o)'
      BY <1>0 DEF SpentPart
    <2> HIDE DEF N
    <2> QED BY <1>1, <2>1 DEF SpentPart
  <1>3. AlikePart'
    <2> DEFINE Agree(R, Q) ==
                  \A o \in Ops : Kind[o] = "ReleaseUpgrade" => R.packages[o] = Q.packages[o]
    <2>1. ASSUME NEW Q \in AllRoots, Q.packages[op] = "old", Agree(N, Q)
          PROVE  N.live = Q.live
      <3>1. Kind[op] # "ReleaseUpgrade"
        BY <2>1
      <3>2. Agree(M, Q)
        BY <2>1, <3>1
      <3> QED BY <1>0, <2>1, <3>1, <3>2 DEF AlikePart
    <2> SUFFICES ASSUME NEW R \in AllRoots', NEW Q \in AllRoots', Agree(R, Q)
                 PROVE  R.live = Q.live
      BY DEF AlikePart
    <2>2. CASE R = N /\ Q = N
      BY <2>2
    <2>3. CASE R = N /\ Q \in AllRoots /\ Q.packages[op] = "old"
      BY <2>1, <2>3
    <2>4. CASE Q = N /\ R \in AllRoots /\ R.packages[op] = "old"
      <3>1. Agree(N, R)
        BY <2>4
      <3> QED BY <2>1, <2>4, <3>1
    <2>5. CASE R \in AllRoots /\ Q \in AllRoots
      BY <2>5 DEF AlikePart
    <2> QED BY <1>1, <2>2, <2>3, <2>4, <2>5
  <1>4. OutagePart'
    <2>1. ASSUME NEW R \in AllRoots, R.packages[op] = "old", ~R.live
          PROVE  \E o \in Ops : R.packages[o] = "new" /\ Lost(o)'
      <3>1. PICK o \in Ops : R.packages[o] = "new" /\ Lost(o)
        BY <2>1 DEF OutagePart
      <3>2. o # op
        BY <2>1, <3>1
      <3> QED BY <3>1, <3>2
    <2>2. ASSUME ~N.live PROVE \E o \in Ops : N.packages[o] = "new" /\ Lost(o)'
      <3>1. CASE Lost(op)' /\ N.packages[op] = "new"
        BY <3>1
      <3>2. CASE ~M.live /\ ~Lost(op)
        <4>1. PICK o \in Ops : M.packages[o] = "new" /\ Lost(o)
          BY <1>0, <3>2 DEF OutagePart
        <4>2. o # op
          BY <3>2, <4>1
        <4> QED BY <4>1, <4>2
      <3> QED BY <2>2, <3>1, <3>2
    <2> HIDE DEF N
    <2> QED BY <1>1, <2>1, <2>2 DEF OutagePart
  <1> QED BY <1>2, <1>3, <1>4

\* The offline worker.  LoadStaged finds an operation that is not spent, so no
\* root holds any of it; Revalidate ties the mounted root to the snapshot.
LEMMA OfflineStepRecovery ==
    ASSUME TypeInvariant, SnapshotInvariant, RecoveryInvariant, OfflineProgress
    PROVE  RecoveryInvariant'
  <1> DEFINE op == offline.op
             mem == offline.mem
             target == snapshots[disk[op].snapshot_number].root
             Bad == {"revalidate", "zypper", "repositories", "finish"}
             Open(o) == disk[o].goal \/ disk[o].state \in {"ApplyingOffline", "NeedsRecovery", "Failed"}
  <1>0. /\ mode = "offline" /\ mem \in Records
        /\ offline.pc \notin {"idle", "resolve", "stopped", "stranded"} => op \in Ops
        /\ UNCHANGED <<worker, session, verifier, snapshots, basis, mounted>>
    BY DEF OfflineProgress, Resolve, LoadStaged, Revalidate, OfflineZypperWrites,
       OfflineZypperDone, MoveRepositoriesAway, InstallRepositories, SwapFails, PersistApplied,
       RemoveMarker, OfflineFails, MarkRecovery, RecoveryRefused, OfflineReboot, RebootFails,
       RebootRefused, SystemUpdateCleanup, OfflineAt, TypeInvariant, OfflinePart, OfflineStates,
       OnlyOffline, files, storage, platform, processes
  <1>q. /\ \A w \in Workers : worker[w].pc = "idle"
        /\ \A s \in Sessions : session[s].pc = "idle"
        /\ verifier.pc = "idle" /\ verifier.op = NoOp /\ verifier.todo = {} /\ NoOp \notin Ops
    BY <1>0, MachineAssumption DEF SnapshotInvariant, QuietPart, RecoveryInvariant, ModePart
  <1>t. /\ roots \in [Subvolumes -> Roots] /\ mounted \in Subvolumes /\ roots[mounted] \in Roots
        /\ roots[mounted] \in AllRoots /\ disk \in [Ops -> Records]
        /\ roots[mounted].packages \in [Ops -> Progress]
    BY RootsAre DEF TypeInvariant, StoragePart, DiskPart, Roots, Packages
  \* With nobody else running, an operation is what its record says.
  <1>S. \A o \in Ops : /\ Spent(o) <=> disk[o].state \in SpentStates
                       /\ Spent(o)' <=> disk'[o].state \in SpentStates
    BY <1>0, <1>q DEF Spent
  <1>B. \A o, r : LeadsBack(o, r)' <=> LeadsBack(o, r)
    BY <1>0 DEF LeadsBack, CleanSnapshot
  <1>L. \A o \in Ops :
           /\ Lost(o) <=> /\ Kind[o] = "ReleaseUpgrade" /\ Spent(o) /\ LeadsBack(o, disk[o])
                          /\ Open(o) /\ (offline.op = o => offline.pc \notin Bad)
           /\ Lost(o)' <=> /\ Kind[o] = "ReleaseUpgrade" /\ Spent(o)' /\ LeadsBack(o, disk'[o])
                           /\ Open(o)' /\ (offline'.op = o => offline'.pc \notin Bad)
    BY <1>0, <1>q, <1>B DEF Lost
  <1> HIDE DEF Open
  \* The parts that do not depend on the worker.
  <1>r. ASSUME offline'.pc # "idle" => mode' = "offline" PROVE ModePart' /\ BasisPart' /\ CopyPart'
    BY <1>r, <1>0, <1>q DEF RecoveryInvariant, ModePart, BasisPart, CopyPart
  <1>n. offline'.pc \notin UnderWay => HerePart'
    BY DEF HerePart
  <1>o. /\ OldElsewhere(op)' <=> /\ \A v \in Subvolumes \ {mounted} : roots'[v].packages[offline'.op] = "old"
                                 /\ \A n \in DOMAIN snapshots : snapshots[n].root.packages[offline'.op] = "old"
    BY <1>0 DEF OldElsewhere
  \* The roots stay, the records stay, and the worker does not go back.
  <1>k. ASSUME UNCHANGED disk, UNCHANGED roots \/ \E m : SetMarker(m),
               offline'.pc \notin Bad \/ (offline'.op = op /\ offline.pc \in Bad)
        PROVE  SpentPart' /\ AlikePart' /\ OutagePart'
    <2>1. RootsCopied
      BY <1>0, <1>k, CopiesOnly
    <2>2. \A o \in Ops : Open(o)' <=> Open(o)
      BY <1>k DEF Open
    <2>3. Lasting
      BY <1>k, <1>S, <1>L, <2>2 DEF Lasting
    <2> QED BY <2>1, <2>3, RootsKept DEF RecoveryInvariant
  <1>f. /\ \A pc : OfflineGoto(pc) => offline'.pc = pc /\ offline'.op = op
        /\ \A pc, r : offline' = [offline EXCEPT !.pc = pc, !.mem = r]
                          => offline'.pc = pc /\ offline'.op = op
    BY OfflineFields
  <1>h. offline.pc \in UnderWay => /\ OfflineRuns(op) /\ op \in Ops
                                   /\ CleanSnapshot(op, disk[op].snapshot_number)
                                   /\ target \in AllRoots /\ target.packages = basis[op]
    <2> SUFFICES ASSUME offline.pc \in UnderWay
                 PROVE  /\ OfflineRuns(op) /\ op \in Ops
                        /\ CleanSnapshot(op, disk[op].snapshot_number)
                        /\ target \in AllRoots /\ target.packages = basis[op]
      OBVIOUS
    <2>1. OfflineRuns(op) /\ op \in Ops
      BY <1>0 DEF RecoveryInvariant, HerePart, UnderWay
    <2>2. CleanSnapshot(op, disk[op].snapshot_number)
      BY <2>1 DEF OfflineRuns, SnapshotInvariant, DiskClean, CleanTarget
    <2> QED BY <2>1, <2>2, RootsAre DEF CleanSnapshot, RecoveryInvariant, BasisPart
  <1>p. ASSUME NEW p, SetPackages(op, p), op \in Ops
        PROVE  /\ \A v \in Subvolumes \ {mounted} : roots'[v] = roots[v]
               /\ roots'[mounted].packages[op] = p
               /\ \A o \in Ops \ {op} : roots'[mounted].packages[o] = roots[mounted].packages[o]
               /\ roots'[mounted].live = roots[mounted].live
    BY <1>p, <1>t DEF SetPackages, Roots
  <1>e. ASSUME NEW x, NEW l, SetRepositories(x, l)
        PROVE  /\ \A v \in Subvolumes \ {mounted} : roots'[v] = roots[v]
               /\ roots'[mounted].packages = roots[mounted].packages
               /\ roots'[mounted].live = l
    BY <1>e, <1>t DEF SetRepositories, Roots
  <1> HIDE DEF target
  <1>1. CASE Resolve
    <2>1. /\ offline'.pc \in {"load", "stopped"} /\ UNCHANGED <<disk, roots, mode>>
      BY <1>1 DEF Resolve, IdleOffline, storage, platform
    <2> QED BY <1>0, <1>k, <1>n, <1>r, <2>1 DEF RecoveryInvariant, UnderWay
  <1>2. CASE LoadStaged
    <2> DEFINE r == TransitionTo(disk[op], "ApplyingOffline")
    <2>1. /\ op \in Ops /\ disk[op].state = "ReadyToReboot" /\ disk[op].snapshot_number # 0
          /\ CanTransition(Kind[op], disk[op], "ApplyingOffline")
          /\ UNCHANGED <<roots, mode>>
      BY <1>0, <1>2 DEF LoadStaged, OfflineAt, storage, platform
    <2>2. Signed(op)
      BY <2>1 DEF CanTransition, ValidTransition, ForwardEdges, Signed
    <2>3. /\ r.state = "ApplyingOffline" /\ r.snapshot_number = disk[op].snapshot_number
      BY <1>t, <2>1, TransitionType, TransitionFields DEF States
    <2>4. disk' = [disk EXCEPT ![op] = r] /\ offline' = [offline EXCEPT !.pc = "revalidate", !.mem = r]
      BY <1>2 DEF LoadStaged, SaveState
    <2> HIDE DEF r
    <2>5. offline'.pc = "revalidate" /\ offline'.op = op
      BY <1>f, <2>4
    <2>6. /\ disk'[op] = r /\ \A o \in Ops \ {op} : disk'[o] = disk[o]
      BY <1>t, <2>1, <2>4
    <2>7. ~Spent(op)
      BY <1>S, <2>1 DEF SpentStates
    <2>8. \A R \in AllRoots : R.packages[op] = "old"
      BY <2>1, <2>2, <2>7 DEF RecoveryInvariant, SpentPart
    <2>9. Spent(op)' /\ \A o \in Ops : Spent(o) => Spent(o)'
      BY <1>S, <2>1, <2>3, <2>5, <2>6 DEF SpentStates
    <2>10. \A o \in Ops \ {op} : Open(o)' <=> Open(o)
      BY <2>6 DEF Open
    <2>11. ASSUME NEW o \in Ops, Lost(o) PROVE Lost(o)'
      <3>1. o # op
        BY <1>L, <2>7, <2>11
      <3> QED BY <1>L, <2>5, <2>6, <2>9, <2>10, <2>11, <3>1
    <2>12. SpentPart' /\ AlikePart' /\ OutagePart'
      <3>1. RootsCopied
        BY <1>0, <2>1, CopiesOnly
      <3> QED BY <2>9, <2>11, <3>1, RootsKept DEF RecoveryInvariant, Lasting
    <2>13. HerePart'
      <3>1. OldElsewhere(op)' /\ Installed'[op] = "old"
        BY <1>0, <1>o, <1>t, <2>1, <2>5, <2>8, RootsAre DEF Installed
      <3> QED BY <2>1, <2>2, <2>3, <2>5, <2>6, <2>9, <3>1 DEF HerePart, OfflineRuns, Signed
    <2> QED BY <1>0, <1>r, <2>1, <2>12, <2>13 DEF RecoveryInvariant
  <1>3. CASE Revalidate
    <2>1. /\ offline.pc = "revalidate" /\ Installed = basis[op] /\ UNCHANGED <<disk, roots, mode>>
          /\ offline'.pc = "zypper" /\ offline'.op = op
      BY <1>3, <1>f DEF Revalidate, OfflineAt, PlanStillHolds, storage, platform
    <2>2. OfflineRuns(op) /\ op \in Ops /\ target \in AllRoots /\ target.packages = basis[op]
      BY <1>h, <2>1 DEF UnderWay
    <2>3. roots[mounted].live = target.live
      BY <1>t, <2>1, <2>2 DEF RecoveryInvariant, AlikePart, Installed
    <2>4. Spent(op)' /\ OldElsewhere(op)'
      BY <1>0, <1>S, <1>o, <2>1, <2>2 DEF OfflineRuns, OldElsewhere
    <2>5. HerePart'
      BY <1>0, <2>1, <2>2, <2>3, <2>4 DEF HerePart, OfflineRuns, target, Signed
    <2> QED BY <1>0, <1>k, <1>r, <2>1, <2>5 DEF RecoveryInvariant
  <1>4. CASE OfflineZypperWrites
    <2>1. /\ offline.pc = "zypper" /\ SetPackages(op, "partial") /\ UNCHANGED <<disk, offline, mode>>
      BY <1>4 DEF OfflineZypperWrites, OfflineAt, processes, platform
    <2>2. OfflineRuns(op) /\ op \in Ops
      BY <1>h, <2>1 DEF UnderWay
    <2>3. \A o \in Ops : Open(o)' <=> Open(o)
      BY <2>1 DEF Open
    <2>4. Lasting /\ ~Lost(op)
      BY <1>S, <1>L, <2>1, <2>2, <2>3 DEF Lasting
    <2>5. SpentPart' /\ AlikePart' /\ OutagePart'
      BY <1>0, <1>p, <2>1, <2>2, <2>4, MountedWritten
      DEF RecoveryInvariant, OfflineRuns, Lasting
    <2>6. Spent(op)' /\ OldElsewhere(op)'
      BY <1>0, <1>S, <1>o, <1>p, <2>1, <2>2 DEF OfflineRuns, OldElsewhere
    <2>7. HerePart'
      BY <1>0, <1>p, <2>1, <2>2, <2>6 DEF HerePart, OfflineRuns, Signed
    <2> QED BY <1>0, <1>r, <2>1, <2>5, <2>7 DEF RecoveryInvariant
  <1>5. CASE OfflineZypperDone
    <2>1. /\ offline.pc = "zypper" /\ SetPackages(op, "new") /\ UNCHANGED <<disk, mode>>
          /\ offline'.op = op
          /\ offline'.pc = IF Kind[op] = "ReleaseUpgrade" THEN "repositories" ELSE "finish"
      BY <1>5, <1>f DEF OfflineZypperDone, OfflineAt, platform
    <2>2. OfflineRuns(op) /\ op \in Ops
      BY <1>h, <2>1 DEF UnderWay
    <2>3. \A o \in Ops : Open(o)' <=> Open(o)
      BY <2>1 DEF Open
    <2>4. Lasting /\ ~Lost(op)
      BY <1>S, <1>L, <2>1, <2>2, <2>3 DEF Lasting
    <2>5. SpentPart' /\ AlikePart' /\ OutagePart'
      BY <1>0, <1>p, <2>1, <2>2, <2>4, MountedWritten
      DEF RecoveryInvariant, OfflineRuns, Lasting
    <2>6. Spent(op)' /\ OldElsewhere(op)'
      BY <1>0, <1>S, <1>o, <1>p, <2>1, <2>2 DEF OfflineRuns, OldElsewhere
    <2>7. HerePart'
      BY <1>0, <1>p, <2>1, <2>2, <2>6 DEF HerePart, OfflineRuns, Signed, UnderWay, Installed
    <2> QED BY <1>0, <1>r, <2>1, <2>5, <2>7 DEF RecoveryInvariant
  <1>6. CASE MoveRepositoriesAway
    <2>1. /\ offline.pc = "repositories" /\ SetRepositories(roots[mounted].repositories, FALSE)
          /\ UNCHANGED <<disk, mode>> /\ offline'.op = op /\ offline'.pc = "swap"
          /\ roots[mounted].live
      BY <1>6, <1>f DEF MoveRepositoriesAway, OfflineAt, platform
    <2>2. /\ OfflineRuns(op) /\ op \in Ops /\ CleanSnapshot(op, disk[op].snapshot_number)
          /\ target.live
      BY <1>h, <2>1 DEF UnderWay, OfflineRuns, target
    <2>3. \A o \in Ops : Open(o)' <=> Open(o)
      BY <2>1 DEF Open
    <2>4. Lasting /\ ~Lost(op)
      BY <1>S, <1>L, <2>1, <2>2, <2>3 DEF Lasting
    <2>5. Lost(op)'
      <3>1. Open(op)' /\ LeadsBack(op, disk[op])
        BY <2>1, <2>2 DEF Open, LeadsBack, OfflineRuns, target
      <3> QED BY <1>S, <1>L, <2>1, <2>2, <3>1 DEF OfflineRuns
    <2>6. SpentPart' /\ AlikePart' /\ OutagePart'
      BY <1>0, <1>e, <2>1, <2>2, <2>4, <2>5, MountedWritten
      DEF RecoveryInvariant, OfflineRuns, Lasting, Installed
    <2>7. Spent(op)' /\ OldElsewhere(op)'
      BY <1>0, <1>S, <1>o, <1>e, <2>1, <2>2 DEF OfflineRuns, OldElsewhere
    <2>8. HerePart'
      BY <1>0, <1>e, <2>1, <2>2, <2>7 DEF HerePart, OfflineRuns, Signed, Installed, target
    <2> QED BY <1>0, <1>r, <2>1, <2>6, <2>8 DEF RecoveryInvariant
  <1>7. CASE InstallRepositories
    <2>1. /\ offline.pc = "swap" /\ SetRepositories(op, TRUE)
          /\ UNCHANGED <<disk, mode>> /\ offline'.op = op /\ offline'.pc = "finish"
      BY <1>7, <1>f DEF InstallRepositories, OfflineAt, platform
    <2>2. OfflineRuns(op) /\ op \in Ops
      BY <1>h, <2>1 DEF UnderWay
    <2>3. \A o \in Ops : Open(o)' <=> Open(o)
      BY <2>1 DEF Open
    <2>4. /\ \A o \in Ops : Spent(o) => Spent(o)'
          /\ \A o \in Ops \ {op} : Lost(o) => Lost(o)'
      <3>1. \A o \in Ops : Spent(o) => Spent(o)'
        BY <1>S, <2>1
      <3>2. ASSUME NEW o \in Ops \ {op}, Lost(o) PROVE Lost(o)'
        <4>1. offline'.op # o
          BY <2>1, <3>2
        <4> QED BY <1>L, <2>1, <2>3, <3>1, <3>2, <4>1
      <3> QED BY <3>1, <3>2
    <2>5. SpentPart' /\ AlikePart' /\ OutagePart'
      <3>1. /\ \A v \in Subvolumes \ {mounted} : roots'[v] = roots[v]
            /\ roots'[mounted].packages = roots[mounted].packages /\ roots'[mounted].live
        BY <1>e, <2>1
      <3>2. /\ roots[mounted].packages[op] = "new" /\ Kind[op] = "ReleaseUpgrade"
            /\ OldElsewhere(op) /\ Spent(op)
        BY <2>1, <2>2 DEF OfflineRuns, Installed
      <3> QED BY <1>0, <2>2, <2>4, <3>1, <3>2, MountedWritten DEF RecoveryInvariant
    <2> QED BY <1>0, <1>n, <1>r, <2>1, <2>5 DEF RecoveryInvariant, UnderWay
  <1>8. CASE SwapFails
    <2>1. PICK l \in BOOLEAN : SetRepositories(roots[mounted].repositories, l)
      BY <1>8 DEF SwapFails
    <2>2. /\ offline.pc = "swap"
          /\ UNCHANGED <<disk, mode>> /\ offline'.op = op /\ offline'.pc = "recover"
      BY <1>8, <1>f DEF SwapFails, OfflineAt, platform
    <2>3. /\ OfflineRuns(op) /\ op \in Ops /\ CleanSnapshot(op, disk[op].snapshot_number)
          /\ target.live
      BY <1>h, <2>2 DEF UnderWay, OfflineRuns, target
    <2>4. \A o \in Ops : Open(o)' <=> Open(o)
      BY <2>2 DEF Open
    <2>5. Lasting
      BY <1>S, <1>L, <2>2, <2>3, <2>4 DEF Lasting
    <2>6. Lost(op)'
      <3>1. Open(op)' /\ LeadsBack(op, disk[op])
        BY <2>2, <2>3 DEF Open, LeadsBack, OfflineRuns, target
      <3> QED BY <1>S, <1>L, <2>2, <2>3, <3>1 DEF OfflineRuns
    <2>7. SpentPart' /\ AlikePart' /\ OutagePart'
      BY <1>0, <1>e, <2>1, <2>2, <2>3, <2>5, <2>6, MountedWritten
      DEF RecoveryInvariant, OfflineRuns, Lasting, Installed
    <2> QED BY <1>0, <1>n, <1>r, <2>2, <2>7 DEF RecoveryInvariant, UnderWay
  <1>9. CASE PersistApplied
    <2> DEFINE r == TransitionTo(mem, "AwaitingReboot")
    <2>1. op \in Ops /\ offline.pc = "finish" /\ UNCHANGED <<roots, mode>>
      BY <1>0, <1>9 DEF PersistApplied, OfflineAt, storage, platform
    <2>2. r.state = "AwaitingReboot"
      BY <1>0, TransitionFields
    <2>3. disk' = [disk EXCEPT ![op] = r] /\ offline' = [offline EXCEPT !.pc = "unmark", !.mem = r]
      BY <1>9 DEF PersistApplied, SaveState
    <2> HIDE DEF r
    <2>4. offline'.pc = "unmark" /\ offline'.op = op
      BY <1>f, <2>3
    <2>5. disk'[op] = r /\ \A o \in Ops \ {op} : disk'[o] = disk[o]
      BY <1>t, <2>1, <2>3
    <2>6. \A o \in Ops : Spent(o) => Spent(o)'
      BY <1>S, <2>2, <2>5 DEF SpentStates
    <2>7. \A o \in Ops \ {op} : Open(o)' <=> Open(o)
      BY <2>5 DEF Open
    <2>8. ASSUME NEW o \in Ops, Lost(o) PROVE Lost(o)'
      <3>1. o # op
        BY <1>L, <2>1, <2>8
      <3> QED BY <1>L, <2>4, <2>5, <2>6, <2>7, <2>8, <3>1
    <2>9. SpentPart' /\ AlikePart' /\ OutagePart'
      <3>1. RootsCopied
        BY <1>0, <2>1, CopiesOnly
      <3> QED BY <2>6, <2>8, <3>1, RootsKept DEF RecoveryInvariant, Lasting
    <2> QED BY <1>0, <1>n, <1>r, <2>1, <2>4, <2>9 DEF RecoveryInvariant, UnderWay
  <1>10. CASE RemoveMarker
    <2>1. /\ offline'.pc = "reboot" /\ UNCHANGED <<disk, mode>> /\ SetMarker(NoOp)
      BY <1>10, <1>f DEF RemoveMarker, platform
    <2> QED BY <1>0, <1>k, <1>n, <1>r, <2>1 DEF RecoveryInvariant, UnderWay
  <1>11. CASE OfflineFails
    <2>1. offline'.pc = "recover" /\ UNCHANGED <<disk, mode, roots>>
      BY <1>11, <1>f DEF OfflineFails, storage, platform
    <2> QED BY <1>0, <1>k, <1>n, <1>r, <2>1 DEF RecoveryInvariant, UnderWay
  <1>12. CASE MarkRecovery
    <2> DEFINE r == Settle(disk[op], "NeedsRecovery", "OFFLINE_APPLY_FAILED")
    <2>1. op \in Ops /\ UNCHANGED <<roots, mode>> /\ offline'.pc = "unmarkFailed" /\ offline'.op = op
      BY <1>0, <1>12, <1>f DEF MarkRecovery, OfflineAt, storage, platform
    <2>2. r.state = "NeedsRecovery" /\ r.snapshot_number = disk[op].snapshot_number
      BY <1>t, <2>1, SettleType, SettleFields DEF States, ErrorCodes
    <2>3. disk' = [disk EXCEPT ![op] = r]
      BY <1>12 DEF MarkRecovery, SaveState
    <2> HIDE DEF r
    <2>4. disk'[op] = r /\ \A o \in Ops \ {op} : disk'[o] = disk[o]
      BY <1>t, <2>1, <2>3
    <2>5. \A o \in Ops : Spent(o) => Spent(o)'
      BY <1>S, <2>2, <2>4 DEF SpentStates
    <2>6. \A o \in Ops : Open(o) => Open(o)'
      BY <2>2, <2>4 DEF Open
    <2>7. \A o \in Ops : LeadsBack(o, disk[o]) => LeadsBack(o, disk'[o])
      BY <2>2, <2>4 DEF LeadsBack
    <2>8. Lasting
      BY <1>L, <2>1, <2>5, <2>6, <2>7 DEF Lasting
    <2>9. SpentPart' /\ AlikePart' /\ OutagePart'
      <3>1. RootsCopied
        BY <1>0, <2>1, CopiesOnly
      <3> QED BY <2>8, <3>1, RootsKept DEF RecoveryInvariant
    <2> QED BY <1>0, <1>n, <1>r, <2>1, <2>9 DEF RecoveryInvariant, UnderWay
  <1>13. CASE RecoveryRefused \/ RebootFails \/ RebootRefused
    <2>1. offline'.pc \in {"stopped", "stranded"} /\ UNCHANGED <<disk, mode, roots>>
      BY <1>13, <1>f DEF RecoveryRefused, RebootFails, RebootRefused, storage, platform
    <2> QED BY <1>0, <1>k, <1>n, <1>r, <2>1 DEF RecoveryInvariant, UnderWay
  <1>14. CASE OfflineReboot \/ SystemUpdateCleanup
    <2>1. /\ offline'.pc = "idle" /\ UNCHANGED disk
          /\ UNCHANGED roots \/ SetMarker(NoOp)
      BY <1>14 DEF OfflineReboot, SystemUpdateCleanup, IdleOffline, storage
    <2> QED BY <1>0, <1>k, <1>n, <1>r, <2>1 DEF RecoveryInvariant, UnderWay
  <1> QED
    BY <1>1, <1>2, <1>3, <1>4, <1>5, <1>6, <1>7, <1>8, <1>9, <1>10, <1>11, <1>12, <1>13, <1>14
    DEF OfflineProgress

\* The verifier settles what was interrupted, by what it scanned, and its
\* candidate, by a copy that keeps number and goal.
VerifierEffect ==
    LET op == verifier.op IN
    /\ verifier.pc # "idle"
    /\ UNCHANGED <<worker, session, offline, mode, mounted, basis, roots, clones, default,
                   snapshots, requests>>
    /\ \/ UNCHANGED disk
       \/ \E o \in Ops, r \in Records :
             /\ disk' = [disk EXCEPT ![o] = r] /\ r.state \in SpentStates /\ GoalIsConsistent(r)
             /\ \/ /\ o \in verifier.todo /\ r.goal = verifier.scanned[o].goal
                   /\ r.state = InterruptedState(verifier.scanned[o].state)
                   /\ r.snapshot_number = verifier.scanned[o].snapshot_number
                \/ /\ o = op /\ r.goal = verifier.mem.goal
                   /\ r.snapshot_number = verifier.mem.snapshot_number
                   /\ r.boot_snapshot = verifier.mem.boot_snapshot
                   /\ r.state = "VerifyingBoot" \/ (verifier.pc = "final" /\ r = verifier.mem)
    /\ \/ verifier'.op = NoOp
       \/ /\ verifier'.op = op /\ verifier'.mem.goal = verifier.mem.goal
          /\ verifier'.mem.snapshot_number = verifier.mem.snapshot_number
          /\ verifier'.mem.boot_snapshot = verifier.mem.boot_snapshot
       \/ Candidate(verifier'.op) /\ verifier'.mem = disk[verifier'.op] /\ UNCHANGED disk
    /\ \A o \in verifier'.todo :
          \/ o \in verifier.todo /\ verifier'.scanned[o] = verifier.scanned[o]
          \/ verifier'.scanned[o] = disk[o] /\ UNCHANGED disk
    /\ verifier'.pc \in {"idle", "acquire", "scan"} => verifier'.op = NoOp /\ verifier'.todo = {}
    /\ verifier'.pc = "reconcile" /\ verifier'.op \in Ops =>
           verifier'.mem.state \in {"AwaitingReboot", "VerifyingBoot"}
    /\ verifier'.pc = "final" => verifier'.mem.state \in {"NeedsRecovery", "Completed"}

\* Every step of the verifier, and its death.
LEMMA VerifierEffects ==
    ASSUME TypeInvariant, ModePart, CopyPart, VerifierProgress \/ VerifierDies
    PROVE  VerifierEffect
  <1> DEFINE op == verifier.op
             mem == verifier.mem
             Rest == UNCHANGED <<worker, session, offline, mode, mounted, basis, roots, clones,
                                 default, snapshots, requests>>
             Written ==
                \/ UNCHANGED disk
                \/ \E o \in Ops, r \in Records :
                      /\ disk' = [disk EXCEPT ![o] = r] /\ r.state \in SpentStates
                      /\ GoalIsConsistent(r)
                      /\ \/ /\ o \in verifier.todo /\ r.goal = verifier.scanned[o].goal
                            /\ r.state = InterruptedState(verifier.scanned[o].state)
                            /\ r.snapshot_number = verifier.scanned[o].snapshot_number
                         \/ /\ o = op /\ r.goal = mem.goal
                            /\ r.snapshot_number = mem.snapshot_number
                            /\ r.boot_snapshot = mem.boot_snapshot
                            /\ r.state = "VerifyingBoot" \/ (verifier.pc = "final" /\ r = mem)
             Moves ==
                /\ \/ verifier'.op = NoOp
                   \/ /\ verifier'.op = op /\ verifier'.mem.goal = mem.goal
                      /\ verifier'.mem.snapshot_number = mem.snapshot_number
                      /\ verifier'.mem.boot_snapshot = mem.boot_snapshot
                   \/ Candidate(verifier'.op) /\ verifier'.mem = disk[verifier'.op] /\ UNCHANGED disk
                /\ \A o \in verifier'.todo :
                      \/ o \in verifier.todo /\ verifier'.scanned[o] = verifier.scanned[o]
                      \/ verifier'.scanned[o] = disk[o] /\ UNCHANGED disk
                /\ verifier'.pc \in {"idle", "acquire", "scan"} =>
                       verifier'.op = NoOp /\ verifier'.todo = {}
                /\ verifier'.pc = "reconcile" /\ verifier'.op \in Ops =>
                       verifier'.mem.state \in {"AwaitingReboot", "VerifyingBoot"}
                /\ verifier'.pc = "final" => verifier'.mem.state \in {"NeedsRecovery", "Completed"}
  <1>0. /\ mem \in Records /\ verifier.todo \subseteq Ops /\ verifier \in VerifierStates
        /\ verifier.pc \in {"check", "consume", "replace", "final"} => op \in Ops
        /\ op \in Ops \cup {NoOp} /\ disk \in [Ops -> Records]
        /\ \A o \in Ops : verifier.scanned[o] \in Records
    BY DEF TypeInvariant, VerifierPart, VerifierStates, DiskPart
  <1>q. verifier.pc # "idle" /\ Rest /\ Written /\ Moves => VerifierEffect
    BY DEF VerifierEffect
  <1>e. VerifierExit => Moves
    <2>1. IdleVerifier.pc = "idle" /\ IdleVerifier.op = NoOp /\ IdleVerifier.todo = {}
      BY DEF IdleVerifier
    <2> QED BY <2>1 DEF VerifierExit
  <1>f. ASSUME NEW pc, NEW r,
               \/ verifier' = [verifier EXCEPT !.pc = pc] /\ r = mem
               \/ verifier' = [verifier EXCEPT !.pc = pc, !.mem = r]
        PROVE  /\ verifier'.pc = pc /\ verifier'.op = op /\ verifier'.mem = r
               /\ verifier'.scanned = verifier.scanned /\ verifier'.todo = verifier.todo
    <2>0. /\ {"pc", "op", "mem", "todo", "scanned"} \subseteq DOMAIN verifier
          /\ verifier = [x \in DOMAIN verifier |-> verifier[x]]
      BY <1>0 DEF VerifierStates
    <2>1. CASE verifier' = [verifier EXCEPT !.pc = pc] /\ r = mem
      BY <2>0, <2>1, Zenon
    <2>2. CASE verifier' = [verifier EXCEPT !.pc = pc, !.mem = r]
      BY <2>0, <2>2, Zenon
    <2> QED BY <1>f, <2>1, <2>2
  <1>m. ASSUME NEW pc, NEW r, r.goal = mem.goal, r.snapshot_number = mem.snapshot_number,
               r.boot_snapshot = mem.boot_snapshot,
               \/ verifier' = [verifier EXCEPT !.pc = pc] /\ r = mem
               \/ verifier' = [verifier EXCEPT !.pc = pc, !.mem = r],
               \/ pc \in {"check", "consume", "replace"}
               \/ pc = "final" /\ r.state \in {"NeedsRecovery", "Completed"}
        PROVE  Moves
    <2>1. /\ verifier'.pc = pc /\ verifier'.op = op /\ verifier'.mem = r
          /\ verifier'.scanned = verifier.scanned /\ verifier'.todo = verifier.todo
      BY <1>m, <1>f
    <2> QED BY <1>m, <2>1
  <1>t. \A st \in States, code \in ErrorCodes :
           /\ Settle(mem, st, code) \in Records /\ Settle(mem, st, code).state = st
           /\ Settle(mem, st, code).goal = mem.goal
           /\ Settle(mem, st, code).snapshot_number = mem.snapshot_number
           /\ Settle(mem, st, code).boot_snapshot = mem.boot_snapshot
    BY <1>0, SettleType, SettleFields, KeepsClone
  <1>p. /\ Passed(mem).state = "Completed" /\ Passed(mem).goal = mem.goal
        /\ Passed(mem).snapshot_number = mem.snapshot_number
        /\ Passed(mem).boot_snapshot = mem.boot_snapshot
        /\ Unconsumed(mem).state = "NeedsRecovery" /\ Unconsumed(mem).goal = mem.goal
        /\ Unconsumed(mem).snapshot_number = mem.snapshot_number
        /\ Unconsumed(mem).boot_snapshot = mem.boot_snapshot
    BY <1>t DEF Passed, Unconsumed, States, ErrorCodes
  <1> HIDE DEF Moves
  <1> USE DEF storage, files, platform, OnlyVerifier, VerifierAt, bounds, CountCrash
  <1>1. CASE VerifierAcquire
    <2>1. /\ verifier'.pc = "scan" /\ verifier'.op = op /\ verifier'.mem = mem
          /\ verifier'.scanned = verifier.scanned /\ verifier'.todo = verifier.todo
      BY <1>1, <1>f DEF VerifierAcquire
    <2>2. Moves
      BY <1>1, <2>1 DEF VerifierAcquire, ModePart, Moves
    <2> QED BY <1>1, <1>q, <2>2 DEF VerifierAcquire
  <1>2. CASE VerifierBusy \/ ReconcileRefused \/ NothingPending \/ VerifierDies
    BY <1>2, <1>e, <1>q DEF VerifierBusy, ReconcileRefused, NothingPending, VerifierDies
  <1>3. CASE Scan
    <2>1. PICK o \in Ops \cup {NoOp} :
             /\ o # NoOp => Candidate(o)
             /\ verifier' =
                  [pc |-> "reconcile", op |-> o,
                   mem |-> IF o = NoOp THEN AbsentRecord ELSE disk[o],
                   todo |-> {x \in Ops : Interrupted(x)},
                   scanned |-> [x \in Ops |-> IF Interrupted(x) THEN disk[x] ELSE AbsentRecord]]
      BY <1>3 DEF Scan
    <2>2. /\ verifier'.pc = "reconcile" /\ verifier'.op = o
          /\ o # NoOp => Candidate(o) /\ verifier'.mem = disk[o]
          /\ \A x \in verifier'.todo : verifier'.scanned[x] = disk[x]
      BY <2>1
    <2>3. UNCHANGED disk
      BY <1>3 DEF Scan
    <2>4. Moves
      BY <2>2, <2>3, MachineAssumption DEF Moves, Candidate
    <2> QED BY <1>3, <1>q, <2>4 DEF Scan
  <1>4. CASE Reconcile
    <2>1. PICK o \in verifier.todo :
             /\ SaveState(o, InterruptedRecord(o))
             /\ verifier' = [verifier EXCEPT !.todo = @ \ {o}, !.scanned[o] = AbsentRecord]
      BY <1>4 DEF Reconcile
    <2> DEFINE r == InterruptedRecord(o)
    <2>2. /\ o \in Ops /\ r \in Records /\ r.state = InterruptedState(verifier.scanned[o].state)
          /\ r.state \in {"NeedsRecovery", "Failed"} /\ r.goal = verifier.scanned[o].goal
          /\ r.snapshot_number = verifier.scanned[o].snapshot_number
      <3>1. o \in Ops /\ verifier.scanned[o] \in Records
        BY <1>0, <2>1
      <3> DEFINE st == InterruptedState(verifier.scanned[o].state)
      <3>2. st \in {"Failed", "NeedsRecovery"}
        BY DEF InterruptedState
      <3>3. r = Settle(verifier.scanned[o], st, "OPERATION_INTERRUPTED")
        BY DEF InterruptedRecord
      <3> HIDE DEF r, st
      <3>4. r \in Records /\ r.state = st
            /\ r.goal = verifier.scanned[o].goal
            /\ r.snapshot_number = verifier.scanned[o].snapshot_number
        BY <3>1, <3>2, <3>3, SettleType, SettleFields DEF States, ErrorCodes
      <3> QED BY <3>1, <3>2, <3>4 DEF st
    <2>6. SaveState(o, r)
      BY <2>1
    <2> HIDE DEF r
    <2>3. Written
      BY <2>1, <2>2, <2>6 DEF SaveState, ValidateState, SpentStates
    <2>4. /\ verifier'.pc = verifier.pc /\ verifier'.op = op /\ verifier'.mem = mem
          /\ verifier'.todo = verifier.todo \ {o}
          /\ \A x \in Ops \ {o} : verifier'.scanned[x] = verifier.scanned[x]
      BY <1>0, <2>1 DEF VerifierStates
    <2>5. Moves
      BY <1>0, <1>4, <2>4 DEF Moves, Reconcile, CopyPart
    <2> QED BY <1>4, <1>q, <2>3, <2>5 DEF Reconcile
  <1>5. CASE BeginVerification
    <2> DEFINE r == IF mem.state = "AwaitingReboot" THEN TransitionTo(mem, "VerifyingBoot") ELSE mem
    <2>1. /\ op \in Ops /\ r \in Records /\ r.state = "VerifyingBoot" /\ r.goal = mem.goal
          /\ r.snapshot_number = mem.snapshot_number /\ r.boot_snapshot = mem.boot_snapshot
      <3>1. op \in Ops /\ mem.state \in {"AwaitingReboot", "VerifyingBoot"}
        BY <1>0, <1>5 DEF BeginVerification, CopyPart
      <3>2. LET q == TransitionTo(mem, "VerifyingBoot")
            IN  /\ q \in Records /\ q.state = "VerifyingBoot" /\ q.goal = mem.goal
                /\ q.snapshot_number = mem.snapshot_number /\ q.boot_snapshot = mem.boot_snapshot
        BY <1>0, TransitionType, TransitionFields, KeepsClone DEF States
      <3> QED BY <1>0, <3>1, <3>2
    <2>2. SaveState(op, r) /\ verifier' = [verifier EXCEPT !.pc = "check", !.mem = r]
      BY <1>5 DEF BeginVerification
    <2> HIDE DEF r
    <2>3. Written
      BY <2>1, <2>2 DEF SaveState, ValidateState, SpentStates
    <2>4. Moves
      BY <1>m, <2>1, <2>2
    <2> QED BY <1>5, <1>q, <2>3, <2>4 DEF BeginVerification
  <1>6. CASE CheckPasses
    <2>1. \/ verifier' = [verifier EXCEPT !.pc = "consume"]
          \/ verifier' = [verifier EXCEPT !.pc = "final", !.mem = Passed(mem)]
      BY <1>6 DEF CheckPasses
    <2>2. Moves
      BY <1>m, <1>p, <2>1
    <2> QED BY <1>6, <1>q, <2>2 DEF CheckPasses
  <1>7. CASE CheckFails
    <2> DEFINE r == Settle(mem, "NeedsRecovery", "POST_BOOT_VERIFICATION_FAILED")
    <2>1. /\ r.state = "NeedsRecovery" /\ r.goal = mem.goal
          /\ r.snapshot_number = mem.snapshot_number /\ r.boot_snapshot = mem.boot_snapshot
      BY <1>t DEF States, ErrorCodes
    <2>2. verifier' = [verifier EXCEPT !.pc = "final", !.mem = r]
      BY <1>7 DEF CheckFails
    <2> HIDE DEF r
    <2>3. Moves
      BY <1>m, <2>1, <2>2
    <2> QED BY <1>7, <1>q, <2>3 DEF CheckFails
  <1>8. CASE WriteSequenceTmp
    <2>1. verifier' = [verifier EXCEPT !.pc = "replace"]
      BY <1>8 DEF WriteSequenceTmp
    <2>2. Moves
      BY <1>m, <2>1
    <2> QED BY <1>8, <1>q, <2>2 DEF WriteSequenceTmp
  <1>9. CASE ReplaceSequence
    <2>1. \/ verifier' = [verifier EXCEPT !.pc = "final", !.mem = Passed(mem)]
          \/ verifier' = [verifier EXCEPT !.pc = "final", !.mem = Unconsumed(mem)]
      BY <1>9 DEF ReplaceSequence
    <2>2. Moves
      BY <1>m, <1>p, <2>1
    <2> QED BY <1>9, <1>q, <2>2 DEF ReplaceSequence
  <1>10. CASE SequenceFails
    <2>1. verifier' = [verifier EXCEPT !.pc = "final", !.mem = Unconsumed(mem)]
      BY <1>10 DEF SequenceFails
    <2>2. Moves
      BY <1>m, <1>p, <2>1
    <2> QED BY <1>10, <1>q, <2>2 DEF SequenceFails
  <1>11. CASE SaveVerdict
    <2>1. Written
      BY <1>0, <1>11 DEF SaveVerdict, SaveState, ValidateState, CopyPart, SpentStates
    <2> QED BY <1>11, <1>e, <1>q, <2>1 DEF SaveVerdict
  <1> QED BY <1>1, <1>2, <1>3, <1>4, <1>5, <1>6, <1>7, <1>8, <1>9, <1>10, <1>11
      DEF VerifierProgress

\* The verifier: its copies of a lost operation lead back as the record does.
LEMMA VerifierStepRecovery ==
    ASSUME TypeInvariant, RecoveryInvariant, VerifierProgress \/ VerifierDies
    PROVE  RecoveryInvariant' /\ SpentStays
  <1>0. VerifierEffect
    BY VerifierEffects DEF RecoveryInvariant
  <1>u. /\ UNCHANGED <<worker, session, offline, mode, mounted, basis, roots, snapshots>>
        /\ mode = "up" /\ offline.pc = "idle"
    BY <1>0 DEF VerifierEffect, RecoveryInvariant, ModePart
  <1>d. disk \in [Ops -> Records]
    BY DEF TypeInvariant, DiskPart
  <1>b. \A o, r : LeadsBack(o, r)' <=> LeadsBack(o, r)
    BY <1>u DEF LeadsBack, CleanSnapshot
  <1>c. RootsCopied
    BY <1>u, CopiesOnly
  <1>w. ASSUME NEW o \in Ops
        PROVE  \/ disk'[o] = disk[o]
               \/ /\ disk'[o].state \in SpentStates
                  /\ \/ /\ o \in verifier.todo /\ disk'[o].state \in {"NeedsRecovery", "Failed"}
                        /\ disk'[o].snapshot_number = verifier.scanned[o].snapshot_number
                     \/ /\ o = verifier.op /\ disk'[o].goal = verifier.mem.goal
                        /\ disk'[o].snapshot_number = verifier.mem.snapshot_number
    BY <1>0, <1>d DEF VerifierEffect, InterruptedState
  <1>s. ASSUME NEW o \in Ops, Spent(o) PROVE Spent(o)'
    BY <1>s, <1>u, <1>w DEF Spent
  <1>l. ASSUME NEW o \in Ops, Lost(o) PROVE Lost(o)'
    <2>1. Spent(o)' /\ LeadsBack(o, disk[o])
      BY <1>l, <1>s DEF Lost
    <2>2. /\ LeadsBack(o, disk'[o])
          /\ disk'[o].goal \/ disk'[o].state \in {"ApplyingOffline", "NeedsRecovery", "Failed"}
      BY <1>l, <1>w DEF Lost, LeadsBack
    <2>3. verifier'.op = o => verifier'.mem.goal /\ LeadsBack(o, verifier'.mem)
      <3>1. CASE verifier'.op = NoOp
        BY <3>1, MachineAssumption
      <3>2. CASE /\ verifier'.op = verifier.op /\ verifier'.mem.goal = verifier.mem.goal
                 /\ verifier'.mem.snapshot_number = verifier.mem.snapshot_number
        BY <1>l, <3>2 DEF Lost, LeadsBack
      <3>3. CASE Candidate(verifier'.op) /\ verifier'.mem = disk[verifier'.op]
        BY <1>l, <3>3 DEF Lost, Candidate
      <3> QED BY <1>0, <3>1, <3>2, <3>3 DEF VerifierEffect
    <2>4. o \in verifier'.todo => LeadsBack(o, verifier'.scanned[o])
      BY <1>0, <1>l DEF VerifierEffect, Lost
    <2>5. \A s \in Sessions :
             session[s].op = o /\ session[s].pc \in {"keep", "intent", "rollback", "selected"}
                 => LeadsBack(o, session[s].mem)
      BY <1>l DEF Lost
    <2> QED BY <1>b, <1>l, <1>u, <2>1, <2>2, <2>3, <2>4, <2>5 DEF Lost
  <1>1. ModePart' /\ CopyPart'
    BY <1>0, <1>u DEF VerifierEffect, RecoveryInvariant, ModePart, CopyPart
  <1>2. BasisPart' /\ HerePart'
    BY <1>u DEF RecoveryInvariant, BasisPart, HerePart, UnderWay, Installed
  <1>3. Lasting
    BY <1>s, <1>l DEF Lasting
  <1>4. SpentPart' /\ AlikePart' /\ OutagePart'
    BY <1>3, <1>c, RootsKept DEF RecoveryInvariant
  <1> QED BY <1>s, <1>1, <1>2, <1>4 DEF RecoveryInvariant, SpentStays

\* Power losses, restarts and boots end processes, and what is lost or spent
\* stays so without them.
LEMMA PlatformStepRecovery ==
    ASSUME TypeInvariant, SnapshotInvariant, RecoveryInvariant,
           PowerLoss \/ Reboot \/ Boot \/ ForeignStage
    PROVE  RecoveryInvariant'
  <1>0. UNCHANGED <<disk, basis, snapshots>> /\ (UNCHANGED roots \/ \E m : SetMarker(m))
    BY DEF PowerLoss, Reboot, Boot, ForeignStage, Down, files, storage
  <1>b. \A o, r : LeadsBack(o, r)' <=> LeadsBack(o, r)
    BY <1>0 DEF LeadsBack, CleanSnapshot
  <1>c. RootsCopied
    BY <1>0, CopiesOnly
  <1>k. Lasting => SpentPart' /\ AlikePart' /\ OutagePart'
    BY <1>c, RootsKept DEF RecoveryInvariant
  <1>1. CASE Down
    <2>1. /\ mode' = "down"
          /\ \A w \in Workers : worker'[w].pc = "idle"
          /\ \A s \in Sessions : session'[s].pc = "idle"
          /\ offline'.pc = "idle" /\ offline'.op = NoOp
          /\ verifier'.pc = "idle" /\ verifier'.op = NoOp /\ verifier'.todo = {}
      BY <1>1 DEF Down, IdleWorker, IdleSession, IdleOffline, IdleVerifier
    <2>2. ModePart' /\ CopyPart' /\ HerePart'
      BY <2>1 DEF ModePart, CopyPart, HerePart, UnderWay
    <2>3. BasisPart'
      BY <1>0, <2>1 DEF RecoveryInvariant, BasisPart
    <2>4. \A o \in Ops : Spent(o) => Spent(o)'
      BY <1>0, <2>1 DEF Spent
    <2>5. \A o \in Ops : Lost(o) => Lost(o)'
      BY <1>0, <1>b, <2>1, <2>4, MachineAssumption DEF Lost
    <2> QED BY <1>k, <2>2, <2>3, <2>4, <2>5 DEF RecoveryInvariant, Lasting
  <1>2. CASE Boot
    <2>1. /\ UNCHANGED <<worker, session>> /\ mode = "down" /\ offline.pc = "idle"
          /\ verifier.pc = "idle" /\ verifier.op = NoOp /\ verifier.todo = {}
      BY <1>2 DEF Boot, RecoveryInvariant, ModePart
    <2>2. /\ \A w \in Workers : worker[w].pc = "idle"
          /\ \A s \in Sessions : session[s].pc = "idle"
      BY <2>1 DEF SnapshotInvariant, QuietPart
    <2>3. /\ verifier'.op = NoOp /\ verifier'.todo = {}
          /\ \/ mode' = "up" /\ verifier'.pc = "acquire" /\ UNCHANGED offline
             \/ mode' = "offline" /\ verifier'.pc = "idle" /\ offline'.pc = "resolve"
      <3>1. LET st == [IdleVerifier EXCEPT !.pc = "acquire"]
            IN  st.pc = "acquire" /\ st.op = NoOp /\ st.todo = {}
        BY DEF IdleVerifier
      <3>2. [IdleOffline EXCEPT !.pc = "resolve"].pc = "resolve"
        BY DEF IdleOffline
      <3> QED BY <1>2, <2>1, <3>1, <3>2 DEF Boot
    <2>4. ModePart' /\ CopyPart' /\ HerePart'
      BY <2>1, <2>2, <2>3 DEF ModePart, CopyPart, HerePart, UnderWay
    <2>5. BasisPart'
      BY <1>0, <2>1, <2>2 DEF RecoveryInvariant, BasisPart
    <2>6. \A o \in Ops : Spent(o) => Spent(o)'
      BY <1>0, <2>1 DEF Spent
    <2>7. \A o \in Ops : Lost(o) => Lost(o)'
      BY <1>0, <1>b, <2>1, <2>2, <2>3, <2>6, MachineAssumption DEF Lost
    <2> QED BY <1>k, <2>4, <2>5, <2>6, <2>7 DEF RecoveryInvariant, Lasting
  <1>3. CASE ForeignStage
    <2>1. /\ UNCHANGED <<worker, session, offline, verifier, mode, mounted>>
          /\ SetMarker(Foreign)
      BY <1>3 DEF ForeignStage, platform, processes
    <2>2. Installed' = Installed
      BY <2>1, PackagesKept
    <2>3. \A v \in Subvolumes : /\ roots'[v].packages = roots[v].packages
                                /\ roots'[v].live = roots[v].live
      <3>1. roots \in [Subvolumes -> Roots]
        BY DEF TypeInvariant, StoragePart
      <3> QED BY <2>1, <3>1 DEF SetMarker, Roots
    <2>4. ModePart' /\ CopyPart' /\ BasisPart'
      BY <1>0, <2>1, <2>2 DEF RecoveryInvariant, ModePart, CopyPart, BasisPart
    <2>5. \A o \in Ops : Spent(o)' <=> Spent(o)
      BY <1>0, <2>1 DEF Spent
    <2>6. \A o \in Ops : Lost(o) => Lost(o)'
      BY <1>0, <1>b, <2>1, <2>5 DEF Lost
    <2>7. HerePart'
      <3> SUFFICES ASSUME offline.pc \in UnderWay PROVE OfflineRuns(offline.op)'
        BY <2>1 DEF HerePart
      <3>1. OfflineRuns(offline.op) /\ offline.op \in Ops /\ mounted \in Subvolumes
        BY DEF RecoveryInvariant, HerePart, UnderWay, TypeInvariant, OfflinePart, StoragePart
      <3>2. OldElsewhere(offline.op)' /\ Spent(offline.op)'
        BY <1>0, <2>1, <2>3, <2>5, <3>1 DEF OfflineRuns, OldElsewhere
      <3> QED BY <1>0, <2>1, <2>2, <2>3, <3>1, <3>2 DEF OfflineRuns, Signed
    <2> QED BY <1>k, <2>4, <2>5, <2>6, <2>7 DEF RecoveryInvariant, Lasting
  <1> QED BY <1>1, <1>2, <1>3 DEF PowerLoss, Reboot

\* The offline worker and the boots: they run alone, or change no record.
LEMMA OthersKeepSpent ==
    ASSUME TypeInvariant, SnapshotInvariant, RecoveryInvariant,
           OfflineProgress \/ PowerLoss \/ Reboot \/ Boot \/ ForeignStage
    PROVE  SpentStays
  <1>1. CASE OfflineProgress
    <2>1. UNCHANGED <<worker, session>> /\ disk \in [Ops -> Records]
      BY <1>1 DEF OfflineProgress, Resolve, LoadStaged, Revalidate, OfflineZypperWrites,
         OfflineZypperDone, MoveRepositoriesAway, InstallRepositories, SwapFails, PersistApplied,
         RemoveMarker, OfflineFails, MarkRecovery, RecoveryRefused, OfflineReboot, RebootFails,
         RebootRefused, SystemUpdateCleanup, OnlyOffline, processes, TypeInvariant, DiskPart
    <2>2. UNCHANGED disk \/ \E o \in Ops, r \in Records :
             disk' = [disk EXCEPT ![o] = r] /\ r.state \in SpentStates
      <3>0. offline.mem \in Records /\ (offline.op \in Ops => disk[offline.op] \in Records)
        BY <2>1 DEF TypeInvariant, OfflinePart, OfflineStates
      <3>1. CASE LoadStaged
        <4>1. offline.op \in Ops /\ SaveState(offline.op, TransitionTo(disk[offline.op], "ApplyingOffline"))
          BY <3>1 DEF LoadStaged, OfflineAt, TypeInvariant, OfflinePart
        <4>2. /\ TransitionTo(disk[offline.op], "ApplyingOffline") \in Records
              /\ TransitionTo(disk[offline.op], "ApplyingOffline").state \in SpentStates
          BY <3>0, <4>1, TransitionType, TransitionFields DEF SpentStates, States
        <4> QED BY <4>1, <4>2 DEF SaveState
      <3>2. CASE PersistApplied
        <4>1. offline.op \in Ops /\ SaveState(offline.op, TransitionTo(offline.mem, "AwaitingReboot"))
          BY <3>2 DEF PersistApplied, OfflineAt, TypeInvariant, OfflinePart
        <4>2. /\ TransitionTo(offline.mem, "AwaitingReboot") \in Records
              /\ TransitionTo(offline.mem, "AwaitingReboot").state \in SpentStates
          BY <3>0, <4>1, TransitionType, TransitionFields DEF SpentStates, States
        <4> QED BY <4>1, <4>2 DEF SaveState
      <3>3. CASE MarkRecovery
        <4>1. offline.op \in Ops /\ SaveState(offline.op, Settle(disk[offline.op], "NeedsRecovery", "OFFLINE_APPLY_FAILED"))
          BY <3>3 DEF MarkRecovery, OfflineAt, TypeInvariant, OfflinePart
        <4>2. /\ Settle(disk[offline.op], "NeedsRecovery", "OFFLINE_APPLY_FAILED") \in Records
              /\ Settle(disk[offline.op], "NeedsRecovery", "OFFLINE_APPLY_FAILED").state \in SpentStates
          BY <3>0, <4>1, SettleType, SettleFields DEF SpentStates, States, ErrorCodes
        <4> QED BY <4>1, <4>2 DEF SaveState
      <3>4. CASE ~LoadStaged /\ ~PersistApplied /\ ~MarkRecovery
        BY <1>1, <3>4 DEF OfflineProgress, Resolve, Revalidate, OfflineZypperWrites,
           OfflineZypperDone, MoveRepositoriesAway, InstallRepositories, SwapFails,
           RemoveMarker, OfflineFails, RecoveryRefused, OfflineReboot, RebootFails,
           RebootRefused, SystemUpdateCleanup
      <3> QED BY <3>1, <3>2, <3>3, <3>4
    <2> QED BY <2>1, <2>2 DEF SpentStays, Spent
  <1>2. CASE PowerLoss \/ Reboot
    <2>1. /\ UNCHANGED disk /\ \A w \in Workers : worker'[w].pc = "idle"
          /\ \A s \in Sessions : session'[s].pc = "idle"
      BY <1>2 DEF PowerLoss, Reboot, Down, IdleWorker, IdleSession
    <2> QED BY <2>1 DEF SpentStays, Spent
  <1>3. CASE Boot \/ ForeignStage
    <2>1. UNCHANGED <<disk, worker, session>>
      BY <1>3 DEF Boot, ForeignStage, processes
    <2> QED BY <2>1 DEF SpentStays, Spent
  <1> QED BY <1>1, <1>2, <1>3

\* Nothing was written, and every root has its repositories.
LEMMA InitRecovery == Init => RecoveryInvariant
  <1> SUFFICES ASSUME Init PROVE RecoveryInvariant
    OBVIOUS
  <1>0. DOMAIN snapshots = {}
    BY DEF Init
  <1>1. \A R \in AllRoots : R = NewRoot
    BY <1>0 DEF Init, AllRoots
  <1>2. /\ NewRoot.live /\ NewRoot.packages = Untouched
        /\ \A op \in Ops : Untouched[op] = "old"
    BY DEF NewRoot, Untouched
  <1>3. SpentPart /\ AlikePart /\ OutagePart
    BY <1>1, <1>2 DEF SpentPart, AlikePart, OutagePart
  <1>4. /\ verifier.pc = "idle" /\ verifier.op = NoOp /\ verifier.todo = {}
        /\ offline.pc = "idle" /\ mode = "up"
        /\ \A w \in Workers : worker[w].pc = "idle"
        /\ \A s \in Sessions : session[s].pc = "idle"
    BY DEF Init, IdleVerifier, IdleOffline, IdleWorker, IdleSession
  <1> QED BY <1>0, <1>3, <1>4
      DEF RecoveryInvariant, ModePart, BasisPart, CopyPart, HerePart, UnderWay

\* RecoveryInvariant is inductive together with the type, lock, snapshot and
\* replay invariants: a signed operation with a trace in any root is past its
\* offline boot for good, roots with the same release upgrades are alike in
\* having their repositories, and one that has lost them leads back.
THEOREM RecoveryInvariance == Spec => []RecoveryInvariant
  <1>1. TypeInvariant /\ LockInv /\ SnapshotInvariant /\ ReplayInvariant /\ RecoveryInvariant
            /\ [Next]_vars => RecoveryInvariant'
    <2> SUFFICES ASSUME TypeInvariant, LockInv, SnapshotInvariant, ReplayInvariant,
                        RecoveryInvariant, [Next]_vars
                 PROVE  RecoveryInvariant'
      OBVIOUS
    <2>1. CASE UNCHANGED vars
      <3>1. /\ UNCHANGED <<disk, basis, roots, snapshots, mode, mounted>>
            /\ UNCHANGED <<worker, session, offline, verifier>>
        BY <2>1 DEF vars, storage, files, platform, processes
      <3>2. Installed' = Installed /\ AllRoots' = AllRoots
        BY <3>1 DEF Installed, AllRoots
      <3>3. \A op, r : LeadsBack(op, r)' <=> LeadsBack(op, r)
        BY <3>1 DEF LeadsBack, CleanSnapshot
      <3>4. \A op \in Ops : Spent(op)' <=> Spent(op)
        BY <3>1 DEF Spent
      <3>5. \A op \in Ops : Lost(op)' <=> Lost(op)
        BY <3>1, <3>3, <3>4 DEF Lost
      <3>6. ModePart' /\ BasisPart' /\ CopyPart'
        BY <3>1, <3>2 DEF RecoveryInvariant, ModePart, BasisPart, CopyPart
      <3>7. HerePart'
        <4> SUFFICES ASSUME offline.pc \in UnderWay PROVE OfflineRuns(offline.op)'
          BY <3>1 DEF HerePart
        <4>1. OfflineRuns(offline.op) /\ offline.op \in Ops
          BY DEF RecoveryInvariant, HerePart, UnderWay, TypeInvariant, OfflinePart
        <4>2. OldElsewhere(offline.op)' /\ Spent(offline.op)'
          BY <3>1, <3>4, <4>1 DEF OfflineRuns, OldElsewhere
        <4> QED BY <3>1, <3>2, <4>1, <4>2 DEF OfflineRuns
      <3>8. SpentPart' /\ AlikePart' /\ OutagePart'
        BY <3>2, <3>4, <3>5 DEF RecoveryInvariant, SpentPart, AlikePart, OutagePart
      <3> QED BY <3>6, <3>7, <3>8 DEF RecoveryInvariant
    <2>2. CASE Next
      BY <2>2, WorkerStepRecovery, SessionStepRecovery, OfflineStepRecovery,
         VerifierStepRecovery, PlatformStepRecovery DEF Next
    <2> QED BY <2>1, <2>2
  <1>2. OneTransactionAtATime => LockInv
    BY LockInvMeaning
  <1> QED BY <1>1, <1>2, InitRecovery, TypeInvariance, MutualExclusion, SnapshotInvariance,
             ReplayInvariance, PTL DEF Spec

\* No step takes an operation back from being spent.
LEMMA NextSpent ==
    ASSUME TypeInvariant, LockInv, SnapshotInvariant, ReplayInvariant, RecoveryInvariant, Next
    PROVE  SpentStays
  BY WorkerStepRecovery, SessionStepRecovery, VerifierStepRecovery, OthersKeepSpent DEF Next

\* An operation that is past its offline boot, or ended, stays so: no stale
\* copy of its record that a thread or a request still holds brings it back to
\* a state from which a transaction could be started.
THEOREM SpentForGood == Spec => [][SpentStays]_vars
  <1>1. TypeInvariant /\ LockInv /\ SnapshotInvariant /\ ReplayInvariant /\ RecoveryInvariant
            /\ [Next]_vars => [SpentStays]_vars
    BY NextSpent
  <1>2. OneTransactionAtATime => LockInv
    BY LockInvMeaning
  <1> QED BY <1>1, <1>2, TypeInvariance, MutualExclusion, SnapshotInvariance,
             ReplayInvariance, RecoveryInvariance, PTL DEF Spec

\* RepositoryOutageIsRecoverable: a root that lost its repositories half way
\* through their replacement runs a release upgrade that is not taken for
\* applied and whose record leads back to a clean snapshot with repositories,
\* whatever the other operations, processes and boots did since.
THEOREM OutagesRecoverable == Spec => []RepositoryOutageIsRecoverable
  <1>1. TypeInvariant /\ RecoveryInvariant => RepositoryOutageIsRecoverable
    <2> SUFFICES ASSUME TypeInvariant, RecoveryInvariant, NEW v \in Subvolumes, ~roots[v].live
                 PROVE  \E op \in Ops :
                           /\ roots[v].packages[op] = "new"
                           /\ CleanSnapshot(op, disk[op].snapshot_number)
                           /\ snapshots[disk[op].snapshot_number].root.live
                           /\ \/ disk[op].goal
                              \/ disk[op].state \in {"ApplyingOffline", "NeedsRecovery", "Failed"}
      BY DEF RepositoryOutageIsRecoverable
    <2>1. roots[v] \in AllRoots
      BY RootsAre
    <2>2. PICK op \in Ops : roots[v].packages[op] = "new" /\ Lost(op)
      BY <2>1 DEF RecoveryInvariant, OutagePart
    <2> QED BY <2>2 DEF Lost, LeadsBack
  <1> QED BY <1>1, TypeInvariance, RecoveryInvariance, PTL
=============================================================================
