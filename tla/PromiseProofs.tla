---------------------------- MODULE PromiseProofs ----------------------------
(***************************************************************************)
(* UpgradeSystem implements ProtectedChange, and Completed tells the truth *)
(* about the running system, for every number of operations, clients,      *)
(* threads, snapshots, rollbacks and crashes.                              *)
(*                                                                         *)
(* RecoveryProofs says what a step of each kind of process can do to the   *)
(* storage.  Here is added what it does to the rollback objective of the   *)
(* records and to the program counters around a transaction.               *)
(***************************************************************************)
EXTENDS RecoveryProofs, UpgradeRefinement

-----------------------------------------------------------------------------
(* The effect of a step on objectives and transactions.                    *)

\* A thread saves records without an objective.  What it saves once zypper may
\* have run calls for recovery, or says applied on a system that is.
ThreadStep(w) ==
    LET op == worker[w].op
        mem == worker[w].mem
        at == worker[w].pc
        q == worker'[w]
    IN  /\ \/ q.pc = "idle"
           \/ /\ q.mem.goal = mem.goal
              /\ q.mem.state \in {mem.state, "Downloading", "Snapshotting", "Applying"}
        /\ at \in {"zypper", "failed", "record"} =>
               \/ q.pc = "idle"
               \/ q.mem.snapshot_number = mem.snapshot_number /\ q.pc \in {"zypper", "finish", "failed", "record"}
        /\ q.pc = "zypper" =>
               \/ at = "apply" /\ UNCHANGED roots /\ disk'[op].state = "Applying"
               \/ at = "zypper" /\ UNCHANGED disk /\ SetPackages(op, "partial")
        /\ q.pc = "finish" => SetPackages(op, "new")
        /\ \/ UNCHANGED disk
           \/ \E r \in Records :
                 /\ disk' = [disk EXCEPT ![op] = r] /\ r.goal = mem.goal
                 /\ UNCHANGED <<roots, snapshots>>
                 /\ \/ at \in {"begin", "snapshot", "number", "apply", "ready"}
                    \/ at = "finish" /\ Installed[op] = "new"
                    \/ at = "record" /\ (mem.snapshot_number # 0 => r.state = "NeedsRecovery")
                 /\ at # "finish" =>
                        r.state \notin {"AwaitingReboot", "VerifyingBoot", "Completed"} \ {mem.state}
                 /\ r.state = "Absent" => mem.state = "Absent"
                 /\ q.pc # "idle" => q.mem = r
        /\ UNCHANGED requests

\* Every step of an executor thread, and its death.
LEMMA ThreadSteps ==
    ASSUME TypeInvariant, NEW w \in Workers, WorkerProgress(w) \/ WorkerDies(w)
    PROVE  ThreadStep(w)
  <1> DEFINE op == worker[w].op
             mem == worker[w].mem
             at == worker[w].pc
             Late == {"zypper", "finish", "failed", "record"}
             Moves ==
                /\ \/ worker'[w].pc = "idle"
                   \/ /\ worker'[w].mem.goal = mem.goal
                      /\ worker'[w].mem.state \in {mem.state, "Downloading", "Snapshotting", "Applying"}
                /\ at \in {"zypper", "failed", "record"} =>
                       \/ worker'[w].pc = "idle"
                       \/ worker'[w].mem.snapshot_number = mem.snapshot_number /\ worker'[w].pc \in Late
                /\ worker'[w].pc = "zypper" =>
                       \/ at = "apply" /\ UNCHANGED roots /\ disk'[op].state = "Applying"
                       \/ at = "zypper" /\ UNCHANGED disk /\ SetPackages(op, "partial")
                /\ worker'[w].pc = "finish" => SetPackages(op, "new")
             Writes(r) ==
                /\ disk' = [disk EXCEPT ![op] = r] /\ r.goal = mem.goal
                /\ UNCHANGED <<roots, snapshots>>
                /\ \/ at \in {"begin", "snapshot", "number", "apply", "ready"}
                   \/ at = "finish" /\ Installed[op] = "new"
                   \/ at = "record" /\ (mem.snapshot_number # 0 => r.state = "NeedsRecovery")
                /\ at # "finish" =>
                       r.state \notin {"AwaitingReboot", "VerifyingBoot", "Completed"} \ {mem.state}
                /\ r.state = "Absent" => mem.state = "Absent"
                /\ worker'[w].pc # "idle" => worker'[w].mem = r
  <1>0. /\ mem \in Records /\ disk \in [Ops -> Records] /\ (at # "idle" => op \in Ops)
        /\ worker \in [Workers -> WorkerStates]
    BY DEF TypeInvariant, WorkerPart, WorkerStates, DiskPart
  <1>q. /\ Moves /\ UNCHANGED <<disk, requests>> => ThreadStep(w)
        /\ \A r \in Records : Moves /\ Writes(r) /\ UNCHANGED requests => ThreadStep(w)
    BY DEF ThreadStep
  <1>t. \A st \in States :
           /\ TransitionTo(mem, st) \in Records /\ TransitionTo(mem, st).state = st
           /\ TransitionTo(mem, st).goal = mem.goal
           /\ TransitionTo(mem, st).snapshot_number = mem.snapshot_number
    BY <1>0, TransitionType, TransitionFields
  <1>m. ASSUME NEW pc, NEW r, Moved(w, pc, r), r.goal = mem.goal, pc \notin {"zypper", "finish"},
               r.state \in {mem.state, "Downloading", "Snapshotting", "Applying"},
               at \in {"zypper", "failed", "record"} =>
                   pc \in Late /\ r.snapshot_number = mem.snapshot_number
        PROVE  Moves
    BY <1>m DEF Moved
  <1>g. /\ \A pc : Goto(w, pc) => Moved(w, pc, mem)
        /\ \A pc, b : worker' = [worker EXCEPT ![w].pc = pc, ![w].error = b] => Moved(w, pc, mem)
    BY WorkerFields
  <1>e. worker' = [worker EXCEPT ![w] = IdleWorker] => worker'[w].pc = "idle"
    BY <1>0 DEF IdleWorker
  <1>i. worker' = [worker EXCEPT ![w] = IdleWorker] => Moves
    BY <1>e
  <1> HIDE DEF Moves, Writes
  <1> USE DEF storage, files, bounds, Self
  <1>1. CASE AcquireLock(w) \/ LockBusy(w) \/ Prepare(w) \/ Refresh(w) \/ Download(w)
    <2>1. PICK pc : Moved(w, pc, mem) /\ pc \notin {"zypper", "finish"}
      BY <1>1, <1>g DEF AcquireLock, LockBusy, Prepare, Refresh, Download
    <2>2. at \notin {"zypper", "failed", "record"} /\ UNCHANGED <<disk, requests>>
      BY <1>1 DEF AcquireLock, LockBusy, Prepare, Refresh, Download
    <2>3. Moves
      BY <1>m, <2>1, <2>2
    <2> QED BY <1>q, <2>2, <2>3
  <1>2. ASSUME NEW st, NEW pc, PersistTransition(w, st, pc), at \in {"begin", "snapshot"},
               st \in {"Downloading", "Snapshotting"}, pc \notin {"zypper", "finish"},
               UNCHANGED <<roots, snapshots, requests>>
        PROVE  ThreadStep(w)
    <2> DEFINE r == TransitionTo(mem, st)
    <2>1. /\ r \in Records /\ r.state = st /\ r.goal = mem.goal
          /\ Moved(w, pc, r) /\ disk' = [disk EXCEPT ![op] = r]
      BY <1>2, <1>t, WorkerFields DEF PersistTransition, SaveState, States
    <2> HIDE DEF r
    <2>2. Moves
      BY <1>2, <1>m, <2>1
    <2>3. Writes(r)
      BY <1>2, <2>1 DEF Writes, Moved
    <2> QED BY <1>2, <1>q, <2>1, <2>2, <2>3
  <1>3. CASE BeginDownload(w) \/ BeginSnapshot(w)
    BY <1>2, <1>3 DEF BeginDownload, BeginSnapshot
  <1>4. CASE CreateSnapshot(w)
    <2>0. Moved(w, "number", mem) /\ at = "create"
      BY <1>4, <1>g DEF CreateSnapshot
    <2>1. Moves
      BY <1>m, <2>0
    <2> QED BY <1>4, <1>q, <2>1 DEF CreateSnapshot
  <1>5. CASE RecordSnapshot(w)
    <2> DEFINE r == Numbered(w)
    <2>0. Len(snapshots) \in Nat
      BY DEF TypeInvariant, StoragePart
    <2>1. r \in Records /\ r.goal = mem.goal /\ r.state = mem.state
      BY <1>0, <2>0, Zenon DEF Numbered, Records
    <2>2. PICK pc \in {"stage", "apply"} : Moved(w, pc, r)
      BY <1>5, WorkerFields DEF RecordSnapshot
    <2>3. Moves
      BY <1>5, <1>m, <2>1, <2>2 DEF RecordSnapshot
    <2>4. Writes(r)
      BY <1>5, <2>1, <2>2 DEF RecordSnapshot, SaveState, Writes, Moved
    <2> QED BY <1>5, <1>q, <2>1, <2>3, <2>4 DEF RecordSnapshot
  <1>6. CASE BeginApply(w)
    <2> DEFINE r == TransitionTo(mem, "Applying")
    <2>1. /\ r \in Records /\ r.state = "Applying" /\ r.goal = mem.goal
          /\ Moved(w, "zypper", r) /\ disk' = [disk EXCEPT ![op] = r]
      BY <1>6, <1>t, WorkerFields DEF BeginApply, PersistTransition, SaveState, States
    <2> HIDE DEF r
    <2>2. Moves
      BY <1>0, <1>6, <2>1 DEF BeginApply, Moved, Moves
    <2>3. Writes(r)
      BY <1>6, <2>1 DEF BeginApply, Writes, Moved
    <2> QED BY <1>6, <1>q, <2>1, <2>2, <2>3 DEF BeginApply
  <1>7. CASE ZypperWrites(w)
    <2>1. UNCHANGED worker /\ at = "zypper" /\ UNCHANGED disk /\ SetPackages(op, "partial")
      BY <1>7 DEF ZypperWrites, processes
    <2>2. Moves
      BY <2>1 DEF Moves
    <2> QED BY <1>7, <1>q, <2>2 DEF ZypperWrites
  <1>8. CASE ZypperDone(w)
    <2>1. Moved(w, "finish", mem) /\ SetPackages(op, "new")
      BY <1>8, WorkerFields DEF ZypperDone
    <2>2. Moves
      BY <2>1 DEF Moves, Moved
    <2> QED BY <1>8, <1>q, <2>2 DEF ZypperDone
  <1>9. CASE FinishUpdate(w)
    <2>1. PICK st \in {"AwaitingReboot", "Completed"} : SaveState(op, TransitionTo(mem, st))
      BY <1>9 DEF FinishUpdate
    <2> DEFINE r == TransitionTo(mem, st)
    <2>2. /\ r \in Records /\ r.state = st /\ r.goal = mem.goal
          /\ disk' = [disk EXCEPT ![op] = r]
      BY <1>t, <2>1 DEF States, SaveState
    <2>3. Installed[op] = "new"
      <3>1. basis[op] \in [Ops -> Progress]
        BY <1>0, <1>9 DEF FinishUpdate, TypeInvariant, FilesPart, Packages
      <3> QED BY <1>0, <1>9, <3>1 DEF FinishUpdate, ResultMatchesPlan
    <2> HIDE DEF r
    <2>4. Writes(r)
      BY <1>9, <1>e, <2>2, <2>3 DEF FinishUpdate, Writes
    <2> QED BY <1>9, <1>i, <1>q, <2>2, <2>4 DEF FinishUpdate
  <1>10. CASE StageMarker(w)
    <2>0. Moved(w, "ready", mem) /\ at = "stage"
      BY <1>10, <1>g DEF StageMarker
    <2>1. Moves
      BY <1>m, <2>0
    <2> QED BY <1>10, <1>q, <2>1 DEF StageMarker
  <1>11. CASE FinishStaging(w)
    <2> DEFINE r == TransitionTo(mem, "ReadyToReboot")
    <2>1. /\ r \in Records /\ r.state = "ReadyToReboot" /\ r.goal = mem.goal
          /\ disk' = [disk EXCEPT ![op] = r]
      BY <1>11, <1>t DEF FinishStaging, SaveState, States
    <2> HIDE DEF r
    <2>2. Writes(r)
      BY <1>11, <1>e, <2>1 DEF FinishStaging, Writes
    <2> QED BY <1>11, <1>i, <1>q, <2>1, <2>2 DEF FinishStaging
  <1>12. CASE Fail(w)
    <2>1. PICK e \in Errors, r \in InMemory(w) :
             worker' = [worker EXCEPT ![w].pc = "failed", ![w].mem = r, ![w].error = e]
      BY <1>12 DEF Fail
    <2>2. /\ r.goal = mem.goal /\ r.state = mem.state
          /\ at \in {"zypper", "failed", "record"} => r = mem
      <3>1. LET n == Numbered(w) IN n.goal = mem.goal /\ n.state = mem.state
        BY <1>0, Zenon DEF Numbered, Records
      <3>2. LET n == [mem EXCEPT !.sequence = SaturatingSuccessor(@)]
            IN  n.goal = mem.goal /\ n.state = mem.state
        BY <1>0, Zenon DEF Records
      <3> QED BY <2>1, <3>1, <3>2 DEF InMemory
    <2>3. Moved(w, "failed", r)
      BY <2>1, WorkerFields
    <2>4. Moves
      BY <1>m, <2>2, <2>3
    <2> QED BY <1>12, <1>q, <2>4 DEF Fail
  <1>13. CASE CheckCancelled(w)
    <2>1. Moves
      <3>1. CASE CancelRequested(op)
        BY <1>13, <1>i, <3>1 DEF CheckCancelled
      <3>2. CASE ~CancelRequested(op)
        <4>1. Moved(w, "record", mem) /\ at = "failed"
          BY <1>13, <1>g, <3>2 DEF CheckCancelled
        <4> QED BY <1>m, <4>1
      <3> QED BY <3>1, <3>2
    <2> QED BY <1>13, <1>q, <2>1 DEF CheckCancelled
  <1>14. CASE RecordFailure(w)
    <2> DEFINE st == FailureState(worker[w].error = "blocking", mem)
    <2>1. PICK code \in ErrorCodes : SaveState(op, Settle(mem, st, code))
      BY <1>14 DEF RecordFailure, ErrorCodes
    <2> DEFINE r == Settle(mem, st, code)
    <2>2. st \in {"NeedsRecovery", "Blocked", "Failed"} /\ (mem.snapshot_number # 0 => st = "NeedsRecovery")
      BY DEF FailureState
    <2>3. /\ r \in Records /\ r.state = st /\ r.goal = mem.goal
          /\ disk' = [disk EXCEPT ![op] = r]
      <3>1. st \in States
        BY <2>2 DEF States
      <3> HIDE DEF st
      <3>2. r \in Records /\ r.state = st /\ r.goal = mem.goal
        BY <1>0, <3>1, SettleType, SettleFields
      <3> QED BY <2>1, <3>2 DEF SaveState
    <2> HIDE DEF r, st
    <2>4. Writes(r)
      BY <1>14, <1>e, <2>2, <2>3 DEF RecordFailure, Writes
    <2> QED BY <1>14, <1>i, <1>q, <2>3, <2>4 DEF RecordFailure
  <1>15. CASE WorkerDies(w)
    BY <1>15, <1>i, <1>q DEF WorkerDies, CountCrash
  <1> QED
    BY <1>1, <1>3, <1>4, <1>5, <1>6, <1>7, <1>8, <1>9, <1>10, <1>11, <1>12, <1>13, <1>14, <1>15
    DEF WorkerProgress


\* A request saves a consistent record: a new one, the one it read with its
\* objective, or, once a rollback was decided, one that has the objective and
\* at most the clone that was selected.
ObjectiveSaved(s) ==
    LET op == session[s].op
        mem == session[s].mem
        at == session[s].pc
    IN  \/ UNCHANGED disk
        \/ /\ op \in Ops /\ UNCHANGED <<roots, clones, default, worker, basis>>
           /\ \E r \in Records :
                 /\ disk' = [disk EXCEPT ![op] = r] /\ GoalIsConsistent(r)
                 /\ \/ at = "create" /\ r = InitialRecord
                    \/ /\ at \in {"cancel", "keep"} /\ r.state = "Failed"
                       /\ r.goal = mem.goal /\ r.boot_snapshot = mem.boot_snapshot
                    \/ at = "intent" /\ r.goal /\ r.boot_snapshot = 0
                    \/ /\ at \in {"rollback", "selected"} /\ r.goal
                       /\ \/ r.boot_snapshot = mem.boot_snapshot
                          \/ at = "selected" /\ r.boot_snapshot = default

\* It begins with what is on disk, counts as a request where it is a decision,
\* and carries no clone until it is about to save it.
ObjectiveTaken(s) ==
    LET q == session'[s] IN
    \/ q.pc \in {"idle", "plan", "owner", "spawn"}
    \/ /\ session[s].pc = "idle"
       /\ \/ q.pc = "create" /\ disk[q.op].state = "Absent"
          \/ q.pc = "cancel" /\ q.mem = disk[q.op] /\ IsCancelable(q.mem.state) /\ requests' # 0
          \/ q.pc \in {"keep", "intent"} /\ q.mem = disk[q.op] /\ requests' # 0
    \/ q.pc = "rollback" /\ session[s].pc = "intent" /\ q.mem.boot_snapshot = 0
    \/ /\ q.pc = "selected" /\ session[s].pc = "rollback"
       /\ q.op = session[s].op /\ q.mem = session[s].mem
       /\ clones' = clones + 1 /\ default' = clones + 1
       /\ roots' = [roots EXCEPT ![clones + 1] = snapshots[q.mem.snapshot_number].root]

ThreadBegun(s) ==
    LET op == session[s].op IN
    \/ UNCHANGED worker
    \/ /\ disk[op].state = "AwaitingConfirmation" /\ UNCHANGED disk /\ session[s].pc = "spawn"
       /\ \E w \in Workers :
             /\ worker[w].pc = "idle"
             /\ worker'[w].pc = "acquire" /\ worker'[w].op = op /\ worker'[w].mem = disk[op]
             /\ \A v \in Workers \ {w} : worker'[v] = worker[v]

PlanFixed ==
    \/ UNCHANGED basis
    \/ \E o \in Ops : disk[o].state = "Absent" /\ basis' = [basis EXCEPT ![o] = Installed]

RequestStep(s) ==
    /\ ObjectiveSaved(s) /\ ObjectiveTaken(s) /\ ThreadBegun(s) /\ PlanFixed
    /\ requests' \in {requests, requests + 1}

\* Every step of a request handler, and its death.
LEMMA RequestSteps ==
    ASSUME TypeInvariant, CopyPart, NEW s \in Sessions,
           SessionRequest(s) \/ SessionProgress(s) \/ SessionDies(s)
    PROVE  RequestStep(s)
  <1> DEFINE op == session[s].op
             mem == session[s].mem
             at == session[s].pc
             Kept == ThreadBegun(s) /\ PlanFixed
             Count == requests' \in {requests, requests + 1}
  <1>0. mem \in Records /\ (at # "idle" => op \in Ops) /\ requests \in Nat
    BY DEF TypeInvariant, SessionPart, SessionStates, RestPart
  <1>k. /\ UNCHANGED disk => ObjectiveSaved(s)
        /\ UNCHANGED <<worker, basis>> => Kept
        /\ UNCHANGED requests => Count
    BY DEF ObjectiveSaved, ThreadBegun, PlanFixed
  <1>m. ASSUME NEW pc, NEW o, NEW r, Served(s, pc, o, r),
               \/ pc \in {"idle", "plan", "owner", "spawn"}
               \/ /\ at = "idle"
                  /\ \/ pc = "create" /\ disk[o].state = "Absent"
                     \/ pc = "cancel" /\ r = disk[o] /\ IsCancelable(r.state) /\ requests' # 0
                     \/ pc \in {"keep", "intent"} /\ r = disk[o] /\ requests' # 0
               \/ pc = "rollback" /\ at = "intent" /\ r.boot_snapshot = 0
        PROVE  ObjectiveTaken(s)
    BY <1>m DEF Served, ObjectiveTaken
  <1>i. Reply(s) => ObjectiveTaken(s)
    BY <1>m, SessionFields
  <1>w. ASSUME NEW r \in Records, SaveState(op, r), op \in Ops,
               UNCHANGED <<roots, clones, default, worker, basis>>,
               \/ at = "create" /\ r = InitialRecord
               \/ /\ at \in {"cancel", "keep"} /\ r.state = "Failed"
                  /\ r.goal = mem.goal /\ r.boot_snapshot = mem.boot_snapshot
               \/ at = "intent" /\ r.goal /\ r.boot_snapshot = 0
               \/ /\ at \in {"rollback", "selected"} /\ r.goal
                  /\ \/ r.boot_snapshot = mem.boot_snapshot
                     \/ at = "selected" /\ r.boot_snapshot = default
        PROVE  ObjectiveSaved(s)
    BY <1>w DEF SaveState, ValidateState, ObjectiveSaved
  <1>t. \A st \in States, code \in ErrorCodes :
              LET r == Settle(mem, st, code) IN
              /\ r \in Records /\ r.state = st /\ r.goal = mem.goal
              /\ r.boot_snapshot = mem.boot_snapshot
    BY <1>0, SettleType, SettleFields, KeepsClone
  <1>sch. at = "selected" => /\ Scheduled(s) \in Records
                             /\ Scheduled(s).goal /\ Scheduled(s).boot_snapshot = default
    <2> DEFINE q == Settle(mem, "AwaitingReboot", "None")
    <2>1. q \in Records /\ q.goal = mem.goal
      <3>1. "AwaitingReboot" \in States /\ "None" \in ErrorCodes
        BY DEF States, ErrorCodes
      <3> QED BY <1>t, <3>1
    <2>2. default \in Nat
      BY MachineAssumption DEF TypeInvariant, StoragePart, Subvolumes
    <2>3. at = "selected" => mem.goal
      BY DEF CopyPart
    <2>4. Scheduled(s) = [q EXCEPT !.boot_snapshot = default]
      BY DEF Scheduled, Request
    <2> HIDE DEF q
    <2> QED BY <2>1, <2>2, <2>3, <2>4, Zenon DEF Records
  <1>c. CountRequest => requests' # 0 /\ Count
    BY <1>0 DEF CountRequest
  <1>q. ObjectiveSaved(s) /\ ObjectiveTaken(s) /\ Kept /\ Count => RequestStep(s)
    BY DEF RequestStep
  <1> HIDE DEF Kept, Count
  <1> USE DEF storage, files, platform, OnlySession, Request, bounds
  <1>1. ASSUME NEW o \in Ops, StartNew(s, o) PROVE RequestStep(s)
    <2>1. Served(s, "create", o, AbsentRecord) /\ disk[o].state = "Absent" /\ at = "idle"
      BY <1>1, SessionFields DEF StartNew, Accepting
    <2>2. ObjectiveTaken(s)
      BY <1>m, <2>1
    <2>3. Kept
      BY <1>1 DEF StartNew, Kept, ThreadBegun, PlanFixed
    <2> QED BY <1>1, <1>k, <1>q, <2>2, <2>3 DEF StartNew, CountStart
  <1>2. ASSUME NEW o \in Ops, StartOwned(s, o) PROVE RequestStep(s)
    <2>1. Served(s, "spawn", o, AbsentRecord)
      BY <1>2, SessionFields DEF StartOwned
    <2>2. ObjectiveTaken(s)
      BY <1>m, <2>1
    <2> QED BY <1>2, <1>k, <1>q, <2>2 DEF StartOwned, CountStart
  <1>3. ASSUME NEW o \in Ops, Cancel(s, o) PROVE RequestStep(s)
    <2>1. Served(s, "cancel", o, disk[o]) /\ IsCancelable(disk[o].state) /\ requests' # 0 /\ Count /\ at = "idle"
      BY <1>3, <1>c, SessionFields DEF Cancel, Accepting
    <2>2. ObjectiveTaken(s)
      BY <1>m, <2>1
    <2> QED BY <1>3, <1>k, <1>q, <2>1, <2>2 DEF Cancel
  <1>4. ASSUME NEW o \in Ops, KeepCurrent(s, o) PROVE RequestStep(s)
    <2>1. Served(s, "keep", o, disk[o]) /\ requests' # 0 /\ Count /\ at = "idle"
      BY <1>4, <1>c, SessionFields DEF KeepCurrent, Accepting
    <2>2. ObjectiveTaken(s)
      BY <1>m, <2>1
    <2> QED BY <1>4, <1>k, <1>q, <2>1, <2>2 DEF KeepCurrent
  <1>5. ASSUME NEW o \in Ops, Rollback(s, o) PROVE RequestStep(s)
    <2>1. Served(s, "intent", o, disk[o]) /\ requests' # 0 /\ Count /\ at = "idle"
      BY <1>5, <1>c, SessionFields DEF Rollback, Accepting
    <2>2. ObjectiveTaken(s)
      BY <1>m, <2>1
    <2> QED BY <1>5, <1>k, <1>q, <2>1, <2>2 DEF Rollback
  <1>6. CASE SaveInitial(s)
    <2>1. Served(s, "plan", op, mem)
      BY <1>6, SessionFields DEF SaveInitial
    <2>2. ObjectiveTaken(s)
      BY <1>m, <2>1
    <2>3. ObjectiveSaved(s)
      BY <1>6, <1>0, <1>w, ConstantRecords DEF SaveInitial
    <2> QED BY <1>6, <1>k, <1>q, <2>2, <2>3 DEF SaveInitial
  <1>7. CASE SavePendingPlan(s) \/ SaveOwner(s)
    <2>1. PICK pc \in {"owner", "spawn"} : Served(s, pc, op, mem)
      BY <1>7, SessionFields DEF SavePendingPlan, SaveOwner
    <2>2. ObjectiveTaken(s)
      BY <1>m, <2>1
    <2> QED BY <1>7, <1>k, <1>q, <2>2 DEF SavePendingPlan, SaveOwner
  <1>9. CASE OwnerExists(s) \/ RejectStart(s) \/ HistoryUnusable(s) \/ RejectRollback(s)
             \/ SessionDies(s)
    BY <1>9, <1>i, <1>k, <1>q
    DEF OwnerExists, RejectStart, HistoryUnusable, RejectRollback, SessionDies, CountCrash
  <1>10. CASE Spawn(s)
    <2>1. PICK w \in Workers :
            /\ worker[w].pc = "idle"
            /\ worker' = [worker EXCEPT ![w] =
                [pc |-> "acquire", op |-> op, mem |-> disk[op], error |-> "plain"]]
      BY <1>10 DEF Spawn
    <2>2. /\ worker'[w].pc = "acquire" /\ worker'[w].op = op /\ worker'[w].mem = disk[op]
          /\ \A v \in Workers \ {w} : worker'[v] = worker[v]
      BY <2>1 DEF TypeInvariant, WorkerPart
    <2>3. Kept
      BY <1>10, <2>1, <2>2 DEF Spawn, Kept, ThreadBegun, PlanFixed
    <2> QED BY <1>10, <1>i, <1>k, <1>q, <2>3 DEF Spawn
  <1>11. CASE SaveCancelled(s) \/ SaveDeclined(s)
    <2>1. PICK code \in ErrorCodes : SaveState(op, Settle(mem, "Failed", code))
      BY <1>11 DEF SaveCancelled, SaveDeclined, ErrorCodes
    <2> DEFINE r == Settle(mem, "Failed", code)
    <2>2. /\ r \in Records /\ r.state = "Failed" /\ r.goal = mem.goal
          /\ r.boot_snapshot = mem.boot_snapshot
      BY <1>t DEF States
    <2>3. SaveState(op, r) /\ at \in {"cancel", "keep"}
      BY <1>11, <2>1 DEF SaveCancelled, SaveDeclined
    <2> HIDE DEF r
    <2>4. UNCHANGED <<roots, clones, default, worker, basis>>
      BY <1>11 DEF SaveCancelled, SaveDeclined
    <2>5. ObjectiveSaved(s)
      BY <1>0, <1>w, <2>2, <2>3, <2>4
    <2> QED BY <1>11, <1>i, <1>k, <1>q, <2>5 DEF SaveCancelled, SaveDeclined
  <1>13. CASE SaveIntent(s)
    <2> DEFINE r == [mem EXCEPT !.goal = TRUE, !.boot_snapshot = 0,
                                !.sequence = SaturatingSuccessor(@)]
    <2>1. r \in Records /\ r.goal /\ r.boot_snapshot = 0
      <3>1. r.goal = TRUE /\ r.boot_snapshot = 0
        BY <1>0, Zenon DEF Records
      <3>2. SaturatingSuccessor(mem.sequence) \in 0..MaxSequence
        BY <1>0, SuccessorType DEF Records
      <3>3. r \in Records
        BY <1>0, <3>2 DEF Records
      <3> QED BY <3>1, <3>3
    <2>2. SaveState(op, r) /\ Serve(s, "rollback", op, r) /\ at = "intent"
      BY <1>13 DEF SaveIntent
    <2> HIDE DEF r
    <2>3. UNCHANGED <<roots, clones, default, worker, basis>>
      BY <1>13 DEF SaveIntent
    <2>4. ObjectiveSaved(s)
      BY <1>0, <1>w, <2>1, <2>2, <2>3
    <2>5. ObjectiveTaken(s)
      <3>1. Served(s, "rollback", op, r)
        BY <2>2, SessionFields
      <3> QED BY <1>m, <2>1, <2>2, <3>1
    <2> QED BY <1>13, <1>k, <1>q, <2>4, <2>5 DEF SaveIntent
  <1>14. CASE SelectClone(s)
    <2>1. Served(s, "selected", op, mem)
      BY <1>14, SessionFields DEF SelectClone
    <2>2. ObjectiveTaken(s)
      BY <1>14, <2>1 DEF SelectClone, Served, ObjectiveTaken
    <2> QED BY <1>14, <1>k, <1>q, <2>2 DEF SelectClone
  <1>15. CASE SaveScheduled(s)
    <2>1. ObjectiveSaved(s)
      BY <1>15, <1>0, <1>sch, <1>w DEF SaveScheduled
    <2> QED BY <1>15, <1>i, <1>k, <1>q, <2>1 DEF SaveScheduled
  <1>16. CASE RollbackFails(s)
    <2>1. PICK r : /\ r = mem \/ (at = "selected" /\ r = Scheduled(s))
                   /\ SaveState(op, Settle(r, "NeedsRecovery", "ROLLBACK_FAILED"))
      BY <1>16 DEF RollbackFails
    <2> DEFINE q == Settle(r, "NeedsRecovery", "ROLLBACK_FAILED")
    <2>2. /\ r \in Records /\ r.goal
          /\ r.boot_snapshot = mem.boot_snapshot \/ (at = "selected" /\ r.boot_snapshot = default)
      BY <1>0, <1>16, <1>sch, <2>1 DEF RollbackFails, CopyPart
    <2>3. q \in Records /\ q.goal /\ q.boot_snapshot = r.boot_snapshot
      BY <2>2, SettleType, SettleFields, KeepsClone DEF States, ErrorCodes
    <2>4. SaveState(op, q) /\ at \in {"rollback", "selected"}
      BY <1>16, <2>1 DEF RollbackFails
    <2> HIDE DEF q
    <2>5. UNCHANGED <<roots, clones, default, worker, basis>>
      BY <1>16 DEF RollbackFails
    <2>6. ObjectiveSaved(s)
      BY <1>0, <1>w, <2>2, <2>3, <2>4, <2>5
    <2> QED BY <1>16, <1>i, <1>k, <1>q, <2>6 DEF RollbackFails
  <1> QED
    BY <1>1, <1>2, <1>3, <1>4, <1>5, <1>6, <1>7, <1>9, <1>10, <1>11, <1>13, <1>14, <1>15, <1>16
    DEF SessionRequest, SessionProgress

\* The offline worker leaves its transaction, with at most one record, marker
\* or attempt to put the repositories back ...
OfflineLeaves ==
    LET op == offline.op IN
    /\ offline'.pc \notin UnderWay \cup {"finish"}
    /\ \/ /\ UNCHANGED disk
          /\ \/ UNCHANGED roots
             \/ \E m : SetMarker(m)
             \/ offline.pc = "swap" /\ \E l \in BOOLEAN : SetRepositories(roots[mounted].repositories, l)
       \/ /\ op \in Ops /\ UNCHANGED roots
          /\ \E r \in Records :
                /\ disk' = [disk EXCEPT ![op] = r] /\ GoalIsConsistent(r)
                /\ \/ offline.pc = "finish" /\ r.state = "AwaitingReboot" /\ r.goal = offline.mem.goal
                   \/ /\ offline.pc = "recover" /\ r.state = "NeedsRecovery"
                      /\ r.goal = disk[op].goal /\ r.boot_snapshot = disk[op].boot_snapshot

\* ... or goes on with it.
OfflineAdvances ==
    LET op == offline.op
        at == offline.pc
        q == offline'
    IN  /\ op \in Ops /\ q.op = op
        /\ \/ /\ at = "load" /\ q.pc = "revalidate" /\ UNCHANGED roots
              /\ disk[op].state = "ReadyToReboot" /\ q.mem.goal = disk[op].goal
              /\ \E r \in Records :
                    /\ disk' = [disk EXCEPT ![op] = r] /\ GoalIsConsistent(r)
                    /\ r.state = "ApplyingOffline" /\ r.goal = disk[op].goal
           \/ /\ UNCHANGED disk /\ q.mem = offline.mem
              /\ \/ at = "revalidate" /\ q.pc = "zypper" /\ UNCHANGED roots
                 \/ at = "zypper" /\ q.pc = "zypper" /\ SetPackages(op, "partial")
                 \/ /\ at = "zypper" /\ SetPackages(op, "new")
                    /\ q.pc = IF Kind[op] = "ReleaseUpgrade" THEN "repositories" ELSE "finish"
                 \/ /\ at = "repositories" /\ q.pc = "swap"
                    /\ SetRepositories(roots[mounted].repositories, FALSE)
                 \/ at = "swap" /\ q.pc = "finish" /\ SetRepositories(op, TRUE)

OfflineStep ==
    /\ mode = "offline"
    /\ UNCHANGED <<worker, session, verifier, snapshots, basis, mounted, clones, default, requests>>
    /\ OfflineLeaves \/ OfflineAdvances

\* Every step of the offline worker.
LEMMA OfflineSteps ==
    ASSUME TypeInvariant, OfflineProgress
    PROVE  OfflineStep
  <1> DEFINE op == offline.op
             mem == offline.mem
             at == offline.pc
  <1>0. /\ mode = "offline" /\ mem \in Records /\ disk \in [Ops -> Records]
        /\ at \notin {"idle", "resolve", "stopped", "stranded"} => op \in Ops
        /\ UNCHANGED <<worker, session, verifier, snapshots, basis, mounted, clones, default, requests>>
    BY DEF OfflineProgress, Resolve, LoadStaged, Revalidate, OfflineZypperWrites,
       OfflineZypperDone, MoveRepositoriesAway, InstallRepositories, SwapFails, PersistApplied,
       RemoveMarker, OfflineFails, MarkRecovery, RecoveryRefused, OfflineReboot, RebootFails,
       RebootRefused, SystemUpdateCleanup, OfflineAt, TypeInvariant, OfflinePart, OfflineStates, DiskPart,
       OnlyOffline, files, storage, platform, processes, bounds
  <1>q. OfflineLeaves \/ OfflineAdvances => OfflineStep
    BY <1>0 DEF OfflineStep
  <1>f. /\ \A pc : OfflineGoto(pc) => offline'.pc = pc /\ offline'.op = op /\ offline'.mem = mem
        /\ \A pc, r : offline' = [offline EXCEPT !.pc = pc, !.mem = r]
                          => offline'.pc = pc /\ offline'.op = op /\ offline'.mem = r
    BY OfflineFields
  <1>w. ASSUME NEW r \in Records, SaveState(op, r), op \in Ops, UNCHANGED roots,
               offline'.pc \notin UnderWay \cup {"finish"},
               \/ at = "finish" /\ r.state = "AwaitingReboot" /\ r.goal = mem.goal
               \/ /\ at = "recover" /\ r.state = "NeedsRecovery"
                  /\ r.goal = disk[op].goal /\ r.boot_snapshot = disk[op].boot_snapshot
        PROVE  OfflineStep
    <2>1. disk' = [disk EXCEPT ![op] = r] /\ GoalIsConsistent(r)
      BY <1>w DEF SaveState, ValidateState
    <2> QED BY <1>q, <1>w, <2>1 DEF OfflineLeaves
  <1>l. ASSUME offline'.pc \notin UnderWay \cup {"finish"}, UNCHANGED disk,
               UNCHANGED roots \/ \E m : SetMarker(m)
        PROVE  OfflineStep
    BY <1>l, <1>q DEF OfflineLeaves
  <1> USE DEF storage, OfflineAt
  <1>1. CASE Resolve
    <2>1. offline'.pc \in {"load", "stopped"} /\ UNCHANGED <<disk, roots>>
      BY <1>1 DEF Resolve, IdleOffline
    <2> QED BY <1>l, <2>1 DEF UnderWay
  <1>2. CASE LoadStaged
    <2> DEFINE r == TransitionTo(disk[op], "ApplyingOffline")
    <2>1. op \in Ops /\ at = "load" /\ disk[op].state = "ReadyToReboot" /\ UNCHANGED roots
      BY <1>0, <1>2 DEF LoadStaged
    <2>2. r \in Records /\ r.state = "ApplyingOffline" /\ r.goal = disk[op].goal
      BY <1>0, <2>1, TransitionType, TransitionFields DEF States
    <2>3. SaveState(op, r) /\ offline' = [offline EXCEPT !.pc = "revalidate", !.mem = r]
      BY <1>2 DEF LoadStaged
    <2> HIDE DEF r
    <2>4. offline'.pc = "revalidate" /\ offline'.op = op /\ offline'.mem = r
      BY <1>f, <2>3
    <2>5. disk' = [disk EXCEPT ![op] = r] /\ GoalIsConsistent(r)
      BY <2>3 DEF SaveState, ValidateState
    <2> QED BY <1>q, <2>1, <2>2, <2>4, <2>5 DEF OfflineAdvances
  <1>3. CASE Revalidate
    <2>1. /\ op \in Ops /\ at = "revalidate" /\ UNCHANGED <<disk, roots>>
          /\ offline'.pc = "zypper" /\ offline'.op = op /\ offline'.mem = mem
      BY <1>0, <1>3, <1>f DEF Revalidate
    <2> QED BY <1>q, <2>1 DEF OfflineAdvances
  <1>4. CASE OfflineZypperWrites
    <2>1. /\ op \in Ops /\ at = "zypper" /\ UNCHANGED <<disk, offline>> /\ SetPackages(op, "partial")
      BY <1>0, <1>4 DEF OfflineZypperWrites, processes
    <2> QED BY <1>q, <2>1 DEF OfflineAdvances
  <1>5. CASE OfflineZypperDone
    <2>1. /\ op \in Ops /\ at = "zypper" /\ UNCHANGED disk /\ SetPackages(op, "new")
          /\ offline'.pc = (IF Kind[op] = "ReleaseUpgrade" THEN "repositories" ELSE "finish")
          /\ offline'.op = op /\ offline'.mem = mem
      BY <1>0, <1>5, <1>f DEF OfflineZypperDone
    <2> QED BY <1>q, <2>1 DEF OfflineAdvances
  <1>6. CASE MoveRepositoriesAway
    <2>1. /\ op \in Ops /\ at = "repositories" /\ UNCHANGED disk
          /\ SetRepositories(roots[mounted].repositories, FALSE)
          /\ offline'.pc = "swap" /\ offline'.op = op /\ offline'.mem = mem
      BY <1>0, <1>6, <1>f DEF MoveRepositoriesAway
    <2> QED BY <1>q, <2>1 DEF OfflineAdvances
  <1>7. CASE InstallRepositories
    <2>1. /\ op \in Ops /\ at = "swap" /\ UNCHANGED disk /\ SetRepositories(op, TRUE)
          /\ offline'.pc = "finish" /\ offline'.op = op /\ offline'.mem = mem
      BY <1>0, <1>7, <1>f DEF InstallRepositories
    <2> QED BY <1>q, <2>1 DEF OfflineAdvances
  <1>8. CASE SwapFails
    <2>1. offline'.pc = "recover" /\ UNCHANGED disk
      BY <1>8, <1>f DEF SwapFails
    <2>2. at = "swap" /\ \E l \in BOOLEAN : SetRepositories(roots[mounted].repositories, l)
      BY <1>8 DEF SwapFails
    <2> QED BY <1>q, <2>1, <2>2 DEF OfflineLeaves, UnderWay
  <1>9. CASE PersistApplied
    <2> DEFINE r == TransitionTo(mem, "AwaitingReboot")
    <2>1. op \in Ops /\ at = "finish" /\ UNCHANGED roots
      BY <1>0, <1>9 DEF PersistApplied
    <2>2. r \in Records /\ r.state = "AwaitingReboot" /\ r.goal = mem.goal
      BY <1>0, TransitionType, TransitionFields DEF States
    <2>3. SaveState(op, r) /\ offline' = [offline EXCEPT !.pc = "unmark", !.mem = r]
      BY <1>9 DEF PersistApplied
    <2> HIDE DEF r
    <2>4. offline'.pc = "unmark"
      BY <1>f, <2>3
    <2> QED BY <1>w, <2>1, <2>2, <2>3, <2>4 DEF UnderWay
  <1>10. CASE MarkRecovery
    <2> DEFINE r == Settle(disk[op], "NeedsRecovery", "OFFLINE_APPLY_FAILED")
    <2>1. op \in Ops /\ at = "recover" /\ UNCHANGED roots /\ SaveState(op, r)
      BY <1>0, <1>10 DEF MarkRecovery
    <2>2. /\ r \in Records /\ r.state = "NeedsRecovery" /\ r.goal = disk[op].goal
          /\ r.boot_snapshot = disk[op].boot_snapshot
      BY <1>0, <2>1, SettleType, SettleFields, KeepsClone DEF States, ErrorCodes
    <2>3. offline'.pc = "unmarkFailed"
      BY <1>10, <1>f DEF MarkRecovery
    <2> HIDE DEF r
    <2> QED BY <1>w, <2>1, <2>2, <2>3 DEF UnderWay
  <1>11. CASE RemoveMarker \/ OfflineFails \/ RecoveryRefused \/ RebootFails \/ RebootRefused
    <2>1. offline'.pc \in {"reboot", "recover", "stopped", "stranded"} /\ UNCHANGED disk
      BY <1>11, <1>f DEF RemoveMarker, OfflineFails, RecoveryRefused, RebootFails, RebootRefused
    <2>2. UNCHANGED roots \/ SetMarker(NoOp)
      BY <1>11 DEF RemoveMarker, OfflineFails, RecoveryRefused, RebootFails, RebootRefused
    <2> QED BY <1>l, <2>1, <2>2 DEF UnderWay
  <1>12. CASE OfflineReboot \/ SystemUpdateCleanup
    <2>1. offline'.pc = "idle" /\ UNCHANGED disk /\ (UNCHANGED roots \/ SetMarker(NoOp))
      BY <1>12 DEF OfflineReboot, SystemUpdateCleanup, IdleOffline
    <2> QED BY <1>l, <2>1 DEF UnderWay
  <1> QED
    BY <1>1, <1>2, <1>3, <1>4, <1>5, <1>6, <1>7, <1>8, <1>9, <1>10, <1>11, <1>12
    DEF OfflineProgress

\* Processes end, the default subvolume is mounted, or a foreign marker is set.
PlatformStep ==
    /\ UNCHANGED <<disk, snapshots, basis, clones, default, requests>>
    /\ \/ /\ UNCHANGED <<roots, mounted>>
          /\ \A w \in Workers : worker'[w].pc = "idle"
          /\ \A s \in Sessions : session'[s].pc = "idle"
          /\ offline'.pc = "idle" /\ verifier'.pc = "idle" /\ verifier'.op = NoOp /\ verifier'.todo = {}
       \/ /\ UNCHANGED <<roots, worker, session>> /\ mode = "down" /\ mounted' = default
          /\ offline'.pc \in {"idle", "resolve"} /\ verifier'.pc \in {"idle", "acquire"}
          /\ verifier'.op = NoOp /\ verifier'.todo = {}
       \/ SetMarker(Foreign) /\ UNCHANGED <<worker, session, offline, verifier, mounted, mode>>

\* Power losses, restarts, boots and other updaters.
LEMMA PlatformSteps ==
    ASSUME ModePart, PowerLoss \/ Reboot \/ Boot \/ ForeignStage
    PROVE  PlatformStep
  <1> USE DEF files, storage, bounds, CountCrash, processes, platform
  <1>1. CASE PowerLoss \/ Reboot
    <2>1. Down /\ UNCHANGED requests
      BY <1>1 DEF PowerLoss, Reboot
    <2> QED BY <2>1 DEF Down, PlatformStep, IdleWorker, IdleSession, IdleOffline, IdleVerifier
  <1>2. CASE Boot
    <2>1. offline.pc = "idle" /\ verifier.pc = "idle" /\ verifier.op = NoOp /\ verifier.todo = {}
      BY <1>2 DEF Boot, ModePart
    <2>2. LET st == [IdleVerifier EXCEPT !.pc = "acquire"]
          IN  st.pc = "acquire" /\ st.op = NoOp /\ st.todo = {}
      BY DEF IdleVerifier
    <2>3. [IdleOffline EXCEPT !.pc = "resolve"].pc = "resolve"
      BY DEF IdleOffline
    <2> QED BY <1>2, <2>1, <2>2, <2>3 DEF Boot, PlatformStep
  <1>3. CASE ForeignStage
    BY <1>3 DEF ForeignStage, PlatformStep
  <1> QED BY <1>1, <1>2, <1>3

\* What each kind of write does to the roots.
LEMMA RootsWritten ==
    ASSUME TypeInvariant
    PROVE  /\ \A m : SetMarker(m) =>
                 \A v \in Subvolumes : /\ roots'[v].packages = roots[v].packages
                                       /\ roots'[v].repositories = roots[v].repositories
                                       /\ roots'[v].live = roots[v].live
           /\ \A op \in Ops : \A p : SetPackages(op, p) =>
                 /\ \A v \in Subvolumes \ {mounted} : roots'[v] = roots[v]
                 /\ roots'[mounted].packages[op] = p
                 /\ \A o \in Ops \ {op} : roots'[mounted].packages[o] = roots[mounted].packages[o]
                 /\ roots'[mounted].repositories = roots[mounted].repositories
                 /\ roots'[mounted].live = roots[mounted].live
           /\ \A op, l : SetRepositories(op, l) =>
                 /\ \A v \in Subvolumes \ {mounted} : roots'[v] = roots[v]
                 /\ roots'[mounted].packages = roots[mounted].packages
                 /\ roots'[mounted].repositories = op /\ roots'[mounted].live = l
  <1>0. /\ roots \in [Subvolumes -> Roots] /\ mounted \in Subvolumes /\ roots[mounted] \in Roots
        /\ roots[mounted].packages \in [Ops -> Progress]
    BY DEF TypeInvariant, StoragePart, Roots, Packages
  <1>1. ASSUME NEW m, SetMarker(m), NEW v \in Subvolumes
        PROVE  /\ roots'[v].packages = roots[v].packages
               /\ roots'[v].repositories = roots[v].repositories
               /\ roots'[v].live = roots[v].live
    BY <1>0, <1>1 DEF SetMarker, Roots
  <1>2. ASSUME NEW op \in Ops, NEW p, SetPackages(op, p)
        PROVE  /\ \A v \in Subvolumes \ {mounted} : roots'[v] = roots[v]
               /\ roots'[mounted].packages[op] = p
               /\ \A o \in Ops \ {op} : roots'[mounted].packages[o] = roots[mounted].packages[o]
               /\ roots'[mounted].repositories = roots[mounted].repositories
               /\ roots'[mounted].live = roots[mounted].live
    BY <1>0, <1>2 DEF SetPackages, Roots
  <1>3. ASSUME NEW op, NEW l, SetRepositories(op, l)
        PROVE  /\ \A v \in Subvolumes \ {mounted} : roots'[v] = roots[v]
               /\ roots'[mounted].packages = roots[mounted].packages
               /\ roots'[mounted].repositories = op /\ roots'[mounted].live = l
    BY <1>0, <1>3 DEF SetRepositories, Roots
  <1> QED BY <1>1, <1>2, <1>3

-----------------------------------------------------------------------------
(* What is written is written to a system that does not have it yet.       *)

\* What was proved of every reachable state so far.
Base ==
    /\ TypeInvariant /\ LockInv /\ SnapshotInvariant /\ ReplayInvariant /\ RecoveryInvariant

\* The parts of Base together.
LEMMA BaseInvariance == Spec => []Base
  <1>1. TypeInvariant /\ OneTransactionAtATime /\ SnapshotInvariant /\ ReplayInvariant
            /\ RecoveryInvariant => Base
    BY LockInvMeaning DEF Base
  <1> QED BY <1>1, TypeInvariance, MutualExclusion, SnapshotInvariance, ReplayInvariance,
             RecoveryInvariance, PTL

\* While a thread works, the machine is up and the offline worker is not.
LEMMA ThreadsAlone ==
    ASSUME Base, NEW w \in Workers, worker[w].pc # "idle"
    PROVE  mode = "up" /\ offline.pc = "idle"
  BY DEF Base, SnapshotInvariant, QuietPart, RecoveryInvariant, ModePart

\* An executor thread.
LEMMA WorkerStepChange ==
    ASSUME Base, ChangeInvariant, NEW w \in Workers, WorkerProgress(w) \/ WorkerDies(w)
    PROVE  ChangeInvariant'
  <1> DEFINE op == worker[w].op
  <1>0. WorkerEffect(w) /\ ThreadStep(w)
    BY WorkerEffects, ThreadSteps DEF Base, RecoveryInvariant
  <1>1. /\ UNCHANGED <<offline, mounted, clones, default>> /\ op \in Ops /\ worker[w].pc # "idle"
        /\ \A v \in Workers \ {w} : worker'[v] = worker[v]
        /\ worker'[w].pc = "idle" \/ worker'[w].op = op
    BY <1>0 DEF WorkerEffect
  <1>2. offline.pc = "idle"
    BY <1>1, ThreadsAlone
  <1>3. worker'[w].pc = "zypper" => Installed'[op] # "new"
    <2>1. CASE worker[w].pc = "apply" /\ UNCHANGED roots
      BY <1>1, <2>1 DEF Base, SnapshotInvariant, WorkerClean, ThreadIsClean, Installed
    <2>2. CASE SetPackages(op, "partial")
      BY <1>1, <2>2, RootsWritten DEF Base, Installed
    <2> QED BY <1>0, <2>1, <2>2 DEF ThreadStep
  <1>4. ASSUME NEW v \in Workers \ {w}, worker'[v].pc = "zypper"
        PROVE  Installed'[worker'[v].op] # "new"
    <2>1. worker[v].pc = "zypper" /\ Installed[worker[v].op] # "new" /\ worker[w].pc # "zypper"
      BY <1>1, <1>4 DEF ChangeInvariant, WritePart, Base, LockInv, WorkersHold, HoldsLock
    <2>2. UNCHANGED roots \/ \E m : SetMarker(m)
      BY <1>0, <2>1 DEF WorkerEffect
    <2>3. Installed' = Installed
      BY <1>1, <2>2, PackagesKept DEF Base
    <2> QED BY <1>1, <2>1, <2>3
  <1> QED BY <1>1, <1>2, <1>3, <1>4 DEF ChangeInvariant, ClonePart, WritePart

\* A request handler writes no root but a new clone.
LEMMA SessionStepChange ==
    ASSUME Base, ChangeInvariant, NEW s \in Sessions,
           SessionRequest(s) \/ SessionProgress(s) \/ SessionDies(s)
    PROVE  ChangeInvariant' /\ Installed' = Installed
  <1>0. SessionEffect(s)
    BY SessionEffects DEF Base, RecoveryInvariant, SnapshotInvariant
  <1>1. /\ mode = "up" /\ offline.pc = "idle" /\ UNCHANGED <<offline, mounted>>
    BY <1>0 DEF SessionEffect, Base, RecoveryInvariant, ModePart
  <1>2. /\ clones \in Nat /\ default \in Nat /\ mounted \in Nat /\ mounted \in Subvolumes
        /\ MaxClones \in Nat /\ roots \in [Subvolumes -> Roots]
    BY MachineAssumption DEF Base, TypeInvariant, StoragePart, Subvolumes
  <1>3. ClonePart' /\ Installed' = Installed
    <2>1. CASE UNCHANGED <<roots, clones, default>>
      BY <1>1, <2>1 DEF ChangeInvariant, ClonePart, Installed
    <2>2. CASE /\ clones' = clones + 1 /\ default' = clones + 1
               /\ roots' = [roots EXCEPT ![clones + 1] = snapshots[session[s].mem.snapshot_number].root]
      <3>1. mounted # clones + 1
        BY <1>2 DEF ChangeInvariant, ClonePart
      <3>2. Installed' = Installed
        BY <1>1, <1>2, <2>2, <3>1 DEF Installed
      <3>3. ClonePart'
        BY <1>1, <1>2, <2>2 DEF ChangeInvariant, ClonePart
      <3> QED BY <3>2, <3>3
    <2> QED BY <1>0, <2>1, <2>2 DEF SessionEffect, CloneMade
  <1>4. \A w \in Workers : worker'[w].pc = "zypper" => worker'[w] = worker[w]
    BY <1>0 DEF SessionEffect, ThreadSpawned
  <1> QED BY <1>1, <1>3, <1>4 DEF ChangeInvariant, WritePart

\* The offline worker.
LEMMA OfflineStepChange ==
    ASSUME Base, ChangeInvariant, OfflineProgress
    PROVE  ChangeInvariant'
  <1> DEFINE op == offline.op
  <1>0. OfflineStep
    BY OfflineSteps DEF Base
  <1>1. /\ mode = "offline" /\ UNCHANGED <<worker, mounted, clones, default>>
        /\ \A w \in Workers : worker[w].pc = "idle"
    BY <1>0 DEF OfflineStep, Base, SnapshotInvariant, QuietPart
  <1>2. CASE OfflineLeaves
    BY <1>1, <1>2 DEF OfflineLeaves, UnderWay, ChangeInvariant, ClonePart, WritePart
  <1>3. CASE OfflineAdvances
    <2>1. op \in Ops /\ offline'.op = op
      BY <1>3 DEF OfflineAdvances
    <2>2. offline'.pc = "zypper" => Installed'[op] # "new"
      <3>1. CASE offline.pc = "revalidate" /\ UNCHANGED roots
        BY <1>1, <3>1 DEF Base, RecoveryInvariant, HerePart, UnderWay, OfflineRuns, Installed
      <3>2. CASE SetPackages(op, "partial")
        BY <1>1, <2>1, <3>2, RootsWritten DEF Base, Installed
      <3> QED BY <1>3, <3>1, <3>2 DEF OfflineAdvances
    <2>3. offline'.pc = "finish" => Installed'[op] = "new"
      <3>1. CASE SetPackages(op, "new")
        BY <1>1, <2>1, <3>1, RootsWritten DEF Base, Installed
      <3>2. CASE offline.pc = "swap" /\ SetRepositories(op, TRUE)
        <4>1. Installed' = Installed
          BY <1>1, <3>2, PackagesKept DEF Base
        <4> QED BY <3>2, <4>1 DEF Base, RecoveryInvariant, HerePart, UnderWay, OfflineRuns
      <3> QED BY <1>3, <3>1, <3>2 DEF OfflineAdvances
    <2> QED BY <1>1, <2>1, <2>2, <2>3 DEF ChangeInvariant, ClonePart, WritePart
  <1> QED BY <1>0, <1>2, <1>3 DEF OfflineStep

\* Boots: nothing writes when the mounted root changes.
LEMMA PlatformStepChange ==
    ASSUME Base, ChangeInvariant, PowerLoss \/ Reboot \/ Boot \/ ForeignStage
    PROVE  ChangeInvariant'
  <1>0. PlatformStep
    BY PlatformSteps DEF Base, RecoveryInvariant
  <1>1. CASE /\ UNCHANGED mounted /\ \A w \in Workers : worker'[w].pc = "idle"
             /\ offline'.pc = "idle"
    BY <1>0, <1>1 DEF PlatformStep, ChangeInvariant, ClonePart, WritePart
  <1>2. CASE /\ UNCHANGED worker /\ mode = "down" /\ mounted' = default
             /\ offline'.pc \in {"idle", "resolve"}
    BY <1>0, <1>2 DEF PlatformStep, Base, SnapshotInvariant, QuietPart, ChangeInvariant,
       ClonePart, WritePart
  <1>3. CASE SetMarker(Foreign) /\ UNCHANGED <<worker, offline, mounted>>
    <2>1. Installed' = Installed
      BY <1>3, PackagesKept DEF Base
    <2> QED BY <1>0, <1>3, <2>1 DEF PlatformStep, ChangeInvariant, ClonePart, WritePart
  <1> QED BY <1>0, <1>1, <1>2, <1>3 DEF PlatformStep

\* ChangeInvariant is inductive: zypper runs only on a root that does not hold
\* the result yet, and a clone made by a rollback is never the mounted root.
THEOREM ChangeInvariance == Spec => []ChangeInvariant
  <1>1. Init => ChangeInvariant
    BY DEF Init, ChangeInvariant, ClonePart, WritePart, IdleWorker, IdleOffline
  <1>2. Base /\ ChangeInvariant /\ [Next]_vars => ChangeInvariant'
    <2> SUFFICES ASSUME Base, ChangeInvariant, [Next]_vars PROVE ChangeInvariant'
      OBVIOUS
    <2>1. CASE UNCHANGED vars
      BY <2>1 DEF vars, storage, platform, processes, ChangeInvariant, ClonePart, WritePart, Installed
    <2>2. CASE VerifierProgress \/ VerifierDies
      <3>1. VerifierEffect
        BY <2>2, VerifierEffects DEF Base, RecoveryInvariant
      <3> QED BY <3>1 DEF VerifierEffect, ChangeInvariant, ClonePart, WritePart, Installed
    <2>3. CASE Next
      BY <2>2, <2>3, WorkerStepChange, SessionStepChange, OfflineStepChange, PlatformStepChange
      DEF Next
    <2> QED BY <2>1, <2>3
  <1> QED BY <1>1, <1>2, BaseInvariance, PTL DEF Spec

-----------------------------------------------------------------------------
(* The storage implements ProtectedChange.                                 *)

Kept == Content' = Content /\ Copies' = Copies /\ UNCHANGED mounted

Protects ==
    \E op \in Ops :
        /\ Content[mounted][op] = "old"
        /\ Copies' = Copies \cup {[op |-> op, content |-> Content[mounted]]}
        /\ Content' = Content /\ UNCHANGED mounted

Changes ==
    \E op \in Ops, to \in {"partial", "new"} :
        /\ \E c \in Copies : c.op = op
        /\ Content[mounted][op] # "new"
        /\ Content' = [Content EXCEPT ![mounted][op] = to]
        /\ Copies' = Copies /\ UNCHANGED mounted

Restores ==
    \E v \in Subvolumes, c \in Copies :
        /\ v # mounted
        /\ Content' = [Content EXCEPT ![v] = c.content]
        /\ Copies' = Copies /\ UNCHANGED mounted

Boots == mounted' \in Subvolumes /\ Content' = Content /\ Copies' = Copies

\* No step changes the storage and a record at once.
StorageStep == Kept \/ (UNCHANGED disk /\ (Protects \/ Changes \/ Restores \/ Boots))

\* The copies are the clean snapshots, and grow with them.
LEMMA CopiesAre ==
    ASSUME TypeInvariant
    PROVE  /\ UNCHANGED snapshots => Copies' = Copies
           /\ \A op, n : CleanSnapshot(op, n) =>
                 [op |-> op, content |-> snapshots[n].root.packages] \in Copies
           /\ \A op \in Ops :
                 /\ snapshots' = Append(snapshots, [op |-> op, root |-> roots[mounted]])
                 /\ Installed[op] = "old"
                 => Copies' = Copies \cup {[op |-> op, content |-> Installed]}
  <1>0. /\ snapshots \in Seq(Snapshots) /\ roots[mounted] \in Roots /\ Len(snapshots) \in Nat
        /\ DOMAIN snapshots = 1..Len(snapshots)
    BY DEF TypeInvariant, StoragePart
  <1>1. UNCHANGED snapshots => Copies' = Copies
    BY DEF Copies, CleanSnapshot
  <1>2. \A op, n : CleanSnapshot(op, n) =>
           [op |-> op, content |-> snapshots[n].root.packages] \in Copies
    BY DEF Copies, CleanSnapshot
  <1>3. ASSUME NEW op \in Ops, Installed[op] = "old",
               snapshots' = Append(snapshots, [op |-> op, root |-> roots[mounted]])
        PROVE  Copies' = Copies \cup {[op |-> op, content |-> Installed]}
    <2> DEFINE e == [op |-> op, root |-> roots[mounted]]
               last == Len(snapshots) + 1
               Copy(x) == [op |-> x.op, content |-> x.root.packages]
               Clean(x) == x.root.packages[x.op] = "old"
    <2>1. /\ DOMAIN snapshots' = DOMAIN snapshots \cup {last} /\ snapshots'[last] = e
          /\ \A n \in DOMAIN snapshots : snapshots'[n] = snapshots[n]
      <3>1. e \in Snapshots
        BY <1>0 DEF Snapshots
      <3> QED BY <1>0, <1>3, <3>1
    <2>2. Clean(e) /\ Copy(e) = [op |-> op, content |-> Installed]
      BY <1>3 DEF Installed
    <2>3. /\ \A c : c \in Copies <=> \E n \in DOMAIN snapshots : Clean(snapshots[n]) /\ c = Copy(snapshots[n])
          /\ \A c : c \in Copies' <=> \E n \in DOMAIN snapshots' : Clean(snapshots'[n]) /\ c = Copy(snapshots'[n])
      BY DEF Copies, CleanSnapshot
    <2> HIDE DEF Clean, Copy, e, last
    <2>4. \A c : c \in Copies' <=> c \in Copies \/ c = Copy(e)
      BY <2>1, <2>2, <2>3
    <2> QED BY <2>2, <2>4
  <1> QED BY <1>1, <1>2, <1>3

\* What a write to the roots is for the contents.
LEMMA ContentIs ==
    ASSUME TypeInvariant
    PROVE  /\ Content[mounted] = Installed
           /\ UNCHANGED roots \/ (\E m : SetMarker(m)) \/ (\E o, l : SetRepositories(o, l))
                 => Content' = Content
           /\ \A op \in Ops : \A p : SetPackages(op, p) =>
                 Content' = [Content EXCEPT ![mounted][op] = p]
           /\ \A v \in Subvolumes : \A R : roots' = [roots EXCEPT ![v] = R] =>
                 Content' = [Content EXCEPT ![v] = R.packages]
  <1>0. /\ roots \in [Subvolumes -> Roots] /\ mounted \in Subvolumes /\ roots[mounted] \in Roots
        /\ \A v \in Subvolumes : roots[v].packages \in [Ops -> Progress]
    BY DEF TypeInvariant, StoragePart, Roots, Packages
  <1>1. Content[mounted] = Installed
    BY <1>0 DEF Content, Installed
  <1>2. /\ UNCHANGED roots => Content' = Content
        /\ \A m : SetMarker(m) => Content' = Content
        /\ \A o, l : SetRepositories(o, l) => Content' = Content
    <2>1. ASSUME \A v \in Subvolumes : roots'[v].packages = roots[v].packages
          PROVE  Content' = Content
      BY <2>1 DEF Content
    <2>2. ASSUME NEW m, SetMarker(m) PROVE Content' = Content
      <3>1. \A v \in Subvolumes : roots'[v].packages = roots[v].packages
        BY <1>0, <2>2, RootsWritten
      <3> QED BY <2>1, <3>1
    <2>3. ASSUME NEW o, NEW l, SetRepositories(o, l) PROVE Content' = Content
      <3>1. \A v \in Subvolumes : roots'[v].packages = roots[v].packages
        BY <1>0, <2>3, RootsWritten
      <3> QED BY <2>1, <3>1
    <2> QED BY <2>1, <2>2, <2>3
  <1>3. ASSUME NEW op \in Ops, NEW p, SetPackages(op, p)
        PROVE  Content' = [Content EXCEPT ![mounted][op] = p]
    <2>1. \A v \in Subvolumes \ {mounted} : roots'[v] = roots[v]
      BY <1>3, RootsWritten
    <2>2. roots'[mounted].packages = [roots[mounted].packages EXCEPT ![op] = p]
      BY <1>0, <1>3 DEF SetPackages, Roots
    <2>3. \A v \in Subvolumes :
             Content'[v] = IF v = mounted THEN [roots[mounted].packages EXCEPT ![op] = p]
                           ELSE roots[v].packages
      BY <1>0, <2>1, <2>2 DEF Content
    <2>4. [Content EXCEPT ![mounted][op] = p] =
             [v \in Subvolumes |-> IF v = mounted THEN [roots[mounted].packages EXCEPT ![op] = p]
                                   ELSE roots[v].packages]
      BY <1>0 DEF Content
    <2> QED BY <2>3, <2>4 DEF Content
  <1>4. ASSUME NEW v \in Subvolumes, NEW R, roots' = [roots EXCEPT ![v] = R]
        PROVE  Content' = [Content EXCEPT ![v] = R.packages]
    BY <1>0, <1>4 DEF Content
  <1> QED BY <1>1, <1>2, <1>3, <1>4

\* Every step of the machine, seen from its storage.
LEMMA StorageSteps ==
    ASSUME Base, ChangeInvariant, Next
    PROVE  StorageStep
  <1>0. /\ TypeInvariant /\ mounted \in Subvolumes /\ clones \in Nat /\ MaxClones \in Nat
        /\ mounted \in Nat
    BY MachineAssumption DEF Base, TypeInvariant, StoragePart, Subvolumes
  <1>k. ASSUME UNCHANGED <<mounted, snapshots>>,
               UNCHANGED roots \/ (\E m : SetMarker(m)) \/ (\E o, l : SetRepositories(o, l))
        PROVE  StorageStep
    BY <1>0, <1>k, CopiesAre, ContentIs DEF StorageStep, Kept
  <1>z. ASSUME NEW op \in Ops, NEW to \in {"partial", "new"}, SetPackages(op, to), UNCHANGED disk,
               UNCHANGED <<mounted, snapshots>>, HasSnapshot(op), Installed[op] # "new"
        PROVE  StorageStep
    <2>1. \E c \in Copies : c.op = op
      <3>1. PICK n : CleanSnapshot(op, n)
        BY <1>z DEF HasSnapshot
      <3>2. [op |-> op, content |-> snapshots[n].root.packages] \in Copies
        BY <1>0, <3>1, CopiesAre
      <3> QED BY <3>2
    <2>2. /\ Content[mounted][op] # "new" /\ Copies' = Copies
          /\ Content' = [Content EXCEPT ![mounted][op] = to]
      BY <1>0, <1>z, CopiesAre, ContentIs
    <2>3. Changes
      BY <1>z, <2>1, <2>2 DEF Changes
    <2> QED BY <1>z, <2>3 DEF StorageStep
  <1>1. ASSUME NEW w \in Workers, WorkerProgress(w) \/ WorkerDies(w) PROVE StorageStep
    <2> DEFINE op == worker[w].op
    <2>0. WorkerEffect(w) /\ ThreadStep(w)
      BY <1>1, WorkerEffects, ThreadSteps DEF Base, RecoveryInvariant
    <2>1. UNCHANGED mounted /\ op \in Ops /\ worker[w].pc # "idle"
      BY <2>0 DEF WorkerEffect
    <2>c. ThreadIsClean(worker[w])
      BY <2>1 DEF Base, SnapshotInvariant, WorkerClean
    <2>2. CASE UNCHANGED <<roots, snapshots>>
      BY <1>k, <2>1, <2>2
    <2>3. CASE UNCHANGED disk
      <3>1. CASE (\E m : SetMarker(m)) /\ UNCHANGED snapshots
        BY <1>k, <2>1, <3>1
      <3>2. ASSUME worker[w].pc = "zypper", UNCHANGED snapshots, NEW p \in {"partial", "new"},
                   SetPackages(op, p)
            PROVE  StorageStep
        <4>1. HasSnapshot(op)
          BY <2>c, <3>2 DEF ThreadIsClean, CleanTarget, HasSnapshot, CleanSnapshot
        <4>2. Installed[op] # "new"
          BY <3>2 DEF ChangeInvariant, WritePart
        <4> QED BY <1>z, <2>1, <2>3, <3>2, <4>1, <4>2
      <3>3. CASE /\ worker[w].pc = "create" /\ UNCHANGED roots
                 /\ snapshots' = Append(snapshots, [op |-> op, root |-> roots[mounted]])
        <4>1. Installed[op] = "old"
          BY <2>c, <3>3 DEF ThreadIsClean
        <4>2. Copies' = Copies \cup {[op |-> op, content |-> Installed]}
          BY <1>0, <2>1, <3>3, <4>1, CopiesAre
        <4>3. Content[mounted] = Installed /\ Content' = Content
          BY <1>0, <3>3, ContentIs
        <4>4. Protects
          BY <2>1, <4>1, <4>2, <4>3 DEF Protects
        <4> QED BY <2>3, <4>4 DEF StorageStep
      <3> QED BY <2>0, <2>2, <3>1, <3>2, <3>3 DEF WorkerEffect
    <2> QED BY <2>0, <2>2, <2>3 DEF ThreadStep
  <1>2. ASSUME NEW s \in Sessions, SessionRequest(s) \/ SessionProgress(s) \/ SessionDies(s)
        PROVE  StorageStep
    <2> DEFINE mem == session[s].mem
               n == mem.snapshot_number
    <2>0. SessionEffect(s) /\ RequestStep(s)
      BY <1>2, SessionEffects, RequestSteps DEF Base, RecoveryInvariant, SnapshotInvariant
    <2>1. UNCHANGED <<mounted, snapshots>>
      BY <2>0 DEF SessionEffect
    <2>2. CASE UNCHANGED roots
      BY <1>k, <2>1, <2>2
    <2>3. CASE /\ session[s].pc = "rollback" /\ clones < MaxClones /\ UNCHANGED disk
               /\ roots' = [roots EXCEPT ![clones + 1] = snapshots[n].root]
      <3>1. CleanSnapshot(session[s].op, n)
        BY <2>3 DEF Base, SnapshotInvariant, SessionClean, RequestIsClean, CleanTarget,
           TypeInvariant, SessionPart
      <3>2. clones + 1 \in Subvolumes /\ clones + 1 # mounted
        BY <1>0, <2>3 DEF Subvolumes, ChangeInvariant, ClonePart
      <3> DEFINE c == [op |-> session[s].op, content |-> snapshots[n].root.packages]
      <3>3. c \in Copies /\ c.content = snapshots[n].root.packages /\ Copies' = Copies
        BY <1>0, <2>1, <3>1, CopiesAre
      <3>4. Content' = [Content EXCEPT ![clones + 1] = snapshots[n].root.packages]
        BY <1>0, <2>3, <3>2, ContentIs
      <3> HIDE DEF c
      <3>5. Restores
        BY <2>1, <3>2, <3>3, <3>4 DEF Restores
      <3> QED BY <2>3, <3>5 DEF StorageStep
    <2> QED BY <2>0, <2>2, <2>3 DEF SessionEffect, CloneMade, RequestStep, ObjectiveSaved
  <1>3. CASE OfflineProgress
    <2> DEFINE op == offline.op
    <2>0. OfflineStep
      BY <1>3, OfflineSteps DEF Base
    <2>1. UNCHANGED <<mounted, snapshots>>
      BY <2>0 DEF OfflineStep
    <2>2. CASE UNCHANGED roots \/ (\E m : SetMarker(m)) \/ (\E o, l : SetRepositories(o, l))
      BY <1>k, <2>1, <2>2
    <2>3. ASSUME op \in Ops, offline.pc = "zypper", UNCHANGED disk, NEW p \in {"partial", "new"},
                 SetPackages(op, p)
          PROVE  StorageStep
      <3>1. HasSnapshot(op)
        BY <2>3 DEF Base, SnapshotInvariant, OfflineClean, CleanTarget, HasSnapshot, CleanSnapshot
      <3>2. Installed[op] # "new"
        BY <2>3 DEF ChangeInvariant, WritePart
      <3> QED BY <1>z, <2>1, <2>3, <3>1, <3>2
    <2>4. CASE OfflineLeaves
      BY <2>2, <2>4 DEF OfflineLeaves
    <2>5. CASE OfflineAdvances
      BY <2>2, <2>3, <2>5 DEF OfflineAdvances
    <2> QED BY <2>0, <2>4, <2>5 DEF OfflineStep
  <1>4. CASE VerifierProgress \/ VerifierDies
    <2>1. VerifierEffect
      BY <1>4, VerifierEffects DEF Base, RecoveryInvariant
    <2> QED BY <1>k, <2>1 DEF VerifierEffect
  <1>5. CASE PowerLoss \/ Reboot \/ Boot \/ ForeignStage
    <2>0. PlatformStep
      BY <1>5, PlatformSteps DEF Base, RecoveryInvariant
    <2>1. CASE UNCHANGED mounted /\ (UNCHANGED roots \/ SetMarker(Foreign))
      BY <1>k, <2>0, <2>1 DEF PlatformStep
    <2>2. CASE UNCHANGED roots /\ mounted' = default
      <3>1. Content' = Content /\ Copies' = Copies /\ mounted' \in Subvolumes
        BY <1>0, <2>0, <2>2, CopiesAre, ContentIs DEF PlatformStep, TypeInvariant, StoragePart
      <3> QED BY <2>0, <3>1 DEF PlatformStep, StorageStep, Boots
    <2> QED BY <2>0, <2>1, <2>2 DEF PlatformStep
  <1> QED BY <1>1, <1>2, <1>3, <1>4, <1>5 DEF Next

\* At the start no root holds anything and nothing is put aside.
LEMMA StorageInit ==
    ASSUME Init
    PROVE  /\ Content = [v \in Subvolumes |-> [o \in Ops |-> "old"]]
           /\ mounted \in Subvolumes /\ Copies = {}
           /\ \A op \in Ops : Outcome(disk[op]) = "open"
  <1>1. Content = [v \in Subvolumes |-> [o \in Ops |-> "old"]]
    BY DEF Init, Content, NewRoot, Untouched
  <1>2. mounted \in Subvolumes /\ Copies = {}
    BY MachineAssumption DEF Init, Subvolumes, Copies
  <1>3. \A op \in Ops : Outcome(disk[op]) = "open"
    BY ConstantRecords DEF Init, Outcome, AbsentRecord
  <1> QED BY <1>1, <1>2, <1>3

\* The storage implements ProtectedChange (ImplementsProtection): packages are
\* written only under a snapshot of the untouched system and never again over a
\* result, what a rollback brings up is the content of such a snapshot, beside
\* the mounted root, and a boot changes nothing else.
THEOREM StorageProtected == Spec => ImplementsProtection
  <1>1. Init => Protection!Init
    BY StorageInit DEF Protection!Init
  <1>2. Base /\ ChangeInvariant /\ [Next]_vars => [Protection!Next]_(Protection!vars)
    <2> SUFFICES ASSUME Base, ChangeInvariant, [Next]_vars
                 PROVE  [Protection!Next]_(Protection!vars)
      OBVIOUS
    <2>1. CASE Next
      <3>1. StorageStep
        BY <2>1, StorageSteps
      <3>2. CASE Kept
        BY <3>2 DEF Kept, Protection!vars
      <3>3. CASE Protects
        BY <3>3 DEF Protects, Protection!Next, Protection!Protect
      <3>4. CASE Changes
        BY <3>4 DEF Changes, Protection!Next, Protection!Change
      <3>5. CASE Restores
        BY <3>5 DEF Restores, Protection!Next, Protection!Restore
      <3>6. CASE Boots
        BY <3>6 DEF Boots, Protection!Next, Protection!Boot
      <3> QED BY <3>1, <3>2, <3>3, <3>4, <3>5, <3>6 DEF StorageStep
    <2>2. CASE UNCHANGED vars
      <3>1. Content' = Content /\ Copies' = Copies /\ UNCHANGED mounted
        BY <2>2, CopiesAre DEF Content, vars, storage, platform, Base
      <3> QED BY <3>1 DEF Protection!vars
    <2> QED BY <2>1, <2>2
  <1> QED BY <1>1, <1>2, BaseInvariance, ChangeInvariance, PTL
      DEF Spec, ImplementsProtection, Protection!Spec

-----------------------------------------------------------------------------
(* Completed tells the truth: the invariant that holds in general.         *)

\* The only release upgrades a step may newly declare are those it lists.
NoneDeclared == \A op \in Ops : Kind[op] = "ReleaseUpgrade" /\ Declared(op)' => Declared(op)

PlansKept == \A op \in Ops : HasSnapshot(op) => basis'[op] = basis[op]

\* A root that contains anything of an operation is one a snapshot undoes.
LEMMA RootsUndoable ==
    ASSUME Base
    PROVE  \A R \in AllRoots, op \in Ops : R.packages[op] # "old" => HasSnapshot(op)
  BY RootsAre DEF Base, SnapshotInvariant, StorageClean, Undoable

\* An operation with a snapshot was started.
LEMMA SnapshotStarted ==
    ASSUME Base, NEW op \in Ops, HasSnapshot(op)
    PROVE  starts[op] # 0
  BY DEF Base, SnapshotInvariant, StorageClean, HasSnapshot, CleanSnapshot

\* A step that brings no new root and declares nothing keeps the two parts
\* about the repositories.
LEMMA ReleasesKept ==
    ASSUME Base, RepositoriesPart, DeclaredPart, RootsCopied, NoneDeclared, PlansKept
    PROVE  RepositoriesPart' /\ DeclaredPart'
  <1>1. RepositoriesPart'
    <2> SUFFICES ASSUME NEW R \in AllRoots', NEW op \in Ops, R.repositories = op
                 PROVE  Kind[op] = "ReleaseUpgrade" /\ R.packages[op] = "new"
      BY DEF RepositoriesPart
    <2>1. PICK Q \in AllRoots : Same(R, Q)
      BY DEF RootsCopied
    <2>2. Kind[op] = "ReleaseUpgrade" /\ Q.packages[op] = "new"
      BY <2>1 DEF Same, RepositoriesPart
    <2> QED BY <2>1, <2>2, SignedKinds DEF Same
  <1>2. DeclaredPart'
    <2> SUFFICES ASSUME NEW op \in Ops, Kind[op] = "ReleaseUpgrade", Declared(op)',
                        NEW R \in AllRoots', RunsRelease(R, op)'
                 PROVE  R.live /\ R.repositories = op
      BY DEF DeclaredPart
    <2>1. PICK Q \in AllRoots : Same(R, Q)
      BY DEF RootsCopied
    <2>2. \A o \in Ops : Kind[o] = "ReleaseUpgrade" => R.packages[o] = Q.packages[o]
      BY <2>1, SignedKinds DEF Same
    <2>3. Q.packages[op] = "new"
      BY <2>2 DEF RunsRelease
    <2>4. basis'[op] = basis[op]
      BY <2>1, <2>3, RootsUndoable DEF PlansKept
    <2>5. RunsRelease(Q, op)
      BY <2>2, <2>3, <2>4 DEF RunsRelease
    <2>6. Declared(op)
      BY DEF NoneDeclared
    <2>7. Q.live /\ Q.repositories = op
      BY <2>5, <2>6 DEF DeclaredPart
    <2> QED BY <2>1, <2>7 DEF Same
  <1> QED BY <1>1, <1>2

\* A clone that was selected stays clear of the operation.
LEMMA BackToKept ==
    ASSUME TypeInvariant, NEW op \in Ops, NEW r \in Records, BackTo(op, r), SpentStays,
           UNCHANGED mounted, clones' = clones \/ clones' = clones + 1,
           \A v \in Subvolumes :
              v <= clones /\ roots[v].packages[op] = "old" /\ (v = mounted => Spent(op))
                  => roots'[v].packages[op] = "old"
    PROVE  BackTo(op, r)'
  <1> SUFFICES ASSUME r.goal, r.boot_snapshot # 0
               PROVE  /\ r.boot_snapshot <= clones' /\ roots'[r.boot_snapshot].packages[op] = "old"
                      /\ r.boot_snapshot = mounted' => Spent(op)'
    BY DEF BackTo
  <1>0. r.boot_snapshot \in Nat /\ clones \in 0..MaxClones /\ MaxClones \in Nat
    BY MachineAssumption DEF Records, TypeInvariant, StoragePart, Subvolumes
  <1>1. /\ r.boot_snapshot <= clones /\ roots[r.boot_snapshot].packages[op] = "old"
        /\ r.boot_snapshot = mounted => Spent(op)
    BY DEF BackTo
  <1>2. r.boot_snapshot \in Subvolumes /\ r.boot_snapshot <= clones'
    BY <1>0, <1>1 DEF Subvolumes
  <1> QED BY <1>1, <1>2 DEF SpentStays

\* An executor thread saves no objective and keeps away from spent operations.
LEMMA WorkerStepTruth ==
    ASSUME Base, ChangeInvariant, TruthInvariant, NEW w \in Workers,
           WorkerProgress(w) \/ WorkerDies(w)
    PROVE  TruthInvariant'
  <1> DEFINE op == worker[w].op
             mem == worker[w].mem
  <1>0. WorkerEffect(w) /\ ThreadStep(w) /\ SpentStays
    BY WorkerEffects, ThreadSteps, WorkerStepRecovery DEF Base, RecoveryInvariant
  <1>u. /\ UNCHANGED <<session, offline, verifier, mode, mounted, basis, clones, default>>
        /\ worker[w].pc # "idle" /\ op \in Ops
        /\ \A v \in Workers \ {w} : worker'[v] = worker[v]
        /\ \A o \in Ops \ {op} : disk'[o] = disk[o]
    BY <1>0 DEF WorkerEffect
  <1>t. /\ TypeInvariant /\ disk \in [Ops -> Records] /\ mem \in Records
        /\ mounted \in Subvolumes /\ offline.pc = "idle"
    BY <1>u, ThreadsAlone DEF Base, TypeInvariant, DiskPart, WorkerPart, WorkerStates, StoragePart
  <1>m. ~mem.goal /\ mem.state \notin {"AwaitingReboot", "VerifyingBoot"}
    BY <1>u DEF TruthInvariant, ValidPart
  <1>z. worker[w].pc \in {"zypper", "finish"} => ~Signed(op)
    BY DEF Base, ReplayInvariant, WorkerUnfinished
  <1>d. \/ UNCHANGED disk
        \/ /\ ~disk'[op].goal
           /\ disk'[op].state \in {"AwaitingReboot", "VerifyingBoot"} => ~Signed(op)
    <2>1. ASSUME NEW r \in Records, disk' = [disk EXCEPT ![op] = r], r.goal = mem.goal,
                 worker[w].pc # "finish" =>
                     r.state \notin {"AwaitingReboot", "VerifyingBoot", "Completed"} \ {mem.state}
          PROVE  /\ ~disk'[op].goal
                 /\ disk'[op].state \in {"AwaitingReboot", "VerifyingBoot"} => ~Signed(op)
      <3>1. disk'[op] = r
        BY <1>t, <1>u, <2>1
      <3> QED BY <1>m, <1>z, <2>1, <3>1
    <2> QED BY <1>0, <2>1 DEF ThreadStep
  <1>e. \/ UNCHANGED <<roots, snapshots>>
        \/ (\E m : SetMarker(m)) /\ UNCHANGED snapshots
        \/ /\ worker[w].pc = "zypper" /\ UNCHANGED snapshots
           /\ \E p \in {"partial", "new"} : SetPackages(op, p)
        \/ /\ worker[w].pc = "create" /\ UNCHANGED roots
           /\ snapshots' = Append(snapshots, [op |-> op, root |-> roots[mounted]])
    BY <1>0 DEF WorkerEffect
  <1>ty. TypeInvariant
    BY DEF Base
  <1>c. RootsCopied
    <2>1. CASE worker[w].pc = "zypper"
      BY <1>e, <1>ty, <1>u, <1>z, <2>1, CopiesOnly
    <2>2. CASE worker[w].pc # "zypper"
      BY <1>e, <1>ty, <1>u, <2>2, CopiesOnly
    <2> QED BY <2>1, <2>2
  <1>k. ASSUME NEW v \in Subvolumes, NEW o \in Ops, o # op \/ v # mounted \/ worker[w].pc # "zypper"
        PROVE  roots'[v].packages[o] = roots[v].packages[o]
    <2>1. CASE UNCHANGED roots
      BY <2>1
    <2>2. ASSUME NEW m, SetMarker(m) PROVE roots'[v].packages[o] = roots[v].packages[o]
      BY <1>ty, <2>2, RootsWritten
    <2>3. ASSUME NEW p, SetPackages(op, p), worker[w].pc = "zypper"
          PROVE roots'[v].packages[o] = roots[v].packages[o]
      BY <1>k, <1>ty, <1>u, <2>3, RootsWritten
    <2> QED BY <1>e, <2>1, <2>2, <2>3
  <1>b. ASSUME NEW o \in Ops, NEW r \in Records, BackTo(o, r) PROVE BackTo(o, r)'
    <2>1. ASSUME NEW v \in Subvolumes, v = mounted => Spent(o)
          PROVE  roots'[v].packages[o] = roots[v].packages[o]
      <3>1. o # op \/ v # mounted
        BY <1>u, <2>1 DEF Spent
      <3> QED BY <1>k, <3>1
    <2> QED BY <1>0, <1>b, <1>t, <1>u, <2>1, BackToKept
  <1>1. ValidPart'
    <2>1. \A o \in Ops : GoalIsConsistent(disk'[o])
      BY <1>d, <1>u DEF TruthInvariant, ValidPart, GoalIsConsistent
    <2>2. worker'[w].pc # "idle" =>
             ~worker'[w].mem.goal /\ worker'[w].mem.state \notin {"AwaitingReboot", "VerifyingBoot"}
      BY <1>0, <1>m DEF ThreadStep
    <2> QED BY <1>u, <2>1, <2>2 DEF TruthInvariant, ValidPart
  <1>2. RepositoriesPart' /\ DeclaredPart'
    <2>1. NoneDeclared
      BY <1>d, <1>u, SignedKinds DEF NoneDeclared, Declared
    <2> QED BY <1>c, <1>u, <2>1, ReleasesKept DEF TruthInvariant, PlansKept
  <1>3. LandedPart'
    BY <1>t, <1>u DEF LandedPart
  <1>4. GoalPart'
    <2>1. ASSUME NEW o \in Ops PROVE BackTo(o, disk[o])'
      <3>1. CASE disk'[o] = disk[o]
        BY <1>b, <1>t, <3>1 DEF TruthInvariant, GoalPart, BackTo
      <3>2. CASE ~disk'[o].goal
        BY <3>2 DEF BackTo
      <3> QED BY <1>d, <1>u, <3>1, <3>2
    <2>2. ASSUME NEW s \in Sessions, session[s].pc \in {"keep", "intent", "rollback", "selected"}
          PROVE  BackTo(session[s].op, session[s].mem)'
      <3>1. session[s].op \in Ops /\ session[s].mem \in Records /\ BackTo(session[s].op, session[s].mem)
        BY <2>2 DEF Base, TypeInvariant, SessionPart, SessionStates, TruthInvariant, GoalPart
      <3> QED BY <1>b, <1>u, <3>1 DEF BackTo
    <2>3. ASSUME verifier.op \in Ops PROVE BackTo(verifier.op, verifier.mem)'
      <3>1. verifier.mem \in Records /\ BackTo(verifier.op, verifier.mem)
        BY <2>3 DEF Base, TypeInvariant, VerifierPart, VerifierStates, TruthInvariant, GoalPart
      <3> QED BY <1>b, <1>u, <2>3, <3>1 DEF BackTo
    <2> QED BY <1>u, <2>1, <2>2, <2>3 DEF GoalPart
  <1>5. SelectedPart'
    <2> SUFFICES ASSUME NEW s \in Sessions, session[s].pc = "selected"
                 PROVE  /\ default = clones /\ default \notin {0, mounted}
                        /\ roots'[default].packages[session[s].op] = "old"
      BY <1>u DEF SelectedPart
    <2>1. /\ default = clones /\ default \notin {0, mounted} /\ session[s].op \in Ops
          /\ roots[default].packages[session[s].op] = "old" /\ default \in Subvolumes
      BY DEF TruthInvariant, SelectedPart, Base, TypeInvariant, SessionPart, StoragePart
    <2> QED BY <1>k, <2>1
  <1> QED BY <1>1, <1>2, <1>3, <1>4, <1>5 DEF TruthInvariant

\* The verifier saves the objective it read, and none for what it reconciles.
LEMMA VerifierStepTruth ==
    ASSUME Base, ChangeInvariant, TruthInvariant, VerifierProgress \/ VerifierDies
    PROVE  TruthInvariant'
  <1> DEFINE op == verifier.op
             mem == verifier.mem
             q == verifier'
             Saved(o, r) ==
                /\ disk' = [disk EXCEPT ![o] = r] /\ GoalIsConsistent(r)
                /\ \/ ~r.goal /\ r.state \notin {"AwaitingReboot", "VerifyingBoot"}
                   \/ o = op /\ r.goal = mem.goal /\ r.boot_snapshot = mem.boot_snapshot
  <1>0. /\ VerifierEffect /\ SpentStays /\ TypeInvariant /\ TypeInvariant'
    <2>1. Next
      BY DEF Next
    <2> QED BY <2>1, VerifierEffects, NextSpent, NextType DEF Base, RecoveryInvariant
  <1>u. UNCHANGED <<worker, session, offline, mode, mounted, basis, roots, clones, default, snapshots>>
    BY <1>0 DEF VerifierEffect
  <1>t. /\ disk \in [Ops -> Records] /\ \A o \in q.todo : q.scanned[o].state \in InProgress
        /\ NoOp \notin Ops
    BY <1>0, MachineAssumption DEF TypeInvariant, DiskPart, VerifierPart
  <1>w. UNCHANGED disk \/ \E o \in Ops, r \in Records : Saved(o, r)
    <2>1. ASSUME NEW o \in Ops, NEW r \in Records,
                 disk' = [disk EXCEPT ![o] = r], GoalIsConsistent(r), o \in verifier.todo,
                 r.goal = verifier.scanned[o].goal, r.state = InterruptedState(verifier.scanned[o].state)
          PROVE  Saved(o, r)
      BY <2>1 DEF TruthInvariant, ValidPart, InterruptedState
    <2> QED BY <1>0, <2>1 DEF VerifierEffect
  <1>v. \/ q.op = NoOp
        \/ q.op = op /\ q.mem.goal = mem.goal /\ q.mem.boot_snapshot = mem.boot_snapshot
        \/ Candidate(q.op) /\ q.mem = disk[q.op] /\ UNCHANGED disk
    BY <1>0 DEF VerifierEffect
  <1>s. \A o \in q.todo :
          \/ o \in verifier.todo /\ q.scanned[o] = verifier.scanned[o]
          \/ q.scanned[o] = disk[o]
    BY <1>0 DEF VerifierEffect
  <1>td. q.todo \subseteq Ops
    BY <1>0 DEF TypeInvariant, VerifierPart, VerifierStates
  <1> HIDE DEF q
  <1>b. ASSUME NEW o \in Ops, NEW r \in Records, BackTo(o, r) PROVE BackTo(o, r)'
    BY <1>0, <1>b, <1>u, BackToKept
  <1>1. ValidPart'
    <2>1. ASSUME NEW o \in Ops PROVE GoalIsConsistent(disk'[o])
      <3>1. CASE disk'[o] = disk[o]
        BY <3>1 DEF TruthInvariant, ValidPart
      <3>2. CASE GoalIsConsistent(disk'[o])
        BY <3>2
      <3> QED BY <1>t, <1>w, <3>1, <3>2
    <2>2. q.op \in Ops /\ q.mem.goal => q.mem.boot_snapshot # 0
      <3>1. CASE q.op = op /\ q.mem.goal = mem.goal /\ q.mem.boot_snapshot = mem.boot_snapshot
        BY <3>1 DEF TruthInvariant, ValidPart
      <3>2. CASE Candidate(q.op) /\ q.mem = disk[q.op]
        BY <3>2 DEF Candidate, TruthInvariant, ValidPart, GoalIsConsistent
      <3> QED BY <1>t, <1>v, <3>1, <3>2
    <2>3. ASSUME NEW o \in q.todo PROVE ~q.scanned[o].goal
      <3>1. CASE o \in verifier.todo /\ q.scanned[o] = verifier.scanned[o]
        BY <3>1 DEF TruthInvariant, ValidPart
      <3>2. CASE q.scanned[o] = disk[o]
        BY <1>t, <1>td, <3>2 DEF InProgress, TruthInvariant, ValidPart, GoalIsConsistent
      <3> QED BY <1>s, <3>1, <3>2
    <2> QED BY <1>u, <2>1, <2>2, <2>3 DEF TruthInvariant, ValidPart, q
  <1>2. RepositoriesPart' /\ DeclaredPart'
    <2>1. RootsCopied
      BY <1>0, <1>u, CopiesOnly
    <2>2. ASSUME NEW o \in Ops, Declared(o)' PROVE Declared(o)
      <3>1. CASE disk'[o].state \in {"AwaitingReboot", "VerifyingBoot"} /\ ~disk'[o].goal
        <4>1. CASE disk'[o] = disk[o]
          BY <3>1, <4>1 DEF Declared
        <4>2. CASE o = op /\ disk'[o].goal = mem.goal
          BY <3>1, <4>2 DEF Declared
        <4>3. CASE disk'[o].state \notin {"AwaitingReboot", "VerifyingBoot"}
          BY <3>1, <4>3
        <4> QED BY <1>t, <1>w, <4>1, <4>2, <4>3
      <3>2. CASE q.op = o /\ ~q.mem.goal
        BY <1>t, <1>v, <3>2 DEF Candidate, Declared
      <3> QED BY <2>2, <3>1, <3>2 DEF Declared, q
    <2>3. NoneDeclared
      BY <2>2 DEF NoneDeclared
    <2> QED BY <1>u, <2>1, <2>3, ReleasesKept DEF TruthInvariant, PlansKept
  <1>3. LandedPart'
    BY <1>u DEF TruthInvariant, LandedPart, OldElsewhere
  <1>4. GoalPart'
    <2>0. op \in Ops => mem \in Records /\ BackTo(op, mem)
      BY <1>0 DEF TypeInvariant, VerifierPart, VerifierStates, TruthInvariant, GoalPart
    <2>1. ASSUME NEW o \in Ops PROVE BackTo(o, disk[o])'
      <3>1. CASE disk'[o] = disk[o]
        BY <1>b, <1>t, <3>1 DEF TruthInvariant, GoalPart, BackTo
      <3>2. CASE ~disk'[o].goal
        BY <3>2 DEF BackTo
      <3>3. CASE o = op /\ disk'[o].goal = mem.goal /\ disk'[o].boot_snapshot = mem.boot_snapshot
        BY <1>b, <2>0, <3>3 DEF BackTo
      <3> QED BY <1>t, <1>w, <3>1, <3>2, <3>3
    <2>2. ASSUME NEW s \in Sessions, session[s].pc \in {"keep", "intent", "rollback", "selected"}
          PROVE  BackTo(session[s].op, session[s].mem)'
      <3>1. session[s].op \in Ops /\ session[s].mem \in Records /\ BackTo(session[s].op, session[s].mem)
        BY <2>2 DEF Base, TypeInvariant, SessionPart, SessionStates, TruthInvariant, GoalPart
      <3> QED BY <1>b, <1>u, <3>1 DEF BackTo
    <2>3. ASSUME q.op \in Ops PROVE BackTo(verifier.op, verifier.mem)'
      <3>1. CASE q.op = op /\ q.mem.goal = mem.goal /\ q.mem.boot_snapshot = mem.boot_snapshot
        BY <1>b, <2>0, <2>3, <3>1 DEF BackTo, q
      <3>2. CASE q.mem = disk[q.op] /\ UNCHANGED disk
        BY <2>1, <2>3, <3>2 DEF BackTo, q
      <3> QED BY <1>t, <1>v, <2>3, <3>1, <3>2
    <2> QED BY <1>u, <2>1, <2>2, <2>3 DEF GoalPart, q
  <1>5. SelectedPart'
    BY <1>u DEF TruthInvariant, SelectedPart
  <1> QED BY <1>1, <1>2, <1>3, <1>4, <1>5 DEF TruthInvariant

\* A boot mounts a selected clone when nobody runs.
LEMMA PlatformStepTruth ==
    ASSUME Base, ChangeInvariant, TruthInvariant, PowerLoss \/ Reboot \/ Boot \/ ForeignStage
    PROVE  TruthInvariant'
  <1>0. PlatformStep /\ SpentStays /\ TypeInvariant
    <2>1. Next
      BY DEF Next
    <2> QED BY <2>1, PlatformSteps, NextSpent DEF Base, RecoveryInvariant
  <1>u. UNCHANGED <<disk, snapshots, basis, clones, default>>
    BY <1>0 DEF PlatformStep
  <1>t. disk \in [Ops -> Records] /\ NoOp \notin Ops
    BY <1>0, MachineAssumption DEF TypeInvariant, DiskPart
  <1>p. UNCHANGED roots \/ SetMarker(Foreign)
    BY <1>0 DEF PlatformStep
  <1>w. \A v \in Subvolumes : /\ roots'[v].packages = roots[v].packages
                              /\ roots'[v].repositories = roots[v].repositories
                              /\ roots'[v].live = roots[v].live
    BY <1>0, <1>p, RootsWritten
  <1>2. ASSUME NoneDeclared PROVE RepositoriesPart' /\ DeclaredPart'
    <2>1. RootsCopied
      BY <1>0, <1>p, <1>u, CopiesOnly
    <2> QED BY <1>2, <1>u, <2>1, ReleasesKept DEF TruthInvariant, PlansKept
  <1>b. ASSUME NEW o \in Ops, NEW r \in Records, BackTo(o, r), UNCHANGED mounted PROVE BackTo(o, r)'
    BY <1>0, <1>b, <1>u, <1>w, BackToKept
  <1>3. CASE /\ UNCHANGED mounted
             /\ \A w \in Workers : worker'[w].pc = "idle"
             /\ \A s \in Sessions : session'[s].pc = "idle"
             /\ offline'.pc = "idle" /\ verifier'.op = NoOp /\ verifier'.todo = {}
    <2>1. ValidPart'
      BY <1>3, <1>t, <1>u DEF TruthInvariant, ValidPart, UnderWay
    <2>2. NoneDeclared
      BY <1>3, <1>t, <1>u DEF NoneDeclared, Declared
    <2>3. LandedPart' /\ SelectedPart'
      BY <1>3 DEF LandedPart, SelectedPart
    <2>4. \A o \in Ops : BackTo(o, disk[o])'
      BY <1>3, <1>b, <1>t, <1>u DEF TruthInvariant, GoalPart, BackTo
    <2>5. GoalPart'
      BY <1>3, <1>t, <2>4 DEF GoalPart
    <2> QED BY <1>2, <2>1, <2>2, <2>3, <2>5 DEF TruthInvariant
  <1>4. CASE /\ UNCHANGED <<roots, worker, session>> /\ mode = "down" /\ mounted' = default
             /\ offline'.pc \in {"idle", "resolve"} /\ verifier'.op = NoOp /\ verifier'.todo = {}
    <2>0. /\ \A w \in Workers : worker[w].pc = "idle"
          /\ \A s \in Sessions : session[s].pc = "idle"
      BY <1>4 DEF Base, SnapshotInvariant, QuietPart
    <2>1. ValidPart'
      BY <1>4, <1>t, <1>u DEF TruthInvariant, ValidPart, UnderWay
    <2>2. NoneDeclared
      BY <1>4, <1>t, <1>u DEF NoneDeclared, Declared
    <2>3. LandedPart' /\ SelectedPart'
      BY <1>4, <2>0 DEF LandedPart, SelectedPart
    <2>4. ASSUME NEW o \in Ops PROVE BackTo(o, disk[o])'
      <3>1. disk[o].goal => Spent(o)'
        BY <1>4, <1>u, <2>0 DEF Spent, SpentStates, TruthInvariant, ValidPart, GoalIsConsistent
      <3>2. BackTo(o, disk[o])
        BY DEF TruthInvariant, GoalPart
      <3> QED BY <1>4, <1>u, <3>1, <3>2 DEF BackTo
    <2>5. GoalPart'
      BY <1>4, <1>t, <2>0, <2>4 DEF GoalPart
    <2> QED BY <1>2, <2>1, <2>2, <2>3, <2>5 DEF TruthInvariant
  <1>5. CASE UNCHANGED <<worker, session, offline, verifier, mounted>>
    <2>1. ValidPart'
      BY <1>5, <1>u DEF TruthInvariant, ValidPart
    <2>2. NoneDeclared
      BY <1>5, <1>u DEF NoneDeclared, Declared
    <2>3. mounted \in Subvolumes /\ default \in Subvolumes
      BY <1>0 DEF TypeInvariant, StoragePart
    <2>4. LandedPart'
      BY <1>5, <1>u, <1>w, <2>3 DEF TruthInvariant, LandedPart, OldElsewhere
    <2>5. SelectedPart'
      BY <1>5, <1>u, <1>w, <2>3 DEF TruthInvariant, SelectedPart
    <2>6. \A o \in Ops : BackTo(o, disk[o])'
      BY <1>5, <1>b, <1>t, <1>u DEF TruthInvariant, GoalPart, BackTo
    <2>7. ASSUME NEW s \in Sessions, session[s].pc \in {"keep", "intent", "rollback", "selected"}
          PROVE  BackTo(session[s].op, session[s].mem)'
      <3>1. session[s].op \in Ops /\ session[s].mem \in Records /\ BackTo(session[s].op, session[s].mem)
        BY <2>7 DEF Base, TypeInvariant, SessionPart, SessionStates, TruthInvariant, GoalPart
      <3> QED BY <1>5, <1>b, <3>1 DEF BackTo
    <2>8. ASSUME verifier.op \in Ops PROVE BackTo(verifier.op, verifier.mem)'
      <3>1. verifier.mem \in Records /\ BackTo(verifier.op, verifier.mem)
        BY <2>8 DEF Base, TypeInvariant, VerifierPart, VerifierStates, TruthInvariant, GoalPart
      <3> QED BY <1>5, <1>b, <2>8, <3>1 DEF BackTo
    <2>9. GoalPart'
      BY <1>5, <2>6, <2>7, <2>8 DEF GoalPart
    <2> QED BY <1>2, <2>1, <2>2, <2>4, <2>5, <2>9 DEF TruthInvariant
  <1> QED BY <1>0, <1>3, <1>4, <1>5 DEF PlatformStep

\* What the offline worker does to the mounted root keeps the two parts about
\* the repositories: no other operation was planned on a system with its work.
LEMMA MountedReleases ==
    ASSUME Base, RepositoriesPart, DeclaredPart, offline.pc \in UnderWay, offline.op \in Ops,
           verifier.op = NoOp, UNCHANGED <<disk, verifier, basis, mounted, snapshots>>,
           \A v \in Subvolumes \ {mounted} : roots'[v] = roots[v],
           \A o \in Ops \ {offline.op} :
              roots'[mounted].packages[o] = roots[mounted].packages[o],
           \/ /\ roots'[mounted].repositories = roots[mounted].repositories
              /\ \/ roots'[mounted].packages[offline.op] = roots[mounted].packages[offline.op]
                 \/ Installed[offline.op] # "new"
           \/ /\ roots'[mounted].repositories = offline.op
              /\ roots'[mounted].packages[offline.op] = "new"
              /\ Kind[offline.op] = "ReleaseUpgrade",
           IF Kind[offline.op] = "ReleaseUpgrade"
           THEN roots'[mounted].packages[offline.op] # "old"
           ELSE /\ roots'[mounted].live = roots[mounted].live
                /\ roots'[mounted].repositories = roots[mounted].repositories
    PROVE  RepositoriesPart' /\ DeclaredPart'
  <1> DEFINE op == offline.op
             M == roots'[mounted]
  <1>0. /\ TypeInvariant /\ mounted \in Subvolumes /\ roots[mounted] \in AllRoots /\ NoOp \notin Ops
        /\ OldElsewhere(op) /\ disk[op].state = "ApplyingOffline"
    <2>1. TypeInvariant /\ mounted \in Subvolumes /\ NoOp \notin Ops
      BY MachineAssumption DEF Base, TypeInvariant, StoragePart
    <2> QED BY <2>1 DEF AllRoots, Base, RecoveryInvariant, HerePart, OfflineRuns
  <1>r. ASSUME NEW R \in AllRoots' PROVE R = M \/ R \in AllRoots
    <2>1. \/ \E v \in Subvolumes : R = roots'[v]
          \/ \E n \in DOMAIN snapshots : R = snapshots[n].root
      BY <1>0, RootsAre
    <2> QED BY <1>0, <2>1, RootsAre
  <1>b. ASSUME NEW o \in Ops, HasSnapshot(o) PROVE basis[o][op] = "old"
    <2>1. PICK n \in DOMAIN snapshots : snapshots[n].op = o
      BY <1>b DEF HasSnapshot, CleanSnapshot
    <2> QED BY <1>0, <2>1 DEF Base, RecoveryInvariant, BasisPart, OldElsewhere
  <1>1. RepositoriesPart'
    <2> SUFFICES ASSUME NEW R \in AllRoots', NEW o \in Ops, R.repositories = o
                 PROVE  Kind[o] = "ReleaseUpgrade" /\ R.packages[o] = "new"
      BY DEF RepositoriesPart
    <2>1. CASE R \in AllRoots
      BY <2>1 DEF RepositoriesPart
    <2>2. CASE R = M
      <3>1. roots[mounted].repositories = o =>
               Kind[o] = "ReleaseUpgrade" /\ roots[mounted].packages[o] = "new"
        BY <1>0 DEF RepositoriesPart
      <3> QED BY <2>2, <3>1 DEF Installed
    <2> QED BY <1>r, <2>1, <2>2
  <1>2. DeclaredPart'
    <2> SUFFICES ASSUME NEW o \in Ops, Kind[o] = "ReleaseUpgrade", Declared(o)',
                        NEW R \in AllRoots', RunsRelease(R, o)'
                 PROVE  R.live /\ R.repositories = o
      BY DEF DeclaredPart
    <2>0. Declared(o) /\ o # op
      BY <1>0 DEF Declared
    <2>1. CASE R \in AllRoots
      BY <2>0, <2>1 DEF DeclaredPart, RunsRelease
    <2>2. CASE R = M
      <3>0. /\ M.packages[o] = "new"
            /\ \A p \in Ops \ {o} : Kind[p] = "ReleaseUpgrade" => M.packages[p] = basis[o][p]
        BY <2>2 DEF RunsRelease
      <3>1. HasSnapshot(o)
        BY <1>0, <2>0, <3>0, RootsUndoable
      <3>2. Kind[op] # "ReleaseUpgrade"
        BY <1>b, <2>0, <3>0, <3>1
      <3>3. RunsRelease(roots[mounted], o)
        BY <2>0, <3>0, <3>2 DEF RunsRelease
      <3> QED BY <1>0, <2>0, <2>2, <3>2, <3>3 DEF DeclaredPart
    <2> QED BY <1>r, <2>1, <2>2
  <1> QED BY <1>1, <1>2

\* The offline worker.
LEMMA OfflineStepTruth ==
    ASSUME Base, ChangeInvariant, TruthInvariant, OfflineProgress
    PROVE  TruthInvariant'
  <1> DEFINE op == offline.op
             at == offline.pc
             q == offline'
             Written(r) == op \in Ops /\ UNCHANGED roots /\ disk' = [disk EXCEPT ![op] = r]
                           /\ GoalIsConsistent(r)
             Marked == UNCHANGED disk /\ (UNCHANGED roots \/ \E m : SetMarker(m))
  <1>0. OfflineStep /\ SpentStays /\ TypeInvariant
    <2>1. Next
      BY DEF Next
    <2> QED BY <2>1, OfflineSteps, NextSpent DEF Base
  <1>u. UNCHANGED <<worker, session, verifier, snapshots, basis, mounted, clones, default>>
    BY <1>0 DEF OfflineStep
  <1>i. /\ \A w \in Workers : worker[w].pc = "idle"
        /\ \A s \in Sessions : session[s].pc = "idle"
        /\ verifier.op = NoOp /\ verifier.todo = {}
    BY <1>0 DEF OfflineStep, Base, SnapshotInvariant, QuietPart, RecoveryInvariant, ModePart
  <1>t. disk \in [Ops -> Records] /\ NoOp \notin Ops /\ mounted \in Subvolumes
    BY <1>0, MachineAssumption DEF TypeInvariant, DiskPart, StoragePart
  <1>h. at \in UnderWay => OfflineRuns(op) /\ ~disk[op].goal
    <2>1. at \in UnderWay => op \in Ops
      BY <1>0 DEF TypeInvariant, OfflinePart, UnderWay
    <2> QED BY <2>1 DEF Base, RecoveryInvariant, HerePart, OfflineRuns, TruthInvariant, ValidPart,
                        GoalIsConsistent
  <1>w. ASSUME NEW o \in Ops, NEW r, Written(r) PROVE disk'[o] = IF o = op THEN r ELSE disk[o]
    BY <1>t, <1>w
  \* What is to be shown of each kind of step.
  <1>g. ASSUME \A o \in Ops : GoalIsConsistent(disk'[o]) /\ BackTo(o, disk[o])',
               q.pc \in UnderWay \cup {"finish"} => ~q.mem.goal,
               RepositoriesPart', DeclaredPart', LandedPart'
        PROVE  TruthInvariant'
    <2>1. ValidPart'
      BY <1>g, <1>i, <1>t, <1>u DEF ValidPart
    <2>2. GoalPart' /\ SelectedPart'
      BY <1>g, <1>i, <1>t, <1>u DEF GoalPart, SelectedPart
    <2> QED BY <1>g, <2>1, <2>2 DEF TruthInvariant
  <1>b. ASSUME NEW o \in Ops, NEW r \in Records, BackTo(o, r),
               \A v \in Subvolumes : roots'[v].packages[o] = roots[v].packages[o]
        PROVE  BackTo(o, r)'
    BY <1>0, <1>b, <1>u, BackToKept
  <1>d. \A o \in Ops : GoalIsConsistent(disk[o]) /\ BackTo(o, disk[o])
    BY DEF TruthInvariant, ValidPart, GoalPart
  <1>c. UNCHANGED roots \/ (\E m : SetMarker(m)) =>
           /\ RootsCopied
           /\ \A v \in Subvolumes : /\ roots'[v].packages = roots[v].packages
                                    /\ roots'[v].repositories = roots[v].repositories
                                    /\ roots'[v].live = roots[v].live
    BY <1>0, <1>u, CopiesOnly, RootsWritten
  \* A marker, or nothing.
  <1>1. CASE Marked /\ q.pc # "finish" /\ (q.pc \in UnderWay => ~q.mem.goal)
    <2>1. NoneDeclared
      BY <1>1, <1>u DEF NoneDeclared, Declared
    <2>2. RepositoriesPart' /\ DeclaredPart'
      BY <1>1, <1>c, <1>u, <2>1, ReleasesKept DEF TruthInvariant, PlansKept
    <2>3. \A o \in Ops : BackTo(o, disk[o])'
      BY <1>1, <1>b, <1>c, <1>d, <1>t DEF BackTo
    <2> QED BY <1>1, <1>d, <1>g, <2>2, <2>3 DEF LandedPart
  \* A record.
  <1>2. ASSUME NEW r \in Records, Written(r), q.pc # "finish", q.pc \in UnderWay => ~q.mem.goal,
               \/ r.state \notin {"AwaitingReboot", "VerifyingBoot"}
               \/ at = "finish",
               \/ ~r.goal
               \/ r.goal = disk[op].goal /\ r.boot_snapshot = disk[op].boot_snapshot
        PROVE  TruthInvariant'
    <2>1. RootsCopied /\ UNCHANGED roots
      BY <1>2, <1>c
    <2>2. RepositoriesPart'
      BY <2>1, <1>u DEF TruthInvariant, RepositoriesPart, AllRoots
    <2>3. DeclaredPart'
      <3> SUFFICES ASSUME NEW o \in Ops, Kind[o] = "ReleaseUpgrade", Declared(o)',
                          NEW R \in AllRoots, RunsRelease(R, o)
                   PROVE  R.live /\ R.repositories = o
        BY <1>u, <2>1 DEF DeclaredPart, AllRoots, RunsRelease
      <3>1. CASE o # op \/ at # "finish"
        <4>1. Declared(o)
          BY <1>2, <1>i, <1>t, <1>u, <1>w, <3>1 DEF Declared
        <4> QED BY <4>1 DEF TruthInvariant, DeclaredPart
      <3>2. CASE o = op /\ at = "finish"
        <4>1. OldElsewhere(op) /\ roots[mounted].live /\ roots[mounted].repositories = op
          BY <3>2 DEF TruthInvariant, LandedPart
        <4>2. R.packages[op] = "new"
          BY <3>2 DEF RunsRelease
        <4>3. R = roots[mounted]
          BY <1>0, <4>1, <4>2, RootsAre DEF OldElsewhere
        <4> QED BY <3>2, <4>1, <4>3
      <3> QED BY <3>1, <3>2
    <2>4. ASSUME NEW o \in Ops PROVE GoalIsConsistent(disk'[o]) /\ BackTo(o, disk[o])'
      <3>1. BackTo(o, disk[o])'
        BY <1>2, <1>b, <1>d, <1>t, <1>w, <2>1 DEF BackTo
      <3>2. GoalIsConsistent(disk'[o])
        BY <1>2, <1>d, <1>w
      <3> QED BY <3>1, <3>2
    <2> QED BY <1>2, <1>g, <2>2, <2>3, <2>4 DEF LandedPart
  \* The mounted root.
  <1>3. ASSUME UNCHANGED disk, at \in UnderWay, op \in Ops, RepositoriesPart', DeclaredPart', LandedPart',
               q.pc \in UnderWay \cup {"finish"} => q.mem = offline.mem,
               \A v \in Subvolumes, o \in Ops : o # op => roots'[v].packages[o] = roots[v].packages[o]
        PROVE  TruthInvariant'
    <2>1. ASSUME NEW o \in Ops PROVE BackTo(o, disk[o])'
      <3>1. CASE o = op
        BY <1>3, <1>h, <3>1 DEF BackTo
      <3>2. CASE o # op
        BY <1>3, <1>b, <1>d, <1>t, <3>2 DEF BackTo
      <3> QED BY <3>1, <3>2
    <2>2. ~offline.mem.goal
      BY <1>3 DEF TruthInvariant, ValidPart
    <2> QED BY <1>3, <1>d, <1>g, <2>1, <2>2
  <1>4. ASSUME NEW p \in {"partial", "new"}, SetPackages(op, p), UNCHANGED disk, at = "zypper", op \in Ops,
               q.mem = offline.mem, q.op = op,
               q.pc = "finish" => Kind[op] # "ReleaseUpgrade"
        PROVE  TruthInvariant'
    <2>1. /\ \A v \in Subvolumes \ {mounted} : roots'[v] = roots[v]
          /\ roots'[mounted].packages[op] = p
          /\ \A o \in Ops \ {op} : roots'[mounted].packages[o] = roots[mounted].packages[o]
          /\ roots'[mounted].repositories = roots[mounted].repositories
          /\ roots'[mounted].live = roots[mounted].live
      BY <1>0, <1>4, RootsWritten
    <2>2. Installed[op] # "new" /\ at \in UnderWay
      BY <1>4 DEF ChangeInvariant, WritePart, UnderWay
    <2>3. RepositoriesPart' /\ DeclaredPart'
      BY <1>4, <1>i, <1>u, <2>1, <2>2, MountedReleases DEF TruthInvariant
    <2>4. LandedPart'
      BY <1>4 DEF LandedPart
    <2> QED BY <1>3, <1>4, <1>t, <2>1, <2>2, <2>3, <2>4
  <1>5. ASSUME NEW o, NEW l, SetRepositories(o, l), UNCHANGED disk, op \in Ops,
               q.pc \in UnderWay \cup {"finish"} => q.mem = offline.mem /\ q.op = op,
               \/ at \in {"repositories", "swap"} /\ q.pc # "finish" /\ o = roots[mounted].repositories
               \/ at = "swap" /\ o = op /\ roots'[mounted].live
        PROVE  TruthInvariant'
    <2>1. /\ \A v \in Subvolumes \ {mounted} : roots'[v] = roots[v]
          /\ roots'[mounted].packages = roots[mounted].packages
          /\ roots'[mounted].repositories = o /\ roots'[mounted].live = l
      BY <1>0, <1>5, RootsWritten
    <2>2. /\ at \in UnderWay /\ OldElsewhere(op) /\ Kind[op] = "ReleaseUpgrade"
          /\ roots[mounted].packages[op] = "new"
      BY <1>5, <1>h DEF UnderWay, OfflineRuns, Installed
    <2>3. RepositoriesPart' /\ DeclaredPart'
      BY <1>5, <1>i, <1>u, <2>1, <2>2, MountedReleases DEF TruthInvariant
    <2>4. LandedPart'
      <3>1. /\ \A v \in Subvolumes \ {mounted} : roots'[v].packages[op] = "old"
            /\ \A n \in DOMAIN snapshots : snapshots[n].root.packages[op] = "old"
        BY <1>u, <2>1, <2>2 DEF OldElsewhere
      <3> QED BY <1>5, <1>u, <2>1, <3>1 DEF LandedPart, OldElsewhere
    <2> QED BY <1>3, <1>5, <1>t, <2>1, <2>2, <2>3, <2>4
  <1>6. CASE OfflineLeaves
    <2>0. q.pc \notin UnderWay \cup {"finish"}
      BY <1>6 DEF OfflineLeaves
    <2>1. CASE Marked
      BY <1>1, <2>0, <2>1
    <2>2. ASSUME at = "swap", UNCHANGED disk, NEW l \in BOOLEAN,
                 SetRepositories(roots[mounted].repositories, l)
          PROVE  TruthInvariant'
      <3>1. op \in Ops
        BY <1>0, <2>2 DEF TypeInvariant, OfflinePart
      <3> QED BY <1>5, <2>0, <2>2, <3>1
    <2>3. ASSUME NEW r \in Records, Written(r),
                 \/ at = "finish" /\ r.state = "AwaitingReboot" /\ r.goal = offline.mem.goal
                 \/ /\ at = "recover" /\ r.state = "NeedsRecovery"
                    /\ r.goal = disk[op].goal /\ r.boot_snapshot = disk[op].boot_snapshot
          PROVE  TruthInvariant'
      <3>1. at = "finish" => ~offline.mem.goal
        BY DEF TruthInvariant, ValidPart
      <3> QED BY <1>2, <2>0, <2>3, <3>1
    <2> QED BY <1>6, <2>1, <2>2, <2>3 DEF OfflineLeaves
  <1>7. CASE OfflineAdvances
    <2>0. op \in Ops /\ q.op = op
      BY <1>7 DEF OfflineAdvances
    <2>1. ASSUME at = "load", q.pc = "revalidate", UNCHANGED roots, disk[op].state = "ReadyToReboot",
                 q.mem.goal = disk[op].goal, NEW r \in Records, disk' = [disk EXCEPT ![op] = r],
                 GoalIsConsistent(r), r.state = "ApplyingOffline", r.goal = disk[op].goal
          PROVE  TruthInvariant'
      <3>1. ~disk[op].goal /\ ~r.goal /\ ~q.mem.goal
        BY <1>d, <2>0, <2>1 DEF GoalIsConsistent
      <3> QED BY <1>2, <2>0, <2>1, <3>1
    <2>2. CASE UNCHANGED disk /\ q.mem = offline.mem
      <3>1. CASE at = "revalidate" /\ q.pc = "zypper" /\ UNCHANGED roots
        <4>1. ~offline.mem.goal
          BY <3>1 DEF TruthInvariant, ValidPart, UnderWay
        <4> QED BY <1>1, <2>2, <3>1, <4>1
      <3>2. CASE at = "zypper" /\ q.pc = "zypper" /\ SetPackages(op, "partial")
        BY <1>4, <2>0, <2>2, <3>2
      <3>3. CASE /\ at = "zypper" /\ SetPackages(op, "new")
                 /\ q.pc = IF Kind[op] = "ReleaseUpgrade" THEN "repositories" ELSE "finish"
        BY <1>4, <2>0, <2>2, <3>3
      <3>4. CASE /\ at = "repositories" /\ q.pc = "swap"
                 /\ SetRepositories(roots[mounted].repositories, FALSE)
        BY <1>5, <2>0, <2>2, <3>4
      <3>5. CASE at = "swap" /\ q.pc = "finish" /\ SetRepositories(op, TRUE)
        <4>1. roots'[mounted].live
          BY <1>0, <3>5, RootsWritten
        <4> QED BY <1>5, <2>0, <2>2, <3>5, <4>1
      <3> QED BY <1>7, <2>1, <2>2, <3>1, <3>2, <3>3, <3>4, <3>5 DEF OfflineAdvances
    <2> QED BY <1>7, <2>1, <2>2 DEF OfflineAdvances
  <1> QED BY <1>0, <1>6, <1>7 DEF OfflineStep

\* A request saves the objective it read, or the clone it made.
LEMMA SessionStepTruth ==
    ASSUME Base, ChangeInvariant, TruthInvariant, NEW s \in Sessions,
           SessionRequest(s) \/ SessionProgress(s) \/ SessionDies(s)
    PROVE  TruthInvariant'
  <1> DEFINE op == session[s].op
             mem == session[s].mem
             at == session[s].pc
             n == mem.snapshot_number
             q == session'[s]
             Cloned == /\ at = "rollback" /\ clones < MaxClones
                       /\ clones' = clones + 1 /\ default' = clones + 1
                       /\ roots' = [roots EXCEPT ![clones + 1] = snapshots[n].root]
             Carries == {"keep", "intent", "rollback", "selected"}
  <1>0. SessionEffect(s) /\ RequestStep(s) /\ SpentStays /\ TypeInvariant
    <2>1. Next
      BY DEF Next
    <2> QED BY <2>1, SessionEffects, RequestSteps, NextSpent DEF Base, RecoveryInvariant, SnapshotInvariant
  <1>u. /\ mode = "up" /\ UNCHANGED <<offline, verifier, mode, mounted, snapshots>>
        /\ \A t \in Sessions \ {s} : session'[t] = session[t]
        /\ offline.pc = "idle"
    BY <1>0 DEF SessionEffect, Base, RecoveryInvariant, ModePart
  <1>t. /\ disk \in [Ops -> Records] /\ roots \in [Subvolumes -> Roots]
        /\ mounted \in Nat /\ clones \in Nat /\ MaxClones \in Nat /\ Subvolumes = 0..MaxClones
        /\ at # "idle" => op \in Ops
        /\ mem \in Records
    BY <1>0, MachineAssumption DEF TypeInvariant, DiskPart, StoragePart, Subvolumes, SessionPart,
       SessionStates
  <1>c. UNCHANGED <<roots, clones, default>> \/ Cloned
    BY <1>0 DEF SessionEffect, CloneMade
  <1>n. at = "rollback" => /\ op \in Ops /\ n \in DOMAIN snapshots
                           /\ snapshots[n].root.packages[op] = "old"
    <2>1. at = "rollback" => n # 0 /\ CleanTarget(op, mem)
      BY <1>0 DEF TypeInvariant, SessionPart, Base, SnapshotInvariant, SessionClean, RequestIsClean
    <2> QED BY <1>t, <2>1 DEF CleanTarget, CleanSnapshot
  <1>k. /\ mounted <= clones /\ (clones' = clones \/ clones' = clones + 1)
        /\ \A v \in Subvolumes : v <= clones => roots'[v] = roots[v]
    BY <1>c, <1>t DEF ChangeInvariant, ClonePart
  <1>b. ASSUME NEW o \in Ops, NEW r \in Records, BackTo(o, r) PROVE BackTo(o, r)'
    BY <1>0, <1>b, <1>k, <1>u, BackToKept
  <1>d. \A o \in Ops : GoalIsConsistent(disk[o]) /\ BackTo(o, disk[o])
    BY DEF TruthInvariant, ValidPart, GoalPart
  <1>g. ASSUME NEW t \in Sessions, session[t].pc \in Carries
        PROVE  /\ session[t].op \in Ops /\ session[t].mem \in Records
               /\ BackTo(session[t].op, session[t].mem)
    BY <1>0, <1>g DEF TypeInvariant, SessionPart, SessionStates, TruthInvariant, GoalPart
  <1>i. InitialRecord.goal = FALSE /\ InitialRecord.state = "AwaitingConfirmation"
    BY DEF InitialRecord, AbsentRecord
  \* What is saved.
  <1>w. ASSUME NEW o \in Ops
        PROVE  /\ GoalIsConsistent(disk'[o]) /\ BackTo(o, disk[o])'
               /\ \/ disk'[o] = disk[o] \/ disk'[o].goal
                  \/ disk'[o].state \notin {"AwaitingReboot", "VerifyingBoot"}
    <2>1. CASE disk'[o] = disk[o]
      BY <1>b, <1>d, <1>t, <2>1 DEF BackTo
    <2>2. ASSUME disk'[o] # disk[o] PROVE o = op /\ op \in Ops /\ UNCHANGED <<roots, clones, default>>
      BY <1>0, <1>t, <2>2 DEF RequestStep, ObjectiveSaved
    <2>3. ASSUME NEW r \in Records, disk' = [disk EXCEPT ![op] = r], GoalIsConsistent(r), disk'[o] # disk[o],
                 \/ at = "create" /\ r = InitialRecord
                 \/ /\ at \in {"cancel", "keep"} /\ r.state = "Failed"
                    /\ r.goal = mem.goal /\ r.boot_snapshot = mem.boot_snapshot
                 \/ at = "intent" /\ r.goal /\ r.boot_snapshot = 0
                 \/ /\ at \in {"rollback", "selected"} /\ r.goal
                    /\ \/ r.boot_snapshot = mem.boot_snapshot
                       \/ at = "selected" /\ r.boot_snapshot = default
          PROVE  /\ GoalIsConsistent(disk'[o]) /\ BackTo(o, disk[o])'
                 /\ \/ disk'[o].goal
                    \/ disk'[o].state \notin {"AwaitingReboot", "VerifyingBoot"}
      <3>1. disk'[o] = r /\ o = op
        BY <1>t, <2>2, <2>3
      <3>2. BackTo(o, r)'
        <4>1. CASE ~r.goal \/ r.boot_snapshot = 0
          BY <4>1 DEF BackTo
        <4>2. CASE at \in Carries /\ r.goal = mem.goal /\ r.boot_snapshot = mem.boot_snapshot
          BY <1>b, <1>g, <3>1, <4>2 DEF BackTo
        <4>3. CASE at = "selected" /\ r.boot_snapshot = default
          <5>1. default = clones /\ default # mounted /\ roots[default].packages[op] = "old"
            BY <4>3 DEF TruthInvariant, SelectedPart
          <5>2. UNCHANGED <<roots, clones, default, mounted>>
            BY <1>u, <2>2, <2>3
          <5> QED BY <1>t, <3>1, <4>3, <5>1, <5>2 DEF BackTo
        <4>4. at = "cancel" => ~mem.goal
          BY DEF TruthInvariant, ValidPart
        <4>5. at \in {"rollback", "selected"} => mem.goal
          BY DEF Base, RecoveryInvariant, CopyPart
        <4> QED BY <1>i, <2>3, <4>1, <4>2, <4>3, <4>4, <4>5
      <3>3. r.goal \/ r.state \notin {"AwaitingReboot", "VerifyingBoot"}
        BY <1>i, <2>3
      <3> QED BY <2>3, <3>1, <3>2, <3>3 DEF BackTo
    <2> QED BY <1>0, <1>d, <2>1, <2>3 DEF RequestStep, ObjectiveSaved
  <1>1. ValidPart'
    <2>1. ASSUME NEW w \in Workers, worker'[w].pc # "idle"
          PROVE  ~worker'[w].mem.goal /\ worker'[w].mem.state \notin {"AwaitingReboot", "VerifyingBoot"}
      <3>1. CASE worker'[w] = worker[w]
        BY <2>1, <3>1 DEF TruthInvariant, ValidPart
      <3>2. CASE worker'[w].mem = disk[op] /\ disk[op].state = "AwaitingConfirmation" /\ at = "spawn"
        BY <1>d, <1>t, <3>2 DEF GoalIsConsistent
      <3> QED BY <1>0, <3>1, <3>2 DEF RequestStep, ThreadBegun
    <2>2. ASSUME NEW t \in Sessions, session'[t].pc = "cancel" PROVE ~session'[t].mem.goal
      <3>1. CASE t # s
        BY <1>u, <2>2, <3>1 DEF TruthInvariant, ValidPart
      <3>2. CASE t = s
        <4>1. q.mem = disk[q.op] /\ IsCancelable(q.mem.state)
          BY <1>0, <2>2, <3>2 DEF RequestStep, ObjectiveTaken
        <4>2. q.op \in Ops
          <5>1. TypeInvariant'
            BY <1>0, SessionStepType, NextType DEF Next
          <5> QED BY <2>2, <3>2, <5>1 DEF TypeInvariant, SessionPart
        <4> QED BY <1>d, <3>2, <4>1, <4>2 DEF GoalIsConsistent, IsCancelable
      <3> QED BY <3>1, <3>2
    <2> QED BY <1>u, <1>w, <2>1, <2>2 DEF TruthInvariant, ValidPart, UnderWay
  <1>2. RepositoriesPart' /\ DeclaredPart'
    <2>1. RootsCopied
      <3>1. CASE UNCHANGED <<roots, snapshots>>
        BY <1>0, <3>1, CopiesOnly
      <3>2. CASE Cloned
        <4>1. clones + 1 \in Subvolumes /\ n \in DOMAIN snapshots
          BY <1>n, <1>t, <3>2
        <4> QED BY <1>0, <1>u, <3>2, <4>1, CopiesOnly
      <3> QED BY <1>c, <1>u, <3>1, <3>2
    <2>2. NoneDeclared
      BY <1>u, <1>w DEF NoneDeclared, Declared
    <2>3. PlansKept
      <3>1. basis \in [Ops -> Packages]
        BY <1>0 DEF TypeInvariant, FilesPart
      <3> QED BY <1>0, <3>1, SnapshotStarted DEF PlansKept, SessionEffect, PlanConfirmed
    <2> QED BY <2>1, <2>2, <2>3, ReleasesKept DEF TruthInvariant
  <1>3. LandedPart'
    BY <1>u DEF LandedPart
  <1>4. GoalPart'
    <2>1. ASSUME NEW t \in Sessions, session'[t].pc \in Carries
          PROVE  BackTo(session[t].op, session[t].mem)'
      <3>1. CASE t # s
        BY <1>b, <1>g, <1>u, <2>1, <3>1 DEF BackTo
      <3>2. CASE t = s
        <4>0. q.op \in Ops
          <5>1. TypeInvariant'
            BY <1>0, NextType DEF Next
          <5> QED BY <2>1, <3>2, <5>1 DEF TypeInvariant, SessionPart
        <4>1. CASE q.mem = disk[q.op]
          BY <1>b, <1>d, <1>t, <3>2, <4>0, <4>1 DEF BackTo
        <4>2. CASE q.mem.boot_snapshot = 0
          BY <3>2, <4>2 DEF BackTo
        <4>3. CASE at = "rollback" /\ q.op = op /\ q.mem = mem
          BY <1>b, <1>g, <3>2, <4>3 DEF BackTo
        <4> QED BY <1>0, <2>1, <3>2, <4>1, <4>2, <4>3 DEF RequestStep, ObjectiveTaken
      <3> QED BY <3>1, <3>2
    <2>2. ASSUME verifier.op \in Ops PROVE BackTo(verifier.op, verifier.mem)'
      <3>1. verifier.mem \in Records /\ BackTo(verifier.op, verifier.mem)
        BY <1>0, <2>2 DEF TypeInvariant, VerifierPart, VerifierStates, TruthInvariant, GoalPart
      <3> QED BY <1>b, <1>u, <2>2, <3>1 DEF BackTo
    <2> QED BY <1>u, <1>w, <2>1, <2>2 DEF GoalPart
  <1>5. SelectedPart'
    <2> SUFFICES ASSUME NEW t \in Sessions, session'[t].pc = "selected"
                 PROVE  /\ default' = clones' /\ default' \notin {0, mounted}
                        /\ roots'[default'].packages[session'[t].op] = "old"
      BY <1>u DEF SelectedPart
    <2>1. CASE t = s
      <3>1. /\ at = "rollback" /\ q.op = op /\ q.mem = mem
            /\ clones' = clones + 1 /\ default' = clones + 1
            /\ roots' = [roots EXCEPT ![clones + 1] = snapshots[n].root]
        BY <1>0, <2>1 DEF RequestStep, ObjectiveTaken
      <3>2. Cloned
        BY <1>c, <1>t, <3>1
      <3>3. clones + 1 \in Subvolumes /\ mounted # clones + 1
        BY <1>k, <1>t, <3>2
      <3> QED BY <1>n, <1>t, <2>1, <3>1, <3>3
    <2>2. CASE t # s
      <3>1. session[t].pc = "selected" /\ session'[t] = session[t]
        BY <1>u, <2>2
      <3>2. at # "rollback"
        BY <2>2, <3>1 DEF Base, LockInv, SessionsHold
      <3> QED BY <1>c, <3>1, <3>2 DEF TruthInvariant, SelectedPart
    <2> QED BY <2>1, <2>2
  <1> QED BY <1>1, <1>2, <1>3, <1>4, <1>5 DEF TruthInvariant

\* At the start nothing is installed, declared or rolled back.
LEMMA InitTruth == Init => TruthInvariant
  <1> SUFFICES ASSUME Init PROVE TruthInvariant
    OBVIOUS
  <1>0. /\ \A op \in Ops : disk[op] = AbsentRecord /\ disk[op].goal = FALSE /\ disk[op].state = "Absent"
        /\ \A w \in Workers : worker[w].pc = "idle"
        /\ \A s \in Sessions : session[s].pc = "idle"
        /\ offline.pc = "idle" /\ verifier.op = NoOp /\ verifier.todo = {} /\ NoOp \notin Ops
    BY MachineAssumption DEF Init, AbsentRecord, IdleWorker, IdleSession, IdleOffline, IdleVerifier
  <1>1. ValidPart
    BY <1>0 DEF ValidPart, GoalIsConsistent, UnderWay
  <1>2. RepositoriesPart
    <2>1. \A R \in AllRoots : R = NewRoot
      BY DEF Init, AllRoots
    <2> QED BY <1>0, <2>1 DEF RepositoriesPart, NewRoot
  <1>3. LandedPart /\ SelectedPart
    BY <1>0 DEF LandedPart, SelectedPart
  <1>4. DeclaredPart
    BY <1>0 DEF DeclaredPart, Declared
  <1>5. GoalPart
    BY <1>0 DEF GoalPart, BackTo
  <1> QED BY <1>1, <1>2, <1>3, <1>4, <1>5 DEF TruthInvariant

\* TruthInvariant is inductive: what is declared applied or restored was so
\* when it was declared, on every root that could be mounted since.
THEOREM TruthInvariance == Spec => []TruthInvariant
  <1>1. Base /\ ChangeInvariant /\ TruthInvariant /\ [Next]_vars => TruthInvariant'
    <2> SUFFICES ASSUME Base, ChangeInvariant, TruthInvariant, [Next]_vars PROVE TruthInvariant'
      OBVIOUS
    <2>1. CASE UNCHANGED vars
      <3>1. UNCHANGED <<disk, basis, roots, clones, default, snapshots, mounted, worker, session,
                        offline, verifier>>
        BY <2>1 DEF vars, files, storage, platform, processes
      <3> QED BY <3>1 DEF TruthInvariant, ValidPart, RepositoriesPart, LandedPart, OldElsewhere,
                          DeclaredPart, Declared, RunsRelease, GoalPart, BackTo, Spent, SelectedPart,
                          AllRoots
    <2>2. CASE Next
      BY <2>2, WorkerStepTruth, SessionStepTruth, OfflineStepTruth, VerifierStepTruth, PlatformStepTruth
      DEF Next
    <2> QED BY <2>1, <2>2
  <1> QED BY <1>1, InitTruth, BaseInvariance, ChangeInvariance, PTL DEF Spec

-----------------------------------------------------------------------------
(* Completed tells the truth, when the child reads what was claimed.       *)

\* Before the verdict of the verifier is written, nobody changes what the
\* check found: it holds the transaction lock.
LEMMA VerdictStands ==
    ASSUME Base, ChangeInvariant, NEW op \in Ops, NEW r, Verified(op, r),
           verifier.pc \in {"check", "consume", "replace", "final"}, Next,
           verifier'.pc \in {"check", "consume", "replace", "final"}
    PROVE  Verified(op, r)'
  <1> DEFINE Found == /\ UNCHANGED mounted /\ Installed' = Installed
                      /\ roots'[mounted].repositories = roots[mounted].repositories
                      /\ roots'[mounted].live = roots[mounted].live
  <1>0. TypeInvariant /\ mounted \in Subvolumes /\ lock = "verifier"
    BY DEF Base, TypeInvariant, StoragePart, LockInv, VerifierHolds
  <1>1. Found => Verified(op, r)'
    BY DEF Verified
  <1>2. ASSUME UNCHANGED mounted, UNCHANGED roots \/ \E m : SetMarker(m) PROVE Found
    <2>1. roots'[mounted].packages = roots[mounted].packages
      BY <1>0, <1>2, RootsWritten
    <2> QED BY <1>0, <1>2, <2>1, RootsWritten DEF Installed
  <1>3. ASSUME NEW w \in Workers, WorkerProgress(w) \/ WorkerDies(w) PROVE Found
    <2>1. WorkerEffect(w)
      BY <1>3, WorkerEffects DEF Base, RecoveryInvariant
    <2>2. worker[w].pc # "zypper"
      BY <1>0, MachineAssumption DEF Base, LockInv, WorkersHold, HoldsLock
    <2> QED BY <1>2, <2>1, <2>2 DEF WorkerEffect
  <1>4. ASSUME NEW s \in Sessions, SessionRequest(s) \/ SessionProgress(s) \/ SessionDies(s) PROVE Found
    <2>1. SessionEffect(s)
      BY <1>4, SessionEffects DEF Base, RecoveryInvariant, SnapshotInvariant
    <2>2. session[s].pc # "rollback"
      BY <1>0, MachineAssumption DEF Base, LockInv, SessionsHold
    <2> QED BY <1>2, <2>1, <2>2 DEF SessionEffect, CloneMade
  <1>5. ~OfflineProgress
    BY OfflineSteps DEF OfflineStep, Base, RecoveryInvariant, ModePart
  <1>6. CASE VerifierProgress \/ VerifierDies
    <2>1. VerifierEffect
      BY <1>6, VerifierEffects DEF Base, RecoveryInvariant
    <2> QED BY <1>1, <1>2, <2>1 DEF VerifierEffect
  <1>7. CASE PowerLoss \/ Reboot \/ Boot \/ ForeignStage
    <2>1. PlatformStep
      BY <1>7, PlatformSteps DEF Base, RecoveryInvariant
    <2> QED BY <1>1, <1>2, <2>1 DEF PlatformStep
  <1> HIDE DEF Found
  <1> QED BY <1>1, <1>3, <1>4, <1>5, <1>6, <1>7 DEF Next

\* A check that passes on the record the verifier holds found what it claims.
LEMMA CheckIsTrue ==
    ASSUME Base, TruthInvariant, ChildReadsTheRecord, verifier.pc = "check",
           BootMatches(verifier.op)
    PROVE  Verified(verifier.op, verifier.mem)
  <1> DEFINE op == verifier.op
             mem == verifier.mem
  <1>0. /\ op \in Ops /\ mem \in Records /\ roots[mounted] \in AllRoots
        /\ roots[mounted].packages \in [Ops -> Progress] /\ basis[op] \in [Ops -> Progress]
    BY DEF Base, TypeInvariant, VerifierPart, VerifierStates, StoragePart, AllRoots, FilesPart,
       Roots, Packages
  <1>1. disk[op].goal = mem.goal /\ (mem.goal => disk[op].boot_snapshot = mem.boot_snapshot)
    BY DEF ChildReadsTheRecord
  <1>2. CASE mem.goal
    <2>1. mounted = mem.boot_snapshot
      BY <1>1, <1>2 DEF BootMatches
    <2>2. Installed[op] = "old"
      BY <1>0, <1>2, <2>1 DEF TruthInvariant, ValidPart, GoalPart, BackTo, Installed
    <2>3. roots[mounted].repositories # op
      BY <1>0, <2>2 DEF TruthInvariant, RepositoriesPart, Installed
    <2> QED BY <1>2, <2>1, <2>2, <2>3 DEF Verified
  <1>3. CASE ~mem.goal
    <2>1. Installed = [basis[op] EXCEPT ![op] = "new"]
      BY <1>1, <1>3 DEF BootMatches, ResultMatchesPlan
    <2>2. RunsRelease(roots[mounted], op) /\ Installed[op] = "new"
      BY <1>0, <2>1 DEF RunsRelease, Installed
    <2>3. Kind[op] = "ReleaseUpgrade" => roots[mounted].live /\ roots[mounted].repositories = op
      BY <1>0, <1>3, <2>2 DEF TruthInvariant, DeclaredPart, Declared
    <2> QED BY <1>3, <2>2, <2>3 DEF Verified
  <1> QED BY <1>2, <1>3

\* VerdictInvariant is inductive as long as the child reads what was claimed.
LEMMA VerdictStep ==
    ASSUME Base, ChangeInvariant, TruthInvariant, ChildReadsTheRecord, VerdictInvariant, Next
    PROVE  VerdictInvariant'
  <1> DEFINE op == verifier.op
             mem == verifier.mem
             Late == {"consume", "replace"}
             Claims(pc, r) == pc \in Late \/ (pc = "final" /\ r.state = "Completed")
  <1>0. /\ TypeInvariant /\ mem \in Records
        /\ verifier.pc \in {"check", "consume", "replace", "final"} => op \in Ops
    BY DEF Base, TypeInvariant, VerifierPart, VerifierStates
  \* Other processes.
  <1>1. CASE UNCHANGED verifier
    <2>1. Claims(verifier.pc, mem) => Verified(op, mem)'
      <3>1. Claims(verifier.pc, mem) => op \in Ops /\ Verified(op, mem)
        BY <1>0 DEF VerdictInvariant
      <3> QED BY <1>0, <1>1, <3>1, VerdictStands DEF Verified
    <2> QED BY <1>1, <2>1 DEF VerdictInvariant, Verified
  <1>2. CASE verifier'.pc \notin Late \cup {"final"}
    BY <1>2 DEF VerdictInvariant
  <1>3. ASSUME verifier'.pc = "final", verifier'.mem.state # "Completed" PROVE VerdictInvariant'
    BY <1>3 DEF VerdictInvariant
  \* The verifier, from what its check found.
  <1>4. ASSUME verifier'.op = op, verifier'.mem.goal = mem.goal,
               verifier'.mem.boot_snapshot = mem.boot_snapshot, verifier'.pc \in Late \cup {"final"},
               verifier'.pc \in Late => ~mem.goal, Verified(op, mem),
               verifier.pc \in {"check", "consume", "replace"}
        PROVE  VerdictInvariant'
    <2>1. op \in Ops
      BY <1>0, <1>4
    <2>2. \A o \in Ops : \A r : Verified(o, r) => Verified(o, r)'
      BY <1>4, VerdictStands
    <2>3. Verified(verifier.op, verifier.mem)'
      BY <1>4, <2>1, <2>2 DEF Verified
    <2> QED BY <1>4, <2>3 DEF VerdictInvariant
  <1>p. /\ Passed(mem).goal = mem.goal /\ Passed(mem).boot_snapshot = mem.boot_snapshot
        /\ Unconsumed(mem).state = "NeedsRecovery"
        /\ Settle(mem, "NeedsRecovery", "POST_BOOT_VERIFICATION_FAILED").state = "NeedsRecovery"
    BY <1>0, SettleFields, KeepsClone DEF Passed, Unconsumed
  <1>v. ASSUME NEW pc, NEW r
        PROVE  /\ verifier' = [verifier EXCEPT !.pc = pc] =>
                    verifier'.pc = pc /\ verifier'.op = op /\ verifier'.mem = mem
               /\ verifier' = [verifier EXCEPT !.pc = pc, !.mem = r] =>
                    verifier'.pc = pc /\ verifier'.op = op /\ verifier'.mem = r
    BY <1>0, VerifierFields
  <1>5. CASE CheckPasses
    <2>1. Verified(op, mem) /\ verifier.pc = "check"
      BY <1>5, CheckIsTrue DEF CheckPasses, VerifierAt
    <2>2. CASE ConsumesSequence(op)
      <3>1. verifier'.pc = "consume" /\ verifier'.op = op /\ verifier'.mem = mem /\ ~mem.goal
        BY <1>5, <1>v, <2>2 DEF CheckPasses, ConsumesSequence
      <3> QED BY <1>4, <2>1, <3>1
    <2>3. CASE ~ConsumesSequence(op)
      <3>0. verifier' = [verifier EXCEPT !.pc = "final", !.mem = Passed(mem)]
        BY <1>5, <2>3 DEF CheckPasses
      <3>1. verifier'.pc = "final" /\ verifier'.op = op /\ verifier'.mem = Passed(mem)
        BY <1>v, <3>0
      <3> QED BY <1>4, <1>p, <2>1, <3>1
    <2> QED BY <2>2, <2>3
  <1>6. CASE WriteSequenceTmp
    <2>1. /\ verifier.pc = "consume" /\ verifier'.pc = "replace" /\ verifier'.op = op
          /\ verifier'.mem = mem
      BY <1>6, <1>v DEF WriteSequenceTmp, VerifierAt
    <2> QED BY <1>4, <2>1 DEF VerdictInvariant
  <1>7. CASE ReplaceSequence
    <2>1. PICK r \in {Passed(mem), Unconsumed(mem)} : verifier' = [verifier EXCEPT !.pc = "final", !.mem = r]
      BY <1>7 DEF ReplaceSequence
    <2>2. verifier'.pc = "final" /\ verifier'.op = op /\ verifier'.mem = r
      BY <1>v, <2>1
    <2>3. CASE r = Passed(mem)
      BY <1>4, <1>7, <1>p, <2>2, <2>3 DEF ReplaceSequence, VerifierAt, VerdictInvariant
    <2>4. CASE r = Unconsumed(mem)
      BY <1>3, <1>p, <2>2, <2>4
    <2> QED BY <2>1, <2>3, <2>4
  <1>8. CASE CheckFails \/ SequenceFails
    <2>1. PICK r : r.state = "NeedsRecovery" /\ verifier' = [verifier EXCEPT !.pc = "final", !.mem = r]
      BY <1>8, <1>p DEF CheckFails, SequenceFails, Unconsumed
    <2> QED BY <1>3, <1>v, <2>1
  <1>9. CASE \/ VerifierAcquire \/ VerifierBusy \/ Reconcile \/ ReconcileRefused \/ NothingPending
             \/ BeginVerification \/ SaveVerdict \/ VerifierDies \/ Scan
    <2>1. CASE VerifierBusy \/ ReconcileRefused \/ NothingPending \/ SaveVerdict \/ VerifierDies
      BY <1>2, <2>1 DEF VerifierBusy, ReconcileRefused, NothingPending, SaveVerdict, VerifierDies,
         VerifierExit, IdleVerifier
    <2>2. CASE VerifierAcquire \/ BeginVerification
      <3>1. verifier'.pc \in {"scan", "check"}
        BY <1>v, <2>2 DEF VerifierAcquire, BeginVerification
      <3> QED BY <1>2, <3>1
    <2>3. CASE Scan
      <3>1. verifier'.pc = "reconcile"
        BY <2>3 DEF Scan
      <3> QED BY <1>2, <3>1
    <2>4. CASE Reconcile
      <3>1. PICK todo, scanned : verifier' = [verifier EXCEPT !.todo = todo, !.scanned = scanned]
        BY <2>4 DEF Reconcile
      <3>2. verifier.pc = "reconcile" /\ verifier \in VerifierStates
        BY <1>0, <2>4 DEF Reconcile, VerifierAt, TypeInvariant, VerifierPart
      <3>3. verifier'.pc = "reconcile"
        BY <3>1, <3>2 DEF VerifierStates
      <3> QED BY <1>2, <3>3
    <2> QED BY <1>9, <2>1, <2>2, <2>3, <2>4
  <1>10. ASSUME NEW w \in Workers, WorkerProgress(w) \/ WorkerDies(w) PROVE VerdictInvariant'
    BY <1>1, <1>10, WorkerEffects DEF Base, RecoveryInvariant, WorkerEffect
  <1>11. ASSUME NEW s \in Sessions, SessionRequest(s) \/ SessionProgress(s) \/ SessionDies(s)
         PROVE  VerdictInvariant'
    BY <1>1, <1>11, SessionEffects DEF Base, RecoveryInvariant, SnapshotInvariant, SessionEffect
  <1>12. CASE OfflineProgress
    BY <1>1, <1>12, OfflineSteps DEF Base, OfflineStep
  <1>13. CASE PowerLoss \/ Reboot \/ Boot \/ ForeignStage
    <2>1. PlatformStep
      BY <1>13, PlatformSteps DEF Base, RecoveryInvariant
    <2> QED BY <1>1, <1>2, <2>1 DEF PlatformStep
  <1> QED
    BY <1>5, <1>6, <1>7, <1>8, <1>9, <1>10, <1>11, <1>12, <1>13 DEF Next, VerifierProgress

\* A step saves at most one record.
LEMMA OneRecordAtATime ==
    ASSUME Base, Next, disk' # disk
    PROVE  \E op \in Ops, r \in Records : disk' = [disk EXCEPT ![op] = r]
  <1> DEFINE One == \E op \in Ops, r \in Records : disk' = [disk EXCEPT ![op] = r]
  <1>1. ASSUME NEW w \in Workers, WorkerProgress(w) \/ WorkerDies(w) PROVE One
    <2>1. ThreadStep(w) /\ worker[w].op \in Ops
      BY <1>1, ThreadSteps, WorkerEffects DEF Base, RecoveryInvariant, WorkerEffect
    <2> QED BY <2>1 DEF ThreadStep
  <1>2. ASSUME NEW s \in Sessions, SessionRequest(s) \/ SessionProgress(s) \/ SessionDies(s) PROVE One
    <2>1. RequestStep(s)
      BY <1>2, RequestSteps DEF Base, RecoveryInvariant
    <2> QED BY <2>1 DEF RequestStep, ObjectiveSaved
  <1>3. CASE OfflineProgress
    <2>1. OfflineStep
      BY <1>3, OfflineSteps DEF Base
    <2> QED BY <2>1 DEF OfflineStep, OfflineLeaves, OfflineAdvances
  <1>4. CASE VerifierProgress \/ VerifierDies
    <2>1. VerifierEffect
      BY <1>4, VerifierEffects DEF Base, RecoveryInvariant
    <2> QED BY <2>1 DEF VerifierEffect
  <1>5. CASE PowerLoss \/ Reboot \/ Boot \/ ForeignStage
    BY <1>5, PlatformSteps DEF Base, RecoveryInvariant, PlatformStep
  <1> QED BY <1>1, <1>2, <1>3, <1>4, <1>5 DEF Next

\* A record that becomes Completed was verified, or is that of an update
\* within the release whose thread saw its result; nothing else changes then.
LEMMA CompletionIsTrue ==
    ASSUME Base, ChangeInvariant, TruthInvariant, VerdictInvariant, Next,
           NEW op \in Ops, disk'[op] # disk[op], disk'[op].state = "Completed"
    PROVE  Verified(op, disk'[op])
  <1>0. TypeInvariant /\ disk \in [Ops -> Records]
    BY DEF Base, TypeInvariant, DiskPart
  <1>1. ASSUME NEW w \in Workers, WorkerProgress(w) \/ WorkerDies(w) PROVE Verified(op, disk'[op])
    <2>1. ThreadStep(w) /\ WorkerEffect(w)
      BY <1>1, ThreadSteps, WorkerEffects DEF Base, RecoveryInvariant
    <2>2. worker[w].op = op /\ worker[w].pc # "idle"
      BY <2>1 DEF WorkerEffect
    <2>3. PICK r \in Records :
             /\ disk' = [disk EXCEPT ![op] = r] /\ r.goal = worker[w].mem.goal
             /\ worker[w].pc = "finish" => Installed[op] = "new"
             /\ worker[w].pc # "finish" =>
                    r.state \notin {"AwaitingReboot", "VerifyingBoot", "Completed"} \ {worker[w].mem.state}
      BY <2>1, <2>2 DEF ThreadStep
    <2>4. disk'[op] = r
      BY <1>0, <2>3
    <2>5. worker[w].pc = "finish" /\ ~r.goal
      BY <2>2, <2>3, <2>4 DEF Base, ReplayInvariant, WorkerUnfinished, TruthInvariant, ValidPart
    <2>6. Kind[op] # "ReleaseUpgrade"
      BY <2>2, <2>5, SignedKinds DEF Base, ReplayInvariant, WorkerUnfinished
    <2> QED BY <2>3, <2>4, <2>5, <2>6 DEF Verified
  <1>2. ASSUME NEW s \in Sessions, SessionRequest(s) \/ SessionProgress(s) \/ SessionDies(s)
        PROVE  FALSE
    <2>1. RequestStep(s) /\ SessionEffect(s)
      BY <1>2, RequestSteps, SessionEffects DEF Base, RecoveryInvariant, SnapshotInvariant
    <2>2. InitialRecord.state = "AwaitingConfirmation"
      BY DEF InitialRecord, AbsentRecord
    <2>3. session[s].op = op
      BY <1>0, <2>1 DEF RequestStep, ObjectiveSaved
    <2>4. CASE session[s].pc \in {"create", "cancel"}
      BY <1>0, <2>1, <2>2, <2>3, <2>4 DEF RequestStep, ObjectiveSaved
    <2>5. CASE session[s].pc \notin {"create", "cancel"}
      BY <1>0, <2>1, <2>3, <2>5 DEF SessionEffect, RecordWritten
    <2> QED BY <2>4, <2>5
  <1>3. ~OfflineProgress
    <2> SUFFICES ASSUME OfflineProgress PROVE FALSE
      OBVIOUS
    <2>1. OfflineStep
      BY <1>0, OfflineSteps
    <2>2. CASE OfflineLeaves
      BY <1>0, <2>2 DEF OfflineLeaves
    <2>3. CASE OfflineAdvances
      BY <1>0, <2>3 DEF OfflineAdvances
    <2> QED BY <2>1, <2>2, <2>3 DEF OfflineStep
  <1>4. CASE VerifierProgress \/ VerifierDies
    <2>1. VerifierEffect
      BY <1>4, VerifierEffects DEF Base, RecoveryInvariant
    <2>2. PICK o \in Ops, r \in Records :
             /\ disk' = [disk EXCEPT ![o] = r]
             /\ \/ r.state = InterruptedState(verifier.scanned[o].state)
                \/ /\ o = verifier.op
                   /\ r.state = "VerifyingBoot" \/ (verifier.pc = "final" /\ r = verifier.mem)
      BY <2>1 DEF VerifierEffect
    <2>3. disk'[op] = r /\ o = op
      BY <1>0, <2>2
    <2>4. op = verifier.op /\ verifier.pc = "final" /\ r = verifier.mem
      BY <2>2, <2>3 DEF InterruptedState
    <2> QED BY <2>3, <2>4 DEF VerdictInvariant
  <1>5. ~(PowerLoss \/ Reboot \/ Boot \/ ForeignStage)
    BY PlatformSteps DEF Base, RecoveryInvariant, PlatformStep
  <1> QED BY <1>1, <1>2, <1>3, <1>4, <1>5 DEF Next

\* What holds as long as the --check-boot child reads what was claimed.
LEMMA VerdictInvariance == Spec /\ []ChildReadsTheRecord => []VerdictInvariant
  <1>1. Init => VerdictInvariant
    BY DEF Init, IdleVerifier, VerdictInvariant
  <1>2. /\ Base /\ ChangeInvariant /\ TruthInvariant /\ ChildReadsTheRecord /\ VerdictInvariant
        /\ [Next]_vars
        => VerdictInvariant'
    <2> SUFFICES ASSUME Base, ChangeInvariant, TruthInvariant, ChildReadsTheRecord, VerdictInvariant,
                        [Next]_vars
                 PROVE  VerdictInvariant'
      OBVIOUS
    <2>1. CASE UNCHANGED vars
      BY <2>1 DEF vars, storage, platform, processes, VerdictInvariant, Verified, Installed
    <2> QED BY <2>1, VerdictStep
  <1> QED BY <1>1, <1>2, BaseInvariance, ChangeInvariance, TruthInvariance, PTL DEF Spec

\* CompletedIsTrue, for every number of operations, clients, threads, boots
\* and recoveries: all it takes is that no save outside the transaction lock
\* changes the objective of the record between its claim and its check.
THEOREM CompletedTrue == Spec /\ []ChildReadsTheRecord => CompletedIsTrue
  <1> DEFINE True ==
        \A op \in Ops :
          disk[op].state # "Completed" /\ disk'[op].state = "Completed" =>
              IF disk'[op].goal
              THEN /\ mounted = disk'[op].boot_snapshot
                   /\ Installed[op] = "old" /\ roots[mounted].repositories # op
              ELSE /\ Installed[op] = "new"
                   /\ Kind[op] = "ReleaseUpgrade" =>
                          roots[mounted].live /\ roots[mounted].repositories = op
  <1>1. Base /\ ChangeInvariant /\ TruthInvariant /\ VerdictInvariant /\ [Next]_vars => [True]_vars
    BY CompletionIsTrue DEF Verified
  <1> QED BY <1>1, BaseInvariance, ChangeInvariance, TruthInvariance, VerdictInvariance, PTL
      DEF Spec, CompletedIsTrue

\* The machine implements ProtectedChange with its outcomes
\* (ImplementsProtectedChange), under the same condition.
THEOREM PromiseKept == Spec /\ []ChildReadsTheRecord => ImplementsProtectedChange
  <1> DEFINE Declared1 == [op \in Ops |-> Outcome(disk[op])]
  <1>1. Init => Promise!Init
    <2> SUFFICES ASSUME Init PROVE Promise!Init
      OBVIOUS
    <2>1. Declared1 = [o \in Ops |-> "open"]
      BY StorageInit
    <2> QED BY <2>1, StorageInit DEF Promise!Init
  <1>2. Base /\ ChangeInvariant /\ TruthInvariant /\ VerdictInvariant /\ [Next]_vars
            => [Promise!Next]_(Promise!vars)
    <2> SUFFICES ASSUME Base, ChangeInvariant, TruthInvariant, VerdictInvariant, [Next]_vars
                 PROVE  [Promise!Next]_(Promise!vars)
      OBVIOUS
    <2>0. TypeInvariant
      BY DEF Base
    <2>1. UNCHANGED disk => Declared1' = Declared1
      BY DEF Outcome
    <2>2. CASE Next /\ UNCHANGED disk
      <3>1. StorageStep /\ Declared1' = Declared1
        BY <2>1, <2>2, StorageSteps
      <3> HIDE DEF Declared1
      <3>2. CASE Kept
        BY <3>1, <3>2 DEF Kept, Promise!vars, Declared1
      <3>3. CASE Protects
        BY <3>1, <3>3 DEF Protects, Promise!Next, Promise!Protect, Declared1
      <3>4. CASE Changes
        BY <3>1, <3>4 DEF Changes, Promise!Next, Promise!Change, Declared1
      <3>5. CASE Restores
        BY <3>1, <3>5 DEF Restores, Promise!Next, Promise!Restore, Declared1
      <3>6. CASE Boots
        BY <3>1, <3>6 DEF Boots, Promise!Next, Promise!Boot, Declared1
      <3> QED BY <3>1, <3>2, <3>3, <3>4, <3>5, <3>6 DEF StorageStep
    <2>3. CASE UNCHANGED vars
      <3>1. Content' = Content /\ Copies' = Copies /\ UNCHANGED <<mounted, disk>>
        BY <2>0, <2>3, CopiesAre DEF Content, vars, storage, platform
      <3> QED BY <2>1, <3>1 DEF Promise!vars
    <2>4. CASE Next /\ disk' # disk
      <3>1. Content' = Content /\ Copies' = Copies /\ UNCHANGED mounted
        BY <2>4, StorageSteps DEF StorageStep, Kept
      <3>2. PICK op \in Ops, r \in Records : disk' = [disk EXCEPT ![op] = r]
        BY <2>4, OneRecordAtATime
      <3>3. disk \in [Ops -> Records] /\ disk'[op] = r
        BY <2>0, <3>2 DEF TypeInvariant, DiskPart
      <3>4. r # disk[op]
        BY <2>4, <3>2, <3>3
      <3>5. r.state = "Completed" => Verified(op, r)
        BY <2>4, <3>3, <3>4, CompletionIsTrue
      <3>6. Content[mounted] = Installed
        BY <2>0, ContentIs
      <3>7. /\ Outcome(r) \in {"open", "applied", "restored"}
            /\ Outcome(r) = "applied" => Content[mounted][op] = "new"
            /\ Outcome(r) = "restored" => Content[mounted][op] = "old"
        BY <3>5, <3>6 DEF Outcome, Verified
      <3>8. Declared1' = [Declared1 EXCEPT ![op] = Outcome(r)]
        <4>1. \A o \in Ops : Outcome(disk'[o]) = IF o = op THEN Outcome(r) ELSE Outcome(disk[o])
          BY <3>2, <3>3
        <4>2. Declared1' = [o \in Ops |-> Outcome(disk'[o])]
          BY DEF Outcome
        <4> QED BY <4>1, <4>2
      <3>9. Promise!Declare(op, Outcome(r))
        BY <3>1, <3>7, <3>8 DEF Promise!Declare
      <3> QED BY <3>7, <3>9 DEF Promise!Next, Promise!Outcomes
    <2> QED BY <2>2, <2>3, <2>4
  <1> QED BY <1>1, <1>2, BaseInvariance, ChangeInvariance, TruthInvariance, VerdictInvariance, PTL
      DEF Spec, ImplementsProtectedChange, Promise!Spec

-----------------------------------------------------------------------------
(* One client at a time.                                                   *)

\* The verifier takes its candidate up from the disk, in one step, and keeps
\* what is to be verified until it lets go of it.
VerifierClaims ==
    LET q == verifier' IN
    /\ q.pc \in {"acquire", "scan"} => verifier.pc = "acquire" /\ UNCHANGED disk
    /\ \/ q.op = NoOp
       \/ /\ verifier.pc = "scan" /\ UNCHANGED disk
          /\ Candidate(q.op) /\ q.mem = disk[q.op] /\ q.op \notin q.todo
       \/ /\ verifier.pc # "final" \/ UNCHANGED disk
          /\ q.op = verifier.op /\ q.todo \subseteq verifier.todo
          /\ q.mem.goal = verifier.mem.goal /\ q.mem.boot_snapshot = verifier.mem.boot_snapshot

\* Every step of the verifier, and its death.
LEMMA VerifierClaim ==
    ASSUME TypeInvariant, ModePart, CopyPart, VerifierProgress \/ VerifierDies
    PROVE  VerifierClaims
  <1> DEFINE mem == verifier.mem
  <1>0. mem \in Records /\ verifier \in VerifierStates /\ disk \in [Ops -> Records]
    BY DEF TypeInvariant, VerifierPart, VerifierStates, DiskPart
  <1>e. VerifierExit => VerifierClaims
    <2>1. IdleVerifier.pc = "idle" /\ IdleVerifier.op = NoOp
      BY DEF IdleVerifier
    <2> QED BY <2>1 DEF VerifierExit, VerifierClaims
  <1>f. ASSUME NEW pc, NEW r
        PROVE  /\ verifier' = [verifier EXCEPT !.pc = pc] =>
                    /\ verifier'.pc = pc /\ verifier'.op = verifier.op /\ verifier'.mem = mem
                    /\ verifier'.todo = verifier.todo
               /\ verifier' = [verifier EXCEPT !.pc = pc, !.mem = r] =>
                    /\ verifier'.pc = pc /\ verifier'.op = verifier.op /\ verifier'.mem = r
                    /\ verifier'.todo = verifier.todo
    <2>0. /\ {"pc", "op", "mem", "todo", "scanned"} \subseteq DOMAIN verifier
          /\ verifier = [x \in DOMAIN verifier |-> verifier[x]]
      BY <1>0 DEF VerifierStates
    <2>1. ASSUME verifier' = [verifier EXCEPT !.pc = pc]
          PROVE  /\ verifier'.pc = pc /\ verifier'.op = verifier.op /\ verifier'.mem = mem
                 /\ verifier'.todo = verifier.todo
      BY <2>0, <2>1, Zenon
    <2>2. ASSUME verifier' = [verifier EXCEPT !.pc = pc, !.mem = r]
          PROVE  /\ verifier'.pc = pc /\ verifier'.op = verifier.op /\ verifier'.mem = r
                 /\ verifier'.todo = verifier.todo
      BY <2>0, <2>2, Zenon
    <2> QED BY <2>1, <2>2
  <1>m. ASSUME verifier'.pc \in {"check", "consume", "replace", "final"}, verifier.pc # "final",
               verifier'.op = verifier.op, verifier'.todo = verifier.todo,
               verifier'.mem.goal = mem.goal, verifier'.mem.boot_snapshot = mem.boot_snapshot
        PROVE  VerifierClaims
    BY <1>m DEF VerifierClaims
  <1>p. /\ Passed(mem).goal = mem.goal /\ Passed(mem).boot_snapshot = mem.boot_snapshot
        /\ Unconsumed(mem).goal = mem.goal /\ Unconsumed(mem).boot_snapshot = mem.boot_snapshot
    BY <1>0, SettleFields, KeepsClone DEF Passed, Unconsumed
  <1> USE DEF VerifierAt
  <1>1. CASE VerifierAcquire
    <2>1. verifier'.pc = "scan" /\ verifier'.op = verifier.op /\ verifier.pc = "acquire" /\ UNCHANGED disk
      BY <1>1, VerifierFields DEF VerifierAcquire
    <2> QED BY <2>1 DEF VerifierClaims, ModePart
  <1>2. CASE VerifierBusy \/ ReconcileRefused \/ NothingPending \/ VerifierDies \/ SaveVerdict
    BY <1>2, <1>e DEF VerifierBusy, ReconcileRefused, NothingPending, VerifierDies, SaveVerdict
  <1>3. CASE Scan
    <2>1. PICK o \in Ops \cup {NoOp} :
             /\ o # NoOp => Candidate(o)
             /\ verifier' =
                  [pc |-> "reconcile", op |-> o,
                   mem |-> IF o = NoOp THEN AbsentRecord ELSE disk[o],
                   todo |-> {x \in Ops : Interrupted(x)},
                   scanned |-> [x \in Ops |-> IF Interrupted(x) THEN disk[x] ELSE AbsentRecord]]
      BY <1>3 DEF Scan
    <2>2. /\ verifier'.pc = "reconcile" /\ verifier'.op = o
          /\ o # NoOp => Candidate(o) /\ verifier'.mem = disk[o]
          /\ verifier'.todo = {x \in Ops : Interrupted(x)}
      BY <2>1
    <2>3. Candidate(o) => ~Interrupted(o)
      BY DEF Candidate, Interrupted, InProgress
    <2> QED BY <1>3, <2>2, <2>3 DEF Scan, VerifierClaims
  <1>4. CASE Reconcile
    <2>1. PICK o \in verifier.todo :
             verifier' = [verifier EXCEPT !.todo = @ \ {o}, !.scanned[o] = AbsentRecord]
      BY <1>4 DEF Reconcile
    <2>2. /\ verifier'.pc = verifier.pc /\ verifier'.op = verifier.op /\ verifier'.mem = mem
          /\ verifier'.todo = verifier.todo \ {o}
      BY <1>0, <2>1 DEF VerifierStates
    <2> QED BY <1>4, <2>2 DEF VerifierClaims, Reconcile
  <1>5. CASE BeginVerification
    <2> DEFINE r == IF mem.state = "AwaitingReboot" THEN TransitionTo(mem, "VerifyingBoot") ELSE mem
    <2>1. r.goal = mem.goal /\ r.boot_snapshot = mem.boot_snapshot
      <3>1. LET q == TransitionTo(mem, "VerifyingBoot")
            IN  q.goal = mem.goal /\ q.boot_snapshot = mem.boot_snapshot
        BY <1>0, TransitionFields, KeepsClone DEF States
      <3> QED BY <3>1
    <2>2. verifier' = [verifier EXCEPT !.pc = "check", !.mem = r] /\ verifier.pc = "reconcile"
      BY <1>5 DEF BeginVerification
    <2> HIDE DEF r
    <2>3. /\ verifier'.pc \in {"check", "final"} /\ verifier'.mem = r
          /\ verifier'.op = verifier.op /\ verifier'.todo = verifier.todo
      BY <1>f, <2>2
    <2> QED BY <1>m, <2>1, <2>2, <2>3
  <1>6. CASE CheckPasses
    <2>1. /\ verifier.pc = "check"
          /\ \/ verifier' = [verifier EXCEPT !.pc = "consume"]
             \/ verifier' = [verifier EXCEPT !.pc = "final", !.mem = Passed(mem)]
      BY <1>6 DEF CheckPasses
    <2>2. CASE verifier' = [verifier EXCEPT !.pc = "final", !.mem = Passed(mem)]
      <3>1. verifier'.pc = "final" /\ verifier'.mem = Passed(mem) /\ verifier'.op = verifier.op /\ verifier'.todo = verifier.todo
        BY <1>f, <2>2
      <3> QED BY <1>m, <1>p, <2>1, <3>1
    <2>3. CASE verifier' = [verifier EXCEPT !.pc = "consume"]
      BY <1>f, <1>m, <2>1, <2>3
    <2> QED BY <2>1, <2>2, <2>3
  <1>7. CASE CheckFails
    <2> DEFINE r == Settle(mem, "NeedsRecovery", "POST_BOOT_VERIFICATION_FAILED")
    <2>1. r.goal = mem.goal /\ r.boot_snapshot = mem.boot_snapshot
      BY <1>0, SettleFields, KeepsClone
    <2>2. verifier' = [verifier EXCEPT !.pc = "final", !.mem = r] /\ verifier.pc = "check"
      BY <1>7 DEF CheckFails
    <2> HIDE DEF r
    <2>3. /\ verifier'.pc \in {"check", "final"} /\ verifier'.mem = r
          /\ verifier'.op = verifier.op /\ verifier'.todo = verifier.todo
      BY <1>f, <2>2
    <2> QED BY <1>m, <2>1, <2>2, <2>3
  <1>8. CASE WriteSequenceTmp
    <2>1. verifier' = [verifier EXCEPT !.pc = "replace"] /\ verifier.pc = "consume"
      BY <1>8 DEF WriteSequenceTmp
    <2> QED BY <1>f, <1>m, <2>1
  <1>9. CASE ReplaceSequence \/ SequenceFails
    <2>1. /\ verifier.pc \in {"consume", "replace"}
          /\ \/ verifier' = [verifier EXCEPT !.pc = "final", !.mem = Passed(mem)]
             \/ verifier' = [verifier EXCEPT !.pc = "final", !.mem = Unconsumed(mem)]
      BY <1>9 DEF ReplaceSequence, SequenceFails
    <2>2. CASE verifier' = [verifier EXCEPT !.pc = "final", !.mem = Passed(mem)]
      <3>1. verifier'.pc = "final" /\ verifier'.mem = Passed(mem) /\ verifier'.op = verifier.op /\ verifier'.todo = verifier.todo
        BY <1>f, <2>2
      <3> QED BY <1>m, <1>p, <2>1, <3>1
    <2>3. CASE verifier' = [verifier EXCEPT !.pc = "final", !.mem = Unconsumed(mem)]
      <3>1. verifier'.pc = "final" /\ verifier'.mem = Unconsumed(mem) /\ verifier'.op = verifier.op /\ verifier'.todo = verifier.todo
        BY <1>f, <2>3
      <3> QED BY <1>m, <1>p, <2>1, <3>1
    <2> QED BY <2>1, <2>2, <2>3
  <1> QED BY <1>1, <1>2, <1>3, <1>4, <1>5, <1>6, <1>7, <1>8, <1>9 DEF VerifierProgress

\* An executor thread.
LEMMA WorkerStepClaim ==
    ASSUME Base, TruthInvariant, Unshared, ClaimInvariant,
           NEW w \in Workers, WorkerProgress(w) \/ WorkerDies(w)
    PROVE  ClaimInvariant'
  <1> DEFINE op == worker[w].op
             Bad == {"Absent", "AwaitingReboot", "VerifyingBoot", "NeedsRecovery"}
  <1>0. TypeInvariant /\ WorkerEffect(w) /\ ThreadStep(w) /\ disk \in [Ops -> Records]
    BY WorkerEffects, ThreadSteps DEF Base, RecoveryInvariant, TypeInvariant, DiskPart
  <1>1. /\ UNCHANGED <<session, verifier>> /\ op \in Ops /\ WorksOn(w, op)
        /\ \A v \in Workers \ {w} : worker'[v] = worker[v]
        /\ worker'[w].pc = "idle" \/ worker'[w].op = op
        /\ \A o \in Ops \ {op} : disk'[o] = disk[o]
    BY <1>0 DEF WorkerEffect, WorksOn
  <1>2. \A v \in Workers, o \in Ops : WorksOn(v, o)' => WorksOn(v, o)
    BY <1>1 DEF WorksOn
  <1>3. ~worker[w].mem.goal /\ worker[w].mem.state \notin Bad
    BY <1>1 DEF TruthInvariant, ValidPart, ClaimInvariant, WorksOn
  <1>4. worker'[w].pc # "idle" => worker'[w].mem.state \notin Bad
    BY <1>0, <1>3 DEF ThreadStep
  <1>5. /\ disk'[op] = disk[op] \/ ~disk'[op].goal
        /\ disk'[op] = disk[op] \/ (worker'[w].pc # "idle" => disk'[op].state \notin Bad)
    <2>1. CASE UNCHANGED disk
      BY <2>1
    <2>2. CASE ~UNCHANGED disk
      <3>1. PICK r \in Records : /\ disk' = [disk EXCEPT ![op] = r] /\ r.goal = worker[w].mem.goal
                                 /\ worker'[w].pc # "idle" => worker'[w].mem = r
        BY <1>0, <2>2 DEF ThreadStep
      <3>2. disk'[op] = r
        BY <1>0, <1>1, <3>1
      <3> QED BY <1>3, <1>4, <3>1, <3>2
    <2> QED BY <2>1, <2>2
  <1>6. \A v \in Workers : worker'[v].pc # "idle" => worker'[v].mem.state \notin {"Absent", "NeedsRecovery"}
    BY <1>1, <1>4 DEF ClaimInvariant
  <1>7. ASSUME verifier.pc \in {"acquire", "scan"} PROVE UnclaimedPart'
    <2>1. ASSUME NEW v \in Workers, worker'[v].pc # "idle"
          PROVE  disk'[worker'[v].op].state \notin Bad
      <3>1. CASE v = w
        BY <1>1, <1>5, <1>7, <2>1, <3>1 DEF ClaimInvariant, UnclaimedPart, WorksOn
      <3>2. CASE v # w
        <4>1. worker'[v] = worker[v] /\ worker[v].op \in Ops
          BY <1>0, <1>1, <2>1, <3>2 DEF TypeInvariant, WorkerPart
        <4>2. worker[v].op # op
          BY <1>1, <2>1, <3>2, <4>1 DEF Unshared, WorksOn
        <4> QED BY <1>1, <1>7, <2>1, <4>1, <4>2 DEF ClaimInvariant, UnclaimedPart
      <3> QED BY <3>1, <3>2
    <2>2. ASSUME NEW s \in Sessions
          PROVE  /\ session[s].pc = "create" => disk'[session[s].op].state = "Absent"
                 /\ session[s].pc = "cancel" => ~disk'[session[s].op].goal
                 /\ session[s].pc = "keep" => disk'[session[s].op].state = "NeedsRecovery"
                 /\ session[s].pc \in {"keep", "intent", "rollback", "selected"} =>
                        \A v \in Workers : ~WorksOn(v, session[s].op)'
      <3>0. session[s].pc # "idle" => session[s].op \in Ops
        BY <1>0 DEF TypeInvariant, SessionPart
      <3>1. CASE session[s].op # op
        BY <1>1, <1>2, <1>7, <3>0, <3>1 DEF ClaimInvariant, UnclaimedPart
      <3>2. CASE session[s].op = op
        <4>1. disk[op].state # "Absent"
          BY <1>1, <1>7 DEF ClaimInvariant, UnclaimedPart, WorksOn
        <4> QED BY <1>1, <1>5, <1>7, <3>0, <3>2, <4>1 DEF ClaimInvariant, UnclaimedPart
      <3> QED BY <3>1, <3>2
    <2> QED BY <1>1, <2>1, <2>2 DEF UnclaimedPart, WorksOn
  <1>8. ClaimedPart'
    <2> SUFFICES ASSUME verifier.op \in Ops PROVE ClaimedPart'
      BY <1>1 DEF ClaimedPart
    <2>1. verifier.op # op
      BY <1>1 DEF ClaimInvariant, ClaimedPart
    <2>2. \A v \in Workers : ~(worker'[v].pc # "idle" /\ worker'[v].op = verifier.op)
      BY <1>2 DEF ClaimInvariant, ClaimedPart, WorksOn
    <2> QED BY <1>1, <2>1, <2>2 DEF ClaimInvariant, ClaimedPart, WorksOn
  <1> QED BY <1>1, <1>6, <1>7, <1>8 DEF ClaimInvariant, UnclaimedPart

\* A request handler.
LEMMA SessionStepClaim ==
    ASSUME Base, TruthInvariant, Unshared, ClaimInvariant, NEW s \in Sessions,
           SessionRequest(s) \/ SessionProgress(s) \/ SessionDies(s)
    PROVE  ClaimInvariant'
  <1> DEFINE op == session[s].op
             at == session[s].pc
             q == session'[s]
             Bad == {"Absent", "AwaitingReboot", "VerifyingBoot", "NeedsRecovery"}
             Deciding == {"keep", "intent", "rollback", "selected"}
  <1>0. /\ TypeInvariant /\ SessionEffect(s) /\ RequestStep(s) /\ disk \in [Ops -> Records]
        /\ at # "idle" => op \in Ops
        /\ \A t \in Sessions : session[t].pc # "idle" => session[t].op \in Ops
        /\ \A w \in Workers : worker[w].pc # "idle" => worker[w].op \in Ops
    BY SessionEffects, RequestSteps DEF Base, RecoveryInvariant, SnapshotInvariant, TypeInvariant,
       DiskPart, SessionPart, WorkerPart
  <1>1. UNCHANGED verifier /\ (\A t \in Sessions \ {s} : session'[t] = session[t]) /\ TypeInvariant'
    <2>1. Next
      BY DEF Next
    <2> QED BY <1>0, <2>1, NextType DEF SessionEffect
  <1>2. q.pc # "idle" => q.op \in Ops
    BY <1>1 DEF TypeInvariant, SessionPart
  \* What it saves, and the thread it spawns.
  <1>3. \/ UNCHANGED disk
        \/ /\ op \in Ops /\ UNCHANGED worker
           /\ \A o \in Ops \ {op} : disk'[o] = disk[o]
           /\ \/ at \in {"create", "intent", "rollback", "selected"}
              \/ /\ at \in {"cancel", "keep"} /\ disk'[op].state = "Failed"
                 /\ disk'[op].goal = session[s].mem.goal
    BY <1>0 DEF RequestStep, ObjectiveSaved
  <1>4. \/ UNCHANGED worker
        \/ /\ UNCHANGED disk /\ at = "spawn" /\ disk[op].state = "AwaitingConfirmation"
           /\ \E w \in Workers :
                 /\ worker'[w].op = op /\ worker'[w].mem.state = "AwaitingConfirmation"
                 /\ \A v \in Workers \ {w} : worker'[v] = worker[v]
    BY <1>0 DEF RequestStep, ThreadBegun
  <1>5. at = "idle" => UNCHANGED <<disk, worker>>
    BY <1>3, <1>4
  \* Where it goes.
  <1>6. \/ q.pc \in {"idle", "plan", "owner", "spawn"}
        \/ at = "idle" /\ q.pc = "create" /\ disk[q.op].state = "Absent"
        \/ at = "idle" /\ q.pc = "cancel" /\ IsCancelable(disk[q.op].state)
        \/ at = "idle" /\ q.pc \in {"keep", "intent"} /\ disk[q.op].state = "NeedsRecovery"
        \/ at \in {"intent", "rollback"} /\ q.pc \in {"rollback", "selected"} /\ q.op = op
    BY <1>0 DEF RequestStep, ObjectiveTaken, SessionEffect, RequestMoved
  <1>7. \A w \in Workers : worker'[w].pc # "idle" => worker'[w].mem.state \notin {"Absent", "NeedsRecovery"}
    BY <1>4 DEF ClaimInvariant
  <1>8. ASSUME NEW t \in Sessions \ {s}, session[t].pc # "idle", at # "idle" PROVE session[t].op # op
    BY <1>0, <1>8 DEF Unshared
  <1>9. ASSUME verifier.pc \in {"acquire", "scan"} PROVE UnclaimedPart'
    <2>1. ASSUME NEW w \in Workers, worker'[w].pc # "idle"
          PROVE  disk'[worker'[w].op].state \notin Bad
      <3>1. CASE worker'[w] = worker[w]
        <4>1. disk[worker[w].op].state \notin Bad /\ worker[w].op \in Ops
          BY <1>0, <1>9, <2>1, <3>1 DEF ClaimInvariant, UnclaimedPart
        <4>2. CASE UNCHANGED disk \/ worker[w].op # op
          BY <1>3, <3>1, <4>1, <4>2
        <4>3. CASE disk' # disk /\ worker[w].op = op
          <5>1. at \notin {"create", "intent", "rollback", "selected"}
            BY <1>9, <2>1, <3>1, <4>1, <4>3 DEF ClaimInvariant, UnclaimedPart, WorksOn
          <5> QED BY <1>3, <3>1, <4>3, <5>1
        <4> QED BY <4>2, <4>3
      <3>2. CASE worker'[w] # worker[w]
        BY <1>4, <3>2
      <3> QED BY <3>1, <3>2
    <2>2. ASSUME NEW t \in Sessions, NEW o \in Ops, NEW pc,
                 session'[t].pc = pc, session'[t].op = o, pc # "idle"
          PROVE  /\ pc = "create" => disk'[o].state = "Absent"
                 /\ pc = "cancel" => ~disk'[o].goal
                 /\ pc = "keep" => disk'[o].state = "NeedsRecovery"
                 /\ pc \in Deciding => \A w \in Workers : ~WorksOn(w, o)'
      <3>1. CASE t # s
        <4>1. session[t].pc = pc /\ session[t].op = o
          BY <1>1, <2>2, <3>1
        <4>2. disk'[o] = disk[o]
          BY <1>3, <1>8, <2>2, <3>1, <4>1
        <4>3. \A w \in Workers : WorksOn(w, o)' => WorksOn(w, o)
          BY <1>4, <1>8, <2>2, <3>1, <4>1 DEF WorksOn
        <4> QED BY <1>9, <4>1, <4>2, <4>3 DEF ClaimInvariant, UnclaimedPart
      <3>2. CASE t = s /\ at = "idle"
        <4>1. UNCHANGED <<disk, worker>>
          BY <1>5, <3>2
        <4>2. pc = "cancel" => ~disk[o].goal
          BY <1>6, <2>2, <3>2 DEF TruthInvariant, ValidPart, GoalIsConsistent, IsCancelable
        <4>3. pc \in {"keep", "intent"} => \A w \in Workers : ~WorksOn(w, o)
          BY <1>6, <1>9, <2>2, <3>2 DEF ClaimInvariant, UnclaimedPart, WorksOn
        <4> QED BY <1>6, <2>2, <3>2, <4>1, <4>2, <4>3 DEF WorksOn
      <3>3. CASE t = s /\ at # "idle"
        <4>1. pc \in {"plan", "owner", "spawn"} \/ (at \in {"intent", "rollback"} /\ o = op
                  /\ pc \in {"rollback", "selected"})
          BY <1>6, <2>2, <3>3
        <4>2. at \in {"intent", "rollback"} => UNCHANGED worker /\ \A w \in Workers : ~WorksOn(w, op)
          BY <1>4, <1>9 DEF ClaimInvariant, UnclaimedPart
        <4> QED BY <4>1, <4>2 DEF WorksOn
      <3> QED BY <3>1, <3>2, <3>3
    <2>3. \A t \in Sessions : session'[t].pc # "idle" => session'[t].op \in Ops
      BY <1>1 DEF TypeInvariant, SessionPart
    <2>4. ASSUME NEW t \in Sessions
          PROVE  /\ session'[t].pc = "create" => disk'[session'[t].op].state = "Absent"
                 /\ session'[t].pc = "cancel" => ~disk'[session'[t].op].goal
                 /\ session'[t].pc = "keep" => disk'[session'[t].op].state = "NeedsRecovery"
                 /\ session'[t].pc \in Deciding =>
                        \A w \in Workers : ~(worker'[w].pc # "idle" /\ worker'[w].op = session'[t].op)
      BY <2>2, <2>3 DEF WorksOn
    <2> QED BY <2>1, <2>4 DEF UnclaimedPart, WorksOn
  <1>10. ClaimedPart'
    <2> SUFFICES ASSUME NEW o \in Ops, verifier.op = o PROVE ClaimedPart'
      BY <1>1 DEF ClaimedPart
    <2>1. lock = "verifier"
      BY MachineAssumption DEF Base, LockInv, VerifierHolds, RecoveryInvariant, ModePart
    <2>2. at \notin {"intent", "rollback", "selected"}
      BY <2>1, MachineAssumption DEF Base, LockInv, SessionsHold
    <2>3. /\ disk[o].state \in {"AwaitingReboot", "VerifyingBoot", "Failed"}
          /\ disk[o].goal = verifier.mem.goal
          /\ verifier.mem.goal => disk[o].boot_snapshot = verifier.mem.boot_snapshot
          /\ o \notin verifier.todo
          /\ \A w \in Workers : ~WorksOn(w, o)
          /\ \A t \in Sessions :
                session[t].op = o =>
                    /\ session[t].pc \notin {"create", "keep"}
                    /\ session[t].pc = "cancel" => ~verifier.mem.goal
      BY DEF ClaimInvariant, ClaimedPart
    <2>4. /\ disk'[o].state \in {"AwaitingReboot", "VerifyingBoot", "Failed"}
          /\ disk'[o].goal = verifier.mem.goal
          /\ verifier.mem.goal => disk'[o].boot_snapshot = verifier.mem.boot_snapshot
      <3>1. CASE disk'[o] = disk[o]
        BY <2>3, <3>1
      <3>2. CASE disk'[o] # disk[o]
        <4>1. at = "cancel" /\ op = o /\ disk'[o].state = "Failed" /\ disk'[o].goal = session[s].mem.goal
          BY <1>3, <2>2, <2>3, <3>2
        <4>2. ~session[s].mem.goal /\ ~verifier.mem.goal
          BY <2>3, <4>1 DEF TruthInvariant, ValidPart
        <4>3. session[s].mem.goal \in BOOLEAN /\ verifier.mem.goal \in BOOLEAN
          BY <1>0 DEF TypeInvariant, SessionPart, SessionStates, VerifierPart, VerifierStates, Records
        <4> QED BY <4>1, <4>2, <4>3
      <3> QED BY <3>1, <3>2
    <2>5. \A w \in Workers : ~(worker'[w].pc # "idle" /\ worker'[w].op = o)
      BY <1>4, <2>3 DEF WorksOn
    <2>6. ASSUME NEW t \in Sessions, session'[t].op = o
          PROVE  /\ session'[t].pc \notin {"create", "keep"}
                 /\ session'[t].pc = "cancel" => ~verifier.mem.goal
      <3>1. CASE t # s
        BY <1>1, <2>3, <2>6, <3>1
      <3>2. CASE t = s
        BY <1>6, <2>3, <2>6, <3>2 DEF IsCancelable
      <3> QED BY <3>1, <3>2
    <2> QED BY <1>1, <2>3, <2>4, <2>5, <2>6 DEF ClaimedPart, WorksOn
  <1> QED BY <1>1, <1>7, <1>9, <1>10 DEF ClaimInvariant, UnclaimedPart

\* The verifier.
LEMMA VerifierStepClaim ==
    ASSUME Base, TruthInvariant, ClaimInvariant, VerifierProgress \/ VerifierDies
    PROVE  ClaimInvariant'
  <1>0. VerifierEffect /\ VerifierClaims /\ disk \in [Ops -> Records]
    BY VerifierEffects, VerifierClaim DEF Base, RecoveryInvariant, TypeInvariant, DiskPart
  <1>1. UNCHANGED <<worker, session>>
    BY <1>0 DEF VerifierEffect
  <1>2. UnclaimedPart'
    BY <1>0, <1>1 DEF VerifierClaims, ClaimInvariant, UnclaimedPart, WorksOn
  <1>3. ClaimedPart'
    <2> SUFFICES ASSUME NEW o \in Ops, verifier'.op = o PROVE ClaimedPart'
      BY DEF ClaimedPart
    <2>1. CASE /\ verifier.pc = "scan" /\ UNCHANGED disk
               /\ Candidate(o) /\ verifier'.mem = disk[o] /\ o \notin verifier'.todo
      <3>1. \A w \in Workers : ~WorksOn(w, o)
        BY <2>1 DEF ClaimInvariant, UnclaimedPart, Candidate, WorksOn
      <3>2. \A s \in Sessions :
               session[s].op = o =>
                   /\ session[s].pc \notin {"create", "keep"}
                   /\ session[s].pc = "cancel" => ~disk[o].goal
        BY <2>1 DEF ClaimInvariant, UnclaimedPart, Candidate
      <3> QED BY <1>1, <2>1, <3>1, <3>2 DEF ClaimedPart, Candidate, WorksOn
    <2>2. CASE /\ verifier.pc # "final" \/ UNCHANGED disk
               /\ o = verifier.op /\ verifier'.todo \subseteq verifier.todo
               /\ verifier'.mem.goal = verifier.mem.goal
               /\ verifier'.mem.boot_snapshot = verifier.mem.boot_snapshot
      <3>1. /\ o \notin verifier.todo
            /\ disk[o].state \in {"AwaitingReboot", "VerifyingBoot", "Failed"}
            /\ disk[o].goal = verifier.mem.goal
            /\ verifier.mem.goal => disk[o].boot_snapshot = verifier.mem.boot_snapshot
            /\ \A w \in Workers : ~WorksOn(w, o)
            /\ \A s \in Sessions :
                  session[s].op = o =>
                      /\ session[s].pc \notin {"create", "keep"}
                      /\ session[s].pc = "cancel" => ~verifier.mem.goal
        BY <2>2 DEF ClaimInvariant, ClaimedPart
      <3>2. \/ disk'[o] = disk[o]
            \/ /\ disk'[o].state = "VerifyingBoot" /\ disk'[o].goal = verifier.mem.goal
               /\ disk'[o].boot_snapshot = verifier.mem.boot_snapshot
        <4>1. CASE UNCHANGED disk
          BY <4>1
        <4>2. CASE disk' # disk
          <5>1. PICK x \in Ops, r \in Records :
                   /\ disk' = [disk EXCEPT ![x] = r]
                   /\ \/ x \in verifier.todo
                      \/ /\ r.goal = verifier.mem.goal /\ r.boot_snapshot = verifier.mem.boot_snapshot
                         /\ r.state = "VerifyingBoot"
            BY <1>0, <2>2, <4>2 DEF VerifierEffect
          <5> QED BY <1>0, <3>1, <5>1
        <4> QED BY <4>1, <4>2
      <3>3. /\ disk'[o].state \in {"AwaitingReboot", "VerifyingBoot", "Failed"}
            /\ disk'[o].goal = verifier.mem.goal
            /\ verifier.mem.goal => disk'[o].boot_snapshot = verifier.mem.boot_snapshot
        BY <3>1, <3>2
      <3> QED BY <1>1, <2>2, <3>1, <3>3 DEF ClaimedPart, WorksOn
    <2> QED BY <1>0, <2>1, <2>2, MachineAssumption DEF VerifierClaims
  <1> QED BY <1>1, <1>2, <1>3 DEF ClaimInvariant

\* The offline worker, power losses and boots: then no thread, no request or
\* no verifier is there, or nothing is written.
LEMMA OtherStepClaim ==
    ASSUME Base, ClaimInvariant,
           OfflineProgress \/ PowerLoss \/ Reboot \/ Boot \/ ForeignStage
    PROVE  ClaimInvariant'
  <1>0. /\ mode # "up" => /\ \A w \in Workers : worker[w].pc = "idle"
                          /\ \A s \in Sessions : session[s].pc = "idle"
                          /\ verifier.pc = "idle" /\ verifier.op = NoOp
    BY DEF Base, SnapshotInvariant, QuietPart, RecoveryInvariant, ModePart
  <1>1. CASE OfflineProgress
    <2>1. OfflineStep
      BY <1>1, OfflineSteps DEF Base
    <2> QED BY <1>0, <2>1, MachineAssumption
        DEF OfflineStep, ClaimInvariant, UnclaimedPart, ClaimedPart
  <1>2. CASE PowerLoss \/ Reboot \/ Boot \/ ForeignStage
    <2>1. PlatformStep
      BY <1>2, PlatformSteps DEF Base, RecoveryInvariant
    <2>2. CASE /\ \A w \in Workers : worker'[w].pc = "idle"
               /\ \A s \in Sessions : session'[s].pc = "idle"
               /\ verifier'.op = NoOp
      BY <2>2, MachineAssumption DEF ClaimInvariant, UnclaimedPart, ClaimedPart
    <2>3. CASE UNCHANGED <<worker, session, verifier>>
      BY <2>1, <2>3 DEF PlatformStep, ClaimInvariant, UnclaimedPart, ClaimedPart, WorksOn
    <2> QED BY <1>0, <2>1, <2>2, <2>3 DEF PlatformStep
  <1> QED BY <1>1, <1>2

\* ClaimInvariant, as long as an operation is in the hands of one request and
\* of one thread at a time, however many there are.
THEOREM ClaimInvariance == Spec /\ []Unshared => []ClaimInvariant
  <1>1. Init => ClaimInvariant
    BY MachineAssumption DEF Init, IdleWorker, IdleSession, IdleVerifier, ClaimInvariant,
       UnclaimedPart, ClaimedPart
  <1>2. Base /\ TruthInvariant /\ Unshared /\ ClaimInvariant /\ [Next]_vars => ClaimInvariant'
    <2> SUFFICES ASSUME Base, TruthInvariant, Unshared, ClaimInvariant, [Next]_vars
                 PROVE  ClaimInvariant'
      OBVIOUS
    <2>1. CASE UNCHANGED vars
      BY <2>1 DEF vars, processes, ClaimInvariant, UnclaimedPart, ClaimedPart, WorksOn
    <2>2. CASE Next
      BY <2>2, WorkerStepClaim, SessionStepClaim, VerifierStepClaim, OtherStepClaim DEF Next
    <2> QED BY <2>1, <2>2
  <1> QED BY <1>1, <1>2, BaseInvariance, TruthInvariance, PTL DEF Spec

\* Then the record the child loads is the one that was claimed.
LEMMA UnsharedIsRead == Spec /\ []Unshared => []ChildReadsTheRecord
  <1>1. Base /\ ClaimInvariant => ChildReadsTheRecord
    BY DEF Base, TypeInvariant, VerifierPart, ClaimInvariant, ClaimedPart, ChildReadsTheRecord
  <1> QED BY <1>1, BaseInvariance, ClaimInvariance, PTL

\* CompletedIsTrue under a condition on the clients alone: any number of them,
\* with threads, crashes and boots, as long as no two requests and no two
\* threads are on one operation at once.
THEOREM UnsharedCompletesTruly == Spec /\ []Unshared => CompletedIsTrue
  BY UnsharedIsRead, CompletedTrue, PTL

\* The refinement of ProtectedChange with its outcomes, under that condition.
THEOREM UnsharedKeepsPromise == Spec /\ []Unshared => ImplementsProtectedChange
  BY UnsharedIsRead, PromiseKept, PTL

\* With one service process that has one thread the condition is void: Completed
\* is true and the promise kept on every machine with a single client.
THEOREM SoleClient ==
    ASSUME \A v, w \in Workers : v = w, \A s, t \in Sessions : s = t
    PROVE  Spec => CompletedIsTrue /\ ImplementsProtectedChange
  <1>1. Unshared
    BY DEF Unshared
  <1> QED BY <1>1, UnsharedCompletesTruly, UnsharedKeepsPromise, PTL

-----------------------------------------------------------------------------
(* A transaction on record.                                                *)

\* An executor thread.
LEMMA WorkerStepOnRecord ==
    ASSUME Base, TruthInvariant, Unshared, ClaimInvariant, OnRecordInvariant,
           NEW w \in Workers, WorkerProgress(w) \/ WorkerDies(w)
    PROVE  OnRecordInvariant'
  <1> DEFINE op == worker[w].op
             mem == worker[w].mem
             at == worker[w].pc
             q == worker'[w]
             Marked == {"Applying", "ApplyingOffline", "NeedsRecovery"}
  <1> SUFFICES ASSUME requests' = 0
               PROVE  (RecordPart /\ ThreadOnRecord /\ CreateOnRecord /\ VerifierOnRecord)'
    BY DEF OnRecordInvariant
  <1>0. TypeInvariant /\ WorkerEffect(w) /\ ThreadStep(w) /\ disk \in [Ops -> Records]
    BY WorkerEffects, ThreadSteps DEF Base, RecoveryInvariant, TypeInvariant, DiskPart
  <1>1. /\ UNCHANGED <<session, verifier, mounted, default>> /\ op \in Ops /\ at # "idle"
        /\ \A v \in Workers \ {w} : worker'[v] = worker[v]
        /\ q.pc = "idle" \/ q.op = op
        /\ \A o \in Ops \ {op} : disk'[o] = disk[o]
    BY <1>0 DEF WorkerEffect
  <1>2. RecordPart /\ ThreadOnRecord /\ CreateOnRecord /\ VerifierOnRecord
    BY <1>0 DEF ThreadStep, OnRecordInvariant
  <1>3. mem.state # "Absent" /\ (q.pc # "idle" => q.mem.state # "Absent")
    BY <1>0, <1>1 DEF ThreadStep, ClaimInvariant
  \* Only a thread in zypper changes packages, and only its own.
  <1>4. /\ \A o \in Ops \ {op} : Installed'[o] = Installed[o]
        /\ at # "zypper" => Installed' = Installed
        /\ q.pc = "finish" => Installed'[op] = "new"
    <2>1. mounted \in Subvolumes
      BY <1>0 DEF TypeInvariant, StoragePart
    <2>2. CASE UNCHANGED roots \/ \E m : SetMarker(m)
      <3>1. Installed' = Installed
        BY <1>0, <1>1, <2>2, PackagesKept
      <3> QED BY <1>0, <1>1, <2>1, <3>1, RootsWritten DEF ThreadStep, Installed
    <2>3. CASE at = "zypper" /\ \E p \in {"partial", "new"} : SetPackages(op, p)
      <3>1. \A o \in Ops \ {op} : Installed'[o] = Installed[o]
        BY <1>0, <1>1, <2>3, RootsWritten DEF Installed
      <3>2. q.pc = "finish" => Installed'[op] = "new"
        BY <1>0, <1>1, RootsWritten DEF ThreadStep, Installed
      <3> QED BY <2>3, <3>1, <3>2
    <2> QED BY <1>0, <2>2, <2>3 DEF WorkerEffect
  <1>5. \/ UNCHANGED disk
        \/ /\ at # "zypper" /\ disk'[op].state # "Absent"
           /\ at # "record" => NotPartial(op)
           /\ NotPartial(op) \/ disk'[op].state = "NeedsRecovery"
    <2> SUFFICES ASSUME ~UNCHANGED disk
                 PROVE  /\ at # "zypper" /\ disk'[op].state # "Absent"
                        /\ at # "record" => NotPartial(op)
                        /\ NotPartial(op) \/ disk'[op].state = "NeedsRecovery"
      OBVIOUS
    <2>1. PICK r \in Records :
             /\ disk' = [disk EXCEPT ![op] = r]
             /\ \/ at \in {"begin", "snapshot", "number", "apply", "ready", "finish"}
                \/ at = "record" /\ (mem.snapshot_number # 0 => r.state = "NeedsRecovery")
             /\ r.state = "Absent" => mem.state = "Absent"
      BY <1>0 DEF ThreadStep
    <2>2. disk'[op] = r
      BY <1>0, <1>1, <2>1
    <2> QED BY <1>1, <1>2, <1>3, <2>1, <2>2 DEF ThreadOnRecord
  <1>6. RecordPart'
    <2>1. ASSUME NEW o \in Ops PROVE Installed'[o] # "partial" \/ disk'[o].state \in Marked
      <3>1. CASE o # op
        BY <1>1, <1>2, <1>4, <3>1 DEF RecordPart, NotPartial
      <3>2. CASE o = op /\ at = "zypper"
        BY <1>1, <1>2, <1>5, <3>2 DEF ThreadOnRecord
      <3>3. CASE o = op /\ at # "zypper"
        BY <1>2, <1>4, <1>5, <3>3 DEF RecordPart, NotPartial
      <3> QED BY <3>1, <3>2, <3>3
    <2> QED BY <1>1, <1>2, <2>1 DEF RecordPart, NotPartial
  <1>7. ThreadOnRecord'
    <2>1. ASSUME NEW v \in Workers, worker'[v].pc # "idle"
          PROVE  /\ disk'[worker'[v].op].state # "Absent"
                 /\ worker'[v].pc = "zypper" => disk'[worker'[v].op].state = "Applying"
                 /\ \/ Installed'[worker'[v].op] # "partial"
                    \/ worker'[v].pc \in {"zypper", "failed", "record"} /\ worker'[v].mem.snapshot_number # 0
      <3>1. CASE v # w
        <4>1. worker'[v] = worker[v] /\ worker[v].op \in Ops
          BY <1>0, <1>1, <2>1, <3>1 DEF TypeInvariant, WorkerPart
        <4>2. worker[v].op # op
          BY <1>1, <2>1, <3>1, <4>1 DEF Unshared, WorksOn
        <4> QED BY <1>1, <1>2, <1>4, <2>1, <4>1, <4>2 DEF ThreadOnRecord, NotPartial
      <3>2. CASE v = w
        <4>0. q.op = op
          BY <1>1, <2>1, <3>2
        <4>1. disk'[op].state # "Absent"
          BY <1>1, <1>2, <1>5 DEF ThreadOnRecord
        <4>2. q.pc = "zypper" => disk'[op].state = "Applying"
          BY <1>0, <1>1, <1>2 DEF ThreadStep, ThreadOnRecord
        <4>3. CASE at \in {"zypper", "failed", "record"}
          <5>1. q.mem.snapshot_number = mem.snapshot_number /\ q.pc \in {"zypper", "finish", "failed", "record"}
            BY <1>0, <2>1, <3>2, <4>3 DEF ThreadStep
          <5>2. at = "zypper" => mem.snapshot_number # 0
            BY <1>1 DEF Base, SnapshotInvariant, WorkerClean, ThreadIsClean
          <5>3. CASE q.pc = "finish"
            BY <1>4, <3>2, <4>0, <4>1, <5>3
          <5>4. CASE q.pc # "finish" /\ mem.snapshot_number # 0
            BY <3>2, <4>0, <4>1, <4>2, <5>1, <5>4
          <5>5. CASE mem.snapshot_number = 0
            BY <1>1, <1>2, <1>4, <3>2, <4>0, <4>1, <4>2, <5>2, <5>5 DEF ThreadOnRecord, NotPartial
          <5> QED BY <5>3, <5>4, <5>5
        <4>4. CASE at \notin {"zypper", "failed", "record"}
          BY <1>1, <1>2, <1>4, <3>2, <4>0, <4>1, <4>2, <4>4 DEF ThreadOnRecord, NotPartial
        <4> QED BY <4>3, <4>4
      <3> QED BY <3>1, <3>2
    <2> QED BY <2>1 DEF ThreadOnRecord, NotPartial
  <1>8. CreateOnRecord'
    <2>1. ASSUME NEW s \in Sessions, session[s].pc = "create" PROVE disk'[session[s].op].state = "Absent"
      <3>1. session[s].op \in Ops /\ disk[session[s].op].state = "Absent"
        BY <1>0, <1>2, <2>1 DEF TypeInvariant, SessionPart, CreateOnRecord
      <3>2. session[s].op # op
        BY <1>1, <1>2, <3>1 DEF ThreadOnRecord
      <3> QED BY <1>1, <3>1, <3>2
    <2> QED BY <1>1, <2>1 DEF CreateOnRecord
  <1>9. VerifierOnRecord'
    <2>1. verifier.op \in Ops => /\ disk'[verifier.op].state # "Absent"
                                 /\ Installed'[verifier.op] # "partial"
      <3>1. verifier.op \in Ops => verifier.op # op
        BY <1>1 DEF ClaimInvariant, ClaimedPart, WorksOn
      <3> QED BY <1>1, <1>2, <1>4, <3>1 DEF VerifierOnRecord, NotPartial
    <2>2. ASSUME NEW o \in verifier.todo
          PROVE  /\ disk'[o].state # "Absent"
                 /\ verifier.scanned[o].state = "Downloading" => Installed'[o] # "partial"
      <3>1. at # "zypper"
        <4>1. lock = "verifier"
          BY <2>2 DEF Base, LockInv, VerifierHolds, RecoveryInvariant, ModePart
        <4> QED BY <4>1, MachineAssumption DEF Base, LockInv, WorkersHold, HoldsLock
      <3>2. o \in Ops
        BY <1>0 DEF TypeInvariant, VerifierPart, VerifierStates
      <3> QED BY <1>1, <1>2, <1>4, <1>5, <3>1, <3>2 DEF VerifierOnRecord, NotPartial
    <2> QED BY <1>1, <2>1, <2>2 DEF VerifierOnRecord, NotPartial
  <1> QED BY <1>6, <1>7, <1>8, <1>9

\* A request handler: it creates the operation and spawns its thread.
LEMMA SessionStepOnRecord ==
    ASSUME Base, Unshared, OnRecordInvariant, NEW s \in Sessions,
           SessionRequest(s) \/ SessionProgress(s) \/ SessionDies(s)
    PROVE  OnRecordInvariant'
  <1> DEFINE op == session[s].op
             at == session[s].pc
             q == session'[s]
  <1> SUFFICES ASSUME requests' = 0
               PROVE  (RecordPart /\ ThreadOnRecord /\ CreateOnRecord /\ VerifierOnRecord)'
    BY DEF OnRecordInvariant
  <1>0. TypeInvariant /\ SessionEffect(s) /\ RequestStep(s) /\ disk \in [Ops -> Records] /\ requests \in Nat
    BY SessionEffects, RequestSteps DEF Base, RecoveryInvariant, SnapshotInvariant, TypeInvariant,
       DiskPart, RestPart
  <1>1. RecordPart /\ ThreadOnRecord /\ CreateOnRecord /\ VerifierOnRecord
    BY <1>0 DEF RequestStep, OnRecordInvariant
  <1>2. at \in {"idle", "create", "plan", "owner", "spawn"}
    BY <1>1 DEF RecordPart
  <1>3. /\ UNCHANGED <<verifier, mounted, roots, default>> /\ Installed' = Installed
        /\ \A t \in Sessions \ {s} : session'[t] = session[t]
    BY <1>0, <1>2 DEF SessionEffect, CloneMade, Installed
  <1>4. \/ q.pc \in {"idle", "plan", "owner", "spawn"}
        \/ at = "idle" /\ q.pc = "create" /\ disk[q.op].state = "Absent"
    BY <1>0, <1>2 DEF RequestStep, ObjectiveTaken
  <1>5. \/ UNCHANGED disk
        \/ /\ at = "create" /\ op \in Ops /\ disk[op].state = "Absent" /\ disk'[op].state # "Absent"
           /\ UNCHANGED worker
           /\ \A o \in Ops \ {op} : disk'[o] = disk[o]
    <2>1. InitialRecord.state # "Absent"
      BY DEF InitialRecord, AbsentRecord
    <2> QED BY <1>0, <1>1, <1>2, <2>1 DEF RequestStep, ObjectiveSaved, CreateOnRecord
  <1>6. \/ UNCHANGED worker
        \/ /\ UNCHANGED disk /\ at = "spawn" /\ disk[op].state = "AwaitingConfirmation"
           /\ \E w \in Workers :
                 /\ worker'[w].op = op /\ worker'[w].pc = "acquire"
                 /\ \A v \in Workers \ {w} : worker'[v] = worker[v]
    BY <1>0 DEF RequestStep, ThreadBegun
  <1>7. \A o \in Ops : disk[o].state # "Absent" => disk'[o] = disk[o]
    BY <1>5
  <1>8. RecordPart'
    <2>1. ASSUME NEW o \in Ops
          PROVE  Installed'[o] # "partial" \/ disk'[o].state \in {"Applying", "ApplyingOffline", "NeedsRecovery"}
      BY <1>1, <1>3, <1>7 DEF RecordPart, NotPartial
    <2> QED BY <1>1, <1>3, <1>4, <2>1 DEF RecordPart, NotPartial
  <1>9. ThreadOnRecord'
    <2>1. ASSUME NEW w \in Workers, worker'[w].pc # "idle"
          PROVE  /\ disk'[worker'[w].op].state # "Absent"
                 /\ worker'[w].pc = "zypper" => disk'[worker'[w].op].state = "Applying"
                 /\ \/ Installed'[worker'[w].op] # "partial"
                    \/ worker'[w].pc \in {"zypper", "failed", "record"} /\ worker'[w].mem.snapshot_number # 0
      <3>1. CASE worker'[w] = worker[w]
        <4>1. worker[w].op \in Ops /\ disk[worker[w].op].state # "Absent"
          BY <1>0, <1>1, <2>1, <3>1 DEF TypeInvariant, WorkerPart, ThreadOnRecord
        <4>2. disk'[worker[w].op] = disk[worker[w].op]
          BY <1>7, <4>1
        <4> QED BY <1>1, <1>3, <2>1, <3>1, <4>2 DEF ThreadOnRecord, NotPartial
      <3>2. CASE worker'[w] # worker[w]
        <4>1. /\ UNCHANGED disk /\ disk[op].state = "AwaitingConfirmation"
              /\ worker'[w].op = op /\ worker'[w].pc = "acquire" /\ at = "spawn"
          BY <1>6, <3>2
        <4>2. op \in Ops
          BY <1>0, <4>1 DEF TypeInvariant, SessionPart
        <4> QED BY <1>1, <1>3, <4>1, <4>2 DEF RecordPart, NotPartial
      <3> QED BY <3>1, <3>2
    <2> QED BY <2>1 DEF ThreadOnRecord, NotPartial
  <1>10. CreateOnRecord'
    <2>1. ASSUME NEW t \in Sessions, session'[t].pc = "create" PROVE disk'[session'[t].op].state = "Absent"
      <3>1. CASE t = s
        BY <1>4, <1>5, <2>1, <3>1
      <3>2. CASE t # s
        <4>1. session'[t] = session[t] /\ session[t].op \in Ops /\ disk[session[t].op].state = "Absent"
          BY <1>0, <1>1, <1>3, <2>1, <3>2 DEF TypeInvariant, SessionPart, CreateOnRecord
        <4>2. at = "create" => session[t].op # op
          BY <2>1, <3>2, <4>1 DEF Unshared
        <4> QED BY <1>5, <4>1, <4>2
      <3> QED BY <3>1, <3>2
    <2> QED BY <2>1 DEF CreateOnRecord
  <1>11. VerifierOnRecord'
    <2>1. verifier.todo \subseteq Ops
      BY <1>0 DEF TypeInvariant, VerifierPart, VerifierStates
    <2> QED BY <1>1, <1>3, <1>7, <2>1 DEF VerifierOnRecord, NotPartial
  <1> QED BY <1>8, <1>9, <1>10, <1>11

\* The verifier: it gives up only downloads that changed nothing.
LEMMA VerifierStepOnRecord ==
    ASSUME Base, OnRecordInvariant, VerifierProgress \/ VerifierDies
    PROVE  OnRecordInvariant'
  <1> DEFINE Marked == {"Applying", "ApplyingOffline", "NeedsRecovery"}
  <1> SUFFICES ASSUME requests' = 0
               PROVE  (RecordPart /\ ThreadOnRecord /\ CreateOnRecord /\ VerifierOnRecord)'
    BY DEF OnRecordInvariant
  <1>0. /\ TypeInvariant /\ VerifierEffect /\ VerifierClaims /\ disk \in [Ops -> Records]
        /\ verifier.todo \subseteq Ops
    BY VerifierEffects, VerifierClaim DEF Base, RecoveryInvariant, TypeInvariant, DiskPart,
       VerifierPart, VerifierStates
  <1>1. UNCHANGED <<worker, session, mounted, default, roots>> /\ requests = 0 /\ Installed' = Installed
    BY <1>0 DEF VerifierEffect, Installed
  <1>2. RecordPart /\ ThreadOnRecord /\ CreateOnRecord /\ VerifierOnRecord
    BY <1>1 DEF OnRecordInvariant
  <1>3. TypeInvariant'
    <2>1. Next
      BY DEF Next
    <2> QED BY <1>0, <2>1, NextType
  \* What it writes.
  <1>4. \/ UNCHANGED disk
        \/ \E o \in Ops :
              /\ disk[o].state # "Absent" /\ disk'[o].state # "Absent" /\ lock = "verifier"
              /\ NotPartial(o) \/ disk'[o].state \in Marked
              /\ \A x \in Ops \ {o} : disk'[x] = disk[x]
    <2> SUFFICES ASSUME disk' # disk
                 PROVE  \E o \in Ops :
                          /\ disk[o].state # "Absent" /\ disk'[o].state # "Absent" /\ lock = "verifier"
                          /\ NotPartial(o) \/ disk'[o].state \in Marked
                          /\ \A x \in Ops \ {o} : disk'[x] = disk[x]
      OBVIOUS
    <2>1. PICK o \in Ops, r \in Records :
             /\ disk' = [disk EXCEPT ![o] = r] /\ r.state \in SpentStates
             /\ \/ o \in verifier.todo /\ r.state = InterruptedState(verifier.scanned[o].state)
                \/ o = verifier.op
      BY <1>0 DEF VerifierEffect
    <2>2. disk'[o] = r /\ \A x \in Ops \ {o} : disk'[x] = disk[x]
      BY <1>0, <2>1
    <2>3. disk[o].state # "Absent" /\ r.state # "Absent"
      BY <1>2, <2>1 DEF VerifierOnRecord, SpentStates
    <2>4. lock = "verifier"
      BY <2>1, MachineAssumption DEF Base, LockInv, VerifierHolds, RecoveryInvariant, ModePart
    <2>5. NotPartial(o) \/ r.state \in Marked
      BY <1>2, <2>1 DEF VerifierOnRecord, InterruptedState
    <2> QED BY <2>2, <2>3, <2>4, <2>5
  <1>5. RecordPart'
    <2>1. \A o \in Ops : Installed'[o] # "partial" \/ disk'[o].state \in Marked
      BY <1>1, <1>2, <1>4 DEF RecordPart, NotPartial
    <2> QED BY <1>1, <1>2, <2>1 DEF RecordPart, NotPartial
  <1>6. ThreadOnRecord'
    <2>1. ASSUME NEW w \in Workers, worker[w].pc # "idle"
          PROVE  /\ disk'[worker[w].op].state # "Absent"
                 /\ worker[w].pc = "zypper" => disk'[worker[w].op].state = "Applying"
      <3>1. worker[w].op \in Ops
        BY <1>0, <2>1 DEF TypeInvariant, WorkerPart
      <3>2. worker[w].pc = "zypper" => lock # "verifier"
        BY MachineAssumption DEF Base, LockInv, WorkersHold, HoldsLock
      <3> QED BY <1>2, <1>4, <2>1, <3>1, <3>2 DEF ThreadOnRecord
    <2> QED BY <1>1, <1>2, <2>1 DEF ThreadOnRecord, NotPartial
  <1>7. CreateOnRecord'
    <2>1. ASSUME NEW s \in Sessions, session[s].pc = "create" PROVE disk'[session[s].op].state = "Absent"
      <3>1. session[s].op \in Ops /\ disk[session[s].op].state = "Absent"
        BY <1>0, <1>2, <2>1 DEF TypeInvariant, SessionPart, CreateOnRecord
      <3> QED BY <1>4, <3>1
    <2> QED BY <1>1, <2>1 DEF CreateOnRecord
  <1>8. VerifierOnRecord'
    <2>1. verifier'.op \in Ops =>
             disk'[verifier'.op].state # "Absent" /\ Installed'[verifier'.op] # "partial"
      <3> SUFFICES ASSUME NEW o \in Ops, verifier'.op = o
                   PROVE  disk'[o].state # "Absent" /\ Installed[o] # "partial"
        BY <1>1
      <3>1. CASE Candidate(o) /\ UNCHANGED disk
        BY <1>2, <3>1 DEF RecordPart, NotPartial, Candidate
      <3>2. CASE o = verifier.op
        BY <1>2, <1>4, <3>2 DEF VerifierOnRecord, NotPartial
      <3> QED BY <1>0, <3>1, <3>2, MachineAssumption DEF VerifierClaims
    <2>2. ASSUME NEW o \in verifier'.todo
          PROVE  /\ disk'[o].state # "Absent"
                 /\ verifier'.scanned[o].state = "Downloading" => Installed'[o] # "partial"
      <3>1. o \in Ops /\ verifier'.scanned[o].state \in InProgress
        BY <1>3 DEF TypeInvariant, VerifierPart, VerifierStates
      <3>2. CASE o \in verifier.todo /\ verifier'.scanned[o] = verifier.scanned[o]
        BY <1>1, <1>2, <1>4, <3>1, <3>2 DEF VerifierOnRecord, NotPartial
      <3>3. CASE verifier'.scanned[o] = disk[o] /\ UNCHANGED disk
        BY <1>1, <1>2, <3>1, <3>3 DEF RecordPart, NotPartial, InProgress
      <3> QED BY <1>0, <3>2, <3>3 DEF VerifierEffect
    <2> QED BY <2>1, <2>2 DEF VerifierOnRecord, NotPartial
  <1> QED BY <1>5, <1>6, <1>7, <1>8

\* The offline worker: nobody else runs, and its transaction is on record as
\* ApplyingOffline until it is applied or needs recovery.
LEMMA OfflineStepOnRecord ==
    ASSUME Base, ChangeInvariant, OnRecordInvariant, OfflineProgress
    PROVE  OnRecordInvariant'
  <1> DEFINE op == offline.op
             at == offline.pc
             Marked == {"Applying", "ApplyingOffline", "NeedsRecovery"}
  <1> SUFFICES ASSUME requests' = 0
               PROVE  (RecordPart /\ ThreadOnRecord /\ CreateOnRecord /\ VerifierOnRecord)'
    BY DEF OnRecordInvariant
  <1>0. TypeInvariant /\ OfflineStep /\ disk \in [Ops -> Records] /\ mounted \in Subvolumes
    BY OfflineSteps DEF Base, TypeInvariant, DiskPart, StoragePart
  <1>1. /\ UNCHANGED <<worker, session, verifier, mounted, default>> /\ requests = 0 /\ mode = "offline"
    BY <1>0 DEF OfflineStep
  <1>2. RecordPart /\ ThreadOnRecord /\ CreateOnRecord /\ VerifierOnRecord
    BY <1>1 DEF OnRecordInvariant
  <1>3. /\ \A w \in Workers : worker[w].pc = "idle"
        /\ \A s \in Sessions : session[s].pc = "idle"
        /\ verifier.op = NoOp /\ verifier.todo = {}
    BY <1>1 DEF Base, SnapshotInvariant, QuietPart, RecoveryInvariant, ModePart
  <1>4. /\ UNCHANGED roots => Installed' = Installed
        /\ \A m : SetMarker(m) => Installed' = Installed
        /\ \A o, l : SetRepositories(o, l) => Installed' = Installed
    BY <1>0, <1>1, RootsWritten DEF Installed
  <1>5. ASSUME op \in Ops, NEW p, SetPackages(op, p)
        PROVE  /\ Installed'[op] = p
               /\ \A o \in Ops \ {op} : Installed'[o] = Installed[o]
    BY <1>0, <1>1, <1>5, RootsWritten DEF Installed
  <1>6. ASSUME op \in Ops, NEW r \in Records, disk' = [disk EXCEPT ![op] = r], UNCHANGED roots
        PROVE  /\ disk'[op] = r /\ Installed' = Installed
               /\ \A o \in Ops \ {op} : disk'[o] = disk[o]
    BY <1>0, <1>4, <1>6
  <1>7. ASSUME NEW o \in Ops PROVE Installed'[o] # "partial" \/ disk'[o].state \in Marked
    <2>0. Installed[o] # "partial" \/ disk[o].state \in Marked
      BY <1>2 DEF RecordPart, NotPartial
    <2>1. CASE UNCHANGED disk /\ Installed' = Installed
      BY <2>0, <2>1
    <2>2. ASSUME op \in Ops, NEW r \in Records, disk' = [disk EXCEPT ![op] = r], UNCHANGED roots,
                 r.state \in Marked \/ Installed[op] # "partial"
          PROVE  Installed'[o] # "partial" \/ disk'[o].state \in Marked
      <3>1. /\ disk'[op] = r /\ Installed' = Installed
            /\ \A x \in Ops \ {op} : disk'[x] = disk[x]
        BY <1>6, <2>2
      <3> QED BY <2>0, <2>2, <3>1
    <2>3. CASE OfflineLeaves
      <3>1. CASE UNCHANGED disk
        BY <1>4, <2>1, <2>3, <3>1 DEF OfflineLeaves
      <3>2. CASE disk' # disk
        <4>1. PICK r \in Records :
                 /\ op \in Ops /\ UNCHANGED roots /\ disk' = [disk EXCEPT ![op] = r]
                 /\ at = "finish" \/ r.state = "NeedsRecovery"
          BY <2>3, <3>2 DEF OfflineLeaves
        <4>2. at = "finish" => Installed[op] = "new"
          BY DEF ChangeInvariant, WritePart
        <4> QED BY <2>2, <4>1, <4>2
      <3> QED BY <3>1, <3>2
    <2>4. CASE OfflineAdvances
      <3>0. op \in Ops
        BY <2>4 DEF OfflineAdvances
      <3>1. CASE disk' # disk
        <4>1. PICK r \in Records :
                 UNCHANGED roots /\ disk' = [disk EXCEPT ![op] = r] /\ r.state = "ApplyingOffline"
          BY <2>4, <3>1 DEF OfflineAdvances
        <4> QED BY <2>2, <3>0, <4>1
      <3>2. CASE /\ UNCHANGED disk /\ at = "zypper"
                 /\ SetPackages(op, "partial") \/ SetPackages(op, "new")
        <4>1. disk[op].state = "ApplyingOffline"
          BY <3>2 DEF Base, RecoveryInvariant, HerePart, UnderWay, OfflineRuns
        <4> QED BY <1>5, <2>0, <3>0, <3>2, <4>1
      <3>3. CASE UNCHANGED disk /\ Installed' = Installed
        BY <2>1, <3>3
      <3> QED BY <1>4, <2>4, <3>1, <3>2, <3>3 DEF OfflineAdvances
    <2> QED BY <1>0, <2>3, <2>4 DEF OfflineStep
  <1>8. RecordPart'
    BY <1>1, <1>2, <1>7 DEF RecordPart, NotPartial
  <1> QED BY <1>1, <1>3, <1>8, MachineAssumption DEF ThreadOnRecord, CreateOnRecord, VerifierOnRecord

\* Power losses, restarts, boots and other updaters.
LEMMA PlatformStepOnRecord ==
    ASSUME Base, OnRecordInvariant, PowerLoss \/ Reboot \/ Boot \/ ForeignStage
    PROVE  OnRecordInvariant'
  <1> SUFFICES ASSUME requests' = 0
               PROVE  (RecordPart /\ ThreadOnRecord /\ CreateOnRecord /\ VerifierOnRecord)'
    BY DEF OnRecordInvariant
  <1>0. TypeInvariant /\ PlatformStep
    BY PlatformSteps DEF Base, RecoveryInvariant
  <1>1. UNCHANGED <<disk, default>> /\ requests = 0
    BY <1>0 DEF PlatformStep
  <1>2. RecordPart /\ ThreadOnRecord /\ CreateOnRecord /\ VerifierOnRecord
    BY <1>1 DEF OnRecordInvariant
  <1>3. UNCHANGED mounted /\ Installed' = Installed
    <2>1. UNCHANGED mounted
      BY <1>0, <1>2 DEF PlatformStep, RecordPart
    <2> QED BY <1>0, <2>1, RootsWritten DEF PlatformStep, Installed, TypeInvariant, StoragePart
  <1>4. CASE UNCHANGED <<worker, session, verifier>>
    BY <1>1, <1>2, <1>3, <1>4 DEF RecordPart, ThreadOnRecord, CreateOnRecord, VerifierOnRecord, NotPartial
  <1>5. CASE /\ \A w \in Workers : worker'[w].pc = "idle"
             /\ \A s \in Sessions : session'[s].pc = "idle"
             /\ verifier'.op = NoOp /\ verifier'.todo = {}
    BY <1>1, <1>2, <1>3, <1>5, MachineAssumption
    DEF RecordPart, ThreadOnRecord, CreateOnRecord, VerifierOnRecord, NotPartial
  <1>6. CASE UNCHANGED <<worker, session>> /\ mode = "down" /\ verifier'.op = NoOp /\ verifier'.todo = {}
    BY <1>5, <1>6 DEF Base, SnapshotInvariant, QuietPart
  <1> QED BY <1>0, <1>4, <1>5, <1>6 DEF PlatformStep

\* OnRecordInvariant, under the same condition on the clients.
THEOREM OnRecordInvariance == Spec /\ []Unshared => []OnRecordInvariant
  <1>1. Init => OnRecordInvariant
    <2> SUFFICES ASSUME Init PROVE OnRecordInvariant
      OBVIOUS
    <2>1. /\ \A w \in Workers : worker[w].pc = "idle"
          /\ \A s \in Sessions : session[s].pc = "idle"
          /\ verifier.op = NoOp /\ verifier.todo = {} /\ default = mounted
      BY DEF Init, IdleWorker, IdleSession, IdleVerifier
    <2>2. ASSUME NEW op \in Ops PROVE NotPartial(op)
      <3>1. roots = [v \in Subvolumes |-> NewRoot] /\ mounted \in Subvolumes
        BY InitType DEF Init, TypeInvariant, StoragePart
      <3> QED BY <3>1 DEF NewRoot, Untouched, Installed, NotPartial
    <2> QED BY <2>1, <2>2, MachineAssumption
        DEF OnRecordInvariant, RecordPart, ThreadOnRecord, CreateOnRecord, VerifierOnRecord
  <1>2. /\ Base /\ ChangeInvariant /\ TruthInvariant /\ ClaimInvariant /\ Unshared
        /\ OnRecordInvariant /\ [Next]_vars
        => OnRecordInvariant'
    <2> SUFFICES ASSUME Base, ChangeInvariant, TruthInvariant, ClaimInvariant, Unshared,
                        OnRecordInvariant, [Next]_vars
                 PROVE  OnRecordInvariant'
      OBVIOUS
    <2>1. CASE UNCHANGED vars
      BY <2>1 DEF vars, storage, platform, processes, bounds, Installed, OnRecordInvariant, RecordPart,
         ThreadOnRecord, CreateOnRecord, VerifierOnRecord, NotPartial
    <2>2. CASE Next
      BY <2>2, WorkerStepOnRecord, SessionStepOnRecord, VerifierStepOnRecord, OfflineStepOnRecord,
         PlatformStepOnRecord DEF Next
    <2> QED BY <2>1, <2>2
  <1> QED BY <1>1, <1>2, BaseInvariance, ChangeInvariance, TruthInvariance, ClaimInvariance, PTL DEF Spec

\* PartialIsOnRecord, until somebody cancels or takes a recovery decision: no
\* order of threads, deaths, offline boots and verifiers makes an operation
\* that left part of its packages look like one that touched nothing.
THEOREM PartialsOnRecord == Spec /\ []Unshared => [](requests = 0 => PartialIsOnRecord)
  <1>1. OnRecordInvariant => (requests = 0 => PartialIsOnRecord)
    BY DEF OnRecordInvariant, RecordPart, NotPartial, PartialIsOnRecord
  <1> QED BY <1>1, OnRecordInvariance, PTL

\* With one service process that has one thread, the condition is void.
THEOREM SoleClientOnRecord ==
    ASSUME \A v, w \in Workers : v = w, \A s, t \in Sessions : s = t
    PROVE  Spec => [](requests = 0 => PartialIsOnRecord)
  <1>1. Unshared
    BY DEF Unshared
  <1> QED BY <1>1, PartialsOnRecord, PTL
=============================================================================
