----------------------------- MODULE TypeProofs ------------------------------
(***************************************************************************)
(* Type correctness of UpgradeSystem, and mutual exclusion of its          *)
(* transactions, for any number of operations, threads, clients, crashes   *)
(* and requests.                                                           *)
(***************************************************************************)
EXTENDS UpgradeInvariant, TLAPS

-----------------------------------------------------------------------------
(* Records stay records.                                                   *)

\* saturating_add stays within the counter's range.
LEMMA SuccessorType ==
    ASSUME NEW n \in 0..MaxSequence
    PROVE  SaturatingSuccessor(n) \in 0..MaxSequence
  BY MaxSequenceAssumption, SMT DEF SaturatingSuccessor

\* The constant records.
LEMMA ConstantRecords ==
    /\ AbsentRecord \in Records
    /\ InitialRecord \in Records
    /\ AbsentRecord.snapshot_number = 0
    /\ InitialRecord.snapshot_number = 0
  <1>1. 0 \in 0..MaxSequence /\ 1 \in 0..MaxSequence /\ 0 \in Nat
    BY MaxSequenceAssumption
  <1>2. AbsentRecord \in Records /\ AbsentRecord.snapshot_number = 0
    BY <1>1 DEF AbsentRecord, Records, States, ErrorCodes
  <1>3. InitialRecord \in Records
    BY <1>1, <1>2, Zenon DEF InitialRecord, Records, States
  <1>4. InitialRecord.snapshot_number = 0
    BY DEF InitialRecord, AbsentRecord
  <1> QED BY <1>2, <1>3, <1>4

\* transition_to and the other writes keep the shape of a record and its
\* snapshot number.
LEMMA SettleType ==
    ASSUME NEW r \in Records, NEW st \in States, NEW code \in ErrorCodes
    PROVE  /\ Settle(r, st, code) \in Records
           /\ Settle(r, st, code).snapshot_number = r.snapshot_number
  <1>1. SaturatingSuccessor(r.sequence) \in 0..MaxSequence
    BY SuccessorType DEF Records
  <1>2. Settle(r, st, code) \in Records
    BY <1>1, Zenon DEF Settle, Records
  <1>3. Settle(r, st, code).snapshot_number = r.snapshot_number
    BY Zenon DEF Settle, Records
  <1> QED BY <1>2, <1>3

\* The same for transition_to.
LEMMA TransitionType ==
    ASSUME NEW r \in Records, NEW st \in States
    PROVE  /\ TransitionTo(r, st) \in Records
           /\ TransitionTo(r, st).snapshot_number = r.snapshot_number
  <1>1. SaturatingSuccessor(r.sequence) \in 0..MaxSequence
    BY SuccessorType DEF Records
  <1>2. TransitionTo(r, st) \in Records
    BY <1>1, Zenon DEF TransitionTo, Records
  <1>3. TransitionTo(r, st).snapshot_number = r.snapshot_number
    BY Zenon DEF TransitionTo, Records
  <1> QED BY <1>2, <1>3

-----------------------------------------------------------------------------
(* Each part of the invariant survives a step that leaves its variables    *)
(* alone, even if a snapshot is added.                                     *)

\* Snapshots are only ever added, so numbers stay known.
LEMMA FramePart ==
    ASSUME TypeInvariant, Len(snapshots') >= Len(snapshots),
           snapshots' \in Seq(Snapshots)
    PROVE  /\ UNCHANGED disk => DiskPart'
           /\ UNCHANGED worker => WorkerPart'
           /\ UNCHANGED session => SessionPart'
           /\ UNCHANGED offline => OfflinePart'
           /\ UNCHANGED verifier => VerifierPart'
           /\ UNCHANGED storage /\ UNCHANGED mounted => StoragePart'
           /\ UNCHANGED files => FilesPart'
  <1> Len(snapshots) \in Nat /\ Len(snapshots') \in Nat
    BY DEF TypeInvariant, StoragePart
  <1>k. ASSUME NEW r, r.snapshot_number \in 0..Len(snapshots)
        PROVE  r.snapshot_number \in 0..Len(snapshots')
    BY <1>k
  <1>1. UNCHANGED disk => DiskPart'
    BY <1>k DEF TypeInvariant, DiskPart, Known
  <1>2. UNCHANGED worker => WorkerPart'
    BY <1>k DEF TypeInvariant, WorkerPart, Known
  <1>3. UNCHANGED session => SessionPart'
    BY <1>k DEF TypeInvariant, SessionPart, Known
  <1>4. UNCHANGED offline => OfflinePart'
    BY <1>k DEF TypeInvariant, OfflinePart, Known
  <1>5. UNCHANGED verifier => VerifierPart'
    BY <1>k DEF TypeInvariant, VerifierPart, Known
  <1>6. UNCHANGED storage /\ UNCHANGED mounted => StoragePart'
    BY DEF TypeInvariant, StoragePart, storage
  <1>7. UNCHANGED files => FilesPart'
    BY DEF TypeInvariant, FilesPart, files
  <1> QED BY <1>1, <1>2, <1>3, <1>4, <1>5, <1>6, <1>7

\* Saving a record whose number is known.
LEMMA SavePart ==
    ASSUME TypeInvariant, UNCHANGED snapshots,
           NEW op \in Ops, NEW r \in Records, Known(r), SaveState(op, r)
    PROVE  DiskPart'
  BY DEF TypeInvariant, DiskPart, SaveState, Known

\* One thread moves.
LEMMA WorkerMove ==
    ASSUME TypeInvariant, UNCHANGED snapshots,
           NEW w \in Workers, NEW st \in WorkerStates,
           worker' = [worker EXCEPT ![w] = st],
           Known(st.mem), st.pc # "idle" => st.op \in Ops, st.pc # "number"
    PROVE  WorkerPart'
  BY DEF TypeInvariant, WorkerPart, Known

\* Goto and GotoWith are such moves.
LEMMA GotoPart ==
    ASSUME TypeInvariant, UNCHANGED snapshots,
           NEW w \in Workers, worker[w].op \in Ops, NEW pc \in WorkerPcs, pc # "number",
           NEW r \in Records, Known(r)
    PROVE  /\ Goto(w, pc) => WorkerPart'
           /\ GotoWith(w, pc, r) => WorkerPart'
           /\ worker' = [worker EXCEPT ![w] = IdleWorker] => WorkerPart'
           /\ \A b \in Errors :
                 worker' = [worker EXCEPT ![w].pc = pc, ![w].mem = r, ![w].error = b]
                     => WorkerPart'
  <1>0. worker[w] \in WorkerStates /\ Known(worker[w].mem) /\ worker \in [Workers -> WorkerStates]
    BY DEF TypeInvariant, WorkerPart
  <1>1. ASSUME Goto(w, pc) PROVE WorkerPart'
    <2> DEFINE st == [worker[w] EXCEPT !.pc = pc]
    <2>1. worker' = [worker EXCEPT ![w] = st]
      BY <1>1, Zenon DEF Goto
    <2>2. st \in WorkerStates /\ st.mem = worker[w].mem /\ st.op = worker[w].op /\ st.pc = pc
      BY <1>0, Zenon DEF WorkerStates
    <2> HIDE DEF st
    <2> QED BY <1>0, <2>1, <2>2, WorkerMove
  <1>2. ASSUME GotoWith(w, pc, r) PROVE WorkerPart'
    <2> DEFINE st == [worker[w] EXCEPT !.pc = pc, !.mem = r]
    <2>1. worker' = [worker EXCEPT ![w] = st]
      BY <1>0, <1>2 DEF GotoWith
    <2>2. st \in WorkerStates /\ st.mem = r /\ st.op = worker[w].op /\ st.pc = pc
      BY <1>0, Zenon DEF WorkerStates
    <2> HIDE DEF st
    <2> QED BY <1>0, <2>1, <2>2, WorkerMove
  <1>3. ASSUME worker' = [worker EXCEPT ![w] = IdleWorker] PROVE WorkerPart'
    <2>1. /\ IdleWorker \in WorkerStates /\ IdleWorker.pc = "idle"
          /\ IdleWorker.mem = AbsentRecord
      BY ConstantRecords DEF IdleWorker, WorkerStates, WorkerPcs, Errors
    <2>2. Known(AbsentRecord)
      BY ConstantRecords DEF Known, TypeInvariant, StoragePart
    <2> QED BY <1>3, <2>1, <2>2, WorkerMove
  <1>4. ASSUME NEW b \in Errors,
               worker' = [worker EXCEPT ![w].pc = pc, ![w].mem = r, ![w].error = b]
        PROVE  WorkerPart'
    <2> DEFINE st == [worker[w] EXCEPT !.pc = pc, !.mem = r, !.error = b]
    <2>1. worker' = [worker EXCEPT ![w] = st]
      BY <1>0, <1>4
    <2>2. st \in WorkerStates /\ st.mem = r /\ st.op = worker[w].op /\ st.pc = pc
      BY <1>0, Zenon DEF WorkerStates
    <2> HIDE DEF st
    <2> QED BY <1>0, <2>1, <2>2, WorkerMove
  <1> QED BY <1>1, <1>2, <1>3, <1>4

-----------------------------------------------------------------------------
(* One lemma per process: its steps preserve the invariant.                *)

\* The executor threads (execute_update, stage_release_upgrade and the error
\* path after them), and their death.
LEMMA WorkerStepType ==
    ASSUME TypeInvariant, NEW w \in Workers, WorkerProgress(w) \/ WorkerDies(w)
    PROVE  TypeInvariant'
  <1> DEFINE op == worker[w].op
             mem == worker[w].mem
  <1>0. /\ worker[w].pc # "idle" /\ op \in Ops /\ mem \in Records /\ Known(mem)
        /\ worker[w].error \in Errors
    BY DEF TypeInvariant, WorkerPart, WorkerStates, WorkerProgress, WorkerDies,
       AcquireLock, LockBusy, Prepare, BeginDownload, Refresh, Download,
       BeginSnapshot, CreateSnapshot, RecordSnapshot, BeginApply, ZypperWrites,
       ZypperDone, FinishUpdate, StageMarker, FinishStaging, Fail, CheckCancelled,
       RecordFailure, Self, HoldsLock
  <1>p. ASSUME NEW next \in States, NEW pc \in WorkerPcs, pc # "number",
               PersistTransition(w, next, pc), UNCHANGED snapshots
        PROVE  DiskPart' /\ WorkerPart'
    <2> DEFINE r == TransitionTo(mem, next)
    <2>1. r \in Records /\ Known(r)
      BY <1>0, TransitionType DEF Known
    <2>2. SaveState(op, r) /\ GotoWith(w, pc, r)
      BY <1>p DEF PersistTransition, Self
    <2> HIDE DEF r
    <2> QED BY <1>0, <1>p, <2>1, <2>2, SavePart, GotoPart
  <1>g. ASSUME NEW pc \in WorkerPcs, pc # "number", Goto(w, pc), UNCHANGED snapshots
        PROVE  WorkerPart'
    BY <1>0, <1>g, GotoPart
  <1>i. ASSUME worker' = [worker EXCEPT ![w] = IdleWorker], UNCHANGED snapshots
        PROVE  WorkerPart'
    BY <1>0, <1>i, GotoPart DEF WorkerPcs
  <1>l. ASSUME Release(w) \/ lock' = w PROVE
             lock' \in Workers \cup Sessions \cup {"free", "offline", "verifier"}
    BY <1>l DEF Release, TypeInvariant, RestPart
  <1>s. ASSUME NEW p \in Progress, SetPackages(op, p), UNCHANGED <<clones, default, snapshots, mounted>>
        PROVE  StoragePart'
    BY <1>0, <1>s DEF SetPackages, TypeInvariant, StoragePart, Roots, Packages
  <1>pcs. WorkerPcs = {"idle", "acquire", "prepare", "begin", "refresh", "download",
              "snapshot", "create", "number", "stage", "ready", "apply",
              "zypper", "finish", "failed", "record"}
    BY DEF WorkerPcs
  <1>b. ASSUME worker' = [worker EXCEPT ![w].pc = "failed", ![w].error = "blocking"],
               UNCHANGED snapshots
        PROVE  WorkerPart'
    <2>1. worker' = [worker EXCEPT ![w].pc = "failed", ![w].mem = mem, ![w].error = "blocking"]
      BY <1>b DEF TypeInvariant, WorkerPart, WorkerStates
    <2> QED BY <1>0, <1>b, <1>pcs, <2>1, GotoPart DEF Errors
  <1>t. /\ \A st \in States : TransitionTo(mem, st) \in Records /\ Known(TransitionTo(mem, st))
        /\ \A st \in States, code \in ErrorCodes :
              Settle(mem, st, code) \in Records /\ Known(Settle(mem, st, code))
    BY <1>0, TransitionType, SettleType DEF Known
  <1>in. Installed \in Packages
    BY DEF Installed, TypeInvariant, StoragePart, Roots
  <1>m. ASSUME SetMarker(op), UNCHANGED <<clones, default, snapshots, mounted>>
        PROVE  StoragePart'
    BY <1>0, <1>m DEF SetMarker, TypeInvariant, StoragePart, Roots, Markers
  <1>nr. worker[w].pc = "number" => Numbered(w) \in Records /\ Known(Numbered(w))
    <2> SUFFICES ASSUME worker[w].pc = "number" PROVE Numbered(w) \in Records /\ Known(Numbered(w))
      OBVIOUS
    <2>1. Len(snapshots) \in Nat
      BY DEF TypeInvariant, StoragePart
    <2>2. Numbered(w) \in Records /\ Numbered(w).snapshot_number = Len(snapshots)
      BY <1>0, <2>1 DEF Numbered, Self, Records
    <2> QED BY <2>1, <2>2 DEF Known
  <1>sq. [mem EXCEPT !.sequence = SaturatingSuccessor(@)] \in Records
         /\ Known([mem EXCEPT !.sequence = SaturatingSuccessor(@)])
    <2>1. SaturatingSuccessor(mem.sequence) \in 0..MaxSequence
      BY <1>0, SuccessorType DEF Records
    <2> QED BY <1>0, <2>1 DEF Records, Known
  <1> USE DEF TypeInvariant
  <1>f. UNCHANGED snapshots =>
            /\ snapshots' \in Seq(Snapshots) /\ Len(snapshots') >= Len(snapshots)
    BY DEF StoragePart
  <1>1. CASE AcquireLock(w)
    BY <1>1, <1>f, <1>g, <1>pcs, FramePart
    DEF AcquireLock, Acquire, RestPart, StoragePart, storage, replay, platform, OnlyWorker, bounds
  <1>2. CASE LockBusy(w)
    BY <1>2, <1>f, <1>b, FramePart
    DEF LockBusy, RestPart, StoragePart, storage, replay, platform, OnlyWorker, bounds
  <1>3. CASE Prepare(w)
    BY <1>3, <1>f, <1>g, <1>pcs, <1>0, <1>in, FramePart
    DEF Prepare, files, FilesPart, Self, RestPart, StoragePart, storage, replay, platform, OnlyWorker, bounds
  <1>4. CASE BeginDownload(w)
    BY <1>4, <1>f, <1>p, <1>pcs, FramePart
    DEF BeginDownload, States, RestPart, StoragePart, storage, replay, platform, OnlyWorker, bounds
  <1>5. CASE Refresh(w)
    BY <1>5, <1>f, <1>g, <1>pcs, FramePart
    DEF Refresh, RestPart, StoragePart, storage, replay, platform, OnlyWorker, bounds
  <1>6. CASE Download(w)
    BY <1>6, <1>f, <1>g, <1>pcs, FramePart
    DEF Download, RestPart, StoragePart, storage, replay, platform, OnlyWorker, bounds
  <1>7. CASE BeginSnapshot(w)
    BY <1>7, <1>f, <1>p, <1>pcs, FramePart
    DEF BeginSnapshot, States, RestPart, StoragePart, storage, replay, platform, OnlyWorker, bounds
  <1>8. CASE CreateSnapshot(w)
    <2>0. Len(snapshots) \in Nat /\ snapshots \in Seq(Snapshots) /\ roots[mounted] \in Roots
      BY DEF StoragePart
    <2>1. [op |-> op, root |-> roots[mounted]] \in Snapshots
      BY <1>0, <2>0 DEF Snapshots
    <2>2. snapshots' \in Seq(Snapshots) /\ Len(snapshots') = Len(snapshots) + 1
      BY <1>8, <2>0, <2>1 DEF CreateSnapshot, Self
    <2>3. worker' \in [Workers -> WorkerStates] /\ \A v \in Workers :
             worker'[v].mem = worker[v].mem /\ worker'[v].op = worker[v].op
             /\ (worker[v].pc = "idle" => worker'[v].pc = "idle")
      BY <1>0, <1>8, <1>pcs DEF CreateSnapshot, Goto, WorkerPart, WorkerStates
    <2>k. ASSUME NEW n \in 0..Len(snapshots) PROVE n \in 0..Len(snapshots')
      BY <2>0, <2>2
    <2>l. Len(snapshots') > 0
      BY <2>0, <2>2
    <2>4. WorkerPart'
      <3>1. ASSUME NEW v \in Workers
            PROVE  /\ worker'[v].mem.snapshot_number \in 0..Len(snapshots')
                   /\ worker'[v].pc # "idle" => worker'[v].op \in Ops
        BY <2>k, <2>3 DEF WorkerPart, Known
      <3> QED BY <2>l, <2>3, <3>1 DEF WorkerPart, Known
    <2>5. StoragePart'
      BY <1>8, <2>2 DEF CreateSnapshot, StoragePart, platform
    <2> QED BY <1>8, <2>0, <2>2, <2>4, <2>5, FramePart
        DEF CreateSnapshot, RestPart, replay, platform, OnlyWorker, bounds
  <1>n. RecordSnapshot(w) => DiskPart' /\ WorkerPart'
    <2> SUFFICES ASSUME RecordSnapshot(w) PROVE DiskPart' /\ WorkerPart'
      OBVIOUS
    <2>1. Numbered(w) \in Records /\ Known(Numbered(w))
      BY <1>nr DEF RecordSnapshot, Self
    <2>2. PICK pc \in {"stage", "apply"} : GotoWith(w, pc, Numbered(w))
      BY DEF RecordSnapshot
    <2>3. SaveState(op, Numbered(w)) /\ UNCHANGED snapshots
      BY DEF RecordSnapshot, Self, storage
    <2> QED BY <1>0, <1>pcs, <2>1, <2>2, <2>3, SavePart, GotoPart
  <1>9. CASE RecordSnapshot(w)
    BY <1>9, <1>f, <1>n, FramePart
    DEF RecordSnapshot, RestPart, StoragePart, storage, replay, platform, OnlyWorker, bounds
  <1>10. CASE BeginApply(w)
    BY <1>10, <1>f, <1>p, <1>pcs, FramePart
    DEF BeginApply, States, RestPart, StoragePart, storage, replay, platform, OnlyWorker, bounds
  <1>11. CASE ZypperWrites(w)
    BY <1>11, <1>f, <1>s, FramePart
    DEF ZypperWrites, Self, Progress, processes, RestPart, StoragePart, storage, replay, platform, OnlyWorker, bounds
  <1>12. CASE ZypperDone(w)
    BY <1>12, <1>f, <1>g, <1>pcs, <1>s, FramePart
    DEF ZypperDone, Self, Progress, RestPart, StoragePart, storage, replay, platform, OnlyWorker, bounds
  <1>13. CASE FinishUpdate(w)
    BY <1>13, <1>0, <1>f, <1>i, <1>t, <1>l, SavePart, FramePart
    DEF FinishUpdate, Self, States, RestPart, StoragePart, storage, replay, platform, OnlyWorker, bounds
  <1>14. CASE StageMarker(w)
    BY <1>14, <1>f, <1>g, <1>pcs, <1>m, FramePart
    DEF StageMarker, Self, RestPart, StoragePart, storage, replay, platform, OnlyWorker, bounds
  <1>15. CASE FinishStaging(w)
    BY <1>15, <1>0, <1>f, <1>i, <1>t, <1>l, SavePart, FramePart
    DEF FinishStaging, Self, States, RestPart, StoragePart, storage, replay, platform, OnlyWorker, bounds
  <1>x. Fail(w) => WorkerPart'
    <2> SUFFICES ASSUME Fail(w) PROVE WorkerPart'
      OBVIOUS
    <2>1. PICK b \in Errors, r \in InMemory(w) :
             worker' = [worker EXCEPT ![w].pc = "failed", ![w].mem = r, ![w].error = b]
      BY DEF Fail
    <2>2. r \in Records /\ Known(r)
      BY <1>0, <1>nr, <1>sq, <2>1 DEF InMemory, Self
    <2> QED BY <1>0, <1>pcs, <2>1, <2>2, GotoPart DEF Fail, storage
  <1>16. CASE Fail(w)
    BY <1>16, <1>f, <1>x, <1>l, FramePart
    DEF Fail, RestPart, StoragePart, storage, replay, platform, OnlyWorker, bounds
  <1>17. CASE CheckCancelled(w)
    BY <1>17, <1>f, <1>i, <1>g, <1>pcs, FramePart
    DEF CheckCancelled, RestPart, StoragePart, storage, replay, platform, OnlyWorker, bounds
  <1>18. CASE RecordFailure(w)
    BY <1>18, <1>0, <1>f, <1>i, <1>t, SavePart, FramePart
    DEF RecordFailure, Self, States, ErrorCodes, FailureState, RestPart, StoragePart, storage, replay, platform, OnlyWorker, bounds
  <1>19. CASE WorkerDies(w)
    BY <1>19, <1>f, <1>i, <1>l, <1>s, FramePart
    DEF WorkerDies, Self, Progress, CountCrash, RestPart, StoragePart, storage, replay, platform, OnlyWorker, bounds
  <1> QED
    BY <1>1, <1>2, <1>3, <1>4, <1>5, <1>6, <1>7, <1>8, <1>9, <1>10, <1>11, <1>12,
       <1>13, <1>14, <1>15, <1>16, <1>17, <1>18, <1>19 DEF WorkerProgress

\* One request handler moves: Serve, Continue and Reply.
LEMMA SessionMove ==
    ASSUME TypeInvariant, UNCHANGED snapshots, NEW s \in Sessions,
           NEW pc \in SessionPcs, pc # "rollback"
    PROVE  /\ \A op \in Ops, r \in Records : Known(r) /\ Serve(s, pc, op, r) => SessionPart'
           /\ session[s].op \in Ops /\ Continue(s, pc) => SessionPart'
           /\ Reply(s) => SessionPart'
  <1>0. session[s] \in SessionStates /\ session \in [Sessions -> SessionStates]
    BY DEF TypeInvariant, SessionPart
  <1>1. ASSUME NEW st \in SessionStates, session' = [session EXCEPT ![s] = st],
               Known(st.mem), st.pc # "idle" => st.op \in Ops, st.pc # "rollback"
        PROVE  SessionPart'
    BY <1>1 DEF TypeInvariant, SessionPart, Known
  <1>2. ASSUME NEW op \in Ops, NEW r \in Records, Known(r), Serve(s, pc, op, r)
        PROVE  SessionPart'
    <2> DEFINE st == [pc |-> pc, op |-> op, mem |-> r]
    <2>1. st \in SessionStates /\ st.mem = r /\ st.op = op /\ st.pc = pc
      BY DEF SessionStates
    <2>2. session' = [session EXCEPT ![s] = st]
      BY <1>2 DEF Serve
    <2> HIDE DEF st
    <2> QED BY <1>1, <1>2, <2>1, <2>2
  <1>3. ASSUME session[s].op \in Ops, Continue(s, pc) PROVE SessionPart'
    <2> DEFINE st == [session[s] EXCEPT !.pc = pc]
    <2>1. st \in SessionStates /\ st.mem = session[s].mem /\ st.op = session[s].op /\ st.pc = pc
      BY <1>0, Zenon DEF SessionStates
    <2>2. session' = [session EXCEPT ![s] = st]
      BY <1>3, Zenon DEF Continue
    <2>3. Known(session[s].mem)
      BY DEF TypeInvariant, SessionPart
    <2> HIDE DEF st
    <2> QED BY <1>1, <1>3, <2>1, <2>2, <2>3
  <1>4. ASSUME Reply(s) PROVE SessionPart'
    <2>1. /\ IdleSession \in SessionStates /\ IdleSession.pc = "idle"
          /\ IdleSession.mem = AbsentRecord
      BY ConstantRecords DEF IdleSession, SessionStates, SessionPcs
    <2>2. Known(AbsentRecord)
      BY ConstantRecords DEF Known, TypeInvariant, StoragePart
    <2> QED BY <1>1, <1>4, <2>1, <2>2 DEF Reply
  <1> QED BY <1>2, <1>3, <1>4

\* The request handlers of the service: Start, Cancel, KeepCurrent, Rollback.
LEMMA SessionStepType ==
    ASSUME TypeInvariant, NEW s \in Sessions,
           SessionRequest(s) \/ SessionProgress(s) \/ SessionDies(s)
    PROVE  TypeInvariant'
  <1> DEFINE op == session[s].op
             mem == session[s].mem
  <1>0. mem \in Records /\ Known(mem) /\ (session[s].pc # "idle" => op \in Ops)
    BY DEF TypeInvariant, SessionPart, SessionStates
  <1>a. AbsentRecord \in Records /\ Known(AbsentRecord)
        /\ InitialRecord \in Records /\ Known(InitialRecord)
    BY ConstantRecords DEF Known, TypeInvariant, StoragePart
  <1>t. \A st \in States, code \in ErrorCodes :
              Settle(mem, st, code) \in Records /\ Known(Settle(mem, st, code))
    BY <1>0, SettleType DEF Known
  <1>sch. Scheduled(s) \in Records /\ Known(Scheduled(s))
    <2> DEFINE q == Settle(mem, "AwaitingReboot", "None")
    <2>1. q \in Records /\ Known(q)
      BY <1>t DEF States, ErrorCodes
    <2>2. default \in Nat
      BY MachineAssumption DEF TypeInvariant, StoragePart, Subvolumes
    <2>3. Scheduled(s) = [q EXCEPT !.boot_snapshot = default]
      BY DEF Scheduled, Request
    <2> HIDE DEF q
    <2> QED BY <2>1, <2>2, <2>3 DEF Records, Known
  <1>d. \A o \in Ops : disk[o] \in Records /\ Known(disk[o])
    BY DEF TypeInvariant, DiskPart
  <1>l. ASSUME Release(s) \/ lock' = s PROVE
             lock' \in Workers \cup Sessions \cup {"free", "offline", "verifier"}
    BY <1>l DEF Release, TypeInvariant, RestPart
  <1>in. Installed \in Packages
    BY DEF Installed, TypeInvariant, StoragePart, Roots
  <1>pcs. SessionPcs = {"idle", "create", "plan", "owner", "spawn", "cancel", "keep",
                        "intent", "rollback", "selected"}
    BY DEF SessionPcs
  <1> USE DEF TypeInvariant
  <1>f. UNCHANGED snapshots =>
            /\ snapshots' \in Seq(Snapshots) /\ Len(snapshots') >= Len(snapshots)
    BY DEF StoragePart
  <1>1. ASSUME NEW o \in Ops, StartNew(s, o) PROVE TypeInvariant'
    BY <1>1, <1>f, <1>pcs, <1>a, <1>in, SessionMove, FramePart
    DEF StartNew, CountStart, files, FilesPart, RestPart, StoragePart, storage, replay, platform, OnlySession, bounds
  <1>2. CASE SaveInitial(s)
    BY <1>2, <1>f, <1>pcs, <1>0, <1>a, SavePart, SessionMove, FramePart
    DEF SaveInitial, Request, RestPart, StoragePart, storage, replay, platform, OnlySession, bounds
  <1>3. CASE SavePendingPlan(s)
    BY <1>3, <1>f, <1>pcs, <1>0, SessionMove, FramePart
    DEF SavePendingPlan, Request, files, FilesPart, RestPart, StoragePart, storage, replay, platform, OnlySession, bounds
  <1>4. CASE SaveOwner(s)
    BY <1>4, <1>f, <1>pcs, <1>0, SessionMove, FramePart
    DEF SaveOwner, Request, files, FilesPart, RestPart, StoragePart, storage, replay, platform, OnlySession, bounds
  <1>5. CASE OwnerExists(s)
    BY <1>5, <1>f, <1>pcs, SessionMove, FramePart
    DEF OwnerExists, RestPart, StoragePart, storage, replay, platform, OnlySession, bounds
  <1>6. ASSUME NEW o \in Ops, StartOwned(s, o) PROVE TypeInvariant'
    BY <1>6, <1>f, <1>pcs, <1>a, SessionMove, FramePart
    DEF StartOwned, CountStart, RestPart, StoragePart, storage, replay, platform, OnlySession, bounds
  <1>7. CASE Spawn(s)
    <2>1. PICK w \in Workers :
             worker' = [worker EXCEPT ![w] =
                [pc |-> "acquire", op |-> op, mem |-> disk[op], error |-> "plain"]]
      BY <1>7 DEF Spawn, Request
    <2> DEFINE st == [pc |-> "acquire", op |-> op, mem |-> disk[op], error |-> "plain"]
    <2>2. op \in Ops
      BY <1>0, <1>7 DEF Spawn, Request
    <2>3. st \in WorkerStates /\ st.mem = disk[op] /\ st.op = op /\ st.pc = "acquire"
      BY <1>d, <2>2 DEF WorkerStates, WorkerPcs, Errors
    <2>4. UNCHANGED snapshots
      BY <1>7 DEF Spawn, storage
    <2> HIDE DEF st
    <2>5. WorkerPart'
      BY <1>d, <2>1, <2>2, <2>3, <2>4, WorkerMove DEF st
    <2> QED BY <1>7, <1>f, <1>pcs, <2>5, SessionMove, FramePart
    DEF Spawn, RestPart, StoragePart, storage, replay, platform, OnlySession, bounds
  <1>8. CASE RejectStart(s)
    BY <1>8, <1>f, <1>pcs, SessionMove, FramePart
    DEF RejectStart, RestPart, StoragePart, storage, replay, platform, OnlySession, bounds
  <1>9. CASE HistoryUnusable(s)
    BY <1>9, <1>f, <1>pcs, SessionMove, FramePart
    DEF HistoryUnusable, RestPart, StoragePart, storage, replay, platform, OnlySession, bounds
  <1>10. ASSUME NEW o \in Ops, Cancel(s, o) PROVE TypeInvariant'
    BY <1>10, <1>f, <1>pcs, <1>d, SessionMove, FramePart
    DEF Cancel, CountRequest, RestPart, StoragePart, storage, replay, platform, OnlySession, bounds
  <1>11. CASE SaveCancelled(s)
    BY <1>11, <1>f, <1>pcs, <1>0, <1>t, SavePart, SessionMove, FramePart
    DEF SaveCancelled, Request, States, ErrorCodes, RestPart, StoragePart, storage, replay, platform, OnlySession, bounds
  <1>12. ASSUME NEW o \in Ops, KeepCurrent(s, o) PROVE TypeInvariant'
    BY <1>12, <1>f, <1>pcs, <1>d, SessionMove, FramePart
    DEF KeepCurrent, CountRequest, RestPart, StoragePart, storage, replay, platform, OnlySession, bounds
  <1>13. CASE SaveDeclined(s)
    BY <1>13, <1>f, <1>pcs, <1>0, <1>t, SavePart, SessionMove, FramePart
    DEF SaveDeclined, Request, States, ErrorCodes, RestPart, StoragePart, storage, replay, platform, OnlySession, bounds
  <1>14. ASSUME NEW o \in Ops, Rollback(s, o) PROVE TypeInvariant'
    BY <1>14, <1>f, <1>pcs, <1>d, <1>l, SessionMove, FramePart
    DEF Rollback, CountRequest, Acquire, RestPart, StoragePart, storage, replay, platform, OnlySession, bounds
  <1>15. CASE SaveIntent(s)
    <2> DEFINE r == [mem EXCEPT !.goal = TRUE, !.boot_snapshot = 0,
                                !.sequence = SaturatingSuccessor(@)]
    <2>1. SaturatingSuccessor(mem.sequence) \in 0..MaxSequence
      BY <1>0, SuccessorType DEF Records
    <2>2. r \in Records /\ r.snapshot_number = mem.snapshot_number
      BY <1>0, <2>1, Zenon DEF Records
    <2>3. Known(r) /\ op \in Ops /\ mem.snapshot_number # 0
      BY <1>0, <1>15, <2>2 DEF Known, SaveIntent, Request, RollbackAllowed
    <2>4. /\ SaveState(op, r) /\ UNCHANGED snapshots
          /\ session' = [session EXCEPT ![s] = [pc |-> "rollback", op |-> op, mem |-> r]]
      BY <1>15 DEF SaveIntent, Request, Serve, storage
    <2> HIDE DEF r
    <2>5. DiskPart'
      BY <2>2, <2>3, <2>4, SavePart
    <2>6. [pc |-> "rollback", op |-> op, mem |-> r] \in SessionStates
      BY <1>pcs, <2>2, <2>3 DEF SessionStates
    <2>7. SessionPart'
      BY <2>2, <2>3, <2>4, <2>6 DEF SessionPart, Known
    <2> QED BY <1>15, <1>f, <2>5, <2>7, FramePart
    DEF SaveIntent, RestPart, StoragePart, storage, replay, platform, OnlySession, bounds
  <1>16. CASE RejectRollback(s)
    BY <1>16, <1>f, <1>pcs, <1>l, SessionMove, FramePart
    DEF RejectRollback, RestPart, StoragePart, storage, replay, platform, OnlySession, bounds
  <1>17. CASE SelectClone(s)
    <2> DEFINE n == mem.snapshot_number
    <2>1. n \in 1..Len(snapshots)
      BY <1>17 DEF SelectClone, Request, SessionPart, Known, StoragePart
    <2>2. snapshots[n] \in Snapshots
      BY <2>1 DEF StoragePart
    <2>3. snapshots[n].root \in Roots
      BY <2>2 DEF Snapshots
    <2>4. clones + 1 \in Subvolumes
      BY <1>17, MachineAssumption DEF SelectClone, StoragePart, Subvolumes
    <2>5. StoragePart'
      BY <1>17, <2>3, <2>4 DEF SelectClone, StoragePart, Request, platform
    <2> QED BY <1>17, <1>0, <1>f, <1>pcs, <2>5, SessionMove, FramePart
    DEF SelectClone, Request, RestPart, replay, platform, OnlySession, bounds
  <1>18. CASE SaveScheduled(s)
    BY <1>18, <1>f, <1>pcs, <1>0, <1>l, <1>sch, SavePart, SessionMove, FramePart
    DEF SaveScheduled, Request, RestPart, StoragePart, storage, replay, platform, OnlySession, bounds
  <1>rf. RollbackFails(s) => DiskPart'
    <2> SUFFICES ASSUME RollbackFails(s) PROVE DiskPart'
      OBVIOUS
    <2>1. PICK r \in {mem, Scheduled(s)} :
             SaveState(op, Settle(r, "NeedsRecovery", "ROLLBACK_FAILED"))
      BY DEF RollbackFails, Request
    <2>2. r \in Records /\ Known(r) /\ op \in Ops
      BY <1>0, <1>sch, <2>1 DEF RollbackFails, Request
    <2>3. Settle(r, "NeedsRecovery", "ROLLBACK_FAILED") \in Records
          /\ Known(Settle(r, "NeedsRecovery", "ROLLBACK_FAILED"))
      BY <2>2, SettleType DEF Known, States, ErrorCodes
    <2> QED BY <2>1, <2>2, <2>3, SavePart DEF RollbackFails, storage
  <1>19. CASE RollbackFails(s)
    BY <1>19, <1>f, <1>pcs, <1>l, <1>rf, SessionMove, FramePart
    DEF RollbackFails, RestPart, StoragePart, storage, replay, platform, OnlySession, bounds
  <1>20. CASE SessionDies(s)
    BY <1>20, <1>f, <1>pcs, <1>l, SessionMove, FramePart
    DEF SessionDies, CountCrash, RestPart, StoragePart, storage, replay, platform, OnlySession, bounds
  <1> QED
    BY <1>1, <1>2, <1>3, <1>4, <1>5, <1>6, <1>7, <1>8, <1>9, <1>10, <1>11, <1>12,
       <1>13, <1>14, <1>15, <1>16, <1>17, <1>18, <1>19, <1>20
    DEF SessionRequest, SessionProgress

\* The offline worker moves, with its copy of the record or a new one.
LEMMA OfflineMove ==
    ASSUME TypeInvariant, UNCHANGED snapshots, NEW pc \in OfflinePcs
    PROVE  /\ OfflineGoto(pc) /\ offline.op \in Ops => OfflinePart'
           /\ OfflineGoto("stopped") => OfflinePart'
           /\ \A r \in Records :
                 Known(r) /\ offline.op \in Ops
                     /\ offline' = [offline EXCEPT !.pc = pc, !.mem = r] => OfflinePart'
           /\ offline' = IdleOffline => OfflinePart'
           /\ offline' = [IdleOffline EXCEPT !.pc = "resolve"] => OfflinePart'
           /\ offline' = [IdleOffline EXCEPT !.pc = "stopped"] => OfflinePart'
  <1>0. offline \in OfflineStates /\ Known(offline.mem)
    BY DEF TypeInvariant, OfflinePart
  <1>a. /\ IdleOffline \in OfflineStates /\ Known(IdleOffline.mem)
        /\ IdleOffline.pc = "idle"
    <2>1. IdleOffline \in OfflineStates /\ IdleOffline.mem = AbsentRecord /\ IdleOffline.pc = "idle"
      BY ConstantRecords DEF IdleOffline, OfflineStates, OfflinePcs
    <2> QED BY <2>1, ConstantRecords DEF Known, TypeInvariant, StoragePart
  <1>1. ASSUME NEW st \in OfflineStates, offline' = st, Known(st.mem),
               st.pc \notin {"idle", "resolve", "stopped", "stranded"} => st.op \in Ops
        PROVE  OfflinePart'
    BY <1>1 DEF OfflinePart, Known
  <1>2. ASSUME NEW old \in OfflineStates, Known(old.mem), NEW q \in OfflinePcs,
               q \in {"resolve", "stopped"} \/ old.op \in Ops,
               offline' = [old EXCEPT !.pc = q]
        PROVE  OfflinePart'
    <2> DEFINE st == [old EXCEPT !.pc = q]
    <2>1. st \in OfflineStates /\ st.mem = old.mem /\ st.op = old.op /\ st.pc = q
      BY Zenon DEF OfflineStates
    <2> HIDE DEF st
    <2>2. offline' = st
      BY <1>2 DEF st
    <2> QED BY <1>1, <1>2, <2>1, <2>2
  <1>3. ASSUME NEW r \in Records, Known(r), offline.op \in Ops,
               offline' = [offline EXCEPT !.pc = pc, !.mem = r]
        PROVE  OfflinePart'
    <2> DEFINE st == [offline EXCEPT !.pc = pc, !.mem = r]
    <2>1. st \in OfflineStates /\ st.mem = r /\ st.op = offline.op /\ st.pc = pc
      BY <1>0, Zenon DEF OfflineStates
    <2> HIDE DEF st
    <2>2. offline' = st
      BY <1>3 DEF st
    <2> QED BY <1>1, <1>3, <2>1, <2>2
  <1>4. offline' = IdleOffline => OfflinePart'
    BY <1>1, <1>a
  <1>5. OfflineGoto(pc) /\ offline.op \in Ops => OfflinePart'
    BY <1>0, <1>2 DEF OfflineGoto
  <1>6. OfflineGoto("stopped") => OfflinePart'
    BY <1>0, <1>2 DEF OfflineGoto, OfflinePcs
  <1>7. offline' = [IdleOffline EXCEPT !.pc = "resolve"] => OfflinePart'
    BY <1>a, <1>2 DEF OfflinePcs
  <1>8. offline' = [IdleOffline EXCEPT !.pc = "stopped"] => OfflinePart'
    BY <1>a, <1>2 DEF OfflinePcs
  <1> QED BY <1>3, <1>4, <1>5, <1>6, <1>7, <1>8

\* The offline boot, from the resolution of the marker to the reboot.
LEMMA OfflineStepType ==
    ASSUME TypeInvariant, OfflineProgress
    PROVE  TypeInvariant'
  <1> DEFINE op == offline.op
             mem == offline.mem
  <1>0. /\ mem \in Records /\ Known(mem)
        /\ offline.pc \notin {"idle", "resolve", "stopped", "stranded"} => op \in Ops
    BY DEF TypeInvariant, OfflinePart, OfflineStates
  <1>t. ASSUME NEW r \in Records, Known(r)
        PROVE  /\ \A st \in States :
                     TransitionTo(r, st) \in Records /\ Known(TransitionTo(r, st))
               /\ \A st \in States, code \in ErrorCodes :
                     Settle(r, st, code) \in Records /\ Known(Settle(r, st, code))
    BY <1>t, TransitionType, SettleType DEF Known
  <1>d. \A o \in Ops : disk[o] \in Records /\ Known(disk[o])
    BY DEF TypeInvariant, DiskPart
  <1>l. ASSUME Release("offline") \/ Acquire("offline") PROVE
             lock' \in Workers \cup Sessions \cup {"free", "offline", "verifier"}
    BY <1>l DEF Release, Acquire, TypeInvariant, RestPart
  <1>s. ASSUME op \in Ops, NEW p \in Progress, SetPackages(op, p),
               UNCHANGED <<clones, default, snapshots, mounted>>
        PROVE  StoragePart'
    BY <1>s DEF SetPackages, TypeInvariant, StoragePart, Roots, Packages
  <1>m. ASSUME SetMarker(NoOp), UNCHANGED <<clones, default, snapshots, mounted>>
        PROVE  StoragePart'
    BY <1>m DEF SetMarker, TypeInvariant, StoragePart, Roots, Markers
  <1>r. ASSUME NEW o \in Ops \cup {NoOp}, NEW l \in BOOLEAN, SetRepositories(o, l),
               UNCHANGED <<clones, default, snapshots, mounted>>
        PROVE  StoragePart'
    <2>0. mounted \in Subvolumes /\ roots \in [Subvolumes -> Roots]
      BY DEF TypeInvariant, StoragePart
    <2>1. [roots[mounted] EXCEPT !.repositories = o, !.live = l] \in Roots
      BY <2>0, Zenon DEF Roots
    <2>2. roots' = [roots EXCEPT ![mounted] = [roots[mounted] EXCEPT !.repositories = o, !.live = l]]
      BY <1>r, <2>0 DEF SetRepositories
    <2> QED BY <1>r, <2>0, <2>1, <2>2 DEF TypeInvariant, StoragePart
  <1>c. roots[mounted].repositories \in Ops \cup {NoOp}
    BY DEF TypeInvariant, StoragePart, Roots
  <1>pcs. OfflinePcs = {"idle", "resolve", "load", "revalidate", "zypper", "repositories",
               "swap", "finish", "unmark", "recover", "unmarkFailed", "reboot", "stopped",
               "stranded"}
    BY DEF OfflinePcs
  <1> USE DEF TypeInvariant
  <1>f. UNCHANGED snapshots =>
            /\ snapshots' \in Seq(Snapshots) /\ Len(snapshots') >= Len(snapshots)
    BY DEF StoragePart
  <1>1. CASE Resolve
    <2>1. ASSUME Marker \in Ops,
                 offline' = [pc |-> "load", op |-> Marker, mem |-> AbsentRecord]
          PROVE  OfflinePart'
      <3> DEFINE st == [pc |-> "load", op |-> Marker, mem |-> AbsentRecord]
      <3>1. st \in OfflineStates /\ st.mem = AbsentRecord /\ st.op = Marker
        BY <2>1, <1>pcs, ConstantRecords DEF OfflineStates
      <3>2. AbsentRecord.snapshot_number \in 0..Len(snapshots')
        BY <1>1, ConstantRecords DEF Resolve, storage, StoragePart
      <3> HIDE DEF st
      <3>3. offline' = st
        BY <2>1 DEF st
      <3> QED BY <2>1, <3>1, <3>2, <3>3 DEF OfflinePart, Known
    <2>2. OfflinePart'
      BY <1>1, <2>1, <1>pcs, OfflineMove DEF Resolve, storage
    <2> QED BY <1>1, <1>f, <1>pcs, <2>2, <1>l, OfflineMove, FramePart
    DEF Resolve, OfflineAt, RestPart, StoragePart, storage, replay, platform, OnlyOffline, bounds
  <1>2. CASE LoadStaged
    BY <1>2, <1>f, <1>pcs, <1>0, <1>d, <1>t, SavePart, OfflineMove, FramePart
    DEF LoadStaged, OfflineAt, States, RestPart, StoragePart, storage, replay, platform, OnlyOffline, bounds
  <1>3. CASE Revalidate
    BY <1>3, <1>f, <1>pcs, <1>0, OfflineMove, FramePart
    DEF Revalidate, OfflineAt, RestPart, StoragePart, storage, replay, platform, OnlyOffline, bounds
  <1>4. CASE OfflineZypperWrites
    BY <1>4, <1>f, <1>pcs, <1>0, <1>s, OfflineMove, FramePart
    DEF OfflineZypperWrites, OfflineAt, Progress, processes, RestPart, StoragePart, storage, replay, platform, OnlyOffline, bounds
  <1>5. CASE OfflineZypperDone
    BY <1>5, <1>f, <1>pcs, <1>0, <1>s, OfflineMove, FramePart
    DEF OfflineZypperDone, OfflineAt, Progress, RestPart, StoragePart, storage, replay, platform, OnlyOffline, bounds
  <1>6. CASE PersistApplied
    BY <1>6, <1>f, <1>pcs, <1>0, <1>t, SavePart, OfflineMove, FramePart
    DEF PersistApplied, OfflineAt, States, RestPart, StoragePart, storage, replay, platform, OnlyOffline, bounds
  <1>7. CASE RemoveMarker
    BY <1>7, <1>f, <1>pcs, <1>0, <1>m, OfflineMove, FramePart
    DEF RemoveMarker, OfflineAt, RestPart, StoragePart, storage, replay, platform, OnlyOffline, bounds
  <1>8. CASE OfflineFails
    BY <1>8, <1>f, <1>pcs, <1>0, OfflineMove, FramePart
    DEF OfflineFails, OfflineAt, RestPart, StoragePart, storage, replay, platform, OnlyOffline, bounds
  <1>9. CASE MarkRecovery
    BY <1>9, <1>f, <1>pcs, <1>0, <1>d, <1>t, SavePart, OfflineMove, FramePart
    DEF MarkRecovery, OfflineAt, States, ErrorCodes, RestPart, StoragePart, storage, replay, platform, OnlyOffline, bounds
  <1>10. CASE RecoveryRefused
    BY <1>10, <1>f, <1>pcs, <1>l, OfflineMove, FramePart
    DEF RecoveryRefused, OfflineAt, RestPart, StoragePart, storage, replay, platform, OnlyOffline, bounds
  <1>11. CASE OfflineReboot
    BY <1>11, <1>f, <1>pcs, <1>l, OfflineMove, FramePart
    DEF OfflineReboot, OfflineAt, RestPart, StoragePart, storage, replay, platform, OnlyOffline, bounds
  <1>12. CASE RebootRefused
    BY <1>12, <1>f, <1>pcs, <1>l, OfflineMove, FramePart
    DEF RebootRefused, OfflineAt, RestPart, StoragePart, storage, replay, platform, OnlyOffline, bounds
  <1>13. CASE SystemUpdateCleanup
    BY <1>13, <1>f, <1>pcs, <1>m, OfflineMove, FramePart
    DEF SystemUpdateCleanup, OfflineAt, RestPart, StoragePart, storage, replay, platform, OnlyOffline, bounds
  <1>14. CASE MoveRepositoriesAway
    BY <1>14, <1>f, <1>pcs, <1>0, <1>r, <1>c, OfflineMove, FramePart
    DEF MoveRepositoriesAway, OfflineAt, RestPart, replay, platform, OnlyOffline, bounds
  <1>15. CASE InstallRepositories
    BY <1>15, <1>f, <1>pcs, <1>0, <1>r, OfflineMove, FramePart
    DEF InstallRepositories, OfflineAt, RestPart, replay, platform, OnlyOffline, bounds
  <1>16. CASE SwapFails
    BY <1>16, <1>f, <1>pcs, <1>0, <1>r, <1>c, OfflineMove, FramePart
    DEF SwapFails, OfflineAt, RestPart, replay, platform, OnlyOffline, bounds
  <1>17. CASE RebootFails
    BY <1>17, <1>f, <1>pcs, <1>0, <1>l, OfflineMove, FramePart
    DEF RebootFails, OfflineAt, RestPart, StoragePart, storage, replay, platform, OnlyOffline, bounds
  <1> QED
    BY <1>1, <1>2, <1>3, <1>4, <1>5, <1>6, <1>7, <1>8, <1>9, <1>10, <1>11, <1>12,
       <1>13, <1>14, <1>15, <1>16, <1>17 DEF OfflineProgress

\* The boot verifier moves, keeps its candidate, or exits.
LEMMA VerifierMove ==
    ASSUME TypeInvariant, UNCHANGED snapshots, NEW pc \in VerifierPcs, NEW r \in Records,
           Known(r)
    PROVE  /\ /\ verifier' = [verifier EXCEPT !.pc = pc]
              /\ pc \in {"check", "consume", "replace", "final"} => verifier.op \in Ops
              => VerifierPart'
           /\ verifier.op \in Ops /\ verifier' = [verifier EXCEPT !.pc = pc, !.mem = r]
              => VerifierPart'
           /\ verifier' = IdleVerifier => VerifierPart'
           /\ verifier' = [IdleVerifier EXCEPT !.pc = "acquire"] => VerifierPart'
  <1>0. verifier \in VerifierStates
    BY DEF TypeInvariant, VerifierPart
  <1>1. ASSUME NEW st \in VerifierStates, verifier' = st, Known(st.mem),
               \A op \in Ops : Known(st.scanned[op]),
               \A op \in st.todo : st.scanned[op].state \in InProgress,
               st.pc \in {"check", "consume", "replace", "final"} => st.op \in Ops
        PROVE  VerifierPart'
    BY <1>1 DEF VerifierPart, Known
  <1>2. ASSUME verifier' = [verifier EXCEPT !.pc = pc],
               pc \in {"check", "consume", "replace", "final"} => verifier.op \in Ops
        PROVE  VerifierPart'
    <2> DEFINE st == [verifier EXCEPT !.pc = pc]
    <2>1. /\ st \in VerifierStates /\ st.mem = verifier.mem /\ st.op = verifier.op
          /\ st.pc = pc /\ st.scanned = verifier.scanned /\ st.todo = verifier.todo
      BY <1>0, Zenon DEF VerifierStates
    <2> HIDE DEF st
    <2>2. verifier' = st
      BY <1>2 DEF st
    <2> QED BY <1>1, <1>2, <2>1, <2>2 DEF TypeInvariant, VerifierPart
  <1>3. ASSUME verifier.op \in Ops, verifier' = [verifier EXCEPT !.pc = pc, !.mem = r]
        PROVE  VerifierPart'
    <2> DEFINE st == [verifier EXCEPT !.pc = pc, !.mem = r]
    <2>1. /\ st \in VerifierStates /\ st.mem = r /\ st.op = verifier.op
          /\ st.pc = pc /\ st.scanned = verifier.scanned /\ st.todo = verifier.todo
      BY <1>0, Zenon DEF VerifierStates
    <2> HIDE DEF st
    <2>2. verifier' = st
      BY <1>3 DEF st
    <2> QED BY <1>1, <1>3, <2>1, <2>2 DEF TypeInvariant, VerifierPart
  <1>a. /\ IdleVerifier \in VerifierStates /\ IdleVerifier.mem = AbsentRecord
        /\ IdleVerifier.pc = "idle" /\ IdleVerifier.todo = {}
        /\ \A op \in Ops : IdleVerifier.scanned[op] = AbsentRecord
    BY ConstantRecords DEF IdleVerifier, VerifierStates, VerifierPcs
  <1>k. Known(AbsentRecord)
    BY ConstantRecords DEF Known, TypeInvariant, StoragePart
  <1>4. verifier' = IdleVerifier => VerifierPart'
    BY <1>1, <1>a, <1>k
  <1>5. ASSUME verifier' = [IdleVerifier EXCEPT !.pc = "acquire"] PROVE VerifierPart'
    <2> DEFINE st == [IdleVerifier EXCEPT !.pc = "acquire"]
    <2>1. /\ st \in VerifierStates /\ st.mem = IdleVerifier.mem /\ st.pc = "acquire"
          /\ st.scanned = IdleVerifier.scanned /\ st.todo = IdleVerifier.todo
      BY <1>a, Zenon DEF VerifierStates, VerifierPcs
    <2> HIDE DEF st
    <2>2. verifier' = st
      BY <1>5 DEF st
    <2> QED BY <1>1, <1>a, <1>k, <2>1, <2>2
  <1> QED BY <1>2, <1>3, <1>4, <1>5

\* The boot verifier, from its lock to the verdict.
LEMMA VerifierStepType ==
    ASSUME TypeInvariant, VerifierProgress \/ VerifierDies
    PROVE  TypeInvariant'
  <1> DEFINE op == verifier.op
             mem == verifier.mem
  <1>0. /\ mem \in Records /\ Known(mem) /\ verifier.todo \subseteq Ops
        /\ verifier.pc \in {"check", "consume", "replace", "final"} => op \in Ops
        /\ op \in Ops \cup {NoOp}
        /\ \A o \in Ops : verifier.scanned[o] \in Records /\ Known(verifier.scanned[o])
    BY DEF TypeInvariant, VerifierPart, VerifierStates
  <1>t. ASSUME NEW r \in Records, Known(r)
        PROVE  /\ \A st \in States :
                     TransitionTo(r, st) \in Records /\ Known(TransitionTo(r, st))
               /\ \A st \in States, code \in ErrorCodes :
                     Settle(r, st, code) \in Records /\ Known(Settle(r, st, code))
    BY <1>t, TransitionType, SettleType DEF Known
  <1>d. \A o \in Ops : disk[o] \in Records /\ Known(disk[o])
    BY DEF TypeInvariant, DiskPart
  <1>a. AbsentRecord \in Records /\ Known(AbsentRecord)
    BY ConstantRecords DEF Known, TypeInvariant, StoragePart
  <1>l. ASSUME Release("verifier") \/ Acquire("verifier") PROVE
             lock' \in Workers \cup Sessions \cup {"free", "offline", "verifier"}
    BY <1>l DEF Release, Acquire, TypeInvariant, RestPart
  <1>pcs. VerifierPcs = {"idle", "acquire", "scan", "reconcile", "check",
                         "consume", "replace", "final"}
    BY DEF VerifierPcs
  <1> USE DEF TypeInvariant
  <1>f. UNCHANGED snapshots =>
            /\ snapshots' \in Seq(Snapshots) /\ Len(snapshots') >= Len(snapshots)
    BY DEF StoragePart
  <1>1. CASE VerifierAcquire
    BY <1>1, <1>f, <1>pcs, <1>a, <1>l, VerifierMove, FramePart
    DEF VerifierAcquire, VerifierAt, RestPart, StoragePart, storage, replay, platform, OnlyVerifier, bounds
  <1>2. CASE VerifierBusy
    BY <1>2, <1>f, <1>pcs, <1>a, <1>l, VerifierMove, FramePart
    DEF VerifierBusy, VerifierAt, VerifierExit, RestPart, StoragePart, storage, replay, platform, OnlyVerifier, bounds
  <1>3. CASE Scan
    <2>1. PICK o \in Ops \cup {NoOp} :
             verifier' =
                [pc |-> "reconcile", op |-> o,
                 mem |-> IF o = NoOp THEN AbsentRecord ELSE disk[o],
                 todo |-> {q \in Ops : Interrupted(q)},
                 scanned |-> [q \in Ops |-> IF Interrupted(q) THEN disk[q] ELSE AbsentRecord]]
      BY <1>3 DEF Scan
    <2> DEFINE m == IF o = NoOp THEN AbsentRecord ELSE disk[o]
               todo == {q \in Ops : Interrupted(q)}
               scanned == [q \in Ops |-> IF Interrupted(q) THEN disk[q] ELSE AbsentRecord]
    <2>2. m \in Records /\ Known(m)
      BY <1>a, <1>d
    <2>3. /\ scanned \in [Ops -> Records] /\ \A q \in Ops : Known(scanned[q])
          /\ todo \subseteq Ops /\ \A q \in todo : scanned[q].state \in InProgress
      BY <1>a, <1>d DEF Interrupted
    <2> HIDE DEF m, todo, scanned
    <2>4. VerifierPart'
      <3> DEFINE st == [pc |-> "reconcile", op |-> o, mem |-> m, todo |-> todo, scanned |-> scanned]
      <3>1. /\ st \in VerifierStates /\ st.mem = m /\ st.pc = "reconcile"
            /\ st.scanned = scanned /\ st.todo = todo
        BY <1>pcs, <2>2, <2>3 DEF VerifierStates
      <3>2. verifier' = st
        BY <2>1 DEF m, todo, scanned
      <3>3. UNCHANGED snapshots
        BY <1>3 DEF Scan, storage
      <3> HIDE DEF st
      <3> QED BY <2>2, <2>3, <3>1, <3>2, <3>3 DEF VerifierPart, Known
    <2> QED BY <1>3, <1>f, <1>pcs, <2>4, VerifierMove, FramePart
    DEF Scan, VerifierAt, RestPart, StoragePart, storage, replay, platform, OnlyVerifier, bounds
  <1>4. CASE Reconcile
    <2>1. PICK o \in verifier.todo :
             /\ SaveState(o, InterruptedRecord(o))
             /\ verifier' = [verifier EXCEPT !.todo = @ \ {o}, !.scanned[o] = AbsentRecord]
      BY <1>4 DEF Reconcile
    <2>2. InterruptedRecord(o) \in Records /\ Known(InterruptedRecord(o)) /\ o \in Ops
      BY <1>0, <1>t DEF InterruptedRecord, InterruptedState, States, ErrorCodes
    <2>3. DiskPart'
      BY <1>4, <2>1, <2>2, SavePart DEF Reconcile, storage
    <2> DEFINE todo == verifier.todo \ {o}
               scanned == [verifier.scanned EXCEPT ![o] = AbsentRecord]
               st == [verifier EXCEPT !.todo = todo, !.scanned = scanned]
    <2>4. /\ scanned \in [Ops -> Records] /\ \A q \in Ops : Known(scanned[q])
          /\ todo \subseteq Ops /\ \A q \in todo : scanned[q].state \in InProgress
      BY <1>0, <1>a DEF VerifierPart, VerifierStates
    <2>5. verifier' = st /\ UNCHANGED snapshots
      BY <1>4, <2>1 DEF Reconcile, storage
    <2> HIDE DEF todo, scanned
    <2>6. VerifierPart'
      <3>1. /\ st \in VerifierStates /\ st.mem = verifier.mem /\ st.pc = verifier.pc
            /\ st.scanned = scanned /\ st.todo = todo /\ st.op = verifier.op
        BY <2>4, Zenon DEF VerifierStates, VerifierPart
      <3> HIDE DEF st
      <3> QED BY <1>0, <2>4, <2>5, <3>1 DEF VerifierPart, Known
    <2> QED BY <1>4, <1>f, <1>pcs, <2>3, <2>6, VerifierMove, FramePart
    DEF Reconcile, VerifierAt, RestPart, StoragePart, storage, replay, platform, OnlyVerifier, bounds
  <1>5. CASE ReconcileRefused
    BY <1>5, <1>f, <1>pcs, <1>a, <1>l, VerifierMove, FramePart
    DEF ReconcileRefused, VerifierAt, VerifierExit, RestPart, StoragePart, storage, replay, platform, OnlyVerifier, bounds
  <1>6. CASE NothingPending
    BY <1>6, <1>f, <1>pcs, <1>a, <1>l, VerifierMove, FramePart
    DEF NothingPending, VerifierAt, VerifierExit, RestPart, StoragePart, storage, replay, platform, OnlyVerifier, bounds
  <1>7. CASE BeginVerification
    <2> DEFINE r == IF mem.state = "AwaitingReboot"
                    THEN TransitionTo(mem, "VerifyingBoot") ELSE mem
    <2>1. r \in Records /\ Known(r) /\ op \in Ops
      BY <1>0, <1>7, <1>t DEF BeginVerification, States
    <2>2. DiskPart'
      BY <1>7, <2>1, SavePart DEF BeginVerification, storage
    <2>3. VerifierPart'
      BY <1>7, <1>pcs, <2>1, VerifierMove DEF BeginVerification, storage
    <2> QED BY <1>7, <1>f, <1>pcs, <2>2, <2>3, VerifierMove, FramePart
    DEF BeginVerification, VerifierAt, RestPart, StoragePart, storage, replay, platform, OnlyVerifier, bounds
  <1>8. CASE CheckPasses
    BY <1>8, <1>f, <1>pcs, <1>0, <1>t, VerifierMove, FramePart
    DEF CheckPasses, VerifierAt, Passed, States, ErrorCodes, RestPart, StoragePart, storage, replay, platform, OnlyVerifier, bounds
  <1>9. CASE CheckFails
    BY <1>9, <1>f, <1>pcs, <1>0, <1>t, VerifierMove, FramePart
    DEF CheckFails, VerifierAt, States, ErrorCodes, RestPart, StoragePart, storage, replay, platform, OnlyVerifier, bounds
  <1>10. CASE WriteSequenceTmp
    BY <1>10, <1>f, <1>pcs, <1>0, VerifierMove, FramePart
    DEF WriteSequenceTmp, VerifierAt, RestPart, StoragePart, storage, replay, platform, OnlyVerifier, bounds
  <1>11. CASE ReplaceSequence
    BY <1>11, <1>f, <1>pcs, <1>0, <1>t, MachineAssumption, VerifierMove, FramePart
    DEF ReplaceSequence, VerifierAt, Passed, Unconsumed, States, ErrorCodes, RestPart, StoragePart, storage, replay, platform, OnlyVerifier, bounds
  <1>12. CASE SequenceFails
    BY <1>12, <1>f, <1>pcs, <1>0, <1>t, VerifierMove, FramePart
    DEF SequenceFails, VerifierAt, Unconsumed, States, ErrorCodes, RestPart, StoragePart, storage, replay, platform, OnlyVerifier, bounds
  <1>13. CASE SaveVerdict
    BY <1>13, <1>f, <1>pcs, <1>0, <1>l, SavePart, VerifierMove, FramePart
    DEF SaveVerdict, VerifierAt, VerifierExit, RestPart, StoragePart, storage, replay, platform, OnlyVerifier, bounds
  <1>14. CASE VerifierDies
    <2>0. UNCHANGED snapshots
      BY <1>14 DEF VerifierDies, storage
    <2>1. VerifierPart'
      BY <1>14, <1>a, <1>pcs, <2>0, VerifierMove DEF VerifierDies, VerifierExit
    <2>2. RestPart'
      BY <1>14, <1>l DEF VerifierDies, VerifierExit, CountCrash, RestPart, replay, platform
    <2> QED BY <1>14, <1>f, <2>0, <2>1, <2>2, FramePart
        DEF VerifierDies, platform, OnlyVerifier
  <1> QED
    BY <1>1, <1>2, <1>3, <1>4, <1>5, <1>6, <1>7, <1>8, <1>9, <1>10, <1>11, <1>12,
       <1>13, <1>14 DEF VerifierProgress

\* Power loss, restart, boot and a foreign updater.
LEMMA PlatformStepType ==
    ASSUME TypeInvariant, PowerLoss \/ Reboot \/ Boot \/ ForeignStage
    PROVE  TypeInvariant'
  <1> USE DEF TypeInvariant
  <1>f. UNCHANGED snapshots =>
            /\ snapshots' \in Seq(Snapshots) /\ Len(snapshots') >= Len(snapshots)
    BY DEF StoragePart
  <1>a. AbsentRecord \in Records /\ Known(AbsentRecord)
    BY ConstantRecords DEF Known, StoragePart
  <1>1. Down => /\ DiskPart' /\ WorkerPart' /\ SessionPart' /\ OfflinePart'
                /\ VerifierPart' /\ StoragePart' /\ FilesPart'
    <2> SUFFICES ASSUME Down
                 PROVE  /\ DiskPart' /\ WorkerPart' /\ SessionPart' /\ OfflinePart'
                        /\ VerifierPart' /\ StoragePart' /\ FilesPart'
      OBVIOUS
    <2>0. UNCHANGED snapshots
      BY DEF Down, storage
    <2>1. WorkerPart'
      <3>1. /\ IdleWorker \in WorkerStates /\ IdleWorker.pc = "idle"
            /\ IdleWorker.mem = AbsentRecord
        BY ConstantRecords DEF IdleWorker, WorkerStates, WorkerPcs, Errors
      <3> QED BY <1>a, <2>0, <3>1 DEF Down, WorkerPart, Known
    <2>2. SessionPart'
      <3>1. /\ IdleSession \in SessionStates /\ IdleSession.pc = "idle"
            /\ IdleSession.mem = AbsentRecord
        BY ConstantRecords DEF IdleSession, SessionStates, SessionPcs
      <3> QED BY <1>a, <2>0, <3>1 DEF Down, SessionPart, Known
    <2>3. OfflinePart'
      BY <2>0, OfflineMove DEF Down, OfflinePcs
    <2>4. VerifierPart'
      BY <1>a, <2>0, VerifierMove DEF Down, VerifierPcs
    <2> QED BY <1>f, <2>0, <2>1, <2>2, <2>3, <2>4, FramePart DEF Down
  <1>2. CASE PowerLoss
    BY <1>1, <1>2 DEF PowerLoss, Down, CountCrash, RestPart, replay
  <1>3. CASE Reboot
    BY <1>1, <1>3 DEF Reboot, Down, bounds, RestPart, replay
  <1>4. CASE Boot
    <2>0. UNCHANGED snapshots
      BY <1>4 DEF Boot, storage
    <2>1. OfflinePart'
      BY <1>4, <1>f, <2>0, OfflineMove, FramePart DEF Boot, OfflinePcs
    <2>2. VerifierPart'
      BY <1>4, <1>a, <1>f, <2>0, VerifierMove, FramePart DEF Boot, VerifierPcs
    <2>3. StoragePart'
      BY <1>4 DEF Boot, storage, StoragePart
    <2> QED BY <1>4, <1>f, <2>0, <2>1, <2>2, <2>3, FramePart DEF Boot, RestPart, replay, bounds
  <1>5. CASE ForeignStage
    <2>1. StoragePart'
      BY <1>5 DEF ForeignStage, SetMarker, StoragePart, Roots, Markers, platform
    <2> QED BY <1>5, <1>f, <2>1, FramePart
        DEF ForeignStage, RestPart, replay, platform, processes, CountCrash
  <1> QED BY <1>2, <1>3, <1>4, <1>5

-----------------------------------------------------------------------------
\* The invariant holds in the initial state ...
LEMMA InitType == Init => TypeInvariant
  <1> SUFFICES ASSUME Init PROVE TypeInvariant
    OBVIOUS
  <1>0. Len(snapshots) = 0 /\ snapshots \in Seq(Snapshots)
    BY DEF Init
  <1>a. AbsentRecord \in Records /\ Known(AbsentRecord)
    BY <1>0, ConstantRecords DEF Known
  <1>1. DiskPart
    BY <1>a DEF Init, DiskPart
  <1>2. WorkerPart
    <2>1. /\ IdleWorker \in WorkerStates /\ IdleWorker.pc = "idle"
          /\ IdleWorker.mem = AbsentRecord
      BY ConstantRecords DEF IdleWorker, WorkerStates, WorkerPcs, Errors
    <2> QED BY <1>a, <2>1 DEF Init, WorkerPart
  <1>3. SessionPart
    <2>1. /\ IdleSession \in SessionStates /\ IdleSession.pc = "idle"
          /\ IdleSession.mem = AbsentRecord
      BY ConstantRecords DEF IdleSession, SessionStates, SessionPcs
    <2> QED BY <1>a, <2>1 DEF Init, SessionPart
  <1>4. OfflinePart
    BY <1>a DEF Init, OfflinePart, IdleOffline, OfflineStates, OfflinePcs
  <1>5. VerifierPart
    <2>1. /\ IdleVerifier \in VerifierStates /\ IdleVerifier.mem = AbsentRecord
          /\ IdleVerifier.pc = "idle" /\ IdleVerifier.todo = {}
          /\ \A op \in Ops : IdleVerifier.scanned[op] = AbsentRecord
      BY ConstantRecords DEF IdleVerifier, VerifierStates, VerifierPcs
    <2> QED BY <1>a, <2>1 DEF Init, VerifierPart
  <1>6. StoragePart
    <2>1. 0 \in Subvolumes
      BY MachineAssumption DEF Subvolumes
    <2>2. NewRoot \in Roots
      BY DEF Roots, NewRoot, Untouched, Markers, Packages, Progress
    <2> QED BY <1>0, <2>1, <2>2 DEF Init, StoragePart
  <1>7. FilesPart
    BY DEF Init, FilesPart, Untouched, Packages, Progress
  <1>8. RestPart
    BY DEF Init, RestPart
  <1> QED BY <1>1, <1>2, <1>3, <1>4, <1>5, <1>6, <1>7, <1>8 DEF TypeInvariant

\* ... and every step preserves it.
LEMMA NextType == TypeInvariant /\ [Next]_vars => TypeInvariant'
  <1> SUFFICES ASSUME TypeInvariant, [Next]_vars PROVE TypeInvariant'
    OBVIOUS
  <1>1. CASE UNCHANGED vars
    <2>1. UNCHANGED snapshots
      BY <1>1 DEF vars, storage
    <2>2. snapshots' \in Seq(Snapshots) /\ Len(snapshots') >= Len(snapshots)
      BY <2>1 DEF TypeInvariant, StoragePart
    <2> QED BY <1>1, <2>2, FramePart
        DEF vars, storage, platform, processes, replay, bounds, TypeInvariant, RestPart
  <1>2. CASE Next
    BY <1>2, WorkerStepType, SessionStepType, OfflineStepType, VerifierStepType,
       PlatformStepType DEF Next
  <1> QED BY <1>1, <1>2

\* Every reachable state is well typed, every busy process works on an
\* operation, and every snapshot number in a record denotes a snapshot.
THEOREM TypeInvariance == Spec => []TypeInvariant
  BY InitType, NextType, PTL DEF Spec

\* Type correctness of the whole system (TypeOK of module Machine): no step of
\* the service, the offline worker, the verifier or the platform leaves the
\* types, the sequence counter's width included.
THEOREM TypeCorrectness == Spec => []TypeOK
  <1>1. TypeInvariant => TypeOK
    BY DEF TypeInvariant, TypeOK, DiskPart, WorkerPart, SessionPart, OfflinePart,
       VerifierPart, StoragePart, FilesPart, RestPart
  <1> QED BY <1>1, TypeInvariance, PTL

-----------------------------------------------------------------------------
(* OneTransactionAtATime, process by process.                              *)

WorkersHold == \A w \in Workers : worker[w].pc \in HoldsLock => lock = w
SessionsHold ==
    \A s \in Sessions : session[s].pc \in {"intent", "rollback", "selected"} => lock = s
OfflineHolds == offline.pc \notin {"idle", "resolve", "stopped", "stranded"} => lock = "offline"
VerifierHolds == verifier.pc \notin {"idle", "acquire"} => lock = "verifier"

LockInv == WorkersHold /\ SessionsHold /\ OfflineHolds /\ VerifierHolds

\* The set of processes in a transaction holds at most the owner of the flock
\* exactly when each of them holds it.
LEMMA LockInvMeaning == LockInv <=> OneTransactionAtATime
  BY DEF LockInv, WorkersHold, SessionsHold, OfflineHolds, VerifierHolds,
     OneTransactionAtATime, InTransaction

\* A process that keeps away from the others' states and does not take the
\* lock from a holder disturbs nobody.
LEMMA OthersHold ==
    ASSUME LockInv, NEW p, lock' = lock \/ Release(p) \/ Acquire(p)
    PROVE  /\ UNCHANGED session /\ p \notin Sessions => SessionsHold'
           /\ UNCHANGED offline /\ p # "offline" => OfflineHolds'
           /\ UNCHANGED verifier /\ p # "verifier" => VerifierHolds'
           /\ UNCHANGED worker /\ p \notin Workers => WorkersHold'
           /\ \A w \in Workers : lock = w /\ w # p => lock' = w
           /\ \A s \in Sessions : lock = s /\ s # p => lock' = s
  <1> "free" \notin Workers /\ "free" \notin Sessions
    BY MachineAssumption
  <1> QED BY DEF LockInv, WorkersHold, SessionsHold, OfflineHolds, VerifierHolds,
                 Release, Acquire

\* A thread that moves within its transaction, or ends it.
LEMMA WorkerHolds ==
    ASSUME TypeInvariant, LockInv, NEW w \in Workers, NEW pc \in WorkerPcs,
           \A v \in Workers \ {w} : worker'[v].pc = worker[v].pc,
           worker'[w].pc = pc,
           \/ lock' = lock /\ (worker[w].pc \in HoldsLock \/ pc \notin HoldsLock)
           \/ Release(w) /\ pc \notin HoldsLock
           \/ Acquire(w)
    PROVE  WorkersHold'
  <1>1. \A v \in Workers \ {w} : lock = v => lock' = v
    BY OthersHold
  <1>2. pc \in HoldsLock => lock' = w
    BY DEF LockInv, WorkersHold, Acquire
  <1> QED BY <1>1, <1>2 DEF LockInv, WorkersHold

\* What Goto and the other updates of a thread do to the program counters.
LEMMA WorkerPc ==
    ASSUME TypeInvariant, NEW w \in Workers, NEW pc, NEW r, NEW b
    PROVE  \/ Goto(w, pc) \/ GotoWith(w, pc, r)
           \/ worker' = [worker EXCEPT ![w].pc = pc, ![w].mem = r, ![w].error = b]
           \/ worker' = [worker EXCEPT ![w].pc = pc, ![w].error = b]
           \/ pc = "idle" /\ worker' = [worker EXCEPT ![w] = IdleWorker]
           => /\ worker'[w].pc = pc
              /\ \A v \in Workers \ {w} : worker'[v].pc = worker[v].pc
  <1>0. worker \in [Workers -> WorkerStates] /\ worker[w] \in WorkerStates
    BY DEF TypeInvariant, WorkerPart
  <1> DEFINE Goal == /\ worker'[w].pc = pc
                     /\ \A v \in Workers \ {w} : worker'[v].pc = worker[v].pc
  <1>1. ASSUME NEW st, st.pc = pc, worker' = [worker EXCEPT ![w] = st] PROVE Goal
    BY <1>0, <1>1
  <1>2. Goto(w, pc) => Goal
    BY <1>0 DEF Goto, WorkerStates
  <1>3. GotoWith(w, pc, r) => Goal
    <2>1. [worker[w] EXCEPT !.pc = pc, !.mem = r].pc = pc
      BY <1>0, Zenon DEF WorkerStates
    <2>2. GotoWith(w, pc, r) =>
            worker' = [worker EXCEPT ![w] = [worker[w] EXCEPT !.pc = pc, !.mem = r]]
      BY <1>0 DEF GotoWith
    <2> QED BY <1>1, <2>1, <2>2
  <1>4. worker' = [worker EXCEPT ![w].pc = pc, ![w].mem = r, ![w].error = b] => Goal
    <2>1. [worker[w] EXCEPT !.pc = pc, !.mem = r, !.error = b].pc = pc
      BY <1>0, Zenon DEF WorkerStates
    <2>2. worker' = [worker EXCEPT ![w].pc = pc, ![w].mem = r, ![w].error = b] =>
            worker' = [worker EXCEPT ![w] =
                          [worker[w] EXCEPT !.pc = pc, !.mem = r, !.error = b]]
      BY <1>0
    <2> QED BY <1>1, <2>1, <2>2
  <1>5. worker' = [worker EXCEPT ![w].pc = pc, ![w].error = b] => Goal
    <2>1. [worker[w] EXCEPT !.pc = pc, !.error = b].pc = pc
      BY <1>0, Zenon DEF WorkerStates
    <2>2. worker' = [worker EXCEPT ![w].pc = pc, ![w].error = b] =>
            worker' = [worker EXCEPT ![w] = [worker[w] EXCEPT !.pc = pc, !.error = b]]
      BY <1>0
    <2> QED BY <1>1, <2>1, <2>2
  <1>6. pc = "idle" /\ worker' = [worker EXCEPT ![w] = IdleWorker] => Goal
    BY <1>0 DEF IdleWorker
  <1> QED BY <1>2, <1>3, <1>4, <1>5, <1>6

\* The threads: only AcquireLock enters the transaction, Fail, the two ends and
\* the death of the process leave it.
LEMMA WorkerStepLock ==
    ASSUME TypeInvariant, LockInv, NEW w \in Workers, WorkerProgress(w) \/ WorkerDies(w)
    PROVE  LockInv'
  <1>d. w \notin Sessions /\ w # "offline" /\ w # "verifier"
    BY MachineAssumption
  <1>o. ASSUME UNCHANGED OnlyWorker, lock' = lock \/ Release(w) \/ Acquire(w)
        PROVE  SessionsHold' /\ OfflineHolds' /\ VerifierHolds'
    BY <1>d, <1>o, OthersHold DEF OnlyWorker
  <1>1. CASE AcquireLock(w)
    BY <1>1, <1>o, WorkerHolds, WorkerPc
    DEF AcquireLock, HoldsLock, WorkerPcs, Self, LockInv
  <1>2. CASE LockBusy(w)
    BY <1>2, <1>o, WorkerHolds, WorkerPc
    DEF LockBusy, HoldsLock, WorkerPcs, Self, LockInv
  <1>3. CASE Prepare(w)
    BY <1>3, <1>o, WorkerHolds, WorkerPc
    DEF Prepare, HoldsLock, WorkerPcs, Self, LockInv
  <1>4. CASE BeginDownload(w)
    BY <1>4, <1>o, WorkerHolds, WorkerPc
    DEF BeginDownload, PersistTransition, HoldsLock, WorkerPcs, Self, LockInv
  <1>5. CASE Refresh(w)
    BY <1>5, <1>o, WorkerHolds, WorkerPc
    DEF Refresh, HoldsLock, WorkerPcs, Self, LockInv
  <1>6. CASE Download(w)
    BY <1>6, <1>o, WorkerHolds, WorkerPc
    DEF Download, HoldsLock, WorkerPcs, Self, LockInv
  <1>7. CASE BeginSnapshot(w)
    BY <1>7, <1>o, WorkerHolds, WorkerPc
    DEF BeginSnapshot, PersistTransition, HoldsLock, WorkerPcs, Self, LockInv
  <1>8. CASE CreateSnapshot(w)
    BY <1>8, <1>o, WorkerHolds, WorkerPc
    DEF CreateSnapshot, HoldsLock, WorkerPcs, Self, LockInv
  <1>9. CASE RecordSnapshot(w)
    <2>1. PICK pc \in {"stage", "apply"} : GotoWith(w, pc, Numbered(w))
      BY <1>9 DEF RecordSnapshot
    <2> QED BY <1>9, <1>o, <2>1, WorkerHolds, WorkerPc
        DEF RecordSnapshot, HoldsLock, WorkerPcs, Self, LockInv
  <1>10. CASE BeginApply(w)
    BY <1>10, <1>o, WorkerHolds, WorkerPc
    DEF BeginApply, PersistTransition, HoldsLock, WorkerPcs, Self, LockInv
  <1>11. CASE ZypperWrites(w)
    BY <1>11, <1>o DEF ZypperWrites, processes, OnlyWorker, LockInv, WorkersHold
  <1>12. CASE ZypperDone(w)
    BY <1>12, <1>o, WorkerHolds, WorkerPc
    DEF ZypperDone, HoldsLock, WorkerPcs, Self, LockInv
  <1>13. CASE FinishUpdate(w)
    BY <1>13, <1>o, WorkerHolds, WorkerPc
    DEF FinishUpdate, HoldsLock, WorkerPcs, Self, LockInv
  <1>14. CASE StageMarker(w)
    BY <1>14, <1>o, WorkerHolds, WorkerPc
    DEF StageMarker, HoldsLock, WorkerPcs, Self, LockInv
  <1>15. CASE FinishStaging(w)
    BY <1>15, <1>o, WorkerHolds, WorkerPc
    DEF FinishStaging, HoldsLock, WorkerPcs, Self, LockInv
  <1>16. CASE Fail(w)
    <2>1. PICK b \in Errors, r \in InMemory(w) :
             worker' = [worker EXCEPT ![w].pc = "failed", ![w].mem = r, ![w].error = b]
      BY <1>16 DEF Fail
    <2>2. /\ worker'[w].pc = "failed"
          /\ \A v \in Workers \ {w} : worker'[v].pc = worker[v].pc
      BY <2>1, WorkerPc
    <2> QED BY <1>16, <1>o, <2>2, WorkerHolds DEF Fail, HoldsLock, WorkerPcs, LockInv
  <1>17. CASE CheckCancelled(w)
    BY <1>17, <1>o, WorkerHolds, WorkerPc
    DEF CheckCancelled, HoldsLock, WorkerPcs, Self, LockInv
  <1>18. CASE RecordFailure(w)
    BY <1>18, <1>o, WorkerHolds, WorkerPc
    DEF RecordFailure, HoldsLock, WorkerPcs, Self, LockInv
  <1>19. CASE WorkerDies(w)
    BY <1>19, <1>o, WorkerHolds, WorkerPc
    DEF WorkerDies, HoldsLock, WorkerPcs, Self, LockInv
  <1> QED
    BY <1>1, <1>2, <1>3, <1>4, <1>5, <1>6, <1>7, <1>8, <1>9, <1>10, <1>11, <1>12, <1>13, <1>14, <1>15, <1>16, <1>17, <1>18, <1>19
    DEF WorkerProgress

\* The request handlers: only Rollback enters, its four ends leave.
LEMMA SessionStepLock ==
    ASSUME TypeInvariant, LockInv, NEW s \in Sessions,
           SessionRequest(s) \/ SessionProgress(s) \/ SessionDies(s)
    PROVE  LockInv'
  <1>d. s \notin Workers /\ s # "offline" /\ s # "verifier"
    BY MachineAssumption
  <1>o. ASSUME UNCHANGED <<offline, verifier>>, lock' = lock \/ Release(s) \/ Acquire(s)
        PROVE  OfflineHolds' /\ VerifierHolds' /\ (UNCHANGED worker => WorkersHold')
    BY <1>d, <1>o, OthersHold
  <1> DEFINE In == {"intent", "rollback", "selected"}
  <1>h. ASSUME NEW pc, session'[s].pc = pc,
               \A v \in Sessions \ {s} : session'[v].pc = session[v].pc,
               \/ lock' = lock /\ (session[s].pc \in In \/ pc \notin In)
               \/ Release(s) /\ pc \notin In
               \/ Acquire(s)
        PROVE  SessionsHold'
    <2>1. \A v \in Sessions \ {s} : lock = v => lock' = v
      BY <1>h, OthersHold
    <2>2. pc \in In => lock' = s
      BY <1>h DEF LockInv, SessionsHold, Acquire
    <2> QED BY <1>h, <2>1, <2>2 DEF LockInv, SessionsHold
  <1>p. ASSUME NEW pc, NEW o, NEW r,
               \/ Serve(s, pc, o, r) \/ Continue(s, pc) \/ (pc = "idle" /\ Reply(s))
        PROVE  session'[s].pc = pc /\ \A v \in Sessions \ {s} : session'[v].pc = session[v].pc
    <2>1. session \in [Sessions -> SessionStates] /\ session[s] \in SessionStates
      BY DEF TypeInvariant, SessionPart
    <2>2. CASE Serve(s, pc, o, r)
      BY <2>1, <2>2 DEF Serve
    <2>3. CASE Continue(s, pc)
      BY <2>1, <2>3 DEF Continue, SessionStates
    <2>4. CASE pc = "idle" /\ Reply(s)
      BY <2>1, <2>4 DEF Reply, IdleSession
    <2> QED BY <1>p, <2>2, <2>3, <2>4
  <1>1. ASSUME NEW o \in Ops, StartNew(s, o) PROVE LockInv'
    BY <1>1, <1>o, <1>h, <1>p DEF StartNew, OnlySession, Request, LockInv
  <1>2. CASE SaveInitial(s)
    BY <1>2, <1>o, <1>h, <1>p DEF SaveInitial, OnlySession, Request, LockInv
  <1>3. CASE SavePendingPlan(s)
    BY <1>3, <1>o, <1>h, <1>p DEF SavePendingPlan, OnlySession, Request, LockInv
  <1>4. CASE SaveOwner(s)
    <2>1. /\ session'[s].pc = "spawn"
          /\ \A v \in Sessions \ {s} : session'[v].pc = session[v].pc
      BY <1>4, <1>p DEF SaveOwner
    <2> QED BY <1>4, <1>o, <1>h, <2>1 DEF SaveOwner, OnlySession, Request, LockInv
  <1>5. CASE OwnerExists(s)
    BY <1>5, <1>o, <1>h, <1>p DEF OwnerExists, OnlySession, Request, LockInv
  <1>6. ASSUME NEW o \in Ops, StartOwned(s, o) PROVE LockInv'
    BY <1>6, <1>o, <1>h, <1>p DEF StartOwned, OnlySession, Request, LockInv
  <1>7. CASE Spawn(s)
    <2>1. \A w \in Workers : worker'[w].pc \in HoldsLock => worker[w].pc \in HoldsLock
      BY <1>7 DEF Spawn, HoldsLock, TypeInvariant, WorkerPart
    <2>2. WorkersHold'
      BY <1>7, <2>1 DEF Spawn, LockInv, WorkersHold
    <2> QED BY <1>7, <1>o, <1>h, <1>p, <2>2 DEF Spawn, LockInv
  <1>8. CASE RejectStart(s)
    BY <1>8, <1>o, <1>h, <1>p DEF RejectStart, OnlySession, Request, LockInv
  <1>9. CASE HistoryUnusable(s)
    BY <1>9, <1>o, <1>h, <1>p DEF HistoryUnusable, OnlySession, Request, LockInv
  <1>10. ASSUME NEW o \in Ops, Cancel(s, o) PROVE LockInv'
    BY <1>10, <1>o, <1>h, <1>p DEF Cancel, OnlySession, Request, LockInv
  <1>11. CASE SaveCancelled(s)
    BY <1>11, <1>o, <1>h, <1>p DEF SaveCancelled, OnlySession, Request, LockInv
  <1>12. ASSUME NEW o \in Ops, KeepCurrent(s, o) PROVE LockInv'
    BY <1>12, <1>o, <1>h, <1>p DEF KeepCurrent, OnlySession, Request, LockInv
  <1>13. CASE SaveDeclined(s)
    BY <1>13, <1>o, <1>h, <1>p DEF SaveDeclined, OnlySession, Request, LockInv
  <1>14. ASSUME NEW o \in Ops, Rollback(s, o) PROVE LockInv'
    BY <1>14, <1>o, <1>h, <1>p DEF Rollback, OnlySession, Request, LockInv
  <1>15. CASE SaveIntent(s)
    BY <1>15, <1>o, <1>h, <1>p DEF SaveIntent, OnlySession, Request, LockInv
  <1>16. CASE RejectRollback(s)
    BY <1>16, <1>o, <1>h, <1>p DEF RejectRollback, OnlySession, Request, LockInv
  <1>17. CASE SelectClone(s)
    BY <1>17, <1>o, <1>h, <1>p DEF SelectClone, OnlySession, Request, LockInv
  <1>18. CASE SaveScheduled(s)
    BY <1>18, <1>o, <1>h, <1>p DEF SaveScheduled, OnlySession, Request, LockInv
  <1>19. CASE RollbackFails(s)
    BY <1>19, <1>o, <1>h, <1>p DEF RollbackFails, OnlySession, Request, LockInv
  <1>20. CASE SessionDies(s)
    BY <1>20, <1>o, <1>h, <1>p DEF SessionDies, OnlySession, Request, LockInv
  <1> QED
    BY <1>1, <1>2, <1>3, <1>4, <1>5, <1>6, <1>7, <1>8, <1>9, <1>10, <1>11, <1>12, <1>13, <1>14, <1>15, <1>16, <1>17, <1>18, <1>19, <1>20
    DEF SessionRequest, SessionProgress

\* The offline worker: Resolve enters, the reboot and the refusals leave.
LEMMA OfflineStepLock ==
    ASSUME TypeInvariant, LockInv, OfflineProgress
    PROVE  LockInv'
  <1>d. "offline" \notin Workers /\ "offline" \notin Sessions
    BY MachineAssumption
  <1>o. ASSUME UNCHANGED OnlyOffline, lock' = lock \/ Release("offline") \/ Acquire("offline")
        PROVE  WorkersHold' /\ SessionsHold' /\ VerifierHolds'
    BY <1>d, <1>o, OthersHold DEF OnlyOffline
  <1>p. ASSUME NEW pc, NEW r,
               OfflineGoto(pc) \/ offline' = [offline EXCEPT !.pc = pc, !.mem = r]
        PROVE  offline'.pc = pc
    <2>1. [offline EXCEPT !.pc = pc].pc = pc /\ [offline EXCEPT !.pc = pc, !.mem = r].pc = pc
      BY Zenon DEF TypeInvariant, OfflinePart, OfflineStates
    <2> QED BY <1>p, <2>1 DEF OfflineGoto
  <1>1. CASE Resolve
    BY <1>1, <1>o, <1>p DEF Resolve, Acquire, IdleOffline, OfflineAt, LockInv, OfflineHolds
  <1>2. CASE LoadStaged
    BY <1>2, <1>o, <1>p DEF LoadStaged, OfflineAt, LockInv, OfflineHolds
  <1>3. CASE Revalidate
    BY <1>3, <1>o, <1>p DEF Revalidate, OfflineAt, LockInv, OfflineHolds
  <1>4. CASE OfflineZypperWrites
    BY <1>4, <1>o, <1>p DEF OfflineZypperWrites, processes, OnlyOffline, OfflineAt, LockInv, OfflineHolds
  <1>5. CASE OfflineZypperDone
    BY <1>5, <1>o, <1>p DEF OfflineZypperDone, OfflineAt, LockInv, OfflineHolds
  <1>6. CASE PersistApplied
    BY <1>6, <1>o, <1>p DEF PersistApplied, OfflineAt, LockInv, OfflineHolds
  <1>7. CASE RemoveMarker
    BY <1>7, <1>o, <1>p DEF RemoveMarker, OfflineAt, LockInv, OfflineHolds
  <1>8. CASE OfflineFails
    BY <1>8, <1>o, <1>p DEF OfflineFails, OfflineAt, LockInv, OfflineHolds
  <1>9. CASE MarkRecovery
    BY <1>9, <1>o, <1>p DEF MarkRecovery, OfflineAt, LockInv, OfflineHolds
  <1>10. CASE RecoveryRefused
    BY <1>10, <1>o, <1>p DEF RecoveryRefused, OfflineAt, LockInv, OfflineHolds
  <1>11. CASE OfflineReboot
    BY <1>11, <1>o, <1>p DEF OfflineReboot, IdleOffline, OfflineAt, LockInv, OfflineHolds
  <1>12. CASE RebootRefused
    BY <1>12, <1>o, <1>p DEF RebootRefused, OfflineAt, LockInv, OfflineHolds
  <1>13. CASE SystemUpdateCleanup
    BY <1>13, <1>o, <1>p DEF SystemUpdateCleanup, IdleOffline, OfflineAt, LockInv, OfflineHolds
  <1>14. CASE MoveRepositoriesAway
    BY <1>14, <1>o, <1>p DEF MoveRepositoriesAway, OfflineAt, LockInv, OfflineHolds
  <1>15. CASE InstallRepositories
    BY <1>15, <1>o, <1>p DEF InstallRepositories, OfflineAt, LockInv, OfflineHolds
  <1>16. CASE SwapFails
    BY <1>16, <1>o, <1>p DEF SwapFails, OfflineAt, LockInv, OfflineHolds
  <1>17. CASE RebootFails
    BY <1>17, <1>o, <1>p DEF RebootFails, OfflineAt, LockInv, OfflineHolds
  <1> QED
    BY <1>1, <1>2, <1>3, <1>4, <1>5, <1>6, <1>7, <1>8, <1>9, <1>10, <1>11, <1>12, <1>13,
       <1>14, <1>15, <1>16, <1>17 DEF OfflineProgress

\* The boot verifier: VerifierAcquire enters, every exit leaves.
LEMMA VerifierStepLock ==
    ASSUME TypeInvariant, LockInv, VerifierProgress \/ VerifierDies
    PROVE  LockInv'
  <1>d. "verifier" \notin Workers /\ "verifier" \notin Sessions
    BY MachineAssumption
  <1>o. ASSUME UNCHANGED OnlyVerifier, lock' = lock \/ Release("verifier") \/ Acquire("verifier")
        PROVE  WorkersHold' /\ SessionsHold' /\ OfflineHolds'
    BY <1>d, <1>o, OthersHold DEF OnlyVerifier
  <1>e. VerifierExit => VerifierHolds'
    BY DEF VerifierExit, IdleVerifier, VerifierHolds
  <1>s. lock' = lock /\ lock = "verifier" => VerifierHolds'
    BY DEF VerifierHolds
  <1>1. CASE VerifierAcquire
    BY <1>1, <1>o, <1>s DEF VerifierAcquire, Acquire, VerifierHolds, VerifierAt, LockInv
  <1>2. CASE VerifierBusy
    BY <1>2, <1>o, <1>e DEF VerifierBusy, VerifierExit, VerifierAt, LockInv
  <1>3. CASE Scan
    BY <1>3, <1>o, <1>s DEF Scan, VerifierHolds, VerifierAt, LockInv
  <1>4. CASE Reconcile
    BY <1>4, <1>o, <1>s DEF Reconcile, VerifierHolds, VerifierAt, LockInv
  <1>5. CASE ReconcileRefused
    BY <1>5, <1>o, <1>e DEF ReconcileRefused, VerifierExit, VerifierAt, LockInv
  <1>6. CASE NothingPending
    BY <1>6, <1>o, <1>e DEF NothingPending, VerifierExit, VerifierAt, LockInv
  <1>7. CASE BeginVerification
    BY <1>7, <1>o, <1>s DEF BeginVerification, VerifierHolds, VerifierAt, LockInv
  <1>8. CASE CheckPasses
    BY <1>8, <1>o, <1>s DEF CheckPasses, VerifierHolds, VerifierAt, LockInv
  <1>9. CASE CheckFails
    BY <1>9, <1>o, <1>s DEF CheckFails, VerifierHolds, VerifierAt, LockInv
  <1>10. CASE WriteSequenceTmp
    BY <1>10, <1>o, <1>s DEF WriteSequenceTmp, VerifierHolds, VerifierAt, LockInv
  <1>11. CASE ReplaceSequence
    BY <1>11, <1>o, <1>s DEF ReplaceSequence, VerifierHolds, VerifierAt, LockInv
  <1>12. CASE SequenceFails
    BY <1>12, <1>o, <1>s DEF SequenceFails, VerifierHolds, VerifierAt, LockInv
  <1>13. CASE SaveVerdict
    BY <1>13, <1>o, <1>e DEF SaveVerdict, VerifierExit, VerifierAt, LockInv
  <1>14. CASE VerifierDies
    BY <1>14, <1>o, <1>e DEF VerifierDies, VerifierExit, VerifierAt, LockInv
  <1> QED
    BY <1>1, <1>2, <1>3, <1>4, <1>5, <1>6, <1>7, <1>8, <1>9, <1>10, <1>11, <1>12, <1>13, <1>14
    DEF VerifierProgress

\* A power loss or a restart ends every transaction and frees the lock; a boot
\* starts processes that have not asked for it yet.
LEMMA PlatformStepLock ==
    ASSUME TypeInvariant, LockInv, PowerLoss \/ Reboot \/ Boot \/ ForeignStage
    PROVE  LockInv'
  <1>1. Down => LockInv'
    BY DEF Down, LockInv, WorkersHold, SessionsHold, OfflineHolds, VerifierHolds,
       IdleWorker, IdleSession, IdleOffline, IdleVerifier, HoldsLock
  <1>2. CASE Boot
    <2>1. OfflineHolds'
      BY <1>2 DEF Boot, LockInv, OfflineHolds, IdleOffline
    <2>2. VerifierHolds'
      BY <1>2 DEF Boot, LockInv, VerifierHolds, IdleVerifier
    <2> QED BY <1>2, <2>1, <2>2 DEF Boot, LockInv, WorkersHold, SessionsHold
  <1>3. CASE ForeignStage
    BY <1>3 DEF ForeignStage, processes, LockInv, WorkersHold, SessionsHold,
       OfflineHolds, VerifierHolds
  <1> QED BY <1>1, <1>2, <1>3 DEF PowerLoss, Reboot

-----------------------------------------------------------------------------
\* Mutual exclusion (OneTransactionAtATime): executors, rollbacks, the offline
\* worker and the verifier never overlap, for any number of threads, clients,
\* operations, crashes and boots.
THEOREM MutualExclusion == Spec => []OneTransactionAtATime
  <1>1. Init => LockInv
    BY DEF Init, LockInv, WorkersHold, SessionsHold, OfflineHolds, VerifierHolds,
       IdleWorker, IdleSession, IdleOffline, IdleVerifier, HoldsLock
  <1>2. TypeInvariant /\ LockInv /\ [Next]_vars => LockInv'
    <2> SUFFICES ASSUME TypeInvariant, LockInv, [Next]_vars PROVE LockInv'
      OBVIOUS
    <2>1. CASE UNCHANGED vars
      BY <2>1 DEF vars, processes, LockInv, WorkersHold, SessionsHold, OfflineHolds,
         VerifierHolds
    <2>2. CASE Next
      BY <2>2, WorkerStepLock, SessionStepLock, OfflineStepLock, VerifierStepLock,
         PlatformStepLock DEF Next
    <2> QED BY <2>1, <2>2
  <1>3. LockInv => OneTransactionAtATime
    BY LockInvMeaning
  <1> QED BY <1>1, <1>2, <1>3, TypeInvariance, PTL DEF Spec
=============================================================================
