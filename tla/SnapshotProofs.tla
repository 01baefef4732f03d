--------------------------- MODULE SnapshotProofs ----------------------------
(***************************************************************************)
(* What a rollback of UpgradeSystem relies on: the number on record is a   *)
(* snapshot without the operation's packages, no root carries packages or  *)
(* a marker of an operation without such a snapshot, and no transaction is *)
(* begun on a system that already holds some of it.                        *)
(***************************************************************************)
EXTENDS TypeProofs

-----------------------------------------------------------------------------
(* Snapshots are only ever appended.                                       *)

Grows == snapshots' = snapshots \/ \E e \in Snapshots : snapshots' = Append(snapshots, e)
KeepsStarts == \A op \in Ops : starts[op] # 0 => starts'[op] # 0

\* A snapshot, once clean, stays clean.
LEMMA CleanGrows ==
    ASSUME TypeInvariant, Grows
    PROVE  /\ snapshots' \in Seq(Snapshots) /\ DOMAIN snapshots \subseteq DOMAIN snapshots'
           /\ \A n \in DOMAIN snapshots : snapshots'[n] = snapshots[n]
           /\ \A op, n : CleanSnapshot(op, n) => CleanSnapshot(op, n)'
           /\ \A op : HasSnapshot(op) => HasSnapshot(op)'
           /\ \A op, r : CleanTarget(op, r) => CleanTarget(op, r)'
           /\ \A root : Undoable(root) => Undoable(root)'
  <1>0. snapshots \in Seq(Snapshots) /\ DOMAIN snapshots = 1..Len(snapshots)
        /\ Len(snapshots) \in Nat
    BY DEF TypeInvariant, StoragePart
  <1>1. /\ snapshots' \in Seq(Snapshots) /\ DOMAIN snapshots \subseteq DOMAIN snapshots'
        /\ \A n \in DOMAIN snapshots : snapshots'[n] = snapshots[n]
    <2>1. CASE snapshots' = snapshots
      BY <1>0, <2>1
    <2>2. ASSUME NEW e \in Snapshots, snapshots' = Append(snapshots, e)
          PROVE  /\ snapshots' \in Seq(Snapshots) /\ DOMAIN snapshots \subseteq DOMAIN snapshots'
                 /\ \A n \in DOMAIN snapshots : snapshots'[n] = snapshots[n]
      BY <1>0, <2>2
    <2> QED BY <2>1, <2>2 DEF Grows
  <1>2. \A op, n : CleanSnapshot(op, n) => CleanSnapshot(op, n)'
    BY <1>1 DEF CleanSnapshot
  <1>3. \A op : HasSnapshot(op) => HasSnapshot(op)'
    BY <1>1, <1>2 DEF HasSnapshot
  <1>4. \A op, r : CleanTarget(op, r) => CleanTarget(op, r)'
    BY <1>2 DEF CleanTarget
  <1>5. \A root : Undoable(root) => Undoable(root)'
    BY <1>3 DEF Undoable
  <1> QED BY <1>1, <1>2, <1>3, <1>4, <1>5

\* Each part of the invariant survives a step that leaves its variables alone.
LEMMA CleanFrame ==
    ASSUME TypeInvariant, SnapshotInvariant, Grows, KeepsStarts
    PROVE  /\ UNCHANGED disk => DiskClean'
           /\ UNCHANGED session => SessionClean'
           /\ UNCHANGED offline => OfflineClean'
           /\ UNCHANGED verifier => VerifierClean'
           /\ UNCHANGED <<roots, snapshots>> => StorageClean'
           /\ UNCHANGED basis => BasisClean'
           /\ UNCHANGED <<mode, worker, session>> => QuietPart'
           /\ UNCHANGED <<worker, snapshots>> /\ Installed' = Installed => WorkerClean'
  <1>g. /\ \A op, r : CleanTarget(op, r) => CleanTarget(op, r)'
        /\ \A op, n : CleanSnapshot(op, n) => CleanSnapshot(op, n)'
        /\ \A root : Undoable(root) => Undoable(root)'
    BY CleanGrows
  <1> USE DEF SnapshotInvariant, KeepsStarts
  <1>1. UNCHANGED disk => DiskClean'
    BY <1>g DEF DiskClean
  <1>2. UNCHANGED session => SessionClean'
    BY <1>g DEF SessionClean, RequestIsClean, TypeInvariant, SessionPart
  <1>3. UNCHANGED offline => OfflineClean'
    BY <1>g DEF OfflineClean
  <1>4. UNCHANGED verifier => VerifierClean'
    BY <1>g DEF VerifierClean
  <1>5. UNCHANGED <<roots, snapshots>> => StorageClean'
    <2>1. \A n \in DOMAIN snapshots : snapshots[n].op \in Ops
      <3>1. \A n \in DOMAIN snapshots : snapshots[n] \in Snapshots
        BY DEF TypeInvariant, StoragePart
      <3> QED BY <3>1 DEF Snapshots
    <2> QED BY <1>g, <2>1 DEF StorageClean
  <1>6. UNCHANGED basis => BasisClean'
    BY DEF BasisClean
  <1>7. UNCHANGED <<mode, worker, session>> => QuietPart'
    BY DEF QuietPart
  <1>8. UNCHANGED <<worker, snapshots>> /\ Installed' = Installed => WorkerClean'
    BY <1>g DEF WorkerClean, ThreadIsClean, TypeInvariant, WorkerPart
  <1> QED BY <1>1, <1>2, <1>3, <1>4, <1>5, <1>6, <1>7, <1>8

\* Saving a record whose number is clean.
LEMMA SaveClean ==
    ASSUME TypeInvariant, SnapshotInvariant, Grows, NEW op \in Ops, NEW r,
           SaveState(op, r), CleanTarget(op, r)
    PROVE  DiskClean'
  <1>1. disk \in [Ops -> Records] /\ disk' = [disk EXCEPT ![op] = r]
    BY DEF TypeInvariant, DiskPart, SaveState
  <1> QED BY <1>1, CleanGrows DEF SnapshotInvariant, DiskClean

-----------------------------------------------------------------------------
(* The threads.                                                            *)

Moved(w, pc, r) ==
    /\ worker'[w].pc = pc /\ worker'[w].op = worker[w].op /\ worker'[w].mem = r
    /\ \A v \in Workers \ {w} : worker'[v] = worker[v]

\* What the updates of a thread do to its fields.
LEMMA WorkerFields ==
    ASSUME TypeInvariant, NEW w \in Workers, NEW pc, NEW r, NEW b
    PROVE  /\ Goto(w, pc) => Moved(w, pc, worker[w].mem)
           /\ GotoWith(w, pc, r) => Moved(w, pc, r)
           /\ worker' = [worker EXCEPT ![w].pc = pc, ![w].mem = r, ![w].error = b]
                 => Moved(w, pc, r)
           /\ worker' = [worker EXCEPT ![w].pc = pc, ![w].error = b]
                 => Moved(w, pc, worker[w].mem)
  <1>0. worker \in [Workers -> WorkerStates] /\ worker[w] \in WorkerStates
    BY DEF TypeInvariant, WorkerPart
  <1>1. ASSUME NEW st, NEW m, st.pc = pc, st.op = worker[w].op, st.mem = m,
               worker' = [worker EXCEPT ![w] = st]
        PROVE  Moved(w, pc, m)
    BY <1>0, <1>1 DEF Moved
  <1>2. Goto(w, pc) => Moved(w, pc, worker[w].mem)
    <2> DEFINE st == [worker[w] EXCEPT !.pc = pc]
    <2>1. st.pc = pc /\ st.op = worker[w].op /\ st.mem = worker[w].mem
      BY <1>0, Zenon DEF WorkerStates
    <2>2. Goto(w, pc) => worker' = [worker EXCEPT ![w] = st]
      BY Zenon DEF Goto
    <2> HIDE DEF st
    <2> QED BY <1>1, <2>1, <2>2
  <1>3. GotoWith(w, pc, r) => Moved(w, pc, r)
    <2> DEFINE st == [worker[w] EXCEPT !.pc = pc, !.mem = r]
    <2>1. st.pc = pc /\ st.op = worker[w].op /\ st.mem = r
      BY <1>0, Zenon DEF WorkerStates
    <2>2. GotoWith(w, pc, r) => worker' = [worker EXCEPT ![w] = st]
      BY <1>0 DEF GotoWith
    <2> HIDE DEF st
    <2> QED BY <1>1, <2>1, <2>2
  <1>4. worker' = [worker EXCEPT ![w].pc = pc, ![w].mem = r, ![w].error = b]
           => Moved(w, pc, r)
    <2> DEFINE st == [worker[w] EXCEPT !.pc = pc, !.mem = r, !.error = b]
    <2>1. st.pc = pc /\ st.op = worker[w].op /\ st.mem = r
      BY <1>0, Zenon DEF WorkerStates
    <2>2. worker' = [worker EXCEPT ![w].pc = pc, ![w].mem = r, ![w].error = b]
             => worker' = [worker EXCEPT ![w] = st]
      BY <1>0
    <2> HIDE DEF st
    <2> QED BY <1>1, <2>1, <2>2
  <1>5. worker' = [worker EXCEPT ![w].pc = pc, ![w].error = b]
           => Moved(w, pc, worker[w].mem)
    <2> DEFINE st == [worker[w] EXCEPT !.pc = pc, !.error = b]
    <2>1. st.pc = pc /\ st.op = worker[w].op /\ st.mem = worker[w].mem
      BY <1>0, Zenon DEF WorkerStates
    <2>2. worker' = [worker EXCEPT ![w].pc = pc, ![w].error = b]
             => worker' = [worker EXCEPT ![w] = st]
      BY <1>0
    <2> HIDE DEF st
    <2> QED BY <1>1, <2>1, <2>2
  <1> QED BY <1>2, <1>3, <1>4, <1>5

\* One thread moves.  Either the packages and the snapshots stay, or the thread
\* holds the lock and no other one is near its snapshot.
LEMMA ThreadMoves ==
    ASSUME TypeInvariant, LockInv, SnapshotInvariant, Grows, KeepsStarts, NEW w \in Workers,
           \A v \in Workers \ {w} : worker'[v] = worker[v],
           (worker[w].pc # "idle" => ThreadIsClean(worker[w]))',
           (Installed' = Installed /\ snapshots' = snapshots) \/ lock = w
    PROVE  WorkerClean'
  <1> SUFFICES ASSUME NEW v \in Workers \ {w}, worker[v].pc # "idle"
               PROVE  ThreadIsClean(worker[v])'
    BY DEF WorkerClean
  <1>1. ThreadIsClean(worker[v]) /\ worker[v].op \in Ops
    BY DEF SnapshotInvariant, WorkerClean, TypeInvariant, WorkerPart
  <1>2. /\ starts'[worker[v].op] # 0 /\ CleanTarget(worker[v].op, worker[v].mem)'
        /\ \A op, n : CleanSnapshot(op, n) => CleanSnapshot(op, n)'
    BY <1>1, CleanGrows DEF ThreadIsClean, KeepsStarts
  <1>3. CASE Installed' = Installed /\ snapshots' = snapshots
    BY <1>1, <1>2, <1>3 DEF ThreadIsClean
  <1>4. CASE lock = w
    <2>1. worker[v].pc \notin HoldsLock
      BY <1>4 DEF LockInv, WorkersHold
    <2> QED BY <1>1, <1>2, <2>1 DEF ThreadIsClean, HoldsLock
  <1> QED BY <1>3, <1>4

\* Writing the packages of an operation that has a snapshot, or staging its
\* marker, on the mounted root.
LEMMA RootWrites ==
    ASSUME TypeInvariant, SnapshotInvariant, UNCHANGED <<snapshots, starts>>,
           \/ \E op \in Ops : HasSnapshot(op) /\ (SetMarker(op) \/ \E p : SetPackages(op, p))
           \/ SetMarker(NoOp) \/ SetMarker(Foreign)
           \/ \E o, l : SetRepositories(o, l)
    PROVE  StorageClean'
  <1>0. /\ roots \in [Subvolumes -> Roots] /\ mounted \in Subvolumes
        /\ roots[mounted] \in Roots
        /\ \A root \in Roots : root.packages \in [Ops -> Progress]
    BY DEF TypeInvariant, StoragePart, Roots, Packages
  <1>1. \A n \in DOMAIN snapshots : Undoable(snapshots[n].root)' /\ starts'[snapshots'[n].op] # 0
    BY DEF SnapshotInvariant, StorageClean, Undoable, HasSnapshot, CleanSnapshot
  <1>2. ASSUME NEW v \in Subvolumes PROVE Undoable(roots'[v])
    <2>0. Undoable(roots[v]) /\ roots[v] \in Roots
      BY <1>0 DEF SnapshotInvariant, StorageClean
    <2>1. ASSUME NEW op \in Ops, HasSnapshot(op), SetMarker(op) PROVE Undoable(roots'[v])
      <3>1. /\ roots'[v].marker \in {op, roots[v].marker}
            /\ roots'[v].packages = roots[v].packages
        BY <1>0, <2>0, <2>1 DEF SetMarker, Roots
      <3> QED BY <2>0, <2>1, <3>1 DEF Undoable
    <2>2. ASSUME NEW op \in Ops, NEW p, HasSnapshot(op), SetPackages(op, p)
          PROVE  Undoable(roots'[v])
      <3>1. /\ roots'[v].marker = roots[v].marker
            /\ \A o \in Ops \ {op} : roots'[v].packages[o] = roots[v].packages[o]
        BY <1>0, <2>0, <2>2 DEF SetPackages, Roots, Packages
      <3> QED BY <2>0, <2>2, <3>1 DEF Undoable
    <2>3. ASSUME NEW m \in {NoOp, Foreign}, SetMarker(m) PROVE Undoable(roots'[v])
      <3>1. /\ roots'[v].marker \in {m, roots[v].marker}
            /\ roots'[v].packages = roots[v].packages
        BY <1>0, <2>0, <2>3 DEF SetMarker, Roots
      <3> QED BY <2>0, <2>3, <3>1, MachineAssumption DEF Undoable
    <2>4. ASSUME NEW o, NEW l, SetRepositories(o, l) PROVE Undoable(roots'[v])
      <3>1. /\ roots'[v].marker = roots[v].marker
            /\ roots'[v].packages = roots[v].packages
        BY <1>0, <2>0, <2>4 DEF SetRepositories, Roots
      <3> QED BY <2>0, <3>1 DEF Undoable
    <2> QED BY <2>1, <2>2, <2>3, <2>4
  <1>3. \A v \in Subvolumes : Undoable(roots[v])'
    BY <1>2 DEF Undoable, HasSnapshot, CleanSnapshot
  <1> QED BY <1>1, <1>3 DEF StorageClean

\* Markers and repositories are not packages.
LEMMA PackagesKept ==
    ASSUME TypeInvariant, UNCHANGED mounted,
           \/ UNCHANGED roots \/ \E m : SetMarker(m) \/ \E o, l : SetRepositories(o, l)
    PROVE  Installed' = Installed
  <1>0. roots \in [Subvolumes -> Roots] /\ mounted \in Subvolumes /\ roots[mounted] \in Roots
    BY DEF TypeInvariant, StoragePart
  <1>1. ASSUME NEW m, SetMarker(m) PROVE Installed' = Installed
    BY <1>0, <1>1 DEF SetMarker, Installed, Roots
  <1>2. ASSUME NEW o, NEW l, SetRepositories(o, l) PROVE Installed' = Installed
    BY <1>0, <1>2 DEF SetRepositories, Installed, Roots
  <1> QED BY <1>1, <1>2 DEF Installed

\* The executor threads.  Download and BeginSnapshot are where op's packages
\* are known to be absent, RecordSnapshot is where the number is taken over.
LEMMA WorkerStepClean ==
    ASSUME TypeInvariant, LockInv, SnapshotInvariant,
           NEW w \in Workers, WorkerProgress(w) \/ WorkerDies(w)
    PROVE  SnapshotInvariant'
  <1> DEFINE op == worker[w].op
             mem == worker[w].mem
             pc0 == worker[w].pc
  <1>0. /\ pc0 # "idle" /\ op \in Ops /\ mem \in Records
        /\ CleanTarget(op, mem) /\ ThreadIsClean(worker[w]) /\ mode = "up"
    <2>1. pc0 # "idle"
      BY DEF WorkerProgress, WorkerDies, AcquireLock, LockBusy, Prepare, BeginDownload, Refresh,
         Download, BeginSnapshot, CreateSnapshot, RecordSnapshot, BeginApply, ZypperWrites,
         ZypperDone, FinishUpdate, StageMarker, FinishStaging, Fail, CheckCancelled,
         RecordFailure, Self, HoldsLock
    <2> QED BY <2>1 DEF TypeInvariant, WorkerPart, WorkerStates, SnapshotInvariant,
            WorkerClean, ThreadIsClean, QuietPart, RestPart
  <1>g. /\ UNCHANGED starts => KeepsStarts
        /\ UNCHANGED snapshots => Grows
    BY DEF KeepsStarts, Grows
  \* What is not the thread's own part.
  <1>r. ASSUME UNCHANGED <<mode, session, offline, verifier, basis, starts>>, Grows
        PROVE  /\ QuietPart' /\ SessionClean' /\ OfflineClean' /\ VerifierClean' /\ BasisClean'
               /\ UNCHANGED disk => DiskClean'
               /\ UNCHANGED <<roots, snapshots>> => StorageClean'
    BY <1>0, <1>r, <1>g, CleanFrame DEF QuietPart
  \* The thread moves on and leaves the packages and the snapshots alone.
  <1>m. ASSUME NEW pc, NEW r, Moved(w, pc, r), UNCHANGED <<snapshots, starts>>,
               Installed' = Installed, CleanTarget(op, r), pc # "number",
               pc \in {"snapshot", "create", "apply"} => Installed[op] = "old",
               pc \in {"stage", "ready", "apply", "zypper", "finish"} => r.snapshot_number # 0
        PROVE  WorkerClean'
    <2>1. starts'[op] # 0 /\ CleanTarget(op, r)'
      BY <1>0, <1>g, <1>m, CleanGrows DEF ThreadIsClean, Moved
    <2>2. ThreadIsClean(worker[w])'
      BY <1>m, <2>1 DEF Moved, ThreadIsClean
    <2> QED BY <1>g, <1>m, <2>2, ThreadMoves DEF Moved
  <1>i. ASSUME worker' = [worker EXCEPT ![w] = IdleWorker], UNCHANGED <<snapshots, starts>>,
               Installed' = Installed \/ lock = w
        PROVE  WorkerClean'
    <2>1. /\ worker'[w].pc = "idle" /\ \A v \in Workers \ {w} : worker'[v] = worker[v]
      BY <1>i DEF TypeInvariant, WorkerPart, IdleWorker
    <2> QED BY <1>g, <1>i, <2>1, ThreadMoves
  <1>in. UNCHANGED <<roots, mounted>> => Installed' = Installed
    BY DEF Installed
  <1>h. pc0 \in HoldsLock => lock = w
    BY DEF LockInv, WorkersHold
  <1>t. /\ \A st \in States : CleanTarget(op, TransitionTo(mem, st))
                              /\ TransitionTo(mem, st).snapshot_number = mem.snapshot_number
        /\ \A st \in States, code \in ErrorCodes : CleanTarget(op, Settle(mem, st, code))
    BY <1>0, TransitionType, SettleType DEF CleanTarget
  <1>p. ASSUME NEW next \in States, NEW pc, PersistTransition(w, next, pc),
               UNCHANGED <<roots, mounted, snapshots, starts>>, pc # "number",
               pc \in {"snapshot", "create", "apply"} => Installed[op] = "old",
               pc \in {"stage", "ready", "apply", "zypper", "finish"} => mem.snapshot_number # 0
        PROVE  DiskClean' /\ WorkerClean'
    <2> DEFINE r == TransitionTo(mem, next)
    <2>1. CleanTarget(op, r) /\ r.snapshot_number = mem.snapshot_number
      BY <1>t, <1>p
    <2>2. SaveState(op, r) /\ GotoWith(w, pc, r)
      BY <1>p DEF PersistTransition, Self
    <2> HIDE DEF r
    <2>3. Moved(w, pc, r)
      BY <2>2, WorkerFields
    <2> QED BY <1>0, <1>g, <1>in, <1>m, <1>p, <2>1, <2>2, <2>3, SaveClean
  <1>n. pc0 = "number" =>
            Numbered(w).snapshot_number # 0 /\ CleanTarget(op, Numbered(w))
    <2>1. Len(snapshots) \in Nat
      BY DEF TypeInvariant, StoragePart
    <2>2. Numbered(w).snapshot_number = Len(snapshots)
      BY <1>0, <2>1 DEF Numbered, Self, Records
    <2> QED BY <1>0, <2>1, <2>2 DEF ThreadIsClean, CleanTarget, TypeInvariant, WorkerPart
  \* zypper, the thread's or the one it leaves behind.
  <1>z. ASSUME NEW p, SetPackages(op, p), pc0 = "zypper", UNCHANGED <<snapshots, starts>>
        PROVE  StorageClean'
    <2>1. HasSnapshot(op)
      BY <1>0, <1>z DEF ThreadIsClean, CleanTarget, HasSnapshot, CleanSnapshot
    <2> QED BY <1>0, <1>z, <2>1, RootWrites
  <1> USE DEF SnapshotInvariant
  <1>1. CASE AcquireLock(w)
    BY <1>1, <1>0, <1>g, <1>r, <1>in, <1>m, WorkerFields
    DEF AcquireLock, Self, storage, files, platform, bounds, OnlyWorker
  <1>2. CASE LockBusy(w)
    BY <1>2, <1>0, <1>g, <1>r, <1>in, <1>m, WorkerFields
    DEF LockBusy, Self, storage, files, platform, bounds, OnlyWorker
  <1>3. CASE Prepare(w)
    BY <1>3, <1>0, <1>g, <1>r, <1>in, <1>m, WorkerFields
    DEF Prepare, Self, storage, files, platform, bounds, OnlyWorker
  <1>4. CASE BeginDownload(w)
    BY <1>4, <1>g, <1>r, <1>p
    DEF BeginDownload, States, Self, storage, files, platform, bounds, OnlyWorker
  <1>5. CASE Refresh(w)
    BY <1>5, <1>0, <1>g, <1>r, <1>in, <1>m, WorkerFields
    DEF Refresh, Self, storage, files, platform, bounds, OnlyWorker
  <1>6. CASE Download(w)
    <2>1. Installed[op] = "old"
      BY <1>0, <1>6 DEF Download, Self, PlanStillHolds, BasisClean
    <2> QED BY <1>6, <2>1, <1>0, <1>g, <1>r, <1>in, <1>m, WorkerFields
        DEF Download, Self, storage, files, platform, bounds, OnlyWorker
  <1>7. CASE BeginSnapshot(w)
    <2>1. Installed[op] = "old"
      BY <1>0, <1>7 DEF BeginSnapshot, Self, ThreadIsClean
    <2> QED BY <1>7, <2>1, <1>g, <1>r, <1>p
        DEF BeginSnapshot, States, storage, files, platform, bounds, OnlyWorker
  <1>8. CASE CreateSnapshot(w)
    <2> DEFINE e == [op |-> op, root |-> roots[mounted]]
    <2>0. Len(snapshots) \in Nat /\ snapshots \in Seq(Snapshots) /\ roots[mounted] \in Roots
      BY DEF TypeInvariant, StoragePart
    <2>1. e \in Snapshots /\ snapshots' = Append(snapshots, e)
      BY <1>0, <1>8, <2>0 DEF CreateSnapshot, Self, Snapshots
    <2>2. Grows /\ UNCHANGED <<roots, mounted, starts>>
      BY <1>8, <2>1 DEF Grows, CreateSnapshot, platform, bounds
    <2>3. Len(snapshots') = Len(snapshots) + 1 /\ snapshots'[Len(snapshots')] = e
      BY <2>0, <2>1
    <2>4. Installed[op] = "old" /\ lock = w
      BY <1>0, <1>8, <1>h DEF CreateSnapshot, Self, ThreadIsClean, HoldsLock
    <2>5. Moved(w, "number", mem)
      BY <1>8, WorkerFields DEF CreateSnapshot
    <2>6. CleanSnapshot(op, Len(snapshots))'
      BY <2>0, <2>1, <2>3, <2>4, <2>5 DEF CleanSnapshot, Installed, Moved
    <2>7. WorkerClean'
      <3>1. ThreadIsClean(worker[w])'
        BY <1>0, <2>2, <2>4, <2>5, <2>6, CleanGrows DEF Moved, ThreadIsClean, Installed
      <3> QED BY <1>g, <2>2, <2>4, <2>5, <3>1, ThreadMoves DEF Moved
    <2>8. StorageClean'
      <3>1. \A n \in DOMAIN snapshots' : n \in DOMAIN snapshots \/ snapshots'[n] = e
        BY <2>0, <2>1
      <3>2. Undoable(roots[mounted]) /\ starts'[op] # 0
        BY <1>0, <2>2 DEF StorageClean, TypeInvariant, StoragePart, ThreadIsClean
      <3>3. \A n \in DOMAIN snapshots : snapshots'[n] = snapshots[n]
        BY <2>2, CleanGrows
      <3>4. \A n \in DOMAIN snapshots' :
               Undoable(snapshots'[n].root) /\ starts'[snapshots'[n].op] # 0
        BY <2>2, <3>1, <3>2, <3>3 DEF StorageClean
      <3> QED BY <2>2, <3>4, CleanGrows DEF StorageClean
    <2>9. UNCHANGED <<mode, session, offline, verifier, basis, disk>>
      BY <1>8 DEF CreateSnapshot, files, platform, OnlyWorker
    <2> QED BY <1>r, <2>2, <2>7, <2>8, <2>9
  <1>9. CASE RecordSnapshot(w)
    <2>1. PICK pc \in {"stage", "apply"} : GotoWith(w, pc, Numbered(w))
      BY <1>9 DEF RecordSnapshot
    <2>2. SaveState(op, Numbered(w)) /\ pc0 = "number" /\ Installed[op] = "old"
      BY <1>0, <1>9 DEF RecordSnapshot, Self, ThreadIsClean
    <2>3. DiskClean' /\ WorkerClean'
      BY <1>0, <1>9, <1>g, <1>in, <1>m, <1>n, <2>1, <2>2, SaveClean, WorkerFields
      DEF RecordSnapshot, storage, platform, bounds
    <2> QED BY <1>9, <1>g, <1>r, <2>3
        DEF RecordSnapshot, storage, files, platform, bounds, OnlyWorker
  <1>10. CASE BeginApply(w)
    <2>1. mem.snapshot_number # 0
      BY <1>0, <1>10 DEF BeginApply, Self, ThreadIsClean
    <2> QED BY <1>10, <2>1, <1>g, <1>r, <1>p
        DEF BeginApply, States, storage, files, platform, bounds, OnlyWorker
  <1>11. CASE ZypperWrites(w)
    <2>1. lock = w /\ pc0 = "zypper"
      BY <1>11, <1>h DEF ZypperWrites, Self, HoldsLock
    <2>2. UNCHANGED <<snapshots, starts, worker>>
      BY <1>11 DEF ZypperWrites, bounds, processes
    <2>3. WorkerClean'
      <3>1. ThreadIsClean(worker[w])'
        BY <1>0, <2>1, <2>2, CleanGrows DEF ThreadIsClean, Grows
      <3> QED BY <1>g, <2>1, <2>2, <3>1, ThreadMoves
    <2> QED BY <1>11, <1>g, <1>r, <1>z, <2>1, <2>2, <2>3
        DEF ZypperWrites, Self, files, platform, processes
  <1>12. CASE ZypperDone(w)
    <2>1. lock = w /\ pc0 = "zypper" /\ Moved(w, "finish", mem)
      BY <1>12, <1>h, WorkerFields DEF ZypperDone, Self, HoldsLock
    <2>2. UNCHANGED <<snapshots, starts>>
      BY <1>12 DEF ZypperDone, bounds
    <2>3. WorkerClean'
      <3>1. ThreadIsClean(worker[w])'
        BY <1>0, <2>1, <2>2, CleanGrows DEF Moved, ThreadIsClean, Grows
      <3> QED BY <1>g, <2>1, <2>2, <3>1, ThreadMoves DEF Moved
    <2> QED BY <1>12, <1>g, <1>r, <1>z, <2>1, <2>2, <2>3
        DEF ZypperDone, Self, files, platform, OnlyWorker
  <1>13. CASE FinishUpdate(w)
    BY <1>13, <1>0, <1>g, <1>r, <1>in, <1>i, <1>t, SaveClean
    DEF FinishUpdate, States, Self, storage, files, platform, bounds, OnlyWorker
  <1>14. CASE StageMarker(w)
    <2>1. mem.snapshot_number # 0 /\ Moved(w, "ready", mem)
      BY <1>0, <1>14, WorkerFields DEF StageMarker, Self, ThreadIsClean
    <2>2. HasSnapshot(op)
      BY <1>0, <2>1 DEF CleanTarget, HasSnapshot, CleanSnapshot
    <2>3. UNCHANGED <<snapshots, starts, mounted>> /\ SetMarker(op)
      BY <1>14 DEF StageMarker, Self, platform, bounds
    <2>4. StorageClean' /\ Installed' = Installed
      BY <1>0, <2>2, <2>3, RootWrites, PackagesKept
    <2> QED BY <1>14, <1>0, <1>g, <1>r, <1>m, <2>1, <2>3, <2>4
        DEF StageMarker, files, platform, OnlyWorker
  <1>15. CASE FinishStaging(w)
    BY <1>15, <1>0, <1>g, <1>r, <1>in, <1>i, <1>t, SaveClean
    DEF FinishStaging, States, Self, storage, files, platform, bounds, OnlyWorker
  <1>16. CASE Fail(w)
    <2>1. PICK b \in Errors, r \in InMemory(w) :
             worker' = [worker EXCEPT ![w].pc = "failed", ![w].mem = r, ![w].error = b]
      BY <1>16 DEF Fail
    <2>2. CleanTarget(op, [mem EXCEPT !.sequence = SaturatingSuccessor(@)])
      <3>1. [mem EXCEPT !.sequence = SaturatingSuccessor(@)].snapshot_number = mem.snapshot_number
        BY <1>0, Zenon DEF Records
      <3> QED BY <1>0, <3>1 DEF CleanTarget
    <2>3. CleanTarget(op, r)
      BY <1>0, <1>n, <2>2 DEF InMemory, Self
    <2>4. Moved(w, "failed", r)
      BY <2>1, WorkerFields
    <2> QED BY <1>16, <1>g, <1>r, <1>in, <1>m, <2>3, <2>4
        DEF Fail, storage, files, platform, bounds, OnlyWorker
  <1>17. CASE CheckCancelled(w)
    BY <1>17, <1>0, <1>g, <1>r, <1>in, <1>i, <1>m, WorkerFields
    DEF CheckCancelled, Self, storage, files, platform, bounds, OnlyWorker
  <1>18. CASE RecordFailure(w)
    <2>1. PICK st \in States, code \in ErrorCodes : SaveState(op, Settle(mem, st, code))
      BY <1>18 DEF RecordFailure, Self, States, ErrorCodes, FailureState
    <2> QED BY <1>18, <1>0, <1>g, <1>r, <1>in, <1>i, <1>t, <2>1, SaveClean
        DEF RecordFailure, storage, files, platform, bounds, OnlyWorker
  <1>19. CASE WorkerDies(w)
    <2>1. UNCHANGED <<disk, mode, mounted, session, offline, verifier, basis, starts, snapshots>>
      BY <1>19 DEF WorkerDies, CountCrash, files, platform, OnlyWorker
    <2>2. CASE UNCHANGED roots
      BY <1>19, <1>g, <1>r, <1>in, <1>i, <2>1, <2>2 DEF WorkerDies
    <2>3. CASE pc0 = "zypper" /\ \E p \in {"partial", "new"} : SetPackages(op, p)
      BY <1>19, <1>g, <1>r, <1>h, <1>i, <1>z, <2>1, <2>3 DEF WorkerDies, HoldsLock
    <2> QED BY <1>19, <2>2, <2>3 DEF WorkerDies, Self
  <1> QED
    BY <1>1, <1>2, <1>3, <1>4, <1>5, <1>6, <1>7, <1>8, <1>9, <1>10, <1>11, <1>12,
       <1>13, <1>14, <1>15, <1>16, <1>17, <1>18, <1>19 DEF WorkerProgress

-----------------------------------------------------------------------------
(* The request handlers.                                                   *)

Served(s, pc, op, r) ==
    /\ session'[s].pc = pc /\ session'[s].op = op /\ session'[s].mem = r
    /\ \A t \in Sessions \ {s} : session'[t] = session[t]

\* What Serve, Continue and Reply do to the fields of a request.
LEMMA SessionFields ==
    ASSUME TypeInvariant, NEW s \in Sessions, NEW pc, NEW op, NEW r
    PROVE  /\ Serve(s, pc, op, r) => Served(s, pc, op, r)
           /\ Continue(s, pc) => Served(s, pc, session[s].op, session[s].mem)
           /\ Reply(s) => Served(s, "idle", NoOp, AbsentRecord)
  <1>0. session \in [Sessions -> SessionStates] /\ session[s] \in SessionStates
    BY DEF TypeInvariant, SessionPart
  <1>1. Serve(s, pc, op, r) => Served(s, pc, op, r)
    BY <1>0 DEF Serve, Served
  <1>2. Continue(s, pc) => Served(s, pc, session[s].op, session[s].mem)
    BY <1>0 DEF Continue, Served, SessionStates
  <1>3. Reply(s) => Served(s, "idle", NoOp, AbsentRecord)
    BY <1>0 DEF Reply, Served, IdleSession
  <1> QED BY <1>1, <1>2, <1>3

\* The request handlers.  StartNew fixes the plan on a system without the
\* packages; SelectClone brings back a root that was itself undoable.
LEMMA SessionStepClean ==
    ASSUME TypeInvariant, LockInv, SnapshotInvariant, NEW s \in Sessions,
           SessionRequest(s) \/ SessionProgress(s) \/ SessionDies(s)
    PROVE  SnapshotInvariant'
  <1> DEFINE op == session[s].op
             mem == session[s].mem
             pc0 == session[s].pc
  <1>0. /\ mem \in Records
        /\ pc0 # "idle" => op \in Ops /\ CleanTarget(op, mem) /\ RequestIsClean(session[s])
    BY DEF TypeInvariant, SessionPart, SessionStates, SnapshotInvariant, SessionClean,
       RequestIsClean
  <1>u. mode = "up"
    <2>1. pc0 # "idle" => mode = "up"
      BY DEF SnapshotInvariant, QuietPart
    <2> QED BY <2>1 DEF SessionRequest, SessionProgress, SessionDies, StartNew, StartOwned, Cancel,
            KeepCurrent, Rollback, Accepting, SaveInitial, SavePendingPlan, SaveOwner,
            OwnerExists, Spawn, RejectStart, HistoryUnusable, SaveCancelled, SaveDeclined,
            SaveIntent, RejectRollback, SelectClone, SaveScheduled, RollbackFails, Request
  <1>d. \A o \in Ops : CleanTarget(o, disk[o]) /\ disk[o] \in Records
    BY DEF TypeInvariant, DiskPart, SnapshotInvariant, DiskClean
  <1>a. \A o : CleanTarget(o, AbsentRecord) /\ CleanTarget(o, InitialRecord)
    BY ConstantRecords DEF CleanTarget
  <1>g. /\ UNCHANGED starts => KeepsStarts
        /\ UNCHANGED snapshots => Grows
    BY DEF KeepsStarts, Grows
  <1>in. UNCHANGED <<roots, mounted>> => Installed' = Installed
    BY DEF Installed
  \* What is not the request's own part.
  <1>r. ASSUME UNCHANGED <<mode, offline, verifier, snapshots>>, KeepsStarts
        PROVE  /\ QuietPart' /\ OfflineClean' /\ VerifierClean'
               /\ UNCHANGED disk => DiskClean'
               /\ UNCHANGED basis => BasisClean'
               /\ UNCHANGED roots => StorageClean'
               /\ UNCHANGED <<roots, mounted, worker>> => WorkerClean'
    BY <1>g, <1>in, <1>r, <1>u, CleanFrame DEF QuietPart
  \* The request moves on.
  <1>m. ASSUME NEW pc, NEW o, NEW r, Served(s, pc, o, r), UNCHANGED snapshots, KeepsStarts,
               pc # "idle" => CleanTarget(o, r),
               pc \in {"create", "plan", "owner", "spawn"} => starts'[o] # 0
        PROVE  SessionClean'
    <2>1. pc # "idle" => CleanTarget(o, r)'
      BY <1>g, <1>m, CleanGrows
    <2>2. pc # "idle" => RequestIsClean(session[s])'
      BY <1>m, <2>1 DEF Served, RequestIsClean
    <2>3. \A t \in Sessions \ {s} : session[t].pc # "idle" => RequestIsClean(session[t])'
      BY <1>g, <1>m, CleanGrows
      DEF Served, RequestIsClean, SnapshotInvariant, SessionClean, KeepsStarts, TypeInvariant, SessionPart
    <2> QED BY <1>m, <2>2, <2>3 DEF Served, SessionClean
  <1>i. ASSUME Reply(s), UNCHANGED snapshots, KeepsStarts PROVE SessionClean'
    BY <1>i, <1>m, SessionFields
  <1>c. ASSUME NEW pc, Continue(s, pc), pc0 # "idle", UNCHANGED <<snapshots, starts>>,
               pc \in {"create", "plan", "owner", "spawn"}
                   => pc0 \in {"create", "plan", "owner", "spawn"}
        PROVE  SessionClean'
    <2>1. Served(s, pc, op, mem)
      BY <1>c, SessionFields
    <2> QED BY <1>0, <1>c, <1>g, <1>m, <2>1 DEF RequestIsClean
  <1>t. \A st \in States, code \in ErrorCodes :
            /\ Settle(mem, st, code) \in Records
            /\ Settle(mem, st, code).snapshot_number = mem.snapshot_number
    BY <1>0, SettleType
  <1>sv. ASSUME NEW st \in States, NEW code \in ErrorCodes, pc0 # "idle", UNCHANGED snapshots,
                SaveState(op, Settle(mem, st, code))
         PROVE  DiskClean'
    BY <1>0, <1>g, <1>t, <1>sv, SaveClean DEF CleanTarget
  <1>sch. Scheduled(s) \in Records /\ Scheduled(s).snapshot_number = mem.snapshot_number
    <2> DEFINE q == Settle(mem, "AwaitingReboot", "None")
    <2>1. q \in Records /\ q.snapshot_number = mem.snapshot_number
      BY <1>t DEF States, ErrorCodes
    <2>2. default \in Nat
      BY MachineAssumption DEF TypeInvariant, StoragePart, Subvolumes
    <2>3. Scheduled(s) = [q EXCEPT !.boot_snapshot = default]
      BY DEF Scheduled, Request
    <2> HIDE DEF q
    <2> QED BY <2>1, <2>2, <2>3 DEF Records
  <1> USE DEF SnapshotInvariant
  <1>1. ASSUME NEW o \in Ops, StartNew(s, o) PROVE SnapshotInvariant'
    <2>1. KeepsStarts /\ starts'[o] # 0 /\ UNCHANGED <<mode, mounted, offline, verifier, worker, disk, roots, snapshots>>
      BY <1>1 DEF StartNew, CountStart, KeepsStarts, TypeInvariant, RestPart, storage, platform,
         OnlySession
    <2>2. Installed[o] = "old"
      <3>1. CASE starts[o] = 0
        <4>1. ~HasSnapshot(o)
          BY <3>1 DEF HasSnapshot, CleanSnapshot, StorageClean
        <4> QED BY <4>1 DEF StorageClean, Undoable, Installed, TypeInvariant, StoragePart
      <3>2. CASE PlanStillHolds(o)
        BY <3>2 DEF PlanStillHolds, BasisClean
      <3> QED BY <1>1, <3>1, <3>2 DEF StartNew
    <2>3. BasisClean'
      BY <1>1, <2>2 DEF StartNew, BasisClean, TypeInvariant, FilesPart
    <2>4. SessionClean'
      BY <1>1, <1>a, <1>m, <2>1, SessionFields DEF StartNew
    <2> QED BY <1>r, <2>1, <2>3, <2>4
  <1>2. CASE SaveInitial(s)
    <2>1. DiskClean'
      BY <1>2, <1>0, <1>a, <1>g, SaveClean DEF SaveInitial, Request, storage
    <2> QED BY <1>2, <1>c, <1>g, <1>r, <2>1
        DEF SaveInitial, Request, storage, files, platform, OnlySession, bounds
  <1>3. CASE SavePendingPlan(s)
    BY <1>3, <1>c, <1>g, <1>r
    DEF SavePendingPlan, Request, storage, files, platform, OnlySession, bounds
  <1>4. CASE SaveOwner(s)
    BY <1>4, <1>c, <1>g, <1>r
    DEF SaveOwner, Request, storage, files, platform, OnlySession, bounds
  <1>5. CASE OwnerExists(s)
    BY <1>5, <1>i, <1>g, <1>r
    DEF OwnerExists, storage, files, platform, OnlySession, bounds
  <1>6. ASSUME NEW o \in Ops, StartOwned(s, o) PROVE SnapshotInvariant'
    <2>1. KeepsStarts /\ starts'[o] # 0
      BY <1>6 DEF StartOwned, CountStart, KeepsStarts, TypeInvariant, RestPart
    <2> QED BY <1>6, <1>a, <1>m, <1>r, <2>1, SessionFields
        DEF StartOwned, storage, files, platform, OnlySession
  <1>7. CASE Spawn(s)
    <2>1. PICK w \in Workers :
            worker' = [worker EXCEPT ![w] =
                [pc |-> "acquire", op |-> op, mem |-> disk[op], error |-> "plain"]]
      BY <1>7 DEF Spawn, Request
    <2>2. /\ worker'[w].pc = "acquire" /\ worker'[w].op = op /\ worker'[w].mem = disk[op]
          /\ \A v \in Workers \ {w} : worker'[v] = worker[v]
      BY <2>1 DEF TypeInvariant, WorkerPart
    <2>3. op \in Ops /\ starts[op] # 0
      BY <1>0, <1>7 DEF Spawn, Request, RequestIsClean
    <2>4. UNCHANGED <<roots, mounted, snapshots, starts>>
      BY <1>7 DEF Spawn, storage, platform, bounds
    <2>5. ThreadIsClean(worker[w])'
      BY <1>d, <1>g, <2>2, <2>3, <2>4, CleanGrows DEF ThreadIsClean
    <2>6. WorkerClean'
      BY <1>g, <1>in, <2>2, <2>4, <2>5, ThreadMoves
    <2> QED BY <1>7, <1>i, <1>g, <1>r, <2>6
        DEF Spawn, storage, files, platform, bounds
  <1>8. CASE RejectStart(s)
    BY <1>8, <1>i, <1>g, <1>r
    DEF RejectStart, storage, files, platform, OnlySession, bounds
  <1>9. CASE HistoryUnusable(s)
    BY <1>9, <1>i, <1>g, <1>r
    DEF HistoryUnusable, storage, files, platform, OnlySession, bounds
  <1>10. ASSUME NEW o \in Ops, Cancel(s, o) PROVE SnapshotInvariant'
    BY <1>10, <1>d, <1>g, <1>m, <1>r, SessionFields
    DEF Cancel, CountRequest, storage, files, platform, OnlySession
  <1>11. CASE SaveCancelled(s)
    BY <1>11, <1>i, <1>g, <1>r, <1>sv
    DEF SaveCancelled, Request, States, ErrorCodes, storage, files, platform, OnlySession, bounds
  <1>12. ASSUME NEW o \in Ops, KeepCurrent(s, o) PROVE SnapshotInvariant'
    BY <1>12, <1>d, <1>g, <1>m, <1>r, SessionFields
    DEF KeepCurrent, CountRequest, storage, files, platform, OnlySession
  <1>13. CASE SaveDeclined(s)
    BY <1>13, <1>i, <1>g, <1>r, <1>sv
    DEF SaveDeclined, Request, States, ErrorCodes, storage, files, platform, OnlySession, bounds
  <1>14. ASSUME NEW o \in Ops, Rollback(s, o) PROVE SnapshotInvariant'
    BY <1>14, <1>d, <1>g, <1>m, <1>r, SessionFields
    DEF Rollback, CountRequest, storage, files, platform, OnlySession
  <1>15. CASE SaveIntent(s)
    <2> DEFINE r == [mem EXCEPT !.goal = TRUE, !.boot_snapshot = 0,
                                !.sequence = SaturatingSuccessor(@)]
    <2>1. r.snapshot_number = mem.snapshot_number
      BY <1>0, Zenon DEF Records
    <2>2. CleanTarget(op, r) /\ op \in Ops
      BY <1>0, <1>15, <2>1 DEF CleanTarget, SaveIntent, Request
    <2>3. SaveState(op, r) /\ Serve(s, "rollback", op, r)
      BY <1>15 DEF SaveIntent, Request
    <2> HIDE DEF r
    <2>4. UNCHANGED <<starts, snapshots>>
      BY <1>15 DEF SaveIntent, storage, bounds
    <2>5. DiskClean' /\ SessionClean'
      BY <1>g, <1>m, <2>2, <2>3, <2>4, SaveClean, SessionFields
    <2> QED BY <1>15, <1>g, <1>r, <2>5
        DEF SaveIntent, storage, files, platform, OnlySession, bounds
  <1>16. CASE RejectRollback(s)
    BY <1>16, <1>i, <1>g, <1>r
    DEF RejectRollback, storage, files, platform, OnlySession, bounds
  <1>17. CASE SelectClone(s)
    <2> DEFINE n == mem.snapshot_number
    <2>1. pc0 = "rollback" /\ n # 0 /\ lock = s
      BY <1>17 DEF SelectClone, Request, TypeInvariant, SessionPart, LockInv, SessionsHold
    <2>2. n \in DOMAIN snapshots
      BY <1>0, <2>1 DEF CleanTarget, CleanSnapshot
    <2>3. UNCHANGED <<snapshots, starts, worker>>
      BY <1>17 DEF SelectClone, OnlySession, bounds
    <2>4. \A v \in Subvolumes : roots'[v] \in {roots[v], snapshots[n].root}
      BY <1>17 DEF SelectClone, Request, TypeInvariant, StoragePart
    <2>5. StorageClean'
      <3>1. \A v \in Subvolumes : Undoable(roots'[v])
        BY <2>2, <2>4 DEF StorageClean
      <3> QED BY <1>g, <2>3, <3>1, CleanGrows DEF StorageClean
    <2>6. WorkerClean'
      <3> SUFFICES ASSUME NEW w \in Workers, worker[w].pc # "idle"
                   PROVE  ThreadIsClean(worker[w])'
        BY <2>3 DEF WorkerClean
      <3>1. worker[w].pc \notin HoldsLock
        BY <2>1, MachineAssumption DEF LockInv, WorkersHold
      <3>2. ThreadIsClean(worker[w])
        BY DEF WorkerClean
      <3> QED BY <1>g, <2>3, <3>1, <3>2, CleanGrows DEF ThreadIsClean, HoldsLock
    <2> QED BY <1>17, <1>c, <1>g, <1>r, <2>3, <2>5, <2>6
        DEF SelectClone, Request, files, platform, OnlySession, bounds
  <1>18. CASE SaveScheduled(s)
    <2>1. DiskClean'
      BY <1>18, <1>0, <1>g, <1>sch, SaveClean DEF CleanTarget, SaveScheduled, Request, storage
    <2> QED BY <1>18, <1>i, <1>g, <1>r, <2>1
        DEF SaveScheduled, storage, files, platform, OnlySession, bounds
  <1>19. CASE RollbackFails(s)
    <2>1. PICK r \in {mem, Scheduled(s)} :
             SaveState(op, Settle(r, "NeedsRecovery", "ROLLBACK_FAILED"))
      BY <1>19 DEF RollbackFails, Request
    <2>2. Settle(r, "NeedsRecovery", "ROLLBACK_FAILED").snapshot_number = mem.snapshot_number
      BY <1>0, <1>sch, SettleType DEF States, ErrorCodes
    <2>3. pc0 # "idle" /\ UNCHANGED snapshots
      BY <1>19 DEF RollbackFails, Request, storage
    <2>4. DiskClean'
      BY <1>0, <1>g, <2>1, <2>2, <2>3, SaveClean DEF CleanTarget
    <2> QED BY <1>19, <1>i, <1>g, <1>r, <2>4
        DEF RollbackFails, storage, files, platform, OnlySession, bounds
  <1>20. CASE SessionDies(s)
    BY <1>20, <1>i, <1>g, <1>r
    DEF SessionDies, CountCrash, storage, files, platform, OnlySession
  <1> QED
    BY <1>1, <1>2, <1>3, <1>4, <1>5, <1>6, <1>7, <1>8, <1>9, <1>10, <1>11, <1>12, <1>13,
       <1>14, <1>15, <1>16, <1>17, <1>18, <1>19, <1>20 DEF SessionRequest, SessionProgress

-----------------------------------------------------------------------------
(* The offline worker and the verifier.                                    *)

\* What the updates of the offline worker do to its fields.
LEMMA OfflineFields ==
    ASSUME TypeInvariant, NEW pc, NEW r
    PROVE  /\ OfflineGoto(pc) =>
                 offline'.pc = pc /\ offline'.op = offline.op /\ offline'.mem = offline.mem
           /\ offline' = [offline EXCEPT !.pc = pc, !.mem = r] =>
                 offline'.pc = pc /\ offline'.op = offline.op /\ offline'.mem = r
  <1>0. offline \in OfflineStates
    BY DEF TypeInvariant, OfflinePart
  <1>1. /\ [offline EXCEPT !.pc = pc].pc = pc /\ [offline EXCEPT !.pc = pc].op = offline.op
        /\ [offline EXCEPT !.pc = pc].mem = offline.mem
    BY <1>0, Zenon DEF OfflineStates
  <1>2. /\ [offline EXCEPT !.pc = pc, !.mem = r].pc = pc
        /\ [offline EXCEPT !.pc = pc, !.mem = r].op = offline.op
        /\ [offline EXCEPT !.pc = pc, !.mem = r].mem = r
    BY <1>0, Zenon DEF OfflineStates
  <1> QED BY <1>1, <1>2 DEF OfflineGoto

\* The offline worker.  It carries the number from LoadStaged to zypper.
LEMMA OfflineStepClean ==
    ASSUME TypeInvariant, LockInv, SnapshotInvariant, OfflineProgress
    PROVE  SnapshotInvariant'
  <1> DEFINE op == offline.op
             mem == offline.mem
             Busy == offline.pc \notin {"idle", "resolve", "stopped", "stranded"}
  <1>0. /\ mode = "offline" /\ mem \in Records
        /\ Busy => op \in Ops /\ CleanTarget(op, mem)
    BY DEF OfflineProgress, Resolve, LoadStaged, Revalidate, OfflineZypperWrites,
       OfflineZypperDone, MoveRepositoriesAway, InstallRepositories, SwapFails, PersistApplied,
       RemoveMarker, OfflineFails, MarkRecovery, RecoveryRefused, OfflineReboot, RebootFails,
       RebootRefused, SystemUpdateCleanup, OfflineAt, TypeInvariant, OfflinePart, OfflineStates,
       SnapshotInvariant, OfflineClean
  <1>q. /\ \A w \in Workers : worker[w].pc = "idle"
        /\ \A s \in Sessions : session[s].pc = "idle"
    BY <1>0 DEF SnapshotInvariant, QuietPart
  <1>d. \A o \in Ops : CleanTarget(o, disk[o]) /\ disk[o] \in Records
    BY DEF TypeInvariant, DiskPart, SnapshotInvariant, DiskClean
  <1>g. /\ UNCHANGED starts => KeepsStarts
        /\ UNCHANGED snapshots => Grows
    BY DEF KeepsStarts, Grows
  \* What is not the worker's own part.
  <1>r. ASSUME UNCHANGED <<worker, session, verifier, basis, starts, snapshots>>
        PROVE  /\ QuietPart' /\ WorkerClean' /\ SessionClean' /\ VerifierClean' /\ BasisClean'
               /\ UNCHANGED disk => DiskClean'
               /\ UNCHANGED roots => StorageClean'
    <2>1. QuietPart' /\ WorkerClean'
      BY <1>q, <1>r DEF QuietPart, WorkerClean
    <2> QED BY <1>g, <1>r, <2>1, CleanFrame
  \* The worker moves on.
  <1>m. ASSUME NEW pc, OfflineGoto(pc), Busy, UNCHANGED snapshots,
               pc \in {"revalidate", "zypper"} => mem.snapshot_number # 0
        PROVE  OfflineClean'
    <2>1. CleanTarget(op, mem)'
      BY <1>0, <1>g, <1>m, CleanGrows, OfflineFields
    <2> QED BY <1>m, <2>1, OfflineFields DEF OfflineClean
  <1>e. ASSUME NEW pc, NEW r, offline' = [offline EXCEPT !.pc = pc, !.mem = r], Busy,
               CleanTarget(op, r), UNCHANGED snapshots,
               pc \in {"revalidate", "zypper"} => r.snapshot_number # 0
        PROVE  OfflineClean'
    <2>0. /\ offline'.pc = pc /\ offline'.op = op /\ offline'.mem = r
      BY <1>e, OfflineFields
    <2>1. CleanTarget(op, r)'
      BY <1>g, <1>e, <2>0, CleanGrows
    <2> QED BY <1>e, <2>0, <2>1 DEF OfflineClean
  <1>i. offline'.pc \in {"idle", "stopped", "stranded"} => OfflineClean'
    BY DEF OfflineClean
  <1>id. offline' = IdleOffline => OfflineClean'
    BY <1>i DEF IdleOffline
  <1>st. OfflineGoto("stopped") \/ OfflineGoto("stranded") => OfflineClean'
    BY <1>i, OfflineFields
  <1>z. ASSUME NEW p, SetPackages(op, p), offline.pc = "zypper", UNCHANGED <<snapshots, starts>>
        PROVE  StorageClean'
    <2>1. HasSnapshot(op) /\ op \in Ops
      BY <1>0, <1>z DEF SnapshotInvariant, OfflineClean, CleanTarget, HasSnapshot, CleanSnapshot
    <2> QED BY <1>z, <2>1, RootWrites
  <1>w. ASSUME UNCHANGED <<snapshots, starts>>,
               SetMarker(NoOp) \/ \E x, l : SetRepositories(x, l)
        PROVE  StorageClean'
    BY <1>w, RootWrites
  <1> USE DEF SnapshotInvariant
  <1>1. CASE Resolve
    <2>1. CASE Marker \in Ops
      <3>1. offline' = [pc |-> "load", op |-> Marker, mem |-> AbsentRecord]
        BY <1>1, <2>1 DEF Resolve
      <3>2. OfflineClean'
        BY <3>1, ConstantRecords DEF OfflineClean, CleanTarget
      <3> QED BY <1>1, <1>r, <3>2 DEF Resolve, files, storage, OnlyOffline, bounds
    <2>2. CASE Marker \notin Ops
      <3>1. OfflineClean'
        BY <1>1, <1>i, <2>2 DEF Resolve, IdleOffline
      <3> QED BY <1>1, <1>r, <3>1 DEF Resolve, files, storage, OnlyOffline, bounds
    <2> QED BY <2>1, <2>2
  <1>2. CASE LoadStaged
    <2> DEFINE r == TransitionTo(disk[op], "ApplyingOffline")
    <2>1. Busy /\ op \in Ops
      BY <1>0, <1>2 DEF LoadStaged, OfflineAt
    <2>2. r.snapshot_number = disk[op].snapshot_number
      BY <1>d, <2>1, TransitionType DEF States
    <2>3. CleanTarget(op, r) /\ r.snapshot_number # 0
      BY <1>2, <1>d, <2>1, <2>2 DEF LoadStaged, CleanTarget
    <2>4. SaveState(op, r) /\ offline' = [offline EXCEPT !.pc = "revalidate", !.mem = r]
      BY <1>2 DEF LoadStaged
    <2> HIDE DEF r
    <2>5. UNCHANGED snapshots
      BY <1>2 DEF LoadStaged, storage
    <2>6. DiskClean' /\ OfflineClean'
      BY <1>g, <1>e, <2>1, <2>3, <2>4, <2>5, SaveClean
    <2> QED BY <1>2, <1>r, <2>6 DEF LoadStaged, files, storage, OnlyOffline, bounds
  <1>3. CASE Revalidate
    <2>1. mem.snapshot_number # 0
      BY <1>3 DEF Revalidate, OfflineAt, OfflineClean
    <2> QED BY <1>3, <1>m, <1>r, <2>1 DEF Revalidate, OfflineAt, files, storage, OnlyOffline, bounds
  <1>4. CASE OfflineZypperWrites
    <2>1. StorageClean'
      BY <1>4, <1>z DEF OfflineZypperWrites, OfflineAt, bounds
    <2>2. OfflineClean'
      BY <1>4, <1>g, CleanFrame DEF OfflineZypperWrites, processes, bounds
    <2> QED BY <1>4, <1>r, <2>1, <2>2 DEF OfflineZypperWrites, files, processes, bounds
  <1>5. CASE OfflineZypperDone
    <2>1. StorageClean'
      BY <1>5, <1>z DEF OfflineZypperDone, OfflineAt, bounds
    <2>2. PICK pc \in {"repositories", "finish"} : OfflineGoto(pc)
      BY <1>5 DEF OfflineZypperDone
    <2>3. OfflineClean'
      BY <1>5, <1>m, <2>2 DEF OfflineZypperDone, OfflineAt
    <2> QED BY <1>5, <1>r, <2>1, <2>3 DEF OfflineZypperDone, files, OnlyOffline, bounds
  <1>6. CASE MoveRepositoriesAway
    BY <1>6, <1>0, <1>m, <1>r, <1>w
    DEF MoveRepositoriesAway, OfflineAt, files, OnlyOffline, bounds
  <1>7. CASE InstallRepositories
    BY <1>7, <1>0, <1>m, <1>r, <1>w
    DEF InstallRepositories, OfflineAt, files, OnlyOffline, bounds
  <1>8. CASE SwapFails
    BY <1>8, <1>0, <1>m, <1>r, <1>w
    DEF SwapFails, OfflineAt, files, OnlyOffline, bounds
  <1>9. CASE PersistApplied
    <2> DEFINE r == TransitionTo(mem, "AwaitingReboot")
    <2>1. Busy /\ op \in Ops
      BY <1>0, <1>9 DEF PersistApplied, OfflineAt
    <2>2. CleanTarget(op, r)
      BY <1>0, <2>1, TransitionType DEF CleanTarget, States
    <2>3. SaveState(op, r) /\ offline' = [offline EXCEPT !.pc = "unmark", !.mem = r]
      BY <1>9 DEF PersistApplied
    <2> HIDE DEF r
    <2>4. UNCHANGED snapshots
      BY <1>9 DEF PersistApplied, storage
    <2>5. DiskClean' /\ OfflineClean'
      BY <1>g, <1>e, <2>1, <2>2, <2>3, <2>4, SaveClean
    <2> QED BY <1>9, <1>r, <2>5 DEF PersistApplied, files, storage, OnlyOffline, bounds
  <1>10. CASE RemoveMarker
    BY <1>10, <1>0, <1>m, <1>r, <1>w
    DEF RemoveMarker, OfflineAt, files, OnlyOffline, bounds
  <1>11. CASE OfflineFails
    BY <1>11, <1>0, <1>m, <1>r
    DEF OfflineFails, OfflineAt, files, storage, OnlyOffline, bounds
  <1>12. CASE MarkRecovery
    <2>1. Busy /\ op \in Ops
      BY <1>0, <1>12 DEF MarkRecovery, OfflineAt
    <2>2. CleanTarget(op, Settle(disk[op], "NeedsRecovery", "OFFLINE_APPLY_FAILED"))
      BY <1>d, <2>1, SettleType DEF CleanTarget, States, ErrorCodes
    <2>3. DiskClean'
      BY <1>12, <1>g, <2>1, <2>2, SaveClean DEF MarkRecovery, storage
    <2> QED BY <1>12, <1>m, <1>r, <2>1, <2>3
        DEF MarkRecovery, files, storage, OnlyOffline, bounds
  <1>13. CASE RecoveryRefused
    BY <1>13, <1>r, <1>st DEF RecoveryRefused, files, storage, OnlyOffline, bounds
  <1>14. CASE OfflineReboot
    BY <1>14, <1>r, <1>id DEF OfflineReboot, files, storage, OnlyOffline, bounds
  <1>15. CASE RebootFails \/ RebootRefused
    BY <1>15, <1>r, <1>st DEF RebootFails, RebootRefused, files, storage, OnlyOffline, bounds
  <1>16. CASE SystemUpdateCleanup
    BY <1>16, <1>r, <1>id, <1>w DEF SystemUpdateCleanup, files, OnlyOffline, bounds
  <1> QED
    BY <1>1, <1>2, <1>3, <1>4, <1>5, <1>6, <1>7, <1>8, <1>9, <1>10, <1>11, <1>12,
       <1>13, <1>14, <1>15, <1>16 DEF OfflineProgress

\* What the updates of the verifier do to its fields.
LEMMA VerifierFields ==
    ASSUME TypeInvariant, NEW pc, NEW r
    PROVE  /\ verifier' = [verifier EXCEPT !.pc = pc] =>
                 /\ verifier'.pc = pc /\ verifier'.op = verifier.op
                 /\ verifier'.mem = verifier.mem /\ verifier'.scanned = verifier.scanned
           /\ verifier' = [verifier EXCEPT !.pc = pc, !.mem = r] =>
                 /\ verifier'.pc = pc /\ verifier'.op = verifier.op
                 /\ verifier'.mem = r /\ verifier'.scanned = verifier.scanned
           /\ VerifierExit => verifier'.pc = "idle" /\ verifier'.op = NoOp
           /\ VerifierExit => \A o \in Ops : verifier'.scanned[o] = AbsentRecord
  <1>0. verifier \in VerifierStates
    BY DEF TypeInvariant, VerifierPart
  <1>1. LET st == [verifier EXCEPT !.pc = pc]
        IN  /\ st.pc = pc /\ st.op = verifier.op
            /\ st.mem = verifier.mem /\ st.scanned = verifier.scanned
    BY <1>0, Zenon DEF VerifierStates
  <1>2. LET st == [verifier EXCEPT !.pc = pc, !.mem = r]
        IN  /\ st.pc = pc /\ st.op = verifier.op
            /\ st.mem = r /\ st.scanned = verifier.scanned
    BY <1>0, Zenon DEF VerifierStates
  <1>3. /\ IdleVerifier.pc = "idle" /\ IdleVerifier.op = NoOp
        /\ \A o \in Ops : IdleVerifier.scanned[o] = AbsentRecord
    BY DEF IdleVerifier
  <1> QED BY <1>1, <1>2, <1>3 DEF VerifierExit

\* The boot verifier.  It writes records only: its candidate's and those of
\* the interrupted operations it read.
LEMMA VerifierStepClean ==
    ASSUME TypeInvariant, SnapshotInvariant, VerifierProgress \/ VerifierDies
    PROVE  SnapshotInvariant'
  <1> DEFINE op == verifier.op
             mem == verifier.mem
  <1>0. /\ mem \in Records /\ verifier.todo \subseteq Ops
        /\ verifier.pc \in {"check", "consume", "replace", "final"} => op \in Ops
        /\ op \in Ops \cup {NoOp} /\ NoOp \notin Ops
        /\ op \in Ops => CleanTarget(op, mem)
        /\ \A o \in Ops : verifier.scanned[o] \in Records /\ CleanTarget(o, verifier.scanned[o])
    BY MachineAssumption
    DEF TypeInvariant, VerifierPart, VerifierStates, SnapshotInvariant, VerifierClean
  <1>d. \A o \in Ops : CleanTarget(o, disk[o]) /\ disk[o] \in Records
    BY DEF TypeInvariant, DiskPart, SnapshotInvariant, DiskClean
  <1>a. \A o : CleanTarget(o, AbsentRecord)
    BY ConstantRecords DEF CleanTarget
  <1>g. /\ UNCHANGED starts => KeepsStarts
        /\ UNCHANGED snapshots => Grows
    BY DEF KeepsStarts, Grows
  <1>r. ASSUME UNCHANGED <<mode, mounted, worker, session, offline, basis, starts, roots, snapshots>>
        PROVE  /\ QuietPart' /\ WorkerClean' /\ SessionClean' /\ OfflineClean' /\ BasisClean'
               /\ StorageClean'
               /\ UNCHANGED disk => DiskClean'
    BY <1>g, <1>r, CleanFrame DEF Installed
  \* The verifier moves on, or exits.
  <1>m. ASSUME NEW pc, NEW r, UNCHANGED snapshots,
               \/ verifier' = [verifier EXCEPT !.pc = pc] /\ r = mem
               \/ verifier' = [verifier EXCEPT !.pc = pc, !.mem = r],
               op \in Ops => CleanTarget(op, r)
        PROVE  VerifierClean'
    <2>1. verifier'.op = op /\ verifier'.mem = r /\ verifier'.scanned = verifier.scanned
      BY <1>m, VerifierFields
    <2>2. /\ op \in Ops => CleanTarget(op, r)'
          /\ \A o \in Ops : CleanTarget(o, verifier.scanned[o])'
      BY <1>0, <1>g, <1>m, <2>1, CleanGrows
    <2> QED BY <2>1, <2>2 DEF VerifierClean
  <1>e. ASSUME VerifierExit, UNCHANGED snapshots PROVE VerifierClean'
    <2>1. \A o : CleanTarget(o, AbsentRecord)'
      BY <1>a, <1>e, <1>g, CleanGrows
    <2> QED BY <1>0, <1>e, <2>1, VerifierFields DEF VerifierClean
  <1>t. \A st \in States, code \in ErrorCodes :
            op \in Ops => CleanTarget(op, Settle(mem, st, code))
    BY <1>0, SettleType DEF CleanTarget
  <1> USE DEF SnapshotInvariant
  <1>1. CASE VerifierAcquire
    BY <1>1, <1>0, <1>m, <1>r DEF VerifierAcquire, files, storage, platform, OnlyVerifier, bounds
  <1>2. CASE VerifierBusy
    BY <1>2, <1>e, <1>r DEF VerifierBusy, files, storage, platform, OnlyVerifier, bounds
  <1>3. CASE Scan
    <2>1. PICK o \in Ops \cup {NoOp} :
             verifier' =
                [pc |-> "reconcile", op |-> o,
                 mem |-> IF o = NoOp THEN AbsentRecord ELSE disk[o],
                 todo |-> {x \in Ops : Interrupted(x)},
                 scanned |-> [x \in Ops |-> IF Interrupted(x) THEN disk[x] ELSE AbsentRecord]]
      BY <1>3 DEF Scan
    <2>2. /\ verifier'.op = o
          /\ o \in Ops => verifier'.mem = disk[o]
          /\ \A x \in Ops : verifier'.scanned[x] \in {disk[x], AbsentRecord}
      BY <1>0, <2>1
    <2>3. UNCHANGED snapshots
      BY <1>3 DEF Scan, storage
    <2>4. \A x \in Ops : CleanTarget(x, disk[x])' /\ CleanTarget(x, AbsentRecord)'
      BY <1>3, <1>a, <1>d, <1>g, <2>3, CleanGrows DEF Scan
    <2>5. VerifierClean'
      BY <1>3, <2>2, <2>4 DEF VerifierClean, Scan
    <2> QED BY <1>3, <1>r, <2>5 DEF Scan, files, storage, platform, OnlyVerifier, bounds
  <1>4. CASE Reconcile
    <2>1. PICK o \in verifier.todo :
             /\ SaveState(o, InterruptedRecord(o))
             /\ verifier' = [verifier EXCEPT !.todo = @ \ {o}, !.scanned[o] = AbsentRecord]
      BY <1>4 DEF Reconcile
    <2>2. CleanTarget(o, InterruptedRecord(o)) /\ o \in Ops
      <3>1. o \in Ops /\ verifier.scanned[o] \in Records
        BY <1>0, <2>1
      <3>2. PICK st \in States, code \in ErrorCodes :
               InterruptedRecord(o) = Settle(verifier.scanned[o], st, code)
        BY DEF InterruptedRecord, InterruptedState, States, ErrorCodes
      <3>3. InterruptedRecord(o).snapshot_number = verifier.scanned[o].snapshot_number
        BY <3>1, <3>2, SettleType
      <3> QED BY <1>0, <3>1, <3>3 DEF CleanTarget
    <2>3. UNCHANGED snapshots
      BY <1>4 DEF Reconcile, storage
    <2>4. DiskClean'
      BY <1>g, <2>1, <2>2, <2>3, SaveClean
    <2>5. /\ verifier'.op = op /\ verifier'.mem = mem
          /\ \A x \in Ops : verifier'.scanned[x] \in {verifier.scanned[x], AbsentRecord}
      BY <2>1 DEF TypeInvariant, VerifierPart, VerifierStates
    <2>6. /\ op \in Ops => CleanTarget(op, mem)'
          /\ \A x \in Ops : CleanTarget(x, verifier.scanned[x])' /\ CleanTarget(x, AbsentRecord)'
      <3>1. \A x, y : CleanTarget(x, y) => CleanTarget(x, y)'
        BY <1>g, <2>3, CleanGrows
      <3>2. op \in Ops => CleanTarget(op, mem)'
        BY <1>0, <2>5, <3>1
      <3>3. \A x \in Ops : CleanTarget(x, verifier'.scanned[x])
        BY <1>0, <1>a, <2>5
      <3>4. \A x \in Ops : CleanTarget(x, AbsentRecord)'
        BY <1>a, <3>1
      <3> QED BY <3>1, <3>2, <3>3, <3>4
    <2>7. VerifierClean'
      BY <2>5, <2>6 DEF VerifierClean
    <2> QED BY <1>4, <1>r, <2>4, <2>7 DEF Reconcile, files, storage, platform, OnlyVerifier, bounds
  <1>5. CASE ReconcileRefused
    BY <1>5, <1>e, <1>r DEF ReconcileRefused, files, storage, platform, OnlyVerifier, bounds
  <1>6. CASE NothingPending
    BY <1>6, <1>e, <1>r DEF NothingPending, files, storage, platform, OnlyVerifier, bounds
  <1>7. CASE BeginVerification
    <2> DEFINE r == IF mem.state = "AwaitingReboot" THEN TransitionTo(mem, "VerifyingBoot") ELSE mem
    <2>1. op \in Ops /\ CleanTarget(op, r)
      BY <1>0, <1>7, TransitionType DEF BeginVerification, CleanTarget, States
    <2>2. SaveState(op, r) /\ verifier' = [verifier EXCEPT !.pc = "check", !.mem = r]
      BY <1>7 DEF BeginVerification
    <2> HIDE DEF r
    <2>3. UNCHANGED snapshots
      BY <1>7 DEF BeginVerification, storage
    <2>4. DiskClean' /\ VerifierClean'
      BY <1>g, <1>m, <2>1, <2>2, <2>3, SaveClean
    <2> QED BY <1>7, <1>r, <2>4 DEF BeginVerification, files, storage, platform, OnlyVerifier, bounds
  <1>8. CASE CheckPasses
    <2>1. VerifierClean'
      <3>1. CASE ConsumesSequence(op)
        BY <1>8, <1>0, <1>m, <3>1 DEF CheckPasses, storage
      <3>2. CASE ~ConsumesSequence(op)
        BY <1>8, <1>m, <1>t, <3>2 DEF CheckPasses, Passed, States, ErrorCodes, storage
      <3> QED BY <3>1, <3>2
    <2> QED BY <1>8, <1>r, <2>1 DEF CheckPasses, files, storage, platform, OnlyVerifier, bounds
  <1>9. CASE CheckFails
    BY <1>9, <1>m, <1>t, <1>r
    DEF CheckFails, States, ErrorCodes, files, storage, platform, OnlyVerifier, bounds
  <1>10. CASE WriteSequenceTmp
    BY <1>10, <1>0, <1>m, <1>r
    DEF WriteSequenceTmp, files, storage, platform, OnlyVerifier, bounds
  <1>11. CASE ReplaceSequence
    <2>1. VerifierClean'
      BY <1>11, <1>m, <1>t DEF ReplaceSequence, Passed, Unconsumed, States, ErrorCodes, storage
    <2> QED BY <1>11, <1>r, <2>1 DEF ReplaceSequence, files, storage, platform, OnlyVerifier, bounds
  <1>12. CASE SequenceFails
    BY <1>12, <1>m, <1>t, <1>r
    DEF SequenceFails, Unconsumed, States, ErrorCodes, files, storage, platform, OnlyVerifier, bounds
  <1>13. CASE SaveVerdict
    <2>1. DiskClean'
      BY <1>13, <1>0, <1>g, SaveClean DEF SaveVerdict, VerifierAt, storage
    <2> QED BY <1>13, <1>e, <1>r, <2>1 DEF SaveVerdict, files, storage, platform, OnlyVerifier, bounds
  <1>14. CASE VerifierDies
    BY <1>14, <1>e, <1>r DEF VerifierDies, CountCrash, files, storage, platform, OnlyVerifier
  <1> QED
    BY <1>1, <1>2, <1>3, <1>4, <1>5, <1>6, <1>7, <1>8, <1>9, <1>10, <1>11, <1>12, <1>13, <1>14
    DEF VerifierProgress

\* A power loss or a restart idles every process; a boot mounts another root
\* only while no thread runs.
LEMMA PlatformStepClean ==
    ASSUME TypeInvariant, SnapshotInvariant, PowerLoss \/ Reboot \/ Boot \/ ForeignStage
    PROVE  SnapshotInvariant'
  <1>g. /\ UNCHANGED starts => KeepsStarts
        /\ UNCHANGED snapshots => Grows
    BY DEF KeepsStarts, Grows
  <1>iv. ASSUME UNCHANGED snapshots, NEW pc,
                verifier' = IdleVerifier \/ verifier' = [IdleVerifier EXCEPT !.pc = pc]
         PROVE  VerifierClean'
    <2>1. /\ verifier'.op = NoOp /\ NoOp \notin Ops
          /\ \A o \in Ops : verifier'.scanned[o] = AbsentRecord
      <3>1. [IdleVerifier EXCEPT !.pc = pc].op = IdleVerifier.op
            /\ [IdleVerifier EXCEPT !.pc = pc].scanned = IdleVerifier.scanned
        BY DEF IdleVerifier
      <3> QED BY <1>iv, <3>1, MachineAssumption DEF IdleVerifier
    <2> QED BY <2>1, ConstantRecords DEF VerifierClean, CleanTarget
  <1>1. ASSUME Down, UNCHANGED starts PROVE SnapshotInvariant'
    <2>1. QuietPart' /\ WorkerClean' /\ SessionClean' /\ OfflineClean'
      BY <1>1 DEF Down, QuietPart, WorkerClean, SessionClean, OfflineClean, IdleWorker,
         IdleSession, IdleOffline
    <2>2. VerifierClean'
      BY <1>1, <1>iv DEF Down, storage
    <2>3. DiskClean' /\ StorageClean' /\ BasisClean'
      BY <1>1, <1>g, CleanFrame DEF Down, files, storage
    <2> QED BY <2>1, <2>2, <2>3 DEF SnapshotInvariant
  <1>2. CASE Boot
    <2>0. UNCHANGED <<disk, basis, roots, snapshots, starts, worker, session>>
      BY <1>2 DEF Boot, files, storage, bounds
    <2>1. QuietPart' /\ WorkerClean' /\ SessionClean'
      BY <1>2, <2>0 DEF Boot, SnapshotInvariant, QuietPart, WorkerClean, SessionClean
    <2>2. DiskClean' /\ StorageClean' /\ BasisClean'
      BY <1>g, <2>0, CleanFrame
    <2>3. OfflineClean'
      <3>1. UNCHANGED offline => OfflineClean'
        BY <1>g, <2>0, CleanFrame
      <3>2. offline' = [IdleOffline EXCEPT !.pc = "resolve"] => OfflineClean'
        BY DEF IdleOffline, OfflineClean
      <3> QED BY <1>2, <3>1, <3>2 DEF Boot
    <2>4. VerifierClean'
      BY <1>2, <1>g, <1>iv, <2>0, CleanFrame DEF Boot
    <2> QED BY <2>1, <2>2, <2>3, <2>4 DEF SnapshotInvariant
  <1>3. CASE ForeignStage
    <2>0. /\ UNCHANGED <<disk, basis, snapshots, starts, worker, session, offline, verifier, mode, mounted>>
          /\ SetMarker(Foreign)
      BY <1>3 DEF ForeignStage, CountCrash, files, processes, platform
    <2>1. StorageClean' /\ Installed' = Installed
      BY <2>0, RootWrites, PackagesKept
    <2> QED BY <1>g, <2>0, <2>1, CleanFrame DEF SnapshotInvariant
  <1> QED BY <1>1, <1>2, <1>3 DEF PowerLoss, Reboot, CountCrash, bounds

-----------------------------------------------------------------------------
\* The three snapshot properties are parts of the invariant.
LEMMA SnapshotInvariantMeaning ==
    ASSUME TypeInvariant, SnapshotInvariant
    PROVE  RollbackTargetIsClean /\ SnapshotPrecedesWrite /\ MarkerHasSnapshot
  BY DEF SnapshotInvariant, DiskClean, StorageClean, CleanTarget, Undoable, HasSnapshot,
     RollbackTargetIsClean, SnapshotPrecedesWrite, MarkerHasSnapshot

\* Nothing is written, recorded or staged at the start.
LEMMA InitClean == Init => SnapshotInvariant
  <1> SUFFICES ASSUME Init PROVE SnapshotInvariant
    OBVIOUS
  <1>1. QuietPart /\ WorkerClean /\ SessionClean /\ OfflineClean
    BY DEF Init, QuietPart, WorkerClean, SessionClean, OfflineClean, IdleWorker, IdleSession,
       IdleOffline
  <1>2. DiskClean
    BY ConstantRecords DEF Init, DiskClean, CleanTarget
  <1>3. VerifierClean
    BY ConstantRecords, MachineAssumption DEF Init, VerifierClean, IdleVerifier, CleanTarget
  <1>4. StorageClean
    BY MachineAssumption DEF Init, StorageClean, Undoable, NewRoot, Untouched
  <1>5. BasisClean
    BY DEF Init, BasisClean, Untouched
  <1> QED BY <1>1, <1>2, <1>3, <1>4, <1>5 DEF SnapshotInvariant

\* The invariant is inductive, given types and mutual exclusion.
THEOREM SnapshotInvariance == Spec => []SnapshotInvariant
  <1>1. TypeInvariant /\ LockInv /\ SnapshotInvariant /\ [Next]_vars => SnapshotInvariant'
    <2> SUFFICES ASSUME TypeInvariant, LockInv, SnapshotInvariant, [Next]_vars
                 PROVE  SnapshotInvariant'
      OBVIOUS
    <2>1. CASE UNCHANGED vars
      <3>1. Grows /\ KeepsStarts /\ Installed' = Installed
        BY <2>1 DEF vars, storage, platform, bounds, Grows, KeepsStarts, Installed
      <3> QED BY <2>1, <3>1, CleanFrame
          DEF vars, storage, files, platform, processes, SnapshotInvariant
    <2>2. CASE Next
      BY <2>2, WorkerStepClean, SessionStepClean, OfflineStepClean, VerifierStepClean,
         PlatformStepClean DEF Next
    <2> QED BY <2>1, <2>2
  <1>2. OneTransactionAtATime => LockInv
    BY LockInvMeaning
  <1> QED BY <1>1, <1>2, InitClean, TypeInvariance, MutualExclusion, PTL DEF Spec

\* RollbackTargetIsClean: the number in an operation's record, which Rollback
\* hands to Snapper, is a snapshot taken for that operation before any of its
\* packages were written.
THEOREM RollbackTargets == Spec => []RollbackTargetIsClean
  BY SnapshotInvariance, TypeInvariance, SnapshotInvariantMeaning, PTL

\* SnapshotPrecedesWrite: no root carries packages of an operation without a
\* clean snapshot, wherever an executor, an offline boot or the power stopped.
THEOREM SnapshotsFirst == Spec => []SnapshotPrecedesWrite
  BY SnapshotInvariance, TypeInvariance, SnapshotInvariantMeaning, PTL

\* MarkerHasSnapshot: the operation a /system-update names, on any root, also
\* on a clone made by a rollback, has a clean snapshot.
THEOREM MarkersProtected == Spec => []MarkerHasSnapshot
  BY SnapshotInvariance, TypeInvariance, SnapshotInvariantMeaning, PTL

-----------------------------------------------------------------------------
(* Where a transaction starts.                                             *)

\* A thread reaches zypper only from "apply", by BeginApply.
LEMMA ThreadEntersZypper ==
    ASSUME TypeInvariant, [Next]_vars, NEW w \in Workers,
           worker[w].pc # "zypper", worker'[w].pc = "zypper"
    PROVE  worker[w].pc = "apply" /\ worker'[w].op = worker[w].op
  <1>0. worker \in [Workers -> WorkerStates]
    BY DEF TypeInvariant, WorkerPart
  <1>1. ASSUME NEW v \in Workers, WorkerProgress(v) \/ WorkerDies(v)
        PROVE  worker[w].pc = "apply" /\ worker'[w].op = worker[w].op
    <2>m. ASSUME NEW pc, NEW r, Moved(v, pc, r), pc # "zypper" PROVE FALSE
      BY <2>m DEF Moved
    <2>i. ASSUME worker' = [worker EXCEPT ![v] = IdleWorker] PROVE FALSE
      BY <1>0, <2>i DEF IdleWorker
    <2>p. ASSUME NEW next, NEW pc, PersistTransition(v, next, pc) PROVE \E r : Moved(v, pc, r)
      <3>1. GotoWith(v, pc, TransitionTo(Self(v).mem, next))
        BY <2>p DEF PersistTransition
      <3> QED BY <3>1, WorkerFields
    <2>1. CASE AcquireLock(v)
      BY <2>1, <2>m, WorkerFields DEF AcquireLock
    <2>2. CASE LockBusy(v)
      BY <2>2, <2>m, WorkerFields DEF LockBusy
    <2>3. CASE Prepare(v)
      BY <2>3, <2>m, WorkerFields DEF Prepare
    <2>4. CASE BeginDownload(v)
      BY <2>4, <2>m, <2>p DEF BeginDownload
    <2>5. CASE Refresh(v)
      BY <2>5, <2>m, WorkerFields DEF Refresh
    <2>6. CASE Download(v)
      BY <2>6, <2>m, WorkerFields DEF Download
    <2>7. CASE BeginSnapshot(v)
      BY <2>7, <2>m, <2>p DEF BeginSnapshot
    <2>8. CASE CreateSnapshot(v)
      BY <2>8, <2>m, WorkerFields DEF CreateSnapshot
    <2>9. CASE RecordSnapshot(v)
      <3>1. PICK pc \in {"stage", "apply"} : GotoWith(v, pc, Numbered(v))
        BY <2>9 DEF RecordSnapshot
      <3> QED BY <2>m, <3>1, WorkerFields
    <2>10. CASE BeginApply(v)
      <3>1. PICK r : Moved(v, "zypper", r)
        BY <2>10, <2>p DEF BeginApply
      <3> QED BY <2>10, <3>1 DEF BeginApply, Self, Moved
    <2>11. CASE ZypperWrites(v)
      BY <2>11 DEF ZypperWrites, processes
    <2>12. CASE ZypperDone(v)
      BY <2>12, <2>m, WorkerFields DEF ZypperDone
    <2>13. CASE FinishUpdate(v)
      BY <2>13, <2>i DEF FinishUpdate
    <2>14. CASE StageMarker(v)
      BY <2>14, <2>m, WorkerFields DEF StageMarker
    <2>15. CASE FinishStaging(v)
      BY <2>15, <2>i DEF FinishStaging
    <2>16. CASE Fail(v)
      <3>1. PICK b \in Errors, r \in InMemory(v) :
               worker' = [worker EXCEPT ![v].pc = "failed", ![v].mem = r, ![v].error = b]
        BY <2>16 DEF Fail
      <3>2. Moved(v, "failed", r)
        BY <3>1, WorkerFields
      <3> QED BY <2>m, <3>2
    <2>17. CASE CheckCancelled(v)
      BY <2>17, <2>i, <2>m, WorkerFields DEF CheckCancelled
    <2>18. CASE RecordFailure(v)
      BY <2>18, <2>i DEF RecordFailure
    <2>19. CASE WorkerDies(v)
      BY <2>19, <2>i DEF WorkerDies
    <2> QED
      BY <1>1, <2>1, <2>2, <2>3, <2>4, <2>5, <2>6, <2>7, <2>8, <2>9, <2>10, <2>11, <2>12,
         <2>13, <2>14, <2>15, <2>16, <2>17, <2>18, <2>19 DEF WorkerProgress
  <1>2. ASSUME NEW s \in Sessions, SessionRequest(s) \/ SessionProgress(s) \/ SessionDies(s)
        PROVE  FALSE
    <2>1. CASE Spawn(s)
      BY <1>0, <2>1 DEF Spawn
    <2>2. CASE UNCHANGED worker
      BY <2>2
    <2> QED
      BY <1>2, <2>1, <2>2 DEF SessionRequest, SessionProgress, SessionDies, StartNew, StartOwned,
         Cancel, KeepCurrent, Rollback, SaveInitial, SavePendingPlan, SaveOwner, OwnerExists,
         RejectStart, HistoryUnusable, SaveCancelled, SaveDeclined, SaveIntent, RejectRollback,
         SelectClone, SaveScheduled, RollbackFails, OnlySession
  <1>3. ASSUME OfflineProgress \/ VerifierProgress \/ VerifierDies PROVE FALSE
    <2>1. UNCHANGED worker
      BY <1>3 DEF OfflineProgress, Resolve, LoadStaged, Revalidate, OfflineZypperWrites,
         OfflineZypperDone, MoveRepositoriesAway, InstallRepositories, SwapFails, PersistApplied,
         RemoveMarker, OfflineFails, MarkRecovery, RecoveryRefused, OfflineReboot, RebootFails,
         RebootRefused, SystemUpdateCleanup, OnlyOffline, processes, VerifierProgress, VerifierDies,
         VerifierAcquire, VerifierBusy, Scan, Reconcile, ReconcileRefused, NothingPending,
         BeginVerification, CheckPasses, CheckFails, WriteSequenceTmp, ReplaceSequence,
         SequenceFails, SaveVerdict, OnlyVerifier
    <2> QED BY <2>1
  <1>4. ASSUME PowerLoss \/ Reboot \/ Boot \/ ForeignStage \/ UNCHANGED vars PROVE FALSE
    BY <1>4 DEF PowerLoss, Reboot, Down, Boot, ForeignStage, vars, processes, IdleWorker
  <1> QED BY <1>1, <1>2, <1>3, <1>4 DEF Next

\* The offline worker reaches zypper only by Revalidate.
LEMMA OfflineEntersZypper ==
    ASSUME TypeInvariant, [Next]_vars, offline.pc # "zypper", offline'.pc = "zypper"
    PROVE  Revalidate /\ offline'.op = offline.op
  <1>f. ASSUME NEW pc, OfflineGoto(pc), pc # "zypper" PROVE FALSE
    BY <1>f, OfflineFields
  <1>e. ASSUME NEW pc, NEW r, offline' = [offline EXCEPT !.pc = pc, !.mem = r], pc # "zypper"
        PROVE  FALSE
    BY <1>e, OfflineFields
  <1>i. offline' # IdleOffline
    BY DEF IdleOffline
  <1>1. CASE OfflineProgress
    <2>1. CASE Revalidate
      BY <2>1, OfflineFields DEF Revalidate
    <2>2. CASE Resolve
      BY <2>2 DEF Resolve, IdleOffline
    <2>3. CASE LoadStaged
      <3>1. PICK r : offline' = [offline EXCEPT !.pc = "revalidate", !.mem = r]
        BY <2>3 DEF LoadStaged
      <3> QED BY <1>e, <3>1
    <2>4. CASE PersistApplied
      <3>1. PICK r : offline' = [offline EXCEPT !.pc = "unmark", !.mem = r]
        BY <2>4 DEF PersistApplied
      <3> QED BY <1>e, <3>1
    <2>5. CASE OfflineZypperWrites
      BY <2>5 DEF OfflineZypperWrites, processes
    <2>6. CASE OfflineZypperDone
      BY <2>6, <1>f DEF OfflineZypperDone
    <2>7. CASE MoveRepositoriesAway \/ InstallRepositories \/ SwapFails
      BY <2>7, <1>f DEF MoveRepositoriesAway, InstallRepositories, SwapFails
    <2>8. CASE \/ RemoveMarker \/ OfflineFails \/ MarkRecovery
               \/ RecoveryRefused \/ RebootFails \/ RebootRefused
      BY <2>8, <1>f DEF RemoveMarker, OfflineFails, MarkRecovery, RecoveryRefused, RebootFails,
         RebootRefused
    <2>9. CASE OfflineReboot \/ SystemUpdateCleanup
      BY <2>9, <1>i DEF OfflineReboot, SystemUpdateCleanup
    <2> QED BY <1>1, <2>1, <2>2, <2>3, <2>4, <2>5, <2>6, <2>7, <2>8, <2>9 DEF OfflineProgress
  <1>2. ASSUME NEW w \in Workers, WorkerProgress(w) \/ WorkerDies(w) PROVE FALSE
    <2>1. UNCHANGED offline
      BY <1>2 DEF WorkerProgress, WorkerDies, AcquireLock, LockBusy, Prepare, BeginDownload,
         Refresh, Download, BeginSnapshot, CreateSnapshot, RecordSnapshot, BeginApply,
         ZypperWrites, ZypperDone, FinishUpdate, StageMarker, FinishStaging, Fail,
         CheckCancelled, RecordFailure, OnlyWorker, processes
    <2> QED BY <2>1
  <1>3. ASSUME NEW s \in Sessions, SessionRequest(s) \/ SessionProgress(s) \/ SessionDies(s)
        PROVE  FALSE
    <2>1. UNCHANGED offline
      BY <1>3 DEF SessionRequest, SessionProgress, SessionDies, StartNew, StartOwned,
         Cancel, KeepCurrent, Rollback, SaveInitial, SavePendingPlan, SaveOwner, OwnerExists,
         Spawn, RejectStart, HistoryUnusable, SaveCancelled, SaveDeclined, SaveIntent,
         RejectRollback, SelectClone, SaveScheduled, RollbackFails, OnlySession
    <2> QED BY <2>1
  <1>4. ASSUME VerifierProgress \/ VerifierDies PROVE FALSE
    <2>1. UNCHANGED offline
      BY <1>4 DEF VerifierProgress, VerifierDies, VerifierAcquire, VerifierBusy, Scan, Reconcile,
         ReconcileRefused, NothingPending, BeginVerification, CheckPasses, CheckFails,
         WriteSequenceTmp, ReplaceSequence, SequenceFails, SaveVerdict, OnlyVerifier
    <2> QED BY <2>1
  <1>5. ASSUME PowerLoss \/ Reboot \/ Boot \/ ForeignStage \/ UNCHANGED vars PROVE FALSE
    BY <1>5, <1>i DEF PowerLoss, Reboot, Down, Boot, ForeignStage, vars, processes, IdleOffline
  <1> QED BY <1>1, <1>2, <1>3, <1>4, <1>5 DEF Next

\* NeverReapplied: whichever thread or offline boot is about to run zypper for
\* an operation, after whatever crashes, second Starts and recoveries, runs it
\* on a system that holds none of that operation's packages.
THEOREM AppliedOnce == Spec => NeverReapplied
  <1>1. ASSUME TypeInvariant, SnapshotInvariant, [Next]_vars, NEW op \in Ops, TransactionStarts(op)
        PROVE  Installed[op] = "old"
    <2>1. ASSUME NEW w \in Workers, worker[w].pc # "zypper", worker'[w].pc = "zypper",
                 worker'[w].op = op
          PROVE  Installed[op] = "old"
      BY <1>1, <2>1, ThreadEntersZypper DEF SnapshotInvariant, WorkerClean, ThreadIsClean
    <2>2. ASSUME offline.pc # "zypper", offline'.pc = "zypper", offline'.op = op
          PROVE  Installed[op] = "old"
      BY <1>1, <2>2, OfflineEntersZypper
      DEF Revalidate, PlanStillHolds, SnapshotInvariant, BasisClean
    <2> QED BY <1>1, <2>1, <2>2 DEF TransactionStarts
  <1>2. TypeInvariant /\ SnapshotInvariant /\ [Next]_vars =>
            [\A op \in Ops : TransactionStarts(op) => Installed[op] = "old"]_vars
    BY <1>1
  <1> QED BY <1>2, TypeInvariance, SnapshotInvariance, PTL DEF Spec, NeverReapplied
=============================================================================
