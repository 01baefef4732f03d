--------------------------- MODULE UpgradeInvariant --------------------------
(***************************************************************************)
(* The inductive strengthenings of the safety properties of UpgradeSystem. *)
(*                                                                         *)
(* TypeOK is not inductive by itself: a record that a thread, a request or *)
(* the verifier will save is well typed only if its copy is, a rollback    *)
(* indexes Snapper's snapshots by the number in such a copy, and every     *)
(* step indexes the records by the operation its process works on.         *)
(***************************************************************************)
EXTENDS UpgradeSystem

-----------------------------------------------------------------------------
(* Types.  Beyond TypeOK: a busy process works on an operation, and the    *)
(* snapshot number in any copy of a record denotes an existing snapshot.   *)

Known(r) == r.snapshot_number \in 0..Len(snapshots)

DiskPart == disk \in [Ops -> Records] /\ \A op \in Ops : Known(disk[op])

WorkerPart ==
    /\ worker \in [Workers -> WorkerStates]
    /\ \A w \in Workers :
          /\ Known(worker[w].mem)
          /\ worker[w].pc # "idle" => worker[w].op \in Ops
          /\ worker[w].pc = "number" => Len(snapshots) > 0

SessionPart ==
    /\ session \in [Sessions -> SessionStates]
    /\ \A s \in Sessions :
          /\ Known(session[s].mem)
          /\ session[s].pc # "idle" => session[s].op \in Ops
          /\ session[s].pc = "rollback" => session[s].mem.snapshot_number # 0

OfflinePart ==
    /\ offline \in OfflineStates
    /\ Known(offline.mem)
    /\ offline.pc \notin {"idle", "resolve", "stopped", "stranded"} => offline.op \in Ops

VerifierPart ==
    /\ verifier \in VerifierStates
    /\ Known(verifier.mem)
    /\ \A op \in Ops : Known(verifier.scanned[op])
    /\ \A op \in verifier.todo : verifier.scanned[op].state \in InProgress
    /\ verifier.pc \in {"check", "consume", "replace", "final"} => verifier.op \in Ops

StoragePart ==
    /\ roots \in [Subvolumes -> Roots]
    /\ clones \in Subvolumes /\ default \in Subvolumes /\ mounted \in Subvolumes
    /\ snapshots \in Seq(Snapshots)

FilesPart ==
    /\ pending \subseteq Ops /\ owned \subseteq Ops
    /\ basis \in [Ops -> Packages] /\ before \in [Ops -> Packages]

RestPart ==
    /\ lastSequence \in Nat /\ staleTmp \in BOOLEAN
    /\ mode \in {"up", "offline", "down"}
    /\ lock \in Workers \cup Sessions \cup {"free", "offline", "verifier"}
    /\ starts \in [Ops -> Nat] /\ requests \in Nat /\ crashes \in Nat

TypeInvariant ==
    /\ DiskPart /\ WorkerPart /\ SessionPart /\ OfflinePart /\ VerifierPart
    /\ StoragePart /\ FilesPart /\ RestPart

-----------------------------------------------------------------------------
(* Snapshots.  RollbackTargetIsClean, SnapshotPrecedesWrite and            *)
(* MarkerHasSnapshot speak of the disk and of the roots.  They last        *)
(* because the same holds of every copy of a record that will be saved, of *)
(* every root inside a snapshot, which a rollback brings back, and because *)
(* nothing writes op's packages between the comparison of op's plan and    *)
(* Snapper's copy.                                                         *)

HasSnapshot(op) == \E n \in DOMAIN snapshots : CleanSnapshot(op, n)

CleanTarget(op, r) == r.snapshot_number # 0 => CleanSnapshot(op, r.snapshot_number)

\* No service runs while the machine is down or in system-update.target.
QuietPart ==
    mode # "up" =>
        /\ \A w \in Workers : worker[w].pc = "idle"
        /\ \A s \in Sessions : session[s].pc = "idle"

DiskClean == \A op \in Ops : CleanTarget(op, disk[op])

\* A thread between the last comparison of its plan and its snapshot runs on a
\* system without its packages, and after the snapshot it carries the number.
ThreadIsClean(t) ==
    /\ starts[t.op] # 0
    /\ CleanTarget(t.op, t.mem)
    /\ t.pc \in {"snapshot", "create", "number", "apply"} => Installed[t.op] = "old"
    /\ t.pc = "number" => CleanSnapshot(t.op, Len(snapshots))
    /\ t.pc \in {"stage", "ready", "apply", "zypper", "finish"} => t.mem.snapshot_number # 0

WorkerClean == \A w \in Workers : worker[w].pc # "idle" => ThreadIsClean(worker[w])

RequestIsClean(q) ==
    /\ CleanTarget(q.op, q.mem)
    /\ q.pc \in {"create", "plan", "owner", "spawn"} => starts[q.op] # 0

SessionClean == \A s \in Sessions : session[s].pc # "idle" => RequestIsClean(session[s])

OfflineClean ==
    /\ offline.pc \notin {"idle", "resolve", "stopped", "stranded"} => CleanTarget(offline.op, offline.mem)
    /\ offline.pc \in {"revalidate", "zypper"} => offline.mem.snapshot_number # 0

VerifierClean ==
    /\ verifier.op \in Ops => CleanTarget(verifier.op, verifier.mem)
    /\ \A op \in Ops : CleanTarget(op, verifier.scanned[op])

\* A root, or the root inside a snapshot, holds no packages and no marker of
\* an operation that cannot be undone.
Undoable(root) ==
    /\ root.marker \in Ops => HasSnapshot(root.marker)
    /\ \A op \in Ops : root.packages[op] # "old" => HasSnapshot(op)

StorageClean ==
    /\ \A v \in Subvolumes : Undoable(roots[v])
    /\ \A n \in DOMAIN snapshots : Undoable(snapshots[n].root) /\ starts[snapshots[n].op] # 0

\* A confirmed plan was computed on a system without the operation's packages.
BasisClean == \A op \in Ops : basis[op][op] = "old"

SnapshotInvariant ==
    /\ QuietPart /\ DiskClean /\ WorkerClean /\ SessionClean /\ OfflineClean
    /\ VerifierClean /\ StorageClean /\ BasisClean

-----------------------------------------------------------------------------
(* The replay record.  A record that says Completed is written only by the *)
(* verifier, after it consumed the sequence; every copy another process    *)
(* may still save says something else.                                     *)

Consumed(op, r) ==
    Signed(op) /\ r.state = "Completed" /\ ~r.goal => lastSequence >= ManifestSequence[op]

DiskConsumed == \A op \in Ops : Consumed(op, disk[op])

\* Only an update within the release is applied, and completed, by its thread.
WorkerUnfinished ==
    \A w \in Workers :
        /\ worker[w].mem.state # "Completed"
        /\ worker[w].pc \in {"apply", "zypper", "finish"} => ~Signed(worker[w].op)

SessionUnfinished ==
    \A s \in Sessions : session[s].pc = "intent" => session[s].mem.state # "Completed"

\* The staged manifest stays fresh from its check to the transaction.
OfflineFresh == offline.pc = "revalidate" => ManifestIsFresh(offline.op)

VerifierConsumed ==
    /\ verifier.pc = "reconcile" => verifier.mem.state # "Completed"
    /\ verifier.pc = "replace" => lastSequence <= ManifestSequence[verifier.op]
    /\ verifier.pc = "final" => Consumed(verifier.op, verifier.mem)

ReplayInvariant ==
    /\ DiskConsumed /\ WorkerUnfinished /\ SessionUnfinished /\ OfflineFresh
    /\ VerifierConsumed

-----------------------------------------------------------------------------
(* Recovery.  RepositoryOutageIsRecoverable lasts because a signed         *)
(* operation that wrote anything is spent: no process can bring its record *)
(* back to before the offline boot, so it is never run again and what its  *)
(* roots hold of it never changes.  That in turn ties the repositories of  *)
(* a root to the release upgrades it contains, and a snapshot taken before *)
(* a release upgrade to the repositories its root had.                     *)

\* The verifier runs only when the machine is up, the offline worker only in
\* system-update.target.
ModePart ==
    /\ mode # "up" => verifier.pc = "idle"
    /\ verifier.pc \in {"idle", "acquire", "scan"} => verifier.op = NoOp /\ verifier.todo = {}
    /\ offline.pc # "idle" => mode = "offline"

\* A plan that was compared is the plan of the snapshot: same packages.
BasisPart ==
    /\ \A n \in DOMAIN snapshots : snapshots[n].root.packages = basis[snapshots[n].op]
    /\ \A w \in Workers :
          worker[w].pc \in {"snapshot", "create"} => Installed = basis[worker[w].op]

\* What the copies of a record may still become on disk.
CopyPart ==
    /\ \A s \in Sessions :
          /\ session[s].pc = "intent" => session[s].mem.state = "NeedsRecovery"
          /\ session[s].pc \in {"rollback", "selected"} => session[s].mem.goal
    /\ verifier.pc = "reconcile" /\ verifier.op \in Ops =>
           verifier.mem.state \in {"AwaitingReboot", "VerifyingBoot"}
    /\ verifier.pc = "final" => verifier.mem.state \in {"NeedsRecovery", "Completed"}

SpentStates == {"ApplyingOffline", "AwaitingReboot", "VerifyingBoot", "NeedsRecovery",
                "Failed", "Completed"}

\* The record has passed ReadyToReboot, and nobody will write an earlier one.
Spent(op) ==
    /\ disk[op].state \in SpentStates
    /\ \A w \in Workers : worker[w].pc # "idle" => worker[w].op # op
    /\ \A s \in Sessions : session[s].pc \in {"create", "cancel"} => session[s].op # op

\* The roots that exist: the subvolumes, and those inside the snapshots.
AllRoots ==
    {roots[v] : v \in Subvolumes} \cup {snapshots[n].root : n \in DOMAIN snapshots}

SpentPart ==
    \A R \in AllRoots, op \in Ops : Signed(op) /\ R.packages[op] # "old" => Spent(op)

\* Two roots with the same release upgrades are alike in having their
\* repositories or not.
AlikePart ==
    \A R, Q \in AllRoots :
        (\A op \in Ops : Kind[op] = "ReleaseUpgrade" => R.packages[op] = Q.packages[op])
            => R.live = Q.live

\* A transaction of the offline worker is under way, on the mounted root only.
UnderWay == {"revalidate", "zypper", "repositories", "swap"}

OldElsewhere(op) ==
    /\ \A v \in Subvolumes \ {mounted} : roots[v].packages[op] = "old"
    /\ \A n \in DOMAIN snapshots : snapshots[n].root.packages[op] = "old"

OfflineRuns(op) ==
    LET target == snapshots[disk[op].snapshot_number].root IN
    /\ Signed(op) /\ Spent(op) /\ OldElsewhere(op)
    /\ disk[op].state = "ApplyingOffline" /\ disk[op].snapshot_number # 0
    /\ offline.pc = "revalidate" => Installed[op] = "old"
    /\ offline.pc \in {"repositories", "swap"} =>
           Installed[op] = "new" /\ Kind[op] = "ReleaseUpgrade"
    /\ offline.pc \in {"zypper", "repositories"} => roots[mounted].live = target.live
    /\ offline.pc = "swap" => target.live

HerePart == offline.pc \in UnderWay => OfflineRuns(offline.op)

\* A number that leads back to a clean snapshot with its repositories.
LeadsBack(op, r) ==
    CleanSnapshot(op, r.snapshot_number) /\ snapshots[r.snapshot_number].root.live

\* The repositories were moved away for op and not replaced: its record, and
\* every copy of it, says so and leads back.
Lost(op) ==
    /\ Kind[op] = "ReleaseUpgrade" /\ Spent(op)
    /\ LeadsBack(op, disk[op])
    /\ disk[op].goal \/ disk[op].state \in {"ApplyingOffline", "NeedsRecovery", "Failed"}
    /\ \A s \in Sessions :
          session[s].op = op /\ session[s].pc \in {"keep", "intent", "rollback", "selected"}
              => LeadsBack(op, session[s].mem)
    /\ op \in verifier.todo => LeadsBack(op, verifier.scanned[op])
    /\ verifier.op = op => verifier.mem.goal /\ LeadsBack(op, verifier.mem)
    /\ offline.op = op => offline.pc \notin {"revalidate", "zypper", "repositories", "finish"}

OutagePart ==
    \A R \in AllRoots : ~R.live => \E op \in Ops : R.packages[op] = "new" /\ Lost(op)

RecoveryInvariant ==
    /\ ModePart /\ BasisPart /\ CopyPart /\ SpentPart /\ AlikePart /\ HerePart /\ OutagePart


-----------------------------------------------------------------------------
(* The promise.  What a step does to the roots and what Completed says are *)
(* true because a transaction runs on a root that does not have its result *)
(* yet, a release upgrade is declared only on a root with its repositories *)
(* and nobody else ever writes such a root to look like it, and a rollback *)
(* is declared only on a clone that was made for it and kept clear of it.  *)

ClonePart == default <= clones /\ mounted <= clones

WritePart ==
    /\ \A w \in Workers : worker[w].pc = "zypper" => Installed[worker[w].op] # "new"
    /\ offline.pc = "zypper" => Installed[offline.op] # "new"
    /\ offline.pc = "finish" => Installed[offline.op] = "new"

ChangeInvariant == ClonePart /\ WritePart

\* What is on disk passed save_state, and only the copies that a rollback
\* or a verification works on carry its objective.
ValidPart ==
    /\ \A op \in Ops : GoalIsConsistent(disk[op])
    /\ \A w \in Workers :
          worker[w].pc # "idle" =>
              ~worker[w].mem.goal /\ worker[w].mem.state \notin {"AwaitingReboot", "VerifyingBoot"}
    /\ \A s \in Sessions : session[s].pc = "cancel" => ~session[s].mem.goal
    /\ offline.pc \in UnderWay \cup {"finish"} => ~offline.mem.goal
    /\ verifier.op \in Ops /\ verifier.mem.goal => verifier.mem.boot_snapshot # 0
    /\ \A op \in verifier.todo : ~verifier.scanned[op].goal

\* The repositories of a root are those of a release upgrade it contains.
RepositoriesPart ==
    \A R \in AllRoots, op \in Ops :
        R.repositories = op => Kind[op] = "ReleaseUpgrade" /\ R.packages[op] = "new"

\* The offline worker reaches its last step only on the new repositories.
LandedPart ==
    offline.pc = "finish" /\ Kind[offline.op] = "ReleaseUpgrade" =>
        /\ OldElsewhere(offline.op)
        /\ roots[mounted].live /\ roots[mounted].repositories = offline.op

\* The root holds op's result and, of the other releases, what op's plan saw.
RunsRelease(R, op) ==
    /\ R.packages[op] = "new"
    /\ \A o \in Ops \ {op} : Kind[o] = "ReleaseUpgrade" => R.packages[o] = basis[op][o]

Declared(op) ==
    \/ disk[op].state \in {"AwaitingReboot", "VerifyingBoot"} /\ ~disk[op].goal
    \/ verifier.op = op /\ ~verifier.mem.goal

DeclaredPart ==
    \A op \in Ops :
        Kind[op] = "ReleaseUpgrade" /\ Declared(op) =>
            \A R \in AllRoots : RunsRelease(R, op) => R.live /\ R.repositories = op

\* The clone a rollback of op selected holds none of op, and once it is
\* mounted no process brings op back.
BackTo(op, r) ==
    r.goal /\ r.boot_snapshot # 0 =>
        /\ r.boot_snapshot <= clones
        /\ roots[r.boot_snapshot].packages[op] = "old"
        /\ r.boot_snapshot = mounted => Spent(op)

GoalPart ==
    /\ \A op \in Ops : BackTo(op, disk[op])
    /\ \A s \in Sessions :
          session[s].pc \in {"keep", "intent", "rollback", "selected"}
              => BackTo(session[s].op, session[s].mem)
    /\ verifier.op \in Ops => BackTo(verifier.op, verifier.mem)

SelectedPart ==
    \A s \in Sessions :
        session[s].pc = "selected" =>
            /\ default = clones /\ default \notin {0, mounted}
            /\ roots[default].packages[session[s].op] = "old"

TruthInvariant ==
    /\ ValidPart /\ RepositoriesPart /\ LandedPart /\ DeclaredPart /\ GoalPart /\ SelectedPart

\* The --check-boot child loads the record from disk; the verdict is written
\* from the verifier's own copy.  This says that the two agree on what is
\* verified, which the code leaves to the transaction lock; a save that does
\* not take the lock can break it.
ChildReadsTheRecord ==
    verifier.pc = "check" =>
        /\ disk[verifier.op].goal = verifier.mem.goal
        /\ verifier.mem.goal => disk[verifier.op].boot_snapshot = verifier.mem.boot_snapshot

\* What a passed check found.
Verified(op, r) ==
    IF r.goal
    THEN /\ mounted = r.boot_snapshot
         /\ Installed[op] = "old" /\ roots[mounted].repositories # op
    ELSE /\ Installed[op] = "new"
         /\ Kind[op] = "ReleaseUpgrade" => roots[mounted].live /\ roots[mounted].repositories = op

VerdictInvariant ==
    /\ verifier.pc \in {"consume", "replace"} => ~verifier.mem.goal
    /\ \/ verifier.pc \in {"consume", "replace"}
       \/ verifier.pc = "final" /\ verifier.mem.state = "Completed"
       => Verified(verifier.op, verifier.mem)

-----------------------------------------------------------------------------
(* One client at a time.  Cancel, KeepCurrent and the creation of an       *)
(* operation save a record without the transaction lock, and so does a     *)
(* thread that failed.  ChildReadsTheRecord lasts as long as an operation  *)
(* is in the hands of one request and of one thread at a time.             *)

WorksOn(w, op) == worker[w].pc # "idle" /\ worker[w].op = op

Unshared ==
    \A op \in Ops :
        /\ \A v, w \in Workers : WorksOn(v, op) /\ WorksOn(w, op) => v = w
        /\ \A s, t \in Sessions :
              session[s].pc # "idle" /\ session[s].op = op /\ session[t].pc # "idle" /\ session[t].op = op
                  => s = t

\* Until the verifier scans, what a thread or a request works on is still in
\* the state in which it was taken up.
UnclaimedPart ==
    verifier.pc \in {"acquire", "scan"} =>
        /\ \A w \in Workers :
              worker[w].pc # "idle" =>
                  disk[worker[w].op].state \notin
                      {"Absent", "AwaitingReboot", "VerifyingBoot", "NeedsRecovery"}
        /\ \A s \in Sessions :
              LET op == session[s].op IN
              /\ session[s].pc = "create" => disk[op].state = "Absent"
              /\ session[s].pc = "cancel" => ~disk[op].goal
              /\ session[s].pc = "keep" => disk[op].state = "NeedsRecovery"
              /\ session[s].pc \in {"keep", "intent", "rollback", "selected"} =>
                     \A w \in Workers : ~WorksOn(w, op)

\* What the verifier took up is nobody else's, except for a late Cancel.
ClaimedPart ==
    LET op == verifier.op IN
    op \in Ops =>
        /\ disk[op].state \in {"AwaitingReboot", "VerifyingBoot", "Failed"}
        /\ disk[op].goal = verifier.mem.goal
        /\ verifier.mem.goal => disk[op].boot_snapshot = verifier.mem.boot_snapshot
        /\ op \notin verifier.todo
        /\ \A w \in Workers : ~WorksOn(w, op)
        /\ \A s \in Sessions :
              session[s].op = op =>
                  /\ session[s].pc \notin {"create", "keep"}
                  /\ session[s].pc = "cancel" => ~verifier.mem.goal

ClaimInvariant ==
    /\ \A w \in Workers : worker[w].pc # "idle" => worker[w].mem.state \notin {"Absent", "NeedsRecovery"}
    /\ UnclaimedPart /\ ClaimedPart

-----------------------------------------------------------------------------
(* A transaction on record.  PartialIsOnRecord is about what happens       *)
(* before anybody takes a decision.                                        *)

NotPartial(op) == Installed[op] # "partial"

RecordPart ==
    /\ default = mounted
    /\ \A s \in Sessions : session[s].pc \in {"idle", "create", "plan", "owner", "spawn"}
    /\ \A op \in Ops : NotPartial(op) \/ disk[op].state \in {"Applying", "ApplyingOffline", "NeedsRecovery"}

ThreadOnRecord ==
    \A w \in Workers :
        worker[w].pc # "idle" =>
            /\ disk[worker[w].op].state # "Absent"
            /\ worker[w].pc = "zypper" => disk[worker[w].op].state = "Applying"
            /\ \/ NotPartial(worker[w].op)
               \/ worker[w].pc \in {"zypper", "failed", "record"} /\ worker[w].mem.snapshot_number # 0

CreateOnRecord ==
    \A s \in Sessions : session[s].pc = "create" => disk[session[s].op].state = "Absent"

VerifierOnRecord ==
    /\ verifier.op \in Ops => disk[verifier.op].state # "Absent" /\ NotPartial(verifier.op)
    /\ \A op \in verifier.todo :
          /\ disk[op].state # "Absent"
          /\ verifier.scanned[op].state = "Downloading" => NotPartial(op)

OnRecordInvariant ==
    requests = 0 => RecordPart /\ ThreadOnRecord /\ CreateOnRecord /\ VerifierOnRecord
=============================================================================
