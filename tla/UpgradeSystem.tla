---------------------------- MODULE UpgradeSystem ----------------------------
(***************************************************************************)
(* The whole machine: service sessions and their executor threads, the     *)
(* offline worker, the boot verifier, the user who reboots and the power   *)
(* that fails, over the shared state of module Machine.                    *)
(***************************************************************************)
EXTENDS Service, OfflineApply, BootVerifier

Untouched == [o \in Ops |-> "old"]
NewRoot == [marker |-> NoOp, packages |-> Untouched, repositories |-> NoOp, live |-> TRUE]

Init ==
    /\ disk = [o \in Ops |-> AbsentRecord]
    /\ pending = {} /\ owned = {}
    /\ basis = [o \in Ops |-> Untouched]
    /\ before = [o \in Ops |-> Untouched]
    /\ roots = [v \in Subvolumes |-> NewRoot]
    /\ clones = 0 /\ default = 0 /\ mounted = 0
    /\ snapshots = <<>>
    /\ lastSequence = 0 /\ staleTmp = FALSE
    /\ mode = "up" /\ lock = "free"
    /\ worker = [w \in Workers |-> IdleWorker]
    /\ session = [s \in Sessions |-> IdleSession]
    /\ offline = IdleOffline /\ verifier = IdleVerifier
    /\ starts = [o \in Ops |-> 0] /\ requests = 0 /\ crashes = 0

-----------------------------------------------------------------------------
(* Boots.                                                                  *)

\* Everything volatile is gone.
Down ==
    /\ mode' = "down"
    /\ lock' = "free"
    /\ worker' = [w \in Workers |-> IdleWorker]
    /\ session' = [s \in Sessions |-> IdleSession]
    /\ offline' = IdleOffline /\ verifier' = IdleVerifier
    /\ UNCHANGED <<disk, files, storage, replay, mounted>>

PowerLoss ==
    /\ mode # "down"
    /\ Down
    /\ CountCrash

\* A restart the user asks for, with no request or transaction under way; also
\* of a machine that stands still after its offline boot.
Reboot ==
    /\ mode = "up" \/ OfflineAt("stranded")
    /\ \A w \in Workers : worker[w].pc = "idle"
    /\ \A s \in Sessions : session[s].pc = "idle"
    /\ verifier.pc = "idle"
    /\ Down
    /\ UNCHANGED bounds

\* The default subvolume is mounted.  systemd's generator selects
\* system-update.target when the marker exists; otherwise multi-user.target
\* is reached, which starts the verifier.
Boot ==
    /\ mode = "down"
    /\ mounted' = default
    /\ IF roots[default].marker = NoOp
       THEN /\ mode' = "up"
            /\ verifier' = [IdleVerifier EXCEPT !.pc = "acquire"]
            /\ UNCHANGED offline
       ELSE /\ mode' = "offline"
            /\ offline' = [IdleOffline EXCEPT !.pc = "resolve"]
            /\ UNCHANGED verifier
    /\ UNCHANGED <<disk, files, storage, replay, lock, worker, session, bounds>>

\* Another updater (PackageKit) stages its own offline update, over ours too.
ForeignStage ==
    /\ mode # "down"
    /\ Marker # Foreign
    /\ SetMarker(Foreign)
    /\ CountCrash
    /\ UNCHANGED <<disk, files, clones, default, snapshots, replay, platform, lock,
                   processes>>

-----------------------------------------------------------------------------
Next ==
    \/ \E w \in Workers : WorkerProgress(w) \/ WorkerDies(w)
    \/ \E s \in Sessions : SessionRequest(s) \/ SessionProgress(s) \/ SessionDies(s)
    \/ OfflineProgress
    \/ VerifierProgress \/ VerifierDies
    \/ PowerLoss \/ Reboot \/ Boot \/ ForeignStage

Spec == Init /\ [][Next]_vars

\* Threads, request handlers, the offline worker and the verifier run on their
\* own, and a machine that is down is switched on again.  That it is also
\* rebooted now and then is what the recovery design relies on: nothing else
\* reconciles an operation whose process died.  Requests, crashes and other
\* updaters owe nobody anything.
Fairness ==
    /\ \A w \in Workers : WF_vars(WorkerProgress(w))
    /\ \A s \in Sessions : WF_vars(SessionProgress(s))
    /\ WF_vars(OfflineProgress)
    /\ WF_vars(VerifierProgress)
    /\ WF_vars(Boot)
    /\ WF_vars(Reboot)

FairSpec == Spec /\ Fairness

-----------------------------------------------------------------------------
(* Safety.                                                                 *)

\* The processes between a successful TransactionLock::acquire and the return
\* of the function that holds it.
InTransaction ==
    {w \in Workers : worker[w].pc \in HoldsLock}
    \cup {s \in Sessions : session[s].pc \in {"intent", "rollback", "selected"}}
    \cup {p \in {"offline"} : offline.pc \notin {"idle", "resolve", "stopped", "stranded"}}
    \cup {p \in {"verifier"} : verifier.pc \notin {"idle", "acquire"}}

\* Executors, rollbacks, the offline worker and the verifier never overlap,
\* across processes, deaths, reboots and clients that find the lock busy.
OneTransactionAtATime == InTransaction \subseteq {lock}

\* A snapshot taken for op that does not contain any of op's packages.
CleanSnapshot(op, n) ==
    /\ n \in DOMAIN snapshots
    /\ snapshots[n].op = op
    /\ snapshots[n].root.packages[op] = "old"

\* No root carries packages of an operation for which there is no snapshot to
\* go back to: the executors take it before they write, wherever they crash,
\* and nothing a later Start does takes it away.
SnapshotPrecedesWrite ==
    \A v \in Subvolumes, op \in Ops :
        roots[v].packages[op] # "old" => \E n \in DOMAIN snapshots : CleanSnapshot(op, n)

\* The number a record carries, which Rollback hands to Snapper, is a snapshot
\* of that operation taken before it changed anything.
RollbackTargetIsClean ==
    \A op \in Ops : disk[op].snapshot_number # 0 => CleanSnapshot(op, disk[op].snapshot_number)

\* A staged /system-update always names an operation that has a snapshot: the
\* offline boot it triggers can be undone.
MarkerHasSnapshot ==
    \A v \in Subvolumes :
        roots[v].marker \in Ops => \E n \in DOMAIN snapshots : CleanSnapshot(roots[v].marker, n)

\* A manifest sequence counts as applied before its operation is Completed,
\* so that a power loss in between cannot leave a completed release open to
\* replay; a verified rollback does not need it.
CompletedConsumesSequence ==
    \A op \in Ops :
        Signed(op) /\ disk[op].state = "Completed" /\ ~disk[op].goal
            => lastSequence >= ManifestSequence[op]

\* zypper is about to be run for op, online or offline.
TransactionStarts(op) ==
    \/ \E w \in Workers :
          worker[w].pc # "zypper" /\ worker'[w].pc = "zypper" /\ worker'[w].op = op
    \/ offline.pc # "zypper" /\ offline'.pc = "zypper" /\ offline'.op = op

\* A crash, a second Start or another offline boot never runs a transaction
\* again on a system that an earlier attempt has changed (the failure matrix
\* allows no blind repetition).
NeverReapplied == [][\A op \in Ops : TransactionStarts(op) => Installed[op] = "old"]_vars

\* A signed transaction is never run once an operation of the same or a newer
\* manifest was completed.
NoReplay ==
    [][\A op \in Ops :
          TransactionStarts(op) /\ Signed(op) =>
              \A o \in Ops : Signed(o) /\ disk[o].state = "Completed" /\ ~disk[o].goal
                                 => ManifestSequence[o] < ManifestSequence[op]]_vars

\* A root that lost its repositories half way through their replacement runs
\* the packages of a release upgrade that is not taken for applied and that
\* has, on record, a clean snapshot with its repositories to go back to: no
\* crash between the two renames is mistaken for a finished upgrade.
RepositoryOutageIsRecoverable ==
    \A v \in Subvolumes :
        ~roots[v].live =>
            \E op \in Ops :
                /\ roots[v].packages[op] = "new"
                /\ CleanSnapshot(op, disk[op].snapshot_number)
                /\ snapshots[disk[op].snapshot_number].root.live
                /\ disk[op].goal \/ disk[op].state \in {"ApplyingOffline", "NeedsRecovery", "Failed"}

\* An upgrade becomes Completed only on a system that runs its result, a
\* release upgrade only with its own repositories, and a rollback only on the
\* selected clone with the packages of before the operation, whatever other
\* operations, boots and recoveries did meanwhile.
CompletedIsTrue ==
    [][\A op \in Ops :
          disk[op].state # "Completed" /\ disk'[op].state = "Completed" =>
              IF disk'[op].goal
              THEN /\ mounted = disk'[op].boot_snapshot
                   /\ Installed[op] = "old" /\ roots[mounted].repositories # op
              ELSE /\ Installed[op] = "new"
                   /\ Kind[op] = "ReleaseUpgrade" =>
                          roots[mounted].live /\ roots[mounted].repositories = op]_vars

\* While the running system holds part of a transaction, the record of the
\* operation says that it is being applied or needs recovery: no crash makes it
\* look like an operation that touched nothing.
PartialIsOnRecord ==
    \A op \in Ops :
        mode # "down" /\ Installed[op] = "partial" =>
            disk[op].state \in {"Applying", "ApplyingOffline", "NeedsRecovery"}

-----------------------------------------------------------------------------
(* What the documentation says and the code does not keep.                 *)

\* Cancel is "aceito somente em estados canceláveis": no record that says the
\* system is being written becomes CANCELLED.
CancelNeverWhileWriting ==
    [][\A op \in Ops :
          disk'[op].error_code = "CANCELLED" /\ disk[op].error_code # "CANCELLED"
              => ~PermitsSystemWrite(disk[op].state)]_vars

-----------------------------------------------------------------------------
(* Liveness.                                                               *)

Unnumbered(op) == disk[op].state = "Snapshotting" /\ disk[op].snapshot_number = 0

\* Every operation found in progress is eventually settled by its executor or
\* by the verifier of a later boot, unless a crash left some operation in
\* Snapshotting without its number.
InterruptedSettles ==
    \A op \in Ops :
        disk[op].state \in InProgress
            ~> \/ disk[op].state \notin InProgress
               \/ \E o \in Ops : Unnumbered(o)

\* An offline boot always ends in a running system, applied or not, however its
\* marker was left or replaced, unless systemctl refuses the reboot: nothing
\* but that leaves the machine to its user.
OfflineBootEnds == mode = "offline" ~> mode = "up" \/ OfflineAt("stranded")

\* "Snapshotting, Applying e ApplyingOffline interrompidos viram NeedsRecovery":
\* no operation stays in Snapshotting for ever.
SnapshottingEnds ==
    \A op \in Ops : disk[op].state = "Snapshotting" ~> disk[op].state # "Snapshotting"
=============================================================================
