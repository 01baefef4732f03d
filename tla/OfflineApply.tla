---------------------------- MODULE OfflineApply -----------------------------
(***************************************************************************)
(* lyra-upgrade-offline --reboot, which systemd starts in                  *)
(* system-update.target when /system-update exists (offline/src/main.rs,   *)
(* offline/src/request.rs): resolve the marker, apply the staged           *)
(* transaction once, record the outcome, remove the marker, reboot.        *)
(***************************************************************************)
EXTENDS Machine

OfflineAt(pc) == mode = "offline" /\ offline.pc = pc
OfflineGoto(pc) == offline' = [offline EXCEPT !.pc = pc]
OnlyOffline == <<worker, session, verifier>>

\* require_current: the marker still names the operation resolved at the start.
MarkerIsCurrent == Marker = offline.op

-----------------------------------------------------------------------------
\* request::resolve, before the lock: a foreign marker is left alone.
Resolve ==
    /\ OfflineAt("resolve")
    /\ IF Marker \in Ops
       THEN /\ Acquire("offline")
            /\ offline' = [pc |-> "load", op |-> Marker, mem |-> AbsentRecord]
       ELSE /\ UNCHANGED lock
            /\ offline' = [IdleOffline EXCEPT !.pc = "stopped"]
    /\ UNCHANGED <<disk, files, storage, replay, platform, OnlyOffline, bounds>>

\* prepare_offline_state, the staged manifest and plan, its signature and its
\* replay sequence; only then is ApplyingOffline persisted.
LoadStaged ==
    LET r == disk[offline.op] IN
    /\ OfflineAt("load")
    /\ MarkerIsCurrent
    /\ r.state = "ReadyToReboot" /\ r.snapshot_number # 0
    /\ CanTransition(Kind[offline.op], r, "ApplyingOffline")
    /\ ManifestIsFresh(offline.op)
    /\ SaveState(offline.op, TransitionTo(r, "ApplyingOffline"))
    /\ offline' = [offline EXCEPT !.pc = "revalidate",
                                  !.mem = TransitionTo(r, "ApplyingOffline")]
    /\ UNCHANGED <<files, storage, replay, platform, lock, OnlyOffline, bounds>>

\* revalidate_plan and verify_payloads on the system as it is now.
Revalidate ==
    /\ OfflineAt("revalidate")
    /\ PlanStillHolds(offline.op)
    /\ OfflineGoto("zypper")
    /\ UNCHANGED <<disk, files, storage, replay, platform, lock, OnlyOffline, bounds>>

OfflineZypperWrites ==
    /\ OfflineAt("zypper")
    /\ Installed[offline.op] # "partial"
    /\ SetPackages(offline.op, "partial")
    /\ UNCHANGED <<disk, files, clones, default, snapshots, replay, platform,
                   lock, processes, bounds>>

OfflineZypperDone ==
    /\ OfflineAt("zypper")
    /\ SetPackages(offline.op, "new")
    /\ OfflineGoto(IF Kind[offline.op] = "ReleaseUpgrade" THEN "repositories" ELSE "finish")
    /\ UNCHANGED <<disk, files, clones, default, snapshots, replay, platform,
                   lock, OnlyOffline, bounds>>

\* install_repository_set: the new set was written beside the live one, which
\* is renamed away ...
MoveRepositoriesAway ==
    /\ OfflineAt("repositories")
    /\ roots[mounted].live
    /\ SetRepositories(roots[mounted].repositories, FALSE)
    /\ OfflineGoto("swap")
    /\ UNCHANGED <<disk, files, clones, default, snapshots, replay, platform,
                   lock, OnlyOffline, bounds>>

\* ... and replaced.
InstallRepositories ==
    /\ OfflineAt("swap")
    /\ SetRepositories(offline.op, TRUE)
    /\ OfflineGoto("finish")
    /\ UNCHANGED <<disk, files, clones, default, snapshots, replay, platform,
                   lock, OnlyOffline, bounds>>

\* Mutant: the failed rename is not reported.
SwapFailureIgnored ==
    /\ OfflineAt("swap")
    /\ OfflineGoto("finish")
    /\ UNCHANGED <<disk, files, storage, replay, platform, lock, OnlyOffline, bounds>>

\* The second rename fails; the old set is renamed back, which may fail too and
\* is not looked at.
SwapFails ==
    /\ OfflineAt("swap")
    /\ \E restored \in BOOLEAN : SetRepositories(roots[mounted].repositories, restored)
    /\ OfflineGoto("recover")
    /\ UNCHANGED <<disk, files, clones, default, snapshots, replay, platform,
                   lock, OnlyOffline, bounds>>

\* The initramfs and GRUB; a migration checks the inventory here, a release
\* upgrade leaves that to the verifier.
PersistApplied ==
    LET op == offline.op
        r == TransitionTo(offline.mem, "AwaitingReboot")
    IN  /\ OfflineAt("finish")
        /\ Kind[op] = "PackageMigration" => ResultMatchesPlan(op)
        /\ CanTransition(Kind[op], offline.mem, "AwaitingReboot")
        /\ SaveState(op, r)
        /\ offline' = [offline EXCEPT !.pc = "unmark", !.mem = r]
        /\ UNCHANGED <<files, storage, replay, platform, lock, OnlyOffline, bounds>>

RemoveMarker ==
    /\ OfflineAt("unmark") \/ OfflineAt("unmarkFailed")
    /\ MarkerIsCurrent
    /\ SetMarker(NoOp)
    /\ OfflineGoto("reboot")
    /\ UNCHANGED <<disk, files, clones, default, snapshots, replay, platform,
                   lock, OnlyOffline, bounds>>

-----------------------------------------------------------------------------
\* run() returns an error.
OfflineFails ==
    /\ \E pc \in {"load", "revalidate", "zypper", "repositories", "finish", "unmark"} : OfflineAt(pc)
    /\ OfflineGoto("recover")
    /\ UNCHANGED <<disk, files, storage, replay, platform, lock, OnlyOffline, bounds>>

\* mark_recovery reloads the record, whatever state it is in.
MarkRecovery ==
    /\ OfflineAt("recover")
    /\ MarkerIsCurrent
    /\ SaveState(offline.op,
                 Settle(disk[offline.op], "NeedsRecovery", "OFFLINE_APPLY_FAILED"))
    /\ OfflineGoto("unmarkFailed")
    /\ UNCHANGED <<files, storage, replay, platform, lock, OnlyOffline, bounds>>

\* The recovery could not be recorded, or the marker not be removed: it stays
\* and the worker exits without asking for a reboot.
RecoveryRefused ==
    /\ \/ /\ OfflineAt("recover")
          /\ \/ ~MarkerIsCurrent
             \/ ~ValidateState(Settle(disk[offline.op], "NeedsRecovery",
                                      "OFFLINE_APPLY_FAILED"))
       \/ OfflineAt("unmarkFailed")
    /\ Release("offline")
    /\ OfflineGoto("stopped")
    /\ UNCHANGED <<disk, files, storage, replay, platform, OnlyOffline, bounds>>

\* Mutant, the behaviour before 0.2.9: the worker ends and asks for no reboot.
NoReboot ==
    /\ OfflineAt("reboot")
    /\ Marker = NoOp
    /\ OfflineGoto("stopped")
    /\ Release("offline")
    /\ UNCHANGED <<disk, files, storage, replay, platform, OnlyOffline, bounds>>

\* reboot_after_cleanup: only when no marker is left.
OfflineReboot ==
    /\ OfflineAt("reboot")
    /\ Marker = NoOp
    /\ mode' = "down"
    /\ offline' = IdleOffline
    /\ Release("offline")
    /\ UNCHANGED <<disk, files, storage, replay, mounted, OnlyOffline, bounds>>

\* systemctl refuses.  The worker exits with an error; the marker is gone, so
\* systemd's cleanup has nothing to do and the machine stands still.
RebootFails ==
    /\ OfflineAt("reboot")
    /\ Marker = NoOp
    /\ OfflineGoto("stranded")
    /\ Release("offline")
    /\ UNCHANGED <<disk, files, storage, replay, platform, OnlyOffline, bounds>>

\* Another request has appeared: nobody reboots over it.
RebootRefused ==
    /\ OfflineAt("reboot")
    /\ Marker # NoOp
    /\ OfflineGoto("stopped")
    /\ Release("offline")
    /\ UNCHANGED <<disk, files, storage, replay, platform, OnlyOffline, bounds>>

\* systemd's own cleanup service: a marker nobody removed is removed and the
\* machine rebooted.  A foreign updater's run ends the same way.
SystemUpdateCleanup ==
    /\ OfflineAt("stopped")
    /\ Marker # NoOp
    /\ SetMarker(NoOp)
    /\ mode' = "down"
    /\ offline' = IdleOffline
    /\ UNCHANGED <<disk, files, clones, default, snapshots, replay, mounted, lock,
                   OnlyOffline, bounds>>

OfflineProgress ==
    \/ Resolve \/ LoadStaged \/ Revalidate \/ OfflineZypperWrites \/ OfflineZypperDone
    \/ MoveRepositoriesAway \/ InstallRepositories \/ SwapFails
    \/ PersistApplied \/ RemoveMarker \/ OfflineFails \/ MarkRecovery
    \/ RecoveryRefused \/ OfflineReboot \/ RebootFails \/ RebootRefused
    \/ SystemUpdateCleanup
=============================================================================
