---------------------------- MODULE BootVerifier -----------------------------
(***************************************************************************)
(* lyra-upgrade-verify, started once on every normal boot                  *)
(* (verifier/src/main.rs, verifier/src/pending.rs): reconcile the          *)
(* operations a crash interrupted, then verify one operation that awaited  *)
(* this boot, and consume its manifest sequence.                           *)
(*                                                                         *)
(* Which of several candidates is taken (the newest updated_at) is left    *)
(* open: the model allows any of them.                                     *)
(***************************************************************************)
EXTENDS Machine

VerifierAt(pc) == verifier.pc = pc
VerifierExit == verifier' = IdleVerifier /\ Release("verifier")
OnlyVerifier == <<worker, session, offline>>

VerifierAcquire ==
    /\ VerifierAt("acquire")
    /\ Acquire("verifier")
    /\ verifier' = [verifier EXCEPT !.pc = "scan"]
    /\ UNCHANGED <<disk, files, storage, replay, platform, OnlyVerifier, bounds>>

\* TRANSACTION_BUSY: this boot goes unverified.
VerifierBusy ==
    /\ VerifierAt("acquire")
    /\ lock # "free"
    /\ VerifierExit
    /\ UNCHANGED <<disk, files, storage, replay, platform, OnlyVerifier, bounds>>

\* Mutants: an interrupted application is overlooked; a prepared operation
\* always counts as being continued.
ApplyingOverlooked(op) == disk[op].state \in InProgress \ {"Applying"}
ReadyOverlooked(op) == disk[op].state \in InProgress \ {"ReadyToReboot"}

\* pending_operation.  ReadyToReboot is interrupted only when the marker that
\* would continue it is gone.
Interrupted(op) ==
    /\ disk[op].state \in InProgress
    /\ disk[op].state = "ReadyToReboot" => Marker # op

Candidate(op) == disk[op].state \in {"AwaitingReboot", "VerifyingBoot"}

Scan ==
    /\ VerifierAt("scan")
    /\ \E op \in Ops \cup {NoOp} :
          /\ IF op = NoOp THEN \A o \in Ops : ~Candidate(o) ELSE Candidate(op)
          /\ verifier' =
                [pc |-> "reconcile", op |-> op,
                 mem |-> IF op = NoOp THEN AbsentRecord ELSE disk[op],
                 todo |-> {o \in Ops : Interrupted(o)},
                 scanned |-> [o \in Ops |-> IF Interrupted(o) THEN disk[o] ELSE AbsentRecord]]
    /\ UNCHANGED <<disk, files, storage, replay, platform, lock, OnlyVerifier, bounds>>

InterruptedRecord(op) ==
    Settle(verifier.scanned[op], InterruptedState(verifier.scanned[op].state),
           "OPERATION_INTERRUPTED")

Reconcile ==
    /\ VerifierAt("reconcile")
    /\ \E op \in verifier.todo :
          /\ SaveState(op, InterruptedRecord(op))
          /\ verifier' = [verifier EXCEPT !.todo = @ \ {op}, !.scanned[op] = AbsentRecord]
    /\ UNCHANGED <<files, storage, replay, platform, lock, OnlyVerifier, bounds>>

\* persist exits the whole process when a record is refused.
ReconcileRefused ==
    /\ VerifierAt("reconcile")
    /\ \E op \in verifier.todo : ~ValidateState(InterruptedRecord(op))
    /\ VerifierExit
    /\ UNCHANGED <<disk, files, storage, replay, platform, OnlyVerifier, bounds>>

NothingPending ==
    /\ VerifierAt("reconcile")
    /\ verifier.todo = {} /\ verifier.op = NoOp
    /\ VerifierExit
    /\ UNCHANGED <<disk, files, storage, replay, platform, OnlyVerifier, bounds>>

\* A candidate still in VerifyingBoot from an earlier boot is taken up again.
BeginVerification ==
    LET r == IF verifier.mem.state = "AwaitingReboot"
             THEN TransitionTo(verifier.mem, "VerifyingBoot") ELSE verifier.mem
    IN  /\ VerifierAt("reconcile")
        /\ verifier.todo = {} /\ verifier.op # NoOp
        /\ SaveState(verifier.op, r)
        /\ verifier' = [verifier EXCEPT !.pc = "check", !.mem = r]
        /\ UNCHANGED <<files, storage, replay, platform, lock, OnlyVerifier, bounds>>

-----------------------------------------------------------------------------
\* Mutant: the identity of the mounted root is not checked.
PackagesMatch(op) ==
    IF disk[op].goal THEN Installed = before[op] ELSE ResultMatchesPlan(op)

\* What the --check-boot child can tell from the system: after a rollback,
\* that the selected clone is mounted and still selected and holds the
\* packages recorded before the operation; otherwise the planned result.
BootMatches(op) ==
    IF disk[op].goal
    THEN /\ mounted = disk[op].boot_snapshot
         /\ default = disk[op].boot_snapshot
         /\ Installed = before[op]
    ELSE ResultMatchesPlan(op)

\* finalize_verification of a passed check.
Passed(r) == Settle(r, "Completed", "None")

\* Mutant: the wrong outcome consumes the sequence.
RollbackConsumes(op) == Signed(op) /\ verifier.mem.goal

\* Only an upgrade that was not rolled back counts as applied.
ConsumesSequence(op) == Signed(op) /\ ~verifier.mem.goal

CheckPasses ==
    /\ VerifierAt("check")
    /\ BootMatches(verifier.op)
    /\ verifier' = IF ConsumesSequence(verifier.op)
                   THEN [verifier EXCEPT !.pc = "consume"]
                   ELSE [verifier EXCEPT !.pc = "final", !.mem = Passed(@)]
    /\ UNCHANGED <<disk, files, storage, replay, platform, lock, OnlyVerifier, bounds>>

\* Any probe may fail, and the supervised child may time out.
CheckFails ==
    /\ VerifierAt("check")
    /\ verifier' = [verifier EXCEPT !.pc = "final",
          !.mem = Settle(@, "NeedsRecovery", "POST_BOOT_VERIFICATION_FAILED")]
    /\ UNCHANGED <<disk, files, storage, replay, platform, lock, OnlyVerifier, bounds>>

\* write_sequence: refuse a decrease, create the temporary file exclusively ...
WriteSequenceTmp ==
    /\ VerifierAt("consume")
    /\ lastSequence <= ManifestSequence[verifier.op]
    /\ ~staleTmp
    /\ staleTmp' = TRUE
    /\ verifier' = [verifier EXCEPT !.pc = "replace"]
    /\ UNCHANGED <<disk, files, storage, lastSequence, platform, lock, OnlyVerifier, bounds>>

Unconsumed(r) == Settle(r, "NeedsRecovery", "MANIFEST_SEQUENCE_PERSIST_FAILED")

\* ... and rename it over the record; the directory may fail to sync after that.
ReplaceSequence ==
    /\ VerifierAt("replace")
    /\ lastSequence' = ManifestSequence[verifier.op]
    /\ staleTmp' = FALSE
    /\ \E r \in {Passed(verifier.mem), Unconsumed(verifier.mem)} :
          verifier' = [verifier EXCEPT !.pc = "final", !.mem = r]
    /\ UNCHANGED <<disk, files, storage, platform, lock, OnlyVerifier, bounds>>

SequenceFails ==
    /\ VerifierAt("consume") \/ VerifierAt("replace")
    /\ verifier' = [verifier EXCEPT !.pc = "final", !.mem = Unconsumed(@)]
    /\ UNCHANGED <<disk, files, storage, replay, platform, lock, OnlyVerifier, bounds>>

SaveVerdict ==
    /\ VerifierAt("final")
    /\ SaveState(verifier.op, verifier.mem)
    /\ VerifierExit
    /\ UNCHANGED <<files, storage, replay, platform, OnlyVerifier, bounds>>

\* The unit's own timeout kills the control group.
VerifierDies ==
    /\ verifier.pc # "idle"
    /\ VerifierExit
    /\ CountCrash
    /\ UNCHANGED <<disk, files, storage, replay, platform, OnlyVerifier>>

VerifierProgress ==
    \/ VerifierAcquire \/ VerifierBusy \/ Scan \/ Reconcile \/ ReconcileRefused
    \/ NothingPending \/ BeginVerification \/ CheckPasses \/ CheckFails
    \/ WriteSequenceTmp \/ ReplaceSequence \/ SequenceFails \/ SaveVerdict
=============================================================================
