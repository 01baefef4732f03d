-------------------------- MODULE UpgradeRefinement --------------------------
(***************************************************************************)
(* The machine of UpgradeSystem implements ProtectedChange: its snapshots  *)
(* are the copies, its Completed records the declared outcomes.            *)
(***************************************************************************)
EXTENDS UpgradeSystem

Outcome(r) ==
    IF r.state # "Completed" THEN "open"
    ELSE IF r.goal THEN "restored" ELSE "applied"

\* The snapshots that contain nothing of the operation they were taken for.
Copies ==
    {[op |-> snapshots[n].op, content |-> snapshots[n].root.packages] :
        n \in {i \in DOMAIN snapshots : CleanSnapshot(snapshots[i].op, i)}}

Content == [v \in Subvolumes |-> roots[v].packages]

Promise ==
    INSTANCE ProtectedChange WITH
        Places <- Subvolumes,
        content <- Content,
        running <- mounted,
        copies <- Copies,
        outcome <- [op \in Ops |-> Outcome(disk[op])]

\* The executors, the offline worker, rollbacks and the verifier keep that
\* promise as long as no two clients work on one operation: a write happens only
\* under a snapshot of the untouched system and never begins again on a changed
\* one, a clone is always a copy of such a snapshot and never of the mounted
\* root, and Completed tells the truth about the running system.
ImplementsProtectedChange == Promise!Spec

\* The promise about the storage alone, with the declared outcomes hidden.
Protection ==
    INSTANCE ProtectedChange WITH
        Places <- Subvolumes,
        content <- Content,
        running <- mounted,
        copies <- Copies,
        outcome <- [op \in Ops |-> "open"]

\* Whatever is declared, the roots and the snapshots only ever change as
\* ProtectedChange allows.
ImplementsProtection == Protection!Spec
=============================================================================
