--------------------------- MODULE MCUpgradeSystem ---------------------------
(***************************************************************************)
(* Instances of UpgradeSystem small enough for TLC.  A .cfg picks which    *)
(* operations exist, by kind, and the bounds.                              *)
(***************************************************************************)
EXTENDS UpgradeRefinement, TLC

CONSTANTS Updates, Releases, Migrations   \* the operations of each kind

MCOps == Updates \cup Releases \cup Migrations
MCKind ==
    [o \in MCOps |-> CASE o \in Updates -> "UpdateWithinRelease"
                       [] o \in Releases -> "ReleaseUpgrade"
                       [] o \in Migrations -> "PackageMigration"]

\* A migration's manifest is newer than a release upgrade's.
MCManifestSequence == [o \in MCOps |-> IF o \in Migrations THEN 2 ELSE 1]

\* Threads are interchangeable, and so are clients; only safety runs use this.
Symmetry == Permutations(Workers) \cup Permutations(Sessions)
=============================================================================
