\* One update, two clients, each of which may start it twice.
SPECIFICATION Spec
CONSTANTS
  Updates = {u}
  Releases = {}
  Migrations = {}
  Ops <- MCOps
  Kind <- MCKind
  ManifestSequence <- MCManifestSequence
  Workers = {w1, w2}
  Sessions = {s1, s2}
  NoOp = NoOp
  Foreign = Foreign
  MaxSequence = 7
  MaxSnapshots = 2
  MaxClones = 1
  MaxStarts = 2
  MaxRequests = 1
  MaxCrashes = 1
SYMMETRY Symmetry
INVARIANTS
  TypeOK
  OneTransactionAtATime
  SnapshotPrecedesWrite
  RollbackTargetIsClean
PROPERTIES
  NeverReapplied
