\* An update and a release upgrade, with one recovery between them.
SPECIFICATION Spec
CONSTANTS
  Updates = {u}
  Releases = {r}
  Migrations = {}
  Ops <- MCOps
  Kind <- MCKind
  ManifestSequence <- MCManifestSequence
  Workers = {w1}
  Sessions = {s1}
  NoOp = NoOp
  Foreign = Foreign
  MaxSequence = 12
  MaxSnapshots = 2
  MaxClones = 1
  MaxStarts = 1
  MaxRequests = 1
  MaxCrashes = 1
INVARIANTS
  RollbackTargetIsClean
PROPERTIES
  CompletedIsTrue
  ImplementsProtectedChange
