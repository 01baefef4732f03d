\* KeepCurrent of one client between the two halves of a rollback verification.
SPECIFICATION Spec
CONSTANTS
  Updates = {u}
  Releases = {}
  Migrations = {}
  Ops <- MCOps
  Kind <- MCKind
  ManifestSequence <- MCManifestSequence
  Workers = {w1}
  Sessions = {s1, s2}
  NoOp = NoOp
  Foreign = Foreign
  MaxSequence = 12
  MaxSnapshots = 1
  MaxClones = 1
  MaxStarts = 1
  MaxRequests = 2
  MaxCrashes = 0
PROPERTIES
  CompletedIsTrue
