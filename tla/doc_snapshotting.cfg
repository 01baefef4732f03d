\* A power loss before the snapshot number is saved.
SPECIFICATION FairSpec
CONSTANTS
  Updates = {u}
  Releases = {}
  Migrations = {}
  Ops <- MCOps
  Kind <- MCKind
  ManifestSequence <- MCManifestSequence
  Workers = {w1}
  Sessions = {s1}
  NoOp = NoOp
  Foreign = Foreign
  MaxSequence = 12
  MaxSnapshots = 1
  MaxClones = 0
  MaxStarts = 1
  MaxRequests = 0
  MaxCrashes = 1
PROPERTIES
  SnapshottingEnds
