\* An update and a release upgrade, interrupted twice, with no requests but Start.
SPECIFICATION FairSpec
CONSTANTS
  Updates = {u}
  Releases = {r}
  Migrations = {}
  Ops <- MCOps
  Kind <- MCKind
  ManifestSequence <- MCManifestSequence
  Workers = {w1}
  Sessions = {s1}
  NoOp = NoOp
  Foreign = Foreign
  MaxSequence = 12
  MaxSnapshots = 2
  MaxClones = 0
  MaxStarts = 1
  MaxRequests = 0
  MaxCrashes = 2
INVARIANTS
  PartialIsOnRecord
PROPERTIES
  InterruptedSettles
