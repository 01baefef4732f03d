\* A release upgrade and a migration with a newer manifest, in either order.
SPECIFICATION Spec
CONSTANTS
  Updates = {}
  Releases = {r}
  Migrations = {m}
  Ops <- MCOps
  Kind <- MCKind
  ManifestSequence <- MCManifestSequence
  Workers = {w1}
  Sessions = {s1}
  NoOp = NoOp
  Foreign = Foreign
  MaxSequence = 12
  MaxSnapshots = 2
  MaxClones = 0
  MaxStarts = 1
  MaxRequests = 0
  MaxCrashes = 1
INVARIANTS
  CompletedConsumesSequence
PROPERTIES
  NoReplay
