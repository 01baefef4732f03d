\* Cancel loads, the executor moves on, Cancel saves.
SPECIFICATION Spec
CONSTANTS
  Updates = {u}
  Releases = {}
  Migrations = {}
  Ops <- MCOps
  Kind <- MCKind
  ManifestSequence <- MCManifestSequence
  Workers = {w1}
  Sessions = {s1}
  NoOp = NoOp
  Foreign = Foreign
  MaxSequence = 12
  MaxSnapshots = 1
  MaxClones = 0
  MaxStarts = 1
  MaxRequests = 1
  MaxCrashes = 0
PROPERTIES
  CancelNeverWhileWriting
