\* One release upgrade through staging, offline boot, verification and recovery.
SPECIFICATION FairSpec
CONSTANTS
  Updates = {}
  Releases = {r}
  Migrations = {}
  Ops <- MCOps
  Kind <- MCKind
  ManifestSequence <- MCManifestSequence
  Workers = {w1}
  Sessions = {s1}
  NoOp = NoOp
  Foreign = Foreign
  MaxSequence = 15
  MaxSnapshots = 1
  MaxClones = 1
  MaxStarts = 1
  MaxRequests = 2
  MaxCrashes = 2
INVARIANTS
  MarkerHasSnapshot
  RepositoryOutageIsRecoverable
PROPERTIES
  CompletedIsTrue
  InterruptedSettles
  OfflineBootEnds
