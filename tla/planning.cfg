\* One window, one release and one migration, two operations.
SPECIFICATION Spec
CONSTANTS
  p = p
  q = q
  k = k
  Names <- MCNames
  Multiversion <- MCMultiversion
  MaxEdition = 2
  Windows = {w1}
  Offers <- MCOffers
  Mirrors <- MCMirrors
  InitialInventory <- MCInventory
  InitialIdentity <- Old
  InitialMirror <- MCMirror
  None = None
  MaxClock = 2
  MaxEvents = 2
  MaxOperations = 2
  MaxFaults = 1
INVARIANTS
  TypeOK
  NoRedisplay
  OfferIsCurrent
  ConsumedMigrationIsInstalled
PROPERTIES
  AdmittedOffers
  AppliedAsConfirmed
CHECK_DEADLOCK FALSE
