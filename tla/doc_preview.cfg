\* Two windows of one user share the cache of the offer.
SPECIFICATION Spec
CONSTANTS
  p = p
  q = q
  k = k
  Names <- MCNames
  Multiversion <- MCMultiversion
  MaxEdition = 2
  Windows = {w1, w2}
  Offers <- FewOffers
  Mirrors <- MCMirrors
  InitialInventory <- MCInventory
  InitialIdentity <- Old
  InitialMirror <- MCMirror
  None = None
  MaxClock = 0
  MaxEvents = 1
  MaxOperations = 1
  MaxFaults = 0
INVARIANTS
  NoRedisplay
CHECK_DEADLOCK FALSE
