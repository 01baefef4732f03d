\* One planning request in every scenario of MCUpdatePlanning.
SPECIFICATION Spec
CONSTANTS
  p = p
  q = q
  Names <- MCNames
  Scenarios <- MCScenarios
  MaxWord = 7
  Margin = 1
  MinBoot = 2
  MinEsp = 1
  MinBattery = 40
  MaxVersion = 2
INVARIANTS
  TypeOK
  PlanIsWholeTransaction
  PlanIsOfOneSystem
  VendorsAreTrue
  PlanIsGranted
  SourcesAreTrusted
  HostCanTakeIt
  SpaceSuffices
CHECK_DEADLOCK FALSE
