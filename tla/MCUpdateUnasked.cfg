SPECIFICATION Spec
CONSTANTS
  Release = {1, 2, 3}
  First = 1
  CarriesRecovery = {}
  MayRollBack = {1, 2, 3}
  MayDowngrade = {}
  Faults = {}
  MaxLosses = 0
  MaxRequests = 1
  Minimum <- MCMinimum
  Torn = Torn
  Headless = Headless
  Nothing = Nothing
INVARIANTS InstallOnlyWhenApplied
