SPECIFICATION Spec
CONSTANTS
  Release = {1, 2}
  First = 1
  CarriesRecovery = {1, 2}
  MayRollBack = {1, 2}
  MayDowngrade = {1}
  Faults = {"package", "backup", "media", "copy", "lk"}
  MaxLosses = 2
  MaxRequests = 3
  Minimum <- MCMinimum
  Torn = Torn
  Headless = Headless
  Nothing = Nothing
INVARIANTS TypeOK OneRelease Restorable ComesBack RecordsHold
PROPERTIES ImplementsSwitch
