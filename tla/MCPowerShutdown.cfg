SPECIFICATION Spec
CONSTANTS
  Faults = {"publish", "watchdog", "switch", "stop", "light", "sync"}
  critical_samples = 1
  MaxCrashes = 1
  MaxStarts = 2
INVARIANTS
  TypeOK
  DarkForInit
  OrderlyMeansSaved
  EndsAsPromised
PROPERTIES
  GraceKept
  ImplementsShutdown
