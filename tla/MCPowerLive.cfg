SPECIFICATION Live
CONSTANTS
  Faults = {"publish", "watchdog", "init", "stall"}
  critical_samples = 2
  MaxCrashes = 1
  MaxStarts = 1
PROPERTIES
  BootEnds
