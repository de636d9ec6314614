SPECIFICATION Spec
CONSTANTS
  Faults = {"signalledPrepare"}
  MaxPresses = 1
  MaxEvents = 1
  MaxSilences = 0
  MaxResets = 0
INVARIANTS SignalNeverLeavesQuiet
CHECK_DEADLOCK FALSE
