SPECIFICATION Live
CONSTANTS
  Faults = {"kernel", "signal"}
  MaxPresses = 1
  MaxEvents = 3
  MaxSilences = 1
  MaxResets = 1
INVARIANTS TypeOK QuarantineHolds RebornReturns
PROPERTIES QuarantineIsEarned ImplementsPromise WakeEndsSleep
