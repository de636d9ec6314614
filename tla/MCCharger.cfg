SPECIFICATION Live
CONSTANTS
  Faults = {"io", "electric", "budget", "source"}
  SourceRetries = 2
INVARIANTS TypeOK EnginesGuarded RunsForAReason
PROPERTIES ImplementsEngine ChargingEnds
