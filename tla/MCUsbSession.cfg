SPECIFICATION Live
CONSTANTS
  Faults = {"clock", "switch", "sample", "register", "refuse", "session", "controller"}
  MaxFaults = 2
  MaxEvents = 3
  SourceRetries = 1
  MonitorTolerance = 2
  ReconnectAttempts = 2
INVARIANTS TypeOK ProofIsFresh AttachedIsWatched
PROPERTIES SessionEnds ImplementsLines
