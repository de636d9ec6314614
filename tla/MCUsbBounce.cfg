SPECIFICATION Live
CONSTANTS
  Faults = {}
  MaxFaults = 0
  MaxEvents = 3
  SourceRetries = 1
  MonitorTolerance = 2
  ReconnectAttempts = 2
PROPERTIES HostIsFound
