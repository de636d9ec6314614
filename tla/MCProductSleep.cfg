SPECIFICATION Spec
CONSTANTS
  Faults = {"receipt", "radio", "kernel", "signal", "lateAnswer", "signalledPrepare", "busyReturn"}
  MaxPresses = 1
  MaxEvents = 2
  MaxSilences = 1
  MaxResets = 1
INVARIANTS ReportIsTrue DarkUnlessWoken
PROPERTIES SleepsUnwatched
CHECK_DEADLOCK FALSE
