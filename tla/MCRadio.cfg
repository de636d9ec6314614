SPECIFICATION Live
CONSTANTS
  Headsets = {h1}
  None = None
  Tries = 2
  Budget = 1
  QuickDrops = 1
  MaxFailures = 2
  MaxEvents = 2
INVARIANTS TypeOK HeldIsLeftAlone
PROPERTIES ImplementsRadioPromise WishCarried PagingEnds
CHECK_DEADLOCK FALSE
