\* Two requests at a time, one lead at a time, one fault.
CONSTANTS
  Passes = {p1, p2}
  Callers = {c1, c2}
  Reconciler = r
  None = None
  MaxLeads = 1
  MaxRequests = 2
  MaxFaults = 1
SPECIFICATION FairSpec
INVARIANTS TypeOK OneWaiting ChainUnbroken
PROPERTY ChainRevives
CHECK_DEADLOCK FALSE
