SPECIFICATION FairSpec
CONSTANTS
  typed = typed
  scan = scan
  copy = copy
  left = left
  right = right
  first = first
  second = second
  Imports = {typed}
  References = {}
  Scanned = {}
  Pdfs = {}
  Hash <- OwnHash
  Workers = {left}
  Ticks <- MCTicks
  HostOf <- OneHost
  ManualStates = {}
  LawTargets = {"IN_REVIEW"}
  MaxStops = 1
  SlowJobs = FALSE
PROPERTIES
  ClaimsRecovered
CHECK_DEADLOCK FALSE
