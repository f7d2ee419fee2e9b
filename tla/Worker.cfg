SPECIFICATION WorkerSpec
CONSTANTS
  typed = typed
  scan = scan
  copy = copy
  left = left
  right = right
  first = first
  second = second
  Imports <- MCImports
  References = {}
  Scanned = {scan}
  Pdfs <- MCPdfs
  Hash <- OwnHash
  Workers = {left, right}
  Ticks <- MCTicks
  HostOf <- TwoHosts
  ManualStates = {"REVIEWED"}
  LawTargets = {}
  MaxStops = 1
  SlowJobs = FALSE
  LastDay = 1
  Rounds = {r1, r2}
  MaxChanges = 3
INVARIANTS
  WorkerTypeOK
  OneRunPerJob
  StatusTellsStage
  HitsOpen
  MissedOnlyWhileQueued
PROPERTIES
  ReviewedStands
  ImportsSettle
  SearchCatchesUp
CHECK_DEADLOCK FALSE
