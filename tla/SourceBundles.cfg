SPECIFICATION SteadySpec
CONSTANTS
  typed = typed
  scan = scan
  copy = copy
  left = left
  right = right
  first = first
  second = second
  Imports <- MCImports
  References = {copy}
  Scanned = {scan}
  Pdfs <- MCPdfs
  Hash <- OwnHash
  Workers = {left}
  Ticks = {first}
  HostOf <- OneTick
  ManualStates = {"REVIEWED"}
  LawTargets = {"IN_REVIEW", "APPROVED_FOR_PUBLISHING", "PUBLISHED", "DRAFT"}
  MaxStops = 0
  SlowJobs = FALSE
INVARIANTS
  CitedSourcesKept
PROPERTIES
  SettledLawKeepsSources
CHECK_DEADLOCK FALSE
