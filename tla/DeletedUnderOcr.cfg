SPECIFICATION Spec
CONSTANTS
  typed = typed
  scan = scan
  copy = copy
  left = left
  right = right
  first = first
  second = second
  Imports <- MCImports
  References = {}
  Scanned = {scan}
  Pdfs <- MCPdfs
  Hash <- OwnHash
  Workers = {left}
  Ticks = {first}
  HostOf <- OneTick
  ManualStates = {"REVIEWED"}
  LawTargets = {}
  MaxStops = 0
  SlowJobs = FALSE
INVARIANTS
  ExtractedFilesKept
CHECK_DEADLOCK FALSE
