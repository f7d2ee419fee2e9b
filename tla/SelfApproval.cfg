SPECIFICATION Spec
CONSTANTS
  ali = ali
  huda = huda
  nasr = nasr
  decree = decree
  Users <- MCUsers
  Amendments = {}
  Edits <- DraftEdits
  Togglable = {}
  Excepted = {}
  MaxEvents = 4
  Nobody = nobody
  NoRequest = none
PROPERTIES
  PreparersDoNotApprove
CHECK_DEADLOCK FALSE
