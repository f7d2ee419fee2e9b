SPECIFICATION Spec
CONSTANTS
  ali = ali
  huda = huda
  nasr = nasr
  decree = decree
  Users <- MCUsers
  Amendments = {decree}
  Edits <- TextEdit
  Togglable = {"LEGISLATION_SELF_PUBLICATION"}
  Excepted = {ali}
  MaxEvents = 6
  Nobody = nobody
  NoRequest = none
INVARIANTS
  TypeOK
  ThreeHands
PROPERTIES
  IndependentDecisions
CHECK_DEADLOCK FALSE
SYMMETRY MCSymmetry
