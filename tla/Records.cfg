SPECIFICATION Spec
CONSTANTS
  n1 = n1
  n2 = n2
  n3 = n3
  a1 = a1
  Nodes <- MCNodes
  Articles <- MCArticles
  Clients = {c1, c2}
  None = none
  InitNodes <- MCInitNodes
  InitArticles <- MCInitArticles
  MaxRequests = 2
  Editors = {e1, e2}
  Settings = {g1, g2}
  Record = record
  MaxRevision = 3
  MaxMail = 1
  Terms = {w1, w2}
  Curators = {k1, k2}
  LastSet = 2
  SeedSet = {}
  i1 = i1
  i2 = i2
  i3 = i3
  Items <- MCItems
  FirstItems <- MCFirstItems
  Writers = {p1, p2}
  Shift = 10
  MaxSteps = 2
  LineKinds <- MCLineKinds
  MaxLines = 4
  d1 = d1
  d2 = d2
  Clerks <- MCClerks
  Assignments <- MCAssignments
  MaxEdits = 3
  Uses <- MCUses
  MaxUses = 1
  MaxBroken = 1
  CustomGrants <- MCCustomGrants
  DirectGrants <- MCDirectGrants
INVARIANTS
  TypeOK
  NoCycle
  NothingHangsFromTheGone
  DictionaryStaysWhole
  ReadsWhatIsWritten
  DraftsWhatItParsed
  StartsOnWholeSchema
PROPERTIES
  NoLostUpdate
  NoItemOverlooked
  NoDecisionBeyondPermission
  RevertLosesNothing
CHECK_DEADLOCK FALSE
