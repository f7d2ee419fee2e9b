SPECIFICATION Spec
CONSTANTS
  one = one
  two = two
  first = first
  second = second
  shall = shall
  may = may
  null = null
  law = law
  source = source
  Articles <- MCArticles
  Amendments <- MCAmendments
  Words <- MCWords
  NoPhrase = null
  MaxLen = 2
  LastDay = 3
  DraftDays = {1, 2}
  DraftTexts <- MCDraftTexts
  EffectDays = {2, 3}
  Contents <- MCContents
  Law = law
  Source = source
  MaxDisabled = 1
INVARIANTS
  TypeOK
  NoOverlap
  TriggersAcceptAmendments
  GaplessHistory
  PublishedWhole
  HistoryExplained
  PublicReadIsLegal
PROPERTIES
  HistoryOnlySplits
  TextsInForce
CHECK_DEADLOCK FALSE
SYMMETRY MCSymmetry
