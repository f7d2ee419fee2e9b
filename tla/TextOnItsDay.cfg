SPECIFICATION Spec
CONSTANTS
  one = one
  two = two
  first = first
  second = second
  shall = shall
  may = may
  null = null
  law = law
  source = source
  Articles <- MCArticles
  Amendments <- MCAmendments
  Words <- MCWords
  NoPhrase = null
  MaxLen = 2
  LastDay = 3
  DraftDays = {1}
  DraftTexts <- MCDraftTexts
  EffectDays = {2, 3}
  Contents <- MCContents
  Law = law
  Source = source
  MaxDisabled = 0
INVARIANTS
  EffectiveTextIsPublic
CHECK_DEADLOCK FALSE
SYMMETRY MCSymmetry
