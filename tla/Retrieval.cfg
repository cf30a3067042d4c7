SPECIFICATION Spec
CONSTANTS
  e1 = e1
  e2 = e2
  e3 = e3
  Ann = Ann
  Bob = Bob
  user = user
  project = project
  java = java
  python = python
  backend = backend
  style = style
  preference = preference
  None = None
  s1 = s1
  s2 = s2
  s3 = s3
  s4 = s4
  s5 = s5
  s6 = s6
  s7 = s7
  Empty = Empty
  Trimmed <- MCTrimmed
  Ids <- MCIds
  Words <- MCWords
  Texts <- MCTexts
  Domains <- MCDomains
  Dates <- MCDates
  Matches <- MCMatches
  Similarity <- MCSimilarity
  Worlds <- MCWorlds
  Readers <- MCReaders
  Operations <- MCOperations
  Limits <- MCLimits
  Offsets <- MCOffsets
  Alphas <- MCAlphas
  Depths <- MCDepths
  PageSize = 2
  MaxCalls = 2
  MaxWrites = 1
INVARIANTS
  RetrievalTypeOK
  HitsAreVisible
  FusionRewardsAgreement
  RecallIsComplete
  AccessesCounted
  TraversalIsReach
  VerdictsIgnoreOrder
CHECK_DEADLOCK FALSE
