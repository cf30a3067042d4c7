SPECIFICATION Spec
CONSTANTS
  e1 = e1
  v1 = v1
  r1 = r1
  f1 = f1
  f2 = f2
  public = public
  restricted = restricted
  c1 = c1
  c2 = c2
  None = None
  Ids <- MCIds
  TypeOf <- MCTypeOf
  Facts <- MCFacts
  Tiers <- MCTiers
  Restricted = restricted
  Clients <- MCClients
  ProposalIds <- NoProposals
  Drafts <- MCDrafts
  Operations <- AllOperations
  MaxClock = 1
  Skews <- MCSkews
  MaxAudit = 3
SYMMETRY Symmetry
CONSTRAINT TimePassesForNodes
INVARIANTS
  TypeOK
  ReferentialClosure
  AuditChainValid
  AuditMatchesStore
  SearchIndexHidesRestricted
PROPERTIES
  ImplementsRecordedMemory
  CreateNeverOverwrites
