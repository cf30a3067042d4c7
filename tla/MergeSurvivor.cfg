SPECIFICATION Spec
CONSTANTS
  e1 = e1
  v1 = v1
  r1 = r1
  f1 = f1
  f2 = f2
  public = public
  restricted = restricted
  c1 = c1
  c2 = c2
  None = None
  Ids <- MCIds
  TypeOf <- MCTypeOf
  Facts <- MCFacts
  Tiers <- MCTiers
  Restricted = restricted
  Clients <- MCClients
  ProposalIds <- NoProposals
  Drafts <- MCDrafts
  Operations <- MergeOperations
  MaxClock = 0
  Skews = {0}
  MaxAudit = 4
SYMMETRY Symmetry
PROPERTIES
  MergeLeavesPrimary
