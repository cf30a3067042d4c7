SPECIFICATION MCSpec
CONSTANTS
  e1 = e1
  e2 = e2
  r1 = r1
  f1 = f1
  f2 = f2
  public = public
  restricted = restricted
  t1 = t1
  t2 = t2
  m1 = m1
  m2 = m2
  x1 = x1
  x2 = x2
  None = None
  Ids <- MCIds
  TypeOf <- MCTypeOf
  Facts <- MCFacts
  Tiers <- MCTiers
  Restricted = restricted
  Clients <- MCClients
  ProposalIds <- NoProposals
  Drafts <- MCDrafts
  Operations <- TransactOperations
  MaxClock = 0
  Skews = {0}
  MaxAudit = 3
PROPERTIES
  WorkIsAllOrNothing
