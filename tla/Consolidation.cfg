SPECIFICATION ConsolidationSpec
CONSTANTS
  e1 = e1
  e2 = e2
  f1 = f1
  f2 = f2
  public = public
  restricted = restricted
  c1 = c1
  c2 = c2
  p1 = p1
  l1 = l1
  k1 = k1
  None = None
  Ids <- MCIds
  TypeOf <- MCTypeOf
  Facts <- MCFacts
  Tiers <- MCTiers
  Restricted = restricted
  Clients <- MCClients
  Drafts <- MCDrafts
  ProposalIds = {p1}
  LineageIds = {l1}
  ContradictionIds = {k1}
  Operations <- MCOperations
  MaxClock = 0
  Skews = {0}
  MaxAudit = 4
INVARIANTS
  ContradictionsClosed
  AuditMatchesStore
