SPECIFICATION GovernanceSpec
CONSTANTS
  e1 = e1
  e2 = e2
  f1 = f1
  f2 = f2
  public = public
  restricted = restricted
  c1 = c1
  c2 = c2
  p1 = p1
  p2 = p2
  None = None
  Ids <- MCIds
  TypeOf <- MCTypeOf
  Facts <- MCFacts
  Tiers <- MCTiers
  Restricted = restricted
  Clients <- MCClients
  Drafts <- MCDrafts
  ProposalIds <- MCProposalIds
  Operations <- MCOperations
  MaxClock = 1
  Skews = {0}
  MaxAudit = 3
SYMMETRY Symmetry
INVARIANTS
  GovernanceTypeOK
  ReferentialClosure
  DecisionsAudited
PROPERTIES
  AgentsLeaveRestrictedAlone
  ApprovalAppliesProposal
