SPECIFICATION Spec
CONSTANTS
  Catalog <- MCCatalog
  Memories <- MCMemories
  Budgets = {1, 2, 3, 5, 6, 7, 9, 10, 12, 14}
  PageSize = 3
  MaxMemory = 4
  TokensOf <- MCTokensOf
INVARIANTS
  TypeOK
  HardDirectivesKept
  SelectionIsGreedy
  HeaderErrorIsHonest
  ProfilerAgrees
PROPERTIES
  BudgetShrinks
  CompileEnds
CHECK_DEADLOCK FALSE
