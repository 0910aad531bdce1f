SPECIFICATION FairVaultSpec
CONSTANTS
  c1 = c1
  c2 = c2
  Callers = {c1, c2}
  MaxSeeds = 2
  MaxRefresh = 2
  MaxFaults = 2
INVARIANT SeedWins
INVARIANT StoredIsSpendable
PROPERTY RejectedIsReplaced
PROPERTY AnswerServesAll
CHECK_DEADLOCK FALSE
