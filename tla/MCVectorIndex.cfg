CONSTANTS
  Keys = {k1, k2}
  Vals = {1, 2}
  Envs <- MCEnvs
  Batch = 2
  MaxOps <- MCMaxOps
  MaxDocs = 5
  MaxDumps = 1
  MaxCrashes = 1
  Vectors = {1, 2, 3}
  ListOf <- MCListOf
  Lists = {1, 2}
  MaxVids = 3
  Stores <- MCStores
  BucketKeys = 1
  Slack = {0, 1}
  Limit = 6
  Budgets <- MCBudgets
SPECIFICATION MCSpec
INVARIANTS IndexFollows ListsSound
CHECK_DEADLOCK FALSE
SYMMETRY MCSymmetry
