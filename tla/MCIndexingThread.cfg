SPECIFICATION Spec
CONSTANTS
  Fields = {"f", "g"}
  Threshold = 1
  MaxDocs = 2
  MaxRebuilds = 1
  MaxTasks = 1
  MaxFailures = 1
INVARIANTS IndexingSafe
PROPERTIES IndexingLives
CHECK_DEADLOCK FALSE
