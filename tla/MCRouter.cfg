CONSTANTS
  Nodes = {"n1", "n2"}
  Replicas <- MCReplicas
  Slots = 1
  Requests <- MCRequests
  NoNode = "none"
SPECIFICATION MCSpec
INVARIANTS ResultsExact FailuresContained AnswersTrue FreshReads
PROPERTY Answered
CHECK_DEADLOCK FALSE
