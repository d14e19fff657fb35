SPECIFICATION MCSpec
CONSTANTS
  Top = 3
  FieldType <- MCFieldType
  Under <- MCUnder
  FloatAt <- MCFloatAt
  Coarse = {3}
  Table <- MCTable
  Requests <- MCRequests
  Indexings <- MCIndexings
  PageSize = 2
  Fields <- MCFields
  Default = 0
  Names = {"ia", "mb", "cab"}
  Kind <- MCKind
  On <- MCOn
  Logs <- MCLogs
  MaxCrashes = 1
INVARIANTS SearchIsExact FilterSound EngineIsTheLog
PROPERTY EngineComesToRest
CHECK_DEADLOCK FALSE
