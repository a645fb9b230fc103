SPECIFICATION FairSpec
CONSTANTS
  Tables = {"player"}
  Objects = {7, 8}
  Fields = {"a", "b", "c"}
  Data <- Values
  FromJson <- Signed
  v2m <- ValueType
  Stored <- ReadBack
  Unquotable = {10}
  Zero <- NoValue
  Requests <- AllRequests
  DbFails = TRUE
  MaxRequests = 3
  MaxQueue = 2
  MaxCrashes = 1
INVARIANTS CacheIsFresh AcknowledgedIsStored ColumnsFit
PROPERTIES AnswersInOrder RequestsExecuted
CHECK_DEADLOCK FALSE
