SPECIFICATION Spec
CONSTANTS
  Tables = {"player"}
  Objects = {7}
  Fields = {"a"}
  Data <- Values
  FromJson <- Signed
  v2m <- ValueType
  Stored <- ReadBack
  Unquotable = {10}
  Zero <- NoValue
  Requests <- ReadAndWrite
  DbFails = FALSE
  MaxRequests = 2
  MaxQueue = 2
  MaxCrashes = 0
INVARIANT SerializeCreates
CHECK_DEADLOCK FALSE
