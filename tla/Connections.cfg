SPECIFICATION ConnectionsSpec
CONSTANTS
  MaxMessages = 4
  MaxSize = 3
  Room = 2
  ClientFds = {3, 4}
  SocketIds = 4
  SocketFails = TRUE
  MaxSends = 2
  CgiFds = {3}
  IdOf <- OwnIds
  MaxCgiConns = 2
  MaxSerial = 2
  MaxEvents = 2
  c1 = c1
  c2 = c2
  Clients = {c1, c2}
  Sockets = {3, 4}
  Shards = {10}
  SLOT_HASH_VALUE = 2
  Programs <- ProgramsDef
  MaxDrops = 1
INVARIANTS
  TypeOK
  StreamFramed
  OneSocket
  NoCarryOver
  MixedOnlyIfBroken
  AnswersKeepOrder
  MisroutedOnlyIfLost
  
  ReleasedOnce
PROPERTIES
  Drained
  StopReturns
  CompleteIsAnswered
  
CHECK_DEADLOCK FALSE
