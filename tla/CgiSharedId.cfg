SPECIFICATION ConnectionsSpec
CONSTANTS
  MaxMessages = 4
  MaxSize = 3
  Room = 2
  ClientFds = {3, 4}
  SocketIds = 4
  SocketFails = TRUE
  MaxSends = 2
  CgiFds = {3, 4}
  IdOf <- SharedId
  MaxCgiConns = 2
  MaxSerial = 2
  MaxEvents = 2
  c1 = c1
  c2 = c2
  Clients = {c1, c2}
  Sockets = {3, 4}
  Shards = {10}
  SLOT_HASH_VALUE = 2
  Programs <- ProgramsDef
  MaxDrops = 1
INVARIANT SameDescriptor
CHECK_DEADLOCK FALSE
