SPECIFICATION FairSpec
CONSTANTS
  WorkerNumber = 1
  Fds = {0, 1, 2}
  ListenFd = 0
  Conns = {c1, c2}
  MaxMsgs = 1
  Ends = {}
  Listener = Listener
  None = None
  Api = {}
  MaxCalls = 0
  OptionSets <- NoOptions
PROPERTIES MessagesDelivered ClientsAccepted
CHECK_DEADLOCK FALSE
