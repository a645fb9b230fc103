SPECIFICATION Spec
CONSTANTS
  WorkerNumber = 0
  Fds = {0, 1}
  ListenFd = 0
  Conns = {c1, c2}
  MaxMsgs = 1
  Ends = {"fin", "rst"}
  Listener = Listener
  None = None
  Api = {"close", "sendMessage", "setsockopt"}
  MaxCalls = 2
  OptionSets <- AllOptions
INVARIANTS RequestMeetsItsConnection CountsConnections
SYMMETRY ConnSymmetry
CHECK_DEADLOCK FALSE
