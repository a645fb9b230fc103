SPECIFICATION FairSpec
CONSTANTS
  WorkerNumber = 0
  Fds = {0, 1}
  ListenFd = 0
  Conns = {c1}
  MaxMsgs = 0
  Ends = {"fin"}
  Listener = Listener
  None = None
  Api = {}
  MaxCalls = 0
  OptionSets <- NoOptions
PROPERTY RequestsHandled
CHECK_DEADLOCK FALSE
