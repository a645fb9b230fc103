SPECIFICATION Spec
CONSTANTS
  WorkerNumber = 1
  Fds = {0, 1}
  ListenFd = 0
  Conns = {c1, c2}
  MaxMsgs = 0
  Ends = {"fin"}
  Listener = Listener
  None = None
  Api = {"sendMessage"}
  MaxCalls = 1
  OptionSets <- NoOptions
INVARIANT RequestMeetsItsConnection
CHECK_DEADLOCK FALSE
