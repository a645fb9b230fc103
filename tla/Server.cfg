SPECIFICATION Spec
CONSTANTS
  WorkerNumber = 1
  Fds = {0, 1}
  ListenFd = 0
  Conns = {c1, c2}
  MaxMsgs = 1
  Ends = {"fin"}
  Listener = Listener
  None = None
  Api = {"close", "stop"}
  MaxCalls = 1
  OptionSets <- NoOptions
INVARIANTS TypeOK OneOwner
PROPERTY SessionsWellFormed
SYMMETRY ConnSymmetry
CHECK_DEADLOCK FALSE
