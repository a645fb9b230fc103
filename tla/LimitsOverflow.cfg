SPECIFICATION LimitsFairSpec
CONSTANTS
  Span = 3
  Silence = 0
  Threshold = 2
  Interval = 2
  MaxSeconds = 6
  MaxPerSec = 2
PROPERTY OverflowIsReal
CHECK_DEADLOCK FALSE
