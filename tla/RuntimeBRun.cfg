\* Four requests, one frame of another sender, one growth of the memory.
SPECIFICATION FairSpec
CONSTANTS
  Empty       = Empty
  Strings     <- MCStrings
  Calls       <- MCCalls
  Strays      <- MCStrays
  HeaderLen   = 2
  StackFrames = 1
  MaxRequests = 4
  MaxStrays   = 1
  MaxGrowth   = 1
INVARIANTS
  TypeOK
  AnswersMatch
  RepliesInOrder
  TimeoutIsFinal
  MismatchNeedsCause
  ErrorMeansTrap
  InstanceBalanced
PROPERTIES
  FramesAnswered
  HostEnds
CHECK_DEADLOCK FALSE
