SPECIFICATION FairSpec
CONSTANTS
  MaxTokens = 6
  MaxSent = 2
INVARIANTS TypeOK OneConnection ShownIsTrue
PROPERTIES LostSocketReplaced LinkImplemented
CHECK_DEADLOCK FALSE
