CONSTANTS
  Peers = {a, b}
  Sizes = {1, 3}
  SndBufSize = 2
SPECIFICATION FairSpec
INVARIANTS
  TypeOK
  AnswerBalance
  NoAnswerCutShort
  ConnectedListed
  StopsWhenAllClosed
PROPERTY
  Answered
CHECK_DEADLOCK FALSE
