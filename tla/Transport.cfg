SPECIFICATION FairSpec
CONSTANTS
  q1 = q1
  q2 = q2
  Calls <- TwoCalls
  MaxRetries = 2
INVARIANTS
  TypeOK
  AnswerOfLastAttempt
  TimerWhileAwaiting
  OnlyAstrayLeaks
PROPERTIES
  RemoteCallSpec
  EveryCallEnds
CHECK_DEADLOCK FALSE
