SPECIFICATION FairSpec
CONSTANTS
  MaxCall = 5
  Large = {3}
  MaxCrash = 3
  None = None
INVARIANTS
  TypeOK
  AnswerMatches
PROPERTIES
  AtMostOnce
  CallEnds
  SessionRecovers
CHECK_DEADLOCK FALSE
