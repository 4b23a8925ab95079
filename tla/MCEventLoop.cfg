SPECIFICATION FairLoop
CONSTANTS
  Clients = {c1, c2}
  MaxPowers = 3
  MaxLoad = 2
  MaxQueue = 1
INVARIANTS BatchIsLive SubscribersAreTold AnswerIsOwn
PROPERTIES RequestIsAnswered
CHECK_DEADLOCK FALSE
