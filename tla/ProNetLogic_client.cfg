SPECIFICATION FairSpec
CONSTANTS
  MaxLinks = 2
  MaxRequests = 2
  MaxAnswers = 3
  MaxDepth = 2
  MaxCalls = 1
INVARIANTS
  ClientTypeOK
  DispatchedOnce
  InOrderUnlessNested
  AnswersReported
  FlagKnowsConnection
PROPERTY DealMsgReturns
