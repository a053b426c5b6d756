SPECIFICATION FairSpec
CONSTANTS
  MaxID = 2
  Code <- OneCode
  PeerRequest <- LoginOnly
  MaxSessions = 2
  MaxSends = 2
  MaxErrorReads = 1
  SendBuffer = 16
PROPERTY SentLoginAnswered
