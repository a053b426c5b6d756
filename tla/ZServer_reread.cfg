SPECIFICATION Spec
CONSTANTS
  MaxID = 2
  Code <- OneCode
  PeerRequest <- LoginOnly
  MaxSessions = 2
  MaxSends = 1
  MaxErrorReads = 2
  SendBuffer = 3
INVARIANT DisconnectHandledOnce
