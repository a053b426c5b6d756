SPECIFICATION Spec
CONSTANTS
  MaxID = 2
  Code <- OneCode
  PeerRequest <- LoginRegister
  MaxSessions = 2
  MaxSends = 3
  MaxErrorReads = 1
  SendBuffer = 3
INVARIANT AnswersInOrder
PROPERTIES
  HandoverIsMailbox
  ServerIsService
