SPECIFICATION FairSpec
CONSTANTS
  MaxID = 2
  Code <- OneCode
  PeerRequest <- LoginCheck
  MaxSessions = 3
  MaxSends = 1
  MaxErrorReads = 1
  SendBuffer = 3
INVARIANTS
  TypeOK
  KeysAreIDs
  RegistryExact
  AnswersOwnPeer
  DeathHasCause
  MissOnlyAfterEnd
PROPERTIES
  ServerIsService
  QueuedLoginAnswered
