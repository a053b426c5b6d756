SPECIFICATION FairSpec
CONSTANTS
  Account = {plain, withAt, tooLong}
  Password = {secret, withClose}
  AtText = {withAt}
  CloseText = {withClose}
  LongAccount = {tooLong}
  MaxFaults = 2
  MaxNodes = 2
INVARIANTS
  WorkerTypeOK
  LogicAfterSql
  
  
PROPERTIES
  QueueIsMailbox
  NodeAnswered
