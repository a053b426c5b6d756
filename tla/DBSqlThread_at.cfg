SPECIFICATION Spec
CONSTANTS
  Account = {plain, withAt}
  Password = {secret, withClose}
  AtText = {withAt}
  CloseText = {withClose}
  LongAccount = {}
  MaxFaults = 0
  MaxNodes = 1
INVARIANT FailMeansNotCreated
