SPECIFICATION Spec
CONSTANTS
  Account = {plain}
  Password = {secret}
  AtText = {}
  CloseText = {}
  LongAccount = {}
  MaxFaults = 1
  MaxNodes = 1
INVARIANT RowIsOfCall
