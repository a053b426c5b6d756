SPECIFICATION Spec
CONSTANTS
  Base = 12
  Limit = 34
  ReadSize = 32
  Protocol <- MCProtocol
  Sample <- MCSample
  MaxRows = 1
INVARIANTS
  CodecTypeOK
  ReadsBack
  GarbledOnlyIfCut
  ClassReadsBack
