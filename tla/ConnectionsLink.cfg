CONSTANTS
  Channels = {c1, c2, c3, c4}
  MaxBreaks = 1
  MaxDuplicates = 2
  Null = Null
SPECIFICATION Spec
INVARIANTS TypeOK OrphansPaidFor
PROPERTY StaysConnected
CHECK_DEADLOCK FALSE
