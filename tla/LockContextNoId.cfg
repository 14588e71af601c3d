SPECIFICATION Spec
CONSTANTS
  Requests = {1, 2}
  Key <- OwnKey
  MessageId <- NoKey
  CacheSize = 2
  Creates = {}
  Slow = {1, 2}
  Joins = {}
  Null = 0
INVARIANTS AnsweredIsAwake
