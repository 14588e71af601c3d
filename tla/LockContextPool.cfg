SPECIFICATION FairSpec
CONSTANTS
  Requests = {1, 2, 3, 4}
  Key <- OwnKey
  MessageId <- SomeIds
  CacheSize = 1
  Creates = {4}
  Slow = {1}
  Joins = {4}
  Null = 0
INVARIANTS TypeOK OneHolder AnswerIsOwn AnsweredHasAnswer
PROPERTIES EveryRequestEnds RefusedOnlyAtLimit
