CONSTANTS
  N = 2
  Caller <- ChainCaller
  Propagates = {0}
  Fragile = {1}
SPECIFICATION FairSpec
INVARIANTS DecisionInv NoCommitAfterFailure
PROPERTIES NobodyHangsWithoutTm StarterFollows
