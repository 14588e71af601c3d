CONSTANTS
  N = 3
  Caller <- TreeCaller
  Propagates <- All
  Fragile = {}
SPECIFICATION Spec
INVARIANTS AgreementInv Agreement NoFailedBranchCommits CommitKnownToTm CommittedGroupIsComplete
PROPERTIES ImplementsGroupCommit CommitStands
