SPECIFICATION FairSpec
CONSTANTS
  t1 = t1
  t2 = t2
  Tms <- TwoTms
  Nobody = Nobody
  Keys = 2
  Period = 2
  LockExpire = 2
  Digits = 1
  Late = 1
INVARIANTS LeaseInv
PROPERTIES LossHasCause RevivalHasCause DeadIsForgotten StartEnds
