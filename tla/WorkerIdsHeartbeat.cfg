SPECIFICATION Spec
CONSTANTS
  t1 = t1
  t2 = t2
  Tms <- OneTm
  Nobody = Nobody
  Keys = 2
  Period = 30
  LockExpire = 30
  Digits = 9
  Late = 1
INVARIANT HeartbeatTellsAlive
