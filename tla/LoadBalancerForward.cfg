CONSTANTS
  a = a
  b = b
  t = t
  r1 = r1
  r2 = r2
  Null = Null
  Tms = {a, b}
  Tcs = {t}
  Requests = {r1, r2}
  From <- MCFrom
  Kind <- MCKind
  Threads <- MCThreads
  MaxChanges = 2
  MaxExecuted = 4
SPECIFICATION Spec
INVARIANT ForwardedToTm
CHECK_DEADLOCK FALSE
