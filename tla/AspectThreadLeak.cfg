CONSTANTS
  s1 = s1
  s2 = s2
  j = j
  p = p
  g = g
  t1 = t1
  t2 = t2
  f1 = f1
  Null = Null
  Threads = {t1, t2}
  Requests = {s1, s2, j, p}
  Header <- MCHeader
  Annotated = {s1, s2, j}
  Fetchers = {f1}
  MaxIds = 1
SPECIFICATION Spec
INVARIANT StartsItsOwn
CHECK_DEADLOCK FALSE
