SPECIFICATION Spec
CONSTANTS
  o = o
  q = q
  r1 = r1
  r2 = r2
  r3 = r3
  r4 = r4
  r5 = r5
  None = None
  Requests = {r1, r2, r3, r4, r5}
  Objects = {o, q}
  ObjectOf <- MCObjectOf
  MaxCalls = 2
  Shared = {o}
PROPERTY
  TimeoutsAreOwn
CHECK_DEADLOCK FALSE
