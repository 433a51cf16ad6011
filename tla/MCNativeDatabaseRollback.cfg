SPECIFICATION Spec
CONSTANTS
  d1 = d1
  d2 = d2
  s1 = s1
  s2 = s2
  s3 = s3
  s4 = s4
  s5 = s5
  a1 = a1
  a2 = a2
  b1 = b1
  b2 = b2
  b3 = b3
  c1 = c1
  None = None
  Stacks = {s1, s2, s3, s4, s5}
  Databases = {d1, d2}
  Changes = {a1, a2, b1, b2, b3, c1}
  JobOf <- PageTransaction
  Before <- PageOrder
  Failing = {b2}
  Wrong = {}
  Alone = {}
INVARIANT
  RollbackUnwinds
CHECK_DEADLOCK FALSE
