\* The clock of one instance is ahead by more than an append takes.
CONSTANTS
  q1 = q1
  q2 = q2
  q3 = q3
  q4 = q4
  i1 = i1
  i2 = i2
  Request = {q1, q2, q3, q4}
  Instance = {i1, i2}
  InstanceOf <- MCInstanceOf
  Skew <- Ahead
  Genesis = Genesis
  Free = Free
SPECIFICATION Spec
INVARIANT ChainValid
CHECK_DEADLOCK FALSE
