\* Four concurrent appends from two instances whose clocks agree.
CONSTANTS
  q1 = q1
  q2 = q2
  q3 = q3
  q4 = q4
  i1 = i1
  i2 = i2
  Request = {q1, q2, q3, q4}
  Instance = {i1, i2}
  InstanceOf <- MCInstanceOf
  Skew <- Agreeing
  Genesis = Genesis
  Free = Free
SPECIFICATION FairSpec
INVARIANTS
  TypeOK
  ChainValid
PROPERTIES
  ImplementsAuditLog
  AppendsEnd
CHECK_DEADLOCK FALSE
