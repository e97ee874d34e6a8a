SPECIFICATION HostSpec
CONSTANTS
  NoRecord = NoRecord
  m1 = m1
  m2 = m2
  Order <- MCOrder
  Replacements = {g1, g2}
PROPERTY FailedReplacementHarmless
CHECK_DEADLOCK FALSE
