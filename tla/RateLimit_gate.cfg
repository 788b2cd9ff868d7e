SPECIFICATION Spec
CONSTANTS
  Worker = {w1,w2}
  n1 = n1
  n2 = n2
  area = area
  Network = {n1,n2}
  Area = {area}
  AreaOf <- MCAreaOf
  Nothing = Nothing
  Limit <- MCLimit
  TokenLimit <- MCTokenLimit
  FailLimit <- MCFailLimit
  DayLimit = 1
  Window = 2
  Hour = 1
  Day = 1
  Token = {t1,t2,t3}
INVARIANTS PlacesAreServed RetryAfterSuffices ImmediateBound CheckedThenFilled
SYMMETRY Symmetric
