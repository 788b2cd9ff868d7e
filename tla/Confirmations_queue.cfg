SPECIFICATION FairSpec
CONSTANTS
  Sub = {1,2}
  Address = {a}
  To <- MCTo
  DayQuota = 3
  Line = 1
  Reserve = 1
  Headroom = 2
  Threshold = 2
  MaxFaults = 1
  MaxOther = 1
INVARIANTS OneConfirmation LiveIsMailable FloodBound
PROPERTY HeldGoesOut
