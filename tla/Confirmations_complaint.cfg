SPECIFICATION Spec
CONSTANTS
  Sub = {1,2}
  Address = {a}
  To <- MCTo
  DayQuota = 2
  Line = 0
  Reserve = 1
  Headroom = 1
  Threshold = 2
  MaxFaults = 0
  MaxOther = 0
INVARIANT ComplaintStands
