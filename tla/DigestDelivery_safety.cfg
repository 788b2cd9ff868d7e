SPECIFICATION Spec
CONSTANTS
  m1 = m1
  m2 = m2
  m3 = m3
  a1 = a1
  MailSub = {m1}
  AppSub = {a1}
  Slot = {k1}
  Id <- MCId
  HourQuota = 1
  DayQuota = 1
  Headroom = 0
  Fickle = {m1,a1}
  MaxFaults = 1
  MaxOther = 1
INVARIANTS SeenWasTold  QuotaKept
