SPECIFICATION FairSpec
CONSTANTS
  m1 = m1
  m2 = m2
  m3 = m3
  a1 = a1
  MailSub = {m1,m2}
  AppSub = {a1}
  Slot = {k1}
  Id <- MCId
  HourQuota = 1
  DayQuota = 3
  Headroom = 1
  Fickle = {}
  MaxFaults = 0
  MaxOther = 0
  
PROPERTY PersistentSlotIsTold
