SPECIFICATION Spec
SYMMETRY Symmetric
CONSTANTS
  ada = ada
  eve = eve
  t1 = t1
  t2 = t2
  t3 = t3
  a1 = a1
  a2 = a2
  e1 = e1
  e2 = e2
  Device = {d1}
  Token = {t1,t2,t3}
  Person = {ada,eve}
  Phone <- MCPhone
  Honest = {ada}
  Secret = {a1,a2,e1}
  Holder <- MCHolder
  Worker = {w1,w2}
  Sender = {web,sweep}
  None = None
  MaxInFlight = 2
INVARIANTS BitFollowsToken SubsStayWithTheirOwner
PROPERTY AccessOutlivesStrangers
