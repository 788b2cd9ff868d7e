SPECIFICATION Spec
CONSTANTS
  d1 = d1
  MailSub = {m1,m2}
  AppSub = {a1,a2}
  Device = {d1}
  Owner <- MCOwner
  Service = {x,y,z}
  Offices = {all,office}
  All = all
  Cap = 1
  DeviceSubs = 2
  DeviceServices = 1
  CitySubs = 1
  MaxRequests = 1
  MaxStale = 1
SYMMETRY Symmetric
INVARIANTS PolledBound PlansBound AppCeilings
PROPERTIES ExcessOnlyByConversion NoRenewalPastTheShare
