SPECIFICATION FairSpec
CONSTANTS
  Key = {k1,k2}
  Address = {a}
  To <- MCTo
  Providers = 2
  BatchSize <- MCBatchSize
  Quota <- MCQuota
  MaxFailures = 2
  SystemicMin = 2
  MaxFaults = 1
  MaxOther = 1
INVARIANTS OneMailPerKey EveryProviderRefused TailDeferred
PROPERTIES KeepsThePromise ClaimIsSettled
