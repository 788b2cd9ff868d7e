SPECIFICATION Spec
CONSTANTS
  Sender = {web,sweep}
  Sweep = sweep
  None = None
  OpenBudget = 1
  OwnerBudget = 1
  Ceiling = 3
  MaxFailures = 1
  MaxRefusals = 2
INVARIANTS BudgetsHold StrangersSpendTheirOwn SentCodeArrived
