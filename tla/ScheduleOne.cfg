SPECIFICATION Spec
CONSTANTS
  r1 = r1  r2 = r2  r3 = r3
  DayHours = 24
  Plans <- MCPlans
  EnvPlan <- MCEnv
  Requests = {r1, r2, r3}
  MaxSchedulers = 4
  None = None
SYMMETRY Interchangeable
INVARIANTS OnlyOverlapsLeak SavedIsInForce FiresAsSet
