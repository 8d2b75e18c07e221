SPECIFICATION LiveSpec
CONSTANTS
  d1 = d1
  Domains = {d1}
  MaxRows = 2
  EmailOf <- MCNoMail
  NoEmail = NoEmail
  Contacts = {}
  Led = {d1}
  Slots = {s1, s2}
  Callers <- MCCallers
  NoCaller = NoCaller
  NoDomain = NoDomain
  Hunts = {h1, h2}
  Retriers = {x1}
  Target <- MCAlone
  DryRun = {h2}
  RetryLimit = 1
  MaxFaults = 1
INVARIANTS VerifiedIsQueued SeenIsNotPursued FoundersPerThread
PROPERTIES DeliversAtLeastOnce HuntEnds
