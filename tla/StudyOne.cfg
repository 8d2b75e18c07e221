SPECIFICATION LiveSpec
CONSTANTS
  d1 = d1  d2 = d2  u1 = u1  ann = ann  abe = abe  zoe = zoe
  MaxBatch = 2
  MaxAttempts = 2
  Domains = {d1, d2}
  SearchCap = 3
  FloorLimit = 2
  ResearchCap = 3
  Profiles = {u1}
  NoProfile = NoProfile
  Criteria = TRUE
  FitThreshold = 40
  Scores = {0, 40, 100}
  Providers <- MCProviders
  SmtpEnabled = TRUE
  Staff = {ann, abe, zoe}
  Founder = ann
  SameName = {ann}
  BearsName = {ann, abe}
  Guess = Guess
  NoEmail = NoEmail
CHECK_DEADLOCK FALSE
INVARIANTS TypeOK NothingListedIsLost RequestsAreAnswered FundingIsCarried NoStrangersAddress
PROPERTIES StudyEnds
