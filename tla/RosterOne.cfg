SPECIFICATION Spec
CONSTANTS
  ann = ann  bob = bob  cyd = cyd  twin = twin  clerk = clerk  click = click
  office = office  private = private
  Seekers = {ann, bob, cyd, twin, clerk, click}
  Direct = {click}
  Addresses = {office}
  Grade <- MCGrade
  Scores = {40}
  ToolCap = 1
  MaxBatch = 1
  None = None
  Listings <- MCListings
  Relevant = {ann, bob, twin, cyd}
  NameKey <- MCNameKey
  MaxPeople = 3
  Workers = 2
CHECK_DEADLOCK FALSE
INVARIANTS EveryoneIsListedOnce
PROPERTIES NoSearchBeginsLate RosterAnswers
