SPECIFICATION Spec
CONSTANTS
  c1 = c1  c2 = c2  p1 = p1  p2 = p2  us = us  de = de
  Companies = {c1}
  Postings = {p1, p2}
  BoardOf <- MCOneBoard
  Years <- MCJuniorSenior
  Unstated = Unstated
  PostedAt <- MCOldSenior
  Undated = Undated
  Runs = {}
  NoRun = NoRun
  MaxClock = 1
  Cycles = {cron}
  NoCompany = NoCompany
  Country <- MCNoCountry
  Unknown = Unknown
  OwnCountries <- MCNoCountries
  Ceilings = {0, 3}
  CountryLists = {{}}
  Windows = {1, 2}
  RoleSets = {{p1, p2}, {p1}}
  TodayOnly = TRUE
  Day = 1
  Chunk = 1
  ArchiveCap = 2
  DefaultWindow = 2
INVARIANTS NewsOnlyAfterSeeding BacklogIsNeverNews LateIsNews
PROPERTIES PassNeverWipes
