SPECIFICATION LiveSpec
CONSTANTS
  c1 = c1  c2 = c2  p1 = p1  p2 = p2  us = us  de = de
  Companies = {c1}
  Postings = {p1}
  BoardOf <- MCOneBoard
  Years <- MCSenior
  Unstated = Unstated
  PostedAt <- MCDayZero
  Undated = Undated
  Runs = {}
  NoRun = NoRun
  MaxClock = 2
  Cycles = {cron}
  NoCompany = NoCompany
  Country <- MCUs
  Unknown = Unknown
  OwnCountries <- MCNoCountries
  Ceilings = {0, 3}
  CountryLists = {{}, {de}}
  Windows = {1}
  RoleSets = {{p1}}
  TodayOnly = FALSE
  Day = 1
  Chunk = 1
  ArchiveCap = 2
  DefaultWindow = 2
PROPERTIES TrackedSurvivesSweeps CycleEnds
