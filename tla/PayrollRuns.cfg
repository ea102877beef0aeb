\* Two process requests over a pool of two connections, one fault, the run deleted and created again.
SPECIFICATION FairSpec
CONSTANTS
  r1 = r1
  r2 = r2
  r3 = r3
  e1 = e1
  e2 = e2
  Requests = {r1, r2}
  Employees = {e1, e2}
  Permanent = {e1}
  PoolMax = 2
  MaxRuns = 2
  MaxPending = 1
  MaxFaults = 1
  NoOne = NoOne
  Salaries <- OneSalary
  Months <- ShortMonth
  Sheets <- SomeSheets
  LeaveSets <- SomeLeaves
  Minutes <- OneOvertime
  Catalogues <- TwoComponents
  Lists <- SomeLists
CHECK_DEADLOCK FALSE
INVARIANTS OneSnapshot NetExplained
PROPERTIES Answered
