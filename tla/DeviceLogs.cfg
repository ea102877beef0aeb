\* Three requests, two at a time, of which any may push, import or process the punches of one employee.
SPECIFICATION Spec
CONSTANTS
  NoTime = NoTime
  NoShift = NoShift
  NoWindow = NoWindow
  k1 = k1
  k2 = k2
  e1 = e1
  Punches = {k1, k2}
  Employees = {e1}
  EmpOf <- Owner
  LogOf <- Logs
  Window <- SurprisePunches
  Shift = NoShift
  OnDay = {k1, k2}
  Keyed = {k1}
  Requests = {r1, r2}
  HrTime = 950
  MaxRequests = 3
  MaxChanges = 1
  MaxDeaths = 1
  NoRow = NoRow
  NoEmp = NoEmp
CHECK_DEADLOCK FALSE
SYMMETRY Symmetry
INVARIANTS OwnPunches ProcessedCounts ManualKept
PROPERTIES Forwarded
