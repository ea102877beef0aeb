\* Up to four punches of each type around the edges of the windows of five shifts.
SPECIFICATION DaySpec
CONSTANTS
  NoTime = NoTime
  NoShift = NoShift
  NoWindow = NoWindow
  Times = {7, 8, 11, 12, 13, 15, 19, 20, 21}
  Shifts <- All
  MaxPunches = 4
CHECK_DEADLOCK FALSE
PROPERTIES DayForward
