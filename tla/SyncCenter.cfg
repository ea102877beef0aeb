\* Two terminals with the same two uids, two handlers at once, three calls started or events elsewhere.
SPECIFICATION PageSpec
CONSTANTS
  d1 = d1
  d2 = d2
  t1 = t1
  t2 = t2
  Devices = {d1, d2}
  First <- SomeAdmins
  Bridge = d1
  Uids = {1, 2}
  Tasks = {t1, t2}
  MaxEvents = 3
  None = None
CHECK_DEADLOCK FALSE
SYMMETRY Alike
INVARIANTS RightTerminal NoneLeft
