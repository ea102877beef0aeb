\* Three requests at once, five altogether, three shifts, two device serials, one death.
SPECIFICATION Spec
CONSTANTS
  h1 = h1
  h2 = h2
  h3 = h3
  Handlers = {h1, h2, h3}
  MaxRequests = 5
  MaxDeaths = 1
  MaxShifts = 3
  Serials = {s1, s2}
  None = None
CHECK_DEADLOCK FALSE
SYMMETRY Alike
INVARIANTS AtMostOneDefault DefaultThere StageFinished
