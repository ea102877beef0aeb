\* Two requests at once, three altogether, one event.
SPECIFICATION Spec
CONSTANTS
  h1 = h1
  h2 = h2
  Handlers = {h1, h2}
  MaxRequests = 3
  MaxDeaths = 1
  MaxPunches = 2
  DayOf <- OneDay
  CardOf <- OneCard
  StatedOf <- NoKeys
  Caps = {1, 2}
  Cards = {70000}
  MaxEvents = 1
  None = None
CHECK_DEADLOCK FALSE
SYMMETRY Alike
INVARIANTS LockReleased RowEntered OncePerPunch
