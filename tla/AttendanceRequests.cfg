\* A check-in and a check-out request, two handlers at once, and two of these:
\* a run of the processor, a change by HR, a death; at most one change and one death.
SPECIFICATION Spec
CONSTANTS
  in1 = in1
  out1 = out1
  Requests = {in1, out1}
  Kind <- SomeKinds
  Handlers = {h1, h2}
  DayEnd = 1
  PhotoTTL = 2
  MaxTime = 3
  MaxEdits = 1
  MaxChanges = 2
  MaxDeaths = 1
  NoTime = NoTime
SYMMETRY HandlerSymmetry
CHECK_DEADLOCK FALSE
INVARIANTS ApprovedOnRecord PhotoGone
PROPERTIES SheetPromise
