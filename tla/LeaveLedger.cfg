\* Two leaves, two decisions at once, two days to take, one death and one entered balance,
\* a type with and without a limit.
SPECIFICATION LeaveSpec
CONSTANTS
  l1 = l1
  l2 = l2
  l3 = l3
  Leaves = {l1, l2}
  Days <- SomeDays
  Actors = {a1, a2}
  Limits = {0, 2}
  Totals = {5}
  MaxEdits = 1
  MaxDeaths = 1
SYMMETRY ActorSymmetry
CHECK_DEADLOCK FALSE
INVARIANTS BooksBalance WithinTotalInTurn
