\* Two requests at once, five altogether, three employees, three accounts, one death.
SPECIFICATION Spec
CONSTANTS
  h1 = h1
  h2 = h2
  n1 = n1
  n2 = n2
  plain = plain
  old = old
  Handlers = {h1, h2}
  MaxRequests = 5
  MaxDeaths = 1
  Numbers = {n1, n2}
  Addresses = {plain, old}
  AddressOf <- OneAddress
  Legacy = {old}
  MaxEmployees = 3
  MaxUsers = 3
  Tomb = Tomb
  None = None
CHECK_DEADLOCK FALSE
SYMMETRY Alike
INVARIANTS OneAccount NumbersReusable ImportedCanLogIn
