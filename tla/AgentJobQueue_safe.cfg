\* One office, two jobs of which one imports attendance, two faults, JSON-file store.
SPECIFICATION Spec
CONSTANTS
  a1 = a1
  a2 = a2
  j1 = j1
  j2 = j2
  j3 = j3
  Jobs = {j1, j2}
  Agents = {a1}
  AgentOf <- OneAgent
  Ingesting = {j1}
  Slots = {s1, s2}
  Limit = 2
  MaxFaults = 2
  FileStore = TRUE
  NoSlot = NoSlot
  NoBody = NoBody
SYMMETRY Symmetry
INVARIANTS TypeOK AtMostOnce Truthful AnswerTrue ResultKept
PROPERTIES ReportFinal RelayPromise
