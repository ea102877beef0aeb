\* One office, two jobs taken one at a time, one fault, database store.
SPECIFICATION FairSpec
CONSTANTS
  a1 = a1
  a2 = a2
  j1 = j1
  j2 = j2
  j3 = j3
  Jobs = {j1, j2}
  Agents = {a1}
  AgentOf <- OneAgent
  Ingesting = {j1}
  Slots = {s1, s2}
  Limit = 1
  MaxFaults = 1
  FileStore = FALSE
  NoSlot = NoSlot
  NoBody = NoBody
PROPERTIES Reported Imported Claimed Finishes
