SPECIFICATION CarefulSpec
CONSTANTS
  c1 = c1
  c2 = c2
  Absent = Absent
  Torn = Torn
  NoJournal = NoJournal
  Conns = {c1, c2}
  MaxPages = 2
  InitialSizes = {1, 2}
  MaxTxns = 2
  MaxFaults = 3
INVARIANTS
  WritersAreAlone
PROPERTY
  StoreSpec
CHECK_DEADLOCK FALSE
SYMMETRY Connections
