SPECIFICATION CarefulSpec
CONSTANTS
  c1 = c1
  c2 = c2
  Absent = Absent
  Torn = Torn
  NoJournal = NoJournal
  Conns = {c1, c2}
  MaxPages = 3
  InitialSizes = {0, 2}
  MaxTxns = 2
  MaxFaults = 1
INVARIANTS
  TypeOK
  ReadersSeeTheImage
  VersionTellsContent
PROPERTY
  StoreSpec
CHECK_DEADLOCK FALSE
SYMMETRY Connections
