SPECIFICATION Spec
CONSTANTS
  c1 = c1
  c2 = c2
  Absent = Absent
  Torn = Torn
  NoJournal = NoJournal
  Conns = {c1, c2}
  MaxPages = 2
  InitialSizes = {2}
  MaxTxns = 1
  MaxFaults = 1
INVARIANT
  HotJournalIsPlayedBack
CHECK_DEADLOCK FALSE
