SPECIFICATION FairSpec
CONSTANTS
  MaxSent = 4
  MaxReloads = 1
INVARIANTS
  TypeOK
  RequestsOnceInOrder
PROPERTIES
  ImplementsMailbox
  RequestsHandled
CHECK_DEADLOCK FALSE
