SPECIFICATION FairSpec
CONSTANTS
  Writers = {w1, w2}
  Pages = {p1, p2}
  Messages = {a, b, x}
  Unprintable = {x}
  NoThread = NoThread
  NoMessage = NoMessage
  MaxAdded = 2
  MaxInterrupts = 1
INVARIANTS
  TypeOK
  NothingLostOrRepeated
  PermitsAccountedFor
PROPERTIES
  PollReturns
  ResponsesArrive
  ImplementsMailbox
CHECK_DEADLOCK FALSE
