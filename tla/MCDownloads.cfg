SPECIFICATION FairSpec
CONSTANTS
  batch = batch
  twice = twice
  single = single
  over = over
  empty = empty
  uneven = uneven
  f = f
  g = g
  Nobody = Nobody
  Names = {f, g}
  Commands = {batch, twice, single, over, empty, uneven}
  Wanted <- MCWanted
  Batches = {batch, twice, empty, uneven}
  Overwriters = {over}
  Mismatched = {uneven}
  Keyless = {over}
INVARIANTS
  TypeOK
  OneAnswer
  AnswersAreComplete
PROPERTIES
  CommandsAnswer
CHECK_DEADLOCK FALSE
