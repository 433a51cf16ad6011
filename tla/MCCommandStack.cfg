SPECIFICATION FairSpec
CONSTANTS
  query = query
  show = show
  NoCmd = NoCmd
  Cmds <- MCCmds
  NumValCFs <- MCNumValCFs
  NumDCFs <- MCNumDCFs
  NumVCFs <- MCNumVCFs
  NumECFs <- MCNumECFs
  MaxExecs = 2
  MaxDepth = 3
  MaxCalls = 2
INVARIANTS
  TypeOK
  OneStackAtATime
  StubOnlyWhileRunning
  DataFunctionsInOrder
  ViewsAfterData
  ExitIsFinal
  OneKeyPerDCF
  OwnKeyOnly
PROPERTIES
  EngineBecomesFree
  ImplementsLifecycle
