CONSTANTS
  Page = 2
  MaxDebt = 7
  Batch = 2
  Clocks = {TRUE, FALSE}
  BurstLen = 2
  Banks = {0, 1}
  Line = 100
  Paces <- EveryPace
  Files <- FilesAll
SPECIFICATION FairSpec
INVARIANTS ChipRules LoadedAtRelease DumpComplete DebtPaid InOrder
PROPERTIES Starts IsQueue
