CONSTANTS
  Page = 16
  MaxDebt = 3
  Batch = 1
  Clocks = {TRUE}
  WordsA = 8
  WordsB = 4
  HalfA = 2
  HalfB = 1
  BankA = 0
  BankB = 1
  BaseA = 16
  BaseB = 12
  Lanes = {0, 1}
  Scenarios = {{"A", "flush", "overlap"}, {"A", "B"}}
SPECIFICATION FairSpec
INVARIANTS ChipRules FilledRight WrittenRight SimulatorAgrees
PROPERTIES TransfersEnd OverdueRefreshed
