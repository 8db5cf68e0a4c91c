CONSTANTS
  Page = 4
  MaxDebt = 3
  Batch = 1
  Clocks = {TRUE, FALSE}
  Overload = {FALSE}
  BurstLen = 4
  Banks = {0, 1}
  Wide = {1}
  AutoCases = {{}, {1}}
  WenBanks = {1}
  Addrs = {0, 4}
SPECIFICATION FairSpec
INVARIANTS ChipRules ReadRight WriteRight AnswersRight NoContention
PROPERTIES OverdueRefreshed RequestsServed
