CONSTANTS
  Page = 4
  MaxDebt = 3
  Batch = 1
  Clocks = {TRUE}
  Overload = {TRUE}
  BurstLen = 2
  Banks = {0, 1}
  Wide = {0}
  AutoCases = {{}}
  WenBanks = {0}
  Addrs = {0, 4}
SPECIFICATION Spec
INVARIANTS ReadRight
