CONSTANTS
  Slots = {0, 1}
  Setups <- Pairs
  Lines = 2
  Words = 2
  Asks <- Addresses
  Size = 2
  Vals = {0, 1}
SPECIFICATION Spec
INVARIANTS ToggledRight
