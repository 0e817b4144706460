CONSTANTS
  Nodes = {a1, a2, a3}
  Amounts = {8, 10}
  Times = {0, 1}
  MaxTransfers = 4
  MaxEdgesPerNode = 2
  EdgeTtl = 0
  MaxCycleDepth = 3
  MinCycleLength = 3
  PassWindow = 0
  MinRatio = 80
  MaxRatio = 102
  MinDepth = 1
  MaxChainDepth = 2
SPECIFICATION Spec
SYMMETRY Accounts
CHECK_DEADLOCK FALSE
INVARIANTS
  RingRaisesSignal
