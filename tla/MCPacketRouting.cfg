SPECIFICATION Spec
CONSTANTS
  MaskBits = 2
  NumRuleSlots = 3
  NumArbiters = 4
  NumMSels = 3
  PortOrder <- MCPorts
  MaxCol = 0
  MaxRow = 2
  NumLinks = 2
  EndPorts <- MCEndPorts
  OpSets <- MCOpSets
INVARIANT DeliversExactly
INVARIANT OneArbiterPerMaster
INVARIANT NoPartialOverlap
PROPERTY KeepsAMSels
CHECK_DEADLOCK FALSE
