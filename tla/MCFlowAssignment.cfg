SPECIFICATION Spec
CONSTANTS
  Cols = {0, 1}
  Rows = {0, 1, 2}
  NumChannels <- MCNumChannels
  DataConnections <- MCDataConnections
  MaxData = 4
  Strategies <- MCStrategies
  Overlays <- MCOverlays
  PacketIdMaxIdx = 2
INVARIANT LeavesRoom
INVARIANT AutoSuffices
INVARIANT CircuitOwnsChannel
INVARIANT LoadBalanced
INVARIANT PacketIdsSeparate
CHECK_DEADLOCK FALSE
