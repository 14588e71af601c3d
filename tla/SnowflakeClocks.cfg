SPECIFICATION Spec
CONSTANTS
  Tms = {0, 1}
  Node <- ConsecutiveNodes
  Nodes = 2
  SequenceSize = 2
  Tolerance = 2
  Times = {0, 1, 2}
  MaxIds = 3
INVARIANTS TypeOK IdsAscend IdsDifferAcrossTms
