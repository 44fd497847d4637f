SPECIFICATION Spec
CONSTANTS
  k1 = k1  k2 = k2  k3 = k3
  Chunks = {k1, k2, k3}
  Torn = Torn
  NoChunk = NoChunk
  MaxSegments = 3
  MaxAppends = 4
  MaxCompactions = 2
  MaxCrashes = 2
  MaxFaults = 0
  FaultKinds = {}
INVARIANTS OpenNeverRefuses
