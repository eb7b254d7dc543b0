SPECIFICATION FairSpec
CONSTANTS
  a1 = a1  a2 = a2  a3 = a3
  Agent = {a1,a2,a3}
  Owner <- ThreeOwners
  Graphs <- Shapes
  Streamed <- Local
  Shares = {3, 5}
  Damping = 4
  Prime = 11
  Supersteps = 2
  Commands = {"START", "UPDATE"}
  MaxBatches = 3
INVARIANTS TypeOK RanksExact
PROPERTY EveryBatchEnds
CHECK_DEADLOCK FALSE
