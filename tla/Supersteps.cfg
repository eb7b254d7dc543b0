SPECIFICATION FairSpec
CONSTANTS
  a1 = a1  a2 = a2  a3 = a3
  Agent = {a1,a2}
  Owner <- TwoOwners
  Graphs <- Shapes
  Streamed <- Bridge
  Algorithms = {"WCC", "BFS", "KCORE", "LPA"}
  Starts = {1, 4}
  Commands = {"START", "UPDATE"}
  MaxBatches = 2
  MaxIt = 7
INVARIANTS TypeOK ComponentsExact DistancesExact CorenessExact LabelsStable
  CopiesFresh NeverThrows
PROPERTY EveryBatchEnds
