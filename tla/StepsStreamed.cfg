SPECIFICATION Spec
CONSTANTS
  a1 = a1  a2 = a2  a3 = a3
  Agent = {a1,a2}
  Owner <- TwoOwners
  Graphs <- Shapes
  Streamed <- Bridge
  Algorithms = {"WCC"}
  Starts = {1, 4}
  Commands = {"START"}
  MaxBatches = 2
  MaxIt = 7
INVARIANT ComponentsDynamic
