SPECIFICATION Spec
CONSTANTS
  a1 = a1  a2 = a2  a3 = a3  v1 = v1  v2 = v2  v3 = v3  w1 = w1
  Agent = {a1,a2,a3}
  Vertex = {v1,w1,v2,v3}
  Owner <- ThreeOwners
  Loaded <- Path
  Streamed <- Local
  Command = "START"
  Repeats = TRUE  MaxSends = 5
INVARIANTS TypeOK Transposed EdgesAccounted VerticesAccounted
