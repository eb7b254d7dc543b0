SPECIFICATION Spec
CONSTANTS
  a1 = a1  a2 = a2  a3 = a3  d1 = d1  d2 = d2  d3 = d3
  Agent = {a1, a2}
  Directory = {d1}
  Home <- OneDirectory
  Commands = {"START", "UPDATE"}
  EdgeKinds = {"UPDATE_EDGE"}
  CrossEdges = FALSE
  MaxIt = 2
  MaxBatch = 3
  MaxCommands = 3
  MaxEdges = 0
INVARIANT NoFault
PROPERTY ImplementsBarrier
