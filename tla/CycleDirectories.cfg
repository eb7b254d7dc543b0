SPECIFICATION Spec
CONSTANTS
  a1 = a1  a2 = a2  a3 = a3  d1 = d1  d2 = d2  d3 = d3
  Agent = {a1, a2, a3}
  Directory = {d1, d2}
  Home <- TwoDirectories
  Commands = {"START"}
  EdgeKinds = {"UPDATE_EDGE", "UPDATE_EDGES"}
  CrossEdges = FALSE
  MaxIt = 1
  MaxBatch = 3
  MaxCommands = 1
  MaxEdges = 2
INVARIANTS TypeOK NoFault HaveUpdateFindsIdle NotificationsArrive NvAfterAllReady
PROPERTY ImplementsBarrier
