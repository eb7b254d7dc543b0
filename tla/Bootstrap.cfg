SPECIFICATION Spec
CONSTANTS
  a1 = a1  a2 = a2  d1 = d1  d2 = d2  d3 = d3  c1 = c1  c2 = c2
  Nobody = Nobody
  Directory = {d1, d2}
  Agent = {a1}
  Client = {c1}
  Ops = {"START", "SHUTDOWN", "query", "interrupt"}
  Leavers = {d2}
INVARIANTS TypeOK PeersKnown CommandsOnce NobodyLeftBehind
CHECK_DEADLOCK FALSE
