SPECIFICATION Spec
CONSTANTS
  a1 = a1  a2 = a2  a3 = a3  d1 = d1  d2 = d2
  Agent = {a1,a2,a3}
  Position <- Positions
  Hash <- Hashes
  Replicas <- Copies
  First = {a1, a2, a3}
  VAgents = 2
  Directory = {d1, d2}
  Homes <- EitherHome
  Graphs <- Star
  Streamed = {}
  Commands = {}
  MaxChanges = 1
  Careful = FALSE
INVARIANT EdgesConserved
