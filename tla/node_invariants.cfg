\* Node4/Node16 keep their visible keys sorted; Node48 keeps len equal to its index entries
CONSTANTS
  Bytes <- MCBytes
  Handles = {h1, h2}
  Cap4 = 2
  Cap16 = 3
  Cap48 = 4
  Null = Null
  Absent = Absent
  Uninit = Uninit
  None = None
  InitNodes <- InitShapes
SPECIFICATION Spec
INVARIANT TypeOK
INVARIANT KeysSorted
INVARIANT OccupancyMatches
