\* Node48 implements the byte -> child contract (expected to be violated)
CONSTANTS
  Bytes <- MCBytes
  Handles = {h1, h2}
  Cap4 = 2
  Cap16 = 3
  Cap48 = 4
  Null = Null
  Absent = Absent
  Uninit = Uninit
  None = None
  InitNodes <- Init48
SPECIFICATION Spec
PROPERTY ChildMapSpec
