\* shrinking a Node256 moves every child (expected to be violated: len is stale)
CONSTANTS
  Bytes <- MCBytes
  Handles = {h1, h2}
  Cap4 = 2
  Cap16 = 3
  Cap48 = 4
  Null = Null
  Absent = Absent
  Uninit = Uninit
  None = None
  InitNodes <- InitRoot
SPECIFICATION Spec
PROPERTY ConversionPreservesChildren
