\* grow and shrink convert a node whose len is consistent without losing or duplicating a child
CONSTANTS
  Bytes <- MCBytes
  Handles = {h1, h2}
  Cap4 = 2
  Cap16 = 3
  Cap48 = 4
  Null = Null
  Absent = Absent
  Uninit = Uninit
  None = None
  InitNodes <- InitSmall
SPECIFICATION Spec
INVARIANT TypeOK
PROPERTY ConversionOfConsistentNode
