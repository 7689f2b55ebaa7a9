\* round trip: lookup of a stored key finds it (expected to be violated)
CONSTANTS
  Bytes <- MCBytes
  Keys <- KeysUpTo2
  Values = {v1, v2}
  Cap4 = 1
  Cap16 = 2
  Cap48 = 3
  Null = Null
  Absent = Absent
  Uninit = Uninit
  None = None
  NoValue = NoValue
  NoPanic = NoPanic
SPECIFICATION Spec
INVARIANT LookupComplete
