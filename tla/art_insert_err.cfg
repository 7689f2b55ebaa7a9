\* insert answers Err only for a present key, on one-char Strings (expected to be violated)
CONSTANTS
  Bytes <- MCBytes
  Keys <- KeysAccented
  Values = {v1, v2}
  Cap4 = 1
  Cap16 = 2
  Cap48 = 3
  Null = Null
  Absent = Absent
  Uninit = Uninit
  None = None
  NoValue = NoValue
  NoPanic = NoPanic
SPECIFICATION Spec
PROPERTY InsertErrOnlyIfPresent
