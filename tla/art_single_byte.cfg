\* insert/lookup on one-byte keys implement the SequentialMap contract
CONSTANTS
  Bytes <- MCBytes
  Keys <- KeysOneByte
  Values = {v1, v2}
  Cap4 = 1
  Cap16 = 2
  Cap48 = 3
  Null = Null
  Absent = Absent
  Uninit = Uninit
  None = None
  NoValue = NoValue
  NoPanic = NoPanic
SPECIFICATION SpecInsertLookup
PROPERTY MapSpec
