\* lookup answers only with stored values and stored values are never lost or overwritten
CONSTANTS
  Bytes <- MCBytes
  Keys <- KeysAll
  Values = {v1, v2}
  Cap4 = 1
  Cap16 = 2
  Cap48 = 3
  Null = Null
  Absent = Absent
  Uninit = Uninit
  None = None
  NoValue = NoValue
  NoPanic = NoPanic
SPECIFICATION Spec
INVARIANT TypeOK
INVARIANT LookupSound
PROPERTY StoredKept
INVARIANT InsertPanicsOnlyOnEmptyKey
