\* prefix_match agrees with the longest-common-prefix definition of spec 4.1
CONSTANTS
  Bytes <- MCBytes
  PrefixLen = 2
  MaxHeaderLen = 3
  MaxKeyLen = 4
  Uninit = Uninit
  Idle = Idle
SPECIFICATION Spec
INVARIANT PrefixMatchAgrees
INVARIANT PrefixMatchNeverFalseOk
