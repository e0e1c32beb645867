SPECIFICATION Spec
CONSTANTS
  Msgs = {m1}
  NoMsg = NoMsg
  Calls = {k1, k2}
  MaxVer = 2
  MaxUid = 3
  MaxSends = 1
  Careful = FALSE
  Faults = {}
INVARIANTS NothingLost
CHECK_DEADLOCK FALSE
