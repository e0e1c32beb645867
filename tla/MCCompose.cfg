SPECIFICATION MCSpec
CONSTANTS
  m1 = m1
  m2 = m2
  k1 = k1
  k2 = k2
  k3 = k3
  e1 = e1
  e2 = e2
  e3 = e3
  o2 = o2
  n1 = n1
  NoName = NoName
  g1 = g1
  g2 = g2
  Msgs = {m1}
  NoMsg = NoMsg
  Calls = {k1, k2}
  MaxVer = 2
  MaxUid = 1
  MaxSends = 1
  Careful = FALSE
  Faults = {"save", "send", "lost", "late"}
INVARIANTS WritingKept ComposeSound
PROPERTY SendsEnd
CHECK_DEADLOCK FALSE
