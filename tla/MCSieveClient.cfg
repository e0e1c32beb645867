SPECIFICATION ClientSpec
CONSTANTS
  Commands = {c1, c2}
  MaxData = 2
  colombe = colombe
  other = other
  None = None
  Sent = Sent
  Empty = Empty
INVARIANTS TypeOK WireSound PagesSound
PROPERTY CommandsSettle
CHECK_DEADLOCK FALSE
