SPECIFICATION ClientSpec
CONSTANTS
  Msgs = {m1}
  None = None
  Unread = Unread
  MaxRemovals = 1
  MaxSteps = 2
  MaxChanges = 1
  MaxFaults = 1
  Uids = {1, 2, 3}
  Fresh = {3}
  New = 4
  PageSize = 2
  MaxTicks = 3
  MaxAsks = 2
  Opened = {u1, u2}
  CacheSize = 1
  MaxOpens = 2
  MaxActs = 1
  MaxOthers = 1
INVARIANTS TypeOK RemovesOnlyChosen TicksSound ReaderSound ViewSound
PROPERTY ViewSettles
CHECK_DEADLOCK FALSE
