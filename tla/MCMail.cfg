SPECIFICATION MailSpec
CONSTANTS
  Personal <- MCPersonal
  Existing <- MCExisting
  Hideable <- MCHideable
  Renameable <- MCRenameable
  TrashChoices <- MCChoices
  Delivered <- MCDelivered
  Modes = {"trash", "permanent"}
  NoPath <- MCNoPath
  Msgs = {p1, p2}
  Requests = {q1, q2}
  Batch = 1
  MaxUid = 3
  None = None
SYMMETRY Symmetry
INVARIANTS TypeOK MailboxSound PartsSound
CHECK_DEADLOCK FALSE
