SPECIFICATION MCSpec
CONSTANTS
  s1 = s1
  c1 = c1
  c2 = c2
  c3 = c3
  Sids = {s1, s2}
  Streams = {t1, t2, t3}
  Clients = {c1, c2}
  NoWatcher = NoWatcher
  NoClient = NoClient
  MaxWatchers = 1
  Failures = {"first", "network", "auth"}
INVARIANTS HoldersSound SettingsSound
PROPERTIES WatchersLeave ChangesPushed
CHECK_DEADLOCK FALSE
