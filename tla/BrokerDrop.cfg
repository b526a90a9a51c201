\* Are accepted messages dispatched although Close is draining?
CONSTANTS
  email = email
  sms = sms
  sync = sync
  empty = empty
  Tasks = {sync, empty, m1, m2}
  SyncMsgs = {sync}
  Unaddressed = {empty}
  Channels <- TwoChannels
  Wanted <- WantedChannels
  Goroutines = {g1}
  NoTask = NoTask
  QueueSize = 1
SPECIFICATION Spec
INVARIANT AcceptedNotDropped
