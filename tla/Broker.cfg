\* One message through Send for every registered channel, and two through
\* SendAsync, one of them without recipients; one goroutine, a queue of one.
CONSTANTS
  email = email
  sms = sms
  sync = sync
  empty = empty
  Tasks = {sync, empty, m1}
  SyncMsgs = {sync}
  Unaddressed = {empty}
  Channels <- TwoChannels
  Wanted <- WantedChannels
  Goroutines = {g1}
  NoTask = NoTask
  QueueSize = 1
SPECIFICATION FairSpec
INVARIANTS
  BrokerTypeOK
  EveryChannelTried
  CloseQuiesces
PROPERTIES
  CloseReturns
