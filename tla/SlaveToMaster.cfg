\* Two slaves, two messages each, a master that mixes its three operations,
\* and a malloc that may fail.
SPECIFICATION FairSpec
CONSTANTS
  Senders = {s1, s2}
  Master = m
  NULL = null
  MaxSends = 2
  MallocMayFail = TRUE
  MasterOps = {"await", "poll", "block"}
  Msg <- MCMsg
INVARIANTS
  TypeOK
  LocksOK
  ListOK
  NoLostWakeup
PROPERTIES
  FIFO
  Delivered
  SendReturns
CHECK_DEADLOCK FALSE
