\* Two senders with a message each, two receivers that mix await and poll.
SPECIFICATION FairSpec
CONSTANTS
  Senders = {s1, s2}
  Receivers = {r1, r2}
  ReceiverOps = {"await", "poll"}
  NULL = null
  MaxSends = 1
  MallocMayFail = TRUE
  Msg <- MCMsg
INVARIANTS
  TypeOK
  ListOK
  NoLostWakeup
PROPERTIES
  FIFO
  Delivered
CHECK_DEADLOCK FALSE
