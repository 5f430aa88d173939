\* A master that polls and, when it has nothing else to do, blocks.
SPECIFICATION FairSpec
CONSTANTS
  Senders = {s1, s2}
  Master = m
  NULL = null
  MaxSends = 1
  MallocMayFail = FALSE
  MasterOps = {"poll", "block"}
  Msg <- MCMsg
PROPERTY BlockWakes
CHECK_DEADLOCK FALSE
