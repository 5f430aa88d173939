\* Two dispatchers, programs of up to two sexps, two jobs pushed by the host.
SPECIFICATION FairSpec
CONSTANTS
  NumDispatchers = 2
  MaxSexps = 2
  Replies = 1
  child = child
  parent = parent
  single = single
  HostJobs <- MCHostJobs
  ParentOf <- MCParentOf
  HostPushes = {child, single}
  Root = root
  NULL = null
INVARIANTS
  TypeOK
  InOrder
  NoUseAfterFree
  OnceWithResults
  ReadsWhileNotBusy
PROPERTIES
  MainExits
  JobsServed
CHECK_DEADLOCK FALSE
