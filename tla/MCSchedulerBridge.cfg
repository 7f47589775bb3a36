CONSTANTS
  U64 = 100
  MAX_TASKS = 3
  SWITCH_TICK_BUDGET = 5
  BOOT_PID = 5
  InitialTasks = 1
  BootL4 = 0
  TaskL4 = 1
SPECIFICATION FairSpec
INVARIANTS
  RunsOnOwnStack
  WaitingContextsIntact
  QueueMatchesPool
  AddressSpaceFollowsTask
  InitIsAtomic
PROPERTIES
  StackReuseIsSafe
  HandsBack
  ImplementsDispatcher
