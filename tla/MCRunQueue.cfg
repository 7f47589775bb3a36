CONSTANTS
  U64 = 3
  Pids <- MCPids
  Deadlines <- MCDeadlines
  Charges <- MCCharges
SPECIFICATION QueueSpec
INVARIANTS
  Mirror
  PickIsHybrid
