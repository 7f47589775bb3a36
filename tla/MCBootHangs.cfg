CONSTANTS
  InitWait = 2
  SipiWait = 1
  Timeout = 2
  ApicIds = {1, 2}
  Target = 1
  U64 = 65536
  BOOT_PID = 100
  MAX_TASKS = 5
  SWITCH_TICK_BUDGET = 28
  Halts = 1
  BspId = 0
  Topologies <- MCTopologies
  Attest <- MCAttest
  MaxEarlyTicks = 1
SPECIFICATION FairBootSpec
PROPERTY BootFinishes
CHECK_DEADLOCK FALSE
