SPECIFICATION FairSpec
CONSTANTS
  j1 = j1
  j2 = j2
  j3 = j3
  daemon = daemon
  cli = cli
  Tasks = {j1, j2, j3}
  Procs = {daemon, cli}
  ProcOf <- MCProcOf
  NoPid = NoPid
INVARIANTS
  TypeOK
  ExclusiveUntilReclaim
PROPERTIES
  EstablishedIsKept
  WaiterAnswered
  DeadOwnerReclaimed
CHECK_DEADLOCK FALSE
