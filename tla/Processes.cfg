SPECIFICATION Spec
CONSTANTS
  None = None
  Interactive = {0, 1}
  Throughput = {2}
  Group = {5}
  ChainMembers = 2
  MaxSlice = 1
  MaxLead = 1
  NoRequest = NoRequest
  Request = {1, 2, 3}
  LogSize = 2
  MaxRestarts = 2
  RestartBudget = 2
  TickBudget = 6
  Services = 2
  MaxAsked = 2
  MaxRunSlice = 2
  MaxFaults = 1
  Window = 2
  MaxTime = 6
  MaxCrashes = 6
INVARIANTS SchedulerAgrees CoreIsRunning CrashesCounted LogExact RestartsRationed
PROPERTIES InteractiveServed DriverGivenUp
CHECK_DEADLOCK FALSE
