\* Timeouts, every child behaviour, every fault, two calls on two pids.
CONSTANTS
  p1 = p1
  p2 = p2
  Pids = {p1, p2}
  NoPid = NoPid
  Timeout = 2
  ExitTimeout = 2
  KillTime = 1
  MaxForkRetries = 1
  OnSignal = {"die", "ignore", "ok", "bad"}
  Faults = {"pipe", "fork", "eagain", "poll", "read", "eintr"}
  MaxCalls = 2
SPECIFICATION FairSpec
INVARIANTS
  TypeOK
  SignalsOwnChild
  EarlierWorkersDoomed
  KilledIsNotPass
PROPERTIES
  ImplementsTrialCall
  CallReturns
