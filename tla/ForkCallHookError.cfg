\* A fork_post ERROR that races the timeout is returned as a FAIL.
CONSTANTS
  p1 = p1
  p2 = p2
  Pids = {p1, p2}
  NoPid = NoPid
  Timeout = 1
  ExitTimeout = 1
  KillTime = 1
  MaxForkRetries = 1
  OnSignal = {"die", "ignore", "ok", "bad"}
  Faults = {}
  MaxCalls = 2
SPECIFICATION Spec
SYMMETRY PidSymmetry
INVARIANTS
  SaidErrorHalts
