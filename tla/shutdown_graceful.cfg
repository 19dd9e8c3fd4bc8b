CONSTANTS
  Procs = {p1}
  Requests = {r1}
  Nobody = Nobody
SPECIFICATION Spec
INVARIANT GracefulShutdown
CHECK_DEADLOCK FALSE
