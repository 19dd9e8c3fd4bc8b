CONSTANTS
  Procs = {p1, p2}
  Requests = {r1, r2, r3}
  Nobody = Nobody
SPECIFICATION FairSpec
INVARIANTS
  WriterHasFile
  AnswersAreTrue
PROPERTY SignalStops
CHECK_DEADLOCK FALSE
