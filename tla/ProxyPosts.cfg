SPECIFICATION FairSpec
CONSTANTS
  NumRuns = 3
  Ips = {"lan", "wan"}
  Allowed = {"lan"}
  Origins <- SomeOrigins
  Breaking = {2}
  Moving = {2}
  RateMax = 2
  Window = 1
  MaxTime = 1
INVARIANTS TypeOK AsReported LimitedAtLimit LimitHeld
PROPERTIES RunsEnd
CHECK_DEADLOCK FALSE
