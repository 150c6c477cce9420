SPECIFICATION Spec
CONSTANTS
  NumRuns = 2
  Ips = {"lan", "wan"}
  Allowed = {"lan"}
  Origins <- SomeOrigins
  Breaking = {1, 2}
  Moving = {1, 2}
  RateMax = 2
  Window = 1
  MaxTime = 1
INVARIANTS Verbatim
CHECK_DEADLOCK FALSE
