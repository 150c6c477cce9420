SPECIFICATION Spec
CONSTANTS
  MaxRequests = 3
INVARIANTS TypeOK Released LostOnly
CHECK_DEADLOCK FALSE
