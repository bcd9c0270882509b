SPECIFICATION Spec
CONSTANTS
  Requests = {r1, r2}
  MaxFaults = 0
INVARIANTS
  RequestsHaveTheirTime
