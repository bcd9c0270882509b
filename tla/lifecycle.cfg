SPECIFICATION FairSpec
CONSTANTS
  Requests = {r1, r2}
  MaxFaults = 1
INVARIANTS
  ServedOnCompleteSchema
  UserMicroFinishesItsCalls
  ResourcesOutliveRequests
PROPERTIES
  SignalledProcessesExit
  ServicesComeUp
