SPECIFICATION FairSpec
CONSTANTS
  Load = 3
  RegistrationRows = {g1}
  LoginRows = {s1}
  TokenRows = {t1, t2}
  MaxOpenConns = 3
  Nobody = Nobody
INVARIANTS
  NobodyWaitsInVain
PROPERTIES
  EveryRequestAnswered
