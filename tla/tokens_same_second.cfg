SPECIFICATION Spec
CONSTANTS
  Accounts = {a1}
  Logins = {l1, l2}
  Refreshes = {r1, r2}
  TTL = 2
  Skew = 0
  MaxTime = 4
  NoAccount = NoAccount
  NoToken = NoToken
INVARIANTS
  RefreshedPairIsLive
