SPECIFICATION Spec
CONSTANTS
  Accounts = {a1, a2}
  Logins = {l1, l2}
  Refreshes = {r1, r2, r3}
  TTL = 1
  Skew = 1
  MaxTime = 3
  NoAccount = NoAccount
  NoToken = NoToken
SYMMETRY Symmetry
INVARIANTS
  TypeOK
  HandedTokensAreLive
  UnauthorizedMeansUsed
