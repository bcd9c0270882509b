SPECIFICATION FairSpec
CONSTANTS
  Emails = {e1}
  Registers = {r1}
  Enrolments = {n1, n2}
  Logins = {l1}
  Confirms = {c1, c2}
  Refreshes = {f1}
  CodeTTL = 1
  RefreshTTL = 1
  Skew = 0
  MaxTime = 1
  NoAccount = NoAccount
  NoEmail = NoEmail
  NoCode = NoCode
  NoRow = NoRow
  NoToken = NoToken
INVARIANTS
  TokensNeedBothCodes
PROPERTIES
  LoginsSeeAccounts
  RefreshesSeeLogins
  EveryRequestAnswered
