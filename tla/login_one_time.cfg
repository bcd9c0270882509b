SPECIFICATION Spec
CONSTANTS
  Emails = {e1}
  Accounts = {a1}
  Logins = {l1}
  Confirms = {c1, c2}
  CodeTTL = 1
  RefreshTTL = 1
  Skew = 0
  MaxTime = 0
  NoAccount = NoAccount
  NoEmail = NoEmail
  NoCode = NoCode
  NoRow = NoRow
SYMMETRY Symmetry
INVARIANTS
  CodesAreOneTime
