SPECIFICATION Spec
CONSTANTS
  Emails = {e1}
  Registers = {r1, r2}
  Confirms = {c1}
  CodeTTL = 1
  Skew = 0
  MaxTime = 1
  NoAccount = NoAccount
  NoEmail = NoEmail
  NoCode = NoCode
  NoRow = NoRow
INVARIANTS
  SuccessMeansACodeWasSent
