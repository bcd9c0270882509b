SPECIFICATION Spec
CONSTANTS
  Emails = {e1}
  Accounts = {a1, a2}
  Logins = {l1, l2}
  Confirms = {c1, c2}
  CodeTTL = 1
  RefreshTTL = 2
  Skew = 1
  MaxTime = 2
  NoAccount = NoAccount
  NoEmail = NoEmail
  NoCode = NoCode
  NoRow = NoRow
SYMMETRY Symmetry
INVARIANTS
  TypeOK
  SessionMatchesLogin
  SpentCodesAreGone
  CodesPayTheirOwner
  StaleCodesBuyNothing
  TokensAreBacked
PROPERTIES
  LiveCodesVanishWhenSpent
  OnlyRacesReplaceLiveCodes
  SuccessLeavesACode
  CodesAreOffered
