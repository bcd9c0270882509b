SPECIFICATION Spec
CONSTANTS
  Emails = {e1, e2}
  Registers = {r1, r2, r3}
  Confirms = {c1, c2}
  CodeTTL = 1
  Skew = 1
  MaxTime = 2
  NoAccount = NoAccount
  NoEmail = NoEmail
  NoCode = NoCode
  NoRow = NoRow
SYMMETRY Symmetry
INVARIANTS
  TypeOK
  SessionMatchesRegister
  AccountsAreConfirmed
  SuccessMeansOwnAccount
PROPERTIES
  LiveCodesVanishWhenUsed
  OnlyRacesReplaceLiveCodes
  CodesAreOffered
