SPECIFICATION Spec
CONSTANTS
  Languages = {"en", "ru", "de"}
  HeaderBound = 2
INVARIANTS
  StatusTellsTheFault
  FieldsReachTheClient
  BadFieldsAreNamed
  FieldsSpeakTheLanguage
