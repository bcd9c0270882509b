SPECIFICATION Spec
CONSTANTS
  Languages = {"en", "ru"}
  HeaderBound = 1
INVARIANTS
  NamesAreTranslated
