CONSTANTS
  FieldsCount = 4
  Chars = {c1, c2}
  MaxInsert = 2
  Intermediate = FALSE
SPECIFICATION Spec
INVARIANT EnteredAfterHasEntered
