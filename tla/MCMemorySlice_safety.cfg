SPECIFICATION Spec
CONSTANTS
  Words = 5
  Values = {a, b, c}
INVARIANTS
  TypeOK
  CopiesLikeMemmove
  WordsAreOldOrNew
