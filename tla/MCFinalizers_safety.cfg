SPECIFICATION Spec
CONSTANTS
  Mutators = {m1, m2}
  Objects = {o1, o2}
  Pointers = {f}
  Null = Null
  Moving = TRUE
  debug_assertions = FALSE
  MaxEntries = 2
SYMMETRY Symmetry
INVARIANTS
  TypeOK
  EntriesAreLive
  ThreadListsAreEmptied
  PendingFlag
PROPERTIES
  PassProgresses
  ImplementsRegistry
