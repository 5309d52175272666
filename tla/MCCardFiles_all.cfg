\* Iterations and whole-file functions while other tasks change the card.
SPECIFICATION Spec
CONSTANTS
  Names = {f, g, d}
  Dirs = {d}
  Books = Books
  Dots = {dot}
  Slots = {s1, s2, s3}
  Bytes = {0, 1}
  MaxLen = 2
  None = None
  Cap = 1
  Volatile = {f}
  Written = {f}
INVARIANTS DescriptorsOwned IterationComplete AllOrNothing
