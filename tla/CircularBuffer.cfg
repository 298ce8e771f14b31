\* A buffer of 3 slots: it fills, wraps and overwrites; entries of size 0, 1 and 2.
CONSTANTS
  N = 3
  NULL = NULL
  Ptrs = {p1, p2, p3}
  MaxSize = 2
SPECIFICATION Spec
INVARIANTS TypeOK IndicesAgree FindIsConcatenation
PROPERTY ImplementsRecentEntries
