SPECIFICATION Spec
CONSTANTS
  Names = {a, b}
  Threads = {t1, t2}
  None = None
  MaxEdits = 1
SYMMETRY Interchangeable
INVARIANT TypeOK
INVARIANT CallsKeepTheirInstance
INVARIANT NamesAreExact
