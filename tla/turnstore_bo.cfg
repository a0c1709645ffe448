SPECIFICATION Spec
CONSTANTS
  Turns = {t1, t2}
  Uploads = {u1}
  Blobs = {b1}
  MaxPending = 1
  MaxRounds = 1
  BackOffice = TRUE
  Closer = Closer
  None = None
CHECK_DEADLOCK FALSE
SYMMETRY Symmetry
INVARIANTS LogDense RefsMatchRows
PROPERTIES AppendOnly FrozenToUsers ImplementsSessionLog
