SPECIFICATION Spec
CONSTANTS
  Turns = {t1, t2}
  Uploads = {u1, u2, u3}
  Blobs = {b1, b2, b3}
  MaxPending = 2
  MaxRounds = 0
  BackOffice = FALSE
  Closer = Closer
  None = None
CHECK_DEADLOCK FALSE
SYMMETRY Symmetry
INVARIANTS PendingBounded RowsHaveBlobs
PROPERTIES ImplementsSessionLog
