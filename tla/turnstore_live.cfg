SPECIFICATION FairSpec
CONSTANTS
  Turns = {t1, t2}
  Uploads = {u1, u2}
  Blobs = {b1}
  MaxPending = 1
  MaxRounds = 0
  BackOffice = TRUE
  Closer = Closer
  None = None
CHECK_DEADLOCK FALSE
PROPERTIES TurnsEnd UploadsEnd
