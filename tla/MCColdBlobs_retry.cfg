SPECIFICATION BlobsSpec
CONSTANTS
  Thread = {t1}
  Blob = {small, large}
  small = small
  large = large
  Large = {large}
  NoRow = NoRow
  MaxSeals = 2
  MaxCrashes = 1
INVARIANTS
  PutIsReadable
CHECK_DEADLOCK FALSE
