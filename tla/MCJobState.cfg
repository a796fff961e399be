SPECIFICATION FairSpec
CONSTANTS
  k1 = k1
  k2 = k2
  a = a
  b = b
  Key <- MCKey
  Reader <- MCReader
  CursorFormat = {raw, sha256}
  SaveFormat = sha256
  Formats <- MCFormats
  Former <- MCFormer
  raw = raw
  sha256 = sha256
  MaxUpdates = 2
CHECK_DEADLOCK FALSE
INVARIANTS
  NothingForgotten
  DirtyIsScheduled
  ReadYourWrites
PROPERTIES
  ReadsEnd
