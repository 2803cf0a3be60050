CONSTANTS
  MaxRec = 2
  NParts = 2
  Val = {0, 1}
  Record <- Halves
  Absent = Absent
  TokenRange = 2
  MaxCount = 2
SPECIFICATION HandleSpec
INVARIANTS HandleTypeOK WritesReachCurrent BatchCounted
PROPERTY FreshChunkKeepsTheRest
