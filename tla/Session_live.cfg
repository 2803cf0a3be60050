CONSTANTS
  Begins = {1019}
  Session = {s1, s2}
  MaxRow = 1
  Val = {v1}
  Absent = Absent
  Clean = Clean
  Free = Free
  Backend = "postgres"
  Handle = {h1}
  NoHandle = NoHandle
SPECIFICATION FairSpec
PROPERTY EveryCallReturns
