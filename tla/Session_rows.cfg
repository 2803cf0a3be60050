CONSTANTS
  Session = {s1}
  MaxRow = 2
  Val = {v1}
  Absent = Absent
  Clean = Clean
  Free = Free
  Backend = "sqlite"
  Handle = {h1, h2}
  NoHandle = NoHandle
SPECIFICATION Spec
INVARIANTS IInv
PROPERTY ImplementsTxnStore
