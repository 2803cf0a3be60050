CONSTANTS
  Session = {s1}
  MaxRow = 2
  Val = {v1}
  Absent = Absent
  Clean = Clean
  Free = Free
  Backend = "mssql"
  Handle = {h1}
  NoHandle = NoHandle
SPECIFICATION Spec
INVARIANT AtomicUntilEnd
