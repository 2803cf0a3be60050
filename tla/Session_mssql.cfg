CONSTANTS
  Session = {s1, s2}
  MaxRow = 1
  Val = {v1}
  Absent = Absent
  Clean = Clean
  Free = Free
  Backend = "mssql"
  Handle = {h1}
  NoHandle = NoHandle
SPECIFICATION Spec
SYMMETRY Symmetry
INVARIANTS TypeOK OpenTxnIsFlagged LocksHeldByCalls OneWriterPerRow TransactionKeepsItsWrites
PROPERTIES ExclusiveReadsStable ImplementsTxnStore
