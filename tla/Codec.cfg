CONSTANTS
  Files <- FilesMC
  Slices <- SlicesMC
  NewId <- NewIdMC
  NoRow = NoRow
  MaxSegs = 3
SPECIFICATION Spec
INVARIANT KeyFindsRecord
PROPERTIES InsertReadsBack UpdateChangesOnlyEdits
