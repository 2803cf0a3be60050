CONSTANTS
  MaxRec = 3
  Absent = Absent
  Record <- Records
  Indexes <- MixedIndexes
  Keys <- KeyBuffers
  NullWildcard = TRUE
  Filters <- AllFilters
  MaxBatch = 2
SPECIFICATION KeySpec
INVARIANTS WalkSkipsNothing NeighboursWhenFlagged EqualMeansEqual EqualFirstWhenAscending
