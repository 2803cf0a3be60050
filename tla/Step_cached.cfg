CONSTANTS
  MaxRec = 4
  a = a
  b = b
  Record <- TwoRecords
  Absent = Absent
  Chunk = 3
  StepFilters <- AllOrB
  MaxRecs = 2
SPECIFICATION StepSpec
INVARIANTS StepTypeOK StepSkipsNothing CacheIsSorted CacheHasNoGaps PercentRoundTrip
