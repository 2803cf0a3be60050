\* Calls are counted, so the system stops.
SPECIFICATION Spec
CONSTANTS
    Thread = {t1, t2}
    None = None
    Codes <- MCCodes
    Capacity <- MCCapacity
    NumIndexes = 2
    SegmentIndex <- MCSegmentIndex
    Row = {1, 2}
    KeyOf <- MCKeyOf
    CountRange = 4
    MaxCalls = 3
SYMMETRY Perms
INVARIANT TablesBeforeCalls
INVARIANT StatTellsWhatWas
INVARIANT BiasedCodesAreHandled

CHECK_DEADLOCK FALSE
