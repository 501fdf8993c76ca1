\* Up to four rows with three creation times, in pages of up to two.
CONSTANTS
    MaxRows = 4
    MaxLimit = 2
    Time = {1, 2, 3}
SPECIFICATION Spec
INVARIANTS
    TypeOK
    WalkMissesNothing
    EveryRowOnOnePage
CHECK_DEADLOCK FALSE
