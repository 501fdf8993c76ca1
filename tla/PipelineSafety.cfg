\* Two transactions, room for a duplicate message and for a zombie callback, two faults.
CONSTANTS
    Tx = {t1, t2}
    Msg = {m1, m2}
    Job = {j1, j2}
    MaxFaults = 2
SPECIFICATION Spec
SYMMETRY Symmetry
INVARIANTS
    TypeOK
    PendingIsAccountedFor
    EventsReferToRows
    UnackedHasOneCallback
PROPERTIES
    ImplementsLedger
    DecidedOnce
CHECK_DEADLOCK FALSE
