\* One transaction, one callback and two faults; the page create clears.
CONSTANTS
    Tx = {t1}
    Msg = {m1}
    Job = {j1}
    MaxFaults = 2
    Merchant = {a}
    Reader = {r1}
    Query <- OnlyFirstPage
    HotLimit = 2
SPECIFICATION Spec
INVARIANT
    ShownOutcomeStands
PROPERTIES
    ImplementsList
    EventuallyFresh
    ConfirmedIsShown
CHECK_DEADLOCK FALSE
