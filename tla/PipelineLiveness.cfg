\* One transaction, whose event may be resent; two callbacks and two faults.
CONSTANTS
    Tx = {t1}
    Msg = {m1, m2}
    Job = {j1, j2}
    MaxFaults = 2
SPECIFICATION FairSpec
PROPERTIES
    CreatedIsDecided
    BrokerDrains
CHECK_DEADLOCK FALSE
