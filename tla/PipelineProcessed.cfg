\* README: every created transaction is processed; one lost connection or one crash.
CONSTANTS
    Tx = {t1}
    Msg = {m1, m2}
    Job = {j1, j2}
    MaxFaults = 1
SPECIFICATION FairSpec
PROPERTY
    CreatedIsProcessed
CHECK_DEADLOCK FALSE
