\* One request after the other, at an endpoint with one throttler and at one with all four;
\* time for two windows.
CONSTANTS
    Req = {r1, r2, r3, r4}
    Endpoint = {"auth", "undecorated"}
    Limit <- ScaledLimit
    Ttl = 2
    MaxInFlight = 1
    MaxClock = 4
    MaxFaults = 0
SPECIFICATION Spec
INVARIANTS
    TypeOK
    AdmittedWithinLimit
    BlockIsRespected
CHECK_DEADLOCK FALSE
