\* README: 50 requests per minute at the transaction endpoints.
CONSTANTS
    Req = {r1, r2, r3, r4}
    Endpoint = {"transactions"}
    Limit <- ScaledLimit
    Ttl = 2
    MaxInFlight = 1
    MaxClock = 4
    MaxFaults = 0
SPECIFICATION Spec
INVARIANT
    RejectedOnlyAboveDocumented
CHECK_DEADLOCK FALSE
