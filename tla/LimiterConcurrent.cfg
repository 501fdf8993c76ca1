\* Overlapping requests and a cache call that fails.
CONSTANTS
    Req = {r1, r2, r3, r4}
    Endpoint = {"auth"}
    Limit <- ScaledLimit
    Ttl = 1
    MaxInFlight = 2
    MaxClock = 3
    MaxFaults = 1
SPECIFICATION Spec
INVARIANTS
    QuietClientAdmitted
    RejectedOnlyAboveLimit
CHECK_DEADLOCK FALSE
