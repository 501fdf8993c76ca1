\* Two registrations and three session requests, with up to one failing statement.
CONSTANTS
    Registration = {r1, r2}
    Request = {q1, q2, q3}
    Email = {e1, e2}
    Password = {p1, p2}
    Null = Null
    MaxFaults = 1
SPECIFICATION Spec
SYMMETRY Symmetry
INVARIANTS
    TypeOK
    EmailHasOneMerchant
    SessionsCoexist
    TokensComeFromLogin
PROPERTY RefusedOnlyForCause
CHECK_DEADLOCK FALSE
