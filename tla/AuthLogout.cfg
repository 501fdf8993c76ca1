\* A login and a logout while the database works.
CONSTANTS
    Registration = {r1, r2}
    Request = {q1, q2}
    Email = {e1, e2}
    Password = {p1, p2}
    Null = Null
    MaxFaults = 0
SPECIFICATION Spec
SYMMETRY Symmetry
PROPERTY LogoutInvalidates
CHECK_DEADLOCK FALSE
