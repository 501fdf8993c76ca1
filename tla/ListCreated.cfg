\* README: the cache clears when a transaction is created.
CONSTANTS
    Merchant = {m1}
    Tx = {t1, t2}
    Reader = {r1, r2}
    Query <- FirstPageOnly
    Outcome = {}
    HotLimit = 2
SPECIFICATION Spec
INVARIANT
    CreatedIsListed
CHECK_DEADLOCK FALSE
