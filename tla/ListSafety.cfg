\* Two merchants asking for the first page; three rows, more than a page, decided meanwhile.
CONSTANTS
    Merchant = {m1, m2}
    Tx = {t1, t2, t3}
    Reader = {r1}
    Query <- FirstPageOnly
    Outcome = {"FAILED"}
    HotLimit = 2
SPECIFICATION Spec
SYMMETRY Symmetry
INVARIANTS
    TypeOK
    OwnTransactionsOnly
    MetaCoversData
    HotPageComplete
CHECK_DEADLOCK FALSE
