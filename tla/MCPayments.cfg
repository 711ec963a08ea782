SPECIFICATION Spec
CONSTANTS
    r1 = r1
    r2 = r2
    r3 = r3
    b1 = b1
    b2 = b2
    NoBatch = NoBatch
    Reports = {r1, r2, r3}
    Batches = {b1, b2}
    Amounts = {1, 2}
    Currencies = {"INR", "USD"}
SYMMETRY Interchangeable
INVARIANTS
    BatchMatchesRows
    DownloadsAgree
PROPERTIES
    RefinesReimbursement
CHECK_DEADLOCK FALSE
