SPECIFICATION Spec
CONSTANTS
    i1 = i1
    i2 = i2
    s1 = s1
    s2 = s2
    Items = {i1, i2}
    Sessions = {s1, s2}
    Amounts = {1, 2}
INVARIANTS
    SubmittedTotalIsSum
    PaymentIsReviewedTotal
PROPERTIES
    NoLostEdit
CHECK_DEADLOCK FALSE
