\* Three uploads for an item and a policy, with two contents.
CONSTANTS
    Files = {f1, f2, f3}
    Items = {i1}
    Policy = Policy
    Contents = {c1, c2}
    None = None
    MaxAnalyses = 2
SPECIFICATION Spec
SYMMETRY Symmetry
CHECK_DEADLOCK FALSE
INVARIANTS
    FilesMatchRows
    CurrentDocumentIsFound
    OneOriginal
PROPERTIES
    ReceiptsFrozenUnderReview
