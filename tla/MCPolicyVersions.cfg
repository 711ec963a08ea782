SPECIFICATION PolicySpec
CONSTANTS
    meals = meals
    cafe = cafe
    Any = Any
    Versions = {1, 2}
    Categories = {meals}
    Vendors = {cafe}
    CategoryLimit <- MCCategoryLimit
    Windows <- MCWindows
    RuleSets <- MCRuleSets
    Claims = {1}
    Baskets <- MCBaskets
    MaxTime = 1
    MaxChanges = 3
INVARIANTS
    AppliedRulesFrozen
    SubmittedWithinLimits
PROPERTIES
    NoGap
    ScheduleKept
CHECK_DEADLOCK FALSE
