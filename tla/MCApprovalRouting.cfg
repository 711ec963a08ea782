SPECIFICATION RoutingSpec
CONSTANTS
    u1 = u1
    u2 = u2
    u3 = u3
    d1 = d1
    Nobody = Nobody
    SuperAdmin = u1
    Users = {u1, u2, u3}
    Departments = {d1}
    RoleSets <- MCRoleSets
    MaxColumns = 1
    MaxChanges = 3
    Rules = {1, 2}
    Chains <- MCChains
    Totals = {1}
    AnyDepartment = AnyDepartment
INVARIANTS
    RoutesAreSound
    RefusalsHaveAReason
CHECK_DEADLOCK FALSE
