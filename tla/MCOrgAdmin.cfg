SPECIFICATION Spec
CONSTANTS
    u1 = u1
    u2 = u2
    u3 = u3
    d1 = d1
    d2 = d2
    Nobody = Nobody
    SuperAdmin = u1
    Users = {u1, u2, u3}
    Departments = {d1, d2}
    RoleSets <- MCRoleSets
    MaxColumns = 1
    MaxChanges = 2
SYMMETRY Interchangeable
INVARIANTS
    AdministratorRemains
    NoReportingCycle
    NobodyReportsToInactive
    NobodyInClosedDepartment
    EverybodyIsShown
CHECK_DEADLOCK FALSE
