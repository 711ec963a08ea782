SPECIFICATION FairSpec
CONSTANTS
    r1 = r1
    r2 = r2
    emp = emp
    ann = ann
    bob = bob
    NoUser = NoUser
    Reports = {r1, r2}
    Users = {emp, ann, bob}
    Owner <- MCOwner
    MaxLevel = 1
    MaxEdits = 0
    EnforcesLength = FALSE
    DelegationPairs <- MCOnePair
    OrgCharts <- MCSteadyOrg
PROPERTIES
    OverdueTasksAreHandled
    AssignmentsSettle
