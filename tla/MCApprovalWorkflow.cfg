SPECIFICATION Spec
CONSTANTS
    r1 = r1
    r2 = r2
    emp = emp
    ann = ann
    bob = bob
    NoUser = NoUser
    Reports = {r1}
    Users = {emp, ann, bob}
    Owner <- MCOwner
    MaxLevel = 2
    MaxEdits = 1
    EnforcesLength = FALSE
    DelegationPairs <- MCPairs
    OrgCharts <- MCOrgCharts
INVARIANTS
    StagesInOrder
    
    OwnerNeverDecidesForHimself
PROPERTIES
    DecidedByCurrentAssignee
    EscalationSticks
