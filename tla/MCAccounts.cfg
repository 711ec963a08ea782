\* Two accounts, two subjects and two addresses, one the SUPER_ADMIN_EMAIL.
CONSTANTS
    Accounts = {a1, a2}
    Emails = {boss, worker}
    SuperAdminEmail = boss
    Subjects = {s1, s2}
    Null = Null
    MaxTokens = 3
SPECIFICATION AccountSpec
SYMMETRY Symmetry
CHECK_DEADLOCK FALSE
INVARIANTS
    OneSubjectPerAccount
PROPERTIES
    DecisionsStand
    InvitationsMatchAccounts
