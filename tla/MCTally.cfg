CONSTANTS
    a = a
    b = b
    c = c
    Voter = {a, b, c}
    MaxWeight = 14
    Poll <- MCPoll
SPECIFICATION Spec
INVARIANTS
    NothingPanics
    AuditorsAddUp
    RecordedQuorumDecides
PROPERTIES
    BallotsPullTheirWay
CHECK_DEADLOCK FALSE
