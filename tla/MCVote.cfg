CONSTANTS
    ann = ann
    bob = bob
    cy = cy
    k1 = k1
    k2 = k2
    k3 = k3
    Person = {ann, bob, cy}
    Key = {k1, k2, k3}
    Company = {acme}
    MaxWeight = 255
    Founding <- MCFounding
    Amendment <- MCAmendment
    Proposal <- MCProposal
    ChannelId = {"owners"}
    Offered = {"yes","no"}
    File = {f1}
    Process = {p1, p2}
    Ahead = 0
    MaxHeight = 2
SPECIFICATION Spec
INVARIANTS
    VotesVerify
    NeverStranded
    KeylessCount
    RecordedOnce
PROPERTIES
    FirstBallotStands
CHECK_DEADLOCK FALSE
