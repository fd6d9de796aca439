CONSTANTS
    ann = ann
    bob = bob
    cy = cy
    k1 = k1
    k2 = k2
    k3 = k3
    Person = {ann, bob, cy}
    Key = {k1, k2, k3}
    Company = {acme}
    MaxWeight = 255
    Founding <- MCFounding
    Amendment <- MCAmendment
    Proposal <- MCProposal
    ChannelId = {"owners"}
    Offered = {"yes", "no"}
    File = {f1}
    Process = {p1}
    Ahead = 1
    MaxHeight = 2
SPECIFICATION Spec
INVARIANTS
    FrozenForGood
CHECK_DEADLOCK FALSE
