CONSTANTS
    ann = ann
    bob = bob
    cy = cy
    k1 = k1
    k2 = k2
    k3 = k3
    Person = {ann, bob, cy}
    Key = {k1, k2, k3}
    Company = {acme}
    MaxWeight = 255
    Founding <- MCFounding
    Amendment <- MCAmendment
    Items <- MCItems
    ChannelId = {"owners"}
    Offered = {"yes"}
    MaxItems = 2
    MaxHeight = 4
SPECIFICATION Spec
INVARIANTS
    MeetingsVerify
    NeverStranded
    OneItemPerBallot
CHECK_DEADLOCK FALSE
