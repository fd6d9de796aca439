CONSTANTS
    ann = ann
    bob = bob
    k1 = k1
    k2 = k2
    k3 = k3
    Person = {ann, bob}
    Key = {k1, k2, k3}
    Company = {acme}
    Founding <- MCFounding
    Amendment <- MCAmendment
    Proposal <- MCProposal
    ChannelId = {"ceo"}
    File = {f1}
    Process = {p1, p2}
    Ahead = 0
    MaxHeight = 3
SPECIFICATION Spec
INVARIANTS
    RecordsVerify
    NeverStranded
    RecordedOnce
CHECK_DEADLOCK FALSE
