CONSTANTS
    ann = ann
    bob = bob
    k1 = k1
    k2 = k2
    k3 = k3
    Person = {ann, bob}
    Key = {k1, k2, k3}
    Company = {acme}
    Founding <- MCFounding
    Amendment <- MCAmendment
    MaxWeight = 255
    Proposal <- MCProposal
    Agenda <- MCAgenda
    ChannelId = {"ceo", "aide", "board"}
    File = {f1}
    Process = {p1}
    Substitute <- MCSubstitute
    MaxDecisions = 1
    MaxChanges = 4
SPECIFICATION Spec
INVARIANTS
    RecordsVerify
    SpentOnce
    OnlySharesAddSeats
PROPERTIES
    VerdictsStand
CHECK_DEADLOCK FALSE
