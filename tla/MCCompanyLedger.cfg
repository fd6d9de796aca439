CONSTANTS
    ann = ann
    bob = bob
    k1 = k1
    k2 = k2
    board = board
    garbled = garbled
    Blank = Blank
    Lined = Lined
    Spaced = Spaced
    Person = {ann, bob}
    Key = {k1, k2}
    ChannelId = {board}
    MaxWeight = 4
    MAX_HOLDERS = 2
    MAX_MEMBERS = 2
    MAX_CHANNELS = 2
    MAX_PERSONS = 2
    Notarisation <- MCNotarisation
    Publisher = {p1, p2}
    Company = {acme}
    Founding <- MCFounding
    Amendment <- MCAmendment
    Exclusive = TRUE
    MaxHeight = 4
SPECIFICATION Spec
INVARIANTS
    Reconstructible
    NoClobber
PROPERTIES
    PastIsFixed
    ImplementsRegister
CHECK_DEADLOCK FALSE
