CONSTANTS
    txa = txa
    txb = txb
    t1 = t1
    t2 = t2
    TxBody <- MCTxBody
    Block <- MCBlock
    Genesis <- MCGenesis
    Thread <- MCThread
    BatchBound = 2
SPECIFICATION Spec
INVARIANTS
    TypeOK
    LookupsAgree
    ChainValid
    Acknowledged
    RangeIsChain
PROPERTIES
    ImplementsLedger
CHECK_DEADLOCK FALSE
