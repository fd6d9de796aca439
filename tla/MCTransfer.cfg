CONSTANTS
    MAX_BLOCKS = 2
    MAX_TRANSACTIONS_PER_BLOCK = 2
    Founding <- MCFounding
    SourceTxs <- MCSourceTxs
    LocalTxs <- MCLocalTxs
    Requests <- MCRequests
    Damages <- MCDamages
    Now = 2
    MaxHeight = 2
    MaxExports = 1
SPECIFICATION FairSpec
INVARIANTS
    DryRunHonest
    BackupRestores
    AlteredNeverApplied
    ReimportIsNoOp
    HeadIsTheAnchor
    RangesMeanWhole
PROPERTIES
    CommandsEnd
