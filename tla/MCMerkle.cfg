CONSTANTS
    Ids <- MCIds
SPECIFICATION MerkleSpec
INVARIANTS
    EveryIndexProves
    ProofBinds
    OnlyLeavesProve
    RootCommits
CHECK_DEADLOCK FALSE
