CONSTANTS
    NullifiersNS = "nullifiers"
    UnstakedCoinsNS = "unstaked_coins"
    StakedRootsNS = "staked_roots"
    InfoNS = "info"
    UnstakedRootsNS = "unstaked_roots"
    TreeKey = "tree"
    RootKey = "latest_root"
    CurrentEpoch = 3
    GRACE_PERIOD = 1
    EpochModulus = 8
    OverflowChecks = FALSE
    TxInputs <- MCTxInputs
    InitStore <- MCInitStore
    MaxTxs = 3
    PerCallApply = FALSE
    InsertMayFail = FALSE
    GasLimit = 11
SPECIFICATION Spec
CHECK_DEADLOCK FALSE
INVARIANT NoDoubleSpend
