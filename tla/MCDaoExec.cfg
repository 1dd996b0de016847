CONSTANTS
    Holders = {"dao", "alice"}
    Tokens = {"t1", "t2"}
    DaoCoins <- MCDaoCoins
    Proposals <- MCProposals
    MaxExecs = 3
SPECIFICATION Spec
CHECK_DEADLOCK FALSE
INVARIANT TypeOK
INVARIANT XferBalanced
INVARIANT WalletMirrorsValidator
INVARIANT CallsInPostOrder
