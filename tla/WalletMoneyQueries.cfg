CONSTANTS
    t1 = t1
    t2 = t2
    a1 = a1
    a2 = a2
    CoinIds = {1, 2}
    Tokens = {t1, t2}
    Values = {1, 3}
    AliasNames = {a1, a2}
    U64Modulus = 4
    OverflowChecks = TRUE
SPECIFICATION Spec
INVARIANT TypeOK
PROPERTY BalanceIsSum
PROPERTY AliasesByTokenInverse
