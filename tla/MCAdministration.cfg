SPECIFICATION CommandSpec
CONSTANTS
    U64Max = 1023
    ONE = 1000
    Wallets = {w1, w2}
    Operators = {w1}
    Keyless = keyless
    Pools = {p, q}
    Mints = {m, n}
    Protocol = protocol
    Nobody = nobody
    Data = {d}
    MaxSent = 2
    Files <- MCFiles
    Fees <- MCFees
    FlashFees <- MCFlashFees
    Terms <- MCTerms
    DefaultTerms <- MCDefault
    Proposed <- MCProposed
INVARIANT OnlyOvertakenFail
INVARIANT AdminTypeOK
INVARIANT LpTokenIsThePools
PROPERTY CustodySpec
PROPERTY FeesAreFiled
CONSTRAINT MCApart
CONSTRAINT MCFewSettings
SYMMETRY MCSymmetry
