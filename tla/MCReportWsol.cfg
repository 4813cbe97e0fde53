CONSTANTS
    U64Max = 63
    ONE = 100
    Users = {u1}
    Stakes = {s1, s2}
    Pool = Pool
    Nobody = Nobody
    RecordRent = 3
    WalletRent = 2
    StakeMin = 5
    SolSupply = 50
    Deposits = {20}
    Burns = {}
    StakeAmounts = {10}
    Donations = {}
    Fees <- MCFees
    ProtocolFees <- MCProtocolFees
    BatchSizes = {1, 2}
    MaxHistory = 4
SPECIFICATION ReportSpec
INVARIANT ReportIsComplete
