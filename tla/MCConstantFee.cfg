CONSTANTS
    U64Max = 60
    ONE = 1000
    Users = {u1}
    Stakes = {s1}
    Pool = Pool
    Nobody = Nobody
    RecordRent = 2
    WalletRent = 1
    StakeMin = 4
    SolSupply = 38
    Deposits = {20}
    Burns = {}
    StakeAmounts = {5}
    Donations = {}
    Fees <- MCConstantSchedule
    ProtocolFees <- MCNoProtocolFee
SPECIFICATION Spec
INVARIANTS ValidFeeQuotes
